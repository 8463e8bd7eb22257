\* Pages whose meta elements are written <meta ...>, as in HTML they are.
SPECIFICATION Spec
CONSTANTS
  Silent = {"head", "script", "meta"}
  Breaks = {"p", "br"}
  Inline = {"td"}
  Raw = {"script"}
  Implied = {"td"}
  Void = {"br", "meta"}
  Slashed = {}
  MaxTokens = 7
CHECK_DEADLOCK FALSE
INVARIANT ReaderTextIsKept
