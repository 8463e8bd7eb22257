\* Pages whose silent elements are all closed.
SPECIFICATION Spec
CONSTANTS
  Silent = {"head", "script", "meta"}
  Breaks = {"p", "br"}
  Inline = {"td"}
  Raw = {"script"}
  Implied = {"td"}
  Void = {"br"}
  Slashed = {"meta"}
  MaxTokens = 7
CHECK_DEADLOCK FALSE
INVARIANTS TypeOK ReaderTextIsKept BlocksStayApart
PROPERTY BrowserTextIsDropped
