\* A census, or the derivation of one or two cases, while documents are moved.
SPECIFICATION CorpusSpec
CONSTANTS
  scan = scan
  notes = notes
  notesZip = notesZip
  sheet = sheet
  budget = budget
  unnamed = unnamed
  f = f
  g = g
  h = h
  pdf = pdf
  xlsx = xlsx
  zip = zip
  word = word
  other = other
  Items = {scan, notes, notesZip, sheet, budget, unnamed}
  Type <- MCType
  Supported = {pdf, xlsx}
  Size <- MCSize
  Keyword <- MCKeyword
  Unreadable = {scan}
  Path <- MCPath
  Within <- MCWithin
  FolderIds <- MCFolderIds
  Elsewhere = Elsewhere
  Rankings <- MCRankings
  Homes <- MCHomes
  Places <- MCPlaces
  BatchSize = 2
  VerifyLimit = 2
  Wanteds = {1, 2}
  MaxMoves = 2
  Nothing = Nothing
CHECK_DEADLOCK FALSE
INVARIANTS CorpusTypeOK CensusIsNear LargestOfEach DerivedCasesPass
