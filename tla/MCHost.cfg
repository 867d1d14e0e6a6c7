CONSTANTS
  Table = {t1, t2}
  Path = {home, away}
  Home = home
  Half = half
  MaxStack = 3
  MaxVersion = 3
  Obj = {x1, x2, x3}
  Ptr = {p1, p2, p3, p4}
  Word = 16
  Byte = 4
  Free = free
  Number <- MCNumber
  Unit = 4
  Epsilon = 1
  Text <- MCText
  EmptyText = ""
  FalseText = {"false"}
  Decimal <- MCDecimal
  MaxRound = 4
  Proc = {c1, c2}
  CallPath <- MCCallPath
  Cwd <- MCCwd
  PlainFile <- MCPlainFile
  Texts <- MCTexts
  Formats <- MCFormats
  Paths <- MCPaths
  Dates <- MCDates
  Deltas <- MCDeltas
  Tokens <- MCTokens
  MaxToken = 3
  Items <- MCItems
  MaxItem = 3
  Name <- MCName
  MaxInteger = 7
  PatternTexts <- MCPatternTexts
  Patterns <- MCPatterns
  CodePoints <- MCCodePoints
  MaxCodes = 2
  OddBytes <- MCOddBytes
  MaxOdd = 3
  Lexemes <- MCLexemes
  Spaces <- MCSpaces
  Malformed <- MCMalformed
  Lists <- MCLists
  Orders <- MCOrders
SPECIFICATION HostSpec
INVARIANTS CfgTypeOK NothingLost MeasuresItsTable OneOwner ReadsAgree NearlyOne MakesDirs HelpersAgree FindsItsTable
PROPERTY LibraryAgrees ImplementsCells
