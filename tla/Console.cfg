SPECIFICATION MCSpec
CONSTANTS
  Ports = {8, 16}
  Chars = {a, b, NL, CR}
  NoChar = NoChar
  Blank = Blank
  NL = NL
  CR = CR
  MaxTries = 1
  Rows = 2
  Cols = 2
  Firmware <- MCFirmware
  MaxLog = 4
  MaxCalls = 2
  Period = 4
  TicksPerMs = 3
  MaxLag = 3
  Second = 2
  Dots = 2
  Pulses = 2
  MaxPolls = 2
  WordSize = 16
  BufSize = 7
  Texts <- MCTexts
  Calls <- MCPrintfCalls
  HALF_BITS = 3
  Divisions <- MCDivisions
  ULLONG_MAX = 63
  Bases = {0, 1, 2, 8, 10, 16, 36}
  Inputs <- MCInputs
INVARIANTS
  NoOverrun
  SetUpBeforeData
  OutputIsPrefix
  ScreenShowsTail
  LineFollowsScreen
  WaitsAreKept
  ItemsArePrinted
  DivisionIsExact
  EstimateIsClose
  StrtoullIsExact
PROPERTIES
  CallsEnd
  ExitEnds
