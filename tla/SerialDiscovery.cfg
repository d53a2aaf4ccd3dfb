SPECIFICATION MCSpec
CONSTANTS
  BusDevices = 2
  MaxFunction = 2
  BarNum = 2
  NoDevice = NoDevice
  Configs <- MCConfigs
  a = a
  p = p
  NUL = NUL
  Blank = Blank
  Null = Null
  BufSize = 8
  Letters <- MCLetters
  Promisc <- MCPromisc
  AcceptLegacy <- MCAcceptLegacy
  PhysMax <- MCPhysMax
  Cmdlines <- MCAllCmdlines
  Equipments <- MCEquipments
  Com0s = {0, 760}
  ComPorts <- MCComPorts
  Stuck = {760}
  Tests = 2
  Tries = 2
  MaxStddev = 2
  MaxRetries = 1
  Word = 64
  Precision = 32
  Durations <- MCDurations
INVARIANTS
  ScanIsExact
  PatchNamesLastController
  OutputFindsItsPort
  OptionsAreExact
  EachPortIsAnnounced
PROPERTIES
  PatchAfterScanBeforeOutput
  FiguresAreMeasured
