SPECIFICATION Spec
CONSTANTS
  BusDevices = 2
  MaxFunction = 2
  BarNum = 2
  NoDevice = NoDevice
  Configs <- MCConfigs
  Cmdlines <- MCCmdlines
  a = a
  p = p
  NUL = NUL
  Blank = Blank
  Null = Null
  BufSize = 8
  Letters <- MCLetters
  Promisc <- MCPromisc
  AcceptLegacy <- MCAcceptLegacy
  PhysMax <- MCPhysMax
  Equipments <- MCEquipments
  Com0s = {0, 760}
INVARIANT
  AcceptLegacyHonoured
