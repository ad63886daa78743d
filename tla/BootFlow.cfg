\* One pad, two cards, a USB drive and a hard disk, under fairness.
CONSTANTS
  NumButtons = 3
  DefaultFirst = 2
  NumDefaults = 2
  Start = 1
  R1 = 3
  PadPorts = {0}
  Sources <- AllSources
  HddSource <- HddIndex
  SecondSource <- Second
  DefaultPaths <- Defaults3
  Configs <- Texts
  Parties = {"sysconf", "games"}
  FileNames = {"none", "INI", "ULE", "OPL", "BOOT", "IRX", "RESCUE.ELF", "", "CDVD", "HDDCHECKER", "CREDITS", "OSDSYS"}
  Files <- AllFiles
SPECIFICATION MCSpec
INVARIANTS
  TypeOK
  ResourcesHeld
  HandoverIsClean
  LaunchIsBound
  PartitionIsOwn
PROPERTIES
  BootSettles
  BootAdvances
  EmergencyIsReachable
  RescueIsStarted
