\* A configuration with a comment that is not written in ASCII.
CONSTANTS
  NumButtons = 3
  DefaultFirst = 2
  NumDefaults = 2
  Start = 1
  R1 = 3
  PadPorts = {0}
  Sources <- AllSources
  HddSource <- HddIndex
  SecondSource <- Second
  DefaultPaths <- Defaults3
  Configs <- CommentText
  Parties = {"sysconf"}
  FileNames = {"none", "INI", "ULE", "OPL", "BOOT", "RESCUE.ELF"}
  Files <- CardFiles
SPECIFICATION FairSpec
PROPERTIES
  CommentsAreSkipped
