\* A SYSTEM.CNF with two lines before BOOT2.
CONSTANTS
  Discs <- LateDisc
  NoDisc = nodisc
  Stem <- Stems
  MaxChanges = 1
  MaxCalls = 1
  NoFile = nofile
  Consoles <- OneConsole
  DvdCards <- NoCards
  MaxUpsets = 0
SPECIFICATION FairSpec
PROPERTIES
  ScanEnds
