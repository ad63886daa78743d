\* A PlayStation disc.
CONSTANTS
  Discs <- Ps1Discs
  NoDisc = nodisc
  Stem <- Stems
  MaxChanges = 1
  MaxCalls = 1
  NoFile = nofile
  Consoles <- OneConsole
  DvdCards <- NoCards
  MaxUpsets = 0
SPECIFICATION Spec
INVARIANTS
  StampIsClock
