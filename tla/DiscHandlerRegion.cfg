\* A DVD, and updates of the player for two regions.
CONSTANTS
  Discs <- Movies
  NoDisc = nodisc
  Stem <- Stems
  MaxChanges = 0
  MaxCalls = 1
  NoFile = nofile
  Consoles <- OldConsole
  DvdCards <- AllCards
  MaxUpsets = 0
SPECIFICATION Spec
INVARIANTS
  AcceptedIsRight
