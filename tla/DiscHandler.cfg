\* Any discs, changed at any moment, and a DVD with any cards.
CONSTANTS
  Discs <- AllDiscs
  NoDisc = nodisc
  Stem <- Stems
  MaxChanges = 3
  MaxCalls = 2
  NoFile = nofile
  Consoles <- AllConsoles
  DvdCards <- AllCards
  MaxUpsets = 2
SPECIFICATION MCSpec
INVARIANTS
  TypeOK
  WakeupIsDue
  SessionIsClean
  PlayedIsStarted
  TrayOpensOnce
  NewestPlayerRuns
  ShownIsPlayed
  PlayerIsChosen
PROPERTIES
  DiscIsServed
