\* Any pair of cards, and up to two failures in behaviours of two games.
CONSTANTS
  Names = {g1, g2, g3, g4}
  Past = g1
  Fewer = {g1, g2}
  Blank = blank
  Dates = {1}
  MaxEntries = 2
  NumBits = 1
  FullMask = 1
  FirstMilestone = 2
  MilestoneStep = 1
  CountClamp = 2
  NoFile = nofile
  InitialCards <- AnyCards
  MaxFaults = 2
SPECIFICATION MCSpec
INVARIANTS
  TypeOK
  AddsToWholeTable
  SomeCopyIsWhole
  GamesAreConserved
PROPERTIES
  IconComesLast
  ImplementsTable
