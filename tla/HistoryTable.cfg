\* Three slots for four games, and a mask of three bits that grows at the counts
\* of two and four: every record can be blank, growing, full or pinned.
CONSTANTS
  Names = {g1, g2, g3, g4}
  Blank = blank
  Dates = {1, 2}
  MaxEntries = 3
  NumBits = 3
  FullMask = 5
  FirstMilestone = 2
  MilestoneStep = 2
  CountClamp = 7
SYMMETRY NameSymmetry
SPECIFICATION Spec
INVARIANTS
  TypeOK
  UniqueNames
  RecordsConsistent
  ExiledIsGone
PROPERTIES
  VictimIsLeastUsed
  RecordsOnlyGrow
