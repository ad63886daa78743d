\* The first card holds a history but reports too little free space.
CONSTANTS
  Names = {g1, g2, g3}
  Past = g1
  Fewer = {g1, g2}
  Blank = blank
  Dates = {1}
  MaxEntries = 2
  NumBits = 1
  FullMask = 1
  FirstMilestone = 2
  MilestoneStep = 1
  CountClamp = 2
  NoFile = nofile
  InitialCards <- OneRefuses
  MaxFaults = 0
SPECIFICATION Spec
INVARIANTS
  LaunchIsDurable
