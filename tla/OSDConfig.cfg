\* Any calls on consoles of any kind, with the console turned off between them.
CONSTANTS
  Consoles <- AllConsoles
  Blocks <- SomeBlocks
  NewLanguages = {1, 9}
  NewTimezones = {7, 128}
  NewScreens = {0, 1}
  NewPSConfigs <- SomePSConfigs
  MaxSets = 2
  Nothing = nothing
SPECIFICATION MCSpec
INVARIANTS
  TypeOK
  CallsCommute
  WriteBackKeeps
  AppliedLanguageIsValid
PROPERTIES
  ImplementsStore
