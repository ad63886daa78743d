\* A console whose OSDVER names no language of the program's list.
CONSTANTS
  Consoles <- OneConsole
SPECIFICATION RegionSpec
INVARIANTS
  DefaultLanguageIsValid
