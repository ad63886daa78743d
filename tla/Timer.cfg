\* Two windows of up to three periods, with an interrupt between any two steps.
CONSTANTS
  Period = 4
  Scale = 2
  RescueWait = 3
  Delays <- Waits
  Word = 1000
  Lag = 2
  MaxTicks = 24
SPECIFICATION Spec
INVARIANTS
  TypeOK
  NoOverflowLost
  ReadingIsClose
  WindowIsTimely
PROPERTIES
  WindowsEnd
