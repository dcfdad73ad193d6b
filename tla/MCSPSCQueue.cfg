SPECIFICATION RingSpec
CONSTANTS
  N = 4
  Items = {a, b}
  NoItem = none
INVARIANTS
  NoSlotRace
PROPERTY
  ImplementsFIFO
