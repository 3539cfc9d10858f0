SPECIFICATION Spec
CONSTANTS
  Capacity = 4
  Items = {i1, i2, i3}
  Blank = blank
  Empty = empty
INVARIANTS
  TypeOK
  RingInv
PROPERTY
  ImplementsQueue
