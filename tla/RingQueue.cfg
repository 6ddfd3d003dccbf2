CONSTANTS
  a = a
  b = b
  c = c
  Garbage = Garbage
  Entry <- ThreeEntries
  init_capacity = 2
  MaxCapacity = 8
SPECIFICATION Spec
INVARIANTS PointersInside
PROPERTIES IsFifo
