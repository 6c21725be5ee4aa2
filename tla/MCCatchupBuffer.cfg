SPECIFICATION Spec
CONSTANTS
  Capacity = 4
  MaxSize = 6
  Lens <- PayloadLens
  MaxStores = 11
INVARIANTS Contents ReplayExact Accounted
PROPERTIES Implements EvictsNoMore
