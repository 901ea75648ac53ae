SPECIFICATION Spec
CONSTANTS
  Requests = {r1, r2}
  Tower = {}
  Bound = 1
  MaxResends = 2
INVARIANTS WaitersBounded
