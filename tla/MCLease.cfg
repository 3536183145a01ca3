SPECIFICATION LeaseSpec
CONSTANTS
  p1 = p1
  p2 = p2
  p3 = p3
  o1 = o1
  o2 = o2
  o3 = o3
  NoRow = NoRow
  Proc = {p1, p2, p3}
  Owner = {o1, o2, o3}
  OwnerOf <- OwnOwner
  TTL = 2
  MaxTime = 5
INVARIANTS
  LeaseExclusion
PROPERTIES
  RowTakenOnlyWhenExpired
