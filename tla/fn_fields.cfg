CONSTANTS
  f1 = f1  f2 = f2  n1 = n1  d1 = d1  d2 = d2
  number = number  array = array  points = points  tags = tags
  None = None
  Field = {f1, f2}
  Name = {n1}
  Type = {number, array}
  Column = {points, tags}
  TargetOf <- Targets
  Discoverer = {d1, d2}
  Document <- Documents
  MaxChanges = 3
  MaxFault = 1
SPECIFICATION FairSpec
INVARIANTS TypeOK TransformCanBuild PromotedBoreItsName
PROPERTY DiscoveryCatchesUp
