CONSTANTS
  f1 = f1  f2 = f2  f3 = f3  a = a  i1 = i1  s1 = s1  s2 = s2
  text = text  number = number
  q1 = q1  w1 = w1  w2 = w2
  Field = {f1, f2, f3}
  Column = {a}
  Issue = {i1}
  Scopes <- AllOrOne
  Saver = {s1, s2}
  Requester = {q1}
  Worker = {w1, w2}
  Nobody = Nobody
  NoField = NoField
  Type = {text, number}
  TypeOf <- TwoTypes
  NoType = NoType
  Selected0 <- NoneSaved
  MaxVersion = 2
  MaxClock = 2
  MaxFault = 1
  MaxDrop = 1
SPECIFICATION LostSpec
 
PROPERTY EveryRequestFinishes
CHECK_DEADLOCK FALSE
