CONSTANTS
  f1 = f1  f2 = f2  a = a  b = b  i1 = i1  i2 = i2  s1 = s1  s2 = s2
  text = text  number = number
  q1 = q1  w1 = w1  w2 = w2
  Field = {f1, f2}
  Column = {a}
  Issue = {i1, i2}
  Scopes <- AllOrOne
  Saver = {s1, s2}
  Requester = {q1}
  Worker = {w1, w2}
  Nobody = Nobody
  NoField = NoField
  Type = {text, number}
  TypeOf <- SameType
  NoType = NoType
  Selected0 <- OneField
  MaxVersion = 3
  MaxClock = 3
  MaxFault = 1
  MaxDrop = 0
SPECIFICATION HeldSpec
SYMMETRY ProcessSymmetry
INVARIANTS TypeOK ColumnsFollowSelection SelfConsistent
PROPERTIES ImplementsSelectionLog SweepOnlyAfterCrash FinishedOnce
CHECK_DEADLOCK FALSE
