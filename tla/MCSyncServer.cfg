CONSTANTS
  i1 = i1
  i2 = i2
  text1 = text1
  text2 = text2
  text3 = text3
  o1 = o1
  o2 = o2
  o3 = o3
  o4 = o4
  o5 = o5
  o6 = o6
  o7 = o7
  Thread = {t1, t2}
  Id = {i1, i2}
  Text = {text1, text2, text3}
  OpId = {o1, o2, o3, o4, o5, o6, o7}
  Op <- MCOp
  Role = {"FIELD_OFFICER", "VIEWER"}
  MaxDeliveries = 3
  Absent = Absent
SPECIFICATION Spec
SYMMETRY Symmetry
CHECK_DEADLOCK FALSE
INVARIANTS TypeOK AcceptedIsStored DuplicateBacked StoreFollowsTwin TrailTells
