CONSTANTS
  Thread = {w1, w2}
  n1 = n1
  n2 = n2
  sms1 = sms1
  sms2 = sms2
  text1 = text1
  text2 = text2
  Name = {n1, n2}
  SmsName = {sms1, sms2}
  Text = {text1, text2}
  MaxCapacity = 2
  MaxRequests = 4
  Absent = Absent
  Request <- MCRequest
  Message <- MCMessage
SPECIFICATION Spec
SYMMETRY Symmetry
CHECK_DEADLOCK FALSE
INVARIANTS
  TypeOK
  AgreeUnlessRaced
  EventsAudited
  TrailUnbroken
  SeenIsTaken
PROPERTY
  LifecycleUnlessRaced
