------------------------------ MODULE MCServices -------------------------------
(* One id for a hospital and a shelter, one for an incident, and two texts that *)
(* arrive by SMS, one of them also with a coordinate out of range. Capacity     *)
(* changes that shrink below the availability, exceed the total or come from an *)
(* older version; status changes along the lifecycle and across it.             *)
EXTENDS Services, TLC

CONSTANTS n1, n2, sms1, sms2, text1, text2

H == <<"hospital", n1>>
S == <<"shelter", n1>>
I == <<"incident", n2>>

Beds(status, cap, avail) == [status |-> status, cap |-> cap, avail |-> avail]
Create(k, body) == [op |-> "create", key |-> k, body |-> body]
Capacity(k, avail, cap, expect) ==
  [op |-> "capacity", key |-> k, avail |-> avail, cap |-> cap, expect |-> expect]
Status(k, s, expect) == [op |-> "status", key |-> k, status |-> s, expect |-> expect]
Details(k, x, expect) == [op |-> "details", key |-> k, text |-> x, expect |-> expect]

MCRequest ==
  {Create(H, Beds("OPERATIONAL", 2, 1)), Create(S, Beds("OPEN", 1, 1)),
   Capacity(H, 2, Absent, Absent), Capacity(H, 0, 0, 1), Capacity(H, 2, 1, Absent), Capacity(H, 1, 1, Absent),
   Capacity(S, 0, Absent, Absent), Status(H, "CLOSED", 1), Status(S, "AT_CAPACITY", Absent),
   Create(I, [status |-> "OPEN", text |-> text1]),
   Status(I, "ACKNOWLEDGED", 1), Status(I, "CANCELLED", Absent),
   Status(I, "RESOLVED", Absent), Details(I, text2, 1)}

Sms(x, bad) == [text |-> x, chars |-> 40, tokens |-> 6, bad |-> bad]
MCMessage ==
  {Sms(text1, {}), Sms(text2, {}), Sms(text2, {"latitude"}),
   [text |-> text1, chars |-> 40, tokens |-> 5, bad |-> {}]}

Symmetry == Permutations(Thread)
================================================================================
