----------------------------- MODULE MCSyncServer ------------------------------
(* Operations on two incidents: the report of i1, the same operation id with   *)
(* another text, a second operation reporting i1 again (as the field app       *)
(* queues it), a report filed under another entity id, updates of i1 from its  *)
(* version 1, a status update, an update of nothing, a deletion and a request  *)
(* for supplies.                                                               *)
EXTENDS SyncServer, TLC

CONSTANTS i1, i2, text1, text2, text3, o1, o2, o3, o4, o5, o6, o7

Envelope(id, entity, type, target, base, body) ==
  [id |-> id, entity |-> entity, type |-> type, target |-> target, base |-> base,
   schema |-> "1.0.0", body |-> body]

Report(i, s) == [form |-> "report", incident |-> i, text |-> s]
Rewrite(s) == [form |-> "text", text |-> s]

MCOp ==
  {Envelope(o1, "INCIDENT", "CREATE", i1, 1, Report(i1, text1)),
   Envelope(o1, "INCIDENT", "CREATE", i1, 1, Report(i1, text2)),
   Envelope(o2, "INCIDENT", "CREATE", i1, 1, Report(i1, text1)),
   Envelope(o3, "INCIDENT", "CREATE", i2, Absent, Report(i1, text1)),
   Envelope(o4, "INCIDENT", "UPDATE", i1, 1, Rewrite(text2)),
   Envelope(o5, "INCIDENT", "UPDATE", i1, 1, Rewrite(text3)),
   Envelope(o6, "INCIDENT", "UPDATE", i1, Absent, [form |-> "enum"]),
   Envelope(o6, "INCIDENT", "UPDATE", i1, Absent, [form |-> "other"]),
   Envelope(o7, "INCIDENT", "DELETE", i1, Absent, [form |-> "other"]),
   Envelope(o7, "RESOURCE_REQUEST", "CREATE", i2, 1, [form |-> "other"])}

Symmetry == Permutations(Thread)
================================================================================
