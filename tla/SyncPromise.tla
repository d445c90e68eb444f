------------------------------ MODULE SyncPromise ------------------------------
(***************************************************************************)
(* What POST /api/v1/sync promises a field client (services/sync/          *)
(* sync_protocol.md, sections 1, 3 and 4): an operation id is accepted at  *)
(* most once; sent again with the same payload it is answered DUPLICATE,   *)
(* with another payload CONFLICT, however long ago it was accepted.        *)
(***************************************************************************)
EXTENDS Sequences

CONSTANTS
  Op,         \* operations the clients send
  Role,       \* roles of the actors sending them
  Entitled    \* pairs <<op, role>> that pass schema and role checks

VARIABLE answers   \* answers given so far: operation, sender's role, status

Answered(o, r, s) == [op |-> o, role |-> r, status |-> s]

\* The payloads accepted under an operation id.
Accepted(id) ==
  {answers[n].op.body :
     n \in {m \in DOMAIN answers : answers[m].status = "ACCEPTED" /\ answers[m].op.id = id}}

Due(o, r, s) ==
  IF <<o, r>> \notin Entitled THEN s = "REJECTED"
  ELSE IF Accepted(o.id) = {} THEN s \in {"ACCEPTED", "CONFLICT", "REJECTED"}
  ELSE IF o.body \in Accepted(o.id) THEN s = "DUPLICATE"
  ELSE s = "CONFLICT"

Answer(o, r, s) == Due(o, r, s) /\ answers' = Append(answers, Answered(o, r, s))

Init == answers = <<>>

Next ==
  \E o \in Op, r \in Role, s \in {"ACCEPTED", "DUPLICATE", "CONFLICT", "REJECTED"} :
    Answer(o, r, s)

Spec == Init /\ [][Next]_answers

================================================================================
