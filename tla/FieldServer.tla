------------------------------ MODULE FieldServer ------------------------------
(***************************************************************************)
(* The server as module FieldSync reduces it, against what the protocol    *)
(* promises (SyncPromise). A history variable keeps what it has answered,  *)
(* whether or not the sender still waits. Like SyncServer, it can promise  *)
(* this only of operations that no two workers carry out at once.          *)
(***************************************************************************)
EXTENDS FieldSync, Sequences

VARIABLE answers   \* history: the answers of the server, in order

\* An operation of the device never changes its payload (a cycle writes its status,
\* attempts and last error), and the device has one user.
Message(o) == [id |-> o, body |-> o]
User == "user"

Promise == INSTANCE SyncPromise WITH
  Op <- {Message(o) : o \in Op}, Role <- {User},
  Entitled <- {<<Message(o), User>> : o \in Op}

Outcome(s, o) == answers' = Append(answers, Promise!Answered(Message(o), User, s))

\* The operation a step of a worker has answered, the answer being the step's own.
Answers(w) ==
  \E o \in worker[w].todo \ worker'[w].todo : Outcome(worker'[w].res[o], o)

\* A worker has answered an operation when it is no longer to be done.
Answering(w) == WorkerStep(w) /\ worker'[w].todo # worker[w].todo

Unanswered == Next /\ (\A w \in Worker : ~Answering(w)) /\ UNCHANGED answers

ServerInit == Init /\ answers = <<>>
ServerNext == (\E w \in Worker : Answering(w) /\ Answers(w)) \/ Unanswered
ServerSpec == ServerInit /\ [][ServerNext]_<<vars, answers>>

\* While no two workers have the same operation in hand, what FieldSync assumes of the
\* server is no more than the protocol's promise (sync_protocol.md sections 1, 3 and 4):
\* each answer is the one due, also to an operation that is sent again.
ServerPromises == [](overlapped = {}) => Promise!Spec

================================================================================
