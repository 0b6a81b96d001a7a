----------------------------- MODULE FifoWorker -----------------------------
(***************************************************************************)
(* What ReplicaEngineCore relies on of its worker process: the steps it    *)
(* sends are answered one by one, each once and in the order in which they *)
(* were sent, and every one of them eventually.                            *)
(***************************************************************************)
EXTENDS Naturals, Sequences

VARIABLES
  pending,  \* the ids of the steps sent and not answered, oldest first
  replies   \* the ids of the answers in transit

vars == <<pending, replies>>

Init == pending = <<>> /\ replies = <<>>

\* _input_queue.put: one more step at the end, and ids grow.
Send ==
  /\ Len(pending') = Len(pending) + 1
  /\ SubSeq(pending', 1, Len(pending)) = pending
  /\ \A i \in 1 .. Len(pending) : pending[i] < pending'[Len(pending')]
  /\ UNCHANGED replies

Answer ==
  /\ pending # <<>>
  /\ replies' = Append(replies, Head(pending))
  /\ pending' = Tail(pending)

\* _get_live_result.
Take ==
  /\ replies # <<>>
  /\ replies' = Tail(replies)
  /\ UNCHANGED pending

Next == Send \/ Answer \/ Take

Spec == Init /\ [][Next]_vars /\ WF_vars(Answer)
=============================================================================
