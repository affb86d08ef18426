---------------------------- MODULE BoundedFifo ----------------------------
(***************************************************************************)
(* What job_channel and commit_queue promise: each is a first-in first-out *)
(* queue of bounded capacity.  One variable holds all queues of a kind.    *)
(***************************************************************************)
EXTENDS Integers, Sequences

CONSTANTS Queues,    \* whose queues
          Items,     \* what they may hold
          Capacity   \* how many of them

VARIABLE queue

Init == queue = [q \in Queues |-> <<>>]

Send(q) ==
    /\ Len(queue[q]) < Capacity
    /\ \E x \in Items : queue' = [queue EXCEPT ![q] = Append(@, x)]

Pop(q) ==
    /\ queue[q] # <<>>
    /\ queue' = [queue EXCEPT ![q] = Tail(@)]

Clear(q) == queue' = [queue EXCEPT ![q] = <<>>]

\* Nothing leaves a queue but through Pop.
Spec == Init /\ [][\E q \in Queues : Send(q) \/ Pop(q)]_queue

\* A queue may also be emptied at once.
ClearingSpec ==
    Init /\ [][\E q \in Queues : Send(q) \/ Pop(q) \/ Clear(q)]_queue
=============================================================================
