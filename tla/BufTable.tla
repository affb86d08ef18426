------------------------------ MODULE BufTable ------------------------------
(***************************************************************************)
(* The buffer pool (buf_table.cpp) and the counted references to it        *)
(* (buf_ref.cpp).  A handle is a buf_ref object: in a local variable of    *)
(* the manager, in a job of a channel, in a worker or in its commit queue. *)
(*                                                                         *)
(* Every operation of the pool holds mutex_ and is one step.  Of the       *)
(* operations of buf_ref only copy assignment enters the pool twice, first *)
(* to retain the new buffer and then to release the old one; other threads *)
(* may act in between, and pending says which assignments are there.  The  *)
(* thread that assigns owns both handles, so nobody else changes them.     *)
(***************************************************************************)
EXTENDS Integers, FiniteSets

CONSTANTS BufferRows,  \* BUFFER_ROWS (64 in the code)
          RefMax,      \* largest ref_count_, a uint16_t (65535)
          Handles,     \* the buf_ref objects
          NoHandle     \* not a handle

ASSUME PoolAssumption ==
    /\ BufferRows \in Nat \ {0}
    /\ RefMax \in Nat
    /\ IsFiniteSet(Handles) /\ 2 * Cardinality(Handles) <= RefMax
    /\ NoHandle \notin Handles

VARIABLES ref_count,  \* references to each buffer
          size,       \* buffers in use
          next,       \* where request looks first
          ref,        \* handle -> index_, or Null when table_ is nullptr
          pending     \* handle -> the handle it is being assigned from

vars == <<ref_count, size, next, ref, pending>>

Buffers == 0 .. BufferRows - 1
Null == -1

Init ==
    /\ ref_count = [b \in Buffers |-> 0]
    /\ size = 0 /\ next = 0
    /\ ref = [h \in Handles |-> Null]
    /\ pending = [h \in Handles |-> NoHandle]

-----------------------------------------------------------------------------
(* The pool *)

\* Mutant: a buffer with one reference left counts as unused.
Unused_OneLeft == {b \in Buffers : ref_count[b] <= 1}

Unused == {b \in Buffers : ref_count[b] = 0}

\* The distance of b from the hint, around the end of the array
Ahead(b) == IF b >= next THEN b - next ELSE b + BufferRows - next

Following(b) == IF b = BufferRows - 1 THEN 0 ELSE b + 1

\* request loops for ever when it is not full and no buffer is unused.
FirstUnused == CHOOSE b \in Unused : \A c \in Unused : Ahead(b) <= Ahead(c)

full == size >= BufferRows

retain_ref(b) ==
    /\ ref_count' = [ref_count EXCEPT ![b] = IF @ = RefMax THEN 0 ELSE @ + 1]
    /\ size' = IF ref_count[b] = 0 THEN size + 1 ELSE size
    /\ UNCHANGED next

\* Mutant: size_ is not counted down.
release_ref_NoCount(b) ==
    /\ ref_count' = [ref_count EXCEPT ![b] = IF @ = 0 THEN 0 ELSE @ - 1]
    /\ UNCHANGED <<size, next>>

release_ref(b) ==
    /\ ref_count' = [ref_count EXCEPT ![b] = IF @ = 0 THEN 0 ELSE @ - 1]
    /\ size' = IF ref_count[b] = 1 /\ size > 0 THEN size - 1 ELSE size
    /\ UNCHANGED next

-----------------------------------------------------------------------------
(* The handles *)

\* Neither end of an assignment that is under way
Idle(h) == pending[h] = NoHandle /\ \A g \in Handles : pending[g] # h

\* The buf_ref of a successful request
request(h) ==
    /\ Idle(h) /\ ref[h] = Null
    /\ ~full
    /\ Unused # {}
    /\ ref_count' = [ref_count EXCEPT ![FirstUnused] = 1]
    /\ next' = Following(FirstUnused)
    /\ size' = size + 1
    /\ ref' = [ref EXCEPT ![h] = FirstUnused]
    /\ UNCHANGED pending

\* Copy construction, and copy assignment to a handle that is null
Copy(h, g) ==
    /\ Idle(h) /\ ref[h] = Null
    /\ pending[g] = NoHandle /\ ref[g] # Null
    /\ retain_ref(ref[g])
    /\ ref' = [ref EXCEPT ![h] = ref[g]]
    /\ UNCHANGED pending

\* Copy assignment to a handle in use: retain the new buffer, ...
AssignRetain(h, g) ==
    /\ h # g
    /\ Idle(h) /\ ref[h] # Null
    /\ pending[g] = NoHandle /\ ref[g] # Null
    /\ retain_ref(ref[g])
    /\ pending' = [pending EXCEPT ![h] = g]
    /\ UNCHANGED ref

\* Mutant: the old buffer is not released.
AssignRelease_Leak(h) ==
    /\ pending[h] # NoHandle
    /\ ref' = [ref EXCEPT ![h] = ref[pending[h]]]
    /\ pending' = [pending EXCEPT ![h] = NoHandle]
    /\ UNCHANGED <<ref_count, size, next>>

\* ... then release the old one.
AssignRelease(h) ==
    /\ pending[h] # NoHandle
    /\ release_ref(ref[h])
    /\ ref' = [ref EXCEPT ![h] = ref[pending[h]]]
    /\ pending' = [pending EXCEPT ![h] = NoHandle]

\* Mutant: the source of a move keeps its reference.
Move_KeepsSource(h, g) ==
    /\ Idle(h) /\ ref[h] = Null
    /\ Idle(g) /\ ref[g] # Null
    /\ ref' = [ref EXCEPT ![h] = ref[g]]
    /\ UNCHANGED <<ref_count, size, next, pending>>

\* Move construction, and move assignment to a handle that is null
Move(h, g) ==
    /\ Idle(h) /\ ref[h] = Null
    /\ Idle(g) /\ ref[g] # Null
    /\ ref' = [ref EXCEPT ![h] = ref[g], ![g] = Null]
    /\ UNCHANGED <<ref_count, size, next, pending>>

\* Move assignment to a handle in use
MoveAssign(h, g) ==
    /\ h # g
    /\ Idle(h) /\ ref[h] # Null
    /\ Idle(g)
    /\ release_ref(ref[h])
    /\ ref' = [ref EXCEPT ![h] = ref[g], ![g] = Null]
    /\ UNCHANGED pending

\* Destruction, and copy assignment from a handle that is null
Destroy(h) ==
    /\ Idle(h) /\ ref[h] # Null
    /\ release_ref(ref[h])
    /\ ref' = [ref EXCEPT ![h] = Null]
    /\ UNCHANGED pending

Next ==
    \E h \in Handles :
        \/ request(h) \/ AssignRelease(h) \/ Destroy(h)
        \/ \E g \in Handles :
             Copy(h, g) \/ AssignRetain(h, g) \/ Move(h, g) \/ MoveAssign(h, g)

Spec == Init /\ [][Next]_vars

-----------------------------------------------------------------------------
(* Properties *)

TypeOK ==
    /\ ref_count \in [Buffers -> 0 .. RefMax]
    /\ size \in Nat
    /\ next \in Buffers
    /\ ref \in [Handles -> Buffers \cup {Null}]
    /\ pending \in [Handles -> Handles \cup {NoHandle}]

On(b) == {h \in Handles : ref[h] = b}

Incoming(b) == {h \in Handles : pending[h] # NoHandle /\ ref[pending[h]] = b}

\* The count of a buffer is the number of handles on it and of assignments
\* that have retained it and not yet stored it, through every copy, move
\* and destruction: no buffer is freed under a handle, and none is leaked.
RefCountExact ==
    \A b \in Buffers :
        ref_count[b] = Cardinality(On(b)) + Cardinality(Incoming(b))

\* size_ is the number of buffers in use.  So request finds an unused buffer
\* whenever it is not full, and its loop (buf_table.cpp:12) ends.
SizeExact == size = Cardinality({b \in Buffers : ref_count[b] > 0})

\* Assignments under way have both ends in place.
PendingInPlace ==
    \A h \in Handles : pending[h] # NoHandle =>
        /\ ref[h] # Null /\ ref[pending[h]] # Null
        /\ pending[pending[h]] = NoHandle

IInv == TypeOK /\ PendingInPlace /\ RefCountExact /\ SizeExact

\* request never hands out a buffer that a handle still refers to.
FreshBuffer ==
    [][\A h \in Handles : request(h) =>
         \A g \in Handles : ref[g] # ref'[h]]_vars
=============================================================================
