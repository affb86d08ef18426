------------------------------ MODULE LockList ------------------------------
(***************************************************************************)
(* lock_list (lock_list.cpp): the row locks a transaction holds, in an     *)
(* open-addressed array of MaxLocks entries.  Only its worker touches it,  *)
(* so the operations are functions from a list to a list.                  *)
(*                                                                         *)
(* unique_key::hash_ returns the table id alone, and all locks are on the  *)
(* one table there is: every probe starts at the same entry, TblId %       *)
(* MaxLocks.                                                               *)
(***************************************************************************)
EXTENDS Integers, FiniteSets

CONSTANTS MaxLocks,  \* MAX_LOCK_PER_TRANSACTION (16 in the code)
          TblId      \* tbl_id<StudentTable>() (1 in the code)

ASSUME LockListAssumption ==
    MaxLocks \in Nat \ {0} /\ TblId \in Nat \ {0}

Entries == 0 .. MaxLocks - 1

\* The key of an entry never used has table id 0 and equals no row's key.
NoKey == -1

EmptyLock ==
    [key |-> NoKey, type |-> "EXCLUSIVE", used |-> FALSE, deleted |-> FALSE]

EmptyList == [locks |-> [i \in Entries |-> EmptyLock], size |-> 0]

-----------------------------------------------------------------------------
ProbeRank(i) == (i - TblId) % MaxLocks

First(S) == CHOOSE i \in S : \A j \in S : ProbeRank(i) <= ProbeRank(j)

Held(L) == {i \in Entries : L.locks[i].used /\ ~L.locks[i].deleted}

Unheld(L) == Entries \ Held(L)

\* remove tests the key and the deleted flag only, search also is_used_.
Matching(L, k) ==
    {i \in Entries : L.locks[i].key = k /\ ~L.locks[i].deleted}

\* Mutant: insert does not look at the keys on its way.
insert_NoConflict(L, k, type) ==
    LET i == First(Unheld(L))
    IN  [error |-> "None",
         list  |-> [locks |-> [L.locks EXCEPT ![i] =
                                 [key |-> k, type |-> type,
                                  used |-> TRUE, deleted |-> FALSE]],
                    size  |-> L.size + 1]]

\* insert takes the first entry it may overwrite, unless it meets a held
\* entry with the same key before.
insert(L, k, type) ==
    LET i == First(Unheld(L) \cup (Held(L) \cap Matching(L, k)))
    IN  IF i \in Held(L)
        THEN [error |-> "Conflict", list |-> L]
        ELSE [error |-> "None",
              list  |-> [locks |-> [L.locks EXCEPT ![i] =
                                      [key |-> k, type |-> type,
                                       used |-> TRUE, deleted |-> FALSE]],
                         size  |-> L.size + 1]]

add_lock(L, k, type) ==
    IF L.size >= MaxLocks THEN [error |-> "Full", list |-> L]
                          ELSE insert(L, k, type)

\* Mutant: the search gives up at a deleted entry as well.
search_StopsAtDeleted(L, k) ==
    LET stops == Unheld(L) \cup Matching(L, k)
    IN  IF stops = {} \/ First(stops) \in Unheld(L)
        THEN NoKey ELSE First(stops)

\* The entry search stops at, or NotFound: NoKey stands for both.
search(L, k) ==
    LET stops == {i \in Entries : ~L.locks[i].used} \cup Matching(L, k)
    IN  IF stops = {} \/ ~L.locks[First(stops)].used
        THEN NoKey ELSE First(stops)

get_lock(L, k) ==
    IF search(L, k) = NoKey THEN "NotFound"
                            ELSE L.locks[search(L, k)].type

promote_lock(L, k) ==
    [L EXCEPT !.locks[search(L, k)].type = "EXCLUSIVE"]

\* rm_lock loops for ever when nothing matches.
RmLockSpins(L, k) == Matching(L, k) = {}

\* Mutant: size_ is not counted down.
rm_lock_NoCount(L, k) ==
    [L EXCEPT !.locks[First(Matching(L, k))].deleted = TRUE]

rm_lock(L, k) ==
    [L EXCEPT !.locks[First(Matching(L, k))].deleted = TRUE,
              !.size = @ - 1]

\* Mutant: only the size is reset.
clear_SizeOnly(L) == [L EXCEPT !.size = 0]

\* clear leaves the deleted flags as they are.
clear(L) ==
    [locks |-> [i \in Entries |-> [L.locks[i] EXCEPT !.used = FALSE]],
     size  |-> 0]

\* The iterator: entries in array order, the free ones skipped.
Remaining(L, from) == {i \in Held(L) : i >= from}

NextValid(L, from) ==
    CHOOSE i \in Remaining(L, from) : \A j \in Remaining(L, from) : i <= j
=============================================================================
