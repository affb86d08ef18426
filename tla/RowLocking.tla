----------------------------- MODULE RowLocking -----------------------------
(***************************************************************************)
(* The table of StudentTable under concurrent callers.  A grant is one     *)
(* outstanding row lock and an inserter one outstanding call of insert;    *)
(* which worker thread owns which is left open, so every assignment of     *)
(* them to threads is covered.  The table tests no lock in promote,        *)
(* release, write and remove; callers are assumed to name a row they hold  *)
(* a grant on, for write and remove an exclusive one, and to call          *)
(* notify_not_full once after each remove.  How far the workers keep to    *)
(* this is the subject of module Worker (an UPDATE does not).              *)
(*                                                                         *)
(* The one wait of the table without a time limit, insert's wait on        *)
(* not_full_, is explicit: sleeping is the wait set of the condition       *)
(* variable and woken the threads that left it and have not yet tested     *)
(* the predicate again under the mutex.                                    *)
(***************************************************************************)
EXTENDS StudentTable

CONSTANTS Grants,      \* outstanding row locks
          Inserters,   \* outstanding calls of insert
          MaxInserts   \* bound: insertions since construction or clear

ASSUME CallersAssumption ==
    /\ IsFiniteSet(Grants) /\ Cardinality(Grants) <= LkMax
    /\ IsFiniteSet(Inserters)
    /\ MaxInserts \in Nat

VARIABLES mode,        \* grant -> "none", "SHARED" or "EXCLUSIVE"
          row,         \* grant -> key of the row it is on
          sleeping,    \* inserters in the wait set of not_full_
          woken,       \* inserters about to test !full() again
          notify_due,  \* grants that removed their row and not yet notified
          inserts      \* history: insertions since construction or clear

callers == <<mode, row, sleeping, woken, notify_due, inserts>>
vars == <<table, s_avail_cnt, x_avail_cnt, size, next_key,
          mode, row, sleeping, woken, notify_due, inserts>>

Modes == {"none", "SHARED", "EXCLUSIVE"}

Init ==
    /\ InitTable
    /\ mode = [c \in Grants |-> "none"]
    /\ row = [c \in Grants |-> 0]
    /\ sleeping = {} /\ woken = {} /\ notify_due = {}
    /\ inserts = 0

-----------------------------------------------------------------------------
(* Row locks *)

WaitShared(c) ==
    /\ mode[c] = "none" /\ c \notin notify_due
    /\ wait_shared
    /\ mode' = [mode EXCEPT ![c] = "SHARED"]
    /\ row' = [row EXCEPT ![c] = table[SharedGrant].key]
    /\ UNCHANGED <<sleeping, woken, notify_due, inserts>>

WaitExclusive(c) ==
    /\ mode[c] = "none" /\ c \notin notify_due
    /\ wait_exclusive
    /\ mode' = [mode EXCEPT ![c] = "EXCLUSIVE"]
    /\ row' = [row EXCEPT ![c] = table[ExclusiveGrant].key]
    /\ UNCHANGED <<sleeping, woken, notify_due, inserts>>

Promote(c) ==
    /\ mode[c] = "SHARED"
    /\ promote(row[c])
    /\ mode' = [mode EXCEPT ![c] = "EXCLUSIVE"]
    /\ UNCHANGED <<row, sleeping, woken, notify_due, inserts>>

Release(c) ==
    /\ mode[c] # "none"
    /\ release(row[c])
    /\ mode' = [mode EXCEPT ![c] = "none"]
    /\ UNCHANGED <<row, sleeping, woken, notify_due, inserts>>

-----------------------------------------------------------------------------
(* Updates and removals under an exclusive lock *)

\* The lock is the caller's business: write itself tests none.
Write(c, d) ==
    /\ mode[c] = "EXCLUSIVE"
    /\ write(row[c], d)
    /\ UNCHANGED callers

\* Mutant: a shared lock is enough to remove.
Remove_AnyLock(c) ==
    /\ mode[c] # "none"
    /\ remove(row[c])
    /\ mode' = [mode EXCEPT ![c] = "none"]
    /\ notify_due' = notify_due \cup {c}
    /\ UNCHANGED <<row, sleeping, woken, inserts>>

\* Mutant: notify_not_full is not called after remove.
Remove_Silent(c) ==
    /\ mode[c] = "EXCLUSIVE"
    /\ remove(row[c])
    /\ mode' = [mode EXCEPT ![c] = "none"]
    /\ UNCHANGED <<row, sleeping, woken, notify_due, inserts>>

\* The deleter drops its lock record (rm_lock) and removes the row; nothing
\* releases the lock word, which dies with the entry.
Remove(c) ==
    /\ mode[c] = "EXCLUSIVE"
    /\ remove(row[c])
    /\ mode' = [mode EXCEPT ![c] = "none"]
    /\ notify_due' = notify_due \cup {c}
    /\ UNCHANGED <<row, sleeping, woken, inserts>>

\* notify_one on not_full_, without the mutex.
NotifyNotFull(c) ==
    /\ c \in notify_due
    /\ notify_due' = notify_due \ {c}
    /\ \/ /\ sleeping = {}
          /\ UNCHANGED <<sleeping, woken>>
       \/ \E t \in sleeping : /\ sleeping' = sleeping \ {t}
                              /\ woken' = woken \cup {t}
    /\ UNCHANGED <<table, s_avail_cnt, x_avail_cnt, size, next_key,
                   mode, row, inserts>>

-----------------------------------------------------------------------------
(* Insertion *)

\* A call of insert, or one woken in it, that finds room.
Insert(t, d) ==
    /\ t \notin sleeping
    /\ inserts < MaxInserts
    /\ insert(d)
    /\ woken' = woken \ {t}
    /\ inserts' = inserts + 1
    /\ UNCHANGED <<mode, row, sleeping, notify_due>>

\* A call of insert, or one woken in it, that finds the table full.
InsertWait(t) ==
    /\ t \notin sleeping
    /\ full
    /\ sleeping' = sleeping \cup {t}
    /\ woken' = woken \ {t}
    /\ UNCHANGED <<table, s_avail_cnt, x_avail_cnt, size, next_key,
                   mode, row, notify_due, inserts>>

\* Condition variables may wake a thread for no reason.
SpuriousWake(t) ==
    /\ t \in sleeping
    /\ sleeping' = sleeping \ {t}
    /\ woken' = woken \cup {t}
    /\ UNCHANGED <<table, s_avail_cnt, x_avail_cnt, size, next_key,
                   mode, row, notify_due, inserts>>

\* clear tests nothing and may find rows locked, as it does in the unit
\* tests; the callers forget the locks it wipes out.  It is not called while
\* an insert or a removal is under way: it wakes no one.
Clear ==
    /\ sleeping = {} /\ woken = {} /\ notify_due = {}
    /\ clear
    /\ mode' = [c \in Grants |-> "none"]
    /\ inserts' = 0
    /\ UNCHANGED <<row, sleeping, woken, notify_due>>

Next ==
    \/ \E c \in Grants :
         \/ WaitShared(c) \/ WaitExclusive(c) \/ Promote(c) \/ Release(c)
         \/ Remove(c) \/ NotifyNotFull(c)
         \/ \E d \in Data : Write(c, d)
    \/ \E t \in Inserters :
         \/ \E d \in Data : Insert(t, d)
         \/ InsertWait(t) \/ SpuriousWake(t)
    \/ Clear

Spec == Init /\ [][Next]_vars

-----------------------------------------------------------------------------
(* Properties *)

TypeOK ==
    /\ TableTypeOK
    /\ mode \in [Grants -> Modes]
    /\ row \in [Grants -> Keys]
    /\ sleeping \subseteq Inserters
    /\ woken \subseteq Inserters
    /\ notify_due \subseteq Grants
    /\ inserts \in 0 .. MaxInserts

SharedOn(k) == {c \in Grants : mode[c] = "SHARED" /\ row[c] = k}
ExclusiveOn(k) == {c \in Grants : mode[c] = "EXCLUSIVE" /\ row[c] = k}

\* size_, s_avail_cnt_ and x_avail_cnt_ are kept by hand in six functions;
\* they always equal the number of rows, of rows not exclusive-locked and of
\* rows not locked at all.  So a wait that sees a positive counter finds a
\* row, and its NotFound ending (student_table.cpp:222, 245) is never taken.
CountersExact ==
    /\ size = Cardinality(LiveSlots)
    /\ s_avail_cnt = Cardinality(Shareable)
    /\ x_avail_cnt = Cardinality(Excludable)

\* The lock word of a row encodes its holders: -1 when one exclusive grant
\* and nothing else is on it, otherwise the number of shared grants.
LockEncodesHolders ==
    \A i \in LiveSlots :
        LET k == table[i].key
        IN  \/ /\ table[i].lock = -1
               /\ SharedOn(k) = {}
               /\ \E c \in Grants : ExclusiveOn(k) = {c}
            \/ /\ table[i].lock = Cardinality(SharedOn(k))
               /\ ExclusiveOn(k) = {}

\* promote, release, write and remove probe without an end condition and
\* without looking at is_used_.  For a row somebody holds a grant on, the
\* probe ends, and at the live entry of that row, not at a stale one.
SeekFindsHeldRow ==
    \A c \in Grants : mode[c] # "none" =>
        /\ ~Spins(row[c])
        /\ Live(Seek(row[c]))

\* search, which gives up at the first entry never used, finds exactly the
\* rows that are there, whatever was inserted and deleted before.
SearchExact ==
    \A k \in Keys :
        LET rows == {i \in LiveSlots : table[i].key = k}
        IN  IF rows = {} THEN search(k) = NotFound ELSE search(k) \in rows

\* While an inserter sleeps on not_full_, every free entry is matched by an
\* inserter already woken or a notification still to come: notify_one after
\* each removal is enough, and no wake-up is lost between remove and notify.
NoLostWakeup ==
    sleeping # {} =>
        Cardinality(woken) + Cardinality(notify_due) >= Rows - size

HeldRowsLive ==
    \A c \in Grants : mode[c] # "none" =>
        \E i \in LiveSlots : table[i].key = row[c]

\* As long as next_key_ has not wrapped, it is larger than every key in use.
KeysIssued ==
    /\ inserts < RowT => next_key = inserts
    /\ \A i \in LiveSlots : table[i].key < inserts

\* Who has a notification to send holds nothing, and nobody is asleep and
\* awake at once.
WaitersApart ==
    /\ \A c \in notify_due : mode[c] = "none"
    /\ sleeping \cap woken = {}

\* The strengthening that is inductive while next_key_ does not wrap.
Layout == UniqueKeys /\ ProbePath /\ KeysIssued

IInv ==
    /\ TypeOK
    /\ Layout
    /\ HeldRowsLive
    /\ CountersExact
    /\ LockEncodesHolders
    /\ WaitersApart
    /\ NoLostWakeup

\* The table implements the locked key-value store of RWLockedStore.
Store ==
    INSTANCE RWLockedStore
    WITH store <- [k \in {table[i].key : i \in LiveSlots} |->
                     table[CHOOSE i \in LiveSlots : table[i].key = k].data]

ImplementsStore == Store!Spec
=============================================================================
