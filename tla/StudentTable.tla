---------------------------- MODULE StudentTable ----------------------------
(***************************************************************************)
(* The in-memory table of PawnDB (student_table.cpp): an open-addressed    *)
(* array of Rows entries under one mutex, with a read/write lock word in   *)
(* every entry and two counters of the rows that may be share-locked and   *)
(* exclusive-locked.                                                       *)
(*                                                                         *)
(* The module is the component's state and its operations, written as      *)
(* action fragments over the table's own variables; the modules that       *)
(* extend it (RowLocking, Worker) say who calls them.  Every operation     *)
(* holds mtx_ from its first test to its last assignment, so it is one     *)
(* step.  Where the code probes with "while (true)" and no entry matches,  *)
(* the call never returns and never gives the mutex back; the fragment is  *)
(* then disabled and Spins(k) says so.                                     *)
(***************************************************************************)
EXTENDS Integers, FiniteSets

CONSTANTS Rows,    \* StudentTable::Rows (10 in the code)
          RowT,    \* number of values of tbl_row_t, a uint8_t (256)
          LkMax,   \* largest value of lk_t, an int8_t (127)
          Data,    \* what a tuple carries besides its key
          NoData   \* what a default-constructed tuple carries

ASSUME TableAssumption ==
    /\ Rows \in Nat \ {0}
    /\ RowT \in Nat \ {0} /\ Rows < RowT
    /\ LkMax \in Nat \ {0}

VARIABLES table,        \* the entries
          s_avail_cnt,  \* rows that may be share-locked
          x_avail_cnt,  \* rows that may be exclusive-locked
          size,         \* rows that are neither unused nor deleted
          next_key      \* the key of the next tuple inserted

tableVars == <<table, s_avail_cnt, x_avail_cnt, size, next_key>>

Slots == 0 .. Rows - 1
Keys == 0 .. RowT - 1
Locks == -LkMax - 1 .. LkMax

Entry == [key : Keys, data : Data \cup {NoData}, lock : Locks,
          used : BOOLEAN, deleted : BOOLEAN]

EmptyEntry ==
    [key |-> 0, data |-> NoData, lock |-> 0, used |-> FALSE, deleted |-> FALSE]

InitTable ==
    /\ table = [i \in Slots |-> EmptyEntry]
    /\ s_avail_cnt = 0 /\ x_avail_cnt = 0 /\ size = 0 /\ next_key = 0

-----------------------------------------------------------------------------
(* Arithmetic in the width of the fields. *)

IncRow(n) == IF n = RowT - 1 THEN 0 ELSE n + 1
DecRow(n) == IF n = 0 THEN RowT - 1 ELSE n - 1
IncLk(l) == IF l = LkMax THEN -LkMax - 1 ELSE l + 1
DecLk(l) == IF l = -LkMax - 1 THEN LkMax ELSE l - 1

-----------------------------------------------------------------------------
(* Probing: from key % Rows upwards, around the end of the array. *)

Home(k) == k % Rows

Dist(k, i) == IF i >= Home(k) THEN i - Home(k) ELSE i + Rows - Home(k)

Nearest(k, S) == CHOOSE i \in S : \A j \in S : Dist(k, i) <= Dist(k, j)

Live(i) == table[i].used /\ ~table[i].deleted

FreeSlots == {i \in Slots : ~table[i].used \/ table[i].deleted}

\* remove, write, promote and release test the key and the deleted flag of an
\* entry, never is_used_: an entry never used carries key 0 and matches it.
Matches(k) == {i \in Slots : table[i].key = k /\ ~table[i].deleted}

Spins(k) == Matches(k) = {}

Seek(k) == Nearest(k, Matches(k))

-----------------------------------------------------------------------------
(* Lookup, insertion, removal, update. *)

NotFound == -1

\* search stops at the first entry that matches or was never used.
search(k) ==
    LET stops == {i \in Slots : ~table[i].used \/ i \in Matches(k)}
    IN  IF stops = {} THEN NotFound
        ELSE LET i == Nearest(k, stops)
             IN  IF table[i].used THEN i ELSE NotFound

full == size = Rows
empty == size = 0

\* Mutant: next_key_ is not advanced.
insert_SameKey(d) ==
    /\ ~full
    /\ FreeSlots # {}
    /\ table' = [table EXCEPT ![Nearest(next_key, FreeSlots)] =
                   [key |-> next_key, data |-> d, lock |-> 0,
                    used |-> TRUE, deleted |-> FALSE]]
    /\ s_avail_cnt' = IncRow(s_avail_cnt)
    /\ x_avail_cnt' = IncRow(x_avail_cnt)
    /\ size' = size + 1
    /\ UNCHANGED next_key

\* Mutant: the probe starts at the first entry, not at next_key_ % Rows.
insert_FromStart(d) ==
    /\ ~full
    /\ FreeSlots # {}
    /\ table' = [table EXCEPT ![Nearest(0, FreeSlots)] =
                   [key |-> next_key, data |-> d, lock |-> 0,
                    used |-> TRUE, deleted |-> FALSE]]
    /\ s_avail_cnt' = IncRow(s_avail_cnt)
    /\ x_avail_cnt' = IncRow(x_avail_cnt)
    /\ next_key' = IncRow(next_key)
    /\ size' = size + 1

insert(d) ==
    /\ ~full
    /\ FreeSlots # {}
    /\ table' = [table EXCEPT ![Nearest(next_key, FreeSlots)] =
                   [key |-> next_key, data |-> d, lock |-> 0,
                    used |-> TRUE, deleted |-> FALSE]]
    /\ s_avail_cnt' = IncRow(s_avail_cnt)
    /\ x_avail_cnt' = IncRow(x_avail_cnt)
    /\ next_key' = IncRow(next_key)
    /\ size' = size + 1

remove(k) ==
    /\ ~Spins(k)
    /\ table' = [table EXCEPT ![Seek(k)].deleted = TRUE]
    /\ size' = size - 1
    /\ UNCHANGED <<s_avail_cnt, x_avail_cnt, next_key>>

\* The tuple's key is part of what is written; it equals the key sought.
write(k, d) ==
    /\ ~Spins(k)
    /\ table' = [table EXCEPT ![Seek(k)].data = d]
    /\ UNCHANGED <<s_avail_cnt, x_avail_cnt, size, next_key>>

\* Mutant: next_key_ is not reset.
clear_KeepsNextKey ==
    /\ table' = [i \in Slots |-> [table[i] EXCEPT !.lock = 0, !.used = FALSE,
                                                  !.deleted = FALSE]]
    /\ s_avail_cnt' = 0 /\ x_avail_cnt' = 0 /\ size' = 0
    /\ UNCHANGED next_key

\* clear keeps the tuples: an entry it empties still carries its old key.
clear ==
    /\ table' = [i \in Slots |-> [table[i] EXCEPT !.lock = 0, !.used = FALSE,
                                                  !.deleted = FALSE]]
    /\ s_avail_cnt' = 0 /\ x_avail_cnt' = 0 /\ size' = 0 /\ next_key' = 0

-----------------------------------------------------------------------------
(* Row locks.  A wait_for of the code ends either with its predicate true,  *)
(* and then the row is granted before the mutex is given back, or after     *)
(* WAIT_TIMEOUT with nothing changed; the fragments are the first ending.   *)

Shareable == {i \in Slots : Live(i) /\ table[i].lock >= 0}
\* Mutant: the test of wait_shared, lock_ >= 0, in wait_exclusive.
Excludable_Shared == {i \in Slots : Live(i) /\ table[i].lock >= 0}

Excludable == {i \in Slots : Live(i) /\ table[i].lock = 0}

\* The row a granted wait returns: the first one of the array.
SharedGrant == Nearest(0, Shareable)
ExclusiveGrant == Nearest(0, Excludable)

wait_shared ==
    /\ ~empty
    /\ s_avail_cnt > 0
    /\ Shareable # {}
    /\ table' = [table EXCEPT ![SharedGrant].lock = IncLk(@)]
    /\ x_avail_cnt' = IF IncLk(table[SharedGrant].lock) = 1
                      THEN DecRow(x_avail_cnt) ELSE x_avail_cnt
    /\ UNCHANGED <<s_avail_cnt, size, next_key>>

wait_exclusive ==
    /\ ~empty
    /\ x_avail_cnt > 0
    /\ Excludable # {}
    /\ table' = [table EXCEPT ![ExclusiveGrant].lock = -1]
    /\ x_avail_cnt' = DecRow(x_avail_cnt)
    /\ s_avail_cnt' = DecRow(s_avail_cnt)
    /\ UNCHANGED <<size, next_key>>

\* Mutant: s_avail_cnt_ is not counted down.
promote_NoCount(k) ==
    /\ ~Spins(k)
    /\ table[Seek(k)].lock = 1
    /\ table' = [table EXCEPT ![Seek(k)].lock = -1]
    /\ UNCHANGED <<s_avail_cnt, x_avail_cnt, size, next_key>>

promote(k) ==
    /\ ~Spins(k)
    /\ table[Seek(k)].lock = 1
    /\ table' = [table EXCEPT ![Seek(k)].lock = -1]
    /\ s_avail_cnt' = DecRow(s_avail_cnt)
    /\ UNCHANGED <<x_avail_cnt, size, next_key>>

\* Mutant: the exclusive case is forgotten.
release_SharedOnly(k) ==
    /\ ~Spins(k)
    /\ table' = [table EXCEPT ![Seek(k)].lock = DecLk(@)]
    /\ x_avail_cnt' = IF DecLk(table[Seek(k)].lock) = 0
                      THEN IncRow(x_avail_cnt) ELSE x_avail_cnt
    /\ UNCHANGED <<s_avail_cnt, size, next_key>>

release(k) ==
    /\ ~Spins(k)
    /\ LET i == Seek(k)
           l == table[i].lock
       IN  IF l = -1
           THEN /\ table' = [table EXCEPT ![i].lock = 0]
                /\ x_avail_cnt' = IncRow(x_avail_cnt)
                /\ s_avail_cnt' = IncRow(s_avail_cnt)
           ELSE /\ table' = [table EXCEPT ![i].lock = DecLk(l)]
                /\ x_avail_cnt' = IF DecLk(l) = 0
                                  THEN IncRow(x_avail_cnt) ELSE x_avail_cnt
                /\ UNCHANGED s_avail_cnt
    /\ UNCHANGED <<size, next_key>>

-----------------------------------------------------------------------------
TableTypeOK ==
    /\ table \in [Slots -> Entry]
    /\ s_avail_cnt \in Keys
    /\ x_avail_cnt \in Keys
    /\ size \in Int
    /\ next_key \in Keys

LiveSlots == {i \in Slots : Live(i)}

\* No two rows of the table carry the same key.
UniqueKeys ==
    \A i, j \in LiveSlots : table[i].key = table[j].key => i = j

\* Every row lies on its probe path: the entries between the place its key
\* hashes to and its own have all been used.
ProbePath ==
    \A i \in LiveSlots, j \in Slots :
        Dist(table[i].key, j) < Dist(table[i].key, i) => table[j].used
=============================================================================
