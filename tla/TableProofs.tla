---------------------------- MODULE TableProofs ----------------------------
(***************************************************************************)
(* Facts about the operators of StudentTable that the proofs about its     *)
(* callers share: probing, and what one operation does to the layout.      *)
(***************************************************************************)
EXTENDS StudentTable, Probing, FiniteSetTheorems

-----------------------------------------------------------------------------
(* Probing *)

\* The remainder of a key by Rows is a slot.
LEMMA HomeType ==
  ASSUME NEW k \in Int
  PROVE  Home(k) \in Slots
BY TableAssumption, ModRange DEF Home, Slots

\* A probe distance is a natural number below Rows.
LEMMA DistType ==
  ASSUME NEW k \in Int, NEW i \in Slots
  PROVE  Dist(k, i) \in 0 .. Rows - 1
<1>1. Home(k) \in Slots
  BY HomeType
<1> QED
  BY <1>1, TableAssumption DEF Dist, Slots

\* Two slots at the same probe distance are the same slot.
LEMMA DistInjective ==
  ASSUME NEW k \in Int, NEW i \in Slots, NEW j \in Slots,
         Dist(k, i) = Dist(k, j)
  PROVE  i = j
<1>1. Home(k) \in Slots
  BY HomeType
<1> QED
  BY <1>1, TableAssumption DEF Dist, Slots

\* A nonempty set of slots has a nearest one, and Nearest returns it.
LEMMA NearestIsLeast ==
  ASSUME NEW k \in Int, NEW S \in SUBSET Slots, S # {}
  PROVE  /\ Nearest(k, S) \in S
         /\ \A j \in S : Dist(k, Nearest(k, S)) <= Dist(k, j)
<1>1. PICK r : r = [i \in Slots |-> Dist(k, i)]
  OBVIOUS
<1>2. \A i \in S : r[i] = Dist(k, i) /\ r[i] \in Nat
  BY <1>1, DistType
<1>3. \E i \in S : \A j \in S : r[i] <= r[j]
  BY <1>2, LeastExists
<1>4. \E i \in S : \A j \in S : Dist(k, i) <= Dist(k, j)
  BY <1>2, <1>3
<1> QED
  BY <1>4 DEF Nearest

-----------------------------------------------------------------------------
(* Single states *)

\* A key that is in the table is found, at its own row.
LEMMA SeekLive ==
  ASSUME TableTypeOK, UniqueKeys, ProbePath, NEW i \in LiveSlots
  PROVE  ~Spins(table[i].key) /\ Seek(table[i].key) = i
<1> DEFINE k == table[i].key
           n == Seek(k)
<1>1. i \in Slots /\ Live(i)
  BY DEF LiveSlots
<1>2. k \in Nat
  BY <1>1, TableAssumption DEF TableTypeOK, Entry, Keys
<1>3. i \in Matches(k) /\ Matches(k) \subseteq Slots
  BY <1>1 DEF Matches, Live
<1>4. n \in Matches(k) /\ Dist(k, n) <= Dist(k, i)
  BY <1>2, <1>3, NearestIsLeast DEF Seek
<1>5. n \in Slots /\ table[n].key = k /\ ~table[n].deleted
  BY <1>4 DEF Matches
<1>6. Dist(k, n) \in Nat /\ Dist(k, i) \in Nat
  BY <1>1, <1>2, <1>5, DistType
<1>7. CASE Dist(k, n) = Dist(k, i)
  BY <1>1, <1>2, <1>3, <1>5, <1>7, DistInjective DEF Spins
<1>8. CASE Dist(k, n) < Dist(k, i)
  <2>1. table[n].used
    BY <1>5, <1>8 DEF ProbePath
  <2>2. n \in LiveSlots
    BY <1>5, <2>1 DEF LiveSlots, Live
  <2> QED
    BY <1>3, <1>5, <2>2 DEF UniqueKeys, Spins
<1> QED
  BY <1>4, <1>6, <1>7, <1>8

\* The row a granted wait returns is one that may be locked.
LEMMA GrantIsFree ==
  /\ Shareable # {} => SharedGrant \in Shareable
  /\ Excludable # {} => ExclusiveGrant \in Excludable
<1>1. Shareable \subseteq Slots /\ Excludable \subseteq Slots
  BY DEF Shareable, Excludable
<1> QED
  BY <1>1, NearestIsLeast DEF SharedGrant, ExclusiveGrant

-----------------------------------------------------------------------------
(* What the operations do to the table *)

\* A probe that ends, ends at an entry.
LEMMA SeekSlot ==
  ASSUME NEW k \in Int, ~Spins(k)
  PROVE  Seek(k) \in Slots /\ Seek(k) \in Matches(k)
<1>1. Matches(k) \in SUBSET Slots /\ Matches(k) # {}
  BY DEF Matches, Spins
<1> QED
  BY <1>1, NearestIsLeast DEF Seek

\* Counting stays within the width of the fields.
LEMMA WidthKept ==
  /\ \A n \in Keys : IncRow(n) \in Keys /\ DecRow(n) \in Keys
  /\ \A l \in Locks : IncLk(l) \in Locks /\ DecLk(l) \in Locks
  /\ 0 \in Locks /\ -1 \in Locks
BY TableAssumption DEF Keys, Locks, IncRow, DecRow, IncLk, DecLk

\* A step that changes the lock word of a row keeps the layout.
LEMMA WordStep ==
  ASSUME table \in [Slots -> Entry], NEW i \in Slots, NEW l \in Locks,
         table' = [table EXCEPT ![i].lock = l]
  PROVE  /\ table' \in [Slots -> Entry]
         /\ UniqueKeys => UniqueKeys'
         /\ ProbePath => ProbePath'
         /\ LiveSlots' = LiveSlots
         /\ \A j \in Slots : /\ table'[j].key = table[j].key
                             /\ table'[j].data = table[j].data
         /\ \A j \in Slots \ {i} : table'[j].lock = table[j].lock
         /\ table'[i].lock = l
<1>1. table' \in [Slots -> Entry]
  BY DEF Entry
<1>2. \A j \in Slots : /\ table'[j].key = table[j].key
                        /\ table'[j].data = table[j].data
                        /\ table'[j].used = table[j].used
                        /\ table'[j].deleted = table[j].deleted
                        /\ j # i => table'[j].lock = table[j].lock
  BY DEF Entry
<1>3. table'[i].lock = l
  BY DEF Entry
<1>4. LiveSlots' = LiveSlots
  BY <1>2 DEF LiveSlots, Live
<1>5. UniqueKeys => UniqueKeys'
  BY <1>2, <1>4 DEF UniqueKeys, LiveSlots
<1>6. ProbePath => ProbePath'
  BY <1>2, <1>4 DEF ProbePath, LiveSlots
<1> QED
  BY <1>1, <1>2, <1>3, <1>4, <1>5, <1>6

\* write changes the data of one entry.
LEMMA WriteEffect ==
  ASSUME table \in [Slots -> Entry], NEW i \in Slots, NEW d \in Data,
         table' = [table EXCEPT ![i].data = d]
  PROVE  /\ table' \in [Slots -> Entry]
         /\ UniqueKeys => UniqueKeys'
         /\ ProbePath => ProbePath'
         /\ LiveSlots' = LiveSlots
         /\ \A j \in Slots : /\ table'[j].key = table[j].key
                             /\ table'[j].lock = table[j].lock
         /\ \A j \in Slots \ {i} : table'[j].data = table[j].data
<1>3. table' \in [Slots -> Entry]
  BY DEF Entry
<1>4. \A j \in Slots : /\ table'[j].key = table[j].key
                        /\ table'[j].lock = table[j].lock
                        /\ table'[j].used = table[j].used
                        /\ table'[j].deleted = table[j].deleted
                        /\ j # i => table'[j].data = table[j].data
  BY DEF Entry
<1>5. LiveSlots' = LiveSlots
  BY <1>4 DEF LiveSlots, Live
<1>6. UniqueKeys => UniqueKeys'
  BY <1>4, <1>5 DEF UniqueKeys, LiveSlots
<1>7. ProbePath => ProbePath'
  BY <1>4, <1>5 DEF ProbePath, LiveSlots
<1> QED
  BY <1>3, <1>4, <1>5, <1>6, <1>7

\* remove takes one row away.
LEMMA RemoveEffect ==
  ASSUME table \in [Slots -> Entry], NEW i \in Slots,
         table' = [table EXCEPT ![i].deleted = TRUE]
  PROVE  /\ table' \in [Slots -> Entry]
         /\ UniqueKeys => UniqueKeys'
         /\ ProbePath => ProbePath'
         /\ LiveSlots' = LiveSlots \ {i}
         /\ \A j \in Slots : /\ table'[j].key = table[j].key
                             /\ table'[j].lock = table[j].lock
                             /\ table'[j].data = table[j].data
<1>3. table' \in [Slots -> Entry]
  BY DEF Entry
<1>4. /\ \A j \in Slots : /\ table'[j].key = table[j].key
                           /\ table'[j].lock = table[j].lock
                           /\ table'[j].used = table[j].used
                           /\ table'[j].data = table[j].data
                           /\ j # i => table'[j].deleted = table[j].deleted
      /\ table'[i].deleted
  BY DEF Entry
<1>5. LiveSlots' = LiveSlots \ {i}
  BY <1>4 DEF LiveSlots, Live
<1>6. UniqueKeys => UniqueKeys'
  BY <1>4, <1>5 DEF UniqueKeys, LiveSlots
<1>7. ProbePath => ProbePath'
  BY <1>4, <1>5 DEF ProbePath, LiveSlots
<1> QED
  BY <1>3, <1>4, <1>5, <1>6, <1>7

\* insert adds one row, unlocked, in the first free entry of its probe path;
\* its key is new when next_key_ is above all others.
LEMMA InsertEffect ==
  ASSUME TableTypeOK, NEW d \in Data, insert(d)
  PROVE  \E i \in Slots \ LiveSlots :
           /\ table' \in [Slots -> Entry]
           /\ LiveSlots' = LiveSlots \cup {i}
           /\ table'[i].key = next_key /\ table'[i].lock = 0
           /\ \A j \in Slots \ {i} : table'[j] = table[j]
           /\ (UniqueKeys /\ \A j \in LiveSlots : table[j].key < next_key)
                => UniqueKeys'
           /\ ProbePath => ProbePath'
<1>1. PICK k \in Keys : k = next_key
  BY DEF TableTypeOK
<1>2. FreeSlots \in SUBSET Slots /\ FreeSlots # {} /\ k \in Int
  BY TableAssumption DEF insert, FreeSlots, Keys
<1>3. /\ Nearest(k, FreeSlots) \in FreeSlots
      /\ \A j \in FreeSlots : Dist(k, Nearest(k, FreeSlots)) <= Dist(k, j)
  BY <1>2, NearestIsLeast
<1>4. PICK i \in Slots : i = Nearest(k, FreeSlots)
  BY <1>2, <1>3
<1>5. /\ i \in FreeSlots
      /\ \A j \in FreeSlots : Dist(k, i) <= Dist(k, j)
  BY <1>3, <1>4
<1>6. table' = [table EXCEPT ![i] = [key |-> k, data |-> d, lock |-> 0,
                                     used |-> TRUE, deleted |-> FALSE]]
  BY <1>1, <1>4 DEF insert
<1>7. /\ table' \in [Slots -> Entry]
      /\ \A j \in Slots \ {i} : table'[j] = table[j]
      /\ table'[i].key = k /\ table'[i].lock = 0 /\ table'[i].used
      /\ ~table'[i].deleted
  BY <1>6, WidthKept DEF TableTypeOK, Entry
<1>8. i \notin LiveSlots
  BY <1>5 DEF FreeSlots, LiveSlots, Live
<1>9. LiveSlots' = LiveSlots \cup {i}
  BY <1>7 DEF LiveSlots, Live
<1>10. \A j \in LiveSlots : j \in Slots /\ j # i /\ table'[j] = table[j]
  BY <1>7, <1>8 DEF LiveSlots
<1>11. ASSUME UniqueKeys, \A j \in LiveSlots : table[j].key < next_key
       PROVE  UniqueKeys'
  <2>1. \A j \in Slots : table[j].key \in Int
    BY TableAssumption DEF TableTypeOK, Entry, Keys
  <2>2. \A j \in LiveSlots : table[j].key # k
    BY <1>1, <1>2, <1>10, <1>11, <2>1
  <2> QED BY <1>7, <1>9, <1>10, <1>11, <2>2 DEF UniqueKeys
<1>12. ASSUME ProbePath PROVE ProbePath'
  <2> SUFFICES ASSUME NEW a \in LiveSlots', NEW j \in Slots,
                      Dist(table'[a].key, j) < Dist(table'[a].key, a)
               PROVE  table'[j].used
    BY DEF ProbePath, Dist, Home
  <2>1. CASE j = i
    BY <1>7, <2>1
  <2>2. CASE j # i /\ a = i
    <3>1. Dist(k, j) < Dist(k, i)
      BY <1>7, <2>2
    <3>2. Dist(k, j) \in Int /\ Dist(k, i) \in Int
      BY <1>2, DistType, TableAssumption
    <3>3. j \notin FreeSlots
      BY <1>5, <3>1, <3>2
    <3> QED BY <1>7, <2>2, <3>3 DEF FreeSlots
  <2>3. CASE j # i /\ a # i
    <3>1. a \in LiveSlots /\ table'[a] = table[a]
      BY <1>9, <1>10, <2>3
    <3>2. table[j].used
      BY <1>12, <3>1 DEF ProbePath
    <3> QED BY <1>7, <2>3, <3>2
  <2> QED BY <2>1, <2>2, <2>3
<1> QED
  BY <1>1, <1>7, <1>8, <1>9, <1>11, <1>12

\* No operation leaves the types.
LEMMA OperationsTyped ==
  ASSUME TableTypeOK,
         \/ wait_shared \/ wait_exclusive
         \/ \E k \in Int : promote(k) \/ release(k) \/ remove(k)
         \/ \E k \in Int, d \in Data : write(k, d)
         \/ \E d \in Data : insert(d)
  PROVE  TableTypeOK'
<1>0. /\ table \in [Slots -> Entry] /\ \A j \in Slots : table[j].lock \in Locks
      /\ s_avail_cnt \in Keys /\ x_avail_cnt \in Keys
      /\ size \in Int /\ next_key \in Keys
  BY DEF TableTypeOK, Entry
<1>1. CASE wait_shared
  <2>1. PICK i \in Slots : i = SharedGrant
    BY <1>1, GrantIsFree DEF wait_shared, Shareable
  <2>2. PICK l \in Locks : l = IncLk(table[i].lock)
    BY <1>0, WidthKept
  <2>3. table' = [table EXCEPT ![i].lock = l]
    BY <1>0, <1>1, <2>1, <2>2 DEF wait_shared
  <2>4. table' \in [Slots -> Entry]
    BY <1>0, <2>3, WordStep
  <2> QED BY <1>0, <1>1, <2>4, WidthKept DEF wait_shared, TableTypeOK
<1>2. CASE wait_exclusive
  <2>1. PICK i \in Slots : i = ExclusiveGrant
    BY <1>2, GrantIsFree DEF wait_exclusive, Excludable
  <2>2. PICK l \in Locks : l = -1
    BY WidthKept
  <2>3. table' = [table EXCEPT ![i].lock = l]
    BY <1>2, <2>1, <2>2 DEF wait_exclusive
  <2>4. table' \in [Slots -> Entry]
    BY <1>0, <2>3, WordStep
  <2> QED BY <1>0, <1>2, <2>4, WidthKept DEF wait_exclusive, TableTypeOK
<1>3. ASSUME NEW k \in Int, promote(k) PROVE TableTypeOK'
  <2>1. PICK i \in Slots : i = Seek(k)
    BY <1>3, SeekSlot DEF promote
  <2>2. PICK l \in Locks : l = -1
    BY WidthKept
  <2>3. table' = [table EXCEPT ![i].lock = l]
    BY <1>3, <2>1, <2>2 DEF promote
  <2>4. table' \in [Slots -> Entry]
    BY <1>0, <2>3, WordStep
  <2> QED BY <1>0, <1>3, <2>4, WidthKept DEF promote, TableTypeOK
<1>4. ASSUME NEW k \in Int, release(k) PROVE TableTypeOK'
  <2>1. PICK i \in Slots : i = Seek(k)
    BY <1>4, SeekSlot DEF release
  <2>2. PICK l \in Locks : l = IF table[i].lock = -1 THEN 0
                               ELSE DecLk(table[i].lock)
    BY <1>0, WidthKept
  <2>3. table' = [table EXCEPT ![i].lock = l]
    BY <1>4, <2>1, <2>2 DEF release
  <2>4. table' \in [Slots -> Entry]
    BY <1>0, <2>3, WordStep
  <2> QED BY <1>0, <1>4, <2>4, WidthKept DEF release, TableTypeOK
<1>5. ASSUME NEW k \in Int, remove(k) PROVE TableTypeOK'
  <2>1. PICK i \in Slots : i = Seek(k)
    BY <1>5, SeekSlot DEF remove
  <2>2. table' = [table EXCEPT ![i].deleted = TRUE]
    BY <1>5, <2>1 DEF remove
  <2>3. table' \in [Slots -> Entry]
    BY <1>0, <2>2, RemoveEffect
  <2> QED BY <1>0, <1>5, <2>3 DEF remove, TableTypeOK
<1>6. ASSUME NEW k \in Int, NEW d \in Data, write(k, d) PROVE TableTypeOK'
  <2>1. PICK i \in Slots : i = Seek(k)
    BY <1>6, SeekSlot DEF write
  <2>2. table' = [table EXCEPT ![i].data = d]
    BY <1>6, <2>1 DEF write
  <2>3. table' \in [Slots -> Entry]
    BY <1>0, <2>2, WriteEffect
  <2> QED BY <1>0, <1>6, <2>3 DEF write, TableTypeOK
<1>7. ASSUME NEW d \in Data, insert(d) PROVE TableTypeOK'
  <2>1. table' \in [Slots -> Entry]
    BY <1>7, InsertEffect
  <2> QED BY <1>0, <1>7, <2>1, WidthKept DEF insert, TableTypeOK
<1> QED
  BY <1>1, <1>2, <1>3, <1>4, <1>5, <1>6, <1>7
=============================================================================
