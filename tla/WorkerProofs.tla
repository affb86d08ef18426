---------------------------- MODULE WorkerProofs ----------------------------
(***************************************************************************)
(* Proofs about Worker, for any number of workers, jobs and rows.  The     *)
(* types hold unconditionally; each of the other theorems names the        *)
(* clients and the limits it is about.                                     *)
(***************************************************************************)
EXTENDS Worker, TableProofs, FunctionTheorems

-----------------------------------------------------------------------------
(* The lock list, operation by operation *)

\* First returns an entry of the set.
LEMMA FirstIn ==
  ASSUME NEW S \in SUBSET LL!Entries, S # {}
  PROVE  LL!First(S) \in S
<1>1. \A i \in S : LL!ProbeRank(i) \in Nat
  <2> SUFFICES ASSUME NEW i \in S PROVE LL!ProbeRank(i) \in Nat
    OBVIOUS
  <2>1. i - TblId \in Int /\ MaxLocks \in Nat \ {0}
    BY WorkerAssumption DEF LL!Entries
  <2>2. (i - TblId) % MaxLocks \in 0 .. MaxLocks - 1
    BY <2>1, ModRange
  <2> QED BY <2>1, <2>2 DEF LL!ProbeRank
<1>2. PICK r : r = [i \in S |-> LL!ProbeRank(i)]
  OBVIOUS
<1>3. \A i \in S : r[i] = LL!ProbeRank(i) /\ r[i] \in Nat
  BY <1>1, <1>2
<1>4. \E i \in S : \A j \in S : r[i] <= r[j]
  BY <1>3, LeastExists
<1>5. \E i \in S : \A j \in S : LL!ProbeRank(i) <= LL!ProbeRank(j)
  BY <1>3, <1>4
<1> QED
  BY <1>5 DEF LL!First

\* The locks of a list are finitely many, at most one per entry.
LEMMA HeldFinite ==
  ASSUME NEW L
  PROVE  /\ LL!Held(L) \subseteq LL!Entries
         /\ IsFiniteSet(LL!Held(L)) /\ Cardinality(LL!Held(L)) \in 0 .. MaxLocks
<1>1. LL!Held(L) \subseteq LL!Entries
  BY DEF LL!Held
<1>2. IsFiniteSet(LL!Entries) /\ Cardinality(LL!Entries) = MaxLocks
  BY FS_Interval, WorkerAssumption DEF LL!Entries
<1>3. IsFiniteSet(LL!Held(L)) /\ Cardinality(LL!Held(L)) <= MaxLocks
  BY <1>1, <1>2, FS_Subset
<1>4. Cardinality(LL!Held(L)) \in Nat
  BY <1>3, FS_CardinalityType
<1> QED
  BY <1>1, <1>3, <1>4, WorkerAssumption

\* The list with a new lock in entry i
Put(L, i, k, type) ==
    [locks |-> [L.locks EXCEPT ![i] = [key |-> k, type |-> type,
                                       used |-> TRUE, deleted |-> FALSE]],
     size  |-> L.size + 1]

\* A lock written to an entry that holds none.
LEMMA AddEntry ==
  ASSUME NEW L \in ListRec, Counted(L), NEW i \in LL!Entries \ LL!Held(L),
         NEW k \in Keys, NEW type \in Types,
         NEW M, M = Put(L, i, k, type)
  PROVE  /\ M \in ListRec /\ Counted(M) /\ (Blank(L) => Blank(M))
         /\ LL!Held(M) = LL!Held(L) \cup {i}
         /\ M.locks[i].key = k /\ M.locks[i].type = type
         /\ \A j \in LL!Entries \ {i} : M.locks[j] = L.locks[j]
<1>1. PICK a \in [LL!Entries -> LockRec] : a = L.locks
  BY DEF ListRec
<1>2. PICK b : b = M.locks
  OBVIOUS
<1>3. b = [a EXCEPT ![i] = [key |-> k, type |-> type,
                            used |-> TRUE, deleted |-> FALSE]]
      /\ M = [locks |-> b, size |-> L.size + 1]
  BY <1>1, <1>2 DEF Put
<1>4. /\ b \in [LL!Entries -> LockRec]
      /\ b[i].key = k /\ b[i].type = type /\ b[i].used /\ ~b[i].deleted
      /\ \A j \in LL!Entries \ {i} : b[j] = a[j]
  BY <1>3 DEF LockRec
<1>5. M \in ListRec
  <2>1. L.size + 1 \in Int
    BY DEF ListRec
  <2> QED BY <1>3, <1>4, <2>1 DEF ListRec
<1>6. LL!Held(M) = LL!Held(L) \cup {i}
  BY <1>1, <1>2, <1>4 DEF LL!Held
<1>7. Counted(M)
  <2>1. Cardinality(LL!Held(M)) = Cardinality(LL!Held(L)) + 1
    BY <1>6, HeldFinite, FS_AddElement
  <2>2. M.size = L.size + 1
    BY <1>3
  <2> QED BY <2>1, <2>2 DEF Counted
<1>8. Blank(L) => Blank(M)
  BY <1>1, <1>2, <1>4 DEF Blank
<1> QED
  BY <1>1, <1>2, <1>4, <1>5, <1>6, <1>7, <1>8

\* add_lock keeps the list in order, whatever it answers.
LEMMA AddLockTyped ==
  ASSUME NEW L \in ListRec, Counted(L), Blank(L), NEW k \in Keys,
         NEW type \in Types, NEW M, M = LL!add_lock(L, k, type).list
  PROVE  M \in ListRec /\ Counted(M) /\ Blank(M)
<1>1. CASE L.size >= MaxLocks
  BY <1>1 DEF LL!add_lock
<1>2. CASE ~(L.size >= MaxLocks)
  <2>1. M = LL!insert(L, k, type).list
    BY <1>2 DEF LL!add_lock
  <2>2. PICK i : i = LL!First(LL!Unheld(L) \cup (LL!Held(L) \cap LL!Matching(L, k)))
    OBVIOUS
  <2>3. CASE i \in LL!Held(L)
    BY <2>1, <2>2, <2>3 DEF LL!insert
  <2>4. CASE i \notin LL!Held(L)
    <3>1. LL!Unheld(L) # {}
      <4>1. Cardinality(LL!Held(L)) < MaxLocks
        BY <1>2, HeldFinite, WorkerAssumption DEF Counted
      <4>2. Cardinality(LL!Entries) = MaxLocks
        BY FS_Interval, WorkerAssumption DEF LL!Entries
      <4>3. LL!Held(L) # LL!Entries
        BY <4>1, <4>2, HeldFinite, WorkerAssumption
      <4> QED BY <4>3, HeldFinite DEF LL!Unheld
    <3>2. i \in LL!Entries \ LL!Held(L)
      <4>1. LL!Unheld(L) \cup (LL!Held(L) \cap LL!Matching(L, k))
              \in SUBSET LL!Entries
        BY HeldFinite DEF LL!Unheld
      <4> QED BY <2>2, <2>4, <3>1, <4>1, FirstIn
    <3>3. M = Put(L, i, k, type)
      BY <2>1, <2>2, <2>4 DEF LL!insert, Put
    <3> QED BY <3>2, <3>3, AddEntry
  <2> QED BY <2>3, <2>4
<1> QED
  BY <1>1, <1>2

\* From the first entry on, what is listed is what is held.
LEMMA ListedHeld ==
  ASSUME NEW L, NEW k, NEW type
  PROVE  Listed(L, 0, k, type) <=>
           \E i \in LL!Held(L) : L.locks[i].key = k /\ L.locks[i].type = type
<1>1. LL!Remaining(L, 0) = LL!Held(L)
  <2>1. \A i \in LL!Held(L) : i >= 0
    BY HeldFinite, WorkerAssumption DEF LL!Entries
  <2> QED BY <2>1 DEF LL!Remaining
<1> QED
  BY <1>1 DEF Listed

\* add_lock of a row not in the list, while there is room.
LEMMA AddLock ==
  ASSUME NEW L \in ListRec, Counted(L), NEW k \in Keys, NEW type \in Types,
         L.size < MaxLocks, \A ty \in Types : ~Listed(L, 0, k, ty)
  PROVE  LET r == LL!add_lock(L, k, type)
         IN  /\ r.error = "None"
             /\ RowsOnce(L) => RowsOnce(r.list)
             /\ \A q \in Keys, ty \in Types :
                  Listed(r.list, 0, q, ty) <=>
                    Listed(L, 0, q, ty) \/ (q = k /\ ty = type)
<1>0. \A i \in LL!Held(L) : L.locks[i].key # k
  <2>1. \A i \in LL!Held(L) : L.locks[i].type \in Types
    BY HeldFinite DEF ListRec, LockRec
  <2> QED BY <2>1, ListedHeld
<1>1. PICK i : i = LL!First(LL!Unheld(L) \cup (LL!Held(L) \cap LL!Matching(L, k)))
  OBVIOUS
<1>2. LL!Held(L) \cap LL!Matching(L, k) = {}
  BY <1>0 DEF LL!Matching
<1>3. LL!Unheld(L) # {}
  <2>1. Cardinality(LL!Held(L)) < MaxLocks
    BY DEF Counted
  <2>2. Cardinality(LL!Entries) = MaxLocks
    BY FS_Interval, WorkerAssumption DEF LL!Entries
  <2>3. LL!Held(L) # LL!Entries
    BY <2>1, <2>2, HeldFinite, WorkerAssumption
  <2> QED BY <2>3, HeldFinite DEF LL!Unheld
<1>4. i \in LL!Entries \ LL!Held(L)
  <2>1. LL!Unheld(L) \in SUBSET LL!Entries
    BY DEF LL!Unheld
  <2>2. LL!First(LL!Unheld(L)) \in LL!Unheld(L)
    BY <1>3, <2>1, FirstIn
  <2> QED BY <1>1, <1>2, <2>2 DEF LL!Unheld
<1>5. PICK M : M = Put(L, i, k, type)
  OBVIOUS
<1>6. LL!add_lock(L, k, type) = [error |-> "None", list |-> M]
  <2>1. ~(L.size >= MaxLocks)
    BY WorkerAssumption DEF ListRec
  <2> QED BY <1>1, <1>4, <1>5, <2>1 DEF LL!add_lock, LL!insert, Put
<1>7. /\ M \in ListRec /\ Counted(M) /\ (Blank(L) => Blank(M))
      /\ LL!Held(M) = LL!Held(L) \cup {i}
      /\ M.locks[i].key = k /\ M.locks[i].type = type
      /\ \A j \in LL!Entries \ {i} : M.locks[j] = L.locks[j]
  BY <1>4, <1>5, AddEntry
<1>8. \A j \in LL!Held(L) : j # i /\ M.locks[j] = L.locks[j]
  BY <1>4, <1>7, HeldFinite
<1>9. RowsOnce(L) => RowsOnce(M)
  BY <1>0, <1>7, <1>8 DEF RowsOnce
<1>10. \A q \in Keys, ty \in Types :
         Listed(M, 0, q, ty) <=> Listed(L, 0, q, ty) \/ (q = k /\ ty = type)
  BY <1>7, <1>8, ListedHeld
<1>11. /\ LL!add_lock(L, k, type).error = "None"
       /\ LL!add_lock(L, k, type).list = M
  BY <1>6
<1> QED
  BY <1>9, <1>10, <1>11

\* What get_lock answers is an entry that holds the row, where search ends.
LEMMA GetLock ==
  ASSUME NEW L, NEW k, NEW type \in Types, LL!get_lock(L, k) = type
  PROVE  /\ LL!search(L, k) \in LL!Held(L) /\ LL!search(L, k) \in LL!Matching(L, k)
         /\ L.locks[LL!search(L, k)].key = k
         /\ L.locks[LL!search(L, k)].type = type
         /\ Listed(L, 0, k, type)
<1>1. PICK S : S = {i \in LL!Entries : ~L.locks[i].used} \cup LL!Matching(L, k)
  OBVIOUS
<1>2. PICK i : i = LL!search(L, k)
  OBVIOUS
<1>3. i # LL!NoKey /\ L.locks[i].type = type
  BY <1>2 DEF LL!get_lock, Types
<1>4. S # {} /\ L.locks[i].used /\ i = LL!First(S)
  BY <1>1, <1>2, <1>3 DEF LL!search
<1>5. S \in SUBSET LL!Entries
  BY <1>1 DEF LL!Matching
<1>6. i \in S
  BY <1>4, <1>5, FirstIn
<1>7. i \in LL!Matching(L, k)
  BY <1>1, <1>4, <1>6
<1>8. i \in LL!Held(L) /\ L.locks[i].key = k
  BY <1>4, <1>7 DEF LL!Matching, LL!Held
<1> QED
  BY <1>2, <1>3, <1>7, <1>8, ListedHeld

\* rm_lock of a row that matches an entry takes it out of the list.
LEMMA RmLock ==
  ASSUME NEW L \in ListRec, Counted(L), Blank(L), NEW k \in Keys,
         LL!Matching(L, k) # {}, NEW M, M = LL!rm_lock(L, k)
  PROVE  /\ M \in ListRec /\ Counted(M) /\ Blank(M)
         /\ RowsOnce(L) =>
              /\ RowsOnce(M)
              /\ \A q \in Keys, ty \in Types :
                   Listed(M, 0, q, ty) <=> Listed(L, 0, q, ty) /\ q # k
<1>1. PICK i : i = LL!First(LL!Matching(L, k))
  OBVIOUS
<1>2. i \in LL!Entries /\ i \in LL!Matching(L, k)
  <2>1. LL!Matching(L, k) \in SUBSET LL!Entries
    BY DEF LL!Matching
  <2> QED BY <1>1, <2>1, FirstIn
<1>3. L.locks[i].key = k /\ ~L.locks[i].deleted /\ L.locks[i].used
  <2>1. L.locks[i].key = k /\ ~L.locks[i].deleted
    BY <1>2 DEF LL!Matching
  <2>2. k # LL!NoKey
    BY TableAssumption DEF Keys, LL!NoKey
  <2> QED BY <1>2, <2>1, <2>2 DEF Blank
<1>4. i \in LL!Held(L)
  BY <1>2, <1>3 DEF LL!Held
<1>5. PICK a \in [LL!Entries -> LockRec] : a = L.locks
  BY DEF ListRec
<1>6. PICK b : b = M.locks
  OBVIOUS
<1>7. b = [a EXCEPT ![i].deleted = TRUE] /\ M.size = L.size - 1
      /\ M = [locks |-> b, size |-> L.size - 1]
  BY <1>1, <1>5, <1>6 DEF LL!rm_lock, ListRec
<1>8. /\ b \in [LL!Entries -> LockRec] /\ b[i].deleted
      /\ \A j \in LL!Entries : /\ b[j].key = a[j].key /\ b[j].type = a[j].type
                               /\ b[j].used = a[j].used
                               /\ j # i => b[j].deleted = a[j].deleted
  BY <1>2, <1>7 DEF LockRec
<1>9. LL!Held(M) = LL!Held(L) \ {i}
  BY <1>2, <1>5, <1>6, <1>8 DEF LL!Held
<1>10. M \in ListRec
  <2>1. L.size - 1 \in Int
    BY DEF ListRec
  <2> QED BY <1>7, <1>8, <2>1 DEF ListRec
<1>11. Counted(M)
  <2>1. Cardinality(LL!Held(M)) = Cardinality(LL!Held(L)) - 1
    BY <1>4, <1>9, HeldFinite, FS_RemoveElement
  <2> QED BY <1>7, <2>1 DEF Counted
<1>12. Blank(M)
  BY <1>5, <1>6, <1>8 DEF Blank
<1>13. \A j \in LL!Held(L) : /\ M.locks[j].key = L.locks[j].key
                              /\ M.locks[j].type = L.locks[j].type
  BY <1>5, <1>6, <1>8, HeldFinite
<1>14. ASSUME RowsOnce(L)
       PROVE  /\ RowsOnce(M)
              /\ \A q \in Keys, ty \in Types :
                   Listed(M, 0, q, ty) <=> Listed(L, 0, q, ty) /\ q # k
  <2>1. RowsOnce(M)
    BY <1>9, <1>13, <1>14 DEF RowsOnce
  <2>2. \A j \in LL!Held(L) : j # i => L.locks[j].key # k
    BY <1>3, <1>4, <1>14 DEF RowsOnce
  <2>3. \A q \in Keys, ty \in Types :
          Listed(M, 0, q, ty) <=> Listed(L, 0, q, ty) /\ q # k
    BY <1>3, <1>9, <1>13, <2>2, ListedHeld
  <2> QED BY <2>1, <2>3
<1> QED
  BY <1>10, <1>11, <1>12, <1>14

\* promote_lock of a row get_lock has shown to be shared changes its type.
LEMMA PromoteLock ==
  ASSUME NEW L \in ListRec, Counted(L), Blank(L), NEW k \in Keys,
         LL!get_lock(L, k) = "SHARED", NEW M, M = LL!promote_lock(L, k)
  PROVE  /\ M \in ListRec /\ Counted(M) /\ Blank(M)
         /\ RowsOnce(L) =>
              /\ RowsOnce(M)
              /\ \A q \in Keys, ty \in Types :
                   Listed(M, 0, q, ty) <=>
                     IF q = k THEN ty = "EXCLUSIVE" ELSE Listed(L, 0, q, ty)
<1>1. PICK i : i = LL!search(L, k)
  OBVIOUS
<1>2. i \in LL!Held(L) /\ i \in LL!Entries /\ L.locks[i].key = k
  <2>1. "SHARED" \in Types
    BY DEF Types
  <2> QED BY <1>1, <2>1, GetLock, HeldFinite
<1>5. PICK a \in [LL!Entries -> LockRec] : a = L.locks
  BY DEF ListRec
<1>6. PICK b : b = M.locks
  OBVIOUS
<1>7. b = [a EXCEPT ![i].type = "EXCLUSIVE"] /\ M = [locks |-> b, size |-> L.size]
  BY <1>1, <1>5, <1>6 DEF LL!promote_lock, ListRec
<1>8. /\ b \in [LL!Entries -> LockRec] /\ b[i].type = "EXCLUSIVE"
      /\ \A j \in LL!Entries : /\ b[j].key = a[j].key
                               /\ b[j].used = a[j].used
                               /\ b[j].deleted = a[j].deleted
                               /\ j # i => b[j].type = a[j].type
  BY <1>2, <1>7 DEF LockRec, Types
<1>9. LL!Held(M) = LL!Held(L)
  BY <1>2, <1>5, <1>6, <1>8 DEF LL!Held
<1>10. M \in ListRec
  BY <1>7, <1>8 DEF ListRec
<1>11. Counted(M)
  BY <1>7, <1>9 DEF Counted
<1>12. Blank(M)
  BY <1>5, <1>6, <1>8 DEF Blank
<1>13. /\ \A j \in LL!Held(L) : /\ M.locks[j].key = L.locks[j].key
                                /\ j # i => M.locks[j].type = L.locks[j].type
       /\ M.locks[i].type = "EXCLUSIVE"
  BY <1>5, <1>6, <1>8, HeldFinite
<1>14. ASSUME RowsOnce(L)
       PROVE  /\ RowsOnce(M)
              /\ \A q \in Keys, ty \in Types :
                   Listed(M, 0, q, ty) <=>
                     IF q = k THEN ty = "EXCLUSIVE" ELSE Listed(L, 0, q, ty)
  <2>1. RowsOnce(M)
    BY <1>9, <1>13, <1>14 DEF RowsOnce
  <2>2. \A j \in LL!Held(L) : j # i => L.locks[j].key # k
    BY <1>2, <1>14 DEF RowsOnce
  <2>3. ASSUME NEW q \in Keys, NEW ty \in Types
        PROVE  Listed(M, 0, q, ty) <=>
                 IF q = k THEN ty = "EXCLUSIVE" ELSE Listed(L, 0, q, ty)
    <3>1. CASE q = k
      BY <1>2, <1>9, <1>13, <2>2, <3>1, ListedHeld
    <3>2. CASE q # k
      BY <1>2, <1>9, <1>13, <3>2, ListedHeld
    <3> QED BY <3>1, <3>2
  <2> QED BY <2>1, <2>3
<1> QED
  BY <1>10, <1>11, <1>12, <1>14

\* The iterator goes to the next lock, and what remains is what was left but
\* for that one.
LEMMA NextListed ==
  ASSUME NEW L \in ListRec, NEW c \in Nat, LL!Remaining(L, c) # {}
  PROVE  LET n == LL!NextValid(L, c)
         IN  /\ n \in LL!Held(L) /\ n \in Nat /\ n >= c
             /\ Listed(L, c, L.locks[n].key, L.locks[n].type)
             /\ RowsOnce(L) => \A q \in Keys, ty \in Types :
                  Listed(L, n + 1, q, ty) <=>
                    Listed(L, c, q, ty) /\ q # L.locks[n].key
<1>1. PICK n : n = LL!NextValid(L, c)
  OBVIOUS
<1>2. \A i \in LL!Remaining(L, c) : i \in LL!Held(L) /\ i \in Nat /\ i >= c
  BY HeldFinite, WorkerAssumption DEF LL!Remaining, LL!Entries
<1>3. PICK r : r = [i \in LL!Remaining(L, c) |-> i]
  OBVIOUS
<1>4. \A i \in LL!Remaining(L, c) : r[i] = i /\ r[i] \in Nat
  BY <1>2, <1>3
<1>5. \E i \in LL!Remaining(L, c) : \A j \in LL!Remaining(L, c) : r[i] <= r[j]
  BY <1>4, LeastExists
<1>6. \E i \in LL!Remaining(L, c) : \A j \in LL!Remaining(L, c) : i <= j
  BY <1>4, <1>5
<1>7. n \in LL!Remaining(L, c) /\ \A j \in LL!Remaining(L, c) : n <= j
  BY <1>1, <1>6 DEF LL!NextValid
<1>8. n \in LL!Held(L) /\ n \in Nat /\ n >= c
  BY <1>2, <1>7
<1>9. Listed(L, c, L.locks[n].key, L.locks[n].type)
  BY <1>7 DEF Listed
<1>10. LL!Remaining(L, n + 1) = LL!Remaining(L, c) \ {n}
  <2>1. \A i \in LL!Held(L) : i \in Nat
    BY HeldFinite, WorkerAssumption DEF LL!Entries
  <2>2. ASSUME NEW i \in LL!Held(L) PROVE i >= n + 1 <=> i >= c /\ i # n
    <3>1. i \in Nat /\ (i >= c => n <= i)
      BY <1>7, <2>1 DEF LL!Remaining
    <3> QED BY <1>8, <3>1
  <2> QED BY <2>2 DEF LL!Remaining
<1>11. ASSUME RowsOnce(L), NEW q \in Keys, NEW ty \in Types
       PROVE  Listed(L, n + 1, q, ty) <=>
                Listed(L, c, q, ty) /\ q # L.locks[n].key
  <2>1. \A j \in LL!Remaining(L, c) : j # n => L.locks[j].key # L.locks[n].key
    BY <1>2, <1>8, <1>11 DEF RowsOnce
  <2> QED BY <1>7, <1>10, <2>1 DEF Listed
<1> QED
  BY <1>1, <1>8, <1>9, <1>11

\* clear at the end of a worker: no lock is left.
LEMMA ClearList ==
  ASSUME NEW L \in ListRec, NEW M, M = LL!clear(L)
  PROVE  M \in ListRec /\ Counted(M) /\ LL!Held(M) = {}
<1>1. PICK a \in [LL!Entries -> LockRec] : a = L.locks
  BY DEF ListRec
<1>2. PICK b : b = M.locks
  OBVIOUS
<1>3. b = [i \in LL!Entries |-> [a[i] EXCEPT !.used = FALSE]]
      /\ M = [locks |-> b, size |-> 0]
  BY <1>1, <1>2 DEF LL!clear
<1>4. b \in [LL!Entries -> LockRec] /\ \A i \in LL!Entries : ~b[i].used
  BY <1>3 DEF LockRec
<1>5. LL!Held(M) = {}
  BY <1>2, <1>4 DEF LL!Held
<1>6. M \in ListRec
  BY <1>3, <1>4 DEF ListRec
<1>7. Counted(M)
  <2>1. M.size = 0
    BY <1>3
  <2> QED BY <1>5, <2>1, FS_EmptySet DEF Counted
<1> QED
  BY <1>5, <1>6, <1>7

-----------------------------------------------------------------------------
(* What a step does to the state of its worker, from t to u.  The handlers  *)
(* are functions of the state, so these facts need no primes.               *)

SameLocks(t, u) == u.locks = t.locks /\ u.cursor = t.cursor

SameWork(t, u) == /\ u.commits = t.commits /\ u.acked = t.acked
                  /\ u.applied = t.applied

SameJob(t, u) == u.job = t.job /\ u.tries = t.tries /\ u.taken = t.taken

\* One reply and pop, and back to the loop
OneReply(t, u) == /\ u.pc = "loop" /\ u.pops = t.pops + 1
                  /\ \E a \in Acks : u.acks = Append(t.acks, a)
                  /\ u.committed = t.committed

NoReply(t, u) == /\ u.acks = t.acks /\ u.pops = t.pops
                 /\ u.committed = t.committed

\* Nothing but the place in the code
Moved(t, u) == /\ SameLocks(t, u) /\ SameWork(t, u) /\ SameJob(t, u)
               /\ NoReply(t, u) /\ u.status = t.status

\* An answer and nothing else, unless the transaction leaves GROWING
Replied(t, u) == /\ SameLocks(t, u) /\ SameWork(t, u) /\ SameJob(t, u)
                 /\ OneReply(t, u)
                 /\ u.status = t.status \/ u.status \in {"SHRINKING", "ABORTED"}

\* A change is queued and acknowledged.
Queued(t, u) ==
    /\ SameLocks(t, u) /\ SameJob(t, u) /\ OneReply(t, u)
    /\ u.status \in {"SHRINKING", "ABORTED"}
    /\ u.commits = Append(t.commits, Change(t)) /\ Len(t.commits) < MaxCommits
    /\ u.acked = t.acked + 1 /\ u.applied = t.applied
    /\ \/ t.job.op = "ADD_TUPLE"
       \/ /\ t.job.op \in {"UPDATE", "DELETE"} /\ t.job.key \in Keys
          /\ LL!get_lock(t.locks, t.job.key) = "EXCLUSIVE"

\* A change is acknowledged and then refused.
Overfull(t, u) ==
    /\ SameLocks(t, u) /\ SameJob(t, u) /\ u.commits = t.commits
    /\ u.status \in {"SHRINKING", "ABORTED"} /\ u.pc = "loop"
    /\ u.committed = t.committed /\ Len(t.commits) >= MaxCommits

\* A retry loop begins.
Begun(t, u) ==
    /\ SameLocks(t, u) /\ SameWork(t, u) /\ NoReply(t, u)
    /\ u.status = t.status /\ t.status = "GROWING"
    /\ u.pc = "head" /\ u.tries = 0 /\ u.job = t.job /\ u.taken = t.taken
    /\ \/ t.job.op \in {"SHARED_READ", "EXCLUSIVE_READ"}
       \/ /\ t.job.op = "PROMOTE" /\ t.job.key \in Keys
          /\ LL!get_lock(t.locks, t.job.key) = "SHARED"

\* A shared lock leaves the list and is about to be released.
Yielding(t, u) ==
    /\ SameWork(t, u) /\ SameJob(t, u) /\ NoReply(t, u)
    /\ u.status = t.status /\ t.status = "GROWING" /\ u.pc = "yield"
    /\ u.cursor = t.cursor /\ t.job.key \in Keys
    /\ LL!get_lock(t.locks, t.job.key) = "SHARED"
    /\ u.locks = LL!rm_lock(t.locks, t.job.key)

\* The last answer of a worker
Ended(t, u) ==
    /\ SameLocks(t, u) /\ SameWork(t, u) /\ SameJob(t, u)
    /\ u.status = t.status /\ u.pc = "quit" /\ u.pops = t.pops + 1
    /\ u.acks = Append(t.acks, "SUCCESS")
    /\ u.committed => t.job.op = "COMMIT_TXN"

\* What a handler does before it uses the table
Outcome(t, u) ==
    \/ Replied(t, u) \/ Queued(t, u) \/ Overfull(t, u) \/ Begun(t, u)
    \/ Yielding(t, u)
    \/ Ended(t, u) /\ (t.job.op = "COMMIT_TXN" => t.status # "SHRINKING")
    \/ Moved(t, u) /\ u.pc = "commit"

\* The parts of the handlers.
LEMMA AnswerFields ==
  ASSUME NEW t \in TxnRec, NEW a \in Acks, NEW u, u = Answer(t, a)
  PROVE  /\ u \in TxnRec /\ u.pc = "loop" /\ u.acks = Append(t.acks, a)
         /\ u.pops = t.pops + 1 /\ SameLocks(t, u) /\ SameWork(t, u)
         /\ SameJob(t, u) /\ u.committed = t.committed /\ u.status = t.status
<1>1. Append(t.acks, a) \in Seq(Acks) /\ t.pops + 1 \in Nat /\ "loop" \in Pcs
  BY DEF TxnRec, Pcs
<1>2. u = [t EXCEPT !.acks = Append(t.acks, a), !.pops = t.pops + 1, !.pc = "loop"]
  BY DEF Answer, Pop, Reply, TxnRec
<1> QED
  BY <1>1, <1>2 DEF TxnRec, SameLocks, SameWork, SameJob

\* LastAnswer is the end of COMMIT and ABORT.
LEMMA LastAnswerFields ==
  ASSUME NEW t \in TxnRec, NEW u, u = LastAnswer(t)
  PROVE  u \in TxnRec /\ Ended(t, u)
<1>1. /\ Append(t.acks, "SUCCESS") \in Seq(Acks) /\ t.pops + 1 \in Nat
      /\ "quit" \in Pcs
  BY DEF TxnRec, Pcs, Acks
<1>2. PICK b \in BOOLEAN : b = (t.job.op = "COMMIT_TXN")
  OBVIOUS
<1>3. u = [t EXCEPT !.acks = Append(t.acks, "SUCCESS"), !.pops = t.pops + 1,
                    !.pc = "quit", !.committed = b]
  BY <1>2 DEF LastAnswer, Pop, Reply, TxnRec
<1> QED
  BY <1>1, <1>2, <1>3 DEF TxnRec, SameLocks, SameWork, SameJob, Ended

\* Shrink changes the status only.
LEMMA ShrinkFields ==
  ASSUME NEW t \in TxnRec, NEW u, u = Shrink(t)
  PROVE  /\ u \in TxnRec /\ u.status \in {"SHRINKING", "ABORTED"}
         /\ SameLocks(t, u) /\ SameWork(t, u) /\ SameJob(t, u)
         /\ NoReply(t, u)
<1>1. PICK s \in {"SHRINKING", "ABORTED"} :
        s = IF t.status = "GROWING" THEN "SHRINKING" ELSE t.status
  BY DEF TxnRec, Statuses
<1>2. u = [t EXCEPT !.status = s] /\ s \in Statuses
  BY <1>1 DEF Shrink, TxnRec, Statuses
<1> QED
  BY <1>1, <1>2 DEF TxnRec, SameLocks, SameWork, SameJob, NoReply

\* An answer after Shrink.
LEMMA ShrinkAnswer ==
  ASSUME NEW t \in TxnRec, NEW a \in Acks, NEW u, u = Answer(Shrink(t), a)
  PROVE  u \in TxnRec /\ Replied(t, u)
<1>1. PICK s : s = Shrink(t)
  OBVIOUS
<1>2. /\ s \in TxnRec /\ s.status \in {"SHRINKING", "ABORTED"}
      /\ SameLocks(t, s) /\ SameWork(t, s) /\ SameJob(t, s) /\ NoReply(t, s)
  BY <1>1, ShrinkFields
<1>3. /\ u \in TxnRec /\ u.pc = "loop" /\ u.acks = Append(s.acks, a)
      /\ u.pops = s.pops + 1 /\ SameLocks(s, u) /\ SameWork(s, u)
      /\ SameJob(s, u) /\ u.committed = s.committed /\ u.status = s.status
  BY <1>1, <1>2, AnswerFields
<1> QED
  BY <1>2, <1>3 DEF SameLocks, SameWork, SameJob, NoReply, OneReply, Replied

\* An answer by itself.
LEMMA PlainAnswer ==
  ASSUME NEW t \in TxnRec, NEW a \in Acks, NEW u, u = Answer(t, a)
  PROVE  u \in TxnRec /\ Replied(t, u)
BY AnswerFields DEF OneReply, Replied

\* A change of a typed job is typed.
LEMMA ChangeTyped ==
  ASSUME NEW t \in TxnRec, t.job \in Jobs, t.job.op \in Ops
  PROVE  Change(t) \in ChangeRec
<1>1. t.job \in Job
  BY JobsAssumption
<1> QED
  BY <1>1 DEF Change, ChangeRec, Job

\* ADD and UPDATE with no room: two replies and one pop.
LEMMA ShrinkFull ==
  ASSUME NEW t \in TxnRec, Len(t.commits) >= MaxCommits,
         NEW u, u = Answer([Reply(Shrink(t), "SUCCESS") EXCEPT !.acked = @ + 1],
                           "COMMIT_FULL")
  PROVE  u \in TxnRec /\ Overfull(t, u)
<1>1. PICK s : s = Shrink(t)
  OBVIOUS
<1>2. /\ s \in TxnRec /\ s.status \in {"SHRINKING", "ABORTED"}
      /\ SameLocks(t, s) /\ SameWork(t, s) /\ SameJob(t, s) /\ NoReply(t, s)
  BY <1>1, ShrinkFields
<1>3. PICK r : r = [Reply(s, "SUCCESS") EXCEPT !.acked = @ + 1]
  OBVIOUS
<1>4. Append(s.acks, "SUCCESS") \in Seq(Acks) /\ s.acked + 1 \in Nat
      /\ "COMMIT_FULL" \in Acks
  BY <1>2 DEF TxnRec, Acks
<1>5. r = [s EXCEPT !.acks = Append(s.acks, "SUCCESS"), !.acked = s.acked + 1]
  BY <1>2, <1>3 DEF Reply, TxnRec
<1>6. /\ r \in TxnRec /\ SameLocks(s, r) /\ SameJob(s, r)
      /\ r.commits = s.commits /\ r.status = s.status
      /\ r.committed = s.committed
  BY <1>2, <1>4, <1>5 DEF TxnRec, SameLocks, SameJob
<1>7. u = Answer(r, "COMMIT_FULL")
  BY <1>1, <1>3
<1>8. /\ u \in TxnRec /\ u.pc = "loop" /\ SameLocks(r, u) /\ SameWork(r, u)
      /\ SameJob(r, u) /\ u.committed = r.committed /\ u.status = r.status
  BY <1>4, <1>6, <1>7, AnswerFields
<1> QED
  BY <1>2, <1>6, <1>8 DEF SameLocks, SameWork, SameJob, NoReply, Overfull

\* A change queued in the order of ADD and UPDATE, and in that of DELETE.
LEMMA ShrinkQueue ==
  ASSUME NEW t \in TxnRec, t.job \in Jobs, t.job.op \in Ops,
         Len(t.commits) < MaxCommits,
         t.job.op = "ADD_TUPLE"
           \/ (/\ t.job.op \in {"UPDATE", "DELETE"} /\ t.job.key \in Keys
               /\ LL!get_lock(t.locks, t.job.key) = "EXCLUSIVE"),
         NEW u,
         \/ u = [Pop([Reply(Shrink(t), "SUCCESS") EXCEPT !.acked = @ + 1]) EXCEPT
                   !.commits = Append(@, Change(t)), !.pc = "loop"]
         \/ u = [Answer(Shrink(t), "SUCCESS") EXCEPT
                   !.commits = Append(@, Change(t)), !.acked = @ + 1]
  PROVE  u \in TxnRec /\ Queued(t, u)
<1>1. PICK s : s = Shrink(t)
  OBVIOUS
<1>2. /\ s \in TxnRec /\ s.status \in {"SHRINKING", "ABORTED"}
      /\ SameLocks(t, s) /\ SameWork(t, s) /\ SameJob(t, s) /\ NoReply(t, s)
  BY <1>1, ShrinkFields
<1>3. PICK c \in ChangeRec : c = Change(t)
  BY ChangeTyped
<1>4. /\ Append(s.acks, "SUCCESS") \in Seq(Acks) /\ s.acked + 1 \in Nat
      /\ s.pops + 1 \in Nat /\ "loop" \in Pcs
      /\ Append(s.commits, c) \in Seq(ChangeRec) /\ "SUCCESS" \in Acks
  BY <1>2, <1>3 DEF TxnRec, Acks, Pcs
<1>5. u = [s EXCEPT !.acks = Append(s.acks, "SUCCESS"), !.acked = s.acked + 1,
                    !.pops = s.pops + 1, !.commits = Append(s.commits, c),
                    !.pc = "loop"]
  <2>1. CASE u = [Pop([Reply(s, "SUCCESS") EXCEPT !.acked = @ + 1]) EXCEPT
                   !.commits = Append(@, Change(t)), !.pc = "loop"]
    BY <1>2, <1>3, <2>1 DEF Pop, Reply, TxnRec
  <2>2. CASE u = [Answer(s, "SUCCESS") EXCEPT
                   !.commits = Append(@, Change(t)), !.acked = @ + 1]
    BY <1>2, <1>3, <2>2 DEF Answer, Pop, Reply, TxnRec
  <2> QED BY <1>1, <2>1, <2>2
<1>6. /\ u \in TxnRec /\ u.status = s.status /\ SameLocks(s, u)
      /\ SameJob(s, u) /\ u.acks = Append(s.acks, "SUCCESS")
      /\ u.acked = s.acked + 1 /\ u.pops = s.pops + 1
      /\ u.commits = Append(s.commits, c) /\ u.pc = "loop"
      /\ u.applied = s.applied /\ u.committed = s.committed
  BY <1>2, <1>4, <1>5 DEF TxnRec, SameLocks, SameJob
<1>7. OneReply(t, u)
  BY <1>2, <1>4, <1>6 DEF NoReply, OneReply
<1> QED
  BY <1>2, <1>3, <1>6, <1>7 DEF SameLocks, SameWork, SameJob, NoReply, Queued

\* What is true of a lock of the type HeldType returns.
LEMMA HeldTypeMeans ==
  ASSUME NEW t \in TxnRec, t.job \in Jobs, NEW type \in Types,
         HeldType(t) = type, t.job.key # BadField
  PROVE  t.job.key \in Keys /\ LL!get_lock(t.locks, t.job.key) = type
<1>1. t.job \in Job
  BY JobsAssumption
<1>2. t.job.key \in Keys
  BY <1>1 DEF Job
<1> QED
  BY <1>2 DEF HeldType, Types

\* What each handler does before it uses the table.
LEMMA AddOutcome ==
  ASSUME NEW t \in TxnRec, t.job \in Jobs, t.job.op = "ADD_TUPLE",
         NEW u, u = process_add(t)
  PROVE  u \in TxnRec /\ Outcome(t, u)
<1>1. CASE t.job.tbl # TblId
  <2>1. u = Answer(Shrink(t), "BAD_TABLE") /\ "BAD_TABLE" \in Acks
    BY <1>1 DEF process_add, Acks
  <2> QED BY <2>1, ShrinkAnswer DEF Outcome
<1>2. CASE t.job.tbl = TblId /\ Len(t.commits) >= MaxCommits
  <2>1. u = Answer([Reply(Shrink(t), "SUCCESS") EXCEPT !.acked = @ + 1],
                   "COMMIT_FULL")
    BY <1>2 DEF process_add
  <2> QED BY <1>2, <2>1, ShrinkFull DEF Outcome
<1>3. CASE t.job.tbl = TblId /\ ~(Len(t.commits) >= MaxCommits)
  <2>1. u = [Pop([Reply(Shrink(t), "SUCCESS") EXCEPT !.acked = @ + 1]) EXCEPT
                   !.commits = Append(@, Change(t)), !.pc = "loop"]
    BY <1>3 DEF process_add
  <2>2. Len(t.commits) < MaxCommits /\ t.job.op \in Ops
    BY <1>3, WorkerAssumption DEF TxnRec, Ops
  <2>3. u \in TxnRec /\ Queued(t, u)
    BY <2>1, <2>2, ShrinkQueue
  <2> QED BY <2>3 DEF Outcome
<1> QED
  BY <1>1, <1>2, <1>3

\* UPDATE queues its change only under an exclusive lock on the row.
LEMMA UpdateOutcome ==
  ASSUME NEW t \in TxnRec, t.job \in Jobs, t.job.op = "UPDATE",
         NEW u, u = process_update(t)
  PROVE  u \in TxnRec /\ Outcome(t, u)
<1>1. CASE \E a \in Acks : u = Answer(Shrink(t), a)
  BY <1>1, ShrinkAnswer DEF Outcome
<1> SUFFICES ASSUME ~\E a \in Acks : u = Answer(Shrink(t), a)
             PROVE  u \in TxnRec /\ Outcome(t, u)
  BY <1>1
<1>2. t.job.tbl # BadField /\ t.job.key # BadField /\ HeldType(t) = "EXCLUSIVE"
  BY DEF process_update, Acks
<1>3. t.job.key \in Keys /\ LL!get_lock(t.locks, t.job.key) = "EXCLUSIVE"
  BY <1>2, HeldTypeMeans DEF Types
<1>4. CASE Len(t.commits) >= MaxCommits
  <2>1. u = Answer([Reply(Shrink(t), "SUCCESS") EXCEPT !.acked = @ + 1],
                   "COMMIT_FULL")
    BY <1>2, <1>4 DEF process_update
  <2> QED BY <1>4, <2>1, ShrinkFull DEF Outcome
<1>5. CASE ~(Len(t.commits) >= MaxCommits)
  <2>1. u = [Pop([Reply(Shrink(t), "SUCCESS") EXCEPT !.acked = @ + 1]) EXCEPT
                   !.commits = Append(@, Change(t)), !.pc = "loop"]
    BY <1>2, <1>5 DEF process_update
  <2>2. Len(t.commits) < MaxCommits /\ t.job.op \in Ops
    BY <1>5, WorkerAssumption DEF TxnRec, Ops
  <2>3. u \in TxnRec /\ Queued(t, u)
    BY <1>3, <2>1, <2>2, ShrinkQueue
  <2> QED BY <2>3 DEF Outcome
<1> QED
  BY <1>4, <1>5

\* So does DELETE, which looks for room before it replies.
LEMMA DeleteOutcome ==
  ASSUME NEW t \in TxnRec, t.job \in Jobs, t.job.op = "DELETE",
         NEW u, u = process_rm(t)
  PROVE  u \in TxnRec /\ Outcome(t, u)
<1>1. CASE \E a \in Acks : u = Answer(Shrink(t), a)
  BY <1>1, ShrinkAnswer DEF Outcome
<1> SUFFICES ASSUME ~\E a \in Acks : u = Answer(Shrink(t), a)
             PROVE  u \in TxnRec /\ Outcome(t, u)
  BY <1>1
<1>2. /\ t.job.tbl # BadField /\ t.job.key # BadField
      /\ HeldType(t) = "EXCLUSIVE" /\ ~(Len(t.commits) >= MaxCommits)
  BY DEF process_rm, Acks
<1>3. t.job.key \in Keys /\ LL!get_lock(t.locks, t.job.key) = "EXCLUSIVE"
  BY <1>2, HeldTypeMeans DEF Types
<1>4. u = [Answer(Shrink(t), "SUCCESS") EXCEPT
             !.commits = Append(@, Change(t)), !.acked = @ + 1]
  BY <1>2 DEF process_rm
<1>5. Len(t.commits) < MaxCommits /\ t.job.op \in Ops
  BY <1>2, WorkerAssumption DEF TxnRec, Ops
<1>6. u \in TxnRec /\ Queued(t, u)
  BY <1>3, <1>4, <1>5, ShrinkQueue
<1> QED
  BY <1>6 DEF Outcome

\* The reads come to their retry loop in the growing phase only.
LEMMA ReadOutcome ==
  ASSUME NEW t \in TxnRec, t.job.op \in {"SHARED_READ", "EXCLUSIVE_READ"},
         NEW u, u = process_read(t)
  PROVE  u \in TxnRec /\ Outcome(t, u)
<1>1. CASE \E a \in Acks : u = Answer(t, a)
  BY <1>1, PlainAnswer DEF Outcome
<1>2. CASE ~\E a \in Acks : u = Answer(t, a)
  <2>1. t.status = "GROWING" /\ u = [t EXCEPT !.pc = "head", !.tries = 0]
    BY <1>2 DEF process_read, Acks
  <2>2. "head" \in Pcs
    BY DEF Pcs
  <2>3. u \in TxnRec
    <3>1. PICK z \in Nat : z = 0
      OBVIOUS
    <3>2. u = [t EXCEPT !.pc = "head", !.tries = z]
      BY <2>1, <3>1
    <3> QED BY <2>2, <3>2 DEF TxnRec
  <2>4. /\ SameLocks(t, u) /\ SameWork(t, u) /\ NoReply(t, u)
        /\ u.status = t.status /\ u.pc = "head" /\ u.tries = 0
        /\ u.job = t.job /\ u.taken = t.taken
    BY <2>1 DEF TxnRec, SameLocks, SameWork, NoReply
  <2>5. Begun(t, u)
    BY <2>1, <2>4 DEF Begun
  <2> QED BY <2>3, <2>5 DEF Outcome
<1> QED
  BY <1>1, <1>2

\* YIELD and PROMOTE go on only with a shared lock on the row.
LEMMA HeldOutcome ==
  ASSUME NEW t \in TxnRec, t.job \in Jobs, ListCounted(t), t.pc # "dead",
         t.job.op \in {"YIELD_READ", "PROMOTE"}, NEW u, u = process_held(t)
  PROVE  u \in TxnRec /\ Outcome(t, u)
<1>1. CASE \E a \in Acks : u = Answer(t, a)
  BY <1>1, PlainAnswer DEF Outcome
<1> SUFFICES ASSUME ~\E a \in Acks : u = Answer(t, a)
             PROVE  u \in TxnRec /\ Outcome(t, u)
  BY <1>1
<1>2. /\ t.status = "GROWING" /\ t.job.key # BadField /\ HeldType(t) = "SHARED"
      /\ u = IF t.job.op = "YIELD_READ"
             THEN [t EXCEPT !.locks = LL!rm_lock(t.locks, t.job.key), !.pc = "yield"]
             ELSE [t EXCEPT !.pc = "head", !.tries = 0]
  BY DEF process_held, Acks, TxnRec
<1>3. t.job.key \in Keys /\ LL!get_lock(t.locks, t.job.key) = "SHARED"
  BY <1>2, HeldTypeMeans DEF Types
<1>4. CASE t.job.op = "YIELD_READ"
  <2>1. PICK M : M = LL!rm_lock(t.locks, t.job.key)
    OBVIOUS
  <2>2. LL!Matching(t.locks, t.job.key) # {}
    BY <1>3, GetLock DEF Types
  <2>3. t.locks \in ListRec /\ Counted(t.locks) /\ Blank(t.locks)
    BY DEF TxnRec, ListCounted
  <2>4. M \in ListRec
    BY <1>3, <2>1, <2>2, <2>3, RmLock
  <2>5. u = [t EXCEPT !.locks = M, !.pc = "yield"] /\ "yield" \in Pcs
    BY <1>2, <1>4, <2>1 DEF Pcs
  <2>6. u \in TxnRec
    BY <2>4, <2>5 DEF TxnRec
  <2>7. /\ SameWork(t, u) /\ SameJob(t, u) /\ NoReply(t, u)
        /\ u.status = t.status /\ u.pc = "yield" /\ u.cursor = t.cursor
        /\ u.locks = M
    BY <2>5 DEF TxnRec, SameWork, SameJob, NoReply
  <2>8. Yielding(t, u)
    BY <1>2, <1>3, <2>1, <2>7 DEF Yielding
  <2> QED BY <2>6, <2>8 DEF Outcome
<1>5. CASE t.job.op = "PROMOTE"
  <2>1. u = [t EXCEPT !.pc = "head", !.tries = 0] /\ "head" \in Pcs
    BY <1>2, <1>5 DEF Pcs
  <2>3. u \in TxnRec
    <3>1. PICK z \in Nat : z = 0
      OBVIOUS
    <3>2. u = [t EXCEPT !.pc = "head", !.tries = z]
      BY <2>1, <3>1
    <3> QED BY <2>1, <3>2 DEF TxnRec
  <2>4. /\ SameLocks(t, u) /\ SameWork(t, u) /\ NoReply(t, u)
        /\ u.status = t.status /\ u.pc = "head" /\ u.tries = 0
        /\ u.job = t.job /\ u.taken = t.taken
    BY <2>1 DEF TxnRec, SameLocks, SameWork, NoReply
  <2>5. Begun(t, u)
    BY <1>2, <1>3, <1>5, <2>4 DEF Begun
  <2> QED BY <2>3, <2>5 DEF Outcome
<1> QED
  BY <1>4, <1>5

\* Every handler ends in one of the outcomes.
LEMMA DispatchOutcome ==
  ASSUME NEW t \in TxnRec, t.job \in Jobs, ListCounted(t), t.pc # "dead",
         NEW u, u = Dispatch(t)
  PROVE  u \in TxnRec /\ Outcome(t, u)
<1>1. CASE t.job.op \in {"START_TXN"} \/ t.job.op \notin Ops
  <2>1. u = Answer(t, "SUCCESS") \/ u = Answer(t, "BAD_OP")
    BY <1>1 DEF Dispatch, Ops
  <2>2. "SUCCESS" \in Acks /\ "BAD_OP" \in Acks
    BY DEF Acks
  <2> QED BY <2>1, <2>2, PlainAnswer DEF Outcome
<1>2. CASE t.job.op = "COMMIT_TXN"
  <2>1. CASE t.status # "SHRINKING"
    <3>1. u = LastAnswer(t)
      BY <1>2, <2>1 DEF Dispatch, process_commit
    <3> QED BY <2>1, <3>1, LastAnswerFields DEF Outcome
  <2>2. CASE t.status = "SHRINKING"
    <3>1. u = [t EXCEPT !.pc = "commit"] /\ "commit" \in Pcs
      BY <1>2, <2>2 DEF Dispatch, process_commit, Pcs
    <3>2. u \in TxnRec
      BY <3>1 DEF TxnRec
    <3>3. Moved(t, u) /\ u.pc = "commit"
      BY <3>1 DEF TxnRec, Moved, SameLocks, SameWork, SameJob, NoReply
    <3> QED BY <3>2, <3>3 DEF Outcome
  <2> QED BY <2>1, <2>2
<1>3. CASE t.job.op = "ABORT_TXN"
  <2>1. u = LastAnswer(t)
    BY <1>3 DEF Dispatch
  <2> QED BY <1>3, <2>1, LastAnswerFields DEF Outcome
<1>4. CASE t.job.op = "ADD_TUPLE"
  BY <1>4, AddOutcome DEF Dispatch
<1>5. CASE t.job.op \in {"SHARED_READ", "EXCLUSIVE_READ"}
  <2>1. u = process_read(t)
    BY <1>5 DEF Dispatch
  <2> QED BY <1>5, <2>1, ReadOutcome
<1>6. CASE t.job.op \in {"YIELD_READ", "PROMOTE"}
  <2>1. u = process_held(t)
    BY <1>6 DEF Dispatch
  <2> QED BY <1>6, <2>1, HeldOutcome
<1>7. CASE t.job.op = "UPDATE"
  BY <1>7, UpdateOutcome DEF Dispatch
<1>8. CASE t.job.op = "DELETE"
  BY <1>8, DeleteOutcome DEF Dispatch
<1> QED
  BY <1>1, <1>2, <1>3, <1>4, <1>5, <1>6, <1>7, <1>8 DEF Ops

-----------------------------------------------------------------------------
(* The steps other than Recv, the same way *)

\* Back at the loop of start
Looped(t, u) ==
    /\ SameLocks(t, u) /\ SameWork(t, u) /\ u.taken = t.taken
    /\ u.status = t.status /\ u.committed = t.committed
    /\ u.job = NoJob /\ u.tries = 0 /\ u.acks = <<>>
    /\ t.pops <= 1 => u.pops = 0
    /\ u.pc \in {"recv", "quit"}

\* A lock was added or promoted: the list is L now.
Granted(t, u, L) ==
    /\ u.locks = L /\ u.cursor = t.cursor /\ SameWork(t, u) /\ SameJob(t, u)
    /\ u.status = t.status /\ u.pc = "loop" /\ u.committed = t.committed

TimedOut(t, u) ==
    /\ SameLocks(t, u) /\ SameWork(t, u) /\ NoReply(t, u)
    /\ u.status = t.status /\ u.job = t.job /\ u.taken = t.taken
    /\ u.tries = t.tries + 1 /\ u.pc = "head"

\* The front change is made.
Made(t, u) ==
    /\ SameLocks(t, u) /\ SameJob(t, u) /\ NoReply(t, u) /\ u.status = t.status
    /\ u.commits = Tail(t.commits) /\ u.applied = t.applied + 1
    /\ u.acked = t.acked /\ u.pc = "commit"

\* The row of the front change is removed.
Deleted(t, u, L) ==
    /\ u.locks = L /\ u.cursor = t.cursor /\ SameWork(t, u) /\ SameJob(t, u)
    /\ NoReply(t, u) /\ u.status = t.status /\ u.pc = "notify"

\* The next lock is released.
Released(t, u, c) ==
    /\ u.locks = t.locks /\ u.cursor = c /\ SameWork(t, u) /\ SameJob(t, u)
    /\ NoReply(t, u) /\ u.status = t.status /\ u.pc = t.pc

\* The worker is at its end.
Died(t, u, L) ==
    /\ u.locks = L /\ u.cursor = t.cursor /\ SameJob(t, u) /\ NoReply(t, u)
    /\ u.commits = <<>> /\ u.acked = t.acked /\ u.applied = t.applied
    /\ u.status = t.status /\ u.pc = "dead"

\* The fields after a round of the loop of start,
LEMMA LoopFields ==
  ASSUME NEW t \in TxnRec, NEW pc \in {"recv", "quit"}, NEW u,
         u = [t EXCEPT !.pc = pc, !.job = NoJob, !.acks = <<>>, !.tries = 0,
                       !.pops = IF @ <= 1 THEN 0 ELSE @]
  PROVE  u \in TxnRec /\ Looped(t, u)
<1>1. PICK z \in Nat : z = 0
  OBVIOUS
<1>2. PICK p \in Nat : p = IF t.pops <= 1 THEN 0 ELSE t.pops
  BY DEF TxnRec
<1>3. pc \in Pcs /\ NoJob \in Jobs \cup {NoJob}
  BY DEF Pcs
<1>4. PICK e \in Seq(Acks) : e = <<>>
  <2>1. <<>> \in Seq(Acks)
    OBVIOUS
  <2> QED BY <2>1
<1>5. u = [t EXCEPT !.pc = pc, !.job = NoJob, !.acks = e, !.tries = z, !.pops = p]
  BY <1>1, <1>2, <1>4 DEF TxnRec
<1>6. u \in TxnRec
  BY <1>3, <1>5 DEF TxnRec
<1>7. /\ SameLocks(t, u) /\ SameWork(t, u) /\ u.taken = t.taken
      /\ u.status = t.status /\ u.committed = t.committed
      /\ u.job = NoJob /\ u.tries = z /\ u.acks = e /\ u.pops = p
      /\ u.pc = pc
  BY <1>5 DEF TxnRec, SameLocks, SameWork
<1> QED
  BY <1>1, <1>2, <1>4, <1>6, <1>7 DEF Looped

\* after a step that only changes the place,
LEMMA MoveFields ==
  ASSUME NEW t \in TxnRec, NEW pc \in Pcs, NEW u, u = [t EXCEPT !.pc = pc]
  PROVE  u \in TxnRec /\ Moved(t, u) /\ u.pc = pc
BY DEF TxnRec, Moved, SameLocks, SameWork, SameJob, NoReply

\* An answer of an aborted transaction
LEMMA AbortedAnswer ==
  ASSUME NEW t \in TxnRec, NEW a \in Acks, NEW u,
         u = Answer([t EXCEPT !.status = "ABORTED"], a)
  PROVE  u \in TxnRec /\ Replied(t, u)
<1>1. PICK s : s = [t EXCEPT !.status = "ABORTED"]
  OBVIOUS
<1>2. "ABORTED" \in Statuses
  BY DEF Statuses
<1>3. /\ s \in TxnRec /\ s.status = "ABORTED"
      /\ SameLocks(t, s) /\ SameWork(t, s) /\ SameJob(t, s) /\ NoReply(t, s)
  BY <1>1, <1>2 DEF TxnRec, SameLocks, SameWork, SameJob, NoReply
<1>4. /\ u \in TxnRec /\ u.pc = "loop" /\ u.acks = Append(s.acks, a)
      /\ u.pops = s.pops + 1 /\ SameLocks(s, u) /\ SameWork(s, u)
      /\ SameJob(s, u) /\ u.committed = s.committed /\ u.status = s.status
  <2>1. u = Answer(s, a)
    BY <1>1
  <2> QED BY <1>3, <2>1, AnswerFields
<1> QED
  BY <1>3, <1>4 DEF SameLocks, SameWork, SameJob, NoReply, OneReply, Replied

\* after a granted row and its reply,
LEMMA GrantFields ==
  ASSUME NEW t \in TxnRec, NEW L \in ListRec, NEW a \in Acks, NEW u,
         u = Answer([t EXCEPT !.locks = L], a)
  PROVE  u \in TxnRec /\ Granted(t, u, L) /\ OneReply(t, u)
<1>1. PICK s : s = [t EXCEPT !.locks = L]
  OBVIOUS
<1>2. /\ s \in TxnRec /\ s.locks = L /\ s.cursor = t.cursor
      /\ SameWork(t, s) /\ SameJob(t, s) /\ NoReply(t, s)
      /\ s.status = t.status
  BY <1>1 DEF TxnRec, SameWork, SameJob, NoReply
<1>3. /\ u \in TxnRec /\ u.pc = "loop" /\ u.acks = Append(s.acks, a)
      /\ u.pops = s.pops + 1 /\ SameLocks(s, u) /\ SameWork(s, u)
      /\ SameJob(s, u) /\ u.committed = s.committed /\ u.status = s.status
  BY <1>1, <1>2, AnswerFields
<1> QED
  BY <1>2, <1>3 DEF SameLocks, SameWork, SameJob, NoReply, OneReply, Granted

\* A failed add_lock of a shared lock: two answers.
LEMMA GrantTwice ==
  ASSUME NEW t \in TxnRec, NEW L \in ListRec, NEW u,
         u = Answer(Answer([t EXCEPT !.locks = L], "BAD_ACCESS"), "SUCCESS")
  PROVE  u \in TxnRec /\ Granted(t, u, L)
<1>0. "BAD_ACCESS" \in Acks /\ "SUCCESS" \in Acks
  BY DEF Acks
<1>1. PICK s : s = Answer([t EXCEPT !.locks = L], "BAD_ACCESS")
  OBVIOUS
<1>2. s \in TxnRec /\ Granted(t, s, L)
  BY <1>0, <1>1, GrantFields
<1>3. /\ u \in TxnRec /\ u.pc = "loop" /\ SameLocks(s, u) /\ SameWork(s, u)
      /\ SameJob(s, u) /\ u.committed = s.committed /\ u.status = s.status
  BY <1>0, <1>1, <1>2, AnswerFields
<1> QED
  BY <1>2, <1>3 DEF SameLocks, SameWork, SameJob, Granted

\* after a timed-out wait,
LEMMA TimeoutFields ==
  ASSUME NEW t \in TxnRec, NEW u,
         u = [t EXCEPT !.tries = @ + 1, !.pc = "head"]
  PROVE  u \in TxnRec /\ TimedOut(t, u)
<1>1. PICK n \in Nat : n = t.tries + 1
  BY DEF TxnRec
<1>2. u = [t EXCEPT !.tries = n, !.pc = "head"] /\ "head" \in Pcs
  BY <1>1 DEF TxnRec, Pcs
<1>3. u \in TxnRec
  BY <1>2 DEF TxnRec
<1>4. /\ SameLocks(t, u) /\ SameWork(t, u) /\ NoReply(t, u)
      /\ u.status = t.status /\ u.job = t.job /\ u.taken = t.taken
      /\ u.tries = n /\ u.pc = "head"
  BY <1>2 DEF TxnRec, SameLocks, SameWork, NoReply
<1> QED
  BY <1>1, <1>3, <1>4 DEF TimedOut

\* after a change made and popped from the queue,
LEMMA AppliedFields ==
  ASSUME NEW t \in TxnRec, t.commits # <<>>, NEW u, u = Applied(t)
  PROVE  u \in TxnRec /\ Made(t, u)
<1>1. PICK n \in Nat : n = t.applied + 1
  BY DEF TxnRec
<1>2. PICK q \in Seq(ChangeRec) : q = Tail(t.commits)
  <2>1. t.commits \in Seq(ChangeRec)
    BY DEF TxnRec
  <2>2. Tail(t.commits) \in Seq(ChangeRec)
    BY <2>1
  <2> QED BY <2>2
<1>3. /\ u = [t EXCEPT !.commits = q, !.applied = n, !.pc = "commit"]
      /\ "commit" \in Pcs
  BY <1>1, <1>2 DEF Applied, TxnRec, Pcs
<1>4. u \in TxnRec
  BY <1>3 DEF TxnRec
<1>5. /\ SameLocks(t, u) /\ SameJob(t, u) /\ NoReply(t, u)
      /\ u.status = t.status /\ u.commits = q /\ u.applied = n
      /\ u.acked = t.acked /\ u.pc = "commit"
  BY <1>3 DEF TxnRec, SameLocks, SameJob, NoReply
<1> QED
  BY <1>1, <1>2, <1>4, <1>5 DEF Made

\* after the table and the list have lost a row,
LEMMA DeleteFields ==
  ASSUME NEW t \in TxnRec, NEW L \in ListRec, NEW u,
         u = [t EXCEPT !.locks = L, !.pc = "notify"]
  PROVE  u \in TxnRec /\ Deleted(t, u, L)
<1>1. "notify" \in Pcs
  BY DEF Pcs
<1> QED
  BY <1>1 DEF TxnRec, Deleted, SameWork, SameJob, NoReply

\* after one lock released on the way out,
LEMMA ReleaseFields ==
  ASSUME NEW t \in TxnRec, NEW c \in Nat, NEW u, u = [t EXCEPT !.cursor = c]
  PROVE  u \in TxnRec /\ Released(t, u, c)
BY DEF TxnRec, Released, SameWork, SameJob, NoReply

\* and at the end.
LEMMA DieFields ==
  ASSUME NEW t \in TxnRec, NEW L \in ListRec, NEW u,
         u = [t EXCEPT !.locks = L, !.commits = <<>>, !.pc = "dead"]
  PROVE  u \in TxnRec /\ Died(t, u, L)
<1>1. PICK e \in Seq(ChangeRec) : e = <<>>
  <2>1. <<>> \in Seq(ChangeRec)
    OBVIOUS
  <2> QED BY <2>1
<1>2. u = [t EXCEPT !.locks = L, !.commits = e, !.pc = "dead"] /\ "dead" \in Pcs
  BY <1>1 DEF Pcs
<1>3. u \in TxnRec
  BY <1>2 DEF TxnRec
<1>4. /\ u.locks = L /\ u.cursor = t.cursor /\ SameJob(t, u) /\ NoReply(t, u)
      /\ u.commits = e /\ u.acked = t.acked /\ u.applied = t.applied
      /\ u.status = t.status /\ u.pc = "dead"
  BY <1>2 DEF TxnRec, SameJob, NoReply
<1> QED
  BY <1>1, <1>3, <1>4 DEF Died

-----------------------------------------------------------------------------
(* What the steps keep, of the worker that takes them *)

Fit(t) == t \in TxnRec /\ ListCounted(t) /\ WithinLimits(t)

\* A transaction has not more jobs than its queue has room for changes.
Small == MaxJobs <= MaxCommits

Kept(t, u) ==
    /\ Fit(u)
    /\ Small /\ Accounted(t) => Accounted(u)
    /\ Small /\ Accounted(t) /\ Answered(t) => Answered(u)

\* Where queued changes come from
FromJobs(q) ==
    \A n \in DOMAIN q :
        /\ \E j \in Jobs : q[n].op = j.op /\ q[n].key = j.key
        /\ q[n].op \in {"UPDATE", "DELETE"} => q[n].key \in Keys

\* WithinLimits, field by field
LEMMA LimitsFields ==
  ASSUME NEW t
  PROVE  WithinLimits(t) <=>
           /\ t.tries <= MaxRetry /\ (t.pc = "wait" => t.tries < MaxRetry)
           /\ t.taken <= MaxJobs /\ Len(t.commits) <= MaxCommits
           /\ t.pc = "notify" => t.commits # <<>>
           /\ t.pc \in {"head", "wait", "yield"} => t.job \in Jobs
           /\ (t.pc \in {"head", "wait"} /\ t.job.op = "PROMOTE") =>
                t.job.key \in Keys /\ LL!get_lock(t.locks, t.job.key) = "SHARED"
           /\ FromJobs(t.commits)
BY DEF WithinLimits, FromJobs

\* Popping the queue keeps where its changes come from,
LEMMA TailFromJobs ==
  ASSUME NEW q \in Seq(ChangeRec), q # <<>>, FromJobs(q)
  PROVE  /\ FromJobs(Tail(q)) /\ Len(Tail(q)) = Len(q) - 1 /\ Len(q) \in Nat \ {0}
<1>1. Len(q) \in Nat \ {0} /\ Len(Tail(q)) = Len(q) - 1 /\ Tail(q) \in Seq(ChangeRec)
  OBVIOUS
<1>2. ASSUME NEW n \in DOMAIN Tail(q)
      PROVE  /\ \E j \in Jobs : Tail(q)[n].op = j.op /\ Tail(q)[n].key = j.key
             /\ Tail(q)[n].op \in {"UPDATE", "DELETE"} => Tail(q)[n].key \in Keys
  <2>1. n \in 1 .. Len(q) - 1
    BY <1>1
  <2>2. n + 1 \in DOMAIN q /\ Tail(q)[n] = q[n + 1]
    BY <1>1, <2>1
  <2> QED BY <2>2 DEF FromJobs
<1> QED
  BY <1>1, <1>2 DEF FromJobs

\* and so does queueing the change of a job.
LEMMA AppendFromJobs ==
  ASSUME NEW q \in Seq(ChangeRec), FromJobs(q), NEW c \in ChangeRec,
         NEW j \in Jobs, c.op = j.op, c.key = j.key,
         c.op \in {"UPDATE", "DELETE"} => c.key \in Keys
  PROVE  /\ FromJobs(Append(q, c)) /\ Len(Append(q, c)) = Len(q) + 1
         /\ Len(q) \in Nat /\ Append(q, c) # <<>>
<1>1. Len(q) \in Nat /\ Len(Append(q, c)) = Len(q) + 1
      /\ Append(q, c) \in Seq(ChangeRec) /\ Append(q, c) # <<>>
  OBVIOUS
<1>2. ASSUME NEW n \in DOMAIN Append(q, c)
      PROVE  /\ \E i \in Jobs : /\ Append(q, c)[n].op = i.op
                                /\ Append(q, c)[n].key = i.key
             /\ Append(q, c)[n].op \in {"UPDATE", "DELETE"} =>
                  Append(q, c)[n].key \in Keys
  <2>1. CASE n \in DOMAIN q
    <3>1. Append(q, c)[n] = q[n]
      BY <2>1
    <3> QED BY <2>1, <3>1 DEF FromJobs
  <2>2. CASE n \notin DOMAIN q
    <3>1. Append(q, c)[n] = c
      BY <1>1, <2>2
    <3> QED BY <3>1
  <2> QED BY <2>1, <2>2
<1> QED
  BY <1>1, <1>2 DEF FromJobs

\* What each kind of step keeps of a worker's state: a round of the loop,
LEMMA LoopKeeps ==
  ASSUME NEW t, Fit(t), t.pc = "loop", NEW u \in TxnRec, Looped(t, u)
  PROVE  Kept(t, u)
<1>1. ListCounted(u)
  BY DEF Fit, Looped, SameLocks, ListCounted
<1>2. WithinLimits(u)
  <2>1. 0 <= MaxRetry
    BY WorkerAssumption
  <2>2. u.pc \notin {"head", "wait", "yield", "notify"} /\ u.tries = 0
    BY DEF Looped
  <2>3. u.taken <= MaxJobs /\ Len(u.commits) <= MaxCommits /\ FromJobs(u.commits)
    BY LimitsFields DEF Fit, Looped, SameWork
  <2> QED BY <2>1, <2>2, <2>3, LimitsFields
<1>3. Accounted(t) => Accounted(u)
  BY DEF Accounted, Looped, SameWork
<1>4. Accounted(t) /\ Answered(t) => Answered(u)
  <2>1. ASSUME Answered(t) PROVE Answered(u)
    <3>1. t.pops \in Nat /\ t.pops <= 1
      BY <2>1 DEF Answered, Fit, TxnRec
    <3>2. Len(<<>>) = 0
      OBVIOUS
    <3>3. u.pops = 0 /\ u.acks = <<>>
      BY <3>1 DEF Looped
    <3> QED BY <3>2, <3>3 DEF Answered
  <2> QED BY <2>1
<1> QED
  BY <1>1, <1>2, <1>3, <1>4 DEF Kept, Fit

\* The places between which a worker goes without doing anything else
Goes(t, u) ==
    \/ t.pc = "recv" /\ u.pc = "loop"
    \/ t.pc = "head" /\ u.pc = "wait" /\ t.tries < MaxRetry
    \/ t.pc = "commit" /\ u.pc = "asleep"
    \/ t.pc = "asleep" /\ u.pc = "commit"
    \/ t.pc # "dead" /\ u.pc = "hung"

\* a step that only changes the place,
LEMMA MoveKeeps ==
  ASSUME NEW t, Fit(t), NEW u \in TxnRec, Moved(t, u), Goes(t, u)
  PROVE  Kept(t, u)
<1>1. ListCounted(u)
  BY DEF Fit, Moved, Goes, SameLocks, ListCounted
<1>2. WithinLimits(u)
  BY LimitsFields DEF Fit, Moved, Goes, SameWork, SameLocks, SameJob
<1>3. Accounted(t) => Accounted(u)
  BY DEF Accounted, Moved, Goes, SameWork, SameJob, NoReply
<1>4. Answered(t) => Answered(u)
  BY DEF Answered, Moved, Goes, NoReply
<1> QED
  BY <1>1, <1>2, <1>3, <1>4 DEF Kept, Fit

\* One reply where there was none.
LEMMA FirstReply ==
  ASSUME NEW t, NEW u, OneReply(t, u), t.acks = <<>>, t.pops = 0
  PROVE  Answered(u)
<1>1. PICK a \in Acks : u.acks = Append(<<>>, a)
  BY DEF OneReply
<1>2. Len(u.acks) = 1
  BY <1>1
<1> QED
  BY <1>2 DEF Answered, OneReply

\* a reply of a job under way,
LEMMA ReplyKeeps ==
  ASSUME NEW t, Fit(t), t.pc \in {"head", "yield"}, NEW u \in TxnRec,
         Replied(t, u)
  PROVE  Kept(t, u)
<1>0. u.pc = "loop"
  BY DEF Replied, OneReply
<1>1. ListCounted(u)
  BY DEF Fit, Replied, SameLocks, ListCounted
<1>2. WithinLimits(u)
  BY <1>0, LimitsFields DEF Fit, Replied, SameWork, SameJob
<1>3. Accounted(t) => Accounted(u)
  BY DEF Accounted, Replied, SameWork, SameJob, OneReply
<1>4. Answered(t) => Answered(u)
  <2>1. ASSUME Answered(t) PROVE t.acks = <<>> /\ t.pops = 0
    BY <2>1 DEF Answered
  <2> QED BY <2>1, FirstReply DEF Replied
<1> QED
  BY <1>1, <1>2, <1>3, <1>4 DEF Kept, Fit

\* a granted row (one reply or, when add_lock fails, two),
LEMMA GrantKeeps ==
  ASSUME NEW t, Fit(t), t.pc = "wait", NEW L \in ListRec, Counted(L), Blank(L),
         NEW u \in TxnRec, Granted(t, u, L)
  PROVE  /\ Fit(u) /\ (Accounted(t) => Accounted(u))
         /\ OneReply(t, u) => Kept(t, u)
<1>1. ListCounted(u)
  BY DEF Granted, ListCounted
<1>2. WithinLimits(u)
  BY LimitsFields DEF Fit, Granted, SameWork, SameJob
<1>3. Accounted(t) => Accounted(u)
  BY DEF Accounted, Granted, SameWork, SameJob
<1>4. OneReply(t, u) /\ Answered(t) => Answered(u)
  <2>1. ASSUME Answered(t) PROVE t.acks = <<>> /\ t.pops = 0
    BY <2>1 DEF Answered
  <2> QED BY <2>1, FirstReply
<1> QED
  BY <1>1, <1>2, <1>3, <1>4 DEF Kept, Fit

\* a timed-out wait, which the retry loop has counted room for,
LEMMA TimeoutKeeps ==
  ASSUME NEW t, Fit(t), t.pc = "wait", NEW u \in TxnRec, TimedOut(t, u)
  PROVE  Kept(t, u)
<1>1. ListCounted(u)
  BY DEF Fit, TimedOut, SameLocks, ListCounted
<1>2. WithinLimits(u)
  <2>1. t.tries \in Nat /\ t.tries < MaxRetry
    BY DEF Fit, TxnRec, WithinLimits
  <2>2. u.tries <= MaxRetry
    BY <2>1, WorkerAssumption DEF TimedOut
  <2> QED BY <2>2, LimitsFields DEF Fit, TimedOut, SameWork, SameLocks
<1>3. Accounted(t) => Accounted(u)
  BY DEF Accounted, TimedOut, SameWork, NoReply
<1>4. Answered(t) => Answered(u)
  BY DEF Answered, TimedOut, NoReply
<1> QED
  BY <1>1, <1>2, <1>3, <1>4 DEF Kept, Fit

\* a change made,
LEMMA MadeKeeps ==
  ASSUME NEW t, Fit(t), t.pc \in {"commit", "notify"}, t.commits # <<>>,
         NEW u \in TxnRec, Made(t, u)
  PROVE  Kept(t, u)
<1>0. /\ FromJobs(Tail(t.commits)) /\ Len(Tail(t.commits)) = Len(t.commits) - 1
      /\ Len(t.commits) \in Nat \ {0}
  BY TailFromJobs, LimitsFields DEF Fit, TxnRec
<1>1. ListCounted(u)
  BY DEF Fit, Made, SameLocks, ListCounted
<1>2. WithinLimits(u)
  <2>1. Len(u.commits) <= MaxCommits /\ FromJobs(u.commits)
    BY <1>0, LimitsFields, WorkerAssumption DEF Fit, Made
  <2> QED BY <2>1, LimitsFields DEF Fit, Made, SameJob
<1>3. Accounted(t) => Accounted(u)
  <2> SUFFICES ASSUME Accounted(t) PROVE Accounted(u)
    OBVIOUS
  <2>1. /\ t.acked \in Nat /\ t.applied \in Nat /\ t.taken \in Nat
        /\ u.taken = t.taken /\ u.commits = Tail(t.commits) /\ u.pc = "commit"
        /\ u.acked = t.acked /\ u.applied = t.applied + 1
        /\ u.status = t.status /\ u.committed = t.committed
    BY DEF Made, SameJob, NoReply, Fit, TxnRec
  <2>2. Len(u.commits) <= u.taken /\ u.acked = u.applied + Len(u.commits)
    BY <1>0, <2>1 DEF Accounted
  <2>3. u.status # "GROWING" /\ ~u.committed
    BY <2>1 DEF Accounted
  <2> QED BY <2>1, <2>2, <2>3 DEF Accounted
<1>4. Answered(t) => Answered(u)
  BY DEF Answered, Made, NoReply
<1> QED
  BY <1>1, <1>2, <1>3, <1>4 DEF Kept, Fit

\* a row deleted,
LEMMA DeleteKeeps ==
  ASSUME NEW t, Fit(t), t.pc = "commit", t.commits # <<>>,
         NEW L \in ListRec, Counted(L), Blank(L), NEW u \in TxnRec,
         Deleted(t, u, L)
  PROVE  Kept(t, u)
<1>1. ListCounted(u)
  BY DEF Deleted, ListCounted
<1>2. WithinLimits(u)
  BY LimitsFields DEF Fit, Deleted, SameWork, SameJob
<1>3. Accounted(t) => Accounted(u)
  BY DEF Accounted, Deleted, SameWork, SameJob, NoReply
<1>4. Answered(t) => Answered(u)
  BY DEF Answered, Deleted, NoReply
<1> QED
  BY <1>1, <1>2, <1>3, <1>4 DEF Kept, Fit

\* The last answer, to an ABORT or to a COMMIT with nothing left to do
LEMMA EndKeeps ==
  ASSUME NEW t, Fit(t), t.pc \in {"recv", "commit"}, NEW u \in TxnRec,
         Ended(t, u), t.pc = "recv" => t.pops = 0,
         t.job.op = "COMMIT_TXN" =>
           (t.status = "SHRINKING" => t.commits = <<>>)
  PROVE  Kept(t, u)
<1>1. ListCounted(u)
  BY DEF Fit, Ended, SameLocks, ListCounted
<1>2. WithinLimits(u)
  BY LimitsFields DEF Fit, Ended, SameWork, SameJob
<1>3. Accounted(t) => Accounted(u)
  <2> SUFFICES ASSUME Accounted(t) PROVE Accounted(u)
    OBVIOUS
  <2>1. /\ t.acked \in Nat /\ t.applied \in Nat /\ Len(<<>>) = 0
        /\ t.status \in Statuses
    BY DEF Fit, TxnRec
  <2>2. u.committed => (u.status # "ABORTED" => u.commits = <<>>)
    BY <2>1 DEF Ended, Accounted, SameWork, Statuses
  <2>3. u.commits = <<>> => u.applied = u.acked
    BY <2>1 DEF Ended, Accounted, SameWork
  <2> QED BY <2>2, <2>3 DEF Ended, Accounted, SameWork, SameJob
<1>4. Answered(t) => Answered(u)
  <2> SUFFICES ASSUME Answered(t) PROVE Answered(u)
    OBVIOUS
  <2>1. t.acks = <<>> /\ t.pops = 0
    BY DEF Answered
  <2>2. u.acks = Append(<<>>, "SUCCESS") /\ u.pops = 1 /\ u.pc = "quit"
    BY <2>1 DEF Ended
  <2>3. Len(u.acks) = 1
    BY <2>2
  <2> QED BY <2>2, <2>3 DEF Answered
<1> QED
  BY <1>1, <1>2, <1>3, <1>4 DEF Kept, Fit

\* a lock released,
LEMMA ReleaseKeeps ==
  ASSUME NEW t, Fit(t), t.pc = "quit", NEW u \in TxnRec, NEW c, Released(t, u, c)
  PROVE  Kept(t, u)
<1>1. ListCounted(u)
  BY DEF Fit, Released, ListCounted
<1>2. WithinLimits(u)
  BY LimitsFields DEF Fit, Released, SameWork, SameJob
<1>3. Accounted(t) => Accounted(u)
  BY DEF Accounted, Released, SameWork, SameJob, NoReply
<1>4. Answered(t) => Answered(u)
  BY DEF Answered, Released, NoReply
<1> QED
  BY <1>1, <1>2, <1>3, <1>4 DEF Kept, Fit

\* and the end.
LEMMA DieKeeps ==
  ASSUME NEW t, Fit(t), t.pc = "quit", NEW L \in ListRec, Counted(L),
         NEW u \in TxnRec, Died(t, u, L)
  PROVE  Kept(t, u)
<1>0. Len(<<>>) = 0 /\ DOMAIN <<>> = {} /\ t.taken \in Nat
  BY DEF Fit, TxnRec
<1>1. ListCounted(u)
  BY DEF Died, ListCounted
<1>2. WithinLimits(u)
  <2>1. Len(u.commits) <= MaxCommits /\ FromJobs(u.commits)
    BY <1>0, WorkerAssumption DEF Died, FromJobs
  <2> QED BY <2>1, LimitsFields DEF Fit, Died, SameJob
<1>3. Accounted(t) => Accounted(u)
  BY <1>0 DEF Accounted, Died, SameJob, NoReply
<1>4. Answered(t) => Answered(u)
  BY DEF Answered, Died, NoReply
<1> QED
  BY <1>1, <1>2, <1>3, <1>4 DEF Kept, Fit

\* The state between the job's arrival and its handler
Take(t, j) == [t EXCEPT !.job = j, !.taken = @ + 1]

Taking(t, s, j) ==
    /\ s.job = j /\ s.taken = t.taken + 1
    /\ SameLocks(t, s) /\ SameWork(t, s) /\ NoReply(t, s)
    /\ s.status = t.status /\ s.pc = t.pc /\ s.tries = t.tries

\* The fields after a job is taken
LEMMA TakeFields ==
  ASSUME NEW t \in TxnRec, NEW j \in Jobs, NEW s, s = Take(t, j)
  PROVE  s \in TxnRec /\ Taking(t, s, j)
<1>1. PICK n \in Nat : n = t.taken + 1
  BY DEF TxnRec
<1>2. s = [t EXCEPT !.job = j, !.taken = n]
  BY <1>1 DEF Take, TxnRec
<1>3. s \in TxnRec
  BY <1>2 DEF TxnRec
<1>4. /\ s.job = j /\ s.taken = n /\ SameLocks(t, s) /\ SameWork(t, s)
      /\ NoReply(t, s) /\ s.status = t.status /\ s.pc = t.pc
      /\ s.tries = t.tries
  BY <1>2 DEF TxnRec, SameLocks, SameWork, NoReply
<1> QED
  BY <1>1, <1>3, <1>4 DEF Taking

\* and what that keeps; there is one job more than changes queued.
LEMMA TakeKeeps ==
  ASSUME NEW t, Fit(t), t.pc = "recv", t.taken < MaxJobs, NEW s \in TxnRec,
         NEW j \in Jobs, Taking(t, s, j)
  PROVE  /\ Kept(t, s)
         /\ Accounted(t) => Len(s.commits) < s.taken
<1>0. t.taken \in Nat /\ MaxJobs \in Nat /\ Len(t.commits) \in Nat
  BY WorkerAssumption DEF Fit, TxnRec
<1>1. ListCounted(s)
  BY DEF Fit, Taking, SameLocks, ListCounted
<1>2. WithinLimits(s)
  <2>1. s.taken <= MaxJobs
    BY <1>0 DEF Taking
  <2> QED BY <2>1, LimitsFields DEF Fit, Taking, SameWork
<1>3. Accounted(t) => Accounted(s) /\ Len(s.commits) < s.taken
  BY <1>0 DEF Accounted, Taking, SameWork, NoReply
<1>4. Answered(t) => Answered(s)
  BY DEF Answered, Taking, NoReply
<1> QED
  BY <1>1, <1>2, <1>3, <1>4 DEF Kept, Fit

\* A handler up to the table.
LEMMA OutcomeKeeps ==
  ASSUME NEW t, Fit(t), t.pc = "recv", t.pops = 0, t.job \in Jobs,
         NEW u \in TxnRec, Outcome(t, u)
  PROVE  /\ Fit(u)
         /\ Small /\ Accounted(t) /\ Len(t.commits) < t.taken => Accounted(u)
         /\ Small /\ Accounted(t) /\ Answered(t) /\ Len(t.commits) < t.taken
              => Answered(u)
<1>0. /\ t.taken \in Nat /\ MaxJobs \in Nat /\ Len(t.commits) \in Nat
      /\ MaxCommits \in Nat /\ t.taken <= MaxJobs /\ t.acked \in Nat
      /\ t.applied \in Nat /\ t.commits \in Seq(ChangeRec)
  BY WorkerAssumption DEF Fit, TxnRec, WithinLimits
<1>1. ASSUME Answered(t) PROVE t.acks = <<>>
  BY <1>1 DEF Answered
<1>2. CASE Replied(t, u)
  <2>1. ListCounted(u)
    BY <1>2 DEF Fit, Replied, SameLocks, ListCounted
  <2>2. WithinLimits(u)
    BY <1>2, LimitsFields DEF Fit, Replied, SameWork, SameJob, OneReply
  <2>3. Accounted(t) => Accounted(u)
    BY <1>2 DEF Accounted, Replied, SameWork, SameJob, OneReply
  <2>4. Answered(t) => Answered(u)
    BY <1>1, <1>2, FirstReply DEF Replied
  <2> QED BY <2>1, <2>2, <2>3, <2>4 DEF Fit
<1>3. CASE Queued(t, u)
  <2>0. PICK c \in ChangeRec :
          /\ c = Change(t) /\ c.op = t.job.op /\ c.key = t.job.key
          /\ c.op \in {"UPDATE", "DELETE"} => c.key \in Keys
    <3>1. t.job.op \in Ops
      BY <1>3 DEF Queued, Ops
    <3>2. Change(t) \in ChangeRec
      BY <3>1, ChangeTyped DEF Fit
    <3> QED BY <1>3, <3>2 DEF Change, Queued
  <2>1. /\ FromJobs(u.commits) /\ Len(u.commits) = Len(t.commits) + 1
        /\ u.commits # <<>>
    BY <1>0, <1>3, <2>0, AppendFromJobs, LimitsFields DEF Queued, Fit
  <2>2. ListCounted(u)
    BY <1>3 DEF Fit, Queued, SameLocks, ListCounted, OneReply
  <2>3. WithinLimits(u)
    <3>1. Len(u.commits) <= MaxCommits
      BY <1>0, <1>3, <2>1 DEF Queued
    <3> QED BY <1>3, <2>1, <3>1, LimitsFields DEF Fit, Queued, SameJob, OneReply
  <2>4. ASSUME Accounted(t), Len(t.commits) < t.taken PROVE Accounted(u)
    <3>1. /\ u.taken = t.taken /\ u.acked = t.acked + 1 /\ u.applied = t.applied
          /\ u.status # "GROWING" /\ u.pc = "loop" /\ u.committed = t.committed
      BY <1>3 DEF Queued, SameJob, OneReply
    <3>2. Len(u.commits) <= u.taken /\ u.acked = u.applied + Len(u.commits)
      BY <1>0, <2>1, <2>4, <3>1 DEF Accounted
    <3>3. ~u.committed
      BY <2>4, <3>1 DEF Accounted
    <3> QED BY <3>1, <3>2, <3>3 DEF Accounted
  <2>5. Answered(t) => Answered(u)
    BY <1>1, <1>3, FirstReply DEF Queued
  <2> QED BY <2>2, <2>3, <2>4, <2>5 DEF Fit
<1>4. CASE Overfull(t, u)
  <2>1. ListCounted(u)
    BY <1>4 DEF Fit, Overfull, SameLocks, ListCounted
  <2>2. WithinLimits(u)
    BY <1>4, LimitsFields DEF Fit, Overfull, SameJob
  <2>3. ~(Small /\ Len(t.commits) < t.taken)
    BY <1>0, <1>4 DEF Small, Overfull
  <2> QED BY <2>1, <2>2, <2>3 DEF Fit
<1>5. CASE Begun(t, u)
  <2>1. ListCounted(u)
    BY <1>5 DEF Fit, Begun, SameLocks, ListCounted
  <2>2. WithinLimits(u)
    <3>1. u.tries <= MaxRetry /\ u.pc = "head"
      BY <1>5, WorkerAssumption DEF Begun
    <3>2. u.job \in Jobs
      BY <1>5 DEF Begun
    <3>3. u.job.op = "PROMOTE" =>
            u.job.key \in Keys /\ LL!get_lock(u.locks, u.job.key) = "SHARED"
      BY <1>5 DEF Begun, SameLocks
    <3>4. u.taken <= MaxJobs /\ Len(u.commits) <= MaxCommits /\ FromJobs(u.commits)
      BY <1>5, LimitsFields DEF Begun, Fit, SameWork
    <3> QED BY <3>1, <3>2, <3>3, <3>4, LimitsFields
  <2>3. Accounted(t) => Accounted(u)
    BY <1>5 DEF Accounted, Begun, SameWork, NoReply
  <2>4. Answered(t) => Answered(u)
    BY <1>5 DEF Answered, Begun, NoReply
  <2> QED BY <2>1, <2>2, <2>3, <2>4 DEF Fit
<1>6. CASE Yielding(t, u)
  <2>1. ListCounted(u)
    <3>1. t.locks \in ListRec /\ Counted(t.locks) /\ Blank(t.locks)
      BY DEF Fit, TxnRec, ListCounted
    <3>2. t.job.key \in Keys /\ LL!get_lock(t.locks, t.job.key) = "SHARED"
          /\ u.locks = LL!rm_lock(t.locks, t.job.key)
      BY <1>6 DEF Yielding
    <3>3. LL!Matching(t.locks, t.job.key) # {}
      BY <3>2, GetLock DEF Types
    <3>4. Counted(u.locks) /\ Blank(u.locks)
      BY <3>1, <3>2, <3>3, RmLock
    <3> QED BY <3>4 DEF ListCounted
  <2>2. WithinLimits(u)
    BY <1>6, LimitsFields DEF Fit, Yielding, SameWork, SameJob
  <2>3. Accounted(t) => Accounted(u)
    BY <1>6 DEF Accounted, Yielding, SameWork, SameJob, NoReply
  <2>4. Answered(t) => Answered(u)
    BY <1>6 DEF Answered, Yielding, NoReply
  <2> QED BY <2>1, <2>2, <2>3, <2>4 DEF Fit
<1>7. CASE Ended(t, u) /\ (t.job.op = "COMMIT_TXN" => t.status # "SHRINKING")
  <2>1. Kept(t, u)
    BY <1>7, EndKeeps
  <2> QED BY <2>1 DEF Kept
<1>8. CASE Moved(t, u) /\ u.pc = "commit"
  <2>1. ListCounted(u)
    BY <1>8 DEF Fit, Moved, SameLocks, ListCounted
  <2>2. WithinLimits(u)
    BY <1>8, LimitsFields DEF Fit, Moved, SameWork, SameJob
  <2>3. Accounted(t) => Accounted(u)
    BY <1>8 DEF Accounted, Moved, SameWork, SameJob, NoReply
  <2>4. Answered(t) => Answered(u)
    BY <1>8 DEF Answered, Moved, NoReply
  <2> QED BY <2>1, <2>2, <2>3, <2>4 DEF Fit
<1> QED
  BY <1>2, <1>3, <1>4, <1>5, <1>6, <1>7, <1>8 DEF Outcome

\* Recv, from the worker's point of view.
LEMMA RecvKeeps ==
  ASSUME NEW t, Fit(t), t.pc = "recv", t.taken < MaxJobs, t.pops = 0,
         NEW j \in Jobs, NEW s, s = Take(t, j),
         NEW u, u = Dispatch(s)
  PROVE  /\ Taking(t, s, j) /\ s \in TxnRec /\ Fit(s)
         /\ u \in TxnRec /\ Outcome(s, u) /\ Kept(t, u)
<1>1. Taking(t, s, j) /\ s \in TxnRec
  BY TakeFields DEF Fit
<1>2. Kept(t, s) /\ (Accounted(t) => Len(s.commits) < s.taken)
  BY <1>1, TakeKeeps
<1>3. Fit(s) /\ s.pc = "recv" /\ s.pops = 0 /\ s.job \in Jobs
  BY <1>1, <1>2 DEF Kept, Taking, NoReply
<1>4. u \in TxnRec /\ Outcome(s, u)
  BY <1>3, DispatchOutcome DEF Fit
<1>5. /\ Fit(u)
      /\ Small /\ Accounted(s) /\ Len(s.commits) < s.taken => Accounted(u)
      /\ Small /\ Accounted(s) /\ Answered(s) /\ Len(s.commits) < s.taken
              => Answered(u)
  BY <1>3, <1>4, OutcomeKeeps
<1> QED
  BY <1>1, <1>2, <1>3, <1>4, <1>5 DEF Kept

-----------------------------------------------------------------------------
(* The actions.  Each changes the state of its worker in one of the ways    *)
(* above, and that of no other.                                             *)

Only(w) == /\ txn' \in [Workers -> TxnRec]
           /\ \A v \in Workers \ {w} : txn'[v] = txn[v]

\* A step to a typed state moves one worker.
LEMMA BecomeOnly ==
  ASSUME txn \in [Workers -> TxnRec], NEW w \in Workers, NEW u \in TxnRec,
         txn' = [txn EXCEPT ![w] = u]
  PROVE  txn'[w] = u /\ Only(w)
BY DEF Only

\* The worker's own state is fit.
LEMMA FitNow ==
  ASSUME TypeInv, NEW w \in Workers
  PROVE  /\ txn \in [Workers -> TxnRec] /\ txn[w] \in TxnRec /\ Fit(txn[w])
BY DEF TypeInv, Fit

\* Each action, as a step of one worker's state: the loop of start,
LEMMA LoopAct ==
  ASSUME TypeInv, NEW w \in Workers, Loop(w)
  PROVE  Only(w) /\ txn[w].pc = "loop" /\ Looped(txn[w], txn'[w])
<1>1. PICK t \in TxnRec : t = txn[w]
  BY FitNow
<1>2. PICK pc \in {"recv", "quit"} : pc = IF running[w] THEN "recv" ELSE "quit"
  OBVIOUS
<1>3. PICK u : u = [t EXCEPT !.pc = pc, !.job = NoJob, !.acks = <<>>, !.tries = 0,
                             !.pops = IF @ <= 1 THEN 0 ELSE @]
  OBVIOUS
<1>4. txn' = [txn EXCEPT ![w] = u]
  BY <1>1, <1>2, <1>3 DEF Loop, Become
<1>5. u \in TxnRec /\ Looped(t, u)
  BY <1>3, LoopFields
<1>6. txn'[w] = u /\ Only(w)
  BY <1>4, <1>5, FitNow, BecomeOnly
<1> QED
  BY <1>1, <1>5, <1>6 DEF Loop, At

\* The steps that only go on
LEMMA MoveAct ==
  ASSUME TypeInv, NEW w \in Workers,
         \/ RecvTimeout(w) \/ CommitSleep(w) \/ SpuriousWake(w)
         \/ TableSpin(w) \/ LockListSpin(w)
  PROVE  Only(w) /\ Moved(txn[w], txn'[w]) /\ Goes(txn[w], txn'[w])
<1>1. PICK t \in TxnRec : t = txn[w]
  BY FitNow
<1>2. PICK pc \in Pcs : /\ txn' = [txn EXCEPT ![w] = [t EXCEPT !.pc = pc]]
                        /\ \/ t.pc = "recv" /\ pc = "loop"
                           \/ t.pc = "commit" /\ pc = "asleep"
                           \/ t.pc = "asleep" /\ pc = "commit"
                           \/ t.pc # "dead" /\ pc = "hung"
  <2>1. CASE RecvTimeout(w)
    BY <1>1, <2>1 DEF RecvTimeout, Become, At, Pcs
  <2>2. CASE CommitSleep(w)
    BY <1>1, <2>2 DEF CommitSleep, Commits, Become, At, Pcs
  <2>3. CASE SpuriousWake(w)
    BY <1>1, <2>3 DEF SpuriousWake, Become, At, Pcs
  <2>4. CASE TableSpin(w)
    <3>1. t.pc # "dead"
      <4>1. KeysSought(w) # {}
        BY <2>4 DEF TableSpin
      <4>2. CASE t.pc = "dead"
        BY <1>1, <4>1, <4>2 DEF KeysSought, At, Waits, Commits
      <4> QED BY <4>2
    <3> QED BY <1>1, <2>4, <3>1 DEF TableSpin, Become, Pcs
  <2>5. CASE LockListSpin(w)
    BY <1>1, <2>5 DEF LockListSpin, Commits, At, Become, Pcs
  <2> QED BY <2>1, <2>2, <2>3, <2>4, <2>5
<1>3. PICK u : u = [t EXCEPT !.pc = pc]
  OBVIOUS
<1>4. u \in TxnRec /\ Moved(t, u) /\ u.pc = pc
  BY <1>3, MoveFields
<1>5. txn'[w] = u /\ Only(w)
  <2>1. txn' = [txn EXCEPT ![w] = u]
    BY <1>2, <1>3
  <2> QED BY <1>4, <2>1, FitNow, BecomeOnly
<1> QED
  BY <1>1, <1>2, <1>4, <1>5 DEF Goes

\* the head of a retry loop,
LEMMA HeadAct ==
  ASSUME TypeInv, NEW w \in Workers, RetryHead(w)
  PROVE  /\ Only(w) /\ txn[w].pc = "head"
         /\ \/ Replied(txn[w], txn'[w])
            \/ Moved(txn[w], txn'[w]) /\ Goes(txn[w], txn'[w])
<1>1. PICK t \in TxnRec : t = txn[w]
  BY FitNow
<1>2. t.pc = "head"
  BY <1>1 DEF RetryHead, At
<1>3. PICK u : txn' = [txn EXCEPT ![w] = u] /\
        \/ \E a \in Acks : u = Answer(t, a)
        \/ \E a \in Acks : u = Answer([t EXCEPT !.status = "ABORTED"], a)
        \/ u = [t EXCEPT !.pc = "wait"] /\ ~(t.tries >= MaxRetry)
  <2>1. "TIMEOUT" \in Acks /\ "ABORTED" \in Acks
    BY DEF Acks
  <2> QED BY <1>1, <2>1 DEF RetryHead, Become
<1>4. CASE \E a \in Acks : u = Answer(t, a)
  <2>1. u \in TxnRec /\ Replied(t, u)
    BY <1>4, PlainAnswer
  <2> QED BY <1>1, <1>2, <1>3, <2>1, FitNow, BecomeOnly
<1>5. CASE \E a \in Acks : u = Answer([t EXCEPT !.status = "ABORTED"], a)
  <2>1. u \in TxnRec /\ Replied(t, u)
    BY <1>5, AbortedAnswer
  <2> QED BY <1>1, <1>2, <1>3, <2>1, FitNow, BecomeOnly
<1>6. CASE u = [t EXCEPT !.pc = "wait"] /\ ~(t.tries >= MaxRetry)
  <2>1. u \in TxnRec /\ Moved(t, u) /\ u.pc = "wait"
    BY <1>6, MoveFields DEF Pcs
  <2>2. t.tries < MaxRetry
    BY <1>6, WorkerAssumption DEF TxnRec
  <2>3. Goes(t, u)
    BY <1>2, <2>1, <2>2 DEF Goes
  <2> QED BY <1>1, <1>2, <1>3, <2>1, <2>3, FitNow, BecomeOnly
<1> QED
  BY <1>3, <1>4, <1>5, <1>6

\* Taking a job, and handling it up to the table
LEMMA RecvAct ==
  ASSUME TypeInv, NEW w \in Workers, NEW j \in Jobs, Recv(w, j)
  PROVE  /\ Only(w) /\ txn[w].pc = "recv" /\ ClientSends(txn[w], j)
         /\ Kept(txn[w], txn'[w])
         /\ \E s \in TxnRec : /\ Taking(txn[w], s, j) /\ Fit(s)
                              /\ Outcome(s, txn'[w])
<1>1. PICK t \in TxnRec : t = txn[w]
  BY FitNow
<1>2. PICK s : s = Take(t, j)
  OBVIOUS
<1>3. PICK u : u = Dispatch(s)
  OBVIOUS
<1>4. txn' = [txn EXCEPT ![w] = u]
  BY <1>1, <1>2, <1>3 DEF Recv, Become, Take
<1>5. /\ Fit(t) /\ t.pc = "recv" /\ t.taken < MaxJobs /\ t.pops = 0
      /\ ClientSends(t, j)
  BY <1>1, FitNow DEF Recv, At
<1>6. /\ Taking(t, s, j) /\ s \in TxnRec /\ Fit(s)
      /\ u \in TxnRec /\ Outcome(s, u) /\ Kept(t, u)
  BY <1>2, <1>3, <1>5, RecvKeeps
<1>7. txn'[w] = u /\ Only(w)
  BY <1>4, <1>6, FitNow, BecomeOnly
<1> QED
  BY <1>1, <1>5, <1>6, <1>7

\* The row of a grant
LEMMA GrantedRow ==
  ASSUME TypeInv
  PROVE  /\ Shareable # {} => SharedGrant \in LiveSlots /\ table[SharedGrant].key \in Keys
         /\ Excludable # {} =>
              ExclusiveGrant \in LiveSlots /\ table[ExclusiveGrant].key \in Keys
<1>1. \A i \in Slots : table[i].key \in Keys
  BY DEF TypeInv, TableTypeOK, Entry
<1>2. Shareable \subseteq LiveSlots /\ Excludable \subseteq LiveSlots
      /\ LiveSlots \subseteq Slots
  BY DEF Shareable, Excludable, LiveSlots
<1> QED
  BY <1>1, <1>2, GrantIsFree

\* wait_shared and the list,
LEMMA SharedAct ==
  ASSUME TypeInv, NEW w \in Workers, GrantShared(w)
  PROVE  LET r == LL!add_lock(txn[w].locks, table[SharedGrant].key, "SHARED")
         IN  /\ Only(w) /\ txn[w].pc = "wait" /\ txn[w].job.op = "SHARED_READ"
             /\ r.list \in ListRec /\ Counted(r.list) /\ Blank(r.list)
             /\ Granted(txn[w], txn'[w], r.list)
             /\ r.error = "None" => OneReply(txn[w], txn'[w])
<1>1. PICK t \in TxnRec : t = txn[w]
  BY FitNow
<1>2. PICK r : r = LL!add_lock(txn[w].locks, table[SharedGrant].key, "SHARED")
  OBVIOUS
<1>3. PICK L : L = r.list
  OBVIOUS
<1>4. t.pc = "wait" /\ t.job.op = "SHARED_READ" /\ Shareable # {}
  BY <1>1 DEF GrantShared, Waits, At, wait_shared
<1>5. t.locks \in ListRec /\ Counted(t.locks) /\ Blank(t.locks)
  BY <1>1, <1>4, FitNow DEF Fit, ListCounted, TxnRec
<1>6. L \in ListRec /\ Counted(L) /\ Blank(L)
  <2>1. PICK k \in Keys : k = table[SharedGrant].key
    BY <1>4, GrantedRow
  <2>2. L = LL!add_lock(t.locks, k, "SHARED").list /\ "SHARED" \in Types
    BY <1>1, <1>2, <1>3, <2>1 DEF Types
  <2> QED BY <1>5, <2>2, AddLockTyped
<1>7. PICK u : /\ txn' = [txn EXCEPT ![w] = u]
               /\ u = Answer(IF r.error = "None" THEN [t EXCEPT !.locks = L]
                             ELSE Answer([t EXCEPT !.locks = L], "BAD_ACCESS"),
                             "SUCCESS")
  BY <1>1, <1>2, <1>3 DEF GrantShared, Become
<1>8. u \in TxnRec /\ Granted(t, u, L) /\ (r.error = "None" => OneReply(t, u))
  <2>1. CASE r.error = "None"
    <3>1. u = Answer([t EXCEPT !.locks = L], "SUCCESS") /\ "SUCCESS" \in Acks
      BY <1>7, <2>1 DEF Acks
    <3> QED BY <1>6, <3>1, GrantFields
  <2>2. CASE r.error # "None"
    <3>1. u = Answer(Answer([t EXCEPT !.locks = L], "BAD_ACCESS"), "SUCCESS")
      BY <1>7, <2>2
    <3> QED BY <1>6, <2>2, <3>1, GrantTwice
  <2> QED BY <2>1, <2>2
<1>9. txn'[w] = u /\ Only(w)
  BY <1>7, <1>8, FitNow, BecomeOnly
<1> QED
  BY <1>1, <1>2, <1>3, <1>4, <1>6, <1>8, <1>9

\* wait_exclusive and the list,
LEMMA ExclusiveAct ==
  ASSUME TypeInv, NEW w \in Workers, GrantExclusive(w)
  PROVE  LET r == LL!add_lock(txn[w].locks, table[ExclusiveGrant].key, "EXCLUSIVE")
         IN  /\ Only(w) /\ txn[w].pc = "wait" /\ txn[w].job.op = "EXCLUSIVE_READ"
             /\ r.list \in ListRec /\ Counted(r.list) /\ Blank(r.list)
             /\ Granted(txn[w], txn'[w], r.list) /\ OneReply(txn[w], txn'[w])
<1>1. PICK t \in TxnRec : t = txn[w]
  BY FitNow
<1>2. PICK r : r = LL!add_lock(txn[w].locks, table[ExclusiveGrant].key, "EXCLUSIVE")
  OBVIOUS
<1>3. PICK L : L = r.list
  OBVIOUS
<1>4. t.pc = "wait" /\ t.job.op = "EXCLUSIVE_READ" /\ Excludable # {}
  BY <1>1 DEF GrantExclusive, Waits, At, wait_exclusive
<1>5. t.locks \in ListRec /\ Counted(t.locks) /\ Blank(t.locks)
  BY <1>1, <1>4, FitNow DEF Fit, ListCounted, TxnRec
<1>6. L \in ListRec /\ Counted(L) /\ Blank(L)
  <2>1. PICK k \in Keys : k = table[ExclusiveGrant].key
    BY <1>4, GrantedRow
  <2>2. L = LL!add_lock(t.locks, k, "EXCLUSIVE").list /\ "EXCLUSIVE" \in Types
    BY <1>1, <1>2, <1>3, <2>1 DEF Types
  <2> QED BY <1>5, <2>2, AddLockTyped
<1>7. PICK a \in Acks : a = IF r.error = "None" THEN "SUCCESS" ELSE "BAD_ACCESS"
  BY DEF Acks
<1>8. PICK u : u = Answer([t EXCEPT !.locks = L], a)
  OBVIOUS
<1>9. txn' = [txn EXCEPT ![w] = u]
  BY <1>1, <1>2, <1>3, <1>7, <1>8 DEF GrantExclusive, Become
<1>10. u \in TxnRec /\ Granted(t, u, L) /\ OneReply(t, u)
  BY <1>6, <1>8, GrantFields
<1>11. txn'[w] = u /\ Only(w)
  BY <1>9, <1>10, FitNow, BecomeOnly
<1> QED
  BY <1>1, <1>2, <1>3, <1>4, <1>6, <1>10, <1>11

\* promote and the list,
LEMMA PromoteAct ==
  ASSUME TypeInv, NEW w \in Workers, GrantPromote(w)
  PROVE  LET k == txn[w].job.key
             L == LL!promote_lock(txn[w].locks, k)
         IN  /\ Only(w) /\ txn[w].pc = "wait" /\ k \in Keys
             /\ LL!get_lock(txn[w].locks, k) = "SHARED"
             /\ L \in ListRec /\ Counted(L) /\ Blank(L)
             /\ Granted(txn[w], txn'[w], L) /\ OneReply(txn[w], txn'[w])
<1>1. PICK t \in TxnRec : t = txn[w]
  BY FitNow
<1>2. PICK k : k = t.job.key
  OBVIOUS
<1>3. PICK L : L = LL!promote_lock(t.locks, k)
  OBVIOUS
<1>4. t.pc = "wait" /\ t.job.op = "PROMOTE"
  BY <1>1 DEF GrantPromote, Waits, At
<1>5. t.locks \in ListRec /\ Counted(t.locks) /\ Blank(t.locks)
  BY <1>1, <1>4, FitNow DEF Fit, ListCounted, TxnRec
<1>6. k \in Keys /\ LL!get_lock(t.locks, k) = "SHARED"
  BY <1>1, <1>2, <1>4, FitNow, LimitsFields DEF Fit
<1>7. L \in ListRec /\ Counted(L) /\ Blank(L)
  BY <1>3, <1>5, <1>6, PromoteLock
<1>8. PICK u : u = Answer([t EXCEPT !.locks = L], "SUCCESS")
  OBVIOUS
<1>9. txn' = [txn EXCEPT ![w] = u]
  BY <1>1, <1>2, <1>3, <1>8 DEF GrantPromote, Become, TxnRec
<1>10. u \in TxnRec /\ Granted(t, u, L) /\ OneReply(t, u)
  BY <1>7, <1>8, GrantFields DEF Acks
<1>11. txn'[w] = u /\ Only(w)
  BY <1>9, <1>10, FitNow, BecomeOnly
<1> QED
  BY <1>1, <1>2, <1>3, <1>4, <1>6, <1>7, <1>10, <1>11

\* a wait that ends without a row,
LEMMA TimeoutAct ==
  ASSUME TypeInv, NEW w \in Workers, WaitTimeout(w)
  PROVE  Only(w) /\ txn[w].pc = "wait" /\ TimedOut(txn[w], txn'[w])
<1>1. PICK t \in TxnRec : t = txn[w]
  BY FitNow
<1>2. PICK u : u = [t EXCEPT !.tries = @ + 1, !.pc = "head"]
  OBVIOUS
<1>3. t.pc = "wait"
  BY <1>1 DEF WaitTimeout, Waits, At
<1>4. txn' = [txn EXCEPT ![w] = u]
  BY <1>1, <1>2 DEF WaitTimeout, Become
<1>5. u \in TxnRec /\ TimedOut(t, u)
  BY <1>2, TimeoutFields
<1>6. txn'[w] = u /\ Only(w)
  BY <1>4, <1>5, FitNow, BecomeOnly
<1> QED
  BY <1>1, <1>3, <1>5, <1>6

\* the end of YIELD,
LEMMA YieldAct ==
  ASSUME TypeInv, NEW w \in Workers, Yield(w)
  PROVE  /\ Only(w) /\ txn[w].pc = "yield" /\ Replied(txn[w], txn'[w])
         /\ txn'[w].status = txn[w].status
<1>1. PICK t \in TxnRec : t = txn[w]
  BY FitNow
<1>2. PICK u : u = Answer(t, "SUCCESS")
  OBVIOUS
<1>3. txn' = [txn EXCEPT ![w] = u] /\ t.pc = "yield"
  BY <1>1, <1>2 DEF Yield, Become, At
<1>4. u \in TxnRec /\ Replied(t, u) /\ u.status = t.status
  BY <1>2, PlainAnswer, AnswerFields DEF Acks
<1>5. txn'[w] = u /\ Only(w)
  BY <1>3, <1>4, FitNow, BecomeOnly
<1> QED
  BY <1>1, <1>3, <1>4, <1>5

\* The front change of a queue
LEMMA FrontTyped ==
  ASSUME TypeInv, NEW w \in Workers, txn[w].commits # <<>>
  PROVE  /\ Front(w) \in ChangeRec /\ Front(w) = txn[w].commits[1]
         /\ 1 \in DOMAIN txn[w].commits /\ Front(w).key \in Int
         /\ Front(w).op \in {"UPDATE", "DELETE"} => Front(w).key \in Keys
<1>1. PICK q \in Seq(ChangeRec) : q = txn[w].commits
  BY FitNow DEF TxnRec
<1>2. Head(q) = q[1] /\ 1 \in DOMAIN q /\ q[1] \in ChangeRec
  BY <1>1
<1>3. q[1].key \in Int
  BY <1>2, TableAssumption DEF ChangeRec, Keys, BadField
<1>4. q[1].op \in {"UPDATE", "DELETE"} => q[1].key \in Keys
  BY <1>1, <1>2, FitNow, LimitsFields DEF Fit, FromJobs
<1> QED
  BY <1>1, <1>2, <1>3, <1>4 DEF Front

\* an ADD or UPDATE committed,
LEMMA MadeAct ==
  ASSUME TypeInv, NEW w \in Workers, CommitAdd(w) \/ CommitUpdate(w)
  PROVE  /\ Only(w) /\ txn[w].pc = "commit" /\ txn[w].commits # <<>>
         /\ Made(txn[w], txn'[w])
<1>1. PICK t \in TxnRec : t = txn[w]
  BY FitNow
<1>2. PICK u : u = Applied(t)
  OBVIOUS
<1>3. t.pc = "commit" /\ t.commits # <<>> /\ txn' = [txn EXCEPT ![w] = u]
  BY <1>1, <1>2 DEF CommitAdd, CommitUpdate, Commits, At, Become
<1>4. u \in TxnRec /\ Made(t, u)
  BY <1>2, <1>3, AppliedFields
<1>5. txn'[w] = u /\ Only(w)
  BY <1>3, <1>4, FitNow, BecomeOnly
<1> QED
  BY <1>1, <1>3, <1>4, <1>5

\* a DELETE committed, of a row that the list matches,
LEMMA DeleteAct ==
  ASSUME TypeInv, NEW w \in Workers, CommitDelete(w)
  PROVE  LET k == Front(w).key
             L == LL!rm_lock(txn[w].locks, k)
         IN  /\ Only(w) /\ txn[w].pc = "commit" /\ txn[w].commits # <<>>
             /\ Front(w).op = "DELETE" /\ k \in Keys
             /\ LL!Matching(txn[w].locks, k) # {}
             /\ L \in ListRec /\ Counted(L) /\ Blank(L)
             /\ Deleted(txn[w], txn'[w], L)
<1>1. PICK t \in TxnRec : t = txn[w]
  BY FitNow
<1>2. PICK k : k = Front(w).key
  OBVIOUS
<1>3. PICK L : L = LL!rm_lock(t.locks, k)
  OBVIOUS
<1>4. t.pc = "commit" /\ t.commits # <<>> /\ Front(w).op = "DELETE"
  BY <1>1 DEF CommitDelete, Commits, At
<1>5. LL!Matching(t.locks, k) # {}
  BY <1>1, <1>2 DEF CommitDelete, LL!RmLockSpins
<1>6. k \in Keys
  BY <1>1, <1>2, <1>4, FrontTyped
<1>7. t.locks \in ListRec /\ Counted(t.locks) /\ Blank(t.locks)
  BY <1>1, <1>4, FitNow DEF Fit, ListCounted, TxnRec
<1>8. L \in ListRec /\ Counted(L) /\ Blank(L)
  BY <1>3, <1>5, <1>6, <1>7, RmLock
<1>9. PICK u : u = [t EXCEPT !.locks = L, !.pc = "notify"]
  OBVIOUS
<1>10. txn' = [txn EXCEPT ![w] = u]
  BY <1>1, <1>2, <1>3, <1>9 DEF CommitDelete, Become, TxnRec
<1>11. u \in TxnRec /\ Deleted(t, u, L)
  BY <1>8, <1>9, DeleteFields
<1>12. txn'[w] = u /\ Only(w)
  BY <1>10, <1>11, FitNow, BecomeOnly
<1> QED
  BY <1>1, <1>2, <1>3, <1>4, <1>5, <1>6, <1>8, <1>11, <1>12

\* The only step that touches two workers: w has made its change, and one
\* that sleeps goes on.
LEMMA NotifyAct ==
  ASSUME TypeInv, NEW w \in Workers, CommitNotify(w), txn[w].commits # <<>>
  PROVE  /\ txn' \in [Workers -> TxnRec] /\ txn[w].pc = "notify"
         /\ Made(txn[w], txn'[w])
         /\ \A v \in Workers \ {w} :
              \/ txn'[v] = txn[v]
              \/ Moved(txn[v], txn'[v]) /\ Goes(txn[v], txn'[v])
<1>1. PICK t \in TxnRec : t = txn[w]
  BY FitNow
<1>2. PICK u : u = Applied(t)
  OBVIOUS
<1>3. t.pc = "notify"
  BY <1>1 DEF CommitNotify, At
<1>4. u \in TxnRec /\ Made(t, u)
  BY <1>1, <1>2, AppliedFields
<1>5. CASE txn' = [txn EXCEPT ![w] = u]
  <2>1. txn'[w] = u /\ Only(w)
    BY <1>4, <1>5, FitNow, BecomeOnly
  <2> QED BY <1>1, <1>3, <1>4, <2>1 DEF Only
<1>6. ASSUME NEW v \in Workers, txn[v].pc = "asleep",
             txn' = [txn EXCEPT ![w] = u, ![v].pc = "commit"]
      PROVE  /\ txn' \in [Workers -> TxnRec] /\ txn'[w] = u
             /\ Moved(txn[v], txn'[v]) /\ Goes(txn[v], txn'[v])
             /\ \A x \in Workers \ {w, v} : txn'[x] = txn[x]
  <2>1. v # w
    BY <1>1, <1>3, <1>6
  <2>2. PICK s \in TxnRec : s = txn[v]
    BY FitNow
  <2>3. PICK x : x = [s EXCEPT !.pc = "commit"]
    OBVIOUS
  <2>4. x \in TxnRec /\ Moved(s, x) /\ x.pc = "commit"
    BY <2>3, MoveFields DEF Pcs
  <2>5. PICK f \in [Workers -> TxnRec] : f = [txn EXCEPT ![w] = u]
    BY <1>4, FitNow
  <2>6. f[v] = s /\ f[w] = u /\ \A y \in Workers \ {w} : f[y] = txn[y]
    BY <2>1, <2>2, <2>5, FitNow
  <2>7. txn' = [f EXCEPT ![v] = x]
    BY <1>6, <2>3, <2>5, <2>6
  <2>8. txn'[v] = x /\ txn' \in [Workers -> TxnRec] /\ txn'[w] = u
        /\ \A y \in Workers \ {w, v} : txn'[y] = txn[y]
    BY <2>1, <2>4, <2>5, <2>6, <2>7
  <2> QED BY <1>6, <2>2, <2>4, <2>8 DEF Goes
<1>7. \/ txn' = [txn EXCEPT ![w] = u]
      \/ \E v \in Workers : /\ txn[v].pc = "asleep"
                            /\ txn' = [txn EXCEPT ![w] = u, ![v].pc = "commit"]
  BY <1>1, <1>2 DEF CommitNotify, Become, At
<1>8. CASE \E v \in Workers : /\ txn[v].pc = "asleep"
                              /\ txn' = [txn EXCEPT ![w] = u, ![v].pc = "commit"]
  <2>1. PICK v \in Workers : /\ txn[v].pc = "asleep"
                             /\ txn' = [txn EXCEPT ![w] = u, ![v].pc = "commit"]
    BY <1>8
  <2>2. /\ txn' \in [Workers -> TxnRec] /\ txn'[w] = u
        /\ Moved(txn[v], txn'[v]) /\ Goes(txn[v], txn'[v])
        /\ \A x \in Workers \ {w, v} : txn'[x] = txn[x]
    BY <1>6, <2>1
  <2> QED BY <1>1, <1>3, <1>4, <2>2
<1> QED
  BY <1>5, <1>7, <1>8

\* the end of a commit,
LEMMA DoneAct ==
  ASSUME TypeInv, NEW w \in Workers, CommitDone(w)
  PROVE  /\ Only(w) /\ txn[w].pc = "commit" /\ txn[w].commits = <<>>
         /\ Ended(txn[w], txn'[w])
<1>1. PICK t \in TxnRec : t = txn[w]
  BY FitNow
<1>2. PICK u : u = LastAnswer(t)
  OBVIOUS
<1>3. t.pc = "commit" /\ t.commits = <<>> /\ txn' = [txn EXCEPT ![w] = u]
  BY <1>1, <1>2 DEF CommitDone, At, Become
<1>4. u \in TxnRec /\ Ended(t, u)
  BY <1>2, LastAnswerFields
<1>5. txn'[w] = u /\ Only(w)
  BY <1>3, <1>4, FitNow, BecomeOnly
<1> QED
  BY <1>1, <1>3, <1>4, <1>5

\* a lock released by worker_quit,
LEMMA ReleaseAct ==
  ASSUME TypeInv, NEW w \in Workers, ReleaseLock(w)
  PROVE  /\ Only(w) /\ txn[w].pc = "quit"
         /\ LL!Remaining(txn[w].locks, txn[w].cursor) # {}
         /\ NextLock(w) \in LL!Held(txn[w].locks) /\ NextLock(w) \in Nat
         /\ txn[w].locks.locks[NextLock(w)].key \in Keys \cup {LL!NoKey}
         /\ Released(txn[w], txn'[w], NextLock(w) + 1)
<1>1. PICK t \in TxnRec : t = txn[w]
  BY FitNow
<1>2. t.pc = "quit" /\ LL!Remaining(t.locks, t.cursor) # {}
  BY <1>1 DEF ReleaseLock, At, ToRelease
<1>3. t.locks \in ListRec /\ t.cursor \in Nat
  BY DEF TxnRec
<1>4. PICK n : n = LL!NextValid(t.locks, t.cursor)
  OBVIOUS
<1>5. n \in LL!Held(t.locks) /\ n \in Nat
  BY <1>2, <1>3, <1>4, NextListed
<1>6. t.locks.locks[n].key \in Keys \cup {LL!NoKey}
  BY <1>3, <1>5, HeldFinite DEF ListRec, LockRec
<1>7. n = NextLock(w)
  BY <1>1, <1>4 DEF NextLock
<1>8. PICK c \in Nat : c = n + 1
  BY <1>5
<1>9. PICK u : u = [t EXCEPT !.cursor = c]
  OBVIOUS
<1>10. txn' = [txn EXCEPT ![w] = u]
  BY <1>1, <1>7, <1>8, <1>9 DEF ReleaseLock, Become
<1>11. u \in TxnRec /\ Released(t, u, c)
  BY <1>8, <1>9, ReleaseFields
<1>12. txn'[w] = u /\ Only(w)
  BY <1>10, <1>11, FitNow, BecomeOnly
<1> QED
  BY <1>1, <1>2, <1>5, <1>6, <1>7, <1>8, <1>11, <1>12

\* and the end of worker_quit.
LEMMA DieAct ==
  ASSUME TypeInv, NEW w \in Workers, QuitDone(w)
  PROVE  LET L == LL!clear(txn[w].locks)
         IN  /\ Only(w) /\ txn[w].pc = "quit"
             /\ LL!Remaining(txn[w].locks, txn[w].cursor) = {}
             /\ L \in ListRec /\ Counted(L) /\ LL!Held(L) = {}
             /\ Died(txn[w], txn'[w], L)
<1>1. PICK t \in TxnRec : t = txn[w]
  BY FitNow
<1>2. t.pc = "quit" /\ LL!Remaining(t.locks, t.cursor) = {}
  BY <1>1 DEF QuitDone, At, ToRelease
<1>3. PICK L : L = LL!clear(t.locks)
  OBVIOUS
<1>4. L \in ListRec /\ Counted(L) /\ LL!Held(L) = {}
  BY <1>3, ClearList DEF TxnRec
<1>5. PICK u : u = [t EXCEPT !.locks = L, !.commits = <<>>, !.pc = "dead"]
  OBVIOUS
<1>6. txn' = [txn EXCEPT ![w] = u]
  BY <1>1, <1>3, <1>5 DEF QuitDone, Become, TxnRec
<1>7. u \in TxnRec /\ Died(t, u, L)
  BY <1>4, <1>5, DieFields
<1>8. txn'[w] = u /\ Only(w)
  BY <1>6, <1>7, FitNow, BecomeOnly
<1> QED
  BY <1>1, <1>2, <1>3, <1>4, <1>7, <1>8

-----------------------------------------------------------------------------
(* All actions together: what a step keeps of every worker *)

\* A shared grant that does not fit in the list is answered twice.
Doubled(w) ==
    LL!add_lock(txn[w].locks, table[SharedGrant].key, "SHARED").error # "None"

Advanced(v) ==
    \/ txn'[v] = txn[v]
    \/ /\ Fit(txn'[v])
       /\ Small /\ Accounted(txn[v]) => Accounted(txn'[v])
       /\ \/ Kept(txn[v], txn'[v])
          \/ Doubled(v) /\ GrantShared(v)

\* Every step advances each worker or leaves it alone.
LEMMA StepKeeps ==
  ASSUME TypeInv, Next
  PROVE  txn' \in [Workers -> TxnRec] /\ \A v \in Workers : Advanced(v)
<1>0. txn \in [Workers -> TxnRec] /\ \A v \in Workers : Fit(txn[v])
  BY FitNow DEF TypeInv
<1>2. ASSUME NEW w \in Workers, Only(w), Kept(txn[w], txn'[w])
      PROVE  txn' \in [Workers -> TxnRec] /\ \A v \in Workers : Advanced(v)
  BY <1>2 DEF Only, Advanced, Kept
<1>3. ASSUME NEW w \in Workers, Only(w) PROVE txn'[w] \in TxnRec
  BY <1>3 DEF Only
<1> SUFFICES ASSUME NEW w \in Workers,
                    \/ Step(w) \/ (\E j \in Jobs : Recv(w, j))
                    \/ SpuriousWake(w) \/ Stop(w)
             PROVE  txn' \in [Workers -> TxnRec] /\ \A v \in Workers : Advanced(v)
  BY DEF Next
<1>4. CASE Loop(w)
  BY <1>0, <1>2, <1>3, <1>4, LoopAct, LoopKeeps
<1>5. CASE \/ RecvTimeout(w) \/ CommitSleep(w) \/ SpuriousWake(w)
           \/ TableSpin(w) \/ LockListSpin(w)
  <2>1. Only(w) /\ Moved(txn[w], txn'[w]) /\ Goes(txn[w], txn'[w])
    BY <1>5, MoveAct
  <2> QED BY <1>0, <1>2, <1>3, <2>1, MoveKeeps
<1>6. CASE RetryHead(w)
  BY <1>0, <1>2, <1>3, <1>6, HeadAct, ReplyKeeps, MoveKeeps
<1>7. CASE GrantShared(w)
  <2>1. PICK L \in ListRec :
             /\ Only(w) /\ txn[w].pc = "wait" /\ Counted(L) /\ Blank(L)
             /\ Granted(txn[w], txn'[w], L)
             /\ ~Doubled(w) => OneReply(txn[w], txn'[w])
    BY <1>7, SharedAct DEF Doubled
  <2>2. /\ Fit(txn'[w]) /\ (Accounted(txn[w]) => Accounted(txn'[w]))
        /\ OneReply(txn[w], txn'[w]) => Kept(txn[w], txn'[w])
    BY <1>0, <1>3, <2>1, GrantKeeps
  <2> QED BY <1>7, <2>1, <2>2 DEF Only, Advanced
<1>8. CASE GrantExclusive(w)
  <2>1. PICK L \in ListRec :
             /\ Only(w) /\ txn[w].pc = "wait" /\ Counted(L) /\ Blank(L)
             /\ Granted(txn[w], txn'[w], L) /\ OneReply(txn[w], txn'[w])
    BY <1>8, ExclusiveAct
  <2> QED BY <1>0, <1>2, <1>3, <2>1, GrantKeeps
<1>9. CASE GrantPromote(w)
  <2>1. PICK L \in ListRec :
             /\ Only(w) /\ txn[w].pc = "wait" /\ Counted(L) /\ Blank(L)
             /\ Granted(txn[w], txn'[w], L) /\ OneReply(txn[w], txn'[w])
    BY <1>9, PromoteAct
  <2> QED BY <1>0, <1>2, <1>3, <2>1, GrantKeeps
<1>10. CASE WaitTimeout(w)
  BY <1>0, <1>2, <1>3, <1>10, TimeoutAct, TimeoutKeeps
<1>11. CASE Yield(w)
  BY <1>0, <1>2, <1>3, <1>11, YieldAct, ReplyKeeps
<1>12. CASE CommitAdd(w) \/ CommitUpdate(w)
  BY <1>0, <1>2, <1>3, <1>12, MadeAct, MadeKeeps
<1>13. CASE CommitDelete(w)
  <2>1. PICK L \in ListRec :
             /\ Only(w) /\ txn[w].pc = "commit" /\ txn[w].commits # <<>>
             /\ Counted(L) /\ Blank(L) /\ Deleted(txn[w], txn'[w], L)
    BY <1>13, DeleteAct
  <2> QED BY <1>0, <1>2, <1>3, <2>1, DeleteKeeps
<1>14. CASE CommitNotify(w)
  <2>1. txn[w].commits # <<>>
    BY <1>0, <1>14, LimitsFields DEF CommitNotify, At, Fit
  <2>2. /\ txn' \in [Workers -> TxnRec] /\ txn[w].pc = "notify"
        /\ Made(txn[w], txn'[w])
        /\ \A v \in Workers \ {w} :
              \/ txn'[v] = txn[v]
              \/ Moved(txn[v], txn'[v]) /\ Goes(txn[v], txn'[v])
    BY <1>14, <2>1, NotifyAct
  <2>3. Kept(txn[w], txn'[w])
    BY <1>0, <2>1, <2>2, MadeKeeps
  <2>4. \A v \in Workers \ {w} : txn'[v] = txn[v] \/ Kept(txn[v], txn'[v])
    BY <1>0, <2>2, MoveKeeps
  <2> QED BY <2>2, <2>3, <2>4 DEF Advanced, Kept
<1>15. CASE CommitDone(w)
  BY <1>0, <1>2, <1>3, <1>15, DoneAct, EndKeeps
<1>16. CASE ReleaseLock(w)
  BY <1>0, <1>2, <1>3, <1>16, ReleaseAct, ReleaseKeeps
<1>17. CASE QuitDone(w)
  <2>1. PICK L \in ListRec : /\ Only(w) /\ txn[w].pc = "quit"
                             /\ Counted(L) /\ Died(txn[w], txn'[w], L)
    BY <1>17, DieAct
  <2> QED BY <1>0, <1>2, <1>3, <2>1, DieKeeps
<1>18. CASE \E j \in Jobs : Recv(w, j)
  BY <1>2, <1>18, RecvAct
<1>19. CASE Stop(w)
  BY <1>0, <1>19 DEF Stop, Advanced
<1> QED
  BY <1>4, <1>5, <1>6, <1>7, <1>8, <1>9, <1>10, <1>11, <1>12, <1>13, <1>14,
     <1>15, <1>16, <1>17, <1>18, <1>19 DEF Step

-----------------------------------------------------------------------------
(* Types, for every client and every limit *)

\* Preloaded rows and new transactions are typed and have answered nothing.
LEMMA InitTyped ==
  ASSUME Init
  PROVE  TypeInv /\ \A w \in Workers : Accounted(txn[w]) /\ Answered(txn[w])
<1>1. TableTypeOK
  <2>1. \A i \in Slots : i < Preload => i \in Keys
    BY TableAssumption, WorkerAssumption DEF Slots, Keys
  <2>2. EmptyEntry \in Entry
    BY TableAssumption DEF EmptyEntry, Entry, Keys, Locks
  <2>3. \A i \in Slots : i < Preload =>
          [EmptyEntry EXCEPT !.key = i, !.used = TRUE] \in Entry
    BY <2>1, <2>2 DEF Entry
  <2>4. table \in [Slots -> Entry]
    BY <2>2, <2>3 DEF Init
  <2>5. Preload \in Keys /\ Preload \in Int
    BY TableAssumption, WorkerAssumption DEF Keys
  <2> QED BY <2>4, <2>5 DEF Init, TableTypeOK
<1>2. /\ LL!EmptyList \in ListRec /\ Blank(LL!EmptyList)
      /\ LL!Held(LL!EmptyList) = {} /\ LL!EmptyList.size = 0
  <2>1. LL!EmptyLock \in LockRec /\ ~LL!EmptyLock.used
        /\ LL!EmptyLock.key = LL!NoKey
    BY DEF LL!EmptyLock, LockRec, Types
  <2>2. /\ LL!EmptyList.locks = [i \in LL!Entries |-> LL!EmptyLock]
        /\ LL!EmptyList.size = 0
    BY DEF LL!EmptyList
  <2>3. \A i \in LL!Entries : LL!EmptyList.locks[i] = LL!EmptyLock
    BY <2>2
  <2>4. LL!EmptyList \in ListRec
    BY <2>1 DEF LL!EmptyList, ListRec
  <2> QED BY <2>1, <2>2, <2>3, <2>4 DEF Blank, LL!Held
<1>3. Counted(LL!EmptyList)
  BY <1>2, FS_EmptySet DEF Counted
<1>4. <<>> \in Seq(ChangeRec) /\ <<>> \in Seq(Acks) /\ Len(<<>>) = 0
      /\ DOMAIN <<>> = {} /\ <<>> \in Seq(Workers)
  OBVIOUS
<1>5. NewTxn \in TxnRec
  BY <1>2, <1>4 DEF NewTxn, TxnRec, Pcs, Statuses
<1>6. /\ NewTxn.pc = "loop" /\ NewTxn.tries = 0 /\ NewTxn.taken = 0
      /\ NewTxn.commits = <<>> /\ NewTxn.acks = <<>> /\ NewTxn.pops = 0
      /\ NewTxn.acked = 0 /\ NewTxn.applied = 0 /\ ~NewTxn.committed
      /\ NewTxn.locks = LL!EmptyList
  BY DEF NewTxn
<1>7. ListCounted(NewTxn) /\ WithinLimits(NewTxn)
  BY <1>2, <1>3, <1>4, <1>6, WorkerAssumption DEF ListCounted, WithinLimits
<1>8. Accounted(NewTxn) /\ Answered(NewTxn)
  BY <1>4, <1>6 DEF Accounted, Answered
<1>9. \A w \in Workers : txn[w] = NewTxn
  BY DEF Init
<1>10. txn \in [Workers -> TxnRec] /\ running \in [Workers -> BOOLEAN]
       /\ ret_ch \in Seq(Workers) /\ mtx \in Workers \cup {NoWorker}
  BY <1>4, <1>5 DEF Init
<1> QED
  BY <1>1, <1>7, <1>8, <1>9, <1>10 DEF TypeInv

\* A step uses at most one operation of the table.
LEMMA NextTable ==
  ASSUME TypeInv, Next
  PROVE  TableTypeOK'
<1> SUFFICES ASSUME NEW w \in Workers,
                    \/ Step(w) \/ (\E j \in Jobs : Recv(w, j))
                    \/ SpuriousWake(w) \/ Stop(w)
             PROVE  TableTypeOK'
  BY DEF Next
<1>0. TableTypeOK
  BY DEF TypeInv
<1>1. CASE UNCHANGED tableVars
  BY <1>0, <1>1 DEF TableTypeOK, tableVars
<1>2. CASE GrantShared(w)
  BY <1>0, <1>2, OperationsTyped DEF GrantShared
<1>3. CASE GrantExclusive(w)
  BY <1>0, <1>3, OperationsTyped DEF GrantExclusive
<1>4. CASE GrantPromote(w)
  <2>1. PICK k \in Int : k = txn[w].job.key
    BY <1>4, PromoteAct, TableAssumption DEF Keys
  <2>2. promote(k)
    BY <1>4, <2>1 DEF GrantPromote
  <2> QED BY <1>0, <2>2, OperationsTyped
<1>5. CASE Yield(w)
  <2>1. PICK k \in Int : k = txn[w].job.key
    <3>1. txn[w].job \in Job
      BY <1>5, FitNow, LimitsFields, JobsAssumption DEF Yield, At, Fit
    <3> QED BY <3>1, TableAssumption DEF Job, Keys, BadField
  <2>2. release(k)
    BY <1>5, <2>1 DEF Yield
  <2> QED BY <1>0, <2>2, OperationsTyped
<1>6. CASE CommitAdd(w)
  <2>1. PICK d \in Data : d = Front(w).data
    BY <1>6, FrontTyped DEF CommitAdd, Commits, ChangeRec
  <2>2. insert(d)
    BY <1>6, <2>1 DEF CommitAdd
  <2> QED BY <1>0, <2>2, OperationsTyped
<1>7. CASE CommitDelete(w)
  <2>1. PICK k \in Int : k = Front(w).key
    BY <1>7, FrontTyped DEF CommitDelete, Commits
  <2>2. remove(k)
    BY <1>7, <2>1 DEF CommitDelete
  <2> QED BY <1>0, <2>2, OperationsTyped
<1>8. CASE CommitUpdate(w)
  <2>1. PICK d \in Data : d = Front(w).data
    BY <1>8, FrontTyped DEF CommitUpdate, Commits, ChangeRec
  <2>2. PICK k \in Int : k = DeserializedKey
    BY DEF DeserializedKey
  <2>3. write(k, d)
    BY <1>8, <2>1, <2>2 DEF CommitUpdate
  <2> QED BY <1>0, <2>3, OperationsTyped
<1>9. CASE ReleaseLock(w)
  <2>1. PICK k \in Int : k = txn[w].locks.locks[NextLock(w)].key
    BY <1>9, ReleaseAct, TableAssumption DEF Keys, LL!NoKey
  <2>2. release(k)
    BY <1>9, <2>1 DEF ReleaseLock
  <2> QED BY <1>0, <2>2, OperationsTyped
<1> QED
  BY <1>1, <1>2, <1>3, <1>4, <1>5, <1>6, <1>7, <1>8, <1>9
     DEF Step, Loop, RecvTimeout, RetryHead, WaitTimeout, CommitSleep,
         CommitNotify, CommitDone, QuitDone, TableSpin, LockListSpin, Recv,
         SpuriousWake, Stop

\* TypeInv is inductive.
LEMMA NextTyped ==
  ASSUME TypeInv, [Next]_vars
  PROVE  TypeInv'
<1>1. CASE Next
  <2>1. txn' \in [Workers -> TxnRec] /\ \A v \in Workers : Fit(txn'[v])
    <3>1. \A v \in Workers : Fit(txn[v])
      BY FitNow
    <3> QED BY <1>1, <3>1, StepKeeps DEF Advanced
  <2>2. TableTypeOK'
    BY <1>1, NextTable
  <2>3. running' \in [Workers -> BOOLEAN] /\ ret_ch' \in Seq(Workers)
        /\ mtx' \in Workers \cup {NoWorker}
    <3>0. PICK w \in Workers : \/ Step(w) \/ (\E j \in Jobs : Recv(w, j))
                               \/ SpuriousWake(w) \/ Stop(w)
      BY <1>1 DEF Next
    <3>1. /\ running \in [Workers -> BOOLEAN] /\ ret_ch \in Seq(Workers)
          /\ mtx \in Workers \cup {NoWorker}
      BY DEF TypeInv
    <3>2. CASE Stop(w)
      BY <3>1, <3>2 DEF Stop
    <3>3. CASE QuitDone(w)
      <4>1. Append(ret_ch, w) \in Seq(Workers)
        BY <3>1
      <4> QED BY <3>1, <3>3, <4>1 DEF QuitDone
    <3>4. CASE TableSpin(w)
      BY <3>1, <3>4 DEF TableSpin
    <3>5. CASE UNCHANGED sharedVars
      BY <3>1, <3>5 DEF sharedVars
    <3> QED
      BY <3>0, <3>2, <3>3, <3>4, <3>5
         DEF Step, Loop, RecvTimeout, RetryHead, GrantShared, GrantExclusive,
             GrantPromote, WaitTimeout, Yield, CommitAdd, CommitSleep,
             CommitDelete, CommitNotify, CommitUpdate, CommitDone, ReleaseLock,
             LockListSpin, Recv, SpuriousWake
  <2> QED BY <2>1, <2>2, <2>3 DEF TypeInv, Fit
<1>2. CASE UNCHANGED vars
  BY <1>2 DEF TypeInv, TableTypeOK, vars
<1> QED
  BY <1>1, <1>2

\* The types are right, and so are the limits of the code: the counter of
\* timeouts, the room of the lock list and that of the queue are never passed,
\* whatever the clients send, also on the paths that answer twice.
THEOREM TypeCorrect == Spec => []TypeOK
<1>1. Init => TypeInv
  BY InitTyped
<1>2. TypeInv /\ [Next]_vars => TypeInv'
  BY NextTyped
<1>3. TypeInv => TypeOK
  <2> SUFFICES ASSUME TypeInv PROVE TypeOK
    OBVIOUS
  <2>1. ASSUME NEW w \in Workers
        PROVE  /\ txn[w].pc \in Pcs
               /\ txn[w].status \in {"GROWING", "SHRINKING", "ABORTED"}
               /\ txn[w].locks.size \in 0 .. MaxLocks
               /\ Len(txn[w].commits) \in 0 .. MaxCommits
               /\ txn[w].tries \in 0 .. MaxRetry
               /\ txn[w].taken \in 0 .. MaxJobs
    <3>1. PICK t \in TxnRec : t = txn[w]
      BY FitNow
    <3>2. ListCounted(t) /\ WithinLimits(t)
      BY <3>1, FitNow DEF Fit
    <3>3. t.locks.size \in 0 .. MaxLocks
      BY <3>2, HeldFinite DEF ListCounted, Counted
    <3>4. Len(t.commits) \in Nat /\ t.tries \in Nat /\ t.taken \in Nat
          /\ t.pc \in Pcs /\ t.status \in Statuses
      BY DEF TxnRec
    <3>5. /\ Len(t.commits) \in 0 .. MaxCommits /\ t.tries \in 0 .. MaxRetry
          /\ t.taken \in 0 .. MaxJobs
      BY <3>2, <3>4, WorkerAssumption DEF WithinLimits
    <3> QED BY <3>1, <3>3, <3>4, <3>5 DEF Statuses
  <2> QED BY <2>1 DEF TypeInv, TypeOK
<1> QED
  BY <1>1, <1>2, <1>3, PTL DEF Spec

\* Every step keeps the account of the changes.
LEMMA NextAccounted ==
  ASSUME TypeInv, Small, \A w \in Workers : Accounted(txn[w]), [Next]_vars
  PROVE  \A w \in Workers : Accounted(txn'[w])
<1>1. CASE Next
  BY <1>1, StepKeeps DEF Advanced
<1>2. CASE UNCHANGED vars
  BY <1>2 DEF vars
<1> QED
  BY <1>1, <1>2

\* When COMMIT is answered SUCCESS to a transaction that was not marked
\* ABORTED, every change acknowledged has been made: for any number of workers,
\* jobs and rows, if a transaction has no more jobs than its queue has room.
THEOREM CompleteTheorem ==
  ASSUME MaxJobs <= MaxCommits
  PROVE  Spec => []CommitIsComplete
<1> DEFINE Inv == TypeInv /\ \A w \in Workers : Accounted(txn[w])
<1>0. Small
  BY DEF Small
<1>1. Init => Inv
  BY InitTyped
<1>2. Inv /\ [Next]_vars => Inv'
  BY <1>0, NextTyped, NextAccounted
<1>3. Inv => CommitIsComplete
  BY DEF Accounted, CommitIsComplete
<1> QED
  BY <1>1, <1>2, <1>3, PTL DEF Spec

-----------------------------------------------------------------------------
(* The locks a worker has.  Most steps leave them as they are.              *)

HasSame(t, u) ==
    \A k \in Keys, type \in Types : Has(u, k, type) <=> Has(t, k, type)

\* A queued change was queued before, or its row is locked exclusively.
QueueKept(t, u) ==
    \A k \in Keys : Queues(u, k) => Queues(t, k) \/ Has(t, k, "EXCLUSIVE")

\* A worker on its way out does not come back.
StillIn(t, u) == u.pc \notin {"quit", "dead"} => t.pc \notin {"quit", "dead"}

Orderly(t, u) == ListKept(u) /\ QueueKept(t, u) /\ StillIn(t, u)

Quiet(t, u) == Orderly(t, u) /\ HasSame(t, u)

\* The same queue is kept.
LEMMA QueueSame ==
  ASSUME NEW t, NEW u, u.commits = t.commits
  PROVE  QueueKept(t, u)
BY DEF QueueKept, Queues

\* The same list, between places that are not the yield.
LEMMA HasUnmoved ==
  ASSUME NEW t, NEW u, SameLocks(t, u), t.pc # "yield", u.pc # "yield"
  PROVE  HasSame(t, u)
BY DEF HasSame, Has, SameLocks

\* The steps that leave the locks alone: a round of the loop,
LEMMA LoopQuiet ==
  ASSUME NEW t, NEW u, ListKept(t), t.pc = "loop", Looped(t, u)
  PROVE  Quiet(t, u)
<1>1. u.pc \in {"recv", "quit"} /\ SameLocks(t, u) /\ u.commits = t.commits
      /\ u.status = t.status
  BY DEF Looped, SameWork
<1>2. HasSame(t, u) /\ QueueKept(t, u)
  BY <1>1, HasUnmoved, QueueSame
<1>3. ListKept(u)
  BY <1>1 DEF ListKept, SameLocks
<1>4. StillIn(t, u)
  BY DEF StillIn
<1> QED
  BY <1>2, <1>3, <1>4 DEF Quiet, Orderly

\* A step from one place to another; nobody is caught in a loop of the table
\* outside a commit.
LEMMA MoveQuiet ==
  ASSUME NEW t, NEW u, ListKept(t), Moved(t, u), Goes(t, u),
         u.pc = "hung" => t.pc = "commit"
  PROVE  Quiet(t, u)
<1>1. SameLocks(t, u) /\ u.commits = t.commits /\ u.status = t.status
      /\ u.job = t.job
  BY DEF Moved, SameWork, SameJob
<1>2. t.pc # "yield" /\ u.pc # "yield" /\ t.pc \notin {"quit", "dead"}
      /\ u.pc \notin {"quit", "dead"}
  BY DEF Goes
<1>3. HasSame(t, u) /\ QueueKept(t, u) /\ StillIn(t, u)
  BY <1>1, <1>2, HasUnmoved, QueueSame DEF StillIn
<1>4. u.pc \in {"head", "wait"} => t.pc = "head"
  BY DEF Goes
<1>5. ListKept(u)
  BY <1>1, <1>2, <1>4 DEF ListKept, SameLocks
<1> QED
  BY <1>3, <1>5 DEF Quiet, Orderly

\* A reply at the head of a retry loop, or before it.
LEMMA ReplyQuiet ==
  ASSUME NEW t, NEW u, ListKept(t), t.pc \in {"recv", "head"}, Replied(t, u)
  PROVE  Quiet(t, u)
<1>1. /\ SameLocks(t, u) /\ u.commits = t.commits /\ u.pc = "loop"
      /\ u.status = "GROWING" => t.status = "GROWING"
  BY DEF Replied, SameWork, OneReply
<1>2. HasSame(t, u) /\ QueueKept(t, u) /\ StillIn(t, u)
  BY <1>1, HasUnmoved, QueueSame DEF StillIn
<1>3. ListKept(u)
  BY <1>1 DEF ListKept, SameLocks
<1> QED
  BY <1>2, <1>3 DEF Quiet, Orderly

\* A timed-out wait,
LEMMA TimeoutQuiet ==
  ASSUME NEW t, NEW u, ListKept(t), t.pc = "wait", TimedOut(t, u)
  PROVE  Quiet(t, u)
<1>1. /\ SameLocks(t, u) /\ u.commits = t.commits /\ u.pc = "head"
      /\ u.status = t.status /\ u.job = t.job
  BY DEF TimedOut, SameWork
<1>2. HasSame(t, u) /\ QueueKept(t, u) /\ StillIn(t, u)
  BY <1>1, HasUnmoved, QueueSame DEF StillIn
<1>3. ListKept(u)
  BY <1>1 DEF ListKept, SameLocks
<1> QED
  BY <1>2, <1>3 DEF Quiet, Orderly

\* a change made,
LEMMA MadeQuiet ==
  ASSUME NEW t \in TxnRec, NEW u, ListKept(t), t.pc \in {"commit", "notify"},
         t.commits # <<>>, Made(t, u)
  PROVE  Quiet(t, u)
<1>1. /\ SameLocks(t, u) /\ u.commits = Tail(t.commits) /\ u.pc = "commit"
      /\ u.status = t.status
  BY DEF Made
<1>2. HasSame(t, u) /\ StillIn(t, u)
  BY <1>1, HasUnmoved DEF StillIn
<1>3. QueueKept(t, u)
  <2>1. PICK q \in Seq(ChangeRec) : q = t.commits
    BY DEF TxnRec
  <2>2. \A n \in DOMAIN Tail(q) : n + 1 \in DOMAIN q /\ Tail(q)[n] = q[n + 1]
    BY <2>1
  <2> QED BY <1>1, <2>1, <2>2 DEF QueueKept, Queues
<1>4. ListKept(u)
  BY <1>1 DEF ListKept, SameLocks
<1> QED
  BY <1>2, <1>3, <1>4 DEF Quiet, Orderly

\* and the reply to COMMIT or ABORT.
LEMMA EndQuiet ==
  ASSUME NEW t, NEW u, ListKept(t), t.pc \in {"recv", "commit"}, Ended(t, u)
  PROVE  Quiet(t, u)
<1>1. /\ SameLocks(t, u) /\ u.commits = t.commits /\ u.pc = "quit"
      /\ u.status = t.status
  BY DEF Ended, SameWork
<1>2. HasSame(t, u) /\ QueueKept(t, u) /\ StillIn(t, u)
  BY <1>1, HasUnmoved, QueueSame DEF StillIn
<1>3. ListKept(u)
  BY <1>1 DEF ListKept, SameLocks
<1> QED
  BY <1>2, <1>3 DEF Quiet, Orderly

\* The list is cleared when nothing remains in it.
LEMMA DieQuiet ==
  ASSUME NEW t, NEW u, NEW L, ListKept(t), t.pc = "quit",
         LL!Remaining(t.locks, t.cursor) = {}, LL!Held(L) = {}, Died(t, u, L)
  PROVE  Quiet(t, u)
<1>1. u.locks = L /\ u.commits = <<>> /\ u.pc = "dead" /\ DOMAIN <<>> = {}
  BY DEF Died
<1>2. LL!Remaining(u.locks, u.cursor) = {}
  BY <1>1 DEF LL!Remaining
<1>3. HasSame(t, u)
  BY <1>1, <1>2 DEF HasSame, Has, Listed
<1>4. QueueKept(t, u) /\ StillIn(t, u)
  BY <1>1 DEF QueueKept, Queues, StillIn
<1>5. ListKept(u)
  BY <1>1 DEF ListKept, RowsOnce
<1> QED
  BY <1>3, <1>4, <1>5 DEF Quiet, Orderly

\* Taking a job changes nothing, and neither does its handler, up to the table.
LEMMA TakeQuiet ==
  ASSUME NEW t, NEW s, NEW j, ListKept(t), t.pc = "recv", Taking(t, s, j)
  PROVE  Quiet(t, s) /\ s.commits = t.commits /\ s.pc = "recv"
<1>1. /\ SameLocks(t, s) /\ s.commits = t.commits /\ s.pc = "recv"
      /\ s.status = t.status
  BY DEF Taking, SameWork
<1>2. HasSame(t, s) /\ QueueKept(t, s) /\ StillIn(t, s)
  BY <1>1, HasUnmoved, QueueSame DEF StillIn
<1>3. ListKept(s)
  BY <1>1 DEF ListKept, SameLocks
<1> QED
  BY <1>1, <1>2, <1>3 DEF Quiet, Orderly

\* A yielded row counts as held until the table has it back.
LEMMA OutcomeQuiet ==
  ASSUME NEW t, Fit(t), ListKept(t), t.pc = "recv", t.job \in Jobs, NEW u,
         t.job.op = "SHARED_READ" => \A k \in Keys : ~Listed(t.locks, 0, k, "SHARED"),
         Outcome(t, u)
  PROVE  Quiet(t, u)
<1>0. t \in TxnRec /\ t.cursor = 0 /\ RowsOnce(t.locks)
      /\ t.locks \in ListRec /\ Counted(t.locks) /\ Blank(t.locks)
  BY DEF Fit, ListKept, ListCounted, TxnRec
<1>1. CASE Replied(t, u)
  BY <1>1, ReplyQuiet
<1>2. CASE Queued(t, u)
  <2>1. /\ SameLocks(t, u) /\ u.pc = "loop" /\ u.status # "GROWING"
        /\ u.commits = Append(t.commits, Change(t))
    BY <1>2 DEF Queued, OneReply
  <2>2. HasSame(t, u) /\ StillIn(t, u)
    BY <2>1, HasUnmoved DEF StillIn
  <2>3. ListKept(u)
    BY <1>0, <2>1 DEF ListKept, SameLocks
  <2>4. QueueKept(t, u)
    <3>1. PICK q \in Seq(ChangeRec) : q = t.commits
      BY <1>0 DEF TxnRec
    <3>2. PICK c : c = Change(t)
      OBVIOUS
    <3>3. \A n \in DOMAIN Append(q, c) :
             (n \in DOMAIN q /\ Append(q, c)[n] = q[n]) \/ Append(q, c)[n] = c
      BY <3>1
    <3>4. c.op \in {"UPDATE", "DELETE"} =>
            c.key \in Keys /\ Has(t, c.key, "EXCLUSIVE")
      <4>1. c.op = t.job.op /\ c.key = t.job.key
        BY <3>2 DEF Change
      <4>2. ASSUME c.op \in {"UPDATE", "DELETE"}
            PROVE  c.key \in Keys /\ LL!get_lock(t.locks, c.key) = "EXCLUSIVE"
        BY <1>2, <4>1, <4>2 DEF Queued
      <4>3. ASSUME c.op \in {"UPDATE", "DELETE"}
            PROVE  Listed(t.locks, 0, c.key, "EXCLUSIVE")
        BY <4>2, <4>3, GetLock DEF Types
      <4> QED BY <1>0, <4>2, <4>3 DEF Has
    <3> QED BY <2>1, <3>1, <3>2, <3>3, <3>4 DEF QueueKept, Queues
  <2> QED BY <2>2, <2>3, <2>4 DEF Quiet, Orderly
<1>3. CASE Overfull(t, u)
  <2>1. /\ SameLocks(t, u) /\ u.pc = "loop" /\ u.status # "GROWING"
        /\ u.commits = t.commits
    BY <1>3 DEF Overfull
  <2>2. HasSame(t, u) /\ QueueKept(t, u) /\ StillIn(t, u)
    BY <2>1, HasUnmoved, QueueSame DEF StillIn
  <2>3. ListKept(u)
    BY <2>1 DEF ListKept, SameLocks
  <2> QED BY <2>2, <2>3 DEF Quiet, Orderly
<1>4. CASE Begun(t, u)
  <2>1. /\ SameLocks(t, u) /\ u.pc = "head" /\ u.status = "GROWING"
        /\ t.status = "GROWING" /\ u.commits = t.commits /\ u.job = t.job
    BY <1>4 DEF Begun, SameWork
  <2>2. HasSame(t, u) /\ QueueKept(t, u) /\ StillIn(t, u)
    BY <2>1, HasUnmoved, QueueSame DEF StillIn
  <2>3. ListKept(u)
    BY <2>1 DEF ListKept, SameLocks
  <2> QED BY <2>2, <2>3 DEF Quiet, Orderly
<1>5. CASE Yielding(t, u)
  <2>1. PICK k \in Keys : k = t.job.key
    BY <1>5 DEF Yielding
  <2>2. /\ u.pc = "yield" /\ u.status = "GROWING" /\ t.status = "GROWING"
        /\ u.commits = t.commits /\ u.job = t.job /\ u.cursor = 0
        /\ LL!get_lock(t.locks, k) = "SHARED" /\ u.locks = LL!rm_lock(t.locks, k)
    BY <1>0, <1>5, <2>1 DEF Yielding, SameWork, SameJob
  <2>3. LL!Matching(t.locks, k) # {} /\ Listed(t.locks, 0, k, "SHARED")
    BY <2>2, GetLock DEF Types
  <2>4. /\ RowsOnce(u.locks)
        /\ \A q \in Keys, ty \in Types :
             Listed(u.locks, 0, q, ty) <=> Listed(t.locks, 0, q, ty) /\ q # k
    BY <1>0, <2>2, <2>3, RmLock
  <2>5. ~Listed(t.locks, 0, k, "EXCLUSIVE")
    BY <1>0, <2>3, ListedHeld DEF RowsOnce
  <2>6. HasSame(t, u)
    BY <1>0, <2>1, <2>2, <2>3, <2>4, <2>5 DEF HasSame, Has, Types
  <2>7. QueueKept(t, u) /\ StillIn(t, u)
    BY <2>2, QueueSame DEF StillIn
  <2>8. ListKept(u)
    BY <2>1, <2>2, <2>4 DEF ListKept
  <2> QED BY <2>6, <2>7, <2>8 DEF Quiet, Orderly
<1>6. CASE Ended(t, u)
  BY <1>6, EndQuiet
<1>7. CASE Moved(t, u) /\ u.pc = "commit"
  <2>1. /\ SameLocks(t, u) /\ u.status = t.status /\ u.commits = t.commits
    BY <1>7 DEF Moved, SameWork
  <2>2. HasSame(t, u) /\ QueueKept(t, u) /\ StillIn(t, u)
    BY <1>7, <2>1, HasUnmoved, QueueSame DEF StillIn
  <2>3. ListKept(u)
    BY <1>7, <2>1 DEF ListKept, SameLocks
  <2> QED BY <2>2, <2>3 DEF Quiet, Orderly
<1> QED
  BY <1>1, <1>2, <1>3, <1>4, <1>5, <1>6, <1>7 DEF Outcome

\* A client that may not share twice, and its job.
LEMMA ClientShares ==
  ASSUME NEW t, NEW j, ~Rereads, ClientSends(t, j), j.op = "SHARED_READ"
  PROVE  \A k \in Keys : ~Listed(t.locks, 0, k, "SHARED")
<1>1. \A i \in LL!Held(t.locks) : t.locks.locks[i].type # "SHARED"
  BY DEF ClientSends
<1> QED
  BY <1>1, ListedHeld

\* Two such steps are one.
LEMMA QuietTwice ==
  ASSUME NEW t, NEW s, NEW u, Quiet(t, s), s.commits = t.commits, Quiet(s, u)
  PROVE  Quiet(t, u)
<1>1. ListKept(u) /\ StillIn(t, u) /\ HasSame(t, u)
  BY DEF Quiet, Orderly, StillIn, HasSame
<1>2. QueueKept(t, u)
  <2>1. \A k \in Keys : Has(s, k, "EXCLUSIVE") => Has(t, k, "EXCLUSIVE")
    BY DEF Quiet, HasSame, Types
  <2>2. \A k \in Keys : Queues(s, k) => Queues(t, k)
    BY DEF Queues
  <2> QED BY <2>1, <2>2 DEF Quiet, Orderly, QueueKept
<1> QED
  BY <1>1, <1>2 DEF Quiet, Orderly

\* The steps that change what a worker has.  A lock is added,
Gains(t, u, k, type) ==
    \A q \in Keys, ty \in Types :
        Has(u, q, ty) <=> Has(t, q, ty) \/ (q = k /\ ty = type)

\* or all locks on a row are given back,
Drops(t, u, k) ==
    \A q \in Keys, ty \in Types : Has(u, q, ty) <=> Has(t, q, ty) /\ q # k

\* or a shared one becomes exclusive.
Turns(t, u, k) ==
    \A q \in Keys, ty \in Types :
        Has(u, q, ty) <=> IF q = k THEN ty = "EXCLUSIVE" ELSE Has(t, q, ty)

\* A grant, when the list did not have the row and has room.
LEMMA GrantGains ==
  ASSUME NEW t, Fit(t), ListKept(t), t.pc = "wait", NEW k \in Keys,
         NEW type \in Types, t.locks.size < MaxLocks,
         \A ty \in Types : ~Has(t, k, ty), NEW u,
         Granted(t, u, LL!add_lock(t.locks, k, type).list)
  PROVE  Orderly(t, u) /\ Gains(t, u, k, type)
<1>0. t.cursor = 0 /\ RowsOnce(t.locks) /\ t.locks \in ListRec /\ Counted(t.locks)
  BY DEF Fit, ListKept, ListCounted, TxnRec
<1>1. \A ty \in Types : ~Listed(t.locks, 0, k, ty)
  BY <1>0 DEF Has
<1>2. PICK r : r = LL!add_lock(t.locks, k, type)
  OBVIOUS
<1>3. /\ RowsOnce(r.list)
      /\ \A q \in Keys, ty \in Types :
           Listed(r.list, 0, q, ty) <=>
             Listed(t.locks, 0, q, ty) \/ (q = k /\ ty = type)
  BY <1>0, <1>1, <1>2, AddLock
<1>4. /\ u.locks = r.list /\ u.cursor = 0 /\ u.commits = t.commits
      /\ u.status = t.status /\ u.pc = "loop"
  BY <1>0, <1>2 DEF Granted, SameWork
<1>5. Gains(t, u, k, type)
  BY <1>0, <1>3, <1>4 DEF Gains, Has
<1>6. QueueKept(t, u) /\ StillIn(t, u)
  BY <1>4, QueueSame DEF StillIn
<1>7. ListKept(u)
  BY <1>3, <1>4 DEF ListKept
<1> QED
  BY <1>5, <1>6, <1>7 DEF Orderly

\* A promotion turns the lock that the list has.
LEMMA PromoteTurns ==
  ASSUME NEW t, Fit(t), ListKept(t), t.pc = "wait", NEW k \in Keys,
         LL!get_lock(t.locks, k) = "SHARED", NEW u,
         Granted(t, u, LL!promote_lock(t.locks, k))
  PROVE  Orderly(t, u) /\ Turns(t, u, k) /\ Has(t, k, "SHARED")
<1>0. /\ t.cursor = 0 /\ RowsOnce(t.locks) /\ t.locks \in ListRec
      /\ Counted(t.locks) /\ Blank(t.locks)
  BY DEF Fit, ListKept, ListCounted, TxnRec
<1>1. PICK L : L = LL!promote_lock(t.locks, k)
  OBVIOUS
<1>2. /\ RowsOnce(L)
      /\ \A q \in Keys, ty \in Types :
           Listed(L, 0, q, ty) <=>
             IF q = k THEN ty = "EXCLUSIVE" ELSE Listed(t.locks, 0, q, ty)
  BY <1>0, <1>1, PromoteLock
<1>3. /\ u.locks = L /\ u.cursor = 0 /\ u.commits = t.commits
      /\ u.status = t.status /\ u.pc = "loop"
  BY <1>0, <1>1 DEF Granted, SameWork
<1>4. Turns(t, u, k)
  BY <1>0, <1>2, <1>3 DEF Turns, Has
<1>5. QueueKept(t, u) /\ StillIn(t, u)
  BY <1>3, QueueSame DEF StillIn
<1>6. ListKept(u)
  BY <1>2, <1>3 DEF ListKept
<1>7. Has(t, k, "SHARED")
  BY <1>0, GetLock DEF Has, Types
<1> QED
  BY <1>4, <1>5, <1>6, <1>7 DEF Orderly

\* The end of YIELD
LEMMA YieldDrops ==
  ASSUME NEW t, ListKept(t), t.pc = "yield", NEW u, Replied(t, u)
  PROVE  Orderly(t, u) /\ Drops(t, u, t.job.key)
<1>0. /\ t.cursor = 0 /\ t.job.key \in Keys
      /\ \A ty \in Types : ~Listed(t.locks, 0, t.job.key, ty)
  BY DEF ListKept
<1>1. /\ u.locks = t.locks /\ u.cursor = 0 /\ u.commits = t.commits
      /\ u.pc = "loop" /\ (u.status = "GROWING" => t.status = "GROWING")
  BY <1>0 DEF Replied, SameLocks, SameWork, OneReply
<1>2. Drops(t, u, t.job.key)
  BY <1>0, <1>1 DEF Drops, Has
<1>3. QueueKept(t, u) /\ StillIn(t, u)
  BY <1>1, QueueSame DEF StillIn
<1>4. ListKept(u)
  BY <1>1 DEF ListKept, Replied, OneReply
<1> QED
  BY <1>2, <1>3, <1>4 DEF Orderly

\* DELETE takes the row's lock out of the list,
LEMMA DeleteDrops ==
  ASSUME NEW t, Fit(t), ListKept(t), t.pc = "commit", NEW k \in Keys,
         LL!Matching(t.locks, k) # {}, NEW u,
         Deleted(t, u, LL!rm_lock(t.locks, k))
  PROVE  Orderly(t, u) /\ Drops(t, u, k)
<1>0. /\ t.cursor = 0 /\ RowsOnce(t.locks) /\ t.locks \in ListRec
      /\ Counted(t.locks) /\ Blank(t.locks)
  BY DEF Fit, ListKept, ListCounted, TxnRec
<1>1. PICK L : L = LL!rm_lock(t.locks, k)
  OBVIOUS
<1>2. /\ RowsOnce(L)
      /\ \A q \in Keys, ty \in Types :
           Listed(L, 0, q, ty) <=> Listed(t.locks, 0, q, ty) /\ q # k
  BY <1>0, <1>1, RmLock
<1>3. /\ u.locks = L /\ u.cursor = 0 /\ u.commits = t.commits
      /\ u.status = t.status /\ u.pc = "notify"
  BY <1>0, <1>1 DEF Deleted, SameWork
<1>4. Drops(t, u, k)
  BY <1>0, <1>2, <1>3 DEF Drops, Has
<1>5. QueueKept(t, u) /\ StillIn(t, u)
  BY <1>3, QueueSame DEF StillIn
<1>6. ListKept(u)
  BY <1>2, <1>3 DEF ListKept
<1> QED
  BY <1>4, <1>5, <1>6 DEF Orderly

\* and worker_quit passes one lock after the other.
LEMMA ReleaseDrops ==
  ASSUME NEW t \in TxnRec, ListKept(t), t.pc = "quit",
         LL!Remaining(t.locks, t.cursor) # {}, NEW n,
         n = LL!NextValid(t.locks, t.cursor), NEW u, Released(t, u, n + 1)
  PROVE  /\ Orderly(t, u) /\ Drops(t, u, t.locks.locks[n].key)
         /\ t.locks.locks[n].key \in Keys /\ t.locks.locks[n].type \in Types
         /\ Has(t, t.locks.locks[n].key, t.locks.locks[n].type)
<1>0. RowsOnce(t.locks) /\ t.locks \in ListRec /\ t.cursor \in Nat
  BY DEF ListKept, TxnRec
<1>1. /\ n \in LL!Held(t.locks)
      /\ Listed(t.locks, t.cursor, t.locks.locks[n].key, t.locks.locks[n].type)
      /\ \A q \in Keys, ty \in Types :
           Listed(t.locks, n + 1, q, ty) <=>
             Listed(t.locks, t.cursor, q, ty) /\ q # t.locks.locks[n].key
  BY <1>0, NextListed
<1>2. t.locks.locks[n].key \in Keys
  BY <1>0, <1>1 DEF RowsOnce
<1>3. t.locks.locks[n].type \in Types
  BY <1>0, <1>1, HeldFinite DEF ListRec, LockRec
<1>4. /\ u.locks = t.locks /\ u.cursor = n + 1 /\ u.commits = t.commits
      /\ u.status = t.status /\ u.pc = "quit"
  BY DEF Released, SameWork
<1>5. Drops(t, u, t.locks.locks[n].key)
  BY <1>1, <1>4 DEF Drops, Has
<1>6. QueueKept(t, u) /\ StillIn(t, u)
  BY <1>4, QueueSame DEF StillIn
<1>7. ListKept(u)
  BY <1>4 DEF ListKept
<1> QED
  BY <1>1, <1>2, <1>3, <1>5, <1>6, <1>7 DEF Orderly, Has

-----------------------------------------------------------------------------
(* The table and the lists together *)

\* No step at all
LEMMA QuietSelf ==
  ASSUME NEW t, ListKept(t)
  PROVE  Quiet(t, t)
BY QueueSame DEF Quiet, Orderly, StillIn, HasSame

\* Everybody but w is as before.
Others(w) == \A v \in Workers \ {w} : HasSame(txn[v], txn'[v])

\* The parts of the table the lists are about
LEMMA RowKeys ==
  ASSUME LockInv
  PROVE  /\ \A i \in LiveSlots : i \in Slots /\ table[i].key \in Keys
                                   /\ table[i].lock \in Locks
         /\ \A k \in Keys : k \in Int
         /\ table \in [Slots -> Entry] /\ TableTypeOK /\ next_key \in Keys
BY TableAssumption DEF LockInv, TypeInv, TableTypeOK, LiveSlots, Entry, Keys

\* The holders of a row fit into a lock word.
LEMMA HoldersFinite ==
  ASSUME NEW S \in SUBSET Workers
  PROVE  /\ IsFiniteSet(S) /\ Cardinality(S) \in Nat /\ Cardinality(S) <= LkMax
         /\ Cardinality(S) = 0 => S = {}
<1>1. IsFiniteSet(S) /\ Cardinality(S) <= Cardinality(Workers)
  BY FS_Subset, WorkerAssumption
<1>2. Cardinality(S) \in Nat /\ Cardinality(Workers) \in Nat
  BY <1>1, FS_CardinalityType, WorkerAssumption
<1>3. Cardinality(S) = 0 <=> S = {}
  BY <1>1, FS_EmptySet
<1> QED
  BY <1>1, <1>2, <1>3, WorkerAssumption, TableAssumption

\* A step that leaves the lock words and the locks alone.
LEMMA WordsQuiet ==
  ASSUME LockInv, LiveSlots' = LiveSlots,
         \A i \in Slots : /\ table'[i].key = table[i].key
                          /\ table'[i].lock = table[i].lock,
         \A v \in Workers : HasSame(txn[v], txn'[v])
  PROVE  WordsMatch' /\ RecordsLive'
<1>1. \A k \in Keys : Sharers(k)' = Sharers(k) /\ Excluders(k)' = Excluders(k)
  BY DEF Sharers, Excluders, HasSame, Types
<1>2. \A k \in Keys : InTable(k)' <=> InTable(k)
  BY RowKeys DEF InTable
<1>3. WordsMatch'
  <2> SUFFICES ASSUME NEW i \in LiveSlots, NEW k \in Keys, table'[i].key = k
               PROVE  Word(table'[i].lock, Sharers(k)', Excluders(k)')
    BY DEF WordsMatch, Word
  <2>1. i \in Slots /\ table[i].key = k /\ table'[i].lock = table[i].lock
    BY RowKeys
  <2>2. Word(table[i].lock, Sharers(k), Excluders(k))
    BY <2>1 DEF LockInv, WordsMatch
  <2> QED BY <1>1, <2>1, <2>2
<1>4. RecordsLive'
  <2> SUFFICES ASSUME NEW v \in Workers, NEW k \in Keys, NEW type \in Types,
                      Has(txn'[v], k, type)
               PROVE  InTable(k)'
    BY DEF RecordsLive
  <2>1. Has(txn[v], k, type)
    BY DEF HasSame
  <2> QED BY <1>2, <2>1 DEF LockInv, RecordsLive
<1> QED
  BY <1>3, <1>4

\* A step of worker w that sets one lock word, of row k.
LEMMA WordsOne ==
  ASSUME LockInv, LiveSlots' = LiveSlots, NEW i \in LiveSlots,
         NEW k \in Keys, table[i].key = k,
         \A j \in Slots : /\ table'[j].key = table[j].key
                          /\ j # i => table'[j].lock = table[j].lock,
         NEW w \in Workers, Others(w),
         \A q \in Keys, ty \in Types :
            q # k => (Has(txn'[w], q, ty) <=> Has(txn[w], q, ty)),
         Word(table'[i].lock, Sharers(k)', Excluders(k)')
  PROVE  WordsMatch' /\ RecordsLive'
<1>1. \A q \in Keys : q # k => /\ Sharers(q)' = Sharers(q)
                               /\ Excluders(q)' = Excluders(q)
  BY DEF Sharers, Excluders, Others, HasSame, Types
<1>2. \A q \in Keys : InTable(q)' <=> InTable(q)
  BY RowKeys DEF InTable
<1>3. WordsMatch'
  <2> SUFFICES ASSUME NEW j \in LiveSlots, NEW q \in Keys, table'[j].key = q
               PROVE  Word(table'[j].lock, Sharers(q)', Excluders(q)')
    BY DEF WordsMatch, Word
  <2>1. j \in Slots /\ table[j].key = q
    BY RowKeys
  <2>2. CASE j = i
    BY <2>1, <2>2
  <2>3. CASE j # i
    <3>1. q # k
      BY <2>1, <2>3 DEF LockInv, UniqueKeys
    <3>2. Word(table[j].lock, Sharers(q), Excluders(q))
      BY <2>1 DEF LockInv, WordsMatch
    <3> QED BY <1>1, <2>1, <2>3, <3>1, <3>2
  <2> QED BY <2>2, <2>3
<1>4. RecordsLive'
  <2> SUFFICES ASSUME NEW v \in Workers, NEW q \in Keys, NEW type \in Types,
                      Has(txn'[v], q, type)
               PROVE  InTable(q)'
    BY DEF RecordsLive
  <2>1. CASE q = k
    BY <1>2, <2>1 DEF InTable
  <2>2. CASE q # k
    <3>1. Has(txn[v], q, type)
      BY <2>2 DEF Others, HasSame
    <3> QED BY <1>2, <3>1 DEF LockInv, RecordsLive
  <2> QED BY <2>1, <2>2
<1> QED
  BY <1>3, <1>4

\* A row of the table and its word.
LEMMA WordOf ==
  ASSUME LockInv, NEW i \in LiveSlots, NEW k \in Keys, table[i].key = k
  PROVE  /\ Word(table[i].lock, Sharers(k), Excluders(k))
         /\ table[i].lock # -1 => /\ table[i].lock = Cardinality(Sharers(k))
                                  /\ Excluders(k) = {}
BY DEF LockInv, WordsMatch, Word

\* A row that somebody has is where the probe finds it.
LEMMA HasRow ==
  ASSUME LockInv, NEW w \in Workers, NEW k \in Keys, NEW type \in Types,
         Has(txn[w], k, type)
  PROVE  \E i \in LiveSlots : table[i].key = k /\ ~Spins(k) /\ Seek(k) = i
<1>1. PICK i \in LiveSlots : table[i].key = k
  BY DEF LockInv, RecordsLive, InTable
<1>2. ~Spins(table[i].key) /\ Seek(table[i].key) = i
  BY SeekLive, RowKeys DEF LockInv
<1> QED
  BY <1>1, <1>2

\* A list has room for a row it does not have: each of its locks is on a row
\* of the table.
LEMMA ListRoom ==
  ASSUME LockInv, NEW w \in Workers, txn[w].cursor = 0, NEW i \in LiveSlots,
         \A ty \in Types : ~Has(txn[w], table[i].key, ty)
  PROVE  txn[w].locks.size < MaxLocks
<1>1. PICK L \in ListRec : L = txn[w].locks
  BY FitNow DEF LockInv, TxnRec
<1>2. RowsOnce(L) /\ Counted(L)
  BY <1>1, FitNow DEF LockInv, ListKept, Fit, ListCounted
<1>3. \A j \in LL!Held(L) : L.locks[j].key \in Keys /\ L.locks[j].type \in Types
  BY <1>2, HeldFinite DEF RowsOnce, ListRec, LockRec
<1>4. \A j \in LL!Held(L) : Has(txn[w], L.locks[j].key, L.locks[j].type)
  BY <1>1, <1>3, ListedHeld DEF Has
<1>5. \A j \in LL!Held(L) : \E s \in LiveSlots : table[s].key = L.locks[j].key
  BY <1>3, <1>4, HasRow
<1>6. PICK f : f = [j \in LL!Held(L) |->
                      CHOOSE s \in LiveSlots : table[s].key = L.locks[j].key]
  OBVIOUS
<1>7. \A j \in LL!Held(L) : f[j] \in LiveSlots /\ table[f[j]].key = L.locks[j].key
  BY <1>5, <1>6
<1>8. \A j \in LL!Held(L) : f[j] # i
  BY <1>3, <1>4, <1>7
<1>9. f \in Injection(LL!Held(L), Slots \ {i})
  <2>1. f \in [LL!Held(L) -> Slots \ {i}]
    BY <1>6, <1>7, <1>8, RowKeys
  <2>2. \A a, b \in LL!Held(L) : f[a] = f[b] => a = b
    BY <1>2, <1>7 DEF RowsOnce
  <2> QED BY <2>1, <2>2 DEF Injection, IsInjective
<1>10. IsFiniteSet(Slots) /\ Cardinality(Slots) = Rows
  <2>1. Rows \in Nat /\ Rows > 0
    BY TableAssumption
  <2>2. PICK b \in Int : b = Rows - 1
    BY <2>1
  <2>3. 0 \in Int /\ ~(0 > b) /\ b - 0 + 1 = Rows
    BY <2>1, <2>2
  <2>4. IsFiniteSet(0 .. b) /\ Cardinality(0 .. b) = Rows
    BY <2>3, FS_Interval
  <2> QED BY <2>2, <2>4 DEF Slots
<1>11. IsFiniteSet(Slots \ {i}) /\ Cardinality(Slots \ {i}) = Rows - 1
  <2>1. i \in Slots
    BY RowKeys
  <2> QED BY <1>10, <2>1, FS_RemoveElement
<1>12. Cardinality(LL!Held(L)) <= Rows - 1
  BY <1>9, <1>11, FS_Injection
<1> QED
  BY <1>1, <1>2, <1>12, HeldFinite, WorkerAssumption, TableAssumption DEF Counted

\* The new word of a row that is shared once more,
LEMMA SharedWord ==
  ASSUME LockInv, NEW i \in LiveSlots, NEW k \in Keys, table[i].key = k,
         table[i].lock >= 0, NEW w \in Workers, ~Has(txn[w], k, "SHARED"),
         Others(w), Gains(txn[w], txn'[w], k, "SHARED"),
         table'[i].lock = IncLk(table[i].lock)
  PROVE  Word(table'[i].lock, Sharers(k)', Excluders(k)')
<1>1. table[i].lock \in Int /\ table[i].lock # -1
  BY RowKeys, TableAssumption DEF Locks
<1>2. PICK S \in SUBSET Workers : S = Sharers(k)
  BY DEF Sharers
<1>3. table[i].lock = Cardinality(S) /\ Excluders(k) = {}
  BY <1>1, <1>2, WordOf
<1>4. w \notin S
  BY <1>2 DEF Sharers
<1>5. Sharers(k)' = S \cup {w} /\ Excluders(k)' = {}
  BY <1>2, <1>3 DEF Sharers, Excluders, Others, HasSame, Gains, Types
<1>6. Cardinality(S \cup {w}) = Cardinality(S) + 1
  BY <1>4, HoldersFinite, FS_AddElement
<1>7. Cardinality(S \cup {w}) <= LkMax /\ Cardinality(S) \in Nat
  <2>1. S \cup {w} \in SUBSET Workers
    OBVIOUS
  <2> QED BY <2>1, HoldersFinite
<1>8. IncLk(table[i].lock) = Cardinality(S \cup {w})
  BY <1>3, <1>6, <1>7, TableAssumption DEF IncLk
<1> QED
  BY <1>5, <1>8 DEF Word

\* of one that is taken for one worker,
LEMMA ExclusiveWord ==
  ASSUME LockInv, NEW i \in LiveSlots, NEW k \in Keys, table[i].key = k,
         table[i].lock = 0, NEW w \in Workers,
         Others(w), Gains(txn[w], txn'[w], k, "EXCLUSIVE"),
         table'[i].lock = -1
  PROVE  Word(table'[i].lock, Sharers(k)', Excluders(k)')
<1>1. Sharers(k) \in SUBSET Workers
  BY DEF Sharers
<1>2. Sharers(k) = {} /\ Excluders(k) = {}
  BY <1>1, WordOf, HoldersFinite
<1>3. Sharers(k)' = {} /\ Excluders(k)' = {w}
  BY <1>2 DEF Sharers, Excluders, Others, HasSame, Gains, Types
<1> QED
  BY <1>3 DEF Word

\* of one whose only sharer is promoted,
LEMMA PromotedWord ==
  ASSUME LockInv, NEW i \in LiveSlots, NEW k \in Keys, table[i].key = k,
         table[i].lock = 1, NEW w \in Workers, Has(txn[w], k, "SHARED"),
         Others(w), Turns(txn[w], txn'[w], k), table'[i].lock = -1
  PROVE  Word(table'[i].lock, Sharers(k)', Excluders(k)')
<1>1. PICK S \in SUBSET Workers : S = Sharers(k)
  BY DEF Sharers
<1>2. Cardinality(S) = 1 /\ Excluders(k) = {} /\ w \in S
  BY <1>1, WordOf DEF Sharers
<1>3. S = {w}
  <2>1. Cardinality(S \ {w}) = 0
    BY <1>2, HoldersFinite, FS_RemoveElement
  <2>2. S \ {w} = {}
    BY <2>1, HoldersFinite
  <2> QED BY <1>2, <2>2
<1>4. Sharers(k)' = {} /\ Excluders(k)' = {w}
  BY <1>1, <1>2, <1>3 DEF Sharers, Excluders, Others, HasSame, Turns, Types
<1> QED
  BY <1>4 DEF Word

\* and of one that is given back.
LEMMA ReleasedWord ==
  ASSUME LockInv, NEW i \in LiveSlots, NEW k \in Keys, table[i].key = k,
         NEW w \in Workers, NEW type \in Types, Has(txn[w], k, type),
         Others(w), Drops(txn[w], txn'[w], k),
         table'[i].lock = IF table[i].lock = -1 THEN 0 ELSE DecLk(table[i].lock)
  PROVE  Word(table'[i].lock, Sharers(k)', Excluders(k)')
<1>1. PICK S \in SUBSET Workers : S = Sharers(k)
  BY DEF Sharers
<1>2. Sharers(k)' = S \ {w} /\ Excluders(k)' = Excluders(k) \ {w}
  BY <1>1 DEF Sharers, Excluders, Others, HasSame, Drops, Types
<1>3. CASE table[i].lock = -1
  <2>1. S = {} /\ \E v \in Workers : Excluders(k) = {v}
    <3>1. Cardinality(S) \in Nat
      BY HoldersFinite
    <3>2. Word(-1, S, Excluders(k))
      BY <1>1, <1>3, WordOf
    <3> QED BY <3>1, <3>2 DEF Word
  <2>2. w \in Excluders(k)
    BY <1>1, <2>1 DEF Sharers, Excluders, Types
  <2>3. Sharers(k)' = {} /\ Excluders(k)' = {}
    BY <1>2, <2>1, <2>2
  <2>4. table'[i].lock = 0 /\ Cardinality({}) = 0
    BY <1>3, FS_EmptySet
  <2> QED BY <2>3, <2>4 DEF Word
<1>4. CASE table[i].lock # -1
  <2>1. table[i].lock = Cardinality(S) /\ Excluders(k) = {}
    BY <1>1, <1>4, WordOf
  <2>2. w \in S
    BY <1>1, <2>1 DEF Sharers, Excluders, Types
  <2>3. Cardinality(S \ {w}) = Cardinality(S) - 1 /\ Cardinality(S) \in Nat
    BY <2>2, HoldersFinite, FS_RemoveElement
  <2>4. DecLk(table[i].lock) = Cardinality(S \ {w})
    BY <2>1, <2>3, TableAssumption DEF DecLk
  <2>5. Excluders(k)' = {}
    BY <1>2, <2>1
  <2> QED BY <1>2, <1>4, <2>4, <2>5 DEF Word
<1> QED
  BY <1>3, <1>4

\* A new row is nobody's.
LEMMA WordsInsert ==
  ASSUME LockInv, NEW i \in Slots \ LiveSlots, LiveSlots' = LiveSlots \cup {i},
         table'[i].key = next_key, table'[i].lock = 0,
         \A j \in Slots \ {i} : table'[j] = table[j],
         \A v \in Workers : HasSame(txn[v], txn'[v])
  PROVE  /\ WordsMatch' /\ RecordsLive'
         /\ \A k \in Keys : InTable(k)' <=> InTable(k) \/ k = next_key
<1>1. \A k \in Keys : Sharers(k)' = Sharers(k) /\ Excluders(k)' = Excluders(k)
  BY DEF Sharers, Excluders, HasSame, Types
<1>2. \A j \in LiveSlots : j \in Slots /\ j # i /\ table'[j] = table[j]
  BY DEF LiveSlots
<1>3. \A k \in Keys : InTable(k)' <=> InTable(k) \/ k = next_key
  BY <1>2 DEF InTable
<1>4. Sharers(next_key) = {} /\ Excluders(next_key) = {} /\ next_key \in Keys
  <2>1. ~InTable(next_key)
    <3>1. \A j \in LiveSlots : table[j].key < next_key /\ table[j].key \in Int
      BY RowKeys DEF LockInv, KeysBelow
    <3>2. next_key \in Int
      BY RowKeys
    <3> QED BY <3>1, <3>2 DEF InTable
  <2>2. next_key \in Keys
    BY RowKeys
  <2> QED BY <2>1, <2>2 DEF LockInv, RecordsLive, Sharers, Excluders, Types
<1>5. WordsMatch'
  <2> SUFFICES ASSUME NEW j \in LiveSlots', NEW q \in Keys, table'[j].key = q
               PROVE  Word(table'[j].lock, Sharers(q)', Excluders(q)')
    BY DEF WordsMatch, Word
  <2>1. CASE j = i
    <3>1. Sharers(q)' = {} /\ Excluders(q)' = {} /\ table'[j].lock = 0
      BY <1>1, <1>4, <2>1
    <3> QED BY <3>1, FS_EmptySet DEF Word
  <2>2. CASE j # i
    <3>1. j \in LiveSlots /\ table[j].key = q /\ table'[j].lock = table[j].lock
      BY <1>2, <2>2
    <3>2. Word(table[j].lock, Sharers(q), Excluders(q))
      BY <3>1 DEF LockInv, WordsMatch
    <3> QED BY <1>1, <3>1, <3>2
  <2> QED BY <2>1, <2>2
<1>6. RecordsLive'
  <2> SUFFICES ASSUME NEW v \in Workers, NEW q \in Keys, NEW type \in Types,
                      Has(txn'[v], q, type)
               PROVE  InTable(q)'
    BY DEF RecordsLive
  <2>1. Has(txn[v], q, type)
    BY DEF HasSame
  <2> QED BY <1>3, <2>1 DEF LockInv, RecordsLive
<1> QED
  BY <1>3, <1>5, <1>6

\* A row is removed by the only worker that has it.
LEMMA WordsRemove ==
  ASSUME LockInv, NEW i \in LiveSlots, NEW k \in Keys, table[i].key = k,
         LiveSlots' = LiveSlots \ {i},
         \A j \in Slots : /\ table'[j].key = table[j].key
                          /\ table'[j].lock = table[j].lock,
         NEW w \in Workers, Has(txn[w], k, "EXCLUSIVE"), Others(w),
         Drops(txn[w], txn'[w], k)
  PROVE  /\ WordsMatch' /\ RecordsLive'
         /\ \A q \in Keys : InTable(q)' <=> InTable(q) /\ q # k
<1>1. \A q \in Keys : q # k => /\ Sharers(q)' = Sharers(q)
                               /\ Excluders(q)' = Excluders(q)
  BY DEF Sharers, Excluders, Others, HasSame, Drops, Types
<1>2. \A j \in LiveSlots : j \in Slots /\ (j # i => table[j].key # k)
  BY RowKeys DEF LockInv, UniqueKeys
<1>3. \A q \in Keys : InTable(q)' <=> InTable(q) /\ q # k
  BY <1>2 DEF InTable
<1>4. Sharers(k) = {} /\ Excluders(k) = {w}
  <2>1. w \in Excluders(k)
    BY DEF Excluders
  <2>2. Word(table[i].lock, Sharers(k), Excluders(k))
    BY WordOf
  <2> QED BY <2>1, <2>2 DEF Word
<1>5. WordsMatch'
  <2> SUFFICES ASSUME NEW j \in LiveSlots', NEW q \in Keys, table'[j].key = q
               PROVE  Word(table'[j].lock, Sharers(q)', Excluders(q)')
    BY DEF WordsMatch, Word
  <2>1. /\ j \in LiveSlots /\ j # i /\ table[j].key = q /\ q # k
        /\ table'[j].lock = table[j].lock
    BY <1>2
  <2>2. Word(table[j].lock, Sharers(q), Excluders(q))
    BY <2>1 DEF LockInv, WordsMatch
  <2> QED BY <1>1, <2>1, <2>2
<1>6. RecordsLive'
  <2> SUFFICES ASSUME NEW v \in Workers, NEW q \in Keys, NEW type \in Types,
                      Has(txn'[v], q, type)
               PROVE  InTable(q)'
    BY DEF RecordsLive
  <2>1. CASE v = w
    <3>1. Has(txn[v], q, type) /\ q # k
      BY <2>1 DEF Drops
    <3> QED BY <1>3, <3>1 DEF LockInv, RecordsLive
  <2>2. CASE v # w
    <3>1. Has(txn[v], q, type)
      BY <2>2 DEF Others, HasSame
    <3>2. q # k
      BY <1>4, <2>2, <3>1 DEF Sharers, Excluders, Types
    <3> QED BY <1>3, <3>1, <3>2 DEF LockInv, RecordsLive
  <2> QED BY <2>1, <2>2
<1> QED
  BY <1>3, <1>5, <1>6

\* Queued changes stay locked, and what is deleted does not come back.
LEMMA ChangesStep ==
  ASSUME LockInv, \A v \in Workers : Orderly(txn[v], txn'[v]),
         \A v \in Workers, k \in Keys :
            Has(txn[v], k, "EXCLUSIVE") =>
              \/ Has(txn'[v], k, "EXCLUSIVE") \/ ~InTable(k)'
              \/ txn'[v].pc \in {"quit", "dead"},
         \A k \in Keys : k < next_key /\ ~InTable(k) => ~InTable(k)',
         next_key' \in Int, next_key <= next_key'
  PROVE  ChangesLocked'
<1> SUFFICES ASSUME NEW v \in Workers, NEW k \in Keys,
                    txn'[v].pc \notin {"quit", "dead"}, Queues(txn'[v], k)
             PROVE  /\ k < next_key'
                    /\ Has(txn'[v], k, "EXCLUSIVE") \/ ~InTable(k)'
  BY DEF ChangesLocked
<1>1. txn[v].pc \notin {"quit", "dead"} /\ QueueKept(txn[v], txn'[v])
  BY DEF Orderly, StillIn
<1>2. k \in Int /\ next_key \in Int
  BY RowKeys
<1>3. k < next_key /\ (Has(txn[v], k, "EXCLUSIVE") \/ ~InTable(k))
  <2>1. CASE Queues(txn[v], k)
    BY <1>1, <2>1 DEF LockInv, ChangesLocked
  <2>2. CASE Has(txn[v], k, "EXCLUSIVE")
    <3>1. PICK i \in LiveSlots : table[i].key = k
      BY <2>2, HasRow DEF Types
    <3> QED BY <2>2, <3>1 DEF LockInv, KeysBelow
  <2> QED BY <1>1, <2>1, <2>2 DEF QueueKept
<1>4. k < next_key'
  BY <1>2, <1>3
<1> QED
  BY <1>3, <1>4

\* A step that keeps the rows where they are.
LEMMA LockStep ==
  ASSUME LockInv, TypeInv', LiveSlots' = LiveSlots,
         \A j \in Slots : table'[j].key = table[j].key,
         UniqueKeys', ProbePath', next_key' = next_key,
         \A v \in Workers : Orderly(txn[v], txn'[v]),
         \A v \in Workers, k \in Keys :
            Has(txn[v], k, "EXCLUSIVE") =>
              Has(txn'[v], k, "EXCLUSIVE") \/ txn'[v].pc \in {"quit", "dead"},
         WordsMatch', RecordsLive'
  PROVE  LockInv'
<1>1. \A k \in Keys : InTable(k)' <=> InTable(k)
  BY RowKeys DEF InTable
<1>2. KeysBelow'
  BY RowKeys DEF LockInv, KeysBelow
<1>3. next_key' \in Int /\ next_key <= next_key'
  BY RowKeys
<1>4. ChangesLocked'
  BY <1>1, <1>3, ChangesStep
<1>5. (\A w \in Workers : ListKept(txn[w]))'
  BY DEF Orderly
<1> QED
  BY <1>2, <1>4, <1>5 DEF LockInv

\* A step without an effect on rows, lock words and locks.
LEMMA LockQuiet ==
  ASSUME LockInv, TypeInv', UNCHANGED tableVars,
         \A v \in Workers : Quiet(txn[v], txn'[v])
  PROVE  LockInv'
<1>1. /\ LiveSlots' = LiveSlots /\ UniqueKeys' /\ ProbePath'
      /\ next_key' = next_key /\ table' = table
  BY DEF tableVars, LockInv, LiveSlots, Live, UniqueKeys, ProbePath, Dist, Home
<1>2. \A v \in Workers : /\ Orderly(txn[v], txn'[v])
                          /\ HasSame(txn[v], txn'[v])
  BY DEF Quiet
<1>3. WordsMatch' /\ RecordsLive'
  BY <1>1, <1>2, WordsQuiet
<1>4. \A v \in Workers, k \in Keys :
         Has(txn[v], k, "EXCLUSIVE") => Has(txn'[v], k, "EXCLUSIVE")
  BY <1>2 DEF HasSame, Types
<1> QED
  BY <1>1, <1>2, <1>3, <1>4, LockStep

\* A step of w alone that leaves its locks as they are
LEMMA LockQuietOne ==
  ASSUME LockInv, TypeInv', UNCHANGED tableVars, NEW w \in Workers, Only(w),
         Quiet(txn[w], txn'[w])
  PROVE  LockInv'
<1>1. \A v \in Workers : Quiet(txn[v], txn'[v])
  <2>1. \A v \in Workers \ {w} : txn'[v] = txn[v] /\ ListKept(txn[v])
    BY DEF LockInv, Only
  <2> QED BY <2>1, QuietSelf
<1> QED
  BY <1>1, LockQuiet

\* Only w moves: the others are orderly and keep their locks.
LEMMA OthersStay ==
  ASSUME LockInv, NEW w \in Workers, Only(w)
  PROVE  /\ Others(w)
         /\ \A v \in Workers \ {w} : /\ Orderly(txn[v], txn'[v])
                                      /\ txn'[v] = txn[v]
<1>1. \A v \in Workers \ {w} : txn'[v] = txn[v] /\ ListKept(txn[v])
  BY DEF LockInv, Only
<1> QED
  BY <1>1, QuietSelf DEF Others, Quiet

\* Nobody is caught in a loop of the table outside a commit: the rows that
\* a worker gives back or promotes are rows it has.
LEMMA SpinInCommit ==
  ASSUME LockInv, NEW w \in Workers, TableSpin(w)
  PROVE  txn[w].pc = "commit"
<1>0. PICK k \in KeysSought(w) : Spins(k)
  BY DEF TableSpin
<1>1. PICK t \in TxnRec : t = txn[w]
  BY FitNow DEF LockInv
<1>2. Fit(t) /\ ListKept(t)
  BY <1>1, FitNow DEF LockInv
<1>3. ASSUME NEW q \in Keys, NEW type \in Types, Has(t, q, type) PROVE ~Spins(q)
  BY <1>1, <1>3, HasRow
<1>4. CASE t.pc = "yield"
  <2>0. KeysSought(w) = {t.job.key}
    BY <1>1, <1>4 DEF KeysSought, At, Waits, Commits
  <2>1. k = t.job.key /\ t.job.key \in Keys
    BY <1>0, <1>2, <1>4, <2>0 DEF ListKept
  <2>2. Has(t, k, "SHARED")
    BY <1>4, <2>1 DEF Has
  <2> QED BY <1>0, <1>3, <2>1, <2>2 DEF Types
<1>5. CASE t.pc = "wait"
  <2>1. t.job.op = "PROMOTE" /\ k = t.job.key
    BY <1>0, <1>1, <1>5 DEF KeysSought, Waits, At, Commits
  <2>2. k \in Keys /\ LL!get_lock(t.locks, k) = "SHARED"
    BY <1>2, <1>5, <2>1, LimitsFields DEF Fit
  <2>3. Listed(t.locks, 0, k, "SHARED") /\ t.cursor = 0
    BY <1>2, <1>5, <2>2, GetLock DEF Types, ListKept
  <2>4. Has(t, k, "SHARED")
    BY <2>3 DEF Has
  <2> QED BY <1>0, <1>3, <2>2, <2>4 DEF Types
<1>6. CASE t.pc = "quit"
  <2>1. PICK n : n = NextLock(w)
    OBVIOUS
  <2>2. LL!Remaining(t.locks, t.cursor) # {} /\ k = t.locks.locks[n].key
    BY <1>0, <1>1, <1>6, <2>1 DEF KeysSought, Waits, At, Commits, ToRelease
  <2>3. n = LL!NextValid(t.locks, t.cursor)
    BY <1>1, <2>1 DEF NextLock
  <2>4. n \in LL!Held(t.locks) /\ Listed(t.locks, t.cursor, k, t.locks.locks[n].type)
    BY <2>2, <2>3, NextListed DEF TxnRec
  <2>5. k \in Keys /\ t.locks.locks[n].type \in Types
    BY <1>2, <2>2, <2>4, HeldFinite DEF ListKept, RowsOnce, TxnRec, ListRec, LockRec
  <2>6. Has(t, k, t.locks.locks[n].type)
    BY <2>4 DEF Has
  <2> QED BY <1>0, <1>3, <2>5, <2>6
<1>7. t.pc \in {"yield", "wait", "quit", "commit"}
  BY <1>0, <1>1 DEF KeysSought, Waits, At, Commits
<1> QED
  BY <1>1, <1>4, <1>5, <1>6, <1>7

\* A granted shared lock is recorded: the list has room, and did not have
\* the row.
LEMMA LockShared ==
  ASSUME LockInv, TypeInv', NEW w \in Workers, GrantShared(w)
  PROVE  LockInv' /\ ~Doubled(w)
<1>0. TypeInv
  BY DEF LockInv
<1>1. PICK t \in TxnRec : t = txn[w]
  BY <1>0, FitNow
<1>2. PICK u : u = txn'[w]
  OBVIOUS
<1>3. Shareable # {}
  BY DEF GrantShared, wait_shared
<1>4. PICK i \in LiveSlots : i = SharedGrant /\ table[i].lock >= 0
  <2>1. SharedGrant \in Shareable
    BY <1>3, GrantIsFree
  <2> QED BY <2>1 DEF Shareable, LiveSlots
<1>5. PICK k \in Keys : k = table[i].key
  BY RowKeys
<1>6. PICK r : r = LL!add_lock(t.locks, k, "SHARED")
  OBVIOUS
<1>7. /\ Only(w) /\ t.pc = "wait" /\ t.job.op = "SHARED_READ"
      /\ Granted(t, u, r.list)
  BY <1>0, <1>1, <1>2, <1>4, <1>5, <1>6, SharedAct
<1>8. Fit(t) /\ ListKept(t)
  BY <1>0, <1>1, FitNow DEF LockInv
<1>9. t.cursor = 0 /\ ~Has(t, k, "SHARED")
  <2>1. t.cursor = 0 /\ ~Listed(t.locks, 0, k, "SHARED")
    BY <1>7, <1>8 DEF ListKept
  <2> QED BY <1>7, <2>1 DEF Has
<1>10. ~Has(t, k, "EXCLUSIVE")
  <2>1. table[i].lock # -1
    BY <1>4
  <2>2. Excluders(k) = {}
    BY <1>5, <2>1, WordOf
  <2> QED BY <1>1, <2>2 DEF Excluders
<1>11. \A ty \in Types : ~Has(t, k, ty)
  BY <1>9, <1>10 DEF Types
<1>12. t.locks.size < MaxLocks
  BY <1>1, <1>5, <1>9, <1>11, ListRoom
<1>13. Orderly(t, u) /\ Gains(t, u, k, "SHARED")
  BY <1>6, <1>7, <1>8, <1>11, <1>12, GrantGains DEF Types
<1>14. ~Doubled(w)
  <2>1. \A ty \in Types : ~Listed(t.locks, 0, k, ty)
    BY <1>9, <1>11 DEF Has
  <2>2. t.locks \in ListRec /\ Counted(t.locks)
    BY <1>8 DEF Fit, ListCounted, TxnRec
  <2>3. r.error = "None"
    BY <1>6, <1>12, <2>1, <2>2, AddLock DEF Types
  <2> QED BY <1>1, <1>4, <1>5, <1>6, <2>3 DEF Doubled
<1>15. PICK l \in Locks : l = IncLk(table[i].lock)
  BY RowKeys, WidthKept
<1>16. table' = [table EXCEPT ![i].lock = l] /\ next_key' = next_key
  <2>1. table' = [table EXCEPT ![i].lock = IncLk(table[i].lock)]
    BY <1>4, RowKeys DEF GrantShared, wait_shared
  <2> QED BY <1>15, <2>1 DEF GrantShared, wait_shared
<1>17. /\ UniqueKeys' /\ ProbePath' /\ LiveSlots' = LiveSlots
       /\ \A j \in Slots : table'[j].key = table[j].key
       /\ \A j \in Slots \ {i} : table'[j].lock = table[j].lock
       /\ table'[i].lock = l
  BY <1>16, RowKeys, WordStep DEF LockInv
<1>18. Others(w) /\ \A v \in Workers \ {w} : /\ Orderly(txn[v], txn'[v])
                                             /\ txn'[v] = txn[v]
  BY <1>7, OthersStay
<1>19. Word(table'[i].lock, Sharers(k)', Excluders(k)')
  BY <1>1, <1>2, <1>4, <1>5, <1>9, <1>13, <1>15, <1>17, <1>18, SharedWord
<1>20. WordsMatch' /\ RecordsLive'
  <2>1. \A q \in Keys, ty \in Types :
            q # k => (Has(txn'[w], q, ty) <=> Has(txn[w], q, ty))
    BY <1>1, <1>2, <1>13 DEF Gains
  <2> QED BY <1>5, <1>17, <1>18, <1>19, <2>1, WordsOne
<1>21. \A v \in Workers, q \in Keys :
            Has(txn[v], q, "EXCLUSIVE") => Has(txn'[v], q, "EXCLUSIVE")
  BY <1>1, <1>2, <1>13, <1>18 DEF Gains, Types
<1>22. \A v \in Workers : Orderly(txn[v], txn'[v])
  BY <1>1, <1>2, <1>13, <1>18
<1>23. LockInv'
  BY <1>16, <1>17, <1>20, <1>21, <1>22, LockStep
<1> QED
  BY <1>14, <1>23

\* So is a granted exclusive lock: nobody had the row.
LEMMA LockExclusive ==
  ASSUME LockInv, TypeInv', NEW w \in Workers, GrantExclusive(w)
  PROVE  LockInv'
<1>0. TypeInv
  BY DEF LockInv
<1>1. PICK t \in TxnRec : t = txn[w]
  BY <1>0, FitNow
<1>2. PICK u : u = txn'[w]
  OBVIOUS
<1>3. Excludable # {}
  BY DEF GrantExclusive, wait_exclusive
<1>4. PICK i \in LiveSlots : i = ExclusiveGrant /\ table[i].lock = 0
  <2>1. ExclusiveGrant \in Excludable
    BY <1>3, GrantIsFree
  <2> QED BY <2>1 DEF Excludable, LiveSlots
<1>5. PICK k \in Keys : k = table[i].key
  BY RowKeys
<1>6. PICK r : r = LL!add_lock(t.locks, k, "EXCLUSIVE")
  OBVIOUS
<1>7. Only(w) /\ t.pc = "wait" /\ Granted(t, u, r.list)
  BY <1>0, <1>1, <1>2, <1>4, <1>5, <1>6, ExclusiveAct
<1>8. Fit(t) /\ ListKept(t)
  BY <1>0, <1>1, FitNow DEF LockInv
<1>9. t.cursor = 0
  BY <1>7, <1>8 DEF ListKept
<1>10. \A ty \in Types : ~Has(t, k, ty)
  <2>1. table[i].lock = Cardinality(Sharers(k)) /\ Excluders(k) = {}
    BY <1>4, <1>5, WordOf
  <2>2. Sharers(k) \in SUBSET Workers
    BY DEF Sharers
  <2>3. Sharers(k) = {}
    BY <1>4, <2>1, <2>2, HoldersFinite
  <2> QED BY <1>1, <2>1, <2>3 DEF Sharers, Excluders, Types
<1>11. t.locks.size < MaxLocks
  BY <1>1, <1>5, <1>9, <1>10, ListRoom
<1>12. Orderly(t, u) /\ Gains(t, u, k, "EXCLUSIVE")
  BY <1>6, <1>7, <1>8, <1>10, <1>11, GrantGains DEF Types
<1>13. PICK l \in Locks : l = -1
  BY WidthKept
<1>14. table' = [table EXCEPT ![i].lock = l] /\ next_key' = next_key
  BY <1>4, <1>13 DEF GrantExclusive, wait_exclusive
<1>15. /\ UniqueKeys' /\ ProbePath' /\ LiveSlots' = LiveSlots
       /\ \A j \in Slots : table'[j].key = table[j].key
       /\ \A j \in Slots \ {i} : table'[j].lock = table[j].lock
       /\ table'[i].lock = l
  BY <1>14, RowKeys, WordStep DEF LockInv
<1>16. Others(w) /\ \A v \in Workers \ {w} : /\ Orderly(txn[v], txn'[v])
                                             /\ txn'[v] = txn[v]
  BY <1>7, OthersStay
<1>17. Word(table'[i].lock, Sharers(k)', Excluders(k)')
  BY <1>1, <1>2, <1>4, <1>5, <1>12, <1>13, <1>15, <1>16, ExclusiveWord
<1>18. WordsMatch' /\ RecordsLive'
  <2>1. \A q \in Keys, ty \in Types :
            q # k => (Has(txn'[w], q, ty) <=> Has(txn[w], q, ty))
    BY <1>1, <1>2, <1>12 DEF Gains
  <2> QED BY <1>5, <1>15, <1>16, <1>17, <2>1, WordsOne
<1>19. \A v \in Workers, q \in Keys :
            Has(txn[v], q, "EXCLUSIVE") => Has(txn'[v], q, "EXCLUSIVE")
  BY <1>1, <1>2, <1>12, <1>16 DEF Gains, Types
<1>20. \A v \in Workers : Orderly(txn[v], txn'[v])
  BY <1>1, <1>2, <1>12, <1>16
<1> QED
  BY <1>14, <1>15, <1>18, <1>19, <1>20, LockStep

\* A promotion has waited until its own lock was the only one.
LEMMA LockPromote ==
  ASSUME LockInv, TypeInv', NEW w \in Workers, GrantPromote(w)
  PROVE  LockInv'
<1>0. TypeInv
  BY DEF LockInv
<1>1. PICK t \in TxnRec : t = txn[w]
  BY <1>0, FitNow
<1>2. PICK u : u = txn'[w]
  OBVIOUS
<1>3. PICK k : k = t.job.key
  OBVIOUS
<1>4. /\ Only(w) /\ t.pc = "wait" /\ k \in Keys
      /\ LL!get_lock(t.locks, k) = "SHARED"
      /\ Granted(t, u, LL!promote_lock(t.locks, k))
  BY <1>0, <1>1, <1>2, <1>3, PromoteAct
<1>5. Fit(t) /\ ListKept(t)
  BY <1>0, <1>1, FitNow DEF LockInv
<1>6. Orderly(t, u) /\ Turns(t, u, k) /\ Has(t, k, "SHARED")
  BY <1>4, <1>5, PromoteTurns
<1>7. PICK i \in LiveSlots : table[i].key = k /\ Seek(k) = i
  BY <1>1, <1>4, <1>6, HasRow DEF Types
<1>8. PICK l \in Locks : l = -1
  BY WidthKept
<1>9. /\ table' = [table EXCEPT ![i].lock = l] /\ next_key' = next_key
      /\ table[i].lock = 1
  BY <1>1, <1>3, <1>7, <1>8 DEF GrantPromote, promote
<1>10. /\ UniqueKeys' /\ ProbePath' /\ LiveSlots' = LiveSlots
       /\ \A j \in Slots : table'[j].key = table[j].key
       /\ \A j \in Slots \ {i} : table'[j].lock = table[j].lock
       /\ table'[i].lock = l
  BY <1>9, RowKeys, WordStep DEF LockInv
<1>11. Others(w) /\ \A v \in Workers \ {w} : /\ Orderly(txn[v], txn'[v])
                                             /\ txn'[v] = txn[v]
  BY <1>4, OthersStay
<1>12. Word(table'[i].lock, Sharers(k)', Excluders(k)')
  BY <1>1, <1>2, <1>4, <1>6, <1>7, <1>8, <1>9, <1>10, <1>11, PromotedWord
<1>13. WordsMatch' /\ RecordsLive'
  <2>1. \A q \in Keys, ty \in Types :
            q # k => (Has(txn'[w], q, ty) <=> Has(txn[w], q, ty))
    BY <1>1, <1>2, <1>6 DEF Turns
  <2> QED BY <1>4, <1>7, <1>10, <1>11, <1>12, <2>1, WordsOne
<1>14. \A v \in Workers, q \in Keys :
            Has(txn[v], q, "EXCLUSIVE") => Has(txn'[v], q, "EXCLUSIVE")
  BY <1>1, <1>2, <1>6, <1>11 DEF Turns, Types
<1>15. \A v \in Workers : Orderly(txn[v], txn'[v])
  BY <1>1, <1>2, <1>6, <1>11
<1> QED
  BY <1>9, <1>10, <1>13, <1>14, <1>15, LockStep

\* A row is given back by a worker that has it.
LEMMA LockGiveBack ==
  ASSUME LockInv, TypeInv', NEW w \in Workers, Only(w), NEW k \in Keys,
         NEW type \in Types, Has(txn[w], k, type), release(k),
         Orderly(txn[w], txn'[w]), Drops(txn[w], txn'[w], k),
         type = "SHARED" \/ txn'[w].pc = "quit"
  PROVE  LockInv'
<1>1. PICK i \in LiveSlots : table[i].key = k /\ Seek(k) = i
  BY HasRow
<1>2. PICK l \in Locks : l = IF table[i].lock = -1 THEN 0
                             ELSE DecLk(table[i].lock)
  BY RowKeys, WidthKept
<1>3. table' = [table EXCEPT ![i].lock = l] /\ next_key' = next_key
  BY <1>1, <1>2 DEF release
<1>4. /\ UniqueKeys' /\ ProbePath' /\ LiveSlots' = LiveSlots
      /\ \A j \in Slots : table'[j].key = table[j].key
      /\ \A j \in Slots \ {i} : table'[j].lock = table[j].lock
      /\ table'[i].lock = l
  BY <1>3, RowKeys, WordStep DEF LockInv
<1>5. Others(w) /\ \A v \in Workers \ {w} : /\ Orderly(txn[v], txn'[v])
                                            /\ txn'[v] = txn[v]
  BY OthersStay
<1>6. Word(table'[i].lock, Sharers(k)', Excluders(k)')
  BY <1>1, <1>2, <1>4, <1>5, ReleasedWord
<1>7. WordsMatch' /\ RecordsLive'
  <2>1. \A q \in Keys, ty \in Types :
            q # k => (Has(txn'[w], q, ty) <=> Has(txn[w], q, ty))
    BY DEF Drops
  <2> QED BY <1>1, <1>4, <1>5, <1>6, <2>1, WordsOne
<1>8. \A v \in Workers, q \in Keys :
         Has(txn[v], q, "EXCLUSIVE") =>
           Has(txn'[v], q, "EXCLUSIVE") \/ txn'[v].pc \in {"quit", "dead"}
  <2>1. CASE txn'[w].pc = "quit"
    BY <1>5, <2>1
  <2>2. CASE type = "SHARED"
    <3>1. w \in Sharers(k)
      BY <2>2 DEF Sharers
    <3>2. Excluders(k) = {}
      BY <1>1, <3>1, WordOf DEF Word
    <3>3. ~Has(txn[w], k, "EXCLUSIVE")
      BY <3>2 DEF Excluders
    <3>4. \A q \in Keys : Has(txn[w], q, "EXCLUSIVE") => Has(txn'[w], q, "EXCLUSIVE")
      BY <3>3 DEF Drops, Types
    <3> QED BY <1>5, <3>4
  <2> QED BY <2>1, <2>2
<1>9. \A v \in Workers : Orderly(txn[v], txn'[v])
  BY <1>5
<1> QED
  BY <1>3, <1>4, <1>7, <1>8, <1>9, LockStep

\* YIELD gives back its shared lock,
LEMMA LockYield ==
  ASSUME LockInv, TypeInv', NEW w \in Workers, Yield(w)
  PROVE  LockInv'
<1>0. TypeInv
  BY DEF LockInv
<1>1. PICK t \in TxnRec : t = txn[w]
  BY <1>0, FitNow
<1>2. PICK k : k = t.job.key
  OBVIOUS
<1>3. Only(w) /\ t.pc = "yield" /\ Replied(t, txn'[w])
  BY <1>0, <1>1, YieldAct
<1>4. ListKept(t)
  BY <1>1 DEF LockInv
<1>5. k \in Keys /\ Has(t, k, "SHARED")
  BY <1>2, <1>3, <1>4 DEF ListKept, Has
<1>6. Orderly(t, txn'[w]) /\ Drops(t, txn'[w], k)
  BY <1>2, <1>3, <1>4, YieldDrops
<1>7. release(k)
  BY <1>1, <1>2 DEF Yield
<1> QED
  BY <1>1, <1>3, <1>5, <1>6, <1>7, LockGiveBack DEF Types

\* worker_quit any lock, with the worker's queue forgotten.
LEMMA LockRelease ==
  ASSUME LockInv, TypeInv', NEW w \in Workers, ReleaseLock(w)
  PROVE  LockInv'
<1>0. TypeInv
  BY DEF LockInv
<1>1. PICK t \in TxnRec : t = txn[w]
  BY <1>0, FitNow
<1>2. PICK n : n = NextLock(w)
  OBVIOUS
<1>3. /\ Only(w) /\ t.pc = "quit" /\ LL!Remaining(t.locks, t.cursor) # {}
      /\ Released(t, txn'[w], n + 1)
  BY <1>0, <1>1, <1>2, ReleaseAct
<1>4. ListKept(t) /\ n = LL!NextValid(t.locks, t.cursor)
  BY <1>1, <1>2 DEF LockInv, NextLock
<1>5. PICK k : k = t.locks.locks[n].key
  OBVIOUS
<1>6. /\ Orderly(t, txn'[w]) /\ Drops(t, txn'[w], k)
      /\ k \in Keys /\ t.locks.locks[n].type \in Types
      /\ Has(t, k, t.locks.locks[n].type)
  BY <1>3, <1>4, <1>5, ReleaseDrops
<1>7. release(k) /\ txn'[w].pc = "quit"
  BY <1>1, <1>2, <1>3, <1>5 DEF ReleaseLock, Released
<1> QED
  BY <1>1, <1>3, <1>6, <1>7, LockGiveBack

\* A new row gets a key that no row had before.
LEMMA LockInsert ==
  ASSUME LockInv, TypeInv', KeysLeft, NEW w \in Workers, CommitAdd(w)
  PROVE  LockInv'
<1>0. TypeInv
  BY DEF LockInv
<1>1. PICK t \in TxnRec : t = txn[w]
  BY <1>0, FitNow
<1>2. /\ Only(w) /\ t.pc = "commit" /\ t.commits # <<>> /\ Made(t, txn'[w])
  BY <1>0, <1>1, MadeAct
<1>3. ListKept(t)
  BY <1>1 DEF LockInv
<1>4. Quiet(t, txn'[w])
  BY <1>2, <1>3, MadeQuiet
<1>5. Others(w) /\ \A v \in Workers \ {w} : Orderly(txn[v], txn'[v])
  BY <1>2, OthersStay
<1>6. \A v \in Workers : Orderly(txn[v], txn'[v]) /\ HasSame(txn[v], txn'[v])
  BY <1>1, <1>4, <1>5 DEF Quiet, Others
<1>7. PICK d \in Data : d = Front(w).data
  BY <1>0, <1>1, <1>2, FrontTyped DEF ChangeRec
<1>8. insert(d)
  BY <1>7 DEF CommitAdd
<1>9. next_key \in Keys /\ next_key' = next_key + 1 /\ \A k \in Keys : k \in Int
  BY <1>8, RowKeys DEF insert, IncRow, KeysLeft
<1>10. PICK i \in Slots \ LiveSlots :
         /\ LiveSlots' = LiveSlots \cup {i}
         /\ table'[i].key = next_key /\ table'[i].lock = 0
         /\ \A j \in Slots \ {i} : table'[j] = table[j]
         /\ UniqueKeys' /\ ProbePath'
  BY <1>8, RowKeys, InsertEffect DEF LockInv, KeysBelow
<1>11. /\ WordsMatch' /\ RecordsLive'
       /\ \A k \in Keys : InTable(k)' <=> InTable(k) \/ k = next_key
  BY <1>6, <1>10, WordsInsert
<1>12. ChangesLocked'
  <2>1. \A v \in Workers, k \in Keys :
           Has(txn[v], k, "EXCLUSIVE") => Has(txn'[v], k, "EXCLUSIVE")
    BY <1>6 DEF HasSame, Types
  <2>2. \A k \in Keys : k < next_key /\ ~InTable(k) => ~InTable(k)'
    BY <1>9, <1>11
  <2>3. next_key' \in Int /\ next_key <= next_key'
    BY <1>9
  <2> QED BY <1>6, <2>1, <2>2, <2>3, ChangesStep
<1>13. KeysBelow'
  <2>1. \A j \in LiveSlots : table'[j] = table[j]
    BY <1>10, RowKeys
  <2>2. \A j \in LiveSlots : table'[j].key \in Int /\ table'[j].key < next_key
    BY <1>9, <2>1, RowKeys DEF LockInv, KeysBelow
  <2> QED BY <1>9, <1>10, <2>2 DEF KeysBelow
<1>14. \A v \in Workers : ListKept(txn'[v])
  BY <1>6 DEF Orderly
<1> QED
  BY <1>10, <1>11, <1>12, <1>13, <1>14 DEF LockInv

\* A row is removed by the worker that has it for itself: what its list
\* matches is a lock, the row of a lock is in the table, and a queued change
\* of such a row is locked exclusively.
LEMMA RemoveLocked ==
  ASSUME LockInv, NEW w \in Workers, CommitDelete(w)
  PROVE  Front(w).key \in Keys /\ Has(txn[w], Front(w).key, "EXCLUSIVE")
<1>0. TypeInv
  BY DEF LockInv
<1>1. PICK t \in TxnRec : t = txn[w]
  BY <1>0, FitNow
<1>2. PICK k : k = Front(w).key
  OBVIOUS
<1>3. /\ t.pc = "commit" /\ t.commits # <<>> /\ Front(w).op = "DELETE"
      /\ k \in Keys /\ LL!Matching(t.locks, k) # {}
  BY <1>0, <1>1, <1>2, DeleteAct
<1>4. Fit(t) /\ ListKept(t)
  BY <1>0, <1>1, FitNow DEF LockInv
<1>5. PICK n \in LL!Entries : t.locks.locks[n].key = k /\ ~t.locks.locks[n].deleted
  BY <1>3 DEF LL!Matching
<1>6. n \in LL!Held(t.locks)
  <2>1. k # LL!NoKey
    BY <1>3, TableAssumption DEF Keys, LL!NoKey
  <2>2. Blank(t.locks)
    BY <1>3, <1>4 DEF Fit, ListCounted
  <2> QED BY <1>5, <2>1, <2>2 DEF Blank, LL!Held
<1>7. Has(t, k, t.locks.locks[n].type) /\ t.locks.locks[n].type \in Types
  <2>1. t.cursor = 0
    BY <1>3, <1>4 DEF ListKept
  <2>2. Listed(t.locks, 0, k, t.locks.locks[n].type)
    BY <1>5, <1>6, ListedHeld
  <2>3. t.locks.locks[n].type \in Types
    BY <1>5 DEF TxnRec, ListRec, LockRec
  <2> QED BY <2>1, <2>2, <2>3 DEF Has
<1>8. InTable(k)
  BY <1>1, <1>3, <1>7 DEF LockInv, RecordsLive
<1>9. Queues(t, k)
  BY <1>0, <1>1, <1>2, <1>3, FrontTyped DEF Queues
<1>10. Has(t, k, "EXCLUSIVE")
  BY <1>1, <1>3, <1>8, <1>9 DEF LockInv, ChangesLocked
<1> QED
  BY <1>1, <1>2, <1>3, <1>10

\* DELETE takes the row out of the table and its lock out of the list.
LEMMA LockRemove ==
  ASSUME LockInv, TypeInv', NEW w \in Workers, CommitDelete(w)
  PROVE  LockInv'
<1>0. TypeInv
  BY DEF LockInv
<1>1. PICK t \in TxnRec : t = txn[w]
  BY <1>0, FitNow
<1>2. PICK k : k = Front(w).key
  OBVIOUS
<1>3. /\ Only(w) /\ t.pc = "commit" /\ k \in Keys
      /\ LL!Matching(t.locks, k) # {}
      /\ Deleted(t, txn'[w], LL!rm_lock(t.locks, k))
  BY <1>0, <1>1, <1>2, DeleteAct
<1>4. Fit(t) /\ ListKept(t)
  BY <1>0, <1>1, FitNow DEF LockInv
<1>5. Has(t, k, "EXCLUSIVE")
  BY <1>1, <1>2, RemoveLocked
<1>6. Orderly(t, txn'[w]) /\ Drops(t, txn'[w], k)
  BY <1>3, <1>4, DeleteDrops
<1>7. Others(w) /\ \A v \in Workers \ {w} : /\ Orderly(txn[v], txn'[v])
                                            /\ txn'[v] = txn[v]
  BY <1>3, OthersStay
<1>8. PICK i \in LiveSlots : table[i].key = k /\ Seek(k) = i
  BY <1>1, <1>3, <1>5, HasRow DEF Types
<1>9. table' = [table EXCEPT ![i].deleted = TRUE] /\ next_key' = next_key
  BY <1>2, <1>8 DEF CommitDelete, remove
<1>10. /\ UniqueKeys' /\ ProbePath' /\ LiveSlots' = LiveSlots \ {i}
       /\ \A j \in Slots : /\ table'[j].key = table[j].key
                           /\ table'[j].lock = table[j].lock
  BY <1>9, RowKeys, RemoveEffect DEF LockInv
<1>11. /\ WordsMatch' /\ RecordsLive'
       /\ \A q \in Keys : InTable(q)' <=> InTable(q) /\ q # k
  BY <1>1, <1>3, <1>5, <1>6, <1>7, <1>8, <1>10, WordsRemove
<1>12. ChangesLocked'
  <2>1. \A v \in Workers, q \in Keys :
           Has(txn[v], q, "EXCLUSIVE") => Has(txn'[v], q, "EXCLUSIVE") \/ ~InTable(q)'
    <3>1. \A q \in Keys : Has(t, q, "EXCLUSIVE") => Has(txn'[w], q, "EXCLUSIVE") \/ q = k
      BY <1>6 DEF Drops, Types
    <3> QED BY <1>1, <1>7, <1>11, <3>1
  <2>2. \A q \in Keys : q < next_key /\ ~InTable(q) => ~InTable(q)'
    BY <1>11
  <2>3. next_key' \in Int /\ next_key <= next_key'
    BY <1>9, RowKeys
  <2>4. \A v \in Workers : Orderly(txn[v], txn'[v])
    BY <1>1, <1>6, <1>7
  <2> QED BY <2>1, <2>2, <2>3, <2>4, ChangesStep
<1>13. KeysBelow'
  BY <1>9, <1>10, RowKeys DEF LockInv, KeysBelow
<1>14. \A v \in Workers : ListKept(txn'[v])
  BY <1>1, <1>6, <1>7 DEF Orderly
<1> QED
  BY <1>10, <1>11, <1>12, <1>13, <1>14 DEF LockInv

\* UPDATE leaves rows and locks alone, whichever entry it writes.
LEMMA LockWrite ==
  ASSUME LockInv, TypeInv', NEW w \in Workers, CommitUpdate(w)
  PROVE  LockInv'
<1>0. TypeInv
  BY DEF LockInv
<1>1. PICK t \in TxnRec : t = txn[w]
  BY <1>0, FitNow
<1>2. /\ Only(w) /\ t.pc = "commit" /\ t.commits # <<>> /\ Made(t, txn'[w])
  BY <1>0, <1>1, MadeAct
<1>3. Quiet(t, txn'[w])
  BY <1>1, <1>2, MadeQuiet DEF LockInv
<1>4. Others(w) /\ \A v \in Workers \ {w} : Orderly(txn[v], txn'[v])
  BY <1>2, OthersStay
<1>5. \A v \in Workers : Orderly(txn[v], txn'[v]) /\ HasSame(txn[v], txn'[v])
  BY <1>1, <1>3, <1>4 DEF Quiet, Others
<1>6. PICK d \in Data : d = Front(w).data
  BY <1>0, <1>1, <1>2, FrontTyped DEF ChangeRec
<1>7. PICK k \in Int : k = DeserializedKey
  BY DEF DeserializedKey
<1>8. write(k, d)
  BY <1>6, <1>7 DEF CommitUpdate
<1>9. PICK i \in Slots : i = Seek(k)
  BY <1>8, SeekSlot DEF write
<1>10. table' = [table EXCEPT ![i].data = d] /\ next_key' = next_key
  BY <1>8, <1>9 DEF write
<1>11. /\ UniqueKeys' /\ ProbePath' /\ LiveSlots' = LiveSlots
       /\ \A j \in Slots : /\ table'[j].key = table[j].key
                           /\ table'[j].lock = table[j].lock
  BY <1>10, RowKeys, WriteEffect DEF LockInv
<1>12. WordsMatch' /\ RecordsLive'
  BY <1>5, <1>11, WordsQuiet
<1>13. \A v \in Workers, q \in Keys :
         Has(txn[v], q, "EXCLUSIVE") => Has(txn'[v], q, "EXCLUSIVE")
  BY <1>5 DEF HasSame, Types
<1> QED
  BY <1>5, <1>10, <1>11, <1>12, <1>13, LockStep

\* The rows of earlier transactions lie where their keys hash to, unlocked.
LEMMA InitLock ==
  ASSUME Init
  PROVE  LockInv
<1>1. TypeInv
  BY InitTyped
<1>2. /\ Preload \in Nat /\ Preload <= Rows /\ next_key = Preload
      /\ \A i \in Slots : i \in Nat /\ i < Rows
  <2>0. Preload \in 0 .. Rows /\ Rows \in Nat
    BY WorkerAssumption, TableAssumption
  <2>1. Preload \in Nat /\ Preload <= Rows
    BY <2>0
  <2>2. next_key = Preload
    BY DEF Init
  <2>3. \A i \in Slots : i \in Nat /\ i < Rows
    BY TableAssumption DEF Slots
  <2> QED BY <2>1, <2>2, <2>3
<1>3. \A i \in Slots : /\ i < Preload => /\ table[i].key = i /\ table[i].used
                                         /\ table[i].lock = 0
                       /\ ~(i < Preload) => ~table[i].used
  BY DEF Init, EmptyEntry
<1>4. \A i \in LiveSlots : /\ i \in Slots /\ i < Preload
                           /\ table[i].key = i /\ table[i].lock = 0
  BY <1>3 DEF LiveSlots, Live
<1>5. UniqueKeys /\ KeysBelow
  BY <1>2, <1>4 DEF UniqueKeys, KeysBelow
<1>6. ProbePath
  <2> SUFFICES ASSUME NEW i \in LiveSlots, NEW j \in Slots,
                      Dist(table[i].key, j) < Dist(table[i].key, i)
               PROVE  FALSE
    BY DEF ProbePath
  <2>1. Home(i) = i
    BY <1>2, <1>4, TableAssumption DEF Home, Slots
  <2>2. Dist(i, i) = 0 /\ Dist(i, j) \in Nat
    BY <1>2, <1>4, <2>1, DistType, TableAssumption DEF Dist
  <2> QED BY <1>4, <2>2
<1>7. PICK L : L = LL!EmptyList
  OBVIOUS
<1>8. \A i \in LL!Entries : L.locks[i] = LL!EmptyLock
  BY <1>7 DEF LL!EmptyList
<1>9. LL!Held(L) = {}
  BY <1>8 DEF LL!Held, LL!EmptyLock
<1>10. \A w \in Workers : /\ txn[w].locks = L /\ txn[w].cursor = 0
                          /\ txn[w].pc = "loop" /\ txn[w].commits = <<>>
  BY <1>7 DEF Init, NewTxn
<1>11. \A w \in Workers, k \in Keys, ty \in Types : ~Has(txn[w], k, ty)
  BY <1>9, <1>10 DEF Has, Listed, LL!Remaining
<1>12. \A w \in Workers : ListKept(txn[w])
  BY <1>9, <1>10 DEF ListKept, RowsOnce
<1>13. WordsMatch
  <2>1. \A k \in Keys : Sharers(k) = {} /\ Excluders(k) = {}
    BY <1>11 DEF Sharers, Excluders, Types
  <2>2. Cardinality({}) = 0
    BY FS_EmptySet
  <2> QED BY <1>4, <2>1, <2>2 DEF WordsMatch, Word
<1>14. RecordsLive
  BY <1>11 DEF RecordsLive
<1>15. ChangesLocked
  <2>1. \A w \in Workers, k \in Keys : ~Queues(txn[w], k)
    BY <1>10 DEF Queues
  <2> QED BY <2>1 DEF ChangesLocked
<1> QED
  BY <1>1, <1>5, <1>6, <1>12, <1>13, <1>14, <1>15 DEF LockInv

\* A job taken, by a client that does not reread.
LEMMA LockRecv ==
  ASSUME LockInv, TypeInv', ~Rereads, NEW w \in Workers, NEW j \in Jobs,
         Recv(w, j)
  PROVE  LockInv'
<1>0. TypeInv
  BY DEF LockInv
<1>1. PICK t \in TxnRec : t = txn[w]
  BY <1>0, FitNow
<1>2. PICK s \in TxnRec : /\ Only(w) /\ t.pc = "recv" /\ ClientSends(t, j)
                          /\ Taking(t, s, j) /\ Fit(s) /\ Outcome(s, txn'[w])
  BY <1>0, <1>1, RecvAct
<1>3. ListKept(t)
  BY <1>1 DEF LockInv
<1>4. Quiet(t, s) /\ s.commits = t.commits /\ s.pc = "recv"
  BY <1>2, <1>3, TakeQuiet
<1>5. s.job = j /\ s.locks = t.locks
  BY <1>2 DEF Taking, SameLocks
<1>6. s.job.op = "SHARED_READ" => \A k \in Keys : ~Listed(s.locks, 0, k, "SHARED")
  BY <1>2, <1>5, ClientShares
<1>7. ListKept(s)
  BY <1>4 DEF Quiet, Orderly
<1>8. Quiet(s, txn'[w])
  BY <1>2, <1>4, <1>5, <1>6, <1>7, OutcomeQuiet
<1>9. Quiet(t, txn'[w])
  BY <1>4, <1>8, QuietTwice
<1>10. UNCHANGED tableVars
  BY DEF Recv
<1> QED
  BY <1>1, <1>2, <1>9, <1>10, LockQuietOne

\* A notification moves the notifier and at most one sleeper.
LEMMA LockNotify ==
  ASSUME LockInv, TypeInv', NEW w \in Workers, CommitNotify(w)
  PROVE  LockInv'
<1>0. TypeInv /\ txn[w].pc = "notify"
  BY DEF LockInv, CommitNotify, At
<1>1. Fit(txn[w]) /\ ListKept(txn[w]) /\ txn[w] \in TxnRec
  BY <1>0, FitNow DEF LockInv
<1>2. txn[w].commits # <<>>
  BY <1>0, <1>1, LimitsFields DEF Fit
<1>3. /\ Made(txn[w], txn'[w])
      /\ \A v \in Workers \ {w} :
           \/ txn'[v] = txn[v]
           \/ Moved(txn[v], txn'[v]) /\ Goes(txn[v], txn'[v])
  BY <1>0, <1>2, NotifyAct
<1>4. Quiet(txn[w], txn'[w])
  BY <1>0, <1>1, <1>2, <1>3, MadeQuiet
<1>5. ASSUME NEW v \in Workers \ {w} PROVE Quiet(txn[v], txn'[v])
  <2>1. ListKept(txn[v])
    BY DEF LockInv
  <2>2. CASE txn'[v] = txn[v]
    BY <2>1, <2>2, QuietSelf
  <2>3. CASE txn'[v] # txn[v]
    <3>1. txn'[v].pc = "commit"
      BY <1>0, <2>3, FitNow DEF CommitNotify, Become, At, TxnRec
    <3>2. Moved(txn[v], txn'[v]) /\ Goes(txn[v], txn'[v])
      BY <1>3, <2>3
    <3> QED BY <2>1, <3>1, <3>2, MoveQuiet
  <2> QED BY <2>2, <2>3
<1>6. \A v \in Workers : Quiet(txn[v], txn'[v])
  BY <1>4, <1>5
<1> QED
  BY <1>6, LockQuiet DEF CommitNotify

\* LockInv is inductive, if no client rereads and the keys do not run out.
LEMMA LockNext ==
  ASSUME LockInv, ~Rereads, KeysLeft, [Next]_vars
  PROVE  LockInv'
<1>0. TypeInv
  BY DEF LockInv
<1>1. TypeInv'
  BY <1>0, NextTyped
<1>2. CASE UNCHANGED vars
  <2>1. UNCHANGED tableVars /\ txn' = txn
    BY <1>2 DEF vars, tableVars
  <2>2. \A v \in Workers : Quiet(txn[v], txn'[v])
    BY <2>1, QuietSelf DEF LockInv
  <2> QED BY <1>1, <2>1, <2>2, LockQuiet
<1>3. CASE Next
  <2>0. PICK w \in Workers : \/ Step(w) \/ (\E j \in Jobs : Recv(w, j))
                             \/ SpuriousWake(w) \/ Stop(w)
    BY <1>3 DEF Next
  <2>1. ListKept(txn[w])
    BY DEF LockInv
  <2>2. CASE Loop(w)
    BY <1>0, <1>1, <2>1, <2>2, LoopAct, LoopQuiet, LockQuietOne DEF Loop
  <2>3. CASE RetryHead(w)
    <3>1. /\ Only(w) /\ txn[w].pc = "head"
          /\ \/ Replied(txn[w], txn'[w])
             \/ Moved(txn[w], txn'[w]) /\ Goes(txn[w], txn'[w])
      BY <1>0, <2>3, HeadAct
    <3>2. CASE Replied(txn[w], txn'[w])
      BY <1>1, <2>1, <2>3, <3>1, <3>2, ReplyQuiet, LockQuietOne DEF RetryHead
    <3>3. CASE Moved(txn[w], txn'[w]) /\ Goes(txn[w], txn'[w])
      <4>1. txn'[w].pc # "hung"
        <5>1. PICK t \in TxnRec : t = txn[w]
          BY <1>0, FitNow
        <5>2. txn'[w].pc \in {"loop", "wait"}
          BY <1>0, <2>3, <5>1, FitNow
             DEF RetryHead, Become, Answer, Pop, Reply, TxnRec
        <5> QED BY <5>2
      <4> QED BY <1>1, <2>1, <2>3, <3>1, <3>3, <4>1, MoveQuiet, LockQuietOne
                 DEF RetryHead
    <3> QED BY <3>1, <3>2, <3>3
  <2>4. CASE RecvTimeout(w) \/ CommitSleep(w) \/ SpuriousWake(w)
             \/ TableSpin(w) \/ LockListSpin(w)
    <3>1. Only(w) /\ Moved(txn[w], txn'[w]) /\ Goes(txn[w], txn'[w])
      BY <1>0, <2>4, MoveAct
    <3>2. UNCHANGED tableVars
      BY <2>4 DEF RecvTimeout, CommitSleep, SpuriousWake, TableSpin, LockListSpin
    <3>3. txn'[w].pc = "hung" => txn[w].pc = "commit"
      <4>1. CASE TableSpin(w)
        BY <4>1, SpinInCommit
      <4>2. CASE LockListSpin(w)
        BY <4>2 DEF LockListSpin, Commits, At
      <4>3. CASE RecvTimeout(w) \/ CommitSleep(w) \/ SpuriousWake(w)
        <5>1. txn'[w].pc \in {"loop", "asleep", "commit"}
          BY <1>0, <4>3, FitNow
             DEF RecvTimeout, CommitSleep, SpuriousWake, Become, TxnRec
        <5> QED BY <5>1
      <4> QED BY <2>4, <4>1, <4>2, <4>3
    <3>4. Quiet(txn[w], txn'[w])
      BY <2>1, <3>1, <3>3, MoveQuiet
    <3> QED BY <1>1, <3>1, <3>2, <3>4, LockQuietOne
  <2>5. CASE WaitTimeout(w)
    BY <1>0, <1>1, <2>1, <2>5, TimeoutAct, TimeoutQuiet, LockQuietOne DEF WaitTimeout
  <2>6. CASE CommitDone(w)
    BY <1>0, <1>1, <2>1, <2>6, DoneAct, EndQuiet, LockQuietOne DEF CommitDone
  <2>7. CASE QuitDone(w)
    <3>1. PICK L : L = LL!clear(txn[w].locks)
      OBVIOUS
    <3>2. /\ Only(w) /\ txn[w].pc = "quit"
          /\ LL!Remaining(txn[w].locks, txn[w].cursor) = {}
          /\ LL!Held(L) = {} /\ Died(txn[w], txn'[w], L)
      BY <1>0, <2>7, <3>1, DieAct
    <3>3. Quiet(txn[w], txn'[w])
      BY <2>1, <3>2, DieQuiet
    <3> QED BY <1>1, <2>7, <3>2, <3>3, LockQuietOne DEF QuitDone
  <2>8. CASE Stop(w)
    <3>1. UNCHANGED tableVars /\ txn' = txn
      BY <2>8 DEF Stop
    <3>2. \A v \in Workers : Quiet(txn[v], txn'[v])
      BY <3>1, QuietSelf DEF LockInv
    <3> QED BY <1>1, <3>1, <3>2, LockQuiet
  <2>9. CASE GrantShared(w) \/ GrantExclusive(w) \/ GrantPromote(w)
    BY <1>1, <2>9, LockShared, LockExclusive, LockPromote
  <2>10. CASE Yield(w) \/ ReleaseLock(w)
    BY <1>1, <2>10, LockYield, LockRelease
  <2>11. CASE CommitAdd(w) \/ CommitDelete(w) \/ CommitUpdate(w) \/ CommitNotify(w)
    BY <1>1, <2>11, LockInsert, LockRemove, LockWrite, LockNotify
  <2>12. CASE \E j \in Jobs : Recv(w, j)
    BY <1>1, <2>12, LockRecv
  <2> QED
    BY <2>0, <2>2, <2>3, <2>4, <2>5, <2>6, <2>7, <2>8, <2>9, <2>10, <2>11,
       <2>12 DEF Step
<1> QED
  BY <1>2, <1>3

-----------------------------------------------------------------------------
(* What the invariant says of the records *)

\* A worker records a lock on a row at most once.
LEMMA RecordsOne ==
  ASSUME LockInv, NEW w \in Workers, NEW k \in Keys, NEW type \in Types
  PROVE  /\ Records(w, k, type) # {} <=> Has(txn[w], k, type)
         /\ \A a, b \in Records(w, k, type) : a = b
<1>1. PICK t \in TxnRec : t = txn[w]
  BY FitNow DEF LockInv
<1>2. ListKept(t)
  BY <1>1 DEF LockInv
<1>3. PICK R : R = {i \in LL!Remaining(t.locks, t.cursor) :
                      t.locks.locks[i].key = k /\ t.locks.locks[i].type = type}
  OBVIOUS
<1>4. PICK Y : Y = {i \in {MaxLocks} : t.pc = "yield" /\ t.job.key = k
                                                      /\ type = "SHARED"}
  OBVIOUS
<1>5. Records(w, k, type) = R \cup Y
  BY <1>1, <1>3, <1>4 DEF Records, ToRelease, At
<1>6. R # {} <=> Listed(t.locks, t.cursor, k, type)
  BY <1>3 DEF Listed
<1>7. Y # {} <=> t.pc = "yield" /\ t.job.key = k /\ type = "SHARED"
  BY <1>4
<1>8. \A a, b \in R : a = b
  BY <1>2, <1>3 DEF ListKept, RowsOnce, LL!Remaining
<1>9. \A a, b \in Y : a = b
  BY <1>4
<1>10. R = {} \/ Y = {}
  <2>1. t.pc = "yield" => t.cursor = 0
    BY <1>2 DEF ListKept
  <2> QED BY <1>2, <1>6, <1>7, <2>1 DEF ListKept
<1>11. Records(w, k, type) # {} <=> Has(txn[w], k, type)
  BY <1>1, <1>5, <1>6, <1>7 DEF Has
<1> QED
  BY <1>5, <1>8, <1>9, <1>10, <1>11

\* There are as many records as workers that have the row.
LEMMA RecordedCount ==
  ASSUME LockInv, NEW k \in Keys, NEW type \in Types,
         NEW S, S = {w \in Workers : Has(txn[w], k, type)}
  PROVE  /\ Cardinality(Recorded(k, type)) = Cardinality(S)
         /\ Recorded(k, type) = {} <=> S = {}
<1>1. PICK R : R = Recorded(k, type)
  OBVIOUS
<1>2. \A p : p \in R <=> \E w \in Workers : \E i \in Records(w, k, type) : p = <<w, i>>
  BY <1>1 DEF Recorded
<1>3. \A w \in Workers : /\ Records(w, k, type) # {} <=> w \in S
                         /\ \A a, b \in Records(w, k, type) : a = b
  BY RecordsOne
<1>4. IsFiniteSet(S)
  BY HoldersFinite
<1> DEFINE f == [w \in S |-> <<w, CHOOSE i \in Records(w, k, type) : TRUE>>]
<1>5. \A w \in S : w \in Workers /\ \E i \in Records(w, k, type) : f[w] = <<w, i>>
  BY <1>3
<1>6. f \in [S -> R]
  BY <1>2, <1>5
<1>7. \A a, b \in S : f[a] = f[b] => a = b
  BY <1>5
<1>8. \A p \in R : \E w \in S : f[w] = p
  <2> SUFFICES ASSUME NEW p \in R PROVE \E w \in S : f[w] = p
    OBVIOUS
  <2>0. PICK w \in Workers : \E i \in Records(w, k, type) : p = <<w, i>>
    BY <1>2
  <2>1. PICK i \in Records(w, k, type) : p = <<w, i>>
    BY <2>0
  <2>2. w \in S
    BY <1>3, <2>1
  <2>3. f[w] = <<w, i>>
    BY <1>3, <1>5, <2>1, <2>2
  <2> QED BY <2>1, <2>2, <2>3
<1> HIDE DEF f
<1>9. f \in Bijection(S, R)
  BY <1>6, <1>7, <1>8, Fun_IsBij
<1>10. ExistsBijection(S, R)
  BY <1>9, Fun_ExistsBij
<1>11. Cardinality(R) = Cardinality(S)
  BY <1>4, <1>10, FS_Bijection
<1>12. R = {} <=> S = {}
  BY <1>6, <1>8
<1> QED
  BY <1>1, <1>11, <1>12

\* The locks in the lists of the workers are the locks in the table, at every
\* moment, for any number of workers, rows and jobs: no path of a transaction
\* drops a lock that the table keeps or keeps one that the table dropped.  The
\* client does not share-read again while it holds a shared lock, and the keys
\* of the table do not wrap around.
THEOREM LocksTheorem ==
  ASSUME ~Rereads
  PROVE  Spec /\ []KeysLeft => []LocksMatchTable
<1>1. Init => LockInv
  BY InitLock
<1>2. LockInv /\ KeysLeft /\ [Next]_vars => LockInv'
  BY LockNext
<1>3. LockInv => LocksMatchTable
  <2> SUFFICES ASSUME LockInv, NEW i \in Slots, Live(i)
               PROVE  LET S == Recorded(table[i].key, "SHARED")
                          X == Recorded(table[i].key, "EXCLUSIVE")
                      IN  IF table[i].lock = -1
                          THEN S = {} /\ Cardinality(X) = 1
                          ELSE X = {} /\ table[i].lock = Cardinality(S)
    BY DEF LocksMatchTable
  <2>1. i \in LiveSlots
    BY DEF LiveSlots
  <2>2. PICK k \in Keys : k = table[i].key
    BY <2>1, RowKeys
  <2>3. Word(table[i].lock, Sharers(k), Excluders(k))
    BY <2>1, <2>2, WordOf
  <2>4. /\ Cardinality(Recorded(k, "SHARED")) = Cardinality(Sharers(k))
        /\ Recorded(k, "SHARED") = {} <=> Sharers(k) = {}
    BY RecordedCount DEF Sharers, Types
  <2>5. /\ Cardinality(Recorded(k, "EXCLUSIVE")) = Cardinality(Excluders(k))
        /\ Recorded(k, "EXCLUSIVE") = {} <=> Excluders(k) = {}
    BY RecordedCount DEF Excluders, Types
  <2>6. Cardinality(Sharers(k)) \in Nat
    BY HoldersFinite DEF Sharers
  <2>7. \A w : Cardinality({w}) = 1
    BY FS_Singleton
  <2> QED BY <2>2, <2>3, <2>4, <2>5, <2>6, <2>7 DEF Word
<1> QED
  BY <1>1, <1>2, <1>3, PTL DEF Spec

\* When all transactions are over no row is locked, under the same conditions;
\* with rereads a row stays locked for ever.
THEOREM ReleasedTheorem ==
  ASSUME ~Rereads
  PROVE  Spec /\ []KeysLeft => []LocksReleased
<1>1. Init => LockInv
  BY InitLock
<1>2. LockInv /\ KeysLeft /\ [Next]_vars => LockInv'
  BY LockNext
<1>3. LockInv => LocksReleased
  <2> SUFFICES ASSUME LockInv, \A w \in Workers : At(w, "dead"),
                      NEW i \in Slots, Live(i)
               PROVE  table[i].lock = 0
    BY DEF LocksReleased
  <2>1. i \in LiveSlots
    BY DEF LiveSlots
  <2>2. PICK k \in Keys : k = table[i].key
    BY <2>1, RowKeys
  <2>3. ASSUME NEW w \in Workers, NEW type \in Types PROVE ~Has(txn[w], k, type)
    <3>1. txn[w].pc = "dead" /\ ListKept(txn[w])
      BY DEF LockInv, At
    <3> QED BY <3>1 DEF Has, Listed, ListKept, LL!Remaining
  <2>4. Sharers(k) = {} /\ Excluders(k) = {}
    BY <2>3 DEF Sharers, Excluders, Types
  <2>5. Word(table[i].lock, Sharers(k), Excluders(k))
    BY <2>1, <2>2, WordOf
  <2>6. Cardinality({}) = 0
    BY FS_EmptySet
  <2> QED BY <2>4, <2>5, <2>6 DEF Word
<1> QED
  BY <1>1, <1>2, <1>3, PTL DEF Spec

\* A job is answered at most once and popped as often as it is answered, for
\* any number of workers and rows, if the client does not reread, the queue has
\* room for its jobs and the keys do not wrap: a granted shared lock always fits
\* into the list, which is where the code would answer twice.
THEOREM RepliesTheorem ==
  ASSUME ~Rereads, MaxJobs <= MaxCommits
  PROVE  Spec /\ []KeysLeft => []OneReplyPerJob
<1> DEFINE Inv == LockInv /\ \A w \in Workers : Accounted(txn[w]) /\ Answered(txn[w])
<1>0. Small
  BY DEF Small
<1>1. Init => Inv
  BY InitLock, InitTyped
<1>2. Inv /\ KeysLeft /\ [Next]_vars => Inv'
  <2> SUFFICES ASSUME Inv, KeysLeft, [Next]_vars PROVE Inv'
    OBVIOUS
  <2>0. TypeInv /\ LockInv
    BY DEF LockInv
  <2>1. LockInv'
    BY LockNext
  <2>2. TypeInv'
    BY <2>1 DEF LockInv
  <2>3. CASE Next
    <3>1. \A v \in Workers : Advanced(v)
      BY <2>0, <2>3, StepKeeps
    <3>2. ASSUME NEW v \in Workers
          PROVE  Accounted(txn'[v]) /\ Answered(txn'[v])
      <4>1. ~(Doubled(v) /\ GrantShared(v))
        BY <2>0, <2>2, LockShared
      <4> QED BY <1>0, <3>1, <4>1 DEF Advanced, Kept
    <3> QED BY <2>1, <3>2
  <2>4. CASE UNCHANGED vars
    BY <2>1, <2>4 DEF vars
  <2> QED BY <2>3, <2>4
<1>3. Inv => OneReplyPerJob
  BY DEF Answered, OneReplyPerJob
<1> QED
  BY <1>1, <1>2, <1>3, PTL DEF Spec

-----------------------------------------------------------------------------
(* Changes of rows *)

\* The step is one of the commit of w, which has row k for itself.
Owner(w, k) ==
    /\ At(w, "commit") /\ txn'[w] # txn[w]
    /\ Records(w, k, "EXCLUSIVE") # {}

\* A step keeps the rows that are there and their data, unless it is one of a
\* worker that has the row for itself.
Guarded ==
    \A i \in Slots : Live(i) =>
        \/ Live(i)' /\ table'[i].data = table[i].data
        \/ \E w \in Workers : Owner(w, table[i].key)

\* An exclusive lock is recorded.
LEMMA ExclusiveRecorded ==
  ASSUME NEW w \in Workers, NEW k, Has(txn[w], k, "EXCLUSIVE")
  PROVE  Records(w, k, "EXCLUSIVE") # {}
<1>1. PICK i \in LL!Remaining(txn[w].locks, txn[w].cursor) :
         txn[w].locks.locks[i].key = k /\ txn[w].locks.locks[i].type = "EXCLUSIVE"
  BY DEF Has, Listed
<1>2. i \in Records(w, k, "EXCLUSIVE")
  BY <1>1 DEF Records, ToRelease
<1> QED
  BY <1>2

\* A table with the same rows and data
LEMMA GuardedSame ==
  ASSUME LiveSlots' = LiveSlots, \A j \in Slots : table'[j].data = table[j].data
  PROVE  Guarded
<1>1. ASSUME NEW i \in Slots, Live(i) PROVE Live(i)'
  <2>1. i \in LiveSlots'
    BY <1>1 DEF LiveSlots
  <2> QED BY <2>1 DEF LiveSlots
<1> QED
  BY <1>1 DEF Guarded

\* A lock word set leaves the rows alone.
LEMMA GuardedWord ==
  ASSUME TypeInv, NEW i \in Slots, NEW l \in Locks,
         table' = [table EXCEPT ![i].lock = l]
  PROVE  Guarded
<1>1. table \in [Slots -> Entry]
  BY DEF TypeInv, TableTypeOK
<1>2. LiveSlots' = LiveSlots /\ \A j \in Slots : table'[j].data = table[j].data
  BY <1>1, WordStep
<1> QED
  BY <1>2, GuardedSame

\* The operations on lock words
LEMMA GuardedLocks ==
  ASSUME TypeInv, \/ wait_shared \/ wait_exclusive
                  \/ \E k \in Int : promote(k) \/ release(k)
  PROVE  Guarded
<1>0. \A j \in Slots : table[j].lock \in Locks
  BY DEF TypeInv, TableTypeOK, Entry
<1>1. CASE wait_shared
  <2>1. PICK i \in Slots : i = SharedGrant
    BY <1>1, GrantIsFree DEF wait_shared, Shareable
  <2>2. PICK l \in Locks : l = IncLk(table[i].lock)
    BY <1>0, WidthKept
  <2>3. table' = [table EXCEPT ![i].lock = l]
    BY <1>1, <2>1, <2>2 DEF wait_shared, TypeInv, TableTypeOK
  <2> QED BY <2>3, GuardedWord
<1>2. CASE wait_exclusive
  <2>1. PICK i \in Slots : i = ExclusiveGrant
    BY <1>2, GrantIsFree DEF wait_exclusive, Excludable
  <2>2. PICK l \in Locks : l = -1
    BY WidthKept
  <2>3. table' = [table EXCEPT ![i].lock = l]
    BY <1>2, <2>1, <2>2 DEF wait_exclusive
  <2> QED BY <2>3, GuardedWord
<1>3. ASSUME NEW k \in Int, promote(k) PROVE Guarded
  <2>1. PICK i \in Slots : i = Seek(k)
    BY <1>3, SeekSlot DEF promote
  <2>2. PICK l \in Locks : l = -1
    BY WidthKept
  <2>3. table' = [table EXCEPT ![i].lock = l]
    BY <1>3, <2>1, <2>2 DEF promote
  <2> QED BY <2>3, GuardedWord
<1>4. ASSUME NEW k \in Int, release(k) PROVE Guarded
  <2>1. PICK i \in Slots : i = Seek(k)
    BY <1>4, SeekSlot DEF release
  <2>2. PICK l \in Locks : l = IF table[i].lock = -1 THEN 0
                               ELSE DecLk(table[i].lock)
    BY <1>0, WidthKept
  <2>3. table' = [table EXCEPT ![i].lock = l]
    BY <1>4, <2>1, <2>2 DEF release
  <2> QED BY <2>3, GuardedWord
<1> QED
  BY <1>1, <1>2, <1>3, <1>4

\* An insertion takes a free entry,
LEMMA GuardedInsert ==
  ASSUME LockInv, NEW w \in Workers, CommitAdd(w)
  PROVE  Guarded
<1>0. TypeInv /\ TableTypeOK
  BY DEF LockInv, TypeInv
<1>1. PICK d \in Data : d = Front(w).data
  BY <1>0, FrontTyped DEF ChangeRec, CommitAdd, Commits
<1>2. insert(d)
  BY <1>1 DEF CommitAdd
<1>3. PICK i \in Slots \ LiveSlots :
        /\ LiveSlots' = LiveSlots \cup {i}
        /\ \A j \in Slots \ {i} : table'[j] = table[j]
  BY <1>0, <1>2, InsertEffect
<1>4. ASSUME NEW j \in Slots, Live(j) PROVE Live(j)' /\ table'[j].data = table[j].data
  <2>1. j \in LiveSlots
    BY <1>4 DEF LiveSlots
  <2>2. j # i /\ j \in LiveSlots'
    BY <1>3, <2>1
  <2> QED BY <1>3, <2>2 DEF LiveSlots
<1> QED
  BY <1>4 DEF Guarded

\* a removal the row of an exclusive lock,
LEMMA GuardedRemove ==
  ASSUME LockInv, NEW w \in Workers, CommitDelete(w)
  PROVE  Guarded
<1>1. PICK k \in Keys : k = Front(w).key
  BY RemoveLocked
<1>2. Has(txn[w], k, "EXCLUSIVE")
  BY <1>1, RemoveLocked
<1>3. PICK i \in LiveSlots : table[i].key = k /\ Seek(k) = i
  BY <1>2, HasRow DEF Types
<1>4. table' = [table EXCEPT ![i].deleted = TRUE]
  BY <1>1, <1>3 DEF CommitDelete, remove
<1>5. /\ LiveSlots' = LiveSlots \ {i}
      /\ \A j \in Slots : table'[j].data = table[j].data
  BY <1>4, RowKeys, RemoveEffect
<1>6. Owner(w, table[i].key)
  <2>1. PICK t \in TxnRec : t = txn[w]
    BY FitNow DEF LockInv
  <2>2. t.pc = "commit"
    BY <2>1 DEF CommitDelete, Commits, At
  <2>3. txn'[w] = [t EXCEPT !.locks = LL!rm_lock(@, Front(w).key), !.pc = "notify"]
    BY <2>1 DEF CommitDelete, Become, LockInv, TypeInv
  <2>4. txn'[w].pc = "notify"
    BY <2>3 DEF TxnRec
  <2>5. txn'[w] # txn[w]
    BY <2>1, <2>2, <2>4
  <2> QED BY <1>2, <1>3, <2>1, <2>2, <2>5, ExclusiveRecorded DEF Owner, At
<1>7. ASSUME NEW j \in Slots, Live(j), j # i
      PROVE  Live(j)' /\ table'[j].data = table[j].data
  <2>1. j \in LiveSlots'
    BY <1>5, <1>7 DEF LiveSlots
  <2> QED BY <1>5, <2>1 DEF LiveSlots
<1> QED
  BY <1>6, <1>7 DEF Guarded

\* and an update the row with key 0, which is the row of the change if all
\* updates are of that row.
LEMMA GuardedWrite ==
  ASSUME LockInv, NEW w \in Workers, CommitUpdate(w),
         \A j \in Jobs : j.op = "UPDATE" => j.key \in {DeserializedKey, BadField}
  PROVE  Guarded
<1>0. TypeInv
  BY DEF LockInv
<1>1. PICK t \in TxnRec : t = txn[w]
  BY <1>0, FitNow
<1>2. /\ t.pc = "commit" /\ t.commits # <<>> /\ Front(w).op = "UPDATE"
      /\ write(DeserializedKey, Front(w).data)
  BY <1>1 DEF CommitUpdate, Commits, At
<1>3. /\ Front(w) = t.commits[1] /\ 1 \in DOMAIN t.commits
      /\ Front(w).key \in Keys /\ Front(w) \in ChangeRec
  BY <1>0, <1>1, <1>2, FrontTyped
<1>4. PICK k \in Keys : k = Front(w).key
  BY <1>3
<1>5. k = DeserializedKey
  <2>1. FromJobs(t.commits)
    BY <1>0, <1>1, FitNow, LimitsFields DEF Fit
  <2>2. PICK j \in Jobs : Front(w).op = j.op /\ Front(w).key = j.key
    BY <1>3, <2>1 DEF FromJobs
  <2>3. k # BadField
    BY <1>3, TableAssumption DEF Keys, BadField
  <2> QED BY <1>2, <1>4, <2>2, <2>3
<1>6. Queues(t, k)
  BY <1>2, <1>3, <1>4 DEF Queues
<1>7. Has(t, k, "EXCLUSIVE") \/ ~InTable(k)
  BY <1>1, <1>2, <1>6 DEF LockInv, ChangesLocked
<1>8. PICK d \in Data : d = Front(w).data
  BY <1>3 DEF ChangeRec
<1>9. write(k, d) /\ k \in Int
  BY <1>2, <1>5, <1>8, RowKeys
<1>10. PICK i \in Slots : i = Seek(k) /\ i \in Matches(k)
  BY <1>9, SeekSlot DEF write
<1>11. table' = [table EXCEPT ![i].data = d]
  BY <1>9, <1>10 DEF write
<1>12. /\ LiveSlots' = LiveSlots
       /\ \A j \in Slots \ {i} : table'[j].data = table[j].data
  BY <1>11, RowKeys, WriteEffect
<1>12a. txn'[w] # txn[w]
  <2>1. txn'[w] = [t EXCEPT !.commits = Tail(@), !.applied = @ + 1, !.pc = "commit"]
    BY <1>0, <1>1 DEF CommitUpdate, Become, Applied, TypeInv
  <2>2. txn'[w].applied = t.applied + 1 /\ t.applied \in Nat
    BY <2>1 DEF TxnRec
  <2> QED BY <1>1, <2>2
<1>13. Live(i) => Owner(w, table[i].key)
  <2>1. table[i].key = k
    BY <1>10 DEF Matches
  <2>2. Live(i) => InTable(k)
    BY <2>1 DEF InTable, LiveSlots
  <2> QED BY <1>1, <1>2, <1>7, <1>12a, <2>1, <2>2, ExclusiveRecorded DEF Owner, At
<1>14. ASSUME NEW j \in Slots, Live(j), j # i
       PROVE  Live(j)' /\ table'[j].data = table[j].data
  <2>1. j \in LiveSlots'
    BY <1>12, <1>14 DEF LiveSlots
  <2> QED BY <1>12, <1>14, <2>1 DEF LiveSlots
<1> QED
  BY <1>13, <1>14 DEF Guarded

\* A row is changed or removed only in the commit of a worker that itself has
\* an exclusive lock on it, if the clients do not reread, the keys do not wrap and updates name
\* the only row that they reach: a row whose change is queued stays locked until
\* the change is made, or is deleted and does not come back.
THEOREM GuardedTheorem ==
  ASSUME ~Rereads,
         \A j \in Jobs : j.op = "UPDATE" => j.key \in {DeserializedKey, BadField}
  PROVE  Spec /\ []KeysLeft => ChangedUnderLock
<1>1. Init => LockInv
  BY InitLock
<1>2. LockInv /\ KeysLeft /\ [Next]_vars => LockInv'
  BY LockNext
<1>3. ASSUME LockInv, [Next]_vars PROVE [Guarded]_vars
  <2>0. TypeInv
    BY <1>3 DEF LockInv
  <2>1. CASE UNCHANGED tableVars
    <3>1. LiveSlots' = LiveSlots /\ \A j \in Slots : table'[j].data = table[j].data
      BY <2>1 DEF tableVars, LiveSlots, Live
    <3> QED BY <3>1, GuardedSame
  <2>2. ASSUME NEW w \in Workers, CommitAdd(w) PROVE Guarded
    BY <1>3, <2>2, GuardedInsert
  <2>3. ASSUME NEW w \in Workers, CommitDelete(w) PROVE Guarded
    BY <1>3, <2>3, GuardedRemove
  <2>4. ASSUME NEW w \in Workers, CommitUpdate(w) PROVE Guarded
    BY <1>3, <2>4, GuardedWrite
  <2>5. ASSUME NEW w \in Workers, GrantShared(w) \/ GrantExclusive(w) PROVE Guarded
    BY <2>0, <2>5, GuardedLocks DEF GrantShared, GrantExclusive
  <2>6. ASSUME NEW w \in Workers, GrantPromote(w) PROVE Guarded
    <3>1. PICK k \in Int : k = txn[w].job.key
      BY <1>3, <2>0, <2>6, PromoteAct, RowKeys
    <3>2. promote(k)
      BY <2>6, <3>1 DEF GrantPromote
    <3> QED BY <2>0, <3>2, GuardedLocks
  <2>7. ASSUME NEW w \in Workers, Yield(w) PROVE Guarded
    <3>1. txn[w].pc = "yield" /\ ListKept(txn[w])
      BY <1>3, <2>7 DEF LockInv, Yield, At
    <3>2. PICK k \in Int : k = txn[w].job.key
      BY <1>3, <3>1, RowKeys DEF ListKept
    <3>3. release(k)
      BY <2>7, <3>2 DEF Yield
    <3> QED BY <2>0, <3>3, GuardedLocks
  <2>8. ASSUME NEW w \in Workers, ReleaseLock(w) PROVE Guarded
    <3>1. PICK k \in Int : k = txn[w].locks.locks[NextLock(w)].key
      BY <2>0, <2>8, ReleaseAct, TableAssumption DEF Keys, LL!NoKey
    <3>2. release(k)
      BY <2>8, <3>1 DEF ReleaseLock
    <3> QED BY <2>0, <3>2, GuardedLocks
  <2>9. CASE UNCHANGED vars
    BY <2>9
  <2>10. CASE Next
    <3>1. PICK w \in Workers : \/ Step(w) \/ (\E j \in Jobs : Recv(w, j))
                               \/ SpuriousWake(w) \/ Stop(w)
      BY <2>10 DEF Next
    <3> QED
      BY <2>1, <2>2, <2>3, <2>4, <2>5, <2>6, <2>7, <2>8, <3>1
         DEF Step, Loop, RecvTimeout, RetryHead, WaitTimeout, CommitSleep,
             CommitNotify, CommitDone, QuitDone, TableSpin, LockListSpin, Recv,
             SpuriousWake, Stop
  <2> QED BY <1>3, <2>9, <2>10
<1>4. LockInv /\ [Next]_vars => [Guarded]_vars
  BY <1>3
<1>5. ChangedUnderLock <=> [][Guarded]_vars
  BY DEF ChangedUnderLock, Guarded, Owner
<1> QED
  BY <1>1, <1>2, <1>4, <1>5, PTL DEF Spec
=============================================================================
