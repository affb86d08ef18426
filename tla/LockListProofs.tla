--------------------------- MODULE LockListProofs ---------------------------
(***************************************************************************)
(* Proofs about LockListSpec, for every size of the array, every table id  *)
(* and every set of rows: the array behaves as a stack of records per row. *)
(***************************************************************************)
EXTENDS LockListSpec, Probing, FiniteSetTheorems, SequenceTheorems

-----------------------------------------------------------------------------
(* Probing *)

\* Entries have different natural ranks on the one probe path there is.
LEMMA RankType ==
  ASSUME NEW i \in Entries
  PROVE  ProbeRank(i) \in Nat
<1>1. i - TblId \in Int /\ MaxLocks \in Nat \ {0}
  BY LockListAssumption DEF Entries
<1>2. (i - TblId) % MaxLocks \in 0 .. MaxLocks - 1
  BY <1>1, ModRange
<1> QED
  BY <1>1, <1>2 DEF ProbeRank

\* No two entries have the same rank.
LEMMA RankInjective ==
  ASSUME NEW i \in Entries, NEW j \in Entries, ProbeRank(i) = ProbeRank(j)
  PROVE  i = j
<1>1. /\ i - TblId \in Int /\ j - TblId \in Int /\ MaxLocks \in Nat \ {0}
      /\ (i - TblId) - (j - TblId) < MaxLocks
      /\ (j - TblId) - (i - TblId) < MaxLocks
  BY LockListAssumption DEF Entries
<1>2. i - TblId = j - TblId
  BY <1>1, ModInjective DEF ProbeRank
<1> QED
  BY <1>2, LockListAssumption DEF Entries

\* First returns an entry of the set, and none of the set comes before it.
LEMMA FirstIsLeast ==
  ASSUME NEW S \in SUBSET Entries, S # {}
  PROVE  /\ First(S) \in S
         /\ \A j \in S : ProbeRank(First(S)) <= ProbeRank(j)
<1>1. PICK r : r = [i \in Entries |-> ProbeRank(i)]
  OBVIOUS
<1>2. \A i \in S : r[i] = ProbeRank(i) /\ r[i] \in Nat
  BY <1>1, RankType
<1>3. \E i \in S : \A j \in S : r[i] <= r[j]
  BY <1>2, LeastExists
<1>4. \E i \in S : \A j \in S : ProbeRank(i) <= ProbeRank(j)
  BY <1>2, <1>3
<1> QED
  BY <1>4 DEF First

-----------------------------------------------------------------------------
(* Facts about single states *)

\* The held entries are finitely many, at most as many as there are entries.
LEMMA HeldFinite ==
  ASSUME NEW S \in SUBSET Entries
  PROVE  /\ IsFiniteSet(S) /\ Cardinality(S) \in 0 .. MaxLocks
         /\ Cardinality(S) = MaxLocks => S = Entries
<1>1. IsFiniteSet(Entries) /\ Cardinality(Entries) = MaxLocks
  BY FS_Interval, LockListAssumption DEF Entries
<1>2. IsFiniteSet(S) /\ Cardinality(S) <= MaxLocks
      /\ (Cardinality(S) = Cardinality(Entries) => S = Entries)
  BY <1>1, FS_Subset
<1> QED
  BY <1>1, <1>2, FS_CardinalityType, LockListAssumption

\* What RecordsAt says, entry by entry.
LEMMA RecordsAtFacts ==
  ASSUME NEW k \in Rowids, held[k] \in Seq(Types),
         NEW at \in [1 .. Len(held[k]) -> Entries], RecordsAt(k, at)
  PROVE  /\ Len(held[k]) \in Nat
         /\ DOMAIN at = 1 .. Len(held[k])
         /\ \A n \in 1 .. Len(held[k]) :
              /\ at[n] \in Held(list) /\ at[n] \in Entries
              /\ list.locks[at[n]].key = k
              /\ list.locks[at[n]].type = held[k][n]
         /\ \A i \in Held(list) : list.locks[i].key = k =>
              \E n \in 1 .. Len(held[k]) : i = at[n]
         /\ \A m, n \in 1 .. Len(held[k]) :
              m < n => ProbeRank(at[n]) < ProbeRank(at[m])
<1>1. Len(held[k]) \in Nat /\ DOMAIN at = 1 .. Len(held[k])
  BY LenProperties
<1>2. ASSUME NEW n \in 1 .. Len(held[k])
      PROVE  /\ at[n] \in Held(list) /\ at[n] \in Entries
             /\ list.locks[at[n]].key = k
             /\ list.locks[at[n]].type = held[k][n]
  <2>1. at[n] \in {at[m] : m \in DOMAIN at}
    BY <1>1
  <2>2. at[n] \in {i \in Held(list) : list.locks[i].key = k}
    BY <2>1 DEF RecordsAt
  <2>3. list.locks[at[n]].type = held[k][n]
    BY <1>1 DEF RecordsAt
  <2> QED BY <2>2, <2>3
<1>3. ASSUME NEW i \in Held(list), list.locks[i].key = k
      PROVE  \E n \in 1 .. Len(held[k]) : i = at[n]
  <2>1. i \in {at[m] : m \in DOMAIN at}
    BY <1>3 DEF RecordsAt
  <2> QED BY <1>1, <2>1
<1>4. \A m, n \in 1 .. Len(held[k]) :
        m < n => ProbeRank(at[n]) < ProbeRank(at[m])
  BY <1>1 DEF RecordsAt
<1> QED
  BY <1>1, <1>2, <1>3, <1>4

\* A probe that stops at an entry of row k, or at one never used if it
\* should, stops at the newest record of the row when there is one.
LEMMA ProbeFinds ==
  ASSUME IInv, NEW k \in Rowids, held[k] # <<>>,
         NEW at \in [1 .. Len(held[k]) -> Entries], RecordsAt(k, at),
         NEW S \in SUBSET Entries, at[Len(held[k])] \in S,
         S \subseteq {j \in Entries : ~list.locks[j].used} \cup Matching(list, k)
  PROVE  First(S) = at[Len(held[k])]
<1> DEFINE n == First(S)
           i == at[Len(held[k])]
<1>0. held[k] \in Seq(Types)
  BY DEF IInv, TypeOK
<1>1. Len(held[k]) \in 1 .. Len(held[k])
  BY <1>0, LenProperties, EmptySeq
<1>2. i \in Held(list) /\ i \in Entries
  BY <1>0, <1>1, RecordsAtFacts
<1>3. n \in S /\ n \in Entries /\ ProbeRank(n) <= ProbeRank(i)
  BY FirstIsLeast
<1>4. ProbeRank(n) \in Nat /\ ProbeRank(i) \in Nat
  BY <1>2, <1>3, RankType
<1>5. CASE ProbeRank(n) = ProbeRank(i)
  BY <1>2, <1>3, <1>5, RankInjective
<1>6. CASE ProbeRank(n) < ProbeRank(i)
  <2>1. list.locks[n].used
    BY <1>2, <1>3, <1>6 DEF IInv, ProbePath
  <2>2. n \in Held(list) /\ list.locks[n].key = k
    BY <1>3, <2>1 DEF Matching, Held
  <2>3. PICK m \in 1 .. Len(held[k]) : n = at[m]
    BY <1>0, <2>2, RecordsAtFacts
  <2>4. m = Len(held[k]) \/ m < Len(held[k])
    BY <1>0, LenProperties
  <2>5. ~(m < Len(held[k]))
    <3>1. m < Len(held[k]) => ProbeRank(i) < ProbeRank(at[m])
      BY <1>0, <1>1, RecordsAtFacts
    <3> QED BY <1>4, <1>6, <2>3, <3>1
  <2> QED BY <2>3, <2>4, <2>5
<1> QED
  BY <1>3, <1>4, <1>5, <1>6

\* No held entry has the key of a row without records.
LEMMA NoRecord ==
  ASSUME IInv, NEW k \in Rowids, Len(held[k]) = 0
  PROVE  \A i \in Held(list) : list.locks[i].key # k
<1>1. PICK at \in [1 .. Len(held[k]) -> Entries] : RecordsAt(k, at)
  BY DEF IInv, IteratorExact
<1>2. held[k] \in Seq(Types)
  BY DEF IInv, TypeOK
<1>3. \A i \in Held(list) : list.locks[i].key = k =>
        \E n \in 1 .. Len(held[k]) : i = at[n]
  BY <1>1, <1>2, RecordsAtFacts
<1> QED
  BY <1>2, <1>3

\* search stops at the newest record, and finds nothing when there is none.
LEMMA SearchFinds ==
  ASSUME IInv, NEW k \in Rowids,
         NEW at \in [1 .. Len(held[k]) -> Entries], RecordsAt(k, at)
  PROVE  /\ held[k] # <<>> => /\ search(list, k) = at[Len(held[k])]
                              /\ search(list, k) \in Entries
                              /\ list.locks[search(list, k)].type = Newest(held[k])
         /\ held[k] = <<>> => search(list, k) = NoKey
<1> DEFINE stops == {i \in Entries : ~list.locks[i].used} \cup Matching(list, k)
<1>1. stops \in SUBSET Entries
  BY DEF Matching
<1>2. ASSUME held[k] # <<>>
      PROVE  /\ search(list, k) = at[Len(held[k])]
             /\ search(list, k) \in Entries
             /\ list.locks[search(list, k)].type = Newest(held[k])
  <2> DEFINE i == at[Len(held[k])]
  <2>1. held[k] \in Seq(Types) /\ Len(held[k]) \in 1 .. Len(held[k])
    BY <1>2, LenProperties, EmptySeq DEF IInv, TypeOK
  <2>2. i \in Held(list) /\ i \in Entries /\ list.locks[i].key = k
        /\ list.locks[i].type = held[k][Len(held[k])]
    BY <2>1, RecordsAtFacts
  <2>3. i \in stops /\ list.locks[i].used
    BY <2>2 DEF Held, Matching
  <2>4. First(stops) = i
    BY <1>1, <1>2, <2>3, ProbeFinds
  <2> HIDE DEF i
  <2>5. search(list, k) = i
    BY <2>3, <2>4 DEF search
  <2> QED BY <2>2, <2>5 DEF Newest, i
<1>3. ASSUME held[k] = <<>>, search(list, k) # NoKey
      PROVE  FALSE
  <2>1. stops # {} /\ list.locks[First(stops)].used
    BY <1>3 DEF search
  <2>2. First(stops) \in stops
    BY <1>1, <2>1, FirstIsLeast
  <2>3. \E n \in Held(list) : list.locks[n].key = k
    BY <2>1, <2>2 DEF Matching, Held
  <2>4. Len(held[k]) = 0
    BY <1>3
  <2> QED BY <2>3, <2>4, NoRecord
<1> QED
  BY <1>2, <1>3

\* get_lock answers with the newest record.
LEMMA GetLockFinds ==
  ASSUME IInv, NEW k \in Rowids
  PROVE  get_lock(list, k) =
           IF held[k] = <<>> THEN "NotFound" ELSE Newest(held[k])
<1>1. PICK at \in [1 .. Len(held[k]) -> Entries] : RecordsAt(k, at)
  BY DEF IInv, IteratorExact
<1>2. CASE held[k] = <<>>
  BY <1>1, <1>2, SearchFinds DEF get_lock
<1>3. CASE held[k] # <<>>
  <2>1. /\ search(list, k) \in Entries
        /\ list.locks[search(list, k)].type = Newest(held[k])
    BY <1>1, <1>3, SearchFinds
  <2>2. search(list, k) # NoKey
    BY <2>1, LockListAssumption DEF Entries, NoKey
  <2> QED BY <1>3, <2>1, <2>2 DEF get_lock
<1> QED
  BY <1>2, <1>3

\* The records of a row whose entries, types and stack do not change stay
\* where they are.
LEMMA RecordsKept ==
  ASSUME IInv, NEW k \in Rowids, held'[k] = held[k],
         \A i \in Entries :
           /\ (i \in Held(list') /\ list'.locks[i].key = k)
                <=> (i \in Held(list) /\ list.locks[i].key = k)
           /\ i \in Held(list) /\ list.locks[i].key = k
                => list'.locks[i].type = list.locks[i].type
  PROVE  \E at \in [1 .. Len(held'[k]) -> Entries] : RecordsAt(k, at)'
<1>1. PICK at \in [1 .. Len(held[k]) -> Entries] : RecordsAt(k, at)
  BY DEF IInv, IteratorExact
<1>2. held[k] \in Seq(Types)
  BY DEF IInv, TypeOK
<1>3. {i \in Held(list') : list'.locks[i].key = k}
        = {i \in Held(list) : list.locks[i].key = k}
  BY DEF Held
<1>4. \A n \in DOMAIN at : list'.locks[at[n]].type = held'[k][n]
  BY <1>1, <1>2, RecordsAtFacts
<1>5. RecordsAt(k, at)'
  BY <1>1, <1>3, <1>4 DEF RecordsAt
<1> QED
  BY <1>1, <1>5

-----------------------------------------------------------------------------
(* The operations preserve the invariant *)

\* A step that changes nothing keeps the invariant.
LEMMA NothingChanges ==
  ASSUME IInv, UNCHANGED vars
  PROVE  IInv'
<1>1. list' = list /\ held' = held /\ removed' = removed
  BY DEF vars
<1>2. TypeOK'
  BY <1>1 DEF IInv, TypeOK
<1>3. IteratorExact'
  <2>1. \A k, at : RecordsAt(k, at)' <=> RecordsAt(k, at)
    BY <1>1 DEF RecordsAt
  <2> QED BY <1>1, <2>1 DEF IInv, IteratorExact
<1>4. ProbePath' /\ HeldFirst'
  BY <1>1 DEF IInv, ProbePath, HeldFirst
<1>5. TwiceOnlyAfterRemoval'
  BY <1>1 DEF IInv, TwiceOnlyAfterRemoval
<1> QED
  BY <1>2, <1>3, <1>4, <1>5 DEF IInv

\* An empty list has the records of no row.
LEMMA NothingRecorded ==
  ASSUME NEW k \in Rowids, Held(list) = {}, held = NoneHeld
  PROVE  \E at \in [1 .. Len(held[k]) -> Entries] : RecordsAt(k, at)
<1>1. PICK at : at = [n \in 1 .. 0 |-> 0]
  OBVIOUS
<1>2. held[k] = <<>> /\ Len(held[k]) = 0
  BY DEF NoneHeld
<1>3. at \in [1 .. 0 -> Entries] /\ DOMAIN at = {}
  BY <1>1
<1>4. RecordsAt(k, at)
  BY <1>3 DEF RecordsAt
<1> QED
  BY <1>2, <1>3, <1>4

\* The constructor establishes the invariant.
LEMMA InitInv == Init => IInv
<1> SUFFICES ASSUME Init PROVE IInv
  OBVIOUS
<1>1. list.locks = [i \in Entries |-> EmptyLock] /\ list.size = 0
      /\ held = NoneHeld
  BY DEF Init, EmptyList
<1>2. Held(list) = {}
  BY <1>1 DEF Held, EmptyLock
<1>3. TypeOK
  <2>1. list \in [locks : [Entries -> [key : Rowids \cup {NoKey}, type : Types,
                                       used : BOOLEAN, deleted : BOOLEAN]],
                  size : 0 .. MaxLocks]
    BY LockListAssumption DEF Init, EmptyList, EmptyLock, Types
  <2>2. held \in [Rowids -> Seq(Types)] /\ removed \in BOOLEAN
    BY <1>1, EmptySeq DEF Init, NoneHeld
  <2> QED BY <2>1, <2>2 DEF TypeOK
<1>4. IteratorExact
  BY <1>1, <1>2, NothingRecorded, FS_EmptySet DEF IteratorExact
<1>5. ProbePath /\ HeldFirst
  BY <1>2 DEF ProbePath, HeldFirst
<1>6. TwiceOnlyAfterRemoval
  BY <1>1 DEF TwiceOnlyAfterRemoval, NoneHeld
<1> QED
  BY <1>3, <1>4, <1>5, <1>6 DEF IInv

\* clear: nothing is held, whatever keys and marks the entries keep.
LEMMA ClearStep ==
  ASSUME IInv, Clear
  PROVE  IInv'
<1>1. PICK lk : lk = [i \in Entries |-> [list.locks[i] EXCEPT !.used = FALSE]]
  OBVIOUS
<1>2. /\ list' = [locks |-> lk, size |-> 0]
      /\ list'.locks = lk /\ list'.size = 0
      /\ held' = NoneHeld /\ removed' = FALSE
  BY <1>1 DEF Clear, clear
<1>3. /\ lk \in [Entries -> [key : Rowids \cup {NoKey}, type : Types,
                             used : BOOLEAN, deleted : BOOLEAN]]
      /\ \A i \in Entries : ~lk[i].used
  BY <1>1 DEF IInv, TypeOK
<1>4. Held(list') = {}
  BY <1>2, <1>3 DEF Held
<1>5. TypeOK'
  <2>1. held' \in [Rowids -> Seq(Types)]
    BY <1>2, EmptySeq DEF NoneHeld
  <2>2. list' \in [locks : [Entries -> [key : Rowids \cup {NoKey}, type : Types,
                                        used : BOOLEAN, deleted : BOOLEAN]],
                   size : 0 .. MaxLocks]
    BY <1>2, <1>3, LockListAssumption
  <2>3. removed' \in BOOLEAN
    BY <1>2
  <2> QED BY <2>1, <2>2, <2>3 DEF TypeOK
<1>6. IteratorExact'
  <2>1. ASSUME NEW k \in Rowids
        PROVE  \E at \in [1 .. Len(held'[k]) -> Entries] : RecordsAt(k, at)'
    <3>1. PICK at : at = [n \in 1 .. 0 |-> 0]
      OBVIOUS
    <3>2. held'[k] = <<>> /\ Len(held'[k]) = 0
      BY <1>2 DEF NoneHeld
    <3>3. at \in [1 .. 0 -> Entries] /\ DOMAIN at = {}
      BY <3>1
    <3>4. RecordsAt(k, at)'
      BY <1>4, <3>3 DEF RecordsAt
    <3> QED BY <3>2, <3>3, <3>4
  <2> QED BY <1>2, <1>4, <2>1, FS_EmptySet DEF IteratorExact
<1>7. ProbePath' /\ HeldFirst'
  BY <1>4 DEF ProbePath, HeldFirst
<1>8. TwiceOnlyAfterRemoval'
  BY <1>2 DEF TwiceOnlyAfterRemoval, NoneHeld
<1> QED
  BY <1>5, <1>6, <1>7, <1>8 DEF IInv

\* add_lock: the row goes to the first entry not held, unless every entry is
\* or an entry of the row comes before.
LEMMA AddStep ==
  ASSUME IInv, NEW k \in Rowids, NEW type \in Types, Add(k, type)
  PROVE  IInv'
<1>0. TypeOK /\ IteratorExact /\ ProbePath /\ HeldFirst /\ TwiceOnlyAfterRemoval
  BY DEF IInv
<1>1. CASE list' = list /\ held' = held
  <2>1. removed' = removed
    BY DEF Add
  <2> QED BY <1>1, <2>1, NothingChanges DEF vars
<1>2. CASE ~(list.size >= MaxLocks)
           /\ First(Unheld(list) \cup (Held(list) \cap Matching(list, k)))
                \notin Held(list)
  <2> DEFINE S == Unheld(list) \cup (Held(list) \cap Matching(list, k))
  <2>1. /\ Held(list) \in SUBSET Entries /\ Unheld(list) \in SUBSET Entries
        /\ S \in SUBSET Entries
    BY DEF Held, Unheld
  <2>2. S # {}
    <3>1. Cardinality(Held(list)) # MaxLocks /\ list.size \in Int
      BY <1>0, <1>2, LockListAssumption DEF IteratorExact, TypeOK
    <3>2. Held(list) # Entries
      BY <3>1, FS_Interval, LockListAssumption DEF Entries
    <3> QED BY <2>1, <3>2 DEF Unheld
  <2>3. PICK i \in S : i = First(S) /\ \A j \in S : ProbeRank(i) <= ProbeRank(j)
    BY <2>1, <2>2, FirstIsLeast
  <2>4. i \in Entries /\ i \notin Held(list)
    BY <1>2, <2>1, <2>3
  <2>5. PICK lk : lk = [list.locks EXCEPT ![i] =
                          [key |-> k, type |-> type,
                           used |-> TRUE, deleted |-> FALSE]]
    OBVIOUS
  <2>6. /\ list' = [locks |-> lk, size |-> list.size + 1]
        /\ held' = [held EXCEPT ![k] = Append(held[k], type)]
        /\ removed' = removed
    BY <1>2, <2>3, <2>4, <2>5 DEF Add, add_lock, insert
  <2>7. list'.locks = lk /\ list'.size = list.size + 1
    BY <2>6
  <2>8. /\ lk \in [Entries -> [key : Rowids \cup {NoKey}, type : Types,
                               used : BOOLEAN, deleted : BOOLEAN]]
        /\ lk[i].key = k /\ lk[i].type = type /\ lk[i].used /\ ~lk[i].deleted
        /\ \A j \in Entries \ {i} : lk[j] = list.locks[j]
    BY <1>0, <2>4, <2>5 DEF TypeOK
  <2>9. Held(list') = Held(list) \cup {i}
    BY <2>4, <2>7, <2>8 DEF Held
  <2>10. /\ list'.size = Cardinality(Held(list'))
         /\ list'.size \in 0 .. MaxLocks
    <3>1. Cardinality(Held(list')) = Cardinality(Held(list)) + 1
      BY <2>1, <2>4, <2>9, HeldFinite, FS_AddElement
    <3>2. list.size = Cardinality(Held(list)) /\ list.size \in 0 .. MaxLocks
      BY <1>0 DEF IteratorExact, TypeOK
    <3> QED BY <1>2, <2>7, <3>1, <3>2, LockListAssumption
  <2>11. held[k] \in Seq(Types) /\ Len(held[k]) \in Nat
    BY <1>0, LenProperties DEF TypeOK
  <2>12. /\ held' \in [Rowids -> Seq(Types)]
         /\ held'[k] = Append(held[k], type)
         /\ Len(held'[k]) = Len(held[k]) + 1
         /\ \A n \in 1 .. Len(held[k]) : held'[k][n] = held[k][n]
         /\ held'[k][Len(held[k]) + 1] = type
         /\ \A q \in Rowids : q # k => held'[q] = held[q]
    BY <1>0, <2>6, <2>11, AppendProperties DEF TypeOK
  <2>13. TypeOK'
    BY <1>0, <2>6, <2>7, <2>8, <2>10, <2>12 DEF TypeOK
  <2>14. PICK at \in [1 .. Len(held[k]) -> Entries] : RecordsAt(k, at)
    BY <1>0 DEF IteratorExact
  <2>15. \A n \in 1 .. Len(held[k]) : /\ at[n] \in Held(list) /\ at[n] # i
                                      /\ ProbeRank(i) < ProbeRank(at[n])
    <3> SUFFICES ASSUME NEW n \in 1 .. Len(held[k])
                 PROVE  /\ at[n] \in Held(list) /\ at[n] # i
                        /\ ProbeRank(i) < ProbeRank(at[n])
      OBVIOUS
    <3>1. at[n] \in Held(list) /\ at[n] \in Entries /\ list.locks[at[n]].key = k
      BY <2>11, <2>14, RecordsAtFacts
    <3>2. at[n] \in S /\ at[n] # i
      BY <2>4, <3>1 DEF Held, Matching
    <3>3. ProbeRank(i) <= ProbeRank(at[n]) /\ ProbeRank(i) # ProbeRank(at[n])
      BY <2>3, <2>4, <3>1, <3>2, RankInjective
    <3>4. ProbeRank(i) \in Nat /\ ProbeRank(at[n]) \in Nat
      BY <2>4, <3>1, RankType
    <3> QED BY <3>1, <3>2, <3>3, <3>4
  <2>16. \E to \in [1 .. Len(held'[k]) -> Entries] : RecordsAt(k, to)'
    <3>1. PICK to : to = [n \in 1 .. Len(held[k]) + 1 |->
                            IF n = Len(held[k]) + 1 THEN i ELSE at[n]]
      OBVIOUS
    <3>2. /\ to \in [1 .. Len(held'[k]) -> Entries]
          /\ DOMAIN to = 1 .. Len(held[k]) + 1
          /\ to[Len(held[k]) + 1] = i
          /\ \A n \in 1 .. Len(held[k]) : to[n] = at[n]
      BY <2>4, <2>11, <2>12, <2>14, <3>1
    <3>3. \A n \in DOMAIN to : n = Len(held[k]) + 1 \/ n \in 1 .. Len(held[k])
      BY <2>11, <3>2
    <3>4. \A n \in DOMAIN to : /\ to[n] \in Held(list')
                               /\ lk[to[n]].key = k
                               /\ lk[to[n]].type = held'[k][n]
      <4>1. \A n \in 1 .. Len(held[k]) :
              /\ at[n] \in Held(list) /\ at[n] \in Entries
              /\ list.locks[at[n]].key = k /\ list.locks[at[n]].type = held[k][n]
        BY <2>11, <2>14, RecordsAtFacts
      <4> QED BY <2>8, <2>9, <2>12, <2>15, <3>2, <3>3, <4>1
    <3>5. ASSUME NEW j \in Held(list'), lk[j].key = k
          PROVE  \E n \in DOMAIN to : j = to[n]
      <4>1. CASE j = i
        <5>1. Len(held[k]) + 1 \in DOMAIN to
          BY <2>11, <3>2
        <5> QED BY <3>2, <4>1, <5>1
      <4>2. CASE j # i
        <5>1. j \in Held(list) /\ list.locks[j].key = k
          BY <2>1, <2>8, <2>9, <3>5, <4>2
        <5>2. PICK n \in 1 .. Len(held[k]) : j = at[n]
          BY <2>11, <2>14, <5>1, RecordsAtFacts
        <5>3. n \in DOMAIN to /\ to[n] = j
          BY <2>11, <3>2, <5>2
        <5> QED BY <5>3
      <4> QED BY <4>1, <4>2
    <3>6. \A m, n \in DOMAIN to : m < n => ProbeRank(to[n]) < ProbeRank(to[m])
      <4> SUFFICES ASSUME NEW m \in DOMAIN to, NEW n \in DOMAIN to, m < n
                   PROVE  ProbeRank(to[n]) < ProbeRank(to[m])
        OBVIOUS
      <4>1. m \in 1 .. Len(held[k])
        BY <2>11, <3>2, <3>3
      <4>2. CASE n = Len(held[k]) + 1
        BY <2>15, <3>2, <4>1, <4>2
      <4>3. CASE n \in 1 .. Len(held[k])
        <5>1. ProbeRank(at[n]) < ProbeRank(at[m])
          BY <2>11, <2>14, <4>1, <4>3, RecordsAtFacts
        <5> QED BY <3>2, <4>1, <4>3, <5>1
      <4> QED BY <3>3, <4>2, <4>3
    <3>7. {to[n] : n \in DOMAIN to} = {j \in Held(list') : lk[j].key = k}
      BY <3>4, <3>5
    <3>8. RecordsAt(k, to)'
      BY <2>7, <3>4, <3>6, <3>7 DEF RecordsAt
    <3> QED BY <3>2, <3>8
  <2>17. ASSUME NEW q \in Rowids, q # k
         PROVE  \E to \in [1 .. Len(held'[q]) -> Entries] : RecordsAt(q, to)'
    <3>1. held'[q] = held[q]
      BY <2>12, <2>17
    <3>2. \A j \in Entries :
            /\ (j \in Held(list') /\ list'.locks[j].key = q)
                 <=> (j \in Held(list) /\ list.locks[j].key = q)
            /\ j \in Held(list) /\ list.locks[j].key = q
                 => list'.locks[j].type = list.locks[j].type
      BY <2>4, <2>7, <2>8, <2>9, <2>17
    <3> QED BY <3>1, <3>2, RecordsKept
  <2>18. IteratorExact'
    <3>1. \A j \in Held(list') : list'.locks[j].key \in Rowids
      BY <1>0, <2>1, <2>4, <2>7, <2>8, <2>9 DEF IteratorExact
    <3>2. \A q \in Rowids :
            \E to \in [1 .. Len(held'[q]) -> Entries] : RecordsAt(q, to)'
      BY <2>16, <2>17
    <3> QED BY <2>10, <3>1, <3>2 DEF IteratorExact
  <2>19. \A j \in Entries : ProbeRank(j) < ProbeRank(i) => j \in Held(list)
    <3> SUFFICES ASSUME NEW j \in Entries, ProbeRank(j) < ProbeRank(i),
                        j \notin Held(list)
                 PROVE  FALSE
      OBVIOUS
    <3>1. j \in S
      BY DEF Unheld
    <3>2. ProbeRank(i) <= ProbeRank(j)
      BY <2>3, <3>1
    <3>3. ProbeRank(j) \in Nat /\ ProbeRank(i) \in Nat
      BY <2>4, RankType
    <3> QED BY <3>2, <3>3
  <2>20. ProbePath'
    <3> SUFFICES ASSUME NEW a \in Held(list'), NEW j \in Entries,
                        ProbeRank(j) < ProbeRank(a)
                 PROVE  lk[j].used
      BY <2>7 DEF ProbePath
    <3>1. CASE j = i
      BY <2>8, <3>1
    <3>2. CASE j # i /\ a = i
      BY <2>8, <2>19, <3>2 DEF Held
    <3>3. CASE j # i /\ a \in Held(list)
      BY <1>0, <2>8, <3>3 DEF ProbePath
    <3> QED BY <2>9, <3>1, <3>2, <3>3
  <2>21. HeldFirst'
    BY <1>0, <2>6, <2>9, <2>19 DEF HeldFirst
  <2>22. TwiceOnlyAfterRemoval'
    <3> SUFFICES ASSUME NEW q \in Rowids, Len(held'[q]) > 1, ~removed
                 PROVE  FALSE
      BY <2>6 DEF TwiceOnlyAfterRemoval
    <3>1. CASE q # k
      BY <1>0, <2>12, <3>1 DEF TwiceOnlyAfterRemoval
    <3>2. CASE q = k
      <4>1. 1 \in 1 .. Len(held[k])
        BY <2>11, <2>12, <3>2
      <4>2. i \in Held(list)
        BY <1>0, <2>4, <2>15, <4>1 DEF HeldFirst
      <4> QED BY <2>4, <4>2
    <3> QED BY <3>1, <3>2
  <2> QED BY <2>13, <2>18, <2>20, <2>21, <2>22 DEF IInv
<1>3. (list.size >= MaxLocks) => (list' = list /\ held' = held)
  BY DEF Add, add_lock
<1>4. ~(list.size >= MaxLocks)
      /\ First(Unheld(list) \cup (Held(list) \cap Matching(list, k))) \in Held(list)
        => (list' = list /\ held' = held)
  BY DEF Add, add_lock, insert
<1> QED
  BY <1>1, <1>2, <1>3, <1>4

\* rm_lock: of all entries with its key, the newest held one is marked.
LEMMA RmStep ==
  ASSUME IInv, NEW k \in Rowids, Rm(k)
  PROVE  IInv'
<1>0. TypeOK /\ IteratorExact /\ ProbePath /\ HeldFirst /\ TwiceOnlyAfterRemoval
  BY DEF IInv
<1>1. held[k] # <<>> /\ held[k] \in Seq(Types)
  BY <1>0, GetLockFinds DEF Rm, TypeOK
<1>2. PICK at \in [1 .. Len(held[k]) -> Entries] : RecordsAt(k, at)
  BY <1>0 DEF IteratorExact
<1>3. PICK N \in Nat : N = Len(held[k]) - 1 /\ N + 1 = Len(held[k])
  <2>1. Len(held[k]) \in Nat \ {0}
    BY <1>1, EmptySeq
  <2>2. \A m \in Nat \ {0} : m - 1 \in Nat /\ (m - 1) + 1 = m
    OBVIOUS
  <2>3. Len(held[k]) - 1 \in Nat /\ (Len(held[k]) - 1) + 1 = Len(held[k])
    BY <2>1, <2>2
  <2> QED BY <2>3
<1>4. PICK i : i = at[N + 1]
  OBVIOUS
<1>5. /\ i \in Held(list) /\ i \in Entries /\ list.locks[i].key = k
      /\ Held(list) \in SUBSET Entries
  <2>1. N + 1 \in 1 .. Len(held[k])
    BY <1>3
  <2>2. i \in Held(list) /\ i \in Entries /\ list.locks[i].key = k
    BY <1>1, <1>2, <1>4, <2>1, RecordsAtFacts
  <2> QED BY <2>2 DEF Held
<1>6. First(Matching(list, k)) = i
  <2>1. i \in Matching(list, k) /\ Matching(list, k) \in SUBSET Entries
    BY <1>5 DEF Held, Matching
  <2> QED BY <1>1, <1>2, <1>3, <1>4, <2>1, ProbeFinds
<1>7. PICK lk : lk = [list.locks EXCEPT ![i].deleted = TRUE]
  OBVIOUS
<1>8. /\ list' = [locks |-> lk, size |-> list.size - 1]
      /\ list'.locks = lk /\ list'.size = list.size - 1
      /\ held' = [held EXCEPT ![k] = SubSeq(held[k], 1, N)]
      /\ removed' = TRUE
  BY <1>0, <1>3, <1>6, <1>7 DEF Rm, rm_lock, TypeOK
<1>9. /\ lk \in [Entries -> [key : Rowids \cup {NoKey}, type : Types,
                             used : BOOLEAN, deleted : BOOLEAN]]
      /\ lk[i].deleted
      /\ \A j \in Entries : /\ lk[j].key = list.locks[j].key
                            /\ lk[j].type = list.locks[j].type
                            /\ lk[j].used = list.locks[j].used
                            /\ j # i => lk[j].deleted = list.locks[j].deleted
  BY <1>0, <1>5, <1>7 DEF TypeOK
<1>10. Held(list') = Held(list) \ {i}
  BY <1>5, <1>8, <1>9 DEF Held
<1>11. list'.size = Cardinality(Held(list')) /\ list'.size \in 0 .. MaxLocks
  <2>1. Cardinality(Held(list')) = Cardinality(Held(list)) - 1
    BY <1>5, <1>10, HeldFinite, FS_RemoveElement
  <2>2. Cardinality(Held(list')) \in 0 .. MaxLocks
    BY <1>5, <1>10, HeldFinite
  <2> QED BY <1>0, <1>8, <2>1, <2>2 DEF IteratorExact
<1>12. /\ held'[k] \in Seq(Types)
       /\ Len(held'[k]) = N
       /\ \A n \in 1 .. N : held'[k][n] = held[k][n]
       /\ \A q \in Rowids : q # k => held'[q] = held[q]
  <2>1. \A n \in 1 .. N : held[k][n] \in Types
    BY <1>1, <1>3, LenProperties
  <2>2. /\ SubSeq(held[k], 1, N) \in Seq(Types)
        /\ Len(SubSeq(held[k], 1, N)) = IF 1 <= N THEN N - 1 + 1 ELSE 0
        /\ \A n \in 1 .. N - 1 + 1 : SubSeq(held[k], 1, N)[n] = held[k][1 + n - 1]
    BY <1>3, <2>1, SubSeqProperties
  <2>3. Len(SubSeq(held[k], 1, N)) = N
    BY <1>3, <2>2
  <2>4. \A n \in 1 .. N : SubSeq(held[k], 1, N)[n] = held[k][n]
    <3> SUFFICES ASSUME NEW n \in 1 .. N
                 PROVE  SubSeq(held[k], 1, N)[n] = held[k][n]
      OBVIOUS
    <3>1. n \in 1 .. N - 1 + 1 /\ 1 + n - 1 = n
      BY <1>3
    <3> QED BY <2>2, <3>1
  <2>5. held'[k] = SubSeq(held[k], 1, N)
    BY <1>0, <1>8 DEF TypeOK
  <2>6. \A q \in Rowids : q # k => held'[q] = held[q]
    BY <1>0, <1>8 DEF TypeOK
  <2> QED BY <2>2, <2>3, <2>4, <2>5, <2>6
<1>13. TypeOK'
  <2>1. held' \in [Rowids -> Seq(Types)]
    BY <1>0, <1>8, <1>12 DEF TypeOK
  <2>2. list' \in [locks : [Entries -> [key : Rowids \cup {NoKey}, type : Types,
                                        used : BOOLEAN, deleted : BOOLEAN]],
                   size : 0 .. MaxLocks]
    BY <1>8, <1>9, <1>11
  <2>3. removed' \in BOOLEAN
    BY <1>8
  <2> QED BY <2>1, <2>2, <2>3 DEF TypeOK
<1>14. \E to \in [1 .. Len(held'[k]) -> Entries] : RecordsAt(k, to)'
  <2>1. PICK to : to = [n \in 1 .. N |-> at[n]]
    OBVIOUS
  <2>2. \A n \in 1 .. N : n \in 1 .. Len(held[k])
    BY <1>3
  <2>3. /\ to \in [1 .. Len(held'[k]) -> Entries] /\ DOMAIN to = 1 .. N
        /\ \A n \in 1 .. N : to[n] = at[n]
    BY <1>2, <1>12, <2>1, <2>2
  <2>4. \A n \in 1 .. N : at[n] # i /\ at[n] \in Held(list')
    <3> SUFFICES ASSUME NEW n \in 1 .. N PROVE at[n] # i /\ at[n] \in Held(list')
      OBVIOUS
    <3>1. n < N + 1 /\ N + 1 \in 1 .. Len(held[k])
      BY <1>3
    <3>2. ProbeRank(i) < ProbeRank(at[n]) /\ at[n] \in Held(list)
          /\ at[n] \in Entries
      BY <1>1, <1>2, <1>4, <2>2, <3>1, RecordsAtFacts
    <3>3. ProbeRank(i) \in Nat
      BY <1>5, RankType
    <3>4. at[n] # i
      BY <3>2, <3>3
    <3> QED BY <1>10, <3>2, <3>4
  <2>5. \A n \in 1 .. N : lk[to[n]].key = k /\ lk[to[n]].type = held'[k][n]
    <3>1. \A n \in 1 .. N : /\ at[n] \in Entries /\ list.locks[at[n]].key = k
                            /\ list.locks[at[n]].type = held[k][n]
      BY <1>1, <1>2, <2>2, RecordsAtFacts
    <3> QED BY <1>9, <1>12, <2>3, <3>1
  <2>6. ASSUME NEW j \in Held(list'), lk[j].key = k
        PROVE  \E n \in 1 .. N : j = to[n]
    <3>1. j \in Held(list) /\ j # i /\ list.locks[j].key = k
      BY <1>5, <1>9, <1>10, <2>6
    <3>2. PICK n \in 1 .. Len(held[k]) : j = at[n]
      BY <1>1, <1>2, <3>1, RecordsAtFacts
    <3>3. n \in 1 .. N
      BY <1>3, <1>4, <3>1, <3>2
    <3> QED BY <2>3, <3>2, <3>3
  <2>7. \A m, n \in 1 .. N : m < n => ProbeRank(to[n]) < ProbeRank(to[m])
    <3>1. \A m, n \in 1 .. N : m < n => ProbeRank(at[n]) < ProbeRank(at[m])
      BY <1>1, <1>2, <2>2, RecordsAtFacts
    <3> QED BY <2>3, <3>1
  <2>8. {to[n] : n \in DOMAIN to} = {j \in Held(list') : lk[j].key = k}
    BY <2>3, <2>4, <2>5, <2>6
  <2>9. RecordsAt(k, to)'
    BY <1>8, <2>3, <2>5, <2>7, <2>8 DEF RecordsAt
  <2> QED BY <2>3, <2>9
<1>15. ASSUME NEW q \in Rowids, q # k
       PROVE  \E to \in [1 .. Len(held'[q]) -> Entries] : RecordsAt(q, to)'
  <2>1. held'[q] = held[q]
    BY <1>12, <1>15
  <2>2. \A j \in Entries :
          /\ (j \in Held(list') /\ list'.locks[j].key = q)
               <=> (j \in Held(list) /\ list.locks[j].key = q)
          /\ j \in Held(list) /\ list.locks[j].key = q
               => list'.locks[j].type = list.locks[j].type
    BY <1>5, <1>8, <1>9, <1>10, <1>15
  <2> QED BY <2>1, <2>2, RecordsKept
<1>16. IteratorExact'
  <2>1. \A j \in Held(list') : list'.locks[j].key \in Rowids
    BY <1>0, <1>5, <1>8, <1>9, <1>10 DEF IteratorExact
  <2>2. \A q \in Rowids :
          \E to \in [1 .. Len(held'[q]) -> Entries] : RecordsAt(q, to)'
    BY <1>14, <1>15
  <2> QED BY <1>11, <2>1, <2>2 DEF IteratorExact
<1>17. ProbePath'
  BY <1>0, <1>5, <1>8, <1>9, <1>10 DEF ProbePath
<1>18. HeldFirst' /\ TwiceOnlyAfterRemoval'
  BY <1>8 DEF HeldFirst, TwiceOnlyAfterRemoval
<1> QED
  BY <1>13, <1>16, <1>17, <1>18 DEF IInv

\* promote_lock: the type of the newest record of one row.
LEMMA PromoteStep ==
  ASSUME IInv, NEW k \in Rowids, Promote(k)
  PROVE  IInv'
<1>0. TypeOK /\ IteratorExact /\ ProbePath /\ HeldFirst /\ TwiceOnlyAfterRemoval
  BY DEF IInv
<1>1. held[k] # <<>> /\ held[k] \in Seq(Types)
  BY <1>0, GetLockFinds DEF Promote, TypeOK
<1>2. PICK at \in [1 .. Len(held[k]) -> Entries] : RecordsAt(k, at)
  BY <1>0 DEF IteratorExact
<1>3. PICK N \in Nat \ {0} : N = Len(held[k])
  BY <1>1, EmptySeq
<1>4. PICK i : i = at[N]
  OBVIOUS
<1>5. /\ i \in Held(list) /\ i \in Entries /\ list.locks[i].key = k
      /\ Held(list) \in SUBSET Entries
  <2>1. N \in 1 .. Len(held[k])
    BY <1>3
  <2>2. i \in Held(list) /\ i \in Entries /\ list.locks[i].key = k
    BY <1>1, <1>2, <1>4, <2>1, RecordsAtFacts
  <2> QED BY <2>2 DEF Held
<1>6. search(list, k) = i
  BY <1>1, <1>2, <1>3, <1>4, SearchFinds
<1>7. PICK lk : lk = [list.locks EXCEPT ![i].type = "EXCLUSIVE"]
  OBVIOUS
<1>8. /\ list' = [locks |-> lk, size |-> list.size]
      /\ list'.locks = lk /\ list'.size = list.size
      /\ held' = [held EXCEPT ![k] = [held[k] EXCEPT ![N] = "EXCLUSIVE"]]
      /\ removed' = removed
  BY <1>0, <1>3, <1>6, <1>7 DEF Promote, promote_lock, TypeOK
<1>9. /\ lk \in [Entries -> [key : Rowids \cup {NoKey}, type : Types,
                             used : BOOLEAN, deleted : BOOLEAN]]
      /\ lk[i].type = "EXCLUSIVE"
      /\ \A j \in Entries : /\ lk[j].key = list.locks[j].key
                            /\ j # i => lk[j].type = list.locks[j].type
                            /\ lk[j].used = list.locks[j].used
                            /\ lk[j].deleted = list.locks[j].deleted
  <2>1. /\ list.locks \in [Entries -> [key : Rowids \cup {NoKey}, type : Types,
                                      used : BOOLEAN, deleted : BOOLEAN]]
        /\ "EXCLUSIVE" \in Types
    BY <1>0 DEF TypeOK, Types
  <2> QED BY <1>5, <1>7, <2>1
<1>10. Held(list') = Held(list)
  BY <1>8, <1>9 DEF Held
<1>11. /\ held'[k] \in Seq(Types)
       /\ Len(held'[k]) = N
       /\ \A n \in 1 .. N : held'[k][n] = IF n = N THEN "EXCLUSIVE" ELSE held[k][n]
       /\ \A q \in Rowids : q # k => held'[q] = held[q]
  <2>1. held'[k] = [held[k] EXCEPT ![N] = "EXCLUSIVE"]
    BY <1>0, <1>8 DEF TypeOK
  <2>2. \A q \in Rowids : q # k => held'[q] = held[q]
    BY <1>0, <1>8 DEF TypeOK
  <2>3. N \in 1 .. Len(held[k]) /\ "EXCLUSIVE" \in Types
    BY <1>3 DEF Types
  <2>4. /\ [held[k] EXCEPT ![N] = "EXCLUSIVE"] \in Seq(Types)
        /\ Len([held[k] EXCEPT ![N] = "EXCLUSIVE"]) = Len(held[k])
        /\ \A n \in 1 .. Len(held[k]) : [held[k] EXCEPT ![N] = "EXCLUSIVE"][n]
             = IF n = N THEN "EXCLUSIVE" ELSE held[k][n]
    BY <1>1, <2>3, ExceptSeq
  <2> QED BY <1>3, <2>1, <2>2, <2>4
<1>12. TypeOK'
  <2>1. held' \in [Rowids -> Seq(Types)]
    BY <1>0, <1>8, <1>11 DEF TypeOK
  <2>2. list' \in [locks : [Entries -> [key : Rowids \cup {NoKey}, type : Types,
                                        used : BOOLEAN, deleted : BOOLEAN]],
                   size : 0 .. MaxLocks]
    BY <1>0, <1>8, <1>9 DEF TypeOK
  <2>3. removed' \in BOOLEAN
    BY <1>0, <1>8 DEF TypeOK
  <2> QED BY <2>1, <2>2, <2>3 DEF TypeOK
<1>13. RecordsAt(k, at)' /\ at \in [1 .. Len(held'[k]) -> Entries]
  <2>1. DOMAIN at = 1 .. N
    BY <1>2, <1>3
  <2>2. {j \in Held(list') : lk[j].key = k}
          = {j \in Held(list) : list.locks[j].key = k}
    BY <1>5, <1>9, <1>10
  <2>3. ASSUME NEW n \in 1 .. N PROVE lk[at[n]].type = held'[k][n]
    <3>1. /\ at[n] \in Entries /\ list.locks[at[n]].type = held[k][n]
          /\ n < N => ProbeRank(i) < ProbeRank(at[n])
      BY <1>1, <1>2, <1>3, <1>4, RecordsAtFacts
    <3>2. n < N => at[n] # i
      BY <1>5, <3>1, RankType
    <3> QED BY <1>4, <1>9, <1>11, <3>1, <3>2
  <2> QED BY <1>2, <1>3, <1>8, <1>11, <2>1, <2>2, <2>3 DEF RecordsAt
<1>14. ASSUME NEW q \in Rowids, q # k
       PROVE  \E to \in [1 .. Len(held'[q]) -> Entries] : RecordsAt(q, to)'
  <2>1. held'[q] = held[q]
    BY <1>11, <1>14
  <2>2. \A j \in Entries :
          /\ (j \in Held(list') /\ list'.locks[j].key = q)
               <=> (j \in Held(list) /\ list.locks[j].key = q)
          /\ j \in Held(list) /\ list.locks[j].key = q
               => list'.locks[j].type = list.locks[j].type
    BY <1>5, <1>8, <1>9, <1>10, <1>14
  <2> QED BY <2>1, <2>2, RecordsKept
<1>15. IteratorExact'
  <2>1. \A j \in Held(list') : list'.locks[j].key \in Rowids
    BY <1>0, <1>5, <1>8, <1>9, <1>10 DEF IteratorExact
  <2>2. \A q \in Rowids :
          \E to \in [1 .. Len(held'[q]) -> Entries] : RecordsAt(q, to)'
    BY <1>13, <1>14
  <2>3. list'.size = Cardinality(Held(list'))
    BY <1>0, <1>8, <1>10 DEF IteratorExact
  <2> QED BY <2>1, <2>2, <2>3 DEF IteratorExact
<1>16. ProbePath' /\ HeldFirst'
  BY <1>0, <1>5, <1>8, <1>9, <1>10 DEF ProbePath, HeldFirst
<1>17. TwiceOnlyAfterRemoval'
  BY <1>0, <1>3, <1>8, <1>11 DEF TwiceOnlyAfterRemoval
<1> QED
  BY <1>12, <1>15, <1>16, <1>17 DEF IInv

-----------------------------------------------------------------------------
(* The theorems *)

\* Every operation preserves the invariant.
LEMMA NextInv == IInv /\ [Next]_vars => IInv'
<1> SUFFICES ASSUME IInv, [Next]_vars PROVE IInv'
  OBVIOUS
<1>1. ASSUME NEW k \in Rowids, NEW type \in Types, Add(k, type) PROVE IInv'
  BY <1>1, AddStep
<1>2. ASSUME NEW k \in Rowids, Rm(k) PROVE IInv'
  BY <1>2, RmStep
<1>3. ASSUME NEW k \in Rowids, Promote(k) PROVE IInv'
  BY <1>3, PromoteStep
<1>4. CASE Clear
  BY <1>4, ClearStep
<1>5. CASE UNCHANGED vars
  BY <1>5, NothingChanges
<1> QED
  BY <1>1, <1>2, <1>3, <1>4, <1>5 DEF Next

\* The inductive invariant of a transaction's lock list.
THEOREM ListInvariant == Spec => []IInv
BY InitInv, NextInv, PTL DEF Spec

\* The list keeps its type, its size between zero and the limit.
THEOREM TypeCorrect == Spec => []TypeOK
<1>1. IInv => TypeOK
  BY DEF IInv
<1> QED
  BY <1>1, ListInvariant, PTL

\* For every size of the array: no pattern of additions, removals and clears
\* hides a held lock from get_lock or brings back a removed one; it answers
\* with the newest record of the row.
THEOREM GetLockTheorem == Spec => []GetLockExact
<1>1. IInv => GetLockExact
  BY GetLockFinds DEF GetLockExact
<1> QED
  BY <1>1, ListInvariant, PTL

\* For every size of the array: the iterator meets the records of every row,
\* each once, and size_ counts them.
THEOREM IteratorTheorem == Spec => []IteratorExact
<1>1. IInv => IteratorExact
  BY DEF IInv
<1> QED
  BY <1>1, ListInvariant, PTL

\* For every size of the array: no row is recorded twice before a lock is
\* removed.
THEOREM TwiceTheorem == Spec => []TwiceOnlyAfterRemoval
<1>1. IInv => TwiceOnlyAfterRemoval
  BY DEF IInv
<1> QED
  BY <1>1, ListInvariant, PTL
=============================================================================
