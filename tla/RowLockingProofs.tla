-------------------------- MODULE RowLockingProofs --------------------------
(***************************************************************************)
(* Proofs about RowLocking, for every number of rows, grants and           *)
(* inserters, as long as the 8-bit next_key_ does not wrap around          *)
(* (MaxInserts <= RowT): the inductive invariant of the table and what it  *)
(* says, that rows change only under an exclusive lock, and that every     *)
(* step of RowLocking is a step of the locked store of RWLockedStore or    *)
(* none at all.                                                            *)
(***************************************************************************)
EXTENDS RowLocking, TableProofs

-----------------------------------------------------------------------------
(* Facts about single states *)

\* The sets the counters count, and the holders of a row, are finite.
LEMMA Finiteness ==
  /\ IsFiniteSet(Slots) /\ Cardinality(Slots) = Rows
  /\ IsFiniteSet(LiveSlots) /\ IsFiniteSet(Shareable)
  /\ IsFiniteSet(Excludable)
  /\ \A k : IsFiniteSet(SharedOn(k)) /\ IsFiniteSet(ExclusiveOn(k))
<1>1. IsFiniteSet(Slots) /\ Cardinality(Slots) = Rows
  BY FS_Interval, TableAssumption DEF Slots
<1>2. LiveSlots \subseteq Slots /\ Shareable \subseteq Slots
      /\ Excludable \subseteq Slots
  BY DEF LiveSlots, Shareable, Excludable
<1>3. \A k : SharedOn(k) \subseteq Grants /\ ExclusiveOn(k) \subseteq Grants
  BY DEF SharedOn, ExclusiveOn
<1> QED
  BY <1>1, <1>2, <1>3, FS_Subset, CallersAssumption

\* A held row is live, and is the one a probe for its key ends at.
LEMMA HeldSeek ==
  ASSUME TypeOK, Layout, HeldRowsLive, NEW c \in Grants, mode[c] # "none"
  PROVE  /\ ~Spins(row[c])
         /\ Seek(row[c]) \in LiveSlots
         /\ table[Seek(row[c])].key = row[c]
<1>1. PICK i \in LiveSlots : table[i].key = row[c]
  BY DEF HeldRowsLive
<1> QED
  BY <1>1, SeekLive DEF TypeOK, Layout

-----------------------------------------------------------------------------
(* How steps change the derived sets *)

\* A step that changes the lock word of one live row keeps the layout, and
\* moves that row in or out of the sets of lockable rows.
LEMMA LockStep ==
  ASSUME TypeOK, Layout, NEW i \in LiveSlots, NEW l \in Locks,
         table' = [table EXCEPT ![i].lock = l],
         next_key' = next_key, inserts' = inserts
  PROVE  /\ table' \in [Slots -> Entry]
         /\ Layout'
         /\ LiveSlots' = LiveSlots
         /\ \A j \in Slots : table'[j].key = table[j].key
         /\ \A j \in Slots \ {i} : table'[j].lock = table[j].lock
         /\ table'[i].lock = l
         /\ Shareable' = IF l >= 0 THEN Shareable \cup {i}
                                   ELSE Shareable \ {i}
         /\ Excludable' = IF l = 0 THEN Excludable \cup {i}
                                   ELSE Excludable \ {i}
<1>1. i \in Slots /\ table[i].used /\ ~table[i].deleted
  BY DEF LiveSlots, Live
<1>2. table' \in [Slots -> Entry]
  BY <1>1 DEF TypeOK, TableTypeOK, Entry
<1>3. \A j \in Slots : /\ table'[j].key = table[j].key
                        /\ table'[j].used = table[j].used
                        /\ table'[j].deleted = table[j].deleted
                        /\ j # i => table'[j].lock = table[j].lock
  BY <1>1 DEF TypeOK, TableTypeOK, Entry
<1>4. table'[i].lock = l
  BY <1>1 DEF TypeOK, TableTypeOK, Entry
<1>5. LiveSlots' = LiveSlots
  BY <1>3 DEF LiveSlots, Live
<1>6. Layout'
  <2>1. UniqueKeys'
    BY <1>3, <1>5 DEF Layout, UniqueKeys, LiveSlots
  <2>2. ProbePath'
    BY <1>3, <1>5 DEF Layout, ProbePath, LiveSlots
  <2>3. KeysIssued'
    BY <1>3, <1>5 DEF Layout, KeysIssued, LiveSlots
  <2> QED BY <2>1, <2>2, <2>3 DEF Layout
<1>7. Shareable' = IF l >= 0 THEN Shareable \cup {i} ELSE Shareable \ {i}
  BY <1>1, <1>3, <1>4 DEF Shareable, Live
<1>8. Excludable' = IF l = 0 THEN Excludable \cup {i} ELSE Excludable \ {i}
  BY <1>1, <1>3, <1>4 DEF Excludable, Live
<1> QED
  BY <1>2, <1>3, <1>4, <1>5, <1>6, <1>7, <1>8

\* A step that changes one grant changes the holders of its row only.
LEMMA HolderStep ==
  ASSUME TypeOK, NEW c \in Grants, NEW k \in Keys, NEW m \in Modes,
         mode' = [mode EXCEPT ![c] = m],
         mode[c] = "none" \/ row[c] = k,
         row' = [row EXCEPT ![c] = k]
  PROVE  /\ mode' \in [Grants -> Modes] /\ row' \in [Grants -> Keys]
         /\ \A q : q # k => /\ SharedOn(q)' = SharedOn(q)
                            /\ ExclusiveOn(q)' = ExclusiveOn(q)
         /\ SharedOn(k)' = IF m = "SHARED" THEN SharedOn(k) \cup {c}
                                          ELSE SharedOn(k) \ {c}
         /\ ExclusiveOn(k)' = IF m = "EXCLUSIVE" THEN ExclusiveOn(k) \cup {c}
                                                ELSE ExclusiveOn(k) \ {c}
<1>1. mode \in [Grants -> Modes] /\ row \in [Grants -> Keys]
  BY DEF TypeOK
<1>2. /\ mode' \in [Grants -> Modes] /\ row' \in [Grants -> Keys]
      /\ mode'[c] = m /\ row'[c] = k
      /\ \A d \in Grants \ {c} : mode'[d] = mode[d] /\ row'[d] = row[d]
  BY <1>1
<1>3. ASSUME NEW q, q # k
      PROVE  /\ SharedOn(q)' = SharedOn(q)
             /\ ExclusiveOn(q)' = ExclusiveOn(q)
  BY <1>2, <1>3 DEF SharedOn, ExclusiveOn
<1>4. SharedOn(k)' = IF m = "SHARED" THEN SharedOn(k) \cup {c}
                                     ELSE SharedOn(k) \ {c}
  BY <1>2 DEF SharedOn
<1>5. ExclusiveOn(k)' = IF m = "EXCLUSIVE" THEN ExclusiveOn(k) \cup {c}
                                           ELSE ExclusiveOn(k) \ {c}
  BY <1>2 DEF ExclusiveOn
<1> QED
  BY <1>2, <1>3, <1>4, <1>5

\* The counters lie between zero and the number of rows, far from the ends
\* of tbl_row_t.
LEMMA CounterBounds ==
  ASSUME CountersExact
  PROVE  /\ size \in 0 .. Rows
         /\ s_avail_cnt \in 0 .. Rows
         /\ x_avail_cnt \in 0 .. Rows
<1>1. LiveSlots \subseteq Slots /\ Shareable \subseteq Slots
      /\ Excludable \subseteq Slots
  BY DEF LiveSlots, Shareable, Excludable
<1>2. /\ Cardinality(LiveSlots) \in Nat /\ Cardinality(LiveSlots) <= Rows
      /\ Cardinality(Shareable) \in Nat /\ Cardinality(Shareable) <= Rows
      /\ Cardinality(Excludable) \in Nat /\ Cardinality(Excludable) <= Rows
  BY <1>1, Finiteness, FS_Subset, FS_CardinalityType
<1> QED
  BY <1>2, TableAssumption DEF CountersExact

\* Counters that move with the lock word of one row stay exact.
LEMMA CountersStep ==
  ASSUME TypeOK, Layout, CountersExact, NEW i \in LiveSlots, NEW l \in Locks,
         table' = [table EXCEPT ![i].lock = l],
         next_key' = next_key, inserts' = inserts, size' = size,
         s_avail_cnt' = IF table[i].lock >= 0
                        THEN IF l >= 0 THEN s_avail_cnt
                             ELSE DecRow(s_avail_cnt)
                        ELSE IF l >= 0 THEN IncRow(s_avail_cnt)
                             ELSE s_avail_cnt,
         x_avail_cnt' = IF table[i].lock = 0
                        THEN IF l = 0 THEN x_avail_cnt
                             ELSE DecRow(x_avail_cnt)
                        ELSE IF l = 0 THEN IncRow(x_avail_cnt)
                             ELSE x_avail_cnt
  PROVE  /\ CountersExact'
         /\ s_avail_cnt' \in Keys /\ x_avail_cnt' \in Keys /\ size' \in Int
<1>1. i \in Slots /\ Live(i) /\ table[i].lock \in Int /\ l \in Int
  BY TableAssumption DEF LiveSlots, TypeOK, TableTypeOK, Entry, Locks
<1>2. i \in Shareable <=> table[i].lock >= 0
  BY <1>1 DEF Shareable
<1>3. i \in Excludable <=> table[i].lock = 0
  BY <1>1 DEF Excludable
<1>4. /\ LiveSlots' = LiveSlots
      /\ Shareable' = IF l >= 0 THEN Shareable \cup {i} ELSE Shareable \ {i}
      /\ Excludable' = IF l = 0 THEN Excludable \cup {i} ELSE Excludable \ {i}
  BY LockStep
<1>5. /\ s_avail_cnt = Cardinality(Shareable)
      /\ x_avail_cnt = Cardinality(Excludable)
      /\ size = Cardinality(LiveSlots)
      /\ s_avail_cnt \in 0 .. Rows /\ x_avail_cnt \in 0 .. Rows
  BY CounterBounds DEF CountersExact
<1>6. Cardinality(Shareable') = IF l >= 0
         THEN IF i \in Shareable THEN s_avail_cnt ELSE s_avail_cnt + 1
         ELSE IF i \in Shareable THEN s_avail_cnt - 1 ELSE s_avail_cnt
  BY <1>4, <1>5, Finiteness, FS_AddElement, FS_RemoveElement
<1>7. Cardinality(Excludable') = IF l = 0
         THEN IF i \in Excludable THEN x_avail_cnt ELSE x_avail_cnt + 1
         ELSE IF i \in Excludable THEN x_avail_cnt - 1 ELSE x_avail_cnt
  BY <1>4, <1>5, Finiteness, FS_AddElement, FS_RemoveElement
<1>8. /\ Cardinality(Shareable) = 0 <=> Shareable = {}
      /\ Cardinality(Excludable) = 0 <=> Excludable = {}
  BY Finiteness, FS_EmptySet
<1>9. /\ i \in Shareable => s_avail_cnt > 0
      /\ i \in Excludable => x_avail_cnt > 0
  BY <1>5, <1>8, TableAssumption
<1>10. s_avail_cnt' = Cardinality(Shareable')
  <2>1. Shareable' \subseteq Slots
    BY <1>1, <1>4 DEF Shareable
  <2>2. Cardinality(Shareable') <= Rows
    BY <2>1, Finiteness, FS_Subset
  <2> QED
    BY <1>1, <1>2, <1>5, <1>6, <1>9, <2>2, TableAssumption DEF IncRow, DecRow
<1>11. x_avail_cnt' = Cardinality(Excludable')
  <2>1. Excludable' \subseteq Slots
    BY <1>1, <1>4 DEF Excludable
  <2>2. Cardinality(Excludable') <= Rows
    BY <2>1, Finiteness, FS_Subset
  <2> QED
    BY <1>1, <1>3, <1>5, <1>7, <1>9, <2>2, TableAssumption DEF IncRow, DecRow
<1>12. s_avail_cnt' \in Keys /\ x_avail_cnt' \in Keys
  BY <1>5, TableAssumption DEF IncRow, DecRow, Keys
<1> QED
  BY <1>4, <1>5, <1>10, <1>11, <1>12
     DEF CountersExact, TypeOK, TableTypeOK

\* One grant changes from one mode to another and the lock word of its row
\* with it: enough for the whole invariant.
LEMMA GrantStep ==
  ASSUME IInv, NEW c \in Grants, NEW i \in LiveSlots, NEW l \in Locks,
         NEW m \in Modes, NEW k \in Keys, table[i].key = k,
         m = "none" \/ c \notin notify_due,
         mode[c] = "none" \/ row[c] = k,
         mode' = [mode EXCEPT ![c] = m],
         row' = [row EXCEPT ![c] = k],
         table' = [table EXCEPT ![i].lock = l],
         next_key' = next_key, size' = size, inserts' = inserts,
         sleeping' = sleeping, woken' = woken, notify_due' = notify_due,
         s_avail_cnt' = IF table[i].lock >= 0
                        THEN IF l >= 0 THEN s_avail_cnt
                             ELSE DecRow(s_avail_cnt)
                        ELSE IF l >= 0 THEN IncRow(s_avail_cnt)
                             ELSE s_avail_cnt,
         x_avail_cnt' = IF table[i].lock = 0
                        THEN IF l = 0 THEN x_avail_cnt
                             ELSE DecRow(x_avail_cnt)
                        ELSE IF l = 0 THEN IncRow(x_avail_cnt)
                             ELSE x_avail_cnt,
         \/ /\ l = -1
            /\ SharedOn(k)' = {}
            /\ \E d \in Grants : ExclusiveOn(k)' = {d}
         \/ /\ l = Cardinality(SharedOn(k)')
            /\ ExclusiveOn(k)' = {}
  PROVE  IInv'
<1>0. TypeOK /\ Layout /\ HeldRowsLive /\ CountersExact
      /\ LockEncodesHolders /\ WaitersApart /\ NoLostWakeup
  BY DEF IInv
<1>1. i \in Slots
  BY DEF LiveSlots
<1>2. /\ table' \in [Slots -> Entry]
      /\ Layout'
      /\ LiveSlots' = LiveSlots
      /\ \A j \in Slots : table'[j].key = table[j].key
      /\ \A j \in Slots \ {i} : table'[j].lock = table[j].lock
      /\ table'[i].lock = l
  BY <1>0, LockStep
<1>3. /\ mode' \in [Grants -> Modes] /\ row' \in [Grants -> Keys]
      /\ \A q : q # k => /\ SharedOn(q)' = SharedOn(q)
                         /\ ExclusiveOn(q)' = ExclusiveOn(q)
  BY <1>0, <1>1, HolderStep
<1>4. /\ CountersExact'
      /\ s_avail_cnt' \in Keys /\ x_avail_cnt' \in Keys /\ size' \in Int
  BY <1>0, CountersStep
<1>5. TypeOK'
  BY <1>0, <1>2, <1>3, <1>4 DEF TypeOK, TableTypeOK
<1>6. HeldRowsLive'
  <2> SUFFICES ASSUME NEW d \in Grants, mode'[d] # "none"
               PROVE  \E j \in LiveSlots' : table'[j].key = row'[d]
    BY DEF HeldRowsLive
  <2>1. CASE d = c
    BY <1>0, <1>1, <1>2, <2>1 DEF TypeOK
  <2>2. CASE d # c
    <3>1. mode[d] # "none" /\ row'[d] = row[d]
      BY <1>0, <2>2 DEF TypeOK
    <3>2. PICK j \in LiveSlots : table[j].key = row[d]
      BY <1>0, <3>1 DEF HeldRowsLive
    <3> QED BY <1>2, <3>1, <3>2 DEF LiveSlots
  <2> QED BY <2>1, <2>2
<1>7. LockEncodesHolders'
  <2> SUFFICES ASSUME NEW j \in LiveSlots', NEW q, q = table'[j].key
               PROVE  \/ /\ table'[j].lock = -1
                         /\ SharedOn(q)' = {}
                         /\ \E d \in Grants : ExclusiveOn(q)' = {d}
                      \/ /\ table'[j].lock = Cardinality(SharedOn(q)')
                         /\ ExclusiveOn(q)' = {}
    BY DEF LockEncodesHolders, SharedOn, ExclusiveOn
  <2>1. CASE j = i
    BY <1>1, <1>2, <2>1
  <2>2. CASE j # i
    <3>1. j \in LiveSlots /\ j \in Slots /\ table[j].key = q
      BY <1>2 DEF LiveSlots
    <3>2. q # k
      BY <1>0, <2>2, <3>1 DEF Layout, UniqueKeys
    <3>3. table'[j].lock = table[j].lock
      BY <1>2, <2>2, <3>1
    <3> QED BY <1>0, <1>3, <3>1, <3>2, <3>3 DEF LockEncodesHolders
  <2> QED BY <2>1, <2>2
<1>8. NoLostWakeup'
  BY <1>0 DEF NoLostWakeup
<1>9. WaitersApart'
  BY <1>0 DEF WaitersApart, TypeOK
<1> QED
  BY <1>2, <1>4, <1>5, <1>6, <1>7, <1>8, <1>9 DEF IInv

-----------------------------------------------------------------------------
(* The lock operations preserve the invariant *)

\* At most LkMax grants share a row, so the lock word does not overflow.
LEMMA SharedBound ==
  ASSUME NEW k
  PROVE  Cardinality(SharedOn(k)) \in 0 .. LkMax
<1>1. SharedOn(k) \subseteq Grants
  BY DEF SharedOn
<1> QED
  BY <1>1, FS_Subset, FS_CardinalityType, CallersAssumption, TableAssumption

\* wait_shared: one more shared grant, the lock word counts it.
LEMMA WaitSharedStep ==
  ASSUME IInv, NEW c \in Grants, WaitShared(c)
  PROVE  IInv'
<1> DEFINE i == SharedGrant
<1>0. TypeOK /\ Layout /\ LockEncodesHolders
  BY DEF IInv
<1>1. Shareable # {} /\ mode[c] = "none" /\ c \notin notify_due
  BY DEF WaitShared, wait_shared
<1>2. i \in LiveSlots /\ i \in Slots /\ table[i].lock >= 0
  BY <1>1, GrantIsFree DEF Shareable, LiveSlots
<1>3. table[i].key \in Keys /\ table[i].lock \in Locks
  BY <1>0, <1>2 DEF TypeOK, TableTypeOK, Entry
<1>4. PICK k \in Keys : table[i].key = k
  BY <1>3
<1>5. table[i].lock = Cardinality(SharedOn(k)) /\ ExclusiveOn(k) = {}
  BY <1>0, <1>2, <1>3, <1>4 DEF LockEncodesHolders, Locks
<1>6. /\ mode' = [mode EXCEPT ![c] = "SHARED"]
      /\ row' = [row EXCEPT ![c] = k]
      /\ "SHARED" \in Modes
  BY <1>4 DEF WaitShared, Modes
<1>7. SharedOn(k)' = SharedOn(k) \cup {c} /\ ExclusiveOn(k)' = ExclusiveOn(k) \ {c}
  BY <1>0, <1>1, <1>6, HolderStep
<1>8. c \notin SharedOn(k)
  BY <1>1 DEF SharedOn
<1>9. Cardinality(SharedOn(k)') = table[i].lock + 1
  BY <1>5, <1>7, <1>8, Finiteness, FS_AddElement
<1>10. SharedOn(k)' \subseteq Grants
  BY <1>7 DEF SharedOn
<1>11. Cardinality(SharedOn(k)') <= LkMax /\ table[i].lock \in 0 .. LkMax
  BY <1>5, <1>10, SharedBound, FS_Subset, FS_CardinalityType,
     CallersAssumption, TableAssumption
<1>12. IncLk(table[i].lock) = table[i].lock + 1
  BY <1>9, <1>11, TableAssumption DEF IncLk
<1>13. PICK l \in Locks : l = table[i].lock + 1
  BY <1>9, <1>11, TableAssumption DEF Locks
<1>14. table' = [table EXCEPT ![i].lock = l]
  BY <1>0, <1>2, <1>12, <1>13
     DEF WaitShared, wait_shared, TypeOK, TableTypeOK, Entry
<1>15. l >= 0 /\ l # 0 /\ (l = 1 <=> table[i].lock = 0)
  BY <1>11, <1>13, TableAssumption
<1>16. /\ s_avail_cnt' = s_avail_cnt
       /\ x_avail_cnt' = IF table[i].lock = 0 THEN DecRow(x_avail_cnt)
                         ELSE x_avail_cnt
  BY <1>12, <1>13, <1>15 DEF WaitShared, wait_shared
<1>17. /\ next_key' = next_key /\ size' = size /\ inserts' = inserts
       /\ sleeping' = sleeping /\ woken' = woken /\ notify_due' = notify_due
  BY DEF WaitShared, wait_shared
<1>18. l = Cardinality(SharedOn(k)') /\ ExclusiveOn(k)' = {}
  BY <1>5, <1>7, <1>9, <1>13
<1> QED
  BY <1>1, <1>2, <1>4, <1>6, <1>14, <1>15, <1>16, <1>17, <1>18, GrantStep

\* wait_exclusive: the only grant on its row.
LEMMA WaitExclusiveStep ==
  ASSUME IInv, NEW c \in Grants, WaitExclusive(c)
  PROVE  IInv'
<1> DEFINE i == ExclusiveGrant
<1>0. TypeOK /\ Layout /\ LockEncodesHolders
  BY DEF IInv
<1>1. Excludable # {} /\ mode[c] = "none" /\ c \notin notify_due
  BY DEF WaitExclusive, wait_exclusive
<1>2. i \in LiveSlots /\ i \in Slots /\ table[i].lock = 0
  BY <1>1, GrantIsFree DEF Excludable, LiveSlots
<1>3. table[i].key \in Keys
  BY <1>0, <1>2 DEF TypeOK, TableTypeOK, Entry
<1>4. PICK k \in Keys : table[i].key = k
  BY <1>3
<1>5. Cardinality(SharedOn(k)) = 0 /\ ExclusiveOn(k) = {}
  BY <1>0, <1>2, <1>4 DEF LockEncodesHolders
<1>6. SharedOn(k) = {}
  BY <1>5, Finiteness, FS_EmptySet
<1>7. /\ mode' = [mode EXCEPT ![c] = "EXCLUSIVE"]
      /\ row' = [row EXCEPT ![c] = k]
      /\ "EXCLUSIVE" \in Modes
  BY <1>4 DEF WaitExclusive, Modes
<1>8. /\ SharedOn(k)' = SharedOn(k) \ {c}
      /\ ExclusiveOn(k)' = ExclusiveOn(k) \cup {c}
  BY <1>0, <1>1, <1>7, HolderStep
<1>9. SharedOn(k)' = {} /\ ExclusiveOn(k)' = {c}
  BY <1>5, <1>6, <1>8
<1>10. PICK l \in Locks : l = -1
  BY TableAssumption DEF Locks
<1>11. /\ table' = [table EXCEPT ![i].lock = l]
       /\ s_avail_cnt' = DecRow(s_avail_cnt)
       /\ x_avail_cnt' = DecRow(x_avail_cnt)
       /\ next_key' = next_key /\ size' = size /\ inserts' = inserts
       /\ sleeping' = sleeping /\ woken' = woken /\ notify_due' = notify_due
  BY <1>10 DEF WaitExclusive, wait_exclusive
<1>12. ~(l >= 0) /\ l # 0 /\ table[i].lock >= 0
  BY <1>2, <1>10
<1> HIDE DEF i
<1> QED
  BY <1>1, <1>2, <1>4, <1>7, <1>9, <1>10, <1>11, <1>12, GrantStep

\* A caller that holds a grant: its row, its slot and its lock word.
LEMMA HeldRow ==
  ASSUME IInv, NEW c \in Grants, mode[c] # "none"
  PROVE  /\ ~Spins(row[c])
         /\ row[c] \in Keys
         /\ Seek(row[c]) \in LiveSlots /\ Seek(row[c]) \in Slots
         /\ table[Seek(row[c])].key = row[c]
         /\ mode[c] = "EXCLUSIVE" => /\ table[Seek(row[c])].lock = -1
                                     /\ SharedOn(row[c]) = {}
                                     /\ ExclusiveOn(row[c]) = {c}
         /\ mode[c] = "SHARED" => /\ table[Seek(row[c])].lock =
                                        Cardinality(SharedOn(row[c]))
                                  /\ c \in SharedOn(row[c])
                                  /\ ExclusiveOn(row[c]) = {}
<1>0. TypeOK /\ Layout /\ HeldRowsLive /\ LockEncodesHolders
  BY DEF IInv
<1>1. /\ ~Spins(row[c])
      /\ Seek(row[c]) \in LiveSlots
      /\ table[Seek(row[c])].key = row[c]
  BY <1>0, HeldSeek
<1>2. row[c] \in Keys /\ Seek(row[c]) \in Slots
  BY <1>0, <1>1 DEF TypeOK, LiveSlots
<1>3. /\ mode[c] = "EXCLUSIVE" => c \in ExclusiveOn(row[c])
      /\ mode[c] = "SHARED" => c \in SharedOn(row[c])
  BY DEF SharedOn, ExclusiveOn
<1> QED
  BY <1>0, <1>1, <1>2, <1>3 DEF LockEncodesHolders

\* promote: the one shared grant on a row becomes exclusive.
LEMMA PromoteStep ==
  ASSUME IInv, NEW c \in Grants, Promote(c)
  PROVE  IInv'
<1>0. TypeOK
  BY DEF IInv
<1>1. mode[c] = "SHARED" /\ c \notin notify_due
  BY DEF Promote, IInv, WaitersApart
<1>2. PICK k \in Keys : k = row[c]
  BY <1>0 DEF TypeOK
<1> DEFINE i == Seek(k)
<1>3. /\ i \in LiveSlots /\ table[i].key = k
      /\ table[i].lock = Cardinality(SharedOn(k))
      /\ c \in SharedOn(k) /\ ExclusiveOn(k) = {}
  BY <1>1, <1>2, HeldRow
<1>4. table[i].lock = 1
  BY <1>2 DEF Promote, promote
<1>5. SharedOn(k) = {c}
  <2>1. PICK x : SharedOn(k) = {x}
    BY <1>3, <1>4, Finiteness, FS_Singleton
  <2> QED BY <1>3, <2>1
<1>6. /\ mode' = [mode EXCEPT ![c] = "EXCLUSIVE"]
      /\ row' = [row EXCEPT ![c] = k]
      /\ "EXCLUSIVE" \in Modes
  BY <1>0, <1>2 DEF Promote, Modes, TypeOK
<1>7. /\ SharedOn(k)' = SharedOn(k) \ {c}
      /\ ExclusiveOn(k)' = ExclusiveOn(k) \cup {c}
  BY <1>0, <1>2, <1>6, HolderStep
<1>8. SharedOn(k)' = {} /\ ExclusiveOn(k)' = {c}
  BY <1>3, <1>5, <1>7
<1>9. PICK l \in Locks : l = -1
  BY TableAssumption DEF Locks
<1>10. /\ table' = [table EXCEPT ![i].lock = l]
       /\ s_avail_cnt' = DecRow(s_avail_cnt) /\ x_avail_cnt' = x_avail_cnt
       /\ next_key' = next_key /\ size' = size /\ inserts' = inserts
       /\ sleeping' = sleeping /\ woken' = woken /\ notify_due' = notify_due
  BY <1>2, <1>9 DEF Promote, promote
<1>11. ~(l >= 0) /\ l # 0 /\ table[i].lock >= 0 /\ table[i].lock # 0
  BY <1>4, <1>9
<1> HIDE DEF i
<1> QED
  BY <1>1, <1>2, <1>3, <1>6, <1>8, <1>9, <1>10, <1>11, GrantStep

\* release: of an exclusive grant, or of one of the shared ones.
LEMMA ReleaseStep ==
  ASSUME IInv, NEW c \in Grants, Release(c)
  PROVE  IInv'
<1>0. TypeOK
  BY DEF IInv
<1>1. mode[c] # "none"
  BY DEF Release
<1>2. PICK k \in Keys : k = row[c]
  BY <1>0 DEF TypeOK
<1> DEFINE i == Seek(k)
<1>3. i \in LiveSlots /\ i \in Slots /\ table[i].key = k
  BY <1>1, <1>2, HeldRow
<1>4. /\ mode' = [mode EXCEPT ![c] = "none"]
      /\ row' = [row EXCEPT ![c] = k]
      /\ "none" \in Modes
  BY <1>0, <1>2 DEF Release, Modes, TypeOK
<1>5. /\ SharedOn(k)' = SharedOn(k) \ {c}
      /\ ExclusiveOn(k)' = ExclusiveOn(k) \ {c}
  BY <1>0, <1>2, <1>4, HolderStep
<1>6. /\ next_key' = next_key /\ size' = size /\ inserts' = inserts
      /\ sleeping' = sleeping /\ woken' = woken /\ notify_due' = notify_due
  BY DEF Release, release
<1>7. CASE mode[c] = "EXCLUSIVE"
  <2>1. table[i].lock = -1 /\ SharedOn(k) = {} /\ ExclusiveOn(k) = {c}
    BY <1>2, <1>7, HeldRow
  <2>2. SharedOn(k)' = {} /\ ExclusiveOn(k)' = {}
    BY <1>5, <2>1
  <2>3. PICK l \in Locks : l = 0
    BY TableAssumption DEF Locks
  <2>4. /\ table' = [table EXCEPT ![i].lock = l]
        /\ x_avail_cnt' = IncRow(x_avail_cnt)
        /\ s_avail_cnt' = IncRow(s_avail_cnt)
    BY <1>2, <2>1, <2>3 DEF Release, release
  <2>5. l = Cardinality(SharedOn(k)') /\ l >= 0
    BY <2>2, <2>3, FS_EmptySet
  <2>6. ~(table[i].lock >= 0) /\ table[i].lock # 0
    BY <2>1
  <2> HIDE DEF i
  <2> QED
    BY <1>2, <1>3, <1>4, <1>6, <2>2, <2>3, <2>4, <2>5, <2>6, GrantStep
<1>8. CASE mode[c] = "SHARED"
  <2>1. /\ table[i].lock = Cardinality(SharedOn(k))
        /\ c \in SharedOn(k) /\ ExclusiveOn(k) = {}
    BY <1>2, <1>8, HeldRow
  <2>2. /\ Cardinality(SharedOn(k)') = table[i].lock - 1
        /\ ExclusiveOn(k)' = {}
    BY <1>5, <2>1, Finiteness, FS_RemoveElement
  <2>3. table[i].lock \in 1 .. LkMax
    <3>1. table[i].lock # 0
      BY <2>1, Finiteness, FS_EmptySet
    <3> QED BY <2>1, <3>1, SharedBound, TableAssumption
  <2>4. PICK l \in Locks : l = table[i].lock - 1
    BY <2>3, TableAssumption DEF Locks
  <2>5. DecLk(table[i].lock) = l /\ l >= 0 /\ table[i].lock # -1
    BY <2>3, <2>4, TableAssumption DEF DecLk
  <2>6. /\ table' = [table EXCEPT ![i].lock = l]
        /\ x_avail_cnt' = IF l = 0 THEN IncRow(x_avail_cnt) ELSE x_avail_cnt
        /\ s_avail_cnt' = s_avail_cnt
    BY <1>2, <2>5 DEF Release, release
  <2>7. table[i].lock >= 0 /\ table[i].lock # 0
    BY <2>3, TableAssumption
  <2> HIDE DEF i
  <2> QED
    BY <1>2, <1>3, <1>4, <1>6, <2>2, <2>4, <2>5, <2>6, <2>7, GrantStep
<1> QED
  BY <1>0, <1>1, <1>7, <1>8 DEF TypeOK, Modes

-----------------------------------------------------------------------------
(* The other operations preserve the invariant *)

\* write: a row's data is in no part of the invariant.
LEMMA WriteStep ==
  ASSUME IInv, NEW c \in Grants, NEW d \in Data, Write(c, d)
  PROVE  IInv'
<1> DEFINE i == Seek(row[c])
<1>0. TypeOK /\ i \in Slots
  BY HeldRow DEF IInv, Write
<1>1. /\ table' = [table EXCEPT ![i].data = d]
      /\ UNCHANGED <<s_avail_cnt, x_avail_cnt, size, next_key>>
      /\ UNCHANGED callers
  BY DEF Write, write
<1> HIDE DEF i
<1>2. /\ table' \in [Slots -> Entry]
      /\ \A j \in Slots : /\ table'[j].key = table[j].key
                          /\ table'[j].lock = table[j].lock
                          /\ table'[j].used = table[j].used
                          /\ table'[j].deleted = table[j].deleted
  BY <1>0, <1>1 DEF TypeOK, TableTypeOK, Entry
<1>3. /\ LiveSlots' = LiveSlots /\ Shareable' = Shareable
      /\ Excludable' = Excludable
  BY <1>2 DEF LiveSlots, Shareable, Excludable, Live
<1>4. /\ \A k : SharedOn(k)' = SharedOn(k) /\ ExclusiveOn(k)' = ExclusiveOn(k)
  BY <1>1 DEF SharedOn, ExclusiveOn, callers
<1>5. TypeOK'
  BY <1>0, <1>1, <1>2 DEF TypeOK, TableTypeOK, callers
<1>6. Layout'
  BY <1>1, <1>2, <1>3
     DEF IInv, Layout, UniqueKeys, ProbePath, KeysIssued, LiveSlots, callers
<1>7. HeldRowsLive'
  BY <1>1, <1>2, <1>3 DEF IInv, HeldRowsLive, LiveSlots, callers
<1>8. CountersExact'
  BY <1>1, <1>3 DEF IInv, CountersExact
<1>9. LockEncodesHolders'
  <2> SUFFICES ASSUME NEW j \in LiveSlots', NEW q, q = table'[j].key
               PROVE  \/ /\ table'[j].lock = -1
                         /\ SharedOn(q)' = {}
                         /\ \E e \in Grants : ExclusiveOn(q)' = {e}
                      \/ /\ table'[j].lock = Cardinality(SharedOn(q)')
                         /\ ExclusiveOn(q)' = {}
    BY DEF LockEncodesHolders, SharedOn, ExclusiveOn
  <2>1. j \in LiveSlots /\ table[j].key = q /\ table'[j].lock = table[j].lock
    BY <1>2, <1>3 DEF LiveSlots
  <2> QED BY <1>4, <2>1 DEF IInv, LockEncodesHolders
<1>10. WaitersApart' /\ NoLostWakeup'
  BY <1>1 DEF IInv, WaitersApart, NoLostWakeup, callers
<1> QED
  BY <1>5, <1>6, <1>7, <1>8, <1>9, <1>10 DEF IInv

\* remove: the row and its only grant disappear, a notification falls due.
LEMMA RemoveStep ==
  ASSUME IInv, NEW c \in Grants, Remove(c)
  PROVE  IInv'
<1>0. TypeOK /\ Layout /\ HeldRowsLive /\ CountersExact
      /\ LockEncodesHolders /\ WaitersApart /\ NoLostWakeup
  BY DEF IInv
<1>1. mode[c] = "EXCLUSIVE" /\ c \notin notify_due
  BY <1>0 DEF Remove, WaitersApart
<1>2. PICK k \in Keys : k = row[c]
  BY <1>0 DEF TypeOK
<1> DEFINE i == Seek(k)
<1>3. /\ i \in LiveSlots /\ i \in Slots /\ table[i].key = k
      /\ table[i].lock = -1 /\ SharedOn(k) = {} /\ ExclusiveOn(k) = {c}
  BY <1>1, <1>2, HeldRow
<1>4. /\ table' = [table EXCEPT ![i].deleted = TRUE]
      /\ size' = size - 1
      /\ s_avail_cnt' = s_avail_cnt /\ x_avail_cnt' = x_avail_cnt
      /\ next_key' = next_key
      /\ mode' = [mode EXCEPT ![c] = "none"] /\ row' = row
      /\ notify_due' = notify_due \cup {c}
      /\ sleeping' = sleeping /\ woken' = woken /\ inserts' = inserts
  BY <1>2 DEF Remove, remove
<1> HIDE DEF i
<1>5. /\ table' \in [Slots -> Entry]
      /\ table'[i].deleted
      /\ \A j \in Slots : /\ table'[j].key = table[j].key
                          /\ table'[j].lock = table[j].lock
                          /\ table'[j].used = table[j].used
                          /\ j # i => table'[j].deleted = table[j].deleted
  BY <1>0, <1>3, <1>4 DEF TypeOK, TableTypeOK, Entry
<1>6. LiveSlots' = LiveSlots \ {i}
  BY <1>3, <1>5 DEF LiveSlots, Live
<1>7. Shareable' = Shareable /\ Excludable' = Excludable
  <2>1. i \notin Shareable /\ i \notin Excludable
    BY <1>3 DEF Shareable, Excludable
  <2> QED BY <1>3, <1>5, <2>1 DEF Shareable, Excludable, Live
<1>8. /\ row' = [row EXCEPT ![c] = k] /\ "none" \in Modes
  BY <1>0, <1>2, <1>4 DEF TypeOK, Modes
<1>9. /\ mode' \in [Grants -> Modes] /\ row' \in [Grants -> Keys]
      /\ \A q : q # k => /\ SharedOn(q)' = SharedOn(q)
                         /\ ExclusiveOn(q)' = ExclusiveOn(q)
  BY <1>0, <1>2, <1>4, <1>8, HolderStep
<1>10. TypeOK'
  BY <1>0, <1>4, <1>5, <1>9 DEF TypeOK, TableTypeOK
<1>11. Layout'
  <2>1. UniqueKeys'
    BY <1>0, <1>5, <1>6 DEF Layout, UniqueKeys, LiveSlots
  <2>2. ProbePath'
    BY <1>0, <1>5, <1>6 DEF Layout, ProbePath, LiveSlots
  <2>3. KeysIssued'
    BY <1>0, <1>4, <1>5, <1>6 DEF Layout, KeysIssued, LiveSlots
  <2> QED BY <2>1, <2>2, <2>3 DEF Layout
<1>12. HeldRowsLive'
  <2> SUFFICES ASSUME NEW d \in Grants, mode'[d] # "none"
               PROVE  \E j \in LiveSlots' : table'[j].key = row'[d]
    BY DEF HeldRowsLive
  <2>1. d # c /\ mode[d] # "none" /\ row'[d] = row[d]
    BY <1>0, <1>4 DEF TypeOK
  <2>2. row[d] # k
    <3>1. d \notin SharedOn(k) /\ d \notin ExclusiveOn(k)
      BY <1>3, <2>1
    <3> QED BY <1>0, <2>1, <3>1 DEF SharedOn, ExclusiveOn, TypeOK, Modes
  <2>3. PICK j \in LiveSlots : table[j].key = row[d]
    BY <1>0, <2>1 DEF HeldRowsLive
  <2>4. j # i /\ j \in Slots
    BY <1>3, <2>2, <2>3 DEF LiveSlots
  <2> QED BY <1>5, <1>6, <2>1, <2>3, <2>4
<1>13. CountersExact' /\ size' = size - 1
  <2>1. Cardinality(LiveSlots') = Cardinality(LiveSlots) - 1
    BY <1>3, <1>6, Finiteness, FS_RemoveElement
  <2> QED BY <1>0, <1>4, <1>7, <2>1 DEF CountersExact
<1>14. LockEncodesHolders'
  <2> SUFFICES ASSUME NEW j \in LiveSlots', NEW q, q = table'[j].key
               PROVE  \/ /\ table'[j].lock = -1
                         /\ SharedOn(q)' = {}
                         /\ \E d \in Grants : ExclusiveOn(q)' = {d}
                      \/ /\ table'[j].lock = Cardinality(SharedOn(q)')
                         /\ ExclusiveOn(q)' = {}
    BY DEF LockEncodesHolders, SharedOn, ExclusiveOn
  <2>1. j \in LiveSlots /\ j # i /\ j \in Slots
    BY <1>6 DEF LiveSlots
  <2>2. table[j].key = q /\ q # k /\ table'[j].lock = table[j].lock
    BY <1>0, <1>3, <1>5, <2>1 DEF Layout, UniqueKeys
  <2> QED BY <1>0, <1>9, <2>1, <2>2 DEF LockEncodesHolders
<1>15. WaitersApart'
  BY <1>0, <1>4 DEF WaitersApart, TypeOK
<1>16. NoLostWakeup'
  <2>1. IsFiniteSet(notify_due) /\ IsFiniteSet(woken)
    BY <1>0, CallersAssumption, FS_Subset DEF TypeOK
  <2>2. Cardinality(notify_due') = Cardinality(notify_due) + 1
    BY <1>1, <1>4, <2>1, FS_AddElement
  <2>3. Cardinality(notify_due) \in Nat /\ Cardinality(woken) \in Nat
    BY <2>1, FS_CardinalityType
  <2>4. size \in Int
    BY <1>0 DEF TypeOK, TableTypeOK
  <2> QED
    BY <1>0, <1>4, <2>2, <2>3, <2>4, TableAssumption DEF NoLostWakeup
<1> QED
  BY <1>10, <1>11, <1>12, <1>13, <1>14, <1>15, <1>16 DEF IInv

\* Steps of the waiting protocol alone: the table and the grants do not move.
LEMMA WaitingStep ==
  ASSUME IInv, UNCHANGED <<table, s_avail_cnt, x_avail_cnt, size, next_key,
                           mode, row, inserts>>,
         sleeping' \subseteq Inserters, woken' \subseteq Inserters,
         notify_due' \subseteq notify_due, sleeping' \cap woken' = {},
         NoLostWakeup'
  PROVE  IInv'
<1>1. TypeOK'
  BY DEF IInv, TypeOK, TableTypeOK
<1>2. Layout' /\ HeldRowsLive' /\ CountersExact'
  BY DEF IInv, Layout, UniqueKeys, ProbePath, KeysIssued, HeldRowsLive,
         CountersExact, LiveSlots, Shareable, Excludable, Live
<1>3. LockEncodesHolders'
  BY DEF IInv, LockEncodesHolders, SharedOn, ExclusiveOn, LiveSlots, Live
<1>4. WaitersApart'
  BY DEF IInv, WaitersApart
<1> QED
  BY <1>1, <1>2, <1>3, <1>4 DEF IInv

\* notify_not_full: a due notification becomes a woken inserter.
LEMMA NotifyStep ==
  ASSUME IInv, NEW c \in Grants, NotifyNotFull(c)
  PROVE  IInv'
<1>0. TypeOK /\ WaitersApart /\ NoLostWakeup
  BY DEF IInv
<1>1. /\ IsFiniteSet(notify_due) /\ IsFiniteSet(woken)
      /\ Cardinality(notify_due) \in Nat /\ Cardinality(woken) \in Nat
      /\ size \in Int
  BY <1>0, CallersAssumption, FS_Subset, FS_CardinalityType
     DEF TypeOK, TableTypeOK
<1>2. Cardinality(notify_due') = Cardinality(notify_due) - 1
  BY <1>1, FS_RemoveElement DEF NotifyNotFull
<1>3. CASE sleeping = {} /\ UNCHANGED <<sleeping, woken>>
  <2>1. NoLostWakeup'
    BY <1>3 DEF NoLostWakeup
  <2> QED BY <1>0, <1>3, <2>1, WaitingStep
          DEF NotifyNotFull, TypeOK, WaitersApart
<1>4. ASSUME NEW t \in sleeping, sleeping' = sleeping \ {t},
             woken' = woken \cup {t}
      PROVE  IInv'
  <2>1. t \notin woken
    BY <1>0 DEF WaitersApart
  <2>2. Cardinality(woken') = Cardinality(woken) + 1
    BY <1>1, <1>4, <2>1, FS_AddElement
  <2>3. NoLostWakeup'
    BY <1>0, <1>1, <1>2, <2>2, TableAssumption
       DEF NoLostWakeup, NotifyNotFull
  <2>4. sleeping' \subseteq Inserters /\ woken' \subseteq Inserters
    BY <1>0, <1>4 DEF TypeOK
  <2>5. sleeping' \cap woken' = {}
    BY <1>0, <1>4 DEF WaitersApart
  <2> QED BY <2>3, <2>4, <2>5, WaitingStep DEF NotifyNotFull
<1> QED
  BY <1>3, <1>4 DEF NotifyNotFull

\* An inserter goes to sleep only when the table is full.
LEMMA InsertWaitStep ==
  ASSUME IInv, NEW t \in Inserters, InsertWait(t)
  PROVE  IInv'
<1>0. TypeOK /\ WaitersApart
  BY DEF IInv
<1>1. sleeping' \subseteq Inserters /\ woken' \subseteq Inserters
  BY <1>0 DEF TypeOK, InsertWait
<1>2. sleeping' \cap woken' = {} /\ notify_due' = notify_due
  BY <1>0 DEF WaitersApart, InsertWait
<1>3. NoLostWakeup'
  <2>1. IsFiniteSet(woken') /\ IsFiniteSet(notify_due')
    BY <1>0, <1>1, <1>2, CallersAssumption, FS_Subset DEF TypeOK
  <2>2. Cardinality(woken') \in Nat /\ Cardinality(notify_due') \in Nat
    BY <2>1, FS_CardinalityType
  <2> QED BY <2>2, TableAssumption DEF NoLostWakeup, InsertWait, full
<1> QED
  BY <1>1, <1>2, <1>3, WaitingStep DEF InsertWait

\* A wake-up without a reason does no harm.
LEMMA SpuriousWakeStep ==
  ASSUME IInv, NEW t \in Inserters, SpuriousWake(t)
  PROVE  IInv'
<1>0. TypeOK /\ WaitersApart /\ NoLostWakeup
  BY DEF IInv
<1>1. sleeping' \subseteq Inserters /\ woken' \subseteq Inserters
  BY <1>0 DEF TypeOK, SpuriousWake
<1>2. sleeping' \cap woken' = {} /\ notify_due' = notify_due
  BY <1>0 DEF WaitersApart, SpuriousWake
<1>3. NoLostWakeup'
  <2>1. IsFiniteSet(woken) /\ IsFiniteSet(notify_due) /\ t \notin woken
    BY <1>0, CallersAssumption, FS_Subset
       DEF TypeOK, WaitersApart, SpuriousWake
  <2>2. Cardinality(woken') = Cardinality(woken) + 1
    BY <2>1, FS_AddElement DEF SpuriousWake
  <2>3. Cardinality(woken) \in Nat /\ Cardinality(notify_due) \in Nat
    BY <2>1, FS_CardinalityType
  <2>4. size \in Int
    BY <1>0 DEF TypeOK, TableTypeOK
  <2> QED
    BY <1>0, <1>2, <2>2, <2>3, <2>4, TableAssumption
       DEF NoLostWakeup, SpuriousWake
<1> QED
  BY <1>1, <1>2, <1>3, WaitingStep DEF SpuriousWake

\* insert: a new row, with a key larger than all others, in the first free
\* entry of its probe path, and unlocked.
LEMMA InsertStep ==
  ASSUME IInv, MaxInserts <= RowT,
         NEW t \in Inserters, NEW d \in Data, Insert(t, d)
  PROVE  IInv'
<1>0. TypeOK /\ Layout /\ HeldRowsLive /\ CountersExact
      /\ LockEncodesHolders /\ WaitersApart /\ NoLostWakeup
  BY DEF IInv
<1>1. inserts \in Nat /\ inserts < RowT /\ next_key = inserts
      /\ next_key \in Keys
  BY <1>0, CallersAssumption, TableAssumption
     DEF TypeOK, TableTypeOK, Insert, Layout, KeysIssued
<1>2. PICK k \in Keys : k = next_key
  BY <1>1
<1>a. FreeSlots \in SUBSET Slots /\ FreeSlots # {} /\ k \in Nat
  BY TableAssumption DEF Insert, insert, FreeSlots, Keys
<1>b. /\ Nearest(k, FreeSlots) \in FreeSlots
      /\ \A j \in FreeSlots : Dist(k, Nearest(k, FreeSlots)) <= Dist(k, j)
  BY <1>a, NearestIsLeast
<1>3. PICK i \in Slots : i = Nearest(k, FreeSlots)
  BY <1>a, <1>b
<1>4. /\ i \in FreeSlots
      /\ \A j \in FreeSlots : Dist(k, i) <= Dist(k, j)
  BY <1>b, <1>3
<1>5. /\ table' = [table EXCEPT ![i] =
                     [key |-> k, data |-> d, lock |-> 0,
                      used |-> TRUE, deleted |-> FALSE]]
      /\ s_avail_cnt' = IncRow(s_avail_cnt)
      /\ x_avail_cnt' = IncRow(x_avail_cnt)
      /\ next_key' = IncRow(next_key) /\ size' = size + 1
      /\ inserts' = inserts + 1 /\ woken' = woken \ {t}
      /\ inserts < MaxInserts
      /\ mode' = mode /\ row' = row /\ sleeping' = sleeping
      /\ notify_due' = notify_due
  BY <1>2, <1>3 DEF Insert, insert
<1>6. /\ table' \in [Slots -> Entry]
      /\ \A j \in Slots \ {i} : table'[j] = table[j]
      /\ table'[i].key = k /\ table'[i].lock = 0 /\ table'[i].used
      /\ ~table'[i].deleted
  <2>1. 0 \in Locks
    BY TableAssumption DEF Locks
  <2> QED BY <1>0, <1>5, <2>1 DEF TypeOK, TableTypeOK, Entry
<1>7. /\ i \notin LiveSlots /\ i \notin Shareable /\ i \notin Excludable
  BY <1>4 DEF FreeSlots, LiveSlots, Shareable, Excludable, Live
<1>8. /\ LiveSlots' = LiveSlots \cup {i}
      /\ Shareable' = Shareable \cup {i}
      /\ Excludable' = Excludable \cup {i}
  BY <1>6 DEF LiveSlots, Shareable, Excludable, Live
<1>9. CountersExact' /\ s_avail_cnt' \in Keys /\ x_avail_cnt' \in Keys
  <2>1. /\ Cardinality(LiveSlots') = Cardinality(LiveSlots) + 1
        /\ Cardinality(Shareable') = Cardinality(Shareable) + 1
        /\ Cardinality(Excludable') = Cardinality(Excludable) + 1
    BY <1>7, <1>8, Finiteness, FS_AddElement
  <2>2. Shareable' \subseteq Slots /\ Excludable' \subseteq Slots
    BY <1>8 DEF Shareable, Excludable
  <2>3. Cardinality(Shareable') <= Rows /\ Cardinality(Excludable') <= Rows
    BY <2>2, Finiteness, FS_Subset
  <2>4. s_avail_cnt \in 0 .. Rows /\ x_avail_cnt \in 0 .. Rows
    BY <1>0, CounterBounds
  <2> QED
    BY <1>0, <1>5, <2>1, <2>3, <2>4, TableAssumption
       DEF CountersExact, IncRow, Keys
<1>10. next_key' \in Keys /\ (inserts' < RowT => next_key' = inserts')
  BY <1>1, <1>5, TableAssumption DEF IncRow, Keys
<1>11. \A j \in LiveSlots : /\ j \in Slots /\ j # i /\ table'[j] = table[j]
                            /\ table[j].key < k /\ table[j].key \in Nat
  <2>1. \A j \in LiveSlots : j \in Slots /\ j # i
    BY <1>7 DEF LiveSlots
  <2>2. \A j \in Slots : table[j].key \in Nat
    BY <1>0, TableAssumption DEF TypeOK, TableTypeOK, Entry, Keys
  <2>3. \A j \in LiveSlots : table[j].key < k
    BY <1>0, <1>1, <1>2 DEF Layout, KeysIssued
  <2> QED BY <1>6, <2>1, <2>2, <2>3
<1>12. Layout'
  <2>1. UniqueKeys'
    BY <1>0, <1>6, <1>8, <1>11 DEF Layout, UniqueKeys
  <2>2. ProbePath'
    <3> SUFFICES ASSUME NEW a \in LiveSlots', NEW j \in Slots,
                        Dist(table'[a].key, j) < Dist(table'[a].key, a)
                 PROVE  table'[j].used
      BY DEF ProbePath, Dist, Home
    <3>1. CASE j = i
      BY <1>6, <3>1
    <3>2. CASE j # i /\ a = i
      <4>1. Dist(k, j) < Dist(k, i)
        BY <1>6, <3>2
      <4>2. Dist(k, j) \in Int /\ Dist(k, i) \in Int
        BY DistType, TableAssumption DEF Keys
      <4>3. j \notin FreeSlots
        BY <1>4, <4>1, <4>2
      <4> QED BY <1>6, <3>2, <4>3 DEF FreeSlots
    <3>3. CASE j # i /\ a # i
      <4>1. a \in LiveSlots /\ table'[a] = table[a]
        BY <1>8, <1>11, <3>3
      <4>2. table[j].used
        BY <1>0, <4>1 DEF Layout, ProbePath
      <4> QED BY <1>6, <3>3, <4>2
    <3> QED BY <3>1, <3>2, <3>3
  <2>3. KeysIssued'
    BY <1>1, <1>2, <1>5, <1>6, <1>8, <1>10, <1>11 DEF KeysIssued
  <2> QED BY <2>1, <2>2, <2>3 DEF Layout
<1>13. HeldRowsLive'
  BY <1>0, <1>5, <1>8, <1>11 DEF HeldRowsLive
<1>14. \A q : SharedOn(q)' = SharedOn(q) /\ ExclusiveOn(q)' = ExclusiveOn(q)
  BY <1>5 DEF SharedOn, ExclusiveOn
<1>15. SharedOn(k) = {} /\ ExclusiveOn(k) = {}
  <2>1. \A c \in Grants : mode[c] # "none" => row[c] # k
    BY <1>0, <1>2, <1>11, TableAssumption DEF HeldRowsLive, Keys
  <2> QED BY <2>1 DEF SharedOn, ExclusiveOn
<1>16. LockEncodesHolders'
  <2> SUFFICES ASSUME NEW j \in LiveSlots', NEW q, q = table'[j].key
               PROVE  \/ /\ table'[j].lock = -1
                         /\ SharedOn(q)' = {}
                         /\ \E e \in Grants : ExclusiveOn(q)' = {e}
                      \/ /\ table'[j].lock = Cardinality(SharedOn(q)')
                         /\ ExclusiveOn(q)' = {}
    BY DEF LockEncodesHolders, SharedOn, ExclusiveOn
  <2>1. CASE j = i
    BY <1>6, <1>14, <1>15, <2>1, FS_EmptySet
  <2>2. CASE j # i
    <3>1. j \in LiveSlots /\ table'[j] = table[j]
      BY <1>8, <1>11, <2>2
    <3> QED BY <1>0, <1>14, <3>1 DEF LockEncodesHolders
  <2> QED BY <2>1, <2>2
<1>17. WaitersApart'
  BY <1>0, <1>5 DEF WaitersApart
<1>18. NoLostWakeup'
  <2>1. IsFiniteSet(woken) /\ IsFiniteSet(notify_due)
    BY <1>0, CallersAssumption, FS_Subset DEF TypeOK
  <2>2. /\ Cardinality(woken) \in Nat /\ Cardinality(notify_due) \in Nat
        /\ Cardinality(woken') \in Int
        /\ Cardinality(woken') >= Cardinality(woken) - 1
    <3>1. Cardinality(woken) \in Nat /\ Cardinality(notify_due) \in Nat
      BY <2>1, FS_CardinalityType
    <3>2. Cardinality(woken') = IF t \in woken THEN Cardinality(woken) - 1
                                ELSE Cardinality(woken)
      BY <1>5, <2>1, FS_RemoveElement
    <3> QED BY <3>1, <3>2
  <2>3. size \in Int
    BY <1>0 DEF TypeOK, TableTypeOK
  <2> QED
    BY <1>0, <1>5, <2>2, <2>3, TableAssumption DEF NoLostWakeup
<1>19. TypeOK'
  <2>1. inserts' \in 0 .. MaxInserts
    BY <1>1, <1>5, CallersAssumption
  <2> QED BY <1>0, <1>5, <1>6, <1>9, <1>10, <2>1 DEF TypeOK, TableTypeOK
<1> QED
  BY <1>9, <1>12, <1>13, <1>16, <1>17, <1>18, <1>19 DEF IInv

\* clear, while no lock is held: the table is empty again.
LEMMA ClearStep ==
  ASSUME IInv, Clear
  PROVE  IInv'
<1>0. TypeOK
  BY DEF IInv
<1>1. /\ table' \in [Slots -> Entry]
      /\ \A i \in Slots : ~table'[i].used
  <2>1. 0 \in Locks
    BY TableAssumption DEF Locks
  <2> QED BY <1>0, <2>1 DEF Clear, clear, TypeOK, TableTypeOK, Entry
<1>2. LiveSlots' = {} /\ Shareable' = {} /\ Excludable' = {}
  BY <1>1 DEF LiveSlots, Shareable, Excludable, Live
<1>3. /\ s_avail_cnt' = 0 /\ x_avail_cnt' = 0 /\ size' = 0 /\ next_key' = 0
      /\ inserts' = 0 /\ row' = row
      /\ sleeping' = {} /\ woken' = {} /\ notify_due' = {}
      /\ mode' \in [Grants -> Modes] /\ \A c \in Grants : mode'[c] = "none"
  BY DEF Clear, clear, Modes
<1>4. TypeOK'
  <2>1. 0 \in Keys /\ 0 \in 0 .. MaxInserts
    BY TableAssumption, CallersAssumption DEF Keys
  <2> QED BY <1>0, <1>1, <1>3, <2>1 DEF TypeOK, TableTypeOK
<1>5. Layout'
  BY <1>2, <1>3 DEF Layout, UniqueKeys, ProbePath, KeysIssued
<1>6. HeldRowsLive' /\ LockEncodesHolders' /\ WaitersApart' /\ NoLostWakeup'
  BY <1>2, <1>3
     DEF HeldRowsLive, LockEncodesHolders, WaitersApart, NoLostWakeup
<1>7. CountersExact'
  BY <1>2, <1>3, FS_EmptySet DEF CountersExact
<1> QED
  BY <1>4, <1>5, <1>6, <1>7 DEF IInv

-----------------------------------------------------------------------------
(* The theorems *)

\* The constructor establishes the invariant.
LEMMA InitInv == Init => IInv
<1> SUFFICES ASSUME Init PROVE IInv
  OBVIOUS
<1>1. /\ \A i \in Slots : table[i] = EmptyEntry
      /\ table \in [Slots -> Entry]
  <2>1. EmptyEntry \in Entry
    BY TableAssumption DEF EmptyEntry, Entry, Keys, Locks
  <2> QED BY <2>1 DEF Init, InitTable
<1>2. LiveSlots = {} /\ Shareable = {} /\ Excludable = {}
  BY <1>1 DEF LiveSlots, Shareable, Excludable, Live, EmptyEntry
<1>3. TypeOK
  <2>1. 0 \in Keys /\ 0 \in 0 .. MaxInserts
    BY TableAssumption, CallersAssumption DEF Keys
  <2> QED BY <1>1, <2>1
          DEF Init, InitTable, TypeOK, TableTypeOK, Modes
<1>4. Layout /\ HeldRowsLive /\ LockEncodesHolders
  BY <1>2 DEF Init, InitTable, Layout, UniqueKeys, ProbePath, KeysIssued,
              HeldRowsLive, LockEncodesHolders
<1>5. CountersExact
  BY <1>2, FS_EmptySet DEF Init, InitTable, CountersExact
<1>6. WaitersApart /\ NoLostWakeup
  BY DEF Init, WaitersApart, NoLostWakeup
<1> QED
  BY <1>3, <1>4, <1>5, <1>6 DEF IInv

\* Every operation preserves it, as long as keys are not reused.
LEMMA NextInv ==
  ASSUME MaxInserts <= RowT
  PROVE  IInv /\ [Next]_vars => IInv'
<1> SUFFICES ASSUME IInv, [Next]_vars PROVE IInv'
  OBVIOUS
<1>1. ASSUME NEW c \in Grants, WaitShared(c) PROVE IInv'
  BY <1>1, WaitSharedStep
<1>2. ASSUME NEW c \in Grants, WaitExclusive(c) PROVE IInv'
  BY <1>2, WaitExclusiveStep
<1>3. ASSUME NEW c \in Grants, Promote(c) PROVE IInv'
  BY <1>3, PromoteStep
<1>4. ASSUME NEW c \in Grants, Release(c) PROVE IInv'
  BY <1>4, ReleaseStep
<1>5. ASSUME NEW c \in Grants, Remove(c) PROVE IInv'
  BY <1>5, RemoveStep
<1>6. ASSUME NEW c \in Grants, NotifyNotFull(c) PROVE IInv'
  BY <1>6, NotifyStep
<1>7. ASSUME NEW c \in Grants, NEW d \in Data, Write(c, d) PROVE IInv'
  BY <1>7, WriteStep
<1>8. ASSUME NEW t \in Inserters, NEW d \in Data, Insert(t, d) PROVE IInv'
  BY <1>8, InsertStep
<1>9. ASSUME NEW t \in Inserters, InsertWait(t) PROVE IInv'
  BY <1>9, InsertWaitStep
<1>10. ASSUME NEW t \in Inserters, SpuriousWake(t) PROVE IInv'
  BY <1>10, SpuriousWakeStep
<1>11. CASE Clear
  BY <1>11, ClearStep
<1>12. CASE UNCHANGED vars
  <2>1. /\ sleeping' \subseteq Inserters /\ woken' \subseteq Inserters
        /\ notify_due' \subseteq notify_due /\ sleeping' \cap woken' = {}
        /\ NoLostWakeup'
    BY <1>12 DEF vars, IInv, TypeOK, WaitersApart, NoLostWakeup
  <2> QED BY <1>12, <2>1, WaitingStep DEF vars
<1> QED
  BY <1>1, <1>2, <1>3, <1>4, <1>5, <1>6, <1>7, <1>8, <1>9, <1>10, <1>11,
     <1>12 DEF Next

\* The inductive invariant of the table and its callers.
THEOREM InductiveInvariant ==
  ASSUME MaxInserts <= RowT
  PROVE  Spec => []IInv
<1>1. Init => IInv
  BY InitInv
<1>2. IInv /\ [Next]_vars => IInv'
  BY NextInv
<1> QED
  BY <1>1, <1>2, PTL DEF Spec

\* The state of the table and of its callers keeps its type.
THEOREM TypeCorrect ==
  ASSUME MaxInserts <= RowT
  PROVE  Spec => []TypeOK
<1>1. IInv => TypeOK
  BY DEF IInv
<1> QED
  BY <1>1, InductiveInvariant, PTL

\* The hand-kept counters are exact, for any number of rows and callers.
THEOREM CountersTheorem ==
  ASSUME MaxInserts <= RowT
  PROVE  Spec => []CountersExact
<1>1. IInv => CountersExact
  BY DEF IInv
<1> QED
  BY <1>1, InductiveInvariant, PTL

\* The lock words encode the holders, for any number of rows and callers: at
\* most one exclusive holder, and no shared one beside it.
THEOREM LockTheorem ==
  ASSUME MaxInserts <= RowT
  PROVE  Spec => []LockEncodesHolders
<1>1. IInv => LockEncodesHolders
  BY DEF IInv
<1> QED
  BY <1>1, InductiveInvariant, PTL

\* No key is in the table twice before next_key_ wraps.
THEOREM UniqueKeysTheorem ==
  ASSUME MaxInserts <= RowT
  PROVE  Spec => []UniqueKeys
<1>1. IInv => UniqueKeys
  BY DEF IInv, Layout
<1> QED
  BY <1>1, InductiveInvariant, PTL

\* The unbounded probes for a held row end, at that row.
THEOREM SeekTheorem ==
  ASSUME MaxInserts <= RowT
  PROVE  Spec => []SeekFindsHeldRow
<1>1. IInv => SeekFindsHeldRow
  BY HeldSeek DEF IInv, SeekFindsHeldRow, LiveSlots
<1> QED
  BY <1>1, InductiveInvariant, PTL

\* No wake-up of an inserter is lost, for any number of inserters.
THEOREM WakeupTheorem ==
  ASSUME MaxInserts <= RowT
  PROVE  Spec => []NoLostWakeup
<1>1. IInv => NoLostWakeup
  BY DEF IInv
<1> QED
  BY <1>1, InductiveInvariant, PTL

\* search finds exactly the rows of the table.
THEOREM SearchTheorem ==
  ASSUME MaxInserts <= RowT
  PROVE  Spec => []SearchExact
<1>1. ASSUME IInv, NEW k \in Keys
      PROVE  LET rows == {i \in LiveSlots : table[i].key = k}
             IN  IF rows = {} THEN search(k) = NotFound ELSE search(k) \in rows
  <2> DEFINE stops == {i \in Slots : ~table[i].used \/ i \in Matches(k)}
             rows == {i \in LiveSlots : table[i].key = k}
             n == Nearest(k, stops)
  <2>0. TypeOK /\ Layout /\ k \in Nat
    BY <1>1, TableAssumption DEF IInv, Keys
  <2>1. rows = {i \in stops : table[i].used}
    BY DEF LiveSlots, Live, Matches
  <2>2. search(k) = IF stops = {} THEN NotFound
                    ELSE IF table[n].used THEN n ELSE NotFound
    BY DEF search
  <2>3. CASE stops = {}
    BY <2>1, <2>2, <2>3
  <2>4. CASE stops # {}
    <3>1. n \in stops /\ \A j \in stops : Dist(k, n) <= Dist(k, j)
      BY <2>0, <2>4, NearestIsLeast
    <3>2. CASE table[n].used
      BY <2>1, <2>2, <2>4, <3>1, <3>2
    <3>3. CASE ~table[n].used
      <4>1. ASSUME NEW i \in rows PROVE FALSE
        <5>1. i \in stops /\ i \in Slots /\ n \in Slots /\ i \in LiveSlots
              /\ table[i].key = k /\ i # n
          BY <2>1, <3>1, <3>3
        <5>2. Dist(k, n) \in Int /\ Dist(k, i) \in Int
          BY <2>0, <5>1, DistType
        <5>3. Dist(k, n) # Dist(k, i)
          BY <2>0, <5>1, DistInjective
        <5>4. Dist(k, n) < Dist(k, i)
          BY <3>1, <5>1, <5>2, <5>3
        <5> QED BY <2>0, <3>3, <5>1, <5>4 DEF Layout, ProbePath
      <4> QED BY <2>2, <2>4, <3>3, <4>1
    <3> QED BY <3>2, <3>3
  <2> QED BY <2>3, <2>4
<1>2. IInv => SearchExact
  BY <1>1 DEF SearchExact
<1> QED
  BY <1>2, InductiveInvariant, PTL

-----------------------------------------------------------------------------
(* Rows change under an exclusive lock *)

\* A step that leaves the flags and the data of every entry alone.
Untouched ==
    \A j \in Slots : /\ table'[j].data = table[j].data
                     /\ table'[j].key = table[j].key
                     /\ table'[j].used = table[j].used
                     /\ table'[j].deleted = table[j].deleted

\* The four lock operations change one lock word and nothing else of a row.
LEMMA LockOpsUntouched ==
  ASSUME IInv, NEW c \in Grants,
         WaitShared(c) \/ WaitExclusive(c) \/ Promote(c) \/ Release(c)
  PROVE  Untouched
<1>1. TypeOK
  BY DEF IInv
<1>2. CASE WaitShared(c)
  BY <1>1, <1>2
     DEF WaitShared, wait_shared, Untouched, TypeOK, TableTypeOK, Entry
<1>3. CASE WaitExclusive(c)
  BY <1>1, <1>3
     DEF WaitExclusive, wait_exclusive, Untouched, TypeOK, TableTypeOK, Entry
<1>4. CASE Promote(c)
  BY <1>1, <1>4 DEF Promote, promote, Untouched, TypeOK, TableTypeOK, Entry
<1>5. CASE Release(c)
  BY <1>1, <1>5 DEF Release, release, Untouched, TypeOK, TableTypeOK, Entry
<1> QED
  BY <1>2, <1>3, <1>4, <1>5

\* Steps of the waiting protocol do not touch the table.
LEMMA WaitingUntouched ==
  ASSUME UNCHANGED table
  PROVE  Untouched
BY DEF Untouched

\* The rows of the table are where they were after a step that touches none.
LEMMA UntouchedLive ==
  ASSUME Untouched
  PROVE  LiveSlots' = LiveSlots
BY DEF Untouched, LiveSlots, Live

\* write: one row's data, and its caller holds that row exclusively.
LEMMA WriteChanges ==
  ASSUME IInv, NEW c \in Grants, NEW d \in Data, Write(c, d)
  PROVE  \E i \in LiveSlots :
           /\ table[i].key = row[c] /\ c \in ExclusiveOn(row[c])
           /\ table' = [table EXCEPT ![i].data = d]
           /\ LiveSlots' = LiveSlots
           /\ \A j \in Slots : table'[j].key = table[j].key
           /\ table'[i].data = d
           /\ \A j \in Slots \ {i} : table'[j].data = table[j].data
<1>1. TypeOK /\ mode[c] = "EXCLUSIVE"
  BY DEF IInv, Write
<1>2. PICK i \in LiveSlots : i = Seek(row[c])
  BY <1>1, HeldRow
<1>3. i \in Slots /\ table[i].key = row[c] /\ c \in ExclusiveOn(row[c])
  BY <1>1, <1>2, HeldRow
<1>4. table' = [table EXCEPT ![i].data = d]
  BY <1>2 DEF Write, write
<1>5. /\ \A j \in Slots : /\ table'[j].key = table[j].key
                          /\ table'[j].used = table[j].used
                          /\ table'[j].deleted = table[j].deleted
                          /\ j # i => table'[j].data = table[j].data
      /\ table'[i].data = d
  BY <1>1, <1>3, <1>4 DEF TypeOK, TableTypeOK, Entry
<1>6. LiveSlots' = LiveSlots
  BY <1>5 DEF LiveSlots, Live
<1> QED
  BY <1>3, <1>4, <1>5, <1>6

\* remove: one row disappears, and its caller held it exclusively.
LEMMA RemoveChanges ==
  ASSUME IInv, NEW c \in Grants, Remove(c)
  PROVE  \E i \in LiveSlots :
           /\ table[i].key = row[c] /\ c \in ExclusiveOn(row[c])
           /\ LiveSlots' = LiveSlots \ {i}
           /\ \A j \in Slots : /\ table'[j].key = table[j].key
                               /\ table'[j].data = table[j].data
<1>1. TypeOK /\ mode[c] = "EXCLUSIVE"
  BY DEF IInv, Remove
<1>2. PICK i \in LiveSlots : i = Seek(row[c])
  BY <1>1, HeldRow
<1>3. i \in Slots /\ table[i].key = row[c] /\ c \in ExclusiveOn(row[c])
  BY <1>1, <1>2, HeldRow
<1>4. table' = [table EXCEPT ![i].deleted = TRUE]
  BY <1>2 DEF Remove, remove
<1>5. /\ \A j \in Slots : /\ table'[j].key = table[j].key
                          /\ table'[j].data = table[j].data
                          /\ table'[j].used = table[j].used
                          /\ j # i => table'[j].deleted = table[j].deleted
      /\ table'[i].deleted
  BY <1>1, <1>3, <1>4 DEF TypeOK, TableTypeOK, Entry
<1>6. LiveSlots' = LiveSlots \ {i}
  BY <1>3, <1>5 DEF LiveSlots, Live
<1> QED
  BY <1>3, <1>5, <1>6

\* insert: one row more, in a free entry, with a key not in the table.
LEMMA InsertChanges ==
  ASSUME IInv, MaxInserts <= RowT,
         NEW t \in Inserters, NEW d \in Data, Insert(t, d)
  PROVE  \E i \in Slots \ LiveSlots :
           /\ LiveSlots' = LiveSlots \cup {i}
           /\ \A j \in LiveSlots : /\ table'[j] = table[j]
                                   /\ table[j].key # next_key
           /\ table'[i].key = next_key /\ table'[i].data = d
           /\ next_key \in Keys
<1>1. TypeOK /\ Layout
  BY DEF IInv
<1>2. next_key \in Nat /\ next_key = inserts /\ next_key \in Keys
  BY <1>1, CallersAssumption, TableAssumption
     DEF TypeOK, TableTypeOK, Insert, Layout, KeysIssued
<1>3. FreeSlots \in SUBSET Slots /\ FreeSlots # {}
  BY DEF Insert, insert, FreeSlots
<1>4. PICK i \in FreeSlots : i = Nearest(next_key, FreeSlots)
  BY <1>2, <1>3, NearestIsLeast
<1>5. i \in Slots \ LiveSlots
  BY <1>3, <1>4 DEF FreeSlots, LiveSlots, Live
<1>6. /\ table'[i] = [key |-> next_key, data |-> d, lock |-> 0,
                      used |-> TRUE, deleted |-> FALSE]
      /\ \A j \in Slots \ {i} : table'[j] = table[j]
  BY <1>1, <1>4, <1>5 DEF Insert, insert, TypeOK, TableTypeOK
<1>7. LiveSlots' = LiveSlots \cup {i}
  BY <1>5, <1>6 DEF LiveSlots, Live
<1>8. \A j \in LiveSlots : table'[j] = table[j]
  BY <1>5, <1>6 DEF LiveSlots
<1>9. \A j \in LiveSlots : table[j].key # next_key
  BY <1>1, <1>2 DEF Layout, KeysIssued
<1> QED
  BY <1>2, <1>5, <1>6, <1>7, <1>8, <1>9

\* clear: no row is left.
LEMMA ClearChanges ==
  ASSUME IInv, Clear
  PROVE  LiveSlots' = {}
<1>1. \A i \in Slots : ~table'[i].used
  BY DEF Clear, clear, IInv, TypeOK, TableTypeOK, Entry
<1> QED
  BY <1>1 DEF LiveSlots, Live

-----------------------------------------------------------------------------
(* The refinement mapping *)

\* The map from keys to data that the entries S of the array T stand for.
MapOf(T, S) ==
    [k \in {T[i].key : i \in S} |-> T[CHOOSE i \in S : T[i].key = k].data]

\* The map has the key of every entry, and its data there.
LEMMA MapValue ==
  ASSUME NEW T, NEW S,
         \A i, j \in S : T[i].key = T[j].key => i = j
  PROVE  /\ DOMAIN MapOf(T, S) = {T[i].key : i \in S}
         /\ \A i \in S : MapOf(T, S)[T[i].key] = T[i].data
<1>1. DOMAIN MapOf(T, S) = {T[i].key : i \in S}
  BY DEF MapOf
<1>2. ASSUME NEW i \in S
      PROVE  MapOf(T, S)[T[i].key] = T[i].data
  <2> DEFINE n == CHOOSE j \in S : T[j].key = T[i].key
  <2>1. n \in S /\ T[n].key = T[i].key
    OBVIOUS
  <2>2. n = i
    BY <2>1
  <2> HIDE DEF n
  <2>3. MapOf(T, S)[T[i].key] = T[n].data
    BY DEF MapOf, n
  <2> QED BY <2>2, <2>3
<1> QED
  BY <1>1, <1>2

\* A map is determined by the entries.
LEMMA MapUnique ==
  ASSUME NEW T, NEW S, NEW f,
         \A i, j \in S : T[i].key = T[j].key => i = j,
         f = [k \in {T[i].key : i \in S} |-> f[k]],
         \A i \in S : f[T[i].key] = T[i].data
  PROVE  f = MapOf(T, S)
<1> DEFINE D == {T[i].key : i \in S}
<1>1. \A i \in S : MapOf(T, S)[T[i].key] = T[i].data
  BY MapValue
<1>2. \A k \in D : MapOf(T, S)[k] = f[k]
  BY <1>1
<1>3. MapOf(T, S) = [k \in D |-> MapOf(T, S)[k]]
  BY DEF MapOf
<1> QED
  BY <1>2, <1>3

\* The store of the refinement is the map of the rows of the table.
LEMMA StoreIsMap ==
  ASSUME IInv
  PROVE  /\ DOMAIN MapOf(table, LiveSlots) = {table[i].key : i \in LiveSlots}
         /\ \A i \in LiveSlots :
              MapOf(table, LiveSlots)[table[i].key] = table[i].data
BY MapValue DEF IInv, Layout, UniqueKeys

\* The mapping takes the same keys and data to the same map.
LEMMA MapSame ==
  ASSUME IInv, IInv', LiveSlots' = LiveSlots,
         \A j \in LiveSlots : /\ table'[j].key = table[j].key
                              /\ table'[j].data = table[j].data
  PROVE  MapOf(table', LiveSlots') = MapOf(table, LiveSlots)
<1>1. PICK T : T = table'
  OBVIOUS
<1>2. PICK S : S = LiveSlots
  OBVIOUS
<1>3. PICK f : f = MapOf(table, LiveSlots)
  OBVIOUS
<1>4. \A i, j \in S : table[i].key = table[j].key => i = j
  BY <1>2 DEF IInv, Layout, UniqueKeys
<1>5. \A i, j \in S : T[i].key = T[j].key => i = j
  BY <1>1, <1>2, <1>4
<1>6. /\ f = [k \in {table[i].key : i \in S} |-> f[k]]
      /\ \A i \in S : f[table[i].key] = table[i].data
  <2>1. /\ DOMAIN f = {table[i].key : i \in S}
        /\ \A i \in S : f[table[i].key] = table[i].data
    BY <1>2, <1>3, StoreIsMap
  <2>2. f = [k \in DOMAIN f |-> f[k]]
    BY <1>3 DEF MapOf
  <2> QED BY <2>1, <2>2
<1>7. {T[i].key : i \in S} = {table[i].key : i \in S}
  BY <1>1, <1>2
<1>8. f = [k \in {T[i].key : i \in S} |-> f[k]]
  BY <1>6, <1>7
<1>9. \A i \in S : f[T[i].key] = T[i].data
  BY <1>1, <1>2, <1>6
<1>10. f = MapOf(T, S)
  BY <1>5, <1>8, <1>9, MapUnique
<1> QED
  BY <1>1, <1>2, <1>3, <1>10

\* The holders of a row in the store are the grants on it.
LEMMA HoldersAre ==
  ASSUME IInv, NEW k
  PROVE  Store!Holders(k) = SharedOn(k) \cup ExclusiveOn(k)
BY DEF Store!Holders, SharedOn, ExclusiveOn, IInv, TypeOK, Modes

-----------------------------------------------------------------------------
(* Every step is a step of the store *)

\* A step that touches no row leaves the map alone.
LEMMA UntouchedMap ==
  ASSUME IInv, IInv', Untouched
  PROVE  MapOf(table', LiveSlots') = MapOf(table, LiveSlots)
<1>1. LiveSlots' = LiveSlots /\ LiveSlots \subseteq Slots
  BY UntouchedLive DEF LiveSlots
<1> QED
  BY <1>1, MapSame DEF Untouched

\* wait_shared grants what the store would grant.
LEMMA ShareMaps ==
  ASSUME IInv, IInv', NEW c \in Grants, WaitShared(c)
  PROVE  \E k \in Keys : Store!Share(c, k)
<1> DEFINE i == SharedGrant
<1>0. TypeOK /\ LockEncodesHolders
  BY DEF IInv
<1>1. i \in LiveSlots /\ i \in Slots /\ table[i].lock >= 0
  BY GrantIsFree DEF WaitShared, wait_shared, Shareable, LiveSlots
<1>2. PICK k \in Keys : table[i].key = k
  BY <1>0, <1>1 DEF TypeOK, TableTypeOK, Entry
<1>3. ExclusiveOn(k) = {}
  BY <1>0, <1>1, <1>2 DEF LockEncodesHolders
<1>4. \A h \in Store!Holders(k) : mode[h] = "SHARED"
  BY <1>3, HoldersAre DEF SharedOn
<1>5. MapOf(table', LiveSlots') = MapOf(table, LiveSlots)
  BY LockOpsUntouched, UntouchedMap
<1>6. k \in DOMAIN MapOf(table, LiveSlots)
  BY <1>1, <1>2, StoreIsMap
<1>7. /\ mode[c] = "none"
      /\ mode' = [mode EXCEPT ![c] = "SHARED"]
      /\ row' = [row EXCEPT ![c] = k]
  BY <1>2 DEF WaitShared
<1>8. Store!Share(c, k)
  BY <1>4, <1>5, <1>6, <1>7 DEF Store!Share, MapOf
<1> QED BY <1>8

\* wait_exclusive grants what the store would grant.
LEMMA ExcludeMaps ==
  ASSUME IInv, IInv', NEW c \in Grants, WaitExclusive(c)
  PROVE  \E k \in Keys : Store!Exclude(c, k)
<1> DEFINE i == ExclusiveGrant
<1>0. TypeOK /\ LockEncodesHolders
  BY DEF IInv
<1>1. i \in LiveSlots /\ i \in Slots /\ table[i].lock = 0
  BY GrantIsFree DEF WaitExclusive, wait_exclusive, Excludable, LiveSlots
<1>2. PICK k \in Keys : table[i].key = k
  BY <1>0, <1>1 DEF TypeOK, TableTypeOK, Entry
<1>3. Cardinality(SharedOn(k)) = 0 /\ ExclusiveOn(k) = {}
  BY <1>0, <1>1, <1>2 DEF LockEncodesHolders
<1>4. Store!Holders(k) = {}
  BY <1>3, HoldersAre, Finiteness, FS_EmptySet
<1>5. MapOf(table', LiveSlots') = MapOf(table, LiveSlots)
  BY LockOpsUntouched, UntouchedMap
<1>6. k \in DOMAIN MapOf(table, LiveSlots)
  BY <1>1, <1>2, StoreIsMap
<1>7. /\ mode[c] = "none"
      /\ mode' = [mode EXCEPT ![c] = "EXCLUSIVE"]
      /\ row' = [row EXCEPT ![c] = k]
  BY <1>2 DEF WaitExclusive
<1>8. Store!Exclude(c, k)
  BY <1>4, <1>5, <1>6, <1>7 DEF Store!Exclude, MapOf
<1> QED BY <1>8

\* promote succeeds only for the one holder of a row.
LEMMA PromoteMaps ==
  ASSUME IInv, IInv', NEW c \in Grants, Promote(c)
  PROVE  Store!Promote(c)
<1>1. mode[c] = "SHARED" /\ table[Seek(row[c])].lock = 1
  BY DEF Promote, promote
<1>2. /\ Cardinality(SharedOn(row[c])) = 1 /\ c \in SharedOn(row[c])
      /\ ExclusiveOn(row[c]) = {}
  BY <1>1, HeldRow
<1>3. PICK x : SharedOn(row[c]) = {x}
  BY <1>2, Finiteness, FS_Singleton
<1>4. Store!Holders(row[c]) = {c}
  BY <1>2, <1>3, HoldersAre
<1>5. MapOf(table', LiveSlots') = MapOf(table, LiveSlots)
  BY LockOpsUntouched, UntouchedMap
<1>6. mode' = [mode EXCEPT ![c] = "EXCLUSIVE"] /\ row' = row
  BY DEF Promote
<1> QED
  BY <1>1, <1>4, <1>5, <1>6 DEF Store!Promote, MapOf

\* release gives up one grant and changes no record.
LEMMA ReleaseMaps ==
  ASSUME IInv, IInv', NEW c \in Grants, Release(c)
  PROVE  Store!Release(c)
<1>1. MapOf(table', LiveSlots') = MapOf(table, LiveSlots)
  BY LockOpsUntouched, UntouchedMap
<1>2. mode[c] # "none" /\ mode' = [mode EXCEPT ![c] = "none"] /\ row' = row
  BY DEF Release
<1> QED
  BY <1>1, <1>2 DEF Store!Release, MapOf

\* The map of the next state, from what it has at every row.
LEMMA MapNext ==
  ASSUME IInv', NEW f,
         f = [k \in {table'[i].key : i \in LiveSlots'} |-> f[k]],
         \A i \in LiveSlots' : f[table'[i].key] = table'[i].data
  PROVE  f = MapOf(table', LiveSlots')
<1>1. PICK T, S : T = table' /\ S = LiveSlots'
  OBVIOUS
<1>2. \A i, j \in S : T[i].key = T[j].key => i = j
  BY <1>1 DEF IInv, Layout, UniqueKeys
<1>3. f = [k \in {T[i].key : i \in S} |-> f[k]]
  BY <1>1
<1>4. \A i \in S : f[T[i].key] = T[i].data
  BY <1>1
<1>5. f = MapOf(T, S)
  BY <1>2, <1>3, <1>4, MapUnique
<1> QED
  BY <1>1, <1>5

\* write replaces the record of the caller's row.
LEMMA WriteMaps ==
  ASSUME IInv, IInv', NEW c \in Grants, NEW d \in Data, Write(c, d)
  PROVE  Store!Write(c, d)
<1>1. PICK i \in LiveSlots :
        /\ table[i].key = row[c]
        /\ LiveSlots' = LiveSlots
        /\ \A j \in Slots : table'[j].key = table[j].key
        /\ table'[i].data = d
        /\ \A j \in Slots \ {i} : table'[j].data = table[j].data
  BY WriteChanges
<1>2. PICK st : st = MapOf(table, LiveSlots)
  OBVIOUS
<1>3. LiveSlots \subseteq Slots
  BY DEF LiveSlots
<1>4. /\ DOMAIN st = {table[j].key : j \in LiveSlots}
      /\ \A j \in LiveSlots : st[table[j].key] = table[j].data
  BY <1>2, StoreIsMap
<1>5. PICK f : f = [st EXCEPT ![row[c]] = d]
  OBVIOUS
<1>6. st = [k \in DOMAIN st |-> st[k]]
  BY <1>2 DEF MapOf
<1>7. f = [k \in {table'[j].key : j \in LiveSlots'} |-> f[k]]
  <2>1. {table'[j].key : j \in LiveSlots'} = DOMAIN st
    BY <1>1, <1>3, <1>4
  <2> QED BY <1>5, <1>6, <2>1
<1>8. \A j \in LiveSlots : table[j].key = row[c] => j = i
  BY <1>1 DEF IInv, Layout, UniqueKeys
<1>9. \A j \in LiveSlots' : f[table'[j].key] = table'[j].data
  BY <1>1, <1>3, <1>4, <1>5, <1>8
<1>10. MapOf(table', LiveSlots') = [MapOf(table, LiveSlots) EXCEPT ![row[c]] = d]
  BY <1>2, <1>5, <1>7, <1>9, MapNext
<1>11. mode[c] = "EXCLUSIVE" /\ mode' = mode /\ row' = row
  BY DEF Write, callers
<1> QED
  BY <1>10, <1>11 DEF Store!Write, MapOf

\* remove takes the record of the caller's row out.
LEMMA RemoveMaps ==
  ASSUME IInv, IInv', NEW c \in Grants, Remove(c)
  PROVE  Store!Remove(c)
<1>1. PICK i \in LiveSlots :
        /\ table[i].key = row[c]
        /\ LiveSlots' = LiveSlots \ {i}
        /\ \A j \in Slots : /\ table'[j].key = table[j].key
                            /\ table'[j].data = table[j].data
  BY RemoveChanges
<1>2. PICK st : st = MapOf(table, LiveSlots)
  OBVIOUS
<1>3. LiveSlots \subseteq Slots
  BY DEF LiveSlots
<1>4. /\ DOMAIN st = {table[j].key : j \in LiveSlots}
      /\ \A j \in LiveSlots : st[table[j].key] = table[j].data
  BY <1>2, StoreIsMap
<1>5. \A j \in LiveSlots : table[j].key = row[c] => j = i
  BY <1>1 DEF IInv, Layout, UniqueKeys
<1>6. PICK f : f = [k \in DOMAIN st \ {row[c]} |-> st[k]]
  OBVIOUS
<1>7. {table'[j].key : j \in LiveSlots'} = DOMAIN st \ {row[c]}
  BY <1>1, <1>3, <1>4, <1>5
<1>8. f = [k \in {table'[j].key : j \in LiveSlots'} |-> f[k]]
  BY <1>6, <1>7
<1>9. \A j \in LiveSlots' : f[table'[j].key] = table'[j].data
  BY <1>1, <1>3, <1>4, <1>5, <1>6
<1>10. MapOf(table', LiveSlots') =
         [k \in DOMAIN MapOf(table, LiveSlots) \ {row[c]} |->
            MapOf(table, LiveSlots)[k]]
  BY <1>2, <1>6, <1>8, <1>9, MapNext
<1>11. /\ mode[c] = "EXCLUSIVE" /\ mode' = [mode EXCEPT ![c] = "none"]
       /\ row' = row
  BY DEF Remove
<1> QED
  BY <1>10, <1>11 DEF Store!Remove, MapOf

\* insert adds a record under a key the store does not have.
LEMMA InsertMaps ==
  ASSUME IInv, IInv', MaxInserts <= RowT,
         NEW t \in Inserters, NEW d \in Data, Insert(t, d)
  PROVE  \E k \in Keys : Store!Insert(k, d)
<1>1. PICK i \in Slots \ LiveSlots :
        /\ LiveSlots' = LiveSlots \cup {i}
        /\ \A j \in LiveSlots : /\ table'[j] = table[j]
                                /\ table[j].key # next_key
        /\ table'[i].key = next_key /\ table'[i].data = d
        /\ next_key \in Keys
  BY InsertChanges
<1>2. PICK st, k : st = MapOf(table, LiveSlots) /\ k = next_key
  OBVIOUS
<1>3. /\ DOMAIN st = {table[j].key : j \in LiveSlots}
      /\ \A j \in LiveSlots : st[table[j].key] = table[j].data
  BY <1>2, StoreIsMap
<1>4. PICK f : f = [j \in DOMAIN st \cup {k} |-> IF j = k THEN d ELSE st[j]]
  OBVIOUS
<1>5. {table'[j].key : j \in LiveSlots'} = DOMAIN st \cup {k}
  BY <1>1, <1>2, <1>3
<1>6. f = [q \in {table'[j].key : j \in LiveSlots'} |-> f[q]]
  BY <1>4, <1>5
<1>7. \A j \in LiveSlots' : f[table'[j].key] = table'[j].data
  BY <1>1, <1>2, <1>3, <1>4
<1>8. k \notin DOMAIN st /\ k \in Keys
  BY <1>1, <1>2, <1>3
<1>9. f = MapOf(table', LiveSlots')
  BY <1>6, <1>7, MapNext
<1>10. mode' = mode /\ row' = row
  BY DEF Insert
<1>11. /\ k \notin DOMAIN MapOf(table, LiveSlots)
       /\ MapOf(table', LiveSlots') =
            [j \in DOMAIN MapOf(table, LiveSlots) \cup {k} |->
               IF j = k THEN d ELSE MapOf(table, LiveSlots)[j]]
  BY <1>2, <1>4, <1>8, <1>9
<1>12. Store!Insert(k, d)
  BY <1>10, <1>11 DEF Store!Insert, MapOf
<1> QED
  BY <1>8, <1>12

\* clear empties the store and wipes out the locks.
LEMMA ClearMaps ==
  ASSUME IInv, IInv', Clear
  PROVE  Store!Clear
<1>1. LiveSlots' = {}
  BY ClearChanges
<1>2. PICK f : f = [k \in {} |-> {}]
  OBVIOUS
<1>3. {table'[i].key : i \in LiveSlots'} = {}
  BY <1>1
<1>4. f = [k \in {table'[i].key : i \in LiveSlots'} |-> f[k]]
  BY <1>2, <1>3
<1>5. f = MapOf(table', LiveSlots')
  BY <1>1, <1>4, MapNext
<1>6. mode' = [c \in Grants |-> "none"] /\ row' = row
  BY DEF Clear
<1> QED
  BY <1>2, <1>5, <1>6 DEF Store!Clear, MapOf

\* The table implements the locked store: its rows are the records, its lock
\* words grant what the holders of a row allow, its entries, counters, wait
\* sets and deleted marks do not show.
THEOREM StoreTheorem ==
  ASSUME MaxInserts <= RowT
  PROVE  Spec => ImplementsStore
<1>1. Init => Store!Init
  <2> SUFFICES ASSUME Init PROVE Store!Init
    OBVIOUS
  <2>1. LiveSlots = {}
    BY DEF Init, InitTable, LiveSlots, Live, EmptyEntry
  <2>2. MapOf(table, LiveSlots) = [k \in {} |-> {}]
    BY <2>1 DEF MapOf
  <2>3. row \in [Grants -> Keys] /\ mode = [c \in Grants |-> "none"]
    BY TableAssumption DEF Init, Keys
  <2> QED BY <2>2, <2>3 DEF Store!Init, MapOf
<1>2. ASSUME IInv, IInv', [Next]_vars
      PROVE  [Store!Next]_(Store!vars)
  <2>1. ASSUME UNCHANGED <<table, mode, row>>
        PROVE  UNCHANGED Store!vars
    <3>1. MapOf(table', LiveSlots') = MapOf(table, LiveSlots)
      BY <1>2, <2>1, WaitingUntouched, UntouchedMap
    <3> QED BY <2>1, <3>1 DEF Store!vars, MapOf
  <2>2. ASSUME NEW c \in Grants, WaitShared(c) PROVE Store!Next
    BY <1>2, <2>2, ShareMaps DEF Store!Next
  <2>3. ASSUME NEW c \in Grants, WaitExclusive(c) PROVE Store!Next
    BY <1>2, <2>3, ExcludeMaps DEF Store!Next
  <2>4. ASSUME NEW c \in Grants, Promote(c) PROVE Store!Next
    BY <1>2, <2>4, PromoteMaps DEF Store!Next
  <2>5. ASSUME NEW c \in Grants, Release(c) PROVE Store!Next
    BY <1>2, <2>5, ReleaseMaps DEF Store!Next
  <2>6. ASSUME NEW c \in Grants, Remove(c) PROVE Store!Next
    BY <1>2, <2>6, RemoveMaps DEF Store!Next
  <2>7. ASSUME NEW c \in Grants, NEW d \in Data, Write(c, d)
        PROVE  Store!Next
    BY <1>2, <2>7, WriteMaps DEF Store!Next
  <2>8. ASSUME NEW t \in Inserters, NEW d \in Data, Insert(t, d)
        PROVE  Store!Next
    BY <1>2, <2>8, InsertMaps DEF Store!Next
  <2>9. CASE Clear
    BY <1>2, <2>9, ClearMaps DEF Store!Next
  <2>10. ASSUME NEW c \in Grants, NotifyNotFull(c)
         PROVE  UNCHANGED Store!vars
    BY <2>1, <2>10 DEF NotifyNotFull
  <2>11. ASSUME NEW t \in Inserters, InsertWait(t) \/ SpuriousWake(t)
         PROVE  UNCHANGED Store!vars
    BY <2>1, <2>11 DEF InsertWait, SpuriousWake
  <2>12. CASE UNCHANGED vars
    BY <2>1, <2>12 DEF vars
  <2> QED
    BY <1>2, <2>2, <2>3, <2>4, <2>5, <2>6, <2>7, <2>8, <2>9, <2>10, <2>11,
       <2>12 DEF Next
<1>3. IInv /\ IInv' /\ [Next]_vars => [Store!Next]_(Store!vars)
  BY <1>2
<1> QED
  BY <1>1, <1>3, InductiveInvariant, PTL DEF Spec, ImplementsStore, Store!Spec
=============================================================================
