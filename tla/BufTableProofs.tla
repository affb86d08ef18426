--------------------------- MODULE BufTableProofs ---------------------------
(***************************************************************************)
(* IInv of BufTable is an invariant for every number of buffers and        *)
(* handles.  Every step moves at most one handle and changes at most one   *)
(* count, so the proof follows the sets On(b) and Incoming(b) through the  *)
(* step and compares their sizes.                                          *)
(***************************************************************************)
EXTENDS BufTable, FiniteSetTheorems, WellFoundedInduction, TLAPS

Used == {b \in Buffers : ref_count[b] > 0}

\* Adding or removing one element changes a finite cardinality by one.
LEMMA CardStep ==
    ASSUME NEW S, IsFiniteSet(S), NEW T, NEW x
    PROVE  /\ Cardinality(S) \in Nat
           /\ (T = S \cup {x} /\ x \notin S) =>
                IsFiniteSet(T) /\ Cardinality(T) = Cardinality(S) + 1
           /\ (T = S \ {x} /\ x \in S) =>
                IsFiniteSet(T) /\ Cardinality(T) = Cardinality(S) - 1
<1>1. Cardinality(S) \in Nat
  BY FS_CardinalityType
<1>2. ASSUME T = S \cup {x}, x \notin S
      PROVE  IsFiniteSet(T) /\ Cardinality(T) = Cardinality(S) + 1
  BY <1>2, FS_AddElement
<1>3. ASSUME T = S \ {x}, x \in S
      PROVE  IsFiniteSet(T) /\ Cardinality(T) = Cardinality(S) - 1
  BY <1>3, FS_RemoveElement
<1> QED
  BY <1>1, <1>2, <1>3

\* The sets whose sizes the invariant speaks of are finite.
LEMMA PoolFinite ==
    /\ IsFiniteSet(Buffers)
    /\ \A b : IsFiniteSet(On(b)) /\ IsFiniteSet(Incoming(b))
    /\ \A b : /\ Cardinality(On(b)) \in Nat
              /\ Cardinality(Incoming(b)) \in Nat
              /\ Cardinality(On(b)) <= Cardinality(Handles)
              /\ Cardinality(Incoming(b)) <= Cardinality(Handles)
    /\ IsFiniteSet(Used)
    /\ Cardinality(Handles) \in Nat
<1>1. IsFiniteSet(Buffers)
  BY PoolAssumption, FS_Interval DEF Buffers
<1>2. IsFiniteSet(Used)
  BY <1>1, FS_Subset DEF Used
<1>3. IsFiniteSet(Handles) /\ Cardinality(Handles) \in Nat
  BY PoolAssumption, FS_CardinalityType
<1>4. ASSUME NEW b
      PROVE  /\ IsFiniteSet(On(b)) /\ IsFiniteSet(Incoming(b))
             /\ Cardinality(On(b)) \in Nat /\ Cardinality(Incoming(b)) \in Nat
             /\ Cardinality(On(b)) <= Cardinality(Handles)
             /\ Cardinality(Incoming(b)) <= Cardinality(Handles)
  <2>1. On(b) \subseteq Handles /\ Incoming(b) \subseteq Handles
    BY DEF On, Incoming
  <2>2. IsFiniteSet(On(b)) /\ IsFiniteSet(Incoming(b))
    BY <1>3, <2>1, FS_Subset
  <2>3. Cardinality(On(b)) <= Cardinality(Handles)
    BY <1>3, <2>1, FS_Subset
  <2>4. Cardinality(Incoming(b)) <= Cardinality(Handles)
    BY <1>3, <2>1, FS_Subset
  <2> QED
    BY <2>2, <2>3, <2>4, FS_CardinalityType
<1> QED
  BY <1>1, <1>2, <1>3, <1>4

\* retain_ref of a buffer in use.
LEMMA Retain ==
    ASSUME IInv, NEW b \in Buffers, ref_count[b] > 0, ref_count[b] < RefMax,
           retain_ref(b)
    PROVE  /\ ref_count' \in [Buffers -> 0 .. RefMax]
           /\ ref_count'[b] = ref_count[b] + 1
           /\ \A c \in Buffers \ {b} : ref_count'[c] = ref_count[c]
           /\ size' \in Nat /\ next' \in Buffers
           /\ SizeExact'
<1>1. /\ ref_count' \in [Buffers -> 0 .. RefMax]
      /\ ref_count'[b] = ref_count[b] + 1
      /\ \A c \in Buffers \ {b} : ref_count'[c] = ref_count[c]
      /\ size' = size /\ next' = next
  BY PoolAssumption DEF retain_ref, IInv, TypeOK
<1>2. {c \in Buffers : ref_count'[c] > 0} = {c \in Buffers : ref_count[c] > 0}
  BY <1>1 DEF IInv, TypeOK
<1> QED
  BY <1>1, <1>2 DEF SizeExact, IInv, TypeOK

\* release_ref of a buffer in use.
LEMMA Release ==
    ASSUME IInv, NEW b \in Buffers, ref_count[b] > 0, release_ref(b)
    PROVE  /\ ref_count' \in [Buffers -> 0 .. RefMax]
           /\ ref_count'[b] = ref_count[b] - 1
           /\ \A c \in Buffers \ {b} : ref_count'[c] = ref_count[c]
           /\ size' \in Nat /\ next' \in Buffers
           /\ SizeExact'
<1> DEFINE U == {c \in Buffers : ref_count[c] > 0}
           V == {c \in Buffers : ref_count'[c] > 0}
<1>0. /\ ref_count \in [Buffers -> 0 .. RefMax] /\ size \in Nat
      /\ next \in Buffers /\ size = Cardinality(U) /\ RefMax \in Nat
  BY PoolAssumption DEF IInv, TypeOK, SizeExact
<1>1. /\ ref_count' \in [Buffers -> 0 .. RefMax]
      /\ ref_count'[b] = ref_count[b] - 1
      /\ \A c \in Buffers \ {b} : ref_count'[c] = ref_count[c]
      /\ next' = next
  BY <1>0 DEF release_ref
<1>2. IsFiniteSet(U) /\ b \in U
  BY PoolFinite DEF Used
<1>3. CASE ref_count[b] = 1
  <2>1. V = U \ {b}
    BY <1>0, <1>1, <1>3
  <2>2. Cardinality(V) = Cardinality(U) - 1 /\ IsFiniteSet(V)
    BY <1>2, <2>1, CardStep, Zenon
  <2>3. Cardinality(V) \in Nat
    BY <2>2, FS_CardinalityType
  <2>4. size > 0 /\ size' = size - 1
    BY <1>0, <1>3, <2>2, <2>3 DEF release_ref
  <2> QED
    BY <1>0, <1>1, <2>2, <2>3, <2>4 DEF SizeExact
<1>4. CASE ref_count[b] # 1
  <2>1. V = U
    BY <1>0, <1>1, <1>4
  <2>2. size' = size
    BY <1>0, <1>4 DEF release_ref
  <2> QED
    BY <1>0, <1>1, <2>1, <2>2 DEF SizeExact
<1> QED
  BY <1>3, <1>4

\* A buffer a handle is on is in use, and its count is below the number of
\* handles on it or coming to it.
LEMMA HandleCounted ==
    ASSUME IInv, NEW g \in Handles, ref[g] # Null
    PROVE  /\ ref[g] \in Buffers
           /\ ref_count[ref[g]] > 0
           /\ \A h \in Handles \ (On(ref[g]) \cap Incoming(ref[g])) :
                ref_count[ref[g]] < RefMax
<1> DEFINE b == ref[g]
           n == Cardinality(On(b))
           m == Cardinality(Incoming(b))
           N == Cardinality(Handles)
<1>1. b \in Buffers /\ g \in On(b)
  BY DEF IInv, TypeOK, On
<1>2. /\ IsFiniteSet(On(b)) /\ IsFiniteSet(Incoming(b))
      /\ n \in Nat /\ m \in Nat /\ N \in Nat /\ n <= N /\ m <= N
  BY PoolFinite
<1>3. ref_count[b] = n + m
  BY <1>1 DEF IInv, RefCountExact
<1>4. n # 0
  BY <1>1, <1>2, FS_EmptySet
<1>5. IsFiniteSet(Handles) /\ 2 * N <= RefMax /\ RefMax \in Nat
  BY PoolAssumption
<1>6. ASSUME NEW h \in Handles, h \notin On(b) \cap Incoming(b)
      PROVE  n + m < RefMax
  <2>1. CASE h \notin On(b)
    <3>1. On(b) \subseteq Handles /\ On(b) # Handles
      BY <2>1, <1>6 DEF On
    <3>2. n < N
      BY <3>1, <1>2, <1>5, FS_Subset
    <3> QED
      BY <3>2, <1>2, <1>5
  <2>2. CASE h \notin Incoming(b)
    <3>1. Incoming(b) \subseteq Handles /\ Incoming(b) # Handles
      BY <2>2, <1>6 DEF Incoming
    <3>2. m < N
      BY <3>1, <1>2, <1>5, FS_Subset
    <3> QED
      BY <3>2, <1>2, <1>5
  <2> QED
    BY <1>6, <2>1, <2>2
<1> QED
  BY <1>1, <1>2, <1>3, <1>4, <1>6

\* What the step of a handle must show of the sets On and Incoming.
LEMMA CountsFollow ==
    ASSUME IInv,
           \A c \in Buffers :
             \/ /\ ref_count'[c] = ref_count[c]
                /\ Cardinality(On(c)') = Cardinality(On(c))
                /\ Cardinality(Incoming(c)') = Cardinality(Incoming(c))
             \/ /\ ref_count'[c] = ref_count[c] + 1
                /\ \/ /\ Cardinality(On(c)') = Cardinality(On(c)) + 1
                      /\ Cardinality(Incoming(c)') = Cardinality(Incoming(c))
                   \/ /\ Cardinality(On(c)') = Cardinality(On(c))
                      /\ Cardinality(Incoming(c)') = Cardinality(Incoming(c)) + 1
             \/ /\ ref_count'[c] = ref_count[c] - 1
                /\ \/ /\ Cardinality(On(c)') = Cardinality(On(c)) - 1
                      /\ Cardinality(Incoming(c)') = Cardinality(Incoming(c))
                   \/ /\ Cardinality(On(c)') = Cardinality(On(c))
                      /\ Cardinality(Incoming(c)') = Cardinality(Incoming(c)) - 1
             \/ /\ ref_count'[c] = ref_count[c]
                /\ Cardinality(On(c)') = Cardinality(On(c)) + 1
                /\ Cardinality(Incoming(c)') = Cardinality(Incoming(c)) - 1
    PROVE  RefCountExact'
<1>1. SUFFICES ASSUME NEW c \in Buffers
               PROVE  ref_count'[c] = Cardinality(On(c)') + Cardinality(Incoming(c)')
  BY DEF RefCountExact
<1>2. /\ Cardinality(On(c)) \in Nat /\ Cardinality(Incoming(c)) \in Nat
      /\ ref_count[c] = Cardinality(On(c)) + Cardinality(Incoming(c))
  BY PoolFinite DEF IInv, RefCountExact
<1> QED
  BY <1>2

\* The search of request ends at an unused buffer.
LEMMA FirstUnusedIsUnused ==
    ASSUME TypeOK, Unused # {}
    PROVE  FirstUnused \in Unused
<1> DEFINE D == {Ahead(c) : c \in Unused}
           Less == {p \in Nat \X Nat : p[1] < p[2]}
<1>1. D \subseteq Nat /\ D # {}
  <2>1. \A c \in Unused : Ahead(c) \in Nat
    BY PoolAssumption DEF Unused, Ahead, TypeOK, Buffers
  <2> QED
    BY <2>1
<1>2. IsWellFoundedOn(Less, Nat)
  BY NatLessThanWellFounded, Zenon DEF OpToRel
<1>3. PICK n \in D : \A m \in D : ~(<<m, n>> \in Less)
  <2> HIDE DEF D, Less
  <2> QED
    BY <1>1, <1>2, WFMin
<1>4. \A m \in D : n <= m
  <2>1. SUFFICES ASSUME NEW m \in D PROVE n <= m
    OBVIOUS
  <2>2. m \in Nat /\ n \in Nat
    BY <1>1
  <2>3. <<m, n>> \notin Less
    BY <1>3
  <2>4. ~(m < n)
    BY <2>2, <2>3
  <2> QED
    BY <2>2, <2>4
<1>5. \E b \in Unused : \A c \in Unused : Ahead(b) <= Ahead(c)
  BY <1>4
<1> QED
  BY <1>5 DEF FirstUnused

\* request gives the handle a buffer that had no reference.
LEMMA RequestStep ==
    ASSUME IInv, NEW h \in Handles, request(h)
    PROVE  IInv' /\ \A g \in Handles : ref[g] # ref'[h]
<1>0. TypeOK /\ PendingInPlace /\ RefCountExact /\ SizeExact /\ RefMax \in Nat
  BY PoolAssumption DEF IInv
<1>b. PICK b : b = FirstUnused
  OBVIOUS
<1>1. b \in Unused
  BY <1>0, <1>b, FirstUnusedIsUnused DEF request
<1>2. b \in Buffers /\ ref_count[b] = 0
  BY <1>1 DEF Unused
<1>3. /\ ref_count' = [ref_count EXCEPT ![b] = 1]
      /\ next' = Following(b) /\ size' = size + 1
      /\ ref' = [ref EXCEPT ![h] = b] /\ pending' = pending
      /\ ref[h] = Null /\ Idle(h)
  BY <1>b DEF request
<1>4. On(b) = {} /\ Incoming(b) = {}
  <2>1. /\ Cardinality(On(b)) \in Nat /\ Cardinality(Incoming(b)) \in Nat
        /\ IsFiniteSet(On(b)) /\ IsFiniteSet(Incoming(b))
    BY PoolFinite
  <2>2. Cardinality(On(b)) = 0 /\ Cardinality(Incoming(b)) = 0
    BY <1>0, <1>2, <2>1 DEF RefCountExact
  <2> QED
    BY <2>1, <2>2, FS_EmptySet
<1>5. \A g \in Handles : ref[g] # ref'[h]
  BY <1>0, <1>3, <1>4 DEF On, TypeOK
<1>6. Cardinality(Handles) >= 1 /\ RefMax >= 1
  <2>1. Handles # {} /\ IsFiniteSet(Handles) /\ Cardinality(Handles) \in Nat
    BY PoolAssumption, PoolFinite
  <2>2. Cardinality(Handles) # 0
    BY <2>1, FS_EmptySet
  <2> QED
    BY <2>1, <2>2, PoolAssumption
<1>7. TypeOK'
  <2>1. Following(b) \in Buffers
    BY <1>2, PoolAssumption DEF Following, Buffers
  <2> QED
    BY <1>0, <1>2, <1>3, <1>6, <2>1 DEF TypeOK
<1>8. PendingInPlace'
  BY <1>0, <1>2, <1>3 DEF PendingInPlace, TypeOK, Buffers, Null, Idle
<1>9. RefCountExact'
  <2>1. ASSUME NEW c \in Buffers
        PROVE  /\ On(c)' = IF c = b THEN On(c) \cup {h} ELSE On(c)
               /\ Incoming(c)' = Incoming(c)
    <3>1. On(c)' = IF c = b THEN On(c) \cup {h} ELSE On(c)
      BY <1>0, <1>3 DEF On, TypeOK, Buffers, Null
    <3>2. Incoming(c)' = Incoming(c)
      BY <1>0, <1>3 DEF Incoming, TypeOK, Idle
    <3> QED
      BY <3>1, <3>2
  <2>2. h \notin On(b)
    BY <1>4
  <2>3. Cardinality(On(b)') = Cardinality(On(b)) + 1
    BY <1>2, <2>1, <2>2, PoolFinite, CardStep
  <2>4. ref_count'[b] = ref_count[b] + 1
    BY <1>0, <1>2, <1>3 DEF TypeOK
  <2>5. \A c \in Buffers \ {b} : ref_count'[c] = ref_count[c]
    BY <1>0, <1>3 DEF TypeOK
  <2> QED
    BY <2>1, <2>3, <2>4, <2>5, CountsFollow
<1>10. SizeExact'
  <2> DEFINE V == {c \in Buffers : ref_count'[c] > 0}
  <2>1. V = Used \cup {b} /\ b \notin Used
    BY <1>0, <1>2, <1>3 DEF TypeOK, Used
  <2>2. Cardinality(V) = Cardinality(Used) + 1
    BY <2>1, PoolFinite, CardStep
  <2> QED
    BY <1>0, <1>3, <2>2 DEF SizeExact, Used
<1> QED
  BY <1>5, <1>7, <1>8, <1>9, <1>10 DEF IInv

\* The copy constructor retains the buffer it copies: one reference more, counted once.
LEMMA CopyStep ==
    ASSUME IInv, NEW h \in Handles, NEW g \in Handles, Copy(h, g)
    PROVE  IInv'
<1>0. TypeOK /\ PendingInPlace /\ RefCountExact
  BY DEF IInv
<1>b. PICK b : b = ref[g]
  OBVIOUS
<1>1. /\ retain_ref(b) /\ ref' = [ref EXCEPT ![h] = b] /\ pending' = pending
      /\ ref[h] = Null /\ ref[g] # Null /\ Idle(h)
  BY <1>b DEF Copy
<1>2. h \notin On(b)
  BY <1>1, <1>b DEF On
<1>3. b \in Buffers /\ ref_count[b] > 0 /\ ref_count[b] < RefMax
  BY <1>1, <1>2, <1>b, HandleCounted
<1>4. /\ ref_count' \in [Buffers -> 0 .. RefMax]
      /\ ref_count'[b] = ref_count[b] + 1
      /\ \A c \in Buffers \ {b} : ref_count'[c] = ref_count[c]
      /\ size' \in Nat /\ next' \in Buffers /\ SizeExact'
  BY <1>1, <1>3, Retain
<1>5. TypeOK'
  BY <1>0, <1>1, <1>3, <1>4 DEF TypeOK
<1>6. PendingInPlace'
  BY <1>0, <1>1, <1>3 DEF PendingInPlace, TypeOK, Buffers, Null, Idle
<1>7. ASSUME NEW c \in Buffers
      PROVE  /\ On(c)' = IF c = b THEN On(c) \cup {h} ELSE On(c)
             /\ Incoming(c)' = Incoming(c)
  <2>1. On(c)' = IF c = b THEN On(c) \cup {h} ELSE On(c)
    BY <1>0, <1>1 DEF On, TypeOK, Buffers, Null
  <2>2. Incoming(c)' = Incoming(c)
    BY <1>0, <1>1 DEF Incoming, TypeOK, Idle
  <2> QED
    BY <2>1, <2>2
<1>8. Cardinality(On(b)') = Cardinality(On(b)) + 1
  BY <1>2, <1>3, <1>7, PoolFinite, CardStep
<1>9. RefCountExact'
  BY <1>4, <1>7, <1>8, CountsFollow
<1> QED
  BY <1>4, <1>5, <1>6, <1>9 DEF IInv

\* Copy assignment, first half: the buffer is retained while the handle still refers to its old one.
LEMMA AssignRetainStep ==
    ASSUME IInv, NEW h \in Handles, NEW g \in Handles, AssignRetain(h, g)
    PROVE  IInv'
<1>0. TypeOK /\ PendingInPlace /\ RefCountExact
  BY DEF IInv
<1>b. PICK b : b = ref[g]
  OBVIOUS
<1>1. /\ retain_ref(b) /\ ref' = ref /\ pending' = [pending EXCEPT ![h] = g]
      /\ ref[h] # Null /\ ref[g] # Null /\ Idle(h) /\ h # g
      /\ pending[g] = NoHandle /\ pending[h] = NoHandle
  BY <1>b DEF AssignRetain, Idle
<1>2. h \notin Incoming(b)
  BY <1>1 DEF Incoming
<1>3. b \in Buffers /\ ref_count[b] > 0 /\ ref_count[b] < RefMax
  BY <1>1, <1>2, <1>b, HandleCounted
<1>4. /\ ref_count' \in [Buffers -> 0 .. RefMax]
      /\ ref_count'[b] = ref_count[b] + 1
      /\ \A c \in Buffers \ {b} : ref_count'[c] = ref_count[c]
      /\ size' \in Nat /\ next' \in Buffers /\ SizeExact'
  BY <1>1, <1>3, Retain
<1>5. TypeOK'
  BY <1>0, <1>1, <1>4 DEF TypeOK
<1>6. PendingInPlace'
  BY <1>0, <1>1 DEF PendingInPlace, TypeOK, Idle
<1>7. ASSUME NEW c \in Buffers
      PROVE  /\ On(c)' = On(c)
             /\ Incoming(c)' = IF c = b THEN Incoming(c) \cup {h} ELSE Incoming(c)
  <2>1. On(c)' = On(c)
    BY <1>1 DEF On
  <2>2. Incoming(c)' = IF c = b THEN Incoming(c) \cup {h} ELSE Incoming(c)
    BY <1>0, <1>1, <1>b, PoolAssumption DEF Incoming, TypeOK
  <2> QED
    BY <2>1, <2>2
<1>8. Cardinality(Incoming(b)') = Cardinality(Incoming(b)) + 1
  BY <1>2, <1>3, <1>7, PoolFinite, CardStep
<1>9. RefCountExact'
  BY <1>4, <1>7, <1>8, CountsFollow
<1> QED
  BY <1>4, <1>5, <1>6, <1>9 DEF IInv

\* Copy assignment, second half: the old buffer loses the reference, the handle takes the pending one.
LEMMA AssignReleaseStep ==
    ASSUME IInv, NEW h \in Handles, AssignRelease(h)
    PROVE  IInv'
<1>0. TypeOK /\ PendingInPlace /\ RefCountExact
  BY DEF IInv
<1>a. PICK a : a = ref[h]
  OBVIOUS
<1>g. PICK g : g = pending[h]
  OBVIOUS
<1>b. PICK b : b = ref[g]
  OBVIOUS
<1>1. /\ release_ref(a) /\ ref' = [ref EXCEPT ![h] = b]
      /\ pending' = [pending EXCEPT ![h] = NoHandle] /\ pending[h] # NoHandle
  BY <1>a, <1>g, <1>b DEF AssignRelease
<1>2. /\ g \in Handles /\ a # Null /\ b # Null /\ pending[g] = NoHandle
      /\ a \in Buffers /\ b \in Buffers /\ g # h
      /\ \A x \in Handles : pending[x] # h
  <2>1. g \in Handles /\ a # Null /\ b # Null /\ pending[g] = NoHandle
    BY <1>0, <1>1, <1>a, <1>b, <1>g DEF TypeOK, PendingInPlace
  <2>2. \A x \in Handles : pending[x] # h
    BY <1>0, <1>1, PoolAssumption DEF PendingInPlace
  <2> QED
    BY <2>1, <2>2, <1>0, <1>1, <1>a, <1>b DEF TypeOK
<1>3. ref_count[a] > 0
  BY <1>2, <1>a, HandleCounted
<1>4. /\ ref_count' \in [Buffers -> 0 .. RefMax]
      /\ ref_count'[a] = ref_count[a] - 1
      /\ \A c \in Buffers \ {a} : ref_count'[c] = ref_count[c]
      /\ size' \in Nat /\ next' \in Buffers /\ SizeExact'
  BY <1>1, <1>2, <1>3, Release
<1>5. TypeOK'
  BY <1>0, <1>1, <1>2, <1>4 DEF TypeOK
<1>6. PendingInPlace'
  BY <1>0, <1>1, <1>2, PoolAssumption DEF PendingInPlace, TypeOK
<1>7. ASSUME NEW c \in Buffers
      PROVE  /\ On(c)' = (On(c) \ {h}) \cup (IF c = b THEN {h} ELSE {})
             /\ Incoming(c)' = Incoming(c) \ {h}
  <2>1. On(c)' = (On(c) \ {h}) \cup (IF c = b THEN {h} ELSE {})
    BY <1>0, <1>1, <1>2 DEF On, TypeOK
  <2>2. Incoming(c)' = Incoming(c) \ {h}
    BY <1>0, <1>1, <1>2, PoolAssumption DEF Incoming, TypeOK
  <2> QED
    BY <2>1, <2>2
<1>8. /\ h \in On(a) /\ \A c \in Buffers \ {a} : h \notin On(c)
      /\ h \in Incoming(b) /\ \A c \in Buffers \ {b} : h \notin Incoming(c)
  BY <1>1, <1>2, <1>a, <1>b, <1>g DEF On, Incoming
<1>9. Cardinality(Incoming(b)') = Cardinality(Incoming(b)) - 1
  BY <1>2, <1>7, <1>8, PoolFinite, CardStep
<1>10. \A c \in Buffers \ {b} : Cardinality(Incoming(c)') = Cardinality(Incoming(c))
  <2>1. \A c \in Buffers \ {b} : Incoming(c)' = Incoming(c)
    BY <1>7, <1>8
  <2> QED
    BY <2>1
<1>11. CASE a = b
  <2>1. \A c \in Buffers : On(c)' = On(c)
    BY <1>7, <1>8, <1>11
  <2>2. \A c \in Buffers : Cardinality(On(c)') = Cardinality(On(c))
    BY <2>1
  <2> QED
    BY <1>4, <1>5, <1>6, <1>9, <1>10, <1>11, <2>2, CountsFollow DEF IInv
<1>12. CASE a # b
  <2>1. On(a)' = On(a) \ {h} /\ On(b)' = On(b) \cup {h} /\ h \notin On(b)
    BY <1>2, <1>7, <1>8, <1>12
  <2>2. \A c \in Buffers \ {a, b} : On(c)' = On(c)
    BY <1>7, <1>8
  <2>3. \A c \in Buffers \ {a, b} : Cardinality(On(c)') = Cardinality(On(c))
    BY <2>2
  <2>4. Cardinality(On(a)') = Cardinality(On(a)) - 1
    BY <2>1, <1>8, PoolFinite, CardStep
  <2>5. Cardinality(On(b)') = Cardinality(On(b)) + 1
    BY <2>1, PoolFinite, CardStep
  <2>6. RefCountExact'
    BY <1>2, <1>4, <1>9, <1>10, <1>12, <2>3, <2>4, <2>5, CountsFollow
  <2> QED
    BY <1>4, <1>5, <1>6, <2>6 DEF IInv
<1> QED
  BY <1>11, <1>12

\* The move constructor hands a reference over: the source is empty and no count changes.
LEMMA MoveStep ==
    ASSUME IInv, NEW h \in Handles, NEW g \in Handles, Move(h, g)
    PROVE  IInv'
<1>0. TypeOK /\ PendingInPlace /\ RefCountExact /\ SizeExact
  BY DEF IInv
<1>b. PICK b : b = ref[g]
  OBVIOUS
<1>1. /\ ref' = [ref EXCEPT ![h] = b, ![g] = Null]
      /\ UNCHANGED <<ref_count, size, next, pending>>
      /\ ref[h] = Null /\ b # Null /\ b \in Buffers /\ Idle(h) /\ Idle(g)
      /\ h # g
  BY <1>0, <1>b DEF Move, TypeOK
<1>2. TypeOK'
  BY <1>0, <1>1 DEF TypeOK
<1>3. PendingInPlace'
  BY <1>0, <1>1 DEF PendingInPlace, TypeOK, Idle
<1>4. SizeExact'
  BY <1>0, <1>1 DEF SizeExact
<1>5. ASSUME NEW c \in Buffers
      PROVE  /\ On(c)' = IF c = b THEN (On(c) \ {g}) \cup {h} ELSE On(c)
             /\ Incoming(c)' = Incoming(c)
  <2>1. On(c)' = IF c = b THEN (On(c) \ {g}) \cup {h} ELSE On(c)
    BY <1>0, <1>1, <1>b DEF On, TypeOK, Buffers, Null
  <2>2. Incoming(c)' = Incoming(c)
    BY <1>0, <1>1 DEF Incoming, TypeOK, Idle
  <2> QED
    BY <2>1, <2>2
<1>6. Cardinality(On(b)') = Cardinality(On(b))
  <2> DEFINE R == On(b) \ {g}
  <2>1. g \in On(b) /\ h \notin R
    BY <1>1, <1>b DEF On
  <2>2. IsFiniteSet(R) /\ Cardinality(R) = Cardinality(On(b)) - 1
    BY <2>1, PoolFinite, CardStep
  <2>3. Cardinality(R \cup {h}) = Cardinality(R) + 1
    BY <2>1, <2>2, CardStep
  <2>4. On(b)' = R \cup {h}
    BY <1>1, <1>5
  <2>5. Cardinality(On(b)) \in Nat
    BY PoolFinite
  <2> QED
    BY <2>2, <2>3, <2>4, <2>5
<1>7. RefCountExact'
  BY <1>1, <1>5, <1>6, CountsFollow
<1> QED
  BY <1>2, <1>3, <1>4, <1>7 DEF IInv

\* Move assignment releases the handle's old buffer and takes the source's reference uncounted.
LEMMA MoveAssignStep ==
    ASSUME IInv, NEW h \in Handles, NEW g \in Handles, MoveAssign(h, g)
    PROVE  IInv'
<1>0. TypeOK /\ PendingInPlace /\ RefCountExact
  BY DEF IInv
<1>a. PICK a : a = ref[h]
  OBVIOUS
<1>b. PICK b : b = ref[g]
  OBVIOUS
<1>1. /\ release_ref(a) /\ ref' = [ref EXCEPT ![h] = b, ![g] = Null]
      /\ pending' = pending /\ a # Null /\ a \in Buffers
      /\ b \in Buffers \cup {Null} /\ Idle(h) /\ Idle(g) /\ h # g
  BY <1>0, <1>a, <1>b DEF MoveAssign, TypeOK
<1>3. ref_count[a] > 0
  BY <1>1, <1>a, HandleCounted
<1>4. /\ ref_count' \in [Buffers -> 0 .. RefMax]
      /\ ref_count'[a] = ref_count[a] - 1
      /\ \A c \in Buffers \ {a} : ref_count'[c] = ref_count[c]
      /\ size' \in Nat /\ next' \in Buffers /\ SizeExact'
  BY <1>1, <1>3, Release
<1>5. TypeOK'
  BY <1>0, <1>1, <1>4 DEF TypeOK
<1>6. PendingInPlace'
  BY <1>0, <1>1 DEF PendingInPlace, TypeOK, Idle
<1>7. ASSUME NEW c \in Buffers
      PROVE  /\ On(c)' = (On(c) \ {g, h}) \cup (IF c = b THEN {h} ELSE {})
             /\ Incoming(c)' = Incoming(c)
  <2>1. On(c)' = (On(c) \ {g, h}) \cup (IF c = b THEN {h} ELSE {})
    BY <1>0, <1>1 DEF On, TypeOK, Buffers, Null
  <2>2. Incoming(c)' = Incoming(c)
    BY <1>0, <1>1 DEF Incoming, TypeOK, Idle
  <2> QED
    BY <2>1, <2>2
<1>8. /\ h \in On(a) /\ \A c \in Buffers \ {a} : h \notin On(c)
      /\ b \in Buffers => g \in On(b)
      /\ \A c \in Buffers \ {b} : g \notin On(c)
  BY <1>1, <1>a, <1>b DEF On
<1>9. \A c \in Buffers : Cardinality(Incoming(c)') = Cardinality(Incoming(c))
  BY <1>7
<1>10. \A c \in Buffers \ {a, b} : Cardinality(On(c)') = Cardinality(On(c))
  <2>1. \A c \in Buffers \ {a, b} : On(c)' = On(c)
    BY <1>7, <1>8
  <2> QED
    BY <2>1
<1>11. Cardinality(On(a)') = Cardinality(On(a)) - 1
  <2>1. CASE a = b
    <3>1. On(a)' = On(a) \ {g} /\ g \in On(a)
      BY <1>1, <1>7, <1>8, <2>1
    <3> QED
      BY <3>1, PoolFinite, CardStep
  <2>2. CASE a # b
    <3>1. On(a)' = On(a) \ {h} /\ h \in On(a)
      BY <1>1, <1>7, <1>8, <2>2
    <3> QED
      BY <3>1, PoolFinite, CardStep
  <2> QED
    BY <2>1, <2>2
<1>12. ASSUME b \in Buffers, a # b
       PROVE  Cardinality(On(b)') = Cardinality(On(b))
  <2> DEFINE R == On(b) \ {g}
  <2>1. g \in On(b) /\ h \notin R
    BY <1>8, <1>12
  <2>2. IsFiniteSet(R) /\ Cardinality(R) = Cardinality(On(b)) - 1
    BY <2>1, PoolFinite, CardStep
  <2>3. Cardinality(R \cup {h}) = Cardinality(R) + 1
    BY <2>1, <2>2, CardStep
  <2>4. On(b)' = R \cup {h}
    BY <1>7, <1>8, <1>12
  <2>5. Cardinality(On(b)) \in Nat
    BY PoolFinite
  <2> QED
    BY <2>2, <2>3, <2>4, <2>5
<1>13. RefCountExact'
  BY <1>1, <1>4, <1>9, <1>10, <1>11, <1>12, CountsFollow
<1> QED
  BY <1>4, <1>5, <1>6, <1>13 DEF IInv

\* The destructor releases the buffer; the last reference frees it.
LEMMA DestroyStep ==
    ASSUME IInv, NEW h \in Handles, Destroy(h)
    PROVE  IInv'
<1>0. TypeOK /\ PendingInPlace /\ RefCountExact
  BY DEF IInv
<1>a. PICK a : a = ref[h]
  OBVIOUS
<1>1. /\ release_ref(a) /\ ref' = [ref EXCEPT ![h] = Null]
      /\ pending' = pending /\ a # Null /\ a \in Buffers /\ Idle(h)
  BY <1>0, <1>a DEF Destroy, TypeOK
<1>3. ref_count[a] > 0
  BY <1>1, <1>a, HandleCounted
<1>4. /\ ref_count' \in [Buffers -> 0 .. RefMax]
      /\ ref_count'[a] = ref_count[a] - 1
      /\ \A c \in Buffers \ {a} : ref_count'[c] = ref_count[c]
      /\ size' \in Nat /\ next' \in Buffers /\ SizeExact'
  BY <1>1, <1>3, Release
<1>5. TypeOK'
  BY <1>0, <1>1, <1>4 DEF TypeOK
<1>6. PendingInPlace'
  BY <1>0, <1>1 DEF PendingInPlace, TypeOK, Idle
<1>7. ASSUME NEW c \in Buffers
      PROVE  /\ On(c)' = On(c) \ {h}
             /\ Incoming(c)' = Incoming(c)
  <2>1. On(c)' = On(c) \ {h}
    BY <1>0, <1>1 DEF On, TypeOK, Buffers, Null
  <2>2. Incoming(c)' = Incoming(c)
    BY <1>0, <1>1 DEF Incoming, TypeOK, Idle
  <2> QED
    BY <2>1, <2>2
<1>8. h \in On(a) /\ \A c \in Buffers \ {a} : On(c)' = On(c)
  BY <1>1, <1>7, <1>a DEF On
<1>9. Cardinality(On(a)') = Cardinality(On(a)) - 1
  BY <1>1, <1>7, <1>8, PoolFinite, CardStep
<1>10. RefCountExact'
  BY <1>1, <1>4, <1>7, <1>8, <1>9, CountsFollow
<1> QED
  BY <1>4, <1>5, <1>6, <1>10 DEF IInv

\* A new pool has every count at zero and no handle that refers to a buffer.
LEMMA PoolInit == Init => IInv
<1> SUFFICES ASSUME Init PROVE IInv
  OBVIOUS
<1>1. TypeOK
  BY PoolAssumption DEF Init, TypeOK, Buffers, Null
<1>2. PendingInPlace
  BY DEF Init, PendingInPlace
<1>3. \A b \in Buffers : On(b) = {} /\ Incoming(b) = {}
  BY DEF Init, On, Incoming, Buffers, Null
<1>4. {b \in Buffers : ref_count[b] > 0} = {}
  BY DEF Init
<1>5. RefCountExact
  BY <1>3, FS_EmptySet DEF Init, RefCountExact
<1>6. SizeExact
  BY <1>4, FS_EmptySet DEF Init, SizeExact
<1> QED
  BY <1>1, <1>2, <1>5, <1>6 DEF IInv

\* Every member function of a reference, and request, preserves the invariant.
LEMMA PoolNext ==
    ASSUME IInv, [Next]_vars
    PROVE  IInv'
<1>1. ASSUME NEW h \in Handles, request(h) PROVE IInv'
  BY <1>1, RequestStep
<1>2. ASSUME NEW h \in Handles, AssignRelease(h) PROVE IInv'
  BY <1>2, AssignReleaseStep
<1>3. ASSUME NEW h \in Handles, Destroy(h) PROVE IInv'
  BY <1>3, DestroyStep
<1>4. ASSUME NEW h \in Handles, NEW g \in Handles, Copy(h, g) PROVE IInv'
  BY <1>4, CopyStep
<1>5. ASSUME NEW h \in Handles, NEW g \in Handles, AssignRetain(h, g) PROVE IInv'
  BY <1>5, AssignRetainStep
<1>6. ASSUME NEW h \in Handles, NEW g \in Handles, Move(h, g) PROVE IInv'
  BY <1>6, MoveStep
<1>7. ASSUME NEW h \in Handles, NEW g \in Handles, MoveAssign(h, g) PROVE IInv'
  BY <1>7, MoveAssignStep
<1>8. CASE UNCHANGED vars
  BY <1>8 DEF vars, IInv, TypeOK, PendingInPlace, RefCountExact, SizeExact,
     On, Incoming
<1> QED
  BY <1>1, <1>2, <1>3, <1>4, <1>5, <1>6, <1>7, <1>8 DEF Next

\* The strengthened invariant holds in every reachable state of the pool,
\* for every number of buffers and handles (buf_table.cpp, buf_ref.cpp).
THEOREM PoolInvariant == Spec => []IInv
<1> QED
  BY PoolInit, PoolNext, PTL DEF Spec

\* Reference counts equal the references there are: request, retain_ref and
\* release_ref neither leak a buffer nor free one that is referred to.
THEOREM RefCountTheorem == Spec => []RefCountExact
<1>1. IInv => RefCountExact
  BY DEF IInv
<1> QED
  BY <1>1, PoolInvariant, PTL

\* size_ counts the buffers in use, so the loop of request always ends.
THEOREM SizeTheorem == Spec => []SizeExact
<1>1. IInv => SizeExact
  BY DEF IInv
<1> QED
  BY <1>1, PoolInvariant, PTL

\* request hands out only buffers that no handle refers to.
THEOREM FreshBufferTheorem == Spec => FreshBuffer
<1>1. ASSUME IInv, [Next]_vars
      PROVE  [\A h \in Handles : request(h) =>
                \A g \in Handles : ref[g] # ref'[h]]_vars
  BY <1>1, RequestStep
<1> QED
  BY <1>1, PoolInvariant, PTL DEF Spec, FreshBuffer
=============================================================================
