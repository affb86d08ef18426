--------------------------- MODULE JobFlowProofs ---------------------------
(***************************************************************************)
(* Proofs about JobFlow, for every number of buffers, entries, jobs per    *)
(* channel and changes per transaction, and for every set of datagrams.    *)
(***************************************************************************)
EXTENDS JobFlow, Probing, SequenceTheorems

-----------------------------------------------------------------------------
(* The rings *)

\* Channels and queues whose indices and count agree
ChannelRing(c) ==
    c \in ChannelType /\ c.tail = (c.head + c.count) % MaxItems

QueueRing(q) ==
    q \in QueueType /\ q.head = (q.tail + q.size) % MaxCommits

\* No job and no change are of the types of jobs and changes.
LEMMA NullTypes == NullJob \in JobType /\ NullCommit \in CommitType
  BY JobFlowAssumption DEF NullJob, NullCommit, JobType, CommitType

\* The job at place i of a channel is of its type; there is no other job.
LEMMA PlaceType ==
  ASSUME NEW c, ChannelRing(c)
  PROVE  /\ \A i \in Int :
              /\ JobAt(c, i) \in JobType
              /\ \E p \in 0 .. MaxItems - 1 : JobAt(c, i) = c.jobs[p]
         /\ JobAt(c, 1) = c.jobs[c.head]
         /\ \A p \in 0 .. MaxItems - 1 :
              \E i \in 1 .. MaxItems : JobAt(c, i) = c.jobs[p]
<1>1. PICK h \in 0 .. MaxItems - 1, a \in [0 .. MaxItems - 1 -> JobType] :
        h = c.head /\ a = c.jobs
  BY DEF ChannelRing, ChannelType
<1>2. MaxItems \in Nat \ {0}
  BY JobFlowAssumption
<1>3. \A i \in Int : (h + i - 1) % MaxItems \in 0 .. MaxItems - 1
                     /\ (h + 1 - 1) % MaxItems = h
  BY <1>2, RingPlace
<1>4. \A p \in 0 .. MaxItems - 1 :
         \E i \in 1 .. MaxItems : (h + i - 1) % MaxItems = p
  BY <1>2, RingOnto
<1>5. \A i \in Int : JobAt(c, i) = a[(h + i - 1) % MaxItems]
  BY <1>1 DEF JobAt
<1>6. ASSUME NEW i \in Int
      PROVE  /\ JobAt(c, i) \in JobType
             /\ \E p \in 0 .. MaxItems - 1 : JobAt(c, i) = a[p]
  <2>1. PICK p \in 0 .. MaxItems - 1 : p = (h + i - 1) % MaxItems
    BY <1>3
  <2> QED BY <1>5, <2>1
<1>7. 1 \in Int /\ JobAt(c, 1) = a[(h + 1 - 1) % MaxItems]
  BY <1>5
<1>8. JobAt(c, 1) = a[h]
  BY <1>3, <1>7
<1>9. ASSUME NEW p \in 0 .. MaxItems - 1
      PROVE  \E i \in 1 .. MaxItems : JobAt(c, i) = a[p]
  <2>1. PICK i \in 1 .. MaxItems : (h + i - 1) % MaxItems = p
    BY <1>4
  <2>2. i \in Int
    OBVIOUS
  <2>3. JobAt(c, i) = a[p]
    BY <1>5, <2>1, <2>2
  <2> QED BY <2>3
<1> QED
  BY <1>1, <1>6, <1>8, <1>9

\* The change at place i of a queue is of its type, and one of the array.
LEMMA QPlaceType ==
  ASSUME NEW q, QueueRing(q)
  PROVE  /\ \A i \in Int :
              /\ ChangeAt(q, i) \in CommitType
              /\ \E p \in 0 .. MaxCommits - 1 : ChangeAt(q, i) = q.commits[p]
         /\ ChangeAt(q, 1) = q.commits[q.tail]
<1>1. PICK h \in 0 .. MaxCommits - 1, a \in [0 .. MaxCommits - 1 -> CommitType] :
        h = q.tail /\ a = q.commits
  BY DEF QueueRing, QueueType
<1>2. MaxCommits \in Nat \ {0}
  BY JobFlowAssumption
<1>3. \A i \in Int : (h + i - 1) % MaxCommits \in 0 .. MaxCommits - 1
                     /\ (h + 1 - 1) % MaxCommits = h
  BY <1>2, RingPlace
<1>4. \A i \in Int : ChangeAt(q, i) = a[(h + i - 1) % MaxCommits]
  BY <1>1 DEF ChangeAt
<1>5. ASSUME NEW i \in Int
      PROVE  /\ ChangeAt(q, i) \in CommitType
             /\ \E p \in 0 .. MaxCommits - 1 : ChangeAt(q, i) = a[p]
  <2>1. PICK p \in 0 .. MaxCommits - 1 : p = (h + i - 1) % MaxCommits
    BY <1>3
  <2> QED BY <1>4, <2>1
<1>6. 1 \in Int /\ ChangeAt(q, 1) = a[(h + 1 - 1) % MaxCommits]
  BY <1>4
<1>7. ChangeAt(q, 1) = a[h]
  BY <1>3, <1>6
<1> QED
  BY <1>1, <1>5, <1>7

\* send writes behind the jobs in use, and changes no other place.
LEMMA SendPlaces ==
  ASSUME NEW c, ChannelRing(c), c.count < MaxItems, NEW x \in JobType
  PROVE  /\ ChannelRing(channel_send(c, x)) /\ channel_send(c, x).count = c.count + 1
         /\ JobAt(channel_send(c, x), c.count + 1) = x
         /\ \A i \in 1 .. MaxItems :
              i # c.count + 1 => JobAt(channel_send(c, x), i) = JobAt(c, i)
         /\ channel_send(c, x).jobs = [c.jobs EXCEPT ![c.tail] = x]
<1>1. PICK h \in 0 .. MaxItems - 1, t \in 0 .. MaxItems - 1, n \in 0 .. MaxItems,
           a \in [0 .. MaxItems - 1 -> JobType] :
        h = c.head /\ t = c.tail /\ n = c.count /\ a = c.jobs
  BY DEF ChannelRing, ChannelType
<1>2. MaxItems \in Nat \ {0} /\ n \in Nat /\ n < MaxItems /\ t = (h + n) % MaxItems
  BY <1>1, JobFlowAssumption DEF ChannelRing
<1>0. BehindAll(MaxItems, h, n, t)
  BY <1>2, RingSend, Zenon
<1>3. /\ (t + 1) % MaxItems \in 0 .. MaxItems - 1
      /\ (t + 1) % MaxItems = (h + (n + 1)) % MaxItems
      /\ t = (h + (n + 1) - 1) % MaxItems
      /\ \A i \in 1 .. MaxItems : /\ (h + i - 1) % MaxItems \in 0 .. MaxItems - 1
                              /\ i # n + 1 => (h + i - 1) % MaxItems # t
  BY <1>0, Zenon DEF BehindAll
<1>4. PICK s \in 0 .. MaxItems - 1, b \in [0 .. MaxItems - 1 -> JobType], m \in 0 .. MaxItems :
        s = (t + 1) % MaxItems /\ b = [a EXCEPT ![t] = x] /\ m = n + 1
  <2>1. n + 1 \in 0 .. MaxItems
    BY <1>2
  <2>2. [a EXCEPT ![t] = x] \in [0 .. MaxItems - 1 -> JobType]
    OBVIOUS
  <2> QED BY <1>3, <2>1, <2>2
<1>5. PICK d : d = channel_send(c, x)
  OBVIOUS
<1>6. d = [c EXCEPT !.jobs = b, !.tail = s, !.count = m]
  BY <1>1, <1>4, <1>5 DEF channel_send, ChannelRing, ChannelType
<1>7. /\ d \in ChannelType /\ d.head = h /\ d.count = m /\ d.tail = s
      /\ d.jobs = b
  BY <1>1, <1>6 DEF ChannelRing, ChannelType
<1>8. b[(h + (n + 1) - 1) % MaxItems] = x
  BY <1>3, <1>4
<1>9. \A i \in 1 .. MaxItems :
        i # n + 1 => b[(h + i - 1) % MaxItems] = a[(h + i - 1) % MaxItems]
  BY <1>3, <1>4
<1>10. ChannelRing(d)
  BY <1>3, <1>4, <1>7 DEF ChannelRing
<1> QED
  BY <1>1, <1>4, <1>5, <1>7, <1>8, <1>9, <1>10 DEF JobAt

\* pop destroys the oldest of the jobs and moves the others up.
LEMMA PopPlaces ==
  ASSUME NEW c, ChannelRing(c), c.count > 0
  PROVE  /\ ChannelRing(channel_pop(c)) /\ channel_pop(c).count = c.count - 1
         /\ JobAt(channel_pop(c), MaxItems) = NullJob
         /\ \A i \in 1 .. MaxItems - 1 : JobAt(channel_pop(c), i) = JobAt(c, i + 1)
<1>1. PICK h \in 0 .. MaxItems - 1, t \in 0 .. MaxItems - 1, n \in 0 .. MaxItems,
           a \in [0 .. MaxItems - 1 -> JobType] :
        h = c.head /\ t = c.tail /\ n = c.count /\ a = c.jobs
  BY DEF ChannelRing, ChannelType
<1>2. MaxItems \in Nat \ {0} /\ n \in Nat /\ n > 0
  BY <1>1, JobFlowAssumption
<1>3. t = (h + n) % MaxItems
  BY <1>1 DEF ChannelRing
<1>4. PICK g : g = (h + 1) % MaxItems
  OBVIOUS
<1>0. BehindOldest(MaxItems, h, n, g)
  BY <1>2, <1>4, RingPop, Zenon
<1>5. /\ g \in 0 .. MaxItems - 1
      /\ (g + (n - 1)) % MaxItems = (h + n) % MaxItems
      /\ \A i \in Int : (g + i - 1) % MaxItems = (h + (i + 1) - 1) % MaxItems
      /\ (g + MaxItems - 1) % MaxItems = h
      /\ \A i \in 1 .. MaxItems - 1 : /\ (g + i - 1) % MaxItems \in 0 .. MaxItems - 1
                                  /\ (g + i - 1) % MaxItems # h
  BY <1>0, Zenon DEF BehindOldest
<1>6. PICK m \in 0 .. MaxItems : m = n - 1
  BY <1>2
<1>7. PICK d : d = channel_pop(c)
  OBVIOUS
<1>8. NullJob \in JobType
  BY NullTypes
<1>9. PICK b \in [0 .. MaxItems - 1 -> JobType] : b = [a EXCEPT ![h] = NullJob]
  BY <1>8
<1>10. d = [c EXCEPT !.jobs = b, !.head = g, !.count = m]
  BY <1>1, <1>4, <1>6, <1>7, <1>9 DEF channel_pop, ChannelRing, ChannelType
<1>11. /\ d \in ChannelType /\ d.head = g /\ d.count = m /\ d.tail = t
       /\ d.jobs = b
  BY <1>1, <1>5, <1>10 DEF ChannelRing, ChannelType
<1>12. b[(g + MaxItems - 1) % MaxItems] = NullJob
  BY <1>5, <1>9
<1>13. ASSUME NEW i \in 1 .. MaxItems - 1
       PROVE  b[(g + i - 1) % MaxItems] = a[(h + (i + 1) - 1) % MaxItems]
  <2>1. b[(g + i - 1) % MaxItems] = a[(g + i - 1) % MaxItems]
    BY <1>5, <1>9
  <2>2. i \in Int
    OBVIOUS
  <2> QED BY <1>5, <2>1, <2>2
<1>14. ChannelRing(d)
  BY <1>3, <1>5, <1>6, <1>11 DEF ChannelRing
<1> QED
  BY <1>1, <1>6, <1>7, <1>11, <1>12, <1>13, <1>14 DEF JobAt

\* send writes behind the changes in use, and changes no other place.
LEMMA QSendPlaces ==
  ASSUME NEW c, QueueRing(c), c.size < MaxCommits, NEW x \in CommitType
  PROVE  /\ QueueRing(queue_send(c, x)) /\ queue_send(c, x).size = c.size + 1
         /\ ChangeAt(queue_send(c, x), c.size + 1) = x
         /\ \A i \in 1 .. MaxCommits :
              i # c.size + 1 => ChangeAt(queue_send(c, x), i) = ChangeAt(c, i)
         /\ queue_send(c, x).commits = [c.commits EXCEPT ![c.head] = x]
<1>1. PICK h \in 0 .. MaxCommits - 1, t \in 0 .. MaxCommits - 1, n \in 0 .. MaxCommits,
           a \in [0 .. MaxCommits - 1 -> CommitType] :
        h = c.tail /\ t = c.head /\ n = c.size /\ a = c.commits
  BY DEF QueueRing, QueueType
<1>2. MaxCommits \in Nat \ {0} /\ n \in Nat /\ n < MaxCommits /\ t = (h + n) % MaxCommits
  BY <1>1, JobFlowAssumption DEF QueueRing
<1>0. BehindAll(MaxCommits, h, n, t)
  BY <1>2, RingSend, Zenon
<1>3. /\ (t + 1) % MaxCommits \in 0 .. MaxCommits - 1
      /\ (t + 1) % MaxCommits = (h + (n + 1)) % MaxCommits
      /\ t = (h + (n + 1) - 1) % MaxCommits
      /\ \A i \in 1 .. MaxCommits : /\ (h + i - 1) % MaxCommits \in 0 .. MaxCommits - 1
                              /\ i # n + 1 => (h + i - 1) % MaxCommits # t
  BY <1>0, Zenon DEF BehindAll
<1>4. PICK s \in 0 .. MaxCommits - 1, b \in [0 .. MaxCommits - 1 -> CommitType], m \in 0 .. MaxCommits :
        s = (t + 1) % MaxCommits /\ b = [a EXCEPT ![t] = x] /\ m = n + 1
  <2>1. n + 1 \in 0 .. MaxCommits
    BY <1>2
  <2>2. [a EXCEPT ![t] = x] \in [0 .. MaxCommits - 1 -> CommitType]
    OBVIOUS
  <2> QED BY <1>3, <2>1, <2>2
<1>5. PICK d : d = queue_send(c, x)
  OBVIOUS
<1>6. d = [c EXCEPT !.commits = b, !.head = s, !.size = m]
  BY <1>1, <1>4, <1>5 DEF queue_send, QueueRing, QueueType
<1>7. /\ d \in QueueType /\ d.tail = h /\ d.size = m /\ d.head = s
      /\ d.commits = b
  BY <1>1, <1>6 DEF QueueRing, QueueType
<1>8. b[(h + (n + 1) - 1) % MaxCommits] = x
  BY <1>3, <1>4
<1>9. \A i \in 1 .. MaxCommits :
        i # n + 1 => b[(h + i - 1) % MaxCommits] = a[(h + i - 1) % MaxCommits]
  BY <1>3, <1>4
<1>10. QueueRing(d)
  BY <1>3, <1>4, <1>7 DEF QueueRing
<1> QED
  BY <1>1, <1>4, <1>5, <1>7, <1>8, <1>9, <1>10 DEF ChangeAt

\* pop leaves the changes in their places and moves the tail.
LEMMA QPopPlaces ==
  ASSUME NEW c, QueueRing(c), c.size > 0
  PROVE  /\ QueueRing(queue_pop(c)) /\ queue_pop(c).size = c.size - 1
         /\ \A i \in Int : ChangeAt(queue_pop(c), i) = ChangeAt(c, i + 1)
         /\ queue_pop(c).commits = c.commits
<1>1. PICK h \in 0 .. MaxCommits - 1, t \in 0 .. MaxCommits - 1, n \in 0 .. MaxCommits,
           a \in [0 .. MaxCommits - 1 -> CommitType] :
        h = c.tail /\ t = c.head /\ n = c.size /\ a = c.commits
  BY DEF QueueRing, QueueType
<1>2. MaxCommits \in Nat \ {0} /\ n \in Nat /\ n > 0
  BY <1>1, JobFlowAssumption
<1>3. t = (h + n) % MaxCommits
  BY <1>1 DEF QueueRing
<1>4. PICK g : g = (h + 1) % MaxCommits
  OBVIOUS
<1>0. BehindOldest(MaxCommits, h, n, g)
  BY <1>2, <1>4, RingPop, Zenon
<1>5. /\ g \in 0 .. MaxCommits - 1
      /\ (g + (n - 1)) % MaxCommits = (h + n) % MaxCommits
      /\ \A i \in Int : (g + i - 1) % MaxCommits = (h + (i + 1) - 1) % MaxCommits
      /\ (g + MaxCommits - 1) % MaxCommits = h
      /\ \A i \in 1 .. MaxCommits - 1 : /\ (g + i - 1) % MaxCommits \in 0 .. MaxCommits - 1
                                  /\ (g + i - 1) % MaxCommits # h
  BY <1>0, Zenon DEF BehindOldest
<1>6. PICK m \in 0 .. MaxCommits : m = n - 1
  BY <1>2
<1>7. PICK d : d = queue_pop(c)
  OBVIOUS
<1>8. d = [c EXCEPT !.tail = g, !.size = m]
  BY <1>1, <1>4, <1>6, <1>7 DEF queue_pop, QueueRing, QueueType
<1>9. /\ d \in QueueType /\ d.tail = g /\ d.size = m /\ d.head = t
      /\ d.commits = a
  BY <1>1, <1>5, <1>8 DEF QueueRing, QueueType
<1>10. QueueRing(d)
  BY <1>3, <1>5, <1>6, <1>9 DEF QueueRing
<1> QED
  BY <1>1, <1>5, <1>6, <1>7, <1>9, <1>10 DEF ChangeAt

\* The jobs after send: one more, at the end.
LEMMA SendShape ==
  ASSUME NEW c \in ChannelType, ChannelShape(c), NEW n, n = c.count,
         n < MaxItems, NEW j \in JobType, NEW d, d = channel_send(c, j)
  PROVE  /\ d \in ChannelType /\ ChannelShape(d) /\ d.count = n + 1
         /\ JobAt(d, n + 1) = j
         /\ \A i \in 1 .. n : JobAt(d, i) = JobAt(c, i)
<1>1. ChannelRing(c) /\ c.count < MaxItems
  BY DEF ChannelRing, ChannelShape
<1>2. n \in 0 .. MaxItems /\ MaxItems \in Nat
  BY JobFlowAssumption DEF ChannelType
<1>3. /\ ChannelRing(d) /\ d.count = n + 1
      /\ JobAt(d, n + 1) = j
      /\ \A i \in 1 .. MaxItems : i # n + 1 => JobAt(d, i) = JobAt(c, i)
  <2>1. /\ ChannelRing(d) /\ d.count = c.count + 1
        /\ JobAt(d, c.count + 1) = j
        /\ \A i \in 1 .. MaxItems : i # c.count + 1 => JobAt(d, i) = JobAt(c, i)
    BY <1>1, SendPlaces, Zenon
  <2> QED BY <2>1
<1>4. \A i \in 1 .. n : i \in 1 .. MaxItems /\ i # n + 1
  BY <1>2
<1>5. \A i \in n + 1 + 1 .. MaxItems :
        i \in 1 .. MaxItems /\ i # n + 1 /\ i \in n + 1 .. MaxItems
  BY <1>2
<1>6. \A i \in n + 1 + 1 .. MaxItems : JobAt(d, i) = NullJob
  BY <1>3, <1>5 DEF ChannelShape
<1> QED
  BY <1>3, <1>4, <1>6 DEF ChannelRing, ChannelShape

\* The jobs after pop: all but the first.
LEMMA PopShape ==
  ASSUME NEW c \in ChannelType, ChannelShape(c), NEW n, n = c.count, n > 0,
         NEW d, d = channel_pop(c)
  PROVE  /\ d \in ChannelType /\ ChannelShape(d) /\ d.count = n - 1
         /\ \A i \in 1 .. n - 1 : JobAt(d, i) = JobAt(c, i + 1)
<1>1. ChannelRing(c) /\ c.count > 0
  BY DEF ChannelRing, ChannelShape
<1>2. n \in 1 .. MaxItems /\ MaxItems \in Nat
  BY JobFlowAssumption DEF ChannelType
<1>3. /\ ChannelRing(d) /\ d.count = n - 1
      /\ JobAt(d, MaxItems) = NullJob
      /\ \A i \in 1 .. MaxItems - 1 : JobAt(d, i) = JobAt(c, i + 1)
  <2>1. /\ ChannelRing(d) /\ d.count = c.count - 1
        /\ JobAt(d, MaxItems) = NullJob
        /\ \A i \in 1 .. MaxItems - 1 : JobAt(d, i) = JobAt(c, i + 1)
    BY <1>1, PopPlaces, Zenon
  <2> QED BY <2>1
<1>4. \A i \in 1 .. n - 1 : i \in 1 .. MaxItems - 1
  BY <1>2
<1>5. ASSUME NEW i \in n - 1 + 1 .. MaxItems
      PROVE  JobAt(d, i) = NullJob
  <2>1. i = MaxItems \/ (i \in 1 .. MaxItems - 1 /\ i + 1 \in n + 1 .. MaxItems)
    BY <1>2
  <2>2. CASE i = MaxItems
    BY <1>3, <2>2
  <2>3. CASE i \in 1 .. MaxItems - 1 /\ i + 1 \in n + 1 .. MaxItems
    <3>1. PICK k \in n + 1 .. MaxItems : k = i + 1
      BY <2>3
    <3>2. JobAt(c, k) = NullJob
      BY DEF ChannelShape
    <3> QED BY <1>3, <2>3, <3>1, <3>2
  <2> QED BY <2>1, <2>2, <2>3
<1> QED
  BY <1>3, <1>4, <1>5 DEF ChannelRing, ChannelShape

\* The changes after send: one more, at the end.
LEMMA QueueSendShape ==
  ASSUME NEW q \in QueueType, QueueShape(q), NEW n, n = q.size,
         n < MaxCommits, NEW x \in CommitType, NEW d, d = queue_send(q, x)
  PROVE  /\ d \in QueueType /\ QueueShape(d) /\ d.size = n + 1
         /\ ChangeAt(d, n + 1) = x
         /\ \A i \in 1 .. n : ChangeAt(d, i) = ChangeAt(q, i)
         /\ d.commits = [q.commits EXCEPT ![q.head] = x]
<1>1. QueueRing(q) /\ q.size < MaxCommits
  BY DEF QueueRing, QueueShape
<1>2. n \in 0 .. MaxCommits /\ MaxCommits \in Nat
  BY JobFlowAssumption DEF QueueType
<1>3. /\ QueueRing(d) /\ d.size = n + 1
      /\ ChangeAt(d, n + 1) = x
      /\ \A i \in 1 .. MaxCommits : i # n + 1 => ChangeAt(d, i) = ChangeAt(q, i)
      /\ d.commits = [q.commits EXCEPT ![q.head] = x]
  <2>1. /\ QueueRing(d) /\ d.size = q.size + 1
        /\ ChangeAt(d, q.size + 1) = x
        /\ \A i \in 1 .. MaxCommits :
             i # q.size + 1 => ChangeAt(d, i) = ChangeAt(q, i)
        /\ d.commits = [q.commits EXCEPT ![q.head] = x]
    BY <1>1, QSendPlaces, Zenon
  <2> QED BY <2>1
<1>4. \A i \in 1 .. n : i \in 1 .. MaxCommits /\ i # n + 1
  BY <1>2
<1> QED
  BY <1>3, <1>4 DEF QueueRing, QueueShape

\* The changes after pop: all but the first, and no place is cleared.
LEMMA QueuePopShape ==
  ASSUME NEW q \in QueueType, QueueShape(q), q.size > 0,
         NEW d, d = queue_pop(q)
  PROVE  /\ d \in QueueType /\ QueueShape(d) /\ d.size = q.size - 1
         /\ \A i \in Int : ChangeAt(d, i) = ChangeAt(q, i + 1)
         /\ d.commits = q.commits
<1>1. QueueRing(q)
  BY DEF QueueRing, QueueShape
<1>2. /\ QueueRing(d) /\ d.size = q.size - 1
      /\ \A i \in Int : ChangeAt(d, i) = ChangeAt(q, i + 1)
      /\ d.commits = q.commits
  BY <1>1, QPopPlaces, Zenon
<1> QED
  BY <1>2 DEF QueueRing, QueueShape

-----------------------------------------------------------------------------
(* One entry *)

\* The buffers whose bytes an entry needs
Needed(t, c) == {JobAt(c, i).buf : i \in 1 .. c.count}
                \cup {t.queue.commits[p].buf : p \in 0 .. MaxCommits - 1}

\* An entry does not mind what happens in other buffers, nor new messages.
LEMMA EntryFrame ==
  ASSUME NEW s, NEW m \in Int, NEW t, NEW c, EntryOK(s, m, t, c),
         NEW r, NEW k \in Int, m <= k,
         \A b \in Bufs \cap Needed(t, c) : r[b] = s[b]
  PROVE  EntryOK(r, k, t, c)
<1>1. /\ t \in WorkerType /\ c \in ChannelType
      /\ ChannelShape(c) /\ QueueShape(t.queue)
      /\ WorkerPhases(t, c) /\ JobsLoaded(s, c) /\ MsgsOrdered(m, t, c)
      /\ BuffersApart(t, c) /\ ChangesKept(s, t) /\ MadeInCommit(t)
      /\ InOrder(t)
  BY DEF EntryOK
<1>2. JobsLoaded(r, c)
  <2> SUFFICES ASSUME NEW i \in 1 .. c.count
               PROVE  Loaded(r, JobAt(c, i))
    BY DEF JobsLoaded
  <2>1. Loaded(s, JobAt(c, i))
    BY <1>1 DEF JobsLoaded
  <2>2. JobAt(c, i).buf \in Bufs /\ JobAt(c, i).buf \in Needed(t, c)
    BY <2>1 DEF Loaded, Needed
  <2>3. r[JobAt(c, i).buf] = s[JobAt(c, i).buf]
    BY <2>2
  <2> QED BY <2>1, <2>3 DEF Loaded
<1>3. MsgsOrdered(k, t, c)
  <2>1. 1 .. m \subseteq 1 .. k
    OBVIOUS
  <2> QED BY <1>1, <2>1 DEF MsgsOrdered
<1>4. ChangesKept(r, t)
  <2> SUFFICES ASSUME NEW i \in 1 .. t.queue.size, NEW x,
                      x = ChangeAt(t.queue, i), x.buf \in Bufs
               PROVE  r[x.buf] = s[x.buf]
    BY <1>1 DEF ChangesKept
  <2>1. QueueRing(t.queue) /\ i \in Int
    BY <1>1 DEF QueueRing, QueueShape, WorkerType, QueueType
  <2>2. \E p \in 0 .. MaxCommits - 1 : x = t.queue.commits[p]
    BY <2>1, QPlaceType
  <2>3. x.buf \in Needed(t, c)
    BY <2>2 DEF Needed
  <2> QED BY <2>3
<1> QED
  BY <1>1, <1>2, <1>3, <1>4 DEF EntryOK

\* A job is sent.
LEMMA SendEntry ==
  ASSUME NEW s, NEW m \in Int, NEW t, NEW c, EntryOK(s, m, t, c),
         c.count < MaxItems, t.pc # "none",
         NEW j \in JobType, Loaded(s, j), j.buf \notin Held(t, c),
         j.msg \in 1 .. m,
         \A i \in 1 .. c.count : JobAt(c, i).msg < j.msg,
         \A a \in DOMAIN t.accepted : t.accepted[a].msg < j.msg
  PROVE  /\ EntryOK(s, m, t, channel_send(c, j))
         /\ Held(t, channel_send(c, j)) \subseteq Held(t, c) \cup {j.buf}
<1>1. /\ t \in WorkerType /\ c \in ChannelType
      /\ ChannelShape(c) /\ QueueShape(t.queue)
      /\ WorkerPhases(t, c) /\ JobsLoaded(s, c) /\ MsgsOrdered(m, t, c)
      /\ BuffersApart(t, c) /\ ChangesKept(s, t) /\ MadeInCommit(t)
      /\ InOrder(t)
  BY DEF EntryOK
<1>2. PICK n : n = c.count
  OBVIOUS
<1>3. PICK d : d = channel_send(c, j)
  OBVIOUS
<1>4. n \in Nat /\ n < MaxItems
  BY <1>1, <1>2 DEF ChannelType
<1>5. /\ d \in ChannelType /\ ChannelShape(d) /\ d.count = n + 1
      /\ JobAt(d, n + 1) = j
      /\ \A i \in 1 .. n : JobAt(d, i) = JobAt(c, i)
  BY <1>1, <1>2, <1>3, <1>4, SendShape
<1>6. \A i \in 1 .. n + 1 : i \in 1 .. n \/ i = n + 1
  BY <1>4
<1>7. JobsLoaded(s, d)
  BY <1>1, <1>2, <1>5, <1>6 DEF JobsLoaded
<1>8. WorkerPhases(t, d)
  <2>1. n > 0 => 1 \in 1 .. n
    BY <1>4
  <2> QED BY <1>1, <1>2, <1>4, <1>5, <2>1 DEF WorkerPhases
<1>9. MsgsOrdered(m, t, d)
  <2>1. ASSUME NEW i \in 1 .. n + 1
        PROVE  JobAt(d, i).msg \in 1 .. m
    BY <1>1, <1>2, <1>5, <1>6 DEF MsgsOrdered
  <2>2. ASSUME NEW i \in 1 .. n + 1, NEW k \in 1 .. n + 1, i < k
        PROVE  JobAt(d, i).msg < JobAt(d, k).msg
    <3>1. i \in 1 .. n
      BY <1>4, <2>2
    <3>2. CASE k \in 1 .. n
      BY <1>1, <1>2, <1>5, <2>2, <3>1, <3>2 DEF MsgsOrdered
    <3>3. CASE k = n + 1
      BY <1>2, <1>5, <3>1, <3>3
    <3> QED BY <1>6, <3>2, <3>3
  <2>3. ASSUME NEW a \in DOMAIN t.accepted, NEW i \in 1 .. n + 1
        PROVE  t.accepted[a].msg < JobAt(d, i).msg
    BY <1>1, <1>2, <1>5, <1>6 DEF MsgsOrdered
  <2> QED BY <1>1, <1>5, <2>1, <2>2, <2>3 DEF MsgsOrdered
<1>10. BuffersApart(t, d)
  <2>1. j.buf # NoBuf
    BY JobFlowAssumption DEF Loaded
  <2>2. ASSUME NEW i \in 1 .. n
        PROVE  JobAt(c, i).buf # j.buf
    <3>1. JobAt(c, i).buf # j.buf
      BY <1>2, <2>1 DEF Held
    <3> QED BY <3>1
  <2>3. t.job.buf # j.buf /\ \A p \in 0 .. MaxCommits - 1 : j.buf # t.queue.commits[p].buf
    BY <2>1 DEF Held
  <2>4. ASSUME NEW i \in 1 .. n + 1, NEW k \in 1 .. n + 1,
               JobAt(d, i).buf = JobAt(d, k).buf
        PROVE  i = k
    <3>1. CASE i \in 1 .. n /\ k \in 1 .. n
      BY <1>1, <1>2, <1>5, <2>4, <3>1 DEF BuffersApart
    <3>2. CASE i = n + 1 /\ k \in 1 .. n
      BY <1>5, <2>2, <2>4, <3>2
    <3>3. CASE i \in 1 .. n /\ k = n + 1
      BY <1>5, <2>2, <2>4, <3>3
    <3> QED BY <1>6, <3>1, <3>2, <3>3
  <2>5. ASSUME NEW i \in 1 .. n + 1
        PROVE  /\ \A p \in 0 .. MaxCommits - 1 :
                    JobAt(d, i).buf # t.queue.commits[p].buf
               /\ t.pc # "busy" => JobAt(d, i).buf # t.job.buf
    BY <1>1, <1>2, <1>5, <1>6, <2>3 DEF BuffersApart
  <2> QED BY <1>1, <1>5, <2>4, <2>5 DEF BuffersApart
<1>11. Held(t, d) \subseteq Held(t, c) \cup {j.buf}
  BY <1>2, <1>5, <1>6 DEF Held
<1> QED
  BY <1>1, <1>3, <1>5, <1>7, <1>8, <1>9, <1>10, <1>11 DEF EntryOK

\* The first job is taken off; the worker may go on to another place, with
\* the job it has answered.
LEMMA PopEntry ==
  ASSUME NEW s, NEW m \in Int, NEW t, NEW c, EntryOK(s, m, t, c),
         c.count > 0, NEW u \in WorkerType,
         u.job = t.job /\ u.queue = t.queue /\ u.accepted = t.accepted,
         u.made = t.made,
         u.pc \in {"loop", "quit"} \/ (u = t /\ t.pc = "dead"),
         MadeInCommit(u), InOrder(u)
  PROVE  /\ EntryOK(s, m, u, channel_pop(c))
         /\ Held(u, channel_pop(c)) \subseteq Held(t, c)
         /\ JobAt(c, 1).buf \in Held(t, c)
         /\ JobAt(c, 1).buf \notin Needed(u, channel_pop(c))
<1>1. /\ t \in WorkerType /\ c \in ChannelType
      /\ ChannelShape(c) /\ QueueShape(t.queue)
      /\ WorkerPhases(t, c) /\ JobsLoaded(s, c) /\ MsgsOrdered(m, t, c)
      /\ BuffersApart(t, c) /\ ChangesKept(s, t)
  BY DEF EntryOK
<1>2. PICK n : n = c.count
  OBVIOUS
<1>3. PICK d : d = channel_pop(c)
  OBVIOUS
<1>4. n \in Nat /\ n > 0
  BY <1>1, <1>2 DEF ChannelType
<1>5. /\ d \in ChannelType /\ ChannelShape(d) /\ d.count = n - 1
      /\ \A i \in 1 .. n - 1 : JobAt(d, i) = JobAt(c, i + 1)
  BY <1>1, <1>2, <1>3, <1>4, PopShape
<1>6. 1 \in 1 .. n /\ \A i \in 1 .. n - 1 : i + 1 \in 1 .. n /\ i + 1 # 1
  BY <1>4
<1>7. JobsLoaded(s, d)
  BY <1>1, <1>2, <1>5, <1>6 DEF JobsLoaded
<1>8. WorkerPhases(u, d)
  BY <1>1, <1>5 DEF WorkerPhases
<1>9. MsgsOrdered(m, u, d)
  <2>1. ASSUME NEW i \in 1 .. n - 1, NEW k \in 1 .. n - 1, i < k
        PROVE  JobAt(d, i).msg < JobAt(d, k).msg
    <3>1. PICK a \in 1 .. n, b \in 1 .. n : a = i + 1 /\ b = k + 1 /\ a < b
      BY <1>4, <2>1
    <3> QED BY <1>1, <1>2, <1>5, <3>1 DEF MsgsOrdered
  <2>2. ASSUME NEW i \in 1 .. n - 1
        PROVE  /\ JobAt(d, i).msg \in 1 .. m
               /\ \A a \in DOMAIN t.accepted : t.accepted[a].msg < JobAt(d, i).msg
    <3>1. PICK k \in 1 .. n : k = i + 1
      BY <1>4
    <3> QED BY <1>1, <1>2, <1>5, <3>1 DEF MsgsOrdered
  <2> QED BY <1>1, <1>5, <2>1, <2>2 DEF MsgsOrdered
<1>10. BuffersApart(u, d)
  <2>1. ASSUME NEW i \in 1 .. n - 1, NEW k \in 1 .. n - 1,
               JobAt(d, i).buf = JobAt(d, k).buf
        PROVE  i = k
    <3>1. PICK a \in 1 .. n, b \in 1 .. n : a = i + 1 /\ b = k + 1
      BY <1>4
    <3>2. a = b
      BY <1>1, <1>2, <1>5, <2>1, <3>1 DEF BuffersApart
    <3> QED BY <3>1, <3>2
  <2>2. ASSUME NEW i \in 1 .. n - 1
        PROVE  /\ \A p \in 0 .. MaxCommits - 1 :
                    JobAt(d, i).buf # u.queue.commits[p].buf
               /\ JobAt(d, i).buf # u.job.buf
    <3>1. PICK k \in 1 .. n : k = i + 1 /\ k # 1
      BY <1>4
    <3>2. JobAt(d, i) = JobAt(c, k)
      BY <1>5, <3>1
    <3>3. CASE t.pc = "busy"
      <4>1. t.job = JobAt(c, 1)
        BY <1>1, <3>3 DEF WorkerPhases
      <4> QED BY <1>1, <1>2, <1>6, <3>1, <3>2, <4>1 DEF BuffersApart
    <3>4. CASE t.pc # "busy"
      BY <1>1, <1>2, <3>2, <3>4 DEF BuffersApart
    <3> QED BY <3>3, <3>4
  <2> QED BY <1>1, <1>5, <2>1, <2>2 DEF BuffersApart
<1>11. ChangesKept(s, u)
  BY <1>1 DEF ChangesKept
<1>12. Held(u, d) \subseteq Held(t, c)
  <2> SUFFICES ASSUME NEW i \in 1 .. n - 1
               PROVE  \E k \in 1 .. n : JobAt(d, i) = JobAt(c, k)
    BY <1>2, <1>5 DEF Held
  <2> QED BY <1>5, <1>6
<1>13. JobAt(c, 1).buf \in Bufs /\ JobAt(c, 1).buf # NoBuf
  BY <1>1, <1>2, <1>6, JobFlowAssumption DEF JobsLoaded, Loaded
<1>14. JobAt(c, 1).buf \in Held(t, c)
  BY <1>2, <1>6, <1>13 DEF Held
<1>15. JobAt(c, 1).buf \notin Needed(u, d)
  <2>1. ASSUME NEW i \in 1 .. n - 1
        PROVE  JobAt(d, i).buf # JobAt(c, 1).buf
    <3>1. PICK k \in 1 .. n : k = i + 1 /\ k # 1
      BY <1>4
    <3> QED BY <1>1, <1>2, <1>5, <1>6, <3>1 DEF BuffersApart
  <2>2. \A p \in 0 .. MaxCommits - 1 : t.queue.commits[p].buf # JobAt(c, 1).buf
    BY <1>1, <1>2, <1>6 DEF BuffersApart
  <2> QED BY <1>5, <2>1, <2>2 DEF Needed
<1> QED
  BY <1>1, <1>3, <1>5, <1>7, <1>8, <1>9, <1>10, <1>11, <1>12, <1>14, <1>15
     DEF EntryOK

\* A worker goes on without a change to its queue: to the next job, or to one
\* it takes, or to its end.
LEMMA MoveEntry ==
  ASSUME NEW s, NEW m \in Int, NEW t, NEW c, EntryOK(s, m, t, c),
         NEW u \in WorkerType,
         u.queue = t.queue /\ u.accepted = t.accepted /\ u.made = t.made,
         u.pc \in {"loop", "recv", "busy", "quit"}, WorkerPhases(u, c),
         u.job = NullJob \/ u.pc = "busy" \/ (u.job = t.job /\ t.pc # "busy"),
         t.made = <<>>
  PROVE  /\ EntryOK(s, m, u, c)
         /\ Held(u, c) \subseteq Held(t, c)
<1>1. /\ t \in WorkerType /\ c \in ChannelType
      /\ ChannelShape(c) /\ QueueShape(t.queue)
      /\ WorkerPhases(t, c) /\ JobsLoaded(s, c) /\ MsgsOrdered(m, t, c)
      /\ BuffersApart(t, c) /\ ChangesKept(s, t) /\ InOrder(t)
  BY DEF EntryOK
<1>2. MsgsOrdered(m, u, c) /\ ChangesKept(s, u)
  BY <1>1 DEF MsgsOrdered, ChangesKept
<1>3. MadeInCommit(u) /\ InOrder(u)
  BY <1>1 DEF MadeInCommit, InOrder
<1>4. \A i \in 1 .. c.count : JobAt(c, i).buf # NoBuf
  BY <1>1, JobFlowAssumption DEF JobsLoaded, Loaded
<1>5. BuffersApart(u, c)
  <2> SUFFICES ASSUME NEW i \in 1 .. c.count, u.pc # "busy"
               PROVE  JobAt(c, i).buf # u.job.buf
    BY <1>1 DEF BuffersApart
  <2>1. NullJob.buf = NoBuf
    BY DEF NullJob
  <2> QED BY <1>1, <1>4, <2>1 DEF BuffersApart
<1>6. Held(u, c) \subseteq Held(t, c)
  <2> SUFFICES u.job.buf \in Held(t, c) \cup {NoBuf}
    BY DEF Held
  <2>1. CASE u.job = NullJob
    BY <2>1 DEF NullJob
  <2>2. CASE u.pc = "busy"
    <3>1. c.count > 0 /\ u.job = JobAt(c, 1)
      BY <2>2 DEF WorkerPhases
    <3>2. 1 \in 1 .. c.count
      BY <1>1, <3>1 DEF ChannelType
    <3> QED BY <3>1, <3>2 DEF Held
  <2>3. CASE u.job = t.job
    BY <2>3 DEF Held
  <2> QED BY <2>1, <2>2, <2>3
<1> QED
  BY <1>1, <1>2, <1>3, <1>5, <1>6 DEF EntryOK

\* A new queue is of its type, in shape and without buffers.
LEMMA NewWorkers ==
  /\ NewQueue \in QueueType /\ QueueShape(NewQueue) /\ NewQueue.size = 0
  /\ \A p \in 0 .. MaxCommits - 1 : NewQueue.commits[p].buf = NoBuf
  /\ NewChannel \in ChannelType /\ ChannelShape(NewChannel)
  /\ NewChannel.count = 0
<1>1. MaxCommits \in Nat \ {0} /\ MaxItems \in Nat \ {0}
  BY JobFlowAssumption
<1>2. NullCommit \in CommitType /\ NullCommit.buf = NoBuf /\ NullJob \in JobType
  BY NullTypes DEF NullCommit
<1>3. 0 \in 0 .. MaxCommits - 1 /\ 0 \in 0 .. MaxCommits
      /\ 0 \in 0 .. MaxItems - 1 /\ 0 \in 0 .. MaxItems
  BY <1>1
<1>4. 0 % MaxCommits = 0 /\ 0 % MaxItems = 0
  BY <1>1, <1>3, ModSmall
<1>5. /\ NewQueue \in QueueType /\ NewQueue.size = 0
      /\ NewQueue.head = 0 /\ NewQueue.tail = 0
      /\ \A p \in 0 .. MaxCommits - 1 : NewQueue.commits[p] = NullCommit
  BY <1>2, <1>3 DEF NewQueue, QueueType
<1>6. /\ NewChannel \in ChannelType /\ NewChannel.count = 0
      /\ NewChannel.head = 0 /\ NewChannel.tail = 0
      /\ \A p \in 0 .. MaxItems - 1 : NewChannel.jobs[p] = NullJob
  BY <1>2, <1>3 DEF NewChannel, ChannelType
<1>7. QueueShape(NewQueue)
  BY <1>4, <1>5 DEF QueueShape
<1>8. \A i \in 0 + 1 .. MaxItems : JobAt(NewChannel, i) = NullJob
  <2> SUFFICES ASSUME NEW i \in 0 + 1 .. MaxItems
               PROVE  JobAt(NewChannel, i) = NullJob
    OBVIOUS
  <2>1. (0 + i - 1) % MaxItems \in 0 .. MaxItems - 1
    BY <1>1, <1>3, RingPlace
  <2> QED BY <1>6, <2>1 DEF JobAt
<1>9. ChannelShape(NewChannel)
  BY <1>4, <1>6, <1>8 DEF ChannelShape
<1> QED
  BY <1>2, <1>5, <1>6, <1>7, <1>9

\* A worker with nothing, in the place of another; one that has not started
\* has no jobs.
LEMMA FreshEntry ==
  ASSUME NEW s, NEW m \in Int, NEW t, NEW c, EntryOK(s, m, t, c),
         NEW u \in WorkerType, u.pc \in {"none", "dead", "loop"},
         u.pc = "none" => c.count = 0, u.running => u.pc = "loop",
         u.job = NullJob /\ u.queue = NewQueue,
         u.accepted = <<>> /\ u.made = <<>>
  PROVE  /\ EntryOK(s, m, u, c)
         /\ Held(u, c) \subseteq Held(t, c)
         /\ Held(u, c) \subseteq {JobAt(c, i).buf : i \in 1 .. c.count}
<1>1. /\ c \in ChannelType /\ ChannelShape(c) /\ JobsLoaded(s, c)
      /\ MsgsOrdered(m, t, c) /\ BuffersApart(t, c)
  BY DEF EntryOK
<1>4. QueueShape(u.queue) /\ u.queue.size = 0
      /\ \A x \in 0 .. MaxCommits - 1 : u.queue.commits[x].buf = NoBuf
  BY NewWorkers
<1>5. WorkerPhases(u, c)
  BY DEF WorkerPhases
<1>6. u.accepted = <<>> /\ u.made = <<>> /\ u.job.buf = NoBuf
  BY DEF NullJob
<1>7. DOMAIN u.accepted = {} /\ DOMAIN u.made = {} /\ Len(u.accepted) = 0 /\ Len(u.made) = 0
  BY <1>6
<1>8. MsgsOrdered(m, u, c)
  BY <1>1, <1>7 DEF MsgsOrdered
<1>9. ChangesKept(s, u)
  BY <1>4, <1>7 DEF ChangesKept
<1>10. MadeInCommit(u) /\ InOrder(u)
  BY <1>6, <1>7 DEF MadeInCommit, InOrder
<1>11. \A i \in 1 .. c.count : JobAt(c, i).buf # NoBuf
  BY <1>1, JobFlowAssumption DEF JobsLoaded, Loaded
<1>12. BuffersApart(u, c)
  BY <1>1, <1>4, <1>6, <1>11 DEF BuffersApart
<1>13. Held(u, c) \subseteq {JobAt(c, i).buf : i \in 1 .. c.count}
  BY <1>4, <1>6 DEF Held
<1>14. {JobAt(c, i).buf : i \in 1 .. c.count} \subseteq Held(t, c)
  BY <1>11 DEF Held
<1> QED
  BY <1>1, <1>4, <1>5, <1>8, <1>9, <1>10, <1>12, <1>13, <1>14 DEF EntryOK

\* The workers that are put in an entry, or left in it, have nothing.
LEMMA FreshWorkers ==
  /\ NoWorker \in WorkerType /\ NoWorker.pc = "none" /\ ~NoWorker.running
  /\ NoWorker.job = NullJob /\ NoWorker.queue = NewQueue
  /\ NoWorker.accepted = <<>> /\ NoWorker.made = <<>>
  /\ \A u : u = [NoWorker EXCEPT !.pc = "dead"] =>
       /\ u \in WorkerType /\ u.pc = "dead" /\ ~u.running
       /\ u.job = NullJob /\ u.queue = NewQueue
       /\ u.accepted = <<>> /\ u.made = <<>>
  /\ \A u : u = NewWorker =>
       /\ u \in WorkerType /\ u.pc = "loop"
       /\ u.job = NullJob /\ u.queue = NewQueue
       /\ u.accepted = <<>> /\ u.made = <<>>
<1>1. NewQueue \in QueueType /\ NullJob \in JobType
  BY NewWorkers, NullTypes
<1>2. NoWorker \in WorkerType
  BY <1>1 DEF NoWorker, WorkerType, Pcs
<1>3. /\ NoWorker.pc = "none" /\ ~NoWorker.running
      /\ NoWorker.job = NullJob /\ NoWorker.queue = NewQueue
      /\ NoWorker.accepted = <<>> /\ NoWorker.made = <<>>
  BY DEF NoWorker
<1>4. ASSUME NEW u, u = [NoWorker EXCEPT !.pc = "dead"]
      PROVE  /\ u \in WorkerType /\ u.pc = "dead" /\ ~u.running
             /\ u.job = NullJob /\ u.queue = NewQueue
             /\ u.accepted = <<>> /\ u.made = <<>>
  BY <1>2, <1>3, <1>4 DEF WorkerType, Pcs
<1>5. ASSUME NEW u, u = NewWorker
      PROVE  /\ u \in WorkerType /\ u.pc = "loop"
             /\ u.job = NullJob /\ u.queue = NewQueue
             /\ u.accepted = <<>> /\ u.made = <<>>
  BY <1>2, <1>3, <1>5 DEF WorkerType, Pcs, NewWorker
<1> QED
  BY <1>2, <1>3, <1>4, <1>5

\* A sequence with one more at its end
LEMMA Appended ==
  ASSUME NEW S, NEW q \in Seq(S), NEW x \in S, NEW r, r = Append(q, x),
         NEW k, k = Len(q)
  PROVE  /\ k \in Nat /\ Len(r) = k + 1 /\ DOMAIN r = 1 .. k + 1
         /\ DOMAIN q = 1 .. k /\ r[k + 1] = x /\ r \in Seq(S)
         /\ \A i \in 1 .. k : r[i] = q[i]
  OBVIOUS

\* One more change is accepted, with the buffer of the job or with none.
LEMMA QueueEntry ==
  ASSUME NEW s, NEW m \in Int, NEW t, NEW c, EntryOK(s, m, t, c),
         t.pc = "loop", t.queue.size < MaxCommits,
         NEW x \in CommitType, NEW a \in AcceptedType,
         x.buf = NoBuf \/ (/\ x.buf = t.job.buf
                           /\ \A p \in 0 .. MaxCommits - 1 :
                                x.buf # t.queue.commits[p].buf),
         a.msg = x.msg, a.msg \in 1 .. m,
         \A i \in 1 .. c.count : a.msg < JobAt(c, i).msg,
         \A b \in DOMAIN t.accepted : t.accepted[b].msg < a.msg,
         x.op # "DELETE" => x.buf \in Bufs /\ (a.whole => s[x.buf].IMAGE = x.msg),
         NEW u \in WorkerType,
         u.pc = "loop" /\ u.job = t.job /\ u.made = t.made,
         u.queue = queue_send(t.queue, x), u.accepted = Append(t.accepted, a)
  PROVE  /\ EntryOK(s, m, u, c)
         /\ Held(u, c) \subseteq Held(t, c)
<1>1. /\ t \in WorkerType /\ c \in ChannelType
      /\ ChannelShape(c) /\ QueueShape(t.queue) /\ t.queue \in QueueType
      /\ WorkerPhases(t, c) /\ JobsLoaded(s, c) /\ MsgsOrdered(m, t, c)
      /\ BuffersApart(t, c) /\ ChangesKept(s, t) /\ MadeInCommit(t)
      /\ InOrder(t)
  BY DEF EntryOK, WorkerType
<1>2. PICK q : q = t.queue
  OBVIOUS
<1>3. PICK n : n = q.size
  OBVIOUS
<1>4. n \in Nat /\ n < MaxCommits /\ q \in QueueType /\ QueueShape(q)
  BY <1>1, <1>2, <1>3 DEF QueueType
<1>5. PICK d : d = u.queue
  OBVIOUS
<1>6. /\ d \in QueueType /\ QueueShape(d) /\ d.size = n + 1
      /\ ChangeAt(d, n + 1) = x
      /\ \A i \in 1 .. n : ChangeAt(d, i) = ChangeAt(q, i)
      /\ d.commits = [q.commits EXCEPT ![q.head] = x]
  <2>1. d = queue_send(q, x)
    BY <1>2, <1>5
  <2> QED BY <1>3, <1>4, <2>1, QueueSendShape
<1>7. t.made = <<>>
  BY <1>1 DEF MadeInCommit
<1>8. PICK k : k = Len(t.accepted)
  OBVIOUS
<1>9. k \in Nat /\ k = n /\ t.accepted \in Seq(AcceptedType)
  BY <1>1, <1>2, <1>3, <1>4, <1>7, <1>8 DEF ChangesKept, WorkerType
<1>10. /\ Len(u.accepted) = k + 1 /\ DOMAIN u.accepted = 1 .. k + 1
       /\ DOMAIN t.accepted = 1 .. k /\ u.accepted[k + 1] = a
       /\ \A i \in 1 .. k : u.accepted[i] = t.accepted[i]
  <2>0. PICK r0 : r0 = u.accepted
    OBVIOUS
  <2>1. PICK q0 \in Seq(AcceptedType) :
          q0 = t.accepted /\ r0 = u.accepted
    BY <1>9, <2>0
  <2>2. r0 = Append(q0, a) /\ k = Len(q0)
    BY <1>8, <2>1
  <2>3. /\ Len(r0) = k + 1 /\ DOMAIN r0 = 1 .. k + 1
        /\ DOMAIN q0 = 1 .. k /\ r0[k + 1] = a
        /\ \A i \in 1 .. k : r0[i] = q0[i]
    BY <2>2, Appended
  <2> QED BY <2>1, <2>3
<1>11. \A i \in 1 .. k + 1 : i \in 1 .. k \/ i = k + 1
  BY <1>9
<1>12. ChangesKept(s, u)
  <2>1. Len(u.made) = 0 /\ Len(u.accepted) = Len(u.made) + d.size
    BY <1>6, <1>7, <1>9, <1>10
  <2>2. ASSUME NEW i \in 1 .. n + 1, NEW y, y = ChangeAt(d, i), NEW e, e = u.accepted[i]
        PROVE  /\ e.msg = y.msg
               /\ y.op # "DELETE" =>
                    y.buf \in Bufs /\ (e.whole => s[y.buf].IMAGE = y.msg)
    <3>1. CASE i \in 1 .. n
      <4>1. y = ChangeAt(q, i) /\ e = t.accepted[i]
        BY <1>6, <1>9, <1>10, <2>2, <3>1
      <4>2. Len(t.made) + i = i /\ i \in 1 .. t.queue.size
        BY <1>2, <1>3, <1>7, <3>1
      <4> QED BY <1>1, <1>2, <4>1, <4>2 DEF ChangesKept
    <3>2. CASE i = n + 1
      <4>1. y = x /\ e = a
        BY <1>6, <1>9, <1>10, <2>2, <3>2
      <4> QED BY <4>1
    <3> QED BY <1>9, <1>11, <3>1, <3>2
  <2>3. \A i \in 1 .. n + 1 : Len(u.made) + i = i
    BY <1>4, <2>1
  <2>4. \A i \in 1 .. u.queue.size :
          LET e == u.accepted[Len(u.made) + i]
              y == ChangeAt(u.queue, i)
          IN  /\ e.msg = y.msg
              /\ y.op # "DELETE" =>
                   y.buf \in Bufs /\ (e.whole => s[y.buf].IMAGE = y.msg)
    <3> TAKE i \in 1 .. u.queue.size
    <3>1. i \in 1 .. n + 1
      BY <1>5, <1>6
    <3>2. PICK y, e : y = ChangeAt(d, i) /\ e = u.accepted[Len(u.made) + i]
      OBVIOUS
    <3>3. e = u.accepted[i]
      BY <2>3, <3>1, <3>2
    <3>4. /\ e.msg = y.msg
          /\ y.op # "DELETE" =>
               y.buf \in Bufs /\ (e.whole => s[y.buf].IMAGE = y.msg)
      BY <2>2, <3>1, <3>2, <3>3
    <3> QED BY <1>5, <3>2, <3>4
  <2> QED BY <1>5, <2>1, <2>4 DEF ChangesKept
<1>13. MsgsOrdered(m, u, c)
  <2>1. ASSUME NEW i \in 1 .. k + 1
        PROVE  /\ u.accepted[i].msg \in 1 .. m
               /\ \A j \in 1 .. c.count : u.accepted[i].msg < JobAt(c, j).msg
    BY <1>1, <1>10, <1>11 DEF MsgsOrdered
  <2>2. ASSUME NEW i \in 1 .. k + 1, NEW j \in 1 .. k + 1, i < j
        PROVE  u.accepted[i].msg < u.accepted[j].msg
    <3>1. i \in 1 .. k
      BY <1>9, <2>2
    <3>2. CASE j \in 1 .. k
      BY <1>1, <1>10, <2>2, <3>1, <3>2 DEF MsgsOrdered
    <3>3. CASE j = k + 1
      BY <1>10, <3>1, <3>3
    <3> QED BY <1>11, <3>2, <3>3
  <2> QED BY <1>1, <1>10, <2>1, <2>2 DEF MsgsOrdered
<1>14. InOrder(u)
  <2>1. DOMAIN u.made = {} /\ Len(u.made) = 0
    BY <1>7
  <2> QED BY <1>7, <1>9, <1>10, <2>1 DEF InOrder
<1>15. MadeInCommit(u)
  BY <1>7 DEF MadeInCommit
<1>16. WorkerPhases(u, c)
  BY DEF WorkerPhases
<1>17. q.head \in 0 .. MaxCommits - 1 /\ q.commits \in [0 .. MaxCommits - 1 -> CommitType]
  BY <1>4 DEF QueueType
<1>18. \A p \in 0 .. MaxCommits - 1 :
         d.commits[p] = q.commits[p] \/ (p = q.head /\ d.commits[p] = x)
  BY <1>6, <1>17
<1>19. \A i \in 1 .. c.count : JobAt(c, i).buf # NoBuf
  BY <1>1, JobFlowAssumption DEF JobsLoaded, Loaded
<1>20. BuffersApart(u, c)
  <2>1. ASSUME NEW i \in 1 .. c.count, NEW p \in 0 .. MaxCommits - 1
        PROVE  JobAt(c, i).buf # d.commits[p].buf
    <3>1. JobAt(c, i).buf # x.buf
      BY <1>1, <1>19 DEF BuffersApart
    <3> QED BY <1>1, <1>2, <1>18, <3>1 DEF BuffersApart
  <2>2. ASSUME NEW p \in 0 .. MaxCommits - 1, NEW r \in 0 .. MaxCommits - 1,
               d.commits[p].buf = d.commits[r].buf
        PROVE  p = r \/ d.commits[p].buf = NoBuf
    <3>1. CASE d.commits[p] = q.commits[p] /\ d.commits[r] = q.commits[r]
      BY <1>1, <1>2, <2>2, <3>1 DEF BuffersApart
    <3>2. CASE d.commits[p] = x /\ d.commits[r] = q.commits[r]
      BY <1>2, <2>2, <3>2
    <3>3. CASE d.commits[p] = q.commits[p] /\ d.commits[r] = x
      BY <1>2, <2>2, <3>3
    <3>4. CASE p = q.head /\ r = q.head
      BY <3>4
    <3> QED BY <1>18, <3>1, <3>2, <3>3, <3>4
  <2> QED BY <1>1, <1>5, <2>1, <2>2 DEF BuffersApart
<1>21. Held(u, c) \subseteq Held(t, c)
  <2> SUFFICES ASSUME NEW p \in 0 .. MaxCommits - 1
               PROVE  d.commits[p].buf \in Held(t, c) \cup {NoBuf}
    BY <1>5 DEF Held
  <2>1. CASE d.commits[p] = q.commits[p]
    BY <1>2, <2>1 DEF Held
  <2>2. CASE d.commits[p] = x
    BY <2>2 DEF Held
  <2> QED BY <1>18, <2>1, <2>2
<1> QED
  BY <1>1, <1>5, <1>6, <1>12, <1>13, <1>14, <1>15, <1>16, <1>20, <1>21
     DEF EntryOK

\* Worker u is t with its oldest change made, with what its buffer holds.
MakesNext(s, t, u) ==
    \E x, data, e :
        /\ x = queue_get(t.queue)
        /\ data = IF x.op = "DELETE" THEN x.msg ELSE s[x.buf].IMAGE
        /\ e = [msg |-> x.msg, data |-> data]
        /\ u = [t EXCEPT !.queue = queue_pop(t.queue), !.made = Append(t.made, e)]

\* One accepted change is made.
LEMMA CommitEntry ==
  ASSUME NEW s, NEW m \in Int, NEW t, NEW c, EntryOK(s, m, t, c),
         t.pc = "busy" /\ t.job.op = "COMMIT_TXN" /\ t.status = "SHRINKING",
         t.queue.size > 0, s \in StoreType,
         NEW u, MakesNext(s, t, u)
  PROVE  /\ EntryOK(s, m, u, c)
         /\ Held(u, c) \subseteq Held(t, c)
<1>1. /\ t \in WorkerType /\ c \in ChannelType
      /\ ChannelShape(c) /\ QueueShape(t.queue) /\ t.queue \in QueueType
      /\ WorkerPhases(t, c) /\ JobsLoaded(s, c) /\ MsgsOrdered(m, t, c)
      /\ BuffersApart(t, c) /\ ChangesKept(s, t) /\ MadeInCommit(t)
      /\ InOrder(t)
  BY DEF EntryOK, WorkerType
<1>0. PICK x, data, e :
        /\ x = queue_get(t.queue)
        /\ data = IF x.op = "DELETE" THEN x.msg ELSE s[x.buf].IMAGE
        /\ e = [msg |-> x.msg, data |-> data]
        /\ u = [t EXCEPT !.queue = queue_pop(t.queue), !.made = Append(t.made, e)]
  BY Zenon DEF MakesNext
<1>2. PICK q \in QueueType : q = t.queue
  BY <1>1
<1>3. PICK n \in Nat : n = q.size /\ n > 0
  BY <1>2 DEF QueueType
<1>4. PICK d : d = queue_pop(q)
  OBVIOUS
<1>5. /\ d \in QueueType /\ QueueShape(d) /\ d.size = n - 1
      /\ \A i \in Int : ChangeAt(d, i) = ChangeAt(q, i + 1)
      /\ d.commits = q.commits
  BY <1>1, <1>2, <1>3, <1>4, QueuePopShape
<1>6. x = ChangeAt(q, 1) /\ x \in CommitType
  <2>1. QueueRing(q)
    BY <1>1, <1>2 DEF QueueRing, QueueShape
  <2>2. 1 \in Int /\ ChangeAt(q, 1) = q.commits[q.tail] /\ ChangeAt(q, 1) \in CommitType
    BY <2>1, QPlaceType
  <2> QED BY <1>0, <1>2, <2>2 DEF queue_get
<1>7. PICK k \in Nat : k = Len(t.made)
  BY <1>1 DEF WorkerType
<1>8. /\ Len(t.accepted) = k + n
      /\ \A i \in 1 .. n :
           /\ t.accepted[k + i].msg = ChangeAt(q, i).msg
           /\ ChangeAt(q, i).op # "DELETE" =>
                /\ ChangeAt(q, i).buf \in Bufs
                /\ t.accepted[k + i].whole =>
                     s[ChangeAt(q, i).buf].IMAGE = ChangeAt(q, i).msg
  BY <1>1, <1>2, <1>3, <1>7 DEF ChangesKept
<1>9. 1 \in 1 .. n
  BY <1>3
<1>10. /\ t.accepted[k + 1].msg = x.msg
       /\ x.op # "DELETE" => x.buf \in Bufs
       /\ t.accepted[k + 1].whole => data = x.msg
  BY <1>0, <1>6, <1>8, <1>9
<1>11. data \in Mixed .. MaxMsgs
  <2>1. x.msg \in 0 .. MaxMsgs
    BY <1>6 DEF CommitType
  <2>2. CASE x.op = "DELETE"
    BY <1>0, <2>1, <2>2, JobFlowAssumption DEF Mixed
  <2>3. CASE x.op # "DELETE"
    <3>1. "IMAGE" \in Parts /\ x.buf \in Bufs
      BY <1>10, <2>3 DEF Parts
    <3> QED BY <1>0, <2>3, <3>1 DEF StoreType
  <2> QED BY <2>2, <2>3
<1>12. e \in MadeType
       /\ e.msg = x.msg /\ e.data = data
  BY <1>0, <1>6, <1>11 DEF CommitType, MadeType
<1>n. PICK new : new = Append(t.made, e)
  OBVIOUS
<1>13. PICK old \in Seq(MadeType) :
         old = t.made /\ new = Append(old, e)
  BY <1>1, <1>n DEF WorkerType
<1>14. k = Len(old)
  BY <1>7, <1>13
<1>15. /\ Len(new) = k + 1 /\ DOMAIN new = 1 .. k + 1
       /\ DOMAIN old = 1 .. k /\ new[k + 1] = e
       /\ new \in Seq(MadeType)
       /\ \A i \in 1 .. k : new[i] = old[i]
  BY <1>12, <1>13, <1>14, Appended
<1>16. u = [t EXCEPT !.queue = d, !.made = new]
  BY <1>0, <1>1, <1>2, <1>4, <1>13 DEF WorkerType
<1>17. /\ u \in WorkerType /\ u.queue = d /\ u.made = new /\ u.pc = t.pc
       /\ u.job = t.job /\ u.accepted = t.accepted /\ u.status = t.status
       /\ u.running = t.running
  BY <1>1, <1>5, <1>15, <1>16 DEF WorkerType
<1>18. InOrder(u)
  <2>1. Len(u.made) <= Len(u.accepted)
    BY <1>3, <1>7, <1>8, <1>15, <1>17
  <2>2. ASSUME NEW i \in 1 .. k + 1
        PROVE  /\ new[i].msg = t.accepted[i].msg
               /\ t.accepted[i].whole => new[i].data = new[i].msg
    <3>1. CASE i \in 1 .. k
      BY <1>1, <1>13, <1>15, <3>1 DEF InOrder
    <3>2. CASE i = k + 1
      BY <1>10, <1>12, <1>15, <3>2
    <3> QED BY <1>7, <3>1, <3>2
  <2> QED BY <1>15, <1>17, <2>1, <2>2 DEF InOrder
<1>19. ChangesKept(s, u)
  <2>1. Len(u.accepted) = Len(u.made) + u.queue.size
    <3>1. Len(u.accepted) = k + n /\ Len(u.made) = k + 1 /\ u.queue.size = n - 1
      BY <1>5, <1>8, <1>15, <1>17, Zenon
    <3>2. k + n = (k + 1) + (n - 1)
      BY <1>3, <1>7
    <3> QED BY <3>1, <3>2
  <2>2. ASSUME NEW i \in 1 .. n - 1
        PROVE  /\ t.accepted[k + 1 + i].msg = ChangeAt(d, i).msg
               /\ ChangeAt(d, i).op # "DELETE" =>
                    /\ ChangeAt(d, i).buf \in Bufs
                    /\ t.accepted[k + 1 + i].whole =>
                         s[ChangeAt(d, i).buf].IMAGE = ChangeAt(d, i).msg
    <3>1. PICK j \in 1 .. n : j = i + 1 /\ k + j = k + 1 + i
      BY <1>3, <1>7
    <3>2. ChangeAt(d, i) = ChangeAt(q, j)
      BY <1>5, <3>1
    <3> QED BY <1>8, <3>1, <3>2
  <2>3. Len(u.made) = k + 1 /\ u.queue = d /\ u.queue.size = n - 1
        /\ u.accepted = t.accepted
    BY <1>5, <1>15, <1>17
  <2> QED BY <2>1, <2>2, <2>3 DEF ChangesKept
<1>20. MsgsOrdered(m, u, c) /\ MadeInCommit(u) /\ WorkerPhases(u, c)
  BY <1>1, <1>17 DEF MsgsOrdered, MadeInCommit, WorkerPhases
<1>21. BuffersApart(u, c)
  <2>1. u.queue.commits = t.queue.commits /\ u.job = t.job /\ u.pc = t.pc
    BY <1>2, <1>5, <1>17
  <2> QED BY <1>1, <2>1 DEF BuffersApart
<1>22. Held(u, c) \subseteq Held(t, c)
  BY <1>2, <1>5, <1>17 DEF Held
<1> QED
  BY <1>1, <1>5, <1>17, <1>18, <1>19, <1>20, <1>21, <1>22 DEF EntryOK

-----------------------------------------------------------------------------
(* All entries *)

\* What an entry needs it holds.
LEMMA NeededHeld ==
  ASSUME NEW t, NEW c
  PROVE  Bufs \cap Needed(t, c) \subseteq Held(t, c)
  BY JobFlowAssumption DEF Needed, Held

\* The other entries after a step in one entry and of the manager.
LEMMA OtherEntries ==
  ASSUME IInv, NEW w \in Entries, msgs' \in Int, msgs <= msgs',
         \A b \in Bufs : \/ bytes'[b] = bytes[b] \/ b = mgr.job.buf
                         \/ b \in Held(work[w], chan[w]),
         NEW v \in Entries, v # w
  PROVE  EntryOK(bytes', msgs', work[v], chan[v])
<1>1. EntryOK(bytes, msgs, work[v], chan[v]) /\ msgs \in Int
  BY DEF IInv, TypeOK
<1>2. ASSUME NEW b \in Bufs \cap Needed(work[v], chan[v])
      PROVE  bytes'[b] = bytes[b]
  <2>1. b \in Held(work[v], chan[v])
    BY NeededHeld
  <2>2. b \notin Held(work[w], chan[w]) /\ b # mgr.job.buf
    BY <2>1 DEF IInv, HoldersApart
  <2> QED BY <2>2
<1> QED
  BY <1>1, <1>2, EntryFrame

\* A step in one entry, which may get the manager's buffer.
LEMMA EntryStep ==
  ASSUME IInv, NEW w \in Entries, NEW t, NEW c,
         work' = [work EXCEPT ![w] = t], chan' = [chan EXCEPT ![w] = c],
         msgs' \in 0 .. MaxMsgs, msgs <= msgs', bytes' \in StoreType,
         mgr' \in ManagerType, ManagerPhases', RepliesReadable',
         EntryOK(bytes', msgs', t, c),
         \A b \in Bufs : \/ bytes'[b] = bytes[b] \/ b = mgr.job.buf
                         \/ b \in Held(work[w], chan[w]),
         Held(t, c) \subseteq Held(work[w], chan[w]) \cup {mgr.job.buf},
         mgr'.job.buf \in {mgr.job.buf, NoBuf},
         mgr.job.buf \in Held(t, c) => mgr'.job.buf = NoBuf
  PROVE  IInv'
<1>1. work \in [Entries -> WorkerType] /\ chan \in [Entries -> ChannelType]
      /\ t \in WorkerType /\ c \in ChannelType
  BY DEF IInv, TypeOK, EntryOK
<1>2. /\ work' \in [Entries -> WorkerType] /\ chan' \in [Entries -> ChannelType]
      /\ work'[w] = t /\ chan'[w] = c
      /\ \A v \in Entries : v # w => work'[v] = work[v] /\ chan'[v] = chan[v]
  BY <1>1
<1>3. TypeOK'
  BY <1>2 DEF TypeOK
<1>4. ASSUME NEW v \in Entries
      PROVE  EntryOK(bytes', msgs', work'[v], chan'[v])
  <2>1. msgs' \in Int
    OBVIOUS
  <2>2. v # w => EntryOK(bytes', msgs', work[v], chan[v])
    BY <2>1, OtherEntries
  <2> QED BY <1>2, <2>2
<1>5. HoldersApart'
  <2>1. \A v \in Entries : NoBuf \notin Held(work'[v], chan'[v])
    BY DEF Held
  <2>2. \A v \in Entries : v # w =>
          /\ Held(work'[v], chan'[v]) = Held(work[v], chan[v])
          /\ mgr.job.buf \notin Held(work[v], chan[v])
          /\ Held(work[v], chan[v]) \cap Held(work[w], chan[w]) = {}
          /\ \A x \in Entries : x # v =>
               Held(work[v], chan[v]) \cap Held(work[x], chan[x]) = {}
    BY <1>2 DEF IInv, HoldersApart
  <2>3. Held(work'[w], chan'[w]) = Held(t, c)
    BY <1>2
  <2>4. mgr.job.buf \notin Held(work[w], chan[w])
    BY DEF IInv, HoldersApart
  <2>5. \A v \in Entries : mgr'.job.buf \notin Held(work'[v], chan'[v])
    BY <2>1, <2>2, <2>3
  <2>6. \A v \in Entries : v # w =>
          Held(work'[v], chan'[v]) \cap Held(work'[w], chan'[w]) = {}
    BY <2>2, <2>3
  <2>7. \A v, x \in Entries : v # x =>
          Held(work'[x], chan'[x]) \cap Held(work'[v], chan'[v]) = {}
    BY <2>2, <2>6
  <2> QED BY <2>5, <2>7 DEF HoldersApart
<1> QED
  BY <1>3, <1>4, <1>5 DEF IInv

\* A step of a worker, or of the manager for it.
LEMMA WorkerStep ==
  ASSUME IInv, NEW w \in Entries, NEW t, NEW c,
         work' = [work EXCEPT ![w] = t], chan' = [chan EXCEPT ![w] = c],
         UNCHANGED <<msgs, mgr>>, bytes' \in StoreType, RepliesReadable',
         EntryOK(bytes', msgs, t, c),
         \A b \in Bufs : bytes'[b] = bytes[b] \/ b \in Held(work[w], chan[w]),
         Held(t, c) \subseteq Held(work[w], chan[w])
  PROVE  IInv'
<1>1. /\ msgs' \in 0 .. MaxMsgs /\ msgs <= msgs' /\ mgr' \in ManagerType
      /\ mgr.job.buf \notin Held(work[w], chan[w])
      /\ EntryOK(bytes', msgs', t, c)
  BY DEF IInv, TypeOK, HoldersApart
<1>2. ManagerPhases'
  <2>1. mgr.pc = "reap" => Loaded(bytes', mgr.job)
    <3> SUFFICES ASSUME mgr.pc = "reap" PROVE Loaded(bytes', mgr.job)
      OBVIOUS
    <3>1. Loaded(bytes, mgr.job)
      BY DEF IInv, ManagerPhases
    <3>2. mgr.job.buf \in Bufs
      BY <3>1 DEF Loaded
    <3>3. bytes'[mgr.job.buf] = bytes[mgr.job.buf]
      BY <1>1, <3>2
    <3> QED BY <3>1, <3>3 DEF Loaded
  <2> QED BY <2>1 DEF IInv, ManagerPhases
<1> QED
  BY <1>1, <1>2, EntryStep

\* A step of the manager alone.
LEMMA ManagerStep ==
  ASSUME IInv, UNCHANGED <<chan, work>>,
         msgs' \in 0 .. MaxMsgs, msgs <= msgs', bytes' \in StoreType,
         mgr' \in ManagerType, ManagerPhases', RepliesReadable',
         \A b \in Bufs : bytes'[b] = bytes[b] \/ b = mgr.job.buf,
         \/ mgr'.job.buf \in {mgr.job.buf, NoBuf}
         \/ \A w \in Entries : mgr'.job.buf \notin Held(work[w], chan[w])
  PROVE  IInv'
<1>1. TypeOK'
  BY DEF IInv, TypeOK
<1>2. ASSUME NEW w \in Entries
      PROVE  EntryOK(bytes', msgs', work'[w], chan'[w])
  <2>1. EntryOK(bytes, msgs, work[w], chan[w]) /\ msgs \in Int /\ msgs' \in Int
    BY DEF IInv, TypeOK
  <2>2. ASSUME NEW b \in Bufs \cap Needed(work[w], chan[w])
        PROVE  bytes'[b] = bytes[b]
    <3>1. b \in Held(work[w], chan[w])
      BY NeededHeld
    <3>2. b # mgr.job.buf
      BY <3>1 DEF IInv, HoldersApart
    <3> QED BY <3>2
  <2>3. EntryOK(bytes', msgs', work[w], chan[w])
    BY <2>1, <2>2, EntryFrame
  <2> QED BY <2>3
<1>3. HoldersApart'
  <2>1. \A w \in Entries : NoBuf \notin Held(work[w], chan[w])
    BY DEF Held
  <2>2. \A w \in Entries : mgr'.job.buf \notin Held(work[w], chan[w])
    BY <2>1 DEF IInv, HoldersApart
  <2> QED BY <2>2 DEF IInv, HoldersApart
<1> QED
  BY <1>1, <1>2, <1>3 DEF IInv

-----------------------------------------------------------------------------
(* Buffers and replies *)

\* What a buffer may contain
Contents == [Parts -> Mixed .. MaxMsgs]

\* A content that holds what a message of this size has
Holds(buf, m, size) == \A f \in Fields : parse_field(f, size) => buf[f] = m

\* Writing a field of a message leaves the message whole.
LEMMA SetField ==
  ASSUME NEW buf \in Contents, NEW f \in Fields, NEW m \in 0 .. MaxMsgs,
         NEW size, Holds(buf, m, size)
  PROVE  /\ set_field(buf, f, m) \in Contents
         /\ Holds(set_field(buf, f, m), m, size)
<1>1. f \in Parts /\ "IMAGE" \in Parts /\ f # "IMAGE" /\ "IMAGE" \notin Fields
      /\ Fields \subseteq Parts
  BY DEF Parts, Fields
<1>2. Mixed \in Mixed .. MaxMsgs /\ m \in Mixed .. MaxMsgs
  BY JobFlowAssumption DEF Mixed
<1>3. set_field(buf, f, m) \in Contents
  BY <1>1, <1>2 DEF set_field, Contents
<1>4. \A g \in Fields : set_field(buf, f, m)[g] = IF g = f THEN m ELSE buf[g]
  BY <1>1 DEF set_field, Contents
<1> QED
  BY <1>3, <1>4 DEF Holds

\* The contents that the handlers and the manager leave in a buffer
LEMMA ContentTypes ==
  ASSUME NEW buf \in Contents, NEW m \in 0 .. MaxMsgs
  PROVE  /\ set_ack(buf, m) \in Contents
         /\ \A size \in Nat : received(buf, m, size) \in Contents
                              /\ Holds(received(buf, m, size), m, size)
         /\ set_image(buf) \in Contents
         /\ set_image(buf).IMAGE = buf.TUPLE
         /\ FreshBuffer \in Contents
         /\ set_ack(buf, m).TUPLE = buf.TUPLE
<1>1. Mixed \in Mixed .. MaxMsgs /\ m \in Mixed .. MaxMsgs /\ 0 \in Mixed .. MaxMsgs
  BY JobFlowAssumption DEF Mixed
<1>2. "IMAGE" \in Parts /\ "ACK" \in Parts /\ "TUPLE" \in Parts
  BY DEF Parts, Fields
<1>3. set_ack(buf, m) \in Contents /\ set_ack(buf, m).TUPLE = buf.TUPLE
  BY <1>1, <1>2 DEF set_ack, set_field, Contents
<1>4. FreshBuffer \in Contents
  BY <1>1 DEF FreshBuffer, Fresh, Contents
<1>5. set_image(buf) \in Contents /\ set_image(buf).IMAGE = buf.TUPLE
  BY <1>1, <1>2 DEF set_image, Contents
<1>6. ASSUME NEW size \in Nat
      PROVE  received(buf, m, size) \in Contents
             /\ Holds(received(buf, m, size), m, size)
  <2>1. received(buf, m, size) \in Contents
    BY <1>1 DEF received, Contents
  <2>2. \A f \in Fields : f \in Parts /\ f # "IMAGE"
    BY DEF Fields, Parts
  <2> QED BY <2>1, <2>2 DEF received, Holds
<1> QED
  BY <1>3, <1>4, <1>5, <1>6

\* A reply from a buffer with the whole message can be read.
LEMMA GoodReply ==
  ASSUME NEW buf \in [Parts -> Int], NEW m \in Int, NEW asked \in Nat,
         NEW size \in Nat, NEW ack, Holds(buf, m, asked),
         asked >= AckSize => size >= AckSize
  PROVE  Understood(Reply(buf, m, asked, ack, size))
<1>1. PICK r : r = Reply(buf, m, asked, ack, size)
  OBVIOUS
<1>2. /\ r.msg = m /\ r.asked = asked /\ r.size = size
      /\ r.from = {set_ack(buf, m)[f] : f \in Header}
  BY <1>1 DEF Reply
<1>3. SUFFICES ASSUME asked >= AckSize PROVE Readable(r)
  BY <1>1, <1>2 DEF Understood
<1>4. \A f \in Header : f \in Fields /\ parse_field(f, asked) /\ parse_field(f, size)
  BY <1>3 DEF Header, Fields, parse_field, Offset, Width, AckSize
<1>5. \A f \in Header : f \in Parts /\ "IMAGE" \in Parts /\ f # "IMAGE"
  BY DEF Header, Fields, Parts
<1>6. \A f \in Header : set_ack(buf, m)[f] = m
  <2> SUFFICES ASSUME NEW f \in Header PROVE set_ack(buf, m)[f] = m
    OBVIOUS
  <2>1. set_ack(buf, m)[f] = IF f = "ACK" THEN m ELSE buf[f]
    BY <1>5 DEF set_ack, set_field
  <2>2. buf[f] = m
    BY <1>4 DEF Holds
  <2> QED BY <2>1, <2>2
<1>7. "OP" \in Header
  BY DEF Header
<1>8. r.from = {m}
  BY <1>2, <1>6, <1>7
<1> QED
  BY <1>2, <1>4, <1>8 DEF Readable

\* Contents are numbers.
LEMMA ContentsInt == Contents \subseteq [Parts -> Int]
  BY JobFlowAssumption DEF Contents, Mixed

\* The acks of the replies, one way or the other
LEMMA SentReadable ==
  ASSUME RepliesReadable, NEW R, Sends(R),
         \A r \in R : Understood(r) \/ r.ack = "COMMIT_FULL"
  PROVE  RepliesReadable'
  BY DEF RepliesReadable, Sends

\* Buffers that are forgotten
LEMMA ForgottenBytes ==
  ASSUME TypeOK, NEW S
  PROVE  /\ Forgotten(S) \in StoreType
         /\ \A b \in Bufs : Forgotten(S)[b] = bytes[b] \/ b \in S
<1>1. FreshBuffer \in Contents
  <2>1. 0 \in Mixed .. MaxMsgs
    BY JobFlowAssumption DEF Mixed
  <2> QED BY <2>1 DEF FreshBuffer, Fresh, Contents
<1> QED
  BY <1>1 DEF Forgotten, TypeOK, StoreType, Contents

\* The type of the store, in terms of contents
LEMMA StoreIs == StoreType = [Bufs -> Contents]
  BY DEF StoreType, Contents

-----------------------------------------------------------------------------
(* The steps of the manager *)

\* AtRequest is where the manager has nothing.
LEMMA AtRequestType ==
  /\ AtRequest \in ManagerType /\ AtRequest.pc = "request"
  /\ AtRequest.job = NullJob /\ AtRequest.job.buf = NoBuf
<1>1. NullJob \in JobType
  BY NullTypes
<1> QED
  BY <1>1 DEF AtRequest, ManagerType, NullJob

\* The manager finds a buffer.
LEMMA RequestStep == IInv /\ Request => IInv'
<1> SUFFICES ASSUME IInv, Request PROVE IInv'
  OBVIOUS
<1>1. PICK b : b = CHOOSE x \in Free : TRUE
  OBVIOUS
<1>2. b \in Free
  BY <1>1 DEF Request
<1>3. b \in Bufs /\ b \notin Refs
  BY <1>2 DEF Free
<1>4. PICK j : j = [NullJob EXCEPT !.buf = b]
  OBVIOUS
<1>5. j \in JobType /\ j.buf = b
  BY <1>3, <1>4, NullTypes DEF JobType
<1>6. mgr' = [pc |-> "recv", job |-> j] /\ UNCHANGED <<bytes, msgs, chan, work, garbled>>
  BY <1>1, <1>4 DEF Request
<1>7. mgr' \in ManagerType /\ mgr'.pc = "recv" /\ mgr'.job.buf = b
  BY <1>5, <1>6 DEF ManagerType
<1>8. ManagerPhases'
  BY <1>3, <1>7 DEF ManagerPhases
<1>9. RepliesReadable'
  BY <1>6 DEF IInv, RepliesReadable
<1>10. ASSUME NEW w \in Entries
       PROVE  b \notin Held(work[w], chan[w])
  <2>1. EntryOK(bytes, msgs, work[w], chan[w])
    BY DEF IInv
  <2>2. work[w] \in WorkerType /\ chan[w] \in ChannelType /\ ChannelRing(chan[w])
    BY <2>1 DEF EntryOK, ChannelShape, ChannelRing
  <2>3. b # work[w].job.buf
    BY <1>3 DEF Refs
  <2>4. DOMAIN chan[w].jobs = 0 .. MaxItems - 1
        /\ DOMAIN work[w].queue.commits = 0 .. MaxCommits - 1
    BY <2>2 DEF ChannelType, WorkerType, QueueType
  <2>5. b \notin RefsOfChannel(w) /\ b \notin RefsOfQueue(w)
    BY <1>3 DEF Refs
  <2>6. \A p \in 0 .. MaxCommits - 1 : b # work[w].queue.commits[p].buf
    BY <2>4, <2>5 DEF RefsOfQueue
  <2>7. \A p \in 0 .. MaxItems - 1 : b # chan[w].jobs[p].buf
    BY <2>4, <2>5 DEF RefsOfChannel
  <2>8. ASSUME NEW i \in 1 .. chan[w].count PROVE b # JobAt(chan[w], i).buf
    <3>1. i \in Int
      BY <2>2 DEF ChannelType
    <3>2. PICK p \in 0 .. MaxItems - 1 : JobAt(chan[w], i) = chan[w].jobs[p]
      BY <2>2, <3>1, PlaceType
    <3> QED BY <2>7, <3>2
  <2> QED BY <2>3, <2>6, <2>8 DEF Held
<1>11. msgs' \in 0 .. MaxMsgs /\ msgs <= msgs' /\ bytes' \in StoreType
       /\ \A a \in Bufs : bytes'[a] = bytes[a]
  BY <1>6 DEF IInv, TypeOK
<1>12. UNCHANGED <<chan, work>>
  BY <1>6
<1> QED
  BY <1>7, <1>8, <1>9, <1>10, <1>11, <1>12, ManagerStep

\* The manager lets its message go, and its buffer.
LEMMA LetGo ==
  ASSUME IInv, mgr' = AtRequest, UNCHANGED <<msgs, chan, work>>,
         bytes' \in StoreType, RepliesReadable',
         \A b \in Bufs : bytes'[b] = bytes[b] \/ b = mgr.job.buf
  PROVE  IInv'
<1>1. mgr' \in ManagerType /\ mgr'.pc = "request" /\ mgr'.job = NullJob
      /\ mgr'.job.buf = NoBuf
  BY AtRequestType
<1>2. ManagerPhases'
  BY <1>1 DEF ManagerPhases
<1>3. msgs' \in 0 .. MaxMsgs /\ msgs <= msgs'
  BY DEF IInv, TypeOK
<1> QED
  BY <1>1, <1>2, <1>3, ManagerStep

\* Nothing is received.
LEMMA RecvNothingStep == IInv /\ RecvNothing => IInv'
<1> SUFFICES ASSUME IInv, RecvNothing PROVE IInv'
  OBVIOUS
<1>1. mgr' = AtRequest /\ UNCHANGED <<bytes, msgs, chan, work, garbled>>
  BY DEF RecvNothing
<1>2. RepliesReadable' /\ bytes' \in StoreType
  BY <1>1 DEF IInv, RepliesReadable, TypeOK
<1> QED
  BY <1>1, <1>2, LetGo

\* What is received is held by the buffer, and a message is of its type.
LEMMA ReceivedBytes ==
  ASSUME IInv, mgr.pc = "recv", NEW d \in Datagrams, msgs < MaxMsgs
  PROVE  /\ mgr.job.buf \in Bufs /\ msgs + 1 \in 1 .. MaxMsgs
         /\ Filled(d) \in Contents /\ Holds(Filled(d), msgs + 1, d.size)
         /\ Message(d) \in JobType /\ Message(d).buf = mgr.job.buf
         /\ Message(d).msg = msgs + 1 /\ Message(d).size = d.size
         /\ Message(d).op = d.op
<1>1. mgr.job.buf \in Bufs /\ msgs \in 0 .. MaxMsgs /\ MaxMsgs \in Nat
  BY JobFlowAssumption DEF IInv, ManagerPhases, TypeOK
<1>2. PICK b \in Bufs, k \in 1 .. MaxMsgs : b = mgr.job.buf /\ k = msgs + 1
  BY <1>1
<1>3. bytes[b] \in Contents /\ k \in 0 .. MaxMsgs
  BY DEF IInv, TypeOK, StoreType, Contents
<1>4. d.size \in Nat /\ d.op \in OpTypes \cup {"none", "BAD"}
  BY JobFlowAssumption
<1>5. received(bytes[b], k, d.size) \in Contents
      /\ Holds(received(bytes[b], k, d.size), k, d.size)
  BY <1>3, <1>4, ContentTypes
<1>6. Filled(d) \in Contents /\ Holds(Filled(d), msgs + 1, d.size)
  BY <1>2, <1>5 DEF Filled
<1>7. Message(d) = [buf |-> b, msg |-> k, op |-> d.op, size |-> d.size]
  BY <1>2 DEF Message
<1>8. Message(d) \in JobType /\ Message(d).buf = b /\ Message(d).msg = k
      /\ Message(d).size = d.size /\ Message(d).op = d.op
  BY <1>3, <1>4, <1>7 DEF JobType
<1> QED
  BY <1>2, <1>6, <1>8

\* A message is refused.
LEMMA RefusedStep ==
  ASSUME IInv, NEW d \in Datagrams, NEW ack, Refused(d, ack)
  PROVE  IInv'
<1>1. PICK b \in Bufs, k \in Int, z \in Nat :
        b = mgr.job.buf /\ k = msgs + 1 /\ z = d.size
  BY JobFlowAssumption DEF IInv, ManagerPhases, TypeOK, Refused
<1>2. bytes[b] \in [Parts -> Int]
  BY ContentsInt DEF IInv, TypeOK, StoreType, Contents
<1>3. Filled(d) = received(bytes[b], k, z)
  BY <1>1 DEF Filled
<1>4. Filled(d) \in [Parts -> Int]
  BY <1>2, <1>3 DEF received, Mixed
<1>5. Holds(Filled(d), k, z)
  <2>1. \A f \in Fields : f \in Parts /\ f # "IMAGE"
    BY DEF Fields, Parts
  <2> QED BY <1>3, <2>1 DEF received, Holds
<1>6. Understood(Reply(Filled(d), k, z, ack, z))
  BY <1>4, <1>5, GoodReply
<1>7. Sends({Reply(Filled(d), k, z, ack, z)})
  BY <1>1 DEF Refused
<1>8. RepliesReadable'
  BY <1>6, <1>7, SentReadable DEF IInv
<1>9. mgr' = AtRequest /\ UNCHANGED <<bytes, msgs, chan, work>>
  BY DEF Refused
<1>10. bytes' \in StoreType
  BY <1>9 DEF IInv, TypeOK
<1> QED
  BY <1>8, <1>9, <1>10, LetGo

\* A message that starts a transaction is received.
LEMMA RecvStartStep ==
  ASSUME IInv, NEW d \in Datagrams, RecvStart(d)
  PROVE  IInv'
<1>1. mgr.pc = "recv" /\ msgs < MaxMsgs
  BY DEF RecvStart, Receive
<1>2. PICK j \in JobType, b \in Bufs, k \in 1 .. MaxMsgs, x \in Contents :
        /\ j = Message(d) /\ b = mgr.job.buf /\ k = msgs + 1 /\ x = Filled(d)
        /\ Holds(x, k, d.size) /\ j.buf = b /\ j.msg = k /\ j.size = d.size
  BY <1>1, ReceivedBytes
<1>3. /\ bytes' = [bytes EXCEPT ![b] = x] /\ msgs' = k
      /\ mgr' = [pc |-> "reap", job |-> j] /\ UNCHANGED <<chan, work, garbled>>
  BY <1>2 DEF RecvStart, Receive
<1>4. /\ bytes' \in StoreType /\ bytes'[b] = x
      /\ \A a \in Bufs : a # b => bytes'[a] = bytes[a]
  <2>1. bytes \in [Bufs -> Contents]
    BY StoreIs DEF IInv, TypeOK
  <2> QED BY <1>3, <2>1, StoreIs
<1>5. mgr' \in ManagerType /\ mgr'.pc = "reap" /\ mgr'.job = j
  BY <1>3 DEF ManagerType
<1>6. Loaded(bytes', j)
  BY <1>2, <1>4 DEF Loaded, Holds
<1>7. ManagerPhases'
  BY <1>2, <1>3, <1>5, <1>6 DEF ManagerPhases
<1>8. RepliesReadable'
  BY <1>3 DEF IInv, RepliesReadable
<1>9. msgs' \in 0 .. MaxMsgs /\ msgs <= msgs'
  BY <1>2, <1>3 DEF IInv, TypeOK
<1>10. mgr'.job.buf = mgr.job.buf
  BY <1>2, <1>5
<1>11. UNCHANGED <<chan, work>>
  BY <1>3
<1>12. \A a \in Bufs : bytes'[a] = bytes[a] \/ a = mgr.job.buf
  BY <1>2, <1>4
<1> QED
  BY <1>4, <1>5, <1>7, <1>8, <1>9, <1>10, <1>11, <1>12, ManagerStep

\* ABORT clears the running flag; a worker that has ended has it cleared.
LEMMA RunningEntry ==
  ASSUME NEW s, NEW m \in Int, NEW t, NEW c, EntryOK(s, m, t, c),
         NEW f \in BOOLEAN, NEW u, u = [t EXCEPT !.running = f],
         f => t.running
  PROVE  /\ EntryOK(s, m, u, c) /\ Held(u, c) = Held(t, c)
         /\ u.pc = t.pc /\ u.accepted = t.accepted
<1>1. /\ t \in WorkerType /\ c \in ChannelType
      /\ ChannelShape(c) /\ QueueShape(t.queue)
      /\ WorkerPhases(t, c) /\ JobsLoaded(s, c) /\ MsgsOrdered(m, t, c)
      /\ BuffersApart(t, c) /\ ChangesKept(s, t) /\ MadeInCommit(t)
      /\ InOrder(t)
  BY DEF EntryOK
<1>2. /\ u \in WorkerType /\ u.pc = t.pc /\ u.job = t.job /\ u.queue = t.queue
      /\ u.accepted = t.accepted /\ u.made = t.made /\ u.status = t.status
      /\ u.running = f
  BY <1>1 DEF WorkerType
<1>3. WorkerPhases(u, c)
  BY <1>1, <1>2 DEF WorkerPhases
<1>4. MsgsOrdered(m, u, c) /\ BuffersApart(u, c)
  BY <1>1, <1>2 DEF MsgsOrdered, BuffersApart
<1>5. ChangesKept(s, u) /\ MadeInCommit(u) /\ InOrder(u)
  BY <1>1, <1>2 DEF ChangesKept, MadeInCommit, InOrder
<1>6. Held(u, c) = Held(t, c)
  BY <1>2 DEF Held
<1> QED
  BY <1>1, <1>2, <1>3, <1>4, <1>5, <1>6 DEF EntryOK

\* A message is handed to a worker.
LEMMA RecvJobStep ==
  ASSUME IInv, NEW d \in Datagrams, NEW w \in Entries, RecvJob(d, w)
  PROVE  IInv'
<1>1. mgr.pc = "recv" /\ msgs < MaxMsgs /\ ~channel_full(chan[w])
      /\ work[w].pc # "none"
  BY DEF RecvJob, Receive
<1>2. PICK j \in JobType, b \in Bufs, k \in 1 .. MaxMsgs, x \in Contents :
        /\ j = Message(d) /\ b = mgr.job.buf /\ k = msgs + 1 /\ x = Filled(d)
        /\ Holds(x, k, d.size) /\ j.buf = b /\ j.msg = k /\ j.size = d.size
  BY <1>1, ReceivedBytes
<1>3. PICK t, c, f, n :
        /\ t = work[w] /\ c = chan[w] /\ f = (t.running /\ d.op # "ABORT_TXN")
        /\ n = c.count
  OBVIOUS
<1>4. EntryOK(bytes, msgs, t, c) /\ t \in WorkerType /\ c \in ChannelType
      /\ msgs \in Int /\ k \in Int /\ msgs < k /\ msgs <= k
  BY <1>2, <1>3 DEF IInv, TypeOK, EntryOK
<1>5. PICK u : u = [t EXCEPT !.running = f]
  OBVIOUS
<1>6. /\ bytes' = [bytes EXCEPT ![b] = x] /\ msgs' = k
      /\ chan' = [chan EXCEPT ![w] = channel_send(c, j)]
      /\ mgr' = AtRequest /\ UNCHANGED garbled
  BY <1>2, <1>3 DEF RecvJob, Receive
<1>7. work' = [work EXCEPT ![w] = u]
  <2>1. work' = [work EXCEPT ![w].running = work[w].running /\ d.op # "ABORT_TXN"]
    BY DEF RecvJob
  <2> QED BY <1>3, <1>5, <2>1
<1>8. /\ bytes' \in StoreType /\ bytes'[b] = x
      /\ \A a \in Bufs : a # b => bytes'[a] = bytes[a]
  <2>1. bytes \in [Bufs -> Contents]
    BY StoreIs DEF IInv, TypeOK
  <2> QED BY <1>6, <2>1, StoreIs
<1>9. b \notin Held(t, c)
  BY <1>2, <1>3 DEF IInv, HoldersApart
<1>10. EntryOK(bytes', k, t, c)
  <2>1. \A a \in Bufs \cap Needed(t, c) : bytes'[a] = bytes[a]
    BY <1>8, <1>9, NeededHeld
  <2> QED BY <1>4, <2>1, EntryFrame
<1>11. EntryOK(bytes', k, u, c) /\ Held(u, c) = Held(t, c)
       /\ u.pc = t.pc /\ u.accepted = t.accepted
  <2>1. t.running \in BOOLEAN
    BY <1>4 DEF WorkerType
  <2>2. f \in BOOLEAN /\ (f => t.running)
    BY <1>3, <2>1
  <2> QED BY <1>4, <1>5, <1>10, <2>2, RunningEntry
<1>12. Loaded(bytes', j)
  BY <1>2, <1>8 DEF Loaded, Holds
<1>13. /\ EntryOK(bytes', k, u, channel_send(c, j))
       /\ Held(u, channel_send(c, j)) \subseteq Held(u, c) \cup {j.buf}
  <2>1. c.count < MaxItems
    BY <1>1, <1>3, <1>4, JobFlowAssumption DEF channel_full, ChannelType
  <2>2. \A i \in 1 .. c.count : JobAt(c, i).msg < j.msg
    <3>1. \A i \in 1 .. c.count : JobAt(c, i).msg \in 1 .. msgs
      BY <1>4 DEF EntryOK, MsgsOrdered
    <3> QED BY <1>2, <1>4, <3>1
  <2>3. \A a \in DOMAIN u.accepted : u.accepted[a].msg < j.msg
    <3>1. \A a \in DOMAIN t.accepted : t.accepted[a].msg \in 1 .. msgs
      BY <1>4 DEF EntryOK, MsgsOrdered
    <3> QED BY <1>2, <1>4, <1>11, <3>1
  <2>4. u.pc # "none" /\ j.buf \notin Held(u, c)
    BY <1>1, <1>2, <1>3, <1>9, <1>11
  <2>5. j.msg \in 1 .. k
    BY <1>2
  <2> QED BY <1>4, <1>11, <1>12, <2>1, <2>2, <2>3, <2>4, <2>5, SendEntry
<1>14. mgr' \in ManagerType /\ mgr'.job.buf = NoBuf /\ ManagerPhases'
  BY <1>6, AtRequestType DEF ManagerPhases
<1>15. RepliesReadable'
  BY <1>6 DEF IInv, RepliesReadable
<1>16. /\ msgs' \in 0 .. MaxMsgs /\ msgs <= msgs'
       /\ EntryOK(bytes', msgs', u, channel_send(c, j))
  BY <1>4, <1>6, <1>13
<1>17. Held(u, channel_send(c, j)) \subseteq Held(work[w], chan[w]) \cup {mgr.job.buf}
  BY <1>2, <1>3, <1>11, <1>13
<1>18. \A a \in Bufs : \/ bytes'[a] = bytes[a] \/ a = mgr.job.buf
                       \/ a \in Held(work[w], chan[w])
  BY <1>2, <1>8
<1>19. PICK e : e = channel_send(c, j)
  OBVIOUS
<1> QED
  BY <1>6, <1>7, <1>8, <1>14, <1>15, <1>16, <1>17, <1>18, <1>19, EntryStep

\* A job left by a dead worker is answered.
LEMMA DrainStep ==
  ASSUME IInv, NEW w \in Entries, Drain(w)
  PROVE  IInv'
<1>1. PICK t, c, j : t = work[w] /\ c = chan[w] /\ j = channel_get(c)
  OBVIOUS
<1>2. EntryOK(bytes, msgs, t, c) /\ t \in WorkerType /\ c \in ChannelType
      /\ msgs \in Int /\ t.pc = "dead" /\ c.count > 0
  BY <1>1 DEF IInv, TypeOK, EntryOK, Drain
<1>3. /\ bytes' = Forgotten({j.buf}) /\ UNCHANGED <<msgs, mgr, work>>
      /\ chan' = [chan EXCEPT ![w] = channel_pop(c)]
      /\ Sends({Reply(bytes[j.buf], j.msg, j.size, "DEAD_TXN", AckSize)})
  BY <1>1 DEF Drain
<1>4. j = JobAt(c, 1) /\ j \in JobType
  <2>1. ChannelRing(c)
    BY <1>2 DEF EntryOK, ChannelRing, ChannelShape
  <2>2. 1 \in Int /\ JobAt(c, 1) = c.jobs[c.head] /\ JobAt(c, 1) \in JobType
    BY <2>1, PlaceType
  <2> QED BY <1>1, <2>2 DEF channel_get
<1>5. /\ EntryOK(bytes, msgs, t, channel_pop(c))
      /\ Held(t, channel_pop(c)) \subseteq Held(t, c)
      /\ j.buf \in Held(t, c) /\ j.buf \notin Needed(t, channel_pop(c))
  <2>1. MadeInCommit(t) /\ InOrder(t)
    BY <1>2 DEF EntryOK
  <2> QED BY <1>2, <1>4, <2>1, PopEntry
<1>6. /\ bytes' \in StoreType
      /\ \A b \in Bufs : bytes'[b] = bytes[b] \/ b = j.buf
  BY <1>3, ForgottenBytes DEF IInv
<1>7. EntryOK(bytes', msgs, t, channel_pop(c))
  <2>1. \A b \in Bufs \cap Needed(t, channel_pop(c)) : bytes'[b] = bytes[b]
    BY <1>5, <1>6
  <2>2. msgs <= msgs
    BY <1>2
  <2> QED BY <1>2, <1>5, <2>1, <2>2, EntryFrame
<1>8. RepliesReadable'
  <2>1. 1 \in 1 .. c.count
    BY <1>2 DEF ChannelType
  <2>2. Loaded(bytes, j)
    BY <1>2, <1>4, <2>1 DEF EntryOK, JobsLoaded
  <2>3. bytes[j.buf] \in [Parts -> Int] /\ Holds(bytes[j.buf], j.msg, j.size)
    BY <2>2, ContentsInt DEF Loaded, Holds, IInv, TypeOK, StoreType, Contents
  <2>4. j.msg \in Int /\ j.size \in Nat /\ AckSize \in Nat /\ AckSize >= AckSize
    BY <1>4 DEF JobType, AckSize
  <2>5. Understood(Reply(bytes[j.buf], j.msg, j.size, "DEAD_TXN", AckSize))
    BY <2>3, <2>4, GoodReply
  <2> QED BY <1>3, <2>5, SentReadable DEF IInv
<1>9. work' = [work EXCEPT ![w] = t]
  BY <1>1, <1>3 DEF IInv, TypeOK
<1>10. \A b \in Bufs : bytes'[b] = bytes[b] \/ b \in Held(work[w], chan[w])
  BY <1>1, <1>5, <1>6
<1>11. Held(t, channel_pop(c)) \subseteq Held(work[w], chan[w])
  BY <1>1, <1>5
<1>12. UNCHANGED <<msgs, mgr>>
  BY <1>3
<1> QED
  BY <1>3, <1>6, <1>7, <1>8, <1>9, <1>10, <1>11, <1>12, WorkerStep

\* The entry of a dead worker is given back.
LEMMA JoinStep ==
  ASSUME IInv, NEW w \in Entries, Join(w)
  PROVE  IInv'
<1>1. PICK t, c : t = work[w] /\ c = chan[w]
  OBVIOUS
<1>2. EntryOK(bytes, msgs, t, c) /\ msgs \in Int /\ c.count = 0
  BY <1>1 DEF IInv, TypeOK, Join
<1>3. /\ work' = [work EXCEPT ![w] = NoWorker]
      /\ UNCHANGED <<bytes, msgs, mgr, chan, garbled>>
  BY DEF Join
<1>4. PICK u \in WorkerType :
        /\ u = NoWorker /\ u.pc = "none" /\ ~u.running /\ u.job = NullJob
        /\ u.queue = NewQueue /\ u.accepted = <<>> /\ u.made = <<>>
  BY FreshWorkers
<1>5. EntryOK(bytes, msgs, u, c) /\ Held(u, c) \subseteq Held(t, c)
  BY <1>2, <1>4, FreshEntry
<1>6. work' = [work EXCEPT ![w] = u] /\ chan' = [chan EXCEPT ![w] = c]
      /\ bytes' \in StoreType
  BY <1>1, <1>3, <1>4 DEF IInv, TypeOK
<1>7. RepliesReadable'
  BY <1>3 DEF IInv, RepliesReadable
<1>8. /\ EntryOK(bytes', msgs, u, c) /\ Held(u, c) \subseteq Held(work[w], chan[w])
      /\ \A b \in Bufs : bytes'[b] = bytes[b]
  BY <1>1, <1>3, <1>5
<1>9. UNCHANGED <<msgs, mgr>>
  BY <1>3
<1> QED
  BY <1>6, <1>7, <1>8, <1>9, WorkerStep

\* A worker is started, and gets its first job.
LEMMA InsertStep ==
  ASSUME IInv, NEW w \in Entries, Insert(w)
  PROVE  IInv'
<1>1. PICK t, c, j : t = work[w] /\ c = chan[w] /\ j = mgr.job
  OBVIOUS
<1>2. EntryOK(bytes, msgs, t, c) /\ msgs \in Int /\ t.pc = "none"
      /\ mgr.pc = "reap"
  BY <1>1 DEF IInv, TypeOK, Insert
<1>3. /\ work' = [work EXCEPT ![w] = NewWorker]
      /\ chan' = [chan EXCEPT ![w] = channel_send(c, j)]
      /\ mgr' = AtRequest /\ UNCHANGED <<bytes, msgs, garbled>>
  BY <1>1 DEF Insert
<1>4. PICK u \in WorkerType :
        /\ u = NewWorker /\ u.pc = "loop" /\ u.job = NullJob
        /\ u.queue = NewQueue /\ u.accepted = <<>> /\ u.made = <<>>
  BY FreshWorkers
<1>5. EntryOK(bytes, msgs, u, c) /\ Held(u, c) \subseteq Held(t, c)
  BY <1>2, <1>4, FreshEntry
<1>6. c.count = 0
  BY <1>2 DEF EntryOK, WorkerPhases
<1>7. /\ j \in JobType /\ Loaded(bytes, j) /\ j.msg \in 1 .. msgs
      /\ j.buf \notin Held(t, c)
  BY <1>1, <1>2 DEF IInv, TypeOK, ManagerType, ManagerPhases, HoldersApart
<1>8. /\ EntryOK(bytes, msgs, u, channel_send(c, j))
      /\ Held(u, channel_send(c, j)) \subseteq Held(u, c) \cup {j.buf}
  <2>1. c.count < MaxItems
    BY <1>6, JobFlowAssumption
  <2>2. \A i \in 1 .. c.count : JobAt(c, i).msg < j.msg
    BY <1>6
  <2>3. DOMAIN u.accepted = {}
    BY <1>4
  <2> QED BY <1>2, <1>4, <1>5, <1>7, <2>1, <2>2, <2>3, SendEntry
<1>9. work' = [work EXCEPT ![w] = u]
  BY <1>3, <1>4
<1>10. mgr' \in ManagerType /\ mgr'.job.buf = NoBuf /\ ManagerPhases'
  BY <1>3, AtRequestType DEF ManagerPhases
<1>11. RepliesReadable'
  BY <1>3 DEF IInv, RepliesReadable
<1>12. PICK d : d = channel_send(c, j)
  OBVIOUS
<1>13. /\ msgs' \in 0 .. MaxMsgs /\ msgs <= msgs' /\ bytes' \in StoreType
       /\ EntryOK(bytes', msgs', u, d) /\ \A b \in Bufs : bytes'[b] = bytes[b]
  BY <1>3, <1>8, <1>12 DEF IInv, TypeOK
<1>14. Held(u, d) \subseteq Held(work[w], chan[w]) \cup {mgr.job.buf}
  BY <1>1, <1>5, <1>8, <1>12
<1>15. chan' = [chan EXCEPT ![w] = d]
  BY <1>3, <1>12
<1> QED
  BY <1>9, <1>10, <1>11, <1>13, <1>14, <1>15, EntryStep

\* There is no entry for the transaction.
LEMMA InsertFullStep == IInv /\ InsertFull => IInv'
<1> SUFFICES ASSUME IInv, InsertFull PROVE IInv'
  OBVIOUS
<1>1. PICK j : j = mgr.job
  OBVIOUS
<1>2. /\ mgr.pc = "reap" /\ bytes' = Forgotten({j.buf}) /\ mgr' = AtRequest
      /\ UNCHANGED <<msgs, chan, work>>
      /\ Sends({Reply(bytes[j.buf], j.msg, j.size, "BUSY", j.size)})
  BY <1>1 DEF InsertFull
<1>3. /\ bytes' \in StoreType
      /\ \A b \in Bufs : bytes'[b] = bytes[b] \/ b = mgr.job.buf
  BY <1>1, <1>2, ForgottenBytes DEF IInv
<1>4. RepliesReadable'
  <2>1. Loaded(bytes, j) /\ j \in JobType
    BY <1>1, <1>2 DEF IInv, ManagerPhases, TypeOK, ManagerType
  <2>2. bytes[j.buf] \in [Parts -> Int] /\ Holds(bytes[j.buf], j.msg, j.size)
    BY <2>1, ContentsInt DEF Loaded, Holds, IInv, TypeOK, StoreType, Contents
  <2>3. j.msg \in Int /\ j.size \in Nat
    BY <2>1 DEF JobType
  <2>4. Understood(Reply(bytes[j.buf], j.msg, j.size, "BUSY", j.size))
    BY <2>2, <2>3, GoodReply
  <2> QED BY <1>2, <2>4, SentReadable DEF IInv
<1> QED
  BY <1>2, <1>3, <1>4, LetGo

-----------------------------------------------------------------------------
(* The steps of a worker *)

\* A step of a worker that writes only where its entry needs nothing any more
LEMMA FreeingStep ==
  ASSUME IInv, NEW w \in Entries, NEW u, NEW d,
         work' = [work EXCEPT ![w] = u], chan' = [chan EXCEPT ![w] = d],
         UNCHANGED <<msgs, mgr>>, bytes' \in StoreType, RepliesReadable',
         EntryOK(bytes, msgs, u, d), Held(u, d) \subseteq Held(work[w], chan[w]),
         \A b \in Bufs : \/ bytes'[b] = bytes[b]
                         \/ b \in Held(work[w], chan[w]) /\ b \notin Needed(u, d)
  PROVE  IInv'
<1>1. msgs \in Int /\ msgs <= msgs
  BY DEF IInv, TypeOK
<1>2. EntryOK(bytes', msgs, u, d)
  BY <1>1, EntryFrame
<1> QED
  BY <1>2, WorkerStep

\* A step of a worker that leaves the channel and all buffers as they are
LEMMA MovingStep ==
  ASSUME IInv, NEW w \in Entries, NEW u, work' = [work EXCEPT ![w] = u],
         UNCHANGED <<bytes, msgs, mgr, chan, garbled>>,
         EntryOK(bytes, msgs, u, chan[w]),
         Held(u, chan[w]) \subseteq Held(work[w], chan[w])
  PROVE  IInv'
<1>1. PICK d : d = chan[w]
  OBVIOUS
<1>2. chan' = [chan EXCEPT ![w] = d] /\ bytes' \in StoreType
  BY <1>1 DEF IInv, TypeOK
<1>3. RepliesReadable'
  BY DEF IInv, RepliesReadable
<1> QED
  BY <1>1, <1>2, <1>3, FreeingStep

\* The worker goes round, or to its end.
LEMMA LoopStep ==
  ASSUME IInv, NEW w \in Entries, Loop(w)
  PROVE  IInv'
<1>1. PICK t, c, pc : t = work[w] /\ c = chan[w]
                      /\ pc = IF t.running THEN "recv" ELSE "quit"
  OBVIOUS
<1>2. EntryOK(bytes, msgs, t, c) /\ t \in WorkerType /\ c \in ChannelType
      /\ msgs \in Int /\ t.pc = "loop"
  BY <1>1 DEF IInv, TypeOK, Loop, At, EntryOK
<1>3. PICK u : u = [t EXCEPT !.pc = pc, !.job = NullJob]
  OBVIOUS
<1>4. /\ u \in WorkerType /\ u.queue = t.queue /\ u.accepted = t.accepted
      /\ u.made = t.made /\ u.pc \in {"recv", "quit"} /\ u.job = NullJob
  BY <1>1, <1>2, <1>3, NullTypes DEF WorkerType, Pcs
<1>5. work' = [work EXCEPT ![w] = u]
  <2>1. work' = [work EXCEPT ![w].pc = IF work[w].running THEN "recv" ELSE "quit",
                             ![w].job = NullJob]
    BY DEF Loop
  <2> QED BY <1>1, <1>3, <2>1
<1>6. /\ bytes' = Forgotten({t.job.buf} \ RefsOfQueue(w))
      /\ UNCHANGED <<msgs, mgr, chan, garbled>>
  BY <1>1 DEF Loop
<1>7. t.made = <<>>
  BY <1>2 DEF EntryOK, MadeInCommit
<1>8. EntryOK(bytes, msgs, u, c) /\ Held(u, c) \subseteq Held(t, c)
  <2>1. WorkerPhases(u, c)
    BY <1>4 DEF WorkerPhases
  <2> QED BY <1>2, <1>4, <1>7, <2>1, MoveEntry
<1>9. /\ bytes' \in StoreType
      /\ \A b \in Bufs : bytes'[b] = bytes[b]
                         \/ (b = t.job.buf /\ b \notin RefsOfQueue(w))
  BY <1>6, ForgottenBytes DEF IInv
<1>10. ASSUME NEW b \in Bufs, b = t.job.buf, b \notin RefsOfQueue(w)
       PROVE  b \in Held(t, c) /\ b \notin Needed(u, c)
  <2>1. b # NoBuf
    BY JobFlowAssumption
  <2>2. \A i \in 1 .. c.count : JobAt(c, i).buf # b
    BY <1>2, <1>10 DEF EntryOK, BuffersApart
  <2>3. DOMAIN t.queue.commits = 0 .. MaxCommits - 1
    BY <1>2 DEF WorkerType, QueueType
  <2>4. \A p \in 0 .. MaxCommits - 1 : t.queue.commits[p].buf # b
    BY <1>1, <1>10, <2>3 DEF RefsOfQueue
  <2> QED BY <1>4, <1>10, <2>1, <2>2, <2>4 DEF Held, Needed
<1>11. RepliesReadable'
  BY <1>6 DEF IInv, RepliesReadable
<1>12. chan' = [chan EXCEPT ![w] = c] /\ UNCHANGED <<msgs, mgr>>
  BY <1>1, <1>6 DEF IInv, TypeOK
<1>13. /\ Held(u, c) \subseteq Held(work[w], chan[w])
       /\ \A b \in Bufs : \/ bytes'[b] = bytes[b]
                          \/ b \in Held(work[w], chan[w]) /\ b \notin Needed(u, c)
  BY <1>1, <1>8, <1>9, <1>10
<1> QED
  BY <1>5, <1>8, <1>9, <1>11, <1>12, <1>13, FreeingStep

\* There is no job.
LEMMA RecvTimeoutStep ==
  ASSUME IInv, NEW w \in Entries, RecvTimeout(w)
  PROVE  IInv'
<1>1. PICK t, c : t = work[w] /\ c = chan[w]
  OBVIOUS
<1>2. EntryOK(bytes, msgs, t, c) /\ t \in WorkerType
      /\ msgs \in Int /\ t.pc = "recv"
  BY <1>1 DEF IInv, TypeOK, RecvTimeout, At, EntryOK
<1>3. PICK u : u = [t EXCEPT !.pc = "loop"]
  OBVIOUS
<1>4. /\ u \in WorkerType /\ u.queue = t.queue /\ u.accepted = t.accepted
      /\ u.made = t.made /\ u.pc = "loop" /\ u.job = t.job
  BY <1>2, <1>3 DEF WorkerType, Pcs
<1>5. work' = [work EXCEPT ![w] = u] /\ UNCHANGED <<bytes, msgs, mgr, chan, garbled>>
  BY <1>1, <1>3 DEF RecvTimeout
<1>6. t.made = <<>> /\ t.job = NullJob
  BY <1>2 DEF EntryOK, MadeInCommit, WorkerPhases
<1>7. EntryOK(bytes, msgs, u, c) /\ Held(u, c) \subseteq Held(t, c)
  <2>1. WorkerPhases(u, c)
    BY <1>4 DEF WorkerPhases
  <2> QED BY <1>2, <1>4, <1>6, <2>1, MoveEntry
<1> QED
  BY <1>1, <1>5, <1>7, MovingStep

\* The worker takes a job.
LEMMA TakeStep ==
  ASSUME IInv, NEW w \in Entries, Take(w)
  PROVE  IInv'
<1>1. PICK t, c, j : t = work[w] /\ c = chan[w] /\ j = channel_get(c)
  OBVIOUS
<1>2. EntryOK(bytes, msgs, t, c) /\ t \in WorkerType /\ c.count > 0
      /\ msgs \in Int /\ t.pc = "recv"
  BY <1>1 DEF IInv, TypeOK, Take, At, EntryOK
<1>3. j = JobAt(c, 1) /\ j \in JobType
  <2>1. ChannelRing(c)
    BY <1>2 DEF EntryOK, ChannelRing, ChannelShape
  <2>2. 1 \in Int /\ JobAt(c, 1) = c.jobs[c.head] /\ JobAt(c, 1) \in JobType
    BY <2>1, PlaceType
  <2> QED BY <1>1, <2>2 DEF channel_get
<1>4. PICK u : u = [t EXCEPT !.pc = "busy", !.job = j]
  OBVIOUS
<1>5. /\ u \in WorkerType /\ u.queue = t.queue /\ u.accepted = t.accepted
      /\ u.made = t.made /\ u.pc = "busy" /\ u.job = j
  BY <1>2, <1>3, <1>4 DEF WorkerType, Pcs
<1>6. work' = [work EXCEPT ![w] = u] /\ UNCHANGED <<bytes, msgs, mgr, chan, garbled>>
  BY <1>1, <1>4 DEF Take
<1>7. t.made = <<>>
  BY <1>2 DEF EntryOK, MadeInCommit
<1>8. EntryOK(bytes, msgs, u, c) /\ Held(u, c) \subseteq Held(t, c)
  <2>1. WorkerPhases(u, c)
    BY <1>2, <1>3, <1>5 DEF WorkerPhases
  <2> QED BY <1>2, <1>5, <1>7, <2>1, MoveEntry
<1> QED
  BY <1>1, <1>6, <1>8, MovingStep

\* A change is made.
LEMMA CommitNextStep ==
  ASSUME IInv, NEW w \in Entries, CommitNext(w)
  PROVE  IInv'
<1>1. PICK t, c : t = work[w] /\ c = chan[w]
  OBVIOUS
<1>2. EntryOK(bytes, msgs, t, c) /\ t \in WorkerType /\ msgs \in Int
      /\ bytes \in StoreType /\ t.queue.size > 0
      /\ t.pc = "busy" /\ t.job.op = "COMMIT_TXN" /\ t.status = "SHRINKING"
  BY <1>1 DEF IInv, TypeOK, CommitNext, Commits, Handles, At, EntryOK
<1>3. PICK x, data, e, u :
        /\ x = queue_get(t.queue)
        /\ data = IF x.op = "DELETE" THEN x.msg ELSE bytes[x.buf].IMAGE
        /\ e = [msg |-> x.msg, data |-> data]
        /\ u = [t EXCEPT !.queue = queue_pop(t.queue), !.made = Append(t.made, e)]
  OBVIOUS
<1>4. MakesNext(bytes, t, u)
  BY <1>3, Zenon DEF MakesNext
<1>5. work' = [work EXCEPT ![w] = u] /\ UNCHANGED <<bytes, msgs, mgr, chan, garbled>>
  <2>1. /\ work' = [work EXCEPT
             ![w].queue = queue_pop(work[w].queue),
             ![w].made = Append(@, [msg |-> queue_get(work[w].queue).msg,
                                    data |-> IF queue_get(work[w].queue).op = "DELETE"
                                             THEN queue_get(work[w].queue).msg
                                             ELSE bytes[queue_get(work[w].queue).buf].IMAGE])]
        /\ UNCHANGED <<bytes, msgs, mgr, chan, garbled>>
    BY DEF CommitNext
  <2> QED BY <1>1, <1>3, <2>1
<1>6. EntryOK(bytes, msgs, u, c) /\ Held(u, c) \subseteq Held(t, c)
  BY <1>2, <1>4, CommitEntry
<1> QED
  BY <1>1, <1>5, <1>6, MovingStep

\* A worker hangs: it keeps what it has.
LEMMA HangStep ==
  ASSUME IInv, NEW w \in Entries, Hang(w)
  PROVE  IInv'
<1>1. PICK t, c, u : t = work[w] /\ c = chan[w] /\ u = [t EXCEPT !.stuck = TRUE]
  OBVIOUS
<1>2. /\ t \in WorkerType /\ c \in ChannelType
      /\ ChannelShape(c) /\ QueueShape(t.queue)
      /\ WorkerPhases(t, c) /\ JobsLoaded(bytes, c) /\ MsgsOrdered(msgs, t, c)
      /\ BuffersApart(t, c) /\ ChangesKept(bytes, t) /\ MadeInCommit(t)
      /\ InOrder(t)
  BY <1>1 DEF IInv, EntryOK
<1>3. /\ u \in WorkerType /\ u.pc = t.pc /\ u.job = t.job /\ u.queue = t.queue
      /\ u.accepted = t.accepted /\ u.made = t.made /\ u.status = t.status
      /\ u.running = t.running
  BY <1>1, <1>2 DEF WorkerType
<1>4. WorkerPhases(u, c)
  BY <1>2, <1>3 DEF WorkerPhases
<1>5. MsgsOrdered(msgs, u, c) /\ BuffersApart(u, c)
  BY <1>2, <1>3 DEF MsgsOrdered, BuffersApart
<1>6. ChangesKept(bytes, u) /\ MadeInCommit(u) /\ InOrder(u)
  BY <1>2, <1>3 DEF ChangesKept, MadeInCommit, InOrder
<1>7. Held(u, c) = Held(t, c)
  BY <1>3 DEF Held
<1>8. EntryOK(bytes, msgs, u, c)
  BY <1>2, <1>3, <1>4, <1>5, <1>6 DEF EntryOK
<1>9. work' = [work EXCEPT ![w] = u] /\ UNCHANGED <<bytes, msgs, mgr, chan, garbled>>
  BY <1>1 DEF Hang
<1> QED
  BY <1>1, <1>7, <1>8, <1>9, MovingStep

\* The worker ends.
LEMMA QuitStep ==
  ASSUME IInv, NEW w \in Entries, Quit(w)
  PROVE  IInv'
<1>1. PICK t, c : t = work[w] /\ c = chan[w]
  OBVIOUS
<1>2. EntryOK(bytes, msgs, t, c) /\ t \in WorkerType /\ c \in ChannelType
      /\ msgs \in Int /\ t.pc = "quit"
  BY <1>1 DEF IInv, TypeOK, Quit, At, EntryOK
<1>3. PICK u \in WorkerType :
        /\ u = [NoWorker EXCEPT !.pc = "dead"] /\ u.pc = "dead" /\ ~u.running
        /\ u.job = NullJob /\ u.queue = NewQueue
        /\ u.accepted = <<>> /\ u.made = <<>>
  BY FreshWorkers
<1>4. /\ work' = [work EXCEPT ![w] = u]
      /\ bytes' = Forgotten({t.job.buf} \cup RefsOfQueue(w))
      /\ UNCHANGED <<msgs, mgr, chan, garbled>>
  BY <1>1, <1>3 DEF Quit
<1>5. EntryOK(bytes, msgs, u, c) /\ Held(u, c) \subseteq Held(t, c)
  BY <1>2, <1>3, FreshEntry
<1>6. /\ bytes' \in StoreType
      /\ \A b \in Bufs : bytes'[b] = bytes[b]
                         \/ b = t.job.buf \/ b \in RefsOfQueue(w)
  BY <1>4, ForgottenBytes DEF IInv
<1>7. \A p \in 0 .. MaxCommits - 1 : u.queue.commits[p].buf = NoBuf
  BY <1>3, NewWorkers
<1>8. DOMAIN t.queue.commits = 0 .. MaxCommits - 1
  BY <1>2 DEF WorkerType, QueueType
<1>9. ASSUME NEW b \in Bufs, b = t.job.buf \/ b \in RefsOfQueue(w)
      PROVE  b \in Held(t, c) /\ b \notin Needed(u, c)
  <2>1. b # NoBuf
    BY JobFlowAssumption
  <2>2. b \in Held(t, c)
    BY <1>1, <1>8, <1>9, <2>1 DEF Held, RefsOfQueue
  <2>3. \A i \in 1 .. c.count : JobAt(c, i).buf # b
    <3>1. CASE b = t.job.buf
      BY <1>2, <3>1 DEF EntryOK, BuffersApart
    <3>2. CASE b \in RefsOfQueue(w)
      BY <1>1, <1>2, <1>8, <3>2 DEF EntryOK, BuffersApart, RefsOfQueue
    <3> QED BY <1>9, <3>1, <3>2
  <2> QED BY <1>7, <2>1, <2>2, <2>3 DEF Needed
<1>10. RepliesReadable'
  BY <1>4 DEF IInv, RepliesReadable
<1>11. chan' = [chan EXCEPT ![w] = c] /\ UNCHANGED <<msgs, mgr>>
  BY <1>1, <1>4 DEF IInv, TypeOK
<1>12. /\ Held(u, c) \subseteq Held(work[w], chan[w])
       /\ \A b \in Bufs : \/ bytes'[b] = bytes[b]
                          \/ b \in Held(work[w], chan[w]) /\ b \notin Needed(u, c)
  BY <1>1, <1>5, <1>6, <1>9
<1> QED
  BY <1>4, <1>5, <1>6, <1>10, <1>11, <1>12, FreeingStep

-----------------------------------------------------------------------------
(* The ends of the handlers *)

\* The job of a busy worker is the first of its channel, and in its buffer.
LEMMA BusyJob ==
  ASSUME IInv, NEW w \in Entries, At(w, "busy"),
         NEW t, t = work[w], NEW c, c = chan[w], NEW j, j = work[w].job
  PROVE  /\ EntryOK(bytes, msgs, t, c) /\ t \in WorkerType /\ c \in ChannelType
         /\ msgs \in Int /\ t.pc = "busy" /\ c.count > 0 /\ 1 \in 1 .. c.count
         /\ j = JobAt(c, 1) /\ j \in JobType /\ j.buf \in Bufs
         /\ j.msg \in 0 .. MaxMsgs /\ j.msg \in Int /\ j.size \in Nat
         /\ Content(w) \in Contents /\ Holds(Content(w), j.msg, j.size)
<1>1. EntryOK(bytes, msgs, t, c) /\ t \in WorkerType /\ c \in ChannelType
      /\ msgs \in Int /\ t.pc = "busy"
  BY DEF IInv, TypeOK, EntryOK, At
<1>2. c.count > 0 /\ j = JobAt(c, 1)
  BY <1>1 DEF EntryOK, WorkerPhases
<1>3. 1 \in 1 .. c.count
  BY <1>1, <1>2 DEF ChannelType
<1>4. Loaded(bytes, j)
  BY <1>1, <1>2, <1>3 DEF EntryOK, JobsLoaded
<1>5. j \in JobType
  BY <1>1 DEF WorkerType
<1>6. j.msg \in 0 .. MaxMsgs /\ j.msg \in Int /\ j.size \in Nat
  BY <1>5, JobFlowAssumption DEF JobType
<1>7. Content(w) = bytes[j.buf] /\ j.buf \in Bufs
  BY <1>4 DEF Content, Loaded
<1>8. Content(w) \in Contents /\ Holds(Content(w), j.msg, j.size)
  BY <1>4, <1>7 DEF IInv, TypeOK, StoreType, Contents, Loaded, Holds
<1> QED
  BY <1>1, <1>2, <1>3, <1>5, <1>6, <1>7, <1>8

\* An answer from a buffer with the whole message, up to the ack at least or
\* as long as the message
LEMMA GoodAnswer ==
  ASSUME IInv, NEW w \in Entries, At(w, "busy"), NEW x \in Contents,
         Holds(x, work[w].job.msg, work[w].job.size), NEW ack, NEW size \in Nat,
         size >= AckSize \/ size = work[w].job.size
  PROVE  Understood(Answer(w, x, ack, size))
<1>1. PICK j : j = work[w].job
  OBVIOUS
<1>2. j.msg \in Int /\ j.size \in Nat
  BY <1>1, BusyJob
<1>3. x \in [Parts -> Int] /\ Holds(x, j.msg, j.size)
      /\ (j.size >= AckSize => size >= AckSize)
  BY <1>1, ContentsInt
<1>4. Understood(Reply(x, j.msg, j.size, ack, size))
  BY <1>2, <1>3, GoodReply
<1> QED
  BY <1>1, <1>4 DEF Answer

\* Worker u is t after a handler that accepts no change.
Ends(t, u) ==
    /\ u \in WorkerType /\ u.pc \in {"loop", "quit"} /\ u.job = t.job
    /\ u.queue = t.queue /\ u.accepted = t.accepted /\ u.made = t.made

\* The ends of a handler
LEMMA EndsOf ==
  ASSUME NEW w \in Entries, work[w] \in WorkerType
  PROVE  /\ Ends(work[w], ToLoop(w)) /\ ToLoop(w).pc = "loop"
         /\ Ends(work[w], ToQuit(w)) /\ ToQuit(w).pc = "quit"
         /\ Ends(work[w], Shrunk(w)) /\ Shrunk(w).pc = "loop"
         /\ \A s \in {"GROWING", "SHRINKING", "ABORTED"} :
              Ends(work[w], [ToLoop(w) EXCEPT !.status = s])
<1>1. PICK t \in WorkerType : t = work[w]
  OBVIOUS
<1>2. ToLoop(w) = [t EXCEPT !.pc = "loop"] /\ ToQuit(w) = [t EXCEPT !.pc = "quit"]
  BY <1>1 DEF ToLoop, ToQuit
<1>3. Ends(t, ToLoop(w)) /\ ToLoop(w).pc = "loop"
  BY <1>2 DEF Ends, WorkerType, Pcs
<1>4. Ends(t, ToQuit(w)) /\ ToQuit(w).pc = "quit"
  BY <1>2 DEF Ends, WorkerType, Pcs
<1>5. PICK l \in WorkerType : l = ToLoop(w) /\ Ends(t, l) /\ l.pc = "loop"
  BY <1>3 DEF Ends
<1>6. \A s \in {"GROWING", "SHRINKING", "ABORTED"} :
        Ends(t, [l EXCEPT !.status = s]) /\ [l EXCEPT !.status = s].pc = "loop"
  BY <1>5 DEF Ends, WorkerType
<1>7. PICK s \in {"GROWING", "SHRINKING", "ABORTED"} :
        s = IF l.status = "GROWING" THEN "SHRINKING" ELSE l.status
  BY <1>5 DEF WorkerType
<1>8. Shrunk(w) = [l EXCEPT !.status = s]
  BY <1>5, <1>7 DEF Shrunk
<1> QED
  BY <1>1, <1>3, <1>4, <1>5, <1>6, <1>8

\* Outside of a COMMIT in progress nothing is made.
LEMMA NothingMade ==
  ASSUME IInv, NEW w \in Entries, At(w, "busy"),
         work[w].job.op # "COMMIT_TXN" \/ work[w].status # "SHRINKING"
  PROVE  work[w].made = <<>>
<1>1. EntryOK(bytes, msgs, work[w], chan[w]) /\ work[w].pc = "busy"
  BY DEF IInv, At
<1> QED
  BY <1>1 DEF EntryOK, MadeInCommit

\* The step of a handler that accepts no change
LEMMA DoneStep ==
  ASSUME IInv, NEW w \in Entries, At(w, "busy"), NEW x \in Contents, NEW sent,
         NEW u, Ends(work[w], u), Done(w, x, sent, u),
         u.made = <<>> \/ (u.pc = "quit" /\ u.queue.size = 0),
         \A r \in sent : Understood(r) \/ r.ack = "COMMIT_FULL"
  PROVE  IInv'
<1>1. PICK t, c, j : t = work[w] /\ c = chan[w] /\ j = work[w].job
  OBVIOUS
<1>2. EntryOK(bytes, msgs, t, c) /\ t \in WorkerType /\ c \in ChannelType
      /\ msgs \in Int /\ t.pc = "busy" /\ c.count > 0
      /\ j = JobAt(c, 1) /\ j.buf \in Bufs
  BY <1>1, BusyJob
<1>3. /\ u \in WorkerType /\ u.pc \in {"loop", "quit"} /\ u.job = t.job
      /\ u.queue = t.queue /\ u.accepted = t.accepted /\ u.made = t.made
  BY <1>1 DEF Ends
<1>4. /\ bytes' = [bytes EXCEPT ![j.buf] = x] /\ Sends(sent)
      /\ chan' = [chan EXCEPT ![w] = channel_pop(c)]
      /\ work' = [work EXCEPT ![w] = u] /\ UNCHANGED <<msgs, mgr>>
  BY <1>1 DEF Done
<1>5. MadeInCommit(u) /\ InOrder(u)
  <2>1. MadeInCommit(u)
    BY DEF MadeInCommit
  <2>2. InOrder(t) /\ ChangesKept(bytes, t)
    BY <1>2 DEF EntryOK
  <2>3. u.made = <<>> \/ Len(u.made) = Len(u.accepted)
    <3>1. Len(t.made) \in Nat
      BY <1>2 DEF WorkerType
    <3> QED BY <1>3, <2>2, <3>1 DEF ChangesKept
  <2> QED BY <1>3, <2>1, <2>2, <2>3 DEF InOrder
<1>6. /\ EntryOK(bytes, msgs, u, channel_pop(c))
      /\ Held(u, channel_pop(c)) \subseteq Held(t, c)
      /\ j.buf \in Held(t, c) /\ j.buf \notin Needed(u, channel_pop(c))
  BY <1>2, <1>3, <1>5, PopEntry
<1>7. bytes' \in StoreType /\ \A b \in Bufs : bytes'[b] = bytes[b] \/ b = j.buf
  <2>1. bytes \in [Bufs -> Contents]
    BY StoreIs DEF IInv, TypeOK
  <2> QED BY <1>2, <1>4, <2>1, StoreIs
<1>8. RepliesReadable'
  BY <1>4, SentReadable DEF IInv
<1>9. PICK d : d = channel_pop(c)
  OBVIOUS
<1>10. /\ Held(u, d) \subseteq Held(work[w], chan[w])
       /\ \A b \in Bufs : \/ bytes'[b] = bytes[b]
                          \/ b \in Held(work[w], chan[w]) /\ b \notin Needed(u, d)
  BY <1>1, <1>6, <1>7, <1>9
<1>11. chan' = [chan EXCEPT ![w] = d] /\ EntryOK(bytes, msgs, u, d)
       /\ UNCHANGED <<msgs, mgr>>
  BY <1>4, <1>6, <1>9
<1> QED
  BY <1>4, <1>7, <1>8, <1>10, <1>11, FreeingStep

\* The step of a handler that sets only the ack
LEMMA DoneWithStep ==
  ASSUME IInv, NEW w \in Entries, At(w, "busy"), NEW ack, NEW size \in Nat,
         size >= AckSize \/ size = work[w].job.size,
         NEW u, Ends(work[w], u), DoneWith(w, ack, size, u),
         u.made = <<>> \/ (u.pc = "quit" /\ u.queue.size = 0)
  PROVE  IInv'
<1>1. PICK j : j = work[w].job
  OBVIOUS
<1>2. /\ Content(w) \in Contents /\ Holds(Content(w), j.msg, j.size)
      /\ j.msg \in 0 .. MaxMsgs
  BY <1>1, BusyJob
<1>3. set_ack(Content(w), j.msg) \in Contents
  BY <1>2, ContentTypes
<1>4. Understood(Answer(w, Content(w), ack, size))
  BY <1>1, <1>2, GoodAnswer
<1>5. Done(w, set_ack(Content(w), j.msg), {Answer(w, Content(w), ack, size)}, u)
  BY <1>1 DEF DoneWith
<1> QED
  BY <1>3, <1>4, <1>5, DoneStep

\* Worker u is t with one more change accepted, which keeps buffer b.
Accepts(t, u, b) ==
    /\ u \in WorkerType /\ u.pc = "loop" /\ u.job = t.job /\ u.made = t.made
    /\ u.queue = queue_send(t.queue,
                            [buf |-> b, msg |-> t.job.msg, op |-> t.job.op])
    /\ \E a \in AcceptedType :
         /\ u.accepted = Append(t.accepted, a) /\ a.msg = t.job.msg
         /\ a.whole => Whole(t.job)

\* The step of a handler that accepts a change
LEMMA AcceptStep ==
  ASSUME IInv, NEW w \in Entries, At(w, "busy"), NEW x \in Contents, NEW sent,
         NEW b, NEW u, Accepts(work[w], u, b), Done(w, x, sent, u),
         work[w].made = <<>>, ~Full(w),
         \/ b = NoBuf /\ work[w].job.op = "DELETE"
         \/ /\ b = work[w].job.buf
            /\ Whole(work[w].job) => x.IMAGE = work[w].job.msg,
         \A r \in sent : Understood(r) \/ r.ack = "COMMIT_FULL"
  PROVE  IInv'
<1>1. PICK t, c, j : t = work[w] /\ c = chan[w] /\ j = work[w].job
  OBVIOUS
<1>2. EntryOK(bytes, msgs, t, c) /\ t \in WorkerType /\ c \in ChannelType
      /\ msgs \in Int /\ t.pc = "busy" /\ c.count > 0 /\ 1 \in 1 .. c.count
      /\ j = JobAt(c, 1) /\ j.buf \in Bufs /\ j \in JobType
  BY <1>1, BusyJob
<1>3. /\ bytes' = [bytes EXCEPT ![j.buf] = x] /\ Sends(sent)
      /\ chan' = [chan EXCEPT ![w] = channel_pop(c)]
      /\ work' = [work EXCEPT ![w] = u] /\ UNCHANGED <<msgs, mgr>>
  BY <1>1 DEF Done
<1>4. PICK l : l = [t EXCEPT !.pc = "loop"]
  OBVIOUS
<1>5. /\ l \in WorkerType /\ l.pc = "loop" /\ l.job = t.job
      /\ l.queue = t.queue /\ l.accepted = t.accepted /\ l.made = t.made
  BY <1>2, <1>4 DEF WorkerType, Pcs
<1>6. PICK n \in Nat : n = c.count /\ n > 0
  BY <1>2 DEF ChannelType
<1>7. PICK d : d = channel_pop(c)
  OBVIOUS
<1>8. /\ d \in ChannelType /\ ChannelShape(d) /\ d.count = n - 1
      /\ \A i \in 1 .. n - 1 : JobAt(d, i) = JobAt(c, i + 1)
  BY <1>2, <1>6, <1>7, PopShape DEF EntryOK
<1>9. /\ EntryOK(bytes, msgs, l, d) /\ Held(l, d) \subseteq Held(t, c)
      /\ j.buf \in Held(t, c) /\ j.buf \notin Needed(l, d)
  <2>1. MadeInCommit(l)
    BY <1>1, <1>5 DEF MadeInCommit
  <2>2. InOrder(l)
    BY <1>1, <1>2, <1>5 DEF InOrder, EntryOK
  <2> QED BY <1>2, <1>5, <1>7, <2>1, <2>2, PopEntry
<1>10. /\ bytes' \in StoreType /\ bytes'[j.buf] = x
       /\ \A e \in Bufs : bytes'[e] = bytes[e] \/ e = j.buf
  <2>1. bytes \in [Bufs -> Contents]
    BY StoreIs DEF IInv, TypeOK
  <2> QED BY <1>2, <1>3, <2>1, StoreIs
<1>11. EntryOK(bytes', msgs, l, d)
  <2>1. \A e \in Bufs \cap Needed(l, d) : bytes'[e] = bytes[e]
    BY <1>9, <1>10
  <2>2. msgs <= msgs
    BY <1>2
  <2> QED BY <1>2, <1>9, <2>1, <2>2, EntryFrame
<1>12. PICK y : y = [buf |-> b, msg |-> j.msg, op |-> j.op]
  OBVIOUS
<1>13. y \in CommitType /\ y.buf = b /\ y.msg = j.msg /\ y.op = j.op
  BY <1>1, <1>2, <1>12 DEF CommitType, JobType
<1>14. PICK a \in AcceptedType :
         u.accepted = Append(t.accepted, a) /\ a.msg = j.msg
         /\ (a.whole => Whole(j))
  BY <1>1 DEF Accepts
<1>15. /\ u \in WorkerType /\ u.pc = "loop" /\ u.job = l.job /\ u.made = l.made
       /\ u.queue = queue_send(l.queue, y) /\ u.accepted = Append(l.accepted, a)
  BY <1>1, <1>5, <1>12, <1>14 DEF Accepts
<1>16. l.queue.size < MaxCommits
  <2>1. t.queue.size \in Int /\ MaxCommits \in Int
    BY <1>2, JobFlowAssumption DEF WorkerType, QueueType
  <2> QED BY <1>1, <1>5, <2>1 DEF Full, queue_full
<1>17. y.buf = NoBuf \/ (/\ y.buf = l.job.buf
                         /\ \A p \in 0 .. MaxCommits - 1 :
                              y.buf # l.queue.commits[p].buf)
  <2>1. \A p \in 0 .. MaxCommits - 1 : j.buf # t.queue.commits[p].buf
    BY <1>2 DEF EntryOK, BuffersApart
  <2> QED BY <1>1, <1>5, <1>13, <2>1
<1>18. a.msg = y.msg /\ a.msg \in 1 .. msgs
  BY <1>2, <1>13, <1>14 DEF EntryOK, MsgsOrdered
<1>19. ASSUME NEW i \in 1 .. d.count
       PROVE  a.msg < JobAt(d, i).msg
  <2>1. PICK k \in 1 .. n : k = i + 1 /\ 1 < k /\ i \in 1 .. n - 1
    BY <1>6, <1>8
  <2>2. JobAt(d, i) = JobAt(c, k)
    BY <1>8, <2>1
  <2>3. JobAt(c, 1).msg < JobAt(c, k).msg
    BY <1>2, <1>6, <2>1 DEF EntryOK, MsgsOrdered
  <2> QED BY <1>2, <1>14, <2>2, <2>3
<1>20. \A e \in DOMAIN l.accepted : l.accepted[e].msg < a.msg
  BY <1>2, <1>5, <1>14 DEF EntryOK, MsgsOrdered
<1>21. y.op # "DELETE" =>
         y.buf \in Bufs /\ (a.whole => bytes'[y.buf].IMAGE = y.msg)
  BY <1>1, <1>2, <1>10, <1>13, <1>14
<1>22. EntryOK(bytes', msgs, u, d) /\ Held(u, d) \subseteq Held(l, d)
  <2>1. /\ u.pc = "loop" /\ u.job = l.job /\ u.made = l.made
        /\ u.queue = queue_send(l.queue, y) /\ u.accepted = Append(l.accepted, a)
        /\ u \in WorkerType /\ y \in CommitType /\ a \in AcceptedType
        /\ msgs \in Int /\ l.pc = "loop"
    BY <1>2, <1>5, <1>13, <1>14, <1>15
  <2> QED BY <1>11, <1>16, <1>17, <1>18, <1>19, <1>20, <1>21, <2>1,
             QueueEntry, Zenon
<1>23. RepliesReadable'
  BY <1>3, SentReadable DEF IInv
<1>24. /\ Held(u, d) \subseteq Held(work[w], chan[w])
       /\ \A e \in Bufs : bytes'[e] = bytes[e] \/ e \in Held(work[w], chan[w])
       /\ chan' = [chan EXCEPT ![w] = d] /\ UNCHANGED <<msgs, mgr>>
  BY <1>1, <1>3, <1>7, <1>9, <1>10, <1>22
<1> QED
  BY <1>3, <1>10, <1>22, <1>23, <1>24, WorkerStep

-----------------------------------------------------------------------------
(* The handlers *)

\* The sizes of the replies
LEMMA ReplySizes ==
  AckSize \in Nat /\ AckSize >= AckSize /\ RowSize \in Nat /\ RowSize >= AckSize
  BY DEF AckSize, RowSize, Offset, Width

\* Where a handler is entered, and with what
LEMMA HandlerFacts ==
  ASSUME IInv, NEW w \in Entries, NEW ops, Handles(w, ops)
  PROVE  /\ At(w, "busy") /\ work[w].job.op \in ops
         /\ work[w] \in WorkerType /\ work[w].job.size \in Nat
         /\ work[w].job.msg \in 0 .. MaxMsgs /\ work[w].job.size \in Nat
         /\ Content(w) \in Contents
         /\ Holds(Content(w), work[w].job.msg, work[w].job.size)
<1>1. At(w, "busy") /\ work[w].job.op \in ops
  BY DEF Handles
<1> QED
  BY <1>1, BusyJob

\* What a worker ends with when it has made nothing
LEMMA EndsMade ==
  ASSUME NEW t, NEW u, Ends(t, u), t.made = <<>>
  PROVE  u.made = <<>>
  BY DEF Ends

\* START_TXN is answered, with the transaction id in the buffer.
LEMMA StartStep ==
  ASSUME IInv, NEW w \in Entries, process_start(w)
  PROVE  IInv'
<1>1. Handles(w, {"START_TXN"})
  BY DEF process_start
<1>2. PICK m \in 0 .. MaxMsgs, z \in Nat, x \in Contents :
        /\ m = work[w].job.msg /\ z = work[w].job.size /\ x = Content(w)
        /\ Holds(x, m, z) /\ At(w, "busy") /\ work[w].job.op = "START_TXN"
  BY <1>1, HandlerFacts
<1>3. work[w].made = <<>> /\ Ends(work[w], ToLoop(w))
  BY <1>1, <1>2, HandlerFacts, NothingMade, EndsOf
<1>4. PICK y : y = set_txn(x, m)
  OBVIOUS
<1>5. y \in Contents /\ Holds(y, m, z)
  <2>1. "TXN" \in Fields
    BY DEF Fields
  <2> QED BY <1>2, <1>4, <2>1, SetField DEF set_txn
<1>6. set_ack(y, m) \in Contents
  BY <1>5, ContentTypes
<1>7. Understood(Answer(w, y, "SUCCESS", AckSize))
  BY <1>2, <1>5, ReplySizes, GoodAnswer
<1>8. Done(w, set_ack(y, m), {Answer(w, y, "SUCCESS", AckSize)}, ToLoop(w))
  BY <1>2, <1>4 DEF process_start
<1>9. ToLoop(w).made = <<>>
  BY <1>3, EndsMade
<1> QED
  BY <1>2, <1>3, <1>6, <1>7, <1>8, <1>9, DoneStep

\* A reply with the ack alone, or as long as the message, while nothing is made
LEMMA AckStep ==
  ASSUME IInv, NEW w \in Entries, At(w, "busy"), work[w].made = <<>>,
         NEW ack, NEW size, size \in {AckSize, work[w].job.size},
         NEW u, Ends(work[w], u), DoneWith(w, ack, size, u)
  PROVE  IInv'
<1>1. u.made = <<>>
  BY EndsMade
<1>2. size \in Nat /\ (size >= AckSize \/ size = work[w].job.size)
  BY BusyJob, ReplySizes
<1> QED
  BY <1>1, <1>2, DoneWithStep

\* The same with another status
LEMMA StatusStep ==
  ASSUME IInv, NEW w \in Entries, At(w, "busy"), work[w].made = <<>>, NEW ack,
         NEW s, s \in {"GROWING", "SHRINKING", "ABORTED"},
         DoneWith(w, ack, AckSize, [ToLoop(w) EXCEPT !.status = s])
  PROVE  IInv'
<1>1. work[w] \in WorkerType
  BY BusyJob
<1>2. Ends(work[w], [ToLoop(w) EXCEPT !.status = s])
  BY <1>1, EndsOf
<1> QED
  BY <1>2, AckStep

\* A worker that goes to its loop has a status of the three.
LEMMA LoopStatus ==
  ASSUME NEW w \in Entries, work[w] \in WorkerType
  PROVE  ToLoop(w).status \in {"GROWING", "SHRINKING", "ABORTED"}
  BY DEF ToLoop, WorkerType

\* A read is answered with the row, or refused.
LEMMA ReadStep ==
  ASSUME IInv, NEW w \in Entries, process_read(w)
  PROVE  IInv'
<1>1. Handles(w, {"SHARED_READ", "EXCLUSIVE_READ"})
  BY DEF process_read
<1>2. PICK m \in 0 .. MaxMsgs, z \in Nat, x \in Contents :
        /\ m = work[w].job.msg /\ z = work[w].job.size /\ x = Content(w)
        /\ Holds(x, m, z) /\ At(w, "busy") /\ work[w].job.op # "COMMIT_TXN"
        /\ work[w] \in WorkerType
  BY <1>1, HandlerFacts
<1>3. work[w].made = <<>> /\ Ends(work[w], ToLoop(w)) /\ ToLoop(w).made = <<>>
  BY <1>2, NothingMade, EndsOf, EndsMade
<1>4. PICK y : y = serialized(x, m)
  OBVIOUS
<1>5. \/ \E ack : DoneWith(w, ack, AckSize, ToLoop(w))
      \/ \E ack, s : /\ s = IF ack = "ABORTED" THEN "ABORTED" ELSE ToLoop(w).status
                     /\ DoneWith(w, ack, AckSize, [ToLoop(w) EXCEPT !.status = s])
      \/ Done(w, set_ack(y, m), {Answer(w, y, "SUCCESS", RowSize)}, ToLoop(w))
  BY <1>2, <1>4 DEF process_read, BadPhase
<1>6. CASE \E ack : DoneWith(w, ack, AckSize, ToLoop(w))
  BY <1>2, <1>3, <1>6, AckStep
<1>7. CASE \E ack, s :
             /\ s = IF ack = "ABORTED" THEN "ABORTED" ELSE ToLoop(w).status
             /\ DoneWith(w, ack, AckSize, [ToLoop(w) EXCEPT !.status = s])
  BY <1>2, <1>3, <1>7, LoopStatus, StatusStep
<1>8. CASE Done(w, set_ack(y, m), {Answer(w, y, "SUCCESS", RowSize)}, ToLoop(w))
  <2>1. "TP_KEY" \in Fields /\ "TUPLE" \in Fields
    BY DEF Fields
  <2>2. PICK k \in Contents : k = set_field(x, "TP_KEY", m) /\ Holds(k, m, z)
    BY <1>2, <2>1, SetField
  <2>3. set_field(k, "TUPLE", m) \in Contents /\ Holds(set_field(k, "TUPLE", m), m, z)
    BY <2>1, <2>2, SetField
  <2>4. y \in Contents /\ Holds(y, m, z)
    BY <1>4, <2>2, <2>3 DEF serialized
  <2>5. set_ack(y, m) \in Contents
    BY <2>4, ContentTypes
  <2>6. Understood(Answer(w, y, "SUCCESS", RowSize))
    BY <1>2, <2>4, ReplySizes, GoodAnswer
  <2> QED BY <1>2, <1>3, <1>8, <2>5, <2>6, DoneStep
<1> QED
  BY <1>5, <1>6, <1>7, <1>8

\* YIELD_READ and PROMOTE are answered.
LEMMA HeldStep ==
  ASSUME IInv, NEW w \in Entries, process_held(w)
  PROVE  IInv'
<1>1. Handles(w, {"YIELD_READ", "PROMOTE"})
  BY DEF process_held
<1>2. At(w, "busy") /\ work[w].job.op # "COMMIT_TXN" /\ work[w] \in WorkerType
  BY <1>1, HandlerFacts
<1>3. work[w].made = <<>> /\ Ends(work[w], ToLoop(w))
  BY <1>2, NothingMade, EndsOf
<1>4. \/ \E ack, size : /\ size \in {AckSize, work[w].job.size}
                        /\ DoneWith(w, ack, size, ToLoop(w))
      \/ \E ack, s : /\ s = IF ack = "TIMEOUT" THEN "ABORTED" ELSE ToLoop(w).status
                     /\ DoneWith(w, ack, AckSize, [ToLoop(w) EXCEPT !.status = s])
  BY DEF process_held, BadPhase
<1>5. CASE \E ack, size : /\ size \in {AckSize, work[w].job.size}
                          /\ DoneWith(w, ack, size, ToLoop(w))
  BY <1>2, <1>3, <1>5, AckStep
<1>6. CASE \E ack, s :
             /\ s = IF ack = "TIMEOUT" THEN "ABORTED" ELSE ToLoop(w).status
             /\ DoneWith(w, ack, AckSize, [ToLoop(w) EXCEPT !.status = s])
  BY <1>2, <1>3, <1>6, LoopStatus, StatusStep
<1> QED
  BY <1>4, <1>5, <1>6

\* A change is refused.
LEMMA RefusedChangeStep ==
  ASSUME IInv, NEW w \in Entries, At(w, "busy"), work[w].job.op # "COMMIT_TXN",
         NEW acks, RefusedChange(w, acks)
  PROVE  IInv'
<1>1. work[w].made = <<>> /\ Ends(work[w], Shrunk(w))
  BY NothingMade, EndsOf, BusyJob
<1>2. PICK ack : DoneWith(w, ack, AckSize, Shrunk(w))
  BY DEF RefusedChange
<1> QED
  BY <1>1, <1>2, AckStep

\* The worker with one more change in its queue
LEMMA AcceptsQueued ==
  ASSUME IInv, NEW w \in Entries, At(w, "busy"), ~Full(w),
         NEW b \in {NoBuf, work[w].job.buf}
  PROVE  Accepts(work[w], Queued(w, b), b)
<1>0. work[w] \in WorkerType /\ work[w].job \in JobType
  BY BusyJob
<1>1. PICK t \in WorkerType, j \in JobType : t = work[w] /\ j = t.job
  BY <1>0
<1>2. PICK l \in WorkerType : l = Shrunk(w) /\ Ends(t, l) /\ l.pc = "loop"
  BY <1>1, EndsOf DEF Ends
<1>3. PICK y \in CommitType : y = [buf |-> b, msg |-> j.msg, op |-> j.op]
  BY <1>1 DEF CommitType, JobType
<1>4. Whole(j) \in BOOLEAN
  BY DEF Whole, parse_field
<1>5. PICK f \in BOOLEAN : f = Whole(j)
  BY <1>4
<1>6. PICK a : a = [msg |-> j.msg, whole |-> f]
  OBVIOUS
<1>16. a \in AcceptedType /\ a.msg = j.msg /\ a.whole = f
  <2>1. j.msg \in 0 .. MaxMsgs
    BY DEF JobType
  <2>2. a.msg = j.msg /\ a.whole = f
    BY <1>6
  <2> QED BY <1>6, <2>1, <2>2, Zenon DEF AcceptedType
<1>7. PICK d \in QueueType : d = queue_send(l.queue, y)
  <2>1. EntryOK(bytes, msgs, t, chan[w])
    BY <1>1 DEF IInv
  <2>2. l.queue \in QueueType /\ QueueShape(l.queue) /\ l.queue = t.queue
    BY <1>1, <1>2, <2>1 DEF EntryOK, Ends, WorkerType
  <2>3. l.queue.size < MaxCommits
    <3>1. t.queue.size \in Int /\ MaxCommits \in Int
      BY <2>2, JobFlowAssumption DEF QueueType
    <3> QED BY <1>1, <2>2, <3>1 DEF Full, queue_full
  <2> QED BY <1>3, <2>2, <2>3, QueueSendShape
<1>8. PICK r \in Seq(AcceptedType) : r = Append(l.accepted, a)
  <2>1. PICK q \in Seq(AcceptedType) : q = l.accepted
    BY <1>2 DEF WorkerType
  <2>2. Append(q, a) \in Seq(AcceptedType)
    BY <1>16
  <2> QED BY <2>1, <2>2
<1>9. PICK u : u = [l EXCEPT !.queue = d, !.accepted = r]
  OBVIOUS
<1>10. Queued(w, b) = u
  <2>1. Queued(w, b) = [l EXCEPT
           !.queue = queue_send(@, [buf |-> b, msg |-> j.msg, op |-> j.op]),
           !.accepted = Append(@, [msg |-> j.msg, whole |-> Whole(j)])]
    BY <1>1, <1>2 DEF Queued
  <2>2. [msg |-> j.msg, whole |-> Whole(j)] = a
    BY <1>5, <1>6
  <2> QED BY <1>3, <1>7, <1>8, <1>9, <2>1, <2>2
<1>11. /\ u \in WorkerType /\ u.pc = l.pc /\ u.job = l.job /\ u.made = l.made
       /\ u.queue = d /\ u.accepted = r
  BY <1>9 DEF WorkerType
<1>12. /\ u.pc = "loop" /\ u.job = t.job /\ u.made = t.made
       /\ l.queue = t.queue /\ l.accepted = t.accepted
  BY <1>2, <1>11 DEF Ends
<1>13. u.queue = queue_send(t.queue, [buf |-> b, msg |-> t.job.msg, op |-> t.job.op])
  BY <1>1, <1>3, <1>7, <1>11, <1>12
<1>14. \E e \in AcceptedType :
         /\ u.accepted = Append(t.accepted, e) /\ e.msg = t.job.msg
         /\ e.whole => Whole(t.job)
  <2>1. /\ u.accepted = Append(t.accepted, a) /\ a.msg = t.job.msg
        /\ a.whole => Whole(t.job)
    BY <1>1, <1>5, <1>8, <1>11, <1>12, <1>16
  <2> QED BY <1>16, <2>1
<1>15. Accepts(t, u, b)
  BY <1>11, <1>12, <1>13, <1>14, Zenon DEF Accepts
<1> QED
  BY <1>1, <1>10, <1>15

\* The end of ADD and UPDATE
LEMMA KeepStep ==
  ASSUME IInv, NEW w \in Entries, At(w, "busy"),
         work[w].job.op \notin {"COMMIT_TXN", "DELETE"},
         NEW size, size \in {AckSize, work[w].job.size}, Keep(w, size)
  PROVE  IInv'
<1>1. PICK m \in 0 .. MaxMsgs, z \in Nat, x \in Contents :
        /\ m = work[w].job.msg /\ z = work[w].job.size /\ x = Content(w)
        /\ Holds(x, m, z) /\ work[w] \in WorkerType
  BY BusyJob
<1>2. work[w].made = <<>> /\ Ends(work[w], Shrunk(w)) /\ Shrunk(w).made = <<>>
  BY <1>1, NothingMade, EndsOf, EndsMade
<1>3. PICK ok, a, image, second :
        /\ ok = Answer(w, x, "SUCCESS", size) /\ a = set_ack(x, m)
        /\ image = set_image(a) /\ second = Answer(w, image, "COMMIT_FULL", AckSize)
  OBVIOUS
<1>4. a \in Contents /\ a.TUPLE = x.TUPLE
  BY <1>3, ContentTypes
<1>5. image \in Contents /\ image.IMAGE = x.TUPLE
  BY <1>3, <1>4, ContentTypes
<1>6. set_ack(image, m) \in Contents
  BY <1>5, ContentTypes
<1>7. Understood(ok)
  <2>1. size \in Nat /\ (size >= AckSize \/ size = work[w].job.size)
    BY <1>1, ReplySizes
  <2> QED BY <1>1, <1>3, <2>1, GoodAnswer
<1>8. second.ack = "COMMIT_FULL"
  BY <1>3 DEF Answer, Reply
<1>9. CASE Full(w)
  <2>1. Done(w, set_ack(image, m), {ok, second}, Shrunk(w))
    BY <1>1, <1>3, <1>9 DEF Keep
  <2> QED BY <1>2, <1>6, <1>7, <1>8, <2>1, DoneStep
<1>10. CASE ~Full(w)
  <2>1. PICK b : b = work[w].job.buf
    OBVIOUS
  <2>2. Done(w, image, {ok}, Queued(w, b))
    BY <1>1, <1>3, <1>10, <2>1 DEF Keep
  <2>3. Accepts(work[w], Queued(w, b), b)
    BY <1>10, <2>1, AcceptsQueued
  <2>4. Whole(work[w].job) => image.IMAGE = work[w].job.msg
    <3>1. "TUPLE" \in Fields
      BY DEF Fields
    <3>2. parse_field("TUPLE", z) => x.TUPLE = m
      BY <1>1, <3>1 DEF Holds
    <3> QED BY <1>1, <1>5, <3>2 DEF Whole
  <2>5. PICK u, sent : u = Queued(w, b) /\ sent = {ok}
    OBVIOUS
  <2>6. /\ Accepts(work[w], u, b) /\ Done(w, image, sent, u)
        /\ \A r \in sent : Understood(r) \/ r.ack = "COMMIT_FULL"
    BY <1>7, <2>2, <2>3, <2>5
  <2> QED BY <1>2, <1>5, <1>10, <2>1, <2>4, <2>6, AcceptStep, Zenon
<1> QED
  BY <1>9, <1>10

\* ADD_TUPLE is accepted or refused.
LEMMA AddStep ==
  ASSUME IInv, NEW w \in Entries, process_add(w)
  PROVE  IInv'
<1>1. Handles(w, {"ADD_TUPLE"})
  BY DEF process_add
<1>2. At(w, "busy") /\ work[w].job.op = "ADD_TUPLE"
  BY <1>1 DEF Handles
<1>3. RefusedChange(w, {"BAD_TABLE"}) \/ Keep(w, work[w].job.size)
  BY DEF process_add
<1> QED
  BY <1>2, <1>3, RefusedChangeStep, KeepStep

\* UPDATE is accepted or refused.
LEMMA UpdateStep ==
  ASSUME IInv, NEW w \in Entries, process_update(w)
  PROVE  IInv'
<1>1. Handles(w, {"UPDATE"})
  BY DEF process_update
<1>2. At(w, "busy") /\ work[w].job.op = "UPDATE"
  BY <1>1 DEF Handles
<1>3. RefusedChange(w, RefusesRow(w)) \/ Keep(w, AckSize)
  BY DEF process_update
<1> QED
  BY <1>2, <1>3, RefusedChangeStep, KeepStep

\* DELETE is accepted, without a buffer, or refused.
LEMMA DeleteStep ==
  ASSUME IInv, NEW w \in Entries, process_rm(w)
  PROVE  IInv'
<1>1. Handles(w, {"DELETE"})
  BY DEF process_rm
<1>2. PICK m \in 0 .. MaxMsgs, z \in Nat, x \in Contents :
        /\ m = work[w].job.msg /\ z = work[w].job.size /\ x = Content(w)
        /\ Holds(x, m, z) /\ At(w, "busy") /\ work[w].job.op = "DELETE"
        /\ work[w] \in WorkerType
  BY <1>1, HandlerFacts
<1>3. work[w].made = <<>> /\ Ends(work[w], Shrunk(w))
  BY <1>2, NothingMade, EndsOf
<1>4. \/ RefusedChange(w, RefusesRow(w))
      \/ DoneWith(w, "COMMIT_FULL", AckSize, Shrunk(w))
      \/ ~Full(w) /\ DoneWith(w, "SUCCESS", z, Queued(w, NoBuf))
  BY <1>2 DEF process_rm
<1>5. CASE RefusedChange(w, RefusesRow(w))
  BY <1>2, <1>5, RefusedChangeStep
<1>6. CASE DoneWith(w, "COMMIT_FULL", AckSize, Shrunk(w))
  BY <1>2, <1>3, <1>6, AckStep
<1>7. CASE ~Full(w) /\ DoneWith(w, "SUCCESS", z, Queued(w, NoBuf))
  <2>1. Done(w, set_ack(x, m), {Answer(w, x, "SUCCESS", z)}, Queued(w, NoBuf))
    BY <1>2, <1>7 DEF DoneWith
  <2>2. Understood(Answer(w, x, "SUCCESS", z))
    BY <1>2, GoodAnswer
  <2>3. set_ack(x, m) \in Contents
    BY ContentTypes
  <2>4. Accepts(work[w], Queued(w, NoBuf), NoBuf)
    BY <1>2, <1>7, AcceptsQueued
  <2>5. PICK u, sent, y :
          /\ u = Queued(w, NoBuf) /\ sent = {Answer(w, x, "SUCCESS", z)}
          /\ y = set_ack(x, m)
    OBVIOUS
  <2>6. /\ Accepts(work[w], u, NoBuf) /\ Done(w, y, sent, u)
        /\ \A r \in sent : Understood(r) \/ r.ack = "COMMIT_FULL"
        /\ y \in Contents
    BY <2>1, <2>2, <2>3, <2>4, <2>5
  <2> QED BY <1>2, <1>3, <1>7, <2>6, AcceptStep, Zenon
<1> QED
  BY <1>4, <1>5, <1>6, <1>7

\* ABORT_TXN is answered, and the worker goes to its end.
LEMMA AbortStep ==
  ASSUME IInv, NEW w \in Entries, process_abort(w)
  PROVE  IInv'
<1>1. Handles(w, {"ABORT_TXN"}) /\ DoneWith(w, "SUCCESS", AckSize, ToQuit(w))
  BY DEF process_abort
<1>2. At(w, "busy") /\ work[w].job.op # "COMMIT_TXN" /\ work[w] \in WorkerType
  BY <1>1, HandlerFacts
<1>3. work[w].made = <<>> /\ Ends(work[w], ToQuit(w))
  BY <1>2, NothingMade, EndsOf
<1> QED
  BY <1>1, <1>2, <1>3, AckStep

\* COMMIT_TXN of a transaction that has changed nothing is answered.
LEMMA CommitStep ==
  ASSUME IInv, NEW w \in Entries, process_commit(w)
  PROVE  IInv'
<1>1. Handles(w, {"COMMIT_TXN"}) /\ DoneWith(w, "SUCCESS", AckSize, ToQuit(w))
      /\ work[w].status # "SHRINKING"
  BY DEF process_commit
<1>2. At(w, "busy") /\ work[w] \in WorkerType
  BY <1>1, HandlerFacts
<1>3. work[w].made = <<>> /\ Ends(work[w], ToQuit(w))
  BY <1>1, <1>2, NothingMade, EndsOf
<1> QED
  BY <1>1, <1>2, <1>3, AckStep

\* COMMIT is answered when the queue is empty.
LEMMA CommitDoneStep ==
  ASSUME IInv, NEW w \in Entries, CommitDone(w)
  PROVE  IInv'
<1>1. Handles(w, {"COMMIT_TXN"}) /\ work[w].queue.size = 0
      /\ DoneWith(w, "SUCCESS", work[w].job.size, ToQuit(w))
  BY DEF CommitDone, Commits
<1>2. At(w, "busy") /\ work[w] \in WorkerType /\ work[w].job.size \in Nat
  BY <1>1, HandlerFacts
<1>3. Ends(work[w], ToQuit(w)) /\ ToQuit(w).pc = "quit"
  BY <1>2, EndsOf
<1>4. ToQuit(w).queue.size = 0
  BY <1>1, <1>3 DEF Ends
<1> QED
  BY <1>1, <1>2, <1>3, <1>4, DoneWithStep

-----------------------------------------------------------------------------
(* The theorems *)

\* Nothing happens.
LEMMA StutterStep ==
  ASSUME IInv, UNCHANGED vars
  PROVE  IInv'
<1>1. UNCHANGED <<bytes, msgs, mgr, chan, work, garbled>>
  BY DEF vars
<1>2. TypeOK' /\ ManagerPhases' /\ HoldersApart' /\ RepliesReadable'
  BY <1>1 DEF IInv, TypeOK, ManagerPhases, HoldersApart, RepliesReadable
<1>3. \A w \in Entries : EntryOK(bytes', msgs', work'[w], chan'[w])
  BY <1>1 DEF IInv
<1> QED
  BY <1>2, <1>3 DEF IInv

\* The invariant holds at the start.
LEMMA InitInv == Init => IInv
<1> SUFFICES ASSUME Init PROVE IInv
  OBVIOUS
<1>1. /\ bytes = [b \in Bufs |-> FreshBuffer] /\ msgs = 0 /\ mgr = AtRequest
      /\ chan = [w \in Entries |-> NewChannel]
      /\ work = [w \in Entries |-> NoWorker] /\ garbled = {}
  BY DEF Init
<1>2. PICK u \in WorkerType :
        /\ u = NoWorker /\ u.pc = "none" /\ ~u.running /\ u.job = NullJob
        /\ u.queue = NewQueue /\ u.accepted = <<>> /\ u.made = <<>>
  BY FreshWorkers
<1>3. PICK c \in ChannelType : c = NewChannel /\ ChannelShape(c) /\ c.count = 0
  BY NewWorkers
<1>4. \A w \in Entries : work[w] = u /\ chan[w] = c
  BY <1>1, <1>2, <1>3
<1>5. msgs \in 0 .. MaxMsgs /\ bytes \in StoreType
  <2>1. 0 \in Mixed .. MaxMsgs /\ 0 \in 0 .. MaxMsgs
    BY JobFlowAssumption DEF Mixed
  <2>2. FreshBuffer \in Contents
    BY <2>1 DEF FreshBuffer, Fresh, Contents
  <2> QED BY <1>1, <2>1, <2>2, StoreIs
<1>6. mgr \in ManagerType /\ mgr.pc = "request" /\ mgr.job = NullJob /\ mgr.job.buf = NoBuf
  BY <1>1, AtRequestType
<1>7. TypeOK /\ ManagerPhases /\ RepliesReadable
  <2>1. chan \in [Entries -> ChannelType] /\ work \in [Entries -> WorkerType]
    BY <1>1, <1>2, <1>3
  <2>2. RepliesReadable
    BY <1>1 DEF RepliesReadable
  <2> QED BY <1>5, <1>6, <2>1, <2>2 DEF TypeOK, ManagerPhases
<1>8. QueueShape(u.queue) /\ u.queue.size = 0
      /\ \A x \in 0 .. MaxCommits - 1 : u.queue.commits[x].buf = NoBuf
  BY <1>2, NewWorkers
<1>9. DOMAIN u.accepted = {} /\ DOMAIN u.made = {} /\ Len(u.accepted) = 0
      /\ Len(u.made) = 0 /\ u.job.buf = NoBuf
  BY <1>2 DEF NullJob
<1>10. EntryOK(bytes, msgs, u, c)
  <2>1. WorkerPhases(u, c) /\ JobsLoaded(bytes, c) /\ MsgsOrdered(msgs, u, c)
    BY <1>2, <1>3, <1>9 DEF WorkerPhases, JobsLoaded, MsgsOrdered
  <2>2. BuffersApart(u, c) /\ ChangesKept(bytes, u)
    BY <1>3, <1>8, <1>9 DEF BuffersApart, ChangesKept
  <2>3. MadeInCommit(u) /\ InOrder(u)
    BY <1>2, <1>9 DEF MadeInCommit, InOrder
  <2> QED BY <1>3, <1>8, <2>1, <2>2, <2>3 DEF EntryOK
<1>11. Held(u, c) = {}
  BY <1>3, <1>8, <1>9 DEF Held
<1>12. HoldersApart
  BY <1>4, <1>11 DEF HoldersApart
<1> QED
  BY <1>4, <1>7, <1>10, <1>12 DEF IInv

\* Every step of the manager keeps the invariant.
LEMMA ManagerInv == IInv /\ Manager => IInv'
<1> SUFFICES ASSUME IInv, Manager PROVE IInv'
  OBVIOUS
<1>1. CASE Request
  BY <1>1, RequestStep
<1>2. CASE RecvNothing
  BY <1>2, RecvNothingStep
<1>3. CASE Receives
  <2>1. PICK d \in Datagrams :
          \/ RecvBadOp(d) \/ RecvBadTxn(d) \/ RecvStart(d)
          \/ \E w \in Entries : RecvBusy(d, w) \/ RecvJob(d, w)
    BY <1>3 DEF Receives
  <2>2. (RecvBadOp(d) \/ RecvBadTxn(d) \/ \E w \in Entries : RecvBusy(d, w))
          => \E ack : Refused(d, ack)
    BY DEF RecvBadOp, RecvBadTxn, RecvBusy
  <2> QED BY <2>1, <2>2, RefusedStep, RecvStartStep, RecvJobStep
<1>4. CASE Reaps
  BY <1>4, InsertFullStep, DrainStep, JoinStep, InsertStep DEF Reaps
<1> QED
  BY <1>1, <1>2, <1>3, <1>4 DEF Manager

\* Every step of a worker keeps the invariant.
LEMMA WorkInv ==
  ASSUME IInv, NEW w \in Entries, Work(w)
  PROVE  IInv'
<1>1. CASE Loop(w) \/ RecvTimeout(w) \/ Take(w) \/ Quit(w)
  BY <1>1, LoopStep, RecvTimeoutStep, TakeStep, QuitStep
<1>2. CASE process_start(w) \/ process_read(w) \/ process_held(w)
  BY <1>2, StartStep, ReadStep, HeldStep
<1>3. CASE process_add(w) \/ process_update(w) \/ process_rm(w)
  BY <1>3, AddStep, UpdateStep, DeleteStep
<1>4. CASE process_abort(w) \/ process_commit(w) \/ CommitNext(w) \/ CommitDone(w)
  BY <1>4, AbortStep, CommitStep, CommitNextStep, CommitDoneStep
<1> QED
  BY <1>1, <1>2, <1>3, <1>4 DEF Work, Steps

\* Every step keeps the invariant.
LEMMA NextInv == IInv /\ [Next]_vars => IInv'
<1> SUFFICES ASSUME IInv, [Next]_vars PROVE IInv'
  OBVIOUS
<1>1. CASE Next
  BY <1>1, ManagerInv, WorkInv, HangStep DEF Next
<1>2. CASE UNCHANGED vars
  BY <1>2, StutterStep
<1> QED
  BY <1>1, <1>2

\* In every state each entry's rings are in shape, its jobs and changes find
\* their bytes, and no buffer has two holders, whatever the numbers of
\* buffers, entries, places in the rings and messages.
THEOREM FlowInvariant == Spec => []IInv
  BY InitInv, NextInv, PTL DEF Spec

\* Every variable stays in its type: the indices of channel and commit queue
\* within their arrays, the statuses among those of the worker.
THEOREM TypeCorrect == Spec => []TypeOK
<1>1. IInv => TypeOK
  BY DEF IInv
<1> QED
  BY <1>1, FlowInvariant, PTL

\* What a transaction has changed is, in order and with the data of the
\* messages, what it was told is accepted; all of it once COMMIT is answered.
THEOREM CommitsTheorem == Spec => []CommitsInOrder
<1>1. IInv => CommitsInOrder
  BY DEF IInv, EntryOK, CommitsInOrder
<1> QED
  BY <1>1, FlowInvariant, PTL

\* Every reply to a message with a header can be read, but the second reply
\* of a change that finds the queue full.
THEOREM RepliesTheorem == Spec => []RepliesReadable
<1>1. IInv => RepliesReadable
  BY DEF IInv
<1> QED
  BY <1>1, FlowInvariant, PTL

\* Nobody writes into a buffer another still needs: a job that waits or is
\* being handled finds all fields of its own message, a queued change its own
\* tuple, whatever the manager received meanwhile.
THEOREM OwnedTheorem == Spec => []BuffersOwned
<1>1. ASSUME IInv PROVE BuffersOwned
  <2> SUFFICES ASSUME NEW w \in Entries
               PROVE  /\ \A i \in DOMAIN QueuedJobs(w) :
                           LET j == QueuedJobs(w)[i]
                           IN  /\ j.buf \in Bufs
                               /\ \A f \in Fields : parse_field(f, j.size) =>
                                                      bytes[j.buf][f] = j.msg
                      /\ At(w, "busy") => work[w].job = QueuedJobs(w)[1]
                      /\ \A i \in DOMAIN QueuedChanges(w) :
                           LET c == QueuedChanges(w)[i]
                           IN  (\E a \in 1 .. Len(work[w].accepted) :
                                  /\ work[w].accepted[a].msg = c.msg
                                  /\ work[w].accepted[a].whole /\ c.op # "DELETE")
                               => bytes[c.buf].IMAGE = c.msg
    BY DEF BuffersOwned
  <2>1. PICK t, c : t = work[w] /\ c = chan[w]
    OBVIOUS
  <2>2. EntryOK(bytes, msgs, t, c) /\ t \in WorkerType
    BY <1>1, <2>1 DEF IInv, EntryOK
  <2>3. JobsLoaded(bytes, c) /\ WorkerPhases(t, c) /\ MsgsOrdered(msgs, t, c)
        /\ ChangesKept(bytes, t) /\ c \in ChannelType
    BY <2>2 DEF EntryOK
  <2>4. /\ DOMAIN QueuedJobs(w) = 1 .. c.count
        /\ \A i \in 1 .. c.count : QueuedJobs(w)[i] = JobAt(c, i)
        /\ DOMAIN QueuedChanges(w) = 1 .. t.queue.size
        /\ \A i \in 1 .. t.queue.size : QueuedChanges(w)[i] = ChangeAt(t.queue, i)
    BY <2>1 DEF QueuedJobs, QueuedChanges
  <2>5. \A i \in 1 .. c.count : Loaded(bytes, JobAt(c, i))
    BY <2>3 DEF JobsLoaded
  <2>6. At(w, "busy") => work[w].job = QueuedJobs(w)[1]
    <3>1. At(w, "busy") => c.count > 0 /\ t.job = JobAt(c, 1)
      BY <2>1, <2>3 DEF At, WorkerPhases
    <3>2. c.count > 0 => 1 \in 1 .. c.count
      BY <2>3 DEF ChannelType
    <3> QED BY <2>1, <2>4, <3>1, <3>2
  <2>7. ASSUME NEW i \in 1 .. t.queue.size, NEW x, x = ChangeAt(t.queue, i),
               NEW a \in 1 .. Len(t.accepted), t.accepted[a].msg = x.msg,
               t.accepted[a].whole, x.op # "DELETE"
        PROVE  bytes[x.buf].IMAGE = x.msg
    <3>1. PICK k \in Nat, n \in Nat : k = Len(t.made) /\ n = t.queue.size
      BY <2>2 DEF WorkerType, QueueType
    <3>2. Len(t.accepted) = k + n
      BY <2>3, <3>1 DEF ChangesKept
    <3>3. PICK e \in 1 .. Len(t.accepted) : e = k + i
      BY <3>1, <3>2
    <3>4. /\ t.accepted[e].msg = x.msg
          /\ t.accepted[e].whole => bytes[x.buf].IMAGE = x.msg
      BY <2>3, <2>7, <3>1, <3>3 DEF ChangesKept
    <3>5. DOMAIN t.accepted = 1 .. Len(t.accepted)
      BY <2>2 DEF WorkerType
    <3>6. /\ a < e => t.accepted[a].msg < t.accepted[e].msg
          /\ e < a => t.accepted[e].msg < t.accepted[a].msg
          /\ t.accepted[a].msg \in Int
      <4>1. msgs \in Int
        BY <1>1 DEF IInv, TypeOK
      <4> QED BY <2>3, <3>5, <4>1 DEF MsgsOrdered
    <3>7. a = e
      BY <2>7, <3>1, <3>2, <3>4, <3>6
    <3> QED BY <2>7, <3>4, <3>7
  <2> QED BY <2>1, <2>4, <2>5, <2>6, <2>7 DEF Loaded
<1>2. IInv => BuffersOwned
  BY <1>1
<1> QED
  BY <1>2, FlowInvariant, PTL

\* No place of a ring that is out of use pins a buffer, no entry that is.
THEOREM LeakTheorem == Spec => []NothingLeaked
<1>1. ASSUME IInv PROVE NothingLeaked
  <2> DEFINE Jobs(w) == {QueuedJobs(w)[i].buf : i \in DOMAIN QueuedJobs(w)}
             Running(w) == At(w, "loop") \/ At(w, "busy") \/ At(w, "quit")
             Ended(w) == At(w, "none") \/ At(w, "dead")
  <2>1. ASSUME NEW w \in Entries
        PROVE  /\ work[w].job.buf = NoBuf \/ Running(w)
               /\ \A b \in RefsOfChannel(w) : b = NoBuf \/ b \in Jobs(w)
               /\ \A b \in RefsOfQueue(w) : b = NoBuf \/ ~Ended(w)
    <3>1. PICK t, c : t = work[w] /\ c = chan[w]
      OBVIOUS
    <3>2. EntryOK(bytes, msgs, t, c) /\ t \in WorkerType /\ c \in ChannelType
      BY <1>1, <3>1 DEF IInv, EntryOK
    <3>3. WorkerPhases(t, c) /\ ChannelShape(c) /\ ChannelRing(c)
      BY <3>2 DEF EntryOK, ChannelRing, ChannelShape
    <3>4. t.pc \in Pcs
      BY <3>2 DEF WorkerType
    <3>5. work[w].job.buf = NoBuf \/ Running(w)
      <4>1. t.pc \in {"none", "dead", "recv"} => t.job.buf = NoBuf
        BY <3>3 DEF WorkerPhases, NullJob
      <4> QED BY <3>1, <3>4, <4>1 DEF At, Pcs
    <3>6. \A b \in RefsOfQueue(w) : b = NoBuf \/ ~Ended(w)
      <4>1. Ended(w) => t.queue = NewQueue
        BY <3>1, <3>3 DEF At, WorkerPhases
      <4>2. DOMAIN t.queue.commits = 0 .. MaxCommits - 1
        BY <3>2 DEF WorkerType, QueueType
      <4> QED BY <3>1, <4>1, <4>2, NewWorkers DEF RefsOfQueue
    <3>7. \A b \in RefsOfChannel(w) : b = NoBuf \/ b \in Jobs(w)
      <4> SUFFICES ASSUME NEW p \in 0 .. MaxItems - 1, c.jobs[p].buf # NoBuf
                   PROVE  c.jobs[p].buf \in Jobs(w)
        <5>1. DOMAIN c.jobs = 0 .. MaxItems - 1
          BY <3>2 DEF ChannelType
        <5> QED BY <3>1, <5>1 DEF RefsOfChannel
      <4>1. PICK i \in 1 .. MaxItems : JobAt(c, i) = c.jobs[p]
        BY <3>3, PlaceType
      <4>2. JobAt(c, i) # NullJob
        BY <4>1 DEF NullJob
      <4>3. i \in 1 .. c.count
        <5>1. c.count \in Nat /\ MaxItems \in Nat
          BY <3>2, JobFlowAssumption DEF ChannelType
        <5>2. i \notin c.count + 1 .. MaxItems
          BY <3>3, <4>2 DEF ChannelShape
        <5> QED BY <5>1, <5>2
      <4>4. DOMAIN QueuedJobs(w) = 1 .. c.count /\ QueuedJobs(w)[i] = JobAt(c, i)
        BY <3>1, <4>3 DEF QueuedJobs
      <4> QED BY <4>1, <4>3, <4>4
    <3> QED BY <3>5, <3>6, <3>7
  <2>2. ASSUME NEW b \in Refs
        PROVE  \/ b = mgr.job.buf
               \/ \E w \in Entries : \/ b = work[w].job.buf
                                     \/ b \in RefsOfChannel(w)
                                     \/ b \in RefsOfQueue(w)
    BY Zenon DEF Refs
  <2>3. ASSUME NEW b \in Refs, b # NoBuf
        PROVE  \/ b = mgr.job.buf
               \/ \E w \in Entries : \/ b \in Jobs(w)
                                     \/ b = work[w].job.buf /\ Running(w)
                                     \/ b \in RefsOfQueue(w) /\ ~Ended(w)
    <3> HIDE DEF Jobs, Running, Ended
    <3> QED BY <2>1, <2>2, <2>3
  <2>4. \A w \in Entries : ~Ended(w) <=> ~At(w, "none") /\ ~At(w, "dead")
    OBVIOUS
  <2>5. ASSUME NEW b \in Refs, b # NoBuf
        PROVE  b \in {mgr.job.buf}
                     \cup (UNION {Jobs(w) : w \in Entries})
                     \cup {work[w].job.buf : w \in {v \in Entries : Running(v)}}
                     \cup (UNION {RefsOfQueue(w) :
                                    w \in {v \in Entries : ~At(v, "none") /\ ~At(v, "dead")}})
    <3> HIDE DEF Jobs, Running, Ended
    <3> QED BY <2>3, <2>4, <2>5, Zenon
  <2> QED BY <2>5, Zenon DEF NothingLeaked
<1>2. IInv => NothingLeaked
  BY <1>1
<1> QED
  BY <1>2, FlowInvariant, PTL

-----------------------------------------------------------------------------
(* The rings implement bounded queues. *)

\* A sequence that is another with one more at its end
LEMMA IsAppend ==
  ASSUME NEW S, NEW s \in Seq(S), NEW r \in Seq(S), NEW x \in S,
         Len(r) = Len(s) + 1, r[Len(s) + 1] = x,
         \A i \in 1 .. Len(s) : r[i] = s[i]
  PROVE  r = Append(s, x)
<1>1. PICK a \in Seq(S) :
        /\ a = Append(s, x) /\ Len(a) = Len(s) + 1 /\ a[Len(s) + 1] = x
        /\ \A i \in 1 .. Len(s) : a[i] = s[i]
  BY AppendProperties
<1>2. \A i \in 1 .. Len(s) + 1 : i \in 1 .. Len(s) \/ i = Len(s) + 1
  BY LenProperties
<1>3. \A i \in 1 .. Len(r) : r[i] = a[i]
  BY <1>1, <1>2
<1>4. r = a
  BY <1>1, <1>3, SeqEqual
<1> QED
  BY <1>1, <1>4

\* A sequence that is another without its first
LEMMA IsTail ==
  ASSUME NEW S, NEW s \in Seq(S), NEW r \in Seq(S), Len(s) > 0,
         Len(r) = Len(s) - 1, \A i \in 1 .. Len(s) - 1 : r[i] = s[i + 1]
  PROVE  s # <<>> /\ r = Tail(s)
<1>1. s # <<>>
  OBVIOUS
<1>2. PICK a \in Seq(S) :
        /\ a = Tail(s) /\ Len(a) = Len(s) - 1
        /\ \A i \in 1 .. Len(a) : a[i] = s[i + 1]
  BY <1>1, HeadTailProperties
<1>3. \A i \in 1 .. Len(r) : r[i] = a[i]
  BY <1>2
<1>4. r = a
  BY <1>2, <1>3, SeqEqual
<1> QED
  BY <1>1, <1>2, <1>4

\* A function on 1 .. n is a sequence of length n.
LEMMA SeqOf ==
  ASSUME NEW S, NEW n \in Nat, NEW s \in [1 .. n -> S]
  PROVE  s \in Seq(S) /\ Len(s) = n
<1>1. s \in Seq(S)
  BY SeqDef
<1>2. PICK k \in Nat : k = Len(s) /\ DOMAIN s = 1 .. k
  BY <1>1, LenProperties
<1>3. 1 .. k = 1 .. n
  BY <1>2
<1>4. (k > 0 => k \in 1 .. k) /\ (n > 0 => n \in 1 .. n)
  BY <1>2
<1>5. k = n
  BY <1>2, <1>3, <1>4
<1> QED
  BY <1>1, <1>2, <1>5

\* The messages of the jobs in a channel, and of the changes in a queue
JobMsgs(c) == [i \in 1 .. c.count |-> JobAt(c, i).msg]

ChangeMsgs(q) == [i \in 1 .. q.size |-> ChangeAt(q, i).msg]

\* The messages of the jobs are a sequence as long as the channel counts.
LEMMA JobMsgsType ==
  ASSUME NEW c \in ChannelType, ChannelShape(c)
  PROVE  JobMsgs(c) \in Seq(0 .. MaxMsgs) /\ Len(JobMsgs(c)) = c.count
<1>1. c.count \in Nat
  BY DEF ChannelType
<1>2. ChannelRing(c)
  BY DEF ChannelRing, ChannelShape
<1>3. \A i \in 1 .. c.count : JobAt(c, i).msg \in 0 .. MaxMsgs
  BY <1>1, <1>2, PlaceType DEF JobType
<1>4. JobMsgs(c) \in [1 .. c.count -> 0 .. MaxMsgs]
  BY <1>3 DEF JobMsgs
<1> QED
  BY <1>1, <1>4, SeqOf

\* So are those of the changes.
LEMMA ChangeMsgsType ==
  ASSUME NEW q \in QueueType, QueueShape(q)
  PROVE  ChangeMsgs(q) \in Seq(0 .. MaxMsgs) /\ Len(ChangeMsgs(q)) = q.size
<1>1. q.size \in Nat
  BY DEF QueueType
<1>2. QueueRing(q)
  BY DEF QueueRing, QueueShape
<1>3. \A i \in 1 .. q.size : ChangeAt(q, i).msg \in 0 .. MaxMsgs
  BY <1>1, <1>2, QPlaceType DEF CommitType
<1>4. ChangeMsgs(q) \in [1 .. q.size -> 0 .. MaxMsgs]
  BY <1>3 DEF ChangeMsgs
<1> QED
  BY <1>1, <1>4, SeqOf

\* send puts a message at the end.
LEMMA SendMsgs ==
  ASSUME NEW c \in ChannelType, ChannelShape(c), c.count < MaxItems,
         NEW j \in JobType
  PROVE  JobMsgs(channel_send(c, j)) = Append(JobMsgs(c), j.msg)
<1>d. PICK d : d = channel_send(c, j)
  OBVIOUS
<1>1. PICK n \in Nat : n = c.count /\ d = channel_send(c, j)
  BY <1>d DEF ChannelType
<1>2. /\ d \in ChannelType /\ ChannelShape(d) /\ d.count = n + 1
      /\ JobAt(d, n + 1) = j
      /\ \A i \in 1 .. n : JobAt(d, i) = JobAt(c, i)
  BY <1>1, SendShape
<1>3. PICK s \in Seq(0 .. MaxMsgs), r \in Seq(0 .. MaxMsgs) :
        s = JobMsgs(c) /\ r = JobMsgs(d) /\ Len(s) = n /\ Len(r) = n + 1
  BY <1>1, <1>2, JobMsgsType
<1>4. \A i \in 1 .. n : i \in 1 .. n + 1 /\ n + 1 \in 1 .. n + 1
  BY <1>1
<1>5. r[n + 1] = j.msg /\ \A i \in 1 .. n : r[i] = s[i]
  BY <1>1, <1>2, <1>3, <1>4 DEF JobMsgs
<1>6. j.msg \in 0 .. MaxMsgs
  BY DEF JobType
<1>7. r = Append(s, j.msg)
  BY <1>3, <1>5, <1>6, IsAppend
<1> QED
  BY <1>1, <1>3, <1>7

\* pop takes the first one.
LEMMA PopMsgs ==
  ASSUME NEW c \in ChannelType, ChannelShape(c), c.count > 0
  PROVE  JobMsgs(c) # <<>> /\ JobMsgs(channel_pop(c)) = Tail(JobMsgs(c))
<1>d. PICK d : d = channel_pop(c)
  OBVIOUS
<1>1. PICK n \in Nat : n = c.count /\ n > 0 /\ d = channel_pop(c)
  BY <1>d DEF ChannelType
<1>2. /\ d \in ChannelType /\ ChannelShape(d) /\ d.count = n - 1
      /\ \A i \in 1 .. n - 1 : JobAt(d, i) = JobAt(c, i + 1)
  BY <1>1, PopShape
<1>3. PICK s \in Seq(0 .. MaxMsgs), r \in Seq(0 .. MaxMsgs) :
        s = JobMsgs(c) /\ r = JobMsgs(d) /\ Len(s) = n /\ Len(r) = n - 1
  BY <1>1, <1>2, JobMsgsType
<1>4. \A i \in 1 .. n - 1 : i + 1 \in 1 .. n
  BY <1>1
<1>5. \A i \in 1 .. n - 1 : r[i] = s[i + 1]
  BY <1>1, <1>2, <1>3, <1>4 DEF JobMsgs
<1>6. s # <<>> /\ r = Tail(s)
  BY <1>1, <1>3, <1>5, IsTail
<1> QED
  BY <1>1, <1>3, <1>6

\* send of a commit queue puts a message at the end.
LEMMA QueueSendMsgs ==
  ASSUME NEW q \in QueueType, QueueShape(q), q.size < MaxCommits,
         NEW x \in CommitType
  PROVE  ChangeMsgs(queue_send(q, x)) = Append(ChangeMsgs(q), x.msg)
<1>1. PICK n, d : n = q.size /\ d = queue_send(q, x)
  OBVIOUS
<1>0. n \in Nat
  BY <1>1 DEF QueueType
<1>2. /\ d \in QueueType /\ QueueShape(d) /\ d.size = n + 1
      /\ ChangeAt(d, n + 1) = x
      /\ \A i \in 1 .. n : ChangeAt(d, i) = ChangeAt(q, i)
  <2>1. /\ d \in QueueType /\ QueueShape(d) /\ d.size = n + 1
        /\ ChangeAt(d, n + 1) = x
        /\ \A i \in 1 .. n : ChangeAt(d, i) = ChangeAt(q, i)
        /\ d.commits = [q.commits EXCEPT ![q.head] = x]
    BY <1>0, <1>1, QueueSendShape
  <2> QED BY <2>1, Zenon
<1>3. PICK s \in Seq(0 .. MaxMsgs), r \in Seq(0 .. MaxMsgs) :
        s = ChangeMsgs(q) /\ r = ChangeMsgs(d) /\ Len(s) = n /\ Len(r) = n + 1
  BY <1>0, <1>1, <1>2, ChangeMsgsType
<1>4. n + 1 \in 1 .. n + 1 /\ \A i \in 1 .. n : i \in 1 .. n + 1
  BY <1>0
<1>5. r[n + 1] = x.msg /\ \A i \in 1 .. n : r[i] = s[i]
  <2>1. \A i \in 1 .. n + 1 : r[i] = ChangeAt(d, i).msg
    BY <1>2, <1>3 DEF ChangeMsgs
  <2>2. \A i \in 1 .. n : s[i] = ChangeAt(q, i).msg
    BY <1>1, <1>3 DEF ChangeMsgs
  <2> QED BY <1>2, <1>4, <2>1, <2>2
<1>6. x.msg \in 0 .. MaxMsgs
  BY DEF CommitType
<1>7. r = Append(s, x.msg)
  BY <1>3, <1>5, <1>6, IsAppend
<1> QED
  BY <1>1, <1>3, <1>7

\* pop of a commit queue takes the first one.
LEMMA QueuePopMsgs ==
  ASSUME NEW q \in QueueType, QueueShape(q), q.size > 0
  PROVE  ChangeMsgs(q) # <<>> /\ ChangeMsgs(queue_pop(q)) = Tail(ChangeMsgs(q))
<1>d. PICK d : d = queue_pop(q)
  OBVIOUS
<1>1. PICK n \in Nat : n = q.size /\ n > 0 /\ d = queue_pop(q)
  BY <1>d DEF QueueType
<1>2. /\ d \in QueueType /\ QueueShape(d) /\ d.size = n - 1
      /\ \A i \in Int : ChangeAt(d, i) = ChangeAt(q, i + 1)
  BY <1>1, QueuePopShape
<1>3. PICK s \in Seq(0 .. MaxMsgs), r \in Seq(0 .. MaxMsgs) :
        s = ChangeMsgs(q) /\ r = ChangeMsgs(d) /\ Len(s) = n /\ Len(r) = n - 1
  BY <1>1, <1>2, ChangeMsgsType
<1>4. \A i \in 1 .. n - 1 : i + 1 \in 1 .. n /\ i \in Int
  BY <1>1
<1>5. ASSUME NEW i \in 1 .. n - 1 PROVE r[i] = s[i + 1]
  <2>1. PICK k \in 1 .. n : k = i + 1 /\ ChangeAt(d, i) = ChangeAt(q, k)
    BY <1>2, <1>4
  <2>2. r[i] = ChangeAt(d, i).msg /\ s[k] = ChangeAt(q, k).msg
    BY <1>1, <1>2, <1>3 DEF ChangeMsgs
  <2> QED BY <2>1, <2>2
<1>6. s # <<>> /\ r = Tail(s)
  BY <1>1, <1>3, <1>5, IsTail
<1> QED
  BY <1>1, <1>3, <1>6

\* The handlers that end with a reply to the job
Handler(w) ==
    \/ process_start(w) \/ process_read(w) \/ process_held(w)
    \/ process_add(w) \/ process_update(w) \/ process_rm(w) \/ process_abort(w)
    \/ process_commit(w) \/ CommitDone(w)

\* Each answers, pops and leaves the queue, or puts one change there.
LEMMA HandlerEnds ==
  ASSUME IInv, NEW w \in Entries, Handler(w)
  PROVE  /\ At(w, "busy")
         /\ \E x, sent, u :
              /\ Done(w, x, sent, u)
              /\ \/ Ends(work[w], u)
                 \/ ~Full(w) /\ \E b : Accepts(work[w], u, b)
<1>1. At(w, "busy")
  BY DEF Handler, process_start, process_read, process_held, process_add,
         process_update, process_rm, process_abort, process_commit, CommitDone,
         Commits, Handles
<1>2. /\ Ends(work[w], ToLoop(w)) /\ Ends(work[w], ToQuit(w))
      /\ Ends(work[w], Shrunk(w))
      /\ \A s \in {"GROWING", "SHRINKING", "ABORTED"} :
           Ends(work[w], [ToLoop(w) EXCEPT !.status = s])
      /\ ToLoop(w).status \in {"GROWING", "SHRINKING", "ABORTED"}
  <2>1. work[w] \in WorkerType
    BY <1>1, BusyJob
  <2> QED BY <2>1, EndsOf, LoopStatus
<1>3. ~Full(w) => \A b \in {NoBuf, work[w].job.buf} :
                    Accepts(work[w], Queued(w, b), b)
  BY <1>1, AcceptsQueued
<1> DEFINE Goal == \E x, sent, u : /\ Done(w, x, sent, u)
                                   /\ \/ Ends(work[w], u)
                                      \/ ~Full(w) /\ \E b : Accepts(work[w], u, b)
<1>4. ASSUME NEW x, NEW sent, NEW u, Done(w, x, sent, u), Ends(work[w], u)
      PROVE  Goal
  BY <1>4
<1>5. ASSUME NEW ack, NEW size, NEW u, DoneWith(w, ack, size, u), Ends(work[w], u)
      PROVE  Goal
  BY <1>4, <1>5 DEF DoneWith
<1>6. ASSUME NEW x, NEW sent, NEW b \in {NoBuf, work[w].job.buf}, ~Full(w),
             Done(w, x, sent, Queued(w, b))
      PROVE  Goal
  BY <1>3, <1>6
<1> HIDE DEF Goal
<1>7. ASSUME NEW size, Keep(w, size) PROVE Goal
  <2>1. CASE Full(w)
    <3>1. \E x, sent : Done(w, x, sent, Shrunk(w))
      BY <1>7, <2>1 DEF Keep
    <3> QED BY <1>2, <1>4, <3>1
  <2>2. CASE ~Full(w)
    <3>1. \E x, sent : Done(w, x, sent, Queued(w, work[w].job.buf))
      BY <1>7, <2>2 DEF Keep
    <3> QED BY <1>6, <2>2, <3>1
  <2> QED BY <2>1, <2>2
<1>8. ASSUME NEW acks, RefusedChange(w, acks) PROVE Goal
  BY <1>2, <1>5, <1>8 DEF RefusedChange
<1>15. SUFFICES Goal
  BY <1>1 DEF Goal
<1>9. CASE process_start(w)
  <2>1. \E x, sent : Done(w, x, sent, ToLoop(w))
    BY <1>9 DEF process_start
  <2> QED BY <1>2, <1>4, <2>1
<1>10. CASE process_read(w)
  <2>1. \/ \E ack : DoneWith(w, ack, AckSize, ToLoop(w))
        \/ \E ack, s : /\ s = IF ack = "ABORTED" THEN "ABORTED" ELSE ToLoop(w).status
                       /\ DoneWith(w, ack, AckSize, [ToLoop(w) EXCEPT !.status = s])
        \/ \E x, sent : Done(w, x, sent, ToLoop(w))
    BY <1>10 DEF process_read, BadPhase
  <2> QED BY <1>2, <1>4, <1>5, <2>1
<1>11. CASE process_held(w)
  <2>1. \/ \E ack, size : DoneWith(w, ack, size, ToLoop(w))
        \/ \E ack, s : /\ s = IF ack = "TIMEOUT" THEN "ABORTED" ELSE ToLoop(w).status
                       /\ DoneWith(w, ack, AckSize, [ToLoop(w) EXCEPT !.status = s])
    BY <1>11 DEF process_held, BadPhase
  <2> QED BY <1>2, <1>5, <2>1
<1>12. CASE process_add(w) \/ process_update(w)
  BY <1>7, <1>8, <1>12 DEF process_add, process_update
<1>13. CASE process_rm(w)
  <2>1. \/ RefusedChange(w, RefusesRow(w))
        \/ \E ack, size : DoneWith(w, ack, size, Shrunk(w))
        \/ ~Full(w) /\ \E x, sent : Done(w, x, sent, Queued(w, NoBuf))
    BY <1>13 DEF process_rm, DoneWith
  <2> QED BY <1>2, <1>5, <1>6, <1>8, <2>1
<1>14. CASE process_abort(w) \/ process_commit(w) \/ CommitDone(w)
  <2>1. \E ack, size : DoneWith(w, ack, size, ToQuit(w))
    BY <1>14 DEF process_abort, process_commit, CommitDone
  <2> QED BY <1>2, <1>5, <2>1
<1> QED
  BY <1>9, <1>10, <1>11, <1>12, <1>13, <1>14 DEF Handler

\* A job is sent to one channel, or taken off one, or none is touched.
LEMMA ChannelSteps ==
  ASSUME IInv, Next
  PROVE  \/ chan' = chan
         \/ \E w \in Entries, j \in JobType :
              /\ j.msg \in 1 .. MaxMsgs /\ chan[w].count < MaxItems
              /\ chan' = [chan EXCEPT ![w] = channel_send(chan[w], j)]
         \/ \E w \in Entries :
              /\ chan[w].count > 0
              /\ chan' = [chan EXCEPT ![w] = channel_pop(chan[w])]
<1>1. CASE Request \/ RecvNothing \/ InsertFull
  BY <1>1 DEF Request, RecvNothing, InsertFull
<1>2. CASE \E d \in Datagrams : RecvBadOp(d) \/ RecvBadTxn(d) \/ RecvStart(d)
                                \/ \E w \in Entries : RecvBusy(d, w)
  BY <1>2 DEF RecvBadOp, RecvBadTxn, RecvStart, RecvBusy, Refused
<1>3. ASSUME NEW d \in Datagrams, NEW w \in Entries, RecvJob(d, w)
      PROVE  \E j \in JobType :
               /\ j.msg \in 1 .. MaxMsgs /\ chan[w].count < MaxItems
               /\ chan' = [chan EXCEPT ![w] = channel_send(chan[w], j)]
  <2>1. mgr.pc = "recv" /\ msgs < MaxMsgs
    BY <1>3 DEF RecvJob, Receive
  <2>2. PICK j \in JobType : j = Message(d) /\ j.msg \in 1 .. MaxMsgs
    BY <2>1, ReceivedBytes
  <2>3. chan' = [chan EXCEPT ![w] = channel_send(chan[w], j)]
    BY <1>3, <2>2 DEF RecvJob
  <2>4. chan[w].count < MaxItems
    <3>1. chan[w].count \in Int /\ MaxItems \in Int
      BY JobFlowAssumption DEF IInv, TypeOK, ChannelType
    <3> QED BY <1>3, <3>1 DEF RecvJob, channel_full
  <2> QED BY <2>2, <2>3, <2>4
<1>4. ASSUME NEW w \in Entries, Insert(w)
      PROVE  \E j \in JobType :
               /\ j.msg \in 1 .. MaxMsgs /\ chan[w].count < MaxItems
               /\ chan' = [chan EXCEPT ![w] = channel_send(chan[w], j)]
  <2>1. PICK j \in JobType : j = mgr.job /\ j.msg \in 1 .. MaxMsgs
    BY <1>4 DEF Insert, IInv, TypeOK, ManagerType, ManagerPhases
  <2>2. chan' = [chan EXCEPT ![w] = channel_send(chan[w], j)]
    BY <1>4, <2>1 DEF Insert
  <2>3. chan[w].count = 0
    BY <1>4 DEF Insert, IInv, EntryOK, WorkerPhases
  <2>4. chan[w].count < MaxItems
    BY <2>3, JobFlowAssumption
  <2> QED BY <2>1, <2>2, <2>4
<1>5. ASSUME NEW w \in Entries, Drain(w)
      PROVE  /\ chan[w].count > 0
             /\ chan' = [chan EXCEPT ![w] = channel_pop(chan[w])]
  BY <1>5 DEF Drain
<1>6. CASE \E w \in Entries : Join(w)
  BY <1>6 DEF Join
<1>7. ASSUME NEW w \in Entries, Handler(w)
      PROVE  /\ chan[w].count > 0
             /\ chan' = [chan EXCEPT ![w] = channel_pop(chan[w])]
  <2>1. At(w, "busy") /\ \E x, sent, u : Done(w, x, sent, u)
    BY <1>7, HandlerEnds
  <2>2. chan[w].count > 0
    BY <2>1, BusyJob
  <2> QED BY <2>1, <2>2 DEF Done
<1>8. CASE \E w \in Entries : Loop(w) \/ RecvTimeout(w) \/ Take(w) \/ Quit(w)
                              \/ CommitNext(w) \/ Hang(w)
  BY <1>8 DEF Loop, RecvTimeout, Take, Quit, CommitNext, Hang
<1>9. CASE Manager
  BY <1>1, <1>2, <1>3, <1>4, <1>5, <1>6, <1>9 DEF Manager, Receives, Reaps
<1>10. ASSUME NEW w \in Entries, Work(w)
       PROVE  \/ Handler(w) \/ Loop(w) \/ RecvTimeout(w) \/ Take(w) \/ Quit(w)
              \/ CommitNext(w)
  BY <1>10 DEF Work, Steps, Handler
<1> QED
  BY <1>7, <1>8, <1>9, <1>10 DEF Next

\* A job channel is a bounded FIFO through all its owners: no job is lost,
\* doubled or overtaken, however often the ring goes round and although an
\* entry's next worker takes it over in the middle.
THEOREM JobsFifoTheorem == Spec => JobsFifo
<1> DEFINE View == [w \in Entries |-> MsgsOf(QueuedJobs(w))]
<1>1. View = [w \in Entries |-> JobMsgs(chan[w])]
  BY DEF MsgsOf, QueuedJobs, JobMsgs
<1>2. View' = [w \in Entries |-> JobMsgs(chan'[w])]
  BY DEF MsgsOf, QueuedJobs, JobMsgs
<1>3. Init => JobQueues!Init
  <2> SUFFICES ASSUME Init PROVE View = [w \in Entries |-> <<>>]
    BY DEF JobQueues!Init
  <2>1. \A w \in Entries : chan[w] = NewChannel
    BY DEF Init
  <2>2. JobMsgs(NewChannel) = <<>>
    BY NewWorkers DEF JobMsgs
  <2> QED BY <1>1, <2>1, <2>2
<1>4. ASSUME IInv, [Next]_vars
      PROVE  \/ \E w \in Entries : JobQueues!Send(w) \/ JobQueues!Pop(w)
             \/ View' = View
  <2>1. chan \in [Entries -> ChannelType]
        /\ \A w \in Entries : ChannelShape(chan[w])
    BY <1>4 DEF IInv, TypeOK, EntryOK
  <2>2. ASSUME chan' = chan PROVE View' = View
    BY <1>1, <1>2, <2>2
  <2>3. ASSUME NEW w \in Entries, NEW c, chan' = [chan EXCEPT ![w] = c]
        PROVE  View' = [View EXCEPT ![w] = JobMsgs(c)]
    BY <1>1, <1>2, <2>1, <2>3
  <2>4. ASSUME NEW w \in Entries, NEW j \in JobType, j.msg \in 1 .. MaxMsgs,
               chan[w].count < MaxItems,
               chan' = [chan EXCEPT ![w] = channel_send(chan[w], j)]
        PROVE  JobQueues!Send(w)
    <3>1. View[w] = JobMsgs(chan[w]) /\ Len(JobMsgs(chan[w])) = chan[w].count
      BY <1>1, <2>1, JobMsgsType
    <3>2. JobMsgs(channel_send(chan[w], j)) = Append(View[w], j.msg)
      BY <2>1, <2>4, <3>1, SendMsgs
    <3>3. View' = [View EXCEPT ![w] = Append(View[w], j.msg)]
      BY <2>3, <2>4, <3>2
    <3>4. Len(View[w]) < MaxItems
      BY <2>4, <3>1
    <3>5. \E x \in 1 .. MaxMsgs : View' = [View EXCEPT ![w] = Append(View[w], x)]
      BY <2>4, <3>3
    <3> QED BY <3>4, <3>5 DEF JobQueues!Send
  <2>5. ASSUME NEW w \in Entries, chan[w].count > 0,
               chan' = [chan EXCEPT ![w] = channel_pop(chan[w])]
        PROVE  JobQueues!Pop(w)
    <3>1. View[w] = JobMsgs(chan[w])
      BY <1>1
    <3>2. JobMsgs(channel_pop(chan[w])) = Tail(View[w]) /\ View[w] # <<>>
      BY <2>1, <2>5, <3>1, PopMsgs
    <3>3. View' = [View EXCEPT ![w] = Tail(View[w])]
      BY <2>3, <2>5, <3>2
    <3> QED BY <3>2, <3>3 DEF JobQueues!Pop
  <2>6. CASE Next
    <3> HIDE DEF View
    <3> QED BY <1>4, <2>2, <2>4, <2>5, <2>6, ChannelSteps
  <2>7. CASE UNCHANGED vars
    BY <2>2, <2>7 DEF vars
  <2> QED BY <1>4, <2>6, <2>7
<1>5. IInv /\ [Next]_vars =>
        [\E q \in Entries : JobQueues!Send(q)
           \/ JobQueues!Pop(q)]_[w \in Entries |-> MsgsOf(QueuedJobs(w))]
  BY <1>4
<1> QED
  BY <1>3, <1>5, FlowInvariant, PTL DEF Spec, JobsFifo, JobQueues!Spec

\* What may happen to a commit queue
QueueMove(q, r) ==
    \/ r = q
    \/ \E x \in CommitType : /\ x.msg \in 1 .. MaxMsgs /\ q.size < MaxCommits
                             /\ r = queue_send(q, x)
    \/ q.size > 0 /\ r = queue_pop(q)
    \/ r = NewQueue

\* At most one worker is changed at a time, and its queue only this way.
LEMMA QueueSteps ==
  ASSUME IInv, Next
  PROVE  \/ work' = work
         \/ \E w \in Entries : \E u :
              work' = [work EXCEPT ![w] = u] /\ QueueMove(work[w].queue, u.queue)
<1>1. CASE Request \/ RecvNothing \/ InsertFull \/ \E w \in Entries : Drain(w)
  BY <1>1 DEF Request, RecvNothing, InsertFull, Drain
<1>2. CASE \E d \in Datagrams : RecvBadOp(d) \/ RecvBadTxn(d) \/ RecvStart(d)
                                \/ \E w \in Entries : RecvBusy(d, w)
  BY <1>2 DEF RecvBadOp, RecvBadTxn, RecvStart, RecvBusy, Refused
<1>0. \A w \in Entries : work[w] \in WorkerType
  BY DEF IInv, TypeOK
<1>3. ASSUME NEW d \in Datagrams, NEW w \in Entries, RecvJob(d, w)
      PROVE  \E u : work' = [work EXCEPT ![w] = u]
                    /\ QueueMove(work[w].queue, u.queue)
  <2>1. PICK u : u = [work[w] EXCEPT !.running = work[w].running /\ d.op # "ABORT_TXN"]
    OBVIOUS
  <2>2. work' = [work EXCEPT ![w].running = work[w].running /\ d.op # "ABORT_TXN"]
    BY <1>3 DEF RecvJob
  <2>3. work' = [work EXCEPT ![w] = u]
    BY <2>1, <2>2
  <2>4. u.queue = work[w].queue
    BY <1>0, <2>1 DEF WorkerType
  <2> QED BY <2>3, <2>4 DEF QueueMove
<1>4. ASSUME NEW w \in Entries, NEW u, u.queue = NewQueue,
             work' = [work EXCEPT ![w] = u]
      PROVE  \E x : work' = [work EXCEPT ![w] = x]
                    /\ QueueMove(work[w].queue, x.queue)
  BY <1>4 DEF QueueMove
<1>5. ASSUME NEW w \in Entries, Join(w) \/ Insert(w) \/ Quit(w)
      PROVE  \E u : work' = [work EXCEPT ![w] = u]
                    /\ QueueMove(work[w].queue, u.queue)
  <2>1. \E u : u.queue = NewQueue /\ work' = [work EXCEPT ![w] = u]
    BY <1>5, FreshWorkers DEF Join, Insert, Quit
  <2> QED BY <1>4, <2>1
<1>6. ASSUME NEW w \in Entries, NEW u, u.queue = work[w].queue,
             work' = [work EXCEPT ![w] = u]
      PROVE  \E x : work' = [work EXCEPT ![w] = x]
                    /\ QueueMove(work[w].queue, x.queue)
  BY <1>6 DEF QueueMove
<1>7. ASSUME NEW w \in Entries, Loop(w)
      PROVE  \E u : work' = [work EXCEPT ![w] = u]
                    /\ QueueMove(work[w].queue, u.queue)
  <2>1. PICK pc, u : /\ pc = IF work[w].running THEN "recv" ELSE "quit"
                     /\ u = [work[w] EXCEPT !.pc = pc, !.job = NullJob]
    OBVIOUS
  <2>2. work' = [work EXCEPT ![w] = u]
    BY <1>7, <2>1 DEF Loop
  <2>3. u.queue = work[w].queue
    BY <1>0, <2>1 DEF WorkerType
  <2> QED BY <1>6, <2>2, <2>3
<1>8. ASSUME NEW w \in Entries, RecvTimeout(w)
      PROVE  \E u : work' = [work EXCEPT ![w] = u]
                    /\ QueueMove(work[w].queue, u.queue)
  <2>1. PICK u : u = [work[w] EXCEPT !.pc = "loop"]
    OBVIOUS
  <2>2. work' = [work EXCEPT ![w] = u]
    BY <1>8, <2>1 DEF RecvTimeout
  <2>3. u.queue = work[w].queue
    BY <1>0, <2>1 DEF WorkerType
  <2> QED BY <1>6, <2>2, <2>3
<1>9. ASSUME NEW w \in Entries, Take(w)
      PROVE  \E u : work' = [work EXCEPT ![w] = u]
                    /\ QueueMove(work[w].queue, u.queue)
  <2>1. PICK u : u = [work[w] EXCEPT !.pc = "busy", !.job = channel_get(chan[w])]
    OBVIOUS
  <2>2. work' = [work EXCEPT ![w] = u]
    BY <1>9, <2>1 DEF Take
  <2>3. u.queue = work[w].queue
    BY <1>0, <2>1 DEF WorkerType
  <2> QED BY <1>6, <2>2, <2>3
<1>10. ASSUME NEW w \in Entries, CommitNext(w)
       PROVE  \E u : work' = [work EXCEPT ![w] = u]
                     /\ QueueMove(work[w].queue, u.queue)
  <2>1. PICK x, data, e, q, u :
          /\ x = queue_get(work[w].queue)
          /\ data = IF x.op = "DELETE" THEN x.msg ELSE bytes[x.buf].IMAGE
          /\ e = [msg |-> x.msg, data |-> data]
          /\ q = queue_pop(work[w].queue)
          /\ u = [work[w] EXCEPT !.queue = q, !.made = Append(work[w].made, e)]
    OBVIOUS
  <2>2. work' = [work EXCEPT ![w] = u] /\ work[w].queue.size > 0
    BY <1>10, <2>1 DEF CommitNext
  <2>3. u.queue = q
    BY <1>0, <2>1 DEF WorkerType
  <2> QED BY <2>1, <2>2, <2>3 DEF QueueMove
<1>11. ASSUME NEW w \in Entries, Handler(w)
       PROVE  \E u : work' = [work EXCEPT ![w] = u]
                     /\ QueueMove(work[w].queue, u.queue)
  <2>1. PICK x, sent, u :
          /\ Done(w, x, sent, u)
          /\ \/ Ends(work[w], u)
             \/ ~Full(w) /\ \E b : Accepts(work[w], u, b)
    BY <1>11, HandlerEnds
  <2>2. work' = [work EXCEPT ![w] = u]
    BY <2>1 DEF Done
  <2>3. CASE Ends(work[w], u)
    BY <1>6, <2>2, <2>3 DEF Ends
  <2>4. ASSUME NEW b, Accepts(work[w], u, b), ~Full(w)
        PROVE  QueueMove(work[w].queue, u.queue)
    <3>1. PICK y : y = [buf |-> b, msg |-> work[w].job.msg, op |-> work[w].job.op]
      OBVIOUS
    <3>2. u.queue = queue_send(work[w].queue, y)
      BY <2>4, <3>1 DEF Accepts
    <3>3. At(w, "busy")
      BY <1>11, HandlerEnds
    <3>4. PICK j, c : j = work[w].job /\ c = chan[w]
      OBVIOUS
    <3>5. /\ EntryOK(bytes, msgs, work[w], c) /\ j = JobAt(c, 1)
          /\ 1 \in 1 .. c.count /\ j \in JobType
      BY <3>3, <3>4, BusyJob
    <3>6. j.msg \in 1 .. MaxMsgs
      <4>1. j.msg \in 1 .. msgs
        BY <3>5 DEF EntryOK, MsgsOrdered
      <4> QED BY <4>1, JobFlowAssumption DEF IInv, TypeOK
    <3>7. work[w].queue.size < MaxCommits
      <4>1. work[w].queue.size \in Int /\ MaxCommits \in Int
        BY <1>0, JobFlowAssumption DEF WorkerType, QueueType
      <4> QED BY <2>4, <4>1 DEF Full, queue_full
    <3>8. y.buf = b /\ y.msg = j.msg /\ y.op = j.op
      BY <3>1, <3>4
    <3>9. y \in CommitType
      <4>1. b \in Bufs \cup {NoBuf}
        <5>1. u.queue \in QueueType
          BY <2>4 DEF Accepts, WorkerType
        <5>2. PICK q : q = work[w].queue /\ q \in QueueType
          BY <1>0 DEF WorkerType
        <5>3. u.queue.commits = [q.commits EXCEPT ![q.head] = y]
          BY <3>2, <5>2 DEF queue_send, QueueType
        <5>4. u.queue.commits[q.head] = y /\ q.head \in 0 .. MaxCommits - 1
          BY <5>2, <5>3 DEF QueueType
        <5>5. y \in CommitType
          BY <5>1, <5>4 DEF QueueType
        <5> QED BY <3>8, <5>5 DEF CommitType
      <4> QED BY <3>1, <3>4, <3>5, <4>1 DEF CommitType, JobType
    <3> QED BY <3>2, <3>6, <3>7, <3>8, <3>9 DEF QueueMove
  <2> QED BY <2>1, <2>2, <2>3, <2>4
<1>12. CASE Manager
  BY <1>1, <1>2, <1>3, <1>5, <1>12 DEF Manager, Receives, Reaps
<1>13. ASSUME NEW w \in Entries, Work(w)
       PROVE  \/ Handler(w) \/ Loop(w) \/ RecvTimeout(w) \/ Take(w) \/ Quit(w)
              \/ CommitNext(w)
  BY <1>13 DEF Work, Steps, Handler
<1>14. ASSUME NEW w \in Entries, Hang(w)
       PROVE  \E u : work' = [work EXCEPT ![w] = u]
                     /\ QueueMove(work[w].queue, u.queue)
  <2>1. PICK u : u = [work[w] EXCEPT !.stuck = TRUE]
    OBVIOUS
  <2>2. work' = [work EXCEPT ![w] = u]
    BY <1>14, <2>1 DEF Hang
  <2>3. u.queue = work[w].queue
    BY <1>0, <2>1 DEF WorkerType
  <2> QED BY <1>6, <2>2, <2>3
<1> QED
  BY <1>5, <1>7, <1>8, <1>9, <1>10, <1>11, <1>12, <1>13, <1>14 DEF Next

\* A commit queue is a bounded FIFO that its worker empties at its end: no
\* accepted change is lost, doubled or overtaken before that.
THEOREM ChangesFifoTheorem == Spec => ChangesFifo
<1> DEFINE View == [w \in Entries |-> MsgsOf(QueuedChanges(w))]
<1>1. View = [w \in Entries |-> ChangeMsgs(work[w].queue)]
  BY DEF MsgsOf, QueuedChanges, ChangeMsgs
<1>2. View' = [w \in Entries |-> ChangeMsgs(work'[w].queue)]
  BY DEF MsgsOf, QueuedChanges, ChangeMsgs
<1>0. ChangeMsgs(NewQueue) = <<>>
  BY NewWorkers DEF ChangeMsgs
<1>3. Init => ChangeQueues!Init
  <2> SUFFICES ASSUME Init PROVE View = [w \in Entries |-> <<>>]
    BY DEF ChangeQueues!Init
  <2>1. \A w \in Entries : work[w].queue = NewQueue
    BY FreshWorkers DEF Init
  <2> QED BY <1>0, <1>1, <2>1
<1>4. ASSUME IInv, [Next]_vars
      PROVE  \/ \E w \in Entries : \/ ChangeQueues!Send(w) \/ ChangeQueues!Pop(w)
                                   \/ ChangeQueues!Clear(w)
             \/ View' = View
  <2>1. /\ work \in [Entries -> WorkerType]
        /\ \A w \in Entries : work[w].queue \in QueueType /\ QueueShape(work[w].queue)
    BY <1>4 DEF IInv, TypeOK, EntryOK, WorkerType
  <2>2. ASSUME work' = work PROVE View' = View
    BY <1>1, <1>2, <2>2
  <2>3. ASSUME NEW w \in Entries, NEW u, work' = [work EXCEPT ![w] = u],
               NEW q, q = ChangeMsgs(u.queue)
        PROVE  View' = [View EXCEPT ![w] = q]
    BY <1>1, <1>2, <2>1, <2>3
  <2>4. ASSUME NEW w \in Entries, NEW u, work' = [work EXCEPT ![w] = u],
               QueueMove(work[w].queue, u.queue)
        PROVE  \/ ChangeQueues!Send(w) \/ ChangeQueues!Pop(w)
               \/ ChangeQueues!Clear(w) \/ View' = View
    <3>0. PICK r : r = u.queue
      OBVIOUS
    <3>1. PICK q \in QueueType :
            q = work[w].queue /\ r = u.queue /\ QueueShape(q)
      BY <2>1, <3>0
    <3>2. /\ View[w] = ChangeMsgs(q) /\ Len(ChangeMsgs(q)) = q.size
          /\ View' = [View EXCEPT ![w] = ChangeMsgs(r)]
      BY <1>1, <2>3, <2>4, <3>1, ChangeMsgsType
    <3>3. CASE r = q
      BY <3>2, <3>3
    <3>4. ASSUME NEW x \in CommitType, x.msg \in 1 .. MaxMsgs,
                 q.size < MaxCommits, r = queue_send(q, x)
          PROVE  ChangeQueues!Send(w)
      <4>1. ChangeMsgs(r) = Append(View[w], x.msg)
        BY <3>1, <3>2, <3>4, QueueSendMsgs
      <4>2. Len(View[w]) < MaxCommits
        BY <3>2, <3>4
      <4>3. \E m \in 1 .. MaxMsgs : View' = [View EXCEPT ![w] = Append(View[w], m)]
        BY <3>2, <3>4, <4>1
      <4> QED BY <4>2, <4>3 DEF ChangeQueues!Send
    <3>5. CASE q.size > 0 /\ r = queue_pop(q)
      <4>1. ChangeMsgs(r) = Tail(View[w]) /\ View[w] # <<>>
        BY <3>1, <3>2, <3>5, QueuePopMsgs
      <4>2. View' = [View EXCEPT ![w] = Tail(View[w])]
        BY <3>2, <4>1
      <4> QED BY <4>1, <4>2 DEF ChangeQueues!Pop
    <3>6. CASE r = NewQueue
      <4>1. View' = [View EXCEPT ![w] = <<>>]
        BY <1>0, <3>2, <3>6
      <4> QED BY <4>1 DEF ChangeQueues!Clear
    <3> HIDE DEF View
    <3> QED BY <2>4, <3>1, <3>3, <3>4, <3>5, <3>6 DEF QueueMove
  <2>5. CASE Next
    <3> HIDE DEF View
    <3> QED BY <1>4, <2>2, <2>4, <2>5, QueueSteps
  <2>6. CASE UNCHANGED vars
    BY <2>2, <2>6 DEF vars
  <2> QED BY <1>4, <2>5, <2>6
<1>5. IInv /\ [Next]_vars =>
        [\E q \in Entries : ChangeQueues!Send(q) \/ ChangeQueues!Pop(q)
           \/ ChangeQueues!Clear(q)]_[w \in Entries |-> MsgsOf(QueuedChanges(w))]
  BY <1>4
<1> QED
  BY <1>3, <1>5, FlowInvariant, PTL
     DEF Spec, ChangesFifo, ChangeQueues!ClearingSpec
=============================================================================
