---------------------------- MODULE ServerProofs ----------------------------
(***************************************************************************)
(* Proofs about Server, for every number of entries, of jobs per channel,  *)
(* of transactions and of messages.  What depends on the return channel    *)
(* holds of the behaviours in which it does not overflow.                  *)
(***************************************************************************)
EXTENDS Server, Probing, FiniteSetTheorems

-----------------------------------------------------------------------------
(* Probing *)

\* The distance of an entry from the place an id hashes to is natural.
LEMMA AwayType ==
  ASSUME NEW t \in Nat, NEW e \in Entries
  PROVE  Away(t, e) \in Nat
<1>1. e - t \in Int /\ MaxTxns \in Nat \ {0}
  BY ServerAssumption DEF Entries
<1>2. (e - t) % MaxTxns \in 0 .. MaxTxns - 1
  BY <1>1, ModRange
<1> QED
  BY <1>1, <1>2 DEF Away

\* Entries at the same distance are the same.
LEMMA AwayInjective ==
  ASSUME NEW t \in Nat, NEW e \in Entries, NEW f \in Entries,
         Away(t, e) = Away(t, f)
  PROVE  e = f
<1>1. /\ e - t \in Int /\ f - t \in Int /\ MaxTxns \in Nat \ {0}
      /\ (e - t) - (f - t) < MaxTxns /\ (f - t) - (e - t) < MaxTxns
  BY ServerAssumption DEF Entries
<1>2. e - t = f - t
  BY <1>1, ModInjective DEF Away
<1> QED
  BY <1>2, ServerAssumption DEF Entries

\* Closest returns an entry of the set, and none of the set comes before it.
LEMMA ClosestIsLeast ==
  ASSUME NEW t \in Nat, NEW S \in SUBSET Entries, S # {}
  PROVE  /\ Closest(t, S) \in S
         /\ \A f \in S : Away(t, Closest(t, S)) <= Away(t, f)
<1>1. PICK r : r = [e \in Entries |-> Away(t, e)]
  OBVIOUS
<1>2. \A e \in S : r[e] = Away(t, e) /\ r[e] \in Nat
  BY <1>1, AwayType
<1>3. \E e \in S : \A f \in S : r[e] <= r[f]
  BY <1>2, LeastExists
<1>4. \E e \in S : \A f \in S : Away(t, e) <= Away(t, f)
  BY <1>2, <1>3
<1> QED
  BY <1>4 DEF Closest

-----------------------------------------------------------------------------
(* Facts about single states *)

\* Ids are natural numbers.
LEMMA TxnType ==
  ASSUME TypeOK, NEW e \in Entries
  PROVE  workers[e].txn \in Nat /\ workers[e].txn \in TxnIds
BY ServerAssumption DEF TypeOK, Context, TxnIds

\* A probe that stops at the entries of an id, and at ones never used if it
\* should, stops at the busy entry of the id when there is one.
LEMMA ProbeFinds ==
  ASSUME IInv, NEW e \in Entries, Busy(e), NEW S \in SUBSET Entries, e \in S,
         S \subseteq {f \in Entries : ~workers[f].used} \cup Matches(workers[e].txn)
  PROVE  Closest(workers[e].txn, S) = e
<1>1. PICK t \in Nat : t = workers[e].txn
  BY TxnType DEF IInv
<1>2. PICK n \in S : n = Closest(t, S) /\ Away(t, n) <= Away(t, e)
  BY ClosestIsLeast
<1>3. n \in Entries /\ Away(t, n) \in Nat /\ Away(t, e) \in Nat
  BY AwayType
<1>4. CASE Away(t, n) = Away(t, e)
  BY <1>1, <1>2, <1>3, <1>4, AwayInjective
<1>5. CASE Away(t, n) < Away(t, e)
  <2>1. workers[n].used
    BY <1>1, <1>3, <1>5 DEF IInv, ProbePath
  <2>2. Busy(n) /\ workers[n].txn = t
    BY <1>1, <1>2, <2>1 DEF Matches, Busy
  <2>3. n = e
    BY <1>1, <1>3, <2>2 DEF IInv, UniqueTxns
  <2> QED BY <1>1, <1>2, <2>3
<1> QED
  BY <1>2, <1>3, <1>4, <1>5

\* search finds the entry of every transaction there is.
LEMMA SearchFinds ==
  ASSUME IInv, NEW e \in Entries, Busy(e)
  PROVE  search(workers[e].txn) = e
<1> DEFINE t == workers[e].txn
           stops == {f \in Entries : ~workers[f].used} \cup Matches(t)
<1>1. stops \in SUBSET Entries /\ e \in stops
  BY DEF Matches, Busy
<1>2. Closest(t, stops) = e
  BY <1>1, ProbeFinds
<1> QED
  BY <1>1, <1>2 DEF search, Busy

\* What search finds is the entry of a running transaction with that id.
LEMMA SearchSound ==
  ASSUME IInv, NEW t \in TxnIds, search(t) # NotFound
  PROVE  /\ search(t) \in Entries /\ Busy(search(t))
         /\ workers[search(t)].txn = t
<1> DEFINE stops == {f \in Entries : ~workers[f].used} \cup Matches(t)
<1>1. stops \in SUBSET Entries /\ t \in Nat
  BY ServerAssumption DEF Matches, TxnIds
<1>2. stops # {} /\ search(t) = Closest(t, stops) /\ workers[search(t)].used
  BY DEF search
<1>3. search(t) \in stops
  BY <1>1, <1>2, ClosestIsLeast
<1> QED
  BY <1>1, <1>2, <1>3 DEF Matches, Busy

\* The entries, and any set of them, are finite.
LEMMA EntriesFinite ==
  ASSUME NEW S \in SUBSET Entries
  PROVE  /\ IsFiniteSet(S) /\ Cardinality(S) \in 0 .. MaxTxns
         /\ Cardinality(S) = MaxTxns => S = Entries
<1>1. IsFiniteSet(Entries) /\ Cardinality(Entries) = MaxTxns
  BY FS_Interval, ServerAssumption DEF Entries
<1>2. /\ IsFiniteSet(S) /\ Cardinality(S) <= MaxTxns
      /\ Cardinality(S) = Cardinality(Entries) => S = Entries
  BY <1>1, FS_Subset
<1> QED
  BY <1>1, <1>2, FS_CardinalityType, ServerAssumption

\* Queued is the set of the messages of the jobs in a channel.
LEMMA QueuedIs ==
  ASSUME TypeOK, NEW e \in Entries
  PROVE  /\ DOMAIN workers[e].jobs = 1 .. Len(workers[e].jobs)
         /\ Len(workers[e].jobs) \in Nat
         /\ workers[e].jobs \in Seq(Job)
         /\ \A m : m \in Queued(e) <=>
              \E i \in 1 .. Len(workers[e].jobs) : workers[e].jobs[i].msg = m
<1>1. workers[e].jobs \in Seq(Job)
  BY DEF TypeOK, Context
<1>2. DOMAIN workers[e].jobs = 1 .. Len(workers[e].jobs)
      /\ Len(workers[e].jobs) \in Nat
  BY <1>1
<1> QED
  BY <1>1, <1>2 DEF Queued

-----------------------------------------------------------------------------
(* Steps that leave parts of the state alone *)

\* The contexts in the table keep their ids and flags, threads go on.
SameTable ==
    \A e \in Entries : /\ workers'[e].txn = workers[e].txn
                       /\ workers'[e].used = workers[e].used
                       /\ workers'[e].deleted = workers[e].deleted
                       /\ workers'[e].pc = "none" <=> workers[e].pc = "none"

SameJobs == \A e \in Entries : workers'[e].jobs = workers[e].jobs

\* No worker begins to answer a second time.
AgainKept ==
    \A e \in Entries : workers'[e].pc = "again" =>
        workers[e].pc = "again" /\ workers'[e].job = workers[e].job

\* Such a step keeps what is known of the table, ...
LEMMA TableKept ==
  ASSUME EntriesCounted, UniqueTxns, ProbePath, SameTable, size' = size
  PROVE  /\ EntriesCounted' /\ UniqueTxns' /\ ProbePath'
         /\ \A e \in Entries : Busy(e)' <=> Busy(e)
<1>1. \A e \in Entries : Busy(e)' <=> Busy(e)
  BY DEF SameTable, Busy
<1>2. {e \in Entries : Busy(e)}' = {e \in Entries : Busy(e)}
  BY <1>1
<1>3. EntriesCounted'
  BY <1>1, <1>2 DEF EntriesCounted, SameTable
<1>4. UniqueTxns'
  BY <1>1 DEF UniqueTxns, SameTable
<1>5. ProbePath'
  BY <1>1 DEF ProbePath, SameTable, Away
<1> QED
  BY <1>1, <1>3, <1>4, <1>5

\* ... and of the ids that are issued, when no transaction is started.
LEMMA TableFrame ==
  ASSUME EntriesCounted, TxnsIssued, UniqueTxns, ProbePath,
         SameTable, size' = size, next_txn' = next_txn,
         At("first") => At("first")' /\ mgr'.entry = mgr.entry
  PROVE  /\ EntriesCounted' /\ TxnsIssued' /\ UniqueTxns' /\ ProbePath'
         /\ \A e \in Entries : Busy(e)' <=> Busy(e)
<1>1. /\ EntriesCounted' /\ UniqueTxns' /\ ProbePath'
      /\ \A e \in Entries : Busy(e)' <=> Busy(e)
  BY TableKept
<1>2. TxnsIssued'
  BY <1>1 DEF TxnsIssued, SameTable, At
<1> QED
  BY <1>1, <1>2

\* A step in which no message begins to wait, and only messages that wait are
\* answered, keeps what is known of those that are about to be answered again.
LEMMA AgainFrame ==
  ASSUME AgainOnce, AgainKept, DOMAIN answers \subseteq DOMAIN answers',
         \A m \in DOMAIN answers : Waiting(m)' => Waiting(m),
         \A m \in DOMAIN answers : ~Waiting(m) => answers'[m] = answers[m]
  PROVE  AgainOnce'
<1>1. ASSUME NEW e \in Entries, workers'[e].pc = "again"
      PROVE  /\ workers'[e].job.msg \in DOMAIN answers'
             /\ ~Waiting(workers[e].job.msg)'
             /\ answers'[workers'[e].job.msg] <= 1
  <2>1. PICK x : x = workers[e].job.msg
    OBVIOUS
  <2>2. /\ workers'[e].job.msg = x /\ x \in DOMAIN answers
        /\ ~Waiting(x) /\ answers[x] <= 1
    BY <1>1, <2>1 DEF AgainOnce, AgainKept
  <2>3. ~Waiting(x)' /\ answers'[x] = answers[x] /\ x \in DOMAIN answers'
    BY <2>2
  <2>4. Waiting(workers[e].job.msg)' <=> Waiting(x)'
    BY <2>2 DEF Waiting
  <2> QED BY <2>2, <2>3, <2>4
<1>2. \A e, f \in Entries :
        /\ workers'[e].pc = "again" /\ workers'[f].pc = "again"
        /\ workers'[e].job.msg = workers'[f].job.msg
        => e = f
  BY DEF AgainOnce, AgainKept
<1> QED
  BY <1>1, <1>2 DEF AgainOnce

\* A step that touches no channel and answers nothing keeps what is known of
\* the messages.
LEMMA MessagesFrame ==
  ASSUME IInv, SameJobs, AgainKept, answers' = answers, twice' = twice,
         dropped' = dropped,
         Starting' <=> Starting, Starting => mgr'.msg = mgr.msg,
         sock' = "open" => sock = "open"
  PROVE  WaitsOnce' /\ AgainOnce' /\ AtMostTwice' /\ AnsweredOrWaits'
<1>0. WaitsOnce /\ AgainOnce /\ AtMostTwice /\ AnsweredOrWaits
  BY DEF IInv
<1>1. \A e \in Entries : Queued(e)' = Queued(e)
  BY DEF SameJobs, Queued
<1>2. \A m : Waiting(m)' <=> Waiting(m)
  BY <1>1 DEF Waiting
<1>3. WaitsOnce'
  <2>1. /\ \A e, f \in Entries :
             \A i \in DOMAIN workers'[e].jobs, j \in DOMAIN workers'[f].jobs :
               workers'[e].jobs[i].msg = workers'[f].jobs[j].msg
                 => e = f /\ i = j
    BY <1>0 DEF WaitsOnce, SameJobs
  <2>2. \A e \in Entries : \A i \in DOMAIN workers'[e].jobs :
             /\ workers'[e].jobs[i].msg \in DOMAIN answers'
             /\ Starting' => workers'[e].jobs[i].msg # mgr'.msg
    BY <1>0 DEF WaitsOnce, SameJobs
  <2>3. \A m \in DOMAIN answers' : Waiting(m)' => answers'[m] = 0
    BY <1>0, <1>2 DEF WaitsOnce
  <2> QED BY <2>1, <2>2, <2>3 DEF WaitsOnce
<1>4. AtMostTwice'
  BY <1>0 DEF AtMostTwice
<1>5. AnsweredOrWaits'
  BY <1>0, <1>2 DEF AnsweredOrWaits
<1>6. AgainOnce'
  BY <1>0, <1>2, AgainFrame
<1> QED
  BY <1>3, <1>4, <1>5, <1>6

\* A step that moves threads only: no entry, channel or answer changes.
LEMMA QuietStep ==
  ASSUME IInv, TypeOK', SameTable, SameJobs, AgainKept,
         \A e \in Entries : workers'[e].pc = "busy" =>
            \/ workers[e].pc = "busy" /\ workers'[e].job = workers[e].job
            \/ /\ workers[e].jobs # <<>>
               /\ workers'[e].job = Head(workers[e].jobs),
         size' = size, next_txn' = next_txn, answers' = answers,
         twice' = twice, dropped' = dropped,
         sock' = "open" => sock = "open",
         Starting' <=> Starting, Starting => mgr'.msg = mgr.msg,
         At("first") => mgr' = mgr,
         At("first")' => At("first"),
         At("remove")' => ret_ch'.count > 0
  PROVE  IInv'
<1>0. /\ EntriesCounted /\ TxnsIssued /\ UniqueTxns /\ ProbePath
      /\ ManagerKnows /\ JobInChannel /\ JobsOfOwnTxn
  BY DEF IInv
<1>1. /\ EntriesCounted' /\ TxnsIssued' /\ UniqueTxns' /\ ProbePath'
      /\ \A e \in Entries : Busy(e)' <=> Busy(e)
  BY <1>0, TableFrame DEF At
<1>2. WaitsOnce' /\ AgainOnce' /\ AtMostTwice' /\ AnsweredOrWaits'
  BY MessagesFrame
<1>3. JobInChannel'
  BY <1>0 DEF JobInChannel, SameJobs
<1>4. JobsOfOwnTxn'
  BY <1>0, <1>1 DEF JobsOfOwnTxn, SameJobs, SameTable
<1>5. ManagerKnows'
  <2>1. Starting' => next_txn' <= MaxTxnId /\ mgr'.msg \in DOMAIN answers'
    BY <1>0 DEF ManagerKnows
  <2>2. At("first")' => /\ Busy(mgr.entry)' /\ mgr' = mgr
                        /\ workers'[mgr.entry].txn = next_txn'
                        /\ workers'[mgr.entry].jobs = <<>>
    <3>1. mgr.entry \in Entries
      BY DEF IInv, TypeOK, ManagerState
    <3> QED BY <1>0, <1>1, <3>1 DEF ManagerKnows, SameTable, SameJobs
  <2> QED BY <2>1, <2>2 DEF ManagerKnows, Busy
<1> QED
  BY <1>1, <1>2, <1>3, <1>4, <1>5 DEF IInv

-----------------------------------------------------------------------------
(* Steps of the manager and of main that touch no channel *)

\* The manager at the head of its loop is in a state of its type.
LEMMA IdleType == Idle \in ManagerState
BY ServerAssumption DEF Idle, ManagerState, TxnIds, Entries

\* A step of the manager that only moves on, or goes back to its loop.
LEMMA ManagerMoves ==
  ASSUME IInv, NEW pc \in {"loop", "recv", "reap", "remove", "insert", "close",
                           "clear", "done"},
         mgr' = [mgr EXCEPT !.pc = pc] \/ (mgr' = Idle /\ pc = "loop"),
         ~At("first"),
         Starting <=> pc \in {"reap", "remove", "insert"},
         pc = "remove" => ret_ch'.count > 0,
         sock' \in {"open", "shut", "closed"}, sock' = "open" => sock = "open",
         UNCHANGED <<workers, size, ret_ch, next_txn, answers, twice, dropped>>
  PROVE  IInv'
<1>1. TypeOK
  BY DEF IInv
<1>2. /\ mgr'.pc = pc
      /\ Starting => mgr'.msg = mgr.msg
      /\ mgr' \in ManagerState
  <2>1. CASE mgr' = [mgr EXCEPT !.pc = pc]
    BY <1>1, <2>1 DEF TypeOK, ManagerState
  <2>2. CASE mgr' = Idle /\ pc = "loop"
    BY <2>2, IdleType DEF Idle
  <2> QED BY <2>1, <2>2
<1>3. TypeOK'
  BY <1>1, <1>2 DEF TypeOK
<1>4. SameTable /\ SameJobs /\ AgainKept
  BY DEF SameTable, SameJobs, AgainKept
<1>5. \A e \in Entries : workers'[e].pc = "busy" =>
         workers[e].pc = "busy" /\ workers'[e].job = workers[e].job
  OBVIOUS
<1>6. /\ Starting' <=> Starting
      /\ ~At("first")'
      /\ At("remove")' => ret_ch'.count > 0
  BY <1>2 DEF Starting, At
<1> QED
  BY <1>2, <1>3, <1>4, <1>5, <1>6, QuietStep

\* Loop, LoopEnd, RecvNothing and Done move the manager only.
LEMMA IdleSteps ==
  ASSUME IInv, Loop \/ LoopEnd \/ RecvNothing \/ Done
  PROVE  IInv'
<1>1. sock \in {"open", "shut", "closed"}
  BY DEF IInv, TypeOK
<1>2. CASE Loop \/ LoopEnd
  <2>1. PICK pc \in {"recv", "close"} : mgr' = [mgr EXCEPT !.pc = pc]
    BY <1>2 DEF Loop, LoopEnd, Goto
  <2>2. ~At("first") /\ ~Starting
    BY <1>2 DEF Loop, LoopEnd, At, Starting
  <2> QED BY <1>1, <1>2, <2>1, <2>2, ManagerMoves DEF Loop, LoopEnd
<1>3. CASE RecvNothing
  <2>1. PICK pc \in {"loop", "close"} : mgr' = [mgr EXCEPT !.pc = pc]
    BY <1>3 DEF RecvNothing, Goto
  <2>2. ~At("first") /\ ~Starting
    BY <1>3 DEF RecvNothing, At, Starting
  <2> QED BY <1>1, <1>3, <2>1, <2>2, ManagerMoves DEF RecvNothing
<1>4. CASE Done
  <2>1. mgr' = [mgr EXCEPT !.pc = "done"] /\ ~At("first") /\ ~Starting
    BY <1>4 DEF Done, At, Starting, Goto
  <2> QED BY <1>1, <1>4, <2>1, ManagerMoves DEF Done
<1> QED
  BY <1>2, <1>3, <1>4

\* Reap looks at the return channel.
LEMMA ReapStep ==
  ASSUME IInv, Reap
  PROVE  IInv'
<1>1. TypeOK
  BY DEF IInv
<1>2. /\ ret_ch.rets[ret_ch.head] \in TxnIds /\ ret_ch.count \in Nat
      /\ Starting /\ ~At("first")
  BY <1>1, ServerAssumption DEF TypeOK, Ring, Reap, At, Starting
<1>3. CASE ret_ch.count = 0
  <2>1. mgr' = [mgr EXCEPT !.pc = "insert"] /\ sock \in {"open", "shut", "closed"}
    BY <1>1, <1>3 DEF Reap, Goto, TypeOK
  <2> QED BY <1>2, <2>1, ManagerMoves DEF Reap
<1>4. CASE ret_ch.count # 0
  <2>1. mgr' = [mgr EXCEPT !.pc = "remove", !.dead = ret_ch.rets[ret_ch.head]]
    BY <1>4 DEF Reap
  <2>2. /\ mgr' \in ManagerState
        /\ mgr'.pc = "remove" /\ mgr'.msg = mgr.msg
    BY <1>1, <1>2, <2>1 DEF TypeOK, ManagerState
  <2>3. TypeOK'
    BY <1>1, <2>2 DEF TypeOK, Reap
  <2>4. SameTable /\ SameJobs /\ AgainKept
    BY DEF SameTable, SameJobs, AgainKept, Reap
  <2>5. Starting' /\ ~At("first")'
    BY <2>2 DEF Starting, At
  <2> QED
    BY <1>2, <1>4, <2>2, <2>3, <2>4, <2>5, QuietStep DEF Reap
<1> QED
  BY <1>3, <1>4

\* main stops the manager: a flag and the socket.
LEMMA StopSteps ==
  ASSUME IInv, StopFlag \/ StopSocket
  PROVE  IInv'
<1>1. UNCHANGED <<workers, size, ret_ch, next_txn, mgr, answers, twice, dropped>>
  BY DEF StopFlag, StopSocket
<1>2. sock' \in {"open", "shut", "closed"} /\ (sock' = "open" => sock = "open")
  BY DEF StopFlag, StopSocket, IInv, TypeOK
<1>3. TypeOK'
  BY <1>1, <1>2 DEF IInv, TypeOK
<1>4. SameTable /\ SameJobs /\ AgainKept
  BY <1>1 DEF SameTable, SameJobs, AgainKept
<1>5. At("remove")' => ret_ch'.count > 0
  BY <1>1 DEF IInv, ManagerKnows, At
<1>6. (Starting' <=> Starting) /\ (At("first")' => At("first"))
  BY <1>1 DEF Starting, At
<1> QED
  BY <1>1, <1>2, <1>3, <1>4, <1>5, <1>6, QuietStep

-----------------------------------------------------------------------------
(* Steps of a thread that touch no channel *)

\* Abort takes the running flag from one worker.
LEMMA AbortStep ==
  ASSUME IInv, Abort
  PROVE  IInv'
<1>1. TypeOK /\ mgr.entry \in Entries
  BY DEF IInv, TypeOK, ManagerState
<1>2. PICK e \in Entries : e = mgr.entry
  BY <1>1
<1>3. workers' = [workers EXCEPT ![e].running = FALSE] /\ mgr' = Idle
  BY <1>2 DEF Abort, Again
<1>4. /\ workers' \in [Entries -> Context] /\ SameTable /\ SameJobs
      /\ \A f \in Entries : /\ workers'[f].pc = workers[f].pc
                            /\ workers'[f].job = workers[f].job
  <2>1. workers' \in [Entries -> Context]
    BY <1>1, <1>3 DEF TypeOK, Context
  <2>2. \A f \in Entries : /\ workers'[f].txn = workers[f].txn
                           /\ workers'[f].used = workers[f].used
                           /\ workers'[f].deleted = workers[f].deleted
                           /\ workers'[f].jobs = workers[f].jobs
                           /\ workers'[f].pc = workers[f].pc
                           /\ workers'[f].job = workers[f].job
    BY <1>1, <1>3 DEF TypeOK, Context
  <2> QED BY <2>1, <2>2 DEF SameTable, SameJobs
<1>5. TypeOK'
  BY <1>1, <1>3, <1>4, IdleType DEF TypeOK, Abort, SameJobs
<1>6. ~Starting /\ ~Starting' /\ ~At("first") /\ ~At("first")' /\ ~At("remove")'
  BY <1>3 DEF Abort, At, Starting, Idle
<1>7. AgainKept
  BY <1>4 DEF AgainKept
<1> QED
  BY <1>4, <1>5, <1>6, <1>7, QuietStep DEF Abort

\* Close closes the socket.
LEMMA CloseStep ==
  ASSUME IInv, Close
  PROVE  IInv'
<1>1. TypeOK /\ 0 \in Entries
  BY ServerAssumption DEF IInv, Entries
<1>2. mgr' \in ManagerState /\ mgr'.pc = "halt"
  BY <1>1 DEF Close, TypeOK, ManagerState
<1>3. TypeOK'
  BY <1>1, <1>2 DEF TypeOK, Close
<1>4. SameTable /\ SameJobs /\ AgainKept
  BY DEF SameTable, SameJobs, AgainKept, Close
<1>5. ~Starting /\ ~Starting' /\ ~At("first") /\ ~At("first")' /\ ~At("remove")'
  BY <1>2 DEF Close, At, Starting
<1> QED
  BY <1>3, <1>4, <1>5, QuietStep DEF Close

\* StopNext takes the running flag from one worker more.
LEMMA StopNextStep ==
  ASSUME IInv, StopNext
  PROVE  IInv'
<1>1. TypeOK /\ mgr.entry \in Entries
  BY DEF IInv, TypeOK, ManagerState
<1>2. PICK e \in Entries, b \in BOOLEAN :
        e = mgr.entry /\ b = (workers[e].running /\ ~Busy(e))
  BY <1>1
<1>3. workers' = [workers EXCEPT ![e].running = b]
  BY <1>1, <1>2 DEF StopNext, TypeOK
<1>4. \A f \in Entries : /\ workers'[f].txn = workers[f].txn
                         /\ workers'[f].used = workers[f].used
                         /\ workers'[f].deleted = workers[f].deleted
                         /\ workers'[f].jobs = workers[f].jobs
                         /\ workers'[f].pc = workers[f].pc
                         /\ workers'[f].job = workers[f].job
  BY <1>1, <1>3 DEF TypeOK, Context
<1>5. workers' \in [Entries -> Context] /\ SameTable /\ SameJobs /\ AgainKept
  <2>1. workers' \in [Entries -> Context]
    BY <1>1, <1>3 DEF TypeOK, Context
  <2> QED BY <1>4, <2>1 DEF SameTable, SameJobs, AgainKept
<1>6. mgr' \in ManagerState /\ mgr'.pc \in {"halt", "clear"}
  <2>1. PICK g \in Entries : g = IF e < MaxTxns - 1 THEN e + 1 ELSE 0
    BY ServerAssumption DEF Entries
  <2>2. PICK pc \in {"halt", "clear"} :
           pc = IF e < MaxTxns - 1 THEN "halt" ELSE "clear"
    OBVIOUS
  <2>3. mgr' = [mgr EXCEPT !.pc = pc, !.entry = g]
    BY <1>1, <1>2, <2>1, <2>2 DEF StopNext, NextEntry, At, TypeOK, ManagerState
  <2> QED BY <1>1, <2>3 DEF TypeOK, ManagerState
<1>7. TypeOK'
  BY <1>1, <1>5, <1>6 DEF TypeOK, StopNext, SameJobs
<1>8. ~Starting /\ ~Starting' /\ ~At("first") /\ ~At("first")' /\ ~At("remove")'
  BY <1>6 DEF StopNext, At, Starting
<1> QED
  BY <1>4, <1>5, <1>7, <1>8, QuietStep DEF StopNext

\* A worker's thread goes from one place to another, perhaps with its job.
LEMMA WorkerMoves ==
  ASSUME IInv, NEW e \in Entries, NEW pc \in {"loop", "recv", "busy", "quit",
                                              "exited", "stuck"},
         NEW j \in Job, workers[e].pc # "none",
         workers' = [workers EXCEPT ![e].pc = pc, ![e].job = j],
         pc = "busy" => /\ workers[e].jobs # <<>>
                        /\ j = Head(workers[e].jobs),
         ret_ch' \in Ring, ret_ch'.count >= ret_ch.count,
         UNCHANGED <<size, next_txn, mgr, sock, answers, twice, dropped>>
  PROVE  IInv'
<1>1. TypeOK
  BY DEF IInv
<1>2. /\ workers' \in [Entries -> Context] /\ SameTable /\ SameJobs
      /\ \A f \in Entries \ {e} : /\ workers'[f].pc = workers[f].pc
                                  /\ workers'[f].job = workers[f].job
      /\ workers'[e].pc = pc /\ workers'[e].job = j
  BY <1>1 DEF TypeOK, Context, SameTable, SameJobs
<1>3. \A f \in Entries : workers'[f].pc = "busy" =>
            \/ workers[f].pc = "busy" /\ workers'[f].job = workers[f].job
            \/ /\ workers[f].jobs # <<>>
               /\ workers'[f].job = Head(workers[f].jobs)
  BY <1>2
<1>4. TypeOK'
  BY <1>1, <1>2 DEF TypeOK, SameJobs
<1>5. ret_ch.count \in Nat /\ ret_ch'.count \in Nat
  BY <1>1 DEF TypeOK, Ring
<1>6. At("remove")' => ret_ch'.count > 0
  BY <1>5 DEF IInv, ManagerKnows, At
<1>7. (Starting' <=> Starting) /\ (At("first")' => At("first"))
  BY DEF Starting, At
<1>8. AgainKept
  BY <1>2 DEF AgainKept
<1> QED
  BY <1>2, <1>3, <1>4, <1>6, <1>7, <1>8, QuietStep

\* WorkerLoop tests the flag.
LEMMA WorkerLoopStep ==
  ASSUME IInv, NEW e \in Entries, WorkerLoop(e)
  PROVE  IInv'
<1>1. TypeOK /\ ret_ch \in Ring /\ ret_ch.count \in Nat
  BY DEF IInv, TypeOK, Ring
<1>2. PICK pc \in {"recv", "quit"}, j \in Job :
        /\ j = workers[e].job
        /\ workers' = [workers EXCEPT ![e].pc = pc]
  BY <1>1 DEF WorkerLoop, TypeOK, Context
<1>3. workers' = [workers EXCEPT ![e].pc = pc, ![e].job = j]
  BY <1>1, <1>2 DEF TypeOK, Context
<1>4. /\ workers[e].pc # "none" /\ ret_ch' = ret_ch
      /\ UNCHANGED <<size, next_txn, mgr, sock, answers, twice, dropped>>
  BY DEF WorkerLoop, Thread
<1>5. ret_ch'.count >= ret_ch.count /\ pc # "busy"
  BY <1>1, <1>4
<1> QED
  BY <1>1, <1>2, <1>3, <1>4, <1>5, WorkerMoves

\* WorkerRecv copies the first job, or finds none.
LEMMA WorkerRecvStep ==
  ASSUME IInv, NEW e \in Entries, WorkerRecv(e)
  PROVE  IInv'
<1>1. TypeOK /\ ret_ch \in Ring /\ ret_ch.count \in Nat
  BY DEF IInv, TypeOK, Ring
<1>2. /\ workers[e].pc # "none" /\ ret_ch' = ret_ch
      /\ UNCHANGED <<size, next_txn, mgr, sock, answers, twice, dropped>>
  BY DEF WorkerRecv, Thread
<1>3. ret_ch'.count >= ret_ch.count
  BY <1>1, <1>2
<1>4. CASE workers[e].jobs = <<>>
  <2>1. NoJob \in Job
    BY ServerAssumption DEF NoJob, Job, TxnIds
  <2>2. workers' = [workers EXCEPT ![e].pc = "loop", ![e].job = NoJob]
    BY <1>4 DEF WorkerRecv
  <2> QED BY <1>1, <1>2, <1>3, <2>1, <2>2, WorkerMoves
<1>5. CASE workers[e].jobs # <<>>
  <2>1. PICK j \in Job : j = Head(workers[e].jobs)
    BY <1>1, <1>5, QueuedIs
  <2>2. workers' = [workers EXCEPT ![e].pc = "busy", ![e].job = j]
    BY <1>5, <2>1 DEF WorkerRecv
  <2> QED BY <1>1, <1>2, <1>3, <1>5, <2>1, <2>2, WorkerMoves
<1> QED
  BY <1>4, <1>5

\* WorkerStuck goes nowhere from there.
LEMMA WorkerStuckStep ==
  ASSUME IInv, NEW e \in Entries, WorkerStuck(e)
  PROVE  IInv'
<1>1. TypeOK /\ ret_ch \in Ring /\ ret_ch.count \in Nat
  BY DEF IInv, TypeOK, Ring
<1>2. /\ workers[e].pc # "none" /\ ret_ch' = ret_ch
      /\ UNCHANGED <<size, next_txn, mgr, sock, answers, twice, dropped>>
  BY DEF WorkerStuck, Thread
<1>3. PICK j \in Job : j = workers[e].job
  BY <1>1 DEF TypeOK, Context
<1>4. workers' = [workers EXCEPT ![e].pc = "stuck", ![e].job = j]
  BY <1>1, <1>3 DEF WorkerStuck, TypeOK, Context
<1>5. ret_ch'.count >= ret_ch.count
  BY <1>1, <1>2
<1> QED
  BY <1>1, <1>2, <1>3, <1>4, <1>5, WorkerMoves

\* WorkerQuit sends the id of the transaction and ends.
LEMMA WorkerQuitStep ==
  ASSUME IInv, NEW e \in Entries, WorkerQuit(e)
  PROVE  IInv'
<1>1. TypeOK /\ ret_ch \in Ring /\ ret_ch.count \in Nat
  BY DEF IInv, TypeOK, Ring
<1>2. /\ workers[e].pc # "none"
      /\ UNCHANGED <<size, next_txn, mgr, sock, answers, twice, dropped>>
      /\ ret_ch' = ret_send(workers[e].txn)
  BY DEF WorkerQuit, Thread
<1>3. PICK j \in Job : j = workers[e].job
  BY <1>1 DEF TypeOK, Context
<1>4. workers' = [workers EXCEPT ![e].pc = "exited", ![e].job = j]
  BY <1>1, <1>3 DEF WorkerQuit, TypeOK, Context
<1>5. workers[e].txn \in TxnIds /\ (ret_ch.tail + 1) % MaxItems \in 0 .. MaxItems - 1
  <2>1. ret_ch.tail + 1 \in Int /\ MaxItems \in Nat \ {0}
    BY <1>1, ServerAssumption DEF Ring
  <2> QED BY <1>1, <2>1, TxnType, ModRange
<1>6. ret_ch' \in Ring /\ ret_ch'.count = ret_ch.count + 1
  BY <1>1, <1>2, <1>5 DEF ret_send, Ring
<1>7. ret_ch'.count >= ret_ch.count
  BY <1>1, <1>6
<1> QED
  BY <1>2, <1>3, <1>4, <1>6, <1>7, WorkerMoves

-----------------------------------------------------------------------------
(* Messages received *)

\* The history of answers with one message more.
LEMMA OneMore ==
  ASSUME answers \in Seq(Nat), NEW n \in Nat
  PROVE  /\ Len(answers) \in Nat /\ DOMAIN answers = 1 .. Len(answers)
         /\ Append(answers, n) \in Seq(Nat)
         /\ DOMAIN Append(answers, n) = 1 .. Len(answers) + 1
         /\ \A m \in 1 .. Len(answers) : Append(answers, n)[m] = answers[m]
         /\ Append(answers, n)[Len(answers) + 1] = n
         /\ \A m \in 1 .. Len(answers) : answers[m] \in Nat
OBVIOUS

\* A reply sent at once, if the socket is open.
LEMMA SentAtOnce ==
  ASSUME answers \in Seq(Nat)
  PROVE  \E n \in {0, 1} :
           /\ Sent(Append(answers, 0), Len(answers) + 1) = Append(answers, n)
           /\ sock = "open" => n = 1
<1>1. PICK a : a = Append(answers, 0)
  OBVIOUS
<1>2. /\ a \in Seq(Nat) /\ Len(a) = Len(answers) + 1
      /\ DOMAIN a = 1 .. Len(answers) + 1 /\ Len(answers) \in Nat
      /\ \A m \in 1 .. Len(answers) : a[m] = answers[m]
      /\ a[Len(answers) + 1] = 0
  BY <1>1, OneMore
<1>3. PICK b : b = [a EXCEPT ![Len(answers) + 1] = @ + 1]
  OBVIOUS
<1>4. /\ b \in Seq(Nat) /\ Len(b) = Len(answers) + 1
      /\ \A m \in 1 .. Len(answers) : b[m] = answers[m]
      /\ b[Len(answers) + 1] = 1
  BY <1>2, <1>3
<1>5. b = Append(answers, 1)
  BY <1>2, <1>4
<1>6. sock = "open" => Sent(a, Len(answers) + 1) = b
  BY <1>3 DEF Sent
<1>7. sock # "open" => Sent(a, Len(answers) + 1) = a
  BY DEF Sent
<1> QED
  BY <1>1, <1>5, <1>6, <1>7

\* A new message that is answered at once, or that the manager keeps.
LEMMA MessagesGrow ==
  ASSUME IInv, SameJobs, AgainKept, ~Starting, NEW n \in {0, 1},
         answers' = Append(answers, n), sock' = sock, twice' = twice,
         dropped' = dropped,
         \/ (sock = "open" => n = 1) /\ ~Starting'
         \/ n = 0 /\ Starting' /\ mgr'.msg = Len(answers) + 1
  PROVE  WaitsOnce' /\ AgainOnce' /\ AtMostTwice' /\ AnsweredOrWaits'
<1>0. WaitsOnce /\ AgainOnce /\ AtMostTwice /\ AnsweredOrWaits /\ TypeOK
  BY DEF IInv
<1>1. PICK k \in Nat : k = Len(answers)
  BY <1>0 DEF TypeOK
<1>2. /\ DOMAIN answers = 1 .. k /\ DOMAIN answers' = 1 .. k + 1
      /\ \A m \in 1 .. k : answers'[m] = answers[m]
      /\ answers'[k + 1] = n
  BY <1>0, <1>1, OneMore DEF TypeOK
<1>3. \A e \in Entries : Queued(e)' = Queued(e)
  BY DEF SameJobs, Queued
<1>4. \A e \in Entries : \A i \in DOMAIN workers[e].jobs :
        workers[e].jobs[i].msg \in 1 .. k
  BY <1>0, <1>2 DEF WaitsOnce
<1>5. \A e \in Entries : k + 1 \notin Queued(e)
  BY <1>4 DEF Queued
<1>6. \A m \in 1 .. k : Waiting(m)' <=> Waiting(m)
  BY <1>1, <1>3 DEF Waiting
<1>7. /\ Waiting(k + 1)' => n = 0
      /\ sock = "open" /\ n = 0 => Waiting(k + 1)'
  BY <1>1, <1>3, <1>5 DEF Waiting
<1>8. WaitsOnce'
  <2>1. \A e, f \in Entries :
          \A i \in DOMAIN workers'[e].jobs, j \in DOMAIN workers'[f].jobs :
            workers'[e].jobs[i].msg = workers'[f].jobs[j].msg
              => e = f /\ i = j
    BY <1>0 DEF WaitsOnce, SameJobs
  <2>2. \A e \in Entries : \A i \in DOMAIN workers'[e].jobs :
             /\ workers'[e].jobs[i].msg \in DOMAIN answers'
             /\ Starting' => workers'[e].jobs[i].msg # mgr'.msg
    BY <1>1, <1>2, <1>4 DEF SameJobs
  <2>3. \A m \in DOMAIN answers' : Waiting(m)' => answers'[m] = 0
    <3>1. \A m \in 1 .. k : Waiting(m)' => answers'[m] = 0
      BY <1>0, <1>2, <1>6 DEF WaitsOnce
    <3> QED BY <1>2, <1>7, <3>1
  <2> QED BY <2>1, <2>2, <2>3 DEF WaitsOnce
<1>9. AtMostTwice'
  BY <1>0, <1>2 DEF AtMostTwice
<1>10. AnsweredOrWaits'
  <2> SUFFICES ASSUME sock = "open", NEW m \in DOMAIN answers'
               PROVE  answers'[m] > 0 \/ Waiting(m)' \/ m \in dropped'
    BY DEF AnsweredOrWaits
  <2>1. CASE m \in 1 .. k
    BY <1>0, <1>2, <1>6, <2>1 DEF AnsweredOrWaits
  <2>2. CASE m = k + 1
    BY <1>2, <1>7, <2>2
  <2> QED BY <1>2, <2>1, <2>2
<1>11. AgainOnce'
  BY <1>0, <1>2, <1>6, AgainFrame
<1> QED
  BY <1>8, <1>9, <1>10, <1>11

\* A message received and refused at once, or received and kept.
LEMMA ReceivedStep ==
  ASSUME IInv, Received, NEW n \in {0, 1}, answers' = Append(answers, n),
         mgr' \in ManagerState,
         \/ (sock = "open" => n = 1) /\ mgr'.pc = "loop"
         \/ /\ n = 0 /\ mgr'.pc = "reap" /\ mgr'.msg = Len(answers) + 1
            /\ next_txn <= MaxTxnId,
         UNCHANGED <<workers, size, ret_ch, next_txn, sock, twice, dropped>>
  PROVE  IInv'
<1>0. TypeOK /\ EntriesCounted /\ TxnsIssued /\ UniqueTxns /\ ProbePath
      /\ JobInChannel /\ JobsOfOwnTxn
  BY DEF IInv
<1>1. ~Starting /\ ~At("first") /\ SameTable /\ SameJobs /\ AgainKept
  BY DEF Received, At, Starting, SameTable, SameJobs, AgainKept
<1>2. /\ \/ (sock = "open" => n = 1) /\ ~Starting'
         \/ n = 0 /\ Starting' /\ mgr'.msg = Len(answers) + 1
      /\ Starting' => next_txn <= MaxTxnId /\ mgr'.msg = Len(answers) + 1
      /\ ~At("first")' /\ ~At("remove")'
  BY DEF Starting, At
<1>3. WaitsOnce' /\ AgainOnce' /\ AtMostTwice' /\ AnsweredOrWaits'
  BY <1>1, <1>2, MessagesGrow
<1>4. /\ EntriesCounted' /\ TxnsIssued' /\ UniqueTxns' /\ ProbePath'
      /\ \A e \in Entries : Busy(e)' <=> Busy(e)
  BY <1>0, <1>1, TableFrame
<1>5. JobInChannel' /\ JobsOfOwnTxn'
  BY <1>0, <1>4 DEF JobInChannel, JobsOfOwnTxn
<1>6. /\ DOMAIN answers' = 1 .. Len(answers) + 1 /\ Len(answers) \in Nat
      /\ answers' \in Seq(Nat)
  BY <1>0, OneMore DEF TypeOK
<1>7. TypeOK'
  BY <1>0, <1>6 DEF TypeOK
<1>8. ManagerKnows'
  BY <1>2, <1>6 DEF ManagerKnows
<1> QED
  BY <1>3, <1>4, <1>5, <1>7, <1>8 DEF IInv

\* A message that is refused on sight, and one that starts a transaction.
LEMMA RecvBadStep ==
  ASSUME IInv, RecvBad
  PROVE  IInv'
<1>1. answers \in Seq(Nat) /\ Received
  BY DEF IInv, TypeOK, RecvBad
<1>2. PICK n \in {0, 1} : answers' = Append(answers, n) /\ (sock = "open" => n = 1)
  BY <1>1, SentAtOnce DEF RecvBad
<1>3. mgr' \in ManagerState /\ mgr'.pc = "loop"
  BY IdleType DEF RecvBad, Again, Idle
<1> QED
  BY <1>1, <1>2, <1>3, ReceivedStep DEF RecvBad

\* START_TXN: the manager keeps the message.
LEMMA RecvStartStep ==
  ASSUME IInv, RecvStart
  PROVE  IInv'
<1>1. TypeOK /\ Received /\ Len(answers) + 1 \in Nat
  BY DEF IInv, TypeOK, RecvStart
<1>2. /\ mgr' \in ManagerState /\ mgr'.pc = "reap"
      /\ mgr'.msg = Len(answers) + 1
  BY <1>1 DEF RecvStart, TypeOK, ManagerState
<1> QED
  BY <1>1, <1>2, ReceivedStep DEF RecvStart

-----------------------------------------------------------------------------
(* A job sent to a channel *)

\* A channel with one job more.
LEMMA JobAppended ==
  ASSUME NEW q \in Seq(Job), NEW j \in Job
  PROVE  /\ Append(q, j) \in Seq(Job) /\ Len(q) \in Nat
         /\ DOMAIN q = 1 .. Len(q)
         /\ DOMAIN Append(q, j) = 1 .. Len(q) + 1
         /\ Len(Append(q, j)) = Len(q) + 1
         /\ Append(q, j)[Len(q) + 1] = j
         /\ \A i \in 1 .. Len(q) : Append(q, j)[i] = q[i]
         /\ q # <<>> => Append(q, j) # <<>> /\ Head(Append(q, j)) = Head(q)
OBVIOUS

\* A job that names the transaction of an entry is put into its channel, and
\* its message waits nowhere else.
JobSent(e, j) ==
    /\ Busy(e) /\ j.txn = workers[e].txn /\ Len(workers[e].jobs) < MaxItems
    /\ \A f \in Entries : j.msg \notin Queued(f)
    /\ workers' = [workers EXCEPT ![e].jobs = Append(@, j)]

\* What it changes in the table.
LEMMA JobSentTable ==
  ASSUME TypeOK, NEW e \in Entries, NEW j \in Job, JobSent(e, j)
  PROVE  /\ workers' \in [Entries -> Context]
         /\ SameTable
         /\ \A f \in Entries : /\ Len(workers'[f].jobs) <= MaxItems
                               /\ workers'[f].pc = workers[f].pc
                               /\ workers'[f].job = workers[f].job
         /\ workers'[e].jobs = Append(workers[e].jobs, j)
         /\ \A f \in Entries \ {e} : workers'[f].jobs = workers[f].jobs
<1>1. PICK q \in Seq(Job) : q = workers[e].jobs /\ Append(q, j) \in Seq(Job)
        /\ Len(Append(q, j)) = Len(q) + 1 /\ Len(q) \in Nat
  BY JobAppended DEF TypeOK, Context
<1>2. PICK r \in Seq(Job) : r = Append(q, j)
  BY <1>1
<1>3. workers' = [workers EXCEPT ![e].jobs = r]
  BY <1>1, <1>2 DEF JobSent
<1>4. workers' \in [Entries -> Context]
  BY <1>2, <1>3 DEF TypeOK, Context
<1>5. /\ \A f \in Entries : /\ workers'[f].pc = workers[f].pc
                            /\ workers'[f].job = workers[f].job
                            /\ workers'[f].txn = workers[f].txn
                            /\ workers'[f].used = workers[f].used
                            /\ workers'[f].deleted = workers[f].deleted
      /\ \A f \in Entries \ {e} : workers'[f].jobs = workers[f].jobs
      /\ workers'[e].jobs = r
  BY <1>2, <1>3 DEF TypeOK, Context
<1>6. Len(r) <= MaxItems
  BY <1>1, <1>2, ServerAssumption DEF JobSent
<1>7. \A f \in Entries : Len(workers'[f].jobs) <= MaxItems
  BY <1>5, <1>6 DEF TypeOK
<1> QED
  BY <1>1, <1>2, <1>4, <1>5, <1>7 DEF SameTable

\* What it changes for the jobs.
LEMMA JobSentJobs ==
  ASSUME IInv, NEW e \in Entries, NEW j \in Job, JobSent(e, j)
  PROVE  /\ JobInChannel' /\ JobsOfOwnTxn'
         /\ \A f \in Entries : \A m :
              m \in Queued(f)' <=> m \in Queued(f) \/ (f = e /\ m = j.msg)
         /\ \A f, g \in Entries :
              \A a \in DOMAIN workers'[f].jobs, b \in DOMAIN workers'[g].jobs :
                workers'[f].jobs[a].msg = workers'[g].jobs[b].msg
                  => f = g /\ a = b
<1>0. TypeOK /\ JobInChannel /\ JobsOfOwnTxn /\ WaitsOnce
  BY DEF IInv
<1>1. /\ workers' \in [Entries -> Context]
      /\ SameTable
      /\ \A f \in Entries : /\ workers'[f].pc = workers[f].pc
                            /\ workers'[f].job = workers[f].job
      /\ workers'[e].jobs = Append(workers[e].jobs, j)
      /\ \A f \in Entries \ {e} : workers'[f].jobs = workers[f].jobs
  BY <1>0, JobSentTable
<1>2. PICK q \in Seq(Job) : q = workers[e].jobs
  BY <1>0 DEF TypeOK, Context
<1>3. PICK r : r = Append(q, j)
  OBVIOUS
<1>3a. /\ r = workers'[e].jobs /\ Len(q) \in Nat
       /\ DOMAIN q = 1 .. Len(q) /\ DOMAIN r = 1 .. Len(q) + 1
       /\ r[Len(q) + 1] = j
       /\ \A i \in 1 .. Len(q) : r[i] = q[i]
       /\ q # <<>> => r # <<>> /\ Head(r) = Head(q)
  <2>1. r = workers'[e].jobs
    BY <1>1, <1>2, <1>3
  <2>2. /\ Len(q) \in Nat
        /\ DOMAIN q = 1 .. Len(q)
        /\ DOMAIN Append(q, j) = 1 .. Len(q) + 1
        /\ Append(q, j)[Len(q) + 1] = j
        /\ \A i \in 1 .. Len(q) : Append(q, j)[i] = q[i]
        /\ q # <<>> => Append(q, j) # <<>> /\ Head(Append(q, j)) = Head(q)
    BY JobAppended, Zenon
  <2> QED BY <1>3, <2>1, <2>2, Zenon
<1>4. JobInChannel'
  BY <1>0, <1>1, <1>2, <1>3a DEF JobInChannel
<1>5. JobsOfOwnTxn'
  <2>1. ASSUME NEW f \in Entries, NEW i \in DOMAIN workers'[f].jobs
        PROVE  Busy(f)' /\ workers'[f].jobs[i].txn = workers'[f].txn
    <3>1. Busy(f)' <=> Busy(f)
      BY <1>1 DEF SameTable, Busy
    <3>2. CASE f # e
      BY <1>0, <1>1, <3>1, <3>2, <2>1 DEF JobsOfOwnTxn, SameTable
    <3>3. CASE f = e
      <4>1. Busy(e) /\ workers'[e].txn = workers[e].txn /\ j.txn = workers[e].txn
        BY <1>1 DEF JobSent, SameTable
      <4>2. \A a \in 1 .. Len(q) : q[a].txn = workers[e].txn
        BY <1>0, <1>2, <1>3a DEF JobsOfOwnTxn
      <4>3. i \in 1 .. Len(q) + 1
        BY <1>3a, <3>3, <2>1
      <4>4. r[i].txn = workers[e].txn
        BY <1>3a, <4>1, <4>2, <4>3
      <4> QED BY <1>3a, <3>1, <3>3, <4>1, <4>4
    <3> QED BY <3>2, <3>3
  <2> QED BY <2>1 DEF JobsOfOwnTxn
<1>6. ASSUME NEW f \in Entries, NEW m
      PROVE  m \in Queued(f)' <=> m \in Queued(f) \/ (f = e /\ m = j.msg)
  <2>1. CASE f # e
    BY <1>1, <2>1 DEF Queued
  <2>2. CASE f = e
    <3>1. m \in Queued(e)' <=> \E i \in 1 .. Len(q) + 1 : r[i].msg = m
      BY <1>3a DEF Queued
    <3>2. m \in Queued(e) <=> \E i \in 1 .. Len(q) : q[i].msg = m
      BY <1>2, <1>3a DEF Queued
    <3>3. (\E i \in 1 .. Len(q) + 1 : r[i].msg = m)
            <=> (\E i \in 1 .. Len(q) : q[i].msg = m) \/ j.msg = m
      BY <1>3a
    <3> QED BY <2>2, <3>1, <3>2, <3>3
  <2> QED BY <2>1, <2>2
<1>7. ASSUME NEW f \in Entries, NEW g \in Entries,
             NEW a \in DOMAIN workers'[f].jobs, NEW b \in DOMAIN workers'[g].jobs,
             workers'[f].jobs[a].msg = workers'[g].jobs[b].msg
      PROVE  f = g /\ a = b
  <2>1. \A h \in Entries : \A c \in DOMAIN workers[h].jobs :
          workers[h].jobs[c].msg # j.msg
    BY DEF JobSent, Queued
  <2>2. \A h \in Entries : \A c \in DOMAIN workers'[h].jobs :
          \/ c \in DOMAIN workers[h].jobs
             /\ workers'[h].jobs[c] = workers[h].jobs[c]
          \/ h = e /\ c = Len(q) + 1 /\ workers'[h].jobs[c] = j
    <3> SUFFICES ASSUME NEW h \in Entries, NEW c \in DOMAIN workers'[h].jobs
                 PROVE  \/ c \in DOMAIN workers[h].jobs
                           /\ workers'[h].jobs[c] = workers[h].jobs[c]
                        \/ h = e /\ c = Len(q) + 1 /\ workers'[h].jobs[c] = j
      OBVIOUS
    <3>1. CASE h # e
      BY <1>1, <3>1
    <3>2. CASE h = e
      <4>1. c \in 1 .. Len(q) + 1 /\ workers'[h].jobs = r /\ workers[h].jobs = q
        BY <1>2, <1>3a, <3>2
      <4>2. c \in 1 .. Len(q) \/ c = Len(q) + 1
        BY <1>3a, <4>1
      <4> QED BY <1>3a, <3>2, <4>1, <4>2
    <3> QED BY <3>1, <3>2
  <2> QED BY <1>0, <1>7, <2>1, <2>2 DEF WaitsOnce
<1> QED
  BY <1>4, <1>5, <1>6, <1>7

\* A message for a transaction there is goes into the channel of its worker.
LEMMA RecvJobSent ==
  ASSUME IInv, NEW e \in Entries, NEW j \in Job, JobSent(e, j),
         ~Starting, ~Starting', ~At("first"), ~At("remove"),
         j.msg = Len(answers) + 1, answers' = Append(answers, 0),
         mgr' \in ManagerState, ~At("first")', ~At("remove")',
         UNCHANGED <<size, ret_ch, next_txn, sock, twice, dropped>>
  PROVE  IInv'
<1>0. TypeOK /\ EntriesCounted /\ TxnsIssued /\ UniqueTxns /\ ProbePath
      /\ WaitsOnce /\ AgainOnce /\ AtMostTwice /\ AnsweredOrWaits
  BY DEF IInv
<1>1. PICK k \in Nat : k = Len(answers)
  BY <1>0 DEF TypeOK
<1>2. /\ DOMAIN answers = 1 .. k /\ DOMAIN answers' = 1 .. k + 1
      /\ answers' \in Seq(Nat)
      /\ \A m \in 1 .. k : answers'[m] = answers[m]
      /\ answers'[k + 1] = 0
  BY <1>0, <1>1, OneMore DEF TypeOK
<1>3. /\ workers' \in [Entries -> Context] /\ SameTable
      /\ \A f \in Entries : Len(workers'[f].jobs) <= MaxItems
  BY <1>0, JobSentTable
<1>4. TypeOK'
  BY <1>0, <1>2, <1>3 DEF TypeOK
<1>5. EntriesCounted' /\ TxnsIssued' /\ UniqueTxns' /\ ProbePath'
  BY <1>0, <1>3, TableFrame
<1>6. /\ JobInChannel' /\ JobsOfOwnTxn'
      /\ \A f \in Entries : \A m :
           m \in Queued(f)' <=> m \in Queued(f) \/ (f = e /\ m = j.msg)
      /\ \A f, g \in Entries :
           \A a \in DOMAIN workers'[f].jobs, b \in DOMAIN workers'[g].jobs :
             workers'[f].jobs[a].msg = workers'[g].jobs[b].msg
               => f = g /\ a = b
  BY JobSentJobs
<1>7. \A f \in Entries : \A m : m \in Queued(f) => m \in 1 .. k /\ answers[m] = 0
  BY <1>0, <1>2 DEF WaitsOnce, Waiting, Queued
<1>8. WaitsOnce'
  <2>1. \A f \in Entries : \A m : m \in Queued(f)' => m \in 1 .. k + 1 /\ answers'[m] = 0
    BY <1>1, <1>2, <1>6, <1>7
  <2>2. \A f \in Entries : \A i \in DOMAIN workers'[f].jobs :
             /\ workers'[f].jobs[i].msg \in DOMAIN answers'
             /\ Starting' => workers'[f].jobs[i].msg # mgr'.msg
    BY <1>2, <2>1 DEF Queued
  <2>3. \A m \in DOMAIN answers' : Waiting(m)' => answers'[m] = 0
    BY <2>1 DEF Waiting
  <2> QED BY <1>6, <2>2, <2>3 DEF WaitsOnce
<1>9. AtMostTwice'
  BY <1>0, <1>2 DEF AtMostTwice
<1>10. AnsweredOrWaits'
  <2> SUFFICES ASSUME sock = "open", NEW m \in 1 .. k + 1
               PROVE  answers'[m] > 0 \/ Waiting(m)' \/ m \in dropped'
    BY <1>2 DEF AnsweredOrWaits
  <2>1. CASE m \in 1 .. k
    <3>1. answers[m] > 0 \/ Waiting(m) \/ m \in dropped
      BY <1>0, <1>2, <2>1 DEF AnsweredOrWaits
    <3>2. Waiting(m) => Waiting(m)'
      BY <1>6 DEF Waiting
    <3> QED BY <1>2, <2>1, <3>1, <3>2
  <2>2. CASE m = k + 1
    BY <1>1, <1>6, <2>2 DEF Waiting
  <2>3. m \in 1 .. k \/ m = k + 1
    OBVIOUS
  <2> QED BY <2>1, <2>2, <2>3
<1>11. ManagerKnows'
  BY DEF ManagerKnows
<1>12. AgainOnce'
  <2>1. AgainKept
    BY <1>0, JobSentTable DEF AgainKept
  <2>2. \A m \in DOMAIN answers : Waiting(m)' => Waiting(m)
    BY <1>1, <1>2, <1>6 DEF Waiting
  <2> QED BY <1>0, <1>2, <2>1, <2>2, AgainFrame
<1> QED
  BY <1>4, <1>5, <1>6, <1>8, <1>9, <1>10, <1>11, <1>12 DEF IInv

\* A message for a transaction.
LEMMA RecvJobStep ==
  ASSUME IInv, NEW op \in JobOps, NEW t \in TxnIds, RecvJob(op, t)
  PROVE  IInv'
<1>0. TypeOK /\ WaitsOnce /\ Received
      /\ UNCHANGED <<size, ret_ch, next_txn, sock, twice, dropped>>
  BY DEF IInv, RecvJob, Received
<1>1. PICK k \in Nat : k = Len(answers) /\ DOMAIN answers = 1 .. k
  BY <1>0 DEF TypeOK
<1> DEFINE e == search(t)
           room == /\ e # NotFound
                   /\ Len(workers[e].jobs) < MaxItems
                   /\ workers[e].pc # "astray"
           j == [op |-> op, txn |-> t, msg |-> Len(answers) + 1]
<1>2. CASE ~room
  <2>1. /\ answers' = Sent(Append(answers, 0), Len(answers) + 1)
        /\ mgr' = Idle /\ workers' = workers
    BY <1>2 DEF RecvJob, Again
  <2>2. PICK n \in {0, 1} : /\ answers' = Append(answers, n)
                            /\ sock = "open" => n = 1
    BY <1>0, <2>1, SentAtOnce DEF TypeOK
  <2>3. mgr' \in ManagerState /\ mgr'.pc = "loop"
    BY <2>1, IdleType DEF Idle
  <2> QED BY <1>0, <2>1, <2>2, <2>3, ReceivedStep
<1>3. CASE room
  <2>1. e \in Entries /\ Busy(e) /\ workers[e].txn = t
    BY <1>3, SearchSound
  <2>2. j \in Job /\ j.msg = Len(answers) + 1 /\ j.txn = t
    BY <1>1 DEF Job
  <2>3. \A f \in Entries : j.msg \notin Queued(f)
    BY <1>0, <1>1, <2>2 DEF WaitsOnce, Queued
  <2>4. JobSent(e, j)
    BY <1>3, <2>1, <2>2, <2>3 DEF RecvJob, JobSent
  <2>5. /\ answers' = Append(answers, 0)
        /\ mgr' = [mgr EXCEPT !.entry = IF op = "ABORT_TXN" THEN e ELSE 0,
                     !.pc = IF op = "ABORT_TXN" THEN "abort" ELSE "loop"]
    BY <1>3 DEF RecvJob
  <2>6. mgr' \in ManagerState /\ mgr'.pc \in {"abort", "loop"}
    <3>1. 0 \in Entries
      BY ServerAssumption DEF Entries
    <3>2. PICK g \in Entries, pc \in {"abort", "loop"} :
             mgr' = [mgr EXCEPT !.entry = g, !.pc = pc]
      BY <2>1, <2>5, <3>1
    <3> QED BY <1>0, <3>2 DEF TypeOK, ManagerState
  <2>7. /\ ~Starting /\ ~Starting' /\ ~At("first") /\ ~At("remove")
        /\ ~At("first")' /\ ~At("remove")'
    BY <1>0, <2>6 DEF Starting, At, Received
  <2> HIDE DEF e, j
  <2> QED BY <1>0, <2>1, <2>2, <2>4, <2>5, <2>6, <2>7, RecvJobSent
<1> QED
  BY <1>2, <1>3

\* The first job of a transaction is the message that starts it.
LEMMA FirstJobStep ==
  ASSUME IInv, FirstJob
  PROVE  IInv'
<1>0. TypeOK /\ EntriesCounted /\ TxnsIssued /\ UniqueTxns /\ ProbePath
      /\ ManagerKnows /\ WaitsOnce /\ AgainOnce /\ AtMostTwice /\ AnsweredOrWaits
  BY DEF IInv
<1>1. PICK e \in Entries : e = mgr.entry
  BY <1>0 DEF TypeOK, ManagerState
<1>2. /\ Starting /\ At("first") /\ Busy(e) /\ workers[e].txn = next_txn
      /\ workers[e].jobs = <<>> /\ next_txn <= MaxTxnId
      /\ mgr.msg \in DOMAIN answers
  BY <1>0, <1>1 DEF FirstJob, ManagerKnows, Starting, At
<1>3. PICK j \in Job : j = [op |-> "START_TXN", txn |-> next_txn, msg |-> mgr.msg]
                       /\ j.txn = next_txn /\ j.msg = mgr.msg
  <2>1. next_txn \in TxnIds /\ mgr.msg \in Nat
    BY <1>0, <1>2, ServerAssumption DEF TypeOK, ManagerState, TxnIds
  <2>2. [op |-> "START_TXN", txn |-> next_txn, msg |-> mgr.msg] \in Job
    BY <2>1 DEF Job
  <2> QED BY <2>2
<1>4. \A f \in Entries : j.msg \notin Queued(f)
  BY <1>0, <1>2, <1>3 DEF WaitsOnce, Queued
<1>5. Len(workers[e].jobs) < MaxItems
  <2>1. Len(workers[e].jobs) = 0
    BY <1>2
  <2> QED BY <2>1, ServerAssumption
<1>6. workers' = [workers EXCEPT ![e].jobs = Append(@, j)]
  <2>1. ~(Len(workers[e].jobs) >= MaxItems)
    BY <1>2, ServerAssumption
  <2> QED BY <1>0, <1>1, <1>3, <2>1 DEF FirstJob, TypeOK, Context
<1>7. JobSent(e, j)
  BY <1>2, <1>3, <1>4, <1>5, <1>6 DEF JobSent
<1>8. /\ mgr' = Idle /\ next_txn' = next_txn + 1
      /\ UNCHANGED <<size, ret_ch, sock, answers, twice, dropped>>
  BY DEF FirstJob, Again
<1>9. ~Starting' /\ ~At("first")' /\ ~At("remove")'
  BY <1>8 DEF Idle, Starting, At
<1>10. /\ workers' \in [Entries -> Context] /\ SameTable
       /\ \A f \in Entries : Len(workers'[f].jobs) <= MaxItems
  BY <1>0, <1>7, JobSentTable
<1>11. TypeOK'
  BY <1>0, <1>2, <1>8, <1>10, IdleType, ServerAssumption DEF TypeOK
<1>12. /\ EntriesCounted' /\ UniqueTxns' /\ ProbePath'
       /\ \A f \in Entries : Busy(f)' <=> Busy(f)
  BY <1>0, <1>8, <1>10, TableKept
<1>13. TxnsIssued'
  <2>1. \A f \in Entries : workers[f].txn \in Nat /\ next_txn \in Nat
    BY <1>0, TxnType, ServerAssumption DEF TypeOK
  <2>2. \A f \in Entries : Busy(f) => workers[f].txn < next_txn + 1
    BY <1>0, <2>1 DEF TxnsIssued
  <2> QED BY <1>8, <1>10, <1>12, <2>2 DEF TxnsIssued, SameTable
<1>14. /\ JobInChannel' /\ JobsOfOwnTxn'
       /\ \A f \in Entries : \A m :
            m \in Queued(f)' <=> m \in Queued(f) \/ (f = e /\ m = j.msg)
       /\ \A f, g \in Entries :
            \A a \in DOMAIN workers'[f].jobs, b \in DOMAIN workers'[g].jobs :
              workers'[f].jobs[a].msg = workers'[g].jobs[b].msg
                => f = g /\ a = b
  BY <1>7, JobSentJobs
<1>15. \A m : Waiting(m)' <=> Waiting(m)
  BY <1>2, <1>3, <1>9, <1>14 DEF Waiting
<1>16. WaitsOnce'
  <2>0. \A f \in Entries : \A m : m \in Queued(f) => m \in DOMAIN answers
    BY <1>0 DEF WaitsOnce, Queued
  <2>1. \A f \in Entries : \A m : m \in Queued(f)' => m \in DOMAIN answers
    BY <1>2, <1>3, <1>14, <2>0
  <2>2. \A f \in Entries : \A i \in DOMAIN workers'[f].jobs :
             /\ workers'[f].jobs[i].msg \in DOMAIN answers'
             /\ Starting' => workers'[f].jobs[i].msg # mgr'.msg
    BY <1>8, <1>9, <2>1 DEF Queued
  <2>3. \A m \in DOMAIN answers' : Waiting(m)' => answers'[m] = 0
    BY <1>0, <1>8, <1>15 DEF WaitsOnce
  <2> QED BY <1>14, <2>2, <2>3 DEF WaitsOnce
<1>17. AtMostTwice' /\ AnsweredOrWaits' /\ AgainOnce'
  <2>1. AgainKept
    BY <1>0, <1>7, JobSentTable DEF AgainKept
  <2>2. AgainOnce'
    BY <1>0, <1>8, <1>15, <2>1, AgainFrame
  <2> QED BY <1>0, <1>8, <1>15, <2>2 DEF AtMostTwice, AnsweredOrWaits
<1>18. ManagerKnows'
  BY <1>9 DEF ManagerKnows
<1> QED
  BY <1>11, <1>12, <1>13, <1>14, <1>16, <1>17, <1>18 DEF IInv

-----------------------------------------------------------------------------
(* Messages answered *)

\* The places where jobs wait after a step: no message in two of them, all of
\* them known, and none of them the one the manager holds.
ApartAfter ==
    /\ \A e, f \in Entries :
         \A i \in DOMAIN workers'[e].jobs, j \in DOMAIN workers'[f].jobs :
           workers'[e].jobs[i].msg = workers'[f].jobs[j].msg => e = f /\ i = j
    /\ \A e \in Entries : \A i \in DOMAIN workers'[e].jobs :
         /\ workers'[e].jobs[i].msg \in DOMAIN answers'
         /\ Starting' => workers'[e].jobs[i].msg # mgr'.msg

\* Messages that wait are answered, if the socket is open, and wait no more.
LEMMA MessagesAnswered ==
  ASSUME IInv, NEW S, S \subseteq DOMAIN answers,
         \A m \in S : Waiting(m),
         \A m : Waiting(m)' <=> Waiting(m) /\ m \notin S,
         ApartAfter, AgainKept, sock' = sock, twice' = twice,
         dropped' = dropped, DOMAIN answers' = DOMAIN answers,
         \A m \in DOMAIN answers :
            answers'[m] = IF sock = "open" /\ m \in S THEN answers[m] + 1
                          ELSE answers[m]
  PROVE  WaitsOnce' /\ AgainOnce' /\ AtMostTwice' /\ AnsweredOrWaits'
<1>0. WaitsOnce /\ AgainOnce /\ AtMostTwice /\ AnsweredOrWaits
  BY DEF IInv
<1>1. \A m \in S : answers[m] = 0
  BY <1>0 DEF WaitsOnce
<1>2. \A m \in DOMAIN answers :
        /\ m \in S /\ sock = "open" => answers'[m] = 1
        /\ ~(m \in S /\ sock = "open") => answers'[m] = answers[m]
  BY <1>1
<1>3. WaitsOnce'
  <2>1. \A m \in DOMAIN answers' : Waiting(m)' => answers'[m] = 0
    BY <1>0, <1>2 DEF WaitsOnce
  <2> QED BY <2>1 DEF WaitsOnce, ApartAfter
<1>4. AtMostTwice'
  BY <1>0, <1>2 DEF AtMostTwice
<1>5. AnsweredOrWaits'
  BY <1>0, <1>2 DEF AnsweredOrWaits
<1>6. AgainOnce'
  BY <1>0, <1>2, AgainFrame
<1> QED
  BY <1>3, <1>4, <1>5, <1>6

\* One reply or two to one message.
LEMMA SentSome ==
  ASSUME answers \in Seq(Nat), NEW m \in DOMAIN answers, NEW d \in {1, 2},
         answers' = IF sock = "open" THEN [answers EXCEPT ![m] = @ + d]
                    ELSE answers
  PROVE  /\ answers' \in Seq(Nat) /\ DOMAIN answers' = DOMAIN answers
         /\ \A n \in DOMAIN answers :
              answers'[n] = IF sock = "open" /\ n \in {m} THEN answers[n] + d
                            ELSE answers[n]
<1>1. CASE sock = "open"
  <2>1. answers' = [answers EXCEPT ![m] = @ + d]
    BY <1>1
  <2>2. m \in 1 .. Len(answers) /\ \A n \in 1 .. Len(answers) : answers[n] \in Nat
    OBVIOUS
  <2> QED BY <1>1, <2>1, <2>2
<1>2. CASE sock # "open"
  BY <1>2
<1> QED
  BY <1>1, <1>2

\* A reply to one message.
LEMMA SentOne ==
  ASSUME answers \in Seq(Nat), NEW m \in DOMAIN answers,
         answers' = Sent(answers, m)
  PROVE  /\ answers' \in Seq(Nat) /\ DOMAIN answers' = DOMAIN answers
         /\ \A n \in DOMAIN answers :
              answers'[n] = IF sock = "open" /\ n \in {m} THEN answers[n] + 1
                            ELSE answers[n]
<1>1. answers' = IF sock = "open" THEN [answers EXCEPT ![m] = @ + 1] ELSE answers
  BY DEF Sent
<1> QED
  BY <1>1, SentSome

\* A channel without its first job.
LEMMA JobPopped ==
  ASSUME NEW q \in Seq(Job), q # <<>>
  PROVE  /\ Tail(q) \in Seq(Job) /\ Len(q) \in Nat /\ Len(q) > 0
         /\ Len(Tail(q)) = Len(q) - 1
         /\ DOMAIN q = 1 .. Len(q) /\ DOMAIN Tail(q) = 1 .. Len(q) - 1
         /\ \A i \in 1 .. Len(q) - 1 : Tail(q)[i] = q[i + 1]
         /\ Head(q) = q[1]
OBVIOUS

\* Worker e has popped the first job of its channel q, whose message is x; r is
\* left.  It has job k at hand and is at pc.
Popped(e, q, r, x, k, pc) ==
    /\ q = workers[e].jobs /\ r \in Seq(Job) /\ Len(q) \in Nat /\ Len(q) > 0
    /\ Len(r) = Len(q) - 1 /\ Len(r) <= MaxItems
    /\ DOMAIN q = 1 .. Len(q) /\ DOMAIN r = 1 .. Len(q) - 1
    /\ \A i \in 1 .. Len(q) - 1 : r[i] = q[i + 1]
    /\ x = q[1].msg
    /\ workers[e].pc # "none" /\ workers' \in [Entries -> Context]
    /\ \A f \in Entries : /\ workers'[f].txn = workers[f].txn
                          /\ workers'[f].used = workers[f].used
                          /\ workers'[f].deleted = workers[f].deleted
    /\ \A f \in Entries \ {e} : workers'[f] = workers[f]
    /\ workers'[e].jobs = r /\ workers'[e].pc = pc /\ workers'[e].job = k

\* How it gets there.
LEMMA PopTable ==
  ASSUME TypeOK, NEW e \in Entries, NEW q \in Seq(Job), q = workers[e].jobs,
         q # <<>>, NEW r, r = Tail(q), NEW x, x = Head(q).msg, NEW k \in Job,
         NEW pc \in {"quit", "loop", "again"}, workers[e].pc # "none",
         workers' = [workers EXCEPT ![e].jobs = r, ![e].job = k, ![e].pc = pc]
  PROVE  Popped(e, q, r, x, k, pc)
<1>1. /\ r \in Seq(Job) /\ Len(q) \in Nat /\ Len(q) > 0
      /\ Len(r) = Len(q) - 1
      /\ DOMAIN q = 1 .. Len(q) /\ DOMAIN r = 1 .. Len(q) - 1
      /\ \A i \in 1 .. Len(q) - 1 : r[i] = q[i + 1]
      /\ x = q[1].msg
  <2>1. /\ Tail(q) \in Seq(Job) /\ Len(q) \in Nat /\ Len(q) > 0
        /\ Len(Tail(q)) = Len(q) - 1
        /\ DOMAIN q = 1 .. Len(q) /\ DOMAIN Tail(q) = 1 .. Len(q) - 1
        /\ \A i \in 1 .. Len(q) - 1 : Tail(q)[i] = q[i + 1]
        /\ Head(q) = q[1]
    BY JobPopped, Zenon
  <2> QED BY <2>1, Zenon
<1>2. Len(q) <= MaxItems
  BY DEF TypeOK
<1>3. Len(r) <= MaxItems
  BY <1>1, <1>2, ServerAssumption
<1>4. PICK c \in Context : c = workers[e]
  BY DEF TypeOK
<1>5. PICK d : d = [c EXCEPT !.jobs = r, !.job = k, !.pc = pc]
  OBVIOUS
<1>6. /\ d \in Context /\ d.txn = c.txn /\ d.used = c.used /\ d.deleted = c.deleted
      /\ d.jobs = r /\ d.job = k /\ d.pc = pc
  BY <1>1, <1>5 DEF Context
<1>7. workers' = [workers EXCEPT ![e] = d]
  BY <1>4, <1>5 DEF TypeOK
<1>8. /\ workers' \in [Entries -> Context] /\ workers'[e] = d
      /\ \A f \in Entries \ {e} : workers'[f] = workers[f]
  BY <1>6, <1>7 DEF TypeOK
<1> QED
  BY <1>1, <1>3, <1>4, <1>6, <1>8 DEF Popped

\* A step of worker e after which message x does not wait
Leaves(e, x) ==
    /\ \A m : Waiting(m)' <=> Waiting(m) /\ m # x
    /\ \A f \in Entries \ {e} : workers'[f] = workers[f]

\* Its message waits from then on nowhere.
LEMMA PopStep ==
  ASSUME IInv, NEW e \in Entries, NEW q, NEW r, NEW x, NEW k,
         NEW pc \in {"quit", "loop", "again"}, Popped(e, q, r, x, k, pc),
         answers' \in Seq(Nat), DOMAIN answers' = DOMAIN answers,
         twice' \subseteq Nat, dropped' \subseteq Nat,
         UNCHANGED <<size, ret_ch, next_txn, mgr, sock>>
  PROVE  /\ TypeOK' /\ EntriesCounted' /\ TxnsIssued' /\ UniqueTxns'
         /\ ProbePath' /\ ManagerKnows' /\ JobInChannel' /\ JobsOfOwnTxn'
         /\ ApartAfter /\ x \in DOMAIN answers /\ Waiting(x) /\ Leaves(e, x)
         /\ workers'[e].pc = pc /\ workers'[e].job = k
<1>0. TypeOK /\ EntriesCounted /\ TxnsIssued /\ UniqueTxns /\ ProbePath
      /\ ManagerKnows /\ JobInChannel /\ JobsOfOwnTxn /\ WaitsOnce
  BY DEF IInv
<1>1. q = workers[e].jobs /\ workers[e].pc # "none"
  BY DEF Popped
<1>5. /\ r \in Seq(Job) /\ Len(q) \in Nat /\ Len(q) > 0
      /\ Len(r) = Len(q) - 1 /\ Len(r) <= MaxItems
      /\ DOMAIN q = 1 .. Len(q) /\ DOMAIN r = 1 .. Len(q) - 1
      /\ \A i \in 1 .. Len(q) - 1 : r[i] = q[i + 1]
      /\ x = q[1].msg
  BY DEF Popped
<1>9. workers' \in [Entries -> Context]
  BY DEF Popped
<1>10. /\ \A f \in Entries : /\ workers'[f].txn = workers[f].txn
                             /\ workers'[f].used = workers[f].used
                             /\ workers'[f].deleted = workers[f].deleted
       /\ \A f \in Entries \ {e} : workers'[f] = workers[f]
       /\ workers'[e].jobs = r /\ workers'[e].pc = pc /\ workers'[e].job = k
  BY DEF Popped
<1>11. SameTable
  BY <1>1, <1>10 DEF SameTable
<1>12. \A f \in Entries : Len(workers'[f].jobs) <= MaxItems
  BY <1>0, <1>5, <1>10 DEF TypeOK
<1>13. x \in DOMAIN answers
  BY <1>0, <1>1, <1>5 DEF WaitsOnce
<1>15. TypeOK'
  BY <1>0, <1>9, <1>12 DEF TypeOK
<1>16. /\ EntriesCounted' /\ TxnsIssued' /\ UniqueTxns' /\ ProbePath'
       /\ \A f \in Entries : Busy(f)' <=> Busy(f)
  BY <1>0, <1>11, TableFrame DEF At
<1>17. JobInChannel'
  BY <1>0, <1>10 DEF JobInChannel
<1>18. JobsOfOwnTxn'
  <2> SUFFICES ASSUME NEW f \in Entries, NEW i \in DOMAIN workers'[f].jobs
               PROVE  Busy(f)' /\ workers'[f].jobs[i].txn = workers'[f].txn
    BY DEF JobsOfOwnTxn
  <2>1. CASE f # e
    BY <1>0, <1>10, <1>16, <2>1 DEF JobsOfOwnTxn
  <2>2. CASE f = e
    <3>1. i \in 1 .. Len(q) - 1 /\ workers'[f].jobs[i] = q[i + 1]
          /\ i + 1 \in DOMAIN q
      BY <1>5, <1>10, <2>2
    <3> QED BY <1>0, <1>10, <1>16, <2>2, <1>1, <3>1 DEF JobsOfOwnTxn
  <2> QED BY <2>1, <2>2
<1>19. ASSUME NEW f \in Entries, NEW m
       PROVE  m \in Queued(f)' <=> m \in Queued(f) /\ m # x
  <2>1. CASE f # e
    <3>1. Queued(f)' = Queued(f)
      BY <1>10, <2>1 DEF Queued
    <3>2. x \notin Queued(f)
      <4> SUFFICES ASSUME NEW i \in DOMAIN workers[f].jobs, workers[f].jobs[i].msg = x
                   PROVE  FALSE
        BY DEF Queued
      <4>1. 1 \in DOMAIN workers[e].jobs /\ workers[e].jobs[1].msg = x
        BY <1>1, <1>5
      <4> QED BY <1>0, <2>1, <4>1 DEF WaitsOnce
    <3> QED BY <3>1, <3>2
  <2>2. CASE f = e
    <3>1. m \in Queued(e)' <=> \E i \in 1 .. Len(q) - 1 : q[i + 1].msg = m
      <4>1. DOMAIN workers'[e].jobs = 1 .. Len(q) - 1
        BY <1>5, <1>10
      <4>2. \A i \in 1 .. Len(q) - 1 : workers'[e].jobs[i].msg = q[i + 1].msg
        BY <1>5, <1>10
      <4>3. m \in Queued(e)'
              <=> \E i \in DOMAIN workers'[e].jobs : workers'[e].jobs[i].msg = m
        BY DEF Queued
      <4> QED BY <4>1, <4>2, <4>3
    <3>2. m \in Queued(e) <=> \E i \in 1 .. Len(q) : q[i].msg = m
      <4>1. m \in Queued(e)
              <=> \E i \in DOMAIN workers[e].jobs : workers[e].jobs[i].msg = m
        BY DEF Queued
      <4> QED BY <1>1, <1>5, <4>1
    <3>3. \A a, b \in 1 .. Len(q) : q[a].msg = q[b].msg => a = b
      BY <1>0, <1>1, <1>5 DEF WaitsOnce
    <3>4. \A i \in 1 .. Len(q) : q[i].msg # x <=> i - 1 \in 1 .. Len(q) - 1
      BY <1>5, <3>3
    <3>5. (\E i \in 1 .. Len(q) - 1 : q[i + 1].msg = m)
            <=> (\E i \in 1 .. Len(q) : q[i].msg = m) /\ m # x
      <4>1. ASSUME NEW i \in 1 .. Len(q) - 1, q[i + 1].msg = m
            PROVE  (\E n \in 1 .. Len(q) : q[n].msg = m) /\ m # x
        <5>1. i + 1 \in 1 .. Len(q) /\ (i + 1) - 1 \in 1 .. Len(q) - 1
          BY <1>5
        <5> QED BY <3>4, <4>1, <5>1
      <4>2. ASSUME NEW i \in 1 .. Len(q), q[i].msg = m, m # x
            PROVE  \E n \in 1 .. Len(q) - 1 : q[n + 1].msg = m
        <5>1. i - 1 \in 1 .. Len(q) - 1 /\ (i - 1) + 1 = i
          BY <1>5, <3>4, <4>2
        <5> QED BY <4>2, <5>1
      <4> QED BY <4>1, <4>2
    <3> QED BY <2>2, <3>1, <3>2, <3>5
  <2> QED BY <2>1, <2>2
<1>20. Starting' <=> Starting
  BY DEF Starting
<1>21. Starting => mgr.msg # x
  BY <1>0, <1>1, <1>5 DEF WaitsOnce
<1>22. \A m : Waiting(m)' <=> Waiting(m) /\ m # x
  BY <1>19, <1>20, <1>21 DEF Waiting
<1>23. Waiting(x)
  BY <1>1, <1>5 DEF Waiting, Queued
<1>24. ApartAfter
  <2>1. \A f \in Entries, i \in Nat : i \in DOMAIN workers'[f].jobs =>
          \E n \in DOMAIN workers[f].jobs :
             /\ workers'[f].jobs[i] = workers[f].jobs[n]
             /\ n = IF f = e THEN i + 1 ELSE i
    <3> SUFFICES ASSUME NEW f \in Entries, NEW i \in Nat, i \in DOMAIN workers'[f].jobs
                 PROVE  \E n \in DOMAIN workers[f].jobs :
                          /\ workers'[f].jobs[i] = workers[f].jobs[n]
                          /\ n = IF f = e THEN i + 1 ELSE i
      OBVIOUS
    <3>1. CASE f # e
      BY <1>10, <3>1
    <3>2. CASE f = e
      <4>1. i \in 1 .. Len(q) - 1 /\ i + 1 \in DOMAIN q /\ r[i] = q[i + 1]
        BY <1>5, <1>10, <3>2
      <4> QED BY <1>1, <1>10, <3>2, <4>1
    <3> QED BY <3>1, <3>2
  <2>2. \A f \in Entries : DOMAIN workers'[f].jobs \subseteq Nat
    BY <1>9 DEF Context
  <2>3. ASSUME NEW f \in Entries, NEW g \in Entries,
               NEW a \in DOMAIN workers'[f].jobs, NEW b \in DOMAIN workers'[g].jobs,
               workers'[f].jobs[a].msg = workers'[g].jobs[b].msg
        PROVE  f = g /\ a = b
    <3>1. a \in Nat /\ b \in Nat
      BY <2>2
    <3>2. PICK n \in DOMAIN workers[f].jobs :
             /\ workers'[f].jobs[a] = workers[f].jobs[n]
             /\ n = IF f = e THEN a + 1 ELSE a
      BY <2>1, <3>1
    <3>3. PICK l \in DOMAIN workers[g].jobs :
             /\ workers'[g].jobs[b] = workers[g].jobs[l]
             /\ l = IF g = e THEN b + 1 ELSE b
      BY <2>1, <3>1
    <3>3a. workers[f].jobs[n].msg = workers[g].jobs[l].msg
      BY <2>3, <3>2, <3>3
    <3>4. f = g /\ n = l
      BY <1>0, <3>3a DEF WaitsOnce
    <3> QED BY <3>1, <3>2, <3>3, <3>4
  <2>4. ASSUME NEW f \in Entries, NEW a \in DOMAIN workers'[f].jobs
        PROVE  /\ workers'[f].jobs[a].msg \in DOMAIN answers'
               /\ Starting' => workers'[f].jobs[a].msg # mgr'.msg
    <3>1. a \in Nat
      BY <2>2
    <3>2. PICK n \in DOMAIN workers[f].jobs :
             workers'[f].jobs[a] = workers[f].jobs[n]
      BY <2>1, <3>1
    <3> QED BY <1>0, <1>20, <3>2 DEF WaitsOnce
  <2> QED BY <2>3, <2>4 DEF ApartAfter
<1>25. ManagerKnows'
  <2>1. PICK g \in Entries : g = mgr.entry /\ g = mgr'.entry
    BY <1>0 DEF TypeOK, ManagerState
  <2>2. At("first") => /\ g # e /\ Busy(g) /\ workers[g].txn = next_txn
                       /\ workers[g].jobs = <<>>
    <3>1. At("first") => Busy(g) /\ workers[g].txn = next_txn /\ workers[g].jobs = <<>>
      BY <1>0, <2>1 DEF ManagerKnows
    <3>2. q # <<>>
      BY <1>5
    <3> QED BY <1>1, <3>1, <3>2
  <2>3. At("first") => /\ Busy(g)' /\ workers'[g].txn = next_txn
                       /\ workers'[g].jobs = <<>>
    BY <1>10, <1>16, <2>2
  <2> QED BY <1>0, <1>20, <2>1, <2>3 DEF ManagerKnows, At, Busy
<1> QED
  BY <1>10, <1>13, <1>15, <1>16, <1>17, <1>18, <1>22, <1>23, <1>24, <1>25 DEF Leaves

\* A step of worker e in which message y, which no other worker is about to
\* answer, gets d answers
Gets(e, y, d) ==
    /\ DOMAIN answers' = DOMAIN answers
    /\ \A m \in DOMAIN answers :
         answers'[m] = IF m = y THEN answers[m] + d ELSE answers[m]
    /\ \A f \in Entries \ {e} : workers[f].pc = "again" => workers[f].job.msg # y

\* What is known of the messages after a step of worker e in which message x
\* stops to wait, if it did, and message y gets d answers.
LEMMA PoppedMessages ==
  ASSUME IInv, NEW e \in Entries, NEW x \in DOMAIN answers,
         NEW y \in DOMAIN answers, NEW d \in {0, 1, 2}, ApartAfter,
         Leaves(e, x), Gets(e, y, d), sock' = sock, y # x => ~Waiting(y),
         twice \subseteq twice', dropped \subseteq dropped',
         answers'[y] <= IF y \in twice' THEN 2 ELSE 1,
         sock = "open" => answers'[x] > 0 \/ x \in dropped',
         workers'[e].pc = "again" => /\ workers'[e].job.msg = x /\ Waiting(x)
                                     /\ answers'[x] <= 1
  PROVE  WaitsOnce' /\ AgainOnce' /\ AtMostTwice' /\ AnsweredOrWaits'
<1> USE DEF Leaves, Gets
<1>0. WaitsOnce /\ AgainOnce /\ AtMostTwice /\ AnsweredOrWaits
  BY DEF IInv
<1>1. \A m \in DOMAIN answers : answers[m] \in Nat
  BY DEF IInv, TypeOK
<1>2. ~Waiting(y)' /\ ~Waiting(x)'
  OBVIOUS
<1>3. WaitsOnce'
  <2>1. \A m \in DOMAIN answers' : Waiting(m)' => answers'[m] = 0
    <3> SUFFICES ASSUME NEW m \in DOMAIN answers, Waiting(m)' PROVE answers'[m] = 0
      OBVIOUS
    <3>1. m # y
      BY <1>2 DEF Waiting
    <3> QED BY <1>0, <3>1 DEF WaitsOnce
  <2> QED BY <2>1 DEF WaitsOnce, ApartAfter
<1>4. AtMostTwice'
  <2> SUFFICES ASSUME NEW m \in DOMAIN answers
               PROVE  answers'[m] <= IF m \in twice' THEN 2 ELSE 1
    BY DEF AtMostTwice
  <2>1. CASE m = y
    BY <2>1
  <2>2. CASE m # y
    <3>1. answers'[m] = answers[m] /\ answers[m] \in Nat
      BY <1>1, <2>2
    <3>2. answers[m] <= IF m \in twice THEN 2 ELSE 1
      BY <1>0 DEF AtMostTwice
    <3>3. m \in twice => m \in twice'
      OBVIOUS
    <3> QED BY <3>1, <3>2, <3>3
  <2> QED BY <2>1, <2>2
<1>5. AnsweredOrWaits'
  <2> SUFFICES ASSUME sock = "open", NEW m \in DOMAIN answers
               PROVE  answers'[m] > 0 \/ Waiting(m)' \/ m \in dropped'
    BY DEF AnsweredOrWaits
  <2>1. answers[m] > 0 => answers'[m] > 0
    BY <1>1
  <2>2. answers[m] > 0 \/ Waiting(m) \/ m \in dropped
    BY <1>0 DEF AnsweredOrWaits
  <2>3. CASE m = x
    BY <2>3
  <2>4. CASE m # x
    BY <2>1, <2>2, <2>4
  <2> QED BY <2>3, <2>4
<1>6. AgainOnce'
  <2>1. ASSUME NEW f \in Entries \ {e}, workers'[f].pc = "again"
        PROVE  \E z \in DOMAIN answers :
                  /\ z = workers'[f].job.msg /\ z = workers[f].job.msg
                  /\ ~Waiting(z) /\ ~Waiting(z)' /\ answers'[z] <= 1
    <3>1. PICK z : z = workers[f].job.msg
      OBVIOUS
    <3>2. /\ z \in DOMAIN answers /\ ~Waiting(z) /\ answers[z] <= 1 /\ z # y
          /\ workers'[f].job.msg = z
      BY <1>0, <2>1, <3>1 DEF AgainOnce
    <3> QED BY <3>1, <3>2
  <2>2. ASSUME NEW f \in Entries, workers'[f].pc = "again"
        PROVE  /\ workers'[f].job.msg \in DOMAIN answers'
               /\ ~Waiting(workers[f].job.msg)'
               /\ answers'[workers'[f].job.msg] <= 1
    <3>1. PICK z \in DOMAIN answers : /\ z = workers'[f].job.msg
                                      /\ ~Waiting(z)' /\ answers'[z] <= 1
      BY <1>2, <2>1, <2>2
    <3>2. Waiting(workers[f].job.msg)' <=> Waiting(z)'
      BY <3>1 DEF Waiting
    <3> QED BY <3>1, <3>2
  <2>3. ASSUME NEW f \in Entries, NEW g \in Entries,
               workers'[f].pc = "again", workers'[g].pc = "again",
               workers'[f].job.msg = workers'[g].job.msg
        PROVE  f = g
    <3>1. CASE f = e \/ g = e
      BY <2>1, <2>3, <3>1
    <3>2. CASE f # e /\ g # e
      BY <1>0, <2>3, <3>2 DEF AgainOnce
    <3> QED BY <3>1, <3>2
  <2> QED BY <2>2, <2>3 DEF AgainOnce
<1> QED
  BY <1>3, <1>4, <1>5, <1>6

\* The job a worker has at hand is the first of its channel.
LEMMA JobAtHand ==
  ASSUME IInv, NEW e \in Entries, workers[e].pc = "busy"
  PROVE  \E q \in Seq(Job), j \in Job :
           /\ q = workers[e].jobs /\ q # <<>> /\ j = Head(q)
           /\ j = workers[e].job /\ j.msg \in DOMAIN answers /\ j.msg \in Nat
           /\ Waiting(j.msg) /\ answers[j.msg] = 0
<1>0. TypeOK /\ JobInChannel /\ WaitsOnce
  BY DEF IInv
<1>1. PICK q \in Seq(Job), j \in Job : q = workers[e].jobs /\ j = workers[e].job
  BY <1>0 DEF TypeOK, Context
<1>2. q # <<>> /\ j = Head(q)
  BY <1>0, <1>1 DEF JobInChannel
<1>3. 1 \in DOMAIN q /\ j = q[1]
  BY <1>2
<1>4. j.msg \in DOMAIN answers /\ Waiting(j.msg) /\ j.msg \in Nat
  BY <1>0, <1>1, <1>3 DEF WaitsOnce, Waiting, Queued, Job
<1> QED
  BY <1>0, <1>1, <1>2, <1>4 DEF WaitsOnce

\* Worker e gives d answers to its job and pops it.
Answers(e, d, k, pc) ==
    /\ workers[e].pc = "busy"
    /\ workers' = [workers EXCEPT ![e].jobs = Tail(workers[e].jobs),
                                  ![e].job = k, ![e].pc = pc]
    /\ answers' = IF sock = "open"
                  THEN [answers EXCEPT ![workers[e].job.msg] = @ + d]
                  ELSE answers
    /\ twice' = IF d = 1 THEN twice ELSE twice \cup {workers[e].job.msg}
    /\ pc = "again" => d = 1 /\ k = workers[e].job
    /\ UNCHANGED <<size, ret_ch, next_txn, mgr, sock, dropped>>

\* A job answered once or twice by its handler, which pops it once.
LEMMA AnswerStep ==
  ASSUME IInv, NEW e \in Entries, NEW d \in {1, 2},
         NEW k \in Job, NEW pc \in {"quit", "loop", "again"},
         Answers(e, d, k, pc)
  PROVE  IInv'
<1>0. TypeOK /\ AgainOnce /\ workers[e].pc # "none"
  BY DEF IInv, Answers
<1>0a. UNCHANGED <<size, ret_ch, next_txn, mgr, sock>> /\ dropped' = dropped
  BY DEF Answers
<1>1. PICK q \in Seq(Job), j \in Job :
         /\ q = workers[e].jobs /\ q # <<>> /\ j = Head(q)
         /\ j = workers[e].job /\ j.msg \in DOMAIN answers /\ j.msg \in Nat
         /\ Waiting(j.msg) /\ answers[j.msg] = 0
  BY JobAtHand DEF Answers
<1>2. PICK x, r : x = j.msg /\ r = Tail(q)
  OBVIOUS
<1>2a. x \in DOMAIN answers
  BY <1>1, <1>2
<1>3. /\ answers' \in Seq(Nat) /\ DOMAIN answers' = DOMAIN answers
      /\ \A n \in DOMAIN answers :
           answers'[n] = IF sock = "open" /\ n \in {x} THEN answers[n] + d
                         ELSE answers[n]
  <2>1. answers' = IF sock = "open" THEN [answers EXCEPT ![x] = @ + d] ELSE answers
    BY <1>1, <1>2 DEF Answers
  <2>2. answers \in Seq(Nat)
    BY <1>0 DEF TypeOK
  <2> QED BY <1>2a, <2>1, <2>2, SentSome
<1>4. workers' = [workers EXCEPT ![e].jobs = r, ![e].job = k, ![e].pc = pc]
  BY <1>1, <1>2 DEF Answers
<1>4a. twice' = IF d = 1 THEN twice ELSE twice \cup {x}
  BY <1>1, <1>2 DEF Answers
<1>5. /\ twice' \subseteq Nat /\ dropped' \subseteq Nat /\ x = Head(q).msg
      /\ twice \subseteq twice' /\ dropped \subseteq dropped'
  BY <1>0, <1>0a, <1>1, <1>2, <1>4a DEF TypeOK
<1>6. /\ TypeOK' /\ EntriesCounted' /\ TxnsIssued' /\ UniqueTxns'
      /\ ProbePath' /\ ManagerKnows' /\ JobInChannel' /\ JobsOfOwnTxn'
      /\ ApartAfter /\ Waiting(x) /\ Leaves(e, x)
      /\ workers'[e].pc = pc /\ workers'[e].job = k
  <2>1. Popped(e, q, r, x, k, pc)
    BY <1>0, <1>1, <1>2, <1>4, <1>5, PopTable
  <2>2. answers' \in Seq(Nat) /\ DOMAIN answers' = DOMAIN answers
    BY <1>3
  <2>3. twice' \subseteq Nat /\ dropped' \subseteq Nat
    BY <1>5
  <2>4. UNCHANGED <<size, ret_ch, next_txn, mgr, sock>>
    BY <1>0a
  <2>5. pc \in {"quit", "loop", "again"}
    OBVIOUS
  <2>6. TypeOK' /\ EntriesCounted' /\ TxnsIssued' /\ UniqueTxns' /\ ProbePath'
    BY <2>1, <2>2, <2>3, <2>4, <2>5, PopStep
  <2>7. ManagerKnows' /\ JobInChannel' /\ JobsOfOwnTxn' /\ ApartAfter
    BY <2>1, <2>2, <2>3, <2>4, <2>5, PopStep
  <2>8. Waiting(x) /\ Leaves(e, x)
    BY <2>1, <2>2, <2>3, <2>4, <2>5, PopStep
  <2>9. workers'[e].pc = pc /\ workers'[e].job = k
    BY <2>1 DEF Popped
  <2> QED BY <2>6, <2>7, <2>8, <2>9
<1>7. PICK n \in {0, 1, 2} : n = IF sock = "open" THEN d ELSE 0
  OBVIOUS
<1>8. /\ \A m \in DOMAIN answers :
           answers'[m] = IF m = x THEN answers[m] + n ELSE answers[m]
      /\ answers'[x] = n
  <2>1. \A m \in DOMAIN answers : answers[m] \in Nat
    BY <1>0 DEF TypeOK
  <2>2. answers[x] = 0
    BY <1>1, <1>2
  <2>3. CASE sock = "open"
    BY <1>2a, <1>3, <1>7, <2>1, <2>2, <2>3
  <2>4. CASE sock # "open"
    BY <1>2a, <1>3, <1>7, <2>1, <2>2, <2>4
  <2> QED BY <2>3, <2>4
<1>9. \A f \in Entries \ {e} : workers[f].pc = "again" => workers[f].job.msg # x
  BY <1>0, <1>6 DEF AgainOnce
<1>10. /\ answers'[x] <= IF x \in twice' THEN 2 ELSE 1
       /\ sock = "open" => answers'[x] > 0
  BY <1>4a, <1>7, <1>8
<1>11. workers'[e].pc = "again" => workers'[e].job.msg = x /\ answers'[x] <= 1
  <2>1. pc = "again" => d = 1 /\ k.msg = x
    BY <1>1, <1>2 DEF Answers
  <2> QED BY <1>6, <1>7, <1>8, <2>1
<1>12. WaitsOnce' /\ AgainOnce' /\ AtMostTwice' /\ AnsweredOrWaits'
  <2>2. Gets(e, x, n)
    BY <1>3, <1>8, <1>9 DEF Gets
  <2>3. ApartAfter /\ Waiting(x) /\ sock' = sock
    BY <1>0a, <1>6
  <2>4. twice \subseteq twice' /\ dropped \subseteq dropped'
    BY <1>5
  <2> QED BY <1>2a, <1>6, <1>10, <1>11, <2>2, <2>3, <2>4, PoppedMessages
<1> QED
  BY <1>6, <1>12 DEF IInv

\* WorkerAnswer, WorkerFull and WorkerReread are such steps.
LEMMA WorkerAnswerStep ==
  ASSUME IInv, NEW e \in Entries,
         WorkerAnswer(e) \/ WorkerFull(e) \/ WorkerReread(e)
  PROVE  IInv'
<1>0. TypeOK
  BY DEF IInv
<1>1. NoJob \in Job
  BY ServerAssumption DEF NoJob, Job, TxnIds
<1>2. workers[e].pc = "busy"
  BY DEF WorkerAnswer, WorkerFull, WorkerReread, Thread
<1>3. CASE WorkerAnswer(e)
  <2>1. PICK pc \in {"quit", "loop"} :
          workers' = [workers EXCEPT ![e].jobs = Tail(workers[e].jobs),
                                     ![e].job = NoJob, ![e].pc = pc]
    BY <1>0, <1>3 DEF WorkerAnswer, TypeOK, Context
  <2>2. answers' = IF sock = "open"
                   THEN [answers EXCEPT ![workers[e].job.msg] = @ + 1] ELSE answers
    BY <1>3 DEF WorkerAnswer, Sent
  <2>3. Answers(e, 1, NoJob, pc)
    BY <1>2, <1>3, <2>1, <2>2 DEF WorkerAnswer, Answers
  <2> QED BY <1>1, <2>3, AnswerStep
<1>4. CASE WorkerFull(e)
  <2>1. workers' = [workers EXCEPT ![e].jobs = Tail(workers[e].jobs),
                                   ![e].job = NoJob, ![e].pc = "loop"]
    BY <1>0, <1>4 DEF WorkerFull, TypeOK, Context
  <2>2. /\ answers' = IF sock = "open"
                      THEN [answers EXCEPT ![workers[e].job.msg] = @ + 2] ELSE answers
        /\ twice' = twice \cup {workers[e].job.msg}
        /\ UNCHANGED <<size, ret_ch, next_txn, mgr, sock, dropped>>
    BY <1>4 DEF WorkerFull
  <2>3. PICK d \in {1, 2} : d = 2
    OBVIOUS
  <2>4. /\ answers' = IF sock = "open"
                      THEN [answers EXCEPT ![workers[e].job.msg] = @ + d] ELSE answers
        /\ twice' = IF d = 1 THEN twice ELSE twice \cup {workers[e].job.msg}
    BY <2>2, <2>3
  <2>5. Answers(e, d, NoJob, "loop")
    BY <1>2, <2>1, <2>2, <2>4 DEF Answers
  <2> QED BY <1>1, <2>5, AnswerStep
<1>5. CASE WorkerReread(e)
  <2>1. PICK k \in Job : k = workers[e].job
    BY <1>0 DEF TypeOK, Context
  <2>2. workers' = [workers EXCEPT ![e].jobs = Tail(workers[e].jobs),
                                   ![e].job = k, ![e].pc = "again"]
    BY <1>0, <1>5, <2>1 DEF WorkerReread, TypeOK, Context
  <2>3. answers' = IF sock = "open"
                   THEN [answers EXCEPT ![workers[e].job.msg] = @ + 1] ELSE answers
    BY <1>5 DEF WorkerReread, Sent
  <2>4. Answers(e, 1, k, "again")
    BY <1>2, <1>5, <2>1, <2>2, <2>3 DEF WorkerReread, Answers
  <2> QED BY <2>4, AnswerStep
<1> QED
  BY <1>3, <1>4, <1>5

\* The second reply to a re-read.
LEMMA SecondReply ==
  ASSUME IInv, NEW e \in Entries, WorkerRereadEnd(e)
  PROVE  \E y \in DOMAIN answers, d \in {0, 1} :
           /\ y = workers[e].job.msg /\ y \in Nat /\ ~Waiting(y)
           /\ twice' = twice \cup {y}
           /\ answers' \in Seq(Nat) /\ DOMAIN answers' = DOMAIN answers
           /\ \A m \in DOMAIN answers :
                answers'[m] = IF m = y THEN answers[m] + d ELSE answers[m]
           /\ answers'[y] <= 2
           /\ sock = "open" => answers'[y] > 0
           /\ \A f \in Entries \ {e} :
                workers[f].pc = "again" => workers[f].job.msg # y
<1>0. TypeOK /\ AgainOnce /\ workers[e].pc = "again"
  BY DEF IInv, WorkerRereadEnd, Thread
<1>1. PICK y \in DOMAIN answers :
         /\ y = workers[e].job.msg /\ ~Waiting(y) /\ answers[y] <= 1
  BY <1>0 DEF AgainOnce
<1>2. /\ answers \in Seq(Nat) /\ y \in Nat
      /\ \A m \in DOMAIN answers : answers[m] \in Nat
  BY <1>0 DEF TypeOK
<1>3. answers' = Sent(answers, y) /\ twice' = twice \cup {y}
  BY <1>1 DEF WorkerRereadEnd
<1>4. /\ answers' \in Seq(Nat) /\ DOMAIN answers' = DOMAIN answers
      /\ \A n \in DOMAIN answers :
           answers'[n] = IF sock = "open" /\ n \in {y} THEN answers[n] + 1
                         ELSE answers[n]
  BY <1>2, <1>3, SentOne
<1>5. PICK d \in {0, 1} : d = IF sock = "open" THEN 1 ELSE 0
  OBVIOUS
<1>6. /\ \A m \in DOMAIN answers :
           answers'[m] = IF m = y THEN answers[m] + d ELSE answers[m]
      /\ answers'[y] <= 2
      /\ sock = "open" => answers'[y] > 0
  BY <1>1, <1>2, <1>4, <1>5
<1>7. \A f \in Entries \ {e} : workers[f].pc = "again" => workers[f].job.msg # y
  BY <1>0, <1>1 DEF AgainOnce
<1> QED
  BY <1>1, <1>2, <1>3, <1>4, <1>6, <1>7

\* The second pop takes off the next job, ...
LEMMA RereadDrops ==
  ASSUME IInv, NEW e \in Entries, WorkerRereadEnd(e), workers[e].jobs # <<>>
  PROVE  IInv'
<1>0. TypeOK /\ workers[e].pc # "none"
  BY DEF IInv, WorkerRereadEnd, Thread
<1>1. PICK y \in DOMAIN answers, d \in {0, 1} :
         /\ y \in Nat /\ ~Waiting(y)
         /\ twice' = twice \cup {y}
         /\ answers' \in Seq(Nat) /\ DOMAIN answers' = DOMAIN answers
         /\ \A m \in DOMAIN answers :
              answers'[m] = IF m = y THEN answers[m] + d ELSE answers[m]
         /\ answers'[y] <= 2
         /\ \A f \in Entries \ {e} :
              workers[f].pc = "again" => workers[f].job.msg # y
  BY SecondReply
<1>2. PICK q \in Seq(Job) : q = workers[e].jobs
  BY <1>0 DEF TypeOK, Context
<1>3. PICK r, x : r = Tail(q) /\ x = Head(q).msg
  OBVIOUS
<1>4. NoJob \in Job
  BY ServerAssumption DEF NoJob, Job, TxnIds
<1>5. /\ workers' = [workers EXCEPT ![e].jobs = r, ![e].job = NoJob, ![e].pc = "loop"]
      /\ dropped' = dropped \cup {x}
      /\ UNCHANGED <<size, ret_ch, next_txn, mgr, sock>>
  BY <1>0, <1>2, <1>3 DEF WorkerRereadEnd, TypeOK, Context
<1>6. x \in Nat
  <2>1. Head(q) \in Job
    BY <1>2
  <2> QED BY <1>3, <2>1 DEF Job
<1>7. q # <<>> /\ twice' \subseteq Nat /\ dropped' \subseteq Nat
  BY <1>0, <1>1, <1>2, <1>5, <1>6 DEF TypeOK
<1>8. /\ TypeOK' /\ EntriesCounted' /\ TxnsIssued' /\ UniqueTxns'
      /\ ProbePath' /\ ManagerKnows' /\ JobInChannel' /\ JobsOfOwnTxn'
      /\ ApartAfter /\ x \in DOMAIN answers /\ Waiting(x) /\ Leaves(e, x)
      /\ workers'[e].pc = "loop"
  <2>1. Popped(e, q, r, x, NoJob, "loop")
    BY <1>0, <1>2, <1>3, <1>4, <1>5, <1>7, PopTable
  <2> QED BY <1>1, <1>5, <1>7, <2>1, PopStep
<1>9. WaitsOnce' /\ AgainOnce' /\ AtMostTwice' /\ AnsweredOrWaits'
  <2>1. /\ twice \subseteq twice' /\ dropped \subseteq dropped' /\ x \in dropped'
        /\ y \in twice' /\ sock' = sock
    BY <1>1, <1>5
  <2>2. workers'[e].pc # "again"
    BY <1>8
  <2>3. answers'[y] <= IF y \in twice' THEN 2 ELSE 1
    BY <1>1, <2>1
  <2>4. d \in {0, 1, 2} /\ ~Waiting(y)
    BY <1>1
  <2>6. Gets(e, y, d)
    BY <1>1 DEF Gets
  <2>7. ApartAfter /\ x \in DOMAIN answers
    BY <1>8
  <2> QED BY <2>1, <2>2, <2>3, <2>4, <1>8, <2>6, <2>7, PoppedMessages
<1> QED
  BY <1>8, <1>9 DEF IInv

\* ... or there is none.
LEMMA RereadAstray ==
  ASSUME IInv, NEW e \in Entries, WorkerRereadEnd(e), workers[e].jobs = <<>>
  PROVE  IInv'
<1>0. TypeOK /\ EntriesCounted /\ TxnsIssued /\ UniqueTxns /\ ProbePath
      /\ ManagerKnows /\ JobInChannel /\ JobsOfOwnTxn /\ WaitsOnce
      /\ workers[e].pc = "again"
  BY DEF IInv, WorkerRereadEnd, Thread
<1>1. PICK y \in DOMAIN answers, d \in {0, 1} :
         /\ y \in Nat /\ ~Waiting(y)
         /\ twice' = twice \cup {y}
         /\ answers' \in Seq(Nat) /\ DOMAIN answers' = DOMAIN answers
         /\ \A m \in DOMAIN answers :
              answers'[m] = IF m = y THEN answers[m] + d ELSE answers[m]
         /\ answers'[y] <= 2
         /\ sock = "open" => answers'[y] > 0
         /\ \A f \in Entries \ {e} :
              workers[f].pc = "again" => workers[f].job.msg # y
  BY SecondReply
<1>2. /\ workers' = [workers EXCEPT ![e].job = NoJob, ![e].pc = "astray"]
      /\ UNCHANGED <<size, ret_ch, next_txn, mgr, sock, dropped>>
  BY DEF WorkerRereadEnd
<1>3. NoJob \in Job
  BY ServerAssumption DEF NoJob, Job, TxnIds
<1>4. /\ workers' \in [Entries -> Context] /\ SameTable /\ SameJobs
      /\ \A f \in Entries \ {e} : workers'[f] = workers[f]
      /\ workers'[e].pc = "astray"
  BY <1>0, <1>2, <1>3 DEF TypeOK, Context, SameTable, SameJobs
<1>5. TypeOK'
  BY <1>0, <1>1, <1>2, <1>4 DEF TypeOK, SameJobs
<1>6. /\ EntriesCounted' /\ TxnsIssued' /\ UniqueTxns' /\ ProbePath'
      /\ \A f \in Entries : Busy(f)' <=> Busy(f)
  BY <1>0, <1>2, <1>4, TableFrame DEF At
<1>7. JobInChannel'
  BY <1>0, <1>4 DEF JobInChannel, SameJobs
<1>8. JobsOfOwnTxn'
  BY <1>0, <1>4, <1>6 DEF JobsOfOwnTxn, SameJobs, SameTable
<1>9. ManagerKnows'
  <2>1. PICK g \in Entries : g = mgr.entry /\ mgr' = mgr
    BY <1>0, <1>2 DEF TypeOK, ManagerState
  <2>2. At("first") => /\ Busy(g)' /\ workers'[g].txn = next_txn
                       /\ workers'[g].jobs = <<>>
    BY <1>0, <1>4, <1>6, <2>1 DEF ManagerKnows, SameTable, SameJobs
  <2> QED BY <1>0, <1>1, <1>2, <2>1, <2>2 DEF ManagerKnows, Starting, At, Busy
<1>10. \A f \in Entries : Queued(f)' = Queued(f)
  BY <1>4 DEF SameJobs, Queued
<1>11. \A m : Waiting(m)' <=> Waiting(m) /\ m # y
  BY <1>1, <1>2, <1>10 DEF Waiting, Starting
<1>12. ApartAfter
  BY <1>0, <1>1, <1>2, <1>4 DEF ApartAfter, WaitsOnce, SameJobs, Starting
<1>13. WaitsOnce' /\ AgainOnce' /\ AtMostTwice' /\ AnsweredOrWaits'
  <2>1. Leaves(e, y)
    BY <1>4, <1>11 DEF Leaves
  <2>2. Gets(e, y, d) /\ d \in {0, 1, 2} /\ workers'[e].pc # "again"
    BY <1>1, <1>4 DEF Gets
  <2>3. /\ twice \subseteq twice' /\ dropped \subseteq dropped' /\ sock' = sock
        /\ answers'[y] <= IF y \in twice' THEN 2 ELSE 1
    BY <1>1, <1>2
  <2>4. sock = "open" => answers'[y] > 0
    BY <1>1
  <2> QED BY <1>12, <2>1, <2>2, <2>3, <2>4, PoppedMessages
<1> QED
  BY <1>5, <1>6, <1>7, <1>8, <1>9, <1>13 DEF IInv

-----------------------------------------------------------------------------
(* Workers joined *)

\* The entry of a joined worker: marked, without thread and without jobs.
LEMMA JoinedTable ==
  ASSUME TypeOK, NEW e \in Entries, workers' = [workers EXCEPT ![e] = Joined(e)]
  PROVE  /\ workers' \in [Entries -> Context]
         /\ \A f \in Entries \ {e} : workers'[f] = workers[f]
         /\ \A f \in Entries : /\ workers'[f].used = workers[f].used
                               /\ workers'[f].txn = workers[f].txn
                               /\ Len(workers'[f].jobs) <= MaxItems
         /\ workers'[e].deleted /\ workers'[e].pc = "none"
         /\ workers'[e].jobs = <<>>
<1>1. PICK c \in Context : c = workers[e]
  BY DEF TypeOK
<1>2. PICK d : d = [c EXCEPT !.pc = "none", !.jobs = <<>>, !.running = FALSE,
                             !.deleted = TRUE]
  OBVIOUS
<1>3. <<>> \in Seq(Job)
  OBVIOUS
<1>4. /\ d \in Context /\ d.used = c.used /\ d.txn = c.txn
      /\ d.deleted /\ d.pc = "none" /\ d.jobs = <<>>
  BY <1>2, <1>3 DEF Context
<1>5. workers' = [workers EXCEPT ![e] = d]
  BY <1>1, <1>2 DEF Joined
<1>6. Len(<<>>) <= MaxItems
  BY ServerAssumption
<1>7. workers' \in [Entries -> Context] /\ workers'[e] = d
      /\ \A f \in Entries \ {e} : workers'[f] = workers[f]
  BY <1>4, <1>5 DEF TypeOK
<1>8. \A f \in Entries : Len(workers'[f].jobs) <= MaxItems
  BY <1>4, <1>6, <1>7 DEF TypeOK
<1> QED
  BY <1>1, <1>4, <1>7, <1>8

\* The entry is in use no more, and size_ counts one less.
LEMMA JoinedCount ==
  ASSUME IInv, NEW e \in Entries, Busy(e), size' = size - 1,
         workers' = [workers EXCEPT ![e] = Joined(e)]
  PROVE  /\ EntriesCounted' /\ size' \in 0 .. MaxTxns
         /\ \A f \in Entries : Busy(f)' <=> Busy(f) /\ f # e
<1>0. TypeOK /\ EntriesCounted
  BY DEF IInv
<1>1. /\ \A f \in Entries \ {e} : workers'[f] = workers[f]
      /\ workers'[e].deleted /\ workers'[e].pc = "none"
  BY <1>0, JoinedTable
<1>2. \A f \in Entries : Busy(f)' <=> Busy(f) /\ f # e
  BY <1>1 DEF Busy
<1> DEFINE B == {f \in Entries : Busy(f)}
           C == {f \in Entries : Busy(f)'}
<1>3. C = B \ {e} /\ e \in B /\ B \in SUBSET Entries /\ C \in SUBSET Entries
  BY <1>2
<1> HIDE DEF B, C
<1>4. /\ IsFiniteSet(B) /\ Cardinality(B) \in 0 .. MaxTxns
      /\ Cardinality(C) \in 0 .. MaxTxns
  BY <1>3, EntriesFinite
<1>5. Cardinality(C) = Cardinality(B) - 1
  BY <1>3, <1>4, FS_RemoveElement
<1>6. size' = Cardinality(C)
  BY <1>0, <1>5 DEF EntriesCounted, B
<1>7. EntriesCounted'
  <2>1. \A f \in Entries : Busy(f)' <=> workers'[f].pc # "none"
    BY <1>0, <1>1, <1>2 DEF EntriesCounted
  <2> QED BY <1>6, <2>1 DEF EntriesCounted, C
<1> QED
  BY <1>2, <1>4, <1>6, <1>7

\* The answers that join gives.
LEMMA DrainedAnswers ==
  ASSUME TypeOK, NEW e \in Entries, answers' = Drained(e)
  PROVE  /\ answers' \in Seq(Nat) /\ DOMAIN answers' = DOMAIN answers
         /\ \A m \in DOMAIN answers :
              answers'[m] = IF sock = "open" /\ m \in Queued(e)
                            THEN answers[m] + 1 ELSE answers[m]
<1>1. /\ answers \in Seq(Nat) /\ DOMAIN answers = 1 .. Len(answers)
      /\ Len(answers) \in Nat
      /\ \A m \in 1 .. Len(answers) : answers[m] \in Nat
  BY DEF TypeOK
<1>2. /\ DOMAIN answers' = DOMAIN answers
      /\ \A m \in DOMAIN answers :
           answers'[m] = IF sock = "open" /\ m \in Queued(e)
                         THEN answers[m] + 1 ELSE answers[m]
  BY DEF Drained
<1>3. \A m \in 1 .. Len(answers) : answers'[m] \in Nat
  BY <1>1, <1>2
<1>4. answers' = [m \in 1 .. Len(answers) |-> answers'[m]]
  BY <1>1, <1>2 DEF Drained
<1>5. answers' \in Seq(Nat)
  BY <1>1, <1>3, <1>4
<1> QED
  BY <1>2, <1>5

\* A worker that ended is joined, by remove or at the end.
LEMMA JoinStep ==
  ASSUME IInv, NEW e \in Entries, workers[e].pc = "exited",
         workers' = [workers EXCEPT ![e] = Joined(e)],
         answers' = Drained(e), size' = size - 1,
         ret_ch' \in Ring, mgr' \in ManagerState,
         Starting' <=> Starting, Starting => mgr'.msg = mgr.msg,
         ~At("first"), ~At("first")', ~At("remove")',
         UNCHANGED <<next_txn, sock, twice, dropped>>
  PROVE  IInv'
<1>0. TypeOK /\ EntriesCounted /\ TxnsIssued /\ UniqueTxns /\ ProbePath
      /\ ManagerKnows /\ JobInChannel /\ JobsOfOwnTxn /\ WaitsOnce
  BY DEF IInv
<1>1. Busy(e)
  BY <1>0 DEF EntriesCounted
<1>2. /\ workers' \in [Entries -> Context]
      /\ \A f \in Entries \ {e} : workers'[f] = workers[f]
      /\ \A f \in Entries : /\ workers'[f].used = workers[f].used
                            /\ workers'[f].txn = workers[f].txn
                            /\ Len(workers'[f].jobs) <= MaxItems
      /\ workers'[e].pc = "none" /\ workers'[e].jobs = <<>>
  BY <1>0, JoinedTable
<1>3. /\ EntriesCounted' /\ size' \in 0 .. MaxTxns
      /\ \A f \in Entries : Busy(f)' <=> Busy(f) /\ f # e
  BY <1>1, JoinedCount
<1>4. /\ answers' \in Seq(Nat) /\ DOMAIN answers' = DOMAIN answers
      /\ \A m \in DOMAIN answers :
           answers'[m] = IF sock = "open" /\ m \in Queued(e)
                         THEN answers[m] + 1 ELSE answers[m]
  BY <1>0, DrainedAnswers
<1>5. TypeOK'
  BY <1>0, <1>2, <1>3, <1>4 DEF TypeOK
<1>6. TxnsIssued'
  BY <1>0, <1>2, <1>3 DEF TxnsIssued
<1>7. UniqueTxns'
  BY <1>0, <1>2, <1>3 DEF UniqueTxns
<1>8. ProbePath'
  BY <1>0, <1>2, <1>3 DEF ProbePath, Away
<1>9. JobInChannel'
  BY <1>0, <1>2 DEF JobInChannel
<1>10. JobsOfOwnTxn'
  <2>1. DOMAIN workers'[e].jobs = {}
    BY <1>2
  <2> QED BY <1>0, <1>2, <1>3, <2>1 DEF JobsOfOwnTxn
<1>11. Queued(e)' = {} /\ \A f \in Entries \ {e} : Queued(f)' = Queued(f)
  <2>1. DOMAIN workers'[e].jobs = {}
    BY <1>2
  <2> QED BY <1>2, <2>1 DEF Queued
<1>12. \A f \in Entries \ {e} : \A m \in Queued(e) : m \notin Queued(f)
  BY <1>0 DEF WaitsOnce, Queued
<1>13. \A m \in Queued(e) : m \in DOMAIN answers /\ (Starting => m # mgr.msg)
  BY <1>0 DEF WaitsOnce, Queued
<1>14. \A m : Waiting(m)' <=> Waiting(m) /\ m \notin Queued(e)
  BY <1>11, <1>12, <1>13 DEF Waiting
<1>15. ApartAfter
  <2>1. \A f \in Entries : \A i \in DOMAIN workers'[f].jobs :
          f # e /\ workers'[f].jobs = workers[f].jobs
    BY <1>2
  <2> QED BY <1>0, <1>4, <2>1 DEF WaitsOnce, ApartAfter
<1>16. WaitsOnce' /\ AgainOnce' /\ AtMostTwice' /\ AnsweredOrWaits'
  <2>1. Queued(e) \subseteq DOMAIN answers /\ \A m \in Queued(e) : Waiting(m)
    BY <1>13 DEF Waiting
  <2>2. AgainKept
    BY <1>2 DEF AgainKept
  <2> QED BY <1>4, <1>14, <1>15, <2>1, <2>2, MessagesAnswered
<1>17. ManagerKnows'
  BY <1>0, <1>4 DEF ManagerKnows
<1> QED
  BY <1>3, <1>5, <1>6, <1>7, <1>8, <1>9, <1>10, <1>16, <1>17 DEF IInv

\* remove joins the worker whose id came through the return channel.
LEMMA RemoveStep ==
  ASSUME IInv, Remove
  PROVE  IInv'
<1>0. TypeOK /\ ManagerKnows
  BY DEF IInv
<1>1. mgr.dead \in Nat /\ Matches(mgr.dead) # {} /\ Matches(mgr.dead) \in SUBSET Entries
  BY <1>0, ServerAssumption DEF Remove, Matches, TypeOK, ManagerState, TxnIds
<1>2. PICK e \in Entries : e = Closest(mgr.dead, Matches(mgr.dead))
  BY <1>1, ClosestIsLeast
<1>3. /\ workers[e].pc = "exited" /\ workers' = [workers EXCEPT ![e] = Joined(e)]
      /\ answers' = Drained(e) /\ size' = size - 1 /\ ret_ch' = ret_pop
      /\ mgr' = [mgr EXCEPT !.pc = "reap"] /\ At("remove")
      /\ UNCHANGED <<next_txn, sock, twice, dropped>>
  BY <1>2 DEF Remove, Goto
<1>4. ret_ch' \in Ring
  <2>1. ret_ch \in Ring /\ ret_ch.count \in Nat /\ ret_ch.count > 0
    BY <1>0, <1>3 DEF TypeOK, Ring, ManagerKnows
  <2>2. ret_ch.head + 1 \in Int /\ MaxItems \in Nat \ {0}
    BY <2>1, ServerAssumption DEF Ring
  <2>3. (ret_ch.head + 1) % MaxItems \in 0 .. MaxItems - 1
    BY <2>2, ModRange
  <2>4. PICK h \in 0 .. MaxItems - 1, n \in Nat :
           h = (ret_ch.head + 1) % MaxItems /\ n = ret_ch.count - 1
    BY <2>1, <2>3
  <2>5. ret_ch' = [ret_ch EXCEPT !.head = h, !.count = n]
    BY <1>3, <2>4 DEF ret_pop
  <2> QED BY <2>1, <2>5 DEF Ring
<1>5. mgr' \in ManagerState /\ mgr'.pc = "reap" /\ mgr'.msg = mgr.msg
  BY <1>0, <1>3 DEF TypeOK, ManagerState
<1>6. /\ Starting /\ Starting' /\ ~At("first")
      /\ ~At("first")' /\ ~At("remove")'
  BY <1>3, <1>5 DEF Starting, At
<1> QED
  BY <1>3, <1>4, <1>5, <1>6, JoinStep

\* At the end every worker is joined.
LEMMA ClearJoinStep ==
  ASSUME IInv, NEW e \in Entries, ClearJoin(e)
  PROVE  IInv'
<1>1. mgr \in ManagerState /\ ret_ch \in Ring
  BY DEF IInv, TypeOK
<1>2. /\ workers[e].pc = "exited" /\ workers' = [workers EXCEPT ![e] = Joined(e)]
      /\ answers' = Drained(e) /\ size' = size - 1
      /\ UNCHANGED <<ret_ch, next_txn, mgr, sock, twice, dropped>> /\ At("clear")
  BY DEF ClearJoin
<1>3. ~Starting /\ ~Starting' /\ ~At("first") /\ ~At("first")' /\ ~At("remove")'
  BY <1>2 DEF Starting, At
<1> QED
  BY <1>1, <1>2, <1>3, JoinStep

-----------------------------------------------------------------------------
(* Transactions started *)

\* A table with another context in one entry.
LEMMA OneReplaced ==
  ASSUME NEW w \in [Entries -> Context], NEW e \in Entries, NEW d \in Context
  PROVE  /\ [w EXCEPT ![e] = d] \in [Entries -> Context]
         /\ [w EXCEPT ![e] = d][e] = d
         /\ \A f \in Entries \ {e} : [w EXCEPT ![e] = d][f] = w[f]
OBVIOUS

\* START_TXN takes an entry that is not in use.
LEMMA InsertTaken ==
  ASSUME IInv, At("insert"), NEW e \in Entries, ~Busy(e), size < MaxTxns,
         \A f \in Entries : ~Busy(f) => Away(next_txn, e) <= Away(next_txn, f),
         workers' = [workers EXCEPT ![e].txn = next_txn, ![e].used = TRUE,
                                    ![e].deleted = FALSE, ![e].running = TRUE,
                                    ![e].pc = "loop"],
         size' = size + 1, mgr' = [mgr EXCEPT !.pc = "first", !.entry = e],
         UNCHANGED <<answers, ret_ch, next_txn, sock, twice, dropped>>
  PROVE  IInv'
<1>0. TypeOK /\ EntriesCounted /\ TxnsIssued /\ UniqueTxns /\ ProbePath
      /\ ManagerKnows /\ JobInChannel /\ JobsOfOwnTxn
  BY DEF IInv
<1>1. /\ Starting /\ ~At("first") /\ next_txn <= MaxTxnId
      /\ mgr.msg \in DOMAIN answers /\ next_txn \in TxnIds /\ next_txn \in Nat
  BY <1>0, ServerAssumption DEF At, Starting, ManagerKnows, TypeOK, TxnIds
<1>2. workers[e].jobs = <<>>
  <2>1. DOMAIN workers[e].jobs = {}
    BY <1>0 DEF JobsOfOwnTxn
  <2>2. PICK q \in Seq(Job) : q = workers[e].jobs
    BY <1>0, QueuedIs
  <2>3. Len(q) \in Nat /\ DOMAIN q = 1 .. Len(q) /\ DOMAIN q = {}
    BY <2>1, <2>2
  <2>4. Len(q) = 0
    BY <2>3
  <2> QED BY <2>2, <2>4
<1>3. /\ workers' \in [Entries -> Context]
      /\ \A f \in Entries \ {e} : workers'[f] = workers[f]
      /\ workers'[e].txn = next_txn /\ workers'[e].used
      /\ ~workers'[e].deleted /\ workers'[e].pc = "loop"
      /\ workers'[e].jobs = workers[e].jobs
  <2>1. PICK c \in Context : c = workers[e]
    BY <1>0 DEF TypeOK
  <2>2. PICK d : d = [c EXCEPT !.txn = next_txn, !.used = TRUE, !.deleted = FALSE,
                               !.running = TRUE, !.pc = "loop"]
    OBVIOUS
  <2>3. /\ d \in Context /\ d.txn = next_txn /\ d.used /\ ~d.deleted
        /\ d.pc = "loop" /\ d.jobs = c.jobs
    BY <1>1, <2>2 DEF Context
  <2>4. workers' = [workers EXCEPT ![e] = d]
    BY <1>0, <2>1, <2>2 DEF TypeOK
  <2>5. /\ workers' \in [Entries -> Context] /\ workers'[e] = d
        /\ \A f \in Entries \ {e} : workers'[f] = workers[f]
    <3>1. workers \in [Entries -> Context]
      BY <1>0 DEF TypeOK
    <3>2. d \in Context
      BY <2>3
    <3>3. PICK w : w = [workers EXCEPT ![e] = d]
      OBVIOUS
    <3>4. /\ w \in [Entries -> Context] /\ w[e] = d
          /\ \A f \in Entries \ {e} : w[f] = workers[f]
      BY <3>1, <3>2, <3>3, OneReplaced
    <3>5. workers' = w
      BY <2>4, <3>3
    <3> QED BY <3>4, <3>5
  <2> QED BY <2>1, <2>3, <2>5
<1>4. mgr' \in ManagerState /\ mgr'.pc = "first" /\ mgr'.entry = e /\ mgr'.msg = mgr.msg
  BY <1>0 DEF TypeOK, ManagerState
<1>5. Starting' /\ At("first")' /\ ~At("remove")'
  BY <1>4 DEF Starting, At
<1>6. \A f \in Entries : Busy(f)' <=> Busy(f) \/ f = e
  BY <1>3 DEF Busy
<1>7. SameJobs
  BY <1>3 DEF SameJobs
<1>8. EntriesCounted' /\ size' \in 0 .. MaxTxns
  <2> DEFINE B == {f \in Entries : Busy(f)}
             C == {f \in Entries : Busy(f)'}
  <2>1. C = B \cup {e} /\ e \notin B /\ B \in SUBSET Entries /\ C \in SUBSET Entries
    BY <1>6
  <2>2. size = Cardinality(B)
    BY <1>0 DEF EntriesCounted
  <2> HIDE DEF B, C
  <2>3. IsFiniteSet(B) /\ Cardinality(C) \in 0 .. MaxTxns
    BY <2>1, EntriesFinite
  <2>4. Cardinality(C) = Cardinality(B) + 1
    BY <2>1, <2>3, FS_AddElement
  <2>5. size' = Cardinality(C)
    BY <2>2, <2>4
  <2>6. \A f \in Entries : Busy(f)' <=> workers'[f].pc # "none"
    BY <1>0, <1>3, <1>6 DEF EntriesCounted
  <2> QED BY <2>3, <2>5, <2>6 DEF EntriesCounted, C
<1>9. TypeOK'
  <2>1. \A f \in Entries : Len(workers'[f].jobs) <= MaxItems
    BY <1>0, <1>7 DEF TypeOK, SameJobs
  <2> QED BY <1>0, <1>3, <1>4, <1>8, <2>1 DEF TypeOK
<1>10. \A f \in Entries : Busy(f) => workers[f].txn < next_txn
  BY <1>0, <1>1 DEF TxnsIssued
<1>11. TxnsIssued'
  BY <1>3, <1>4, <1>5, <1>6, <1>10 DEF TxnsIssued
<1>12. UniqueTxns'
  <2>1. \A f \in Entries : Busy(f) => workers[f].txn # next_txn
    BY <1>0, <1>1, <1>10, TxnType
  <2> QED BY <1>0, <1>3, <1>6, <2>1 DEF UniqueTxns
<1>13. ProbePath'
  <2> SUFFICES ASSUME NEW g \in Entries, NEW f \in Entries, Busy(g)',
                      Away(workers'[g].txn, f) < Away(workers'[g].txn, g)
               PROVE  workers'[f].used
    BY DEF ProbePath, Away
  <2>1. CASE f = e
    BY <1>3, <2>1
  <2>2. CASE f # e /\ g # e
    BY <1>0, <1>3, <1>6, <2>2 DEF ProbePath
  <2>3. CASE f # e /\ g = e
    <3>1. Away(next_txn, f) < Away(next_txn, e)
      BY <1>3, <2>3
    <3>2. Away(next_txn, f) \in Nat /\ Away(next_txn, e) \in Nat
      BY <1>1, AwayType
    <3>3. Busy(f)
      BY <3>1, <3>2
    <3> QED BY <1>3, <2>3, <3>3 DEF Busy
  <2> QED BY <2>1, <2>2, <2>3
<1>14. JobInChannel'
  BY <1>0, <1>3 DEF JobInChannel
<1>15. JobsOfOwnTxn'
  <2>1. DOMAIN workers'[e].jobs = {}
    BY <1>2, <1>3
  <2> QED BY <1>0, <1>3, <1>6, <2>1 DEF JobsOfOwnTxn
<1>16. WaitsOnce' /\ AgainOnce' /\ AtMostTwice' /\ AnsweredOrWaits'
  <2>1. AgainKept
    BY <1>3 DEF AgainKept
  <2> QED BY <1>1, <1>4, <1>5, <1>7, <2>1, MessagesFrame
<1>17. ManagerKnows'
  <2>1. Busy(e)' /\ workers'[e].jobs = <<>>
    BY <1>2, <1>3, <1>6
  <2> QED BY <1>1, <1>3, <1>4, <1>5, <2>1 DEF ManagerKnows, Busy
<1> QED
  BY <1>8, <1>9, <1>11, <1>12, <1>13, <1>14, <1>15, <1>16, <1>17 DEF IInv

\* START_TXN when the table is full: the message is answered.
LEMMA InsertRefused ==
  ASSUME IInv, At("insert"), answers' = Sent(answers, mgr.msg), mgr' = Idle,
         UNCHANGED <<workers, size, ret_ch, next_txn, sock, twice, dropped>>
  PROVE  IInv'
<1>0. TypeOK /\ EntriesCounted /\ TxnsIssued /\ UniqueTxns /\ ProbePath
      /\ ManagerKnows /\ JobInChannel /\ JobsOfOwnTxn /\ WaitsOnce
  BY DEF IInv
<1>1. /\ Starting /\ ~At("first") /\ mgr.msg \in DOMAIN answers
      /\ answers \in Seq(Nat)
  BY <1>0 DEF At, Starting, ManagerKnows, TypeOK
<1>2. ~Starting' /\ ~At("first")' /\ ~At("remove")'
  BY DEF Idle, Starting, At
<1>3. PICK x \in DOMAIN answers : x = mgr.msg
  BY <1>1
<1>4. /\ answers' \in Seq(Nat) /\ DOMAIN answers' = DOMAIN answers
      /\ \A n \in DOMAIN answers :
           answers'[n] = IF sock = "open" /\ n \in {x} THEN answers[n] + 1
                         ELSE answers[n]
  BY <1>1, <1>3, SentOne
<1>5. \A e \in Entries : Queued(e)' = Queued(e) /\ x \notin Queued(e)
  BY <1>0, <1>1, <1>3 DEF WaitsOnce, Queued
<1>6. Waiting(x) /\ \A m : Waiting(m)' <=> Waiting(m) /\ m \notin {x}
  BY <1>1, <1>2, <1>3, <1>5 DEF Waiting
<1>7. ApartAfter
  BY <1>0, <1>2, <1>4 DEF ApartAfter, WaitsOnce
<1>8. WaitsOnce' /\ AgainOnce' /\ AtMostTwice' /\ AnsweredOrWaits'
  <2>1. {x} \subseteq DOMAIN answers /\ \A m \in {x} : Waiting(m)
    BY <1>6
  <2>2. AgainKept
    BY DEF AgainKept
  <2> QED BY <1>4, <1>6, <1>7, <2>1, <2>2, MessagesAnswered
<1>9. TypeOK'
  BY <1>0, <1>4, IdleType DEF TypeOK
<1>10. SameTable
  BY DEF SameTable
<1>11. /\ EntriesCounted' /\ TxnsIssued' /\ UniqueTxns' /\ ProbePath'
       /\ \A e \in Entries : Busy(e)' <=> Busy(e)
  BY <1>0, <1>1, <1>10, TableFrame
<1>12. JobInChannel' /\ JobsOfOwnTxn'
  BY <1>0, <1>11 DEF JobInChannel, JobsOfOwnTxn
<1>13. ManagerKnows'
  BY <1>2 DEF ManagerKnows
<1> QED
  BY <1>8, <1>9, <1>11, <1>12, <1>13 DEF IInv

\* START_TXN, either way.
LEMMA InsertStep ==
  ASSUME IInv, Insert
  PROVE  IInv'
<1> DEFINE free == {e \in Entries : ~Busy(e)}
<1>1. At("insert") /\ UNCHANGED <<ret_ch, next_txn, sock, twice, dropped>>
  BY DEF Insert
<1>2. next_txn \in Nat /\ size \in 0 .. MaxTxns
  BY ServerAssumption DEF IInv, TypeOK
<1>3. CASE full
  BY <1>1, <1>3, InsertRefused DEF Insert, Again
<1>4. CASE ~full
  <2>1. free # {} /\ free \in SUBSET Entries
    BY <1>4 DEF Insert
  <2>2. PICK e \in free : /\ e = Closest(next_txn, free)
                          /\ \A f \in free : Away(next_txn, e) <= Away(next_txn, f)
    BY <1>2, <2>1, ClosestIsLeast
  <2>3. workers' = [workers EXCEPT ![e].txn = next_txn, ![e].used = TRUE,
                                   ![e].deleted = FALSE, ![e].running = TRUE,
                                   ![e].pc = "loop"]
        /\ size' = size + 1 /\ mgr' = [mgr EXCEPT !.pc = "first", !.entry = e]
        /\ answers' = answers
    BY <1>4, <2>2 DEF Insert
  <2>4. e \in Entries /\ ~Busy(e) /\ size < MaxTxns
    BY <1>2, <1>4, ServerAssumption DEF full
  <2>5. \A f \in Entries : ~Busy(f) => Away(next_txn, e) <= Away(next_txn, f)
    BY <2>2
  <2> QED BY <1>1, <2>3, <2>4, <2>5, InsertTaken
<1> QED
  BY <1>3, <1>4

-----------------------------------------------------------------------------
(* The invariant *)

\* It holds of the server as it starts.
LEMMA InitInv == Init => IInv
<1> SUFFICES ASSUME Init PROVE IInv
  OBVIOUS
<1>1. /\ \A e \in Entries : workers[e] = EmptyEntry
      /\ workers = [e \in Entries |-> EmptyEntry]
      /\ size = 0 /\ next_txn = 0 /\ mgr = Idle /\ sock = "open"
      /\ answers = <<>> /\ ret_ch.count = 0 /\ twice = {} /\ dropped = {}
  BY DEF Init
<1>2. /\ EmptyEntry \in Context /\ ~EmptyEntry.used /\ EmptyEntry.pc = "none"
      /\ EmptyEntry.jobs = <<>>
  <2>1. NoJob \in Job
    BY ServerAssumption DEF NoJob, Job, TxnIds
  <2>2. <<>> \in Seq(Job) /\ 0 \in TxnIds
    BY ServerAssumption DEF TxnIds
  <2> QED BY <2>1, <2>2 DEF EmptyEntry, Context
<1>3. /\ Len(<<>>) = 0 /\ DOMAIN <<>> = {} /\ <<>> \in Seq(Nat)
  OBVIOUS
<1>4. \A e \in Entries : ~Busy(e) /\ DOMAIN workers[e].jobs = {}
                         /\ workers[e].pc = "none" /\ workers[e].jobs = <<>>
  BY <1>1, <1>2, <1>3 DEF Busy
<1>5. ret_ch \in Ring
  BY ServerAssumption DEF Init, Ring, TxnIds
<1>6. TypeOK
  <2>1. \A e \in Entries : Len(workers[e].jobs) <= MaxItems
    BY <1>3, <1>4, ServerAssumption
  <2>2. size \in 0 .. MaxTxns /\ next_txn \in 0 .. MaxTxnId + 1
    BY <1>1, ServerAssumption
  <2> QED BY <1>1, <1>2, <1>3, <1>5, <2>1, <2>2, IdleType DEF TypeOK
<1>7. EntriesCounted
  <2>1. {e \in Entries : Busy(e)} = {}
    BY <1>4
  <2>2. Cardinality({}) = 0
    BY FS_EmptySet
  <2> QED BY <1>1, <1>4, <2>1, <2>2 DEF EntriesCounted
<1>8. TxnsIssued /\ UniqueTxns /\ ProbePath
  BY <1>4 DEF TxnsIssued, UniqueTxns, ProbePath
<1>9. ~Starting /\ ~At("first") /\ ~At("remove")
  BY <1>1 DEF Idle, Starting, At
<1>10. ManagerKnows /\ JobInChannel /\ JobsOfOwnTxn
  BY <1>4, <1>9 DEF ManagerKnows, JobInChannel, JobsOfOwnTxn
<1>11. WaitsOnce /\ AgainOnce /\ AtMostTwice /\ AnsweredOrWaits
  BY <1>1, <1>3, <1>4, <1>9 DEF WaitsOnce, AgainOnce, AtMostTwice, AnsweredOrWaits
<1> QED
  BY <1>6, <1>7, <1>8, <1>10, <1>11 DEF IInv

\* Every step keeps it.
LEMMA NextInv == IInv /\ [Next]_vars => IInv'
<1> SUFFICES ASSUME IInv, [Next]_vars PROVE IInv'
  OBVIOUS
<1>1. CASE Loop \/ LoopEnd \/ RecvNothing \/ Done
  BY <1>1, IdleSteps
<1>2. CASE Abort
  BY <1>2, AbortStep
<1>3. CASE Reap
  BY <1>3, ReapStep
<1>4. CASE Remove
  BY <1>4, RemoveStep
<1>5. CASE Insert
  BY <1>5, InsertStep
<1>6. CASE FirstJob
  BY <1>6, FirstJobStep
<1>7. CASE Close \/ StopNext
  BY <1>7, CloseStep, StopNextStep
<1>8. CASE \E e \in Entries : ClearJoin(e)
  BY <1>8, ClearJoinStep
<1>9. CASE RecvBad
  BY <1>9, RecvBadStep
<1>10. CASE RecvStart
  BY <1>10, RecvStartStep
<1>11. CASE \E op \in JobOps, t \in TxnIds : RecvJob(op, t)
  BY <1>11, RecvJobStep
<1>12. CASE StopFlag \/ StopSocket
  BY <1>12, StopSteps
<1>13. CASE \E e \in Entries : WorkerStep(e) \/ WorkerStuck(e)
  <2>1. PICK e \in Entries : WorkerStep(e) \/ WorkerStuck(e)
    BY <1>13
  <2>2. CASE WorkerLoop(e)
    BY <2>2, WorkerLoopStep
  <2>3. CASE WorkerRecv(e)
    BY <2>3, WorkerRecvStep
  <2>4. CASE WorkerAnswer(e) \/ WorkerFull(e) \/ WorkerReread(e)
    BY <2>4, WorkerAnswerStep
  <2>5. CASE WorkerRereadEnd(e)
    BY <2>5, RereadDrops, RereadAstray
  <2>6. CASE WorkerQuit(e)
    BY <2>6, WorkerQuitStep
  <2>7. CASE WorkerStuck(e)
    BY <2>7, WorkerStuckStep
  <2> QED BY <2>1, <2>2, <2>3, <2>4, <2>5, <2>6, <2>7 DEF WorkerStep
<1>14. CASE UNCHANGED vars
  <2>1. UNCHANGED <<workers, size, ret_ch, next_txn, mgr, sock, answers, twice, dropped>>
    BY <1>14 DEF vars
  <2>2. TypeOK' /\ SameTable /\ SameJobs /\ AgainKept
    BY <2>1 DEF IInv, TypeOK, SameTable, SameJobs, AgainKept
  <2>3. /\ Starting' <=> Starting
        /\ At("first")' => At("first")
        /\ At("remove")' => ret_ch'.count > 0
    BY <2>1 DEF Starting, At, IInv, ManagerKnows
  <2> QED BY <2>1, <2>2, <2>3, QuietStep
<1> QED
  BY <1>1, <1>2, <1>3, <1>4, <1>5, <1>6, <1>7, <1>8, <1>9, <1>10, <1>11,
     <1>12, <1>13, <1>14 DEF Next, ManagerStep

\* The inductive invariant holds in every state the server can reach, for
\* any size of table, channels and return channel.
THEOREM ServerInvariant == Spec => []IInv
BY InitInv, NextInv, PTL DEF Spec

\* Every field of every context, the ring and the locals of the manager stay
\* in their types, and no job channel holds more than its limit.
THEOREM TypeCorrect == Spec => []TypeOK
<1>1. IInv => TypeOK
  BY DEF IInv
<1> QED
  BY <1>1, ServerInvariant, PTL

\* size_ is the number of transactions, the probe of WorkerTable::search ends
\* at the entry of each, whatever was deleted before it, and exactly these
\* entries have a thread.
THEOREM EntriesTheorem == Spec => []EntriesExact
<1>1. IInv => EntriesExact
  <2> SUFFICES ASSUME IInv PROVE EntriesExact
    OBVIOUS
  <2>1. \A e \in Entries : Busy(e) => search(workers[e].txn) = e
    BY SearchFinds
  <2> QED BY <2>1 DEF EntriesExact, IInv, EntriesCounted
<1> QED
  BY <1>1, ServerInvariant, PTL

\* A worker is never handed a job of another transaction, although the
\* channel of its entry is used again as it is.
THEOREM JobsTheorem == Spec => []JobsOfOwnTxn
<1>1. IInv => JobsOfOwnTxn
  BY DEF IInv
<1> QED
  BY <1>1, ServerInvariant, PTL

\* As long as no channel counts below zero, a message has one answer, by the
\* manager, its worker or join, and a second one only from the handler of a
\* full commit queue or a re-read: nobody answers what another has answered.
THEOREM AnsweredOnceTheorem == Spec => []AnsweredOnce
<1>1. IInv => AnsweredOnce
  BY DEF IInv, AnsweredOnce, AtMostTwice
<1> QED
  BY <1>1, ServerInvariant, PTL

\* As long as no channel counts below zero and the socket is open, a message
\* that is not answered still waits in a channel or with the manager, unless
\* the second pop of a re-read took it off.
THEOREM NoneForgottenTheorem == Spec => []NoneForgotten
<1>1. IInv => NoneForgotten
  BY DEF IInv, NoneForgotten, AnsweredOrWaits
<1> QED
  BY <1>1, ServerInvariant, PTL

-----------------------------------------------------------------------------
(* The return channel *)

\* What it holds outside the shutdown.
RingBody ==
    /\ ret_ch.count = Cardinality(Unreaped)
    /\ \A i, j \in 0 .. ret_ch.count - 1 : Ret(i) = Ret(j) => i = j
    /\ \A i \in 0 .. ret_ch.count - 1 :
         \E e \in Unreaped : workers[e].txn = Ret(i)
    /\ \A e \in Unreaped :
         \E i \in 0 .. ret_ch.count - 1 : workers[e].txn = Ret(i)

\* RingExact in these words.
LEMMA RingIs ==
  RingExact <=>
    /\ ret_ch.tail = (ret_ch.head + ret_ch.count) % MaxItems
    /\ mgr.pc \notin {"clear", "done"} => RingBody
    /\ At("remove") => mgr.dead = Ret(0)
BY DEF RingExact, RingBody

\* Workers that ended are in the table, each under its own id.
LEMMA UnreapedBusy ==
  ASSUME IInv
  PROVE  /\ Unreaped \in SUBSET Entries /\ \A e \in Unreaped : Busy(e)
         /\ IsFiniteSet(Unreaped) /\ Cardinality(Unreaped) \in Nat
<1>1. Unreaped \in SUBSET Entries /\ \A e \in Unreaped : Busy(e)
  BY DEF Unreaped, IInv, EntriesCounted
<1>2. IsFiniteSet(Unreaped) /\ Cardinality(Unreaped) \in 0 .. MaxTxns
  BY <1>1, EntriesFinite
<1> QED
  BY <1>1, <1>2

\* A step that neither sends to the return channel nor takes from it, and
\* lets no worker end.
LEMMA RingFrame ==
  ASSUME RingExact, ret_ch' = ret_ch, Unreaped' = Unreaped,
         \A e \in Unreaped : workers'[e].txn = workers[e].txn,
         mgr.pc \in {"clear", "done"} => mgr'.pc \in {"clear", "done"},
         At("remove")' => At("remove") /\ mgr'.dead = mgr.dead
  PROVE  RingExact'
<1>1. \A i : Ret(i)' = Ret(i)
  BY DEF Ret
<1>2. RingBody => RingBody'
  <2> SUFFICES ASSUME RingBody PROVE RingBody'
    OBVIOUS
  <2>1. ret_ch'.count = Cardinality(Unreaped')
    BY DEF RingBody
  <2>2. \A i, j \in 0 .. ret_ch'.count - 1 : Ret(i)' = Ret(j)' => i = j
    BY <1>1 DEF RingBody
  <2>3. \A i \in 0 .. ret_ch'.count - 1 :
          \E e \in Unreaped' : workers'[e].txn = Ret(i)'
    BY <1>1 DEF RingBody
  <2>4. \A e \in Unreaped' :
          \E i \in 0 .. ret_ch'.count - 1 : workers'[e].txn = Ret(i)'
    BY <1>1 DEF RingBody
  <2> QED BY <2>1, <2>2, <2>3, <2>4 DEF RingBody
<1>3. /\ ret_ch'.tail = (ret_ch'.head + ret_ch'.count) % MaxItems
      /\ mgr'.pc \notin {"clear", "done"} => RingBody'
      /\ At("remove")' => mgr'.dead = Ret(0)'
  BY <1>1, <1>2, RingIs
<1> QED
  BY <1>3 DEF RingExact, RingBody

\* The numbers of the ring.
LEMMA RingType ==
  ASSUME TypeOK
  PROVE  /\ MaxItems \in Nat \ {0} /\ ret_ch.head \in 0 .. MaxItems - 1
         /\ ret_ch.head \in Int /\ ret_ch.tail \in 0 .. MaxItems - 1
         /\ ret_ch.count \in Nat /\ ret_ch.rets \in [0 .. MaxItems - 1 -> TxnIds]
         /\ \A i \in Int : (ret_ch.head + i) % MaxItems \in 0 .. MaxItems - 1
<1>1. /\ MaxItems \in Nat \ {0} /\ ret_ch.head \in 0 .. MaxItems - 1
      /\ ret_ch.head \in Int /\ ret_ch.tail \in 0 .. MaxItems - 1
      /\ ret_ch.count \in Nat /\ ret_ch.rets \in [0 .. MaxItems - 1 -> TxnIds]
  BY ServerAssumption DEF TypeOK, Ring
<1>2. \A i \in Int : ret_ch.head + i \in Int
  BY <1>1
<1> QED
  BY <1>1, <1>2, ModRange

\* Reap takes the oldest id.
LEMMA RingReap ==
  ASSUME IInv, RingExact, Reap
  PROVE  RingExact'
<1>1. CASE ret_ch.count = 0
  <2>1. mgr'.pc = "insert"
    BY <1>1 DEF Reap, Goto, IInv, TypeOK, ManagerState
  <2>2. ~At("remove")' /\ Unreaped' = Unreaped /\ mgr.pc = "reap"
    BY <2>1 DEF At, Reap, Unreaped
  <2> QED BY <2>2, RingFrame DEF Reap
<1>2. CASE ret_ch.count # 0
  <2>1. mgr'.pc = "remove" /\ mgr'.dead = ret_ch.rets[ret_ch.head] /\ mgr.pc = "reap"
    BY <1>2 DEF Reap, IInv, TypeOK, ManagerState, At
  <2>2. (ret_ch.head + 0) % MaxItems = ret_ch.head
    <3>1. PICK h \in 0 .. MaxItems - 1 : h = ret_ch.head
      BY RingType DEF IInv
    <3>2. h + 0 = h /\ MaxItems \in Nat \ {0}
      BY ServerAssumption
    <3> QED BY <3>1, <3>2, ModSmall
  <2>3. ret_ch' = ret_ch /\ workers' = workers
    BY DEF Reap
  <2>4. RingBody' /\ Ret(0)' = Ret(0)
    BY <2>1, <2>3, RingIs DEF RingBody, Unreaped, Ret
  <2>5. ret_ch'.tail = (ret_ch'.head + ret_ch'.count) % MaxItems
    BY <2>3 DEF RingExact
  <2>6. mgr'.dead = Ret(0)'
    BY <2>1, <2>2, <2>4 DEF Ret
  <2> QED BY <2>4, <2>5, <2>6 DEF RingExact, RingBody
<1> QED
  BY <1>1, <1>2

\* What the manager takes to remove is the id of a worker that ended: the
\* probe of remove stops at its entry.
LEMMA DeadFound ==
  ASSUME IInv, RingExact, At("remove")
  PROVE  /\ ret_ch.count > 0 /\ RingBody
         /\ Closest(mgr.dead, Matches(mgr.dead)) \in Unreaped
         /\ workers[Closest(mgr.dead, Matches(mgr.dead))].txn = Ret(0)
         /\ Matches(mgr.dead) # {}
<1>1. ret_ch.count > 0 /\ RingBody /\ mgr.dead = Ret(0) /\ ret_ch.count \in Nat
  BY RingIs, RingType DEF IInv, ManagerKnows, At
<1>2. 0 \in 0 .. ret_ch.count - 1
  BY <1>1
<1>3. PICK g \in Unreaped : workers[g].txn = Ret(0)
  BY <1>1, <1>2 DEF RingBody
<1>4. g \in Entries /\ Busy(g)
  BY UnreapedBusy
<1>5. /\ g \in Matches(workers[g].txn)
      /\ Matches(workers[g].txn) \in SUBSET Entries
  BY <1>4 DEF Matches, Busy
<1>6. Closest(workers[g].txn, Matches(workers[g].txn)) = g
  BY <1>4, <1>5, ProbeFinds
<1> QED
  BY <1>1, <1>3, <1>5, <1>6

\* remove takes the oldest id and its worker.
LEMMA RingRemove ==
  ASSUME IInv, RingExact, Remove
  PROVE  RingExact'
<1>0. TypeOK /\ At("remove") /\ UniqueTxns
  BY DEF IInv, Remove
<1>1. PICK g \in Unreaped : /\ g = Closest(mgr.dead, Matches(mgr.dead))
                            /\ workers[g].txn = Ret(0)
  BY <1>0, DeadFound
<1>2. ret_ch.count > 0 /\ RingBody
  BY <1>0, DeadFound
<1>3. g \in Entries /\ Unreaped \in SUBSET Entries /\ IsFiniteSet(Unreaped)
      /\ Cardinality(Unreaped) \in Nat
  BY UnreapedBusy
<1>4. /\ workers' = [workers EXCEPT ![g] = Joined(g)] /\ ret_ch' = ret_pop
      /\ mgr' = [mgr EXCEPT !.pc = "reap"]
  BY <1>1 DEF Remove, Goto
<1>5. /\ \A f \in Entries \ {g} : workers'[f] = workers[f]
      /\ workers'[g].pc = "none"
  BY <1>0, <1>3, <1>4, JoinedTable
<1>6. Unreaped' = Unreaped \ {g}
  BY <1>3, <1>5 DEF Unreaped
<1>7. PICK c \in Nat, h \in 0 .. MaxItems - 1 : c = ret_ch.count /\ h = ret_ch.head
  BY <1>0, RingType
<1>8. /\ ret_ch'.count = c - 1 /\ ret_ch'.head = (h + 1) % MaxItems
      /\ ret_ch'.tail = ret_ch.tail /\ ret_ch'.rets = ret_ch.rets
  BY <1>0, <1>4, <1>7 DEF ret_pop, TypeOK, Ring
<1>9. \A i \in Int : (((h + 1) % MaxItems) + i) % MaxItems = (h + (i + 1)) % MaxItems
  <2> SUFFICES ASSUME NEW i \in Int
               PROVE  (((h + 1) % MaxItems) + i) % MaxItems = (h + (i + 1)) % MaxItems
    OBVIOUS
  <2>1. h + 1 \in Int /\ MaxItems \in Nat \ {0} /\ (h + 1) + i = h + (i + 1)
    BY ServerAssumption
  <2> QED BY <2>1, ModShift
<1>10. \A i \in Int : Ret(i)' = Ret(i + 1)
  BY <1>7, <1>8, <1>9 DEF Ret
<1>11. ret_ch'.tail = (ret_ch'.head + ret_ch'.count) % MaxItems
  <2>1. ret_ch.tail = (h + c) % MaxItems
    BY <1>7 DEF RingExact
  <2>2. c - 1 \in Int /\ (c - 1) + 1 = c
    OBVIOUS
  <2> QED BY <1>8, <1>9, <2>1, <2>2
<1>12. RingBody'
  <2>1. ret_ch'.count = Cardinality(Unreaped')
    BY <1>2, <1>3, <1>6, <1>7, <1>8, FS_RemoveElement DEF RingBody
  <2>2. \A i \in 0 .. c - 2 : i \in Int /\ i + 1 \in 0 .. c - 1 /\ i + 1 # 0
    OBVIOUS
  <2>3. \A i \in 0 .. (c - 1) - 1 : i \in 0 .. c - 2
    OBVIOUS
  <2>4. \A i, j \in 0 .. (c - 1) - 1 : Ret(i)' = Ret(j)' => i = j
    <3> SUFFICES ASSUME NEW i \in 0 .. (c - 1) - 1, NEW j \in 0 .. (c - 1) - 1,
                        Ret(i)' = Ret(j)'
                 PROVE  i = j
      OBVIOUS
    <3>1. Ret(i + 1) = Ret(j + 1)
      BY <1>10, <2>2, <2>3
    <3>2. i + 1 = j + 1
      BY <1>2, <1>7, <2>2, <2>3, <3>1 DEF RingBody
    <3> QED BY <3>2
  <2>5. \A i \in 0 .. (c - 1) - 1 : \E e \in Unreaped' : workers'[e].txn = Ret(i)'
    <3> SUFFICES ASSUME NEW i \in 0 .. (c - 1) - 1
                 PROVE  \E e \in Unreaped' : workers'[e].txn = Ret(i)'
      OBVIOUS
    <3>1. PICK e \in Unreaped : workers[e].txn = Ret(i + 1)
      BY <1>2, <1>7, <2>2, <2>3 DEF RingBody
    <3>2. 0 \in 0 .. c - 1 /\ i + 1 \in 0 .. c - 1 /\ i + 1 # 0
      BY <1>2, <1>7, <2>2, <2>3
    <3>3. Ret(i + 1) # Ret(0)
      BY <1>2, <1>7, <3>2 DEF RingBody
    <3>4. e # g
      BY <1>1, <3>1, <3>3
    <3> QED BY <1>3, <1>5, <1>6, <1>10, <2>2, <2>3, <3>1, <3>4
  <2>6. \A e \in Unreaped' : \E i \in 0 .. (c - 1) - 1 : workers'[e].txn = Ret(i)'
    <3> SUFFICES ASSUME NEW e \in Unreaped, e # g
                 PROVE  \E i \in 0 .. (c - 1) - 1 : workers'[e].txn = Ret(i)'
      BY <1>6
    <3>1. PICK i \in 0 .. c - 1 : workers[e].txn = Ret(i)
      BY <1>2, <1>7 DEF RingBody
    <3>2. workers[e].txn # workers[g].txn
      <4>1. Busy(e) /\ Busy(g) /\ e \in Entries /\ g \in Entries
        BY UnreapedBusy
      <4> QED BY <1>0, <4>1 DEF UniqueTxns
    <3>3. i # 0
      BY <1>1, <3>1, <3>2
    <3>4. i - 1 \in 0 .. (c - 1) - 1 /\ i - 1 \in Int /\ (i - 1) + 1 = i
      BY <3>3
    <3>5. Ret(i - 1)' = Ret(i)
      BY <1>10, <3>4
    <3> QED BY <1>3, <1>5, <3>1, <3>4, <3>5
  <2> QED BY <1>8, <2>1, <2>4, <2>5, <2>6 DEF RingBody
<1>13. ~At("remove")'
  BY <1>0, <1>4 DEF At, TypeOK, ManagerState
<1> QED
  BY <1>11, <1>12, <1>13 DEF RingExact, RingBody

\* A worker that ends sends its id, behind the ones that wait.
LEMMA RingQuit ==
  ASSUME IInv, RingExact, NoOverrun', NEW e \in Entries, WorkerQuit(e)
  PROVE  RingExact'
<1>0. TypeOK /\ UniqueTxns /\ ManagerKnows /\ EntriesCounted
  BY DEF IInv
<1>1. /\ workers' = [workers EXCEPT ![e].pc = "exited"] /\ mgr' = mgr
      /\ ret_ch' = ret_send(workers[e].txn) /\ workers[e].pc = "quit"
  BY DEF WorkerQuit, Thread
<1>2. /\ \A f \in Entries : workers'[f].txn = workers[f].txn
      /\ \A f \in Entries \ {e} : workers'[f].pc = workers[f].pc
      /\ workers'[e].pc = "exited"
  BY <1>0, <1>1 DEF TypeOK, Context
<1>3. Unreaped' = Unreaped \cup {e} /\ e \notin Unreaped /\ Busy(e)
  BY <1>0, <1>1, <1>2 DEF Unreaped, EntriesCounted
<1>4. PICK c \in Nat, h \in 0 .. MaxItems - 1, u \in 0 .. MaxItems - 1 :
         c = ret_ch.count /\ h = ret_ch.head /\ u = ret_ch.tail
  BY <1>0, RingType
<1>5. /\ ret_ch'.count = c + 1 /\ ret_ch'.head = h
      /\ ret_ch'.tail = (u + 1) % MaxItems
      /\ ret_ch'.rets = [ret_ch.rets EXCEPT ![u] = workers[e].txn]
  BY <1>1, <1>4 DEF ret_send
<1>6. u = (h + c) % MaxItems
  BY <1>4 DEF RingExact
<1>7. ret_ch'.tail = (ret_ch'.head + ret_ch'.count) % MaxItems
  <2>1. h + c \in Int /\ 1 \in Int /\ MaxItems \in Nat \ {0}
        /\ (h + c) + 1 = h + (c + 1)
    BY ServerAssumption
  <2>2. (((h + c) % MaxItems) + 1) % MaxItems = ((h + c) + 1) % MaxItems
    BY <2>1, ModShift
  <2> QED BY <1>5, <1>6, <2>1, <2>2
<1>8. CASE mgr.pc \in {"clear", "done"}
  BY <1>1, <1>7, <1>8 DEF RingExact, At
<1>9. CASE mgr.pc \notin {"clear", "done"}
  <2>1. RingBody /\ c = Cardinality(Unreaped)
    BY <1>4, <1>9, RingIs DEF RingBody
  <2>2. /\ IsFiniteSet(Unreaped) /\ Unreaped \in SUBSET Entries
        /\ \A f \in Unreaped : Busy(f)
    BY UnreapedBusy
  <2>3. Cardinality(Unreaped') = c + 1
    BY <1>3, <2>1, <2>2, FS_AddElement
  <2>4. c + 1 <= MaxItems
    BY <1>1, <1>9, <2>3 DEF NoOverrun
  <2>5. \A i \in 0 .. c - 1 : (h + i) % MaxItems # u /\ (h + i) % MaxItems \in 0 .. MaxItems - 1
    <3> SUFFICES ASSUME NEW i \in 0 .. c - 1
                 PROVE  (h + i) % MaxItems # u /\ (h + i) % MaxItems \in 0 .. MaxItems - 1
      OBVIOUS
    <3>1. h + i \in Int /\ h + c \in Int /\ MaxItems \in Nat \ {0}
          /\ (h + i) - (h + c) < MaxItems /\ (h + c) - (h + i) < MaxItems
          /\ h + i # h + c
      BY <2>4, ServerAssumption
    <3> QED BY <1>6, <3>1, ModInjective, ModRange
  <2>6. \A i \in 0 .. c - 1 : Ret(i)' = Ret(i)
    <3>1. ret_ch.rets \in [0 .. MaxItems - 1 -> TxnIds]
      BY <1>0, RingType
    <3> QED BY <1>4, <1>5, <2>5, <3>1 DEF Ret
  <2>7. Ret(c)' = workers[e].txn
    <3>1. ret_ch.rets \in [0 .. MaxItems - 1 -> TxnIds]
      BY <1>0, RingType
    <3> QED BY <1>4, <1>5, <1>6, <3>1 DEF Ret
  <2>8. \A i \in 0 .. c - 1 : Ret(i) # workers[e].txn
    <3> SUFFICES ASSUME NEW i \in 0 .. c - 1, Ret(i) = workers[e].txn PROVE FALSE
      OBVIOUS
    <3>1. PICK f \in Unreaped : workers[f].txn = Ret(i)
      BY <1>4, <2>1 DEF RingBody
    <3>2. f \in Entries /\ Busy(f)
      BY <2>2
    <3>3. f = e
      BY <1>0, <1>3, <3>1, <3>2 DEF UniqueTxns
    <3> QED BY <1>3, <3>3
  <2>9. \A i \in 0 .. (c + 1) - 1 : i \in 0 .. c - 1 \/ i = c
    OBVIOUS
  <2>10. RingBody'
    <3>1. \A i, j \in 0 .. (c + 1) - 1 : Ret(i)' = Ret(j)' => i = j
      <4> SUFFICES ASSUME NEW i \in 0 .. (c + 1) - 1, NEW j \in 0 .. (c + 1) - 1,
                          Ret(i)' = Ret(j)'
                   PROVE  i = j
        OBVIOUS
      <4>1. CASE i \in 0 .. c - 1 /\ j \in 0 .. c - 1
        BY <1>4, <2>1, <2>6, <4>1 DEF RingBody
      <4>2. CASE i = c \/ j = c
        BY <2>6, <2>7, <2>8, <2>9, <4>2
      <4> QED BY <2>9, <4>1, <4>2
    <3>2. \A i \in 0 .. (c + 1) - 1 : \E f \in Unreaped' : workers'[f].txn = Ret(i)'
      <4> SUFFICES ASSUME NEW i \in 0 .. (c + 1) - 1
                   PROVE  \E f \in Unreaped' : workers'[f].txn = Ret(i)'
        OBVIOUS
      <4>1. CASE i \in 0 .. c - 1
        <5>1. PICK f \in Unreaped : workers[f].txn = Ret(i)
          BY <1>4, <2>1, <4>1 DEF RingBody
        <5> QED BY <1>2, <1>3, <2>2, <2>6, <4>1, <5>1
      <4>2. CASE i = c
        BY <1>2, <1>3, <2>7, <4>2
      <4> QED BY <2>9, <4>1, <4>2
    <3>3. \A f \in Unreaped' : \E i \in 0 .. (c + 1) - 1 : workers'[f].txn = Ret(i)'
      <4>0. \A i \in 0 .. c - 1 : i \in 0 .. (c + 1) - 1
        OBVIOUS
      <4>1. \A f \in Unreaped : \E i \in 0 .. (c + 1) - 1 : workers'[f].txn = Ret(i)'
        <5> SUFFICES ASSUME NEW f \in Unreaped
                     PROVE  \E i \in 0 .. (c + 1) - 1 : workers'[f].txn = Ret(i)'
          OBVIOUS
        <5>1. PICK i \in 0 .. c - 1 : workers[f].txn = Ret(i)
          BY <1>4, <2>1 DEF RingBody
        <5> QED BY <1>2, <2>2, <2>6, <4>0, <5>1
      <4>2. c \in 0 .. (c + 1) - 1
        OBVIOUS
      <4> QED BY <1>2, <1>3, <2>7, <4>1, <4>2
    <3> QED BY <1>5, <2>3, <3>1, <3>2, <3>3 DEF RingBody
  <2>11. At("remove")' => mgr'.dead = Ret(0)'
    <3> SUFFICES ASSUME At("remove") PROVE mgr.dead = Ret(0)'
      BY <1>1 DEF At
    <3>1. c > 0 /\ mgr.dead = Ret(0)
      BY <1>0, <1>4 DEF ManagerKnows, RingExact
    <3>2. 0 \in 0 .. c - 1
      BY <3>1
    <3> QED BY <2>6, <3>1, <3>2
  <2> QED BY <1>7, <2>10, <2>11 DEF RingExact, RingBody
<1> QED
  BY <1>8, <1>9

\* A step of a worker that does not end it
WorkerTurn(e) ==
    \/ WorkerLoop(e) \/ WorkerRecv(e) \/ WorkerAnswer(e) \/ WorkerFull(e)
    \/ WorkerReread(e) \/ WorkerRereadEnd(e) \/ WorkerStuck(e)

\* It changes its channel, its job and its place only, and is not at its end.
LEMMA TurnChanges ==
  ASSUME TypeOK, NEW e \in Entries, WorkerTurn(e)
  PROVE  /\ workers[e].pc # "exited"
         /\ \E q, j, pc : /\ pc # "exited"
                         /\ workers' = [workers EXCEPT ![e].jobs = q, ![e].job = j,
                                                       ![e].pc = pc]
         /\ UNCHANGED <<ret_ch, mgr>>
<1>0. workers \in [Entries -> Context]
  BY DEF TypeOK
<1>1. PICK q0, j0 : q0 = workers[e].jobs /\ j0 = workers[e].job
  OBVIOUS
<1>2. workers[e].pc # "exited" /\ UNCHANGED <<ret_ch, mgr>>
  BY DEF WorkerTurn, WorkerLoop, WorkerRecv, WorkerAnswer, WorkerFull, WorkerReread,
         WorkerRereadEnd, WorkerStuck, Thread
<1>3. CASE WorkerLoop(e)
  <2>1. PICK pc \in {"recv", "quit"} :
          pc = IF workers[e].running THEN "recv" ELSE "quit"
    OBVIOUS
  <2>2. workers' = [workers EXCEPT ![e].jobs = q0, ![e].job = j0, ![e].pc = pc]
    BY <1>0, <1>1, <1>3, <2>1 DEF WorkerLoop, Context
  <2> QED BY <1>2, <2>1, <2>2
<1>4. CASE WorkerRecv(e)
  <2>1. PICK j, pc :
          /\ j = IF workers[e].jobs = <<>> THEN NoJob ELSE Head(workers[e].jobs)
          /\ pc = IF workers[e].jobs = <<>> THEN "loop" ELSE "busy"
    OBVIOUS
  <2>1a. pc # "exited"
    BY <2>1
  <2>2. workers' = [workers EXCEPT ![e].pc = pc, ![e].job = j]
    BY <1>4, <2>1 DEF WorkerRecv
  <2>3. workers' = [workers EXCEPT ![e].jobs = q0, ![e].job = j, ![e].pc = pc]
    BY <1>0, <1>1, <2>2 DEF Context
  <2> QED BY <1>2, <2>1a, <2>3
<1>5. CASE WorkerAnswer(e)
  <2>1. PICK pc \in {"quit", "loop"} :
          pc = IF workers[e].job.op \in {"COMMIT_TXN", "ABORT_TXN"}
               THEN "quit" ELSE "loop"
    OBVIOUS
  <2>2. workers' = [workers EXCEPT ![e].jobs = Tail(@), ![e].job = NoJob,
                                   ![e].pc = pc]
    BY <1>5, <2>1 DEF WorkerAnswer
  <2>3. workers' = [workers EXCEPT ![e].jobs = Tail(workers[e].jobs),
                                   ![e].job = NoJob, ![e].pc = pc]
    BY <1>0, <2>2
  <2> QED BY <1>2, <2>1, <2>3
<1>6. CASE WorkerFull(e)
  <2>1. workers' = [workers EXCEPT ![e].jobs = Tail(workers[e].jobs),
                                   ![e].job = NoJob, ![e].pc = "loop"]
    BY <1>0, <1>6 DEF WorkerFull
  <2> QED BY <1>2, <2>1
<1>7. CASE WorkerReread(e)
  <2>1. workers' = [workers EXCEPT ![e].jobs = Tail(workers[e].jobs),
                                   ![e].job = j0, ![e].pc = "again"]
    BY <1>0, <1>1, <1>7 DEF WorkerReread, Context
  <2> QED BY <1>2, <2>1
<1>8. CASE WorkerRereadEnd(e)
  <2>1. \/ workers' = [workers EXCEPT ![e].jobs = Tail(workers[e].jobs),
                                      ![e].job = NoJob, ![e].pc = "loop"]
        \/ workers' = [workers EXCEPT ![e].jobs = q0, ![e].job = NoJob,
                                      ![e].pc = "astray"]
    BY <1>0, <1>1, <1>8 DEF WorkerRereadEnd, Context
  <2> QED BY <1>2, <2>1
<1>9. CASE WorkerStuck(e)
  <2>1. workers' = [workers EXCEPT ![e].jobs = q0, ![e].job = j0, ![e].pc = "stuck"]
    BY <1>0, <1>1, <1>9 DEF WorkerStuck, Context
  <2> QED BY <1>2, <2>1
<1> QED
  BY <1>3, <1>4, <1>5, <1>6, <1>7, <1>8, <1>9 DEF WorkerTurn

\* The other steps leave the return channel alone, and no worker ends.
LEMMA RingOthers ==
  ASSUME IInv, RingExact,
         \/ Loop \/ LoopEnd \/ RecvNothing \/ Abort \/ Insert \/ FirstJob
         \/ Close \/ StopNext \/ Done \/ RecvBad \/ RecvStart \/ StopFlag \/ StopSocket
         \/ \E op \in JobOps, t \in TxnIds : RecvJob(op, t)
         \/ \E e \in Entries : WorkerTurn(e)
  PROVE  RingExact'
<1>0. /\ TypeOK /\ mgr \in ManagerState /\ workers \in [Entries -> Context]
      /\ mgr.entry \in Entries
  BY DEF IInv, TypeOK, ManagerState
<1>1. ret_ch' = ret_ch
  <2>1. CASE \E e \in Entries : WorkerTurn(e)
    BY <1>0, <2>1, TurnChanges
  <2> QED
    BY <2>1 DEF Loop, LoopEnd, RecvNothing, Abort, Insert, FirstJob, Close, StopNext,
       Done, RecvBad, RecvStart, StopFlag, StopSocket, RecvJob
<1>2. /\ mgr.pc \in {"clear", "done"} => mgr'.pc \in {"clear", "done"}
      /\ At("remove")' => At("remove") /\ mgr'.dead = mgr.dead
  <2>1. CASE Loop \/ LoopEnd \/ RecvNothing \/ Close \/ Done
    BY <1>0, <2>1 DEF Loop, LoopEnd, RecvNothing, Close, Done, Goto, At, ManagerState
  <2>7. CASE StopNext
    <3>1. mgr.pc = "halt" /\ \E x, pc : /\ pc \in {"halt", "clear"}
                                       /\ mgr' = [mgr EXCEPT !.pc = pc, !.entry = x]
      <4>1. PICK pc \in {"halt", "clear"} :
               pc = IF mgr.entry < MaxTxns - 1 THEN "halt" ELSE "clear"
        OBVIOUS
      <4>2. PICK x : x = IF mgr.entry < MaxTxns - 1 THEN mgr.entry + 1 ELSE 0
        OBVIOUS
      <4>3. mgr.pc = "halt"
        BY <2>7 DEF StopNext, At
      <4>4. mgr' = [mgr EXCEPT !.pc = pc, !.entry = x]
        BY <1>0, <2>7, <4>1, <4>2, <4>3 DEF StopNext, NextEntry, ManagerState
      <4> QED BY <4>3, <4>4
    <3>2. mgr'.pc \in {"halt", "clear"}
      BY <1>0, <3>1 DEF ManagerState
    <3> QED BY <3>1, <3>2 DEF At
  <2>2. CASE Abort \/ FirstJob \/ RecvBad
    BY <2>2 DEF Abort, FirstJob, RecvBad, Received, Again, Idle, At
  <2>3. CASE Insert
    <3>1. mgr.pc = "insert" /\ (mgr' = Idle \/ \E x : mgr' = [mgr EXCEPT
             !.pc = "first", !.entry = x])
      BY <2>3 DEF Insert, Again, At
    <3>2. mgr'.pc \in {"loop", "first"}
      <4>1. CASE mgr' = Idle
        BY <4>1 DEF Idle
      <4>2. ASSUME NEW x, mgr' = [mgr EXCEPT !.pc = "first", !.entry = x]
            PROVE  mgr'.pc = "first"
        BY <1>0, <4>2 DEF ManagerState
      <4> QED BY <3>1, <4>1, <4>2
    <3> QED BY <3>1, <3>2 DEF At
  <2>6. CASE RecvStart
    <3>1. mgr.pc = "recv" /\ \E x : mgr' = [mgr EXCEPT !.pc = "reap", !.msg = x]
      BY <2>6 DEF RecvStart, Received, At
    <3>2. mgr'.pc = "reap"
      BY <1>0, <3>1 DEF ManagerState
    <3> QED BY <3>1, <3>2 DEF At
  <2>4. CASE StopFlag \/ StopSocket \/ \E e \in Entries : WorkerTurn(e)
    <3>1. mgr' = mgr
      BY <1>0, <2>4, TurnChanges DEF StopFlag, StopSocket
    <3> QED BY <3>1 DEF At
  <2>5. CASE \E op \in JobOps, t \in TxnIds : RecvJob(op, t)
    <3>1. PICK op \in JobOps, t \in TxnIds : RecvJob(op, t)
      BY <2>5
    <3>2. mgr.pc = "recv"
      BY <3>1 DEF RecvJob, Received, At
    <3>3. mgr' = Idle \/ \E x, pc : /\ pc \in {"loop", "abort"}
                                     /\ mgr' = [mgr EXCEPT !.entry = x, !.pc = pc]
      BY <3>1 DEF RecvJob, Again
    <3>4. mgr'.pc \in {"loop", "abort"}
      <4>1. CASE mgr' = Idle
        BY <4>1 DEF Idle
      <4>2. ASSUME NEW x, NEW pc, mgr' = [mgr EXCEPT !.entry = x, !.pc = pc]
            PROVE  mgr'.pc = pc
        BY <1>0, <4>2 DEF ManagerState
      <4> QED BY <3>3, <4>1, <4>2
    <3> QED BY <3>2, <3>4 DEF At
  <2> QED BY <2>1, <2>2, <2>3, <2>4, <2>5, <2>6, <2>7
<1>3. ASSUME NEW f \in Entries
      PROVE  /\ workers'[f].pc = "exited" <=> workers[f].pc = "exited"
             /\ workers[f].pc = "exited" => workers'[f].txn = workers[f].txn
  <2>0. PICK c \in Context : c = workers[f]
    BY <1>0
  <2>1. CASE \/ Loop \/ LoopEnd \/ RecvNothing \/ Close \/ Done \/ RecvBad
             \/ RecvStart \/ StopFlag \/ StopSocket
    BY <2>1 DEF Loop, LoopEnd, RecvNothing, Close, Done, RecvBad, RecvStart, StopFlag,
                StopSocket
  <2>2. CASE Abort
    BY <1>0, <2>0, <2>2 DEF Abort, Context
  <2>3. CASE StopNext
    <3>1. PICK b : workers' = [workers EXCEPT ![mgr.entry].running = b]
      BY <1>0, <2>3 DEF StopNext
    <3> QED BY <1>0, <2>0, <3>1 DEF Context
  <2>4. CASE FirstJob
    BY <1>0, <2>0, <2>4 DEF FirstJob, Context
  <2>5. CASE Insert
    <3>1. PICK g \in Entries : /\ ~Busy(g) /\ g = Closest(next_txn, {e \in Entries : ~Busy(e)})
            \/ workers' = workers
      <4>1. CASE full
        BY <1>0, <2>5, <4>1 DEF Insert
      <4>2. CASE ~full
        <5>0. next_txn \in Nat
          BY <1>0, ServerAssumption DEF TypeOK
        <5>1. {e \in Entries : ~Busy(e)} # {}
          BY <2>5, <4>2, Zenon DEF Insert
        <5>2. Closest(next_txn, {e \in Entries : ~Busy(e)}) \in {e \in Entries : ~Busy(e)}
          BY <5>0, <5>1, ClosestIsLeast
        <5> QED BY <5>2
      <4> QED BY <4>1, <4>2
    <3>2. CASE workers' = workers
      BY <3>2
    <3>3. CASE workers' # workers
      <4>1. workers' = [workers EXCEPT
                          ![g].txn = next_txn, ![g].used = TRUE,
                          ![g].deleted = FALSE, ![g].running = TRUE,
                          ![g].pc = "loop"]
        BY <2>5, <3>1, <3>3 DEF Insert
      <4>2. workers[g].pc = "none"
        BY <3>1, <3>3 DEF IInv, EntriesCounted
      <4>3. CASE f = g
        BY <1>0, <4>1, <4>2, <4>3 DEF Context
      <4>4. CASE f # g
        BY <1>0, <4>1, <4>4
      <4> QED BY <4>3, <4>4
    <3> QED BY <3>2, <3>3
  <2>6. CASE \E op \in JobOps, t \in TxnIds : RecvJob(op, t)
    <3>1. PICK op \in JobOps, t \in TxnIds : RecvJob(op, t)
      BY <2>6
    <3>2. \/ workers' = workers
          \/ \E g, q : workers' = [workers EXCEPT ![g].jobs = q]
      BY <3>1 DEF RecvJob
    <3> QED BY <1>0, <2>0, <3>2 DEF Context
  <2>7. CASE \E e \in Entries : WorkerTurn(e)
    <3>1. PICK e \in Entries : WorkerTurn(e)
      BY <2>7
    <3>2. workers[e].pc # "exited"
      BY <1>0, <3>1, TurnChanges
    <3>3. PICK q, j, pc :
             /\ pc # "exited"
             /\ workers' = [workers EXCEPT ![e].jobs = q, ![e].job = j, ![e].pc = pc]
      BY <1>0, <3>1, TurnChanges
    <3>4. CASE f = e
      BY <1>0, <2>0, <3>2, <3>3, <3>4 DEF Context
    <3>5. CASE f # e
      BY <1>0, <3>3, <3>5
    <3> QED BY <3>4, <3>5
  <2> QED BY <2>1, <2>2, <2>3, <2>4, <2>5, <2>6, <2>7
<1>4. Unreaped' = Unreaped /\ \A e \in Unreaped : workers'[e].txn = workers[e].txn
  BY <1>3 DEF Unreaped
<1> QED
  BY <1>1, <1>2, <1>4, RingFrame

\* Every step keeps the return channel exact, if it does not overrun it.
LEMMA RingNext ==
  ASSUME IInv, RingExact, NoOverrun', [Next]_vars
  PROVE  RingExact'
<1>1. CASE Reap
  BY <1>1, RingReap
<1>2. CASE Remove
  BY <1>2, RingRemove
<1>3. CASE \E e \in Entries : WorkerQuit(e)
  BY <1>3, RingQuit
<1>4. CASE \E e \in Entries : ClearJoin(e)
  <2>1. mgr' = mgr /\ ret_ch' = ret_ch /\ mgr.pc = "clear"
    BY <1>4 DEF ClearJoin, At
  <2> QED BY <2>1 DEF RingExact, At
<1>5. CASE UNCHANGED vars
  BY <1>5, RingFrame DEF vars, Unreaped, At
<1>6. CASE \/ Loop \/ LoopEnd \/ RecvNothing \/ Abort \/ Insert \/ FirstJob
           \/ Close \/ StopNext \/ Done \/ RecvBad \/ RecvStart \/ StopFlag \/ StopSocket
           \/ \E op \in JobOps, t \in TxnIds : RecvJob(op, t)
           \/ \E e \in Entries : WorkerTurn(e)
  BY <1>6, RingOthers
<1> QED
  BY <1>1, <1>2, <1>3, <1>4, <1>5, <1>6 DEF Next, ManagerStep, WorkerStep, WorkerTurn

\* It is exact when the server starts.
LEMMA RingInit == Init => RingExact
<1> SUFFICES ASSUME Init PROVE RingExact
  OBVIOUS
<1>1. /\ ret_ch.head = 0 /\ ret_ch.tail = 0 /\ ret_ch.count = 0 /\ mgr = Idle
      /\ \A e \in Entries : workers[e].pc = "none"
  BY DEF Init, EmptyEntry
<1>2. Unreaped = {} /\ Cardinality({}) = 0
  BY <1>1, FS_EmptySet DEF Unreaped
<1>3. 0 % MaxItems = 0
  <2>1. 0 \in 0 .. MaxItems - 1 /\ MaxItems \in Nat \ {0}
    BY ServerAssumption
  <2> QED BY <2>1, ModSmall
<1>4. 0 .. ret_ch.count - 1 = {} /\ ret_ch.head + ret_ch.count = 0
  BY <1>1
<1>5. RingBody
  BY <1>1, <1>2, <1>4 DEF RingBody
<1>6. ~At("remove")
  BY <1>1 DEF Idle, At
<1> QED
  BY <1>1, <1>3, <1>4, <1>5, <1>6, RingIs

\* As long as the return channel does not overflow, it holds the id of every
\* worker that ended and is not joined, each once, in every reachable state.
THEOREM RingInvariant == Spec /\ []NoOverrun => []RingExact
BY InitInv, NextInv, RingInit, RingNext, PTL DEF Spec

\* START_TXN then clears away exactly the workers that have ended.
THEOREM ReturnsTheorem == Spec /\ []NoOverrun => []ReturnsExact
<1>1. IInv /\ RingExact => ReturnsExact
  <2> SUFFICES ASSUME IInv, RingExact, mgr.pc \notin {"clear", "done"}
               PROVE  /\ ret_ch.count = Cardinality(Unreaped)
                      /\ {ret_ch.rets[i] : i \in InRing} = {workers[e].txn : e \in Unreaped}
    BY DEF ReturnsExact
  <2>1. RingBody
    BY RingIs
  <2>2. {ret_ch.rets[i] : i \in InRing} = {Ret(i) : i \in 0 .. ret_ch.count - 1}
    BY DEF InRing, Ret
  <2>3. {Ret(i) : i \in 0 .. ret_ch.count - 1} = {workers[e].txn : e \in Unreaped}
    BY <2>1 DEF RingBody
  <2>4. ret_ch.count = Cardinality(Unreaped)
    BY <2>1 DEF RingBody
  <2> QED BY <2>2, <2>3, <2>4
<1> QED
  BY <1>1, ServerInvariant, RingInvariant, PTL

\* The probe of WorkerTable::remove, which has no end condition, then always
\* ends, at an entry whose thread can be joined.
THEOREM RemoveTheorem == Spec /\ []NoOverrun => []RemoveFindsWorker
<1>1. IInv /\ RingExact => RemoveFindsWorker
  <2> SUFFICES ASSUME IInv, RingExact, At("remove")
               PROVE  /\ Matches(mgr.dead) # {}
                      /\ workers[Closest(mgr.dead, Matches(mgr.dead))].pc # "none"
    BY DEF RemoveFindsWorker
  <2> QED BY DeadFound DEF Unreaped
<1> QED
  BY <1>1, ServerInvariant, RingInvariant, PTL

\* A return channel with a place for every entry of the table never
\* overflows: with MAX_ITEM_PER_CHANNEL >= MAX_TRANSACTIONS, which is not what
\* the code has, both hold in every behaviour.
THEOREM LargeRingTheorem ==
  ASSUME MaxTxns <= MaxItems
  PROVE  Spec => [](ReturnsExact /\ RemoveFindsWorker)
<1>1. NoOverrun
  <2>1. Unreaped \in SUBSET Entries
    BY DEF Unreaped
  <2>2. Cardinality(Unreaped) \in 0 .. MaxTxns
    BY <2>1, EntriesFinite
  <2> QED BY <2>2, ServerAssumption DEF NoOverrun
<1> QED
  BY <1>1, ReturnsTheorem, RemoveTheorem, PTL
=============================================================================
