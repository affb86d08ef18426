------------------------------- MODULE Worker -------------------------------
(***************************************************************************)
(* The transaction workers (worker.cpp) over one StudentTable.  A worker   *)
(* is the thread of one transaction: it takes jobs from its channel,       *)
(* answers each, keeps its row locks in a lock_list and its changes in a   *)
(* commit_queue, applies the queue on COMMIT, and on its way out releases  *)
(* its locks and reports its id to the manager.                            *)
(*                                                                         *)
(* One step is one stretch of code between two points where other threads  *)
(* can act on the same state: taking a job and all the thread-local work   *)
(* up to the first use of the table, one operation of the table (it holds  *)
(* mtx_), one notification, one test of the running flag.  The manager     *)
(* clears that flag (Stop) at any time.  A timed wait on the table ends    *)
(* with the row granted or, when its condition does not hold, with a       *)
(* Timeout that the retry loops count.                                     *)
(***************************************************************************)
EXTENDS StudentTable, Sequences

CONSTANTS Workers,     \* the transactions
          NoWorker,    \* not a worker
          Jobs,        \* the jobs clients send
          MaxJobs,     \* bound: jobs per transaction
          MaxAllJobs,  \* bound: jobs of all transactions
          MaxRetry,    \* MAX_TIMEOUT_RETRY (8 in the code)
          MaxLocks,    \* MAX_LOCK_PER_TRANSACTION (16 in the code)
          MaxCommits,  \* MAX_COMMIT_PER_TRANSACTION (16 in the code)
          TblId,       \* tbl_id<StudentTable>() (1 in the code)
          Preload,     \* rows committed by earlier transactions
          Rereads      \* may a client share-read while it holds a shared lock?

ASSUME WorkerAssumption ==
    /\ MaxJobs \in Nat /\ MaxAllJobs \in Nat /\ MaxRetry \in Nat /\ MaxCommits \in Nat \ {0}
    /\ MaxLocks \in Nat \ {0} /\ Rows <= MaxLocks
    /\ IsFiniteSet(Workers) /\ Cardinality(Workers) <= LkMax
    /\ TblId \in Nat \ {0} /\ NoWorker \notin Workers
    /\ Preload \in 0 .. Rows /\ Rereads \in BOOLEAN

Ops == {"START_TXN", "COMMIT_TXN", "ABORT_TXN", "ADD_TUPLE", "SHARED_READ",
        "EXCLUSIVE_READ", "YIELD_READ", "PROMOTE", "UPDATE", "DELETE"}

\* A job names a table and a row; BadField is one the parser rejects.
BadField == -1
Job == [op : Ops \cup {"BAD_OP"}, tbl : Nat \cup {BadField},
        key : Keys \cup {BadField}, data : Data]

ASSUME JobsAssumption == Jobs \subseteq Job

VARIABLES txn,      \* the state of each worker, a record
          running,  \* WorkerContext::running_
          ret_ch,   \* the ids sent to the manager
          mtx       \* a worker that will never give mtx_ back, or NoWorker

vars == <<table, s_avail_cnt, x_avail_cnt, size, next_key,
          txn, running, ret_ch, mtx>>

LL == INSTANCE LockList

NoJob == [op |-> "none", tbl |-> BadField, key |-> BadField, data |-> NoData]

NewTxn ==
    [pc      |-> "loop",         \* where the thread is
     status  |-> "GROWING",      \* status_
     locks   |-> LL!EmptyList,   \* lock_list_
     commits |-> <<>>,           \* commit_queue_
     job     |-> NoJob,          \* the job being handled
     tries   |-> 0,              \* timeout_cnt of a retry loop
     cursor  |-> 0,              \* lock_it of release_all_locks
     taken   |-> 0,              \* bound: jobs taken
     acks    |-> <<>>,           \* history: replies to the job
     pops    |-> 0,              \* history: job_ch_.pop() calls for the job
     acked   |-> 0,              \* history: changes replied SUCCESS
     applied |-> 0,              \* history: changes made to the table
     committed |-> FALSE]        \* history: COMMIT replied SUCCESS

Init ==
    /\ table = [i \in Slots |->
                  IF i < Preload
                  THEN [EmptyEntry EXCEPT !.key = i, !.used = TRUE]
                  ELSE EmptyEntry]
    /\ s_avail_cnt = Preload /\ x_avail_cnt = Preload /\ size = Preload
    /\ next_key = Preload
    /\ txn = [w \in Workers |-> NewTxn]
    /\ running = [w \in Workers |-> TRUE]
    /\ ret_ch = <<>> /\ mtx = NoWorker

-----------------------------------------------------------------------------
(* Replies *)

Reply(t, ack) == [t EXCEPT !.acks = Append(@, ack)]

Pop(t) == [t EXCEPT !.pops = @ + 1]

\* reply, pop, and back to the loop of start
Answer(t, ack) == [Pop(Reply(t, ack)) EXCEPT !.pc = "loop"]

\* reply and pop of a COMMIT or ABORT, and on to worker_quit
LastAnswer(t) == [Pop(Reply(t, "SUCCESS")) EXCEPT
                    !.pc = "quit", !.committed = t.job.op = "COMMIT_TXN"]

-----------------------------------------------------------------------------
(* The handlers, up to their first use of the table: each maps the state of *)
(* the worker to its next state.                                            *)

Shrink(t) == [t EXCEPT !.status = IF @ = "GROWING" THEN "SHRINKING" ELSE @]

HeldType(t) == IF t.job.tbl = TblId THEN LL!get_lock(t.locks, t.job.key)
               ELSE "NotFound"

Change(t) == [op |-> t.job.op, key |-> t.job.key, data |-> t.job.data]

\* ADD and UPDATE reply SUCCESS before they know whether the queue has room.
process_add(t) ==
    LET s == Shrink(t)
        a == [Reply(s, "SUCCESS") EXCEPT !.acked = @ + 1]
    IN  IF t.job.tbl # TblId THEN Answer(s, "BAD_TABLE")
        ELSE IF Len(t.commits) >= MaxCommits THEN Answer(a, "COMMIT_FULL")
        ELSE [Pop(a) EXCEPT !.commits = Append(@, Change(t)), !.pc = "loop"]

process_update(t) ==
    LET s == Shrink(t)
        a == [Reply(s, "SUCCESS") EXCEPT !.acked = @ + 1]
    IN  IF t.job.tbl = BadField THEN Answer(s, "BAD_TABLE")
        ELSE IF t.job.key = BadField THEN Answer(s, "BAD_TP")
        ELSE IF HeldType(t) # "EXCLUSIVE" THEN Answer(s, "BAD_ACCESS")
        ELSE IF Len(t.commits) >= MaxCommits THEN Answer(a, "COMMIT_FULL")
        ELSE [Pop(a) EXCEPT !.commits = Append(@, Change(t)), !.pc = "loop"]

\* Mutant: any lock on the row is enough to delete it.
process_rm_AnyLock(t) ==
    LET s == Shrink(t)
    IN  IF t.job.tbl = BadField THEN Answer(s, "BAD_TABLE")
        ELSE IF t.job.key = BadField THEN Answer(s, "BAD_TP")
        ELSE IF HeldType(t) = "NotFound" THEN Answer(s, "BAD_ACCESS")
        ELSE IF Len(t.commits) >= MaxCommits THEN Answer(s, "COMMIT_FULL")
        ELSE [Answer(s, "SUCCESS") EXCEPT !.commits = Append(@, Change(t)),
                                          !.acked = @ + 1]

process_rm(t) ==
    LET s == Shrink(t)
    IN  IF t.job.tbl = BadField THEN Answer(s, "BAD_TABLE")
        ELSE IF t.job.key = BadField THEN Answer(s, "BAD_TP")
        ELSE IF HeldType(t) # "EXCLUSIVE" THEN Answer(s, "BAD_ACCESS")
        ELSE IF Len(t.commits) >= MaxCommits THEN Answer(s, "COMMIT_FULL")
        ELSE [Answer(s, "SUCCESS") EXCEPT !.commits = Append(@, Change(t)),
                                          !.acked = @ + 1]

\* Mutant: no return after the BAD_PHASE reply.
process_read_NoReturn(t) ==
    LET s == IF t.status # "GROWING" THEN Answer(t, "BAD_PHASE") ELSE t
    IN  IF t.job.tbl # TblId THEN Answer(s, "BAD_TABLE")
        ELSE [s EXCEPT !.pc = "head", !.tries = 0]

\* process_shared_read and process_exclusive_read up to their retry loop
process_read(t) ==
    IF t.status # "GROWING" THEN Answer(t, "BAD_PHASE")
    ELSE IF t.job.tbl # TblId THEN Answer(t, "BAD_TABLE")
    ELSE [t EXCEPT !.pc = "head", !.tries = 0]

\* process_yield up to the release, process_promote up to its retry loop
process_held(t) ==
    IF t.status # "GROWING" THEN Answer(t, "BAD_PHASE")
    ELSE IF t.job.tbl = BadField THEN Answer(t, "BAD_TABLE")
    ELSE IF t.job.key = BadField THEN Answer(t, "BAD_TP")
    ELSE IF HeldType(t) # "SHARED" THEN Answer(t, "BAD_ACCESS")
    ELSE IF t.job.op = "YIELD_READ"
         THEN [t EXCEPT !.locks = LL!rm_lock(@, t.job.key), !.pc = "yield"]
         ELSE [t EXCEPT !.pc = "head", !.tries = 0]

\* Mutant: a transaction without locks is taken to have nothing to commit.
process_commit_LocksOnly(t) ==
    IF t.status # "SHRINKING" \/ t.locks.size = 0
    THEN LastAnswer(t)
    ELSE [t EXCEPT !.pc = "commit"]

\* A transaction that is not SHRINKING has nothing to commit.
process_commit(t) ==
    IF t.status # "SHRINKING"
    THEN LastAnswer(t)
    ELSE [t EXCEPT !.pc = "commit"]

Dispatch(t) ==
    CASE t.job.op = "START_TXN"  -> Answer(t, "SUCCESS")
      [] t.job.op = "COMMIT_TXN" -> process_commit(t)
      [] t.job.op = "ABORT_TXN"  -> LastAnswer(t)
      [] t.job.op = "ADD_TUPLE"  -> process_add(t)
      [] t.job.op \in {"SHARED_READ", "EXCLUSIVE_READ"} -> process_read(t)
      [] t.job.op \in {"YIELD_READ", "PROMOTE"} -> process_held(t)
      [] t.job.op = "UPDATE"     -> process_update(t)
      [] t.job.op = "DELETE"     -> process_rm(t)
      [] OTHER                   -> Answer(t, "BAD_OP")

-----------------------------------------------------------------------------
(* The loop of start *)

\* A step of worker w alone, to state t.
Become(w, t) == txn' = [txn EXCEPT ![w] = t]

At(w, pc) == txn[w].pc = pc

sharedVars == <<running, ret_ch, mtx>>

\* Mutant: the running flag is not tested.
Loop_Forever(w) ==
    /\ At(w, "loop")
    /\ Become(w, [txn[w] EXCEPT !.pc = "recv", !.job = NoJob, !.acks = <<>>,
                                !.tries = 0,
                                !.pops = IF @ <= 1 THEN 0 ELSE @])
    /\ UNCHANGED <<tableVars, sharedVars>>

\* while (is_running()); the job of the last round is out of scope.
Loop(w) ==
    /\ At(w, "loop")
    /\ Become(w, [txn[w] EXCEPT !.pc = IF running[w] THEN "recv" ELSE "quit",
                                !.job = NoJob, !.acks = <<>>, !.tries = 0,
                                !.pops = IF @ <= 1 THEN 0 ELSE @])
    /\ UNCHANGED <<tableVars, sharedVars>>

\* recv times out.  The code counts this in timeout_cnt_, which it sets to
\* zero again before it ever compares it: an idle worker stays.
RecvTimeout(w) ==
    /\ At(w, "recv")
    /\ Become(w, [txn[w] EXCEPT !.pc = "loop"])
    /\ UNCHANGED <<tableVars, sharedVars>>

\* What a client may send: by choice it does not share-read a second time
\* while it holds a shared lock, since wait_shared picks the row.
ClientSends(t, j) ==
    (j.op = "SHARED_READ" /\ ~Rereads) =>
        \A i \in LL!Held(t.locks) : t.locks.locks[i].type # "SHARED"

\* The jobs taken so far
AllTaken == UNION {{w} \X (1 .. txn[w].taken) : w \in Workers}

\* A job is taken and handled up to its first use of the table.  A channel
\* popped more often than it was filled yields no defined job any more.
Recv(w, j) ==
    /\ At(w, "recv")
    /\ txn[w].taken < MaxJobs /\ Cardinality(AllTaken) < MaxAllJobs
    /\ txn[w].pops = 0
    /\ ClientSends(txn[w], j)
    /\ Become(w, Dispatch([txn[w] EXCEPT !.job = j, !.taken = @ + 1]))
    /\ UNCHANGED <<tableVars, sharedVars>>

-----------------------------------------------------------------------------
(* Retry loops of SHARED_READ, EXCLUSIVE_READ and PROMOTE *)

\* Mutant: one retry too many.
RetryHead_OneMore(w) ==
    LET t == txn[w]
        promoting == t.job.op = "PROMOTE"
        aborted == [t EXCEPT !.status = "ABORTED"]
    IN  /\ At(w, "head")
        /\ Become(w,
             IF t.tries > MaxRetry
             THEN Answer(IF promoting THEN aborted ELSE t, "TIMEOUT")
             ELSE IF ~running[w]
             THEN Answer(IF promoting THEN t ELSE aborted, "ABORTED")
             ELSE [t EXCEPT !.pc = "wait"])
        /\ UNCHANGED <<tableVars, sharedVars>>

\* The tests at the head of the loop, before the call that waits.
RetryHead(w) ==
    LET t == txn[w]
        promoting == t.job.op = "PROMOTE"
        aborted == [t EXCEPT !.status = "ABORTED"]
    IN  /\ At(w, "head")
        /\ Become(w,
             IF t.tries >= MaxRetry
             THEN Answer(IF promoting THEN aborted ELSE t, "TIMEOUT")
             ELSE IF ~running[w]
             THEN Answer(IF promoting THEN t ELSE aborted, "ABORTED")
             ELSE [t EXCEPT !.pc = "wait"])
        /\ UNCHANGED <<tableVars, sharedVars>>

Waits(w, op) == At(w, "wait") /\ txn[w].job.op = op /\ mtx = NoWorker

\* A failed add_lock does not return: a second reply and pop follow.
GrantShared(w) ==
    LET t == txn[w]
        r == LL!add_lock(t.locks, table[SharedGrant].key, "SHARED")
        s == [t EXCEPT !.locks = r.list]
    IN  /\ Waits(w, "SHARED_READ")
        /\ wait_shared
        /\ Become(w, Answer(IF r.error = "None" THEN s
                            ELSE Answer(s, "BAD_ACCESS"), "SUCCESS"))
        /\ UNCHANGED sharedVars

GrantExclusive(w) ==
    LET t == txn[w]
        r == LL!add_lock(t.locks, table[ExclusiveGrant].key, "EXCLUSIVE")
    IN  /\ Waits(w, "EXCLUSIVE_READ")
        /\ wait_exclusive
        /\ Become(w, Answer([t EXCEPT !.locks = r.list],
                            IF r.error = "None" THEN "SUCCESS"
                            ELSE "BAD_ACCESS"))
        /\ UNCHANGED sharedVars

GrantPromote(w) ==
    LET k == txn[w].job.key
    IN  /\ Waits(w, "PROMOTE")
        /\ promote(k)
        /\ Become(w, Answer([txn[w] EXCEPT !.locks = LL!promote_lock(@, k)],
                            "SUCCESS"))
        /\ UNCHANGED sharedVars

\* Mutant: a timeout is not counted.
WaitTimeout_NotCounted(w) ==
    /\ \/ /\ Waits(w, "SHARED_READ")
          /\ empty \/ s_avail_cnt = 0 \/ Shareable = {}
       \/ /\ Waits(w, "EXCLUSIVE_READ")
          /\ empty \/ x_avail_cnt = 0 \/ Excludable = {}
       \/ /\ Waits(w, "PROMOTE")
          /\ ~Spins(txn[w].job.key)
          /\ table[Seek(txn[w].job.key)].lock # 1
    /\ Become(w, [txn[w] EXCEPT !.pc = "head"])
    /\ UNCHANGED <<tableVars, sharedVars>>

\* The condition waited for does not hold when the time is over, or no row
\* is found although it does.
WaitTimeout(w) ==
    /\ \/ /\ Waits(w, "SHARED_READ")
          /\ empty \/ s_avail_cnt = 0 \/ Shareable = {}
       \/ /\ Waits(w, "EXCLUSIVE_READ")
          /\ empty \/ x_avail_cnt = 0 \/ Excludable = {}
       \/ /\ Waits(w, "PROMOTE")
          /\ ~Spins(txn[w].job.key)
          /\ table[Seek(txn[w].job.key)].lock # 1
    /\ Become(w, [txn[w] EXCEPT !.tries = @ + 1, !.pc = "head"])
    /\ UNCHANGED <<tableVars, sharedVars>>

\* The end of process_yield
Yield(w) ==
    /\ At(w, "yield") /\ mtx = NoWorker
    /\ release(txn[w].job.key)
    /\ Become(w, Answer(txn[w], "SUCCESS"))
    /\ UNCHANGED sharedVars

-----------------------------------------------------------------------------
(* The commit loop *)

Front(w) == Head(txn[w].commits)

Commits(w, op) ==
    At(w, "commit") /\ txn[w].commits # <<>> /\ Front(w).op = op

Applied(t) == [t EXCEPT !.commits = Tail(@), !.applied = @ + 1,
                        !.pc = "commit"]

CommitAdd(w) ==
    /\ Commits(w, "ADD_TUPLE") /\ mtx = NoWorker
    /\ insert(Front(w).data)
    /\ Become(w, Applied(txn[w]))
    /\ UNCHANGED sharedVars

\* insert waits for room, without a time limit.
CommitSleep(w) ==
    /\ Commits(w, "ADD_TUPLE") /\ mtx = NoWorker
    /\ full
    /\ Become(w, [txn[w] EXCEPT !.pc = "asleep"])
    /\ UNCHANGED <<tableVars, sharedVars>>

SpuriousWake(w) ==
    /\ At(w, "asleep")
    /\ Become(w, [txn[w] EXCEPT !.pc = "commit"])
    /\ UNCHANGED <<tableVars, sharedVars>>

CommitDelete(w) ==
    LET k == Front(w).key
    IN  /\ Commits(w, "DELETE") /\ mtx = NoWorker
        /\ ~LL!RmLockSpins(txn[w].locks, k)
        /\ remove(k)
        /\ Become(w, [txn[w] EXCEPT !.locks = LL!rm_lock(@, k),
                                    !.pc = "notify"])
        /\ UNCHANGED sharedVars

\* Mutant: notify_not_full is missing.
CommitNotify_Silent(w) ==
    /\ At(w, "notify")
    /\ Become(w, Applied(txn[w]))
    /\ UNCHANGED <<tableVars, sharedVars>>

\* notify_one wakes one of the sleepers, if there is one.
CommitNotify(w) ==
    LET asleep == {v \in Workers : At(v, "asleep")}
    IN  /\ At(w, "notify")
        /\ \/ asleep = {} /\ Become(w, Applied(txn[w]))
           \/ \E v \in asleep :
                txn' = [txn EXCEPT ![w] = Applied(txn[w]),
                                   ![v].pc = "commit"]
        /\ UNCHANGED <<tableVars, sharedVars>>

\* UPDATE stores a tuple default-constructed and then deserialized, and
\* deserialize leaves the key alone: the key written is always this one.
DeserializedKey == 0

CommitUpdate(w) ==
    /\ Commits(w, "UPDATE") /\ mtx = NoWorker
    /\ write(DeserializedKey, Front(w).data)
    /\ Become(w, Applied(txn[w]))
    /\ UNCHANGED sharedVars

CommitDone(w) ==
    /\ At(w, "commit") /\ txn[w].commits = <<>>
    /\ Become(w, LastAnswer(txn[w]))
    /\ UNCHANGED <<tableVars, sharedVars>>

-----------------------------------------------------------------------------
(* worker_quit *)

ToRelease(w) == LL!Remaining(txn[w].locks, txn[w].cursor)

NextLock(w) == LL!NextValid(txn[w].locks, txn[w].cursor)

ReleaseLock(w) ==
    /\ At(w, "quit") /\ ToRelease(w) # {} /\ mtx = NoWorker
    /\ release(txn[w].locks.locks[NextLock(w)].key)
    /\ Become(w, [txn[w] EXCEPT !.cursor = NextLock(w) + 1])
    /\ UNCHANGED sharedVars

\* Mutant: the locks are forgotten, not released.
QuitDone_NoRelease(w) ==
    /\ At(w, "quit")
    /\ Become(w, [txn[w] EXCEPT !.locks = LL!clear(@), !.commits = <<>>,
                                !.pc = "dead"])
    /\ ret_ch' = Append(ret_ch, w)
    /\ UNCHANGED <<tableVars, running, mtx>>

QuitDone(w) ==
    /\ At(w, "quit") /\ ToRelease(w) = {}
    /\ Become(w, [txn[w] EXCEPT !.locks = LL!clear(@), !.commits = <<>>,
                                !.pc = "dead"])
    /\ ret_ch' = Append(ret_ch, w)
    /\ UNCHANGED <<tableVars, running, mtx>>

-----------------------------------------------------------------------------
(* Loops that do not end *)

\* The key a table operation about to be called probes for, if it does.
KeysSought(w) ==
    CASE At(w, "yield") -> {txn[w].job.key}
      [] Waits(w, "PROMOTE") -> {txn[w].job.key}
      [] Commits(w, "UPDATE") -> {DeserializedKey}
      [] Commits(w, "DELETE") -> {Front(w).key}
      [] At(w, "quit") /\ ToRelease(w) # {} ->
           {txn[w].locks.locks[NextLock(w)].key}
      [] OTHER -> {}

\* The probe of the table finds nothing and keeps mtx_.
TableSpin(w) ==
    /\ mtx = NoWorker
    /\ ~(Commits(w, "DELETE") /\ LL!RmLockSpins(txn[w].locks, Front(w).key))
    /\ \E k \in KeysSought(w) : Spins(k)
    /\ Become(w, [txn[w] EXCEPT !.pc = "hung"])
    /\ mtx' = w
    /\ UNCHANGED <<tableVars, running, ret_ch>>

\* The probe of the lock list finds nothing; the mutex is not held.
LockListSpin(w) ==
    /\ Commits(w, "DELETE")
    /\ LL!RmLockSpins(txn[w].locks, Front(w).key)
    /\ Become(w, [txn[w] EXCEPT !.pc = "hung"])
    /\ UNCHANGED <<tableVars, sharedVars>>

-----------------------------------------------------------------------------
\* The manager stops a worker: ABORT_TXN, or the end of the server.
Stop(w) ==
    /\ running[w]
    /\ running' = [running EXCEPT ![w] = FALSE]
    /\ UNCHANGED <<tableVars, txn, ret_ch, mtx>>

\* What the thread of w does by itself.
Step(w) ==
    \/ Loop(w) \/ RecvTimeout(w) \/ RetryHead(w)
    \/ GrantShared(w) \/ GrantExclusive(w) \/ GrantPromote(w)
    \/ WaitTimeout(w) \/ Yield(w)
    \/ CommitAdd(w) \/ CommitSleep(w) \/ CommitDelete(w) \/ CommitNotify(w)
    \/ CommitUpdate(w) \/ CommitDone(w)
    \/ ReleaseLock(w) \/ QuitDone(w) \/ TableSpin(w) \/ LockListSpin(w)

Next ==
    \E w \in Workers :
        \/ Step(w)
        \/ \E j \in Jobs : Recv(w, j)
        \/ SpuriousWake(w) \/ Stop(w)

Spec == Init /\ [][Next]_vars

\* Threads are scheduled; clients need not send and nobody need be stopped.
FairSpec == Spec /\ \A w \in Workers : WF_vars(Step(w))

-----------------------------------------------------------------------------
(* Properties *)

Pcs == {"loop", "recv", "head", "wait", "yield", "commit", "asleep",
        "notify", "quit", "dead", "hung"}

TypeOK ==
    /\ TableTypeOK
    /\ \A w \in Workers :
         /\ txn[w].pc \in Pcs
         /\ txn[w].status \in {"GROWING", "SHRINKING", "ABORTED"}
         /\ txn[w].locks.size \in 0 .. MaxLocks
         /\ Len(txn[w].commits) \in 0 .. MaxCommits
         /\ txn[w].tries \in 0 .. MaxRetry
         /\ txn[w].taken \in 0 .. MaxJobs
    /\ running \in [Workers -> BOOLEAN]
    /\ ret_ch \in Seq(Workers)
    /\ mtx \in Workers \cup {NoWorker}

\* The locks worker w has on row k, from its own records: the entries of its
\* list that it has not yet released, and the one it is about to yield.
Records(w, k, type) ==
    {i \in ToRelease(w) : /\ txn[w].locks.locks[i].key = k
                          /\ txn[w].locks.locks[i].type = type}
    \cup {i \in {MaxLocks} : At(w, "yield") /\ txn[w].job.key = k
                                            /\ type = "SHARED"}

Recorded(k, type) ==
    UNION {{w} \X Records(w, k, type) : w \in Workers}

\* The lock words of the table and the lock lists of the workers agree at
\* every moment: an exclusive lock is in exactly one list and alone, a row
\* is shared by as many locks as the lists record, and what a worker leaves
\* behind when it quits, on whatever path, is nothing.
LocksMatchTable ==
    \A i \in Slots : Live(i) =>
        LET S == Recorded(table[i].key, "SHARED")
            X == Recorded(table[i].key, "EXCLUSIVE")
        IN  IF table[i].lock = -1
            THEN S = {} /\ Cardinality(X) = 1
            ELSE X = {} /\ table[i].lock = Cardinality(S)

\* A job is answered at most once and taken from the channel as often as it
\* is answered.  RequestAnswered and CommitEnds say when it is answered at all.
OneReplyPerJob ==
    \A w \in Workers :
        Len(txn[w].acks) <= 1 /\ txn[w].pops = Len(txn[w].acks)

\* When COMMIT is answered SUCCESS, every change of the transaction that was
\* answered SUCCESS has been made in the table.
AckedIsApplied ==
    \A w \in Workers :
        txn[w].committed => txn[w].applied = txn[w].acked

\* The same of a transaction that no request had marked ABORTED before, on a
\* queue that had room for its changes.
CommitIsComplete ==
    \A w \in Workers :
        (txn[w].committed /\ txn[w].status # "ABORTED") =>
            txn[w].applied = txn[w].acked

\* A row is changed or removed only in the commit of a worker whose own list
\* still records an exclusive lock on it.
ChangedUnderLock ==
    [][\A i \in Slots : Live(i) =>
         \/ Live(i)' /\ table'[i].data = table[i].data
         \/ \E w \in Workers : /\ At(w, "commit") /\ txn'[w] # txn[w]
                               /\ Records(w, table[i].key, "EXCLUSIVE") # {}]_vars

\* An UPDATE that is committed changes the row it names.
UpdateReachesItsRow ==
    [][\A w \in Workers :
         (Commits(w, "UPDATE") /\ txn'[w].applied # txn[w].applied) =>
             \E i \in Slots : /\ Live(i)' /\ table'[i].key = Front(w).key
                              /\ table'[i].data = Front(w).data]_vars

\* When all transactions are over, no row is locked.
LocksReleased ==
    (\A w \in Workers : At(w, "dead")) =>
        \A i \in Slots : Live(i) => table[i].lock = 0

\* No worker is caught in a loop that cannot end.
NoEndlessProbe == \A w \in Workers : ~At(w, "hung")

\* The two ways into a loop without end: the commit deletes a row that it has
\* deleted already, or writes the row of DeserializedKey after that is gone.
\* The second keeps the mutex of the table from everybody.
DeletesTwice(w) ==
    /\ At(w, "hung") /\ txn[w].commits # <<>> /\ Front(w).op = "DELETE"
    /\ LL!get_lock(txn[w].locks, Front(w).key) = "NotFound"

TableLost ==
    \E w \in Workers :
        /\ mtx = w /\ txn[w].commits # <<>> /\ Front(w).op = "UPDATE"
        /\ \A i \in Slots : Live(i) => table[i].key # DeserializedKey

Committing(w) == txn[w].pc \in {"commit", "asleep", "notify"}

\* The commit of w is at an insert, and the table is full at this moment.
NoRoom(w) == Committing(w) /\ txn[w].commits # <<>>
                           /\ Front(w).op = "ADD_TUPLE" /\ full

\* Worker w ends, or loops, or has to wait for room.
Ends(w) == At(w, "dead") \/ DeletesTwice(w) \/ TableLost \/ NoRoom(w)

\* A commit comes to its end and takes the worker with it.  This is said of
\* every moment of it: an insert that sleeps goes on when there is room, or
\* the table is full again.  Nothing but a second DELETE of a row, or an
\* UPDATE after row 0 is gone, makes it loop.
CommitEnds ==
    \A w \in Workers : Committing(w) ~> Ends(w)

\* A read or a promotion is answered: waiters on each other's rows time out.
RequestAnswered ==
    \A w \in Workers :
        At(w, "head") ~> (At(w, "loop") /\ txn[w].acks # <<>>) \/ TableLost

\* A worker that is told to stop does, with the same exceptions as a commit.
StoppedDies ==
    \A w \in Workers : ~running[w] ~> Ends(w)

-----------------------------------------------------------------------------
(* Inductive strengthenings.  The first is about one worker at a time.      *)

Statuses == {"GROWING", "SHRINKING", "ABORTED"}
Acks == {"SUCCESS", "BAD_OP", "BAD_TABLE", "BAD_TP", "BAD_ACCESS",
         "BAD_PHASE", "COMMIT_FULL", "TIMEOUT", "ABORTED"}
Types == {"SHARED", "EXCLUSIVE"}

LockRec == [key : Keys \cup {LL!NoKey}, type : Types,
            used : BOOLEAN, deleted : BOOLEAN]
ListRec == [locks : [LL!Entries -> LockRec], size : Int]
ChangeRec == [op : Ops, key : Keys \cup {BadField}, data : Data]

TxnRec ==
    [pc : Pcs, status : Statuses, locks : ListRec, commits : Seq(ChangeRec),
     job : Jobs \cup {NoJob}, tries : Nat, cursor : Nat, taken : Nat,
     acks : Seq(Acks), pops : Nat, acked : Nat, applied : Nat,
     committed : BOOLEAN]

Counted(L) == L.size = Cardinality(LL!Held(L))

Blank(L) ==
    \A i \in LL!Entries : ~L.locks[i].used => L.locks[i].key = LL!NoKey

RowsOnce(L) ==
    \A i, j \in LL!Held(L) :
        L.locks[i].key \in Keys /\ (L.locks[i].key = L.locks[j].key => i = j)

\* size_ of the list counts its locks; an entry never used has no row's key
\* (the list is cleared, and not used again, at the very end).
ListCounted(t) == Counted(t.locks) /\ (t.pc # "dead" => Blank(t.locks))

\* The limits, the lock a waiting promotion has seen in the list, and where
\* queued changes come from
WithinLimits(t) ==
    /\ t.tries <= MaxRetry /\ (t.pc = "wait" => t.tries < MaxRetry)
    /\ t.taken <= MaxJobs /\ Len(t.commits) <= MaxCommits
    /\ t.pc = "notify" => t.commits # <<>>
    /\ t.pc \in {"head", "wait", "yield"} => t.job \in Jobs
    /\ (t.pc \in {"head", "wait"} /\ t.job.op = "PROMOTE") =>
         t.job.key \in Keys /\ LL!get_lock(t.locks, t.job.key) = "SHARED"
    /\ \A n \in DOMAIN t.commits :
         /\ \E j \in Jobs : t.commits[n].op = j.op /\ t.commits[n].key = j.key
         /\ t.commits[n].op \in {"UPDATE", "DELETE"} => t.commits[n].key \in Keys

TypeInv ==
    /\ TableTypeOK
    /\ txn \in [Workers -> TxnRec]
    /\ \A w \in Workers : ListCounted(txn[w]) /\ WithinLimits(txn[w])
    /\ running \in [Workers -> BOOLEAN]
    /\ ret_ch \in Seq(Workers)
    /\ mtx \in Workers \cup {NoWorker}

\* Changes acknowledged are made or queued; a transaction that has queued one
\* is not GROWING any more.
Accounted(t) ==
    /\ Len(t.commits) <= t.taken
    /\ t.pc # "dead" => t.acked = t.applied + Len(t.commits)
    /\ t.status = "GROWING" => t.commits = <<>>
    /\ t.committed => /\ t.pc \in {"quit", "dead", "hung"}
                      /\ t.status # "ABORTED" => t.applied = t.acked

\* A job under way has no reply yet.
Answered(t) ==
    /\ Len(t.acks) <= 1 /\ t.pops = Len(t.acks)
    /\ t.pc \in {"recv", "head", "wait", "yield", "commit", "asleep", "notify"}
         => t.acks = <<>>

-----------------------------------------------------------------------------
(* The second is about the lock lists and the table together.               *)

\* The record of worker state t has a lock of this type on row k.
Listed(L, from, k, type) ==
    \E i \in LL!Remaining(L, from) :
        L.locks[i].key = k /\ L.locks[i].type = type

Has(t, k, type) ==
    \/ Listed(t.locks, t.cursor, k, type)
    \/ t.pc = "yield" /\ t.job.key = k /\ type = "SHARED"

\* A list has a row once; a worker about to share a row shares none, and one
\* about to give a row back has it in the list no more.
ListKept(t) ==
    /\ RowsOnce(t.locks)
    /\ t.pc \notin {"quit", "dead"} => t.cursor = 0
    /\ t.pc = "dead" => LL!Held(t.locks) = {}
    /\ t.pc \in {"head", "wait", "yield"} => t.status = "GROWING"
    /\ t.status = "GROWING" => t.commits = <<>>
    /\ (t.pc \in {"head", "wait"} /\ t.job.op = "SHARED_READ") =>
         \A k \in Keys : ~Listed(t.locks, 0, k, "SHARED")
    /\ t.pc = "yield" => /\ t.job.key \in Keys
                         /\ \A type \in Types :
                              ~Listed(t.locks, 0, t.job.key, type)

Sharers(k) == {w \in Workers : Has(txn[w], k, "SHARED")}
Excluders(k) == {w \in Workers : Has(txn[w], k, "EXCLUSIVE")}

\* The lock word l of a row encodes the workers that share it, S, and the
\* ones that have it for themselves, X.
Word(l, S, X) ==
    \/ l = -1 /\ S = {} /\ \E w \in Workers : X = {w}
    \/ l = Cardinality(S) /\ X = {}

WordsMatch ==
    \A i \in LiveSlots, k \in Keys :
        table[i].key = k => Word(table[i].lock, Sharers(k), Excluders(k))

InTable(k) == \E i \in LiveSlots : table[i].key = k

\* A row somebody has is in the table.
RecordsLive ==
    \A w \in Workers, k \in Keys, type \in Types :
        Has(txn[w], k, type) => InTable(k)

\* next_key_ is larger than every key in use.
KeysBelow == \A i \in LiveSlots : table[i].key < next_key

\* The queue of t has a change of row k.
Queues(t, k) ==
    \E n \in DOMAIN t.commits :
        t.commits[n].op \in {"UPDATE", "DELETE"} /\ t.commits[n].key = k

\* A row with a queued change is locked exclusively until the change is made,
\* or is deleted and does not come back.
ChangesLocked ==
    \A w \in Workers, k \in Keys :
        (txn[w].pc \notin {"quit", "dead"} /\ Queues(txn[w], k)) =>
            k < next_key /\ (Has(txn[w], k, "EXCLUSIVE") \/ ~InTable(k))

\* Inductive for clients without rereads while next_key_ does not wrap.
LockInv ==
    /\ TypeInv
    /\ UniqueKeys /\ ProbePath /\ KeysBelow
    /\ \A w \in Workers : ListKept(txn[w])
    /\ WordsMatch /\ RecordsLive /\ ChangesLocked

\* next_key_ is not about to wrap.
KeysLeft == next_key < RowT - 1
=============================================================================
