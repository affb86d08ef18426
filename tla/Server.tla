------------------------------- MODULE Server -------------------------------
(***************************************************************************)
(* The manager (thread_manager.cpp), its table of workers                  *)
(* (worker_table.cpp) and the channels between them (job_channel.cpp,      *)
(* ret_channel.cpp): how transactions start, receive jobs, end, and are    *)
(* cleared away.  What a worker does with a job is in Worker; here it      *)
(* takes a job, replies and pops as often as the handler does, and ends    *)
(* after COMMIT, ABORT or a stop, or gets stuck in the table.              *)
(*                                                                         *)
(* The manager is one thread.  A step of it is what it does between two    *)
(* uses of state it shares with the workers: their running flags, their    *)
(* job channels, the return channel.                                       *)
(***************************************************************************)
EXTENDS Integers, FiniteSets, Sequences

CONSTANTS MaxTxns,   \* MAX_TRANSACTIONS (64 in the code)
          MaxItems,  \* MAX_ITEM_PER_CHANNEL (16 in the code)
          MaxTxnId,  \* bound: transactions started
          MaxMsgs,   \* bound: messages received
          MaxRest    \* bound: messages that start no transaction

ASSUME ServerAssumption ==
    /\ MaxTxns \in Nat \ {0} /\ MaxItems \in Nat \ {0}
    /\ MaxTxnId \in Nat /\ MaxMsgs \in Nat /\ MaxRest \in Nat

VARIABLES workers,    \* WorkerTable::table_, a context and two flags per entry
          size,       \* WorkerTable: entries in use
          ret_ch,     \* the ring of ids that ended workers send
          next_txn,   \* next_txn_id
          mgr,        \* where the manager is, and its local variables
          running,    \* ThreadManager::running_
          stop,       \* how far the call of stop has come
          sock,       \* the server's socket: "open", "shut" or "closed"
          answers,    \* history: the number of answers to each message
          twice,      \* history: messages whose handler replied twice
          dropped     \* history: messages a second pop took off, unread

vars == <<workers, size, ret_ch, next_txn, mgr, running, stop, sock, answers,
          twice, dropped>>

Entries == 0 .. MaxTxns - 1
TxnIds == 0 .. MaxTxnId

\* Besides START_TXN: jobs that end a worker, and any other job
JobOps == {"COMMIT_TXN", "ABORT_TXN", "JOB"}

\* A job is the op and transaction of a message, and the message's number.
NoJob == [op |-> "none", txn |-> 0, msg |-> 0]

\* A default-constructed context; pc is "none" while there is no thread.
EmptyEntry == [txn |-> 0, used |-> FALSE, deleted |-> FALSE, jobs |-> <<>>,
               running |-> FALSE, pc |-> "none", job |-> NoJob]

\* The manager at the head of its loop
Idle == [pc |-> "loop", msg |-> 0, dead |-> 0, entry |-> 0]

Init ==
    /\ workers = [e \in Entries |-> EmptyEntry]
    /\ size = 0
    /\ ret_ch = [rets |-> [i \in 0 .. MaxItems - 1 |-> 0],
                 head |-> 0, tail |-> 0, count |-> 0]
    /\ next_txn = 0
    /\ mgr = Idle
    /\ running = TRUE /\ stop = "no" /\ sock = "open"
    /\ answers = <<>> /\ twice = {} /\ dropped = {}

-----------------------------------------------------------------------------
(* Replies are datagrams sent through the server's socket; none gets out *)
(* once it is shut down.                                                 *)

Sent(a, m) == IF sock = "open" THEN [a EXCEPT ![m] = @ + 1] ELSE a

\* The messages that wait in the channel of an entry
Queued(e) == {workers[e].jobs[i].msg : i \in DOMAIN workers[e].jobs}

\* Mutant: join throws the jobs away.
Drained_Silent(e) == answers

\* join, once the thread has ended, answers DEAD_TXN to what is left there.
Drained(e) ==
    [m \in DOMAIN answers |->
       IF sock = "open" /\ m \in Queued(e) THEN answers[m] + 1 ELSE answers[m]]

\* Mutant: the entry is not marked as deleted.
Joined_NotDeleted(e) == [workers[e] EXCEPT !.pc = "none", !.jobs = <<>>,
                                           !.running = FALSE]

\* Mutant: the channel is not emptied.
Joined_KeepsJobs(e) == [workers[e] EXCEPT !.pc = "none", !.running = FALSE,
                                          !.deleted = TRUE]

Joined(e) == [workers[e] EXCEPT !.pc = "none", !.jobs = <<>>,
                                !.running = FALSE, !.deleted = TRUE]

-----------------------------------------------------------------------------
(* WorkerTable *)

Busy(e) == workers[e].used /\ ~workers[e].deleted

Away(t, e) == (e - t) % MaxTxns

Closest(t, S) == CHOOSE e \in S : \A f \in S : Away(t, e) <= Away(t, f)

\* remove does not look at is_used_.
Matches(t) == {e \in Entries : workers[e].txn = t /\ ~workers[e].deleted}

\* search stops at the first entry never used.
NotFound == -1
search(t) ==
    LET stops == {e \in Entries : ~workers[e].used} \cup Matches(t)
    IN  IF stops = {} \/ ~workers[Closest(t, stops)].used
        THEN NotFound ELSE Closest(t, stops)

full == size >= MaxTxns

-----------------------------------------------------------------------------
(* ret_channel: send does not test whether there is room. *)

ret_send(t) == [rets  |-> [ret_ch.rets EXCEPT ![ret_ch.tail] = t],
                head  |-> ret_ch.head,
                tail  |-> (ret_ch.tail + 1) % MaxItems,
                count |-> ret_ch.count + 1]

\* Mutant: the head runs over the end of the ring.
ret_pop_NoWrap == [ret_ch EXCEPT !.head = @ + 1, !.count = @ - 1]

\* Mutant: the head is not advanced.
ret_pop_SameHead == [ret_ch EXCEPT !.count = @ - 1]

ret_pop == [ret_ch EXCEPT !.head = (@ + 1) % MaxItems, !.count = @ - 1]

-----------------------------------------------------------------------------
(* The manager *)

At(pc) == mgr.pc = pc

Goto(pc) == mgr' = [mgr EXCEPT !.pc = pc]

\* Back to the head of the loop; the locals are out of scope.
Again == mgr' = Idle

\* while (running_.test_and_set()), and a buffer for the next message.  With
\* a dry pool the manager sleeps and tests the flag again, for as long as the
\* pool is dry (JobFlow): it may stay here.
Loop ==
    /\ At("loop") /\ running
    /\ Goto("recv")
    /\ UNCHANGED <<workers, size, ret_ch, next_txn, running, stop, sock,
                   answers, twice, dropped>>

\* The flag was cleared; the test sets it again.
LoopEnd ==
    /\ At("loop") /\ ~running
    /\ Goto("close")
    /\ running' = TRUE
    /\ UNCHANGED <<workers, size, ret_ch, next_txn, stop, sock, answers,
                   twice, dropped>>

\* recvfrom: nothing came for three seconds, or the socket is shut down,
\* which a datagram of length zero cannot be told from.
RecvNothing ==
    /\ At("recv")
    /\ \/ sock = "open" /\ Goto("loop")
       \/ Goto("close")
    /\ UNCHANGED <<workers, size, ret_ch, next_txn, running, stop, sock,
                   answers, twice, dropped>>

\* A datagram that was queued before the shutdown is still returned.
Received == At("recv") /\ Len(answers) < MaxMsgs

RestLeft == Len(answers) - next_txn < MaxRest

\* A message that is refused on sight
RecvBad ==
    /\ Received /\ RestLeft
    /\ answers' = Sent(Append(answers, 0), Len(answers) + 1)
    /\ Again
    /\ UNCHANGED <<workers, size, ret_ch, next_txn, running, stop, sock,
                   twice, dropped>>

RecvStart ==
    /\ Received
    /\ next_txn <= MaxTxnId
    /\ answers' = Append(answers, 0)
    /\ mgr' = [mgr EXCEPT !.pc = "reap", !.msg = Len(answers) + 1]
    /\ UNCHANGED <<workers, size, ret_ch, next_txn, running, stop, sock,
                   twice, dropped>>

\* A message for a transaction: BAD_TXN when there is no such worker, BUSY
\* when its channel is full or counts below zero, otherwise it is sent on.
RecvJob(op, t) ==
    LET m == Len(answers) + 1
        e == search(t)
        room == /\ e # NotFound
                /\ Len(workers[e].jobs) < MaxItems
                /\ workers[e].pc # "astray"
    IN  /\ Received /\ RestLeft
        /\ \/ /\ ~room
              /\ answers' = Sent(Append(answers, 0), m)
              /\ Again
              /\ UNCHANGED workers
           \/ /\ room
              /\ workers' = [workers EXCEPT ![e].jobs =
                               Append(@, [op |-> op, txn |-> t, msg |-> m])]
              /\ answers' = Append(answers, 0)
              /\ mgr' = [mgr EXCEPT !.entry = IF op = "ABORT_TXN" THEN e ELSE 0,
                           !.pc = IF op = "ABORT_TXN" THEN "abort" ELSE "loop"]
        /\ UNCHANGED <<size, ret_ch, next_txn, running, stop, sock, twice,
                       dropped>>

\* ABORT_TXN also stops the worker, after its job has been sent.
Abort ==
    /\ At("abort")
    /\ workers' = [workers EXCEPT ![mgr.entry].running = FALSE]
    /\ Again
    /\ UNCHANGED <<size, ret_ch, next_txn, running, stop, sock, answers,
                   twice, dropped>>

\* START_TXN clears away the workers that have ended, ...
Reap ==
    /\ At("reap")
    /\ IF ret_ch.count = 0
       THEN Goto("insert")
       ELSE mgr' = [mgr EXCEPT !.pc = "remove",
                               !.dead = ret_ch.rets[ret_ch.head]]
    /\ UNCHANGED <<workers, size, ret_ch, next_txn, running, stop, sock,
                   answers, twice, dropped>>

\* remove stops the worker, which has sent its id and tests its flag no more,
\* and waits in join for the end of its thread.
Remove ==
    LET e == Closest(mgr.dead, Matches(mgr.dead))
    IN  /\ At("remove")
        /\ Matches(mgr.dead) # {}
        /\ workers[e].pc = "exited"
        /\ workers' = [workers EXCEPT ![e] = Joined(e)]
        /\ answers' = Drained(e)
        /\ size' = size - 1
        /\ ret_ch' = ret_pop
        /\ Goto("reap")
        /\ UNCHANGED <<next_txn, running, stop, sock, twice, dropped>>

\* ... takes an entry for the new one and starts its thread; the channel of
\* the entry is used as it is.
Insert ==
    LET free == {e \in Entries : ~Busy(e)}
        e == Closest(next_txn, free)
    IN  /\ At("insert")
        /\ \/ /\ full
              /\ answers' = Sent(answers, mgr.msg)
              /\ Again
              /\ UNCHANGED <<workers, size, twice, dropped>>
           \/ /\ ~full /\ free # {}
              /\ workers' = [workers EXCEPT
                               ![e].txn = next_txn, ![e].used = TRUE,
                               ![e].deleted = FALSE, ![e].running = TRUE,
                               ![e].pc = "loop"]
              /\ size' = size + 1
              /\ mgr' = [mgr EXCEPT !.pc = "first", !.entry = e]
              /\ UNCHANGED answers
        /\ UNCHANGED <<ret_ch, next_txn, running, stop, sock, twice,
                       dropped>>

\* The message itself is the first job; the result of send is not looked at.
FirstJob ==
    /\ At("first")
    /\ workers' = [workers EXCEPT ![mgr.entry].jobs =
                     IF Len(@) >= MaxItems THEN @
                     ELSE Append(@, [op |-> "START_TXN", txn |-> next_txn,
                                     msg |-> mgr.msg])]
    /\ Again
    /\ next_txn' = next_txn + 1
    /\ UNCHANGED <<size, ret_ch, running, stop, sock, answers, twice,
                   dropped>>

\* After the loop: the socket is closed, ...
Close ==
    /\ At("close")
    /\ sock' = "closed"
    /\ mgr' = [mgr EXCEPT !.pc = "halt", !.entry = 0]
    /\ UNCHANGED <<workers, size, ret_ch, next_txn, running, stop, answers,
                   twice, dropped>>

\* The next entry of a walk through the table, and where it leads after it
NextEntry(pc) ==
    mgr' = [mgr EXCEPT !.pc = IF mgr.entry < MaxTxns - 1 THEN @ ELSE pc,
                       !.entry = IF @ < MaxTxns - 1 THEN @ + 1 ELSE 0]

\* Mutant: the workers are joined without being stopped.
StopNext_NoStop ==
    /\ At("halt")
    /\ NextEntry("clear")
    /\ UNCHANGED <<workers, size, ret_ch, next_txn, running, stop, sock,
                   answers, twice, dropped>>

\* ... then every worker is stopped, one entry after the other, ...
StopNext ==
    /\ At("halt")
    /\ workers' = [workers EXCEPT ![mgr.entry].running = @ /\ ~Busy(mgr.entry)]
    /\ NextEntry("clear")
    /\ UNCHANGED <<size, ret_ch, next_txn, running, stop, sock, answers,
                   twice, dropped>>

\* ... then joined, in the order of the table.
ClearJoin(e) ==
    /\ At("clear")
    /\ Busy(e) /\ \A f \in Entries : Busy(f) => e <= f
    /\ workers[e].pc = "exited"
    /\ workers' = [workers EXCEPT ![e] = Joined(e)]
    /\ answers' = Drained(e)
    /\ size' = size - 1
    /\ UNCHANGED <<ret_ch, next_txn, mgr, running, stop, sock, twice,
                   dropped>>

Done ==
    /\ At("clear") /\ \A e \in Entries : ~Busy(e)
    /\ Goto("done")
    /\ UNCHANGED <<workers, size, ret_ch, next_txn, running, stop, sock,
                   answers, twice, dropped>>

-----------------------------------------------------------------------------
(* The main program calls stop, from another thread. *)

StopFlag ==
    /\ stop = "no"
    /\ stop' = "flag"
    /\ running' = FALSE
    /\ UNCHANGED <<workers, size, ret_ch, next_txn, mgr, sock, answers,
                   twice, dropped>>

StopSocket ==
    /\ stop = "flag"
    /\ stop' = "yes"
    /\ sock' = IF sock = "open" THEN "shut" ELSE sock
    /\ UNCHANGED <<workers, size, ret_ch, next_txn, mgr, running, answers,
                   twice, dropped>>

-----------------------------------------------------------------------------
(* The workers *)

Thread(e, pc) == workers[e].pc = pc

\* while (is_running())
WorkerLoop(e) ==
    /\ Thread(e, "loop")
    /\ workers' = [workers EXCEPT ![e].pc = IF workers[e].running THEN "recv"
                                            ELSE "quit"]
    /\ UNCHANGED <<size, ret_ch, next_txn, mgr, running, stop, sock, answers,
                   twice, dropped>>

\* recv of the job channel: the first job, or a timeout when there is none.
\* The job stays in the channel until it is answered.
WorkerRecv(e) ==
    /\ Thread(e, "recv")
    /\ workers' = [workers EXCEPT
                     ![e].pc = IF workers[e].jobs = <<>> THEN "loop"
                               ELSE "busy",
                     ![e].job = IF workers[e].jobs = <<>> THEN NoJob
                                ELSE Head(workers[e].jobs)]
    /\ UNCHANGED <<size, ret_ch, next_txn, mgr, running, stop, sock, answers,
                   twice, dropped>>

\* Mutant: the job is not popped.
WorkerAnswer_NoPop(e) ==
    LET j == workers[e].job
    IN  /\ Thread(e, "busy")
        /\ answers' = Sent(answers, j.msg)
        /\ workers' = [workers EXCEPT
                         ![e].job = NoJob,
                         ![e].pc = IF j.op \in {"COMMIT_TXN", "ABORT_TXN"}
                                   THEN "quit" ELSE "loop"]
        /\ UNCHANGED <<size, ret_ch, next_txn, mgr, running, stop, sock,
                       twice, dropped>>

\* The handler ends: reply and pop.  WorkerFull and WorkerReread are the
\* handlers that do more.
WorkerAnswer(e) ==
    LET j == workers[e].job
    IN  /\ Thread(e, "busy")
        /\ answers' = Sent(answers, j.msg)
        /\ workers' = [workers EXCEPT
                         ![e].jobs = Tail(@), ![e].job = NoJob,
                         ![e].pc = IF j.op \in {"COMMIT_TXN", "ABORT_TXN"}
                                   THEN "quit" ELSE "loop"]
        /\ UNCHANGED <<size, ret_ch, next_txn, mgr, running, stop, sock,
                       twice, dropped>>

\* An ADD_TUPLE or UPDATE that finds the commit queue full has replied
\* SUCCESS already, and replies COMMIT_FULL.
WorkerFull(e) ==
    LET m == workers[e].job.msg
    IN  /\ Thread(e, "busy") /\ workers[e].job.op = "JOB"
        /\ answers' = IF sock = "open" THEN [answers EXCEPT ![m] = @ + 2]
                      ELSE answers
        /\ twice' = twice \cup {m}
        /\ workers' = [workers EXCEPT ![e].jobs = Tail(@), ![e].job = NoJob,
                                      ![e].pc = "loop"]
        /\ UNCHANGED <<size, ret_ch, next_txn, mgr, running, stop, sock,
                       dropped>>

\* A SHARED_READ whose lock add_lock refuses to record (the row is held
\* already, or the list is full): BAD_ACCESS and a pop, but no return ...
WorkerReread(e) ==
    /\ Thread(e, "busy") /\ workers[e].job.op = "JOB"
    /\ answers' = Sent(answers, workers[e].job.msg)
    /\ workers' = [workers EXCEPT ![e].jobs = Tail(@), ![e].pc = "again"]
    /\ UNCHANGED <<size, ret_ch, next_txn, mgr, running, stop, sock, twice,
                   dropped>>

\* ... so SUCCESS and a second pop follow.  It takes off the next job, or
\* count_ below zero: then the channel hands out a job that has been popped,
\* whose copy is not defined, and this worker is followed no further.
WorkerRereadEnd(e) ==
    LET jobs == workers[e].jobs
        m == workers[e].job.msg
    IN  /\ Thread(e, "again")
        /\ answers' = Sent(answers, m)
        /\ twice' = twice \cup {m}
        /\ \/ /\ jobs = <<>>
              /\ workers' = [workers EXCEPT ![e].job = NoJob,
                                            ![e].pc = "astray"]
              /\ UNCHANGED dropped
           \/ /\ jobs # <<>>
              /\ workers' = [workers EXCEPT ![e].jobs = Tail(@),
                                            ![e].job = NoJob,
                                            ![e].pc = "loop"]
              /\ dropped' = dropped \cup {Head(jobs).msg}
        /\ UNCHANGED <<size, ret_ch, next_txn, mgr, running, stop, sock>>

\* A COMMIT_TXN may never end: an insert asleep in a full table, or rm_lock,
\* write or remove in a probe without end.  Under a write or remove the mutex
\* of the table is held: the workers that read, promote or quit stop as well.
WorkerStuck(e) ==
    /\ \/ Thread(e, "busy") /\ workers[e].job.op = "COMMIT_TXN"
       \/ /\ \/ Thread(e, "quit")
             \/ Thread(e, "busy") /\ workers[e].job.op = "JOB"
          /\ \E f \in Entries : Thread(f, "stuck")
    /\ workers' = [workers EXCEPT ![e].pc = "stuck"]
    /\ UNCHANGED <<size, ret_ch, next_txn, mgr, running, stop, sock, answers,
                   twice, dropped>>

\* Mutant: the worker does not report its end.
WorkerQuit_Silent(e) ==
    /\ Thread(e, "quit")
    /\ workers' = [workers EXCEPT ![e].pc = "exited"]
    /\ UNCHANGED <<size, ret_ch, next_txn, mgr, running, stop, sock, answers,
                   twice, dropped>>

\* The end of worker_quit, and of the thread.
WorkerQuit(e) ==
    /\ Thread(e, "quit")
    /\ ret_ch' = ret_send(workers[e].txn)
    /\ workers' = [workers EXCEPT ![e].pc = "exited"]
    /\ UNCHANGED <<size, next_txn, mgr, running, stop, sock, answers, twice,
                   dropped>>

-----------------------------------------------------------------------------
ManagerStep ==
    \/ LoopEnd \/ RecvNothing \/ Abort \/ Reap \/ Remove \/ Insert \/ FirstJob
    \/ Close \/ StopNext \/ Done
    \/ \E e \in Entries : ClearJoin(e)

WorkerStep(e) ==
    \/ WorkerLoop(e) \/ WorkerRecv(e) \/ WorkerAnswer(e) \/ WorkerFull(e)
    \/ WorkerReread(e) \/ WorkerRereadEnd(e) \/ WorkerQuit(e)

Next ==
    \/ ManagerStep
    \/ Loop \/ RecvBad \/ RecvStart
    \/ \E op \in JobOps, t \in TxnIds : RecvJob(op, t)
    \/ StopFlag \/ StopSocket
    \/ \E e \in Entries : WorkerStep(e) \/ WorkerStuck(e)

Spec == Init /\ [][Next]_vars

\* Threads are scheduled; clients need not send, main need not stop, the pool
\* need not have a buffer, and a worker may get stuck.
FairSpec ==
    Spec /\ WF_vars(ManagerStep) /\ \A e \in Entries : WF_vars(WorkerStep(e))

-----------------------------------------------------------------------------
(* Properties *)

Job == [op : JobOps \cup {"START_TXN", "none"}, txn : TxnIds, msg : Nat]

Context == [txn : TxnIds, used : BOOLEAN, deleted : BOOLEAN, jobs : Seq(Job),
            running : BOOLEAN, job : Job,
            pc : {"none", "loop", "recv", "busy", "again", "quit", "exited",
                  "astray", "stuck"}]

ManagerState == [pc : {"loop", "recv", "abort", "reap", "remove", "insert",
                       "first", "close", "halt", "clear", "done"},
                 msg : Nat, dead : TxnIds, entry : Entries]

Ring == [rets : [0 .. MaxItems - 1 -> TxnIds], count : Nat,
         head : 0 .. MaxItems - 1, tail : 0 .. MaxItems - 1]

TypeOK ==
    /\ workers \in [Entries -> Context]
    /\ \A e \in Entries : Len(workers[e].jobs) <= MaxItems
    /\ size \in 0 .. MaxTxns
    /\ ret_ch \in Ring
    /\ next_txn \in 0 .. MaxTxnId + 1
    /\ mgr \in ManagerState
    /\ sock \in {"open", "shut", "closed"}
    /\ answers \in Seq(Nat) /\ twice \subseteq Nat /\ dropped \subseteq Nat

\* The entries hold the transactions there are: search finds each of them
\* and size_ counts them, and an entry is given away again only when the
\* thread of its last owner is joined.
EntriesExact ==
    /\ size = Cardinality({e \in Entries : Busy(e)})
    /\ \A e \in Entries : Busy(e) => search(workers[e].txn) = e
    /\ \A e \in Entries : Busy(e) <=> workers[e].pc # "none"

\* A job waits only in the channel of the transaction it names or starts:
\* what is left in an entry never reaches its next owner.
JobsOfOwnTxn ==
    \A e \in Entries : \A i \in DOMAIN workers[e].jobs :
        Busy(e) /\ workers[e].jobs[i].txn = workers[e].txn

Unreaped == {e \in Entries : workers[e].pc = "exited"}

InRing == {(ret_ch.head + i) % MaxItems : i \in 0 .. ret_ch.count - 1}

\* Outside the shutdown, the return channel holds the id of every worker that
\* has ended and is not joined, each once.  So START_TXN clears them all.
ReturnsExact ==
    mgr.pc \notin {"clear", "done"} =>
        /\ ret_ch.count = Cardinality(Unreaped)
        /\ {ret_ch.rets[i] : i \in InRing} = {workers[e].txn : e \in Unreaped}

\* The id taken from the return channel is that of a worker in the table:
\* the probe of remove, which has no end condition, ends, at an entry whose
\* thread can be joined.
RemoveFindsWorker ==
    At("remove") =>
        /\ Matches(mgr.dead) # {}
        /\ workers[Closest(mgr.dead, Matches(mgr.dead))].pc # "none"

\* No channel counts below zero.
Defined == \A e \in Entries : workers[e].pc # "astray"

\* A message is answered once, by the manager, its worker or join; a second
\* answer comes only from the handler that gave the first.
AnsweredOnce ==
    Defined => \A m \in DOMAIN answers :
                   answers[m] <= IF m \in twice THEN 2 ELSE 1

\* The manager has a START_TXN in hand.
Starting == mgr.pc \in {"reap", "remove", "insert", "first"}

Waiting(m) ==
    \/ \E e \in Entries : m \in Queued(e)
    \/ Starting /\ mgr.msg = m

\* While the socket is open, no message is forgotten: it is answered, or it
\* waits in a channel or in the hands of the manager.  The exception is the
\* message behind a re-read, which the second pop takes off unread.
NoneForgotten ==
    Defined /\ sock = "open" =>
        \A m \in DOMAIN answers : answers[m] > 0 \/ Waiting(m) \/ m \in dropped

\* A call of stop ends the server, with every worker joined, unless one is
\* stuck in the table or has lost its channel.
StopEnds ==
    stop = "yes" ~>
        At("done") \/ \E e \in Entries : workers[e].pc \in {"stuck", "astray"}

-----------------------------------------------------------------------------
(* The strengthening that is inductive, whatever the size of the return      *)
(* channel                                                                   *)

\* size_ counts the entries in use, and these are the ones with a thread.
EntriesCounted ==
    /\ size = Cardinality({e \in Entries : Busy(e)})
    /\ \A e \in Entries : Busy(e) <=> workers[e].pc # "none"

\* Ids are given away in order; only the id of the transaction that is being
\* started may be next_txn_id itself.
TxnsIssued ==
    \A e \in Entries : Busy(e) =>
        \/ workers[e].txn < next_txn
        \/ At("first") /\ e = mgr.entry /\ workers[e].txn = next_txn

\* No id is in the table twice.
UniqueTxns ==
    \A e, f \in Entries :
        Busy(e) /\ Busy(f) /\ workers[e].txn = workers[f].txn => e = f

\* The entries between the place an id hashes to and its own are used.
ProbePath ==
    \A e, f \in Entries :
        Busy(e) /\ Away(workers[e].txn, f) < Away(workers[e].txn, e)
            => workers[f].used

\* What the manager knows where it is
ManagerKnows ==
    /\ Starting => next_txn <= MaxTxnId /\ mgr.msg \in DOMAIN answers
    /\ At("first") => /\ Busy(mgr.entry)
                      /\ workers[mgr.entry].txn = next_txn
                      /\ workers[mgr.entry].jobs = <<>>
    /\ At("remove") => ret_ch.count > 0

\* The job a worker handles is the first of its channel.
JobInChannel ==
    \A e \in Entries : workers[e].pc = "busy" =>
        workers[e].jobs # <<>> /\ workers[e].job = Head(workers[e].jobs)

\* A message waits in one place only, and is not yet answered.
WaitsOnce ==
    /\ \A e, f \in Entries :
         \A i \in DOMAIN workers[e].jobs, j \in DOMAIN workers[f].jobs :
           workers[e].jobs[i].msg = workers[f].jobs[j].msg => e = f /\ i = j
    /\ \A e \in Entries : \A i \in DOMAIN workers[e].jobs :
         /\ workers[e].jobs[i].msg \in DOMAIN answers
         /\ Starting => workers[e].jobs[i].msg # mgr.msg
    /\ \A m \in DOMAIN answers : Waiting(m) => answers[m] = 0

\* The message a worker is about to answer a second time waits nowhere, has
\* one answer at most, and is in the hands of no other worker.
AgainOnce ==
    /\ \A e \in Entries : workers[e].pc = "again" =>
         /\ workers[e].job.msg \in DOMAIN answers
         /\ ~Waiting(workers[e].job.msg)
         /\ answers[workers[e].job.msg] <= 1
    /\ \A e, f \in Entries :
         /\ workers[e].pc = "again" /\ workers[f].pc = "again"
         /\ workers[e].job.msg = workers[f].job.msg
         => e = f

\* AnsweredOnce and NoneForgotten, without the premise
AtMostTwice ==
    \A m \in DOMAIN answers : answers[m] <= IF m \in twice THEN 2 ELSE 1

AnsweredOrWaits ==
    sock = "open" =>
        \A m \in DOMAIN answers : answers[m] > 0 \/ Waiting(m) \/ m \in dropped

IInv ==
    /\ TypeOK
    /\ EntriesCounted /\ TxnsIssued /\ UniqueTxns /\ ProbePath
    /\ ManagerKnows /\ JobInChannel /\ JobsOfOwnTxn
    /\ WaitsOnce /\ AgainOnce /\ AtMostTwice /\ AnsweredOrWaits

-----------------------------------------------------------------------------
(* The part about the return channel is inductive while it does not overflow *)

\* Before the shutdown, no more workers have ended and wait to be joined than
\* the return channel has places.
NoOverrun ==
    mgr.pc \notin {"clear", "done"} => Cardinality(Unreaped) <= MaxItems

\* The ids in the ring, oldest first
Ret(i) == ret_ch.rets[(ret_ch.head + i) % MaxItems]

\* The ring lies between head_ and tail_.  Outside the shutdown it holds the
\* ids of the workers that ended, each once, and the manager has the oldest.
RingExact ==
    /\ ret_ch.tail = (ret_ch.head + ret_ch.count) % MaxItems
    /\ mgr.pc \notin {"clear", "done"} =>
         /\ ret_ch.count = Cardinality(Unreaped)
         /\ \A i, j \in 0 .. ret_ch.count - 1 : Ret(i) = Ret(j) => i = j
         /\ \A i \in 0 .. ret_ch.count - 1 :
              \E e \in Unreaped : workers[e].txn = Ret(i)
         /\ \A e \in Unreaped :
              \E i \in 0 .. ret_ch.count - 1 : workers[e].txn = Ret(i)
    /\ At("remove") => mgr.dead = Ret(0)
=============================================================================
