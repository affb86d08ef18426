------------------------------ MODULE JobFlow ------------------------------
(***************************************************************************)
(* The way of a message through the server: the manager receives it into a *)
(* buffer of the pool (thread_manager.cpp), hands it as a job to the       *)
(* channel of a worker (job_channel.cpp), the worker answers it out of the *)
(* same buffer (worker.cpp), and an accepted change keeps the buffer in    *)
(* the worker's commit queue (commit_queue.cpp) until the worker ends.     *)
(*                                                                         *)
(* Here are the rings with their indices, the owners of every buffer, and  *)
(* the bytes in it.  Tables and row locks are in Worker, transaction ids   *)
(* and the shutdown in Server: what they decide is a free choice here.     *)
(*                                                                         *)
(* A buffer is free when nobody refers to it: that its reference count     *)
(* says so is proved of BufTable.  The manager is the only one to ask for  *)
(* buffers, so its references may go at the same step as its last use.     *)
(***************************************************************************)
EXTENDS JobBuf, FiniteSets, Sequences

CONSTANTS Bufs,        \* the buffers of the pool (BUFFER_ROWS, 64)
          NoBuf,       \* no buffer: a null buf_ref
          Entries,     \* the entries of the worker table (MAX_TRANSACTIONS, 64)
          MaxItems,    \* MAX_ITEM_PER_CHANNEL (16 in the code)
          MaxCommits,  \* MAX_COMMIT_PER_TRANSACTION (16 in the code)
          Datagrams,   \* what clients send: op and size
          MaxMsgs      \* bound: messages received and not refused

ASSUME JobFlowAssumption ==
    /\ NoBuf \notin Bufs
    /\ MaxItems \in Nat \ {0} /\ MaxCommits \in Nat \ {0} /\ MaxMsgs \in Nat
    /\ Datagrams \subseteq [op : OpTypes \cup {"BAD"}, size : Nat \ {0}]

VARIABLES bytes,    \* what is in each buffer
          msgs,     \* the number of messages received and not refused
          mgr,      \* where the manager is, and the message it holds
          chan,     \* the job_channel of each entry
          work,     \* the Worker of each entry
          garbled   \* history: the acks of replies that cannot be read

vars == <<bytes, msgs, mgr, chan, work, garbled>>

\* A job: a reference to a buffer, and the message received in it
NullJob == [buf |-> NoBuf, msg |-> 0, op |-> "none", size |-> 0]

\* A change: a reference to a buffer, and the message that asked for it
NullCommit == [buf |-> NoBuf, msg |-> 0, op |-> "none"]

NewChannel == [jobs |-> [i \in 0 .. MaxItems - 1 |-> NullJob],
               head |-> 0, tail |-> 0, count |-> 0]

NewQueue == [commits |-> [i \in 0 .. MaxCommits - 1 |-> NullCommit],
             head |-> 0, tail |-> 0, size |-> 0]

\* pc is "none" while there is no thread, "dead" until it is joined.
NoWorker == [pc       |-> "none",
             running  |-> FALSE,      \* WorkerContext::running_
             stuck    |-> FALSE,      \* it waits in the table for ever
             status   |-> "GROWING",  \* status_
             job      |-> NullJob,    \* the local copy of the job
             queue    |-> NewQueue,   \* commit_queue_
             accepted |-> <<>>,       \* history: changes answered and queued
             made     |-> <<>>]       \* history: changes made

NewWorker == [NoWorker EXCEPT !.pc = "loop", !.running = TRUE]

AtRequest == [pc |-> "request", job |-> NullJob]

Init ==
    /\ bytes = [b \in Bufs |-> FreshBuffer]
    /\ msgs = 0
    /\ mgr = AtRequest
    /\ chan = [w \in Entries |-> NewChannel]
    /\ work = [w \in Entries |-> NoWorker]
    /\ garbled = {}

-----------------------------------------------------------------------------
(* job_channel *)

channel_full(c) == c.count >= MaxItems

\* Mutant: the tail runs over the end.
channel_send_NoWrap(c, j) == [c EXCEPT !.jobs[c.tail] = j, !.tail = @ + 1,
                                       !.count = @ + 1]

channel_send(c, j) == [c EXCEPT !.jobs[c.tail] = j,
                                !.tail = (@ + 1) % MaxItems,
                                !.count = @ + 1]

channel_get(c) == c.jobs[c.head]

\* Mutant: the job is not destroyed.
channel_pop_KeepsJob(c) == [c EXCEPT !.head = (@ + 1) % MaxItems,
                                     !.count = @ - 1]

\* Mutant: the newest job is taken off.
channel_pop_Newest(c) ==
    LET last == (c.tail + MaxItems - 1) % MaxItems
    IN  [c EXCEPT !.jobs[last] = NullJob, !.tail = last, !.count = @ - 1]

\* The job is destroyed in its place: its reference is released and null.
channel_pop(c) == [c EXCEPT !.jobs[c.head] = NullJob,
                            !.head = (@ + 1) % MaxItems,
                            !.count = @ - 1]

-----------------------------------------------------------------------------
(* commit_queue, which writes at head_ and reads at tail_ *)

queue_full(q) == q.size >= MaxCommits

queue_send(q, c) == [q EXCEPT !.commits[q.head] = c,
                              !.head = (@ + 1) % MaxCommits,
                              !.size = @ + 1]

\* Mutant: the newest change is taken.
queue_get_Newest(q) == q.commits[(q.head + MaxCommits - 1) % MaxCommits]

queue_get(q) == q.commits[q.tail]

\* Mutant: the wrong end moves.
queue_pop_Head(q) == [q EXCEPT !.head = (@ + MaxCommits - 1) % MaxCommits,
                               !.size = @ - 1]

\* The entry stays in its place, with its reference.
queue_pop(q) == [q EXCEPT !.tail = (@ + 1) % MaxCommits, !.size = @ - 1]

-----------------------------------------------------------------------------
(* References *)

RefsOfChannel(w) == {chan[w].jobs[i].buf : i \in DOMAIN chan[w].jobs}

\* Mutant: a change does not retain its buffer.
RefsOfQueue_None(w) == {NoBuf}

RefsOfQueue(w) ==
    {work[w].queue.commits[i].buf : i \in DOMAIN work[w].queue.commits}

Refs == {mgr.job.buf} \cup {work[w].job.buf : w \in Entries}
        \cup UNION {RefsOfChannel(w) \cup RefsOfQueue(w) : w \in Entries}

Free == Bufs \ Refs

\* What is in a free buffer is nobody's, and to its next user Fresh.
Forgotten(S) == [b \in Bufs |-> IF b \in S THEN FreshBuffer ELSE bytes[b]]

-----------------------------------------------------------------------------
(* Replies *)

\* A client that sent a header with its ack byte, or more, can tell from the
\* reply which request is answered, and how.
Understood(r) == r.asked >= AckSize => Readable(r)

Sends(R) == garbled' = garbled \cup {r.ack : r \in {q \in R : ~Understood(q)}}

-----------------------------------------------------------------------------
(* The manager *)

\* Without a free buffer it sleeps and tries again: nothing happens.  Free
\* buffers are all alike, so it does not matter which one is found.
Request ==
    /\ mgr.pc = "request" /\ Free # {}
    /\ mgr' = [pc |-> "recv",
               job |-> [NullJob EXCEPT !.buf = CHOOSE b \in Free : TRUE]]
    /\ UNCHANGED <<bytes, msgs, chan, work, garbled>>

\* recvfrom fails or its time is over.
RecvNothing ==
    /\ mgr.pc = "recv"
    /\ mgr' = AtRequest
    /\ UNCHANGED <<bytes, msgs, chan, work, garbled>>

\* The next message and the buffer it is received in
Message(d) == [buf |-> mgr.job.buf, msg |-> msgs + 1, op |-> d.op,
               size |-> d.size]

Filled(d) == received(bytes[mgr.job.buf], msgs + 1, d.size)

Receive(d) ==
    /\ mgr.pc = "recv"
    /\ msgs < MaxMsgs
    /\ msgs' = msgs + 1
    /\ bytes' = [bytes EXCEPT ![mgr.job.buf] = Filled(d)]

\* The reply of the manager has the size of the message; the buffer is free
\* again, and so is the number.
Refused(d, ack) ==
    /\ mgr.pc = "recv"
    /\ Sends({Reply(Filled(d), msgs + 1, d.size, ack, d.size)})
    /\ mgr' = AtRequest
    /\ UNCHANGED <<bytes, msgs, chan, work>>

Parses(d) == get_op(d) /\ get_op_id(d)

RecvBadOp(d) == ~Parses(d) /\ Refused(d, "BAD_OP")

\* There is no transaction id, or no worker for it.
RecvBadTxn(d) ==
    /\ Parses(d) /\ d.op # "START_TXN"
    /\ Refused(d, "BAD_TXN")

RecvBusy(d, w) ==
    /\ Parses(d) /\ d.op # "START_TXN" /\ get_txn(d)
    /\ work[w].pc # "none"
    /\ channel_full(chan[w])
    /\ Refused(d, "BUSY")

\* An ABORT also clears the running flag.
RecvJob(d, w) ==
    /\ Parses(d) /\ d.op # "START_TXN" /\ get_txn(d)
    /\ work[w].pc # "none"
    /\ ~channel_full(chan[w])
    /\ Receive(d)
    /\ chan' = [chan EXCEPT ![w] = channel_send(@, Message(d))]
    /\ work' = [work EXCEPT ![w].running = @ /\ d.op # "ABORT_TXN"]
    /\ mgr' = AtRequest
    /\ UNCHANGED garbled

RecvStart(d) ==
    /\ Parses(d) /\ d.op = "START_TXN"
    /\ Receive(d)
    /\ mgr' = [pc |-> "reap", job |-> Message(d)]
    /\ UNCHANGED <<chan, work, garbled>>

\* join: the jobs left by a dead worker are answered one after the other.
Drain(w) ==
    LET j == channel_get(chan[w])
    IN  /\ mgr.pc = "reap"
        /\ work[w].pc = "dead" /\ chan[w].count > 0
        /\ Sends({Reply(bytes[j.buf], j.msg, j.size, "DEAD_TXN", AckSize)})
        /\ bytes' = Forgotten({j.buf})
        /\ chan' = [chan EXCEPT ![w] = channel_pop(@)]
        /\ UNCHANGED <<msgs, mgr, work>>

Join(w) ==
    /\ mgr.pc = "reap"
    /\ work[w].pc = "dead" /\ chan[w].count = 0
    /\ work' = [work EXCEPT ![w] = NoWorker]
    /\ UNCHANGED <<bytes, msgs, mgr, chan, garbled>>

NoneDead == \A w \in Entries : work[w].pc # "dead"

\* The entry keeps its channel: the ring goes on where it stopped.
Insert(w) ==
    /\ mgr.pc = "reap" /\ NoneDead
    /\ work[w].pc = "none"
    /\ work' = [work EXCEPT ![w] = NewWorker]
    /\ chan' = [chan EXCEPT ![w] = channel_send(@, mgr.job)]
    /\ mgr' = AtRequest
    /\ UNCHANGED <<bytes, msgs, garbled>>

InsertFull ==
    LET j == mgr.job
    IN  /\ mgr.pc = "reap" /\ NoneDead
        /\ \A w \in Entries : work[w].pc # "none"
        /\ Sends({Reply(bytes[j.buf], j.msg, j.size, "BUSY", j.size)})
        /\ bytes' = Forgotten({j.buf})
        /\ mgr' = AtRequest
        /\ UNCHANGED <<msgs, chan, work>>

-----------------------------------------------------------------------------
(* The loop of a worker *)

At(w, pc) == work[w].pc = pc

\* Mutant: a worker that is stopped does not go on to worker_quit.
Loop_NoQuit(w) ==
    /\ At(w, "loop") /\ work[w].running
    /\ work' = [work EXCEPT ![w].pc = "recv", ![w].job = NullJob]
    /\ bytes' = Forgotten({work[w].job.buf} \ RefsOfQueue(w))
    /\ UNCHANGED <<msgs, mgr, chan, garbled>>

\* The job of the last round is out of scope.
Loop(w) ==
    /\ At(w, "loop")
    /\ work' = [work EXCEPT ![w].pc = IF work[w].running THEN "recv"
                                      ELSE "quit",
                            ![w].job = NullJob]
    /\ bytes' = Forgotten({work[w].job.buf} \ RefsOfQueue(w))
    /\ UNCHANGED <<msgs, mgr, chan, garbled>>

RecvTimeout(w) ==
    /\ At(w, "recv") /\ chan[w].count = 0
    /\ work' = [work EXCEPT ![w].pc = "loop"]
    /\ UNCHANGED <<bytes, msgs, mgr, chan, garbled>>

\* A copy of the job is taken, the job itself stays in the channel.
Take(w) ==
    /\ At(w, "recv") /\ chan[w].count > 0
    /\ work' = [work EXCEPT ![w].pc = "busy",
                            ![w].job = channel_get(chan[w])]
    /\ UNCHANGED <<bytes, msgs, mgr, chan, garbled>>

-----------------------------------------------------------------------------
(* The handlers: each replies out of the buffer of the job and pops it. *)

Handles(w, ops) == At(w, "busy") /\ work[w].job.op \in ops

Content(w) == bytes[work[w].job.buf]

\* The reply to the job of w from a buffer with this content
Answer(w, content, ack, size) ==
    LET j == work[w].job
    IN  Reply(content, j.msg, j.size, ack, size)

\* The end of a handler: what is left in the buffer, what was sent, and the
\* worker's state.
Done(w, content, sent, t) ==
    /\ bytes' = [bytes EXCEPT ![work[w].job.buf] = content]
    /\ Sends(sent)
    /\ chan' = [chan EXCEPT ![w] = channel_pop(@)]
    /\ work' = [work EXCEPT ![w] = t]
    /\ UNCHANGED <<msgs, mgr>>

\* A handler that changes nothing in the buffer but the ack
DoneWith(w, ack, size, t) ==
    Done(w, set_ack(Content(w), work[w].job.msg),
         {Answer(w, Content(w), ack, size)}, t)

ToLoop(w) == [work[w] EXCEPT !.pc = "loop"]

Shrunk(w) == [ToLoop(w) EXCEPT !.status = IF @ = "GROWING" THEN "SHRINKING"
                                          ELSE @]

\* Does the message hold all that the change needs?
Whole(j) == j.op = "DELETE" \/ parse_field("TUPLE", j.size)

\* The worker with one more change in its queue
Queued(w, b) ==
    LET j == work[w].job
    IN  [Shrunk(w) EXCEPT
           !.queue = queue_send(@, [buf |-> b, msg |-> j.msg, op |-> j.op]),
           !.accepted = Append(@, [msg |-> j.msg, whole |-> Whole(j)])]

Full(w) == queue_full(work[w].queue)

process_start(w) ==
    LET c == set_txn(Content(w), work[w].job.msg)
    IN  /\ Handles(w, {"START_TXN"})
        /\ Done(w, set_ack(c, work[w].job.msg),
                {Answer(w, c, "SUCCESS", AckSize)}, ToLoop(w))

\* What the handlers refuse, all with a reply that ends with the ack.  Which
\* table or row a message names and who holds it is open here.
RefusesRow(w) ==
    LET j == work[w].job
    IN  IF ~get_tbl(j) THEN {"BAD_TABLE"}
        ELSE IF ~get_key(j) THEN {"BAD_TP"}
        ELSE {"BAD_ACCESS"}

\* Ways to give up waiting for a row
GivesUp(w) == {"TIMEOUT"} \cup {a \in {"ABORTED"} : ~work[w].running}

Growing(w) == work[w].status = "GROWING"

BadPhase(w) == ~Growing(w) /\ DoneWith(w, "BAD_PHASE", AckSize, ToLoop(w))

\* Refusals of a row the worker cannot record in its lock list.  A shared
\* read is not refused but answered and popped twice: that is in Worker, and
\* here no transaction share-reads a row it holds already.
Unrecorded(w) == {a \in {"BAD_ACCESS"} : work[w].job.op = "EXCLUSIVE_READ"}

\* The two reads: refused, given up, or answered with a row of the table.
process_read(w) ==
    LET c == serialized(Content(w), work[w].job.msg)
    IN  /\ Handles(w, {"SHARED_READ", "EXCLUSIVE_READ"})
        /\ \/ BadPhase(w)
           \/ /\ Growing(w)
              /\ DoneWith(w, "BAD_TABLE", AckSize, ToLoop(w))
           \/ /\ Growing(w) /\ get_tbl(work[w].job)
              /\ \/ \E ack \in GivesUp(w) \cup Unrecorded(w) :
                      DoneWith(w, ack, AckSize,
                               [ToLoop(w) EXCEPT !.status =
                                  IF ack = "ABORTED" THEN "ABORTED" ELSE @])
                 \/ Done(w, set_ack(c, work[w].job.msg),
                         {Answer(w, c, "SUCCESS", RowSize)}, ToLoop(w))

\* YIELD_READ and PROMOTE
process_held(w) ==
    /\ Handles(w, {"YIELD_READ", "PROMOTE"})
    /\ \/ BadPhase(w)
       \/ /\ Growing(w)
          /\ \E ack \in RefusesRow(w) : DoneWith(w, ack, AckSize, ToLoop(w))
       \/ /\ Growing(w) /\ get_key(work[w].job)
          /\ DoneWith(w, "SUCCESS", work[w].job.size, ToLoop(w))
       \/ /\ Growing(w) /\ get_key(work[w].job)
          /\ work[w].job.op = "PROMOTE"
          /\ \E ack \in GivesUp(w) :
               DoneWith(w, ack, AckSize,
                        [ToLoop(w) EXCEPT !.status =
                           IF ack = "TIMEOUT" THEN "ABORTED" ELSE @])

\* Mutant: the buffer is reused before the reply.
Keep_ReplyLast(w, size) ==
    LET m == work[w].job.msg
        image == set_image(Content(w))
    IN  IF Full(w)
        THEN Done(w, set_ack(image, m),
                  {Answer(w, image, "COMMIT_FULL", AckSize)}, Shrunk(w))
        ELSE Done(w, set_ack(image, m),
                  {Answer(w, image, "SUCCESS", size)},
                  Queued(w, work[w].job.buf))

\* The end of ADD and UPDATE: the reply, the tuple over the start of the
\* buffer, the queue; when that is full, a second reply from what is there.
Keep(w, size) ==
    LET m == work[w].job.msg
        ok == Answer(w, Content(w), "SUCCESS", size)
        image == set_image(set_ack(Content(w), m))
    IN  IF Full(w)
        THEN Done(w, set_ack(image, m),
                  {ok, Answer(w, image, "COMMIT_FULL", AckSize)}, Shrunk(w))
        ELSE Done(w, image, {ok}, Queued(w, work[w].job.buf))

RefusedChange(w, acks) ==
    \E ack \in acks : DoneWith(w, ack, AckSize, Shrunk(w))

process_add(w) ==
    /\ Handles(w, {"ADD_TUPLE"})
    /\ \/ RefusedChange(w, {"BAD_TABLE"})
       \/ get_tbl(work[w].job) /\ Keep(w, work[w].job.size)

process_update(w) ==
    /\ Handles(w, {"UPDATE"})
    /\ \/ RefusedChange(w, RefusesRow(w))
       \/ get_key(work[w].job) /\ Keep(w, AckSize)

\* DELETE queues no buffer, and replies last.
process_rm(w) ==
    /\ Handles(w, {"DELETE"})
    /\ \/ RefusedChange(w, RefusesRow(w))
       \/ /\ get_key(work[w].job)
          /\ IF Full(w)
             THEN DoneWith(w, "COMMIT_FULL", AckSize, Shrunk(w))
             ELSE DoneWith(w, "SUCCESS", work[w].job.size, Queued(w, NoBuf))

ToQuit(w) == [work[w] EXCEPT !.pc = "quit"]

process_abort(w) ==
    Handles(w, {"ABORT_TXN"}) /\ DoneWith(w, "SUCCESS", AckSize, ToQuit(w))

\* COMMIT of a transaction that has changed nothing
process_commit(w) ==
    /\ Handles(w, {"COMMIT_TXN"})
    /\ work[w].status # "SHRINKING"
    /\ DoneWith(w, "SUCCESS", AckSize, ToQuit(w))

Commits(w) ==
    Handles(w, {"COMMIT_TXN"}) /\ work[w].status = "SHRINKING"

\* One round of the commit loop: the change is made with what its buffer
\* holds now.
CommitNext(w) ==
    LET q == work[w].queue
        c == queue_get(q)
    IN  /\ Commits(w) /\ q.size > 0
        /\ work' = [work EXCEPT
             ![w].queue = queue_pop(q),
             ![w].made = Append(@, [msg |-> c.msg,
                                    data |-> IF c.op = "DELETE" THEN c.msg
                                             ELSE bytes[c.buf].IMAGE])]
        /\ UNCHANGED <<bytes, msgs, mgr, chan, garbled>>

CommitDone(w) ==
    /\ Commits(w) /\ work[w].queue.size = 0
    /\ DoneWith(w, "SUCCESS", work[w].job.size, ToQuit(w))

\* A commit may never end: an insert sleeps in a full table, rm_lock, write or
\* remove probe without end.  In write and remove it keeps the mutex of the
\* table, and those who need it stop as well.
MayHang == {w \in Entries : Commits(w) /\ work[w].queue.size > 0}

UseTable ==
    {w \in Entries : At(w, "quit") \/ Handles(w, {"SHARED_READ", "EXCLUSIVE_READ",
                                                 "YIELD_READ", "PROMOTE"})}

Hang(w) ==
    /\ ~work[w].stuck
    /\ w \in MayHang \cup {v \in UseTable : \E h \in Entries : work[h].stuck}
    /\ work' = [work EXCEPT ![w].stuck = TRUE]
    /\ UNCHANGED <<bytes, msgs, mgr, chan, garbled>>

\* worker_quit, and the end of the thread: its job, its queue and whatever
\* reference was left there are destroyed.
Quit(w) ==
    /\ At(w, "quit")
    /\ work' = [work EXCEPT ![w] = [NoWorker EXCEPT !.pc = "dead"]]
    /\ bytes' = Forgotten({work[w].job.buf} \cup RefsOfQueue(w))
    /\ UNCHANGED <<msgs, mgr, chan, garbled>>

-----------------------------------------------------------------------------
Receives == \E d \in Datagrams :
    \/ RecvBadOp(d) \/ RecvBadTxn(d) \/ RecvStart(d)
    \/ \E w \in Entries : RecvBusy(d, w) \/ RecvJob(d, w)

Reaps == InsertFull \/ \E w \in Entries : Drain(w) \/ Join(w) \/ Insert(w)

Manager == Request \/ RecvNothing \/ Receives \/ Reaps

Steps(w) ==
    \/ Loop(w) \/ RecvTimeout(w) \/ Take(w)
    \/ process_start(w) \/ process_read(w) \/ process_held(w)
    \/ process_add(w) \/ process_update(w) \/ process_rm(w) \/ process_abort(w)
    \/ process_commit(w) \/ CommitNext(w) \/ CommitDone(w) \/ Quit(w)

Work(w) == ~work[w].stuck /\ Steps(w)

Next == Manager \/ \E w \in Entries : Work(w) \/ Hang(w)

Spec == Init /\ [][Next]_vars

\* Threads are scheduled; clients need not send, and a worker may hang.
FairSpec == /\ Spec
            /\ WF_vars(Reaps)
            /\ \A w \in Entries : WF_vars(Work(w))

-----------------------------------------------------------------------------
(* Properties *)

Pcs == {"none", "loop", "recv", "busy", "quit", "dead"}

JobType == [buf : Bufs \cup {NoBuf}, msg : 0 .. MaxMsgs,
            op : OpTypes \cup {"none", "BAD"}, size : Nat]

CommitType == [buf : Bufs \cup {NoBuf}, msg : 0 .. MaxMsgs,
               op : OpTypes \cup {"none", "BAD"}]

ChannelType == [jobs : [0 .. MaxItems - 1 -> JobType], count : 0 .. MaxItems,
                head : 0 .. MaxItems - 1, tail : 0 .. MaxItems - 1]

QueueType == [commits : [0 .. MaxCommits - 1 -> CommitType],
              size : 0 .. MaxCommits,
              head : 0 .. MaxCommits - 1, tail : 0 .. MaxCommits - 1]

AcceptedType == [msg : 0 .. MaxMsgs, whole : BOOLEAN]

MadeType == [msg : 0 .. MaxMsgs, data : Mixed .. MaxMsgs]

StoreType == [Bufs -> [Parts -> Mixed .. MaxMsgs]]

WorkerType == [pc : Pcs, running : BOOLEAN, stuck : BOOLEAN,
               job : JobType, queue : QueueType, status : {"GROWING", "SHRINKING", "ABORTED"},
               accepted : Seq(AcceptedType), made : Seq(MadeType)]

ManagerType == [pc : {"request", "recv", "reap"}, job : JobType]

TypeOK ==
    /\ bytes \in StoreType
    /\ msgs \in 0 .. MaxMsgs
    /\ mgr \in ManagerType
    /\ chan \in [Entries -> ChannelType]
    /\ work \in [Entries -> WorkerType]

\* The i-th place of a ring, from the oldest in use on
JobAt(c, i) == c.jobs[(c.head + i - 1) % MaxItems]

ChangeAt(q, i) == q.commits[(q.tail + i - 1) % MaxCommits]

QueuedJobs(w) == [i \in 1 .. chan[w].count |-> JobAt(chan[w], i)]

QueuedChanges(w) ==
    [i \in 1 .. work[w].queue.size |-> ChangeAt(work[w].queue, i)]

MsgsOf(q) == [i \in DOMAIN q |-> q[i].msg]

JobQueues == INSTANCE BoundedFifo WITH
    Queues <- Entries, Items <- 1 .. MaxMsgs, Capacity <- MaxItems,
    queue <- [w \in Entries |-> MsgsOf(QueuedJobs(w))]

ChangeQueues == INSTANCE BoundedFifo WITH
    Queues <- Entries, Items <- 1 .. MaxMsgs, Capacity <- MaxCommits,
    queue <- [w \in Entries |-> MsgsOf(QueuedChanges(w))]

\* A job channel is a bounded FIFO through all its owners: no job is lost,
\* doubled or overtaken, however often the ring goes round and although an
\* entry's next worker takes it over in the middle.
JobsFifo == JobQueues!Spec

\* A commit queue is a bounded FIFO that its worker empties at its end.
ChangesFifo == ChangeQueues!ClearingSpec

\* Nobody writes into a buffer another still needs: a job that waits or is
\* being handled finds all fields of its own message, a queued change its own
\* tuple, whatever the manager received meanwhile.
BuffersOwned ==
    \A w \in Entries :
        /\ \A i \in DOMAIN QueuedJobs(w) :
             LET j == QueuedJobs(w)[i]
             IN  /\ j.buf \in Bufs
                 /\ \A f \in Fields : parse_field(f, j.size) =>
                                         bytes[j.buf][f] = j.msg
        /\ At(w, "busy") => work[w].job = QueuedJobs(w)[1]
        /\ \A i \in DOMAIN QueuedChanges(w) :
             LET c == QueuedChanges(w)[i]
             IN  (\E a \in 1 .. Len(work[w].accepted) :
                     /\ work[w].accepted[a].msg = c.msg
                     /\ work[w].accepted[a].whole /\ c.op # "DELETE")
                 => bytes[c.buf].IMAGE = c.msg

\* The changes worker t has made are a beginning of those it has accepted.
InOrder(t) ==
    /\ Len(t.made) <= Len(t.accepted)
    /\ \A i \in DOMAIN t.made :
         /\ t.made[i].msg = t.accepted[i].msg
         /\ t.accepted[i].whole => t.made[i].data = t.made[i].msg
    /\ (t.made # <<>> /\ t.pc = "quit") => Len(t.made) = Len(t.accepted)

\* What a transaction has changed is, in order and with the data of the
\* messages, what it was told is accepted; all of it once COMMIT is answered.
CommitsInOrder == \A w \in Entries : InOrder(work[w])

\* A buffer in use is the manager's, or is needed by a job that waits or is
\* being handled, or by a change of a worker that has not ended: no place of
\* a ring that is out of use pins a buffer, no entry that is.
NothingLeaked ==
    Refs \ {NoBuf} \subseteq
        ({mgr.job.buf}
         \cup (UNION {{QueuedJobs(w)[i].buf : i \in DOMAIN QueuedJobs(w)} :
                        w \in Entries})
         \cup {work[w].job.buf : w \in {v \in Entries :
                                          At(v, "loop") \/ At(v, "busy") \/ At(v, "quit")}}
         \cup (UNION {RefsOfQueue(w) :
                        w \in {v \in Entries : ~At(v, "none") /\ ~At(v, "dead")}}))

\* The pool is dry and only a message could change that, if anything: all
\* buffers are kept by changes not yet committed, wait in the channels of
\* ended workers, or belong to workers that hang.
Pinned ==
    Bufs \subseteq
        (UNION {{QueuedChanges(w)[i].buf : i \in DOMAIN QueuedChanges(w)} :
                  w \in Entries})
        \cup (UNION {RefsOfChannel(w) : w \in {v \in Entries : At(v, "dead")}})
        \cup (UNION {{work[w].job.buf} \cup RefsOfChannel(w) \cup RefsOfQueue(w) :
                        w \in {v \in Entries : work[v].stuck}})

\* When the manager finds no buffer, one becomes free without another message
\* unless changes, ended workers and workers that hang keep them all.
PoolRecovers ==
    (mgr.pc = "request" /\ Free = {}) ~> (Free # {} \/ Pinned)

\* Every reply to a message with a header can be read: it is sent before the
\* buffer is used for something else, and not in part.  The one exception is
\* the second reply of a change that finds the queue full, which comes after.
RepliesReadable == garbled \subseteq {"COMMIT_FULL"}

-----------------------------------------------------------------------------
(* The strengthening that is inductive: what holds of each entry, with its  *)
(* worker t and its channel c, and how the entries keep apart               *)

\* The jobs lie between head and tail, and outside there is none.
ChannelShape(c) ==
    /\ c.tail = (c.head + c.count) % MaxItems
    /\ \A i \in c.count + 1 .. MaxItems : JobAt(c, i) = NullJob

\* The changes lie between tail and head.
QueueShape(q) == q.head = (q.tail + q.size) % MaxCommits

\* What a worker has where it is
WorkerPhases(t, c) ==
    /\ t.pc \in {"none", "dead"} =>
         ~t.running /\ t.job = NullJob /\ t.queue = NewQueue
    /\ t.pc = "none" => c.count = 0
    /\ t.pc = "recv" => t.job = NullJob
    /\ t.pc = "busy" => c.count > 0 /\ t.job = JobAt(c, 1)

\* The buffer of j holds, in this store, what was received of its message.
Loaded(store, j) ==
    /\ j.buf \in Bufs
    /\ \A f \in Fields : parse_field(f, j.size) => store[j.buf][f] = j.msg

JobsLoaded(store, c) == \A i \in 1 .. c.count : Loaded(store, JobAt(c, i))

\* Messages wait in the order of their numbers, behind the accepted ones.
MsgsOrdered(last, t, c) ==
    /\ \A i \in 1 .. c.count :
         /\ JobAt(c, i).msg \in 1 .. last
         /\ \A j \in 1 .. c.count : i < j => JobAt(c, i).msg < JobAt(c, j).msg
    /\ \A a \in DOMAIN t.accepted :
         /\ t.accepted[a].msg \in 1 .. last
         /\ \A i \in 1 .. c.count : t.accepted[a].msg < JobAt(c, i).msg
         /\ \A b \in DOMAIN t.accepted :
              a < b => t.accepted[a].msg < t.accepted[b].msg

\* Jobs and changes have buffers of their own; the worker keeps that of its
\* last job, which may be a change by now, until it asks for the next.
BuffersApart(t, c) ==
    /\ \A i \in 1 .. c.count :
         /\ \A j \in 1 .. c.count : JobAt(c, i).buf = JobAt(c, j).buf => i = j
         /\ \A p \in 0 .. MaxCommits - 1 :
              JobAt(c, i).buf # t.queue.commits[p].buf
         /\ t.pc # "busy" => JobAt(c, i).buf # t.job.buf
    /\ \A p, q \in 0 .. MaxCommits - 1 :
         t.queue.commits[p].buf = t.queue.commits[q].buf =>
           p = q \/ t.queue.commits[p].buf = NoBuf

\* The queue holds what is accepted and not yet made, with its data.
ChangesKept(store, t) ==
    /\ Len(t.accepted) = Len(t.made) + t.queue.size
    /\ \A i \in 1 .. t.queue.size :
         LET a == t.accepted[Len(t.made) + i]
             x == ChangeAt(t.queue, i)
         IN  /\ a.msg = x.msg
             /\ x.op # "DELETE" =>
                  x.buf \in Bufs /\ (a.whole => store[x.buf].IMAGE = x.msg)

\* Changes are made by COMMIT only.
MadeInCommit(t) ==
    t.made # <<>> =>
      \/ t.pc = "busy" /\ t.job.op = "COMMIT_TXN" /\ t.status = "SHRINKING"
      \/ t.pc = "quit" /\ t.queue.size = 0

EntryOK(store, last, t, c) ==
    /\ t \in WorkerType /\ c \in ChannelType
    /\ ChannelShape(c) /\ QueueShape(t.queue)
    /\ WorkerPhases(t, c) /\ JobsLoaded(store, c) /\ MsgsOrdered(last, t, c)
    /\ BuffersApart(t, c) /\ ChangesKept(store, t) /\ MadeInCommit(t)
    /\ InOrder(t)

\* The buffers an entry refers to
Held(t, c) ==
    ({t.job.buf} \cup {JobAt(c, i).buf : i \in 1 .. c.count}
     \cup {t.queue.commits[p].buf : p \in 0 .. MaxCommits - 1}) \ {NoBuf}

\* No buffer is referred to by two entries, or by one and the manager.
HoldersApart ==
    \A w \in Entries :
        /\ mgr.job.buf \notin Held(work[w], chan[w])
        /\ \A v \in Entries : v # w =>
             Held(work[v], chan[v]) \cap Held(work[w], chan[w]) = {}

\* What the manager has where it is
ManagerPhases ==
    /\ mgr.pc = "request" => mgr.job = NullJob
    /\ mgr.pc = "recv" => mgr.job.buf \in Bufs
    /\ mgr.pc = "reap" =>
         Loaded(bytes, mgr.job) /\ mgr.job.msg = msgs /\ msgs > 0

IInv ==
    /\ TypeOK /\ ManagerPhases /\ HoldersApart /\ RepliesReadable
    /\ \A w \in Entries : EntryOK(bytes, msgs, work[w], chan[w])
=============================================================================
