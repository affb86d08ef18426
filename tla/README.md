# A TLA+ verification project for PawnDB

PawnDB is a small in-memory database server: clients send datagrams over a Unix
socket, a manager thread hands them to one worker thread per transaction, and
the workers lock, read and change the rows of a shared table.  This directory
holds TLA+ models of its components, TLC configurations that check them on
small instances, and TLAPS proofs of every safety property the passing runs check.

The modules follow the `.cpp` files.  The repository is in the middle of a
renaming (`trait_insert` in `student_table.cpp`, `insert_` in its header,
`insert` in its callers); the models use the short name.

## 1. Inventory

| Component | State | Operations | Interacts with |
|---|---|---|---|
| `StudentTable` | ten entries (tuple, lock word, used, deleted), two counters of lockable rows, size, next key | insert, search, remove, write, clear, wait_shared, wait_exclusive, promote, release, notify_* | called by all workers under one mutex, four condition variables |
| `lock_list` | entries (key, type, used, deleted), size | add_lock, rm_lock, promote_lock, get_lock, clear, iteration | owned by one worker |
| `commit_queue` | ring of changes | send, get, pop, clear | owned by one worker |
| `Worker` | status, lock list, commit queue, running flag | one handler per operation, the loop of `start`, `worker_quit` | table, job channel (in), return channel (out), socket |
| `job_channel`, `ret_channel` | rings under a mutex | send, recv/get, pop | manager to worker, workers to manager |
| `WorkerTable`, `WorkerContext` | open-addressed table of contexts with thread, channel and flag | insert (starts the thread), search, remove and clear (stop and join) | used by the manager only |
| `ThreadManager` | socket, worker table, return channel, running flag, next transaction id | receive loop, reply, stop | main thread calls `stop` |
| `buf_table`, `buf_ref` | buffers with reference counts, size, hint | request; copy, move, assign, destroy a reference | every message, job and queued change holds a reference |
| `job_buf`, `ret_buf` | a buffer and its size | field access | manager, workers |
| `rollback_stack`, `rollback` | a stack | push, pop | unused |

What is hard here:

* **Concurrency.** Workers meet in the table; the manager meets them in the
  channels, the running flags and the buffer pool; `stop` meets the manager.
* **Hand-kept redundancy.** Counters next to what they count, lock words next
  to lock lists, a size next to flags: each is correct only as an invariant over
  many functions.
* **Probes without an end.** `remove`, `write`, `promote`, `release`, `rm_lock`
  and `WorkerTable::remove` loop until they find what they look for, and those of
  the table hold the mutex meanwhile.
* **Waiting.** Row waits are timed and retried; `insert` waits without a limit.
* **Reuse.** Tombstones, table entries, channels and buffers are used again.
* **Limits.** `uint8_t` keys, `int8_t` lock words, rings of sixteen.

Nothing is persistent, so there is no crash recovery to model.

What makes each component correct, in a sentence: the table is a key-value store
whose records are protected by read/write locks; a lock list records the
locks its worker holds and agrees with the table; a worker answers each job once,
does what it acknowledged, and leaves nothing behind; the manager forgets no
message, reuses no entry too early and can be stopped; the pool frees a buffer
exactly when its last reference goes; and a message keeps its buffer, its place in
the queue and its bytes until it is answered and what it asked for is done.

The hazards are listed one by one, with their lines and the properties that
cover them, in `PROJECT.json`.

## 2. Modules

| Module | Models | State and actions |
|---|---|---|
| `StudentTable` | `student_table.cpp` | the table's variables and its operations as action fragments; extended by the two modules that call them |
| `RowLocking` | the table with any callers | *grants* (outstanding row locks) and *inserters* (calls of `insert`) use it concurrently; `not_full_` has an explicit wait set; the table tests no lock when it promotes, releases, writes or removes, so that the caller has the row is an assumption here and the subject of `Worker` |
| `RWLockedStore` | what the table promises | a map and a set of lock holders, no slots, words or counters |
| `TableProofs` | | what each operation of the table does to types, keys, places and lock words |
| `RowLockingProofs` | | theorems about `RowLocking`, also that it implements `RWLockedStore` |
| `LockList`, `LockListSpec`, `LockListProofs` | `lock_list.cpp` | the list as a value with operators on it; a state machine that runs them beside what they stand for, a stack of records per row; theorems |
| `Worker` | `worker.cpp` with `commit_queue.cpp` as a bounded sequence | a record per worker with a program counter; extends `StudentTable`, instantiates `LockList`; theorems in `WorkerProofs` |
| `BufTable`, `BufTableProofs` | `buf_table.cpp`, `buf_ref.cpp` | counts and handles; theorems |
| `Server` | `thread_manager.cpp`, `worker_table.cpp`, `ret_channel.cpp`, `job_channel.cpp` as a bounded sequence | manager, worker entries, ring of ids, socket, the call of `stop`; workers that reply and pop as often as their handlers do, or get stuck; theorems in `ServerProofs` |
| `JobBuf` | `job_buf.h`, `job_buf.cpp` | the layout of a message, what can be parsed, what each writer leaves in the buffer |
| `JobFlow` | a message's way: the manager's loop, `job_channel.cpp`, the handlers' replies, `commit_queue.cpp` | the buffers with their content, the manager, and per entry a channel (ring) and a worker (job, ring of changes); extends `JobBuf`; theorems in `JobFlowProofs` |
| `Probing` | | lemmas about `%`, rings and first free places that the proofs share |
| `BoundedFifo` | what the two rings promise | sequences of bounded length |
| `MCRowLocking`, `MCWorker`, `MCJobFlow` | | symmetry, job and message sets for TLC |

`Worker`, `Server` and `JobFlow` look at the same threads from three sides.
`Worker` has the table and the locks and no manager; `Server` has the manager, the
worker table and the shutdown and no rows; `JobFlow` has buffers, rings and bytes.
What one of them leaves out is a free choice in it: a handler of `JobFlow` may refuse
a row, wait in vain or find it, as it likes.  The bounded sequences of `Worker` and
`Server` are justified by `JobFlow`, which shows the rings to be such sequences, and
`JobFlow`'s notion of a free buffer (one nobody refers to) by `BufTable`, where
`RefCountExact` is proved.

### Steps

An operation of the table or the pool holds its mutex throughout and is one
step.  A worker's step is a stretch of code between two uses of shared state:
taking a job and all thread-local work of its handler up to the first use of the
table; one table operation with the thread-local work after it; one
notification; one test of the running flag.  The manager is cut the same way at
its uses of flags and channels, and `stop` in its two statements.
`is_running` (test_and_set, then clear) is one step: the flag is tested by one
thread only, and a concurrent `clear` gives the same result in either order.

### Waiting

A timed wait of the table (`wait_shared`, `wait_exclusive`, `promote`) can end in
two ways: its condition holds and the row is granted before the mutex is given
back, or the time is over, the condition is tested once more and does not hold.
Both are actions (`GrantShared`..., `WaitTimeout`), and since a waiter may wake at
any time, notifications of these condition variables change nothing that can
happen.  `insert`'s wait has no limit, so there the wait set, `notify_one` and
spurious wake-ups are explicit.

### Loops that never end

A probe that finds nothing is modelled as what it is: in `Worker`, `TableSpin`
puts the worker in state "hung" with the mutex held for ever, `LockListSpin`
without it.  In `RowLocking` the operation is disabled and `SeekFindsHeldRow` says
that this never happens.  `Server` and `JobFlow` have no rows, so there a worker in a
commit may stop for ever whenever it likes, asleep in `insert` or in a probe, and with
it those that need the table (`WorkerStuck`, `Hang`).  These are choices, under no
fairness, and what is claimed of the rest of the system allows for them.

### Data

A tuple is its key and an abstract datum; a job is its operation, table, key and
datum, where a field may be missing (`BadField`).  `deserialize` never fails, so
the BAD_DATA branches do not exist; it does not set the key, and
`DeserializedKey` is that key.  Counters, keys, lock words and reference counts
wrap as their types do.

In `JobFlow` a message is its number, its operation and its size, and a byte is the
number of the message it comes from: `Mixed` when two writers share a field, `Fresh`
when nobody has written it since the buffer was last free.  That is enough to tell a
handler that reads its own message from one that reads what another left behind.
`recvfrom` writes a prefix, `set_field` writes one field whether or not the message
reaches that far, and ADD and UPDATE copy the tuple object over the header.  Which
free buffer `request` finds makes no difference here (its search is in `BufTable`).

## 3. Runs

Passing runs ask the questions; the violation runs are disagreements between the
code and its own comments or tests, met while modelling, each kept in a run of
its own.  Some of them would drown everything else, so the passing worker runs
stay outside their reach, by their inputs alone: no client share-reads again
while it holds a shared lock (`Rereads = FALSE`; finding `worker_reread`), and
updates name row 0, the one they reach (`worker_update`).  In run `worker` the
commit queue also has room for all jobs (`MaxCommits >= MaxJobs`; section 5); in
`worker_live` it has room for two changes and fills up.  `Server` has the double
replies and the double pop of these paths.  A transaction that a
timed-out promotion has marked ABORTED loses its changes (`worker_aborted`,
which violates `AckedIsApplied`); `CommitIsComplete` is the same claim about the
others.

| Run | Instance | Checks |
|---|---|---|
| `rowlocking` | 3 entries, 2 data, 3 grants, 2 inserters, 5 insertions | `CountersExact`, `LockEncodesHolders`, `SeekFindsHeldRow`, `UniqueKeys`, `SearchExact`, `NoLostWakeup`, `IInv`, `ImplementsStore` (refinement of `RWLockedStore`) |
| `locklist` | 3 entries, 4 rows | `TypeOK`, `GetLockExact`, `IteratorExact`, `TwiceOnlyAfterRemoval` |
| `worker` | 2 workers, 4 jobs each of all kinds, 2 rows | `TypeOK`, `LocksMatchTable`, `OneReplyPerJob`, `CommitIsComplete`, `ChangedUnderLock` |
| `worker_live` | 2 workers, 4 jobs each and 5 in all, a queue of 2 changes, 1 row, all changes and promotions | `RequestAnswered`, `StoppedDies`, `CommitEnds` |
| `buftable` | 3 buffers, 4 handles | `RefCountExact`, `SizeExact`, `IInv`, `FreshBuffer` |
| `server` | 2 entries, 3 transactions, 5 messages of which at most 2 start none, channels of 2 | `TypeOK`, `EntriesExact`, `JobsOfOwnTxn`, `ReturnsExact`, `RemoveFindsWorker`, `AnsweredOnce`, `NoneForgotten`, `StopEnds` |
| `jobflow` | 3 buffers, 1 entry, a channel of 2, a queue of 3, 5 messages | `TypeOK`, `BuffersOwned`, `CommitsInOrder`, `NothingLeaked`, `RepliesReadable`, `JobsFifo` and `ChangesFifo` (refinements of `BoundedFifo`), `PoolRecovers` |
| `worker_update` | | violates `UpdateReachesItsRow` |
| `worker_reread` | `Rereads = TRUE` | violates `LocksReleased` |
| `worker_aborted` | promotions and additions | violates `AckedIsApplied` |
| `worker_delete_twice` | | violates `NoEndlessProbe` |
| `server_returns` | 2 transactions, a ring of 1 | violates `RemoveFindsWorker` |

**Why the bounds are enough to be interesting.**  Three entries give probe chains
that wrap around the end, tombstones in the middle of a chain and a table that is
full with inserters asleep; three grants give a row shared twice with a third
caller waiting, or two rows locked differently; with five insertions every entry is
reused.  A lock list of three entries and four rows reaches its limit, and
records a row twice behind a removed lock.  Two workers
are what mutual waiting, promotion of a shared row, and a sleeper woken by a
deleter need.  In `worker_live` four jobs are enough for a transaction that locks the
one row, deletes it twice and commits, for an update committed after a deletion, and
for an addition to the full table, alone or while the other worker deletes; the fifth
job is the other worker's.  Two worker entries and three transaction ids force a third
transaction into a used entry; channels of two fill up.  Two messages besides the
starts are a re-read with another message behind it, a commit that gets stuck while
its client sends more, or an ended worker's late job.  Three buffers and four
handles make the pool full, shared and interrupted in a copy assignment.  In
`jobflow` five messages take a ring of two round more than twice, through the end of
one worker and the start of the next in the same entry; three buffers can all be
held by queued changes, or by the jobs of an ended worker, or by the mixture that
recovers; and changes with and without a buffer (ADD and UPDATE, DELETE) fill the
queue of three.  Messages that are refused leave no trace but their reply and do
not count.  One entry is enough because workers share only the pool here, and to a
worker it makes no difference who holds a buffer it does not get.

`IInv` of `RowLocking` and of `BufTable` is the inductive invariant of the proofs and
begins with `TypeOK`.

**Deadlock** is checked where the system runs for ever (`locklist`, `buftable`).
Workers, the server and the bounded messages of `JobFlow` end, and in `RowLocking` the bound on insertions may leave
nothing to do, so there `CHECK_DEADLOCK` is off.

**Fairness.**  `Worker!FairSpec` and `Server!FairSpec` assume weak fairness of
each thread's steps: the operating system schedules every thread, and every wait
but `insert`'s is timed.  A worker asleep in `insert`, in an endless probe, or after
the table's mutex has been lost to one, has no step of its own, and neither has a
worker that `Server` or `JobFlow` lets get stuck.  `JobFlow!FairSpec` assumes it of each
worker and of the manager while it reaps and inserts.  Not assumed: that clients send,
that `stop` is called, that `insert` wakes up spuriously, that the pool has a buffer
for the manager of `Server` (`Loop`), and that a commit gets stuck.

What a liveness property claims therefore names what may end a worker's progress:
`CommitEnds` and `StoppedDies` end in the end of the worker or in a second DELETE of a
row in its commit (`DeletesTwice`), an addition to a full table (`NoRoom`) or the loss
of the table's mutex to the UPDATE of a deleted row (`TableLost`); `RequestAnswered` in
the answer or `TableLost`;
`StopEnds` in the end of the server or in a worker that is stuck or has
lost its channel; `PoolRecovers` in a free buffer or in `Pinned`.

## 4. Proofs

`RowLockingProofs` proves, for every number of entries, grants, inserters and data,
and every width of keys and lock words, under the assumption
`MaxInserts <= RowT` (the key counter does not wrap):

* `InductiveInvariant`: `Spec => []IInv`, with
  `IInv == TypeOK /\ Layout /\ HeldRowsLive /\ CountersExact /\ LockEncodesHolders
  /\ WaitersApart /\ NoLostWakeup`;
* and from it `TypeCorrect`, `CountersTheorem`, `LockTheorem`,
  `UniqueKeysTheorem`, `SeekTheorem`, `SearchTheorem`, `WakeupTheorem`.

None of the parts is inductive alone.  The counters need the lock words (a release
counts a row up because its word says so), the words need unique keys and held
rows that exist (a release must hit the row that was granted), finding the row
needs the probe path (`ProbePath`: everything before a row on its path has been
used), unique keys need that keys in use are below `next_key_` (`KeysIssued`), and
the wake-up count needs the size.  `Layout` collects the ones about keys and places.
The proof has one lemma per action; facts about `Nearest` and `Dist` and about the
operations themselves are in `TableProofs`, which `WorkerProofs` uses too.  Without the assumption `UniqueKeys` is false, see section 5.

One more theorem builds on it, with the same assumption:

* `StoreTheorem`: `Spec => ImplementsStore`, the refinement of `RWLockedStore`.  The
  map is read off the live entries and the holders off the grants; the initial
  states correspond and each action is a step of the store or a stutter (tombstones,
  counters, waits and wake-ups are invisible).  Without `LockEncodesHolders` a grant
  that the lock word allows might conflict with a holder of the store.

`BufTableProofs` proves for every number of buffers and handles
`PoolInvariant` (`IInv == TypeOK /\ PendingInPlace /\ RefCountExact /\ SizeExact`),
`RefCountTheorem`, `SizeTheorem` and the action property `FreshBufferTheorem`.
The count of a buffer needs the assignments under way (a buffer retained and not
yet stored), `PendingInPlace` says these have both ends, and the width of
`ref_count_` is enough because a handle accounts for at most two references
(`2 * Cardinality(Handles) <= RefMax`).

`LockListProofs` proves for every number of entries and rows `ListInvariant`
(`IInv == TypeOK /\ IteratorExact /\ ProbePath /\ HeldFirst /\
TwiceOnlyAfterRemoval`), and from it `TypeCorrect`, `GetLockTheorem`,
`IteratorTheorem` and `TwiceTheorem`.  `get_lock` stops at the first entry never used,
so that it finds what is held needs `ProbePath`; that it finds the newest record needs
the order of a row's records along the path, which is part of `IteratorExact`: a new
record takes the first free entry, and were an older record of the row before it,
`insert` would have met the conflict.  That a conflict is met as long as nothing was
removed needs `HeldFirst`: then there is no free entry before a held one.

`ServerProofs` proves for every number of entries, transactions and messages and
every length of the channels `ServerInvariant`: `Spec => []IInv`.  The parts are
`TypeOK`, `EntriesCounted`, `TxnsIssued` (ids in the table have been given out),
`UniqueTxns`, `ProbePath`, `ManagerKnows` (what the manager found before a step is
still so after the workers' steps between), `JobInChannel`, `JobsOfOwnTxn`,
`WaitsOnce` (a message waits in one place), `AgainOnce` (a message about to get its
second reply waits nowhere and is in one worker's hands), `AtMostTwice` and
`AnsweredOrWaits`.  From it follow `TypeCorrect`, `EntriesTheorem`, `JobsTheorem`,
`AnsweredOnceTheorem` and `NoneForgottenTheorem`.  The last two say what the code
does, its double replies and pops included: a message has two answers only if its
own handler gave both (`twice`: a full commit queue or a re-read), and while the
socket is open an unanswered message waits somewhere, unless the second pop of a
re-read took it off (`dropped`).  They are claimed as long as no channel counts below
zero (`Defined`).  That no message has more answers needs to know where each
unanswered one waits, and that a reused entry is clean needs to know which
transaction the manager is about to join.

The return channel takes an id without testing for room, so what is said of it is
conditional: under `[]NoOverrun` (before the shutdown,
no more workers have ended and wait to be joined than the ring has places) `RingInvariant`, `ReturnsTheorem` and `RemoveTheorem` hold.
`LargeRingTheorem` shows that `MaxTxns <= MaxItems` would be enough for that; the code has
64 and 16, and run `server_returns` shows what then happens.

`JobFlowProofs` proves for every number of buffers, entries and messages and every
length of the rings `FlowInvariant`: `Spec => []IInv`, with `IInv` the conjunction of
`TypeOK`, `ManagerPhases`, `HoldersApart` (a buffer is held by the manager or by one
entry), `RepliesReadable`, and for each entry `EntryOK`: `ChannelShape`, `QueueShape`
(indices, counts and what unused places of the rings hold), `WorkerPhases`,
`JobsLoaded` (waiting jobs have their bytes), `MsgsOrdered`, `BuffersApart` (no two
jobs or changes of an entry share a buffer they need), `ChangesKept`, `MadeInCommit`
and `InOrder`.  From it:

* `TypeCorrect`, `CommitsTheorem`, `RepliesTheorem`, `OwnedTheorem`, `LeakTheorem`;
* `JobsFifoTheorem` and `ChangesFifoTheorem`, the refinements of `BoundedFifo`: the
  sequence is the ring read from its head, and the proofs are about what a write at
  the tail or a step of the head does to that reading.

Commits apply the right data only if nobody overwrites a buffer between the
acceptance of a change and its commit, so the order of changes, the ownership of
buffers and the shape of the rings are one induction and none alone.  The entries
interfere only through the pool, so `EntryOK` is preserved by one lemma for an entry's own
actions and one for everyone else's.

`WorkerProofs` is about any number of rows, jobs and workers, within what the code
fixes (`WorkerAssumption`): a lock list has room for every row (`Rows <= MaxLocks`; 10
and 16) and a lock word can count every worker (`Cardinality(Workers) <= LkMax`; 64 and
127).

| Theorem | States | Conditions |
|---|---|---|
| `TypeCorrect` | `TypeOK`, with the limits of retries, locks and queued changes | none |
| `CompleteTheorem` | `CommitIsComplete` | `MaxJobs <= MaxCommits` |
| `LocksTheorem` | `LocksMatchTable` | no rereads, `[]KeysLeft` |
| `ReleasedTheorem` | `LocksReleased` | no rereads, `[]KeysLeft` |
| `RepliesTheorem` | `OneReplyPerJob` | no rereads, `[]KeysLeft`, `MaxJobs <= MaxCommits` |
| `GuardedTheorem` | `ChangedUnderLock` | no rereads, `[]KeysLeft`, updates name row 0 |

The conditions are those of the passing worker runs, and each has its
counterexample: rereads in `worker_reread`, updates of other rows in `worker_update`,
a full queue and keys that wrap in section 5.  `KeysLeft` holds in every state of the
`worker` run.

Two inductions carry them.  `TypeInv`, `Accounted` and `Answered` are about one worker
at a time: the list counts its locks, the changes acknowledged are the ones made and
the ones queued, and a job under way has no reply yet.  `LockInv` is about the workers
and the table together.  That a lock word encodes the workers that share the row or have
it (`WordsMatch`) needs each list to have a row at most once (`ListKept`), each locked row
to be in the table where the probe finds it (`RecordsLive`, `UniqueKeys`, `ProbePath`),
and a deleted row to have been its worker's own.  The last is the hard part: the lock was
tested when DELETE was queued and the row is removed in the commit, so `ChangesLocked`
says that a row with a queued change stays locked until then, or is deleted and does not
come back, for which its key must be below `next_key_` (`KeysBelow`).  `OneReplyPerJob`
needs this whole invariant: the code answers twice when `add_lock` refuses a granted row,
and that it never does follows from the lists, the words and the table together
(`LockShared`).

The proof describes each step once, as a relation between the old and the new state of
a worker (`Replied`, `Granted`, `Made`, ...): what the handlers compute
(`DispatchOutcome`), what such a step keeps of a worker (`...Keeps`), what it does
to the locks it has (`Quiet`, `Gains`, `Drops`, `Turns`), and then with the table
(`Lock...`).  `TypeInv`, `LockInv`, `Accounted` and `Answered` were checked by TLC on the
instance of run `worker` before they were proved.

Only model-checked: the liveness properties (`RequestAnswered`, `StoppedDies`,
`CommitEnds`, `StopEnds`, `PoolRecovers`); fairness is out of this prover's reach.

## 5. Limits of the code the models show

Besides the findings in `PROJECT.json`, the models have these behaviours, and
the properties are stated up to them:

* *Keys wrap.*  `next_key_` is a `uint8_t` that every insertion increments; past
  `RowT` insertions a new row may get the key of one that is still there, and
  `UniqueKeys` fails (in `MCRowLocking` with `MaxInserts = RowT + 1`).
* *A hidden conflict.*  `lock_list::insert` takes the first tombstone before it has
  looked for the key behind it, so adding a held row is not always refused: once a
  lock was removed (YIELD, or a DELETE of the commit), a row can be in the list
  twice, and not before (`TwiceOnlyAfterRemoval`).  The list then keeps every record,
  as a stack, and the iterator meets them all.
* *A full table.*  `insert` waits in a commit without a time limit; one worker
  that adds to a full table nobody deletes from never ends (`NoRoom` in `CommitEnds`
  and `StoppedDies`), no flag ends it, and the `join` of `clear` waits for it: `stop`
  does not end the server then, nor while a worker probes for ever.
* *A full commit queue.*  ADD and UPDATE answer SUCCESS before they ask the commit
  queue for room and COMMIT_FULL after it refused: `OneReplyPerJob` fails with
  `MaxCommits` below the number of changes, and `Server` counts the message in
  `twice`.  The second reply is sent from a buffer
  whose header has been overwritten by the tuple: `RepliesReadable` names it as its
  one exception.
* *A dry pool.*  A queued ADD or UPDATE keeps its buffer until its worker ends, and
  the pool (64) is smaller than what transactions may queue (64 times 16).  When
  changes and the jobs of ended workers keep all buffers, the manager cannot receive
  the COMMIT, ABORT or START_TXN that would free one, and goes on sleeping.
  A worker that never ends keeps its job and what waits in its channel as well.
  `PoolRecovers` says that the pool stays dry only when queued changes, the jobs of
  ended workers and those of hanging workers keep all its buffers (`Pinned`).
* *Short messages.*  ADD and UPDATE deserialize a whole tuple whatever the size of
  the message; the rest comes from what the buffer held before.  `CommitsInOrder`
  and `BuffersOwned` speak of the data of whole messages.  A message that ends before
  the ack is refused with a reply of its own size, without the ack.
* *Two pops.*  The path of finding `worker_reread` also answers and pops twice.
  `Server` has both outcomes: with another message in the channel that one is thrown
  away unanswered (`dropped`), with none the channel's `count_` goes below zero and
  nothing is followed, or claimed of the messages, from there ("astray").  In `Worker`
  the worker takes no further job after it; `JobFlow` and the passing worker runs have
  no such read.
* *Visible additions.*  A commit is a sequence of table operations; rows it adds can be
  read by others before it ends.  Rows it changes or deletes stay locked until then
  (`ChangedUnderLock`).
* *Shutdown.*  Datagrams queued before the socket is shut down are still received,
  and the socket is closed before the workers are joined, so what is answered then
  reaches nobody.  `NoneForgotten` speaks of an open socket, `AnsweredOnce` does not.
* *Cleared locks.*  `clear` of the table tests nothing: it wipes out the locks that
  are held, as one of its unit tests does, and the holders have nothing to release.
  No code of the server calls it.
* *The flag.*  The test that ends the manager's loop sets the flag again, so
  `is_running` says true after the end.

## 6. What is not modelled

* `ret_buf` (held by `ret`, its operations called by nobody), and `get_ack`,
  `get_string` and `get_checksum` of `job_buf`, which have no caller in the server.
  The checksum of a tuple is sent and stored, never tested.
* `rollback_stack` (unused), `Result` (a sum type), `tools.h`, the tickstamp (never
  read).
* Failure of the socket set-up: the process exits.
* Object lifetimes.  `process_commit` binds a reference to the value in a temporary
  `Result`, and the manager passes a `buf_ref` it goes on using where `job` takes an
  rvalue (the code is between two interfaces there): the model reads the entry that
  is meant, and takes the job's reference as a copy.
* Lost datagrams: an answer that `sendto` hands to an open socket counts as given.

## 7. Plan

Done: table, lock list, workers, buffer pool, server and the flow of messages through
rings and buffers, each with runs; proofs of the safety properties and refinements of
all of them.

Next: theorems that carry the conditions of section 4 over to what the code bounds by
itself (`[]KeysLeft` from a bound on insertions, as in `RowLocking`); where a worker can
be caught in a probe (`SpinInCommit` already confines it to a commit).
