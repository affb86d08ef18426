------------------------------ MODULE MCWorker ------------------------------
(* Small instances of Worker for TLC. *)
EXTENDS Worker, TLC

CONSTANTS d1

WorkerSymmetry == Permutations(Workers)

J(op, tbl, key) == [op |-> op, tbl |-> tbl, key |-> key, data |-> d1]

Commit == {J("COMMIT_TXN", BadField, BadField)}

Reads == {J("SHARED_READ", TblId, BadField), J("EXCLUSIVE_READ", TblId, BadField)}

OnRow(ops, keys) == {J(op, TblId, k) : op \in ops, k \in keys}

Adds == {J("ADD_TUPLE", TblId, BadField)}

\* Everything a client can usefully send about row 0, the only row that
\* updates reach (worker_update).  START_TXN comes first and only once, and
\* changes nothing.
AllJobs ==
    Commit \cup Reads \cup Adds
    \cup OnRow({"YIELD_READ", "PROMOTE", "UPDATE", "DELETE"}, {0})
    \cup {J("ABORT_TXN", BadField, BadField)}

\* Jobs that wait for one another, for room, or for ever.
WaitingJobs ==
    Commit \cup Reads \cup Adds \cup OnRow({"PROMOTE", "DELETE", "UPDATE"}, {0})

ReadJobs == {J("SHARED_READ", TblId, BadField)}

UpdateJobs == Commit \cup Reads \cup OnRow({"UPDATE"}, {0, 1})

DeleteJobs == Commit \cup Reads \cup OnRow({"DELETE"}, {0})

PromoteJobs ==
    Commit \cup Adds \cup ReadJobs \cup OnRow({"PROMOTE"}, {0})
=============================================================================
