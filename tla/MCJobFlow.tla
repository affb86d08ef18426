----------------------------- MODULE MCJobFlow -----------------------------
(* A small instance of JobFlow for TLC. *)
EXTENDS JobFlow, TLC

D(op, size) == [op |-> op, size |-> size]

\* Complete messages, and some that end early: before the operation's id,
\* before the tuple.  A SHARED_READ would add nothing: here it does less than
\* an EXCLUSIVE_READ.  Nor would YIELD_READ, which does less than PROMOTE.
MCDatagrams ==
    {D("START_TXN", 7), D("EXCLUSIVE_READ", 8), D("ADD_TUPLE", 46),
     D("DELETE", 9), D("UPDATE", 46), D("PROMOTE", 9), D("COMMIT_TXN", 7),
     D("ABORT_TXN", 7), D("START_TXN", 1), D("ADD_TUPLE", 9)}
=============================================================================
