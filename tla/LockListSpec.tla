---------------------------- MODULE LockListSpec ----------------------------
(***************************************************************************)
(* LockList in the hands of a transaction.  A row may be recorded more     *)
(* than once: insert takes the first free entry, so the entry of a lock    *)
(* that was removed lets a row in again that is recorded further on.  The  *)
(* list then behaves as one stack of records per row: get_lock,            *)
(* promote_lock and rm_lock meet the newest record of the row first.       *)
(***************************************************************************)
EXTENDS LockList, Sequences

CONSTANT Rowids   \* the rows locks are taken on

ASSUME RowidsAssumption == NoKey \notin Rowids

VARIABLES list,    \* the lock_list
          held,    \* what it stands for: row -> the types recorded, oldest first
          removed  \* history: a lock was removed from the list since it was empty

vars == <<list, held, removed>>

Types == {"SHARED", "EXCLUSIVE"}

Newest(s) == s[Len(s)]

NoneHeld == [k \in Rowids |-> <<>>]

Init == list = EmptyList /\ held = NoneHeld /\ removed = FALSE

Add(k, type) ==
    LET r == add_lock(list, k, type)
    IN  /\ list' = r.list
        /\ held' = IF r.error # "None" THEN held
                   ELSE [held EXCEPT ![k] = Append(@, type)]
        /\ UNCHANGED removed

\* A worker removes or promotes a lock that get_lock has just shown it.
Rm(k) ==
    /\ get_lock(list, k) # "NotFound"
    /\ list' = rm_lock(list, k)
    /\ held' = [held EXCEPT ![k] = SubSeq(@, 1, Len(@) - 1)]
    /\ removed' = TRUE

Promote(k) ==
    /\ get_lock(list, k) = "SHARED"
    /\ list' = promote_lock(list, k)
    /\ held' = [held EXCEPT ![k][Len(held[k])] = "EXCLUSIVE"]
    /\ UNCHANGED removed

Clear ==
    /\ list' = clear(list)
    /\ held' = NoneHeld
    /\ removed' = FALSE

Next ==
    \/ \E k \in Rowids :
         \/ \E type \in Types : Add(k, type)
         \/ Rm(k) \/ Promote(k)
    \/ Clear

Spec == Init /\ [][Next]_vars

-----------------------------------------------------------------------------
TypeOK ==
    /\ list \in [locks : [Entries -> [key : Rowids \cup {NoKey}, type : Types,
                                      used : BOOLEAN, deleted : BOOLEAN]],
                 size : 0 .. MaxLocks]
    /\ held \in [Rowids -> Seq(Types)]
    /\ removed \in BOOLEAN

\* get_lock, which gives up at the first entry never used, answers with the
\* newest record of the row: no pattern of removals hides a held lock or
\* brings back a removed one, not even when a row is recorded twice.
GetLockExact ==
    \A k \in Rowids :
        get_lock(list, k) =
            IF held[k] = <<>> THEN "NotFound" ELSE Newest(held[k])

\* The entries at hold the records of row k, the newest first on the path.
RecordsAt(k, at) ==
    /\ {at[n] : n \in DOMAIN at} = {i \in Held(list) : list.locks[i].key = k}
    /\ \A m, n \in DOMAIN at : m < n => ProbeRank(at[n]) < ProbeRank(at[m])
    /\ \A n \in DOMAIN at : list.locks[at[n]].type = held[k][n]

\* The iterator that release_all_locks walks meets every record exactly once,
\* with the type of its lock, and size_ is their number, so Full is answered
\* at the limit only.
IteratorExact ==
    /\ list.size = Cardinality(Held(list))
    /\ \A i \in Held(list) : list.locks[i].key \in Rowids
    /\ \A k \in Rowids : \E at \in [1 .. Len(held[k]) -> Entries] : RecordsAt(k, at)

\* The Conflict of insert keeps a row from being recorded twice until the
\* transaction removes a lock (YIELD, or a DELETE of its commit) and leaves
\* an entry that hides the conflict.
TwiceOnlyAfterRemoval ==
    \A k \in Rowids : Len(held[k]) > 1 => removed

\* Every held lock lies on its probe path: the entries before it have all
\* been used since the last clear, which keeps keys and deleted marks.
ProbePath ==
    \A i \in Held(list), j \in Entries :
        ProbeRank(j) < ProbeRank(i) => list.locks[j].used

\* As long as nothing was removed, the held entries come first on the path.
HeldFirst ==
    ~removed => \A i \in Held(list), j \in Entries :
                    ProbeRank(j) < ProbeRank(i) => j \in Held(list)

\* The strengthening that is inductive.
IInv ==
    /\ TypeOK
    /\ IteratorExact
    /\ ProbePath
    /\ HeldFirst
    /\ TwiceOnlyAfterRemoval
=============================================================================
