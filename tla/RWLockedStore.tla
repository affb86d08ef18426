---------------------------- MODULE RWLockedStore ----------------------------
(***************************************************************************)
(* What the table promises its callers: a map from keys to data whose      *)
(* records are protected by shared and exclusive locks.  There are no      *)
(* slots, no lock words and no counters here; a lock may be granted when   *)
(* the set of its present holders allows it.                               *)
(***************************************************************************)
CONSTANTS Keys, Data, Grants

VARIABLES store,   \* key -> data, for the records that exist
          mode,    \* what each grant is: "none", "SHARED" or "EXCLUSIVE"
          row      \* the key a grant is on, when it is not "none"

vars == <<store, mode, row>>

Holders(k) == {c \in Grants : mode[c] # "none" /\ row[c] = k}

Init ==
    /\ store = [k \in {} |-> {}]
    /\ mode = [c \in Grants |-> "none"]
    /\ row \in [Grants -> Keys]

Insert(k, d) ==
    /\ k \notin DOMAIN store
    /\ store' = [j \in DOMAIN store \cup {k} |->
                   IF j = k THEN d ELSE store[j]]
    /\ UNCHANGED <<mode, row>>

Share(c, k) ==
    /\ mode[c] = "none"
    /\ k \in DOMAIN store
    /\ \A h \in Holders(k) : mode[h] = "SHARED"
    /\ mode' = [mode EXCEPT ![c] = "SHARED"]
    /\ row' = [row EXCEPT ![c] = k]
    /\ UNCHANGED store

Exclude(c, k) ==
    /\ mode[c] = "none"
    /\ k \in DOMAIN store
    /\ Holders(k) = {}
    /\ mode' = [mode EXCEPT ![c] = "EXCLUSIVE"]
    /\ row' = [row EXCEPT ![c] = k]
    /\ UNCHANGED store

Promote(c) ==
    /\ mode[c] = "SHARED"
    /\ Holders(row[c]) = {c}
    /\ mode' = [mode EXCEPT ![c] = "EXCLUSIVE"]
    /\ UNCHANGED <<store, row>>

Release(c) ==
    /\ mode[c] # "none"
    /\ mode' = [mode EXCEPT ![c] = "none"]
    /\ UNCHANGED <<store, row>>

Write(c, d) ==
    /\ mode[c] = "EXCLUSIVE"
    /\ store' = [store EXCEPT ![row[c]] = d]
    /\ UNCHANGED <<mode, row>>

Remove(c) ==
    /\ mode[c] = "EXCLUSIVE"
    /\ store' = [k \in DOMAIN store \ {row[c]} |-> store[k]]
    /\ mode' = [mode EXCEPT ![c] = "none"]
    /\ UNCHANGED row

Clear ==
    /\ store' = [k \in {} |-> {}]
    /\ mode' = [c \in Grants |-> "none"]
    /\ UNCHANGED row

Next ==
    \/ \E k \in Keys, d \in Data : Insert(k, d)
    \/ \E c \in Grants :
         \/ \E k \in Keys : Share(c, k) \/ Exclude(c, k)
         \/ Promote(c) \/ Release(c) \/ Remove(c)
         \/ \E d \in Data : Write(c, d)
    \/ Clear

Spec == Init /\ [][Next]_vars
=============================================================================
