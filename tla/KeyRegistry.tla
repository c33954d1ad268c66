----------------------------- MODULE KeyRegistry -----------------------------
(***************************************************************************)
(* What the key store and its registration promise to a user of one or     *)
(* more key paths: a path has at most one key; the key changes only by one *)
(* atomic replacement with a key never seen before; it is never lost; and  *)
(* it is recorded as uploaded only after its own registration.             *)
(***************************************************************************)
CONSTANTS Path, Revision, NoRevision

VARIABLES
    key,            \* key[p]: the key in use at path p
    confirmed,      \* confirmed[p]: that key is recorded as uploaded
    acknowledged    \* keys whose registration the backend acknowledged

regVars == <<key, confirmed, acknowledged>>

RegInit ==
    /\ key = [p \in Path |-> NoRevision]
    /\ confirmed = [p \in Path |-> FALSE]
    /\ acknowledged = {}

Replace(p, r) ==
    /\ r \notin acknowledged
    /\ \A q \in Path : key[q] # r
    /\ key' = [key EXCEPT ![p] = r]
    /\ confirmed' = [confirmed EXCEPT ![p] = FALSE]
    /\ UNCHANGED acknowledged

Acknowledge(r) ==
    /\ acknowledged' = acknowledged \cup {r}
    /\ UNCHANGED <<key, confirmed>>

Confirm(p) ==
    /\ key[p] \in acknowledged
    /\ confirmed' = [confirmed EXCEPT ![p] = TRUE]
    /\ UNCHANGED <<key, acknowledged>>

RegNext ==
    \/ \E p \in Path, r \in Revision : Replace(p, r)
    \/ \E r \in Revision : Acknowledge(r)
    \/ \E p \in Path : Confirm(p)

RegSpec == RegInit /\ [][RegNext]_regVars
=============================================================================
