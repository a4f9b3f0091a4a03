---------------------------- MODULE ContentCache ----------------------------
(***************************************************************************)
(* What the cache promises its readers, with no files, rows, reservations  *)
(* or writers: a set of keys that can be claimed; a claimed key stays      *)
(* until its last claim ends; and reading a claimed key yields its data.   *)
(***************************************************************************)
CONSTANTS Keys, Refs, Nil

VARIABLES
    avail,   \* keys whose checkpoint is published
    claim,   \* the key each claim is on
    got      \* the claim's read has returned: "data", or "nothing"

cacheVars == <<avail, claim, got>>

CInit ==
    /\ avail \in SUBSET Keys
    /\ claim = [m \in Refs |-> Nil]
    /\ got = [m \in Refs |-> "none"]

Publish(S) ==
    /\ avail' = avail \cup S
    /\ UNCHANGED <<claim, got>>

(* Only keys that nobody claims are dropped. *)
Drop(S) ==
    /\ \A m \in Refs : claim[m] \notin S
    /\ avail' = avail \ S
    /\ UNCHANGED <<claim, got>>

Claim(m, k) ==
    /\ claim[m] = Nil
    /\ k \in avail
    /\ claim' = [claim EXCEPT ![m] = k]
    /\ UNCHANGED <<avail, got>>

Read(m) ==
    /\ claim[m] \in avail
    /\ got' = [got EXCEPT ![m] = "data"]
    /\ UNCHANGED <<avail, claim>>

(* The reader dies with its claim, or gives it back. *)
Forget(m) ==
    /\ got' = [got EXCEPT ![m] = "none"]
    /\ UNCHANGED <<avail, claim>>

Release(m) ==
    /\ claim' = [claim EXCEPT ![m] = Nil]
    /\ got' = [got EXCEPT ![m] = "none"]
    /\ UNCHANGED avail

CNext ==
    \/ \E S \in SUBSET Keys : Publish(S) \/ Drop(S)
    \/ \E m \in Refs, k \in Keys : Claim(m, k)
    \/ \E m \in Refs : Read(m) \/ Forget(m) \/ Release(m)

CSpec == CInit /\ [][CNext]_cacheVars
=============================================================================
