-------------------------- MODULE WriterSemaphore --------------------------
(***************************************************************************)
(* The counting semaphore of erllama_cache_writer: save/5 runs in the      *)
(* calling process between acquire and release, and a server owns the      *)
(* counter and a monitored holder per slot.  A call is two steps, the      *)
(* request and the server's handling of it, because the caller may die or  *)
(* the server may be restarted in between.                                 *)
(*                                                                         *)
(* A process acquires one slot at a time, so a holder's monitor reference  *)
(* is the process itself.  Back-off times are left out.                    *)
(***************************************************************************)
EXTENDS Naturals, FiniteSets

CONSTANTS
    Procs,      \* processes that save; a dead one is replaced by a new pid
    ConfigMax,  \* default_max_concurrent
    Maxima,     \* what set_max_concurrent may be called with
    Restarts    \* the server may crash and be restarted

ASSUME ProcsFinite == IsFiniteSet(Procs)
ASSUME MaximaType == ConfigMax \in Nat \ {0} /\ Maxima \subseteq Nat \ {0}
ASSUME RestartsType == Restarts \in BOOLEAN

VARIABLES
    running,  \* the ETS counter
    max,      \* the ETS limit
    holders,  \* the server's holders map
    pc        \* where each process is

vars == <<running, max, holders, pc>>

(* "asking" and "releasing" have a request in the server's mailbox, and so *)
(* have "asked_dead" and "released_dead", which died after sending it.     *)
(* "dead" died while saving.                                               *)
ProcPC == {"idle", "asking", "backoff", "saving", "releasing",
           "asked_dead", "released_dead", "dead"}

TypeOK ==
    /\ running \in Nat
    /\ max \in Maxima \cup {ConfigMax}
    /\ holders \in SUBSET Procs
    /\ pc \in [Procs -> ProcPC]

Init ==
    /\ running = 0
    /\ max = ConfigMax
    /\ holders = {}
    /\ pc = [p \in Procs |-> "idle"]

Goto(p, l) == pc' = [pc EXCEPT ![p] = l]

-----------------------------------------------------------------------------
(* The caller's side. *)

(* acquire, and the retry of acquire_loop after a back-off. *)
Ask(p) ==
    /\ pc[p] \in {"idle", "backoff"}
    /\ Goto(p, "asking")
    /\ UNCHANGED <<running, max, holders>>

(* check_timeout: {error, max_concurrent}. *)
GiveUp(p) ==
    /\ pc[p] = "backoff"
    /\ Goto(p, "idle")
    /\ UNCHANGED <<running, max, holders>>

(* The "after" clause of save: it runs when do_save returns or raises. *)
Release(p) ==
    /\ pc[p] = "saving"
    /\ Goto(p, "releasing")
    /\ UNCHANGED <<running, max, holders>>

(* The process is killed, or a call it makes times out and it exits. *)
Crash(p) ==
    /\ \/ pc[p] = "asking" /\ Goto(p, "asked_dead")
       \/ pc[p] = "saving" /\ Goto(p, "dead")
       \/ pc[p] = "releasing" /\ Goto(p, "released_dead")
    /\ UNCHANGED <<running, max, holders>>

-----------------------------------------------------------------------------
(* The server's side. *)

OverMax(n) == n <= max + 1
WithinMax(n) == n <= max

(* {try_acquire, Pid}.  The counter is bumped first and put back on busy.  *)
(* Monitoring a process that is already dead delivers 'DOWN'.              *)
TryAcquire(p) ==
    /\ pc[p] \in {"asking", "asked_dead"}
    /\ \/ /\ WithinMax(running + 1)
          /\ running' = running + 1
          /\ holders' = holders \cup {p}
          /\ Goto(p, IF pc[p] = "asking" THEN "saving" ELSE "dead")
       \/ /\ ~WithinMax(running + 1)
          /\ Goto(p, IF pc[p] = "asking" THEN "backoff" ELSE "idle")
          /\ UNCHANGED <<running, holders>>
    /\ UNCHANGED max

(* maps:take of the holder and decr(), which saturates at 0.  A reference  *)
(* the server does not know (it was restarted since) changes nothing.      *)
DecrementUnknown(p) ==
    /\ running' = IF running = 0 THEN 0 ELSE running - 1
    /\ holders' = holders \ {p}
TakeHolder(p) ==
    /\ running' = IF p \notin holders \/ running = 0 THEN running ELSE running - 1
    /\ holders' = holders \ {p}

(* {release, Ref}. *)
HandleRelease(p) ==
    /\ pc[p] \in {"releasing", "released_dead"}
    /\ TakeHolder(p)
    /\ Goto(p, "idle")
    /\ UNCHANGED max

(* 'DOWN' of a holder. *)
DownIgnored(p) ==
    /\ pc[p] = "dead"
    /\ Goto(p, "idle")
    /\ UNCHANGED <<running, max, holders>>
HolderDown(p) ==
    /\ pc[p] = "dead"
    /\ TakeHolder(p)
    /\ Goto(p, "idle")
    /\ UNCHANGED max

SetMaxConcurrent(n) ==
    /\ max' = n
    /\ UNCHANGED <<running, holders, pc>>

(* init after a crash: the table and the holders map are new, processes    *)
(* with a call in the mailbox exit, those that are saving go on saving.    *)
Restart ==
    /\ Restarts
    /\ running' = 0
    /\ max' = ConfigMax
    /\ holders' = {}
    /\ pc' = [p \in Procs |-> IF pc[p] \in {"saving", "backoff"} THEN pc[p] ELSE "idle"]

-----------------------------------------------------------------------------
ServerStep(p) == TryAcquire(p) \/ HandleRelease(p) \/ HolderDown(p)

Next ==
    \/ \E p \in Procs : Ask(p) \/ GiveUp(p) \/ Release(p) \/ Crash(p)
    \/ \E p \in Procs : ServerStep(p)
    \/ \E n \in Maxima : SetMaxConcurrent(n)
    \/ Restart

Spec == Init /\ [][Next]_vars

(* The server handles its mailbox and a save comes to an end. *)
FairSpec ==
    /\ Spec
    /\ \A p \in Procs : WF_vars(ServerStep(p)) /\ WF_vars(Release(p))

-----------------------------------------------------------------------------
(* The counter is the number of slots that are held, whatever order        *)
(* releases, deaths and restarts come in: decr() never counts a slot       *)
(* twice, and none leaks from the counter.                                 *)
CounterIsHolders == running = Cardinality(holders)

(* As long as set_max_concurrent does not raise it, the server never       *)
(* grants a slot over the configured limit, whatever processes die or      *)
(* release late: try_acquire puts the counter back when it is busy.        *)
SlotsBounded == Cardinality(holders) <= ConfigMax

Saving == {p \in Procs : pc[p] = "saving"}

(* configuration.md: writer_max_concurrent is the upper bound on cache     *)
(* saves written concurrently.  It holds while the server lives: a new one *)
(* counts from 0 while the processes of the old one go on saving.          *)
SavesBounded == Cardinality(Saving) <= ConfigMax

(* Leak-proof: a slot is given back, by release or by the monitor.         *)
SlotComesBack == \A p \in Procs : p \in holders ~> p \notin holders
=============================================================================
