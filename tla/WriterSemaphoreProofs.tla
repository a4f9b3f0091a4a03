----------------------- MODULE WriterSemaphoreProofs -----------------------
(* Proofs about the semaphore of the save pipeline. *)
EXTENDS WriterSemaphore, FiniteSetTheorems, TLAPS

SlotPhase == {"saving", "releasing", "dead", "released_dead"}

(* While the server lives, a process holds a slot exactly from the grant   *)
(* (try_acquire) to the handling of its release or of its death.           *)
SlotsAreSaves == holders = {p \in Procs : pc[p] \in SlotPhase}

(* What the counter's agreement rests on. *)
CounterInv == TypeOK /\ CounterIsHolders

(* Taking a holder out of the map and decr() keep the counter exact.       *)
(* maps:take in erllama_cache_writer guards the decrement.                 *)
LEMMA TakeHolderKeepsCount ==
    ASSUME CounterInv, NEW p \in Procs, TakeHolder(p)
    PROVE  running' \in Nat /\ holders' \in SUBSET Procs /\ running' = Cardinality(holders')
<1>1. IsFiniteSet(holders)
  BY FS_Subset, ProcsFinite DEF CounterInv, TypeOK
<1>2. Cardinality(holders) \in Nat
  BY <1>1, FS_CardinalityType
<1>3. CASE p \in holders
  <2>1. Cardinality(holders \ {p}) = Cardinality(holders) - 1
    BY <1>1, <1>3, FS_RemoveElement
  <2>2. Cardinality(holders) # 0
    BY <1>1, <1>3, FS_EmptySet
  <2>. QED BY <1>2, <1>3, <2>1, <2>2 DEF TakeHolder, CounterInv, CounterIsHolders, TypeOK
<1>4. CASE p \notin holders
  <2>1. holders \ {p} = holders
    BY <1>4
  <2>. QED BY <1>2, <1>4, <2>1 DEF TakeHolder, CounterInv, CounterIsHolders, TypeOK
<1>. QED BY <1>3, <1>4

(* A process that asks holds no slot: try_acquire adds a new holder. *)
AskersHoldNothing ==
    \A p \in Procs : p \in holders => pc[p] \in SlotPhase

(* The counter is exact in every reachable state, with any number of       *)
(* processes, any limits, and with restarts of the server.                 *)
THEOREM CounterExact == Spec => [](TypeOK /\ CounterIsHolders)
<1>. DEFINE Inv == CounterInv /\ AskersHoldNothing
<1>1. Init => Inv
  BY FS_EmptySet, MaximaType
  DEF Init, CounterInv, TypeOK, CounterIsHolders, AskersHoldNothing, ProcPC
<1>2. Inv /\ [Next]_vars => Inv'
  <2>. SUFFICES ASSUME Inv, [Next]_vars PROVE Inv'
    OBVIOUS
  <2>. USE MaximaType DEF CounterInv, AskersHoldNothing, SlotPhase
  <2>1. ASSUME NEW p \in Procs, Ask(p) \/ GiveUp(p) \/ Release(p) \/ Crash(p) PROVE Inv'
    <3>1. TypeOK' /\ AskersHoldNothing'
      BY <2>1 DEF TypeOK, Ask, GiveUp, Release, Crash, Goto, ProcPC
    <3>2. CounterIsHolders'
      BY <2>1 DEF CounterIsHolders, Ask, GiveUp, Release, Crash
    <3>. QED BY <3>1, <3>2
  <2>2. ASSUME NEW p \in Procs, TryAcquire(p) PROVE Inv'
    <3>1. CASE WithinMax(running + 1)
      <4>1. /\ running' = running + 1
            /\ holders' = holders \cup {p}
            /\ pc' = [pc EXCEPT ![p] = IF pc[p] = "asking" THEN "saving" ELSE "dead"]
            /\ max' = max
            /\ pc[p] \in {"asking", "asked_dead"}
        BY <2>2, <3>1 DEF TryAcquire, Goto
      <4>2. p \notin holders
        BY <4>1
      <4>3. IsFiniteSet(holders)
        BY FS_Subset, ProcsFinite DEF TypeOK
      <4>4. Cardinality(holders \cup {p}) = Cardinality(holders) + 1
        BY <4>2, <4>3, FS_AddElement
      <4>5. TypeOK' /\ AskersHoldNothing'
        BY <4>1 DEF TypeOK, ProcPC
      <4>. QED BY <4>1, <4>4, <4>5 DEF CounterIsHolders
    <3>2. CASE ~WithinMax(running + 1)
      <4>1. TypeOK' /\ AskersHoldNothing'
        BY <2>2, <3>2 DEF TryAcquire, Goto, TypeOK, ProcPC
      <4>2. CounterIsHolders'
        BY <2>2, <3>2 DEF TryAcquire, CounterIsHolders
      <4>. QED BY <4>1, <4>2
    <3>. QED BY <3>1, <3>2
  <2>3. ASSUME NEW p \in Procs, HandleRelease(p) \/ HolderDown(p) PROVE Inv'
    <3>1. TakeHolder(p) /\ max' = max /\ pc' = [pc EXCEPT ![p] = "idle"]
      BY <2>3 DEF HandleRelease, HolderDown, Goto
    <3>2. running' \in Nat /\ holders' \in SUBSET Procs /\ running' = Cardinality(holders')
      BY <3>1, TakeHolderKeepsCount
    <3>3. TypeOK'
      BY <3>1, <3>2 DEF TypeOK, ProcPC
    <3>4. AskersHoldNothing'
      BY <3>1 DEF TakeHolder, TypeOK
    <3>. QED BY <3>2, <3>3, <3>4 DEF CounterIsHolders
  <2>4. ASSUME NEW n \in Maxima, SetMaxConcurrent(n) PROVE Inv'
    <3>1. TypeOK' /\ AskersHoldNothing'
      BY <2>4 DEF SetMaxConcurrent, TypeOK
    <3>. QED BY <2>4, <3>1 DEF SetMaxConcurrent, CounterIsHolders
  <2>5. CASE Restart
    <3>1. TypeOK' /\ AskersHoldNothing'
      BY <2>5 DEF Restart, TypeOK, ProcPC
    <3>. QED BY <2>5, <3>1, FS_EmptySet DEF Restart, CounterIsHolders
  <2>6. CASE UNCHANGED vars
    <3>1. TypeOK' /\ AskersHoldNothing'
      BY <2>6 DEF vars, TypeOK
    <3>. QED BY <2>6, <3>1 DEF vars, CounterIsHolders
  <2>. QED BY <2>1, <2>2, <2>3, <2>4, <2>5, <2>6 DEF Next, ServerStep
<1>3. Inv => TypeOK /\ CounterIsHolders
  BY DEF CounterInv
<1>. QED BY <1>1, <1>2, <1>3, PTL DEF Spec

(* While the server is not restarted and the limit is not changed, the     *)
(* holders are the processes in a save, and no more than ConfigMax saves   *)
(* run at a time.                                                          *)
THEOREM SavesStayBounded ==
    ASSUME ~Restarts, Maxima = {}
    PROVE  Spec => [](SlotsAreSaves /\ SavesBounded)
<1>. DEFINE Inv == SlotsAreSaves /\ running <= ConfigMax
<1>. USE DEF SlotsAreSaves, SlotPhase
<1>1. Init => Inv
  BY MaximaType DEF Init
<1>2. TypeOK /\ CounterIsHolders /\ Inv /\ [Next]_vars => Inv'
  <2>. SUFFICES ASSUME TypeOK, CounterIsHolders, Inv, [Next]_vars PROVE Inv'
    OBVIOUS
  <2>. USE MaximaType
  <2>1. ASSUME NEW p \in Procs, Ask(p) \/ GiveUp(p) \/ Release(p) \/ Crash(p) PROVE Inv'
    BY <2>1 DEF TypeOK, Ask, GiveUp, Release, Crash, Goto
  <2>2. ASSUME NEW p \in Procs, TryAcquire(p) PROVE Inv'
    BY <2>2 DEF TypeOK, TryAcquire, WithinMax, Goto
  <2>3. ASSUME NEW p \in Procs, HandleRelease(p) \/ HolderDown(p) PROVE Inv'
    BY <2>3 DEF TypeOK, HandleRelease, HolderDown, TakeHolder, Goto
  <2>4. CASE UNCHANGED vars
    BY <2>4 DEF vars
  <2>. QED BY <2>1, <2>2, <2>3, <2>4 DEF Next, ServerStep, Restart
<1>3. TypeOK /\ CounterIsHolders /\ Inv => SavesBounded
  <2>. SUFFICES ASSUME TypeOK, CounterIsHolders, Inv PROVE SavesBounded
    OBVIOUS
  <2>1. IsFiniteSet(holders) /\ Saving \subseteq holders
    BY ProcsFinite, FS_Subset DEF TypeOK, Saving
  <2>2. /\ Cardinality(Saving) \in Nat /\ Cardinality(holders) \in Nat
        /\ Cardinality(Saving) <= Cardinality(holders)
    BY <2>1, FS_Subset, FS_CardinalityType
  <2>. QED BY <2>2, MaximaType DEF SavesBounded, CounterIsHolders
<1>. QED BY <1>1, <1>2, <1>3, CounterExact, PTL DEF Spec

(* As long as set_max_concurrent never raises the limit over ConfigMax,    *)
(* try_acquire never has more than ConfigMax slots out, with any number of *)
(* processes and through every restart of the server.                      *)
THEOREM SlotsStayBounded ==
    ASSUME \A n \in Maxima : n <= ConfigMax
    PROVE  Spec => []SlotsBounded
<1>. DEFINE Inv == running <= ConfigMax
<1>. USE MaximaType
<1>1. Init => Inv
  BY DEF Init
<1>2. TypeOK /\ Inv /\ [Next]_vars => Inv'
  <2>. SUFFICES ASSUME TypeOK, Inv, [Next]_vars PROVE Inv'
    OBVIOUS
  <2>1. running \in Nat /\ max \in Nat /\ max <= ConfigMax
    BY DEF TypeOK
  <2>2. ASSUME NEW p \in Procs, Ask(p) \/ GiveUp(p) \/ Release(p) \/ Crash(p) PROVE Inv'
    BY <2>2 DEF Ask, GiveUp, Release, Crash
  <2>3. ASSUME NEW p \in Procs, TryAcquire(p) PROVE Inv'
    BY <2>1, <2>3 DEF TryAcquire, WithinMax
  <2>4. ASSUME NEW p \in Procs, HandleRelease(p) \/ HolderDown(p) PROVE Inv'
    BY <2>1, <2>4 DEF HandleRelease, HolderDown, TakeHolder
  <2>5. CASE (\E n \in Maxima : SetMaxConcurrent(n)) \/ UNCHANGED vars
    BY <2>5 DEF SetMaxConcurrent, vars
  <2>6. CASE Restart
    BY <2>6 DEF Restart
  <2>. QED BY <2>2, <2>3, <2>4, <2>5, <2>6 DEF Next, ServerStep
<1>3. CounterIsHolders /\ Inv => SlotsBounded
  BY DEF CounterIsHolders, SlotsBounded
<1>. QED BY <1>1, <1>2, <1>3, CounterExact, PTL DEF Spec
=============================================================================
