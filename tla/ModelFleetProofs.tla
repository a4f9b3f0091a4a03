-------------------------- MODULE ModelFleetProofs --------------------------
(* Proofs about the directory of models and the scheduler beside it. *)
EXTENDS ModelFleet, FiniteSetTheorems, TLAPS

(* A running process has the row of its id.                                *)
Named == \A p \in Pids : Alive(p) => name[p] \in Ids /\ names[name[p]] = p

(* A reference that has a row has been used: make_ref makes new ones.      *)
RowsUsed == \A r \in Refs : rows[r] # NoPid => r \in used

DirInv == DirTypeOK /\ Named /\ RowsUsed /\ DepthExact

(* To the directory every step of the fleet is one of its own or none: a   *)
(* model that the scheduler's evict_one unloads is stopped like any other. *)
LEMMA FleetStep ==
    ASSUME [Next]_vars
    PROVE  DirNext \/ UNCHANGED dirVars
<1>1. CASE DirStep
  BY <1>1 DEF DirStep
<1>2. CASE SchedStep
  BY <1>2 DEF SchedStep
<1>3. ASSUME CheckOnce PROVE DirNext \/ UNCHANGED dirVars
  BY <1>3 DEF CheckOnce, MaybeUnloadModel, EvictOne, NoUnload, DirNext
<1>4. CASE HandleTick \/ ForceCheck
  BY <1>3, <1>4 DEF HandleTick, ForceCheck
<1>5. CASE UNCHANGED vars
  BY <1>5 DEF vars
<1>. QED BY <1>1, <1>2, <1>4, <1>5 DEF Next

(* The sets that are counted are finite. *)
LEMMA CountedFinite ==
    /\ IsFiniteSet(Occupied) /\ Cardinality(Occupied) \in Nat
    /\ \A s : IsFiniteSet(Midway(s)) /\ Cardinality(Midway(s)) \in Nat
    /\ \A p : /\ IsFiniteSet(RowsOf(p)) /\ Cardinality(RowsOf(p)) \in Nat
              /\ Cardinality(RowsOf(p)) <= Cardinality(Refs)
    /\ Cardinality(Refs) \in Nat
<1>1. Occupied \in SUBSET Refs /\ \A p : RowsOf(p) \in SUBSET Refs
  BY DEF Occupied, RowsOf
<1>2. \A s : Midway(s) \in SUBSET Pids
  BY DEF Midway
<1>3. /\ IsFiniteSet(Occupied) /\ \A s : IsFiniteSet(Midway(s))
      /\ \A p : IsFiniteSet(RowsOf(p)) /\ Cardinality(RowsOf(p)) <= Cardinality(Refs)
  BY <1>1, <1>2, FS_Subset, DirectoryAssumption
<1>. QED BY <1>3, FS_CardinalityType, DirectoryAssumption

(* The empty tables of a new node. *)
LEMMA InitInv == DirInit => DirInv
<1>. SUFFICES ASSUME DirInit PROVE DirInv
  OBVIOUS
<1>1. DirTypeOK
  BY CountedFinite DEF DirInit, DirTypeOK, NoSweep
<1>2. Named /\ RowsUsed
  BY DEF DirInit, Named, RowsUsed, Alive
<1>3. Occupied = {} /\ Midway("sub") = {} /\ Midway("add") = {}
  BY DEF DirInit, Occupied, Midway
<1>4. DepthExact
  BY <1>3, FS_EmptySet DEF DirInit, DepthExact, NoSweep
<1>. QED BY <1>1, <1>2, <1>4 DEF DirInv

(* Types of the directory's tables. *)
LEMMA TypesKept ==
    ASSUME DirInv, DirNext
    PROVE  DirTypeOK'
<1>. USE DEF DirInv, DirTypeOK, nameVars, rowVars, srvVars
<1>1. ASSUME NEW i \in Ids, NEW p \in Pids, LoadModel(i, p) PROVE DirTypeOK'
  BY <1>1 DEF LoadModel
<1>2. ASSUME NEW p \in Pids, Stop(p) \/ Crash(p) PROVE DirTypeOK'
  BY <1>2 DEF Stop, Crash, Dies
<1>3. ASSUME NEW p \in Pids, InitDone(p) PROVE DirTypeOK'
  BY <1>3 DEF InitDone
<1>4. ASSUME NEW p \in Pids, Count(p) \/ Cast(p) PROVE DirTypeOK'
  BY <1>4 DEF Count, Cast
<1>5. ASSUME NEW p \in Pids, MonitorModel(p) PROVE DirTypeOK'
  BY <1>5 DEF MonitorModel
<1>6. ASSUME NEW p \in Pids, HandleDown(p) PROVE DirTypeOK'
  BY <1>6, CountedFinite DEF HandleDown
<1>7. ASSUME NEW p \in Pids, NEW r \in Refs, Register(p, r) \/ Unregister(p, r)
      PROVE  DirTypeOK'
  BY <1>7 DEF Register, Unregister
<1>8. CASE SweepCounts
  BY <1>8, CountedFinite DEF SweepCounts, NoSweep
<1>. QED
  BY <1>1, <1>2, <1>3, <1>4, <1>5, <1>6, <1>7, <1>8 DEF DirNext, ModelStep, ServerStep

(* Who has the name: insert_new gives it to a new process only when nobody *)
(* has it, and a failed start takes back its own.                          *)
LEMMA NamesKept ==
    ASSUME DirInv, DirNext
    PROVE  Named'
<1>. USE DEF DirInv, DirTypeOK, Named, Alive, nameVars
<1>1. ASSUME NEW i \in Ids, NEW p \in Pids, LoadModel(i, p) PROVE Named'
  BY <1>1, DirectoryAssumption DEF LoadModel, RegisterName
<1>2. ASSUME NEW p \in Pids, Stop(p) \/ Crash(p) PROVE Named'
  BY <1>2 DEF Stop, Crash, Dies
<1>3. ASSUME NEW p \in Pids, InitDone(p) PROVE Named'
  BY <1>3 DEF InitDone
<1>4. ASSUME NEW p \in Pids, Count(p) \/ Cast(p) \/ MonitorModel(p) \/ HandleDown(p)
      PROVE  Named'
  BY <1>4 DEF Count, Cast, MonitorModel, HandleDown
<1>5. ASSUME NEW p \in Pids, NEW r \in Refs, Register(p, r) \/ Unregister(p, r)
      PROVE  Named'
  BY <1>5 DEF Register, Unregister
<1>6. CASE SweepCounts
  BY <1>6 DEF SweepCounts
<1>. QED
  BY <1>1, <1>2, <1>3, <1>4, <1>5, <1>6 DEF DirNext, ModelStep, ServerStep

(* Rows come and go by their own reference. *)
LEMMA RowsKept ==
    ASSUME DirInv, DirNext
    PROVE  RowsUsed'
<1>. USE DirectoryAssumption DEF DirInv, DirTypeOK, RowsUsed, rowVars
<1>1. ASSUME NEW p \in Pids, NEW r \in Refs, Register(p, r) \/ Unregister(p, r)
      PROVE  RowsUsed'
  BY <1>1 DEF Register, Unregister
<1>2. ASSUME NEW p \in Pids, HandleDown(p) PROVE RowsUsed'
  BY <1>2 DEF HandleDown
<1>3. CASE UNCHANGED <<rows, used>>
  BY <1>3
<1>. QED
  BY <1>1, <1>2, <1>3
  DEF DirNext, ModelStep, ServerStep, LoadModel, Stop, Crash, Dies, InitDone, Count, Cast,
      MonitorModel, SweepCounts

(* The counter. *)
LEMMA DepthKept ==
    ASSUME DirInv, DirNext
    PROVE  DepthExact'
<1>. USE DirectoryAssumption DEF DirInv, DirTypeOK
<1>1. ASSUME NEW p \in Pids, NEW r \in Refs, Register(p, r) PROVE DepthExact'
  <2>1. Occupied' = Occupied \cup {r} /\ r \notin Occupied
    BY <1>1 DEF Register, Occupied, RowsUsed
  <2>2. /\ Midway("add")' = Midway("add") \cup {p} /\ p \notin Midway("add")
        /\ Midway("sub")' = Midway("sub")
    BY <1>1 DEF Register, Ready, Midway
  <2>3. /\ Cardinality(Occupied') = Cardinality(Occupied) + 1
        /\ Cardinality(Midway("add")') = Cardinality(Midway("add")) + 1
    BY <2>1, <2>2, FS_AddElement, CountedFinite
  <2>4. depth' = depth /\ sweep' = sweep
    BY <1>1 DEF Register, srvVars
  <2>. QED BY <2>2, <2>3, <2>4, CountedFinite DEF DepthExact
<1>2. ASSUME NEW p \in Pids, NEW r \in Refs, Unregister(p, r) PROVE DepthExact'
  <2>1. Occupied' = Occupied \ {r} /\ r \in Occupied
    BY <1>2 DEF Unregister, Occupied
  <2>2. /\ Midway("sub")' = Midway("sub") \cup {p} /\ p \notin Midway("sub")
        /\ Midway("add")' = Midway("add")
    BY <1>2 DEF Unregister, Ready, Midway
  <2>3. Cardinality(Occupied') = Cardinality(Occupied) - 1
    BY <2>1, FS_RemoveElement, CountedFinite
  <2>4. Cardinality(Midway("sub")') = Cardinality(Midway("sub")) + 1
    BY <2>2, FS_AddElement, CountedFinite
  <2>5. depth' = depth /\ sweep' = sweep
    BY <1>2 DEF Unregister, srvVars
  <2>. QED BY <2>2, <2>3, <2>4, <2>5, CountedFinite DEF DepthExact
<1>3. ASSUME NEW p \in Pids, Count(p) PROVE DepthExact'
  <2>1. Occupied' = Occupied /\ sweep' = sweep
    BY <1>3 DEF Count, Occupied, srvVars
  <2>2. CASE step[p] = "add"
    <3>1. /\ Midway("add")' = Midway("add") \ {p} /\ p \in Midway("add")
          /\ Midway("sub")' = Midway("sub") /\ depth' = depth + 1
      BY <1>3, <2>2 DEF Count, Midway
    <3>2. Cardinality(Midway("add")') = Cardinality(Midway("add")) - 1
      BY <3>1, FS_RemoveElement, CountedFinite
    <3>. QED BY <2>1, <3>1, <3>2, CountedFinite DEF DepthExact
  <2>3. CASE step[p] = "sub"
    <3>1. /\ Midway("sub")' = Midway("sub") \ {p} /\ p \in Midway("sub")
          /\ Midway("add")' = Midway("add") /\ depth' = depth - 1
      BY <1>3, <2>3 DEF Count, Midway
    <3>2. Cardinality(Midway("sub")') = Cardinality(Midway("sub")) - 1
      BY <3>1, FS_RemoveElement, CountedFinite
    <3>. QED BY <2>1, <3>1, <3>2, CountedFinite DEF DepthExact
  <2>. QED BY <1>3, <2>2, <2>3 DEF Count
<1>4. ASSUME NEW p \in Pids, HandleDown(p) PROVE DepthExact'
  <2>1. Occupied' = Occupied \ RowsOf(p) /\ Occupied \cap RowsOf(p) = RowsOf(p)
    BY <1>4 DEF HandleDown, Occupied, RowsOf
  <2>2. Cardinality(Occupied') = Cardinality(Occupied) - Cardinality(RowsOf(p))
    BY <2>1, FS_Difference, CountedFinite
  <2>3. /\ Midway("sub")' = Midway("sub") /\ Midway("add")' = Midway("add")
        /\ depth' = depth
    BY <1>4 DEF HandleDown, Midway
  <2>4. sweep.n = 0 /\ sweep'.n = Cardinality(RowsOf(p))
    BY <1>4 DEF HandleDown, NoSweep
  <2>. QED BY <2>2, <2>3, <2>4, CountedFinite DEF DepthExact
<1>5. CASE SweepCounts
  <2>1. /\ Occupied' = Occupied
        /\ Midway("sub")' = Midway("sub") /\ Midway("add")' = Midway("add")
    BY <1>5 DEF SweepCounts, Occupied, Midway
  <2>2. depth' = depth - sweep.n /\ sweep'.n = 0 /\ sweep.n \in Int
    BY <1>5, CountedFinite DEF SweepCounts, NoSweep
  <2>. QED BY <2>1, <2>2, CountedFinite DEF DepthExact
<1>6. CASE UNCHANGED <<rows, depth, step, sweep>>
  BY <1>6 DEF DepthExact, Occupied, Midway
<1>7. ASSUME NEW p \in Pids, Cast(p) PROVE DepthExact'
  <2>1. Midway("sub")' = Midway("sub") /\ Midway("add")' = Midway("add")
    BY <1>7 DEF Cast, Midway
  <2>2. Occupied' = Occupied /\ depth' = depth /\ sweep' = sweep
    BY <1>7 DEF Cast, Occupied
  <2>. QED BY <2>1, <2>2 DEF DepthExact
<1>. QED
  BY <1>1, <1>2, <1>3, <1>4, <1>5, <1>6, <1>7
  DEF DirNext, ModelStep, ServerStep, LoadModel, Stop, Crash, Dies, InitDone,
      MonitorModel, rowVars, srvVars

(* The inductive invariant of the directory. *)
LEMMA DirectoryInv == Spec => []DirInv
<1>1. Init => DirInv
  BY InitInv DEF Init
<1>2. DirInv /\ [Next]_vars => DirInv'
  <2>. SUFFICES ASSUME DirInv, [Next]_vars PROVE DirInv'
    OBVIOUS
  <2>1. CASE DirNext
    BY <2>1, TypesKept, NamesKept, RowsKept, DepthKept DEF DirInv
  <2>2. CASE UNCHANGED dirVars
    BY <2>2
    DEF DirInv, DirTypeOK, Named, Alive, RowsUsed, DepthExact, Occupied, Midway,
        dirVars, nameVars, rowVars, srvVars
  <2>. QED BY <2>1, <2>2, FleetStep
<1>. QED BY <1>1, <1>2, PTL DEF Spec

(* whereis_name/1 finds every running model by its id, and no two have one *)
(* id, for any number of models, through failed loads, unloads by users    *)
(* and by the scheduler, and crashes.                                      *)
THEOREM ModelsAreFound == Spec => []LiveIsFound
<1>1. DirInv => LiveIsFound
  BY DirectoryAssumption DEF DirInv, Named, LiveIsFound, WhereisName
<1>. QED BY <1>1, DirectoryInv, PTL

(* queue_depth/0 agrees with the table for any number of models and        *)
(* requests, up to the steps that have changed a row and not counted it.   *)
THEOREM DepthIsExact == Spec => []DepthExact
<1>1. DirInv => DepthExact
  BY DEF DirInv
<1>. QED BY <1>1, DirectoryInv, PTL

(* One timer at most runs, and an enabled scheduler never stops watching,  *)
(* whatever enable/1, stray ticks and restarts do.                         *)
THEOREM TimerStaysOne == Spec => [](SchedTypeOK /\ TimerChain)
<1>. DEFINE Inv == SchedTypeOK /\ TimerChain
<1>1. Init => Inv
  BY WatermarkAssumption DEF Init, SchedInit, SchedTypeOK, TimerChain
<1>2. Inv /\ [Next]_vars => Inv'
  <2>. SUFFICES ASSUME Inv, [Next]_vars PROVE Inv'
    OBVIOUS
  <2>. USE WatermarkAssumption DEF SchedTypeOK, TimerChain, timerVars
  <2>1. CASE TimerFires
    <3>1. armed /\ timers = 1
      BY <2>1 DEF TimerFires
    <3>2. ~(timers > 1)
      BY <3>1
    <3>3. timers' = 0 /\ ticks' = ticks + 1
      BY <2>1, <3>1 DEF TimerFires
    <3>4. armed' = FALSE
      BY <2>1, <3>2, Zenon DEF TimerFires
    <3>. QED BY <2>1, <3>3, <3>4 DEF TimerFires
  <2>2. ASSUME NEW on \in BOOLEAN, Enable(on) PROVE Inv'
    <3>1. CASE on
      BY <2>2, <3>1 DEF Enable, ScheduleNext
    <3>2. CASE ~on
      BY <2>2, <3>2 DEF Enable, ScheduleNext
    <3>. QED BY <3>1, <3>2
  <2>3. CASE SchedRestart
    BY <2>3 DEF SchedRestart
  <2>4. CASE Save
    BY <2>4 DEF Save
  <2>5. ASSUME CheckOnce PROVE cache' \in 0 .. grown
    <3>1. Target \in Nat
      BY DEF Target, LargerOf
    <3>2. Freed \in 0 .. cache
      BY <3>1 DEF Freed
    <3>3. cache' = cache \/ cache' = cache - Freed
      BY <2>5 DEF CheckOnce
    <3>. QED BY <3>2, <3>3
  <2>6. CASE HandleTick
    BY <2>5, <2>6 DEF HandleTick, ScheduleNext
  <2>7. CASE ForceCheck
    BY <2>5, <2>7 DEF ForceCheck
  <2>8. CASE UNCHANGED schedVars
    BY <2>8 DEF schedVars
  <2>. QED
    BY <2>1, <2>2, <2>3, <2>4, <2>6, <2>7, <2>8 DEF Next, DirStep, SchedStep, vars
<1>. QED BY <1>1, <1>2, PTL DEF Spec

(* The tables of the directory and the scheduler's state keep their types. *)
THEOREM FleetTyped == Spec => []TypeOK
<1>. DEFINE Flags == unloads \in BOOLEAN /\ declined \in BOOLEAN
<1>1. Init => Flags
  BY DEF Init
<1>2. Flags /\ [Next]_vars => Flags'
  <2>. SUFFICES ASSUME Flags, [Next]_vars PROVE Flags'
    OBVIOUS
  <2>1. CASE UNCHANGED unloadVars
    BY <2>1 DEF unloadVars
  <2>2. CASE CheckOnce
    BY <2>2 DEF CheckOnce, MaybeUnloadModel, EvictOne, NoUnload, AnyIdle
  <2>. QED BY <2>1, <2>2 DEF Next, DirStep, SchedStep, HandleTick, ForceCheck, vars
<1>3. DirInv /\ SchedTypeOK /\ TimerChain /\ Flags => TypeOK
  BY DEF DirInv, TypeOK
<1>. QED BY <1>1, <1>2, <1>3, DirectoryInv, TimerStaysOne, PTL DEF Spec
=============================================================================
