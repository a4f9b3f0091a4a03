----------------------------- MODULE ModelFleet -----------------------------
(***************************************************************************)
(* The models of a node under memory pressure: ModelDirectory and          *)
(* PressureScheduler share the memory that contexts and cache rows use,    *)
(* and the scheduler unloads models through the same supervisor as the     *)
(* users of the API.                                                       *)
(***************************************************************************)
EXTENDS ModelDirectory, PressureScheduler

CONSTANTS
    ModelBytes, \* what a context takes
    HighBytes   \* high_watermark * Total

ASSUME FleetAssumption == ModelBytes \in Nat \ {0} /\ HighBytes \in Nat

VARIABLES
    unloads, \* unload_models_under_pressure, with a model_evictor
    declined \* the evictor answered none to the last check, with a model idle

unloadVars == <<unloads, declined>>
vars == <<dirVars, schedVars, unloadVars>>

TypeOK == DirTypeOK /\ SchedTypeOK /\ unloads \in BOOLEAN /\ declined \in BOOLEAN

Init == DirInit /\ SchedInit /\ unloads \in BOOLEAN /\ declined = FALSE

-----------------------------------------------------------------------------
\* A context is freed when its process is gone and no handle refers to it.
HasContext(p) == Alive(p) \/ p \in handles

\* erllama_pressure:sample/1
Used == cache + ModelBytes * Cardinality({p \in Pids : HasContext(p)})

High == Used >= HighBytes

\* What a model evictor may unload: a model without a request.
Idle(p) == Ready(p) /\ RowsOf(p) = {}

AnyIdle == \E p \in Pids : Idle(p)

\* erllama_model_evictor:evict_one/1: the operator's module unloads an idle
\* model, through a supervisor that may be starting one, or answers none; so
\* does the guard around it when the module raises or answers nonsense.
EvictOne ==
    \/ /\ \E p \in Pids : Idle(p) /\ Stop(p)
       /\ declined' = FALSE
    \/ /\ UNCHANGED dirVars
       /\ declined' = AnyIdle

NoUnload == UNCHANGED dirVars /\ declined' = FALSE

\* maybe_unload_model/4
MaybeUnloadModel == IF unloads THEN EvictOne ELSE NoUnload

\* check_once/1
CheckOnce ==
    /\ \/ ~(enabled /\ High /\ Target > 0) /\ cache' = cache /\ NoUnload
       \/ /\ enabled /\ High /\ Target > 0
          /\ cache' = cache - Freed
          /\ IF Escalates THEN MaybeUnloadModel ELSE NoUnload
    /\ unloads' = unloads

\* handle_info(tick)
HandleTick ==
    /\ ticks > 0
    /\ ticks' = ticks - 1
    /\ CheckOnce
    /\ ScheduleNext(enabled)
    /\ UNCHANGED <<enabled, calls, grown>>

\* handle_call(force_check)
ForceCheck == CheckOnce /\ UNCHANGED <<timerVars, calls, grown>>

SchedStep ==
    /\ \/ TimerFires \/ Save \/ SchedRestart
       \/ \E on \in BOOLEAN : Enable(on)
    /\ UNCHANGED <<dirVars, unloadVars>>

DirStep == DirNext /\ UNCHANGED <<schedVars, unloadVars>>

Next == DirStep \/ SchedStep \/ HandleTick \/ ForceCheck

Spec == Init /\ [][Next]_vars

(* What a live model and the in-flight server have begun they go on with;  *)
(* timers fire and the scheduler reads its mailbox.                        *)
Fairness ==
    /\ \A p \in Pids :
          /\ WF_vars(ModelStep(p) /\ UNCHANGED <<schedVars, unloadVars>>)
          /\ WF_vars(ServerStep(p) /\ UNCHANGED <<schedVars, unloadVars>>)
    /\ WF_vars(SweepCounts /\ UNCHANGED <<schedVars, unloadVars>>)
    /\ WF_vars(TimerFires /\ UNCHANGED <<dirVars, unloadVars>>)
    /\ WF_vars(HandleTick)

FairSpec == Spec /\ Fairness

-----------------------------------------------------------------------------
(* What a check could still free.                                          *)
Freeable == cache > 0 \/ (unloads /\ AnyIdle)

(* Memory pressure is acted upon: while the scheduler is enabled, pressure *)
(* over the watermark does not last with a row to evict or, where the      *)
(* scheduler may unload models, an idle one.  It lasts only as long as     *)
(* the operator's evictor fails or answers none.                           *)
PressureAnswered ==
    (enabled /\ High /\ Freeable) ~> (~enabled \/ ~High \/ declined \/ ~Freeable)
=============================================================================
