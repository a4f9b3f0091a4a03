-------------------------- MODULE PressureScheduler --------------------------
(***************************************************************************)
(* erllama_scheduler: a server that samples memory pressure on a timer     *)
(* and, over the high watermark, frees cache bytes first and an idle model *)
(* when that was not enough.                                               *)
(*                                                                         *)
(* This module holds its timer and what one check frees from the cache;    *)
(* ModelFleet adds the memory it samples and the models it unloads.        *)
(* Bytes are in units of one cache row.                                    *)
(***************************************************************************)
EXTENDS Integers

CONSTANTS
    ConfigEnabled, \* enabled in the application environment
    Gap,           \* trunc((high_watermark - low_watermark) * Total)
    MinEvict,      \* min_evict_bytes
    MaxCalls,      \* bound: calls of enable/1 and restarts in a behaviour
    MaxGrow        \* bound: rows that are saved in a behaviour

ASSUME WatermarkAssumption ==
    /\ ConfigEnabled \in BOOLEAN
    /\ Gap \in Nat /\ MinEvict \in Nat /\ MaxCalls \in Nat /\ MaxGrow \in Nat

VARIABLES
    enabled,
    timers,   \* timers that run
    armed,    \* timer_ref names one of them
    ticks,    \* tick messages in the mailbox
    cache,    \* rows of evict_tiers that can be evicted
    calls, grown

timerVars == <<enabled, timers, armed, ticks>>
schedVars == <<timerVars, cache, calls, grown>>

SchedTypeOK ==
    /\ enabled \in BOOLEAN /\ armed \in BOOLEAN
    /\ timers \in Nat /\ ticks \in Nat
    /\ grown \in 0 .. MaxGrow /\ cache \in 0 .. grown
    /\ calls \in 0 .. MaxCalls

SchedInit ==
    /\ enabled = ConfigEnabled
    /\ armed = ConfigEnabled
    /\ timers = (IF ConfigEnabled THEN 1 ELSE 0)
    /\ ticks = 0 /\ cache = 0 /\ calls = 0 /\ grown = 0

-----------------------------------------------------------------------------
(* The timer.                                                              *)

ScheduleOver(on) ==
    /\ timers' = timers + (IF on THEN 1 ELSE 0)
    /\ armed' = on

\* schedule_next/1: cancel_timer/1 stops the timer that timer_ref names, if
\* it has not fired; a tick that it has sent stays in the mailbox.
ScheduleNext(on) ==
    /\ timers' = timers - (IF armed THEN 1 ELSE 0) + (IF on THEN 1 ELSE 0)
    /\ armed' = on

\* The newest timer is the one that timer_ref names.
TimerFires ==
    /\ timers > 0
    /\ timers' = timers - 1
    /\ armed' = (armed /\ timers > 1)
    /\ ticks' = ticks + 1
    /\ UNCHANGED <<enabled, cache, calls, grown>>

\* enable/1
Enable(on) ==
    /\ calls < MaxCalls
    /\ calls' = calls + 1
    /\ enabled' = on
    /\ ScheduleNext(on)
    /\ UNCHANGED <<ticks, cache, grown>>

\* The server dies, as when a call of a check times out, and starts again
\* from the application environment.
SchedRestart ==
    /\ calls < MaxCalls
    /\ calls' = calls + 1
    /\ enabled' = ConfigEnabled
    /\ armed' = ConfigEnabled
    /\ timers' = (IF ConfigEnabled THEN 1 ELSE 0)
    /\ ticks' = 0
    /\ UNCHANGED <<cache, grown>>

-----------------------------------------------------------------------------
(* One check.                                                              *)

LargerOf(a, b) == IF a > b THEN a ELSE b

TargetUnfloored == Gap

\* maybe_evict/4
Target == LargerOf(Gap, MinEvict)

\* evict_bytes/2 takes whole rows until the target is met or none is left.
Freed == IF cache < Target THEN cache ELSE Target

\* do_evict/3: less was freed than asked for.
Escalates == Freed < Target

\* A request saves a row.
Save ==
    /\ grown < MaxGrow
    /\ grown' = grown + 1 /\ cache' = cache + 1
    /\ UNCHANGED <<timerVars, calls>>

-----------------------------------------------------------------------------
(* There is one timer at most, and the server never stops watching while   *)
(* it is enabled: a timer runs or a tick waits, whatever enable/1, ticks   *)
(* left in the mailbox by cancel_timer/1 and restarts have done.           *)
TimerChain ==
    /\ timers = (IF armed THEN 1 ELSE 0)
    /\ enabled => armed \/ ticks > 0
    /\ ~enabled => ~armed
=============================================================================
