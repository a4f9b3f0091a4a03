--------------------------- MODULE ModelDirectory ---------------------------
(***************************************************************************)
(* Where model processes are found: erllama_model_sup, which starts and    *)
(* stops them, erllama_registry, which names them, and erllama_inflight,   *)
(* which keeps the streaming requests in flight, their number and the      *)
(* decode-abort handle of each model.                                      *)
(*                                                                         *)
(* The tables are public: a model writes its own rows, in several steps,   *)
(* while others read them.  An exit signal can end a model between two of  *)
(* these steps, since erllama_model does not trap exits.                   *)
(***************************************************************************)
EXTENDS Integers, FiniteSets

CONSTANTS
    Ids,    \* model ids
    Pids,   \* model processes that can be started
    Refs,   \* streaming requests that can be made
    NoId, NoPid

ASSUME DirectoryAssumption ==
    /\ IsFiniteSet(Pids) /\ IsFiniteSet(Refs)
    /\ NoPid \notin Pids /\ NoId \notin Ids

VARIABLES
    proc,     \* the life of each process
    name,     \* the id each process was started under
    names,    \* erllama_registry: the process of each id
    handles,  \* erllama_model_abort: processes whose context is published
    rows,     \* erllama_inflight: the model of each request
    depth,    \* the counter behind queue_depth/0
    step,     \* what a running register or unregister does next
    used,     \* requests made so far
    casts,    \* monitor_model casts the in-flight server has not handled
    monitors, \* processes it monitors
    downs,    \* 'DOWN' messages it has not handled
    sweep     \* rows its 'DOWN' handler has deleted and not yet counted

nameVars == <<proc, name, names, handles>>
rowVars  == <<rows, depth, step, used>>
srvVars  == <<casts, monitors, downs, sweep>>
dirVars  == <<nameVars, rowVars, srvVars>>

DirTypeOK ==
    /\ proc \in [Pids -> {"unborn", "loading", "live", "dead"}]
    /\ name \in [Pids -> Ids \cup {NoId}]
    /\ names \in [Ids -> Pids \cup {NoPid}]
    /\ handles \subseteq Pids
    /\ rows \in [Refs -> Pids \cup {NoPid}]
    /\ depth \in Int
    /\ step \in [Pids -> {"none", "add", "cast", "sub"}]
    /\ used \subseteq Refs
    /\ casts \subseteq Pids /\ monitors \subseteq Pids /\ downs \subseteq Pids
    /\ sweep \in [pid : Pids \cup {NoPid}, n : 0 .. Cardinality(Refs)]

NoSweep == [pid |-> NoPid, n |-> 0]

DirInit ==
    /\ proc = [p \in Pids |-> "unborn"]
    /\ name = [p \in Pids |-> NoId]
    /\ names = [i \in Ids |-> NoPid]
    /\ handles = {}
    /\ rows = [r \in Refs |-> NoPid]
    /\ depth = 0
    /\ step = [p \in Pids |-> "none"]
    /\ used = {} /\ casts = {} /\ monitors = {} /\ downs = {}
    /\ sweep = NoSweep

Alive(p) == proc[p] \in {"loading", "live"}

\* The supervisor starts and stops one child at a time, and a start lasts
\* until init has returned.
SupBusy == \E p \in Pids : proc[p] = "loading"

\* Processes and references are new each time; which is next is all one.
NextPid == CHOOSE p \in Pids : proc[p] = "unborn"
NextRef == CHOOSE r \in Refs : r \notin used

\* erllama_registry:whereis_name/1: rows of dead processes are skipped.
WhereisName(i) ==
    IF names[i] # NoPid /\ Alive(names[i]) THEN names[i] ELSE NoPid

-----------------------------------------------------------------------------
(* Loading.                                                                *)

RegisterOver(i) == TRUE

\* register_name/2, in the new process: ets:insert_new.
RegisterName(i) == names[i] = NoPid

\* start_model: a process that finds its name taken, by a row of a live
\* process or of a dead one, ends at once; load_model/2 then answers
\* already_loaded and nothing has changed.
LoadModel(i, p) ==
    /\ ~SupBusy
    /\ proc[p] = "unborn" /\ p = NextPid
    /\ RegisterName(i)
    /\ proc' = [proc EXCEPT ![p] = "loading"]
    /\ name' = [name EXCEPT ![p] = i]
    /\ names' = [names EXCEPT ![i] = p]
    /\ UNCHANGED <<handles, rowVars, srvVars>>

\* init/1 succeeds and publishes the abort handle, or fails; gen then calls
\* unregister_name/1.
InitDone(p) ==
    /\ proc[p] = "loading"
    /\ \/ /\ proc' = [proc EXCEPT ![p] = "live"]
          /\ handles' = handles \cup {p}
          /\ names' = names
       \/ /\ proc' = [proc EXCEPT ![p] = "dead"]
          /\ names' = [names EXCEPT ![name[p]] = NoPid]
          /\ handles' = handles
    /\ UNCHANGED <<name, rowVars, srvVars>>

-----------------------------------------------------------------------------
(* Dying.  A monitored process sends 'DOWN' to the in-flight server.  The  *)
(* registry hears nothing: register_name/2 runs in the model, so the       *)
(* monitor it makes is the model's own, and unregister_name/1 is only      *)
(* called when init fails.                                                 *)

Dies(p) ==
    /\ proc' = [proc EXCEPT ![p] = "dead"]
    /\ downs' = IF p \in monitors THEN downs \cup {p} ELSE downs
    /\ UNCHANGED <<name, names, rowVars, casts, monitors, sweep>>

\* unload/1, stop_model/1: the supervisor's exit signal ends the process
\* where it is, without terminate/3.
Stop(p) == ~SupBusy /\ proc[p] = "live" /\ Dies(p) /\ UNCHANGED handles

\* A handler raises or stops: terminate/3 removes the handle.
Crash(p) ==
    /\ proc[p] = "live" /\ step[p] = "none"
    /\ Dies(p)
    /\ handles' = handles \ {p}

-----------------------------------------------------------------------------
(* Requests.  register/2 and unregister/1 change the table first and the   *)
(* counter after that; register/2 then asks the in-flight server to        *)
(* monitor the model.                                                      *)

Ready(p) == proc[p] = "live" /\ step[p] = "none"

Register(p, r) ==
    /\ Ready(p) /\ r \notin used /\ r = NextRef
    /\ rows' = [rows EXCEPT ![r] = p]
    /\ used' = used \cup {r}
    /\ step' = [step EXCEPT ![p] = "add"]
    /\ UNCHANGED <<depth, nameVars, srvVars>>

Unregister(p, r) ==
    /\ Ready(p) /\ rows[r] = p
    /\ rows' = [rows EXCEPT ![r] = NoPid]
    /\ step' = [step EXCEPT ![p] = "sub"]
    /\ UNCHANGED <<depth, used, nameVars, srvVars>>

\* counter_add/1
Count(p) ==
    /\ proc[p] = "live" /\ step[p] \in {"add", "sub"}
    /\ depth' = depth + (IF step[p] = "add" THEN 1 ELSE -1)
    /\ step' = [step EXCEPT ![p] = IF @ = "add" THEN "cast" ELSE "none"]
    /\ UNCHANGED <<rows, used, nameVars, srvVars>>

\* The end of register/2: cast({monitor_model, ModelPid}).
Cast(p) ==
    /\ proc[p] = "live" /\ step[p] = "cast"
    /\ casts' = casts \cup {p}
    /\ step' = [step EXCEPT ![p] = "none"]
    /\ UNCHANGED <<rows, depth, used, nameVars, monitors, downs, sweep>>

-----------------------------------------------------------------------------
(* The in-flight server.                                                   *)

MonitorLiveOnly(p) ==
    /\ sweep = NoSweep /\ p \in casts
    /\ casts' = casts \ {p}
    /\ monitors' = monitors \cup {p}
    /\ UNCHANGED <<downs, nameVars, rowVars, sweep>>

\* handle_cast({monitor_model, Pid}).  The monitor of a process that is
\* already dead fires at once.
MonitorModel(p) ==
    /\ sweep = NoSweep /\ p \in casts
    /\ casts' = casts \ {p}
    /\ monitors' = monitors \cup {p}
    /\ downs' = IF p \notin monitors /\ ~Alive(p) THEN downs \cup {p} ELSE downs
    /\ UNCHANGED <<nameVars, rowVars, sweep>>

RowsOf(p) == {r \in Refs : rows[r] = p}

\* handle_info({'DOWN', ...}): the rows go, then the counter follows and the
\* handle is deleted.  A cast that the process sent before it died comes
\* first.
HandleDown(p) ==
    /\ sweep = NoSweep /\ p \in downs /\ p \notin casts
    /\ rows' = [r \in Refs |-> IF rows[r] = p THEN NoPid ELSE rows[r]]
    /\ sweep' = [pid |-> p, n |-> Cardinality(RowsOf(p))]
    /\ downs' = downs \ {p}
    /\ UNCHANGED <<depth, step, used, casts, monitors, nameVars>>

SweepCountsOne ==
    /\ sweep # NoSweep
    /\ depth' = depth - 1
    /\ handles' = handles \ {sweep.pid}
    /\ monitors' = monitors \ {sweep.pid}
    /\ sweep' = NoSweep
    /\ UNCHANGED <<proc, name, names, rows, step, used, casts, downs>>

SweepCounts ==
    /\ sweep # NoSweep
    /\ depth' = depth - sweep.n
    /\ handles' = handles \ {sweep.pid}
    /\ monitors' = monitors \ {sweep.pid}
    /\ sweep' = NoSweep
    /\ UNCHANGED <<proc, name, names, rows, step, used, casts, downs>>

-----------------------------------------------------------------------------
ModelStep(p)  == InitDone(p) \/ Count(p) \/ Cast(p)
ServerStep(p) == MonitorModel(p) \/ HandleDown(p)

DirNext ==
    \/ \E i \in Ids, p \in Pids : LoadModel(i, p)
    \/ \E p \in Pids : Stop(p) \/ Crash(p) \/ ModelStep(p) \/ ServerStep(p)
    \/ \E p \in Pids, r \in Refs : Register(p, r) \/ Unregister(p, r)
    \/ SweepCounts

-----------------------------------------------------------------------------
(* A model that runs is the one its id finds, through loads that fail,     *)
(* unloads and crashes: whereis_name/1 never misses a live model, and no   *)
(* two live models have one id, as long as the registry itself does not    *)
(* restart, which would empty its table.                                   *)
LiveIsFound ==
    \A p \in Pids : Alive(p) => WhereisName(name[p]) = p

Occupied  == {r \in Refs : rows[r] # NoPid}
Midway(s) == {p \in Pids : step[p] = s}

(* queue_depth/0 is the number of rows, up to those who have changed a row *)
(* and not counted it yet: running register and unregister calls, a sweep, *)
(* and, for ever, a model that an unload ended between the two.            *)
DepthExact ==
    depth = Cardinality(Occupied) + sweep.n
              + Cardinality(Midway("sub")) - Cardinality(Midway("add"))

\* The in-flight server knows of the process, or will: a register/2 of it has
\* come to its end.
Known(p) == p \in casts \cup monitors

(* No row outlives its model for ever: a cancel or a count that names a    *)
(* dead model is a matter of time.  A model that an unload ends inside its *)
(* first register/2, before the cast, is the exception: nobody monitors    *)
(* it, and its row stays.                                                  *)
DeadRowsGo ==
    \A p \in Pids :
        (proc[p] = "dead" /\ (step[p] \in {"add", "cast"} => Known(p))) ~> RowsOf(p) = {}

(* The id of a model that has ended becomes free, so that the caller can   *)
(* load it again, as erllama_model_sup says of models that crash and       *)
(* load_model/2 of ids that are not in use.                                *)
EndedIdIsFreed ==
    \A p \in Pids, i \in Ids :
        (proc[p] = "dead" /\ name[p] = i) ~> names[i] # p
=============================================================================
