--------------------------- MODULE ModelSessions ---------------------------
(***************************************************************************)
(* The model process of erllama_model.erl: how requests are admitted to    *)
(* the sequence slots of one llama context, queued when there is none,     *)
(* stepped together by self-sent ticks, and finished; and how a sticky     *)
(* session keeps its slot between two requests.                            *)
(*                                                                         *)
(* A client makes one call at a time and always the same kind of call.     *)
(* Token lists are abstracted to lengths: what is left to prefill and what *)
(* is left to generate.  Whether a prompt extends a session's transcript,  *)
(* whether a sampler can be built and how a decode ends are choices.       *)
(*                                                                         *)
(* Every handler is one step, except the two loops at the end of a tick    *)
(* (finish_marked_reqs and dispatch_pending_admits): each iteration is a   *)
(* step, and no other handler runs while stage is not "ready".             *)
(***************************************************************************)
EXTENDS Integers, Sequences, FiniteSets, FiniteSetsExt

CONSTANTS
    Clients,         \* the processes that call the model
    Kind,            \* Kind[c]: the call client c makes
    Session,         \* Session[c]: the session_id of its requests, or NoSession
    OnFull,          \* Clients that pass on_full => error
    Sessions,        \* the session ids
    NoSession, NoSeq, NoClient,
    NSeqMax,         \* context_opts.n_seq_max
    Budget,          \* total_batch_budget
    ChunkSize,       \* policy prefill_chunk_size
    PromptMax,       \* bound: longest prompt or suffix to prefill, in tokens
    RespMax,         \* response_target of every request
    MaxTicks,        \* bound: tick casts waiting in the mailbox
    SerialFirstTurns \* callers wait for a new session's first request to end

Kinds == {"complete", "infer", "continue", "prefill_only", "media"}

ASSUME SizesAssumption ==
    /\ NSeqMax \in Nat \ {0} /\ Budget \in Nat \ {0} /\ ChunkSize \in Nat \ {0}
    /\ PromptMax \in Nat \ {0} /\ RespMax \in Nat \ {0}
    /\ MaxTicks \in Nat \ {0} /\ SerialFirstTurns \in BOOLEAN

ASSUME ClientsAssumption ==
    /\ Kind \in [Clients -> Kinds]
    /\ Session \in [Clients -> Sessions \cup {NoSession}]
    /\ OnFull \subseteq Clients
    /\ NoClient \notin Clients /\ NoSession \notin Sessions
    /\ NoSeq \notin 0 .. NSeqMax - 1
    \* erllama_opts rejects session_id together with media; continue needs one
    /\ \A c \in Clients : /\ Kind[c] = "media" => Session[c] = NoSession
                          /\ Kind[c] = "continue" => Session[c] # NoSession

Seqs == 0 .. NSeqMax - 1

VARIABLES
    mode,        \* the gen_statem's state: "idle", "running"; "stopped" once it died
    stage,       \* "ready" between handlers, "finish" and "dispatch" in a tick
    ticks,       \* tick casts in the process's mailbox
    idle,        \* idle_seq_ids as a bag: how often each seq is in the list
    table,       \* req_table: the client served on each seq, or NoClient
    pin,         \* session_seq: the seq each session keeps, or NoSeq
    pending,     \* the FIFO of queued admissions
    left,        \* tokens left in the request's prefill cursor and segments
    todo,        \* tokens left to generate before response_target
    mediaWait,   \* requests with media_state = pending
    finishing,   \* requests with finishing = true
    cancelling,  \* requests with cancel_pending = true
    registered,  \* clients with a row in the erllama_inflight table
    answer       \* what each client got from its last call

vars == <<mode, stage, ticks, idle, table, pin, pending, left, todo,
          mediaWait, finishing, cancelling, registered, answer>>

slots    == <<idle, table, pin>>
progress == <<left, todo, mediaWait, finishing, cancelling>>

Answers == {"none", "waiting", "done", "error", "busy", "full", "down", "orphaned"}

-----------------------------------------------------------------------------
(* What the handlers look at.                                              *)

InFlight(q) == table[q] # NoClient
Serving     == {q \in Seqs : InFlight(q)}
Served      == {table[q] : q \in Serving}
Queued      == {pending[i] : i \in 1 .. Len(pending)}

Streaming(c) == Kind[c] \in {"infer", "continue", "media"}

Push(bag, q) == [bag EXCEPT ![q] = @ + 1]
Pop(bag, q)  == [bag EXCEPT ![q] = @ - 1]
Unpin(p, s)  == [p EXCEPT ![s] = NoSeq]

AllPins(p) == {s \in Sessions : p[s] # NoSeq}
\* The pins a reclaim may take: those whose seq serves no request.
IdlePins(p) == {s \in Sessions : p[s] # NoSeq /\ ~InFlight(p[s])}

\* The ways to get a seq: one from the idle list, else the seq of an idle pin
\* of a session outside "keep".  (The code takes the least recently used pin.)
Alloc(p, bag, keep) ==
    LET free == {q \in Seqs : bag[q] > 0}
    IN  IF free # {}
        THEN {[pin |-> p, idle |-> Pop(bag, q), seq |-> q] : q \in free}
        ELSE {[pin |-> Unpin(p, s), idle |-> bag, seq |-> p[s]] :
                  s \in IdlePins(p) \ keep}

\* resolve_admission_seq's {normal, NewData}: no pin to reuse, or a pin whose
\* transcript the prompt diverges from, which is dropped.
Resolve(c) ==
    LET s == Session[c]
        same == [pin |-> pin, idle |-> idle]
    IN  IF s = NoSession THEN {same}
        ELSE IF pin[s] = NoSeq THEN {same}
        ELSE IF s \in IdlePins(pin)
             THEN {[pin |-> Unpin(pin, s), idle |-> Push(idle, pin[s])]}
        ELSE {}

-----------------------------------------------------------------------------
SlotsTyped ==
    /\ idle \in [Seqs -> Nat]
    /\ table \in [Seqs -> Clients \cup {NoClient}]
    /\ pin \in [Sessions -> Seqs \cup {NoSeq}]
    /\ pending \in Seq(Clients)
    /\ finishing \in SUBSET Clients /\ cancelling \in SUBSET Clients

TypeOK ==
    /\ SlotsTyped
    /\ mode \in {"idle", "running", "stopped"}
    /\ stage \in {"ready", "finish", "dispatch"}
    /\ ticks \in 0 .. MaxTicks
    /\ left \in [Clients -> 0 .. PromptMax]
    /\ todo \in [Clients -> 0 .. RespMax]
    /\ mediaWait \in SUBSET Clients /\ registered \in SUBSET Clients
    /\ answer \in [Clients -> Answers]

AllIdle   == [q \in Seqs |-> 1]
NoRequest == [q \in Seqs |-> NoClient]
NoPin     == [s \in Sessions |-> NoSeq]
Zero      == [c \in Clients |-> 0]

\* build_init_data/4.
Init ==
    /\ mode = "idle" /\ stage = "ready" /\ ticks = 0
    /\ idle = AllIdle /\ table = NoRequest /\ pin = NoPin /\ pending = <<>>
    /\ left = Zero /\ todo = Zero
    /\ mediaWait = {} /\ finishing = {} /\ cancelling = {} /\ registered = {}
    /\ answer = [c \in Clients |-> "none"]

\* The same data again, on a loaded model (reset_after_recovery/2) or a new one.
Fresh ==
    /\ mode' = "idle" /\ stage' = "ready"
    /\ idle' = AllIdle /\ table' = NoRequest /\ pin' = NoPin /\ pending' = <<>>
    /\ left' = Zero /\ todo' = Zero
    /\ mediaWait' = {} /\ finishing' = {} /\ cancelling' = {} /\ registered' = {}

Ready == stage = "ready" /\ mode # "stopped"

\* The assumption on callers: while a session has no pin yet, it has at most one
\* call outstanding.  (A second call on a pinned session is refused anyway.)
Quiet(s, but) ==
    SerialFirstTurns => \A d \in Clients \ but : Session[d] = s => answer[d] # "waiting"

MayCall(c) ==
    /\ Ready
    /\ answer[c] # "waiting"
    /\ (Session[c] # NoSession /\ pin[Session[c]] = NoSeq /\ Kind[c] # "continue")
          => Quiet(Session[c], {c})

Answered(c, a) == answer' = [answer EXCEPT ![c] = a]

-----------------------------------------------------------------------------
(* Admission.                                                              *)

\* start_request/4: the request takes seq q with n tokens to prefill; a
\* streaming request gets a ref, registered in erllama_inflight.
StartRequest(c, q, n) ==
    /\ table' = [table EXCEPT ![q] = c]
    /\ left' = [left EXCEPT ![c] = IF Kind[c] = "media" THEN 0 ELSE n]
    /\ todo' = [todo EXCEPT ![c] = RespMax]
    /\ mediaWait' = IF Kind[c] = "media" THEN mediaWait \cup {c} ELSE mediaWait
    /\ registered' = IF Streaming(c) THEN registered \cup {c} ELSE registered
    /\ UNCHANGED <<finishing, cancelling>>

\* start_admission/4, {ok, _, _}: a tick is scheduled on every admission.
ScheduleTick == ticks < MaxTicks /\ ticks' = ticks + 1

StartAdmission(c, q, n) ==
    /\ StartRequest(c, q, n)
    /\ ScheduleTick
    /\ mode' = "running"
    /\ Answered(c, "waiting")
    /\ UNCHANGED <<stage, pending>>

Refuse(c, a) ==
    /\ Answered(c, a)
    /\ UNCHANGED <<mode, stage, ticks, table, pending, progress, registered>>

\* admit/2: the session's pin is reused in place.  The suffix may be empty.
AdmitSticky(c) ==
    /\ MayCall(c) /\ Kind[c] # "continue"
    /\ Session[c] \in IdlePins(pin)
    /\ \E n \in 0 .. PromptMax : StartAdmission(c, pin[Session[c]], n)
    /\ UNCHANGED <<idle, pin>>

\* The session's seq is in flight: {error, sticky_busy} from admit/2 and from
\* admit_continue/2.
RefuseBusy(c) ==
    /\ MayCall(c) /\ Session[c] # NoSession
    /\ pin[Session[c]] # NoSeq /\ InFlight(pin[Session[c]])
    /\ Refuse(c, "busy")
    /\ UNCHANGED <<idle, pin>>

\* A sampler that cannot be built, on a pinned seq: the session keeps the seq.
\* On continue also a transcript mismatch, and a session that is not known.
RefusePinned(c) ==
    /\ MayCall(c) /\ Session[c] # NoSession
    /\ \/ Session[c] \in IdlePins(pin) /\ Kind[c] # "prefill_only"
       \/ Kind[c] = "continue" /\ pin[Session[c]] = NoSeq
    /\ Refuse(c, "error")
    /\ UNCHANGED <<idle, pin>>

\* admit_continue/2 on a pinned seq that is not in flight.
AdmitContinue(c) ==
    /\ MayCall(c) /\ Kind[c] = "continue"
    /\ Session[c] \in IdlePins(pin)
    /\ \E n \in 0 .. PromptMax : StartAdmission(c, pin[Session[c]], n)
    /\ UNCHANGED <<idle, pin>>

\* admit_normal/2 with a free seq, or one reclaimed from an idle pin.
AdmitNormal(c) ==
    /\ MayCall(c) /\ Kind[c] # "continue"
    /\ \E r \in Resolve(c) : \E a \in Alloc(r.pin, r.idle, {}) :
          /\ pin' = a.pin /\ idle' = a.idle
          /\ \E n \in 1 .. PromptMax : StartAdmission(c, a.seq, n)

AdmitFailedSeqKept(c) ==
    /\ MayCall(c) /\ Kind[c] \notin {"continue", "prefill_only"}
    /\ \E r \in Resolve(c) : \E a \in Alloc(r.pin, r.idle, {}) :
          /\ pin' = a.pin /\ idle' = a.idle
    /\ Refuse(c, "error")
\* start_admission/4, {error, _, _} in normal mode: the seq goes back to the
\* idle list; a pin dropped or reclaimed on the way stays dropped.
AdmitFailed(c) ==
    /\ MayCall(c) /\ Kind[c] \notin {"continue", "prefill_only"}
    /\ \E r \in Resolve(c) : \E a \in Alloc(r.pin, r.idle, {}) :
          /\ pin' = a.pin /\ idle' = Push(a.idle, a.seq)
    /\ Refuse(c, "error")

NoSeqFor(c) == Resolve(c) # {} /\ \A r \in Resolve(c) : Alloc(r.pin, r.idle, {}) = {}

\* admit_normal/2 when every seq is in flight and on_full is error.
RefuseFull(c) ==
    /\ MayCall(c) /\ Kind[c] # "continue" /\ c \in OnFull
    /\ NoSeqFor(c)
    /\ Refuse(c, "full")
    /\ UNCHANGED <<idle, pin>>

\* admit_normal/2 when every seq is in flight and on_full is block: enqueue.
Enqueue(c) ==
    /\ MayCall(c) /\ Kind[c] # "continue" /\ c \notin OnFull
    /\ NoSeqFor(c)
    /\ pending' = Append(pending, c)
    /\ mode' = IF Serving = {} THEN "idle" ELSE mode
    /\ Answered(c, "waiting")
    /\ UNCHANGED <<stage, ticks, slots, progress, registered>>

-----------------------------------------------------------------------------
(* The session calls and the cancel cast.                                  *)

\* drop_session/2 through end_session: a busy or unknown session is left alone.
EndSession(s) ==
    /\ Ready
    /\ s \in IdlePins(pin)
    /\ pin' = Unpin(pin, s) /\ idle' = Push(idle, pin[s])
    /\ UNCHANGED <<mode, stage, ticks, table, pending, progress, registered, answer>>

\* do_fork_session/3: copy src's seq to a new seq pinned by dst; a failed copy
\* returns the new seq to the idle list.
ForkSession(src, dst) ==
    /\ Ready /\ Quiet(dst, {})
    /\ src \in IdlePins(pin) /\ pin[dst] = NoSeq
    /\ \E a \in Alloc(pin, idle, {src}) :
          \/ pin' = [a.pin EXCEPT ![dst] = a.seq] /\ idle' = a.idle
          \/ pin' = a.pin /\ idle' = Push(a.idle, a.seq)
    /\ UNCHANGED <<mode, stage, ticks, table, pending, progress, registered, answer>>

\* The request of client c leaves req_table without a finish: it is forgotten.
Forget(cs) ==
    /\ left' = [c \in Clients |-> IF c \in cs THEN 0 ELSE left[c]]
    /\ todo' = [c \in Clients |-> IF c \in cs THEN 0 ELSE todo[c]]
    /\ mediaWait' = mediaWait \ cs
    /\ finishing' = finishing \ cs
    /\ cancelling' = cancelling \ cs

NotifyOnly(cs) ==
    /\ registered' = registered
    /\ answer' = [c \in Clients |-> IF c \in cs THEN "error" ELSE answer[c]]
\* notify_caller_error/2 and notify_failure/2: a streaming request is unregistered
\* and sent an error event, any other caller gets an error reply.
NotifyFailure(cs) ==
    /\ registered' = registered \ cs
    /\ answer' = [c \in Clients |-> IF c \in cs THEN "error" ELSE answer[c]]

\* reset_session_seq/2: fail the request on the session's seq, if any, clear
\* the seq and return it to the idle list.
ResetSession(s) ==
    /\ Ready /\ pin[s] # NoSeq
    /\ LET q == pin[s]
           failed == {table[q]} \cap Clients
       IN  /\ table' = [table EXCEPT ![q] = NoClient]
           /\ pin' = Unpin(pin, s) /\ idle' = Push(idle, q)
           /\ Forget(failed)
           /\ NotifyFailure(failed)
    /\ UNCHANGED <<mode, stage, ticks, pending>>

\* The {cancel, Ref} cast; a ref that is no longer in flight is ignored.
Cancel(c) ==
    /\ Ready /\ Streaming(c) /\ c \in Served \ cancelling
    /\ cancelling' = cancelling \cup {c}
    /\ UNCHANGED <<mode, stage, ticks, slots, pending, left, todo, mediaWait,
                   finishing, registered, answer>>

-----------------------------------------------------------------------------
(* One tick.                                                               *)

\* honour_cancellations/1 comes first: a cancelled request takes no part.
Marked  == finishing \cup cancelling
Active  == {q \in Serving : table[q] \notin Marked}

\* build_op_list/1: the rows of a tick.
DecodeRows  == {q \in Active : /\ table[q] \notin mediaWait
                               /\ left[table[q]] = 0
                               /\ Kind[table[q]] # "prefill_only"}
PrefillRows == {q \in Active : table[q] \notin mediaWait /\ left[table[q]] > 0}

DecCount == Cardinality(DecodeRows)

Least(a, b) == IF a < b THEN a ELSE b

SliceUnbudgeted(q, segment, room) ==
    IF q \in PrefillRows THEN Least(segment[q], ChunkSize) ELSE 0
SliceUncapped(q, segment, room) ==
    IF q \in PrefillRows THEN Least(room, ChunkSize) ELSE 0
\* slice_prefills/3: the rows come in seq order, each gets what the rows before
\* it left of the budget, at most ChunkSize and at most its current segment.
Slice(q, segment, room) ==
    IF q \in PrefillRows THEN Least(segment[q], Least(room, ChunkSize)) ELSE 0

Room(segment) ==
    LET room[q \in Nat] ==
            IF q = 0 THEN Budget - DecCount
            ELSE room[q - 1] - Slice(q - 1, segment, room[q - 1])
    IN  room

\* The current segment of every prefill row: the cold ladder cuts a prompt at
\* its checkpoint boundaries, so a row may end before the prompt does.
Segments == {f \in [PrefillRows -> 1 .. PromptMax] :
                 \A q \in PrefillRows : f[q] <= left[table[q]]}

Ticking == mode = "running" /\ stage = "ready" /\ ticks > 0

\* maybe_media_tick/1: the media prefill runs only for the sole active request.
MediaTurn == \E q \in Active : Active = {q} /\ table[q] \in mediaWait

\* maybe_spec_tick/1: a sole active request that has generated a token and has
\* room for a draft may be stepped speculatively.
SpecTurn == \E q \in DecodeRows :
                /\ Active = {q} /\ Kind[table[q]] # "media"
                /\ todo[table[q]] < RespMax /\ todo[table[q]] > 1

\* tick_after_step/3 begins: mark_terminal/1 ends a drained prefill_only.
Terminal(fin, rest) ==
    fin \cup {c \in Served : Kind[c] = "prefill_only" /\ rest[c] = 0}

TickMedia ==
    /\ Ticking /\ MediaTurn
    /\ ticks' = ticks - 1 /\ stage' = "finish"
    /\ mediaWait' = mediaWait \ {table[q] : q \in Active}
    /\ finishing' = Terminal(Marked, left)
    /\ UNCHANGED <<mode, slots, pending, left, todo, cancelling, registered, answer>>

\* fail_media_req/3: only the media request fails.
TickMediaFailed ==
    /\ Ticking /\ MediaTurn
    /\ ticks' = ticks - 1 /\ stage' = "finish"
    /\ LET q == CHOOSE q \in Active : TRUE
           c == table[q]
       IN  /\ table' = [table EXCEPT ![q] = NoClient]
           /\ idle' = Push(idle, q)
           /\ mediaWait' = mediaWait \ {c}
           /\ finishing' = Terminal(Marked, left) \ {c}
           /\ left' = [left EXCEPT ![c] = 0] /\ todo' = [todo EXCEPT ![c] = 0]
           /\ NotifyFailure({c})
    /\ UNCHANGED <<mode, pin, pending, cancelling>>

\* Decode rows that end: at response_target, on EOG or a stop string (ended), or
\* on a thinking token a streaming request did not enable (failed), which is
\* answered and unregistered at once.
Decoded(rows, ended, failed, rest, gen) ==
    /\ left' = rest /\ todo' = gen
    /\ finishing' = Terminal(Marked \cup ended \cup failed
                               \cup {c \in rows : gen[c] = 0}, rest)
    /\ NotifyFailure(failed)

\* step_tick_ops/1 with {ok, Results}: prefill rows advance by their slice,
\* decode rows by one token.  Without rows only the finishers are driven.
TickStep ==
    /\ Ticking /\ ~MediaTurn /\ DecCount < Budget
    /\ ticks' = ticks - 1 /\ stage' = "finish"
    /\ \E segment \in Segments :
       \E ended \in SUBSET {table[q] : q \in DecodeRows} :
       \E failed \in SUBSET {c \in ended : Streaming(c)} :
          LET room == Room(segment)
              rows == {table[q] : q \in DecodeRows}
              cut(c) == LET q == CHOOSE q \in PrefillRows : table[q] = c
                        IN  Slice(q, segment, room[q])
          IN  Decoded(rows, ended, failed,
                  [c \in Clients |-> IF \E q \in PrefillRows : table[q] = c
                                     THEN left[c] - cut(c) ELSE left[c]],
                  [c \in Clients |-> IF c \in rows THEN todo[c] - 1 ELSE todo[c]])
    /\ UNCHANGED <<mode, slots, pending, mediaWait, cancelling>>

\* run_spec_tick/3 with {ok, _}: between one token and the whole draft plus one.
TickSpec ==
    /\ Ticking /\ SpecTurn
    /\ ticks' = ticks - 1 /\ stage' = "finish"
    /\ \E c \in {table[q] : q \in DecodeRows} :
       \E n \in 1 .. Least(todo[c], Budget + 1) : \E ended \in SUBSET {c} :
          Decoded({c}, ended, {}, left, [todo EXCEPT ![c] = @ - n])
    /\ UNCHANGED <<mode, slots, pending, mediaWait, cancelling>>

\* What a step of the backend can fail: there was something to step.
Stepped ==
    /\ Ticking /\ ~MediaTurn
    /\ \/ SpecTurn
       \/ (DecodeRows \cup PrefillRows) # {} /\ DecCount < Budget

RecoverQueueUntold ==
    /\ Stepped
    /\ Fresh
    /\ ticks' = ticks - 1
    /\ answer' = [c \in Clients |-> IF c \in Served THEN "error" ELSE answer[c]]
\* recover_in_place/2 after a recoverable decode error: every request and every
\* queued call fails, the context is recreated, all sessions are dropped.
TickRecover ==
    /\ Stepped
    /\ Fresh
    /\ ticks' = ticks - 1
    /\ answer' = [c \in Clients |-> IF c \in Served \cup Queued THEN "error"
                                                                ELSE answer[c]]

\* The process ends: parked calls exit.
Stop(told, orphaned) ==
    /\ mode' = "stopped"
    /\ ticks' = 0
    /\ registered' = registered \ told
    /\ answer' = [c \in Clients |->
                     IF c \in told THEN "error"
                     ELSE IF c \in orphaned THEN "orphaned"
                     ELSE IF c \in Served \cup Queued THEN "down" ELSE answer[c]]
    /\ UNCHANGED <<stage, slots, pending, progress>>

\* Any other step error, or a context that cannot be recreated.
TickFatal ==
    /\ Stepped
    /\ \/ Stop(Served, {})
       \/ Stop(Served \cup Queued, {})

\* apply_batch_budget/2 raises: nothing is told to the streaming callers.
TickCrash ==
    /\ Ticking /\ ~MediaTurn /\ DecCount >= Budget
    /\ Stop({}, {c \in Served : Streaming(c)})

\* A tick left in the mailbox is ignored in idle.
TickIgnored ==
    /\ Ready /\ mode = "idle" /\ ticks > 0
    /\ ticks' = ticks - 1
    /\ UNCHANGED <<mode, stage, slots, pending, progress, registered, answer>>

\* One iteration of finish_marked_reqs/2: finish_req/4 answers the caller, and
\* release_or_pin_seq/2 frees the seq or pins it to the session.
FinishReq(q) ==
    /\ stage = "finish" /\ table[q] \in finishing
    /\ LET c == table[q]
           s == Session[c]
       IN  /\ table' = [table EXCEPT ![q] = NoClient]
           /\ IF s = NoSession THEN idle' = Push(idle, q) /\ pin' = pin
                               ELSE idle' = idle /\ pin' = [pin EXCEPT ![s] = q]
           /\ Forget({c})
           /\ registered' = registered \ {c}
           /\ Answered(c, IF answer[c] = "waiting" THEN "done" ELSE answer[c])
    /\ UNCHANGED <<mode, stage, ticks, pending>>

FinishedAll ==
    /\ stage = "finish" /\ Served \cap finishing = {}
    /\ stage' = "dispatch"
    /\ UNCHANGED <<mode, ticks, slots, pending, progress, registered, answer>>

FreeOnly == IF \E q \in Seqs : idle[q] > 0 THEN Alloc(pin, idle, {}) ELSE {}
\* A queued call is given a free seq or one reclaimed from an idle pin.
Dispatchable == Alloc(pin, idle, {})

\* One iteration of dispatch_pending_admits/2: the head of the queue gets a seq,
\* always in normal mode, or fails to start and is answered.
Dispatch ==
    /\ stage = "dispatch" /\ pending # <<>>
    /\ LET c == Head(pending)
       IN  \E a \in Dispatchable :
             /\ pin' = a.pin
             /\ \/ /\ idle' = a.idle
                   /\ \E n \in 1 .. PromptMax : StartRequest(c, a.seq, n)
                   /\ UNCHANGED answer
                \/ /\ Kind[c] # "prefill_only"
                   /\ idle' = Push(a.idle, a.seq)
                   /\ Answered(c, "error")
                   /\ UNCHANGED <<table, progress, registered>>
    /\ pending' = Tail(pending)
    /\ UNCHANGED <<mode, stage, ticks>>

TickEndUnarmed ==
    /\ stage = "dispatch"
    /\ pending = <<>> \/ Dispatchable = {}
    /\ stage' = "ready"
    /\ mode' = IF Serving = {} THEN "idle" ELSE mode
    /\ UNCHANGED <<ticks, slots, pending, progress, registered, answer>>
\* The end of tick_after_step/3: idle when req_table is empty, else re-arm.
TickEnd ==
    /\ stage = "dispatch"
    /\ pending = <<>> \/ Dispatchable = {}
    /\ stage' = "ready"
    /\ IF Serving = {} THEN mode' = "idle" /\ ticks' = ticks
                       ELSE mode' = mode /\ ticks' = ticks + 1
    /\ UNCHANGED <<slots, pending, progress, registered, answer>>

-----------------------------------------------------------------------------
(* The surroundings.                                                       *)

\* erllama_inflight's DOWN handler removes the rows of a dead model.
InflightDown ==
    /\ mode = "stopped" /\ registered # {}
    /\ registered' = {}
    /\ UNCHANGED <<mode, stage, ticks, slots, pending, progress, answer>>

\* The model is loaded again (the supervisor does not restart it).
Reload ==
    /\ mode = "stopped" /\ registered = {}
    /\ Fresh /\ UNCHANGED <<ticks, answer>>

Call(c) ==
    \/ AdmitSticky(c) \/ RefuseBusy(c) \/ RefusePinned(c) \/ AdmitContinue(c)
    \/ AdmitNormal(c) \/ AdmitFailed(c) \/ RefuseFull(c) \/ Enqueue(c)

Tick ==
    \/ TickMedia \/ TickMediaFailed \/ TickStep \/ TickSpec
    \/ TickRecover \/ TickFatal \/ TickCrash \/ TickIgnored

AfterStep == (\E q \in Seqs : FinishReq(q)) \/ FinishedAll \/ Dispatch \/ TickEnd

Next ==
    \/ \E c \in Clients : Call(c) \/ Cancel(c)
    \/ \E s \in Sessions : EndSession(s) \/ ResetSession(s)
    \/ \E s, t \in Sessions : ForkSession(s, t)
    \/ Tick \/ AfterStep \/ InflightDown \/ Reload

Spec == Init /\ [][Next]_vars

\* The process keeps handling its mailbox, and a handler runs to its end.
FairSpec == Spec /\ WF_vars(Tick) /\ WF_vars(AfterStep)
-----------------------------------------------------------------------------
(* Properties.                                                             *)

(***************************************************************************)
(* A seq is in one place only: at most once in idle_seq_ids, and then      *)
(* neither in flight nor pinned; pinned by at most one session; and a      *)
(* request running on a pinned seq belongs to the session that pins it.    *)
(* A seq given out twice would mix two conversations in one KV sequence.   *)
(* (admit_normal, reclaim_lru_idle_seq, release_or_pin_seq, fork, reset.)  *)
(***************************************************************************)
SeqOwnedOnce ==
    /\ \A q \in Seqs :
          /\ idle[q] <= 1
          /\ idle[q] = 1 => ~InFlight(q) /\ \A s \in Sessions : pin[s] # q
    /\ \A s, t \in Sessions : s # t /\ pin[s] # NoSeq => pin[s] # pin[t]
    /\ \A q \in Seqs, s \in Sessions :
          InFlight(q) /\ pin[s] = q => Session[table[q]] = s

(***************************************************************************)
(* No seq leaks: between two handlers every seq is idle, in flight or      *)
(* pinned, whatever failed on the way.  The process keeps no other record  *)
(* of a seq, so one that is in none of the three is lost until the context *)
(* is recreated.  Holds when the first requests of a session do not        *)
(* overlap (resolve_admission_seq's comment asks callers to serialise).    *)
(***************************************************************************)
NoSeqLost ==
    Ready => \A q \in Seqs :
                 idle[q] = 1 \/ InFlight(q) \/ \E s \in Sessions : pin[s] = q

(***************************************************************************)
(* A caller that waits for an answer is known to the process, as a request *)
(* in req_table or as an entry of the queue, once, and the process works   *)
(* for nobody else.  A caller dropped by a reset, a recovery, a failed     *)
(* start or a dispatch would wait for ever.                                *)
(***************************************************************************)
CallersTracked ==
    Ready => /\ {c \in Clients : answer[c] = "waiting"} = Served \cup Queued
             /\ Served \cap Queued = {}
             /\ Cardinality(Served) = Cardinality(Serving)
             /\ Cardinality(Queued) = Len(pending)

(***************************************************************************)
(* erllama_inflight has a row exactly for the streaming requests in        *)
(* flight: cancel/1 finds every one of them, and queue_depth/0 does not    *)
(* count one that has ended, whichever of the five ways it ended.          *)
(***************************************************************************)
InflightExact == Ready => registered = {c \in Served : Streaming(c)}

(***************************************************************************)
(* Work never stalls: when a request is in flight or queued, the process   *)
(* is in running and a tick is in its mailbox (ticks are ignored in idle,  *)
(* and nothing but a tick dispatches the queue).                           *)
(***************************************************************************)
NoStalledWork ==
    Ready /\ (Serving # {} \/ pending # <<>>) => mode = "running" /\ ticks > 0

(***************************************************************************)
(* A tick never sends the backend more rows than n_batch allows, which     *)
(* nif_step refuses with an error that stops the model: the prefill tokens *)
(* taken off the cursors plus one row per decoder fit the budget.          *)
(***************************************************************************)
BatchWithinBudget ==
    [][stage = "ready" /\ stage' = "finish" =>
          DecCount + MapThenSumSet(LAMBDA q : left[table[q]] - left'[table[q]],
                                   PrefillRows) <= Budget]_vars

(***************************************************************************)
(* Every call is answered: a request that runs ends, and one that is       *)
(* queued gets a seq, even when every seq that frees is pinned at once by  *)
(* its session, and under cancels, resets, forks and failed decodes.       *)
(***************************************************************************)
EveryCallAnswered ==
    \A c \in Clients : answer[c] = "waiting" ~> answer[c] # "waiting"

(***************************************************************************)
(* A second request on a session that is active in another request is      *)
(* refused, so no two requests of one session are ever in flight           *)
(* (internals/request-lifecycle.md and guides/examples.md).                *)
(***************************************************************************)
OneRequestPerSession ==
    \A q, r \in Serving :
        q # r /\ Session[table[q]] # NoSession => Session[table[q]] # Session[table[r]]
=============================================================================
