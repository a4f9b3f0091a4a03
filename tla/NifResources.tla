--------------------------- MODULE NifResources ---------------------------
(***************************************************************************)
(* The native resources behind erllama_nif: one llama model and the        *)
(* contexts, LoRA adapters, multimodal projectors and samplers made from   *)
(* it, each wrapped in an ERTS resource with a mutex of its own.           *)
(*                                                                         *)
(* A thread is a scheduler that runs one NIF call or one destructor.  A    *)
(* step of a call is what it does between two lock operations.  The model  *)
(* mutex is only ever taken last and released before anything else is      *)
(* locked, so a section under it is one step.                              *)
(*                                                                         *)
(* What a call computes is left out: here it matters which native objects  *)
(* it uses, which locks it holds, and how it ends.  A call that finds its  *)
(* resource released returns an error and changes nothing; it is not       *)
(* modelled unless it already holds a lock.                                *)
(*                                                                         *)
(* A context keeps using the adapters of its last set_adapters, and no     *)
(* mutex covers that: freeing an adapter does not detach it.  What keeps   *)
(* them live is erllama_model, which frees an adapter, re-applies the rest *)
(* and decodes in one process, one after the other.  AdaptersInTurn says   *)
(* whether the callers do.                                                 *)
(***************************************************************************)
EXTENDS Integers, FiniteSets

CONSTANTS
    Threads,     \* scheduler threads
    Contexts, Adapters, Projectors, Samplers,  \* slots for resources
    Loaded,      \* the resources a model process starts with
    Addr,        \* Addr[a]: the address of an adapter's resource
    AdaptersInTurn, \* adapters are freed, re-applied and used in turn
    MaxCalls,    \* bound: calls that are not constructors or destructors
    Nobody

Borrowers == Contexts \cup Adapters \cup Projectors
Objects   == Borrowers \cup Samplers
Kinds     == {"context", "adapter", "mtmd"}
KindOf(o) == IF o \in Contexts THEN "context"
             ELSE IF o \in Adapters THEN "adapter" ELSE "mtmd"

ASSUME SlotsAssumption ==
    /\ IsFiniteSet(Contexts) /\ IsFiniteSet(Adapters)
    /\ IsFiniteSet(Projectors) /\ IsFiniteSet(Samplers) /\ IsFiniteSet(Threads)
    /\ Contexts \cap Adapters = {} /\ Contexts \cap Projectors = {}
    /\ Adapters \cap Projectors = {} /\ Borrowers \cap Samplers = {}
    /\ Loaded \subseteq Borrowers
    /\ Nobody \notin Threads \cup Objects
    /\ AdaptersInTurn \in BOOLEAN
    /\ MaxCalls \in Nat

ASSUME AddrAssumption ==
    /\ Addr \in [Adapters -> Nat]
    /\ \A a, b \in Adapters : Addr[a] = Addr[b] => a = b

VARIABLES
    model,     \* the native llama_model is live
    modelTerm, \* an Erlang term refers to the model's resource
    pending,   \* release_pending
    users,     \* active_contexts, active_adapters, active_mtmd
    made,      \* resources created so far
    gone,      \* those whose destructor has run
    native,    \* those whose native object is live
    keeps,     \* those with a keep-reference (model_res, or a sampler's ctx_res)
    terms,     \* those an Erlang term refers to
    chainOf,   \* the context a sampler was built for
    attached,  \* the adapters installed in each context (its loras)
    lock,      \* the holder of each resource's mutex
    call,      \* what each thread is doing
    abort,     \* abort_flag of each context
    deadline,  \* decode_deadline_ns: none, in the future, in the past
    cause,     \* what may interrupt the decode now running on a context
    budgeted,  \* the contexts with a decode_budget_ms that is not 0
    calls      \* calls made so far

modelVars == <<model, modelTerm, pending, users>>
refVars   == <<made, gone, native, keeps, terms, chainOf>>
objVars   == <<refVars, attached>>
abortVars == <<abort, deadline, cause, budgeted>>
vars == <<modelVars, objVars, lock, call, abortVars, calls>>

Pcs == {"idle", "sampler", "projector", "decode", "interrupted",
        "adapters", "attach", "keep", "drop", "release"}
Ops == {"none", "step", "spec", "media", "embed", "forward",
        "set_adapters", "sampler_new", "free"}

Calls == [pc : Pcs, op : Ops, obj : Objects \cup {Nobody},
          aux : Objects \cup {Nobody}, rest : SUBSET Adapters,
          set : SUBSET Adapters, hung : BOOLEAN]

Idle == [pc |-> "idle", op |-> "none", obj |-> Nobody, aux |-> Nobody,
         rest |-> {}, set |-> {}, hung |-> FALSE]

TypeOK ==
    /\ model \in BOOLEAN /\ modelTerm \in BOOLEAN /\ pending \in BOOLEAN
    /\ users \in [Kinds -> Nat]
    /\ made \subseteq Objects /\ gone \subseteq made
    /\ native \subseteq made \ gone /\ keeps \subseteq made \ gone
    /\ terms \subseteq made \ gone
    /\ chainOf \in [Samplers -> Contexts \cup {Nobody}]
    /\ attached \in [Contexts -> SUBSET Adapters]
    /\ lock \in [Objects -> Threads \cup {Nobody}]
    /\ call \in [Threads -> Calls]
    /\ abort \in [Contexts -> BOOLEAN]
    /\ deadline \in [Contexts -> {"none", "live", "past"}]
    /\ cause \in [Contexts -> SUBSET {"abort", "deadline"}]
    /\ budgeted \subseteq Contexts
    /\ calls \in 0 .. MaxCalls

\* A model process has started: load_model, new_context and mtmd_init have
\* returned their resources.
Init ==
    /\ model = TRUE /\ modelTerm = TRUE /\ pending = FALSE
    /\ users = [k \in Kinds |-> Cardinality({o \in Loaded : KindOf(o) = k})]
    /\ made = Loaded /\ native = Loaded /\ keeps = Loaded /\ terms = Loaded
    /\ gone = {}
    /\ chainOf = [s \in Samplers |-> Nobody]
    /\ attached = [c \in Contexts |-> {}]
    /\ lock = [o \in Objects |-> Nobody]
    /\ call = [t \in Threads |-> Idle]
    /\ abort = [c \in Contexts |-> FALSE]
    /\ deadline = [c \in Contexts |-> "none"]
    /\ cause = [c \in Contexts |-> {}]
    /\ budgeted \in SUBSET Contexts
    /\ calls = 0

-----------------------------------------------------------------------------
(* Locks, references and calls.                                            *)

Unlocked(o)  == lock[o] = Nobody
UnlockAll(t) == [o \in Objects |-> IF lock[o] = t THEN Nobody ELSE lock[o]]

Starts(t) == call[t].pc = "idle" /\ calls < MaxCalls /\ calls' = calls + 1
At(t, pc) == call[t].pc = pc
Goto(t, r) == call' = [call EXCEPT ![t] = r]
Return(t)  == Goto(t, Idle) /\ lock' = UnlockAll(t)

\* The resources a running call was given: its arguments are terms too.
Args(t) == IF call[t].pc \in {"idle", "drop", "release"} THEN {}
           ELSE {call[t].obj, call[t].aux} \cup call[t].set

InUse(o) == \E t \in Threads : o \in Args(t)

\* The ctx_res of a sampler keeps its context's resource.
Kept(o) == \E s \in Samplers \cap keeps : chainOf[s] = o

\* The calls that still owe the model's resource a release.
Releasing == {t \in Threads : call[t].pc \in {"drop", "release"}}

\* model_unreferenced/1.
Unreferenced(u) == u["context"] = 0 /\ u["adapter"] = 0 /\ u["mtmd"] = 0

-----------------------------------------------------------------------------
(* The model and what borrows it.                                          *)

\* nif_new_context, nif_adapter_load, nif_mtmd_init: under the model's mutex,
\* refused once the model is released or about to be.
Attach(t, o) ==
    /\ At(t, "idle") /\ modelTerm
    /\ o \in Borrowers \ made
    /\ model /\ ~pending
    /\ made' = made \cup {o} /\ native' = native \cup {o}
    /\ keeps' = keeps \cup {o} /\ terms' = terms \cup {o}
    /\ users' = [users EXCEPT ![KindOf(o)] = @ + 1]
    /\ UNCHANGED <<model, modelTerm, pending, gone, chainOf, attached, lock, call, abortVars, calls>>

FreeModelContextsOnly(t) ==
    /\ Starts(t) /\ modelTerm /\ model
    /\ IF users["context"] > 0
       THEN pending' = TRUE /\ model' = model
       ELSE pending' = FALSE /\ model' = FALSE
    /\ UNCHANGED <<modelTerm, users, objVars, lock, call, abortVars>>

\* nif_free_model: released at once, or deferred while contexts or adapters
\* hold the model.
FreeModel(t) ==
    /\ Starts(t) /\ modelTerm /\ model
    /\ IF users["context"] > 0 \/ users["adapter"] > 0
       THEN pending' = TRUE /\ model' = model
       ELSE pending' = FALSE /\ model' = FALSE
    /\ UNCHANGED <<modelTerm, users, objVars, lock, call, abortVars>>

DropOnly(t) ==
    /\ At(t, "drop")
    /\ users' = [users EXCEPT ![KindOf(call[t].obj)] = IF @ > 0 THEN @ - 1 ELSE @]
    /\ Goto(t, [call[t] EXCEPT !.pc = "release"])
    /\ UNCHANGED <<model, modelTerm, pending, objVars, lock, abortVars, calls>>

\* context_drops_model, model_drops_adapter, model_drops_mtmd: the last
\* borrower performs a deferred release.
DropModel(t) ==
    /\ At(t, "drop")
    /\ LET k == KindOf(call[t].obj)
           u == [users EXCEPT ![k] = IF @ > 0 THEN @ - 1 ELSE @]
           last == pending /\ Unreferenced(u) /\ model
       IN  /\ users' = u
           /\ model' = (model /\ ~last)
           /\ pending' = (pending /\ ~last)
    /\ Goto(t, [call[t] EXCEPT !.pc = "release"])
    /\ UNCHANGED <<modelTerm, objVars, lock, abortVars, calls>>

\* model_dtor, when the last reference to the model's resource goes.
ModelDtor(term, releasing, kept) ==
    model' = (model /\ (term \/ releasing # {} \/ kept \cap Borrowers # {}))

\* enif_release_resource(m), at the end of free_context and of a destructor.
Release(t) ==
    /\ At(t, "release")
    /\ Goto(t, Idle)
    /\ ModelDtor(modelTerm, Releasing \ {t}, keeps)
    /\ UNCHANGED <<modelTerm, pending, users, objVars, lock, abortVars, calls>>

\* The last term that refers to the model's resource is collected.
ForgetModel ==
    /\ modelTerm /\ modelTerm' = FALSE
    /\ ModelDtor(FALSE, Releasing, keeps)
    /\ UNCHANGED <<pending, users, objVars, lock, call, abortVars, calls>>

-----------------------------------------------------------------------------
(* Explicit frees and destructors.                                         *)

FreeContextKeepsModel(t, c) ==
    /\ Starts(t) /\ c \in terms
    /\ Unlocked(c) /\ c \in native
    /\ native' = native \ {c} /\ attached' = [attached EXCEPT ![c] = {}]
    /\ Goto(t, [Idle EXCEPT !.pc = "drop", !.op = "free", !.obj = c])
    /\ UNCHANGED <<modelVars, made, gone, keeps, terms, chainOf, lock, abortVars>>

\* nif_free_context: the context is freed under its own mutex, and forgets its
\* adapters; the count and the keep-reference go afterwards.
FreeContext(t, c) ==
    /\ Starts(t) /\ c \in terms
    /\ Unlocked(c) /\ c \in native
    /\ native' = native \ {c} /\ keeps' = keeps \ {c}
    /\ attached' = [attached EXCEPT ![c] = {}]
    /\ Goto(t, [Idle EXCEPT !.pc = "drop", !.op = "free", !.obj = c])
    /\ UNCHANGED <<modelVars, made, gone, terms, chainOf, lock, abortVars>>

\* A call that decodes, or has the context's mutex in order to.
InContext(u) == call[u].pc \in {"sampler", "projector", "decode", "interrupted"}

\* unload_adapter and a decode are both calls of the one model process.
NotInTurn(a) == \E u \in Threads : InContext(u) /\ a \in attached[call[u].obj]

FreeUnlocked(t, o) ==
    /\ Starts(t) /\ o \in terms \ Contexts
    /\ o \in native
    /\ AdaptersInTurn => ~NotInTurn(o)
    /\ native' = native \ {o}
    /\ UNCHANGED <<modelVars, made, gone, keeps, terms, chainOf, attached, lock, call, abortVars>>

\* nif_adapter_free, nif_mtmd_free, nif_sampler_free: the native object goes,
\* the count and the keep-reference stay until the destructor, and a context
\* that has the adapter attached keeps it.
FreeNative(t, o) ==
    /\ Starts(t) /\ o \in terms \ Contexts
    /\ Unlocked(o) /\ o \in native
    /\ AdaptersInTurn => ~NotInTurn(o)
    /\ native' = native \ {o}
    /\ UNCHANGED <<modelVars, made, gone, keeps, terms, chainOf, attached, lock, call, abortVars>>

\* ctx_dtor, adapter_dtor, mtmd_dtor, sampler_dtor: no lock, since nobody
\* else can refer to the resource.
Dtor(t, o) ==
    /\ gone' = gone \cup {o} /\ native' = native \ {o} /\ keeps' = keeps \ {o}
    /\ chainOf' = [s \in Samplers |-> IF s = o THEN Nobody ELSE chainOf[s]]
    /\ attached' = [c \in Contexts |-> IF c = o THEN {} ELSE attached[c]]
    /\ IF o \in Borrowers \cap keeps
       THEN Goto(t, [Idle EXCEPT !.pc = "drop", !.op = "free", !.obj = o])
       ELSE call' = call

\* The last term that refers to a resource is collected, and the destructor
\* runs unless a sampler keeps the resource.
Forget(t, o) ==
    /\ At(t, "idle") /\ o \in terms /\ ~InUse(o)
    /\ AdaptersInTurn => ~NotInTurn(o)
    /\ terms' = terms \ {o}
    /\ IF Kept(o) THEN UNCHANGED <<gone, native, keeps, chainOf, attached, call>> ELSE Dtor(t, o)
    /\ UNCHANGED <<modelVars, made, lock, abortVars, calls>>

\* The last sampler of a context without terms has released it.
CtxDtor(t, c) ==
    /\ At(t, "idle") /\ c \in (made \ gone) \ terms /\ ~Kept(c)
    /\ Dtor(t, c)
    /\ UNCHANGED <<modelVars, made, terms, lock, abortVars, calls>>

-----------------------------------------------------------------------------
(* Samplers and adapters.                                                  *)

\* nif_sampler_new: the chain is built under the context's mutex; the
\* keep-reference on the context follows after the unlock.
SamplerNew(t, c, s) ==
    /\ At(t, "idle") /\ c \in terms
    /\ s \in Samplers \ made /\ \A u \in Threads : call[u].aux # s
    /\ Unlocked(c) /\ c \in native
    /\ Goto(t, [Idle EXCEPT !.pc = "keep", !.op = "sampler_new", !.obj = c, !.aux = s])
    /\ UNCHANGED <<modelVars, objVars, lock, abortVars, calls>>

SamplerKeeps(t) ==
    /\ At(t, "keep")
    /\ LET s == call[t].aux IN
         /\ made' = made \cup {s} /\ native' = native \cup {s}
         /\ keeps' = keeps \cup {s} /\ terms' = terms \cup {s}
         /\ chainOf' = [chainOf EXCEPT ![s] = call[t].obj]
    /\ Goto(t, Idle)
    /\ UNCHANGED <<modelVars, gone, attached, lock, abortVars, calls>>

\* nif_set_adapters: the adapters of the list are locked in address order,
\* then the context.
SetAdapters(t, c, A) ==
    /\ Starts(t) /\ c \in terms /\ A \subseteq terms
    /\ Goto(t, [Idle EXCEPT !.pc = IF A = {} THEN "attach" ELSE "adapters",
                            !.op = "set_adapters", !.obj = c, !.rest = A, !.set = A])
    /\ UNCHANGED <<modelVars, objVars, lock, abortVars>>

AnyOrder(rest) == rest

\* adapter_entry_cmp: the order of the locks.
LockOrder(rest) == {a \in rest : \A b \in rest : Addr[a] <= Addr[b]}

LockAdapter(t) ==
    /\ At(t, "adapters")
    /\ \E a \in LockOrder(call[t].rest) :
         /\ Unlocked(a)
         /\ IF a \in native
            THEN /\ lock' = [lock EXCEPT ![a] = t]
                 /\ Goto(t, [call[t] EXCEPT
                               !.rest = @ \ {a},
                               !.pc = IF call[t].rest = {a} THEN "attach" ELSE @])
            ELSE Return(t)
    /\ UNCHANGED <<modelVars, objVars, abortVars, calls>>

\* llama_set_adapters_lora, under the context's mutex: the context keeps the
\* pointers, those of scale 0 left out, after the adapters' mutexes are given
\* back.  Nothing changes if the context is released or llama throws.
AttachAdapters(t) ==
    LET c == call[t].obj IN
    /\ At(t, "attach") /\ Unlocked(c)
    /\ \/ c \in native /\ \E A \in SUBSET call[t].set : attached' = [attached EXCEPT ![c] = A]
       \/ attached' = attached
    /\ Return(t)
    /\ UNCHANGED <<modelVars, refVars, abortVars, calls>>

-----------------------------------------------------------------------------
(* Decoding and its interrupts.                                            *)

ArmDeadlineOnly(c) ==
    /\ abort' = abort
    /\ deadline' = [deadline EXCEPT ![c] = IF c \in budgeted THEN "live" ELSE "none"]

\* arm_decode/1: a stale abort is cleared and the step's deadline set, unless
\* the context's decode_budget_ms is 0.
Arm(c) ==
    /\ abort' = [abort EXCEPT ![c] = FALSE]
    /\ deadline' = [deadline EXCEPT ![c] = IF c \in budgeted THEN "live" ELSE "none"]

\* nif_media_prefill spans several decodes: no deadline.
ArmMedia(c) ==
    /\ abort' = [abort EXCEPT ![c] = FALSE]
    /\ deadline' = [deadline EXCEPT ![c] = "none"]

\* Entering llama_decode, which may wedge.  "cause" starts afresh.
Decoding(t, op, c, x) ==
    /\ \E h \in BOOLEAN :
         Goto(t, [Idle EXCEPT !.pc = "decode", !.op = op, !.obj = c, !.aux = x, !.hung = h])
    /\ cause' = [cause EXCEPT ![c] = {}] /\ budgeted' = budgeted

\* erllama_model has re-applied the adapters since it freed one.
Ready(c) ==
    /\ Unlocked(c) /\ c \in native
    /\ AdaptersInTurn => attached[c] \subseteq native

\* nif_embed arms; nif_prefill and nif_forward_with_argmax ("forward") do not.
DecodeCall(t, op, c) ==
    /\ Starts(t) /\ c \in terms /\ op \in {"embed", "forward"}
    /\ Ready(c)
    /\ lock' = [lock EXCEPT ![c] = t]
    /\ IF op = "embed" THEN Arm(c) ELSE UNCHANGED <<abort, deadline>>
    /\ Decoding(t, op, c, Nobody)
    /\ UNCHANGED <<modelVars, objVars>>

\* nif_step and nif_spec_step lock the context, then the sampler; nif_step
\* gives the sampler back before it decodes.
StepCall(t, op, c, s) ==
    /\ Starts(t) /\ c \in terms /\ s \in terms /\ op \in {"step", "spec"}
    /\ Ready(c)
    /\ lock' = [lock EXCEPT ![c] = t]
    /\ Goto(t, [Idle EXCEPT !.pc = "sampler", !.op = op, !.obj = c, !.aux = s])
    /\ UNCHANGED <<modelVars, objVars, abortVars>>

TakeSampler(t) ==
    LET c == call[t].obj  s == call[t].aux IN
    /\ At(t, "sampler") /\ Unlocked(s)
    /\ \/ /\ s \in native
          /\ lock' = IF call[t].op = "spec" THEN [lock EXCEPT ![s] = t] ELSE lock
          /\ Arm(c)
          /\ Decoding(t, call[t].op, c, s)
       \/ /\ s \notin native
          /\ Return(t) /\ UNCHANGED abortVars
    /\ UNCHANGED <<modelVars, objVars, calls>>

MediaCall(t, c, p) ==
    /\ Starts(t) /\ c \in terms /\ p \in terms
    /\ Ready(c)
    /\ lock' = [lock EXCEPT ![c] = t]
    /\ Goto(t, [Idle EXCEPT !.pc = "projector", !.op = "media", !.obj = c, !.aux = p])
    /\ UNCHANGED <<modelVars, objVars, abortVars>>

TakeProjector(t) ==
    LET c == call[t].obj  p == call[t].aux IN
    /\ At(t, "projector") /\ Unlocked(p)
    /\ \/ /\ p \in native
          /\ lock' = [lock EXCEPT ![p] = t]
          /\ ArmMedia(c)
          /\ Decoding(t, "media", c, p)
       \/ /\ p \notin native
          /\ Return(t) /\ UNCHANGED abortVars
    /\ UNCHANGED <<modelVars, objVars, calls>>

EndDecode(c) == cause' = [cause EXCEPT ![c] = {}] /\ UNCHANGED <<abort, deadline, budgeted>>

DecodeReturns(t) ==
    /\ At(t, "decode") /\ ~call[t].hung
    /\ Return(t) /\ EndDecode(call[t].obj)
    /\ UNCHANGED <<modelVars, objVars, calls>>

\* erllama_decode_abort_cb: an abort, or a deadline that has passed, ends
\* llama_decode; classify_decode_error reports it.
DecodeInterrupted(t) ==
    LET c == call[t].obj IN
    /\ At(t, "decode") /\ (abort[c] \/ deadline[c] = "past")
    /\ Goto(t, [call[t] EXCEPT !.pc = "interrupted", !.hung = FALSE])
    /\ UNCHANGED <<modelVars, objVars, lock, abortVars, calls>>

InterruptReported(t) ==
    /\ At(t, "interrupted")
    /\ Return(t) /\ EndDecode(call[t].obj)
    /\ UNCHANGED <<modelVars, objVars, calls>>

\* What interrupts a decode that is running on a context is remembered.
Remember(c, what) ==
    IF \E t \in Threads : At(t, "decode") /\ call[t].obj = c
    THEN cause' = [cause EXCEPT ![c] = @ \cup {what}]
    ELSE cause' = cause

\* nif_request_abort, without the context's mutex.
RequestAbort(c) ==
    /\ c \in terms /\ c \in native /\ ~abort[c]
    /\ abort' = [abort EXCEPT ![c] = TRUE]
    /\ Remember(c, "abort")
    /\ UNCHANGED <<modelVars, objVars, lock, call, deadline, budgeted, calls>>

DeadlinePasses(c) ==
    /\ deadline[c] = "live"
    /\ deadline' = [deadline EXCEPT ![c] = "past"]
    /\ Remember(c, "deadline")
    /\ UNCHANGED <<modelVars, objVars, lock, call, abort, budgeted, calls>>

-----------------------------------------------------------------------------
Progress(t) ==
    \/ DropModel(t) \/ Release(t) \/ SamplerKeeps(t)
    \/ LockAdapter(t) \/ AttachAdapters(t)
    \/ TakeSampler(t) \/ TakeProjector(t)
    \/ DecodeReturns(t) \/ DecodeInterrupted(t) \/ InterruptReported(t)

Next ==
    \/ \E t \in Threads : Progress(t)
    \/ \E t \in Threads, o \in Borrowers : Attach(t, o)
    \/ \E t \in Threads : FreeModel(t)
    \/ ForgetModel
    \/ \E t \in Threads, c \in Contexts : FreeContext(t, c)
    \/ \E t \in Threads, o \in Objects : FreeNative(t, o)
    \/ \E t \in Threads, o \in Objects : Forget(t, o)
    \/ \E t \in Threads, c \in Contexts : CtxDtor(t, c)
    \/ \E t \in Threads, c \in Contexts, s \in Samplers : SamplerNew(t, c, s)
    \/ \E t \in Threads, c \in Contexts, A \in SUBSET Adapters : SetAdapters(t, c, A)
    \/ \E t \in Threads, op \in {"embed", "forward"}, c \in Contexts :
           DecodeCall(t, op, c)
    \/ \E t \in Threads, op \in {"step", "spec"}, c \in Contexts, s \in Samplers :
           StepCall(t, op, c, s)
    \/ \E t \in Threads, c \in Contexts, p \in Projectors : MediaCall(t, c, p)
    \/ \E c \in Contexts : RequestAbort(c)
    \/ \E c \in Contexts : DeadlinePasses(c)

Spec == Init /\ [][Next]_vars

(* A thread that runs a call goes on with it once the mutex it waits for   *)
(* is free, and time passes.  Nobody is assumed to abort anything.         *)
Fairness ==
    /\ \A t \in Threads : WF_vars(Progress(t))
    /\ \A c \in Contexts : WF_vars(DeadlinePasses(c))

FairSpec == Spec /\ Fairness

-----------------------------------------------------------------------------
(* Native objects a call is using under their own mutexes.                 *)
Held(t) ==
    IF call[t].pc \in {"decode", "interrupted"}
    THEN {call[t].obj} \cup (IF call[t].op \in {"spec", "media"} THEN {call[t].aux} ELSE {})
    ELSE IF call[t].pc = "attach" THEN call[t].set ELSE {}

(* Native objects a call is using: a decode also runs with the adapters    *)
(* that are attached to its context.                                       *)
Uses(t) ==
    Held(t) \cup (IF call[t].pc \in {"decode", "interrupted"}
                  THEN attached[call[t].obj] ELSE {})

(* No use after free: while a call is inside llama with a context, the     *)
(* adapters attached to it, a sampler, a projector or a list of adapters,  *)
(* none of them is freed by an explicit free or a destructor on another    *)
(* scheduler or was freed before, nor is the model.  For the attached      *)
(* adapters this rests on AdaptersInTurn, what erllama_model's one process *)
(* does; erllama_nif alone does not see to it.                             *)
UsedIsLive ==
    \A t \in Threads : Uses(t) \subseteq native /\ (Uses(t) # {} => model)

(* A context or an adapter never outlives its model, however free_model,   *)
(* free_context, adapter_free and the destructors interleave: the release  *)
(* is deferred to the last of them.                                        *)
BorrowerHasModel == (native \cap (Contexts \cup Adapters)) # {} => model

\* The borrowers the model counts: those whose keep-reference is in place and
\* those whose thread has taken it and not yet called the drop function.
Counted(k) ==
    {o \in Borrowers : KindOf(o) = k /\
        (o \in keeps \/ \E t \in Threads : call[t].pc = "drop" /\ call[t].obj = o)}

(* active_contexts, active_adapters and active_mtmd count exactly the      *)
(* resources that still owe a drop, so none is dropped twice (free_context *)
(* and then ctx_dtor) or forgotten.                                        *)
CountsExact == \A k \in Kinds : users[k] = Cardinality(Counted(k))

(* A deferred release is never stranded: while release_pending is set the  *)
(* model is live and some borrower is left whose drop will perform it.     *)
PendingHasBorrower == pending => model /\ ~Unreferenced(users)

(* A decode that arms is interrupted by what happens during it, an abort   *)
(* request or its own deadline, never by what is left over from an earlier *)
(* call.  nif_prefill and nif_forward_with_argmax do not arm.              *)
InterruptIsOwn ==
    \A t \in Threads : call[t].pc = "interrupted" /\ call[t].op # "forward"
        => cause[call[t].obj] # {}

(* A wedged decode that nothing but request_abort can end: a media         *)
(* prefill, a call that does not arm, or any call on a context whose       *)
(* decode_budget_ms is 0.                                                  *)
Wedged ==
    \E t \in Threads : /\ At(t, "decode") /\ call[t].hung
                       /\ call[t].op \in {"media", "forward"} \/ call[t].obj \notin budgeted

(* Every call returns: no cycle of mutexes, no decode that outlives the    *)
(* budget of its context, unless a decode that has no deadline stays       *)
(* wedged for ever.                                                        *)
CallsReturn == <>[]Wedged \/ \A t \in Threads : []<>At(t, "idle")
=============================================================================
