------------------------ MODULE NifResourcesProofs ------------------------
(***************************************************************************)
(* Proofs about NifResources, for any number of threads, contexts,         *)
(* adapters, projectors and samplers.                                      *)
(***************************************************************************)
EXTENDS NifResources, TLAPS, FiniteSetTheorems

-----------------------------------------------------------------------------
(* The inductive invariant.                                                *)

\* A sampler under construction is nobody else's and not yet made.
KeepSound ==
    /\ \A t \in Threads : call[t].pc = "keep" =>
          call[t].obj \in Contexts /\ call[t].aux \in Samplers \ made
    /\ \A t, u \in Threads :
          (call[t].pc = "keep" /\ call[u].pc = "keep" /\ t # u)
             => call[t].aux # call[u].aux

\* Who is about to drop a borrower has taken its keep-reference, alone.
DropSound ==
    /\ \A t \in Threads : call[t].pc = "drop" =>
          call[t].obj \in (Borrowers \cap made) \ keeps
    /\ \A t, u \in Threads :
          (call[t].pc = "drop" /\ call[u].pc = "drop" /\ t # u)
             => call[t].obj # call[u].obj

\* The locks, the live objects and the terms behind a running call.
HoldsAt(u) ==
    /\ call[u].pc \in {"sampler", "projector", "decode", "interrupted"} =>
          /\ call[u].obj \in Contexts \cap native \cap terms
          /\ call[u].aux \in terms \cup {Nobody}
          /\ lock[call[u].obj] = u
    /\ call[u].pc = "sampler" => call[u].op \in {"step", "spec"}
    /\ (call[u].pc \in {"decode", "interrupted"} /\ call[u].op \in {"spec", "media"}) =>
          call[u].aux \in native /\ lock[call[u].aux] = u
    /\ call[u].pc \in {"adapters", "attach"} =>
          /\ call[u].set \subseteq terms
          /\ \A a \in call[u].set \ call[u].rest : a \in native /\ lock[a] = u
    /\ call[u].pc = "attach" => call[u].rest = {}

HoldsSound == \A u \in Threads : HoldsAt(u)

\* A live context or adapter has its keep-reference, and with it its model.
NativeKept   == native \cap (Contexts \cup Adapters) \subseteq keeps
KeptHasModel == keeps \cap (Contexts \cup Adapters) # {} => model

IInv ==
    /\ TypeOK /\ KeepSound /\ DropSound /\ HoldsSound
    /\ NativeKept /\ KeptHasModel /\ CountsExact /\ PendingHasBorrower

\* The borrowers whose drop is still to come.
Owing == {o \in Borrowers : o \in keeps \/
             \E t \in Threads : call[t].pc = "drop" /\ call[t].obj = o}

-----------------------------------------------------------------------------
(* Counting.                                                               *)

(* There are finitely many slots for borrowers.                            *)
LEMMA BorrowersFinite == IsFiniteSet(Borrowers)
  <1>1. IsFiniteSet(Contexts \cup Adapters)
    BY SlotsAssumption, FS_Union
  <1> QED BY <1>1, SlotsAssumption, FS_Union DEF Borrowers

(* The counted borrowers of a kind are the owing ones of that kind, and    *)
(* finitely many.                                                          *)
LEMMA CountedOwing ==
    ASSUME NEW k \in Kinds
    PROVE  Counted(k) = {o \in Owing : KindOf(o) = k} /\ IsFiniteSet(Counted(k))
  <1>1. Counted(k) = {o \in Owing : KindOf(o) = k}
    BY DEF Counted, Owing
  <1>2. Counted(k) \subseteq Borrowers
    BY DEF Counted
  <1> QED BY <1>1, <1>2, BorrowersFinite, FS_Subset

(* A step that changes neither the counters nor who owes a drop keeps the  *)
(* counts exact.                                                           *)
LEMMA CountsFrame ==
    ASSUME CountsExact, users' = users, Owing' = Owing
    PROVE  CountsExact'
  <1>1. ASSUME NEW k \in Kinds PROVE Counted(k)' = Counted(k)
    <2>1. Counted(k) = {o \in Owing : KindOf(o) = k}
      BY <1>1 DEF Counted, Owing
    <2>2. Counted(k)' = {o \in Owing' : KindOf(o) = k}
      BY <1>1 DEF Counted, Owing
    <2> QED BY <2>1, <2>2
  <1> QED BY <1>1 DEF CountsExact

(* The kind of a borrower is a kind.                                       *)
LEMMA KindOfType == \A o \in Borrowers : KindOf(o) \in Kinds
  BY DEF KindOf, Kinds

(* A counter that is not zero has a borrower behind it.                    *)
LEMMA OwingExists ==
    ASSUME CountsExact, NEW k \in Kinds, users[k] # 0
    PROVE  \E o \in Owing : KindOf(o) = k
  <1>1. Cardinality(Counted(k)) # 0 /\ IsFiniteSet(Counted(k))
    BY CountedOwing DEF CountsExact
  <1>2. Counted(k) # {}
    BY <1>1, FS_EmptySet
  <1> QED BY <1>2, CountedOwing

(* A borrower that owes a drop is counted.                                 *)
LEMMA OwingCounted ==
    ASSUME CountsExact, TypeOK, NEW o \in Owing
    PROVE  users[KindOf(o)] > 0
  <1> DEFINE k == KindOf(o)
  <1>1. k \in Kinds
    BY KindOfType DEF Owing
  <1>2. o \in Counted(k) /\ IsFiniteSet(Counted(k))
    BY <1>1, CountedOwing
  <1>3. Cardinality(Counted(k)) # 0
    BY <1>2, FS_EmptySet
  <1>4. users[k] \in Nat /\ users[k] = Cardinality(Counted(k))
    BY <1>1 DEF CountsExact, TypeOK
  <1> QED BY <1>3, <1>4

(* The same after a step.                                                  *)
LEMMA OwingCountedNext ==
    ASSUME CountsExact', TypeOK', NEW o, o \in Owing'
    PROVE  users'[KindOf(o)] > 0
  <1> DEFINE k == KindOf(o)
  <1>1. k \in Kinds
    BY KindOfType DEF Owing
  <1>2. Counted(k)' \subseteq Borrowers /\ o \in Counted(k)'
    BY <1>1 DEF Counted, Owing
  <1>3. IsFiniteSet(Counted(k)')
    BY <1>2, FS_Subset, BorrowersFinite
  <1>4. Cardinality(Counted(k)') # 0
    BY <1>2, <1>3, FS_EmptySet
  <1>5. users'[k] \in Nat /\ users'[k] = Cardinality(Counted(k)')
    BY <1>1 DEF CountsExact, TypeOK
  <1> QED BY <1>4, <1>5

-----------------------------------------------------------------------------
(* Calls that only lock, decode and return.                                *)

(* A step of a call that moves no reference and neither starts nor ends a  *)
(* drop or the construction of a sampler leaves the references alone.      *)
LEMMA QuietStep ==
    ASSUME IInv, NEW t \in Threads, NEW r \in Calls,
           UNCHANGED <<modelVars, refVars>>,
           call' = [call EXCEPT ![t] = r],
           call[t].pc \notin {"drop", "keep"}, r.pc \notin {"drop", "keep"}
    PROVE  /\ KeepSound' /\ DropSound' /\ NativeKept' /\ KeptHasModel'
           /\ CountsExact' /\ PendingHasBorrower'
  <1>1. \A u \in Threads : call'[u] = IF u = t THEN r ELSE call[u]
    BY DEF IInv, TypeOK
  <1>2. KeepSound'
    BY <1>1 DEF IInv, KeepSound, refVars
  <1>3. DropSound'
    BY <1>1 DEF IInv, DropSound, refVars
  <1>4. NativeKept' /\ KeptHasModel' /\ PendingHasBorrower'
    BY DEF IInv, NativeKept, KeptHasModel, PendingHasBorrower, Unreferenced, refVars, modelVars
  <1>5. Owing' = Owing
    BY <1>1 DEF Owing, refVars
  <1>6. CountsExact'
    BY <1>5, CountsFrame DEF IInv, modelVars
  <1> QED BY <1>2, <1>3, <1>4, <1>6

(* The locks behind the calls of other threads stay when a step takes only *)
(* free locks and gives back only its own.                                 *)
LEMMA OthersHold ==
    ASSUME TypeOK, HoldsSound, NEW t \in Threads, NEW r,
           UNCHANGED refVars,
           call' = [call EXCEPT ![t] = r],
           \A o \in Objects : lock[o] \notin {t, Nobody} => lock'[o] = lock[o],
           HoldsAt(t)'
    PROVE  HoldsSound'
  <1> SUFFICES ASSUME NEW u \in Threads, u # t PROVE HoldsAt(u)'
    BY DEF HoldsSound
  <1>1. call'[u] = call[u]
    BY DEF TypeOK
  <1>2. u # Nobody /\ HoldsAt(u)
    BY SlotsAssumption DEF HoldsSound
  <1>3. \A o \in Objects : lock[o] = u => lock'[o] = u
    BY <1>2
  <1>4. native \subseteq Objects /\ Contexts \subseteq Objects
    BY DEF TypeOK, Objects, Borrowers
  <1> QED BY <1>1, <1>2, <1>3, <1>4 DEF HoldsAt, refVars

(* Returning gives back the thread's locks and no others.                  *)
LEMMA ReturnHolds ==
    ASSUME IInv, NEW t \in Threads, Return(t), UNCHANGED refVars
    PROVE  HoldsSound' /\ call'[t] = Idle /\ lock' \in [Objects -> Threads \cup {Nobody}]
  <1>1. call'[t] = Idle
    BY DEF Return, Goto, IInv, TypeOK
  <1>2. \A o \in Objects : lock[o] \notin {t, Nobody} => lock'[o] = lock[o]
    BY DEF Return, UnlockAll, IInv, TypeOK
  <1>3. HoldsAt(t)'
    BY <1>1 DEF HoldsAt, Idle
  <1>4. lock' \in [Objects -> Threads \cup {Nobody}]
    BY DEF Return, UnlockAll, IInv, TypeOK
  <1> QED BY <1>1, <1>2, <1>3, <1>4, OthersHold DEF Return, Goto, IInv

(* The idle call is a call.                                                *)
LEMMA IdleType == Idle \in Calls /\ Idle.pc = "idle"
  BY DEF Idle, Calls, Pcs, Ops

(* What a quiet step has to establish for the invariant.                   *)
LEMMA QuietInv ==
    ASSUME IInv, NEW t \in Threads, NEW r \in Calls,
           UNCHANGED <<modelVars, refVars>>,
           call' = [call EXCEPT ![t] = r],
           call[t].pc \notin {"drop", "keep"}, r.pc \notin {"drop", "keep"},
           attached' \in [Contexts -> SUBSET Adapters],
           lock' \in [Objects -> Threads \cup {Nobody}],
           abort' \in [Contexts -> BOOLEAN],
           deadline' \in [Contexts -> {"none", "live", "past"}],
           cause' \in [Contexts -> SUBSET {"abort", "deadline"}],
           budgeted' \subseteq Contexts,
           calls' \in 0 .. MaxCalls,
           HoldsSound'
    PROVE  IInv'
  <1>1. TypeOK'
    BY DEF IInv, TypeOK, modelVars, refVars
  <1> QED BY <1>1, QuietStep DEF IInv

(* Counting one more call keeps the bound.                                 *)
LEMMA StartsType ==
    ASSUME IInv, NEW t, Starts(t)
    PROVE  calls' \in 0 .. MaxCalls /\ call[t].pc = "idle"
  BY SlotsAssumption DEF IInv, TypeOK, Starts

(* nif_set_adapters and its locks.                                         *)
LEMMA SetAdaptersInv ==
    ASSUME IInv, NEW t \in Threads, NEW c \in Contexts, NEW A \in SUBSET Adapters,
           SetAdapters(t, c, A)
    PROVE  IInv'
  <1> DEFINE r == [Idle EXCEPT !.pc = IF A = {} THEN "attach" ELSE "adapters",
                               !.op = "set_adapters", !.obj = c, !.rest = A, !.set = A]
  <1>1. r \in Calls /\ r.pc \in {"attach", "adapters"} /\ r.set = A /\ r.rest = A
        /\ (r.pc = "attach" => A = {})
    BY DEF Idle, Calls, Pcs, Ops, Objects, Borrowers
  <1>2. call' = [call EXCEPT ![t] = r] /\ call'[t] = r
    BY DEF SetAdapters, Goto, IInv, TypeOK
  <1>3. UNCHANGED <<modelVars, objVars, lock, abortVars>> /\ A \subseteq terms /\ Starts(t)
    BY DEF SetAdapters
  <1>4. HoldsAt(t)'
    BY <1>1, <1>2, <1>3 DEF HoldsAt, objVars, refVars
  <1> HIDE DEF r
  <1>5. HoldsSound'
    BY <1>2, <1>3, <1>4, OthersHold DEF IInv, objVars
  <1> QED BY <1>1, <1>2, <1>3, <1>5, StartsType, QuietInv DEF IInv, TypeOK, objVars, abortVars

(* nif_set_adapters takes the next adapter, or gives up on a freed one.    *)
LEMMA LockAdapterInv ==
    ASSUME IInv, NEW t \in Threads, LockAdapter(t)
    PROVE  IInv'
  <1>1. PICK a \in LockOrder(call[t].rest) :
          /\ Unlocked(a)
          /\ IF a \in native
             THEN /\ lock' = [lock EXCEPT ![a] = t]
                  /\ Goto(t, [call[t] EXCEPT
                                !.rest = @ \ {a},
                                !.pc = IF call[t].rest = {a} THEN "attach" ELSE @])
             ELSE Return(t)
    BY DEF LockAdapter
  <1>2. UNCHANGED <<modelVars, objVars, abortVars, calls>> /\ call[t].pc = "adapters"
    BY DEF LockAdapter, At
  <1>3. CASE a \notin native
    <2>1. Return(t)
      BY <1>1, <1>3
    <2> QED BY <2>1, <1>2, ReturnHolds, IdleType, QuietInv
            DEF Return, Goto, IInv, TypeOK, objVars, refVars, abortVars
  <1>4. CASE a \in native
    <2> DEFINE r == [call[t] EXCEPT
                       !.rest = @ \ {a},
                       !.pc = IF call[t].rest = {a} THEN "attach" ELSE @]
    <2>1. call[t] \in Calls /\ a \in call[t].rest /\ a \in Objects
      BY <1>1, <1>4 DEF IInv, TypeOK, LockOrder
    <2>2. /\ r \in Calls /\ r.pc \in {"attach", "adapters"}
          /\ r.set = call[t].set /\ r.rest = call[t].rest \ {a}
          /\ (r.pc = "attach" => r.rest = {})
      BY <2>1, <1>2 DEF Calls, Pcs
    <2>3. call' = [call EXCEPT ![t] = r] /\ lock' = [lock EXCEPT ![a] = t]
      BY <1>1, <1>4 DEF Goto
    <2> HIDE DEF r
    <2>4. call'[t] = r /\ lock'[a] = t
          /\ \A o \in Objects : o # a => lock'[o] = lock[o]
      BY <2>1, <2>3 DEF IInv, TypeOK
    <2>5. HoldsAt(t)'
      <3>1. HoldsAt(t)
        BY DEF IInv, HoldsSound
      <3>2. call[t].set \subseteq terms
            /\ \A b \in call[t].set \ call[t].rest : b \in native /\ lock[b] = t /\ b \in Objects
        BY <3>1, <1>2 DEF HoldsAt, IInv, TypeOK
      <3>3. \A b \in call[t].set \ (call[t].rest \ {a}) : b \in native /\ lock'[b] = t
        BY <3>2, <2>4, <1>4
      <3> QED BY <3>2, <3>3, <2>2, <2>4, <1>2 DEF HoldsAt, objVars, refVars
    <2>6. \A o \in Objects : lock[o] \notin {t, Nobody} => lock'[o] = lock[o]
      BY <1>1, <2>4 DEF Unlocked
    <2>7. HoldsSound'
      BY <2>3, <2>5, <2>6, <1>2, OthersHold DEF IInv, objVars
    <2>8. lock' \in [Objects -> Threads \cup {Nobody}]
      BY <2>3, <2>1 DEF IInv, TypeOK
    <2> QED BY <2>2, <2>3, <2>7, <2>8, <1>2, QuietInv DEF IInv, TypeOK, objVars, abortVars
  <1> QED BY <1>3, <1>4

(* Every step that returns and changes nothing but the interrupt's state.  *)
LEMMA ReturningInv ==
    ASSUME IInv, NEW t \in Threads, Return(t),
           UNCHANGED <<modelVars, refVars, calls, abort, deadline, budgeted>>,
           attached' \in [Contexts -> SUBSET Adapters],
           call[t].pc \notin {"drop", "keep"},
           cause' \in [Contexts -> SUBSET {"abort", "deadline"}]
    PROVE  IInv'
  BY ReturnHolds, IdleType, QuietInv DEF Return, Goto, IInv, TypeOK

(* nif_set_adapters gives its locks back.                                  *)
LEMMA AttachAdaptersInv ==
    ASSUME IInv, NEW t \in Threads, AttachAdapters(t)
    PROVE  IInv'
  <1> DEFINE c == call[t].obj
  <1>1. call[t].set \subseteq Adapters /\ attached \in [Contexts -> SUBSET Adapters]
    BY DEF IInv, TypeOK, Calls
  <1>2. attached' \in [Contexts -> SUBSET Adapters]
    <2>1. CASE attached' = attached
      BY <2>1, <1>1
    <2>2. CASE \E A \in SUBSET call[t].set : attached' = [attached EXCEPT ![c] = A]
      BY <2>2, <1>1
    <2> QED BY <2>1, <2>2 DEF AttachAdapters
  <1> QED BY <1>2, ReturningInv DEF AttachAdapters, At, abortVars, IInv, TypeOK

(* A decode returns, or reports its interrupt.                             *)
LEMMA DecodeReturnsInv ==
    ASSUME IInv, NEW t \in Threads, DecodeReturns(t) \/ InterruptReported(t)
    PROVE  IInv'
  <1>1. cause' \in [Contexts -> SUBSET {"abort", "deadline"}]
    BY DEF DecodeReturns, InterruptReported, EndDecode, IInv, TypeOK
  <1>2. attached' \in [Contexts -> SUBSET Adapters]
    BY DEF DecodeReturns, InterruptReported, objVars, refVars, IInv, TypeOK
  <1> QED BY <1>1, <1>2, ReturningInv DEF DecodeReturns, InterruptReported, EndDecode, At, objVars, refVars

(* The abort callback ends a decode, which keeps its locks.                *)
LEMMA DecodeInterruptedInv ==
    ASSUME IInv, NEW t \in Threads, DecodeInterrupted(t)
    PROVE  IInv'
  <1> DEFINE r == [call[t] EXCEPT !.pc = "interrupted", !.hung = FALSE]
  <1>1. call[t] \in Calls /\ call[t].pc = "decode"
    BY DEF IInv, TypeOK, DecodeInterrupted, At
  <1>2. r \in Calls /\ r.pc = "interrupted" /\ r.obj = call[t].obj
        /\ r.aux = call[t].aux /\ r.op = call[t].op
    BY <1>1 DEF Calls, Pcs
  <1>3. call' = [call EXCEPT ![t] = r] /\ UNCHANGED <<modelVars, objVars, lock, abortVars, calls>>
    BY DEF DecodeInterrupted, Goto
  <1> HIDE DEF r
  <1>4. HoldsAt(t)'
    <2>1. HoldsAt(t) /\ call'[t] = r
      BY <1>3 DEF IInv, HoldsSound, TypeOK
    <2> QED BY <2>1, <1>1, <1>2, <1>3 DEF HoldsAt, objVars, refVars
  <1>5. HoldsSound'
    BY <1>3, <1>4, OthersHold DEF IInv, objVars
  <1> QED BY <1>1, <1>2, <1>3, <1>5, QuietInv DEF IInv, TypeOK, objVars, abortVars

(* Taking a context's mutex to start a call.                               *)
LEMMA ContextCallInv ==
    ASSUME IInv, NEW t \in Threads, NEW c \in Contexts, NEW r \in Calls, Starts(t),
           c \in terms, Unlocked(c), c \in native,
           lock' = [lock EXCEPT ![c] = t],
           call' = [call EXCEPT ![t] = r],
           r.obj = c, r.aux \in terms \cup {Nobody},
           \/ r.pc = "decode" /\ r.op \notin {"spec", "media"}
           \/ r.pc = "sampler" /\ r.op \in {"step", "spec"}
           \/ r.pc = "projector",
           UNCHANGED <<modelVars, objVars, budgeted>>,
           abort' \in [Contexts -> BOOLEAN],
           deadline' \in [Contexts -> {"none", "live", "past"}],
           cause' \in [Contexts -> SUBSET {"abort", "deadline"}]
    PROVE  IInv'
  <1>1. c \in Objects
    BY DEF Objects, Borrowers
  <1>2. call'[t] = r /\ lock'[c] = t /\ \A o \in Objects : o # c => lock'[o] = lock[o]
    BY <1>1 DEF IInv, TypeOK
  <1>3. HoldsAt(t)'
    BY <1>2 DEF HoldsAt, objVars, refVars
  <1>4. HoldsSound'
    BY <1>2, <1>3, OthersHold DEF IInv, Unlocked, objVars
  <1>5. lock' \in [Objects -> Threads \cup {Nobody}]
    BY <1>1 DEF IInv, TypeOK
  <1> QED BY <1>4, <1>5, StartsType, QuietInv DEF objVars, IInv, TypeOK

(* Arming a decode keeps the types of the flags.                           *)
LEMMA ArmType ==
    ASSUME IInv, NEW c \in Contexts,
           Arm(c) \/ ArmMedia(c) \/ UNCHANGED <<abort, deadline>>
    PROVE  /\ abort' \in [Contexts -> BOOLEAN]
           /\ deadline' \in [Contexts -> {"none", "live", "past"}]
  <1>1. CASE Arm(c)
    BY <1>1 DEF Arm, IInv, TypeOK
  <1>2. CASE ArmMedia(c)
    BY <1>2 DEF ArmMedia, IInv, TypeOK
  <1>3. CASE UNCHANGED <<abort, deadline>>
    BY <1>3 DEF IInv, TypeOK
  <1> QED BY <1>1, <1>2, <1>3

(* The state of a call that enters llama_decode.                           *)
LEMMA DecodingCall ==
    ASSUME IInv, NEW t \in Threads, NEW op \in Ops, NEW c \in Contexts,
           NEW x \in Objects \cup {Nobody}, Decoding(t, op, c, x)
    PROVE  /\ cause' \in [Contexts -> SUBSET {"abort", "deadline"}]
           /\ \E r \in Calls : /\ call' = [call EXCEPT ![t] = r]
                               /\ r.pc = "decode" /\ r.op = op /\ r.obj = c /\ r.aux = x
  <1>1. PICK h \in BOOLEAN :
          Goto(t, [Idle EXCEPT !.pc = "decode", !.op = op, !.obj = c, !.aux = x, !.hung = h])
    BY DEF Decoding
  <1> DEFINE r == [Idle EXCEPT !.pc = "decode", !.op = op, !.obj = c, !.aux = x, !.hung = h]
  <1>2. r \in Calls /\ r.pc = "decode" /\ r.op = op /\ r.obj = c /\ r.aux = x
    BY DEF Idle, Calls, Pcs, Objects, Borrowers
  <1>3. call' = [call EXCEPT ![t] = r]
    BY <1>1 DEF Goto
  <1> HIDE DEF r
  <1>4. cause' \in [Contexts -> SUBSET {"abort", "deadline"}]
    BY DEF Decoding, IInv, TypeOK
  <1> QED BY <1>2, <1>3, <1>4

(* A decode that needs its context only.                                   *)
LEMMA DecodeCallInv ==
    ASSUME IInv, NEW t \in Threads, NEW op \in {"embed", "forward"}, NEW c \in Contexts,
           DecodeCall(t, op, c)
    PROVE  IInv'
  <1>1. op \in Ops /\ op \notin {"spec", "media"}
    BY DEF Ops
  <1>2. Decoding(t, op, c, Nobody)
    BY DEF DecodeCall
  <1>3. PICK r \in Calls : /\ call' = [call EXCEPT ![t] = r]
                           /\ r.pc = "decode" /\ r.op = op /\ r.obj = c /\ r.aux = Nobody
    BY <1>1, <1>2, DecodingCall
  <1>4. cause' \in [Contexts -> SUBSET {"abort", "deadline"}]
    BY <1>1, <1>2, DecodingCall
  <1>5. Arm(c) \/ UNCHANGED <<abort, deadline>>
    BY DEF DecodeCall
  <1>6. abort' \in [Contexts -> BOOLEAN] /\ deadline' \in [Contexts -> {"none", "live", "past"}]
    BY <1>5, ArmType
  <1> QED BY <1>1, <1>3, <1>4, <1>6, ContextCallInv DEF DecodeCall, Ready, Decoding, IInv, TypeOK

(* nif_step and nif_spec_step lock their context.                          *)
LEMMA StepCallInv ==
    ASSUME IInv, NEW t \in Threads, NEW op \in {"step", "spec"}, NEW c \in Contexts,
           NEW s \in Samplers, StepCall(t, op, c, s)
    PROVE  IInv'
  <1> DEFINE r == [Idle EXCEPT !.pc = "sampler", !.op = op, !.obj = c, !.aux = s]
  <1>1. r \in Calls /\ r.pc = "sampler" /\ r.op = op /\ r.obj = c /\ r.aux = s
    BY DEF Idle, Calls, Pcs, Ops, Objects, Borrowers
  <1>2. call' = [call EXCEPT ![t] = r]
    BY DEF StepCall, Goto
  <1> HIDE DEF r
  <1> QED BY <1>1, <1>2, ContextCallInv DEF StepCall, Ready, abortVars, IInv, TypeOK

(* nif_media_prefill locks its context.                                    *)
LEMMA MediaCallInv ==
    ASSUME IInv, NEW t \in Threads, NEW c \in Contexts, NEW p \in Projectors,
           MediaCall(t, c, p)
    PROVE  IInv'
  <1> DEFINE r == [Idle EXCEPT !.pc = "projector", !.op = "media", !.obj = c, !.aux = p]
  <1>1. r \in Calls /\ r.pc = "projector" /\ r.op = "media" /\ r.obj = c /\ r.aux = p
    BY DEF Idle, Calls, Pcs, Ops, Objects, Borrowers
  <1>2. call' = [call EXCEPT ![t] = r]
    BY DEF MediaCall, Goto
  <1> HIDE DEF r
  <1> QED BY <1>1, <1>2, ContextCallInv DEF MediaCall, Ready, abortVars, IInv, TypeOK

(* Taking the second mutex of a call and decoding.                         *)
LEMMA SecondLockInv ==
    ASSUME IInv, NEW t \in Threads, NEW r \in Calls,
           call[t].pc \in {"sampler", "projector"},
           call[t].aux \in native, Unlocked(call[t].aux),
           call' = [call EXCEPT ![t] = r],
           r.pc = "decode", r.obj = call[t].obj, r.aux = call[t].aux,
           \/ lock' = [lock EXCEPT ![call[t].aux] = t]
           \/ lock' = lock /\ r.op \notin {"spec", "media"},
           UNCHANGED <<modelVars, objVars, budgeted, calls>>,
           abort' \in [Contexts -> BOOLEAN],
           deadline' \in [Contexts -> {"none", "live", "past"}],
           cause' \in [Contexts -> SUBSET {"abort", "deadline"}]
    PROVE  IInv'
  <1> DEFINE c == call[t].obj
             s == call[t].aux
  <1>1. c \in Contexts /\ c \in native /\ c \in terms /\ lock[c] = t /\ s \in terms \cup {Nobody}
    BY DEF IInv, HoldsSound, HoldsAt
  <1>2. c \in Objects /\ s \in Objects /\ t # Nobody
    BY <1>1, SlotsAssumption DEF Objects, Borrowers, IInv, TypeOK
  <1>3. call'[t] = r /\ lock'[c] = t /\ (r.op \in {"spec", "media"} => lock'[s] = t)
        /\ \A o \in Objects : o # s => lock'[o] = lock[o]
    BY <1>1, <1>2 DEF IInv, TypeOK
  <1>4. HoldsAt(t)'
    BY <1>1, <1>3 DEF HoldsAt, objVars, refVars
  <1>5. \A o \in Objects : lock[o] \notin {t, Nobody} => lock'[o] = lock[o]
    BY <1>3 DEF Unlocked
  <1>6. HoldsSound'
    BY <1>4, <1>5, OthersHold DEF IInv, objVars
  <1>7. lock' \in [Objects -> Threads \cup {Nobody}]
    BY <1>2 DEF IInv, TypeOK
  <1> QED BY <1>6, <1>7, QuietInv DEF IInv, TypeOK, objVars

(* nif_step and nif_spec_step go on to the sampler.                        *)
LEMMA TakeSamplerInv ==
    ASSUME IInv, NEW t \in Threads, TakeSampler(t)
    PROVE  IInv'
  <1> DEFINE c == call[t].obj
             s == call[t].aux
  <1>1. call[t].pc = "sampler" /\ UNCHANGED <<modelVars, objVars, calls>> /\ Unlocked(s)
    BY DEF TakeSampler, At
  <1>2. c \in Contexts /\ call[t].op \in {"step", "spec"} /\ s \in Objects \cup {Nobody}
    BY <1>1 DEF IInv, HoldsSound, HoldsAt, TypeOK, Calls
  <1>3. CASE s \in native
    <2>1. /\ lock' = IF call[t].op = "spec" THEN [lock EXCEPT ![s] = t] ELSE lock
          /\ Arm(c) /\ Decoding(t, call[t].op, c, s)
      BY <1>3 DEF TakeSampler
    <2>2. PICK r \in Calls : /\ call' = [call EXCEPT ![t] = r]
                             /\ r.pc = "decode" /\ r.op = call[t].op /\ r.obj = c /\ r.aux = s
      BY <1>2, <2>1, DecodingCall DEF Ops
    <2>3. cause' \in [Contexts -> SUBSET {"abort", "deadline"}]
      BY <1>2, <2>1, DecodingCall DEF Ops
    <2>4. abort' \in [Contexts -> BOOLEAN] /\ deadline' \in [Contexts -> {"none", "live", "past"}]
      BY <1>2, <2>1, ArmType
    <2>5. budgeted' = budgeted
      BY <2>1 DEF Decoding
    <2> QED BY <1>1, <1>2, <1>3, <2>1, <2>2, <2>3, <2>4, <2>5, SecondLockInv
  <1>4. CASE s \notin native
    BY <1>1, <1>4, ReturningInv DEF TakeSampler, objVars, refVars, abortVars, IInv, TypeOK
  <1> QED BY <1>3, <1>4

(* nif_media_prefill goes on to the projector.                             *)
LEMMA TakeProjectorInv ==
    ASSUME IInv, NEW t \in Threads, TakeProjector(t)
    PROVE  IInv'
  <1> DEFINE c == call[t].obj
             p == call[t].aux
  <1>1. call[t].pc = "projector" /\ UNCHANGED <<modelVars, objVars, calls>> /\ Unlocked(p)
    BY DEF TakeProjector, At
  <1>2. c \in Contexts /\ p \in Objects \cup {Nobody}
    BY <1>1 DEF IInv, HoldsSound, HoldsAt, TypeOK, Calls
  <1>3. CASE p \in native
    <2>1. lock' = [lock EXCEPT ![p] = t] /\ ArmMedia(c) /\ Decoding(t, "media", c, p)
      BY <1>3 DEF TakeProjector
    <2>2. PICK r \in Calls : /\ call' = [call EXCEPT ![t] = r]
                             /\ r.pc = "decode" /\ r.op = "media" /\ r.obj = c /\ r.aux = p
      BY <1>2, <2>1, DecodingCall DEF Ops
    <2>3. cause' \in [Contexts -> SUBSET {"abort", "deadline"}]
      BY <1>2, <2>1, DecodingCall DEF Ops
    <2>4. abort' \in [Contexts -> BOOLEAN] /\ deadline' \in [Contexts -> {"none", "live", "past"}]
      BY <1>2, <2>1, ArmType
    <2>5. budgeted' = budgeted
      BY <2>1 DEF Decoding
    <2> QED BY <1>1, <1>2, <1>3, <2>1, <2>2, <2>3, <2>4, <2>5, SecondLockInv
  <1>4. CASE p \notin native
    BY <1>1, <1>4, ReturningInv DEF TakeProjector, objVars, refVars, abortVars, IInv, TypeOK
  <1> QED BY <1>3, <1>4

(* Abort requests and the passing of time touch the flags only.            *)
LEMMA FlagsInv ==
    ASSUME IInv, NEW c \in Contexts, RequestAbort(c) \/ DeadlinePasses(c)
    PROVE  IInv'
  <1>1. UNCHANGED <<modelVars, objVars, lock, call, budgeted, calls>>
    BY DEF RequestAbort, DeadlinePasses
  <1>2. cause' \in [Contexts -> SUBSET {"abort", "deadline"}]
    BY DEF RequestAbort, DeadlinePasses, Remember, IInv, TypeOK
  <1>3. abort' \in [Contexts -> BOOLEAN] /\ deadline' \in [Contexts -> {"none", "live", "past"}]
    BY DEF RequestAbort, DeadlinePasses, IInv, TypeOK
  <1>4. TypeOK'
    BY <1>1, <1>2, <1>3 DEF IInv, TypeOK, modelVars, objVars, refVars
  <1>5. KeepSound' /\ DropSound' /\ NativeKept' /\ KeptHasModel' /\ PendingHasBorrower'
    BY <1>1 DEF IInv, KeepSound, DropSound, NativeKept, KeptHasModel, PendingHasBorrower,
                Unreferenced, modelVars, objVars, refVars
  <1>6. HoldsSound'
    BY <1>1 DEF IInv, HoldsSound, HoldsAt, objVars, refVars
  <1>7. Owing' = Owing
    BY <1>1 DEF Owing, objVars, refVars
  <1> QED BY <1>1, <1>4, <1>5, <1>6, <1>7, CountsFrame DEF IInv, modelVars

-----------------------------------------------------------------------------
(* The model and its borrowers.                                            *)

(* A new context, adapter or projector.                                    *)
LEMMA AttachInv ==
    ASSUME IInv, NEW t \in Threads, NEW o \in Borrowers, Attach(t, o)
    PROVE  IInv'
  <1> USE DEF Attach
  <1>1. KindOf(o) \in Kinds /\ o \in Objects /\ o \notin Samplers
    BY KindOfType, SlotsAssumption DEF Objects
  <1>2. TypeOK'
    BY <1>1 DEF IInv, TypeOK, abortVars
  <1>3. KeepSound'
    BY <1>1 DEF IInv, KeepSound
  <1>4. DropSound'
    BY DEF IInv, DropSound
  <1>5. HoldsSound'
    BY DEF IInv, HoldsSound, HoldsAt
  <1>6. NativeKept' /\ KeptHasModel' /\ PendingHasBorrower'
    BY DEF IInv, NativeKept, KeptHasModel, PendingHasBorrower
  <1>7. o \notin Owing /\ Owing' = Owing \cup {o}
    BY DEF Owing, IInv, TypeOK, DropSound
  <1>8. CountsExact'
    <2> SUFFICES ASSUME NEW k \in Kinds PROVE users'[k] = Cardinality(Counted(k)')
      BY DEF CountsExact
    <2>1. Counted(k) = {b \in Owing : KindOf(b) = k} /\ IsFiniteSet(Counted(k))
      BY CountedOwing
    <2>2. Counted(k)' = {b \in Owing' : KindOf(b) = k}
      BY DEF Counted, Owing
    <2>3. users[k] = Cardinality(Counted(k)) /\ users[k] \in Nat
      BY DEF IInv, CountsExact, TypeOK
    <2>4. CASE KindOf(o) = k
      <3>1. Counted(k)' = Counted(k) \cup {o} /\ o \notin Counted(k)
        BY <1>7, <2>1, <2>2, <2>4
      <3>2. Cardinality(Counted(k)') = Cardinality(Counted(k)) + 1
        BY <3>1, <2>1, FS_AddElement
      <3>3. users'[k] = users[k] + 1
        BY <2>4 DEF IInv, TypeOK
      <3> QED BY <3>2, <3>3, <2>3
    <2>5. CASE KindOf(o) # k
      <3>1. Counted(k)' = Counted(k)
        BY <1>7, <2>1, <2>2, <2>5
      <3>2. users'[k] = users[k]
        BY <2>5 DEF IInv, TypeOK
      <3> QED BY <3>1, <3>2, <2>3
    <2> QED BY <2>4, <2>5
  <1> QED BY <1>2, <1>3, <1>4, <1>5, <1>6, <1>8 DEF IInv

(* A step that changes only the model's state keeps what the calls hold.   *)
LEMMA ModelOnly ==
    ASSUME IInv, UNCHANGED <<objVars, lock, call, abortVars>>,
           model' \in BOOLEAN, modelTerm' \in BOOLEAN, pending' \in BOOLEAN,
           users' = users, calls' \in 0 .. MaxCalls,
           KeptHasModel', PendingHasBorrower'
    PROVE  IInv'
  <1>1. TypeOK'
    BY DEF IInv, TypeOK, objVars, refVars, abortVars
  <1>2. KeepSound' /\ DropSound' /\ NativeKept'
    BY DEF IInv, KeepSound, DropSound, NativeKept, objVars, refVars
  <1>3. HoldsSound'
    BY DEF IInv, HoldsSound, HoldsAt, objVars, refVars
  <1>4. Owing' = Owing
    BY DEF Owing, objVars, refVars
  <1> QED BY <1>1, <1>2, <1>3, <1>4, CountsFrame DEF IInv

(* A borrower with its keep-reference is counted by its kind.              *)
LEMMA KeptCounted ==
    ASSUME IInv, NEW o \in keeps, o \in Borrowers
    PROVE  users[KindOf(o)] > 0
  BY OwingCounted DEF IInv, Owing

(* nif_free_model releases the model only when nobody kept is left.        *)
LEMMA FreeModelInv ==
    ASSUME IInv, NEW t \in Threads, FreeModel(t)
    PROVE  IInv'
  <1>1. UNCHANGED <<modelTerm, users, objVars, lock, call, abortVars>> /\ model /\ Starts(t)
    BY DEF FreeModel
  <1>2. CASE users["context"] > 0 \/ users["adapter"] > 0
    <2>1. pending' = TRUE /\ model' = model
      BY <1>2 DEF FreeModel
    <2>2. KeptHasModel' /\ PendingHasBorrower'
      BY <1>1, <1>2, <2>1 DEF KeptHasModel, PendingHasBorrower, Unreferenced
    <2> QED BY <1>1, <2>1, <2>2, StartsType, ModelOnly DEF IInv, TypeOK
  <1>3. CASE ~(users["context"] > 0 \/ users["adapter"] > 0)
    <2>1. pending' = FALSE /\ model' = FALSE
      BY <1>3 DEF FreeModel
    <2>2. ASSUME NEW o \in keeps \cap (Contexts \cup Adapters) PROVE FALSE
      <3>1. o \in Borrowers /\ KindOf(o) \in {"context", "adapter"}
        BY DEF Borrowers, KindOf
      <3> QED BY <3>1, <1>3, KeptCounted
    <2>3. KeptHasModel' /\ PendingHasBorrower'
      BY <1>1, <2>1, <2>2 DEF KeptHasModel, PendingHasBorrower, objVars, refVars
    <2> QED BY <1>1, <2>1, <2>3, StartsType, ModelOnly DEF IInv, TypeOK
  <1> QED BY <1>2, <1>3

(* The destructor of the model's resource finds nobody who owes a drop.    *)
LEMMA ModelDtorSafe ==
    ASSUME IInv, NEW term \in BOOLEAN, NEW releasing \in SUBSET Threads,
           \A t \in Threads : call[t].pc = "drop" => t \in releasing,
           ModelDtor(term, releasing, keeps),
           keeps' = keeps, pending' = pending, users' = users
    PROVE  model' \in BOOLEAN /\ KeptHasModel' /\ PendingHasBorrower'
  <1>1. model' = (model /\ (term \/ releasing # {} \/ keeps \cap Borrowers # {}))
    BY DEF ModelDtor
  <1>2. model \in BOOLEAN
    BY DEF IInv, TypeOK
  <1>3. KeptHasModel'
    BY <1>1 DEF KeptHasModel, IInv, Borrowers
  <1>4. ASSUME pending PROVE releasing # {} \/ keeps \cap Borrowers # {}
    <2>1. \E k \in Kinds : users[k] # 0
      BY <1>4 DEF IInv, PendingHasBorrower, Unreferenced, Kinds
    <2>2. PICK o \in Owing : TRUE
      BY <2>1, OwingExists DEF IInv
    <2> QED BY <2>2 DEF Owing
  <1>5. PendingHasBorrower'
    BY <1>1, <1>4 DEF PendingHasBorrower, Unreferenced, IInv
  <1> QED BY <1>1, <1>2, <1>3, <1>5

(* The last term of the model's resource goes.                             *)
LEMMA ForgetModelInv ==
    ASSUME IInv, ForgetModel
    PROVE  IInv'
  <1>1. model' \in BOOLEAN /\ KeptHasModel' /\ PendingHasBorrower'
    BY ModelDtorSafe DEF ForgetModel, Releasing, objVars, refVars
  <1> QED BY <1>1, ModelOnly DEF ForgetModel, IInv, TypeOK

(* enif_release_resource of a thread that has dropped its borrower.        *)
LEMMA ReleaseInv ==
    ASSUME IInv, NEW t \in Threads, Release(t)
    PROVE  IInv'
  <1>1. /\ call' = [call EXCEPT ![t] = Idle] /\ call[t].pc = "release"
        /\ UNCHANGED <<modelTerm, pending, users, objVars, lock, abortVars, calls>>
    BY DEF Release, At, Goto
  <1>2. \A u \in Threads : call'[u] = IF u = t THEN Idle ELSE call[u]
    BY <1>1 DEF IInv, TypeOK
  <1>3. model' \in BOOLEAN /\ KeptHasModel' /\ PendingHasBorrower'
    <2>1. \A u \in Threads : call[u].pc = "drop" => u \in Releasing \ {t}
      BY <1>1 DEF Releasing
    <2>2. Releasing \ {t} \in SUBSET Threads /\ modelTerm \in BOOLEAN
      BY DEF Releasing, IInv, TypeOK
    <2> QED BY <1>1, <2>1, <2>2, ModelDtorSafe DEF Release, objVars, refVars
  <1>4. TypeOK'
    BY <1>1, <1>3, IdleType DEF IInv, TypeOK, objVars, refVars, abortVars
  <1>5. KeepSound' /\ DropSound' /\ NativeKept'
    BY <1>1, <1>2, IdleType DEF IInv, KeepSound, DropSound, NativeKept, objVars, refVars
  <1>6. HoldsSound'
    BY <1>1, <1>2, IdleType DEF IInv, HoldsSound, HoldsAt, objVars, refVars
  <1>7. Owing' = Owing
    BY <1>1, <1>2, IdleType DEF Owing, objVars, refVars
  <1> QED BY <1>1, <1>3, <1>4, <1>5, <1>6, <1>7, CountsFrame DEF IInv

(* context_drops_model and its siblings: the counter loses the borrower    *)
(* and the last one performs the deferred release.                         *)
LEMMA DropModelInv ==
    ASSUME IInv, NEW t \in Threads, DropModel(t)
    PROVE  IInv'
  <1> DEFINE o == call[t].obj
             r == [call[t] EXCEPT !.pc = "release"]
             u == [users EXCEPT ![KindOf(o)] = IF @ > 0 THEN @ - 1 ELSE @]
  <1>1. call[t] \in Calls /\ call[t].pc = "drop" /\ users \in [Kinds -> Nat]
    BY DEF IInv, TypeOK, DropModel, At
  <1>2. r \in Calls /\ r.pc = "release"
    BY <1>1 DEF Calls, Pcs
  <1>3. call' = [call EXCEPT ![t] = r] /\ users' = u
        /\ UNCHANGED <<modelTerm, objVars, lock, abortVars, calls>>
    BY DEF DropModel, Goto
  <1>4. /\ model' = (model /\ ~(pending /\ Unreferenced(u) /\ model))
        /\ pending' = (pending /\ ~(pending /\ Unreferenced(u) /\ model))
    BY DEF DropModel
  <1>5. o \in Owing /\ o \in Borrowers /\ o \notin keeps /\ KindOf(o) \in Kinds
    BY <1>1, KindOfType DEF Owing, IInv, DropSound
  <1>6. users[KindOf(o)] > 0
    BY <1>5, OwingCounted DEF IInv
  <1>7. u \in [Kinds -> Nat] /\ u[KindOf(o)] = users[KindOf(o)] - 1
        /\ \A k \in Kinds : k # KindOf(o) => u[k] = users[k]
    BY <1>1, <1>5, <1>6
  <1> HIDE DEF r, u
  <1>8. \A v \in Threads : call'[v] = IF v = t THEN r ELSE call[v]
    BY <1>3 DEF IInv, TypeOK
  <1>9. KeepSound' /\ DropSound' /\ NativeKept'
    BY <1>2, <1>3, <1>8 DEF IInv, KeepSound, DropSound, NativeKept, objVars, refVars
  <1>10. HoldsSound'
    BY <1>2, <1>3, <1>8 DEF IInv, HoldsSound, HoldsAt, objVars, refVars
  <1>11. TypeOK'
    <2>1. model' \in BOOLEAN /\ pending' \in BOOLEAN
      BY <1>4
    <2>2. call' \in [Threads -> Calls]
      BY <1>2, <1>3 DEF IInv, TypeOK
    <2> QED BY <2>1, <2>2, <1>3, <1>7 DEF IInv, TypeOK, objVars, refVars, abortVars
  <1>12. Owing' = Owing \ {o}
    <2>1. \A v \in Threads : (call'[v].pc = "drop") <=> (v # t /\ call[v].pc = "drop")
      BY <1>2, <1>8
    <2>2. \A v \in Threads : v # t /\ call[v].pc = "drop" => call[v].obj # o
      BY <1>1 DEF IInv, DropSound
    <2> QED BY <2>1, <2>2, <1>1, <1>3, <1>5, <1>8 DEF Owing, objVars, refVars
  <1>13. CountsExact'
    <2> SUFFICES ASSUME NEW k \in Kinds PROVE users'[k] = Cardinality(Counted(k)')
      BY DEF CountsExact
    <2>1. Counted(k) = {b \in Owing : KindOf(b) = k} /\ IsFiniteSet(Counted(k))
      BY CountedOwing
    <2>2. Counted(k)' = {b \in Owing' : KindOf(b) = k}
      BY DEF Counted, Owing
    <2>3. users[k] = Cardinality(Counted(k)) /\ users[k] \in Nat
      BY DEF IInv, CountsExact, TypeOK
    <2>4. CASE KindOf(o) = k
      <3>1. Counted(k)' = Counted(k) \ {o} /\ o \in Counted(k)
        BY <1>5, <1>12, <2>1, <2>2, <2>4
      <3>2. Cardinality(Counted(k)') = Cardinality(Counted(k)) - 1
        BY <3>1, <2>1, FS_RemoveElement
      <3> QED BY <3>2, <2>3, <2>4, <1>3, <1>7
    <2>5. CASE KindOf(o) # k
      <3>1. Counted(k)' = Counted(k)
        BY <1>12, <2>1, <2>2, <2>5
      <3> QED BY <3>1, <2>3, <2>5, <1>3, <1>7
    <2> QED BY <2>4, <2>5
  <1>14. PendingHasBorrower'
    BY <1>3, <1>4 DEF PendingHasBorrower, Unreferenced, IInv
  <1>15. KeptHasModel'
    <2>1. SUFFICES ASSUME NEW b \in keeps \cap (Contexts \cup Adapters) PROVE model'
      BY <1>3 DEF KeptHasModel, objVars, refVars
    <2>2. b \in Borrowers /\ b \in Owing' /\ KindOf(b) \in {"context", "adapter"}
      BY <1>3 DEF Borrowers, Owing, KindOf, objVars, refVars
    <2>3. users'[KindOf(b)] > 0
      BY <2>2, <1>11, <1>13, OwingCountedNext
    <2>4. model /\ ~Unreferenced(u)
      BY <2>2, <2>3, <1>3 DEF Unreferenced, IInv, KeptHasModel
    <2> QED BY <2>4, <1>4
  <1> QED BY <1>9, <1>10, <1>11, <1>13, <1>14, <1>15 DEF IInv

-----------------------------------------------------------------------------
(* Explicit frees, destructors and samplers.                               *)

(* A step in which a thread takes the keep-reference of a borrower and     *)
(* turns to drop it: the borrower owes its drop before and after.          *)
LEMMA TakeKeepCounts ==
    ASSUME IInv, NEW t \in Threads, NEW o \in Borrowers, o \in keeps, NEW r \in Calls,
           call[t].pc = "idle", r.pc = "drop", r.obj = o,
           call' = [call EXCEPT ![t] = r], keeps' = keeps \ {o}, users' = users,
           made \subseteq made'
    PROVE  DropSound' /\ CountsExact'
  <1>1. \A u \in Threads : call'[u] = IF u = t THEN r ELSE call[u]
    BY DEF IInv, TypeOK
  <1>2. DropSound'
    BY <1>1 DEF IInv, DropSound, TypeOK
  <1>3. Owing' = Owing
    BY <1>1 DEF Owing
  <1> QED BY <1>2, <1>3, CountsFrame DEF IInv

(* The call of a thread that is about to drop a borrower.                  *)
LEMMA DropCall ==
    ASSUME NEW o \in Objects
    PROVE  LET r == [Idle EXCEPT !.pc = "drop", !.op = "free", !.obj = o]
           IN  r \in Calls /\ r.pc = "drop" /\ r.obj = o
  BY DEF Idle, Calls, Pcs, Ops

(* nif_free_context turns a live context into one that owes a drop.        *)
LEMMA FreeContextInv ==
    ASSUME IInv, NEW t \in Threads, NEW c \in Contexts, FreeContext(t, c)
    PROVE  IInv'
  <1> DEFINE r == [Idle EXCEPT !.pc = "drop", !.op = "free", !.obj = c]
  <1>1. c \in Borrowers /\ c \in Objects /\ c \in keeps
    BY DEF Borrowers, Objects, FreeContext, IInv, NativeKept
  <1>2. r \in Calls /\ r.pc = "drop" /\ r.obj = c
    BY <1>1, DropCall
  <1>3. /\ call' = [call EXCEPT ![t] = r] /\ call[t].pc = "idle"
        /\ keeps' = keeps \ {c} /\ native' = native \ {c} /\ Unlocked(c)
        /\ UNCHANGED <<modelVars, made, gone, terms, chainOf, lock, abortVars>> /\ Starts(t)
        /\ attached' = [attached EXCEPT ![c] = {}]
    BY DEF FreeContext, Goto, Starts
  <1> HIDE DEF r
  <1>4. DropSound' /\ CountsExact'
    BY <1>1, <1>2, <1>3, TakeKeepCounts DEF modelVars
  <1>5. \A u \in Threads : call'[u] = IF u = t THEN r ELSE call[u]
    BY <1>3 DEF IInv, TypeOK
  <1>6. KeepSound' /\ NativeKept' /\ KeptHasModel' /\ PendingHasBorrower'
    BY <1>2, <1>3, <1>5 DEF IInv, KeepSound, NativeKept, KeptHasModel, PendingHasBorrower,
                            Unreferenced, modelVars
  <1>7. TypeOK'
    BY <1>2, <1>3, StartsType DEF IInv, TypeOK, modelVars, abortVars
  <1>8. HoldsSound'
    BY <1>2, <1>3, <1>5, SlotsAssumption DEF IInv, HoldsSound, HoldsAt, Unlocked
  <1> QED BY <1>4, <1>6, <1>7, <1>8 DEF IInv

(* The frees that leave the count and the keep-reference alone.            *)
LEMMA FreeNativeInv ==
    ASSUME IInv, NEW t \in Threads, NEW o \in Objects, FreeNative(t, o)
    PROVE  IInv'
  <1>1. /\ native' = native \ {o} /\ Unlocked(o) /\ Starts(t)
        /\ UNCHANGED <<modelVars, made, gone, keeps, terms, chainOf, attached, lock, call, abortVars>>
    BY DEF FreeNative
  <1>2. TypeOK'
    BY <1>1, StartsType DEF IInv, TypeOK, modelVars, abortVars
  <1>3. KeepSound' /\ DropSound' /\ NativeKept' /\ KeptHasModel' /\ PendingHasBorrower'
    BY <1>1 DEF IInv, KeepSound, DropSound, NativeKept, KeptHasModel, PendingHasBorrower,
                Unreferenced, modelVars
  <1>4. HoldsSound'
    BY <1>1, SlotsAssumption DEF IInv, HoldsSound, HoldsAt, Unlocked
  <1>5. Owing' = Owing
    BY <1>1 DEF Owing
  <1> QED BY <1>1, <1>2, <1>3, <1>4, <1>5, CountsFrame DEF IInv, modelVars

\* A resource that a running call holds or is about to lock.
NeededBy(u, o) ==
    \/ /\ call[u].pc \in {"sampler", "projector", "decode", "interrupted"}
       /\ o \in {call[u].obj, call[u].aux}
    \/ call[u].pc \in {"adapters", "attach"} /\ o \in call[u].set

(* A destructor runs only for a resource that no call needs.               *)
LEMMA DtorInv ==
    ASSUME IInv, NEW t \in Threads, NEW o \in made, Dtor(t, o), call[t].pc = "idle",
           \A u \in Threads : ~NeededBy(u, o),
           terms' = terms \ {o},
           UNCHANGED <<modelVars, made, lock, abortVars, calls>>
    PROVE  IInv'
  <1>1. o \in Objects
    BY DEF IInv, TypeOK
  <1>2. /\ gone' = gone \cup {o} /\ native' = native \ {o} /\ keeps' = keeps \ {o}
        /\ chainOf' = [s \in Samplers |-> IF s = o THEN Nobody ELSE chainOf[s]]
        /\ attached' = [c \in Contexts |-> IF c = o THEN {} ELSE attached[c]]
    BY DEF Dtor
  <1>3. PICK r \in Calls : /\ call' = [call EXCEPT ![t] = r]
                           /\ IF o \in Borrowers \cap keeps
                              THEN r.pc = "drop" /\ r.obj = o ELSE r.pc = "idle"
    <2>1. CASE o \in Borrowers \cap keeps
      <3> DEFINE r == [Idle EXCEPT !.pc = "drop", !.op = "free", !.obj = o]
      <3>1. r \in Calls /\ r.pc = "drop" /\ r.obj = o
        BY <1>1, DropCall
      <3>2. call' = [call EXCEPT ![t] = r]
        BY <2>1 DEF Dtor, Goto
      <3> HIDE DEF r
      <3> QED BY <3>1, <3>2, <2>1
    <2>2. CASE o \notin Borrowers \cap keeps
      <3>1. call' = call /\ call = [call EXCEPT ![t] = call[t]] /\ call[t] \in Calls
        BY <2>2 DEF Dtor, IInv, TypeOK
      <3> QED BY <3>1, <2>2
    <2> QED BY <2>1, <2>2
  <1>4. \A u \in Threads : call'[u] = IF u = t THEN r ELSE call[u]
    BY <1>3 DEF IInv, TypeOK
  <1>5. DropSound' /\ CountsExact'
    <2>1. CASE o \in Borrowers \cap keeps
      BY <2>1, <1>2, <1>3, TakeKeepCounts DEF modelVars
    <2>2. CASE o \notin Borrowers \cap keeps
      <3>1. DropSound'
        BY <2>2, <1>2, <1>3, <1>4 DEF DropSound, IInv
      <3>2. Owing' = Owing
        BY <2>2, <1>2, <1>3, <1>4 DEF Owing
      <3> QED BY <3>1, <3>2, CountsFrame DEF IInv, modelVars
    <2> QED BY <2>1, <2>2
  <1>6. KeepSound' /\ NativeKept' /\ KeptHasModel' /\ PendingHasBorrower'
    BY <1>2, <1>3, <1>4 DEF IInv, KeepSound, NativeKept, KeptHasModel, PendingHasBorrower,
                            Unreferenced, modelVars
  <1>7. TypeOK'
    <2>1. call' \in [Threads -> Calls]
      BY <1>3 DEF IInv, TypeOK
    <2>2. chainOf' \in [Samplers -> Contexts \cup {Nobody}]
      BY <1>2 DEF IInv, TypeOK
    <2>3. attached' \in [Contexts -> SUBSET Adapters]
      BY <1>2 DEF IInv, TypeOK
    <2> QED BY <1>2, <2>1, <2>2, <2>3 DEF IInv, TypeOK, modelVars, abortVars
  <1>8. ASSUME NEW u \in Threads, u # t PROVE HoldsAt(u)'
    <2>1. call'[u] = call[u] /\ HoldsAt(u)
      BY <1>4, <1>8 DEF IInv, HoldsSound
    <2> QED BY <2>1, <1>2 DEF HoldsAt, NeededBy
  <1>9. HoldsAt(t)'
    BY <1>3, <1>4 DEF HoldsAt
  <1> QED BY <1>5, <1>6, <1>7, <1>8, <1>9 DEF IInv, HoldsSound

(* The last term of a resource goes.                                       *)
LEMMA ForgetInv ==
    ASSUME IInv, NEW t \in Threads, NEW o \in Objects, Forget(t, o)
    PROVE  IInv'
  <1>1. /\ call[t].pc = "idle" /\ o \in terms /\ o \in made /\ terms' = terms \ {o}
        /\ UNCHANGED <<modelVars, made, lock, abortVars, calls>>
    BY DEF Forget, At, IInv, TypeOK
  <1>2. \A u \in Threads : ~NeededBy(u, o)
    BY DEF Forget, InUse, Args, NeededBy
  <1>3. CASE Kept(o)
    <2>1. UNCHANGED <<gone, native, keeps, chainOf, attached, call>>
      BY <1>3 DEF Forget
    <2>2. TypeOK'
      BY <1>1, <2>1 DEF IInv, TypeOK, modelVars, abortVars
    <2>3. KeepSound' /\ DropSound' /\ NativeKept' /\ KeptHasModel' /\ PendingHasBorrower'
      BY <1>1, <2>1 DEF IInv, KeepSound, DropSound, NativeKept, KeptHasModel,
                        PendingHasBorrower, Unreferenced, modelVars
    <2>4. HoldsSound'
      BY <1>1, <1>2, <2>1 DEF IInv, HoldsSound, HoldsAt, NeededBy
    <2>5. Owing' = Owing
      BY <2>1 DEF Owing
    <2> QED BY <1>1, <2>2, <2>3, <2>4, <2>5, CountsFrame DEF IInv, modelVars
  <1>4. CASE ~Kept(o)
    BY <1>1, <1>2, <1>4, DtorInv DEF Forget
  <1> QED BY <1>3, <1>4

(* The last sampler of a context goes.                                     *)
LEMMA CtxDtorInv ==
    ASSUME IInv, NEW t \in Threads, NEW c \in Contexts, CtxDtor(t, c)
    PROVE  IInv'
  <1>1. /\ call[t].pc = "idle" /\ c \in made /\ c \notin terms /\ Dtor(t, c)
        /\ UNCHANGED <<modelVars, made, terms, lock, abortVars, calls>>
    BY DEF CtxDtor, At
  <1>2. terms' = terms \ {c} /\ c # Nobody
    BY <1>1, SlotsAssumption DEF Objects, Borrowers
  <1>3. \A u \in Threads : ~NeededBy(u, c)
    BY <1>1, <1>2 DEF NeededBy, IInv, HoldsSound, HoldsAt
  <1> QED BY <1>1, <1>2, <1>3, DtorInv

(* nif_sampler_new builds a chain.                                         *)
LEMMA SamplerNewInv ==
    ASSUME IInv, NEW t \in Threads, NEW c \in Contexts, NEW s \in Samplers,
           SamplerNew(t, c, s)
    PROVE  IInv'
  <1> DEFINE r == [Idle EXCEPT !.pc = "keep", !.op = "sampler_new", !.obj = c, !.aux = s]
  <1>1. r \in Calls /\ r.pc = "keep" /\ r.obj = c /\ r.aux = s
    BY DEF Idle, Calls, Pcs, Ops, Objects, Borrowers
  <1>2. /\ call' = [call EXCEPT ![t] = r] /\ call[t].pc = "idle" /\ s \notin made
        /\ \A u \in Threads : call[u].aux # s
        /\ UNCHANGED <<modelVars, objVars, lock, abortVars, calls>>
    BY DEF SamplerNew, Goto, At
  <1> HIDE DEF r
  <1>3. \A u \in Threads : call'[u] = IF u = t THEN r ELSE call[u]
    BY <1>2 DEF IInv, TypeOK
  <1>4. TypeOK'
    BY <1>1, <1>2 DEF IInv, TypeOK, modelVars, objVars, refVars, abortVars
  <1>5. KeepSound'
    BY <1>1, <1>2, <1>3 DEF IInv, KeepSound, objVars, refVars
  <1>6. DropSound' /\ NativeKept' /\ KeptHasModel' /\ PendingHasBorrower'
    BY <1>1, <1>2, <1>3 DEF IInv, DropSound, NativeKept, KeptHasModel, PendingHasBorrower,
                            Unreferenced, modelVars, objVars, refVars
  <1>7. HoldsSound'
    BY <1>1, <1>2, <1>3 DEF IInv, HoldsSound, HoldsAt, objVars, refVars
  <1>8. Owing' = Owing
    BY <1>1, <1>2, <1>3 DEF Owing, objVars, refVars
  <1> QED BY <1>2, <1>4, <1>5, <1>6, <1>7, <1>8, CountsFrame DEF IInv, modelVars

(* nif_sampler_new keeps its context.                                      *)
LEMMA SamplerKeepsInv ==
    ASSUME IInv, NEW t \in Threads, SamplerKeeps(t)
    PROVE  IInv'
  <1> DEFINE s == call[t].aux
  <1>1. /\ call' = [call EXCEPT ![t] = Idle] /\ call[t].pc = "keep"
        /\ made' = made \cup {s} /\ native' = native \cup {s}
        /\ keeps' = keeps \cup {s} /\ terms' = terms \cup {s}
        /\ chainOf' = [chainOf EXCEPT ![s] = call[t].obj]
        /\ UNCHANGED <<modelVars, gone, attached, lock, abortVars, calls>>
    BY DEF SamplerKeeps, Goto, At
  <1>2. s \in Samplers /\ s \notin made /\ s \notin gone /\ call[t].obj \in Contexts
        /\ s \in Objects /\ s \notin Borrowers
    BY <1>1, SlotsAssumption DEF IInv, KeepSound, TypeOK, Objects
  <1>3. \A u \in Threads : call'[u] = IF u = t THEN Idle ELSE call[u]
    BY <1>1 DEF IInv, TypeOK
  <1>4. TypeOK'
    <2>1. call' \in [Threads -> Calls]
      BY <1>1, IdleType DEF IInv, TypeOK
    <2>2. chainOf' \in [Samplers -> Contexts \cup {Nobody}]
      BY <1>1, <1>2 DEF IInv, TypeOK
    <2> QED BY <1>1, <1>2, <2>1, <2>2 DEF IInv, TypeOK, modelVars, abortVars
  <1>5. KeepSound'
    BY <1>1, <1>2, <1>3, IdleType DEF IInv, KeepSound
  <1>6. DropSound'
    BY <1>1, <1>2, <1>3, IdleType DEF IInv, DropSound
  <1>7. NativeKept' /\ KeptHasModel' /\ PendingHasBorrower'
    BY <1>1, <1>2 DEF IInv, NativeKept, KeptHasModel, PendingHasBorrower,
                      Unreferenced, modelVars, Borrowers
  <1>8. HoldsSound'
    BY <1>1, <1>3, IdleType DEF IInv, HoldsSound, HoldsAt
  <1>9. Owing' = Owing
    BY <1>1, <1>2, <1>3, IdleType DEF Owing
  <1> QED BY <1>1, <1>4, <1>5, <1>6, <1>7, <1>8, <1>9, CountsFrame DEF IInv, modelVars

-----------------------------------------------------------------------------
(* The theorems.                                                           *)

(* A model process that has started satisfies the invariant.               *)
LEMMA InitInv == Init => IInv
  <1> SUFFICES ASSUME Init PROVE IInv
    OBVIOUS
  <1> USE DEF Init
  <1>1. Loaded \subseteq Borrowers /\ IsFiniteSet(Loaded)
    BY SlotsAssumption, BorrowersFinite, FS_Subset
  <1>2. \A k \in Kinds : IsFiniteSet({o \in Loaded : KindOf(o) = k})
    BY <1>1, FS_Subset
  <1>3. users \in [Kinds -> Nat]
    BY <1>2, FS_CardinalityType
  <1>4. \A t \in Threads : call[t] = Idle
    OBVIOUS
  <1>5. TypeOK
    <2>1. made \subseteq Objects /\ gone \subseteq made /\ native \subseteq made \ gone
          /\ keeps \subseteq made \ gone /\ terms \subseteq made \ gone
      BY <1>1 DEF Objects
    <2>2. call \in [Threads -> Calls]
      BY IdleType
    <2>3. /\ chainOf \in [Samplers -> Contexts \cup {Nobody}]
          /\ lock \in [Objects -> Threads \cup {Nobody}]
          /\ attached \in [Contexts -> SUBSET Adapters]
      OBVIOUS
    <2>4. /\ abort \in [Contexts -> BOOLEAN]
          /\ deadline \in [Contexts -> {"none", "live", "past"}]
          /\ cause \in [Contexts -> SUBSET {"abort", "deadline"}]
          /\ budgeted \subseteq Contexts
      OBVIOUS
    <2>5. calls \in 0 .. MaxCalls
      BY SlotsAssumption
    <2>6. model \in BOOLEAN /\ modelTerm \in BOOLEAN /\ pending \in BOOLEAN
      OBVIOUS
    <2> HIDE DEF Init
    <2> QED BY <1>3, <2>1, <2>2, <2>3, <2>4, <2>5, <2>6 DEF TypeOK
  <1>6. KeepSound /\ DropSound /\ HoldsSound
    BY <1>4, IdleType DEF KeepSound, DropSound, HoldsSound, HoldsAt
  <1>7. NativeKept /\ KeptHasModel /\ PendingHasBorrower
    BY DEF NativeKept, KeptHasModel, PendingHasBorrower
  <1>8. ASSUME NEW k \in Kinds PROVE Counted(k) = {o \in Loaded : KindOf(o) = k}
    BY <1>1, <1>4, <1>8, IdleType DEF Counted
  <1>9. CountsExact
    BY <1>8 DEF CountsExact
  <1> QED BY <1>5, <1>6, <1>7, <1>9 DEF IInv

(* Every step preserves the invariant.                                     *)
LEMMA NextInv == IInv /\ [Next]_vars => IInv'
  <1> SUFFICES ASSUME IInv, [Next]_vars PROVE IInv'
    OBVIOUS
  <1>1. CASE UNCHANGED vars
    <2>1. UNCHANGED <<modelVars, objVars, lock, call, abortVars, calls>>
      BY <1>1 DEF vars
    <2>2. TypeOK'
      BY <2>1 DEF IInv, TypeOK, modelVars, objVars, refVars, abortVars
    <2>3. KeepSound' /\ DropSound' /\ NativeKept' /\ KeptHasModel' /\ PendingHasBorrower'
      BY <2>1 DEF IInv, KeepSound, DropSound, NativeKept, KeptHasModel,
                  PendingHasBorrower, Unreferenced, modelVars, objVars, refVars
    <2>4. HoldsSound'
      BY <2>1 DEF IInv, HoldsSound, HoldsAt, objVars, refVars
    <2>5. Owing' = Owing
      BY <2>1 DEF Owing, objVars, refVars
    <2> QED BY <2>1, <2>2, <2>3, <2>4, <2>5, CountsFrame DEF IInv, modelVars
  <1>2. CASE \E t \in Threads : Progress(t)
    BY <1>2, DropModelInv, ReleaseInv, SamplerKeepsInv, LockAdapterInv, AttachAdaptersInv,
       TakeSamplerInv, TakeProjectorInv, DecodeReturnsInv, DecodeInterruptedInv DEF Progress
  <1>3. CASE \E t \in Threads, o \in Borrowers : Attach(t, o)
    BY <1>3, AttachInv
  <1>4. CASE (\E t \in Threads : FreeModel(t)) \/ ForgetModel
    BY <1>4, FreeModelInv, ForgetModelInv
  <1>5. CASE \E t \in Threads, c \in Contexts : FreeContext(t, c) \/ CtxDtor(t, c)
    BY <1>5, FreeContextInv, CtxDtorInv
  <1>6. CASE \E t \in Threads, o \in Objects : FreeNative(t, o) \/ Forget(t, o)
    BY <1>6, FreeNativeInv, ForgetInv
  <1>7. CASE \E t \in Threads, c \in Contexts, s \in Samplers : SamplerNew(t, c, s)
    BY <1>7, SamplerNewInv
  <1>8. CASE \E t \in Threads, c \in Contexts, A \in SUBSET Adapters : SetAdapters(t, c, A)
    BY <1>8, SetAdaptersInv
  <1>9. CASE \E t \in Threads, op \in {"embed", "forward"}, c \in Contexts : DecodeCall(t, op, c)
    BY <1>9, DecodeCallInv
  <1>10. CASE \E t \in Threads, op \in {"step", "spec"}, c \in Contexts, s \in Samplers :
                 StepCall(t, op, c, s)
    BY <1>10, StepCallInv
  <1>11. CASE \E t \in Threads, c \in Contexts, p \in Projectors : MediaCall(t, c, p)
    BY <1>11, MediaCallInv
  <1>12. CASE \E c \in Contexts : RequestAbort(c) \/ DeadlinePasses(c)
    BY <1>12, FlagsInv
  <1> QED BY <1>1, <1>2, <1>3, <1>4, <1>5, <1>6, <1>7, <1>8, <1>9, <1>10, <1>11, <1>12
          DEF Next

-----------------------------------------------------------------------------
(* The adapters attached to a context.                                     *)

\* While a call has a context's mutex to decode, its adapters are live.
AttachSound ==
    AdaptersInTurn =>
        \A u \in Threads : InContext(u) => attached[call[u].obj] \subseteq native

(* A step that attaches and frees nothing, and after which no call is      *)
(* inside a context that it was not inside before.                         *)
LEMMA AttachFrame ==
    ASSUME AttachSound, attached' = attached, native \subseteq native',
           \A u \in Threads : InContext(u)' => InContext(u) /\ call'[u].obj = call[u].obj
    PROVE  AttachSound'
  BY DEF AttachSound

(* The same for a step that changes one call.                              *)
LEMMA AttachGoto ==
    ASSUME IInv, AttachSound, attached' = attached, native \subseteq native',
           NEW t \in Threads, NEW r, call' = [call EXCEPT ![t] = r],
           \/ r.pc \notin {"sampler", "projector", "decode", "interrupted"}
           \/ InContext(t) /\ r.obj = call[t].obj
    PROVE  AttachSound'
  <1>1. \A u \in Threads : call'[u] = IF u = t THEN r ELSE call[u]
    BY DEF IInv, TypeOK
  <1>2. \A u \in Threads : InContext(u)' => InContext(u) /\ call'[u].obj = call[u].obj
    BY <1>1 DEF InContext
  <1> QED BY <1>2, AttachFrame

(* A call enters a context whose adapters are live.                        *)
LEMMA AttachEnters ==
    ASSUME IInv, AttachSound, UNCHANGED objVars, NEW t \in Threads, NEW c \in Contexts,
           Ready(c), NEW r, call' = [call EXCEPT ![t] = r], r.obj = c
    PROVE  AttachSound'
  <1>1. \A u \in Threads : call'[u] = IF u = t THEN r ELSE call[u]
    BY DEF IInv, TypeOK
  <1>2. AdaptersInTurn => attached[c] \subseteq native
    BY DEF Ready
  <1> QED BY <1>1, <1>2 DEF AttachSound, InContext, objVars, refVars

(* A step that frees an adapter, or a context, that no decode uses.        *)
LEMMA AttachFrees ==
    ASSUME IInv, AttachSound, NEW t \in Threads, NEW o, NEW r,
           native' = native \ {o},
           call' = [call EXCEPT ![t] = r],
           r.pc \notin {"sampler", "projector", "decode", "interrupted"},
           \A c \in Contexts : attached'[c] \subseteq attached[c],
           AdaptersInTurn => ~NotInTurn(o)
    PROVE  AttachSound'
  <1>1. \A u \in Threads : call'[u] = IF u = t THEN r ELSE call[u]
    BY DEF IInv, TypeOK
  <1>2. \A u \in Threads : InContext(u)' => InContext(u) /\ call'[u] = call[u]
    BY <1>1 DEF InContext
  <1>3. \A u \in Threads : InContext(u) => call[u].obj \in Contexts
    BY DEF IInv, HoldsSound, HoldsAt, InContext
  <1> SUFFICES ASSUME AdaptersInTurn, NEW u \in Threads, InContext(u)'
               PROVE  attached'[call'[u].obj] \subseteq native'
    BY DEF AttachSound
  <1>4. attached[call[u].obj] \subseteq native /\ o \notin attached[call[u].obj]
    BY <1>2 DEF AttachSound, NotInTurn
  <1> QED BY <1>2, <1>3, <1>4

(* nif_set_adapters finds the context's mutex free, so nobody decodes.     *)
LEMMA AttachAttaches ==
    ASSUME IInv, AttachSound, NEW t \in Threads, AttachAdapters(t)
    PROVE  AttachSound'
  <1> DEFINE c == call[t].obj
  <1>1. \A u \in Threads : call'[u] = IF u = t THEN Idle ELSE call[u]
    BY DEF AttachAdapters, Return, Goto, IInv, TypeOK
  <1>2. \A u \in Threads : InContext(u)' => InContext(u) /\ call'[u] = call[u]
    BY <1>1, IdleType DEF InContext
  <1>3. \A u \in Threads : InContext(u) => call[u].obj \in Contexts /\ call[u].obj # c
    BY SlotsAssumption DEF IInv, HoldsSound, HoldsAt, InContext, AttachAdapters, Unlocked
  <1>4. \A d \in Contexts : d # c => attached'[d] = attached[d]
    BY DEF AttachAdapters, IInv, TypeOK
  <1>5. native' = native
    BY DEF AttachAdapters, refVars
  <1> QED BY <1>2, <1>3, <1>4, <1>5 DEF AttachSound

(* The steps of a call.                                                    *)
LEMMA AttachProgress ==
    ASSUME IInv, AttachSound, NEW t \in Threads, Progress(t)
    PROVE  AttachSound'
  <1>1. call[t] \in Calls
    BY DEF IInv, TypeOK
  <1>2. CASE DropModel(t) \/ DecodeInterrupted(t)
    <2> DEFINE r == [call[t] EXCEPT !.pc = "release"]
               q == [call[t] EXCEPT !.pc = "interrupted", !.hung = FALSE]
    <2>1. r.pc = "release" /\ q.obj = call[t].obj /\ UNCHANGED objVars
      BY <1>1, <1>2 DEF DropModel, DecodeInterrupted, Calls
    <2>2. \/ call' = [call EXCEPT ![t] = r]
          \/ call' = [call EXCEPT ![t] = q] /\ InContext(t)
      BY <1>2 DEF DropModel, DecodeInterrupted, At, InContext, Goto
    <2> HIDE DEF r, q
    <2> QED BY <2>1, <2>2, AttachGoto DEF objVars, refVars
  <1>3. CASE Release(t) \/ DecodeReturns(t) \/ InterruptReported(t)
    BY <1>3, AttachGoto, IdleType
       DEF Release, DecodeReturns, InterruptReported, Return, Goto, objVars, refVars
  <1>4. CASE SamplerKeeps(t)
    BY <1>4, AttachGoto, IdleType DEF SamplerKeeps, Goto
  <1>5. CASE AttachAdapters(t)
    BY <1>5, AttachAttaches
  <1>6. CASE LockAdapter(t)
    <2>1. PICK a \in LockOrder(call[t].rest) :
             \/ Return(t)
             \/ Goto(t, [call[t] EXCEPT
                           !.rest = @ \ {a},
                           !.pc = IF call[t].rest = {a} THEN "attach" ELSE @])
      BY <1>6 DEF LockAdapter
    <2>2. UNCHANGED objVars /\ call[t].pc = "adapters"
      BY <1>6 DEF LockAdapter, At
    <2> DEFINE r == [call[t] EXCEPT
                       !.rest = @ \ {a},
                       !.pc = IF call[t].rest = {a} THEN "attach" ELSE @]
    <2>3. r.pc \in {"attach", "adapters"}
      BY <1>1, <2>2 DEF Calls
    <2>4. call' = [call EXCEPT ![t] = Idle] \/ call' = [call EXCEPT ![t] = r]
      BY <2>1 DEF Return, Goto
    <2> HIDE DEF r
    <2> QED BY <2>2, <2>3, <2>4, IdleType, AttachGoto DEF objVars, refVars
  <1>7. CASE TakeSampler(t) \/ TakeProjector(t)
    <2> DEFINE c == call[t].obj
               x == call[t].aux
    <2>1. call[t].pc \in {"sampler", "projector"} /\ UNCHANGED objVars
      BY <1>7 DEF TakeSampler, TakeProjector, At
    <2>2. c \in Contexts /\ x \in Objects \cup {Nobody} /\ call[t].op \in Ops /\ InContext(t)
      BY <1>1, <2>1 DEF IInv, HoldsSound, HoldsAt, Calls, InContext
    <2>3. Return(t) \/ Decoding(t, call[t].op, c, x) \/ Decoding(t, "media", c, x)
      BY <1>7 DEF TakeSampler, TakeProjector
    <2>4. CASE Return(t)
      BY <2>1, <2>4, AttachGoto, IdleType DEF Return, Goto, objVars, refVars
    <2>5. CASE Decoding(t, call[t].op, c, x) \/ Decoding(t, "media", c, x)
      <3>1. PICK r \in Calls : call' = [call EXCEPT ![t] = r] /\ r.obj = c
        BY <2>2, <2>5, DecodingCall DEF Ops
      <3> QED BY <2>1, <2>2, <3>1, AttachGoto DEF objVars, refVars
    <2> QED BY <2>3, <2>4, <2>5
  <1> QED BY <1>2, <1>3, <1>4, <1>5, <1>6, <1>7 DEF Progress

(* Frees and destructors.                                                  *)
LEMMA AttachDtors ==
    ASSUME IInv, AttachSound, NEW t \in Threads,
           \/ \E c \in Contexts : FreeContext(t, c) \/ CtxDtor(t, c)
           \/ \E o \in Objects : FreeNative(t, o) \/ Forget(t, o)
    PROVE  AttachSound'
  <1>1. attached \in [Contexts -> SUBSET Adapters] /\ call = [call EXCEPT ![t] = call[t]]
    BY DEF IInv, TypeOK
  <1>2. \A c \in Contexts : ~NotInTurn(c)
    <2>1. \A u \in Threads : InContext(u) => attached[call[u].obj] \subseteq Adapters
      BY <1>1 DEF IInv, HoldsSound, HoldsAt, InContext
    <2> QED BY <2>1, SlotsAssumption DEF NotInTurn
  <1>3. ASSUME NEW o \in Objects, Dtor(t, o), call[t].pc = "idle", AdaptersInTurn => ~NotInTurn(o)
        PROVE  AttachSound'
    <2> DEFINE r == IF o \in Borrowers \cap keeps
                    THEN [Idle EXCEPT !.pc = "drop", !.op = "free", !.obj = o] ELSE call[t]
    <2>1. r.pc \in {"drop", "idle"}
      BY <1>3, DropCall
    <2>2. call' = [call EXCEPT ![t] = r] /\ native' = native \ {o}
      BY <1>1, <1>3 DEF Dtor, Goto
    <2>3. \A c \in Contexts : attached'[c] \subseteq attached[c]
      BY <1>3 DEF Dtor
    <2> HIDE DEF r
    <2> QED BY <1>3, <2>1, <2>2, <2>3, AttachFrees
  <1>4. ASSUME NEW c \in Contexts, FreeContext(t, c) PROVE AttachSound'
    <2> DEFINE r == [Idle EXCEPT !.pc = "drop", !.op = "free", !.obj = c]
    <2>1. r.pc = "drop"
      BY DropCall DEF Objects, Borrowers
    <2>2. call' = [call EXCEPT ![t] = r] /\ native' = native \ {c}
      BY <1>4 DEF FreeContext, Goto
    <2>3. \A d \in Contexts : attached'[d] \subseteq attached[d]
      BY <1>1, <1>4 DEF FreeContext
    <2> HIDE DEF r
    <2> QED BY <1>2, <2>1, <2>2, <2>3, AttachFrees
  <1>5. ASSUME NEW c \in Contexts, CtxDtor(t, c) PROVE AttachSound'
    BY <1>2, <1>3, <1>5 DEF CtxDtor, At, Objects, Borrowers
  <1>6. ASSUME NEW o \in Objects, FreeNative(t, o) PROVE AttachSound'
    <2>1. call[t].pc = "idle" /\ call' = call /\ native' = native \ {o} /\ attached' = attached
      BY <1>6 DEF FreeNative, Starts
    <2>2. AdaptersInTurn => ~NotInTurn(o)
      BY <1>6 DEF FreeNative
    <2> QED BY <1>1, <2>1, <2>2, AttachFrees
  <1>7. ASSUME NEW o \in Objects, Forget(t, o) PROVE AttachSound'
    <2>1. CASE Kept(o)
      BY <1>7, <2>1, AttachFrame DEF Forget, InContext
    <2>2. CASE ~Kept(o)
      BY <1>3, <1>7, <2>2 DEF Forget, At
    <2> QED BY <2>1, <2>2
  <1> QED BY <1>4, <1>5, <1>6, <1>7

(* Every step.                                                             *)
LEMMA AttachNext ==
    ASSUME IInv, AttachSound, [Next]_vars
    PROVE  AttachSound'
  <1>1. CASE UNCHANGED <<call, attached>> /\ native \subseteq native'
    BY <1>1, AttachFrame DEF InContext
  <1>2. CASE \E t \in Threads : Progress(t)
    BY <1>2, AttachProgress
  <1>3. CASE \/ \E t \in Threads, c \in Contexts : FreeContext(t, c) \/ CtxDtor(t, c)
             \/ \E t \in Threads, o \in Objects : FreeNative(t, o) \/ Forget(t, o)
    BY <1>3, AttachDtors
  <1>4. CASE \E t \in Threads, c \in Contexts, s \in Samplers : SamplerNew(t, c, s)
    <2>1. PICK t \in Threads, c \in Contexts, s \in Samplers : SamplerNew(t, c, s)
      BY <1>4
    <2> DEFINE r == [Idle EXCEPT !.pc = "keep", !.op = "sampler_new", !.obj = c, !.aux = s]
    <2>2. r.pc = "keep" /\ call' = [call EXCEPT ![t] = r] /\ UNCHANGED objVars
      BY <2>1 DEF SamplerNew, Goto, Idle
    <2> HIDE DEF r
    <2> QED BY <2>2, AttachGoto DEF objVars, refVars
  <1>5. CASE \E t \in Threads, c \in Contexts, A \in SUBSET Adapters : SetAdapters(t, c, A)
    <2>1. PICK t \in Threads, c \in Contexts, A \in SUBSET Adapters : SetAdapters(t, c, A)
      BY <1>5
    <2> DEFINE r == [Idle EXCEPT !.pc = IF A = {} THEN "attach" ELSE "adapters",
                                 !.op = "set_adapters", !.obj = c, !.rest = A, !.set = A]
    <2>2. r.pc \in {"attach", "adapters"} /\ call' = [call EXCEPT ![t] = r] /\ UNCHANGED objVars
      BY <2>1 DEF SetAdapters, Goto, Idle
    <2> HIDE DEF r
    <2> QED BY <2>2, AttachGoto DEF objVars, refVars
  <1>6. CASE \E t \in Threads, op \in {"embed", "forward"}, c \in Contexts : DecodeCall(t, op, c)
    <2>1. PICK t \in Threads, op \in {"embed", "forward"}, c \in Contexts : DecodeCall(t, op, c)
      BY <1>6
    <2>2. PICK r \in Calls : call' = [call EXCEPT ![t] = r] /\ r.obj = c
      BY <2>1, DecodingCall DEF DecodeCall, Ops
    <2> QED BY <2>1, <2>2, AttachEnters DEF DecodeCall
  <1>7. CASE \E t \in Threads, op \in {"step", "spec"}, c \in Contexts, s \in Samplers :
                StepCall(t, op, c, s)
    <2>1. PICK t \in Threads, op \in {"step", "spec"}, c \in Contexts, s \in Samplers :
             StepCall(t, op, c, s)
      BY <1>7
    <2> DEFINE r == [Idle EXCEPT !.pc = "sampler", !.op = op, !.obj = c, !.aux = s]
    <2>2. r.obj = c /\ call' = [call EXCEPT ![t] = r] /\ UNCHANGED objVars /\ Ready(c)
      BY <2>1 DEF StepCall, Goto, Idle
    <2> HIDE DEF r
    <2> QED BY <2>2, AttachEnters
  <1>8. CASE \E t \in Threads, c \in Contexts, p \in Projectors : MediaCall(t, c, p)
    <2>1. PICK t \in Threads, c \in Contexts, p \in Projectors : MediaCall(t, c, p)
      BY <1>8
    <2> DEFINE r == [Idle EXCEPT !.pc = "projector", !.op = "media", !.obj = c, !.aux = p]
    <2>2. r.obj = c /\ call' = [call EXCEPT ![t] = r] /\ UNCHANGED objVars /\ Ready(c)
      BY <2>1 DEF MediaCall, Goto, Idle
    <2> HIDE DEF r
    <2> QED BY <2>2, AttachEnters
  <1>9. \A c \in Contexts : RequestAbort(c) \/ DeadlinePasses(c) =>
           UNCHANGED <<call, attached>> /\ native' = native
    BY DEF RequestAbort, DeadlinePasses, objVars, refVars
  <1>10. \A t \in Threads : \A o : Attach(t, o) =>
           UNCHANGED <<call, attached>> /\ native' = native \cup {o}
    BY DEF Attach
  <1>11. \A t \in Threads : FreeModel(t) \/ ForgetModel =>
           UNCHANGED <<call, attached>> /\ native' = native
    BY DEF FreeModel, ForgetModel, objVars, refVars
  <1>12. ForgetModel \/ UNCHANGED vars => UNCHANGED <<call, attached>> /\ native' = native
    BY DEF ForgetModel, vars, objVars, refVars
  <1> QED BY <1>1, <1>2, <1>3, <1>4, <1>5, <1>6, <1>7, <1>8, <1>9, <1>10, <1>11, <1>12 DEF Next

-----------------------------------------------------------------------------
(* What the resources' mutexes and references see to.                      *)

(* What a call uses under the mutexes of its resources is live.            *)
HeldIsLive ==
    \A t \in Threads : Held(t) \subseteq native /\ (Held(t) # {} => model)

(* The invariant says what is promised.                                    *)
LEMMA InvImplies == IInv => TypeOK /\ HeldIsLive /\ BorrowerHasModel /\ CountsExact /\ PendingHasBorrower
  <1> SUFFICES ASSUME IInv
               PROVE  HeldIsLive /\ BorrowerHasModel
    BY DEF IInv
  <1>1. BorrowerHasModel
    BY DEF IInv, NativeKept, KeptHasModel, BorrowerHasModel
  <1>2. ASSUME NEW t \in Threads PROVE Held(t) \subseteq native /\ (Held(t) # {} => model)
    <2>1. HoldsAt(t) /\ call[t].set \subseteq Adapters
      BY DEF IInv, HoldsSound, TypeOK, Calls
    <2>2. CASE call[t].pc \in {"decode", "interrupted"}
      <3>1. call[t].obj \in native \cap Contexts
        BY <2>1, <2>2 DEF HoldsAt
      <3>2. Held(t) \subseteq native
        BY <2>1, <2>2, <3>1 DEF HoldsAt, Held
      <3> QED BY <3>1, <3>2, <1>1 DEF BorrowerHasModel
    <2>3. CASE call[t].pc = "attach"
      <3>1. Held(t) = call[t].set
        BY <2>3 DEF Held
      <3>2. call[t].set \subseteq native
        BY <2>1, <2>3 DEF HoldsAt
      <3> QED BY <3>1, <3>2, <2>1, <1>1 DEF BorrowerHasModel
    <2>4. CASE call[t].pc \notin {"decode", "interrupted", "attach"}
      BY <2>4 DEF Held
    <2> QED BY <2>2, <2>3, <2>4
  <1> QED BY <1>1, <1>2 DEF HeldIsLive

(* With the adapters in turn, all that a call uses is live.                *)
LEMMA AttachImplies == HeldIsLive /\ AttachSound => (AdaptersInTurn => UsedIsLive)
  <1> SUFFICES ASSUME HeldIsLive, AttachSound, AdaptersInTurn, NEW t \in Threads
               PROVE  Uses(t) \subseteq native /\ (Uses(t) # {} => model)
    BY DEF UsedIsLive
  <1>1. Held(t) \subseteq native /\ (Held(t) # {} => model)
    BY DEF HeldIsLive
  <1>2. CASE call[t].pc \in {"decode", "interrupted"}
    <2>1. attached[call[t].obj] \subseteq native
      BY <1>2 DEF AttachSound, InContext
    <2>2. Held(t) # {}
      BY <1>2 DEF Held
    <2> QED BY <1>1, <1>2, <2>1, <2>2 DEF Uses
  <1>3. CASE call[t].pc \notin {"decode", "interrupted"}
    BY <1>1, <1>3 DEF Uses
  <1> QED BY <1>2, <1>3

(* No use after free: whatever explicit frees, destructors and calls of    *)
(* other schedulers interleave, the native objects a call is using under   *)
(* their mutexes and the model behind them are live (nif_free_model,       *)
(* nif_free_context, the destructors of erllama_nif.c against the decodes  *)
(* and set_adapters).  The adapters a context decodes with are not behind  *)
(* a mutex; they are live too when adapters are freed, re-applied and used *)
(* in turn, as erllama_model does.                                         *)
THEOREM NoUseAfterFree == Spec => [](HeldIsLive /\ (AdaptersInTurn => UsedIsLive))
  <1>1. Init => IInv /\ AttachSound
    <2>1. Init => AttachSound
      BY DEF Init, AttachSound, InContext, Idle
    <2> QED BY <2>1, InitInv
  <1>2. IInv /\ AttachSound /\ [Next]_vars => IInv' /\ AttachSound'
    BY NextInv, AttachNext
  <1>3. IInv /\ AttachSound => HeldIsLive /\ (AdaptersInTurn => UsedIsLive)
    BY InvImplies, AttachImplies
  <1> QED BY <1>1, <1>2, <1>3, PTL DEF Spec

(* The deferred release: the counters count the borrowers that still owe a *)
(* drop, a context or an adapter never outlives the model, and a pending   *)
(* release always has somebody left who will perform it.                   *)
THEOREM ReleaseIsSound ==
    Spec => [](TypeOK /\ BorrowerHasModel /\ CountsExact /\ PendingHasBorrower)
  <1>1. Init => IInv
    BY InitInv
  <1>2. IInv /\ [Next]_vars => IInv'
    BY NextInv
  <1>3. IInv => TypeOK /\ BorrowerHasModel /\ CountsExact /\ PendingHasBorrower
    BY InvImplies
  <1> QED BY <1>1, <1>2, <1>3, PTL DEF Spec

-----------------------------------------------------------------------------
(* Interrupts.                                                             *)

\* A flag that is up during a decode that arms went up during it.
InterruptSound ==
    \A t \in Threads :
        call[t].op # "forward" =>
          /\ (call[t].pc = "decode" /\ (abort[call[t].obj] \/ deadline[call[t].obj] = "past"))
                => cause[call[t].obj] # {}
          /\ call[t].pc = "interrupted" => cause[call[t].obj] # {}

\* Two calls are never inside llama_decode with one context.
OneDecoder ==
    \A t, u \in Threads :
        (/\ call[t].pc \in {"decode", "interrupted"}
         /\ call[u].pc \in {"decode", "interrupted", "sampler", "projector"}
         /\ call[t].obj = call[u].obj) => t = u

(* The context's mutex excludes a second decode.                           *)
LEMMA DecodersExclude == IInv => OneDecoder
  BY DEF IInv, HoldsSound, HoldsAt, OneDecoder

(* A step that leaves the flags alone and neither enters nor interrupts a  *)
(* decode.                                                                 *)
LEMMA InterruptFrame ==
    ASSUME InterruptSound, UNCHANGED abortVars,
           \A u \in Threads : \/ call'[u] = call[u]
                              \/ call'[u].pc \notin {"decode", "interrupted"}
    PROVE  InterruptSound'
  BY DEF InterruptSound, abortVars

(* The same for a step that changes one call.                              *)
LEMMA InterruptGoto ==
    ASSUME IInv, InterruptSound, UNCHANGED abortVars, NEW t \in Threads, NEW r,
           call' = [call EXCEPT ![t] = r], r.pc \notin {"decode", "interrupted"}
    PROVE  InterruptSound'
  <1>1. \A u \in Threads : call'[u] = IF u = t THEN r ELSE call[u]
    BY DEF IInv, TypeOK
  <1> QED BY <1>1, InterruptFrame

(* An armed decode starts with both flags down, and the others are not     *)
(* spoken of.                                                              *)
LEMMA InterruptArmed ==
    ASSUME IInv, InterruptSound, NEW t \in Threads, NEW op \in Ops, NEW c \in Contexts,
           NEW x \in Objects \cup {Nobody}, Decoding(t, op, c, x),
           Arm(c) \/ ArmMedia(c) \/ (op = "forward" /\ UNCHANGED <<abort, deadline>>),
           \A u \in Threads : (call[u].pc \in {"decode", "interrupted"} /\ u # t) => call[u].obj # c
    PROVE  InterruptSound'
  <1>1. PICK r \in Calls : /\ call' = [call EXCEPT ![t] = r]
                           /\ r.pc = "decode" /\ r.op = op /\ r.obj = c
    BY DecodingCall
  <1>2. \A u \in Threads : call'[u] = IF u = t THEN r ELSE call[u]
    BY <1>1 DEF IInv, TypeOK
  <1>3. op # "forward" => abort'[c] = FALSE /\ deadline'[c] # "past"
    BY DEF Arm, ArmMedia, IInv, TypeOK
  <1>4. \A d \in Contexts : d # c =>
           abort'[d] = abort[d] /\ deadline'[d] = deadline[d] /\ cause'[d] = cause[d]
    BY DEF Arm, ArmMedia, Decoding, IInv, TypeOK
  <1>5. \A u \in Threads : call[u].pc \in {"decode", "interrupted"} => call[u].obj \in Contexts
    BY DEF IInv, HoldsSound, HoldsAt
  <1> QED BY <1>1, <1>2, <1>3, <1>4, <1>5 DEF InterruptSound

(* The end of a decode clears the record of its own context only.          *)
LEMMA InterruptEnds ==
    ASSUME IInv, InterruptSound, NEW t \in Threads, Return(t), EndDecode(call[t].obj),
           call[t].pc \in {"decode", "interrupted"}
    PROVE  InterruptSound'
  <1>1. \A u \in Threads : call'[u] = IF u = t THEN Idle ELSE call[u]
    BY DEF Return, Goto, IInv, TypeOK
  <1>2. \A u \in Threads : (call[u].pc \in {"decode", "interrupted"} /\ u # t)
           => call[u].obj \in Contexts /\ call[u].obj # call[t].obj
    BY DecodersExclude DEF IInv, HoldsSound, HoldsAt, OneDecoder
  <1>3. \A d \in Contexts : d # call[t].obj => cause'[d] = cause[d]
    BY DEF EndDecode, IInv, TypeOK
  <1>4. UNCHANGED <<abort, deadline>>
    BY DEF EndDecode
  <1> QED BY <1>1, <1>2, <1>3, <1>4, IdleType DEF InterruptSound

(* A flag that goes up under a running decode is recorded.                 *)
LEMMA InterruptFlags ==
    ASSUME IInv, InterruptSound, NEW c \in Contexts, RequestAbort(c) \/ DeadlinePasses(c)
    PROVE  InterruptSound'
  <1>1. call' = call
    BY DEF RequestAbort, DeadlinePasses
  <1>2. PICK what \in {"abort", "deadline"} : Remember(c, what)
    BY DEF RequestAbort, DeadlinePasses
  <1>3. \A d \in Contexts : d # c => abort'[d] = abort[d] /\ deadline'[d] = deadline[d]
    BY DEF RequestAbort, DeadlinePasses, IInv, TypeOK
  <1>4. \A d \in Contexts : cause[d] \subseteq cause'[d]
    BY <1>2 DEF Remember, IInv, TypeOK
  <1>5. (\E t \in Threads : call[t].pc = "decode" /\ call[t].obj = c) => cause'[c] # {}
    BY <1>2 DEF Remember, At, IInv, TypeOK
  <1>6. \A u \in Threads : call[u].pc \in {"decode", "interrupted"} => call[u].obj \in Contexts
    BY DEF IInv, HoldsSound, HoldsAt
  <1> QED BY <1>1, <1>3, <1>4, <1>5, <1>6 DEF InterruptSound

(* An interrupted decode was flagged.                                      *)
LEMMA InterruptTaken ==
    ASSUME IInv, InterruptSound, NEW t \in Threads, DecodeInterrupted(t)
    PROVE  InterruptSound'
  <1> DEFINE r == [call[t] EXCEPT !.pc = "interrupted", !.hung = FALSE]
  <1>1. /\ call[t] \in Calls /\ call[t].pc = "decode"
        /\ call[t].op # "forward" => cause[call[t].obj] # {}
    BY DEF IInv, TypeOK, DecodeInterrupted, At, InterruptSound
  <1>2. r.pc = "interrupted" /\ r.obj = call[t].obj /\ r.op = call[t].op
    BY <1>1 DEF Calls
  <1>3. call' = [call EXCEPT ![t] = r] /\ UNCHANGED abortVars
    BY DEF DecodeInterrupted, Goto
  <1> HIDE DEF r
  <1>4. \A u \in Threads : call'[u] = IF u = t THEN r ELSE call[u]
    BY <1>3 DEF IInv, TypeOK
  <1> QED BY <1>1, <1>2, <1>3, <1>4 DEF InterruptSound, abortVars

(* The steps of a call.                                                    *)
LEMMA InterruptProgress ==
    ASSUME IInv, InterruptSound, NEW t \in Threads, Progress(t)
    PROVE  InterruptSound'
  <1>1. call[t] \in Calls
    BY DEF IInv, TypeOK
  <1>2. CASE DropModel(t)
    <2> DEFINE r == [call[t] EXCEPT !.pc = "release"]
    <2>1. r.pc = "release" /\ call' = [call EXCEPT ![t] = r] /\ UNCHANGED abortVars
      BY <1>1, <1>2 DEF DropModel, Goto, Calls
    <2> HIDE DEF r
    <2> QED BY <2>1, InterruptGoto
  <1>3. CASE Release(t) \/ SamplerKeeps(t) \/ AttachAdapters(t)
    BY <1>3, InterruptGoto, IdleType DEF Release, SamplerKeeps, AttachAdapters, Return, Goto
  <1>4. CASE LockAdapter(t)
    <2>1. PICK a \in LockOrder(call[t].rest) :
             \/ Return(t)
             \/ Goto(t, [call[t] EXCEPT
                           !.rest = @ \ {a},
                           !.pc = IF call[t].rest = {a} THEN "attach" ELSE @])
      BY <1>4 DEF LockAdapter
    <2>2. UNCHANGED abortVars /\ call[t].pc = "adapters"
      BY <1>4 DEF LockAdapter, At
    <2> DEFINE r == [call[t] EXCEPT
                       !.rest = @ \ {a},
                       !.pc = IF call[t].rest = {a} THEN "attach" ELSE @]
    <2>3. r.pc \in {"attach", "adapters"}
      BY <1>1, <2>2 DEF Calls
    <2>4. call' = [call EXCEPT ![t] = Idle] \/ call' = [call EXCEPT ![t] = r]
      BY <2>1 DEF Return, Goto
    <2> HIDE DEF r
    <2> QED BY <2>2, <2>3, <2>4, IdleType, InterruptGoto
  <1>5. CASE TakeSampler(t) \/ TakeProjector(t)
    <2> DEFINE c == call[t].obj
               x == call[t].aux
    <2>1. call[t].pc \in {"sampler", "projector"}
      BY <1>5 DEF TakeSampler, TakeProjector, At
    <2>2. c \in Contexts /\ x \in Objects \cup {Nobody} /\ call[t].op \in Ops
      BY <1>1, <2>1 DEF IInv, HoldsSound, HoldsAt, Calls
    <2>3. \A u \in Threads : (call[u].pc \in {"decode", "interrupted"} /\ u # t) => call[u].obj # c
      BY <2>1, DecodersExclude DEF OneDecoder
    <2>4. \/ Return(t) /\ UNCHANGED abortVars
          \/ Decoding(t, call[t].op, c, x) /\ Arm(c)
          \/ Decoding(t, "media", c, x) /\ ArmMedia(c)
      BY <1>5 DEF TakeSampler, TakeProjector
    <2>5. CASE Return(t) /\ UNCHANGED abortVars
      BY <2>5, InterruptGoto, IdleType DEF Return, Goto
    <2>6. CASE Decoding(t, call[t].op, c, x) /\ Arm(c)
      BY <2>2, <2>3, <2>6, InterruptArmed
    <2>7. CASE Decoding(t, "media", c, x) /\ ArmMedia(c)
      BY <2>2, <2>3, <2>7, InterruptArmed DEF Ops
    <2> QED BY <2>4, <2>5, <2>6, <2>7
  <1>6. CASE DecodeReturns(t) \/ InterruptReported(t)
    BY <1>6, InterruptEnds DEF DecodeReturns, InterruptReported, At
  <1>7. CASE DecodeInterrupted(t)
    BY <1>7, InterruptTaken
  <1> QED BY <1>2, <1>3, <1>4, <1>5, <1>6, <1>7 DEF Progress

(* Every step.                                                             *)
LEMMA InterruptNext ==
    ASSUME IInv, InterruptSound, [Next]_vars
    PROVE  InterruptSound'
  <1>1. CASE UNCHANGED <<call, abortVars>>
    BY <1>1, InterruptFrame
  <1>2. CASE \E t \in Threads : Progress(t)
    BY <1>2, InterruptProgress
  <1>3. CASE \E t \in Threads, c \in Contexts : FreeContext(t, c)
    <2>1. PICK t \in Threads, c \in Contexts : FreeContext(t, c)
      BY <1>3
    <2> DEFINE r == [Idle EXCEPT !.pc = "drop", !.op = "free", !.obj = c]
    <2>2. r.pc = "drop" /\ call' = [call EXCEPT ![t] = r] /\ UNCHANGED abortVars
      BY <2>1, DropCall DEF FreeContext, Goto, Objects, Borrowers
    <2> HIDE DEF r
    <2> QED BY <2>2, InterruptGoto
  <1>4. CASE \E t \in Threads, o \in Objects : Dtor(t, o) /\ UNCHANGED abortVars
    <2>1. PICK t \in Threads, o \in Objects : Dtor(t, o) /\ UNCHANGED abortVars
      BY <1>4
    <2> DEFINE r == [Idle EXCEPT !.pc = "drop", !.op = "free", !.obj = o]
    <2>2. r.pc = "drop" /\ (call' = call \/ call' = [call EXCEPT ![t] = r])
      BY <2>1, DropCall DEF Dtor, Goto
    <2> HIDE DEF r
    <2> QED BY <2>1, <2>2, InterruptGoto, InterruptFrame
  <1>5. CASE \E t \in Threads, c \in Contexts, s \in Samplers : SamplerNew(t, c, s)
    <2>1. PICK t \in Threads, c \in Contexts, s \in Samplers : SamplerNew(t, c, s)
      BY <1>5
    <2> DEFINE r == [Idle EXCEPT !.pc = "keep", !.op = "sampler_new", !.obj = c, !.aux = s]
    <2>2. r.pc = "keep" /\ call' = [call EXCEPT ![t] = r] /\ UNCHANGED abortVars
      BY <2>1 DEF SamplerNew, Goto, Idle
    <2> HIDE DEF r
    <2> QED BY <2>2, InterruptGoto
  <1>6. CASE \E t \in Threads, c \in Contexts, A \in SUBSET Adapters : SetAdapters(t, c, A)
    <2>1. PICK t \in Threads, c \in Contexts, A \in SUBSET Adapters : SetAdapters(t, c, A)
      BY <1>6
    <2> DEFINE r == [Idle EXCEPT !.pc = IF A = {} THEN "attach" ELSE "adapters",
                                 !.op = "set_adapters", !.obj = c, !.rest = A, !.set = A]
    <2>2. r.pc \in {"attach", "adapters"} /\ call' = [call EXCEPT ![t] = r] /\ UNCHANGED abortVars
      BY <2>1 DEF SetAdapters, Goto, Idle
    <2> HIDE DEF r
    <2> QED BY <2>2, InterruptGoto
  <1>7. CASE \E t \in Threads, op \in {"embed", "forward"}, c \in Contexts : DecodeCall(t, op, c)
    <2>1. PICK t \in Threads, op \in {"embed", "forward"}, c \in Contexts : DecodeCall(t, op, c)
      BY <1>7
    <2>2. /\ op \in Ops /\ Decoding(t, op, c, Nobody) /\ lock[c] = Nobody
          /\ Arm(c) \/ (op = "forward" /\ UNCHANGED <<abort, deadline>>)
      BY <2>1 DEF DecodeCall, Ready, Ops, Unlocked
    <2>3. \A u \in Threads : call[u].pc \in {"decode", "interrupted"} => call[u].obj # c
      BY <2>2, SlotsAssumption DEF IInv, HoldsSound, HoldsAt
    <2> QED BY <2>2, <2>3, InterruptArmed
  <1>8. CASE \E t \in Threads, op \in {"step", "spec"}, c \in Contexts, s \in Samplers :
                StepCall(t, op, c, s)
    <2>1. PICK t \in Threads, op \in {"step", "spec"}, c \in Contexts, s \in Samplers :
             StepCall(t, op, c, s)
      BY <1>8
    <2> DEFINE r == [Idle EXCEPT !.pc = "sampler", !.op = op, !.obj = c, !.aux = s]
    <2>2. r.pc = "sampler" /\ call' = [call EXCEPT ![t] = r] /\ UNCHANGED abortVars
      BY <2>1 DEF StepCall, Goto, Idle
    <2> HIDE DEF r
    <2> QED BY <2>2, InterruptGoto
  <1>9. CASE \E t \in Threads, c \in Contexts, p \in Projectors : MediaCall(t, c, p)
    <2>1. PICK t \in Threads, c \in Contexts, p \in Projectors : MediaCall(t, c, p)
      BY <1>9
    <2> DEFINE r == [Idle EXCEPT !.pc = "projector", !.op = "media", !.obj = c, !.aux = p]
    <2>2. r.pc = "projector" /\ call' = [call EXCEPT ![t] = r] /\ UNCHANGED abortVars
      BY <2>1 DEF MediaCall, Goto, Idle
    <2> HIDE DEF r
    <2> QED BY <2>2, InterruptGoto
  <1>10. CASE \E c \in Contexts : RequestAbort(c) \/ DeadlinePasses(c)
    BY <1>10, InterruptFlags
  <1>11. UNCHANGED vars => UNCHANGED <<call, abortVars>>
    BY DEF vars
  <1>12. \A t \in Threads, o \in Objects : Forget(t, o) =>
            UNCHANGED <<call, abortVars>> \/ (Dtor(t, o) /\ UNCHANGED abortVars)
    BY DEF Forget
  <1>13. \A t \in Threads, c \in Contexts : CtxDtor(t, c) =>
            c \in Objects /\ Dtor(t, c) /\ UNCHANGED abortVars
    BY DEF CtxDtor, Objects, Borrowers
  <1>14. \A t \in Threads : FreeModel(t) => UNCHANGED <<call, abortVars>>
    BY DEF FreeModel
  <1>15. ForgetModel => UNCHANGED <<call, abortVars>>
    BY DEF ForgetModel
  <1>16. \A t \in Threads : \A o : Attach(t, o) \/ FreeNative(t, o) => UNCHANGED <<call, abortVars>>
    BY DEF Attach, FreeNative
  <1> QED BY <1>1, <1>2, <1>3, <1>4, <1>5, <1>6, <1>7, <1>8, <1>9, <1>10, <1>11, <1>12,
             <1>13, <1>14, <1>15, <1>16 DEF Next

(* A decode that arms (all but nif_prefill and nif_forward_with_argmax do) *)
(* is ended only by an abort request or a deadline of its own, never by    *)
(* one left over from an earlier call.                                     *)
THEOREM InterruptsAreOwn == Spec => []InterruptIsOwn
  <1>1. Init => IInv /\ InterruptSound
    <2>1. Init => InterruptSound
      BY IdleType DEF Init, InterruptSound
    <2> QED BY <2>1, InitInv
  <1>2. IInv /\ InterruptSound /\ [Next]_vars => IInv' /\ InterruptSound'
    BY NextInv, InterruptNext
  <1>3. InterruptSound => InterruptIsOwn
    BY DEF InterruptSound, InterruptIsOwn
  <1> QED BY <1>1, <1>2, <1>3, PTL DEF Spec

=============================================================================
