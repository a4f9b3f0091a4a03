------------------------ MODULE ModelSessionsProofs ------------------------
(***************************************************************************)
(* Proof that the model process never gives a seq to two owners, for any   *)
(* number of seqs, clients and sessions, serialised or not.                *)
(*                                                                         *)
(* Owned states the claim for an idle list, a request table and a session  *)
(* map that need not be the current ones, because an admission goes        *)
(* through intermediate values: a diverging session drops its pin, a pin   *)
(* is reclaimed, and only then a seq is taken.                             *)
(***************************************************************************)
EXTENDS ModelSessions, TLAPS

Owned(bag, t, p) ==
    /\ \A q \in Seqs :
          /\ bag[q] <= 1
          /\ bag[q] = 1 => t[q] = NoClient /\ \A s \in Sessions : p[s] # q
    /\ \A s, u \in Sessions : s # u /\ p[s] # NoSeq => p[s] # p[u]
    /\ \A q \in Seqs, s \in Sessions :
          t[q] # NoClient /\ p[s] = q => Session[t[q]] = s

Bags_  == [Seqs -> Nat]
Tables == [Seqs -> Clients \cup {NoClient}]
Pins   == [Sessions -> Seqs \cup {NoSeq}]

\* A seq nobody owns: taken from the list, or its pin was just removed.
Unowned(q, bag, t, p) ==
    q \in Seqs /\ bag[q] = 0 /\ t[q] = NoClient /\ \A s \in Sessions : p[s] # q

MediaClients == {c \in Clients : Kind[c] = "media"}

\* The inductive invariant: a failed media prefill frees its seq at once, so
\* only requests without a session may wait for one.
IInv == SlotsTyped /\ SeqOwnedOnce /\ mediaWait \subseteq MediaClients

\* SeqOwnedOnce is Owned of the current slots.
LEMMA OwnedNow == SeqOwnedOnce <=> Owned(idle, table, pin)
  BY DEF SeqOwnedOnce, Owned, InFlight

LEMMA NoSeqIsNoSeq == NoSeq \notin Seqs
  BY ClientsAssumption DEF Seqs

\* Removing the pin of a session whose seq serves no request leaves that seq
\* without an owner (drop_session/2, before the seq is pushed back).
LEMMA UnpinSafe ==
  ASSUME NEW p \in Pins, NEW bag \in Bags_, table \in Tables,
         Owned(bag, table, p), NEW s \in IdlePins(p)
  PROVE  /\ Unpin(p, s) \in Pins
         /\ Owned(bag, table, Unpin(p, s))
         /\ Unowned(p[s], bag, table, Unpin(p, s))
  <1>1. s \in Sessions /\ p[s] \in Seqs /\ table[p[s]] = NoClient
    BY DEF IdlePins, InFlight, Pins
  <1>2. Unpin(p, s) \in Pins
    BY DEF Unpin, Pins
  <1>3. \A u \in Sessions : Unpin(p, s)[u] = IF u = s THEN NoSeq ELSE p[u]
    BY DEF Unpin, Pins
  <1>4. Owned(bag, table, Unpin(p, s))
    BY <1>1, <1>3, NoSeqIsNoSeq DEF Owned
  <1>5. bag[p[s]] \in Nat /\ bag[p[s]] <= 1 /\ bag[p[s]] # 1
    BY <1>1 DEF Owned, Bags_
  <1>6. \A u \in Sessions : Unpin(p, s)[u] # p[s]
    BY <1>1, <1>3, NoSeqIsNoSeq DEF Owned
  <1>. QED
    BY <1>1, <1>2, <1>4, <1>5, <1>6 DEF Unowned

\* A seq nobody owns may be pushed on the idle list.
LEMMA PushSafe ==
  ASSUME NEW p \in Pins, NEW bag \in Bags_, NEW t \in Tables, NEW q,
         Owned(bag, t, p), Unowned(q, bag, t, p)
  PROVE  Push(bag, q) \in Bags_ /\ Owned(Push(bag, q), t, p)
  <1>1. q \in Seqs /\ bag[q] = 0
    BY DEF Unowned
  <1>2. Push(bag, q) \in Bags_
    BY <1>1 DEF Push, Bags_
  <1>3. \A r \in Seqs : Push(bag, q)[r] = IF r = q THEN 1 ELSE bag[r]
    BY <1>1 DEF Push, Bags_
  <1>. QED
    BY <1>1, <1>2, <1>3 DEF Owned, Unowned

\* A seq nobody owns may be given to a request (put_req/2).
LEMMA ServeSafe ==
  ASSUME NEW p \in Pins, NEW bag \in Bags_, NEW t \in Tables, NEW q,
         NEW c \in Clients,
         Owned(bag, t, p), Unowned(q, bag, t, p)
  PROVE  [t EXCEPT ![q] = c] \in Tables /\ Owned(bag, [t EXCEPT ![q] = c], p)
  <1>1. q \in Seqs /\ bag[q] = 0
    BY DEF Unowned
  <1>2. [t EXCEPT ![q] = c] \in Tables
    BY <1>1 DEF Tables
  <1>3. \A r \in Seqs : [t EXCEPT ![q] = c][r] = IF r = q THEN c ELSE t[r]
    BY <1>1 DEF Tables
  <1>. QED
    BY <1>1, <1>2, <1>3 DEF Owned, Unowned

\* Every way to get a seq yields one nobody owns.
LEMMA AllocSafe ==
  ASSUME NEW p \in Pins, NEW bag \in Bags_, table \in Tables, NEW keep,
         Owned(bag, table, p), NEW a \in Alloc(p, bag, keep)
  PROVE  /\ a.pin \in Pins /\ a.idle \in Bags_
         /\ Owned(a.idle, table, a.pin)
         /\ Unowned(a.seq, a.idle, table, a.pin)
  <1>1. CASE \E q \in Seqs : bag[q] > 0
    <2>1. PICK q \in Seqs : bag[q] > 0
                            /\ a = [pin |-> p, idle |-> Pop(bag, q), seq |-> q]
      BY <1>1 DEF Alloc
    <2>2. bag[q] = 1
      BY <2>1 DEF Owned, Bags_
    <2>3. Pop(bag, q) \in Bags_
          /\ \A r \in Seqs : Pop(bag, q)[r] = IF r = q THEN 0 ELSE bag[r]
      BY <2>2 DEF Pop, Bags_
    <2>. QED
      BY <2>1, <2>2, <2>3 DEF Owned, Unowned
  <1>2. CASE ~ \E q \in Seqs : bag[q] > 0
    <2>1. PICK s \in IdlePins(p) : a = [pin |-> Unpin(p, s), idle |-> bag, seq |-> p[s]]
      BY <1>2 DEF Alloc
    <2>. QED
      BY <2>1, UnpinSafe
  <1>. QED
    BY <1>1, <1>2

\* resolve_admission_seq/2 keeps the slots consistent.
LEMMA ResolveSafe ==
  ASSUME SlotsTyped, SeqOwnedOnce, NEW c \in Clients, NEW r \in Resolve(c)
  PROVE  r.pin \in Pins /\ r.idle \in Bags_ /\ Owned(r.idle, table, r.pin)
  <1>1. pin \in Pins /\ idle \in Bags_ /\ table \in Tables /\ Owned(idle, table, pin)
    BY OwnedNow DEF SlotsTyped, Pins, Bags_, Tables
  <1>2. CASE r = [pin |-> pin, idle |-> idle]
    BY <1>1, <1>2
  <1>3. CASE Session[c] \in IdlePins(pin)
             /\ r = [pin |-> Unpin(pin, Session[c]),
                     idle |-> Push(idle, pin[Session[c]])]
    BY <1>1, <1>3, UnpinSafe, PushSafe
  <1>. QED
    BY <1>2, <1>3 DEF Resolve

-----------------------------------------------------------------------------
(* The three ways a step changes the slots.                                *)

\* What IInv says, in the terms of the lemmas above.
LEMMA SlotsNow ==
  ASSUME IInv
  PROVE  /\ pin \in Pins /\ idle \in Bags_ /\ table \in Tables
         /\ Owned(idle, table, pin)
         /\ pending \in Seq(Clients) /\ finishing \subseteq Clients
         /\ cancelling \subseteq Clients /\ mediaWait \subseteq MediaClients
  BY OwnedNow DEF IInv, SlotsTyped, Pins, Bags_, Tables

\* ... and in the next state.
LEMMA SlotsNext ==
  ASSUME pin' \in Pins, idle' \in Bags_, table' \in Tables,
         Owned(idle', table', pin'),
         pending' \in Seq(Clients), finishing' \subseteq Clients,
         cancelling' \subseteq Clients, mediaWait' \subseteq MediaClients
  PROVE  IInv'
  BY DEF IInv, SlotsTyped, SeqOwnedOnce, Owned, InFlight, Pins, Bags_, Tables, MediaClients

LEMMA ServedAreClients ==
  ASSUME table \in Tables
  PROVE  Served \subseteq Clients
  BY DEF Served, Serving, InFlight, Tables

\* A request that runs where it ran leaves the slots alone.
LEMMA MarksSafe ==
  ASSUME IInv, UNCHANGED slots, pending' = pending, cancelling' = cancelling,
         finishing' \subseteq Clients, mediaWait' \subseteq mediaWait
  PROVE  IInv'
  BY SlotsNow, SlotsNext DEF slots

\* A request on the seq its session pins (sticky and continue).
LEMMA StickySafe ==
  ASSUME IInv, NEW c \in Clients, Session[c] \in IdlePins(pin),
         table' = [table EXCEPT ![pin[Session[c]]] = c],
         UNCHANGED <<idle, pin, pending, finishing, cancelling>>,
         mediaWait' \subseteq MediaClients
  PROVE  IInv'
  <1> DEFINE s == Session[c]
             q == pin[s]
  <1>0. pin \in Pins /\ idle \in Bags_ /\ table \in Tables /\ Owned(idle, table, pin)
    BY SlotsNow
  <1>1. s \in Sessions /\ q \in Seqs /\ table[q] = NoClient
    BY <1>0 DEF IdlePins, InFlight, Pins
  <1>2. table' \in Tables /\ \A r \in Seqs : table'[r] = IF r = q THEN c ELSE table[r]
    BY <1>0, <1>1 DEF Tables
  <1>3. idle[q] # 1 /\ \A u \in Sessions : pin[u] = q => u = s
    BY <1>0, <1>1, NoSeqIsNoSeq DEF Owned
  <1> HIDE DEF q, s
  <1>4. Session[c] = s
    BY DEF s
  <1>5. Owned(idle, table', pin)
    BY <1>0, <1>1, <1>2, <1>3, <1>4 DEF Owned
  <1>. QED
    BY <1>0, <1>2, <1>5, SlotsNow, SlotsNext

\* A request of a session that ends leaves its seq to the session.
LEMMA PinSafe ==
  ASSUME IInv, NEW q \in Seqs, NEW s \in Sessions,
         table[q] \in Clients, Session[table[q]] = s,
         table' = [table EXCEPT ![q] = NoClient],
         pin' = [pin EXCEPT ![s] = q], idle' = idle
  PROVE  pin' \in Pins /\ table' \in Tables /\ Owned(idle', table', pin')
  <1>0. pin \in Pins /\ idle \in Bags_ /\ table \in Tables /\ Owned(idle, table, pin)
    BY SlotsNow
  <1>1. pin' \in Pins /\ \A u \in Sessions : pin'[u] = IF u = s THEN q ELSE pin[u]
    BY <1>0 DEF Pins
  <1>2. table' \in Tables
        /\ \A r \in Seqs : table'[r] = IF r = q THEN NoClient ELSE table[r]
    BY <1>0 DEF Tables
  <1>3. table[q] # NoClient
    BY ClientsAssumption
  <1>4. \A u \in Sessions : pin[u] = q => u = s
    BY <1>0, <1>3 DEF Owned
  <1>5. idle[q] # 1
    BY <1>0, <1>3 DEF Owned
  <1>. QED
    BY <1>0, <1>1, <1>2, <1>3, <1>4, <1>5 DEF Owned

\* A request that leaves a seq no session pins frees it.
LEMMA FreeSafe ==
  ASSUME IInv, NEW q \in Seqs, table[q] \in Clients, Session[table[q]] \notin Sessions,
         table' = [table EXCEPT ![q] = NoClient],
         idle' = Push(idle, q), pin' = pin
  PROVE  idle' \in Bags_ /\ table' \in Tables /\ Owned(idle', table', pin')
  <1>0. pin \in Pins /\ idle \in Bags_ /\ table \in Tables /\ Owned(idle, table, pin)
    BY SlotsNow
  <1>1. table' \in Tables
        /\ \A r \in Seqs : table'[r] = IF r = q THEN NoClient ELSE table[r]
    BY <1>0 DEF Tables
  <1>2. table[q] # NoClient
    BY ClientsAssumption
  <1>3. idle[q] = 0 /\ \A u \in Sessions : pin[u] # q
    BY <1>0, <1>2 DEF Owned, Bags_
  <1>4. Owned(idle, table', pin)
    BY <1>0, <1>1, <1>3 DEF Owned
  <1>5. Unowned(q, idle, table', pin)
    BY <1>1, <1>3 DEF Unowned
  <1>. QED
    BY <1>0, <1>1, <1>4, <1>5, PushSafe

-----------------------------------------------------------------------------
(* One lemma per group of actions.                                         *)

\* Only media requests start with a prefill to wait for.
LEMMA StartWaits ==
  ASSUME IInv, NEW c \in Clients, NEW q, NEW n, StartRequest(c, q, n)
  PROVE  mediaWait' \subseteq MediaClients
  BY SlotsNow DEF StartRequest, MediaClients

\* A normal admission: the seq comes from resolve_admission_seq/2 and Alloc.
LEMMA AdmitNormalStep ==
  ASSUME IInv, NEW c \in Clients, AdmitNormal(c)
  PROVE  IInv'
  <1>1. PICK r \in Resolve(c) : \E a \in Alloc(r.pin, r.idle, {}) :
             /\ pin' = a.pin /\ idle' = a.idle
             /\ table' = [table EXCEPT ![a.seq] = c]
             /\ UNCHANGED <<pending, finishing, cancelling>>
    BY DEF AdmitNormal, StartAdmission, StartRequest
  <1>2. PICK a \in Alloc(r.pin, r.idle, {}) :
             /\ pin' = a.pin /\ idle' = a.idle
             /\ table' = [table EXCEPT ![a.seq] = c]
             /\ UNCHANGED <<pending, finishing, cancelling>>
    BY <1>1
  <1>3. r.pin \in Pins /\ r.idle \in Bags_ /\ Owned(r.idle, table, r.pin)
    BY ResolveSafe DEF IInv
  <1>4. /\ a.pin \in Pins /\ a.idle \in Bags_ /\ Owned(a.idle, table, a.pin)
        /\ Unowned(a.seq, a.idle, table, a.pin)
    BY <1>3, AllocSafe, SlotsNow
  <1>5. table' \in Tables /\ Owned(idle', table', pin')
    BY <1>2, <1>4, ServeSafe, SlotsNow
  <1>6. PICK q, n : StartRequest(c, q, n)
    BY DEF AdmitNormal, StartAdmission
  <1>7. mediaWait' \subseteq MediaClients
    BY <1>6, StartWaits
  <1>. QED
    BY <1>2, <1>4, <1>5, <1>7, SlotsNow, SlotsNext

LEMMA AdmitFailedStep ==
  ASSUME IInv, NEW c \in Clients, AdmitFailed(c)
  PROVE  IInv'
  <1>1. UNCHANGED <<table, pending, finishing, cancelling, mediaWait>>
    BY DEF AdmitFailed, Refuse, progress
  <1>2. PICK r \in Resolve(c) : \E a \in Alloc(r.pin, r.idle, {}) :
             pin' = a.pin /\ idle' = Push(a.idle, a.seq)
    BY DEF AdmitFailed
  <1>3. PICK a \in Alloc(r.pin, r.idle, {}) :
             pin' = a.pin /\ idle' = Push(a.idle, a.seq)
    BY <1>2
  <1>4. r.pin \in Pins /\ r.idle \in Bags_ /\ Owned(r.idle, table, r.pin)
    BY ResolveSafe DEF IInv
  <1>5. /\ a.pin \in Pins /\ a.idle \in Bags_ /\ Owned(a.idle, table, a.pin)
        /\ Unowned(a.seq, a.idle, table, a.pin)
    BY <1>4, AllocSafe, SlotsNow
  <1>6. idle' \in Bags_ /\ Owned(idle', table, pin')
    BY <1>3, <1>5, PushSafe, SlotsNow
  <1>. QED
    BY <1>1, <1>3, <1>5, <1>6, SlotsNow, SlotsNext

\* The other calls use the session's own seq, the queue, or nothing.
LEMMA CallStep ==
  ASSUME IInv, NEW c \in Clients, Call(c)
  PROVE  IInv'
  <1>1. CASE AdmitSticky(c)
    BY <1>1, StickySafe, StartWaits DEF AdmitSticky, StartAdmission, StartRequest
  <1>2. CASE AdmitContinue(c)
    BY <1>2, StickySafe, StartWaits DEF AdmitContinue, StartAdmission, StartRequest
  <1>3. CASE RefuseBusy(c) \/ RefusePinned(c) \/ RefuseFull(c)
    <2>1. UNCHANGED <<slots, pending, finishing, cancelling, mediaWait>>
      BY <1>3 DEF RefuseBusy, RefusePinned, RefuseFull, Refuse, progress, slots
    <2>. QED
      BY <2>1, SlotsNow, SlotsNext DEF slots
  <1>4. CASE Enqueue(c)
    <2>1. pending' \in Seq(Clients)
      BY <1>4, SlotsNow DEF Enqueue
    <2>2. UNCHANGED <<slots, finishing, cancelling, mediaWait>>
      BY <1>4 DEF Enqueue, progress
    <2>. QED
      BY <2>1, <2>2, SlotsNow, SlotsNext DEF slots
  <1>. QED
    BY <1>1, <1>2, <1>3, <1>4, AdmitNormalStep, AdmitFailedStep DEF Call

LEMMA EndSessionStep ==
  ASSUME IInv, NEW s \in Sessions, EndSession(s)
  PROVE  IInv'
  <1>1. UNCHANGED <<table, pending, finishing, cancelling, mediaWait>>
    BY DEF EndSession, progress
  <1>2. s \in IdlePins(pin) /\ pin' = Unpin(pin, s) /\ idle' = Push(idle, pin[s])
    BY DEF EndSession
  <1>3. /\ pin' \in Pins /\ Owned(idle, table, pin')
        /\ Unowned(pin[s], idle, table, pin')
    BY <1>2, UnpinSafe, SlotsNow
  <1>4. idle' \in Bags_ /\ Owned(idle', table, pin')
    BY <1>2, <1>3, PushSafe, SlotsNow
  <1>. QED
    BY <1>1, <1>3, <1>4, SlotsNow, SlotsNext

\* The new seq of a fork is pinned by the new session, or pushed back.
LEMMA ForkStep ==
  ASSUME IInv, NEW s \in Sessions, NEW d \in Sessions, ForkSession(s, d)
  PROVE  IInv'
  <1>1. UNCHANGED <<table, pending, finishing, cancelling, mediaWait>> /\ pin[d] = NoSeq
    BY DEF ForkSession, progress
  <1>2. PICK a \in Alloc(pin, idle, {s}) :
             \/ pin' = [a.pin EXCEPT ![d] = a.seq] /\ idle' = a.idle
             \/ pin' = a.pin /\ idle' = Push(a.idle, a.seq)
    BY DEF ForkSession
  <1>3. /\ a.pin \in Pins /\ a.idle \in Bags_ /\ Owned(a.idle, table, a.pin)
        /\ Unowned(a.seq, a.idle, table, a.pin)
    BY AllocSafe, SlotsNow
  <1>4. CASE pin' = [a.pin EXCEPT ![d] = a.seq] /\ idle' = a.idle
    <2>1. a.seq \in Seqs /\ table[a.seq] = NoClient /\ a.idle[a.seq] = 0
          /\ \A u \in Sessions : a.pin[u] # a.seq
      BY <1>3 DEF Unowned
    <2>2. pin' \in Pins
          /\ \A u \in Sessions : pin'[u] = IF u = d THEN a.seq ELSE a.pin[u]
      BY <1>3, <1>4, <2>1 DEF Pins
    <2>3. Owned(idle', table, pin')
      BY <1>3, <1>4, <2>1, <2>2 DEF Owned
    <2>. QED
      BY <1>1, <1>3, <1>4, <2>2, <2>3, SlotsNow, SlotsNext
  <1>5. CASE pin' = a.pin /\ idle' = Push(a.idle, a.seq)
    <2>1. idle' \in Bags_ /\ Owned(idle', table, pin')
      BY <1>3, <1>5, PushSafe, SlotsNow
    <2>. QED
      BY <1>1, <1>3, <1>5, <2>1, SlotsNow, SlotsNext
  <1>. QED
    BY <1>2, <1>4, <1>5

\* A reset takes the seq from its request and from its session.
LEMMA ResetStep ==
  ASSUME IInv, NEW s \in Sessions, ResetSession(s)
  PROVE  IInv'
  <1> DEFINE q == pin[s]
  <1>0. pin \in Pins /\ idle \in Bags_ /\ table \in Tables /\ Owned(idle, table, pin)
    BY SlotsNow
  <1>1. /\ q \in Seqs
        /\ table' = [table EXCEPT ![q] = NoClient]
        /\ pin' = [pin EXCEPT ![s] = NoSeq] /\ idle' = [idle EXCEPT ![q] = @ + 1]
        /\ pending' = pending
        /\ finishing' \subseteq finishing /\ cancelling' \subseteq cancelling
        /\ mediaWait' \subseteq mediaWait
    BY <1>0 DEF ResetSession, Forget, Unpin, Push, Pins
  <1>2. idle[q] = 0 /\ \A u \in Sessions : pin[u] = q => u = s
    BY <1>0, <1>1, NoSeqIsNoSeq DEF Owned, Bags_
  <1> HIDE DEF q
  <1>3. /\ table' \in Tables /\ pin' \in Pins /\ idle' \in Bags_
        /\ \A r \in Seqs : /\ table'[r] = IF r = q THEN NoClient ELSE table[r]
                           /\ idle'[r] = IF r = q THEN 1 ELSE idle[r]
        /\ \A u \in Sessions : pin'[u] = IF u = s THEN NoSeq ELSE pin[u]
    BY <1>0, <1>1, <1>2 DEF Tables, Pins, Bags_
  <1>4. Owned(idle', table', pin')
    BY <1>0, <1>1, <1>2, <1>3, NoSeqIsNoSeq DEF Owned
  <1>. QED
    BY <1>1, <1>3, <1>4, SlotsNow, SlotsNext

\* Whatever a tick marks as finishing is a client.
LEMMA MarkedAreClients ==
  ASSUME IInv, NEW more \in SUBSET Clients, NEW rest
  PROVE  Terminal(Marked \cup more, rest) \subseteq Clients
  BY SlotsNow, ServedAreClients DEF Terminal, Marked

LEMMA StepTickStep ==
  ASSUME IInv, TickStep
  PROVE  IInv'
  <1>1. UNCHANGED <<slots, pending, cancelling, mediaWait>>
    BY DEF TickStep
  <1>2. {table[q] : q \in DecodeRows} \subseteq Clients
    BY ServedAreClients, SlotsNow DEF DecodeRows, Active, Served
  <1>3. \E ended, rows, failed \in SUBSET Clients :
           \E rest, gen : Decoded(rows, ended, failed, rest, gen)
    BY <1>2 DEF TickStep
  <1>4. PICK ended, rows, failed \in SUBSET Clients :
           \E rest, gen : Decoded(rows, ended, failed, rest, gen)
    BY <1>3
  <1>5. PICK rest, gen : Decoded(rows, ended, failed, rest, gen)
    BY <1>4
  <1> DEFINE more == ended \cup failed \cup {c \in rows : gen[c] = 0}
  <1>6. finishing' = Terminal(Marked \cup more, rest)
    BY <1>5 DEF Decoded, Terminal
  <1>7. finishing' \subseteq Clients
    BY <1>6, MarkedAreClients
  <1>. QED
    BY <1>1, <1>7, MarksSafe

LEMMA SpecTickStep ==
  ASSUME IInv, TickSpec
  PROVE  IInv'
  <1>1. UNCHANGED <<slots, pending, cancelling, mediaWait>>
    BY DEF TickSpec
  <1>2. {table[q] : q \in DecodeRows} \subseteq Clients
    BY ServedAreClients, SlotsNow DEF DecodeRows, Active, Served
  <1>3. PICK c \in Clients : \E n : \E ended \in SUBSET {c} :
           Decoded({c}, ended, {}, left, [todo EXCEPT ![c] = @ - n])
    BY <1>2 DEF TickSpec
  <1>4. finishing' \subseteq Clients
    BY <1>3, MarkedAreClients DEF Decoded
  <1>. QED
    BY <1>1, <1>4, MarksSafe

\* The failed media request is the only active one; it has no session.
LEMMA MediaFailedStep ==
  ASSUME IInv, TickMediaFailed
  PROVE  IInv'
  <1> DEFINE q == CHOOSE r \in Active : TRUE
  <1>1. q \in Active /\ table[q] \in mediaWait
    BY DEF TickMediaFailed, MediaTurn
  <1>2. /\ table' = [table EXCEPT ![q] = NoClient] /\ idle' = Push(idle, q)
        /\ pin' = pin /\ pending' = pending /\ cancelling' = cancelling
        /\ finishing' \subseteq Terminal(Marked, left) /\ mediaWait' \subseteq mediaWait
    BY DEF TickMediaFailed
  <1> HIDE DEF q
  <1>3. q \in Seqs /\ table[q] \in Clients /\ Session[table[q]] \notin Sessions
    BY <1>1, SlotsNow, ClientsAssumption DEF Active, Serving, MediaClients
  <1>4. idle' \in Bags_ /\ table' \in Tables /\ Owned(idle', table', pin')
    BY <1>2, <1>3, FreeSafe
  <1>5. finishing' \subseteq Clients
    BY <1>2, SlotsNow, ServedAreClients DEF Terminal, Marked
  <1>. QED
    BY <1>2, <1>4, <1>5, SlotsNow, SlotsNext

\* The whole context is recreated: init's data again.
LEMMA FreshIsOwned ==
  ASSUME NEW bag, NEW t, NEW p, bag = AllIdle, t = NoRequest, p = NoPin
  PROVE  bag \in Bags_ /\ t \in Tables /\ p \in Pins /\ Owned(bag, t, p)
  BY NoSeqIsNoSeq DEF AllIdle, NoRequest, NoPin, Owned, Bags_, Tables, Pins

LEMMA FreshStep ==
  ASSUME Fresh
  PROVE  IInv'
  <1>1. idle' \in Bags_ /\ table' \in Tables /\ pin' \in Pins
        /\ Owned(idle', table', pin')
    BY FreshIsOwned DEF Fresh
  <1>2. pending' \in Seq(Clients) /\ finishing' = {} /\ cancelling' = {} /\ mediaWait' = {}
    BY DEF Fresh
  <1>. QED
    BY <1>1, <1>2, SlotsNext

LEMMA TickKeeps ==
  ASSUME IInv, Tick
  PROVE  IInv'
  <1>1. CASE TickMedia
    <2>1. finishing' \subseteq Clients
      BY <1>1, SlotsNow, ServedAreClients DEF TickMedia, Terminal, Marked
    <2>. QED
      BY <1>1, <2>1, MarksSafe DEF TickMedia
  <1>2. CASE TickRecover
    BY <1>2, FreshStep DEF TickRecover
  <1>3. CASE TickFatal \/ TickCrash \/ TickIgnored
    <2>1. UNCHANGED <<slots, pending, progress>>
      BY <1>3 DEF TickFatal, TickCrash, TickIgnored, Stop
    <2>. QED
      BY <2>1, SlotsNow, MarksSafe DEF progress
  <1>. QED
    BY <1>1, <1>2, <1>3, StepTickStep, SpecTickStep, MediaFailedStep DEF Tick

\* finish_req/4: the seq goes to the session, or back to the idle list.
LEMMA FinishStep ==
  ASSUME IInv, NEW q \in Seqs, FinishReq(q)
  PROVE  IInv'
  <1> DEFINE s == Session[table[q]]
  <1>1. /\ table' = [table EXCEPT ![q] = NoClient] /\ pending' = pending
        /\ finishing' \subseteq finishing /\ cancelling' \subseteq cancelling
        /\ mediaWait' \subseteq mediaWait /\ table[q] \in Clients
    BY SlotsNow DEF FinishReq, Forget
  <1>2. CASE s = NoSession
    <2>1. idle' = Push(idle, q) /\ pin' = pin /\ s \notin Sessions
      BY <1>2, ClientsAssumption DEF FinishReq
    <2>. QED
      BY <1>1, <2>1, FreeSafe, SlotsNow, SlotsNext
  <1>3. CASE s # NoSession
    <2>1. idle' = idle /\ pin' = [pin EXCEPT ![s] = q] /\ s \in Sessions
      BY <1>1, <1>3, ClientsAssumption DEF FinishReq
    <2>. QED
      BY <1>1, <2>1, PinSafe, SlotsNow, SlotsNext
  <1>. QED
    BY <1>2, <1>3

\* dispatch_pending_admits/2 serves the head of the queue or pushes the seq back.
LEMMA DispatchStep ==
  ASSUME IInv, Dispatch
  PROVE  IInv'
  <1> DEFINE c == Head(pending)
  <1>1. c \in Clients /\ pending' \in Seq(Clients)
    BY SlotsNow DEF Dispatch
  <1>2. PICK a \in Alloc(pin, idle, {}) :
          /\ pin' = a.pin
          /\ \/ idle' = a.idle /\ \E n : StartRequest(c, a.seq, n)
             \/ idle' = Push(a.idle, a.seq) /\ UNCHANGED <<table, progress>>
    BY DEF Dispatch, Dispatchable
  <1>3. /\ a.pin \in Pins /\ a.idle \in Bags_ /\ Owned(a.idle, table, a.pin)
        /\ Unowned(a.seq, a.idle, table, a.pin)
    BY AllocSafe, SlotsNow
  <1> HIDE DEF c
  <1>4. CASE idle' = a.idle /\ \E n : StartRequest(c, a.seq, n)
    <2>1. PICK n : StartRequest(c, a.seq, n)
      BY <1>4
    <2>2. table' = [table EXCEPT ![a.seq] = c] /\ UNCHANGED <<finishing, cancelling>>
      BY <2>1 DEF StartRequest
    <2>3. mediaWait' \subseteq MediaClients
      BY <2>1, <1>1, StartWaits
    <2>4. table' \in Tables /\ Owned(idle', table', pin')
      BY <1>1, <1>2, <1>3, <1>4, <2>2, ServeSafe, SlotsNow
    <2>. QED
      BY <1>1, <1>2, <1>3, <1>4, <2>2, <2>3, <2>4, SlotsNow, SlotsNext
  <1>5. CASE idle' = Push(a.idle, a.seq) /\ UNCHANGED <<table, progress>>
    <2>1. idle' \in Bags_ /\ Owned(idle', table', pin')
      BY <1>2, <1>3, <1>5, PushSafe, SlotsNow
    <2>. QED
      BY <1>1, <1>2, <1>3, <1>5, <2>1, SlotsNow, SlotsNext DEF progress
  <1>. QED
    BY <1>2, <1>4, <1>5

-----------------------------------------------------------------------------
\* IInv is an invariant: it holds of build_init_data/4's slots and every step
\* keeps it.
LEMMA SlotsInvariant == Spec => []IInv
  <1>1. Init => IInv
    <2> SUFFICES ASSUME Init PROVE IInv
      OBVIOUS
    <2>1. idle \in Bags_ /\ table \in Tables /\ pin \in Pins /\ Owned(idle, table, pin)
      BY FreshIsOwned DEF Init
    <2>. QED
      BY <2>1, OwnedNow DEF Init, IInv, SlotsTyped, Bags_, Tables, Pins
  <1>2. IInv /\ [Next]_vars => IInv'
    <2> SUFFICES ASSUME IInv, [Next]_vars PROVE IInv'
      OBVIOUS
    <2>1. ASSUME NEW c \in Clients, Cancel(c) PROVE IInv'
      BY <2>1, SlotsNow, SlotsNext DEF Cancel, slots
    <2>2. CASE FinishedAll \/ TickEnd \/ InflightDown \/ UNCHANGED vars
      <3>1. UNCHANGED <<slots, pending, progress>>
        BY <2>2 DEF FinishedAll, TickEnd, InflightDown, vars, slots, progress
      <3>. QED
        BY <3>1, SlotsNow, MarksSafe DEF progress
    <2>3. CASE Reload
      BY <2>3, FreshStep DEF Reload
    <2>. QED
      BY <2>1, <2>2, <2>3, CallStep, EndSessionStep, ResetStep, ForkStep, TickKeeps,
         FinishStep, DispatchStep
      DEF Next, AfterStep
  <1>. QED
    BY <1>1, <1>2, PTL DEF Spec

(***************************************************************************)
(* In every behaviour of the model process no seq has two owners: not one  *)
(* in the idle list and a request or a session, not two sessions, and not  *)
(* a session and a request of another.  This holds even when callers start *)
(* two first requests of a session at once (SerialFirstTurns = FALSE):     *)
(* then a seq is lost, but none is shared.                                 *)
(***************************************************************************)
THEOREM SlotsExclusive == Spec => []SeqOwnedOnce
  <1>1. IInv => SeqOwnedOnce
    BY DEF IInv
  <1>. QED
    BY <1>1, SlotsInvariant, PTL
=============================================================================
