----------------------- MODULE ModelSessionsCallers -----------------------
(***************************************************************************)
(* Proofs about the callers of the model process, for any number of seqs,  *)
(* clients and sessions: who waits is known to the process and the         *)
(* in-flight table is exact, whatever calls, failures, resets, cancels and *)
(* recoveries happen; and, when the first requests of a session do not     *)
(* overlap, no seq is lost and work never stalls.  Then about its counters *)
(* and its batches: every cursor and every count of tokens stays in its    *)
(* range, and no tick asks for more rows than the budget has.              *)
(*                                                                         *)
(* Tracked and Serial state the inductive invariants for values of the     *)
(* process's data that need not be the current ones, as Owned does in      *)
(* ModelSessionsProofs.                                                    *)
(***************************************************************************)
EXTENDS ModelSessionsProofs, Recursion, FiniteSetTheorems

Lists == Seq(Clients)

ServedIn(t) == {t[q] : q \in {r \in Seqs : t[r] # NoClient}}
QueuedIn(p) == {p[i] : i \in 1 .. Len(p)}

\* No client has two requests, two places in the queue, or one of each.
KnownOnce(t, p) ==
    /\ \A q, r \in Seqs : t[q] # NoClient /\ t[q] = t[r] => q = r
    /\ \A i, j \in 1 .. Len(p) : p[i] = p[j] => i = j
    /\ ServedIn(t) \cap QueuedIn(p) = {}

\* Who waits is known, and who is known waits: except, at the end of a tick
\* (ending), a request that was answered when its step failed and that
\* finish_marked_reqs has yet to remove.  The in-flight table has the
\* streaming requests that still wait.
Tracked(t, p, a, reg, fin, can, ending) ==
    /\ KnownOnce(t, p)
    /\ \A c \in Clients : a[c] = "waiting" => c \in ServedIn(t) \cup QueuedIn(p)
    /\ \A c \in QueuedIn(p) : a[c] = "waiting"
    /\ \A c \in ServedIn(t) : a[c] = "waiting" \/ (ending /\ c \in fin)
    /\ reg = {c \in ServedIn(t) : Streaming(c) /\ a[c] = "waiting"}
    /\ fin \subseteq ServedIn(t) /\ can \subseteq ServedIn(t)
    /\ ~ending => fin = {}

LEMMA ServedInClients ==
  ASSUME NEW t \in Tables
  PROVE  ServedIn(t) \subseteq Clients /\ NoClient \notin ServedIn(t)
  BY DEF ServedIn, Tables

LEMMA QueuedInClients ==
  ASSUME NEW p \in Lists
  PROVE  QueuedIn(p) \subseteq Clients
  BY DEF QueuedIn, Lists

-----------------------------------------------------------------------------
(* What the handlers do to the two lists of clients.                       *)

\* put_req/2: a request on a seq that served nobody.
LEMMA ServeMore ==
  ASSUME NEW t \in Tables, NEW q \in Seqs, t[q] = NoClient, NEW c \in Clients
  PROVE  ServedIn([t EXCEPT ![q] = c]) = ServedIn(t) \cup {c}
  <1>1. \A r \in Seqs : [t EXCEPT ![q] = c][r] = IF r = q THEN c ELSE t[r]
    BY DEF Tables
  <1>2. c # NoClient
    BY ClientsAssumption
  <1>. QED
    BY <1>1, <1>2 DEF ServedIn

\* A request that leaves the table takes its client along.
LEMMA ServeLess ==
  ASSUME NEW t \in Tables, NEW p, KnownOnce(t, p), NEW q \in Seqs, t[q] # NoClient
  PROVE  ServedIn([t EXCEPT ![q] = NoClient]) = ServedIn(t) \ {t[q]}
  <1>1. \A r \in Seqs : [t EXCEPT ![q] = NoClient][r] = IF r = q THEN NoClient ELSE t[r]
    BY DEF Tables
  <1>2. \A r \in Seqs : t[r] = t[q] => r = q
    BY DEF KnownOnce
  <1>. QED
    BY <1>1, <1>2 DEF ServedIn

LEMMA QueueMore ==
  ASSUME NEW p \in Lists, NEW c \in Clients
  PROVE  /\ Append(p, c) \in Lists
         /\ QueuedIn(Append(p, c)) = QueuedIn(p) \cup {c}
  BY DEF QueuedIn, Lists

LEMMA QueueLess ==
  ASSUME NEW p \in Lists, p # <<>>, NEW t, KnownOnce(t, p)
  PROVE  /\ Tail(p) \in Lists /\ Head(p) \in QueuedIn(p)
         /\ QueuedIn(Tail(p)) = QueuedIn(p) \ {Head(p)}
         /\ \A i, j \in 1 .. Len(Tail(p)) : Tail(p)[i] = Tail(p)[j] => i = j
  <1>1. Len(p) \in Nat \ {0} /\ Tail(p) \in Lists /\ Head(p) = p[1]
    BY DEF Lists
  <1>2. Len(Tail(p)) = Len(p) - 1 /\ \A i \in 1 .. Len(p) - 1 : Tail(p)[i] = p[i + 1]
    BY <1>1 DEF Lists
  <1>3. \A i, j \in 1 .. Len(p) : p[i] = p[j] => i = j
    BY DEF KnownOnce
  <1>4. Head(p) \in QueuedIn(p)
    BY <1>1 DEF QueuedIn
  <1>5. \A i, j \in 1 .. Len(Tail(p)) : Tail(p)[i] = Tail(p)[j] => i = j
    <2> TAKE i, j \in 1 .. Len(Tail(p))
    <2>1. i + 1 \in 1 .. Len(p) /\ j + 1 \in 1 .. Len(p) /\ i \in Int /\ j \in Int
      BY <1>1, <1>2
    <2>. QED
      BY <1>1, <1>2, <1>3, <2>1
  <1>6. QueuedIn(Tail(p)) \subseteq QueuedIn(p) \ {Head(p)}
    <2> SUFFICES ASSUME NEW i \in 1 .. Len(Tail(p)) PROVE Tail(p)[i] \in QueuedIn(p) \ {Head(p)}
      BY DEF QueuedIn
    <2>1. i + 1 \in 1 .. Len(p) /\ i + 1 # 1 /\ 1 \in 1 .. Len(p)
      BY <1>1, <1>2
    <2>. QED
      BY <1>1, <1>2, <1>3, <2>1 DEF QueuedIn
  <1>7. QueuedIn(p) \ {Head(p)} \subseteq QueuedIn(Tail(p))
    <2> SUFFICES ASSUME NEW i \in 1 .. Len(p), p[i] # Head(p) PROVE p[i] \in QueuedIn(Tail(p))
      BY DEF QueuedIn
    <2>1. i - 1 \in 1 .. Len(Tail(p)) /\ Tail(p)[i - 1] = p[i]
      BY <1>1, <1>2
    <2>. QED
      BY <2>1 DEF QueuedIn
  <1>. QED
    BY <1>1, <1>4, <1>5, <1>6, <1>7

-----------------------------------------------------------------------------
(* The ways a handler changes who is known and who waits.                  *)

\* A client that is not served starts: a caller, or the head of the queue.
LEMMA StartTracked ==
  ASSUME NEW t \in Tables, NEW p \in Lists, NEW u \in Lists,
         NEW a \in [Clients -> Answers], NEW reg, NEW fin, NEW can,
         NEW ending \in BOOLEAN, Tracked(t, p, a, reg, fin, can, ending),
         NEW q \in Seqs, t[q] = NoClient, NEW c \in Clients, c \notin ServedIn(t),
         QueuedIn(u) = QueuedIn(p) \ {c},
         \A i, j \in 1 .. Len(u) : u[i] = u[j] => i = j
  PROVE  Tracked([t EXCEPT ![q] = c], u, [a EXCEPT ![c] = "waiting"],
                 IF Streaming(c) THEN reg \cup {c} ELSE reg, fin, can, ending)
  <1> DEFINE T == [t EXCEPT ![q] = c]
             A == [a EXCEPT ![c] = "waiting"]
             R == IF Streaming(c) THEN reg \cup {c} ELSE reg
  <1>1. ServedIn(T) = ServedIn(t) \cup {c}
    BY ServeMore
  <1>2. \A r \in Seqs : T[r] = IF r = q THEN c ELSE t[r]
    BY DEF Tables
  <1>3. A \in [Clients -> Answers] /\ \A d \in Clients : A[d] = IF d = c THEN "waiting" ELSE a[d]
    BY DEF Answers
  <1>4. ServedIn(t) \subseteq Clients /\ QueuedIn(p) \subseteq Clients /\ c # NoClient
    BY ServedInClients, QueuedInClients, ClientsAssumption
  <1>5. \A r \in Seqs : t[r] # c
    BY <1>4 DEF ServedIn
  <1> HIDE DEF T, A
  <1>6. KnownOnce(T, u)
    <2>1. \A r, v \in Seqs : T[r] # NoClient /\ T[r] = T[v] => r = v
      BY <1>2, <1>5 DEF Tracked, KnownOnce
    <2>2. ServedIn(T) \cap QueuedIn(u) = {}
      BY <1>1 DEF Tracked, KnownOnce
    <2>. QED
      BY <2>1, <2>2 DEF KnownOnce
  <1>7. \A d \in Clients : A[d] = "waiting" => d \in ServedIn(T) \cup QueuedIn(u)
    BY <1>1, <1>3 DEF Tracked
  <1>8. \A d \in QueuedIn(u) : A[d] = "waiting"
    BY <1>3, <1>4 DEF Tracked
  <1>9. \A d \in ServedIn(T) : A[d] = "waiting" \/ (ending /\ d \in fin)
    BY <1>1, <1>3, <1>4 DEF Tracked
  <1>10. R = {d \in ServedIn(T) : Streaming(d) /\ A[d] = "waiting"}
    BY <1>1, <1>3, <1>4 DEF Tracked
  <1>11. /\ fin \subseteq ServedIn(T) /\ can \subseteq ServedIn(T)
         /\ ~ending => fin = {}
    BY <1>1 DEF Tracked
  <1>12. Tracked(T, u, A, R, fin, can, ending)
    BY <1>6, <1>7, <1>8, <1>9, <1>10, <1>11 DEF Tracked
  <1>. QED
    BY <1>12 DEF T, A

\* A request leaves the table, and its client no longer waits.
LEMMA LeaveTracked ==
  ASSUME NEW t \in Tables, NEW p \in Lists, NEW a \in [Clients -> Answers],
         NEW b \in [Clients -> Answers], NEW reg, NEW fin, NEW can,
         NEW ending \in BOOLEAN, Tracked(t, p, a, reg, fin, can, ending),
         NEW q \in Seqs, t[q] \in Clients,
         \A d \in Clients : d # t[q] => b[d] = a[d], b[t[q]] # "waiting"
  PROVE  Tracked([t EXCEPT ![q] = NoClient], p, b, reg \ {t[q]},
                 fin \ {t[q]}, can \ {t[q]}, ending)
  <1> DEFINE T == [t EXCEPT ![q] = NoClient]
             c == t[q]
  <1>0. c \in Clients /\ c # NoClient /\ c \in ServedIn(t)
    BY ClientsAssumption DEF ServedIn
  <1>1. ServedIn(T) = ServedIn(t) \ {c}
    BY <1>0, ServeLess DEF Tracked
  <1>2. \A r \in Seqs : T[r] = IF r = q THEN NoClient ELSE t[r]
    BY DEF Tables
  <1>3. ServedIn(t) \subseteq Clients /\ QueuedIn(p) \subseteq Clients
    BY ServedInClients, QueuedInClients
  <1>4. c \notin QueuedIn(p)
    BY <1>0 DEF Tracked, KnownOnce
  <1>5. (\A d \in Clients : d # c => b[d] = a[d]) /\ b[c] # "waiting"
    OBVIOUS
  <1> HIDE DEF T, c
  <1>6. KnownOnce(T, p)
    BY <1>1, <1>2 DEF Tracked, KnownOnce
  <1>7. /\ \A d \in Clients : b[d] = "waiting" => d \in ServedIn(T) \cup QueuedIn(p)
        /\ \A d \in QueuedIn(p) : b[d] = "waiting"
    BY <1>0, <1>1, <1>3, <1>4, <1>5 DEF Tracked
  <1>8. \A d \in ServedIn(T) : b[d] = "waiting" \/ (ending /\ d \in fin \ {c})
    BY <1>1, <1>3, <1>5 DEF Tracked
  <1>9. reg \ {c} = {d \in ServedIn(T) : Streaming(d) /\ b[d] = "waiting"}
    BY <1>1, <1>3, <1>5 DEF Tracked
  <1>10. /\ fin \ {c} \subseteq ServedIn(T) /\ can \ {c} \subseteq ServedIn(T)
         /\ ~ending => fin \ {c} = {}
    BY <1>1 DEF Tracked
  <1>11. Tracked(T, p, b, reg \ {c}, fin \ {c}, can \ {c}, ending)
    BY <1>6, <1>7, <1>8, <1>9, <1>10 DEF Tracked
  <1>. QED
    BY <1>11 DEF T, c

\* A tick marks requests, and answers those among them that failed.
LEMMA MarkTracked ==
  ASSUME NEW t \in Tables, NEW p \in Lists, NEW a \in [Clients -> Answers],
         NEW reg, NEW fin, NEW can, Tracked(t, p, a, reg, fin, can, FALSE),
         NEW marks \in SUBSET ServedIn(t), NEW failed \in SUBSET marks
  PROVE  Tracked(t, p, [c \in Clients |-> IF c \in failed THEN "error" ELSE a[c]],
                 reg \ failed, marks, can, TRUE)
  <1> DEFINE A == [c \in Clients |-> IF c \in failed THEN "error" ELSE a[c]]
  <1>1. \A c \in Clients : A[c] = IF c \in failed THEN "error" ELSE a[c]
    OBVIOUS
  <1>2. ServedIn(t) \subseteq Clients /\ QueuedIn(p) \subseteq Clients
    BY ServedInClients, QueuedInClients
  <1> HIDE DEF A
  <1>3. \A d \in QueuedIn(p) : A[d] = "waiting"
    BY <1>1, <1>2 DEF Tracked, KnownOnce
  <1>4. \A d \in Clients : A[d] = "waiting" => d \in ServedIn(t) \cup QueuedIn(p)
    BY <1>1 DEF Tracked
  <1>5. \A d \in ServedIn(t) : A[d] = "waiting" \/ (TRUE /\ d \in marks)
    BY <1>1, <1>2 DEF Tracked
  <1>6. reg \ failed = {d \in ServedIn(t) : Streaming(d) /\ A[d] = "waiting"}
    BY <1>1, <1>2 DEF Tracked
  <1>7. Tracked(t, p, A, reg \ failed, marks, can, TRUE)
    BY <1>3, <1>4, <1>5, <1>6 DEF Tracked
  <1>. QED
    BY <1>7 DEF A

\* A caller that is not known is put in the queue.
LEMMA EnqueueTracked ==
  ASSUME NEW t \in Tables, NEW p \in Lists, NEW a \in [Clients -> Answers],
         NEW reg, NEW fin, NEW can, Tracked(t, p, a, reg, fin, can, FALSE),
         NEW c \in Clients, c \notin ServedIn(t) \cup QueuedIn(p)
  PROVE  Tracked(t, Append(p, c), [a EXCEPT ![c] = "waiting"], reg, fin, can, FALSE)
  <1> DEFINE A == [a EXCEPT ![c] = "waiting"]
             u == Append(p, c)
  <1>1. \A d \in Clients : A[d] = IF d = c THEN "waiting" ELSE a[d]
    OBVIOUS
  <1>2. ServedIn(t) \subseteq Clients /\ QueuedIn(p) \subseteq Clients
    BY ServedInClients, QueuedInClients
  <1>3. QueuedIn(u) = QueuedIn(p) \cup {c}
    BY QueueMore
  <1>4. \A i, j \in 1 .. Len(u) : u[i] = u[j] => i = j
    <2>1. Len(u) = Len(p) + 1 /\ Len(p) \in Nat
          /\ \A i \in 1 .. Len(u) : u[i] = IF i = Len(p) + 1 THEN c ELSE p[i]
      BY DEF Lists
    <2>2. \A i \in 1 .. Len(p) : p[i] # c
      BY DEF QueuedIn
    <2>3. \A i, j \in 1 .. Len(p) : p[i] = p[j] => i = j
      BY DEF Tracked, KnownOnce
    <2> HIDE DEF u
    <2>. QED
      BY <2>1, <2>2, <2>3
  <1> HIDE DEF A, u
  <1>5. KnownOnce(t, u)
    BY <1>3, <1>4 DEF Tracked, KnownOnce
  <1>6. /\ \A d \in Clients : A[d] = "waiting" => d \in ServedIn(t) \cup QueuedIn(u)
        /\ \A d \in QueuedIn(u) : A[d] = "waiting"
        /\ \A d \in ServedIn(t) : A[d] = "waiting" \/ (FALSE /\ d \in fin)
    BY <1>1, <1>2, <1>3 DEF Tracked
  <1>7. reg = {d \in ServedIn(t) : Streaming(d) /\ A[d] = "waiting"}
    BY <1>1, <1>2 DEF Tracked
  <1>8. Tracked(t, u, A, reg, fin, can, FALSE)
    BY <1>5, <1>6, <1>7 DEF Tracked
  <1>. QED
    BY <1>8 DEF A, u

\* The head of the queue cannot be started: it is answered and dropped.
LEMMA DropHeadTracked ==
  ASSUME NEW t \in Tables, NEW p \in Lists, p # <<>>, NEW a \in [Clients -> Answers],
         NEW reg, NEW fin, NEW can, NEW ending \in BOOLEAN,
         Tracked(t, p, a, reg, fin, can, ending)
  PROVE  Tracked(t, Tail(p), [a EXCEPT ![Head(p)] = "error"], reg, fin, can, ending)
  <1> DEFINE c == Head(p)
             A == [a EXCEPT ![c] = "error"]
             u == Tail(p)
  <1>1. QueuedIn(u) = QueuedIn(p) \ {c} /\ c \in QueuedIn(p) /\ u \in Lists
        /\ \A i, j \in 1 .. Len(u) : u[i] = u[j] => i = j
    BY QueueLess DEF Tracked
  <1>2. ServedIn(t) \subseteq Clients /\ QueuedIn(p) \subseteq Clients
    BY ServedInClients, QueuedInClients
  <1>3. c \in Clients /\ c \notin ServedIn(t)
    BY <1>1, <1>2 DEF Tracked, KnownOnce
  <1>4. \A d \in Clients : A[d] = IF d = c THEN "error" ELSE a[d]
    BY <1>3
  <1> HIDE DEF A, u, c
  <1>5. KnownOnce(t, u)
    BY <1>1 DEF Tracked, KnownOnce
  <1>6. /\ \A d \in Clients : A[d] = "waiting" => d \in ServedIn(t) \cup QueuedIn(u)
        /\ \A d \in QueuedIn(u) : A[d] = "waiting"
        /\ \A d \in ServedIn(t) : A[d] = "waiting" \/ (ending /\ d \in fin)
    BY <1>1, <1>2, <1>3, <1>4 DEF Tracked
  <1>7. reg = {d \in ServedIn(t) : Streaming(d) /\ A[d] = "waiting"}
    BY <1>2, <1>3, <1>4 DEF Tracked
  <1>8. Tracked(t, u, A, reg, fin, can, ending)
    BY <1>5, <1>6, <1>7 DEF Tracked
  <1>. QED
    BY <1>8 DEF A, u, c

\* A caller that is not known is refused.
LEMMA RefuseTracked ==
  ASSUME NEW t \in Tables, NEW p \in Lists, NEW a \in [Clients -> Answers],
         NEW reg, NEW fin, NEW can, Tracked(t, p, a, reg, fin, can, FALSE),
         NEW c \in Clients, c \notin ServedIn(t) \cup QueuedIn(p),
         NEW x, x # "waiting"
  PROVE  Tracked(t, p, [a EXCEPT ![c] = x], reg, fin, can, FALSE)
  <1> DEFINE A == [a EXCEPT ![c] = x]
  <1>1. \A d \in Clients : A[d] = IF d = c THEN x ELSE a[d]
    OBVIOUS
  <1>2. ServedIn(t) \subseteq Clients /\ QueuedIn(p) \subseteq Clients
    BY ServedInClients, QueuedInClients
  <1> HIDE DEF A
  <1>3. /\ \A d \in Clients : A[d] = "waiting" => d \in ServedIn(t) \cup QueuedIn(p)
        /\ \A d \in QueuedIn(p) : A[d] = "waiting"
        /\ \A d \in ServedIn(t) : A[d] = "waiting" \/ (FALSE /\ d \in fin)
    BY <1>1, <1>2 DEF Tracked
  <1>4. reg = {d \in ServedIn(t) : Streaming(d) /\ A[d] = "waiting"}
    BY <1>1, <1>2 DEF Tracked
  <1>5. Tracked(t, p, A, reg, fin, can, FALSE)
    BY <1>3, <1>4 DEF Tracked
  <1>. QED
    BY <1>5 DEF A

\* A fresh process knows nobody.
LEMMA FreshTracked ==
  ASSUME NEW a \in [Clients -> Answers], \A c \in Clients : a[c] # "waiting"
  PROVE  Tracked(NoRequest, <<>>, a, {}, {}, {}, FALSE)
  <1>1. ServedIn(NoRequest) = {}
    BY DEF ServedIn, NoRequest
  <1>2. Len(<<>>) = 0 /\ QueuedIn(<<>>) = {}
    BY DEF QueuedIn
  <1>3. \A q \in Seqs : NoRequest[q] = NoClient
    BY DEF NoRequest
  <1>. QED
    BY <1>1, <1>2, <1>3 DEF Tracked, KnownOnce

-----------------------------------------------------------------------------
(* The invariant of the process.                                           *)

Live == mode # "stopped"

\* The gen_statem's state, the stage of a tick and the mailbox: a tick that
\* runs has left the mailbox, and one that waits keeps the process running.
Phases ==
    /\ mode \in {"idle", "running", "stopped"}
    /\ stage \in {"ready", "finish", "dispatch"}
    /\ ticks \in 0 .. MaxTicks
    /\ answer \in [Clients -> Answers]
    /\ stage # "ready" => mode = "running" /\ ticks < MaxTicks
    /\ mode = "running" /\ stage = "ready" => ticks > 0

TrackedNow ==
    Tracked(table, pending, answer, registered, finishing, cancelling, stage = "finish")

CallersKnown ==
    /\ Live => TrackedNow
    /\ mode = "stopped" => \A c \in Clients : answer[c] # "waiting"
    /\ mode = "idle" => \A q \in Seqs : table[q] = NoClient

CInv == Phases /\ CallersKnown

LEMMA PhasesInit == Init => Phases
  BY SizesAssumption DEF Init, Phases, Answers

LEMMA AdmitPhases ==
  ASSUME Phases, NEW c \in Clients, NEW q, NEW n, StartAdmission(c, q, n), Ready
  PROVE  Phases'
  BY SizesAssumption
  DEF Phases, StartAdmission, ScheduleTick, Answered, Answers, Ready

LEMMA CallPhases ==
  ASSUME Phases, NEW c \in Clients, Call(c)
  PROVE  Phases'
  <1>1. Ready
    BY DEF Call, AdmitSticky, RefuseBusy, RefusePinned, AdmitContinue, AdmitNormal,
           AdmitFailed, RefuseFull, Enqueue, MayCall
  <1>2. ASSUME NEW a \in Answers, Refuse(c, a) PROVE Phases'
    BY <1>2 DEF Phases, Refuse, Answered
  <1>3. CASE AdmitSticky(c) \/ AdmitContinue(c) \/ AdmitNormal(c)
    <2>1. PICK q, n : StartAdmission(c, q, n)
      BY <1>3 DEF AdmitSticky, AdmitContinue, AdmitNormal
    <2>. QED
      BY <1>1, <2>1, AdmitPhases
  <1>4. CASE RefuseBusy(c) \/ RefusePinned(c) \/ AdmitFailed(c) \/ RefuseFull(c)
    BY <1>2, <1>4 DEF RefuseBusy, RefusePinned, AdmitFailed, RefuseFull, Answers
  <1>5. CASE Enqueue(c)
    BY <1>1, <1>5 DEF Phases, Enqueue, Answered, Answers, Ready
  <1>. QED
    BY <1>3, <1>4, <1>5 DEF Call

LEMMA TickPhases ==
  ASSUME Phases, Tick
  PROVE  Phases'
  <1> USE SizesAssumption
  <1>1. CASE TickMedia
    BY <1>1 DEF Phases, TickMedia, Ticking
  <1>2. CASE TickMediaFailed
    BY <1>2 DEF Phases, TickMediaFailed, Ticking, NotifyFailure, Answers
  <1>3. CASE TickStep \/ TickSpec
    <2>1. PICK rows, ended, failed : \E rest, gen : Decoded(rows, ended, failed, rest, gen)
      BY <1>3 DEF TickStep, TickSpec
    <2>2. answer' \in [Clients -> Answers]
      BY <2>1 DEF Phases, Decoded, NotifyFailure, Answers
    <2>3. /\ mode = "running" /\ stage = "ready" /\ ticks > 0
          /\ ticks' = ticks - 1 /\ stage' = "finish" /\ mode' = mode
      BY <1>3 DEF TickStep, TickSpec, Ticking
    <2>. QED
      BY <2>2, <2>3 DEF Phases
  <1>4. CASE TickRecover
    BY <1>4 DEF Phases, TickRecover, Stepped, Ticking, Fresh, Answers
  <1>5. ASSUME NEW told, NEW orphaned, Stop(told, orphaned), Ticking PROVE Phases'
    BY <1>5 DEF Phases, Stop, Ticking, Answers
  <1>6. CASE TickFatal \/ TickCrash
    BY <1>5, <1>6 DEF TickFatal, TickCrash, Stepped
  <1>7. CASE TickIgnored
    BY <1>7 DEF Phases, TickIgnored, Ready
  <1>. QED
    BY <1>1, <1>2, <1>3, <1>4, <1>6, <1>7 DEF Tick

\* Every step of the process keeps the phases.
LEMMA PhasesStep ==
  ASSUME IInv, Phases, [Next]_vars
  PROVE  Phases'
  <1>1. ASSUME NEW c \in Clients, Cancel(c) PROVE Phases'
    BY <1>1 DEF Phases, Cancel
  <1>2. ASSUME NEW s \in Sessions, EndSession(s) PROVE Phases'
    BY <1>2 DEF Phases, EndSession
  <1>3. ASSUME NEW s \in Sessions, ResetSession(s) PROVE Phases'
    BY <1>3 DEF Phases, ResetSession, NotifyFailure, Answers
  <1>4. ASSUME NEW s \in Sessions, NEW d \in Sessions, ForkSession(s, d) PROVE Phases'
    BY <1>4 DEF Phases, ForkSession
  <1>5. ASSUME NEW q \in Seqs, FinishReq(q) PROVE Phases'
    BY <1>5, SlotsNow DEF Phases, FinishReq, Answered, Answers
  <1>6. CASE FinishedAll
    BY <1>6 DEF Phases, FinishedAll
  <1>7. CASE Dispatch
    <2>1. Head(pending) \in Clients
      BY <1>7, SlotsNow DEF Dispatch
    <2>. QED
      BY <1>7, <2>1 DEF Phases, Dispatch, Answered, Answers
  <1>8. CASE TickEnd
    <2>1. stage = "dispatch" /\ stage' = "ready" /\ answer' = answer
      BY <1>8 DEF TickEnd
    <2>2. CASE Serving = {}
      BY <1>8, <2>1, <2>2 DEF Phases, TickEnd
    <2>3. CASE Serving # {}
      BY <1>8, <2>1, <2>3, SizesAssumption DEF Phases, TickEnd
    <2>. QED
      BY <2>2, <2>3
  <1>9. CASE InflightDown \/ Reload
    BY <1>9 DEF Phases, InflightDown, Reload, Fresh
  <1>10. CASE UNCHANGED vars
    BY <1>10 DEF Phases, vars
  <1>. QED
    BY <1>1, <1>2, <1>3, <1>4, <1>5, <1>6, <1>7, <1>8, <1>9, <1>10, CallPhases, TickPhases
    DEF Next, AfterStep

-----------------------------------------------------------------------------
(* One lemma per group of actions.                                         *)

\* The names of the properties and of the lemmas above mean the same.
LEMMA Names ==
  /\ Served = ServedIn(table) /\ Queued = QueuedIn(pending)
  /\ Serving = {} <=> \A q \in Seqs : table[q] = NoClient
  BY DEF Served, Serving, InFlight, ServedIn, Queued, QueuedIn

LEMMA DataNow ==
  ASSUME IInv
  PROVE  table \in Tables /\ pending \in Lists
  BY SlotsNow DEF Lists

\* Between two handlers a client that does not wait is not known.
LEMMA CallerUnknown ==
  ASSUME IInv, CInv, Ready, NEW c \in Clients, answer[c] # "waiting"
  PROVE  /\ c \notin ServedIn(table) \cup QueuedIn(pending)
         /\ Tracked(table, pending, answer, registered, finishing, cancelling, FALSE)
  <1>1. Tracked(table, pending, answer, registered, finishing, cancelling, stage = "finish")
    BY DEF CInv, CallersKnown, Live, Ready, TrackedNow
  <1>2. (stage = "finish") = FALSE
    BY DEF Ready
  <1>3. Tracked(table, pending, answer, registered, finishing, cancelling, FALSE)
    BY <1>1, <1>2
  <1>. QED
    BY <1>3 DEF Tracked

\* The next state in the terms of the lemmas.
LEMMA KnownNext ==
  ASSUME NEW ending \in BOOLEAN, (stage' = "finish") = ending,
         Tracked(table', pending', answer', registered', finishing', cancelling', ending),
         mode' # "stopped", mode' = "idle" => \A q \in Seqs : table'[q] = NoClient
  PROVE  CallersKnown'
  BY DEF CallersKnown, Live, TrackedNow

\* start_admission/4.
LEMMA AdmitKnown ==
  ASSUME IInv, CInv, NEW c \in Clients, MayCall(c), NEW q \in Seqs, table[q] = NoClient,
         NEW n, StartAdmission(c, q, n)
  PROVE  CallersKnown'
  <1>1. /\ c \notin ServedIn(table) \cup QueuedIn(pending)
        /\ Tracked(table, pending, answer, registered, finishing, cancelling, FALSE)
    BY CallerUnknown DEF MayCall
  <1>2. /\ table' = [table EXCEPT ![q] = c] /\ pending' = pending
        /\ answer' = [answer EXCEPT ![c] = "waiting"]
        /\ registered' = IF Streaming(c) THEN registered \cup {c} ELSE registered
        /\ finishing' = finishing /\ cancelling' = cancelling
        /\ mode' = "running" /\ stage' = stage /\ stage = "ready"
    BY DEF StartAdmission, StartRequest, Answered, MayCall, Ready
  <1>3. QueuedIn(pending) = QueuedIn(pending) \ {c}
        /\ \A i, j \in 1 .. Len(pending) : pending[i] = pending[j] => i = j
    BY <1>1 DEF Tracked, KnownOnce
  <1>4. answer \in [Clients -> Answers]
    BY DEF CInv, Phases
  <1>5. Tracked([table EXCEPT ![q] = c], pending, [answer EXCEPT ![c] = "waiting"],
                IF Streaming(c) THEN registered \cup {c} ELSE registered,
                finishing, cancelling, FALSE)
    BY <1>1, <1>3, <1>4, DataNow, StartTracked
  <1>. QED
    BY <1>2, <1>5, KnownNext

LEMMA RefuseKnown ==
  ASSUME IInv, CInv, NEW c \in Clients, MayCall(c),
         NEW a \in Answers, a # "waiting", Refuse(c, a)
  PROVE  CallersKnown'
  <1>1. /\ c \notin ServedIn(table) \cup QueuedIn(pending)
        /\ Tracked(table, pending, answer, registered, finishing, cancelling, FALSE)
    BY CallerUnknown DEF MayCall
  <1>2. /\ UNCHANGED <<table, pending, registered, finishing, cancelling, mode, stage>>
        /\ answer' = [answer EXCEPT ![c] = a] /\ stage = "ready" /\ mode # "stopped"
    BY DEF Refuse, Answered, progress, MayCall, Ready
  <1>3. answer \in [Clients -> Answers]
    BY DEF CInv, Phases
  <1>4. Tracked(table, pending, [answer EXCEPT ![c] = a], registered, finishing,
                cancelling, FALSE)
    BY <1>1, <1>3, DataNow, RefuseTracked
  <1>. QED
    BY <1>2, <1>4, KnownNext DEF CInv, CallersKnown

LEMMA EnqueueKnown ==
  ASSUME IInv, CInv, NEW c \in Clients, Enqueue(c)
  PROVE  CallersKnown'
  <1>1. /\ c \notin ServedIn(table) \cup QueuedIn(pending)
        /\ Tracked(table, pending, answer, registered, finishing, cancelling, FALSE)
    BY CallerUnknown DEF MayCall, Enqueue
  <1>2. /\ UNCHANGED <<table, registered, finishing, cancelling, stage>>
        /\ pending' = Append(pending, c) /\ answer' = [answer EXCEPT ![c] = "waiting"]
        /\ stage = "ready" /\ mode # "stopped"
        /\ mode' = IF Serving = {} THEN "idle" ELSE mode
    BY DEF Enqueue, Answered, progress, MayCall, Ready, slots
  <1>3. answer \in [Clients -> Answers]
    BY DEF CInv, Phases
  <1>4. Tracked(table, Append(pending, c), [answer EXCEPT ![c] = "waiting"], registered,
                finishing, cancelling, FALSE)
    BY <1>1, <1>3, DataNow, EnqueueTracked
  <1>5. mode' # "stopped" /\ (mode' = "idle" => \A q \in Seqs : table'[q] = NoClient)
    BY <1>2, Names DEF CInv, CallersKnown
  <1>. QED
    BY <1>2, <1>4, <1>5, KnownNext

LEMMA CallKnown ==
  ASSUME IInv, CInv, NEW c \in Clients, Call(c)
  PROVE  CallersKnown'
  <1>0. MayCall(c)
    BY DEF Call, AdmitSticky, RefuseBusy, RefusePinned, AdmitContinue, AdmitNormal,
           AdmitFailed, RefuseFull, Enqueue
  <1>1. CASE AdmitSticky(c) \/ AdmitContinue(c)
    <2>1. PICK n : StartAdmission(c, pin[Session[c]], n) /\ Session[c] \in IdlePins(pin)
      BY <1>1 DEF AdmitSticky, AdmitContinue
    <2>2. pin[Session[c]] \in Seqs /\ table[pin[Session[c]]] = NoClient
      BY <2>1, SlotsNow DEF IdlePins, InFlight, Pins
    <2>. QED
      BY <1>0, <2>1, <2>2, AdmitKnown
  <1>2. CASE AdmitNormal(c)
    <2>1. PICK r \in Resolve(c) : \E a \in Alloc(r.pin, r.idle, {}) :
                 \E n : StartAdmission(c, a.seq, n)
      BY <1>2 DEF AdmitNormal
    <2>2. PICK a \in Alloc(r.pin, r.idle, {}) : \E n : StartAdmission(c, a.seq, n)
      BY <2>1
    <2>3. r.pin \in Pins /\ r.idle \in Bags_ /\ Owned(r.idle, table, r.pin)
      BY ResolveSafe DEF IInv
    <2>4. a.seq \in Seqs /\ table[a.seq] = NoClient
      BY <2>3, AllocSafe, SlotsNow DEF Unowned
    <2>. QED
      BY <1>0, <2>2, <2>4, AdmitKnown
  <1>3. CASE RefuseBusy(c) \/ RefusePinned(c) \/ AdmitFailed(c) \/ RefuseFull(c)
    <2>1. Refuse(c, "busy") \/ Refuse(c, "error") \/ Refuse(c, "full")
      BY <1>3 DEF RefuseBusy, RefusePinned, AdmitFailed, RefuseFull
    <2>. QED
      BY <1>0, <2>1, RefuseKnown DEF Answers
  <1>. QED
    BY <1>1, <1>2, <1>3, EnqueueKnown DEF Call

\* A request leaves: a reset, a failed media prefill, or the end.
LEMMA LeaveKnown ==
  ASSUME IInv, Phases, NEW reg, NEW fin, NEW can, NEW ending \in BOOLEAN,
         Tracked(table, pending, answer, reg, fin, can, ending),
         NEW q \in Seqs, table[q] \in Clients,
         table' = [table EXCEPT ![q] = NoClient], pending' = pending,
         answer' \in [Clients -> Answers],
         \A d \in Clients : d # table[q] => answer'[d] = answer[d],
         answer'[table[q]] # "waiting",
         registered' = reg \ {table[q]}, finishing' = fin \ {table[q]},
         cancelling' = can \ {table[q]},
         (stage' = "finish") = ending, mode' # "stopped",
         mode = "idle" => \A r \in Seqs : table[r] = NoClient, mode' = mode
  PROVE  CallersKnown'
  <1>1. Tracked([table EXCEPT ![q] = NoClient], pending, answer', reg \ {table[q]},
                fin \ {table[q]}, can \ {table[q]}, ending)
    <2>1. answer \in [Clients -> Answers]
      BY DEF Phases
    <2>. QED
      BY <2>1, DataNow, LeaveTracked
  <1>2. \A r \in Seqs : table'[r] = IF r = q THEN NoClient ELSE table[r]
    BY DataNow DEF Tables
  <1>. QED
    BY <1>1, <1>2, KnownNext

LEMMA ResetKnown ==
  ASSUME IInv, CInv, NEW s \in Sessions, ResetSession(s)
  PROVE  CallersKnown'
  <1> DEFINE q == pin[s]
             failed == {table[q]} \cap Clients
  <1>1. /\ q \in Seqs /\ stage = "ready" /\ mode # "stopped"
        /\ table' = [table EXCEPT ![q] = NoClient] /\ pending' = pending
        /\ finishing' = finishing \ failed /\ cancelling' = cancelling \ failed
        /\ registered' = registered \ failed
        /\ answer' = [c \in Clients |-> IF c \in failed THEN "error" ELSE answer[c]]
        /\ mode' = mode /\ stage' = stage
    BY SlotsNow DEF ResetSession, Forget, NotifyFailure, Ready, Pins
  <1>2. Phases /\ CallersKnown /\ answer \in [Clients -> Answers]
    BY DEF CInv, Phases
  <1>3. Tracked(table, pending, answer, registered, finishing, cancelling, FALSE)
    <2>1. (stage = "finish") = FALSE
      BY <1>1
    <2>. QED
      BY <1>1, <1>2, <2>1 DEF CallersKnown, Live, TrackedNow
  <1>4. mode = "idle" => \A r \in Seqs : table[r] = NoClient
    BY <1>2 DEF CallersKnown
  <1>5. (stage' = "finish") = FALSE
    BY <1>1
  <1>6. CASE table[q] \in Clients
    <2>1. failed = {table[q]}
      BY <1>6
    <2>2. /\ answer' \in [Clients -> Answers] /\ answer'[table[q]] # "waiting"
          /\ \A d \in Clients : d # table[q] => answer'[d] = answer[d]
      BY <1>1, <1>2, <1>6 DEF Answers
    <2> HIDE DEF q, failed
    <2>. QED
      BY <1>1, <1>2, <1>3, <1>4, <1>5, <1>6, <2>1, <2>2, LeaveKnown
  <1>7. CASE table[q] \notin Clients
    <2>1. failed = {} /\ table' = table /\ answer' = answer
      BY <1>1, <1>2, <1>7, DataNow DEF Tables
    <2> HIDE DEF failed
    <2>. QED
      BY <1>1, <1>3, <1>4, <1>5, <2>1, KnownNext
  <1>. QED
    BY <1>6, <1>7

\* Whatever a tick marks has a request.
LEMMA MarkedServed ==
  ASSUME IInv, TrackedNow, NEW more \in SUBSET ServedIn(table), NEW rest
  PROVE  Terminal(Marked \cup more, rest) \subseteq ServedIn(table)
  BY Names DEF Terminal, Marked, TrackedNow, Tracked

LEMMA RowsServed ==
  {table[q] : q \in Active} \subseteq ServedIn(table)
  /\ {table[q] : q \in DecodeRows} \subseteq ServedIn(table)
  BY DEF DecodeRows, Active, Serving, InFlight, ServedIn

\* A tick: requests are marked, some of them answered.
LEMMA MarkKnown ==
  ASSUME IInv, CInv, Ticking, NEW failed \in SUBSET finishing',
         finishing' \subseteq ServedIn(table),
         UNCHANGED <<table, pending, cancelling, mode>>, stage' = "finish",
         registered' = registered \ failed,
         answer' = [c \in Clients |-> IF c \in failed THEN "error" ELSE answer[c]]
  PROVE  CallersKnown'
  <1>1. (stage = "finish") = FALSE /\ mode = "running"
    BY DEF Ticking
  <1>2. Tracked(table, pending, answer, registered, finishing, cancelling, FALSE)
    BY <1>1 DEF CInv, CallersKnown, Live, TrackedNow
  <1>3. answer \in [Clients -> Answers]
    BY DEF CInv, Phases
  <1>4. Tracked(table, pending, [c \in Clients |-> IF c \in failed THEN "error" ELSE answer[c]],
                registered \ failed, finishing', cancelling, TRUE)
    BY <1>2, <1>3, DataNow, MarkTracked
  <1>5. (stage' = "finish") = TRUE
    OBVIOUS
  <1>. QED
    BY <1>1, <1>4, <1>5, KnownNext

LEMMA StepTickKnown ==
  ASSUME IInv, CInv, TickStep \/ TickSpec
  PROVE  CallersKnown'
  <1>1. /\ Ticking /\ stage' = "finish"
        /\ UNCHANGED <<table, pending, cancelling, mode>>
    BY DEF TickStep, TickSpec, slots
  <1>2. \E rows, ended \in SUBSET ServedIn(table) : \E failed \in SUBSET ended :
           \E rest, gen : Decoded(rows, ended, failed, rest, gen)
    <2>1. CASE TickStep
      BY <2>1, RowsServed DEF TickStep
    <2>2. CASE TickSpec
      BY <2>2, RowsServed DEF TickSpec
    <2>. QED
      BY <2>1, <2>2
  <1>3. PICK rows \in SUBSET ServedIn(table), ended \in SUBSET ServedIn(table) :
           \E failed \in SUBSET ended : \E rest, gen : Decoded(rows, ended, failed, rest, gen)
    BY <1>2
  <1>4. PICK failed \in SUBSET ended : \E rest, gen : Decoded(rows, ended, failed, rest, gen)
    BY <1>3
  <1>5. PICK rest, gen : Decoded(rows, ended, failed, rest, gen)
    BY <1>4
  <1> DEFINE more == ended \cup failed \cup {c \in rows : gen[c] = 0}
  <1>6. finishing' = Terminal(Marked \cup more, rest)
    BY <1>5 DEF Decoded, Terminal
  <1>7. more \in SUBSET ServedIn(table) /\ failed \subseteq finishing'
    BY <1>6 DEF Terminal
  <1>8. TrackedNow
    BY <1>1 DEF CInv, CallersKnown, Live, Ticking
  <1> HIDE DEF more
  <1>9. finishing' \subseteq ServedIn(table)
    BY <1>6, <1>7, <1>8, MarkedServed
  <1>10. /\ registered' = registered \ failed
         /\ answer' = [c \in Clients |-> IF c \in failed THEN "error" ELSE answer[c]]
    BY <1>5 DEF Decoded, NotifyFailure
  <1>. QED
    BY <1>1, <1>7, <1>9, <1>10, MarkKnown

LEMMA MediaTickKnown ==
  ASSUME IInv, CInv, TickMedia
  PROVE  CallersKnown'
  <1>1. /\ Ticking /\ stage' = "finish" /\ finishing' = Terminal(Marked \cup {}, left)
        /\ UNCHANGED <<table, pending, cancelling, mode, registered, answer>>
    BY DEF TickMedia, slots
  <1>2. TrackedNow /\ answer \in [Clients -> Answers]
    BY <1>1 DEF CInv, CallersKnown, Live, Ticking, Phases
  <1>3. finishing' \subseteq ServedIn(table)
    BY <1>1, <1>2, MarkedServed
  <1>4. answer' = [c \in Clients |-> IF c \in {} THEN "error" ELSE answer[c]]
    BY <1>1, <1>2
  <1>5. registered' = registered \ {} /\ {} \in SUBSET finishing'
    BY <1>1
  <1>. QED
    BY <1>1, <1>3, <1>4, <1>5, MarkKnown

\* fail_media_req/3 removes the sole active request: it is not among the marked.
LEMMA MediaFailedKnown ==
  ASSUME IInv, CInv, TickMediaFailed
  PROVE  CallersKnown'
  <1> DEFINE q == CHOOSE r \in Active : TRUE
             c == table[q]
             marks == Terminal(Marked \cup {}, left)
  <1>1. q \in Active
    BY DEF TickMediaFailed, MediaTurn
  <1>2. /\ Ticking /\ stage' = "finish" /\ mode' = mode /\ pending' = pending
        /\ table' = [table EXCEPT ![q] = NoClient] /\ cancelling' = cancelling
        /\ finishing' = marks \ {c} /\ registered' = registered \ {c}
        /\ answer' = [d \in Clients |-> IF d \in {c} THEN "error" ELSE answer[d]]
    BY DEF TickMediaFailed, NotifyFailure
  <1>3. q \in Seqs /\ c \in Clients /\ c \notin cancelling
    BY <1>1, DataNow DEF Active, Serving, InFlight, Tables, Marked
  <1>4. TrackedNow /\ Phases /\ answer \in [Clients -> Answers] /\ mode = "running"
    BY <1>2 DEF CInv, CallersKnown, Live, Ticking, Phases
  <1>5. marks \subseteq ServedIn(table)
    BY <1>4, MarkedServed
  <1> HIDE DEF q, marks
  <1>6. Tracked(table, pending, answer, registered, finishing, cancelling, FALSE)
    <2>1. (stage = "finish") = FALSE
      BY <1>2 DEF Ticking
    <2>. QED
      BY <1>4, <2>1 DEF TrackedNow
  <1>7. Tracked(table, pending, [d \in Clients |-> IF d \in {} THEN "error" ELSE answer[d]],
                registered \ {}, marks, cancelling, TRUE)
    BY <1>4, <1>5, <1>6, DataNow, MarkTracked
  <1>8. Tracked(table, pending, answer, registered, marks, cancelling, TRUE)
    <2>1. [d \in Clients |-> IF d \in {} THEN "error" ELSE answer[d]] = answer
      BY <1>4
    <2>2. registered \ {} = registered
      OBVIOUS
    <2>. QED
      BY <1>7, <2>1, <2>2
  <1>9. /\ answer' \in [Clients -> Answers] /\ answer'[c] # "waiting"
        /\ \A d \in Clients : d # c => answer'[d] = answer[d]
    BY <1>2, <1>3, <1>4 DEF Answers
  <1>10. cancelling' = cancelling \ {c} /\ (stage' = "finish") = TRUE
    BY <1>2, <1>3
  <1>11. mode' # "stopped" /\ (mode = "idle" => \A r \in Seqs : table[r] = NoClient)
    BY <1>2, <1>4
  <1>12. /\ table' = [table EXCEPT ![q] = NoClient] /\ pending' = pending /\ mode' = mode
         /\ registered' = registered \ {table[q]} /\ finishing' = marks \ {table[q]}
         /\ Phases
    BY <1>2, <1>4
  <1>. QED
    BY <1>3, <1>8, <1>9, <1>10, <1>11, <1>12, LeaveKnown, Zenon

LEMMA FreshKnown ==
  ASSUME Fresh, answer' \in [Clients -> Answers], \A c \in Clients : answer'[c] # "waiting"
  PROVE  CallersKnown'
  <1>1. Tracked(NoRequest, <<>>, answer', {}, {}, {}, FALSE)
    BY FreshTracked
  <1>2. (stage' = "finish") = FALSE /\ mode' = "idle" /\ \A q \in Seqs : table'[q] = NoClient
    BY DEF Fresh, NoRequest
  <1>. QED
    BY <1>1, <1>2, KnownNext DEF Fresh

LEMMA TickKnown ==
  ASSUME IInv, CInv, Phases', Tick
  PROVE  CallersKnown'
  <1>1. Ticking => /\ \A c \in Clients : answer[c] = "waiting" => c \in Served \cup Queued
                   /\ answer \in [Clients -> Answers] /\ mode = "running"
    BY Names DEF CInv, CallersKnown, Live, Ticking, TrackedNow, Tracked, Phases
  <1>2. CASE TickRecover
    <2>1. Ticking /\ Fresh
          /\ answer' = [c \in Clients |-> IF c \in Served \cup Queued THEN "error" ELSE answer[c]]
      BY <1>2 DEF TickRecover, Stepped
    <2>2. answer' \in [Clients -> Answers] /\ \A c \in Clients : answer'[c] # "waiting"
      BY <1>1, <2>1 DEF Answers
    <2>. QED
      BY <2>1, <2>2, FreshKnown
  <1>3. ASSUME NEW told, NEW orphaned, Stop(told, orphaned), Ticking PROVE CallersKnown'
    <2>1. \A c \in Clients : answer'[c] # "waiting"
      BY <1>1, <1>3 DEF Stop
    <2>. QED
      BY <1>3, <2>1 DEF Stop, CallersKnown, Live
  <1>4. CASE TickFatal \/ TickCrash
    BY <1>3, <1>4 DEF TickFatal, TickCrash, Stepped
  <1>5. CASE TickIgnored
    BY <1>5 DEF TickIgnored, CInv, CallersKnown, Live, TrackedNow, slots, progress
  <1>. QED
    BY <1>2, <1>4, <1>5, StepTickKnown, MediaTickKnown, MediaFailedKnown DEF Tick

\* finish_req/4 answers the caller if its step has not done so.
LEMMA FinishKnown ==
  ASSUME IInv, CInv, NEW q \in Seqs, FinishReq(q)
  PROVE  CallersKnown'
  <1> DEFINE c == table[q]
  <1>1. /\ stage = "finish" /\ stage' = stage /\ mode' = mode /\ pending' = pending
        /\ table' = [table EXCEPT ![q] = NoClient] /\ c \in Clients
        /\ finishing' = finishing \ {c} /\ cancelling' = cancelling \ {c}
        /\ registered' = registered \ {c}
        /\ answer' = [answer EXCEPT ![c] = IF answer[c] = "waiting" THEN "done" ELSE answer[c]]
    BY SlotsNow DEF FinishReq, Forget, Answered
  <1>2. Phases /\ answer \in [Clients -> Answers] /\ mode = "running" /\ TrackedNow
    BY <1>1 DEF CInv, Phases, CallersKnown, Live
  <1>3. Tracked(table, pending, answer, registered, finishing, cancelling, TRUE)
    <2>1. (stage = "finish") = TRUE
      BY <1>1
    <2>. QED
      BY <1>2, <2>1 DEF TrackedNow
  <1>4. /\ answer' \in [Clients -> Answers] /\ answer'[c] # "waiting"
        /\ \A d \in Clients : d # c => answer'[d] = answer[d]
    BY <1>1, <1>2 DEF Answers
  <1>5. (stage' = "finish") = TRUE /\ mode' # "stopped"
        /\ (mode = "idle" => \A r \in Seqs : table[r] = NoClient)
    BY <1>1, <1>2
  <1>. QED
    BY <1>1, <1>2, <1>3, <1>4, <1>5, LeaveKnown, Zenon

\* The head of the queue starts, or is answered.
LEMMA DispatchKnown ==
  ASSUME IInv, CInv, Dispatch
  PROVE  CallersKnown'
  <1> DEFINE c == Head(pending)
  <1>1. /\ stage = "dispatch" /\ stage' = stage /\ mode' = mode
        /\ pending # <<>> /\ pending' = Tail(pending)
    BY DEF Dispatch
  <1>2. Phases /\ answer \in [Clients -> Answers] /\ mode = "running" /\ TrackedNow
    BY <1>1 DEF CInv, Phases, CallersKnown, Live
  <1>3. (stage = "finish") = FALSE /\ (stage' = "finish") = FALSE
    BY <1>1
  <1>4. Tracked(table, pending, answer, registered, finishing, cancelling, FALSE)
    BY <1>2, <1>3 DEF TrackedNow
  <1>5. /\ Tail(pending) \in Lists /\ c \in QueuedIn(pending)
        /\ QueuedIn(Tail(pending)) = QueuedIn(pending) \ {c}
        /\ \A i, j \in 1 .. Len(Tail(pending)) : Tail(pending)[i] = Tail(pending)[j] => i = j
    BY <1>1, <1>4, DataNow, QueueLess DEF Tracked
  <1>6. c \in Clients /\ c \notin ServedIn(table) /\ answer[c] = "waiting"
    BY <1>4, <1>5, DataNow, QueuedInClients DEF Tracked, KnownOnce
  <1>7. PICK a \in Alloc(pin, idle, {}) :
          \/ (\E n : StartRequest(c, a.seq, n)) /\ answer' = answer
          \/ Answered(c, "error") /\ UNCHANGED <<table, progress, registered>>
    BY DEF Dispatch, Dispatchable
  <1>8. a.seq \in Seqs /\ table[a.seq] = NoClient
    BY AllocSafe, SlotsNow DEF Unowned
  <1>9. mode' # "stopped" /\ mode' # "idle"
    BY <1>1, <1>2
  <1> HIDE DEF c
  <1>10. CASE (\E n : StartRequest(c, a.seq, n)) /\ answer' = answer
    <2>1. Tracked([table EXCEPT ![a.seq] = c], Tail(pending), [answer EXCEPT ![c] = "waiting"],
                  IF Streaming(c) THEN registered \cup {c} ELSE registered,
                  finishing, cancelling, FALSE)
      BY <1>2, <1>4, <1>5, <1>6, <1>8, DataNow, StartTracked
    <2>2. [answer EXCEPT ![c] = "waiting"] = answer
      BY <1>2, <1>6
    <2>3. /\ table' = [table EXCEPT ![a.seq] = c]
          /\ registered' = IF Streaming(c) THEN registered \cup {c} ELSE registered
          /\ finishing' = finishing /\ cancelling' = cancelling
      BY <1>10 DEF StartRequest
    <2>. QED
      BY <1>1, <1>3, <1>9, <1>10, <2>1, <2>2, <2>3, KnownNext
  <1>11. CASE Answered(c, "error") /\ UNCHANGED <<table, progress, registered>>
    <2>1. Tracked(table, Tail(pending), [answer EXCEPT ![c] = "error"], registered,
                  finishing, cancelling, FALSE)
      BY <1>1, <1>2, <1>4, DataNow, DropHeadTracked DEF c
    <2>2. answer' = [answer EXCEPT ![c] = "error"]
          /\ UNCHANGED <<table, registered, finishing, cancelling>>
      BY <1>11 DEF Answered, progress
    <2>. QED
      BY <1>1, <1>3, <1>9, <2>1, <2>2, KnownNext
  <1>. QED
    BY <1>7, <1>10, <1>11

\* Every step of the process keeps its callers known.
LEMMA CallersStep ==
  ASSUME IInv, CInv, Phases', [Next]_vars
  PROVE  CallersKnown'
  <1>1. ASSUME NEW c \in Clients, Cancel(c) PROVE CallersKnown'
    <2>1. /\ UNCHANGED <<mode, stage, table, pending, finishing, registered, answer>>
          /\ cancelling' = cancelling \cup {c} /\ c \in ServedIn(table)
      BY <1>1, Names DEF Cancel, slots
    <2>. QED
      BY <2>1 DEF CInv, CallersKnown, Live, TrackedNow, Tracked
  <1>2. ASSUME UNCHANGED <<mode, stage, table, pending, finishing, cancelling, registered, answer>>
        PROVE  CallersKnown'
    BY <1>2 DEF CInv, CallersKnown, Live, TrackedNow
  <1>3. ASSUME NEW s \in Sessions, EndSession(s) PROVE CallersKnown'
    BY <1>2, <1>3 DEF EndSession, progress
  <1>4. ASSUME NEW s \in Sessions, NEW d \in Sessions, ForkSession(s, d) PROVE CallersKnown'
    BY <1>2, <1>4 DEF ForkSession, progress
  <1>5. CASE FinishedAll
    <2>1. /\ UNCHANGED <<mode, table, pending, finishing, cancelling, registered, answer>>
          /\ stage = "finish" /\ stage' = "dispatch" /\ ServedIn(table) \cap finishing = {}
      BY <1>5, Names DEF FinishedAll, slots, progress
    <2>2. mode = "running" /\ TrackedNow
      BY <2>1 DEF CInv, Phases, CallersKnown, Live
    <2>3. finishing = {} /\ (stage' = "finish") = FALSE
      BY <2>1, <2>2 DEF TrackedNow, Tracked
    <2>4. Tracked(table, pending, answer, registered, finishing, cancelling, FALSE)
      BY <2>2, <2>3 DEF TrackedNow, Tracked
    <2>. QED
      BY <2>1, <2>2, <2>3, <2>4, KnownNext
  <1>6. CASE TickEnd
    <2>1. /\ UNCHANGED <<table, pending, finishing, cancelling, registered, answer>>
          /\ stage = "dispatch" /\ stage' = "ready"
          /\ mode' = IF Serving = {} THEN "idle" ELSE mode
      BY <1>6 DEF TickEnd, slots, progress
    <2>2. mode = "running" /\ TrackedNow
      BY <2>1 DEF CInv, Phases, CallersKnown, Live
    <2>3. (stage = "finish") = FALSE /\ (stage' = "finish") = FALSE
      BY <2>1
    <2>4. Tracked(table, pending, answer, registered, finishing, cancelling, FALSE)
      BY <2>2, <2>3 DEF TrackedNow
    <2>5. mode' # "stopped" /\ (mode' = "idle" => \A q \in Seqs : table'[q] = NoClient)
      BY <2>1, <2>2, Names
    <2>. QED
      BY <2>1, <2>3, <2>4, <2>5, KnownNext
  <1>7. CASE InflightDown
    BY <1>7 DEF InflightDown, CInv, CallersKnown, Live
  <1>8. CASE Reload
    BY <1>8, FreshKnown DEF Reload, CInv, CallersKnown, Phases
  <1>9. CASE UNCHANGED vars
    BY <1>2, <1>9 DEF vars
  <1>. QED
    BY <1>1, <1>3, <1>4, <1>5, <1>6, <1>7, <1>8, <1>9, CallKnown, ResetKnown, TickKnown,
       FinishKnown, DispatchKnown
    DEF Next, AfterStep

LEMMA CallersInvariant == Spec => [](IInv /\ CInv)
  <1>1. Init => CInv
    <2> SUFFICES ASSUME Init PROVE CInv
      OBVIOUS
    <2>1. answer \in [Clients -> Answers] /\ \A c \in Clients : answer[c] # "waiting"
      BY DEF Init, Answers
    <2>2. Tracked(NoRequest, <<>>, answer, {}, {}, {}, FALSE)
      BY <2>1, FreshTracked
    <2>3. (stage = "finish") = FALSE /\ mode = "idle"
      BY DEF Init
    <2>4. CallersKnown
      BY <2>2, <2>3 DEF Init, CallersKnown, Live, TrackedNow, NoRequest
    <2>. QED
      BY <2>4, PhasesInit DEF CInv
  <1>2. IInv /\ CInv /\ [Next]_vars => CInv'
    BY PhasesStep, CallersStep DEF CInv
  <1>. QED
    BY <1>1, <1>2, SlotsInvariant, PTL DEF Spec

-----------------------------------------------------------------------------
(***************************************************************************)
(* erllama_inflight has a row exactly for the streaming requests in        *)
(* flight, for any number of seqs, clients and sessions: whichever of the  *)
(* ways a request ends (done, cancelled, a thinking token, a failed media  *)
(* prefill, a session reset, a recovered or fatal decode error), its row   *)
(* goes with it, and no other row goes.                                    *)
(***************************************************************************)
THEOREM InflightTableExact == Spec => []InflightExact
  <1>1. IInv /\ CInv => InflightExact
    <2> SUFFICES ASSUME CInv, Ready PROVE registered = {c \in Served : Streaming(c)}
      BY DEF InflightExact
    <2>1. TrackedNow /\ stage = "ready"
      BY DEF CInv, CallersKnown, Live, Ready
    <2>. QED
      BY <2>1, Names DEF TrackedNow, Tracked
  <1>. QED
    BY <1>1, CallersInvariant, PTL

\* Serving seqs and served clients, queue places and queued clients.
LEMMA OneSeqPerClient ==
  ASSUME IInv, KnownOnce(table, pending)
  PROVE  Cardinality(Served) = Cardinality(Serving)
  <1> DEFINE f == [q \in Serving |-> table[q]]
  <1>1. f \in Bijection(Serving, Served)
    <2>1. f \in [Serving -> Served]
      BY DEF Served
    <2>2. \A q, r \in Serving : f[q] = f[r] => q = r
      BY DEF KnownOnce, Serving, InFlight
    <2>3. \A c \in Served : \E q \in Serving : f[q] = c
      BY DEF Served
    <2>. QED
      BY <2>1, <2>2, <2>3 DEF Bijection, Injection, Surjection, IsInjective
  <1>2. IsFiniteSet(Serving)
    <2>1. IsFiniteSet(Seqs)
      BY FS_Interval, SizesAssumption DEF Seqs
    <2>2. Serving \in SUBSET Seqs
      BY DEF Serving
    <2>. QED
      BY <2>1, <2>2, FS_Subset
  <1>. QED
    BY <1>1, <1>2, FS_Bijection DEF ExistsBijection

LEMMA OnePlacePerClient ==
  ASSUME IInv, KnownOnce(table, pending)
  PROVE  Cardinality(Queued) = Len(pending)
  <1> DEFINE n == Len(pending)
             f == [i \in 1 .. n |-> pending[i]]
  <1>0. n \in Nat
    BY DataNow DEF Lists
  <1>1. f \in Bijection(1 .. n, Queued)
    <2>1. f \in [1 .. n -> Queued]
      BY DEF Queued
    <2>2. \A i, j \in 1 .. n : f[i] = f[j] => i = j
      BY DEF KnownOnce
    <2>3. \A c \in Queued : \E i \in 1 .. n : f[i] = c
      BY DEF Queued
    <2>. QED
      BY <2>1, <2>2, <2>3 DEF Bijection, Injection, Surjection, IsInjective
  <1>2. IsFiniteSet(1 .. n) /\ Cardinality(1 .. n) = n
    <2>1. \A a, b \in Int : /\ IsFiniteSet(a .. b)
                            /\ Cardinality(a .. b) = IF a > b THEN 0 ELSE b - a + 1
      BY FS_Interval
    <2> HIDE DEF n
    <2>2. 1 \in Int /\ n \in Int /\ (IF 1 > n THEN 0 ELSE n - 1 + 1) = n
      BY <1>0
    <2>3. IsFiniteSet(1 .. n) /\ Cardinality(1 .. n) = IF 1 > n THEN 0 ELSE n - 1 + 1
      BY <2>1, <2>2, Zenon
    <2>. QED
      BY <2>2, <2>3
  <1>. QED
    BY <1>1, <1>2, FS_Bijection DEF ExistsBijection

(***************************************************************************)
(* A caller that waits is known to the process, exactly once, as a request *)
(* or as an entry of the queue, and nobody else is: no reset, recovery,    *)
(* failed start, dispatch or finish leaves a caller behind, and no client  *)
(* is served twice.  Callers need not be serialised for this.              *)
(***************************************************************************)
THEOREM CallersNeverForgotten == Spec => []CallersTracked
  <1>1. IInv /\ CInv => CallersTracked
    <2> SUFFICES ASSUME IInv, CInv, Ready
                 PROVE  /\ {c \in Clients : answer[c] = "waiting"} = Served \cup Queued
                        /\ Served \cap Queued = {}
                        /\ Cardinality(Served) = Cardinality(Serving)
                        /\ Cardinality(Queued) = Len(pending)
      BY DEF CallersTracked
    <2>1. TrackedNow /\ stage = "ready"
      BY DEF CInv, CallersKnown, Live, Ready
    <2>2. KnownOnce(table, pending)
      BY <2>1 DEF TrackedNow, Tracked
    <2>3. {c \in Clients : answer[c] = "waiting"} = Served \cup Queued
      BY <2>1, Names, DataNow, ServedInClients, QueuedInClients DEF TrackedNow, Tracked
    <2>4. Served \cap Queued = {}
      BY <2>2, Names DEF KnownOnce
    <2>. QED
      BY <2>2, <2>3, <2>4, OneSeqPerClient, OnePlacePerClient
  <1>. QED
    BY <1>1, CallersInvariant, PTL

-----------------------------------------------------------------------------
(* No seq is lost, when the first requests of a session do not overlap.    *)

\* Every seq but x is idle, in flight or pinned.
Kept(bag, t, p, x) ==
    \A q \in Seqs : q # x =>
        bag[q] = 1 \/ t[q] # NoClient \/ \E s \in Sessions : p[s] = q

\* A session has one known client at most; it is served on the session's own
\* seq, or before the session has one, and queued only before.
Serial(t, l, p) ==
    /\ \A c, d \in ServedIn(t) \cup QueuedIn(l) :
          c # d /\ Session[c] # NoSession => Session[c] # Session[d]
    /\ \A q \in Seqs : t[q] # NoClient /\ Session[t[q]] # NoSession
                          => p[Session[t[q]]] \in {q, NoSeq}
    /\ \A c \in QueuedIn(l) : Session[c] # NoSession => p[Session[c]] = NoSeq

SInv ==
    SerialFirstTurns /\ Live =>
        /\ Serial(table, pending, pin) /\ Kept(idle, table, pin, NoSeq)
        /\ mode = "idle" => pending = <<>>

\* Pins may go, none comes.
FewerPins(p, u) == \A s \in Sessions : u[s] \in {p[s], NoSeq}

LEMMA AllocKept ==
  ASSUME NEW p \in Pins, NEW bag \in Bags_, table \in Tables, NEW keep,
         Owned(bag, table, p), Kept(bag, table, p, NoSeq), NEW a \in Alloc(p, bag, keep)
  PROVE  Kept(a.idle, table, a.pin, a.seq) /\ FewerPins(p, a.pin)
  <1>1. CASE \E q \in Seqs : bag[q] > 0
    <2>1. PICK q \in Seqs : bag[q] > 0
                            /\ a = [pin |-> p, idle |-> Pop(bag, q), seq |-> q]
      BY <1>1 DEF Alloc
    <2>2. \A r \in Seqs : r # q => Pop(bag, q)[r] = bag[r]
      BY DEF Pop, Bags_
    <2>. QED
      BY <2>1, <2>2, NoSeqIsNoSeq DEF Kept, FewerPins
  <1>2. CASE ~ \E q \in Seqs : bag[q] > 0
    <2>1. PICK s \in IdlePins(p) : a = [pin |-> Unpin(p, s), idle |-> bag, seq |-> p[s]]
      BY <1>2 DEF Alloc
    <2>2. s \in Sessions /\ \A u \in Sessions : Unpin(p, s)[u] = IF u = s THEN NoSeq ELSE p[u]
      BY DEF Unpin, Pins, IdlePins
    <2>. QED
      BY <2>1, <2>2, NoSeqIsNoSeq DEF Kept, FewerPins
  <1>. QED
    BY <1>1, <1>2

LEMMA PushKept ==
  ASSUME NEW p, NEW bag \in Bags_, NEW t, NEW q \in Seqs, bag[q] = 0, Kept(bag, t, p, q)
  PROVE  Kept(Push(bag, q), t, p, NoSeq)
  <1>1. \A r \in Seqs : Push(bag, q)[r] = IF r = q THEN 1 ELSE bag[r]
    BY DEF Push, Bags_
  <1>. QED
    BY <1>1 DEF Kept

LEMMA ServeKept ==
  ASSUME NEW p, NEW bag, NEW t \in Tables, NEW q \in Seqs, NEW c \in Clients, Kept(bag, t, p, q)
  PROVE  Kept(bag, [t EXCEPT ![q] = c], p, NoSeq)
  <1>1. \A r \in Seqs : [t EXCEPT ![q] = c][r] = IF r = q THEN c ELSE t[r]
    BY DEF Tables
  <1>. QED
    BY <1>1, ClientsAssumption DEF Kept

\* drop_session/2 without the push.
LEMMA UnpinKept ==
  ASSUME NEW p \in Pins, NEW bag, NEW t, NEW s \in Sessions, Kept(bag, t, p, NoSeq), p[s] # NoSeq
  PROVE  Kept(bag, t, Unpin(p, s), p[s]) /\ FewerPins(p, Unpin(p, s)) /\ Unpin(p, s)[s] = NoSeq
  <1>1. \A u \in Sessions : Unpin(p, s)[u] = IF u = s THEN NoSeq ELSE p[u]
    BY DEF Unpin, Pins
  <1>. QED
    BY <1>1, NoSeqIsNoSeq DEF Kept, FewerPins

LEMMA ResolveKept ==
  ASSUME IInv, Kept(idle, table, pin, NoSeq), NEW c \in Clients, NEW r \in Resolve(c)
  PROVE  /\ Kept(r.idle, table, r.pin, NoSeq) /\ FewerPins(pin, r.pin)
         /\ Session[c] # NoSession => r.pin[Session[c]] = NoSeq
         /\ \/ Session[c] = NoSession \/ pin[Session[c]] = NoSeq
            \/ Session[c] \in IdlePins(pin)
  <1>1. pin \in Pins /\ idle \in Bags_ /\ table \in Tables /\ Owned(idle, table, pin)
    BY SlotsNow
  <1>2. CASE r = [pin |-> pin, idle |-> idle]
             /\ (Session[c] = NoSession \/ pin[Session[c]] = NoSeq)
    BY <1>1, <1>2 DEF FewerPins
  <1>3. CASE Session[c] \in IdlePins(pin)
             /\ r = [pin |-> Unpin(pin, Session[c]), idle |-> Push(idle, pin[Session[c]])]
    <2> DEFINE s == Session[c]
    <2>1. s \in Sessions /\ pin[s] \in Seqs /\ pin[s] # NoSeq
      BY <1>1, <1>3 DEF IdlePins, Pins
    <2>2. idle[pin[s]] = 0
      BY <1>1, <1>3, UnpinSafe DEF Unowned
    <2>3. Kept(idle, table, Unpin(pin, s), pin[s]) /\ FewerPins(pin, Unpin(pin, s))
          /\ Unpin(pin, s)[s] = NoSeq
      BY <1>1, <2>1, UnpinKept
    <2>4. Kept(Push(idle, pin[s]), table, Unpin(pin, s), NoSeq)
      BY <1>1, <2>1, <2>2, <2>3, PushKept
    <2>. QED
      BY <1>3, <2>3, <2>4
  <1>. QED
    BY <1>2, <1>3 DEF Resolve

\* Without a seq to give there is a request in flight.
LEMMA FullServes ==
  ASSUME NEW p \in Pins, NEW bag \in Bags_, table \in Tables, Owned(bag, table, p),
         Kept(bag, table, p, NoSeq), Alloc(p, bag, {}) = {}
  PROVE  \E q \in Seqs : table[q] # NoClient
  <1>1. 0 \in Seqs
    BY SizesAssumption DEF Seqs
  <1>2. ~ \E q \in Seqs : bag[q] > 0
    <2> SUFFICES ASSUME NEW q \in Seqs, bag[q] > 0 PROVE FALSE
      OBVIOUS
    <2>1. [pin |-> p, idle |-> Pop(bag, q), seq |-> q] \in Alloc(p, bag, {})
      BY DEF Alloc
    <2>. QED
      BY <2>1
  <1>3. ASSUME NEW s \in IdlePins(p) PROVE FALSE
    <2>1. [pin |-> Unpin(p, s), idle |-> bag, seq |-> p[s]] \in Alloc(p, bag, {})
      BY <1>2, <1>3 DEF Alloc
    <2>. QED
      BY <2>1
  <1>4. bag[0] # 1 /\ 0 # NoSeq
    BY <1>1, <1>2, NoSeqIsNoSeq
  <1>. QED
    BY <1>1, <1>3, <1>4 DEF Kept, IdlePins, InFlight

-----------------------------------------------------------------------------
(* How a handler changes who is served for a session.                      *)

LEMMA SerialLess ==
  ASSUME NEW t \in Tables, NEW u \in Tables, NEW l, NEW m, NEW p, NEW o,
         Serial(t, l, p), \A q \in Seqs : u[q] \in {t[q], NoClient},
         QueuedIn(m) \subseteq QueuedIn(l), FewerPins(p, o),
         l \in Lists
  PROVE  Serial(u, m, o)
  <1>1. ServedIn(u) \subseteq ServedIn(t)
    BY DEF ServedIn
  <1>2. \A c \in ServedIn(t) \cup QueuedIn(l) : Session[c] # NoSession => Session[c] \in Sessions
    BY ServedInClients, QueuedInClients, ClientsAssumption
  <1>3. \A c, d \in ServedIn(u) \cup QueuedIn(m) :
          c # d /\ Session[c] # NoSession => Session[c] # Session[d]
    BY <1>1 DEF Serial
  <1>4. \A c \in QueuedIn(m) : Session[c] # NoSession => o[Session[c]] = NoSeq
    BY <1>2 DEF Serial, FewerPins
  <1>5. \A q \in Seqs : u[q] # NoClient /\ Session[u[q]] # NoSession
                          => o[Session[u[q]]] \in {q, NoSeq}
    <2> SUFFICES ASSUME NEW q \in Seqs, u[q] # NoClient, Session[u[q]] # NoSession
                 PROVE  o[Session[u[q]]] \in {q, NoSeq}
      OBVIOUS
    <2>1. u[q] = t[q] /\ t[q] \in ServedIn(t)
      BY DEF ServedIn
    <2>2. p[Session[t[q]]] \in {q, NoSeq} /\ Session[t[q]] \in Sessions
      BY <1>2, <2>1 DEF Serial
    <2>. QED
      BY <2>1, <2>2 DEF FewerPins
  <1>. QED
    BY <1>3, <1>4, <1>5 DEF Serial

LEMMA SerialStart ==
  ASSUME NEW t \in Tables, NEW l \in Lists, NEW m \in Lists, NEW p, Serial(t, l, p),
         NEW q \in Seqs, t[q] = NoClient, NEW c \in Clients,
         QueuedIn(m) = QueuedIn(l) \ {c},
         Session[c] # NoSession =>
            /\ p[Session[c]] \in {q, NoSeq}
            /\ \A d \in ServedIn(t) \cup QueuedIn(l) : d # c => Session[d] # Session[c]
  PROVE  Serial([t EXCEPT ![q] = c], m, p)
  <1> DEFINE T == [t EXCEPT ![q] = c]
  <1>1. ServedIn(T) = ServedIn(t) \cup {c}
    BY ServeMore
  <1>2. \A r \in Seqs : T[r] = IF r = q THEN c ELSE t[r]
    BY DEF Tables
  <1> HIDE DEF T
  <1>3. \A d, e \in ServedIn(T) \cup QueuedIn(m) :
          d # e /\ Session[d] # NoSession => Session[d] # Session[e]
    BY <1>1 DEF Serial
  <1>4. \A r \in Seqs : T[r] # NoClient /\ Session[T[r]] # NoSession
                          => p[Session[T[r]]] \in {r, NoSeq}
    BY <1>2 DEF Serial
  <1>5. \A d \in QueuedIn(m) : Session[d] # NoSession => p[Session[d]] = NoSeq
    BY DEF Serial
  <1>6. Serial(T, m, p)
    BY <1>3, <1>4, <1>5 DEF Serial
  <1>. QED
    BY <1>6 DEF T

LEMMA SerialEnqueue ==
  ASSUME NEW t, NEW l \in Lists, NEW p, Serial(t, l, p), NEW c \in Clients,
         Session[c] # NoSession =>
            /\ p[Session[c]] = NoSeq
            /\ \A d \in ServedIn(t) \cup QueuedIn(l) : Session[d] # Session[c]
  PROVE  Serial(t, Append(l, c), p)
  <1>1. QueuedIn(Append(l, c)) = QueuedIn(l) \cup {c}
    BY QueueMore
  <1>. QED
    BY <1>1 DEF Serial

\* A session that no known client has gets a pin.
LEMMA SerialPin ==
  ASSUME NEW t \in Tables, NEW l \in Lists, NEW p \in Pins, Serial(t, l, p),
         NEW s \in Sessions, NEW x,
         \A d \in ServedIn(t) \cup QueuedIn(l) : Session[d] # s
  PROVE  Serial(t, l, [p EXCEPT ![s] = x])
  <1> DEFINE o == [p EXCEPT ![s] = x]
  <1>1. \A u \in Sessions : o[u] = IF u = s THEN x ELSE p[u]
    BY DEF Pins
  <1>2. \A c \in ServedIn(t) \cup QueuedIn(l) : Session[c] # NoSession => Session[c] \in Sessions
    BY ServedInClients, QueuedInClients, ClientsAssumption
  <1>3. \A q \in Seqs : t[q] # NoClient => t[q] \in ServedIn(t)
    BY DEF ServedIn
  <1> HIDE DEF o
  <1>4. Serial(t, l, o)
    BY <1>1, <1>2, <1>3 DEF Serial
  <1>. QED
    BY <1>4 DEF o

-----------------------------------------------------------------------------
(* The steps.  SNow is SInv of a live process whose callers are serialised. *)

SNow == Serial(table, pending, pin) /\ Kept(idle, table, pin, NoSeq)

LEMMA SerialNext ==
  ASSUME Serial(table', pending', pin'), Kept(idle', table', pin', NoSeq),
         mode' = "idle" => pending' = <<>>
  PROVE  SInv'
  BY DEF SInv

\* Nobody known has the session of a caller that gets a seq or joins the queue.
LEMMA CallerAlone ==
  ASSUME IInv, CInv, SNow, SerialFirstTurns, NEW c \in Clients, MayCall(c),
         Session[c] # NoSession,
         \/ Session[c] \in IdlePins(pin)
         \/ pin[Session[c]] = NoSeq /\ Kind[c] # "continue"
  PROVE  \A d \in ServedIn(table) \cup QueuedIn(pending) : Session[d] # Session[c]
  <1> DEFINE s == Session[c]
  <1>1. /\ c \notin ServedIn(table) \cup QueuedIn(pending)
        /\ Tracked(table, pending, answer, registered, finishing, cancelling, FALSE)
    BY CallerUnknown DEF MayCall
  <1>2. ServedIn(table) \cup QueuedIn(pending) \subseteq Clients
    BY DataNow, ServedInClients, QueuedInClients
  <1>3. \A d \in ServedIn(table) \cup QueuedIn(pending) : answer[d] = "waiting"
    BY <1>1 DEF Tracked
  <1>4. CASE s \in IdlePins(pin)
    <2>1. pin[s] # NoSeq /\ table[pin[s]] = NoClient
      BY <1>4 DEF IdlePins, InFlight
    <2>2. \A d \in QueuedIn(pending) : Session[d] # s
      BY <2>1 DEF SNow, Serial
    <2>3. \A d \in ServedIn(table) : Session[d] # s
      BY <2>1 DEF SNow, Serial, ServedIn
    <2>. QED
      BY <2>2, <2>3
  <1>5. CASE pin[s] = NoSeq /\ Kind[c] # "continue"
    <2>1. \A d \in Clients \ {c} : Session[d] = s => answer[d] # "waiting"
      BY <1>5 DEF MayCall, Quiet
    <2>. QED
      BY <1>1, <1>2, <1>3, <2>1
  <1>. QED
    BY <1>4, <1>5

LEMMA LiveNow ==
  ASSUME IInv, CInv, SInv, SerialFirstTurns, mode # "stopped"
  PROVE  SNow /\ (mode = "idle" => pending = <<>>)
  BY DEF SInv, SNow, Live

\* A request on the session's own seq.
LEMMA StickySerial ==
  ASSUME IInv, CInv, SNow, SerialFirstTurns, NEW c \in Clients, MayCall(c),
         Session[c] \in IdlePins(pin), NEW n, StartAdmission(c, pin[Session[c]], n),
         UNCHANGED <<idle, pin>>
  PROVE  SInv'
  <1> DEFINE s == Session[c]
             q == pin[s]
  <1>1. s # NoSession /\ q \in Seqs /\ table[q] = NoClient
    BY SlotsNow, ClientsAssumption DEF IdlePins, InFlight, Pins
  <1>2. \A d \in ServedIn(table) \cup QueuedIn(pending) : Session[d] # s
    BY <1>1, CallerAlone
  <1>3. table' = [table EXCEPT ![q] = c] /\ pending' = pending /\ mode' = "running"
    BY DEF StartAdmission, StartRequest
  <1>4. QueuedIn(pending) = QueuedIn(pending) \ {c}
    BY <1>2
  <1> HIDE DEF q
  <1>5. Serial([table EXCEPT ![q] = c], pending, pin)
    <2>1. pin[s] \in {q, NoSeq}
      BY DEF q
    <2>. QED
      BY <1>1, <1>2, <1>4, <2>1, DataNow, SerialStart DEF SNow
  <1>6. Kept(idle, table, pin, q)
    BY NoSeqIsNoSeq DEF SNow, Kept
  <1>7. Kept(idle, [table EXCEPT ![q] = c], pin, NoSeq)
    BY <1>1, <1>6, DataNow, ServeKept
  <1>. QED
    BY <1>3, <1>5, <1>7, SerialNext

\* A request on a seq that was free or reclaimed.
LEMMA NormalSerial ==
  ASSUME IInv, CInv, SNow, SerialFirstTurns, NEW c \in Clients, AdmitNormal(c)
  PROVE  SInv'
  <1>1. PICK r \in Resolve(c) : \E a \in Alloc(r.pin, r.idle, {}) :
             /\ pin' = a.pin /\ idle' = a.idle
             /\ \E n : StartAdmission(c, a.seq, n)
    BY DEF AdmitNormal
  <1>2. PICK a \in Alloc(r.pin, r.idle, {}) :
             /\ pin' = a.pin /\ idle' = a.idle
             /\ \E n : StartAdmission(c, a.seq, n)
    BY <1>1
  <1>3. r.pin \in Pins /\ r.idle \in Bags_ /\ Owned(r.idle, table, r.pin)
    BY ResolveSafe DEF IInv
  <1>4. /\ Kept(r.idle, table, r.pin, NoSeq) /\ FewerPins(pin, r.pin)
        /\ Session[c] # NoSession => r.pin[Session[c]] = NoSeq
        /\ \/ Session[c] = NoSession \/ pin[Session[c]] = NoSeq
           \/ Session[c] \in IdlePins(pin)
    BY ResolveKept DEF SNow
  <1>5. Kept(a.idle, table, a.pin, a.seq) /\ FewerPins(r.pin, a.pin)
    BY <1>3, <1>4, AllocKept, DataNow
  <1>6. a.seq \in Seqs /\ table[a.seq] = NoClient
    BY <1>3, AllocSafe, SlotsNow DEF Unowned
  <1>7. FewerPins(pin, a.pin) /\ (Session[c] # NoSession => a.pin[Session[c]] = NoSeq)
    <2>1. Session[c] # NoSession => Session[c] \in Sessions
      BY ClientsAssumption
    <2>. QED
      BY <1>4, <1>5, <2>1 DEF FewerPins
  <1>8. Session[c] # NoSession =>
          \A d \in ServedIn(table) \cup QueuedIn(pending) : Session[d] # Session[c]
    BY <1>4, CallerAlone DEF AdmitNormal
  <1>9. /\ c \notin ServedIn(table) \cup QueuedIn(pending)
        /\ QueuedIn(pending) = QueuedIn(pending) \ {c}
    BY CallerUnknown DEF MayCall, AdmitNormal
  <1>10. Serial(table, pending, a.pin)
    BY <1>7, DataNow, SerialLess DEF SNow
  <1>11. Serial([table EXCEPT ![a.seq] = c], pending, a.pin)
    BY <1>6, <1>7, <1>8, <1>9, <1>10, DataNow, SerialStart
  <1>12. Kept(a.idle, [table EXCEPT ![a.seq] = c], a.pin, NoSeq)
    BY <1>5, <1>6, DataNow, ServeKept
  <1>13. table' = [table EXCEPT ![a.seq] = c] /\ pending' = pending /\ mode' = "running"
    BY <1>2 DEF StartAdmission, StartRequest
  <1>. QED
    BY <1>2, <1>11, <1>12, <1>13, SerialNext

LEMMA FailedSerial ==
  ASSUME IInv, CInv, SNow, mode = "idle" => pending = <<>>, NEW c \in Clients, AdmitFailed(c)
  PROVE  SInv'
  <1>1. PICK r \in Resolve(c) : \E a \in Alloc(r.pin, r.idle, {}) :
             pin' = a.pin /\ idle' = Push(a.idle, a.seq)
    BY DEF AdmitFailed
  <1>2. PICK a \in Alloc(r.pin, r.idle, {}) : pin' = a.pin /\ idle' = Push(a.idle, a.seq)
    BY <1>1
  <1>3. r.pin \in Pins /\ r.idle \in Bags_ /\ Owned(r.idle, table, r.pin)
    BY ResolveSafe DEF IInv
  <1>4. Kept(r.idle, table, r.pin, NoSeq) /\ FewerPins(pin, r.pin)
    BY ResolveKept DEF SNow
  <1>5. Kept(a.idle, table, a.pin, a.seq) /\ FewerPins(r.pin, a.pin)
    BY <1>3, <1>4, AllocKept, DataNow
  <1>6. a.seq \in Seqs /\ a.idle \in Bags_ /\ a.idle[a.seq] = 0
    BY <1>3, AllocSafe, SlotsNow DEF Unowned
  <1>7. FewerPins(pin, a.pin)
    BY <1>4, <1>5 DEF FewerPins
  <1>8. Serial(table, pending, a.pin)
    BY <1>7, DataNow, SerialLess DEF SNow
  <1>9. Kept(Push(a.idle, a.seq), table, a.pin, NoSeq)
    BY <1>5, <1>6, PushKept
  <1>10. UNCHANGED <<table, pending, mode>>
    BY DEF AdmitFailed, Refuse
  <1>. QED
    BY <1>2, <1>8, <1>9, <1>10, SerialNext

LEMMA EnqueueSerial ==
  ASSUME IInv, CInv, SNow, SerialFirstTurns, NEW c \in Clients, Enqueue(c)
  PROVE  SInv'
  <1>1. PICK r \in Resolve(c) : Alloc(r.pin, r.idle, {}) = {}
    BY DEF Enqueue, NoSeqFor
  <1>2. r.pin \in Pins /\ r.idle \in Bags_ /\ Owned(r.idle, table, r.pin)
    BY ResolveSafe DEF IInv
  <1>3. /\ Kept(r.idle, table, r.pin, NoSeq)
        /\ Session[c] # NoSession => r.pin[Session[c]] = NoSeq
        /\ \/ Session[c] = NoSession \/ pin[Session[c]] = NoSeq
           \/ Session[c] \in IdlePins(pin)
    BY ResolveKept DEF SNow
  <1>4. \E q \in Seqs : table[q] # NoClient
    BY <1>1, <1>2, <1>3, DataNow, FullServes
  <1>5. Session[c] # NoSession => pin[Session[c]] = NoSeq
    <2> SUFFICES ASSUME Session[c] \in IdlePins(pin), Session[c] # NoSession,
                        pin[Session[c]] # NoSeq
                 PROVE  FALSE
      BY <1>3
    <2> DEFINE q == pin[Session[c]]
    <2>1. r.idle = Push(idle, q) /\ q \in Seqs /\ idle \in Bags_
      BY SlotsNow DEF Resolve, IdlePins, Pins
    <2> HIDE DEF q
    <2>2. r.idle[q] > 0
      BY <2>1 DEF Push, Bags_
    <2>3. [pin |-> r.pin, idle |-> Pop(r.idle, q), seq |-> q] \in Alloc(r.pin, r.idle, {})
      BY <2>1, <2>2 DEF Alloc
    <2>. QED
      BY <1>1, <2>3
  <1>6. Session[c] # NoSession =>
          \A d \in ServedIn(table) \cup QueuedIn(pending) : Session[d] # Session[c]
    BY <1>5, CallerAlone DEF Enqueue
  <1>7. Serial(table, Append(pending, c), pin)
    BY <1>5, <1>6, DataNow, SerialEnqueue DEF SNow
  <1>8. UNCHANGED <<table, idle, pin>> /\ pending' = Append(pending, c) /\ mode' = mode
    BY <1>4, Names DEF Enqueue, slots
  <1>9. mode # "idle"
    BY <1>4 DEF CInv, CallersKnown
  <1>. QED
    BY <1>7, <1>8, <1>9, SerialNext DEF SNow

LEMMA CallSerial ==
  ASSUME IInv, CInv, SInv, SerialFirstTurns, NEW c \in Clients, Call(c)
  PROVE  SInv'
  <1>0. MayCall(c)
    BY DEF Call, AdmitSticky, RefuseBusy, RefusePinned, AdmitContinue, AdmitNormal,
           AdmitFailed, RefuseFull, Enqueue
  <1>1. SNow /\ (mode = "idle" => pending = <<>>)
    BY <1>0, LiveNow DEF MayCall, Ready
  <1>2. CASE AdmitSticky(c) \/ AdmitContinue(c)
    <2>1. PICK n : StartAdmission(c, pin[Session[c]], n) /\ Session[c] \in IdlePins(pin)
                   /\ UNCHANGED <<idle, pin>>
      BY <1>2 DEF AdmitSticky, AdmitContinue
    <2>. QED
      BY <1>0, <1>1, <2>1, StickySerial
  <1>3. CASE RefuseBusy(c) \/ RefusePinned(c) \/ RefuseFull(c)
    <2>1. UNCHANGED <<table, pending, idle, pin, mode>>
      BY <1>3 DEF RefuseBusy, RefusePinned, RefuseFull, Refuse
    <2>. QED
      BY <1>1, <2>1, SerialNext DEF SNow
  <1>. QED
    BY <1>1, <1>2, <1>3, NormalSerial, FailedSerial, EnqueueSerial DEF Call

LEMMA EndSerial ==
  ASSUME IInv, CInv, SNow, mode = "idle" => pending = <<>>, NEW s \in Sessions, EndSession(s)
  PROVE  SInv'
  <1>1. /\ s \in IdlePins(pin) /\ pin' = Unpin(pin, s) /\ idle' = Push(idle, pin[s])
        /\ UNCHANGED <<table, pending, mode>>
    BY DEF EndSession
  <1>2. pin[s] \in Seqs /\ pin[s] # NoSeq /\ idle[pin[s]] = 0 /\ idle \in Bags_ /\ pin \in Pins
    BY <1>1, SlotsNow, UnpinSafe DEF Unowned, IdlePins
  <1>3. Kept(idle, table, Unpin(pin, s), pin[s]) /\ FewerPins(pin, Unpin(pin, s))
    BY <1>2, UnpinKept DEF SNow
  <1>4. Kept(Push(idle, pin[s]), table, Unpin(pin, s), NoSeq)
    BY <1>2, <1>3, PushKept
  <1>5. Serial(table, pending, Unpin(pin, s))
    BY <1>3, DataNow, SerialLess DEF SNow
  <1>. QED
    BY <1>1, <1>4, <1>5, SerialNext

LEMMA ResetSerial ==
  ASSUME IInv, CInv, SNow, mode = "idle" => pending = <<>>, NEW s \in Sessions, ResetSession(s)
  PROVE  SInv'
  <1> DEFINE q == pin[s]
             T == [table EXCEPT ![q] = NoClient]
  <1>1. /\ q # NoSeq /\ pin' = Unpin(pin, s) /\ idle' = Push(idle, q)
        /\ table' = T /\ UNCHANGED <<pending, mode>>
    BY DEF ResetSession
  <1>2. pin \in Pins /\ idle \in Bags_ /\ table \in Tables /\ Owned(idle, table, pin) /\ q \in Seqs
    BY <1>1, SlotsNow DEF Pins
  <1>3. idle[q] = 0
    BY <1>2 DEF Owned, Bags_
  <1>4. T \in Tables /\ \A r \in Seqs : T[r] = IF r = q THEN NoClient ELSE table[r]
    BY <1>2 DEF Tables
  <1>5. Kept(idle, table, Unpin(pin, s), q) /\ FewerPins(pin, Unpin(pin, s))
    BY <1>1, <1>2, UnpinKept DEF SNow
  <1> HIDE DEF q, T
  <1>6. Kept(idle, T, Unpin(pin, s), q)
    BY <1>4, <1>5 DEF Kept
  <1>7. Kept(Push(idle, q), T, Unpin(pin, s), NoSeq)
    BY <1>2, <1>3, <1>6, PushKept
  <1>8. Serial(T, pending, Unpin(pin, s))
    <2>1. \A r \in Seqs : T[r] \in {table[r], NoClient}
      BY <1>4
    <2>. QED
      BY <1>4, <1>5, <2>1, DataNow, SerialLess DEF SNow
  <1>. QED
    BY <1>1, <1>7, <1>8, SerialNext

LEMMA ForkSerial ==
  ASSUME IInv, CInv, SNow, mode = "idle" => pending = <<>>, SerialFirstTurns,
         NEW s \in Sessions, NEW d \in Sessions, ForkSession(s, d)
  PROVE  SInv'
  <1>1. UNCHANGED <<table, pending, mode>> /\ Quiet(d, {}) /\ Ready
    BY DEF ForkSession
  <1>2. PICK a \in Alloc(pin, idle, {s}) :
             \/ pin' = [a.pin EXCEPT ![d] = a.seq] /\ idle' = a.idle
             \/ pin' = a.pin /\ idle' = Push(a.idle, a.seq)
    BY DEF ForkSession
  <1>3. Kept(a.idle, table, a.pin, a.seq) /\ FewerPins(pin, a.pin)
    BY AllocKept, SlotsNow DEF SNow
  <1>4. /\ a.seq \in Seqs /\ a.idle \in Bags_ /\ a.pin \in Pins /\ a.idle[a.seq] = 0
        /\ \A u \in Sessions : a.pin[u] # a.seq
    BY AllocSafe, SlotsNow DEF Unowned
  <1>5. Serial(table, pending, a.pin)
    BY <1>3, DataNow, SerialLess DEF SNow
  <1>6. \A c \in ServedIn(table) \cup QueuedIn(pending) : Session[c] # d
    <2>1. TrackedNow /\ stage = "ready"
      BY <1>1 DEF CInv, CallersKnown, Live, Ready
    <2>2. \A c \in ServedIn(table) \cup QueuedIn(pending) : answer[c] = "waiting" /\ c \in Clients
      BY <2>1, DataNow, ServedInClients, QueuedInClients DEF TrackedNow, Tracked
    <2>. QED
      BY <1>1, <2>2 DEF Quiet
  <1>7. CASE pin' = [a.pin EXCEPT ![d] = a.seq] /\ idle' = a.idle
    <2>1. Serial(table, pending, [a.pin EXCEPT ![d] = a.seq])
      BY <1>4, <1>5, <1>6, DataNow, SerialPin
    <2>2. pin[d] = NoSeq
      BY DEF ForkSession
    <2>3. a.pin[d] = NoSeq
      BY <1>3, <2>2 DEF FewerPins
    <2>4. \A u \in Sessions : pin'[u] = IF u = d THEN a.seq ELSE a.pin[u]
      BY <1>4, <1>7 DEF Pins
    <2>5. Kept(idle', table, pin', NoSeq)
      BY <1>3, <1>7, <2>3, <2>4, NoSeqIsNoSeq DEF Kept
    <2>. QED
      BY <1>1, <1>7, <2>1, <2>5, SerialNext
  <1>8. CASE pin' = a.pin /\ idle' = Push(a.idle, a.seq)
    <2>1. Kept(Push(a.idle, a.seq), table, a.pin, NoSeq)
      BY <1>3, <1>4, PushKept
    <2>. QED
      BY <1>1, <1>5, <1>8, <2>1, SerialNext
  <1>. QED
    BY <1>2, <1>7, <1>8

\* A failed media prefill frees its seq.
LEMMA MediaFailedSerial ==
  ASSUME IInv, CInv, SNow, TickMediaFailed
  PROVE  SInv'
  <1> DEFINE q == CHOOSE r \in Active : TRUE
             T == [table EXCEPT ![q] = NoClient]
  <1>1. q \in Active /\ table[q] \in mediaWait
    BY DEF TickMediaFailed, MediaTurn
  <1>2. /\ table' = T /\ idle' = Push(idle, q)
        /\ UNCHANGED <<pin, pending, mode>> /\ mode = "running"
    BY DEF TickMediaFailed, Ticking
  <1> HIDE DEF q
  <1>3. q \in Seqs /\ table[q] # NoClient
    BY <1>1 DEF Active, Serving, InFlight
  <1>4. idle[q] = 0 /\ idle \in Bags_
    BY <1>3, SlotsNow DEF Owned, Bags_
  <1>5. T \in Tables /\ \A r \in Seqs : T[r] = IF r = q THEN NoClient ELSE table[r]
    BY <1>3, DataNow DEF Tables
  <1> HIDE DEF T
  <1>6. Kept(idle, T, pin, q)
    BY <1>5, NoSeqIsNoSeq DEF SNow, Kept
  <1>7. Kept(Push(idle, q), T, pin, NoSeq)
    BY <1>3, <1>4, <1>6, PushKept
  <1>8. Serial(T, pending, pin)
    <2>1. (\A r \in Seqs : T[r] \in {table[r], NoClient}) /\ FewerPins(pin, pin)
      BY <1>5 DEF FewerPins
    <2>. QED
      BY <1>5, <2>1, DataNow, SerialLess DEF SNow
  <1>. QED
    BY <1>2, <1>7, <1>8, SerialNext

LEMMA FreshSerial ==
  ASSUME Fresh
  PROVE  SInv'
  <1>1. ServedIn(table') = {} /\ QueuedIn(pending') = {}
    BY DEF Fresh, ServedIn, NoRequest, QueuedIn
  <1>2. \A q \in Seqs : table'[q] = NoClient /\ idle'[q] = 1
    BY DEF Fresh, NoRequest, AllIdle
  <1>3. Serial(table', pending', pin') /\ Kept(idle', table', pin', NoSeq)
    BY <1>1, <1>2 DEF Serial, Kept
  <1>. QED
    BY <1>3, SerialNext DEF Fresh

LEMMA TickSerial ==
  ASSUME IInv, CInv, SInv, SerialFirstTurns, Tick
  PROVE  SInv'
  <1>1. CASE TickMedia \/ TickStep \/ TickSpec \/ TickIgnored
    <2>1. UNCHANGED <<table, pending, idle, pin, mode>> /\ mode # "stopped"
      BY <1>1 DEF TickMedia, TickStep, TickSpec, TickIgnored, slots, Ticking, Ready
    <2>. QED
      BY <2>1, LiveNow, SerialNext DEF SNow
  <1>2. CASE TickMediaFailed
    BY <1>2, LiveNow, MediaFailedSerial DEF TickMediaFailed, Ticking
  <1>3. CASE TickRecover
    BY <1>3, FreshSerial DEF TickRecover
  <1>4. CASE TickFatal \/ TickCrash
    BY <1>4 DEF TickFatal, TickCrash, Stop, SInv, Live
  <1>. QED
    BY <1>1, <1>2, <1>3, <1>4 DEF Tick

\* The seq of a request that ends stays with its session, which has no other,
\* or is freed.
LEMMA FinishSerial ==
  ASSUME IInv, CInv, SInv, SerialFirstTurns, NEW q \in Seqs, FinishReq(q)
  PROVE  SInv'
  <1> DEFINE c == table[q]
             s == Session[c]
             T == [table EXCEPT ![q] = NoClient]
  <1>1. /\ stage = "finish" /\ table' = T /\ UNCHANGED <<pending, mode>> /\ c \in Clients
        /\ IF s = NoSession THEN idle' = Push(idle, q) /\ pin' = pin
                            ELSE idle' = idle /\ pin' = [pin EXCEPT ![s] = q]
    BY SlotsNow DEF FinishReq
  <1>2. mode = "running" /\ TrackedNow
    BY <1>1 DEF CInv, Phases, CallersKnown, Live
  <1>3. SNow
    BY <1>2, LiveNow
  <1>4. T \in Tables /\ \A r \in Seqs : T[r] = IF r = q THEN NoClient ELSE table[r]
    BY DataNow DEF Tables
  <1>5. c # NoClient /\ c \in ServedIn(table) /\ c \notin QueuedIn(pending)
        /\ ServedIn(T) = ServedIn(table) \ {c}
    <2>1. c # NoClient /\ c \in ServedIn(table)
      BY <1>1, ClientsAssumption DEF ServedIn
    <2>2. KnownOnce(table, pending)
      BY <1>2 DEF TrackedNow, Tracked
    <2>. QED
      BY <2>1, <2>2, DataNow, ServeLess DEF KnownOnce
  <1> HIDE DEF T
  <1>6. Serial(T, pending, pin)
    <2>1. (\A r \in Seqs : T[r] \in {table[r], NoClient}) /\ FewerPins(pin, pin)
      BY <1>4 DEF FewerPins
    <2>. QED
      BY <1>3, <1>4, <2>1, DataNow, SerialLess DEF SNow
  <1>7. CASE s = NoSession
    <2>1. idle[q] = 0 /\ idle \in Bags_
      BY <1>5, SlotsNow DEF Owned, Bags_
    <2>2. Kept(idle, T, pin, q)
      BY <1>3, <1>4, NoSeqIsNoSeq DEF SNow, Kept
    <2>3. Kept(Push(idle, q), T, pin, NoSeq)
      BY <2>1, <2>2, PushKept
    <2>. QED
      BY <1>1, <1>2, <1>6, <1>7, <2>3, SerialNext
  <1>8. CASE s # NoSession
    <2>1. s \in Sessions /\ pin \in Pins /\ pin' = [pin EXCEPT ![s] = q] /\ idle' = idle
      BY <1>1, <1>8, ClientsAssumption, SlotsNow
    <2>2. \A d \in ServedIn(T) \cup QueuedIn(pending) : Session[d] # s
      BY <1>3, <1>5, <1>8 DEF SNow, Serial
    <2>3. pin[s] \in {q, NoSeq}
      BY <1>3, <1>5, <1>8 DEF SNow, Serial
    <2> HIDE DEF s, c
    <2>4. Serial(T, pending, [pin EXCEPT ![s] = q])
      BY <1>4, <1>6, <2>1, <2>2, DataNow, SerialPin
    <2>5. \A u \in Sessions : pin'[u] = IF u = s THEN q ELSE pin[u]
      BY <2>1 DEF Pins
    <2>6. Kept(idle, T, pin', NoSeq)
      BY <1>3, <1>4, <2>1, <2>3, <2>5, NoSeqIsNoSeq DEF SNow, Kept
    <2>. QED
      BY <1>1, <1>2, <2>1, <2>4, <2>6, SerialNext
  <1>. QED
    BY <1>7, <1>8

LEMMA DispatchSerial ==
  ASSUME IInv, CInv, SInv, SerialFirstTurns, Dispatch
  PROVE  SInv'
  <1> DEFINE c == Head(pending)
  <1>1. stage = "dispatch" /\ mode' = mode /\ pending # <<>> /\ pending' = Tail(pending)
    BY DEF Dispatch
  <1>2. mode = "running" /\ TrackedNow
    BY <1>1 DEF CInv, Phases, CallersKnown, Live
  <1>3. SNow
    BY <1>2, LiveNow
  <1>4. /\ Tail(pending) \in Lists /\ c \in QueuedIn(pending)
        /\ QueuedIn(Tail(pending)) = QueuedIn(pending) \ {c}
    BY <1>1, <1>2, DataNow, QueueLess DEF TrackedNow, Tracked
  <1>5. c \in Clients
    BY <1>4, DataNow, QueuedInClients
  <1>6. PICK a \in Alloc(pin, idle, {}) :
          /\ pin' = a.pin
          /\ \/ idle' = a.idle /\ table' = [table EXCEPT ![a.seq] = c]
             \/ idle' = Push(a.idle, a.seq) /\ table' = table
    BY DEF Dispatch, Dispatchable, StartRequest
  <1>7. Kept(a.idle, table, a.pin, a.seq) /\ FewerPins(pin, a.pin)
    BY <1>3, AllocKept, SlotsNow DEF SNow
  <1>8. /\ a.seq \in Seqs /\ table[a.seq] = NoClient /\ a.idle \in Bags_ /\ a.idle[a.seq] = 0
    BY AllocSafe, SlotsNow DEF Unowned
  <1> HIDE DEF c
  <1>9. CASE idle' = a.idle /\ table' = [table EXCEPT ![a.seq] = c]
    <2>1. Serial(table, pending, a.pin)
      BY <1>3, <1>7, DataNow, SerialLess DEF SNow
    <2>2. Session[c] # NoSession =>
            /\ a.pin[Session[c]] \in {a.seq, NoSeq}
            /\ \A d \in ServedIn(table) \cup QueuedIn(pending) : d # c => Session[d] # Session[c]
      BY <1>4, <2>1 DEF Serial
    <2>3. Serial([table EXCEPT ![a.seq] = c], Tail(pending), a.pin)
      BY <1>4, <1>5, <1>8, <2>1, <2>2, DataNow, SerialStart
    <2>4. Kept(a.idle, [table EXCEPT ![a.seq] = c], a.pin, NoSeq)
      BY <1>5, <1>7, <1>8, DataNow, ServeKept
    <2>. QED
      BY <1>1, <1>2, <1>6, <1>9, <2>3, <2>4, SerialNext
  <1>10. CASE idle' = Push(a.idle, a.seq) /\ table' = table
    <2>1. Serial(table, Tail(pending), a.pin)
      <3>1. QueuedIn(Tail(pending)) \subseteq QueuedIn(pending)
        BY <1>4
      <3>. QED
        BY <1>3, <1>7, <3>1, DataNow, SerialLess DEF SNow
    <2>2. Kept(Push(a.idle, a.seq), table, a.pin, NoSeq)
      BY <1>7, <1>8, PushKept
    <2>. QED
      BY <1>1, <1>2, <1>6, <1>10, <2>1, <2>2, SerialNext
  <1>. QED
    BY <1>6, <1>9, <1>10

LEMMA SerialStep ==
  ASSUME IInv, CInv, SInv, [Next]_vars
  PROVE  SInv'
  <1> SUFFICES ASSUME SerialFirstTurns PROVE SInv'
    BY DEF SInv
  <1>1. ASSUME UNCHANGED <<mode, table, pending, idle, pin>> PROVE SInv'
    BY <1>1 DEF SInv, Live
  <1>2. ASSUME NEW c \in Clients, Cancel(c) PROVE SInv'
    BY <1>1, <1>2 DEF Cancel, slots
  <1>3. ASSUME NEW s \in Sessions, EndSession(s) PROVE SInv'
    BY <1>3, EndSerial, LiveNow DEF EndSession, Ready
  <1>4. ASSUME NEW s \in Sessions, ResetSession(s) PROVE SInv'
    BY <1>4, ResetSerial, LiveNow DEF ResetSession, Ready
  <1>5. ASSUME NEW s \in Sessions, NEW d \in Sessions, ForkSession(s, d) PROVE SInv'
    BY <1>5, ForkSerial, LiveNow DEF ForkSession, Ready
  <1>6. CASE FinishedAll \/ InflightDown \/ UNCHANGED vars
    BY <1>1, <1>6 DEF FinishedAll, InflightDown, vars, slots
  <1>7. CASE TickEnd
    <2>1. UNCHANGED <<table, pending, idle, pin>> /\ mode = "running"
      BY <1>7 DEF TickEnd, slots, CInv, Phases
    <2>2. SNow
      BY <2>1, LiveNow
    <2>3. mode' = "idle" => pending = <<>>
      <3> SUFFICES ASSUME Serving = {}, Dispatchable = {} PROVE FALSE
        BY <1>7, <2>1 DEF TickEnd
      <3>. QED
        BY <2>2, Names, FullServes, SlotsNow DEF Dispatchable, SNow
    <2>. QED
      BY <2>1, <2>2, <2>3, SerialNext DEF SNow
  <1>8. CASE Reload
    BY <1>8, FreshSerial DEF Reload
  <1>. QED
    BY <1>2, <1>3, <1>4, <1>5, <1>6, <1>7, <1>8, CallSerial, TickSerial, FinishSerial,
       DispatchSerial
    DEF Next, AfterStep

LEMMA SerialInvariant == Spec => [](IInv /\ CInv /\ SInv)
  <1>1. Init => SInv
    <2> SUFFICES ASSUME Init PROVE SInv
      OBVIOUS
    <2>1. ServedIn(table) = {} /\ QueuedIn(pending) = {}
      BY DEF Init, ServedIn, NoRequest, QueuedIn
    <2>2. \A q \in Seqs : table[q] = NoClient /\ idle[q] = 1
      BY DEF Init, NoRequest, AllIdle
    <2>3. Serial(table, pending, pin) /\ Kept(idle, table, pin, NoSeq)
      BY <2>1, <2>2 DEF Serial, Kept
    <2>. QED
      BY <2>3 DEF Init, SInv
  <1>2. IInv /\ CInv /\ SInv /\ [Next]_vars => SInv'
    BY SerialStep
  <1>. QED
    BY <1>1, <1>2, CallersInvariant, PTL DEF Spec

(***************************************************************************)
(* When callers wait for the end of a new session's first request, no seq  *)
(* leaks: between two handlers every seq is idle, in flight or pinned,     *)
(* whatever admissions, forks, resets and decodes have failed.             *)
(***************************************************************************)
THEOREM NoSeqLeaks == Spec => [](SerialFirstTurns => NoSeqLost)
  <1>1. SInv => (SerialFirstTurns => NoSeqLost)
    BY NoSeqIsNoSeq DEF SInv, Live, Kept, NoSeqLost, Ready, InFlight
  <1>. QED
    BY <1>1, SerialInvariant, PTL

(***************************************************************************)
(* And no session has two requests in flight, neither by two calls, nor by *)
(* one that waited in the queue, nor by a fork, as the documentation says  *)
(* of every caller.  (A process that stopped serves nobody.)               *)
(***************************************************************************)
THEOREM SessionsTakeTurns == Spec => [](SerialFirstTurns /\ Live => OneRequestPerSession)
  <1>1. IInv /\ CInv /\ SInv => (SerialFirstTurns /\ Live => OneRequestPerSession)
    <2> SUFFICES ASSUME IInv, CInv, SInv, SerialFirstTurns, Live, NEW q \in Serving,
                        NEW r \in Serving, q # r, Session[table[q]] # NoSession
                 PROVE  Session[table[q]] # Session[table[r]]
      BY DEF OneRequestPerSession
    <2>1. /\ q \in Seqs /\ r \in Seqs /\ table[q] # NoClient /\ table[r] # NoClient
          /\ table[q] \in ServedIn(table) /\ table[r] \in ServedIn(table)
      BY DEF Serving, InFlight, ServedIn
    <2>2. KnownOnce(table, pending)
      BY DEF CInv, CallersKnown, TrackedNow, Tracked
    <2>3. table[q] # table[r]
      BY <2>1, <2>2 DEF KnownOnce
    <2>. QED
      BY <2>1, <2>3 DEF SInv, Serial
  <1>. QED
    BY <1>1, SerialInvariant, PTL

(***************************************************************************)
(* Under the same assumption work never stalls: while a request is in      *)
(* flight or a call is queued, the process is in running and a tick is in  *)
(* its mailbox.  A lost seq would break it: a call can then be queued when *)
(* nothing runs that would dispatch it.                                    *)
(***************************************************************************)
THEOREM WorkNeverStalls == Spec => [](SerialFirstTurns => NoStalledWork)
  <1>1. CInv /\ SInv => (SerialFirstTurns => NoStalledWork)
    <2> SUFFICES ASSUME CInv, SInv, SerialFirstTurns, Ready,
                        Serving # {} \/ pending # <<>>
                 PROVE  mode = "running" /\ ticks > 0
      BY DEF NoStalledWork
    <2>1. mode # "idle" /\ mode # "stopped" /\ stage = "ready"
      BY Names DEF CInv, CallersKnown, SInv, Live, Ready
    <2>. QED
      BY <2>1 DEF CInv, Phases
  <1>. QED
    BY <1>1, SerialInvariant, PTL

-----------------------------------------------------------------------------
(* The counters of the process: what is left to prefill and to generate.   *)

(* A request that goes on has a token left to generate. *)
Owing(t, fin, gen) == \A c \in ServedIn(t) : c \notin fin => gen[c] >= 1

Lefts == [Clients -> 0 .. PromptMax]
Todos == [Clients -> 0 .. RespMax]

PInv ==
    /\ left \in Lefts /\ todo \in Todos /\ registered \in SUBSET Clients
    /\ Live => Owing(table, finishing, todo)

\* start_request/4.
LEMMA StartCounts ==
  ASSUME IInv, PInv, Live, NEW c \in Clients, NEW q \in Seqs, NEW n \in 0 .. PromptMax,
         table[q] = NoClient, StartRequest(c, q, n)
  PROVE  PInv'
  <1>1. /\ table' = [table EXCEPT ![q] = c] /\ finishing' = finishing
        /\ left' = [left EXCEPT ![c] = IF Kind[c] = "media" THEN 0 ELSE n]
        /\ todo' = [todo EXCEPT ![c] = RespMax]
        /\ registered' \subseteq registered \cup {c}
    BY DEF StartRequest
  <1>2. left \in Lefts /\ todo \in Todos /\ registered \in SUBSET Clients
        /\ Owing(table, finishing, todo)
    BY DEF PInv
  <1>3. PromptMax \in Nat /\ RespMax \in Nat /\ RespMax >= 1
    BY SizesAssumption
  <1>4. left' \in Lefts /\ todo' \in Todos /\ registered' \in SUBSET Clients
    BY <1>1, <1>2, <1>3 DEF Lefts, Todos
  <1>5. ServedIn(table') = ServedIn(table) \cup {c} /\ ServedIn(table) \subseteq Clients
    BY <1>1, DataNow, ServeMore, ServedInClients
  <1>6. \A d \in Clients : todo'[d] = IF d = c THEN RespMax ELSE todo[d]
    BY <1>1, <1>2 DEF Todos
  <1>7. Owing(table', finishing', todo')
    BY <1>1, <1>2, <1>3, <1>5, <1>6 DEF Owing
  <1>. QED
    BY <1>4, <1>7 DEF PInv

\* A handler that neither starts, steps nor ends a request.
LEMMA SameCounts ==
  ASSUME PInv, UNCHANGED <<table, finishing, left, todo>>, registered' \subseteq registered,
         Live' => Live
  PROVE  PInv'
  BY DEF PInv

\* The clients cs leave the table and are forgotten.
LEMMA ForgetCounts ==
  ASSUME PInv, Live, NEW cs \in SUBSET Clients,
         ServedIn(table') \subseteq ServedIn(table) \ cs,
         left' = [c \in Clients |-> IF c \in cs THEN 0 ELSE left[c]],
         todo' = [c \in Clients |-> IF c \in cs THEN 0 ELSE todo[c]],
         ServedIn(table) \subseteq Clients,
         finishing \ cs \subseteq finishing', registered' \subseteq registered
  PROVE  PInv'
  <1>1. left \in Lefts /\ todo \in Todos /\ registered \in SUBSET Clients
        /\ Owing(table, finishing, todo)
    BY DEF PInv
  <1>2. left' \in Lefts /\ todo' \in Todos
    BY <1>1, SizesAssumption DEF Lefts, Todos
  <1>3. Owing(table', finishing', todo')
    BY <1>1 DEF Owing
  <1>. QED
    BY <1>1, <1>2, <1>3 DEF PInv

LEMMA FreshCounts ==
  ASSUME Fresh
  PROVE  PInv'
  <1>1. left' \in Lefts /\ todo' \in Todos /\ registered' \in SUBSET Clients
    BY SizesAssumption DEF Fresh, Zero, Lefts, Todos
  <1>2. \A q \in Seqs : table'[q] = NoClient
    BY DEF Fresh, NoRequest
  <1>3. Owing(table', finishing', todo')
    BY <1>2 DEF Owing, ServedIn
  <1>. QED
    BY <1>1, <1>3 DEF PInv

LEMMA CallCounts ==
  ASSUME IInv, CInv, PInv, NEW c \in Clients, Call(c)
  PROVE  PInv'
  <1>0. MayCall(c) /\ Live
    BY DEF Call, AdmitSticky, RefuseBusy, RefusePinned, AdmitContinue, AdmitNormal,
           AdmitFailed, RefuseFull, Enqueue, MayCall, Ready, Live
  <1>1. CASE AdmitSticky(c) \/ AdmitContinue(c)
    <2>1. PICK n \in 0 .. PromptMax :
             StartAdmission(c, pin[Session[c]], n) /\ Session[c] \in IdlePins(pin)
      BY <1>1 DEF AdmitSticky, AdmitContinue
    <2>2. pin[Session[c]] \in Seqs /\ table[pin[Session[c]]] = NoClient
      BY <2>1, SlotsNow DEF IdlePins, InFlight, Pins
    <2>. QED
      BY <1>0, <2>1, <2>2, StartCounts DEF StartAdmission
  <1>2. CASE AdmitNormal(c)
    <2>1. PICK r \in Resolve(c) : \E a \in Alloc(r.pin, r.idle, {}) :
                 \E n \in 1 .. PromptMax : StartAdmission(c, a.seq, n)
      BY <1>2 DEF AdmitNormal
    <2>2. PICK a \in Alloc(r.pin, r.idle, {}) :
                 \E n \in 1 .. PromptMax : StartAdmission(c, a.seq, n)
      BY <2>1
    <2>3. PICK n \in 1 .. PromptMax : StartAdmission(c, a.seq, n)
      BY <2>2
    <2>4. r.pin \in Pins /\ r.idle \in Bags_ /\ Owned(r.idle, table, r.pin)
      BY ResolveSafe DEF IInv
    <2>5. a.seq \in Seqs /\ table[a.seq] = NoClient
      BY <2>4, AllocSafe, SlotsNow DEF Unowned
    <2>6. n \in 0 .. PromptMax
      BY SizesAssumption
    <2>. QED
      BY <1>0, <2>3, <2>5, <2>6, StartCounts DEF StartAdmission
  <1>3. CASE RefuseBusy(c) \/ RefusePinned(c) \/ AdmitFailed(c) \/ RefuseFull(c)
    <2>1. Refuse(c, "busy") \/ Refuse(c, "error") \/ Refuse(c, "full")
      BY <1>3 DEF RefuseBusy, RefusePinned, AdmitFailed, RefuseFull
    <2>. QED
      BY <1>0, <2>1, SameCounts DEF Refuse, progress
  <1>4. CASE Enqueue(c)
    BY <1>0, <1>4, SameCounts DEF Enqueue, slots, progress
  <1>. QED
    BY <1>1, <1>2, <1>3, <1>4 DEF Call

\* The request on seq q leaves.
LEMMA LeaveCounts ==
  ASSUME IInv, CInv, PInv, Live, NEW q \in Seqs, table[q] \in Clients,
         table' = [table EXCEPT ![q] = NoClient],
         left' = [c \in Clients |-> IF c \in {table[q]} THEN 0 ELSE left[c]],
         todo' = [c \in Clients |-> IF c \in {table[q]} THEN 0 ELSE todo[c]],
         finishing \ {table[q]} \subseteq finishing', registered' \subseteq registered
  PROVE  PInv'
  <1>1. KnownOnce(table, pending)
    BY DEF CInv, CallersKnown, TrackedNow, Tracked
  <1>2. table[q] # NoClient
    BY ClientsAssumption
  <1>3. ServedIn(table') = ServedIn(table) \ {table[q]} /\ ServedIn(table) \subseteq Clients
    BY <1>1, <1>2, DataNow, ServeLess, ServedInClients
  <1>. QED
    BY <1>3, ForgetCounts

LEMMA ResetCounts ==
  ASSUME IInv, CInv, PInv, NEW s \in Sessions, ResetSession(s)
  PROVE  PInv'
  <1> DEFINE q == pin[s]
             failed == {table[q]} \cap Clients
  <1>1. /\ q \in Seqs /\ Live
        /\ table' = [table EXCEPT ![q] = NoClient]
        /\ finishing' = finishing \ failed /\ registered' = registered \ failed
        /\ left' = [c \in Clients |-> IF c \in failed THEN 0 ELSE left[c]]
        /\ todo' = [c \in Clients |-> IF c \in failed THEN 0 ELSE todo[c]]
    BY SlotsNow DEF ResetSession, Forget, NotifyFailure, Ready, Pins, Live
  <1>2. CASE table[q] \in Clients
    <2>1. failed = {table[q]}
      BY <1>2
    <2> HIDE DEF q, failed
    <2>. QED
      BY <1>1, <1>2, <2>1, LeaveCounts
  <1>3. CASE table[q] \notin Clients
    <2>1. failed = {} /\ table' = table
      BY <1>1, <1>3, DataNow DEF Tables
    <2>2. left' = left /\ todo' = todo
      BY <1>1, <2>1 DEF PInv, Lefts, Todos
    <2> HIDE DEF failed
    <2>. QED
      BY <1>1, <2>1, <2>2, SameCounts
  <1>. QED
    BY <1>2, <1>3

-----------------------------------------------------------------------------
(* The rows of a batch.                                                    *)

LEMMA DecodersCount == IsFiniteSet(Seqs) /\ IsFiniteSet(DecodeRows) /\ DecCount \in Nat
  <1>1. IsFiniteSet(Seqs)
    <2>1. 0 \in Int /\ NSeqMax - 1 \in Int
      BY SizesAssumption
    <2>. QED
      BY <2>1, FS_Interval DEF Seqs
  <1>2. DecodeRows \subseteq Seqs
    BY DEF DecodeRows, Active, Serving
  <1>. QED
    BY <1>1, <1>2, FS_Subset, FS_CardinalityType DEF DecCount

\* A slice fits its segment and what is left of the budget.
LEMMA SliceFits ==
  ASSUME IInv, PInv, NEW segment \in Segments, NEW q, NEW room \in Nat
  PROVE  /\ Slice(q, segment, room) \in 0 .. room
         /\ q \in PrefillRows => Slice(q, segment, room) \in 0 .. left[table[q]]
         /\ q \notin PrefillRows => Slice(q, segment, room) = 0
  <1>1. ChunkSize \in Nat
    BY SizesAssumption
  <1>2. CASE q \in PrefillRows
    <2> DEFINE a == segment[q]
    <2>0. table[q] \in Clients /\ left[table[q]] \in Nat
      BY <1>2, DataNow, SizesAssumption
      DEF PInv, Lefts, Tables, PrefillRows, Active, Serving, InFlight
    <2>1. a \in Nat /\ a <= left[table[q]]
      BY <1>2, SizesAssumption DEF Segments
    <2>2. Slice(q, segment, room) = Least(a, Least(room, ChunkSize))
      BY <1>2 DEF Slice
    <2> HIDE DEF a
    <2>3. /\ Least(a, Least(room, ChunkSize)) \in Nat
          /\ Least(a, Least(room, ChunkSize)) <= a
          /\ Least(a, Least(room, ChunkSize)) <= room
      BY <1>1, <2>1 DEF Least
    <2>. QED
      BY <1>2, <2>0, <2>1, <2>2, <2>3
  <1>3. CASE q \notin PrefillRows
    BY <1>3 DEF Slice
  <1>. QED
    BY <1>2, <1>3

Rooms(room, segment) ==
    /\ room \in [Nat -> Nat] /\ room[0] = Budget - DecCount
    /\ \A q \in Nat : room[q + 1] = room[q] - Slice(q, segment, room[q])

\* slice_prefills/3 never runs out of what it hands on.
LEMMA RoomIs ==
  ASSUME IInv, PInv, NEW segment \in Segments, DecCount <= Budget
  PROVE  Rooms(Room(segment), segment)
  <1> DEFINE B == Budget - DecCount
             e(q, v) == v - Slice(q, segment, v)
             h == [q \in Nat |-> [v \in Nat |-> e(q, v)]]
  <1>1. B \in Nat
    BY DecodersCount, SizesAssumption
  <1>2. \A q \in Nat : \A v \in Nat : e(q, v) \in Nat
    <2> SUFFICES ASSUME NEW q \in Nat, NEW v \in Nat PROVE v - Slice(q, segment, v) \in Nat
      OBVIOUS
    <2>1. Slice(q, segment, v) \in 0 .. v
      BY SliceFits
    <2>. QED
      BY <2>1
  <1>3. h \in Steps(Nat) /\ \A q \in Nat : \A v \in Nat : h[q][v] = e(q, v)
    <2> HIDE DEF e
    <2>. QED
      BY <1>2 DEF Steps
  <1> HIDE DEF h, B
  <1>4. \E f : Iterates(f, Nat, B, h)
    BY <1>1, <1>3, RecursionExists
  <1>5. PICK f : Iterates(f, Nat, B, h)
    BY <1>4
  <1>6. f \in [Nat -> Nat] /\ f[0] = B /\ \A n \in Nat : f[n + 1] = e(n, f[n])
    BY <1>3, <1>5 DEF Iterates
  <1>7. ASSUME NEW q \in Nat
        PROVE  f[q] = IF q = 0 THEN B ELSE e(q - 1, f[q - 1])
    <2>1. CASE q = 0
      BY <1>6, <2>1
    <2>2. CASE q # 0
      <3>1. q - 1 \in Nat /\ (q - 1) + 1 = q
        BY <2>2
      <3> HIDE DEF e
      <3>2. f[(q - 1) + 1] = e(q - 1, f[q - 1])
        BY <1>6, <3>1
      <3>. QED
        BY <2>2, <3>1, <3>2
    <2>. QED
      BY <2>1, <2>2
  <1>8. f = [q \in Nat |-> IF q = 0 THEN B ELSE e(q - 1, f[q - 1])]
    <2> HIDE DEF e
    <2>. QED
      BY <1>6, <1>7
  <1> DEFINE room == Room(segment)
  <1>9. room = [q \in Nat |-> IF q = 0 THEN B ELSE e(q - 1, room[q - 1])]
    BY <1>8 DEF Room, B
  <1> HIDE DEF room
  <1>10. room[0] = B /\ \A q \in Nat : room[q + 1] = e(q, room[q])
    <2> HIDE DEF e
    <2>1. room[0] = B
      BY <1>9
    <2>2. ASSUME NEW q \in Nat PROVE room[q + 1] = e(q, room[q])
      <3>1. q + 1 \in Nat /\ q + 1 # 0 /\ (q + 1) - 1 = q
        OBVIOUS
      <3>. QED
        BY <1>9, <3>1
    <2>. QED
      BY <2>1, <2>2
  <1>11. \A q \in Nat : room[q] \in Nat
    <2> DEFINE S == {q \in Nat : room[q] \in Nat}
    <2> HIDE DEF e
    <2>1. 0 \in S
      BY <1>1, <1>10
    <2>2. ASSUME NEW n \in Nat, n \in S PROVE n + 1 \in S
      <3>1. room[n] \in Nat /\ room[n + 1] = e(n, room[n]) /\ n + 1 \in Nat
        BY <1>10, <2>2
      <3>2. e(n, room[n]) \in Nat
        BY <1>2, <3>1
      <3>. QED
        BY <3>1, <3>2
    <2>3. Nat \subseteq S
      <3> HIDE DEF S
      <3>. QED
        BY <2>1, <2>2, SetInduction
    <2>. QED
      BY <2>3
  <1>12. room \in [Nat -> Nat]
    <2> DEFINE w(q) == IF q = 0 THEN B ELSE e(q - 1, room[q - 1])
    <2>1. room = [q \in Nat |-> w(q)]
      BY <1>9
    <2> HIDE DEF w
    <2>. QED
      BY <1>11, <2>1
  <1>. QED
    BY <1>10, <1>12 DEF Rooms, room, B

\* What is taken off the cursor of client c.
Taken(c, segment, room) ==
    LET q == CHOOSE q \in PrefillRows : table[q] = c IN Slice(q, segment, room[q])

LEMMA TakenFits ==
  ASSUME IInv, PInv, NEW segment \in Segments, NEW room, Rooms(room, segment),
         NEW c \in Clients, \E q \in PrefillRows : table[q] = c
  PROVE  left[c] - Taken(c, segment, room) \in 0 .. PromptMax
  <1> DEFINE q == CHOOSE r \in PrefillRows : table[r] = c
  <1>1. q \in PrefillRows /\ table[q] = c
    OBVIOUS
  <1>2. Taken(c, segment, room) = Slice(q, segment, room[q])
    BY DEF Taken
  <1> HIDE DEF q
  <1>3. q \in Nat /\ room[q] \in Nat
    BY <1>1, SizesAssumption DEF PrefillRows, Active, Serving, Seqs, Rooms
  <1>4. Slice(q, segment, room[q]) \in 0 .. left[c]
    BY <1>1, <1>3, SliceFits
  <1>5. left[c] \in 0 .. PromptMax /\ PromptMax \in Nat
    BY SizesAssumption DEF PInv, Lefts
  <1>. QED
    BY <1>2, <1>4, <1>5

\* A request that takes part in a tick has a token left to generate.
LEMMA ActiveOwes ==
  ASSUME IInv, PInv, Live, NEW q \in Active
  PROVE  /\ q \in Seqs /\ table[q] \in Clients /\ table[q] \in ServedIn(table)
         /\ todo[table[q]] \in 1 .. RespMax /\ RespMax \in Nat
  <1>1. q \in Seqs /\ table[q] # NoClient /\ table[q] \notin finishing
    BY DEF Active, Serving, InFlight, Marked
  <1>2. table[q] \in Clients /\ table[q] \in ServedIn(table)
    BY <1>1, DataNow DEF Tables, ServedIn
  <1>3. todo[table[q]] \in 0 .. RespMax /\ todo[table[q]] >= 1 /\ RespMax \in Nat
    BY <1>1, <1>2, SizesAssumption DEF PInv, Todos, Owing
  <1>. QED
    BY <1>1, <1>2, <1>3

\* What a step does to the counters, whichever rows it has.
LEMMA DecodedCounts ==
  ASSUME IInv, PInv, Live, NEW rows, NEW ended, NEW failed, NEW rest \in Lefts, NEW gen \in Todos,
         Decoded(rows, ended, failed, rest, gen), table' = table,
         \A c \in Clients : c \notin rows => gen[c] = todo[c]
  PROVE  PInv'
  <1>1. /\ left' = rest /\ todo' = gen /\ registered' \subseteq registered
        /\ finishing \cup {c \in rows : gen[c] = 0} \subseteq finishing'
    BY DEF Decoded, NotifyFailure, Terminal, Marked
  <1>2. ServedIn(table) \subseteq Clients
    BY DataNow, ServedInClients
  <1>3. ASSUME NEW c \in ServedIn(table), c \notin finishing' PROVE gen[c] >= 1
    <2>1. CASE c \in rows
      <3>1. gen[c] # 0 /\ gen[c] \in 0 .. RespMax
        BY <1>1, <1>2, <1>3, <2>1 DEF Todos
      <3>. QED
        BY <3>1
    <2>2. CASE c \notin rows
      BY <1>1, <1>2, <1>3, <2>2 DEF PInv, Owing
    <2>. QED
      BY <2>1, <2>2
  <1>. QED
    BY <1>1, <1>3 DEF PInv, Owing

LEMMA TickStepCounts ==
  ASSUME IInv, PInv, TickStep
  PROVE  PInv'
  <1> DEFINE rows == {table[q] : q \in DecodeRows}
  <1>1. Live /\ table' = table /\ DecCount < Budget
    BY DEF TickStep, slots, Ticking, Live
  <1> DEFINE R(segment) == [c \in Clients |->
                 IF \E q \in PrefillRows : table[q] = c
                 THEN left[c] - Taken(c, segment, Room(segment)) ELSE left[c]]
             gen == [c \in Clients |-> IF c \in rows THEN todo[c] - 1 ELSE todo[c]]
  <1>2. PICK segment \in Segments : \E ended, failed : Decoded(rows, ended, failed, R(segment), gen)
    BY DEF TickStep, Taken
  <1> DEFINE rest == R(segment)
  <1>3. rest \in Lefts
    <2>1. DecCount <= Budget
      BY <1>1, DecodersCount, SizesAssumption
    <2>2. Rooms(Room(segment), segment)
      BY <2>1, RoomIs
    <2> DEFINE room == Room(segment)
    <2>3. Rooms(room, segment)
      BY <2>2
    <2> HIDE DEF room
    <2>4. \A c \in Clients : (\E q \in PrefillRows : table[q] = c)
                                => left[c] - Taken(c, segment, room) \in 0 .. PromptMax
      BY <2>3, TakenFits
    <2>5. \A c \in Clients : left[c] \in 0 .. PromptMax
      BY DEF PInv, Lefts
    <2>. QED
      BY <2>4, <2>5 DEF Lefts, room
  <1>4. gen \in Todos
    <2>1. ASSUME NEW c \in rows PROVE todo[c] - 1 \in 0 .. RespMax
      <3>1. PICK q \in DecodeRows : c = table[q]
        OBVIOUS
      <3>2. q \in Active
        BY DEF DecodeRows
      <3>3. todo[c] \in 1 .. RespMax /\ RespMax \in Nat
        BY <1>1, <3>1, <3>2, ActiveOwes
      <3>. QED
        BY <3>3
    <2>2. \A c \in Clients : todo[c] \in 0 .. RespMax
      BY DEF PInv, Todos
    <2> HIDE DEF rows
    <2>. QED
      BY <2>1, <2>2 DEF Todos
  <1>5. \A c \in Clients : c \notin rows => gen[c] = todo[c]
    OBVIOUS
  <1>6. PICK ended, failed : Decoded(rows, ended, failed, rest, gen)
    BY <1>2
  <1> HIDE DEF rows, rest, gen
  <1>. QED
    BY <1>1, <1>3, <1>4, <1>5, <1>6, DecodedCounts

LEMMA TickSpecCounts ==
  ASSUME IInv, PInv, TickSpec
  PROVE  PInv'
  <1>1. Live /\ table' = table
    BY DEF TickSpec, slots, Ticking, Live
  <1>2. PICK c \in {table[q] : q \in DecodeRows} : \E n \in 1 .. Least(todo[c], Budget + 1) :
           \E ended \in SUBSET {c} : Decoded({c}, ended, {}, left, [todo EXCEPT ![c] = @ - n])
    BY DEF TickSpec
  <1>3. PICK n \in 1 .. Least(todo[c], Budget + 1) :
           \E ended \in SUBSET {c} : Decoded({c}, ended, {}, left, [todo EXCEPT ![c] = @ - n])
    BY <1>2
  <1>4. PICK ended \in SUBSET {c} : Decoded({c}, ended, {}, left, [todo EXCEPT ![c] = todo[c] - n])
    BY <1>3
  <1>5. c \in Clients /\ todo[c] \in 1 .. RespMax /\ RespMax \in Nat
    <2>1. PICK q \in DecodeRows : c = table[q]
      BY <1>2
    <2>2. q \in Active
      BY DEF DecodeRows
    <2>. QED
      BY <1>1, <2>1, <2>2, ActiveOwes
  <1>6. todo[c] - n \in 0 .. RespMax
    <2>1. Least(todo[c], Budget + 1) \in Int /\ Least(todo[c], Budget + 1) <= todo[c]
      BY <1>5, SizesAssumption DEF Least
    <2>. QED
      BY <1>5, <2>1
  <1> DEFINE gen == [todo EXCEPT ![c] = todo[c] - n]
  <1>7. gen \in Todos /\ left \in Lefts
    BY <1>6 DEF PInv, Todos
  <1>8. \A d \in Clients : d \notin {c} => gen[d] = todo[d]
    BY DEF PInv, Todos
  <1> HIDE DEF gen
  <1>9. Decoded({c}, ended, {}, left, gen)
    BY <1>4 DEF gen
  <1>. QED
    BY <1>1, <1>7, <1>8, <1>9, DecodedCounts

LEMMA MediaFailedCounts ==
  ASSUME IInv, CInv, PInv, TickMediaFailed
  PROVE  PInv'
  <1> DEFINE q == CHOOSE r \in Active : TRUE
             c == table[q]
  <1>1. q \in Active
    BY DEF TickMediaFailed, MediaTurn
  <1>2. /\ Live /\ table' = [table EXCEPT ![q] = NoClient]
        /\ finishing' = Terminal(Marked, left) \ {c} /\ registered' = registered \ {c}
        /\ left' = [left EXCEPT ![c] = 0] /\ todo' = [todo EXCEPT ![c] = 0]
    BY DEF TickMediaFailed, NotifyFailure, Ticking, Live
  <1>3. q \in Seqs /\ c \in Clients
    BY <1>1, <1>2, ActiveOwes
  <1>4. finishing \ {c} \subseteq finishing'
    BY <1>2 DEF Terminal, Marked
  <1> HIDE DEF q
  <1>5. /\ left' = [d \in Clients |-> IF d \in {c} THEN 0 ELSE left[d]]
        /\ todo' = [d \in Clients |-> IF d \in {c} THEN 0 ELSE todo[d]]
    BY <1>2, <1>3 DEF PInv, Lefts, Todos
  <1>. QED
    BY <1>2, <1>3, <1>4, <1>5, LeaveCounts

LEMMA TickCounts ==
  ASSUME IInv, CInv, PInv, Tick
  PROVE  PInv'
  <1>1. CASE TickMedia
    <2>1. /\ UNCHANGED <<table, left, todo, registered, mode>> /\ finishing \subseteq finishing'
      BY <1>1 DEF TickMedia, slots, Terminal, Marked
    <2>. QED
      BY <2>1 DEF PInv, Owing, Live
  <1>2. CASE TickRecover
    BY <1>2, FreshCounts DEF TickRecover
  <1>3. CASE TickFatal \/ TickCrash
    <2>1. /\ UNCHANGED <<table, finishing, left, todo>> /\ registered' \subseteq registered
          /\ mode' = "stopped"
      BY <1>3 DEF TickFatal, TickCrash, Stop, slots, progress
    <2>. QED
      BY <2>1, SameCounts DEF Live
  <1>4. CASE TickIgnored
    BY <1>4, SameCounts DEF TickIgnored, slots, progress, Live
  <1>. QED
    BY <1>1, <1>2, <1>3, <1>4, MediaFailedCounts, TickStepCounts, TickSpecCounts DEF Tick

LEMMA FinishCounts ==
  ASSUME IInv, CInv, PInv, NEW q \in Seqs, FinishReq(q)
  PROVE  PInv'
  <1> DEFINE c == table[q]
  <1>1. /\ stage = "finish" /\ c \in finishing
        /\ table' = [table EXCEPT ![q] = NoClient]
        /\ left' = [d \in Clients |-> IF d \in {c} THEN 0 ELSE left[d]]
        /\ todo' = [d \in Clients |-> IF d \in {c} THEN 0 ELSE todo[d]]
        /\ finishing' = finishing \ {c} /\ registered' = registered \ {c}
    BY DEF FinishReq, Forget
  <1>2. Live /\ c \in Clients
    BY <1>1 DEF CInv, Phases, Live, IInv, SlotsTyped
  <1>. QED
    BY <1>1, <1>2, LeaveCounts

LEMMA DispatchCounts ==
  ASSUME IInv, CInv, PInv, Dispatch
  PROVE  PInv'
  <1> DEFINE c == Head(pending)
  <1>1. Live /\ mode' = mode /\ pending # <<>>
    BY DEF Dispatch, CInv, Phases, Live
  <1>2. PICK a \in Alloc(pin, idle, {}) :
           \/ \E n \in 1 .. PromptMax : StartRequest(c, a.seq, n)
           \/ UNCHANGED <<table, progress, registered>>
    BY DEF Dispatch, Dispatchable
  <1>3. CASE UNCHANGED <<table, progress, registered>>
    BY <1>1, <1>3, SameCounts DEF progress, Live
  <1>4. CASE \E n \in 1 .. PromptMax : StartRequest(c, a.seq, n)
    <2>1. PICK n \in 1 .. PromptMax : StartRequest(c, a.seq, n)
      BY <1>4
    <2>2. c \in Clients /\ n \in 0 .. PromptMax
      BY <1>1, DataNow, SizesAssumption DEF Lists
    <2>3. a.seq \in Seqs /\ table[a.seq] = NoClient
      BY SlotsNow, OwnedNow, AllocSafe DEF Unowned, IInv
    <2> HIDE DEF c
    <2>. QED
      BY <1>1, <2>1, <2>2, <2>3, StartCounts
  <1>. QED
    BY <1>2, <1>3, <1>4

LEMMA CountsStep ==
  ASSUME IInv, CInv, PInv, [Next]_vars
  PROVE  PInv'
  <1>1. ASSUME NEW c \in Clients, Cancel(c) PROVE PInv'
    BY <1>1, SameCounts DEF Cancel, slots, Live
  <1>2. ASSUME NEW s \in Sessions, EndSession(s) PROVE PInv'
    BY <1>2, SameCounts DEF EndSession, progress, Live
  <1>3. ASSUME NEW s \in Sessions, NEW d \in Sessions, ForkSession(s, d) PROVE PInv'
    BY <1>3, SameCounts DEF ForkSession, progress, Live
  <1>4. CASE FinishedAll
    BY <1>4, SameCounts DEF FinishedAll, slots, progress, Live
  <1>5. CASE TickEnd
    <2>1. UNCHANGED <<table, finishing, left, todo, registered>> /\ Live
      BY <1>5 DEF TickEnd, slots, progress, Live, CInv, Phases
    <2>. QED
      BY <2>1, SameCounts
  <1>6. CASE InflightDown
    BY <1>6, SameCounts DEF InflightDown, slots, progress, Live
  <1>7. CASE Reload
    BY <1>7, FreshCounts DEF Reload
  <1>8. CASE UNCHANGED vars
    BY <1>8, SameCounts DEF vars, Live
  <1>. QED
    BY <1>1, <1>2, <1>3, <1>4, <1>5, <1>6, <1>7, <1>8, CallCounts, ResetCounts, TickCounts,
       FinishCounts, DispatchCounts
    DEF Next, AfterStep

LEMMA CountsInvariant == Spec => [](IInv /\ CInv /\ PInv)
  <1>1. Init => PInv
    <2> SUFFICES ASSUME Init PROVE PInv
      OBVIOUS
    <2>1. left \in Lefts /\ todo \in Todos /\ registered \in SUBSET Clients
      BY SizesAssumption DEF Init, Zero, Lefts, Todos
    <2>2. Owing(table, finishing, todo)
      BY DEF Init, NoRequest, Owing, ServedIn
    <2>. QED
      BY <2>1, <2>2 DEF PInv
  <1>2. IInv /\ CInv /\ PInv /\ [Next]_vars => PInv'
    BY CountsStep
  <1>. QED
    BY <1>1, <1>2, CallersInvariant, PTL DEF Spec

(***************************************************************************)
(* The counters of the model process stay in their ranges, for any number  *)
(* of seqs, clients and sessions and any budget: no prefill slice takes    *)
(* more than its prompt has left, no request generates past its            *)
(* response_target, and no more ticks are in the mailbox than were         *)
(* scheduled.                                                              *)
(***************************************************************************)
THEOREM ProcessTyped == Spec => []TypeOK
  <1>1. IInv /\ CInv /\ PInv => TypeOK
    BY DEF IInv, CInv, Phases, PInv, Lefts, Todos, MediaClients, TypeOK
  <1>. QED
    BY <1>1, CountsInvariant, PTL

-----------------------------------------------------------------------------
(* A batch fits the budget.                                                *)

\* The tokens taken off the cursors l of the rows S, which leaves m.
Cut(l, m, t, S) == MapThenSumSet(LAMBDA q : l[t[q]] - m[t[q]], S)

\* The library's sum over the rows of a batch, as a function of the rows.
LEMMA RowsSum ==
  ASSUME NEW l, NEW m, NEW t, NEW S, IsFiniteSet(S), NEW d \in [S -> Nat],
         \A q \in S : d[q] = l[t[q]] - m[t[q]]
  PROVE  \E g : Sums(g, S, d) /\ Cut(l, m, t, S) = g[S]
  <1> DEFINE e(q) == l[t[q]] - m[t[q]]
  <1>1. \E g \in [SUBSET S -> Nat] : Sums(g, S, d)
    BY SumExists
  <1>2. PICK g \in [SUBSET S -> Nat] : Sums(g, S, d)
    BY <1>1
  <1>3. ASSUME NEW s \in SUBSET S
        PROVE  g[s] = IF s = {} THEN 0 ELSE e(AnyOf(s)) + g[s \ {AnyOf(s)}]
    <2>1. s # {} => AnyOf(s) \in S
      BY OneLess
    <2>. QED
      BY <1>2, <2>1 DEF Sums
  <1>4. g = [s \in SUBSET S |-> IF s = {} THEN 0 ELSE e(AnyOf(s)) + g[s \ {AnyOf(s)}]]
    <2> HIDE DEF e
    <2>. QED
      BY <1>2, <1>3
  <1>5. g = [s \in SUBSET S |->
               IF s = {} THEN 0
               ELSE e(CHOOSE x \in s : TRUE) + g[s \ {CHOOSE x \in s : TRUE}]]
    BY <1>4 DEF AnyOf
  <1> DEFINE F(f) == [s \in SUBSET S |->
                        IF s = {} THEN 0
                        ELSE e(CHOOSE x \in s : TRUE) + f[s \ {CHOOSE x \in s : TRUE}]]
             it == CHOOSE f : f = F(f)
  <1>6. it = F(it)
    <2>1. g = F(g)
      BY <1>5
    <2> HIDE DEF F
    <2>. QED
      BY <2>1
  <1>7. Cut(l, m, t, S) = it[S]
    BY DEF Cut, MapThenSumSet, MapThenFoldSet
  <1> HIDE DEF it
  <1>8. ASSUME NEW s \in SUBSET S
        PROVE  it[s] = IF s = {} THEN 0 ELSE d[AnyOf(s)] + it[s \ {AnyOf(s)}]
    <2>1. s # {} => d[AnyOf(s)] = e(AnyOf(s))
      BY OneLess
    <2> HIDE DEF e
    <2>. QED
      BY <1>6, <2>1 DEF AnyOf
  <1>9. Sums(it, S, d)
    BY <1>8 DEF Sums
  <1>. QED
    BY <1>7, <1>9

\* The rows of a batch, in seq order, take what the budget loses: the sum of
\* the slices of the rows before q is what slice_prefills/3 has handed out.
LEMMA SlicesAddUp ==
  ASSUME IInv, PInv, NEW segment \in Segments, NEW room, Rooms(room, segment),
         NEW d \in [PrefillRows -> Nat], NEW g, Sums(g, PrefillRows, d),
         \A q \in PrefillRows : d[q] = Slice(q, segment, room[q])
  PROVE  DecCount + g[PrefillRows] <= Budget
  <1> DEFINE T(i) == {q \in PrefillRows : q < i}
             S == {i \in Nat : g[T(i)] = room[0] - room[i]}
  <1>1. PrefillRows \subseteq Seqs /\ IsFiniteSet(PrefillRows)
    BY DecodersCount, FS_Subset DEF PrefillRows, Active, Serving
  <1>2. \A q \in PrefillRows : q \in Nat /\ q < NSeqMax
    BY <1>1, SizesAssumption DEF Seqs
  <1>3. \A i \in Nat : room[i] \in Nat /\ room[i + 1] = room[i] - Slice(i, segment, room[i])
    BY DEF Rooms
  <1>4. 0 \in S
    <2>1. T(0) = {}
      BY <1>2
    <2>2. g[{}] = 0
      BY DEF Sums
    <2>3. room[0] \in Nat
      BY <1>3
    <2>4. g[T(0)] = room[0] - room[0]
      <3> HIDE DEF T
      <3>. QED
        BY <2>1, <2>2, <2>3
    <2>. QED
      BY <2>4
  <1>5. ASSUME NEW i \in Nat, i \in S PROVE i + 1 \in S
    <2>0. g[T(i)] = room[0] - room[i] /\ room[0] \in Nat /\ room[i] \in Nat
      BY <1>3, <1>5
    <2>1. CASE i \in PrefillRows
      <3>0. \A q \in PrefillRows : q < i <=> q < i + 1 /\ q # i
        BY <1>2
      <3>1. T(i) = T(i + 1) \ {i} /\ i \in T(i + 1) /\ T(i + 1) \in SUBSET PrefillRows
        <4>1. T(i) = T(i + 1) \ {i}
          BY <3>0, Zenon
        <4>2. i < i + 1
          OBVIOUS
        <4>. QED
          BY <2>1, <4>1, <4>2
      <3>2. g[T(i + 1)] = d[i] + g[T(i + 1) \ {i}]
        <4> HIDE DEF T
        <4>. QED
          BY <1>1, <3>1, SumTakesAny
      <3>3. d[i] = Slice(i, segment, room[i]) /\ d[i] \in Nat
        BY <2>1
      <3> HIDE DEF T
      <3>4. g[T(i + 1)] = room[0] - room[i + 1]
        BY <1>3, <2>0, <3>1, <3>2, <3>3
      <3>. QED
        BY <3>4
    <2>2. CASE i \notin PrefillRows
      <3>1. T(i + 1) = T(i)
        BY <1>2, <2>2
      <3>2. Slice(i, segment, room[i]) = 0
        BY <2>2 DEF Slice
      <3> HIDE DEF T
      <3>3. g[T(i + 1)] = room[0] - room[i + 1]
        BY <1>3, <2>0, <3>1, <3>2
      <3>. QED
        BY <3>3
    <2>. QED
      BY <2>1, <2>2
  <1>6. NSeqMax \in S
    <2>1. Nat \subseteq S
      <3> HIDE DEF S
      <3>. QED
        BY <1>4, <1>5, SetInduction
    <2> HIDE DEF S
    <2>. QED
      BY <2>1, SizesAssumption
  <1>7. T(NSeqMax) = PrefillRows
    BY <1>2
  <1>8. g[PrefillRows] = (Budget - DecCount) - room[NSeqMax] /\ room[NSeqMax] \in Nat
    BY <1>6, <1>7, SizesAssumption DEF Rooms
  <1>. QED
    BY <1>8, DecodersCount, SizesAssumption

\* A tick without prefill rows takes nothing off a cursor.
LEMMA NoRowsSum ==
  ASSUME NEW l, NEW m, NEW t, NEW S, S = {}
  PROVE  Cut(l, m, t, S) = 0
  <1> DEFINE d == [q \in S |-> 0]
  <1>1. IsFiniteSet(S) /\ \A g : Sums(g, S, d) => g[S] = 0
    BY FS_EmptySet DEF Sums
  <1>2. d \in [S -> Nat] /\ \A q \in S : d[q] = l[t[q]] - m[t[q]]
    OBVIOUS
  <1> HIDE DEF d
  <1>3. \E g : Sums(g, S, d) /\ Cut(l, m, t, S) = g[S]
    BY ONLY <1>1, <1>2, RowsSum
  <1>. QED
    BY <1>1, <1>3

Within(rest) ==
    DecCount + Cut(left, rest, table, PrefillRows) <= Budget

LEMMA AloneWithin ==
  ASSUME NEW q \in Active, Active = {q}, q \notin PrefillRows, NEW rest
  PROVE  Within(rest)
  <1>1. PrefillRows = {} /\ DecodeRows \subseteq {q}
    BY DEF PrefillRows, DecodeRows
  <1>2. DecCount <= 1 /\ DecCount \in Nat
    <2>1. IsFiniteSet({q}) /\ Cardinality({q}) = 1
      BY FS_Singleton
    <2>2. Cardinality(DecodeRows) <= 1
      BY <1>1, <2>1, FS_Subset
    <2>. QED
      BY <2>2, DecodersCount DEF DecCount
  <1>3. Cut(left, rest, table, PrefillRows) = 0
    BY <1>1, NoRowsSum
  <1>4. DecCount + 0 <= Budget
    BY <1>2, SizesAssumption
  <1>. QED
    BY <1>3, <1>4 DEF Within

LEMMA TickStepWithin ==
  ASSUME IInv, CInv, PInv, TickStep
  PROVE  Within(left')
  <1> DEFINE rows == {table[q] : q \in DecodeRows}
             R(segment) == [c \in Clients |->
                 IF \E q \in PrefillRows : table[q] = c
                 THEN left[c] - Taken(c, segment, Room(segment)) ELSE left[c]]
             gen == [c \in Clients |-> IF c \in rows THEN todo[c] - 1 ELSE todo[c]]
  <1>1. DecCount <= Budget
    BY DecodersCount, SizesAssumption DEF TickStep
  <1>2. PICK segment \in Segments : \E ended, failed : Decoded(rows, ended, failed, R(segment), gen)
    BY DEF TickStep, Taken
  <1>3. left' = R(segment)
    BY <1>2 DEF Decoded
  <1> DEFINE room == Room(segment)
             d == [q \in PrefillRows |-> Slice(q, segment, room[q])]
  <1>4. Rooms(room, segment)
    BY <1>1, RoomIs
  <1> HIDE DEF room
  <1>5. ASSUME NEW q \in PrefillRows
        PROVE  /\ d[q] = Slice(q, segment, room[q]) /\ d[q] \in Nat
               /\ d[q] = left[table[q]] - left'[table[q]]
    <2>1. q \in Seqs /\ q \in Nat /\ table[q] \in Clients
      BY DataNow, SizesAssumption DEF PrefillRows, Active, Serving, InFlight, Tables, Seqs
    <2>2. room[q] \in Nat
      BY <1>4, <2>1 DEF Rooms
    <2>3. d[q] = Slice(q, segment, room[q]) /\ d[q] \in Nat
      BY <2>2, SliceFits
    <2>4. ASSUME NEW r \in PrefillRows, table[r] = table[q] PROVE r = q
      <3>1. r \in Seqs /\ table[r] # NoClient
        BY DEF PrefillRows, Active, Serving, InFlight
      <3>. QED
        <4>1. KnownOnce(table, pending)
          BY DEF CInv, CallersKnown, TrackedNow, Tracked, TickStep, Ticking, Live
        <4>. QED
          BY <2>1, <2>4, <3>1, <4>1 DEF KnownOnce
    <2>5. (CHOOSE r \in PrefillRows : table[r] = table[q]) = q
      BY <2>4
    <2>6. Taken(table[q], segment, room) = Slice(q, segment, room[q])
      BY <2>5 DEF Taken
    <2>7. left'[table[q]] = left[table[q]] - Taken(table[q], segment, room)
      BY <1>3, <2>1 DEF room
    <2>8. left[table[q]] \in Nat
      BY <2>1, SizesAssumption DEF PInv, Lefts
    <2> HIDE DEF d
    <2>. QED
      BY <2>3, <2>6, <2>7, <2>8
  <1>6. d \in [PrefillRows -> Nat]
    BY <1>5
  <1> HIDE DEF d
  <1>7. IsFiniteSet(PrefillRows)
    BY DecodersCount, FS_Subset DEF PrefillRows, Active, Serving
  <1>8. \E g : Sums(g, PrefillRows, d) /\
           Cut(left, left', table, PrefillRows) = g[PrefillRows]
    BY <1>5, <1>6, <1>7, RowsSum
  <1>9. PICK g : Sums(g, PrefillRows, d) /\
           Cut(left, left', table, PrefillRows) = g[PrefillRows]
    BY <1>8
  <1>10. DecCount + g[PrefillRows] <= Budget
    BY <1>4, <1>5, <1>6, <1>9, SlicesAddUp
  <1>. QED
    BY <1>9, <1>10 DEF Within

LEMMA BatchStep ==
  ASSUME IInv, CInv, PInv, Next, stage = "ready", stage' = "finish"
  PROVE  Within(left')
  <1>1. TickMedia \/ TickMediaFailed \/ TickStep \/ TickSpec
    BY DEF Next, Call, AdmitSticky, RefuseBusy, RefusePinned, AdmitContinue, AdmitNormal,
       AdmitFailed, RefuseFull, Enqueue, StartAdmission, Refuse, Cancel, EndSession,
       ResetSession, ForkSession, Tick, TickRecover, TickFatal, TickCrash, TickIgnored, Stop,
       Fresh, AfterStep, FinishReq, FinishedAll, Dispatch, TickEnd, InflightDown, Reload
  <1>2. CASE TickMedia \/ TickMediaFailed
    <2>1. PICK q \in Active : Active = {q} /\ table[q] \in mediaWait
      BY <1>2 DEF TickMedia, TickMediaFailed, MediaTurn
    <2>2. q \notin PrefillRows
      BY <2>1 DEF PrefillRows
    <2>. QED
      BY <2>1, <2>2, AloneWithin
  <1>3. CASE TickSpec
    <2>1. PICK q \in DecodeRows : Active = {q}
      BY <1>3 DEF TickSpec, SpecTurn
    <2>2. q \in Active /\ q \notin PrefillRows
      BY DEF PrefillRows, DecodeRows
    <2>. QED
      BY <2>1, <2>2, AloneWithin
  <1>. QED
    BY <1>1, <1>2, <1>3, TickStepWithin

(***************************************************************************)
(* No tick asks the backend for more than the budget, for any budget,      *)
(* chunk size, number of seqs and requests: one row per decoder and the    *)
(* slices slice_prefills/3 cuts, which no order of the rows and no segment *)
(* of the cold ladder makes too many.                                      *)
(***************************************************************************)
THEOREM BatchFits == Spec => BatchWithinBudget
  <1>1. IInv /\ CInv /\ PInv /\ [Next]_vars =>
           [stage = "ready" /\ stage' = "finish" =>
              DecCount + MapThenSumSet(LAMBDA q : left[table[q]] - left'[table[q]],
                                       PrefillRows) <= Budget]_vars
    BY BatchStep DEF Within, Cut
  <1>. QED
    BY <1>1, CountsInvariant, PTL DEF Spec, BatchWithinBudget
=============================================================================
