---------------------------- MODULE SeqKvProofs ----------------------------
(***************************************************************************)
(* Proofs that the model process knows what its KV sequences hold, for any *)
(* number of seqs, sessions, prompts and requests: the cells of a seq are  *)
(* the tokens its request or its session believes in, seqs nobody has are  *)
(* empty, checkpoints hold what their key says, and every token is sampled *)
(* from logits of its own seq.                                             *)
(***************************************************************************)
EXTENDS SeqKv, SequenceTheorems, FiniteSetTheorems, Recursion

(* A checkpoint is saved whole: an evict meets no media request, and a     *)
(* speculative one never makes a continued save in the middle of the       *)
(* tokens it commits, because its first token makes one and its response   *)
(* is shorter than the interval.                                           *)
SavesWhole ==
    /\ "evict_media" \notin Risky
    /\ "spec" \in Kinds =>
         /\ Target <= Interval
         /\ \A p \in Prompts \cup Tails : Len(p) + 1 >= Interval /\ Len(p) + 1 >= MinTokens

Cell     == Tokens \cup {Media} \cup UNION {Range(p) : p \in Prompts \cup Tails}
Contexts == [kv : [Seqs -> Lists], pos : [Seqs -> Nat],
             lli : [Seqs -> -2 .. Budget - 1], ready : BOOLEAN]
PinSet   == [seq : Seqs \cup {-1}, toks : Lists]

(* The cells a request believes its seq holds. *)
Cells(r) == IF r.kind = "media" /\ ~r.pending THEN <<Media>> \o r.ctx ELSE r.ctx

(* A request is well formed. *)
Shape(r) ==
    /\ r.kind = "none" => r = NoReq
    /\ r.kind = "media" => r.session = NoSession /\ r.cursor = <<>>
    /\ r.pending => r.kind = "media" /\ r.ctx = <<>>
    /\ r.ladder => r.cursor # <<>>
    /\ ~r.ladder => r.rest = <<>>
    /\ ~r.finishing => r.gen < Target
    /\ r.cursor # <<>> => r.gen = 0

(* What a speculative request has generated since its last save is less    *)
(* than an interval.                                                       *)
Thrifty(r) ==
    r.kind = "spec" /\ ~r.finishing =>
        /\ r.gen = 0 => LET n == Len(r.ctx) + Len(r.cursor) + Len(r.rest) + 1
                        IN  n >= Interval /\ n >= MinTokens
        /\ r.gen = 0 /\ r.cursor = <<>> => r.lastSave \in {0, Len(r.ctx)}
        /\ r.gen >= 1 => Len(r.ctx) <= r.lastSave + r.gen

(* Pins and requests agree on who has a seq. *)
Owned(rq, ss) ==
    /\ \A e, f \in Sessions : ss[e].seq = ss[f].seq /\ ss[e].seq # -1 => e = f
    /\ \A e \in Sessions, s \in Seqs : rq[s].kind # "none" /\ ss[e].seq = s => rq[s].session = e
    /\ \A e \in Sessions, s \in Seqs : rq[s].session = e /\ ss[e].seq # -1 => ss[e].seq = s
    /\ \A s, t \in Seqs : rq[s].session = rq[t].session /\ rq[s].session # NoSession => s = t

(* What seq s holds. *)
Holds(n, rq, ss, s) ==
    /\ n.pos[s] = Len(n.kv[s])
    /\ rq[s].kind # "none" => n.kv[s] = Cells(rq[s])
    /\ rq[s].kind = "none" => \A e \in Sessions : ss[e].seq = s => n.kv[s] = ss[e].toks
    /\ rq[s].kind = "none" /\ (\A e \in Sessions : ss[e].seq # s)
          => n.kv[s] = <<>> /\ n.lli[s] = LogitsNone

Keyed(sv) == \A r \in sv : r.key \in Lists /\ r.kv = r.key

Good(n, rq, ss) ==
    /\ n \in Contexts /\ rq \in [Seqs -> Requests] /\ ss \in [Sessions -> PinSet]
    /\ \A s \in Seqs : Shape(rq[s]) /\ Thrifty(rq[s])
    /\ Owned(rq, ss)
    /\ \A s \in Seqs : Holds(n, rq, ss, s)

KvInv == Good(nat, req, ses) /\ Keyed(saved)

-----------------------------------------------------------------------------
(* Lists of tokens.                                                        *)

LEMMA ListsAre ==
    /\ Lists = Seq(Cell) /\ <<>> \in Lists /\ <<Media>> \in Lists
    /\ Prompts \subseteq Lists /\ Tails \subseteq Lists
    /\ \A t \in Tokens : <<t>> \in Lists /\ t \in Cell
<1>1. Lists = Seq(Cell)
  BY DEF Lists, Cell
<1>2. ASSUME NEW p \in Prompts \cup Tails PROVE p \in Seq(Cell)
  <2>1. p \in Seq(Range(p)) /\ Range(p) \subseteq Cell
    BY InputsAssumption DEF Cell
  <2>. QED BY <2>1, SeqMonotonic
<1>3. Media \in Cell /\ Tokens \subseteq Cell
  BY DEF Cell
<1>. QED BY <1>1, <1>2, <1>3

(* A list cut in two. *)
LEMMA Cut ==
    ASSUME NEW x \in Lists, NEW k \in 0 .. Len(x)
    PROVE  /\ SubSeq(x, 1, k) \in Lists /\ Len(SubSeq(x, 1, k)) = k
           /\ SubSeq(x, k + 1, Len(x)) \in Lists
           /\ Len(SubSeq(x, k + 1, Len(x))) = Len(x) - k
           /\ SubSeq(x, 1, k) \o SubSeq(x, k + 1, Len(x)) = x
<1>1. x \in Seq(Cell) /\ Len(x) \in Nat
  BY ListsAre, LenProperties
<1>2. \A i \in 1 .. Len(x) : x[i] \in Cell
  BY <1>1, ElementOfSeq
<1>3. 1 \in Int /\ k \in Int /\ k + 1 \in Int /\ Len(x) \in Int
  BY <1>1
<1>4. SubSeq(x, 1, k) \in Seq(Cell) /\ Len(SubSeq(x, 1, k)) = IF 1 <= k THEN k - 1 + 1 ELSE 0
  <2>1. \A i \in 1 .. k : x[i] \in Cell
    BY <1>1, <1>2
  <2>. QED BY <1>3, <2>1, SubSeqProperties
<1>5. /\ SubSeq(x, k + 1, Len(x)) \in Seq(Cell)
      /\ Len(SubSeq(x, k + 1, Len(x))) = IF k + 1 <= Len(x) THEN Len(x) - (k + 1) + 1 ELSE 0
  <2>1. \A i \in k + 1 .. Len(x) : x[i] \in Cell
    BY <1>1, <1>2
  <2>. QED BY <1>3, <2>1, SubSeqProperties
<1>6. SubSeq(x, 1, k) \o SubSeq(x, k + 1, Len(x)) = SubSeq(x, 1, Len(x))
  <2>1. 1 \in 1 .. Len(x) + 1 /\ k \in 1 - 1 .. Len(x) /\ Len(x) \in k .. Len(x)
    BY <1>1
  <2>. QED BY <1>1, <2>1, ConcatAdjacentSubSeq
<1>7. SubSeq(x, 1, Len(x)) = x
  BY <1>1, SubSeqFull
<1>8. Len(SubSeq(x, 1, k)) = k /\ Len(SubSeq(x, k + 1, Len(x))) = Len(x) - k
  <2>. HIDE DEF Lists
  <2>1. Len(SubSeq(x, 1, k)) = k
    BY <1>1, <1>4
  <2>2. Len(SubSeq(x, k + 1, Len(x))) = Len(x) - k
    BY <1>1, <1>5
  <2>. QED BY <2>1, <2>2
<1>9. SubSeq(x, 1, k) \in Lists /\ SubSeq(x, k + 1, Len(x)) \in Lists
  BY <1>4, <1>5, ListsAre
<1>. QED BY <1>6, <1>7, <1>8, <1>9

(* Lists joined. *)
LEMMA Joined ==
    ASSUME NEW x \in Lists, NEW y \in Lists
    PROVE  /\ x \o y \in Lists /\ Len(x \o y) = Len(x) + Len(y)
           /\ Len(x) \in Nat /\ (Len(x) = 0 <=> x = <<>>)
           /\ x \o <<>> = x /\ <<>> \o x = x
<1>1. x \in Seq(Cell) /\ y \in Seq(Cell)
  BY ListsAre
<1>2. x \o y \in Seq(Cell) /\ Len(x \o y) = Len(x) + Len(y)
  BY <1>1, ConcatProperties
<1>3. x \o <<>> = x /\ <<>> \o x = x
  BY <1>1, ConcatEmptySeq
<1>4. Len(x) \in Nat /\ (Len(x) = 0 <=> x = <<>>)
  BY <1>1, EmptySeq, LenProperties
<1>. QED BY <1>2, <1>3, <1>4, ListsAre

LEMMA Chained ==
    ASSUME NEW x \in Lists, NEW y \in Lists, NEW z \in Lists
    PROVE  (x \o y) \o z = x \o (y \o z)
<1>1. x \in Seq(Cell) /\ y \in Seq(Cell) /\ z \in Seq(Cell)
  BY ListsAre
<1>. QED BY <1>1, ConcatAssociative

(* One token more. *)
LEMMA Grown ==
    ASSUME NEW x \in Lists, NEW t \in Cell
    PROVE  /\ Append(x, t) \in Lists /\ Len(Append(x, t)) = Len(x) + 1
           /\ Append(x, t) = x \o <<t>> /\ <<t>> \in Lists /\ Len(<<t>>) = 1
<1>1. x \in Seq(Cell) /\ <<t>> \in Seq(Cell)
  BY ListsAre
<1>2. Append(x, t) \in Seq(Cell) /\ Len(Append(x, t)) = Len(x) + 1
  BY <1>1, AppendProperties
<1>3. Append(x, t) = x \o <<t>>
  BY <1>1, AppendIsConcat
<1>4. Len(<<t>>) = 1
  OBVIOUS
<1>. QED BY <1>1, <1>2, <1>3, <1>4, ListsAre

(* A prefix of a prompt and the rest of it. *)
LEMMA PrefixSplits ==
    ASSUME NEW x \in Lists, NEW p \in Lists, IsPrefix(x, p)
    PROVE  /\ Len(x) \in 0 .. Len(p) /\ x = SubSeq(p, 1, Len(x))
           /\ SubSeq(p, Len(x) + 1, Len(p)) \in Lists
           /\ Len(SubSeq(p, Len(x) + 1, Len(p))) = Len(p) - Len(x)
           /\ x \o SubSeq(p, Len(x) + 1, Len(p)) = p
<1>1. x \in Seq(Cell) /\ Len(x) \in Nat /\ Len(p) \in Nat
  BY ListsAre, LenProperties
<1>2. SubSeq(x, 1, Len(x)) = x
  BY <1>1, SubSeqFull
<1>3. Len(x) \in 0 .. Len(p) /\ x = SubSeq(p, 1, Len(x))
  BY <1>1, <1>2 DEF IsPrefix
<1>. QED BY <1>3, Cut

(* All but the last token of a list. *)
LEMMA LastSplits ==
    ASSUME NEW x \in Lists, Len(x) >= 1
    PROVE  /\ SubSeq(x, 1, Len(x) - 1) \in Lists /\ Len(SubSeq(x, 1, Len(x) - 1)) = Len(x) - 1
           /\ <<Last(x)>> \in Lists /\ Len(<<Last(x)>>) = 1
<1>1. x \in Seq(Cell) /\ Len(x) \in Nat
  BY ListsAre, LenProperties
<1>2. Len(x) \in 1 .. Len(x) /\ Len(x) - 1 \in 0 .. Len(x)
  BY <1>1
<1>3. Last(x) \in Cell
  BY <1>1, <1>2, ElementOfSeq DEF Last
<1>4. <<Last(x)>> \in Seq(Cell) /\ Len(<<Last(x)>>) = 1
  BY <1>3
<1>. QED BY <1>2, <1>4, Cut, ListsAre

LEMMA MinOfTwo ==
    ASSUME NEW x \in Nat, NEW y \in Nat
    PROVE  Min({x, y}) = IF x <= y THEN x ELSE y
BY DEF Min

LEMMA RoomAtDef ==
    ASSUME Cardinality(Decoders) \in 0 .. Budget, \A s \in Seqs : Len(req[s].cursor) \in Nat
    PROVE  /\ RoomAt \in [0 .. NSeqMax -> Nat]
           /\ RoomAt[0] = Budget - Cardinality(Decoders)
           /\ \A s \in Seqs :
                 RoomAt[s + 1] = IF s \in Fillers THEN RoomAt[s] - Min({Len(req[s].cursor), RoomAt[s]})
                                 ELSE RoomAt[s]
<1>. DEFINE L(s) == Len(req[s].cursor)
            B == Budget - Cardinality(Decoders)
            h == [q \in Nat |-> [v \in Nat |-> IF q \in Fillers THEN v - Min({L(q), v}) ELSE v]]
<1>0. Fillers \subseteq Seqs /\ Seqs \subseteq Nat /\ NSeqMax \in Nat /\ B \in Nat
  BY SizesAssumption DEF Fillers, Active, InFlight, Seqs
<1>1. ASSUME NEW q \in Nat, NEW v \in Nat
      PROVE  (IF q \in Fillers THEN v - Min({L(q), v}) ELSE v) \in Nat
  <2>1. CASE q \in Fillers
    <3>1. L(q) \in Nat
      BY <1>0, <2>1
    <3>. HIDE DEF L
    <3>2. Min({L(q), v}) = IF L(q) <= v THEN L(q) ELSE v
      BY <3>1, MinOfTwo
    <3>. QED BY <3>1, <3>2
  <2>. QED BY <2>1
<1>2. h \in Steps(Nat)
  BY <1>1 DEF Steps
<1>3. \A q, v \in Nat : h[q][v] = IF q \in Fillers THEN v - Min({L(q), v}) ELSE v
  OBVIOUS
<1>. HIDE DEF h, B
<1>4. \E f : Iterates(f, Nat, B, h)
  BY <1>0, <1>2, RecursionExists
<1>5. PICK f : Iterates(f, Nat, B, h)
  BY <1>4
<1>. DEFINE g == [s \in 0 .. NSeqMax |-> f[s]]
<1>6. ASSUME NEW s \in 0 .. NSeqMax
      PROVE  g[s] = IF s = 0 THEN B
                    ELSE IF s - 1 \in Fillers THEN g[s - 1] - Min({L(s - 1), g[s - 1]}) ELSE g[s - 1]
  <2>1. CASE s = 0
    <3>1. g[s] = f[s] /\ f[0] = B
      BY <1>5 DEF Iterates
    <3>. QED BY <2>1, <3>1
  <2>2. CASE s # 0
    <3>0. s - 1 \in Nat /\ s - 1 \in 0 .. NSeqMax /\ (s - 1) + 1 = s
      BY <1>0, <2>2
    <3>1. f[s - 1] \in Nat
      BY <1>5, <3>0 DEF Iterates
    <3>2. f[(s - 1) + 1] = h[s - 1][f[s - 1]]
      BY <1>5, <3>0 DEF Iterates
    <3>. QED BY <1>3, <2>2, <3>0, <3>1, <3>2
  <2>. QED BY <2>1, <2>2
<1>7. g = [s \in 0 .. NSeqMax |-> IF s = 0 THEN B
             ELSE IF s - 1 \in Fillers THEN g[s - 1] - Min({L(s - 1), g[s - 1]}) ELSE g[s - 1]]
  BY <1>6
<1>. HIDE DEF g
<1>8. RoomAt = [s \in 0 .. NSeqMax |-> IF s = 0 THEN B
             ELSE IF s - 1 \in Fillers THEN RoomAt[s - 1] - Min({L(s - 1), RoomAt[s - 1]})
                  ELSE RoomAt[s - 1]]
  BY <1>7 DEF RoomAt, B
<1>9. /\ RoomAt[0] = B
      /\ \A s \in Seqs :
            RoomAt[s + 1] = IF s \in Fillers THEN RoomAt[s] - Min({L(s), RoomAt[s]}) ELSE RoomAt[s]
  <2>1. 0 \in 0 .. NSeqMax
    BY <1>0
  <2>2. ASSUME NEW s \in Seqs
        PROVE  RoomAt[s + 1] = IF s \in Fillers THEN RoomAt[s] - Min({L(s), RoomAt[s]})
                               ELSE RoomAt[s]
    <3>1. s + 1 \in 0 .. NSeqMax /\ s + 1 # 0 /\ (s + 1) - 1 = s
      BY <1>0 DEF Seqs
    <3>. HIDE DEF L
    <3>. QED BY <1>8, <3>1
  <2>. HIDE DEF L
  <2>. QED BY <1>8, <2>1, <2>2
<1>10. \A s \in 0 .. NSeqMax : RoomAt[s] \in Nat
  <2>. DEFINE S == {n \in Nat : n <= NSeqMax => RoomAt[n] \in Nat}
  <2>1. 0 \in S
    BY <1>0, <1>9
  <2>2. ASSUME NEW n \in Nat, n \in S PROVE n + 1 \in S
    <3>. SUFFICES ASSUME n + 1 <= NSeqMax PROVE RoomAt[n + 1] \in Nat
      OBVIOUS
    <3>1. n \in Seqs /\ RoomAt[n] \in Nat
      BY <1>0, <2>2 DEF Seqs
    <3>2. RoomAt[n + 1] = IF n \in Fillers THEN RoomAt[n] - Min({L(n), RoomAt[n]}) ELSE RoomAt[n]
      BY <1>9, <3>1
    <3>. QED BY <1>1, <3>1, <3>2
  <2>3. Nat \subseteq S
    <3>. HIDE DEF S
    <3>. QED BY <2>1, <2>2, SetInduction
  <2>. QED BY <1>0, <2>3
<1>11. RoomAt \in [0 .. NSeqMax -> Nat]
  <2>. DEFINE e(s) == IF s = 0 THEN B
             ELSE IF s - 1 \in Fillers THEN RoomAt[s - 1] - Min({L(s - 1), RoomAt[s - 1]})
                  ELSE RoomAt[s - 1]
  <2>1. RoomAt = [s \in 0 .. NSeqMax |-> e(s)]
    BY <1>8
  <2>. HIDE DEF e
  <2>. QED BY <1>10, <2>1
<1>. QED BY <1>9, <1>11 DEF B
-----------------------------------------------------------------------------
(* The native operations.                                                  *)

(* Contexts that differ in seq s at most. *)
Elsewhere(n, m, s) ==
    \A t \in Seqs \ {s} : m.kv[t] = n.kv[t] /\ m.pos[t] = n.pos[t] /\ m.lli[t] = n.lli[t]

LEMMA SizesAre ==
    /\ Seqs \subseteq Nat /\ -1 \notin Seqs /\ -1 \in Int
    /\ NSeqMax \in Nat /\ Budget \in Nat /\ Budget > NSeqMax
    /\ Target \in Nat /\ Target >= 1 /\ Interval \in Nat /\ Interval >= 1
    /\ MinTokens \in Nat /\ Boundary \in Nat /\ MaxDraft \in Nat
    /\ NoSession \notin Sessions
    /\ LogitsNone \in -2 .. Budget - 1 /\ LogitsLast \in -2 .. Budget - 1
    /\ 0 \in -2 .. Budget - 1
    /\ "none" \notin Kinds
<1>1. Seqs \subseteq Nat /\ -1 \notin Seqs /\ -1 \in Int
  BY SizesAssumption DEF Seqs
<1>2. "none" \notin Kinds
  BY InputsAssumption
<1>. QED BY <1>1, <1>2, SizesAssumption, InputsAssumption DEF LogitsNone, LogitsLast

(* One seq's cells, position and logits row are set, and the flag with the *)
(* row.                                                                    *)
With(n, s, c, k, l) ==
    [n EXCEPT !.kv[s] = c, !.pos[s] = k, !.lli[s] = l, !.ready = (l # LogitsNone)]

LEMMA WithIs ==
    ASSUME NEW n \in Contexts, NEW s \in Seqs, NEW c \in Lists, NEW k \in Nat,
           NEW l \in -2 .. Budget - 1
    PROVE  LET m == With(n, s, c, k, l) IN
           /\ m \in Contexts /\ Elsewhere(n, m, s)
           /\ m.kv[s] = c /\ m.pos[s] = k /\ m.lli[s] = l
<1>0. n = [kv |-> n.kv, pos |-> n.pos, lli |-> n.lli, ready |-> n.ready]
  BY DEF Contexts
<1>. DEFINE n1 == [n EXCEPT !.kv[s] = c]
            n2 == [n1 EXCEPT !.pos[s] = k]
            n3 == [n2 EXCEPT !.lli[s] = l]
            n4 == [n3 EXCEPT !.ready = (l # LogitsNone)]
<1>1. n1 = [kv |-> [n.kv EXCEPT ![s] = c], pos |-> n.pos, lli |-> n.lli, ready |-> n.ready]
  BY <1>0
<1>2. n4 = With(n, s, c, k, l)
  BY DEF With
<1>. HIDE DEF n1
<1>3. n2 = [kv |-> [n.kv EXCEPT ![s] = c], pos |-> [n.pos EXCEPT ![s] = k],
            lli |-> n.lli, ready |-> n.ready]
  BY <1>1
<1>. HIDE DEF n2
<1>4. n3 = [kv |-> [n.kv EXCEPT ![s] = c], pos |-> [n.pos EXCEPT ![s] = k],
            lli |-> [n.lli EXCEPT ![s] = l], ready |-> n.ready]
  BY <1>3
<1>. HIDE DEF n3
<1>5. n4 = [kv |-> [n.kv EXCEPT ![s] = c], pos |-> [n.pos EXCEPT ![s] = k],
            lli |-> [n.lli EXCEPT ![s] = l], ready |-> (l # LogitsNone)]
  BY <1>4
<1>. HIDE DEF n4
<1>6. n4 \in Contexts /\ Elsewhere(n, n4, s)
  BY <1>5 DEF Contexts, Elsewhere
<1>7. n4.kv[s] = c /\ n4.pos[s] = k /\ n4.lli[s] = l
  BY <1>5 DEF Contexts
<1>. QED BY <1>2, <1>6, <1>7

LEMMA TrimIs ==
    ASSUME NEW n \in Contexts, NEW s \in Seqs, NEW k \in 0 .. Len(n.kv[s])
    PROVE  LET m == Trim(n, s, k) IN
           /\ m \in Contexts /\ Elsewhere(n, m, s)
           /\ m.kv[s] = SubSeq(n.kv[s], 1, k) /\ m.pos[s] = k /\ m.lli[s] = LogitsNone
           /\ Len(m.kv[s]) = k
<1>1. n.kv[s] \in Lists
  BY DEF Contexts
<1>2. k \in Nat
  BY <1>1, Joined
<1>. DEFINE c == SubSeq(n.kv[s], 1, k)
<1>3. c \in Lists /\ Len(c) = k
  BY <1>1, Cut
<1>4. Trim(n, s, k) = With(n, s, c, k, LogitsNone)
  BY DEF Trim, With, Contexts
<1>. HIDE DEF c
<1>5. LogitsNone \in -2 .. Budget - 1
  BY SizesAre
<1>6. LET m == With(n, s, c, k, LogitsNone) IN
      /\ m \in Contexts /\ Elsewhere(n, m, s)
      /\ m.kv[s] = c /\ m.pos[s] = k /\ m.lli[s] = LogitsNone
  BY <1>2, <1>3, <1>5, WithIs
<1>. QED BY <1>3, <1>4, <1>6 DEF c

LEMMA ClearIs ==
    ASSUME NEW n \in Contexts, NEW s \in Seqs
    PROVE  LET m == Clear(n, s) IN
           /\ m \in Contexts /\ Elsewhere(n, m, s)
           /\ m.kv[s] = <<>> /\ m.pos[s] = 0 /\ m.lli[s] = LogitsNone
<1>1. n.kv[s] \in Lists
  BY DEF Contexts
<1>2. 0 \in 0 .. Len(n.kv[s])
  BY <1>1, Joined
<1>3. /\ Clear(n, s) \in Contexts /\ Elsewhere(n, Clear(n, s), s)
      /\ Len(Clear(n, s).kv[s]) = 0 /\ Clear(n, s).pos[s] = 0 /\ Clear(n, s).lli[s] = LogitsNone
  BY <1>2, TrimIs DEF Clear
<1>4. Clear(n, s).kv[s] \in Lists
  BY <1>3 DEF Contexts
<1>. QED BY <1>3, <1>4, Joined

LEMMA UnpackIs ==
    ASSUME NEW n \in Contexts, NEW s \in Seqs, NEW c \in Lists
    PROVE  LET m == Unpack(n, s, c) IN
           /\ m \in Contexts /\ Elsewhere(n, m, s)
           /\ m.kv[s] = c /\ m.pos[s] = Len(c) /\ m.lli[s] = LogitsNone
<1>1. Unpack(n, s, c) = With(n, s, c, Len(c), LogitsNone)
  BY DEF Unpack, With
<1>2. Len(c) \in Nat
  BY Joined
<1>. QED BY <1>1, <1>2, WithIs, SizesAre

LEMMA CopyIs ==
    ASSUME NEW n \in Contexts, NEW a \in Seqs, NEW b \in Seqs
    PROVE  LET m == Copy(n, a, b) IN
           /\ m \in Contexts /\ Elsewhere(n, m, b)
           /\ m.kv[b] = n.kv[a] /\ m.pos[b] = n.pos[a] /\ m.lli[b] = LogitsNone
<1>. DEFINE c == n.kv[a]
            k == n.pos[a]
<1>1. Copy(n, a, b) = With(n, b, c, k, LogitsNone)
  BY DEF Copy, With
<1>2. c \in Lists /\ k \in Nat
  BY DEF Contexts
<1>3. LogitsNone \in -2 .. Budget - 1
  BY SizesAre
<1>. HIDE DEF c, k
<1>4. LET m == With(n, b, c, k, LogitsNone) IN
      /\ m \in Contexts /\ Elsewhere(n, m, b)
      /\ m.kv[b] = c /\ m.pos[b] = k /\ m.lli[b] = LogitsNone
  BY <1>2, <1>3, WithIs
<1>. QED BY <1>1, <1>4 DEF c, k

LEMMA FreshIs ==
    /\ FreshContext \in Contexts
    /\ \A s \in Seqs : /\ FreshContext.kv[s] = <<>> /\ FreshContext.pos[s] = 0
                        /\ FreshContext.lli[s] = LogitsNone
BY ListsAre, SizesAre DEF FreshContext, Contexts

-----------------------------------------------------------------------------
(* Seqs change hands.                                                      *)

LEMMA NoReqIs == NoReq \in Requests /\ Shape(NoReq) /\ Thrifty(NoReq) /\ NoReq.kind = "none"
                 /\ NoReq.session = NoSession
BY ListsAre, SizesAre DEF NoReq, Requests, Shape, Thrifty

(* An idle pin is dropped: its seq is cleared and free. *)
LEMMA DropGood ==
    ASSUME Good(nat, req, ses), NEW e \in Sessions, ses[e].seq # -1,
           req[ses[e].seq].kind = "none"
    PROVE  /\ ses[e].seq \in Seqs /\ Good(DropPin(e), req, Unpin(e))
           /\ \A f \in Sessions : Unpin(e)[f].seq # ses[e].seq
           /\ \A f \in Sessions : Unpin(e)[f] = IF f = e THEN NoPin ELSE ses[f]
           /\ Elsewhere(nat, DropPin(e), ses[e].seq)
<1>. DEFINE s == ses[e].seq
            n == DropPin(e)
            ss == Unpin(e)
<1>1. s \in Seqs
  BY DEF Good, PinSet
<1>2. /\ n \in Contexts /\ Elsewhere(nat, n, s)
      /\ n.kv[s] = <<>> /\ n.pos[s] = 0 /\ n.lli[s] = LogitsNone
  BY <1>1, ClearIs DEF Good, DropPin
<1>3. /\ ss \in [Sessions -> PinSet]
      /\ \A f \in Sessions : ss[f] = IF f = e THEN NoPin ELSE ses[f]
  BY ListsAre DEF Good, Unpin, NoPin, PinSet
<1>. HIDE DEF n, ss
<1>4. Owned(req, ses) /\ NoPin.seq = -1
  BY DEF Good, NoPin
<1>5. \A f \in Sessions : ss[f].seq # s
  BY <1>1, <1>3, <1>4, SizesAre DEF Owned
<1>6. Owned(req, ss)
  BY <1>3, <1>4, SizesAre DEF Owned
<1>7. ASSUME NEW t \in Seqs PROVE Holds(n, req, ss, t)
  <2>0. Holds(nat, req, ses, t)
    BY DEF Good
  <2>1. CASE t = s
    BY <1>2, <1>5, <2>1, ListsAre, Joined DEF Holds
  <2>2. CASE t # s
    <3>1. n.kv[t] = nat.kv[t] /\ n.pos[t] = nat.pos[t] /\ n.lli[t] = nat.lli[t]
      BY <1>2, <2>2 DEF Elsewhere
    <3>2. \A f \in Sessions : ss[f].seq = t => ses[f].seq = t /\ ss[f].toks = ses[f].toks
      BY <1>3, <1>4, SizesAre
    <3>3. \A f \in Sessions : ses[f].seq = t => ss[f].seq = t
      BY <1>3, <2>2
    <3>. QED BY <2>0, <3>1, <3>2, <3>3 DEF Holds
  <2>. QED BY <2>1, <2>2
<1>8. Good(n, req, ss)
  BY <1>2, <1>3, <1>6, <1>7 DEF Good
<1>. QED BY <1>1, <1>2, <1>3, <1>5, <1>8 DEF n, ss

(* A seq that was allocated is free and empty. *)
LEMMA AllocGood ==
    ASSUME Good(nat, req, ses), NEW x, NEW a \in Allocs(x)
    PROVE  /\ a.seq \in Seqs /\ Good(a.nat, req, a.ses)
           /\ req[a.seq].kind = "none" /\ \A f \in Sessions : a.ses[f].seq # a.seq
           /\ \A f \in Sessions : a.ses[f] = ses[f] \/ a.ses[f] = NoPin
           /\ x \in Sessions => a.ses[x] = ses[x]
           /\ \A s \in Seqs : req[s].kind # "none" =>
                 a.nat.kv[s] = nat.kv[s] /\ a.nat.lli[s] = nat.lli[s]
<1>1. CASE IdleSeqs # {}
  <2>1. PICK s \in IdleSeqs : a = [seq |-> s, nat |-> nat, ses |-> ses]
    BY <1>1 DEF Allocs
  <2>2. s \in Seqs /\ req[s].kind = "none" /\ \A f \in Sessions : ses[f].seq # s
    BY DEF IdleSeqs, InFlight
  <2>. QED BY <2>1, <2>2
<1>2. CASE IdleSeqs = {}
  <2>1. PICK e \in Pins \ {x} : a = [seq |-> ses[e].seq, nat |-> DropPin(e), ses |-> Unpin(e)]
    BY <1>2 DEF Allocs
  <2>2. e \in Sessions /\ ses[e].seq # -1 /\ ses[e].seq \notin InFlight /\ e # x
    BY DEF Pins, Pinned
  <2>3. ses[e].seq \in Seqs
    BY <2>2 DEF Good, PinSet
  <2>4. req[ses[e].seq].kind = "none"
    BY <2>2, <2>3 DEF InFlight
  <2>5. /\ Good(a.nat, req, a.ses) /\ \A f \in Sessions : a.ses[f].seq # a.seq
        /\ \A f \in Sessions : a.ses[f] = IF f = e THEN NoPin ELSE ses[f]
        /\ a.seq = ses[e].seq
        /\ Elsewhere(nat, a.nat, a.seq)
    BY <2>1, <2>2, <2>4, DropGood
  <2>. QED BY <2>2, <2>3, <2>4, <2>5 DEF Elsewhere
<1>. QED BY <1>1, <1>2

(* A request starts on a seq that none has. *)
LEMMA StartGood ==
    ASSUME NEW n, NEW ss, Good(n, req, ss), NEW s \in Seqs, req[s].kind = "none",
           NEW r \in Requests, Shape(r), Thrifty(r), r.kind # "none",
           \A e \in Sessions : ss[e].seq = s => r.session = e,
           r.session # NoSession =>
               /\ \A t \in Seqs : req[t].kind # "none" => req[t].session # r.session
               /\ ss[r.session].seq \in {-1, s},
           NEW m \in Contexts, Elsewhere(n, m, s), m.pos[s] = Len(m.kv[s]), m.kv[s] = Cells(r)
    PROVE  Good(m, [req EXCEPT ![s] = r], ss)
<1>. DEFINE rq == [req EXCEPT ![s] = r]
<1>0. /\ req \in [Seqs -> Requests] /\ ss \in [Sessions -> PinSet] /\ Owned(req, ss)
      /\ \A t \in Seqs : Shape(req[t]) /\ Thrifty(req[t])
      /\ \A t \in Seqs : Holds(n, req, ss, t)
  BY DEF Good
<1>1. rq \in [Seqs -> Requests] /\ \A t \in Seqs : rq[t] = IF t = s THEN r ELSE req[t]
  BY <1>0
<1>. HIDE DEF rq
<1>2. \A t \in Seqs : Shape(rq[t]) /\ Thrifty(rq[t])
  BY <1>0, <1>1
<1>3. \A t \in Seqs : req[t].kind = "none" => req[t].session = NoSession
  BY <1>0, NoReqIs DEF Shape
<1>4. Owned(rq, ss)
  <2>1. \A e, f \in Sessions : ss[e].seq = ss[f].seq /\ ss[e].seq # -1 => e = f
    BY <1>0 DEF Owned
  <2>2. \A e \in Sessions, t \in Seqs : rq[t].kind # "none" /\ ss[e].seq = t => rq[t].session = e
    BY <1>0, <1>1 DEF Owned
  <2>3. \A e \in Sessions, t \in Seqs : rq[t].session = e /\ ss[e].seq # -1 => ss[e].seq = t
    BY <1>0, <1>1, SizesAre DEF Owned
  <2>4. ASSUME NEW t \in Seqs, NEW u \in Seqs, rq[t].session = rq[u].session,
               rq[t].session # NoSession
        PROVE  t = u
    BY <1>0, <1>1, <1>3, <2>4 DEF Owned
  <2>. QED BY <2>1, <2>2, <2>3, <2>4 DEF Owned
<1>5. ASSUME NEW t \in Seqs PROVE Holds(m, rq, ss, t)
  <2>1. CASE t = s
    BY <1>1, <2>1 DEF Holds
  <2>2. CASE t # s
    <3>1. m.kv[t] = n.kv[t] /\ m.pos[t] = n.pos[t] /\ m.lli[t] = n.lli[t] /\ rq[t] = req[t]
      BY <1>1, <2>2 DEF Elsewhere
    <3>2. Holds(n, req, ss, t)
      BY <1>0
    <3>. QED BY <3>1, <3>2 DEF Holds
  <2>. QED BY <2>1, <2>2
<1>6. Good(m, rq, ss)
  BY <1>0, <1>1, <1>2, <1>4, <1>5 DEF Good
<1>. QED BY <1>6 DEF rq

(* A tick changes seqs that have a request, and each stays what its        *)
(* request believes.                                                       *)
LEMMA TickGood ==
    ASSUME Good(nat, req, ses), NEW n \in Contexts, NEW rq \in [Seqs -> Requests],
           \A s \in Seqs : /\ Shape(rq[s]) /\ Thrifty(rq[s])
                           /\ rq[s].kind = req[s].kind /\ rq[s].session = req[s].session
                           /\ n.pos[s] = Len(n.kv[s])
                           /\ rq[s].kind # "none" => n.kv[s] = Cells(rq[s])
                           /\ rq[s].kind = "none" => n.kv[s] = nat.kv[s] /\ n.lli[s] = nat.lli[s]
    PROVE  Good(n, rq, ses)
<1>1. Owned(rq, ses)
  BY DEF Good, Owned
<1>2. \A s \in Seqs : Holds(n, rq, ses, s)
  BY DEF Good, Holds
<1>. QED BY <1>1, <1>2 DEF Good

LEMMA SaveKeyed ==
    ASSUME NEW sv, NEW new, Keyed(sv), Keyed(new)
    PROVE  Keyed(Save(sv, new))
BY DEF Keyed, Save

LEMMA RowKeyed ==
    ASSUME NEW c \in Lists PROVE Row(c, c).key \in Lists /\ Row(c, c).kv = Row(c, c).key
BY DEF Row

-----------------------------------------------------------------------------
(* The end of a tick.                                                      *)

Finishes(r) ==
    r.kind # "none" /\ (r.finishing \/ (r.kind = "prefill_only" /\ r.cursor = <<>>))

(* The finished requests leave: their seqs are cleared or stay with their  *)
(* sessions, and the checkpoints they leave hold their context.            *)
LEMMA AfterGood ==
    ASSUME NEW n, NEW rq, NEW sv, Good(n, rq, ses), Keyed(sv), AfterStep(n, rq, sv)
    PROVE  KvInv'
<1>. DEFINE F == {s \in Seqs : Finishes(rq[s])}
            G == {s \in F : rq[s].session = NoSession}
            new == {Row(rq[s].ctx, n.kv[s]) :
                      s \in {t \in F : rq[t].kind # "media" /\ Len(rq[t].ctx) >= MinTokens}}
<1>0. /\ n \in Contexts /\ rq \in [Seqs -> Requests] /\ ses \in [Sessions -> PinSet]
      /\ \A s \in Seqs : Shape(rq[s]) /\ Thrifty(rq[s])
      /\ Owned(rq, ses)
      /\ \A s \in Seqs : Holds(n, rq, ses, s)
  BY DEF Good
<1>1. /\ saved' = Save(sv, new)
      /\ nat' = [kv |-> [s \in Seqs |-> IF s \in G THEN <<>> ELSE n.kv[s]],
                 pos |-> [s \in Seqs |-> IF s \in G THEN 0 ELSE n.pos[s]],
                 lli |-> [s \in Seqs |-> IF s \in G THEN LogitsNone ELSE n.lli[s]],
                 ready |-> n.ready /\ G = {}]
      /\ req' = [s \in Seqs |-> IF s \in F THEN NoReq ELSE rq[s]]
      /\ ses' = [e \in Sessions |->
                   IF \E s \in F : rq[s].session = e
                   THEN LET s == CHOOSE s \in F : rq[s].session = e
                        IN  [seq |-> s, toks |-> rq[s].ctx]
                   ELSE ses[e]]
  BY DEF AfterStep, Finishes
<1>2. F \subseteq Seqs /\ \A s \in F : rq[s].kind # "none" /\ rq[s] \in Requests
  BY <1>0 DEF Finishes
<1>3. \A s \in Seqs : s \in G <=> s \in F /\ rq[s].session = NoSession
  OBVIOUS
<1>4. Keyed(new)
  <2>. SUFFICES ASSUME NEW s \in F, rq[s].kind # "media"
                PROVE  LET r == Row(rq[s].ctx, n.kv[s]) IN r.key \in Lists /\ r.kv = r.key
    BY DEF Keyed
  <2>1. n.kv[s] = rq[s].ctx /\ rq[s].ctx \in Lists
    BY <1>0, <1>2 DEF Holds, Cells, Requests
  <2>. QED BY <2>1, RowKeyed
<1>5. Keyed(saved')
  <2>. HIDE DEF new
  <2>. QED BY <1>1, <1>4, SaveKeyed
<1>. HIDE DEF F, G, new
<1>6. /\ nat' \in Contexts
      /\ \A s \in Seqs : s \in G => /\ nat'.kv[s] = <<>> /\ nat'.pos[s] = 0
                                    /\ nat'.lli[s] = LogitsNone
      /\ \A s \in Seqs : s \notin G => /\ nat'.kv[s] = n.kv[s] /\ nat'.pos[s] = n.pos[s]
                                       /\ nat'.lli[s] = n.lli[s]
  <2>1. \A s \in Seqs : n.kv[s] \in Lists /\ n.pos[s] \in Nat /\ n.lli[s] \in -2 .. Budget - 1
    BY <1>0 DEF Contexts
  <2>2. (n.ready /\ G = {}) \in BOOLEAN
    OBVIOUS
  <2>3. nat' \in Contexts
    BY <1>1, <2>1, <2>2, ListsAre, SizesAre DEF Contexts
  <2>. QED BY <1>1, <2>3
<1>7. /\ req' \in [Seqs -> Requests]
      /\ \A s \in Seqs : Shape(req'[s]) /\ Thrifty(req'[s])
      /\ \A s \in Seqs : s \in F => req'[s].kind = "none" /\ req'[s].session = NoSession
      /\ \A s \in Seqs : s \notin F => req'[s] = rq[s]
  BY <1>0, <1>1, NoReqIs
<1>8. ASSUME NEW s \in F, rq[s].session # NoSession
      PROVE  /\ rq[s].session \in Sessions
             /\ ses'[rq[s].session] = [seq |-> s, toks |-> rq[s].ctx]
             /\ n.kv[s] = rq[s].ctx
  <2>1. rq[s].session \in Sessions
    BY <1>2, <1>8 DEF Requests
  <2>2. \A t \in F : rq[t].session = rq[s].session => t = s
    BY <1>0, <1>2, <1>8 DEF Owned
  <2>3. (CHOOSE t \in F : rq[t].session = rq[s].session) = s
    BY <2>2
  <2>4. ses'[rq[s].session] = [seq |-> s, toks |-> rq[s].ctx]
    BY <1>1, <2>1, <2>3
  <2>5. n.kv[s] = rq[s].ctx
    BY <1>0, <1>2, <1>8 DEF Holds, Cells, Shape
  <2>. QED BY <2>1, <2>4, <2>5
<1>9. \A e \in Sessions : (\A s \in F : rq[s].session # e) => ses'[e] = ses[e]
  BY <1>1
<1>10. ses' \in [Sessions -> PinSet]
  <2>1. ASSUME NEW e \in Sessions PROVE ses'[e] \in PinSet
    <3>1. CASE \A s \in F : rq[s].session # e
      BY <1>0, <1>9, <3>1
    <3>2. CASE \E s \in F : rq[s].session = e
      <4>1. PICK s \in F : rq[s].session = e
        BY <3>2
      <4>2. ses'[e] = [seq |-> s, toks |-> rq[s].ctx]
        BY <1>8, <4>1, SizesAre
      <4>3. s \in Seqs /\ rq[s].ctx \in Lists
        BY <1>2 DEF Requests
      <4>. QED BY <4>2, <4>3 DEF PinSet
    <3>. QED BY <3>1, <3>2
  <2>. DEFINE d(e) == IF \E s \in F : rq[s].session = e
                      THEN LET s == CHOOSE s \in F : rq[s].session = e
                           IN  [seq |-> s, toks |-> rq[s].ctx]
                      ELSE ses[e]
  <2>2. ses' = [e \in Sessions |-> d(e)]
    BY <1>1
  <2>. HIDE DEF d
  <2>. QED BY <2>1, <2>2
<1>11. ASSUME NEW e \in Sessions
       PROVE  \/ /\ ses'[e] = ses[e] /\ \A s \in F : rq[s].session # e
              \/ \E s \in F : /\ rq[s].session = e /\ ses'[e].seq = s /\ ses'[e].toks = n.kv[s]
                              /\ ses[e].seq \in {-1, s}
  <2>1. CASE \A s \in F : rq[s].session # e
    BY <1>9, <2>1
  <2>2. CASE \E s \in F : rq[s].session = e
    <3>1. PICK s \in F : rq[s].session = e
      BY <2>2
    <3>2. ses'[e] = [seq |-> s, toks |-> rq[s].ctx] /\ n.kv[s] = rq[s].ctx
      BY <1>8, <3>1, SizesAre
    <3>3. ses[e].seq \in {-1, s}
      BY <1>0, <1>2, <3>1 DEF Owned
    <3>. QED BY <3>1, <3>2, <3>3
  <2>. QED BY <2>1, <2>2
<1>12. Owned(req', ses')
  <2>1. ASSUME NEW e \in Sessions, NEW f \in Sessions, ses'[e].seq = ses'[f].seq, ses'[e].seq # -1
        PROVE  e = f
    BY <1>0, <1>2, <1>11, <2>1 DEF Owned
  <2>2. ASSUME NEW e \in Sessions, NEW s \in Seqs, req'[s].kind # "none", ses'[e].seq = s
        PROVE  req'[s].session = e
    BY <1>0, <1>7, <1>11, <2>2 DEF Owned
  <2>3. ASSUME NEW e \in Sessions, NEW s \in Seqs, req'[s].session = e, ses'[e].seq # -1
        PROVE  ses'[e].seq = s
    <3>1. s \notin F /\ rq[s].session = e
      BY <1>7, <2>3, SizesAre
    <3>2. \A t \in F : rq[t].session # e
      BY <1>0, <1>2, <3>1, SizesAre DEF Owned
    <3>. QED BY <1>0, <1>9, <2>3, <3>1, <3>2 DEF Owned
  <2>4. ASSUME NEW s \in Seqs, NEW t \in Seqs, req'[s].session = req'[t].session,
               req'[s].session # NoSession
        PROVE  s = t
    BY <1>0, <1>7, <2>4 DEF Owned
  <2>. QED BY <2>1, <2>2, <2>3, <2>4 DEF Owned
<1>13. ASSUME NEW s \in Seqs PROVE Holds(nat', req', ses', s)
  <2>0. Holds(n, rq, ses, s)
    BY <1>0
  <2>1. CASE s \in G
    <3>1. s \in F /\ rq[s].session = NoSession
      BY <1>3, <2>1
    <3>2. \A e \in Sessions : ses'[e].seq # s
      BY <1>0, <1>2, <1>11, <3>1, SizesAre DEF Owned
    <3>. QED BY <1>6, <1>7, <2>1, <3>1, <3>2, ListsAre, Joined DEF Holds
  <2>2. CASE s \in F /\ s \notin G
    <3>1. rq[s].session \in Sessions /\ ses'[rq[s].session].seq = s
      <4>1. rq[s].session # NoSession
        BY <1>3, <2>2
      <4>2. rq[s].session \in Sessions /\ ses'[rq[s].session] = [seq |-> s, toks |-> rq[s].ctx]
        BY <1>8, <2>2, <4>1
      <4>. QED BY <4>2
    <3>2. \A e \in Sessions : ses'[e].seq = s => ses'[e].toks = n.kv[s]
      BY <1>0, <1>2, <1>11, <2>2 DEF Owned
    <3>. QED BY <1>6, <1>7, <2>0, <2>2, <3>1, <3>2 DEF Holds
  <2>3. CASE s \notin F
    <3>1. nat'.kv[s] = n.kv[s] /\ nat'.pos[s] = n.pos[s] /\ nat'.lli[s] = n.lli[s] /\ req'[s] = rq[s]
      BY <1>3, <1>6, <1>7, <2>3
    <3>2. \A e \in Sessions : ses'[e].seq = s => ses'[e] = ses[e]
      BY <1>11, <2>3
    <3>3. \A e \in Sessions : ses[e].seq = s => ses'[e] = ses[e]
      BY <1>11, <2>3, SizesAre
    <3>. QED BY <2>0, <3>1, <3>2, <3>3 DEF Holds
  <2>. QED BY <1>3, <2>1, <2>2, <2>3
<1>. QED BY <1>5, <1>6, <1>7, <1>10, <1>12, <1>13 DEF KvInv, Good

-----------------------------------------------------------------------------
(* Admission.                                                              *)

(* The next tick samples a token for the request. *)
Decodes(r) ==
    /\ r.kind \notin {"none", "prefill_only"} /\ ~r.finishing
    /\ r.cursor = <<>> /\ ~r.pending

(* A context in which the seqs of the requests in flight are as they were. *)
Spared(n) ==
    \A t \in Seqs : req[t].kind # "none" => n.kv[t] = nat.kv[t] /\ n.lli[t] = nat.lli[t]

(* A step that leaves the logits and those who sample next alone. *)
Quiet ==
    /\ rows' = rows /\ up' = up
    /\ admitted' = admitted \/ (admitted < MaxReqs /\ admitted' = admitted + 1)
    /\ "empty_suffix" \notin Risky =>
          \A t \in Seqs : Decodes(req'[t]) =>
              Decodes(req[t]) /\ nat'.kv[t] = nat.kv[t] /\ nat'.lli[t] = nat.lli[t]

(* A speculative request has enough tokens for its first save. *)
Long(kind, n) == kind = "spec" => n + 1 >= Interval /\ n + 1 >= MinTokens

LEMMA PromptsLong ==
    ASSUME SavesWhole, NEW kind \in Kinds, NEW p \in Prompts \cup Tails
    PROVE  Long(kind, Len(p))
BY DEF SavesWhole, Long

LEMMA StartStep ==
    ASSUME Keyed(saved), NEW n, NEW ss, Good(n, req, ss), Spared(n),
           NEW s \in Seqs, req[s].kind = "none",
           NEW r \in Requests, Shape(r), Thrifty(r), r.kind # "none",
           \A e \in Sessions : ss[e].seq = s => r.session = e,
           r.session # NoSession =>
               /\ \A t \in Seqs : req[t].kind # "none" => req[t].session # r.session
               /\ ss[r.session].seq \in {-1, s},
           NEW m \in Contexts, Elsewhere(n, m, s), m.pos[s] = Len(m.kv[s]), m.kv[s] = Cells(r),
           r.cursor # <<>> \/ r.pending \/ "empty_suffix" \in Risky,
           StartRequest(m, ss, s, r)
    PROVE  KvInv' /\ Quiet
<1>1. Good(m, [req EXCEPT ![s] = r], ss)
  BY StartGood
<1>2. /\ nat' = m /\ ses' = ss /\ req' = [req EXCEPT ![s] = r] /\ rows' = rows /\ saved' = saved
      /\ up' = up /\ admitted < MaxReqs /\ admitted' = admitted + 1
  BY DEF StartRequest
<1>3. KvInv'
  BY <1>1, <1>2 DEF KvInv
<1>4. \A t \in Seqs : req'[t] = IF t = s THEN r ELSE req[t]
  BY <1>2 DEF Good
<1>5. Quiet
  <2>. SUFFICES ASSUME "empty_suffix" \notin Risky, NEW t \in Seqs, Decodes(req'[t])
                PROVE  Decodes(req[t]) /\ nat'.kv[t] = nat.kv[t] /\ nat'.lli[t] = nat.lli[t]
    BY <1>2 DEF Quiet
  <2>1. t # s
    BY <1>4 DEF Decodes
  <2>2. Decodes(req[t]) /\ req[t].kind # "none"
    BY <1>4, <2>1 DEF Decodes
  <2>3. m.kv[t] = n.kv[t] /\ m.lli[t] = n.lli[t]
    BY <2>1 DEF Elsewhere
  <2>. QED BY <1>2, <2>2, <2>3 DEF Spared
<1>. QED BY <1>3, <1>5

(* A new text request that has c in its seq and todo to prefill. *)
Starts(r, kind, e, c, todo) ==
    /\ r \in Requests /\ Shape(r) /\ Thrifty(r) /\ Cells(r) = r.ctx
    /\ r.kind = kind /\ r.kind # "none" /\ r.session = e /\ r.ctx = c /\ r.cursor = todo
    /\ r.rest = <<>> /\ r.gen = 0 /\ r.lastSave = 0 /\ ~r.pending /\ ~r.finishing /\ ~r.ladder

LEMMA RequestIs ==
    ASSUME NEW kind \in TextKinds, NEW e \in Sessions \cup {NoSession},
           NEW c \in Lists, NEW todo \in Lists, Long(kind, Len(c) + Len(todo))
    PROVE  Starts(Request(kind, e, c, todo), kind, e, c, todo)
<1>. DEFINE r == Request(kind, e, c, todo)
<1>1. /\ NoReq \in Requests /\ NoReq.rest = <<>> /\ NoReq.gen = 0 /\ NoReq.lastSave = 0
      /\ ~NoReq.pending /\ ~NoReq.finishing /\ ~NoReq.ladder
  BY NoReqIs DEF NoReq
<1>2. kind \in Kinds /\ kind # "media" /\ kind # "none"
  BY SizesAre DEF TextKinds
<1>3. Len(c) \in Nat /\ Len(todo) \in Nat /\ Len(<<>>) = 0
  BY ListsAre, Joined
<1>4. r = [NoReq EXCEPT !.kind = kind, !.session = e, !.ctx = c, !.cursor = todo]
  BY DEF Request
<1>. HIDE DEF r
<1>5. r \in Requests /\ r.kind = kind /\ r.session = e /\ r.ctx = c /\ r.cursor = todo
  BY <1>1, <1>2, <1>4 DEF Requests
<1>6. r.rest = <<>> /\ r.gen = 0 /\ r.lastSave = 0 /\ ~r.pending /\ ~r.finishing /\ ~r.ladder
  BY <1>1, <1>2, <1>4 DEF Requests
<1>7. Shape(r)
  BY <1>2, <1>5, <1>6, SizesAre DEF Shape
<1>8. Thrifty(r)
  BY <1>3, <1>5, <1>6, SizesAre DEF Thrifty, Long
<1>9. Cells(r) = r.ctx
  BY <1>2, <1>5 DEF Cells
<1>. QED BY <1>2, <1>5, <1>6, <1>7, <1>8, <1>9 DEF r, Starts

LEMMA LadderIs ==
    ASSUME NEW kind \in TextKinds, NEW e \in Sessions \cup {NoSession},
           NEW p \in Lists, p # <<>>, Long(kind, Len(p))
    PROVE  LET r == Ladder(Request(kind, e, <<>>, p), p) IN
           /\ r \in Requests /\ Shape(r) /\ Thrifty(r) /\ Cells(r) = <<>>
           /\ r.kind = kind /\ r.kind # "none" /\ r.session = e /\ r.cursor # <<>>
<1>. DEFINE q == Request(kind, e, <<>>, p)
            r == Ladder(q, p)
            a == SubSeq(p, 1, Boundary)
            b == SubSeq(p, Boundary + 1, Len(p))
<1>0. Len(p) \in Nat /\ Len(<<>>) = 0 /\ <<>> \in Lists
  BY ListsAre, Joined
<1>1. Len(<<>>) + Len(p) = Len(p)
  BY <1>0
<1>2. Starts(q, kind, e, <<>>, p)
  BY <1>0, <1>1, RequestIs
<1>. USE DEF Starts
<1>3. CASE Boundary \notin 1 .. Len(p)
  BY <1>2, <1>3 DEF Ladder
<1>4. CASE Boundary \in 1 .. Len(p)
  <2>0. Boundary \in 0 .. Len(p) /\ Boundary >= 1
    BY <1>0, <1>4
  <2>1. a \in Lists /\ Len(a) = Boundary /\ b \in Lists /\ Len(b) = Len(p) - Boundary
    BY <2>0, Cut
  <2>2. a # <<>>
    BY <1>0, <2>0, <2>1
  <2>3. r = [q EXCEPT !.cursor = a, !.ladder = TRUE, !.rest = b]
    BY <1>4 DEF Ladder
  <2>. HIDE DEF q, r, a, b
  <2>4. r \in Requests /\ r.kind = kind /\ r.session = e /\ r.ctx = <<>> /\ r.cursor = a
    BY <1>2, <2>1, <2>3 DEF Requests
  <2>5. r.rest = b /\ r.ladder /\ r.gen = 0 /\ ~r.pending /\ ~r.finishing
    BY <1>2, <2>1, <2>3 DEF Requests
  <2>6. Shape(r)
    BY <1>2, <2>2, <2>4, <2>5, SizesAre DEF Shape, TextKinds
  <2>7. Thrifty(r)
    <3>1. Len(<<>>) + Len(a) + Len(b) + 1 = Len(p) + 1
      BY <1>0, <2>1, SizesAre
    <3>. QED BY <2>2, <2>4, <2>5, <3>1, SizesAre DEF Thrifty, Long
  <2>8. Cells(r) = <<>> /\ r.kind # "none"
    BY <1>2, <2>4, <2>5 DEF Cells, TextKinds
  <2>. QED BY <2>2, <2>4, <2>6, <2>7, <2>8 DEF q, r
<1>. QED BY <1>3, <1>4

(* A request that resumes on a seq that holds a prefix of its prompt. *)
Resumes(w, n, s, kind, e) ==
    /\ w.req \in Requests /\ Shape(w.req) /\ Thrifty(w.req)
    /\ w.req.kind = kind /\ w.req.kind # "none" /\ w.req.session = e /\ w.req.cursor # <<>>
    /\ w.nat \in Contexts /\ Elsewhere(n, w.nat, s)
    /\ w.nat.kv[s] = Cells(w.req) /\ w.nat.pos[s] = Len(w.nat.kv[s])

LEMMA ResumeIs ==
    ASSUME NEW kind \in TextKinds, NEW e \in Sessions \cup {NoSession},
           NEW p \in Lists, p # <<>>, Long(kind, Len(p)),
           NEW toks \in Lists, IsPrefix(toks, p),
           NEW n \in Contexts, NEW s \in Seqs, n.kv[s] = toks, n.pos[s] = Len(toks)
    PROVE  Resumes(Resume(n, s, kind, e, toks, p), n, s, kind, e)
<1>0. Len(p) \in Nat /\ Len(p) # 0 /\ Len(toks) \in 0 .. Len(p) /\ Len(toks) \in Nat
  BY Joined, PrefixSplits
<1>1. CASE Len(toks) = Len(p)
  <2>. DEFINE c == SubSeq(toks, 1, Len(toks) - 1)
              d == <<Last(toks)>>
              m == Trim(n, s, Len(toks) - 1)
  <2>1. c \in Lists /\ Len(c) = Len(toks) - 1 /\ d \in Lists /\ Len(d) = 1
    BY <1>0, <1>1, LastSplits
  <2>2. d # <<>> /\ Len(c) + Len(d) = Len(p)
    BY <1>0, <1>1, <2>1
  <2>3. Len(toks) - 1 \in 0 .. Len(n.kv[s])
    BY <1>0, <1>1
  <2>4. /\ m \in Contexts /\ Elsewhere(n, m, s)
        /\ m.kv[s] = c /\ m.pos[s] = Len(toks) - 1
    BY <2>3, TrimIs
  <2>5. Resume(n, s, kind, e, toks, p) = [nat |-> m, req |-> Request(kind, e, c, d)]
    BY <1>1 DEF Resume, ResumeExact
  <2>. HIDE DEF c, d, m
  <2>6. Starts(Request(kind, e, c, d), kind, e, c, d)
    <3>1. Long(kind, Len(c) + Len(d))
      BY <2>2
    <3>. QED BY <2>1, <3>1, RequestIs
  <2>. QED BY <2>1, <2>2, <2>4, <2>5, <2>6 DEF Starts, Resumes
<1>2. CASE Len(toks) # Len(p)
  <2>. DEFINE d == SubSeq(p, Len(toks) + 1, Len(p))
  <2>1. d \in Lists /\ Len(d) = Len(p) - Len(toks)
    BY PrefixSplits
  <2>2. Len(d) # 0 /\ Len(toks) + Len(d) = Len(p)
    BY <1>0, <1>2, <2>1
  <2>3. d # <<>>
    BY <2>1, <2>2, Joined
  <2>4. Resume(n, s, kind, e, toks, p) = [nat |-> n, req |-> Request(kind, e, toks, d)]
    BY <1>2 DEF Resume
  <2>. HIDE DEF d
  <2>5. Starts(Request(kind, e, toks, d), kind, e, toks, d)
    <3>1. Long(kind, Len(toks) + Len(d))
      BY <2>2
    <3>. QED BY <2>1, <3>1, RequestIs
  <2>. QED BY <2>3, <2>4, <2>5 DEF Elsewhere, Starts, Resumes
<1>. QED BY <1>1, <1>2

(* The cells two lists have in common. *)
LEMMA CommonPrefixIs ==
    ASSUME NEW x \in Lists, NEW p \in Lists
    PROVE  LET l == Len(LongestCommonPrefix({x, p})) IN
           l \in 0 .. Len(x) /\ l \in 0 .. Len(p) /\ SubSeq(x, 1, l) = SubSeq(p, 1, l)
<1>. DEFINE C == CommonPrefixes({x, p})
            T == {Len(c) : c \in C}
<1>0. Len(x) \in Nat /\ Len(p) \in Nat /\ <<>> \in Lists /\ Len(<<>>) = 0
  BY ListsAre, Joined
<1>1. ASSUME NEW c \in C
      PROVE  /\ Len(c) \in 0 .. Len(x) /\ Len(c) \in 0 .. Len(p)
             /\ SubSeq(x, 1, Len(c)) = SubSeq(p, 1, Len(c))
  <2>1. IsPrefix(c, x) /\ IsPrefix(c, p) /\ c \in Prefixes(x) \cup Prefixes(p)
    BY DEF CommonPrefixes
  <2>2. ASSUME NEW y \in Lists, c \in Prefixes(y) PROVE Len(c) \in Nat
    <3>1. CASE c = <<>>
      BY <1>0, <3>1
    <3>2. CASE c # <<>>
      <4>1. PICK i \in 1 .. Len(y) : c = SubSeq(y, 1, i)
        BY <2>2, <3>2 DEF Prefixes
      <4>2. Len(y) \in Nat
        BY Joined
      <4>3. i \in 0 .. Len(y) /\ i \in Nat
        BY <4>2
      <4>. QED BY <4>1, <4>3, Cut
    <3>. QED BY <3>1, <3>2
  <2>. QED BY <1>0, <2>1, <2>2 DEF IsPrefix
<1>2. <<>> \in C
  <2>1. ASSUME NEW y \in Lists PROVE SubSeq(y, 1, 0) = <<>> /\ 0 <= Len(y)
    <3>1. Len(y) \in Nat /\ 0 \in 0 .. Len(y)
      BY Joined
    <3>2. SubSeq(y, 1, 0) \in Lists /\ Len(SubSeq(y, 1, 0)) = 0
      BY <3>1, Cut
    <3>. QED BY <3>1, <3>2, Joined
  <2>2. IsPrefix(<<>>, x) /\ IsPrefix(<<>>, p)
    BY <1>0, <2>1 DEF IsPrefix
  <2>. QED BY <2>2 DEF CommonPrefixes, Prefixes
<1>3. T \subseteq 0 .. Len(x) /\ T # {}
  BY <1>1, <1>2
<1>4. \E l \in T : \A k \in T : k <= l
  <2>. HIDE DEF T
  <2>. QED BY <1>0, <1>3, GreatestExists
<1>5. \E c \in C : \A d \in C : Len(d) <= Len(c)
  BY <1>4
<1>6. LongestCommonPrefix({x, p}) \in C
  BY <1>5 DEF LongestCommonPrefix
<1>. HIDE DEF C
<1>. QED BY <1>1, <1>6

(* Seq s is free for a request of session e. *)
Takes(ss, s, e) ==
    /\ s \in Seqs /\ req[s].kind = "none"
    /\ \A f \in Sessions : ss[f].seq = s => e = f
    /\ e # NoSession =>
         /\ \A t \in Seqs : req[t].kind # "none" => req[t].session # e
         /\ ss[e].seq \in {-1, s}

LEMMA ElsewhereTwice ==
    ASSUME NEW n, NEW m, NEW w, NEW s \in Seqs, Elsewhere(n, m, s), Elsewhere(m, w, s)
    PROVE  Elsewhere(n, w, s)
BY DEF Elsewhere

LEMMA ColdStep ==
    ASSUME Keyed(saved), NEW n, NEW ss, Good(n, req, ss), Spared(n),
           NEW kind \in TextKinds, NEW e \in Sessions \cup {NoSession},
           NEW s, Takes(ss, s, e),
           NEW p \in Lists, p # <<>>, Long(kind, Len(p)),
           StartCold(n, ss, s, kind, e, p)
    PROVE  KvInv' /\ Quiet
<1>. DEFINE r == Ladder(Request(kind, e, <<>>, p), p)
            m == Clear(n, s)
<1>1. /\ r \in Requests /\ Shape(r) /\ Thrifty(r) /\ Cells(r) = <<>>
      /\ r.kind = kind /\ r.kind # "none" /\ r.session = e /\ r.cursor # <<>>
  BY LadderIs
<1>2. s \in Seqs /\ n \in Contexts
  BY DEF Takes, Good
<1>3. m \in Contexts /\ Elsewhere(n, m, s) /\ m.kv[s] = <<>> /\ m.pos[s] = 0
  BY <1>2, ClearIs
<1>4. Len(<<>>) = 0
  BY ListsAre, Joined
<1>5. StartRequest(m, ss, s, r)
  BY DEF StartCold
<1>. HIDE DEF r, m
<1>. QED BY <1>1, <1>2, <1>3, <1>4, <1>5, StartStep DEF Takes

LEMMA WarmStep ==
    ASSUME Keyed(saved), NEW n, NEW ss, Good(n, req, ss), Spared(n),
           NEW kind \in TextKinds, NEW e \in Sessions \cup {NoSession},
           NEW s, Takes(ss, s, e),
           NEW p \in Lists, p # <<>>, Long(kind, Len(p)),
           NEW toks \in Lists, IsPrefix(toks, p),
           NEW m \in Contexts, Elsewhere(n, m, s), m.kv[s] = toks, m.pos[s] = Len(toks),
           StartRequest(Resume(m, s, kind, e, toks, p).nat, ss, s,
                        Resume(m, s, kind, e, toks, p).req)
    PROVE  KvInv' /\ Quiet
<1>. DEFINE r == Resume(m, s, kind, e, toks, p).req
            w == Resume(m, s, kind, e, toks, p).nat
<1>1. s \in Seqs
  BY DEF Takes
<1>2. /\ r \in Requests /\ Shape(r) /\ Thrifty(r)
      /\ r.kind = kind /\ r.kind # "none" /\ r.session = e /\ r.cursor # <<>>
      /\ w \in Contexts /\ Elsewhere(m, w, s)
      /\ w.kv[s] = Cells(r) /\ w.pos[s] = Len(w.kv[s])
  <2>1. Resumes(Resume(m, s, kind, e, toks, p), m, s, kind, e)
    BY <1>1, ResumeIs
  <2>. QED BY <2>1 DEF Resumes
<1>3. Elsewhere(n, w, s)
  BY <1>1, <1>2, ElsewhereTwice
<1>4. StartRequest(w, ss, s, r)
  OBVIOUS
<1>. HIDE DEF r, w
<1>. QED BY <1>1, <1>2, <1>3, <1>4, StartStep DEF Takes

LEMMA NormalStep ==
    ASSUME Keyed(saved), NEW a, Good(a.nat, req, a.ses), Spared(a.nat),
           NEW kind \in TextKinds, NEW e \in Sessions \cup {NoSession},
           Takes(a.ses, a.seq, e),
           NEW p \in Lists, p # <<>>, Long(kind, Len(p)),
           AdmitNormal(kind, e, p, a)
    PROVE  KvInv' /\ Quiet
<1>. DEFINE n == a.nat
            ss == a.ses
            s == a.seq
<1>1. CASE StartCold(a.nat, a.ses, a.seq, kind, e, p)
  <2>. SUFFICES ASSUME StartCold(n, ss, s, kind, e, p), Good(n, req, ss), Spared(n), Takes(ss, s, e)
                PROVE  KvInv' /\ Quiet
    BY <1>1
  <2>. HIDE DEF n, ss, s
  <2>. QED BY ColdStep
<1>2. CASE \E r \in saved :
             /\ IsPrefix(r.key, p)
             /\ LET w == Resume(Unpack(a.nat, a.seq, r.kv), a.seq, kind, e, r.key, p)
                IN  StartRequest(w.nat, a.ses, a.seq, w.req)
  <2>1. PICK r \in saved :
             /\ IsPrefix(r.key, p)
             /\ LET w == Resume(Unpack(a.nat, a.seq, r.kv), a.seq, kind, e, r.key, p)
                IN  StartRequest(w.nat, a.ses, a.seq, w.req)
    BY <1>2
  <2>. DEFINE c == r.key
              m == Unpack(n, s, c)
  <2>2. r.kv = c /\ c \in Lists /\ IsPrefix(c, p)
    BY <2>1 DEF Keyed
  <2>3. /\ StartRequest(Resume(m, s, kind, e, c, p).nat, ss, s, Resume(m, s, kind, e, c, p).req)
        /\ Good(n, req, ss) /\ Spared(n) /\ Takes(ss, s, e)
    BY <2>1, <2>2
  <2>. HIDE DEF n, ss, s, c
  <2>4. n \in Contexts /\ s \in Seqs
    BY <2>3 DEF Good, Takes
  <2>5. m \in Contexts /\ Elsewhere(n, m, s) /\ m.kv[s] = c /\ m.pos[s] = Len(c)
    BY <2>2, <2>4, UnpackIs
  <2>. HIDE DEF m
  <2>. QED BY <2>2, <2>3, <2>5, WarmStep
<1>. QED BY <1>1, <1>2 DEF AdmitNormal


(* An idle pin is free for the next request of its session. *)
LEMMA PinTakes ==
    ASSUME Good(nat, req, ses), NEW e \in Pins
    PROVE  /\ e \in Sessions /\ ses[e].seq \in Seqs /\ ses[e].seq # -1
           /\ req[ses[e].seq].kind = "none"
           /\ Takes(ses, ses[e].seq, e)
           /\ ses[e].toks \in Lists /\ nat.kv[ses[e].seq] = ses[e].toks
           /\ nat.pos[ses[e].seq] = Len(ses[e].toks)
<1>1. e \in Sessions /\ ses[e].seq # -1 /\ ses[e].seq \notin InFlight
  BY DEF Pins, Pinned
<1>2. ses[e].seq \in Seqs /\ ses[e].toks \in Lists
  BY <1>1 DEF Good, PinSet
<1>3. req[ses[e].seq].kind = "none"
  BY <1>1, <1>2 DEF InFlight
<1>4. Owned(req, ses)
  BY DEF Good
<1>5. Takes(ses, ses[e].seq, e)
  <2>1. \A f \in Sessions : ses[f].seq = ses[e].seq => e = f
    BY <1>1, <1>4 DEF Owned
  <2>2. \A t \in Seqs : req[t].kind # "none" => req[t].session # e
    BY <1>1, <1>3, <1>4 DEF Owned
  <2>. QED BY <1>2, <1>3, <2>1, <2>2 DEF Takes
<1>6. Holds(nat, req, ses, ses[e].seq)
  BY <1>2 DEF Good
<1>. QED BY <1>1, <1>2, <1>3, <1>5, <1>6 DEF Holds

LEMMA NothingSpared == Spared(nat) /\ \A s \in Seqs : Elsewhere(nat, nat, s)
BY DEF Spared, Elsewhere

LEMMA PromptIs ==
    ASSUME SavesWhole, NEW kind \in TextKinds, NEW p \in Prompts
    PROVE  p \in Lists /\ p # <<>> /\ Long(kind, Len(p))
<1>1. kind \in Kinds /\ p \in Prompts \cup Tails
  BY DEF TextKinds
<1>2. Long(kind, Len(p))
  BY <1>1, PromptsLong
<1>. QED BY <1>2, ListsAre, InputsAssumption

LEMMA AdmitNewStep ==
    ASSUME SavesWhole, KvInv, NEW kind \in TextKinds, NEW e \in Sessions \cup {NoSession},
           NEW p \in Prompts, AdmitNew(kind, e, p)
    PROVE  KvInv' /\ Quiet
<1>0. Good(nat, req, ses) /\ Keyed(saved)
  BY DEF KvInv
<1>1. PICK a \in Allocs(NoSession) : AdmitNormal(kind, e, p, a)
  BY DEF AdmitNew
<1>2. p \in Lists /\ p # <<>> /\ Long(kind, Len(p))
  BY PromptIs
<1>3. /\ a.seq \in Seqs /\ Good(a.nat, req, a.ses)
      /\ req[a.seq].kind = "none" /\ \A f \in Sessions : a.ses[f].seq # a.seq
      /\ \A f \in Sessions : a.ses[f] = ses[f] \/ a.ses[f] = NoPin
      /\ Spared(a.nat)
  BY <1>0, AllocGood DEF Spared
<1>4. Takes(a.ses, a.seq, e)
  <2>1. CASE e = NoSession
    BY <1>3, <2>1 DEF Takes
  <2>2. CASE e # NoSession
    <3>1. e \in Sessions /\ ses[e].seq = -1 /\ NoPin.seq = -1
      BY <2>2 DEF AdmitNew, Pinned, NoPin
    <3>2. \A t \in Seqs : req[t].kind # "none" => req[t].session # e
      BY <2>2 DEF AdmitNew, SessionFree, InFlight
    <3>. QED BY <1>3, <3>1, <3>2 DEF Takes
  <2>. QED BY <2>1, <2>2
<1>. QED BY <1>0, <1>1, <1>2, <1>3, <1>4, NormalStep

LEMMA AdmitStickyStep ==
    ASSUME SavesWhole, KvInv, NEW kind \in TextKinds, NEW e \in Sessions,
           NEW p \in Prompts, AdmitSticky(kind, e, p)
    PROVE  KvInv' /\ Quiet
<1>. DEFINE s == ses[e].seq
            c == ses[e].toks
            d == SubSeq(p, Len(c) + 1, Len(p))
            r == Request(kind, e, c, d)
<1>0. Good(nat, req, ses) /\ Keyed(saved) /\ nat \in Contexts
  BY DEF KvInv, Good
<1>1. e \in Pins /\ IsPrefix(c, p) /\ StartRequest(nat, ses, s, r)
  BY DEF AdmitSticky
<1>2. p \in Lists /\ p # <<>> /\ Long(kind, Len(p))
  BY PromptIs
<1>3. s \in Seqs /\ Takes(ses, s, e) /\ c \in Lists /\ nat.kv[s] = c /\ nat.pos[s] = Len(c)
  BY <1>0, <1>1, PinTakes
<1>4. d \in Lists /\ Len(d) = Len(p) - Len(c) /\ Len(c) \in 0 .. Len(p)
  BY <1>1, <1>2, <1>3, PrefixSplits
<1>5. Len(p) \in Nat /\ Len(c) \in Nat
  BY <1>2, <1>3, Joined
<1>6. Len(c) + Len(d) = Len(p)
  <2>. HIDE DEF c, d
  <2>. QED BY <1>4, <1>5
<1>7. d # <<>> \/ "empty_suffix" \in Risky
  <2>1. Len(p) > Len(c) \/ "empty_suffix" \in Risky
    BY DEF AdmitSticky
  <2>2. Len(<<>>) = 0
    BY ListsAre, Joined
  <2>. HIDE DEF c, d
  <2>. QED BY <1>4, <1>5, <2>1, <2>2
<1>. HIDE DEF s, c, d
<1>8. Starts(r, kind, e, c, d)
  <2>1. Long(kind, Len(c) + Len(d))
    BY <1>2, <1>6
  <2>. QED BY <1>3, <1>4, <2>1, RequestIs
<1>. HIDE DEF r
<1>9. Spared(nat) /\ Elsewhere(nat, nat, s)
  BY <1>3, NothingSpared
<1>10. /\ r \in Requests /\ Shape(r) /\ Thrifty(r) /\ Cells(r) = c
       /\ r.kind # "none" /\ r.session = e /\ r.cursor = d
  BY <1>8 DEF Starts
<1>. QED BY <1>0, <1>1, <1>3, <1>7, <1>9, <1>10, StartStep DEF Takes

LEMMA AdmitContinueStep ==
    ASSUME SavesWhole, KvInv, NEW kind \in TextKinds, NEW e \in Sessions,
           NEW d \in Tails, AdmitContinue(kind, e, d)
    PROVE  KvInv' /\ Quiet
<1>. DEFINE s == ses[e].seq
            c == ses[e].toks
            r == Request(kind, e, c, d)
<1>0. Good(nat, req, ses) /\ Keyed(saved) /\ nat \in Contexts
  BY DEF KvInv, Good
<1>1. e \in Pins /\ StartRequest(nat, ses, s, r) /\ (d # <<>> \/ "empty_suffix" \in Risky)
  BY DEF AdmitContinue
<1>2. s \in Seqs /\ Takes(ses, s, e) /\ c \in Lists /\ nat.kv[s] = c /\ nat.pos[s] = Len(c)
  BY <1>0, <1>1, PinTakes
<1>. HIDE DEF s, c
<1>3. d \in Lists /\ Len(d) \in Nat /\ Len(c) \in Nat
  BY <1>2, ListsAre, Joined
<1>4. Long(kind, Len(c) + Len(d))
  <2>1. kind \in Kinds
    BY DEF TextKinds
  <2>2. Long(kind, Len(d))
    BY <2>1, PromptsLong
  <2>. QED BY <1>3, <2>2, SizesAre DEF Long
<1>5. Starts(r, kind, e, c, d)
  BY <1>2, <1>3, <1>4, RequestIs
<1>. HIDE DEF r
<1>6. Spared(nat) /\ Elsewhere(nat, nat, s)
  BY <1>2, NothingSpared
<1>7. /\ r \in Requests /\ Shape(r) /\ Thrifty(r) /\ Cells(r) = c
      /\ r.kind # "none" /\ r.session = e /\ r.cursor = d
  BY <1>5 DEF Starts
<1>. QED BY <1>0, <1>1, <1>2, <1>6, <1>7, StartStep DEF Takes


LEMMA AdmitDivergedStep ==
    ASSUME SavesWhole, KvInv, NEW kind \in TextKinds, NEW e \in Sessions,
           NEW p \in Prompts, AdmitDiverged(kind, e, p)
    PROVE  KvInv' /\ Quiet
<1>. DEFINE s == ses[e].seq
            x == ses[e].toks
            l == Len(LongestCommonPrefix({x, p}))
            c == SubSeq(p, 1, l)
            m == Trim(nat, s, l)
<1>0. Good(nat, req, ses) /\ Keyed(saved) /\ nat \in Contexts /\ Spared(nat)
  BY NothingSpared DEF KvInv, Good
<1>1. e \in Pins
  BY DEF AdmitDiverged
<1>2. p \in Lists /\ p # <<>> /\ Long(kind, Len(p))
  BY PromptIs
<1>3. /\ s \in Seqs /\ s # -1 /\ req[s].kind = "none" /\ Takes(ses, s, e)
      /\ x \in Lists /\ nat.kv[s] = x /\ nat.pos[s] = Len(x)
  BY <1>0, <1>1, PinTakes
<1>4. l \in 0 .. Len(x) /\ l \in 0 .. Len(p) /\ SubSeq(x, 1, l) = c
  BY <1>2, <1>3, CommonPrefixIs
<1>5. \/ StartRequest(Resume(m, s, kind, e, c, p).nat, ses, s, Resume(m, s, kind, e, c, p).req)
      \/ StartCold(nat, ses, s, kind, e, p)
      \/ \E t \in IdleSeqs \cup {s} :
            AdmitNormal(kind, e, p, [seq |-> t, nat |-> DropPin(e), ses |-> Unpin(e)])
  BY DEF AdmitDiverged
<1>6. CASE StartRequest(Resume(m, s, kind, e, c, p).nat, ses, s, Resume(m, s, kind, e, c, p).req)
  <2>1. c \in Lists /\ Len(c) = l
    BY <1>2, <1>4, Cut
  <2>. HIDE DEF x, s, l
  <2>2. IsPrefix(c, p)
    <3>1. Len(p) \in Nat
      BY <1>2, Joined
    <3>2. l <= Len(p)
      BY <1>4, <3>1
    <3>3. c \in Seq(Cell)
      BY <2>1, ListsAre
    <3>4. SubSeq(c, 1, Len(c)) = c
      BY <3>3, SubSeqFull
    <3>. QED BY <2>1, <3>2, <3>4 DEF IsPrefix
  <2>3. l \in 0 .. Len(nat.kv[s])
    BY <1>3, <1>4
  <2>4. m \in Contexts /\ Elsewhere(nat, m, s) /\ m.kv[s] = c /\ m.pos[s] = Len(c)
    BY <1>0, <1>3, <1>4, <2>1, <2>3, TrimIs
  <2>5. StartRequest(Resume(m, s, kind, e, c, p).nat, ses, s, Resume(m, s, kind, e, c, p).req)
    BY <1>6
  <2>. HIDE DEF c, m
  <2>. QED BY <1>0, <1>2, <1>3, <2>1, <2>2, <2>4, <2>5, WarmStep
<1>7. CASE StartCold(nat, ses, s, kind, e, p)
  <2>. HIDE DEF s
  <2>. QED BY <1>0, <1>2, <1>3, <1>7, ColdStep
<1>8. CASE \E t \in IdleSeqs \cup {s} :
            AdmitNormal(kind, e, p, [seq |-> t, nat |-> DropPin(e), ses |-> Unpin(e)])
  <2>1. PICK t \in IdleSeqs \cup {s} :
            AdmitNormal(kind, e, p, [seq |-> t, nat |-> DropPin(e), ses |-> Unpin(e)])
    BY <1>8
  <2>. DEFINE a == [seq |-> t, nat |-> DropPin(e), ses |-> Unpin(e)]
  <2>2. /\ Good(DropPin(e), req, Unpin(e))
        /\ \A f \in Sessions : Unpin(e)[f].seq # s
        /\ \A f \in Sessions : Unpin(e)[f] = IF f = e THEN NoPin ELSE ses[f]
        /\ Elsewhere(nat, DropPin(e), s)
    BY <1>0, <1>3, DropGood
  <2>3. t \in Seqs /\ req[t].kind = "none" /\ (t # s => \A f \in Sessions : ses[f].seq # t)
    BY <1>3 DEF IdleSeqs, InFlight
  <2>4. Spared(DropPin(e))
    BY <1>3, <2>2 DEF Spared, Elsewhere
  <2>5. NoPin.seq = -1 /\ t # -1
    BY <2>3, SizesAre DEF NoPin
  <2>6. \A u \in Seqs : req[u].kind # "none" => req[u].session # e
    BY <1>3, SizesAre DEF Takes
  <2>7. Takes(Unpin(e), t, e)
    BY <2>2, <2>3, <2>5, <2>6 DEF Takes
  <2>8. a.seq = t /\ a.nat = DropPin(e) /\ a.ses = Unpin(e) /\ AdmitNormal(kind, e, p, a)
    BY <2>1
  <2>. HIDE DEF a
  <2>9. Good(a.nat, req, a.ses) /\ Spared(a.nat) /\ Takes(a.ses, a.seq, e)
    BY <2>2, <2>4, <2>7, <2>8
  <2>. QED BY <1>0, <1>2, <2>8, <2>9, NormalStep
<1>. QED BY <1>5, <1>6, <1>7, <1>8

LEMMA AdmitMediaStep ==
    ASSUME KvInv, "media" \in Kinds, AdmitMedia
    PROVE  KvInv' /\ Quiet
<1>. DEFINE r == [Request("media", NoSession, <<>>, <<>>) EXCEPT !.pending = TRUE]
<1>0. Good(nat, req, ses) /\ Keyed(saved)
  BY DEF KvInv
<1>1. PICK a \in Allocs(NoSession) : StartRequest(a.nat, a.ses, a.seq, r)
  BY DEF AdmitMedia
<1>2. /\ NoReq \in Requests /\ NoReq.rest = <<>> /\ NoReq.gen = 0 /\ NoReq.ctx = <<>>
      /\ NoReq.cursor = <<>> /\ ~NoReq.ladder /\ ~NoReq.finishing
  BY NoReqIs DEF NoReq
<1>3. /\ r \in Requests /\ r.kind = "media" /\ r.session = NoSession /\ r.ctx = <<>>
      /\ r.cursor = <<>> /\ r.rest = <<>> /\ r.gen = 0 /\ r.pending
      /\ ~r.ladder /\ ~r.finishing
  <2>. DEFINE q == [NoReq EXCEPT !.kind = "media", !.session = NoSession,
                                 !.ctx = <<>>, !.cursor = <<>>]
  <2>1. r = [q EXCEPT !.pending = TRUE]
    BY DEF Request
  <2>. HIDE DEF r
  <2>2. /\ q \in Requests /\ q.kind = "media" /\ q.session = NoSession /\ q.ctx = <<>>
        /\ q.cursor = <<>> /\ q.rest = <<>> /\ q.gen = 0 /\ ~q.ladder /\ ~q.finishing
    BY <1>2, ListsAre DEF Requests
  <2>. HIDE DEF q
  <2>. QED BY <2>1, <2>2 DEF Requests
<1>. HIDE DEF r
<1>4. Shape(r) /\ Thrifty(r) /\ Cells(r) = <<>>
  BY <1>3, SizesAre DEF Shape, Thrifty, Cells
<1>5. /\ a.seq \in Seqs /\ Good(a.nat, req, a.ses)
      /\ req[a.seq].kind = "none" /\ \A f \in Sessions : a.ses[f].seq # a.seq
      /\ Spared(a.nat)
  BY <1>0, AllocGood DEF Spared
<1>6. /\ a.nat \in Contexts /\ Elsewhere(a.nat, a.nat, a.seq)
      /\ a.nat.kv[a.seq] = <<>> /\ a.nat.pos[a.seq] = Len(a.nat.kv[a.seq])
  BY <1>5 DEF Good, Holds, Elsewhere
<1>. DEFINE n == a.nat
            ss == a.ses
            s == a.seq
<1>7. /\ s \in Seqs /\ Good(n, req, ss) /\ req[s].kind = "none" /\ Spared(n)
      /\ \A f \in Sessions : ss[f].seq = s => r.session = f
      /\ n \in Contexts /\ Elsewhere(n, n, s) /\ n.kv[s] = Cells(r) /\ n.pos[s] = Len(n.kv[s])
      /\ StartRequest(n, ss, s, r)
  BY <1>1, <1>4, <1>5, <1>6
<1>8. r.kind # "none"
  BY <1>3
<1>. HIDE DEF n, ss, s
<1>. QED BY <1>0, <1>3, <1>4, <1>7, <1>8, StartStep


-----------------------------------------------------------------------------
(* Sessions, cancels, evictions and failures.                              *)

LEMMA EndSessionStep ==
    ASSUME KvInv, NEW e \in Sessions, EndSession(e)
    PROVE  KvInv' /\ Quiet
<1>0. Good(nat, req, ses) /\ Keyed(saved)
  BY DEF KvInv
<1>1. /\ e \in Pins /\ nat' = DropPin(e) /\ ses' = Unpin(e) /\ rows' = rows /\ req' = req
      /\ saved' = saved /\ up' = up /\ admitted' = admitted
  BY DEF EndSession
<1>2. ses[e].seq \in Seqs /\ ses[e].seq # -1 /\ req[ses[e].seq].kind = "none"
  BY <1>0, <1>1, PinTakes
<1>3. Good(DropPin(e), req, Unpin(e)) /\ Elsewhere(nat, DropPin(e), ses[e].seq)
  BY <1>0, <1>2, DropGood
<1>4. KvInv'
  BY <1>0, <1>1, <1>3 DEF KvInv
<1>5. Quiet
  BY <1>1, <1>2, <1>3 DEF Quiet, Elsewhere, Decodes
<1>. QED BY <1>4, <1>5

LEMMA ResetSessionStep ==
    ASSUME KvInv, NEW e \in Sessions, ResetSession(e)
    PROVE  KvInv' /\ Quiet
<1>. DEFINE s == ses[e].seq
<1>0. /\ Good(nat, req, ses) /\ Keyed(saved) /\ nat \in Contexts /\ Owned(req, ses)
      /\ req \in [Seqs -> Requests] /\ ses \in [Sessions -> PinSet]
  BY DEF KvInv, Good
<1>1. /\ s # -1 /\ nat' = Clear(nat, s) /\ ses' = [ses EXCEPT ![e] = NoPin] /\ rows' = rows
      /\ req' = [req EXCEPT ![s] = NoReq] /\ saved' = saved /\ up' = up /\ admitted' = admitted
  BY DEF ResetSession, Pinned, DropPin, Unpin
<1>2. s \in Seqs
  BY <1>0, <1>1 DEF PinSet
<1>. HIDE DEF s
<1>3. /\ nat' \in Contexts /\ Elsewhere(nat, nat', s)
      /\ nat'.kv[s] = <<>> /\ nat'.pos[s] = 0 /\ nat'.lli[s] = LogitsNone
  BY <1>0, <1>1, <1>2, ClearIs
<1>4. /\ req' \in [Seqs -> Requests]
      /\ \A t \in Seqs : req'[t] = IF t = s THEN NoReq ELSE req[t]
  BY <1>0, <1>1, <1>2, NoReqIs
<1>5. /\ ses' \in [Sessions -> PinSet] /\ NoPin.seq = -1
      /\ \A f \in Sessions : ses'[f] = IF f = e THEN NoPin ELSE ses[f]
  BY <1>0, <1>1, ListsAre DEF NoPin, PinSet
<1>6. \A f \in Sessions : ses'[f].seq # s
  BY <1>0, <1>1, <1>5 DEF Owned, s
<1>7. Owned(req', ses')
  <2>1. \A f, g \in Sessions : ses'[f].seq = ses'[g].seq /\ ses'[f].seq # -1 => f = g
    BY <1>0, <1>5 DEF Owned
  <2>2. \A f \in Sessions, t \in Seqs :
           req'[t].kind # "none" /\ ses'[f].seq = t => req'[t].session = f
    BY <1>0, <1>4, <1>5, <1>6, SizesAre DEF Owned
  <2>3. \A f \in Sessions, t \in Seqs :
           req'[t].session = f /\ ses'[f].seq # -1 => ses'[f].seq = t
    BY <1>0, <1>4, <1>5, NoReqIs, SizesAre DEF Owned
  <2>4. \A t, u \in Seqs : req'[t].session = req'[u].session /\ req'[t].session # NoSession
                           => t = u
    BY <1>0, <1>4, NoReqIs DEF Owned
  <2>. QED BY <2>1, <2>2, <2>3, <2>4 DEF Owned
<1>8. ASSUME NEW t \in Seqs PROVE Holds(nat', req', ses', t)
  <2>0. Holds(nat, req, ses, t)
    BY <1>0 DEF Good
  <2>1. CASE t = s
    BY <1>3, <1>6, <2>1, <1>4, NoReqIs, ListsAre, Joined DEF Holds
  <2>2. CASE t # s
    <3>1. nat'.kv[t] = nat.kv[t] /\ nat'.pos[t] = nat.pos[t] /\ nat'.lli[t] = nat.lli[t]
      BY <1>3, <2>2 DEF Elsewhere
    <3>2. \A f \in Sessions : ses'[f].seq = t => ses[f].seq = t /\ ses'[f].toks = ses[f].toks
      BY <1>5, SizesAre
    <3>3. \A f \in Sessions : ses[f].seq = t => ses'[f].seq = t
      BY <1>5, <2>2 DEF s
    <3>4. req'[t] = req[t]
      BY <1>4, <2>2
    <3>. QED BY <2>0, <3>1, <3>2, <3>3, <3>4 DEF Holds
  <2>. QED BY <2>1, <2>2
<1>9. \A t \in Seqs : Shape(req'[t]) /\ Thrifty(req'[t])
  BY <1>0, <1>4, NoReqIs DEF Good
<1>10. KvInv'
  BY <1>0, <1>1, <1>3, <1>4, <1>5, <1>7, <1>8, <1>9 DEF KvInv, Good
<1>11. Quiet
  BY <1>1, <1>2, <1>3, <1>4, NoReqIs DEF Quiet, Elsewhere, Decodes
<1>. QED BY <1>10, <1>11

(* A session is pinned to a free seq that holds its tokens. *)
LEMMA PinGood ==
    ASSUME NEW n, NEW ss, Good(n, req, ss), NEW s \in Seqs, req[s].kind = "none",
           \A g \in Sessions : ss[g].seq # s,
           NEW f \in Sessions, ss[f].seq = -1,
           \A t \in Seqs : req[t].kind # "none" => req[t].session # f,
           NEW m \in Contexts, Elsewhere(n, m, s), m.pos[s] = Len(m.kv[s]),
           NEW c \in Lists, m.kv[s] = c
    PROVE  Good(m, req, [ss EXCEPT ![f] = [seq |-> s, toks |-> c]])
<1>. DEFINE tt == [ss EXCEPT ![f] = [seq |-> s, toks |-> c]]
<1>0. /\ req \in [Seqs -> Requests] /\ ss \in [Sessions -> PinSet] /\ Owned(req, ss)
      /\ \A t \in Seqs : Shape(req[t]) /\ Thrifty(req[t])
      /\ \A t \in Seqs : Holds(n, req, ss, t)
  BY DEF Good
<1>1. /\ tt \in [Sessions -> PinSet]
      /\ \A g \in Sessions : g # f => tt[g] = ss[g]
      /\ tt[f].seq = s /\ tt[f].toks = c
  <2>1. [seq |-> s, toks |-> c] \in PinSet
    BY DEF PinSet
  <2>. QED BY <1>0, <2>1
<1>. HIDE DEF tt
<1>2. \A t \in Seqs : req[t].kind = "none" => req[t].session = NoSession
  BY <1>0, NoReqIs DEF Shape
<1>3. Owned(req, tt)
  <2>1. \A e, g \in Sessions : tt[e].seq = tt[g].seq /\ tt[e].seq # -1 => e = g
    BY <1>0, <1>1 DEF Owned
  <2>2. \A e \in Sessions, t \in Seqs : req[t].kind # "none" /\ tt[e].seq = t => req[t].session = e
    BY <1>0, <1>1 DEF Owned
  <2>3. \A e \in Sessions, t \in Seqs : req[t].session = e /\ tt[e].seq # -1 => tt[e].seq = t
    BY <1>0, <1>1, <1>2, SizesAre DEF Owned
  <2>4. \A t, u \in Seqs : req[t].session = req[u].session /\ req[t].session # NoSession => t = u
    BY <1>0 DEF Owned
  <2>. QED BY <2>1, <2>2, <2>3, <2>4 DEF Owned
<1>4. ASSUME NEW t \in Seqs PROVE Holds(m, req, tt, t)
  <2>0. Holds(n, req, ss, t)
    BY <1>0
  <2>1. CASE t = s
    BY <1>1, <2>1 DEF Holds
  <2>2. CASE t # s
    <3>1. m.kv[t] = n.kv[t] /\ m.pos[t] = n.pos[t] /\ m.lli[t] = n.lli[t]
      BY <2>2 DEF Elsewhere
    <3>2. \A g \in Sessions : tt[g].seq = t => g # f /\ tt[g] = ss[g]
      BY <1>1, <2>2
    <3>3. \A g \in Sessions : ss[g].seq = t => tt[g] = ss[g]
      BY <1>1, SizesAre
    <3>. QED BY <2>0, <3>1, <3>2, <3>3 DEF Holds
  <2>. QED BY <2>1, <2>2
<1>5. Good(m, req, tt)
  BY <1>0, <1>1, <1>3, <1>4 DEF Good
<1>. QED BY <1>5 DEF tt

LEMMA ForkSessionStep ==
    ASSUME KvInv, NEW e \in Sessions, NEW f \in Sessions, ForkSession(e, f)
    PROVE  KvInv' /\ Quiet
<1>0. Good(nat, req, ses) /\ Keyed(saved)
  BY DEF KvInv
<1>1. /\ e \in Pins /\ ses[f].seq = -1 /\ rows' = rows /\ req' = req /\ saved' = saved
      /\ up' = up /\ admitted' = admitted
      /\ \A t \in Seqs : req[t].kind # "none" => req[t].session # f
  BY InputsAssumption DEF ForkSession, Pinned, SessionFree, InFlight
<1>2. PICK a \in Allocs(e) :
         LET copied == a.nat.kv[ses[e].seq] # <<>> IN
         /\ nat' = IF copied THEN Copy(a.nat, ses[e].seq, a.seq) ELSE a.nat
         /\ ses' = IF copied
                   THEN [a.ses EXCEPT ![f] = [seq |-> a.seq, toks |-> ses[e].toks]]
                   ELSE a.ses
  BY DEF ForkSession
<1>. DEFINE n == a.nat
            ss == a.ses
            s == a.seq
            x == ses[e].seq
            c == ses[e].toks
<1>3. /\ s \in Seqs /\ Good(n, req, ss)
      /\ req[s].kind = "none" /\ \A g \in Sessions : ss[g].seq # s
      /\ \A g \in Sessions : ss[g] = ses[g] \/ ss[g] = NoPin
      /\ ss[e] = ses[e]
      /\ Spared(n)
  BY <1>0, AllocGood DEF Spared
<1>4. x \in Seqs /\ req[x].kind = "none" /\ c \in Lists
  BY <1>0, <1>1, PinTakes
<1>5. CASE n.kv[x] # <<>>
  <2>1. nat' = Copy(n, x, s) /\ ses' = [ss EXCEPT ![f] = [seq |-> s, toks |-> c]]
    BY <1>2, <1>5
  <2>2. n.kv[x] = c /\ n.pos[x] = Len(c) /\ n \in Contexts
    BY <1>3, <1>4 DEF Good, Holds
  <2>3. ss[f].seq = -1
    BY <1>1, <1>3 DEF NoPin
  <2>. HIDE DEF n, ss, s, x, c
  <2>. DEFINE m == Copy(n, x, s)
  <2>4. m \in Contexts /\ Elsewhere(n, m, s) /\ m.kv[s] = c /\ m.pos[s] = Len(m.kv[s])
    BY <1>3, <1>4, <2>2, CopyIs
  <2>5. nat' = m
    BY <2>1
  <2>. HIDE DEF m
  <2>6. Good(m, req, [ss EXCEPT ![f] = [seq |-> s, toks |-> c]])
    BY <1>1, <1>3, <1>4, <2>3, <2>4, PinGood
  <2>7. KvInv'
    BY <1>0, <1>1, <2>1, <2>5, <2>6 DEF KvInv
  <2>8. Quiet
    BY <1>1, <1>3, <2>4, <2>5 DEF Quiet, Elsewhere, Decodes, Spared
  <2>. QED BY <2>7, <2>8
<1>6. CASE n.kv[x] = <<>>
  <2>1. nat' = n /\ ses' = ss
    BY <1>2, <1>6
  <2>2. KvInv'
    BY <1>0, <1>1, <1>3, <2>1 DEF KvInv
  <2>3. Quiet
    BY <1>1, <1>3, <2>1 DEF Quiet, Decodes, Spared
  <2>. QED BY <2>2, <2>3
<1>. QED BY <1>5, <1>6


LEMMA CancelStep ==
    ASSUME KvInv, NEW s \in Seqs, Cancel(s)
    PROVE  KvInv' /\ Quiet
<1>0. /\ Good(nat, req, ses) /\ Keyed(saved) /\ nat \in Contexts /\ req \in [Seqs -> Requests]
      /\ \A t \in Seqs : Shape(req[t]) /\ Thrifty(req[t]) /\ Holds(nat, req, ses, t)
  BY DEF KvInv, Good
<1>1. /\ nat' = nat /\ ses' = ses /\ rows' = rows /\ saved' = saved
      /\ req' = [req EXCEPT ![s].finishing = TRUE] /\ req[s].kind # "none"
      /\ up' = up /\ admitted' = admitted
  BY DEF Cancel, Active, InFlight
<1>. DEFINE r == [req[s] EXCEPT !.finishing = TRUE]
<1>2. /\ r \in Requests /\ r.kind = req[s].kind /\ r.session = req[s].session
      /\ r.ctx = req[s].ctx /\ r.cursor = req[s].cursor /\ r.rest = req[s].rest
      /\ r.ladder = req[s].ladder /\ r.gen = req[s].gen /\ r.pending = req[s].pending
      /\ r.finishing
  BY <1>0 DEF Requests
<1>3. req' \in [Seqs -> Requests] /\ \A t \in Seqs : req'[t] = IF t = s THEN r ELSE req[t]
  BY <1>0, <1>1, <1>2
<1>. HIDE DEF r
<1>4. Shape(r) /\ Thrifty(r) /\ Cells(r) = Cells(req[s])
  BY <1>0, <1>1, <1>2 DEF Shape, Thrifty, Cells
<1>5. \A t \in Seqs : /\ Shape(req'[t]) /\ Thrifty(req'[t]) /\ req'[t].kind = req[t].kind
                      /\ req'[t].session = req[t].session
                      /\ Cells(req'[t]) = Cells(req[t])
  BY <1>0, <1>2, <1>3, <1>4
<1>6. Good(nat, req', ses)
  BY <1>0, <1>3, <1>5, TickGood DEF Holds
<1>7. KvInv'
  BY <1>0, <1>1, <1>6 DEF KvInv
<1>8. Quiet
  BY <1>1, <1>2, <1>3 DEF Quiet, Decodes
<1>. QED BY <1>7, <1>8

LEMMA EvictStep ==
    ASSUME SavesWhole, KvInv, Evict
    PROVE  KvInv' /\ Quiet
<1>. DEFINE S == {s \in InFlight : req[s].ctx # <<>>}
            new == {Row(req[s].ctx, nat.kv[s]) : s \in S}
<1>0. /\ Good(nat, req, ses) /\ Keyed(saved) /\ nat \in Contexts /\ req \in [Seqs -> Requests]
      /\ \A t \in Seqs : Shape(req[t]) /\ Thrifty(req[t]) /\ Holds(nat, req, ses, t)
  BY DEF KvInv, Good
<1>1. /\ nat' = nat /\ ses' = ses /\ rows' = rows /\ saved' = Save(saved, new)
      /\ req' = [s \in Seqs |-> IF s \in S THEN [req[s] EXCEPT !.lastSave = Len(req[s].ctx)]
                                ELSE req[s]]
      /\ up' = up /\ admitted' = admitted
      /\ \A s \in InFlight : req[s].kind # "media"
  BY DEF Evict, SavesWhole
<1>2. Keyed(new)
  <2>. SUFFICES ASSUME NEW s \in S
                PROVE  LET r == Row(req[s].ctx, nat.kv[s]) IN r.key \in Lists /\ r.kv = r.key
    BY DEF Keyed
  <2>1. s \in Seqs /\ req[s].kind # "none" /\ req[s].kind # "media"
    BY <1>1 DEF InFlight
  <2>2. nat.kv[s] = req[s].ctx /\ req[s].ctx \in Lists
    BY <1>0, <2>1 DEF Holds, Cells, Requests
  <2>. QED BY <2>2, RowKeyed
<1>3. Keyed(saved')
  <2>. HIDE DEF new
  <2>. QED BY <1>0, <1>1, <1>2, SaveKeyed
<1>4. ASSUME NEW t \in Seqs
      PROVE  LET r == req'[t] IN
             /\ r \in Requests /\ r.kind = req[t].kind /\ r.session = req[t].session
             /\ r.finishing = req[t].finishing /\ r.cursor = req[t].cursor
             /\ r.pending = req[t].pending
             /\ Shape(r) /\ Thrifty(r) /\ Cells(r) = Cells(req[t])
  <2>1. CASE t \notin S
    BY <1>0, <1>1, <2>1
  <2>2. CASE t \in S
    <3>. DEFINE q == req[t]
                r == [q EXCEPT !.lastSave = Len(q.ctx)]
    <3>0. q \in Requests /\ Shape(q) /\ Thrifty(q) /\ q.kind # "none" /\ req'[t] = r
      BY <1>0, <1>1, <2>2 DEF InFlight
    <3>. HIDE DEF q
    <3>1. Len(q.ctx) \in Nat /\ q.gen \in Nat
      BY <3>0, Joined, SizesAre DEF Requests
    <3>2. /\ r \in Requests /\ r.kind = q.kind /\ r.session = q.session
          /\ r.ctx = q.ctx /\ r.cursor = q.cursor /\ r.rest = q.rest
          /\ r.ladder = q.ladder /\ r.gen = q.gen /\ r.pending = q.pending
          /\ r.finishing = q.finishing /\ r.lastSave = Len(q.ctx)
      BY <3>0, <3>1 DEF Requests
    <3>. HIDE DEF r
    <3>3. Shape(r) /\ Cells(r) = Cells(q)
      BY <3>0, <3>2 DEF Shape, Cells
    <3>4. Thrifty(r)
      <4>1. Len(q.ctx) <= Len(q.ctx) + q.gen
        BY <3>1
      <4>. QED BY <3>0, <3>2, <4>1, Zenon DEF Thrifty
    <3>. QED BY <3>0, <3>2, <3>3, <3>4 DEF q
  <2>. QED BY <2>1, <2>2
<1>5. req' \in [Seqs -> Requests]
  <2>. DEFINE d(s) == IF s \in S THEN [req[s] EXCEPT !.lastSave = Len(req[s].ctx)] ELSE req[s]
  <2>1. req' = [s \in Seqs |-> d(s)]
    BY <1>1
  <2>. HIDE DEF d
  <2>. QED BY <1>4, <2>1
<1>6. Good(nat, req', ses)
  BY <1>0, <1>4, <1>5, TickGood DEF Holds
<1>7. KvInv'
  BY <1>1, <1>3, <1>6 DEF KvInv
<1>8. Quiet
  BY <1>1, <1>4 DEF Quiet, Decodes
<1>. QED BY <1>7, <1>8

(* A context made anew, with nobody in it. *)
LEMMA FreshGood == Good(FreshContext, [s \in Seqs |-> NoReq], [e \in Sessions |-> NoPin])
<1>. DEFINE rq == [s \in Seqs |-> NoReq]
            ss == [e \in Sessions |-> NoPin]
<1>1. NoPin \in PinSet /\ NoPin.seq = -1
  BY ListsAre DEF NoPin, PinSet
<1>2. /\ rq \in [Seqs -> Requests] /\ ss \in [Sessions -> PinSet]
      /\ \A s \in Seqs : rq[s] = NoReq
      /\ \A e \in Sessions : ss[e].seq = -1
  BY <1>1, NoReqIs
<1>3. Len(<<>>) = 0
  BY ListsAre, Joined
<1>. HIDE DEF rq, ss
<1>4. Owned(rq, ss)
  BY <1>2, NoReqIs, SizesAre DEF Owned
<1>5. \A s \in Seqs : Holds(FreshContext, rq, ss, s)
  BY <1>2, <1>3, NoReqIs, FreshIs, SizesAre DEF Holds
<1>6. Good(FreshContext, rq, ss)
  BY <1>2, <1>4, <1>5, NoReqIs, FreshIs DEF Good
<1>. QED BY <1>6 DEF rq, ss

LEMMA FreshStep ==
    ASSUME KvInv, nat' = FreshContext, saved' = saved,
           req' = [s \in Seqs |-> NoReq], ses' = [e \in Sessions |-> NoPin]
    PROVE  KvInv' /\ \A s \in Seqs : ~Decodes(req'[s])
<1>1. KvInv'
  BY FreshGood DEF KvInv
<1>. QED BY <1>1, NoReqIs DEF Decodes


-----------------------------------------------------------------------------
(* The batch of a tick.                                                    *)

LEMMA DecodersAre ==
    ASSUME Good(nat, req, ses)
    PROVE  /\ \A s \in Seqs : s \in Decoders <=> Decodes(req[s])
           /\ \A s \in Seqs : s \in Fillers <=>
                 req[s].kind # "none" /\ ~req[s].finishing /\ req[s].cursor # <<>>
           /\ Decoders \subseteq Seqs /\ Fillers \subseteq Seqs
           /\ IsFiniteSet(Decoders) /\ Cardinality(Decoders) \in 0 .. NSeqMax
           /\ Cardinality(Decoders) \in 0 .. Budget
<1>1. /\ \A s \in Seqs : s \in Decoders <=> Decodes(req[s])
      /\ \A s \in Seqs : s \in Fillers <=>
            req[s].kind # "none" /\ ~req[s].finishing /\ req[s].cursor # <<>>
      /\ Decoders \subseteq Seqs /\ Fillers \subseteq Seqs
  BY DEF Decoders, Fillers, Active, InFlight, Decodes
<1>2. 0 \in Int /\ NSeqMax - 1 \in Int /\ NSeqMax \in Nat /\ NSeqMax >= 1
  BY SizesAssumption
<1>3. IsFiniteSet(Seqs) /\ Cardinality(Seqs) = NSeqMax
  <2>1. /\ IsFiniteSet(0 .. NSeqMax - 1)
        /\ Cardinality(0 .. NSeqMax - 1) = IF 0 > NSeqMax - 1 THEN 0 ELSE NSeqMax - 1 - 0 + 1
    BY <1>2, FS_Interval
  <2>. QED BY <1>2, <2>1 DEF Seqs
<1>4. IsFiniteSet(Decoders) /\ Cardinality(Decoders) <= Cardinality(Seqs)
  BY <1>1, <1>3, FS_Subset
<1>5. Cardinality(Decoders) \in Nat
  BY <1>4, FS_CardinalityType
<1>6. Cardinality(Decoders) \in 0 .. NSeqMax /\ Cardinality(Decoders) \in 0 .. Budget
  <2>. DEFINE k == Cardinality(Decoders)
  <2>1. k \in Nat /\ k <= NSeqMax
    BY <1>3, <1>4, <1>5
  <2>2. NSeqMax \in Nat /\ Budget \in Nat /\ NSeqMax <= Budget
    BY SizesAssumption
  <2>. HIDE DEF k
  <2>3. k \in 0 .. NSeqMax /\ k \in 0 .. Budget
    BY <2>1, <2>2
  <2>. QED BY <2>3 DEF k
<1>. QED BY <1>1, <1>4, <1>6, Zenon

LEMMA FewerThan ==
    ASSUME NEW S, IsFiniteSet(S), NEW T, T \subseteq S, T # S
    PROVE  /\ IsFiniteSet(T) /\ Cardinality(T) \in Nat /\ Cardinality(S) \in Nat
           /\ Cardinality(T) < Cardinality(S)
<1>1. IsFiniteSet(T) /\ Cardinality(T) <= Cardinality(S) /\ Cardinality(S) # Cardinality(T)
  BY FS_Subset
<1>2. Cardinality(T) \in Nat /\ Cardinality(S) \in Nat
  BY <1>1, FS_CardinalityType
<1>. QED BY <1>1, <1>2

LEMMA CursorsAre ==
    ASSUME Good(nat, req, ses)
    PROVE  \A s \in Seqs : req[s].cursor \in Lists /\ Len(req[s].cursor) \in Nat
<1>1. \A s \in Seqs : req[s].cursor \in Lists
  BY DEF Good, Requests
<1>. QED BY <1>1, Joined

(* The room for prefills only shrinks, and by what each seq takes. *)
LEMMA RoomShrinks ==
    ASSUME Good(nat, req, ses)
    PROVE  /\ \A s \in 0 .. NSeqMax : RoomAt[s] \in 0 .. Budget - Cardinality(Decoders)
           /\ \A s, t \in 0 .. NSeqMax : s <= t => RoomAt[t] <= RoomAt[s]
           /\ \A s \in Fillers :
                 LET m == Min({Len(req[s].cursor), RoomAt[s]}) IN
                 m \in 0 .. Len(req[s].cursor) /\ RoomAt[s + 1] = RoomAt[s] - m
<1>0. /\ Fillers \subseteq Seqs /\ Seqs \subseteq Nat /\ NSeqMax \in Nat /\ Budget \in Nat
      /\ Cardinality(Decoders) \in 0 .. Budget
  BY DecodersAre, SizesAre
<1>1. /\ RoomAt \in [0 .. NSeqMax -> Nat]
      /\ RoomAt[0] = Budget - Cardinality(Decoders)
      /\ \A s \in Seqs :
            RoomAt[s + 1] = IF s \in Fillers THEN RoomAt[s] - Min({Len(req[s].cursor), RoomAt[s]})
                            ELSE RoomAt[s]
  BY <1>0, CursorsAre, RoomAtDef
<1>2. \A s \in Seqs : s \in 0 .. NSeqMax /\ s + 1 \in 0 .. NSeqMax
  BY <1>0 DEF Seqs
<1>3. ASSUME NEW s \in Fillers
      PROVE  LET m == Min({Len(req[s].cursor), RoomAt[s]}) IN
             m \in 0 .. Len(req[s].cursor) /\ RoomAt[s + 1] = RoomAt[s] - m
  <2>. DEFINE a == Len(req[s].cursor)
              b == RoomAt[s]
  <2>1. a \in Nat /\ b \in Nat
    BY <1>0, <1>1, <1>2, CursorsAre
  <2>2. RoomAt[s + 1] = b - Min({a, b})
    BY <1>0, <1>1
  <2>. HIDE DEF a, b
  <2>3. Min({a, b}) = IF a <= b THEN a ELSE b
    BY <2>1, MinOfTwo
  <2>4. Min({a, b}) \in 0 .. a
    BY <2>1, <2>3
  <2>. QED BY <2>2, <2>4 DEF a, b
<1>4. ASSUME NEW s \in Seqs PROVE RoomAt[s + 1] <= RoomAt[s]
  <2>0. RoomAt[s] \in Nat /\ RoomAt[s + 1] \in Nat
    BY <1>1, <1>2
  <2>1. CASE s \in Fillers
    <3>. DEFINE m == Min({Len(req[s].cursor), RoomAt[s]})
    <3>1. m \in 0 .. Len(req[s].cursor) /\ RoomAt[s + 1] = RoomAt[s] - m
      BY <1>3, <2>1
    <3>2. Len(req[s].cursor) \in Nat
      BY CursorsAre
    <3>. HIDE DEF m
    <3>. QED BY <2>0, <3>1, <3>2
  <2>2. CASE s \notin Fillers
    <3>1. RoomAt[s + 1] = RoomAt[s]
      BY <1>1, <2>2
    <3>. QED BY <2>0, <3>1
  <2>. QED BY <2>1, <2>2
<1>5. \A s, t \in 0 .. NSeqMax : s <= t => RoomAt[t] <= RoomAt[s]
  <2>. DEFINE S == {t \in Nat : t <= NSeqMax =>
                       \A s \in 0 .. NSeqMax : s <= t => RoomAt[t] <= RoomAt[s]}
  <2>0. \A s \in 0 .. NSeqMax : RoomAt[s] \in Nat
    BY <1>1
  <2>1. 0 \in S
    BY <2>0
  <2>2. ASSUME NEW t \in Nat, t \in S PROVE t + 1 \in S
    <3>. SUFFICES ASSUME t + 1 <= NSeqMax, NEW s \in 0 .. NSeqMax, s <= t + 1
                  PROVE  RoomAt[t + 1] <= RoomAt[s]
      OBVIOUS
    <3>1. t \in Seqs /\ t <= NSeqMax /\ t \in 0 .. NSeqMax /\ t + 1 \in 0 .. NSeqMax
      BY <1>0 DEF Seqs
    <3>2. RoomAt[t + 1] <= RoomAt[t]
      BY <1>4, <3>1
    <3>3. RoomAt[t] \in Nat /\ RoomAt[t + 1] \in Nat /\ RoomAt[s] \in Nat
      BY <2>0, <3>1
    <3>4. CASE s = t + 1
      BY <3>3, <3>4
    <3>5. CASE s # t + 1
      <4>1. s <= t
        BY <3>5
      <4>2. RoomAt[t] <= RoomAt[s]
        BY <2>2, <3>1, <4>1
      <4>. QED BY <3>2, <3>3, <4>2
    <3>. QED BY <3>4, <3>5
  <2>3. Nat \subseteq S
    <3>. HIDE DEF S
    <3>. QED BY <2>1, <2>2, SetInduction
  <2>. QED BY <1>0, <2>3
<1>6. ASSUME NEW s \in 0 .. NSeqMax PROVE RoomAt[s] \in 0 .. Budget - Cardinality(Decoders)
  <2>1. 0 \in 0 .. NSeqMax /\ 0 <= s
    BY <1>0
  <2>2. RoomAt[s] <= RoomAt[0] /\ RoomAt[s] \in Nat
    BY <1>1, <1>5, <2>1
  <2>. QED BY <1>0, <1>1, <2>2
<1>. QED BY <1>3, <1>5, <1>6

(* What seq s prefills. *)
LEMMA SliceIs ==
    ASSUME Good(nat, req, ses), NEW s \in Filling
    PROVE  /\ s \in Seqs /\ s \in Fillers /\ s \notin Decoders
           /\ Slice(s) \in Lists /\ Len(Slice(s)) \in 1 .. Len(req[s].cursor)
           /\ Slice(s) = SubSeq(req[s].cursor, 1, Len(Slice(s)))
           /\ RoomAt[s + 1] = RoomAt[s] - Len(Slice(s))
<1>. DEFINE m == Min({Len(req[s].cursor), RoomAt[s]})
<1>1. s \in Fillers /\ Slice(s) # <<>> /\ Slice(s) = SubSeq(req[s].cursor, 1, m)
  BY DEF Filling, Slice
<1>2. s \in Seqs /\ s \notin Decoders
  BY <1>1, DecodersAre DEF Decodes
<1>3. req[s].cursor \in Lists /\ Len(req[s].cursor) \in Nat
  BY <1>2, CursorsAre
<1>4. m \in 0 .. Len(req[s].cursor) /\ RoomAt[s + 1] = RoomAt[s] - m
  BY <1>1, RoomShrinks
<1>. HIDE DEF m
<1>5. Slice(s) \in Lists /\ Len(Slice(s)) = m
  BY <1>1, <1>3, <1>4, Cut
<1>6. m # 0
  BY <1>1, <1>5, Joined
<1>7. m \in 1 .. Len(req[s].cursor)
  BY <1>3, <1>4, <1>6
<1>. QED BY <1>1, <1>2, <1>4, <1>5, <1>7

(* The decode rows come first, in seq order, then the ends of the prefill  *)
(* slices: no two seqs share a row.                                        *)
LEMMA RowsApart ==
    ASSUME Good(nat, req, ses)
    PROVE  /\ \A s \in Decoders \cup Filling : RowOf(s) \in 0 .. Budget - 1
           /\ \A s, t \in Decoders \cup Filling : RowOf(s) = RowOf(t) => s = t
<1>. DEFINE N == Cardinality(Decoders)
            Below(s) == {t \in Decoders : t < s}
<1>0. /\ Decoders \subseteq Seqs /\ IsFiniteSet(Decoders) /\ N \in 0 .. NSeqMax /\ N \in Nat
      /\ Seqs \subseteq Nat /\ Budget \in Nat /\ NSeqMax \in Nat /\ Budget > NSeqMax
  BY DecodersAre, SizesAre
<1>1. ASSUME NEW s \in Decoders
      PROVE  RowOf(s) = Cardinality(Below(s)) /\ RowOf(s) \in 0 .. N - 1
  <2>1. Below(s) \subseteq Decoders /\ Below(s) # Decoders
    BY <1>0
  <2>2. Cardinality(Below(s)) \in Nat /\ Cardinality(Below(s)) < N
    <3>. HIDE DEF Below
    <3>. QED BY <1>0, <2>1, FewerThan
  <2>3. RowOf(s) = Cardinality(Below(s))
    BY DEF RowOf
  <2>. HIDE DEF Below, N
  <2>. QED BY <1>0, <2>2, <2>3
<1>2. ASSUME NEW s \in Decoders, NEW t \in Decoders, s < t PROVE RowOf(s) # RowOf(t)
  <2>0. s \in Nat /\ t \in Nat
    BY <1>0
  <2>1. Below(s) \subseteq Below(t)
    <3>. SUFFICES ASSUME NEW u \in Decoders, u < s PROVE u < t
      OBVIOUS
    <3>1. u \in Nat
      BY <1>0
    <3>. QED BY <1>2, <2>0, <3>1
  <2>2. s \in Below(t) /\ s \notin Below(s)
    BY <1>2, <2>0
  <2>3. Below(t) \subseteq Decoders
    OBVIOUS
  <2>4. IsFiniteSet(Below(t))
    <3>. HIDE DEF Below
    <3>. QED BY <1>0, <2>3, FS_Subset
  <2>5. RowOf(s) = Cardinality(Below(s)) /\ RowOf(t) = Cardinality(Below(t))
    BY <1>1
  <2>. HIDE DEF Below
  <2>6. /\ Cardinality(Below(s)) \in Nat /\ Cardinality(Below(t)) \in Nat
        /\ Cardinality(Below(s)) < Cardinality(Below(t))
    BY <2>1, <2>2, <2>4, FewerThan
  <2>. QED BY <2>5, <2>6
<1>3. ASSUME NEW s \in Filling
      PROVE  /\ RowOf(s) = Budget - RoomAt[s + 1] - 1 /\ RoomAt[s + 1] \in 0 .. Budget - N
             /\ RoomAt[s] \in 0 .. Budget - N /\ RoomAt[s + 1] < RoomAt[s]
             /\ RowOf(s) \in N .. Budget - 1 /\ s \in 0 .. NSeqMax /\ s + 1 \in 0 .. NSeqMax
  <2>1. /\ s \in Seqs /\ s \notin Decoders /\ Len(Slice(s)) \in 1 .. Len(req[s].cursor)
        /\ RoomAt[s + 1] = RoomAt[s] - Len(Slice(s))
    BY SliceIs
  <2>2. s \in 0 .. NSeqMax /\ s + 1 \in 0 .. NSeqMax
    BY <1>0, <2>1 DEF Seqs
  <2>3. RoomAt[s + 1] \in 0 .. Budget - N /\ RoomAt[s] \in 0 .. Budget - N
    BY <2>2, RoomShrinks
  <2>4. RowOf(s) = Budget - RoomAt[s + 1] - 1
    BY <2>1 DEF RowOf
  <2>5. Len(req[s].cursor) \in Nat
    BY <2>1, CursorsAre
  <2>. DEFINE a == RoomAt[s + 1]
              b == RoomAt[s]
              k == Len(Slice(s))
              r == RowOf(s)
  <2>6. N \in Nat /\ Budget \in Nat
    BY <1>0, SizesAre
  <2>7. k \in Nat /\ k >= 1 /\ a = b - k
    BY <2>1, <2>5
  <2>8. a \in 0 .. Budget - N /\ b \in 0 .. Budget - N /\ r = Budget - a - 1
    BY <2>3, <2>4
  <2>. HIDE DEF N, a, b, k, r
  <2>9. a < b /\ r \in N .. Budget - 1
    BY <2>6, <2>7, <2>8
  <2>10. RoomAt[s + 1] < RoomAt[s] /\ RowOf(s) \in N .. Budget - 1
    BY <2>9 DEF a, b, r
  <2>. QED BY <2>2, <2>3, <2>4, <2>10
<1>4. ASSUME NEW s \in Filling, NEW t \in Filling, s < t PROVE RowOf(s) # RowOf(t)
  <2>1. s \in Nat /\ t \in Nat
    BY <1>0, SliceIs
  <2>2. s + 1 <= t
    BY <1>4, <2>1
  <2>3. RoomAt[t] <= RoomAt[s + 1]
    BY <1>3, <2>2, RoomShrinks
  <2>. HIDE DEF N
  <2>4. /\ RoomAt[t + 1] < RoomAt[t] /\ RoomAt[t] \in Int /\ RoomAt[t + 1] \in Int
        /\ RoomAt[s + 1] \in Int
    BY <1>0, <1>3
  <2>5. RowOf(s) = Budget - RoomAt[s + 1] - 1 /\ RowOf(t) = Budget - RoomAt[t + 1] - 1
    BY <1>3
  <2>. QED BY <1>0, <2>3, <2>4, <2>5
<1>5. \A s \in Decoders \cup Filling : s \in Nat
  BY <1>0, SliceIs
<1>6. ASSUME NEW s \in Decoders, NEW t \in Filling PROVE RowOf(s) # RowOf(t)
  <2>1. RowOf(s) \in 0 .. N - 1 /\ RowOf(t) \in N .. Budget - 1
    BY <1>1, <1>3
  <2>. HIDE DEF N
  <2>. QED BY <1>0, <2>1
<1>7. \A s \in Decoders \cup Filling : RowOf(s) \in 0 .. Budget - 1
  <2>1. \A s \in Decoders : RowOf(s) \in 0 .. N - 1
    BY <1>1
  <2>2. \A s \in Filling : RowOf(s) \in N .. Budget - 1
    BY <1>3
  <2>. HIDE DEF N
  <2>. QED BY <1>0, <2>1, <2>2
<1>8. ASSUME NEW s \in Decoders \cup Filling, NEW t \in Decoders \cup Filling, RowOf(s) = RowOf(t)
      PROVE  s = t
  <2>1. s \in Nat /\ t \in Nat
    BY <1>5
  <2>2. ~(s < t) /\ ~(t < s)
    BY <1>2, <1>4, <1>6, <1>8
  <2>. QED BY <2>1, <2>2
<1>. QED BY <1>7, <1>8


-----------------------------------------------------------------------------
(* Requests grow.                                                          *)

(* Request r has put c into its seq and become w. *)
Extends(r, w, c) ==
    /\ w \in Requests /\ Shape(w) /\ Thrifty(w)
    /\ w.kind = r.kind /\ w.session = r.session
    /\ w.ctx = r.ctx \o c /\ Cells(w) = Cells(r) \o c

(* A sampled token, before the save is marked. *)
Sampled(r, q, tok, stop) ==
    /\ q \in Requests /\ q.kind = r.kind /\ q.session = r.session
    /\ q.ctx = r.ctx \o <<tok>> /\ q.ctx \in Lists /\ Len(q.ctx) = Len(r.ctx) + 1
    /\ q.cursor = <<>> /\ q.rest = <<>> /\ ~q.ladder /\ ~q.pending
    /\ q.gen = r.gen + 1 /\ q.lastSave = r.lastSave
    /\ q.finishing <=> stop \/ r.gen + 1 >= Target

LEMMA SampledIs ==
    ASSUME NEW r \in Requests, Shape(r), Decodes(r), NEW tok \in Tokens, NEW stop \in BOOLEAN
    PROVE  Sampled(r, Appended(r, tok, stop), tok, stop)
<1>. DEFINE c == Append(r.ctx, tok)
            g == r.gen + 1
            b == (stop \/ r.gen + 1 >= Target)
            q == Appended(r, tok, stop)
<1>1. q = [r EXCEPT !.ctx = c, !.gen = g, !.finishing = b]
  BY DEF Appended
<1>2. tok \in Cell /\ r.ctx \in Lists
  BY ListsAre DEF Requests
<1>3. c \in Lists /\ c = r.ctx \o <<tok>> /\ Len(c) = Len(r.ctx) + 1
  BY <1>2, Grown
<1>4. r.gen \in 0 .. Target /\ r.gen < Target
  BY DEF Requests, Shape, Decodes
<1>5. g \in 0 .. Target
  BY <1>4, SizesAre
<1>6. b \in BOOLEAN
  OBVIOUS
<1>7. r.cursor = <<>> /\ r.rest = <<>> /\ ~r.ladder /\ ~r.pending
  BY DEF Shape, Decodes
<1>. HIDE DEF c, g, b, q
<1>8. /\ q \in Requests /\ q.kind = r.kind /\ q.session = r.session /\ q.ctx = c /\ q.gen = g
      /\ q.cursor = r.cursor /\ q.rest = r.rest /\ q.ladder = r.ladder /\ q.pending = r.pending
      /\ q.lastSave = r.lastSave /\ q.finishing = b
  BY <1>1, <1>3, <1>5, <1>6 DEF Requests
<1>9. q.finishing <=> stop \/ r.gen + 1 >= Target
  BY <1>8 DEF b
<1>. QED BY <1>3, <1>7, <1>8, <1>9 DEF Sampled, g, q

LEMMA MarkedIs ==
    ASSUME NEW q \in Requests
    PROVE  LET w == Marked(q) IN
           /\ w \in Requests /\ w.kind = q.kind /\ w.session = q.session /\ w.ctx = q.ctx
           /\ w.cursor = q.cursor /\ w.rest = q.rest /\ w.ladder = q.ladder
           /\ w.pending = q.pending /\ w.gen = q.gen /\ w.finishing = q.finishing
           /\ w.lastSave = IF ContinuedSaves(q) THEN Len(q.ctx) ELSE q.lastSave
<1>1. Len(q.ctx) \in Nat
  BY Joined DEF Requests
<1>. QED BY <1>1 DEF Marked, Requests

(* One token more keeps a request well formed.  A speculative request      *)
(* makes its continued save at the first token, unless its prompt has just *)
(* been saved.                                                             *)
LEMMA AppendedIs ==
    ASSUME NEW r \in Requests, Shape(r), Thrifty(r), Decodes(r),
           NEW tok \in Tokens, NEW stop \in BOOLEAN
    PROVE  Extends(r, Marked(Appended(r, tok, stop)), <<tok>>)
<1>. DEFINE q == Appended(r, tok, stop)
            w == Marked(q)
<1>1. Sampled(r, q, tok, stop)
  BY SampledIs
<1>. HIDE DEF q
<1>2. q \in Requests
  BY <1>1 DEF Sampled
<1>3. /\ w \in Requests /\ w.kind = q.kind /\ w.session = q.session /\ w.ctx = q.ctx
      /\ w.cursor = q.cursor /\ w.rest = q.rest /\ w.ladder = q.ladder
      /\ w.pending = q.pending /\ w.gen = q.gen /\ w.finishing = q.finishing
      /\ w.lastSave = IF ContinuedSaves(q) THEN Len(q.ctx) ELSE q.lastSave
  BY <1>2, MarkedIs
<1>. HIDE DEF w
<1>4. /\ Len(r.ctx) \in Nat /\ r.gen \in Nat /\ r.lastSave \in Nat /\ r.ctx \in Lists
      /\ Len(<<>>) = 0 /\ <<tok>> \in Lists /\ r.gen < Target
  BY ListsAre, Joined, SizesAre DEF Requests, Shape, Decodes
<1>5. Shape(w)
  <2>1. w.kind # "none"
    BY <1>1, <1>3 DEF Sampled, Decodes
  <2>2. ~w.finishing => w.gen < Target
    BY <1>1, <1>3, <1>4, SizesAre DEF Sampled
  <2>3. w.kind = "media" => w.session = NoSession /\ w.cursor = <<>>
    BY <1>1, <1>3 DEF Sampled, Shape
  <2>. QED BY <1>1, <1>3, <2>1, <2>2, <2>3 DEF Sampled, Shape
<1>6. Thrifty(w)
  <2>. SUFFICES ASSUME w.kind = "spec", ~w.finishing
                PROVE  w.gen # 0 /\ Len(w.ctx) <= w.lastSave + w.gen
    BY DEF Thrifty
  <2>1. r.kind = "spec" /\ ~r.finishing /\ r.cursor = <<>> /\ r.rest = <<>> /\ q.kind = "spec"
    BY <1>1, <1>3 DEF Sampled, Decodes, Shape
  <2>2. w.gen = r.gen + 1 /\ Len(w.ctx) = Len(r.ctx) + 1
    BY <1>1, <1>3 DEF Sampled
  <2>3. CASE ContinuedSaves(q)
    BY <1>1, <1>3, <1>4, <2>2, <2>3 DEF Sampled
  <2>4. CASE ~ContinuedSaves(q) /\ r.gen = 0
    <3>1. /\ Len(r.ctx) + Len(r.cursor) + Len(r.rest) + 1 >= Interval
          /\ Len(r.ctx) + Len(r.cursor) + Len(r.rest) + 1 >= MinTokens
          /\ r.lastSave \in {0, Len(r.ctx)}
      BY <2>1, <2>4 DEF Thrifty
    <3>2. Len(q.ctx) >= Interval /\ Len(q.ctx) >= MinTokens /\ Len(q.ctx) = Len(r.ctx) + 1
      BY <1>1, <1>4, <2>1, <3>1, SizesAre DEF Sampled
    <3>3. ~q.finishing /\ q.kind # "media"
      BY <1>3, <2>1
    <3>4. ~(Len(q.ctx) - q.lastSave >= Interval)
      BY <2>4, <3>2, <3>3 DEF ContinuedSaves
    <3>5. q.lastSave = r.lastSave /\ w.lastSave = r.lastSave
      BY <1>1, <1>3, <2>4 DEF Sampled
    <3>6. r.lastSave = Len(r.ctx)
      BY <1>4, <3>1, <3>2, <3>4, <3>5, SizesAre
    <3>. QED BY <1>4, <2>2, <2>4, <3>5, <3>6
  <2>5. CASE ~ContinuedSaves(q) /\ r.gen # 0
    <3>1. Len(r.ctx) <= r.lastSave + r.gen
      BY <1>4, <2>1, <2>5 DEF Thrifty
    <3>2. w.lastSave = r.lastSave
      BY <1>1, <1>3, <2>5 DEF Sampled
    <3>. QED BY <1>4, <2>2, <3>1, <3>2
  <2>. QED BY <2>3, <2>4, <2>5
<1>7. w.ctx = r.ctx \o <<tok>> /\ w.kind = r.kind /\ w.session = r.session /\ ~w.pending
  BY <1>1, <1>3 DEF Sampled
<1>8. Cells(w) = Cells(r) \o <<tok>>
  <2>1. <<Media>> \o (r.ctx \o <<tok>>) = (<<Media>> \o r.ctx) \o <<tok>>
    <3>. DEFINE a == <<Media>>
                b == <<tok>>
                c == r.ctx
    <3>1. a \in Lists /\ b \in Lists /\ c \in Lists
      BY <1>4, ListsAre
    <3>. HIDE DEF a, b, c
    <3>2. (a \o c) \o b = a \o (c \o b)
      BY <3>1, Chained
    <3>. QED BY <3>2 DEF a, b, c
  <2>2. ~r.pending
    BY DEF Decodes
  <2>. QED BY <1>7, <2>1, <2>2 DEF Cells
<1>9. Extends(r, w, <<tok>>)
  BY <1>3, <1>5, <1>6, <1>7, <1>8 DEF Extends
<1>. QED BY <1>9 DEF q, w

(* A slice of its cursor more, and the end of a segment. *)
LEMMA PrefilledIs ==
    ASSUME NEW r \in Requests, Shape(r), Thrifty(r), r.kind # "none",
           NEW x \in Lists, Len(x) \in 1 .. Len(r.cursor), x = SubSeq(r.cursor, 1, Len(x))
    PROVE  Extends(r, Prefilled(r, x), x) /\ r.kind # "media"
<1>. DEFINE c == r.ctx \o x
            d == SubSeq(r.cursor, Len(x) + 1, Len(r.cursor))
            w == Prefilled(r, x)
<1>0. /\ r.ctx \in Lists /\ r.cursor \in Lists /\ r.rest \in Lists
      /\ Len(r.ctx) \in Nat /\ Len(r.cursor) \in Nat /\ Len(r.rest) \in Nat
      /\ Len(x) \in Nat /\ <<>> \in Lists /\ Len(<<>>) = 0
  BY ListsAre, Joined DEF Requests
<1>1. Len(x) \in 0 .. Len(r.cursor) /\ Len(r.cursor) # 0 /\ Len(x) >= 1
  BY <1>0
<1>2. d \in Lists /\ Len(d) = Len(r.cursor) - Len(x)
  BY <1>0, <1>1, Cut
<1>3. r.cursor # <<>>
  BY <1>0, <1>1
<1>4. r.kind # "media" /\ r.gen = 0 /\ ~r.pending
  BY <1>3 DEF Shape
<1>5. c \in Lists /\ Len(c) = Len(r.ctx) + Len(x)
  BY <1>0, Joined
<1>6. Len(d) \in Nat
  BY <1>2, Joined
<1>7. w = IF d # <<>> THEN [r EXCEPT !.ctx = c, !.cursor = d]
          ELSE IF r.ladder
          THEN [r EXCEPT !.ctx = c, !.cursor = r.rest, !.rest = <<>>, !.ladder = FALSE,
                         !.lastSave = Len(c)]
          ELSE [r EXCEPT !.ctx = c, !.cursor = <<>>, !.lastSave = 0]
  BY DEF Prefilled
<1>. HIDE DEF c, d, w
<1>8. /\ w \in Requests /\ w.kind = r.kind /\ w.session = r.session /\ w.ctx = c
      /\ w.gen = 0 /\ w.pending = r.pending /\ w.finishing = r.finishing
      /\ \/ /\ d # <<>> /\ w.cursor = d /\ w.rest = r.rest /\ w.ladder = r.ladder
            /\ w.lastSave = r.lastSave
         \/ /\ d = <<>> /\ r.ladder /\ w.cursor = r.rest /\ w.rest = <<>> /\ ~w.ladder
            /\ w.lastSave = Len(c)
         \/ /\ d = <<>> /\ ~r.ladder /\ w.cursor = <<>> /\ w.rest = r.rest /\ ~w.ladder
            /\ w.lastSave = 0
  <2>0. Len(c) \in Nat
    BY <1>0, <1>5
  <2>1. CASE d # <<>>
    BY <1>2, <1>4, <1>5, <1>7, <2>1 DEF Requests
  <2>2. CASE d = <<>> /\ r.ladder
    BY <1>0, <1>4, <1>5, <1>7, <2>0, <2>2 DEF Requests
  <2>3. CASE d = <<>> /\ ~r.ladder
    BY <1>0, <1>4, <1>5, <1>7, <2>3 DEF Requests
  <2>. QED BY <2>1, <2>2, <2>3
<1>9. Shape(w)
  BY <1>4, <1>8, SizesAre DEF Shape
<1>10. Thrifty(w)
  <2>. SUFFICES ASSUME r.kind = "spec", ~r.finishing
                PROVE  /\ LET n == Len(w.ctx) + Len(w.cursor) + Len(w.rest) + 1
                          IN  n >= Interval /\ n >= MinTokens
                       /\ w.cursor = <<>> => w.lastSave \in {0, Len(w.ctx)}
    <3>1. w.gen = 0 /\ ~(w.gen >= 1) /\ w.kind = r.kind /\ w.finishing = r.finishing
      BY <1>8
    <3>. QED BY <3>1, Zenon DEF Thrifty
  <2>1. LET n == Len(r.ctx) + Len(r.cursor) + Len(r.rest) + 1
        IN  n >= Interval /\ n >= MinTokens
    BY <1>4 DEF Thrifty
  <2>2. Len(w.ctx) + Len(w.cursor) + Len(w.rest) = Len(r.ctx) + Len(r.cursor) + Len(r.rest)
    <3>1. ~r.ladder => Len(r.rest) = 0
      BY <1>0 DEF Shape
    <3>2. d = <<>> => Len(r.cursor) = Len(x)
      BY <1>0, <1>2
    <3>. DEFINE i == Len(r.ctx)
                j == Len(r.cursor)
                k == Len(r.rest)
                l == Len(x)
    <3>3. Len(w.ctx) = i + l /\ i \in Nat /\ j \in Nat /\ k \in Nat /\ l \in Nat
      BY <1>0, <1>5, <1>8
    <3>4. CASE d # <<>>
      <4>1. Len(w.cursor) = j - l /\ Len(w.rest) = k
        BY <1>2, <1>8, <3>4
      <4>. HIDE DEF i, j, k, l
      <4>2. (i + l) + (j - l) + k = i + j + k
        BY <3>3
      <4>. QED BY <3>3, <4>1, <4>2 DEF i, j, k
    <3>5. CASE d = <<>> /\ r.ladder
      <4>1. Len(w.cursor) = k /\ Len(w.rest) = 0 /\ j = l
        BY <1>0, <1>8, <3>2, <3>5
      <4>. HIDE DEF i, j, k, l
      <4>2. (i + l) + k + 0 = i + j + k
        BY <3>3, <4>1
      <4>. QED BY <3>3, <4>1, <4>2 DEF i, j, k
    <3>6. CASE d = <<>> /\ ~r.ladder
      <4>1. Len(w.cursor) = 0 /\ Len(w.rest) = 0 /\ j = l /\ k = 0
        BY <1>0, <1>8, <3>1, <3>2, <3>6
      <4>. HIDE DEF i, j, k, l
      <4>2. (i + l) + 0 + 0 = i + j + k
        BY <3>3, <4>1
      <4>. QED BY <3>3, <4>1, <4>2 DEF i, j, k
    <3>. QED BY <3>4, <3>5, <3>6
  <2>3. w.cursor = <<>> => w.lastSave \in {0, Len(w.ctx)}
    BY <1>8
  <2>. QED BY <2>1, <2>2, <2>3
<1>11. Cells(w) = Cells(r) \o x /\ w.ctx = r.ctx \o x
  BY <1>4, <1>8 DEF Cells, c
<1>. QED BY <1>4, <1>8, <1>9, <1>10, <1>11 DEF Extends, w


-----------------------------------------------------------------------------
(* Ticks.                                                                  *)

(* Whoever samples next has logits, those of all of its own cells. *)
Ready(n, rq, rs) ==
    \A s \in Seqs : Decodes(rq[s]) => HasLogits(n, rs, s) /\ LogitsOf(n, rs, s) = n.kv[s]

RowsFit(rs) == DOMAIN rs \subseteq 0 .. Budget - 1

Ticked ==
    /\ KvInv' /\ Ready(nat', req', rows') /\ RowsFit(rows')
    /\ up' \in BOOLEAN /\ admitted' = admitted

LEMMA AfterReady ==
    ASSUME NEW n, NEW rq, NEW sv, NEW rs, AfterStep(n, rq, sv), Ready(n, rq, rs)
    PROVE  Ready(nat', req', rs)
<1>. DEFINE F == {s \in Seqs : Finishes(rq[s])}
            G == {s \in F : rq[s].session = NoSession}
<1>1. /\ nat' = [kv |-> [s \in Seqs |-> IF s \in G THEN <<>> ELSE n.kv[s]],
                 pos |-> [s \in Seqs |-> IF s \in G THEN 0 ELSE n.pos[s]],
                 lli |-> [s \in Seqs |-> IF s \in G THEN LogitsNone ELSE n.lli[s]],
                 ready |-> n.ready /\ G = {}]
      /\ req' = [s \in Seqs |-> IF s \in F THEN NoReq ELSE rq[s]]
  BY DEF AfterStep, Finishes
<1>2. \A s \in Seqs : s \notin F => s \notin G
  OBVIOUS
<1>. HIDE DEF F, G
<1>. SUFFICES ASSUME NEW s \in Seqs, Decodes(req'[s])
              PROVE  HasLogits(nat', rs, s) /\ LogitsOf(nat', rs, s) = nat'.kv[s]
  BY DEF Ready
<1>3. s \notin F /\ req'[s] = rq[s]
  BY <1>1, NoReqIs DEF Decodes
<1>4. nat'.kv[s] = n.kv[s] /\ nat'.lli[s] = n.lli[s]
  BY <1>1, <1>2, <1>3
<1>5. HasLogits(n, rs, s) /\ LogitsOf(n, rs, s) = n.kv[s]
  BY <1>3 DEF Ready
<1>. QED BY <1>4, <1>5 DEF HasLogits, LogitsOf

(* What a decoder or a prefilling seq puts into the batch. *)
LEMMA BatchIs ==
    ASSUME Good(nat, req, ses), NEW toks \in [Decoders -> Tokens],
           NEW s \in Decoders \cup Filling
    PROVE  /\ s \in Seqs /\ Batch(s, toks) \in Lists
           /\ nat.kv[s] \o Batch(s, toks) \in Lists
           /\ Len(nat.kv[s] \o Batch(s, toks)) = nat.pos[s] + Len(Batch(s, toks))
           /\ nat.pos[s] + Len(Batch(s, toks)) \in Nat
<1>1. s \in Seqs
  BY DecodersAre, SliceIs
<1>2. Batch(s, toks) \in Lists
  <2>1. CASE s \in Decoders
    BY <2>1, ListsAre DEF Batch
  <2>2. CASE s \notin Decoders
    BY <2>2, SliceIs DEF Batch
  <2>. QED BY <2>1, <2>2
<1>3. nat.kv[s] \in Lists /\ nat.pos[s] = Len(nat.kv[s])
  BY <1>1 DEF Good, Contexts, Holds
<1>. DEFINE c == nat.kv[s]
            b == Batch(s, toks)
<1>4. c \in Lists /\ b \in Lists /\ nat.pos[s] = Len(c)
  BY <1>2, <1>3
<1>. HIDE DEF c, b
<1>5. c \o b \in Lists /\ Len(c \o b) = Len(c) + Len(b) /\ Len(c) \in Nat /\ Len(b) \in Nat
  BY <1>4, Joined
<1>6. Len(c) + Len(b) \in Nat
  BY <1>5
<1>. QED BY <1>1, <1>4, <1>5, <1>6 DEF c, b

(* The context after a batch, also an empty one. *)
Stepped(n, toks) ==
    /\ n \in Contexts
    /\ \A s \in Seqs : s \in Decoders \cup Filling =>
          /\ n.kv[s] = nat.kv[s] \o Batch(s, toks)
          /\ n.pos[s] = Len(n.kv[s]) /\ n.lli[s] = RowOf(s)
    /\ \A s \in Seqs : s \notin Decoders \cup Filling =>
          n.kv[s] = nat.kv[s] /\ n.pos[s] = nat.pos[s] /\ n.lli[s] = nat.lli[s]

LEMMA SteppedIs ==
    ASSUME Good(nat, req, ses), NEW toks \in [Decoders -> Tokens]
    PROVE  Stepped(IF Decoders \cup Filling = {} THEN nat ELSE StepContext(toks), toks)
<1>. DEFINE B == Decoders \cup Filling
<1>1. CASE B = {}
  BY <1>1 DEF Stepped, Good
<1>2. CASE B # {}
  <2>. DEFINE n == StepContext(toks)
              K(s) == IF s \in B THEN nat.kv[s] \o Batch(s, toks) ELSE nat.kv[s]
              P(s) == IF s \in B THEN nat.pos[s] + Len(Batch(s, toks)) ELSE nat.pos[s]
              L(s) == IF s \in B THEN RowOf(s) ELSE nat.lli[s]
  <2>1. n = [kv |-> [s \in Seqs |-> K(s)], pos |-> [s \in Seqs |-> P(s)],
             lli |-> [s \in Seqs |-> L(s)], ready |-> TRUE]
    BY DEF StepContext
  <2>2. ASSUME NEW s \in Seqs
        PROVE  /\ K(s) \in Lists /\ P(s) \in Nat /\ L(s) \in -2 .. Budget - 1
               /\ s \in B => P(s) = Len(K(s))
    <3>1. CASE s \in B
      <4>1. RowOf(s) \in 0 .. Budget - 1
        BY <3>1, RowsApart
      <4>2. RowOf(s) \in -2 .. Budget - 1
        BY <4>1, SizesAre
      <4>. QED BY <3>1, <4>2, BatchIs
    <3>2. CASE s \notin B
      BY <3>2 DEF Good, Contexts
    <3>. QED BY <3>1, <3>2
  <2>3. \A s \in Seqs : s \in B => K(s) = nat.kv[s] \o Batch(s, toks) /\ L(s) = RowOf(s)
    OBVIOUS
  <2>4. \A s \in Seqs : s \notin B => K(s) = nat.kv[s] /\ P(s) = nat.pos[s] /\ L(s) = nat.lli[s]
    OBVIOUS
  <2>. HIDE DEF K, P, L, n, B
  <2>5. n \in Contexts
    BY <2>1, <2>2 DEF Contexts
  <2>6. \A s \in Seqs : n.kv[s] = K(s) /\ n.pos[s] = P(s) /\ n.lli[s] = L(s)
    BY <2>1
  <2>7. \A s \in Seqs : s \in B =>
          /\ n.kv[s] = nat.kv[s] \o Batch(s, toks)
          /\ n.pos[s] = Len(n.kv[s]) /\ n.lli[s] = RowOf(s)
    BY <2>2, <2>3, <2>6
  <2>8. \A s \in Seqs : s \notin B =>
          n.kv[s] = nat.kv[s] /\ n.pos[s] = nat.pos[s] /\ n.lli[s] = nat.lli[s]
    BY <2>4, <2>6
  <2>9. Stepped(n, toks)
    BY <2>5, <2>7, <2>8 DEF Stepped, B
  <2>. QED BY <1>2, <2>9 DEF n, B
<1>. QED BY <1>1, <1>2

(* The rows of a batch: each seq finds its own cells at its row. *)
LEMMA StepRowsAre ==
    ASSUME Good(nat, req, ses), NEW toks
    PROVE  /\ RowsFit(StepRows(toks))
           /\ \A s \in Decoders \cup Filling :
                 RowOf(s) \in DOMAIN StepRows(toks)
                 /\ StepRows(toks)[RowOf(s)] = nat.kv[s] \o Batch(s, toks)
<1>. DEFINE B == Decoders \cup Filling
            C(i) == CHOOSE s \in B : RowOf(s) = i
            V(i) == nat.kv[C(i)] \o Batch(C(i), toks)
            R == {RowOf(s) : s \in B}
<1>1. StepRows(toks) = [i \in R |-> V(i)]
  BY DEF StepRows
<1>2. R \subseteq 0 .. Budget - 1 /\ \A s \in B : RowOf(s) \in R
  BY RowsApart
<1>3. \A s \in B : C(RowOf(s)) = s
  BY RowsApart
<1>4. \A s \in B : V(RowOf(s)) = nat.kv[s] \o Batch(s, toks)
  BY <1>3
<1>. HIDE DEF V, R, B
<1>5. DOMAIN StepRows(toks) = R /\ \A i \in R : StepRows(toks)[i] = V(i)
  BY <1>1
<1>. QED BY <1>2, <1>4, <1>5 DEF RowsFit, B


LEMMA TickStepStep ==
    ASSUME KvInv, RowsFit(rows), TickStep
    PROVE  Ticked
<1>0. /\ Good(nat, req, ses) /\ Keyed(saved) /\ req \in [Seqs -> Requests]
      /\ \A s \in Seqs : Shape(req[s]) /\ Thrifty(req[s]) /\ Holds(nat, req, ses, s)
  BY DEF KvInv, Good
<1>. DEFINE B == Decoders \cup Filling
            N(toks) == IF B = {} THEN nat ELSE StepContext(toks)
            P(toks, stops) == [s \in Seqs |->
                         IF s \in Decoders THEN Appended(req[s], toks[s], s \in stops)
                         ELSE IF s \in Filling THEN Prefilled(req[s], Slice(s))
                         ELSE req[s]]
            S(pl) == {s \in Decoders : ContinuedSaves(pl[s])}
                     \cup {s \in Filling : ColdSaves(req[s], Slice(s))}
            W(pl) == [s \in Seqs |-> IF s \in Decoders THEN Marked(pl[s]) ELSE pl[s]]
            V(n, pl) == {Row(pl[s].ctx, n.kv[s]) : s \in S(pl)}
<1>1. PICK toks \in [Decoders -> Tokens], stops \in SUBSET Decoders :
         /\ rows' = IF B = {} THEN rows ELSE StepRows(toks)
         /\ AfterStep(N(toks), W(P(toks, stops)), Save(saved, V(N(toks), P(toks, stops))))
  BY DEF TickStep
<1>2. up' = up /\ admitted' = admitted /\ up = TRUE
  BY DEF TickStep
<1>. DEFINE n == N(toks)
            pl == P(toks, stops)
            rq == W(pl)
            new == V(n, pl)
<1>3. Stepped(n, toks)
  BY <1>0, SteppedIs
<1>4. /\ \A s \in Seqs : s \in Decoders => pl[s] = Appended(req[s], toks[s], s \in stops)
      /\ \A s \in Seqs : s \in Decoders => rq[s] = Marked(pl[s])
      /\ \A s \in Seqs : s \notin Decoders => rq[s] = pl[s]
      /\ \A s \in Seqs : s \notin Decoders /\ s \in Filling => pl[s] = Prefilled(req[s], Slice(s))
      /\ \A s \in Seqs : s \notin B => pl[s] = req[s]
      /\ \A s \in S(pl) : s \in B /\ (s \in Decoders => ContinuedSaves(pl[s]))
      /\ AfterStep(n, rq, Save(saved, new))
      /\ rows' = IF B = {} THEN rows ELSE StepRows(toks)
  <2>1. /\ \A s \in Seqs : s \in Decoders => pl[s] = Appended(req[s], toks[s], s \in stops)
        /\ \A s \in Seqs : s \notin Decoders /\ s \in Filling => pl[s] = Prefilled(req[s], Slice(s))
        /\ \A s \in Seqs : s \notin B => pl[s] = req[s]
    OBVIOUS
  <2>2. \A s \in Filling : s \notin Decoders
    BY <1>0, SliceIs
  <2>. HIDE DEF P
  <2>3. /\ \A s \in Seqs : s \in Decoders => rq[s] = Marked(pl[s])
        /\ \A s \in Seqs : s \notin Decoders => rq[s] = pl[s]
        /\ \A s \in S(pl) : s \in B /\ (s \in Decoders => ContinuedSaves(pl[s]))
    BY <2>2
  <2>. QED BY <1>1, <2>1, <2>3
<1>5. rq = [s \in Seqs |-> IF s \in Decoders THEN Marked(pl[s]) ELSE pl[s]]
  OBVIOUS
<1>6. new = {Row(pl[s].ctx, n.kv[s]) : s \in S(pl)}
  OBVIOUS
<1>. HIDE DEF n, pl, rq, new, N, P, W, V, S
<1>7. ASSUME NEW s \in Seqs, s \in Decoders
      PROVE  /\ Extends(req[s], rq[s], Batch(s, toks)) /\ pl[s].ctx = rq[s].ctx
             /\ pl[s].kind = rq[s].kind
  <2>. DEFINE t == toks[s]
              b == (s \in stops)
  <2>1. Decodes(req[s]) /\ t \in Tokens /\ b \in BOOLEAN
    BY <1>0, <1>7, DecodersAre
  <2>2. req[s] \in Requests /\ Shape(req[s]) /\ Thrifty(req[s])
    BY <1>0
  <2>3. pl[s] = Appended(req[s], t, b) /\ rq[s] = Marked(pl[s]) /\ Batch(s, toks) = <<t>>
    BY <1>4, <1>7 DEF Batch
  <2>. HIDE DEF t, b
  <2>4. Extends(req[s], Marked(Appended(req[s], t, b)), <<t>>)
    BY <2>1, <2>2, AppendedIs
  <2>5. Sampled(req[s], pl[s], t, b)
    BY <2>1, <2>2, <2>3, SampledIs
  <2>6. pl[s] \in Requests
    BY <2>5 DEF Sampled
  <2>7. Marked(pl[s]).ctx = pl[s].ctx /\ Marked(pl[s]).kind = pl[s].kind
    BY <2>6, MarkedIs
  <2>. QED BY <2>3, <2>4, <2>7
<1>8. ASSUME NEW s \in Seqs, s \in Filling
      PROVE  /\ Extends(req[s], rq[s], Batch(s, toks)) /\ pl[s] = rq[s]
             /\ req[s].kind # "media" /\ s \notin Decoders
  <2>. DEFINE x == Slice(s)
  <2>1. /\ s \in Fillers /\ s \notin Decoders
        /\ x \in Lists /\ Len(x) \in 1 .. Len(req[s].cursor)
        /\ x = SubSeq(req[s].cursor, 1, Len(x))
    BY <1>0, <1>8, SliceIs
  <2>2. /\ req[s] \in Requests /\ Shape(req[s]) /\ Thrifty(req[s])
        /\ req[s].kind # "none"
    BY <1>0, <2>1, DecodersAre
  <2>3. pl[s] = Prefilled(req[s], x) /\ rq[s] = pl[s] /\ Batch(s, toks) = x
    BY <1>4, <1>8, <2>1 DEF Batch
  <2>. HIDE DEF x
  <2>4. Extends(req[s], Prefilled(req[s], x), x) /\ req[s].kind # "media"
    BY <2>1, <2>2, PrefilledIs
  <2>. QED BY <2>1, <2>3, <2>4
<1>9. ASSUME NEW s \in Seqs
      PROVE  /\ rq[s] \in Requests /\ Shape(rq[s]) /\ Thrifty(rq[s])
             /\ rq[s].kind = req[s].kind /\ rq[s].session = req[s].session
             /\ n.pos[s] = Len(n.kv[s])
             /\ rq[s].kind # "none" => n.kv[s] = Cells(rq[s])
             /\ rq[s].kind = "none" => n.kv[s] = nat.kv[s] /\ n.lli[s] = nat.lli[s]
  <2>1. CASE s \in B
    <3>1. Extends(req[s], rq[s], Batch(s, toks))
      BY <1>7, <1>8, <2>1
    <3>2. req[s].kind # "none"
      BY <1>0, <2>1, DecodersAre, SliceIs DEF Decodes
    <3>3. nat.kv[s] = Cells(req[s])
      BY <1>0, <3>2 DEF Holds
    <3>4. n.kv[s] = nat.kv[s] \o Batch(s, toks) /\ n.pos[s] = Len(n.kv[s])
      BY <1>3, <2>1 DEF Stepped
    <3>. QED BY <3>1, <3>2, <3>3, <3>4 DEF Extends
  <2>2. CASE s \notin B
    <3>1. rq[s] = req[s]
      BY <1>4, <2>2
    <3>2. n.kv[s] = nat.kv[s] /\ n.pos[s] = nat.pos[s] /\ n.lli[s] = nat.lli[s]
      BY <1>3, <2>2 DEF Stepped
    <3>. QED BY <1>0, <3>1, <3>2 DEF Holds
  <2>. QED BY <2>1, <2>2
<1>10. rq \in [Seqs -> Requests]
  <2>. DEFINE d(s) == IF s \in Decoders THEN Marked(pl[s]) ELSE pl[s]
  <2>1. rq = [s \in Seqs |-> d(s)]
    BY <1>5
  <2>. HIDE DEF d
  <2>. QED BY <1>9, <2>1
<1>11. n \in Contexts
  BY <1>3 DEF Stepped
<1>12. Good(n, rq, ses)
  BY <1>0, <1>9, <1>10, <1>11, TickGood
<1>13. Keyed(new)
  <2>. SUFFICES ASSUME NEW s \in S(pl)
                PROVE  LET r == Row(pl[s].ctx, n.kv[s]) IN r.key \in Lists /\ r.kv = r.key
    BY <1>6 DEF Keyed
  <2>1. s \in B /\ s \in Seqs
    BY <1>0, <1>4, DecodersAre, SliceIs
  <2>2. pl[s].ctx = rq[s].ctx /\ rq[s].kind # "media" /\ rq[s].kind # "none"
    <3>0. req[s].kind # "none"
      BY <1>0, <2>1, DecodersAre, SliceIs DEF Decodes
    <3>1. CASE s \in Decoders
      BY <1>4, <1>7, <1>9, <2>1, <3>0, <3>1 DEF ContinuedSaves
    <3>2. CASE s \in Filling
      BY <1>8, <1>9, <2>1, <3>0, <3>2
    <3>. QED BY <2>1, <3>1, <3>2
  <2>3. n.kv[s] = pl[s].ctx /\ pl[s].ctx \in Lists
    BY <1>9, <2>1, <2>2 DEF Cells, Requests
  <2>. QED BY <2>3, RowKeyed
<1>14. Keyed(Save(saved, new))
  BY <1>0, <1>13, SaveKeyed
<1>15. KvInv'
  BY <1>4, <1>12, <1>14, AfterGood
<1>16. Ready(n, rq, rows')
  <2>. SUFFICES ASSUME NEW s \in Seqs, Decodes(rq[s])
                PROVE  HasLogits(n, rows', s) /\ LogitsOf(n, rows', s) = n.kv[s]
    BY DEF Ready
  <2>1. s \in B
    <3>. SUFFICES ASSUME s \notin B PROVE FALSE
      OBVIOUS
    <3>1. rq[s] = req[s]
      BY <1>4
    <3>. QED BY <1>0, <3>1, DecodersAre
  <2>2. rows' = StepRows(toks)
    BY <1>4, <2>1
  <2>3. RowOf(s) \in DOMAIN rows' /\ rows'[RowOf(s)] = nat.kv[s] \o Batch(s, toks)
    BY <1>0, <2>1, <2>2, StepRowsAre
  <2>4. n.lli[s] = RowOf(s) /\ n.kv[s] = nat.kv[s] \o Batch(s, toks)
    BY <1>3, <2>1 DEF Stepped
  <2>5. RowOf(s) # LogitsLast
    <3>1. RowOf(s) \in 0 .. Budget - 1
      BY <1>0, <2>1, RowsApart
    <3>. QED BY <3>1, SizesAre DEF LogitsLast
  <2>. QED BY <2>3, <2>4, <2>5 DEF HasLogits, LogitsOf
<1>17. Ready(nat', req', rows')
  BY <1>4, <1>16, AfterReady
<1>18. RowsFit(rows')
  BY <1>0, <1>4, StepRowsAre
<1>. QED BY <1>2, <1>15, <1>17, <1>18 DEF Ticked


LEMMA OneRowIs ==
    ASSUME NEW c
    PROVE  LET rs == OneRow(c) IN
           DOMAIN rs = {0} /\ rs[0] = c /\ Max(DOMAIN rs) = 0 /\ RowsFit(rs)
<1>. DEFINE rs == OneRow(c)
<1>1. DOMAIN rs = {0} /\ rs[0] = c
  BY DEF OneRow
<1>. HIDE DEF rs
<1>2. Max({0}) = 0
  BY DEF Max
<1>3. RowsFit(rs)
  BY <1>1, SizesAre DEF RowsFit
<1>. QED BY <1>1, <1>2, <1>3 DEF rs

(* The turn of a media prompt: nobody else is active, and its seq is empty. *)
LEMMA MediaTurnIs ==
    ASSUME KvInv, MediaTurn, NEW s, s = CHOOSE t \in Active : TRUE
    PROVE  /\ s \in Seqs /\ Active = {s} /\ req[s].pending /\ req[s].kind = "media"
           /\ req[s].session = NoSession
           /\ req[s].ctx = <<>> /\ req[s].cursor = <<>> /\ ~req[s].finishing
           /\ nat.kv[s] = <<>> /\ nat.pos[s] = 0
           /\ \A t \in Seqs : t # s => ~Decodes(req[t])
<1>1. PICK x \in Seqs : Active = {x} /\ req[x].pending
  BY DEF MediaTurn
<1>2. s = x
  BY <1>1
<1>3. /\ Shape(req[s]) /\ Holds(nat, req, ses, s) /\ ~req[s].finishing
      /\ req[s].kind # "none"
  <2>1. s \in Seqs /\ s \in Active
    BY <1>1, <1>2
  <2>. QED BY <2>1 DEF KvInv, Good, Active, InFlight
<1>4. req[s].kind = "media" /\ req[s].ctx = <<>> /\ req[s].cursor = <<>>
      /\ req[s].session = NoSession
  BY <1>1, <1>2, <1>3 DEF Shape
<1>5. nat.kv[s] = <<>> /\ nat.pos[s] = Len(<<>>)
  BY <1>1, <1>2, <1>3, <1>4 DEF Holds, Cells
<1>6. Len(<<>>) = 0
  BY ListsAre, Joined
<1>7. \A t \in Seqs : t # s => ~Decodes(req[t])
  BY <1>1, <1>2 DEF Active, InFlight, Decodes
<1>. QED BY <1>1, <1>2, <1>3, <1>4, <1>5, <1>6, <1>7

LEMMA TickMediaStep ==
    ASSUME KvInv, TickMedia
    PROVE  Ticked
<1>0. /\ Good(nat, req, ses) /\ Keyed(saved) /\ req \in [Seqs -> Requests] /\ nat \in Contexts
      /\ \A s \in Seqs : Shape(req[s]) /\ Thrifty(req[s]) /\ Holds(nat, req, ses, s)
  BY DEF KvInv, Good
<1>. DEFINE s == CHOOSE t \in Active : TRUE
            c == Append(nat.kv[s], Media)
            k == nat.pos[s] + 1
            n == [nat EXCEPT !.kv[s] = c, !.pos[s] = k, !.lli[s] = LogitsLast, !.ready = TRUE]
            rq == [req EXCEPT ![s].pending = FALSE]
<1>1. MediaTurn /\ rows' = OneRow(c) /\ AfterStep(n, rq, saved)
      /\ up' = up /\ up = TRUE /\ admitted' = admitted
  BY DEF TickMedia
<1>2. /\ s \in Seqs /\ req[s].pending /\ req[s].kind = "media" /\ req[s].session = NoSession
      /\ req[s].ctx = <<>> /\ req[s].cursor = <<>> /\ ~req[s].finishing
      /\ nat.kv[s] = <<>> /\ nat.pos[s] = 0
      /\ \A t \in Seqs : t # s => ~Decodes(req[t])
  BY <1>1, MediaTurnIs
<1>. HIDE DEF s
<1>3. k = 1 /\ c = <<Media>> /\ <<Media>> \in Lists /\ Len(<<Media>>) = 1
  <2>1. Media \in Cell /\ <<>> \in Lists
    BY ListsAre DEF Cell
  <2>2. Append(<<>>, Media) = <<>> \o <<Media>> /\ <<Media>> \in Lists /\ Len(<<Media>>) = 1
    BY <2>1, Grown
  <2>3. <<>> \o <<Media>> = <<Media>>
    <3>. DEFINE m == <<Media>>
    <3>1. m \in Lists
      BY <2>2
    <3>. HIDE DEF m
    <3>2. <<>> \o m = m
      BY <3>1, Joined
    <3>. QED BY <3>2 DEF m
  <2>. QED BY <1>2, <2>2, <2>3
<1>4. n = With(nat, s, c, k, LogitsLast)
  <2>1. (LogitsLast # LogitsNone) = TRUE
    BY DEF LogitsLast, LogitsNone
  <2>. QED BY <2>1 DEF With
<1>. HIDE DEF c, k, n
<1>5. LogitsLast \in -2 .. Budget - 1 /\ k \in Nat /\ c \in Lists
  BY <1>3, SizesAre
<1>6. n \in Contexts /\ Elsewhere(nat, n, s) /\ n.kv[s] = c /\ n.pos[s] = k /\ n.lli[s] = LogitsLast
  BY <1>0, <1>2, <1>4, <1>5, WithIs
<1>. DEFINE r == [req[s] EXCEPT !.pending = FALSE]
<1>7. /\ r \in Requests /\ r.kind = "media" /\ r.session = NoSession /\ r.ctx = <<>>
      /\ r.cursor = <<>> /\ r.rest = req[s].rest /\ r.ladder = req[s].ladder
      /\ r.gen = req[s].gen /\ ~r.pending /\ r.finishing = req[s].finishing
  BY <1>0, <1>2 DEF Requests
<1>8. rq \in [Seqs -> Requests] /\ \A t \in Seqs : rq[t] = IF t = s THEN r ELSE req[t]
  BY <1>0, <1>2, <1>7
<1>. HIDE DEF r, rq
<1>9. Shape(r) /\ Thrifty(r)
  BY <1>0, <1>2, <1>7 DEF Shape, Thrifty
<1>10. Cells(r) = c
  <2>. DEFINE m == <<Media>>
  <2>1. m \in Lists /\ c = m
    BY <1>3
  <2>2. Cells(r) = m \o <<>>
    BY <1>7 DEF Cells
  <2>. HIDE DEF m
  <2>. QED BY <2>1, <2>2, Joined
<1>11. ASSUME NEW t \in Seqs
       PROVE  /\ Shape(rq[t]) /\ Thrifty(rq[t])
              /\ rq[t].kind = req[t].kind /\ rq[t].session = req[t].session
              /\ n.pos[t] = Len(n.kv[t])
              /\ rq[t].kind # "none" => n.kv[t] = Cells(rq[t])
              /\ rq[t].kind = "none" => n.kv[t] = nat.kv[t] /\ n.lli[t] = nat.lli[t]
  <2>1. CASE t = s
    BY <1>2, <1>3, <1>6, <1>7, <1>8, <1>9, <1>10, <2>1
  <2>2. CASE t # s
    <3>1. n.kv[t] = nat.kv[t] /\ n.pos[t] = nat.pos[t] /\ n.lli[t] = nat.lli[t] /\ rq[t] = req[t]
      BY <1>6, <1>8, <2>2 DEF Elsewhere
    <3>. QED BY <1>0, <3>1 DEF Holds
  <2>. QED BY <2>1, <2>2
<1>12. Good(n, rq, ses)
  BY <1>0, <1>6, <1>8, <1>11, TickGood
<1>13. KvInv'
  BY <1>0, <1>1, <1>12, AfterGood
<1>14. Ready(n, rq, rows')
  <2>1. \A t \in Seqs : Decodes(rq[t]) => t = s
    BY <1>2, <1>8
  <2>2. HasLogits(n, rows', s) /\ LogitsOf(n, rows', s) = n.kv[s]
    <3>1. DOMAIN rows' = {0} /\ rows'[0] = c /\ Max(DOMAIN rows') = 0
      BY <1>1, OneRowIs
    <3>. QED BY <1>6, <3>1 DEF HasLogits, LogitsOf
  <2>. QED BY <2>1, <2>2 DEF Ready
<1>15. Ready(nat', req', rows')
  BY <1>1, <1>14, AfterReady
<1>16. RowsFit(rows')
  BY <1>1, OneRowIs
<1>. QED BY <1>1, <1>13, <1>15, <1>16 DEF Ticked

LEMMA TickMediaFailedStep ==
    ASSUME KvInv, TickMediaFailed
    PROVE  Ticked
<1>0. /\ Good(nat, req, ses) /\ Keyed(saved) /\ req \in [Seqs -> Requests] /\ nat \in Contexts
      /\ ses \in [Sessions -> PinSet] /\ Owned(req, ses)
      /\ \A s \in Seqs : Shape(req[s]) /\ Thrifty(req[s]) /\ Holds(nat, req, ses, s)
  BY DEF KvInv, Good
<1>. DEFINE s == CHOOSE t \in Active : TRUE
            n == Clear(nat, s)
            rq == [req EXCEPT ![s] = NoReq]
<1>1. MediaTurn /\ rows' = <<>> /\ AfterStep(n, rq, saved)
      /\ up' = up /\ up = TRUE /\ admitted' = admitted
  BY DEF TickMediaFailed
<1>2. /\ s \in Seqs /\ req[s].kind = "media" /\ req[s].session = NoSession
      /\ \A t \in Seqs : t # s => ~Decodes(req[t])
  BY <1>1, MediaTurnIs
<1>. HIDE DEF s
<1>3. /\ n \in Contexts /\ Elsewhere(nat, n, s)
      /\ n.kv[s] = <<>> /\ n.pos[s] = 0 /\ n.lli[s] = LogitsNone
  BY <1>0, <1>2, ClearIs
<1>4. rq \in [Seqs -> Requests] /\ \A t \in Seqs : rq[t] = IF t = s THEN NoReq ELSE req[t]
  BY <1>0, <1>2, NoReqIs
<1>. HIDE DEF n, rq
<1>5. \A e \in Sessions : ses[e].seq # s
  BY <1>0, <1>2, SizesAre DEF Owned
<1>6. Owned(rq, ses)
  BY <1>0, <1>4, <1>5, NoReqIs, SizesAre DEF Owned
<1>7. ASSUME NEW t \in Seqs PROVE Holds(n, rq, ses, t) /\ Shape(rq[t]) /\ Thrifty(rq[t])
  <2>1. CASE t = s
    BY <1>3, <1>4, <1>5, <2>1, NoReqIs, ListsAre, Joined DEF Holds
  <2>2. CASE t # s
    <3>1. n.kv[t] = nat.kv[t] /\ n.pos[t] = nat.pos[t] /\ n.lli[t] = nat.lli[t] /\ rq[t] = req[t]
      BY <1>3, <1>4, <2>2 DEF Elsewhere
    <3>. QED BY <1>0, <3>1 DEF Holds
  <2>. QED BY <2>1, <2>2
<1>8. Good(n, rq, ses)
  BY <1>0, <1>3, <1>4, <1>6, <1>7 DEF Good
<1>9. KvInv'
  BY <1>0, <1>1, <1>8, AfterGood
<1>10. Ready(n, rq, rows')
  BY <1>2, <1>4, NoReqIs DEF Ready, Decodes
<1>11. Ready(nat', req', rows')
  BY <1>1, <1>10, AfterReady
<1>12. RowsFit(rows')
  BY <1>1 DEF RowsFit
<1>. QED BY <1>1, <1>9, <1>11, <1>12 DEF Ticked

(* A failed decode or a backend error. *)
LEMMA FailureStep ==
    ASSUME KvInv, up \in BOOLEAN, TickRecover \/ TickSpecNoLogits
    PROVE  Ticked
<1>1. /\ nat' = FreshContext /\ saved' = saved /\ rows' = <<>>
      /\ req' = [s \in Seqs |-> NoReq] /\ ses' = [e \in Sessions |-> NoPin]
      /\ up' \in BOOLEAN /\ admitted' = admitted
  BY DEF TickRecover, TickSpecNoLogits, Stopped
<1>2. KvInv' /\ \A s \in Seqs : ~Decodes(req'[s])
  BY <1>1, FreshStep
<1>3. RowsFit(rows')
  BY <1>1 DEF RowsFit
<1>. QED BY <1>1, <1>2, <1>3 DEF Ticked, Ready


-----------------------------------------------------------------------------
(* Speculative ticks.                                                      *)

(* The tokens a speculative tick may commit. *)
LEMMA CommitsAre ==
    ASSUME KvInv, NEW s \in Seqs, req[s].gen < Target, NEW c \in SpecCommits(s)
    PROVE  /\ c \in Lists /\ Len(c) >= 1 /\ Len(c) <= Target - req[s].gen
           /\ \A i \in 1 .. Len(c) : c[i] \in Tokens
<1>. DEFINE g == req[s].gen
            room == Min({MaxDraft + 1, Target - g})
<1>0. g \in Nat /\ Target \in Nat /\ MaxDraft \in Nat /\ Target - g \in Nat /\ MaxDraft + 1 \in Nat
  BY SizesAre DEF KvInv, Good, Requests
<1>1. room \in Nat /\ room <= Target - g
  <2>. HIDE DEF g
  <2>1. room = IF MaxDraft + 1 <= Target - g THEN MaxDraft + 1 ELSE Target - g
    BY <1>0, MinOfTwo
  <2>. QED BY <1>0, <2>1
<1>2. PICK m \in 1 .. room : c \in [1 .. m -> Tokens]
  BY DEF SpecCommits
<1>. HIDE DEF g, room
<1>3. m \in Nat /\ m >= 1 /\ m <= Target - g
  BY <1>0, <1>1, <1>2
<1>4. c \in Seq(Tokens)
  BY <1>2, <1>3, SeqDef
<1>5. Len(c) = m
  BY <1>2, <1>3, <1>4, LenProperties
<1>6. Tokens \subseteq Cell
  BY DEF Cell
<1>7. c \in Lists
  BY <1>4, <1>6, SeqMonotonic, ListsAre
<1>. QED BY <1>2, <1>3, <1>5, <1>7 DEF g

(* The requests f[0 .. k] take the first k of the tokens c one by one. *)
Takers(f, r, c, k, stop) ==
    /\ f[0] = r
    /\ \A i \in 1 .. k : f[i] = Marked(Appended(f[i - 1], c[i], stop /\ i = k))

LEMMA SpecRequestsAre ==
    ASSUME NEW s \in Seqs, req[s] \in Requests, NEW c, NEW k \in Nat, NEW stop \in BOOLEAN,
           \A i \in 1 .. k : c[i] \in Tokens
    PROVE  Takers(SpecRequests(s, c, k, stop), req[s], c, k, stop)
<1>. DEFINE X == [kind : Kinds \cup {"none"}, session : Sessions \cup {NoSession},
                  ctx : Lists, cursor : Lists, rest : Lists, ladder : BOOLEAN,
                  gen : Nat, lastSave : Nat, pending : BOOLEAN, finishing : BOOLEAN]
            M(i, v) == Marked(Appended(v, c[i], stop /\ i = k))
            h == [q \in Nat |-> [v \in X |-> IF q + 1 \in 1 .. k THEN M(q + 1, v) ELSE v]]
<1>1. ASSUME NEW i \in 1 .. k, NEW v \in X PROVE M(i, v) \in X
  <2>. DEFINE a == Append(v.ctx, c[i])
              g == v.gen + 1
              b == ((stop /\ i = k) \/ v.gen + 1 >= Target)
              q == Appended(v, c[i], stop /\ i = k)
  <2>1. q = [v EXCEPT !.ctx = a, !.gen = g, !.finishing = b]
    BY DEF Appended
  <2>2. c[i] \in Cell /\ v.ctx \in Lists
    BY ListsAre
  <2>3. a \in Lists /\ g \in Nat /\ b \in BOOLEAN
    <3>1. a \in Lists
      BY <2>2, Grown
    <3>2. g \in Nat
      OBVIOUS
    <3>3. b \in BOOLEAN
      OBVIOUS
    <3>. QED BY <3>1, <3>2, <3>3
  <2>. HIDE DEF a, g, b, q
  <2>4. q \in X
    BY <2>1, <2>3
  <2>5. Len(q.ctx) \in Nat
    BY <2>4, Joined
  <2>6. Marked(q) \in X
    BY <2>4, <2>5 DEF Marked
  <2>. QED BY <2>6 DEF q
<1>2. req[s] \in X
  BY SizesAre DEF Requests
<1>3. \A q \in Nat : \A v \in X : h[q][v] = IF q + 1 \in 1 .. k THEN M(q + 1, v) ELSE v
  OBVIOUS
<1>4. h \in Steps(X)
  <2>. DEFINE e(q, v) == IF q + 1 \in 1 .. k THEN M(q + 1, v) ELSE v
  <2>1. \A q \in Nat : \A v \in X : e(q, v) \in X
    BY <1>1
  <2>2. h = [q \in Nat |-> [v \in X |-> e(q, v)]]
    OBVIOUS
  <2>. HIDE DEF e, h, X, M
  <2>. QED BY <2>1, <2>2 DEF Steps
<1>. HIDE DEF h, X, M
<1>5. \E f : Iterates(f, X, req[s], h)
  <2>. DEFINE r == req[s]
  <2>1. r \in X
    BY <1>2
  <2>. HIDE DEF r
  <2>2. \E f : Iterates(f, X, r, h)
    BY <1>4, <2>1, RecursionExists
  <2>. QED BY <2>2 DEF r
<1>6. PICK f : Iterates(f, X, req[s], h)
  BY <1>5
<1>. DEFINE d == [i \in 0 .. k |-> f[i]]
<1>7. ASSUME NEW i \in 0 .. k
      PROVE  d[i] = IF i = 0 THEN req[s] ELSE M(i, d[i - 1])
  <2>1. CASE i = 0
    <3>1. d[i] = f[i] /\ f[0] = req[s]
      BY <1>6 DEF Iterates
    <3>. QED BY <2>1, <3>1
  <2>2. CASE i # 0
    <3>0. i - 1 \in Nat /\ i - 1 \in 0 .. k /\ (i - 1) + 1 = i /\ i \in 1 .. k
      BY <2>2
    <3>1. f[i - 1] \in X
      BY <1>6, <3>0 DEF Iterates
    <3>2. f[(i - 1) + 1] = h[i - 1][f[i - 1]]
      BY <1>6, <3>0 DEF Iterates
    <3>. QED BY <1>3, <2>2, <3>0, <3>1, <3>2
  <2>. QED BY <2>1, <2>2
<1>8. d = [i \in 0 .. k |-> IF i = 0 THEN req[s] ELSE M(i, d[i - 1])]
  BY <1>7
<1>. HIDE DEF d
<1>. DEFINE r == SpecRequests(s, c, k, stop)
<1>9. r = [i \in 0 .. k |-> IF i = 0 THEN req[s] ELSE M(i, r[i - 1])]
  BY <1>8 DEF SpecRequests, M
<1>. HIDE DEF r
<1>10. r[0] = req[s]
  <2>1. 0 \in 0 .. k
    OBVIOUS
  <2>. QED BY <1>9, <2>1
<1>11. ASSUME NEW i \in 1 .. k PROVE r[i] = M(i, r[i - 1])
  <2>1. i \in 0 .. k /\ i # 0
    OBVIOUS
  <2>. QED BY <1>9, <2>1
<1>. QED BY <1>10, <1>11 DEF Takers, M, r

(* A speculative request after i of its tokens: they are in its context,   *)
(* it goes on unless it was the last one, and none of them was saved.      *)
Took(w, r, c, i, k, stop) ==
    /\ w \in Requests /\ Shape(w) /\ Thrifty(w)
    /\ w.kind = "spec" /\ w.session = r.session /\ w.cursor = <<>> /\ ~w.pending
    /\ w.ctx = r.ctx \o SubSeq(c, 1, i) /\ w.gen = r.gen + i
    /\ i < k => ~w.finishing
    /\ stop /\ i = k => w.finishing

LEMMA TookMore ==
    ASSUME SavesWhole, NEW r \in Requests, r.gen >= 1,
           NEW c \in Lists, Len(c) <= Target - r.gen, \A j \in 1 .. Len(c) : c[j] \in Tokens,
           NEW k \in 1 .. Len(c), NEW stop \in BOOLEAN,
           NEW i \in 1 .. k, NEW w, Took(w, r, c, i - 1, k, stop)
    PROVE  /\ Took(Marked(Appended(w, c[i], stop /\ i = k)), r, c, i, k, stop)
           /\ ~ContinuedSaves(Appended(w, c[i], stop /\ i = k))
<1>. DEFINE t == c[i]
            b == (stop /\ i = k)
            q == Appended(w, t, b)
            v == Marked(q)
<1>0. /\ Len(c) \in Nat /\ k \in Nat /\ i \in Nat /\ i <= k /\ k <= Len(c) /\ i >= 1
      /\ r.gen \in Nat /\ Target \in Nat
  <2>1. Len(c) \in Nat
    BY Joined
  <2>2. r.gen \in Nat
    BY SizesAre DEF Requests
  <2>. QED BY <2>1, <2>2, SizesAre
<1>1. /\ w \in Requests /\ Shape(w) /\ Thrifty(w)
      /\ w.kind = "spec" /\ w.session = r.session /\ w.cursor = <<>> /\ ~w.pending
      /\ w.ctx = r.ctx \o SubSeq(c, 1, i - 1) /\ w.gen = r.gen + (i - 1) /\ ~w.finishing
  <2>1. i - 1 < k
    BY <1>0
  <2>. QED BY <2>1 DEF Took
<1>2. Decodes(w) /\ t \in Tokens /\ b \in BOOLEAN
  <2>1. i \in 1 .. Len(c)
    BY <1>0
  <2>. QED BY <1>1, <2>1 DEF Decodes
<1>. HIDE DEF t, b
<1>3. Sampled(w, q, t, b)
  BY <1>1, <1>2, SampledIs
<1>4. Extends(w, v, <<t>>)
  BY <1>1, <1>2, AppendedIs
<1>. HIDE DEF q
<1>5. /\ v.cursor = q.cursor /\ v.pending = q.pending /\ v.gen = q.gen
      /\ v.finishing = q.finishing
  <2>1. q \in Requests
    BY <1>3 DEF Sampled
  <2>. QED BY <2>1, MarkedIs
<1>. HIDE DEF v
<1>6. v.ctx = r.ctx \o SubSeq(c, 1, i)
  <2>0. c \in Seq(Cell)
    BY ListsAre
  <2>1. 1 \in 1 .. Len(c) /\ i \in 1 .. Len(c) /\ i - 1 \in 0 .. Len(c)
    BY <1>0
  <2>2. SubSeq(c, 1, i) = SubSeq(c, 1, i - 1) \o <<c[i]>>
    BY <2>0, <2>1, SubSeqRecursiveSecond
  <2>. DEFINE x == r.ctx
              y == SubSeq(c, 1, i - 1)
              z == <<t>>
  <2>3. x \in Lists /\ y \in Lists /\ z \in Lists
    BY <1>2, <2>1, Cut, ListsAre DEF Requests
  <2>4. v.ctx = (x \o y) \o z /\ SubSeq(c, 1, i) = y \o z
    BY <1>1, <1>4, <2>2 DEF Extends, t
  <2>. HIDE DEF x, y, z
  <2>5. (x \o y) \o z = x \o (y \o z)
    BY <2>3, Chained
  <2>. QED BY <2>4, <2>5 DEF x
<1>7. v.gen = r.gen + i /\ q.gen = r.gen + i
  <2>1. q.gen = w.gen + 1 /\ v.gen = q.gen
    BY <1>3, <1>5 DEF Sampled
  <2>. QED BY <1>0, <1>1, <2>1
<1>8. v.finishing <=> b \/ r.gen + i >= Target
  <2>1. q.finishing <=> b \/ w.gen + 1 >= Target
    BY <1>3 DEF Sampled
  <2>2. w.gen + 1 = r.gen + i
    BY <1>0, <1>1
  <2>. QED BY <1>5, <2>1, <2>2
<1>9. i < k => ~v.finishing
  <2>. SUFFICES ASSUME i < k PROVE ~v.finishing
    OBVIOUS
  <2>1. ~b
    BY <1>0 DEF b
  <2>2. ~(r.gen + i >= Target)
    BY <1>0
  <2>. QED BY <1>8, <2>1, <2>2
<1>10. stop /\ i = k => v.finishing
  BY <1>8 DEF b
<1>11. Took(v, r, c, i, k, stop)
  <2>1. /\ v \in Requests /\ Shape(v) /\ Thrifty(v) /\ v.kind = "spec" /\ v.session = r.session
    BY <1>1, <1>4 DEF Extends
  <2>2. v.cursor = <<>> /\ ~v.pending
    BY <1>3, <1>5 DEF Sampled
  <2>. QED BY <1>6, <1>7, <1>9, <1>10, <2>1, <2>2 DEF Took
<1>12. ~ContinuedSaves(q)
  <2>. SUFFICES ASSUME ~q.finishing PROVE ~(Len(q.ctx) - q.lastSave >= Interval)
    BY DEF ContinuedSaves
  <2>1. ~(r.gen + i >= Target)
    BY <1>5, <1>8
  <2>2. Len(q.ctx) = Len(w.ctx) + 1 /\ q.lastSave = w.lastSave
    BY <1>3 DEF Sampled
  <2>3. w.gen >= 1 /\ w.gen + 1 < Target
    BY <1>0, <1>1, <2>1
  <2>4. Len(w.ctx) <= w.lastSave + w.gen
    BY <1>1, <2>3 DEF Thrifty
  <2>5. Len(w.ctx) \in Nat /\ w.lastSave \in Nat /\ w.gen \in Nat
    BY <1>1, Joined, SizesAre DEF Requests
  <2>6. Target <= Interval
    <3>1. "spec" \in Kinds
      BY <1>1 DEF Requests
    <3>. QED BY <3>1 DEF SavesWhole
  <2>. QED BY <2>2, <2>3, <2>4, <2>5, <2>6, SizesAre
<1>. QED BY <1>11, <1>12 DEF v, q, t, b


LEMMA TakersTook ==
    ASSUME SavesWhole, NEW r \in Requests, Shape(r), Thrifty(r), Decodes(r), r.kind = "spec",
           r.gen >= 1,
           NEW c \in Lists, Len(c) <= Target - r.gen, \A j \in 1 .. Len(c) : c[j] \in Tokens,
           NEW k \in 1 .. Len(c), NEW stop \in BOOLEAN, NEW f, Takers(f, r, c, k, stop)
    PROVE  /\ Took(f[k], r, c, k, k, stop)
           /\ \A j \in 1 .. k : ~ContinuedSaves(Appended(f[j - 1], c[j], stop /\ j = k))
<1>0. Len(c) \in Nat /\ k \in Nat /\ k >= 1 /\ r.gen \in Nat
  <2>1. Len(c) \in Nat
    BY Joined
  <2>. QED BY <2>1, SizesAre DEF Requests
<1>. DEFINE S == {i \in Nat : i <= k => Took(f[i], r, c, i, k, stop)}
<1>1. 0 \in S
  <2>1. SubSeq(c, 1, 0) = <<>>
    <3>1. 0 \in 0 .. Len(c)
      BY <1>0
    <3>2. SubSeq(c, 1, 0) \in Lists /\ Len(SubSeq(c, 1, 0)) = 0
      BY <3>1, Cut
    <3>. QED BY <3>2, Joined
  <2>2. r.ctx \o <<>> = r.ctx
    BY Joined DEF Requests
  <2>3. f[0] = r /\ r.gen + 0 = r.gen /\ ~(0 = k)
    BY <1>0 DEF Takers
  <2>4. Took(f[0], r, c, 0, k, stop)
    BY <2>1, <2>2, <2>3 DEF Took, Decodes
  <2>. QED BY <2>4
<1>2. ASSUME NEW i \in 1 .. k, i - 1 \in S
      PROVE  /\ Took(f[i], r, c, i, k, stop)
             /\ ~ContinuedSaves(Appended(f[i - 1], c[i], stop /\ i = k))
  <2>. DEFINE w == f[i - 1]
  <2>1. Took(w, r, c, i - 1, k, stop)
    BY <1>0, <1>2
  <2>2. f[i] = Marked(Appended(w, c[i], stop /\ i = k))
    BY DEF Takers
  <2>. HIDE DEF w
  <2>3. /\ Took(Marked(Appended(w, c[i], stop /\ i = k)), r, c, i, k, stop)
        /\ ~ContinuedSaves(Appended(w, c[i], stop /\ i = k))
    BY <2>1, TookMore
  <2>. QED BY <2>2, <2>3 DEF w
<1>3. ASSUME NEW i \in Nat, i \in S PROVE i + 1 \in S
  <2>. SUFFICES ASSUME i + 1 <= k PROVE Took(f[i + 1], r, c, i + 1, k, stop)
    OBVIOUS
  <2>1. i + 1 \in 1 .. k /\ (i + 1) - 1 = i
    BY <1>0
  <2>. HIDE DEF S
  <2>. QED BY <1>2, <1>3, <2>1
<1>4. Nat \subseteq S
  <2>. HIDE DEF S
  <2>. QED BY <1>1, <1>3, SetInduction
<1>5. Took(f[k], r, c, k, k, stop)
  BY <1>0, <1>4
<1>6. ASSUME NEW j \in 1 .. k
      PROVE  ~ContinuedSaves(Appended(f[j - 1], c[j], stop /\ j = k))
  <2>1. j - 1 \in Nat
    BY <1>0
  <2>2. j - 1 \in S
    BY <1>4, <2>1
  <2>. HIDE DEF S
  <2>. QED BY <1>2, <2>2
<1>. QED BY <1>5, <1>6

(* What is kept of a longer list. *)
LEMMA KeepsFront ==
    ASSUME NEW x \in Lists, NEW c \in Lists, NEW k \in 1 .. Len(c)
    PROVE  /\ Len(x \o SubSeq(c, 1, k)) = Len(x) + k
           /\ Len(x) + k \in 0 .. Len(x \o c)
           /\ SubSeq(x \o c, 1, Len(x) + k) = x \o SubSeq(c, 1, k)
<1>. DEFINE a == SubSeq(c, 1, k)
            b == SubSeq(c, k + 1, Len(c))
<1>0. Len(x) \in Nat /\ Len(c) \in Nat
  BY Joined
<1>1. k \in 0 .. Len(c) /\ k \in Nat /\ k >= 1
  BY <1>0
<1>2. a \in Lists /\ b \in Lists /\ Len(a) = k /\ Len(b) = Len(c) - k /\ a \o b = c
  BY <1>1, Cut
<1>. HIDE DEF a, b
<1>3. (x \o a) \o b = x \o c
  BY <1>2, Chained
<1>4. x \o a \in Lists /\ Len(x \o a) = Len(x) + k
  BY <1>2, Joined
<1>5. Len(x \o c) = Len(x) + Len(c)
  BY Joined
<1>. DEFINE y == x \o a
            m == Len(x) + k
<1>6. y \in Seq(Cell) /\ b \in Seq(Cell) /\ Len(y) = m /\ m \in Nat /\ m >= 1
  BY <1>0, <1>1, <1>2, <1>4, ListsAre
<1>. HIDE DEF y, m
<1>7. 1 \in 1 .. Len(y) /\ m \in 1 .. Len(y)
  BY <1>6
<1>8. SubSeq(y \o b, 1, m) = SubSeq(y, 1, m)
  BY <1>6, <1>7, SubSeqOfConcat1
<1>9. SubSeq(y, 1, Len(y)) = y
  BY <1>6, SubSeqFull
<1>10. SubSeq(x \o c, 1, m) = y
  BY <1>3, <1>6, <1>8, <1>9 DEF y
<1>11. m \in 0 .. Len(x \o c)
  BY <1>0, <1>1, <1>5 DEF m
<1>. QED BY <1>4, <1>10, <1>11 DEF m, y, a

(* The turn of a speculative request: nobody else is active. *)
LEMMA SpecTurnIs ==
    ASSUME KvInv, SpecTurn, NEW s, s = CHOOSE t \in Active : TRUE
    PROVE  /\ s \in Seqs /\ Decodes(req[s]) /\ req[s].kind = "spec" /\ req[s].gen >= 1
           /\ req[s].gen < Target
           /\ \A t \in Seqs : t # s => ~Decodes(req[t])
<1>1. PICK x \in Decoders : Active = {x} /\ req[x].kind = "spec" /\ req[x].gen >= 1
                            /\ Target - req[x].gen >= 2
  BY DEF SpecTurn
<1>2. s = x
  BY <1>1
<1>3. s \in Seqs /\ Decodes(req[s])
  BY <1>1, <1>2, DecodersAre DEF KvInv
<1>4. req[s].gen < Target
  BY <1>3 DEF KvInv, Good, Shape, Decodes
<1>5. \A t \in Seqs : t # s => ~Decodes(req[t])
  BY <1>1, <1>2 DEF Active, InFlight, Decodes
<1>. QED BY <1>1, <1>2, <1>3, <1>4, <1>5

LEMMA TickSpecStep ==
    ASSUME SavesWhole, KvInv, TickSpec
    PROVE  Ticked
<1>0. /\ Good(nat, req, ses) /\ Keyed(saved) /\ req \in [Seqs -> Requests] /\ nat \in Contexts
      /\ \A s \in Seqs : Shape(req[s]) /\ Thrifty(req[s]) /\ Holds(nat, req, ses, s)
  BY DEF KvInv, Good
<1>. DEFINE s == CHOOSE t \in Active : TRUE
<1>1. SpecTurn /\ up' = up /\ up = TRUE /\ admitted' = admitted
  BY DEF TickSpec
<1>2. PICK c \in SpecCommits(s), stop \in BOOLEAN :
         \E k \in IF stop THEN 1 .. Len(c) ELSE {Len(c)} :
            LET n == SpecContext(s, c)
                r == SpecRequests(s, c, k, stop)
                sv == {Row(r[i].ctx, n.kv[s]) :
                          i \in {j \in 1 .. k : ContinuedSaves(Appended(r[j - 1], c[j], stop /\ j = k))}}
            IN  /\ rows' = OneRow(n.kv[s])
                /\ AfterStep(SpecTrim(n, s, r[k]), [req EXCEPT ![s] = r[k]], Save(saved, sv))
  BY DEF TickSpec
<1>3. PICK k \in IF stop THEN 1 .. Len(c) ELSE {Len(c)} :
            LET n == SpecContext(s, c)
                r == SpecRequests(s, c, k, stop)
                sv == {Row(r[i].ctx, n.kv[s]) :
                          i \in {j \in 1 .. k : ContinuedSaves(Appended(r[j - 1], c[j], stop /\ j = k))}}
            IN  /\ rows' = OneRow(n.kv[s])
                /\ AfterStep(SpecTrim(n, s, r[k]), [req EXCEPT ![s] = r[k]], Save(saved, sv))
  BY <1>2
<1>. DEFINE f == SpecRequests(s, c, k, stop)
            w == f[k]
            m == SpecContext(s, c)
            n == SpecTrim(m, s, w)
            rq == [req EXCEPT ![s] = w]
            J == {j \in 1 .. k : ContinuedSaves(Appended(f[j - 1], c[j], stop /\ j = k))}
            new == {Row(f[i].ctx, m.kv[s]) : i \in J}
            x == req[s].ctx
<1>4. rows' = OneRow(m.kv[s]) /\ AfterStep(n, rq, Save(saved, new))
  BY <1>3
<1>5. /\ s \in Seqs /\ Decodes(req[s]) /\ req[s].kind = "spec" /\ req[s].gen >= 1
      /\ req[s].gen < Target
      /\ \A t \in Seqs : t # s => ~Decodes(req[t])
  BY <1>1, SpecTurnIs
<1>6. /\ c \in Lists /\ Len(c) >= 1 /\ Len(c) <= Target - req[s].gen
      /\ \A i \in 1 .. Len(c) : c[i] \in Tokens
  <2>. HIDE DEF s
  <2>. QED BY <1>5, CommitsAre
<1>. HIDE DEF s
<1>7. Len(c) \in Nat
  BY <1>6, Joined
<1>8. k \in 1 .. Len(c) /\ k \in Nat /\ (~stop => k = Len(c)) /\ \A i \in 1 .. k : c[i] \in Tokens
  BY <1>3, <1>6, <1>7
<1>9. req[s] \in Requests /\ Shape(req[s]) /\ Thrifty(req[s])
  BY <1>0, <1>5
<1>10. Takers(f, req[s], c, k, stop)
  BY <1>5, <1>8, <1>9, SpecRequestsAre
<1>. HIDE DEF f
<1>11. /\ Took(w, req[s], c, k, k, stop)
       /\ \A j \in 1 .. k : ~ContinuedSaves(Appended(f[j - 1], c[j], stop /\ j = k))
  <2>. DEFINE r == req[s]
  <2>1. /\ r \in Requests /\ Shape(r) /\ Thrifty(r) /\ Decodes(r) /\ r.kind = "spec" /\ r.gen >= 1
        /\ Len(c) <= Target - r.gen /\ Takers(f, r, c, k, stop)
    BY <1>5, <1>6, <1>9, <1>10
  <2>. HIDE DEF r
  <2>2. /\ Took(f[k], r, c, k, k, stop)
        /\ \A j \in 1 .. k : ~ContinuedSaves(Appended(f[j - 1], c[j], stop /\ j = k))
    BY <1>6, <1>8, <2>1, TakersTook
  <2>. QED BY <2>2 DEF r
<1>12. Keyed(Save(saved, new))
  <2>1. J = {}
    BY <1>11
  <2>. HIDE DEF J
  <2>2. new = {}
    BY <2>1
  <2>. HIDE DEF new
  <2>3. Keyed(new)
    BY <2>2 DEF Keyed
  <2>. QED BY <1>0, <2>3, SaveKeyed
<1>. HIDE DEF w, new, J
<1>13. /\ w \in Requests /\ Shape(w) /\ Thrifty(w) /\ w.kind = "spec" /\ w.session = req[s].session
       /\ w.ctx = x \o SubSeq(c, 1, k) /\ Cells(w) = w.ctx
       /\ stop => w.finishing
  BY <1>11 DEF Took, Cells
<1>14. nat.kv[s] = x /\ x \in Lists /\ nat.pos[s] = Len(x) /\ Len(x) \in Nat
  <2>1. nat.kv[s] = x /\ nat.pos[s] = Len(x)
    BY <1>0, <1>5 DEF Holds, Cells
  <2>2. x \in Lists
    BY <1>9 DEF Requests
  <2>. QED BY <2>1, <2>2, Joined
<1>. HIDE DEF x
<1>15. /\ Len(w.ctx) = Len(x) + k /\ Len(x) + k \in 0 .. Len(x \o c)
       /\ SubSeq(x \o c, 1, Len(x) + k) = w.ctx
  BY <1>6, <1>8, <1>13, <1>14, KeepsFront
<1>16. /\ m \in Contexts /\ Elsewhere(nat, m, s) /\ m.kv[s] = x \o c /\ m.pos[s] = Len(m.kv[s])
       /\ m.lli[s] = 0
  <2>. DEFINE y == nat.kv[s] \o c
              l == nat.pos[s] + Len(c)
  <2>1. y = x \o c /\ y \in Lists /\ Len(y) = l /\ l \in Nat
    <3>1. x \o c \in Lists /\ Len(x \o c) = Len(x) + Len(c)
      BY <1>6, <1>14, Joined
    <3>. QED BY <1>7, <1>14, <3>1
  <2>. DEFINE z == 0
  <2>2. (z # LogitsNone) = TRUE
    BY DEF LogitsNone
  <2>3. m = With(nat, s, y, l, z)
    BY <2>2 DEF SpecContext, With
  <2>4. z \in -2 .. Budget - 1
    BY SizesAre
  <2>. HIDE DEF y, l, m, z
  <2>5. nat \in Contexts /\ y \in Lists /\ l \in Nat
    BY <1>0, <2>1
  <2>6. LET q == With(nat, s, y, l, z) IN
        /\ q \in Contexts /\ Elsewhere(nat, q, s)
        /\ q.kv[s] = y /\ q.pos[s] = l /\ q.lli[s] = z
    BY <1>5, <2>4, <2>5, WithIs
  <2>7. m \in Contexts /\ Elsewhere(nat, m, s) /\ m.kv[s] = y /\ m.pos[s] = l /\ m.lli[s] = z
    BY <2>3, <2>6
  <2>. QED BY <2>1, <2>7 DEF z
<1>. HIDE DEF m
<1>17. /\ n \in Contexts /\ Elsewhere(nat, n, s) /\ n.kv[s] = w.ctx /\ n.pos[s] = Len(n.kv[s])
       /\ ~stop => n = m
  <2>1. CASE Len(w.ctx) < Len(m.kv[s])
    <3>. DEFINE l == Len(w.ctx)
    <3>1. n = Trim(m, s, l)
      BY <2>1 DEF SpecTrim
    <3>2. l \in 0 .. Len(m.kv[s])
      BY <1>15, <1>16
    <3>3. /\ n \in Contexts /\ Elsewhere(m, n, s) /\ n.pos[s] = Len(w.ctx)
          /\ n.kv[s] = SubSeq(m.kv[s], 1, Len(w.ctx))
      <4>. HIDE DEF n, l
      <4>1. /\ n \in Contexts /\ Elsewhere(m, n, s) /\ n.pos[s] = l
            /\ n.kv[s] = SubSeq(m.kv[s], 1, l)
        BY <1>5, <1>16, <3>1, <3>2, TrimIs
      <4>. QED BY <4>1 DEF l
    <3>4. n.kv[s] = w.ctx
      BY <1>15, <1>16, <3>3
    <3>5. Elsewhere(nat, n, s)
      BY <1>5, <1>16, <3>3, ElsewhereTwice
    <3>6. stop
      <4>1. Len(x \o c) = Len(x) + Len(c)
        BY <1>6, <1>14, Joined
      <4>. QED BY <1>7, <1>8, <1>14, <1>15, <1>16, <2>1, <4>1
    <3>. QED BY <3>3, <3>4, <3>5, <3>6
  <2>2. CASE ~(Len(w.ctx) < Len(m.kv[s]))
    <3>1. n = m
      BY <2>2 DEF SpecTrim
    <3>2. Len(x \o c) = Len(x) + Len(c) /\ x \o c \in Lists
      BY <1>6, <1>14, Joined
    <3>3. k = Len(c)
      BY <1>7, <1>8, <1>14, <1>15, <1>16, <2>2, <3>2
    <3>4. SubSeq(c, 1, Len(c)) = c
      BY <1>6, ListsAre, SubSeqFull
    <3>5. w.ctx = x \o c
      BY <1>13, <3>3, <3>4
    <3>. QED BY <1>16, <3>1, <3>5
  <2>. QED BY <2>1, <2>2
<1>. HIDE DEF n
<1>18. rq \in [Seqs -> Requests] /\ \A t \in Seqs : rq[t] = IF t = s THEN w ELSE req[t]
  BY <1>0, <1>5, <1>13
<1>. HIDE DEF rq
<1>19. ASSUME NEW t \in Seqs
       PROVE  /\ Shape(rq[t]) /\ Thrifty(rq[t])
              /\ rq[t].kind = req[t].kind /\ rq[t].session = req[t].session
              /\ n.pos[t] = Len(n.kv[t])
              /\ rq[t].kind # "none" => n.kv[t] = Cells(rq[t])
              /\ rq[t].kind = "none" => n.kv[t] = nat.kv[t] /\ n.lli[t] = nat.lli[t]
  <2>1. CASE t = s
    BY <1>5, <1>13, <1>17, <1>18, <2>1
  <2>2. CASE t # s
    <3>1. n.kv[t] = nat.kv[t] /\ n.pos[t] = nat.pos[t] /\ n.lli[t] = nat.lli[t] /\ rq[t] = req[t]
      BY <1>17, <1>18, <2>2 DEF Elsewhere
    <3>. QED BY <1>0, <3>1 DEF Holds
  <2>. QED BY <2>1, <2>2
<1>20. Good(n, rq, ses)
  BY <1>0, <1>17, <1>18, <1>19, TickGood
<1>21. KvInv'
  BY <1>4, <1>12, <1>20, AfterGood
<1>22. Ready(n, rq, rows')
  <2>. SUFFICES ASSUME NEW t \in Seqs, Decodes(rq[t])
                PROVE  HasLogits(n, rows', t) /\ LogitsOf(n, rows', t) = n.kv[t]
    BY DEF Ready
  <2>1. t = s /\ rq[t] = w
    BY <1>5, <1>18
  <2>2. n = m
    BY <1>13, <1>17, <2>1 DEF Decodes
  <2>3. DOMAIN rows' = {0} /\ rows'[0] = m.kv[s]
    BY <1>4, OneRowIs
  <2>4. 0 # LogitsLast
    BY DEF LogitsLast
  <2>. QED BY <1>16, <2>1, <2>2, <2>3, <2>4 DEF HasLogits, LogitsOf
<1>23. Ready(nat', req', rows')
  BY <1>4, <1>22, AfterReady
<1>24. RowsFit(rows')
  BY <1>4, OneRowIs
<1>. QED BY <1>1, <1>21, <1>23, <1>24 DEF Ticked


-----------------------------------------------------------------------------
(* Every step, and the theorems.                                           *)

(* The steps that are not ticks. *)
LEMMA QuietSteps ==
    ASSUME SavesWhole, KvInv, Next
    PROVE  \/ KvInv' /\ Quiet
           \/ TickMedia \/ TickMediaFailed \/ TickSpec \/ TickSpecNoLogits
           \/ TickStep \/ TickRecover
<1>1. ASSUME NEW k \in TextKinds, NEW e \in Sessions \cup {NoSession}, NEW p \in Prompts,
             AdmitNew(k, e, p)
      PROVE  KvInv' /\ Quiet
  BY <1>1, AdmitNewStep
<1>2. ASSUME NEW k \in TextKinds, NEW e \in Sessions, NEW p \in Prompts,
             AdmitSticky(k, e, p) \/ AdmitDiverged(k, e, p)
      PROVE  KvInv' /\ Quiet
  BY <1>2, AdmitStickyStep, AdmitDivergedStep
<1>3. ASSUME NEW k \in TextKinds \ {"prefill_only"}, NEW e \in Sessions, NEW x \in Tails,
             AdmitContinue(k, e, x)
      PROVE  KvInv' /\ Quiet
  BY <1>3, AdmitContinueStep
<1>4. CASE "media" \in Kinds /\ AdmitMedia
  BY <1>4, AdmitMediaStep
<1>5. ASSUME NEW e \in Sessions, EndSession(e) \/ ResetSession(e)
      PROVE  KvInv' /\ Quiet
  BY <1>5, EndSessionStep, ResetSessionStep
<1>6. ASSUME NEW e \in Sessions, NEW f \in Sessions, ForkSession(e, f)
      PROVE  KvInv' /\ Quiet
  BY <1>6, ForkSessionStep
<1>7. ASSUME NEW s \in Seqs, Cancel(s)
      PROVE  KvInv' /\ Quiet
  BY <1>7, CancelStep
<1>8. CASE Evict
  BY <1>8, EvictStep
<1>. QED BY <1>1, <1>2, <1>3, <1>4, <1>5, <1>6, <1>7, <1>8 DEF Next

(* The inductive invariant: what the seqs hold, and with it the logits the *)
(* next tokens are sampled from.                                           *)
SeqInv ==
    /\ KvInv /\ RowsFit(rows) /\ up \in BOOLEAN /\ admitted \in 0 .. MaxReqs
    /\ "empty_suffix" \notin Risky => Ready(nat, req, rows)

LEMMA SeqInvInit == Init => SeqInv
<1>. SUFFICES ASSUME Init PROVE SeqInv
  OBVIOUS
<1>1. /\ nat = FreshContext /\ rows = <<>> /\ saved = {} /\ up = TRUE /\ admitted = 0
      /\ req = [s \in Seqs |-> NoReq] /\ ses = [e \in Sessions |-> NoPin]
  BY DEF Init
<1>2. KvInv
  BY <1>1, FreshGood DEF KvInv, Keyed
<1>3. Ready(nat, req, rows)
  BY <1>1, NoReqIs DEF Ready, Decodes
<1>4. RowsFit(rows)
  BY <1>1 DEF RowsFit
<1>5. admitted \in 0 .. MaxReqs
  BY <1>1, SizesAssumption
<1>. QED BY <1>1, <1>2, <1>3, <1>4, <1>5 DEF SeqInv

LEMMA SeqInvStep ==
    ASSUME SavesWhole, SeqInv, [Next]_vars
    PROVE  SeqInv'
<1>0. /\ KvInv /\ RowsFit(rows) /\ up \in BOOLEAN /\ admitted \in 0 .. MaxReqs
      /\ "empty_suffix" \notin Risky => Ready(nat, req, rows)
  BY DEF SeqInv
<1>1. CASE KvInv' /\ Quiet
  <2>1. rows' = rows /\ up' = up
    BY <1>1 DEF Quiet
  <2>2. admitted' \in 0 .. MaxReqs
    BY <1>0, <1>1, SizesAssumption DEF Quiet
  <2>3. ASSUME "empty_suffix" \notin Risky PROVE Ready(nat', req', rows')
    <3>. SUFFICES ASSUME NEW t \in Seqs, Decodes(req'[t])
                  PROVE  HasLogits(nat', rows', t) /\ LogitsOf(nat', rows', t) = nat'.kv[t]
      BY DEF Ready
    <3>1. Decodes(req[t]) /\ nat'.kv[t] = nat.kv[t] /\ nat'.lli[t] = nat.lli[t]
      BY <1>1, <2>3 DEF Quiet
    <3>2. HasLogits(nat, rows, t) /\ LogitsOf(nat, rows, t) = nat.kv[t]
      BY <1>0, <2>3, <3>1 DEF Ready
    <3>. QED BY <2>1, <3>1, <3>2 DEF HasLogits, LogitsOf
  <2>4. RowsFit(rows') /\ up' \in BOOLEAN
    BY <1>0, <2>1
  <2>. QED BY <1>1, <2>2, <2>3, <2>4 DEF SeqInv
<1>2. CASE Ticked
  BY <1>0, <1>2 DEF SeqInv, Ticked
<1>3. CASE Next
  <2>1. CASE TickMedia \/ TickMediaFailed \/ TickSpec \/ TickSpecNoLogits \/ TickStep \/ TickRecover
    <3>1. Ticked
      BY <1>0, <2>1, TickMediaStep, TickMediaFailedStep, TickSpecStep, TickStepStep, FailureStep
    <3>. QED BY <1>2, <3>1
  <2>. QED BY <1>0, <1>1, <1>3, <2>1, QuietSteps
<1>4. CASE UNCHANGED vars
  <2>1. /\ nat' = nat /\ rows' = rows /\ req' = req /\ ses' = ses /\ saved' = saved
        /\ up' = up /\ admitted' = admitted
    BY <1>4 DEF vars
  <2>2. KvInv'
    BY <1>0, <2>1 DEF KvInv
  <2>. QED BY <1>0, <2>1, <2>2 DEF SeqInv
<1>. QED BY <1>3, <1>4

LEMMA SeqInvariant == ASSUME SavesWhole PROVE Spec => []SeqInv
<1>1. SeqInv /\ [Next]_vars => SeqInv'
  BY SeqInvStep
<1>. QED BY <1>1, SeqInvInit, PTL DEF Spec



(* Whatever the model process keeps has its type: the cells and positions  *)
(* of the context, the batch rows behind last_logits_idx, the request and  *)
(* session tables, the checkpoints and the request count.                  *)
THEOREM SeqKvTypes == ASSUME SavesWhole PROVE Spec => []TypeOK
<1>1. SeqInv => TypeOK
  <2>. SUFFICES ASSUME SeqInv PROVE TypeOK
    OBVIOUS
  <2>1. /\ nat \in Contexts /\ req \in [Seqs -> Requests] /\ ses \in [Sessions -> PinSet]
        /\ Keyed(saved) /\ RowsFit(rows) /\ up \in BOOLEAN /\ admitted \in 0 .. MaxReqs
    BY DEF SeqInv, KvInv, Good
  <2>2. /\ nat.kv \in [Seqs -> Lists] /\ nat.pos \in [Seqs -> Nat]
        /\ nat.lli \in [Seqs -> -2 .. Budget - 1] /\ nat.ready \in BOOLEAN
    BY <2>1 DEF Contexts
  <2>3. \A r \in saved : r.key \in Lists /\ r.kv \in Lists
    BY <2>1 DEF Keyed
  <2>4. DOMAIN rows \subseteq 0 .. Budget - 1
    BY <2>1 DEF RowsFit
  <2>. QED BY <2>1, <2>2, <2>3, <2>4 DEF TypeOK, PinSet
<1>. QED BY <1>1, SeqInvariant, PTL

(* The cells of every seq are the tokens its request or its session        *)
(* believes in, and next_pos is behind the last of them, on every path     *)
(* that fills, trims, copies, restores or clears a seq.  A checkpoint      *)
(* keyed on other tokens than it holds would be restored by the next       *)
(* resume, so this stands or falls with SavesWhole.                        *)
THEOREM SeqsMirrorContexts == ASSUME SavesWhole PROVE Spec => []KvMirrorsContext
<1>1. SeqInv => KvMirrorsContext
  <2>. SUFFICES ASSUME SeqInv PROVE KvMirrorsContext
    OBVIOUS
  <2>1. Good(nat, req, ses) /\ \A s \in Seqs : Holds(nat, req, ses, s)
    BY DEF SeqInv, KvInv, Good
  <2>2. \A s \in Seqs : nat.pos[s] = Len(nat.kv[s])
    BY <2>1 DEF Holds
  <2>3. \A s \in InFlight : nat.kv[s] = Cells(req[s])
    BY <2>1 DEF Holds, InFlight
  <2>4. \A e \in Pins : nat.kv[ses[e].seq] = ses[e].toks
    BY <2>1, PinTakes
  <2>. QED BY <2>2, <2>3, <2>4 DEF KvMirrorsContext, Cells
<1>. QED BY <1>1, SeqInvariant, PTL

(* A seq that neither a request nor a session has is empty, so that the    *)
(* next prefill, which does not clear it, starts at position 0 of nothing. *)
THEOREM FreeSeqsAreEmpty == ASSUME SavesWhole PROVE Spec => []IdleSeqEmpty
<1>1. SeqInv => IdleSeqEmpty
  <2>. SUFFICES ASSUME SeqInv, NEW s \in IdleSeqs
                PROVE  nat.kv[s] = <<>> /\ nat.pos[s] = 0 /\ nat.lli[s] = LogitsNone
    BY DEF IdleSeqEmpty
  <2>1. s \in Seqs /\ req[s].kind = "none" /\ \A e \in Sessions : ses[e].seq # s
    BY SizesAre DEF IdleSeqs, InFlight, Pinned
  <2>2. Holds(nat, req, ses, s)
    BY <2>1 DEF SeqInv, KvInv, Good
  <2>3. nat.kv[s] = <<>> /\ nat.lli[s] = LogitsNone /\ nat.pos[s] = Len(nat.kv[s])
    BY <2>1, <2>2 DEF Holds
  <2>4. Len(<<>>) = 0
    BY ListsAre, Joined
  <2>. QED BY <2>3, <2>4
<1>. QED BY <1>1, SeqInvariant, PTL

(* Every checkpoint (cold, continued, finish or evict save) holds exactly  *)
(* the cells of the tokens it is keyed on, which is what kv_pack demands.  *)
THEOREM CheckpointsMatchKeys == ASSUME SavesWhole PROVE Spec => []SavedKvMatchesKey
<1>1. SeqInv => SavedKvMatchesKey
  BY DEF SeqInv, KvInv, Keyed, SavedKvMatchesKey
<1>. QED BY <1>1, SeqInvariant, PTL

(* While requests bring at least one token to prefill, every token is      *)
(* sampled from the logits of its own seq, computed after all of its       *)
(* cells, whatever the other seqs of the batch did in between.             *)
THEOREM TokensFromOwnLogits ==
    ASSUME SavesWhole, "empty_suffix" \notin Risky
    PROVE  Spec => []SampledFromOwnLogits
<1>1. SeqInv => SampledFromOwnLogits
  <2>. SUFFICES ASSUME SeqInv, NEW s \in Decoders
                PROVE  HasLogits(nat, rows, s) /\ LogitsOf(nat, rows, s) = nat.kv[s]
    BY DEF SampledFromOwnLogits
  <2>1. Good(nat, req, ses) /\ Ready(nat, req, rows)
    BY DEF SeqInv, KvInv
  <2>2. s \in Seqs /\ Decodes(req[s])
    BY <2>1, DecodersAre
  <2>. QED BY <2>1, <2>2 DEF Ready
<1>. QED BY <1>1, SeqInvariant, PTL

=============================================================================
