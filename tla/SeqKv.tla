------------------------------- MODULE SeqKv -------------------------------
(***************************************************************************)
(* The contents of the KV sequences of a llama context and the token lists *)
(* the model process keeps about them: what a request has put into its     *)
(* sequence, what a sticky session left there, what a checkpoint holds,    *)
(* and from which logits the next token is sampled.                        *)
(*                                                                         *)
(* The native half is erllama_nif_decode.c and erllama_nif_kv.c: the cells *)
(* of each sequence, the per_seq record (next_pos, last_logits_idx), the   *)
(* decode_ready flag and the logits of the last batch.  The Erlang half is *)
(* erllama_model.erl: req_table and session_seq.  Who owns which seq, the  *)
(* queue and the callers are in ModelSessions; here the idle seqs are      *)
(* those nobody has, and a queued request is one that is admitted later.   *)
(*                                                                         *)
(* A handler of the model process is one step.  A checkpoint row may be    *)
(* missed by any lookup (evicted, not yet published, another tier), so     *)
(* rows are never removed.  Text and tokens are not told apart: a row      *)
(* matches a prompt when its tokens are a prefix of it.                    *)
(***************************************************************************)
EXTENDS Integers, Sequences, FiniteSets, SequencesExt

CONSTANTS
    NSeqMax,    \* n_seq_max
    Tokens,     \* what can be sampled
    Prompts,    \* the prompts of text requests
    Tails,      \* the tails given to continue/3
    Kinds,      \* the kinds of request that are made
    Sessions, NoSession,
    Budget,     \* total_batch_budget = n_batch
    MinTokens,  \* policy min_tokens
    Boundary,   \* where a cold prefill makes a checkpoint, 0 for nowhere
    Interval,   \* policy continued_interval
    Target,     \* response_target of every request
    MaxDraft,   \* longest draft of the speculator
    MaxReqs,    \* bound: requests admitted
    Risky       \* calls admitted although the code does not cope with them

Seqs == 0 .. NSeqMax - 1
Media == 0   \* the cell a media prompt leaves; no token

ASSUME SizesAssumption ==
    /\ NSeqMax \in Nat \ {0} /\ MinTokens \in Nat /\ Boundary \in Nat
    /\ Interval \in Nat \ {0} /\ Target \in Nat \ {0} /\ MaxDraft \in Nat \ {0} /\ MaxReqs \in Nat
    /\ Budget \in Nat /\ Budget > NSeqMax

ASSUME InputsAssumption ==
    /\ \A p \in Prompts \cup Tails : p \in Seq(Range(p))
    /\ <<>> \notin Prompts /\ NoSession \notin Sessions /\ Media \notin Tokens
    /\ Kinds \subseteq {"text", "spec", "prefill_only", "media"}
    /\ Risky \subseteq {"evict_media", "empty_suffix"}

VARIABLES
    nat,     \* the native context
    rows,    \* rows[i]: the cells that logits row i of the last batch follows
    req,     \* req_table
    ses,     \* session_seq
    saved,   \* checkpoint rows: the tokens they are keyed on, the cells packed
    up,      \* the model process runs
    admitted \* requests admitted so far

vars == <<nat, rows, req, ses, saved, up, admitted>>

LogitsNone == -1
LogitsLast == -2    \* ERLLAMA_LOGITS_LAST

NoReq == [kind |-> "none", session |-> NoSession, ctx |-> <<>>, cursor |-> <<>>,
          rest |-> <<>>, ladder |-> FALSE, gen |-> 0, lastSave |-> 0,
          pending |-> FALSE, finishing |-> FALSE]
NoPin == [seq |-> -1, toks |-> <<>>]

\* nif_new_context: empty sequences, no logits.
FreshContext == [kv |-> [s \in Seqs |-> <<>>], pos |-> [s \in Seqs |-> 0],
                 lli |-> [s \in Seqs |-> LogitsNone], ready |-> FALSE]

Init ==
    /\ nat = FreshContext /\ rows = <<>>
    /\ req = [s \in Seqs |-> NoReq]
    /\ ses = [e \in Sessions |-> NoPin]
    /\ saved = {} /\ up = TRUE /\ admitted = 0

-----------------------------------------------------------------------------
(* The native operations on one sequence.  They return the new context.    *)

\* nif_kv_seq_rm of the cells from k on: next_pos is read back, the logits
\* row is forgotten and decode_ready cleared.
Trim(n, s, k) ==
    [n EXCEPT !.kv[s] = SubSeq(@, 1, k), !.pos[s] = k,
              !.lli[s] = LogitsNone, !.ready = FALSE]

Clear(n, s) == Trim(n, s, 0)

\* nif_kv_unpack.
Unpack(n, s, cells) ==
    [n EXCEPT !.kv[s] = cells, !.pos[s] = Len(cells),
              !.lli[s] = LogitsNone, !.ready = FALSE]

\* nif_kv_seq_cp into an empty sequence.
Copy(n, a, b) ==
    [n EXCEPT !.kv[b] = n.kv[a], !.pos[b] = n.pos[a],
              !.lli[b] = LogitsNone, !.ready = FALSE]

\* The cells whose logits a sample of seq s would read.
LogitsOf(n, rs, s) ==
    LET i == IF n.lli[s] = LogitsLast THEN Max(DOMAIN rs) ELSE n.lli[s]
    IN  rs[i]

HasLogits(n, rs, s) ==
    \/ n.lli[s] = LogitsLast /\ DOMAIN rs # {}
    \/ n.lli[s] \in DOMAIN rs

-----------------------------------------------------------------------------
(* Seqs, sessions and checkpoints.                                         *)

InFlight == {s \in Seqs : req[s].kind # "none"}
Active   == {s \in InFlight : ~req[s].finishing}
Pinned(e) == e \in Sessions /\ ses[e].seq # -1
Pins     == {e \in Sessions : Pinned(e) /\ ses[e].seq \notin InFlight}
IdleSeqs == Seqs \ (InFlight \cup {ses[e].seq : e \in Sessions})

\* Callers of one session wait for each other.
SessionFree(e) == e = NoSession \/ \A s \in InFlight : req[s].session # e

PinLeavesCells(e) == nat

\* drop_session/2: the seq is cleared and the session forgotten.
DropPin(e) == Clear(nat, ses[e].seq)
Unpin(e)   == [ses EXCEPT ![e] = NoPin]

\* A seq for a new request or a fork: an idle one, or else that of an idle
\* pin, which is dropped; never the pin "except".
Allocs(except) ==
    IF IdleSeqs # {} THEN {[seq |-> s, nat |-> nat, ses |-> ses] : s \in IdleSeqs}
    ELSE {[seq |-> ses[e].seq, nat |-> DropPin(e), ses |-> Unpin(e)] : e \in Pins \ {except}}

\* fire_save_if/5: kv_pack takes the whole sequence; a key that is present
\* stays as it is.
Row(key, cells) == [key |-> key, kv |-> cells]
Save(sv, new)   == sv \cup {r \in new : \A o \in sv : o.key # r.key}

-----------------------------------------------------------------------------
(* Admission.                                                              *)

Request(kind, e, ctx, todo) ==
    [NoReq EXCEPT !.kind = kind, !.session = e, !.ctx = ctx, !.cursor = todo]

StartRequest(n, ss, s, r) ==
    /\ nat' = n /\ ses' = ss
    /\ req' = [req EXCEPT ![s] = r]
    /\ admitted < MaxReqs /\ admitted' = admitted + 1
    /\ UNCHANGED <<rows, saved, up>>

\* cold_save_segments and build_cold_ladder: one boundary, that of the policy
\* or the caller's prefix_checkpoint_len; shorter prompts have none.
Ladder(r, p) ==
    IF Boundary \notin 1 .. Len(p) THEN r
    ELSE [r EXCEPT !.cursor = SubSeq(p, 1, Boundary), !.ladder = TRUE,
                   !.rest = SubSeq(p, Boundary + 1, Len(p))]

\* setup_cold/2: the seq is cleared.
StartCold(n, ss, s, kind, e, p) ==
    StartRequest(Clear(n, s), ss, s, Ladder(Request(kind, e, <<>>, p), p))

ResumeWithoutPrimer(n, s, kind, e, toks, p) ==
    [nat |-> n, req |-> Request(kind, e, SubSeq(toks, 1, Len(toks) - 1), <<Last(toks)>>)]

\* The seq holds toks, all of the prompt: the last cell is dropped and its
\* token prefilled again (warm_restore_primer).
ResumeExact(n, s, kind, e, toks, p) ==
    [nat |-> Trim(n, s, Len(toks) - 1),
     req |-> Request(kind, e, SubSeq(toks, 1, Len(toks) - 1), <<Last(toks)>>)]

\* setup_warm/5.
Resume(n, s, kind, e, toks, p) ==
    IF Len(toks) = Len(p) THEN ResumeExact(n, s, kind, e, toks, p)
    ELSE [nat |-> n, req |-> Request(kind, e, toks, SubSeq(p, Len(toks) + 1, Len(p)))]

\* setup_lookup/3: a row that is a prefix of the prompt is unpacked, or the
\* request starts cold.
AdmitNormal(kind, e, p, a) ==
    \/ \E r \in saved :
         /\ IsPrefix(r.key, p)
         /\ LET w == Resume(Unpack(a.nat, a.seq, r.kv), a.seq, kind, e, r.key, p)
            IN  StartRequest(w.nat, a.ses, a.seq, w.req)
    \/ StartCold(a.nat, a.ses, a.seq, kind, e, p)

AdmitNew(kind, e, p) ==
    /\ up /\ SessionFree(e) /\ ~Pinned(e)
    /\ \E a \in Allocs(NoSession) : AdmitNormal(kind, e, p, a)

\* {sticky, Stored}: the prompt extends what the session's seq holds.
AdmitSticky(kind, e, p) ==
    /\ up /\ e \in Pins /\ IsPrefix(ses[e].toks, p)
    /\ Len(p) > Len(ses[e].toks) \/ "empty_suffix" \in Risky
    /\ StartRequest(nat, ses, ses[e].seq,
           Request(kind, e, ses[e].toks, SubSeq(p, Len(ses[e].toks) + 1, Len(p))))

\* {sticky_partial, L}: the longest common prefix is kept, or a memory that
\* refuses the trim is cleared.  A prompt that diverges at once drops the pin.
AdmitDiverged(kind, e, p) ==
    /\ up /\ e \in Pins /\ ~IsPrefix(ses[e].toks, p)
    /\ LET s == ses[e].seq
           l == Len(LongestCommonPrefix({ses[e].toks, p}))
           keep == SubSeq(p, 1, l)
       IN  IF l >= 1 /\ l >= MinTokens
           THEN \/ LET w == Resume(Trim(nat, s, l), s, kind, e, keep, p)
                   IN  StartRequest(w.nat, ses, s, w.req)
                \/ StartCold(nat, ses, s, kind, e, p)
           ELSE \E t \in IdleSeqs \cup {s} :
                   AdmitNormal(kind, e, p, [seq |-> t, nat |-> DropPin(e), ses |-> Unpin(e)])

\* continue/3.
AdmitContinue(kind, e, suffix) ==
    /\ up /\ e \in Pins
    /\ suffix # <<>> \/ "empty_suffix" \in Risky
    /\ StartRequest(nat, ses, ses[e].seq, Request(kind, e, ses[e].toks, suffix))

\* start_media_request: no session, no lookup, and the seq is not cleared.
AdmitMedia ==
    /\ up
    /\ \E a \in Allocs(NoSession) :
         StartRequest(a.nat, a.ses, a.seq,
             [Request("media", NoSession, <<>>, <<>>) EXCEPT !.pending = TRUE])

-----------------------------------------------------------------------------
(* Calls about sessions, cancels and evictions.                            *)

EndSession(e) ==
    /\ up /\ e \in Pins
    /\ nat' = DropPin(e) /\ ses' = Unpin(e)
    /\ UNCHANGED <<rows, req, saved, up, admitted>>

\* reset_session_seq/2: the request on the session's seq fails.
ResetSession(e) ==
    /\ up /\ Pinned(e)
    /\ nat' = DropPin(e) /\ ses' = Unpin(e)
    /\ req' = [req EXCEPT ![ses[e].seq] = NoReq]
    /\ UNCHANGED <<rows, saved, up, admitted>>

\* do_fork_session/3.  An empty source cannot be copied: the seq goes back.
ForkSession(e, f) ==
    /\ up /\ e \in Pins /\ ~Pinned(f) /\ SessionFree(f)
    /\ \E a \in Allocs(e) :
         LET copied == a.nat.kv[ses[e].seq] # <<>> IN
         /\ nat' = IF copied THEN Copy(a.nat, ses[e].seq, a.seq) ELSE a.nat
         /\ ses' = IF copied
                   THEN [a.ses EXCEPT ![f] = [seq |-> a.seq, toks |-> ses[e].toks]]
                   ELSE a.ses
    /\ UNCHANGED <<rows, req, saved, up, admitted>>

\* cancel/1, honoured by the next tick.
Cancel(s) ==
    /\ up /\ s \in Active
    /\ req' = [req EXCEPT ![s].finishing = TRUE]
    /\ UNCHANGED <<nat, rows, ses, saved, up, admitted>>

\* evict and shutdown: fire_save_for_reason/2 saves every request in flight.
Evict ==
    /\ up /\ InFlight # {}
    /\ "evict_media" \in Risky \/ \A s \in InFlight : req[s].kind # "media"
    /\ LET S == {s \in InFlight : req[s].ctx # <<>>} IN
         /\ saved' = Save(saved, {Row(req[s].ctx, nat.kv[s]) : s \in S})
         /\ req' = [s \in Seqs |-> IF s \in S THEN [req[s] EXCEPT !.lastSave = Len(req[s].ctx)]
                                   ELSE req[s]]
    /\ UNCHANGED <<nat, rows, ses, up, admitted>>

-----------------------------------------------------------------------------
(* The end of every tick: mark_terminal and finish_marked_reqs.            *)

\* The finish saves of the requests F, then their seqs are cleared, or kept
\* for their sessions.
AfterStep(n, rq, sv) ==
    LET F == {s \in Seqs : rq[s].kind # "none" /\
                (rq[s].finishing \/ (rq[s].kind = "prefill_only" /\ rq[s].cursor = <<>>))}
        G == {s \in F : rq[s].session = NoSession}
    IN  /\ saved' = Save(sv, {Row(rq[s].ctx, n.kv[s]) :
                        s \in {t \in F : rq[t].kind # "media" /\ Len(rq[t].ctx) >= MinTokens}})
        /\ nat' = [kv |-> [s \in Seqs |-> IF s \in G THEN <<>> ELSE n.kv[s]],
                   pos |-> [s \in Seqs |-> IF s \in G THEN 0 ELSE n.pos[s]],
                   lli |-> [s \in Seqs |-> IF s \in G THEN LogitsNone ELSE n.lli[s]],
                   ready |-> n.ready /\ G = {}]
        /\ req' = [s \in Seqs |-> IF s \in F THEN NoReq ELSE rq[s]]
        /\ ses' = [e \in Sessions |->
                     IF \E s \in F : rq[s].session = e
                     THEN LET s == CHOOSE s \in F : rq[s].session = e
                          IN  [seq |-> s, toks |-> rq[s].ctx]
                     ELSE ses[e]]

\* A backend error that is not a failed decode stops the process.
Stopped ==
    /\ up' = FALSE /\ nat' = FreshContext /\ rows' = <<>>
    /\ req' = [s \in Seqs |-> NoReq] /\ ses' = [e \in Sessions |-> NoPin]
    /\ UNCHANGED <<saved, admitted>>

-----------------------------------------------------------------------------
(* The batch of a tick.                                                    *)

\* build_op_list/1: who decodes one token, who prefills.
Decoders == {s \in Active : req[s].cursor = <<>> /\ ~req[s].pending /\ req[s].kind # "prefill_only"}
Fillers  == {s \in Active : req[s].cursor # <<>>}

\* slice_prefills/3: what is left of the budget for seq s, in seq order.
RoomAt[s \in 0 .. NSeqMax] ==
    IF s = 0 THEN Budget - Cardinality(Decoders)
    ELSE LET room == RoomAt[s - 1]
         IN  IF s - 1 \in Fillers THEN room - Min({Len(req[s - 1].cursor), room}) ELSE room

Slice(s) == SubSeq(req[s].cursor, 1, Min({Len(req[s].cursor), RoomAt[s]}))
Filling  == {s \in Fillers : Slice(s) # <<>>}

RowOfAnyOrder(s) ==
    IF s \in Decoders THEN Cardinality({t \in Decoders : t < s})
    ELSE Budget - RoomAt[s + 1] - 1 - Cardinality(Decoders)

\* The row of a seq's last token in the batch: decode rows come first, then
\* the prefill slices.
RowOf(s) ==
    IF s \in Decoders THEN Cardinality({t \in Decoders : t < s})
    ELSE Budget - RoomAt[s + 1] - 1

\* llama_decode of the batch, where decoder s got toks[s].
Batch(s, toks) == IF s \in Decoders THEN <<toks[s]>> ELSE Slice(s)

StepContext(toks) ==
    LET B == Decoders \cup Filling IN
    [kv |-> [s \in Seqs |-> IF s \in B THEN nat.kv[s] \o Batch(s, toks) ELSE nat.kv[s]],
     pos |-> [s \in Seqs |-> IF s \in B THEN nat.pos[s] + Len(Batch(s, toks)) ELSE nat.pos[s]],
     lli |-> [s \in Seqs |-> IF s \in B THEN RowOf(s) ELSE nat.lli[s]],
     ready |-> TRUE]

\* Only the last row of each op has logits.
StepRows(toks) ==
    LET B == Decoders \cup Filling IN
    [i \in {RowOf(s) : s \in B} |->
        LET s == CHOOSE s \in B : RowOf(s) = i IN nat.kv[s] \o Batch(s, toks)]

-----------------------------------------------------------------------------
(* Applying the results to the requests.                                   *)

\* apply_step_results, prefilled: at the end of a ladder segment the rest
\* rotates in.
Prefilled(r, slice) ==
    LET ctx  == r.ctx \o slice
        left == SubSeq(r.cursor, Len(slice) + 1, Len(r.cursor))
    IN  IF left # <<>> THEN [r EXCEPT !.ctx = ctx, !.cursor = left]
        ELSE IF r.ladder
        THEN [r EXCEPT !.ctx = ctx, !.cursor = r.rest, !.rest = <<>>, !.ladder = FALSE,
                       !.lastSave = Len(ctx)]
        ELSE [r EXCEPT !.ctx = ctx, !.cursor = <<>>, !.lastSave = 0]

\* maybe_fire_cold_save/2 fires when the first segment has drained.
ColdSaves(r, slice) ==
    r.ladder /\ Len(slice) = Len(r.cursor) /\ Len(r.ctx \o slice) >= MinTokens

\* should_continued_save/3.
ContinuedSaves(r) ==
    /\ ~r.finishing /\ r.kind # "media"
    /\ Len(r.ctx) - r.lastSave >= Interval /\ Len(r.ctx) >= MinTokens

TargetIgnored(r, tok, stop) ==
    [r EXCEPT !.ctx = Append(@, tok), !.gen = @ + 1, !.finishing = stop]

\* apply_step_results, {token, Tok, Eog}: appended, and the request is done at
\* its target, or earlier by an end-of-generation token or a stop sequence.
Appended(r, tok, stop) ==
    [r EXCEPT !.ctx = Append(@, tok), !.gen = @ + 1,
              !.finishing = stop \/ r.gen + 1 >= Target]

Marked(r) == IF ContinuedSaves(r) THEN [r EXCEPT !.lastSave = Len(r.ctx)] ELSE r

-----------------------------------------------------------------------------
(* The three kinds of tick.                                                *)

\* A batch of which only the last position has logits.
OneRow(cells) == [i \in {0} |-> cells]

MediaTurn == \E s \in Seqs : Active = {s} /\ req[s].pending

\* run_media_tick: the prompt goes in at next_pos; only the last position of
\* its last batch has logits.
TickMedia ==
    /\ up /\ MediaTurn
    /\ LET s == CHOOSE s \in Active : TRUE
           cells == Append(nat.kv[s], Media)
       IN  /\ rows' = OneRow(cells)
           /\ AfterStep([nat EXCEPT !.kv[s] = cells, !.pos[s] = @ + 1,
                                    !.lli[s] = LogitsLast, !.ready = TRUE],
                        [req EXCEPT ![s].pending = FALSE], saved)
    /\ UNCHANGED <<up, admitted>>

\* fail_media_req: whatever landed in the seq is cleared.
TickMediaFailed ==
    /\ up /\ MediaTurn
    /\ LET s == CHOOSE s \in Active : TRUE IN
         AfterStep(Clear(nat, s), [req EXCEPT ![s] = NoReq], saved)
    /\ rows' = <<>>
    /\ UNCHANGED <<up, admitted>>

\* maybe_spec_tick: a sole speculative request with a generated token and
\* room for a draft.
SpecTurn ==
    \E s \in Decoders : Active = {s} /\ req[s].kind = "spec"
                        /\ req[s].gen >= 1 /\ Target - req[s].gen >= 2

\* nif_spec_step commits some of the draft and the token after it, all of it
\* in the KV; the request takes them one by one until it is done, each with
\* its continued save, and the rest is trimmed.
SpecCommits(s) ==
    LET room == Min({MaxDraft + 1, Target - req[s].gen}) IN
    UNION {[1 .. n -> Tokens] : n \in 1 .. room}

SpecContext(s, c) ==
    [nat EXCEPT !.kv[s] = @ \o c, !.pos[s] = @ + Len(c), !.lli[s] = 0, !.ready = TRUE]

SpecNoTrim(n, s, r) == n

\* spec_trim_overshoot: committed tokens that the request did not take leave
\* the KV.
SpecTrim(n, s, r) ==
    IF Len(r.ctx) < Len(n.kv[s]) THEN Trim(n, s, Len(r.ctx)) ELSE n

\* The request after each of the tokens it takes; the k-th may end it.
SpecRequests(s, c, k, stop) ==
    LET r[i \in 0 .. k] == IF i = 0 THEN req[s]
                           ELSE Marked(Appended(r[i - 1], c[i], stop /\ i = k))
    IN  r

TickSpec ==
    /\ up /\ SpecTurn
    /\ LET s == CHOOSE s \in Active : TRUE IN
       /\ nat.ready /\ nat.lli[s] >= 0
       /\ \E c \in SpecCommits(s), stop \in BOOLEAN :
          \E k \in IF stop THEN 1 .. Len(c) ELSE {Len(c)} :
            LET n == SpecContext(s, c)
                r == SpecRequests(s, c, k, stop)
                sv == {Row(r[i].ctx, n.kv[s]) :
                          i \in {j \in 1 .. k : ContinuedSaves(Appended(r[j - 1], c[j], stop /\ j = k))}}
            IN  /\ rows' = OneRow(n.kv[s])
                /\ AfterStep(SpecTrim(n, s, r[k]), [req EXCEPT ![s] = r[k]], Save(saved, sv))
    /\ UNCHANGED <<up, admitted>>

\* nif_spec_step: no_logits, which is not a failed decode.
TickSpecNoLogits ==
    /\ up /\ SpecTurn
    /\ \E s \in Active : ~nat.ready \/ nat.lli[s] < 0
    /\ Stopped

\* step_tick_ops/1.  nif_step answers no_logits for a decoder that has none,
\* which SampledFromOwnLogits shows never happens.
TickStep ==
    /\ up /\ InFlight # {} /\ ~MediaTurn
    /\ \A s \in Decoders : HasLogits(nat, rows, s)
    /\ \E toks \in [Decoders -> Tokens], stops \in SUBSET Decoders :
         LET n == IF Decoders \cup Filling = {} THEN nat ELSE StepContext(toks)
             plain == [s \in Seqs |->
                         IF s \in Decoders THEN Appended(req[s], toks[s], s \in stops)
                         ELSE IF s \in Filling THEN Prefilled(req[s], Slice(s))
                         ELSE req[s]]
             sv == {s \in Decoders : ContinuedSaves(plain[s])}
                   \cup {s \in Filling : ColdSaves(req[s], Slice(s))}
         IN  /\ rows' = IF Decoders \cup Filling = {} THEN rows ELSE StepRows(toks)
             /\ AfterStep(n,
                    [s \in Seqs |-> IF s \in Decoders THEN Marked(plain[s]) ELSE plain[s]],
                    Save(saved, {Row(plain[s].ctx, n.kv[s]) : s \in sv}))
    /\ UNCHANGED <<up, admitted>>

\* recover_in_place/2: a decode failed, the context is made anew.
TickRecover ==
    /\ up /\ InFlight # {} /\ Decoders \cup Filling # {}
    /\ nat' = FreshContext /\ rows' = <<>>
    /\ req' = [s \in Seqs |-> NoReq] /\ ses' = [e \in Sessions |-> NoPin]
    /\ UNCHANGED <<saved, up, admitted>>

-----------------------------------------------------------------------------
TextKinds == Kinds \ {"media"}

Next ==
    \/ \E k \in TextKinds, e \in Sessions \cup {NoSession}, p \in Prompts : AdmitNew(k, e, p)
    \/ \E k \in TextKinds, e \in Sessions, p \in Prompts :
           AdmitSticky(k, e, p) \/ AdmitDiverged(k, e, p)
    \/ \E k \in TextKinds \ {"prefill_only"}, e \in Sessions, x \in Tails :
           AdmitContinue(k, e, x)
    \/ "media" \in Kinds /\ AdmitMedia
    \/ \E e \in Sessions : EndSession(e) \/ ResetSession(e)
    \/ \E e, f \in Sessions : ForkSession(e, f)
    \/ \E s \in Seqs : Cancel(s)
    \/ Evict
    \/ TickMedia \/ TickMediaFailed \/ TickSpec \/ TickSpecNoLogits
    \/ TickStep \/ TickRecover

Spec == Init /\ [][Next]_vars

-----------------------------------------------------------------------------
Lists == Seq(Tokens \cup {Media} \cup UNION {Range(p) : p \in Prompts \cup Tails})

Requests == [kind : Kinds \cup {"none"}, session : Sessions \cup {NoSession},
             ctx : Lists, cursor : Lists, rest : Lists, ladder : BOOLEAN,
             gen : 0 .. Target, lastSave : Nat, pending : BOOLEAN, finishing : BOOLEAN]

TypeOK ==
    /\ nat.kv \in [Seqs -> Lists] /\ nat.pos \in [Seqs -> Nat]
    /\ nat.lli \in [Seqs -> -2 .. Budget - 1] /\ nat.ready \in BOOLEAN
    /\ DOMAIN rows \subseteq 0 .. Budget - 1
    /\ req \in [Seqs -> Requests]
    /\ ses \in [Sessions -> [seq : Seqs \cup {-1}, toks : Lists]]
    /\ \A r \in saved : r.key \in Lists /\ r.kv \in Lists
    /\ up \in BOOLEAN /\ admitted \in 0 .. MaxReqs

(* What the model process believes about a sequence is what llama holds:   *)
(* the cells of a request's seq are its context_tokens (after the media    *)
(* prompt), the cells of a pinned seq are the tokens its session stored,   *)
(* and next_pos is the position after the last cell.  So prefills go where *)
(* they belong and a session resumes on its own transcript, whatever path  *)
(* (cold, warm, sticky, trimmed, forked, speculative) filled the seq.      *)
KvMirrorsContext ==
    /\ \A s \in Seqs : nat.pos[s] = Len(nat.kv[s])
    /\ \A s \in InFlight :
         nat.kv[s] = IF req[s].kind = "media" /\ ~req[s].pending
                     THEN <<Media>> \o req[s].ctx ELSE req[s].ctx
    /\ \A e \in Pins : nat.kv[ses[e].seq] = ses[e].toks

(* The next token of a request is sampled from logits of its own sequence, *)
(* computed after all of its cells: last_logits_idx survives the batches,  *)
(* trims and copies of the other sequences only while that is so.          *)
SampledFromOwnLogits ==
    up => \A s \in Decoders : HasLogits(nat, rows, s) /\ LogitsOf(nat, rows, s) = nat.kv[s]

(* A checkpoint holds exactly the cells of the tokens it is keyed on, as   *)
(* kv_pack demands of its callers: a resume at the end of those tokens     *)
(* continues them.                                                         *)
SavedKvMatchesKey == \A r \in saved : r.kv = r.key

(* A seq that nobody has is empty: a media prefill, which does not clear   *)
(* its seq, and a fork, which copies into it, rely on that.                *)
IdleSeqEmpty ==
    \A s \in IdleSeqs : nat.kv[s] = <<>> /\ nat.pos[s] = 0 /\ nat.lli[s] = LogitsNone
=============================================================================
