-------------------------- MODULE MCModelSessions --------------------------
(* Small instances of ModelSessions for TLC: who calls what. *)
EXTENDS ModelSessions, TLC

CONSTANTS c1, c2, c3, c4, s1, s2

\* Two callers share a session, one of them through continue/3; one keeps a
\* second session; one sends media and has none.
MixedKind    == c1 :> "infer" @@ c2 :> "continue" @@ c3 :> "prefill_only" @@ c4 :> "media"
MixedSession == c1 :> s1 @@ c2 :> s1 @@ c3 :> s2 @@ c4 :> NoSession

\* Text only: two sessions and a caller without one compete for the seqs.
RivalKind    == c1 :> "infer" @@ c2 :> "complete" @@ c3 :> "prefill_only"
RivalSession == c1 :> s1 @@ c2 :> s2 @@ c3 :> NoSession

\* Two callers of one session that do not wait for each other.
SharedKind    == c1 :> "infer" @@ c2 :> "infer"
SharedSession == c1 :> s1 @@ c2 :> s1

\* Two media requests.
MediaKind    == c1 :> "media" @@ c2 :> "media"
MediaSession == c1 :> NoSession @@ c2 :> NoSession
=============================================================================
