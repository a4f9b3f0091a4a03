---------------------------- MODULE CacheMetaSrv ----------------------------
(***************************************************************************)
(* The cache meta server (erllama_cache_meta_srv): the only writer of the  *)
(* index of saved KV checkpoints.  One operator per server clause; each    *)
(* says what the whole clause does to the server's tables and, where the   *)
(* clause does file I/O, to the cache directory.  CachePublish composes    *)
(* them with the processes that call the server.                           *)
(*                                                                         *)
(* What is abstracted.  Sizes, headers, tokens and hit counts of a row are *)
(* left out.  Monotonic time is left out: a reservation is "fresh" until   *)
(* its TTL runs out, and the {LastUsed, Key} entries of the LRU table are  *)
(* told apart only by whether they carry the LastUsed of the key's row.    *)
(***************************************************************************)
EXTENDS Naturals, FiniteSets

CONSTANTS
    Keys,        \* cache keys
    Namespaces,  \* fingerprint/quantisation/context namespaces
    NsOf,        \* the namespace each key was derived in
    Refs,        \* monitor references handed out by checkout
    Callers,     \* processes that may park in lookup_or_wait
    Tokens,      \* reservation tokens (make_ref)
    Nil          \* no key, no token

ASSUME NsOfType == NsOf \in [Keys -> Namespaces]
ASSUME NilIsNoKey == Nil \notin Keys
ASSUME TokensAreNumbers == Tokens \subseteq Nat /\ Nil \notin Tokens
ASSUME RefsFinite == IsFiniteSet(Refs)

VARIABLES
    status,      \* the row of a key: none, placeholder or published
    refcount,    \* ... its ?POS_REFCOUNT
    pinFlag,     \* ... its ?POS_PINNED
    lruCur,      \* the LRU table has the row's own entry
    lruStale,    \* the LRU table has an entry of the key with an old time
    resv,        \* reservations map
    holders,     \* holders map: monitor reference -> key
    waiters,     \* waiters map: parked caller -> key
    pinned,      \* pinned map: namespace -> key
    liveKey,     \* live_key
    file         \* the <hex>.kvc file of a key, in the cache directory

rowVars == <<status, refcount, pinFlag, lruCur, lruStale>>
metaVars == <<status, refcount, pinFlag, lruCur, lruStale, resv, holders,
              waiters, pinned, liveKey>>

Status == {"absent", "writing", "available"}
Stage == {"none", "pre_link", "post_link"}

(* "ok" parses and validates; "crc_bad" has a readable header and metadata *)
(* but a payload that fails its CRC; "junk" does not parse at all.         *)
FileState == {"absent", "ok", "crc_bad", "junk"}

Reservation == [token : Tokens \cup {Nil}, stage : Stage,
                fresh : BOOLEAN, up : BOOLEAN]
NoReservation == [token |-> Nil, stage |-> "none", fresh |-> FALSE, up |-> FALSE]

HasReservation(k) == resv[k].token # Nil

(* A writer's token still names the reservation of its key. *)
TokenMatches(k, t) == HasReservation(k) /\ resv[k].token = t

(* is_process_alive(Writer) andalso not expired. *)
ReservationIsLive(k) == HasReservation(k) /\ resv[k].fresh /\ resv[k].up

IsPinned(k) == pinned[NsOf[k]] = k

-----------------------------------------------------------------------------
(* maybe_restore_pin: the flag a row gets back when it is installed. *)
RestoredPin(k) == IsPinned(k)

(* notify_waiters for every key of A. *)
WaitersForgotten(A) == UNCHANGED waiters
NotifyWaiters(A) ==
    waiters' = [c \in Callers |-> IF waiters[c] \in A THEN Nil ELSE waiters[c]]

(* Rows A are installed as available (refcount 0, pin flag restored from   *)
(* the pinned map, waiters answered); rows D are deleted from the meta     *)
(* table, which leaves their LRU entry, if any, behind.                    *)
ReplaceRows(A, D) ==
    /\ status' = [k \in Keys |-> IF k \in A THEN "available"
                                 ELSE IF k \in D THEN "absent" ELSE status[k]]
    /\ refcount' = [k \in Keys |-> IF k \in A \cup D THEN 0 ELSE refcount[k]]
    /\ pinFlag' = [k \in Keys |-> IF k \in A THEN RestoredPin(k)
                                  ELSE k \notin D /\ pinFlag[k]]
    /\ lruCur' = [k \in Keys |-> k \in A \/ (k \notin D /\ lruCur[k])]
    /\ lruStale' = [k \in Keys |-> lruStale[k] \/ (k \in D /\ lruCur[k])]
    /\ NotifyWaiters(A)

(* do_checkout moves the row's LRU entry to the new last-used time. *)
EntryNotReinserted(k) == lruCur' = [lruCur EXCEPT ![k] = FALSE]
MoveLruEntry(k) == lruCur' = [lruCur EXCEPT ![k] = TRUE]

(* checkout of an available row; persist_hits opens the file for writing,  *)
(* which creates it when it is missing.                                    *)
Checkout(m, k) ==
    /\ status[k] = "available"
    /\ holders[m] = Nil
    /\ holders' = [holders EXCEPT ![m] = k]
    /\ refcount' = [refcount EXCEPT ![k] = @ + 1]
    /\ MoveLruEntry(k)
    /\ file' = [file EXCEPT ![k] = IF @ = "absent" THEN "junk" ELSE @]
    /\ UNCHANGED <<status, pinFlag, lruStale, resv, waiters, pinned, liveKey>>

(* decrement_refcount: saturating, and a no-op when the row is gone. *)
DecrementForgotten(k) == UNCHANGED refcount
UnsaturatedDecrement(k) == refcount' = [refcount EXCEPT ![k] = 0 - 1 + @]
DecrementRefcount(k) ==
    refcount' = [refcount EXCEPT ![k] = IF @ = 0 THEN 0 ELSE @ - 1]

(* checkin, and the 'DOWN' of a holder. *)
DropHolder(m) ==
    /\ holders[m] # Nil
    /\ DecrementRefcount(holders[m])
    /\ holders' = [holders EXCEPT ![m] = Nil]
    /\ UNCHANGED <<status, pinFlag, lruCur, lruStale, resv, waiters, pinned,
                   liveKey, file>>

(* lookup_or_wait on a placeholder row parks the caller; every other case  *)
(* is answered at once and changes nothing.                                *)
LookupOrWait(c, k) ==
    /\ waiters[c] = Nil
    /\ status[k] = "writing"
    /\ waiters' = [waiters EXCEPT ![c] = k]
    /\ UNCHANGED <<rowVars, resv, holders, pinned, liveKey, file>>

(* The caller's timer fires before the row was published: reply miss. *)
ExpireWaiter(c) ==
    /\ waiters[c] # Nil
    /\ waiters' = [waiters EXCEPT ![c] = Nil]
    /\ UNCHANGED <<rowVars, resv, holders, pinned, liveKey, file>>

-----------------------------------------------------------------------------
(* The row answers neither already_present nor conflict. *)
PresentIgnored(k) == ~(status[k] = "writing" /\ ReservationIsLive(k))
CanReserve(k) ==
    /\ status[k] # "available"
    /\ ~(status[k] = "writing" /\ ReservationIsLive(k))

(* reserve_save when it grants a reservation.  A placeholder whose writer  *)
(* is dead or whose TTL ran out is cleaned up first: after link, a file    *)
(* that validates is adopted (its waiters are answered) and one that does  *)
(* not is deleted; in both cases the placeholder row is written last.      *)
ReserveSave(k, t) ==
    LET stale == status[k] = "writing" /\ resv[k].stage = "post_link"
        adopted == stale /\ file[k] = "ok"
        dropped == stale /\ file[k] # "ok"
    IN
    /\ CanReserve(k)
    /\ status' = [status EXCEPT ![k] = "writing"]
    /\ refcount' = [refcount EXCEPT ![k] = 0]
    /\ pinFlag' = [pinFlag EXCEPT ![k] = FALSE]
    /\ lruStale' = [lruStale EXCEPT ![k] = @ \/ lruCur[k] \/ adopted]
    /\ lruCur' = [lruCur EXCEPT ![k] = FALSE]
    /\ resv' = [resv EXCEPT ![k] = [token |-> t, stage |-> "pre_link",
                                    fresh |-> TRUE, up |-> TRUE]]
    /\ file' = [file EXCEPT ![k] = IF dropped THEN "absent" ELSE @]
    /\ NotifyWaiters(IF adopted THEN {k} ELSE {})
    /\ UNCHANGED <<holders, pinned, liveKey>>

(* check_reservation with a token that matches renews the TTL. *)
CheckReservation(k) ==
    /\ resv' = [resv EXCEPT ![k].fresh = TRUE]
    /\ UNCHANGED <<rowVars, holders, waiters, pinned, liveKey, file>>

(* mark_published with a token that matches.  The path it records is the   *)
(* key's own file.                                                         *)
MarkPublished(k) ==
    /\ resv' = [resv EXCEPT ![k].stage = "post_link", ![k].fresh = TRUE]
    /\ UNCHANGED <<rowVars, holders, waiters, pinned, liveKey, file>>

(* announce_saved with a token that matches. *)
AnnounceSaved(k) ==
    /\ ReplaceRows({k}, {})
    /\ resv' = [resv EXCEPT ![k] = NoReservation]
    /\ UNCHANGED <<holders, pinned, liveKey, file>>

(* cancel_reservation with a token that matches. *)
CancelKeepsRow(k) ==
    /\ resv' = [resv EXCEPT ![k] = NoReservation]
    /\ UNCHANGED <<rowVars, holders, waiters, pinned, liveKey, file>>
CancelReservation(k) ==
    /\ ReplaceRows({}, {k})
    /\ resv' = [resv EXCEPT ![k] = NoReservation]
    /\ UNCHANGED <<holders, pinned, liveKey, file>>

(* insert_available: installs the row whatever was there. *)
InsertAvailable(k) ==
    /\ ReplaceRows({k}, {})
    /\ UNCHANGED <<resv, holders, pinned, liveKey, file>>

(* cleanup_by_stage for a set of reservations. *)
CleanupByStage(S) ==
    LET linked == {k \in S : resv[k].stage = "post_link"}
        adopted == {k \in linked : file[k] = "ok"}
    IN
    /\ ReplaceRows(adopted, S \ adopted)
    /\ resv' = [k \in Keys |-> IF k \in S THEN NoReservation ELSE resv[k]]
    /\ file' = [k \in Keys |-> IF k \in linked \ adopted THEN "absent"
                               ELSE file[k]]
    /\ UNCHANGED <<holders, pinned, liveKey>>

(* 'DOWN' of the writer that holds the reservation of k. *)
OnWriterDown(k) ==
    /\ HasReservation(k)
    /\ ~resv[k].up
    /\ CleanupByStage({k})

(* Reservations whose writer is dead or whose TTL ran out. *)
DeadWritersOnly == {k \in Keys : HasReservation(k) /\ ~resv[k].up}
StaleReservations == {k \in Keys : HasReservation(k) /\ ~ReservationIsLive(k)}

(* The periodic sweep. *)
SweepReservations ==
    /\ StaleReservations # {}
    /\ CleanupByStage(StaleReservations)

-----------------------------------------------------------------------------
(* The flags after pin_row(k). *)
PriorStaysPinned(k) == [pinFlag EXCEPT ![k] = status[k] # "absent"]
PinFlagsFor(k) ==
    [j \in Keys |-> IF j = k THEN status[k] # "absent"
                    ELSE j # pinned[NsOf[k]] /\ pinFlag[j]]

(* pin_row: the namespace's previous key loses its flag, k gets it (when   *)
(* it has a row), and the map remembers k.                                 *)
PinRow(k) ==
    /\ pinFlag' = PinFlagsFor(k)
    /\ pinned' = [pinned EXCEPT ![NsOf[k]] = k]
    /\ UNCHANGED <<status, refcount, lruCur, lruStale, resv, holders, waiters,
                   liveKey, file>>

(* set_live_key: the key of the session that finished last, or undefined. *)
SetLiveKey(k) ==
    /\ liveKey' = k
    /\ UNCHANGED <<rowVars, resv, holders, waiters, pinned, file>>

(* The status and refcount tests of eviction_candidates and try_evict_one. *)
RefcountIgnored(k) == status[k] = "available"
StatusIgnored(k) == status[k] # "absent" /\ refcount[k] = 0
Evictable(k) == status[k] = "available" /\ refcount[k] = 0

LiveKeyIgnored(k) == pinFlag[k]
Protected(k) == pinFlag[k] \/ k = liveKey

(* try_evict_one succeeds for every key of E; gone is the set of keys      *)
(* whose old LRU entries go in the same pass.                              *)
EvictRows(E, gone) ==
    /\ status' = [k \in Keys |-> IF k \in E THEN "absent" ELSE status[k]]
    /\ refcount' = [k \in Keys |-> IF k \in E THEN 0 ELSE refcount[k]]
    /\ pinFlag' = [k \in Keys |-> k \notin E /\ pinFlag[k]]
    /\ lruCur' = [k \in Keys |-> k \notin E /\ lruCur[k]]
    /\ lruStale' = [k \in Keys |-> k \notin gone /\ lruStale[k]]
    /\ file' = [k \in Keys |-> IF k \in E THEN "absent" ELSE file[k]]
    /\ UNCHANGED <<resv, holders, waiters, pinned, liveKey>>

(* gc walks the LRU table: it can only see keys that have an entry there.  *)
(* It spares protected rows and drops entries that have no row.            *)
Gc ==
    LET indexed == {k \in Keys : lruCur[k] \/ lruStale[k]}
        victims == {k \in indexed : Evictable(k) /\ ~Protected(k)}
    IN EvictRows(victims, victims \cup {k \in indexed : status[k] = "absent"})

(* evict_bytes frees rows in ascending {ProtRank, Frecency} until the      *)
(* target is met: sizes, times and hits are abstracted to a choice of how  *)
(* far it goes, with protected rows after every other candidate.           *)
EvictBytes(E) ==
    LET candidates == {k \in Keys : Evictable(k)} IN
    /\ E # {}
    /\ E \subseteq candidates
    /\ (\E k \in E : Protected(k)) => \A k \in candidates : Protected(k) \/ k \in E
    /\ EvictRows(E, {})
=============================================================================
