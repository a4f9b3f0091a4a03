---------------------------- MODULE CachePublish ----------------------------
(***************************************************************************)
(* The crash-safe publish protocol: model processes that save a checkpoint *)
(* (erllama_cache_writer), the directory they write it to                  *)
(* (erllama_cache_disk_srv) and the processes that read checkpoints back   *)
(* (erllama_model:pin_and_load), around the meta server of CacheMetaSrv.   *)
(* Every call to the meta server and every file operation is a step of its *)
(* own, so saves, evictions, sweeps, crashes and restarts interleave as    *)
(* they can in the code.                                                   *)
(***************************************************************************)
EXTENDS CacheMetaSrv

CONSTANTS
    Writers,   \* processes that save; a crashed one is replaced by a new pid
    PinKeys,   \* keys saved or resumed as a static prefix (pin_row)
    LiveKeys,  \* keys, or Nil, that set_live_key may make the live one
    Faults     \* which of the faults below may happen

(* "slow_publish": the TTL can run out between check_reservation and       *)
(* mark_published.  "corruption": a saved file can go bad on disk.         *)
(* "tier_restart": the tier server can stop and be started again.          *)
(* "meta_restart": the meta server can crash and be restarted.             *)
ASSUME FaultsKnown ==
    Faults \subseteq {"slow_publish", "corruption", "tier_restart", "meta_restart"}
ASSUME InputKeys == PinKeys \subseteq Keys /\ LiveKeys \subseteq Keys \cup {Nil}

VARIABLES
    wpc,    \* where a writer is in the save pipeline
    wkey,   \* the key it saves
    wtok,   \* the token reserve_save gave it
    wtmp,   \* its temporary file exists
    rpc,    \* the process behind a monitor reference: what its load gave
    rkey,   \* the key it checked out
    tier,   \* the tier server is up
    todo    \* keys register_existing has scanned and not inserted yet

writerVars == <<wpc, wkey, wtok, wtmp>>
envVars == <<rpc, rkey, tier, todo>>
vars == <<metaVars, file, writerVars, envVars>>

WriterPC == {"idle", "reserved", "written", "checked", "exists", "replace",
             "relink", "linked", "published", "marked", "cancel"}

(* From a successful check_reservation to mark_published. *)
LinkPhase == {"checked", "exists", "replace", "relink", "linked", "published"}

ReaderPC == {"idle", "loading", "hit", "miss", "dead"}

TypeOK ==
    /\ status \in [Keys -> Status]
    /\ refcount \in [Keys -> Nat]
    /\ pinFlag \in [Keys -> BOOLEAN]
    /\ lruCur \in [Keys -> BOOLEAN]
    /\ lruStale \in [Keys -> BOOLEAN]
    /\ resv \in [Keys -> Reservation]
    /\ holders \in [Refs -> Keys \cup {Nil}]
    /\ waiters \in [Callers -> Keys \cup {Nil}]
    /\ pinned \in [Namespaces -> Keys \cup {Nil}]
    /\ liveKey \in Keys \cup {Nil}
    /\ file \in [Keys -> FileState]
    /\ wpc \in [Writers -> WriterPC]
    /\ wkey \in [Writers -> Keys \cup {Nil}]
    /\ wtok \in [Writers -> Tokens \cup {Nil}]
    /\ wtmp \in [Writers -> BOOLEAN]
    /\ rpc \in [Refs -> ReaderPC]
    /\ rkey \in [Refs -> Keys \cup {Nil}]
    /\ tier \in BOOLEAN
    /\ todo \in SUBSET Keys

(* A directory left by an earlier run, right after the tier server's init  *)
(* has dropped *.tmp and unparseable files and registered the others.      *)
Init ==
    /\ file \in [Keys -> {"absent", "ok"} \cup
                         (IF "corruption" \in Faults THEN {"crc_bad"} ELSE {})]
    /\ status = [k \in Keys |-> IF file[k] = "absent" THEN "absent" ELSE "available"]
    /\ refcount = [k \in Keys |-> 0]
    /\ pinFlag = [k \in Keys |-> FALSE]
    /\ lruCur = [k \in Keys |-> status[k] = "available"]
    /\ lruStale = [k \in Keys |-> FALSE]
    /\ resv = [k \in Keys |-> NoReservation]
    /\ holders = [m \in Refs |-> Nil]
    /\ waiters = [c \in Callers |-> Nil]
    /\ pinned = [n \in Namespaces |-> Nil]
    /\ liveKey = Nil
    /\ wpc = [w \in Writers |-> "idle"]
    /\ wkey = [w \in Writers |-> Nil]
    /\ wtok = [w \in Writers |-> Nil]
    /\ wtmp = [w \in Writers |-> FALSE]
    /\ rpc = [m \in Refs |-> "idle"]
    /\ rkey = [m \in Refs |-> Nil]
    /\ tier = TRUE
    /\ todo = {}

-----------------------------------------------------------------------------
(* The save pipeline, one step per call and per file operation.            *)

(* A call to the tier server waits while its init is registering files. *)
TierServes == tier /\ todo = {}

Goto(w, pc) == wpc' = [wpc EXCEPT ![w] = pc]

(* save/5 returns, or the process dies: nothing of the save is left in it. *)
EndSave(w) ==
    /\ Goto(w, "idle")
    /\ wkey' = [wkey EXCEPT ![w] = Nil]
    /\ wtok' = [wtok EXCEPT ![w] = Nil]
    /\ wtmp' = [wtmp EXCEPT ![w] = FALSE]

Unused(t) == (\A w \in Writers : wtok[w] # t) /\ (\A k \in Keys : resv[k].token # t)

(* make_ref: a token that nobody holds.  The least one, so that TLC does   *)
(* not distinguish runs that differ only in the choice.                    *)
FreshToken(t) == Unused(t) /\ \A u \in Tokens : Unused(u) => t <= u

(* do_save: reserve_save grants the key.  already_present and conflict     *)
(* change nothing.                                                         *)
Reserve(w, k, t) ==
    /\ wpc[w] = "idle"
    /\ FreshToken(t)
    /\ ReserveSave(k, t)
    /\ Goto(w, "reserved")
    /\ wkey' = [wkey EXCEPT ![w] = k]
    /\ wtok' = [wtok EXCEPT ![w] = t]
    /\ UNCHANGED <<wtmp, envVars>>

(* dir/1 on the tier server, then write_tmp succeeds. *)
WriteTmp(w) ==
    /\ wpc[w] = "reserved"
    /\ TierServes
    /\ Goto(w, "written")
    /\ wtmp' = [wtmp EXCEPT ![w] = TRUE]
    /\ UNCHANGED <<wkey, wtok, metaVars, file, envVars>>

(* write_tmp fails (its temporary file is deleted). *)
WriteTmpFails(w) ==
    /\ wpc[w] = "reserved"
    /\ TierServes
    /\ Goto(w, "cancel")
    /\ UNCHANGED <<wkey, wtok, wtmp, metaVars, file, envVars>>

(* The reply of check_reservation that lets a writer go on. *)
AlwaysValid(w) == HasReservation(wkey[w])
CheckPasses(w) == TokenMatches(wkey[w], wtok[w])

(* after_write_tmp: check_reservation, or give up and delete the tmp. *)
Check(w) ==
    /\ wpc[w] = "written"
    /\ \/ /\ CheckPasses(w)
          /\ CheckReservation(wkey[w])
          /\ Goto(w, "checked")
          /\ UNCHANGED <<wkey, wtok, wtmp>>
       \/ /\ ~CheckPasses(w)
          /\ EndSave(w)
          /\ UNCHANGED <<metaVars, file>>
    /\ UNCHANGED envVars

(* publish failed: abort_tmp, then cancel_reservation. *)
AbortPublish(w) ==
    /\ Goto(w, "cancel")
    /\ wtmp' = [wtmp EXCEPT ![w] = FALSE]
    /\ UNCHANGED <<wkey, wtok, metaVars>>

(* try_link: the link is made, or the final name is taken (next), or the   *)
(* call fails, because the temporary file was swept or for any reason.     *)
TryLink(w, taken) ==
    LET k == wkey[w] IN
    \/ /\ wtmp[w]
       /\ file[k] = "absent"
       /\ file' = [file EXCEPT ![k] = "ok"]
       /\ Goto(w, "linked")
       /\ wtmp' = [wtmp EXCEPT ![w] = FALSE]
       /\ UNCHANGED <<wkey, wtok, metaVars>>
    \/ /\ wtmp[w]
       /\ file[k] # "absent"
       /\ taken
    \/ /\ AbortPublish(w)
       /\ UNCHANGED file

(* link_temp. *)
Link(w) ==
    /\ wpc[w] = "checked"
    /\ TryLink(w, Goto(w, "exists") /\ UNCHANGED <<wkey, wtok, wtmp, metaVars, file>>)
    /\ UNCHANGED envVars

(* handle_eexist: adopt a file that validates, else replace it. *)
ValidateExisting(w) ==
    /\ wpc[w] = "exists"
    /\ \/ /\ file[wkey[w]] = "ok"
          /\ Goto(w, "published")
          /\ wtmp' = [wtmp EXCEPT ![w] = FALSE]
       \/ /\ file[wkey[w]] # "ok"
          /\ Goto(w, "replace")
          /\ UNCHANGED wtmp
    /\ UNCHANGED <<wkey, wtok, metaVars, file, envVars>>

Unlink(w) ==
    /\ wpc[w] = "replace"
    /\ file' = [file EXCEPT ![wkey[w]] = "absent"]
    /\ Goto(w, "relink")
    /\ UNCHANGED <<wkey, wtok, wtmp, metaVars, envVars>>

Relink(w) ==
    /\ wpc[w] = "relink"
    /\ TryLink(w, AbortPublish(w) /\ UNCHANGED file)
    /\ UNCHANGED envVars

(* finalise: fsync_dir (on failure the linked file stays), then validate   *)
(* (on failure it is deleted).                                             *)
Finalise(w) ==
    /\ wpc[w] = "linked"
    /\ \/ /\ file[wkey[w]] = "ok"
          /\ Goto(w, "published")
          /\ UNCHANGED <<wkey, wtok, wtmp, metaVars, file>>
       \/ /\ file[wkey[w]] # "ok"
          /\ file' = [file EXCEPT ![wkey[w]] = "absent"]
          /\ AbortPublish(w)
       \/ /\ AbortPublish(w)
          /\ UNCHANGED file
    /\ UNCHANGED envVars

(* after_publish: mark_published, or return {error, expired}. *)
Mark(w) ==
    /\ wpc[w] = "published"
    /\ \/ /\ TokenMatches(wkey[w], wtok[w])
          /\ MarkPublished(wkey[w])
          /\ Goto(w, "marked")
          /\ UNCHANGED <<wkey, wtok, wtmp>>
       \/ /\ ~TokenMatches(wkey[w], wtok[w])
          /\ EndSave(w)
          /\ UNCHANGED <<metaVars, file>>
    /\ UNCHANGED envVars

(* announce_saved, or {error, expired}. *)
Announce(w) ==
    /\ wpc[w] = "marked"
    /\ \/ /\ TokenMatches(wkey[w], wtok[w])
          /\ AnnounceSaved(wkey[w])
       \/ /\ ~TokenMatches(wkey[w], wtok[w])
          /\ UNCHANGED <<metaVars, file>>
    /\ EndSave(w)
    /\ UNCHANGED envVars

(* cancel_reservation; a token that does not match changes nothing. *)
Cancel(w) ==
    /\ wpc[w] = "cancel"
    /\ \/ /\ TokenMatches(wkey[w], wtok[w])
          /\ CancelReservation(wkey[w])
       \/ /\ ~TokenMatches(wkey[w], wtok[w])
          /\ UNCHANGED <<metaVars, file>>
    /\ EndSave(w)
    /\ UNCHANGED envVars

(* The saving process dies: an exit signal, a call that times out, dir/1   *)
(* on a stopped tier, a badmatch on fsync_dir.  Its 'DOWN' is on its way   *)
(* to the meta server (OnWriterDown), its temporary file is left behind.   *)
WriterCrash(w) ==
    /\ wpc[w] # "idle"
    /\ resv' = [k \in Keys |-> IF TokenMatches(k, wtok[w])
                               THEN [resv[k] EXCEPT !.up = FALSE] ELSE resv[k]]
    /\ EndSave(w)
    /\ UNCHANGED <<rowVars, holders, waiters, pinned, liveKey, file, envVars>>

(* The TTL of a reservation runs out. *)
ReservationExpires(k) ==
    /\ HasReservation(k)
    /\ resv[k].fresh
    /\ \/ "slow_publish" \in Faults
       \/ ~\E w \in Writers : wpc[w] \in LinkPhase /\ TokenMatches(k, wtok[w])
    /\ resv' = [resv EXCEPT ![k].fresh = FALSE]
    /\ UNCHANGED <<rowVars, holders, waiters, pinned, liveKey, file, writerVars,
                   envVars>>

-----------------------------------------------------------------------------
(* Readers: pin_and_load is checkout, load under the pin, checkin.         *)

ReaderCheckout(m, k) ==
    /\ rpc[m] = "idle"
    /\ Checkout(m, k)
    /\ rpc' = [rpc EXCEPT ![m] = "loading"]
    /\ rkey' = [rkey EXCEPT ![m] = k]
    /\ UNCHANGED <<writerVars, tier, todo>>

(* do_load; parse_or_drop deletes a file that does not validate. *)
ReaderLoad(m) ==
    LET k == rkey[m] IN
    /\ rpc[m] = "loading"
    /\ TierServes
    /\ rpc' = [rpc EXCEPT ![m] = IF file[k] = "ok" THEN "hit" ELSE "miss"]
    /\ file' = [file EXCEPT ![k] = IF @ = "ok" THEN "ok" ELSE "absent"]
    /\ UNCHANGED <<metaVars, writerVars, rkey, tier, todo>>

(* checkin after the load, or from the "after" clause when the load call   *)
(* exits because the tier server is not there.                             *)
ReaderCheckin(m) ==
    /\ rpc[m] \in {"hit", "miss"} \/ (rpc[m] = "loading" /\ ~tier)
    /\ \/ DropHolder(m)
       \/ holders[m] = Nil /\ UNCHANGED <<metaVars, file>>
    /\ rpc' = [rpc EXCEPT ![m] = "idle"]
    /\ rkey' = [rkey EXCEPT ![m] = Nil]
    /\ UNCHANGED <<writerVars, tier, todo>>

(* A reader dies between checkout and checkin. *)
ReaderCrash(m) ==
    /\ rpc[m] \in {"loading", "hit", "miss"}
    /\ rpc' = [rpc EXCEPT ![m] = "dead"]
    /\ UNCHANGED <<metaVars, file, writerVars, rkey, tier, todo>>

(* The meta server handles its 'DOWN'. *)
ReaderDown(m) ==
    /\ rpc[m] = "dead"
    /\ \/ DropHolder(m)
       \/ holders[m] = Nil /\ UNCHANGED <<metaVars, file>>
    /\ rpc' = [rpc EXCEPT ![m] = "idle"]
    /\ rkey' = [rkey EXCEPT ![m] = Nil]
    /\ UNCHANGED <<writerVars, tier, todo>>

Env(A) == A /\ UNCHANGED <<writerVars, envVars>>

-----------------------------------------------------------------------------
(* Faults outside the protocol's own processes.                            *)

(* A saved file goes bad on disk. *)
FileCorrupts(k) ==
    /\ "corruption" \in Faults
    /\ file[k] = "ok"
    /\ \E bad \in {"crc_bad", "junk"} : file' = [file EXCEPT ![k] = bad]
    /\ UNCHANGED <<metaVars, writerVars, envVars>>

(* The tier server crashes or remove_tier stops it. *)
TierStop ==
    /\ "tier_restart" \in Faults
    /\ tier
    /\ tier' = FALSE
    /\ todo' = {}
    /\ UNCHANGED <<metaVars, file, writerVars, rpc, rkey>>

(* init of the tier server: drop every temporary file, read the directory  *)
(* and delete what does not parse.  parse_meta does not check the CRC.     *)
TierInit ==
    /\ ~tier
    /\ tier' = TRUE
    /\ wtmp' = [w \in Writers |-> FALSE]
    /\ todo' = {k \in Keys : file[k] \in {"ok", "crc_bad"}}
    /\ file' = [k \in Keys |-> IF file[k] = "junk" THEN "absent" ELSE file[k]]
    /\ UNCHANGED <<metaVars, wpc, wkey, wtok, rpc, rkey>>

(* register_existing inserts one scanned key.  (A static-prefix file is    *)
(* then pinned by a PinRow step.)                                          *)
RegisterExisting(k) ==
    /\ k \in todo
    /\ InsertAvailable(k)
    /\ todo' = todo \ {k}
    /\ UNCHANGED <<writerVars, rpc, rkey, tier>>

(* The meta server crashes and its supervisor restarts it with empty       *)
(* tables; callers that are parked or hold a monitor notice nothing or die.*)
MetaRestart ==
    /\ "meta_restart" \in Faults
    /\ status' = [k \in Keys |-> "absent"]
    /\ refcount' = [k \in Keys |-> 0]
    /\ pinFlag' = [k \in Keys |-> FALSE]
    /\ lruCur' = [k \in Keys |-> FALSE]
    /\ lruStale' = [k \in Keys |-> FALSE]
    /\ resv' = [k \in Keys |-> NoReservation]
    /\ holders' = [m \in Refs |-> Nil]
    /\ waiters' = [c \in Callers |-> Nil]
    /\ pinned' = [n \in Namespaces |-> Nil]
    /\ liveKey' = Nil
    /\ UNCHANGED <<file, writerVars, envVars>>

-----------------------------------------------------------------------------
WriterStep(w) ==
    \/ WriteTmp(w) \/ WriteTmpFails(w) \/ Check(w) \/ Link(w)
    \/ ValidateExisting(w) \/ Unlink(w) \/ Relink(w) \/ Finalise(w)
    \/ Mark(w) \/ Announce(w) \/ Cancel(w)

ReaderStep(m) == ReaderLoad(m) \/ ReaderCheckin(m) \/ ReaderDown(m)

Next ==
    \/ \E w \in Writers, k \in Keys, t \in Tokens : Reserve(w, k, t)
    \/ \E w \in Writers : WriterStep(w)
    \/ \E w \in Writers : WriterCrash(w)
    \/ \E m \in Refs, k \in Keys : ReaderCheckout(m, k)
    \/ \E m \in Refs : ReaderStep(m)
    \/ \E m \in Refs : ReaderCrash(m)
    \/ \E k \in Keys : ReservationExpires(k)
    \/ \E k \in Keys : Env(OnWriterDown(k))
    \/ Env(SweepReservations)
    \/ \E c \in Callers, k \in Keys : Env(LookupOrWait(c, k))
    \/ \E c \in Callers : Env(ExpireWaiter(c))
    \/ \E k \in PinKeys : Env(PinRow(k))
    \/ \E k \in LiveKeys : Env(SetLiveKey(k))
    \/ Env(Gc)
    \/ \E E \in SUBSET Keys : Env(EvictBytes(E))
    \/ \E k \in Keys : FileCorrupts(k)
    \/ TierStop
    \/ TierInit
    \/ \E k \in Keys : RegisterExisting(k)
    \/ MetaRestart

Spec == Init /\ [][Next]_vars

(* The server's own progress: time passes, 'DOWN' messages arrive, the     *)
(* sweep timer fires.  Nothing is assumed of a writer, which may hang.     *)
ServerFairness ==
    /\ \A k \in Keys : WF_vars(ReservationExpires(k))
    /\ \A k \in Keys : WF_vars(Env(OnWriterDown(k)))
    /\ WF_vars(Env(SweepReservations))

ServerSpec == Spec /\ ServerFairness

-----------------------------------------------------------------------------
(* Safety.                                                                 *)

(* A row the index calls available has a file that validates: what         *)
(* announce_saved, the sweep, reserve_save and the boot scan publish is    *)
(* there for the reader that checks it out.                                *)
AvailableHasFile == \A k \in Keys : status[k] = "available" => file[k] = "ok"

(* The refcount of a row is the number of claims on it, through checkins,  *)
(* reader deaths and re-installed rows: do_checkout, decrement_refcount    *)
(* and install_available_row agree.                                        *)
RefcountIsHolders ==
    \A k \in Keys : refcount[k] = Cardinality({m \in Refs : holders[m] = k})

(* No claim leaks, whatever restarts: a row's refcount never exceeds the   *)
(* number of processes that hold it, so once they are gone it can be       *)
(* evicted.  (install_available_row may well lose claims: see              *)
(* HeldRowStays.)                                                          *)
NoLeakedClaim ==
    \A k \in Keys : refcount[k] <= Cardinality({m \in Refs : holders[m] = k})

(* A writer that passed check_reservation still owns the reservation of    *)
(* its key until mark_published: no two writers of a key are ever between  *)
(* the check and the mark, so none publishes under stale authority.        *)
LinkUnderAuthority ==
    \A w \in Writers : wpc[w] \in LinkPhase => TokenMatches(wkey[w], wtok[w])

(* A placeholder row always has a reservation that the TTL will clean up:  *)
(* no key is stuck as "writing".                                           *)
PlaceholderIsReserved ==
    \A k \in Keys : status[k] = "writing" => HasReservation(k)

(* lookup_or_wait never leaves a caller parked on a row that has become    *)
(* available: every path that installs a row answers its waiters.          *)
NoWaiterOnAvailable ==
    \A c \in Callers : waiters[c] # Nil => status[waiters[c]] # "available"

(* The pin flag of an available row and the pinned map agree, whichever of *)
(* pin_row, the publish and a re-install came last.                        *)
PinFlagAgrees ==
    \A k \in Keys : status[k] = "available" => (pinFlag[k] <=> IsPinned(k))

(* gc finds every available row: its LRU entry is in the table under the   *)
(* row's own time.                                                         *)
AvailableIsIndexed == \A k \in Keys : status[k] = "available" => lruCur[k]

(* Never in one step does a row disappear that a process has checked out.  *)
HeldRowStays ==
    [][\A m \in Refs : LET k == holders[m] IN
         k # Nil /\ status[k] = "available" => status'[k] = "available"]_vars

Shielded(k) == IsPinned(k) \/ k = liveKey

(* A namespace's pinned key and the live key are given up only when no     *)
(* unprotected row is left to evict.                                       *)
ProtectedGoLast ==
    [][\A k, j \in Keys :
         (/\ status[k] = "available" /\ Shielded(k) /\ status'[k] # "available"
          /\ Evictable(j) /\ ~Shielded(j))
         => status'[j] # "available"]_vars

(* Liveness: a reservation ends, by announce, cancel or clean-up, so a     *)
(* dead or stuck writer never keeps its key from being saved again.        *)
ReservationEnds ==
    \A k \in Keys, t \in Tokens : TokenMatches(k, t) ~> ~TokenMatches(k, t)

(* The cache as its readers see it: published rows, claims and loads.      *)
Available == {k \in Keys : status[k] = "available"}
LoadResult == [m \in Refs |-> IF rpc[m] = "hit" THEN "data"
                              ELSE IF rpc[m] = "miss" THEN "nothing" ELSE "none"]

Cache == INSTANCE ContentCache
    WITH avail <- Available, claim <- holders, got <- LoadResult

(* The protocol implements the cache its readers rely on: rows are only    *)
(* ever dropped unclaimed, and every load under a claim finds its data.    *)
ImplementsCache == Cache!CSpec
=============================================================================
