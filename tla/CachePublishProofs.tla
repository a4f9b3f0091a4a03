------------------------- MODULE CachePublishProofs -------------------------
(***************************************************************************)
(* Proofs about the publish protocol, for any number of keys, writers and  *)
(* readers.  Whatever faults happen, the index is consistent and no claim  *)
(* leaks.  While no fault interferes, published rows have their file,      *)
(* readers keep the rows they checked out, writers publish under their own *)
(* reservation, and the protocol implements ContentCache.                  *)
(***************************************************************************)
EXTENDS CachePublish, FiniteSetTheorems, TLAPS

(* The tables of the meta server and the directory. *)
MetaType ==
    /\ status \in [Keys -> Status]
    /\ refcount \in [Keys -> Nat]
    /\ pinFlag \in [Keys -> BOOLEAN]
    /\ lruCur \in [Keys -> BOOLEAN]
    /\ lruStale \in [Keys -> BOOLEAN]
    /\ resv \in [Keys -> Reservation]
    /\ holders \in [Refs -> Keys \cup {Nil}]
    /\ waiters \in [Callers -> Keys \cup {Nil}]
    /\ pinned \in [Namespaces -> Keys \cup {Nil}]
    /\ liveKey \in Keys \cup {Nil}
    /\ file \in [Keys -> FileState]

(* The processes around it. *)
ProcType ==
    /\ wpc \in [Writers -> WriterPC]
    /\ wkey \in [Writers -> Keys \cup {Nil}]
    /\ wtok \in [Writers -> Tokens \cup {Nil}]
    /\ wtmp \in [Writers -> BOOLEAN]
    /\ rpc \in [Refs -> ReaderPC]
    /\ rkey \in [Refs -> Keys \cup {Nil}]
    /\ tier \in BOOLEAN
    /\ todo \in SUBSET Keys

LEMMA TypeSplit == TypeOK <=> MetaType /\ ProcType
BY DEF TypeOK, MetaType, ProcType

(* A pinned key is pinned in its own namespace. *)
PinnedAtHome == \A n \in Namespaces : pinned[n] # Nil => NsOf[pinned[n]] = n

(* What every clause of the meta server keeps true of its tables. *)
IndexInv ==
    /\ PlaceholderIsReserved
    /\ NoWaiterOnAvailable
    /\ PinFlagAgrees
    /\ PinnedAtHome
    /\ AvailableIsIndexed

LEMMA ReplaceRowsType ==
    ASSUME MetaType, NEW A, NEW D, ReplaceRows(A, D)
    PROVE  /\ status' \in [Keys -> Status]
           /\ refcount' \in [Keys -> Nat]
           /\ pinFlag' \in [Keys -> BOOLEAN]
           /\ lruCur' \in [Keys -> BOOLEAN]
           /\ lruStale' \in [Keys -> BOOLEAN]
           /\ waiters' \in [Callers -> Keys \cup {Nil}]
BY DEF MetaType, ReplaceRows, NotifyWaiters, RestoredPin, IsPinned, Status

LEMMA ReplaceRowsIndex ==
    ASSUME MetaType, IndexInv, NEW A, NEW D, ReplaceRows(A, D), pinned' = pinned,
           \A k \in Keys : resv'[k].token # resv[k].token => k \in A \cup D
    PROVE  IndexInv'
<1>. USE NsOfType, NilIsNoKey DEF MetaType, IndexInv, ReplaceRows
<1>1. PlaceholderIsReserved'
  BY DEF PlaceholderIsReserved, HasReservation
<1>2. NoWaiterOnAvailable'
  BY DEF NoWaiterOnAvailable, NotifyWaiters
<1>3. PinFlagAgrees'
  BY DEF PinFlagAgrees, RestoredPin, IsPinned
<1>4. PinnedAtHome'
  BY DEF PinnedAtHome
<1>5. AvailableIsIndexed'
  BY DEF AvailableIsIndexed
<1>. QED BY <1>1, <1>2, <1>3, <1>4, <1>5

(* Installing and deleting rows, with the reservation change that goes     *)
(* with it: announce_saved, cancel_reservation, insert_available and       *)
(* cleanup_by_stage.                                                       *)
LEMMA InstallOrDelete ==
    ASSUME MetaType, IndexInv,
           \/ \E k : AnnounceSaved(k) \/ CancelReservation(k) \/ InsertAvailable(k)
           \/ \E S \in SUBSET Keys : CleanupByStage(S)
    PROVE  MetaType' /\ IndexInv'
<1>1. ASSUME NEW k, AnnounceSaved(k) \/ CancelReservation(k) PROVE MetaType' /\ IndexInv'
  <2>1. PICK A, D : ReplaceRows(A, D) /\ k \in A \cup D
    BY <1>1 DEF AnnounceSaved, CancelReservation
  <2>2. /\ UNCHANGED <<holders, pinned, liveKey, file>>
        /\ resv' = [resv EXCEPT ![k] = NoReservation]
    BY <1>1 DEF AnnounceSaved, CancelReservation
  <2>3. MetaType'
    BY <2>1, <2>2, ReplaceRowsType DEF MetaType, NoReservation, Reservation, Stage
  <2>4. IndexInv'
    BY <2>1, <2>2, ReplaceRowsIndex DEF MetaType
  <2>. QED BY <2>3, <2>4
<1>2. ASSUME NEW k, InsertAvailable(k) PROVE MetaType' /\ IndexInv'
  BY <1>2, ReplaceRowsType, ReplaceRowsIndex DEF InsertAvailable, MetaType
<1>3. ASSUME NEW S \in SUBSET Keys, CleanupByStage(S) PROVE MetaType' /\ IndexInv'
  <2>1. PICK A, D : ReplaceRows(A, D) /\ S \subseteq A \cup D
    BY <1>3 DEF CleanupByStage
  <2>2. /\ UNCHANGED <<holders, pinned, liveKey>>
        /\ resv' = [k \in Keys |-> IF k \in S THEN NoReservation ELSE resv[k]]
        /\ file' \in [Keys -> FileState]
    BY <1>3 DEF CleanupByStage, MetaType, FileState
  <2>3. MetaType'
    BY <2>1, <2>2, ReplaceRowsType DEF MetaType, NoReservation, Reservation, Stage
  <2>4. IndexInv'
    BY <2>1, <2>2, ReplaceRowsIndex DEF MetaType
  <2>. QED BY <2>3, <2>4
<1>. QED BY <1>1, <1>2, <1>3

(* reserve_save: the placeholder comes with its reservation. *)
LEMMA ReserveStep ==
    ASSUME MetaType, IndexInv, NEW k \in Keys, NEW t \in Tokens, ReserveSave(k, t)
    PROVE  MetaType' /\ IndexInv'
<1>. USE NilIsNoKey, TokensAreNumbers
<1>1. MetaType'
  BY DEF MetaType, ReserveSave, NotifyWaiters, Reservation, Stage, Status, FileState
<1>. USE DEF MetaType, IndexInv, ReserveSave
<1>2. PlaceholderIsReserved'
  BY DEF PlaceholderIsReserved, HasReservation
<1>3. NoWaiterOnAvailable'
  BY DEF NoWaiterOnAvailable, NotifyWaiters
<1>4. PinFlagAgrees' /\ PinnedAtHome' /\ AvailableIsIndexed'
  BY DEF PinFlagAgrees, PinnedAtHome, AvailableIsIndexed, IsPinned
<1>. QED BY <1>1, <1>2, <1>3, <1>4

(* Claims: checkout, checkin and the 'DOWN' of a holder. *)
LEMMA ClaimStep ==
    ASSUME MetaType, IndexInv, NEW m \in Refs,
           (\E k \in Keys : Checkout(m, k)) \/ DropHolder(m)
    PROVE  MetaType' /\ IndexInv'
<1>1. ASSUME NEW k \in Keys, Checkout(m, k) PROVE MetaType' /\ IndexInv'
  BY <1>1 DEF Checkout, MoveLruEntry, MetaType, FileState, IndexInv,
     PlaceholderIsReserved, HasReservation, NoWaiterOnAvailable, PinFlagAgrees,
     IsPinned, PinnedAtHome, AvailableIsIndexed
<1>2. ASSUME DropHolder(m) PROVE MetaType' /\ IndexInv'
  BY <1>2 DEF DropHolder, DecrementRefcount, MetaType, IndexInv,
     PlaceholderIsReserved, HasReservation, NoWaiterOnAvailable, PinFlagAgrees,
     IsPinned, PinnedAtHome, AvailableIsIndexed
<1>. QED BY <1>1, <1>2

(* Waiters, pins and the live key. *)
LEMMA WaitAndPinStep ==
    ASSUME MetaType, IndexInv,
           \/ \E c \in Callers, k \in Keys : LookupOrWait(c, k)
           \/ \E c \in Callers : ExpireWaiter(c)
           \/ \E k \in Keys : PinRow(k)
           \/ \E k \in Keys \cup {Nil} : SetLiveKey(k)
    PROVE  MetaType' /\ IndexInv'
<1>. USE NsOfType, NilIsNoKey
<1>1. ASSUME NEW c \in Callers, ExpireWaiter(c) \/ \E k \in Keys : LookupOrWait(c, k)
      PROVE  MetaType' /\ IndexInv'
  BY <1>1 DEF LookupOrWait, ExpireWaiter, rowVars, MetaType, IndexInv,
     PlaceholderIsReserved, HasReservation, NoWaiterOnAvailable, PinFlagAgrees,
     IsPinned, PinnedAtHome, AvailableIsIndexed
<1>2. ASSUME NEW k \in Keys, PinRow(k) PROVE MetaType' /\ IndexInv'
  <2>. USE DEF MetaType, PinRow, PinFlagsFor, IndexInv
  <2>1. MetaType'
    BY <1>2
  <2>2. PinnedAtHome'
    BY <1>2 DEF PinnedAtHome
  <2>. HIDE DEF PinRow, PinFlagsFor
  <2>4. ASSUME NEW j \in Keys, status'[j] = "available"
        PROVE  pinFlag'[j] <=> pinned'[NsOf[j]] = j
    <3>1. /\ status[j] = "available" /\ (pinFlag[j] <=> pinned[NsOf[j]] = j)
          /\ pinned' = [pinned EXCEPT ![NsOf[k]] = k]
          /\ NsOf[j] \in Namespaces /\ NsOf[k] \in Namespaces
      BY <1>2, <2>4 DEF PinRow, PinFlagAgrees, IsPinned
    <3>2. pinFlag'[j] = IF j = k THEN status[k] # "absent"
                        ELSE j # pinned[NsOf[k]] /\ pinFlag[j]
      BY <1>2 DEF PinRow, PinFlagsFor
    <3>3. CASE j = k
      BY <3>1, <3>2, <3>3
    <3>4. CASE j # k /\ NsOf[j] = NsOf[k]
      BY <3>1, <3>2, <3>4
    <3>5. CASE j # k /\ NsOf[j] # NsOf[k]
      <4>1. j # pinned[NsOf[k]]
        BY <3>1, <3>5 DEF PinnedAtHome
      <4>. QED BY <3>1, <3>2, <3>5, <4>1
    <3>. QED BY <3>3, <3>4, <3>5
  <2>5. PinFlagAgrees'
    BY <2>4 DEF PinFlagAgrees, IsPinned
  <2>3. PlaceholderIsReserved' /\ NoWaiterOnAvailable' /\ AvailableIsIndexed'
    BY <1>2 DEF PinRow, PlaceholderIsReserved, HasReservation, NoWaiterOnAvailable,
       AvailableIsIndexed
  <2>. QED BY <2>1, <2>2, <2>3, <2>5
<1>3. ASSUME NEW k \in Keys \cup {Nil}, SetLiveKey(k) PROVE MetaType' /\ IndexInv'
  BY <1>3 DEF SetLiveKey, rowVars, MetaType, IndexInv,
     PlaceholderIsReserved, HasReservation, NoWaiterOnAvailable, PinFlagAgrees,
     IsPinned, PinnedAtHome, AvailableIsIndexed
<1>. QED BY <1>1, <1>2, <1>3

(* Evictions delete rows that are available. *)
LEMMA EvictStep ==
    ASSUME MetaType, IndexInv, NEW E, NEW gone, EvictRows(E, gone)
    PROVE  MetaType' /\ IndexInv'
<1>. USE DEF MetaType, EvictRows, IndexInv
<1>1. MetaType'
  BY DEF Status, FileState
<1>2. PlaceholderIsReserved' /\ NoWaiterOnAvailable'
  BY NilIsNoKey DEF PlaceholderIsReserved, HasReservation, NoWaiterOnAvailable
<1>3. PinFlagAgrees' /\ PinnedAtHome' /\ AvailableIsIndexed'
  BY DEF PinFlagAgrees, PinnedAtHome, AvailableIsIndexed, IsPinned
<1>. QED BY <1>1, <1>2, <1>3

(* Steps of the reservation's life that keep its token. *)
LEMMA SameTokens ==
    ASSUME MetaType, IndexInv, UNCHANGED <<rowVars, holders, waiters, pinned, liveKey>>,
           resv' \in [Keys -> Reservation], file' \in [Keys -> FileState],
           \A k \in Keys : resv'[k].token = resv[k].token
    PROVE  MetaType' /\ IndexInv'
BY DEF rowVars, MetaType, IndexInv, PlaceholderIsReserved, HasReservation,
   NoWaiterOnAvailable, PinFlagAgrees, IsPinned, PinnedAtHome, AvailableIsIndexed

LEMMA OnlyFileChanges ==
    ASSUME MetaType, IndexInv, UNCHANGED metaVars, file' \in [Keys -> FileState]
    PROVE  MetaType' /\ IndexInv'
<1>1. UNCHANGED <<rowVars, holders, waiters, pinned, liveKey>> /\ resv' = resv
  BY DEF metaVars, rowVars
<1>. QED BY <1>1, SameTokens DEF MetaType

(* The saving processes. *)
LEMMA WriterIndexStep ==
    ASSUME MetaType, IndexInv, NEW w \in Writers, WriterStep(w) \/ WriterCrash(w)
    PROVE  MetaType' /\ IndexInv'
<1>1. ASSUME WriteTmp(w) \/ WriteTmpFails(w) \/ ValidateExisting(w)
      PROVE  MetaType' /\ IndexInv'
  <2>1. UNCHANGED metaVars /\ file' = file
    BY <1>1 DEF WriteTmp, WriteTmpFails, ValidateExisting
  <2>. QED BY <2>1, OnlyFileChanges DEF MetaType
<1>2. ASSUME Check(w) PROVE MetaType' /\ IndexInv'
  <2>1. CASE CheckReservation(wkey[w])
    <3>1. /\ UNCHANGED <<rowVars, holders, waiters, pinned, liveKey>>
          /\ resv' = [resv EXCEPT ![wkey[w]].fresh = TRUE]
          /\ file' = file
      BY <2>1 DEF CheckReservation
    <3>2. resv' \in [Keys -> Reservation] /\ \A k \in Keys : resv'[k].token = resv[k].token
      BY <3>1 DEF MetaType, Reservation
    <3>. QED BY <3>1, <3>2, SameTokens DEF MetaType
  <2>2. CASE UNCHANGED <<metaVars, file>>
    BY <2>2, OnlyFileChanges DEF MetaType
  <2>. QED BY <1>2, <2>1, <2>2 DEF Check
<1>3. ASSUME Link(w) \/ Unlink(w) \/ Relink(w) \/ Finalise(w) PROVE MetaType' /\ IndexInv'
  <2>1. UNCHANGED metaVars /\ file' \in [Keys -> FileState]
    BY <1>3 DEF Link, Unlink, Relink, Finalise, TryLink, AbortPublish, MetaType, FileState
  <2>. QED BY <2>1, OnlyFileChanges
<1>4. ASSUME Mark(w) PROVE MetaType' /\ IndexInv'
  <2>1. CASE MarkPublished(wkey[w])
    <3>1. /\ UNCHANGED <<rowVars, holders, waiters, pinned, liveKey>>
          /\ resv' = [resv EXCEPT ![wkey[w]].stage = "post_link", ![wkey[w]].fresh = TRUE]
          /\ file' = file
      BY <2>1 DEF MarkPublished
    <3>. DEFINE marked == [resv EXCEPT ![wkey[w]].stage = "post_link"]
    <3>2. marked \in [Keys -> Reservation] /\ \A k \in Keys : marked[k].token = resv[k].token
      BY DEF MetaType, Reservation, Stage
    <3>3. resv' = [marked EXCEPT ![wkey[w]].fresh = TRUE]
      BY <3>1
    <3>. HIDE DEF marked
    <3>4. resv' \in [Keys -> Reservation] /\ \A k \in Keys : resv'[k].token = resv[k].token
      BY <3>2, <3>3 DEF Reservation
    <3>. QED BY <3>1, <3>4, SameTokens DEF MetaType
  <2>2. CASE UNCHANGED <<metaVars, file>>
    BY <2>2, OnlyFileChanges DEF MetaType
  <2>. QED BY <1>4, <2>1, <2>2 DEF Mark
<1>5. ASSUME Announce(w) \/ Cancel(w) PROVE MetaType' /\ IndexInv'
  <2>1. CASE AnnounceSaved(wkey[w]) \/ CancelReservation(wkey[w])
    BY <2>1, InstallOrDelete
  <2>2. CASE UNCHANGED <<metaVars, file>>
    BY <2>2, OnlyFileChanges DEF MetaType
  <2>. QED BY <1>5, <2>1, <2>2 DEF Announce, Cancel
<1>6. ASSUME WriterCrash(w) PROVE MetaType' /\ IndexInv'
  BY <1>6, SameTokens DEF WriterCrash, MetaType, Reservation
<1>. QED BY <1>1, <1>2, <1>3, <1>4, <1>5, <1>6 DEF WriterStep

(* The reading processes. *)
LEMMA ReaderIndexStep ==
    ASSUME MetaType, IndexInv, NEW m \in Refs,
           ReaderStep(m) \/ ReaderCrash(m) \/ \E k \in Keys : ReaderCheckout(m, k)
    PROVE  MetaType' /\ IndexInv'
<1>1. ASSUME NEW k \in Keys, ReaderCheckout(m, k) PROVE MetaType' /\ IndexInv'
  BY <1>1, ClaimStep DEF ReaderCheckout
<1>2. ASSUME ReaderLoad(m) \/ ReaderCrash(m) PROVE MetaType' /\ IndexInv'
  <2>1. UNCHANGED metaVars /\ file' \in [Keys -> FileState]
    BY <1>2 DEF ReaderLoad, ReaderCrash, MetaType, FileState
  <2>. QED BY <2>1, OnlyFileChanges
<1>3. ASSUME ReaderCheckin(m) \/ ReaderDown(m) PROVE MetaType' /\ IndexInv'
  <2>1. DropHolder(m) \/ UNCHANGED <<metaVars, file>>
    BY <1>3 DEF ReaderCheckin, ReaderDown
  <2>. QED BY <2>1, ClaimStep, OnlyFileChanges DEF MetaType
<1>. QED BY <1>1, <1>2, <1>3 DEF ReaderStep

(* The meta server's own steps, and the requests that need no process of   *)
(* the model.                                                              *)
ServerStep ==
    \/ \E k \in Keys : ReservationExpires(k)
    \/ \E k \in Keys : Env(OnWriterDown(k))
    \/ Env(SweepReservations)
    \/ \E c \in Callers, k \in Keys : Env(LookupOrWait(c, k))
    \/ \E c \in Callers : Env(ExpireWaiter(c))
    \/ \E k \in PinKeys : Env(PinRow(k))
    \/ \E k \in LiveKeys : Env(SetLiveKey(k))
    \/ Env(Gc)
    \/ \E E \in SUBSET Keys : Env(EvictBytes(E))

FaultStep ==
    \/ \E k \in Keys : FileCorrupts(k)
    \/ TierStop
    \/ TierInit
    \/ \E k \in Keys : RegisterExisting(k)
    \/ MetaRestart

LEMMA ServerIndexStep ==
    ASSUME MetaType, IndexInv, ServerStep
    PROVE  MetaType' /\ IndexInv'
<1>1. ASSUME NEW k \in Keys, ReservationExpires(k) PROVE MetaType' /\ IndexInv'
  BY <1>1, SameTokens DEF ReservationExpires, MetaType, Reservation
<1>2. CASE (\E k \in Keys : OnWriterDown(k)) \/ SweepReservations
  <2>1. \E S \in SUBSET Keys : CleanupByStage(S)
    BY <1>2 DEF OnWriterDown, SweepReservations, StaleReservations
  <2>. QED BY <2>1, InstallOrDelete
<1>3. CASE \/ \E c \in Callers, k \in Keys : LookupOrWait(c, k)
           \/ \E c \in Callers : ExpireWaiter(c)
           \/ \E k \in Keys : PinRow(k)
           \/ \E k \in Keys \cup {Nil} : SetLiveKey(k)
  BY <1>3, WaitAndPinStep
<1>4. CASE Gc \/ \E E \in SUBSET Keys : EvictBytes(E)
  <2>1. \E E, gone : EvictRows(E, gone)
    BY <1>4 DEF Gc, EvictBytes
  <2>. QED BY <2>1, EvictStep
<1>. QED BY <1>1, <1>2, <1>3, <1>4, InputKeys DEF ServerStep, Env

LEMMA FaultIndexStep ==
    ASSUME MetaType, IndexInv, FaultStep
    PROVE  MetaType' /\ IndexInv'
<1>1. CASE (\E k \in Keys : FileCorrupts(k)) \/ TierStop \/ TierInit
  <2>1. UNCHANGED metaVars /\ file' \in [Keys -> FileState]
    BY <1>1 DEF FileCorrupts, TierStop, TierInit, MetaType, FileState
  <2>. QED BY <2>1, OnlyFileChanges
<1>2. ASSUME NEW k \in Keys, RegisterExisting(k) PROVE MetaType' /\ IndexInv'
  BY <1>2, InstallOrDelete DEF RegisterExisting
<1>3. CASE MetaRestart
  BY <1>3 DEF MetaRestart, MetaType, Status, Reservation, NoReservation, Stage, IndexInv,
     PlaceholderIsReserved, HasReservation, NoWaiterOnAvailable, PinFlagAgrees,
     IsPinned, PinnedAtHome, AvailableIsIndexed
<1>. QED BY <1>1, <1>2, <1>3 DEF FaultStep

LEMMA ProcTypeStep == MetaType /\ ProcType /\ [Next]_vars => ProcType'
<1>. SUFFICES ASSUME MetaType, ProcType, [Next]_vars PROVE ProcType'
  OBVIOUS
<1>. USE DEF ProcType, WriterPC, ReaderPC
<1>1. ASSUME NEW w \in Writers, NEW k \in Keys, NEW t \in Tokens, Reserve(w, k, t)
      PROVE  ProcType'
  BY <1>1 DEF Reserve, Goto, envVars
<1>2. ASSUME NEW w \in Writers, WriterStep(w) PROVE ProcType'
  <2>1. UNCHANGED envVars
    BY <1>2 DEF WriterStep, WriteTmp, WriteTmpFails, Check, Link, ValidateExisting,
       Unlink, Relink, Finalise, Mark, Announce, Cancel
  <2>2. CASE WriteTmp(w) \/ WriteTmpFails(w) \/ Check(w) \/ ValidateExisting(w)
    BY <2>1, <2>2 DEF WriteTmp, WriteTmpFails, Check, ValidateExisting, EndSave, Goto, envVars
  <2>3. CASE Link(w) \/ Unlink(w) \/ Relink(w) \/ Finalise(w)
    BY <2>1, <2>3 DEF Link, Unlink, Relink, Finalise, TryLink, AbortPublish, Goto, envVars
  <2>4. CASE Mark(w) \/ Announce(w) \/ Cancel(w)
    BY <2>1, <2>4 DEF Mark, Announce, Cancel, EndSave, Goto, envVars
  <2>. QED BY <1>2, <2>2, <2>3, <2>4 DEF WriterStep
<1>3. ASSUME NEW w \in Writers, WriterCrash(w) PROVE ProcType'
  BY <1>3 DEF WriterCrash, EndSave, Goto, envVars
<1>4. ASSUME NEW m \in Refs, NEW k \in Keys, ReaderCheckout(m, k) PROVE ProcType'
  BY <1>4 DEF ReaderCheckout, writerVars
<1>5. ASSUME NEW m \in Refs, ReaderStep(m) \/ ReaderCrash(m) PROVE ProcType'
  BY <1>5 DEF ReaderStep, ReaderLoad, ReaderCheckin, ReaderDown, ReaderCrash, writerVars
<1>6. CASE ServerStep
  <2>1. UNCHANGED <<writerVars, envVars>>
    BY <1>6 DEF ServerStep, Env, ReservationExpires
  <2>. QED BY <2>1 DEF writerVars, envVars
<1>7. CASE FaultStep
  BY <1>7 DEF FaultStep, FileCorrupts, TierStop, TierInit, RegisterExisting, MetaRestart,
     writerVars, envVars
<1>8. CASE UNCHANGED vars
  BY <1>8 DEF vars, writerVars, envVars
<1>. QED BY <1>1, <1>2, <1>3, <1>4, <1>5, <1>6, <1>7, <1>8 DEF Next, ServerStep, FaultStep

LEMMA MetaStep == MetaType /\ IndexInv /\ [Next]_vars => MetaType' /\ IndexInv'
<1>. SUFFICES ASSUME MetaType, IndexInv, [Next]_vars PROVE MetaType' /\ IndexInv'
  OBVIOUS
<1>1. ASSUME NEW w \in Writers, NEW k \in Keys, NEW t \in Tokens, Reserve(w, k, t)
      PROVE  MetaType' /\ IndexInv'
  BY <1>1, ReserveStep DEF Reserve
<1>2. ASSUME NEW w \in Writers, WriterStep(w) \/ WriterCrash(w)
      PROVE  MetaType' /\ IndexInv'
  BY <1>2, WriterIndexStep
<1>3. ASSUME NEW m \in Refs,
             ReaderStep(m) \/ ReaderCrash(m) \/ \E k \in Keys : ReaderCheckout(m, k)
      PROVE  MetaType' /\ IndexInv'
  BY <1>3, ReaderIndexStep
<1>4. CASE ServerStep \/ FaultStep
  BY <1>4, ServerIndexStep, FaultIndexStep
<1>5. CASE UNCHANGED vars
  <2>1. UNCHANGED metaVars /\ file' = file
    BY <1>5 DEF vars
  <2>. QED BY <2>1, OnlyFileChanges DEF MetaType
<1>. QED BY <1>1, <1>2, <1>3, <1>4, <1>5 DEF Next, ServerStep, FaultStep

LEMMA InitTypes == Init => MetaType /\ ProcType /\ IndexInv
<1>. SUFFICES ASSUME Init PROVE MetaType /\ ProcType /\ IndexInv
  OBVIOUS
<1>1. file \in [Keys -> FileState]
  BY DEF Init, FileState
<1>2. MetaType
  BY <1>1 DEF Init, MetaType, Status, Reservation, NoReservation, Stage
<1>3. ProcType
  BY DEF Init, ProcType, WriterPC, ReaderPC
<1>4. IndexInv
  BY NsOfType, NilIsNoKey
  DEF Init, IndexInv, PlaceholderIsReserved, HasReservation, NoWaiterOnAvailable,
      PinFlagAgrees, IsPinned, PinnedAtHome, AvailableIsIndexed
<1>. QED BY <1>2, <1>3, <1>4

(* Types, for every number of writers, readers, callers and keys, and      *)
(* whatever faults happen.                                                 *)
THEOREM TypeCorrect == Spec => []TypeOK
<1>1. MetaType /\ ProcType /\ IndexInv /\ [Next]_vars => (MetaType /\ ProcType /\ IndexInv)'
  BY ProcTypeStep, MetaStep
<1>. QED BY <1>1, InitTypes, TypeSplit, PTL DEF Spec

(* The index is consistent in every reachable state, whatever crashes,     *)
(* expires, corrupts or restarts: no placeholder without its reservation,  *)
(* nobody parked on an available row, pin flags as the pinned map says,    *)
(* and every available row in the LRU table.                               *)
THEOREM IndexConsistent ==
    Spec => [](/\ PlaceholderIsReserved /\ NoWaiterOnAvailable
               /\ PinFlagAgrees /\ AvailableIsIndexed)
<1>1. MetaType /\ ProcType /\ IndexInv /\ [Next]_vars => (MetaType /\ ProcType /\ IndexInv)'
  BY ProcTypeStep, MetaStep
<1>2. IndexInv => /\ PlaceholderIsReserved /\ NoWaiterOnAvailable
                  /\ PinFlagAgrees /\ AvailableIsIndexed
  BY DEF IndexInv
<1>. QED BY <1>1, <1>2, InitTypes, PTL DEF Spec

-----------------------------------------------------------------------------
(* Without faults: no writer outlives its TTL between check and mark, no   *)
(* file goes bad, no server restarts.                                      *)

(* A reservation is for a placeholder row. *)
ReservedIsWriting ==
    \A k \in Keys : HasReservation(k) => status[k] = "writing"

(* Tokens: an idle writer has none, a busy one has its own, which can only *)
(* name the reservation of the key it saves.                               *)
TokensApart ==
    /\ \A w \in Writers : IF wpc[w] = "idle" THEN wtok[w] = Nil
                          ELSE wtok[w] \in Tokens /\ wkey[w] \in Keys
    /\ \A w, v \in Writers : wtok[w] = wtok[v] /\ wtok[w] # Nil => w = v
    /\ \A w \in Writers, k \in Keys : TokenMatches(k, wtok[w]) => k = wkey[w]

(* A reservation knows whether its writer lives and how far it got. *)
OwnersAreUp ==
    \A w \in Writers : TokenMatches(wkey[w], wtok[w]) =>
        /\ resv[wkey[w]].up
        /\ resv[wkey[w]].stage = "post_link" <=> wpc[w] = "marked"

(* A writer between check_reservation and mark_published holds a live      *)
(* reservation.                                                            *)
LinkersAreLive ==
    \A w \in Writers : wpc[w] \in LinkPhase =>
        TokenMatches(wkey[w], wtok[w]) /\ ReservationIsLive(wkey[w])

(* A file that was linked and validated stays until it is indexed. *)
LinkedFileStays ==
    /\ \A w \in Writers : wpc[w] = "published" => file[wkey[w]] = "ok"
    /\ \A k \in Keys : resv[k].stage = "post_link" => HasReservation(k) /\ file[k] = "ok"

(* A process between checkout and checkin holds an available row, and its  *)
(* load finds the file.                                                    *)
ReadersHold ==
    \A m \in Refs :
        /\ rpc[m] = "idle" => holders[m] = Nil
        /\ rpc[m] # "idle" => holders[m] \in Keys /\ rkey[m] = holders[m]
        /\ holders[m] # Nil => status[holders[m]] = "available"
        /\ rpc[m] # "miss"

ProtocolInv ==
    /\ tier = TRUE /\ todo = {}
    /\ ReservedIsWriting
    /\ TokensApart
    /\ OwnersAreUp
    /\ LinkersAreLive
    /\ LinkedFileStays
    /\ AvailableHasFile
    /\ ReadersHold
    /\ RefcountIsHolders

(* What holds before every step below. *)
StepContext == Faults = {} /\ MetaType /\ ProcType /\ IndexInv /\ ProtocolInv

-----------------------------------------------------------------------------
(* Claims.                                                                 *)

(* A refcount of 0 means that no process holds the row. *)
LEMMA NobodyHolds ==
    ASSUME RefcountIsHolders, NEW k \in Keys, refcount[k] = 0
    PROVE  \A m \in Refs : holders[m] # k
<1>. DEFINE H == {m \in Refs : holders[m] = k}
<1>1. IsFiniteSet(H)
  BY RefsFinite, FS_Subset
<1>2. Cardinality(H) = 0
  BY DEF RefcountIsHolders
<1>3. H = {}
  BY <1>1, <1>2, FS_EmptySet
<1>. QED BY <1>3

(* Steps that touch only rows nobody holds keep the claims intact. *)
LEMMA ClaimsKept ==
    ASSUME MetaType, ReadersHold, RefcountIsHolders, UNCHANGED <<holders, rpc, rkey>>,
           \A k \in Keys : status[k] = "available" =>
               \/ status'[k] = "available" /\ refcount'[k] = refcount[k]
               \/ refcount[k] = 0 /\ refcount'[k] = 0,
           \A k \in Keys : status[k] # "available" => refcount'[k] \in {0, refcount[k]}
    PROVE  ReadersHold' /\ RefcountIsHolders'
<1>1. ASSUME NEW k \in Keys PROVE refcount'[k] = refcount[k]
  <2>1. CASE status[k] = "available"
    BY <2>1
  <2>2. CASE status[k] # "available"
    <3>1. {m \in Refs : holders[m] = k} = {}
      BY <2>2, NilIsNoKey DEF ReadersHold
    <3>2. refcount[k] = 0
      BY <3>1, FS_EmptySet DEF RefcountIsHolders
    <3>. QED BY <2>2, <3>2
  <2>. QED BY <2>1, <2>2
<1>2. RefcountIsHolders'
  BY <1>1 DEF RefcountIsHolders
<1>3. ASSUME NEW m \in Refs, holders[m] # Nil PROVE status'[holders[m]] = "available"
  <2>1. holders[m] \in Keys /\ status[holders[m]] = "available"
    BY <1>3 DEF MetaType, ReadersHold
  <2>2. refcount[holders[m]] # 0
    BY <2>1, NobodyHolds
  <2>. QED BY <2>1, <2>2
<1>4. ReadersHold'
  BY <1>3 DEF ReadersHold
<1>. QED BY <1>2, <1>4

-----------------------------------------------------------------------------
(* Writers.                                                                *)

(* A writer moves along the pipeline and the server's tables do not        *)
(* change: only the file of its own key may, and only while it links.      *)
LEMMA PipelineStep ==
    ASSUME StepContext, NEW w \in Writers, NEW l \in {"written", "cancel"} \cup LinkPhase,
           wpc[w] \notin {"idle", "marked"}, Goto(w, l), UNCHANGED <<metaVars, envVars, wkey, wtok>>,
           l \in LinkPhase => wpc[w] \in LinkPhase,
           \A k \in Keys : file'[k] # file[k] => wpc[w] \in LinkPhase /\ k = wkey[w],
           l = "published" => file'[wkey[w]] = "ok"
    PROVE  ProtocolInv'
<1>. USE DEF StepContext, ProtocolInv, Goto, metaVars, envVars, ProcType, MetaType
<1>1. ReservedIsWriting'
  BY DEF ReservedIsWriting, HasReservation
<1>2. TokensApart'
  BY DEF TokensApart, TokenMatches, HasReservation, LinkPhase
<1>3. LinkersAreLive'
  BY DEF LinkersAreLive, TokenMatches, HasReservation, ReservationIsLive
<1>4. LinkedFileStays'
  <2>1. ASSUME NEW v \in Writers, wpc'[v] = "published" PROVE file'[wkey'[v]] = "ok"
    <3>1. CASE v = w
      BY <2>1, <3>1
    <3>2. CASE v # w
      <4>1. wpc[v] = "published" /\ file[wkey[v]] = "ok"
        BY <2>1, <3>2 DEF LinkedFileStays
      <4>2. /\ wkey[v] \in Keys
            /\ wkey[w] = wkey[v] => wpc[w] \notin LinkPhase
        BY <3>2, <4>1 DEF LinkersAreLive, TokensApart, TokenMatches, HasReservation, LinkPhase
      <4>. QED BY <4>1, <4>2
    <3>. QED BY <3>1, <3>2
  <2>2. ASSUME NEW k \in Keys, resv'[k].stage = "post_link"
        PROVE  HasReservation(k)' /\ file'[k] = "ok"
    <3>1. resv[k].stage = "post_link" /\ HasReservation(k) /\ file[k] = "ok"
      BY <2>2 DEF LinkedFileStays
    <3>2. wpc[w] \in LinkPhase => k # wkey[w]
      BY <3>1 DEF LinkersAreLive, OwnersAreUp, LinkPhase
    <3>. QED BY <3>1, <3>2 DEF HasReservation
  <2>. QED BY <2>1, <2>2 DEF LinkedFileStays
<1>5. AvailableHasFile'
  BY DEF AvailableHasFile, LinkersAreLive, ReservedIsWriting, TokenMatches
<1>6. ReadersHold' /\ RefcountIsHolders'
  BY DEF ReadersHold, RefcountIsHolders
<1>7. OwnersAreUp'
  <2>1. l # "marked"
    BY DEF LinkPhase
  <2>. QED BY <2>1 DEF OwnersAreUp, TokenMatches, HasReservation
<1>. QED BY <1>1, <1>2, <1>3, <1>4, <1>5, <1>6, <1>7

(* A save ends and the server's tables do not change. *)
LEMMA SaveEnds ==
    ASSUME StepContext, NEW w \in Writers, EndSave(w), UNCHANGED <<metaVars, file, envVars>>
    PROVE  ProtocolInv'
<1>. USE DEF StepContext, ProtocolInv, EndSave, Goto, metaVars, envVars, ProcType, MetaType
<1>1. ReservedIsWriting'
  BY DEF ReservedIsWriting, HasReservation
<1>2. TokensApart'
  BY DEF TokensApart, TokenMatches, HasReservation
<1>3. LinkersAreLive'
  BY DEF LinkersAreLive, TokenMatches, HasReservation, ReservationIsLive, LinkPhase
<1>4. LinkedFileStays'
  BY DEF LinkedFileStays, TokenMatches, HasReservation
<1>5. AvailableHasFile' /\ ReadersHold' /\ RefcountIsHolders'
  BY DEF AvailableHasFile, ReadersHold, RefcountIsHolders
<1>6. OwnersAreUp'
  BY DEF OwnersAreUp, TokenMatches, HasReservation
<1>. QED BY <1>1, <1>2, <1>3, <1>4, <1>5, <1>6

LEMMA LinkStep ==
    ASSUME StepContext, NEW w \in Writers,
           \/ WriteTmp(w) \/ WriteTmpFails(w) \/ Link(w) \/ ValidateExisting(w)
           \/ Unlink(w) \/ Relink(w) \/ Finalise(w)
    PROVE  ProtocolInv'
<1>. USE DEF StepContext
<1>1. CASE WriteTmp(w) \/ WriteTmpFails(w)
  <2>1. PICK l \in {"written", "cancel"} : Goto(w, l)
    BY <1>1 DEF WriteTmp, WriteTmpFails
  <2>2. wpc[w] = "reserved" /\ UNCHANGED <<metaVars, envVars, wkey, wtok>> /\ file' = file
    BY <1>1 DEF WriteTmp, WriteTmpFails
  <2>. QED BY <2>1, <2>2, PipelineStep DEF LinkPhase
<1>2. CASE Link(w) \/ ValidateExisting(w) \/ Unlink(w) \/ Relink(w) \/ Finalise(w)
  <2>1. wpc[w] \in LinkPhase /\ UNCHANGED <<metaVars, envVars, wkey, wtok>>
    BY <1>2 DEF Link, ValidateExisting, Unlink, Relink, Finalise, TryLink, AbortPublish, LinkPhase
  <2>2. \A k \in Keys : file'[k] # file[k] => k = wkey[w]
    BY <1>2 DEF Link, ValidateExisting, Unlink, Relink, Finalise, TryLink, AbortPublish, MetaType
  <2>3. PICK l \in {"cancel"} \cup LinkPhase :
           Goto(w, l) /\ (l = "published" => file'[wkey[w]] = "ok")
    BY <1>2 DEF Link, ValidateExisting, Unlink, Relink, Finalise, TryLink, AbortPublish, LinkPhase
  <2>4. wpc[w] \notin {"idle", "marked"}
    BY <2>1 DEF LinkPhase
  <2>. QED BY <2>1, <2>2, <2>3, <2>4, PipelineStep
<1>. QED BY <1>1, <1>2

(* Every writer is where it was, except those whose save ended. *)
WritersOnlyEnd ==
    \A v \in Writers :
        \/ wpc'[v] = wpc[v] /\ wkey'[v] = wkey[v] /\ wtok'[v] = wtok[v]
        \/ wpc'[v] = "idle" /\ wtok'[v] = Nil

LEMMA EndsOnlyEnd ==
    ASSUME StepContext, (\E w \in Writers : EndSave(w)) \/ UNCHANGED writerVars
    PROVE  WritersOnlyEnd
BY DEF StepContext, ProcType, WritersOnlyEnd, EndSave, Goto, writerVars

(* The reservations of S end: the rows A, whose files are good, become     *)
(* available and the other placeholders go.                                *)
LEMMA ReservationsEnd ==
    ASSUME StepContext, NEW S \in SUBSET Keys, NEW A \in SUBSET S,
           ReplaceRows(A, S \ A), \A k \in S : HasReservation(k),
           \A k \in A : file[k] = "ok", file' = file, WritersOnlyEnd,
           \A v \in Writers : wpc'[v] \in LinkPhase => wkey[v] \notin S,
           resv' = [k \in Keys |-> IF k \in S THEN NoReservation ELSE resv[k]],
           UNCHANGED <<holders, rpc, rkey, tier, todo>>
    PROVE  ProtocolInv'
<1>. USE DEF StepContext, ProtocolInv
<1>0. /\ \A k \in S : ~HasReservation(k)' /\ resv'[k].stage = "none"
      /\ \A k \in Keys \ S : resv'[k] = resv[k]
  BY DEF HasReservation, NoReservation
<1>1. ReservedIsWriting'
  BY <1>0 DEF ReservedIsWriting, HasReservation, ReplaceRows, MetaType
<1>2. TokensApart'
  <2>. USE DEF TokensApart, WritersOnlyEnd
  <2>1. \A v \in Writers : IF wpc'[v] = "idle" THEN wtok'[v] = Nil
                           ELSE wtok'[v] \in Tokens /\ wkey'[v] \in Keys
    OBVIOUS
  <2>2. \A v, u \in Writers : wtok'[v] = wtok'[u] /\ wtok'[v] # Nil => v = u
    OBVIOUS
  <2>3. ASSUME NEW v \in Writers, NEW k \in Keys, TokenMatches(k, wtok[v])' PROVE k = wkey'[v]
    <3>1. wtok'[v] # Nil /\ k \notin S
      BY <1>0, <2>3 DEF TokenMatches, HasReservation
    <3>2. wtok'[v] = wtok[v] /\ wkey'[v] = wkey[v] /\ resv'[k] = resv[k]
      BY <1>0, <3>1
    <3>. QED BY <2>3, <3>2 DEF TokenMatches, HasReservation
  <2>. QED BY <2>1, <2>2, <2>3
<1>3. LinkersAreLive'
  BY <1>0 DEF LinkersAreLive, TokenMatches, HasReservation, ReservationIsLive, LinkPhase,
     WritersOnlyEnd, TokensApart
<1>4. LinkedFileStays'
  BY <1>0 DEF LinkedFileStays, HasReservation, WritersOnlyEnd
<1>5. AvailableHasFile'
  BY DEF AvailableHasFile, ReplaceRows, MetaType
<1>6. OwnersAreUp'
  <2>. SUFFICES ASSUME NEW v \in Writers, TokenMatches(wkey[v], wtok[v])'
                PROVE  /\ resv'[wkey'[v]].up
                       /\ resv'[wkey'[v]].stage = "post_link" <=> wpc'[v] = "marked"
    BY DEF OwnersAreUp
  <2>1. wtok'[v] # Nil
    BY DEF TokenMatches, HasReservation
  <2>2. wpc'[v] = wpc[v] /\ wkey'[v] = wkey[v] /\ wtok'[v] = wtok[v]
    BY <2>1 DEF WritersOnlyEnd
  <2>3. wkey[v] \in Keys
    BY <2>1, <2>2 DEF TokensApart
  <2>4. wkey[v] \notin S
    BY <1>0, <2>2 DEF TokenMatches, HasReservation
  <2>5. resv'[wkey[v]] = resv[wkey[v]]
    BY <1>0, <2>3, <2>4
  <2>. QED BY <2>2, <2>5 DEF OwnersAreUp, TokenMatches, HasReservation
<1>7. ReadersHold' /\ RefcountIsHolders'
  <2>1. \A k \in Keys : status[k] = "available" =>
            status'[k] = "available" /\ refcount'[k] = refcount[k]
    BY DEF ReservedIsWriting, ReplaceRows, MetaType
  <2>2. \A k \in Keys : refcount'[k] \in {0, refcount[k]}
    BY DEF ReplaceRows, MetaType
  <2>. QED BY <2>1, <2>2, ClaimsKept
<1>. QED BY <1>1, <1>2, <1>3, <1>4, <1>5, <1>6, <1>7

LEMMA AnnounceOrCancel ==
    ASSUME StepContext, NEW w \in Writers, Announce(w) \/ Cancel(w)
    PROVE  ProtocolInv'
<1>. USE DEF StepContext, ProtocolInv
<1>1. EndSave(w) /\ UNCHANGED envVars /\ wpc[w] \notin LinkPhase
  BY DEF Announce, Cancel, LinkPhase
<1>2. CASE ~TokenMatches(wkey[w], wtok[w])
  BY <1>1, <1>2, SaveEnds DEF Announce, Cancel
<1>3. CASE TokenMatches(wkey[w], wtok[w])
  <2>1. wkey[w] \in Keys /\ wtok[w] \in Tokens
    BY DEF TokensApart, Announce, Cancel
  <2>. DEFINE A == IF Announce(w) THEN {wkey[w]} ELSE {}
  <2>2. ReplaceRows(A, {wkey[w]} \ A)
    <3>1. {wkey[w]} \ {wkey[w]} = {} /\ {wkey[w]} \ {} = {wkey[w]}
      OBVIOUS
    <3>2. CASE Announce(w)
      BY <1>3, <3>1, <3>2 DEF Announce, AnnounceSaved
    <3>3. CASE ~Announce(w)
      BY <1>3, <3>1, <3>3 DEF Cancel, CancelReservation
    <3>. QED BY <3>2, <3>3
  <2>3. \A k \in A : file[k] = "ok"
    BY <1>3 DEF Announce, OwnersAreUp, LinkedFileStays, TokensApart
  <2>4. /\ file' = file /\ UNCHANGED <<holders, rpc, rkey, tier, todo>>
        /\ resv' = [resv EXCEPT ![wkey[w]] = NoReservation]
    BY <1>1, <1>3 DEF Announce, Cancel, AnnounceSaved, CancelReservation, envVars
  <2>5. resv' = [k \in Keys |-> IF k \in {wkey[w]} THEN NoReservation ELSE resv[k]]
    BY <2>4 DEF MetaType
  <2>6. \A v \in Writers : wpc'[v] \in LinkPhase => wkey[v] # wkey[w]
    <3>. SUFFICES ASSUME NEW v \in Writers, wpc'[v] \in LinkPhase, wkey[v] = wkey[w] PROVE FALSE
      OBVIOUS
    <3>1. v # w /\ wpc[v] \in LinkPhase
      BY <1>1 DEF EndSave, Goto, ProcType, LinkPhase
    <3>2. wtok[v] = wtok[w] /\ wtok[w] # Nil
      BY <1>3, <3>1 DEF LinkersAreLive, TokenMatches, HasReservation
    <3>. QED BY <3>1, <3>2 DEF TokensApart
  <2>7. WritersOnlyEnd
    BY <1>1, EndsOnlyEnd
  <2>8. \A k \in {wkey[w]} : HasReservation(k)
    BY <1>3 DEF TokenMatches
  <2>9. A \in SUBSET {wkey[w]} /\ {wkey[w]} \in SUBSET Keys
    BY <2>1
  <2>. HIDE DEF A
  <2>. QED BY <2>2, <2>3, <2>4, <2>5, <2>6, <2>7, <2>8, <2>9, ReservationsEnd
<1>. QED BY <1>2, <1>3

(* A dead or stale reservation is cleaned up: by invariant its linked file *)
(* is good, so it is adopted and no file is deleted.                       *)
LEMMA CleanupStep ==
    ASSUME StepContext, NEW S \in SUBSET Keys, CleanupByStage(S),
           \A k \in S : HasReservation(k) /\ ~ReservationIsLive(k),
           UNCHANGED <<writerVars, envVars>>
    PROVE  ProtocolInv'
<1>. USE DEF StepContext, ProtocolInv
<1>. DEFINE A == {k \in S : resv[k].stage = "post_link"}
<1>1. \A k \in A : file[k] = "ok"
  BY DEF LinkedFileStays
<1>2. {k \in A : file[k] = "ok"} = A
  BY <1>1
<1>3. ReplaceRows(A, S \ A)
  BY <1>2 DEF CleanupByStage
<1>4. file' = file
  <2>1. A \ A = {}
    OBVIOUS
  <2>. QED BY <1>2, <2>1 DEF CleanupByStage, MetaType
<1>5. resv' = [k \in Keys |-> IF k \in S THEN NoReservation ELSE resv[k]]
  BY DEF CleanupByStage
<1>6. \A v \in Writers : wpc'[v] \in LinkPhase => wkey[v] \notin S
  BY DEF LinkersAreLive, writerVars
<1>7. WritersOnlyEnd
  BY EndsOnlyEnd
<1>8. UNCHANGED <<holders, rpc, rkey, tier, todo>>
  BY DEF CleanupByStage, envVars
<1>. HIDE DEF A
<1>. QED BY <1>1, <1>3, <1>4, <1>5, <1>6, <1>7, <1>8, ReservationsEnd DEF A

(* Steps that change neither rows nor files nor claims. *)
LEMMA RowsAndClaimsKept ==
    ASSUME StepContext, UNCHANGED <<rowVars, holders, file, envVars>>,
           \A k \in Keys : resv'[k].token = resv[k].token
    PROVE  /\ tier' = TRUE /\ todo' = {} /\ ReservedIsWriting'
           /\ AvailableHasFile' /\ ReadersHold' /\ RefcountIsHolders'
BY DEF StepContext, ProtocolInv, rowVars, envVars, ReservedIsWriting, HasReservation,
   AvailableHasFile, ReadersHold, RefcountIsHolders

(* check_reservation and mark_published with a token that matches. *)
LEMMA RenewStep ==
    ASSUME StepContext, NEW w \in Writers, TokenMatches(wkey[w], wtok[w]),
           \/ wpc[w] = "written" /\ CheckReservation(wkey[w]) /\ Goto(w, "checked")
           \/ wpc[w] = "published" /\ MarkPublished(wkey[w]) /\ Goto(w, "marked"),
           UNCHANGED <<wkey, wtok, envVars>>
    PROVE  ProtocolInv'
<1>. USE DEF StepContext, ProtocolInv
<1>. DEFINE marks == wpc[w] = "published"
<1>1. wkey[w] \in Keys /\ wtok[w] \in Tokens
  BY DEF TokensApart
<1>2. /\ UNCHANGED <<rowVars, holders, waiters, pinned, liveKey, file, envVars, wkey, wtok>>
      /\ wpc' = [wpc EXCEPT ![w] = IF marks THEN "marked" ELSE "checked"]
      /\ wpc[w] \in {"written", "published"}
  BY DEF CheckReservation, MarkPublished, Goto
<1>3. /\ \A k \in Keys : k # wkey[w] => resv'[k] = resv[k]
      /\ resv'[wkey[w]].token = resv[wkey[w]].token
      /\ resv'[wkey[w]].up = resv[wkey[w]].up
      /\ resv'[wkey[w]].fresh
      /\ resv'[wkey[w]].stage = IF marks THEN "post_link" ELSE resv[wkey[w]].stage
  <2>1. CASE wpc[w] = "written"
    <3>1. resv' = [resv EXCEPT ![wkey[w]].fresh = TRUE]
      BY <2>1 DEF CheckReservation
    <3>. QED BY <1>1, <2>1, <3>1 DEF MetaType, Reservation
  <2>2. CASE wpc[w] = "published"
    <3>1. resv' = [resv EXCEPT ![wkey[w]].stage = "post_link", ![wkey[w]].fresh = TRUE]
      BY <2>2 DEF MarkPublished
    <3>2. resv' = [resv EXCEPT ![wkey[w]] = [@ EXCEPT !.stage = "post_link", !.fresh = TRUE]]
      BY <1>1, <3>1 DEF MetaType
    <3>. QED BY <1>1, <2>2, <3>2 DEF MetaType, Reservation
  <2>. QED BY <1>2, <2>1, <2>2
<1>4. \A k \in Keys : resv'[k].token = resv[k].token
  BY <1>3
<1>5. \A v \in Writers : v # w /\ TokenMatches(wkey[v], wtok[v]) => wkey[v] # wkey[w]
  BY DEF TokensApart, TokenMatches, HasReservation
<1>6. TokensApart'
  BY <1>1, <1>2, <1>4 DEF TokensApart, TokenMatches, HasReservation, ProcType
<1>7. OwnersAreUp'
  <2>. SUFFICES ASSUME NEW v \in Writers, TokenMatches(wkey[v], wtok[v])'
                PROVE  /\ resv'[wkey[v]].up
                       /\ resv'[wkey[v]].stage = "post_link" <=> wpc'[v] = "marked"
    BY <1>2 DEF OwnersAreUp
  <2>1. wkey[v] \in Keys /\ TokenMatches(wkey[v], wtok[v])
    BY <1>2, <1>4 DEF TokensApart, TokenMatches, HasReservation
  <2>2. CASE v = w
    BY <1>2, <1>3, <2>1, <2>2 DEF OwnersAreUp, ProcType
  <2>3. CASE v # w
    BY <1>2, <1>3, <1>5, <2>1, <2>3 DEF OwnersAreUp, ProcType
  <2>. QED BY <2>2, <2>3
<1>8. LinkersAreLive'
  <2>. SUFFICES ASSUME NEW v \in Writers, wpc'[v] \in LinkPhase
                PROVE  TokenMatches(wkey[v], wtok[v])' /\ ReservationIsLive(wkey[v])'
    BY <1>2 DEF LinkersAreLive
  <2>1. wkey[v] \in Keys /\ TokenMatches(wkey[v], wtok[v]) /\ (v # w => ReservationIsLive(wkey[v]))
    BY <1>2 DEF LinkersAreLive, TokensApart, LinkPhase, ProcType
  <2>. QED BY <1>2, <1>3, <1>4, <1>5, <2>1
       DEF TokenMatches, HasReservation, ReservationIsLive, OwnersAreUp
<1>9. LinkedFileStays'
  BY <1>1, <1>2, <1>3 DEF LinkedFileStays, HasReservation, TokenMatches, ProcType
<1>. QED BY <1>2, <1>4, <1>6, <1>7, <1>8, <1>9, RowsAndClaimsKept

(* A writer dies: its reservation is no longer up, the others are. *)
LEMMA CrashStep ==
    ASSUME StepContext, NEW w \in Writers, WriterCrash(w)
    PROVE  ProtocolInv'
<1>. USE DEF StepContext, ProtocolInv
<1>1. WritersOnlyEnd /\ wpc'[w] = "idle"
  BY EndsOnlyEnd DEF WriterCrash, EndSave, Goto, ProcType
<1>2. /\ UNCHANGED <<rowVars, holders, file, envVars>>
      /\ \A k \in Keys : resv'[k].token = resv[k].token /\ resv'[k].stage = resv[k].stage
                         /\ (resv[k].token # wtok[w] => resv'[k] = resv[k])
  BY DEF WriterCrash, TokenMatches, HasReservation, MetaType, Reservation
<1>3. TokensApart'
  BY <1>1, <1>2 DEF TokensApart, TokenMatches, HasReservation, WritersOnlyEnd
<1>4. ASSUME NEW v \in Writers, wtok'[v] # Nil
      PROVE  /\ wpc'[v] = wpc[v] /\ wkey'[v] = wkey[v] /\ wtok'[v] = wtok[v]
             /\ wkey[v] \in Keys
             /\ TokenMatches(wkey[v], wtok[v]) => resv'[wkey[v]] = resv[wkey[v]]
  <2>1. v # w
    BY <1>1, <1>3, <1>4 DEF TokensApart
  <2>2. wpc'[v] = wpc[v] /\ wkey'[v] = wkey[v] /\ wtok'[v] = wtok[v] /\ wkey[v] \in Keys
    BY <1>1, <1>4 DEF WritersOnlyEnd, TokensApart
  <2>. QED BY <1>2, <1>4, <2>1, <2>2 DEF TokensApart, TokenMatches
<1>5. OwnersAreUp' /\ LinkersAreLive'
  BY <1>1, <1>2, <1>4 DEF OwnersAreUp, LinkersAreLive, TokenMatches, HasReservation,
     ReservationIsLive, WritersOnlyEnd, LinkPhase, TokensApart
<1>6. LinkedFileStays'
  BY <1>1, <1>2 DEF LinkedFileStays, HasReservation, WritersOnlyEnd
<1>. QED BY <1>2, <1>3, <1>5, <1>6, RowsAndClaimsKept

(* reserve_save: the key has no live reservation, so no writer is linking  *)
(* it; the token is new.                                                   *)
LEMMA NewReservation ==
    ASSUME StepContext, NEW w \in Writers, NEW k \in Keys, NEW t \in Tokens, Reserve(w, k, t)
    PROVE  ProtocolInv'
<1>. USE TokensAreNumbers DEF StepContext, ProtocolInv
<1>1. /\ wpc[w] = "idle" /\ wpc' = [wpc EXCEPT ![w] = "reserved"]
      /\ wkey' = [wkey EXCEPT ![w] = k] /\ wtok' = [wtok EXCEPT ![w] = t]
      /\ \A v \in Writers : wtok[v] # t
      /\ \A j \in Keys : resv[j].token # t
      /\ UNCHANGED <<holders, rpc, rkey, tier, todo>>
  BY DEF Reserve, FreshToken, Unused, Goto, ReserveSave, envVars
<1>2. /\ status' = [status EXCEPT ![k] = "writing"]
      /\ refcount' = [refcount EXCEPT ![k] = 0]
      /\ resv' = [resv EXCEPT ![k] = [token |-> t, stage |-> "pre_link",
                                      fresh |-> TRUE, up |-> TRUE]]
      /\ status[k] # "available" /\ ~(status[k] = "writing" /\ ReservationIsLive(k))
  BY DEF Reserve, ReserveSave, CanReserve
<1>3. /\ \A j \in Keys \ {k} : resv'[j] = resv[j]
      /\ resv'[k].token = t /\ resv'[k].stage = "pre_link" /\ resv'[k].fresh /\ resv'[k].up
  BY <1>2 DEF MetaType
<1>4. \A j \in Keys : j # k \/ file[j] = "ok" => file'[j] = file[j]
  <2>1. ~(status[k] = "writing" /\ resv[k].stage = "post_link" /\ file[k] # "ok")
    BY DEF LinkedFileStays
  <2>. QED BY <2>1 DEF Reserve, ReserveSave, MetaType
<1>5. \A v \in Writers : wpc[v] \in LinkPhase => wkey[v] # k
  BY <1>2 DEF LinkersAreLive, ReservationIsLive, ReservedIsWriting
<1>6. ASSUME NEW v \in Writers, v # w
      PROVE  wpc'[v] = wpc[v] /\ wkey'[v] = wkey[v] /\ wtok'[v] = wtok[v]
  BY <1>1, <1>6 DEF ProcType
<1>7. wpc'[w] = "reserved" /\ wkey'[w] = k /\ wtok'[w] = t
  BY <1>1 DEF ProcType
<1>8. ReservedIsWriting'
  BY <1>2, <1>3 DEF ReservedIsWriting, HasReservation, MetaType
<1>9. TokensApart'
  <2>. USE DEF TokensApart
  <2>1. \A v \in Writers : IF wpc'[v] = "idle" THEN wtok'[v] = Nil
                           ELSE wtok'[v] \in Tokens /\ wkey'[v] \in Keys
    BY <1>6, <1>7
  <2>2. \A v, u \in Writers : wtok'[v] = wtok'[u] /\ wtok'[v] # Nil => v = u
    BY <1>1, <1>6, <1>7
  <2>3. ASSUME NEW v \in Writers, NEW j \in Keys, TokenMatches(j, wtok[v])' PROVE j = wkey'[v]
    <3>1. resv'[j].token = wtok'[v] /\ wtok'[v] # Nil
      BY <2>3 DEF TokenMatches, HasReservation
    <3>2. CASE v = w
      BY <1>1, <1>3, <1>7, <3>1, <3>2
    <3>3. CASE v # w
      BY <1>1, <1>3, <1>6, <3>1, <3>3 DEF TokenMatches, HasReservation
    <3>. QED BY <3>2, <3>3
  <2>. QED BY <2>1, <2>2, <2>3
<1>10. ASSUME NEW v \in Writers, v # w, TokenMatches(wkey[v], wtok[v])'
       PROVE  wkey[v] \in Keys \ {k} /\ TokenMatches(wkey[v], wtok[v])
  <2>1. resv'[wkey[v]].token = wtok[v] /\ wtok[v] # Nil
    BY <1>6, <1>10 DEF TokenMatches, HasReservation
  <2>2. wkey[v] \in Keys \ {k}
    BY <1>1, <1>3, <1>10, <2>1 DEF TokensApart
  <2>. QED BY <1>3, <2>1, <2>2 DEF TokenMatches, HasReservation
<1>11. OwnersAreUp'
  <2>. SUFFICES ASSUME NEW v \in Writers, TokenMatches(wkey[v], wtok[v])'
                PROVE  /\ resv'[wkey'[v]].up
                       /\ resv'[wkey'[v]].stage = "post_link" <=> wpc'[v] = "marked"
    BY DEF OwnersAreUp
  <2>1. CASE v = w
    BY <1>3, <1>7, <2>1
  <2>2. CASE v # w
    BY <1>3, <1>6, <1>10, <2>2 DEF OwnersAreUp
  <2>. QED BY <2>1, <2>2
<1>12. LinkersAreLive'
  <2>. SUFFICES ASSUME NEW v \in Writers, wpc'[v] \in LinkPhase
                PROVE  (TokenMatches(wkey[v], wtok[v]) /\ ReservationIsLive(wkey[v]))'
    BY DEF LinkersAreLive
  <2>1. v # w
    BY <1>7 DEF LinkPhase
  <2>2. wpc[v] \in LinkPhase /\ wkey[v] \in Keys \ {k}
    BY <1>5, <1>6, <2>1 DEF TokensApart, LinkPhase
  <2>. QED BY <1>3, <1>6, <2>1, <2>2
       DEF LinkersAreLive, TokenMatches, HasReservation, ReservationIsLive
<1>13. LinkedFileStays'
  <2>1. ASSUME NEW v \in Writers, wpc'[v] = "published" PROVE file'[wkey'[v]] = "ok"
    <3>1. v # w /\ wpc[v] = "published"
      BY <1>6, <1>7, <2>1
    <3>2. wkey[v] \in Keys
      BY <3>1 DEF TokensApart
    <3>. QED BY <1>4, <1>6, <3>1, <3>2 DEF LinkedFileStays
  <2>2. ASSUME NEW j \in Keys, resv'[j].stage = "post_link"
        PROVE  HasReservation(j)' /\ file'[j] = "ok"
    <3>1. j # k
      BY <1>3, <2>2
    <3>. QED BY <1>3, <1>4, <2>2, <3>1 DEF LinkedFileStays, HasReservation
  <2>. QED BY <2>1, <2>2 DEF LinkedFileStays
<1>14. AvailableHasFile'
  BY <1>2, <1>4 DEF AvailableHasFile, MetaType
<1>15. ReadersHold' /\ RefcountIsHolders'
  <2>1. UNCHANGED <<holders, rpc, rkey>>
    BY <1>1
  <2>2. \A j \in Keys : status[j] = "available" =>
            status'[j] = "available" /\ refcount'[j] = refcount[j]
    BY <1>2 DEF MetaType
  <2>3. \A j \in Keys : refcount'[j] \in {0, refcount[j]}
    BY <1>2 DEF MetaType
  <2>. QED BY <2>1, <2>2, <2>3, ClaimsKept
<1>. QED BY <1>1, <1>8, <1>9, <1>11, <1>12, <1>13, <1>14, <1>15

LEMMA WriterSafe ==
    ASSUME StepContext, NEW w \in Writers, WriterStep(w)
    PROVE  ProtocolInv'
<1>1. CASE Check(w) \/ Mark(w)
  <2>1. CASE TokenMatches(wkey[w], wtok[w])
    BY <1>1, <2>1, RenewStep DEF Check, CheckPasses, Mark
  <2>2. CASE ~TokenMatches(wkey[w], wtok[w])
    BY <1>1, <2>2, SaveEnds DEF Check, CheckPasses, Mark
  <2>. QED BY <2>1, <2>2
<1>. QED BY <1>1, LinkStep, AnnounceOrCancel DEF WriterStep

-----------------------------------------------------------------------------
(* Readers.                                                                *)

(* What the writers rely on, as long as rows, reservations and the files   *)
(* they need stay.                                                         *)
WriterInv ==
    /\ ReservedIsWriting /\ TokensApart /\ OwnersAreUp /\ LinkersAreLive
    /\ LinkedFileStays /\ AvailableHasFile

LEMMA WritersKept ==
    ASSUME StepContext, UNCHANGED <<status, resv, writerVars>>,
           \A k \in Keys : file[k] = "ok" => file'[k] = "ok"
    PROVE  WriterInv'
<1>. USE DEF StepContext, ProtocolInv, writerVars
<1>1. ReservedIsWriting' /\ TokensApart' /\ OwnersAreUp' /\ LinkersAreLive'
  BY DEF ReservedIsWriting, TokensApart, OwnersAreUp, LinkersAreLive, TokenMatches,
     HasReservation, ReservationIsLive
<1>2. LinkedFileStays'
  BY DEF LinkedFileStays, HasReservation, TokensApart
<1>3. AvailableHasFile'
  BY DEF AvailableHasFile
<1>. QED BY <1>1, <1>2, <1>3 DEF WriterInv

(* checkout adds one holder and one to the refcount. *)
LEMMA CheckoutStep ==
    ASSUME StepContext, NEW m \in Refs, NEW k \in Keys, ReaderCheckout(m, k)
    PROVE  ProtocolInv'
<1>. USE DEF StepContext, ProtocolInv
<1>1. /\ rpc[m] = "idle" /\ status[k] = "available" /\ holders[m] = Nil
      /\ holders' = [holders EXCEPT ![m] = k]
      /\ refcount' = [refcount EXCEPT ![k] = @ + 1]
      /\ rpc' = [rpc EXCEPT ![m] = "loading"]
      /\ rkey' = [rkey EXCEPT ![m] = k]
      /\ UNCHANGED <<status, resv, writerVars, tier, todo>>
  BY DEF ReaderCheckout, Checkout
<1>2. \A j \in Keys : file[j] = "ok" => file'[j] = "ok"
  BY DEF ReaderCheckout, Checkout, MetaType
<1>3. WriterInv'
  BY <1>1, <1>2, WritersKept
<1>4. ReadersHold'
  BY <1>1, NilIsNoKey DEF ReadersHold, MetaType, ProcType
<1>5. ASSUME NEW j \in Keys PROVE refcount'[j] = Cardinality({n \in Refs : holders'[n] = j})
  <2>. DEFINE H == {n \in Refs : holders[n] = j}
  <2>1. CASE j # k
    <3>1. {n \in Refs : holders'[n] = j} = H
      BY <1>1, <2>1, NilIsNoKey DEF MetaType
    <3>. QED BY <1>1, <2>1, <3>1 DEF RefcountIsHolders, MetaType
  <2>2. CASE j = k
    <3>1. {n \in Refs : holders'[n] = j} = H \cup {m} /\ m \notin H
      BY <1>1, <2>2, NilIsNoKey DEF MetaType
    <3>2. IsFiniteSet(H)
      BY RefsFinite, FS_Subset
    <3>3. Cardinality(H \cup {m}) = Cardinality(H) + 1
      BY <3>1, <3>2, FS_AddElement
    <3>. QED BY <1>1, <2>2, <3>1, <3>3 DEF RefcountIsHolders, MetaType
  <2>. QED BY <2>1, <2>2
<1>. QED BY <1>1, <1>3, <1>4, <1>5 DEF WriterInv, RefcountIsHolders

(* checkin and the 'DOWN' of a holder take one away. *)
LEMMA CheckinStep ==
    ASSUME StepContext, NEW m \in Refs, ReaderCheckin(m) \/ ReaderDown(m)
    PROVE  ProtocolInv'
<1>. USE DEF StepContext, ProtocolInv
<1>1. /\ rpc[m] # "idle"
      /\ DropHolder(m) \/ (holders[m] = Nil /\ UNCHANGED <<metaVars, file>>)
      /\ rpc' = [rpc EXCEPT ![m] = "idle"]
      /\ rkey' = [rkey EXCEPT ![m] = Nil]
      /\ UNCHANGED <<writerVars, tier, todo>>
  BY DEF ReaderCheckin, ReaderDown
<1>. DEFINE k == holders[m]
<1>2. k \in Keys /\ k # Nil
  BY <1>1, NilIsNoKey DEF ReadersHold
<1>3. /\ holders' = [holders EXCEPT ![m] = Nil]
      /\ refcount' = [refcount EXCEPT ![k] = IF @ = 0 THEN 0 ELSE @ - 1]
      /\ UNCHANGED <<status, resv, file>>
  BY <1>1, <1>2 DEF DropHolder, DecrementRefcount
<1>4. WriterInv'
  BY <1>1, <1>3, WritersKept
<1>5. ReadersHold'
  BY <1>1, <1>3, NilIsNoKey DEF ReadersHold, MetaType, ProcType
<1>6. ASSUME NEW j \in Keys PROVE refcount'[j] = Cardinality({n \in Refs : holders'[n] = j})
  <2>. DEFINE H == {n \in Refs : holders[n] = j}
  <2>1. CASE j # k
    <3>1. {n \in Refs : holders'[n] = j} = H
      BY <1>2, <1>3, <2>1, NilIsNoKey DEF MetaType
    <3>. QED BY <1>2, <1>3, <2>1, <3>1 DEF RefcountIsHolders, MetaType
  <2>2. CASE j = k
    <3>1. {n \in Refs : holders'[n] = j} = H \ {m} /\ m \in H
      BY <1>2, <1>3, <2>2, NilIsNoKey DEF MetaType
    <3>2. IsFiniteSet(H)
      BY RefsFinite, FS_Subset
    <3>3. Cardinality(H \ {m}) = Cardinality(H) - 1
      BY <3>1, <3>2, FS_RemoveElement
    <3>4. Cardinality(H) # 0
      BY <3>1, <3>2, FS_EmptySet
    <3>5. refcount[k] = Cardinality(H) /\ refcount[k] \in Nat
      BY <1>2, <2>2 DEF RefcountIsHolders, MetaType
    <3>. QED BY <1>2, <1>3, <2>2, <3>1, <3>3, <3>4, <3>5 DEF MetaType
  <2>. QED BY <2>1, <2>2
<1>. QED BY <1>1, <1>4, <1>5, <1>6 DEF WriterInv, RefcountIsHolders

(* A load under a claim finds a good file. *)
LEMMA LoadStep ==
    ASSUME StepContext, NEW m \in Refs, ReaderLoad(m) \/ ReaderCrash(m)
    PROVE  ProtocolInv' /\ (ReaderLoad(m) => rpc' = [rpc EXCEPT ![m] = "hit"])
<1>. USE DEF StepContext, ProtocolInv
<1>1. ReaderLoad(m) => file[rkey[m]] = "ok"
  BY NilIsNoKey DEF ReaderLoad, ReadersHold, AvailableHasFile
<1>2. /\ UNCHANGED <<metaVars, writerVars, rkey, tier, todo>>
      /\ rpc' = [rpc EXCEPT ![m] = IF ReaderLoad(m) THEN "hit" ELSE "dead"]
      /\ rpc[m] # "idle"
  BY <1>1 DEF ReaderLoad, ReaderCrash
<1>3. \A k \in Keys : file[k] = "ok" => file'[k] = "ok"
  BY DEF ReaderLoad, ReaderCrash, MetaType
<1>4. WriterInv'
  BY <1>2, <1>3, WritersKept DEF metaVars
<1>5. ReadersHold'
  BY <1>2 DEF ReadersHold, metaVars, ProcType
<1>6. RefcountIsHolders'
  BY <1>2 DEF RefcountIsHolders, metaVars
<1>. QED BY <1>2, <1>4, <1>5, <1>6 DEF WriterInv

-----------------------------------------------------------------------------
(* The meta server's own steps.                                            *)

(* Rows that are evicted are available, so no writer works on them, and    *)
(* unheld, so no reader does.                                              *)
LEMMA EvictionSafe ==
    ASSUME StepContext, NEW E \in SUBSET Keys, NEW gone, EvictRows(E, gone),
           \A k \in E : Evictable(k), UNCHANGED <<writerVars, envVars>>
    PROVE  ProtocolInv'
<1>. USE DEF StepContext, ProtocolInv
<1>1. /\ \A k \in E : status[k] = "available" /\ refcount[k] = 0
                      /\ status'[k] = "absent" /\ refcount'[k] = 0
      /\ \A k \in Keys \ E : status'[k] = status[k] /\ refcount'[k] = refcount[k]
                             /\ file'[k] = file[k]
      /\ UNCHANGED <<resv, holders, wpc, wkey, wtok, rpc, rkey, tier, todo>>
  BY DEF EvictRows, Evictable, writerVars, envVars
<1>2. ReservedIsWriting' /\ TokensApart' /\ OwnersAreUp' /\ LinkersAreLive'
  BY <1>1 DEF ReservedIsWriting, TokensApart, OwnersAreUp, LinkersAreLive, TokenMatches,
     HasReservation, ReservationIsLive
<1>3. LinkedFileStays'
  <2>1. \A k \in E : ~HasReservation(k)
    BY <1>1 DEF ReservedIsWriting
  <2>2. \A w \in Writers : wpc[w] = "published" => wkey[w] \in Keys \ E
    BY <2>1 DEF LinkersAreLive, TokenMatches, TokensApart, LinkPhase
  <2>. QED BY <1>1, <2>1, <2>2 DEF LinkedFileStays, HasReservation
<1>4. AvailableHasFile'
  BY <1>1 DEF AvailableHasFile
<1>5. ReadersHold' /\ RefcountIsHolders'
  <2>1. \A k \in Keys : status[k] = "available" =>
            \/ status'[k] = "available" /\ refcount'[k] = refcount[k]
            \/ refcount[k] = 0 /\ refcount'[k] = 0
    BY <1>1
  <2>2. \A k \in Keys : refcount'[k] \in {0, refcount[k]}
    BY <1>1
  <2>. QED BY <1>1, <2>1, <2>2, ClaimsKept
<1>. QED BY <1>1, <1>2, <1>3, <1>4, <1>5

(* A TTL runs out, but not under a writer that is linking. *)
LEMMA ExpiryStep ==
    ASSUME StepContext, NEW k \in Keys, ReservationExpires(k)
    PROVE  ProtocolInv'
<1>. USE DEF StepContext, ProtocolInv
<1>1. /\ UNCHANGED <<rowVars, holders, file, envVars, wpc, wkey, wtok>>
      /\ \A j \in Keys : /\ resv'[j].token = resv[j].token
                         /\ resv'[j].stage = resv[j].stage
                         /\ resv'[j].up = resv[j].up
                         /\ (j # k => resv'[j] = resv[j])
  BY DEF ReservationExpires, MetaType, Reservation, writerVars
<1>2. \A w \in Writers : wpc[w] \in LinkPhase => wkey[w] \in Keys \ {k}
  BY DEF ReservationExpires, LinkersAreLive, TokensApart, LinkPhase
<1>3. TokensApart'
  BY <1>1 DEF TokensApart, TokenMatches, HasReservation
<1>4. OwnersAreUp'
  <2>. SUFFICES ASSUME NEW w \in Writers, TokenMatches(wkey[w], wtok[w])'
                PROVE  /\ resv'[wkey[w]].up
                       /\ resv'[wkey[w]].stage = "post_link" <=> wpc[w] = "marked"
    BY <1>1 DEF OwnersAreUp
  <2>1. wkey[w] \in Keys
    BY <1>1 DEF TokensApart, TokenMatches, HasReservation
  <2>. QED BY <1>1, <2>1 DEF OwnersAreUp, TokenMatches, HasReservation
<1>5. LinkersAreLive'
  BY <1>1, <1>2 DEF LinkersAreLive, TokenMatches, HasReservation, ReservationIsLive
<1>6. LinkedFileStays'
  BY <1>1 DEF LinkedFileStays, HasReservation
<1>. QED BY <1>1, <1>3, <1>4, <1>5, <1>6, RowsAndClaimsKept

(* Parking, pinning and the live key concern neither rows nor files. *)
LEMMA BystanderStep ==
    ASSUME StepContext,
           UNCHANGED <<status, refcount, resv, holders, file, writerVars, envVars>>
    PROVE  ProtocolInv'
<1>1. WriterInv'
  BY WritersKept
<1>. QED BY <1>1 DEF StepContext, ProtocolInv, WriterInv, envVars, ReadersHold, RefcountIsHolders

LEMMA ServerSafe ==
    ASSUME StepContext, ServerStep
    PROVE  ProtocolInv'
<1>1. ASSUME NEW k \in Keys, ReservationExpires(k) PROVE ProtocolInv'
  BY <1>1, ExpiryStep
<1>2. ASSUME NEW k \in Keys, Env(OnWriterDown(k)) PROVE ProtocolInv'
  <2>1. CleanupByStage({k}) /\ \A j \in {k} : HasReservation(j) /\ ~ReservationIsLive(j)
    BY <1>2 DEF Env, OnWriterDown, ReservationIsLive
  <2>. QED BY <1>2, <2>1, CleanupStep DEF Env
<1>3. CASE Env(SweepReservations)
  <2>1. /\ StaleReservations \in SUBSET Keys /\ CleanupByStage(StaleReservations)
        /\ \A j \in StaleReservations : HasReservation(j) /\ ~ReservationIsLive(j)
    BY <1>3 DEF Env, SweepReservations, StaleReservations
  <2>. QED BY <1>3, <2>1, CleanupStep DEF Env
<1>4. CASE \/ \E c \in Callers, k \in Keys : Env(LookupOrWait(c, k))
           \/ \E c \in Callers : Env(ExpireWaiter(c))
           \/ \E k \in PinKeys : Env(PinRow(k))
           \/ \E k \in LiveKeys : Env(SetLiveKey(k))
  <2>1. UNCHANGED <<status, refcount, resv, holders, file, writerVars, envVars>>
    BY <1>4 DEF Env, LookupOrWait, ExpireWaiter, PinRow, SetLiveKey, rowVars
  <2>. QED BY <2>1, BystanderStep
<1>5. CASE Env(Gc) \/ \E E \in SUBSET Keys : Env(EvictBytes(E))
  <2>1. PICK E \in SUBSET Keys, gone \in SUBSET Keys : EvictRows(E, gone) /\ \A k \in E : Evictable(k)
    BY <1>5 DEF Env, Gc, EvictBytes
  <2>. QED BY <1>5, <2>1, EvictionSafe DEF Env
<1>. QED BY <1>1, <1>2, <1>3, <1>4, <1>5 DEF ServerStep

(* No fault can happen. *)
LEMMA NoFaults == StepContext => ~FaultStep
BY DEF StepContext, ProtocolInv, FaultStep, FileCorrupts, TierStop, TierInit,
   RegisterExisting, MetaRestart

LEMMA ProtocolStep ==
    Faults = {} /\ MetaType /\ ProcType /\ IndexInv /\ ProtocolInv /\ [Next]_vars
        => ProtocolInv'
<1>. SUFFICES ASSUME StepContext, [Next]_vars PROVE ProtocolInv'
  BY DEF StepContext
<1>1. ASSUME NEW w \in Writers, NEW k \in Keys, NEW t \in Tokens, Reserve(w, k, t)
      PROVE  ProtocolInv'
  BY <1>1, NewReservation
<1>2. ASSUME NEW w \in Writers, WriterStep(w) \/ WriterCrash(w) PROVE ProtocolInv'
  BY <1>2, WriterSafe, CrashStep
<1>3. ASSUME NEW m \in Refs, ReaderStep(m) \/ ReaderCrash(m) PROVE ProtocolInv'
  BY <1>3, CheckinStep, LoadStep DEF ReaderStep
<1>4. ASSUME NEW m \in Refs, NEW k \in Keys, ReaderCheckout(m, k) PROVE ProtocolInv'
  BY <1>4, CheckoutStep
<1>5. CASE ServerStep \/ FaultStep
  BY <1>5, ServerSafe, NoFaults
<1>6. CASE UNCHANGED vars
  <2>1. UNCHANGED <<status, refcount, resv, holders, file, writerVars, envVars>>
    BY <1>6 DEF vars, metaVars
  <2>. QED BY <2>1, BystanderStep
<1>. QED BY <1>1, <1>2, <1>3, <1>4, <1>5, <1>6 DEF Next, ServerStep, FaultStep

LEMMA InitProtocol == Faults = {} /\ Init => ProtocolInv
<1>. SUFFICES ASSUME Faults = {}, Init PROVE ProtocolInv
  OBVIOUS
<1>1. /\ \A k \in Keys : ~HasReservation(k) /\ resv[k].stage = "none"
      /\ \A w \in Writers : wpc[w] = "idle" /\ wtok[w] = Nil
      /\ \A m \in Refs : rpc[m] = "idle" /\ holders[m] = Nil
      /\ tier = TRUE /\ todo = {}
  BY DEF Init, HasReservation, NoReservation
<1>2. ReservedIsWriting /\ TokensApart /\ OwnersAreUp /\ LinkersAreLive /\ LinkedFileStays
      /\ ReadersHold
  BY <1>1 DEF ReservedIsWriting, TokensApart, OwnersAreUp, LinkersAreLive, LinkedFileStays,
     ReadersHold, TokenMatches, HasReservation, LinkPhase
<1>3. AvailableHasFile
  BY DEF Init, AvailableHasFile
<1>4. RefcountIsHolders
  <2>1. ASSUME NEW k \in Keys PROVE {m \in Refs : holders[m] = k} = {}
    BY <1>1, NilIsNoKey
  <2>. QED BY <2>1, FS_EmptySet DEF Init, RefcountIsHolders
<1>. QED BY <1>1, <1>2, <1>3, <1>4 DEF ProtocolInv

-----------------------------------------------------------------------------
(* The theorems.                                                           *)

SafeInv == MetaType /\ ProcType /\ IndexInv /\ ProtocolInv

LEMMA SafeInvHolds == ASSUME Faults = {} PROVE Spec => []SafeInv
<1>1. Init => SafeInv
  BY InitTypes, InitProtocol DEF SafeInv
<1>2. SafeInv /\ [Next]_vars => SafeInv'
  BY ProcTypeStep, MetaStep, ProtocolStep DEF SafeInv
<1>. QED BY <1>1, <1>2, PTL DEF Spec

(* Without faults, every row the index offers has a good file, refcounts   *)
(* count the claims, and a writer that passed check_reservation owns its   *)
(* key until mark_published, for any number of writers, readers and keys.  *)
THEOREM PublishIsSafe ==
    ASSUME Faults = {}
    PROVE  Spec => [](AvailableHasFile /\ RefcountIsHolders /\ LinkUnderAuthority)
<1>1. SafeInv => AvailableHasFile /\ RefcountIsHolders /\ LinkUnderAuthority
  BY DEF SafeInv, ProtocolInv, LinkersAreLive, LinkUnderAuthority
<1>. QED BY <1>1, SafeInvHolds, PTL

EvictionStep ==
    \E E \in SUBSET Keys : /\ \A k \in E : Evictable(k)
                           /\ \E gone : EvictRows(E, gone)
                           /\ UNCHANGED rpc

Eviction == Env(Gc) \/ \E E \in SUBSET Keys : Env(EvictBytes(E))

LEMMA EvictionEvicts == Eviction => EvictionStep
<1>. SUFFICES ASSUME Eviction PROVE EvictionStep
  OBVIOUS
<1>1. PICK E \in SUBSET Keys, gone \in SUBSET Keys : EvictRows(E, gone) /\ \A j \in E : Evictable(j)
  BY DEF Eviction, Env, Gc, EvictBytes
<1>2. UNCHANGED rpc
  BY DEF Eviction, Env, envVars
<1>. QED BY <1>1, <1>2 DEF EvictionStep

(* The servers are up for good, whatever happens to writers and files. *)
NoRestarts == {"tier_restart", "meta_restart"} \cap Faults = {}

ServersUp ==
    /\ MetaType /\ ProcType /\ IndexInv
    /\ tier = TRUE /\ todo = {}
    /\ ReservedIsWriting

(* Rows stop being available only by eviction. *)
LEMMA OnlyEvictionDrops ==
    ASSUME NoRestarts, ServersUp, [Next]_vars, NEW k \in Keys,
           status[k] = "available", status'[k] # "available"
    PROVE  Eviction /\ EvictionStep /\ refcount[k] = 0
<1>. USE DEF ServersUp
<1>1. ~\E w \in Writers, j \in Keys, t \in Tokens : Reserve(w, j, t)
  BY DEF Reserve, ReserveSave, CanReserve, MetaType
<1>2. ~\E w \in Writers : WriterStep(w) \/ WriterCrash(w)
  <2>. SUFFICES ASSUME NEW w \in Writers, WriterStep(w) \/ WriterCrash(w) PROVE FALSE
    OBVIOUS
  <2>1. CASE Announce(w) \/ Cancel(w)
    <3>1. TokenMatches(wkey[w], wtok[w]) => wkey[w] # k
      BY DEF ReservedIsWriting, TokenMatches
    <3>2. CASE TokenMatches(wkey[w], wtok[w])
      BY <2>1, <3>1, <3>2 DEF Announce, Cancel, AnnounceSaved, CancelReservation, ReplaceRows
    <3>3. CASE ~TokenMatches(wkey[w], wtok[w])
      BY <2>1, <3>3 DEF Announce, Cancel, metaVars
    <3>. QED BY <3>2, <3>3
  <2>2. CASE ~(Announce(w) \/ Cancel(w))
    <3>1. status' = status
      BY <2>2 DEF WriterStep, WriteTmp, WriteTmpFails, Check, CheckReservation, Link,
         ValidateExisting, Unlink, Relink, Finalise, TryLink, AbortPublish, Mark,
         MarkPublished, WriterCrash, metaVars, rowVars
    <3>. QED BY <3>1
  <2>. QED BY <2>1, <2>2
<1>3. ~\E m \in Refs : ReaderStep(m) \/ ReaderCrash(m) \/ \E j \in Keys : ReaderCheckout(m, j)
  BY DEF ReaderStep, ReaderLoad, ReaderCheckin, ReaderDown, ReaderCrash, ReaderCheckout,
     Checkout, DropHolder, metaVars
<1>4. ~FaultStep
  BY DEF NoRestarts, FaultStep, FileCorrupts, TierStop, TierInit, RegisterExisting, MetaRestart,
     metaVars
<1>5. CASE ServerStep
  <2>1. CASE Env(Gc) \/ \E E \in SUBSET Keys : Env(EvictBytes(E))
    <3>1. PICK E \in SUBSET Keys, gone \in SUBSET Keys : EvictRows(E, gone) /\ \A j \in E : Evictable(j)
      BY <2>1 DEF Env, Gc, EvictBytes
    <3>2. k \in E
      BY <3>1 DEF EvictRows
    <3>3. Eviction
      BY <2>1 DEF Eviction
    <3>. QED BY <3>1, <3>2, <3>3, EvictionEvicts DEF Evictable
  <2>2. CASE (\E j \in Keys : Env(OnWriterDown(j))) \/ Env(SweepReservations)
    <3>1. PICK S \in SUBSET Keys : CleanupByStage(S) /\ \A j \in S : HasReservation(j)
      <4>1. ASSUME NEW j \in Keys, OnWriterDown(j)
            PROVE  /\ {j} \in SUBSET Keys /\ CleanupByStage({j})
                   /\ \A i \in {j} : HasReservation(i)
        BY <4>1 DEF OnWriterDown
      <4>2. ASSUME SweepReservations
            PROVE  /\ StaleReservations \in SUBSET Keys /\ CleanupByStage(StaleReservations)
                   /\ \A i \in StaleReservations : HasReservation(i)
        BY <4>2 DEF SweepReservations, StaleReservations
      <4>. QED BY <2>2, <4>1, <4>2 DEF Env
    <3>2. k \notin S
      BY <3>1 DEF ReservedIsWriting
    <3>. QED BY <3>1, <3>2 DEF CleanupByStage, ReplaceRows
  <2>3. CASE \/ \E c \in Callers, j \in Keys : Env(LookupOrWait(c, j))
             \/ \E c \in Callers : Env(ExpireWaiter(c))
             \/ \E j \in PinKeys : Env(PinRow(j))
             \/ \E j \in LiveKeys : Env(SetLiveKey(j))
             \/ \E j \in Keys : ReservationExpires(j)
    BY <2>3 DEF Env, LookupOrWait, ExpireWaiter, PinRow, SetLiveKey, ReservationExpires, rowVars
  <2>. QED BY <1>5, <2>1, <2>2, <2>3 DEF ServerStep
<1>6. CASE UNCHANGED vars
  BY <1>6 DEF vars, metaVars
<1>. QED BY <1>1, <1>2, <1>3, <1>4, <1>5, <1>6 DEF Next, ServerStep, FaultStep

(* A reservation is for a placeholder as long as the servers are up. *)
LEMMA ReservedStep ==
    ASSUME NoRestarts, ServersUp, [Next]_vars
    PROVE  ReservedIsWriting' /\ tier' = TRUE /\ todo' = {}
<1>. USE DEF ServersUp, MetaType
<1>1. ASSUME NEW w \in Writers, NEW k \in Keys, NEW t \in Tokens, Reserve(w, k, t)
      PROVE  ReservedIsWriting' /\ UNCHANGED <<tier, todo>>
  BY <1>1 DEF Reserve, ReserveSave, ReservedIsWriting, HasReservation, envVars
<1>2. ASSUME UNCHANGED status, \A k \in Keys : resv'[k].token = resv[k].token
      PROVE  ReservedIsWriting'
  BY <1>2 DEF ReservedIsWriting, HasReservation
<1>3. ASSUME NEW S, NEW A \in SUBSET S, ReplaceRows(A, S \ A),
             \A k \in Keys : resv'[k] = IF k \in S THEN NoReservation ELSE resv[k]
      PROVE  ReservedIsWriting'
  BY <1>3 DEF ReservedIsWriting, HasReservation, ReplaceRows, NoReservation
<1>4. ASSUME NEW w \in Writers, WriterStep(w) \/ WriterCrash(w)
      PROVE  ReservedIsWriting' /\ UNCHANGED <<tier, todo>>
  <2>0. UNCHANGED <<tier, todo>>
    BY <1>4 DEF WriterStep, WriteTmp, WriteTmpFails, Check, Link, ValidateExisting, Unlink,
       Relink, Finalise, Mark, Announce, Cancel, WriterCrash, envVars
  <2>1. CASE Announce(w) \/ Cancel(w)
    <3>1. CASE UNCHANGED metaVars
      BY <1>2, <2>0, <3>1 DEF metaVars
    <3>2. CASE AnnounceSaved(wkey[w])
      <4>1. {wkey[w]} \ {wkey[w]} = {} /\ {wkey[w]} \in SUBSET {wkey[w]}
        OBVIOUS
      <4>2. /\ ReplaceRows({wkey[w]}, {wkey[w]} \ {wkey[w]})
            /\ \A k \in Keys : resv'[k] = IF k \in {wkey[w]} THEN NoReservation ELSE resv[k]
        BY <3>2, <4>1 DEF AnnounceSaved
      <4>. QED BY <1>3, <2>0, <4>1, <4>2
    <3>3. CASE CancelReservation(wkey[w])
      <4>1. {wkey[w]} \ {} = {wkey[w]} /\ {} \in SUBSET {wkey[w]}
        OBVIOUS
      <4>2. /\ ReplaceRows({}, {wkey[w]} \ {})
            /\ \A k \in Keys : resv'[k] = IF k \in {wkey[w]} THEN NoReservation ELSE resv[k]
        BY <3>3, <4>1 DEF CancelReservation
      <4>. QED BY <1>3, <2>0, <4>1, <4>2
    <3>. QED BY <2>1, <3>1, <3>2, <3>3 DEF Announce, Cancel
  <2>2. CASE Check(w)
    <3>1. status' = status /\ \A k \in Keys : resv'[k].token = resv[k].token
      BY <2>2 DEF Check, CheckReservation, metaVars, rowVars, Reservation
    <3>. QED BY <1>2, <2>0, <3>1
  <2>3. CASE Mark(w)
    <3>1. CASE MarkPublished(wkey[w])
      <4>. DEFINE marked == [resv EXCEPT ![wkey[w]].stage = "post_link"]
      <4>1. marked \in [Keys -> Reservation] /\ \A k \in Keys : marked[k].token = resv[k].token
        BY DEF Reservation, Stage
      <4>2. resv' = [marked EXCEPT ![wkey[w]].fresh = TRUE] /\ status' = status
        BY <3>1 DEF MarkPublished, rowVars
      <4>. HIDE DEF marked
      <4>3. \A k \in Keys : resv'[k].token = resv[k].token
        BY <4>1, <4>2 DEF Reservation
      <4>. QED BY <1>2, <2>0, <4>2, <4>3
    <3>2. CASE UNCHANGED metaVars
      BY <1>2, <2>0, <3>2 DEF metaVars
    <3>. QED BY <2>3, <3>1, <3>2 DEF Mark
  <2>4. CASE WriterCrash(w)
    <3>1. status' = status /\ \A k \in Keys : resv'[k].token = resv[k].token
      BY <2>4 DEF WriterCrash, rowVars, Reservation
    <3>. QED BY <1>2, <2>0, <3>1
  <2>5. CASE ~(Announce(w) \/ Cancel(w) \/ Check(w) \/ Mark(w) \/ WriterCrash(w))
    <3>1. UNCHANGED <<status, resv>>
      BY <1>4, <2>5 DEF WriterStep, WriteTmp, WriteTmpFails, Link,
         ValidateExisting, Unlink, Relink, Finalise, TryLink, AbortPublish, metaVars
    <3>. QED BY <1>2, <2>0, <3>1
  <2>. QED BY <2>1, <2>2, <2>3, <2>4, <2>5
<1>5. ASSUME NEW m \in Refs,
             ReaderStep(m) \/ ReaderCrash(m) \/ \E k \in Keys : ReaderCheckout(m, k)
      PROVE  ReservedIsWriting' /\ UNCHANGED <<tier, todo>>
  <2>1. UNCHANGED <<status, resv, tier, todo>>
    BY <1>5 DEF ReaderStep, ReaderLoad, ReaderCheckin, ReaderDown, ReaderCrash, ReaderCheckout,
       Checkout, DropHolder, metaVars
  <2>. QED BY <1>2, <2>1
<1>6. CASE ServerStep
  <2>0. UNCHANGED <<tier, todo>>
    BY <1>6 DEF ServerStep, Env, ReservationExpires, envVars
  <2>1. CASE Eviction
    <3>1. PICK E \in SUBSET Keys, gone \in SUBSET Keys : EvictRows(E, gone) /\ \A j \in E : Evictable(j)
      BY <2>1 DEF Eviction, Env, Gc, EvictBytes
    <3>. QED BY <2>0, <3>1 DEF EvictRows, Evictable, ReservedIsWriting, HasReservation
  <2>2. CASE (\E j \in Keys : Env(OnWriterDown(j))) \/ Env(SweepReservations)
    <3>1. PICK S : CleanupByStage(S)
      BY <2>2 DEF Env, OnWriterDown, SweepReservations
    <3>2. PICK A \in SUBSET S : ReplaceRows(A, S \ A)
      BY <3>1 DEF CleanupByStage
    <3>3. \A k \in Keys : resv'[k] = IF k \in S THEN NoReservation ELSE resv[k]
      BY <3>1 DEF CleanupByStage
    <3>. QED BY <1>3, <2>0, <3>2, <3>3
  <2>3. CASE \/ \E c \in Callers, j \in Keys : Env(LookupOrWait(c, j))
             \/ \E c \in Callers : Env(ExpireWaiter(c))
             \/ \E j \in PinKeys : Env(PinRow(j))
             \/ \E j \in LiveKeys : Env(SetLiveKey(j))
             \/ \E j \in Keys : ReservationExpires(j)
    <3>1. status' = status /\ \A k \in Keys : resv'[k].token = resv[k].token
      BY <2>3 DEF Env, LookupOrWait, ExpireWaiter, PinRow, SetLiveKey, ReservationExpires, rowVars,
         Reservation
    <3>. QED BY <1>2, <2>0, <3>1
  <2>. QED BY <1>6, <2>1, <2>2, <2>3 DEF ServerStep, Eviction
<1>7. CASE FaultStep
  <2>1. UNCHANGED <<status, resv, tier, todo>>
    BY <1>7 DEF NoRestarts, FaultStep, FileCorrupts, TierStop, TierInit, RegisterExisting,
       MetaRestart, metaVars, envVars
  <2>. QED BY <1>2, <2>1
<1>8. CASE UNCHANGED vars
  BY <1>2, <1>8 DEF vars, metaVars, envVars
<1>. QED BY <1>1, <1>4, <1>5, <1>6, <1>7, <1>8 DEF Next, ServerStep, FaultStep

(* Without faults a row that a process has checked out never disappears.   *)
THEOREM HeldRowsStay == ASSUME Faults = {} PROVE Spec => HeldRowStays
<1>1. ASSUME SafeInv, [Next]_vars
      PROVE  [\A m \in Refs : LET k == holders[m] IN
                k # Nil /\ status[k] = "available" => status'[k] = "available"]_vars
  <2>. SUFFICES ASSUME NEW m \in Refs, holders[m] # Nil, status[holders[m]] = "available",
                       status'[holders[m]] # "available"
                PROVE  FALSE
    OBVIOUS
  <2>1. holders[m] \in Keys
    BY <1>1 DEF SafeInv, MetaType
  <2>2. refcount[holders[m]] = 0
    BY <1>1, <2>1, OnlyEvictionDrops DEF SafeInv, ProtocolInv, ServersUp, NoRestarts
  <2>. QED BY <1>1, <2>1, <2>2, NobodyHolds DEF SafeInv, ProtocolInv
<1>. QED BY <1>1, SafeInvHolds, PTL DEF Spec, HeldRowStays

(* As long as no server restarts, a namespace's pinned key and the live    *)
(* key are evicted only when every unprotected row goes with them, however *)
(* slow the writers and whatever happens to the files: the pin flags that  *)
(* eviction_candidates ranks by agree with the pinned map.                 *)
THEOREM ProtectedRowsGoLast == ASSUME NoRestarts PROVE Spec => ProtectedGoLast
<1>1. ASSUME ServersUp, [Next]_vars
      PROVE  [\A k, j \in Keys :
                (/\ status[k] = "available" /\ Shielded(k) /\ status'[k] # "available"
                 /\ Evictable(j) /\ ~Shielded(j))
                => status'[j] # "available"]_vars
  <2>. SUFFICES ASSUME NEW k \in Keys, NEW j \in Keys, status[k] = "available", Shielded(k),
                       status'[k] # "available", Evictable(j), ~Shielded(j)
                PROVE  status'[j] # "available"
    OBVIOUS
  <2>1. Protected(k) /\ ~Protected(j)
    BY <1>1 DEF ServersUp, IndexInv, PinFlagAgrees, Evictable, Shielded, Protected
  <2>2. Eviction
    BY <1>1, OnlyEvictionDrops
  <2>3. ~Env(Gc)
    BY <2>1 DEF Env, Gc, EvictRows
  <2>4. PICK E \in SUBSET Keys : EvictBytes(E)
    BY <2>2, <2>3 DEF Eviction, Env
  <2>5. k \in E
    BY <2>4 DEF EvictBytes, EvictRows
  <2>6. j \in E
    BY <2>1, <2>4, <2>5 DEF EvictBytes
  <2>. QED BY <2>4, <2>6 DEF EvictBytes, EvictRows
<1>2. Init => ServersUp
  <2>1. Init => ReservedIsWriting /\ tier = TRUE /\ todo = {}
    BY DEF Init, ReservedIsWriting, HasReservation, NoReservation
  <2>. QED BY <2>1, InitTypes DEF ServersUp
<1>3. ServersUp /\ [Next]_vars => ServersUp'
  BY ReservedStep, ProcTypeStep, MetaStep DEF ServersUp
<1>. QED BY <1>1, <1>2, <1>3, PTL DEF Spec, ProtectedGoLast

-----------------------------------------------------------------------------
(* Claims under faults.                                                    *)

(* A step that changes no claim and raises no refcount leaks none. *)
LEMMA NoneRaised ==
    ASSUME NoLeakedClaim, MetaType, MetaType', holders' = holders,
           \A k \in Keys : refcount'[k] <= refcount[k]
    PROVE  NoLeakedClaim'
<1>. SUFFICES ASSUME NEW k \in Keys
              PROVE  refcount'[k] <= Cardinality({m \in Refs : holders'[m] = k})
  BY DEF NoLeakedClaim
<1>. DEFINE c == Cardinality({m \in Refs : holders[m] = k})
<1>1. c \in Nat
  BY RefsFinite, FS_Subset, FS_CardinalityType
<1>2. refcount[k] <= c
  BY DEF NoLeakedClaim
<1>3. refcount[k] \in Nat /\ refcount'[k] \in Nat /\ refcount'[k] <= refcount[k]
  BY DEF MetaType
<1>4. c = Cardinality({m \in Refs : holders'[m] = k})
  OBVIOUS
<1>. HIDE DEF c
<1>. QED BY <1>1, <1>2, <1>3, <1>4

(* checkout adds one claim and counts it. *)
LEMMA ClaimCounted ==
    ASSUME NoLeakedClaim, MetaType, NEW m \in Refs, NEW j \in Keys, Checkout(m, j)
    PROVE  NoLeakedClaim'
<1>. SUFFICES ASSUME NEW k \in Keys
              PROVE  refcount'[k] <= Cardinality({n \in Refs : holders'[n] = k})
  BY DEF NoLeakedClaim
<1>. DEFINE H == {n \in Refs : holders[n] = k}
            I == {n \in Refs : holders'[n] = k}
<1>1. IsFiniteSet(H) /\ refcount[k] <= Cardinality(H) /\ refcount[k] \in Nat
  BY RefsFinite, FS_Subset DEF NoLeakedClaim, MetaType
<1>2. Cardinality(H) \in Nat
  BY <1>1, FS_CardinalityType
<1>3. CASE k = j
  <2>1. I = H \cup {m} /\ m \notin H
    BY <1>3, NilIsNoKey DEF Checkout, MetaType
  <2>2. Cardinality(I) = Cardinality(H) + 1
    BY <1>1, <2>1, FS_AddElement
  <2>3. refcount'[k] = refcount[k] + 1
    BY <1>3 DEF Checkout, MetaType
  <2>. SUFFICES refcount'[k] <= Cardinality(I)
    OBVIOUS
  <2>. HIDE DEF H, I
  <2>. QED BY <1>1, <1>2, <2>2, <2>3
<1>4. CASE k # j
  <2>1. I = H
    BY <1>4, NilIsNoKey DEF Checkout, MetaType
  <2>2. refcount'[k] = refcount[k]
    BY <1>4 DEF Checkout, MetaType
  <2>. SUFFICES refcount'[k] <= Cardinality(I)
    OBVIOUS
  <2>. HIDE DEF H, I
  <2>. QED BY <1>1, <1>2, <2>1, <2>2
<1>. QED BY <1>3, <1>4

(* checkin and 'DOWN' take one claim away and count it. *)
LEMMA DropCounted ==
    ASSUME NoLeakedClaim, MetaType, NEW m \in Refs, DropHolder(m)
    PROVE  NoLeakedClaim'
<1>. SUFFICES ASSUME NEW k \in Keys
              PROVE  refcount'[k] <= Cardinality({n \in Refs : holders'[n] = k})
  BY DEF NoLeakedClaim
<1>. DEFINE H == {n \in Refs : holders[n] = k}
            I == {n \in Refs : holders'[n] = k}
<1>1. IsFiniteSet(H) /\ refcount[k] <= Cardinality(H) /\ refcount[k] \in Nat
  BY RefsFinite, FS_Subset DEF NoLeakedClaim, MetaType
<1>2. Cardinality(H) \in Nat
  BY <1>1, FS_CardinalityType
<1>3. CASE holders[m] = k
  <2>1. I = H \ {m} /\ m \in H
    BY <1>3, NilIsNoKey DEF DropHolder, MetaType
  <2>2. Cardinality(I) = Cardinality(H) - 1
    BY <1>1, <2>1, FS_RemoveElement
  <2>3. refcount'[k] = IF refcount[k] = 0 THEN 0 ELSE refcount[k] - 1
    BY <1>3 DEF DropHolder, DecrementRefcount, MetaType
  <2>4. IsFiniteSet(I)
    BY RefsFinite, FS_Subset
  <2>5. Cardinality(I) \in Nat
    BY <2>4, FS_CardinalityType
  <2>. SUFFICES refcount'[k] <= Cardinality(I)
    OBVIOUS
  <2>. HIDE DEF H, I
  <2>. QED BY <1>1, <1>2, <2>2, <2>3, <2>5
<1>4. CASE holders[m] # k
  <2>1. I = H
    BY <1>4, NilIsNoKey DEF DropHolder, MetaType
  <2>2. refcount'[k] = refcount[k]
    BY <1>4 DEF DropHolder, DecrementRefcount, MetaType
  <2>. SUFFICES refcount'[k] <= Cardinality(I)
    OBVIOUS
  <2>. HIDE DEF H, I
  <2>. QED BY <1>1, <1>2, <2>1, <2>2
<1>. QED BY <1>3, <1>4

LEMMA ClaimsStep ==
    MetaType /\ MetaType' /\ NoLeakedClaim /\ [Next]_vars => NoLeakedClaim'
<1>. SUFFICES ASSUME MetaType, MetaType', NoLeakedClaim, [Next]_vars PROVE NoLeakedClaim'
  OBVIOUS
<1>0. \A k \in Keys : refcount[k] \in Nat
  BY DEF MetaType
<1>1. ASSUME NEW m \in Refs, NEW k \in Keys, ReaderCheckout(m, k) PROVE NoLeakedClaim'
  BY <1>1, ClaimCounted DEF ReaderCheckout
<1>2. ASSUME NEW m \in Refs, ReaderStep(m) \/ ReaderCrash(m) PROVE NoLeakedClaim'
  <2>1. DropHolder(m) \/ UNCHANGED metaVars
    BY <1>2 DEF ReaderStep, ReaderLoad, ReaderCheckin, ReaderDown, ReaderCrash
  <2>2. CASE UNCHANGED metaVars
    BY <1>0, <2>2, NoneRaised DEF metaVars
  <2>. QED BY <2>1, <2>2, DropCounted
<1>3. ASSUME NEW w \in Writers, NEW k \in Keys, NEW t \in Tokens, Reserve(w, k, t)
      PROVE  NoLeakedClaim'
  <2>1. holders' = holders /\ \A j \in Keys : refcount'[j] <= refcount[j]
    BY <1>0, <1>3 DEF Reserve, ReserveSave, MetaType
  <2>. QED BY <2>1, NoneRaised
<1>4. ASSUME NEW A, NEW D, ReplaceRows(A, D), holders' = holders PROVE NoLeakedClaim'
  <2>1. \A j \in Keys : refcount'[j] <= refcount[j]
    BY <1>0, <1>4 DEF ReplaceRows
  <2>. QED BY <1>4, <2>1, NoneRaised
<1>5. ASSUME UNCHANGED <<refcount, holders>> PROVE NoLeakedClaim'
  BY <1>0, <1>5, NoneRaised
<1>6. ASSUME NEW w \in Writers, WriterStep(w) \/ WriterCrash(w) PROVE NoLeakedClaim'
  <2>1. CASE Announce(w) \/ Cancel(w)
    BY <1>4, <1>5, <2>1 DEF Announce, Cancel, AnnounceSaved, CancelReservation, metaVars
  <2>2. CASE ~(Announce(w) \/ Cancel(w))
    <3>1. UNCHANGED <<refcount, holders>>
      BY <1>6, <2>2 DEF WriterStep, WriteTmp, WriteTmpFails, Check, CheckReservation, Link,
         ValidateExisting, Unlink, Relink, Finalise, TryLink, AbortPublish, Mark,
         MarkPublished, WriterCrash, metaVars, rowVars
    <3>. QED BY <1>5, <3>1
  <2>. QED BY <2>1, <2>2
<1>7. CASE ServerStep
  <2>1. CASE Env(Gc) \/ \E E \in SUBSET Keys : Env(EvictBytes(E))
    <3>1. PICK E \in SUBSET Keys, gone \in SUBSET Keys : EvictRows(E, gone)
      BY <2>1 DEF Env, Gc, EvictBytes
    <3>2. holders' = holders /\ \A j \in Keys : refcount'[j] <= refcount[j]
      BY <1>0, <3>1 DEF EvictRows
    <3>. QED BY <3>2, NoneRaised
  <2>2. CASE (\E j \in Keys : Env(OnWriterDown(j))) \/ Env(SweepReservations)
    <3>1. PICK S : CleanupByStage(S)
      BY <2>2 DEF Env, OnWriterDown, SweepReservations
    <3>. QED BY <1>4, <3>1 DEF CleanupByStage
  <2>3. CASE \/ \E c \in Callers, j \in Keys : Env(LookupOrWait(c, j))
             \/ \E c \in Callers : Env(ExpireWaiter(c))
             \/ \E j \in PinKeys : Env(PinRow(j))
             \/ \E j \in LiveKeys : Env(SetLiveKey(j))
             \/ \E j \in Keys : ReservationExpires(j)
    BY <1>5, <2>3 DEF Env, LookupOrWait, ExpireWaiter, PinRow, SetLiveKey, ReservationExpires,
       rowVars
  <2>. QED BY <1>7, <2>1, <2>2, <2>3 DEF ServerStep
<1>8. CASE FaultStep
  <2>1. CASE (\E k \in Keys : FileCorrupts(k)) \/ TierStop \/ TierInit
    BY <1>5, <2>1 DEF FileCorrupts, TierStop, TierInit, metaVars
  <2>2. CASE \E k \in Keys : RegisterExisting(k)
    BY <1>4, <2>2 DEF RegisterExisting, InsertAvailable
  <2>3. CASE MetaRestart
    <3>. SUFFICES ASSUME NEW k \in Keys
                  PROVE  refcount'[k] <= Cardinality({m \in Refs : holders'[m] = k})
      BY DEF NoLeakedClaim
    <3>. DEFINE c == Cardinality({m \in Refs : holders'[m] = k})
    <3>1. c \in Nat
      BY RefsFinite, FS_Subset, FS_CardinalityType
    <3>2. refcount'[k] = 0
      BY <2>3 DEF MetaRestart
    <3>. SUFFICES refcount'[k] <= c
      OBVIOUS
    <3>. HIDE DEF c
    <3>. QED BY <3>1, <3>2
  <2>. QED BY <1>8, <2>1, <2>2, <2>3 DEF FaultStep
<1>9. CASE UNCHANGED vars
  BY <1>5, <1>9 DEF vars, metaVars
<1>. QED BY <1>1, <1>2, <1>3, <1>6, <1>7, <1>8, <1>9 DEF Next, ServerStep, FaultStep

(* Under every fault, restarts of the servers included, no row's refcount  *)
(* exceeds the claims on it: install_available_row, the sweep and the      *)
(* saturating decrement never leave a row that nobody can evict.           *)
THEOREM NoClaimLeaks == Spec => []NoLeakedClaim
<1>1. Init => NoLeakedClaim
  <2>. SUFFICES ASSUME Init, NEW k \in Keys
                PROVE  refcount[k] <= Cardinality({m \in Refs : holders[m] = k})
    BY DEF NoLeakedClaim
  <2>. DEFINE c == Cardinality({m \in Refs : holders[m] = k})
  <2>1. c \in Nat
    BY RefsFinite, FS_Subset, FS_CardinalityType
  <2>2. refcount[k] = 0
    BY DEF Init
  <2>. SUFFICES refcount[k] <= c
    OBVIOUS
  <2>. HIDE DEF c
  <2>. QED BY <2>1, <2>2
<1>. DEFINE J == MetaType /\ ProcType /\ IndexInv /\ NoLeakedClaim
<1>2. Init => J
  BY <1>1, InitTypes
<1>3. J /\ [Next]_vars => J'
  BY ProcTypeStep, MetaStep, ClaimsStep
<1>4. J => NoLeakedClaim
  OBVIOUS
<1>. HIDE DEF J
<1>. QED BY <1>2, <1>3, <1>4, PTL DEF Spec

(* A reader's step is a step of the abstract cache. *)
LEMMA ReaderRefines ==
    ASSUME StepContext, NEW m \in Refs,
           ReaderStep(m) \/ ReaderCrash(m) \/ \E k \in Keys : ReaderCheckout(m, k)
    PROVE  Cache!CNext
<1>. USE DEF StepContext, ProtocolInv, Available, LoadResult
<1>1. status' = status
  BY DEF ReaderStep, ReaderLoad, ReaderCheckin, ReaderDown, ReaderCrash, ReaderCheckout,
     Checkout, DropHolder, metaVars
<1>2. ASSUME NEW k \in Keys, ReaderCheckout(m, k) PROVE Cache!Claim(m, k)
  BY <1>1, <1>2 DEF ReaderCheckout, Checkout, Cache!Claim, ProcType
<1>3. ASSUME ReaderLoad(m) PROVE Cache!Read(m)
  <2>1. rpc' = [rpc EXCEPT ![m] = "hit"] /\ holders' = holders
    BY <1>3, LoadStep DEF ReaderLoad, metaVars
  <2>2. holders[m] \in Available
    BY <1>3, NilIsNoKey DEF ReaderLoad, ReadersHold
  <2>. QED BY <1>1, <2>1, <2>2 DEF Cache!Read, ProcType
<1>4. ASSUME ReaderCheckin(m) \/ ReaderDown(m) PROVE Cache!Release(m)
  <2>1. holders[m] # Nil
    BY <1>4, NilIsNoKey DEF ReaderCheckin, ReaderDown, ReadersHold
  <2>2. holders' = [holders EXCEPT ![m] = Nil] /\ rpc' = [rpc EXCEPT ![m] = "idle"]
    BY <1>4, <2>1 DEF ReaderCheckin, ReaderDown, DropHolder
  <2>. QED BY <1>1, <2>2 DEF Cache!Release, ProcType
<1>5. ASSUME ReaderCrash(m) PROVE Cache!Forget(m)
  BY <1>1, <1>5 DEF ReaderCrash, metaVars, Cache!Forget, ProcType
<1>. QED BY <1>2, <1>3, <1>4, <1>5 DEF ReaderStep, Cache!CNext

(* An eviction drops keys that nobody claims. *)
LEMMA EvictionRefines ==
    ASSUME StepContext, EvictionStep
    PROVE  Cache!CNext
<1>1. PICK E \in SUBSET Keys : /\ \A k \in E : Evictable(k)
                               /\ \E gone : EvictRows(E, gone)
                               /\ UNCHANGED rpc
  BY DEF EvictionStep
<1>2. Available' = Available \ E /\ UNCHANGED <<holders, LoadResult>>
  BY <1>1 DEF Available, LoadResult, EvictRows
<1>3. \A m \in Refs : holders[m] \notin E
  BY <1>1, NobodyHolds DEF StepContext, ProtocolInv, Evictable
<1>. QED BY <1>2, <1>3 DEF Cache!CNext, Cache!Drop

(* Every other step publishes keys, or is not seen by the readers. *)
LEMMA OtherRefines ==
    ASSUME SafeInv, Faults = {}, [Next]_vars, ~EvictionStep,
           ~\E m \in Refs : ReaderStep(m) \/ ReaderCrash(m)
                            \/ \E k \in Keys : ReaderCheckout(m, k)
    PROVE  Cache!CNext
<1>1. \A k \in Keys : status[k] = "available" => status'[k] = "available"
  BY OnlyEvictionDrops DEF SafeInv, ProtocolInv, ServersUp, NoRestarts
<1>2. UNCHANGED <<holders, rpc>>
  <2>1. ASSUME NEW w \in Writers, NEW k \in Keys, NEW t \in Tokens, Reserve(w, k, t)
        PROVE  UNCHANGED <<holders, rpc>>
    BY <2>1 DEF Reserve, ReserveSave, envVars
  <2>2. ASSUME NEW w \in Writers, WriterStep(w) \/ WriterCrash(w)
        PROVE  UNCHANGED <<holders, rpc>>
    BY <2>2 DEF WriterStep, WriteTmp, WriteTmpFails, Check, CheckReservation, Link,
       ValidateExisting, Unlink, Relink, Finalise, TryLink, AbortPublish, Mark,
       MarkPublished, Announce, AnnounceSaved, Cancel, CancelReservation, WriterCrash,
       metaVars, envVars
  <2>3. CASE ServerStep
    BY <2>3 DEF ServerStep, Env, OnWriterDown, SweepReservations, CleanupByStage,
       LookupOrWait, ExpireWaiter, PinRow, SetLiveKey, Gc, EvictBytes, EvictRows,
       ReservationExpires, envVars
  <2>4. ~FaultStep
    BY NoFaults DEF SafeInv, StepContext
  <2>5. CASE UNCHANGED vars
    BY <2>5 DEF vars, metaVars, envVars
  <2>. QED BY <2>1, <2>2, <2>3, <2>4, <2>5 DEF Next, ServerStep, FaultStep
<1>3. /\ Available' = Available \cup (Available' \ Available)
      /\ Available' \ Available \in SUBSET Keys
      /\ UNCHANGED <<holders, LoadResult>>
  BY <1>1, <1>2 DEF Available, LoadResult
<1>. QED BY <1>3 DEF Cache!CNext, Cache!Publish

(* Without faults the publish protocol implements the cache its readers    *)
(* rely on: what is claimed stays, and what is read is there.              *)
THEOREM PublishImplementsCache == ASSUME Faults = {} PROVE Spec => ImplementsCache
<1>1. Init => Cache!CInit
  BY DEF Init, Cache!CInit, Available, LoadResult
<1>2. SafeInv /\ [Next]_vars => [Cache!CNext]_(Cache!cacheVars)
  <2>. SUFFICES ASSUME SafeInv, [Next]_vars PROVE Cache!CNext
    OBVIOUS
  <2>1. StepContext
    BY DEF SafeInv, StepContext
  <2>. QED BY <2>1, ReaderRefines, EvictionRefines, OtherRefines
<1>. QED BY <1>1, <1>2, SafeInvHolds, PTL DEF Spec, ImplementsCache, Cache!CSpec
=============================================================================
