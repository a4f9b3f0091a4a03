# A TLA+ model of erllama

erllama is an Erlang/OTP application that serves llama.cpp models. What sets it
apart is a content-addressed cache of KV checkpoints: a model process saves the
state of a prefix of tokens, and any later request with that prefix, in this or
in another process, after a crash or a reboot, resumes from it. Requests meet in
one process per model, which shares a small pool of KV sequences among them.
This directory holds specifications of the cache, of the model process, of the
KV sequences it fills, of the native resources under it and of the directory and
the pressure scheduler around the models, the runs that model-check them with TLC
and the theorems that TLAPS checks.

## 1. The system

| Component | State | Operations | Talks to |
|---|---|---|---|
| Cache meta server (`erllama_cache_meta_srv`) | meta table (rows: status, refcount, pin flag, times, location), LRU table, maps of reservations, holders, waiters, pinned keys; the live key | `checkout`, `checkin`, `lookup_or_wait`, `reserve_save`, `check_reservation`, `mark_published`, `announce_saved`, `cancel_reservation`, `insert_available`, `pin_row`, `set_live_key`, `gc`, `evict_bytes`, `'DOWN'`, sweep | called by model processes, writers, tiers, scheduler; reads, deletes and touches files itself |
| Cache writer (`erllama_cache_writer`) | semaphore counter and limit in ETS, monitored holders | `save` = acquire, the publish pipeline, release | runs in the model process; meta server, tier |
| Tier servers (`erllama_cache_disk_srv`, `erllama_cache_ramfile_srv`) | a directory of `.kvc` files and temporary files | `write_tmp`, `publish`, `load`, `delete`, `touch_hits`, boot scan | meta server (`insert_available`, `pin_row`) |
| RAM tier (`erllama_cache_ram`) | slabs in ETS | `put`, `load`, `delete` | meta server |
| KVC format and key (`erllama_cache_kvc`, `erllama_cache_key`) | none | `build`, `parse`, `parse_meta`, `validate`; `make`, `namespace` | tiers, meta server |
| Save policy (`erllama_cache_policy`) | none | where to trim, split and align saves | model process |
| Model process (`erllama_model`) | requests, sequence pool, sticky sessions, pending queue, adapters, tick state | admit, continue, fork, reset, step ticks, saves, resume, cancel | backend/NIF, cache, in-flight table, streams |
| In-flight table, registry, model supervisor (`erllama_inflight`, `erllama_registry`, `erllama_model_sup`) | public ETS tables, an atomics counter, abort handles | load, unload, register, unregister, sweep on `'DOWN'` | model processes, API |
| Pressure scheduler (`erllama_scheduler`, `erllama_pressure*`) | watermarks, a timer, statistics | tick, `force_check`, `enable` | cache (`evict_bytes`), model evictor |
| API, options, middleware, streams, chat (`erllama`, `erllama_opts`, `erllama_stream`, `erllama_chat*`) | a bounded cache of templates | validation, forwarding, collecting events | model processes |
| NIF (`c_src/erllama_*.c`, `.cpp`) | reference-counted models, contexts, adapters, samplers | load, decode, pack and unpack KV, free | llama.cpp |

What is hard here, and why a test hardly reaches it:

* A save is seven steps of one process against a server, a directory and other
  writers. The TTL of its reservation may run out, the process may die and the
  servers may be restarted between any two of them.
* The index (meta server) and the directory (tier) are two stores without a
  transaction. Four code paths bring them together (announce, sweep and `'DOWN'`
  adoption, `reserve_save` over a stale reservation, boot scan) and four take
  them apart (eviction, corrupt files, restarts, a late `touch_hits`).
* Claims are counted per row and remembered per monitor. Checkin, death of the
  holder, eviction and re-installation of the row come in any order.
* The semaphore lives in a process that can be restarted while the processes it
  admitted go on.
* In the model process, admission, batching and sessions share a pool of
  sequence ids over a request's whole life. A seq changes hands in nine places
  (admission, reclaim, divergence, fork, reset, end, finish, dispatch, failure),
  and each of them can fail half-way.
* Progress of every request rests on self-sent ticks that are dropped in one of
  the process's two states, and on callers that are parked being remembered
  through recoveries.

* What a sequence holds is known twice: as cells in llama's memory and as a token
  list in Erlang. Nine ways of starting a request, three kinds of tick, trims,
  copies and restores have to keep the two in step, and a token is sampled from
  a logits row that an earlier batch left behind.
* The registry and the in-flight table are public tables that each model writes by
  itself, in several steps, and an unload ends it between any two of them.
* Native objects are freed by explicit calls and by destructors on any scheduler,
  while others decode with them; a model outlives its `free_model` until its last
  borrower is gone.

The full list, each item at its line and with the properties that would catch
it going wrong, is `hazards` in `PROJECT.json`.

## 2. The modules

`CacheMetaSrv` - the tables of the meta server and one operator per server
clause. Each operator is the whole clause, file operations included, since the
server deletes and touches files itself. It has no `Next`: its operators are
composed with their callers in

`CachePublish` - the processes around the meta server. A writer is the pipeline
of `do_save` (`Reserve`, `WriteTmp`, `Check`, `Link`, `ValidateExisting`,
`Unlink`, `Relink`, `Finalise`, `Mark`, `Announce`, `Cancel`); every call and
every file operation of it is a step, and it can die before each
(`WriterCrash`). A reader is `pin_and_load`: `ReaderCheckout`, `ReaderLoad`,
`ReaderCheckin`, with death and `'DOWN'`. `TierStop`, `TierInit` and
`RegisterExisting` are the stop, the boot scan and the registration of a disk
tier; `MetaRestart` is the `one_for_one` restart of the meta server. `Faults`
selects which failures outside the protocol a run lets happen.

| Variable | Code |
|---|---|
| `status`, `refcount`, `pinFlag` | columns of the meta table (`erllama_cache.hrl`) |
| `lruCur`, `lruStale` | the LRU table has `{LastUsed, Key}` with the row's time, or with an older one |
| `resv` | `#state.reservations`: token, stage, TTL still running, writer alive |
| `holders`, `waiters`, `pinned`, `liveKey` | the fields of `#state{}` of these names |
| `file` | `<hex>.kvc` of a key: absent, ok, payload fails its CRC, unparsable |
| `wpc`, `wkey`, `wtok`, `wtmp` | the program counter, key, token and temporary file of a saving process |
| `rpc`, `rkey` | the same of a process that resumes from a checkpoint |
| `tier`, `todo` | the tier server is up; scanned rows it has still to insert |

`ContentCache` - the abstract specification: published keys, claims on them,
reads. A claimed key is not dropped, and a read under a claim yields the data.
`CachePublish` is shown to implement it (`ImplementsCache`).

`WriterSemaphore` - the semaphore of `erllama_cache_writer`. A call is two
steps, the request and its handling, because the caller may die and the server
may be restarted between them.

`ModelSessions` - the model process (`erllama_model`): admission, the queue, the
seq pool, sticky sessions, ticks and completion.

| Variable | Code |
|---|---|
| `mode`, `ticks` | the `gen_statem` state; `tick` casts in the mailbox |
| `stage` | where the handler is in `tick_after_step`: its two loops are steps of their own, and nothing else runs in between |
| `idle`, `table`, `pin` | `idle_seq_ids` (as a bag, so that a seq pushed twice shows), `req_table`, `session_seq` |
| `pending` | the queue of admissions |
| `left`, `todo` | tokens left in `prefill_cursor` and `cold_save_segments`; tokens left before `response_target` |
| `mediaWait`, `finishing`, `cancelling` | `media_state = pending`, `finishing`, `cancel_pending` of a request |
| `registered` | rows of the model in `erllama_inflight` |
| `answer` | what a client got from its last call; `orphaned` is a streaming caller whose model died without an event |

`AdmitSticky`, `AdmitContinue`, `AdmitNormal`, `AdmitFailed`, `Enqueue` and the
three `Refuse` actions are the outcomes of `admit/2` and `admit_continue/2`.
`EndSession`, `ForkSession`, `ResetSession` and `Cancel` are the calls and casts of
these names. `TickMedia`, `TickMediaFailed`, `TickStep` and `TickSpec` are
`step_tick/1` up to the backend's answer, `TickRecover`, `TickFatal` and `TickCrash` its
failures; `FinishReq`, `FinishedAll`, `Dispatch` and `TickEnd` are `tick_after_step/3`.
`InflightDown` and `Reload` follow the death of the process, which its supervisor
does not restart.

`SeqKv` - the contents of the sequences: what the handlers of `erllama_model` and
the calls they make into `erllama_nif_decode.c` and `erllama_nif_kv.c` do to cells,
positions and logits. A handler is one step, since the process is the only user
of its context's sequences. Where `ModelSessions` counts tokens, this module names
them; where that one has the queue and the callers, this one has none.

| Variable | Code |
|---|---|
| `nat.kv` | the cells of each sequence in llama's memory, as tokens; `Media` stands for all cells of a media prompt |
| `nat.pos`, `nat.lli`, `nat.ready` | `per_seq[].next_pos`, `per_seq[].last_logits_idx`, `decode_ready` |
| `rows` | the logits of the last batch: for each row that has some, the cells it follows |
| `req` | `req_table`: `context_tokens`, `prefill_cursor`, `cold_save_segments` (as `ladder` and `rest`), number generated, `last_save_at`, `media_state`, `finishing` |
| `ses` | `session_seq`: the pinned seq and the tokens stored for it |
| `saved` | checkpoints: the tokens of the key and the cells that `kv_pack` took |
| `up` | the process has not stopped |

`AdmitNew` (cold, or warm from a checkpoint), `AdmitSticky`, `AdmitDiverged`,
`AdmitContinue` and `AdmitMedia` are the admissions, `TickStep`, `TickSpec`,
`TickSpecNoLogits`, `TickMedia`, `TickMediaFailed` and `TickRecover` the ticks, each
with its saves and with `finish_marked_reqs` (`AfterStep`). `Risky` lets two calls in
that break the properties (section 3); it is empty in the runs.

`NifResources` - the resources of the NIF: one model and what is made from it.
A thread is a scheduler that runs a NIF call or a destructor, and a step is what it
does between two lock operations.

| Variable | Code |
|---|---|
| `model`, `pending`, `users` | `erllama_model_t`: `model`, `release_pending`, `active_contexts`, `active_adapters`, `active_mtmd` |
| `made`, `gone`, `native` | resources created, destroyed, and those whose native pointer is not NULL |
| `keeps`, `chainOf` | keep-references: `model_res` of a borrower, `ctx_res` of a sampler |
| `terms`, `modelTerm` | what Erlang terms still refer to |
| `attached` | the adapters each context has from its last `nif_set_adapters` (llama's `loras`) |
| `lock`, `call` | the mutexes, and where each scheduler is |
| `abort`, `deadline`, `budgeted`, `cause` | `abort_flag`, `decode_deadline_ns`, whether `decode_budget_ms` is not 0; what has happened since the decode began |

`Attach` is the end of `nif_new_context`, `nif_adapter_load` and `nif_mtmd_init`;
`FreeModel`, `FreeContext` and `FreeNative` are the explicit frees; `Forget` and
`CtxDtor` are collections of terms with the destructors they start, whose later
steps are `DropModel` and `Release`. `SamplerNew`, `SetAdapters`, `DecodeCall`,
`StepCall` and `MediaCall` start calls that lock, `LockAdapter`, `AttachAdapters`,
`TakeSampler` and `TakeProjector` go on with them, and a decode ends by
`DecodeReturns` or, after `RequestAbort` or `DeadlinePasses`, by `DecodeInterrupted`.

A context goes on using the adapters of its last `nif_set_adapters`, and no mutex
covers that: `nif_adapter_free` and the adapter's destructor do not detach it. What
keeps them live is `erllama_model`, in whose one process an adapter is freed, the
rest is re-applied and the next decode starts, one after the other. `AdaptersInTurn`
is that discipline: no adapter goes while a call on a context that has it attached is
under way, and no decode starts before a freed one is detached. It holds as long as
the re-apply succeeds; after one that fails the process goes on with the freed adapter
attached.

`ModelDirectory` - the registry, the model supervisor and the in-flight table, for
any number of models. `LoadModel`, `InitDone`, `Stop` (an unload) and `Crash` are the
life of a model process, `Register`, `Unregister`, `Count` and `Cast` what it does to the
table, then to the counter, and last the cast for a monitor, `MonitorModel`, `HandleDown` and `SweepCounts` the
in-flight server.

| Variable | Code |
|---|---|
| `proc`, `name` | the life of each model process and the id it was started under |
| `names` | the table of `erllama_registry` |
| `handles` | `erllama_model_abort`: published contexts |
| `rows`, `depth` | the table of `erllama_inflight` and its counter |
| `step` | a register or unregister that has changed the table and not the counter, or a register that has counted and not cast |
| `casts`, `monitors`, `downs`, `sweep` | the in-flight server: `monitor_model` casts in its mailbox, its monitors, `'DOWN'` messages, rows it has deleted and not counted |

`PressureScheduler` - the timer of `erllama_scheduler` (`timers` that run, whether
`timer_ref` names one (`armed`), `ticks` in the mailbox) and what a check frees from the
cache. `ModelFleet` - the two together: `CheckOnce` samples the memory that contexts
and cache rows use, evicts rows and, if that is not enough and the configuration lets
it (`unloads`), asks the evictor for an idle model, which goes through the same
supervisor as everyone else; `declined` is an evictor that answered `none`.

`CachePublishProofs`, `WriterSemaphoreProofs`, `ModelSessionsProofs`, `ModelSessionsCallers`,
`SeqKvProofs`, `NifResourcesProofs`, `ModelFleetProofs` - theorems; `Recursion` - the lemmas on
induction and recursive functions they share. `MCCachePublish`,
`MCWriterSemaphore`, `MCModelSessions`, `MCSeqKv`, `MCNifResources` - symmetry and
constants for TLC.

Abstractions of the cache: row contents, sizes, tokens and hit counts are left out; time is
a TTL that may run out and an LRU entry that is current or stale. The order in
which `evict_bytes` takes rows is any order that respects the protection rank,
and it may stop anywhere, since the byte target and the frecency score are left
out. A file is validated and, when bad, deleted in one step in `load` and in
`finalise`. One disk tier is modelled. A process that died is replaced by a new
one in the same place, because the model has to be finite. Tokens are reused
once nobody holds them; `make_ref` never reuses one, and nothing compares
tokens that are not held.

In `ModelSessions` tokens are counted and not named: whether a prompt extends,
shares a prefix with or diverges from a session's transcript is a choice, and so
are the segments of the cold ladder, the end of a generation, the failure of a
sampler or of a decode. A sticky or continued request may have nothing left to
prefill, a normal one always has (a full cache hit re-prefills its last token).
A client has one kind of call and one call outstanding. The reclaimed pin is any
idle one (the code takes the least recently used). Media requests are modelled in
their streaming form. Thinking tokens, which count for nothing in the code, are
left out except for the one that fails a request which did not enable them, so
`EveryCallAnswered` takes for granted that a thinking phase ends. `SerialFirstTurns` is the assumption that the
comment in `resolve_admission_seq` makes of callers: they do not overlap the first
requests of a session. Without it `shared_session` shows what happens.

In `SeqKv` a checkpoint matches a prompt when its tokens are a prefix of it, any
lookup may miss, and one boundary of the cold ladder stands for all. A draft is
any sequence of tokens, empty ones included (the tick is then a plain one); that
a decode with drafts leaves more logits rows is left out, since the code points
at the last of them only for a request that has just ended. Callers of one
session wait for each other, and a decode that fails always recovers in place.
Thinking tokens, `verify`, `embed` and adapters are left out.

In `NifResources` llama computes nothing: a decode holds its locks for a while,
may wedge, and ends. A call that finds its resource released at its first lock
returns at once and is no step. A section under the model's mutex is one step,
because nothing else is locked inside. Memory that ERTS keeps for a running call
(its arguments) stays until the call returns.

In `ModelDirectory` processes and references are taken in one order, since a new
one is as good as another. The backend is one that publishes its context
(`erllama_model_llama`); the observability rows are left out. That a busy
supervisor makes a caller wait is a guard (`SupBusy`); a load that finds its id taken
is no step, since it changes nothing. In `ModelFleet` memory is counted in cache
rows, every row can be evicted, and the watermarks are constants. A check is one
step: the scheduler is one process, and what its callees do to each other is
in the other modules. The evictor belongs to another application: it unloads an idle
model, or answers `none`, as the guard around it does when it raises. A scheduler is
started with or without `unload_models_under_pressure` and stays so. A restart of the
registry, which empties its table under running models, is not modelled.

## 3. The runs

| Run | Question | Instance |
|---|---|---|
| `publish` | Does the publish protocol implement the cache, and is publishing always under the writer's own reservation, when nothing outside it fails? | 1 key, 3 writers, 2 readers, 1 waiter; about 32 500 states |
| `protect` | Do pin flags follow `pin_row` in every order with saves and evictions, are the pinned and the live row the last to go, and does every reservation end, although a writer may hang? | 2 keys of a namespace, 1 writer, 1 reader, slow publishes; about 58 000 states |
| `faults` | What survives slow publishes, corrupted files and restarts of both servers? | 1 key, 1 writer, 2 readers, 1 waiter, all faults; about 752 000 states |
| `semaphore` | Is the counter exact, the limit kept and no slot leaked? | 4 processes, limit 2 lowered to 1, restarts; about 37 000 states |
| `sessions` | Is every seq in one place, every caller remembered and every batch small enough, through every way a request can start, fail and end? | 4 clients of 4 kinds, 2 sessions, 2 seqs, budget and chunk 2, prompts to 2, responses of 3, at most 3 ticks waiting; about 282 000 states |
| `sessions_live` | Is every call answered? | 3 text clients, 2 sessions, 2 seqs; about 18 000 states |
| `seq_kv` | Do cells, token lists, logits rows and checkpoints stay in step, whatever path filled a seq? | 2 requests (speculative, prefill-only or media), 2 seqs, 2 sessions, 3 prompts of 2 and 3 tokens, batches of 3, responses of 3; about 152 000 states |
| `nif_resources` | Can a native object be freed under its user, a count be wrong, a deferred release be lost, a stale interrupt hit, the mutexes lock up? | 2 schedulers, a context, 2 adapters, a projector, a sampler, 2 calls besides constructors and destructors, with and without a decode budget, adapters in turn; about 680 000 states |
| `fleet` | Is every running model found by its id, the queue depth exact, no row left of a dead model, and is memory pressure acted upon? | 2 ids, 2 processes, 2 requests, 1 saved row, 1 call of `enable` or restart, with and without unloading; a context takes 2 rows, 3 are too many and a check wants 1; about 320 000 states |

Three writers on a key are the smallest number with an owner, a stale owner
that is still running and a writer that reserves in between. Two readers are
the smallest number for which a lost or doubled decrement of the refcount is
told from a correct one. The operations of the meta server on a key touch other
keys only through `pin_row` (the namespace's previous key) and the order of
eviction; both involve two keys, which is what `protect` has. Four processes
and a limit of two make two wait while two save. Four clients on two seqs are
the smallest number with two requests in flight and two more that are queued,
refused or reclaim a pin; two of them share a session, so that one continues,
finds it busy or finds it gone. A budget of two with two seqs is where decoders
alone fill a batch and where two prefills compete for the rest of it. Three
tokens to generate leave room for a speculative step. `MaxTicks` bounds the
mailbox: each admission adds a tick and each tick re-arms itself. Two requests on
two seqs are the smallest number that shares a batch, and that lets a second
request resume, diverge from, continue or fork what a first one left, as a
session or as a checkpoint; the three prompts have a common first token, none,
and different lengths. `Interval` = 3 keeps continued saves out of the middle of a
committed draft, which `spec_save` is about. A speculative request without a draft
is a text request, so the kind "text" adds nothing to `seq_kv`. Two calls on two
schedulers are the smallest number that can race; the destructors they race with
are not counted as calls. Two processes are the fewest of which one dies while the
other serves, or takes the id of one that failed to start; one call of `enable` arms
the timer again, or turns it off, around a tick that is in the mailbox (`TimerStaysOne`
proves it for any number of calls). A check that wants one row is
met by the cache when a row is there and goes on to the models when none is. In
`protect` the live key may be a key or none, as `set_live_key(undefined)` makes it.

Symmetry is used over writers, readers and callers, in runs without liveness.

Properties. `publish`: `AvailableHasFile` (an available row has a file that
validates), `RefcountIsHolders` (refcounts count claims), `LinkUnderAuthority`
(a writer between check and mark owns its key), `HeldRowStays` (no step removes
a claimed row), `ImplementsCache`. `protect`: `PinFlagAgrees`,
`ProtectedGoLast`, `PlaceholderIsReserved`, `ReservationEnds`. `faults`: `TypeOK`, `NoWaiterOnAvailable` (nobody is parked
on an available row), `NoLeakedClaim` (a refcount never
exceeds the claims, so a row can be evicted when they are gone),
`AvailableIsIndexed` (`gc` finds every available row). `semaphore`:
`CounterIsHolders`, `SlotsBounded`, `SlotComesBack`. `sessions`: `TypeOK`,
`SeqOwnedOnce` (no seq has two owners), `NoSeqLost` (none has no owner),
`CallersTracked` (the callers that wait are those the process knows, each once),
`InflightExact` (the in-flight table has the streaming requests and no other),
`NoStalledWork` (work in flight or queued has a tick to drive it),
`BatchWithinBudget` (no tick sends more rows than `n_batch`). `sessions_live`:
`EveryCallAnswered`. `seq_kv`: `TypeOK`, `KvMirrorsContext` (the cells of a seq are the
tokens its request or its session believes it holds), `SampledFromOwnLogits` (a
token is sampled from logits that follow all cells of its own seq),
`SavedKvMatchesKey` (a checkpoint has the cells of its key and no others),
`IdleSeqEmpty` (a seq that nobody has is empty). `nif_resources`:
`UsedIsLive` (no use after free, of what a call holds and of the adapters its context
keeps), `BorrowerHasModel` (no context or adapter without
its model), `CountsExact` (the counters are the borrowers that still owe a drop),
`PendingHasBorrower` (a deferred release has someone left to perform it),
`InterruptIsOwn` (a decode of a call that arms ends by what happened during it),
`CallsReturn`.
`fleet`: `LiveIsFound` (a running model is the one its id finds), `DepthExact`
(`queue_depth/0` is the number of rows, up to steps that have not counted yet),
`TimerChain` (one timer at most, and an enabled scheduler has a timer or a tick),
`DeadRowsGo` (rows of a dead model that the in-flight server was told of are swept),
`PressureAnswered` (pressure does not last while there is a row to evict or, where
unloading is on, an idle model, unless the evictor declines). The types of `WriterSemaphore`,
`NifResources` and `ModelFleet` are theorems (section 4).

Fairness. `ServerSpec` assumes that time passes, that `'DOWN'` messages arrive
and that the sweep timer fires: the runtime and `erlang:send_after` guarantee
them. It assumes nothing of writers, because a save may hang in file I/O.
`FairSpec` of `WriterSemaphore` assumes that the server handles
its mailbox and that a save comes to an end, which the `after` clause of `save`
turns into a release. `FairSpec` of `ModelSessions` assumes that the process
handles the ticks in its mailbox and that a handler runs to its end, which the
scheduler guarantees; nothing is assumed of clients. `sessions_live` has a budget
that fits a chunk of every seq, as the default `prefill_chunk_size` of a quarter of
`n_batch` does for up to four seqs: prefills are served in seq order, and
without it an endless stream of long prompts on the lower seqs can keep a higher
one from its first token.

`FairSpec` of `NifResources` assumes that a scheduler goes on with the call it runs
once the mutex it waits for is free, and that time passes; nobody is assumed to
ask for an abort, so `CallsReturn` excepts the decodes that wedge without a deadline
(`Wedged`): media prefills, calls that do not arm, and every decode of a context
whose `decode_budget_ms` is 0.

`FairSpec` of `ModelFleet` assumes that a live model goes on with what it began, that
the in-flight server and the scheduler read their mailboxes and that timers fire:
the runtime does all of it. Nothing is assumed of the evictor, so `PressureAnswered`
excepts one that answers `none`. `DeadRowsGo` excepts a model that ends between the
insertion of its row and its first cast for a monitor: nothing sweeps that row,
counted or not.

Runs that show the code doing something other than its documentation says
(`findings` in `PROJECT.json` quotes the lines):

| Run | What it shows |
|---|---|
| `shared_session` | Two first requests of a session id are both admitted, since the session is recorded only when a request ends. The second pin then replaces the first, whose seq is lost. |
| `spec_save` | A continued save that fires in the middle of the tokens of a speculative tick packs the cells of the whole tick under a key that ends earlier. A resume from that row prefills after cells it does not know of. |
| `reload` | `register_name` runs in the model process, so its monitor watches itself and never fires; the row of a model that was unloaded or crashed stays, and `load_model` of its id answers `already_loaded` for ever. |

Known from the models, without a run of their own:

* A writer that stalls between `check_reservation` and `link` past its TTL publishes
  after its key was given to another writer; the check narrows the window and does
  not close it. A writer that dies between `link` and `mark_published` leaves a file
  that no sweep adopts (the next save of the key or the boot scan finds it).
* `parse_or_drop` deletes a corrupt file and leaves its row, so the key answers
  `already_present` with nothing saved; `touch_hits` on a file that is gone creates an
  unparsable one; the rows of a removed tier stay available.
* With `Faults = {"tier_restart"}` `HeldRowStays` fails: a restarted tier re-installs its
  rows with refcount 0, and one can then be evicted under the process that holds it.
* When the neighbour of a speculative request ends, clearing its seq resets
  `decode_ready` for the whole context; the next tick speculates, is answered
  `no_logits`, and the process stops with all its requests (`TickSpecNoLogits`), though it
  is said to resume "speculating when alone again".
* The model process does not trap exits, so `unload` never runs `terminate/3`: the abort
  handle keeps the context alive unless a streaming request had made the in-flight
  server monitor the process, and the documented save on shutdown does not happen.
  An unload between a row and its count leaves `queue_depth/0` off by one for ever,
  one before the first cast for a monitor leaves a row that nobody sweeps.
* After a restart of the semaphore more saves can run than `writer_max_concurrent`.
* Two media requests in flight wait for each other for ever, since each waits to
  be the only one that is not finishing. A tick that raises in `apply_batch_budget`
  leaves streaming callers without an event.
* With `Risky = {"empty_suffix"}` `SampledFromOwnLogits` fails: a sticky or continued
  request that has nothing to prefill samples from a row that other seqs have
  overwritten, or has none. With `Risky = {"evict_media"}` `SavedKvMatchesKey` fails: the
  evict and shutdown saves take media requests too, although they "bypass the KV
  cache entirely" elsewhere.
* `verify` and `embed` decode on seq 0 of the model's context and leave cells there
  without `next_pos`, also when a session has seq 0 pinned; a cold admission clears
  its seq, a media one does not.
* `nif_forward_with_argmax` and `nif_prefill` decode without `arm_decode`, so an abort or
  a deadline that an earlier call left over ends them, and a wedged one has no
  deadline of its own; nor has any decode with `decode_budget_ms = 0`. `InterruptIsOwn`
  and `CallsReturn` except these.
* With `AdaptersInTurn = FALSE` `UsedIsLive` fails: after `nif_set_adapters` an adapter is
  freed, or its last term collected, and the next decode of the context uses it.
  `erllama_nif_int.h:54` calls "use-after-free between concurrent dirty NIFs and an
  explicit free call impossible"; for attached adapters it is the model process
  that prevents it, except when `unload_adapter` frees one and the re-apply fails.
* `nif_free_model` does not look at `active_mtmd`, so a projector can outlive its model,
  although `erllama_mtmd_nif.cpp:12-15` and `erllama_resources.h:41` say that `free_model`
  defers while one is alive. No call uses a projector without a context.

## 4. The theorems

For every number of keys, namespaces, writers, readers, callers and tokens:

* `CachePublishProofs!TypeCorrect`, `IndexConsistent` - under every fault:
  types, `PlaceholderIsReserved`, `NoWaiterOnAvailable`, `PinFlagAgrees`,
  `AvailableIsIndexed`. The last four are inductive together with the types
  and `PinnedAtHome` (a namespace's pinned key was derived in that namespace),
  without which `pin_row` could leave a second flag behind.
* `CachePublishProofs!PublishIsSafe`, `HeldRowsStay`, `PublishImplementsCache` -
  assuming `Faults = {}`: `AvailableHasFile`, `RefcountIsHolders`,
  `LinkUnderAuthority`, that claimed rows stay, and the refinement of
  `ContentCache`. The inductive invariant `SafeInv` adds to the above: a
  reservation is for a placeholder row; tokens are apart and name only the
  writer's own key; a reservation's stage and liveness agree with its writer's
  program counter; writers between check and mark hold a live reservation; a
  linked and validated file stays until it is indexed; a reader holds an
  available row. The assumption is needed: with a TTL that runs out between
  check and mark a stale writer links, and with restarts of a tier a claimed row
  can go.
* `CachePublishProofs!NoClaimLeaks` - `NoLeakedClaim` under every fault. It is inductive
  with the types alone, but not obviously so: each handler that drops a claim is
  shown to lower the refcount by at most as many as it forgets holders, and the two
  that remove or install a row to start again from 0.
* `CachePublishProofs!ProtectedRowsGoLast` - `ProtectedGoLast`, assuming only that no
  server restarts (slow writers and bad files are allowed). `ServersUp` states what
  the assumption gives; a restarted server has forgotten the live key.
* `WriterSemaphoreProofs!CounterExact` - the counter is the number of holders,
  through deaths, late releases, restarts and changes of the limit.
* `WriterSemaphoreProofs!SavesStayBounded` - without restarts and changes of the
  limit, at most `ConfigMax` saves run. The first assumption is needed, because a
  new server counts from 0.
* `WriterSemaphoreProofs!SlotsStayBounded` - `SlotsBounded`, as long as no limit is set
  over `ConfigMax`, through restarts and deaths.
* `ModelSessionsProofs!SlotsExclusive` - `SeqOwnedOnce` for any number of seqs,
  clients and sessions, whether or not callers overlap first requests. The
  inductive invariant adds the types and that only media requests, which have
  no session, wait for a media prefill: a failed one frees its seq at once, and
  a session's pin on it would then be left behind. The argument is stated for
  any idle list, request table and session map (`Owned`), because an admission
  passes through values that are never the state's: a diverging session drops
  its pin, a pin is reclaimed, a seq is taken. Each of these (`UnpinSafe`,
  `PushSafe`, `AllocSafe`, `ServeSafe`) leaves either no change of ownership or one
  seq that nobody owns.
* `ModelSessionsCallers!InflightTableExact`, `CallersNeverForgotten` - `InflightExact` and
  `CallersTracked`, whether or not callers overlap. The inductive invariant `CInv`
  says, for every stage of a handler, which callers are known (`CallersKnown`) and
  what the stage may assume (`Phases`): between two handlers they are those in the
  request table and the queue, in the middle of one a caller may be in neither, and
  no client is in two places.
* `ModelSessionsCallers!NoSeqLeaks`, `SessionsTakeTurns`, `WorkNeverStalls` - `NoSeqLost`,
  `OneRequestPerSession` and `NoStalledWork` while `SerialFirstTurns` holds. `SInv` adds that a seq a handler has taken is the only
  one in none of the three places, that a session in flight has no other seq, and
  that a queue is never left with idle seqs and no tick. The assumption is needed:
  `shared_session` is a behaviour in which the second of two overlapping first
  requests replaces the pin of the first.
* `ModelSessionsCallers!ProcessTyped`, `BatchFits` - `TypeOK` and the action property
  `BatchWithinBudget`, for any budget, chunk size and number of seqs and whether or not
  callers overlap. The types are not inductive by themselves: a decode takes one off
  `todo`, and `PInv` adds that a request that goes on owes a token (`Owing`), which holds
  because the step that generates the last one also marks it finishing; and a slice must
  be at most what its cursor has left, for which the room `slice_prefills` hands on has to
  be shown never negative (`RoomIs`, an induction over the seqs). The batch fits because
  the slices of the rows below a seq add up to the room they used (`SlicesAddUp`, the same
  induction over a sum), and because a client is in one row only (`KnownOnce`), so that
  what is missing from a cursor is the slice of its own row.
* `SeqKvProofs!SeqKvTypes`, `SeqsMirrorContexts`, `FreeSeqsAreEmpty`, `CheckpointsMatchKeys` -
  `TypeOK`, `KvMirrorsContext`, `IdleSeqEmpty` and `SavedKvMatchesKey` for any number of seqs,
  sessions, prompts and tokens and any budget, assuming `SavesWhole`: no evict meets a
  media request, and if there are speculative requests, a response is no longer than
  the save interval and a prompt is long enough for a first save. The assumption is
  what `spec_save` refutes when it is dropped, and all four need it, because a resume
  restores whatever a checkpoint holds. `KvInv` states, for any context, request table
  and session map, that they agree on who has a seq (`Owned`) and on what it holds
  (`Holds`), that requests are well formed (`Shape`: a cursor means that nothing was
  generated, a pending media prompt has no context yet...) and that a speculative
  one has generated less than an interval since its last save (`Thrifty`), from which
  it follows that no continued save falls between two committed tokens.
* `SeqKvProofs!TokensFromOwnLogits` - `SampledFromOwnLogits`, assuming also that no request
  comes without a token to prefill (`"empty_suffix" \notin Risky`; section 3 says what
  happens otherwise). `Ready` is inductive with `KvInv`; the heart of it is `RowsApart`: the
  rows of a batch that have logits, decodes first and then the ends of the prefill
  slices, are different for different seqs and within the budget, which is an
  induction over the seqs in the order `slice_prefills` gives them room.
* `NifResourcesProofs!NoUseAfterFree`, `ReleaseIsSound`, `InterruptsAreOwn` - that what a
  call holds under a mutex is live, whatever its callers do (`HeldIsLive`), and
  `UsedIsLive`, which adds the adapters attached to its context, when `AdaptersInTurn`;
  `BorrowerHasModel`, `CountsExact` and `PendingHasBorrower`; `InterruptIsOwn`. The
  inductive invariant says where each object is protected: the native objects that a
  call holds are live and their mutexes are its own (`HoldsSound`); the adapters of a
  context that a call is in are live if they are used in turn (`AttachSound`); calls
  that are making a sampler make different ones (`KeepSound`); calls between clearing a
  reference and dropping the count do so for different borrowers, which have no
  reference any more (`DropSound`); a live context or adapter still has its reference
  (`NativeKept`), and while one has, the model is there (`KeptHasModel`). Without
  `DropSound` a count could be dropped twice.
* `ModelFleetProofs!FleetTyped`, `ModelsAreFound`, `DepthIsExact`, `TimerStaysOne` - `TypeOK`,
  `LiveIsFound`, `DepthExact` and `TimerChain` for any number of ids, processes and
  requests. The invariant adds that a running process has the row of its own id
  (`Named`), so that a failed start takes back no other's, and that a reference with a
  row was used before (`RowsUsed`), so that a new row adds one. Every step of the fleet
  is one of the directory or none (`FleetStep`).

The assumptions on constants are the named `ASSUME`s of the modules: `NsOf` maps
keys to namespaces, `Nil` is neither a key nor a token, the sets whose size is
counted are finite, `NoPid` and `NoId` are no process and no id, the sizes of `ModelSessions` are positive and its `NoSeq`,
`NoClient` and `NoSession` are apart from seqs, clients and sessions; in `SeqKv` prompts
are sequences, not empty, and the budget is greater than the number of seqs (a tick
whose decoders exceed the budget raises, which `ModelSessions` models).

The provers cannot instantiate the library's induction over a predicate. `Recursion`
states it for a set of naturals instead (`SetInduction`, from the well-foundedness of
`<`), and shows that a function defined by recursion has the values its definition
says (`RecursionExists`); the room of a batch (`RoomAt`) and the tokens of a speculative
turn (`SpecRequests`) are reasoned about with it. The sum of a property is the library's
fold over a set, which takes the elements in an order nobody knows; `SumExists` and
`SumTakesAny` show that such a sum exists on every finite set and may be taken apart at
any element.

Only model-checked: liveness (`ReservationEnds`, `SlotComesBack`, `EveryCallAnswered`,
`CallsReturn`, `DeadRowsGo`, `PressureAnswered`), which is outside the prover's reach.

## 5. Not modelled, and the plan

Vendored llama.cpp, the numerical and formatting work of the NIF, option
validation and logging are outside this project: they carry no protocol.
llama.cpp is third-party code and makes up nearly all of the repository's C and
C++ (about 340 000 of 349 000 lines; the NIF itself has some 9 000), and the
program's own logic is in Erlang, so a share of C and C++ lines says little about
this project and stays small whatever is modelled. What the plan has left, the
most important first; `components` in `PROJECT.json` gives the state of each part.

1. `SavePolicy`: the pure functions of `erllama_cache_policy` against reference
   definitions over bounded inputs (trim, split, ladder boundaries strictly
   increasing and aligned), in place of the single `Boundary` of `SeqKv`.
2. Streams: collect, timeout, cancel and drain against late events, with the abort
   of a running decode, on top of `ModelDirectory`.
3. The eviction of `CacheMetaSrv` with sizes and tiers, in place of the single number
   of rows in `PressureScheduler`; the RAM tier.
4. Adapters in the model process: their effect on fingerprints of requests in
   flight, and an `unload_adapter` whose re-apply fails.
5. `KvcFormat`, `CacheKey`: framing of the file and of the hashed key as
   sequences of fields; parse inverts build, distinct inputs give distinct
   frames.
6. Theorems: every safety property of the runs is proved. What could still be is the
   refinement of abstract specifications by components other than the cache: a session
   as an append-only transcript implemented by `SeqKv`, one semaphore by
   `WriterSemaphore`.
