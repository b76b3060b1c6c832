# DotSound backend: a TLA+ development

The repository is a music service: a FastAPI backend (`src/app`), a React
frontend, and remote compute workers that fetch jobs over HTTP. The backend's
own logic that is hard to test is its asynchronous machinery: queues of jobs
in PostgreSQL and Redis, worked on by many processes at once, with retries,
leases, cancellations and administrators acting in between. This directory
models that machinery, checks it with TLC and proves some of it with TLAPS.

Two facts about the code shape every model. A request or a loop iteration is
one SQLAlchemy session, hence one transaction at READ COMMITTED, and the ORM
flushes only the columns that changed, with `UPDATE ... WHERE id = ?`; no row
has a version column. And most state machines read a status, decide, and flush
without a lock, so what they write may be based on a row that has changed.

## Inventory

| Component | State | Operations | What is hard | Module |
|---|---|---|---|---|
| Compute-job queue (`compute_queue_service`, `compute_job_reaper`, `api/v1/internal/compute_jobs`) | table `compute_jobs`, `compute_workers`, Redis pause set | enqueue, claim, result, fail, reap, route/release, purge, drain | blind flushes of overlapping handlers; leases; several reapers; local fallback inside the reaper's transaction | `ComputeQueue` |
| Background jobs (`background_jobs`, `taskiq_middleware`, `cancellation`, `admin/tasks`) | table `background_jobs`, Redis list, in-process retries, cancel keys | enqueue, the three middleware hooks, cancel, bulk cancel, drain, purge | lost messages and retries; cancellation racing a hook; a hook that fails | `BackgroundJobs` |
| Scheduler (`scheduler_service`, `idempotency`) | `scheduled_jobs`, Redis leader lock, idempotency slots | poll, kick, commit, edit | two leaders; a slot that expires; a crash between kick and commit | `Scheduler` |
| Lyrics jobs and cascade (`lyrics_cascade`, `lyrics_worker`, `compute_worker_service`, `audio_compute_reaper`, `internal/audio_compute`) | `lyrics_jobs`, Redis list | start, claim, submit, fail, reap, cancel, route, revoke, two tasks | sessions that advance one job at a time each; tasks kicked before the commit | `LyricsCascade` |
| Audio blobs (`audio_blob_service`, `audio_blob_gc_worker`) | `audio_blobs.ref_count`, objects in S3 | acquire, release, collect, sweep | reference counts read and written without a lock; a sweep racing an upload | `AudioBlobs`, `BlobSweep` |
| Chunked upload (`chunked_upload_service`, `upload_session_cleanup_worker`) | `upload_sessions` with a JSON list of parts, multipart uploads | start, put a chunk, complete, cancel, clean up, transcode | read-modify-write of the JSON; complete against cancel and cleanup | `ChunkedUpload` |
| Import queue (`import_queue_dispatcher`, `import_service`, `import_worker`, `external_import_worker`) | import jobs and items, leases, cancel flags | start, restart, cancel, poll, dispatch, sweep, run | dispatcher and worker restarts, two tasks of one job | `ImportQueue` |
| Semaphores (`outbound_semaphore`, `sc_semaphore`) | Redis sorted sets with expiry | acquire, release | a holder slower than its slot's expiry | `OutboundSemaphore` |
| Play-count drain (`search_playcount_drain`) | Redis set of ids, search documents | listen, mark, commit, drain | ids popped and lost in a crash; overlapping batches | `PlaycountDrain` |
| Image and video blobs | counted rows, objects in S3 | as audio blobs | the same | |
| Worker authentication and rate limits (`worker_rate_limit`, HMAC, nonces) | Redis counters | verify | numeric windows | |
| WebSocket connections (`core/ws_manager`, `api/v1/ws`) | registries in memory, subscriptions and presence keys in Redis | connect, deliver, evict, tear down, heartbeat | tasks of one socket at every await; several servers writing one presence key | `WsManager` |
| Streaming egress (`streaming_egress_pool`, `tor_pool`) | in-memory maps | pick, report | remote services | |
| Accounts (`email_auth_service`, `admin_auth_service`, `account_deletion_service`) | rows, codes with expiry | log in, delete | mostly sequential | |
| Catalogue, search, recommendations, playlists, promotions, complaints, media processing | rows, Elasticsearch, S3 | CRUD and pipelines | mostly sequential, or data rather than control | |
| Frontend, migrations, infrastructure | | | not a subject of these models | |

The queues interact: the scheduler and administrators call
`background_jobs.enqueue`; the tasks behind it produce compute jobs through
`dispatch_compute_job`; every Taskiq worker process runs the reaper of compute
jobs and the scheduler loop beside its tasks; the pause switch
(`task_pause_service`) stops both producers and claims.

## Plan

| Step | Modules | State |
|---|---|---|
| 1 | `ComputeQueue`, the abstract `JobLifecycle` that it implements as long as its handlers do not overlap, `ComputeQueueProofs` | done |
| 2 | `BackgroundJobs`, `BackgroundJobsProofs` | done |
| 3 | `AudioBlobs`, `BlobSweep`, `AudioBlobsProofs` | done |
| 4 | `Scheduler`, `SchedulerProofs` | done |
| 5 | `ChunkedUpload`, proved in `IntakeProofs` | done |
| 6 | `ImportQueue`, proved in `IntakeProofs` | done |
| 7 | `OutboundSemaphore` (proved in `SchedulerProofs`), `PlaycountDrain`, `PlaycountDrainProofs` | done |
| 8 | `LyricsCascade`, `LyricsCascadeProofs` | done |
| 9 | `WsManager`, `WsManagerProofs` | done |

Left: image and video blobs beside `AudioBlobs`; the scan that precedes an
import; the slots that other callers of `enqueue` take.

## The runs

Each component has instances of its own in an `MC_` module. Three runs check
several components one beside the other. The module of the run extends their modules
(or has an `INSTANCE`, where a component needs constants of its own), and for this the
names that they would share carry the component's: `Init`, `ImportInit`,
`ScheduleInit`, `SocketInit`. The specifications of these runs are sums: a
variable (`part` or `way`) is chosen in the initial state, only the component that
it names takes steps, and the others stay as they began. This shares the start
of TLC, not the state; each component's behaviours are those of its own
specification, since the fairness of an idle component asks nothing (its fair
actions are disabled in its initial state; the exceptions, a scheduler that may
always take a free lock and a reaper that may pass over an empty table, are asked
for fairness in their own parts only).

| Run | Components and bounds | Expected |
|---|---|---|
| `cq_safety` | compute queue: one key with two rows, two workers, a request and a reaper | holds |
| `bg_races` | background jobs: two rows, two processes, an administrator | holds |
| `ab_races` | audio blobs: an upload and an import of one source, two sessions | holds |
| `ly_races` | lyrics cascade: one job, every kind of handler, two faults | holds |
| `intake` | chunked upload (two chunks, two requests) and import queue (one job of two tracks; the selection fixed, or chosen anew without faults) | holds |
| `machines` | compute queue without overlap and with fairness (two jobs each), a background job with fairness and two administrators' requests, semaphores | holds |
| `loops` | play-count drain, scheduler with and without faults, lyrics cascade with fairness, WebSocket connections | holds |
| `cq_drain`, `ab_storage`, `ab_sweep`, `cu_parallel`, `im_restart` | one question each, see below | violated |

`CHECK_DEADLOCK FALSE` is in every configuration because these systems may rest:
queues are empty, all requests are answered.

## ComputeQueue

`row` is the table `compute_jobs` with one possible row per idempotency key;
`id` tells the successive rows of a key apart (a purge lets the key be
inserted again). `txn` holds the open transaction of each handler: requests
(workers' and administrators') and reapers. `standing` is what the row of
`compute_workers` says (`revoked` also stands for inactive and for deleted),
`paused` the Redis hash of paused types; each job is of a type of its own.

| Model | Code |
|---|---|
| `enqueue` | `enqueue`, with the unique constraint deciding a race |
| `BeginClaim`, `claim_next`, `ClaimEmpty` | `POST /jobs/claim`: the reads of the pause set and of the worker, then the locking select and the update with its status check as one step |
| `BeginReport`, `CommitResult`, `CommitFail` | `POST /jobs/{id}/result` and `/fail`: the guards on a plain SELECT, then the flush and the commit |
| `ReapSelect`, `ReapPending`, `ReapCommit` | `reap_once`: expired claims, then stale pending rows, one commit |
| `BeginRouting`, `CommitRouting` | `update_generic_compute_job_routing` with and without `release_claim` |
| `purge`, `pause_task`, `resume_task`, `pause_and_drain`, `revoke_worker`, `pause_worker_claims`, `resume_worker_claims` | the administrators' endpoints |
| `Abort` | rollback: death of the process, an exception, a rejected body |
| `LeaseExpires`, `WaitElapses` | time passing `claim_deadline_at` and `next_attempt_at` |

Abstractions. A lease is running or expired and a wait is later, due or
stale, since the code compares each date with the clock only. Priorities are
left out: `FOR UPDATE SKIP LOCKED` may pass over the first rows, so any
eligible row may be claimed. The reaper reads `ReapLimit` rows (100) of each kind,
the oldest first; how old rows are is not kept, so any of them may be the oldest
(`Oldest`), and a pending row that the loop skips (it needs a worker, or is too young)
stays in the window. A worker that
asks for some types only, or that pacing turns away, makes a request that ends
in `Abort`. Signatures, rate limits, pacing and one-time tokens are not
modelled. The policy of the external package decides the fallback: here, after
`FallbackAfter` attempts for jobs in `LocalJob`. A handler that has flushed but
not committed holds a row lock and others wait for it: the model commits
whole transactions at once, which allows the same final rows. A deadlock of
two such flushes aborts one of them, which is `Abort`. `mark_failed` and
`requeue_stale_claims` have no caller in the application and are left out.

Sizes are the smallest at which the case of interest exists: a reaper and a
request that overlap on one row, two workers for a former and a present owner,
a key whose row is purged and inserted again. A second request, a second reaper
and a second job were run while the model was built and show nothing else; the
proofs cover every number of them.

| Run | Shows |
|---|---|
| `cq_safety` | `TypeOK`, `ClaimFieldsAgree` and `OneOwnerPerAttempt` with all administrators' operations |
| `machines`, part `serial` | `ImplementsLifecycle` (the refinement of `JobLifecycle`) and `AttemptsBounded` when no handler flushes over a row that changed after it was loaded (`SerialSpec`), for two jobs, one of them with a local handler |
| `machines`, part `compute` | `ExpiredClaimsReaped` and `LocalJobsReaped` for two jobs, one of them with a local handler, a window of one row and purges |
| `cq_drain` | violated: the drain writes NULL into a NOT NULL column and cancels nothing |

Two further observations made with these models. A result that is committed
during a reaper pass is overwritten by the pass's flush: the succeeded job is
pending again, so `ImplementsLifecycle` holds under `SerialSpec` only. And a local
handler that always raises (`RaisingJob`) aborts every pass, so that the expired
leases of all other jobs stay; the liveness is checked with `RaisingJob` empty.

A third one is in `LocalJobsReaped`. The loop over pending rows passes over the rows it
does not handle (`compute_job_reaper.py:175-185`) without moving their `next_attempt_at`, so a
hundred old rows of types that only a worker takes are the window of every pass, and a local
job behind them never falls back while no worker claims. The property says
that a local job is settled again and again unless, again and again, so many rows that
only a worker can take are due (`LeftInWindow`). With two jobs and a window of one row
TLC sees this happen: without the exception the property fails.

Bounds: `ClaimBound` claims per row and `RowBound` rows per key, in the guards
of `claim_next` and `enqueue`. In `machines` `MaxAttempts` lies below `ClaimBound`,
so that the bound never hides a claim the code would refuse or allow
differently.

Fairness (`FairSpec`): time passes; a reaper that is not restarted in every
pass finishes some (`run_forever` starts pass after pass and catches their
exceptions; strong fairness because a restart may interrupt a pass); a pass
that must fail ends. No fairness for workers, requests or administrators.

Proved in `ComputeQueueProofs` for every value of the constants: `TypeCorrect`,
`ClaimFieldsStayTogether` and `OwnershipNeedsAClaim`. `ClaimFieldsAgree` alone is
not inductive, since a flush combines a stale copy with the current row. `IInv`
adds that each open transaction's copies were consistent rows in the statuses
its handler admits: then each service changes `claimed_by` and the deadline
together with the status, so the flush brings all of them along. The lemmas
follow the three ways a step changes the state (`TxnStep`, `RowStep`,
`CommitStep`); `FlushConsistent` and `FlushKeepsOwner` are the heart. Assumed:
`JobAssumption`, `NoneAssumption`.

Under `SerialSpec` two more are proved. `QueueImplementsLifecycle` is the refinement,
`SerialSpec => Lifecycle!Spec`, the abstract state being `status` and `by` of the rows.
Its core is `SerialTransitions`: every step changes each row by one of the abstract
queue's actions or not at all. A flush does so because, without overlap, the row it
writes over is the one it loaded (`SerialCommits`), and `IInv` says in which
statuses that row was. `Uncancelled` goes with it: the abstract queue has no state
"cancelled", and the drain, the only writer of it, never succeeds.
`AttemptsStayBounded` adds `Budget`, that a pending row has an attempt left, so
that a claim, which is what counts one, stays within `max_attempts`; the release
of a claim by an administrator returns a row to pending without looking at its
attempts, which is why the theorem, as the run, leaves "release" out.
Assumed besides: `AttemptsAssumption`. Liveness is only model-checked.

## BackgroundJobs

`row` is `background_jobs`, `call` how far each call of `enqueue` is, `queue` the
Redis list (as a bag: any message may be next), `delayed` the sleeping
`_delayed_rekick` tasks of each process, `exec` what each process executes and
what its middleware's session has loaded, `flag` the cancel keys, `admin` the
requests under way.

| Model | Code |
|---|---|
| `enqueue`, `kiq`, `KiqFails` | `background_jobs.enqueue`: the committed row, then the kick |
| `Receive` | the broker's pop (external) |
| `PreLoad`/`PreCommit`, `PostLoad`/`PostCommit`, `ErrorLoad`/`ErrorCommit` | the hooks `pre_execute`, `post_execute`, `on_error` |
| `Rekick` | `_delayed_rekick` |
| `CancelLoad`, `CancelCommit`, `Unqueue`, `signal_cancel` | the cancel endpoints |
| `DrainLoad`, `signal_cancel` | `drain_task` |
| `purge`, `FlagExpires` | the purge endpoint and the nightly cleanup; the key's expiry |
| `HookFails`, `Crash`, `RequestDies` | a failing session, the death of a process or request |

The idempotency slot and the pause switch act before the row exists and only
prevent calls; the slots of ticks are in `Scheduler`. The retry endpoint calls
`enqueue` for a new row, so it is another producer. `taskiq_task_id`, results,
durations and alerts are left out.

| Run | Shows |
|---|---|
| `bg_races` | `TypeOK`, `OneExecutionAtATime`, `NothingAfterTheEnd`, `RetryBudget` and `FollowsLifecycle` with two rows, two processes, all administrators' operations, crashes and faults |
| `machines`, part `background` | `JobsSettle` while nothing dies or fails: one row, one process, two requests that cancel, cancel in bulk or drain at any moment |

Two further observations. `pre_execute` marks a cancelled job
`cancelled_before_start` (`taskiq_middleware.py:105`) and returns the message, so the
task body runs all the same. `post_execute` does not look at the key that a drain
sets (`task_pause_service.py:141-142`), so a running job that was drained ends as
done unless its body polls the key.

`FollowsLifecycle` speaks of every change of a status. If the row still has the
status that was loaded, the change is one of the documented lifecycle (`Moves`, and
`Unrecorded` where a hook failed before). If it has another one (`Overtaken`), the flush is a lost race,
and a cancellation is on one of its sides: `post_execute` writes done over cancelling, or a
cancel writes cancelling over done. Two hooks never overwrite each other, a
purged row does not come back, and an end that no cancellation meets is final.

`JobsSettle` has two exceptions, and both are races of the code that nothing repairs. A
cancel that loaded the row before `post_execute` committed done, and commits after it,
leaves cancelling with nobody left to execute the job (`CancelledTooLate`;
`tasks.py:1245-1248`). And a bulk cancel may commit cancelled between the
read and the flush of an `on_error`, which writes queued over it and kicks a retry, whose message the bulk
cancel then removes from the list (`RetryPurged`).

A retry asleep in a process
that dies, or a kick that fails after the commit, leaves a queued row that
nothing kicks again; the model has these steps, and since nothing in the
repository promises to find such rows, `JobsSettle` is checked without them.

The model is finite without a bound. Fairness: the list is first in, first
out, so each message is eventually received (strong fairness per job); tasks
end; hooks run; retries wake; requests finish.

Proved in `BackgroundJobsProofs` for every value of the constants: `TypeCorrect`,
`RunsOnceAtATime`, `SettledForGood` and `AttemptsBounded`, which state the four
invariants of `bg_races`, and `LifecycleFollowed`, its action property. None of
the invariants but the first is inductive: that `Held(j)` has
one element does not say that an execution ends before its retry is kicked, and
a bound on `attempts` does not say that the next `pre_execute` has room for one
more. `IInv` adds it in these parts. `Placement`: the job is with its producer, in
the list, in an execution or asleep, and each of these excludes the others; a
step only hands it on or drops it. `Ended`: a settled job is in none of them;
only its sole execution settles it, and that execution ends in the same step.
`Budget`: while an execution is still to be received, `attempts` lies below
`max_attempts`, `pre_execute` has loaded such a row, and what `on_error` has loaded
still is the row's number, because only the sole execution writes it and no
cancellation does. `StagesSound`: what a hook or an administrator's request has
loaded has a status from which its commit follows the lifecycle. The lemmas take
the parts one after the other
(`TypeStep`, `PlacementStep`, `EndedStep`, `BudgetStep`). `Placement` does not mention
the status and `Budget` only asks whether the row is there, so no overtaken flush
can hurt either. `FollowsLifecycle` needs a fifth part, `CopiesGood`: what a hook has loaded
is what the row still says, or the row is gone or was cancelled since, because all other
writers of the row would need the execution that this hook belongs to. So a flush that is not
overtaken writes over the status it has loaded, and `StagesSound` says that this
follows the lifecycle (`LegalMoves`); one that is overtaken meets a cancellation
(`HookRaces`), or is one (`CancelLegal`). Assumed:
`NoneAssumption`, `AttemptsAssumption`. The liveness is only model-checked.

## AudioBlobs

`row` is `audio_blobs`, one possible row per content with an `id` that tells
successive rows apart, `object` the keys under `blobs/` in S3, `track` and
`status` the table `tracks`, `lock` the row locks and uncommitted inserts that
last over more than one step, `tx` the open sessions with what each has loaded.

| Model | Code |
|---|---|
| `upload`, `Attaches` | `UploadService.finalize_from_s3` without and with a blob for its source; the import and transcode tasks |
| `BeginAttach`, `put_cas_audio`, `Insert`, `LoseRace` | `get_or_create_from_file` and `get_or_create_from_bytes` |
| `CommitAttach` | `attach_playback_blob`, `attach_pending_tracks`, the release of the blob that a transcode replaces, and the commit |
| `BeginRelease`, `Purge`, `CommitHide` | `try_release_for_track` as `set_track_visibility`, an accepted complaint and the last complaint call it |
| `DeleteKey`, `CommitDelete` | `TrackHardDeleteService`, one track per session |
| `show` | the restore endpoints and `set_track_visibility` back |
| `Abort` | death of the process, `StaleDataError`, a deadlock |

A flush writes the columns whose value differs from the loaded one. The flush
of a count takes the row's lock, which is why it waits for a release under way
and raises when the release has deleted the row. A track is created once. A
track is transcoded at any time, also again; the shared HLS bundle and
`source_sha256` of the blob are left out (any blob of the right content is found
by its source).

| Run | Shows |
|---|---|
| `ab_races` | `TypeOK` (with referential integrity), `NoRowToCollect`, `SharedBlobKept` and `CountsStayExact` for an upload and an import of one source, two sessions, rows that are purged and inserted again |
| `ab_storage` | violated: hard deletion of a track whose blob was purged deletes the object of a newer track with the same audio |

The counts themselves do drift: two attaches lose an increment, an attach
overwrites a decrement, a transcode and its twin count a pending track twice.
`CountsStayExact` says that nothing but such an overtaken commit makes them
drift, `SharedBlobKept` that a drift costs no other track its blob, because a
release that reaches zero counts the other tracks under the row's lock. Two
tracks suffice for both: the same track released twice, attached twice, or
attached by its own and by the other's transcode. `RowBound` rows per content
and `RefBound` references are the bounds, in the guards of `Insert` and
`CommitAttach`; three tracks were run with `RowBound` 1 as well.

`BlobSweep` sets the collector's sweep of orphaned keys beside all of this: `old`
is which keys were last written before the age window, `listed` and `orphans` what
a running sweep has read. `SweepList`, `SweepRead` and `SweepDelete` are
`_list_keys` and `_sweep_orphan_audio_keys`, three reads and writes at different
times. A key becomes old only while no session that wrote it is uncommitted
(the window is `_MIN_AGE_HOURS`, 6 hours).

| Run | Shows |
|---|---|
| `ab_sweep` | violated: the age the sweep compares was listed before the object was stored again, so an upload in progress of audio whose old object is an orphan loses its object |

A further observation: a purge deletes the object before the deletion of the row
is committed, and between the `put_cas_audio` and the `Insert` of another session
of the same content; either way a row without an object remains.

Proved in `AudioBlobsProofs` for every number of contents, tracks and sessions:
`TypeCorrect` (with the foreign key), `NothingToCollect` and `SharedBlobsKept`, which
state three of the properties of `ab_races`. Assumed: the module's assumptions
and `Sizes` (finitely many tracks, no more than `RefBound`, so that the bound is
none). `NoRowToCollect` is not inductive: what a flush writes is a copy. `IInv` adds
what each session may have loaded at each stage (`SessionsSound`: a copy of a
committed row counts a reference, an inserted row is the session's first), that
inserted and purged rows stay locked (`LocksHeld`), and that nobody but the
purging session's track counts on a row while it is being purged
(`PurgesAlone`). The last one is what `SharedBlobsKept` needs. It is kept because a
commit that counts a track on a row writes `ref_count` and so waits for the lock
(`Acquired`: if the count does not change, nothing was attached), and because a
commit relinks a track only to its own transcode (`CreatesAlone`). `CommitKeeps` is the common part of the three commits.

`CountsKept` is `CountsStayExact`, an action property: counts that are exact stay
exact in every step that is not a commit of what was overtaken. Its proof counts
users on both sides, commit by commit (`ReleasedExact`, `GivesUpExact`,
`AttachExact`). What `IInv` does not give is in `LoadsSound`: a row a session inserts is not yet there and has
the next id, a track's link was loaded no later than the row it names (ids only
grow, `Succeeds`), and a session that deletes without a key has no blob to release.

## Scheduler

`sched` is `scheduled_jobs`, `passed` how many ticks of a cron lie in the past,
`leader` and `tickSlots` the Redis keys, `proc` the loop of each process with the rows it
has loaded, `kicks` how often each tick of each schedule was enqueued.

| Model | Code |
|---|---|
| `SetLock`, `GetLock`, `ExtendLock`, `DeleteLock`, `Shutdown` | `_try_acquire_leader`, `_release_leader`, the end of `_scheduler_loop` |
| `LoadRows`, `SkipRow`, `TaskMissing`, `TakeSlot`, `Kick`, `CommitRows` | `_process_due_schedules`, row by row, one commit for all rows |
| `UpdateCron`, `Enable`, `Delete` | the administrators' endpoints |
| `PollFails`, `ProcessDies` | an iteration that raises and is logged; a process that dies, so that its lock is left to a pid that never polls again (`Departed`) |
| `LockExpires`, `SlotExpires` | the Redis expiries (60 s, 300 s) |

A tick is a number per cron. A slot expires only when no poll has its tick
loaded and the row no longer waits for it: a slot lives 300 seconds, a row waits
30 for the next poll, or 60 for a dead leader's lock. This is the one assumption
about time, and `TickOnce` needs it. A tick for which Redis failed, so that no
slot was asked for, is not counted.

| Run | Shows |
|---|---|
| `loops`, parts `schedule` and `faulty schedule` | `TickOnce` (a tick is enqueued at most once by two leaders, polls that die, commits that fail) and `DueHandled` for two processes, with three ticks, or with two ticks, two faults and an administrator |

Fairness: every loop goes on (`LoopStep`: it asks for the lock every 30 seconds,
and the holder extends it and polls), and the lock of a process that is gone
expires. The lock of a leader that lives may expire, when a poll outlasts 60
seconds, and need not: `DueHandled` covers one leader that lasts, leaders that
alternate and leaders that die. Administrators and time owe nothing.

Observation: a poll that is under way when an administrator changes the cron of
a row commits `next_run_at` of the old cron, which stays until it is due.

Proved in `SchedulerProofs` for any number of schedules, processes, crons, ticks
and faults: `TicksOnce`. `TickOnce` alone is not inductive, because nothing in it
says that a tick already enqueued cannot be taken again. `IInv` adds that no poll
is ahead of the clock (`TimeSound`), that only due ticks are enqueued (`KicksDue`),
that who enqueues with a slot holds it, for a tick nobody has enqueued
(`SlotsHeld`), and nobody else holds it (`SlotsApart`), and that the slot of an enqueued
tick is held until neither the row nor any poll can bring the tick back
(`KickedSettled`). Assumed: `MaxTick` positive, `FaultBound` natural,
schedules and crons exist.

## ChunkedUpload

`row` is `upload_sessions`, `multi` the multipart upload of S3 with its parts,
`object` the assembled object, `track` and `task` the track and its transcoding
task, `req` what each request has loaded and where it is, `cleanup` the cleanup
task's selection.

| Model | Code |
|---|---|
| `CreateMultipart`, `InitCommit` | `init` |
| `ChunkLoad`, `UploadPart`, `ChunkCommit` | `upload_chunk`, which reads the JSON list, uploads, and writes the list |
| `CompleteLoad`, `Assemble`, `Clean`, `Blocked`, `Reject`, `Finalize`, `CompleteCommit` | `complete` with the scan's outcomes and `finalize_from_s3` |
| `CancelLoad`, `CancelAbort`, `CancelCommit`; `CleanupLoad`, `CleanupCommit` | `cancel`; the hourly cleanup |
| `TaskBegins`, `TaskEnds` | the transcoding task, which deletes the raw object |
| `Crash` | the process dies or the handler raises: rollback, while S3 and the broker keep what they got |

The file is the set of its chunks. Sizes, quotas and hashes are left out; the
scan's verdict is any of its outcomes.

| Run | Shows |
|---|---|
| `intake`, way `upload` | `AssembledComplete`, `OneTrackPerUpload`, `RawFileKept` and that an active session ends, for two requests of one upload of two chunks with crashes |
| `cu_parallel` | violated: two chunks in flight, each acknowledged, one of them lost from the list |

Two chunks and two requests suffice: the second request may complete, cancel or
put a chunk at any step of the first, and a list of two can lose an element.
Fairness: uploads expire; the hourly cleanup runs, and finishes some of its runs
(strong fairness: it may die). Requests owe nothing.

Observations. A blocked scan sets the status to "cancelled" and raises, so the
status is rolled back: the session stays active and its multipart upload is
gone. The transcoding task is kicked before the track is committed: a task that
begins first finds no track, and the track stays in processing.

Proved in `IntakeProofs` for any number of uploads, requests and chunks:
`TypeCorrect`, `FilesAreWhole`, `BecomesOneTrack` and `FileStays`, which state the four
invariants. `IInv` says that only the one request that S3 let consume the
multipart upload goes on to commit (`SoleOwner`), that no track was committed before
it does (`OwnerFirst`) or before the object exists (`AssembledFirst`), that a request
which assembles has counted all chunks (`StagesSound`), and that the object is there
as long as that request counts on it (`FileThere`): there is no track until one was
created (`TrackCreated`), so a task that begins early finds none and deletes nothing. Assumed: the module's assumptions and that there is an upload.

## ImportQueue

`job` is `import_jobs` with the part of `tracks_data` that decides (selection, lease,
counter), `item` the table `import_job_items`, `flag` the cancel flags, `msgs` the tasks
scheduled, `run` the tasks at work, each with its lease, `disp` the dispatchers,
`history` what has happened to a job.

| Model | Code |
|---|---|
| `StartLoad`, `StartWrite`, `StartKick`, `StartFailed` | `start_import`, which also accepts a queued or importing job |
| `CancelJobLoad`, `CancelJobCommit`, `PollLoad`, `PollFail` | `cancel_job`; the status poll that fails a stale job |
| `Sweep`, `Count`, `Promote`, `Kick`, `Requeue` | `sweep_stuck_jobs`, `dispatch_once` |
| `Skip`, `BeginImport`, `Seed`, `TakeLease`, `TakeItem`, `LoseLease`, `Decide`, `FinishLoad`, `FinishCommit`, `ClearFlag` | `process_import_job` and `_process_external_import_job_local` |

An item is pending, decided, or decided and counted twice ("recounted"). `Decide` has
the latter as a fault: a call that raises after an item was counted as completed and marked
done (`import_worker.py:350-351`, then `370` or `392-401`) enters the handler that also counts it as failed
(`402-410`), and one commit writes both. The external task commits in between
(`external_import_worker.py:723-733`, `764-780`); the model takes both commits as one step. A session writes the
attributes that differ from those it loaded (`Flush`). The candidates' limit of four per
slot and the scan before an import are left out.

| Run | Shows |
|---|---|
| `intake`, way `import` | `CountersExact`, `DoneIsComplete`, `LateItemsBounded` and that an import of two tracks ends, with a dispatcher, a request, and a crash, a Redis failure, a call that raises after an item was counted, or a task that is swept although it is only slow; every start chooses both tracks |
| `intake`, way `reimport` | the same safety without faults, when starts choose one track or two |
| `im_restart` | violated: after a restart with fewer tracks the rows of the first selection keep the import going round |

Bounds: two leases (`RunBound`), two requests, one fault: a second task of the job is what a slow task
or a restart needs, and one fault separates them. Fairness: tasks, requests and
messages go on as a group, dispatchers' loops go on, and a job that shows no
progress is swept now and then (strong fairness, since a request may touch it);
a sweep of a live task's job is a fault ("slow") and not asked for.

`history` records what the invariants except: that two tasks of a job overlapped,
that it was restarted, cancelled or found overdue, or that a start chose other
tracks than the job had, or than the request had loaded ("reselected"). The last
event came out of the proof. `start_import` writes the JSON column from the copy that
it loaded, so a start with other tracks also writes back the lease in that copy:
a task that had lost its lease finds it again and works on, and a task of the
former selection may end the job while rows of the new one are pending.
`DoneIsComplete` and `LateItemsBounded` therefore speak of jobs whose tracks were not
chosen anew; a start that repeats the selection writes the column only if it differs,
and is covered. `CountersExact` excepts restarts as such; it says that the counters,
completed and failed together, are the decided items and those that were counted twice.

Proved in `IntakeProofs` for any number of jobs, tasks, dispatchers, requests,
tracks and faults: `ImportTypesKept`, `CountersStayExact`, `DoneJobsComplete` and
`ZombiesBounded`, which state the four invariants of `intake`. `ImportInv` adds to them:

- `LateSound`, for `LateItemsBounded`. A task compares its lease at every item whose
  number is a multiple of `LeaseCheckEvery`, so while the lease is another's the
  items it has committed are no more than the remainder of that number (`LateBy`),
  and no request or sweep hands it the lease back.
- `CountSound`, for `CountersExact`. An undisturbed job has at most one task, that
  task's counter is the row's, and what it has left is pending, so the next
  decision adds one item and to the counter one, or two if it is counted twice
  (`TimesCounted`). A job that was never started
  has no task and counts nothing (`ReadyUntouched`).
- `CompleteSound`, for `DoneIsComplete`. Row, tasks and requests agree on the
  selection (`SelectionKept`), and what is pending is in the work of every task
  that has seeded (`PendingKnown`), whichever of several tasks decides it; so a task
  without work left may call the job done. `EndsRecorded` says that cancellations and
  expiries under way are in `history` already.

A step is a request's, one that changes a job's row from outside, a task's, or
nothing to them (`Kinds`); each part has one lemma for each kind. Assumed: `Sizes`
(jobs are finitely many numbers, selections are numbers below some number, the
check interval is positive, the bounds are numbers).

Observations. The poll fails queued imports that are older than the time
allowed for a scan (`import_service.py:149-167`, `625-638`). The final commit of an external
import may leave `tracks_data` as it was, since it flushes what differs from its copy.

## OutboundSemaphore

`active` is the sorted set, `expired` the tokens whose score has passed, `call` each
caller with its token. `TryAcquire` is the atomic script with its three outcomes
(a slot, a refusal, an answer that gets lost), `Leave` and `Release` the end of the block,
`Expire` the passing of a token's time. A caller may die anywhere.

`machines`, part `outbound`, shows `CapRespected` and `SlotsComeBack` with two callers, three
tokens and one slot. Fairness: tokens expire, a waiting caller tries again.
`SchedulerProofs`, which proves about both uses of Redis keys with an expiry, has
`TokensTyped` and `CapHolds` (that invariant) for any number of callers and
tokens and any cap: each call at work with an unexpired token is in the set,
no two calls share a token, and the script adds to a set below the cap
(`HoldersKnown`, `TokensDiffer`, `LiveBounded`). Assumed: the cap is a number and there is a token.
What remains true only up to expiry is stated so: a holder slower than its slot
is not counted.

## PlaycountDrain

`count` is the column, `indexed` the number in the document, `dirty` the Redis set,
`req` and `drain` the requests and the loops. `Listen`, `Mark`, `Commit`, `Rollback` are the
qualified listen; `Pop`, `Load`, `Index`, `Finish`, `PutBack`, `Fail` are `_drain_batch`. `excuses` names why
a document may stay behind: a failed index call, a failed Redis call, a crash
after the pop, a batch that loaded before the commit it was marked for, or two
overlapping batches.

`loops`, part `drain`, shows `IndexKeepsUp` (without an excuse, a document behind its
row is marked or in a batch) and `DocumentsCatchUp`, with a track, two listeners, two drains and
two faults. Fairness: the loops go on.

Observation: `index_track_document` catches the errors of the index itself, so the
recovery that `search_playcount_drain.py:44-45` and `:79` describe (ids put back when indexing fails) is
reached for failures of the session only.

`PlaycountDrainProofs` proves `TypeCorrect` and `PlaysReachTheIndex` (the invariant `IndexKeepsUp`) for any number of
tracks, requests, drains and faults. `IInv`: a batch has popped what it has left,
all of it before it loads, and loaded no more than the committed count
(`BatchesSound`); the track of a request about to commit waits in the set or in a
batch that has not loaded it, or is excused (`MarkedBeforeCommit`); and a document
that is old waits in the same way, or in a batch that has loaded the present count
(`Repaired`). Assumed: there are tracks, `FaultBound` is a number.

## LyricsCascade

`row` is `lyrics_jobs`, `msgs` the tasks kicked, `tx` the open session of each request,
reaper and Taskiq process with the row it loaded and the one it will write,
`paid` how often the paid recognition was kicked, `excuses` what happened to a job.

| Model | Code |
|---|---|
| `Start`, `Moved`, `Kick`, `Advance` | `trigger_auto_generation`, `_dispatch_to_tier`, `_advance_to_next_tier` |
| `Claim`, `Result`, `Fail` | the endpoints of remote workers |
| `Reap` | `audio_compute_reaper.reap_once`, job by job |
| `Receive`, `TaskFinds`, `TaskMisses`, `TaskReturns`, `TaskStep` | `catalog_only_lyrics_task`, `speechkit_lyrics_task` |
| `Route`, `Cancel`, `Revoke`, `Fallback` | the administrators' endpoints |
| `Flush`, `Flushed`, `Commit`, `Rollback` | SQLAlchemy's unit of work: what differs from the loaded row is written by id |

Abstractions. The attempts are the set of tiers tried; the profile is a function
of the tier; whether a tier is available is a choice; the order and the cap of
claims are left out, and so are the lyrics. After its commit a task only reports
progress (`_finalise`); that touches Redis alone and swallows its errors
(`lyrics_worker.py:217-228`, `286-356`), so the model ends the task with the commit.

| Run | Shows |
|---|---|
| `ly_races` | `RunningHasLease`, `NoJobForgotten` and `PaidOnce` with a request, a reaper, a task process and two faults |
| `loops`, part `cascade` | `JobsMoveOn`, with and without somebody who runs the reaper, faults left out |

One job suffices, since no step relates two. The invariants name what breaks them:
`NoJobForgotten` holds unless the job was overtaken, its task began before the
commit that kicked it, a process died or the paid task returned early; `PaidOnce`
unless two sessions overlapped, or one did not commit what it had kicked; and
`RunningHasLease` (who is running has a worker and a lease) unless the job was
revived, that is, a session that had loaded a settled row committed over a row
that had moved on. Each of these occurs. Fairness: tasks are
received and end, sessions reach their commit, leases expire. The reaper owes nothing: no
process of the repository starts it (`core/tkq.py:68-71` starts that of the compute queue; this one
waits for an operator's timer, `audio_compute_reaper.py:111-116`, its script or the
administrators' endpoint). So `JobsMoveOn` has two parts. Each job ends, waits
for a worker, or has a worker whose lease is over, again and again; and if somebody does run
the reaper as often as it has a job to take, the last of these does not stay. Without this
antecedent the second part fails: the jobs of lost workers stay running.

The third excuse came out of the proof. With two requests and two task processes,
and an order of tiers that puts the remote workers last (`lyrics.cascade_order`
is an administrator's setting, `compute_router.py:44`), two late reports load a
cancelled row, a task requeues the job, both reports move it on, a worker claims
it after the first of them, and the flush of the second, which clears worker and
deadline and leaves the status it has not changed, makes it a running job that
nobody owns and the reaper, which looks for passed deadlines, never finds. The
instance of `ly_races` is too small for it; the proof covers it.

Proved in `LyricsCascadeProofs` for every value of the constants: `TypeCorrect`,
`LeaseKept`, `NobodyForgotten` and `PaidForOnce`, which state the four invariants of
`ly_races`. None but the first is inductive, because what a commit writes is partly
a copy. `IInv` adds what each open session has loaded and may write
(`Sessions`), and of each job: a session that loaded a row that is still there, or
an excuse (`Present`); worker and lease set and cleared together (`Paired`); a session
that found the job owned still finds it so, or is overtaken (`OwnerKept`); the task
of a job that waits for one is on its way or at work (`TaskKept`, with `HasTasks`); and
the paid tier is tried before it is paid for (`PaidKept`, with `OneTask` and `OnlyOf`). A step is
a session's turn, its end or its commit, a message received, a claim or a passing
lease, or nothing to the job (`StepKinds`); each kind has its lemma, and the commit,
which joins the copy with the row, has three (`FlushedPaired`, `FlushedOwned`,
`FlushedExact`). Assumed: the module's assumptions. `JobsMoveOn` is only
model-checked.

Observations. `/fail` checks the owner and no status, so a late report reopens a
finished or cancelled job. Tasks do not ask whether their job was cancelled, so a
cancelled job that waits for the catalog ends as done. The reaper and a late failure both
advance a job, and the paid task is kicked twice. The docstring of
`catalog_only_lyrics_task` (`lyrics_worker.py:1770-1771`) says that misses end the job without
advancing, while `_fallback_or_close_catalog_miss` (`484-502`) advances it when timed lyrics were asked for.

## WsManager

`conns` and `wsState` are `_connections` and `_ws_state` of all servers, `queue` how
full a socket's queue is, `handler`, `writer` and `teardown` where its tasks are,
`waiting` the lock of each server's PubSub with the commands that wait for it,
`subscribed` the channels, `torn` those whose last command failed, `online` the presence keys,
`beat` whom a heartbeat has yet to write, `alive` the background tasks that still run.
Code between two awaits is one action.

| Model | Code |
|---|---|
| `Connect`, `Accept`, `AcceptFails`, `SetOnline`, `Leave` | `websocket_endpoint` and `connect` |
| `Pubsub` | `_pubsub_lock` with the subscribe or unsubscribe inside |
| `Begin`, `WriterStopped`, `Drop`, `SetOffline` | `_teardown_connection`, called by the handler (`Leave`), the writer (`SendFails`) or an eviction (`Evict`) |
| `Deliver`, `Take`, `Sent` | `_listen_redis`, `_deliver_local` with the eviction of a slow consumer, `_writer_loop` |
| `BeatList`, `Beat`, `PresenceLapses` | `_presence_heartbeat` and the expiry of its keys |
| `Dies`, `ServerCrash`, `ServerShutdown` | a Redis error that ends a loop; the end and restart of a process |

Messages have no content, only a place in a queue. The listening-together rooms,
the authentication of the endpoint and the chat's activity keys are left out.

`loops`, part `sockets`, shows `ChannelsFollow` (with no command waiting, a channel
is subscribed exactly if its user has a socket on the server; with some waiting,
the last of them is the right one) and `PresenceSettles`, for two sockets of one
user: on one server with a fault, or on two without. Two sockets are a first and a
last one, whose subscribe and unsubscribe race; two servers are what a presence key
written by both needs. `Cap`, `QueueMax` and the evictions of a socket are one each, so
that a limit is always one message or socket away. Fairness: Redis answers and the
event loop runs its tasks. Nothing is asked of the clients.

Proved in `WsManagerProofs` for any number of users, servers, sockets, evictions and
faults: `TypeCorrect`, `ChannelsAsConnected` (the invariant of `loops`), and two more invariants:
`OneTeardown`, a socket is torn down by one of the tasks that try, and
`ConnectionsAccounted`, a socket without a queue is in somebody's teardown.
`ChannelsFollow` is not inductive: the order of the queue matters, and who waits in it. `IInv`
adds that a command waits for a task that waits for it (`WaitsSound`), that no
command waits twice (`WaitsApart`), that a socket not yet accepted has nothing to tear
down (`Fresh`), nor has its handler while it is open (`HandlerIdle`), and that a running writer's
socket is listed (`WritersListed`). Assumed: `Sizes` (sockets have a user and a
server, the bounds are numbers, evictions are not called handler).

Observations. A subscribe that fails leaves `connect` with the socket registered, and
since a later socket is not the first, none of this user subscribes again until all
are gone. The heartbeat and the listener end with the first Redis error until the
process restarts. The cap is looked at before the await of `accept`, so that sockets
that come together pass it (`src/README.md:34` promises at most six).

## What is proved and what is checked

| Component | Proved for every instance | Model-checked only |
|---|---|---|
| Compute queue | `TypeOK`, `ClaimFieldsAgree`, `OneOwnerPerAttempt`; without overlap `ImplementsLifecycle`, `AttemptsBounded` | liveness |
| Background jobs | `TypeOK`, `OneExecutionAtATime`, `NothingAfterTheEnd`, `RetryBudget`, `FollowsLifecycle` | liveness |
| Audio blobs | `TypeOK`, `NoRowToCollect`, `SharedBlobKept`, `CountsStayExact` | |
| Scheduler | `TickOnce` (with `ScheduleTypes`) | liveness |
| Chunked upload | `TypeOK`, `AssembledComplete`, `OneTrackPerUpload`, `RawFileKept` | liveness |
| Import queue | `ImportTypes`, `CountersExact`, `DoneIsComplete`, `LateItemsBounded` | liveness |
| Semaphores | `SemaphoreTypes`, `CapRespected` | liveness |
| Play-count drain | `TypeOK`, `IndexKeepsUp` | liveness |
| Lyrics cascade | `TypeOK`, `RunningHasLease`, `NoJobForgotten`, `PaidOnce` | liveness |
| WebSocket connections | `SocketTypes`, `ChannelsFollow`, `TornDownOnce`, `Accounted` | liveness |

Liveness and `ENABLED` are beyond the prover. Every proof is of the component's own
`Spec`, without the bounds of the runs where a bound is a constant of the module
that the theorem quantifies over.

## Not modelled

The models cover a few thousand of the backend's lines: those where several actors
act on one piece of state. Most of the repository is data and input/output, and
a model of it would restate it.

- Image and video blobs count references as audio blobs do, with fewer operations.
- Worker authentication and rate limits: arithmetic on one Redis key per call.
- Listening-together rooms and the activity keys of the chat: one Redis hash per
  room, whose delivery is best effort.
- Egress pools and source clients: their correctness is about remote services.
- Accounts, catalogue, playlists, complaints, promotions: requests over rows of one
  user, one transaction each.
- Search and recommendations: queries and scores; the policy is in an external
  private package.
- Media processing beyond what `ChunkedUpload` and `AudioBlobs` take from it: pipelines
  over bytes, sequential per track.
- Frontend, migrations, infrastructure.

Within the modelled components the parts left out are named in their sections;
some hazards of the code have no property: a job pinned to a worker that is
revoked later waits for ever by design of the routing; `enqueue` rolls back the whole
session of its caller when it loses the race for a key; a middleware hook whose
session fails leaves its row running, with no reaper to find it.
