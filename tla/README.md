# TLA+ models of the TileTopia server

TLA+ modules for the parts of `tiletopia-server` that keep state across requests
and change it from more than one task: the tiling job queue, the scheduler,
webhook delivery, vector tileset builds, uploads and ion's S3 endpoint, change
reports, IDS checks and realtime rooms; and for the one algorithm everything
served rests on, the mesh tiler. TLC checks each on small instances, and TLAPS
proves every invariant and all but the liveness properties of these runs for every
value of the constants.
Paths below are relative to `src/crates/tiletopia-server/src/` unless they start
with `src/`.

| module | models | lines of code it reads |
|---|---|---|
| `JobLifecycle` | what a client is promised about a job: its row and its events | `job_queue.rs`, `db.rs` |
| `TilingQueue` | the queue that keeps that promise, with asset deletes, retention, IDS checks that store a file, stops and starts | `job_queue.rs`, `db.rs`, `lib.rs`, `model_versions.rs`, `ids_check.rs`, `photogrammetry/`, `src/crates/tiletopia-cli/src/main.rs` |
| `TilingQueueProofs` | theorems about `TilingQueue` and their proofs | |
| `Scheduler` | scheduled jobs: the worker and the routes that change its rows | `scheduler.rs`, `premium_routes.rs`, `db.rs` |
| `SchedulerProofs` | theorems about `Scheduler` | |
| `WebhookDelivery` | the delivery queue and its worker | `webhooks.rs`, `premium_routes.rs` |
| `TilesetBuilds` | vector tilesets: upload, build, delete, restart | `tilesets.rs`, `db.rs` |
| `WorkerProofs` | theorems about `WebhookDelivery` and `TilesetBuilds`, the two smaller workers | |
| `AssetUploads` | how an asset comes to be: both upload routes, uploadComplete, expiry, delete, start | `upload.rs`, `ion_upload.rs`, `db.rs`, `lib.rs` |
| `AssetUploadsProofs` | theorems about `AssetUploads` | |
| `StagedUploads` | ion's S3 endpoint for one asset, and the ledger of what it stores | `ion_s3_endpoint.rs` |
| `StagedUploadsProofs` | theorems about `StagedUploads` | |
| `ModelAssets` | the assets the next three share | |
| `ChangeReports` | comparisons of two versions of a model | `change_reports.rs` |
| `IdsChecks` | checks of a model against an IDS file | `ids_check.rs` |
| `Coordination` | the two composed with the delete route and a restart | `model_versions.rs`, `lib.rs` |
| `CoordinationProofs` | theorems about `Coordination` | |
| `Rooms` | collaboration rooms, their counts and presence | `realtime.rs` |
| `RoomsProofs` | theorems about `Rooms` | |
| `MeshTiling` | how a mesh becomes a tree of tiles | `src/crates/tiletopia-core/src/mesh_tiler.rs` |
| `MeshTilingProofs` | theorems about `MeshTiling` | |
| `MC*` | the sets of model values TLC uses | |

`PROJECT.json` lists the components, the runs, the mutants (one plausible bug per
checked property), the source lines of every definition, the hazards and the
theorems.

## 1. Inventory

The server is one tokio process. Its durable state is one SQLite database
(`db.rs`, a pool of five connections) and a directory per asset or tileset; everything
else (the maps of running reconstructions, the delivery queue, the registered
tileset sources, rooms) is in memory and is lost when the process stops. A
statement is atomic, SQLite takes one write at a time, and every statement is
awaited, so any two tasks interleave between statements. Few operations span
statements in one transaction.

| component | state it keeps | operations | what is hard | what makes it correct |
|---|---|---|---|---|
| tiling job queue (`job_queue.rs`) | `jobs` and `assets` rows; in memory `running_reconstructions`, `tiling_lock` | submit; worker loop; reconstruction task; cancel; record outcome; fail interrupted jobs at start | a reconstruction leaves the worker and runs beside it; late progress reports; failed writes of an outcome; a stop at any await | one run per asset, one tiler at a time, Done only after the asset is ready, settled is final, told once, every job settles |
| assets (`lib.rs`, `db.rs`) | `assets`, `annotations`, the directory | upload, re-tile, delete, annotate | delete is three statements, a cancel and a removal while a tiler may be writing, and a disconnect may drop it in between | no directory without an owner; a delete deletes |
| model versions (`model_versions.rs`) | `asset_versions` | number a version; retention after each successful run | retention decides on what it read some awaits ago | unfinished versions stay |
| scheduler (`scheduler.rs`, `premium_routes.rs`) | `scheduled_jobs` | create, enable, disable, delete; due list, run, record | the list and the rows are copies while requests write | attempts bounded, one-shots once, enabled jobs recur, due jobs run |
| webhooks (`webhooks.rs`) | subscriptions in the database; queue and history in memory | subscribe; emit; deliver; retry | emits add to the queue while a batch is posted outside the lock | one row per delivery, all attempts before giving up, bounded queue, every delivery finishes |
| vector tilesets (`tilesets.rs`) | `tilesets`, archive, scratch directory, sources in memory, the current build's token | upload; claim and build; delete; register and requeue at start | delete and build touch the same four things in different orders | what is ready is served, a deleted build undoes itself, a kill hits its own build, every build settles |
| photogrammetry (`photogrammetry/`) | a NodeODM task | upload photos, poll, download, cancel | runs for hours outside the worker | covered with the queue |
| server start (`src/crates/tiletopia-cli/src/main.rs`) | – | recover, then serve | order of recovery | covered with each component |
| uploads (`upload.rs`, `ion_upload.rs`) | `assets`, `ion_uploads`, the directory | upload; ion create with quota, complete, expire; delete; fail stranded at start | complete against expiry, delete and a second complete; a handler dropped between two awaits; a row created after its files | taken once, quota holds, files have an owner, no asset stays uploading unaccounted |
| S3 endpoint (`ion_s3_endpoint.rs`) | staged files, multipart sessions and parts on disk; counters in memory | put, create, part, complete, abort | reservations made while bodies stream, settled under a lock, given back on every way out, also before a removal that may fail | the counters cover the disk always and equal it at rest but for what failed removals touched, caps hold, an upload is joined once and as listed |
| change reports (`change_reports.rs`) | `change_reports`, a file each | compare, replace a failed report, delete, interrupted at start | comparison against deletes and replacers | complete has its file, unfinished is at work, only failed reports are replaced |
| IDS checks (`ids_check.rs`) | `ids_checks`, a report each | claim, call the sidecar, settle, interrupted at start | a claim that is never settled, a report written into a directory that went | one check at work per asset, done has its report |
| realtime rooms (`realtime.rs`) | rooms, counts per room, user and creator; presence, under a lock of its own | acquire, upgrade, join, leave, release | failed upgrades; presence and rooms change at different awaits | each count is a recount, limits hold, one channel per room, presence is of open connections |
| mesh tiler (`src/crates/tiletopia-core/src/mesh_tiler.rs`) | none between calls | group, cut, split, write a tree | degenerate cuts, ties, depth limit, two refinements | no triangle lost or doubled, budget, errors shrink, names distinct, it ends |
| login (`users.rs`, `db.rs`) | failed attempts, locked until | attempt, lock, expire | limit under concurrent attempts | not modelled |
| everything else | single rows, or none | – | no interleaving of its own | not modelled, see `PROJECT.json` |

The components meet in few places: the scheduler submits re-tiles and prunes
settled jobs (`Submit` and `PruneJobs` of `TilingQueue`, and the outcome of a run
in `Scheduler`); the queue, the delete route and retention emit events (`told`
in `TilingQueue`, `Events` in `WebhookDelivery`); retention and the delete route
issue the same statements (`DeleteJobRows`, `DeleteVersionRow`, `DeleteAssetRow`).
An upload ends in a job of the queue (`job` and `Tiled` in `AssetUploads`), and what
the S3 endpoint stores is the staged file uploadComplete moves (`StoreObject`). A
delete forgets the reports and checks of its asset before it deletes the row and
the directory (`Coordination`), and an IDS check makes that directory again if it stores
its file late (`StoreIdsFile` in `TilingQueue`).

## 2. What each module models

### TilingQueue

One action is one awaited statement or file call, with the straight-line code up
to the next await. `run[j].pc` names what the task running job `j` does next, so
the code's order is the order of the steps:

* `start`, `readAsset`, `writeTiling`, `clearStore`: `run_job` in the worker loop.
  `Poll` is the loop's look at `next_queued_job`, with the assets being
  reconstructed excluded, and `worker` is the job the loop awaits. For a photo set
  `ClearStore` hands the run to a task: its token goes in the map and the worker
  is free. The code reads the map before it polls; between the two an entry can
  only leave, and a job excluded for that is taken at the next poll, so both are
  one action.
* `download`, `downloading`, `awaitTiler`, `tiling`: `reconstruct` and `run_tiler`.
  `ReportProgress` may come at any time while a download runs. NodeODM is what
  may answer, fail or see a cancel.
* `record`, `removeFiles`, `writeAsset`, `writeError`: `record_outcome` and
  `write_asset_outcome`, with the second try after a failed write.
* `retain`, `weigh`, `dropJobs` to `dropFiles`: `apply_retention` and
  `remove_version`. Bytes kept are not counted: whether a further ready version is
  still within the byte limit is a choice.
* `finish`, `finishFailed`, `tell`, `forgetToken`: `finish` and the end of the task.

`DeleteBegin` to `DeleteFiles` are the delete route, and `CutDelete` drops it at the
statement it awaits, as hyper does when the client disconnects: after the asset's
row is gone, nothing then cancels its reconstruction or removes its directory
(`lib.rs:492` to `503`). A removal that was issued runs on in a thread of its own.
`StartCheck`, `StoreIdsFile` and `EndCheck` are what an IDS check does to the
directory: it looks the asset up, receives the file and claims the check, and
`create_dir_all` (`ids_check.rs:293`) then makes the directory whether or not the
asset is still there. What a check does otherwise is `IdsChecks`. `PruneJobs` is the prune of a
scheduled job, and `Annotate` the annotation routes, which matter because their foreign
key makes the last statement of a delete fail. `Crash` stops the process
anywhere. `Startup`, `FailInterrupted` and `Serve` are what the next start does,
in the order of `main.rs`. `mishap` is a history variable: the assets that a step which
failed or was cut off by a stop or a disconnect, or a check that stored its file after
the delete was over, left behind and which no later step of the code repeats. Properties
about files and about assets that read `tiling` leave those out, and only those.

`JobLifecycle` is the abstract specification: a job is submitted once, reads
queued, running, then done or failed for good, may be removed at any time, and is
told of at most once and never as something else than its row says. The mapping is
direct: the row is `job`, a job is submitted once it has an asset.

### Scheduler

`Create`, `UpdateReads`/`UpdateWrites` (the PUT route reads the row, then writes)
and `Delete` are the routes. `ReadDue`, `Begin`, `End`, `Record` are `run_due`: the
list is read once per tick, each job is run and `next_state` is written. A time is
`past`, `future` or `none`; `Pass` lets one go by. What a run does is its outcome.

### WebhookDelivery

`EmitReads` and `EmitQueues` are the two halves of `emit`, before and under the lock.
`TakeDue` takes the due deliveries out, with the loop of `deliver_due` as `Where`, and
`Attempt` posts the next of the batch; its answer is the receiver's. `ComesDue` is a
retry delay that runs out. `RestartQueue` empties what is in memory. `queued`, `finished`
and `lost` are history variables. Its names are its own, as those of `ChangeReports` and
`IdsChecks` are, so that one module can extend it beside another.

### TilesetBuilds

`Claim` to `Undo` are the build worker, one await each; `DeleteBegins` to `DeleteRow`
the delete route; `Receive` and `Store` the upload. `Restart` is a stop and the
next start up to serving: it registers ready tilesets and requeues claimed ones.
`raced` and `mishap` are history variables, as above.

### AssetUploads

An asset is a row, perhaps credentials in `ion_uploads`, perhaps a job, and a
directory of `stream`, `staged` and `input` files. `Stream` to `Submit` are
`upload_asset`, `CreateIon` and `CreateIonUpload` ion's create, `Look` to
`ClearUpload` the awaits of `upload_complete`, `TakeExpired` to `ClearExpired` the
expiry at a scheduler tick, `DeleteJobs` to `DeleteDir` the delete route, `Restart` a
stop and `fail_stranded_uploads`. `OtherUploads` stands for the owner's further
assets. `CutCreate`, `CutComplete` and `CutDelete` drop a handler at the await it is
in, as hyper does when the client disconnects. `mishap` and `late` are history
variables: assets something stranded, and assets a PutObject wrote to after its
credentials were gone.

### StagedUploads

One asset's staging directory, its multipart sessions and the `StagedLedger`. `Begin`
is the arrival of a request, with the scan of the disk if the ledger is not yet
loaded. `Read`, `Frame` and `BodyEnds` stream a body, a unit reserved per frame. What
`run_past_disconnect` runs holds `lock` where the code holds
`replacing_stored_files`: the lock is a variable where an await lies between taking
and freeing it, and only a guard where there is none. `Release` is
`Reservation::drop` and `Unlink` is `IncomingFile::drop`, whose failure is only logged;
`Drop` is both.

Every file system call may fail, and the removal made because of a failure may fail
with it:

* `MakeDir`, `WriteKey` and `CleanSession` are the spawned task of
  `create_multipart_upload`. When the key file cannot be written the upload is released
  first and its directory removed an await later, or not at all.
* `Abort` that fails has removed any of the parts and perhaps the key file, and releases
  nothing. `Discard` that fails releases all the same.
* The request's own file stays when its unlink fails, and so may what a failed
  `Join` had written.

So a directory can be `keyless` (no request finds it, and it is counted), `joined` or
`left` (released but still there, the first with its key file), besides none, open,
joining and gone. `left` the variable is the size of files that could not be unlinked;
`Uncounted` are the directories released but there. `overdrawn` and `overcounted` are
history variables, the second what the ledger still counts of parts that a failed abort
removed. `overdrawn` is recorded
by `Rename`, in the step that replaces a copy smaller than the one room was given
for, and not when the ledger is settled: a stop may come between the two, and the
proof of `CapsHold` does not go through without it. The three requests
of the run do not reach the case; four, and a stop between rename and settle, do. It is
also recorded when a stop comes with parts beside the file they were joined into or
with an uncounted directory, because the next start counts both.

### ChangeReports, IdsChecks and Coordination

A request and what it spawns are one counter, `at` for a report and `run` for a
check, so the spawn is the step from answering to working. `CutRequest` and `CutCheck`
stop a request at an await; the spawned work goes on, and only a restart stops it.
`Coordination` adds the delete of an asset, one statement at a time, and `Restart`
with the recovery of both. `forgotten`, `cutReports` and `cutChecks` are history
variables.

### Rooms

`Acquire` is `acquire_room` before the upgrade, `FailUpgrade` the callback that gives
the hold back, `Join` and `Leave` the two presence calls, `ListRoster` and `SendRoster`
the two halves of `broadcast_presence`, `EndLoop` to `Release` the end of the task. A
channel is named after the connection that made the room; `shown` is the last roster
sent on it.

### MeshTiling

A part is a set of triangles, a call of `tile` or `tile_additive` a node of `todo` with
its path, and an action a call: what it writes and what it calls. Lengths are whole
numbers on two axes; where the code compares floating point numbers the model
compares integers, and where a sort leaves ties open any order is taken. What a
simplification keeps is any result it may have. The input is every mesh in `Meshes`.

## 3. Runs

Deadlock is not checked in any run: the server may be idle, and the bounded
counters end every behaviour. Everything else is checked against what follows.

| run | instance | states | shows |
|---|---|---|---|
| `TilingQueue_rows` | a photo set and an annotatable imagery asset, 2 jobs, 1 failure, 1 stop | 2.3 M | rows, events and files stay right, and the queue implements `JobLifecycle` |
| `TilingQueue_live` | two versions of one model, one a photo set and one that IDS checks take, retention keeping one, 2 jobs | 2.2 M | the worker and a reconstruction never tile side by side; a directory without a row has a delete or a run to remove it, or was left by a cut delete or a late check |
| `TilingQueue_restart` | one annotatable photo set, 2 jobs, 1 failure, 1 stop | 42 k | jobs settle also through a failure and a stop |
| `TilingQueue_unfinished` | two versions, no failure | – | the finding below |
| `Scheduler_rows` | a recurring and a one-shot job, limit of 3, 1 request, 1 failure, 1 restart | 404 k | failing jobs stop, enabled jobs recur, due jobs run |
| `WebhookDelivery_queue` | 3 events, 2 subscriptions, 2 attempts, cap 1, history 2, 1 failure, 1 restart | 352 k | every delivery is in one place, gets all attempts, and finishes; retries pass the cap, but the queue stays within a multiple of it |
| `TilesetBuilds_builds` | 2 tilesets, 1 failure, 1 restart | 132 k | build and delete in every order of awaits |
| `StagedUploads_ledger` | 1 file name, 2 sessions of 2 parts, 3 requests of any kind, bodies of 1 or 2 units, caps 3/3/1, 1 failure (and of what it makes the code remove), 1 restart | 2.5 M | the counters cover the disk, and equal it at rest, but for what failed removals touched |
| `AssetUploads_uploads` | 1 asset, 2 uploadComplete requests, a quota of 1, 3 failures, disconnects or restarts | 49 k | an upload is taken once, owns its files and settles |
| `Coordination_reports` | 2 versions of a model, a failed report and 2 requests for the pair, 2 checks of one asset, its delete, 1 failure, 1 restart | 3.2 M | complete, done and unfinished mean what they say |
| `Rooms_counts` | 4 connections, 3 users, 2 rooms, caps 2/2/1/2 | 1.6 M | counts, limits, channels and presence |
| `MeshTiling_tree` | every mesh of 4 triangles of 3 shapes in up to 3 elements and 2 materials, budget 1, depth 3 | 170 k | no triangle lost or doubled, budget, errors; it ends |

A run's properties are listed in `PROJECT.json`. Some further properties are stated in
the modules and hold of these instances (name them in the configuration to check
them), but no run is spent on them, because a proof covers them, another property
implies them, or one statement of the code gives them: `TypeOK` of each module,
`SettledIsFinal` and `DeletedFilesGo` of `TilingQueue`, `OneShotOnce` of `Scheduler`,
`FailedAfterAllAttempts` of `WebhookDelivery`, `OneJoiner` of `StagedUploads`,
`QuotaHolds` of `AssetUploads`, `RosterFits` of `Rooms` and `FilesDistinct` of
`MeshTiling`.

Why the bounds are enough. Two jobs let one run beside another, wait behind it on
the same asset, or tile after it; a third would only wait longer. One failure and
one stop are each placed at every step, and in `TilingQueue_rows` together: the
code has a second try after one failure (a second failure reaches only the branch
that gives up, which the model has and the proofs cover for any number). Two assets
or versions are what a mix-up between them needs, and two versions with
`MOST_VERSIONS_KEPT` 1 make retention remove one. Two tilesets let a delete meet
the build of the other. In `WebhookDelivery_queue` three events
for two subscriptions fill the queue past a cap of one. In `StagedUploads_ledger`
three requests let a part, a put and a complete meet; a session is full at one, so
the second is refused. One failure is enough for a removal to fail alone, and the one
it is a consequence of fails with it at no further cost. `AssetUploads_uploads` follows one asset because only the
quota relates two, and there the others are a counter; three mishaps are a failure
in a handler, one in its undo, and a restart. In `TilingQueue_live` one asset
is `Checkable`, and its checks come as often as they like. Two reports and two checks race for
one row, on top of the failed report both would replace. Four connections of three
users reach each of the four limits and drop and make again a room; that the number of
rooms cannot pass its limit is trivial for two rooms, and shown by `LimitsHold` for any. In `MeshTiling`
four triangles make parts of up to four over a budget of one, so that every kind of
cut and split, and three levels, occur; the shapes are a speck, whose copies no
split can part, and two whose centroid is off the middle of their box. Symmetry is used
where only safety is checked and members are interchangeable: for connections, users
and rooms, and for reports and checks. Jobs and tilesets are ordered by their creation.

### Fairness

`FairSpec` asks only for what the process does by itself: the worker loops tick, a
task that can move does, a tiler and tippecanoe end, NodeODM answers or times out,
a delay runs out, a server that stopped is started. All is weak fairness. No
request has to come, no statement has to succeed, and no receiver has to accept.
Weak fairness of `RunStep` does for the tiling lock because whoever holds it gives
it back in one step, and the other then waits for no one else in these instances;
tokio's mutex is fair, so the code promises more than the model asks for. In
`AssetUploads` the fairness is that of handlers, of the clock that reaches `expires_at`,
of the scheduler's tick and of the queue that settles a job; no client has to call
uploadComplete. In `MeshTiling` it is that the recursion goes on. The other modules
state no liveness and no fairness.

### Findings

`model_versions.rs:329`: `apply_retention` decides on a status it read, and
`remove_version` deletes some awaits later, so a version whose re-tile began in
between is deleted while it is tiling, against `src/README.md:237` ("an unfinished
version is left alone"). The run `TilingQueue_unfinished` shows the trace.

The modules also state what a comment or the README says where the code does not keep
it; no run is spent on these. Each is found in seconds by naming the definition in
the configuration of the module's run, with the bounds given here.

| property | what the code does | against |
|---|---|---|
| `TilingQueue!DeleteRemovesAsset` | `db.rs:807` the annotations of an asset are not removed and their foreign key has no cascade: a delete answers 500 after the job and version rows are gone (one annotatable asset, no failure) | `src/README.md:523` |
| `Scheduler!RunLeavesDisabled` | `scheduler.rs:363` records a run with the enabled flag read before it: a job disabled during its run is enabled again (one job, one request) | `db.rs:1267` "a run only moves the schedule on" |
| `TilesetBuilds!NoHalfOutlives` | `tilesets.rs:706` a build recorded ready between two steps of its delete leaves source and archive with no row (one tileset) | `tilesets.rs:688` |
| `TilesetBuilds!RequeuedHasInput` | `tilesets.rs:445` the input goes before the state is written: a stop in between requeues a build with nothing to read (one tileset, one restart) | `db.rs:998` |
| `StagedUploads!HoldsAtMostCap` | `ion_s3_endpoint.rs:1066` two requests that replace the same larger file both count on the bytes it frees (two puts, no failure) | `src/README.md:168` |
| `AssetUploads!ExpiredHasNoFiles` | `ion_s3_endpoint.rs:1056` a PutObject let in before the expiry stores its file after it, in a directory nothing removes (one asset, no failure) | `src/README.md:179` |
| `Coordination!DeletedWithVersion` | `change_reports.rs:477` a comparison that runs while its version is deleted publishes a report file that no row names (no failure, no restart) | `src/README.md:237` |
| `Rooms!RosterSettles` | `realtime.rs:499` of two changes of presence the older roster may be sent last (two connections, one room) | `realtime.rs:498` "Send the room's presence list to everyone in it" |

Two more are visible without a property: `scheduler.rs:331` runs a job of the list it
read although it was disabled or deleted since, where `scheduler.rs:220` says "A
disabled job is never due."; and `webhooks.rs:367` puts a retry back without looking
at `MAX_PENDING` (`webhooks.rs:36`). `WaitingBounded` shows what bound does hold.

## 4. Proofs

Eight modules hold theorems. Each proves, from the named assumptions of the modules
it is about and nothing else, that `Spec` implies properties the runs check, for every
value of the constants. Hardly any of them is inductive as it stands, and what
is worth reading in each module is the invariant that is.

### TilingQueueProofs

For any assets, jobs, versions, failures and stops, from the three named assumptions
on the constants:

| theorem | states |
|---|---|
| `TypeCorrect` | `Spec => []TypeOK` |
| `OneRunPerAssetHolds` | `Spec => []OneRunPerAsset` |
| `OneTilerHolds` | `Spec => []OneTilerAtATime` |
| `ToldOnce` | `Spec => []ToldOnceAsRecorded` |
| `SettledRowsFinal` | `Spec => SettledIsFinal` |
| `KeepsLifecycle` | `Spec => LifecycleSpec`, the refinement of `JobLifecycle` |
| `UploadedStay` | `Spec => UploadedStaysReady` |
| `DoneFollowsAsset` | `Spec => DoneAfterAsset` |
| `TilingIsRun` | `Spec => []TilingHasRun` |
| `OrphansOwned` | `Spec => []OrphansAreOwned` |

None of them is inductive as it stands. The first six rest on three invariants, one on
the other:

* `TypeInv` adds to `TypeOK` that whatever has a row, a run or was interrupted has
  an asset, and that a run which removes a version names one.
* `TaskInv` says who answers for a run. A live run is awaited by the worker or has
  its asset's token; the worker's own run has an asset with no token; the first
  steps of a run are the worker's, the last one a reconstruction's; whoever is
  tiling holds the lock; and outside of serving there are no tokens. Two runs
  of one asset would then both be the worker's, or both the token's.
* `RowInv` ties the row and the events of a job to where its run is: before `tell`
  nothing was told, between `start` and `tell` the row reads running (or is gone),
  at `tell` it reads what the outcome says, and interrupted jobs have not been told
  of. That is why a late progress report or a second try finds nothing settled, and
  why the recovery after a stop, which takes only rows that read running, cannot
  tell of a job twice.

`MoveLemma`, `GotoLemma` and `GotoAsLemma` say what a step does to the record of a run.
`QuietMoves` and `QuietRows` handle the thirteen actions in the middle of a run at
once, `StayTasks`, `StayRow`, `OtherRow` and `WrittenRow` what a step leaves alone. The
refinement falls out of the same case split (`StepRows`, `RowInvStep`): each step
is a lifecycle step or changes none of the three variables, and `SettledIsFinal`
follows from the lifecycle. `TaskInv` and `RowInv` were model-checked as invariants
of the first two instances before they were proved.

The last four are about statuses and files, which several tasks write without a lock:

* `AssetInv` says what a run knows of its asset's status at each step (`StatusInv`). Only
  a run that read a status to follow writes one; a run of imagery or CZML never does,
  and cannot succeed; a run past the asset's row with a good outcome has left it
  ready. Both action properties follow from it.
* `TilingOwed` gives every asset that reads tiling a debtor: a live run that will write
  the status again, or a job whose row the next start will fail (`Owes`). It is a
  stronger debt than `TilingHasRun` asks for, because a run that is merely alive may be
  past the write. A step of a run either keeps owing, writes the status, or
  marks its failure to in `mishap` (`StepOwes`).
* `FilesOwed` does the same for the directory of a deleted asset: the debtor is the
  delete, retention, or a run at a step from which it still looks at the asset's row
  again (`WritingSteps`), which is why the run that wrote the directory back
  after the delete also removes it. Whoever leaves the directory for good marks it: a
  disconnect or a stop past the row, a removal that fails, and a check that stores its
  file when no delete is due to remove it any more.

### SchedulerProofs

`FailingJobStops` proves `AttemptsBounded` and `RecurringHasNext` proves
`EnabledRecurs`. The first bound is not inductive: it has to be known that one more run
fits. `Counted` says so of every job that will run without a request (`InLine`: enabled
with no outcome to record, in the list the worker read, or at work), and that the
row's failures account for all failed runs but those that were never recorded
(`Unrecorded`, the one in the worker's hand included). `Listed` says that the worker
has a job once. `Recurs` adds to the row what a PUT request has read and is about to
write.

`OneShotRunsOnce` proves `OneShotOnce`, which no run checks: a one-shot is carried out
once, and once more for each request, unrecorded run or stop. Its invariant `Spent`
adds to what was carried out what still may be: one for a job that needs no request
to run again (`ToRun`: due in its row unless its success is about to be recorded, in the
list, at work, or failed) and one for a request that has read the row and will make it
due again (`Rearms`), as a PUT can that read before the run and writes after it. The sum
stays within the bound: a success moves its run from the second part to the first, a
write of the request from `Rearms` to `ToRun`, and what else adds to the sum has counted a
request, a fault or a crash. TLC checked `Spent` on the rows instance before it was proved.

### WorkerProofs

This module extends `WebhookDelivery` and `TilesetBuilds`, which have no name in common
(the first has `DeliverySpec` for `Spec`, and so on), and proves about one at a time.

| theorem | states |
|---|---|
| `OneRow` | `DeliverySpec => []OneRowPerDelivery` |
| `QueueBounded` | `DeliverySpec => []WaitingBounded` |
| `AllAttemptsMade` | `DeliverySpec => []FailedAfterAllAttempts` |
| `DeliveriesTyped` | `DeliverySpec => []DeliveryTypeOK` |
| `ReadyServed` | `Spec => []ReadyIsServed` |
| `OnlyDeletedKilled` | `Spec => []KilledOnlyDeleted` |
| `DeletedUndone` | `Spec => []DeletedBuildIsUndone` |

The first four hold for any events, any finite set of subscriptions and any limits above
zero. That the subscriptions are finitely many, rows of a table, is the one assumption that
is not about a limit. Their invariant is `DeliveryInv`:

* `QueuedOnce` is what `OneRowPerDelivery` needs to be inductive: an event whose
  emit is not over has queued nothing, so the delivery that emit adds is new, and what a
  stop lost had been queued.
* `TriedFit` is why the queue stays bounded although `attempt` puts a retry back without
  looking at `MAX_PENDING`. The bound alone is not inductive: a full batch of
  retries could be added to a full queue again and again. What is, is the bound by age.
  Of the deliveries tried less than `a` times, at most `a` caps are under way, and
  with the waiting ones that were tried less than `a + 1` times at most one cap more. An emit
  adds below the cap and only deliveries of age zero. A new batch is taken when the last one
  is done, out of what waited. A retry leaves the first count of an age and enters
  the second. With `a` one below `MAX_ATTEMPTS` this bounds what waits, and with `a` equal to it what
  waits and is under way (`FitsWaiting`). TLC checked `DeliveryInv` on the instance of
  `WebhookDelivery_queue` before it was proved.

Both are about how many members of a list are of a set. `Count` says that once, and
`CountAppend`, `CountTail`, `CountConcat` and `WhereSplits` say what the operations of the queue
do to it. `WhereSplits` is the loop of `deliver_due`, a recursive function: that there is
such a function (`KeptExists`) and that its two results together have what the
list has (`WhereOfTwo`) are proved by an induction over a set of numbers (`UpTo`).
`EmitAdds` and `AttemptEnds` say what those two actions do to the queue.

The last three hold for any tilesets. `AtWork` says what the row of the claimed
tileset can read at each await of the worker, `SlotHeld` that the slot is taken only
from `Take` to the outcome of the build, `BuiltIsThere` that what a build wrote
stays until a delete takes it, and `RemovedStays` that what a delete removed stays
away unless a build is at work on it. `BuiltIsThere` makes `Finish` keep
`ReadyIsServed`; `RemovedStays` makes `DeleteRow` keep `DeletedBuildIsUndone`.

### AssetUploadsProofs

`UploadTakenOnce`, `UploadingAccounted` and `FilesOwned` prove `TakenOnce`,
`UploadingIsAccounted` and `FilesAreOwned` for any assets, uploadComplete requests and
quota. All parts of the invariant are about one asset, so every action keeps those
of the assets it does not touch (`UntouchedKeeps`) and the case split is over what is
left. `OneHolder` is the core: who took the credentials (a request, the expiry) is
alone with the asset, because taking them is one statement that only one caller
sees succeed. `CreateRows`, `HolderRows` and `EndedRows` say what the row can read at
each await of a handler, `IonAndJobRows` what credentials and a job say of it, and
`GoneLeavesNothing` what is left when the row is gone.

### CoordinationProofs

`CompleteReports`, `UnfinishedReports` and `ReplacedOnlyFailed` rest on `ReportsInv`:
a row exists only after its INSERT (`RowsAreBorn`), a failed report has no comparison
left that could complete it (`FailedAreOver`), so what a request looked up to replace,
and what a delete has in hand, is written by nobody (`ReplacedAreFailed`,
`ForgottenAreGone`), and the file is published before the row says so
(`ResultHasFile`). `DoneChecks` and `OneCheck` rest on `ChecksInv`: the row in work and
the request that claimed it go together (`OneClaim`), a report is written before it is
settled (`WrittenBeforeSettled`), and the delete forgets the check before it removes
the directory (`ForgottenFirst`). Between them they show that the two halves of
`forget_asset` and the rest of the delete need no transaction. Of the constants they
need, beside the modules' own assumptions, that a report is not the name of a step
(`StepsAssumption`).

### RoomsProofs

`RoomCounts` (`TypeOK`, `CountsExact`), `LimitsHold` (`CapsHold`), `SharedChannel`
(`OneChannel`) and `PresenceHolds` (`PresenceIsHeld`, `RosterFits`) hold for any connections, users, rooms
and limits, of which the connections are finitely many. The limits are not
inductive: `Charged` says that every live room is charged to a user and that each
count is within its limit, and `CountsExact` ties the counts to the sets they count,
so that taking one from a count is taking one from a set (`Decremented`, `OneLess`).
Presence is changed under another lock than the counts, and `Tasks` says which of the
two a connection has at each await.

### MeshTilingProofs

`PlacedOnce` proves `EachPlacedOnce`, `LeavesFit` proves `LeavesWithinBudget`, `ErrorsHold`
proves `ErrorsShrink`, `FilesApart` proves `FilesDistinct` and `TypeCorrect` proves `TypeOK`,
for every finite mesh, budget and depth. The invariant of the first two is that the parts of the calls to come
and of the counted tiles are disjoint (`NoneTwice`) and that every triangle is in one
of them (`NoneLost`), next to `Typed`. All the geometry they use is that a cut
of a part is a subset of it; `SplitsApart` is what every split keeps whatever it
compares, which is why degenerate boxes, ties and centroids on the boundary cannot
lose a triangle.

The errors rest on the geometry. Its only assumption is that no triangle's bounds are
inside out (`ShapesAssumption`). A box is a least and a greatest member of finite sets
(`MinMax`), the error the sum over the axes (`FoldOfTwo` unfolds the community module's
fold), so the piece of a part has neither a larger box nor a larger error
(`BoxesNest`, `ErrorsNest`). `TreeInv` then follows a call below the tile it hangs from: its
box is inside the tile's and, in an additive tree, each of its parts is no larger than
the tile's error (`Below`). That alone is not inductive: nothing may come to hang
below a tile but what it left out, so no tile and no other call is at the path of
a call or below it (`Alone`). An additive tile's error is that of the largest part it
leaves out and each part of a child is a piece of one of those, which is why a parent's
error can be that of one part and not of its box. `FilesInv` adds that every path
starts at the root of its group. Groups differ there unless the cast of their numbers to
`u8` gives the same segment (`SameSegment`, which needs more than 256 materials, and then the
code does write one tile over another); within a group `Alone` keeps tiles apart.

### StagedUploadsProofs

| theorem | states |
|---|---|
| `LedgerCovers` | `Spec => []LedgerCoversDisk` |
| `QuietLedger` | `Spec => []QuietLedgerExact` |
| `CapsKept` | `Spec => []CapsHold` |
| `CompletedListed` | `Spec => []CompletedAsListed` |
| `OneJoinerHolds` | `Spec => []OneJoiner` |
| `TypeCorrect` | `Spec => []TypeOK` |

They hold for any number of requests, keys, uploads and parts, of which there are
finitely many (`FinitenessAssumption`: a request is a connection that was accepted,
and the others are rows, map entries and part numbers up to a limit), any caps and
any number of failures and stops.

The ledger is compared with sums over all files, and the sums are folds. The first
section proves what a sum over a finite set is: `SetInduction` is induction over a finite
set as a statement about a set of its subsets, from the library's theorem that strict
inclusion is well-founded on them, and the rest (`SumExists`, `SumSplit`, `SumChange`,
`SumMonotone`, `CountChange`) follows from it.

`LedgerInv` gives every request an account. `HeldBy` is what the ledger counts for it
beyond the disk, `SlackBy` by how much it may take the ledger above a cap because
the copy it replaces is still there. `Stock` is what the ledger counts of the disk: the
objects, the parts in directories that were not released, and the parts that a failed
abort took (`overcounted`). Then

* `LedgerExact`: a loaded ledger is the stock and what is held, exactly, whatever failed.
  A failing removal moves things between the stock and what is uncounted
  (`BytesUncounted`) and nothing else, so the three properties follow by comparing the
  stock with the disk (`DiskIsStock`). The type invariant follows as well: the counters
  are unsigned, and never taken below zero;
* `EmptyInv`: an upload that is not made yet has no parts;
* `LedgerBounded` and `DiskBounded`: the ledger is above its caps by at most the slack, and
  what a stop leaves on disk is within them with no directory uncounted, unless it marked
  `overdrawn`, because outside the last two steps of a
  complete a request holds at least its slack (`HeldCoversSlack`);
* `RequestInv` of each request: what it holds at each place, that the lock keeps what was
  read under it, and that a claimed upload keeps its parts as listed.

The nineteen steps of a request are each first reduced to what they do (`DidRead` to
`DidReopen`) and then shown to be a `GoodStep`: one that changes the ledger by exactly
what it changes of the stock and in its own account, stays within the caps or its slack,
and touches only what its place lets it. `PartsTaken` says what a removal that fails with
any of the parts gone does to the sums.
`StepHolds` proves once that a good step of one request preserves `LedgerInv`, the other
requests' part included (`OthersHold`). The first request since a start, the stop and
the initial state are left.

### Model-checked only

* Liveness: `JobsSettle`, `DueRuns`, `QueuedFinishes`, `BuildsSettle`, `UploadsSettle`,
  `TilingEnds`. It needs fairness and ENABLED, which TLAPS cannot reason about here.

Every invariant of a run and every other action property has a theorem.

## 5. Plan

Done, in this order: `TilingQueue` and `JobLifecycle` (the core) with their proofs,
`TilesetBuilds`, `Scheduler`, `WebhookDelivery`; then `AssetUploads` and
`StagedUploads`, `ChangeReports` and `IdsChecks` with `Coordination`, `Rooms`,
`MeshTiling`, and proofs about all of them.

Left, by how much it would show:

1. The composition of `AssetUploads` with `TilingQueue` in the place of `Tiled`, and of
   `Scheduler` with `TilingQueue`: a re-tile scheduled while an earlier one is queued.
2. `LoginLockout`, and the numbers `model_versions.rs` gives to versions.
3. The relay of messages in a room: broadcast, lag and echo.

## 6. Not modelled

The workspace is large and most of it computes: format readers and writers, glb and
3D Tiles encoders, imagery, terrain, spatial analysis, exports, element queries. Each
is a function of its input, keeps no state that tasks share, and does arithmetic on
floating point numbers and bytes; a model would repeat the code without its
numbers. That is why the share of lines the modules cover is small although they
cover most of what is concurrent or durable. Routes that read or write one row have
no interleaving of their own: audit log, BCF topics, accounts, catalogues. Tokens,
signatures and passwords are cryptography. The web interface runs elsewhere.

Left out of what is modelled:

* Wording of errors, logging and metrics, and columns no property tells apart:
  names, sizes, progress percentages, timestamps.
* `job_queue.rs`: elevation build slots, which only delay a run.
* `ids_check.rs`: the order in which waiting checks get the sidecar's slots.
* `realtime.rs`: messages other than the roster, and a receiver that lags.
* `ion_s3_endpoint.rs`: signature checks; a failing scan at the first request since a
  start, which answers 500 and is done again by the next; and a rename of the claimed
  directory that fails, which refuses the complete as a wrong list does.
* `mesh_tiler.rs`: a failing write, which ends the call with an error.
* The other tilers: the octree of point clouds and the one for Gaussian splats.
* The limit of failed logins and the limiter of API keys, caches of imagery and
  terrain.
