----------------------------- MODULE TilingQueue -----------------------------
(***************************************************************************)
(* The tiling queue of tiletopia-server: job_queue.rs, the rows of db.rs   *)
(* it reads and writes, the asset delete route of lib.rs, the version      *)
(* retention of model_versions.rs and what `serve` does with a queue that  *)
(* a stop interrupted (tiletopia-cli/src/main.rs).                         *)
(*                                                                         *)
(* SQLite runs one statement at a time and every statement is awaited, so  *)
(* one action is one statement (or one file system call) together with the *)
(* straight-line code up to the next await.  Between two actions of one    *)
(* run any other task may move, the process may stop, and any statement    *)
(* may fail.                                                               *)
(***************************************************************************)
EXTENDS Naturals, Sequences, FiniteSets

CONSTANTS
    Assets,            \* asset ids
    Jobs,              \* job ids, numbered in the order of created_at
    PhotoSets,         \* models whose input is a zip of photos (is_photo_set)
    ServedAsUploaded,  \* imagery and CZML assets, which no tiler takes
    Annotatable,       \* assets clients put annotations on
    Checkable,         \* assets uploaded as IFC, which an IDS check takes
    Versions,          \* the assets that are versions of one model
    VersionNumber,     \* version_number of each
    MostVersionsKept,  \* MOST_VERSIONS_KEPT
    MaxFaults,         \* bound: statements and file system calls that fail
    MaxCrashes,        \* bound: times the process stops
    NoJob, NoAsset

ASSUME IdsAssumption ==
    /\ Jobs \subseteq Nat
    /\ NoJob \notin Jobs
    /\ NoAsset \notin Assets

ASSUME KindsAssumption ==
    /\ PhotoSets \subseteq Assets
    /\ ServedAsUploaded \subseteq Assets \ PhotoSets
    /\ Annotatable \subseteq Assets /\ Checkable \subseteq Assets
    /\ Versions \subseteq Assets \ ServedAsUploaded
    /\ VersionNumber \in [Versions -> Nat]

ASSUME BoundsAssumption ==
    /\ MostVersionsKept \in Nat \ {0}
    /\ MaxFaults \in Nat
    /\ MaxCrashes \in Nat

VARIABLES
    phase,       \* the process is starting, recovering or serving
    asset,       \* status column of the assets table, "gone" without a row
    versioned,   \* assets with a row in asset_versions
    annotated,   \* assets with a row in annotations
    job,         \* status column of the jobs table, "none" without a row
    of,          \* asset_id of each job submitted so far
    files,       \* assets whose directory is on disk
    run,         \* the task running each job, see Idle
    worker,      \* the job the worker loop (or startup) is awaiting
    interrupted, \* jobs startup read as running and has still to fail
    token,       \* running_reconstructions: the run whose token an asset has
    cancelled,   \* runs whose CancellationToken is cancelled
    tilingLock,  \* the run holding tiling_lock
    deleter,     \* where each asset's DELETE request is
    checking,    \* assets an IDS check has accepted and has a file to store for
    told,        \* job events emitted to the webhook queue, per job
    mishap,      \* assets some step left behind for good, see Mishap
    faults,      \* failures so far
    crashes      \* stops so far

rows  == <<asset, versioned, annotated, job, of>>
tasks == <<run, worker, interrupted, token, cancelled, tilingLock>>
requests == <<deleter, checking>>
vars  == <<rows, files, phase, tasks, requests, told, mishap, faults, crashes>>

AssetStatus == {"uploading", "tiling", "ready", "error", "gone"}
JobStatus   == {"none", "queued", "running", "done", "failed"}
Settled     == {"done", "failed"}
Events      == {"completed", "failed"}

(* The steps of a run, named after what the code does next. *)
StartSteps  == {"start", "readAsset", "writeTiling", "clearStore"}
TilerSteps  == {"download", "downloading", "awaitTiler", "tiling"}
RecordSteps == {"record", "removeFiles", "writeAsset", "writeError"}
DropSteps   == {"dropJobs", "dropVersion", "dropRow", "dropFiles"}
RetainSteps == {"retain", "weigh"} \cup DropSteps
FinishSteps == {"finish", "finishFailed", "tell", "forgetToken"}
Steps == {"idle"} \cup StartSteps \cup TilerSteps \cup RecordSteps
                  \cup RetainSteps \cup FinishSteps

DeleteSteps == {"idle", "jobs", "version", "row", "cancel", "files"}

(* follows is status_follows_job; left, kept and member are the versions   *)
(* apply_retention has still to look at, its kept_versions and the version *)
(* it removes.                                                             *)
Run == [pc : Steps, follows : BOOLEAN, outcome : {"ok", "err"},
        left : SUBSET Versions, kept : Nat, member : Versions \cup {NoAsset}]

Idle == [pc |-> "idle", follows |-> TRUE, outcome |-> "ok",
         left |-> {}, kept |-> 0, member |-> NoAsset]

Live(j) == run[j].pc # "idle"

-----------------------------------------------------------------------------
(* Helpers *)

Works == UNCHANGED faults
Fails == faults < MaxFaults /\ faults' = faults + 1

Move(j, r) == run' = [run EXCEPT ![j] = r]
Goto(j, step) == Move(j, [run[j] EXCEPT !.pc = step])
GotoAs(j, step, outcome) ==
    Move(j, [run[j] EXCEPT !.pc = step, !.outcome = outcome])

(* update_job and update_asset: an UPDATE of a row that is gone does nothing *)
UpdateJob(j, status) ==
    job' = IF job[j] = "none" THEN job ELSE [job EXCEPT ![j] = status]
UpdateAsset(a, status) ==
    asset' = IF asset[a] = "gone" THEN asset ELSE [asset EXCEPT ![a] = status]

HasJobRow(a) == \E j \in Jobs : of[j] = a /\ job[j] # "none"

(* jobs and annotations have foreign keys on assets, with no cascade. *)
Referenced(a) == HasJobRow(a) \/ a \in annotated

(* The statements of Database::delete_asset, in their order (the one on      *)
(* ion_uploads changes nothing here).  The last fails on a referenced row.   *)
DeleteJobRows(a) ==
    job' = [j \in Jobs |-> IF of[j] = a THEN "none" ELSE job[j]]
DeleteVersionRow(a) == versioned' = versioned \ {a}
DeleteAssetRow(a) ==
    /\ ~Referenced(a)
    /\ asset' = [asset EXCEPT ![a] = "gone"]

(* unrecorded_outcome_error: a read or write that fails while an outcome is   *)
(* recorded makes the outcome a failure.                                      *)
UnrecordedKept(j, step) == Fails /\ Goto(j, step)
Unrecorded(j, step) == Fails /\ GotoAs(j, step, "err")

(* asset_status_follows_job *)
FollowsAlways(a) == a \in Assets
FollowsJob(a) == ~(a \in ServedAsUploaded /\ asset[a] = "ready")

(* What is left of an asset that no later step repeats or removes: an error,  *)
(* a stop or a disconnect cut a step short, or an IDS check came too late.    *)
Mishap(as) == mishap' = mishap \cup as

(* A tiler writing under the directory makes a removal of it fail. *)
BeingWritten(a) ==
    \E j \in Jobs : of[j] = a /\ run[j].pc \in {"downloading", "tiling"}

Reconstructing == {a \in Assets : token[a] # NoJob}

-----------------------------------------------------------------------------
Init ==
    /\ phase = "serving"
    /\ asset \in [Assets -> {"uploading", "ready"}]
    /\ \A a \in ServedAsUploaded : asset[a] = "ready"
    /\ versioned = Versions
    /\ annotated = {}
    /\ job = [j \in Jobs |-> "none"]
    /\ of = [j \in Jobs |-> NoAsset]
    /\ files = Assets
    /\ run = [j \in Jobs |-> Idle]
    /\ worker = NoJob
    /\ interrupted = {}
    /\ token = [a \in Assets |-> NoJob]
    /\ cancelled = {}
    /\ tilingLock = NoJob
    /\ deleter = [a \in Assets |-> "idle"]
    /\ checking = {}
    /\ told = [j \in Jobs |-> <<>>]
    /\ mishap = {}
    /\ faults = 0
    /\ crashes = 0

-----------------------------------------------------------------------------
(* Requests *)

(* submit_retile_job refuses an asset whose uploaded input is not on disk. *)
InputStored(a) == a \in files

(* submit, for an upload or a re-tile; the insert must find the asset's row. *)
Submit(j, a) ==
    /\ phase = "serving"
    /\ of[j] = NoAsset
    /\ \A k \in Jobs : k < j => of[k] # NoAsset
    /\ asset[a] # "gone" /\ InputStored(a)
    /\ job' = [job EXCEPT ![j] = "queued"]
    /\ of' = [of EXCEPT ![j] = a]
    /\ UNCHANGED <<asset, versioned, annotated, files, phase, tasks, requests,
                   told, mishap, faults, crashes>>

(* delete_finished_jobs_before, the prune action of a scheduled job: rows     *)
(* settled a day ago or more, so their runs are over.                         *)
PruneJobs(js) ==
    /\ phase = "serving"
    /\ js # {} /\ \A j \in js : job[j] \in Settled /\ ~Live(j)
    /\ job' = [j \in Jobs |-> IF j \in js THEN "none" ELSE job[j]]
    /\ UNCHANGED <<asset, versioned, annotated, of, files, phase, tasks,
                   requests, told, mishap, faults, crashes>>

(* create_annotation and delete_annotation of the asset's one annotation *)
Annotate(a) ==
    /\ phase = "serving"
    /\ a \in Annotatable /\ asset[a] # "gone"
    /\ annotated' \in {annotated \cup {a}, annotated \ {a}}
    /\ UNCHANGED <<asset, versioned, job, of, files, phase, tasks, requests,
                   told, mishap, faults, crashes>>

(* delete_asset: the handler reads the row, then forget_asset and the three  *)
(* statements of Database::delete_asset follow one await at a time.          *)
DeleteBegin(a) ==
    /\ phase = "serving"
    /\ deleter[a] = "idle" /\ asset[a] # "gone"
    /\ deleter' = [deleter EXCEPT ![a] = "jobs"]
    /\ UNCHANGED <<rows, files, phase, tasks, checking, told, mishap, faults,
                   crashes>>

DeleteRows(a) ==
    /\ \/ /\ deleter[a] = "jobs"
          /\ DeleteJobRows(a)
          /\ deleter' = [deleter EXCEPT ![a] = "version"]
          /\ UNCHANGED <<asset, versioned>>
       \/ /\ deleter[a] = "version"
          /\ DeleteVersionRow(a)
          /\ deleter' = [deleter EXCEPT ![a] = "row"]
          /\ UNCHANGED <<asset, job>>
       \/ /\ deleter[a] = "row"
          /\ DeleteAssetRow(a)
          /\ deleter' = [deleter EXCEPT ![a] = "cancel"]
          /\ UNCHANGED <<versioned, job>>
    /\ UNCHANGED <<annotated, of, files, phase, tasks, checking, told, mishap,
                   faults, crashes>>

(* Any of them fails and the request answers 500 with the rest undone. *)
DeleteFails(a) ==
    /\ deleter[a] \in {"jobs", "version", "row"}
    /\ \/ deleter[a] = "row" /\ Referenced(a) /\ Works
       \/ Fails
    /\ deleter' = [deleter EXCEPT ![a] = "idle"]
    /\ Mishap(IF deleter[a] = "jobs" THEN {} ELSE {a})
    /\ UNCHANGED <<rows, files, phase, tasks, checking, told, crashes>>

(* cancel_reconstruction finds a token only while the run is in the map. *)
TokenUnchecked(a) == {token[a]}
TokenOf(a) == {token[a]} \ {NoJob}

DeleteCancels(a) ==
    /\ deleter[a] = "cancel"
    /\ cancelled' = cancelled \cup TokenOf(a)
    /\ deleter' = [deleter EXCEPT ![a] = "files"]
    /\ UNCHANGED <<rows, files, phase, run, worker, interrupted, token,
                   tilingLock, checking, told, mishap, faults, crashes>>

(* The removal of the directories, issued with the cancel; its error is       *)
(* ignored.                                                                   *)
DeleteFiles(a) ==
    /\ deleter[a] = "files"
    /\ \/ files' = files \ {a} /\ Works /\ Mishap({})
       \/ files' = files /\ BeingWritten(a) /\ Works /\ Mishap({})
       \/ files' = files /\ Fails /\ Mishap({a})
    /\ deleter' = [deleter EXCEPT ![a] = "idle"]
    /\ UNCHANGED <<rows, phase, tasks, checking, told, crashes>>

(* The client disconnects while a statement is awaited: the handler's future  *)
(* is dropped with the rest undone.  After the asset's row is gone nothing    *)
(* cancels its reconstruction or removes its directory.  A removal that was   *)
(* issued runs on.                                                            *)
CutDelete(a) ==
    /\ deleter[a] \in {"jobs", "version", "row", "cancel"}
    /\ deleter' = [deleter EXCEPT ![a] = "idle"]
    /\ Mishap(IF deleter[a] = "cancel" THEN {a} ELSE {})
    /\ UNCHANGED <<rows, files, phase, tasks, checking, told, faults, crashes>>

(* start_check: the asset's row and source are looked up, the IDS file is     *)
(* received and the check claimed before store_ids_file makes the directory.  *)
StartCheck(a) ==
    /\ phase = "serving"
    /\ a \in Checkable \ checking
    /\ asset[a] # "gone" /\ InputStored(a)
    /\ checking' = checking \cup {a}
    /\ UNCHANGED <<rows, files, phase, tasks, deleter, told, mishap, faults,
                   crashes>>

(* store_ids_file looks at no row again.  Nobody is due to remove what it     *)
(* makes of an asset whose removal is over.                                   *)
StoreIdsFile(a) ==
    /\ a \in checking
    /\ checking' = checking \ {a}
    /\ files' = files \cup {a}
    /\ Mishap(IF asset[a] = "gone" /\ deleter[a] \notin {"cancel", "files"}
              THEN {a} ELSE {})
    /\ UNCHANGED <<rows, phase, tasks, deleter, told, faults, crashes>>

(* The check is refused, fails or is cut off before that. *)
EndCheck(a) ==
    /\ a \in checking
    /\ checking' = checking \ {a}
    /\ UNCHANGED <<rows, files, phase, tasks, deleter, told, mishap, faults,
                   crashes>>

-----------------------------------------------------------------------------
(* The worker loop: next_queued_job and run_job *)

WaitingAnyAsset(j) == job[j] = "queued"
Waiting(j) == job[j] = "queued" /\ of[j] \notin Reconstructing

(* The oldest queued job of an asset no reconstruction is running for. *)
Poll(j) ==
    /\ phase = "serving" /\ worker = NoJob
    /\ Waiting(j)
    /\ \A k \in Jobs : k < j => ~Waiting(k)
    /\ worker' = j
    /\ Move(j, [Idle EXCEPT !.pc = "start"])
    /\ UNCHANGED <<rows, files, phase, interrupted, token, cancelled,
                   tilingLock, requests, told, mishap, faults, crashes>>

MarkRunning(j) ==
    /\ run[j].pc = "start"
    /\ \/ Works /\ UpdateJob(j, "running") /\ Goto(j, "readAsset")
          /\ UNCHANGED worker
       \/ Fails /\ UNCHANGED job
          /\ Move(j, Idle) /\ worker' = NoJob
    /\ UNCHANGED <<asset, versioned, annotated, of, files, phase, interrupted,
                   token, cancelled, tilingLock, requests, told, mishap,
                   crashes>>

ReadAsset(j) ==
    LET a == of[j] IN
    /\ run[j].pc = "readAsset"
    /\ \/ /\ Works /\ asset[a] # "gone"
          /\ Move(j, [run[j] EXCEPT
                !.follows = FollowsJob(a),
                !.pc = IF FollowsJob(a) THEN "writeTiling" ELSE "clearStore"])
       \/ Works /\ asset[a] = "gone" /\ GotoAs(j, "finish", "err")
       \/ Fails /\ GotoAs(j, "finish", "err")
    /\ UNCHANGED <<rows, files, phase, worker, interrupted, token, cancelled,
                   tilingLock, requests, told, mishap, crashes>>

WriteTiling(j) ==
    /\ run[j].pc = "writeTiling"
    /\ \/ Works /\ UpdateAsset(of[j], "tiling") /\ Goto(j, "clearStore")
       \/ Fails /\ UNCHANGED asset /\ GotoAs(j, "record", "err")
    /\ UNCHANGED <<versioned, annotated, job, of, files, phase, worker,
                   interrupted, token, cancelled, tilingLock, requests, told,
                   mishap, crashes>>

(* remove_store, then a photo set's run leaves the worker loop for a task of *)
(* its own, whose token is in the map before the loop moves on.              *)
ClearStore(j) ==
    LET a == of[j] IN
    /\ run[j].pc = "clearStore"
    /\ \/ Fails /\ GotoAs(j, "record", "err") /\ UNCHANGED <<worker, token>>
       \/ /\ Works /\ a \in PhotoSets
          /\ Goto(j, "download")
          /\ token' = [token EXCEPT ![a] = j]
          /\ worker' = NoJob
       \/ Works /\ a \notin PhotoSets
          /\ Goto(j, "awaitTiler") /\ UNCHANGED <<worker, token>>
    /\ UNCHANGED <<rows, files, phase, interrupted, cancelled, tilingLock,
                   requests, told, mishap, crashes>>

-----------------------------------------------------------------------------
(* The tilers: reconstruct and run_tiler *)

(* download_reconstruction makes its work directory, and the asset's with it *)
Download(j) ==
    LET a == of[j] IN
    /\ run[j].pc = "download"
    /\ \/ GotoAs(j, "record", "err") /\ UNCHANGED files
       \/ /\ j \notin cancelled
          /\ Goto(j, "downloading")
          /\ files' = files \cup {a}
    /\ UNCHANGED <<rows, phase, worker, interrupted, token, cancelled,
                   tilingLock, requests, told, mishap, faults, crashes>>

(* report_progress writes the whole row as run_job last saw it: running. *)
ReportingLate(j) == Live(j) /\ of[j] \in PhotoSets
Reporting(j) == run[j].pc = "downloading"

ReportProgress(j) ==
    /\ Reporting(j)
    /\ UpdateJob(j, "running")
    /\ UNCHANGED <<asset, versioned, annotated, of, files, phase, tasks,
                   requests, told, mishap, faults, crashes>>

Downloaded(j) ==
    /\ run[j].pc = "downloading"
    /\ \/ Goto(j, "awaitTiler")
       \/ GotoAs(j, "record", "err")
    /\ UNCHANGED <<rows, files, phase, worker, interrupted, token, cancelled,
                   tilingLock, requests, told, mishap, faults, crashes>>

(* run_tiler: the worker's tiler and a reconstruction's take the same lock. *)
TilerFreeForWorker(j) == worker = j \/ tilingLock = NoJob
TilerFree(j) == tilingLock = NoJob

(* tile_reconstruction looks at its token first, so a run cancelled while it *)
(* waited for the lock gives the lock straight back.                         *)
TakeTilingLock(j) ==
    /\ run[j].pc = "awaitTiler" /\ TilerFree(j)
    /\ \/ j \notin cancelled /\ tilingLock' = j /\ Goto(j, "tiling")
       \/ j \in cancelled /\ UNCHANGED tilingLock /\ GotoAs(j, "record", "err")
    /\ UNCHANGED <<rows, files, phase, worker, interrupted, token, cancelled,
                   requests, told, mishap, faults, crashes>>

(* tile: imagery and CZML are refused *)
HasTiler(a) == a \notin ServedAsUploaded

(* The tiler ran to its end.  It may have written at any moment up to now,   *)
(* and a reconstruction cancelled meanwhile may end either way.              *)
Tiled(j) ==
    LET a == of[j] IN
    /\ run[j].pc = "tiling"
    /\ \/ /\ HasTiler(a)
          /\ GotoAs(j, "record", "ok")
          /\ files' = files \cup {a}
       \/ /\ GotoAs(j, "record", "err")
          /\ files' \in {files, files \cup {a}}
    /\ tilingLock' = NoJob
    /\ UNCHANGED <<rows, phase, worker, interrupted, token, cancelled,
                   requests, told, mishap, faults, crashes>>

-----------------------------------------------------------------------------
(* record_outcome and write_asset_outcome *)

AfterAssetWrite(outcome) == IF outcome = "ok" THEN "retain" ELSE "finish"

(* A tiler still writing when the delete route removed the directories has   *)
(* made them again, so the run of a deleted asset removes them itself.       *)
AfterReadLeavingFiles(j) ==
    CASE asset[of[j]] = "gone" -> "finish"
      [] asset[of[j]] # "gone" /\ run[j].follows -> "writeAsset"
      [] OTHER -> AfterAssetWrite(run[j].outcome)
AfterAssetRead(j) ==
    CASE asset[of[j]] = "gone" -> "removeFiles"
      [] asset[of[j]] # "gone" /\ run[j].follows -> "writeAsset"
      [] OTHER -> AfterAssetWrite(run[j].outcome)

RecordOutcome(j) ==
    LET a == of[j] IN
    /\ run[j].pc = "record"
    /\ \/ /\ Works /\ Mishap({})
          /\ GotoAs(j, AfterAssetRead(j),
                    IF asset[a] = "gone" THEN "err" ELSE run[j].outcome)
       \/ Unrecorded(j, "finish") /\ Mishap({a})
    /\ UNCHANGED <<rows, files, phase, worker, interrupted, token, cancelled,
                   tilingLock, requests, told, crashes>>

RemoveFiles(j) ==
    LET a == of[j] IN
    /\ run[j].pc = "removeFiles"
    /\ \/ Works /\ files' = files \ {a} /\ Mishap({})
       \/ Fails /\ files' = files /\ Mishap({a})
    /\ Goto(j, "finish")
    /\ UNCHANGED <<rows, phase, worker, interrupted, token, cancelled,
                   tilingLock, requests, told, crashes>>

ReadyOrKept(j) == IF run[j].outcome = "ok" THEN "ready" ELSE asset[of[j]]
OutcomeStatus(j) == IF run[j].outcome = "ok" THEN "ready" ELSE "error"

WriteAssetOutcome(j) ==
    /\ run[j].pc = "writeAsset"
    /\ \/ /\ Works
          /\ UpdateAsset(of[j], OutcomeStatus(j))
          /\ Goto(j, AfterAssetWrite(run[j].outcome))
       \/ Unrecorded(j, "writeError") /\ UNCHANGED asset
    /\ UNCHANGED <<versioned, annotated, job, of, files, phase, worker,
                   interrupted, token, cancelled, tilingLock, requests, told,
                   mishap, crashes>>

(* The second try writes the error status; after it the asset keeps its old  *)
(* status.                                                                   *)
WriteAssetError(j) ==
    /\ run[j].pc = "writeError"
    /\ \/ Works /\ UpdateAsset(of[j], "error") /\ Mishap({})
       \/ Fails /\ UNCHANGED asset /\ Mishap({of[j]})
    /\ Goto(j, "finish")
    /\ UNCHANGED <<versioned, annotated, job, of, files, phase, worker,
                   interrupted, token, cancelled, tilingLock, requests, told,
                   crashes>>

-----------------------------------------------------------------------------
(* apply_retention and remove_version *)

ListVersions(j) ==
    /\ run[j].pc = "retain"
    /\ \/ /\ Works /\ of[j] \in versioned
          /\ Move(j, [run[j] EXCEPT !.pc = "weigh", !.left = versioned,
                                    !.kept = 0])
       \/ Works /\ of[j] \notin versioned /\ Goto(j, "finish")
       \/ Fails /\ Goto(j, "finish")
    /\ UNCHANGED <<rows, files, phase, worker, interrupted, token, cancelled,
                   tilingLock, requests, told, mishap, crashes>>

(* The loop is done with version v, or goes on to remove it. *)
Turn(j, v, step, kept, member) ==
    Move(j, [run[j] EXCEPT !.pc = step, !.left = @ \ {v}, !.kept = kept,
                           !.member = member])

(* One turn of the loop: an unfinished version is passed over, a ready one   *)
(* is kept while the count and the bytes (either answer here) allow it.      *)
Weigh(j, v) ==
    LET kept == run[j].kept IN
    \/ /\ asset[v] \in {"gone", "uploading", "tiling"}
       /\ Turn(j, v, "weigh", kept, NoAsset)
    \/ /\ asset[v] = "error" /\ kept = 0
       /\ Turn(j, v, "weigh", kept, NoAsset)
    \/ /\ asset[v] = "ready" /\ kept < MostVersionsKept
       /\ Turn(j, v, "weigh", kept + 1, NoAsset)
    \/ /\ asset[v] \in {"error", "ready"} /\ kept > 0
       /\ Turn(j, v, "dropJobs", kept, v)

WeighVersion(j) ==
    LET left == run[j].left IN
    /\ run[j].pc = "weigh"
    /\ \/ Works /\ left = {} /\ Goto(j, "finish")
       \/ /\ Works
          /\ \E v \in left :
                /\ \A w \in left : VersionNumber[w] <= VersionNumber[v]
                /\ Weigh(j, v)
       \/ Fails /\ left # {} /\ Goto(j, "finish")
    /\ UNCHANGED <<rows, files, phase, worker, interrupted, token, cancelled,
                   tilingLock, requests, told, mishap, crashes>>

(* remove_version decides nothing again: the row goes whatever it says now. *)
DropVersion(j) ==
    LET v == run[j].member IN
    /\ \/ /\ run[j].pc = "dropJobs"
          /\ DeleteJobRows(v) /\ Goto(j, "dropVersion")
          /\ UNCHANGED <<asset, versioned, files>>
       \/ /\ run[j].pc = "dropVersion"
          /\ DeleteVersionRow(v) /\ Goto(j, "dropRow")
          /\ UNCHANGED <<asset, job, files>>
       \/ /\ run[j].pc = "dropRow"
          /\ DeleteAssetRow(v) /\ Goto(j, "dropFiles")
          /\ UNCHANGED <<versioned, job, files>>
       \/ /\ run[j].pc = "dropFiles"
          /\ files' = files \ {v}
          /\ Goto(j, "weigh")
          /\ UNCHANGED <<asset, versioned, job>>
    /\ UNCHANGED <<annotated, of, phase, worker, interrupted, token,
                   cancelled, tilingLock, requests, told, mishap, faults,
                   crashes>>

DropFails(j) ==
    LET v == run[j].member IN
    /\ run[j].pc \in DropSteps
    /\ \/ run[j].pc = "dropRow" /\ Referenced(v) /\ Works
       \/ run[j].pc = "dropFiles" /\ BeingWritten(v) /\ Works
       \/ Fails
    /\ Mishap(IF run[j].pc = "dropJobs" THEN {} ELSE {v})
    /\ Goto(j, "finish")
    /\ UNCHANGED <<rows, files, phase, worker, interrupted, token, cancelled,
                   tilingLock, requests, told, crashes>>

-----------------------------------------------------------------------------
(* finish *)

(* A run awaited by the worker loop (or by startup) hands control back to it; *)
(* a reconstruction's task still has its token to take out of the map.       *)
EndRun(j) ==
    IF worker = j
    THEN Move(j, Idle) /\ worker' = NoJob
    ELSE Goto(j, "forgetToken") /\ UNCHANGED worker

FinishJob(j) ==
    /\ run[j].pc = "finish"
    /\ \/ /\ Works
          /\ UpdateJob(j, IF run[j].outcome = "ok" THEN "done" ELSE "failed")
          /\ Goto(j, "tell")
       \/ Unrecorded(j, "finishFailed") /\ UNCHANGED job
    /\ UNCHANGED <<asset, versioned, annotated, of, files, phase, worker,
                   interrupted, token, cancelled, tilingLock, requests, told,
                   mishap, crashes>>

FinishFailed(j) ==
    /\ run[j].pc = "finishFailed"
    /\ \/ Works /\ UpdateJob(j, "failed") /\ Goto(j, "tell") /\ UNCHANGED worker
       \/ Fails /\ UNCHANGED job /\ EndRun(j)
    /\ UNCHANGED <<asset, versioned, annotated, of, files, phase, interrupted,
                   token, cancelled, tilingLock, requests, told, mishap,
                   crashes>>

(* emit loses the event when the subscriptions cannot be read. *)
Tell(j) ==
    /\ run[j].pc = "tell"
    /\ \/ /\ Works
          /\ told' = [told EXCEPT ![j] = Append(@,
                IF run[j].outcome = "ok" THEN "completed" ELSE "failed")]
       \/ Fails /\ UNCHANGED told
    /\ EndRun(j)
    /\ UNCHANGED <<rows, files, phase, interrupted, token, cancelled,
                   tilingLock, requests, mishap, crashes>>

TokensKept(j) == token
TokensWithout(j) == [token EXCEPT ![of[j]] = NoJob]

ForgetToken(j) ==
    /\ run[j].pc = "forgetToken"
    /\ token' = TokensWithout(j)
    /\ Move(j, Idle)
    /\ UNCHANGED <<rows, files, phase, worker, interrupted, cancelled,
                   tilingLock, requests, told, mishap, faults, crashes>>

-----------------------------------------------------------------------------
(* Stops and restarts *)

(* An error while starting ends the process too, so Crash stands for both.   *)
(* What a stop leaves half done: a removal past its first statement, and the *)
(* directory of a deleted asset whose run had still to remove it.            *)
CutShort ==
    {a \in Assets :
        \/ deleter[a] \in DeleteSteps \ {"idle", "jobs"}
        \/ \E j \in Jobs :
              \/ run[j].pc \in DropSteps \ {"dropJobs"} /\ run[j].member = a
              \/ of[j] = a /\ Live(j) /\ job[j] = "none"}

Crash ==
    /\ crashes < MaxCrashes /\ crashes' = crashes + 1
    /\ phase' = "starting"
    /\ run' = [j \in Jobs |-> Idle]
    /\ worker' = NoJob
    /\ interrupted' = {}
    /\ token' = [a \in Assets |-> NoJob]
    /\ cancelled' = {}
    /\ tilingLock' = NoJob
    /\ deleter' = [a \in Assets |-> "idle"]
    /\ checking' = {}
    /\ Mishap(CutShort)
    /\ UNCHANGED <<rows, files, told, faults>>

(* list_running_jobs *)
AllStartedRows == {j \in Jobs : job[j] \notin {"none", "queued"}}
UnsettledRows == {j \in Jobs : job[j] \in {"queued", "running"}}
NoRows == {}
RunningRows == {j \in Jobs : job[j] = "running"}

(* fail_stranded_uploads, then fail_interrupted_jobs reads the running rows. *)
Startup ==
    /\ phase = "starting"
    /\ asset' = [a \in Assets |->
            IF asset[a] = "uploading" /\ ~HasJobRow(a) THEN "error"
                                                     ELSE asset[a]]
    /\ interrupted' = RunningRows
    /\ phase' = "recovering"
    /\ UNCHANGED <<versioned, annotated, job, of, files, run, worker, token,
                   cancelled, tilingLock, requests, told, mishap, faults,
                   crashes>>

(* Each interrupted job goes through record_outcome as failed, one by one. *)
FailInterrupted(j) ==
    /\ phase = "recovering" /\ worker = NoJob
    /\ j \in interrupted
    /\ interrupted' = interrupted \ {j}
    /\ worker' = j
    /\ Move(j, [Idle EXCEPT !.pc = "record", !.outcome = "err",
                            !.follows = /\ asset[of[j]] # "gone"
                                        /\ FollowsJob(of[j])])
    /\ UNCHANGED <<rows, files, phase, token, cancelled, tilingLock, requests,
                   told, mishap, faults, crashes>>

Serve ==
    /\ phase = "recovering" /\ worker = NoJob /\ interrupted = {}
    /\ phase' = "serving"
    /\ UNCHANGED <<rows, files, tasks, requests, told, mishap, faults,
                   crashes>>

-----------------------------------------------------------------------------
(* The steps of the task running job j, once it has begun. *)
RunStep(j) ==
    \/ MarkRunning(j) \/ ReadAsset(j) \/ WriteTiling(j) \/ ClearStore(j)
    \/ Download(j) \/ ReportProgress(j) \/ Downloaded(j)
    \/ TakeTilingLock(j) \/ Tiled(j)
    \/ RecordOutcome(j) \/ RemoveFiles(j)
    \/ WriteAssetOutcome(j) \/ WriteAssetError(j)
    \/ ListVersions(j) \/ WeighVersion(j) \/ DropVersion(j) \/ DropFails(j)
    \/ FinishJob(j) \/ FinishFailed(j) \/ Tell(j) \/ ForgetToken(j)

DeleteStep(a) ==
    \/ DeleteRows(a) \/ DeleteFails(a) \/ DeleteCancels(a) \/ DeleteFiles(a)

CheckStep(a) == StartCheck(a) \/ StoreIdsFile(a) \/ EndCheck(a)

Next ==
    \/ \E j \in Jobs : Poll(j) \/ RunStep(j) \/ FailInterrupted(j)
    \/ \E j \in Jobs, a \in Assets : Submit(j, a)
    \/ \E a \in Assets :
          \/ Annotate(a)
          \/ DeleteBegin(a) \/ DeleteStep(a) \/ CutDelete(a)
          \/ CheckStep(a)
    \/ \E js \in SUBSET Jobs : PruneJobs(js)
    \/ Crash \/ Startup \/ Serve

Spec == Init /\ [][Next]_vars

(* The process gets on with what it has begun: the worker loop polls, a       *)
(* task that can move does, NodeODM answers or times out, a tiler ends, a     *)
(* stopped server is started again.  No request has to come.                  *)
Fairness ==
    /\ \A j \in Jobs : WF_vars(Poll(j)) /\ WF_vars(RunStep(j))
    /\ \A j \in Jobs : WF_vars(FailInterrupted(j))
    /\ \A a \in Assets : WF_vars(DeleteStep(a))
    /\ WF_vars(Startup) /\ WF_vars(Serve)

FairSpec == Spec /\ Fairness

-----------------------------------------------------------------------------
(* Every variable holds a value of its kind: the rows, the files, the tasks   *)
(* of the queue and the bookkeeping of failures.                              *)
TypeOK ==
    /\ phase \in {"starting", "recovering", "serving"}
    /\ asset \in [Assets -> AssetStatus]
    /\ versioned \subseteq Versions
    /\ annotated \subseteq Annotatable
    /\ job \in [Jobs -> JobStatus]
    /\ of \in [Jobs -> Assets \cup {NoAsset}]
    /\ files \subseteq Assets
    /\ run \in [Jobs -> Run]
    /\ worker \in Jobs \cup {NoJob}
    /\ interrupted \subseteq Jobs
    /\ token \in [Assets -> Jobs \cup {NoJob}]
    /\ cancelled \subseteq Jobs
    /\ tilingLock \in Jobs \cup {NoJob}
    /\ deleter \in [Assets -> DeleteSteps]
    /\ checking \subseteq Checkable
    /\ told \in [Jobs -> Seq(Events)]
    /\ mishap \subseteq Assets
    /\ faults \in Nat /\ crashes \in Nat

(* Two runs never work in one asset's directory: a re-tile stays queued until *)
(* the asset's running reconstruction ends (README.md, Photogrammetry), and   *)
(* the worker loop awaits every other run.                                    *)
OneRunPerAsset ==
    \A j, k \in Jobs : Live(j) /\ Live(k) /\ of[j] = of[k] => j = k

(* Tiling takes its turn with every other tiling job, one at a time: the      *)
(* worker's tiler and those of the reconstructions never run side by side.    *)
OneTilerAtATime ==
    \A j, k \in Jobs : run[j].pc = "tiling" /\ run[k].pc = "tiling" => j = k

(* A client that sees a job Done and reads the asset straight after finds it  *)
(* ready (or deleted), never still tiling: record_outcome writes the asset    *)
(* first and turns the outcome into a failure when that write fails.          *)
DoneAfterAsset ==
    [][\A j \in Jobs : job[j] # "done" /\ job'[j] = "done"
                           => asset[of[j]] \in {"ready", "gone"}]_vars

(* No late write brings a settled job back: progress reports, a second try    *)
(* of a failed write and the recovery after a restart all leave it settled.   *)
SettledIsFinal ==
    [][\A j \in Jobs : job[j] \in Settled => job'[j] \in {job[j], "none"}]_vars

(* A job is told of at most once over its whole life, restarts included, and  *)
(* a subscriber is never told something else than the row says.               *)
ToldOnceAsRecorded ==
    \A j \in Jobs :
        /\ Len(told[j]) <= 1
        /\ told[j] # <<>> /\ job[j] # "none" =>
               job[j] = IF Head(told[j]) = "completed" THEN "done" ELSE "failed"

(* An asset reads tiling only while a job of it is being run or will be       *)
(* failed by the next start, unless an error or a stop cut a step short.      *)
TilingHasRun ==
    \A a \in Assets : asset[a] = "tiling" /\ a \notin mishap =>
        \E j \in Jobs : of[j] = a /\ (job[j] = "running" \/ Live(j))

(* The directory of a deleted asset is on disk only while someone is still    *)
(* due to remove it: the request, retention, or the run of the asset that may *)
(* have written it back.  It is left for good by what mishap marks: a delete  *)
(* or removal cut by a disconnect, a stop or an error past the row, and an    *)
(* IDS check that stores its file after the delete.                           *)
OrphansAreOwned ==
    \A a \in Assets : asset[a] = "gone" /\ a \in files /\ a \notin mishap =>
        \/ deleter[a] \in {"cancel", "files"}
        \/ \E j \in Jobs :
              of[j] = a /\ Live(j) /\ run[j].pc \notin FinishSteps
        \/ \E j \in Jobs : run[j].pc = "dropFiles" /\ run[j].member = a

(* Imagery and CZML are served as uploaded: a job of one fails and leaves it  *)
(* ready, also when the failure is written by the start after a stop.         *)
UploadedStaysReady ==
    [][\A a \in ServedAsUploaded :
          asset[a] = "ready" => asset'[a] \in {"ready", "gone"}]_vars

(* README.md:237, "an unfinished version is left alone": retention removes no *)
(* version that is uploading or tiling.  It decides on a status it read       *)
(* before, so a re-tile that begins in between is not seen.                   *)
UnfinishedVersionLeftAlone ==
    [][\A j \in Jobs :
          run[j].pc = "dropRow" /\ run'[j].pc = "dropFiles"
              => asset[run[j].member] \notin {"uploading", "tiling"}]_vars

(* README.md:523, DELETE /api/v1/assets/{id} deletes an asset: where no       *)
(* statement fails of itself, a request that gets to the asset's row answers  *)
(* no error, unless a job was submitted meanwhile.  An annotation is never removed, *)
(* so an annotated asset loses its job and version rows and stays.            *)
(* The code does not keep this one (README, section 3).                       *)
DeleteRemovesAsset ==
    [][\A a \in Assets :
          deleter[a] = "row" /\ DeleteFails(a)
              => faults' # faults \/ HasJobRow(a)]_vars

(* A queued job is settled (or deleted with its asset) in the end, whatever   *)
(* it waits behind and also when the server stops once on the way.            *)
JobsSettle ==
    \A j \in Jobs : job[j] = "queued" ~> job[j] \notin {"queued", "running"}

(* The directory of a deleted asset goes in the end, even one its tiler       *)
(* writes back after the request removed it.                                  *)
DeletedFilesGo ==
    \A a \in Assets : asset[a] = "gone" ~> (a \notin files \/ a \in mishap)

-----------------------------------------------------------------------------
(* The queue keeps the promise of JobLifecycle: through failed writes, stops  *)
(* and deletes a client sees no other order of a job's statuses and events.   *)
Lifecycle == INSTANCE JobLifecycle
    WITH submitted <- {j \in Jobs : of[j] # NoAsset}, row <- job

LifecycleSpec == Lifecycle!Spec

=============================================================================
