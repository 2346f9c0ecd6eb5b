-------------------------- MODULE TilingQueueProofs --------------------------
(***************************************************************************)
(* Proofs about TilingQueue, for any assets, jobs, versions and bounds.    *)
(***************************************************************************)
EXTENDS TilingQueue, TLAPS

(* The types, and what makes them inductive: a job with a row, a run or an    *)
(* interrupted one has an asset, and a run that removes a version names it.   *)
TypeInv ==
    /\ TypeOK
    /\ \A j \in Jobs : job[j] # "none" => of[j] \in Assets
    /\ \A j \in Jobs : Live(j) => of[j] \in Assets
    /\ \A j \in interrupted : of[j] \in Assets
    /\ \A j \in Jobs : run[j].pc \in DropSteps => run[j].member \in Versions

(* The runs, the worker and the tokens: a live run is awaited by the worker   *)
(* or has its asset's token, an asset never both; the worker's own first      *)
(* steps, the lock's holder; and what is empty outside of each phase.         *)
TaskInv ==
    /\ phase = "starting" => worker = NoJob /\ \A j \in Jobs : ~Live(j)
    /\ phase # "recovering" => interrupted = {}
    /\ phase # "serving" =>
          /\ \A a \in Assets : token[a] = NoJob
          /\ \A j \in Jobs : run[j].pc \notin StartSteps
    /\ \A j \in interrupted : ~Live(j)
    /\ \A j \in Jobs : Live(j) => worker = j \/ token[of[j]] = j
    /\ \A j \in Jobs : worker = j => Live(j) /\ token[of[j]] = NoJob
    /\ \A j \in Jobs : run[j].pc \in StartSteps => worker = j
    /\ \A j \in Jobs : run[j].pc = "forgetToken" => worker # j
    /\ \A j \in Jobs : run[j].pc = "tiling" => tilingLock = j

(* The row and the events of each job, by where its run is.                   *)
RowOf(outcome) == IF outcome = "ok" THEN "done" ELSE "failed"

JobInv(j) ==
    /\ of[j] = NoAsset \/ job[j] \in {"queued", "running"} => told[j] = <<>>
    /\ j \in interrupted => told[j] = <<>> /\ job[j] \in {"running", "none"}
    /\ run[j].pc \notin {"idle", "forgetToken"} => told[j] = <<>>
    /\ run[j].pc = "start" => job[j] \in {"queued", "none"}
    /\ run[j].pc \notin {"idle", "start", "tell", "forgetToken"}
          => job[j] \in {"running", "none"}
    /\ run[j].pc = "tell" => job[j] \in {RowOf(run[j].outcome), "none"}
    /\ run[j].pc = "finishFailed" => run[j].outcome = "err"

ToldRow(j) ==
    /\ Len(told[j]) <= 1
    /\ told[j] # <<>> /\ job[j] # "none" =>
           job[j] = IF Head(told[j]) = "completed" THEN "done" ELSE "failed"

RowInv == \A j \in Jobs : JobInv(j) /\ ToldRow(j)

-----------------------------------------------------------------------------
(* What a move of one run does to the others and to itself.                   *)
LEMMA MoveLemma ==
    ASSUME run \in [Jobs -> Run], NEW j \in Jobs, NEW r \in Run, Move(j, r)
    PROVE  /\ run' \in [Jobs -> Run]
           /\ run'[j] = r
           /\ \A k \in Jobs : k # j => run'[k] = run[k]
BY DEF Move

(* A run that goes on to another step keeps everything else of it.            *)
LEMMA GotoLemma ==
    ASSUME run \in [Jobs -> Run], NEW j \in Jobs, NEW step \in Steps,
           Goto(j, step)
    PROVE  /\ run' \in [Jobs -> Run]
           /\ \A k \in Jobs : k # j => run'[k] = run[k]
           /\ run'[j].pc = step
           /\ run'[j].outcome = run[j].outcome
           /\ run'[j].follows = run[j].follows
           /\ run'[j].member = run[j].member
<1>. DEFINE r == [run[j] EXCEPT !.pc = step]
<1>1. /\ r \in Run
      /\ r.pc = step /\ r.outcome = run[j].outcome
      /\ r.follows = run[j].follows /\ r.member = run[j].member
  BY DEF Run
<1>2. Move(j, r)
  BY DEF Goto
<1>. HIDE DEF r
<1>. QED BY <1>1, <1>2, MoveLemma

(* A run that goes on with another outcome keeps everything else of it.       *)
LEMMA GotoAsLemma ==
    ASSUME run \in [Jobs -> Run], NEW j \in Jobs, NEW step \in Steps,
           NEW outcome \in {"ok", "err"}, GotoAs(j, step, outcome)
    PROVE  /\ run' \in [Jobs -> Run]
           /\ \A k \in Jobs : k # j => run'[k] = run[k]
           /\ run'[j].pc = step
           /\ run'[j].outcome = outcome
           /\ run'[j].follows = run[j].follows
           /\ run'[j].member = run[j].member
<1>. DEFINE r == [run[j] EXCEPT !.pc = step, !.outcome = outcome]
<1>1. /\ r \in Run
      /\ r.pc = step /\ r.outcome = outcome
      /\ r.follows = run[j].follows /\ r.member = run[j].member
  BY DEF Run
<1>2. Move(j, r)
  BY DEF GotoAs
<1>. HIDE DEF r
<1>. QED BY <1>1, <1>2, MoveLemma

(* A job without a task has the record of an idle run.                        *)
LEMMA IdleLemma == Idle \in Run /\ Idle.pc = "idle"
BY DEF Idle, Run, Steps

(* The three steps that write more than a step and an outcome.                *)
LEMMA ReadAssetMoves ==
    ASSUME run \in [Jobs -> Run], NEW j \in Jobs, ReadAsset(j)
    PROVE  /\ run' \in [Jobs -> Run]
           /\ \A k \in Jobs : k # j => run'[k] = run[k]
           /\ \/ /\ run'[j].pc \in {"writeTiling", "clearStore"}
                 /\ run'[j].outcome = run[j].outcome
              \/ run'[j].pc = "finish" /\ run'[j].outcome = "err"
<1>. DEFINE step == IF FollowsJob(of[j]) THEN "writeTiling" ELSE "clearStore"
            r == [run[j] EXCEPT !.follows = FollowsJob(of[j]), !.pc = step]
<1>1. FollowsJob(of[j]) \in BOOLEAN /\ step \in {"writeTiling", "clearStore"}
  BY DEF FollowsJob
<1>2. step \in Steps /\ "finish" \in Steps
  BY <1>1 DEF Steps, StartSteps, FinishSteps
<1>3. Move(j, r) \/ GotoAs(j, "finish", "err")
  BY DEF ReadAsset
<1>. HIDE DEF step
<1>4. r \in Run /\ r.pc = step /\ r.outcome = run[j].outcome
  <2>1. run[j] \in Run
    OBVIOUS
  <2>. QED BY <1>1, <1>2, <2>1 DEF Run
<1>. HIDE DEF r
<1>5. CASE Move(j, r)
  BY <1>1, <1>4, <1>5, MoveLemma
<1>6. CASE GotoAs(j, "finish", "err")
  BY <1>2, <1>6, GotoAsLemma
<1>. QED BY <1>3, <1>5, <1>6

(* Retention begins to look at the versions, or there is nothing to do.       *)
LEMMA ListVersionsMoves ==
    ASSUME run \in [Jobs -> Run], versioned \subseteq Versions,
           NEW j \in Jobs, ListVersions(j)
    PROVE  /\ run' \in [Jobs -> Run]
           /\ \A k \in Jobs : k # j => run'[k] = run[k]
           /\ run'[j].pc \in {"weigh", "finish"}
           /\ run'[j].outcome = run[j].outcome
<1>. DEFINE r == [run[j] EXCEPT !.pc = "weigh", !.left = versioned, !.kept = 0]
<1>1. "weigh" \in Steps /\ "finish" \in Steps
  BY DEF Steps, RetainSteps, FinishSteps
<1>2. r \in Run /\ r.pc = "weigh" /\ r.outcome = run[j].outcome
  BY <1>1 DEF Run
<1>3. Move(j, r) \/ Goto(j, "finish")
  BY DEF ListVersions
<1>. HIDE DEF r
<1>4. CASE Move(j, r)
  BY <1>2, <1>4, MoveLemma
<1>5. CASE Goto(j, "finish")
  BY <1>1, <1>5, GotoLemma
<1>. QED BY <1>3, <1>4, <1>5

(* A turn of the retention loop passes on, ends it, or removes a version.     *)
LEMMA WeighVersionMoves ==
    ASSUME run \in [Jobs -> Run], NEW j \in Jobs, WeighVersion(j)
    PROVE  /\ run' \in [Jobs -> Run]
           /\ \A k \in Jobs : k # j => run'[k] = run[k]
           /\ run'[j].pc \in {"weigh", "dropJobs", "finish"}
           /\ run'[j].pc = "dropJobs" => run'[j].member \in Versions
           /\ run'[j].outcome = run[j].outcome
<1>1. "weigh" \in Steps /\ "dropJobs" \in Steps /\ "finish" \in Steps
  BY DEF Steps, RetainSteps, DropSteps, FinishSteps
<1>2. run[j].kept \in Nat /\ run[j].left \subseteq Versions
  BY DEF Run
<1>3. CASE Goto(j, "finish")
  BY <1>1, <1>3, GotoLemma
<1>4. ASSUME NEW v \in run[j].left, Weigh(j, v)
      PROVE  /\ run' \in [Jobs -> Run]
             /\ \A k \in Jobs : k # j => run'[k] = run[k]
             /\ run'[j].pc \in {"weigh", "dropJobs"}
             /\ run'[j].pc = "dropJobs" => run'[j].member \in Versions
             /\ run'[j].outcome = run[j].outcome
  <2>1. PICK step \in {"weigh", "dropJobs"}, count \in Nat,
             member \in {NoAsset, v} :
           /\ step = "dropJobs" => member = v
           /\ Turn(j, v, step, count, member)
    BY <1>2, <1>4 DEF Weigh
  <2>. DEFINE r == [run[j] EXCEPT !.pc = step, !.left = @ \ {v},
                                  !.kept = count, !.member = member]
  <2>2. /\ r \in Run
        /\ r.pc = step
        /\ r.outcome = run[j].outcome
        /\ r.member = member
    <3>1. run[j] \in Run /\ step \in Steps /\ member \in Versions \cup {NoAsset}
      BY <1>1, <1>2
    <3>. QED BY <3>1 DEF Run
  <2>3. Move(j, r)
    BY <2>1 DEF Turn
  <2>. HIDE DEF r
  <2>. QED BY <1>2, <2>1, <2>2, <2>3, MoveLemma
<1>. QED BY <1>3, <1>4 DEF WeighVersion

(* What every step of a run does to the runs and leaves alone.                *)
Moved(j) ==
    /\ run' \in [Jobs -> Run]
    /\ \A k \in Jobs : k # j => run'[k] = run[k]
    /\ run'[j].pc \in DropSteps => run'[j].member \in Versions
    /\ UNCHANGED <<of, phase, interrupted>>

(* A step of a run is one of a live run and moves only that run.              *)
LEMMA StepMoves ==
    ASSUME TypeInv, NEW j \in Jobs, RunStep(j)
    PROVE  Moved(j) /\ Live(j)
<1>. USE GotoLemma, GotoAsLemma, MoveLemma, IdleLemma
       DEF TypeInv, TypeOK, Moved, Live, Steps, StartSteps, TilerSteps,
           RecordSteps, DropSteps, RetainSteps, FinishSteps, rows, requests, tasks
<1>1. CASE MarkRunning(j)
  BY <1>1 DEF MarkRunning
<1>2. CASE ReadAsset(j)
  BY <1>2, ReadAssetMoves DEF ReadAsset
<1>3. CASE WriteTiling(j)
  BY <1>3 DEF WriteTiling
<1>4. CASE ClearStore(j)
  BY <1>4 DEF ClearStore
<1>5. CASE Download(j)
  BY <1>5 DEF Download
<1>6. CASE ReportProgress(j)
  BY <1>6 DEF ReportProgress, Reporting
<1>7. CASE Downloaded(j)
  BY <1>7 DEF Downloaded
<1>8. CASE TakeTilingLock(j)
  BY <1>8 DEF TakeTilingLock
<1>9. CASE Tiled(j)
  BY <1>9 DEF Tiled
<1>10. CASE RecordOutcome(j)
  BY <1>10 DEF RecordOutcome, Unrecorded, AfterAssetRead, AfterAssetWrite, Run
<1>11. CASE RemoveFiles(j)
  BY <1>11 DEF RemoveFiles
<1>12. CASE WriteAssetOutcome(j)
  BY <1>12 DEF WriteAssetOutcome, Unrecorded, AfterAssetWrite, Run
<1>13. CASE WriteAssetError(j)
  BY <1>13 DEF WriteAssetError
<1>14. CASE ListVersions(j)
  BY <1>14, ListVersionsMoves DEF ListVersions
<1>15. CASE WeighVersion(j)
  BY <1>15, WeighVersionMoves DEF WeighVersion
<1>16. CASE DropVersion(j)
  BY <1>16 DEF DropVersion
<1>17. CASE DropFails(j)
  BY <1>17 DEF DropFails
<1>18. CASE FinishJob(j)
  BY <1>18 DEF FinishJob, Unrecorded
<1>19. CASE FinishFailed(j)
  BY <1>19 DEF FinishFailed, EndRun
<1>20. CASE Tell(j)
  BY <1>20 DEF Tell, EndRun
<1>21. CASE ForgetToken(j)
  BY <1>21 DEF ForgetToken
<1>. QED BY <1>1, <1>2, <1>3, <1>4, <1>5, <1>6, <1>7, <1>8, <1>9, <1>10,
            <1>11, <1>12, <1>13, <1>14, <1>15, <1>16, <1>17, <1>18, <1>19,
            <1>20, <1>21 DEF RunStep

(* The count of failures stays a number.                                      *)
LEMMA FaultsLemma == faults \in Nat /\ (Works \/ Fails) => faults' \in Nat
BY BoundsAssumption DEF Works, Fails

(* A step of a run keeps every kind of value: one case per action.            *)
LEMMA StepTypes ==
    ASSUME TypeInv, NEW j \in Jobs, RunStep(j)
    PROVE  TypeInv'
<1>1. Moved(j) /\ Live(j) /\ of[j] \in Assets
  BY StepMoves DEF TypeInv
<1>. USE KindsAssumption, FaultsLemma, <1>1
     DEF TypeInv, TypeOK, Moved, Live, rows, requests, tasks, Mishap
<1>2. CASE MarkRunning(j)
  BY <1>2 DEF MarkRunning, UpdateJob, JobStatus
<1>3. CASE ReadAsset(j)
  BY <1>3 DEF ReadAsset
<1>4. CASE WriteTiling(j)
  BY <1>4 DEF WriteTiling, UpdateAsset, AssetStatus
<1>5. CASE ClearStore(j)
  <2>1. /\ token' \in [Assets -> Jobs \cup {NoJob}]
        /\ worker' \in Jobs \cup {NoJob}
    BY <1>5 DEF ClearStore
  <2>. QED BY <1>5, <2>1 DEF ClearStore
<1>6. CASE Download(j)
  BY <1>6 DEF Download
<1>7. CASE ReportProgress(j)
  BY <1>7 DEF ReportProgress, UpdateJob, JobStatus
<1>8. CASE Downloaded(j)
  BY <1>8 DEF Downloaded
<1>9. CASE TakeTilingLock(j)
  BY <1>9 DEF TakeTilingLock
<1>10. CASE Tiled(j)
  BY <1>10 DEF Tiled
<1>11. CASE RecordOutcome(j)
  BY <1>11 DEF RecordOutcome, Unrecorded
<1>12. CASE RemoveFiles(j)
  BY <1>12 DEF RemoveFiles
<1>13. CASE WriteAssetOutcome(j)
  BY <1>13
     DEF WriteAssetOutcome, Unrecorded, UpdateAsset, AssetStatus, OutcomeStatus
<1>14. CASE WriteAssetError(j)
  BY <1>14 DEF WriteAssetError, UpdateAsset, AssetStatus
<1>15. CASE ListVersions(j)
  BY <1>15 DEF ListVersions
<1>16. CASE WeighVersion(j)
  BY <1>16 DEF WeighVersion
<1>17. CASE DropVersion(j)
  BY <1>17
     DEF DropVersion, DeleteJobRows, DeleteVersionRow, DeleteAssetRow,
         JobStatus, AssetStatus
<1>18. CASE DropFails(j)
  BY <1>18 DEF DropFails, DropSteps
<1>19. CASE FinishJob(j)
  BY <1>19 DEF FinishJob, Unrecorded, UpdateJob, JobStatus
<1>20. CASE FinishFailed(j)
  BY <1>20 DEF FinishFailed, EndRun, UpdateJob, JobStatus
<1>21. CASE Tell(j)
  <2>1. told' \in [Jobs -> Seq(Events)]
    <3>. DEFINE event == IF run[j].outcome = "ok" THEN "completed" ELSE "failed"
    <3>1. told[j] \in Seq(Events) /\ event \in Events
      BY DEF Events
    <3>2. told' = [told EXCEPT ![j] = Append(told[j], event)] \/ told' = told
      BY <1>21 DEF Tell
    <3>. HIDE DEF event
    <3>3. Append(told[j], event) \in Seq(Events)
      BY <3>1
    <3>. QED BY <3>2, <3>3
  <2>2. worker' \in Jobs \cup {NoJob}
    BY <1>21 DEF Tell, EndRun
  <2>3. Works \/ Fails
    BY <1>21 DEF Tell
  <2>. QED BY <1>21, <2>1, <2>2, <2>3 DEF Tell
<1>22. CASE ForgetToken(j)
  BY <1>22 DEF ForgetToken, TokensWithout
<1>. QED BY <1>2, <1>3, <1>4, <1>5, <1>6, <1>7, <1>8, <1>9, <1>10, <1>11,
            <1>12, <1>13, <1>14, <1>15, <1>16, <1>17, <1>18, <1>19, <1>20,
            <1>21, <1>22 DEF RunStep

(* The inductive form of the type invariant, over every action.               *)
LEMMA TypeInvHolds == Spec => []TypeInv
<1>1. Init => TypeInv
  BY KindsAssumption, IdleLemma
     DEF Init, TypeInv, TypeOK, Live, DropSteps, AssetStatus, JobStatus,
         DeleteSteps
<1>2. TypeInv /\ [Next]_vars => TypeInv'
  <2>. SUFFICES ASSUME TypeInv, [Next]_vars PROVE TypeInv'
    OBVIOUS
  <2>. USE KindsAssumption, FaultsLemma, MoveLemma, IdleLemma
       DEF TypeInv, TypeOK, Live, rows, requests, tasks, Mishap
  <2>1. CASE UNCHANGED vars
    BY <2>1 DEF vars
  <2>2. ASSUME NEW j \in Jobs, RunStep(j) PROVE TypeInv'
    BY <2>2, StepTypes
  <2>3. ASSUME NEW j \in Jobs, Poll(j) PROVE TypeInv'
    <3>. DEFINE r == [Idle EXCEPT !.pc = "start"]
    <3>1. r \in Run /\ r.pc = "start" /\ r.pc \notin DropSteps
      BY DEF Run, Idle, Steps, StartSteps, DropSteps
    <3>2. Move(j, r)
      BY <2>3 DEF Poll
    <3>. HIDE DEF r
    <3>3. run' \in [Jobs -> Run] /\ run'[j] = r
             /\ \A k \in Jobs : k # j => run'[k] = run[k]
      BY <3>1, <3>2
    <3>4. job[j] # "none"
      BY <2>3 DEF Poll, Waiting
    <3>5. worker' = j /\ UNCHANGED <<rows, files, phase, interrupted, token,
             cancelled, tilingLock, requests, told, mishap, faults, crashes>>
      BY <2>3 DEF Poll
    <3>. QED BY <3>1, <3>3, <3>4, <3>5
  <2>4. ASSUME NEW j \in Jobs, FailInterrupted(j) PROVE TypeInv'
    <3>. DEFINE follows == asset[of[j]] # "gone" /\ FollowsJob(of[j])
                r == [Idle EXCEPT !.pc = "record", !.outcome = "err",
                                  !.follows = follows]
    <3>1. follows \in BOOLEAN
      BY DEF FollowsJob
    <3>2. Move(j, r)
      BY <2>4 DEF FailInterrupted
    <3>. HIDE DEF follows
    <3>3. r \in Run /\ r.pc = "record" /\ r.pc \notin DropSteps
      BY <3>1 DEF Run, Idle, Steps, RecordSteps, DropSteps
    <3>. HIDE DEF r
    <3>4. run' \in [Jobs -> Run] /\ run'[j] = r
             /\ \A k \in Jobs : k # j => run'[k] = run[k]
      BY <3>2, <3>3
    <3>5. /\ j \in interrupted /\ interrupted' = interrupted \ {j}
          /\ worker' = j
          /\ UNCHANGED <<rows, files, phase, token, cancelled, tilingLock,
                         requests, told, mishap, faults, crashes>>
      BY <2>4 DEF FailInterrupted
    <3>. QED BY <3>3, <3>4, <3>5
  <2>5. ASSUME NEW j \in Jobs, NEW a \in Assets, Submit(j, a) PROVE TypeInv'
    BY <2>5 DEF Submit, JobStatus
  <2>6. ASSUME NEW js \in SUBSET Jobs, PruneJobs(js) PROVE TypeInv'
    BY <2>6 DEF PruneJobs, JobStatus
  <2>7. ASSUME NEW a \in Assets, Annotate(a) PROVE TypeInv'
    BY <2>7 DEF Annotate
  <2>8. ASSUME NEW a \in Assets, DeleteBegin(a) PROVE TypeInv'
    BY <2>8 DEF DeleteBegin, DeleteSteps
  <2>9. ASSUME NEW a \in Assets, DeleteRows(a) PROVE TypeInv'
    <3>1. job' \in [Jobs -> JobStatus]
             /\ \A k \in Jobs : job'[k] # "none" => job[k] # "none"
      BY <2>9 DEF DeleteRows, DeleteJobRows, JobStatus
    <3>2. asset' \in [Assets -> AssetStatus]
      BY <2>9 DEF DeleteRows, DeleteAssetRow, AssetStatus
    <3>3. versioned' \subseteq Versions
      BY <2>9 DEF DeleteRows, DeleteVersionRow
    <3>4. deleter' \in [Assets -> DeleteSteps]
      BY <2>9 DEF DeleteRows, DeleteSteps
    <3>5. UNCHANGED <<annotated, of, files, phase, tasks, checking, told,
                      mishap, faults, crashes>>
      BY <2>9 DEF DeleteRows
    <3>. QED BY <3>1, <3>2, <3>3, <3>4, <3>5
  <2>10. ASSUME NEW a \in Assets, DeleteFails(a) PROVE TypeInv'
    BY <2>10 DEF DeleteFails, DeleteSteps
  <2>11. ASSUME NEW a \in Assets, DeleteCancels(a) PROVE TypeInv'
    BY <2>11 DEF DeleteCancels, TokenOf, DeleteSteps
  <2>12. ASSUME NEW a \in Assets, DeleteFiles(a) PROVE TypeInv'
    BY <2>12 DEF DeleteFiles, DeleteSteps
  <2>13. CASE Crash
    BY <2>13 DEF Crash, CutShort, DeleteSteps, DropSteps
  <2>14. CASE Startup
    BY <2>14 DEF Startup, RunningRows, AssetStatus
  <2>15. CASE Serve
    BY <2>15 DEF Serve
  <2>16. ASSUME NEW a \in Assets, CutDelete(a) PROVE TypeInv'
    BY <2>16 DEF CutDelete, DeleteSteps
  <2>17. ASSUME NEW a \in Assets, CheckStep(a) PROVE TypeInv'
    BY <2>17 DEF CheckStep, StartCheck, StoreIdsFile, EndCheck
  <2>. QED BY <2>1, <2>2, <2>3, <2>4, <2>5, <2>6, <2>7, <2>8, <2>9, <2>10,
              <2>11, <2>12, <2>13, <2>14, <2>15, <2>16, <2>17 DEF Next, DeleteStep
<1>. QED BY <1>1, <1>2, PTL DEF Spec

(* Every variable of the queue keeps its kind, for any number of assets,      *)
(* jobs, versions, failures and stops.                                        *)
THEOREM TypeCorrect == Spec => []TypeOK
<1>1. TypeInv => TypeOK
  BY DEF TypeInv
<1>. QED BY <1>1, TypeInvHolds, PTL

(* The steps of a run between its first and its last ones that neither hand it*)
(* over nor touch the tiling lock.                                            *)
Quiet(j) ==
    \/ WriteTiling(j) \/ ReadAsset(j) \/ Download(j) \/ ReportProgress(j)
    \/ Downloaded(j) \/ RecordOutcome(j) \/ RemoveFiles(j)
    \/ WriteAssetOutcome(j) \/ WriteAssetError(j) \/ ListVersions(j)
    \/ WeighVersion(j) \/ DropVersion(j) \/ DropFails(j)

(* A quiet step stays with its run, on the same side of the hand-over.        *)
LEMMA QuietMoves ==
    ASSUME TypeInv, NEW j \in Jobs, Quiet(j)
    PROVE  /\ run[j].pc \notin {"idle", "start", "tell", "forgetToken"}
           /\ run'[j].pc \notin {"idle", "start", "tell", "forgetToken",
                                 "finishFailed", "tiling"}
           /\ run'[j].pc \in StartSteps => run[j].pc \in StartSteps
           /\ UNCHANGED <<worker, token, tilingLock>>
<1>. USE GotoLemma, GotoAsLemma
       DEF TypeInv, TypeOK, Steps, StartSteps, TilerSteps,
           RecordSteps, DropSteps, RetainSteps, FinishSteps, rows, requests, tasks
<1>1. CASE WriteTiling(j)
  BY <1>1 DEF WriteTiling
<1>2. CASE ReadAsset(j)
  BY <1>2, ReadAssetMoves DEF ReadAsset
<1>3. CASE Download(j)
  BY <1>3 DEF Download
<1>4. CASE ReportProgress(j)
  BY <1>4 DEF ReportProgress, Reporting
<1>5. CASE Downloaded(j)
  BY <1>5 DEF Downloaded
<1>6. CASE RecordOutcome(j)
  BY <1>6 DEF RecordOutcome, Unrecorded, AfterAssetRead, AfterAssetWrite, Run
<1>7. CASE RemoveFiles(j)
  BY <1>7 DEF RemoveFiles
<1>8. CASE WriteAssetOutcome(j)
  BY <1>8 DEF WriteAssetOutcome, Unrecorded, AfterAssetWrite, Run
<1>9. CASE WriteAssetError(j)
  BY <1>9 DEF WriteAssetError
<1>10. CASE ListVersions(j)
  BY <1>10, ListVersionsMoves DEF ListVersions
<1>11. CASE WeighVersion(j)
  BY <1>11, WeighVersionMoves DEF WeighVersion
<1>12. CASE DropVersion(j)
  BY <1>12 DEF DropVersion
<1>13. CASE DropFails(j)
  BY <1>13 DEF DropFails
<1>. QED BY <1>1, <1>2, <1>3, <1>4, <1>5, <1>6, <1>7, <1>8, <1>9, <1>10,
            <1>11, <1>12, <1>13 DEF Quiet

(* What keeps TaskInv in a step of a run that stays with whoever awaits it:   *)
(* it may take the tiling lock while it is free, or give it back.             *)
LEMMA StayTasks ==
    ASSUME TypeInv, TaskInv, NEW j \in Jobs, Moved(j), Live(j),
           run'[j].pc \notin {"idle", "forgetToken"},
           run'[j].pc \in StartSteps => run[j].pc \in StartSteps,
           UNCHANGED <<worker, token>>,
           \/ /\ run'[j].pc = "tiling"
              /\ tilingLock = NoJob /\ tilingLock' = j
           \/ run'[j].pc # "tiling" /\ UNCHANGED tilingLock
           \/ /\ run'[j].pc # "tiling"
              /\ run[j].pc = "tiling" /\ tilingLock' = NoJob
    PROVE  TaskInv'
<1>. USE DEF Moved, Live
<1>1. \A k \in Jobs : Live(k)' <=> Live(k)
  OBVIOUS
<1>2. UNCHANGED <<of, phase, interrupted, worker, token>>
         /\ interrupted \subseteq Jobs
  BY DEF TypeInv, TypeOK
<1>3. /\ (phase = "starting" => worker = NoJob /\ \A k \in Jobs : ~Live(k))'
      /\ (phase # "recovering" => interrupted = {})'
      /\ (\A k \in interrupted : ~Live(k))'
  BY <1>2 DEF TaskInv
<1>4. (phase # "serving" =>
          /\ \A a \in Assets : token[a] = NoJob
          /\ \A k \in Jobs : run[k].pc \notin StartSteps)'
  BY <1>2 DEF TaskInv
<1>5. /\ (\A k \in Jobs : Live(k) => worker = k \/ token[of[k]] = k)'
      /\ (\A k \in Jobs : worker = k => Live(k) /\ token[of[k]] = NoJob)'
  BY <1>1, <1>2 DEF TaskInv
<1>6. /\ (\A k \in Jobs : run[k].pc \in StartSteps => worker = k)'
      /\ (\A k \in Jobs : run[k].pc = "forgetToken" => worker # k)'
  BY <1>2 DEF TaskInv
<1>7. (\A k \in Jobs : run[k].pc = "tiling" => tilingLock = k)'
  BY IdsAssumption DEF TaskInv
<1>. QED BY <1>3, <1>4, <1>5, <1>6, <1>7 DEF TaskInv

(* A step of a run keeps the worker, the tokens and the lock in order.        *)
LEMMA StepTasks ==
    ASSUME TypeInv, TaskInv, NEW j \in Jobs, RunStep(j)
    PROVE  TaskInv'
<1>1. Moved(j) /\ Live(j) /\ of[j] \in Assets
  BY StepMoves DEF TypeInv
<1>2. /\ run \in [Jobs -> Run] /\ token \in [Assets -> Jobs \cup {NoJob}]
      /\ interrupted \subseteq Jobs
  BY DEF TypeInv, TypeOK
<1>3. phase # "starting"
  BY <1>1 DEF TaskInv
<1>. USE <1>1, <1>2, <1>3, IdsAssumption DEF TaskInv, Moved, Live
<1>4. CASE Quiet(j)
  BY <1>4, QuietMoves, StayTasks
<1>5. CASE MarkRunning(j)
  <2>1. UNCHANGED <<token, tilingLock>> /\ run[j].pc = "start" /\ worker = j
    BY <1>5 DEF MarkRunning, StartSteps
  <2>2. \/ run'[j].pc = "readAsset" /\ UNCHANGED worker
        \/ run'[j].pc = "idle" /\ worker' = NoJob
    BY <1>5, GotoLemma, MoveLemma, IdleLemma DEF MarkRunning, Steps, StartSteps
  <2>. QED BY <2>1, <2>2 DEF StartSteps
<1>6. CASE ClearStore(j)
  <2>1. UNCHANGED tilingLock /\ run[j].pc = "clearStore" /\ worker = j
    BY <1>6 DEF ClearStore, StartSteps
  <2>2. \/ /\ run'[j].pc \in {"record", "awaitTiler"}
           /\ UNCHANGED <<worker, token>>
        \/ /\ run'[j].pc = "download"
           /\ token' = [token EXCEPT ![of[j]] = j] /\ worker' = NoJob
    BY <1>6, GotoLemma, GotoAsLemma
       DEF ClearStore, Steps, RecordSteps, TilerSteps
  <2>3. phase = "serving" /\ token[of[j]] = NoJob
    BY <2>1 DEF StartSteps
  <2>4. CASE /\ UNCHANGED <<worker, token>>
             /\ run'[j].pc \in {"record", "awaitTiler"}
    BY <2>1, <2>4 DEF StartSteps
  <2>5. CASE /\ run'[j].pc = "download"
             /\ token' = [token EXCEPT ![of[j]] = j] /\ worker' = NoJob
    BY <2>1, <2>3, <2>5 DEF StartSteps
  <2>. QED BY <2>2, <2>4, <2>5
<1>7. CASE TakeTilingLock(j)
  <2>1. UNCHANGED <<worker, token>> /\ tilingLock = NoJob
    BY <1>7 DEF TakeTilingLock, TilerFree
  <2>2. \/ run'[j].pc = "tiling" /\ tilingLock' = j
        \/ run'[j].pc = "record" /\ UNCHANGED tilingLock
    BY <1>7, GotoLemma, GotoAsLemma
       DEF TakeTilingLock, Steps, RecordSteps, TilerSteps
  <2>. QED BY <2>1, <2>2, StayTasks DEF StartSteps
<1>8. CASE Tiled(j)
  <2>1. UNCHANGED <<worker, token>> /\ run[j].pc = "tiling"
           /\ tilingLock' = NoJob
    BY <1>8 DEF Tiled
  <2>2. run'[j].pc = "record"
    BY <1>8, GotoAsLemma DEF Tiled, Steps, RecordSteps
  <2>. QED BY <2>1, <2>2, StayTasks DEF StartSteps
<1>9. CASE EndRun(j) /\ UNCHANGED <<token, tilingLock>>
  <2>1. \/ worker = j /\ run'[j].pc = "idle" /\ worker' = NoJob
        \/ worker # j /\ run'[j].pc = "forgetToken" /\ UNCHANGED worker
    BY <1>9, GotoLemma, MoveLemma, IdleLemma DEF EndRun, Steps, FinishSteps
  <2>2. CASE worker = j /\ run'[j].pc = "idle" /\ worker' = NoJob
    <3>1. \A k \in Jobs : k # j => run[k].pc \notin StartSteps
      BY <2>2
    <3>2. (\A k \in Jobs : Live(k) => worker = k \/ token[of[k]] = k)'
      BY <1>9, <2>2
    <3>3. (\A k \in Jobs : run[k].pc = "tiling" => tilingLock = k)'
      BY <1>9, <2>2
    <3>. QED BY <1>9, <2>2, <3>1, <3>2, <3>3 DEF StartSteps
  <2>3. CASE worker # j /\ run'[j].pc = "forgetToken" /\ UNCHANGED worker
    <3>1. (\A k \in Jobs : Live(k) => worker = k \/ token[of[k]] = k)'
      BY <1>9, <2>3
    <3>2. (\A k \in Jobs : worker = k => Live(k) /\ token[of[k]] = NoJob)'
      BY <1>9, <2>3
    <3>3. (\A k \in Jobs : run[k].pc = "tiling" => tilingLock = k)'
      BY <1>9, <2>3
    <3>. QED BY <1>9, <2>3, <3>1, <3>2, <3>3 DEF StartSteps
  <2>. QED BY <2>1, <2>2, <2>3
<1>10. CASE FinishFailed(j)
  <2>1. CASE EndRun(j)
    BY <1>9, <1>10, <2>1 DEF FinishFailed
  <2>2. CASE Goto(j, "tell")
    <3>1. run'[j].pc = "tell"
      BY <2>2, GotoLemma DEF Steps, FinishSteps
    <3>2. UNCHANGED <<token, tilingLock>>
      BY <1>10 DEF FinishFailed
    <3>3. CASE UNCHANGED worker
      BY <3>1, <3>2, <3>3, StayTasks DEF StartSteps
    <3>. QED BY <1>10, <2>1, <1>9, <3>2, <3>3 DEF FinishFailed
  <2>. QED BY <1>10, <2>1, <2>2 DEF FinishFailed
<1>11. CASE Tell(j)
  BY <1>9, <1>11 DEF Tell
<1>12. CASE FinishJob(j)
  <2>1. run'[j].pc \in {"tell", "finishFailed"}
    BY <1>12, GotoLemma, GotoAsLemma
       DEF FinishJob, Unrecorded, Steps, FinishSteps
  <2>2. UNCHANGED <<worker, token, tilingLock>>
    BY <1>12 DEF FinishJob
  <2>. QED BY <2>1, <2>2, StayTasks DEF StartSteps
<1>13. CASE ForgetToken(j)
  <2>1. UNCHANGED <<worker, tilingLock>> /\ worker # j
           /\ run[j].pc = "forgetToken"
           /\ token' = [token EXCEPT ![of[j]] = NoJob]
    BY <1>13 DEF ForgetToken, TokensWithout
  <2>2. run'[j].pc = "idle"
    BY <1>13, MoveLemma, IdleLemma DEF ForgetToken
  <2>3. token[of[j]] = j
    BY <2>1
  <2>. QED BY <2>1, <2>2, <2>3 DEF StartSteps
<1>. QED BY <1>4, <1>5, <1>6, <1>7, <1>8, <1>10, <1>11, <1>12,
            <1>13 DEF RunStep, Quiet

(* TaskInv is an invariant: runs, requests, stops and starts keep it.         *)
LEMMA TaskInvHolds == Spec => []TaskInv
<1>1. Init => TaskInv
  BY IdsAssumption, IdleLemma DEF Init, TaskInv, Live, StartSteps
<1>2. TypeInv /\ TaskInv /\ [Next]_vars => TaskInv'
  <2>. SUFFICES ASSUME TypeInv, TaskInv, [Next]_vars PROVE TaskInv'
    OBVIOUS
  <2>0. /\ run \in [Jobs -> Run] /\ token \in [Assets -> Jobs \cup {NoJob}]
        /\ interrupted \subseteq Jobs
    BY DEF TypeInv, TypeOK
  <2>. USE <2>0, IdsAssumption, IdleLemma DEF TaskInv, Live, rows, requests, tasks
  <2>1. CASE UNCHANGED vars
    BY <2>1 DEF vars
  <2>2. ASSUME NEW j \in Jobs, RunStep(j) PROVE TaskInv'
    BY <2>2, StepTasks
  <2>3. ASSUME NEW j \in Jobs, Poll(j) PROVE TaskInv'
    <3>. DEFINE r == [Idle EXCEPT !.pc = "start"]
    <3>1. r \in Run /\ r.pc = "start"
      BY DEF Run, Idle, Steps, StartSteps
    <3>2. Move(j, r)
      BY <2>3 DEF Poll
    <3>. HIDE DEF r
    <3>3. run'[j].pc = "start" /\ \A k \in Jobs : k # j => run'[k] = run[k]
      BY <3>1, <3>2, MoveLemma
    <3>4. /\ of[j] \notin Reconstructing /\ job[j] # "none"
          /\ phase = "serving" /\ worker = NoJob /\ worker' = j
          /\ UNCHANGED <<of, phase, interrupted, token, tilingLock>>
      BY <2>3 DEF Poll, Waiting
    <3>5. of[j] \in Assets
      BY <3>4 DEF TypeInv
    <3>6. token[of[j]] = NoJob
      BY <3>4, <3>5 DEF Reconstructing
    <3>7. ~Live(j)
      BY <3>4, <3>6
    <3>. QED BY <3>3, <3>4, <3>6, <3>7 DEF StartSteps
  <2>4. ASSUME NEW j \in Jobs, FailInterrupted(j) PROVE TaskInv'
    <3>. DEFINE follows == asset[of[j]] # "gone" /\ FollowsJob(of[j])
                r == [Idle EXCEPT !.pc = "record", !.outcome = "err",
                                  !.follows = follows]
    <3>1. follows \in BOOLEAN
      BY DEF FollowsJob
    <3>2. Move(j, r)
      BY <2>4 DEF FailInterrupted
    <3>. HIDE DEF follows
    <3>3. r \in Run /\ r.pc = "record"
      BY <3>1 DEF Run, Idle, Steps, RecordSteps
    <3>. HIDE DEF r
    <3>4. run'[j].pc = "record" /\ \A k \in Jobs : k # j => run'[k] = run[k]
      BY <3>2, <3>3, MoveLemma
    <3>5. /\ phase = "recovering" /\ worker = NoJob
          /\ j \in interrupted /\ interrupted' = interrupted \ {j}
          /\ worker' = j
          /\ UNCHANGED <<of, phase, token, tilingLock>>
      BY <2>4 DEF FailInterrupted
    <3>6. of[j] \in Assets
      BY <3>5 DEF TypeInv
    <3>7. /\ \A k \in Jobs : ~Live(k)
          /\ \A a \in Assets : token[a] = NoJob
      BY <3>5 DEF TypeInv
    <3>8. /\ (phase # "serving" =>
                 /\ \A a \in Assets : token[a] = NoJob
                 /\ \A k \in Jobs : run[k].pc \notin StartSteps)'
          /\ (\A k \in interrupted : ~Live(k))'
      BY <3>4, <3>5, <3>7 DEF StartSteps
    <3>9. /\ (\A k \in Jobs : Live(k) => worker = k \/ token[of[k]] = k)'
          /\ (\A k \in Jobs : worker = k => Live(k) /\ token[of[k]] = NoJob)'
      BY <3>4, <3>5, <3>6, <3>7
    <3>10. /\ (\A k \in Jobs : run[k].pc \in StartSteps => worker = k)'
           /\ (\A k \in Jobs : run[k].pc = "forgetToken" => worker # k)'
           /\ (\A k \in Jobs : run[k].pc = "tiling" => tilingLock = k)'
      BY <3>4, <3>7 DEF StartSteps
    <3>. QED BY <3>5, <3>8, <3>9, <3>10
  <2>5. ASSUME NEW j \in Jobs, NEW a \in Assets, Submit(j, a) PROVE TaskInv'
    <3>1. /\ of[j] = NoAsset /\ of' = [of EXCEPT ![j] = a]
          /\ UNCHANGED <<phase, run, worker, interrupted, token, tilingLock>>
      BY <2>5 DEF Submit
    <3>2. ~Live(j)
      BY <3>1 DEF TypeInv
    <3>3. \A k \in Jobs : k # j => of'[k] = of[k]
      BY <3>1 DEF TypeInv, TypeOK
    <3>. QED BY <3>1, <3>2, <3>3
  <2>6. ASSUME NEW js \in SUBSET Jobs, PruneJobs(js) PROVE TaskInv'
    BY <2>6 DEF PruneJobs
  <2>7. ASSUME NEW a \in Assets, Annotate(a) PROVE TaskInv'
    BY <2>7 DEF Annotate
  <2>8. ASSUME NEW a \in Assets, DeleteBegin(a) PROVE TaskInv'
    BY <2>8 DEF DeleteBegin
  <2>9. ASSUME NEW a \in Assets, DeleteStep(a) PROVE TaskInv'
    BY <2>9 DEF DeleteStep, DeleteRows, DeleteFails, DeleteCancels, DeleteFiles
  <2>10. CASE Crash
    BY <2>10 DEF Crash, StartSteps
  <2>11. CASE Startup
    BY <2>11 DEF Startup, RunningRows
  <2>12. CASE Serve
    BY <2>12 DEF Serve
  <2>13. ASSUME NEW a \in Assets, CutDelete(a) \/ CheckStep(a) PROVE TaskInv'
    BY <2>13 DEF CutDelete, CheckStep, StartCheck, StoreIdsFile, EndCheck
  <2>. QED BY <2>1, <2>2, <2>3, <2>4, <2>5, <2>6, <2>7, <2>8, <2>9, <2>10,
              <2>11, <2>12, <2>13 DEF Next
<1>. QED BY <1>1, <1>2, TypeInvHolds, PTL DEF Spec

(* Two runs never work in one asset's directory: of the worker's run and the  *)
(* reconstructions, no two have one asset, since a token stands for one run   *)
(* and the worker takes up no asset that has a token.                         *)
THEOREM OneRunPerAssetHolds == Spec => []OneRunPerAsset
<1>1. TypeInv /\ TaskInv => OneRunPerAsset
  BY IdsAssumption DEF TypeInv, TypeOK, TaskInv, OneRunPerAsset
<1>. QED BY <1>1, TypeInvHolds, TaskInvHolds, PTL

(* At most one tiler runs at any moment, the worker's or a reconstruction's:  *)
(* whoever is tiling holds the one lock.                                      *)
THEOREM OneTilerHolds == Spec => []OneTilerAtATime
<1>1. TaskInv => OneTilerAtATime
  BY DEF TaskInv, OneTilerAtATime
<1>. QED BY <1>1, TaskInvHolds, PTL

-----------------------------------------------------------------------------
(* Rows and events                                                            *)

(* A job the step does not run keeps its facts, also when its row goes.       *)
LEMMA OtherRow ==
    ASSUME NEW k \in Jobs, JobInv(k), ToldRow(k),
           job'[k] \in {job[k], "none"}, UNCHANGED <<of, told[k], run[k]>>,
           k \in interrupted' => k \in interrupted
    PROVE  JobInv(k)' /\ ToldRow(k)'
<1>1. JobInv(k)'
  BY DEF JobInv, RowOf
<1>2. ToldRow(k)'
  BY DEF ToldRow
<1>. QED BY <1>1, <1>2

(* A step that stays between a run's first and its last ones keeps them all,  *)
(* whether it writes the row as running again or removes rows.                *)
LEMMA StayRow ==
    ASSUME TypeInv, TaskInv, RowInv, NEW j \in Jobs, Moved(j), Live(j),
           UNCHANGED told,
           \A k \in Jobs : job'[k] \in {job[k], "none"},
           run[j].pc \notin {"idle", "start", "tell", "forgetToken"},
           run'[j].pc \notin {"idle", "start", "tell", "forgetToken",
                              "finishFailed"}
    PROVE  RowInv'
<1>1. ASSUME NEW k \in Jobs PROVE JobInv(k)' /\ ToldRow(k)'
  <2>1. JobInv(k) /\ ToldRow(k)
    BY DEF RowInv
  <2>2. CASE k # j
    BY <2>1, <2>2, OtherRow DEF Moved
  <2>3. CASE k = j
    <3>1. JobInv(k)'
      BY <2>1, <2>3 DEF JobInv, Moved, TaskInv
    <3>2. ToldRow(k)'
      BY <2>1 DEF ToldRow
    <3>. QED BY <3>1, <3>2
  <2>. QED BY <2>2, <2>3
<1>. QED BY <1>1 DEF RowInv

(* A step that only removes rows, or none, is one of the lifecycle.           *)
Removes == \E js \in SUBSET Jobs :
    job' = [k \in Jobs |-> IF k \in js THEN "none" ELSE job[k]]

Promised == Lifecycle!Next \/ UNCHANGED Lifecycle!vars

(* A step that leaves the rows of jobs alone removes none.                    *)
LEMMA NoneRemoved ==
    ASSUME TypeInv, UNCHANGED job
    PROVE  Removes
<1>1. job' = [k \in Jobs |-> IF k \in {} THEN "none" ELSE job[k]]
  BY DEF TypeInv, TypeOK
<1>2. {} \in SUBSET Jobs
  OBVIOUS
<1>. QED BY <1>1, <1>2 DEF Removes

(* Deleting an asset or a version removes the rows of its jobs.               *)
LEMMA RowsOfRemoved ==
    ASSUME TypeInv, NEW a \in Assets, DeleteJobRows(a)
    PROVE  Removes
<1>. DEFINE js == {k \in Jobs : of[k] = a}
<1>1. job' = [k \in Jobs |-> IF k \in js THEN "none" ELSE job[k]]
  BY DEF DeleteJobRows
<1>. QED BY <1>1 DEF Removes

(* A removal is a step of the lifecycle and changes no other row.             *)
LEMMA RemovesPromised ==
    ASSUME Removes, UNCHANGED <<of, told>>
    PROVE  /\ Promised
           /\ \A k \in Jobs : job'[k] \in {job[k], "none"}
<1>1. PICK js \in SUBSET Jobs :
         job' = [k \in Jobs |-> IF k \in js THEN "none" ELSE job[k]]
  BY DEF Removes
<1>2. Lifecycle!Remove(js)
  BY <1>1 DEF Lifecycle!Remove
<1>. QED BY <1>1, <1>2 DEF Promised, Lifecycle!Next

(* The middle of a run writes no row anew: a late progress report finds       *)
(* its job running, or its row gone.                                          *)
LEMMA QuietRows ==
    ASSUME TypeInv, RowInv, NEW j \in Jobs, Quiet(j)
    PROVE  Removes /\ UNCHANGED told
<1>. USE NoneRemoved DEF rows
<1>1. CASE WriteTiling(j)
  BY <1>1 DEF WriteTiling
<1>2. CASE ReadAsset(j)
  BY <1>2 DEF ReadAsset
<1>3. CASE Download(j)
  BY <1>3 DEF Download
<1>4. CASE ReportProgress(j)
  <2>1. job[j] \in {"running", "none"}
    BY <1>4 DEF ReportProgress, Reporting, RowInv, JobInv
  <2>2. UNCHANGED job
    BY <1>4, <2>1 DEF ReportProgress, UpdateJob, TypeInv, TypeOK
  <2>. QED BY <1>4, <2>2 DEF ReportProgress
<1>5. CASE Downloaded(j)
  BY <1>5 DEF Downloaded
<1>6. CASE RecordOutcome(j)
  BY <1>6 DEF RecordOutcome
<1>7. CASE RemoveFiles(j)
  BY <1>7 DEF RemoveFiles
<1>8. CASE WriteAssetOutcome(j)
  BY <1>8 DEF WriteAssetOutcome
<1>9. CASE WriteAssetError(j)
  BY <1>9 DEF WriteAssetError
<1>10. CASE ListVersions(j)
  BY <1>10 DEF ListVersions
<1>11. CASE WeighVersion(j)
  BY <1>11 DEF WeighVersion
<1>12. CASE DropVersion(j)
  <2>1. run[j].member \in Assets
    BY <1>12, KindsAssumption DEF DropVersion, DropSteps, TypeInv
  <2>. QED BY <1>12, <2>1, RowsOfRemoved DEF DropVersion
<1>13. CASE DropFails(j)
  BY <1>13 DEF DropFails
<1>. QED BY <1>1, <1>2, <1>3, <1>4, <1>5, <1>6, <1>7, <1>8, <1>9, <1>10,
            <1>11, <1>12, <1>13 DEF Quiet

(* The row of job j is written, or an event of it is emitted.                 *)
LEMMA WrittenRow ==
    ASSUME TypeInv, RowInv, NEW j \in Jobs, Moved(j),
           \A k \in Jobs : k # j => job'[k] = job[k] /\ told'[k] = told[k],
           JobInv(j)', ToldRow(j)'
    PROVE  RowInv'
<1>1. ASSUME NEW k \in Jobs, k # j PROVE JobInv(k)' /\ ToldRow(k)'
  BY <1>1, OtherRow DEF RowInv, Moved
<1>. QED BY <1>1 DEF RowInv

(* A step of a run keeps rows and events in agreement and is a promised one.  *)
LEMMA StepRows ==
    ASSUME TypeInv, TaskInv, RowInv, NEW j \in Jobs, RunStep(j)
    PROVE  RowInv' /\ Promised
<1>1. /\ Moved(j) /\ Live(j) /\ of[j] \in Assets /\ of[j] # NoAsset
      /\ JobInv(j) /\ ToldRow(j) /\ j \notin interrupted
      /\ UNCHANGED of /\ UNCHANGED interrupted
  BY StepMoves, IdsAssumption DEF TypeInv, TaskInv, RowInv, Moved
<1>2. /\ run \in [Jobs -> Run] /\ job \in [Jobs -> JobStatus]
      /\ told \in [Jobs -> Seq(Events)]
  BY DEF TypeInv, TypeOK
<1>3. CASE Quiet(j)
  <2>1. Removes /\ UNCHANGED told
    BY <1>3, QuietRows
  <2>2. Promised /\ \A k \in Jobs : job'[k] \in {job[k], "none"}
    BY <1>1, <2>1, RemovesPromised
  <2>. QED BY <1>1, <1>3, <2>1, <2>2, QuietMoves, StayRow
<1>4. CASE ClearStore(j) \/ TakeTilingLock(j) \/ Tiled(j)
  <2>1. UNCHANGED <<job, told>>
    BY <1>4 DEF ClearStore, TakeTilingLock, Tiled, rows, requests
  <2>2. run[j].pc \in {"clearStore", "awaitTiler", "tiling"}
    BY <1>4 DEF ClearStore, TakeTilingLock, Tiled
  <2>3. run'[j].pc \in {"record", "download", "awaitTiler", "tiling"}
    BY <1>2, <1>4, GotoLemma, GotoAsLemma
       DEF ClearStore, TakeTilingLock, Tiled, Steps, TilerSteps, RecordSteps
  <2>4. Promised
    BY <1>1, <2>1, NoneRemoved, RemovesPromised
  <2>. QED BY <1>1, <2>1, <2>2, <2>3, <2>4, StayRow
<1>5. CASE MarkRunning(j)
  <2>1. run[j].pc = "start" /\ UNCHANGED told
    BY <1>5 DEF MarkRunning
  <2>2. told[j] = <<>> /\ job[j] \in {"queued", "none"}
    BY <1>1, <2>1 DEF JobInv
  <2>3. CASE UpdateJob(j, "running") /\ Goto(j, "readAsset")
    <3>1. run'[j].pc = "readAsset"
      BY <1>2, <2>3, GotoLemma DEF Steps, StartSteps
    <3>2. CASE job[j] = "none"
      <4>1. UNCHANGED job
        BY <2>3, <3>2 DEF UpdateJob
      <4>2. JobInv(j)' /\ ToldRow(j)'
        BY <1>1, <2>1, <2>2, <3>1, <3>2, <4>1 DEF JobInv, ToldRow
      <4>3. Promised
        BY <1>1, <2>1, <4>1, NoneRemoved, RemovesPromised
      <4>. QED BY <1>1, <2>1, <4>1, <4>2, <4>3, WrittenRow
    <3>3. CASE job[j] = "queued"
      <4>1. job' = [job EXCEPT ![j] = "running"]
        BY <2>3, <3>3 DEF UpdateJob
      <4>2. JobInv(j)' /\ ToldRow(j)'
        BY <1>1, <1>2, <2>1, <2>2, <3>1, <4>1 DEF JobInv, ToldRow
      <4>3. Lifecycle!Start(j)
        BY <1>1, <2>1, <3>3, <4>1 DEF Lifecycle!Start
      <4>. QED BY <1>1, <1>2, <2>1, <4>1, <4>2, <4>3, WrittenRow
               DEF Promised, Lifecycle!Next
    <3>. QED BY <2>2, <3>2, <3>3
  <2>4. CASE UNCHANGED job /\ Move(j, Idle)
    <3>1. run'[j].pc = "idle"
      BY <1>2, <2>4, MoveLemma, IdleLemma
    <3>2. JobInv(j)' /\ ToldRow(j)'
      BY <1>1, <2>1, <2>2, <2>4, <3>1 DEF JobInv, ToldRow
    <3>3. Promised
      BY <1>1, <2>1, <2>4, NoneRemoved, RemovesPromised
    <3>. QED BY <1>1, <2>1, <2>4, <3>2, <3>3, WrittenRow
  <2>. QED BY <1>5, <2>3, <2>4 DEF MarkRunning
<1>6. ASSUME UNCHANGED told, run[j].pc \in {"finish", "finishFailed"},
             run'[j].pc = "tell", run'[j].outcome = run[j].outcome,
             UpdateJob(j, RowOf(run[j].outcome))
      PROVE  RowInv' /\ Promised
  <2>1. told[j] = <<>> /\ job[j] \in {"running", "none"}
    BY <1>1, <1>6 DEF JobInv
  <2>2. CASE job[j] = "none"
    <3>1. UNCHANGED job
      BY <1>6, <2>2 DEF UpdateJob
    <3>2. JobInv(j)' /\ ToldRow(j)'
      BY <1>1, <1>6, <2>1, <2>2, <3>1 DEF JobInv, ToldRow
    <3>3. Promised
      BY <1>1, <1>6, <3>1, NoneRemoved, RemovesPromised
    <3>. QED BY <1>1, <1>6, <3>1, <3>2, <3>3, WrittenRow
  <2>3. CASE job[j] = "running"
    <3>. DEFINE status == RowOf(run[j].outcome)
    <3>1. status \in {"done", "failed"}
      BY DEF RowOf
    <3>2. job' = [job EXCEPT ![j] = status]
      BY <1>6, <2>3 DEF UpdateJob
    <3>3. JobInv(j)' /\ ToldRow(j)'
      BY <1>1, <1>2, <1>6, <2>1, <3>2 DEF JobInv, ToldRow, RowOf
    <3>. HIDE DEF status
    <3>4. Lifecycle!Settle(j)
      BY <1>1, <1>6, <2>3, <3>1, <3>2 DEF Lifecycle!Settle
    <3>. QED BY <1>1, <1>2, <1>6, <3>2, <3>3, <3>4, WrittenRow
             DEF Promised, Lifecycle!Next
  <2>. QED BY <2>1, <2>2, <2>3
<1>7. ASSUME UNCHANGED job, EndRun(j), told[j] = <<>>,
             run[j].pc \in {"finishFailed", "tell"},
             \/ UNCHANGED told
             \/ \E event \in Events :
                   /\ run[j].pc = "tell"
                   /\ event = "completed" <=> run[j].outcome = "ok"
                   /\ told' = [told EXCEPT ![j] = <<event>>]
      PROVE  RowInv' /\ Promised
  <2>1. run'[j].pc \in {"idle", "forgetToken"}
    BY <1>2, <1>7, GotoLemma, MoveLemma, IdleLemma
       DEF EndRun, Steps, FinishSteps
  <2>2. job[j] # "queued"
    BY <1>1, <1>7 DEF JobInv, RowOf
  <2>3. CASE UNCHANGED told
    <3>1. JobInv(j)' /\ ToldRow(j)'
      BY <1>1, <1>7, <2>1, <2>3 DEF JobInv, ToldRow
    <3>2. Promised
      BY <1>1, <1>7, <2>3, NoneRemoved, RemovesPromised
    <3>. QED BY <1>1, <1>7, <2>3, <3>1, <3>2, WrittenRow
  <2>4. ASSUME NEW event \in Events,
               run[j].pc = "tell",
               event = "completed" <=> run[j].outcome = "ok",
               told' = [told EXCEPT ![j] = <<event>>]
        PROVE  RowInv' /\ Promised
    <3>1. job[j] \in {RowOf(run[j].outcome), "none"}
      BY <1>1, <2>4 DEF JobInv
    <3>2. told'[j] = <<event>> /\ \A k \in Jobs : k # j => told'[k] = told[k]
      BY <1>2, <2>4
    <3>3. Len(told'[j]) = 1 /\ Head(told'[j]) = event
      BY <3>2
    <3>4. job[j] # "none" =>
             job[j] = IF event = "completed" THEN "done" ELSE "failed"
      BY <2>4, <3>1 DEF RowOf
    <3>5. ToldRow(j)'
      BY <1>7, <3>3, <3>4 DEF ToldRow
    <3>6. JobInv(j)'
      BY <1>1, <1>7, <2>1, <3>1 DEF JobInv, RowOf
    <3>7. Lifecycle!Tell(j)
      <4>1. /\ event \in DOMAIN Lifecycle!Outcome
            /\ job[j] \in {Lifecycle!Outcome[event], "none"}
        BY <2>4, <3>4 DEF Lifecycle!Outcome, Events
      <4>. QED BY <1>1, <1>7, <2>4, <4>1 DEF Lifecycle!Tell
    <3>. QED BY <1>1, <1>7, <3>2, <3>5, <3>6, <3>7, WrittenRow
             DEF Promised, Lifecycle!Next
  <2>. QED BY <1>7, <2>3, <2>4
<1>8. CASE FinishJob(j)
  <2>1. run[j].pc = "finish" /\ UNCHANGED told
    BY <1>8 DEF FinishJob
  <2>2. CASE /\ UpdateJob(j, IF run[j].outcome = "ok" THEN "done" ELSE "failed")
             /\ Goto(j, "tell")
    BY <1>2, <1>6, <2>1, <2>2, GotoLemma DEF RowOf, Steps, FinishSteps
  <2>3. CASE GotoAs(j, "finishFailed", "err") /\ UNCHANGED job
    <3>1. run'[j].pc = "finishFailed" /\ run'[j].outcome = "err"
      BY <1>2, <2>3, GotoAsLemma DEF Steps, FinishSteps
    <3>2. JobInv(j)' /\ ToldRow(j)'
      BY <1>1, <2>1, <2>3, <3>1 DEF JobInv, ToldRow
    <3>3. Promised
      BY <1>1, <2>1, <2>3, NoneRemoved, RemovesPromised
    <3>. QED BY <1>1, <2>1, <2>3, <3>2, <3>3, WrittenRow
  <2>. QED BY <1>8, <2>2, <2>3 DEF FinishJob, Unrecorded
<1>9. CASE FinishFailed(j)
  <2>1. /\ run[j].pc = "finishFailed" /\ UNCHANGED told
        /\ run[j].outcome = "err" /\ told[j] = <<>>
    BY <1>1, <1>9 DEF FinishFailed, JobInv
  <2>2. CASE UpdateJob(j, "failed") /\ Goto(j, "tell")
    BY <1>2, <1>6, <2>1, <2>2, GotoLemma DEF RowOf, Steps, FinishSteps
  <2>3. CASE UNCHANGED job /\ EndRun(j)
    BY <1>7, <2>1, <2>3
  <2>. QED BY <1>9, <2>2, <2>3 DEF FinishFailed
<1>10. CASE Tell(j)
  <2>1. /\ run[j].pc = "tell" /\ UNCHANGED job /\ told[j] = <<>>
        /\ EndRun(j)
    BY <1>1, <1>10 DEF Tell, JobInv, rows, requests
  <2>. DEFINE event == IF run[j].outcome = "ok" THEN "completed" ELSE "failed"
  <2>2. event \in Events /\ (event = "completed" <=> run[j].outcome = "ok")
    BY DEF Events
  <2>3. UNCHANGED told \/ told' = [told EXCEPT ![j] = Append(told[j], event)]
    BY <1>10 DEF Tell
  <2>. HIDE DEF event
  <2>4. Append(told[j], event) = <<event>>
    BY <2>1
  <2>. QED BY <1>7, <2>1, <2>2, <2>3, <2>4
<1>11. CASE ForgetToken(j)
  <2>1. run[j].pc = "forgetToken" /\ UNCHANGED <<job, told>>
    BY <1>11 DEF ForgetToken, rows, requests
  <2>2. run'[j].pc = "idle"
    BY <1>2, <1>11, MoveLemma, IdleLemma DEF ForgetToken
  <2>3. JobInv(j)' /\ ToldRow(j)'
    BY <1>1, <2>1, <2>2 DEF JobInv, ToldRow
  <2>4. Promised
    BY <1>1, <2>1, NoneRemoved, RemovesPromised
  <2>. QED BY <1>1, <2>1, <2>3, <2>4, WrittenRow
<1>. QED BY <1>3, <1>4, <1>5, <1>8, <1>9, <1>10, <1>11 DEF RunStep, Quiet

(* Every step of the queue keeps rows and events in agreement.                *)
LEMMA RowInvStep ==
    ASSUME TypeInv, TaskInv, RowInv, [Next]_vars
    PROVE  RowInv' /\ Promised
<1>. USE DEF rows, requests, tasks
<1>1. ASSUME UNCHANGED <<of, told, run>>, Removes,
             interrupted' \subseteq interrupted
      PROVE  RowInv' /\ Promised
  <2>1. Promised /\ \A k \in Jobs : job'[k] \in {job[k], "none"}
    BY <1>1, RemovesPromised
  <2>2. ASSUME NEW k \in Jobs PROVE JobInv(k)' /\ ToldRow(k)'
    BY <1>1, <2>1, OtherRow DEF RowInv
  <2>. QED BY <2>1, <2>2 DEF RowInv
<1>2. CASE UNCHANGED vars
  BY <1>1, <1>2, NoneRemoved DEF vars
<1>3. ASSUME NEW j \in Jobs, RunStep(j) PROVE RowInv' /\ Promised
  BY <1>3, StepRows
<1>4. ASSUME NEW j \in Jobs, Poll(j) PROVE RowInv' /\ Promised
  <2>. DEFINE r == [Idle EXCEPT !.pc = "start"]
  <2>1. r \in Run /\ r.pc = "start"
    BY DEF Run, Idle, Steps, StartSteps
  <2>2. Move(j, r)
    BY <1>4 DEF Poll
  <2>. HIDE DEF r
  <2>3. run'[j].pc = "start" /\ \A k \in Jobs : k # j => run'[k] = run[k]
    BY <2>1, <2>2, MoveLemma DEF TypeInv, TypeOK
  <2>4. job[j] = "queued" /\ UNCHANGED <<job, of, told, interrupted>>
    BY <1>4 DEF Poll, Waiting
  <2>5. ASSUME NEW k \in Jobs, k # j PROVE JobInv(k)' /\ ToldRow(k)'
    BY <2>3, <2>4, <2>5, OtherRow DEF RowInv
  <2>6. JobInv(j) /\ ToldRow(j)
    BY DEF RowInv
  <2>7. JobInv(j)' /\ ToldRow(j)'
    BY <2>3, <2>4, <2>6 DEF JobInv, ToldRow
  <2>. QED BY <2>4, <2>5, <2>7, NoneRemoved, RemovesPromised DEF RowInv
<1>5. ASSUME NEW j \in Jobs, FailInterrupted(j) PROVE RowInv' /\ Promised
  <2>. DEFINE follows == asset[of[j]] # "gone" /\ FollowsJob(of[j])
              r == [Idle EXCEPT !.pc = "record", !.outcome = "err",
                                !.follows = follows]
  <2>1. follows \in BOOLEAN
    BY DEF FollowsJob
  <2>2. Move(j, r)
    BY <1>5 DEF FailInterrupted
  <2>. HIDE DEF follows
  <2>3. r \in Run /\ r.pc = "record"
    BY <2>1 DEF Run, Idle, Steps, RecordSteps
  <2>. HIDE DEF r
  <2>4. run'[j].pc = "record" /\ \A k \in Jobs : k # j => run'[k] = run[k]
    BY <2>2, <2>3, MoveLemma DEF TypeInv, TypeOK
  <2>5. /\ j \in interrupted /\ interrupted' = interrupted \ {j}
        /\ UNCHANGED <<job, of, told>>
    BY <1>5 DEF FailInterrupted
  <2>6. ASSUME NEW k \in Jobs, k # j PROVE JobInv(k)' /\ ToldRow(k)'
    BY <2>4, <2>5, <2>6, OtherRow DEF RowInv
  <2>7. JobInv(j) /\ ToldRow(j)
    BY DEF RowInv
  <2>8. JobInv(j)' /\ ToldRow(j)'
    BY <2>4, <2>5, <2>7 DEF JobInv, ToldRow
  <2>. QED BY <2>5, <2>6, <2>8, NoneRemoved, RemovesPromised DEF RowInv
<1>6. ASSUME NEW j \in Jobs, NEW a \in Assets, Submit(j, a)
      PROVE  RowInv' /\ Promised
  <2>1. /\ of[j] = NoAsset /\ a # NoAsset
        /\ job' = [job EXCEPT ![j] = "queued"] /\ of' = [of EXCEPT ![j] = a]
        /\ UNCHANGED <<told, run, interrupted>>
    BY <1>6, IdsAssumption DEF Submit
  <2>2. /\ job \in [Jobs -> JobStatus] /\ of \in [Jobs -> Assets \cup {NoAsset}]
        /\ ~Live(j) /\ j \notin interrupted
    BY <2>1, IdsAssumption DEF TypeInv, TypeOK
  <2>3. JobInv(j) /\ ToldRow(j) /\ told[j] = <<>>
    BY <2>1 DEF RowInv, JobInv
  <2>4. JobInv(j)' /\ ToldRow(j)'
    BY <2>1, <2>2, <2>3 DEF JobInv, ToldRow, Live
  <2>5. \A k \in Jobs : k # j => job'[k] = job[k] /\ of'[k] = of[k]
    BY <2>1, <2>2
  <2>6. ASSUME NEW k \in Jobs, k # j PROVE JobInv(k)' /\ ToldRow(k)'
    <3>1. JobInv(k) /\ ToldRow(k)
      BY DEF RowInv
    <3>. QED BY <2>1, <2>5, <2>6, <3>1 DEF JobInv, ToldRow, RowOf
  <2>7. Lifecycle!Submit(j)
    BY <2>1, <2>2 DEF Lifecycle!Submit
  <2>. QED BY <2>4, <2>6, <2>7 DEF RowInv, Promised, Lifecycle!Next
<1>7. ASSUME NEW js \in SUBSET Jobs, PruneJobs(js) PROVE RowInv' /\ Promised
  BY <1>1, <1>7 DEF PruneJobs, Removes
<1>8. ASSUME NEW a \in Assets, Annotate(a) PROVE RowInv' /\ Promised
  BY <1>1, <1>8, NoneRemoved DEF Annotate
<1>9. ASSUME NEW a \in Assets, DeleteBegin(a) PROVE RowInv' /\ Promised
  BY <1>1, <1>9, NoneRemoved DEF DeleteBegin
<1>10. ASSUME NEW a \in Assets, DeleteStep(a) PROVE RowInv' /\ Promised
  BY <1>1, <1>10, NoneRemoved, RowsOfRemoved
     DEF DeleteStep, DeleteRows, DeleteFails, DeleteCancels, DeleteFiles
<1>11. CASE Crash
  <2>1. /\ UNCHANGED <<job, of, told>> /\ interrupted' = {}
        /\ \A k \in Jobs : run'[k].pc = "idle"
    BY <1>11, IdleLemma DEF Crash
  <2>2. ASSUME NEW k \in Jobs PROVE JobInv(k)' /\ ToldRow(k)'
    <3>1. JobInv(k) /\ ToldRow(k)
      BY DEF RowInv
    <3>. QED BY <2>1, <3>1 DEF JobInv, ToldRow
  <2>. QED BY <2>1, <2>2, NoneRemoved, RemovesPromised DEF RowInv
<1>12. CASE Startup
  <2>1. /\ UNCHANGED <<job, of, told, run>>
        /\ interrupted' = {k \in Jobs : job[k] = "running"}
    BY <1>12 DEF Startup, RunningRows
  <2>2. ASSUME NEW k \in Jobs PROVE JobInv(k)' /\ ToldRow(k)'
    <3>1. JobInv(k) /\ ToldRow(k)
      BY DEF RowInv
    <3>. QED BY <2>1, <3>1 DEF JobInv, ToldRow, RowOf
  <2>. QED BY <2>1, <2>2, NoneRemoved, RemovesPromised DEF RowInv
<1>13. CASE Serve
  BY <1>1, <1>13, NoneRemoved DEF Serve
<1>14. ASSUME NEW a \in Assets, CutDelete(a) \/ CheckStep(a)
       PROVE  RowInv' /\ Promised
  BY <1>1, <1>14, NoneRemoved
     DEF CutDelete, CheckStep, StartCheck, StoreIdsFile, EndCheck
<1>. QED BY <1>2, <1>3, <1>4, <1>5, <1>6, <1>7, <1>8, <1>9, <1>10, <1>11,
            <1>12, <1>13, <1>14 DEF Next

(* RowInv is an invariant of the queue.                                       *)
LEMMA RowInvHolds == Spec => []RowInv
<1>1. Init => RowInv
  BY IdleLemma DEF Init, RowInv, JobInv, ToldRow
<1>2. TypeInv /\ TaskInv /\ RowInv /\ [Next]_vars => RowInv'
  BY RowInvStep
<1>. QED BY <1>1, <1>2, TypeInvHolds, TaskInvHolds, PTL DEF Spec

(* A job is told of at most once, restarts and failed writes included, and    *)
(* never as something else than its row says: a run that may still tell has   *)
(* not been told of, and a start fails only rows that read running.           *)
THEOREM ToldOnce == Spec => []ToldOnceAsRecorded
<1>1. RowInv => ToldOnceAsRecorded
  BY DEF RowInv, ToldRow, ToldOnceAsRecorded
<1>. QED BY <1>1, RowInvHolds, PTL

(* A settled row stays settled: every write of a row as running or settled    *)
(* comes from a run that has not settled it.                                  *)
THEOREM SettledRowsFinal == Spec => SettledIsFinal
<1>. DEFINE Final == \A j \in Jobs :
                job[j] \in Settled => job'[j] \in {job[j], "none"}
<1>1. ASSUME TypeInv, Promised PROVE Final
  <2>. USE DEF Settled
  <2>1. job \in [Jobs -> JobStatus]
    BY <1>1 DEF TypeInv, TypeOK
  <2>2. ASSUME NEW j \in Jobs, Lifecycle!Submit(j) PROVE Final
    <3>1. job[j] = "none" /\ job' = [job EXCEPT ![j] = "queued"]
      BY <1>1, <2>2, IdsAssumption DEF Lifecycle!Submit, TypeInv
    <3>. QED BY <2>1, <3>1
  <2>3. ASSUME NEW j \in Jobs, Lifecycle!Start(j) PROVE Final
    BY <2>1, <2>3 DEF Lifecycle!Start
  <2>4. ASSUME NEW j \in Jobs, Lifecycle!Settle(j) PROVE Final
    BY <2>1, <2>4 DEF Lifecycle!Settle
  <2>5. ASSUME NEW j \in Jobs, Lifecycle!Tell(j) PROVE Final
    BY <2>5 DEF Lifecycle!Tell
  <2>6. ASSUME NEW js \in SUBSET Jobs, Lifecycle!Remove(js) PROVE Final
    BY <2>6 DEF Lifecycle!Remove
  <2>7. CASE UNCHANGED Lifecycle!vars
    BY <2>7 DEF Lifecycle!vars
  <2>. QED BY <1>1, <2>2, <2>3, <2>4, <2>5, <2>6, <2>7
           DEF Promised, Lifecycle!Next
<1>2. TypeInv /\ TaskInv /\ RowInv /\ [Next]_vars => [Final]_vars
  BY <1>1, RowInvStep
<1>. QED BY <1>2, TypeInvHolds, TaskInvHolds, RowInvHolds, PTL
         DEF Spec, SettledIsFinal

(* The queue implements JobLifecycle: every step of it is one of the promised *)
(* steps of a job's row and events, or leaves both alone.                     *)
THEOREM KeepsLifecycle == Spec => LifecycleSpec
<1>1. Init => Lifecycle!Init
  BY DEF Init, Lifecycle!Init
<1>2. TypeInv /\ TaskInv /\ RowInv /\ [Next]_vars
         => [Lifecycle!Next]_Lifecycle!vars
  BY RowInvStep DEF Promised
<1>. QED BY <1>1, <1>2, TypeInvHolds, TaskInvHolds, RowInvHolds, PTL
         DEF Spec, LifecycleSpec, Lifecycle!Spec

-----------------------------------------------------------------------------
(* Statuses and files                                                         *)

(* Where a run has yet to write its outcome, and where one that writes the    *)
(* asset's status may be.                                                     *)
BeforeOutcome == {"clearStore", "record"} \cup TilerSteps
Following     == BeforeOutcome \cup {"writeAsset", "writeError"}

(* What a run knows of its asset's status, by its step: only a run that read  *)
(* a status to follow writes one, none of imagery or CZML does, and a run     *)
(* that is past the asset's row with a good outcome has left it ready.        *)
StatusInv(j) ==
    /\ run[j].pc \in {"writeTiling", "writeAsset"} => run[j].follows
    /\ run[j].pc \in {"writeTiling", "writeAsset", "writeError"}
          => of[j] \notin ServedAsUploaded
    /\ run[j].pc \in BeforeOutcome /\ of[j] \in ServedAsUploaded
          => ~run[j].follows
    /\ run[j].pc = "record" /\ run[j].outcome = "ok"
          => of[j] \notin ServedAsUploaded
    /\ run[j].pc \in BeforeOutcome
          => \/ run[j].follows \/ of[j] \in ServedAsUploaded
             \/ run[j].pc = "record" /\ run[j].outcome = "err"
    /\ run[j].pc \in RetainSteps => run[j].outcome = "ok"
    /\ run[j].pc \in {"removeFiles", "writeError"} => run[j].outcome = "err"
    /\ run[j].pc \in RetainSteps \cup {"finish"} /\ run[j].outcome = "ok"
          => asset[of[j]] \in {"ready", "gone"}
    /\ Live(j) /\ phase # "serving"
          => run[j].outcome = "err" /\ run[j].pc \notin TilerSteps

(* With it, what keeps a status: imagery and CZML never lose theirs, a job    *)
(* with a row has an asset, and nothing is deleted before the server serves.  *)
AssetInv ==
    /\ \A a \in ServedAsUploaded : asset[a] \in {"ready", "gone"}
    /\ \A j \in Jobs : job[j] # "none" => asset[of[j]] # "gone"
    /\ \A a \in Assets : deleter[a] # "idle" => phase = "serving"
    /\ \A j \in Jobs : StatusInv(j)

(* A run that found its asset follows the job from the status it read.        *)
LEMMA ReadAssetFollows ==
    ASSUME run \in [Jobs -> Run], NEW j \in Jobs, ReadAsset(j)
    PROVE  \/ /\ run'[j].pc = "writeTiling" /\ run'[j].follows
              /\ FollowsJob(of[j]) /\ asset[of[j]] # "gone"
           \/ /\ run'[j].pc = "clearStore" /\ ~run'[j].follows
              /\ ~FollowsJob(of[j]) /\ run'[j].outcome = run[j].outcome
           \/ run'[j].pc = "finish" /\ run'[j].outcome = "err"
<1>. DEFINE r(follows, step) ==
                [run[j] EXCEPT !.follows = follows, !.pc = step]
<1>1. \/ /\ asset[of[j]] # "gone"
         /\ Move(j, r(FollowsJob(of[j]),
                      IF FollowsJob(of[j]) THEN "writeTiling" ELSE "clearStore"))
      \/ GotoAs(j, "finish", "err")
  BY DEF ReadAsset
<1>2. "finish" \in Steps /\ "writeTiling" \in Steps /\ "clearStore" \in Steps
  BY DEF Steps, StartSteps, FinishSteps
<1>3. FollowsJob(of[j]) \in BOOLEAN
  BY DEF FollowsJob
<1>4. ASSUME NEW follows \in BOOLEAN, NEW step \in Steps
      PROVE  /\ r(follows, step) \in Run
             /\ r(follows, step).pc = step
             /\ r(follows, step).follows = follows
             /\ r(follows, step).outcome = run[j].outcome
  BY DEF Run
<1>. HIDE DEF r
<1>5. CASE GotoAs(j, "finish", "err")
  BY <1>2, <1>5, GotoAsLemma
<1>6. CASE /\ asset[of[j]] # "gone"
           /\ FollowsJob(of[j]) /\ Move(j, r(TRUE, "writeTiling"))
  <2>1. /\ r(TRUE, "writeTiling") \in Run
        /\ r(TRUE, "writeTiling").pc = "writeTiling"
        /\ r(TRUE, "writeTiling").follows = TRUE
    BY <1>2, <1>4
  <2>2. run'[j] = r(TRUE, "writeTiling")
    BY <1>6, <2>1, MoveLemma
  <2>. QED BY <1>6, <2>1, <2>2
<1>7. CASE ~FollowsJob(of[j]) /\ Move(j, r(FALSE, "clearStore"))
  <2>1. /\ r(FALSE, "clearStore") \in Run
        /\ r(FALSE, "clearStore").pc = "clearStore"
        /\ r(FALSE, "clearStore").follows = FALSE
        /\ r(FALSE, "clearStore").outcome = run[j].outcome
    BY <1>2, <1>4
  <2>2. run'[j] = r(FALSE, "clearStore")
    BY <1>7, <2>1, MoveLemma
  <2>. QED BY <1>7, <2>1, <2>2
<1>8. /\ FollowsJob(of[j]) => FollowsJob(of[j]) = TRUE
      /\ ~FollowsJob(of[j]) => FollowsJob(of[j]) = FALSE
  BY <1>3
<1>. QED BY <1>1, <1>5, <1>6, <1>7, <1>8

(* A start takes up an interrupted job where its outcome is recorded.         *)
LEMMA FailInterruptedMoves ==
    ASSUME run \in [Jobs -> Run], NEW j \in Jobs, FailInterrupted(j)
    PROVE  /\ run' \in [Jobs -> Run]
           /\ \A k \in Jobs : k # j => run'[k] = run[k]
           /\ run'[j].pc = "record" /\ run'[j].outcome = "err"
           /\ run'[j].follows <=> asset[of[j]] # "gone" /\ FollowsJob(of[j])
<1>. DEFINE follows == asset[of[j]] # "gone" /\ FollowsJob(of[j])
            r == [Idle EXCEPT !.pc = "record", !.outcome = "err",
                              !.follows = follows]
<1>1. follows \in BOOLEAN
  BY DEF FollowsJob
<1>2. Move(j, r)
  BY DEF FailInterrupted
<1>3. follows <=> asset[of[j]] # "gone" /\ FollowsJob(of[j])
  OBVIOUS
<1>. HIDE DEF follows
<1>4. r \in Run /\ r.pc = "record" /\ r.outcome = "err" /\ r.follows = follows
  BY <1>1 DEF Run, Idle, Steps, RecordSteps
<1>. HIDE DEF r
<1>5. /\ run' \in [Jobs -> Run] /\ run'[j] = r
      /\ \A k \in Jobs : k # j => run'[k] = run[k]
  BY <1>2, <1>4, MoveLemma
<1>6. run'[j].follows = follows
  BY <1>4, <1>5
<1>. QED BY <1>3, <1>4, <1>5, <1>6

(* The worker takes up a job at its first step.                               *)
LEMMA PollMoves ==
    ASSUME run \in [Jobs -> Run], NEW j \in Jobs, Poll(j)
    PROVE  /\ run' \in [Jobs -> Run]
           /\ \A k \in Jobs : k # j => run'[k] = run[k]
           /\ run'[j].pc = "start"
<1>. DEFINE r == [Idle EXCEPT !.pc = "start"]
<1>1. r \in Run /\ r.pc = "start"
  BY DEF Run, Idle, Steps, StartSteps
<1>2. Move(j, r)
  BY DEF Poll
<1>. HIDE DEF r
<1>. QED BY <1>1, <1>2, MoveLemma

(* The status a step of a run writes: its own asset's, where the step is one  *)
(* that writes it, or that of the version it removes, which has no job.       *)
WritesOwn(j) ==
    /\ run[j].pc \in {"writeTiling", "writeAsset", "writeError"}
    /\ asset[of[j]] # "gone"
    /\ \E status \in {"tiling", "ready", "error"} :
          asset' = [asset EXCEPT ![of[j]] = status]
DropsRow(j) ==
    /\ run[j].pc = "dropRow" /\ ~HasJobRow(run[j].member)
    /\ asset' = [asset EXCEPT ![run[j].member] = "gone"]

(* A step of a run that changes the status of any asset is one of those two.  *)
LEMMA StepStatuses ==
    ASSUME TypeInv, NEW j \in Jobs, RunStep(j)
    PROVE  UNCHANGED asset \/ WritesOwn(j) \/ DropsRow(j)
<1>. USE DEF rows, requests
<1>1. CASE WriteTiling(j)
  BY <1>1 DEF WriteTiling, UpdateAsset, WritesOwn
<1>2. CASE WriteAssetOutcome(j)
  BY <1>2 DEF WriteAssetOutcome, UpdateAsset, OutcomeStatus, WritesOwn
<1>3. CASE WriteAssetError(j)
  BY <1>3 DEF WriteAssetError, UpdateAsset, WritesOwn
<1>4. CASE DropVersion(j)
  BY <1>4 DEF DropVersion, DeleteAssetRow, Referenced, DropsRow
<1>. QED BY <1>1, <1>2, <1>3, <1>4
         DEF RunStep, MarkRunning, ReadAsset, ClearStore, Download,
             ReportProgress, Downloaded, TakeTilingLock, Tiled, RecordOutcome,
             RemoveFiles, ListVersions, WeighVersion, DropFails, FinishJob,
             FinishFailed, Tell, ForgetToken

(* Whatever changes a status beside a live run leaves that run's asset alone  *)
(* or deletes it, and its facts hold on.                                      *)
LEMMA OtherStatus ==
    ASSUME NEW k \in Jobs, StatusInv(k), UNCHANGED run[k],
           Live(k) => /\ UNCHANGED of[k]
                      /\ asset'[of[k]] \in {asset[of[k]], "gone"}
                      /\ UNCHANGED phase
    PROVE  StatusInv(k)'
BY DEF StatusInv, Live, BeforeOutcome, TilerSteps, RetainSteps, DropSteps

(* A step of a run keeps what the run knows of its asset's status.            *)
LEMMA StepStatusInv ==
    ASSUME TypeInv, TaskInv, AssetInv, NEW j \in Jobs, RunStep(j)
    PROVE  StatusInv(j)'
<1>1. /\ Moved(j) /\ Live(j) /\ of[j] \in Assets /\ StatusInv(j)
      /\ run \in [Jobs -> Run] /\ asset \in [Assets -> AssetStatus]
      /\ versioned \subseteq Versions
      /\ asset[of[j]] \in AssetStatus /\ run[j].outcome \in {"ok", "err"}
  BY StepMoves DEF TypeInv, TypeOK, AssetInv, Run
<1>2. /\ UNCHANGED <<of, phase>>
      /\ of[j] \in ServedAsUploaded => asset[of[j]] \in {"ready", "gone"}
      /\ phase # "serving" => /\ run[j].outcome = "err"
                              /\ run[j].pc \notin TilerSteps
      /\ phase # "serving" => run[j].pc \notin StartSteps
  BY <1>1 DEF Moved, AssetInv, StatusInv, TaskInv
<1>. USE <1>1, <1>2, GotoLemma, GotoAsLemma, MoveLemma, IdleLemma
       DEF StatusInv, BeforeOutcome, Live, Steps, StartSteps, TilerSteps,
           RecordSteps, DropSteps, RetainSteps, FinishSteps, rows, requests
<1>3. CASE MarkRunning(j)
  BY <1>3 DEF MarkRunning
<1>4. CASE ReadAsset(j)
  BY <1>4, ReadAssetFollows DEF ReadAsset, FollowsJob
<1>5. CASE WriteTiling(j)
  BY <1>5 DEF WriteTiling
<1>6. CASE ClearStore(j)
  BY <1>6 DEF ClearStore
<1>7. CASE Download(j)
  BY <1>7 DEF Download
<1>8. CASE ReportProgress(j)
  BY <1>8 DEF ReportProgress, tasks
<1>9. CASE Downloaded(j)
  BY <1>9 DEF Downloaded
<1>10. CASE TakeTilingLock(j)
  BY <1>10 DEF TakeTilingLock
<1>11. CASE Tiled(j)
  <2>1. UNCHANGED asset
    BY <1>11 DEF Tiled
  <2>2. run[j].pc = "tiling"
    BY <1>11 DEF Tiled
  <2>3. CASE of[j] \notin ServedAsUploaded /\ GotoAs(j, "record", "ok")
    <3>1. /\ run'[j].pc = "record" /\ run'[j].outcome = "ok"
          /\ run'[j].follows = run[j].follows
      BY <2>3
    <3>2. run[j].follows
      BY <2>2, <2>3
    <3>. QED BY <2>1, <2>2, <2>3, <3>1, <3>2
  <2>4. CASE GotoAs(j, "record", "err")
    BY <2>1, <2>2, <2>4
  <2>. QED BY <1>11, <2>3, <2>4 DEF Tiled, HasTiler
<1>12. CASE RecordOutcome(j)
  BY <1>12 DEF RecordOutcome, Unrecorded, AfterAssetRead, AfterAssetWrite
<1>13. CASE RemoveFiles(j)
  BY <1>13 DEF RemoveFiles
<1>14. CASE WriteAssetOutcome(j)
  BY <1>14 DEF WriteAssetOutcome, Unrecorded, AfterAssetWrite, UpdateAsset,
               OutcomeStatus
<1>15. CASE WriteAssetError(j)
  BY <1>15 DEF WriteAssetError
<1>16. CASE ListVersions(j)
  BY <1>16, ListVersionsMoves DEF ListVersions
<1>17. CASE WeighVersion(j)
  BY <1>17, WeighVersionMoves DEF WeighVersion
<1>18. CASE DropVersion(j)
  BY <1>18 DEF DropVersion, DeleteAssetRow
<1>19. CASE DropFails(j)
  BY <1>19 DEF DropFails
<1>20. CASE FinishJob(j)
  BY <1>20 DEF FinishJob, Unrecorded
<1>21. CASE FinishFailed(j)
  BY <1>21 DEF FinishFailed, EndRun
<1>22. CASE Tell(j)
  BY <1>22 DEF Tell, EndRun
<1>23. CASE ForgetToken(j)
  BY <1>23 DEF ForgetToken
<1>. QED BY <1>3, <1>4, <1>5, <1>6, <1>7, <1>8, <1>9, <1>10, <1>11, <1>12,
            <1>13, <1>14, <1>15, <1>16, <1>17, <1>18, <1>19, <1>20, <1>21,
            <1>22, <1>23 DEF RunStep
(* A run writes rows that are there and makes none.                           *)
LEMMA StepMakesNoRow ==
    ASSUME TypeInv, NEW j \in Jobs, RunStep(j), NEW k \in Jobs, job[k] = "none"
    PROVE  job'[k] = "none"
<1>. USE DEF rows, requests, UpdateJob, TypeInv, TypeOK
<1>1. CASE MarkRunning(j)
  BY <1>1 DEF MarkRunning
<1>2. CASE ReportProgress(j)
  BY <1>2 DEF ReportProgress
<1>3. CASE FinishJob(j)
  BY <1>3 DEF FinishJob
<1>4. CASE FinishFailed(j)
  BY <1>4 DEF FinishFailed
<1>5. CASE DropVersion(j)
  BY <1>5 DEF DropVersion, DeleteJobRows
<1>. QED BY <1>1, <1>2, <1>3, <1>4, <1>5
         DEF RunStep, ReadAsset, WriteTiling, ClearStore, Download, Downloaded,
             TakeTilingLock, Tiled, RecordOutcome, RemoveFiles,
             WriteAssetOutcome, WriteAssetError, ListVersions, WeighVersion,
             DropFails, Tell, ForgetToken

(* A step of a run keeps AssetInv: it writes no status of imagery or CZML, no *)
(* other run works on its asset, and it removes no asset that has a job.      *)
LEMMA StepAssets ==
    ASSUME TypeInv, TaskInv, AssetInv, NEW j \in Jobs, RunStep(j)
    PROVE  AssetInv'
<1>1. /\ Moved(j) /\ Live(j) /\ of[j] \in Assets
      /\ StatusInv(j) /\ StatusInv(j)'
      /\ asset \in [Assets -> AssetStatus]
      /\ UNCHANGED <<of, phase>>
  BY StepMoves, StepStatusInv DEF TypeInv, TypeOK, AssetInv, Moved
<1>2. UNCHANGED asset \/ WritesOwn(j) \/ DropsRow(j)
  BY StepStatuses
<1>3. \A k \in Jobs : k # j /\ Live(k) => of[k] # of[j] /\ of[k] \in Assets
  BY <1>1, IdsAssumption DEF TypeInv, TypeOK, TaskInv
<1>4. UNCHANGED deleter
  BY DEF RunStep, MarkRunning, ReadAsset, WriteTiling, ClearStore, Download,
         ReportProgress, Downloaded, TakeTilingLock, Tiled, RecordOutcome,
         RemoveFiles, WriteAssetOutcome, WriteAssetError, ListVersions,
         WeighVersion, DropVersion, DropFails, FinishJob, FinishFailed, Tell,
         ForgetToken, requests
<1>5. \A a \in ServedAsUploaded : asset'[a] \in {asset[a], "gone"}
  BY <1>1, <1>2, KindsAssumption DEF WritesOwn, DropsRow, StatusInv
<1>6. ASSUME NEW k \in Jobs, job'[k] # "none" PROVE asset'[of'[k]] # "gone"
  <2>1. job[k] # "none" /\ of'[k] = of[k]
    BY <1>1, <1>6, StepMakesNoRow
  <2>2. asset[of[k]] # "gone" /\ of[k] \in Assets /\ HasJobRow(of[k])
    BY <2>1 DEF AssetInv, TypeInv, HasJobRow
  <2>. QED BY <1>1, <1>2, <2>1, <2>2 DEF WritesOwn, DropsRow
<1>7. ASSUME NEW k \in Jobs, k # j PROVE StatusInv(k)'
  <2>1. StatusInv(k) /\ UNCHANGED run[k]
    BY <1>1, <1>7 DEF AssetInv, Moved
  <2>2. Live(k) => asset'[of[k]] \in {asset[of[k]], "gone"}
    BY <1>1, <1>2, <1>3, <1>7 DEF WritesOwn, DropsRow
  <2>. QED BY <1>1, <2>1, <2>2, OtherStatus
<1>. QED BY <1>1, <1>4, <1>5, <1>6, <1>7 DEF AssetInv

(* AssetInv is an invariant of the queue.                                     *)
LEMMA AssetInvHolds == Spec => []AssetInv
<1>1. Init => AssetInv
  BY IdleLemma
     DEF Init, AssetInv, StatusInv, Live, BeforeOutcome, TilerSteps,
         RetainSteps, DropSteps
<1>2. TypeInv /\ TaskInv /\ AssetInv /\ [Next]_vars => AssetInv'
  <2>. SUFFICES ASSUME TypeInv, TaskInv, AssetInv, [Next]_vars PROVE AssetInv'
    OBVIOUS
  <2>0. /\ run \in [Jobs -> Run] /\ asset \in [Assets -> AssetStatus]
        /\ job \in [Jobs -> JobStatus] /\ deleter \in [Assets -> DeleteSteps]
        /\ \A k \in Jobs : StatusInv(k)
        /\ \A k \in Jobs : Live(k) => of[k] \in Assets
        /\ \A k \in Jobs : job[k] # "none" => of[k] \in Assets
    BY DEF TypeInv, TypeOK, AssetInv
  <2>. USE <2>0, IdsAssumption, KindsAssumption DEF rows, requests, tasks
  <2>1. ASSUME UNCHANGED <<asset, of, run, phase, deleter>>,
               \A k \in Jobs : job[k] = "none" => job'[k] = "none"
        PROVE  AssetInv'
    <3>1. \A k \in Jobs : StatusInv(k)'
      BY <2>1, OtherStatus
    <3>. QED BY <2>1, <3>1 DEF AssetInv
  <2>2. CASE UNCHANGED vars
    BY <2>1, <2>2 DEF vars
  <2>3. ASSUME NEW j \in Jobs, RunStep(j) PROVE AssetInv'
    BY <2>3, StepAssets
  <2>4. ASSUME NEW j \in Jobs, Poll(j) PROVE AssetInv'
    <3>1. /\ UNCHANGED <<asset, of, job, phase, deleter>> /\ phase = "serving"
          /\ run'[j].pc = "start"
          /\ \A k \in Jobs : k # j => run'[k] = run[k]
      BY <2>4, PollMoves DEF Poll
    <3>2. ASSUME NEW k \in Jobs, k # j PROVE StatusInv(k)'
      BY <3>1, <3>2, OtherStatus
    <3>3. StatusInv(j)'
      BY <3>1 DEF StatusInv, Live, BeforeOutcome, TilerSteps, RetainSteps,
                  DropSteps
    <3>. QED BY <3>1, <3>2, <3>3 DEF AssetInv
  <2>5. ASSUME NEW j \in Jobs, FailInterrupted(j) PROVE AssetInv'
    <3>1. /\ UNCHANGED <<asset, of, job, phase, deleter>>
          /\ j \in interrupted
      BY <2>5 DEF FailInterrupted
    <3>2. /\ run'[j].pc = "record" /\ run'[j].outcome = "err"
          /\ run'[j].follows <=> asset[of[j]] # "gone" /\ FollowsJob(of[j])
          /\ \A k \in Jobs : k # j => run'[k] = run[k]
      BY <2>5, FailInterruptedMoves
    <3>3. of[j] \in ServedAsUploaded => ~run'[j].follows
      BY <3>1, <3>2 DEF FollowsJob, AssetInv
    <3>4. ASSUME NEW k \in Jobs, k # j PROVE StatusInv(k)'
      BY <3>1, <3>2, <3>4, OtherStatus
    <3>5. StatusInv(j)'
      BY <3>1, <3>2, <3>3 DEF StatusInv, Live, BeforeOutcome, TilerSteps,
                              RetainSteps, DropSteps
    <3>. QED BY <3>1, <3>4, <3>5 DEF AssetInv
  <2>6. ASSUME NEW j \in Jobs, NEW a \in Assets, Submit(j, a) PROVE AssetInv'
    <3>1. /\ of[j] = NoAsset /\ of' = [of EXCEPT ![j] = a]
          /\ asset[a] # "gone" /\ job' = [job EXCEPT ![j] = "queued"]
          /\ UNCHANGED <<asset, run, phase, deleter>>
      BY <2>6 DEF Submit
    <3>2. of \in [Jobs -> Assets \cup {NoAsset}] /\ ~Live(j)
      BY <3>1 DEF TypeInv, TypeOK
    <3>3. ASSUME NEW k \in Jobs PROVE StatusInv(k)'
      BY <3>1, <3>2, OtherStatus
    <3>. QED BY <3>1, <3>2, <3>3 DEF AssetInv
  <2>7. ASSUME NEW js \in SUBSET Jobs, PruneJobs(js) PROVE AssetInv'
    BY <2>1, <2>7 DEF PruneJobs
  <2>8. ASSUME NEW a \in Assets, Annotate(a) PROVE AssetInv'
    BY <2>1, <2>8 DEF Annotate
  <2>9. ASSUME NEW a \in Assets, DeleteBegin(a) \/ DeleteStep(a) \/ CutDelete(a)
        PROVE  AssetInv'
    <3>1. /\ UNCHANGED <<of, run, phase>>
          /\ \A k \in Jobs : job[k] = "none" => job'[k] = "none"
          /\ phase = "serving"
          /\ asset' = asset \/ /\ ~HasJobRow(a) /\ UNCHANGED job
                               /\ asset' = [asset EXCEPT ![a] = "gone"]
      BY <2>9 DEF DeleteBegin, DeleteStep, DeleteRows, DeleteFails,
                  DeleteCancels, DeleteFiles, CutDelete, DeleteJobRows,
                  DeleteAssetRow, Referenced, AssetInv
    <3>2. ASSUME NEW k \in Jobs PROVE StatusInv(k)'
      BY <3>1, OtherStatus
    <3>. QED BY <3>1, <3>2 DEF AssetInv, HasJobRow
  <2>10. CASE Crash
    <3>1. /\ UNCHANGED <<asset, of, job>>
          /\ \A a \in Assets : deleter'[a] = "idle"
          /\ \A k \in Jobs : run'[k].pc = "idle"
      BY <2>10, IdleLemma DEF Crash
    <3>2. ASSUME NEW k \in Jobs PROVE StatusInv(k)'
      BY <3>1 DEF StatusInv, Live, BeforeOutcome, TilerSteps, RetainSteps,
                  DropSteps
    <3>. QED BY <3>1, <3>2 DEF AssetInv
  <2>11. CASE Startup
    <3>1. /\ phase = "starting" /\ UNCHANGED <<of, job, run, deleter>>
          /\ \A a \in Assets : asset'[a] \in {asset[a], "error"}
          /\ \A a \in Assets : asset[a] # "uploading" => asset'[a] = asset[a]
      BY <2>11 DEF Startup
    <3>2. \A k \in Jobs : ~Live(k)
      BY <3>1 DEF TaskInv
    <3>3. ASSUME NEW k \in Jobs PROVE StatusInv(k)'
      BY <3>1, <3>2, OtherStatus
    <3>. QED BY <3>1, <3>3 DEF AssetInv
  <2>12. CASE Serve
    <3>1. /\ UNCHANGED <<asset, of, job, run, deleter>>
          /\ phase' = "serving"
      BY <2>12 DEF Serve
    <3>2. ASSUME NEW k \in Jobs PROVE StatusInv(k)'
      BY <3>1 DEF StatusInv, Live
    <3>. QED BY <3>1, <3>2 DEF AssetInv
  <2>13. ASSUME NEW a \in Assets, CheckStep(a) PROVE AssetInv'
    BY <2>1, <2>13 DEF CheckStep, StartCheck, StoreIdsFile, EndCheck
  <2>. QED BY <2>2, <2>3, <2>4, <2>5, <2>6, <2>7, <2>8, <2>9, <2>10, <2>11,
              <2>12, <2>13 DEF Next
<1>. QED BY <1>1, <1>2, TypeInvHolds, TaskInvHolds, PTL DEF Spec
(* Imagery and CZML are served as uploaded: no job of one, failed or redone   *)
(* by a start, takes its ready status from it.                                *)
THEOREM UploadedStay == Spec => UploadedStaysReady
<1>1. AssetInv' => \A a \in ServedAsUploaded :
         asset[a] = "ready" => asset'[a] \in {"ready", "gone"}
  BY DEF AssetInv
<1>. QED BY <1>1, AssetInvHolds, PTL DEF UploadedStaysReady

(* The one write of a row as done is that of a run at its end.                *)
LEMMA DoneByFinish ==
    ASSUME TypeInv, [Next]_vars, NEW j \in Jobs, job[j] # "done",
           job'[j] = "done"
    PROVE  run[j].pc = "finish" /\ run[j].outcome = "ok"
<1>. USE DEF rows, requests, UpdateJob, DeleteJobRows, TypeInv, TypeOK
<1>1. ASSUME NEW k \in Jobs, RunStep(k)
      PROVE  run[j].pc = "finish" /\ run[j].outcome = "ok"
  <2>1. CASE FinishJob(k)
    BY <2>1 DEF FinishJob
  <2>2. CASE MarkRunning(k)
    BY <2>2 DEF MarkRunning
  <2>3. CASE ReportProgress(k)
    BY <2>3 DEF ReportProgress
  <2>4. CASE FinishFailed(k)
    BY <2>4 DEF FinishFailed
  <2>5. CASE DropVersion(k)
    BY <2>5 DEF DropVersion
  <2>. QED BY <1>1, <2>1, <2>2, <2>3, <2>4, <2>5
           DEF RunStep, ReadAsset, WriteTiling, ClearStore, Download,
               Downloaded, TakeTilingLock, Tiled, RecordOutcome, RemoveFiles,
               WriteAssetOutcome, WriteAssetError, ListVersions, WeighVersion,
               DropFails, Tell, ForgetToken
<1>2. ASSUME NEW k \in Jobs, NEW a \in Assets, Submit(k, a) PROVE FALSE
  BY <1>2 DEF Submit
<1>3. ASSUME NEW a \in Assets, DeleteStep(a) PROVE FALSE
  BY <1>3 DEF DeleteStep, DeleteRows, DeleteFails, DeleteCancels, DeleteFiles
<1>4. ASSUME NEW js \in SUBSET Jobs, PruneJobs(js) PROVE FALSE
  BY <1>4 DEF PruneJobs
<1>. QED BY <1>1, <1>2, <1>3, <1>4
         DEF Next, vars, Poll, FailInterrupted, Annotate, DeleteBegin, CutDelete,
             CheckStep, StartCheck, StoreIdsFile, EndCheck, Crash, Startup, Serve

(* A client that reads a job Done and its asset straight after finds the      *)
(* asset ready or gone: a run ends well only past a ready status it wrote, and*)
(* no other run of that asset, nor a start, takes the status away meanwhile.  *)
THEOREM DoneFollowsAsset == Spec => DoneAfterAsset
<1>1. TypeInv /\ AssetInv /\ [Next]_vars
         => \A j \in Jobs : job[j] # "done" /\ job'[j] = "done"
                               => asset[of[j]] \in {"ready", "gone"}
  BY DoneByFinish DEF AssetInv, StatusInv
<1>. QED BY <1>1, TypeInvHolds, AssetInvHolds, PTL DEF Spec, DoneAfterAsset

-----------------------------------------------------------------------------
(* A run that will yet write the status it left tiling, or a row the next     *)
(* start will fail for it.                                                    *)
Owes(j) ==
    \/ run[j].pc \in Following /\ run[j].follows
    \/ phase = "starting" /\ job[j] = "running"
    \/ j \in interrupted /\ job[j] = "running"

TilingOwed ==
    \A a \in Assets : asset[a] = "tiling" /\ a \notin mishap =>
        \E j \in Jobs : of[j] = a /\ Owes(j)

(* The steps of a run that may have written its asset's directory and looks   *)
(* at the asset's row again, or removes the directory, before it ends.        *)
WritingSteps == {"downloading", "awaitTiler", "tiling", "record", "removeFiles"}

FilesOwed ==
    \A a \in Assets : asset[a] = "gone" /\ a \in files /\ a \notin mishap =>
        \/ deleter[a] \in {"cancel", "files"}
        \/ \E j \in Jobs : of[j] = a /\ run[j].pc \in WritingSteps
        \/ \E j \in Jobs : run[j].pc = "dropFiles" /\ run[j].member = a

(* What was left behind once stays marked.                                    *)
LEMMA MishapGrows == TypeInv /\ [Next]_vars => mishap \subseteq mishap'
BY DEF Next, vars, Mishap, RunStep, MarkRunning, ReadAsset, WriteTiling,
       ClearStore, Download, ReportProgress, Downloaded, TakeTilingLock, Tiled,
       RecordOutcome, RemoveFiles, WriteAssetOutcome, WriteAssetError,
       ListVersions, WeighVersion, DropVersion, DropFails, FinishJob,
       FinishFailed, Tell, ForgetToken, Poll, FailInterrupted, Submit,
       PruneJobs, Annotate, DeleteBegin, DeleteStep, DeleteRows, DeleteFails,
       DeleteCancels, DeleteFiles, CutDelete, CheckStep, StartCheck,
       StoreIdsFile, EndCheck, Crash, Startup, Serve

(* Before the server serves, a run writes no row but its own.                 *)
LEMMA StepRowsElsewhere ==
    ASSUME TypeInv, AssetInv, NEW j \in Jobs, RunStep(j), phase # "serving",
           NEW k \in Jobs, k # j
    PROVE  job'[k] = job[k]
<1>1. run[j].pc \notin RetainSteps
  BY StepMoves DEF AssetInv, StatusInv
<1>. USE DEF rows, requests, UpdateJob, TypeInv, TypeOK
<1>2. CASE DropVersion(j)
  BY <1>1, <1>2 DEF DropVersion, RetainSteps, DropSteps
<1>. QED BY <1>2
         DEF RunStep, MarkRunning, ReadAsset, WriteTiling, ClearStore, Download,
             ReportProgress, Downloaded, TakeTilingLock, Tiled, RecordOutcome,
             RemoveFiles, WriteAssetOutcome, WriteAssetError, ListVersions,
             WeighVersion, DropFails, FinishJob, FinishFailed, Tell, ForgetToken

(* A run that owes a status goes on owing it until it writes it or its        *)
(* failure to is marked.                                                      *)
LEMMA StepOwes ==
    ASSUME TypeInv, NEW j \in Jobs, RunStep(j), of[j] \in Assets,
           run[j].pc \in Following, run[j].follows,
           asset'[of[j]] = "tiling", of[j] \notin mishap'
    PROVE  run'[j].pc \in Following /\ run'[j].follows
<1>. USE GotoLemma, GotoAsLemma
       DEF TypeInv, TypeOK, Following, BeforeOutcome, Steps, StartSteps,
           TilerSteps, RecordSteps, DropSteps, RetainSteps, FinishSteps, rows, requests,
           tasks, Mishap
<1>1. CASE ClearStore(j)
  BY <1>1 DEF ClearStore
<1>2. CASE Download(j)
  BY <1>2 DEF Download
<1>3. CASE ReportProgress(j)
  BY <1>3 DEF ReportProgress
<1>4. CASE Downloaded(j)
  BY <1>4 DEF Downloaded
<1>5. CASE TakeTilingLock(j)
  BY <1>5 DEF TakeTilingLock
<1>6. CASE Tiled(j)
  BY <1>6 DEF Tiled
<1>7. CASE RecordOutcome(j)
  <2>1. UNCHANGED asset /\ run[j].outcome \in {"ok", "err"}
    BY <1>7 DEF RecordOutcome, Run
  <2>2. GotoAs(j, "writeAsset", run[j].outcome)
    BY <1>7, <2>1 DEF RecordOutcome, AfterAssetRead
  <2>. QED BY <2>1, <2>2
<1>8. CASE WriteAssetOutcome(j)
  BY <1>8 DEF WriteAssetOutcome, Unrecorded, UpdateAsset, OutcomeStatus
<1>9. CASE WriteAssetError(j)
  BY <1>9 DEF WriteAssetError, UpdateAsset
<1>. QED BY <1>1, <1>2, <1>3, <1>4, <1>5, <1>6, <1>7, <1>8, <1>9
         DEF RunStep, MarkRunning, ReadAsset, WriteTiling, RemoveFiles,
             ListVersions, WeighVersion, DropVersion, DropFails, FinishJob,
             FinishFailed, Tell, ForgetToken
(* A status is left tiling only by the run that will write it again.          *)
LEMMA StepTilingOwed ==
    ASSUME TypeInv, TaskInv, RowInv, AssetInv, TilingOwed, NEW j \in Jobs,
           RunStep(j)
    PROVE  TilingOwed'
<1>1. /\ Moved(j) /\ Live(j) /\ of[j] \in Assets /\ StatusInv(j)
      /\ asset \in [Assets -> AssetStatus] /\ run \in [Jobs -> Run]
      /\ UNCHANGED <<of, phase, interrupted>>
  BY StepMoves DEF TypeInv, TypeOK, AssetInv, Moved
<1>2. mishap \subseteq mishap'
  BY MishapGrows DEF Next
<1>. SUFFICES ASSUME NEW a \in Assets, asset'[a] = "tiling", a \notin mishap'
              PROVE  \E k \in Jobs : of[k] = a /\ Owes(k)'
  BY <1>1 DEF TilingOwed
<1>3. CASE asset[a] = "tiling"
  <2>1. PICK k \in Jobs : of[k] = a /\ Owes(k)
    BY <1>2, <1>3 DEF TilingOwed
  <2>2. CASE k # j
    <3>1. run'[k] = run[k]
      BY <1>1, <2>2 DEF Moved
    <3>2. phase # "serving" => job'[k] = job[k]
      BY <2>2, StepRowsElsewhere
    <3>3. k \in interrupted => phase # "serving"
      BY DEF TaskInv
    <3>4. Owes(k)'
      BY <1>1, <2>1, <3>1, <3>2, <3>3 DEF Owes
    <3>. QED BY <2>1, <3>4
  <2>3. CASE k = j
    <3>1. run[j].pc \in Following /\ run[j].follows
      BY <1>1, <2>1, <2>3 DEF Owes, TaskInv
    <3>2. run'[j].pc \in Following /\ run'[j].follows
      BY <1>1, <2>1, <2>3, <3>1, StepOwes
    <3>. QED BY <2>1, <2>3, <3>2 DEF Owes
  <2>. QED BY <2>2, <2>3
<1>4. CASE asset[a] # "tiling"
  <2>1. of[j] = a /\ WriteTiling(j) /\ asset' # asset
    BY <1>1, <1>4
       DEF RunStep, MarkRunning, ReadAsset, ClearStore, Download, DropVersion,
           ReportProgress, Downloaded, TakeTilingLock, Tiled, RecordOutcome,
           RemoveFiles, ListVersions, WeighVersion, DropFails, FinishJob,
           FinishFailed, Tell, ForgetToken, DeleteAssetRow, UpdateAsset,
           WriteTiling, WriteAssetOutcome, WriteAssetError, OutcomeStatus, rows, requests
  <2>2. run[j].follows /\ Goto(j, "clearStore")
    BY <1>1, <2>1 DEF WriteTiling, StatusInv
  <2>3. run'[j].pc = "clearStore" /\ run'[j].follows
    BY <1>1, <2>2, GotoLemma DEF Steps, StartSteps
  <2>. QED BY <2>1, <2>3 DEF Owes, Following, BeforeOutcome
<1>. QED BY <1>3, <1>4

(* TilingOwed is an invariant: a stop turns what a run owes into a running    *)
(* row, a start that row into an interrupted one and that into a run.         *)
LEMMA TilingOwedHolds == Spec => []TilingOwed
<1>1. Init => TilingOwed
  BY DEF Init, TilingOwed
<1>2. TypeInv /\ TaskInv /\ RowInv /\ AssetInv /\ TilingOwed /\ [Next]_vars
         => TilingOwed'
  <2>. SUFFICES ASSUME TypeInv, TaskInv, RowInv, AssetInv, TilingOwed,
                       [Next]_vars
                PROVE  TilingOwed'
    OBVIOUS
  <2>0. /\ run \in [Jobs -> Run] /\ asset \in [Assets -> AssetStatus]
        /\ job \in [Jobs -> JobStatus] /\ mishap \subseteq mishap'
        /\ \A k \in Jobs : run[k].pc \in Following => Live(k)
    BY MishapGrows
       DEF TypeInv, TypeOK, Following, BeforeOutcome, TilerSteps, Live
  <2>. USE <2>0, IdsAssumption DEF rows, requests, tasks
  <2>1. ASSUME UNCHANGED of,
               \A a \in Assets : asset'[a] \in {asset[a], "gone", "error"},
               \A k \in Jobs : of[k] \in Assets /\ Owes(k)
                                  => Owes(k)' \/ of[k] \in mishap'
        PROVE  TilingOwed'
    BY <2>1 DEF TilingOwed
  <2>2. CASE UNCHANGED vars
    BY <2>1, <2>2 DEF vars, Owes
  <2>3. ASSUME NEW j \in Jobs, RunStep(j) PROVE TilingOwed'
    BY <2>3, StepTilingOwed
  <2>4. ASSUME NEW j \in Jobs, Poll(j) PROVE TilingOwed'
    <3>1. /\ UNCHANGED <<asset, of, job, phase, interrupted>>
          /\ phase = "serving" /\ worker = NoJob /\ Waiting(j)
          /\ \A k \in Jobs : k # j => run'[k] = run[k]
      BY <2>4, PollMoves DEF Poll
    <3>2. ~Live(j)
      <4>1. of[j] \in Assets /\ token[of[j]] = NoJob
        BY <3>1 DEF Waiting, Reconstructing, TypeInv
      <4>. QED BY <3>1, <4>1 DEF TaskInv
    <3>. QED BY <2>1, <3>1, <3>2 DEF Owes
  <2>5. ASSUME NEW j \in Jobs, FailInterrupted(j) PROVE TilingOwed'
    <3>1. /\ UNCHANGED <<asset, of, job, phase, mishap>>
          /\ j \in interrupted /\ interrupted' = interrupted \ {j}
          /\ run'[j].pc = "record"
          /\ run'[j].follows <=> asset[of[j]] # "gone" /\ FollowsJob(of[j])
          /\ \A k \in Jobs : k # j => run'[k] = run[k]
      BY <2>5, FailInterruptedMoves DEF FailInterrupted
    <3>2. ASSUME NEW a \in Assets, asset[a] = "tiling", a \notin mishap
          PROVE  \E k \in Jobs : of[k] = a /\ Owes(k)'
      <4>1. PICK k \in Jobs : of[k] = a /\ Owes(k)
        BY <3>2 DEF TilingOwed
      <4>2. CASE k = j
        <5>1. run'[j].follows
          BY <3>1, <3>2, <4>1, <4>2 DEF FollowsJob
        <5>. QED BY <3>1, <4>1, <4>2, <5>1 DEF Owes, Following, BeforeOutcome
      <4>3. CASE k # j
        BY <3>1, <4>1, <4>3 DEF Owes
      <4>. QED BY <4>2, <4>3
    <3>. QED BY <3>1, <3>2 DEF TilingOwed
  <2>6. ASSUME NEW j \in Jobs, NEW a \in Assets, Submit(j, a) PROVE TilingOwed'
    <3>1. /\ of[j] = NoAsset /\ of' = [of EXCEPT ![j] = a]
          /\ job' = [job EXCEPT ![j] = "queued"]
          /\ UNCHANGED <<asset, run, phase, interrupted, mishap>>
      BY <2>6 DEF Submit
    <3>2. of \in [Jobs -> Assets \cup {NoAsset}]
      BY DEF TypeInv, TypeOK
    <3>3. \A k \in Jobs : of[k] \in Assets /\ Owes(k)
             => k # j /\ of'[k] = of[k] /\ Owes(k)'
      BY <3>1, <3>2 DEF Owes
    <3>. QED BY <3>1, <3>3 DEF TilingOwed
  <2>7. ASSUME NEW js \in SUBSET Jobs, PruneJobs(js) PROVE TilingOwed'
    BY <2>1, <2>7 DEF PruneJobs, Owes, Settled
  <2>8. ASSUME NEW a \in Assets, Annotate(a) PROVE TilingOwed'
    BY <2>1, <2>8 DEF Annotate, Owes
  <2>9. ASSUME NEW a \in Assets, DeleteBegin(a) \/ DeleteStep(a) \/ CutDelete(a)
        PROVE  TilingOwed'
    <3>1. /\ UNCHANGED <<of, run, phase, interrupted>> /\ phase = "serving"
          /\ \A b \in Assets : asset'[b] \in {asset[b], "gone"}
      BY <2>9 DEF DeleteBegin, DeleteStep, DeleteRows, DeleteFails,
                  DeleteCancels, DeleteFiles, CutDelete, DeleteAssetRow,
                  AssetInv
    <3>2. interrupted = {}
      BY <3>1 DEF TaskInv
    <3>. QED BY <2>1, <3>1, <3>2 DEF Owes
  <2>10. CASE Crash
    <3>1. /\ UNCHANGED <<asset, of, job>> /\ phase' = "starting"
          /\ mishap' = mishap \cup CutShort
      BY <2>10 DEF Crash, Mishap
    <3>2. ASSUME NEW k \in Jobs, of[k] \in Assets, Owes(k)
          PROVE  Owes(k)' \/ of[k] \in mishap'
      <4>1. CASE job[k] = "running"
        BY <3>1, <4>1 DEF Owes
      <4>2. CASE job[k] # "running"
        <5>1. Live(k) /\ run[k].pc \in Following
          BY <3>2, <4>2 DEF Owes
        <5>2. job[k] = "none"
          BY <4>2, <5>1
             DEF RowInv, JobInv, Following, BeforeOutcome, TilerSteps
        <5>. QED BY <3>1, <3>2, <5>1, <5>2 DEF CutShort
      <4>. QED BY <4>1, <4>2
    <3>. QED BY <2>1, <3>1, <3>2
  <2>11. CASE Startup
    <3>1. /\ phase = "starting" /\ UNCHANGED <<of, job, run>>
          /\ interrupted' = {k \in Jobs : job[k] = "running"}
          /\ \A a \in Assets : asset'[a] \in {asset[a], "error"}
      BY <2>11 DEF Startup, RunningRows
    <3>2. interrupted = {}
      BY <3>1 DEF TaskInv
    <3>. QED BY <2>1, <3>1, <3>2 DEF Owes
  <2>12. CASE Serve
    <3>1. /\ UNCHANGED <<asset, of, job, run, interrupted>>
          /\ phase = "recovering"
      BY <2>12 DEF Serve
    <3>. QED BY <2>1, <3>1 DEF Owes
  <2>13. ASSUME NEW a \in Assets, CheckStep(a) PROVE TilingOwed'
    BY <2>1, <2>13 DEF CheckStep, StartCheck, StoreIdsFile, EndCheck, Owes
  <2>. QED BY <2>2, <2>3, <2>4, <2>5, <2>6, <2>7, <2>8, <2>9, <2>10, <2>11,
              <2>12, <2>13 DEF Next
<1>. QED BY <1>1, <1>2, TypeInvHolds, TaskInvHolds, RowInvHolds, AssetInvHolds,
            PTL DEF Spec

(* An asset reads tiling only while a run of it has still to write its        *)
(* status, or a row that says running waits for the next start, unless an     *)
(* error or a stop cut a step short.                                          *)
THEOREM TilingIsRun == Spec => []TilingHasRun
<1>1. TypeInv /\ TilingOwed => TilingHasRun
  BY DEF TypeInv, TypeOK, TilingOwed, TilingHasRun, Owes, Following,
         BeforeOutcome, TilerSteps, Live
<1>. QED BY <1>1, TypeInvHolds, TilingOwedHolds, PTL
-----------------------------------------------------------------------------
(* What a step of a run does to the directories: it writes its asset's, on    *)
(* its way through the tilers, or removes one.                                *)
LEMMA StepFiles ==
    ASSUME TypeInv, NEW j \in Jobs, RunStep(j)
    PROVE  \/ files' \subseteq files
           \/ /\ files' \subseteq files \cup {of[j]}
              /\ run'[j].pc \in {"downloading", "record"}
<1>. USE GotoLemma, GotoAsLemma
       DEF TypeInv, TypeOK, Steps, TilerSteps, RecordSteps, rows, requests
<1>1. CASE Download(j)
  BY <1>1 DEF Download
<1>2. CASE Tiled(j)
  BY <1>2 DEF Tiled
<1>. QED BY <1>1, <1>2
         DEF RunStep, MarkRunning, ReadAsset, WriteTiling, ClearStore,
             ReportProgress, Downloaded, TakeTilingLock, RecordOutcome,
             RemoveFiles, WriteAssetOutcome, WriteAssetError, ListVersions,
             WeighVersion, DropVersion, DropFails, FinishJob, FinishFailed,
             Tell, ForgetToken

(* The run of a deleted asset goes on to the step that removes the directory, *)
(* or leaves it marked.                                                       *)
LEMMA StepWrites ==
    ASSUME TypeInv, NEW j \in Jobs, RunStep(j), run[j].pc \in WritingSteps,
           asset[of[j]] = "gone", of[j] \in files', of[j] \notin mishap'
    PROVE  run'[j].pc \in WritingSteps
<1>. USE GotoLemma, GotoAsLemma
       DEF TypeInv, TypeOK, WritingSteps, Steps, StartSteps, TilerSteps,
           RecordSteps, DropSteps, RetainSteps, FinishSteps, rows, requests, tasks, Mishap
<1>1. CASE ReportProgress(j)
  BY <1>1 DEF ReportProgress
<1>2. CASE Downloaded(j)
  BY <1>2 DEF Downloaded
<1>3. CASE TakeTilingLock(j)
  BY <1>3 DEF TakeTilingLock
<1>4. CASE Tiled(j)
  BY <1>4 DEF Tiled
<1>5. CASE RecordOutcome(j)
  BY <1>5 DEF RecordOutcome, Unrecorded, AfterAssetRead
<1>6. CASE RemoveFiles(j)
  BY <1>6 DEF RemoveFiles
<1>. QED BY <1>1, <1>2, <1>3, <1>4, <1>5, <1>6
         DEF RunStep, MarkRunning, ReadAsset, WriteTiling, ClearStore, Download,
             WriteAssetOutcome, WriteAssetError, ListVersions, WeighVersion,
             DropVersion, DropFails, FinishJob, FinishFailed, Tell, ForgetToken

(* Retention that has deleted a version's row removes its directory next.     *)
LEMMA StepDrops ==
    ASSUME TypeInv, NEW j \in Jobs, RunStep(j)
    PROVE  /\ run[j].pc = "dropFiles"
                 => run[j].member \notin files' \/ run[j].member \in mishap'
           /\ DropsRow(j) => \/ UNCHANGED asset
                             \/ /\ run'[j].pc = "dropFiles"
                                /\ run'[j].member = run[j].member
<1>. USE GotoLemma
       DEF TypeInv, TypeOK, Steps, DropSteps, RetainSteps, FinishSteps, rows, requests,
           tasks, Mishap, DropsRow
<1>1. CASE DropVersion(j)
  BY <1>1 DEF DropVersion
<1>2. CASE DropFails(j)
  BY <1>2 DEF DropFails
<1>3. run[j].pc \in {"dropRow", "dropFiles"} => DropVersion(j) \/ DropFails(j)
  BY DEF RunStep, MarkRunning, ReadAsset, WriteTiling, ClearStore, Download,
         ReportProgress, Reporting, Downloaded, TakeTilingLock, Tiled,
         RecordOutcome, RemoveFiles, WriteAssetOutcome, WriteAssetError,
         ListVersions, WeighVersion, FinishJob, FinishFailed, Tell, ForgetToken
<1>. QED BY <1>1, <1>2, <1>3

(* A step of a run leaves no directory of a deleted asset without an owner.   *)
LEMMA StepFilesOwed ==
    ASSUME TypeInv, TaskInv, AssetInv, FilesOwed, NEW j \in Jobs, RunStep(j)
    PROVE  FilesOwed'
<1>1. /\ Moved(j) /\ of[j] \in Assets /\ asset \in [Assets -> AssetStatus]
      /\ UNCHANGED of
  BY StepMoves DEF TypeInv, TypeOK, Moved
<1>2. mishap \subseteq mishap'
  BY MishapGrows DEF Next
<1>3. UNCHANGED deleter
  BY DEF RunStep, MarkRunning, ReadAsset, WriteTiling, ClearStore, Download,
         ReportProgress, Downloaded, TakeTilingLock, Tiled, RecordOutcome,
         RemoveFiles, WriteAssetOutcome, WriteAssetError, ListVersions,
         WeighVersion, DropVersion, DropFails, FinishJob, FinishFailed, Tell,
         ForgetToken, requests
<1>. SUFFICES ASSUME NEW a \in Assets,
                     asset'[a] = "gone", a \in files', a \notin mishap'
              PROVE  \/ deleter[a] \in {"cancel", "files"}
                     \/ \E k \in Jobs : of[k] = a /\ run'[k].pc \in WritingSteps
                     \/ \E k \in Jobs : /\ run'[k].pc = "dropFiles"
                                        /\ run'[k].member = a
  BY <1>1, <1>3 DEF FilesOwed
<1>4. CASE asset[a] # "gone"
  <2>1. DropsRow(j) /\ run[j].member = a
    BY <1>1, <1>4, StepStatuses DEF WritesOwn, DropsRow
  <2>. QED BY <1>4, <2>1, StepDrops
<1>5. CASE asset[a] = "gone" /\ a \notin files
  BY <1>5, StepFiles DEF WritingSteps
<1>6. CASE asset[a] = "gone" /\ a \in files
  <2>1. \/ deleter[a] \in {"cancel", "files"}
        \/ \E k \in Jobs : of[k] = a /\ run[k].pc \in WritingSteps
        \/ \E k \in Jobs : run[k].pc = "dropFiles" /\ run[k].member = a
    BY <1>2, <1>6 DEF FilesOwed
  <2>2. ASSUME NEW k \in Jobs, of[k] = a, run[k].pc \in WritingSteps
        PROVE  run'[k].pc \in WritingSteps
    <3>1. CASE k = j
      BY <1>6, <2>2, <3>1, StepWrites
    <3>2. CASE k # j
      BY <1>1, <2>2, <3>2 DEF Moved
    <3>. QED BY <3>1, <3>2
  <2>3. ASSUME NEW k \in Jobs, run[k].pc = "dropFiles", run[k].member = a
        PROVE  run'[k] = run[k]
    BY <1>1, <2>3, StepDrops DEF Moved
  <2>. QED BY <2>1, <2>2, <2>3
<1>. QED BY <1>4, <1>5, <1>6

(* FilesOwed is an invariant: the request that deletes a row goes on to the   *)
(* directory, a removal it cannot do is left to the run that writes there,    *)
(* and a stop or a disconnect marks whatever it cut short.                    *)
LEMMA FilesOwedHolds == Spec => []FilesOwed
<1>1. Init => FilesOwed
  BY DEF Init, FilesOwed
<1>2. TypeInv /\ TaskInv /\ AssetInv /\ FilesOwed /\ [Next]_vars => FilesOwed'
  <2>. SUFFICES ASSUME TypeInv, TaskInv, AssetInv, FilesOwed, [Next]_vars
                PROVE  FilesOwed'
    OBVIOUS
  <2>0. /\ run \in [Jobs -> Run] /\ asset \in [Assets -> AssetStatus]
        /\ mishap \subseteq mishap'
        /\ deleter \in [Assets -> DeleteSteps]
        /\ \A k \in Jobs : run[k].pc \in WritingSteps => Live(k)
        /\ \A k \in Jobs : run[k].pc = "dropFiles" => Live(k)
    BY MishapGrows DEF TypeInv, TypeOK, WritingSteps, Live
  <2>. USE <2>0, IdsAssumption DEF rows, requests, tasks
  <2>1. ASSUME files' = files,
               \A a \in Assets : asset'[a] = "gone" => asset[a] = "gone",
               \A a \in Assets : deleter[a] \in {"cancel", "files"}
                                    => deleter'[a] \in {"cancel", "files"},
               \A k \in Jobs : Live(k) => UNCHANGED <<of[k], run[k]>>
        PROVE  FilesOwed'
    BY <2>1 DEF FilesOwed
  <2>2. CASE UNCHANGED vars
    BY <2>1, <2>2 DEF vars
  <2>3. ASSUME NEW j \in Jobs, RunStep(j) PROVE FilesOwed'
    BY <2>3, StepFilesOwed
  <2>4. ASSUME NEW j \in Jobs, Poll(j) PROVE FilesOwed'
    <3>1. /\ UNCHANGED <<asset, of, files, deleter>>
          /\ worker = NoJob /\ Waiting(j)
          /\ \A k \in Jobs : k # j => run'[k] = run[k]
      BY <2>4, PollMoves DEF Poll
    <3>2. ~Live(j)
      <4>1. of[j] \in Assets /\ token[of[j]] = NoJob
        BY <3>1 DEF Waiting, Reconstructing, TypeInv
      <4>. QED BY <3>1, <4>1 DEF TaskInv
    <3>. QED BY <2>1, <3>1, <3>2
  <2>5. ASSUME NEW j \in Jobs, FailInterrupted(j) PROVE FilesOwed'
    <3>1. /\ UNCHANGED <<asset, of, files, deleter>> /\ j \in interrupted
          /\ \A k \in Jobs : k # j => run'[k] = run[k]
      BY <2>5, FailInterruptedMoves DEF FailInterrupted
    <3>2. ~Live(j)
      BY <3>1 DEF TaskInv
    <3>. QED BY <2>1, <3>1, <3>2
  <2>6. ASSUME NEW j \in Jobs, NEW a \in Assets, Submit(j, a) PROVE FilesOwed'
    <3>1. /\ of[j] = NoAsset /\ of' = [of EXCEPT ![j] = a]
          /\ UNCHANGED <<asset, run, files, deleter>>
      BY <2>6 DEF Submit
    <3>2. of \in [Jobs -> Assets \cup {NoAsset}] /\ ~Live(j)
      BY <3>1 DEF TypeInv, TypeOK
    <3>. QED BY <2>1, <3>1, <3>2
  <2>7. ASSUME NEW js \in SUBSET Jobs, PruneJobs(js) PROVE FilesOwed'
    BY <2>1, <2>7 DEF PruneJobs
  <2>8. ASSUME NEW a \in Assets, Annotate(a) PROVE FilesOwed'
    BY <2>1, <2>8 DEF Annotate
  <2>9. ASSUME NEW a \in Assets, DeleteBegin(a) PROVE FilesOwed'
    BY <2>1, <2>9 DEF DeleteBegin
  <2>10. ASSUME NEW a \in Assets, DeleteRows(a) PROVE FilesOwed'
    <3>1. /\ UNCHANGED <<of, run, files>>
          /\ \A b \in Assets : b # a => /\ asset'[b] = asset[b]
                                        /\ deleter'[b] = deleter[b]
          /\ asset'[a] = "gone" => \/ asset[a] = "gone"
                                   \/ deleter'[a] = "cancel"
          /\ deleter[a] \notin {"cancel", "files"}
      BY <2>10 DEF DeleteRows, DeleteAssetRow
    <3>. QED BY <3>1 DEF FilesOwed
  <2>11. ASSUME NEW a \in Assets, DeleteFails(a) PROVE FilesOwed'
    BY <2>1, <2>11 DEF DeleteFails
  <2>12. ASSUME NEW a \in Assets, DeleteCancels(a) PROVE FilesOwed'
    BY <2>1, <2>12 DEF DeleteCancels
  <2>13. ASSUME NEW a \in Assets, DeleteFiles(a) PROVE FilesOwed'
    <3>1. /\ UNCHANGED <<asset, of, run>>
          /\ \A b \in Assets : b # a => /\ b \in files' <=> b \in files
                                        /\ deleter'[b] = deleter[b]
          /\ \/ a \notin files' \/ a \in mishap'
             \/ BeingWritten(a)
      BY <2>13 DEF DeleteFiles, Mishap
    <3>2. BeingWritten(a)
             => \E k \in Jobs : of[k] = a /\ run[k].pc \in WritingSteps
      BY DEF BeingWritten, WritingSteps
    <3>. QED BY <3>1, <3>2 DEF FilesOwed
  <2>14. CASE Crash
    <3>1. UNCHANGED <<asset, of, job, files>> /\ mishap' = mishap \cup CutShort
      BY <2>14 DEF Crash, Mishap
    <3>2. ASSUME NEW a \in Assets,
                 asset[a] = "gone", a \in files, a \notin mishap
          PROVE  a \in CutShort
      <4>1. \A k \in Jobs : of[k] = a => job[k] = "none"
        BY <3>2 DEF AssetInv, TypeInv, TypeOK
      <4>2. \/ deleter[a] \in {"cancel", "files"}
            \/ \E k \in Jobs : of[k] = a /\ Live(k)
            \/ \E k \in Jobs : run[k].pc = "dropFiles" /\ run[k].member = a
        BY <3>2 DEF FilesOwed
      <4>. QED BY <4>1, <4>2 DEF CutShort, DeleteSteps, DropSteps
    <3>. QED BY <3>1, <3>2 DEF FilesOwed
  <2>15. CASE Startup
    BY <2>1, <2>15 DEF Startup
  <2>16. CASE Serve
    BY <2>1, <2>16 DEF Serve
  <2>17. ASSUME NEW a \in Assets, CutDelete(a) PROVE FilesOwed'
    <3>1. /\ UNCHANGED <<asset, of, run, files>>
          /\ \A b \in Assets : b # a => deleter'[b] = deleter[b]
          /\ a \in mishap' \/ deleter[a] \notin {"cancel", "files"}
      BY <2>17 DEF CutDelete, Mishap
    <3>. QED BY <3>1 DEF FilesOwed
  <2>18. ASSUME NEW a \in Assets, StartCheck(a) \/ EndCheck(a) PROVE FilesOwed'
    BY <2>1, <2>18 DEF StartCheck, EndCheck
  <2>19. ASSUME NEW a \in Assets, StoreIdsFile(a) PROVE FilesOwed'
    <3>1. /\ UNCHANGED <<asset, of, run, deleter>> /\ files' = files \cup {a}
          /\ \/ asset[a] # "gone" \/ deleter[a] \in {"cancel", "files"}
             \/ a \in mishap'
      BY <2>19 DEF StoreIdsFile, Mishap
    <3>. QED BY <3>1 DEF FilesOwed
  <2>. QED BY <2>2, <2>3, <2>4, <2>5, <2>6, <2>7, <2>8, <2>9, <2>10, <2>11,
              <2>12, <2>13, <2>14, <2>15, <2>16, <2>17, <2>18, <2>19
           DEF Next, DeleteStep, CheckStep
<1>. QED BY <1>1, <1>2, TypeInvHolds, TaskInvHolds, AssetInvHolds, PTL DEF Spec

(* The directory of a deleted asset is on disk only while the request, the    *)
(* retention or the run of the asset that may have written it back is still   *)
(* due to remove it, unless an error, a stop or a disconnect cut the removal  *)
(* short, or an IDS check stored its file after it.                           *)
THEOREM OrphansOwned == Spec => []OrphansAreOwned
<1>1. TypeInv /\ FilesOwed => OrphansAreOwned
  BY DEF TypeInv, TypeOK, FilesOwed, OrphansAreOwned, WritingSteps, Live,
         FinishSteps
<1>. QED BY <1>1, TypeInvHolds, FilesOwedHolds, PTL
=============================================================================
