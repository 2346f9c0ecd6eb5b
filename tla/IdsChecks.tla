----------------------------- MODULE IdsChecks -----------------------------
(***************************************************************************)
(* ids_check.rs: POST /v1/assets/{id}/ids and the run it spawns.  An asset *)
(* has one row, which a new check takes unless a check of the asset runs,  *)
(* and one report.json, in an ids directory inside the asset's.  The       *)
(* sidecar checks one model at a time and answers, refuses or times out.   *)
(***************************************************************************)
EXTENDS ModelAssets

CONSTANTS
    Checks,       \* requests that start a check
    Checkable     \* assets tiled from an IFC file

ASSUME CheckableAssumption == Checkable \subseteq Assets

VARIABLES
    check,      \* status of each asset's row in ids_checks
    run,        \* what each request, then its run, awaits, and of which asset
    idsDir,     \* assets with an ids directory
    idsReport,  \* assets with a report in it
    forgotten,  \* assets a delete took the row of
    cutChecks   \* assets whose check was cut short before it was settled

checkVars == <<check, run, idsDir, idsReport, forgotten, cutChecks>>

CheckStatuses == {"none", "running", "done", "failed"}
Requesting    == {"receive", "store", "refuse", "scratch"}
Running       == {"waiting", "calling", "write", "settle done", "settle failed"}
CheckSteps    == Requesting \cup Running \cup {"idle", "ended"}

Claimed(k) == run[k].at \in (Requesting \ {"receive"}) \cup Running

InitChecks ==
    /\ check = [a \in Checkable |-> "none"]
    /\ run \in [Checks -> [at : {"idle"}, of : Checkable]]
    /\ idsDir = {} /\ idsReport = {} /\ forgotten = {} /\ cutChecks = {}

Turn(k, from, to) == run[k].at = from /\ run' = [run EXCEPT ![k].at = to]

(* settle_check: UPDATE ... WHERE asset_id *)
SettleRow(a, status) ==
    check' = [check EXCEPT ![a] = IF @ = "none" THEN "none" ELSE status]

-----------------------------------------------------------------------------
(* start_check *)

(* The asset is read, then the IDS file is received into a scratch directory. *)
Receive(k) ==
    /\ run[k].of \in live \cap onDisk
    /\ Turn(k, "idle", "receive")
    /\ UNCHANGED <<check, idsDir, idsReport, forgotten, cutChecks, assetVars, mishaps>>

CheckRunsUnseen(a) == a \notin Checkable
CheckRuns(a) == check[a] = "running"

(* claim_check: one statement takes the row unless it is running. *)
ClaimCheck(k) ==
    LET a == run[k].of IN
    /\ IF CheckRuns(a)
       THEN Turn(k, "receive", "ended") /\ UNCHANGED check
       ELSE Turn(k, "receive", "store") /\ check' = [check EXCEPT ![a] = "running"]
    /\ UNCHANGED <<idsDir, idsReport, forgotten, cutChecks, assetVars, mishaps>>

(* store_ids_file makes the directory, drops the last report and names the    *)
(* IDS file; it may fail before or after the report went.                     *)
StoreIdsFile(k) ==
    LET a == run[k].of IN
    /\ idsDir' = idsDir \cup {a}
    /\ \/ Works /\ Turn(k, "store", "scratch") /\ idsReport' = idsReport \ {a}
       \/ Fails /\ Turn(k, "store", "refuse") /\ idsReport' \in {idsReport, idsReport \ {a}}
    /\ UNCHANGED <<check, forgotten, cutChecks, assetVars>>

Refuse(k) ==
    LET a == run[k].of IN
    /\ Turn(k, "refuse", "ended")
    /\ \/ Works /\ SettleRow(a, "failed") /\ UNCHANGED cutChecks
       \/ Fails /\ UNCHANGED check /\ cutChecks' = cutChecks \cup {a}
    /\ UNCHANGED <<idsDir, idsReport, forgotten, assetVars>>

(* The scratch directory goes, and the run is spawned. *)
Spawn(k) ==
    /\ Turn(k, "scratch", "waiting")
    /\ UNCHANGED <<check, idsDir, idsReport, forgotten, cutChecks, assetVars, mishaps>>

(* The client disconnects, or a statement fails before the claim. *)
CutCheck(k) ==
    /\ run[k].at \in Requesting
    /\ Fails
    /\ run' = [run EXCEPT ![k].at = "ended"]
    /\ cutChecks' = IF Claimed(k) THEN cutChecks \cup {run[k].of} ELSE cutChecks
    /\ UNCHANGED <<check, idsDir, idsReport, forgotten, assetVars>>

-----------------------------------------------------------------------------
(* run_check *)

(* check_slots holds one permit, across all assets. *)
TakeCheckSlot(k) ==
    /\ \A j \in Checks : run[j].at # "calling"
    /\ Turn(k, "waiting", "calling")
    /\ UNCHANGED <<check, idsDir, idsReport, forgotten, cutChecks, assetVars, mishaps>>

(* sidecar_report: it answers, refuses, cannot be reached or is given up      *)
(* after MOST_CHECK_DURATION.                                                 *)
SidecarAnswers(k) ==
    /\ Turn(k, "calling", "write") \/ Turn(k, "calling", "settle failed")
    /\ UNCHANGED <<check, idsDir, idsReport, forgotten, cutChecks, assetVars, mishaps>>

(* tokio::fs::write makes no directory: there is none once the asset's went. *)
WritesAnyway(a) == a \in Checkable
Writable(a) == a \in idsDir

WriteIdsReport(k) ==
    LET a == run[k].of IN
    /\ \/ Writable(a) /\ Works /\ Turn(k, "write", "settle done")
          /\ idsReport' = idsReport \cup {a}
       \/ ~Writable(a) /\ Works /\ Turn(k, "write", "settle failed")
          /\ UNCHANGED idsReport
       \/ Fails /\ Turn(k, "write", "settle failed") /\ UNCHANGED idsReport
    /\ UNCHANGED <<check, idsDir, forgotten, cutChecks, assetVars>>

SettleCheck(k) ==
    LET a == run[k].of IN
    /\ \/ Turn(k, "settle done", "ended") /\ SettleRow(a, "done")
       \/ Turn(k, "settle failed", "ended") /\ SettleRow(a, "failed")
    /\ UNCHANGED <<idsDir, idsReport, forgotten, cutChecks, assetVars, mishaps>>

SettleFails(k) ==
    /\ run[k].at \in {"settle done", "settle failed"}
    /\ Fails
    /\ run' = [run EXCEPT ![k].at = "ended"]
    /\ cutChecks' = cutChecks \cup {run[k].of}
    /\ UNCHANGED <<check, idsDir, idsReport, forgotten, assetVars>>

(* fail_interrupted_checks, when the server starts *)
FailNoChecks == UNCHANGED check
FailInterruptedChecks ==
    check' = [a \in Checkable |-> IF check[a] = "running" THEN "failed" ELSE check[a]]

StopChecks ==
    /\ FailInterruptedChecks
    /\ run' = [k \in Checks |-> [run[k] EXCEPT !.at = IF @ = "idle" THEN "idle" ELSE "ended"]]
    /\ cutChecks' = {}
    /\ UNCHANGED <<idsDir, idsReport, forgotten>>

CheckStep(k) ==
    \/ ClaimCheck(k) \/ StoreIdsFile(k) \/ Refuse(k) \/ Spawn(k)
    \/ TakeCheckSlot(k) \/ SidecarAnswers(k) \/ WriteIdsReport(k) \/ SettleCheck(k)

-----------------------------------------------------------------------------
ChecksTypeOK ==
    /\ check \in [Checkable -> CheckStatuses]
    /\ run \in [Checks -> [at : CheckSteps, of : Checkable]]
    /\ idsDir \subseteq Checkable /\ idsReport \subseteq idsDir
    /\ forgotten \subseteq Checkable /\ cutChecks \subseteq Checkable

(* A check that reads done has the report get_check answers with, unless a    *)
(* delete of the asset took its row from under the run.                       *)
DoneHasReport ==
    \A a \in Checkable \ forgotten : check[a] = "done" => a \in idsReport

(* One check of an asset is at work at a time, and one only: the row is       *)
(* running exactly while one is (IDS_CHECK_RUNNING is answered no longer).    *)
OneCheckAtWork ==
    \A a \in Checkable \ (forgotten \cup cutChecks) :
        LET working == {k \in Checks : run[k].of = a /\ Claimed(k)}
        IN  Cardinality(working) = IF check[a] = "running" THEN 1 ELSE 0

=============================================================================
