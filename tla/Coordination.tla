---------------------------- MODULE Coordination ----------------------------
(***************************************************************************)
(* Change reports and IDS checks composed with what ends both: the delete  *)
(* route of an asset (lib.rs delete_asset, and remove_version of           *)
(* model_versions.rs), which calls forget_asset before it deletes the row  *)
(* and the directory, and a restart of the server.  No transaction spans   *)
(* the steps of a delete and no request is refused while one is at work.   *)
(***************************************************************************)
EXTENDS ChangeReports, IdsChecks

CONSTANTS
    Deletable,    \* bound: assets somebody deletes
    MaxCrashes    \* bound: times the server is stopped and started

ASSUME DeletableAssumption == Deletable \subseteq Assets /\ MaxCrashes \in Nat

DeleteSteps == {"idle", "report row", "asset row", "directory", "ended"}

ASSUME StepsAssumption == Reports \cap DeleteSteps = {}

VARIABLES
    del,        \* what the delete of each asset awaits
    selected,   \* reports it has yet to delete, the one in hand included
    crashes

vars == <<assetVars, reportVars, checkVars, del, selected, mishaps, crashes>>

Names(r, a) == a \in {pair[r][1], pair[r][2]}

Init ==
    /\ InitAssets /\ InitReports /\ InitChecks
    /\ del = [a \in Deletable |-> "idle"]
    /\ selected = [a \in Deletable |-> {}]
    /\ crashes = 0

Goes(a, from, to) == del[a] = from /\ del' = [del EXCEPT ![a] = to]

(* delete_reports_of_asset: the ids are read once. *)
SelectReports(a) ==
    /\ a \in live
    /\ Goes(a, "idle", "report row")
    /\ selected' = [selected EXCEPT ![a] = {r \in Reports : HasReport(r) /\ Names(r, a)}]
    /\ UNCHANGED <<assetVars, reportVars, checkVars, mishaps, crashes>>

ForgetReportRow(a) ==
    /\ \E r \in selected[a] :
         /\ DeleteRow(r)
         /\ Goes(a, "report row", r)
    /\ UNCHANGED <<pair, at, replacing, building, published, cutReports>>
    /\ UNCHANGED <<assetVars, checkVars, selected, mishaps, crashes>>

ForgetReportFile(a) ==
    /\ \E r \in selected[a] :
         /\ Goes(a, r, "report row")
         /\ DeleteFile(r)
         /\ selected' = [selected EXCEPT ![a] = @ \ {r}]
    /\ UNCHANGED <<report, pair, at, replacing, building, cutReports>>
    /\ UNCHANGED <<assetVars, checkVars, mishaps, crashes>>

(* delete_check_of_asset *)
ForgetCheck(a) ==
    /\ selected[a] = {}
    /\ Goes(a, "report row", "asset row")
    /\ IF a \in Checkable
       THEN check' = [check EXCEPT ![a] = "none"] /\ forgotten' = forgotten \cup {a}
       ELSE UNCHANGED <<check, forgotten>>
    /\ UNCHANGED <<run, idsDir, idsReport, cutChecks>>
    /\ UNCHANGED <<assetVars, reportVars, selected, mishaps, crashes>>

DeleteAssetRow(a) ==
    /\ Goes(a, "asset row", "directory")
    /\ live' = live \ {a}
    /\ UNCHANGED <<onDisk, reportVars, checkVars, selected, mishaps, crashes>>

RemoveDirectory(a) ==
    /\ Goes(a, "directory", "ended")
    /\ onDisk' = onDisk \ {a}
    /\ idsDir' = idsDir \ {a} /\ idsReport' = idsReport \ {a}
    /\ UNCHANGED <<live, check, run, forgotten, cutChecks>>
    /\ UNCHANGED <<reportVars, selected, mishaps, crashes>>

(* A statement fails, or the client disconnects: an asset with a row may be   *)
(* deleted again.                                                             *)
CutDelete(a) ==
    /\ del[a] \notin {"idle", "ended"}
    /\ Fails
    /\ del' = [del EXCEPT ![a] = IF a \in live THEN "idle" ELSE "ended"]
    /\ selected' = [selected EXCEPT ![a] = {}]
    /\ UNCHANGED <<assetVars, reportVars, checkVars, crashes>>

Restart ==
    /\ crashes < MaxCrashes
    /\ crashes' = crashes + 1
    /\ StopReports /\ StopChecks
    /\ del' = [a \in Deletable |-> IF a \in live THEN "idle" ELSE "ended"]
    /\ selected' = [a \in Deletable |-> {}]
    /\ UNCHANGED <<assetVars, mishaps>>

ReportActs(r) ==
    /\ Compare(r) \/ ReportStep(r) \/ CutRequest(r)
    /\ UNCHANGED <<checkVars, del, selected, crashes>>
CheckActs(k) ==
    /\ Receive(k) \/ CheckStep(k) \/ CutCheck(k) \/ SettleFails(k)
    /\ UNCHANGED <<reportVars, del, selected, crashes>>
DeleteStep(a) ==
    \/ ForgetReportRow(a) \/ ForgetReportFile(a) \/ ForgetCheck(a)
    \/ DeleteAssetRow(a) \/ RemoveDirectory(a)

Next ==
    \/ \E r \in Reports : ReportActs(r)
    \/ \E k \in Checks : CheckActs(k)
    \/ \E a \in Deletable : SelectReports(a) \/ DeleteStep(a) \/ CutDelete(a)
    \/ Restart

Spec == Init /\ [][Next]_vars

-----------------------------------------------------------------------------
TypeOK ==
    /\ ReportsTypeOK /\ ChecksTypeOK
    /\ live \subseteq Assets /\ onDisk \subseteq Assets
    /\ del \in [Deletable -> DeleteSteps \cup Reports]
    /\ selected \in [Deletable -> SUBSET Reports]

(* A report that is not an ERROR report goes only with one of its versions:   *)
(* of two requests that replace the same failed report, the slower does not   *)
(* take the new report of the other (delete_report goes by the id it read).   *)
OnlyFailedAreReplaced ==
    [][\A r \in Reports :
         HasReport(r) /\ report[r] # "ERROR" /\ report'[r] = "none" =>
             \E a \in Deletable : Names(r, a) /\ del[a] = "report row"]_vars

(* README.md:237: "Older versions and the reports comparing them are deleted" *)
(* Once a delete is over no file of a report comparing the version is left.   *)
(* The code does not keep this one (README, section 3).                       *)
DeletedWithVersion ==
    \A r \in published, a \in Deletable :
        Names(r, a) /\ del[a] = "ended" => at[r] # "ended"

=============================================================================
