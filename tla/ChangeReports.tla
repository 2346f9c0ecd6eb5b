---------------------------- MODULE ChangeReports ----------------------------
(***************************************************************************)
(* change_reports.rs: POST /v1/assets/compare and the comparison it        *)
(* spawns.  A report is a row and a database file of its own, named by the *)
(* report's id; the request that makes a report is named by that id here.  *)
(* One row at most stands for a pair of versions, an ERROR row is replaced.*)
(* A handler whose client disconnects stops at the await it is in; the     *)
(* comparison is a task of its own and goes on.                            *)
(***************************************************************************)
EXTENDS ModelAssets

CONSTANTS
    Reports,      \* ids, each of one request
    Earlier,      \* those that failed before this start of the server
    NoReport,
    Pairs,        \* <<older, newer>> versions of one model
    Slots         \* COMPARISON_SLOTS

ASSUME ReportsAssumption ==
    /\ NoReport \notin Reports /\ Earlier \subseteq Reports
    /\ Pairs \subseteq Assets \X Assets /\ Slots \in Nat \ {0}

VARIABLES
    report,     \* status of each row
    pair,       \* the versions each request compares
    at,         \* what the request, then its comparison, awaits
    replacing,  \* the ERROR report the request found
    building,   \* reports with a file half written
    published,  \* reports with a file
    cutReports  \* reports whose request or status write was cut short

reportVars == <<report, pair, at, replacing, building, published, cutReports>>

Unfinished  == {"NOT_STARTED", "IN_PROGRESS"}
RowStatuses == Unfinished \cup {"COMPLETE", "ERROR"}
Answering   == {"lookup", "delete row", "delete file", "insert", "reread"}
Comparing   == {"progress", "open", "merge", "publish", "result"}
Steps       == Answering \cup Comparing \cup {"idle", "queued", "failure", "ended"}

HasReport(r) == report[r] # "none"
RowsOf(p)    == {r \in Reports : HasReport(r) /\ pair[r] = p}

InitReports ==
    /\ report = [r \in Reports |-> IF r \in Earlier THEN "ERROR" ELSE "none"]
    /\ pair \in [Reports -> Pairs]
    /\ \A p \in Pairs : Cardinality(RowsOf(p)) <= 1
    /\ at = [r \in Reports |-> IF r \in Earlier THEN "ended" ELSE "idle"]
    /\ replacing = [r \in Reports |-> NoReport]
    /\ building = {} /\ published = {} /\ cutReports = {}

Await(r, from, to) == at[r] = from /\ at' = [at EXCEPT ![r] = to]

(* UPDATE ... WHERE id: nothing happens to a row that is gone. *)
SetStatusAnyway(r, status) == report' = [report EXCEPT ![r] = status]
SetStatus(r, status) ==
    report' = [report EXCEPT ![r] = IF HasReport(r) THEN status ELSE "none"]

-----------------------------------------------------------------------------
(* create_report *)

(* Both versions are read and both stores looked for before the rows are. *)
Compare(r) ==
    /\ {pair[r][1], pair[r][2]} \subseteq live \cap onDisk
    /\ Await(r, "idle", "lookup")
    /\ UNCHANGED <<report, pair, replacing, building, published, cutReports, assetVars, mishaps>>

LookUp(r) ==
    /\ \/ RowsOf(pair[r]) = {} /\ Await(r, "lookup", "insert") /\ UNCHANGED replacing
       \/ \E q \in RowsOf(pair[r]) :
            IF report[q] = "ERROR"
            THEN Await(r, "lookup", "delete row") /\ replacing' = [replacing EXCEPT ![r] = q]
            ELSE Await(r, "lookup", "ended") /\ UNCHANGED replacing
    /\ UNCHANGED <<report, pair, building, published, cutReports, assetVars, mishaps>>

DeletePair(q) ==
    report' = [r \in Reports |-> IF pair[r] = pair[q] THEN "none" ELSE report[r]]
DeleteRow(q)  == report' = [report EXCEPT ![q] = "none"]
DeleteFile(q) == published' = published \ {q}

(* The failed report found above goes by its id, the row and then the file. *)
ReplaceRow(r) ==
    /\ Await(r, "delete row", "delete file")
    /\ DeleteRow(replacing[r])
    /\ UNCHANGED <<pair, replacing, building, published, cutReports, assetVars, mishaps>>

ReplaceFile(r) ==
    /\ Await(r, "delete file", "insert")
    /\ DeleteFile(replacing[r])
    /\ UNCHANGED <<report, pair, replacing, building, cutReports, assetVars, mishaps>>

(* INSERT OR IGNORE: the pair is unique. *)
Insert(r) ==
    /\ IF RowsOf(pair[r]) = {}
       THEN report' = [report EXCEPT ![r] = "NOT_STARTED"] /\ Await(r, "insert", "reread")
       ELSE UNCHANGED report /\ Await(r, "insert", "ended")
    /\ UNCHANGED <<pair, replacing, building, published, cutReports, assetVars, mishaps>>

(* The answer is read back from the row before the comparison is spawned. *)
Reread(r) ==
    /\ Await(r, "reread", IF HasReport(r) THEN "queued" ELSE "ended")
    /\ UNCHANGED <<report, pair, replacing, building, published, cutReports, assetVars, mishaps>>

(* A statement fails and the request answers 500, or its client disconnects. *)
CutRequest(r) ==
    /\ at[r] \in Answering
    /\ Fails
    /\ at' = [at EXCEPT ![r] = "ended"]
    /\ cutReports' = IF at[r] = "reread" THEN cutReports \cup {r} ELSE cutReports
    /\ UNCHANGED <<report, pair, replacing, building, published, assetVars>>

-----------------------------------------------------------------------------
(* run_comparison *)

TakeSlot(r) ==
    /\ Cardinality({q \in Reports : at[q] \in Comparing}) < Slots
    /\ Await(r, "queued", "progress")
    /\ UNCHANGED <<report, pair, replacing, building, published, cutReports, assetVars, mishaps>>

Begin(r) ==
    /\ \/ Works /\ SetStatus(r, "IN_PROGRESS") /\ Await(r, "progress", "open")
       \/ Fails /\ UNCHANGED report /\ Await(r, "progress", "failure")
    /\ UNCHANGED <<pair, replacing, building, published, cutReports, assetVars>>

(* A version deleted since has no store to open; one deleted later is read on. *)
OpenStores(r) ==
    /\ IF {pair[r][1], pair[r][2]} \subseteq onDisk
       THEN Await(r, "open", "merge") /\ building' = building \cup {r}
       ELSE Await(r, "open", "failure") /\ UNCHANGED building
    /\ UNCHANGED <<report, pair, replacing, published, cutReports, assetVars, mishaps>>

Merge(r) ==
    /\ \/ Works /\ Await(r, "merge", "publish") /\ UNCHANGED building
       \/ Fails /\ Await(r, "merge", "failure") /\ building' = building \ {r}
    /\ UNCHANGED <<report, pair, replacing, published, cutReports, assetVars>>

(* A file that cannot be synced or renamed stays under its building name. *)
Publish(r) ==
    /\ \/ /\ Works /\ Await(r, "publish", "result")
          /\ building' = building \ {r} /\ published' = published \cup {r}
       \/ Fails /\ Await(r, "publish", "failure") /\ UNCHANGED <<building, published>>
    /\ UNCHANGED <<report, pair, replacing, cutReports, assetVars>>

WriteResult(r) ==
    /\ \/ Works /\ SetStatus(r, "COMPLETE") /\ Await(r, "result", "ended")
       \/ Fails /\ UNCHANGED report /\ Await(r, "result", "failure")
    /\ UNCHANGED <<pair, replacing, building, published, cutReports, assetVars>>

WriteFailure(r) ==
    /\ Await(r, "failure", "ended")
    /\ \/ Works /\ SetStatus(r, "ERROR") /\ UNCHANGED cutReports
       \/ Fails /\ UNCHANGED report /\ cutReports' = cutReports \cup {r}
    /\ UNCHANGED <<pair, replacing, building, published, assetVars>>

(* fail_interrupted_reports, when the server starts *)
FailStartedReports ==
    report' = [r \in Reports |-> IF report[r] = "IN_PROGRESS" THEN "ERROR" ELSE report[r]]
FailInterruptedReports ==
    report' = [r \in Reports |-> IF report[r] \in Unfinished THEN "ERROR" ELSE report[r]]

StopReports ==
    /\ FailInterruptedReports
    /\ at' = [r \in Reports |-> IF at[r] = "idle" THEN "idle" ELSE "ended"]
    /\ cutReports' = {}
    /\ UNCHANGED <<pair, replacing, building, published>>

ReportStep(r) ==
    \/ LookUp(r) \/ ReplaceRow(r) \/ ReplaceFile(r) \/ Insert(r) \/ Reread(r)
    \/ TakeSlot(r) \/ Begin(r) \/ OpenStores(r) \/ Merge(r) \/ Publish(r)
    \/ WriteResult(r) \/ WriteFailure(r)

-----------------------------------------------------------------------------
ReportsTypeOK ==
    /\ report \in [Reports -> RowStatuses \cup {"none"}]
    /\ pair \in [Reports -> Pairs]
    /\ at \in [Reports -> Steps]
    /\ replacing \in [Reports -> Reports \cup {NoReport}]
    /\ building \subseteq Reports /\ published \subseteq Reports
    /\ cutReports \subseteq Reports

(* A report that reads COMPLETE has its file, which list_changes opens,       *)
(* whatever was deleted, replaced or interrupted meanwhile.                   *)
CompleteHasFile == \A r \in Reports : report[r] = "COMPLETE" => r \in published

(* A report that reads unfinished, which compare refuses to replace (409      *)
(* REPORT_EXISTS), has a request or comparison at work on it, unless its      *)
(* request was cut short before the spawn or its failure could not be stored. *)
UnfinishedIsAtWork ==
    \A r \in Reports : report[r] \in Unfinished /\ r \notin cutReports =>
        at[r] \in {"reread", "queued", "failure"} \cup Comparing

=============================================================================
