------------------------- MODULE CoordinationProofs -------------------------
(***************************************************************************)
(* What Coordination promises, for any assets, reports, checks and deletes *)
(* and any number of failed statements, disconnects and restarts: a report *)
(* that reads COMPLETE has its file, one that reads unfinished is at work, *)
(* only failed reports are replaced, a check that reads done has its       *)
(* report and one check of an asset is at work at a time.                  *)
(***************************************************************************)
EXTENDS Coordination, FiniteSetTheorems, TLAPS

-----------------------------------------------------------------------------
(* Reports *)

(* A report's request has been past its INSERT, which no id passes twice.     *)
Born(r) == at[r] \notin {"idle", "lookup", "delete row", "delete file", "insert"}

RowsAreBorn   == \A r \in Reports : HasReport(r) => Born(r)
FailedAreOver == \A r \in Reports : report[r] = "ERROR" => at[r] = "ended"
ResultHasFile == \A r \in Reports : at[r] = "result" /\ HasReport(r) => r \in published

(* What a request found to replace, and what a delete has in hand, is no      *)
(* longer written by anything.                                                *)
ReplacedAreFailed ==
    \A q \in Reports :
        /\ at[q] \in {"delete row", "delete file"} =>
               /\ replacing[q] \in Reports /\ Born(replacing[q])
               /\ report[replacing[q]] \in {"none", "ERROR"}
        /\ at[q] = "delete file" => report[replacing[q]] = "none"

SelectedAreNamed ==
    \A a \in Deletable : \A r \in selected[a] : Names(r, a) /\ Born(r)
ForgottenAreGone ==
    \A a \in Deletable : \A r \in Reports : del[a] = r => Born(r) /\ report[r] = "none"

DeletesTypeOK ==
    /\ del \in [Deletable -> DeleteSteps \cup Reports]
    /\ selected \in [Deletable -> SUBSET Reports]

Supports ==
    /\ RowsAreBorn /\ FailedAreOver /\ ResultHasFile
    /\ ReplacedAreFailed /\ SelectedAreNamed /\ ForgottenAreGone

ReportsInv ==
    ReportsTypeOK /\ DeletesTypeOK /\ Supports /\ CompleteHasFile /\ UnfinishedIsAtWork

(* Before anything happens; the failed reports of earlier runs are over.      *)
LEMMA InitReportsInv == Init => ReportsInv
<1> SUFFICES ASSUME Init PROVE ReportsInv
  OBVIOUS
<1> USE DEF Init, InitReports
<1>1. ReportsTypeOK
  BY ReportsAssumption DEF ReportsTypeOK, RowStatuses, Steps
<1>2. DeletesTypeOK
  BY DEF DeletesTypeOK, DeleteSteps
<1>3. RowsAreBorn /\ FailedAreOver /\ ResultHasFile /\ ReplacedAreFailed
  BY DEF RowsAreBorn, FailedAreOver, ResultHasFile, ReplacedAreFailed, HasReport, Born
<1>4. SelectedAreNamed /\ ForgottenAreGone
  BY StepsAssumption DEF SelectedAreNamed, ForgottenAreGone, DeleteSteps
<1>5. CompleteHasFile /\ UnfinishedIsAtWork
  BY DEF CompleteHasFile, UnfinishedIsAtWork, Unfinished
<1>6. QED
  BY <1>1, <1>2, <1>3, <1>4, <1>5 DEF ReportsInv, Supports

(* A request and its comparison leave what deletes have in hand alone.        *)
LEMMA DeletesUndisturbed ==
    ASSUME ReportsInv, UNCHANGED <<del, selected, pair>>,
           \A q \in Reports : Born(q) => Born(q)' /\ (report[q] = "none" => report'[q] = "none")
    PROVE  DeletesTypeOK' /\ SelectedAreNamed' /\ ForgottenAreGone'
BY DEF ReportsInv, DeletesTypeOK, Supports, SelectedAreNamed, ForgottenAreGone, Names

(* What a request and its comparison do to reports.                           *)
LEMMA ReportActKeeps ==
    ASSUME ReportsInv, NEW r \in Reports, Compare(r) \/ ReportStep(r) \/ CutRequest(r),
           UNCHANGED <<del, selected>>
    PROVE  ReportsInv'
<1> USE DEF Compare, ReportStep, CutRequest, LookUp, ReplaceRow, ReplaceFile, Insert, Reread,
            TakeSlot, Begin, OpenStores, Merge, Publish, WriteResult, WriteFailure,
            Await, SetStatus, DeleteRow, DeleteFile, RowsOf, HasReport, Answering,
            ReportsInv, ReportsTypeOK
<1>1. ReportsTypeOK'
  BY DEF RowStatuses, Unfinished, Steps, Comparing
<1>2. \A q \in Reports : Born(q) => Born(q)' /\ (report[q] = "none" => report'[q] = "none")
  BY DEF Born
<1>3. DeletesTypeOK' /\ SelectedAreNamed' /\ ForgottenAreGone'
  BY <1>2, DeletesUndisturbed
<1>4. RowsAreBorn'
  BY DEF Supports, RowsAreBorn, Born
<1>5. FailedAreOver'
  BY DEF Supports, FailedAreOver
<1>6. ResultHasFile'
  BY DEF Supports, ResultHasFile, ReplacedAreFailed, Born
<1>7. ReplacedAreFailed'
  <2>1. \A x \in Reports : Born(x) /\ report[x] \in {"none", "ERROR"} =>
            report'[x] \in {"none", "ERROR"}
    BY DEF Supports, FailedAreOver, Born
  <2>2. \A q \in Reports : at'[q] \in {"delete row", "delete file"} =>
            /\ replacing'[q] \in Reports /\ Born(replacing'[q])
            /\ report[replacing'[q]] \in {"none", "ERROR"}
    BY DEF Supports, RowsAreBorn, ReplacedAreFailed
  <2>3. \A q \in Reports : at'[q] = "delete file" => report'[replacing'[q]] = "none"
    <3>1. ASSUME NEW q \in Reports, at'[q] = "delete file"
          PROVE  \/ q = r /\ ReplaceRow(r)
                 \/ at[q] = "delete file" /\ replacing'[q] = replacing[q]
      BY <3>1
    <3>2. ReplaceRow(r) => report'[replacing'[r]] = "none"
      BY <2>2
    <3>3. ASSUME NEW q \in Reports, at[q] = "delete file"
          PROVE  report'[replacing[q]] = "none"
      <4>1. Born(replacing[q]) /\ replacing[q] \in Reports /\ report[replacing[q]] = "none"
        BY <3>3 DEF Supports, ReplacedAreFailed
      <4>2. QED
        BY <1>2, <4>1
    <3>4. QED
      BY <3>1, <3>2, <3>3
  <2>4. QED
    BY <1>2, <2>1, <2>2, <2>3 DEF ReplacedAreFailed, Born
<1>8. CompleteHasFile'
  BY DEF Supports, ResultHasFile, ReplacedAreFailed, CompleteHasFile
<1>9. UnfinishedIsAtWork'
  BY DEF Supports, RowsAreBorn, UnfinishedIsAtWork, Unfinished, Born, Comparing
<1>10. QED
  BY <1>1, <1>3, <1>4, <1>5, <1>6, <1>7, <1>8, <1>9 DEF Supports

(* The delete of an asset, one step of which takes a row or file it selected. *)
LEMMA DeleteActKeeps ==
    ASSUME ReportsInv, NEW a \in Deletable,
           SelectReports(a) \/ DeleteStep(a) \/ CutDelete(a)
    PROVE  ReportsInv'
<1> USE StepsAssumption
        DEF SelectReports, DeleteStep, CutDelete, ForgetReportRow, ForgetReportFile,
            ForgetCheck, DeleteAssetRow, RemoveDirectory, Goes, DeleteRow, DeleteFile,
            HasReport, DeleteSteps, ReportsInv, DeletesTypeOK
<1>1. ReportsTypeOK'
  BY DEF ReportsTypeOK, RowStatuses, reportVars
<1>2. DeletesTypeOK'
  OBVIOUS
<1>3. UNCHANGED <<at, pair, replacing>> /\ \A r \in Reports : report'[r] \in {report[r], "none"}
  BY DEF ReportsTypeOK, reportVars
<1>4. RowsAreBorn' /\ FailedAreOver' /\ ReplacedAreFailed'
  BY <1>3 DEF Supports, RowsAreBorn, FailedAreOver, ReplacedAreFailed, Born, ReportsTypeOK
<1>5. SelectedAreNamed'
  <2>1. ASSUME NEW b \in Deletable, NEW r \in selected'[b]
        PROVE  r \in selected[b] \/ (b = a /\ r \in Reports /\ HasReport(r) /\ Names(r, a))
    <3>1. CASE SelectReports(a)
      BY <2>1, <3>1
    <3>2. CASE ForgetReportFile(a) \/ CutDelete(a)
      BY <2>1, <3>2
    <3>3. QED
      BY <2>1, <3>1, <3>2
  <2>2. QED
    BY <1>3, <2>1 DEF Supports, SelectedAreNamed, RowsAreBorn, Names, Born
<1>6. ForgottenAreGone'
  <2>1. ASSUME NEW b \in Deletable, NEW r \in Reports, del'[b] = r
        PROVE  del[b] = r \/ (r \in selected[b] /\ report'[r] = "none")
    BY <2>1 DEF ReportsTypeOK
  <2>2. QED
    BY <1>3, <2>1 DEF Supports, SelectedAreNamed, ForgottenAreGone, Born
<1>7. \A r \in Reports : HasReport(r)' /\ r \in published => r \in published'
  BY <1>3 DEF Supports, ForgottenAreGone, reportVars
<1>8. ResultHasFile' /\ CompleteHasFile' /\ UnfinishedIsAtWork'
  BY <1>3, <1>7 DEF Supports, ResultHasFile, CompleteHasFile, UnfinishedIsAtWork, Unfinished,
                    reportVars
<1>9. QED
  BY <1>1, <1>2, <1>4, <1>5, <1>6, <1>8 DEF Supports

(* A restart fails what is unfinished and ends every request.                 *)
LEMMA RestartKeeps == ReportsInv /\ Restart => ReportsInv'
<1> SUFFICES ASSUME ReportsInv, Restart PROVE ReportsInv'
  OBVIOUS
<1> USE DEF Restart, StopReports, FailInterruptedReports, ReportsInv
<1>1. ReportsTypeOK' /\ DeletesTypeOK'
  BY DEF ReportsTypeOK, DeletesTypeOK, RowStatuses, Steps, DeleteSteps
<1>2. \A r \in Reports :
          /\ Born(r) => at'[r] = "ended"
          /\ report'[r] \in {report[r], "ERROR"} /\ report'[r] \notin Unfinished
          /\ report[r] = "none" => report'[r] = "none"
          /\ at'[r] \in {"idle", "ended"}
  BY DEF ReportsTypeOK, Unfinished, Born
<1>3. RowsAreBorn' /\ FailedAreOver' /\ ResultHasFile' /\ ReplacedAreFailed'
  BY <1>2 DEF Supports, RowsAreBorn, FailedAreOver, ResultHasFile, ReplacedAreFailed,
              HasReport, Born, Unfinished
<1>4. SelectedAreNamed' /\ ForgottenAreGone'
  BY StepsAssumption DEF SelectedAreNamed, ForgottenAreGone, DeleteSteps
<1>5. CompleteHasFile' /\ UnfinishedIsAtWork'
  BY <1>2 DEF CompleteHasFile, UnfinishedIsAtWork, Unfinished
<1>6. QED
  BY <1>1, <1>3, <1>4, <1>5 DEF Supports

(* So every step keeps the invariant of the reports.                          *)
LEMMA ReportsStep == ReportsInv /\ [Next]_vars => ReportsInv'
<1> SUFFICES ASSUME ReportsInv, [Next]_vars PROVE ReportsInv'
  OBVIOUS
<1>1. ASSUME NEW r \in Reports, ReportActs(r) PROVE ReportsInv'
  BY <1>1, ReportActKeeps DEF ReportActs
<1>2. ASSUME UNCHANGED <<reportVars, del, selected>> PROVE ReportsInv'
  BY <1>2 DEF reportVars, ReportsInv, ReportsTypeOK, DeletesTypeOK, Supports, RowsAreBorn,
              FailedAreOver, ResultHasFile, ReplacedAreFailed, SelectedAreNamed,
              ForgottenAreGone, CompleteHasFile, UnfinishedIsAtWork, HasReport, Born, Names
<1>3. QED
  BY <1>1, <1>2, DeleteActKeeps, RestartKeeps DEF Next, CheckActs, vars

(* A report that reads COMPLETE has its file, which list_changes opens,       *)
(* whatever was deleted, replaced or interrupted meanwhile.                   *)
THEOREM CompleteReports == Spec => []CompleteHasFile
<1>1. ReportsInv => CompleteHasFile
  BY DEF ReportsInv
<1>2. QED
  BY InitReportsInv, ReportsStep, <1>1, PTL DEF Spec

(* A report that reads unfinished, which compare refuses to replace, has a    *)
(* request or a comparison at work on it, or was cut short.                   *)
THEOREM UnfinishedReports == Spec => []UnfinishedIsAtWork
<1>1. ReportsInv => UnfinishedIsAtWork
  BY DEF ReportsInv
<1>2. QED
  BY InitReportsInv, ReportsStep, <1>1, PTL DEF Spec

(* Only a failed report is replaced: any other goes with one of its versions. *)
THEOREM ReplacedOnlyFailed == Spec => OnlyFailedAreReplaced
<1> DEFINE Removed(r) == HasReport(r) /\ report[r] # "ERROR" /\ report'[r] = "none"
           Forgets(r) == \E a \in Deletable : Names(r, a) /\ del[a] = "report row"
<1>1. ReportsInv /\ [Next]_vars => [\A r \in Reports : Removed(r) => Forgets(r)]_vars
  <2> SUFFICES ASSUME ReportsInv, Next, NEW r \in Reports, Removed(r) PROVE Forgets(r)
    OBVIOUS
  <2>1. ASSUME NEW q \in Reports, ReportActs(q) PROVE FALSE
    BY <2>1 DEF ReportActs, Compare, ReportStep, CutRequest, LookUp, ReplaceRow, ReplaceFile,
                Insert, Reread, TakeSlot, Begin, OpenStores, Merge, Publish, WriteResult,
                WriteFailure, Await, SetStatus, DeleteRow, HasReport, ReportsInv,
                ReportsTypeOK, Supports, ReplacedAreFailed
  <2>2. ASSUME NEW a \in Deletable, SelectReports(a) \/ DeleteStep(a) \/ CutDelete(a)
        PROVE  Forgets(r)
    BY <2>2 DEF SelectReports, DeleteStep, CutDelete, ForgetReportRow, ForgetReportFile,
                ForgetCheck, DeleteAssetRow, RemoveDirectory, Goes, DeleteRow, HasReport,
                reportVars, ReportsInv, ReportsTypeOK, Supports, SelectedAreNamed
  <2>3. CASE Restart
    BY <2>3 DEF Restart, StopReports, FailInterruptedReports, HasReport, Unfinished
  <2>4. QED
    BY <2>1, <2>2, <2>3 DEF Next, CheckActs, reportVars, HasReport
<1>2. QED
  BY InitReportsInv, ReportsStep, <1>1, PTL DEF Spec, OnlyFailedAreReplaced

-----------------------------------------------------------------------------
(* IDS checks *)

CheckSettled == {"none", "done", "failed"}

WorksOn(k, a) == run[k].of = a /\ Claimed(k)

(* Of the assets no delete took the row of.                                   *)
OneClaim ==
    \A a \in Checkable \ forgotten :
        /\ \A j, k \in Checks : WorksOn(j, a) /\ WorksOn(k, a) => j = k
        /\ \A k \in Checks : WorksOn(k, a) => check[a] = "running" /\ a \notin cutChecks
        /\ a \in cutChecks => check[a] = "running"
        /\ check[a] = "running" /\ a \notin cutChecks => \E k \in Checks : WorksOn(k, a)

WrittenBeforeSettled ==
    \A k \in Checks :
        run[k].at = "settle done" /\ run[k].of \notin forgotten => run[k].of \in idsReport

ForgottenFirst ==
    \A a \in Deletable : del[a] \in {"asset row", "directory"} =>
        a \notin Checkable \/ a \in forgotten

ChecksInv ==
    ChecksTypeOK /\ DeletesTypeOK /\ OneClaim /\ WrittenBeforeSettled
    /\ ForgottenFirst /\ DoneHasReport

(* Before anything happens no check is claimed.                               *)
LEMMA InitChecksInv == Init => ChecksInv
<1> SUFFICES ASSUME Init PROVE ChecksInv
  OBVIOUS
<1> USE DEF Init, InitChecks
<1>1. ChecksTypeOK
  BY DEF ChecksTypeOK, CheckStatuses, CheckSteps
<1>2. DeletesTypeOK /\ ForgottenFirst
  BY DEF DeletesTypeOK, ForgottenFirst, DeleteSteps
<1>3. OneClaim /\ WrittenBeforeSettled /\ DoneHasReport
  BY DEF OneClaim, WorksOn, Claimed, Requesting, Running, WrittenBeforeSettled, DoneHasReport
<1>4. QED
  BY <1>1, <1>2, <1>3 DEF ChecksInv

(* A turn moves one request or run and leaves the rest of them alone.         *)
LEMMA TurnMoves ==
    ASSUME ChecksTypeOK, NEW k \in Checks, NEW from, NEW to \in CheckSteps, Turn(k, from, to)
    PROVE  /\ run' \in [Checks -> [at : CheckSteps, of : Checkable]]
           /\ run[k].at = from /\ run'[k].at = to /\ run'[k].of = run[k].of
           /\ \A j \in Checks \ {k} : run'[j] = run[j]
BY DEF ChecksTypeOK, Turn

(* How a step changes which checks are at work.                               *)
NoClaim(k) == ~Claimed(k) /\ ~Claimed(k)' /\ UNCHANGED <<check, cutChecks>>
Stays(k)   == Claimed(k) /\ Claimed(k)' /\ UNCHANGED <<check, cutChecks>>
Takes(k)   ==
    /\ ~Claimed(k) /\ Claimed(k)' /\ UNCHANGED cutChecks
    /\ check[run[k].of] # "running"
    /\ check' = [check EXCEPT ![run[k].of] = "running"]
Ends(k)    ==
    /\ Claimed(k) /\ ~Claimed(k)'
    /\ \/ /\ UNCHANGED cutChecks
          /\ \E s \in CheckSettled : check' = [check EXCEPT ![run[k].of] = s]
       \/ UNCHANGED check /\ cutChecks' = cutChecks \cup {run[k].of}

CheckAct(k) == Receive(k) \/ CheckStep(k) \/ CutCheck(k) \/ SettleFails(k)

(* What a request and its run do to the claims.                               *)
LEMMA CheckActMoves ==
    ASSUME ChecksTypeOK, NEW k \in Checks, CheckAct(k)
    PROVE  /\ run' \in [Checks -> [at : CheckSteps, of : Checkable]]
           /\ run'[k].of = run[k].of
           /\ \A j \in Checks \ {k} : run'[j] = run[j]
           /\ NoClaim(k) \/ Stays(k) \/ Takes(k) \/ Ends(k)
           /\ forgotten' = forgotten
<1> DEFINE AtWork == (Requesting \ {"receive"}) \cup Running
<1>1. ASSUME NEW from, NEW to \in CheckSteps, Turn(k, from, to)
      PROVE  /\ run' \in [Checks -> [at : CheckSteps, of : Checkable]]
             /\ run'[k].of = run[k].of
             /\ \A j \in Checks \ {k} : run'[j] = run[j]
             /\ Claimed(k) <=> from \in AtWork
             /\ Claimed(k)' <=> to \in AtWork
  BY <1>1, TurnMoves DEF Claimed
<1>2. /\ {"receive", "store", "refuse", "scratch", "waiting", "calling", "write",
          "settle done", "settle failed", "ended"} \subseteq CheckSteps
      /\ "idle" \notin AtWork /\ "receive" \notin AtWork /\ "ended" \notin AtWork
      /\ {"store", "refuse", "scratch", "waiting", "calling", "write",
          "settle done", "settle failed"} \subseteq AtWork
  BY DEF CheckSteps, Requesting, Running
<1> HIDE DEF AtWork
<1>3. CASE Receive(k) \/ ClaimCheck(k)
  BY <1>1, <1>2, <1>3 DEF Receive, ClaimCheck, CheckRuns, NoClaim, Takes
<1>4. CASE \/ Spawn(k) \/ TakeCheckSlot(k) \/ SidecarAnswers(k)
           \/ StoreIdsFile(k) \/ WriteIdsReport(k)
  BY <1>1, <1>2, <1>4
     DEF Spawn, TakeCheckSlot, SidecarAnswers, StoreIdsFile, WriteIdsReport, Stays
<1>5. CASE Refuse(k) \/ SettleCheck(k)
  BY <1>1, <1>2, <1>5 DEF Refuse, SettleCheck, SettleRow, CheckSettled, Ends
<1>6. CASE CutCheck(k) \/ SettleFails(k)
  <2>1. Turn(k, run[k].at, "ended")
    BY <1>6 DEF CutCheck, SettleFails, Turn
  <2>2. SettleFails(k) => Claimed(k)
    BY DEF SettleFails, Claimed, Running
  <2>3. QED
    BY <1>1, <1>2, <1>6, <2>1, <2>2 DEF CutCheck, SettleFails, NoClaim, Ends
<1>7. QED
  BY <1>3, <1>4, <1>5, <1>6 DEF CheckAct, CheckStep

(* Whatever a request or its run does keeps the invariant of the checks.      *)
LEMMA CheckActKeeps ==
    ASSUME ChecksInv, NEW k \in Checks, CheckAct(k), UNCHANGED <<del, selected>>
    PROVE  ChecksInv'
<1> DEFINE a == run[k].of
<1>1. /\ run' \in [Checks -> [at : CheckSteps, of : Checkable]]
      /\ run'[k].of = run[k].of
      /\ \A j \in Checks \ {k} : run'[j] = run[j]
      /\ NoClaim(k) \/ Stays(k) \/ Takes(k) \/ Ends(k)
      /\ forgotten' = forgotten
  BY CheckActMoves DEF ChecksInv
<1>2. check \in [Checkable -> CheckStatuses] /\ a \in Checkable
  BY DEF ChecksInv, ChecksTypeOK
<1>3. check' \in [Checkable -> CheckStatuses] /\ cutChecks' \subseteq Checkable
  BY <1>1, <1>2
     DEF NoClaim, Stays, Takes, Ends, CheckSettled, CheckStatuses, ChecksInv, ChecksTypeOK
<1>4. idsDir' \subseteq Checkable /\ idsReport' \subseteq idsDir'
  BY <1>2 DEF ChecksInv, ChecksTypeOK, CheckAct, CheckStep, Receive, ClaimCheck, StoreIdsFile,
              Refuse, Spawn, TakeCheckSlot, SidecarAnswers, WriteIdsReport, Writable,
              SettleCheck, CutCheck, SettleFails
<1>5. OneClaim'
  <2>1. \A j \in Checks \ {k} : Claimed(j)' <=> Claimed(j)
    BY <1>1 DEF Claimed
  <2>2. \A j \in Checks \ {k}, b \in Checkable : WorksOn(j, b)' <=> WorksOn(j, b)
    BY <1>1, <2>1 DEF WorksOn
  <2>3. \A b \in Checkable : WorksOn(k, b)' <=> b = a /\ Claimed(k)'
    BY <1>1 DEF WorksOn
  <2>4. \A b \in Checkable : WorksOn(k, b) <=> b = a /\ Claimed(k)
    BY DEF WorksOn
  <2>5. OneClaim
    BY DEF ChecksInv
  <2>6. CASE NoClaim(k) \/ Stays(k)
    BY <1>1, <2>2, <2>3, <2>4, <2>5, <2>6 DEF OneClaim, NoClaim, Stays
  <2>7. CASE Takes(k)
    BY <1>1, <1>2, <2>2, <2>3, <2>4, <2>5, <2>7 DEF OneClaim, Takes
  <2>8. CASE Ends(k)
    BY <1>1, <1>2, <2>2, <2>3, <2>4, <2>5, <2>8 DEF OneClaim, Ends, CheckSettled
  <2>9. QED
    BY <1>1, <2>6, <2>7, <2>8
<1>6. WrittenBeforeSettled' /\ DoneHasReport'
  <2>1. idsReport' \in {idsReport, idsReport \cup {a}} \/ StoreIdsFile(k)
    BY DEF CheckAct, CheckStep, Receive, ClaimCheck, Refuse, Spawn, TakeCheckSlot,
           SidecarAnswers, WriteIdsReport, SettleCheck, CutCheck, SettleFails
  <2>2. run'[k].at = "settle done" => a \in idsReport' /\ ~StoreIdsFile(k)
    <3> SUFFICES ASSUME run'[k].at = "settle done", a \notin idsReport' \/ StoreIdsFile(k)
                 PROVE  FALSE
      OBVIOUS
    <3>1. \A from : \A to \in CheckSteps : Turn(k, from, to) => to = "settle done"
      BY TurnMoves DEF ChecksInv
    <3>2. "ended" \in CheckSteps /\ run[k] \in [at : CheckSteps, of : Checkable]
      BY DEF CheckSteps, ChecksInv, ChecksTypeOK
    <3>3. ~CutCheck(k) /\ ~SettleFails(k)
      BY <3>1, <3>2 DEF CutCheck, SettleFails, Turn
    <3>4. {"receive", "store", "refuse", "scratch", "waiting", "calling", "write",
           "settle failed"} \subseteq CheckSteps
      BY DEF CheckSteps, Requesting, Running
    <3>5. QED
      BY <3>1, <3>2, <3>3, <3>4
         DEF CheckAct, CheckStep, Receive, ClaimCheck, StoreIdsFile, Refuse, Spawn,
             TakeCheckSlot, SidecarAnswers, WriteIdsReport, SettleCheck
  <2>3. \A b \in Checkable : check'[b] = "done" =>
            check[b] = "done" \/ (b = a /\ run[k].at = "settle done")
    BY <1>2 DEF CheckAct, CheckStep, Receive, ClaimCheck, StoreIdsFile, Refuse, Spawn,
                TakeCheckSlot, SidecarAnswers, WriteIdsReport, SettleCheck, SettleRow,
                CutCheck, SettleFails, Turn
  <2>4. StoreIdsFile(k) => Claimed(k) /\ UNCHANGED check /\ idsReport \ {a} \subseteq idsReport'
    BY DEF StoreIdsFile, Turn, Claimed, Requesting
  <2>5. \A j \in Checks : run[j].at = "settle done" => Claimed(j)
    BY DEF Claimed, Running
  <2>6. StoreIdsFile(k) /\ a \notin forgotten =>
            check[a] = "running" /\ \A j \in Checks \ {k} :
                ~(run[j].of = a /\ run[j].at = "settle done")
    BY <1>2, <2>4, <2>5 DEF ChecksInv, OneClaim, WorksOn
  <2>7. WrittenBeforeSettled'
    BY <1>1, <1>2, <2>1, <2>2, <2>4, <2>6 DEF ChecksInv, WrittenBeforeSettled
  <2>8. DoneHasReport'
    <3>1. \A b \in Checkable \ forgotten : check'[b] = "done" => b \in idsReport
      BY <2>3 DEF ChecksInv, WrittenBeforeSettled, DoneHasReport
    <3>2. QED
      BY <1>1, <1>2, <2>1, <2>4, <2>6, <3>1 DEF DoneHasReport
  <2>9. QED
    BY <2>7, <2>8
<1>7. QED
  BY <1>1, <1>3, <1>4, <1>5, <1>6
     DEF ChecksInv, ChecksTypeOK, DeletesTypeOK, ForgottenFirst

(* A delete forgets the row before it removes the report.                     *)
LEMMA DeleteKeepsChecks ==
    ASSUME ChecksInv, NEW a \in Deletable, SelectReports(a) \/ DeleteStep(a) \/ CutDelete(a)
    PROVE  ChecksInv'
<1> USE StepsAssumption
        DEF SelectReports, DeleteStep, CutDelete, ForgetReportRow, ForgetReportFile,
            ForgetCheck, DeleteAssetRow, RemoveDirectory, Goes, checkVars
<1>1. UNCHANGED <<run, cutChecks>> /\ forgotten \subseteq forgotten'
  OBVIOUS
<1>2. ChecksTypeOK' /\ DeletesTypeOK'
  BY DEF ChecksInv, ChecksTypeOK, DeletesTypeOK, DeleteSteps, CheckStatuses
<1>3. ForgottenFirst'
  BY DEF ChecksInv, ForgottenFirst, DeletesTypeOK, DeleteSteps
<1>4. \A b \in Checkable \ forgotten' :
          check'[b] = check[b] /\ (b \in idsReport => b \in idsReport')
  BY DEF ChecksInv, ForgottenFirst, ChecksTypeOK
<1>5. \A k, b : WorksOn(k, b)' <=> WorksOn(k, b)
  BY <1>1 DEF WorksOn, Claimed
<1>6. OneClaim'
  BY <1>1, <1>4, <1>5 DEF ChecksInv, OneClaim
<1>7. WrittenBeforeSettled' /\ DoneHasReport'
  BY <1>1, <1>4 DEF ChecksInv, ChecksTypeOK, WrittenBeforeSettled, DoneHasReport
<1>8. QED
  BY <1>2, <1>3, <1>6, <1>7 DEF ChecksInv

(* A restart ends every run, and its row with it.                             *)
LEMMA RestartKeepsChecks == ChecksInv /\ Restart => ChecksInv'
<1> SUFFICES ASSUME ChecksInv, Restart PROVE ChecksInv'
  OBVIOUS
<1> USE DEF Restart, StopChecks, FailInterruptedChecks
<1>1. \A k \in Checks : run'[k] \in [at : {"idle", "ended"}, of : Checkable]
  BY DEF ChecksInv, ChecksTypeOK
<1>2. \A k \in Checks : ~Claimed(k)' /\ run'[k].at # "settle done"
  BY <1>1 DEF Claimed, Requesting, Running
<1>3. ChecksTypeOK' /\ DeletesTypeOK' /\ ForgottenFirst'
  BY <1>1 DEF ChecksInv, ChecksTypeOK, DeletesTypeOK, ForgottenFirst, DeleteSteps,
              CheckStatuses, CheckSteps
<1>4. OneClaim' /\ WrittenBeforeSettled' /\ DoneHasReport'
  BY <1>2 DEF ChecksInv, ChecksTypeOK, OneClaim, WorksOn, WrittenBeforeSettled, DoneHasReport
<1>5. QED
  BY <1>3, <1>4 DEF ChecksInv

(* So every step keeps the invariant of the checks.                           *)
LEMMA ChecksStep == ChecksInv /\ [Next]_vars => ChecksInv'
<1> SUFFICES ASSUME ChecksInv, [Next]_vars PROVE ChecksInv'
  OBVIOUS
<1>1. ASSUME NEW k \in Checks, CheckActs(k) PROVE ChecksInv'
  BY <1>1, CheckActKeeps DEF CheckActs, CheckAct
<1>2. ASSUME UNCHANGED <<checkVars, del, selected>> PROVE ChecksInv'
  <2>1. \A k, b : WorksOn(k, b)' <=> WorksOn(k, b)
    BY <1>2 DEF checkVars, WorksOn, Claimed
  <2>2. OneClaim'
    BY <1>2, <2>1 DEF checkVars, ChecksInv, OneClaim
  <2>3. QED
    BY <1>2, <2>2 DEF checkVars, ChecksInv, ChecksTypeOK, DeletesTypeOK, WrittenBeforeSettled,
                      ForgottenFirst, DoneHasReport
<1>3. QED
  BY <1>1, <1>2, DeleteKeepsChecks, RestartKeepsChecks DEF Next, ReportActs, vars

(* A check that reads done has its report, unless a delete took its row.      *)
THEOREM DoneChecks == Spec => []DoneHasReport
<1>1. ChecksInv => DoneHasReport
  BY DEF ChecksInv
<1>2. QED
  BY InitChecksInv, ChecksStep, <1>1, PTL DEF Spec

(* One check of an asset is at work at a time, and one only while it reads    *)
(* running, unless a delete took the row or a failure left it unsettled.      *)
THEOREM OneCheck == Spec => []OneCheckAtWork
<1>1. ChecksInv => OneCheckAtWork
  <2> SUFFICES ASSUME ChecksInv, NEW a \in Checkable \ (forgotten \cup cutChecks)
               PROVE  Cardinality({k \in Checks : run[k].of = a /\ Claimed(k)})
                          = IF check[a] = "running" THEN 1 ELSE 0
    BY DEF OneCheckAtWork
  <2> DEFINE working == {k \in Checks : run[k].of = a /\ Claimed(k)}
  <2>1. CASE check[a] = "running"
    <3>1. PICK k \in Checks : working = {k}
      BY <2>1 DEF ChecksInv, OneClaim, WorksOn
    <3>2. QED
      BY <2>1, <3>1, FS_Singleton
  <2>2. CASE check[a] # "running"
    <3>1. working = {}
      BY <2>2 DEF ChecksInv, OneClaim, WorksOn
    <3>2. QED
      BY <2>2, <3>1, FS_EmptySet
  <2>3. QED
    BY <2>1, <2>2
<1>2. QED
  BY InitChecksInv, ChecksStep, <1>1, PTL DEF Spec

=============================================================================
