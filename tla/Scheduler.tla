------------------------------ MODULE Scheduler ------------------------------
(***************************************************************************)
(* The scheduled jobs of tiletopia-server: the worker of scheduler.rs, the *)
(* rows of scheduled_jobs in db.rs and the routes of premium_routes.rs     *)
(* that create, enable, disable and delete a job.                          *)
(*                                                                         *)
(* A time is kept as what it says now: past or still in the future.  One   *)
(* action is one awaited statement, or one step of the action a job runs;  *)
(* the routes act between any two of them.                                 *)
(***************************************************************************)
EXTENDS Naturals, FiniteSets

CONSTANTS
    Jobs,            \* scheduled jobs
    OneShots,        \* those that run once, the others recur
    MaxRunAttempts,  \* MAX_RUN_ATTEMPTS
    MaxRequests,     \* bound: PUT requests
    MaxFaults,       \* bound: statements that fail
    MaxCrashes,      \* bound: times the server is stopped and started again
    NoJob

ASSUME JobsAssumption ==
    /\ OneShots \subseteq Jobs
    /\ NoJob \notin Jobs

ASSUME BoundsAssumption ==
    /\ MaxRunAttempts \in Nat \ {0}
    /\ MaxRequests \in Nat
    /\ MaxFaults \in Nat
    /\ MaxCrashes \in Nat

VARIABLES
    row,       \* the row of each job, see Row
    held,      \* what a PUT request has read and is about to write
    passed,    \* one-shots whose time has passed
    due,       \* the rest of the list the worker read
    running,   \* the job the worker is running
    ran,       \* how that run ended, until its row is written
    attempts,  \* failed runs in a row since a success or an enabling PUT
    succeeded, \* how often each one-shot's action was carried out
    requests, faults, crashes

worker  == <<due, running, ran>>
history == <<attempts, succeeded>>
vars    == <<row, held, passed, worker, history, requests, faults, crashes>>

Times == {"none", "past", "future"}

Row  == [state : {"absent", "stored", "deleted"}, enabled : BOOLEAN,
         next : Times, failures : Nat]
Held == [busy : BOOLEAN, enabled : BOOLEAN, next : Times]

Absent  == [state |-> "absent", enabled |-> FALSE, next |-> "none", failures |-> 0]
Nothing == [busy |-> FALSE, enabled |-> FALSE, next |-> "none"]

Stored(j) == row[j].state = "stored"

-----------------------------------------------------------------------------
(* first_run when a job is created or enabled, "none" for a one-shot's error *)
FirstRun(j) == IF j \in passed THEN "none" ELSE "future"

(* next_run_after *)
NextRunAfterAlways(j) == IF j \in passed THEN "past" ELSE "future"
NextRunAfter(j) == IF j \in OneShots THEN "none" ELSE "future"

(* The failure a run would add is the last one its job gets. *)
LastAttemptOffByOne(j) == row[j].failures >= MaxRunAttempts
LastAttempt(j) == row[j].failures + 1 >= MaxRunAttempts

(* next_state.  Only the worker writes failures, so the row still has the     *)
(* number that was read with the due list.                                    *)
NextState(j, outcome) ==
    CASE outcome = "success" ->
            [row[j] EXCEPT !.next = NextRunAfter(j),
                           !.enabled = NextRunAfter(j) # "none",
                           !.failures = 0]
      [] outcome = "failure" /\ LastAttempt(j) ->
            [row[j] EXCEPT !.next = "none", !.enabled = FALSE,
                           !.failures = @ + 1]
      [] OTHER ->
            [row[j] EXCEPT !.next = "past", !.enabled = TRUE,
                           !.failures = @ + 1]

(* due_scheduled_jobs *)
Due(j) == Stored(j) /\ row[j].enabled /\ row[j].next = "past"
OneDueRow == {CHOOSE j \in Jobs : Due(j)}
DueRows == {j \in Jobs : Due(j)}

Fails == faults < MaxFaults /\ faults' = faults + 1

(* The worker has no job at hand. *)
OutcomeKept == running' = NoJob /\ UNCHANGED ran
WorkerFree == running' = NoJob /\ ran' = "nothing"

-----------------------------------------------------------------------------
Init ==
    /\ row = [j \in Jobs |-> Absent]
    /\ held = [j \in Jobs |-> Nothing]
    /\ passed = {}
    /\ due = {}
    /\ running = NoJob
    /\ ran = "nothing"
    /\ attempts = [j \in Jobs |-> 0]
    /\ succeeded = [j \in OneShots |-> 0]
    /\ requests = 0
    /\ faults = 0
    /\ crashes = 0

(* A time passes: that of a one-shot is the same wherever it is kept. *)
Pass(j) ==
    /\ \/ j \in OneShots /\ j \notin passed
       \/ j \notin OneShots /\ row[j].next = "future"
    /\ passed' = passed \cup ({j} \cap OneShots)
    /\ row' = [row EXCEPT ![j].next = IF @ = "future" THEN "past" ELSE @]
    /\ held' = [held EXCEPT ![j].next =
                    IF @ = "future" /\ j \in OneShots THEN "past" ELSE @]
    /\ UNCHANGED <<worker, history, requests, faults, crashes>>

(* create_scheduled_job: a one-shot whose time has passed is refused. *)
Create(j, enabled) ==
    /\ row[j].state = "absent" /\ FirstRun(j) # "none"
    /\ row' = [row EXCEPT ![j] = [Absent EXCEPT !.state = "stored",
                                                !.enabled = enabled,
                                                !.next = FirstRun(j)]]
    /\ UNCHANGED <<held, passed, worker, history, requests, faults, crashes>>

(* update_scheduled_job: disabling writes back the next run it has read *)
NextKept(j, enabled) == row[j].next
NextOnUpdate(j, enabled) == IF enabled THEN FirstRun(j) ELSE row[j].next

UpdateReads(j, enabled) ==
    /\ requests < MaxRequests /\ requests' = requests + 1
    /\ Stored(j) /\ ~held[j].busy
    /\ held' = [held EXCEPT ![j] = [busy |-> TRUE, enabled |-> enabled,
                                    next |-> NextOnUpdate(j, enabled)]]
    /\ UNCHANGED <<row, passed, worker, history, faults, crashes>>

UpdateWrites(j) ==
    /\ held[j].busy
    /\ \/ /\ Stored(j)
          /\ row' = [row EXCEPT ![j].enabled = held[j].enabled,
                                ![j].next = held[j].next]
          /\ attempts' = IF held[j].enabled
                         THEN [attempts EXCEPT ![j] = 0] ELSE attempts
          /\ UNCHANGED faults
       \/ ~Stored(j) /\ UNCHANGED <<row, attempts, faults>>
       \/ Fails /\ UNCHANGED <<row, attempts>>
    /\ held' = [held EXCEPT ![j] = Nothing]
    /\ UNCHANGED <<passed, worker, succeeded, requests, crashes>>

Delete(j) ==
    /\ Stored(j)
    /\ row' = [row EXCEPT ![j].state = "deleted"]
    /\ UNCHANGED <<held, passed, worker, history, requests, faults, crashes>>

-----------------------------------------------------------------------------
(* run_due.  The list is read once; a tick that finds nothing due, or cannot  *)
(* read, changes nothing.                                                     *)
ReadDue ==
    /\ due = {} /\ running = NoJob
    /\ \E j \in Jobs : Due(j)
    /\ due' = DueRows
    /\ UNCHANGED <<row, held, passed, running, ran, history, requests, faults,
                   crashes>>

Begin(j) ==
    /\ running = NoJob /\ j \in due
    /\ running' = j
    /\ due' = due \ {j}
    /\ UNCHANGED <<row, held, passed, ran, history, requests, faults, crashes>>

(* execute: a re-tile is submitted or files and rows are pruned, or it fails *)
End(outcome) ==
    /\ running # NoJob /\ ran = "nothing"
    /\ ran' = outcome
    /\ attempts' = [attempts EXCEPT ![running] =
                        IF outcome = "failure" THEN @ + 1 ELSE 0]
    /\ succeeded' = IF outcome = "success" /\ running \in OneShots
                    THEN [succeeded EXCEPT ![running] = @ + 1] ELSE succeeded
    /\ UNCHANGED <<row, held, passed, due, running, requests, faults, crashes>>

(* record_scheduled_run; when it fails the row stays as it was *)
Record ==
    /\ ran # "nothing"
    /\ \/ /\ Stored(running) /\ UNCHANGED faults
          /\ row' = [row EXCEPT ![running] = NextState(running, ran)]
       \/ ~Stored(running) /\ UNCHANGED <<row, faults>>
       \/ Fails /\ UNCHANGED row
    /\ WorkerFree
    /\ UNCHANGED <<held, passed, due, history, requests, crashes>>

(* The server is stopped and started again: the rows are all it keeps. *)
Restart ==
    /\ crashes < MaxCrashes /\ crashes' = crashes + 1
    /\ held' = [j \in Jobs |-> Nothing]
    /\ due' = {} /\ WorkerFree
    /\ UNCHANGED <<row, passed, history, requests, faults>>

Work == ReadDue \/ (\E j \in Jobs : Begin(j)) \/ Record
            \/ (\E outcome \in {"success", "failure"} : End(outcome))

Next ==
    \/ \E j \in Jobs : Pass(j) \/ UpdateWrites(j) \/ Delete(j)
    \/ \E j \in Jobs, on \in BOOLEAN : Create(j, on) \/ UpdateReads(j, on)
    \/ Work \/ Restart

Spec == Init /\ [][Next]_vars

(* The worker loop ticks and what it runs ends.  No request has to come. *)
FairSpec == Spec /\ WF_vars(Work)

-----------------------------------------------------------------------------
(* The rows, the requests and the worker hold values of their kinds. *)
TypeOK ==
    /\ row \in [Jobs -> Row]
    /\ held \in [Jobs -> Held]
    /\ passed \subseteq OneShots
    /\ due \subseteq Jobs
    /\ running \in Jobs \cup {NoJob}
    /\ ran \in {"nothing", "success", "failure"}
    /\ ran # "nothing" => running # NoJob
    /\ attempts \in [Jobs -> Nat]
    /\ succeeded \in [OneShots -> Nat]
    /\ requests \in Nat /\ faults \in Nat /\ crashes \in Nat

(* A job that keeps failing is run MAX_RUN_ATTEMPTS times in a row and no     *)
(* more until someone enables it; only a run that could not be recorded is    *)
(* not counted.                                                               *)
AttemptsBounded ==
    \A j \in Jobs : attempts[j] <= MaxRunAttempts + faults + crashes

(* A one-shot's action is carried out once; again only after a run that was   *)
(* not recorded or a request that enabled the job.                            *)
OneShotOnce ==
    \A j \in OneShots : succeeded[j] <= 1 + requests + faults + crashes

(* An enabled recurring job has a next run, also one that was enabled again   *)
(* after its failures had left it with none.                                  *)
EnabledRecurs ==
    \A j \in Jobs \ OneShots :
        Stored(j) /\ row[j].enabled => row[j].next # "none"

(* A job that comes due is run, however often the others fail and come back   *)
(* on the next tick, unless it is disabled, put off or deleted first.         *)
DueRuns == \A j \in Jobs : Due(j) ~> (running = j \/ ~Due(j))

(* db.rs:1267, "a run only moves the schedule on": recording a run does not   *)
(* enable a job that a request has disabled meanwhile.                        *)
(* The code does not keep this one (README, section 3).                       *)
RunLeavesDisabled ==
    [][\A j \in Jobs :
          running = j /\ running' = NoJob /\ ~row[j].enabled
              => ~row'[j].enabled]_vars

=============================================================================
