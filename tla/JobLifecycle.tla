---------------------------- MODULE JobLifecycle ----------------------------
(***************************************************************************)
(* What tiletopia-server promises a client about its tiling jobs, without  *)
(* saying who runs them: the row of GET /api/v1/jobs/{id} and the events   *)
(* job.completed and job.failed.                                           *)
(*                                                                         *)
(* A job is submitted once.  Its row reads queued, then running, then done *)
(* or failed for good; it may be removed at any time.  A settled job (or   *)
(* one whose row is gone) is told of at most once, and never as something  *)
(* else than its row says.                                                 *)
(***************************************************************************)
EXTENDS Sequences

CONSTANT Jobs

VARIABLES
    submitted,  \* jobs the queue has accepted
    row,        \* status column, "none" without a row
    told        \* events emitted for each job

vars == <<submitted, row, told>>

Outcome == [completed |-> "done", failed |-> "failed"]

Init ==
    /\ submitted = {}
    /\ row = [j \in Jobs |-> "none"]
    /\ told = [j \in Jobs |-> <<>>]

Submit(j) ==
    /\ j \notin submitted
    /\ submitted' = submitted \cup {j}
    /\ row' = [row EXCEPT ![j] = "queued"]
    /\ UNCHANGED told

Start(j) ==
    /\ row[j] = "queued"
    /\ row' = [row EXCEPT ![j] = "running"]
    /\ UNCHANGED <<submitted, told>>

Settle(j) ==
    /\ row[j] = "running"
    /\ \E status \in {"done", "failed"} : row' = [row EXCEPT ![j] = status]
    /\ UNCHANGED <<submitted, told>>

Remove(js) ==
    /\ row' = [j \in Jobs |-> IF j \in js THEN "none" ELSE row[j]]
    /\ UNCHANGED <<submitted, told>>

Tell(j) ==
    /\ j \in submitted
    /\ told[j] = <<>>
    /\ \E event \in DOMAIN Outcome :
          /\ row[j] \in {Outcome[event], "none"}
          /\ told' = [told EXCEPT ![j] = <<event>>]
    /\ UNCHANGED <<submitted, row>>

Next ==
    \/ \E j \in Jobs : Submit(j) \/ Start(j) \/ Settle(j) \/ Tell(j)
    \/ \E js \in SUBSET Jobs : Remove(js)

Spec == Init /\ [][Next]_vars

=============================================================================
