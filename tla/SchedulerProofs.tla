--------------------------- MODULE SchedulerProofs ---------------------------
(***************************************************************************)
(* What Scheduler promises, for any jobs, requests, failed statements and  *)
(* restarts: a failing job stops after its attempts, an enabled recurring  *)
(* job has a next run, and a one-shot is carried out once.                 *)
(***************************************************************************)
EXTENDS Scheduler, TLAPS

Ended(j, outcome) == running = j /\ ran = outcome

(* Runs that failed and that no row tells of: those not recorded, and the one *)
(* that is about to be.                                                       *)
Unrecorded(j) == faults + crashes + (IF Ended(j, "failure") THEN 1 ELSE 0)

(* A job whose next run needs no request.                                     *)
InLine(j) ==
    \/ Stored(j) /\ row[j].enabled /\ ~Ended(j, "success") /\ ~Ended(j, "failure")
    \/ j \in due
    \/ Ended(j, "nothing")

(* One more run stays within the bound.                                       *)
Counted(j) ==
    /\ attempts[j] <= MaxRunAttempts + faults + crashes
    /\ InLine(j) => attempts[j] + 1 <= MaxRunAttempts + faults + crashes
    /\ Stored(j) => attempts[j] <= row[j].failures + Unrecorded(j)
    /\ Ended(j, "success") => attempts[j] = 0

(* The worker has a job once, and none that was never created.                *)
Listed(j) ==
    /\ running = j => j \notin due
    /\ row[j].state = "absent" => attempts[j] = 0 /\ j \notin due /\ running # j

(* An enabled recurring job has a next run in its row, and in the request     *)
(* that is about to write one.                                                *)
Recurs(j) ==
    j \notin OneShots =>
        /\ Stored(j) /\ row[j].enabled => row[j].next # "none"
        /\ held[j].busy /\ held[j].enabled => held[j].next # "none"

JobInv(j) == Counted(j) /\ Listed(j) /\ Recurs(j)

Inv == TypeOK /\ \A j \in Jobs : JobInv(j)

(* Before anything happens.                                                   *)
LEMMA InitInv == Init => Inv
<1> SUFFICES ASSUME Init PROVE Inv
  OBVIOUS
<1> USE JobsAssumption, BoundsAssumption DEF Init, Absent, Nothing
<1>1. row \in [Jobs -> Row] /\ held \in [Jobs -> Held]
  BY DEF Row, Held, Times
<1>2. TypeOK
  BY <1>1 DEF TypeOK
<1>3. ASSUME NEW j \in Jobs PROVE JobInv(j)
  BY DEF JobInv, Counted, InLine, Unrecorded, Ended, Stored, Listed, Recurs
<1>4. QED
  BY <1>2, <1>3 DEF Inv

-----------------------------------------------------------------------------
(* Rows *)

(* What recording a run makes of a row.                                       *)
LEMMA NextStateRow ==
    ASSUME NEW j \in Jobs, row[j] \in Row, NEW outcome \in {"success", "failure"},
           NEW q, q = NextState(j, outcome)
    PROVE  /\ q \in Row /\ q.state = row[j].state
           /\ j \notin OneShots /\ q.enabled => q.next # "none"
           /\ outcome = "failure" =>
                  /\ q.failures = row[j].failures + 1
                  /\ q.enabled => q.failures < MaxRunAttempts
<1>1. row[j].failures \in Nat
  BY DEF Row
<1>2. CASE outcome = "success"
  <2>1. PICK t \in Times, b \in BOOLEAN, n \in Nat :
                t = NextRunAfter(j) /\ b = (t # "none") /\ n = 0
    BY DEF NextRunAfter, Times
  <2>2. q = [row[j] EXCEPT !.next = t, !.enabled = b, !.failures = n]
    BY <1>2, <2>1 DEF NextState
  <2>3. q \in Row
    BY <2>2 DEF Row
  <2>5. q.state = row[j].state /\ q.enabled = b /\ q.next = t
    BY <2>2 DEF Row
  <2>4. QED
    BY <1>2, <2>1, <2>3, <2>5
<1>3. ASSUME NEW t \in Times, NEW b \in BOOLEAN,
             q = [row[j] EXCEPT !.next = t, !.enabled = b, !.failures = @ + 1]
      PROVE  /\ q \in Row /\ q.state = row[j].state
             /\ q.enabled = b /\ q.next = t /\ q.failures = row[j].failures + 1
  <2> DEFINE n == row[j].failures + 1
  <2>1. n \in Nat /\ q = [row[j] EXCEPT !.next = t, !.enabled = b, !.failures = n]
    BY <1>1, <1>3
  <2> HIDE DEF n
  <2>2. /\ q \in Row /\ q.state = row[j].state
        /\ q.enabled = b /\ q.next = t /\ q.failures = n
    BY <1>3, <2>1 DEF Row
  <2>3. QED
    BY <2>2 DEF n
<1>4. CASE outcome = "failure" /\ LastAttempt(j)
  <2>1. q = [row[j] EXCEPT !.next = "none", !.enabled = FALSE, !.failures = @ + 1]
    BY <1>4 DEF NextState
  <2>2. "none" \in Times /\ FALSE \in BOOLEAN
    BY DEF Times
  <2>3. /\ q \in Row /\ q.state = row[j].state
        /\ q.enabled = FALSE /\ q.failures = row[j].failures + 1
    BY <1>3, <2>1, <2>2
  <2>4. QED
    BY <1>4, <2>3
<1>5. CASE outcome = "failure" /\ ~LastAttempt(j)
  <2>1. q = [row[j] EXCEPT !.next = "past", !.enabled = TRUE, !.failures = @ + 1]
    BY <1>5 DEF NextState
  <2>2. "past" \in Times /\ TRUE \in BOOLEAN
    BY DEF Times
  <2>3. /\ q \in Row /\ q.state = row[j].state
        /\ q.next = "past" /\ q.failures = row[j].failures + 1
    BY <1>3, <2>1, <2>2
  <2>4. row[j].failures + 1 < MaxRunAttempts
    BY <1>1, <1>5, BoundsAssumption DEF LastAttempt
  <2>5. QED
    BY <1>5, <2>3, <2>4
<1>6. QED
  BY <1>2, <1>4, <1>5

(* A statement works or fails.                                                *)
LEMMA FaultsCounted ==
    ASSUME TypeOK, Fails \/ UNCHANGED faults
    PROVE  faults' \in Nat /\ (faults' = faults \/ faults' = faults + 1)
BY DEF TypeOK, Fails

-----------------------------------------------------------------------------
(* What the step of one job does to it; the others keep their rows.           *)
RouteStep(j) ==
    \/ Pass(j) \/ UpdateWrites(j) \/ Delete(j)
    \/ \E on \in BOOLEAN : Create(j, on) \/ UpdateReads(j, on)

(* A time that passes leaves all of a row and a request but their time.       *)
LEMMA PassDoes ==
    ASSUME TypeOK, NEW x \in Jobs, Pass(x)
    PROVE  \E r \in Row, h \in Held :
               /\ row' = [row EXCEPT ![x] = r] /\ held' = [held EXCEPT ![x] = h]
               /\ r.state = row[x].state /\ r.enabled = row[x].enabled
               /\ r.failures = row[x].failures
               /\ row[x].next = "none" <=> r.next = "none"
               /\ h.busy = held[x].busy /\ h.enabled = held[x].enabled
               /\ held[x].next = "none" <=> h.next = "none"
<1> DEFINE r == [row[x] EXCEPT !.next = IF @ = "future" THEN "past" ELSE @]
           h == [held[x] EXCEPT !.next =
                    IF @ = "future" /\ x \in OneShots THEN "past" ELSE @]
<1>1. row' = [row EXCEPT ![x] = r] /\ held' = [held EXCEPT ![x] = h]
  BY DEF Pass, TypeOK
<1>2. row[x] \in Row /\ held[x] \in Held
  BY DEF TypeOK
<1>3. /\ r \in Row /\ r.state = row[x].state /\ r.enabled = row[x].enabled
      /\ r.failures = row[x].failures /\ (row[x].next = "none" <=> r.next = "none")
  BY <1>2 DEF Row, Times
<1>4. /\ h \in Held /\ h.busy = held[x].busy /\ h.enabled = held[x].enabled
      /\ held[x].next = "none" <=> h.next = "none"
  BY <1>2 DEF Held, Times
<1> HIDE DEF r, h
<1>5. QED
  BY <1>1, <1>3, <1>4

(* A request that is written gives the row its switch and its time.           *)
LEMMA UpdateWritesDoes ==
    ASSUME TypeOK, NEW x \in Jobs, UpdateWrites(x), row' # row
    PROVE  \E r \in Row :
               /\ row' = [row EXCEPT ![x] = r]
               /\ held[x].busy /\ Stored(x)
               /\ r.state = row[x].state /\ r.failures = row[x].failures
               /\ r.enabled = held[x].enabled /\ r.next = held[x].next
               /\ attempts' = IF held[x].enabled
                              THEN [attempts EXCEPT ![x] = 0] ELSE attempts
               /\ UNCHANGED faults
<1> DEFINE r == [row[x] EXCEPT !.enabled = held[x].enabled, !.next = held[x].next]
<1>1. /\ held[x].busy /\ Stored(x)
      /\ row' = [row EXCEPT ![x].enabled = held[x].enabled, ![x].next = held[x].next]
      /\ attempts' = IF held[x].enabled
                     THEN [attempts EXCEPT ![x] = 0] ELSE attempts
      /\ UNCHANGED faults
  BY DEF UpdateWrites
<1>2. row' = [row EXCEPT ![x] = r]
  BY <1>1 DEF TypeOK
<1>3. row[x] \in Row /\ held[x].enabled \in BOOLEAN /\ held[x].next \in Times
  BY DEF TypeOK, Held
<1>4. /\ r \in Row /\ r.state = row[x].state /\ r.failures = row[x].failures
      /\ r.enabled = held[x].enabled /\ r.next = held[x].next
  BY <1>3 DEF Row
<1> HIDE DEF r
<1>5. QED
  BY <1>1, <1>2, <1>4

(* The routes keep the kinds of the variables.                                *)
LEMMA RouteTypes ==
    ASSUME TypeOK, NEW x \in Jobs, RouteStep(x)
    PROVE  TypeOK'
<1>1. row' \in [Jobs -> Row]
  <2>1. CASE Pass(x)
    BY <2>1, PassDoes DEF TypeOK
  <2>2. CASE UpdateWrites(x)
    BY <2>2, UpdateWritesDoes DEF TypeOK
  <2>3. CASE Delete(x)
    BY <2>3 DEF Delete, TypeOK, Row
  <2>4. ASSUME NEW on \in BOOLEAN, Create(x, on) PROVE row' \in [Jobs -> Row]
    BY <2>4 DEF Create, TypeOK, Row, Times, Absent, FirstRun
  <2>5. ASSUME NEW on \in BOOLEAN, UpdateReads(x, on) PROVE row' \in [Jobs -> Row]
    BY <2>5 DEF UpdateReads, TypeOK
  <2>6. QED
    BY <2>1, <2>2, <2>3, <2>4, <2>5 DEF RouteStep
<1>2. held' \in [Jobs -> Held]
  <2>1. CASE Pass(x)
    BY <2>1, PassDoes DEF TypeOK
  <2>2. CASE UpdateWrites(x)
    BY <2>2 DEF UpdateWrites, TypeOK, Held, Times, Nothing
  <2>3. CASE held' = held
    BY <2>3 DEF TypeOK
  <2>4. ASSUME NEW on \in BOOLEAN, UpdateReads(x, on) PROVE held' \in [Jobs -> Held]
    <3>1. NextOnUpdate(x, on) \in Times
      BY DEF NextOnUpdate, FirstRun, TypeOK, Row, Times
    <3>2. QED
      BY <2>4, <3>1 DEF UpdateReads, TypeOK, Held
  <2>5. QED
    BY <2>1, <2>2, <2>3, <2>4 DEF RouteStep, Delete, Create
<1>3. attempts' \in [Jobs -> Nat] /\ UNCHANGED succeeded
  <2>1. attempts' \in {attempts, [attempts EXCEPT ![x] = 0]} /\ UNCHANGED succeeded
    BY DEF RouteStep, Pass, UpdateWrites, Delete, Create, UpdateReads, history
  <2>2. QED
    BY <2>1 DEF TypeOK
<1>4. faults' \in Nat
  BY FaultsCounted DEF RouteStep, Pass, UpdateWrites, Delete, Create, UpdateReads
<1>5. requests' \in Nat
  <2>1. requests' = requests \/ requests' = requests + 1
    BY DEF RouteStep, Pass, UpdateWrites, Delete, Create, UpdateReads
  <2>2. QED
    BY <2>1 DEF TypeOK
<1>6. passed' \subseteq OneShots /\ UNCHANGED <<due, running, ran, crashes>>
  BY DEF RouteStep, Pass, UpdateWrites, Delete, Create, UpdateReads, worker, TypeOK
<1>7. QED
  BY <1>1, <1>2, <1>3, <1>4, <1>5, <1>6 DEF TypeOK

(* What holds of a job is kept by a step that leaves it alone, or that only   *)
(* counts more runs as unrecorded.                                            *)
Untouched(j) ==
    /\ row'[j] = row[j] /\ held'[j] = held[j] /\ attempts'[j] = attempts[j]
    /\ j \in due' <=> j \in due
    /\ running' = j <=> running = j
    /\ running = j => ran' = ran
    /\ faults' \in Nat /\ crashes' \in Nat
    /\ faults' >= faults /\ crashes' >= crashes

(* Such a step keeps what holds of the job.                                   *)
LEMMA UntouchedKeeps ==
    ASSUME TypeOK, NEW j \in Jobs, JobInv(j), Untouched(j)
    PROVE  JobInv(j)'
<1> USE BoundsAssumption DEF TypeOK, Row, JobInv, Untouched
<1>1. Counted(j)'
  BY DEF Counted, InLine, Unrecorded, Ended, Stored
<1>2. Listed(j)' /\ Recurs(j)'
  BY DEF Listed, Recurs, Stored
<1>3. QED
  BY <1>1, <1>2

(* The routes keep the invariant.                                             *)
LEMMA RouteKeeps ==
    ASSUME Inv, NEW x \in Jobs, RouteStep(x)
    PROVE  Inv'
<1>1. TypeOK /\ TypeOK'
  BY RouteTypes DEF Inv
<1>2. (faults' = faults \/ faults' = faults + 1) /\ crashes' = crashes
  BY <1>1, FaultsCounted
     DEF RouteStep, Pass, UpdateWrites, Delete, Create, UpdateReads
<1>3. UNCHANGED <<due, running, ran>>
  BY DEF RouteStep, Pass, UpdateWrites, Delete, Create, UpdateReads, worker
<1>4. ASSUME NEW j \in Jobs, j # x PROVE JobInv(j)'
  <2>1. row'[j] = row[j] /\ held'[j] = held[j] /\ attempts'[j] = attempts[j]
    BY <1>1, <1>4
       DEF TypeOK, RouteStep, Pass, UpdateWrites, Delete, Create, UpdateReads, history
  <2>2. Untouched(j)
    BY <1>1, <1>2, <1>3, <2>1 DEF Untouched, TypeOK
  <2>3. QED
    BY <1>1, <1>4, <2>2, UntouchedKeeps DEF Inv
<1>5. JobInv(x)'
  <2> USE JobsAssumption, BoundsAssumption, <1>1, <1>2, <1>3
          DEF TypeOK, JobInv, Counted, InLine, Unrecorded, Ended, Stored, Listed, Recurs
  <2>1. JobInv(x)
    BY DEF Inv
  <2>2. CASE Pass(x)
    <3>1. attempts' = attempts /\ faults' = faults
      BY <2>2 DEF Pass, history
    <3>2. /\ row'[x].state = row[x].state /\ row'[x].enabled = row[x].enabled
          /\ row'[x].failures = row[x].failures
          /\ row[x].next # "none" => row'[x].next # "none"
          /\ held'[x].busy = held[x].busy /\ held'[x].enabled = held[x].enabled
          /\ held[x].next # "none" => held'[x].next # "none"
      BY <2>2, PassDoes
    <3>3. QED
      BY <2>1, <3>1, <3>2 DEF Row
  <2>3. CASE UpdateWrites(x)
    <3>1. held'[x].busy = FALSE
      BY <2>3 DEF UpdateWrites, Nothing
    <3>2. CASE row' = row
      <4>1. attempts' = attempts \/ attempts' = [attempts EXCEPT ![x] = 0]
        BY <2>3 DEF UpdateWrites
      <4>2. QED
        BY <2>1, <3>1, <3>2, <4>1 DEF Row
    <3>3. CASE row' # row
      <4>1. /\ held[x].busy /\ Stored(x)
            /\ row'[x].state = row[x].state /\ row'[x].failures = row[x].failures
            /\ row'[x].enabled = held[x].enabled /\ row'[x].next = held[x].next
            /\ attempts'[x] = (IF held[x].enabled THEN 0 ELSE attempts[x])
            /\ faults' = faults
        BY <2>3, <3>3, UpdateWritesDoes
      <4>2. held[x].enabled \in BOOLEAN
        BY DEF Held
      <4>3. QED
        BY <2>1, <3>1, <4>1, <4>2 DEF Row
    <3>4. QED
      BY <3>2, <3>3
  <2>4. CASE Delete(x)
    <3>1. row'[x].state = "deleted" /\ UNCHANGED <<held, attempts, faults>>
      BY <2>4 DEF Delete, history, Row
    <3>2. QED
      BY <2>1, <3>1
  <2>5. ASSUME NEW on \in BOOLEAN, Create(x, on) PROVE JobInv(x)'
    <3>1. /\ row[x].state = "absent" /\ row'[x].state = "stored"
          /\ row'[x].next # "none" /\ row'[x].failures = 0
          /\ UNCHANGED <<held, attempts, faults>>
      BY <2>5 DEF Create, Absent, history, Row
    <3>2. QED
      BY <2>1, <3>1
  <2>6. ASSUME NEW on \in BOOLEAN, UpdateReads(x, on) PROVE JobInv(x)'
    <3>1. /\ held'[x].enabled = on /\ UNCHANGED <<row, attempts, faults>>
          /\ held'[x].next = NextOnUpdate(x, on)
      BY <2>6 DEF UpdateReads, history, Held
    <3>2. x \notin OneShots /\ on => NextOnUpdate(x, on) # "none"
      BY DEF NextOnUpdate, FirstRun
    <3>3. QED
      BY <2>1, <3>1, <3>2
  <2>7. QED
    BY <2>2, <2>3, <2>4, <2>5, <2>6 DEF RouteStep
<1>6. QED
  BY <1>1, <1>4, <1>5 DEF Inv

-----------------------------------------------------------------------------
(* The worker, and a stop of the server.                                      *)
WorkStep == Work \/ Restart

(* The outcome of a run is recorded in the row of the job.                    *)
LEMMA RecordDoes ==
    ASSUME TypeOK, Record, row' # row
    PROVE  \E r \in Row :
               /\ running \in Jobs /\ ran \in {"success", "failure"} /\ Stored(running)
               /\ row' = [row EXCEPT ![running] = r] /\ UNCHANGED faults
               /\ r.state = row[running].state
               /\ running \notin OneShots /\ r.enabled => r.next # "none"
               /\ ran = "failure" =>
                      /\ r.failures = row[running].failures + 1
                      /\ r.enabled => r.failures < MaxRunAttempts
<1>1. /\ running \in Jobs /\ ran \in {"success", "failure"} /\ Stored(running)
      /\ row' = [row EXCEPT ![running] = NextState(running, ran)] /\ UNCHANGED faults
  BY DEF Record, TypeOK
<1>2. row[running] \in Row
  BY <1>1 DEF TypeOK
<1>3. QED
  BY <1>1, <1>2, NextStateRow

(* The worker keeps the kinds of the variables.                               *)
LEMMA WorkTypes ==
    ASSUME TypeOK, WorkStep
    PROVE  TypeOK'
<1>1. row' \in [Jobs -> Row]
  <2>1. CASE Record
    BY <2>1, RecordDoes DEF TypeOK
  <2>2. CASE row' = row
    BY <2>2 DEF TypeOK
  <2>3. QED
    BY <2>1, <2>2 DEF WorkStep, Work, ReadDue, Begin, End, Restart
<1>2. held' \in [Jobs -> Held]
  <2>1. held' = held \/ held' = [j \in Jobs |-> Nothing]
    BY DEF WorkStep, Work, ReadDue, Begin, End, Record, Restart
  <2>2. Nothing \in Held
    BY DEF Nothing, Held, Times
  <2>3. QED
    BY <2>1, <2>2 DEF TypeOK
<1>3. attempts' \in [Jobs -> Nat]
  <2>1. \/ attempts' = attempts
        \/ running \in Jobs /\ attempts' = [attempts EXCEPT ![running] = @ + 1]
        \/ attempts' = [attempts EXCEPT ![running] = 0]
    BY DEF WorkStep, Work, ReadDue, Begin, End, Record, Restart, history, TypeOK
  <2>2. QED
    BY <2>1 DEF TypeOK
<1>4. succeeded' \in [OneShots -> Nat]
  <2>1. \/ succeeded' = succeeded
        \/ running \in OneShots /\ succeeded' = [succeeded EXCEPT ![running] = @ + 1]
    BY DEF WorkStep, Work, ReadDue, Begin, End, Record, Restart, history
  <2>2. QED
    BY <2>1 DEF TypeOK
<1>5. faults' \in Nat
  BY FaultsCounted DEF WorkStep, Work, ReadDue, Begin, End, Record, Restart
<1>6. crashes' \in Nat /\ UNCHANGED <<requests, passed>>
  <2>1. (crashes' = crashes \/ crashes' = crashes + 1) /\ UNCHANGED <<requests, passed>>
    BY DEF WorkStep, Work, ReadDue, Begin, End, Record, Restart
  <2>2. QED
    BY <2>1 DEF TypeOK
<1>7. /\ due' \subseteq Jobs /\ running' \in Jobs \cup {NoJob}
      /\ ran' \in {"nothing", "success", "failure"}
      /\ ran' # "nothing" => running' # NoJob
  BY DEF WorkStep, Work, ReadDue, DueRows, Begin, End, Record, WorkerFree, Restart, TypeOK
<1>8. QED
  BY <1>1, <1>2, <1>3, <1>4, <1>5, <1>6, <1>7 DEF TypeOK

(* The worker and a stop keep the invariant.                                  *)
LEMMA WorkKeeps == Inv /\ WorkStep => Inv'
<1> SUFFICES ASSUME Inv, WorkStep PROVE Inv'
  OBVIOUS
<1>1. TypeOK /\ TypeOK'
  BY WorkTypes DEF Inv
<1>2. ASSUME NEW j \in Jobs PROVE JobInv(j)'
  <2> USE JobsAssumption, BoundsAssumption, <1>1, <1>2
          DEF TypeOK, JobInv, Counted, InLine, Unrecorded, Ended, Stored, Listed, Recurs
  <2>1. JobInv(j)
    BY DEF Inv
  <2>2. CASE ReadDue
    <3>1. /\ UNCHANGED <<row, held, running, ran, attempts, faults, crashes>>
          /\ running = NoJob /\ ran = "nothing"
          /\ j \in due' => Stored(j) /\ row[j].enabled
      BY <2>2 DEF ReadDue, DueRows, Due, history
    <3>2. QED
      BY <2>1, <3>1
  <2>3. ASSUME NEW x \in Jobs, Begin(x) PROVE JobInv(j)'
    <3>1. /\ UNCHANGED <<row, held, ran, attempts, faults, crashes>>
          /\ running = NoJob /\ ran = "nothing" /\ x \in due
          /\ running' = x /\ due' = due \ {x}
      BY <2>3 DEF Begin, history
    <3>2. QED
      BY <2>1, <3>1
  <2>4. ASSUME NEW outcome \in {"success", "failure"}, End(outcome) PROVE JobInv(j)'
    <3>1. /\ UNCHANGED <<row, held, due, running, faults, crashes>>
          /\ running \in Jobs /\ ran = "nothing" /\ ran' = outcome
          /\ running # j => attempts'[j] = attempts[j]
          /\ running = j => attempts'[j] =
                 IF outcome = "failure" THEN attempts[j] + 1 ELSE 0
      BY <2>4 DEF End
    <3>2. QED
      BY <2>1, <2>4, <3>1 DEF Row
  <2>5. CASE Record
    <3>1. /\ UNCHANGED <<held, due, attempts, crashes>> /\ ran # "nothing"
          /\ running \in Jobs /\ running' = NoJob /\ ran' = "nothing"
      BY <2>5 DEF Record, WorkerFree, history
    <3>2. faults' = faults \/ faults' = faults + 1
      BY <2>5, FaultsCounted DEF Record
    <3>3. CASE running # j
      <4>1. row'[j] = row[j]
        BY <2>5, <3>3 DEF Record
      <4>2. Untouched(j)
        BY <3>1, <3>2, <3>3, <4>1 DEF Untouched
      <4>3. QED
        BY <2>1, <4>2, UntouchedKeeps
    <3>4. CASE running = j /\ row' = row
      <4>1. faults' = faults + 1 \/ ~Stored(j) \/ row[j] = NextState(j, ran)
        BY <2>5, <3>4 DEF Record, Fails
      <4>2. row[j] \in Row /\ row[j].failures \in Nat
        BY DEF Row
      <4>3. row[j] = NextState(j, ran) => ran = "success"
        BY <3>1, <3>4, <4>2, NextStateRow
      <4>4. CASE faults' = faults + 1
        BY <2>1, <3>1, <3>4, <4>2, <4>4
      <4>5. CASE faults' = faults /\ (~Stored(j) \/ ran = "success")
        BY <2>1, <3>1, <3>4, <4>2, <4>5
      <4>6. QED
        BY <3>2, <4>1, <4>3, <4>4, <4>5
    <3>5. CASE running = j /\ row' # row
      <4>1. QED
        BY <2>1, <2>5, <3>1, <3>5, RecordDoes DEF Row
    <3>6. QED
      BY <3>3, <3>4, <3>5
  <2>6. CASE Restart
    <3>1. /\ UNCHANGED <<row, attempts, faults>> /\ crashes' = crashes + 1
          /\ held'[j].busy = FALSE
          /\ due' = {} /\ running' = NoJob /\ ran' = "nothing"
      BY <2>6 DEF Restart, Nothing, WorkerFree, history
    <3>2. QED
      BY <2>1, <3>1 DEF Row
  <2>7. QED
    BY <2>2, <2>3, <2>4, <2>5, <2>6 DEF WorkStep, Work
<1>3. QED
  BY <1>1, <1>2 DEF Inv

(* So every step keeps the invariant.                                         *)
LEMMA StepKeeps == Inv /\ [Next]_vars => Inv'
<1>1. Inv /\ UNCHANGED vars => Inv'
  BY DEF vars, worker, history, Inv, TypeOK, JobInv, Counted, InLine, Unrecorded, Ended,
         Stored, Listed, Recurs
<1>2. QED
  BY <1>1, RouteKeeps, WorkKeeps DEF Next, RouteStep, WorkStep

(* A failing job is not run more than MAX_RUN_ATTEMPTS times in a row, but    *)
(* for the runs that could not be recorded (next_state, record_scheduled_run).*)
THEOREM FailingJobStops == Spec => []AttemptsBounded
<1>1. Inv => AttemptsBounded
  BY DEF Inv, JobInv, Counted, AttemptsBounded
<1>2. QED
  BY InitInv, StepKeeps, <1>1, PTL DEF Spec

(* An enabled recurring job has a next run, whatever it is doing and whoever  *)
(* changed its row last (update_scheduled_job, next_run_after).               *)
THEOREM RecurringHasNext == Spec => []EnabledRecurs
<1>1. Inv => EnabledRecurs
  BY DEF Inv, JobInv, Recurs, EnabledRecurs
<1>2. QED
  BY InitInv, StepKeeps, <1>1, PTL DEF Spec

-----------------------------------------------------------------------------
(* One-shots *)

(* A one-shot whose action may be carried out again with no further request:  *)
(* its row has it due or will, the worker has it, or its run has failed.      *)
ToRun(j) ==
    \/ /\ Stored(j) /\ row[j].enabled /\ row[j].next # "none"
       /\ ~Ended(j, "success")
    \/ j \in due
    \/ Ended(j, "nothing") \/ Ended(j, "failure")

(* A request that has read the row and will make its job due once more.       *)
Rearms(j) == held[j].busy /\ held[j].enabled /\ held[j].next # "none"

Once(b) == IF b THEN 1 ELSE 0

(* What was carried out and what still may be is within the bound.            *)
Spent(j) ==
    /\ succeeded[j] + Once(ToRun(j)) + Once(Rearms(j)) <= 1 + requests + faults + crashes
    /\ row[j].state = "absent" => succeeded[j] = 0 /\ ~held[j].busy

SpentInv == Inv /\ \A j \in OneShots : Spent(j)

(* What the counters of a step may do, and what must not become likelier.     *)
LEMMA SpentFrame ==
    ASSUME TypeOK, TypeOK', NEW j \in OneShots, Spent(j),
           requests' >= requests, faults' >= faults, crashes' >= crashes,
           row'[j].state = "absent" => row[j].state = "absent",
           row'[j].state = "absent" => ~held'[j].busy,
           succeeded'[j] = succeeded[j],
           ToRun(j)' /\ ~ToRun(j) =>
               \/ requests' + faults' + crashes' > requests + faults + crashes
               \/ Rearms(j) /\ ~Rearms(j)',
           Rearms(j)' /\ ~Rearms(j) =>
               /\ requests' + faults' + crashes' > requests + faults + crashes
               /\ ToRun(j)' => ToRun(j)
    PROVE  Spent(j)'
<1> USE JobsAssumption DEF TypeOK
<1>1. /\ succeeded[j] \in Nat /\ succeeded'[j] \in Nat
      /\ requests \in Nat /\ faults \in Nat /\ crashes \in Nat
      /\ requests' \in Nat /\ faults' \in Nat /\ crashes' \in Nat
  OBVIOUS
<1>2. succeeded'[j] + Once(ToRun(j)') + Once(Rearms(j)')
          <= 1 + requests' + faults' + crashes'
  <2> DEFINE n == requests + faults + crashes
             m == requests' + faults' + crashes'
  <2>1. n \in Nat /\ m \in Nat /\ m >= n
    <3> HIDE DEF TypeOK
    <3>1. requests' >= requests /\ faults' >= faults /\ crashes' >= crashes
      OBVIOUS
    <3>2. n \in Nat /\ m \in Nat
      BY <1>1
    <3>3. ASSUME NEW a \in Nat, NEW b \in Nat, NEW c \in Nat,
                 NEW x \in Nat, NEW y \in Nat, NEW z \in Nat,
                 x >= a, y >= b, z >= c
          PROVE  x + y + z >= a + b + c
      BY <3>3
    <3>4. requests' + faults' + crashes' >= requests + faults + crashes
      BY <1>1, <3>1, <3>3
    <3>5. QED
      BY <3>2, <3>4
  <2>2. succeeded[j] + Once(ToRun(j)) + Once(Rearms(j)) <= 1 + n
    BY <1>1 DEF Spent, Once
  <2>3. /\ ToRun(j)' /\ ~ToRun(j) => m > n \/ (Rearms(j) /\ ~Rearms(j)')
        /\ Rearms(j)' /\ ~Rearms(j) => m > n /\ (ToRun(j)' => ToRun(j))
    BY <1>1
  <2> HIDE DEF n, m
  <2>4. succeeded[j] + Once(ToRun(j)') + Once(Rearms(j)') <= 1 + m
    <3> HIDE DEF TypeOK
    <3>1. CASE ToRun(j)' /\ Rearms(j)'
      BY <1>1, <2>1, <2>2, <2>3, <3>1 DEF Once
    <3>2. CASE ToRun(j)' /\ ~Rearms(j)'
      BY <1>1, <2>1, <2>2, <2>3, <3>2 DEF Once
    <3>3. CASE ~ToRun(j)' /\ Rearms(j)'
      BY <1>1, <2>1, <2>2, <2>3, <3>3 DEF Once
    <3>4. CASE ~ToRun(j)' /\ ~Rearms(j)'
      BY <1>1, <2>1, <2>2, <2>3, <3>4 DEF Once
    <3>5. QED
      BY <3>1, <3>2, <3>3, <3>4
  <2>5. QED
    BY <1>1, <2>4 DEF n, m, Once
<1>3. row'[j].state = "absent" => succeeded'[j] = 0 /\ ~held'[j].busy
  BY DEF Spent
<1>4. QED
  BY <1>2, <1>3 DEF Spent, Once, ToRun, Rearms, Stored, Ended

(* The routes keep a one-shot within its bound: only a request that has been  *)
(* counted makes it due again.                                                *)
LEMMA RouteSpends ==
    ASSUME SpentInv, NEW x \in Jobs, RouteStep(x), NEW j \in OneShots
    PROVE  Spent(j)'
<1>1. TypeOK /\ TypeOK' /\ Inv /\ Spent(j)
  BY RouteTypes DEF SpentInv, Inv
<1>2. /\ UNCHANGED <<due, running, ran, crashes, succeeded>>
      /\ faults' = faults \/ faults' = faults + 1
      /\ requests' = requests \/ requests' = requests + 1
  BY <1>1, FaultsCounted
     DEF RouteStep, Pass, UpdateWrites, Delete, Create, UpdateReads, worker, history
<1>3. /\ j \in Jobs
      /\ requests' >= requests /\ faults' >= faults /\ crashes' >= crashes
  BY <1>1, <1>2, JobsAssumption DEF TypeOK
<1>4. CASE j # x
  <2>1. row'[j] = row[j] /\ held'[j] = held[j]
    BY <1>1, <1>3, <1>4
       DEF TypeOK, RouteStep, Pass, UpdateWrites, Delete, Create, UpdateReads
  <2>2. (ToRun(j)' <=> ToRun(j)) /\ (Rearms(j)' <=> Rearms(j))
    BY <1>2, <2>1 DEF ToRun, Rearms, Stored, Ended
  <2>3. QED
    BY <1>1, <1>2, <1>3, <2>1, <2>2, SpentFrame DEF Spent
<1>5. CASE j = x /\ Pass(x)
  <2>1. /\ row'[j].state = row[j].state /\ row'[j].enabled = row[j].enabled
        /\ row[j].next = "none" <=> row'[j].next = "none"
        /\ held'[j].busy = held[j].busy /\ held'[j].enabled = held[j].enabled
        /\ held[j].next = "none" <=> held'[j].next = "none"
    BY <1>1, <1>3, <1>5, PassDoes DEF TypeOK
  <2>2. (ToRun(j)' <=> ToRun(j)) /\ (Rearms(j)' <=> Rearms(j))
    BY <1>2, <2>1 DEF ToRun, Rearms, Stored, Ended
  <2>3. QED
    BY <1>1, <1>2, <1>3, <2>1, <2>2, SpentFrame DEF Spent
<1>6. CASE j = x /\ UpdateWrites(x)
  <2>1. held'[j].busy = FALSE
    BY <1>1, <1>3, <1>6 DEF UpdateWrites, Nothing, TypeOK
  <2>2. ~Rearms(j)'
    BY <2>1 DEF Rearms
  <2>3. /\ row'[j].state = row[j].state
        /\ ToRun(j)' /\ ~ToRun(j) => Rearms(j)
    <3>1. CASE row' = row
      BY <1>2, <3>1 DEF ToRun, Stored, Ended
    <3>2. CASE row' # row
      <4>1. /\ held[j].busy /\ row'[j].state = row[j].state
            /\ row'[j].enabled = held[j].enabled /\ row'[j].next = held[j].next
        BY <1>1, <1>3, <1>6, <3>2, UpdateWritesDoes DEF TypeOK
      <4>2. QED
        BY <1>2, <4>1 DEF ToRun, Rearms, Stored, Ended
    <3>3. QED
      BY <3>1, <3>2
  <2>4. QED
    BY <1>1, <1>2, <1>3, <2>1, <2>2, <2>3, SpentFrame
<1>7. CASE j = x /\ Delete(x)
  <2>1. /\ row'[j].state = "deleted" /\ row'[j].enabled = row[j].enabled
        /\ row'[j].next = row[j].next /\ held'[j] = held[j]
        /\ row[j].state = "stored"
    BY <1>1, <1>3, <1>7 DEF Delete, Stored, TypeOK, Row
  <2>2. (ToRun(j)' => ToRun(j)) /\ (Rearms(j)' <=> Rearms(j))
    BY <1>2, <2>1 DEF ToRun, Rearms, Stored, Ended
  <2>3. QED
    BY <1>1, <1>2, <1>3, <2>1, <2>2, SpentFrame
<1>8. CASE j = x /\ \E on \in BOOLEAN : Create(x, on)
  <2>1. /\ row[j].state = "absent" /\ row'[j].state = "stored"
        /\ held' = held /\ UNCHANGED <<requests, faults>>
    BY <1>1, <1>3, <1>8 DEF Create, Absent, TypeOK, Row
  <2>2. succeeded'[j] = 0 /\ ~Rearms(j)'
    BY <1>1, <1>2, <2>1 DEF Spent, Rearms
  <2>3. requests' \in Nat /\ faults' \in Nat /\ crashes' \in Nat
    BY <1>1 DEF TypeOK
  <2>4. Once(ToRun(j)') \in {0, 1} /\ Once(Rearms(j)') = 0
    BY <2>2 DEF Once
  <2>5. succeeded'[j] + Once(ToRun(j)') + Once(Rearms(j)')
            <= 1 + requests' + faults' + crashes'
    BY <2>2, <2>3, <2>4
  <2>6. QED
    BY <2>1, <2>5 DEF Spent, Once
<1>9. CASE j = x /\ \E on \in BOOLEAN : UpdateReads(x, on)
  <2>1. /\ row' = row /\ faults' = faults /\ requests' = requests + 1
        /\ row[j].state = "stored"
    BY <1>9 DEF UpdateReads, Stored
  <2>2. ToRun(j)' <=> ToRun(j)
    BY <1>2, <2>1 DEF ToRun, Stored, Ended
  <2>3. requests' + faults' + crashes' > requests + faults + crashes
    BY <1>1, <1>2, <2>1 DEF TypeOK
  <2>4. QED
    BY <1>1, <1>2, <1>3, <2>1, <2>2, <2>3, SpentFrame
<1>10. QED
  BY <1>4, <1>5, <1>6, <1>7, <1>8, <1>9 DEF RouteStep

(* The worker and a stop keep a one-shot within its bound: a run that         *)
(* succeeded is due again only when it could not be recorded.                 *)
LEMMA WorkSpends ==
    ASSUME SpentInv, WorkStep, NEW j \in OneShots
    PROVE  Spent(j)'
<1>1. TypeOK /\ TypeOK' /\ Inv /\ Spent(j)
  BY WorkTypes DEF SpentInv, Inv
<1>2. /\ UNCHANGED requests
      /\ faults' = faults \/ faults' = faults + 1
      /\ crashes' = crashes \/ crashes' = crashes + 1
  BY <1>1, FaultsCounted
     DEF WorkStep, Work, ReadDue, Begin, End, Record, Restart
<1>3. /\ j \in Jobs /\ j # NoJob
      /\ requests' >= requests /\ faults' >= faults /\ crashes' >= crashes
  BY <1>1, <1>2, JobsAssumption DEF TypeOK
<1>4. running = j => j \notin due
  BY <1>1, <1>3 DEF Inv, JobInv, Listed
<1>5. CASE ReadDue
  <2>1. /\ UNCHANGED <<row, held, running, ran, succeeded>> /\ running = NoJob
        /\ j \in due' => Stored(j) /\ row[j].enabled /\ row[j].next = "past"
    BY <1>5 DEF ReadDue, DueRows, Due, history
  <2>2. (ToRun(j)' => ToRun(j)) /\ (Rearms(j)' <=> Rearms(j))
    BY <1>3, <2>1 DEF ToRun, Rearms, Stored, Ended
  <2>3. QED
    BY <1>1, <1>2, <1>3, <2>1, <2>2, SpentFrame DEF Spent
<1>6. CASE \E x \in Jobs : Begin(x)
  <2>1. PICK x \in Jobs : Begin(x)
    BY <1>6
  <2>2. /\ UNCHANGED <<row, held, ran, succeeded>> /\ running = NoJob
        /\ ran = "nothing" /\ x \in due /\ running' = x /\ due' = due \ {x}
    BY <1>1, <2>1 DEF Begin, history, TypeOK
  <2>3. (ToRun(j)' => ToRun(j)) /\ (Rearms(j)' <=> Rearms(j))
    BY <1>3, <2>2 DEF ToRun, Rearms, Stored, Ended
  <2>4. QED
    BY <1>1, <1>2, <1>3, <2>2, <2>3, SpentFrame DEF Spent
<1>7. CASE \E outcome \in {"success", "failure"} : End(outcome)
  <2>1. PICK outcome \in {"success", "failure"} : End(outcome)
    BY <1>7
  <2>2. /\ UNCHANGED <<row, held, due, running, faults, crashes>>
        /\ ran = "nothing" /\ ran' = outcome
    BY <2>1 DEF End
  <2>3. Rearms(j)' <=> Rearms(j)
    BY <2>2 DEF Rearms
  <2>4. CASE running = j /\ outcome = "success"
    <3>1. succeeded'[j] = succeeded[j] + 1
      BY <1>1, <2>1, <2>4 DEF End, TypeOK
    <3>2. ToRun(j) /\ ~ToRun(j)'
      BY <1>4, <2>2, <2>4 DEF ToRun, Ended
    <3>3. Once(ToRun(j)) = 1 /\ Once(ToRun(j)') = 0
      BY <3>2 DEF Once
    <3>4. Once(Rearms(j)') = Once(Rearms(j)) /\ Once(Rearms(j)) \in {0, 1}
      BY <2>3 DEF Once
    <3>5. /\ succeeded[j] \in Nat /\ requests \in Nat /\ faults \in Nat
          /\ crashes \in Nat
      BY <1>1 DEF TypeOK
    <3>6. succeeded[j] + Once(ToRun(j)) + Once(Rearms(j))
              <= 1 + requests + faults + crashes
      BY <1>1 DEF Spent
    <3>7. succeeded'[j] + Once(ToRun(j)') + Once(Rearms(j)')
              <= 1 + requests' + faults' + crashes'
      BY <1>2, <2>2, <3>1, <3>3, <3>4, <3>5, <3>6
    <3>8. row'[j].state # "absent"
      BY <1>1, <1>3, <2>2, <2>4 DEF Inv, JobInv, Listed
    <3>9. QED
      BY <3>7, <3>8 DEF Spent, Once
  <2>5. CASE ~(running = j /\ outcome = "success")
    <3>1. succeeded'[j] = succeeded[j]
      BY <1>1, <2>1, <2>5 DEF End, TypeOK
    <3>2. ToRun(j)' => ToRun(j)
      BY <2>1, <2>2, <2>5 DEF ToRun, Stored, Ended
    <3>3. QED
      BY <1>1, <1>2, <1>3, <2>2, <2>3, <3>1, <3>2, SpentFrame DEF Spent
  <2>6. QED
    BY <2>4, <2>5
<1>8. CASE Record
  <2>1. /\ UNCHANGED <<held, due, succeeded, crashes>> /\ ran # "nothing"
        /\ running \in Jobs /\ running' = NoJob /\ ran' = "nothing"
    BY <1>1, <1>8 DEF Record, WorkerFree, history, TypeOK
  <2>2. Rearms(j)' <=> Rearms(j)
    BY <2>1 DEF Rearms
  <2>3. row'[j].state = row[j].state
    BY <1>1, <1>3, <1>8, RecordDoes DEF TypeOK
  <2>4. ToRun(j)' /\ ~ToRun(j)
            => requests' + faults' + crashes' > requests + faults + crashes
    <3>1. CASE running # j
      <4>1. row'[j] = row[j]
        BY <1>1, <1>3, <1>8, <3>1 DEF Record, TypeOK
      <4>2. QED
        BY <1>3, <2>1, <3>1, <4>1 DEF ToRun, Stored, Ended
    <3>2. CASE running = j /\ ran = "failure"
      BY <3>2 DEF ToRun, Ended
    <3>3. CASE running = j /\ ran = "success"
      <4>1. CASE faults' = faults + 1
        BY <1>1, <1>2, <2>1, <4>1 DEF TypeOK
      <4>2. CASE ~Stored(j)
        BY <1>3, <1>4, <2>1, <2>3, <3>3, <4>2 DEF ToRun, Stored, Ended
      <4>3. CASE row'[j] = NextState(j, "success")
        <5>1. NextRunAfter(j) = "none" /\ row[j] \in Row
          BY <1>1, <1>3 DEF NextRunAfter, TypeOK
        <5>2. row'[j].next = "none"
          BY <4>3, <5>1 DEF NextState, Row
        <5>3. QED
          BY <1>3, <1>4, <2>1, <3>3, <5>2 DEF ToRun, Ended
      <4>4. QED
        BY <1>1, <1>3, <1>8, <3>3, <4>1, <4>2, <4>3 DEF Record, Fails, TypeOK
    <3>4. QED
      BY <1>1, <2>1, <3>1, <3>2, <3>3 DEF TypeOK
  <2>5. QED
    BY <1>1, <1>2, <1>3, <2>1, <2>2, <2>3, <2>4, SpentFrame DEF Spent
<1>9. CASE Restart
  <2>1. /\ UNCHANGED <<row, succeeded, faults>> /\ crashes' = crashes + 1
        /\ held'[j].busy = FALSE
    BY <1>3, <1>9 DEF Restart, Nothing, history
  <2>2. ~Rearms(j)'
    BY <2>1 DEF Rearms
  <2>3. requests' + faults' + crashes' > requests + faults + crashes
    BY <1>1, <1>2, <2>1 DEF TypeOK
  <2>4. QED
    BY <1>1, <1>2, <1>3, <2>1, <2>2, <2>3, SpentFrame
<1>10. QED
  BY <1>5, <1>6, <1>7, <1>8, <1>9 DEF WorkStep, Work

(* So every step keeps every one-shot within its bound.                       *)
LEMMA SpentKeeps == SpentInv /\ [Next]_vars => SpentInv'
<1> SUFFICES ASSUME SpentInv, [Next]_vars PROVE SpentInv'
  OBVIOUS
<1>1. Inv'
  BY StepKeeps DEF SpentInv
<1>2. ASSUME NEW j \in OneShots PROVE Spent(j)'
  <2>1. CASE UNCHANGED vars
    BY <1>2, <2>1
       DEF SpentInv, Spent, ToRun, Rearms, Stored, Ended, vars, worker, history
  <2>2. CASE \E x \in Jobs : RouteStep(x)
    BY <1>2, <2>2, RouteSpends
  <2>3. CASE WorkStep
    BY <1>2, <2>3, WorkSpends
  <2>4. QED
    BY <2>1, <2>2, <2>3 DEF Next, RouteStep, WorkStep
<1>3. QED
  BY <1>1, <1>2 DEF SpentInv

(* A one-shot's action is carried out once: again only after a run that could *)
(* not be recorded, a stop, or a request (next_run_after, first_run and the   *)
(* read and write of update_scheduled_job).                                   *)
THEOREM OneShotRunsOnce == Spec => []OneShotOnce
<1>1. Init => SpentInv
  <2> SUFFICES ASSUME Init, NEW j \in OneShots PROVE Spent(j)
    BY InitInv DEF SpentInv
  <2>1. j \in Jobs /\ j # NoJob
    BY JobsAssumption
  <2>2. ~ToRun(j) /\ ~Rearms(j)
    BY <2>1 DEF Init, Absent, Nothing, ToRun, Rearms, Stored, Ended
  <2>3. Once(ToRun(j)) = 0 /\ Once(Rearms(j)) = 0
    BY <2>2 DEF Once
  <2>4. QED
    BY <2>1, <2>3 DEF Spent, Init, Nothing
<1>2. SpentInv => OneShotOnce
  <2> SUFFICES ASSUME SpentInv, NEW j \in OneShots
               PROVE  succeeded[j] <= 1 + requests + faults + crashes
    BY DEF OneShotOnce
  <2>1. /\ succeeded[j] \in Nat /\ requests \in Nat /\ faults \in Nat
        /\ crashes \in Nat
    BY DEF SpentInv, Inv, TypeOK
  <2>2. Once(ToRun(j)) \in {0, 1} /\ Once(Rearms(j)) \in {0, 1}
    BY DEF Once
  <2>3. succeeded[j] + Once(ToRun(j)) + Once(Rearms(j))
            <= 1 + requests + faults + crashes
    BY DEF SpentInv, Spent
  <2>4. QED
    BY <2>1, <2>2, <2>3
<1>3. QED
  BY <1>1, <1>2, SpentKeeps, PTL DEF Spec

=============================================================================
