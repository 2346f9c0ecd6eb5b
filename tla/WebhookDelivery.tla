--------------------------- MODULE WebhookDelivery ---------------------------
(***************************************************************************)
(* Webhook delivery in tiletopia-server: the queue of webhooks.rs, which   *)
(* lives in memory, and the subscription routes of premium_routes.rs.      *)
(*                                                                         *)
(* The tasks that emit an event run beside the one worker that posts.  An  *)
(* emit reads the subscriptions before it locks the queue, and the worker  *)
(* posts a batch it took out of the queue, one delivery after another.     *)
(***************************************************************************)
EXTENDS Naturals, Sequences, FiniteSets, SequencesExt

CONSTANTS
    Events,          \* occurrences, each emitted once
    Subscriptions,
    MaxAttempts,     \* MAX_ATTEMPTS
    MaxPending,      \* MAX_PENDING
    HistoryLimit,    \* HISTORY_LIMIT
    MaxFailedReads,  \* bound: subscription reads that fail
    MaxStops         \* bound: times the server is stopped and started again

ASSUME LimitsAssumption ==
    /\ MaxAttempts \in Nat \ {0}
    /\ MaxPending \in Nat \ {0}
    /\ HistoryLimit \in Nat \ {0}

(* They are the rows of a table. *)
ASSUME SubscriptionsAssumption == IsFiniteSet(Subscriptions)

ASSUME DeliveryBoundsAssumption == MaxFailedReads \in Nat /\ MaxStops \in Nat

VARIABLES
    subscription, \* "absent", "active", "inactive" or "deleted"
    emitting,     \* each event's emit: "waiting", "read" or "over"
    wanted,       \* the active subscriptions it read
    pending,      \* the deliveries waiting for an attempt
    batch,        \* those taken out to be attempted now
    history,      \* the finished deliveries kept for the history route
    finished,     \* every <<event, subscription>> ever finished, and how often
    queued,       \* every <<event, subscription>> ever queued
    lost,         \* those a stop of the server took from the queue
    failedReads, stops

queue == <<pending, batch, history, finished, queued>>
deliveryVars == <<subscription, emitting, wanted, queue, lost, failedReads, stops>>

Deliveries == Events \X Subscriptions
Pending  == [of : Deliveries, attempts : 0..(MaxAttempts - 1), due : BOOLEAN]
Finished == [of : Deliveries, attempts : Nat, status : {"delivered", "failed"}]

-----------------------------------------------------------------------------
InitDelivery ==
    /\ subscription = [s \in Subscriptions |-> "absent"]
    /\ emitting = [e \in Events |-> "waiting"]
    /\ wanted = [e \in Events |-> {}]
    /\ pending = <<>>
    /\ batch = <<>>
    /\ history = <<>>
    /\ finished = [d \in Deliveries |-> 0]
    /\ queued = {}
    /\ lost = {}
    /\ failedReads = 0
    /\ stops = 0

(* create_webhook, update_webhook and delete_webhook; what is in the queue   *)
(* keeps its own copy of the url and the secret.                             *)
Subscribe(s, active) ==
    /\ subscription[s] \in {"absent", "active", "inactive"}
    /\ subscription' = [subscription EXCEPT ![s] = active]
    /\ UNCHANGED <<emitting, wanted, queue, lost, failedReads, stops>>

Unsubscribe(s) ==
    /\ subscription[s] \in {"active", "inactive"}
    /\ subscription' = [subscription EXCEPT ![s] = "deleted"]
    /\ UNCHANGED <<emitting, wanted, queue, lost, failedReads, stops>>

-----------------------------------------------------------------------------
(* emit *)

EmitReads(e) ==
    /\ emitting[e] = "waiting"
    /\ \/ /\ emitting' = [emitting EXCEPT ![e] = "read"]
          /\ wanted' = [wanted EXCEPT ![e] =
                {s \in Subscriptions : subscription[s] = "active"}]
          /\ UNCHANGED failedReads
       \/ /\ failedReads < MaxFailedReads /\ failedReads' = failedReads + 1
          /\ emitting' = [emitting EXCEPT ![e] = "over"]
          /\ UNCHANGED wanted
    /\ UNCHANGED <<subscription, queue, lost, stops>>

(* How many deliveries the queue still takes: past MAX_PENDING they drop. *)
Room == IF Len(pending) < MaxPending THEN MaxPending - Len(pending) ELSE 0

(* The recipients are those whose creator may view the asset; a creator that  *)
(* cannot be read is passed over.  The queue is locked for the whole loop.    *)
EmitQueues(e) ==
    /\ emitting[e] = "read"
    /\ \E recipients \in SUBSET wanted[e] :
          LET list == SetToSeq(recipients)
              taken == SubSeq(list, 1, IF Len(list) < Room THEN Len(list) ELSE Room)
          IN  /\ pending' = pending \o [i \in DOMAIN taken |->
                     [of |-> <<e, taken[i]>>, attempts |-> 0, due |-> TRUE]]
              /\ queued' = queued \cup {<<e, taken[i]>> : i \in DOMAIN taken}
    /\ emitting' = [emitting EXCEPT ![e] = "over"]
    /\ wanted' = [wanted EXCEPT ![e] = {}]
    /\ UNCHANGED <<subscription, batch, history, finished, lost, failedReads, stops>>

-----------------------------------------------------------------------------
(* deliver_due and attempt *)

ComesDue(i) ==
    /\ i \in DOMAIN pending /\ ~pending[i].due
    /\ pending' = [pending EXCEPT ![i].due = TRUE]
    /\ UNCHANGED <<subscription, emitting, wanted, batch, history, finished,
                   queued, lost, failedReads, stops>>

(* The deliveries of a list that are due, or those that are not, in order *)
Where(list, due) ==
    LET kept[n \in 0..Len(list)] ==
            IF n = 0 THEN <<>>
            ELSE IF list[n].due = due THEN Append(kept[n - 1], list[n]) ELSE kept[n - 1]
    IN  kept[Len(list)]

LaterKept == pending
Later == Where(pending, FALSE)

TakeDue ==
    /\ batch = <<>>
    /\ \E i \in DOMAIN pending : pending[i].due
    /\ batch' = Where(pending, TRUE)
    /\ pending' = Later
    /\ UNCHANGED <<subscription, emitting, wanted, history, finished, queued,
                   lost, failedReads, stops>>

(* retry_delay answers a delay *)
RetriedOnceMore(attempts) == attempts <= MaxAttempts
Retried(attempts) == attempts < MaxAttempts

(* finish drops the oldest entry of a full history *)
FinishDelivery(d, attempts, status) ==
    LET entry == [of |-> d.of, attempts |-> attempts, status |-> status]
        kept  == IF Len(history) = HistoryLimit THEN Tail(history) ELSE history
    IN  /\ history' = Append(kept, entry)
        /\ finished' = [finished EXCEPT ![d.of] = @ + 1]

RetryDropped(d) == pending
Requeued(d) == Append(pending, d)

(* One POST and what follows from its answer, for the next of the batch.  A  *)
(* retry goes back in the queue however many wait there.                     *)
Attempt(answer) ==
    LET d == Head(batch)
        attempts == d.attempts + 1
    IN
    /\ batch # <<>>
    /\ batch' = Tail(batch)
    /\ \/ /\ answer = "accepted"
          /\ FinishDelivery(d, attempts, "delivered") /\ UNCHANGED pending
       \/ /\ answer = "refused" /\ Retried(attempts)
          /\ pending' = Requeued([d EXCEPT !.attempts = attempts, !.due = FALSE])
          /\ UNCHANGED <<history, finished>>
       \/ /\ answer = "refused" /\ ~Retried(attempts)
          /\ FinishDelivery(d, attempts, "failed") /\ UNCHANGED pending
    /\ UNCHANGED <<subscription, emitting, wanted, queued, lost, failedReads, stops>>

(* The queue and the history are in memory, the subscriptions are not; an     *)
(* emit under way is cut short.                                               *)
RestartQueue ==
    /\ stops < MaxStops /\ stops' = stops + 1
    /\ lost' = lost \cup {pending[i].of : i \in DOMAIN pending}
                    \cup {batch[i].of : i \in DOMAIN batch}
    /\ pending' = <<>> /\ batch' = <<>> /\ history' = <<>>
    /\ emitting' = [e \in Events |->
                       IF emitting[e] = "read" THEN "over" ELSE emitting[e]]
    /\ wanted' = [e \in Events |-> {}]
    /\ UNCHANGED <<subscription, finished, queued, failedReads>>

Deliver == TakeDue \/ \E answer \in {"accepted", "refused"} : Attempt(answer)

NextDelivery ==
    \/ \E s \in Subscriptions :
          \/ \E active \in {"active", "inactive"} : Subscribe(s, active)
          \/ Unsubscribe(s)
    \/ \E e \in Events : EmitReads(e) \/ EmitQueues(e)
    \/ \E i \in DOMAIN pending : ComesDue(i)
    \/ Deliver \/ RestartQueue

DeliverySpec == InitDelivery /\ [][NextDelivery]_deliveryVars

(* The worker ticks, a POST ends, and delays run out; a receiver may refuse   *)
(* for ever.                                                                  *)
FairDeliverySpec ==
    /\ DeliverySpec
    /\ WF_deliveryVars(Deliver)
    /\ WF_deliveryVars(\E i \in DOMAIN pending : ComesDue(i))

-----------------------------------------------------------------------------
(* The subscriptions, the emits and the queue hold values of their kinds. *)
DeliveryTypeOK ==
    /\ subscription \in
          [Subscriptions -> {"absent", "active", "inactive", "deleted"}]
    /\ emitting \in [Events -> {"waiting", "read", "over"}]
    /\ wanted \in [Events -> SUBSET Subscriptions]
    /\ pending \in Seq(Pending)
    /\ batch \in Seq(Pending)
    /\ history \in Seq(Finished)
    /\ finished \in [Deliveries -> Nat]
    /\ queued \subseteq Deliveries
    /\ lost \subseteq Deliveries
    /\ failedReads \in Nat /\ stops \in Nat

Copies(list, d) == Cardinality({i \in DOMAIN list : list[i].of = d})

(* One event gets one delivery on one subscription, and it is in one place:   *)
(* waiting, being attempted, or finished once (WebhookDelivery: "One row per  *)
(* event per subscription, whatever the outcome").  Only a stop loses it.     *)
OneRowPerDelivery ==
    \A d \in Deliveries :
        Copies(pending, d) + Copies(batch, d) + finished[d]
            = IF d \in queued \ lost THEN 1 ELSE 0

(* A delivery is given up after MAX_ATTEMPTS attempts, not before, and none   *)
(* is posted more often.                                                      *)
FailedAfterAllAttempts ==
    \A i \in DOMAIN history :
        /\ history[i].attempts <= MaxAttempts
        /\ history[i].status = "failed" => history[i].attempts = MaxAttempts

(* Retries do not go through the cap, yet memory stays bounded: an event is   *)
(* queued only below the cap and stays for MAX_ATTEMPTS rounds of the worker, *)
(* so no more than that many caps wait, and one more with those under way.    *)
WaitingBounded ==
    /\ Len(pending) <= MaxAttempts * MaxPending
    /\ Len(pending) + Len(batch) <= (MaxAttempts + 1) * MaxPending

(* Every queued delivery is finished, one way or the other, also when its     *)
(* receiver never accepts and other receivers keep the worker busy.           *)
QueuedFinishes ==
    \A d \in Deliveries : d \in queued ~> finished[d] = 1 \/ d \in lost

=============================================================================
