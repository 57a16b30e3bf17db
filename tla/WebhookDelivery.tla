---------------------------- MODULE WebhookDelivery ----------------------------
(***************************************************************************)
(* Webhooks: publish_event of services/webhook-service.py, which fans an   *)
(* event out to rows of webhook_deliveries, and services/webhook-delivery  *)
(* .py, whose workers POST them and whose retry checker puts the overdue   *)
(* ones back in the queue.  The queue is in memory, with one worker, or in *)
(* Redis, with the ARQ workers.  An entry says which delivery to make and  *)
(* nothing else, and a delivery may be queued several times.               *)
(*                                                                         *)
(* With Redis the events of jobs are published by the ARQ process, which   *)
(* runs them.  Only the API process calls init_redis, so there get_redis   *)
(* gives None and what the ARQ process publishes goes to the fallback      *)
(* queue of that process, which starts no worker and no checker for it.    *)
(*                                                                         *)
(* The webhook tables have a foreign key on SQLite (database.py), so that  *)
(* a webhook with deliveries cannot be deleted there, and none on          *)
(* PostgreSQL, where they come from the ORM models.  No operation makes a  *)
(* webhook inactive, so the branch for that is not there.                  *)
(***************************************************************************)
EXTENDS Naturals, FiniteSets

CONSTANTS
    Event, Hook, Worker,
    Deployments, \* the pairs of a queue, "memory" or "redis", and a database,
                 \* "sqlite" or "postgres", that there may be
    Backoffs,    \* the length of RETRY_BACKOFFS
    MaxQueued,   \* bound: entries of one delivery in the queue
    MaxFaults,   \* bound: crashes and unexpected exceptions
    None         \* no delivery

Delivery == Event \X Hook

ASSUME DeliveryAssumption ==
    /\ Deployments \subseteq {"memory", "redis"} \X {"sqlite", "postgres"}
    /\ Backoffs \in Nat /\ MaxQueued \in Nat \ {0} /\ MaxFaults \in Nat
    /\ None \notin Delivery

VARIABLES
    deployment,            \* which of Deployments it is
    publisher,             \* each event's process, "api" or "arq"
    hooks,                 \* the webhooks there are
    pub, subs,             \* each event's publish_event: its step, webhooks found
    status, attempt, due,  \* webhook_deliveries, due: next_retry_at
    queued,                \* entries of each delivery in the queue
    fallback,              \* deliveries in the fallback queue of the ARQ process
    pc, cur, seen,         \* each worker: step, delivery, the attempt it read
    accepted, refused,     \* the endpoint said 2xx to it; tries that failed
    faults                 \* crashes and exceptions so far

setupVars  == <<deployment, publisher>>
hookVars   == <<setupVars, hooks, pub, subs>>
rowVars    == <<status, attempt, due>>
queueVars  == <<queued, fallback>>
workerVars == <<pc, cur, seen>>
worldVars  == <<accepted, refused, faults>>
vars == <<hookVars, rowVars, queueVars, workerVars, worldVars>>

EventOf(d) == d[1]
HookOf(d)  == d[2]
Rows(e)    == {d \in Delivery : EventOf(d) = e /\ HookOf(d) \in subs[e]}
Held       == {cur[w] : w \in Worker} \ {None}
UseRedis   == deployment[1] = "redis"
ForeignKey == deployment[2] = "sqlite"
From(p)    == {e \in Event : publisher[e] = p}
Overdue(d) == status[d] = "pending" /\ due[d] = "now"

Init ==
    /\ deployment \in Deployments
    /\ publisher \in [Event -> IF UseRedis THEN {"api", "arq"} ELSE {"api"}]
    /\ hooks = Hook
    /\ pub = [e \in Event |-> "idle"] /\ subs = [e \in Event |-> {}]
    /\ status = [d \in Delivery |-> "absent"]
    /\ attempt = [d \in Delivery |-> 1]
    /\ due = [d \in Delivery |-> "none"]
    /\ queued = [d \in Delivery |-> 0] /\ fallback = {}
    /\ pc = [w \in Worker |-> "idle"]
    /\ cur = [w \in Worker |-> None]
    /\ seen = [w \in Worker |-> 0]
    /\ accepted = [d \in Delivery |-> FALSE]
    /\ refused = [d \in Delivery |-> 0]
    /\ faults = 0

-----------------------------------------------------------------------------
(* Publishing.                                                             *)

(* get_subscriptions, in a session of its own.                             *)
Match(e) ==
    /\ pub[e] = "idle"
    /\ subs' = [subs EXCEPT ![e] = hooks]
    /\ pub' = [pub EXCEPT ![e] = IF hooks = {} THEN "done" ELSE "matched"]
    /\ UNCHANGED <<setupVars, hooks, rowVars, queueVars, workerVars, worldVars>>

(* All rows in one transaction.  If a webhook is gone by now the foreign   *)
(* key fails the transaction, and _publish_job_event drops the exception.  *)
SaveRows(e) ==
    /\ pub[e] = "matched"
    /\ IF ForeignKey /\ ~(subs[e] \subseteq hooks)
       THEN pub' = [pub EXCEPT ![e] = "done"] /\ UNCHANGED status
       ELSE /\ pub' = [pub EXCEPT ![e] = "saved"]
            /\ status' = [d \in Delivery |-> IF d \in Rows(e) THEN "pending" ELSE status[d]]
    /\ UNCHANGED <<setupVars, hooks, subs, attempt, due, queueVars, workerVars, worldVars>>

(* One more entry for each of these deliveries, up to the bound.           *)
Put(ds) ==
    queued' = [d \in Delivery |-> IF d \in ds /\ queued[d] < MaxQueued
                                  THEN queued[d] + 1 ELSE queued[d]]

(* The queue of the process that publishes: the one the workers read, or,  *)
(* in the ARQ process, the one that nobody reads.                          *)
Enqueue(e) ==
    /\ pub[e] = "saved"
    /\ pub' = [pub EXCEPT ![e] = "done"]
    /\ IF publisher[e] = "api"
       THEN Put(Rows(e)) /\ UNCHANGED fallback
       ELSE fallback' = fallback \cup Rows(e) /\ UNCHANGED queued
    /\ UNCHANGED <<setupVars, hooks, subs, rowVars, workerVars, worldVars>>

(* DELETE /webhooks/{id}.                                                  *)
DeleteWebhook(h) ==
    /\ h \in hooks
    /\ ForeignKey => \A d \in Delivery : HookOf(d) = h => status[d] = "absent"
    /\ hooks' = hooks \ {h}
    /\ UNCHANGED <<setupVars, pub, subs, rowVars, queueVars, workerVars, worldVars>>

-----------------------------------------------------------------------------
(* Delivering.                                                             *)

(* deliver reads the row and its webhook, and nothing else of the row than *)
(* the attempt: not its status.  Without a webhook it skips the delivery.  *)
Take(w, d) ==
    /\ pc[w] = "idle" /\ queued[d] > 0
    /\ UseRedis \/ Held = {}
    /\ queued' = [queued EXCEPT ![d] = @ - 1]
    /\ IF HookOf(d) \in hooks
       THEN /\ pc' = [pc EXCEPT ![w] = "loaded"]
            /\ cur' = [cur EXCEPT ![w] = d]
            /\ seen' = [seen EXCEPT ![w] = attempt[d]]
       ELSE UNCHANGED workerVars
    /\ UNCHANGED <<hookVars, rowVars, fallback, worldVars>>

(* The POST, and what comes back: 2xx, or another status, a timeout or a   *)
(* request error.                                                          *)
PostAccepted(w) ==
    /\ pc[w] = "loaded"
    /\ pc' = [pc EXCEPT ![w] = "accepted"]
    /\ accepted' = [accepted EXCEPT ![cur[w]] = TRUE]
    /\ UNCHANGED <<hookVars, rowVars, queueVars, cur, seen, refused, faults>>

PostRefused(w) ==
    /\ pc[w] = "loaded"
    /\ pc' = [pc EXCEPT ![w] = "refused"]
    /\ refused' = [refused EXCEPT ![cur[w]] = IF @ <= Backoffs THEN @ + 1 ELSE @]
    /\ UNCHANGED <<hookVars, rowVars, queueVars, cur, seen, accepted, faults>>

Release(w) ==
    /\ pc' = [pc EXCEPT ![w] = "idle"]
    /\ cur' = [cur EXCEPT ![w] = None]
    /\ seen' = [seen EXCEPT ![w] = 0]

SaveDelivered(w) ==
    /\ pc[w] = "accepted"
    /\ status' = [status EXCEPT ![cur[w]] = "delivered"]
    /\ Release(w)
    /\ UNCHANGED <<hookVars, attempt, due, queueVars, worldVars>>

Reschedule(d, n, when) ==
    /\ status' = [status EXCEPT ![d] = "pending"]
    /\ attempt' = [attempt EXCEPT ![d] = n]
    /\ due' = [due EXCEPT ![d] = when]

GiveUp(d) == status' = [status EXCEPT ![d] = "failed"] /\ UNCHANGED <<attempt, due>>

Refuse(w) == pc[w] = "refused" /\ Release(w) /\ UNCHANGED <<hookVars, queueVars, worldVars>>

(* Faults: one try short; one too many; the attempts start again.          *)
ScheduleRetryShort(w) ==
    Refuse(w) /\ IF seen[w] < Backoffs THEN Reschedule(cur[w], seen[w] + 1, "later")
                                       ELSE GiveUp(cur[w])
ScheduleRetryLong(w) ==
    Refuse(w) /\ IF seen[w] <= Backoffs + 1 THEN Reschedule(cur[w], seen[w] + 1, "later")
                                            ELSE GiveUp(cur[w])
ScheduleRetryAnew(w) ==
    Refuse(w) /\ Reschedule(cur[w], IF seen[w] <= Backoffs THEN seen[w] + 1 ELSE 1, "later")

(* _schedule_retry, with the attempt read before the POST.                 *)
ScheduleRetry(w) ==
    Refuse(w) /\ IF seen[w] <= Backoffs THEN Reschedule(cur[w], seen[w] + 1, "later")
                                        ELSE GiveUp(cur[w])

-----------------------------------------------------------------------------
(* Time.                                                                   *)

Elapse(d) ==
    /\ due[d] = "later"
    /\ due' = [due EXCEPT ![d] = "now"]
    /\ UNCHANGED <<hookVars, status, attempt, queueVars, workerVars, worldVars>>

(* Fault: what is put in the queue is no longer scheduled.                 *)
CheckRetriesClearing ==
    /\ \E d \in Delivery : Overdue(d)
    /\ Put({d \in Delivery : Overdue(d)})
    /\ due' = [d \in Delivery |-> IF Overdue(d) THEN "none" ELSE due[d]]
    /\ UNCHANGED <<hookVars, status, attempt, fallback, workerVars, worldVars>>

(* The retry checker's round every 30 s.  It leaves next_retry_at alone,   *)
(* so a delivery still in the queue at the next round is queued again.     *)
CheckRetries ==
    /\ \E d \in Delivery : Overdue(d)
    /\ Put({d \in Delivery : Overdue(d)})
    /\ UNCHANGED <<hookVars, rowVars, fallback, workerVars, worldVars>>

-----------------------------------------------------------------------------
(* Faults.                                                                 *)

Fault == faults < MaxFaults /\ faults' = faults + 1

(* An exception that deliver does not expect, or ARQ's timeout: the worker *)
(* goes on with its next delivery.                                         *)
Raise(w) ==
    /\ pc[w] # "idle" /\ Fault
    /\ Release(w)
    /\ UNCHANGED <<hookVars, rowVars, queueVars, accepted, refused>>

Halt(ws) ==
    /\ pc' = [w \in Worker |-> IF w \in ws THEN "idle" ELSE pc[w]]
    /\ cur' = [w \in Worker |-> IF w \in ws THEN None ELSE cur[w]]
    /\ seen' = [w \in Worker |-> IF w \in ws THEN 0 ELSE seen[w]]

(* What these publishers have under way is never finished.                 *)
Silence(es) ==
    pub' = [e \in Event |-> IF e \in es /\ pub[e] # "idle" THEN "done" ELSE pub[e]]

(* The API process dies, with its publishers, and with an in-memory queue  *)
(* that queue and its worker.                                              *)
ApiCrash ==
    /\ Fault
    /\ IF UseRedis THEN UNCHANGED <<queued, workerVars>>
                   ELSE queued' = [d \in Delivery |-> 0] /\ Halt(Worker)
    /\ Silence(From("api"))
    /\ UNCHANGED <<setupVars, hooks, subs, rowVars, fallback, accepted, refused>>

(* The ARQ process dies, with its publishers and its fallback queue; what  *)
(* its workers were at is delivered again, but for entries whose tries are *)
(* used up.                                                                *)
WorkerCrash ==
    /\ UseRedis /\ Fault
    /\ \E again \in SUBSET Held : Put(again)
    /\ Halt(Worker)
    /\ fallback' = {}
    /\ Silence(From("arq"))
    /\ UNCHANGED <<setupVars, hooks, subs, rowVars, accepted, refused>>

-----------------------------------------------------------------------------
Publish(e) == Match(e) \/ SaveRows(e) \/ Enqueue(e)

Deliver(w) ==
    \/ \E d \in Delivery : Take(w, d)
    \/ PostAccepted(w) \/ PostRefused(w)
    \/ SaveDelivered(w) \/ ScheduleRetry(w)

Next ==
    \/ \E e \in Event : Publish(e)
    \/ \E h \in Hook : DeleteWebhook(h)
    \/ \E w \in Worker : Deliver(w) \/ Raise(w)
    \/ \E d \in Delivery : Elapse(d)
    \/ CheckRetries \/ ApiCrash \/ WorkerCrash

Spec == Init /\ [][Next]_vars

(* The loops keep running: publishers go on, time passes, the checker has  *)
(* its rounds, a worker finishes what it took, and the queue, first in     *)
(* first out, gets every entry taken.                                      *)
FairSpec ==
    /\ Spec
    /\ \A e \in Event : WF_vars(Publish(e))
    /\ \A w \in Worker : WF_vars(Deliver(w))
    /\ \A d \in Delivery : WF_vars(Elapse(d)) /\ SF_vars(\E w \in Worker : Take(w, d))
    /\ WF_vars(CheckRetries)

-----------------------------------------------------------------------------
(* Properties.                                                             *)

(* Rows, queue and workers are in the states that the code declares.       *)
TypeOK ==
    /\ deployment \in Deployments
    /\ publisher \in [Event -> {"api", "arq"}]
    /\ hooks \subseteq Hook
    /\ pub \in [Event -> {"idle", "matched", "saved", "done"}]
    /\ subs \in [Event -> SUBSET Hook]
    /\ status \in [Delivery -> {"absent", "pending", "delivered", "failed"}]
    /\ attempt \in [Delivery -> 1 .. Backoffs + 1]
    /\ due \in [Delivery -> {"none", "later", "now"}]
    /\ queued \in [Delivery -> 0 .. MaxQueued] /\ fallback \subseteq Delivery
    /\ pc \in [Worker -> {"idle", "loaded", "accepted", "refused"}]
    /\ cur \in [Worker -> Delivery \cup {None}]
    /\ \A w \in Worker : cur[w] = None <=> pc[w] = "idle"
    /\ seen \in [Worker -> 0 .. Backoffs + 1]
    /\ accepted \in [Delivery -> BOOLEAN] /\ refused \in [Delivery -> 0 .. Backoffs + 1]
    /\ faults \in 0 .. MaxFaults

(* A final status is earned: a delivery that says "delivered" was accepted *)
(* by its endpoint, one that says "failed" was refused on its first try    *)
(* and once after every backoff, however often it was queued or read by    *)
(* several workers at once.                                                *)
OutcomeEarned ==
    \A d \in Delivery : /\ status[d] = "delivered" => accepted[d]
                        /\ status[d] = "failed" => refused[d] > Backoffs

(* A pending delivery is with its publisher, in the queue, with a worker   *)
(* or scheduled for a retry.  Left to nobody is only one that the ARQ      *)
(* process publishes, where it goes to a queue without a worker, one with  *)
(* a fault during its first attempt, and one whose webhook is gone.        *)
NotForgotten ==
    \A d \in Delivery : status[d] = "pending" =>
        \/ pub[EventOf(d)] = "saved" \/ queued[d] > 0 \/ d \in Held
        \/ due[d] # "none"
        \/ attempt[d] = 1 /\ (d \in fallback \/ faults > 0)
        \/ HookOf(d) \notin hooks

(* With the one worker of the in-memory queue the attempts of a delivery   *)
(* never go back, so the backoffs it has waited for are not waited for     *)
(* again.                                                                  *)
AttemptsGrow == [][\A d \in Delivery : UseRedis \/ attempt'[d] >= attempt[d]]_vars

(* A delivery whose first try has failed comes to an end, also across a    *)
(* crash of the process that holds the queue.                              *)
RetriesEnd ==
    \A d \in Delivery : status[d] = "pending" /\ due[d] # "none" ~>
        status[d] \in {"delivered", "failed"} \/ HookOf(d) \notin hooks
=============================================================================
