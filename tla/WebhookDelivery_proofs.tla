----------------------- MODULE WebhookDelivery_proofs -----------------------
(***************************************************************************)
(* Proofs about WebhookDelivery for every number of events, webhooks,      *)
(* workers, backoffs and faults, with either queue and either database.    *)
(***************************************************************************)
EXTENDS WebhookDelivery, TLAPS

-----------------------------------------------------------------------------
(* Types.                                                                  *)

LEMMA PutType ==
    ASSUME TypeOK, NEW ds, Put(ds)
    PROVE  /\ queued' \in [Delivery -> 0 .. MaxQueued]
           /\ \A d \in Delivery : queued'[d] >= queued[d]
           /\ \A d \in ds \cap Delivery : queued'[d] > 0
BY DeliveryAssumption DEF TypeOK, Put

LEMMA TypeNext == TypeOK /\ [Next]_vars => TypeOK'
<1> SUFFICES ASSUME TypeOK, [Next]_vars PROVE TypeOK'
  OBVIOUS
<1> USE DeliveryAssumption DEF setupVars, hookVars, rowVars, queueVars, workerVars, worldVars
<1>1. ASSUME NEW e \in Event, Publish(e) PROVE TypeOK'
  <2>1. CASE Match(e)
    BY <2>1 DEF Match, TypeOK
  <2>2. CASE SaveRows(e)
    BY <2>2 DEF SaveRows, TypeOK
  <2>3. CASE Enqueue(e)
    BY <2>3, PutType DEF Enqueue, Rows, TypeOK
  <2>4. QED
    BY <1>1, <2>1, <2>2, <2>3 DEF Publish
<1>2. ASSUME NEW h \in Hook, DeleteWebhook(h) PROVE TypeOK'
  BY <1>2 DEF DeleteWebhook, TypeOK
<1>3. ASSUME NEW w \in Worker, Deliver(w) PROVE TypeOK'
  <2>1. ASSUME NEW d \in Delivery, Take(w, d) PROVE TypeOK'
    BY <2>1 DEF Take, TypeOK
  <2>2. CASE PostAccepted(w) \/ PostRefused(w)
    <3>1. cur[w] \in Delivery
      BY <2>2 DEF PostAccepted, PostRefused, TypeOK
    <3>2. CASE PostAccepted(w)
      BY <3>1, <3>2 DEF PostAccepted, TypeOK
    <3>3. CASE PostRefused(w)
      <4>1. refused[cur[w]] \in 0 .. Backoffs + 1
        BY <3>1 DEF TypeOK
      <4>2. refused' \in [Delivery -> 0 .. Backoffs + 1]
        BY <3>1, <3>3, <4>1 DEF PostRefused, TypeOK
      <4>3. QED
        BY <3>1, <3>3, <4>2 DEF PostRefused, TypeOK
    <3>4. QED
      BY <2>2, <3>2, <3>3
  <2>3. CASE SaveDelivered(w)
    BY <2>3 DEF SaveDelivered, Release, TypeOK
  <2>4. CASE ScheduleRetry(w)
    BY <2>4 DEF ScheduleRetry, Refuse, Reschedule, GiveUp, Release, TypeOK
  <2>5. QED
    BY <1>3, <2>1, <2>2, <2>3, <2>4 DEF Deliver
<1>4. ASSUME NEW w \in Worker, Raise(w) PROVE TypeOK'
  BY <1>4 DEF Raise, Fault, Release, TypeOK
<1>5. ASSUME NEW d \in Delivery, Elapse(d) PROVE TypeOK'
  BY <1>5 DEF Elapse, TypeOK
<1>6. CASE CheckRetries
  BY <1>6, PutType DEF CheckRetries, TypeOK
<1>7. CASE ApiCrash
  BY <1>7 DEF ApiCrash, Silence, Fault, Halt, TypeOK
<1>8. CASE WorkerCrash
  BY <1>8, PutType DEF WorkerCrash, Silence, Fault, Halt, TypeOK
<1>9. CASE UNCHANGED vars
  BY <1>9 DEF vars, TypeOK
<1>10. QED
  BY <1>1, <1>2, <1>3, <1>4, <1>5, <1>6, <1>7, <1>8, <1>9 DEF Next

(* Rows, queue and workers stay within their types.                        *)
THEOREM TypeCorrect == Spec => []TypeOK
<1>1. Init => TypeOK
  BY DeliveryAssumption DEF Init, TypeOK
<1>2. QED
  BY <1>1, TypeNext, PTL DEF Spec

-----------------------------------------------------------------------------
(* Outcomes.                                                               *)

(* An attempt number, in the row or in a worker's hands, is never ahead of *)
(* the tries that were refused.                                            *)
TriesCounted ==
    /\ \A d \in Delivery : attempt[d] <= refused[d] + 1
    /\ \A w \in Worker :
         /\ pc[w] = "loaded" => seen[w] <= refused[cur[w]] + 1
         /\ pc[w] = "refused" => seen[w] <= refused[cur[w]]
         /\ pc[w] = "accepted" => accepted[cur[w]]
    /\ OutcomeEarned

LEMMA TriesNext == TypeOK /\ TriesCounted /\ [Next]_vars => TriesCounted'
<1> SUFFICES ASSUME TypeOK, TriesCounted, [Next]_vars PROVE TriesCounted'
  OBVIOUS
<1> USE DeliveryAssumption DEF setupVars, hookVars, rowVars, queueVars, workerVars, worldVars
<1>1. CASE UNCHANGED <<attempt, status, workerVars, accepted, refused>>
  BY <1>1 DEF TriesCounted, OutcomeEarned
<1>2. ASSUME NEW ws \in SUBSET Worker, Halt(ws), UNCHANGED <<attempt, status, accepted, refused>>
      PROVE  TriesCounted'
  BY <1>2 DEF Halt, TriesCounted, OutcomeEarned
<1>3. ASSUME NEW e \in Event, SaveRows(e) PROVE TriesCounted'
  BY <1>3 DEF SaveRows, TriesCounted, OutcomeEarned
<1>4. ASSUME NEW w \in Worker, Deliver(w) PROVE TriesCounted'
  <2>1. cur[w] \in Delivery \/ pc[w] = "idle"
    BY DEF TypeOK
  <2>2. ASSUME NEW d \in Delivery, Take(w, d) PROVE TriesCounted'
    BY <2>2 DEF Take, TriesCounted, OutcomeEarned, TypeOK
  <2>3. CASE PostAccepted(w)
    BY <2>1, <2>3 DEF PostAccepted, TriesCounted, OutcomeEarned, TypeOK
  <2>4. CASE PostRefused(w)
    <3>1. cur[w] \in Delivery /\ seen[w] <= refused[cur[w]] + 1
      BY <2>1, <2>4 DEF PostRefused, TriesCounted
    <3>2. \A d \in Delivery : refused'[d] >= refused[d]
      BY <2>4 DEF PostRefused, TypeOK
    <3>3. seen[w] <= refused'[cur[w]]
      BY <2>4, <3>1 DEF PostRefused, TypeOK
    <3>4. \A v \in Worker : v # w /\ pc[v] # "idle" => cur[v] \in Delivery
      BY DEF TypeOK
    <3>5. /\ \A d \in Delivery : attempt[d] \in Nat /\ refused[d] \in Nat /\ refused'[d] \in Nat
          /\ \A v \in Worker : seen[v] \in Nat
      BY <2>4 DEF PostRefused, TypeOK
    <3>6. /\ pc' = [pc EXCEPT ![w] = "refused"]
          /\ UNCHANGED <<attempt, status, cur, seen, accepted>>
      BY <2>4 DEF PostRefused
    <3>7. OutcomeEarned'
      BY <3>2, <3>5, <3>6 DEF OutcomeEarned, TriesCounted
    <3>8. \A v \in Worker :
            /\ pc'[v] = "loaded" => seen[v] <= refused'[cur[v]] + 1
            /\ pc'[v] = "refused" => seen[v] <= refused'[cur[v]]
            /\ pc'[v] = "accepted" => accepted[cur[v]]
      BY <3>2, <3>3, <3>4, <3>5, <3>6 DEF TriesCounted, TypeOK
    <3>9. QED
      BY <3>2, <3>5, <3>6, <3>7, <3>8 DEF TriesCounted
  <2>5. CASE SaveDelivered(w)
    BY <2>1, <2>5 DEF SaveDelivered, Release, TriesCounted, OutcomeEarned, TypeOK
  <2>6. CASE ScheduleRetry(w)
    <3>1. cur[w] \in Delivery /\ seen[w] <= refused[cur[w]]
      BY <2>1, <2>6 DEF ScheduleRetry, Refuse, TriesCounted
    <3>2. CASE seen[w] <= Backoffs
      BY <2>6, <3>1, <3>2 DEF ScheduleRetry, Refuse, Reschedule, Release, TriesCounted,
                              OutcomeEarned, TypeOK
    <3>3. CASE ~(seen[w] <= Backoffs)
      BY <2>6, <3>1, <3>3 DEF ScheduleRetry, Refuse, GiveUp, Release, TriesCounted,
                              OutcomeEarned, TypeOK
    <3>4. QED
      BY <3>2, <3>3
  <2>7. QED
    BY <1>4, <2>2, <2>3, <2>4, <2>5, <2>6 DEF Deliver
<1>5. ASSUME NEW w \in Worker, Raise(w) PROVE TriesCounted'
  BY <1>5 DEF Raise, Fault, Release, TriesCounted, OutcomeEarned, TypeOK
<1>6. CASE ApiCrash
  BY <1>1, <1>2, <1>6 DEF ApiCrash
<1>7. CASE WorkerCrash
  BY <1>2, <1>7 DEF WorkerCrash
<1>8. QED
  BY <1>1, <1>3, <1>4, <1>5, <1>6, <1>7
     DEF Next, Publish, Match, Enqueue, DeleteWebhook, Elapse, CheckRetries, vars

(* "delivered" and "failed" are earned, with any number of workers, stale  *)
(* attempts, duplicates in the queue and faults.                           *)
THEOREM OutcomesEarned == Spec => []OutcomeEarned
<1>1. Init => TriesCounted
  BY DeliveryAssumption DEF Init, TriesCounted, OutcomeEarned
<1>2. TriesCounted => OutcomeEarned
  BY DEF TriesCounted
<1>3. QED
  BY <1>1, <1>2, TriesNext, TypeCorrect, PTL DEF Spec

-----------------------------------------------------------------------------
(* No delivery is forgotten.                                               *)

(* NotForgotten, with what the steps rely on: the rows that a publisher    *)
(* enqueues are those it saved, and a retry has its time.                  *)
Traced ==
    /\ \A d \in Delivery : pub[EventOf(d)] \in {"idle", "matched"} => status[d] = "absent"
    /\ \A d \in Delivery : status[d] # "absent" => HookOf(d) \in subs[EventOf(d)]
    /\ \A d \in Delivery : pub[EventOf(d)] = "saved" /\ HookOf(d) \in subs[EventOf(d)]
                             => status[d] # "absent"
    /\ \A d \in Delivery : queued[d] > 0 \/ d \in Held => status[d] # "absent"
    /\ \A d \in Delivery : attempt[d] # 1 => due[d] # "none"
    /\ NotForgotten

LEMMA EventsHooks ==
    ASSUME NEW d \in Delivery
    PROVE  EventOf(d) \in Event /\ HookOf(d) \in Hook
BY DEF Delivery, EventOf, HookOf

(* The steps that do not touch a row keep it traced when they keep what    *)
(* traces it.                                                              *)
LEMMA TracedQuiet ==
    ASSUME TypeOK, Traced, UNCHANGED <<pub, subs, status, attempt>>,
           \A d \in Delivery : due[d] # "none" => due'[d] # "none",
           hooks' \subseteq hooks, fallback' = fallback, faults' = faults,
           \A d \in Delivery : queued[d] > 0 \/ d \in Held =>
               queued'[d] > 0 \/ d \in Held' \/ HookOf(d) \notin hooks',
           \A d \in Delivery : queued'[d] > 0 \/ d \in Held' => status[d] # "absent"
    PROVE  Traced'
BY DEF Traced, NotForgotten

(* A fault takes nothing from a delivery that is due for a retry, and the  *)
(* others are at their first attempt.                                      *)
LEMMA TracedFault ==
    ASSUME TypeOK, Traced, Fault, UNCHANGED <<subs, rowVars>>,
           \A e \in Event : pub'[e] = pub[e] \/ (pub[e] # "idle" /\ pub'[e] = "done"),
           \A d \in Delivery : queued'[d] > 0 \/ d \in Held' => status[d] # "absent"
    PROVE  Traced'
<1> USE DEF rowVars
<1>1. faults' > 0
  BY DeliveryAssumption DEF Fault, TypeOK
<1>2. NotForgotten'
  BY <1>1 DEF Traced, NotForgotten
<1>3. \A d \in Delivery : pub'[EventOf(d)] \in {"idle", "matched"} => status'[d] = "absent"
  BY EventsHooks DEF Traced
<1>4. \A d \in Delivery : pub'[EventOf(d)] = "saved" => pub[EventOf(d)] = "saved"
  BY EventsHooks
<1>5. UNCHANGED <<subs, status, attempt, due>>
  OBVIOUS
<1>6. QED
  BY <1>2, <1>3, <1>4, <1>5 DEF Traced

LEMMA TracedDeliver ==
    ASSUME TypeOK, Traced, NEW w \in Worker, Deliver(w)
    PROVE  Traced'
<1> USE DeliveryAssumption DEF setupVars, hookVars, rowVars, queueVars, workerVars, worldVars
<1>1. ASSUME NEW c \in Delivery, Take(w, c) PROVE Traced'
  <2>1. \A d \in Delivery : d # c => queued'[d] = queued[d]
    BY <1>1 DEF Take, TypeOK
  <2>2. cur[w] = None
    BY <1>1 DEF Take, TypeOK
  <2>3. \A d \in Held : d \in Held'
    <3>1. ASSUME NEW v \in Worker, cur[v] # None PROVE cur'[v] = cur[v]
      BY <1>1, <2>2, <3>1 DEF Take, TypeOK
    <3>2. QED
      BY <3>1 DEF Held
  <2>4. c \in Held' \/ HookOf(c) \notin hooks
    <3>1. CASE HookOf(c) \in hooks
      <4>1. cur'[w] = c
        BY <1>1, <3>1 DEF Take, TypeOK
      <4>2. QED
        BY <4>1 DEF Held
    <3>2. QED
      BY <3>1
  <2>5. \A d \in Delivery : queued'[d] > 0 \/ d \in Held' => status[d] # "absent"
    <3>1. status[c] # "absent"
      BY <1>1 DEF Take, Traced
    <3>2. \A d \in Held' : d \in Held \/ d = c
      BY <1>1 DEF Take, Held, TypeOK
    <3>3. QED
      BY <2>1, <3>1, <3>2 DEF Traced
  <2>6. QED
    BY <1>1, <2>1, <2>3, <2>4, <2>5, TracedQuiet DEF Take
<1>2. CASE PostAccepted(w) \/ PostRefused(w)
  <2>1. Held' = Held
    BY <1>2 DEF PostAccepted, PostRefused, Held
  <2>2. \A d \in Delivery : queued'[d] > 0 \/ d \in Held' => status[d] # "absent"
    BY <1>2, <2>1 DEF PostAccepted, PostRefused, Traced
  <2>3. QED
    BY <1>2, <2>1, <2>2, TracedQuiet DEF PostAccepted, PostRefused
<1>3. CASE SaveDelivered(w) \/ ScheduleRetry(w)
  <2>1. cur[w] \in Delivery
    BY <1>3 DEF SaveDelivered, ScheduleRetry, Refuse, TypeOK
  <2>2. PICK c \in Delivery : c = cur[w]
    BY <2>1
  <2>3. \A d \in Held : d # c => d \in Held'
    <3>1. ASSUME NEW v \in Worker, cur[v] # c PROVE cur'[v] = cur[v]
      BY <1>3, <2>2, <3>1 DEF SaveDelivered, ScheduleRetry, Refuse, Release, TypeOK
    <3>2. QED
      BY <3>1 DEF Held
  <2>4. \A d \in Delivery : d # c => /\ status'[d] = status[d]
                                     /\ attempt'[d] = attempt[d]
                                     /\ due'[d] = due[d]
    BY <1>3, <2>2 DEF SaveDelivered, ScheduleRetry, Refuse, Reschedule, GiveUp, TypeOK
  <2>5. /\ status'[c] = "pending" => due'[c] # "none"
        /\ attempt'[c] # 1 => due'[c] # "none"
    <3>1. CASE SaveDelivered(w)
      BY <2>2, <3>1 DEF SaveDelivered, Traced, TypeOK
    <3>2. CASE ScheduleRetry(w) /\ seen[w] <= Backoffs
      BY <2>2, <3>2 DEF ScheduleRetry, Refuse, Reschedule, TypeOK
    <3>3. CASE ScheduleRetry(w) /\ ~(seen[w] <= Backoffs)
      BY <2>2, <3>3 DEF ScheduleRetry, Refuse, GiveUp, Traced, TypeOK
    <3>4. QED
      BY <1>3, <3>1, <3>2, <3>3
  <2>6. UNCHANGED <<hooks, pub, subs, queued, fallback, faults>>
    BY <1>3 DEF SaveDelivered, ScheduleRetry, Refuse
  <2>7. NotForgotten'
    BY <2>3, <2>4, <2>5, <2>6 DEF Traced, NotForgotten
  <2>8. status[c] # "absent" /\ status'[c] # "absent"
    <3>1. pc[w] # "idle" /\ c \in Held
      BY <1>3, <2>2, DeliveryAssumption DEF SaveDelivered, ScheduleRetry, Refuse, Held
    <3>2. status'[c] \in {"pending", "delivered", "failed"}
      BY <1>3, <2>2 DEF SaveDelivered, ScheduleRetry, Refuse, Reschedule, GiveUp, TypeOK
    <3>3. QED
      BY <3>1, <3>2 DEF Traced
  <2>9. \A d \in Held' : d \in Held
    BY <1>3 DEF SaveDelivered, ScheduleRetry, Refuse, Release, Held, TypeOK
  <2>10. QED
    BY <2>4, <2>5, <2>6, <2>7, <2>8, <2>9 DEF Traced
<1>4. QED
  BY <1>1, <1>2, <1>3 DEF Deliver

LEMMA TracedPublish ==
    ASSUME TypeOK, Traced, NEW e \in Event, Publish(e)
    PROVE  Traced'
<1> USE EventsHooks DEF setupVars, hookVars, rowVars, queueVars, workerVars, worldVars
<1>1. Held' = Held
  BY DEF Publish, Match, SaveRows, Enqueue, Held
<1>2. CASE Match(e)
  <2>1. \A d \in Delivery : EventOf(d) = e => status[d] = "absent"
    BY <1>2 DEF Match, Traced
  <2>2. \A d \in Delivery : EventOf(d) # e =>
           pub'[EventOf(d)] = pub[EventOf(d)] /\ subs'[EventOf(d)] = subs[EventOf(d)]
    BY <1>2 DEF Match, TypeOK
  <2>3. pub'[e] # "saved" /\ UNCHANGED <<hooks, status, attempt, due, queued, fallback, faults>>
    BY <1>2 DEF Match, TypeOK
  <2>4. NotForgotten'
    BY <1>1, <2>1, <2>2, <2>3 DEF NotForgotten, Traced
  <2>5. QED
    BY <1>1, <2>1, <2>2, <2>3, <2>4 DEF Traced
<1>3. CASE SaveRows(e)
  <2>1. \A d \in Delivery : EventOf(d) = e => status[d] = "absent"
    BY <1>3 DEF SaveRows, Traced
  <2>2. \A d \in Delivery : EventOf(d) # e =>
           pub'[EventOf(d)] = pub[EventOf(d)] /\ status'[d] = status[d]
    BY <1>3 DEF SaveRows, Rows, TypeOK
  <2>3. UNCHANGED <<hooks, subs, attempt, due, queued, fallback, faults>>
    BY <1>3 DEF SaveRows
  <2>4. CASE pub'[e] = "done" /\ status' = status
    BY <1>1, <2>1, <2>2, <2>3, <2>4 DEF Traced, NotForgotten
  <2>5. CASE /\ pub'[e] = "saved"
             /\ \A d \in Delivery : EventOf(d) = e =>
                   status'[d] = IF HookOf(d) \in subs[e] THEN "pending" ELSE "absent"
    <3>1. NotForgotten'
      BY <1>1, <2>1, <2>2, <2>3, <2>5 DEF Traced, NotForgotten
    <3>2. \A d \in Delivery : queued'[d] > 0 \/ d \in Held' => status'[d] # "absent"
      BY <1>1, <2>1, <2>2, <2>3 DEF Traced
    <3>3. QED
      BY <2>2, <2>3, <2>5, <3>1, <3>2 DEF Traced
  <2>6. QED
    BY <1>3, <2>1, <2>4, <2>5 DEF SaveRows, Rows, TypeOK
<1>4. CASE Enqueue(e)
  <2>1. /\ \A d \in Delivery : queued'[d] >= queued[d]
        /\ \A d \in Delivery : queued'[d] > 0 => queued[d] > 0 \/ d \in Rows(e)
        /\ \A d \in Rows(e) : queued'[d] > 0 \/ d \in fallback'
        /\ \A d \in fallback : d \in fallback'
    <3>1. CASE Put(Rows(e)) /\ UNCHANGED fallback
      BY <3>1, PutType, DeliveryAssumption DEF Put, Rows, TypeOK
    <3>2. CASE fallback' = fallback \cup Rows(e) /\ UNCHANGED queued
      BY <3>2 DEF TypeOK
    <3>3. QED
      BY <1>4, <3>1, <3>2 DEF Enqueue
  <2>2. \A d \in Delivery : EventOf(d) # e => pub'[EventOf(d)] = pub[EventOf(d)]
    BY <1>4 DEF Enqueue, TypeOK
  <2>3. /\ pub[e] = "saved" /\ pub'[e] = "done"
        /\ UNCHANGED <<hooks, subs, status, attempt, due, faults>>
    BY <1>4 DEF Enqueue, TypeOK
  <2>4. \A d \in Delivery : EventOf(d) = e /\ status[d] # "absent" => d \in Rows(e)
    BY DEF Traced, Rows
  <2>5. \A d \in Delivery : queued[d] \in Nat /\ queued'[d] \in Nat
    BY <1>4, PutType DEF Enqueue, TypeOK
  <2>6. NotForgotten'
    <3>1. ASSUME NEW d \in Delivery, status[d] = "pending", EventOf(d) = e
          PROVE  queued'[d] > 0 \/ d \in fallback'
      BY <2>1, <2>4, <3>1
    <3>2. \A d \in Delivery : queued[d] > 0 => queued'[d] > 0
      BY <2>1, <2>5
    <3>3. ASSUME NEW d \in Delivery, status[d] = "pending", EventOf(d) # e
          PROVE  \/ pub'[EventOf(d)] = "saved" \/ queued'[d] > 0 \/ d \in Held'
                 \/ due'[d] # "none"
                 \/ attempt'[d] = 1 /\ (d \in fallback' \/ faults' > 0)
                 \/ HookOf(d) \notin hooks'
      BY <1>1, <2>1, <2>2, <2>3, <3>2, <3>3 DEF Traced, NotForgotten
    <3>4. ASSUME NEW d \in Delivery, status[d] = "pending"
          PROVE  due[d] # "none" \/ attempt[d] = 1
      BY DEF Traced
    <3>5. QED
      BY <2>3, <3>1, <3>3, <3>4 DEF NotForgotten
  <2>7. \A d \in Delivery : queued'[d] > 0 \/ d \in Held' => status[d] # "absent"
    <3>1. \A d \in Rows(e) : status[d] # "absent"
      BY <2>3 DEF Traced, Rows
    <3>2. QED
      BY <1>1, <2>1, <3>1 DEF Traced
  <2>8. QED
    BY <2>2, <2>3, <2>6, <2>7 DEF Traced
<1>5. QED
  BY <1>2, <1>3, <1>4 DEF Publish

LEMMA TracedNext == TypeOK /\ Traced /\ [Next]_vars => Traced'
<1> SUFFICES ASSUME TypeOK, Traced, [Next]_vars PROVE Traced'
  OBVIOUS
<1> USE DEF setupVars, hookVars, rowVars, queueVars, workerVars, worldVars
<1>1. ASSUME NEW h \in Hook, DeleteWebhook(h) PROVE Traced'
  <2>1. Held' = Held
    BY <1>1 DEF DeleteWebhook, Held
  <2>2. QED
    BY <1>1, <2>1, TracedQuiet DEF DeleteWebhook, Traced
<1>2. ASSUME NEW w \in Worker, Raise(w) PROVE Traced'
  <2>1. \A d \in Held' : d \in Held
    BY <1>2 DEF Raise, Release, Held, TypeOK
  <2>2. QED
    BY <1>2, <2>1, TracedFault DEF Raise, Traced
<1>3. ASSUME NEW d \in Delivery, Elapse(d) PROVE Traced'
  <2>1. Held' = Held
    BY <1>3 DEF Elapse, Held
  <2>2. \A c \in Delivery : due[c] # "none" => due'[c] # "none"
    BY <1>3 DEF Elapse, TypeOK
  <2>3. QED
    BY <1>3, <2>1, <2>2, TracedQuiet DEF Elapse, Traced
<1>4. CASE CheckRetries
  <2>1. Held' = Held
    BY <1>4 DEF CheckRetries, Held
  <2>2. \A d \in Delivery : queued'[d] >= queued[d] /\ queued[d] \in Nat /\ queued'[d] \in Nat
    BY <1>4, PutType DEF CheckRetries, TypeOK
  <2>3. \A d \in Delivery : queued'[d] > 0 => queued[d] > 0 \/ status[d] = "pending"
    BY <1>4 DEF CheckRetries, Put, Overdue, TypeOK
  <2>4. \A d \in Delivery : queued[d] > 0 => queued'[d] > 0
    BY <2>2
  <2>5. QED
    BY <1>4, <2>1, <2>3, <2>4, TracedQuiet DEF CheckRetries, Traced
<1>5. CASE ApiCrash
  <2>1. \A d \in Delivery : queued'[d] > 0 => queued[d] > 0
    BY <1>5 DEF ApiCrash
  <2>2. \A d \in Held' : d \in Held
    BY <1>5 DEF ApiCrash, Halt, Held
  <2>3. QED
    BY <1>5, <2>1, <2>2, TracedFault DEF ApiCrash, Silence, Traced, TypeOK
<1>6. CASE WorkerCrash
  <2>1. Held' = {}
    BY <1>6 DEF WorkerCrash, Halt, Held
  <2>2. \A d \in Delivery : queued'[d] > 0 => queued[d] > 0 \/ d \in Held
    BY <1>6 DEF WorkerCrash, Put, TypeOK
  <2>3. QED
    BY <1>6, <2>1, <2>2, TracedFault DEF WorkerCrash, Silence, Traced
<1>7. CASE UNCHANGED vars
  <2>1. Held' = Held
    BY <1>7 DEF vars, Held
  <2>2. QED
    BY <1>7, <2>1, TracedQuiet DEF vars, Traced
<1>8. QED
  BY <1>1, <1>2, <1>3, <1>4, <1>5, <1>6, <1>7, TracedPublish, TracedDeliver DEF Next

(* Nobody forgets a pending delivery, but for one published by the ARQ     *)
(* process, a fault during its first attempt or the end of its webhook.    *)
THEOREM NoneForgotten == Spec => []NotForgotten
<1>1. Init => Traced
  <2>1. Init => Held = {}
    BY DEF Init, Held
  <2>2. Init => \A d \in Delivery : /\ pub[EventOf(d)] = "idle"
                                   /\ status[d] = "absent"
                                   /\ queued[d] = 0
                                   /\ attempt[d] = 1
    BY EventsHooks DEF Init
  <2>3. QED
    BY <2>1, <2>2 DEF Traced, NotForgotten
<1>2. Traced => NotForgotten
  BY DEF Traced
<1>3. QED
  BY <1>1, <1>2, TracedNext, TypeCorrect, PTL DEF Spec

-----------------------------------------------------------------------------
(* Attempts.                                                               *)

(* With the in-memory queue one worker at most has a delivery, and what it *)
(* has read of the row still holds: nobody else counts attempts.           *)
SeenCurrent ==
    UseRedis \/ \A w \in Worker : pc[w] # "idle" =>
                   /\ seen[w] = attempt[cur[w]]
                   /\ \A v \in Worker : pc[v] # "idle" => v = w

LEMMA SeenNext == TypeOK /\ SeenCurrent /\ [Next]_vars => SeenCurrent'
<1> SUFFICES ASSUME TypeOK, SeenCurrent, [Next]_vars, ~UseRedis' PROVE SeenCurrent'
  BY DEF SeenCurrent
<1> USE DeliveryAssumption DEF setupVars, hookVars, rowVars, queueVars, workerVars, worldVars
<1>1. UNCHANGED deployment
  BY DEF Next, vars, Publish, Match, SaveRows, Enqueue, DeleteWebhook, Deliver, Take, PostAccepted,
         PostRefused, SaveDelivered, ScheduleRetry, Refuse, Raise, Elapse, CheckRetries, ApiCrash,
         WorkerCrash
<1>2. ~UseRedis
  BY <1>1 DEF UseRedis
<1>3. CASE UNCHANGED <<attempt, workerVars>>
  BY <1>2, <1>3 DEF SeenCurrent
<1>4. ASSUME NEW w \in Worker, Deliver(w) \/ Raise(w) PROVE SeenCurrent'
  <2>1. ASSUME NEW d \in Delivery, Take(w, d) PROVE SeenCurrent'
    <3>1. \A v \in Worker : pc[v] = "idle"
      BY <1>2, <2>1 DEF Take, Held, TypeOK
    <3>2. QED
      BY <2>1, <3>1 DEF Take, SeenCurrent, TypeOK
  <2>2. CASE PostAccepted(w) \/ PostRefused(w)
    BY <1>2, <2>2 DEF PostAccepted, PostRefused, SeenCurrent, TypeOK
  <2>3. CASE SaveDelivered(w) \/ ScheduleRetry(w) \/ Raise(w)
    <3>1. pc[w] # "idle" /\ pc' = [pc EXCEPT ![w] = "idle"]
      BY <2>3 DEF SaveDelivered, ScheduleRetry, Refuse, Raise, Release
    <3>2. \A v \in Worker : pc'[v] = "idle"
      BY <1>2, <3>1 DEF SeenCurrent, TypeOK
    <3>3. QED
      BY <3>2 DEF SeenCurrent
  <2>4. QED
    BY <1>4, <2>1, <2>2, <2>3 DEF Deliver
<1>5. CASE ApiCrash
  BY <1>2, <1>5 DEF ApiCrash, Halt, SeenCurrent
<1>6. CASE WorkerCrash
  BY <1>2, <1>6 DEF WorkerCrash
<1>7. QED
  BY <1>3, <1>4, <1>5, <1>6
     DEF Next, vars, Publish, Match, SaveRows, Enqueue, DeleteWebhook, Elapse, CheckRetries

(* With the one worker of the in-memory queue no attempt is counted twice  *)
(* or taken back, however often a delivery is queued.                      *)
THEOREM AttemptsNeverShrink == Spec => AttemptsGrow
<1>1. Init => SeenCurrent
  BY DEF Init, SeenCurrent
<1>2. TypeOK /\ SeenCurrent /\ [Next]_vars =>
        [\A d \in Delivery : UseRedis \/ attempt'[d] >= attempt[d]]_vars
  <2> SUFFICES ASSUME TypeOK, SeenCurrent, Next, ~UseRedis
               PROVE  \A d \in Delivery : attempt'[d] >= attempt[d]
    OBVIOUS
  <2> USE DeliveryAssumption DEF setupVars, hookVars, rowVars, queueVars, workerVars, worldVars
  <2>1. CASE UNCHANGED attempt
    BY <2>1 DEF TypeOK
  <2>2. ASSUME NEW w \in Worker, ScheduleRetry(w) PROVE \A d \in Delivery : attempt'[d] >= attempt[d]
    <3>1. seen[w] = attempt[cur[w]] /\ seen[w] \in Nat /\ \A d \in Delivery : attempt[d] \in Nat
      BY <2>2 DEF ScheduleRetry, Refuse, SeenCurrent, TypeOK
    <3>2. attempt' = attempt \/ attempt' = [attempt EXCEPT ![cur[w]] = seen[w] + 1]
      BY <2>2 DEF ScheduleRetry, Reschedule, GiveUp
    <3>3. QED
      BY <3>1, <3>2 DEF TypeOK
  <2>3. QED
    BY <2>1, <2>2
       DEF Next, Publish, Match, SaveRows, Enqueue, DeleteWebhook, Deliver, Take, PostAccepted,
           PostRefused, SaveDelivered, Raise, Elapse, CheckRetries, ApiCrash, WorkerCrash
<1>3. QED
  BY <1>1, <1>2, SeenNext, TypeCorrect, PTL DEF Spec, AttemptsGrow
=============================================================================
