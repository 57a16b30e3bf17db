------------------------------ MODULE TaskQueue ------------------------------
(***************************************************************************)
(* What a job queue promises to the code that enqueues on it, whatever     *)
(* runs underneath (an asyncio.Queue in the API process or an ARQ queue in *)
(* Redis): a task is put once, starts only when it was queued, and once it *)
(* is gone it never comes back.  An at-least-once queue may put a started  *)
(* task back; an at-most-once queue may lose tasks but never repeats one.  *)
(***************************************************************************)
CONSTANTS Task,         \* the things enqueued
          AtLeastOnce   \* may a started task be queued again? (a Boolean)

VARIABLE task           \* where each task is

Init == task = [t \in Task |-> "new"]

Put(t) == task[t] = "new" /\ task' = [task EXCEPT ![t] = "queued"]

Start(t) == task[t] = "queued" /\ task' = [task EXCEPT ![t] = "running"]

Finish(t) == task[t] = "running" /\ task' = [task EXCEPT ![t] = "gone"]

(* A fault strikes every task in flight at once: the tasks of Back return  *)
(* to the queue, those of Lost disappear.                                  *)
Fault(Back, Lost) ==
    /\ Back \subseteq {t \in Task : AtLeastOnce /\ task[t] = "running"}
    /\ Lost \subseteq {t \in Task : task[t] \in {"queued", "running"}} \ Back
    /\ task' = [t \in Task |-> IF t \in Back THEN "queued"
                               ELSE IF t \in Lost THEN "gone" ELSE task[t]]

Next == \/ \E t \in Task : Put(t) \/ Start(t) \/ Finish(t)
        \/ \E Back, Lost \in SUBSET Task : Fault(Back, Lost)

Spec == Init /\ [][Next]_task
=============================================================================
