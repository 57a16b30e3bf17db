--------------------------- MODULE ExtractionWorker ---------------------------
(***************************************************************************)
(* Extraction jobs and batches from submission to the last counter write:  *)
(* the submit handlers of routers/extract.py and routers/batch.py, the     *)
(* queue and process_job of services/extraction-worker.py, and the batch   *)
(* rows of services/batch-service.py.                                      *)
(*                                                                         *)
(* Every await of process_job at which another task can run is a value of  *)
(* pc, so each database transaction is one step and nothing else is        *)
(* atomic.  The queue is the in-process asyncio.Queue or, with UseRedis,   *)
(* ARQ (external): at-least-once delivery with a retry limit and a timeout.*)
(***************************************************************************)
EXTENDS BatchStatus, FiniteSets

CONSTANTS
    Job,         \* the files clients submit: each becomes a job or is skipped
    Batch,       \* batch requests
    NoBatch,     \* what BatchOf gives for a job of POST /extract
    BatchOf,     \* the request each file belongs to
    Inline,      \* jobs whose request carries schema_fields
    Pipelined,   \* jobs whose request names a pipeline_id
    AcceptsZero, \* review_confidence_threshold is 0: no confidence is below it
    Worker,      \* fallback worker tasks, or ARQ's concurrent job slots
    NoJob,       \* cur of a worker that holds no job
    UseRedis,    \* ARQ (TRUE) or the in-memory fallback (FALSE)
    MaxTries,    \* ARQ's max_tries
    Reviewable,  \* bound: the jobs reviewers act on in a behaviour
    MaxCrashes,  \* bound: process crashes in a behaviour
    MaxDrops     \* bound: runs that end early in a behaviour

ASSUME WorkerAssumption ==
    /\ IsFiniteSet(Job)
    /\ NoBatch \notin Batch
    /\ BatchOf \in [Job -> Batch \cup {NoBatch}]
    /\ Inline \subseteq Job /\ Pipelined \subseteq Job /\ Reviewable \subseteq Job
    /\ NoJob \notin Job
    /\ UseRedis \in BOOLEAN /\ AcceptsZero \in BOOLEAN
    /\ MaxTries \in Nat \ {0}
    /\ MaxCrashes \in Nat /\ MaxDrops \in Nat

VARIABLES
    bStatus, bCompleted, bFailed,  \* the batches table
    jobStatus,                     \* jobs.status
    itemStatus,                    \* batch_items.status of the job's item
    step,                          \* how far the submit handler got with a file
    queue,                         \* ids waiting in the queue
    tries,                         \* deliveries of a job to a worker (ARQ's job_try)
    pc, cur, verdict, seen,        \* each worker: next step, job, status, counters read
    started, finalised,            \* approval workflows begun and ended per job
    legacy,                        \* a review without workflow: request and row
    crashes, drops                 \* faults so far

batchVars  == <<bStatus, bCompleted, bFailed>>
rowVars    == <<jobStatus, itemStatus>>
queueVars  == <<queue, tries>>
workerVars == <<pc, cur, verdict, seen>>
reviewVars == <<started, finalised, legacy>>
faultVars  == <<crashes, drops>>
vars == <<batchVars, rowVars, step, queueVars, workerVars, reviewVars, faultVars>>

JobState  == {"absent", "pending", "processing", "completed", "failed",
              "pending_review", "reviewed", "rejected"}
ItemState == {"absent", "pending", "cancelled"}
StepState == {"unsent", "created", "linked", "sent", "skipped", "lost"}
LegacyState == {"none", "checked", "reviewed"}
Saves     == {"saving", "piped"}   \* a result of the direct route, of a pipeline
PcState   == {"idle", "loaded", "running", "failing",
              "reread", "counting", "writing"} \cup Saves

Files(b)    == {j \in Job : BatchOf[j] = b}
InBatch(j)  == BatchOf[j] # NoBatch
Held        == {cur[w] : w \in Worker} \ {NoJob}
(* The queue and the workers are through with a job.                       *)
Settled(j)  == step[j] = "sent" /\ j \notin queue /\ j \notin Held
Nothing     == [completed |-> 0, failed |-> 0]

Init ==
    /\ bStatus = [b \in Batch |-> "absent"]
    /\ bCompleted = [b \in Batch |-> 0]
    /\ bFailed = [b \in Batch |-> 0]
    /\ jobStatus = [j \in Job |-> "absent"]
    /\ itemStatus = [j \in Job |-> "absent"]
    /\ step = [j \in Job |-> "unsent"]
    /\ queue = {}
    /\ tries = [j \in Job |-> 0]
    /\ pc = [w \in Worker |-> "idle"]
    /\ cur = [w \in Worker |-> NoJob]
    /\ verdict = [w \in Worker |-> "absent"]
    /\ seen = [w \in Worker |-> Nothing]
    /\ started = [j \in Job |-> 0]
    /\ finalised = [j \in Job |-> 0]
    /\ legacy = [j \in Job |-> "none"]
    /\ crashes = 0
    /\ drops = 0

-----------------------------------------------------------------------------
(* Submission: the handlers of POST /extract and POST /extract/batch.      *)

CreateBatch(b) ==
    /\ bStatus[b] = "absent"
    /\ bStatus' = [bStatus EXCEPT ![b] = "pending"]
    /\ UNCHANGED <<bCompleted, bFailed, rowVars, step, queueVars, workerVars,
                   reviewVars, faultVars>>

(* The handler takes the files of a batch one after another.               *)
NextFile(j) ==
    /\ step[j] = "unsent"
    /\ InBatch(j) => /\ bStatus[BatchOf[j]] # "absent"
                     /\ \A k \in Files(BatchOf[j]) : step[k] \notin {"created", "linked"}

(* An unsupported or oversized file is dropped; total_items still has it.  *)
SkipFile(j) ==
    /\ InBatch(j) /\ NextFile(j)
    /\ step' = [step EXCEPT ![j] = "skipped"]
    /\ UNCHANGED <<batchVars, rowVars, queueVars, workerVars, reviewVars, faultVars>>

(* create_job, save_upload and update_job_input_file: the row and its file.*)
CreateJob(j) ==
    /\ NextFile(j)
    /\ step' = [step EXCEPT ![j] = "created"]
    /\ jobStatus' = [jobStatus EXCEPT ![j] = "pending"]
    /\ UNCHANGED <<batchVars, itemStatus, queueVars, workerVars, reviewVars, faultVars>>

AddItem(j) ==
    /\ InBatch(j) /\ step[j] = "created"
    /\ step' = [step EXCEPT ![j] = "linked"]
    /\ itemStatus' = [itemStatus EXCEPT ![j] = "pending"]
    /\ UNCHANGED <<batchVars, jobStatus, queueVars, workerVars, reviewVars, faultVars>>

(* Plausible slip: a request retried after its answer got lost puts the id *)
(* on the queue again.                                                     *)
EnqueueAgain(j) ==
    /\ step[j] \in {IF InBatch(j) THEN "linked" ELSE "created", "sent"}
    /\ step' = [step EXCEPT ![j] = "sent"]
    /\ queue' = queue \cup {j}
    /\ UNCHANGED <<batchVars, rowVars, tries, workerVars, reviewVars, faultVars>>

Enqueue(j) ==
    /\ step[j] = IF InBatch(j) THEN "linked" ELSE "created"
    /\ step' = [step EXCEPT ![j] = "sent"]
    /\ queue' = queue \cup {j}
    /\ UNCHANGED <<batchVars, rowVars, tries, workerVars, reviewVars, faultVars>>

(* cancel_batch: one transaction over jobs, items and the batch; neither   *)
(* the counters nor the queue is touched.                                  *)
CancelBatch(b) ==
    /\ bStatus[b] # "absent"
    /\ jobStatus' = [j \in Job |-> IF BatchOf[j] = b /\ jobStatus[j] = "pending"
                                   THEN "failed" ELSE jobStatus[j]]
    /\ itemStatus' = [j \in Job |-> IF BatchOf[j] = b /\ itemStatus[j] = "pending"
                                    THEN "cancelled" ELSE itemStatus[j]]
    /\ bStatus' = [bStatus EXCEPT ![b] = "failed"]
    /\ UNCHANGED <<bCompleted, bFailed, step, queueVars, workerVars, reviewVars, faultVars>>

-----------------------------------------------------------------------------
(* process_job, one worker at a time through its awaits.                   *)

Go(w, next) == pc' = [pc EXCEPT ![w] = next]

Release(w) ==
    /\ Go(w, "idle")
    /\ cur' = [cur EXCEPT ![w] = NoJob]
    /\ verdict' = [verdict EXCEPT ![w] = "absent"]
    /\ seen' = [seen EXCEPT ![w] = Nothing]

(* Plausible slip: an id is handed out without leaving the queue.          *)
TakeKeeping(w, j) ==
    /\ pc[w] = "idle" /\ j \in queue /\ tries[j] < MaxTries
    /\ tries' = [tries EXCEPT ![j] = @ + 1]
    /\ cur' = [cur EXCEPT ![w] = j]
    /\ Go(w, "loaded")
    /\ UNCHANGED <<queue, batchVars, rowVars, step, verdict, seen, reviewVars, faultVars>>

(* Dequeue and load the row; its status is not looked at.                  *)
Take(w, j) ==
    /\ pc[w] = "idle" /\ j \in queue
    /\ queue' = queue \ {j}
    /\ tries' = [tries EXCEPT ![j] = @ + 1]
    /\ cur' = [cur EXCEPT ![w] = j]
    /\ Go(w, "loaded")
    /\ UNCHANGED <<batchVars, rowVars, step, verdict, seen, reviewVars, faultVars>>

(* Plausible slip: the ARQ task's own result status ends up in the row.    *)
SetJobProcessed(w, status) == jobStatus' = [jobStatus EXCEPT ![cur[w]] = "processed"]

SetJob(w, status) == jobStatus' = [jobStatus EXCEPT ![cur[w]] = status]

MarkProcessing(w) ==
    /\ pc[w] = "loaded"
    /\ SetJob(w, "processing")
    /\ Go(w, "running")
    /\ UNCHANGED <<batchVars, itemStatus, step, queueVars, cur, verdict, seen,
                   reviewVars, faultVars>>

(* Plausible slip: the event of a saved job is published outside the       *)
(* swallowing try blocks, so a failure there also lands in the handler.    *)
RaisesAtPublishToo == {"loaded", "running", "reread"} \cup Saves

(* Where an exception reaches process_job's handler: a missing file or     *)
(* schema, the provider, the pipeline, the approval engine or a save.      *)
RaisesAt == {"loaded", "running"} \cup Saves

Raise(w) ==
    /\ pc[w] \in RaisesAt
    /\ Go(w, "failing")
    /\ UNCHANGED <<batchVars, rowVars, step, queueVars, cur, verdict, seen,
                   reviewVars, faultVars>>

(* What the confidence can decide: a pipeline's result has confidence 0.0, *)
(* nothing sets it and score_from_results does not exist.                  *)
ByConfidence(route) ==
    {"pending_review"} \cup IF route = "saving" \/ AcceptsZero THEN {"completed"} ELSE {}

(* The extraction succeeded, by the pipeline or, without one or when it is *)
(* gone, by a provider, and _determine_final_status has picked the status; *)
(* a policy on the schema has its first round committed by start_approval  *)
(* already.  A failure in there is swallowed and the confidence decides.   *)
Decide(w) ==
    /\ pc[w] = "running" /\ cur[w] \in Inline
    /\ \E route \in Saves :
          /\ route = "piped" => cur[w] \in Pipelined
          /\ Go(w, route)
          /\ \/ /\ verdict' = [verdict EXCEPT ![w] = "pending_review"]
                /\ started' = [started EXCEPT ![cur[w]] = @ + 1]
             \/ /\ \E status \in ByConfidence(route) : verdict' = [verdict EXCEPT ![w] = status]
                /\ UNCHANGED started
    /\ UNCHANGED <<batchVars, rowVars, step, queueVars, cur, seen, finalised,
                   legacy, faultVars>>

(* After the last job update: only a batch job goes on to its counters.    *)
ToCounters(w) ==
    IF InBatch(cur[w])
    THEN Go(w, "reread") /\ UNCHANGED <<cur, verdict, seen>>
    ELSE Release(w)

(* The direct route saves and falls through to the counters ...            *)
SaveResult(w) ==
    /\ pc[w] = "saving"
    /\ SetJob(w, verdict[w])
    /\ ToCounters(w)
    /\ UNCHANGED <<batchVars, itemStatus, step, queueVars, reviewVars, faultVars>>

(* ... a pipeline's result is saved and process_job returns (line 81).     *)
SavePipelineResult(w) ==
    /\ pc[w] = "piped"
    /\ SetJob(w, verdict[w])
    /\ Release(w)
    /\ UNCHANGED <<batchVars, itemStatus, step, queueVars, reviewVars, faultVars>>

MarkFailed(w) ==
    /\ pc[w] = "failing"
    /\ SetJob(w, "failed")
    /\ ToCounters(w)
    /\ UNCHANGED <<batchVars, itemStatus, step, queueVars, reviewVars, faultVars>>

(* The status is read back; _update_batch ignores all but two of them.     *)
Reread(w) ==
    /\ pc[w] = "reread"
    /\ IF jobStatus[cur[w]] \in {"completed", "failed"}
       THEN /\ verdict' = [verdict EXCEPT ![w] = jobStatus[cur[w]]]
            /\ Go(w, "counting")
            /\ UNCHANGED <<cur, seen>>
       ELSE Release(w)
    /\ UNCHANGED <<batchVars, rowVars, step, queueVars, reviewVars, faultVars>>

(* update_batch_counters: the SELECT ...                                   *)
ReadCounters(w) ==
    LET b == BatchOf[cur[w]] IN
    /\ pc[w] = "counting"
    /\ seen' = [seen EXCEPT ![w] = [completed |-> bCompleted[b], failed |-> bFailed[b]]]
    /\ Go(w, "writing")
    /\ UNCHANGED <<batchVars, rowVars, step, queueVars, cur, verdict, reviewVars, faultVars>>

(* Plausible slips: a failure is counted on both sides, or as a success.   *)
Plus(w, status) == IF verdict[w] = status THEN 1 ELSE 0
CountedBoth(w) == [completed |-> seen[w].completed + 1,
                   failed |-> seen[w].failed + Plus(w, "failed")]
CountedAsCompleted(w) == [seen[w] EXCEPT !.completed = @ + 1]

(* The counters the UPDATE writes: what was read plus the delta ...        *)
Counted(w) == [completed |-> seen[w].completed + Plus(w, "completed"),
               failed |-> seen[w].failed + Plus(w, "failed")]

(* ... and the status that follows from them.                              *)
NewStatus(w) ==
    DeriveStatus(Cardinality(Files(BatchOf[cur[w]])), Counted(w).completed, Counted(w).failed)

(* The UPDATE of counters and status, with what the SELECT gave.           *)
WriteCounters(w) ==
    LET b == BatchOf[cur[w]] IN
    /\ pc[w] = "writing"
    /\ bCompleted' = [bCompleted EXCEPT ![b] = Counted(w).completed]
    /\ bFailed' = [bFailed EXCEPT ![b] = Counted(w).failed]
    /\ bStatus' = [bStatus EXCEPT ![b] = NewStatus(w)]
    /\ Release(w)
    /\ UNCHANGED <<rowVars, step, queueVars, reviewVars, faultVars>>

-----------------------------------------------------------------------------
(* Reviewers write jobs.status too, whatever the worker is doing.          *)

(* The approval engine's _finalize_job, once a workflow has ended.         *)
FinaliseReview(j) ==
    /\ j \in Reviewable /\ finalised[j] < started[j]
    /\ finalised' = [finalised EXCEPT ![j] = @ + 1]
    /\ \E status \in {"reviewed", "rejected"} :
          jobStatus' = [jobStatus EXCEPT ![j] = status]
    /\ UNCHANGED <<batchVars, itemStatus, step, queueVars, workerVars, started,
                   legacy, faultVars>>

(* review-service.submit_review: any job without approval rounds and       *)
(* without a review, whatever its status.  The check ...                   *)
LegacyCheck(j) ==
    /\ j \in Reviewable /\ jobStatus[j] # "absent" /\ started[j] = 0 /\ legacy[j] = "none"
    /\ legacy' = [legacy EXCEPT ![j] = "checked"]
    /\ UNCHANGED <<batchVars, rowVars, step, queueVars, workerVars, started,
                   finalised, faultVars>>

(* ... and, in a later transaction, the review row and the status.         *)
LegacyReview(j) ==
    /\ legacy[j] = "checked"
    /\ legacy' = [legacy EXCEPT ![j] = "reviewed"]
    /\ jobStatus' = [jobStatus EXCEPT ![j] = "reviewed"]
    /\ UNCHANGED <<batchVars, itemStatus, step, queueVars, workerVars, started,
                   finalised, faultVars>>

-----------------------------------------------------------------------------
(* Faults.                                                                 *)

(* A request whose handler dies is not resumed: its files stay behind.     *)
Abandoned == [j \in Job |->
    IF \/ step[j] \in {"created", "linked"}
       \/ step[j] = "unsent" /\ InBatch(j) /\ bStatus[BatchOf[j]] # "absent"
    THEN "lost" ELSE step[j]]

AllIdle ==
    /\ pc' = [w \in Worker |-> "idle"]
    /\ cur' = [w \in Worker |-> NoJob]
    /\ verdict' = [w \in Worker |-> "absent"]
    /\ seen' = [w \in Worker |-> Nothing]

(* The API process dies; without Redis its queue and workers die with it.  *)
ApiCrash ==
    /\ crashes < MaxCrashes
    /\ crashes' = crashes + 1
    /\ step' = Abandoned
    /\ legacy' = [j \in Job |-> IF legacy[j] = "checked" THEN "none" ELSE legacy[j]]
    /\ IF UseRedis THEN UNCHANGED <<queue, workerVars>>
                   ELSE AllIdle /\ queue' = {}
    /\ UNCHANGED <<batchVars, rowVars, tries, started, finalised, drops>>

(* Plausible slip: a job in flight is acknowledged before it is done.      *)
RedeliveredNever == {}

(* ARQ redelivers what an ARQ worker process was running, up to max_tries. *)
Redelivered == {j \in Held : tries[j] < MaxTries}

WorkerCrash ==
    /\ UseRedis /\ crashes < MaxCrashes
    /\ crashes' = crashes + 1
    /\ AllIdle
    /\ queue' = queue \cup Redelivered
    /\ UNCHANGED <<batchVars, rowVars, step, tries, reviewVars, drops>>

(* A run that ends early without a trace: an error in the handler's own    *)
(* update or in the re-read reaches the worker loop, one in the counter    *)
(* update is swallowed by _update_batch.  ARQ cancels a job after          *)
(* job_timeout at whatever await it is in, too; CancelledError is no       *)
(* Exception, so no handler of process_job runs.                           *)
Drop(w) ==
    /\ drops < MaxDrops
    /\ \/ pc[w] \in {"failing", "reread", "counting", "writing"}
       \/ UseRedis /\ pc[w] # "idle"
    /\ drops' = drops + 1
    /\ Release(w)
    /\ UNCHANGED <<batchVars, rowVars, step, queueVars, reviewVars, crashes>>

-----------------------------------------------------------------------------
Submit(j) == SkipFile(j) \/ CreateJob(j) \/ AddItem(j) \/ Enqueue(j)

WorkerStep(w) ==
    \/ \E j \in Job : Take(w, j)
    \/ MarkProcessing(w) \/ Raise(w) \/ Decide(w)
    \/ SaveResult(w) \/ SavePipelineResult(w) \/ MarkFailed(w)
    \/ Reread(w) \/ ReadCounters(w) \/ WriteCounters(w)

Review(j) == FinaliseReview(j) \/ LegacyCheck(j) \/ LegacyReview(j)

Next ==
    \/ \E b \in Batch : CreateBatch(b) \/ CancelBatch(b)
    \/ \E j \in Job : Submit(j) \/ Review(j)
    \/ \E w \in Worker : WorkerStep(w) \/ Drop(w)
    \/ ApiCrash \/ WorkerCrash

Spec == Init /\ [][Next]_vars

(* The event loop runs every ready coroutine and ARQ polls its queue, so a *)
(* worker that can take a step does.  Clients, reviewers and faults are    *)
(* not obliged to do anything.                                             *)
FairSpec == Spec /\ \A w \in Worker : WF_vars(WorkerStep(w))

-----------------------------------------------------------------------------
TypeOK ==
    /\ bStatus \in [Batch -> BatchState]
    /\ bCompleted \in [Batch -> Nat] /\ bFailed \in [Batch -> Nat]
    /\ jobStatus \in [Job -> JobState]
    /\ itemStatus \in [Job -> ItemState]
    /\ step \in [Job -> StepState]
    /\ queue \subseteq Job
    /\ tries \in [Job -> Nat]
    /\ pc \in [Worker -> PcState]
    /\ cur \in [Worker -> Job \cup {NoJob}]
    /\ verdict \in [Worker -> JobState]
    /\ seen \in [Worker -> [completed : Nat, failed : Nat]]
    /\ started \in [Job -> Nat] /\ finalised \in [Job -> Nat]
    /\ legacy \in [Job -> LegacyState]
    /\ crashes \in 0 .. MaxCrashes /\ drops \in 0 .. MaxDrops

(* No job is in two hands: workers hold different jobs, none of them       *)
(* queued as well, only jobs the handlers sent are anywhere at all, and a  *)
(* worker at its counters holds a job of a batch.                          *)
OneOwner ==
    /\ \A w, v \in Worker : cur[w] = cur[v] /\ cur[w] # NoJob => w = v
    /\ Held \cap queue = {}
    /\ \A j \in queue \cup Held : step[j] = "sent"
    /\ \A w \in Worker : /\ pc[w] = "idle" <=> cur[w] = NoJob
                         /\ pc[w] \in {"reread", "counting", "writing"} => InBatch(cur[w])

(* In-memory queue: the counters of a batch never exceed its files, however*)
(* many workers read and write them at once.                               *)
NoOvercount ==
    ~UseRedis => \A b \in Batch : bCompleted[b] + bFailed[b] <= Cardinality(Files(b))

(* In-memory queue: a batch that reports "completed" has no file that was  *)
(* skipped, lost, failed or unfinished.                                    *)
CompletedIsTruthful ==
    ~UseRedis => \A b \in Batch : bStatus[b] = "completed" =>
        \A j \in Files(b) : Settled(j) /\ jobStatus[j] \in {"completed", "reviewed"}

(* The status column agrees with the counters, but for a cancellation.     *)
StatusMatchesCounters ==
    \A b \in Batch : bStatus[b] \notin {"absent", "failed"} =>
        bStatus[b] = DeriveStatus(Cardinality(Files(b)), bCompleted[b], bFailed[b])

(* In-memory queue: the only thing that happens to a completed job is a    *)
(* review; no late failure, second run or cancellation undoes it.          *)
CompletedStays ==
    [][~UseRedis => \A j \in Job : jobStatus[j] = "completed" =>
            jobStatus'[j] \in {"completed", "reviewed"}]_vars

(* "Atomically update batch counters": the write that counts a job raises  *)
(* the batch's total by exactly one.                                       *)
CountIsAtomic ==
    [][\A w \in Worker : WriteCounters(w) =>
         LET b == BatchOf[cur[w]]
         IN  bCompleted'[b] + bFailed'[b] = bCompleted[b] + bFailed[b] + 1]_vars

(* Why the counters can be trusted that far (in-memory queue).  The jobs a *)
(* batch may have counted are those the workers are through with, and as   *)
(* completed those among them nothing can turn into a failure any more.    *)
SettledIn(b) == {j \in Files(b) : Settled(j)}
DoneIn(b)    == {j \in SettledIn(b) : /\ jobStatus[j] \in {"completed", "reviewed"}
                                     /\ started[j] = finalised[j]}
WithinBounds(b, c, f) ==
    c <= Cardinality(DoneIn(b)) /\ c + f <= Cardinality(SettledIn(b))
Undecided(j) ==
    \/ step[j] # "sent" \/ j \in queue
    \/ \E w \in Worker : cur[w] = j /\ pc[w] \in {"loaded", "running"}
Unsaved(j) ==
    Undecided(j) \/ \E w \in Worker : cur[w] = j /\ pc[w] \in Saves \cup {"failing"}

(* A job has no approval workflow before its result is decided, one after. *)
WorkflowsBegin ==
    \A j \in Job : /\ finalised[j] <= started[j] /\ started[j] <= 1
                   /\ Undecided(j) => started[j] = 0

(* "completed", as row or as verdict, is only of jobs without a workflow,  *)
(* and a worker that counts one as completed has it completed or reviewed. *)
CompletedUnreviewed ==
    /\ \A j \in Job : jobStatus[j] = "completed" => started[j] = 0 /\ ~Unsaved(j)
    /\ \A w \in Worker :
         /\ pc[w] \in Saves /\ verdict[w] = "completed" => started[cur[w]] = 0
         /\ pc[w] \in {"counting", "writing"} =>
              \/ verdict[w] = "failed"
              \/ /\ verdict[w] = "completed" /\ started[cur[w]] = 0
                 /\ jobStatus[cur[w]] \in {"completed", "reviewed"}

(* What a worker has read, and what is in the row, is within the bounds.   *)
CountersWithin ==
    /\ \A w \in Worker : pc[w] = "writing" =>
         WithinBounds(BatchOf[cur[w]], seen[w].completed, seen[w].failed)
    /\ \A b \in Batch : WithinBounds(b, bCompleted[b], bFailed[b])

CountsBounded == ~UseRedis => WorkflowsBegin /\ CompletedUnreviewed /\ CountersWithin

(* A batch row exists, with zero counters, before any file of it is taken. *)
BatchBeforeJobs ==
    /\ \A b \in Batch : bStatus[b] = "absent" => bCompleted[b] = 0 /\ bFailed[b] = 0
    /\ \A j \in Job : InBatch(j) /\ step[j] # "unsent" => bStatus[BatchOf[j]] # "absent"

(* In-memory queue: a job gets one approval workflow, never a second one.  *)
OneWorkflow == ~UseRedis => \A j \in Job : started[j] <= 1

(* With ARQ a job that was sent gets its run to the end, the worker is done*)
(* with it and it is not left pending or processing, unless the crashes    *)
(* have used up its tries or a run was dropped.                            *)
SentJobsSettle ==
    UseRedis => \A j \in Job : step[j] = "sent" ~>
        \/ Settled(j) /\ jobStatus[j] \notin {"absent", "pending", "processing"}
        \/ crashes >= MaxTries \/ drops > 0

(* The queue as the abstract one of TaskQueue.                             *)
TaskState == [j \in Job |-> IF j \in queue THEN "queued"
                            ELSE IF j \in Held THEN "running"
                            ELSE IF step[j] = "sent" THEN "gone" ELSE "new"]
Q == INSTANCE TaskQueue WITH Task <- Job, AtLeastOnce <- UseRedis, task <- TaskState
QSpec == Q!Spec
=============================================================================
