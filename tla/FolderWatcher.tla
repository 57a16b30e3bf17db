---------------------------- MODULE FolderWatcher ----------------------------
(***************************************************************************)
(* services/folder-watcher.py and the worker that runs its jobs: users     *)
(* drop files into the watched directory, the watcher makes a job of each, *)
(* enqueues it and moves the file to processed/.  Beside it clients submit *)
(* jobs through the API and change pipelines.                              *)
(*                                                                         *)
(* awatch is external: it collects the changes of the directory tree while *)
(* the loop runs, those that the watcher makes among them.  Its batches    *)
(* are those of ExtractionWorker and are not counted here.                 *)
(***************************************************************************)
EXTENDS PipelineEngine

CONSTANTS
    Doc, Name,        \* documents, numbered as they are dropped, and the
                      \* names of supported types that they get
    WatchPipeline,    \* settings.watch_pipeline_id
    Queues,           \* "memory" or "redis" as the deployment has it
    MaxUploads,       \* bound on jobs that clients submit
    MaxFaults         \* bound on crashes, exceptions and failed moves

(* The image that a client sends along, where a file is a document.        *)
Upload == 0

(* JobORM, as far as a job's processing goes.                              *)
Statuses == {"pending", "processing", "completed", "pending_review", "failed"}
JobRow   == [file : Name \cup {None}, doc : Doc \cup {Upload}, inline : BOOLEAN,
             pipeline : Pipeline \cup {None}, status : Statuses,
             result : {<<d>> : d \in Doc \cup {Upload}} \cup {None},
             confidence : (0..100) \cup {None}, aborted : BOOLEAN]

ASSUME WatcherAssumption ==
    /\ Job \subseteq Nat /\ Doc = 1..Cardinality(Doc)
    /\ WatchPipeline \in Pipeline \cup {None}
    /\ Queues \subseteq {"memory", "redis"}
    /\ MaxUploads \in Nat /\ MaxFaults \in Nat
    /\ None \notin Nat /\ None \notin Name /\ None \notin JobRow

VARIABLES
    watchDir,    \* the document under each name, None where there is none
    processed,   \* the same of processed/
    changes,     \* what awatch has not yielded
    loop,        \* _watch_loop: where it is, its files, the one in hand
    broker,      \* which of Queues it is
    dropped,     \* history: the documents users have dropped
    shared,      \* history: those that were dropped on one another
    faults

watcherVars == <<watchDir, processed, changes, loop, broker, dropped, shared, faults>>
vars == <<engineVars, watcherVars>>

Up(l)     == l.at \notin {"down", "dead"}
Listening == [at |-> "listen", files |-> {}, file |-> None, job |-> None]
Stopped(at) == [Listening EXCEPT !.at = at]

Change == [dir : {"watch", "processed"}, name : Name, type : {"added", "modified", "deleted"}]

(* The changes that awatch will yield after these: none while nobody runs. *)
Seen(set) == IF Up(loop) THEN changes \cup set ELSE changes
Put(dir, n, old) ==
    [dir |-> dir, name |-> n, type |-> IF old = None THEN "added" ELSE "modified"]

(* A new id.  Ids are random: those of files are counted from below and    *)
(* those of uploads from above.                                            *)
Free(j)      == jobs[j] = None /\ \A i \in Job : i < j => jobs[i] # None
FreeAbove(j) == jobs[j] = None /\ \A i \in Job : i > j => jobs[i] # None
Uploads      == {j \in Job : jobs[j] # None /\ jobs[j].file = None}

Init ==
    /\ EngineInit
    /\ broker \in Queues
    /\ watchDir = [n \in Name |-> None] /\ processed = [n \in Name |-> None]
    /\ changes = {} /\ loop = Listening
    /\ dropped = {} /\ shared = {} /\ faults = 0

-----------------------------------------------------------------------------
(* Clients and users                                                       *)

(* POST /extract: the upload is stored under its job's own name.           *)
Submit(j, p) ==
    /\ FreeAbove(j) /\ Cardinality(Uploads) < MaxUploads
    /\ jobs' = [jobs EXCEPT ![j] = NewJob(None, Upload, TRUE, p)]
    /\ queue' = queue \cup {j}
    /\ UNCHANGED <<pipelines, run, watcherVars>>

(* A file that lands on one which is still there replaces it.              *)
Drop(n) == \E d \in Doc :
    /\ d = Cardinality(dropped) + 1 /\ dropped' = dropped \cup {d}
    /\ watchDir' = [watchDir EXCEPT ![n] = d]
    /\ changes' = Seen({Put("watch", n, watchDir[n])})
    /\ shared' = IF watchDir[n] = None THEN shared ELSE shared \cup {d, watchDir[n]}
    /\ UNCHANGED <<engineVars, processed, loop, broker, faults>>

-----------------------------------------------------------------------------
(* _watch_loop and _process_batch                                          *)

(* Fault: only one file of a yield is taken.                               *)
YieldOne ==
    LET files == {c \in changes : c.dir = "watch"} IN
    /\ loop.at = "listen" /\ changes # {}
    /\ changes' = {}
    /\ loop' = IF files = {} THEN loop
               ELSE [loop EXCEPT !.at = "files", !.files = {CHOOSE c \in files : TRUE}]
    /\ UNCHANGED <<engineVars, watchDir, processed, broker, dropped, shared, faults>>

(* awatch yields all changes; files of processed/ are left out, deleted    *)
(* ones and repeated names are not.  Whatever comes during the window and  *)
(* create_batch can also come before the first file is looked at.          *)
Yield ==
    LET files == {c \in changes : c.dir = "watch"} IN
    /\ loop.at = "listen" /\ changes # {}
    /\ changes' = {}
    /\ loop' = IF files = {} THEN loop ELSE [loop EXCEPT !.at = "files", !.files = files]
    /\ UNCHANGED <<engineVars, watchDir, processed, broker, dropped, shared, faults>>

(* Fault: the file is moved first.                                         *)
CreateJobMoved ==
    /\ loop.at = "files"
    /\ \E c \in loop.files :
        /\ watchDir[c.name] # None
        /\ watchDir' = [watchDir EXCEPT ![c.name] = None]
        /\ processed' = [processed EXCEPT ![c.name] = watchDir[c.name]]
        /\ loop' = [loop EXCEPT !.at = "enqueue", !.files = @ \ {c}, !.file = c.name]
    /\ UNCHANGED <<engineVars, changes, broker, dropped, shared, faults>>

(* Fault: whether the file still exists is not asked.                      *)
CreateJobUnasked ==
    /\ loop.at = "files"
    /\ \E c \in loop.files, j \in Job :
        /\ Free(j)
        /\ jobs' = [jobs EXCEPT ![j] = NewJob(c.name, watchDir[c.name], FALSE, WatchPipeline)]
        /\ loop' = [loop EXCEPT !.at = "enqueue", !.files = @ \ {c}, !.file = c.name, !.job = j]
    /\ UNCHANGED <<pipelines, queue, run, watchDir, processed, changes, broker, dropped, shared, faults>>

(* Fault: a file that is gone is waited for.                               *)
SkipWaiting ==
    /\ loop.at = "files"
    /\ \E c \in loop.files : watchDir[c.name] = None
    /\ UNCHANGED vars

(* A file that is gone is passed over; for one that exists create_job      *)
(* commits, without fields.                                                *)
Skip ==
    /\ loop.at = "files"
    /\ \E c \in loop.files :
        /\ watchDir[c.name] = None
        /\ loop' = [loop EXCEPT !.files = @ \ {c}]
    /\ UNCHANGED <<engineVars, watchDir, processed, changes, broker, dropped, shared, faults>>

CreateJob ==
    /\ loop.at = "files"
    /\ \E c \in loop.files, j \in Job :
        /\ watchDir[c.name] # None /\ Free(j)
        /\ jobs' = [jobs EXCEPT ![j] = NewJob(c.name, watchDir[c.name], FALSE, WatchPipeline)]
        /\ loop' = [loop EXCEPT !.at = "enqueue", !.files = @ \ {c}, !.file = c.name, !.job = j]
    /\ UNCHANGED <<pipelines, queue, run, watchDir, processed, changes, broker, dropped, shared, faults>>

(* rename, or the OSError that is passed over.                             *)
Move(n) ==
    \/ /\ watchDir' = [watchDir EXCEPT ![n] = None]
       /\ processed' = [processed EXCEPT ![n] = watchDir[n]]
       /\ changes' = changes \cup {[dir |-> "watch", name |-> n, type |-> "deleted"],
                                   Put("processed", n, processed[n])}
       /\ UNCHANGED faults
    \/ /\ faults < MaxFaults /\ faults' = faults + 1
       /\ UNCHANGED <<watchDir, processed, changes>>

NextFile == [loop EXCEPT !.at = IF loop.files = {} THEN "listen" ELSE "files", !.file = None, !.job = None]

(* add_batch_item and the enqueueing.  put and rename follow each other at *)
(* once, a Redis call lets others in before the rename.                    *)
EnqueueMemory ==
    /\ loop.at = "enqueue" /\ broker = "memory"
    /\ queue' = queue \cup {loop.job}
    /\ Move(loop.file)
    /\ loop' = NextFile
    /\ UNCHANGED <<pipelines, jobs, run, broker, dropped, shared>>

EnqueueRedis ==
    /\ loop.at = "enqueue" /\ broker = "redis"
    /\ queue' = queue \cup {loop.job}
    /\ loop' = [loop EXCEPT !.at = "move"]
    /\ UNCHANGED <<pipelines, jobs, run, watchDir, processed, changes, broker, dropped, shared, faults>>

MoveFile ==
    /\ loop.at = "move"
    /\ Move(loop.file)
    /\ loop' = NextFile
    /\ UNCHANGED <<engineVars, broker, dropped, shared>>

(* When every name has been passed over.                                   *)
EndBatch ==
    /\ loop.at = "files" /\ loop.files = {}
    /\ loop' = Listening
    /\ UNCHANGED <<engineVars, watchDir, processed, changes, broker, dropped, shared, faults>>

-----------------------------------------------------------------------------
(* Faults                                                                  *)

(* An exception ends the loop; nothing starts it again.                    *)
LoopDies ==
    /\ faults < MaxFaults /\ faults' = faults + 1
    /\ loop.at \in {"files", "enqueue"}
    /\ loop' = Stopped("dead") /\ changes' = {}
    /\ UNCHANGED <<engineVars, watchDir, processed, broker, dropped, shared>>

(* The process takes its queue and its workers with it unless Redis and    *)
(* the worker process have them.                                           *)
Crash ==
    /\ faults < MaxFaults /\ faults' = faults + 1
    /\ loop.at # "down"
    /\ loop' = Stopped("down") /\ changes' = {}
    /\ IF broker = "memory" THEN queue' = {} /\ run' = [w \in Worker |-> Idle]
                            ELSE UNCHANGED <<queue, run>>
    /\ UNCHANGED <<pipelines, jobs, watchDir, processed, broker, dropped, shared>>

(* main.py starts the watcher on what happens from now on.                 *)
Restart ==
    /\ loop.at = "down"
    /\ loop' = Listening
    /\ UNCHANGED <<engineVars, watchDir, processed, changes, broker, dropped, shared, faults>>

-----------------------------------------------------------------------------
(* What the worker finds at a job's path.                                  *)
Image(job) == IF job.file = None THEN job.doc ELSE watchDir[job.file]

Process(w) ==
    \/ SelectPipeline(w) \/ RunStep(w) \/ RaiseStep(w)
    \/ SavePipeline(w) \/ Direct(w) \/ RaiseDirect(w) \/ Fail(w)

(* The workers of the process stop with it.                                *)
Work(w) ==
    \/ (broker = "redis" \/ loop.at # "down") /\ Take(w) /\ UNCHANGED watcherVars
    \/ run[w].job # None /\ Load(w, Image(jobs[run[w].job])) /\ UNCHANGED watcherVars
    \/ Process(w) /\ UNCHANGED watcherVars

Watch == \/ Yield \/ Skip \/ CreateJob \/ EnqueueMemory
         \/ EnqueueRedis \/ MoveFile \/ EndBatch

Clients ==
    \/ \E p \in Pipeline : (CreatePipeline(p) \/ UpdatePipeline(p)) /\ UNCHANGED watcherVars
    \/ \E j \in Job, p \in Pipeline \cup {None} : Submit(j, p)

Next ==
    \/ Clients
    \/ \E n \in Name : Drop(n)
    \/ Watch
    \/ \E w \in Worker : Work(w)
    \/ LoopDies \/ Crash \/ Restart

Spec == Init /\ [][Next]_vars

(* Every task of the event loop and the worker process get their turn.     *)
FairSpec == Spec /\ WF_vars(Watch) /\ \A w \in Worker : WF_vars(Work(w))

-----------------------------------------------------------------------------
(* Properties                                                              *)

(* Types; the worker and the watcher hold only jobs that exist.            *)
TypeOK ==
    /\ pipelines \in [Pipeline -> Configs \cup {None}]
    /\ jobs \in [Job -> JobRow \cup {None}]
    /\ queue \subseteq {j \in Job : jobs[j] # None}
    /\ \A w \in Worker : run[w].job # None => jobs[run[w].job] # None
    /\ watchDir \in [Name -> Doc \cup {None}] /\ processed \in [Name -> Doc \cup {None}]
    /\ changes \subseteq Change /\ loop.files \subseteq Change
    /\ loop.at \in {"enqueue", "move"} => loop.job # None /\ watchDir[loop.file] # None

WatchedJobs == {j \in Job : jobs[j] # None /\ jobs[j].file # None}

(* Jobs and files belong together, although the loop sees its own moves as *)
(* changes, a name may be in a batch twice and a batch outlives its files: *)
(* every job of the watcher is of a file that a user dropped, no two are   *)
(* of the same one unless a fault or a second file of its name came        *)
(* between, and wherever the loop or the process ends no file is put away  *)
(* in processed/ without a job (_process_batch).                           *)
OneJobPerDrop ==
    /\ \A j \in WatchedJobs :
        /\ jobs[j].doc \in dropped
        /\ \A i \in WatchedJobs \ {j} :
            jobs[i].doc = jobs[j].doc => faults > 0 \/ jobs[j].doc \in shared
    /\ \A n \in Name :
        processed[n] # None /\ processed[n] \notin shared =>
            \E j \in WatchedJobs : jobs[j].doc = processed[n]

(* A result that a validate step rejected is saved like any other, and yet *)
(* never as completed: _save_pipeline_result asks only the confidence, and *)
(* only a threshold that turns all reviews off lets 0.0 pass.              *)
AbortedIsReviewed ==
    \A j \in Job : jobs[j] # None /\ jobs[j].aborted /\ jobs[j].status = "completed" => Threshold <= 0

(* The changes that the loop makes do not keep it busy for ever.           *)
WatcherQuiet == <>[](loop.at \in {"listen", "dead", "down"} /\ changes = {})

(* In the end no dropped file is left in the directory, unless a fault     *)
(* intervened: a file that comes while others are handled, or under a name *)
(* in use, is not forgotten.                                               *)
AllMoved == <>[](faults > 0 \/ \A n \in Name : watchDir[n] = None)

(* In the end every job has settled, whatever its pipeline held and        *)
(* whoever raised, unless a fault intervened.                              *)
JobsSettle == <>[](faults > 0 \/ \A j \in Job : jobs[j] # None => Settled(j))

(* system-architecture.md:243: each file of the watched directory gets a   *)
(* job, is extracted, scored and its result stored.                        *)
WatchedFileExtracted ==
    \A j \in WatchedJobs : Settled(j) =>
        jobs[j].result = <<jobs[j].doc>>

(* What happens instead: the worker has no fields for the job and fails.   *)
WatchedJobsFail ==
    \A j \in WatchedJobs :
        jobs[j].status \in {"pending", "processing", "failed"} /\ jobs[j].result = None
=============================================================================
