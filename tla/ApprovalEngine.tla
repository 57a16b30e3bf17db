---------------------------- MODULE ApprovalEngine ----------------------------
(***************************************************************************)
(* The approval workflow of one job: services/approval-engine.py with the  *)
(* handlers of routers/review-workflow.py, the worker that starts it, and  *)
(* update_policy of services/approval-policy-service.py on its policy row. *)
(* Workflows of different jobs share nothing but that row.                 *)
(*                                                                         *)
(* A request reads in sessions of its own before the transaction that      *)
(* writes, so what it found may be stale then.  SQLite (Serialized) has    *)
(* one writer at a time, from its first UPDATE to its commit; PostgreSQL   *)
(* only locks the rows written and reads what others have committed.       *)
(***************************************************************************)
EXTENDS Integers, FiniteSets

CONSTANTS
    Chain,       \* policy_type: "chain" (TRUE) or "quorum" (FALSE)
    Configs,     \* the policy's config: steps of the chain, required approvals
    Serialized,  \* the database is SQLite
    Reviewer,    \* users that can be assigned
    Request,     \* HTTP requests in flight at once
    Value,       \* what a corrected field can be corrected to
    MaxRounds,   \* bound: rounds of the workflow
    MaxCopies,   \* bound: assignments of one reviewer to one round
    MaxUpdates,  \* bound: update_policy calls
    None         \* no assignment, no round

Round      == 1 .. MaxRounds
Assignment == Round \X Reviewer \X (1 .. MaxCopies)
Ballot     == {"approved", "rejected"} \cup Value   \* a Value: approved with corrections

ASSUME ApprovalAssumption ==
    /\ Chain \in BOOLEAN /\ Serialized \in BOOLEAN
    /\ Configs \subseteq Nat \ {0} /\ Configs # {}
    /\ IsFiniteSet(Reviewer)
    /\ MaxRounds \in Nat \ {0} /\ MaxCopies \in Nat \ {0} /\ MaxUpdates \in Nat
    /\ Value \cap {"absent", "pending", "approved", "rejected"} = {}
    /\ None \notin Assignment /\ None \notin Round

VARIABLES
    config,                     \* approval_policies.config
    editor, edits,              \* update_policy: past its check?  calls so far
    worker, read,               \* start_approval and the save after it; config it read
    rStatus, rNumber, rNeeds,   \* review_rounds, in order of creation
    vote,                       \* review_assignments.status and corrected_result
    jobStatus,                  \* jobs.status
    decision,                   \* the latest job.* entry of the audit log
    pc, target, ballot, plan,   \* each request: step, row found, its vote, what follows
    late                        \* history: a request has written to a round closed by then

policyVars  == <<config, editor, edits>>
workerVars  == <<worker, read>>
roundVars   == <<rStatus, rNumber, rNeeds>>
requestVars == <<pc, target, ballot, plan>>
vars == <<policyVars, workerVars, roundVars, vote, jobStatus, decision, requestVars, late>>

RoundOf(a)   == a[1]
UserOf(a)    == a[2]
Active(i)    == rStatus[i] \in {"pending", "in_progress"}
Exists(i)    == rStatus[i] # "absent"
Assigned(i)  == {a \in Assignment : RoundOf(a) = i /\ vote[a] # "absent"}
Approves(v)  == v = "approved" \/ v \in Value

Init ==
    /\ config \in Configs
    /\ editor = "idle" /\ edits = 0
    /\ worker = "running" /\ read = 0
    /\ rStatus = [i \in Round |-> "absent"]
    /\ rNumber = [i \in Round |-> 0]
    /\ rNeeds = [i \in Round |-> 0]
    /\ vote = [a \in Assignment |-> "absent"]
    /\ jobStatus = "processing"
    /\ decision = "open"
    /\ pc = [r \in Request |-> "idle"]
    /\ target = [r \in Request |-> None]
    /\ ballot = [r \in Request |-> "approved"]
    /\ plan = [r \in Request |-> "none"]
    /\ late = FALSE

-----------------------------------------------------------------------------
(* Transactions.                                                           *)

Writing(r) == pc[r] \in {"voted", "decided"}

(* With SQLite a transaction can start to write when no other is writing.  *)
WriteLockFree == Serialized => \A r \in Request : ~Writing(r)

(* The next row of review_rounds.                                          *)
NextRow(i) == ~Exists(i) /\ \A k \in Round : k < i => Exists(k)

InsertRound(i, number, needs) ==
    /\ rNumber' = [rNumber EXCEPT ![i] = number]
    /\ rNeeds' = [rNeeds EXCEPT ![i] = needs]

-----------------------------------------------------------------------------
(* The extraction worker: start_approval, then its own update of the job.  *)

ReadPolicy ==
    /\ worker = "running"
    /\ worker' = "starting"
    /\ read' = config
    /\ UNCHANGED <<policyVars, roundVars, vote, jobStatus, decision, requestVars, late>>

StartApproval ==
    /\ worker = "starting" /\ WriteLockFree
    /\ worker' = "started"
    /\ \E i \in Round :
          /\ NextRow(i)
          /\ rStatus' = [rStatus EXCEPT ![i] = "pending"]
          /\ InsertRound(i, 1, IF Chain THEN 1 ELSE read)
    /\ UNCHANGED <<policyVars, read, vote, jobStatus, decision, requestVars, late>>

SavePendingReview ==
    /\ worker = "started" /\ WriteLockFree
    /\ worker' = "saved"
    /\ jobStatus' = "pending_review"
    /\ UNCHANGED <<policyVars, read, roundVars, vote, decision, requestVars, late>>

-----------------------------------------------------------------------------
(* update_policy: a check for active rounds, then the write.               *)

CheckPolicy ==
    /\ editor = "idle" /\ edits < MaxUpdates
    /\ \A i \in Round : ~Active(i)
    /\ editor' = "checked" /\ edits' = edits + 1
    /\ UNCHANGED <<config, workerVars, roundVars, vote, jobStatus, decision, requestVars, late>>

WritePolicy ==
    /\ editor = "checked" /\ WriteLockFree
    /\ editor' = "idle"
    /\ config' \in Configs
    /\ UNCHANGED <<edits, workerVars, roundVars, vote, jobStatus, decision, requestVars, late>>

-----------------------------------------------------------------------------
(* POST /jobs/{id}/assign.                                                 *)

Finish(r) ==
    /\ pc' = [pc EXCEPT ![r] = "idle"]
    /\ target' = [target EXCEPT ![r] = None]
    /\ ballot' = [ballot EXCEPT ![r] = "approved"]
    /\ plan' = [plan EXCEPT ![r] = "none"]

(* The handler takes a round with the highest number, if it is active ...  *)
OpenAssign(r, i) ==
    /\ pc[r] = "idle" /\ Active(i)
    /\ \A k \in Round : Exists(k) => rNumber[k] <= rNumber[i]
    /\ pc' = [pc EXCEPT ![r] = "assigning"]
    /\ target' = [target EXCEPT ![r] = i]
    /\ UNCHANGED <<policyVars, workerVars, roundVars, vote, jobStatus, decision, ballot, plan, late>>

(* A request writes to a round that it read in an earlier session.         *)
WriteTo(i) == late' = (late \/ ~Active(i))

(* ... and assign_reviewers puts it in progress, whatever it is by then,   *)
(* with a row for each of the user_ids, which may name a user twice.       *)
NewRows(r) == {a \in Assignment : RoundOf(a) = target[r] /\ vote[a] = "absent"}

AssignReviewers(r) ==
    /\ pc[r] = "assigning" /\ WriteLockFree
    /\ WriteTo(target[r])
    /\ rStatus' = [rStatus EXCEPT ![target[r]] = "in_progress"]
    /\ \E rows \in (SUBSET NewRows(r)) \ {{}} :
          vote' = [a \in Assignment |-> IF a \in rows THEN "pending" ELSE vote[a]]
    /\ Finish(r)
    /\ UNCHANGED <<policyVars, workerVars, rNumber, rNeeds, jobStatus, decision>>

-----------------------------------------------------------------------------
(* POST /jobs/{id}/review.                                                 *)

(* The user's only pending assignment on an active round of the job, found *)
(* by the handler and checked again by submit_review.                      *)
OpenReview(r, a, b) ==
    /\ pc[r] = "idle"
    /\ {c \in Assignment : UserOf(c) = UserOf(a) /\ Active(RoundOf(c)) /\ vote[c] = "pending"} = {a}
    /\ pc' = [pc EXCEPT ![r] = "open"]
    /\ target' = [target EXCEPT ![r] = a]
    /\ ballot' = [ballot EXCEPT ![r] = b]
    /\ UNCHANGED <<policyVars, workerVars, roundVars, vote, jobStatus, decision, plan, late>>

(* The UPDATE of the assignment, not yet committed; its row is locked.     *)
CastVote(r) ==
    /\ pc[r] = "open" /\ WriteLockFree
    /\ \A s \in Request : Writing(s) => target[s] # target[r]
    /\ pc' = [pc EXCEPT ![r] = "voted"]
    /\ UNCHANGED <<policyVars, workerVars, roundVars, vote, jobStatus, decision,
                   target, ballot, plan, late>>

(* Faults for the runs' mutants: the chain stops a step early; a rejection *)
(* counts as an approval.                                                  *)
ChainPlanShort(r) ==
    IF ballot[r] = "rejected" THEN "reject"
    ELSE IF rNumber[RoundOf(target[r])] + 1 >= config THEN "approve" ELSE "next"
ChainPlanDeaf(r) ==
    IF rNumber[RoundOf(target[r])] >= config THEN "approve" ELSE "next"

(* _advance_chain looks at the policy as it is now.                        *)
ChainPlan(r) ==
    IF ballot[r] = "rejected" THEN "reject"
    ELSE IF rNumber[RoundOf(target[r])] >= config THEN "approve" ELSE "next"

(* Fault: the votes are read without the UPDATE that precedes.             *)
SeenBefore(r) == [a \in Assigned(RoundOf(target[r])) |-> vote[a]]

(* Votes of the round as the transaction sees them, its own included.      *)
Seen(r) == [a \in Assigned(RoundOf(target[r])) |->
               IF a = target[r] THEN ballot[r] ELSE vote[a]]

(* detect_conflicts: a field corrected in two ways.                        *)
Conflict(votes) == \E a, c \in DOMAIN votes :
                      votes[a] \in Value /\ votes[c] \in Value /\ votes[a] # votes[c]

(* Fault: rejections count towards the required approvals.                 *)
QuorumPlanAnyVote(r) ==
    LET votes == Seen(r)
    IN  IF \E a \in DOMAIN votes : votes[a] = "pending" THEN "wait"
        ELSE IF Cardinality(DOMAIN votes) < rNeeds[RoundOf(target[r])] THEN "reject"
        ELSE IF Conflict(votes) THEN "escalate"
        ELSE "approve"

(* _evaluate_quorum decides when every vote of the round is in.            *)
QuorumPlan(r) ==
    LET votes == Seen(r)
        approved == {a \in DOMAIN votes : Approves(votes[a])}
    IN  IF \E a \in DOMAIN votes : votes[a] = "pending" THEN "wait"
        ELSE IF Cardinality(approved) < rNeeds[RoundOf(target[r])] THEN "reject"
        ELSE IF Conflict(votes) THEN "escalate"
        ELSE "approve"

Decide(r) ==
    /\ pc[r] = "voted"
    /\ plan' = [plan EXCEPT ![r] = IF Chain THEN ChainPlan(r) ELSE QuorumPlan(r)]
    /\ pc' = [pc EXCEPT ![r] = "decided"]
    /\ UNCHANGED <<policyVars, workerVars, roundVars, vote, jobStatus, decision,
                   target, ballot, late>>

(* Faults: the round of a decision, or of an escalation, is left open.     *)
CloseRoundForgotten(i, status) == UNCHANGED roundVars
OpenNextKeeping(i, status) ==
    \E k \in Round :
        /\ NextRow(k)
        /\ rStatus' = [rStatus EXCEPT ![k] = "pending"]
        /\ InsertRound(k, rNumber[i] + 1, 1)

(* _complete_round, and the next round if there is one.                    *)
CloseRound(i, status) == rStatus' = [rStatus EXCEPT ![i] = status] /\ UNCHANGED <<rNumber, rNeeds>>

OpenNext(i, status) ==
    \E k \in Round :
        /\ NextRow(k)
        /\ rStatus' = [rStatus EXCEPT ![i] = status, ![k] = "pending"]
        /\ InsertRound(k, rNumber[i] + 1, 1)

(* Fault: "approved" is not translated to a job status.                    *)
FinalizeJobRaw(status) ==
    LET written == IF status = "reviewed" THEN "approved" ELSE status
    IN  jobStatus' = written /\ decision' = written

(* _finalize_job: the job and the audit log.                               *)
FinalizeJob(status) == jobStatus' = status /\ decision' = status

Commit(r) ==
    LET i == RoundOf(target[r]) IN
    /\ pc[r] = "decided"
    /\ WriteTo(i)
    /\ vote' = [vote EXCEPT ![target[r]] = ballot[r]]
    /\ \/ plan[r] = "wait" /\ UNCHANGED <<roundVars, jobStatus, decision>>
       \/ plan[r] = "reject" /\ CloseRound(i, "completed") /\ FinalizeJob("rejected")
       \/ plan[r] = "approve" /\ CloseRound(i, "completed") /\ FinalizeJob("reviewed")
       \/ plan[r] = "next" /\ OpenNext(i, "completed") /\ UNCHANGED <<jobStatus, decision>>
       \/ plan[r] = "escalate" /\ OpenNext(i, "escalated") /\ UNCHANGED <<jobStatus, decision>>
    /\ Finish(r)
    /\ UNCHANGED <<policyVars, workerVars>>

(* The client goes away, the process dies or the database aborts the       *)
(* transaction: nothing of it was committed.                               *)
Abort(r) ==
    /\ pc[r] # "idle"
    /\ Finish(r)
    /\ UNCHANGED <<policyVars, workerVars, roundVars, vote, jobStatus, decision, late>>

-----------------------------------------------------------------------------
Worker == ReadPolicy \/ StartApproval \/ SavePendingReview

Editor == CheckPolicy \/ WritePolicy

Handle(r) ==
    \/ \E i \in Round : OpenAssign(r, i)
    \/ AssignReviewers(r)
    \/ \E a \in Assignment, b \in Ballot : OpenReview(r, a, b)
    \/ CastVote(r) \/ Decide(r) \/ Commit(r) \/ Abort(r)

Next == Worker \/ Editor \/ \E r \in Request : Handle(r)

Spec == Init /\ [][Next]_vars

-----------------------------------------------------------------------------
(* Properties.                                                             *)

(* Every row and every request of the workflow is in a state that the      *)
(* models declare.                                                         *)
TypeOK ==
    /\ config \in Configs
    /\ editor \in {"idle", "checked"} /\ edits \in 0 .. MaxUpdates
    /\ worker \in {"running", "starting", "started", "saved"}
    /\ read \in Configs \cup {0}
    /\ rStatus \in [Round -> {"absent", "pending", "in_progress", "completed", "escalated"}]
    /\ rNumber \in [Round -> Nat] /\ rNeeds \in [Round -> Nat]
    /\ vote \in [Assignment -> {"absent", "pending"} \cup Ballot]
    /\ jobStatus \in {"processing", "pending_review", "reviewed", "rejected"}
    /\ decision \in {"open", "reviewed", "rejected"}
    /\ pc \in [Request -> {"idle", "assigning", "open", "voted", "decided"}]
    /\ DOMAIN target = Request
    /\ \A r \in Request : \/ pc[r] = "idle" /\ target[r] = None
                          \/ pc[r] = "assigning" /\ target[r] \in Round
                          \/ pc[r] \in {"open", "voted", "decided"} /\ target[r] \in Assignment
    /\ ballot \in [Request -> Ballot]
    /\ plan \in [Request -> {"none", "wait", "next", "approve", "reject", "escalate"}]
    /\ late \in BOOLEAN

(* A workflow under way has one active round, the last that was created;   *)
(* before start_approval and after the decision none is active: a decision *)
(* closes its round and an escalation closes the round it came from.  Only *)
(* a request that writes to a round closed since it looked the round up    *)
(* (assign_reviewers reopens it, a second vote opens one more) upsets it.  *)
OneActiveRound ==
    ~late =>
        IF worker \in {"started", "saved"} /\ decision = "open"
        THEN \E i \in Round : /\ Active(i)
                              /\ \A k \in Round : Exists(k) => k <= i
                              /\ \A k \in Round : Active(k) => k = i
        ELSE \A i \in Round : ~Active(i)

Voted(i)  == {a \in Assigned(i) : vote[a] # "pending"}
Numbered(n) == {i \in Round : Exists(i) /\ rNumber[i] = n}

(* A chain that ended in "reviewed" was approved by a vote on each of its  *)
(* rounds and rejected on none; one that ended in "rejected" was stopped   *)
(* by the rejecting vote on its last round, after approvals on the others. *)
(* Concurrent requests change that only by writing to a round closed.      *)
ChainFollowsVotes ==
    Chain /\ decision # "open" /\ ~late =>
        \A i \in Round : Exists(i) =>
            /\ Cardinality(Voted(i)) = 1
            /\ \A a \in Voted(i) :
                   Approves(vote[a]) <=> (decision = "reviewed" \/ \E k \in Round : Exists(k) /\ k > i)

(* A chain is not approved before a round of every step of its policy was  *)
(* approved, and has no round beyond the steps, unless the policy was      *)
(* updated on the way or a request wrote to a round closed by then.        *)
ChainRunsItsLength ==
    Chain /\ decision = "reviewed" /\ edits = 0 /\ ~late =>
        \A n \in Round : Numbered(n) # {} <=> n <= config

(* docs/system-architecture.md, "Chain: Move to next round on approval,    *)
(* escalate on rejection": a rejection in a chain opens a further round,   *)
(* the approver's.                                                         *)
RejectionEscalates ==
    Chain => \A a \in Assignment :
                 vote[a] = "rejected" => \E k \in Round : Exists(k) /\ k > RoundOf(a)

(* A quorum approves a job only with every vote of a round in, as many     *)
(* approvals as it requires and no field corrected in two ways.            *)
QuorumMet ==
    [][decision # "reviewed" /\ decision' = "reviewed" =>
         \E i \in Round :
            /\ rStatus'[i] = "completed"
            /\ LET votes == [a \in Assigned(i)' |-> vote'[a]] IN
               /\ \A a \in DOMAIN votes : votes[a] # "pending"
               /\ Cardinality({a \in DOMAIN votes : Approves(votes[a])}) >= rNeeds[i]
               /\ ~Conflict(votes)]_vars

(* An active round that has reviewers has one whose vote is still to come: *)
(* the last vote always decides the round.                                 *)
LastVoteDecides ==
    \A i \in Round : Active(i) /\ Assigned(i) # {} => \E a \in Assigned(i) : vote[a] = "pending"

(* The workflow is a ReviewDecision: it goes up a level at a time and is   *)
(* over with the decision, until a request writes to a round closed by     *)
(* then; even after that no level and no decision is taken back.           *)
RD == INSTANCE ReviewDecision WITH
          level <- Cardinality({i \in Round : Exists(i)}),
          verdict <- decision

RDSpec == RD!Spec
=============================================================================
