------------------------ MODULE ApprovalEngine_proofs ------------------------
(***************************************************************************)
(* Proofs about ApprovalEngine for every policy, reviewers and bounds, and *)
(* for any number of requests at once.                                     *)
(***************************************************************************)
EXTENDS ApprovalEngine, FiniteSetTheorems, TLAPS

-----------------------------------------------------------------------------
(* Types.                                                                  *)

LEMMA RowTypes ==
    ASSUME NEW a \in Assignment
    PROVE  RoundOf(a) \in Round /\ UserOf(a) \in Reviewer
BY DEF Assignment, RoundOf, UserOf

LEMMA TypeHandle ==
    ASSUME TypeOK, NEW r \in Request, Handle(r)
    PROVE  TypeOK'
<1> USE ApprovalAssumption DEF TypeOK, policyVars, workerVars, roundVars, requestVars
<1>1. ASSUME NEW i \in Round, OpenAssign(r, i) PROVE TypeOK'
  BY <1>1 DEF OpenAssign
<1>2. CASE AssignReviewers(r)
  <2>1. PICK rows \in SUBSET NewRows(r) :
           vote' = [a \in Assignment |-> IF a \in rows THEN "pending" ELSE vote[a]]
    BY <1>2 DEF AssignReviewers
  <2>2. vote' \in [Assignment -> {"absent", "pending"} \cup Ballot]
    BY <2>1
  <2>3. QED
    BY <1>2, <2>2 DEF AssignReviewers, WriteTo, Finish, Ballot
<1>3. ASSUME NEW a \in Assignment, NEW b \in Ballot, OpenReview(r, a, b) PROVE TypeOK'
  BY <1>3 DEF OpenReview
<1>4. CASE CastVote(r)
  BY <1>4 DEF CastVote
<1>5. CASE Decide(r)
  <2>1. plan' \in [Request -> {"none", "wait", "next", "approve", "reject", "escalate"}]
    BY <1>5 DEF Decide, ChainPlan, QuorumPlan
  <2>2. QED
    BY <1>5, <2>1 DEF Decide
<1>6. CASE Commit(r)
  <2> DEFINE i == RoundOf(target[r])
  <2>1. i \in Round /\ target[r] \in Assignment
    BY <1>6, RowTypes DEF Commit
  <2>2. vote' \in [Assignment -> {"absent", "pending"} \cup Ballot]
    BY <1>6, <2>1 DEF Commit
  <2>3. /\ rStatus' \in [Round -> {"absent", "pending", "in_progress", "completed", "escalated"}]
        /\ rNumber' \in [Round -> Nat] /\ rNeeds' \in [Round -> Nat]
        /\ jobStatus' \in {"processing", "pending_review", "reviewed", "rejected"}
        /\ decision' \in {"open", "reviewed", "rejected"}
    BY <1>6, <2>1 DEF Commit, CloseRound, OpenNext, InsertRound, FinalizeJob
  <2>4. QED
    BY <1>6, <2>2, <2>3 DEF Commit, WriteTo, Finish, Ballot
<1>7. CASE Abort(r)
  BY <1>7 DEF Abort, Finish, Ballot
<1>8. QED
  BY <1>1, <1>2, <1>3, <1>4, <1>5, <1>6, <1>7 DEF Handle

(* Every row of the workflow stays within its type, whatever requests,     *)
(* policy updates and aborts do to it at the same time.                    *)
THEOREM TypeCorrect == Spec => []TypeOK
<1>1. Init => TypeOK
  <2>1. Init => late \in BOOLEAN
    BY Zenon DEF Init
  <2> QED BY <2>1, ApprovalAssumption DEF Init, TypeOK, Ballot
<1>2. TypeOK /\ [Next]_vars => TypeOK'
  <2> SUFFICES ASSUME TypeOK, [Next]_vars PROVE TypeOK'
    OBVIOUS
  <2> USE ApprovalAssumption DEF policyVars, workerVars, roundVars, requestVars
  <2>1. CASE Worker
    BY <2>1 DEF TypeOK, Worker, ReadPolicy, StartApproval, InsertRound, SavePendingReview
  <2>2. CASE Editor
    BY <2>2 DEF TypeOK, Editor, CheckPolicy, WritePolicy
  <2>3. CASE \E r \in Request : Handle(r)
    BY <2>3, TypeHandle
  <2>4. CASE UNCHANGED vars
    BY <2>4 DEF TypeOK, vars
  <2>5. QED
    BY <2>1, <2>2, <2>3, <2>4 DEF Next
<1>3. QED
  BY <1>1, <1>2, PTL DEF Spec

-----------------------------------------------------------------------------
(* Rounds take turns.                                                      *)

RoundOfRequest(r) == IF pc[r] = "assigning" THEN target[r] ELSE RoundOf(target[r])

(* Rounds exist from start_approval on, in order, and a request in         *)
(* progress has found one, whatever has become of it since.                *)
Started ==
    /\ worker \in {"running", "starting"} =>
          decision = "open" /\ ~late /\ \A i \in Round : ~Exists(i)
    /\ \A i, k \in Round : k < i => (Exists(i) => Exists(k))
    /\ \A r \in Request : pc[r] # "idle" => Exists(RoundOfRequest(r))

InTurn == Started /\ OneActiveRound

LEMMA RequestRound ==
    ASSUME TypeOK, NEW r \in Request, pc[r] # "idle"
    PROVE  RoundOfRequest(r) \in Round
BY RowTypes DEF TypeOK, RoundOfRequest

LEMMA InTurnWorker ==
    ASSUME TypeOK, InTurn, Worker
    PROVE  InTurn'
<1>1. CASE ReadPolicy
  BY <1>1 DEF ReadPolicy, InTurn, Started, OneActiveRound, Active, Exists, RoundOfRequest,
              roundVars, requestVars
<1>2. CASE StartApproval
  <2>1. PICK i \in Round : NextRow(i) /\ rStatus' = [rStatus EXCEPT ![i] = "pending"]
    BY <1>2 DEF StartApproval
  <2>2. \A k \in Round : ~Exists(k)
    BY <1>2 DEF StartApproval, InTurn, Started
  <2>3. i = 1 /\ \A k \in Round : i <= k
    BY <2>1, <2>2, ApprovalAssumption DEF NextRow, Round
  <2>4. \A r \in Request : pc[r] = "idle"
    BY <2>2, RequestRound DEF InTurn, Started
  <2>5. \A k \in Round : Exists(k)' <=> k = i
    BY <2>1, <2>2 DEF Exists, TypeOK
  <2>6. \A k \in Round : Active(k)' <=> k = i
    BY <2>1, <2>2 DEF Exists, Active, TypeOK
  <2>7. worker' = "started" /\ decision' = "open" /\ pc' = pc
    BY <1>2 DEF StartApproval, InTurn, Started, requestVars
  <2>8. OneActiveRound'
    BY <2>5, <2>6, <2>7, <2>3 DEF OneActiveRound, Round
  <2>9. \A m, k \in Round : k < m => (Exists(m)' => Exists(k)')
    BY <2>3, <2>5 DEF Round
  <2>10. QED
    BY <2>4, <2>7, <2>8, <2>9 DEF InTurn, Started
<1>3. CASE SavePendingReview
  BY <1>3 DEF SavePendingReview, InTurn, Started, OneActiveRound, Active, Exists,
              RoundOfRequest, roundVars, requestVars
<1>4. QED
  BY <1>1, <1>2, <1>3 DEF Worker

(* What a request finds, reads or writes are rounds that exist.            *)
LEMMA StartedHandle ==
    ASSUME TypeOK, Started, NEW r \in Request, Handle(r)
    PROVE  Started'
<1> USE DEF roundVars, requestVars, workerVars, policyVars
<1>0. TypeOK'
  BY TypeHandle
<1>1. \A i \in Round : Active(i) => Exists(i)
  BY DEF Active, Exists
<1>2. ASSUME \A i \in Round : Exists(i) => Exists(i)',
             \A i \in Round : Exists(i)' => Exists(i) \/ NextRow(i),
             \E i \in Round : Exists(i),
             worker' = worker,
             \A s \in Request : s # r => pc'[s] = pc[s] /\ target'[s] = target[s],
             pc'[r] # "idle" => Exists(RoundOfRequest(r)')
      PROVE  Started'
  <2>1. worker \notin {"running", "starting"}
    BY <1>2 DEF Started
  <2>2. \A i, k \in Round : k < i => (Exists(i)' => Exists(k)')
    BY <1>2 DEF Started, NextRow
  <2>3. ASSUME NEW s \in Request, pc'[s] # "idle" PROVE Exists(RoundOfRequest(s))'
    <3>1. RoundOfRequest(s)' \in Round
      BY <1>0, <2>3, RowTypes DEF TypeOK, RoundOfRequest
    <3>2. s # r => RoundOfRequest(s)' = RoundOfRequest(s) /\ pc[s] # "idle"
      BY <1>2, <2>3 DEF RoundOfRequest, RoundOf
    <3>3. Exists(RoundOfRequest(s)')
      BY <1>2, <2>3, <3>2 DEF Started
    <3>4. PICK i \in Round : i = RoundOfRequest(s)' /\ Exists(i)
      BY <3>1, <3>3
    <3>5. rStatus'[i] # "absent"
      BY <1>2, <3>4 DEF Exists
    <3> QED BY <3>4, <3>5 DEF Exists
  <2> QED BY <1>2, <2>1, <2>2, <2>3 DEF Started
<1>3. pc[r] # "idle" => RoundOfRequest(r) \in Round /\ Exists(RoundOfRequest(r))
  BY RequestRound DEF Started
<1>4. ASSUME rStatus' = rStatus PROVE \A i \in Round : Exists(i)' <=> Exists(i)
  BY <1>4 DEF Exists
<1>5. ASSUME NEW i \in Round, OpenAssign(r, i) PROVE Started'
  <2>1. Exists(i) /\ RoundOfRequest(r)' = i
    BY <1>1, <1>5 DEF OpenAssign, TypeOK, RoundOfRequest
  <2> QED BY <1>2, <1>4, <1>5, <2>1 DEF OpenAssign, TypeOK
<1>6. ASSUME NEW a \in Assignment, NEW b \in Ballot, OpenReview(r, a, b) PROVE Started'
  <2>1. RoundOf(a) \in Round /\ Exists(RoundOf(a))
    BY <1>1, <1>6, RowTypes DEF OpenReview
  <2>2. RoundOfRequest(r)' = RoundOf(a)
    BY <1>6 DEF OpenReview, TypeOK, RoundOfRequest, RoundOf
  <2> QED BY <1>2, <1>4, <1>6, <2>1, <2>2 DEF OpenReview, TypeOK
<1>7. CASE CastVote(r)
  <2>1. RoundOfRequest(r)' = RoundOfRequest(r)
    BY <1>7 DEF CastVote, TypeOK, RoundOfRequest, RoundOf
  <2> QED BY <1>2, <1>3, <1>4, <1>7, <2>1 DEF CastVote, TypeOK
<1>8. CASE Decide(r)
  <2>1. RoundOfRequest(r)' = RoundOfRequest(r)
    BY <1>8 DEF Decide, TypeOK, RoundOfRequest, RoundOf
  <2> QED BY <1>2, <1>3, <1>4, <1>8, <2>1 DEF Decide, TypeOK
<1>9. CASE Abort(r)
  BY <1>2, <1>3, <1>4, <1>9 DEF Abort, Finish, TypeOK
<1>10. CASE AssignReviewers(r)
  <2>1. target[r] \in Round /\ Exists(target[r])
    BY <1>3, <1>10 DEF AssignReviewers, RoundOfRequest
  <2>2. \A i \in Round : Exists(i)' <=> Exists(i)
    BY <1>10, <2>1 DEF AssignReviewers, Exists, TypeOK
  <2> QED BY <1>2, <1>10, <2>1, <2>2 DEF AssignReviewers, Finish, TypeOK
<1>11. CASE Commit(r)
  <2>1. PICK i \in Round : i = RoundOf(target[r]) /\ Exists(i)
    BY <1>3, <1>11 DEF Commit, RoundOfRequest
  <2>2. /\ worker' = worker /\ pc'[r] = "idle"
        /\ \A s \in Request : s # r => pc'[s] = pc[s] /\ target'[s] = target[s]
    BY <1>11 DEF Commit, Finish, TypeOK
  <2>3. \/ UNCHANGED roundVars
        \/ rStatus' = [rStatus EXCEPT ![i] = "completed"]
        \/ \E k \in Round, v \in {"completed", "escalated"} :
              NextRow(k) /\ rStatus' = [rStatus EXCEPT ![i] = v, ![k] = "pending"]
    BY <1>11, <2>1 DEF Commit, CloseRound, OpenNext
  <2>4. \A m \in Round : /\ Exists(m) => Exists(m)'
                         /\ Exists(m)' => Exists(m) \/ NextRow(m)
    BY <2>1, <2>3 DEF Exists, NextRow, TypeOK
  <2> QED BY <1>2, <2>1, <2>2, <2>4
<1> QED BY <1>5, <1>6, <1>7, <1>8, <1>9, <1>10, <1>11 DEF Handle

(* Where nobody has been late the round of a write is the last one, and    *)
(* the next round comes after it.                                          *)
LEMMA ActiveRound ==
    ASSUME InTurn, ~late, NEW i \in Round, Active(i)
    PROVE  /\ worker \in {"started", "saved"} /\ decision = "open"
           /\ \A k \in Round : Exists(k) <=> k <= i
           /\ \A k \in Round : Active(k) => k = i
           /\ \A k \in Round : NextRow(k) => k = i + 1
<1>1. worker \in {"started", "saved"} /\ decision = "open"
  BY DEF InTurn, OneActiveRound
<1>2. \A k \in Round : (Exists(k) => k <= i) /\ (Active(k) => k = i)
  BY <1>1 DEF InTurn, OneActiveRound, Round
<1>3. \A k \in Round : k <= i => Exists(k)
  <2>1. Exists(i)
    BY DEF Active, Exists
  <2> QED BY <2>1 DEF InTurn, Started, Round
<1>4. ASSUME NEW k \in Round, NextRow(k) PROVE k = i + 1
  <2>1. ~(k <= i)
    BY <1>3, <1>4 DEF NextRow
  <2>2. k > i + 1 => i + 1 \in Round /\ ~Exists(i + 1)
    BY <1>2, ApprovalAssumption DEF Round
  <2>3. ~(k > i + 1)
    BY <1>4, <2>2 DEF NextRow, Round
  <2> QED BY <2>1, <2>3 DEF Round
<1> QED BY <1>1, <1>2, <1>3, <1>4

LEMMA InTurnHandle ==
    ASSUME TypeOK, InTurn, NEW r \in Request, Handle(r)
    PROVE  InTurn'
<1> USE DEF roundVars, requestVars, workerVars, policyVars
<1>1. Started'
  BY StartedHandle DEF InTurn
<1>2. ASSUME UNCHANGED <<worker, decision, late>>,
             \A i \in Round : (Exists(i)' <=> Exists(i)) /\ (Active(i)' <=> Active(i))
      PROVE  OneActiveRound'
  BY <1>2 DEF InTurn, OneActiveRound
<1>3. ASSUME UNCHANGED <<worker, decision, late, rStatus>> PROVE InTurn'
  BY <1>1, <1>2, <1>3 DEF Exists, Active, InTurn
<1>4. CASE AssignReviewers(r)
  <2>1. SUFFICES ASSUME ~late' PROVE OneActiveRound'
    BY <1>1 DEF InTurn, OneActiveRound
  <2>2. target[r] \in Round /\ Active(target[r]) /\ late' = late
    BY <1>4, <2>1 DEF AssignReviewers, WriteTo, TypeOK
  <2>3. \A i \in Round : /\ Exists(i)' <=> Exists(i)
                         /\ Active(i)' <=> Active(i)
    BY <1>4, <2>2 DEF AssignReviewers, Exists, Active, TypeOK
  <2> QED BY <1>2, <1>4, <2>2, <2>3 DEF AssignReviewers
<1>5. CASE Commit(r)
  <2>1. SUFFICES ASSUME ~late' PROVE OneActiveRound'
    BY <1>1 DEF InTurn, OneActiveRound
  <2>2. PICK i \in Round : i = RoundOf(target[r]) /\ Active(i) /\ ~late
    BY <1>5, <2>1, RequestRound DEF Commit, WriteTo, RoundOfRequest
  <2>3. /\ worker \in {"started", "saved"} /\ decision = "open"
        /\ \A k \in Round : Exists(k) <=> k <= i
        /\ \A k \in Round : Active(k) => k = i
        /\ \A k \in Round : NextRow(k) => k = i + 1
    BY <2>2, ActiveRound
  <2>4. worker' = worker /\ late' = late
    BY <1>5, <2>1, <2>2 DEF Commit, WriteTo, TypeOK
  <2>5. CASE UNCHANGED <<roundVars, jobStatus, decision>>
    BY <1>2, <2>4, <2>5 DEF Exists, Active
  <2>6. CASE \E v \in {"reviewed", "rejected"} : CloseRound(i, "completed") /\ FinalizeJob(v)
    <3>1. decision' # "open" /\ rStatus' = [rStatus EXCEPT ![i] = "completed"]
      BY <2>6 DEF CloseRound, FinalizeJob
    <3>2. \A k \in Round : ~Active(k)'
      BY <2>3, <3>1 DEF Active, TypeOK
    <3> QED BY <3>1, <3>2 DEF OneActiveRound
  <2>7. CASE /\ \E v \in {"completed", "escalated"} : OpenNext(i, v)
             /\ UNCHANGED <<jobStatus, decision>>
    <3>1. PICK k \in Round, v \in {"completed", "escalated"} :
             NextRow(k) /\ rStatus' = [rStatus EXCEPT ![i] = v, ![k] = "pending"]
      BY <2>7 DEF OpenNext
    <3>2. k = i + 1
      BY <2>3, <3>1
    <3>3. \A m \in Round : (Exists(m)' => m <= k) /\ (Active(m)' <=> m = k)
      BY <2>3, <3>1, <3>2 DEF Exists, Active, TypeOK, Round
    <3> QED BY <2>3, <2>4, <2>7, <3>3 DEF OneActiveRound
  <2> QED BY <1>5, <2>2, <2>5, <2>6, <2>7 DEF Commit
<1> QED
  BY <1>1, <1>3, <1>4, <1>5
     DEF Handle, InTurn, OpenAssign, OpenReview, CastVote, Decide, Abort

LEMMA InTurnNext == TypeOK /\ InTurn /\ [Next]_vars => InTurn'
<1> SUFFICES ASSUME TypeOK, InTurn, [Next]_vars PROVE InTurn'
  OBVIOUS
<1> USE DEF roundVars, requestVars, workerVars, policyVars
<1>1. CASE Editor
  BY <1>1 DEF Editor, CheckPolicy, WritePolicy, InTurn, Started, OneActiveRound, Active,
              Exists, RoundOfRequest, RoundOf
<1>2. CASE UNCHANGED vars
  BY <1>2 DEF vars, InTurn, Started, OneActiveRound, Active, Exists, RoundOfRequest, RoundOf
<1>3. QED
  BY <1>1, <1>2, InTurnWorker, InTurnHandle DEF Next

(* Whatever the policy, and even when it is updated under its rounds, a    *)
(* workflow under way has exactly one active round, its last, and one that *)
(* is decided has none, as long as no request writes to a round that was   *)
(* closed after the request found it.                                      *)
THEOREM RoundsTakeTurns == Spec => []OneActiveRound
<1>1. Init => InTurn
  BY DEF Init, InTurn, Started, OneActiveRound, Exists, Active
<1>2. InTurn => OneActiveRound
  BY DEF InTurn
<1>3. QED
  BY <1>1, <1>2, InTurnNext, TypeCorrect, PTL DEF Spec

-----------------------------------------------------------------------------
(* The workflow as a ReviewDecision.                                       *)

Rounds == {i \in Round : Exists(i)}
Level  == Cardinality(Rounds)

LEMMA RoundsFinite == IsFiniteSet(Rounds) /\ Level \in Nat
<1>1. IsFiniteSet(Round)
  BY FS_Interval, ApprovalAssumption DEF Round
<1>2. Rounds \subseteq Round
  BY DEF Rounds
<1>3. IsFiniteSet(Rounds)
  BY <1>1, <1>2, FS_Subset
<1>4. QED
  BY <1>3, FS_CardinalityType DEF Level

LEMMA LevelSame == ASSUME Rounds' = Rounds PROVE Level' = Level
BY DEF Level

LEMMA LevelUp ==
    ASSUME NEW k \in Round, ~Exists(k), Rounds' = Rounds \cup {k}
    PROVE  Level' = Level + 1
<1>1. k \notin Rounds
  BY DEF Rounds
<1>2. QED
  BY <1>1, RoundsFinite, FS_AddElement DEF Level

LEMMA LevelZero == (\A i \in Round : ~Exists(i)) => Level = 0
<1> SUFFICES ASSUME \A i \in Round : ~Exists(i) PROVE Level = 0
  OBVIOUS
<1>1. Rounds = {}
  BY DEF Rounds
<1>2. QED
  BY <1>1, FS_EmptySet DEF Level

LEMMA LevelPositive == ASSUME NEW i \in Round, Exists(i) PROVE Level > 0
<1>1. i \in Rounds
  BY DEF Rounds
<1>2. Level # 0
  BY <1>1, RoundsFinite, FS_EmptySet DEF Level
<1>3. QED
  BY <1>2, RoundsFinite

(* A write of a request is an Advance or a Close, or a Lapse if anybody    *)
(* has been late.                                                          *)
LEMMA DecisionCommit ==
    ASSUME TypeOK, InTurn, NEW r \in Request, Commit(r)
    PROVE  RD!Next \/ UNCHANGED <<Level, decision, late>>
<1> USE DEF roundVars, requestVars, workerVars, policyVars
<1>1. PICK i \in Round : i = RoundOf(target[r]) /\ Exists(i) /\ late' = (late \/ ~Active(i))
  BY RequestRound DEF Commit, WriteTo, InTurn, Started, RoundOfRequest
<1>2. Level > 0 /\ Level \in Nat
  BY <1>1, LevelPositive, RoundsFinite
<1>3. late \in BOOLEAN /\ late' \in BOOLEAN
  BY <1>1 DEF TypeOK
<1>4. ~late' => decision = "open"
  BY <1>1, ActiveRound
<1>5. CASE UNCHANGED <<roundVars, jobStatus, decision>>
  <2>1. Level' = Level
    BY <1>5, LevelSame DEF Rounds, Exists
  <2> QED BY <1>1, <1>2, <1>3, <1>5, <2>1 DEF RD!Next, RD!Lapse, Level, Rounds
<1>6. CASE \E v \in {"reviewed", "rejected"} : CloseRound(i, "completed") /\ FinalizeJob(v)
  <2>1. Level' = Level /\ decision' \in {"reviewed", "rejected"}
    <3>1. Rounds' = Rounds
      BY <1>1, <1>6 DEF CloseRound, Rounds, Exists, TypeOK
    <3> QED BY <1>6, <3>1, LevelSame DEF FinalizeJob
  <2> QED BY <1>1, <1>2, <1>3, <1>4, <2>1
          DEF RD!Next, RD!Close, RD!Lapse, RD!Final, Level, Rounds
<1>7. CASE /\ \E v \in {"completed", "escalated"} : OpenNext(i, v)
           /\ UNCHANGED <<jobStatus, decision>>
  <2>1. PICK k \in Round, v \in {"completed", "escalated"} :
           NextRow(k) /\ rStatus' = [rStatus EXCEPT ![i] = v, ![k] = "pending"]
    BY <1>7 DEF OpenNext
  <2>2. Rounds' = Rounds \cup {k} /\ ~Exists(k)
    BY <1>1, <2>1 DEF Rounds, Exists, TypeOK, NextRow
  <2>3. Level' = Level + 1
    BY <2>2, LevelUp
  <2> QED BY <1>1, <1>2, <1>3, <1>4, <1>7, <2>3
          DEF RD!Next, RD!Advance, RD!Lapse, Level, Rounds
<1> QED BY <1>1, <1>5, <1>6, <1>7 DEF Commit

LEMMA DecisionStep ==
    ASSUME TypeOK, InTurn, [Next]_vars
    PROVE  RD!Next \/ UNCHANGED <<Level, decision, late>>
<1> USE DEF roundVars, requestVars, workerVars, policyVars
<1>1. ASSUME UNCHANGED <<rStatus, decision, late>> PROVE UNCHANGED <<Level, decision, late>>
  BY <1>1, LevelSame DEF Rounds, Exists
<1>2. CASE Worker
  <2>1. CASE StartApproval
    <3>1. PICK i \in Round : NextRow(i) /\ rStatus' = [rStatus EXCEPT ![i] = "pending"]
      BY <2>1 DEF StartApproval
    <3>2. Level = 0 /\ Rounds' = Rounds \cup {i} /\ ~Exists(i)
      BY <2>1, <3>1, LevelZero
         DEF StartApproval, InTurn, Started, Rounds, Exists, TypeOK, NextRow
    <3>3. Level' = 1
      BY <3>2, LevelUp
    <3>4. QED
      BY <2>1, <3>2, <3>3 DEF StartApproval, RD!Next, RD!Begin, Level, Rounds
  <2>2. QED
    BY <1>1, <1>2, <2>1 DEF Worker, ReadPolicy, SavePendingReview
<1>3. CASE Editor
  BY <1>1, <1>3 DEF Editor, CheckPolicy, WritePolicy
<1>4. ASSUME NEW r \in Request, AssignReviewers(r)
      PROVE  RD!Next \/ UNCHANGED <<Level, decision, late>>
  <2>1. PICK i \in Round : i = target[r] /\ Exists(i) /\ late' = (late \/ ~Active(i))
    BY <1>4, RequestRound DEF AssignReviewers, WriteTo, InTurn, Started, RoundOfRequest
  <2>2. Rounds' = Rounds
    BY <1>4, <2>1 DEF AssignReviewers, Rounds, Exists, TypeOK
  <2>3. Level' = Level /\ Level > 0 /\ decision' = decision
    BY <1>4, <2>1, <2>2, LevelSame, LevelPositive DEF AssignReviewers
  <2>4. late \in BOOLEAN /\ late' \in BOOLEAN
    BY <2>1 DEF TypeOK
  <2> QED BY <2>1, <2>3, <2>4 DEF RD!Next, RD!Lapse, Level, Rounds
<1>5. ASSUME NEW r \in Request, Handle(r)
      PROVE  RD!Next \/ UNCHANGED <<Level, decision, late>>
  BY <1>1, <1>4, <1>5, DecisionCommit
     DEF Handle, OpenAssign, OpenReview, CastVote, Decide, Abort
<1>6. CASE UNCHANGED vars
  BY <1>1, <1>6 DEF vars
<1>7. QED
  BY <1>2, <1>3, <1>5, <1>6 DEF Next

(* The workflow goes up one level at a time and its decision is taken once *)
(* and for all, unless a request writes to a round closed since it found   *)
(* it; no level and no decision is ever taken back.                        *)
THEOREM DecisionRefinement == Spec => RDSpec
<1>1. Init => InTurn /\ RD!Init
  BY LevelZero DEF Init, InTurn, Started, OneActiveRound, Exists, Active, RD!Init, Level, Rounds
<1>2. TypeOK /\ InTurn /\ [Next]_vars
         => [RD!Next]_<<Cardinality({i \in Round : Exists(i)}), decision, late>>
  BY DecisionStep DEF Level, Rounds
<1>3. QED
  BY <1>1, <1>2, InTurnNext, TypeCorrect, PTL DEF Spec, RDSpec, RD!Spec

-----------------------------------------------------------------------------
(* Chains.                                                                 *)

Above(i) == \E k \in Round : Exists(k) /\ k > i
Closed(i) == Exists(i) /\ ~Active(i)

(* While nobody has been late a round has no votes until it is closed, by  *)
(* its only vote; a request that has planned follows its own vote.         *)
ChainVotes ==
    /\ \A i \in Round : ~Exists(i) => Assigned(i) = {}
    /\ ~late => \A i \in Round : Active(i) => Voted(i) = {}
    /\ ~late => \A i \in Round : Closed(i) =>
          \E a \in Assignment :
              Voted(i) = {a} /\ (Approves(vote[a]) <=> decision = "reviewed" \/ Above(i))
    /\ \A r \in Request : pc[r] \in {"open", "voted", "decided"} => vote[target[r]] # "absent"
    /\ \A r \in Request : pc[r] = "decided" =>
          \/ plan[r] = "reject" /\ ballot[r] = "rejected"
          \/ plan[r] \in {"approve", "next"} /\ Approves(ballot[r])

(* Rounds are numbered as they are created, and none has a number beyond   *)
(* the policy's steps as long as that is the policy it started with.       *)
ChainLength ==
    /\ ~late => \A i \in Round : Exists(i) => rNumber[i] = i
    /\ edits = 0 =>
          /\ editor = "idle"
          /\ ~late => \A i \in Round : Exists(i) => i <= config
          /\ \A r \in Request : pc[r] = "decided" =>
                /\ plan[r] = "next" => rNumber[RoundOf(target[r])] < config
                /\ plan[r] = "approve" => config <= rNumber[RoundOf(target[r])]
          /\ ~late /\ decision = "reviewed" => \A n \in Round : n <= config => Exists(n)

(* What one request does to the facts about requests in progress.          *)
LEMMA ChainRequests ==
    ASSUME Chain, TypeOK, InTurn, ChainVotes, NEW r \in Request, Handle(r)
    PROVE  /\ \A s \in Request :
                 pc'[s] \in {"open", "voted", "decided"} => vote'[target'[s]] # "absent"
           /\ \A s \in Request : pc'[s] = "decided" =>
                 \/ plan'[s] = "reject" /\ ballot'[s] = "rejected"
                 \/ plan'[s] \in {"approve", "next"} /\ Approves(ballot'[s])
<1> USE DEF roundVars, requestVars, workerVars, policyVars
<1>1. \A a \in Assignment : vote[a] # "absent" => vote'[a] # "absent"
  <2>1. CASE AssignReviewers(r)
    <3>1. PICK rows \in SUBSET NewRows(r) :
             vote' = [a \in Assignment |-> IF a \in rows THEN "pending" ELSE vote[a]]
      BY <2>1 DEF AssignReviewers
    <3> QED BY <3>1
  <2>2. CASE Commit(r)
    <3>1. target[r] \in Assignment /\ ballot[r] # "absent"
      BY <2>2, ApprovalAssumption DEF Commit, TypeOK, Ballot
    <3> QED BY <2>2, <3>1 DEF Commit, TypeOK
  <2> QED BY <2>1, <2>2 DEF Handle, OpenAssign, OpenReview, CastVote, Decide, Abort
<1>2. \A s \in Request : s # r => /\ pc'[s] = pc[s] /\ target'[s] = target[s]
                                  /\ plan'[s] = plan[s] /\ ballot'[s] = ballot[s]
  BY DEF Handle, OpenAssign, AssignReviewers, OpenReview, CastVote, Decide, Commit, Abort,
         Finish, TypeOK
<1>3. \A s \in Request : pc[s] \in {"open", "voted", "decided"} => target[s] \in Assignment
  BY DEF TypeOK
<1>4. pc'[r] \in {"open", "voted", "decided"} => /\ target'[r] \in Assignment
                                                 /\ vote[target'[r]] # "absent"
  <2>1. ASSUME NEW a \in Assignment, NEW b \in Ballot, OpenReview(r, a, b)
        PROVE  target'[r] = a /\ vote[a] # "absent"
    BY <2>1 DEF OpenReview, TypeOK
  <2>2. CASE CastVote(r) \/ Decide(r)
    BY <1>3, <2>2 DEF CastVote, Decide, ChainVotes
  <2>3. CASE AssignReviewers(r) \/ Commit(r) \/ Abort(r) \/ \E i \in Round : OpenAssign(r, i)
    BY <2>3 DEF AssignReviewers, Commit, Abort, OpenAssign, Finish, TypeOK
  <2> QED BY <2>1, <2>2, <2>3 DEF Handle
<1>5. pc'[r] = "decided" => \/ plan'[r] = "reject" /\ ballot'[r] = "rejected"
                            \/ plan'[r] \in {"approve", "next"} /\ Approves(ballot'[r])
  <2>1. CASE Decide(r)
    <3>1. ballot[r] # "rejected" => Approves(ballot[r])
      BY DEF TypeOK, Ballot, Approves
    <3>2. plan'[r] = ChainPlan(r) /\ ballot' = ballot
      BY <2>1 DEF Decide, TypeOK
    <3> QED BY <3>1, <3>2 DEF ChainPlan
  <2>2. CASE ~Decide(r)
    BY <2>2 DEF Handle, OpenAssign, AssignReviewers, OpenReview, CastVote, Commit, Abort,
                Finish, TypeOK
  <2> QED BY <2>1, <2>2
<1>6. ASSUME NEW s \in Request, pc'[s] \in {"open", "voted", "decided"}
      PROVE  vote'[target'[s]] # "absent"
  <2>1. target'[s] \in Assignment /\ vote[target'[s]] # "absent"
    BY <1>2, <1>3, <1>4, <1>6 DEF ChainVotes
  <2> QED BY <1>1, <2>1
<1>7. ASSUME NEW s \in Request, pc'[s] = "decided"
      PROVE  \/ plan'[s] = "reject" /\ ballot'[s] = "rejected"
             \/ plan'[s] \in {"approve", "next"} /\ Approves(ballot'[s])
  BY <1>2, <1>5, <1>7 DEF ChainVotes
<1> QED BY <1>6, <1>7

LEMMA ChainVotesHandle ==
    ASSUME Chain, TypeOK, InTurn, ChainVotes, NEW r \in Request, Handle(r)
    PROVE  ChainVotes'
<1> USE DEF roundVars, requestVars, workerVars, policyVars
<1>0. /\ \A s \in Request :
            pc'[s] \in {"open", "voted", "decided"} => vote'[target'[s]] # "absent"
      /\ \A s \in Request : pc'[s] = "decided" =>
            \/ plan'[s] = "reject" /\ ballot'[s] = "rejected"
            \/ plan'[s] \in {"approve", "next"} /\ Approves(ballot'[s])
  BY ChainRequests
<1>1. ASSUME UNCHANGED <<rStatus, vote, decision, late>> PROVE ChainVotes'
  <2>1. \A i \in Round : (Exists(i)' <=> Exists(i)) /\ (Active(i)' <=> Active(i))
    BY <1>1 DEF Exists, Active
  <2>2. \A i \in Round : Assigned(i)' = Assigned(i) /\ Voted(i)' = Voted(i)
    BY <1>1 DEF Assigned, Voted
  <2>3. \A i \in Round : (Closed(i)' <=> Closed(i)) /\ (Above(i)' <=> Above(i))
    BY <2>1 DEF Closed, Above
  <2> QED BY <1>0, <1>1, <2>1, <2>2, <2>3 DEF ChainVotes, Approves
<1>2. CASE AssignReviewers(r)
  <2>1. PICK i \in Round : i = target[r] /\ Exists(i) /\ late' = (late \/ ~Active(i))
    BY <1>2, RequestRound DEF AssignReviewers, WriteTo, InTurn, Started, RoundOfRequest
  <2>2. PICK rows \in SUBSET NewRows(r) :
           vote' = [a \in Assignment |-> IF a \in rows THEN "pending" ELSE vote[a]]
    BY <1>2 DEF AssignReviewers
  <2>3. \A a \in rows : a \in Assignment /\ RoundOf(a) = i /\ vote[a] = "absent"
    BY <2>1, <2>2 DEF NewRows
  <2>4. \A k \in Round : k # i => Assigned(k)' = Assigned(k)
    BY <2>2, <2>3 DEF Assigned
  <2>5. \A k \in Round : Voted(k)' = Voted(k)
    BY <2>2, <2>3 DEF Voted, Assigned
  <2>6. \A k \in Round : Exists(k)' <=> Exists(k)
    BY <1>2, <2>1 DEF AssignReviewers, Exists, TypeOK
  <2>7. \A k \in Round : ~Exists(k)' => Assigned(k)' = {}
    BY <2>1, <2>4, <2>6 DEF ChainVotes
  <2>8. CASE late'
    BY <1>0, <2>7, <2>8 DEF ChainVotes, Approves
  <2>9. CASE ~late'
    <3>1. Active(i) /\ ~late /\ decision' = decision
      BY <1>2, <2>1, <2>9 DEF AssignReviewers
    <3>2. \A k \in Round : Active(k)' <=> Active(k)
      BY <1>2, <2>1, <3>1 DEF AssignReviewers, Active, TypeOK
    <3>3. \A k \in Round : (Closed(k)' <=> Closed(k)) /\ (Above(k)' <=> Above(k))
      BY <2>6, <3>2 DEF Closed, Above
    <3>4. ASSUME NEW k \in Round, Closed(k)'
          PROVE  \E a \in Assignment :
                    Voted(k)' = {a} /\ (Approves(vote'[a]) <=> decision' = "reviewed" \/ Above(k)')
      <4>1. PICK a \in Assignment :
               Voted(k) = {a} /\ (Approves(vote[a]) <=> decision = "reviewed" \/ Above(k))
        BY <3>1, <3>3, <3>4 DEF ChainVotes
      <4>2. vote[a] # "absent"
        BY <4>1 DEF Voted, Assigned
      <4>3. vote'[a] = vote[a]
        BY <2>2, <2>3, <4>2
      <4> QED BY <2>5, <3>1, <3>3, <4>1, <4>3
    <3>5. \A k \in Round : Active(k)' => Voted(k)' = {}
      BY <2>5, <3>1, <3>2 DEF ChainVotes
    <3> QED BY <1>0, <2>7, <3>4, <3>5 DEF ChainVotes, Approves
  <2> QED BY <2>8, <2>9
<1>3. CASE Commit(r)
  <2>1. pc[r] = "decided" /\ vote[target[r]] # "absent"
    BY <1>3 DEF Commit, ChainVotes
  <2>2. PICK i \in Round, t \in Assignment :
           i = RoundOf(t) /\ t = target[r] /\ Exists(i) /\ late' = (late \/ ~Active(i))
    BY <1>3, <2>1, RequestRound DEF Commit, WriteTo, InTurn, Started, RoundOfRequest, TypeOK
  <2>3. /\ ballot[r] \in Ballot /\ ballot[r] # "absent" /\ ballot[r] # "pending"
        /\ ~Approves("rejected")
    BY ApprovalAssumption DEF TypeOK, Ballot, Approves
  <2>4. vote'[t] = ballot[r] /\ \A a \in Assignment : a # t => vote'[a] = vote[a]
    BY <1>3, <2>2 DEF Commit, TypeOK
  <2>5. \A k \in Round : Assigned(k)' = Assigned(k)
    BY <2>1, <2>2, <2>3, <2>4 DEF Assigned
  <2>6. \A k \in Round : Exists(k) => Exists(k)'
    BY <1>3, <2>2 DEF Commit, CloseRound, OpenNext, NextRow, Exists, TypeOK
  <2>7. \A k \in Round : ~Exists(k)' => Assigned(k)' = {}
    BY <2>5, <2>6 DEF ChainVotes
  <2>8. CASE late'
    BY <1>0, <2>7, <2>8 DEF ChainVotes, Approves
  <2>9. CASE ~late'
    <3>1. /\ Active(i) /\ ~late /\ decision = "open"
          /\ \A k \in Round : (Exists(k) <=> k <= i) /\ (Active(k) => k = i)
          /\ \A k \in Round : NextRow(k) => k = i + 1
      BY <2>2, <2>9, ActiveRound
    <3>2. Voted(i)' = {t}
      <4>1. \A a \in Assigned(i) : vote[a] = "pending"
        BY <3>1 DEF ChainVotes, Voted
      <4>2. t \in Assigned(i) /\ Assigned(i) \subseteq Assignment
        BY <2>1, <2>2 DEF Assigned
      <4> QED BY <2>3, <2>4, <2>5, <4>1, <4>2 DEF Voted
    <3>3. \A k \in Round : k # i => Voted(k)' = Voted(k) /\ \A a \in Voted(k) : vote'[a] = vote[a]
      BY <2>2, <2>4, <2>5 DEF Voted, Assigned
    <3>4. \A k \in Round : Closed(k) <=> k < i
      BY <3>1 DEF Closed, Round
    <3>5. ASSUME NEW k \in Round, k < i
          PROVE  \E a \in Assignment : Voted(k)' = {a} /\ Approves(vote'[a])
      <4>1. Above(k) /\ Closed(k) /\ k # i
        BY <2>2, <3>1, <3>4, <3>5 DEF Above, Round
      <4>2. PICK a \in Assignment :
               Voted(k) = {a} /\ (Approves(vote[a]) <=> decision = "reviewed" \/ Above(k))
        BY <3>1, <4>1 DEF ChainVotes
      <4> QED BY <3>3, <4>1, <4>2
    <3>6. CASE plan[r] \in {"reject", "approve"}
      <4>1. /\ rStatus' = [rStatus EXCEPT ![i] = "completed"]
            /\ decision' = IF plan[r] = "reject" THEN "rejected" ELSE "reviewed"
        BY <1>3, <2>2, <3>6 DEF Commit, CloseRound, FinalizeJob
      <4>2. \A k \in Round : (Exists(k)' <=> k <= i) /\ ~Active(k)'
        BY <3>1, <4>1 DEF Exists, Active, TypeOK
      <4>3. \A k \in Round : Above(k)' <=> k < i
        BY <4>2 DEF Above, Round
      <4>4. ASSUME NEW k \in Round, Closed(k)'
            PROVE  \E a \in Assignment :
                      Voted(k)' = {a} /\ (Approves(vote'[a]) <=> decision' = "reviewed" \/ Above(k)')
        <5>1. CASE k = i
          <6>1. Approves(ballot[r]) <=> decision' = "reviewed"
            BY <2>1, <2>3, <3>6, <4>1 DEF ChainVotes
          <6> QED BY <2>4, <3>2, <4>3, <5>1, <6>1 DEF Round
        <5>2. CASE k # i
          <6>1. k < i
            BY <4>2, <4>4, <5>2 DEF Closed, Round
          <6> QED BY <3>5, <4>3, <6>1
        <5> QED BY <5>1, <5>2
      <4> QED BY <1>0, <2>7, <4>2, <4>4 DEF ChainVotes, Approves
    <3>7. CASE plan[r] = "next"
      <4>1. PICK k \in Round :
               NextRow(k) /\ rStatus' = [rStatus EXCEPT ![i] = "completed", ![k] = "pending"]
        BY <1>3, <2>2, <3>7 DEF Commit, OpenNext
      <4>2. decision' = "open" /\ k = i + 1
        BY <1>3, <3>1, <3>7, <4>1 DEF Commit
      <4>3. \A m \in Round : (Exists(m)' <=> m <= k) /\ (Active(m)' <=> m = k)
        BY <3>1, <4>1, <4>2 DEF Exists, Active, TypeOK, Round
      <4>4. \A m \in Round : Above(m)' <=> m < k
        BY <4>3 DEF Above, Round
      <4>5. ASSUME NEW m \in Round, Closed(m)'
            PROVE  \E a \in Assignment :
                      Voted(m)' = {a} /\ (Approves(vote'[a]) <=> decision' = "reviewed" \/ Above(m)')
        <5>1. m < k
          BY <4>3, <4>5 DEF Closed, Round
        <5>2. CASE m = i
          <6>1. Approves(ballot[r])
            BY <2>1, <3>7 DEF ChainVotes
          <6> QED BY <2>4, <3>2, <4>4, <5>1, <5>2, <6>1
        <5>3. CASE m # i
          <6>1. m < i
            BY <4>2, <5>1, <5>3 DEF Round
          <6> QED BY <3>5, <4>4, <5>1, <6>1
        <5> QED BY <5>2, <5>3
      <4>6. Voted(k)' = {}
        <5>1. Assigned(k) = {}
          BY <4>1 DEF ChainVotes, NextRow
        <5> QED BY <2>5, <5>1 DEF Voted
      <4>7. \A m \in Round : Active(m)' => Voted(m)' = {}
        BY <4>3, <4>6
      <4> QED BY <1>0, <2>7, <4>5, <4>7 DEF ChainVotes, Approves
    <3> QED BY <2>1, <3>6, <3>7 DEF ChainVotes
  <2> QED BY <2>8, <2>9
<1> QED BY <1>1, <1>2, <1>3 DEF Handle, OpenAssign, OpenReview, CastVote, Decide, Abort

LEMMA ChainVotesNext == Chain /\ TypeOK /\ InTurn /\ ChainVotes /\ [Next]_vars => ChainVotes'
<1> SUFFICES ASSUME Chain, TypeOK, InTurn, ChainVotes, [Next]_vars
             PROVE  ChainVotes'
  OBVIOUS
<1> USE DEF roundVars, requestVars, workerVars, policyVars
<1>1. CASE UNCHANGED <<rStatus, vote, decision, requestVars, late>>
  <2>1. \A i \in Round : (Exists(i)' <=> Exists(i)) /\ (Active(i)' <=> Active(i))
    BY <1>1 DEF Exists, Active
  <2>2. \A i \in Round : Assigned(i)' = Assigned(i) /\ Voted(i)' = Voted(i)
    BY <1>1 DEF Assigned, Voted
  <2>3. \A i \in Round : (Closed(i)' <=> Closed(i)) /\ (Above(i)' <=> Above(i))
    BY <2>1 DEF Closed, Above
  <2> QED BY <1>1, <2>1, <2>2, <2>3 DEF ChainVotes, Approves
<1>2. CASE StartApproval
  <2>1. PICK i \in Round : NextRow(i) /\ rStatus' = [rStatus EXCEPT ![i] = "pending"]
    BY <1>2 DEF StartApproval
  <2>2. \A k \in Round : ~Exists(k) /\ ~Active(k)
    BY <1>2 DEF StartApproval, InTurn, Started, Exists, Active
  <2>3. \A r \in Request : pc[r] = "idle"
    BY <2>2, RequestRound DEF InTurn, Started
  <2>4. UNCHANGED <<vote, pc>>
    BY <1>2 DEF StartApproval
  <2>5. \A k \in Round : Assigned(k)' = {} /\ Voted(k)' = {}
    BY <2>2, <2>4 DEF ChainVotes, Assigned, Voted
  <2>6. \A k \in Round : ~Closed(k)'
    BY <2>1, <2>2 DEF Closed, Exists, Active, TypeOK
  <2> QED BY <2>3, <2>4, <2>5, <2>6 DEF ChainVotes
<1>3. ASSUME NEW r \in Request, Handle(r) PROVE ChainVotes'
  BY <1>3, ChainVotesHandle
<1> QED BY <1>1, <1>2, <1>3 DEF Next, vars, Worker, Editor, ReadPolicy, SavePendingReview,
                                CheckPolicy, WritePolicy

LEMMA ChainLengthHandle ==
    ASSUME Chain, TypeOK, InTurn, ChainVotes, ChainLength, NEW r \in Request, Handle(r)
    PROVE  ChainLength'
<1> USE DEF roundVars, requestVars, workerVars, policyVars
<1>0. UNCHANGED policyVars
  BY DEF Handle, OpenAssign, AssignReviewers, OpenReview, CastVote, Decide, Commit, Abort
<1>1. \A s \in Request : s # r => pc'[s] = pc[s] /\ target'[s] = target[s] /\ plan'[s] = plan[s]
  BY DEF Handle, OpenAssign, AssignReviewers, OpenReview, CastVote, Decide, Commit, Abort,
         Finish, TypeOK
<1>2. \A s \in Request : pc[s] = "decided" =>
         RoundOf(target[s]) \in Round /\ Exists(RoundOf(target[s]))
  BY RequestRound DEF InTurn, Started, RoundOfRequest
<1>3. ASSUME \A i \in Round : Exists(i) => rNumber'[i] = rNumber[i],
             pc'[r] = "decided" =>
                /\ plan'[r] = "next" => rNumber'[RoundOf(target'[r])] < config
                /\ plan'[r] = "approve" => config <= rNumber'[RoundOf(target'[r])],
             edits = 0, NEW s \in Request, pc'[s] = "decided"
      PROVE  /\ plan'[s] = "next" => rNumber'[RoundOf(target'[s])] < config
             /\ plan'[s] = "approve" => config <= rNumber'[RoundOf(target'[s])]
  <2>1. CASE s = r
    BY <1>3, <2>1
  <2>2. CASE s # r
    <3>1. pc[s] = "decided" /\ target'[s] = target[s] /\ plan'[s] = plan[s]
      BY <1>1, <1>3, <2>2
    <3>2. rNumber'[RoundOf(target[s])] = rNumber[RoundOf(target[s])]
      BY <1>2, <1>3, <3>1
    <3> QED BY <1>3, <3>1, <3>2 DEF ChainLength
  <2> QED BY <2>1, <2>2
<1>4. ASSUME UNCHANGED <<decision, late, rNumber>>,
             \A i \in Round : Exists(i)' <=> Exists(i),
             edits = 0 /\ pc'[r] = "decided" =>
                /\ plan'[r] = "next" => rNumber'[RoundOf(target'[r])] < config
                /\ plan'[r] = "approve" => config <= rNumber'[RoundOf(target'[r])]
      PROVE  ChainLength'
  <2>1. ASSUME edits = 0, NEW s \in Request, pc'[s] = "decided"
        PROVE  /\ plan'[s] = "next" => rNumber'[RoundOf(target'[s])] < config
               /\ plan'[s] = "approve" => config <= rNumber'[RoundOf(target'[s])]
    BY <1>3, <1>4, <2>1
  <2> QED BY <1>0, <1>4, <2>1 DEF ChainLength, RoundOf
<1>5. CASE UNCHANGED <<roundVars, decision, late>> /\ pc'[r] # "decided"
  BY <1>4, <1>5 DEF Exists
<1>6. CASE Decide(r)
  <2>1. pc[r] = "voted" /\ plan'[r] = ChainPlan(r) /\ UNCHANGED <<roundVars, decision, target, late>>
    BY <1>6 DEF Decide, TypeOK
  <2>2. PICK i \in Round : i = RoundOf(target[r])
    BY <2>1, RequestRound DEF RoundOfRequest
  <2>3. rNumber[i] \in Nat /\ config \in Nat
    BY <2>2, ApprovalAssumption DEF TypeOK
  <2>4. /\ plan'[r] = "next" => rNumber[i] < config
        /\ plan'[r] = "approve" => config <= rNumber[i]
    BY <2>1, <2>2, <2>3 DEF ChainPlan
  <2> QED BY <1>4, <2>1, <2>2, <2>4 DEF Exists
<1>7. CASE AssignReviewers(r)
  <2>1. PICK i \in Round : i = target[r] /\ Exists(i) /\ late' = (late \/ ~Active(i))
    BY <1>7, RequestRound DEF AssignReviewers, WriteTo, InTurn, Started, RoundOfRequest
  <2>2. \A k \in Round : Exists(k)' <=> Exists(k)
    BY <1>7, <2>1 DEF AssignReviewers, Exists, TypeOK
  <2>3. pc'[r] = "idle" /\ UNCHANGED <<rNumber, decision>>
    BY <1>7 DEF AssignReviewers, Finish, TypeOK
  <2>4. ASSUME edits = 0, NEW s \in Request, pc'[s] = "decided"
        PROVE  /\ plan'[s] = "next" => rNumber'[RoundOf(target'[s])] < config
               /\ plan'[s] = "approve" => config <= rNumber'[RoundOf(target'[s])]
    BY <1>3, <2>3, <2>4
  <2> QED BY <1>0, <2>1, <2>2, <2>3, <2>4 DEF ChainLength, RoundOf
<1>8. CASE Commit(r)
  <2>1. PICK i \in Round :
           i = RoundOf(target[r]) /\ Exists(i) /\ late' = (late \/ ~Active(i))
    BY <1>2, <1>8 DEF Commit, WriteTo
  <2>2. pc[r] = "decided" /\ pc'[r] = "idle"
    BY <1>8 DEF Commit, Finish, TypeOK
  <2>3. \A k \in Round : Exists(k) => rNumber'[k] = rNumber[k]
    BY <1>8 DEF Commit, CloseRound, OpenNext, InsertRound, NextRow, FinalizeJob, TypeOK
  <2>4. ASSUME edits = 0, NEW s \in Request, pc'[s] = "decided"
        PROVE  /\ plan'[s] = "next" => rNumber'[RoundOf(target'[s])] < config
               /\ plan'[s] = "approve" => config <= rNumber'[RoundOf(target'[s])]
    BY <1>3, <2>2, <2>3, <2>4
  <2>5. edits = 0 => editor = "idle"
    BY DEF ChainLength
  <2>6. CASE late'
    BY <1>0, <2>4, <2>5, <2>6 DEF ChainLength, RoundOf
  <2>7. CASE ~late'
    <3>1. /\ Active(i) /\ ~late /\ decision = "open"
          /\ \A k \in Round : (Exists(k) <=> k <= i) /\ (Active(k) => k = i)
          /\ \A k \in Round : NextRow(k) => k = i + 1
      BY <2>1, <2>7, ActiveRound
    <3>2. \A k \in Round : Exists(k) => rNumber[k] = k
      BY <3>1 DEF ChainLength
    <3>3. config \in Nat /\ rNumber[i] = i
      BY <2>1, <3>2, ApprovalAssumption DEF TypeOK
    <3>4. CASE plan[r] \in {"reject", "approve"}
      <4>1. /\ rStatus' = [rStatus EXCEPT ![i] = "completed"] /\ rNumber' = rNumber
            /\ decision' = "reviewed" => plan[r] = "approve"
        BY <1>8, <2>1, <3>4 DEF Commit, CloseRound, FinalizeJob
      <4>2. \A k \in Round : Exists(k)' <=> Exists(k)
        BY <2>1, <4>1 DEF Exists, TypeOK
      <4>3. ASSUME edits = 0, decision' = "reviewed", NEW n \in Round, n <= config PROVE Exists(n)
        <5>1. config <= i
          BY <2>1, <2>2, <3>3, <4>1, <4>3 DEF ChainLength
        <5> QED BY <3>1, <3>3, <4>3, <5>1 DEF Round
      <4>4. edits = 0 => \A k \in Round : Exists(k) => k <= config
        BY <3>1 DEF ChainLength
      <4> QED BY <1>0, <2>4, <2>5, <3>2, <4>1, <4>2, <4>3, <4>4 DEF ChainLength, RoundOf
    <3>5. CASE plan[r] = "next"
      <4>1. PICK k \in Round :
               /\ NextRow(k) /\ rStatus' = [rStatus EXCEPT ![i] = "completed", ![k] = "pending"]
               /\ rNumber' = [rNumber EXCEPT ![k] = rNumber[i] + 1]
        BY <1>8, <2>1, <3>5 DEF Commit, OpenNext, InsertRound
      <4>2. k = i + 1 /\ rNumber'[k] = k /\ \A m \in Round : m # k => rNumber'[m] = rNumber[m]
        BY <3>1, <3>3, <4>1 DEF TypeOK
      <4>3. \A m \in Round : Exists(m)' <=> Exists(m) \/ m = k
        BY <2>1, <4>1 DEF Exists, TypeOK
      <4>4. decision' = "open"
        BY <1>8, <3>1, <3>5 DEF Commit
      <4>5. edits = 0 => k <= config
        BY <2>1, <2>2, <3>3, <3>5, <4>2 DEF ChainLength, Round
      <4>6. edits = 0 => \A m \in Round : Exists(m) => m <= config
        BY <3>1 DEF ChainLength
      <4> QED BY <1>0, <2>4, <2>5, <3>2, <4>2, <4>3, <4>4, <4>5, <4>6 DEF ChainLength, RoundOf
    <3> QED BY <2>2, <3>4, <3>5 DEF ChainVotes
  <2> QED BY <2>6, <2>7
<1> QED BY <1>5, <1>6, <1>7, <1>8
        DEF Handle, OpenAssign, OpenReview, CastVote, Abort, Finish, TypeOK

LEMMA ChainLengthNext ==
    Chain /\ TypeOK /\ InTurn /\ ChainVotes /\ ChainLength /\ [Next]_vars => ChainLength'
<1> SUFFICES ASSUME Chain, TypeOK, InTurn, ChainVotes, ChainLength, [Next]_vars
             PROVE  ChainLength'
  OBVIOUS
<1> USE DEF roundVars, requestVars, workerVars, policyVars
<1>1. CASE UNCHANGED <<policyVars, roundVars, decision, requestVars, late>>
  BY <1>1 DEF ChainLength, Exists, RoundOf
<1>2. CASE StartApproval
  <2>1. PICK i \in Round : /\ NextRow(i) /\ rStatus' = [rStatus EXCEPT ![i] = "pending"]
                           /\ rNumber' = [rNumber EXCEPT ![i] = 1]
    BY <1>2 DEF StartApproval, InsertRound
  <2>2. \A k \in Round : ~Exists(k)
    BY <1>2 DEF StartApproval, InTurn, Started
  <2>3. i = 1
    BY <2>1, <2>2, ApprovalAssumption DEF NextRow, Round
  <2>4. \A k \in Round : Exists(k)' => k = 1 /\ rNumber'[k] = 1
    BY <2>1, <2>2, <2>3 DEF Exists, TypeOK
  <2>5. config >= 1
    BY ApprovalAssumption DEF TypeOK
  <2>6. \A r \in Request : pc[r] = "idle"
    BY <2>2, RequestRound DEF InTurn, Started
  <2>7. UNCHANGED <<policyVars, pc, decision>> /\ decision # "reviewed"
    BY <1>2 DEF StartApproval, InTurn, Started
  <2> QED BY <2>4, <2>5, <2>6, <2>7 DEF ChainLength
<1>3. CASE Editor
  <2>1. ASSUME edits' = 0 PROVE FALSE
    BY <1>3, <2>1 DEF Editor, CheckPolicy, WritePolicy, ChainLength, TypeOK
  <2>2. \A i \in Round : (Exists(i)' <=> Exists(i)) /\ rNumber'[i] = rNumber[i]
    BY <1>3 DEF Editor, CheckPolicy, WritePolicy, Exists
  <2>3. late' = late
    BY <1>3 DEF Editor, CheckPolicy, WritePolicy
  <2> QED BY <2>1, <2>2, <2>3 DEF ChainLength
<1>4. ASSUME NEW r \in Request, Handle(r) PROVE ChainLength'
  BY <1>4, ChainLengthHandle
<1> QED BY <1>1, <1>2, <1>3, <1>4 DEF Next, vars, Worker, ReadPolicy, SavePendingReview

LEMMA ChainInvariance == ASSUME Chain PROVE Spec => [](InTurn /\ ChainVotes /\ ChainLength)
<1>1. Init => InTurn /\ ChainVotes /\ ChainLength
  BY DEF Init, InTurn, Started, OneActiveRound, ChainVotes, ChainLength, Closed, Exists, Active,
         Assigned, Voted
<1>2. Chain
  OBVIOUS
<1>3. TypeOK /\ InTurn /\ ChainVotes /\ ChainLength /\ [Next]_vars
         => (InTurn /\ ChainVotes /\ ChainLength)'
  BY <1>2, InTurnNext, ChainVotesNext, ChainLengthNext
<1> QED BY <1>1, <1>3, TypeCorrect, PTL DEF Spec

(* A chain of any length that ends in "reviewed" has one vote on each of   *)
(* its rounds, an approving one; one that ends in "rejected" has a         *)
(* rejecting vote on its last round only; whatever the requests in flight, *)
(* unless one of them writes to a round closed since it found it.          *)
THEOREM ChainIsDecidedByVotes == Spec => []ChainFollowsVotes
<1>1. CASE ~Chain
  <2>1. ChainFollowsVotes
    BY <1>1 DEF ChainFollowsVotes
  <2> QED BY <2>1, PTL
<1>2. CASE Chain
  <2>1. ASSUME InTurn, ChainVotes, decision # "open", ~late, NEW i \in Round, Exists(i)
        PROVE  /\ Cardinality(Voted(i)) = 1
               /\ \A a \in Voted(i) : Approves(vote[a]) <=> decision = "reviewed" \/ Above(i)
    <3>1. Closed(i)
      BY <2>1 DEF InTurn, OneActiveRound, Closed
    <3>2. PICK a \in Assignment :
             Voted(i) = {a} /\ (Approves(vote[a]) <=> decision = "reviewed" \/ Above(i))
      BY <2>1, <3>1 DEF ChainVotes
    <3> QED BY <3>2, FS_Singleton
  <2>2. InTurn /\ ChainVotes => ChainFollowsVotes
    BY <2>1 DEF ChainFollowsVotes, Above
  <2>3. Spec => [](InTurn /\ ChainVotes /\ ChainLength)
    BY <1>2, ChainInvariance
  <2> QED BY <2>2, <2>3, PTL
<1> QED BY <1>1, <1>2

(* A chain whose policy nobody updates is approved after exactly the       *)
(* rounds that the policy has steps, as far as the bound on rounds goes,   *)
(* unless a request writes to a round closed since it found it.            *)
THEOREM ChainRunsAllSteps == Spec => []ChainRunsItsLength
<1>1. CASE ~Chain
  <2>1. ChainRunsItsLength
    BY <1>1 DEF ChainRunsItsLength
  <2> QED BY <2>1, PTL
<1>2. CASE Chain
  <2>1. ChainLength => ChainRunsItsLength
    BY DEF ChainLength, ChainRunsItsLength, Numbered
  <2>2. Spec => [](InTurn /\ ChainVotes /\ ChainLength)
    BY <1>2, ChainInvariance
  <2> QED BY <2>1, <2>2, PTL
<1> QED BY <1>1, <1>2

-----------------------------------------------------------------------------
(* Quorums on a database with one writer at a time, for any number of      *)
(* requests at once.                                                       *)

(* The votes that a decision was taken on do not change before it is       *)
(* committed: nobody else writes in between.                               *)
DecidedOnVotes ==
    /\ \A r, s \in Request : Writing(r) /\ Writing(s) => r = s
    /\ \A r \in Request : pc[r] \in {"open", "voted", "decided"} => vote[target[r]] # "absent"
    /\ \A r \in Request : pc[r] = "decided" => plan[r] = QuorumPlan(r)

OneWriter == Serialized /\ ~Chain

LEMMA DecidedOnVotesNext ==
    OneWriter /\ TypeOK /\ DecidedOnVotes /\ [Next]_vars => DecidedOnVotes'
<1> SUFFICES ASSUME OneWriter, TypeOK, DecidedOnVotes, [Next]_vars PROVE DecidedOnVotes'
  OBVIOUS
<1> USE DEF roundVars, requestVars, workerVars, policyVars
<1>1. ASSUME NEW s \in Request, UNCHANGED <<vote, rNeeds, target, ballot>> 
      PROVE  QuorumPlan(s)' = QuorumPlan(s)
  BY <1>1 DEF QuorumPlan, Seen, Assigned
<1>2. ASSUME \A s \in Request : ~Writing(s), \A s \in Request : ~Writing(s)',
             \A s \in Request : /\ pc'[s] \in {"open", "voted", "decided"}
                                => vote'[target'[s]] # "absent"
      PROVE  DecidedOnVotes'
  BY <1>2 DEF DecidedOnVotes, Writing
<1>3. CASE UNCHANGED <<vote, requestVars, rNeeds>>
  BY <1>1, <1>3 DEF DecidedOnVotes, Writing
<1>4. CASE StartApproval
  BY <1>2, <1>4 DEF StartApproval, WriteLockFree, OneWriter, DecidedOnVotes, Writing
<1>5. ASSUME NEW r \in Request, Handle(r) PROVE DecidedOnVotes'
  <2>1. ASSUME UNCHANGED <<vote, rNeeds>>, ~Writing(r)', 
               \A s \in Request \ {r} : UNCHANGED <<pc[s], target[s], ballot[s], plan[s]>>,
               pc'[r] = "open" => vote[target'[r]] # "absent"
        PROVE  DecidedOnVotes'
    <3>1. ASSUME NEW s \in Request \ {r} PROVE QuorumPlan(s)' = QuorumPlan(s)
      <4>1. RoundOf(target[s])' = RoundOf(target[s]) /\ target'[s] = target[s]
        BY <2>1, <3>1 DEF RoundOf
      <4>2. Assigned(RoundOf(target[s]))' = Assigned(RoundOf(target[s]))
        BY <2>1, <4>1 DEF Assigned
      <4>3. Seen(s)' = Seen(s)
        BY <2>1, <3>1, <4>1, <4>2 DEF Seen
      <4>4. QED
        BY <2>1, <4>1, <4>3 DEF QuorumPlan
    <3>2. QED
      BY <2>1, <3>1 DEF DecidedOnVotes, Writing
  <2>2. ASSUME NEW i \in Round, OpenAssign(r, i) PROVE DecidedOnVotes'
    BY <2>1, <2>2 DEF OpenAssign, Writing, TypeOK
  <2>3. CASE AssignReviewers(r)
    <3>1. \A s \in Request : ~Writing(s) /\ ~Writing(s)'
      BY <2>3 DEF AssignReviewers, WriteLockFree, OneWriter, Writing, Finish, TypeOK
    <3>2. \A a \in Assignment : vote[a] # "absent" => vote'[a] # "absent"
      BY <2>3 DEF AssignReviewers
    <3>3. QED
      BY <1>2, <2>3, <3>1, <3>2 DEF AssignReviewers, Finish, TypeOK, DecidedOnVotes
  <2>4. ASSUME NEW a \in Assignment, NEW b \in Ballot, OpenReview(r, a, b) PROVE DecidedOnVotes'
    <3>1. vote[a] = "pending"
      BY <2>4 DEF OpenReview
    <3>2. pc'[r] = "open" /\ target'[r] = a
      BY <2>4 DEF OpenReview, TypeOK
    <3>3. QED
      BY <2>1, <2>4, <3>1, <3>2 DEF OpenReview, Writing, TypeOK
  <2>5. CASE CastVote(r)
    <3>1. \A s \in Request : ~Writing(s)
      BY <2>5 DEF CastVote, WriteLockFree, OneWriter
    <3>2. QED
      BY <2>5, <3>1 DEF CastVote, DecidedOnVotes, Writing, TypeOK
  <2>6. CASE Decide(r)
    <3>1. \A s \in Request : QuorumPlan(s)' = QuorumPlan(s)
      BY <1>1, <2>6 DEF Decide
    <3>2. plan'[r] = QuorumPlan(r) /\ pc'[r] = "decided" /\ Writing(r)
      BY <2>6 DEF Decide, OneWriter, TypeOK, Writing
    <3>3. \A s \in Request : s # r => pc'[s] = pc[s] /\ plan'[s] = plan[s]
      BY <2>6 DEF Decide, TypeOK
    <3>4. QED
      BY <2>6, <3>1, <3>2, <3>3 DEF Decide, DecidedOnVotes, Writing
  <2>7. CASE Commit(r)
    <3>1. \A s \in Request : ~Writing(s)'
      BY <2>7 DEF Commit, Writing, Finish, TypeOK, DecidedOnVotes
    <3>2. \A a \in Assignment : vote[a] # "absent" => vote'[a] # "absent"
      BY <2>7, ApprovalAssumption DEF Commit, TypeOK, Ballot
    <3>3. \A s \in Request : pc'[s] \in {"open", "voted", "decided"}
                                => vote'[target'[s]] # "absent"
      BY <2>7, <3>2 DEF Commit, Finish, TypeOK, DecidedOnVotes
    <3>4. QED
      BY <3>1, <3>3 DEF DecidedOnVotes, Writing
  <2>8. CASE Abort(r)
    BY <2>1, <2>8 DEF Abort, Finish, Writing, TypeOK
  <2>9. QED
    BY <1>5, <2>2, <2>3, <2>4, <2>5, <2>6, <2>7, <2>8 DEF Handle
<1>6. QED
  BY <1>3, <1>4, <1>5 DEF Next, vars, Worker, Editor, ReadPolicy, SavePendingReview,
                          CheckPolicy, WritePolicy

LEMMA AssignedFinite ==
    ASSUME NEW S \in SUBSET Assignment
    PROVE  IsFiniteSet(S) /\ Cardinality(S) \in Nat
<1> DEFINE Triples == (Round \X Reviewer) \X (1 .. MaxCopies)
           f == [p \in Triples |-> <<p[1][1], p[1][2], p[2]>>]
<1>1. IsFiniteSet(Round) /\ IsFiniteSet(1 .. MaxCopies)
  BY FS_Interval, ApprovalAssumption DEF Round
<1>2. IsFiniteSet(Triples)
  BY <1>1, FS_Product, ApprovalAssumption
<1>3. f \in Surjection(Triples, Assignment)
  <2>1. \A p \in Triples : f[p] \in Assignment
    BY DEF Assignment
  <2>2. ASSUME NEW a \in Assignment PROVE \E p \in Triples : f[p] = a
    <3>1. <<<<a[1], a[2]>>, a[3]>> \in Triples /\ a = <<a[1], a[2], a[3]>>
      BY DEF Assignment
    <3>2. QED
      BY <3>1
  <2>3. QED
    BY <2>1, <2>2 DEF Surjection
<1>4. IsFiniteSet(Assignment)
  BY <1>2, <1>3, FS_Surjection
<1>5. QED
  BY <1>4, FS_Subset, FS_CardinalityType

(* What a commit that ends in "reviewed" was decided on.                   *)
LEMMA ApprovedVotes ==
    ASSUME TypeOK, NEW r \in Request, pc[r] = "decided", vote[target[r]] # "absent",
           QuorumPlan(r) = "approve"
    PROVE  LET votes == Seen(r)
           IN  /\ \A a \in DOMAIN votes : votes[a] # "pending"
               /\ Cardinality({a \in DOMAIN votes : Approves(votes[a])})
                     >= rNeeds[RoundOf(target[r])]
               /\ ~Conflict(votes)
<1> DEFINE votes == Seen(r)
           approved == {a \in DOMAIN votes : Approves(votes[a])}
           needs == rNeeds[RoundOf(target[r])]
<1>1. approved \in SUBSET Assignment
  BY DEF Seen, Assigned
<1>2. Cardinality(approved) \in Nat
  BY <1>1, AssignedFinite
<1>3. needs \in Nat
  BY RowTypes DEF TypeOK
<1>4. /\ ~\E a \in DOMAIN votes : votes[a] = "pending"
      /\ ~(Cardinality(approved) < needs)
      /\ ~Conflict(votes)
  BY DEF QuorumPlan
<1>5. Cardinality(approved) >= needs
  BY <1>2, <1>3, <1>4
<1>6. QED
  BY <1>4, <1>5

(* With one writer at a time a quorum approves a job only with all votes   *)
(* of the round in, enough of them approving and none in conflict, however *)
(* many requests are in flight, stale or aborted.                          *)
THEOREM QuorumHonest == ASSUME OneWriter PROVE Spec => QuorumMet
<1> DEFINE Met ==
       decision # "reviewed" /\ decision' = "reviewed" =>
         \E i \in Round :
            /\ rStatus'[i] = "completed"
            /\ LET votes == [a \in Assigned(i)' |-> vote'[a]] IN
               /\ \A a \in DOMAIN votes : votes[a] # "pending"
               /\ Cardinality({a \in DOMAIN votes : Approves(votes[a])}) >= rNeeds[i]
               /\ ~Conflict(votes)
<1>1. Init => DecidedOnVotes
  BY DEF Init, DecidedOnVotes, Writing
<1>2. TypeOK /\ DecidedOnVotes /\ [Next]_vars => DecidedOnVotes'
  BY DecidedOnVotesNext
<1>3. ASSUME TypeOK, DecidedOnVotes, NEW r \in Request, Commit(r), decision' = "reviewed",
             decision # "reviewed"
      PROVE  Met
  <2>1. target[r] \in Assignment /\ vote[target[r]] # "absent"
    BY <1>3 DEF Commit, TypeOK, DecidedOnVotes
  <2>2. PICK i \in Round : i = RoundOf(target[r])
    BY <2>1, RowTypes
  <2>3. plan[r] = "approve" /\ CloseRound(i, "completed")
    BY <1>3, <2>2 DEF Commit, FinalizeJob
  <2>4. QuorumPlan(r) = "approve" /\ pc[r] = "decided"
    BY <1>3, <2>3 DEF Commit, DecidedOnVotes
  <2>5. rStatus'[i] = "completed"
    BY <1>3, <2>3 DEF CloseRound, TypeOK
  <2>6. vote' = [vote EXCEPT ![target[r]] = ballot[r]] /\ ballot[r] # "absent"
    BY <1>3, ApprovalAssumption DEF Commit, TypeOK, Ballot
  <2>7. \A a \in Assignment : /\ vote'[a] # "absent" <=> vote[a] # "absent"
                              /\ vote'[a] = IF a = target[r] THEN ballot[r] ELSE vote[a]
    BY <1>3, <2>1, <2>6 DEF TypeOK
  <2>8. Assigned(i)' = Assigned(i)
    BY <2>7 DEF Assigned
  <2>9. [a \in Assigned(i)' |-> vote'[a]] = Seen(r)
    BY <2>2, <2>7, <2>8 DEF Seen, Assigned
  <2>10. LET votes == Seen(r)
         IN  /\ \A a \in DOMAIN votes : votes[a] # "pending"
             /\ Cardinality({a \in DOMAIN votes : Approves(votes[a])}) >= rNeeds[i]
             /\ ~Conflict(votes)
    BY <1>3, <2>1, <2>2, <2>4, ApprovedVotes
  <2>11. QED
    BY <2>5, <2>9, <2>10
<1>4. TypeOK /\ DecidedOnVotes /\ [Next]_vars => [Met]_vars
  <2> SUFFICES ASSUME TypeOK, DecidedOnVotes, Next PROVE Met
    OBVIOUS
  <2>1. CASE \E r \in Request : Commit(r)
    BY <1>3, <2>1
  <2>2. CASE ~\E r \in Request : Commit(r)
    <3>1. decision' = decision
      BY <2>2 DEF Next, Worker, ReadPolicy, StartApproval, SavePendingReview, Editor,
                  CheckPolicy, WritePolicy, Handle, OpenAssign, AssignReviewers, OpenReview,
                  CastVote, Decide, Abort
    <3>2. QED
      BY <3>1
  <2>3. QED
    BY <2>1, <2>2
<1>5. QED
  BY <1>1, <1>2, <1>4, TypeCorrect, PTL DEF Spec, QuorumMet

(* LastVoteDecides, with what keeps a new round free of votes.             *)
VotesInRounds ==
    /\ \A a \in Assignment : vote[a] # "absent" => Exists(RoundOf(a))
    /\ \A r \in Request : pc[r] = "assigning" => Exists(target[r])
    /\ LastVoteDecides

LEMMA NoVotesBefore ==
    ASSUME VotesInRounds, NEW i \in Round, ~Exists(i)
    PROVE  Assigned(i) = {}
BY DEF VotesInRounds, Assigned

(* What a request that waits, waits for.                                   *)
LEMMA WaitsForVote ==
    ASSUME TypeOK, NEW r \in Request, pc[r] = "decided", QuorumPlan(r) = "wait"
    PROVE  \E a \in Assigned(RoundOf(target[r])) : a # target[r] /\ vote[a] = "pending"
<1>1. PICK a \in Assigned(RoundOf(target[r])) : Seen(r)[a] = "pending"
  BY DEF QuorumPlan, Seen
<1>2. ballot[r] # "pending"
  BY ApprovalAssumption DEF TypeOK, Ballot
<1>3. QED
  BY <1>1, <1>2 DEF Seen

LEMMA VotesInRoundsNext ==
    OneWriter /\ TypeOK /\ DecidedOnVotes /\ VotesInRounds /\ [Next]_vars => VotesInRounds'
<1> SUFFICES ASSUME OneWriter, TypeOK, DecidedOnVotes, VotesInRounds, [Next]_vars
             PROVE  VotesInRounds'
  OBVIOUS
<1> USE DEF roundVars, requestVars, workerVars, policyVars
<1>1. ASSUME UNCHANGED <<rStatus, vote>>,
             \A r \in Request : pc'[r] = "assigning" => Exists(target'[r])
      PROVE  VotesInRounds'
  BY <1>1 DEF VotesInRounds, LastVoteDecides, Exists, Active, Assigned
<1>2. CASE StartApproval
  <2>1. PICK i \in Round : NextRow(i) /\ rStatus' = [rStatus EXCEPT ![i] = "pending"]
    BY <1>2 DEF StartApproval
  <2>2. vote' = vote /\ pc' = pc /\ target' = target
    BY <1>2 DEF StartApproval
  <2>3. \A k \in Round : Assigned(k)' = Assigned(k)
    BY <2>2 DEF Assigned
  <2>4. \A k \in Round : k # i => /\ Active(k)' <=> Active(k)
                                  /\ Exists(k)' <=> Exists(k)
    BY <2>1 DEF Active, Exists, TypeOK
  <2>5. Assigned(i) = {} /\ Exists(i)'
    BY <2>1, NoVotesBefore DEF NextRow, Exists, TypeOK
  <2>6. LastVoteDecides'
    BY <2>2, <2>3, <2>4, <2>5 DEF LastVoteDecides, VotesInRounds
  <2>7. \A a \in Assignment : vote'[a] # "absent" => Exists(RoundOf(a))'
    BY <2>2, <2>4, <2>5, RowTypes DEF VotesInRounds
  <2>8. \A r \in Request : pc'[r] = "assigning" => Exists(target[r])'
    BY <2>2, <2>4, <2>5 DEF VotesInRounds, TypeOK
  <2>9. QED
    BY <2>6, <2>7, <2>8 DEF VotesInRounds, Exists
<1>3. ASSUME NEW r \in Request, AssignReviewers(r) PROVE VotesInRounds'
  <2>1. PICK rows \in (SUBSET NewRows(r)) \ {{}} :
           vote' = [a \in Assignment |-> IF a \in rows THEN "pending" ELSE vote[a]]
    BY <1>3 DEF AssignReviewers
  <2>2. target[r] \in Round /\ Exists(target[r])
    BY <1>3 DEF AssignReviewers, TypeOK, VotesInRounds
  <2>3. \A k \in Round : Exists(k)' <=> Exists(k)
    BY <1>3, <2>2 DEF AssignReviewers, TypeOK, Exists
  <2>4. \A k \in Round : k # target[r] => (Active(k)' <=> Active(k)) /\ Assigned(k)' = Assigned(k)
    BY <1>3, <2>1, <2>2 DEF AssignReviewers, TypeOK, Active, Assigned, NewRows
  <2>5. \E a \in Assignment : RoundOf(a) = target[r] /\ vote'[a] = "pending"
    <3>1. PICK a \in rows : TRUE
      BY <2>1
    <3>2. a \in Assignment /\ RoundOf(a) = target[r]
      BY <2>1, <3>1 DEF NewRows
    <3>3. vote'[a] = "pending"
      BY <2>1, <3>1, <3>2
    <3>4. QED
      BY <3>2, <3>3
  <2>6. ASSUME NEW k \in Round, Active(k)', Assigned(k)' # {}
        PROVE  \E a \in Assigned(k)' : vote'[a] = "pending"
    <3>1. CASE k = target[r]
      BY <2>5, <3>1 DEF Assigned
    <3>2. CASE k # target[r]
      <4>1. PICK a \in Assigned(k) : vote[a] = "pending"
        BY <2>4, <2>6, <3>2 DEF VotesInRounds, LastVoteDecides
      <4>2. vote'[a] = "pending"
        BY <2>1, <4>1 DEF Assigned
      <4>3. QED
        BY <2>4, <3>2, <4>1, <4>2
    <3>3. QED
      BY <3>1, <3>2
  <2>7. \A a \in Assignment : vote'[a] # "absent" => Exists(RoundOf(a))'
    BY <2>1, <2>2, <2>3, RowTypes DEF VotesInRounds, NewRows
  <2>8. \A s \in Request : pc'[s] = "assigning" => Exists(target[s])'
    BY <1>3, <2>3 DEF AssignReviewers, Finish, TypeOK, VotesInRounds
  <2>9. QED
    BY <2>6, <2>7, <2>8 DEF VotesInRounds, LastVoteDecides, Exists
<1>4. ASSUME NEW r \in Request, Commit(r) PROVE VotesInRounds'
  <2>1. target[r] \in Assignment /\ vote[target[r]] # "absent" /\ pc[r] = "decided"
    BY <1>4 DEF Commit, TypeOK, DecidedOnVotes
  <2>2. PICK i \in Round : i = RoundOf(target[r])
    BY <2>1, RowTypes
  <2>3. Exists(i) /\ plan[r] = QuorumPlan(r)
    BY <1>4, <2>1, <2>2 DEF VotesInRounds, DecidedOnVotes
  <2>4. ballot[r] # "absent" /\ ballot[r] # "pending"
    BY ApprovalAssumption DEF TypeOK, Ballot
  <2>5. \A a \in Assignment : /\ vote'[a] # "absent" <=> vote[a] # "absent"
                              /\ a # target[r] => vote'[a] = vote[a]
    BY <1>4, <2>1, <2>4 DEF Commit, TypeOK
  <2>6. \A k \in Round : Assigned(k)' = Assigned(k)
    BY <2>5 DEF Assigned
  <2>7. \A s \in Request : pc'[s] = "assigning" => pc[s] = "assigning" /\ target'[s] = target[s]
    BY <1>4 DEF Commit, Finish, TypeOK
  <2>8. ASSUME NEW k \in Round, k # i, Active(k), Assigned(k) # {}
        PROVE  \E a \in Assigned(k)' : vote'[a] = "pending"
    BY <2>2, <2>5, <2>6, <2>8 DEF VotesInRounds, LastVoteDecides, Assigned
  <2>9. CASE plan[r] = "wait"
    <3>1. rStatus' = rStatus
      BY <1>4, <2>9 DEF Commit
    <3>2. \E a \in Assigned(i)' : vote'[a] = "pending"
      BY <2>1, <2>2, <2>3, <2>5, <2>6, <2>9, WaitsForVote DEF Assigned
    <3>3. LastVoteDecides'
      BY <2>6, <2>8, <3>1, <3>2 DEF LastVoteDecides, Active
    <3>4. QED
      BY <2>5, <2>7, <3>1, <3>3 DEF VotesInRounds, Exists
  <2>10. CASE plan[r] # "wait"
    <3>1. /\ ~Active(i)' /\ Exists(i)'
          /\ \A k \in Round : Exists(k) => Exists(k)'
          /\ \A k \in Round : Exists(k) /\ k # i => (Active(k)' <=> Active(k))
      BY <1>4, <2>2, <2>3, <2>10
         DEF Commit, CloseRound, OpenNext, NextRow, Active, Exists, TypeOK
    <3>2. \A k \in Round : ~Exists(k) => Assigned(k)' = {}
      BY <2>6, NoVotesBefore
    <3>3. LastVoteDecides'
      BY <2>6, <2>8, <3>1, <3>2 DEF LastVoteDecides
    <3>4. \A a \in Assignment : vote'[a] # "absent" => Exists(RoundOf(a))'
      BY <2>5, <3>1, RowTypes DEF VotesInRounds
    <3>5. \A s \in Request : pc'[s] = "assigning" => Exists(target[s])'
      BY <2>7, <3>1 DEF VotesInRounds, TypeOK
    <3>6. QED
      BY <3>3, <3>4, <3>5 DEF VotesInRounds, Exists
  <2>11. QED
    BY <2>9, <2>10
<1>5. ASSUME NEW r \in Request, Handle(r), ~AssignReviewers(r), ~Commit(r)
      PROVE  VotesInRounds'
  <2>1. ASSUME NEW i \in Round, OpenAssign(r, i) PROVE VotesInRounds'
    BY <1>1, <2>1 DEF OpenAssign, VotesInRounds, TypeOK, Active, Exists
  <2>2. ASSUME NEW a \in Assignment, NEW b \in Ballot, OpenReview(r, a, b) PROVE VotesInRounds'
    BY <1>1, <2>2 DEF OpenReview, VotesInRounds, TypeOK
  <2>3. CASE CastVote(r) \/ Decide(r)
    BY <1>1, <2>3 DEF CastVote, Decide, VotesInRounds, TypeOK
  <2>4. CASE Abort(r)
    BY <1>1, <2>4 DEF Abort, Finish, VotesInRounds, TypeOK
  <2>5. QED
    BY <1>5, <2>1, <2>2, <2>3, <2>4 DEF Handle
<1>6. CASE UNCHANGED <<rStatus, vote, pc, target>>
  BY <1>1, <1>6 DEF VotesInRounds
<1>7. QED
  BY <1>2, <1>3, <1>4, <1>5, <1>6 DEF Next, vars, Worker, Editor, ReadPolicy, SavePendingReview,
                                      CheckPolicy, WritePolicy

(* With one writer at a time a quorum never waits for nobody: while its    *)
(* round is active and has reviewers, one of them still has to vote.       *)
THEOREM QuorumNeverStalls == ASSUME OneWriter PROVE Spec => []LastVoteDecides
<1>1. Init => DecidedOnVotes /\ VotesInRounds
  BY DEF Init, DecidedOnVotes, Writing, VotesInRounds, LastVoteDecides, Assigned
<1>2. OneWriter
  OBVIOUS
<1>3. /\ TypeOK /\ DecidedOnVotes /\ [Next]_vars => DecidedOnVotes'
      /\ TypeOK /\ DecidedOnVotes /\ VotesInRounds /\ [Next]_vars => VotesInRounds'
  BY <1>2, DecidedOnVotesNext, VotesInRoundsNext
<1>4. VotesInRounds => LastVoteDecides
  BY DEF VotesInRounds
<1>5. QED
  BY <1>1, <1>3, <1>4, TypeCorrect, PTL DEF Spec
=============================================================================
