----------------------- MODULE ResponseAction_proofs -----------------------
(***************************************************************************)
(* Proofs about ResponseAction, for any number of users, requests, roles   *)
(* and versions, any kind of action and any set of admitted operations.    *)
(***************************************************************************)
EXTENDS ResponseAction, FiniteSetTheorems, TLAPS

-----------------------------------------------------------------------------
(* Type correctness *)

\* A request that is under way belongs to a member of the workspace.
ActiveHasUser ==
    \A r \in Requests : req[r].pc \notin {"idle", "done"} => req[r].user \in Users

TypeInv == TypeOK /\ ActiveHasUser

\* What the rest of the product does touches no request and, of the row, only
\* what simulate_response_action overwrites.
LEMMA EnvironmentFrame ==
    ASSUME Environment
    PROVE  /\ UNCHANGED <<approvals, req, compensations, runs>>
           /\ \/ row' = row
              \/ row' = [row EXCEPT !.mode = "simulated", !.execState = "simulated"]
<1>1. ASSUME Simulate PROVE row' = [row EXCEPT !.mode = "simulated", !.execState = "simulated"]
                            /\ UNCHANGED <<approvals, req, compensations, runs>>
  BY <1>1 DEF Simulate
<1>2. ASSUME NEW d, RecordEvaluation(d) \/ RecordSiblingEvaluation(d)
      PROVE  UNCHANGED <<row, approvals, req, compensations, runs>>
  BY <1>2 DEF RecordEvaluation, RecordSiblingEvaluation
<1>3. ASSUME PublishPolicy PROVE UNCHANGED <<row, approvals, req, compensations, runs>>
  BY <1>3 DEF PublishPolicy
<1>4. ASSUME NEW b, SetIncident(b) \/ SetPlanLock(b)
      PROVE  UNCHANGED <<row, approvals, req, compensations, runs>>
  BY <1>4 DEF SetIncident, SetPlanLock
<1>5. ASSUME NEW u, Demote(u) PROVE UNCHANGED <<row, approvals, req, compensations, runs>>
  BY <1>5 DEF Demote
<1> QED
  BY <1>1, <1>2, <1>3, <1>4, <1>5 DEF Environment

\* The facts the handlers read keep their types whatever changes them.
LEMMA EnvironmentTyped ==
    ASSUME TypeInv, Environment
    PROVE  /\ row' \in Row
           /\ evaluation' \in Evaluation
           /\ policyVersion' \in 1..MaxVersion
           /\ incidentOpen' \in BOOLEAN
           /\ planLocked' \in BOOLEAN
           /\ admins' \subseteq Users
<1> USE DEF TypeInv, TypeOK
<1>1. row' \in Row
  BY EnvironmentFrame DEF Row, ExecStates
<1>2. CASE Simulate
  BY <1>1, <1>2 DEF Simulate, world
<1>3. ASSUME NEW d \in {"ALLOW", "DENY"}, RecordEvaluation(d) \/ RecordSiblingEvaluation(d)
      PROVE  /\ evaluation' \in Evaluation
             /\ UNCHANGED <<policyVersion, incidentOpen, planLocked, admins>>
  <2>1. policyVersion \in 0..MaxVersion
    BY BoundsAssumption
  <2>2. [own |-> TRUE, decision |-> d, version |-> policyVersion] \in Evaluation
    BY <2>1 DEF Evaluation
  <2>3. [own |-> FALSE, decision |-> d, version |-> policyVersion] \in Evaluation
    BY <2>1 DEF Evaluation
  <2> QED BY <1>3, <2>2, <2>3 DEF RecordEvaluation, RecordSiblingEvaluation
<1>4. ASSUME PublishPolicy
      PROVE  /\ policyVersion' \in 1..MaxVersion
             /\ UNCHANGED <<evaluation, incidentOpen, planLocked, admins>>
  BY <1>4, BoundsAssumption DEF PublishPolicy
<1>5. ASSUME NEW b \in BOOLEAN, SetIncident(b) \/ SetPlanLock(b)
      PROVE  /\ incidentOpen' \in BOOLEAN
             /\ planLocked' \in BOOLEAN
             /\ UNCHANGED <<evaluation, policyVersion, admins>>
  BY <1>5 DEF SetIncident, SetPlanLock
<1>6. ASSUME NEW u \in Users, Demote(u)
      PROVE  /\ admins' \subseteq Users
             /\ UNCHANGED <<evaluation, policyVersion, incidentOpen, planLocked>>
  BY <1>6 DEF Demote
<1> QED
  BY <1>1, <1>2, <1>3, <1>4, <1>5, <1>6 DEF Environment

ReqsTyped == req \in [Requests -> Request] /\ ActiveHasUser

\* Moving a request under way to its next step keeps the requests typed.
LEMMA GotoTyped ==
    ASSUME ReqsTyped, NEW r \in Requests, NEW pc \in Steps,
           req[r].pc \notin {"idle", "done"}, Goto(r, pc)
    PROVE  ReqsTyped'
  BY DEF ReqsTyped, ActiveHasUser, Goto, Request

\* What a request holds before it begins is of the type.
LEMMA IdleRequestTyped ==
    /\ IdleRequest \in Request
    /\ IdleRequest.pc = "idle"
    /\ NoEvaluation \in Evaluation
<1>1. NoEvaluation \in Evaluation
  BY BoundsAssumption DEF NoEvaluation, Evaluation
<1>2. IdleRequest.snap \in Row
  BY DEF IdleRequest, Row, Statuses, ExecStates
<1> QED BY <1>1, <1>2 DEF IdleRequest, Request, Steps

\* So does the end of a request, which forgets what it held.
LEMMA DoneTyped ==
    ASSUME ReqsTyped, NEW r \in Requests, Done(r)
    PROVE  ReqsTyped'
<1>1. [IdleRequest EXCEPT !.pc = "done"] \in Request
  BY IdleRequestTyped DEF Request, Steps
<1>2. [IdleRequest EXCEPT !.pc = "done"].pc = "done"
  BY IdleRequestTyped DEF Request
<1> QED BY <1>1, <1>2 DEF ReqsTyped, ActiveHasUser, Done

\* So does the beginning of a request of the type.
LEMMA BeginTyped ==
    ASSUME ReqsTyped, NEW r \in Requests, NEW request \in Request,
           request.user \in Users, Begin(r, request)
    PROVE  ReqsTyped'
  BY DEF ReqsTyped, ActiveHasUser, Begin

\* What the four operations start with is a request of the type.
LEMMA OperateTyped ==
    ASSUME TypeInv, NEW r \in Requests, NEW u \in Users, Operate(r, u)
    PROVE  ReqsTyped' /\ UNCHANGED <<row, approvals, compensations, runs, world>>
<1> USE DEF TypeInv, TypeOK
<1>0. ReqsTyped /\ row \in Row
  BY DEF ReqsTyped
<1>1. ASSUME NEW role \in PolicyRoles \cup {NoRole}, BeginApprove(r, u, role)
      PROVE  ReqsTyped'
  <2> DEFINE request == [IdleRequest EXCEPT !.pc = "approve", !.user = u, !.role = role]
  <2>1. request \in Request /\ request.user \in Users
    BY <1>0, IdleRequestTyped DEF Request, Steps
  <2> HIDE DEF request
  <2>2. Begin(r, request)
    BY <1>1 DEF BeginApprove, request
  <2> QED BY <1>0, <2>1, <2>2, BeginTyped
<1>2. ASSUME BeginReject(r, u)
      PROVE  ReqsTyped'
  <2> DEFINE request == [IdleRequest EXCEPT !.pc = "reject", !.user = u]
  <2>1. request \in Request /\ request.user \in Users
    BY <1>0, IdleRequestTyped DEF Request, Steps
  <2> HIDE DEF request
  <2>2. Begin(r, request)
    BY <1>2 DEF BeginReject, request
  <2> QED BY <1>0, <2>1, <2>2, BeginTyped
<1>3. ASSUME BeginExecute(r, u)
      PROVE  ReqsTyped'
  <2> DEFINE request == [IdleRequest EXCEPT !.pc = "verdict", !.user = u, !.snap = row]
  <2>1. request \in Request /\ request.user \in Users
    BY <1>0, IdleRequestTyped DEF Request, Steps
  <2> HIDE DEF request
  <2>2. Begin(r, request)
    BY <1>3 DEF BeginExecute, request
  <2> QED BY <1>0, <2>1, <2>2, BeginTyped
<1>4. ASSUME BeginRollback(r, u)
      PROVE  ReqsTyped'
  <2> DEFINE request == [IdleRequest EXCEPT !.pc = "rollback", !.user = u]
  <2>1. request \in Request /\ request.user \in Users
    BY <1>0, IdleRequestTyped DEF Request, Steps
  <2> HIDE DEF request
  <2>2. Begin(r, request)
    BY <1>4 DEF BeginRollback, request
  <2> QED BY <1>0, <2>1, <2>2, BeginTyped
<1>5. ASSUME NEW role
      PROVE  BeginApprove(r, u, role) \/ BeginReject(r, u) \/ BeginExecute(r, u) \/ BeginRollback(r, u)
               => UNCHANGED <<row, approvals, compensations, runs, world>>
  BY DEF BeginApprove, BeginReject, BeginExecute, BeginRollback, Begin
<1> QED BY <1>1, <1>2, <1>3, <1>4, <1>5 DEF Operate

\* Every step of a request keeps the row, the decisions, the runs and the
\* requests typed, and leaves the rest of the product alone.
LEMMA StepTyped ==
    ASSUME TypeInv, NEW r \in Requests, Step(r)
    PROVE  /\ ReqsTyped'
           /\ row' \in Row /\ approvals' \subseteq Approval
           /\ compensations' \in Nat /\ runs' \subseteq Run
           /\ UNCHANGED world
<1>0. /\ ReqsTyped /\ row \in Row /\ approvals \subseteq Approval
      /\ compensations \in Nat /\ runs \subseteq Run
      /\ req[r] \in Request
      /\ req[r].pc \notin {"idle", "done"} => req[r].user \in Users
  BY DEF TypeInv, TypeOK, ReqsTyped, ActiveHasUser
<1>1. ASSUME NEW u \in Users, Operate(r, u)
      PROVE  ReqsTyped' /\ UNCHANGED <<row, approvals, compensations, runs, world>>
  BY <1>1, OperateTyped
<1>2. CASE RecordApproval(r)
  <2>1. Done(r) \/ Goto(r, "recorded") \/ Goto(r, "advance")
    BY <1>2 DEF RecordApproval
  <2>2. ReqsTyped'
    <3>1. req[r].pc \notin {"idle", "done"} /\ {"recorded", "advance"} \subseteq Steps
      BY <1>2 DEF RecordApproval, Steps
    <3> QED BY <1>0, <2>1, <3>1, DoneTyped, GotoTyped
  <2> QED BY <1>0, <1>2, <2>2 DEF RecordApproval
<1>3. CASE CommitApproval(r)
  <2>1. req[r].user \in Users /\ req[r].role \in PolicyRoles \cup {NoRole}
    BY <1>0, <1>3 DEF CommitApproval, Request
  <2>2. approvals' \subseteq Approval
    BY <1>0, <1>3, <2>1 DEF CommitApproval, Approval
  <2>3. row' \in Row
    BY <1>0, <1>3, <2>1 DEF CommitApproval, Advanced, Row, Statuses
  <2>4. ReqsTyped'
    BY <1>0, <1>3, DoneTyped DEF CommitApproval
  <2> QED BY <1>0, <1>3, <2>2, <2>3, <2>4 DEF CommitApproval
<1>4. CASE CommitReject(r)
  <2>1. req[r].user \in Users
    BY <1>0, <1>4 DEF CommitReject
  <2>2. approvals' \subseteq Approval
    BY <1>0, <1>4, <2>1 DEF CommitReject, Approval
  <2>3. row' \in Row
    BY <1>0, <1>4 DEF CommitReject, Row, Statuses
  <2>4. ReqsTyped'
    BY <1>0, <1>4, DoneTyped DEF CommitReject
  <2> QED BY <1>0, <1>4, <2>2, <2>3, <2>4 DEF CommitReject
<1>5. CASE ReadVerdict(r)
  <2>1. ReqsTyped'
    BY <1>0, <1>5 DEF ReadVerdict, ReqsTyped, ActiveHasUser, TypeInv, TypeOK, Request, Steps
  <2> QED BY <1>0, <1>5, <2>1 DEF ReadVerdict
<1>6. CASE PassGate(r)
  <2>1. Done(r) \/ Goto(r, "run")
    BY <1>6 DEF PassGate
  <2>2. req[r].pc = "gate" /\ "run" \in Steps
    BY <1>6 DEF PassGate, Steps
  <2>3. ReqsTyped'
    BY <1>0, <2>1, <2>2, DoneTyped, GotoTyped
  <2> QED BY <1>0, <1>6, <2>3 DEF PassGate
<1>7. ASSUME req[r].pc \notin {"idle", "done"} PROVE RunOf(r) \in Run
  <2>1. RequiredRoles(req[r].verdict) \subseteq PolicyRoles
    BY DEF RequiredRoles
  <2>2. stops[r] \subseteq Stops
    BY DEF TypeInv, TypeOK
  <2> QED BY <1>0, <1>7, <2>1, <2>2 DEF RunOf, Run, Request, Row
<1>8. CASE ContactProvider(r)
  <2>1. req[r].pc \notin {"idle", "done"} /\ {"finish", "fail"} \subseteq Steps
    BY <1>8 DEF ContactProvider, Steps
  <2>2. Done(r) \/ Goto(r, "finish") \/ Goto(r, "fail")
    BY <1>8 DEF ContactProvider
  <2>3. ReqsTyped'
    BY <1>0, <2>1, <2>2, DoneTyped, GotoTyped
  <2> QED BY <1>0, <1>7, <1>8, <2>1, <2>3 DEF ContactProvider
<1>9. CASE FinishExecute(r)
  <2>1. req[r].pc \notin {"idle", "done"}
    BY <1>9 DEF FinishExecute
  <2>2. runs' \subseteq Run
    BY <1>0, <1>7, <1>9, <2>1 DEF FinishExecute
  <2>3. /\ Outcome(req[r].snap, req[r].pc).status \in Statuses
        /\ Outcome(req[r].snap, req[r].pc).execState \in ExecStates
    BY DEF Outcome, Statuses, ExecStates
  <2>4. req[r].snap.rejected \in BOOLEAN
    BY <1>0 DEF Request, Row
  <2>5. row' \in Row
    BY <1>0, <1>9, <2>3, <2>4 DEF FinishExecute, Row
  <2>6. ReqsTyped'
    BY <1>0, <1>9, DoneTyped DEF FinishExecute
  <2> QED BY <1>0, <1>9, <2>2, <2>5, <2>6 DEF FinishExecute
<1>10. CASE CommitRollback(r)
  <2>1. row' \in Row
    BY <1>0, <1>10 DEF CommitRollback, Row, Statuses
  <2>2. compensations' \in Nat
    BY <1>0, <1>10 DEF CommitRollback
  <2>3. ReqsTyped'
    BY <1>0, <1>10, DoneTyped DEF CommitRollback
  <2> QED BY <1>0, <1>10, <2>1, <2>2, <2>3 DEF CommitRollback
<1>11. CASE Abort(r)
  BY <1>0, <1>11, DoneTyped DEF Abort
<1> QED
  BY <1>0, <1>1, <1>2, <1>3, <1>4, <1>5, <1>6, <1>8, <1>9, <1>10, <1>11 DEF Step

\* create_enforcement_action leaves a row of the type.
LEMMA InitTyped == Init => TypeInv
<1> SUFFICES ASSUME Init PROVE TypeInv
  OBVIOUS
<1>1. row \in Row
  <2>1. PICK m \in Modes, s \in Statuses : row = [mode |-> m, status |-> s,
            execState |-> IF m = "live" THEN "proposed" ELSE "simulated",
            approvedBy |-> NoUser, rejected |-> FALSE, rolledBack |-> FALSE]
    BY DEF Init
  <2>2. m \in {"recommended", "simulated", "live"}
    BY KindAssumption
  <2> QED BY <2>1, <2>2 DEF Row, Statuses, ExecStates
<1>2. evaluation \in Evaluation /\ policyVersion \in 1..MaxVersion
  BY IdleRequestTyped, BoundsAssumption DEF Init
<1>3. req \in [Requests -> Request] /\ ActiveHasUser
  BY IdleRequestTyped DEF Init, ActiveHasUser
<1> QED BY <1>1, <1>2, <1>3 DEF Init, TypeInv, TypeOK

\* Every step keeps the types.
LEMMA TypeInvStep == TypeInv /\ [Next]_vars => TypeInv'
<1> SUFFICES ASSUME TypeInv, [Next]_vars PROVE TypeInv'
  OBVIOUS
<1>1. CASE UNCHANGED vars
  BY <1>1 DEF vars, TypeInv, TypeOK, ActiveHasUser
<1>2. CASE Next
  <2>1. TrackStops => stops' \in [Requests -> SUBSET Stops]
    BY DEF TrackStops, StopsNow, StopsOf, TypeInv, TypeOK
  <2>2. ASSUME NEW r \in Requests, Step(r) PROVE TypeInv'
    BY <1>2, <2>1, <2>2, StepTyped DEF Next, TypeInv, TypeOK, ReqsTyped, world
  <2>3. CASE Environment
    BY <1>2, <2>1, <2>3, EnvironmentFrame, EnvironmentTyped DEF Next, TypeInv, TypeOK, ActiveHasUser
  <2> QED BY <1>2, <2>2, <2>3 DEF Next
<1> QED BY <1>1, <1>2

\* Every reachable state is one the tables and the handlers can hold: no step
\* of a handler writes a status or a user that the product does not know.
THEOREM TypeCorrect == Spec => []TypeOK
<1>1. TypeInv => TypeOK
  BY DEF TypeInv
<1> QED BY <1>1, InitTyped, TypeInvStep, PTL DEF Spec

-----------------------------------------------------------------------------
(* Lemmas about steps *)

\* A step of one request leaves the others where they are.
LEMMA StepFrame ==
    ASSUME TypeInv, NEW r \in Requests, Step(r), NEW q \in Requests \ {r}
    PROVE  req'[q] = req[q]
<1>1. req \in [Requests -> Request]
  BY DEF TypeInv, TypeOK
<1>2. ASSUME NEW request, Begin(r, request) PROVE req'[q] = req[q]
  BY <1>1, <1>2 DEF Begin
<1>3. ASSUME NEW u, Operate(r, u) PROVE req'[q] = req[q]
  BY <1>2, <1>3 DEF Operate, BeginApprove, BeginReject, BeginExecute, BeginRollback
<1>4. ASSUME Done(r) PROVE req'[q] = req[q]
  BY <1>1, <1>4 DEF Done
<1>5. ASSUME NEW pc, Goto(r, pc) PROVE req'[q] = req[q]
  BY <1>1, <1>5 DEF Goto
<1>6. CASE RecordApproval(r)
  BY <1>4, <1>5, <1>6 DEF RecordApproval
<1>7. CASE ReadVerdict(r)
  BY <1>1, <1>7 DEF ReadVerdict
<1>8. CASE PassGate(r)
  BY <1>4, <1>5, <1>8 DEF PassGate
<1>9. CASE ContactProvider(r)
  BY <1>4, <1>5, <1>9 DEF ContactProvider
<1>10. CASE CommitApproval(r) \/ CommitReject(r) \/ FinishExecute(r) \/ CommitRollback(r) \/ Abort(r)
  BY <1>4, <1>10 DEF CommitApproval, CommitReject, FinishExecute, CommitRollback, Abort
<1> QED BY <1>3, <1>6, <1>7, <1>8, <1>9, <1>10 DEF Step

\* Done leaves a request that holds nothing.
LEMMA DoneIdles ==
    ASSUME TypeInv, NEW r \in Requests, Done(r)
    PROVE  req'[r].pc = "done"
  BY IdleRequestTyped DEF TypeInv, TypeOK, Done, Request

\* Only the two commits of a decision write decisions, each at most one of the
\* request's own user, and only an approval moves a request towards one.
ApprovalSteps == {"approve", "recorded", "advance"}
Holding       == {"recorded", "advance"}

LEMMA DecisionSteps ==
    ASSUME TypeInv, NEW r \in Requests, Step(r)
    PROVE  \/ CommitApproval(r) \/ CommitReject(r)
           \/ approvals' = approvals /\ RecordApproval(r)
           \/ /\ approvals' = approvals
              /\ req'[r].pc \in ApprovalSteps => 
                   \/ req'[r].pc = req[r].pc /\ req'[r].user = req[r].user
                   \/ req'[r].pc = "approve" /\ req'[r].user # Proposer
<1> DEFINE Q == /\ approvals' = approvals
                /\ req'[r].pc \in ApprovalSteps =>
                     \/ req'[r].pc = req[r].pc /\ req'[r].user = req[r].user
                     \/ req'[r].pc = "approve" /\ req'[r].user # Proposer
<1>0. req \in [Requests -> Request]
  BY DEF TypeInv, TypeOK
<1>1. ASSUME Done(r), approvals' = approvals PROVE Q
  BY <1>1, DoneIdles DEF ApprovalSteps
<1>2. ASSUME NEW u, BeginReject(r, u) \/ BeginExecute(r, u) \/ BeginRollback(r, u) PROVE Q
  <2>1. req'[r].pc \in {"reject", "verdict", "rollback"} /\ approvals' = approvals
    BY <1>0, <1>2, IdleRequestTyped
    DEF BeginReject, BeginExecute, BeginRollback, Begin, Request
  <2> QED BY <2>1 DEF ApprovalSteps
<1>3. ASSUME NEW u, NEW role, BeginApprove(r, u, role) PROVE Q
  <2>1. req'[r].pc = "approve" /\ req'[r].user = u /\ approvals' = approvals
    BY <1>0, <1>3, IdleRequestTyped DEF BeginApprove, Begin, Request
  <2>2. u # Proposer
    BY <1>3 DEF BeginApprove, MayApprove
  <2> QED BY <2>1, <2>2
<1>4. CASE ReadVerdict(r)
  BY <1>0, <1>4 DEF ReadVerdict, ApprovalSteps, Request
<1>5. CASE PassGate(r)
  <2>1. CASE Goto(r, "run")
    BY <1>0, <1>5, <2>1 DEF PassGate, Goto, ApprovalSteps, Request
  <2> QED BY <1>1, <1>5, <2>1 DEF PassGate
<1>6. CASE ContactProvider(r)
  <2>1. CASE Goto(r, "finish") \/ Goto(r, "fail")
    BY <1>0, <1>6, <2>1 DEF ContactProvider, Goto, ApprovalSteps, Request
  <2> QED BY <1>1, <1>6, <2>1 DEF ContactProvider
<1>7. CASE FinishExecute(r) \/ CommitRollback(r) \/ Abort(r)
  BY <1>1, <1>7 DEF FinishExecute, CommitRollback, Abort
<1> QED
  BY <1>2, <1>3, <1>4, <1>5, <1>6, <1>7 DEF Step, Operate, RecordApproval

\* Decisions are only ever added.
LEMMA ApprovalsGrow ==
    ASSUME TypeInv, Next
    PROVE  approvals \subseteq approvals'
<1>1. ASSUME NEW r \in Requests, Step(r) PROVE approvals \subseteq approvals'
  BY <1>1, DecisionSteps DEF CommitApproval, CommitReject
<1> QED BY <1>1, EnvironmentFrame DEF Next

-----------------------------------------------------------------------------
(* Decisions: the invariant says what the requests under way still hold *)

\* Nobody approves their own proposal, in the table or on the way there.
NeverTheProposer ==
    /\ Proposer \notin Approvers
    /\ \A r \in Requests : req[r].pc \in ApprovalSteps => req[r].user # Proposer

\* An uncommitted decision is the only one of its approver.
HeldDecisionsAreNew ==
    \A r \in Requests : req[r].pc \in Holding =>
        /\ ~Decided(req[r].user)
        /\ \A q \in Requests \ {r} : req[q].pc \in Holding => req[q].user # req[r].user

DecisionInv == /\ NeverTheProposer /\ HeldDecisionsAreNew
               /\ OneDecisionPerApprover /\ RowApproverOnRecord

\* Every step of a request keeps the decisions in order: the unique index
\* makes a second decision of one approver wait, and then find the first.
LEMMA DecisionInvStep ==
    ASSUME TypeInv, DecisionInv, NEW r \in Requests, Step(r)
    PROVE  DecisionInv'
<1> USE DEF Holding, ApprovalSteps
<1>0. /\ req \in [Requests -> Request]
      /\ \A q \in Requests \ {r} : req'[q] = req[q]
      /\ row \in Row
  BY StepFrame DEF TypeInv, TypeOK
<1>1. CASE CommitApproval(r)
  <2> DEFINE d == [user |-> req[r].user, decision |-> "approved", role |-> req[r].role]
  <2>1. approvals' = approvals \cup {d} /\ req'[r].pc = "done" /\ req[r].pc \in Holding
    BY <1>1, DoneIdles DEF CommitApproval
  <2>2. req[r].user # Proposer /\ ~Decided(req[r].user)
    BY <2>1 DEF DecisionInv, NeverTheProposer, HeldDecisionsAreNew
  <2>3. Approvers' = Approvers \cup {req[r].user}
    <3>1. Approved' = Approved \cup {d}
      BY <2>1 DEF Approved
    <3>2. d.user = req[r].user
      OBVIOUS
    <3> HIDE DEF d
    <3> QED BY <3>1, <3>2 DEF Approvers
  <2>4. NeverTheProposer'
    BY <1>0, <2>1, <2>2, <2>3 DEF DecisionInv, NeverTheProposer
  <2>5. HeldDecisionsAreNew'
    BY <1>0, <2>1 DEF DecisionInv, HeldDecisionsAreNew, Decided
  <2>6. OneDecisionPerApprover'
    BY <2>1, <2>2 DEF DecisionInv, OneDecisionPerApprover, Decided
  <2>7. RowApproverOnRecord'
    BY <1>0, <1>1, <2>2, <2>3
    DEF CommitApproval, Advanced, DecisionInv, RowApproverOnRecord, Row
  <2> QED BY <2>4, <2>5, <2>6, <2>7 DEF DecisionInv
<1>2. CASE CommitReject(r)
  <2> DEFINE d == [user |-> req[r].user, decision |-> "rejected", role |-> NoRole]
  <2>1. /\ approvals' = approvals \/ (approvals' = approvals \cup {d} /\ ~Decided(req[r].user))
        /\ req'[r].pc = "done"
        /\ \A q \in Requests \ {r} : req[q].pc \in Holding => req[q].user # req[r].user
    BY <1>2, DoneIdles DEF CommitReject, DecisionPending
  <2>2. Approvers' = Approvers
    BY <2>1 DEF Approvers, Approved
  <2>3. NeverTheProposer'
    BY <1>0, <2>1, <2>2 DEF DecisionInv, NeverTheProposer
  <2>4. HeldDecisionsAreNew'
    BY <1>0, <2>1 DEF DecisionInv, HeldDecisionsAreNew, Decided
  <2>5. OneDecisionPerApprover'
    BY <2>1 DEF DecisionInv, OneDecisionPerApprover, Decided
  <2>6. RowApproverOnRecord'
    BY <1>0, <1>2, <2>2 DEF CommitReject, DecisionInv, RowApproverOnRecord, Row
  <2> QED BY <2>3, <2>4, <2>5, <2>6 DEF DecisionInv
<1>3. CASE approvals' = approvals /\ RecordApproval(r)
  <2>1. /\ req[r].pc = "approve" /\ row' = row
        /\ \/ req'[r].pc = "done"
           \/ /\ req'[r].user = req[r].user /\ req'[r].pc \in Holding
              /\ ~Decided(req[r].user)
    BY <1>0, <1>3, DoneIdles DEF RecordApproval, Goto, Request
  <2>2. \A q \in Requests \ {r} : req[q].pc \in Holding => req[q].user # req[r].user
    BY <1>3 DEF RecordApproval, DecisionPending
  <2>3. NeverTheProposer' /\ OneDecisionPerApprover' /\ RowApproverOnRecord'
    BY <1>0, <1>3, <2>1
    DEF DecisionInv, NeverTheProposer, OneDecisionPerApprover, RowApproverOnRecord, Approvers, Approved
  <2>4. HeldDecisionsAreNew'
    BY <1>0, <1>3, <2>1, <2>2 DEF DecisionInv, HeldDecisionsAreNew, Decided
  <2> QED BY <2>3, <2>4 DEF DecisionInv
<1>4. CASE /\ approvals' = approvals
           /\ ~CommitApproval(r) /\ ~CommitReject(r) /\ ~RecordApproval(r)
           /\ req'[r].pc \in ApprovalSteps =>
                \/ req'[r].pc = req[r].pc /\ req'[r].user = req[r].user
                \/ req'[r].pc = "approve" /\ req'[r].user # Proposer
  <2>1. row'.approvedBy = row.approvedBy
    <3>1. ASSUME NEW u \in Users, Operate(r, u) PROVE row' = row
      BY <3>1, OperateTyped
    <3> QED
      BY <1>0, <1>4, <3>1
      DEF Step, ReadVerdict, PassGate, ContactProvider, FinishExecute, CommitRollback, Abort, Row
  <2>2. NeverTheProposer' /\ OneDecisionPerApprover' /\ RowApproverOnRecord'
    BY <1>0, <1>4, <2>1
    DEF DecisionInv, NeverTheProposer, OneDecisionPerApprover, RowApproverOnRecord, Approvers, Approved
  <2>3. HeldDecisionsAreNew'
    BY <1>0, <1>4 DEF DecisionInv, HeldDecisionsAreNew, Decided
  <2> QED BY <2>2, <2>3 DEF DecisionInv
<1> QED BY <1>1, <1>2, <1>3, <1>4, DecisionSteps

-----------------------------------------------------------------------------
(* Executions: what a request still knows of the row it read *)

Executing  == {"verdict", "gate", "run", "finish", "fail"}
Authorized == {"run", "finish", "fail"}

\* How a request comes to be, or stays, in the middle of an execution.
ExecutionStep(r) ==
    \/ \E u \in Users :
         /\ req[r].pc = "idle" /\ BeginExecute(r, u)
         /\ req'[r].pc = "verdict" /\ req'[r].user = u /\ req'[r].snap = row
    \/ /\ req[r].pc \in Executing
       /\ req'[r].user = req[r].user /\ req'[r].snap = req[r].snap
       /\ \/ req'[r] = req[r]
          \/ /\ req[r].pc = "verdict" /\ req'[r].pc = "gate"
             /\ req'[r].verdict = evaluation /\ UNCHANGED world
          \/ /\ req[r].pc = "gate" /\ req'[r].pc = "run"
             /\ req'[r].verdict = req[r].verdict
             /\ GateAuthorizes(req[r].snap, req[r].verdict)
          \/ /\ req[r].pc = "run" /\ req'[r].pc \in {"finish", "fail"}
             /\ req'[r].verdict = req[r].verdict

\* Between two states an execution begins, stays, reads the verdict, passes
\* the gate or contacts the provider; what it read of the row does not change.
LEMMA ExecutionSteps ==
    ASSUME TypeInv, Next, NEW r \in Requests, req'[r].pc \in Executing
    PROVE  ExecutionStep(r)
<1> USE DEF Executing
<1>0. req \in [Requests -> Request]
  BY DEF TypeInv, TypeOK
<1>1. CASE req'[r] = req[r]
  BY <1>1 DEF ExecutionStep
<1>2. ASSUME Step(r), req'[r] # req[r] PROVE ExecutionStep(r)
  <2>1. ASSUME Done(r) PROVE FALSE
    BY <2>1, DoneIdles
  <2>2. ASSUME NEW u \in Users, BeginExecute(r, u) PROVE ExecutionStep(r)
    <3> DEFINE q == [IdleRequest EXCEPT !.pc = "verdict", !.user = u, !.snap = row]
    <3>0. req[r].pc = "idle" /\ req' = [req EXCEPT ![r] = q]
      BY <2>2 DEF BeginExecute, Begin
    <3>2. q.pc = "verdict" /\ q.user = u /\ q.snap = row
      BY IdleRequestTyped DEF Request
    <3> HIDE DEF q
    <3>1. req[r].pc = "idle" /\ req'[r].pc = "verdict" /\ req'[r].user = u /\ req'[r].snap = row
      BY <1>0, <3>0, <3>2
    <3> QED BY <2>2, <3>1 DEF ExecutionStep
  <2>3. ASSUME NEW u, BeginReject(r, u) \/ BeginRollback(r, u) PROVE FALSE
    <3>1. ASSUME BeginReject(r, u) PROVE FALSE
      BY <1>0, <3>1, IdleRequestTyped DEF BeginReject, Begin, Request
    <3>2. ASSUME BeginRollback(r, u) PROVE FALSE
      BY <1>0, <3>2, IdleRequestTyped DEF BeginRollback, Begin, Request
    <3> QED BY <2>3, <3>1, <3>2
  <2>4. ASSUME NEW u, NEW role, BeginApprove(r, u, role) PROVE FALSE
    BY <1>0, <2>4, IdleRequestTyped DEF BeginApprove, Begin, Request
  <2>5. CASE RecordApproval(r)
    BY <1>0, <2>1, <2>5 DEF RecordApproval, Goto, Request
  <2>6. CASE ReadVerdict(r)
    BY <1>0, <2>6 DEF ReadVerdict, ExecutionStep, Request
  <2>7. CASE PassGate(r)
    <3>1. GateAuthorizes(req[r].snap, req[r].verdict) /\ Goto(r, "run") /\ req[r].pc = "gate"
      BY <2>1, <2>7 DEF PassGate
    <3> QED BY <1>0, <3>1 DEF Goto, ExecutionStep, Request
  <2>8. CASE ContactProvider(r)
    <3>1. req[r].pc = "run" /\ (Goto(r, "finish") \/ Goto(r, "fail"))
      BY <2>1, <2>8 DEF ContactProvider
    <3> QED BY <1>0, <3>1 DEF Goto, ExecutionStep, Request
  <2>9. CASE CommitApproval(r) \/ CommitReject(r) \/ FinishExecute(r) \/ CommitRollback(r) \/ Abort(r)
    BY <2>1, <2>9 DEF CommitApproval, CommitReject, FinishExecute, CommitRollback, Abort
  <2> QED BY <1>2, <2>2, <2>3, <2>4, <2>5, <2>6, <2>7, <2>8, <2>9 DEF Step, Operate
<1>3. ASSUME Environment PROVE req'[r] = req[r]
  BY <1>3, EnvironmentFrame
<1>4. ASSUME NEW q \in Requests, q # r, Step(q) PROVE req'[r] = req[r]
  BY <1>4, StepFrame
<1> QED BY <1>1, <1>2, <1>3, <1>4 DEF Next

\* A run that is new belongs to a request that had passed the gate.
LEMMA NewRuns ==
    ASSUME Next, NEW x \in runs', x \notin runs
    PROVE  \E r \in Requests : req[r].pc = "run" /\ x = RunOf(r)
<1>1. ASSUME Environment PROVE FALSE
  BY <1>1, EnvironmentFrame
<1>2. ASSUME NEW r \in Requests, Step(r)
      PROVE  req[r].pc = "run" /\ x = RunOf(r)
  <2>1. ASSUME NEW u \in Users, Operate(r, u) PROVE runs' = runs
    BY <2>1 DEF Operate, BeginApprove, BeginReject, BeginExecute, BeginRollback, Begin
  <2> QED
    BY <1>2, <2>1 DEF Step, RecordApproval, CommitApproval, CommitReject, ReadVerdict,
        PassGate, ContactProvider, FinishExecute, CommitRollback, Abort
<1> QED BY <1>1, <1>2 DEF Next

-----------------------------------------------------------------------------
(* Who released a run, and with what quorum *)

Released(roles) == /\ roles \subseteq SatisfiedRoles
                   /\ Cardinality(Approvers) >= GateQuorum(roles)

\* The approver in the row a request read is on record, and for a live action
\* is neither the proposer nor the executor.
SnapshotApproved ==
    \A r \in Requests : req[r].pc \in Executing =>
        /\ req[r].snap.approvedBy # NoUser => req[r].snap.approvedBy \in Approvers
        /\ req[r].snap.mode = "live" =>
               req[r].snap.approvedBy \in Approvers \ {Proposer, req[r].user}

AuthorizedIsReleased ==
    \A r \in Requests : req[r].pc \in Authorized =>
        Released(RequiredRoles(req[r].verdict))

ReleaseInv == /\ SnapshotApproved /\ AuthorizedIsReleased
              /\ SeparationOfDuties /\ QuorumBacked

\* The distinct approvers are members, so they can be counted.
LEMMA ApproversFinite ==
    ASSUME TypeInv
    PROVE  Approvers \subseteq Users /\ IsFiniteSet(Approvers) /\ Cardinality(Approvers) \in Nat
<1>1. Approvers \subseteq Users
  BY DEF TypeInv, TypeOK, Approvers, Approved, Approval
<1> QED BY <1>1, BoundsAssumption, FS_Subset, FS_CardinalityType

\* The gate asks for a number, at least one per role it names.
LEMMA GateQuorumNat ==
    ASSUME NEW roles \in SUBSET PolicyRoles
    PROVE  /\ GateQuorum(roles) \in Nat
           /\ GateQuorum(roles) >= Cardinality(roles)
           /\ roles # {} => GateQuorum(roles) > 0
<1>1. IsFiniteSet(roles) /\ Cardinality(roles) \in Nat /\ (roles # {} => Cardinality(roles) # 0)
  BY BoundsAssumption, FS_Subset, FS_CardinalityType, FS_EmptySet
<1> QED BY <1>1, BoundsAssumption DEF GateQuorum

\* A quorum once reached is never lost: decisions are only added.
LEMMA ReleasedPersists ==
    ASSUME TypeInv, TypeInv', Next, NEW roles \in SUBSET PolicyRoles, Released(roles)
    PROVE  Released(roles)'
<1>1. Approvers \subseteq Approvers' /\ SatisfiedRoles \subseteq SatisfiedRoles'
  BY ApprovalsGrow DEF Approvers, SatisfiedRoles, Approved
<1>2. IsFiniteSet(Approvers') /\ Cardinality(Approvers') \in Nat
  <2>1. Approvers' \subseteq Users
    BY DEF TypeInv, TypeOK, Approvers, Approved, Approval
  <2> QED BY <2>1, BoundsAssumption, FS_Subset, FS_CardinalityType
<1>3. Cardinality(Approvers) <= Cardinality(Approvers')
  BY <1>1, <1>2, FS_Subset
<1>4. Cardinality(Approvers) \in Nat /\ GateQuorum(roles) \in Nat /\ GateQuorum(roles)' = GateQuorum(roles)
  BY ApproversFinite, GateQuorumNat DEF GateQuorum
<1> QED BY <1>1, <1>2, <1>3, <1>4 DEF Released

\* The gate authorizes nothing without the quorum.
LEMMA GateReleases ==
    ASSUME TypeInv, NEW action \in Row, NEW e, GateAuthorizes(action, e),
           action.approvedBy # NoUser => action.approvedBy \in Approvers
    PROVE  Released(RequiredRoles(e))
<1> DEFINE roles == RequiredRoles(e)
<1>1. roles \in SUBSET PolicyRoles
  BY DEF RequiredRoles
<1>2. roles \subseteq SatisfiedRoles /\ QuorumMet(action, roles)
  BY DEF GateAuthorizes, QuorumMet
<1>3. Cardinality(Approvers) \in Nat /\ GateQuorum(roles) \in Nat
  BY <1>1, ApproversFinite, GateQuorumNat
<1>4. CASE GateQuorum(roles) = 0
  BY <1>2, <1>3, <1>4 DEF Released
<1>5. CASE approvals # {} /\ Cardinality(Approvers) >= GateQuorum(roles)
  BY <1>2, <1>5 DEF Released
<1>6. CASE approvals = {} /\ ApprovalStatus(action) \in {"not_required", "approved"}
  <2>1. Approvers = {} /\ SatisfiedRoles = {}
    BY <1>6 DEF Approvers, SatisfiedRoles, Approved
  <2>2. ~RequiresApproval /\ roles = {}
    BY <1>2, <1>6, <2>1 DEF ApprovalStatus
  <2>3. GateQuorum(roles) = 0
    BY <2>2, FS_EmptySet DEF GateQuorum
  <2> QED BY <1>4, <2>3
<1> QED BY <1>2, <1>4, <1>5, <1>6 DEF QuorumMet

\* Every step keeps who released what in order.
LEMMA ReleaseInvStep ==
    ASSUME TypeInv, TypeInv', DecisionInv, DecisionInv', ReleaseInv, Next
    PROVE  ReleaseInv'
<1>1. Approvers \subseteq Approvers'
  BY ApprovalsGrow DEF Approvers, Approved
<1>2. SnapshotApproved'
  <2> SUFFICES ASSUME NEW r \in Requests, req'[r].pc \in Executing
               PROVE  /\ req'[r].snap.approvedBy # NoUser => req'[r].snap.approvedBy \in Approvers'
                      /\ req'[r].snap.mode = "live" =>
                           req'[r].snap.approvedBy \in Approvers' \ {Proposer, req'[r].user}
    BY DEF SnapshotApproved
  <2>1. ExecutionStep(r)
    BY ExecutionSteps
  <2>2. ASSUME NEW u \in Users, BeginExecute(r, u), req'[r].user = u, req'[r].snap = row
        PROVE  /\ row.approvedBy # NoUser => row.approvedBy \in Approvers
               /\ row.mode = "live" => row.approvedBy \in Approvers \ {Proposer, u}
    <3>1. row.mode = "live" => row.approvedBy \in admins \ {Proposer, u}
      BY <2>2 DEF BeginExecute, ApproverReleases
    <3>2. admins \subseteq Users /\ NoUser \notin Users
      BY UsersAssumption DEF TypeInv, TypeOK
    <3> QED BY <3>1, <3>2 DEF DecisionInv, RowApproverOnRecord
  <2> QED BY <1>1, <2>1, <2>2 DEF ExecutionStep, ReleaseInv, SnapshotApproved
<1>3. AuthorizedIsReleased'
  <2> SUFFICES ASSUME NEW r \in Requests, req'[r].pc \in Authorized
               PROVE  Released(RequiredRoles(req[r].verdict))'
    BY DEF AuthorizedIsReleased
  <2>1. ExecutionStep(r) /\ req'[r].pc \notin {"verdict", "gate"}
    BY ExecutionSteps DEF Authorized, Executing
  <2>2. Released(RequiredRoles(req'[r].verdict))
    <3>1. CASE req[r].pc \in Authorized /\ req'[r].verdict = req[r].verdict
      BY <3>1 DEF ReleaseInv, AuthorizedIsReleased
    <3>2. CASE /\ req[r].pc = "gate" /\ req'[r].verdict = req[r].verdict
               /\ GateAuthorizes(req[r].snap, req[r].verdict)
      <4>1. req[r].snap \in Row
        BY DEF TypeInv, TypeOK, Request
      <4>2. req[r].snap.approvedBy # NoUser => req[r].snap.approvedBy \in Approvers
        BY <3>2 DEF ReleaseInv, SnapshotApproved, Executing
      <4> QED BY <3>2, <4>1, <4>2, GateReleases
    <3> QED BY <2>1, <3>1, <3>2 DEF ExecutionStep, Authorized, Executing
  <2>3. PICK roles \in SUBSET PolicyRoles : roles = RequiredRoles(req'[r].verdict)
    BY DEF RequiredRoles
  <2>4. Released(roles)'
    BY <2>2, <2>3, ReleasedPersists
  <2> QED BY <2>3, <2>4 DEF Released, RequiredRoles, Adopted, NoEvaluation
<1>4. ASSUME NEW x \in runs', x \notin runs
      PROVE  /\ x.mode = "live" => x.approver \in Approvers \ {Proposer, x.executor}
             /\ Released(x.roles) /\ x.roles \in SUBSET PolicyRoles
  <2>1. PICK r \in Requests : req[r].pc = "run" /\ x = RunOf(r)
    BY <1>4, NewRuns
  <2> QED BY <2>1 DEF RunOf, ReleaseInv, SnapshotApproved, AuthorizedIsReleased,
                      Executing, Authorized, RequiredRoles
<1>5. SeparationOfDuties'
  BY <1>1, <1>4 DEF ReleaseInv, SeparationOfDuties
<1>6. QuorumBacked'
  <2> SUFFICES ASSUME NEW x \in runs'
               PROVE  Released(x.roles)' /\ Proposer \notin Approvers'
    BY DEF QuorumBacked, Released
  <2>1. Released(x.roles)
    BY <1>4 DEF ReleaseInv, QuorumBacked, Released
  <2>2. x.roles \in SUBSET PolicyRoles
    BY <1>4 DEF TypeInv, TypeOK, Run
  <2> QED BY <2>1, <2>2, ReleasedPersists DEF DecisionInv, NeverTheProposer
<1> QED BY <1>2, <1>3, <1>5, <1>6 DEF ReleaseInv

-----------------------------------------------------------------------------
(* Standing stops *)

RowStops == {"executed", "canceled", "rejected", "rolled_back"}

\* What has stood since a request began stands now.
StandingStopsStand == \A r \in Requests : stops[r] \subseteq StopsNow

\* What a request knows of the stops that stand against it.
StopsWereRead ==
    \A r \in Requests : req[r].pc \in Executing =>
        /\ stops[r] \cap RowStops \subseteq StopsOf(req[r].snap)
        /\ "plan_locked" \notin stops[r]
        /\ req[r].pc # "verdict" /\ "denied" \in stops[r] => req[r].verdict.decision = "DENY"

AuthorizedHasNoStop ==
    \A r \in Requests : req[r].pc \in Authorized => stops[r] = {}

StopInv == /\ StandingStopsStand /\ StopsWereRead
           /\ AuthorizedHasNoStop /\ HonoursStandingStops

\* A request begins without disturbing anything.
LEMMA BeginningsDisturbNothing ==
    ASSUME TypeInv, Next, NEW r \in Requests, req[r].pc = "idle",
           req'[r].pc \notin {"idle", "done"}
    PROVE  UNCHANGED <<row, world>>
<1>1. ASSUME Environment PROVE FALSE
  BY <1>1, EnvironmentFrame
<1>2. ASSUME NEW q \in Requests, q # r, Step(q) PROVE FALSE
  BY <1>2, StepFrame
<1>3. ASSUME Step(r) PROVE \E u \in Users : Operate(r, u)
  BY <1>3 DEF Step, RecordApproval, CommitApproval, CommitReject, ReadVerdict, PassGate,
              ContactProvider, FinishExecute, CommitRollback, Abort
<1> QED BY <1>1, <1>2, <1>3, OperateTyped DEF Next

\* The stops recorded for a request never grow once it is under way.
LEMMA TrackedStops ==
    ASSUME TypeInv, Next, NEW r \in Requests
    PROVE  /\ req'[r].pc \in {"idle", "done"} => stops'[r] = {}
           /\ req'[r].pc \notin {"idle", "done"} /\ req[r].pc = "idle" => stops'[r] = StopsNow
           /\ req'[r].pc \notin {"idle", "done"} /\ req[r].pc # "idle" =>
                  stops'[r] = stops[r] \cap StopsNow'
  BY DEF Next, TrackStops

\* The gate authorizes nothing that the row it was shown, the verdict it was
\* shown or the incident forbids.
LEMMA GateHonoursStops ==
    ASSUME TypeInv, NEW action \in Row, NEW e \in Evaluation, GateAuthorizes(action, e)
    PROVE  /\ StopsOf(action) = {}
           /\ e.decision # "DENY"
           /\ incidentOpen
<1>1. ~Over(action) /\ PolicySatisfied(e) /\ incidentOpen
  BY DEF GateAuthorizes
<1>2. StopsOf(action) = {}
  BY <1>1 DEF Over, Executed, ApprovalStatus, StopsOf
<1>3. e.decision # "DENY"
  BY <1>1 DEF PolicySatisfied
<1> QED BY <1>1, <1>2, <1>3

\* Every step keeps what is known of the standing stops: the row's were read
\* with the row, the plan's at the start, the verdict's and the incident's later.
LEMMA StopInvStep ==
    ASSUME TypeInv, TypeInv', StopInv, Next
    PROVE  StopInv'
<1>1. StandingStopsStand'
  <2> SUFFICES ASSUME NEW r \in Requests PROVE stops'[r] \subseteq StopsNow'
    BY DEF StandingStopsStand
  <2>1. ASSUME req[r].pc = "idle", req'[r].pc \notin {"idle", "done"} PROVE StopsNow' = StopsNow
    <3>1. UNCHANGED <<row, world>>
      BY <2>1, BeginningsDisturbNothing
    <3> QED BY <3>1 DEF world, StopsNow, StopsOf
  <2> QED BY <2>1, TrackedStops
<1>2. ASSUME NEW r \in Requests, req'[r].pc \in Executing
      PROVE  /\ stops'[r] \cap RowStops \subseteq StopsOf(req'[r].snap)
             /\ "plan_locked" \notin stops'[r]
             /\ req'[r].pc # "verdict" /\ "denied" \in stops'[r] => req'[r].verdict.decision = "DENY"
             /\ req'[r].pc \in Authorized => stops'[r] = {}
  <2>0. ExecutionStep(r) /\ req'[r].pc \notin {"idle", "done"}
    BY <1>2, ExecutionSteps DEF Executing
  <2>1. CASE req[r].pc = "idle"
    <3>1. PICK u \in Users : BeginExecute(r, u) /\ req'[r].pc = "verdict" /\ req'[r].snap = row
      BY <2>0, <2>1 DEF ExecutionStep, Executing
    <3>2. stops'[r] = StopsNow
      BY <2>0, <2>1, TrackedStops
    <3>3. ~(planLocked /\ row.mode = "live")
      BY <3>1 DEF BeginExecute
    <3> QED BY <3>1, <3>2, <3>3 DEF StopsNow, StopsOf, RowStops, Authorized
  <2>2. CASE req[r].pc \in Executing
    <3>1. stops'[r] = stops[r] \cap StopsNow' /\ req'[r].snap = req[r].snap
      BY <2>0, <2>2, TrackedStops DEF ExecutionStep, BeginExecute, Executing
    <3>2. /\ stops[r] \cap RowStops \subseteq StopsOf(req[r].snap)
          /\ "plan_locked" \notin stops[r]
          /\ req[r].pc # "verdict" /\ "denied" \in stops[r] => req[r].verdict.decision = "DENY"
          /\ req[r].pc \in Authorized => stops[r] = {}
          /\ stops[r] \subseteq StopsNow
      BY <2>2 DEF StopInv, StandingStopsStand, StopsWereRead, AuthorizedHasNoStop
    <3>3. CASE req[r].pc = "verdict" /\ req'[r].verdict = evaluation /\ UNCHANGED world /\ req'[r].pc = "gate"
      BY <3>1, <3>2, <3>3 DEF StopsNow, StopsOf, world, Authorized
    <3>4. CASE /\ req[r].pc = "gate" /\ req'[r].pc = "run" /\ req'[r].verdict = req[r].verdict
               /\ GateAuthorizes(req[r].snap, req[r].verdict)
      <4>1. req[r].snap \in Row /\ req[r].verdict \in Evaluation
        BY DEF TypeInv, TypeOK, Request
      <4>2. StopsOf(req[r].snap) = {} /\ req[r].verdict.decision # "DENY" /\ incidentOpen
        BY <3>4, <4>1, GateHonoursStops
      <4>3. "incident_closed" \notin stops[r]
        BY <3>2, <4>2 DEF StopsNow, StopsOf
      <4>4. stops[r] \subseteq Stops
        BY DEF TypeInv, TypeOK
      <4>5. stops[r] = {}
        BY <3>2, <3>4, <4>2, <4>3, <4>4 DEF RowStops, Stops
      <4> QED BY <3>1, <3>2, <4>5
    <3>5. CASE req'[r] = req[r]
      BY <3>1, <3>2, <3>5
    <3>6. CASE req[r].pc = "run" /\ req'[r].pc \in {"finish", "fail"}
      BY <3>1, <3>2, <3>6 DEF Authorized
    <3> QED BY <2>0, <2>2, <3>3, <3>4, <3>5, <3>6 DEF ExecutionStep, Executing
  <2> QED BY <2>0, <2>1, <2>2 DEF ExecutionStep
<1>3. StopsWereRead' /\ AuthorizedHasNoStop'
  BY <1>2 DEF StopsWereRead, AuthorizedHasNoStop, Executing, Authorized
<1>4. HonoursStandingStops'
  <2> SUFFICES ASSUME NEW x \in runs' PROVE x.stops = {}
    BY DEF HonoursStandingStops
  <2>1. CASE x \in runs
    BY <2>1 DEF StopInv, HonoursStandingStops
  <2>2. CASE x \notin runs
    <3>1. PICK r \in Requests : req[r].pc = "run" /\ x = RunOf(r)
      BY <2>2, NewRuns
    <3> QED BY <3>1 DEF RunOf, StopInv, AuthorizedHasNoStop, Authorized
  <2> QED BY <2>1, <2>2
<1> QED BY <1>1, <1>3, <1>4 DEF StopInv

-----------------------------------------------------------------------------
(* The inductive invariant, and what follows from it *)

IInv == TypeInv /\ DecisionInv /\ ReleaseInv /\ StopInv

\* The invariant holds of a row just created.
LEMMA InitInvariant == Init => IInv
<1> SUFFICES ASSUME Init PROVE IInv
  OBVIOUS
<1>1. TypeInv
  BY InitTyped
<1>2. \A r \in Requests : req[r].pc = "idle" /\ stops[r] = {}
  BY IdleRequestTyped DEF Init
<1>3. row.approvedBy = NoUser /\ Approvers = {} /\ approvals = {} /\ runs = {}
  BY DEF Init, Approvers, Approved
<1>4. DecisionInv
  BY <1>2, <1>3 DEF DecisionInv, NeverTheProposer, HeldDecisionsAreNew, ApprovalSteps, Holding,
                    OneDecisionPerApprover, RowApproverOnRecord
<1>5. ReleaseInv
  BY <1>2, <1>3 DEF ReleaseInv, SnapshotApproved, AuthorizedIsReleased, Executing, Authorized,
                    SeparationOfDuties, QuorumBacked
<1>6. StopInv
  BY <1>2, <1>3 DEF StopInv, StandingStopsStand, StopsWereRead, AuthorizedHasNoStop,
                    Executing, Authorized, HonoursStandingStops
<1> QED BY <1>1, <1>4, <1>5, <1>6 DEF IInv

\* Every step keeps the invariant.
LEMMA InvariantKept == IInv /\ [Next]_vars => IInv'
<1> SUFFICES ASSUME IInv, [Next]_vars PROVE IInv'
  OBVIOUS
<1>1. TypeInv'
  BY TypeInvStep DEF IInv
<1>2. CASE Next
  <2>1. DecisionInv'
    <3>1. ASSUME NEW r \in Requests, Step(r) PROVE DecisionInv'
      BY <3>1, DecisionInvStep DEF IInv
    <3>2. ASSUME Environment PROVE DecisionInv'
      <4>1. UNCHANGED <<approvals, req>> /\ row'.approvedBy = row.approvedBy
        BY <3>2, EnvironmentFrame DEF IInv, TypeInv, TypeOK, Row
      <4> QED
        BY <4>1 DEF IInv, DecisionInv, NeverTheProposer, HeldDecisionsAreNew, ApprovalSteps,
            Holding, OneDecisionPerApprover, RowApproverOnRecord, Approvers, Approved, Decided
    <3> QED BY <1>2, <3>1, <3>2 DEF Next
  <2>2. ReleaseInv' /\ StopInv'
    BY <1>1, <1>2, <2>1, ReleaseInvStep, StopInvStep DEF IInv
  <2> QED BY <1>1, <2>1, <2>2 DEF IInv
<1>3. CASE UNCHANGED vars
  <2>1. DecisionInv'
    BY <1>3 DEF vars, IInv, DecisionInv, NeverTheProposer, HeldDecisionsAreNew,
        OneDecisionPerApprover, RowApproverOnRecord, Approvers, Approved, Decided
  <2>2. ReleaseInv'
    BY <1>3 DEF vars, IInv, ReleaseInv, SnapshotApproved, AuthorizedIsReleased, Released,
        SeparationOfDuties, QuorumBacked, Approvers, SatisfiedRoles, Approved,
        GateQuorum, RequiredRoles, Adopted
  <2>3. StopInv'
    BY <1>3 DEF vars, IInv, StopInv, StandingStopsStand, StopsNow, StopsOf, StopsWereRead,
        AuthorizedHasNoStop, HonoursStandingStops
  <2> QED BY <1>1, <2>1, <2>2, <2>3 DEF IInv
<1> QED BY <1>2, <1>3

\* The invariant holds of every reachable state.
LEMMA Invariance == Spec => []IInv
  BY InitInvariant, InvariantKept, PTL DEF Spec

\* One person decides an action at most once, however their requests interleave
\* (uq_response_action_approvals_decision, _record_action_approval_decision).
THEOREM DecidesOnce == Spec => []OneDecisionPerApprover
<1>1. IInv => OneDecisionPerApprover
  BY DEF IInv, DecisionInv
<1> QED BY <1>1, Invariance, PTL

\* The approver approve_enforcement_action leaves on the row has an approval on
\* record and is never the proposer.
THEOREM ApproverOnRecord == Spec => []RowApproverOnRecord
<1>1. IInv => RowApproverOnRecord
  BY DEF IInv, DecisionInv
<1> QED BY <1>1, Invariance, PTL

\* No live run is approved by its proposer or by the one who executes it
\* (execute_enforcement_action), whatever is approved or demoted meanwhile.
THEOREM DutiesSeparated == Spec => []SeparationOfDuties
<1>1. IInv => SeparationOfDuties
  BY DEF IInv, ReleaseInv
<1> QED BY <1>1, Invariance, PTL

\* Nothing runs without the roles and the number of approvers evaluate_gate
\* demands: the decisions that met the quorum at the gate are never taken back.
THEOREM QuorumStandsBehindRuns == Spec => []QuorumBacked
<1>1. IInv => QuorumBacked
  BY DEF IInv, ReleaseInv
<1> QED BY <1>1, Invariance, PTL

\* A stop that stands throughout an execution request keeps it from running
\* (execute_enforcement_action, evaluate_gate).
THEOREM StandingStopsHold == Spec => []HonoursStandingStops
<1>1. IInv => HonoursStandingStops
  BY DEF IInv, StopInv
<1> QED BY <1>1, Invariance, PTL

\* A rolled-back action and its compensating action come in one commit, and
\* nothing takes either of them back (rollback_enforcement_action).
THEOREM RollbacksCompensated == Spec => []RollbackCompensated
<1> DEFINE J == TypeInv /\ RollbackCompensated
<1>1. Init => J
  BY InitTyped DEF Init, RollbackCompensated
<1>2. J /\ [Next]_vars => J'
  <2> SUFFICES ASSUME J, [Next]_vars PROVE RollbackCompensated'
    BY TypeInvStep
  <2>0. row \in Row /\ compensations \in Nat
    BY DEF TypeInv, TypeOK
  <2>1. ASSUME row'.rolledBack = row.rolledBack, compensations' = compensations
        PROVE  RollbackCompensated'
    BY <2>1 DEF RollbackCompensated
  <2>2. CASE Environment
    BY <2>0, <2>1, <2>2, EnvironmentFrame DEF Row
  <2>3. ASSUME NEW r \in Requests, Step(r), ~CommitRollback(r)
        PROVE  row'.rolledBack = row.rolledBack /\ compensations' = compensations
    <3>1. ASSUME NEW u \in Users, Operate(r, u) PROVE UNCHANGED <<row, compensations>>
      BY <3>1, OperateTyped
    <3> QED
      BY <2>0, <2>3, <3>1 DEF Step, RecordApproval, CommitApproval, Advanced, CommitReject,
          ReadVerdict, PassGate, ContactProvider, FinishExecute, Abort, Row
  <2>4. ASSUME NEW r \in Requests, CommitRollback(r) PROVE RollbackCompensated'
    BY <2>0, <2>4 DEF CommitRollback, RollbackCompensated, Row
  <2>5. CASE UNCHANGED vars
    BY <2>1, <2>5 DEF vars
  <2> QED BY <2>1, <2>2, <2>3, <2>4, <2>5 DEF Next
<1>3. J => RollbackCompensated
  OBVIOUS
<1> QED BY <1>1, <1>2, <1>3, PTL DEF Spec

\* Where a single approval is enough, an approver is on the row before, and as long
\* as, an approval is on record, and none is recorded without advancing the row.
NamedFromTheFirst ==
    /\ \A a \in approvals : a.decision = "approved" => row.approvedBy # NoUser
    /\ \A r \in Requests : req[r].pc # "recorded"

LEMMA NamedStep ==
    ASSUME RequiredQuorum = 1, TypeInv, NamedFromTheFirst, NEW r \in Requests, Step(r)
    PROVE  NamedFromTheFirst'
<1>0. /\ row \in Row /\ req \in [Requests -> Request] /\ req' \in [Requests -> Request]
      /\ \A q \in Requests \ {r} : req'[q] = req[q]
  <2>1. ReqsTyped'
    BY StepTyped
  <2> QED BY <2>1, StepFrame DEF TypeInv, TypeOK, ReqsTyped
<1>1. ASSUME row'.approvedBy = row.approvedBy, approvals' = approvals,
             req'[r].pc # "recorded"
      PROVE  NamedFromTheFirst'
  BY <1>0, <1>1 DEF NamedFromTheFirst
<1>2. ASSUME NEW pc, Goto(r, pc) PROVE req'[r].pc = pc
  BY <1>0, <1>2 DEF Goto, Request
<1>3. ASSUME Done(r) PROVE req'[r].pc # "recorded"
  BY <1>3, DoneIdles
<1>4. ASSUME NEW u \in Users, Operate(r, u) PROVE NamedFromTheFirst'
  <2>1. UNCHANGED <<row, approvals>>
    BY <1>4, OperateTyped
  <2>2. ASSUME NEW role, BeginApprove(r, u, role) PROVE req'[r].pc = "approve"
    BY <1>0, <2>2, IdleRequestTyped DEF BeginApprove, Begin, Request
  <2>3. ASSUME BeginReject(r, u) \/ BeginExecute(r, u) \/ BeginRollback(r, u)
        PROVE  req'[r].pc \in {"reject", "verdict", "rollback"}
    <3> DEFINE Moves == \E q : /\ req' = [req EXCEPT ![r] = q]
                               /\ q.pc \in {"reject", "verdict", "rollback"}
    <3>1. Moves
      <4>1. ASSUME BeginReject(r, u) PROVE Moves
        <5>1. [IdleRequest EXCEPT !.pc = "reject", !.user = u].pc = "reject"
          BY IdleRequestTyped DEF Request
        <5> QED BY <4>1, <5>1 DEF BeginReject, Begin
      <4>2. ASSUME BeginExecute(r, u) PROVE Moves
        <5>1. [IdleRequest EXCEPT !.pc = "verdict", !.user = u, !.snap = row].pc = "verdict"
          BY IdleRequestTyped DEF Request
        <5> QED BY <4>2, <5>1 DEF BeginExecute, Begin
      <4>3. ASSUME BeginRollback(r, u) PROVE Moves
        <5>1. [IdleRequest EXCEPT !.pc = "rollback", !.user = u].pc = "rollback"
          BY IdleRequestTyped DEF Request
        <5> QED BY <4>3, <5>1 DEF BeginRollback, Begin
      <4> QED BY <2>3, <4>1, <4>2, <4>3
    <3> QED BY <1>0, <3>1
  <2>4. req'[r].pc # "recorded"
    BY <1>4, <2>2, <2>3 DEF Operate
  <2> QED BY <2>1, <2>4, <1>1
<1>5. CASE RecordApproval(r)
  <2>1. ~(Cardinality(Approvers) + 1 < RequiredQuorum)
    <3>1. Cardinality(Approvers) \in Nat
      BY ApproversFinite
    <3> QED BY <3>1
  <2>2. req'[r].pc # "recorded"
    BY <1>2, <1>3, <1>5, <2>1 DEF RecordApproval
  <2> QED BY <1>1, <1>5, <2>2 DEF RecordApproval
<1>6. CASE CommitApproval(r)
  <2>1. req[r].pc = "advance"
    BY <1>6 DEF CommitApproval, NamedFromTheFirst
  <2>2. req[r].user # NoUser
    BY <2>1, UsersAssumption DEF TypeInv, ActiveHasUser
  <2>3. row' = Advanced(req[r].user)
    BY <1>6, <2>1 DEF CommitApproval
  <2>4. row'.approvedBy # NoUser
    BY <1>0, <2>2, <2>3 DEF Advanced, Row
  <2>5. req'[r].pc # "recorded"
    BY <1>3, <1>6 DEF CommitApproval
  <2> QED BY <1>0, <2>4, <2>5 DEF NamedFromTheFirst
<1>7. CASE CommitReject(r)
  <2>1. row'.approvedBy = row.approvedBy /\ req'[r].pc # "recorded"
    BY <1>0, <1>3, <1>7 DEF CommitReject, Row
  <2>2. \A a \in approvals' : a.decision = "approved" => a \in approvals
    BY <1>7 DEF CommitReject
  <2> QED BY <1>0, <2>1, <2>2 DEF NamedFromTheFirst
<1>8. CASE FinishExecute(r)
  <2>1. row'.approvedBy = row.approvedBy /\ approvals' = approvals
    BY <1>0, <1>8 DEF FinishExecute, Row
  <2> QED BY <1>1, <1>3, <1>8, <2>1 DEF FinishExecute
<1>9. CASE CommitRollback(r)
  <2>1. row'.approvedBy = row.approvedBy /\ approvals' = approvals
    BY <1>0, <1>9 DEF CommitRollback, Row
  <2> QED BY <1>1, <1>3, <1>9, <2>1 DEF CommitRollback
<1>10. CASE ReadVerdict(r)
  <2>1. req'[r].pc = "gate"
    BY <1>0, <1>10 DEF ReadVerdict, Request
  <2> QED BY <1>1, <1>10, <2>1 DEF ReadVerdict
<1>11. CASE PassGate(r) \/ ContactProvider(r) \/ Abort(r)
  <2>1. req'[r].pc # "recorded"
    BY <1>2, <1>3, <1>11 DEF PassGate, ContactProvider, Abort
  <2> QED BY <1>1, <1>11, <2>1 DEF PassGate, ContactProvider, Abort
<1> QED BY <1>4, <1>5, <1>6, <1>7, <1>8, <1>9, <1>10, <1>11 DEF Step

\* Where one approval is enough, as it is wherever the product sets a quorum, two
\* overlapping approvals never leave an approved action without an approver
\* (approve_enforcement_action counts committed decisions and its own).
THEOREM SingleApprovalIsRecorded ==
    RequiredQuorum = 1 => (Spec => []QuorumReachedIsRecorded)
<1> SUFFICES ASSUME RequiredQuorum = 1 PROVE Spec => []QuorumReachedIsRecorded
  OBVIOUS
<1> DEFINE J == TypeInv /\ NamedFromTheFirst
<1>1. Init => J
  BY InitTyped, IdleRequestTyped DEF Init, NamedFromTheFirst
<1>2. J /\ [Next]_vars => J'
  <2> SUFFICES ASSUME J, [Next]_vars PROVE NamedFromTheFirst'
    BY TypeInvStep
  <2>1. CASE Environment
    BY <2>1, EnvironmentFrame DEF NamedFromTheFirst, TypeInv, TypeOK, Row
  <2>2. CASE UNCHANGED vars
    BY <2>2 DEF NamedFromTheFirst, vars
  <2> QED BY <2>1, <2>2, NamedStep DEF Next
<1>3. J => QuorumReachedIsRecorded
  <2> SUFFICES ASSUME J, Cardinality(Approvers) >= 1 PROVE row.approvedBy # NoUser
    BY DEF QuorumReachedIsRecorded
  <2>1. Approvers # {}
    BY FS_EmptySet
  <2> QED BY <2>1 DEF Approvers, Approved, NamedFromTheFirst
<1> QED BY <1>1, <1>2, <1>3, PTL DEF Spec

-----------------------------------------------------------------------------
(* What reopens a terminal row *)

Terminal == {"executed", "canceled"}
Way      == ApprovalSteps \cup Executing

\* No approval and no execution begins on a terminal row.  The rejections and
\* rollbacks, which may, leave a canceled row.
BeganOpen == \A r \in Requests : req[r].pc \in Way => stops[r] \cap Terminal = {}

\* A request is on its way to an approval because it was already or because it
\* begins now, on a row that is pending or failed.
LEMMA ApprovalsBeginOpen ==
    ASSUME TypeInv, NEW r \in Requests, Step(r), req'[r].pc \in ApprovalSteps
    PROVE  \/ req[r].pc \in ApprovalSteps
           \/ req[r].pc = "idle" /\ row.status \notin Terminal
<1> USE DEF ApprovalSteps
<1>0. req \in [Requests -> Request]
  BY DEF TypeInv, TypeOK
<1>1. ~Done(r)
  BY DoneIdles
<1>2. ASSUME NEW u, NEW role, BeginApprove(r, u, role)
      PROVE  req[r].pc = "idle" /\ row.status \notin Terminal
  BY <1>2 DEF BeginApprove, Begin, Terminal
<1>3. ASSUME NEW u, BeginReject(r, u) PROVE FALSE
  BY <1>0, <1>3, IdleRequestTyped DEF BeginReject, Begin, Request
<1>4. ASSUME NEW u, BeginExecute(r, u) PROVE FALSE
  BY <1>0, <1>4, IdleRequestTyped DEF BeginExecute, Begin, Request
<1>5. ASSUME NEW u, BeginRollback(r, u) PROVE FALSE
  BY <1>0, <1>5, IdleRequestTyped DEF BeginRollback, Begin, Request
<1>6. CASE ReadVerdict(r)
  BY <1>0, <1>6 DEF ReadVerdict, Request
<1>7. CASE PassGate(r)
  BY <1>0, <1>1, <1>7 DEF PassGate, Goto, Request
<1>8. CASE ContactProvider(r)
  <2>1. Goto(r, "finish") \/ Goto(r, "fail")
    BY <1>1, <1>8 DEF ContactProvider
  <2> QED BY <1>0, <2>1 DEF Goto, Request
<1>9. CASE RecordApproval(r)
  BY <1>9 DEF RecordApproval
<1>10. CASE CommitApproval(r) \/ CommitReject(r) \/ FinishExecute(r) \/ CommitRollback(r) \/ Abort(r)
  BY <1>1, <1>10 DEF CommitApproval, CommitReject, FinishExecute, CommitRollback, Abort
<1>11. CASE \E u \in Users : Operate(r, u)
  BY <1>2, <1>3, <1>4, <1>5, <1>11 DEF Operate
<1> QED BY <1>6, <1>7, <1>8, <1>9, <1>10, <1>11 DEF Step

\* The same of both ways, between two states.
LEMMA WaysBeginOpen ==
    ASSUME TypeInv, Next, NEW r \in Requests, req'[r].pc \in Way
    PROVE  req[r].pc \in Way \/ (req[r].pc = "idle" /\ row.status \notin Terminal)
<1>1. CASE req'[r].pc \in Executing
  BY <1>1, ExecutionSteps DEF ExecutionStep, BeginExecute, Way, Terminal
<1>2. CASE req'[r].pc \in ApprovalSteps
  <2>1. ASSUME Step(r)
        PROVE  req[r].pc \in Way \/ (req[r].pc = "idle" /\ row.status \notin Terminal)
    BY <1>2, <2>1, ApprovalsBeginOpen DEF Way
  <2>2. ASSUME NEW q \in Requests, q # r, Step(q) PROVE req'[r] = req[r]
    BY <2>2, StepFrame
  <2>3. ASSUME Environment PROVE req'[r] = req[r]
    BY <2>3, EnvironmentFrame
  <2> QED BY <2>1, <2>2, <2>3 DEF Next
<1> QED BY <1>1, <1>2 DEF Way

\* Every step keeps BeganOpen: the stops of a request only shrink.
LEMMA BeganOpenStep ==
    ASSUME TypeInv, BeganOpen, Next
    PROVE  BeganOpen'
<1> SUFFICES ASSUME NEW r \in Requests, req'[r].pc \in Way PROVE stops'[r] \cap Terminal = {}
  BY DEF BeganOpen, Way, ApprovalSteps, Executing
<1>1. req'[r].pc \notin {"idle", "done"}
  BY DEF Way, ApprovalSteps, Executing
<1>2. CASE req[r].pc = "idle" /\ row.status \notin Terminal
  <2>1. stops'[r] = StopsNow
    BY <1>1, <1>2, TrackedStops
  <2> QED BY <1>2, <2>1 DEF StopsNow, StopsOf, Terminal
<1>3. CASE req[r].pc \in Way
  <2>1. req[r].pc # "idle" /\ stops[r] \cap Terminal = {}
    BY <1>3 DEF BeganOpen, Way, ApprovalSteps, Executing
  <2>2. stops'[r] = stops[r] \cap StopsNow'
    BY <1>1, <2>1, TrackedStops
  <2> QED BY <2>1, <2>2
<1> QED BY <1>2, <1>3, WaysBeginOpen

\* Of all steps, only the closing UPDATE of an approval and that of an
\* execution give a terminal row another status.
LEMMA ReopeningSteps ==
    ASSUME TypeInv, Next, Reopens
    PROVE  \E r \in Requests : /\ req[r].pc \in {"advance", "run", "finish", "fail"}
                               /\ req'[r].pc = "done"
<1>0. row \in Row
  BY DEF TypeInv, TypeOK
<1>1. ASSUME row'.status = row.status PROVE FALSE
  BY <1>1 DEF Reopens
<1>2. ASSUME row'.status = "canceled" PROVE FALSE
  BY <1>2 DEF Reopens
<1>3. ASSUME Environment PROVE FALSE
  <2>1. row' = row \/ Simulate
    BY <1>3 DEF Environment, RecordEvaluation, RecordSiblingEvaluation, PublishPolicy,
                SetIncident, SetPlanLock, Demote
  <2> QED BY <1>0, <1>1, <2>1 DEF Simulate, Row
<1>4. ASSUME NEW r \in Requests, Step(r)
      PROVE  req[r].pc \in {"advance", "run", "finish", "fail"} /\ req'[r].pc = "done"
  <2>1. ASSUME NEW u \in Users, Operate(r, u) PROVE FALSE
    BY <1>1, <2>1, OperateTyped
  <2>2. CASE RecordApproval(r) \/ ReadVerdict(r) \/ PassGate(r) \/ ContactProvider(r) \/ Abort(r)
    BY <1>1, <2>2 DEF RecordApproval, ReadVerdict, PassGate, ContactProvider, Abort
  <2>3. CASE CommitReject(r) \/ CommitRollback(r)
    BY <1>0, <1>2, <2>3 DEF CommitReject, CommitRollback, Row
  <2>4. CASE CommitApproval(r)
    <3>1. req[r].pc = "advance"
      BY <1>1, <2>4 DEF CommitApproval
    <3> QED BY <2>4, <3>1, DoneIdles DEF CommitApproval
  <2>5. CASE FinishExecute(r)
    BY <2>5, DoneIdles DEF FinishExecute
  <2> QED BY <1>4, <2>1, <2>2, <2>3, <2>4, <2>5 DEF Step
<1> QED BY <1>3, <1>4 DEF Next

\* A terminal row is reopened by an approval or an execution that read it before
\* it was terminal (approve_enforcement_action and execute_enforcement_action
\* close with an UPDATE by id) and by nothing else.
THEOREM OnlyTheOvertakenReopen == Spec => OnlyOvertakenReopens
<1> DEFINE J == TypeInv /\ BeganOpen
<1>1. Init => J
  <2> SUFFICES ASSUME Init PROVE BeganOpen
    BY InitTyped
  <2> QED BY DEF Init, BeganOpen
<1>2. J /\ [Next]_vars => J'
  <2> SUFFICES ASSUME J, [Next]_vars PROVE BeganOpen'
    BY TypeInvStep
  <2>1. CASE UNCHANGED vars
    BY <2>1 DEF vars, BeganOpen
  <2> QED BY <2>1, BeganOpenStep
<1>3. J /\ [Next]_vars =>
        [Reopens => \E r \in Requests :
                       /\ req[r].pc \in {"advance", "run", "finish", "fail"}
                       /\ req'[r].pc = "done"
                       /\ row.status \notin stops[r]]_vars
  <2> SUFFICES ASSUME J, Next, Reopens
               PROVE  \E r \in Requests :
                         /\ req[r].pc \in {"advance", "run", "finish", "fail"}
                         /\ req'[r].pc = "done"
                         /\ row.status \notin stops[r]
    OBVIOUS
  <2>1. PICK r \in Requests : /\ req[r].pc \in {"advance", "run", "finish", "fail"}
                              /\ req'[r].pc = "done"
    BY ReopeningSteps
  <2>2. row.status \in Terminal
    BY DEF Reopens, Terminal
  <2> QED BY <2>1, <2>2 DEF BeganOpen, Way, ApprovalSteps, Executing
<1> QED BY <1>1, <1>2, <1>3, PTL DEF Spec, OnlyOvertakenReopens

=============================================================================
