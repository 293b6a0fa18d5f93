------------------------- MODULE TaskRuntimeProofs -------------------------
(***************************************************************************)
(* Proofs about TaskRuntime, for every set of steps, criteria, evidence    *)
(* and plans and any number of revisions: a completed task is proven, an   *)
(* approval is of the plan and the contract that are current, and a task   *)
(* that ended is final.                                                    *)
(***************************************************************************)
EXTENDS TaskRuntime, TLAPS

----------------------------------------------------------------------------
(* The inductive invariant, in parts. *)

\* A criterion is verified by evidence attached under the current revision
\* that still satisfies it.
AcceptanceInv ==
    \A c \in Criteria :
        /\ acceptance[c] # "absent" <=> c \in Contract
        /\ acceptance[c] \in EvidenceIds =>
               acceptance[c] \in Attached /\ Verifies(acceptance[c], c)

\* What let a task complete stays as it was.
CompletedInv ==
    phase = "completed" =>
        /\ \A s \in Steps : steps[s] = "completed"
        /\ \A c \in Contract : acceptance[c] \in EvidenceIds

\* The revisions of a plan rise from one, so none is above its place.
PlansInv ==
    /\ \A i \in 1 .. Len(plans) : plans[i].rev <= i
    /\ \A i, j \in 1 .. Len(plans) :
           i < j /\ plans[i].id = plans[j].id => plans[i].rev < plans[j].rev

\* An approval is of the current plan for the current contract, and the
\* plan's state says so.
ApprovalInv ==
    /\ plans = << >> <=> plan.state = "none"
    /\ plan.approval = "approved" <=> approval # NoPlan
    /\ approval # NoPlan =>
           /\ plans # << >>
           /\ approval = [id |-> Current.id, rev |-> Current.rev]
           /\ Current.revision = Revision /\ plan.state = "current"

\* The operations in two groups, for the proof.
Recording ==
    \/ TransitionPhase \/ SetGates \/ CompleteTask
    \/ \E s \in Steps : BeginStep(s) \/ FailStep(s) \/ CompleteStep(s)
    \/ \E id \in EvidenceIds : AttachEvidence(id)
    \/ \E c \in Criteria : VerifyCriterion(c) \/ MarkCriterionFailed(c)

Planning ==
    InvalidatePlan \/ ReviseContract \/ SetPlan \/ ApprovePlan \/ Route \/ Run

IInv == TypeOK /\ AcceptanceInv /\ CompletedInv /\ PlansInv /\ ApprovalInv

----------------------------------------------------------------------------
(* What the operations on plans return. *)

USE TaskAssumption
USE DEF recordVars, Working, Terminal, Depths, Kinds, StepStates, Contents,
        Live, Attached, Revision, Contract, Current

PlanState == [depth : Depths, state : {"none", "current", "stale"},
              approval : {"none", "approved", "invalidated"}]

\* invalidate_plan takes every approval back, and a plan that is there gets
\* stale.
LEMMA InvalidateTakesBack ==
    ASSUME TypeOK, ApprovalInv, Invalidate
    PROVE  /\ plan' \in PlanState /\ approval' = NoPlan
           /\ plan'.approval # "approved"
           /\ plan'.state = IF plans = << >> THEN "none" ELSE "stale"
<1>1. plan \in PlanState BY DEF TypeOK, PlanState
<1>2. CASE plans = << >>
  BY <1>1, <1>2 DEF Invalidate, ApprovalInv
<1>3. CASE plans # << >>
  <2>1. /\ approval' = NoPlan
        /\ plan' = [plan EXCEPT !.state = "stale",
                                !.approval = IF approval = NoPlan THEN @
                                             ELSE "invalidated"]
    BY <1>3 DEF Invalidate
  <2> QED BY <1>1, <1>3, <2>1 DEF ApprovalInv, PlanState
<1> QED BY <1>2, <1>3

\* set_plan appends the plan, which is current and approved by nobody, and
\* the revisions of a plan go on rising.
LEMMA StoreAppends ==
    ASSUME TypeOK, PlansInv, NEW p \in Plan, Acceptable(p), Store(p)
    PROVE  /\ plans' \in Seq(Plan) /\ Len(plans') <= MaxPlans
           /\ plans' # << >>
           /\ plan' \in PlanState /\ plan'.state = "current"
           /\ plan'.approval # "approved" /\ approval' = NoPlan
           /\ PlansInv'
<1>1. plans \in Seq(Plan) /\ plans' = Append(plans, p) /\ Len(plans) < MaxPlans
  BY DEF TypeOK, Store, Acceptable
<1>2. /\ plans' \in Seq(Plan) /\ Len(plans') = Len(plans) + 1
      /\ plans'[Len(plans) + 1] = p
      /\ \A i \in 1 .. Len(plans) : plans'[i] = plans[i]
  BY <1>1
<1>3. /\ plan' \in PlanState /\ plan'.state = "current"
      /\ plan'.approval # "approved" /\ approval' = NoPlan
  BY DEF Store, Plan, PlanState
<1>4. p.rev \in Nat /\ Len(plans) \in Nat
      /\ \A i \in 1 .. Len(plans) : plans[i].rev \in Nat
  <2>1. \A q \in Plan : q.rev \in Nat BY DEF Plan
  <2>2. \A i \in 1 .. Len(plans) : plans[i] \in Plan BY <1>1
  <2> QED BY <1>1, <2>1, <2>2
<1>5. /\ p.rev <= Len(plans) + 1
      /\ \A i \in 1 .. Len(plans) : plans[i].id = p.id => plans[i].rev < p.rev
  <2>1. CASE plans # << >> /\ Current.id = p.id
    <3>1. p.rev = plans[Len(plans)].rev + 1 /\ Len(plans) \in 1 .. Len(plans)
      BY <1>1, <2>1 DEF Acceptable, Follows
    <3>2. plans[Len(plans)].rev <= Len(plans) BY <3>1 DEF PlansInv
    <3>3. ASSUME NEW i \in 1 .. Len(plans), plans[i].id = p.id
          PROVE  plans[i].rev <= plans[Len(plans)].rev
      BY <1>4, <2>1, <3>1, <3>3 DEF PlansInv
    <3> QED BY <1>4, <3>1, <3>2, <3>3
  <2>2. CASE ~(plans # << >> /\ Current.id = p.id)
    BY <1>4, <2>2 DEF Acceptable, Follows
  <2> QED BY <2>1, <2>2
<1>6. PlansInv'
  <2>1. ASSUME NEW i \in 1 .. Len(plans') PROVE plans'[i].rev <= i
    BY <1>2, <1>4, <1>5 DEF PlansInv
  <2>2. ASSUME NEW i \in 1 .. Len(plans'), NEW j \in 1 .. Len(plans'),
               i < j, plans'[i].id = plans'[j].id
        PROVE  plans'[i].rev < plans'[j].rev
    <3>1. i \in 1 .. Len(plans) BY <1>2, <1>4, <2>2
    <3>2. CASE j \in 1 .. Len(plans) BY <1>2, <2>2, <3>1, <3>2 DEF PlansInv
    <3>3. CASE j = Len(plans) + 1 BY <1>2, <1>5, <2>2, <3>1, <3>3
    <3> QED BY <1>2, <1>4, <3>2, <3>3
  <2> QED BY <2>1, <2>2 DEF PlansInv
<1> QED BY <1>1, <1>2, <1>3, <1>4, <1>6

\* The plan that the flow draws up is one that set_plan can take.
LEMMA DraftedIsPlan ==
    ASSUME TypeOK, PlansInv, routed \in {"light", "full"}, Acceptable(Drafted)
    PROVE  Drafted \in Plan
<1>1. plans \in Seq(Plan) /\ Len(plans) \in Nat /\ Len(plans) < MaxPlans
  BY DEF TypeOK, Acceptable
<1>2. Revision \in 1 .. MaxRevisions BY DEF TypeOK
<1>3. CASE plans # << >> /\ Current.id = FlowPlan
  <2>1. Len(plans) \in 1 .. Len(plans) BY <1>1, <1>3
  <2>2. Current \in Plan /\ Current.rev <= Len(plans)
    BY <1>1, <2>1 DEF PlansInv
  <2>3. Drafted = [Current EXCEPT !.rev = @ + 1] BY <1>3 DEF Drafted
  <2>4. Current.rev + 1 \in 1 .. MaxPlans BY <1>1, <2>2 DEF Plan
  <2> QED BY <2>2, <2>3, <2>4 DEF Plan
<1>4. CASE ~(plans # << >> /\ Current.id = FlowPlan)
  BY <1>1, <1>2, <1>4 DEF Drafted, Plan
<1> QED BY <1>3, <1>4

----------------------------------------------------------------------------
(* Every operation keeps the invariant. *)

\* Phases, steps, evidence and criteria keep the invariant.
LEMMA RecordingStep == IInv /\ Recording => IInv'
<1> SUFFICES ASSUME IInv, Recording PROVE IInv' OBVIOUS
<1> USE DEF IInv
<1>1. CASE TransitionPhase
  <2> USE <1>1 DEF TransitionPhase, Allowed
  <2>1. TypeOK'
    BY DEF TypeOK, Evidence, Plan
  <2>2. AcceptanceInv' /\ CompletedInv' /\ PlansInv' /\ ApprovalInv'
    BY DEF AcceptanceInv, CompletedInv, PlansInv, ApprovalInv, Verifies
  <2> QED BY <2>1, <2>2
<1>2. CASE SetGates
  <2> USE <1>2 DEF SetGates
  <2>1. TypeOK'
    BY DEF TypeOK, Evidence, Plan
  <2>2. AcceptanceInv' /\ CompletedInv' /\ PlansInv' /\ ApprovalInv'
    BY DEF AcceptanceInv, CompletedInv, PlansInv, ApprovalInv, Verifies
  <2> QED BY <2>1, <2>2
<1>3. CASE CompleteTask
  <2> USE <1>3 DEF CompleteTask, MayComplete
  <2>1. TypeOK'
    BY DEF TypeOK, Evidence, Plan
  <2>2. AcceptanceInv' /\ CompletedInv' /\ PlansInv' /\ ApprovalInv'
    BY DEF AcceptanceInv, CompletedInv, PlansInv, ApprovalInv, Verifies
  <2> QED BY <2>1, <2>2
<1>4. ASSUME NEW s \in Steps, BeginStep(s) PROVE IInv'
  <2> USE <1>4 DEF BeginStep, SetStep
  <2>1. TypeOK'
    BY DEF TypeOK, Evidence, Plan
  <2>2. AcceptanceInv' /\ CompletedInv' /\ PlansInv' /\ ApprovalInv'
    BY DEF AcceptanceInv, CompletedInv, PlansInv, ApprovalInv, Verifies
  <2> QED BY <2>1, <2>2
<1>5. ASSUME NEW s \in Steps, FailStep(s) PROVE IInv'
  <2> USE <1>5 DEF FailStep, SetStep
  <2>1. TypeOK'
    BY DEF TypeOK, Evidence, Plan
  <2>2. AcceptanceInv' /\ CompletedInv' /\ PlansInv' /\ ApprovalInv'
    BY DEF AcceptanceInv, CompletedInv, PlansInv, ApprovalInv, Verifies
  <2> QED BY <2>1, <2>2
<1>6. ASSUME NEW s \in Steps, CompleteStep(s) PROVE IInv'
  <2> USE <1>6 DEF CompleteStep, SetStep
  <2>1. TypeOK'
    BY DEF TypeOK, Evidence, Plan
  <2>2. AcceptanceInv' /\ CompletedInv' /\ PlansInv' /\ ApprovalInv'
    BY DEF AcceptanceInv, CompletedInv, PlansInv, ApprovalInv, Verifies
  <2> QED BY <2>1, <2>2
<1>7. ASSUME NEW id \in EvidenceIds, AttachEvidence(id) PROVE IInv'
  <2> USE <1>7 DEF AttachEvidence
  <2>1. TypeOK'
    BY DEF TypeOK, Evidence, Plan
  <2>2. AcceptanceInv' /\ CompletedInv' /\ PlansInv' /\ ApprovalInv'
    BY DEF AcceptanceInv, CompletedInv, PlansInv, ApprovalInv, Verifies
  <2> QED BY <2>1, <2>2
<1>8. ASSUME NEW c \in Criteria, VerifyCriterion(c) PROVE IInv'
  <2> USE <1>8 DEF VerifyCriterion, Verifies
  <2>1. TypeOK'
    BY DEF TypeOK, Evidence, Plan
  <2>2. CompletedInv' /\ PlansInv' /\ ApprovalInv'
    BY DEF CompletedInv, PlansInv, ApprovalInv
  <2>3. AcceptanceInv'
    BY DEF AcceptanceInv, TypeOK, Evidence, Plan
  <2> QED BY <2>1, <2>2, <2>3
<1>9. ASSUME NEW c \in Criteria, MarkCriterionFailed(c) PROVE IInv'
  <2> USE <1>9 DEF MarkCriterionFailed
  <2>1. TypeOK'
    BY DEF TypeOK, Evidence, Plan
  <2>2. AcceptanceInv' /\ CompletedInv' /\ PlansInv' /\ ApprovalInv'
    BY DEF AcceptanceInv, CompletedInv, PlansInv, ApprovalInv, Verifies
  <2> QED BY <2>1, <2>2
<1> QED BY <1>1, <1>2, <1>3, <1>4, <1>5, <1>6, <1>7, <1>8, <1>9 DEF Recording

\* Revisions of the contract and of the plan, approvals and the flow keep
\* the invariant.
LEMMA PlanningStep == IInv /\ Planning => IInv'
<1> SUFFICES ASSUME IInv, Planning PROVE IInv' OBVIOUS
<1> USE DEF IInv
<1>1. CASE InvalidatePlan
  <2> USE <1>1 DEF InvalidatePlan
  <2>1. /\ plan' \in PlanState /\ approval' = NoPlan
        /\ plan'.approval # "approved"
        /\ plan'.state = IF plans = << >> THEN "none" ELSE "stale"
    BY InvalidateTakesBack
  <2>2. TypeOK' BY <2>1 DEF TypeOK, PlanState
  <2>3. AcceptanceInv' /\ CompletedInv' /\ PlansInv'
    BY DEF AcceptanceInv, CompletedInv, PlansInv, Verifies
  <2>4. ApprovalInv' BY <2>1 DEF ApprovalInv
  <2> QED BY <2>2, <2>3, <2>4
<1>2. CASE ReviseContract
  <2> USE <1>2 DEF ReviseContract, ReconcileAcceptance, InvalidateForRevision,
     Pending
  <2>1. /\ plan' \in PlanState /\ approval' = NoPlan
        /\ plan'.approval # "approved"
        /\ plan'.state = IF plans = << >> THEN "none" ELSE "stale"
    BY InvalidateTakesBack
  <2>2. TypeOK'
    <3>1. contracts' \in Seq(Contents) /\ Len(contracts') \in 1 .. MaxRevisions
      BY DEF TypeOK
    <3>2. acceptance' \in [Criteria -> {"absent", "pending", "failed"}
                                          \cup EvidenceIds]
      BY DEF TypeOK
    <3> QED BY <2>1, <3>1, <3>2 DEF TypeOK, PlanState
  <2>3. AcceptanceInv' /\ CompletedInv' /\ PlansInv'
    BY DEF AcceptanceInv, CompletedInv, PlansInv, Verifies
  <2>4. ApprovalInv' BY <2>1 DEF ApprovalInv
  <2> QED BY <2>2, <2>3, <2>4
<1>3. CASE SetPlan
  <2> USE <1>3 DEF SetPlan
  <2>1. /\ plans' \in Seq(Plan) /\ Len(plans') <= MaxPlans
        /\ plans' # << >>
        /\ plan' \in PlanState /\ plan'.state = "current"
        /\ plan'.approval # "approved" /\ approval' = NoPlan
        /\ PlansInv'
    BY StoreAppends
  <2>2. TypeOK' BY <2>1 DEF TypeOK, PlanState
  <2>3. AcceptanceInv' /\ CompletedInv'
    BY DEF AcceptanceInv, CompletedInv, Verifies
  <2>4. ApprovalInv' BY <2>1 DEF ApprovalInv
  <2> QED BY <2>1, <2>2, <2>3, <2>4
<1>4. CASE ApprovePlan
  <2> USE <1>4 DEF ApprovePlan
  <2>1. TypeOK'
    <3>1. Current \in Plan
      BY DEF TypeOK
    <3>2. approval' \in [id : PlanIds, rev : 1 .. MaxPlans]
      BY <3>1 DEF Plan
    <3>3. plan' \in PlanState
      BY DEF TypeOK, PlanState
    <3> QED BY <3>1, <3>2, <3>3 DEF TypeOK, PlanState
  <2>2. AcceptanceInv' /\ CompletedInv' /\ PlansInv'
    BY DEF AcceptanceInv, CompletedInv, PlansInv, Verifies
  <2>3. ApprovalInv'
    <3>1. Current \in Plan
      BY DEF TypeOK
    <3>2. approval' \in [id : PlanIds, rev : 1 .. MaxPlans]
      BY <3>1 DEF Plan
    <3>3. plan'.approval = "approved" /\ plan'.state = plan.state
      BY DEF TypeOK
    <3>4. plan.state = "current"
      BY DEF TypeOK, ApprovalInv
    <3> QED BY <3>1, <3>2, <3>3, <3>4 DEF ApprovalInv
  <2> QED BY <2>1, <2>2, <2>3
<1>5. CASE Route
  <2> USE <1>5 DEF Route
  <2>1. TypeOK'
    BY DEF TypeOK, ApprovalInv, Evidence, Plan
  <2>2. AcceptanceInv' /\ CompletedInv' /\ PlansInv' /\ ApprovalInv'
    BY DEF AcceptanceInv, CompletedInv, PlansInv, ApprovalInv, Verifies
  <2> QED BY <2>1, <2>2
<1>6. CASE Run
  <2> USE <1>6 DEF Run
  <2>1. /\ plans' \in Seq(Plan) /\ Len(plans') <= MaxPlans
        /\ plans' # << >>
        /\ plan' \in PlanState /\ plan'.state = "current"
        /\ plan'.approval # "approved" /\ approval' = NoPlan
        /\ PlansInv'
    BY StoreAppends, DraftedIsPlan
  <2>2. TypeOK' BY <2>1 DEF TypeOK, PlanState
  <2>3. AcceptanceInv' /\ CompletedInv'
    BY DEF AcceptanceInv, CompletedInv, Verifies
  <2>4. ApprovalInv' BY <2>1 DEF ApprovalInv
  <2> QED BY <2>1, <2>2, <2>3, <2>4
<1> QED BY <1>1, <1>2, <1>3, <1>4, <1>5, <1>6 DEF Planning

----------------------------------------------------------------------------
(* The invariant holds, and with it what the runtime promises. *)

\* create_task establishes the invariant.
LEMMA InitEstablishes == Init => IInv
<1> SUFFICES ASSUME Init PROVE IInv OBVIOUS
<1>1. PICK content \in Contents :
          contracts = <<content>> /\ acceptance = Pending(content)
  BY DEF Init
<1>2. Len(contracts) = 1 /\ Contract = content /\ contracts \in Seq(Contents)
  BY <1>1
<1>3. Attached = {} BY DEF Init
<1>4. plans \in Seq(Plan) /\ Len(plans) = 0 BY DEF Init
<1>5. TypeOK
  <2>1. acceptance \in [Criteria -> {"absent", "pending", "failed"}
                                       \cup EvidenceIds]
    BY <1>1 DEF Pending
  <2>2. steps \in [Steps -> StepStates] BY DEF Init
  <2>3. Revision \in 1 .. MaxRevisions BY <1>2
  <2>4. plan \in PlanState BY DEF Init, PlanState
  <2>5. Len(plans) <= MaxPlans BY <1>4
  <2>6. /\ phase \in Working \cup Terminal /\ gates \in BOOLEAN
        /\ approval = NoPlan /\ routed \in Depths \cup {"unrouted"}
    BY DEF Init
  <2> QED
    BY <1>2, <1>3, <1>4, <2>1, <2>2, <2>3, <2>4, <2>5, <2>6
    DEF TypeOK, PlanState
<1>6. AcceptanceInv BY <1>1, <1>2 DEF AcceptanceInv, Pending
<1>7. CompletedInv BY DEF Init, CompletedInv
<1>8. PlansInv BY <1>4 DEF PlansInv
<1>9. ApprovalInv BY DEF Init, ApprovalInv
<1> QED BY <1>5, <1>6, <1>7, <1>8, <1>9 DEF IInv

\* Nothing happens, nothing breaks.
LEMMA StutterKeeps == IInv /\ UNCHANGED vars => IInv'
BY DEF vars, IInv, TypeOK, AcceptanceInv, Verifies, CompletedInv, PlansInv,
   ApprovalInv

\* The inductive invariant of a task.
THEOREM Invariance == Spec => []IInv
<1>1. Init => IInv BY InitEstablishes
<1>2. IInv /\ [Next]_vars => IInv'
  <2>1. IInv /\ Next => IInv' 
    BY RecordingStep, PlanningStep DEF Next, Recording, Planning
  <2> QED BY <2>1, StutterKeeps
<1> QED BY <1>1, <1>2, PTL DEF Spec

\* The record of a task keeps its types: the history of contracts is never
\* empty, and plans never exceed their limit.
THEOREM TypeCorrect == Spec => []TypeOK
<1>1. IInv => TypeOK BY DEF IInv
<1> QED BY <1>1, Invariance, PTL

\* A task that is completed has, for every criterion of its last contract,
\* evidence attached under that contract that passed and is of the kind the
\* criterion asks for, whatever was revised, marked or attached before.
THEOREM CompletedProven == Spec => []CompletedIsProven
<1>1. IInv => CompletedIsProven
  <2> SUFFICES ASSUME IInv, phase = "completed"
               PROVE  /\ \A s \in Steps : steps[s] = "completed"
                      /\ \A c \in Contract : \E e \in Attached :
                             /\ evidence[e].revision = Revision
                             /\ evidence[e].for = c /\ evidence[e].passed
                             /\ evidence[e].kind = "user_approval"
                                    <=> c \in UserCriteria
      BY DEF CompletedIsProven
  <2>1. \A s \in Steps : steps[s] = "completed" BY DEF IInv, CompletedInv
  <2>2. Contract \subseteq Criteria BY DEF IInv, TypeOK
  <2>3. ASSUME NEW c \in Contract
        PROVE  acceptance[c] \in Attached /\ Verifies(acceptance[c], c)
    BY <2>2 DEF IInv, CompletedInv, AcceptanceInv
  <2>4. ASSUME NEW c \in Contract
        PROVE  \E e \in Attached :
                   /\ evidence[e].revision = Revision
                   /\ evidence[e].for = c /\ evidence[e].passed
                   /\ evidence[e].kind = "user_approval" <=> c \in UserCriteria
    BY <2>3 DEF Verifies
  <2> QED BY <2>1, <2>4
<1> QED BY <1>1, Invariance, PTL

\* An approval names one plan, the current one, and was made for the current
\* contract; mutation under full planning is let through only with one.
THEOREM ApprovalExact == Spec => []ApprovalIsExact
<1>1. IInv => ApprovalIsExact
  <2> SUFFICES ASSUME IInv PROVE ApprovalIsExact OBVIOUS
  <2>1. PlansAreDistinct
    <3>1. \A i \in 1 .. Len(plans) : plans[i].rev \in Nat
      <4>1. \A p \in Plan : p.rev \in Nat BY DEF Plan
      <4> QED BY <4>1 DEF IInv, TypeOK
    <3>2. ASSUME NEW i \in 1 .. Len(plans), NEW j \in 1 .. Len(plans),
                 plans[i].id = plans[j].id, plans[i].rev = plans[j].rev
          PROVE  i = j
      <4>1. ~(i < j) /\ ~(j < i) BY <3>1, <3>2 DEF IInv, PlansInv
      <4> QED BY <4>1
    <3> QED BY <3>2 DEF PlansAreDistinct
  <2>2. routed = "full" /\ ~MutationBlocked => approval # NoPlan
    BY DEF IInv, ApprovalInv, MutationBlocked
  <2> QED BY <2>1, <2>2 DEF IInv, ApprovalInv, ApprovalIsExact
<1> QED BY <1>1, Invariance, PTL

\* No operation changes the record of a task that is completed, cancelled or
\* failed: every one of them asks for a live task, or is a transition from a
\* working phase, or a routing that leaves the record alone.
THEOREM TerminalFinal == Spec => TerminalIsFinal
<1>1. [Next]_vars => [(phase \in Terminal) => UNCHANGED recordVars]_vars
  <2> SUFFICES ASSUME Next, phase \in Terminal PROVE UNCHANGED recordVars
      OBVIOUS
  <2>1. CASE TransitionPhase BY <2>1 DEF TransitionPhase, Allowed
  <2>2. CASE SetGates BY <2>2 DEF SetGates
  <2>3. CASE CompleteTask BY <2>3 DEF CompleteTask
  <2>4. CASE \E s \in Steps : BeginStep(s) \/ FailStep(s) \/ CompleteStep(s)
    BY <2>4 DEF BeginStep, FailStep, CompleteStep
  <2>5. CASE \E id \in EvidenceIds : AttachEvidence(id)
    BY <2>5 DEF AttachEvidence
  <2>6. CASE \E c \in Criteria : VerifyCriterion(c) \/ MarkCriterionFailed(c)
    BY <2>6 DEF VerifyCriterion, MarkCriterionFailed
  <2>7. CASE InvalidatePlan \/ ReviseContract \/ SetPlan \/ ApprovePlan
    BY <2>7 DEF InvalidatePlan, ReviseContract, SetPlan, ApprovePlan,
       Acceptable
  <2>8. CASE Route BY <2>8 DEF Route
  <2>9. CASE Run BY <2>9 DEF Run, Acceptable
  <2> QED
    BY <2>1, <2>2, <2>3, <2>4, <2>5, <2>6, <2>7, <2>8, <2>9 DEF Next
<1> QED BY <1>1, PTL DEF Spec, TerminalIsFinal
============================================================================
