---------------------------- MODULE TaskRuntime ----------------------------
(***************************************************************************)
(* One task of the task runtime (core/task/runtime.rs) with its planning   *)
(* flow (core/planning/flow.rs): a contract that is revised, steps and     *)
(* acceptance criteria that only evidence completes, plans that are        *)
(* approved, and the gates of completion and of full-plan execution.       *)
(*                                                                         *)
(* A handle borrows the runtime exclusively, so operations are atomic; the *)
(* host and the flow call them in any order.  A refused call changes       *)
(* nothing but, at most, the activity log, and is left out: each action    *)
(* is an operation that is accepted.  Reasons, notes, timestamps and the   *)
(* iteration count are left out, as is the progress tracker.               *)
(*                                                                         *)
(* The content of a contract is its set of criteria, and the digest is the *)
(* content; its revision is its place in the history.  An evidence that    *)
(* claims `passed` without a source that supports it is refused, so        *)
(* `passed` stands for both.                                               *)
(***************************************************************************)
EXTENDS Integers, Sequences, FiniteSets

CONSTANTS
    Steps,            \* the steps of the task
    Criteria,         \* criterion ids
    UserCriteria,     \* those a user verifies; the others are deterministic
    EvidenceIds,
    PlanIds,
    FlowPlan,         \* the id the planning flow gives its plans
    NoPlan,           \* no approval
    MaxRevisions,     \* bound on contract revisions
    MaxPlans          \* MAX_PLAN_REVISIONS

ASSUME TaskAssumption ==
    /\ Criteria # {} /\ UserCriteria \subseteq Criteria
    /\ FlowPlan \in PlanIds
    /\ {MaxRevisions, MaxPlans} \subseteq Nat \ {0}
    /\ NoPlan \notin [id : PlanIds, rev : 1 .. MaxPlans]
    /\ {"absent", "pending", "failed"} \cap EvidenceIds = {}

Working  == {"prepared", "working", "validating", "reviewing", "blocked"}
Terminal == {"completed", "cancelled", "failed"}
Depths   == {"none", "light", "full"}
Kinds    == {"user_approval", "validation_result"}

\* Contracts require at least one criterion.
Contents == (SUBSET Criteria) \ {{}}

VARIABLES
    phase,
    contracts,    \* contract_revisions, oldest first
    steps,        \* the status of each step
    acceptance,   \* per criterion: not in the contract, pending, failed, or
                  \* the evidence that verified it
    evidence,     \* the records attached, by id
    gates,        \* whether validation, review and findings allow completion
    plans,        \* the stored plan revisions
    plan,         \* the plan's state in TaskState: depth, state, approval
    approval,     \* plan_approval: the plan and revision it binds to
    routed        \* the flow's last routing decision

recordVars == <<phase, contracts, steps, acceptance, evidence, gates, plans,
                plan, approval>>
vars == <<recordVars, routed>>

Revision == Len(contracts)
Contract == contracts[Revision]

Evidence == [kind : Kinds, for : Criteria, passed : BOOLEAN,
             revision : 1 .. MaxRevisions]
Attached == DOMAIN evidence

Plan == [id : PlanIds, rev : 1 .. MaxPlans, revision : 1 .. MaxRevisions,
         depth : Depths \ {"none"}]
Current == plans[Len(plans)]

StepStates == {"pending", "active", "completed", "failed"}

TypeOK ==
    /\ phase \in Working \cup Terminal
    /\ contracts \in Seq(Contents) /\ Revision \in 1 .. MaxRevisions
    /\ steps \in [Steps -> StepStates]
    /\ acceptance \in [Criteria -> {"absent", "pending", "failed"}
                                       \cup EvidenceIds]
    /\ Attached \subseteq EvidenceIds /\ \A e \in Attached : evidence[e] \in Evidence
    /\ gates \in BOOLEAN
    /\ plans \in Seq(Plan) /\ Len(plans) <= MaxPlans
    /\ plan \in [depth : Depths, state : {"none", "current", "stale"},
                 approval : {"none", "approved", "invalidated"}]
    /\ approval = NoPlan \/ approval \in [id : PlanIds, rev : 1 .. MaxPlans]
    /\ routed \in Depths \cup {"unrouted"}

Pending(content) ==
    [c \in Criteria |-> IF c \in content THEN "pending" ELSE "absent"]

\* create_task.
Init ==
    /\ phase = "prepared"
    /\ \E content \in Contents :
           contracts = <<content>> /\ acceptance = Pending(content)
    /\ steps = [s \in Steps |-> "pending"]
    /\ evidence = << >> /\ gates = FALSE
    /\ plans = << >> /\ approval = NoPlan /\ routed = "unrouted"
    /\ plan = [depth |-> "none", state |-> "none", approval |-> "none"]

\* terminal_reason: every operation is refused on a terminal task.
Live == phase \notin Terminal

----------------------------------------------------------------------------
(* Phases, steps and evidence. *)

\* allowed_transitions.
Allowed(from, to) ==
    \/ from \in Working /\ to \in {"cancelled", "failed"}
    \/ from \in {"prepared", "blocked"} /\ to = "working"
    \/ from = "working" /\ to \in {"validating", "reviewing", "blocked"}
    \/ from = "validating" /\ to \in {"working", "reviewing", "blocked"}
    \/ from = "reviewing" /\ to \in {"working", "validating", "blocked"}

\* transition_phase, and with it cancel, fail, mark_blocked and the
\* disposition Blocked, which differ in the reason they record.
TransitionPhase ==
    /\ \E to \in Working \cup Terminal : Allowed(phase, to) /\ phase' = to
    /\ UNCHANGED <<contracts, steps, acceptance, evidence, gates, plans, plan,
                   approval, routed>>

SetStep(s, status) ==
    /\ steps' = [steps EXCEPT ![s] = status]
    /\ UNCHANGED <<phase, contracts, acceptance, evidence, gates, plans, plan,
                   approval, routed>>

BeginStep(s) ==
    /\ Live /\ steps[s] \notin {"active", "completed"}
    /\ SetStep(s, "active")

FailStep(s) ==
    /\ Live /\ steps[s] # "completed"
    /\ SetStep(s, "failed")

\* The references must be attached evidence of a kind the step accepts.
CompleteStep(s) ==
    /\ Live /\ steps[s] = "active"
    /\ \E e \in Attached : evidence[e].kind = "validation_result"
    /\ SetStep(s, "completed")

\* The record is bound to the revision of the contract that is current.
AttachEvidence(id) ==
    /\ Live /\ id \notin Attached
    /\ \E kind \in Kinds, c \in Criteria, passed \in BOOLEAN :
           evidence' = [e \in Attached \cup {id} |->
                            IF e = id
                            THEN [kind |-> kind, for |-> c, passed |-> passed,
                                  revision |-> Revision]
                            ELSE evidence[e]]
    /\ UNCHANGED <<phase, contracts, steps, acceptance, gates, plans, plan,
                   approval, routed>>

\* What verify_criterion asks of an evidence.  Seeded fault: the revision the
\* evidence is bound to is not compared.
VerifiesOnce(e, c) ==
    /\ evidence[e].for = c /\ evidence[e].passed
    /\ (evidence[e].kind = "user_approval") = (c \in UserCriteria)

Verifies(e, c) ==
    /\ evidence[e].revision = Revision
    /\ evidence[e].for = c /\ evidence[e].passed
    /\ (evidence[e].kind = "user_approval") = (c \in UserCriteria)

VerifyCriterion(c) ==
    /\ Live /\ acceptance[c] # "absent"
    /\ \E e \in Attached :
           Verifies(e, c) /\ acceptance' = [acceptance EXCEPT ![c] = e]
    /\ UNCHANGED <<phase, contracts, steps, evidence, gates, plans, plan,
                   approval, routed>>

\* Seeded fault: a terminal task is not asked for.
MarkAnyCriterion(c) ==
    /\ acceptance[c] # "absent"
    /\ acceptance' = [acceptance EXCEPT ![c] = "failed"]
    /\ UNCHANGED <<phase, contracts, steps, evidence, gates, plans, plan,
                   approval, routed>>

MarkCriterionFailed(c) ==
    /\ Live /\ acceptance[c] # "absent"
    /\ acceptance' = [acceptance EXCEPT ![c] = "failed"]
    /\ UNCHANGED <<phase, contracts, steps, evidence, gates, plans, plan,
                   approval, routed>>

\* set_validation_status, set_review_status, set_findings.
SetGates ==
    /\ Live
    /\ gates' = ~gates
    /\ UNCHANGED <<phase, contracts, steps, acceptance, evidence, plans, plan,
                   approval, routed>>

\* evaluate_completion.
MayComplete ==
    /\ \A s \in Steps : steps[s] = "completed"
    /\ \A c \in Contract : acceptance[c] \in EvidenceIds
    /\ gates

\* complete_task, and the disposition Complete.
CompleteTask ==
    /\ Live /\ MayComplete
    /\ phase' = "completed"
    /\ UNCHANGED <<contracts, steps, acceptance, evidence, gates, plans, plan,
                   approval, routed>>

----------------------------------------------------------------------------
(* Plans. *)

\* invalidate_plan and invalidate_plan_for_contract_revision: the plan gets
\* stale and an approval is taken back.
Invalidate ==
    IF plans = << >>
    THEN UNCHANGED <<plan, approval>>
    ELSE /\ plan' = [plan EXCEPT !.state = "stale",
                                 !.approval = IF approval = NoPlan THEN @
                                              ELSE "invalidated"]
         /\ approval' = NoPlan

InvalidatePlan ==
    /\ Live /\ plans # << >>
    /\ Invalidate
    /\ UNCHANGED <<phase, contracts, steps, acceptance, evidence, gates, plans,
                   routed>>

\* revise_contract: every criterion is open again and the plan is stale.
\* Seeded fault: the plan stays.
ReconcileAcceptance(content) == Pending(content)

KeepPlan == UNCHANGED <<plan, approval>>

InvalidateForRevision == Invalidate

ReviseContract ==
    /\ Live /\ Revision < MaxRevisions
    /\ \E content \in Contents :
           /\ contracts' = Append(contracts, content)
           /\ acceptance' = ReconcileAcceptance(content)
    /\ InvalidateForRevision
    /\ UNCHANGED <<phase, steps, evidence, gates, plans, routed>>

\* What set_plan asks of a plan: bound to the current revision of the
\* contract, the next revision of the last plan or the first of a new one.
Follows(p) ==
    IF plans # << >> /\ Current.id = p.id
    THEN p.rev = Current.rev + 1
    ELSE p.rev = 1 /\ \A i \in 1 .. Len(plans) : plans[i].id # p.id

\* Seeded fault: the plans are not counted.
AcceptableUncounted(p) == Live /\ p.revision = Revision /\ Follows(p)

Acceptable(p) ==
    /\ Live /\ p.revision = Revision
    /\ Follows(p) /\ Len(plans) < MaxPlans

Store(p) ==
    /\ plans' = Append(plans, p)
    /\ plan' = [depth |-> p.depth, state |-> "current",
                approval |-> IF approval = NoPlan THEN "none" ELSE "invalidated"]
    /\ approval' = NoPlan

SetPlan ==
    /\ \E p \in Plan : Acceptable(p) /\ Store(p)
    /\ UNCHANGED <<phase, contracts, steps, acceptance, evidence, gates, routed>>

ApprovePlan ==
    /\ Live /\ plans # << >>
    /\ Current.revision = Revision /\ plan.state # "stale"
    /\ approval' = [id |-> Current.id, rev |-> Current.rev]
    /\ plan' = [plan EXCEPT !.approval = "approved"]
    /\ UNCHANGED <<phase, contracts, steps, acceptance, evidence, gates, plans,
                   routed>>

----------------------------------------------------------------------------
(* The planning flow. *)

\* route: the flow keeps the decision, the task the depth of it.
Route ==
    /\ \E depth \in Depths :
           /\ routed' = depth
           /\ plan' = IF Live THEN [plan EXCEPT !.depth = depth] ELSE plan
    /\ UNCHANGED <<phase, contracts, steps, acceptance, evidence, gates, plans,
                   approval>>

\* revise_task_plan keeps the depth and the contract revision of the plan it
\* revises; create_task_plan takes the routed depth and the current revision.
Drafted ==
    IF plans # << >> /\ Current.id = FlowPlan
    THEN [Current EXCEPT !.rev = @ + 1]
    ELSE [id |-> FlowPlan, rev |-> 1, revision |-> Revision, depth |-> routed]

\* run, with a candidate that validates: the plan is stored if set_plan takes
\* it.  Every other outcome leaves the record as it is.
Run ==
    /\ routed \in {"light", "full"}
    /\ Acceptable(Drafted) /\ Store(Drafted)
    /\ UNCHANGED <<phase, contracts, steps, acceptance, evidence, gates, routed>>

\* mutation_execution_blocked.
Meaningful == Cardinality(Contract) >= 2 /\ Contract \ UserCriteria # {}

MutationBlocked ==
    \/ plan.state = "stale"
    \/ /\ routed = "full"
       /\ ~(/\ Meaningful
            /\ plan.state = "current" /\ plan.depth = "full"
            /\ plan.approval = "approved")

----------------------------------------------------------------------------

Next ==
    \/ TransitionPhase \/ SetGates \/ CompleteTask
    \/ \E s \in Steps : BeginStep(s) \/ FailStep(s) \/ CompleteStep(s)
    \/ \E id \in EvidenceIds : AttachEvidence(id)
    \/ \E c \in Criteria : VerifyCriterion(c) \/ MarkCriterionFailed(c)
    \/ InvalidatePlan \/ ReviseContract \/ SetPlan \/ ApprovePlan
    \/ Route \/ Run

Spec == Init /\ [][Next]_vars

----------------------------------------------------------------------------

\* Acceptance and planning meet only in the phase and the contract, so TLC
\* looks at behaviours that use one of the two.
OneAspect ==
    \/ plans = << >> /\ routed = "unrouted"
    \/ /\ evidence = << >> /\ ~gates /\ acceptance = Pending(Contract)
       /\ \A s \in Steps : steps[s] = "pending"

\* A completed task was accepted as it was asked for in the end: every
\* criterion of the contract's last revision has evidence that was attached
\* under that revision, passed and is of the kind the criterion asks for, and
\* every step was completed.  Revisions, late evidence and marks that were
\* taken back in between make no difference.
CompletedIsProven ==
    phase = "completed" =>
        /\ \A s \in Steps : steps[s] = "completed"
        /\ \A c \in Contract : \E e \in Attached :
               /\ evidence[e].revision = Revision
               /\ evidence[e].for = c /\ evidence[e].passed
               /\ evidence[e].kind = "user_approval" <=> c \in UserCriteria

\* No two stored plans share id and revision: an approval names a plan by them.
PlansAreDistinct ==
    \A i, j \in 1 .. Len(plans) :
        plans[i].id = plans[j].id /\ plans[i].rev = plans[j].rev => i = j

\* An approval is of exactly the plan that is current, made for exactly the
\* contract that is current, and of no plan that was replaced.  The gate of
\* mutation, which reads the plan's state and not the approval, agrees with it:
\* when full planning was routed and mutation is let through, there is one.
ApprovalIsExact ==
    /\ PlansAreDistinct
    /\ plan.approval = "approved" <=> approval # NoPlan
    /\ approval # NoPlan =>
           /\ approval = [id |-> Current.id, rev |-> Current.rev]
           /\ Current.revision = Revision /\ plan.state = "current"
    /\ routed = "full" /\ ~MutationBlocked => approval # NoPlan

\* Nothing an operation can do changes a task that is completed, cancelled or
\* failed: its contract, its evidence and its plans are final.
TerminalIsFinal == [][(phase \in Terminal) => UNCHANGED recordVars]_vars
=============================================================================
