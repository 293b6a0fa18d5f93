------------------------------ MODULE ToolLoop ------------------------------
(***************************************************************************)
(* The tool loop of the core: SiralosApplication and its response machine  *)
(* (crates/siralos-core/src/tool/session.rs), the tool round (round.rs),   *)
(* the one-time approval ledger (approval.rs) and the collector of one     *)
(* provider turn (crates/siralos-core/src/provider/turn.rs).               *)
(*                                                                         *)
(* The host calls send_prompt, poll_event, cancel and the ledger's         *)
(* approve; the machine advances only inside poll_event, which returns at  *)
(* the first event it has to show.  `polling` says which of the two is     *)
(* running, so that a cancellation lands exactly where the code lets it.   *)
(*                                                                         *)
(* Text and inputs are abstracted to a size, a tool and its input to an    *)
(* action (what the digest binds besides the revision).  The provider is   *)
(* an arbitrary stream of events.  Phase::EmitText is left out: every      *)
(* collected turn reaches handle_provider_outcome through                  *)
(* without_text_deltas, so no turn has deltas left to replay.              *)
(***************************************************************************)
EXTENDS Integers, Sequences, FiniteSets, SequencesExt

CONSTANTS
    Actions,        \* what a provider may ask for
    Registered,     \* the actions whose tool is in the registry
    Allowed,        \* ... whose capability the policy allows
    Asked,          \* ... whose capability the policy says to ask for
    Gated,          \* ... whose tool requires_approval
    Previewable,    \* ... that have an approval preview
    HasResolver,    \* whether an approval resolver is installed
    Projected,      \* whether a projection service is configured
    HostSurface,    \* the tool surface the host supplies without a projection
    Ticks,          \* progress_ticks
    ProviderIds,    \* the call ids the provider uses; EmptyId is the empty id
    Sizes,          \* the sizes of prompts, texts and results
    MaxHistoryItems, MaxHistoryBytes,   \* the budget of the history at idle
    MaxToolRounds,  \* RoundBudget
    MaxTextEvents,  \* max_text_events
    MaxToolCalls,   \* max_tool_calls_per_turn
    MaxRevision,    \* the largest task revision the host uses
    MaxGrants       \* bound on the approvals given for one action

ASSUME ToolLoopAssumption ==
    /\ Registered \cup Allowed \cup Asked \cup Gated \cup Previewable
         \cup HostSurface \subseteq Actions
    /\ Allowed \cap Asked = {}
    /\ ProviderIds \subseteq Nat \ {0}
    /\ Sizes \subseteq Nat \ {0}
    /\ {MaxHistoryItems, MaxHistoryBytes, MaxToolRounds, MaxTextEvents,
        MaxToolCalls, MaxRevision, MaxGrants} \subseteq Nat
    /\ {HasResolver, Projected, Ticks} \subseteq BOOLEAN

VARIABLES
    history,     \* the authoritative conversation
    phase,       \* the machine's phase, "idle" when there is no machine
    polling,     \* poll_event is running
    token,       \* the machine's cancellation token
    attempted,   \* attempted_tool_rounds
    turns,       \* provider_turns
    blocked,     \* the projected request is blocked
    pressure,    \* pressure_pending
    surface,     \* the approved tool surface of the current request
    collector,   \* ProviderTurnCollector
    round,       \* ToolRoundRunner, with the turn's assistant text
    terminal,    \* the terminal event of the response
    ledger,      \* ActionApprovals: the unconsumed digests
    revision,    \* the task revision of the current configuration
    granted,     \* how many approvals were given for a digest
    executed     \* how many executions of a gated action a digest has had

requestVars  == <<turns, blocked, pressure, surface>>
approvalVars == <<ledger, revision, granted, executed>>
machineVars  == <<phase, polling, token, attempted, requestVars, collector,
                  round, terminal>>
vars == <<history, machineVars, approvalVars>>

EmptyId == 0

\* The n-th synthetic id of a turn, invalid-call-n.
InvalidCall(n) == n

Item(kind, id, size) == [kind |-> kind, id |-> id, size |-> size]

User(size)       == Item("user", EmptyId, size)
Text(size)       == Item("text", EmptyId, size)
CallItem(id)     == Item("call", id, 1)
Result(id, size) == Item("result", id, size)

\* What an approval binds: the action and the task revision.
Digests == Actions \X (0 .. MaxRevision)

----------------------------------------------------------------------------
(* The budget of the history. *)

HistoryBytes(h) == FoldSeq(LAMBDA item, total : total + item.size, 0, h)

Fits(h) == Len(h) <= MaxHistoryItems /\ HistoryBytes(h) <= MaxHistoryBytes

From(h, i) == SubSeq(h, i, Len(h))

\* Seeded fault: items are dropped one by one, whatever they are.
PruneItems(h) ==
    LET fit == {i \in 1 .. Len(h) : Fits(From(h, i))}
    IN  IF fit = {} THEN <<>> ELSE From(h, Min(fit))

\* prune_history drops whole turns from the front until the rest fits: it
\* stops at the first start of a turn that does, and clears when none does.
PruneHistory(h) ==
    LET starts == {1} \cup {i \in 2 .. Len(h) : h[i].kind = "user"}
        fit    == {i \in starts : Fits(From(h, i))}
    IN  IF fit = {} THEN <<>> ELSE From(h, Min(fit))

\* Whether send_prompt takes a prompt of this size.
Startable(size) ==
    LET h == PruneHistory(history) IN
    /\ Len(h) + 1 <= MaxHistoryItems
    /\ HistoryBytes(h) + size <= MaxHistoryBytes

----------------------------------------------------------------------------

\* A machine starts without a surface when each request is projected.
InitialSurface == IF Projected THEN Registered ELSE HostSurface

NoTurn  == [size |-> 0, events |-> 0, calls |-> <<>>, seen |-> {},
            invalid |-> 0, complete |-> FALSE]

NoRound == [calls |-> <<>>, transcript |-> <<>>, queued |-> 0,
            cancelled |-> FALSE, size |-> 0]

Init ==
    /\ history = <<>>
    /\ phase = "idle" /\ polling = FALSE /\ token = FALSE
    /\ attempted = 0 /\ turns = 0
    /\ blocked = FALSE /\ pressure = FALSE /\ surface = InitialSurface
    /\ collector = NoTurn /\ round = NoRound /\ terminal = "none"
    /\ ledger = {} /\ revision = 0
    /\ granted = [d \in Digests |-> 0]
    /\ executed = [d \in Digests |-> 0]

----------------------------------------------------------------------------
(* The host. *)

\* send_prompt at idle: prune, append the user message, build a fresh
\* machine.  A refused prompt changes nothing, not even the stored history.
SendPrompt(size) ==
    /\ phase = "idle"
    /\ Startable(size)
    /\ history' = Append(PruneHistory(history), User(size))
    /\ phase' = "start" /\ token' = FALSE
    /\ attempted' = 0 /\ turns' = 0
    /\ surface' = InitialSurface
    /\ terminal' = "none"
    /\ UNCHANGED <<polling, blocked, pressure, collector, round,
                   approvalVars>>

PollEvent ==
    /\ phase # "idle" /\ ~polling
    /\ polling' = TRUE
    /\ UNCHANGED <<history, phase, token, attempted, requestVars, collector,
                   round, terminal, approvalVars>>

Cancel ==
    /\ phase # "idle" /\ ~polling /\ ~token
    /\ token' = TRUE
    /\ UNCHANGED <<history, phase, polling, attempted, requestVars,
                   collector, round, terminal, approvalVars>>

\* The host records an approval; a second one for the same digest replaces
\* the first.
Approve(d) ==
    /\ ~polling
    /\ granted[d] < MaxGrants
    /\ ledger' = ledger \cup {d}
    /\ granted' = [granted EXCEPT ![d] = @ + 1]
    /\ UNCHANGED <<history, machineVars, revision, executed>>

\* set_projection, with another task revision; refused while responding.
SetProjection ==
    /\ phase = "idle" /\ revision < MaxRevision
    /\ revision' = revision + 1
    /\ UNCHANGED <<history, machineVars, ledger, granted, executed>>

----------------------------------------------------------------------------
(* The machine: phases up to the provider's stream. *)

Running(p) == polling /\ phase = p

\* The machine goes to phase p; show says whether poll_event returns an event.
Goto(p, show) == phase' = p /\ polling' = ~show

\* Phase::Terminal.
EndWith(event) == Goto("terminal", FALSE) /\ terminal' = event

Start ==
    /\ Running("start")
    /\ Goto("collect", TRUE)
    /\ UNCHANGED <<history, token, attempted, requestVars, collector, round,
                   terminal, approvalVars>>

\* The token is looked at before a request is projected, before the provider
\* is invoked and before every pull from its stream.
ObserveCancel ==
    /\ polling /\ phase \in {"collect", "invoke", "stream"} /\ token
    /\ EndWith("Cancelled")
    /\ UNCHANGED <<history, token, attempted, requestVars, collector, round,
                   approvalVars>>

\* project_current_provider_turn decides what the provider is shown and what
\* may be called; without a projection the request is raw.
CollectTurn ==
    /\ Running("collect") /\ ~token
    /\ Goto("invoke", FALSE)
    /\ IF Projected
       THEN /\ surface' \in SUBSET Registered
            /\ pressure' \in BOOLEAN /\ blocked' \in BOOLEAN
       ELSE UNCHANGED <<surface, pressure, blocked>>
    /\ UNCHANGED <<history, token, attempted, turns, collector, round,
                   terminal, approvalVars>>

\* Seeded fault: the notice stays pending after it was shown.
ShowPressureAgain ==
    /\ Running("invoke") /\ ~token /\ pressure
    /\ Goto("invoke", TRUE)
    /\ UNCHANGED <<history, token, attempted, requestVars, collector, round,
                   terminal, approvalVars>>

ShowPressure ==
    /\ Running("invoke") /\ ~token /\ pressure
    /\ pressure' = FALSE
    /\ Goto("invoke", TRUE)
    /\ UNCHANGED <<history, token, attempted, turns, blocked, surface,
                   collector, round, terminal, approvalVars>>

RequestBlocked ==
    /\ Running("invoke") /\ ~token /\ ~pressure /\ blocked
    /\ blocked' = FALSE
    /\ EndWith("Failed")
    /\ UNCHANGED <<history, token, attempted, turns, pressure, surface,
                   collector, round, approvalVars>>

\* The indices of the items of kind k in h.
Indices(h, k) == {i \in DOMAIN h : h[i].kind = k}

\* The result that resolves the call at index i: the first one after it.
ResultOf(h, i) ==
    {j \in Indices(h, "result") :
        /\ j > i /\ h[j].id = h[i].id
        /\ \A k \in i + 1 .. j - 1 : h[k].id # h[i].id}

\* validate_conversation_items: every call has its result before the next
\* call with its id and before the next user message, and no result is left
\* over.
ValidTranscript(h) ==
    /\ \A i \in Indices(h, "call") :
          /\ h[i].id # EmptyId
          /\ \E j \in ResultOf(h, i) :
                \A k \in i .. j : h[k].kind # "user"
    /\ \A j \in Indices(h, "result") :
          \E i \in Indices(h, "call") : j \in ResultOf(h, i)

\* open_provider_turn: the transcript is validated, the stream opened, and the
\* keep-alive tick shown when the frontend asked for it.
OpenTurn ==
    /\ Running("invoke") /\ ~token /\ ~pressure /\ ~blocked
    /\ turns' = turns + 1
    /\ IF ValidTranscript(history)
       THEN Goto("stream", Ticks) /\ UNCHANGED terminal
       ELSE EndWith("Failed")
    /\ collector' = NoTurn
    /\ UNCHANGED <<history, token, attempted, blocked, pressure, surface,
                   round, approvalVars>>

----------------------------------------------------------------------------
(* The machine: one pull from the provider's stream. *)

\* The next event of the provider may be pulled.
Pulling == Running("stream") /\ ~token

\* Only the stream's state changes.
StreamOnly ==
    UNCHANGED <<history, token, attempted, requestVars, round, terminal,
                approvalVars>>

\* The turn is over without an outcome to commit.
TurnEnds(event) ==
    /\ EndWith(event)
    /\ UNCHANGED <<history, token, attempted, requestVars, collector, round,
                   approvalVars>>

\* A text delta is shown as it arrives.
PullText(size) ==
    /\ Pulling /\ ~collector.complete
    /\ collector.events < MaxTextEvents
    /\ collector' = [collector EXCEPT !.events = @ + 1, !.size = @ + size]
    /\ Goto("stream", TRUE)
    /\ StreamOnly

\* A reasoning delta is shown and counted but never becomes the answer.
PullReasoning ==
    /\ Pulling /\ ~collector.complete
    /\ collector.events < MaxTextEvents
    /\ collector' = [collector EXCEPT !.events = @ + 1]
    /\ Goto("stream", TRUE)
    /\ StreamOnly

Execute(id, a) == [id |-> id, action |-> a, valid |-> TRUE]

Invalid(n) == [id |-> InvalidCall(n), action |-> CHOOSE a \in Actions : TRUE,
               valid |-> FALSE]

\* A tool call: one with an empty id, or an id already seen in this turn, is
\* retained as invalid under a synthetic id.
PullCall(id, a) ==
    /\ Pulling /\ ~collector.complete
    /\ Len(collector.calls) < MaxToolCalls
    /\ collector' =
         IF id = EmptyId \/ id \in collector.seen
         THEN [collector EXCEPT
                 !.invalid = @ + 1,
                 !.calls = Append(@, Invalid(collector.invalid + 1))]
         ELSE [collector EXCEPT
                 !.seen = @ \cup {id},
                 !.calls = Append(@, Execute(id, a))]
    /\ Goto("stream", FALSE)
    /\ StreamOnly

PullCompleted ==
    /\ Pulling /\ ~collector.complete
    /\ collector' = [collector EXCEPT !.complete = TRUE]
    /\ Goto("stream", FALSE)
    /\ StreamOnly

\* The provider declares its failure or cancellation; or the collector stops:
\* a malformed event, an event after completion, or one that exceeds a limit.
PullFailure ==
    /\ Pulling
    /\ \E event \in {"Failed", "Cancelled"} : TurnEnds(event)

\* The stream ends without a completion event.
StreamCutOff == Pulling /\ ~collector.complete /\ TurnEnds("Failed")

\* The stream ends: finish, handle_provider_outcome, handle_collected_turn.
Finish == Pulling /\ collector.complete

\* No calls: the answer is committed.
TurnAnswers ==
    /\ Finish /\ collector.calls = <<>>
    /\ history' = IF collector.size = 0 THEN history
                  ELSE Append(history, Text(collector.size))
    /\ EndWith("Completed")
    /\ UNCHANGED <<token, attempted, requestVars, collector, round,
                   approvalVars>>

\* Seeded fault: the text of the turn over budget is committed.
RoundRefusedCommitting ==
    /\ Finish /\ collector.calls # <<>> /\ attempted >= MaxToolRounds
    /\ history' = IF collector.size = 0 THEN history
                  ELSE Append(history, Text(collector.size))
    /\ EndWith("Failed")
    /\ UNCHANGED <<token, attempted, requestVars, collector, round,
                   approvalVars>>

RoundRefused ==
    /\ Finish /\ collector.calls # <<>> /\ attempted >= MaxToolRounds
    /\ TurnEnds("Failed")

\* Seeded fault: the budget is off by one.
RoundBeginsLate ==
    /\ Finish /\ collector.calls # <<>> /\ attempted <= MaxToolRounds
    /\ attempted' = attempted + 1
    /\ round' =
         [calls      |-> collector.calls,
          transcript |-> [i \in DOMAIN collector.calls |->
                             CallItem(collector.calls[i].id)],
          queued     |-> 0,
          cancelled  |-> FALSE,
          size       |-> collector.size]
    /\ collector' = NoTurn
    /\ Goto("round", FALSE)
    /\ UNCHANGED <<history, token, requestVars, terminal, approvalVars>>

\* ToolRoundRunner::new seeds the transcript with every retained call.
RoundBegins ==
    /\ Finish /\ collector.calls # <<>> /\ attempted < MaxToolRounds
    /\ attempted' = attempted + 1
    /\ round' =
         [calls      |-> collector.calls,
          transcript |-> [i \in DOMAIN collector.calls |->
                             CallItem(collector.calls[i].id)],
          queued     |-> 0,
          cancelled  |-> FALSE,
          size       |-> collector.size]
    /\ collector' = NoTurn
    /\ Goto("round", FALSE)
    /\ UNCHANGED <<history, token, requestVars, terminal, approvalVars>>

----------------------------------------------------------------------------
(* The machine: one step of the tool round. *)

\* Events already produced are shown before anything else happens.
ShowQueued ==
    /\ Running("round") /\ round.queued > 0
    /\ round' = [round EXCEPT !.queued = @ - 1]
    /\ Goto("round", TRUE)
    /\ UNCHANGED <<history, token, attempted, requestVars, collector,
                   terminal, approvalVars>>

\* The next call of the round is authorized now.
NextCall ==
    /\ Running("round") /\ round.queued = 0 /\ ~round.cancelled
    /\ round.calls # <<>> /\ ~token

\* Seeded fault: the event that is shown stays queued.
AnswerTwice(size, events, cancelled) ==
    /\ round' = [round EXCEPT
                   !.calls = Tail(@),
                   !.transcript =
                       Append(@, Result(Head(round.calls).id, size)),
                   !.queued = events,
                   !.cancelled = cancelled]
    /\ Goto("round", TRUE)
    /\ UNCHANGED <<history, token, attempted, requestVars, collector,
                   terminal, revision>>

\* The call at the head got a result: record it, queue the outcome event
\* behind the one that is shown now.
Answer(size, events, cancelled) ==
    /\ round' = [round EXCEPT
                   !.calls = Tail(@),
                   !.transcript =
                       Append(@, Result(Head(round.calls).id, size)),
                   !.queued = events - 1,
                   !.cancelled = cancelled]
    /\ Goto("round", TRUE)
    /\ UNCHANGED <<history, token, attempted, requestVars, collector,
                   terminal, revision>>

InvalidAnswered ==
    /\ NextCall /\ ~Head(round.calls).valid
    /\ Answer(1, 1, FALSE)
    /\ UNCHANGED <<ledger, granted, executed>>

\* execute_call reaches the gates with action a.
Authorizing(a) == NextCall /\ Head(round.calls).valid
                           /\ Head(round.calls).action = a

Digest(a) == <<a, revision>>

\* Registry, surface and policy let the call through; an asked capability
\* needs a tool that can present its action.
Admitted(a) ==
    /\ a \in Registered /\ a \in surface
    /\ a \in Allowed \cup (Asked \cap Gated)

\* The call is denied, or its tool is unknown, without execution.
CallRefused ==
    \E a \in Actions :
        /\ Authorizing(a)
        /\ \/ ~Admitted(a)
           \/ a \in Gated /\ Digest(a) \notin ledger
        /\ Answer(1, 2, FALSE)
        /\ UNCHANGED <<ledger, granted, executed>>

\* The tool runs once and yields its result; it may answer that it was
\* cancelled.
Runs == \E size \in Sizes, cancelled \in BOOLEAN : Answer(size, 2, cancelled)

RunPlain ==
    \E a \in Actions \ Gated :
        /\ Authorizing(a) /\ Admitted(a)
        /\ Runs
        /\ UNCHANGED <<ledger, granted, executed>>

\* A gated tool runs; only these executions are counted.
RunsGated(a) == Runs /\ executed' = [executed EXCEPT ![Digest(a)] = @ + 1]

\* Seeded fault: the recorded approval is looked up and not consumed.
RunRecordedAgain ==
    \E a \in Gated :
        /\ Authorizing(a) /\ Admitted(a)
        /\ Digest(a) \in ledger
        /\ RunsGated(a)
        /\ UNCHANGED <<ledger, granted>>

\* approval_gate finds a recorded approval and consumes it.
RunRecorded ==
    \E a \in Gated :
        /\ Authorizing(a) /\ Admitted(a)
        /\ Digest(a) \in ledger
        /\ ledger' = ledger \ {Digest(a)}
        /\ RunsGated(a)
        /\ UNCHANGED granted

\* approval_gate asks the resolver, which approves: the approval is recorded
\* and consumed at once.
RunResolved ==
    \E a \in Gated \cap Previewable :
        /\ Authorizing(a) /\ Admitted(a)
        /\ Digest(a) \notin ledger
        /\ HasResolver /\ granted[Digest(a)] < MaxGrants
        /\ granted' = [granted EXCEPT ![Digest(a)] = @ + 1]
        /\ RunsGated(a)
        /\ UNCHANGED ledger

----------------------------------------------------------------------------
(* The machine: the end of the round and of the response. *)

RoundOver == Running("round") /\ round.queued = 0

\* Every call has its result: the turn's text and the transcript are
\* committed and the next turn collected.
RoundCompletes ==
    /\ RoundOver /\ ~round.cancelled /\ round.calls = <<>>
    /\ history' = history
                  \o (IF round.size = 0 THEN <<>> ELSE <<Text(round.size)>>)
                  \o round.transcript
    /\ round' = NoRound
    /\ Goto("collect", FALSE)
    /\ UNCHANGED <<token, attempted, requestVars, collector, terminal,
                   approvalVars>>

\* Seeded fault: the calls that were not started stay unanswered.
RoundCancelledUnpaired ==
    /\ RoundOver
    /\ round.cancelled \/ (round.calls # <<>> /\ token)
    /\ history' = history \o round.transcript
    /\ round' = NoRound
    /\ EndWith("Cancelled")
    /\ UNCHANGED <<token, attempted, requestVars, collector, approvalVars>>

\* finish_cancelled: the calls that were not started get a cancelled result;
\* the transcript is committed, the turn's text is not.
RoundCancelled ==
    /\ RoundOver
    /\ round.cancelled \/ (round.calls # <<>> /\ token)
    /\ history' = history \o round.transcript
                  \o [i \in DOMAIN round.calls |->
                         Result(round.calls[i].id, 1)]
    /\ round' = NoRound
    /\ EndWith("Cancelled")
    /\ UNCHANGED <<token, attempted, requestVars, collector, approvalVars>>

ShowTerminal ==
    /\ Running("terminal")
    /\ Goto("done", TRUE)
    /\ UNCHANGED <<history, token, attempted, requestVars, collector, round,
                   terminal, approvalVars>>

\* next_event has nothing more: restore_machine.
RestoreMachine ==
    /\ Running("done")
    /\ history' = PruneHistory(history)
    /\ phase' = "idle" /\ polling' = FALSE
    /\ collector' = NoTurn
    /\ UNCHANGED <<token, attempted, requestVars, round, terminal,
                   approvalVars>>

----------------------------------------------------------------------------

HostNext ==
    \/ \E size \in Sizes : SendPrompt(size)
    \/ Cancel
    \/ \E d \in Gated \X (0 .. MaxRevision) : Approve(d)
    \/ SetProjection

MachineNext ==
    \/ Start \/ ObserveCancel \/ CollectTurn \/ ShowPressure
    \/ RequestBlocked \/ OpenTurn
    \/ \E size \in Sizes : PullText(size)
    \/ PullReasoning \/ PullCompleted \/ PullFailure \/ StreamCutOff
    \/ \E id \in ProviderIds \cup {EmptyId}, a \in Actions : PullCall(id, a)
    \/ TurnAnswers \/ RoundRefused \/ RoundBegins
    \/ ShowQueued \/ InvalidAnswered \/ CallRefused
    \/ RunPlain \/ RunRecorded \/ RunResolved
    \/ RoundCompletes \/ RoundCancelled \/ ShowTerminal \/ RestoreMachine

Next == HostNext \/ PollEvent \/ MachineNext

Spec == Init /\ [][Next]_vars

----------------------------------------------------------------------------
(* Properties. *)

Phases == {"idle", "start", "collect", "invoke", "stream", "round",
           "terminal", "done"}

Items == [kind : {"user", "text", "call", "result"}, id : Nat, size : Nat]

Calls == [id : Nat, action : Actions, valid : BOOLEAN]

TypeOK ==
    /\ history \in Seq(Items)
    /\ phase \in Phases /\ polling \in BOOLEAN /\ token \in BOOLEAN
    /\ attempted \in Nat /\ turns \in Nat
    /\ blocked \in BOOLEAN /\ pressure \in BOOLEAN
    /\ surface \subseteq Actions
    /\ collector \in [size : Nat, events : Nat, calls : Seq(Calls),
                      seen : SUBSET Nat, invalid : Nat, complete : BOOLEAN]
    /\ round \in [calls : Seq(Calls), transcript : Seq(Items), queued : 0 .. 1,
                  cancelled : BOOLEAN, size : Nat]
    /\ terminal \in {"none", "Completed", "Failed", "Cancelled"}
    /\ ledger \subseteq Digests /\ revision \in 0 .. MaxRevision
    /\ granted \in [Digests -> Nat] /\ executed \in [Digests -> Nat]

\* The committed conversation satisfies the pairing rules of
\* validate_conversation_items in every state, so that no provider turn can
\* fail as InvalidTranscript: whatever calls a provider emits, wherever the
\* response is cancelled, and whatever prune_history drops.
TranscriptValid == ValidTranscript(history)

\* prune_history retains a "user/assistant turn as the new context boundary":
\* the conversation begins with a user message, and the one kept at idle is
\* within the budget.
BoundaryIsUser ==
    /\ history # <<>> => Head(history).kind = "user"
    /\ phase = "idle" => Fits(history)

\* turn.rs: "A rejected or cancelled turn is never committed as a successful
\* turn".  A response that failed or was cancelled ends its conversation with
\* the prompt or with a tool result, never with assistant text.
RejectedNotCommitted ==
    phase = "terminal" /\ terminal \in {"Failed", "Cancelled"}
        => Last(history).kind \in {"user", "result"}

\* approval.rs: "the same approval can never authorize twice".  Over all
\* prompts, rounds and revisions, a gated action has been executed at most as
\* often as it was approved for that revision, the recorded approvals that
\* are still to be consumed included.
ApprovalsSpentOnce ==
    \A d \in Digests :
        executed[d] + (IF d \in ledger THEN 1 ELSE 0) <= granted[d]

\* The rounds of a response stay within the budget and the provider is asked
\* at most once more than there were rounds.
RoundsBounded ==
    /\ attempted <= MaxToolRounds
    /\ turns <= attempted + 1

\* A rerun of the machine's own step is all that is assumed: the worker polls
\* until poll_event has nothing more.
FairSpec == Spec /\ WF_vars(PollEvent) /\ WF_vars(MachineNext)

\* Every response ends, whatever the provider streams: the collector's limits
\* and the round budget bound it.
ResponseEnds == phase # "idle" ~> phase = "idle"
=============================================================================
