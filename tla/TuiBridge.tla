----------------------------- MODULE TuiBridge -----------------------------
(***************************************************************************)
(* The terminal frontend on top of the session worker: the frame loop of   *)
(* crates/siralos-cli/src/interactive/tui_loop.rs and the event relay of   *)
(* crates/siralos-cli/src/interactive/worker.rs.                           *)
(*                                                                         *)
(* The UI thread runs one frame after another: it reads the queued keys,   *)
(* restages the status strip, resumes a turn whose approval was decided,   *)
(* dispatches at most one submitted line, and sweeps the event channel.    *)
(* Every dispatched line that concerns the session is a command followed   *)
(* by a relay: a loop that consumes worker events until the one its mode   *)
(* waits for.  While a relay runs, keys reach only the interrupt.          *)
(*                                                                         *)
(* The UI operations refine the open frontend of SessionWorker: Spec of    *)
(* that module is a property here.                                         *)
(***************************************************************************)
EXTENDS SessionWorker

CONSTANTS
    SubmitCap,   \* the bound of pending_submits
    Lines,       \* the kinds of line the user submits
    TypeAhead    \* whether keys may already be queued behind a submitted line
                 \* or behind a verdict when the frame reads them

AllLines == {"Prompt", "ContextReport", "SetModel", "ModelsFetch", "Rebuild",
             "Reload", "Undo", "Provider", "ProviderRemove", "Local", "Exit"}

ASSUME TuiBridgeAssumption ==
    /\ SubmitCap \in Nat \ {0}
    /\ Lines \subseteq AllLines
    /\ TypeAhead \in BOOLEAN

VARIABLES
    upc,      \* where the UI thread is in its frame
    until,    \* the relay's mode, "done" when it has what it waited for
    ret,      \* where the frame goes on after the relay
    seen,     \* what an Applied relay has seen
    submits,  \* pending_submits
    modal,    \* TuiState.pending_approval
    modalId,  \* the exchange id of a tool approval
    busy,     \* TuiState.busy_since
    exitReq   \* exit_requested

relayVars  == <<until, ret, seen>>
modalVars  == <<modal, modalId>>
userVars   == <<submits, busy, exitReq>>
uiVars     == <<upc, relayVars, modalVars, userVars>>
bridgeVars == <<vars, uiVars>>

\* The relay modes that have WORKER_ANSWER_DEADLINE.
Bounded == {"Answer", "Applied", "Status"}

\* PendingApproval::suspended_exchange_id is some.
Suspended == modal \in {"tool", "decided"}

\* PendingApproval::modal is some: keys go to the modal.
ModalOpen == modal \in {"tool", "removal", "undo"}

BridgeInit ==
    /\ Init
    /\ upc = "await" /\ until = "done" /\ ret = "frame" /\ seen = {}
    /\ modal = "none" /\ modalId = 0
    /\ submits = <<>> /\ busy = FALSE /\ exitReq = FALSE

\* The loop is over, normally or by an error, and its locals are dropped.
Leave ==
    /\ upc' = "closed" /\ until' = "done" /\ ret' = "frame" /\ seen' = {}
    /\ modal' = "none" /\ modalId' = 0
    /\ submits' = <<>> /\ busy' = FALSE /\ exitReq' = FALSE

----------------------------------------------------------------------------
(* Startup: await_worker_ready. *)

\* The pane snapshot is kept, the header ends the handshake; a failure or a
\* stop is an error.
AwaitEvent ==
    /\ upc = "await" /\ evts # <<>>
    /\ Recv
    /\ IF Head(evts).kind \in {"Pane", "Ready"}
       THEN /\ upc' = IF Head(evts).kind = "Pane" THEN "await" ELSE "keys"
            /\ UNCHANGED <<relayVars, modalVars, userVars>>
       ELSE Leave

----------------------------------------------------------------------------
(* Relays: ask_worker_effects and pump_worker. *)

\* Begin a relay that comes back to the frame at r.
Relay(mode, r) ==
    upc' = "relay" /\ until' = mode /\ ret' = r /\ seen' = {}

\* A call whose place in the frame is r fails.  The two panels requests ignore
\* their error; any other one ends the loop.
CallFails(r) ==
    IF r \in {"keys", "resume"}
    THEN /\ upc' = r /\ until' = "done" /\ ret' = "frame" /\ seen' = {}
         /\ UNCHANGED <<modalVars, userVars>>
    ELSE Leave

\* Seeded fault: an approval request does not end the relay.
AnsweredByTurn(e, m, s) ==
    \/ e.kind = "TurnFinished"
    \/ e.kind = "Ready"  /\ (m = "Status" \/ (m = "Applied" /\ "answer" \in s))
    \/ e.kind \in {"Report", "Failed", "Panels"} /\ m \in {"Answer", "Status"}
    \/ e.kind = "Models" /\ m \in Bounded

\* Whether event e ends a relay in mode m that has seen s.
Answered(e, m, s) ==
    \/ e.kind \in {"TurnFinished", "ApprovalRequest"}
    \/ e.kind = "Ready"  /\ (m = "Status" \/ (m = "Applied" /\ "answer" \in s))
    \/ e.kind \in {"Report", "Failed"}
         /\ (m \in {"Answer", "Status"} \/ (m = "Applied" /\ "ready" \in s))
    \/ e.kind = "Models" /\ m \in Bounded
    \/ e.kind = "Panels" /\ m \in {"Answer", "Status"}

\* What an Applied relay remembers of event e.
Noted(e) ==
    IF until # "Applied" THEN {}
    ELSE CASE e.kind = "Ready"                -> {"ready"}
           [] e.kind \in {"Report", "Failed"} -> {"answer"}
           [] OTHER                           -> {}

Relaying == upc = "relay" /\ until # "done"

\* pump_worker takes one event; an approval request arms the modal.
RelayEvent ==
    /\ Relaying /\ evts # <<>> /\ Head(evts) # Stopped
    /\ Recv
    /\ LET e == Head(evts) IN
       /\ until' = IF Answered(e, until, seen) THEN "done" ELSE until
       /\ seen' = seen \cup Noted(e)
       /\ IF e.kind = "ApprovalRequest"
          THEN modal' = "tool" /\ modalId' = e.id
          ELSE UNCHANGED modalVars
    /\ UNCHANGED <<upc, ret, userVars>>

\* The worker's Stopped: an error in every mode.  The relay would also end on
\* a disconnected channel, but the handle's own approval exchange holds a
\* sender, so that the channel never is, not even when the worker has ended.
RelayStopped ==
    /\ Relaying /\ evts # <<>> /\ Head(evts) = Stopped
    /\ Recv
    /\ CallFails(ret)

\* A bounded relay reaches its deadline.
RelayExpires ==
    /\ Relaying /\ until \in Bounded
    /\ CallFails(ret)
    /\ UNCHANGED vars

\* A drain ends when the channel is empty.
DrainEmpty ==
    /\ Relaying /\ until = "Drain" /\ evts = <<>>
    /\ until' = "done"
    /\ UNCHANGED <<vars, upc, ret, seen, modalVars, userVars>>

\* WorkerSource::cancel, first half, from the tick of any relay but a drain,
\* the tick that follows the relay's last event included: Esc, or Ctrl+C which
\* also asks for the exit.
Interrupt ==
    /\ upc = "relay" /\ ret # "frame"
    /\ RequestCancel
    /\ upc' = "interrupt"
    /\ exitReq' \in {exitReq, TRUE}
    /\ UNCHANGED <<relayVars, modalVars, submits, busy>>

\* Seeded fault: the Cancel command is queued past the channel's bound.
InterruptSendUnbounded ==
    /\ upc = "interrupt"
    /\ cmds' = Append(cmds, "Cancel")
    /\ UNCHANGED <<evts, flagVars, workerVars, sessionVars, exchangeVars,
                   owed, stopVars, handleVars>>
    /\ upc' = "relay"
    /\ UNCHANGED <<relayVars, modalVars, userVars>>

\* Its second half: the Cancel command, dropped when the channel is full.
InterruptSend ==
    /\ upc = "interrupt"
    /\ IF Room THEN Send("Cancel") ELSE UNCHANGED vars
    /\ upc' = "relay"
    /\ UNCHANGED <<relayVars, modalVars, userVars>>

\* Back to the frame.  A dispatched line or a resumed turn that is not
\* suspended ends the turn.
RelayReturn ==
    /\ upc = "relay" /\ until = "done"
    /\ upc' = IF ret = "frame" THEN "keys" ELSE ret
    /\ ret' = "frame" /\ seen' = {}
    /\ busy' = IF ret \in {"pop", "exitCheck"} THEN Suspended ELSE busy
    /\ UNCHANGED <<vars, until, modalVars, submits, exitReq>>

----------------------------------------------------------------------------
(* The frame: the key drain. *)

\* Nothing of the frontend but its place in the frame changes.
Goes(pc) == upc' = pc /\ UNCHANGED <<relayVars, modalVars, userVars>>

\* Ctrl+C between relays leaves the loop.
KeyExit == upc = "keys" /\ Leave /\ UNCHANGED vars

\* A y or n closes the tool-approval modal into the decided state and the
\* verdict goes straight into the exchange; deliver does nothing for an id the
\* table no longer holds.
KeyVerdict(v) ==
    /\ upc = "keys" /\ modal = "tool"
    /\ IF modalId \in pending THEN DeliverVerdict(modalId, v)
                              ELSE UNCHANGED vars
    /\ modal' = "decided"
    /\ UNCHANGED <<upc, relayVars, modalId, userVars>>

\* The verdict on a provider removal or an undo; an approved and committed
\* removal sends a Reload whose answer nobody waits for.
KeyLocalVerdict ==
    /\ upc = "keys" /\ modal \in {"removal", "undo"}
    /\ \/ UNCHANGED vars
       \/ modal = "removal" /\ Room /\ Send("Reload")
    /\ modal' = "none"
    /\ UNCHANGED <<upc, relayVars, modalId, userVars>>

\* Whether the key loop can read another key of this kind in this frame.
MayType ==
    /\ upc = "keys" /\ ~ModalOpen
    /\ TypeAhead \/ (submits = <<>> /\ ~Suspended)

\* Enter on a line.
KeySubmit(line) ==
    /\ MayType
    /\ Len(submits) < SubmitCap
    /\ submits' = Append(submits, line)
    /\ UNCHANGED <<vars, upc, relayVars, modalVars, busy, exitReq>>

\* Enter on an empty box ends the turn marker.
KeyEmpty ==
    /\ MayType /\ busy
    /\ busy' = FALSE
    /\ UNCHANGED <<vars, upc, relayVars, modalVars, submits, exitReq>>

\* The remove row of the provider picker.
KeyPickRemoval ==
    /\ MayType /\ modal = "armed"
    /\ modal' = "removal"
    /\ UNCHANGED <<vars, upc, relayVars, modalId, userVars>>

\* ask_worker for the panels, from place r of the frame.
AskPanels(r) ==
    IF Room
    THEN /\ Send("PanelsReport") /\ Relay("Answer", r)
         /\ UNCHANGED <<modalVars, userVars>>
    ELSE CallFails(r) /\ UNCHANGED vars

\* F2: refresh_panels_if_requested, inside the key drain.
KeyPanels == MayType /\ AskPanels("keys")

KeysDone == upc = "keys" /\ Goes("tick") /\ UNCHANGED vars

----------------------------------------------------------------------------
(* The frame: status strip, resume, dispatch, sweep. *)

\* Seeded fault: the strip is restaged while a turn is suspended.
StatusTickBusy == upc = "tick" /\ AskPanels("resume")

\* stage_status_tick_if_due: not while the turn marker is up.
StatusTick == upc = "tick" /\ ~busy /\ AskPanels("resume")

NoStatusTick == upc = "tick" /\ Goes("resume") /\ UNCHANGED vars

\* Seeded fault: the modal is cleared without the verdict being decided.
ResumeUndecided ==
    /\ upc = "resume" /\ Suspended
    /\ modal' = "none" /\ modalId' = 0
    /\ Relay("TurnFinished", "pop")
    /\ UNCHANGED <<vars, userVars>>

\* resume_suspended_turn.
Resume ==
    /\ upc = "resume" /\ modal = "decided"
    /\ modal' = "none" /\ modalId' = 0
    /\ Relay("TurnFinished", "pop")
    /\ UNCHANGED <<vars, userVars>>

NoResume ==
    upc = "resume" /\ modal # "decided" /\ Goes("pop") /\ UNCHANGED vars

\* The relay mode each dispatched command waits with.
Mode(line) ==
    CASE line = "Prompt"   -> "TurnFinished"
      [] line = "Reload"   -> "Applied"
      [] line = "SetModel" -> "Status"
      [] OTHER             -> "Answer"

\* pending_submits is popped, whatever modal is open.
Pop(line) == upc = "pop" /\ submits # <<>> /\ Head(submits) = line

DispatchToWorker ==
    \E line \in Requests \cup {"Prompt"} :
        /\ Pop(line)
        /\ IF Room
           THEN /\ Send(line) /\ Relay(Mode(line), "exitCheck")
                /\ submits' = Tail(submits)
                /\ busy' = TRUE
                /\ UNCHANGED <<modalVars, exitReq>>
           ELSE Leave /\ UNCHANGED vars

\* The modal a line arms in place of the one that was there.
Arms(line) ==
    CASE line = "Undo"           -> "undo"
      [] line = "Provider"       -> "armed"
      [] line = "ProviderRemove" -> "removal"
      [] OTHER                   -> modal

\* Lines the frontend serves itself: a listing, a model switch that is refused
\* or not persisted, an undo or a provider removal that asks for confirmation.
DispatchLocally ==
    \E line \in {"Local", "SetModel", "Undo", "Provider", "ProviderRemove"} :
        /\ Pop(line)
        /\ upc' = "exitCheck"
        /\ submits' = Tail(submits)
        /\ modal' = Arms(line)
        /\ busy' = (modal' \in {"tool", "decided"})
        /\ UNCHANGED <<vars, relayVars, modalId, exitReq>>

DispatchExit == Pop("Exit") /\ Leave /\ UNCHANGED vars

\* Unrevealed text of the last turn defers the dispatch and skips the sweep.
DeferDispatch ==
    upc = "pop" /\ submits # <<>> /\ Goes("keys") /\ UNCHANGED vars

NothingToDispatch ==
    upc = "pop" /\ submits = <<>> /\ Goes("exitCheck") /\ UNCHANGED vars

\* exit_requested, else drain_pending_worker.
ExitCheck ==
    /\ upc = "exitCheck"
    /\ IF exitReq THEN Leave
       ELSE Relay("Drain", "frame") /\ UNCHANGED <<modalVars, userVars>>
    /\ UNCHANGED vars

----------------------------------------------------------------------------

RelayNext == RelayEvent \/ RelayStopped \/ DrainEmpty \/ RelayReturn

FrameNext ==
    \/ KeysDone \/ StatusTick \/ NoStatusTick \/ Resume \/ NoResume
    \/ DispatchToWorker \/ DispatchLocally \/ DispatchExit
    \/ NothingToDispatch \/ ExitCheck

\* Keys other than the verdict, deadlines and deferrals: they may happen.
UserNext ==
    \/ KeyExit \/ KeyLocalVerdict \/ KeyPickRemoval \/ KeyEmpty
    \/ KeyPanels \/ Interrupt
    \/ RelayExpires \/ DeferDispatch
    \/ \E line \in Lines : KeySubmit(line)

AnswerModal == \E v \in {"Approve", "Deny"} : KeyVerdict(v)

\* The loop is left on every path through WorkerGuard::shutdown_result.
CloseNext == upc = "closed" /\ HandleNext /\ UNCHANGED uiVars

BridgeNext ==
    \/ WorkerNext /\ UNCHANGED uiVars
    \/ AwaitEvent \/ RelayNext \/ InterruptSend \/ FrameNext
    \/ UserNext \/ AnswerModal
    \/ CloseNext
    \/ Finished /\ UNCHANGED uiVars

BridgeSpec == BridgeInit /\ [][BridgeNext]_bridgeVars

----------------------------------------------------------------------------
(* Properties. *)

\* The UI sits in a relay that only TurnFinished, an approval or a stop ends.
AwaitsTurn == Relaying /\ until = "TurnFinished" /\ evts = <<>>

\* The worker sits in a hook that only a verdict or the stop bit ends.
AwaitsVerdict == At("hook") /\ pending # {} /\ ~stop

\* approval.rs says of the exchange that "no deadlock is possible": the UI
\* never waits for the end of a turn whose hook waits for the UI.
NoDeadlock == ~(AwaitsTurn /\ AwaitsVerdict)

\* tui_loop.rs resumes a "still-running turn": the UI never waits for the end
\* of a turn when no turn runs and none is queued.
NoStrandedRelay ==
    AwaitsTurn /\ ~stop => ~(At("idle") /\ "Prompt" \notin
                                {cmds[i] : i \in DOMAIN cmds})

\* A request blocked in its hook is one the UI can still answer: its
\* announcement is on the way, or its modal is the one on the screen.
BlockedHookIsShown ==
    At("hook") /\ pending # {} /\ Live =>
        \/ modal = "tool" /\ modalId = hookId
        \/ ApprovalRequest(hookId) \in {evts[i] : i \in DOMAIN evts}
        \/ upc = "closed"

\* A bounded relay is over: by its answer, or at WORKER_ANSWER_DEADLINE.
BoundedRelayEnds ==
    /\ Relaying /\ until \in Bounded
    /\ RelayNext \/ RelayExpires
    /\ until' = "done"

\* Both threads keep running, a response that is polled again and again ends
\* (its rounds are budgeted), a bounded relay has a clock, and the user answers
\* an approval that stays on the screen.
BridgeFairness ==
    /\ WF_bridgeVars(WorkerNext /\ UNCHANGED uiVars)
    /\ SF_bridgeVars(PollNone /\ UNCHANGED uiVars)
    /\ WF_bridgeVars(AwaitEvent)
    /\ SF_bridgeVars(RelayNext)
    /\ SF_bridgeVars(BoundedRelayEnds)
    /\ WF_bridgeVars(InterruptSend)
    /\ SF_bridgeVars(FrameNext)
    /\ SF_bridgeVars(AnswerModal)
    /\ WF_bridgeVars(CloseNext)

FairBridge == BridgeSpec /\ BridgeFairness

\* The UI waits for the end of a turn whose worker has ended: the TurnFinished
\* and the Stopped are both lost, and nothing will come any more.
Abandoned == AwaitsTurn /\ wpc = "done"

\* A dispatched line gives the terminal back, or ends the session: the
\* `working` marker stays up for good only when the worker could deliver
\* neither the end of the turn nor its own.
BusyEnds == busy ~> (~busy \/ upc = "closed" \/ Abandoned)
=============================================================================
