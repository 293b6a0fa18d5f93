--------------------------- MODULE SessionWorker ---------------------------
(***************************************************************************)
(* The session worker of the interactive frontends                         *)
(* (crates/siralos-cli/src/session_worker.rs) and the approval exchange    *)
(* it shares with the UI thread                                            *)
(* (crates/siralos-cli/src/interactive/approval.rs).                       *)
(*                                                                         *)
(* One thread owns the composed session.  It takes commands from a bounded *)
(* channel, runs a turn to its end before it looks at the channel again,   *)
(* and reports through a bounded event channel.  Two booleans are shared   *)
(* with the UI thread without a lock (the cancel flag and the stop flag),  *)
(* and a mutex-protected table carries approval verdicts to a hook that    *)
(* blocks INSIDE a turn.                                                   *)
(*                                                                         *)
(* Here the UI thread is open: it may perform any operation of             *)
(* WorkerHandle, in any order that its shutdown protocol allows.           *)
(* TuiBridge replaces it by the real terminal loop.                        *)
(*                                                                         *)
(* Clocks are abstracted: a wait that has a deadline may end at its        *)
(* deadline whenever what it waits for has not happened.  Event payloads   *)
(* are abstracted to their kind, and the session to whether it is          *)
(* responding, whether it has been cancelled and whether its demand loop   *)
(* (turn_settled) is owed.                                                 *)
(***************************************************************************)
EXTENDS Integers, Sequences, FiniteSets

CONSTANTS
    CmdCap,         \* COMMAND_CAPACITY, the bound of the command channel
    EvtCap,         \* EVENT_CAPACITY, the bound of the event channel
    HasPane,        \* whether session.pane() yields a snapshot
    IdSpace,        \* how many request ids there are before they wrap (2^64)
    UiCommands      \* the commands the open frontend sends

ASSUME SessionWorkerAssumption ==
    /\ CmdCap \in Nat \ {0}
    /\ EvtCap \in Nat \ {0}
    /\ HasPane \in BOOLEAN
    /\ IdSpace \in Nat /\ IdSpace > 1

VARIABLES
    cmds,        \* the command channel, oldest first
    evts,        \* the event channel, oldest first
    cancel,      \* CancelFlag
    stop,        \* the shared stop bit
    wpc,         \* where the worker thread is
    taken,       \* the command the worker has received and not yet served
    outbox,      \* the events the worker is committed to deliver before wpc
    responding,  \* WorkerSession::is_responding
    scancel,     \* the running turn has been cancelled (session.cancel)
    unsettled,   \* the last turn still owes its turn_settled
    pending,     \* ExchangeState.pending: the ids of the blocked hooks
    nextId,      \* ExchangeState.next_id
    hookId,      \* the id of the latest request
    reply,       \* the verdict sent to the latest request, "none" if none was
    ran,         \* the gated tool of the latest request ran
    owed,        \* prompts taken and not yet answered by a TurnFinished
    flushes,     \* calls of flush_result
    outcome,     \* WorkerStopOutcome, "None" while the thread runs
    hpc,         \* the owner's progress through shutdown_typed
    tries        \* shutdown attempts made

queueVars    == <<cmds, evts>>
flagVars     == <<cancel, stop>>
sessionVars  == <<responding, scancel, unsettled>>
exchangeVars == <<pending, nextId, hookId, reply, ran>>
stopVars     == <<flushes, outcome>>
handleVars   == <<hpc, tries>>
workerVars   == <<wpc, taken, outbox>>

vars == <<queueVars, flagVars, workerVars, sessionVars, exchangeVars, owed,
          stopVars, handleVars>>

Ids == 0 .. IdSpace - 1

Requests == {"ContextReport", "PanelsReport", "SetModel", "ModelsFetch",
             "Rebuild", "Reload"}

Commands == Requests \cup {"Prompt", "Cancel", "Shutdown"}

ASSUME UiCommandsAssumption == UiCommands \subseteq Commands \ {"Shutdown"}

PlainKinds == {"Pane", "Ready", "Session", "TurnFinished", "Report", "Panels",
               "Models", "Failed", "Stopped"}

Event(kind) == [kind |-> kind, id |-> 0]

ApprovalRequest(id) == [kind |-> "ApprovalRequest", id |-> id]

Events == [kind : PlainKinds \cup {"ApprovalRequest"}, id : Nat]

Ready        == Event("Ready")
TurnFinished == Event("TurnFinished")
Failed       == Event("Failed")
Report       == Event("Report")
Stopped      == Event("Stopped")

Panes == IF HasPane THEN <<Event("Pane")>> ELSE <<>>

\* The receiver of the event channel and the sender of the command channel
\* live in the handle; they are gone once the handle has been dropped.
Gone == hpc = "dropped"

Full == Len(evts) >= EvtCap

----------------------------------------------------------------------------

Init ==
    /\ cmds = <<>> /\ evts = <<>>
    /\ cancel = FALSE /\ stop = FALSE
    /\ wpc = "compose" /\ taken = "none" /\ outbox = <<>>
    /\ responding = FALSE /\ scancel = FALSE
    /\ unsettled = FALSE
    /\ pending = {} /\ nextId = 0 /\ hookId = 0
    /\ reply = "none" /\ ran = FALSE
    /\ owed = 0
    /\ flushes = 0 /\ outcome = "None"
    /\ hpc = "live" /\ tries = 0

----------------------------------------------------------------------------
(* The worker thread: delivery of events. *)

\* The worker stands at wpc with nothing left to deliver.
At(pc) == wpc = pc /\ outbox = <<>>

Delivering == outbox # <<>>

\* flush_and_stop's terminal evidence is delivered past the stop bit.
Terminal == wpc = "exit"

\* The approval announcement is a plain blocking send, not a StopAwareEvents
\* one.
Announcing == wpc = "hook" /\ Delivering

\* So are the two events of a session that could not be composed.
PlainSend == Announcing \/ (wpc = "failed" /\ Delivering)

\* A session event that could not be delivered breaks the poll loop; after any
\* other undelivered event the worker goes on where it was.
AfterLoss(pc) == IF pc = "check" THEN "settle" ELSE pc

\* StopAwareEvents::send, send_terminal and the plain sends: the queue has
\* room.
Deliver ==
    /\ Delivering /\ ~Gone /\ ~Full
    /\ stop => Terminal \/ PlainSend
    /\ evts' = Append(evts, Head(outbox))
    /\ outbox' = Tail(outbox)
    /\ owed' = IF Head(outbox) = TurnFinished THEN owed - 1 ELSE owed
    /\ UNCHANGED <<cmds, flagVars, wpc, taken, sessionVars, exchangeVars,
                   stopVars, handleVars>>

\* StopAwareEvents::send gives up: the stop bit is set, the deadline passed on
\* a full queue, or the receiver is gone.  The last two set the stop bit.
LoseEvent ==
    /\ Delivering /\ ~Terminal /\ ~PlainSend
    /\ stop \/ Full \/ Gone
    /\ stop' = TRUE
    /\ outbox' = Tail(outbox)
    /\ wpc' = AfterLoss(wpc)
    /\ UNCHANGED <<queueVars, cancel, taken, sessionVars, exchangeVars, owed,
                   stopVars, handleVars>>

\* send_terminal gives up after its short deadline.
LoseTerminal ==
    /\ Delivering /\ Terminal
    /\ Full \/ Gone
    /\ outbox' = Tail(outbox)
    /\ UNCHANGED <<queueVars, flagVars, wpc, taken, sessionVars, exchangeVars,
                   owed, stopVars, handleVars>>

\* The sends of a failed composition give up only when the receiver is gone.
LosePlain ==
    /\ Delivering /\ wpc = "failed" /\ Gone
    /\ outbox' = Tail(outbox)
    /\ UNCHANGED <<queueVars, flagVars, wpc, taken, sessionVars, exchangeVars,
                   owed, stopVars, handleVars>>

----------------------------------------------------------------------------
(* The worker thread: composition and the command loop. *)

\* Continue at pc once the events out have been delivered (or lost).
Goto(pc, out) == wpc' = pc /\ outbox' = out /\ taken' = "none"

ComposeOk ==
    /\ At("compose")
    /\ Goto("idle", Panes \o <<Ready>>)
    /\ UNCHANGED <<queueVars, flagVars, sessionVars, exchangeVars, owed,
                   stopVars, handleVars>>

\* compose_session fails, or set_approval_resolver does.
ComposeFails ==
    /\ At("compose")
    /\ Goto("failed", <<Failed, Stopped>>)
    /\ outcome' = "AlreadyStopped"
    /\ UNCHANGED <<queueVars, flagVars, sessionVars, exchangeVars, owed,
                   flushes, handleVars>>

\* The stop bit is seen at the head of the loop, or the command channel is
\* disconnected and empty.
LeaveLoop ==
    /\ At("idle")
    /\ stop \/ (Gone /\ cmds = <<>>)
    /\ Goto("flush", <<>>)
    /\ UNCHANGED <<queueVars, flagVars, sessionVars, exchangeVars, owed,
                   stopVars, handleVars>>

\* recv_timeout yields the oldest command.  A worker that was already inside
\* the receive when the stop bit was set still takes one command.
Receive ==
    /\ At("idle") /\ cmds # <<>>
    /\ taken' = Head(cmds) /\ cmds' = Tail(cmds)
    /\ wpc' = "received"
    /\ UNCHANGED <<evts, flagVars, outbox, sessionVars, exchangeVars, owed,
                   stopVars, handleVars>>

\* The stop bit is read again after the receive: the command is dropped.
DropCommand ==
    /\ At("received") /\ stop /\ taken # "Shutdown"
    /\ Goto("flush", <<>>)
    /\ UNCHANGED <<queueVars, flagVars, sessionVars, exchangeVars, owed,
                   stopVars, handleVars>>

\* Seeded fault: the stop bit is not read again after the receive.
PassStopBlindly ==
    /\ At("received")
    /\ wpc' = "dispatch"
    /\ UNCHANGED <<queueVars, flagVars, taken, outbox, sessionVars,
                   exchangeVars, owed, stopVars, handleVars>>

\* The stop bit is not set, or the command is the shutdown: it is served, and
\* a stop that comes from here on is not looked at before it has been.
PassStop ==
    /\ At("received") /\ (stop => taken = "Shutdown")
    /\ wpc' = "dispatch"
    /\ UNCHANGED <<queueVars, flagVars, taken, outbox, sessionVars,
                   exchangeVars, owed, stopVars, handleVars>>

\* The worker serves command c.
Serves(c) == At("dispatch") /\ taken = c

\* WorkerCommand::Prompt with the cancel flag already set.
PromptCancelled ==
    /\ Serves("Prompt") /\ cancel
    /\ owed' = owed + 1
    /\ Goto("clear", <<Failed, TurnFinished>>)
    /\ UNCHANGED <<queueVars, flagVars, sessionVars, exchangeVars,
                   stopVars, handleVars>>

\* The cancel flag is not set: send_prompt is next, whatever happens to the
\* two flags meanwhile.
PromptGoesOn ==
    /\ Serves("Prompt") /\ ~cancel
    /\ Goto("send", <<>>)
    /\ UNCHANGED <<queueVars, flagVars, sessionVars, exchangeVars, owed,
                   stopVars, handleVars>>

\* WorkerCommand::Prompt, session.send_prompt accepts.
PromptAccepted ==
    /\ At("send") /\ ~responding
    /\ owed' = owed + 1
    /\ responding' = TRUE /\ scancel' = FALSE
    /\ unsettled' = TRUE
    /\ Goto("poll", <<>>)
    /\ UNCHANGED <<queueVars, flagVars, exchangeVars, stopVars, handleVars>>

\* Seeded fault: a refused prompt reports the failure only.
PromptRefusedSilently ==
    /\ At("send")
    /\ owed' = owed + 1
    /\ Goto("clear", <<Failed>>)
    /\ UNCHANGED <<queueVars, flagVars, sessionVars, exchangeVars,
                   stopVars, handleVars>>

\* WorkerCommand::Prompt, session.send_prompt refuses (TooLong, or
\* AlreadyResponding).
PromptRefused ==
    /\ At("send")
    /\ owed' = owed + 1
    /\ Goto("clear", <<Failed, TurnFinished>>)
    /\ UNCHANGED <<queueVars, flagVars, sessionVars, exchangeVars,
                   stopVars, handleVars>>

\* WorkerCommand::Cancel between turns: session.cancel finds nothing to stop.
TakeCancel ==
    /\ Serves("Cancel")
    /\ cancel' = FALSE
    /\ Goto("idle", <<>>)
    /\ UNCHANGED <<queueVars, stop, sessionVars, exchangeVars, owed, stopVars,
                   handleVars>>

\* What a request command answers: the events, in the order they are sent.
Answers(c) ==
    CASE c = "ContextReport" -> {<<Report>>}
      [] c = "PanelsReport"  -> {<<Event("Panels")>>}
      [] c = "SetModel"      -> {<<Ready>>, <<Failed>>}
      [] c = "ModelsFetch"   -> {<<Event("Models")>>, <<Failed>>}
      [] c = "Rebuild"       -> {<<Report, Ready>>, <<Failed>>}
      [] c = "Reload"        -> {<<Report, Ready>>, <<Failed, Ready>>}
      [] OTHER               -> {}

\* ContextReport, ToolsReport and UiPreview (one shape), PanelsReport,
\* SetModel, Rebuild and Reload.
TakeRequest ==
    \E c \in Requests \ {"ModelsFetch"} :
        /\ Serves(c)
        /\ \E out \in Answers(c) : Goto("idle", out)
        /\ UNCHANGED <<queueVars, flagVars, sessionVars, exchangeVars, owed,
                       stopVars, handleVars>>

\* ModelsFetch reads the cancel flag before the probe and clears it after.
TakeModelsFetch ==
    /\ Serves("ModelsFetch")
    /\ \E out \in Answers("ModelsFetch") :
          /\ cancel => out = <<Failed>>
          /\ Goto("clear", out)
    /\ UNCHANGED <<queueVars, flagVars, sessionVars, exchangeVars, owed,
                   stopVars, handleVars>>

TakeShutdown ==
    /\ Serves("Shutdown")
    /\ Goto("flush", <<>>)
    /\ UNCHANGED <<queueVars, flagVars, sessionVars, exchangeVars, owed,
                   stopVars, handleVars>>

----------------------------------------------------------------------------
(* The worker thread: one turn. *)

\* session.poll_event yields an event of the running turn.
PollEvent ==
    /\ At("poll") /\ responding
    /\ Goto("check", <<Event("Session")>>)
    /\ UNCHANGED <<queueVars, flagVars, sessionVars, exchangeVars, owed,
                   stopVars, handleVars>>

\* session.poll_event reaches an action that needs approval: the resolver
\* calls request_blocking, which registers the request and announces it.  A
\* cancelled response runs no further tool.
PollApproval ==
    /\ At("poll") /\ responding /\ ~scancel
    /\ hookId' = nextId
    /\ nextId' = (nextId + 1) % IdSpace
    /\ pending' = pending \cup {nextId}
    /\ reply' = "none" /\ ran' = FALSE
    /\ Goto("hook", <<ApprovalRequest(nextId)>>)
    /\ UNCHANGED <<queueVars, flagVars, sessionVars, owed, stopVars,
                   handleVars>>

\* session.poll_event yields nothing more: the response is over.
PollNone ==
    /\ At("poll")
    /\ responding' = FALSE /\ scancel' = FALSE
    /\ Goto("settle", <<>>)
    /\ UNCHANGED <<queueVars, flagVars, unsettled,
                   exchangeVars, owed, stopVars, handleVars>>

\* Seeded fault: the entry is left in the table when the hook returns.
HookReturnsLeaving(v) ==
    /\ ran' = (v = "Approve")
    /\ Goto("check", <<Event("Session")>>)
    /\ UNCHANGED <<queueVars, flagVars, sessionVars, pending, nextId, hookId,
                   reply, owed, stopVars, handleVars>>

\* request_blocking returns v; the tool runs only when v approves, and
\* poll_event then yields the tool's event.
HookReturns(v) ==
    /\ pending' = pending \ {hookId}
    /\ ran' = (v = "Approve")
    /\ Goto("check", <<Event("Session")>>)
    /\ UNCHANGED <<queueVars, flagVars, sessionVars, nextId, hookId, reply,
                   owed, stopVars, handleVars>>

\* The announcement could not be sent: the frontend is gone.
AnnounceFails == Announcing /\ Gone /\ HookReturns("Deny")

\* A verdict is in the request's channel.
HookVerdict ==
    /\ At("hook") /\ reply # "none"
    /\ HookReturns(reply)

\* recv_timeout ends without a verdict; the stop bit is looked at next.
HookTimeout ==
    /\ At("hook") /\ reply = "none"
    /\ Goto("hookStop", <<>>)
    /\ UNCHANGED <<queueVars, flagVars, sessionVars, exchangeVars, owed,
                   stopVars, handleVars>>

\* Seeded fault: the stop ends the wait with an approval.
HookStoppedOpen == At("hookStop") /\ stop /\ HookReturns("Approve")

HookStopped == At("hookStop") /\ stop /\ HookReturns("Deny")

\* Seeded fault: the wait does not look at the stop bit.
HookWaitsBlind ==
    /\ At("hookStop")
    /\ Goto("hook", <<>>)
    /\ UNCHANGED <<queueVars, flagVars, sessionVars, exchangeVars, owed,
                   stopVars, handleVars>>

HookWaits ==
    /\ At("hookStop") /\ ~stop
    /\ Goto("hook", <<>>)
    /\ UNCHANGED <<queueVars, flagVars, sessionVars, exchangeVars, owed,
                   stopVars, handleVars>>

\* After a delivered session event: pass a requested cancel on to the
\* session, push the pane, poll again.
CheckCancel ==
    /\ At("check")
    /\ scancel' = (scancel \/ cancel)
    /\ Goto("poll", Panes)
    /\ UNCHANGED <<queueVars, flagVars, responding, unsettled,
                   exchangeVars, owed, stopVars, handleVars>>

\* The poll loop is over.  A turn that is really over is settled; then pane,
\* header and TurnFinished.
SettleTurn ==
    /\ At("settle")
    /\ unsettled' = IF responding THEN unsettled ELSE FALSE
    /\ Goto("clear", Panes \o <<Ready, TurnFinished>>)
    /\ UNCHANGED <<queueVars, flagVars, responding, scancel,
                   exchangeVars, owed, stopVars, handleVars>>

\* cancel.clear(), AFTER TurnFinished (or the models answer) was delivered.
ClearCancel ==
    /\ At("clear")
    /\ cancel' = FALSE
    /\ Goto("idle", <<>>)
    /\ UNCHANGED <<queueVars, stop, sessionVars, exchangeVars, owed,
                   stopVars, handleVars>>

----------------------------------------------------------------------------
(* The worker thread: flush_and_stop. *)

\* A response is still active: cancel it and drain it.
Quiesce ==
    /\ At("flush") /\ responding
    /\ scancel' = TRUE
    /\ Goto("drain", <<>>)
    /\ UNCHANGED <<queueVars, flagVars, responding, unsettled,
                   exchangeVars, owed, stopVars, handleVars>>

\* Seeded fault: Stopped is sent before the failure it should follow.
FlushAsReversed(result) ==
    /\ flushes' = flushes + 1
    /\ outcome' = result
    /\ Goto("exit", <<Stopped>>
                    \o (IF result = "Flushed" THEN <<>> ELSE <<Failed>>))

\* The one flush_result and the terminal evidence that follows it.
FlushAs(result) ==
    /\ flushes' = flushes + 1
    /\ outcome' = result
    /\ Goto("exit", (IF result = "Flushed" THEN <<>> ELSE <<Failed>>)
                    \o <<Stopped>>)

FlushOutcomes == {"Flushed", "FlushFailed", "FlushEvidenceMissing"}

\* Seeded fault: the flush does not wait for the active response.
FlushNow ==
    /\ At("flush")
    /\ \E r \in FlushOutcomes : FlushAs(r)
    /\ UNCHANGED <<queueVars, flagVars, sessionVars, exchangeVars, owed,
                   handleVars>>

\* Nothing is active: flush.
FlushQuiet ==
    /\ At("flush") /\ ~responding
    /\ \E r \in FlushOutcomes : FlushAs(r)
    /\ UNCHANGED <<queueVars, flagVars, sessionVars, exchangeVars, owed,
                   handleVars>>

\* drain_until_settled succeeds: turn_settled, then flush.
DrainSettles ==
    /\ At("drain")
    /\ responding' = FALSE /\ unsettled' = FALSE
    /\ \E r \in FlushOutcomes : FlushAs(r)
    /\ UNCHANGED <<queueVars, flagVars, scancel, exchangeVars,
                   owed, handleVars>>

\* drain_until_settled runs out of events or time: flush anyway.
DrainFails ==
    /\ At("drain")
    /\ FlushAs("QuiesceFailed")
    /\ UNCHANGED <<queueVars, flagVars, sessionVars, exchangeVars, owed,
                   handleVars>>

\* The thread ends.
ThreadEnds ==
    /\ At("exit") \/ At("failed")
    /\ Goto("done", <<>>)
    /\ UNCHANGED <<queueVars, flagVars, sessionVars, exchangeVars, owed,
                   stopVars, handleVars>>

WorkerNext ==
    \/ Deliver \/ LoseEvent \/ LoseTerminal \/ LosePlain
    \/ ComposeOk \/ ComposeFails \/ LeaveLoop
    \/ Receive \/ DropCommand \/ PassStop
    \/ PromptCancelled \/ PromptGoesOn \/ PromptAccepted \/ PromptRefused
    \/ TakeCancel \/ TakeRequest \/ TakeModelsFetch \/ TakeShutdown
    \/ PollEvent \/ PollApproval \/ PollNone
    \/ AnnounceFails \/ HookVerdict \/ HookTimeout \/ HookStopped \/ HookWaits
    \/ CheckCancel \/ SettleTurn \/ ClearCancel
    \/ Quiesce \/ FlushQuiet \/ DrainSettles \/ DrainFails \/ ThreadEnds

----------------------------------------------------------------------------
(* The UI thread's half: the operations of WorkerHandle. *)

Live == hpc = "live"

\* try_send has room and the worker still holds the receiver.
Room == Len(cmds) < CmdCap /\ wpc # "done"

\* WorkerHandle::send.  A refused send changes nothing.
Send(c) ==
    /\ Room
    /\ cmds' = Append(cmds, c)
    /\ UNCHANGED <<evts, flagVars, workerVars, sessionVars, exchangeVars,
                   owed, stopVars, handleVars>>

\* WorkerHandle::wait yields the oldest event.
Recv ==
    /\ evts # <<>>
    /\ evts' = Tail(evts)
    /\ UNCHANGED <<cmds, flagVars, workerVars, sessionVars, exchangeVars,
                   owed, stopVars, handleVars>>

\* CancelFlag::request.
RequestCancel ==
    /\ cancel' = TRUE
    /\ UNCHANGED <<queueVars, stop, workerVars, sessionVars, exchangeVars,
                   owed, stopVars, handleVars>>

Hooked == wpc \in {"hook", "hookStop"}

\* ApprovalExchange::deliver for a request the table still holds.  The verdict
\* arrives if the request's receiver is still there.
DeliverVerdict(id, v) ==
    /\ id \in pending
    /\ pending' = pending \ {id}
    /\ reply' = IF Hooked /\ id = hookId THEN v ELSE reply
    /\ UNCHANGED <<queueVars, flagVars, workerVars, sessionVars, nextId,
                   hookId, ran, owed, stopVars, handleVars>>

\* shutdown_typed, first step: request the cancel.
ShutdownCancel ==
    /\ hpc \in {"live", "retry"}
    /\ hpc' = "cancelled" /\ cancel' = TRUE
    /\ UNCHANGED <<queueVars, stop, workerVars, sessionVars, exchangeVars,
                   owed, stopVars, tries>>

\* Seeded fault: the send does not respect the channel's bound.
ShutdownSendUnbounded ==
    /\ hpc = "cancelled"
    /\ hpc' = "sent"
    /\ cmds' = Append(cmds, "Shutdown")
    /\ UNCHANGED <<evts, flagVars, workerVars, sessionVars, exchangeVars,
                   owed, stopVars, tries>>

\* Second step: try_send Shutdown, whose result is ignored.
ShutdownSend ==
    /\ hpc = "cancelled"
    /\ hpc' = "sent"
    /\ cmds' = IF Room THEN Append(cmds, "Shutdown") ELSE cmds
    /\ UNCHANGED <<evts, flagVars, workerVars, sessionVars, exchangeVars,
                   owed, stopVars, tries>>

\* Third step: the stop bit.
ShutdownStop ==
    /\ hpc = "sent"
    /\ hpc' = "joining" /\ stop' = TRUE
    /\ UNCHANGED <<queueVars, cancel, workerVars, sessionVars, exchangeVars,
                   owed, stopVars, tries>>

\* The thread has finished: join it.
Join ==
    /\ hpc = "joining" /\ wpc = "done"
    /\ hpc' = "joined"
    /\ UNCHANGED <<queueVars, flagVars, workerVars, sessionVars, exchangeVars,
                   owed, stopVars, tries>>

\* The explicit shutdown, the guard's Drop and the handle's Drop each make one
\* attempt before the handle is released; a startup failure has no guard yet.
MaxTries == 3

JoinTimesOut ==
    /\ hpc = "joining" /\ wpc # "done"
    /\ tries' = tries + 1
    /\ \/ tries' < MaxTries /\ hpc' = "retry"
       \/ tries' >= MaxTries - 1 /\ hpc' = "dropped"
    /\ UNCHANGED <<queueVars, flagVars, workerVars, sessionVars, exchangeVars,
                   owed, stopVars>>

HandleNext ==
    \/ ShutdownCancel \/ ShutdownSend \/ ShutdownStop \/ Join \/ JoinTimesOut

\* The open frontend: any operation of a live handle.
UiNext ==
    /\ Live
    /\ \/ \E c \in UiCommands : Send(c)
       \/ Recv
       \/ RequestCancel
       \/ \E id \in pending, v \in {"Approve", "Deny"} : DeliverVerdict(id, v)

\* The process is over: the thread has ended and the owner has let go.
Finished ==
    /\ wpc = "done" /\ hpc \in {"joined", "dropped"}
    /\ UNCHANGED vars

Next == WorkerNext \/ UiNext \/ HandleNext \/ Finished

Spec == Init /\ [][Next]_vars

----------------------------------------------------------------------------
(* Properties. *)

WorkerPcs == {"compose", "failed", "idle", "received", "dispatch", "send",
              "poll", "check", "hook", "hookStop", "settle", "clear", "flush",
              "drain", "exit", "done"}

TypeOK ==
    /\ cmds \in Seq(Commands) /\ Len(cmds) <= CmdCap
    /\ evts \in Seq(Events) /\ Len(evts) <= EvtCap
    /\ cancel \in BOOLEAN /\ stop \in BOOLEAN
    /\ wpc \in WorkerPcs /\ taken \in Commands \cup {"none"}
    /\ outbox \in Seq(Events)
    /\ responding \in BOOLEAN /\ scancel \in BOOLEAN
    /\ unsettled \in BOOLEAN
    /\ pending \subseteq Ids /\ nextId \in Ids /\ hookId \in Ids
    /\ reply \in {"none", "Approve", "Deny"} /\ ran \in BOOLEAN
    /\ owed \in Int
    /\ flushes \in Nat
    /\ outcome \in FlushOutcomes \cup {"None", "AlreadyStopped",
                                       "QuiesceFailed"}
    /\ hpc \in {"live", "cancelled", "sent", "joining", "retry", "joined",
                "dropped"}
    /\ tries \in 0 .. MaxTries

\* approval.rs promises that the table holds "an entry ... exactly while its
\* hook is blocked": a request is in the table if and only if it is the one
\* whose hook is blocked and no verdict has been delivered to it.  So a late
\* or repeated verdict never reaches another request.
ExchangeTable ==
    pending = IF Hooked /\ reply = "none" THEN {hookId} ELSE {}

\* "only an explicit approve approves": a gated tool ran only for a request
\* that got an Approve of its own, however the shutdown and the verdict race.
OnlyApprovedRan == ran => reply = "Approve"

\* Between turns of a worker nobody has stopped, no response is active and
\* turn_settled has run for the last one, so that the next prompt cannot fail
\* as AlreadyResponding; and every prompt taken has been answered by exactly
\* one TurnFinished, on every path of the Prompt arm.
IdleIsSettled ==
    At("idle") /\ ~stop => ~responding /\ ~unsettled /\ owed = 0

\* flush_result is called exactly once, by the thread that owns the session
\* and never while a response is active, unless the outcome says that it could
\* not be quiesced; only a thread that never composed a session ends without.
FlushedOnce ==
    /\ flushes <= 1
    /\ wpc \in {"exit", "failed", "done"} =>
         (flushes = 0) = (outcome = "AlreadyStopped")
    /\ flushes = 1 =>
         /\ responding = (outcome = "QuiesceFailed")
         /\ unsettled => responding

\* The terminal evidence is last: nothing follows a Stopped in the event
\* channel, and one that was delivered means the flush is over, or that there
\* is no session to flush.
StoppedIsLast ==
    \A i \in DOMAIN evts :
        evts[i] = Stopped =>
            i = Len(evts) /\ (At("exit") \/ At("failed") \/ At("done"))

\* The worker is in its loop and has not yet looked at the stop bit for the
\* command it has, if it has one.
BeforeStopCheck == wpc \in {"idle", "received"}

\* The stop bit is read twice, before the receive and after it, and neither
\* read is one step with the start of a turn: a turn may start after the stop,
\* but only one whose prompt had passed the second read.  Once a worker that
\* is stopped stands before that read, whatever is queued or in its hand, no
\* turn starts any more.
NothingStartsAfterStop ==
    [](stop /\ BeforeStopCheck => [](wpc \notin {"send", "poll"}))

WorkerFairness == WF_vars(WorkerNext)

\* The worker thread is scheduled; nothing is assumed of the frontend.
FairSpec == Spec /\ WorkerFairness

\* A plain send, the announcement of an approval above all, waits on a full
\* channel.
SendBlocked == PlainSend /\ Full /\ ~Gone

\* Once the stop bit is set the thread ends by itself, whatever it was doing,
\* except that a plain send may wait for room.
StopEndsWorker == stop ~> (wpc = "done" \/ SendBlocked)
=============================================================================
