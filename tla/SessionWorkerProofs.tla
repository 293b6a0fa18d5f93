------------------------ MODULE SessionWorkerProofs ------------------------
(***************************************************************************)
(* Proofs about SessionWorker, for every capacity of the two channels and  *)
(* every set of commands the frontend may send.                            *)
(***************************************************************************)
EXTENDS SessionWorker, SequenceTheorems, TLAPS

USE DEF queueVars, flagVars, sessionVars, exchangeVars, stopVars, handleVars,
        workerVars

----------------------------------------------------------------------------
(* What the worker puts into its outbox. *)

\* Every single event the worker sends is an event.
LEMMA EventTypes ==
    /\ Ready \in Events /\ TurnFinished \in Events /\ Failed \in Events
    /\ Report \in Events /\ Stopped \in Events
    /\ Event("Session") \in Events /\ Event("Pane") \in Events
    /\ Event("Panels") \in Events /\ Event("Models") \in Events
    /\ \A id \in Ids : ApprovalRequest(id) \in Events
  BY SessionWorkerAssumption
  DEF Ready, TurnFinished, Failed, Report, Stopped, Event,
      Events, PlainKinds, ApprovalRequest, Ids

\* What the worker commits itself to deliver is a sequence of events.
LEMMA OutboxTypes ==
    /\ Panes \in Seq(Events)
    /\ Panes \o <<Ready>> \in Seq(Events)
    /\ Panes \o <<Ready, TurnFinished>> \in Seq(Events)
    /\ \A c \in Commands : Answers(c) \subseteq Seq(Events)
  <1>2. Panes \in Seq(Events)
    BY EventTypes DEF Panes
  <1>3. ASSUME NEW c \in Commands, NEW out \in Answers(c)
        PROVE  out \in Seq(Events)
    <2>1. \/ out = <<Report>> \/ out = <<Event("Panels")>>
          \/ out = <<Ready>> \/ out = <<Failed>>
          \/ out = <<Event("Models")>> \/ out = <<Report, Ready>>
          \/ out = <<Failed, Ready>>
      BY DEF Answers, Commands, Requests
    <2>2. /\ <<Report>> \in Seq(Events) /\ <<Event("Panels")>> \in Seq(Events)
          /\ <<Ready>> \in Seq(Events) /\ <<Failed>> \in Seq(Events)
          /\ <<Event("Models")>> \in Seq(Events)
          /\ <<Report, Ready>> \in Seq(Events)
          /\ <<Failed, Ready>> \in Seq(Events)
      BY EventTypes
    <2> QED BY <2>1, <2>2
  <1>4. <<Ready>> \in Seq(Events) /\ <<Ready, TurnFinished>> \in Seq(Events)
    BY EventTypes
  <1> QED BY <1>2, <1>3, <1>4, ConcatProperties

----------------------------------------------------------------------------
(* Types. *)

\* The type invariant, and a handle that has not been dropped has an attempt
\* left.
TypeInv == TypeOK /\ (hpc # "dropped" => tries < MaxTries)

LEMMA TypeInit == Init => TypeInv
  <1> SUFFICES ASSUME Init PROVE TypeInv
    OBVIOUS
  <1>1. <<>> \in Seq(Commands) /\ <<>> \in Seq(Events) /\ Len(<<>>) = 0
    BY EmptySeq
  <1>2. 0 \in Ids
    BY SessionWorkerAssumption DEF Ids
  <1>3. /\ cancel \in BOOLEAN /\ stop \in BOOLEAN /\ responding \in BOOLEAN
        /\ scancel \in BOOLEAN /\ unsettled \in BOOLEAN /\ ran \in BOOLEAN
    BY Zenon DEF Init
  <1> QED BY <1>1, <1>2, <1>3, SessionWorkerAssumption
          DEF Init, TypeInv, TypeOK, WorkerPcs, MaxTries

\* Delivering and losing events.
LEMMA TypeDelivery ==
    TypeInv /\ (Deliver \/ LoseEvent \/ LoseTerminal \/ LosePlain) => TypeInv'
  <1> SUFFICES ASSUME TypeInv,
                      Deliver \/ LoseEvent \/ LoseTerminal \/ LosePlain
               PROVE  TypeInv'
    OBVIOUS
  <1> USE DEF TypeInv, TypeOK
  <1>1. /\ outbox # <<>>
        /\ outbox' = Tail(outbox)
        /\ outbox' \in Seq(Events)
        /\ Head(outbox) \in Events
    BY HeadTailProperties 
    DEF Deliver, LoseEvent, LoseTerminal, LosePlain, Delivering
  <1>2. CASE Deliver
    <2>1. evts' \in Seq(Events) /\ Len(evts') = Len(evts) + 1
      BY <1>1, <1>2, AppendProperties DEF Deliver
    <2>2. Len(evts') <= EvtCap
      BY <2>1, <1>2, SessionWorkerAssumption DEF Deliver, Full
    <2>3. owed' \in Int
      BY <1>2 DEF Deliver
    <2> QED BY <2>1, <2>2, <2>3, <1>1, <1>2 DEF Deliver
  <1>3. CASE LoseEvent
    BY <1>1, <1>3 DEF LoseEvent, AfterLoss, WorkerPcs
  <1>4. CASE LoseTerminal \/ LosePlain
    BY <1>1, <1>4 DEF LoseTerminal, LosePlain
  <1> QED BY <1>2, <1>3, <1>4

\* Every other step of the worker.
LEMMA TypeWorker == TypeInv /\ WorkerNext => TypeInv'
  <1> SUFFICES ASSUME TypeInv, WorkerNext PROVE TypeInv'
    OBVIOUS
  <1> USE DEF TypeInv, TypeOK, WorkerPcs, At, Goto
  <1>a. <<>> \in Seq(Events) /\ Len(<<>>) = 0
    BY EmptySeq
  <1>b. /\ <<Failed, Stopped>> \in Seq(Events) /\ <<Stopped>> \in Seq(Events)
        /\ <<Failed, TurnFinished>> \in Seq(Events)
        /\ <<Event("Session")>> \in Seq(Events)
        /\ \A id \in Ids : <<ApprovalRequest(id)>> \in Seq(Events)
    BY EventTypes
  <1>d. ASSUME NEW r \in FlushOutcomes \cup {"QuiesceFailed"}, FlushAs(r)
        PROVE  /\ wpc' = "exit" /\ outbox' \in Seq(Events)
               /\ taken' = "none" /\ flushes' \in Nat /\ outcome' = r
    <2>1. CASE r = "Flushed"
      <3>1. outbox' = <<>> \o <<Stopped>>
        BY <1>d, <2>1 DEF FlushAs
      <3> QED BY <3>1, <1>a, <1>b, <1>d, ConcatProperties DEF FlushAs
    <2>2. CASE r # "Flushed"
      <3>1. outbox' = <<Failed>> \o <<Stopped>>
        BY <1>d, <2>2 DEF FlushAs
      <3>2. <<Failed>> \in Seq(Events)
        BY EventTypes
      <3> QED BY <3>1, <3>2, <1>b, <1>d, ConcatProperties DEF FlushAs
    <2> QED BY <2>1, <2>2
  <1>e. ASSUME NEW v, HookReturns(v) PROVE TypeInv'
    BY <1>e, <1>b DEF HookReturns
  <1>1. CASE Deliver \/ LoseEvent \/ LoseTerminal \/ LosePlain
    BY <1>1, TypeDelivery
  <1>2. CASE ComposeOk
    BY <1>2, OutboxTypes DEF ComposeOk
  <1>3. CASE ComposeFails
    BY <1>3, <1>b DEF ComposeFails
  <1>4. CASE LeaveLoop
    BY <1>4, <1>a DEF LeaveLoop
  <1>c. CASE Receive
    <2>1. /\ cmds' \in Seq(Commands) /\ Len(cmds') <= CmdCap
          /\ taken' \in Commands
      BY <1>c, HeadTailProperties, SessionWorkerAssumption DEF Receive
    <2> QED BY <2>1, <1>c DEF Receive
  <1>5. CASE DropCommand \/ PassStop
    BY <1>5, <1>a DEF DropCommand, PassStop
  <1>6. CASE PromptCancelled
    <2>1. owed' \in Int
      BY <1>6 DEF PromptCancelled
    <2> QED BY <2>1, <1>6, <1>b DEF PromptCancelled
  <1>6a. CASE PromptGoesOn
    BY <1>6a, <1>a DEF PromptGoesOn
  <1>7. CASE PromptAccepted
    <2>1. /\ responding' \in BOOLEAN /\ scancel' \in BOOLEAN
          /\ unsettled' \in BOOLEAN
      BY <1>7, Zenon DEF PromptAccepted
    <2> QED BY <2>1, <1>7, <1>a DEF PromptAccepted
  <1>8. CASE PromptRefused
    BY <1>8, <1>b DEF PromptRefused
  <1>9. CASE TakeCancel
    <2>1. cancel' \in BOOLEAN
      BY <1>9, Zenon DEF TakeCancel
    <2> QED BY <2>1, <1>9, <1>a DEF TakeCancel
  <1>10. CASE TakeRequest
    <2>1. PICK c \in Requests \ {"ModelsFetch"} :
              /\ \E out \in Answers(c) : Goto("idle", out)
              /\ UNCHANGED <<queueVars, flagVars, sessionVars, exchangeVars,
                             owed, stopVars, handleVars>>
      BY <1>10 DEF TakeRequest
    <2>2. outbox' \in Seq(Events) /\ wpc' = "idle" /\ taken' = "none"
      BY <2>1, OutboxTypes DEF Commands
    <2> QED BY <2>1, <2>2
  <1>11. CASE TakeModelsFetch
    <2>1. outbox' \in Seq(Events) /\ wpc' = "clear" /\ taken' = "none"
      BY <1>11, OutboxTypes DEF TakeModelsFetch, Commands, Requests
    <2> QED BY <2>1, <1>11 DEF TakeModelsFetch
  <1>12. CASE TakeShutdown
    BY <1>12, <1>a DEF TakeShutdown
  <1>13. CASE PollEvent
    BY <1>13, <1>b DEF PollEvent
  <1>14. CASE PollApproval
    <2>1. nextId' \in Ids
      BY <1>14, SessionWorkerAssumption DEF PollApproval, Ids
    <2> QED BY <2>1, <1>14, <1>b DEF PollApproval
  <1>15. CASE PollNone
    <2>1. responding' \in BOOLEAN /\ scancel' \in BOOLEAN
      BY <1>15, Zenon DEF PollNone
    <2> QED BY <2>1, <1>15, <1>a DEF PollNone
  <1>16. CASE AnnounceFails
    BY <1>16, <1>e DEF AnnounceFails
  <1>17. CASE HookVerdict
    BY <1>17, <1>e DEF HookVerdict
  <1>18. CASE HookTimeout
    BY <1>18, <1>a DEF HookTimeout
  <1>19. CASE HookStopped
    BY <1>19, <1>e DEF HookStopped
  <1>20. CASE HookWaits
    BY <1>20, <1>a DEF HookWaits
  <1>21. CASE CheckCancel
    BY <1>21, OutboxTypes DEF CheckCancel
  <1>22. CASE SettleTurn
    <2>1. unsettled' \in BOOLEAN
      BY <1>22, Zenon DEF SettleTurn
    <2>2. /\ wpc' = "clear" /\ outbox' \in Seq(Events) /\ taken' = "none"
          /\ UNCHANGED <<queueVars, flagVars, responding, scancel,
                         exchangeVars, owed, stopVars, handleVars>>
      BY <1>22, OutboxTypes DEF SettleTurn
    <2> QED BY <2>1, <2>2
  <1>23. CASE ClearCancel
    <2>1. cancel' \in BOOLEAN
      BY <1>23, Zenon DEF ClearCancel
    <2> QED BY <2>1, <1>23, <1>a DEF ClearCancel
  <1>24. CASE Quiesce
    BY <1>24, <1>a DEF Quiesce
  <1>25. CASE FlushQuiet
    BY <1>25, <1>d DEF FlushQuiet
  <1>26. CASE DrainSettles
    <2>1. responding' \in BOOLEAN /\ unsettled' \in BOOLEAN
      BY <1>26, Zenon DEF DrainSettles
    <2> QED BY <2>1, <1>26, <1>d DEF DrainSettles
  <1>27. CASE DrainFails
    BY <1>27, <1>d DEF DrainFails
  <1>28. CASE ThreadEnds
    BY <1>28, <1>a DEF ThreadEnds
  <1> QED
    BY <1>1, <1>2, <1>3, <1>4, <1>c, <1>5, <1>6, <1>6a, <1>7, <1>8, <1>9,
       <1>10, <1>11, <1>12, <1>13, <1>14, <1>15, <1>16, <1>17, <1>18, <1>19,
       <1>20, <1>21,
       <1>22, <1>23, <1>24, <1>25, <1>26, <1>27, <1>28
    DEF WorkerNext

\* The steps of the frontend and of the handle's shutdown.
LEMMA TypeUi == TypeInv /\ (UiNext \/ HandleNext) => TypeInv'
  <1> SUFFICES ASSUME TypeInv, UiNext \/ HandleNext PROVE TypeInv'
    OBVIOUS
  <1> USE DEF TypeInv, TypeOK
  <1>1. ASSUME NEW c \in Commands, cmds' = Append(cmds, c), Room
        PROVE  cmds' \in Seq(Commands) /\ Len(cmds') <= CmdCap
    BY <1>1, AppendProperties, SessionWorkerAssumption DEF Room
  <1>2. CASE \E c \in UiCommands : Send(c)
    BY <1>2, <1>1, UiCommandsAssumption DEF Send
  <1>3. CASE Recv
    BY <1>3, HeadTailProperties, SessionWorkerAssumption DEF Recv
  <1>4. CASE RequestCancel
    BY <1>4 DEF RequestCancel
  <1>5. CASE \E id \in pending, v \in {"Approve", "Deny"} :
                DeliverVerdict(id, v)
    BY <1>5 DEF DeliverVerdict
  <1>6. CASE ShutdownCancel
    BY <1>6 DEF ShutdownCancel
  <1>7. CASE ShutdownSend
    BY <1>7, <1>1 DEF ShutdownSend, Commands
  <1>8. CASE ShutdownStop
    BY <1>8 DEF ShutdownStop
  <1>9. CASE Join
    BY <1>9 DEF Join
  <1>10. CASE JoinTimesOut
    BY <1>10 DEF JoinTimesOut, MaxTries
  <1> QED
    BY <1>2, <1>3, <1>4, <1>5, <1>6, <1>7, <1>8, <1>9, <1>10
    DEF UiNext, HandleNext

LEMMA TypeStep == TypeInv /\ [Next]_vars => TypeInv'
  <1>1. TypeInv /\ UNCHANGED vars => TypeInv'
    BY DEF vars, TypeInv, TypeOK, Ids, WorkerPcs
  <1> QED BY <1>1, TypeWorker, TypeUi DEF Next, Finished

\* Every variable of the worker, of the two channels and of the handle keeps
\* its type and its bound, whatever the capacities: in particular neither
\* channel is ever filled beyond its capacity, and the owner makes at most
\* MaxTries shutdown attempts.
THEOREM TypeCorrect == Spec => []TypeOK
  <1>1. TypeInv => TypeOK
    BY DEF TypeInv
  <1> QED BY TypeInit, TypeStep, <1>1, PTL DEF Spec

----------------------------------------------------------------------------
(* The approval exchange. *)

\* The table and the verdict fit together, and the tool of a request whose
\* hook is still blocked has not run.
HookInv == ExchangeTable /\ OnlyApprovedRan /\ (Hooked => ~ran)

LEMMA HookInit == Init => HookInv
  BY Zenon DEF Init, HookInv, ExchangeTable, OnlyApprovedRan, Hooked

\* A step that leaves the exchange alone and does not cross the border of the
\* hook preserves the invariant.
LEMMA HookFrame ==
    HookInv /\ UNCHANGED exchangeVars /\ Hooked' = Hooked => HookInv'
  BY DEF HookInv, ExchangeTable, OnlyApprovedRan

LEMMA HookStep == TypeInv /\ HookInv /\ [Next]_vars => HookInv'
  <1> SUFFICES ASSUME TypeInv, HookInv, [Next]_vars PROVE HookInv'
    OBVIOUS
  <1> USE DEF Goto, At
  <1>1. CASE \/ Deliver \/ LoseTerminal \/ LosePlain
             \/ HookTimeout \/ HookWaits
             \/ UiNext /\ ~(\E id \in pending, v \in {"Approve", "Deny"} :
                               DeliverVerdict(id, v))
             \/ HandleNext \/ UNCHANGED vars
    <2>1. UNCHANGED exchangeVars /\ Hooked' = Hooked
      BY <1>1
      DEF Deliver, LoseTerminal, LosePlain, HookTimeout, HookWaits, UiNext,
         HandleNext, vars, Hooked, Send, Recv, RequestCancel, ShutdownCancel,
         ShutdownSend, ShutdownStop, Join, JoinTimesOut
    <2> QED BY <2>1, HookFrame
  <1>2. CASE LoseEvent
    <2>1. UNCHANGED exchangeVars /\ Hooked' = Hooked
      BY <1>2 DEF LoseEvent, AfterLoss, Hooked
    <2> QED BY <2>1, HookFrame
  <1>3. CASE \/ ComposeOk \/ ComposeFails \/ LeaveLoop
             \/ Receive \/ DropCommand \/ PassStop
             \/ PromptCancelled \/ PromptGoesOn \/ PromptAccepted
             \/ PromptRefused
             \/ TakeCancel \/ TakeRequest \/ TakeModelsFetch \/ TakeShutdown
    <2>1. UNCHANGED exchangeVars /\ Hooked' = Hooked
      BY <1>3 DEF ComposeOk, ComposeFails, LeaveLoop, Receive, DropCommand,
         PassStop, PromptCancelled, PromptGoesOn, PromptAccepted,
         PromptRefused, TakeCancel, TakeRequest, TakeModelsFetch,
         TakeShutdown, Serves, Hooked
    <2> QED BY <2>1, HookFrame
  <1>4. CASE \/ PollEvent \/ PollNone \/ CheckCancel \/ SettleTurn
             \/ ClearCancel \/ Quiesce \/ ThreadEnds
    <2>1. UNCHANGED exchangeVars
      BY <1>4, Zenon DEF PollEvent, PollNone, CheckCancel, SettleTurn,
         ClearCancel, Quiesce, ThreadEnds
    <2>2. /\ wpc \in {"poll", "check", "settle", "clear", "flush", "exit",
                      "failed"}
          /\ wpc' \in {"check", "settle", "poll", "clear", "idle", "drain",
                       "done"}
      BY <1>4, Zenon DEF PollEvent, PollNone, CheckCancel, SettleTurn,
         ClearCancel, Quiesce, ThreadEnds
    <2>3. Hooked' = Hooked
      BY <2>2 DEF Hooked
    <2> QED BY <2>1, <2>3, HookFrame
  <1>9. CASE FlushQuiet \/ DrainSettles \/ DrainFails
    <2>1. /\ UNCHANGED exchangeVars
          /\ wpc \in {"flush", "drain"} /\ wpc' = "exit"
      BY <1>9 DEF FlushQuiet, FlushAs, DrainSettles, DrainFails
    <2>2. Hooked' = Hooked
      BY <2>1 DEF Hooked
    <2> QED BY <2>1, <2>2, HookFrame
  \* Registering: the table was empty and holds the new id.
  <1>5. CASE PollApproval
    <2>1. pending = {} /\ pending' = {hookId'} /\ reply' = "none" /\ Hooked'
      BY <1>5 DEF PollApproval, HookInv, ExchangeTable, Hooked
    <2>2. ran' = FALSE
      BY <1>5 DEF PollApproval
    <2> QED BY <2>1, <2>2, Zenon DEF HookInv, ExchangeTable, OnlyApprovedRan
  \* Returning: the entry, if it is still there, goes, and the tool runs only
  \* for the verdict that was delivered.
  <1>6. ASSUME NEW v, HookReturns(v), Hooked, v = "Deny" \/ v = reply
        PROVE  HookInv'
    <2>1. ~Hooked' /\ reply' = reply /\ pending' = {}
      BY <1>6 DEF HookReturns, HookInv, ExchangeTable, Hooked
    <2>2. ran' = (v = "Approve")
      BY <1>6 DEF HookReturns
    <2>3. ran' => reply = "Approve"
      BY <1>6, <2>2
    <2> QED BY <2>1, <2>3 DEF HookInv, ExchangeTable, OnlyApprovedRan
  <1>7. CASE AnnounceFails \/ HookVerdict \/ HookStopped
    BY <1>6, <1>7
    DEF AnnounceFails, Announcing, HookVerdict, HookStopped, Hooked
  \* Delivering: the only entry is the blocked hook's own, so that a verdict
  \* for it is the verdict of the latest request.
  <1>8. CASE \E id \in pending, v \in {"Approve", "Deny"} :
                DeliverVerdict(id, v)
    <2>1. PICK id \in pending, v \in {"Approve", "Deny"} :
              DeliverVerdict(id, v)
      BY <1>8
    <2>2. Hooked /\ reply = "none" /\ id = hookId /\ pending = {hookId}
      BY <2>1 DEF HookInv, ExchangeTable
    <2>3. /\ Hooked' /\ reply' = v /\ pending' = {}
          /\ hookId' = hookId /\ ran' = ran
      BY <2>1, <2>2 DEF DeliverVerdict, Hooked
    <2> QED BY <2>2, <2>3 DEF HookInv, ExchangeTable, OnlyApprovedRan
  <1> QED
    BY <1>1, <1>2, <1>3, <1>4, <1>5, <1>7, <1>8, <1>9
    DEF Next, WorkerNext, Finished

\* The table of the approval exchange holds exactly the request whose hook is
\* blocked without a verdict (approval.rs), for any number of request ids,
\* wrap-around included, and any interleaving of verdict, timeout and stop.
THEOREM ExchangeTableHolds == Spec => []ExchangeTable
  <1>1. HookInv => ExchangeTable
    BY DEF HookInv
  <1> QED BY TypeInit, TypeStep, HookInit, HookStep, <1>1, PTL DEF Spec

\* Only an explicit approve of its own request lets a gated tool run.
THEOREM OnlyApprovedRanHolds == Spec => []OnlyApprovedRan
  <1>1. HookInv => OnlyApprovedRan
    BY DEF HookInv
  <1> QED BY TypeInit, TypeStep, HookInit, HookStep, <1>1, PTL DEF Spec

----------------------------------------------------------------------------
(* One response, one settling, one flush. *)

RespondingPcs == {"poll", "check", "hook", "hookStop"}

TurnPcs == RespondingPcs \cup {"settle"}

\* Where a response can be active, where its demand loop can be owed, and
\* that nothing has been flushed before the thread is on its way out.
TurnInv ==
    /\ responding /\ ~stop => wpc \in RespondingPcs
    /\ unsettled /\ ~stop => wpc \in TurnPcs
    /\ unsettled => responding \/ wpc = "settle"
    /\ wpc = "drain" => responding
    /\ wpc \notin {"exit", "failed", "done"}
         => flushes = 0 /\ outcome = "None"
    /\ FlushedOnce

LEMMA TurnInit == Init => TurnInv
  BY DEF Init, TurnInv, FlushedOnce, RespondingPcs, TurnPcs

\* Setting the stop bit, and every step that leaves the worker and its session
\* alone, preserves the invariant.
LEMMA TurnFrame ==
    /\ TurnInv /\ UNCHANGED <<wpc, responding, unsettled, flushes, outcome>>
    /\ stop => stop'
    => TurnInv'
  BY DEF TurnInv, FlushedOnce

LEMMA TurnStep == TypeInv /\ TurnInv /\ [Next]_vars => TurnInv'
  <1> SUFFICES ASSUME TypeInv, TurnInv, [Next]_vars PROVE TurnInv'
    OBVIOUS
  <1> USE DEF Goto, At
  <1>0. /\ responding \in BOOLEAN /\ unsettled \in BOOLEAN /\ stop \in BOOLEAN
        /\ flushes \in Nat
    BY DEF TypeInv, TypeOK
  <1>1. CASE \/ Deliver \/ LoseTerminal \/ LosePlain \/ UiNext \/ HandleNext
             \/ UNCHANGED vars
    <2>1. /\ UNCHANGED <<wpc, responding, unsettled, flushes, outcome>>
          /\ stop => stop'
      BY <1>1, <1>0
      DEF Deliver, LoseTerminal, LosePlain, UiNext, HandleNext, vars, Send,
          Recv,
          RequestCancel, DeliverVerdict, ShutdownCancel, ShutdownSend,
          ShutdownStop, Join, JoinTimesOut
    <2> QED BY <2>1, TurnFrame
  <1>2. CASE LoseEvent
    <2>1. /\ UNCHANGED <<responding, unsettled, flushes, outcome>>
          /\ stop' = TRUE /\ wpc \notin {"exit", "failed"}
          /\ wpc' = wpc \/ (wpc = "check" /\ wpc' = "settle")
      BY <1>2 DEF LoseEvent, AfterLoss, Terminal, PlainSend, Delivering
    <2> QED BY <2>1, <1>0 DEF TurnInv, FlushedOnce
  \* Between turns: the invariant says that nothing is active or unsettled.
  <1>3. ASSUME wpc \notin TurnPcs \cup {"drain", "exit", "failed", "done"},
               wpc' \notin {"settle", "drain", "exit", "failed", "done"},
               UNCHANGED <<responding, unsettled, flushes, outcome, stop>>
        PROVE  TurnInv'
    BY <1>3, <1>0 DEF TurnInv, FlushedOnce, RespondingPcs, TurnPcs
  <1>4. CASE \/ ComposeOk \/ LeaveLoop \/ Receive \/ DropCommand \/ PassStop
             \/ PromptCancelled \/ PromptGoesOn
             \/ PromptRefused \/ TakeCancel \/ TakeRequest
             \/ TakeModelsFetch \/ TakeShutdown \/ ClearCancel
    <2>1. /\ wpc \in {"compose", "idle", "received", "dispatch", "send",
                      "clear"}
          /\ wpc' \in {"idle", "received", "dispatch", "send", "flush",
                       "clear"}
          /\ UNCHANGED <<responding, unsettled, flushes, outcome, stop>>
      BY <1>4, Zenon
      DEF ComposeOk, LeaveLoop, Receive, DropCommand, PassStop,
          PromptCancelled, PromptGoesOn, PromptRefused, TakeCancel,
          TakeRequest, TakeModelsFetch, TakeShutdown, ClearCancel, Serves
    <2> QED BY <2>1, <1>3 DEF TurnPcs, RespondingPcs
  <1>5. CASE ComposeFails
    <2>1. /\ wpc = "compose" /\ wpc' = "failed"
          /\ outcome' = "AlreadyStopped"
          /\ UNCHANGED <<responding, unsettled, flushes, stop>>
      BY <1>5 DEF ComposeFails
    <2>2. flushes' = 0
      BY <2>1 DEF TurnInv
    <2>3. FlushedOnce'
      BY <2>1, <2>2 DEF FlushedOnce
    <2> QED BY <2>1, <2>3, <1>0 DEF TurnInv, RespondingPcs, TurnPcs
  <1>6. CASE PromptAccepted
    <2>1. /\ responding' /\ unsettled' /\ wpc' = "poll"
          /\ flushes' = 0 /\ outcome' = "None"
      BY <1>6 DEF PromptAccepted, TurnInv
    <2> QED BY <2>1 DEF TurnInv, FlushedOnce, RespondingPcs, TurnPcs
  \* Inside a turn.
  <1>7. ASSUME wpc \in RespondingPcs, wpc' \in RespondingPcs,
               UNCHANGED <<responding, unsettled, flushes, outcome, stop>>
        PROVE  TurnInv'
    BY <1>7, <1>0 DEF TurnInv, FlushedOnce, RespondingPcs, TurnPcs
  <1>8. CASE \/ PollEvent \/ PollApproval \/ AnnounceFails \/ HookVerdict
             \/ HookTimeout \/ HookStopped \/ HookWaits \/ CheckCancel
    <2>1. /\ wpc \in RespondingPcs /\ wpc' \in RespondingPcs
          /\ UNCHANGED <<responding, unsettled, flushes, outcome, stop>>
      BY <1>8, Zenon
      DEF PollEvent, PollApproval, AnnounceFails, Announcing, HookVerdict,
          HookTimeout, HookStopped, HookWaits, HookReturns, CheckCancel,
          RespondingPcs
    <2> QED BY <2>1, <1>7
  <1>9. CASE PollNone
    <2>1. /\ ~responding' /\ wpc' = "settle" /\ wpc = "poll"
          /\ UNCHANGED <<unsettled, flushes, outcome, stop>>
      BY <1>9 DEF PollNone
    <2> QED BY <2>1 DEF TurnInv, FlushedOnce, RespondingPcs, TurnPcs
  <1>10. CASE SettleTurn
    <2>1. /\ unsettled' => responding
          /\ wpc' = "clear" /\ wpc = "settle"
          /\ UNCHANGED <<responding, flushes, outcome, stop>>
      BY <1>10, Zenon DEF SettleTurn
    <2> QED BY <2>1, <1>0
            DEF TurnInv, FlushedOnce, RespondingPcs, TurnPcs
  \* Leaving.
  <1>16. ASSUME wpc' = "exit", flushes' = 1, outcome' # "AlreadyStopped",
                responding' <=> outcome' = "QuiesceFailed",
                responding' \in BOOLEAN,
                unsettled' => responding', responding' => stop'
         PROVE  TurnInv'
    <2>1. ((flushes' = 0) = (outcome' = "AlreadyStopped"))
      BY <1>16
    <2>2. responding' = (outcome' = "QuiesceFailed")
      BY <1>16
    <2>3. FlushedOnce'
      BY <2>1, <2>2, <1>16 DEF FlushedOnce
    <2> QED BY <2>3, <1>16 DEF TurnInv
  <1>11. CASE Quiesce
    BY <1>11, <1>0
    DEF Quiesce, TurnInv, FlushedOnce, RespondingPcs, TurnPcs
  <1>12. CASE FlushQuiet
    <2>1. PICK r \in FlushOutcomes : FlushAs(r)
      BY <1>12 DEF FlushQuiet
    <2>2. /\ wpc = "flush" /\ ~responding /\ responding' = responding
          /\ unsettled' = unsettled /\ wpc' = "exit"
          /\ outcome' = r /\ flushes' = flushes + 1 /\ stop' = stop
      BY <1>12, <2>1, Zenon DEF FlushQuiet, FlushAs
    <2>3. flushes' = 1 /\ ~unsettled
      BY <2>2 DEF TurnInv
    <2>4. r # "AlreadyStopped" /\ r # "QuiesceFailed"
      BY DEF FlushOutcomes
    <2> QED BY <2>2, <2>3, <2>4, <1>0, <1>16
  <1>13. CASE DrainSettles
    <2>1. PICK r \in FlushOutcomes : FlushAs(r)
      BY <1>13 DEF DrainSettles
    <2>2. /\ wpc = "drain" /\ wpc' = "exit"
          /\ outcome' = r /\ flushes' = flushes + 1
      BY <1>13, <2>1, Zenon DEF DrainSettles, FlushAs
    <2>3. responding' = FALSE /\ unsettled' = FALSE
      BY <1>13, Zenon DEF DrainSettles
    <2>4. flushes' = 1
      BY <2>2 DEF TurnInv
    <2>5. r # "AlreadyStopped" /\ r # "QuiesceFailed"
      BY DEF FlushOutcomes
    <2>6. /\ responding' \in BOOLEAN /\ ~responding' /\ ~unsettled'
      BY <2>3, Zenon
    <2> QED BY <2>2, <2>4, <2>5, <2>6, <1>16
  <1>14. CASE DrainFails
    <2>1. /\ wpc = "drain" /\ wpc' = "exit"
          /\ UNCHANGED <<responding, unsettled, stop>>
          /\ outcome' = "QuiesceFailed" /\ flushes' = flushes + 1
      BY <1>14, Zenon DEF DrainFails, FlushAs
    <2>2. responding = TRUE
      BY <2>1, <1>0 DEF TurnInv
    <2>3. flushes' = 1 /\ (responding /\ ~stop => FALSE)
      BY <2>1 DEF TurnInv, RespondingPcs
    <2> QED BY <2>1, <2>2, <2>3, <1>0, <1>16
  <1>15. CASE ThreadEnds
    BY <1>15, <1>0
    DEF ThreadEnds, TurnInv, FlushedOnce, RespondingPcs, TurnPcs
  <1> QED
    BY <1>1, <1>2, <1>4, <1>5, <1>6, <1>8, <1>9, <1>10, <1>11, <1>12, <1>13,
       <1>14, <1>15
    DEF Next, WorkerNext, Finished

\* flush_result is called at most once, and never while a response is active
\* unless its outcome admits it.
THEOREM FlushedOnceHolds == Spec => []FlushedOnce
  <1>1. TurnInv => FlushedOnce
    BY DEF TurnInv
  <1> QED BY TypeInit, TypeStep, TurnInit, TurnStep, <1>1, PTL DEF Spec

----------------------------------------------------------------------------
(* The shapes of the worker's outbox. *)

\* Neither a TurnFinished nor a Stopped is in out.
Plain(out) ==
    \A i \in 1 .. Len(out) : out[i] # TurnFinished /\ out[i] # Stopped

\* out ends with e, and nothing before it is a TurnFinished or a Stopped.
EndsWith(out, e) ==
    /\ Len(out) >= 1 /\ out[Len(out)] = e
    /\ \A i \in 1 .. Len(out) - 1 : out[i] # TurnFinished /\ out[i] # Stopped

LEMMA Distinct ==
    /\ TurnFinished # Stopped
    /\ \A e \in {Ready, Failed, Report, Event("Session"),
                 Event("Pane"), Event("Panels"), Event("Models")} :
          e # TurnFinished /\ e # Stopped
    /\ \A id : ApprovalRequest(id) # TurnFinished
               /\ ApprovalRequest(id) # Stopped
  <1>1. TurnFinished.kind = "TurnFinished" /\ Stopped.kind = "Stopped"
    BY DEF TurnFinished, Stopped, Event
  <1>2. /\ Ready.kind = "Ready" /\ Failed.kind = "Failed"
        /\ Report.kind = "Report"
        /\ Event("Session").kind = "Session" /\ Event("Pane").kind = "Pane"
        /\ Event("Panels").kind = "Panels"
        /\ Event("Models").kind = "Models"
    BY DEF Ready, Failed, Report, Event
  <1>3. \A id : ApprovalRequest(id).kind = "ApprovalRequest"
    BY DEF ApprovalRequest
  <1> QED BY <1>1, <1>2, <1>3

\* A tuple of one or two events.
LEMMA PlainTuples ==
    ASSUME NEW a \in Events, NEW b \in Events,
           a # TurnFinished, a # Stopped
    PROVE  /\ Plain(<<>>) /\ Plain(<<a>>)
           /\ b # TurnFinished /\ b # Stopped => Plain(<<a, b>>)
           /\ EndsWith(<<b>>, b) /\ EndsWith(<<a, b>>, b)
  BY DEF Plain, EndsWith

LEMMA PlainPanes ==
    /\ Plain(Panes) /\ Plain(Panes \o <<Ready>>)
    /\ EndsWith(Panes \o <<Ready, TurnFinished>>, TurnFinished)
  <1>1. CASE HasPane
    <2>1. Panes = <<Event("Pane")>>
      BY <1>1 DEF Panes
    <2> DEFINE p == <<Event("Pane")>>
               r == <<Ready>>
               f == <<Ready, TurnFinished>>
    <2>2. /\ p \in Seq(Events) /\ Len(p) = 1 /\ p[1] = Event("Pane")
          /\ r \in Seq(Events) /\ Len(r) = 1 /\ r[1] = Ready
          /\ f \in Seq(Events) /\ Len(f) = 2 /\ f[1] = Ready
          /\ f[2] = TurnFinished
      BY EventTypes
    <2> HIDE DEF p, r, f
    <2>6. ASSUME NEW s \in Seq(Events)
          PROVE  /\ Len(p \o s) = Len(p) + Len(s)
                 /\ \A i \in 1 .. Len(p) + Len(s) :
                       (p \o s)[i] = IF i <= Len(p) THEN p[i]
                                                   ELSE s[i - Len(p)]
      BY <2>2, ConcatProperties
    <2>3. /\ Len(p \o r) = 2 /\ (p \o r)[1] = p[1] /\ (p \o r)[2] = r[1]
      BY <2>2, <2>6
    <2>4. /\ Len(p \o f) = 3 /\ (p \o f)[1] = p[1] /\ (p \o f)[2] = f[1]
          /\ (p \o f)[3] = f[2]
      BY <2>2, <2>6
    <2>5. Plain(p) /\ Plain(p \o r) /\ EndsWith(p \o f, TurnFinished)
      BY <2>2, <2>3, <2>4, Distinct DEF Plain, EndsWith
    <2> QED BY <2>1, <2>5 DEF p, r, f
  <1>2. CASE ~HasPane
    <2>1. Panes = <<>>
      BY <1>2 DEF Panes
    <2>2. <<Ready>> \in Seq(Events) /\ <<Ready, TurnFinished>> \in Seq(Events)
      BY EventTypes
    <2>3. /\ Panes \o <<Ready>> = <<Ready>>
          /\ Panes \o <<Ready, TurnFinished>> = <<Ready, TurnFinished>>
      BY <2>1, <2>2, ConcatEmptySeq
    <2> QED BY <2>1, <2>3, PlainTuples, Distinct, EventTypes
  <1> QED BY <1>1, <1>2

LEMMA PlainAnswers ==
    \A c \in Commands : \A out \in Answers(c) : Plain(out)
  <1> SUFFICES ASSUME NEW c \in Commands, NEW out \in Answers(c)
               PROVE  Plain(out)
    OBVIOUS
  <1>1. \/ out = <<Report>> \/ out = <<Event("Panels")>>
        \/ out = <<Ready>> \/ out = <<Failed>>
        \/ out = <<Event("Models")>> \/ out = <<Report, Ready>>
        \/ out = <<Failed, Ready>>
    BY DEF Answers, Commands, Requests
  <1>2. /\ Plain(<<Report>>) /\ Plain(<<Event("Panels")>>)
        /\ Plain(<<Ready>>) /\ Plain(<<Failed>>)
        /\ Plain(<<Event("Models")>>) /\ Plain(<<Report, Ready>>)
        /\ Plain(<<Failed, Ready>>)
    BY PlainTuples, Distinct, EventTypes
  <1> QED BY <1>1, <1>2

----------------------------------------------------------------------------
(* The shapes of the worker's steps, as far as its outbox goes. *)

\* The worker has a command that passed the stop check when the stop bit was
\* not set.
Passed == wpc = "send" \/ (wpc = "dispatch" /\ taken # "Shutdown")

\* The worker moves on, or gives up an announcement, and commits itself to
\* plain events.
QuietStep ==
    /\ outbox = <<>> \/ wpc = "hook"
    /\ outbox' \in Seq(Events) /\ Plain(outbox')
    /\ wpc \notin {"exit", "failed", "done"}
    /\ wpc' \in TurnPcs <=> wpc \in TurnPcs
    /\ Passed' => Passed \/ ~stop
    /\ UNCHANGED <<evts, stop, owed>>

\* A turn starts.
StartStep ==
    /\ At("send")
    /\ Goto("poll", <<>>)
    /\ owed' = owed + 1 /\ UNCHANGED <<evts, stop>>

\* A prompt is answered without a turn.
RefuseStep ==
    /\ outbox = <<>> /\ wpc \in {"dispatch", "send"} /\ Passed
    /\ outbox' \in Seq(Events) /\ EndsWith(outbox', TurnFinished)
    /\ wpc' = "clear"
    /\ owed' = owed + 1 /\ UNCHANGED <<evts, stop>>

\* A turn is over.
SettleStep ==
    /\ At("settle")
    /\ outbox' \in Seq(Events) /\ EndsWith(outbox', TurnFinished)
    /\ wpc' = "clear"
    /\ UNCHANGED <<evts, stop, owed>>

\* The thread is about to end.
ExitStep ==
    /\ outbox = <<>> /\ wpc \in {"compose", "flush", "drain"}
    /\ outbox' \in Seq(Events) /\ EndsWith(outbox', Stopped)
    /\ wpc' \in {"exit", "failed"}
    /\ UNCHANGED <<evts, stop, owed>>

LEMMA WorkerShapes ==
    TypeInv /\ WorkerNext =>
        \/ Deliver \/ LoseEvent \/ LoseTerminal \/ LosePlain
        \/ QuietStep \/ StartStep \/ RefuseStep \/ SettleStep \/ ExitStep
        \/ ThreadEnds
  <1> SUFFICES ASSUME TypeInv, WorkerNext,
                      ~(Deliver \/ LoseEvent \/ LoseTerminal \/ LosePlain
                        \/ ThreadEnds)
               PROVE  \/ QuietStep \/ StartStep \/ RefuseStep \/ SettleStep
                      \/ ExitStep
    OBVIOUS
  <1>0. outbox' \in Seq(Events)
    BY TypeWorker DEF TypeInv, TypeOK
  <1>p. /\ Plain(<<>>) /\ Plain(<<Event("Session")>>)
        /\ \A id \in Ids : Plain(<<ApprovalRequest(id)>>)
        /\ EndsWith(<<Failed, TurnFinished>>, TurnFinished)
        /\ EndsWith(<<Failed, Stopped>>, Stopped)
    BY PlainTuples, Distinct, EventTypes
  <1> USE DEF At, Goto, Passed, Serves
  <1>1. CASE ComposeOk
    BY <1>0, <1>1, PlainPanes DEF ComposeOk, QuietStep, TurnPcs, RespondingPcs
  <1>2. CASE ComposeFails
    BY <1>0, <1>2, <1>p DEF ComposeFails, ExitStep
  <1>3. CASE \/ LeaveLoop \/ Receive \/ DropCommand \/ PassStop
             \/ PromptGoesOn \/ TakeCancel \/ TakeShutdown
    <2>1. /\ wpc \in {"idle", "received", "dispatch"}
          /\ wpc' \in {"idle", "received", "dispatch", "send", "flush"}
          /\ Passed' => Passed \/ ~stop
          /\ outbox = <<>> /\ outbox' = <<>>
          /\ UNCHANGED <<evts, stop, owed>>
      BY <1>3, Zenon
      DEF LeaveLoop, Receive, DropCommand, PassStop, PromptGoesOn,
          TakeCancel, TakeShutdown
    <2> QED BY <2>1, <1>0, <1>p DEF QuietStep, TurnPcs, RespondingPcs
  <1>4. CASE PromptCancelled \/ PromptRefused
    BY <1>0, <1>4, <1>p DEF PromptCancelled, PromptRefused, RefuseStep
  <1>5. CASE PromptAccepted
    BY <1>5, Zenon DEF PromptAccepted, StartStep
  <1>6. CASE TakeRequest
    <2>1. PICK c \in Requests \ {"ModelsFetch"} :
              /\ Serves(c)
              /\ \E out \in Answers(c) : Goto("idle", out)
              /\ UNCHANGED <<queueVars, flagVars, sessionVars, exchangeVars,
                             owed, stopVars, handleVars>>
      BY <1>6 DEF TakeRequest
    <2>2. Plain(outbox') /\ wpc' = "idle"
      BY <2>1, PlainAnswers DEF Commands
    <2> QED BY <2>1, <2>2, <1>0
            DEF QuietStep, TurnPcs, RespondingPcs
  <1>7. CASE TakeModelsFetch
    <2>1. Plain(outbox') /\ wpc' = "clear"
      BY <1>7, PlainAnswers DEF TakeModelsFetch, Commands, Requests
    <2> QED BY <2>1, <1>7, <1>0
            DEF TakeModelsFetch, QuietStep, TurnPcs, RespondingPcs
  <1>8. CASE PollEvent
    BY <1>0, <1>8, <1>p DEF PollEvent, QuietStep, TurnPcs, RespondingPcs
  <1>9. CASE PollApproval
    <2>1. nextId \in Ids
      BY DEF TypeInv, TypeOK
    <2> QED BY <1>0, <1>9, <2>1, <1>p
            DEF PollApproval, QuietStep, TurnPcs, RespondingPcs
  <1>10. CASE PollNone
    BY <1>0, <1>10, <1>p DEF PollNone, QuietStep, TurnPcs, RespondingPcs
  <1>11. CASE HookVerdict \/ HookStopped
    BY <1>0, <1>11, <1>p
    DEF HookVerdict, HookStopped, HookReturns, QuietStep, TurnPcs,
        RespondingPcs
  <1>12. CASE HookTimeout \/ HookWaits
    BY <1>0, <1>12, <1>p
    DEF HookTimeout, HookWaits, QuietStep, TurnPcs, RespondingPcs
  <1>13. CASE CheckCancel
    <2>1. /\ wpc = "check" /\ wpc' = "poll" /\ outbox = <<>>
          /\ outbox' = Panes /\ UNCHANGED <<evts, stop, owed>>
      BY <1>13, Zenon DEF CheckCancel
    <2> QED BY <2>1, <1>0, PlainPanes DEF QuietStep, TurnPcs, RespondingPcs
  <1>14. CASE SettleTurn
    <2>1. /\ wpc = "settle" /\ wpc' = "clear" /\ outbox = <<>>
          /\ outbox' = Panes \o <<Ready, TurnFinished>>
          /\ UNCHANGED <<evts, stop, owed>>
      BY <1>14, Zenon DEF SettleTurn
    <2> QED BY <2>1, <1>0, PlainPanes DEF SettleStep
  <1>15. CASE ClearCancel \/ Quiesce
    <2>1. /\ wpc \in {"clear", "flush"} /\ wpc' \in {"idle", "drain"}
          /\ outbox = <<>> /\ outbox' = <<>>
          /\ UNCHANGED <<evts, stop, owed>>
      BY <1>15, Zenon DEF ClearCancel, Quiesce
    <2> QED BY <2>1, <1>0, <1>p DEF QuietStep, TurnPcs, RespondingPcs
  <1>16. ASSUME NEW r, FlushAs(r) PROVE EndsWith(outbox', Stopped)
    <2>1. CASE r = "Flushed"
      <3>1. outbox' = <<>> \o <<Stopped>>
        BY <1>16, <2>1 DEF FlushAs
      <3>2. <<Stopped>> \in Seq(Events)
        BY EventTypes
      <3>3. outbox' = <<Stopped>>
        BY <3>1, <3>2, ConcatEmptySeq
      <3> QED BY <3>3 DEF EndsWith
    <2>2. CASE r # "Flushed"
      <3> DEFINE f == <<Failed>>
                 s == <<Stopped>>
      <3>1. outbox' = f \o s
        BY <1>16, <2>2 DEF FlushAs
      <3>2. /\ f \in Seq(Events) /\ Len(f) = 1 /\ f[1] = Failed
            /\ s \in Seq(Events) /\ Len(s) = 1 /\ s[1] = Stopped
        BY EventTypes
      <3> HIDE DEF f, s
      <3>3. /\ Len(f \o s) = Len(f) + Len(s)
            /\ \A i \in 1 .. Len(f) + Len(s) :
                  (f \o s)[i] = IF i <= Len(f) THEN f[i] ELSE s[i - Len(f)]
        BY <3>2, ConcatProperties
      <3> QED BY <3>1, <3>2, <3>3, Distinct DEF EndsWith
    <2> QED BY <2>1, <2>2
  <1>17. CASE FlushQuiet \/ DrainSettles \/ DrainFails
    <2>1. /\ wpc \in {"flush", "drain"} /\ outbox = <<>>
          /\ UNCHANGED <<evts, stop, owed>>
          /\ \E r : FlushAs(r)
      BY <1>17, Zenon DEF FlushQuiet, DrainSettles, DrainFails
    <2>2. wpc' = "exit"
      BY <2>1 DEF FlushAs
    <2> QED BY <2>1, <2>2, <1>0, <1>16 DEF ExitStep
  <1>18. CASE AnnounceFails
    BY <1>0, <1>18, <1>p
    DEF AnnounceFails, Announcing, HookReturns, QuietStep, TurnPcs,
        RespondingPcs
  <1> QED
    BY <1>1, <1>2, <1>3, <1>4, <1>5, <1>6, <1>7, <1>8, <1>9, <1>10, <1>11,
       <1>12, <1>13, <1>14, <1>15, <1>17, <1>18
    DEF WorkerNext

----------------------------------------------------------------------------
(* One TurnFinished per prompt. *)

\* The worker is in a turn: polling or settling it, or about to deliver its
\* TurnFinished.
InTurn ==
    \/ wpc \in TurnPcs
    \/ outbox # <<>> /\ outbox[Len(outbox)] = TurnFinished

\* A TurnFinished is the last event of an outbox, on the way to "clear"; and
\* the worker owes one exactly during a turn.
OwedInv ==
    /\ \A i \in 1 .. Len(outbox) :
          outbox[i] = TurnFinished => i = Len(outbox) /\ wpc = "clear"
    /\ owed \in {0, 1}
    /\ Passed => owed = 0
    /\ ~stop => owed = IF InTurn THEN 1 ELSE 0

LEMMA OwedInit == Init => OwedInv
  BY EmptySeq DEF Init, OwedInv, Passed, InTurn, TurnPcs, RespondingPcs

\* The steps that lengthen or shorten no outbox.
LEMMA OwedFrame ==
    OwedInv /\ UNCHANGED <<outbox, wpc, taken, owed>> /\ (stop => stop')
        => OwedInv'
  BY DEF OwedInv, Passed, InTurn

\* A frontend's step touches neither the worker nor its outbox.
LEMMA UiFrame ==
    UiNext \/ HandleNext \/ UNCHANGED vars =>
        UNCHANGED <<outbox, wpc, taken, owed>> /\ (stop => stop')
  BY DEF UiNext, HandleNext, vars, Send, Recv, RequestCancel, DeliverVerdict,
         ShutdownCancel, ShutdownSend, ShutdownStop, Join, JoinTimesOut

LEMMA OwedStep == TypeInv /\ OwedInv /\ [Next]_vars => OwedInv'
  <1> SUFFICES ASSUME TypeInv, OwedInv, [Next]_vars PROVE OwedInv'
    OBVIOUS
  <1>0. outbox \in Seq(Events) /\ owed \in Int /\ Len(outbox) \in Nat
    BY LenProperties DEF TypeInv, TypeOK
  <1>t. outbox # <<>> =>
          /\ Tail(outbox) \in Seq(Events) /\ Len(outbox) >= 1
          /\ Len(Tail(outbox)) = Len(outbox) - 1
          /\ Head(outbox) = outbox[1]
          /\ \A i \in 1 .. Len(Tail(outbox)) : Tail(outbox)[i] = outbox[i + 1]
    BY <1>0, HeadTailProperties, EmptySeq
  <1>e. \A s \in Seq(Events) : s = <<>> <=> Len(s) = 0
    BY EmptySeq
  <1>l. ASSUME outbox # <<>>, NEW i \in 1 .. Len(Tail(outbox)),
               Tail(outbox)[i] = TurnFinished
        PROVE  i = Len(Tail(outbox)) /\ wpc = "clear"
    <2>1. i + 1 \in 1 .. Len(outbox) /\ outbox[i + 1] = TurnFinished
      BY <1>l, <1>t, <1>0
    <2>2. i + 1 = Len(outbox) /\ wpc = "clear"
      BY <2>1 DEF OwedInv
    <2> QED BY <2>2, <1>l, <1>t, <1>0
  <1>1. CASE UiNext \/ HandleNext \/ UNCHANGED vars
    BY <1>1, UiFrame, OwedFrame
  <1>2. CASE Deliver
    <2>1. /\ outbox # <<>> /\ outbox' = Tail(outbox)
          /\ UNCHANGED <<wpc, taken, stop>>
          /\ owed' = IF Head(outbox) = TurnFinished THEN owed - 1 ELSE owed
          /\ stop => wpc \in {"exit", "hook", "failed"}
          /\ Passed' <=> Passed
      BY <1>2 DEF Deliver, Delivering, Terminal, PlainSend, Announcing, Passed
    <2>2. CASE Head(outbox) = TurnFinished
      <3>0. 1 \in 1 .. Len(outbox) /\ outbox[1] = TurnFinished
        BY <1>t, <1>0, <2>1, <2>2
      <3>1. Len(outbox) = 1 /\ wpc = "clear" /\ ~stop
        BY <3>0, <2>1 DEF OwedInv
      <3>2. outbox' = <<>>
        BY <3>1, <2>1, <1>t, <1>e
      <3>3. InTurn /\ ~InTurn'
        BY <1>t, <2>1, <2>2, <3>1, <3>2 DEF InTurn, TurnPcs, RespondingPcs
      <3>4. owed' = 0
        BY <2>1, <2>2, <3>1, <3>3, <1>0 DEF OwedInv
      <3>5. Len(outbox') = 0
        BY <3>2, EmptySeq
      <3> QED BY <3>3, <3>4, <3>5 DEF OwedInv
    <2>3. CASE Head(outbox) # TurnFinished
      <3>1. InTurn' <=> InTurn
        <4>1. CASE Len(outbox) = 1
          <5>1. outbox' = <<>> /\ outbox[Len(outbox)] # TurnFinished
            BY <4>1, <2>1, <2>3, <1>t, <1>e
          <5> QED BY <5>1, <2>1 DEF InTurn
        <4>2. CASE Len(outbox) # 1
          <5>0. /\ Len(outbox') = Len(outbox) - 1
                /\ Len(outbox') \in 1 .. Len(Tail(outbox))
                /\ outbox' \in Seq(Events)
            BY <4>2, <2>1, <1>t, <1>0
          <5>a. outbox' # <<>>
            BY <5>0, <1>e, <1>0
          <5>b. outbox'[Len(outbox')] = outbox[Len(outbox') + 1]
            BY <5>0, <2>1, <1>t
          <5>1. /\ outbox' # <<>>
                /\ outbox'[Len(outbox')] = outbox[Len(outbox)]
            BY <5>0, <5>a, <5>b, <1>0
          <5> QED BY <5>1, <2>1 DEF InTurn
        <4> QED BY <4>1, <4>2
      <3>2. owed' = owed
        BY <2>1, <2>3
      <3>3. \A i \in 1 .. Len(outbox') :
              outbox'[i] = TurnFinished => i = Len(outbox') /\ wpc' = "clear"
        BY <2>1, <1>l
      <3> QED BY <3>1, <3>2, <3>3, <2>1 DEF OwedInv
    <2> QED BY <2>2, <2>3
  <1>3. CASE LoseEvent \/ LoseTerminal \/ LosePlain
    <2>1. /\ outbox # <<>> /\ outbox' = Tail(outbox) /\ owed' = owed
          /\ wpc' = wpc \/ (wpc = "check" /\ wpc' = "settle")
          /\ taken' = taken
          /\ \/ stop'
             \/ wpc \in {"exit", "failed"} /\ wpc' = wpc /\ stop' = stop
      BY <1>3 DEF LoseEvent, LoseTerminal, LosePlain, Delivering, AfterLoss,
         Terminal
    <2>p. Passed' => Passed
      BY <2>1 DEF Passed
    <2>2. \A i \in 1 .. Len(outbox') :
              outbox'[i] = TurnFinished => i = Len(outbox') /\ wpc' = "clear"
      BY <2>1, <1>l
    <2>3. CASE stop'
      BY <2>1, <2>2, <2>3, <2>p DEF OwedInv
    <2>4. CASE wpc \in {"exit", "failed"} /\ wpc' = wpc /\ stop' = stop
      <3>1. \A i \in 1 .. Len(outbox) : outbox[i] # TurnFinished
        BY <2>4 DEF OwedInv
      <3>2. \A i \in 1 .. Len(outbox') : outbox'[i] # TurnFinished
        BY <2>2, <2>4
      <3>3. ~InTurn
        BY <3>1, <2>4, <1>t DEF InTurn, TurnPcs, RespondingPcs
      <3>4. outbox' \in Seq(Events) /\ (outbox' # <<>> => Len(outbox') >= 1)
        BY <2>1, <1>t, EmptySeq
      <3>5. Len(outbox') \in Nat
        BY <3>4, LenProperties
      <3>6. ~InTurn'
        BY <3>2, <3>4, <3>5, <2>4 DEF InTurn, TurnPcs, RespondingPcs
      <3> QED BY <2>1, <2>2, <2>4, <2>p, <3>3, <3>6 DEF OwedInv
    <2> QED BY <2>1, <2>3, <2>4
  <1>o. ASSUME outbox' \in Seq(Events)
        PROVE  /\ Len(outbox') \in Nat
               /\ outbox' # <<>> => Len(outbox') >= 1
    BY <1>o, LenProperties, EmptySeq
  <1>q. ASSUME outbox' \in Seq(Events), Plain(outbox')
        PROVE  /\ \A i \in 1 .. Len(outbox') : outbox'[i] # TurnFinished
               /\ InTurn' <=> wpc' \in TurnPcs
    <2>1. \A i \in 1 .. Len(outbox') : outbox'[i] # TurnFinished
      BY <1>q DEF Plain
    <2> QED BY <2>1, <1>q, <1>o DEF InTurn
  <1>w. ASSUME outbox' \in Seq(Events), EndsWith(outbox', TurnFinished),
               wpc' = "clear"
        PROVE  /\ \A i \in 1 .. Len(outbox') :
                     outbox'[i] = TurnFinished
                        => i = Len(outbox') /\ wpc' = "clear"
               /\ InTurn'
    <2>1. outbox' # <<>>
      BY <1>w, EmptySeq DEF EndsWith
    <2> QED BY <1>w, <1>o, <2>1 DEF EndsWith, InTurn
  <1>4. CASE QuietStep
    <2>1. InTurn <=> wpc \in TurnPcs
      BY <1>4 DEF QuietStep, InTurn, TurnPcs, RespondingPcs
    <2>2. Passed' => owed' = 0
      <3>1. SUFFICES ASSUME Passed', ~Passed PROVE owed' = 0
        BY <1>4 DEF QuietStep, OwedInv
      <3>2. ~stop /\ wpc \notin TurnPcs /\ owed' = owed
        BY <1>4, <3>1 DEF QuietStep, Passed, TurnPcs, RespondingPcs
      <3> QED BY <3>2, <2>1 DEF OwedInv
    <2> QED BY <1>4, <1>q, <2>1, <2>2 DEF QuietStep, OwedInv
  <1>5. CASE StartStep
    <2>1. ~InTurn /\ InTurn'
      BY <1>5 DEF StartStep, At, Goto, InTurn, TurnPcs, RespondingPcs
    <2>2. Len(outbox') = 0
      BY <1>5, EmptySeq DEF StartStep, Goto
    <2>3. owed' = 1 /\ ~Passed'
      BY <1>5, <1>0 DEF StartStep, At, Goto, OwedInv, Passed
    <2> QED BY <1>5, <2>1, <2>2, <2>3 DEF StartStep, OwedInv
  <1>6. CASE RefuseStep
    <2>1. ~InTurn
      BY <1>6 DEF RefuseStep, InTurn, TurnPcs, RespondingPcs
    <2>2. owed' = 1 /\ ~Passed'
      BY <1>6, <1>0 DEF RefuseStep, OwedInv, Passed
    <2> QED BY <1>6, <2>1, <2>2, <1>w DEF RefuseStep, OwedInv
  <1>7. CASE SettleStep
    <2>1. InTurn
      BY <1>7 DEF SettleStep, At, InTurn, TurnPcs
    <2>2. ~Passed'
      BY <1>7 DEF SettleStep, Passed
    <2> QED BY <1>7, <2>1, <2>2, <1>w, <1>0 DEF SettleStep, OwedInv
  <1>8. CASE ExitStep
    <2>1. ~InTurn
      BY <1>8 DEF ExitStep, InTurn, TurnPcs, RespondingPcs
    <2>2. \A i \in 1 .. Len(outbox') : outbox'[i] # TurnFinished
      BY <1>8, <1>o, Distinct DEF ExitStep, EndsWith
    <2>3. ~InTurn'
      BY <1>8, <1>o, <2>2 DEF ExitStep, InTurn, TurnPcs, RespondingPcs
    <2>4. ~Passed'
      BY <1>8 DEF ExitStep, Passed
    <2> QED BY <1>8, <2>1, <2>2, <2>3, <2>4 DEF ExitStep, OwedInv
  <1>9. CASE ThreadEnds
    <2>1. ~InTurn /\ ~InTurn'
      BY <1>9 DEF ThreadEnds, At, Goto, InTurn, TurnPcs, RespondingPcs
    <2>2. Len(outbox') = 0
      BY <1>9, EmptySeq DEF ThreadEnds, Goto
    <2>3. ~Passed'
      BY <1>9 DEF ThreadEnds, Goto, Passed
    <2> QED BY <1>9, <2>1, <2>2, <2>3 DEF ThreadEnds, OwedInv
  <1> QED
    BY WorkerShapes, <1>1, <1>2, <1>3, <1>4, <1>5, <1>6, <1>7, <1>8, <1>9
    DEF Next, Finished

\* Between turns of a worker nobody has stopped, no response is active, the
\* demand loop of the last one has run, and every prompt has been answered by
\* exactly one TurnFinished.
THEOREM IdleIsSettledHolds == Spec => []IdleIsSettled
  <1>1. TypeInv /\ TurnInv /\ OwedInv => IdleIsSettled
    <2> SUFFICES ASSUME TypeInv, TurnInv, OwedInv, At("idle"), ~stop
                 PROVE  ~responding /\ ~unsettled /\ owed = 0
      BY DEF IdleIsSettled
    <2>1. wpc = "idle" /\ outbox = <<>>
      BY DEF At
    <2>2. ~InTurn
      BY <2>1 DEF InTurn, TurnPcs, RespondingPcs
    <2> QED BY <2>1, <2>2 DEF TurnInv, OwedInv, TurnPcs, RespondingPcs
  <1> QED BY TypeInit, TypeStep, TurnInit, TurnStep, OwedInit, OwedStep, <1>1,
             PTL DEF Spec

----------------------------------------------------------------------------
(* Terminal evidence comes last. *)

StoppedInv ==
    /\ \A i \in 1 .. Len(outbox) :
          outbox[i] = Stopped => i = Len(outbox) /\ wpc \in {"exit", "failed"}
    /\ StoppedIsLast

LEMMA StoppedInit == Init => StoppedInv
  BY EmptySeq DEF Init, StoppedInv, StoppedIsLast

LEMMA StoppedStep == TypeInv /\ StoppedInv /\ [Next]_vars => StoppedInv'
  <1> SUFFICES ASSUME TypeInv, StoppedInv, [Next]_vars PROVE StoppedInv'
    OBVIOUS
  <1>0. /\ outbox \in Seq(Events) /\ Len(outbox) \in Nat
        /\ evts \in Seq(Events) /\ Len(evts) \in Nat
        /\ DOMAIN evts = 1 .. Len(evts)
    BY LenProperties DEF TypeInv, TypeOK
  <1>t. \A s \in Seq(Events) : s # <<>> =>
          /\ Tail(s) \in Seq(Events) /\ Len(s) >= 1
          /\ Len(Tail(s)) = Len(s) - 1
          /\ Head(s) = s[1]
          /\ DOMAIN Tail(s) = 1 .. Len(Tail(s))
          /\ \A i \in 1 .. Len(Tail(s)) : Tail(s)[i] = s[i + 1]
    BY HeadTailProperties, EmptySeq, LenProperties
  \* A Stopped in the channel means that the worker has nothing to deliver.
  <1>s. outbox # <<>> \/ wpc \notin {"exit", "failed", "done"}
            => \A i \in DOMAIN evts : evts[i] # Stopped
    BY DEF StoppedInv, StoppedIsLast, At
  <1>l. ASSUME outbox # <<>>, NEW i \in 1 .. Len(Tail(outbox)),
               Tail(outbox)[i] = Stopped
        PROVE  i = Len(Tail(outbox)) /\ wpc \in {"exit", "failed"}
    <2>1. i + 1 \in 1 .. Len(outbox) /\ outbox[i + 1] = Stopped
      BY <1>l, <1>t, <1>0
    <2>2. i + 1 = Len(outbox) /\ wpc \in {"exit", "failed"}
      BY <2>1 DEF StoppedInv
    <2> QED BY <2>2, <1>l, <1>t, <1>0
  <1>1. CASE Recv
    <2>1. evts # <<>> /\ evts' = Tail(evts) /\ UNCHANGED <<outbox, wpc>>
      BY <1>1 DEF Recv
    <2>2. ASSUME NEW i \in DOMAIN evts', evts'[i] = Stopped
          PROVE  i = Len(evts') /\ (At("exit") \/ At("failed") \/ At("done"))'
      <3>1. i + 1 \in DOMAIN evts /\ evts[i + 1] = Stopped
        BY <2>1, <2>2, <1>t, <1>0
      <3>2. i + 1 = Len(evts) /\ (At("exit") \/ At("failed") \/ At("done"))
        BY <3>1 DEF StoppedInv, StoppedIsLast
      <3>3. i = Len(evts')
        BY <3>2, <2>1, <2>2, <1>t, <1>0
      <3> QED BY <3>2, <3>3, <2>1 DEF At
    <2> QED BY <2>1, <2>2 DEF StoppedInv, StoppedIsLast
  <1>2. CASE (UiNext /\ ~Recv) \/ HandleNext \/ UNCHANGED vars
    <2>1. UNCHANGED <<outbox, wpc, evts>>
      BY <1>2 DEF UiNext, HandleNext, vars, Send, RequestCancel,
         DeliverVerdict, ShutdownCancel, ShutdownSend, ShutdownStop, Join,
         JoinTimesOut
    <2> QED BY <2>1 DEF StoppedInv, StoppedIsLast, At
  <1>3. CASE Deliver
    <2>1. /\ outbox # <<>> /\ outbox' = Tail(outbox) /\ wpc' = wpc
          /\ evts' = Append(evts, Head(outbox))
      BY <1>3 DEF Deliver, Delivering
    <2>2. /\ Len(evts') = Len(evts) + 1 /\ DOMAIN evts' = 1 .. Len(evts')
          /\ \A i \in 1 .. Len(evts) : evts'[i] = evts[i]
          /\ evts'[Len(evts')] = outbox[1]
      <3>1. Head(outbox) \in Events /\ Head(outbox) = outbox[1]
        BY <2>1, <1>0, <1>t, HeadTailProperties
      <3>2. evts' \in Seq(Events)
        BY <3>1, <2>1, <1>0, AppendProperties
      <3> QED BY <3>1, <3>2, <2>1, <1>0, AppendProperties, LenProperties
    <2>3. ASSUME NEW i \in DOMAIN evts', evts'[i] = Stopped
          PROVE  i = Len(evts') /\ (At("exit") \/ At("failed") \/ At("done"))'
      <3>1. i = Len(evts')
        BY <2>1, <2>2, <2>3, <1>s, <1>0
      <3>2. 1 \in 1 .. Len(outbox) /\ outbox[1] = Stopped
        BY <3>1, <2>1, <2>2, <2>3, <1>t, <1>0
      <3>3. Len(outbox) = 1 /\ wpc \in {"exit", "failed"}
        BY <3>2 DEF StoppedInv
      <3>4. outbox' = <<>>
        BY <3>3, <2>1, <1>t, <1>0, EmptySeq
      <3> QED BY <3>1, <3>3, <3>4, <2>1 DEF At
    <2> QED BY <2>1, <2>3, <1>l DEF StoppedInv, StoppedIsLast
  <1>4. CASE LoseEvent \/ LoseTerminal \/ LosePlain
    <2>1. /\ outbox # <<>> /\ outbox' = Tail(outbox) /\ evts' = evts
          /\ wpc' = wpc \/ wpc = "check"
      BY <1>4 DEF LoseEvent, LoseTerminal, LosePlain, Delivering, AfterLoss
    <2> QED BY <2>1, <1>l, <1>s DEF StoppedInv, StoppedIsLast
  \* Every other step of the worker starts where no Stopped is in the channel.
  <1>5. ASSUME wpc \notin {"exit", "failed", "done"}, evts' = evts,
               \A i \in 1 .. Len(outbox') :
                  outbox'[i] = Stopped
                    => i = Len(outbox') /\ wpc' \in {"exit", "failed"}
        PROVE  StoppedInv'
    BY <1>5, <1>s DEF StoppedInv, StoppedIsLast
  <1>o. outbox' \in Seq(Events) => Len(outbox') \in Nat
    BY LenProperties
  <1>6. CASE QuietStep
    BY <1>6, <1>5 DEF QuietStep, Plain
  <1>7. CASE StartStep
    <2>1. Len(outbox') = 0 /\ wpc = "send" /\ evts' = evts
      BY <1>7, EmptySeq DEF StartStep, At, Goto
    <2> QED BY <2>1, <1>5
  <1>8. CASE RefuseStep \/ SettleStep
    <2>1. \A i \in 1 .. Len(outbox') : outbox'[i] # Stopped
      BY <1>8, <1>o, Distinct DEF RefuseStep, SettleStep, EndsWith
    <2>2. wpc \in {"dispatch", "send", "settle"} /\ evts' = evts
      BY <1>8 DEF RefuseStep, SettleStep, At
    <2> QED BY <2>1, <2>2, <1>5
  <1>9. CASE ExitStep
    <2>1. \A i \in 1 .. Len(outbox') : outbox'[i] = Stopped => i = Len(outbox')
      BY <1>9, <1>o DEF ExitStep, EndsWith
    <2> QED BY <2>1, <1>9, <1>5 DEF ExitStep
  <1>10. CASE ThreadEnds
    <2>1. /\ outbox = <<>> /\ outbox' = <<>> /\ evts' = evts
          /\ wpc \in {"exit", "failed"} /\ wpc' = "done" /\ Len(outbox') = 0
      BY <1>10, EmptySeq DEF ThreadEnds, At, Goto
    <2> QED BY <2>1 DEF StoppedInv, StoppedIsLast, At
  <1> QED
    BY WorkerShapes, <1>1, <1>2, <1>3, <1>4, <1>6, <1>7, <1>8, <1>9, <1>10
    DEF Next, Finished

\* Nothing follows a Stopped in the event channel, and one that was delivered
\* means that the session has been flushed and the thread delivers no more.
THEOREM StoppedIsLastHolds == Spec => []StoppedIsLast
  <1>1. StoppedInv => StoppedIsLast
    BY DEF StoppedInv
  <1> QED BY TypeInit, TypeStep, StoppedInit, StoppedStep, <1>1, PTL DEF Spec

----------------------------------------------------------------------------
(* What a stopped worker no longer does. *)

\* A stopped worker that will start no turn: it has not passed the stop check,
\* or passed it with the shutdown, or is leaving.
Stopping ==
    /\ stop
    /\ \/ wpc \in {"idle", "received", "flush", "drain", "exit", "failed",
                   "done"}
       \/ wpc = "dispatch" /\ taken = "Shutdown"

LEMMA StoppingStep == Stopping /\ [Next]_vars => Stopping'
  <1> SUFFICES ASSUME Stopping, [Next]_vars PROVE Stopping'
    OBVIOUS
  <1> USE DEF Stopping, At, Goto
  <1>1. CASE UiNext \/ HandleNext \/ UNCHANGED vars
    BY <1>1, UiFrame
  <1>2. CASE Deliver \/ LoseEvent \/ LoseTerminal \/ LosePlain
    BY <1>2 DEF Deliver, LoseEvent, LoseTerminal, LosePlain, AfterLoss
  <1>3. CASE LeaveLoop \/ Receive \/ DropCommand \/ PassStop \/ TakeShutdown
    BY <1>3 DEF LeaveLoop, Receive, DropCommand, PassStop, TakeShutdown, Serves
  <1>4. CASE Quiesce \/ FlushQuiet \/ DrainSettles \/ DrainFails \/ ThreadEnds
    BY <1>4 DEF Quiesce, FlushQuiet, FlushAs, DrainSettles, DrainFails,
       ThreadEnds
  <1>5. ~(\/ PromptCancelled \/ PromptGoesOn \/ PromptAccepted
          \/ PromptRefused \/ TakeCancel \/ TakeModelsFetch
          \/ ComposeOk \/ ComposeFails)
    BY DEF PromptCancelled, PromptGoesOn, PromptAccepted, PromptRefused,
       TakeCancel, TakeModelsFetch, Serves, ComposeOk, ComposeFails
  <1>6. ~TakeRequest
    BY DEF TakeRequest, Serves, Requests
  <1>7. ~(\/ PollEvent \/ PollApproval \/ PollNone \/ AnnounceFails
          \/ HookVerdict \/ HookTimeout \/ HookStopped \/ HookWaits
          \/ CheckCancel \/ SettleTurn \/ ClearCancel)
    BY DEF PollEvent, PollApproval, PollNone, AnnounceFails, Announcing,
       HookVerdict, HookTimeout, HookStopped, HookWaits, CheckCancel,
       SettleTurn, ClearCancel
  <1> QED BY <1>1, <1>2, <1>3, <1>4, <1>5, <1>6, <1>7
          DEF Next, WorkerNext, Finished

\* Once a stopped worker stands before its second look at the stop bit it
\* starts no turn any more, whatever is queued, for every capacity and every
\* further shutdown attempt.
THEOREM NothingStartsAfterStopHolds == Spec => NothingStartsAfterStop
  <1>1. stop /\ BeforeStopCheck => Stopping
    BY DEF BeforeStopCheck, Stopping
  <1>2. Stopping => wpc \notin {"send", "poll"}
    BY DEF Stopping
  <1> QED BY StoppingStep, <1>1, <1>2, PTL DEF Spec, NothingStartsAfterStop
=============================================================================
