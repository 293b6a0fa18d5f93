-------------------------- MODULE TuiBridgeProofs --------------------------
(***************************************************************************)
(* Proofs about TuiBridge, for every capacity of the channels and every    *)
(* set of lines: the terminal uses the worker as the open frontend of      *)
(* SessionWorker does; and when no key is typed ahead, the terminal and    *)
(* the worker agree on the turn and on the approval they wait for, so that *)
(* neither waits for the other.                                            *)
(***************************************************************************)
EXTENDS TuiBridge, SessionWorkerProofs

USE DEF relayVars, modalVars, userVars, queueVars, flagVars, sessionVars,
        exchangeVars, stopVars, handleVars, workerVars

\* The commands the terminal sends are those of the open frontend.
SendsAll == Requests \cup {"Prompt", "Cancel"} \subseteq UiCommands

----------------------------------------------------------------------------
(* The terminal implements the open frontend of SessionWorker. *)

\* The handle is live until the loop is left.
LiveInv == upc # "closed" => Live

\* What a step of the frontend does to the worker: nothing, or one operation
\* of the handle.
UiOperation ==
    \/ UNCHANGED vars \/ Recv \/ RequestCancel
    \/ \E c \in Requests \cup {"Prompt", "Cancel"} : Send(c)
    \/ \E id \in pending, v \in {"Approve", "Deny"} : DeliverVerdict(id, v)

\* The steps of the frame loop: all but the worker's and the shutdown's.
LoopNext ==
    \/ AwaitEvent \/ RelayNext \/ InterruptSend \/ FrameNext
    \/ UserNext \/ AnswerModal

\* Every step of the frame loop is made before it is left, and is one
\* operation of the handle or none.
LEMMA LoopOperation == LoopNext => upc # "closed" /\ UiOperation
  <1> SUFFICES ASSUME LoopNext PROVE upc # "closed" /\ UiOperation OBVIOUS
  <1>0. "PanelsReport" \in Requests BY DEF Requests
  <1>p. \A r : AskPanels(r) => UiOperation
    BY <1>0, Zenon DEF AskPanels, UiOperation
  <1>1. CASE AwaitEvent BY <1>1, Zenon DEF AwaitEvent, UiOperation
  <1>2. CASE RelayNext
    BY <1>2, Zenon
    DEF RelayNext, RelayEvent, RelayStopped, DrainEmpty, RelayReturn, Relaying,
        UiOperation
  <1>3. CASE InterruptSend BY <1>3, Zenon DEF InterruptSend, UiOperation
  <1>4. CASE StatusTick BY <1>p, <1>4, Zenon DEF StatusTick
  <1>5. CASE DispatchToWorker
    <2>1. upc # "closed" BY <1>5 DEF DispatchToWorker, Pop
    <2>2. UiOperation BY <1>5, Zenon DEF DispatchToWorker, UiOperation
    <2> QED BY <2>1, <2>2
  <1>6. CASE \/ KeysDone \/ NoStatusTick \/ Resume \/ NoResume
             \/ DispatchLocally \/ DispatchExit \/ NothingToDispatch
             \/ ExitCheck
    <2>1. upc # "closed"
      BY <1>6
      DEF KeysDone, NoStatusTick, Resume, NoResume, DispatchLocally,
          DispatchExit, NothingToDispatch, ExitCheck, Pop
    <2>2. UNCHANGED vars
      BY <1>6, Zenon
      DEF KeysDone, NoStatusTick, Resume, NoResume, DispatchLocally,
          DispatchExit, NothingToDispatch, ExitCheck
    <2> QED BY <2>1, <2>2 DEF UiOperation
  <1>7. CASE KeyPanels BY <1>p, <1>7, Zenon DEF KeyPanels, MayType
  <1>8. CASE KeyLocalVerdict
    <2>1. "Reload" \in Requests BY DEF Requests
    <2> QED BY <1>8, <2>1, Zenon DEF KeyLocalVerdict, UiOperation
  <1>9. CASE Interrupt BY <1>9, Zenon DEF Interrupt, UiOperation
  <1>10. CASE \/ KeyExit \/ KeyPickRemoval \/ KeyEmpty \/ RelayExpires
              \/ DeferDispatch \/ \E line \in Lines : KeySubmit(line)
    <2>1. upc # "closed"
      BY <1>10
      DEF KeyExit, KeyPickRemoval, KeyEmpty, RelayExpires, DeferDispatch,
          KeySubmit, MayType, Relaying
    <2>2. UNCHANGED vars
      BY <1>10, Zenon
      DEF KeyExit, KeyPickRemoval, KeyEmpty, RelayExpires, DeferDispatch,
          KeySubmit
    <2> QED BY <2>1, <2>2 DEF UiOperation
  <1>11. CASE AnswerModal
    BY <1>11, Zenon DEF AnswerModal, KeyVerdict, UiOperation
  <1> QED BY <1>1, <1>2, <1>3, <1>4, <1>5, <1>6, <1>7, <1>8, <1>9, <1>10,
             <1>11
          DEF LoopNext, FrameNext, UserNext

\* No operation of a live handle touches the shutdown.
LEMMA OperationFrame == UiOperation => UNCHANGED handleVars
  BY DEF UiOperation, vars, Recv, RequestCancel, Send, DeliverVerdict

\* An operation of the loop is one of the open frontend.
LEMMA OperationIsUi ==
    ASSUME SendsAll, Live, UiOperation PROVE UiNext \/ UNCHANGED vars
  BY Zenon DEF SendsAll, UiOperation, UiNext

\* Every step of the bridge is a step of SessionWorker or stutters there.
LEMMA BridgeRefines ==
    ASSUME SendsAll, LiveInv, [BridgeNext]_bridgeVars
    PROVE  [Next]_vars /\ LiveInv'
  <1>1. CASE WorkerNext /\ UNCHANGED uiVars
    <2>1. UNCHANGED handleVars
      BY <1>1
      DEF WorkerNext, Deliver, LoseEvent, LoseTerminal, LosePlain, ComposeOk,
          ComposeFails, LeaveLoop, Receive, DropCommand, PassStop,
          PromptCancelled, PromptGoesOn, PromptAccepted, PromptRefused,
          TakeCancel, TakeRequest,
          TakeModelsFetch, TakeShutdown, PollEvent, PollApproval, PollNone,
          AnnounceFails, HookVerdict, HookTimeout, HookStopped, HookWaits,
          HookReturns, CheckCancel, SettleTurn, ClearCancel, Quiesce,
          FlushQuiet, DrainSettles, DrainFails, ThreadEnds
    <2>2. Next BY <1>1 DEF Next
    <2>3. LiveInv' BY <1>1, <2>1 DEF LiveInv, Live, uiVars
    <2> QED BY <2>2, <2>3
  <1>2. CASE LoopNext
    <2>1. upc # "closed" /\ UiOperation BY <1>2, LoopOperation
    <2>2. Live BY <2>1 DEF LiveInv
    <2>3. [Next]_vars BY <2>1, <2>2, OperationIsUi DEF Next
    <2>4. hpc' = hpc BY <2>1, OperationFrame
    <2> QED BY <2>2, <2>3, <2>4 DEF LiveInv, Live
  <1>3. CASE CloseNext
    BY <1>3 DEF CloseNext, Next, LiveInv, uiVars
  <1>4. CASE Finished /\ UNCHANGED uiVars
    BY <1>4 DEF Finished, LiveInv, Live, uiVars, vars
  <1>5. CASE UNCHANGED bridgeVars
    <2>1. UNCHANGED vars /\ UNCHANGED <<upc, hpc>>
      BY <1>5 DEF bridgeVars, uiVars, vars
    <2> QED BY <2>1 DEF LiveInv, Live
  <1> QED BY <1>1, <1>2, <1>3, <1>4, <1>5 DEF BridgeNext, LoopNext

\* The terminal loop and its relay use the worker only as the open frontend of
\* SessionWorker may: everything proved of that one holds under the terminal.
THEOREM BridgeImplementsWorker ==
    ASSUME SendsAll PROVE BridgeSpec => Spec
  <1>1. BridgeInit => Init /\ LiveInv
    BY DEF BridgeInit, Init, LiveInv, Live
  <1>2. LiveInv /\ [BridgeNext]_bridgeVars => [Next]_vars /\ LiveInv'
    BY BridgeRefines
  <1> QED BY <1>1, <1>2, PTL DEF BridgeSpec, Spec

----------------------------------------------------------------------------
(* The turn and who waits for it. *)

\* The two events that end a relay that waits for a turn.
Marks(e) == e.kind \in {"TurnFinished", "ApprovalRequest"}

\* s holds e; it holds an event of kind k; it holds at most one marked event;
\* at most one prompt.
Has(s, e) == \E i \in 1 .. Len(s) : s[i] = e

HasKind(s, k) == \E i \in 1 .. Len(s) : s[i].kind = k

OneMark(s) ==
    \A i, j \in 1 .. Len(s) : Marks(s[i]) /\ Marks(s[j]) => i = j

OnePrompt(s) ==
    \A i, j \in 1 .. Len(s) : s[i] = "Prompt" /\ s[j] = "Prompt" => i = j

\* The worker has received a prompt and not yet served it.
Held == wpc = "send" \/ (wpc \in {"received", "dispatch"} /\ taken = "Prompt")

\* A prompt waits in the command channel or in the worker's hand.
Queued == Has(cmds, "Prompt") \/ Held

\* A turn is on its way: its prompt is queued, the worker runs it, or what
\* it has to tell the relay is in one of the two queues.
Turn ==
    \/ Queued \/ wpc \in TurnPcs \/ HasKind(outbox, "TurnFinished")
    \/ HasKind(evts, "TurnFinished") \/ HasKind(evts, "ApprovalRequest")

\* The UI has a turn to wait for.
Awaits == until = "TurnFinished" \/ Suspended

\* The latest request has been announced and is undecided.
Blocked == Hooked /\ outbox = <<>> /\ pending = {hookId}

\* A stop has ended the wait of the latest request, and no other one follows.
Ended ==
    /\ stop /\ wpc \notin {"poll", "hook", "hookStop"}
    /\ wpc = "check" => outbox # <<>>

\* The frontend's locals.
UiInv ==
    /\ submits \in Seq(AllLines) /\ Len(submits) <= 1
    /\ busy \in BOOLEAN
    /\ ret \in {"frame", "keys", "resume", "pop", "exitCheck"}
    /\ until # "done" => upc \in {"relay", "interrupt"}
    /\ until = "TurnFinished" => ret \in {"pop", "exitCheck"} /\ ~Suspended
    /\ modal = "decided" => upc \in {"keys", "tick", "resume"}
    /\ upc = "closed" => modal = "none"
    /\ upc # "closed" => Live
    /\ Awaits => submits = <<>> /\ busy

\* What the worker's queues hold.
QueueInv ==
    /\ OneMark(outbox) /\ OneMark(evts) /\ OnePrompt(cmds)
    /\ Held => ~Has(cmds, "Prompt")
    /\ HasKind(outbox, "TurnFinished") => wpc = "clear"
    /\ HasKind(outbox, "ApprovalRequest") => wpc = "hook"
    /\ wpc = "hook" => outbox \in {<<>>, <<ApprovalRequest(hookId)>>}
    /\ wpc = "hook" /\ outbox # <<>> => pending = {hookId}
    /\ wpc = "hookStop" => outbox = <<>>

\* There is one turn at a time.
OneTurn ==
    /\ \/ wpc \in TurnPcs \/ HasKind(outbox, "TurnFinished")
       \/ HasKind(evts, "TurnFinished") \/ HasKind(evts, "ApprovalRequest")
       \/ modal = "tool"
       => ~Queued
    /\ HasKind(evts, "TurnFinished") =>
          wpc \notin TurnPcs /\ ~HasKind(outbox, "TurnFinished")
    /\ modal = "tool" => /\ ~HasKind(evts, "TurnFinished")
                         /\ ~HasKind(evts, "ApprovalRequest")

\* A request that is announced or on the screen is the latest one, and it is
\* blocked unless a stop has ended it; and a blocked one is announced or on the
\* screen.
AskInv ==
    /\ \A e \in Events : Has(evts, e) /\ e.kind = "ApprovalRequest" =>
          e.id = hookId /\ (Blocked \/ Ended)
    /\ modal = "tool" => modalId = hookId /\ (Blocked \/ Ended)
    /\ Hooked /\ pending # {} =>
          \/ outbox = <<ApprovalRequest(hookId)>>
          \/ modal = "tool" /\ modalId = hookId
          \/ Has(evts, ApprovalRequest(hookId))
          \/ upc = "closed"

\* The UI waits while there is a turn, and as long as nobody has stopped the
\* worker there is one while it waits.
WaitInv ==
    /\ upc # "closed" /\ Turn => Awaits
    /\ Awaits /\ ~stop => Turn

\* The inductive invariant.
BridgeInv ==
    /\ TypeInv /\ HookInv
    /\ UiInv /\ QueueInv /\ OneTurn /\ AskInv /\ WaitInv

\* One element more at the end.
LEMMA HasAppend ==
    ASSUME NEW S, NEW s \in Seq(S), NEW e \in S
    PROVE  /\ \A x : Has(Append(s, e), x) <=> Has(s, x) \/ e = x
           /\ \A k : HasKind(Append(s, e), k) <=> HasKind(s, k) \/ e.kind = k
  <1> DEFINE t == Append(s, e)
  <1>1. /\ Len(s) \in Nat /\ Len(t) = Len(s) + 1 /\ t[Len(s) + 1] = e
        /\ \A i \in 1 .. Len(s) : t[i] = s[i]
    BY AppendProperties
  <1> HIDE DEF t
  <1>2. \A i \in 1 .. Len(t) : i \in 1 .. Len(s) \/ i = Len(s) + 1
    BY <1>1
  <1>3. \A i \in 1 .. Len(s) : i \in 1 .. Len(t) BY <1>1
  <1>4. Len(s) + 1 \in 1 .. Len(t) BY <1>1
  <1>5. \A x : Has(t, x) <=> Has(s, x) \/ e = x
    BY <1>1, <1>2, <1>3, <1>4, Zenon DEF Has
  <1>6. \A k : HasKind(t, k) <=> HasKind(s, k) \/ e.kind = k
    BY <1>1, <1>2, <1>3, <1>4, Zenon DEF HasKind
  <1> QED BY <1>5, <1>6 DEF t

\* A sequence of one event is its head.
LEMMA OneElement ==
    \A a : Head(<<a>>) = a /\ Tail(<<a>>) = <<>>
  OBVIOUS

\* One element less at the front.
LEMMA HasTail ==
    ASSUME NEW S, NEW s \in Seq(S), s # <<>>
    PROVE  /\ \A x : Has(s, x) <=> Head(s) = x \/ Has(Tail(s), x)
           /\ \A k : HasKind(s, k) <=> Head(s).kind = k \/ HasKind(Tail(s), k)
  <1> DEFINE t == Tail(s)
  <1>1. /\ Len(s) \in Nat /\ Len(s) >= 1 /\ Len(t) = Len(s) - 1
        /\ Head(s) = s[1] /\ \A i \in 1 .. Len(t) : t[i] = s[i + 1]
    BY HeadTailProperties, EmptySeq
  <1> HIDE DEF t
  <1>2. ASSUME NEW i \in 1 .. Len(s)
        PROVE  i = 1 \/ \E j \in 1 .. Len(t) : t[j] = s[i]
    <2>1. CASE i # 1
      <3>1. i - 1 \in 1 .. Len(t) /\ (i - 1) + 1 = i BY <1>1, <2>1
      <3> QED BY <1>1, <3>1
    <2> QED BY <2>1
  <1>3. ASSUME NEW j \in 1 .. Len(t)
        PROVE  \E i \in 1 .. Len(s) : t[j] = s[i]
    <2>1. j + 1 \in 1 .. Len(s) BY <1>1
    <2> QED BY <1>1, <2>1
  <1>4. 1 \in 1 .. Len(s) BY <1>1
  <1>5. ASSUME NEW x PROVE Has(s, x) <=> Head(s) = x \/ Has(t, x)
    <2>1. ASSUME Has(s, x) PROVE Head(s) = x \/ Has(t, x)
      BY <1>1, <1>2, <2>1 DEF Has
    <2>2. ASSUME Head(s) = x PROVE Has(s, x) BY <1>1, <1>4, <2>2 DEF Has
    <2>3. ASSUME Has(t, x) PROVE Has(s, x) BY <1>3, <2>3 DEF Has
    <2> QED BY <2>1, <2>2, <2>3
  <1>6. ASSUME NEW k PROVE HasKind(s, k) <=> Head(s).kind = k \/ HasKind(t, k)
    <2>1. ASSUME HasKind(s, k) PROVE Head(s).kind = k \/ HasKind(t, k)
      <3>1. PICK i \in 1 .. Len(s) : s[i].kind = k BY <2>1 DEF HasKind
      <3>2. CASE i = 1 BY <1>1, <3>1, <3>2
      <3>3. CASE i # 1
        <4>1. PICK j \in 1 .. Len(t) : t[j] = s[i] BY <1>2, <3>3
        <4> QED BY <3>1, <4>1 DEF HasKind
      <3> QED BY <3>2, <3>3
    <2>2. ASSUME Head(s).kind = k PROVE HasKind(s, k)
      BY <1>1, <1>4, <2>2 DEF HasKind
    <2>3. ASSUME HasKind(t, k) PROVE HasKind(s, k)
      <3>1. PICK j \in 1 .. Len(t) : t[j].kind = k BY <2>3 DEF HasKind
      <3>2. PICK i \in 1 .. Len(s) : t[j] = s[i] BY <1>3
      <3> QED BY <3>1, <3>2 DEF HasKind
    <2> QED BY <2>1, <2>2, <2>3
  <1> QED BY <1>5, <1>6 DEF t

\* A marked event is added to a queue that has none.
LEMMA MarkAppend ==
    ASSUME NEW s \in Seq(Events), NEW e \in Events, OneMark(s),
           Marks(e) => /\ ~HasKind(s, "TurnFinished")
                       /\ ~HasKind(s, "ApprovalRequest")
    PROVE  OneMark(Append(s, e))
  <1> DEFINE t == Append(s, e)
  <1>1. /\ Len(s) \in Nat /\ Len(t) = Len(s) + 1 /\ t[Len(s) + 1] = e
        /\ \A i \in 1 .. Len(s) : t[i] = s[i]
    BY AppendProperties
  <1> HIDE DEF t
  <1>2. Marks(e) => \A i \in 1 .. Len(s) : ~Marks(s[i])
    BY Zenon DEF Marks, HasKind
  <1>3. \A i \in 1 .. Len(t) : i \in 1 .. Len(s) \/ i = Len(s) + 1
    BY <1>1
  <1>4. OneMark(t)
    <2> SUFFICES ASSUME NEW i \in 1 .. Len(t), NEW j \in 1 .. Len(t),
                        Marks(t[i]), Marks(t[j])
                 PROVE  i = j
      BY DEF OneMark
    <2>1. CASE i = Len(s) + 1 \/ j = Len(s) + 1
      <3>1. Marks(e) BY <1>1, <2>1
      <3>2. i \notin 1 .. Len(s) /\ j \notin 1 .. Len(s) BY <1>1, <1>2, <3>1
      <3> QED BY <1>3, <3>2
    <2>2. CASE i # Len(s) + 1 /\ j # Len(s) + 1
      BY <1>1, <1>3, <2>2 DEF OneMark
    <2> QED BY <2>1, <2>2
  <1> QED BY <1>4 DEF t

\* A marked event is taken from a queue that has no other.
LEMMA MarkTail ==
    ASSUME NEW s \in Seq(Events), s # <<>>, OneMark(s)
    PROVE  /\ OneMark(Tail(s))
           /\ Marks(Head(s)) => /\ ~HasKind(Tail(s), "TurnFinished")
                                /\ ~HasKind(Tail(s), "ApprovalRequest")
  <1> DEFINE t == Tail(s)
  <1>1. /\ Len(s) \in Nat /\ Len(s) >= 1 /\ Len(t) = Len(s) - 1
        /\ Head(s) = s[1] /\ \A i \in 1 .. Len(t) : t[i] = s[i + 1]
    BY HeadTailProperties, EmptySeq
  <1> HIDE DEF t
  <1>2. \A i \in 1 .. Len(t) : i + 1 \in 1 .. Len(s) /\ i + 1 # 1 BY <1>1
  <1>3. 1 \in 1 .. Len(s) BY <1>1
  <1>4. OneMark(t)
    <2> SUFFICES ASSUME NEW i \in 1 .. Len(t), NEW j \in 1 .. Len(t),
                        Marks(t[i]), Marks(t[j])
                 PROVE  i = j
      BY DEF OneMark
    <2>1. Marks(s[i + 1]) /\ Marks(s[j + 1]) BY <1>1
    <2>2. i + 1 = j + 1 BY <1>2, <2>1 DEF OneMark
    <2> QED BY <2>2
  <1>5. ASSUME Marks(Head(s)), NEW i \in 1 .. Len(t) PROVE ~Marks(t[i])
    <2>1. Marks(s[1]) BY <1>1, <1>5
    <2>2. ~Marks(s[i + 1]) BY <1>2, <1>3, <2>1 DEF OneMark
    <2> QED BY <1>1, <2>2
  <1>6. Marks(Head(s)) => /\ ~HasKind(t, "TurnFinished")
                          /\ ~HasKind(t, "ApprovalRequest")
    BY <1>5 DEF Marks, HasKind
  <1> QED BY <1>4, <1>6 DEF t

\* The same for the prompts in the command channel.
LEMMA PromptQueue ==
    ASSUME NEW s \in Seq(Commands), OnePrompt(s)
    PROVE  /\ \A c \in Commands :
                 c # "Prompt" \/ ~Has(s, "Prompt") => OnePrompt(Append(s, c))
           /\ s # <<>> =>
                 /\ OnePrompt(Tail(s))
                 /\ Head(s) = "Prompt" => ~Has(Tail(s), "Prompt")
  <1>1. ASSUME NEW c \in Commands, c # "Prompt" \/ ~Has(s, "Prompt")
        PROVE  OnePrompt(Append(s, c))
    <2> DEFINE t == Append(s, c)
    <2>1. /\ Len(s) \in Nat /\ Len(t) = Len(s) + 1 /\ t[Len(s) + 1] = c
          /\ \A i \in 1 .. Len(s) : t[i] = s[i]
      BY AppendProperties
    <2> HIDE DEF t
    <2>2. c = "Prompt" => \A i \in 1 .. Len(s) : s[i] # "Prompt"
      BY <1>1 DEF Has
    <2>3. \A i \in 1 .. Len(t) : i \in 1 .. Len(s) \/ i = Len(s) + 1
      BY <2>1
    <2>4. OnePrompt(t)
      <3> SUFFICES ASSUME NEW i \in 1 .. Len(t), NEW j \in 1 .. Len(t),
                          t[i] = "Prompt", t[j] = "Prompt"
                   PROVE  i = j
        BY DEF OnePrompt
      <3>1. CASE i = Len(s) + 1 \/ j = Len(s) + 1
        <4>1. c = "Prompt" BY <2>1, <3>1
        <4>2. i \notin 1 .. Len(s) /\ j \notin 1 .. Len(s)
          BY <2>1, <2>2, <4>1
        <4> QED BY <2>3, <4>2
      <3>2. CASE i # Len(s) + 1 /\ j # Len(s) + 1
        BY <2>1, <2>3, <3>2 DEF OnePrompt
      <3> QED BY <3>1, <3>2
    <2> QED BY <2>4 DEF t
  <1>2. ASSUME s # <<>>
        PROVE  /\ OnePrompt(Tail(s))
               /\ Head(s) = "Prompt" => ~Has(Tail(s), "Prompt")
    <2> DEFINE t == Tail(s)
    <2>1. /\ Len(s) \in Nat /\ Len(s) >= 1 /\ Len(t) = Len(s) - 1
          /\ Head(s) = s[1] /\ \A i \in 1 .. Len(t) : t[i] = s[i + 1]
      BY <1>2, HeadTailProperties, EmptySeq
    <2> HIDE DEF t
    <2>2. \A i \in 1 .. Len(t) : i + 1 \in 1 .. Len(s) /\ i + 1 # 1 BY <2>1
    <2>3. 1 \in 1 .. Len(s) BY <2>1
    <2>4. OnePrompt(t)
      <3> SUFFICES ASSUME NEW i \in 1 .. Len(t), NEW j \in 1 .. Len(t),
                          t[i] = "Prompt", t[j] = "Prompt"
                   PROVE  i = j
        BY DEF OnePrompt
      <3>1. s[i + 1] = "Prompt" /\ s[j + 1] = "Prompt" BY <2>1
      <3>2. i + 1 = j + 1 BY <2>2, <3>1 DEF OnePrompt
      <3> QED BY <3>2
    <2>5. ASSUME Head(s) = "Prompt", NEW i \in 1 .. Len(t)
          PROVE  t[i] # "Prompt"
      <3>1. s[i + 1] # "Prompt" BY <2>1, <2>2, <2>3, <2>5 DEF OnePrompt
      <3> QED BY <2>1, <3>1
    <2> QED BY <2>4, <2>5 DEF t, Has
  <1> QED BY <1>1, <1>2

----------------------------------------------------------------------------
(* What the worker commits itself to deliver. *)

\* Neither event that ends the relay of a turn is in out.
Quiet(out) ==
    ~HasKind(out, "TurnFinished") /\ ~HasKind(out, "ApprovalRequest")

\* out reports the end of a turn, once.
Reports(out) ==
    /\ HasKind(out, "TurnFinished") /\ ~HasKind(out, "ApprovalRequest")
    /\ OneMark(out)

\* A quiet outbox has no mark at all.
LEMMA QuietMarks == \A out : Quiet(out) => OneMark(out)
  BY Zenon DEF Quiet, OneMark, Marks, HasKind

\* Tuples of one or two events.
LEMMA QuietTuples ==
    ASSUME NEW a \in Events, NEW b \in Events, ~Marks(a)
    PROVE  /\ Quiet(<<>>) /\ Quiet(<<a>>)
           /\ ~Marks(b) => Quiet(<<a, b>>)
           /\ b.kind = "TurnFinished" => Reports(<<a, b>>)
  BY DEF Quiet, Reports, OneMark, HasKind, Marks

\* The kinds of the events the worker sends.
LEMMA EventKinds ==
    /\ \A e \in {Ready, Failed, Report, Stopped, Event("Session"),
                 Event("Pane"), Event("Panels"), Event("Models")} : ~Marks(e)
    /\ TurnFinished.kind = "TurnFinished"
    /\ \A id : /\ ApprovalRequest(id).kind = "ApprovalRequest"
               /\ ApprovalRequest(id).id = id
    /\ \A e \in Events : e.kind = "ApprovalRequest" =>
                             e = ApprovalRequest(e.id)
  <1>1. /\ TurnFinished.kind = "TurnFinished" /\ Stopped.kind = "Stopped"
        /\ Ready.kind = "Ready" /\ Failed.kind = "Failed"
        /\ Report.kind = "Report"
        /\ Event("Session").kind = "Session" /\ Event("Pane").kind = "Pane"
        /\ Event("Panels").kind = "Panels"
        /\ Event("Models").kind = "Models"
    BY DEF TurnFinished, Stopped, Ready, Failed, Report, Event
  <1>2. \A id : /\ ApprovalRequest(id).kind = "ApprovalRequest"
                /\ ApprovalRequest(id).id = id
    BY DEF ApprovalRequest
  <1>3. \A e \in Events : e.kind = "ApprovalRequest" =>
                              e = ApprovalRequest(e.id)
    BY DEF Events, ApprovalRequest
  <1> QED BY <1>1, <1>2, <1>3 DEF Marks

\* The pane, the header, and the end of a turn.
LEMMA QuietPanes ==
    /\ Quiet(Panes) /\ Quiet(Panes \o <<Ready>>)
    /\ Reports(Panes \o <<Ready, TurnFinished>>)
  <1>1. CASE HasPane
    <2>1. Panes = <<Event("Pane")>>
      BY <1>1 DEF Panes
    <2> DEFINE p == <<Event("Pane")>>
               r == <<Ready>>
               f == <<Ready, TurnFinished>>
    <2>2. /\ p \in Seq(Events) /\ Len(p) = 1 /\ p[1] = Event("Pane")
          /\ r \in Seq(Events) /\ Len(r) = 1 /\ r[1] = Ready
          /\ f \in Seq(Events) /\ Len(f) = 2 /\ f[1] = Ready
          /\ f[2] = TurnFinished
      BY EventTypes
    <2> HIDE DEF p, r, f
    <2>3. ASSUME NEW s \in Seq(Events)
          PROVE  /\ Len(p \o s) = Len(p) + Len(s)
                 /\ \A i \in 1 .. Len(p) + Len(s) :
                       (p \o s)[i] = IF i <= Len(p) THEN p[i]
                                                   ELSE s[i - Len(p)]
      BY <2>2, ConcatProperties
    <2>4. /\ Len(p \o r) = 2 /\ (p \o r)[1] = p[1] /\ (p \o r)[2] = r[1]
      BY <2>2, <2>3
    <2>5. /\ Len(p \o f) = 3 /\ (p \o f)[1] = p[1] /\ (p \o f)[2] = f[1]
          /\ (p \o f)[3] = f[2]
      BY <2>2, <2>3
    <2>6. Quiet(p) /\ Quiet(p \o r)
      BY <2>2, <2>4, EventKinds DEF Quiet, HasKind, Marks
    <2>7. Reports(p \o f)
      BY <2>2, <2>5, EventKinds DEF Reports, OneMark, HasKind, Marks
    <2> QED BY <2>1, <2>6, <2>7 DEF p, r, f
  <1>2. CASE ~HasPane
    <2>1. Panes = <<>>
      BY <1>2 DEF Panes
    <2>2. <<Ready>> \in Seq(Events) /\ <<Ready, TurnFinished>> \in Seq(Events)
      BY EventTypes
    <2>3. /\ Panes \o <<Ready>> = <<Ready>>
          /\ Panes \o <<Ready, TurnFinished>> = <<Ready, TurnFinished>>
      BY <2>1, <2>2, ConcatEmptySeq
    <2> QED BY <2>1, <2>3, QuietTuples, EventKinds, EventTypes
  <1> QED BY <1>1, <1>2

\* No answer to a request ends the relay of a turn.
LEMMA QuietAnswers ==
    \A c \in Commands : \A out \in Answers(c) : Quiet(out)
  <1> SUFFICES ASSUME NEW c \in Commands, NEW out \in Answers(c)
               PROVE  Quiet(out)
    OBVIOUS
  <1>1. \/ out = <<Report>> \/ out = <<Event("Panels")>>
        \/ out = <<Ready>> \/ out = <<Failed>>
        \/ out = <<Event("Models")>> \/ out = <<Report, Ready>>
        \/ out = <<Failed, Ready>>
    BY DEF Answers, Commands, Requests
  <1>2. /\ Quiet(<<Report>>) /\ Quiet(<<Event("Panels")>>)
        /\ Quiet(<<Ready>>) /\ Quiet(<<Failed>>)
        /\ Quiet(<<Event("Models")>>) /\ Quiet(<<Report, Ready>>)
        /\ Quiet(<<Failed, Ready>>)
    BY QuietTuples, EventKinds, EventTypes
  <1> QED BY <1>1, <1>2

----------------------------------------------------------------------------
(* The worker's steps. *)

\* The worker goes on without starting or ending a turn: it keeps what it has
\* in its hand, or takes a command into it, or has been stopped and drops it.
MovesOn ==
    /\ outbox = <<>> /\ Quiet(outbox')
    /\ \/ UNCHANGED cmds /\ (Held' <=> Held)
       \/ UNCHANGED cmds /\ stop /\ ~Held'
       \/ /\ cmds # <<>> /\ cmds' = Tail(cmds)
          /\ ~Held /\ (Held' <=> Head(cmds) = "Prompt")
    /\ wpc' \in TurnPcs <=> wpc \in TurnPcs
    /\ {wpc, wpc'} \cap {"hook", "hookStop"} = {}
    /\ wpc' = "poll" => wpc = "check"
    /\ wpc' = "check" => outbox' # <<>>
    /\ UNCHANGED <<evts, stop, pending, hookId, hpc>>

\* The worker serves a prompt: it starts the turn, or answers at once.
TakesPrompt ==
    /\ outbox = <<>> /\ Held /\ ~Held' /\ UNCHANGED cmds
    /\ \/ wpc' = "poll" /\ outbox' = <<>>
       \/ wpc' = "clear" /\ Reports(outbox')
    /\ UNCHANGED <<evts, stop, pending, hookId, hpc>>

\* The turn is over.
Settles ==
    /\ outbox = <<>> /\ wpc = "settle" /\ wpc' = "clear" /\ Reports(outbox')
    /\ UNCHANGED <<cmds, evts, stop, pending, hookId, hpc>>

\* The hook waits on.
WaitsOn ==
    /\ outbox = <<>> /\ outbox' = <<>>
    /\ {wpc, wpc'} \subseteq {"hook", "hookStop"}
    /\ UNCHANGED <<cmds, evts, stop, pending, hookId, hpc>>

\* The hook returns.
HookOver ==
    /\ \/ wpc = "hook" /\ outbox # <<>>
       \/ wpc = "hook" /\ outbox = <<>> /\ reply # "none"
       \/ wpc = "hookStop" /\ outbox = <<>> /\ stop
    /\ wpc' = "check" /\ outbox' # <<>> /\ Quiet(outbox')
    /\ pending' = pending \ {hookId}
    /\ UNCHANGED <<cmds, evts, stop, hookId, hpc>>

\* Every step of the worker is one of these.
LEMMA TurnShapes ==
    TypeInv /\ WorkerNext =>
        \/ Deliver \/ LoseEvent \/ LoseTerminal \/ LosePlain
        \/ MovesOn \/ TakesPrompt \/ Settles \/ PollApproval \/ WaitsOn
        \/ HookOver
  <1> SUFFICES ASSUME TypeInv, WorkerNext,
                      ~(Deliver \/ LoseEvent \/ LoseTerminal \/ LosePlain
                        \/ PollApproval)
               PROVE  MovesOn \/ TakesPrompt \/ Settles \/ WaitsOn \/ HookOver
    OBVIOUS
  <1>p. /\ Quiet(<<>>) /\ Quiet(<<Event("Session")>>)
        /\ Quiet(<<Failed, Stopped>>) /\ Quiet(<<Stopped>>)
        /\ Reports(<<Failed, TurnFinished>>)
    BY QuietTuples, EventKinds, EventTypes
  <1> USE DEF At, Goto, Held, Serves, TurnPcs, RespondingPcs
  <1>1. CASE ComposeOk BY <1>1, QuietPanes DEF ComposeOk, MovesOn
  <1>2. CASE ComposeFails BY <1>2, <1>p DEF ComposeFails, MovesOn
  <1>3. CASE LeaveLoop \/ TakeCancel \/ TakeShutdown \/ PromptGoesOn
    BY <1>3, <1>p
    DEF LeaveLoop, TakeCancel, TakeShutdown, PromptGoesOn, MovesOn
  <1>4. CASE DropCommand \/ PassStop
    BY <1>4, <1>p DEF DropCommand, PassStop, MovesOn
  <1>4a. CASE Receive BY <1>4a, <1>p DEF Receive, MovesOn
  <1>5. CASE PromptCancelled \/ PromptRefused \/ PromptAccepted
    BY <1>5, <1>p
    DEF PromptCancelled, PromptRefused, PromptAccepted, TakesPrompt
  <1>6. CASE TakeRequest
    <2>1. PICK c \in Requests \ {"ModelsFetch"} :
              /\ Serves(c)
              /\ \E out \in Answers(c) : Goto("idle", out)
              /\ UNCHANGED <<queueVars, flagVars, sessionVars, exchangeVars,
                             owed, stopVars, handleVars>>
      BY <1>6 DEF TakeRequest
    <2>2. Quiet(outbox') /\ wpc' = "idle" /\ c # "Prompt"
      BY <2>1, QuietAnswers DEF Commands, Requests
    <2> QED BY <2>1, <2>2 DEF MovesOn
  <1>7. CASE TakeModelsFetch
    <2>1. Quiet(outbox') /\ wpc' = "clear"
      BY <1>7, QuietAnswers DEF TakeModelsFetch, Commands, Requests
    <2> QED BY <2>1, <1>7 DEF TakeModelsFetch, MovesOn
  <1>8. CASE PollEvent \/ PollNone
    BY <1>8, <1>p DEF PollEvent, PollNone, MovesOn
  <1>9. CASE CheckCancel
    BY <1>9, QuietPanes DEF CheckCancel, MovesOn
  <1>10. CASE SettleTurn BY <1>10, QuietPanes DEF SettleTurn, Settles
  <1>11. CASE ClearCancel \/ Quiesce \/ ThreadEnds
    BY <1>11, <1>p DEF ClearCancel, Quiesce, ThreadEnds, MovesOn
  <1>12. CASE FlushQuiet \/ DrainSettles \/ DrainFails
    <2>1. PICK r : FlushAs(r)
      BY <1>12, Zenon DEF FlushQuiet, DrainSettles, DrainFails
    <2>2. Quiet(outbox') /\ wpc' = "exit"
      <3>1. <<Stopped>> \in Seq(Events) /\ <<Failed>> \in Seq(Events)
        BY EventTypes
      <3>2. CASE r = "Flushed"
        <4>1. outbox' = <<>> \o <<Stopped>> /\ wpc' = "exit"
          BY <2>1, <3>2 DEF FlushAs
        <4> QED BY <1>p, <3>1, <4>1, ConcatEmptySeq
      <3>3. CASE r # "Flushed"
        <4> DEFINE f == <<Failed>>
                   e == <<Stopped>>
        <4>1. outbox' = f \o e /\ wpc' = "exit"
          BY <2>1, <3>3 DEF FlushAs
        <4>2. /\ f \in Seq(Events) /\ Len(f) = 1 /\ f[1] = Failed
              /\ e \in Seq(Events) /\ Len(e) = 1 /\ e[1] = Stopped
          BY <3>1
        <4> HIDE DEF f, e
        <4>3. /\ Len(f \o e) = Len(f) + Len(e)
              /\ \A i \in 1 .. Len(f) + Len(e) :
                    (f \o e)[i] = IF i <= Len(f) THEN f[i] ELSE e[i - Len(f)]
          BY <4>2, ConcatProperties
        <4>4. Quiet(f \o e)
          BY <4>2, <4>3, EventKinds DEF Quiet, HasKind, Marks
        <4> QED BY <4>1, <4>4
      <3> QED BY <3>2, <3>3
    <2>3. /\ outbox = <<>> /\ wpc \in {"flush", "drain"}
          /\ UNCHANGED <<cmds, evts, stop, pending, hookId, hpc>>
      BY <1>12 DEF FlushQuiet, DrainSettles, DrainFails
    <2> QED BY <2>2, <2>3 DEF MovesOn
  <1>13. CASE HookTimeout \/ HookWaits
    BY <1>13 DEF HookTimeout, HookWaits, WaitsOn
  <1>14. CASE HookVerdict \/ HookStopped \/ AnnounceFails
    BY <1>14, <1>p
    DEF HookVerdict, HookStopped, AnnounceFails, Announcing, Delivering,
        HookReturns, HookOver
  <1> QED
    BY <1>1, <1>2, <1>3, <1>4, <1>4a, <1>5, <1>6, <1>7, <1>8, <1>9, <1>10,
       <1>11, <1>12, <1>13, <1>14
    DEF WorkerNext

\* The worker's steps leave the frontend's locals alone, and with them what
\* the UI waits for.
LEMMA UiUnchanged ==
    ASSUME UiInv, UNCHANGED uiVars, UNCHANGED hpc
    PROVE  /\ UiInv' /\ (Awaits' <=> Awaits)
           /\ UNCHANGED <<modal, modalId, upc>>
  BY DEF UiInv, uiVars, Awaits, Suspended, Live

\* An approval request in the channel is the one AskInv speaks of.
LEMMA AskedOne ==
    ASSUME TypeInv, AskInv, HasKind(evts, "ApprovalRequest")
    PROVE  (Blocked \/ Ended) /\ Has(evts, ApprovalRequest(hookId))
  <1>1. evts \in Seq(Events) BY DEF TypeInv, TypeOK
  <1>2. PICK i \in 1 .. Len(evts) : evts[i].kind = "ApprovalRequest"
    BY DEF HasKind
  <1>3. evts[i] \in Events /\ Has(evts, evts[i])
    BY <1>1, ElementOfSeq DEF Has
  <1>4. evts[i].id = hookId /\ (Blocked \/ Ended) BY <1>2, <1>3 DEF AskInv
  <1> QED BY <1>2, <1>3, <1>4, EventKinds

\* An event is delivered.
LEMMA DeliverKeeps ==
    ASSUME BridgeInv, Deliver, UNCHANGED uiVars
    PROVE  QueueInv' /\ OneTurn' /\ AskInv' /\ WaitInv'
  <1> DEFINE h == Head(outbox)
  <1>0. /\ outbox \in Seq(Events) /\ evts \in Seq(Events)
        /\ TypeInv /\ HookInv /\ UiInv /\ QueueInv /\ OneTurn /\ AskInv
        /\ WaitInv
    BY DEF BridgeInv, TypeInv, TypeOK
  <1>1. /\ outbox # <<>> /\ outbox' = Tail(outbox) /\ evts' = Append(evts, h)
        /\ stop => wpc \in {"exit", "failed", "hook"}
        /\ UNCHANGED <<cmds, stop, wpc, taken, pending, hookId, hpc>>
    BY DEF Deliver, Delivering, Terminal, PlainSend, Announcing
  <1>h. Held' <=> Held BY <1>1 DEF Held
  <1>u. (Awaits' <=> Awaits) /\ UNCHANGED <<modal, modalId, upc>>
    BY <1>0, <1>1, UiUnchanged
  <1>2. h \in Events BY <1>0, <1>1, HeadTailProperties
  <1> HIDE DEF h
  <1>3. \A k : /\ HasKind(outbox, k) <=> h.kind = k \/ HasKind(outbox', k)
               /\ HasKind(evts', k) <=> HasKind(evts, k) \/ h.kind = k
    <2>1. \A k : HasKind(outbox, k) <=>
                     Head(outbox).kind = k \/ HasKind(Tail(outbox), k)
      BY <1>0, <1>1, HasTail
    <2>2. \A k : HasKind(Append(evts, h), k) <=> HasKind(evts, k) \/ h.kind = k
      BY <1>0, <1>2, HasAppend
    <2> QED BY <1>1, <2>1, <2>2 DEF h
  <1>4. \A x : Has(evts', x) <=> Has(evts, x) \/ h = x
    BY <1>0, <1>1, <1>2, HasAppend
  <1>5. /\ OneMark(outbox')
        /\ Marks(h) => /\ ~HasKind(outbox', "TurnFinished")
                       /\ ~HasKind(outbox', "ApprovalRequest")
    BY <1>0, <1>1, MarkTail DEF QueueInv, h
  \* Nothing is blocked, and after a stop only the last evidence is delivered.
  <1>6. ~Blocked /\ (Ended => wpc \in {"exit", "failed"})
    BY <1>1 DEF Blocked, Ended
  <1>7. ASSUME h.kind = "TurnFinished"
        PROVE  /\ wpc = "clear" /\ ~stop /\ ~Ended /\ modal # "tool"
               /\ ~HasKind(evts, "TurnFinished")
               /\ ~HasKind(evts, "ApprovalRequest") /\ ~Queued
    <2>1. HasKind(outbox, "TurnFinished") BY <1>3, <1>7
    <2>2. wpc = "clear" BY <1>0, <2>1 DEF QueueInv
    <2>3. ~stop /\ ~Ended BY <1>1, <2>2 DEF Ended
    <2>4. ~HasKind(evts, "ApprovalRequest") BY <1>0, <1>6, <2>3, AskedOne
    <2>5. modal # "tool" BY <1>0, <1>6, <2>3 DEF AskInv
    <2> QED BY <1>0, <2>1, <2>2, <2>3, <2>4, <2>5 DEF OneTurn
  <1>8. ASSUME h.kind = "ApprovalRequest"
        PROVE  /\ wpc = "hook" /\ outbox' = <<>> /\ pending = {hookId}
               /\ h = ApprovalRequest(hookId)
               /\ ~Ended /\ modal # "tool" /\ wpc \in TurnPcs /\ ~Queued
               /\ ~HasKind(evts, "TurnFinished")
               /\ ~HasKind(evts, "ApprovalRequest")
    <2>1. HasKind(outbox, "ApprovalRequest") BY <1>3, <1>8
    <2>2. /\ wpc = "hook" /\ pending = {hookId}
          /\ outbox = <<ApprovalRequest(hookId)>>
      BY <1>0, <1>1, <2>1 DEF QueueInv
    <2>3. outbox' = <<>> /\ h = ApprovalRequest(hookId)
      <3>1. /\ Tail(<<ApprovalRequest(hookId)>>) = <<>>
            /\ Head(<<ApprovalRequest(hookId)>>) = ApprovalRequest(hookId)
        BY OneElement
      <3> QED BY <1>1, <2>2, <3>1, Zenon DEF h
    <2>4. ~Ended BY <2>2 DEF Ended
    <2>5. ~HasKind(evts, "ApprovalRequest") BY <1>0, <1>6, <2>4, AskedOne
    <2>6. modal # "tool" BY <1>0, <1>6, <2>4 DEF AskInv
    <2>7. wpc \in TurnPcs BY <2>2 DEF TurnPcs, RespondingPcs
    <2> QED BY <1>0, <2>2, <2>3, <2>4, <2>5, <2>6, <2>7 DEF OneTurn
  <1>9. QueueInv'
    <2>1. OneMark(evts')
      <3>1. Marks(h) => /\ ~HasKind(evts, "TurnFinished")
                        /\ ~HasKind(evts, "ApprovalRequest")
        BY <1>7, <1>8 DEF Marks
      <3> QED BY <1>0, <1>1, <1>2, <3>1, MarkAppend DEF QueueInv
    <2>2. wpc = "hook" => outbox' = <<>>
      <3>1. ASSUME wpc = "hook" PROVE outbox = <<ApprovalRequest(hookId)>>
        BY <1>0, <1>1, <3>1 DEF QueueInv
      <3>2. Tail(<<ApprovalRequest(hookId)>>) = <<>> BY OneElement
      <3> QED BY <1>1, <3>1, <3>2, Zenon
    <2>3. wpc # "hookStop" BY <1>0, <1>1 DEF QueueInv
    <2>4. OnePrompt(cmds') BY <1>0, <1>1 DEF QueueInv
    <2> QED BY <1>0, <1>1, <1>h, <1>3, <1>5, <2>1, <2>2, <2>3, <2>4
         DEF QueueInv
  <1>10. OneTurn'
    <2>1. Queued' <=> Queued BY <1>1, <1>h DEF Queued, Held
    <2> QED BY <1>0, <1>1, <1>3, <1>5, <1>7, <1>8, <1>u, <2>1
         DEF OneTurn, Marks, TurnPcs, RespondingPcs
  <1>11. AskInv'
    <2>1. Ended => Ended' BY <1>1, <1>6 DEF Ended
    <2>2. ASSUME NEW e \in Events, Has(evts', e), e.kind = "ApprovalRequest"
          PROVE  e.id = hookId' /\ (Blocked' \/ Ended')
      <3>1. CASE Has(evts, e)
        BY <1>0, <1>1, <1>6, <2>1, <2>2, <3>1 DEF AskInv
      <3>2. CASE h = e
        <4>1. Blocked' BY <1>1, <1>8, <2>2, <3>2 DEF Blocked, Hooked
        <4> QED BY <1>1, <1>8, <2>2, <3>2, <4>1, EventKinds
      <3> QED BY <1>4, <2>2, <3>1, <3>2
    <2>3. modal' = "tool" => modalId' = hookId' /\ (Blocked' \/ Ended')
      BY <1>0, <1>1, <1>6, <1>u, <2>1 DEF AskInv
    <2>4. ASSUME Hooked', pending' # {}
          PROVE  Has(evts', ApprovalRequest(hookId'))
      <3>1. wpc = "hook"
        BY <1>0, <1>1, <2>4 DEF Hooked, QueueInv
      <3>2. outbox = <<ApprovalRequest(hookId)>>
        BY <1>0, <1>1, <3>1 DEF QueueInv
      <3>3. h = ApprovalRequest(hookId) BY <3>2 DEF h
      <3> QED BY <1>1, <1>4, <3>3
    <2> QED BY <2>2, <2>3, <2>4 DEF AskInv
  <1>12. WaitInv'
    <2>1. Queued' <=> Queued BY <1>1, <1>h DEF Queued, Held
    <2>2. Turn' <=> Turn BY <1>1, <1>3, <1>8, <2>1 DEF Turn
    <2> QED BY <1>0, <1>1, <1>u, <2>2 DEF WaitInv
  <1> QED BY <1>9, <1>10, <1>11, <1>12

\* An event is given up.
LEMMA LoseKeeps ==
    ASSUME BridgeInv, LoseEvent \/ LoseTerminal \/ LosePlain,
           UNCHANGED uiVars
    PROVE  QueueInv' /\ OneTurn' /\ AskInv' /\ WaitInv'
  <1>0. /\ outbox \in Seq(Events) /\ evts \in Seq(Events)
        /\ TypeInv /\ HookInv /\ UiInv /\ QueueInv /\ OneTurn /\ AskInv
        /\ WaitInv
    BY DEF BridgeInv, TypeInv, TypeOK
  <1>1. /\ outbox # <<>> /\ outbox' = Tail(outbox) /\ wpc # "hook"
        /\ wpc' = (IF wpc = "check" THEN "settle" ELSE wpc)
        /\ stop' \/ (wpc \in {"exit", "failed"} /\ ~stop /\ ~stop')
        /\ UNCHANGED <<cmds, evts, taken, pending, hookId, hpc>>
    BY <1>0
    DEF LoseEvent, LoseTerminal, LosePlain, Delivering, Announcing, PlainSend,
        Terminal, AfterLoss, TypeInv, TypeOK
  <1>h. Held' <=> Held BY <1>1 DEF Held
  <1>u. (Awaits' <=> Awaits) /\ UNCHANGED <<modal, modalId, upc>>
    BY <1>0, <1>1, UiUnchanged
  <1>2. \A k : HasKind(outbox', k) => HasKind(outbox, k)
    BY <1>0, <1>1, HasTail
  <1>3. OneMark(outbox') BY <1>0, <1>1, MarkTail DEF QueueInv
  <1>4. wpc # "hookStop" BY <1>0, <1>1 DEF QueueInv
  <1>5. wpc' \in TurnPcs <=> wpc \in TurnPcs
    BY <1>1, <1>4 DEF TurnPcs, RespondingPcs
  <1>6. (Queued' <=> Queued) /\ (\A k : HasKind(evts', k) <=> HasKind(evts, k))
        /\ (\A x : Has(evts', x) <=> Has(evts, x))
    BY <1>1, <1>h DEF Queued, Held
  <1>7. QueueInv'
    BY <1>0, <1>1, <1>h, <1>2, <1>3, <1>4 DEF QueueInv
  <1>8. OneTurn' BY <1>0, <1>2, <1>5, <1>6, <1>u DEF OneTurn
  <1>9. ~Blocked /\ (Ended => Ended') /\ ~Hooked'
    BY <1>1, <1>4 DEF Blocked, Ended, Hooked
  <1>10. AskInv' BY <1>0, <1>1, <1>6, <1>9, <1>u DEF AskInv
  <1>11. Turn' => Turn BY <1>2, <1>5, <1>6 DEF Turn
  <1>12. ~stop' => (Turn => Turn')
    <2>1. ASSUME ~stop' PROVE ~HasKind(outbox, "TurnFinished")
      BY <1>0, <1>1, <2>1 DEF QueueInv
    <2> QED BY <1>5, <1>6, <2>1 DEF Turn
  <1>13. WaitInv' BY <1>0, <1>1, <1>11, <1>12, <1>u DEF WaitInv
  <1> QED BY <1>7, <1>8, <1>10, <1>13

\* A command is taken.
LEMMA TakeKeeps ==
    ASSUME TypeInv, OnePrompt(cmds), cmds # <<>>, cmds' = Tail(cmds)
    PROVE  /\ OnePrompt(cmds')
           /\ Head(cmds) = "Prompt" => ~Has(cmds', "Prompt")
           /\ Has(cmds, "Prompt") <=>
                 Head(cmds) = "Prompt" \/ Has(cmds', "Prompt")
  <1>0. cmds \in Seq(Commands) BY DEF TypeInv, TypeOK
  <1>1. /\ OnePrompt(Tail(cmds))
        /\ Head(cmds) = "Prompt" => ~Has(Tail(cmds), "Prompt")
    BY <1>0, PromptQueue
  <1>2. Has(cmds, "Prompt") <=>
            Head(cmds) = "Prompt" \/ Has(Tail(cmds), "Prompt")
    BY <1>0, HasTail
  <1> QED BY <1>1, <1>2

\* The worker goes on.
LEMMA MovesOnKeeps ==
    ASSUME BridgeInv, MovesOn, UNCHANGED uiVars
    PROVE  QueueInv' /\ OneTurn' /\ AskInv' /\ WaitInv'
  <1>0. TypeInv /\ UiInv /\ QueueInv /\ OneTurn /\ AskInv /\ WaitInv
        /\ stop \in BOOLEAN
    BY DEF BridgeInv, TypeInv, TypeOK
  <1> USE DEF MovesOn
  <1>u. (Awaits' <=> Awaits) /\ UNCHANGED <<modal, modalId, upc>>
    BY <1>0, UiUnchanged
  <1>1. /\ OnePrompt(cmds') /\ (Queued' => Queued)
        /\ ~stop => (Queued => Queued')
        /\ Held' => ~Has(cmds', "Prompt")
    <2>1. CASE UNCHANGED cmds /\ ((Held' <=> Held) \/ (stop /\ ~Held'))
      BY <1>0, <2>1 DEF QueueInv, Queued, Held
    <2>2. CASE /\ cmds # <<>> /\ cmds' = Tail(cmds)
               /\ ~Held /\ (Held' <=> Head(cmds) = "Prompt")
      BY <1>0, <2>2, TakeKeeps DEF QueueInv, Queued, Held
    <2> QED BY <2>1, <2>2
  <1>2. /\ ~HasKind(outbox, "TurnFinished")
        /\ ~HasKind(outbox', "TurnFinished")
        /\ ~HasKind(outbox', "ApprovalRequest") /\ OneMark(outbox')
    BY QuietMarks, EmptySeq DEF Quiet, HasKind
  <1>3. /\ \A k : HasKind(evts', k) <=> HasKind(evts, k)
        /\ \A x : Has(evts', x) <=> Has(evts, x)
    OBVIOUS
  <1>4. wpc \notin {"hook", "hookStop"} /\ wpc' \notin {"hook", "hookStop"}
    OBVIOUS
  <1>5. QueueInv' BY <1>0, <1>1, <1>2, <1>4 DEF QueueInv
  <1>6. OneTurn' BY <1>0, <1>1, <1>2, <1>3, <1>u DEF OneTurn
  <1>7. ~Blocked /\ (Ended => Ended') /\ ~Hooked'
    BY <1>4 DEF Blocked, Ended, Hooked
  <1>8. AskInv' BY <1>0, <1>3, <1>7, <1>u DEF AskInv
  <1>9. (Turn' => Turn) /\ (~stop => (Turn => Turn'))
    BY <1>1, <1>2, <1>3 DEF Turn
  <1>10. WaitInv' BY <1>0, <1>9, <1>u DEF WaitInv
  <1> QED BY <1>5, <1>6, <1>8, <1>10

\* A prompt is taken.
LEMMA TakesPromptKeeps ==
    ASSUME BridgeInv, TakesPrompt, UNCHANGED uiVars
    PROVE  QueueInv' /\ OneTurn' /\ AskInv' /\ WaitInv'
  <1>0. TypeInv /\ UiInv /\ QueueInv /\ OneTurn /\ AskInv /\ WaitInv
    BY DEF BridgeInv
  <1> USE DEF TakesPrompt
  <1>u. (Awaits' <=> Awaits) /\ UNCHANGED <<modal, modalId, upc>>
    BY <1>0, UiUnchanged
  <1>1. OnePrompt(cmds') /\ Queued /\ ~Queued'
    BY <1>0 DEF QueueInv, Queued, Held
  <1>2. /\ ~HasKind(evts, "TurnFinished") /\ ~HasKind(evts, "ApprovalRequest")
        /\ modal # "tool"
    BY <1>0, <1>1 DEF OneTurn
  <1>3. /\ \A k : HasKind(evts', k) <=> HasKind(evts, k)
        /\ \A x : Has(evts', x) <=> Has(evts, x)
    OBVIOUS
  <1>4. OneMark(outbox') /\ ~HasKind(outbox', "ApprovalRequest")
        /\ (wpc' = "poll" => ~HasKind(outbox', "TurnFinished"))
        /\ (wpc' = "clear" => HasKind(outbox', "TurnFinished"))
        /\ wpc' \in {"poll", "clear"}
    BY EmptySeq DEF Reports, HasKind, OneMark
  <1>5. QueueInv' BY <1>0, <1>1, <1>4 DEF QueueInv
  <1>6. OneTurn' BY <1>1, <1>2, <1>3, <1>u DEF OneTurn
  <1>7. \A e \in Events : e.kind = "ApprovalRequest" => ~Has(evts, e)
    BY <1>2 DEF Has, HasKind
  <1>8. AskInv' BY <1>2, <1>3, <1>4, <1>7, <1>u DEF AskInv, Hooked
  <1>9. Turn /\ Turn'
    BY <1>1, <1>4 DEF Turn, TurnPcs, RespondingPcs
  <1>10. WaitInv' BY <1>0, <1>9, <1>u DEF WaitInv
  <1> QED BY <1>5, <1>6, <1>8, <1>10

\* A turn is over.
LEMMA SettlesKeeps ==
    ASSUME BridgeInv, Settles, UNCHANGED uiVars
    PROVE  QueueInv' /\ OneTurn' /\ AskInv' /\ WaitInv'
  <1>0. TypeInv /\ UiInv /\ QueueInv /\ OneTurn /\ AskInv /\ WaitInv
    BY DEF BridgeInv
  <1> USE DEF Settles
  <1>u. (Awaits' <=> Awaits) /\ UNCHANGED <<modal, modalId, upc>>
    BY <1>0, UiUnchanged
  <1>1. wpc \in TurnPcs /\ wpc' \notin TurnPcs BY DEF TurnPcs, RespondingPcs
  <1>2. ~Queued /\ ~HasKind(evts, "TurnFinished")
    BY <1>0, <1>1 DEF OneTurn
  <1>3. /\ \A k : HasKind(evts', k) <=> HasKind(evts, k)
        /\ \A x : Has(evts', x) <=> Has(evts, x)
        /\ Queued' <=> Queued
    BY DEF Queued, Held
  <1>4. OneMark(outbox') /\ ~HasKind(outbox', "ApprovalRequest")
        /\ HasKind(outbox', "TurnFinished")
    BY DEF Reports
  <1>5. QueueInv' BY <1>0, <1>4 DEF QueueInv, Held
  <1>6. OneTurn' BY <1>0, <1>2, <1>3, <1>u DEF OneTurn
  <1>7. ~Blocked /\ (Ended => Ended') /\ ~Hooked'
    BY DEF Blocked, Ended, Hooked
  <1>8. AskInv' BY <1>0, <1>3, <1>7, <1>u DEF AskInv
  <1>9. Turn /\ Turn' BY <1>1, <1>4 DEF Turn
  <1>10. WaitInv' BY <1>0, <1>9, <1>u DEF WaitInv
  <1> QED BY <1>5, <1>6, <1>8, <1>10

\* A request is registered and its announcement begins.
LEMMA PollApprovalKeeps ==
    ASSUME BridgeInv, PollApproval, UNCHANGED uiVars
    PROVE  QueueInv' /\ OneTurn' /\ AskInv' /\ WaitInv'
  <1>0. TypeInv /\ HookInv /\ UiInv /\ QueueInv /\ OneTurn /\ AskInv /\ WaitInv
        /\ nextId \in Ids
    BY DEF BridgeInv, TypeInv, TypeOK
  <1>1. /\ wpc = "poll" /\ wpc' = "hook" /\ outbox = <<>>
        /\ outbox' = <<ApprovalRequest(hookId')>>
        /\ pending' = pending \cup {hookId'}
        /\ UNCHANGED <<cmds, evts, stop, hpc>>
    BY DEF PollApproval, At, Goto
  <1>2. pending = {} BY <1>0, <1>1 DEF HookInv, ExchangeTable, Hooked
  <1>u. (Awaits' <=> Awaits) /\ UNCHANGED <<modal, modalId, upc>>
    BY <1>0, <1>1, UiUnchanged
  <1>3. wpc \in TurnPcs /\ wpc' \in TurnPcs
    BY <1>1 DEF TurnPcs, RespondingPcs
  <1>4. ~Blocked /\ ~Ended BY <1>1 DEF Blocked, Ended, Hooked
  <1>5. modal # "tool" /\ ~HasKind(evts, "ApprovalRequest") /\ ~Queued
        /\ ~HasKind(evts, "TurnFinished")
    BY <1>0, <1>3, <1>4, AskedOne DEF AskInv, OneTurn
  <1>6. /\ \A k : HasKind(evts', k) <=> HasKind(evts, k)
        /\ \A x : Has(evts', x) <=> Has(evts, x)
        /\ Queued' <=> Queued
    BY <1>1 DEF Queued, Held
  <1>7. OneMark(outbox') /\ ~HasKind(outbox', "TurnFinished")
    <2>1. PICK a : a = ApprovalRequest(hookId') OBVIOUS
    <2>2. outbox' = <<a>> /\ a.kind = "ApprovalRequest"
      BY <1>1, <2>1, EventKinds
    <2>3. Len(<<a>>) = 1 /\ <<a>>[1] = a OBVIOUS
    <2> QED BY <2>2, <2>3 DEF OneMark, HasKind
  <1>8. QueueInv' BY <1>0, <1>1, <1>2, <1>7 DEF QueueInv, Held
  <1>9. OneTurn' BY <1>5, <1>6, <1>u DEF OneTurn
  <1>10. \A e \in Events : e.kind = "ApprovalRequest" => ~Has(evts, e)
    BY <1>5 DEF Has, HasKind
  <1>11. AskInv' BY <1>1, <1>5, <1>6, <1>10, <1>u DEF AskInv
  <1>12. Turn /\ Turn' BY <1>3 DEF Turn
  <1>13. WaitInv' BY <1>0, <1>12, <1>u DEF WaitInv
  <1> QED BY <1>8, <1>9, <1>11, <1>13

\* The hook waits, or returns.
LEMMA HookKeeps ==
    ASSUME BridgeInv, WaitsOn \/ HookOver, UNCHANGED uiVars
    PROVE  QueueInv' /\ OneTurn' /\ AskInv' /\ WaitInv'
  <1>0. TypeInv /\ HookInv /\ UiInv /\ QueueInv /\ OneTurn /\ AskInv /\ WaitInv
    BY DEF BridgeInv
  <1>1. /\ wpc \in {"hook", "hookStop"}
        /\ wpc' \in {"hook", "hookStop", "check"}
        /\ UNCHANGED <<cmds, evts, stop, hookId, hpc>>
    BY DEF WaitsOn, HookOver
  <1>u. (Awaits' <=> Awaits) /\ UNCHANGED <<modal, modalId, upc>>
    BY <1>0, <1>1, UiUnchanged
  <1>2. wpc \in TurnPcs /\ wpc' \in TurnPcs
    BY <1>1 DEF TurnPcs, RespondingPcs
  <1>3. /\ \A k : HasKind(evts', k) <=> HasKind(evts, k)
        /\ \A x : Has(evts', x) <=> Has(evts, x)
        /\ Queued' <=> Queued
    BY <1>1 DEF Queued, Held
  <1>4. OneMark(outbox') /\ ~HasKind(outbox', "TurnFinished")
        /\ ~HasKind(outbox', "ApprovalRequest")
    BY EmptySeq, QuietMarks DEF WaitsOn, HookOver, Quiet, OneMark, HasKind
  <1>5. QueueInv'
    <2>1. CASE WaitsOn BY <1>0, <1>1, <1>4, <2>1 DEF QueueInv, Held, WaitsOn
    <2>2. CASE HookOver BY <1>0, <1>1, <1>4, <2>2 DEF QueueInv, Held, HookOver
    <2> QED BY <2>1, <2>2
  <1>6. OneTurn' BY <1>0, <1>2, <1>3, <1>4, <1>u DEF OneTurn
  <1>7. ~Ended BY <1>1 DEF Ended
  <1>8. Blocked => Blocked' \/ Ended'
    <2>1. CASE WaitsOn
      BY <2>1 DEF WaitsOn, Blocked, Hooked
    <2>2. CASE HookOver
      <3>1. Blocked => reply = "none"
        BY <1>0 DEF Blocked, HookInv, ExchangeTable
      <3> QED BY <2>2, <3>1 DEF HookOver, Blocked, Ended
    <2> QED BY <2>1, <2>2
  <1>9. Hooked' /\ pending' # {} =>
            Hooked /\ pending # {} /\ outbox = <<>>
    BY DEF WaitsOn, HookOver, Hooked
  <1>10. AskInv' BY <1>0, <1>1, <1>3, <1>7, <1>8, <1>9, <1>u DEF AskInv
  <1>11. Turn /\ Turn' BY <1>2 DEF Turn
  <1>12. WaitInv' BY <1>0, <1>11, <1>u DEF WaitInv
  <1> QED BY <1>5, <1>6, <1>10, <1>12

\* Every step of the worker keeps the invariant.
LEMMA WorkerKeeps ==
    ASSUME BridgeInv, WorkerNext, UNCHANGED uiVars
    PROVE  UiInv' /\ QueueInv' /\ OneTurn' /\ AskInv' /\ WaitInv'
  <1>1. TypeInv /\ UiInv BY DEF BridgeInv
  <1>2. UNCHANGED hpc
    BY <1>1, TurnShapes
    DEF Deliver, LoseEvent, LoseTerminal, LosePlain, MovesOn, TakesPrompt,
        Settles, PollApproval, WaitsOn, HookOver
  <1>3. UiInv' BY <1>1, <1>2, UiUnchanged
  <1> QED
    BY <1>1, <1>3, TurnShapes, DeliverKeeps, LoseKeeps, MovesOnKeeps,
       TakesPromptKeeps, SettlesKeeps, PollApprovalKeeps, HookKeeps

----------------------------------------------------------------------------
(* The frontend's steps. *)

\* No key is queued behind a submitted line or behind a verdict when the frame
\* reads it.
NoTypeAhead == ~TypeAhead

\* A step that starts no turn, takes no marked event unless it leaves the loop,
\* and changes neither what the UI waits for nor a modal on the screen.
LEMMA LoopFrame ==
    ASSUME BridgeInv,
           UNCHANGED <<wpc, taken, outbox, pending, hookId>>, stop => stop',
           \/ UNCHANGED cmds
           \/ \E c \in Commands \ {"Prompt"} : cmds' = Append(cmds, c),
           \/ UNCHANGED evts
           \/ /\ evts # <<>> /\ evts' = Tail(evts)
              /\ ~Marks(Head(evts)) \/ upc' = "closed",
           upc = "closed" => upc' = "closed",
           Awaits' => Awaits /\ upc' # "closed",
           Awaits => Awaits' \/ upc' = "closed",
           modal' = "tool" => modal = "tool" /\ UNCHANGED modalId,
           modal = "tool" => UNCHANGED <<modal, modalId>> \/ upc' = "closed"
    PROVE  QueueInv' /\ OneTurn' /\ AskInv' /\ WaitInv'
  <1>0. /\ QueueInv /\ OneTurn /\ AskInv /\ WaitInv
        /\ evts \in Seq(Events) /\ cmds \in Seq(Commands)
    BY DEF BridgeInv, TypeInv, TypeOK
  <1>1. OnePrompt(cmds') /\ (Queued' <=> Queued)
    <2>1. CASE UNCHANGED cmds BY <1>0, <2>1 DEF QueueInv, Queued, Held
    <2>2. ASSUME NEW c \in Commands \ {"Prompt"}, cmds' = Append(cmds, c)
          PROVE  OnePrompt(cmds') /\ (Queued' <=> Queued)
      <3>1. OnePrompt(Append(cmds, c)) BY <1>0, PromptQueue DEF QueueInv
      <3>2. Has(Append(cmds, c), "Prompt") <=> Has(cmds, "Prompt")
        BY <1>0, HasAppend
      <3> QED BY <2>2, <3>1, <3>2 DEF Queued, Held
    <2> QED BY <2>1, <2>2
  <1>2. /\ OneMark(evts')
        /\ \A k : HasKind(evts', k) => HasKind(evts, k)
        /\ \A x : Has(evts', x) => Has(evts, x)
        /\ \/ upc' = "closed"
           \/ /\ HasKind(evts, "TurnFinished") =>
                     HasKind(evts', "TurnFinished")
              /\ HasKind(evts, "ApprovalRequest") =>
                     HasKind(evts', "ApprovalRequest")
              /\ \A x : Has(evts, x) /\ x.kind = "ApprovalRequest" =>
                            Has(evts', x)
    <2>1. CASE UNCHANGED evts BY <1>0, <2>1 DEF QueueInv
    <2>2. CASE /\ evts # <<>> /\ evts' = Tail(evts)
               /\ ~Marks(Head(evts)) \/ upc' = "closed"
      <3>1. OneMark(Tail(evts)) BY <1>0, <2>2, MarkTail DEF QueueInv
      <3>2. /\ \A x : Has(evts, x) <=> Head(evts) = x \/ Has(Tail(evts), x)
            /\ \A k : HasKind(evts, k) <=>
                          Head(evts).kind = k \/ HasKind(Tail(evts), k)
        BY <1>0, <2>2, HasTail
      <3> QED BY <2>2, <3>1, <3>2 DEF Marks
    <2> QED BY <2>1, <2>2
  <1>3. QueueInv'
    <2>1. Held' <=> Held BY DEF Held
    <2>2. Has(cmds', "Prompt") => Has(cmds, "Prompt")
      <3>1. CASE UNCHANGED cmds BY <3>1
      <3>2. ASSUME NEW c \in Commands \ {"Prompt"}, cmds' = Append(cmds, c)
            PROVE  Has(cmds', "Prompt") => Has(cmds, "Prompt")
        BY <1>0, <3>2, HasAppend
      <3> QED BY <3>1, <3>2
    <2> QED BY <1>0, <1>1, <1>2, <2>1, <2>2 DEF QueueInv
  <1>4. OneTurn' BY <1>0, <1>1, <1>2 DEF OneTurn
  <1>5. (Blocked => Blocked') /\ (Ended => Ended') /\ (Hooked' <=> Hooked)
    BY DEF Blocked, Ended, Hooked
  <1>6. AskInv'
    <2>1. ASSUME NEW e \in Events, Has(evts', e), e.kind = "ApprovalRequest"
          PROVE  e.id = hookId' /\ (Blocked' \/ Ended')
      BY <1>0, <1>2, <1>5, <2>1 DEF AskInv
    <2>2. modal' = "tool" => modalId' = hookId' /\ (Blocked' \/ Ended')
      BY <1>0, <1>5 DEF AskInv
    <2>3. ApprovalRequest(hookId).kind = "ApprovalRequest" BY EventKinds
    <2>4. ASSUME Hooked', pending' # {}, upc' # "closed"
          PROVE  \/ outbox' = <<ApprovalRequest(hookId')>>
                 \/ modal' = "tool" /\ modalId' = hookId'
                 \/ Has(evts', ApprovalRequest(hookId'))
      <3>1. \/ outbox = <<ApprovalRequest(hookId)>>
            \/ modal = "tool" /\ modalId = hookId
            \/ Has(evts, ApprovalRequest(hookId))
        BY <1>0, <1>5, <2>4 DEF AskInv
      <3> QED BY <1>2, <2>3, <2>4, <3>1
    <2> QED BY <2>1, <2>2, <2>4 DEF AskInv
  <1>7. (Turn' => Turn) /\ (upc' # "closed" => (Turn => Turn'))
    BY <1>1, <1>2 DEF Turn
  <1>8. WaitInv' BY <1>0, <1>7 DEF WaitInv
  <1> QED BY <1>3, <1>4, <1>6, <1>8

\* A loop that is left waits for nothing.
LEMMA Left ==
    ASSUME UiInv, Leave
    PROVE  UiInv' /\ ~Awaits' /\ upc' = "closed" /\ modal' = "none"
  <1>1. <<>> \in Seq(AllLines) /\ Len(<<>>) = 0 OBVIOUS
  <1>2. /\ upc' = "closed" /\ until' = "done" /\ ret' = "frame"
        /\ modal' = "none" /\ submits' = <<>> /\ busy' = FALSE
    BY DEF Leave
  <1>3. ~Suspended' /\ ~Awaits' BY <1>2 DEF Awaits, Suspended
  <1>4. submits' \in Seq(AllLines) /\ Len(submits') <= 1 BY <1>1, <1>2
  <1> QED BY <1>2, <1>3, <1>4 DEF UiInv

\* The steps that leave the loop, and the ones after that.
LEMMA LeaveKeeps ==
    ASSUME BridgeInv,
           \/ Leave /\ (UNCHANGED vars \/ Recv)
           \/ CloseNext
    PROVE  UiInv' /\ QueueInv' /\ OneTurn' /\ AskInv' /\ WaitInv'
  <1>0. UiInv BY DEF BridgeInv
  <1>1. CASE Leave /\ (UNCHANGED vars \/ Recv)
    <2>1. UiInv' /\ ~Awaits' /\ upc' = "closed" /\ modal' = "none"
      BY <1>0, <1>1, Left
    <2>2. /\ UNCHANGED <<wpc, taken, outbox, pending, hookId, stop, cmds>>
          /\ UNCHANGED evts \/ (evts # <<>> /\ evts' = Tail(evts))
      BY <1>1 DEF vars, Recv
    <2> QED BY <2>1, <2>2, LoopFrame
  <1>2. CASE CloseNext
    <2>1. upc = "closed" /\ UNCHANGED uiVars /\ HandleNext
      BY <1>2 DEF CloseNext
    <2>2. /\ UNCHANGED <<wpc, taken, outbox, pending, hookId, evts>>
          /\ stop => stop'
          /\ UNCHANGED cmds \/ cmds' = Append(cmds, "Shutdown")
      BY <2>1
      DEF HandleNext, ShutdownCancel, ShutdownSend, ShutdownStop, Join,
          JoinTimesOut
    <2>3. UiInv' /\ ~Awaits' /\ (Awaits' <=> Awaits)
          /\ UNCHANGED <<upc, modal, modalId>>
      BY <1>0, <2>1 DEF UiInv, uiVars, Awaits, Suspended, Live
    <2>4. "Shutdown" \in Commands \ {"Prompt"} BY DEF Commands
    <2> QED BY <2>1, <2>2, <2>3, <2>4, LoopFrame
  <1> QED BY <1>1, <1>2

\* What the frontend's steps do to the worker when they take no event.
LEMMA QuietOperation ==
    ASSUME \/ UNCHANGED vars \/ RequestCancel
           \/ \E c \in Requests \cup {"Cancel"} : Send(c)
    PROVE  /\ UNCHANGED <<wpc, taken, outbox, pending, hookId, stop, evts,
                          hpc>>
           /\ \/ UNCHANGED cmds
              \/ \E c \in Commands \ {"Prompt"} : cmds' = Append(cmds, c)
  <1>1. Requests \cup {"Cancel"} \subseteq Commands \ {"Prompt"}
    BY DEF Requests, Commands
  <1> QED BY <1>1 DEF vars, RequestCancel, Send

\* A step that only moves the frame on.
LEMMA FrameKeeps ==
    ASSUME BridgeInv, UiInv',
           \/ UNCHANGED vars \/ RequestCancel
           \/ \E c \in Requests \cup {"Cancel"} : Send(c),
           upc # "closed", upc' # "closed", Awaits' <=> Awaits,
           UNCHANGED <<modal, modalId>> \/ (modal # "tool" /\ modal' # "tool")
    PROVE  UiInv' /\ QueueInv' /\ OneTurn' /\ AskInv' /\ WaitInv'
  BY QuietOperation, LoopFrame

\* The relay's steps that take no marked event.
LEMMA RelayKeeps ==
    ASSUME BridgeInv,
           \/ RelayStopped \/ RelayExpires \/ DrainEmpty \/ RelayReturn
           \/ Interrupt \/ InterruptSend
    PROVE  UiInv' /\ QueueInv' /\ OneTurn' /\ AskInv' /\ WaitInv'
  <1>0. UiInv BY DEF BridgeInv
  <1>1. CASE RelayStopped
    <2>1. /\ upc = "relay" /\ until # "done" /\ CallFails(ret)
          /\ evts # <<>> /\ Head(evts) = Stopped /\ Recv
      BY <1>1 DEF RelayStopped, Relaying
    <2>2. CASE Leave BY <2>1, <2>2, LeaveKeeps
    <2>3. CASE ~Leave
      <3>1. /\ ret \in {"keys", "resume"} /\ upc' = ret /\ until' = "done"
            /\ ret' = "frame" /\ UNCHANGED <<modalVars, userVars>>
        BY <2>1, <2>3 DEF CallFails
      <3>2. UNCHANGED hpc BY <2>1 DEF Recv, vars
      <3>3. until # "TurnFinished" BY <1>0, <3>1 DEF UiInv
      <3>4. UiInv' /\ (Awaits' <=> Awaits)
        BY <1>0, <2>1, <3>1, <3>2, <3>3
        DEF UiInv, Awaits, Suspended, Live
      <3>5. /\ UNCHANGED <<wpc, taken, outbox, pending, hookId, stop, cmds>>
            /\ \/ UNCHANGED evts
               \/ evts # <<>> /\ evts' = Tail(evts) /\ Head(evts) = Stopped
        BY <2>1 DEF vars, Recv
      <3>6. ~Marks(Stopped) BY EventKinds
      <3> QED BY <2>1, <3>1, <3>4, <3>5, <3>6, LoopFrame
    <2> QED BY <2>2, <2>3
  <1>2. CASE RelayExpires
    <2>1. /\ upc = "relay" /\ until \in Bounded /\ CallFails(ret)
          /\ UNCHANGED vars
      BY <1>2 DEF RelayExpires, Relaying
    <2>2. CASE Leave BY <2>1, <2>2, LeaveKeeps
    <2>3. CASE ~Leave
      <3>1. /\ ret \in {"keys", "resume"} /\ upc' = ret /\ until' = "done"
            /\ ret' = "frame" /\ UNCHANGED <<modalVars, userVars>>
        BY <2>1, <2>3 DEF CallFails
      <3>2. UiInv' /\ (Awaits' <=> Awaits)
        BY <1>0, <2>1, <3>1
        DEF UiInv, Awaits, Suspended, Live, Bounded, vars
      <3> QED BY <2>1, <3>1, <3>2, FrameKeeps
    <2> QED BY <2>2, <2>3
  <1>3. CASE DrainEmpty
    <2>1. /\ upc = "relay" /\ until = "Drain" /\ until' = "done"
          /\ UNCHANGED <<vars, upc, ret, seen, modalVars, userVars>>
      BY <1>3 DEF DrainEmpty, Relaying
    <2>2. UiInv' /\ (Awaits' <=> Awaits)
      BY <1>0, <2>1 DEF UiInv, Awaits, Suspended, Live, vars
    <2> QED BY <2>1, <2>2, FrameKeeps
  <1>4. CASE RelayReturn
    <2>1. /\ upc = "relay" /\ until = "done"
          /\ upc' = (IF ret = "frame" THEN "keys" ELSE ret)
          /\ ret' = "frame"
          /\ busy' = (IF ret \in {"pop", "exitCheck"} THEN Suspended ELSE busy)
          /\ UNCHANGED <<vars, until, modalVars, submits, exitReq>>
      BY <1>4 DEF RelayReturn
    <2>2. (Awaits' <=> Awaits) /\ (Awaits <=> Suspended) /\ upc' # "closed"
      BY <1>0, <2>1 DEF UiInv, Awaits, Suspended
    <2>3. busy' \in BOOLEAN /\ (Suspended => busy')
      <3>1. busy \in BOOLEAN /\ (Suspended => busy)
        BY <1>0, <2>2 DEF UiInv
      <3>2. Suspended \in BOOLEAN BY DEF Suspended
      <3>3. CASE ret \in {"pop", "exitCheck"} BY <2>1, <3>2, <3>3, Zenon
      <3>4. CASE ret \notin {"pop", "exitCheck"} BY <2>1, <3>1, <3>4, Zenon
      <3> QED BY <3>3, <3>4
    <2>4. UiInv'
      BY <1>0, <2>1, <2>2, <2>3 DEF UiInv, Live, Suspended, vars
    <2> QED BY <2>1, <2>2, <2>4, FrameKeeps
  <1>5. CASE Interrupt
    <2>1. /\ upc = "relay" /\ upc' = "interrupt" /\ RequestCancel
          /\ UNCHANGED <<relayVars, modalVars, submits, busy>>
      BY <1>5 DEF Interrupt
    <2>2. UiInv' /\ (Awaits' <=> Awaits)
      BY <1>0, <2>1 DEF UiInv, Awaits, Suspended, Live, RequestCancel
    <2> QED BY <2>1, <2>2, FrameKeeps
  <1>6. CASE InterruptSend
    <2>1. /\ upc = "interrupt" /\ upc' = "relay"
          /\ Send("Cancel") \/ UNCHANGED vars
          /\ UNCHANGED <<relayVars, modalVars, userVars>>
      BY <1>6 DEF InterruptSend
    <2>2. UiInv' /\ (Awaits' <=> Awaits)
      BY <1>0, <2>1 DEF UiInv, Awaits, Suspended, Live, Send, vars
    <2> QED BY <2>1, <2>2, FrameKeeps
  <1> QED BY <1>1, <1>2, <1>3, <1>4, <1>5, <1>6

\* The keys.
LEMMA KeyKeeps ==
    ASSUME NoTypeAhead, BridgeInv,
           \/ KeyExit \/ KeyLocalVerdict \/ KeyPickRemoval \/ KeyEmpty
           \/ KeyPanels \/ KeysDone
           \/ \E line \in Lines : KeySubmit(line)
    PROVE  UiInv' /\ QueueInv' /\ OneTurn' /\ AskInv' /\ WaitInv'
  <1>0. UiInv BY DEF BridgeInv
  <1>m. MayType => /\ upc = "keys" /\ submits = <<>> /\ ~Suspended
                   /\ until = "done" /\ ~Awaits
    BY <1>0 DEF MayType, NoTypeAhead, UiInv, Awaits
  <1>1. CASE KeyExit BY <1>1, LeaveKeeps DEF KeyExit
  <1>2. CASE KeyLocalVerdict
    <2>1. /\ upc = "keys" /\ modal \in {"removal", "undo"} /\ modal' = "none"
          /\ UNCHANGED vars \/ Send("Reload")
          /\ UNCHANGED <<upc, relayVars, modalId, userVars>>
      BY <1>2 DEF KeyLocalVerdict
    <2>2. UiInv' /\ (Awaits' <=> Awaits)
      BY <1>0, <2>1 DEF UiInv, Awaits, Suspended, Live, Send, vars
    <2>3. "Reload" \in Requests BY DEF Requests
    <2> QED BY <2>1, <2>2, <2>3, FrameKeeps
  <1>3. CASE KeyPickRemoval
    <2>1. /\ MayType /\ modal = "armed" /\ modal' = "removal"
          /\ UNCHANGED <<vars, upc, relayVars, modalId, userVars>>
      BY <1>3 DEF KeyPickRemoval
    <2>2. UiInv' /\ (Awaits' <=> Awaits)
      BY <1>0, <1>m, <2>1 DEF UiInv, Awaits, Suspended, Live, vars
    <2> QED BY <1>m, <2>1, <2>2, FrameKeeps
  <1>4. CASE KeyEmpty
    <2>1. /\ MayType /\ busy' = FALSE
          /\ UNCHANGED <<vars, upc, relayVars, modalVars, submits, exitReq>>
      BY <1>4 DEF KeyEmpty
    <2>2. UiInv' /\ (Awaits' <=> Awaits)
      BY <1>0, <1>m, <2>1 DEF UiInv, Awaits, Suspended, Live, vars
    <2> QED BY <1>m, <2>1, <2>2, FrameKeeps
  <1>5. CASE KeyPanels
    <2>1. MayType /\ AskPanels("keys") BY <1>5 DEF KeyPanels
    <2>2. CASE Room
      <3>1. /\ Send("PanelsReport") /\ upc' = "relay" /\ until' = "Answer"
            /\ ret' = "keys" /\ UNCHANGED <<modalVars, userVars>>
        BY <2>1, <2>2 DEF AskPanels, Relay
      <3>2. UiInv' /\ (Awaits' <=> Awaits)
        BY <1>0, <1>m, <2>1, <3>1 DEF UiInv, Awaits, Suspended, Live, Send
      <3>3. "PanelsReport" \in Requests BY DEF Requests
      <3> QED BY <1>m, <2>1, <3>1, <3>2, <3>3, FrameKeeps
    <2>3. CASE ~Room
      <3>1. /\ UNCHANGED vars /\ upc' = "keys" /\ until' = "done"
            /\ ret' = "frame" /\ UNCHANGED <<modalVars, userVars>>
        BY <2>1, <2>3 DEF AskPanels, CallFails
      <3>2. UiInv' /\ (Awaits' <=> Awaits)
        BY <1>0, <1>m, <2>1, <3>1 DEF UiInv, Awaits, Suspended, Live, vars
      <3> QED BY <1>m, <2>1, <3>1, <3>2, FrameKeeps
    <2> QED BY <2>2, <2>3
  <1>6. CASE KeysDone
    <2>1. /\ upc = "keys" /\ upc' = "tick"
          /\ UNCHANGED <<vars, relayVars, modalVars, userVars>>
      BY <1>6 DEF KeysDone, Goes
    <2>2. UiInv' /\ (Awaits' <=> Awaits)
      BY <1>0, <2>1 DEF UiInv, Awaits, Suspended, Live, vars
    <2> QED BY <2>1, <2>2, FrameKeeps
  <1>7. ASSUME NEW line \in Lines, KeySubmit(line)
        PROVE  UiInv' /\ QueueInv' /\ OneTurn' /\ AskInv' /\ WaitInv'
    <2>1. /\ MayType /\ submits' = Append(submits, line)
          /\ UNCHANGED <<vars, upc, relayVars, modalVars, busy, exitReq>>
      BY <1>7 DEF KeySubmit
    <2>2. submits' \in Seq(AllLines) /\ Len(submits') = 1
      <3>1. line \in AllLines BY TuiBridgeAssumption
      <3>2. submits' = <<line>> BY <1>m, <2>1
      <3> QED BY <3>1, <3>2
    <2>3. ~Awaits' /\ ~Suspended' BY <1>m, <2>1 DEF Awaits, Suspended
    <2>4. UiInv'
      BY <1>0, <1>m, <2>1, <2>2, <2>3 DEF UiInv, Live, vars
    <2> QED BY <1>m, <2>1, <2>3, <2>4, FrameKeeps
  <1> QED BY <1>1, <1>2, <1>3, <1>4, <1>5, <1>6, <1>7

\* The verdict of the user.
LEMMA VerdictKeeps ==
    ASSUME BridgeInv, NEW v \in {"Approve", "Deny"}, KeyVerdict(v)
    PROVE  UiInv' /\ QueueInv' /\ OneTurn' /\ AskInv' /\ WaitInv'
  <1>0. TypeInv /\ HookInv /\ UiInv /\ QueueInv /\ OneTurn /\ AskInv /\ WaitInv
    BY DEF BridgeInv
  <1>1. /\ upc = "keys" /\ modal = "tool" /\ modal' = "decided"
        /\ UNCHANGED <<upc, relayVars, modalId, userVars>>
        /\ pending' = pending \ {modalId}
        /\ UNCHANGED <<cmds, evts, stop, wpc, taken, outbox, hookId, hpc>>
    BY DEF KeyVerdict, DeliverVerdict, vars
  <1>2. modalId = hookId /\ (Blocked \/ Ended) BY <1>0, <1>1 DEF AskInv
  <1>3. UiInv' /\ (Awaits' <=> Awaits) /\ UNCHANGED upc
    BY <1>0, <1>1 DEF UiInv, Awaits, Suspended, Live
  <1>4. ~HasKind(evts, "TurnFinished") /\ ~HasKind(evts, "ApprovalRequest")
    BY <1>0, <1>1 DEF OneTurn
  <1>5. /\ \A k : HasKind(evts', k) <=> HasKind(evts, k)
        /\ \A x : Has(evts', x) <=> Has(evts, x)
        /\ Queued' <=> Queued
    BY <1>1 DEF Queued, Held
  <1>6. QueueInv'
    <2>1. ~(wpc = "hook" /\ outbox # <<>>) BY <1>2 DEF Blocked, Ended
    <2> QED BY <1>0, <1>1, <2>1 DEF QueueInv, Held
  <1>7. OneTurn' BY <1>0, <1>1, <1>4, <1>5 DEF OneTurn
  <1>8. AskInv'
    <2>1. \A e \in Events : e.kind = "ApprovalRequest" => ~Has(evts', e)
      BY <1>1, <1>4 DEF Has, HasKind
    <2>2. pending' = {} \/ ~Hooked'
      BY <1>1, <1>2 DEF Blocked, Ended, Hooked
    <2> QED BY <1>1, <2>1, <2>2 DEF AskInv
  <1>9. Turn' <=> Turn BY <1>1, <1>5 DEF Turn
  <1>10. WaitInv' BY <1>0, <1>1, <1>3, <1>9 DEF WaitInv
  <1> QED BY <1>3, <1>6, <1>7, <1>8, <1>10

\* The rest of the frame.
LEMMA FrameStepKeeps ==
    ASSUME BridgeInv,
           \/ StatusTick \/ NoStatusTick \/ Resume \/ NoResume
           \/ DispatchLocally \/ DispatchExit \/ DeferDispatch
           \/ NothingToDispatch \/ ExitCheck
    PROVE  UiInv' /\ QueueInv' /\ OneTurn' /\ AskInv' /\ WaitInv'
  <1>0. UiInv BY DEF BridgeInv
  <1>1. CASE StatusTick
    <2>1. upc = "tick" /\ ~busy /\ AskPanels("resume") BY <1>1 DEF StatusTick
    <2>2. ~Awaits /\ ~Suspended BY <1>0, <2>1 DEF UiInv, Awaits
    <2>3. CASE Room
      <3>1. /\ Send("PanelsReport") /\ upc' = "relay" /\ until' = "Answer"
            /\ ret' = "resume" /\ UNCHANGED <<modalVars, userVars>>
        BY <2>1, <2>3 DEF AskPanels, Relay
      <3>2. UiInv' /\ (Awaits' <=> Awaits)
        BY <1>0, <2>1, <2>2, <3>1 DEF UiInv, Awaits, Suspended, Live, Send
      <3>3. "PanelsReport" \in Requests BY DEF Requests
      <3> QED BY <2>1, <3>1, <3>2, <3>3, FrameKeeps
    <2>4. CASE ~Room
      <3>1. /\ UNCHANGED vars /\ upc' = "resume" /\ until' = "done"
            /\ ret' = "frame" /\ UNCHANGED <<modalVars, userVars>>
        BY <2>1, <2>4 DEF AskPanels, CallFails
      <3>2. UiInv' /\ (Awaits' <=> Awaits)
        BY <1>0, <2>1, <2>2, <3>1 DEF UiInv, Awaits, Suspended, Live, vars
      <3> QED BY <2>1, <3>1, <3>2, FrameKeeps
    <2> QED BY <2>3, <2>4
  <1>2. CASE NoStatusTick \/ NoResume \/ DeferDispatch \/ NothingToDispatch
    <2>1. /\ \/ upc = "tick" /\ upc' = "resume"
             \/ upc = "resume" /\ modal # "decided" /\ upc' = "pop"
             \/ upc = "pop" /\ upc' \in {"keys", "exitCheck"}
          /\ UNCHANGED <<vars, relayVars, modalVars, userVars>>
      BY <1>2
      DEF NoStatusTick, NoResume, DeferDispatch, NothingToDispatch, Goes
    <2>2. UiInv' /\ (Awaits' <=> Awaits)
      BY <1>0, <2>1 DEF UiInv, Awaits, Suspended, Live, vars
    <2> QED BY <2>1, <2>2, FrameKeeps
  <1>3. CASE Resume
    <2>1. /\ upc = "resume" /\ modal = "decided" /\ modal' = "none"
          /\ upc' = "relay" /\ until' = "TurnFinished" /\ ret' = "pop"
          /\ UNCHANGED <<vars, userVars>>
      BY <1>3 DEF Resume, Relay
    <2>2. Awaits /\ Awaits' /\ ~Suspended' BY <2>1 DEF Awaits, Suspended
    <2>3. UiInv' BY <1>0, <2>1, <2>2 DEF UiInv, Live, vars
    <2> QED BY <2>1, <2>2, <2>3, FrameKeeps
  <1>4. CASE DispatchLocally
    <2>1. PICK line \in {"Local", "SetModel", "Undo", "Provider",
                         "ProviderRemove"} :
              /\ Pop(line) /\ upc' = "exitCheck" /\ submits' = Tail(submits)
              /\ modal' = Arms(line)
              /\ busy' = (modal' \in {"tool", "decided"})
              /\ UNCHANGED <<vars, relayVars, modalId, exitReq>>
      BY <1>4 DEF DispatchLocally
    <2>2. upc = "pop" /\ submits # <<>> BY <2>1 DEF Pop
    <2>3. ~Awaits /\ ~Suspended BY <1>0, <2>2 DEF UiInv, Awaits
    <2>4. modal' \notin {"tool", "decided"}
      BY <2>1, <2>3 DEF Arms, Suspended
    <2>5. ~Awaits' /\ ~Suspended' /\ modal # "tool"
      BY <2>1, <2>3, <2>4 DEF Awaits, Suspended
    <2>b. busy' \in BOOLEAN
      <3>1. (modal' \in {"tool", "decided"}) \in BOOLEAN OBVIOUS
      <3> QED BY <2>1, <3>1, Zenon
    <2>6. submits' \in Seq(AllLines) /\ Len(submits') <= 1
      BY <1>0, <2>1, <2>2, HeadTailProperties DEF UiInv
    <2>7. UiInv'
      BY <1>0, <2>1, <2>2, <2>4, <2>5, <2>b, <2>6 DEF UiInv, Live, vars
    <2> QED BY <2>1, <2>2, <2>3, <2>4, <2>5, <2>7, FrameKeeps
  <1>5. CASE DispatchExit BY <1>5, LeaveKeeps DEF DispatchExit
  <1>6. CASE ExitCheck
    <2>1. CASE exitReq BY <1>6, <2>1, LeaveKeeps DEF ExitCheck
    <2>2. CASE ~exitReq
      <3>1. /\ upc = "exitCheck" /\ upc' = "relay" /\ until' = "Drain"
            /\ ret' = "frame" /\ UNCHANGED <<vars, modalVars, userVars>>
        BY <1>6, <2>2 DEF ExitCheck, Relay
      <3>2. UiInv' /\ (Awaits' <=> Awaits)
        BY <1>0, <3>1 DEF UiInv, Awaits, Suspended, Live, vars
      <3> QED BY <3>1, <3>2, FrameKeeps
    <2> QED BY <2>1, <2>2
  <1> QED BY <1>1, <1>2, <1>3, <1>4, <1>5, <1>6

\* A line is dispatched to the worker.
LEMMA DispatchKeeps ==
    ASSUME BridgeInv, DispatchToWorker
    PROVE  UiInv' /\ QueueInv' /\ OneTurn' /\ AskInv' /\ WaitInv'
  <1>0. /\ TypeInv /\ UiInv /\ QueueInv /\ OneTurn /\ AskInv /\ WaitInv
        /\ cmds \in Seq(Commands)
    BY DEF BridgeInv, TypeInv, TypeOK
  <1>1. PICK line \in Requests \cup {"Prompt"} :
            /\ Pop(line)
            /\ IF Room
               THEN /\ Send(line) /\ Relay(Mode(line), "exitCheck")
                    /\ submits' = Tail(submits)
                    /\ busy' = TRUE
                    /\ UNCHANGED <<modalVars, exitReq>>
               ELSE Leave /\ UNCHANGED vars
    BY DEF DispatchToWorker
  <1>2. CASE ~Room BY <1>1, <1>2, LeaveKeeps
  <1>3. CASE Room
    <2>1. /\ upc = "pop" /\ submits # <<>> /\ Send(line)
          /\ upc' = "relay" /\ until' = Mode(line) /\ ret' = "exitCheck"
          /\ submits' = Tail(submits) /\ busy' = TRUE
          /\ UNCHANGED <<modal, modalId, exitReq>>
      BY <1>1, <1>3 DEF Pop, Relay
    <2>2. ~Awaits /\ ~Suspended BY <1>0, <2>1 DEF UiInv, Awaits
    <2>3. ~Suspended' /\ modal # "tool" BY <2>1, <2>2 DEF Suspended
    <2>4. submits' = <<>>
      <3>0. submits \in Seq(AllLines) /\ Len(submits) <= 1 /\ submits # <<>>
        BY <1>0, <2>1 DEF UiInv
      <3>1. Len(submits) = 1 BY <3>0, EmptySeq, LenProperties
      <3>2. Tail(submits) \in Seq(AllLines) /\ Len(Tail(submits)) = 0
        BY <1>0, <2>1, <3>1, HeadTailProperties DEF UiInv
      <3> QED BY <2>1, <3>2, EmptySeq
    <2>5. submits' \in Seq(AllLines) /\ Len(submits') <= 1
      <3>1. <<>> \in Seq(AllLines) /\ Len(<<>>) = 0 OBVIOUS
      <3> QED BY <2>4, <3>1
    <2>6. /\ cmds' = Append(cmds, line)
          /\ UNCHANGED <<wpc, taken, outbox, pending, hookId, stop, evts, hpc>>
      BY <2>1 DEF Send
    <2>7. UiInv'
      BY <1>0, <2>1, <2>2, <2>3, <2>4, <2>5, <2>6
      DEF UiInv, Awaits, Suspended, Live
    <2>8. CASE line # "Prompt"
      <3>1. Mode(line) # "TurnFinished" /\ line \in Requests
        BY <2>8 DEF Mode
      <3>2. ~Awaits' BY <2>1, <2>3, <3>1 DEF Awaits
      <3> QED BY <2>1, <2>2, <2>3, <2>7, <3>1, <3>2, FrameKeeps
    <2>9. CASE line = "Prompt"
      <3>1. ~Turn BY <1>0, <2>1, <2>2 DEF WaitInv
      <3>2. until' = "TurnFinished" BY <2>1, <2>9 DEF Mode
      <3>3. "Prompt" \in Commands BY DEF Commands
      <3>4. OnePrompt(cmds')
        <4>1. ~Has(cmds, "Prompt") BY <3>1 DEF Turn, Queued
        <4> QED BY <1>0, <2>6, <2>9, <3>3, <4>1, PromptQueue DEF QueueInv
      <3>5. Queued'
        BY <1>0, <2>6, <2>9, <3>3, HasAppend DEF Queued, Held
      <3>6. /\ \A k : HasKind(evts', k) <=> HasKind(evts, k)
            /\ \A k : HasKind(outbox', k) <=> HasKind(outbox, k)
            /\ \A x : Has(evts', x) <=> Has(evts, x)
        BY <2>6
      <3>7. QueueInv'
        <4>1. ~Held' BY <2>6, <3>1 DEF Turn, Queued, Held
        <4> QED BY <1>0, <2>6, <3>4, <4>1 DEF QueueInv
      <3>8. OneTurn' BY <2>1, <2>3, <2>6, <3>1, <3>6 DEF OneTurn, Turn
      <3>9. AskInv'
        <4>1. Blocked' <=> Blocked BY <2>6 DEF Blocked, Hooked
        <4>2. Ended' <=> Ended BY <2>6 DEF Ended
        <4>3. Hooked' <=> Hooked BY <2>6 DEF Hooked
        <4> QED BY <1>0, <2>1, <2>3, <2>6, <3>6, <4>1, <4>2, <4>3 DEF AskInv
      <3>10. WaitInv' BY <3>2, <3>5 DEF WaitInv, Awaits, Turn
      <3> QED BY <2>7, <3>7, <3>8, <3>9, <3>10
    <2> QED BY <2>8, <2>9
  <1> QED BY <1>2, <1>3

\* The worker's first events.
LEMMA AwaitKeeps ==
    ASSUME BridgeInv, AwaitEvent
    PROVE  UiInv' /\ QueueInv' /\ OneTurn' /\ AskInv' /\ WaitInv'
  <1>0. UiInv BY DEF BridgeInv
  <1>1. upc = "await" /\ evts # <<>> /\ Recv BY DEF AwaitEvent
  <1>2. CASE Leave BY <1>1, <1>2, LeaveKeeps
  <1>3. CASE ~Leave
    <2>1. /\ Head(evts).kind \in {"Pane", "Ready"}
          /\ upc' \in {"await", "keys"}
          /\ UNCHANGED <<relayVars, modalVars, userVars>>
      BY <1>3 DEF AwaitEvent
    <2>2. ~Marks(Head(evts)) BY <2>1 DEF Marks
    <2>3. /\ UNCHANGED <<wpc, taken, outbox, pending, hookId, stop, cmds, hpc>>
          /\ evts' = Tail(evts)
      BY <1>1 DEF Recv
    <2>4. UiInv' /\ (Awaits' <=> Awaits)
      BY <1>0, <1>1, <2>1, <2>3 DEF UiInv, Awaits, Suspended, Live
    <2> QED BY <1>1, <2>1, <2>2, <2>3, <2>4, LoopFrame
  <1> QED BY <1>2, <1>3

\* A relay takes an event.
LEMMA RelayEventKeeps ==
    ASSUME BridgeInv, RelayEvent
    PROVE  UiInv' /\ QueueInv' /\ OneTurn' /\ AskInv' /\ WaitInv'
  <1> DEFINE h == Head(evts)
  <1>0. /\ TypeInv /\ UiInv /\ QueueInv /\ OneTurn /\ AskInv /\ WaitInv
        /\ evts \in Seq(Events)
    BY DEF BridgeInv, TypeInv, TypeOK
  <1>1. /\ upc = "relay" /\ until # "done" /\ evts # <<>>
        /\ evts' = Tail(evts)
        /\ UNCHANGED <<wpc, taken, outbox, pending, hookId, stop, cmds, hpc>>
        /\ UNCHANGED <<upc, ret, submits, busy>>
        /\ until' = IF Answered(h, until, seen) THEN "done" ELSE until
        /\ IF h.kind = "ApprovalRequest"
           THEN modal' = "tool" /\ modalId' = h.id
           ELSE UNCHANGED <<modal, modalId>>
    BY DEF RelayEvent, Relaying, Recv
  <1>2. /\ h \in Events
        /\ \A x : Has(evts, x) <=> h = x \/ Has(evts', x)
        /\ \A k : HasKind(evts, k) <=> h.kind = k \/ HasKind(evts', k)
        /\ OneMark(evts')
        /\ Marks(h) => /\ ~HasKind(evts', "TurnFinished")
                       /\ ~HasKind(evts', "ApprovalRequest")
    BY <1>0, <1>1, HasTail, MarkTail, HeadTailProperties DEF QueueInv
  <1> HIDE DEF h
  <1>3. CASE ~Marks(h)
    <2>1. h.kind # "TurnFinished" /\ h.kind # "ApprovalRequest"
      BY <1>3 DEF Marks
    <2>2. until = "TurnFinished" => until' = until
      BY <1>1, <2>1 DEF Answered, Bounded
    <2>3. until' = "TurnFinished" => until = "TurnFinished" BY <1>1
    <2>4. until' # "done" => upc = "relay" BY <1>1
    <2>5. UiInv' /\ (Awaits' <=> Awaits)
      BY <1>0, <1>1, <2>1, <2>2, <2>3, <2>4
      DEF UiInv, Awaits, Suspended, Live
    <2> QED BY <1>1, <1>3, <2>1, <2>5, LoopFrame DEF h
  <1>4. CASE Marks(h)
    <2>1. h.kind = "TurnFinished" \/ h.kind = "ApprovalRequest"
      BY <1>4 DEF Marks
    <2>2. Turn BY <1>2, <2>1 DEF Turn
    <2>3. until = "TurnFinished" /\ ~Suspended /\ ~Queued
          /\ submits = <<>> /\ busy
      <3>1. Awaits BY <1>0, <1>1, <2>2 DEF WaitInv
      <3>2. modal # "tool" BY <1>0, <1>2, <2>1 DEF OneTurn
      <3>3. modal # "decided" BY <1>0, <1>1 DEF UiInv
      <3>4. until = "TurnFinished" BY <3>1, <3>2, <3>3 DEF Awaits, Suspended
      <3> QED BY <1>0, <1>2, <2>1, <3>1, <3>4 DEF UiInv, OneTurn
    <2>4. until' = "done" BY <1>1, <2>1 DEF Answered
    <2>5. /\ ~HasKind(evts', "TurnFinished")
          /\ ~HasKind(evts', "ApprovalRequest")
      BY <1>2, <1>4
    <2>6. \A e \in Events : e.kind = "ApprovalRequest" => ~Has(evts', e)
      BY <2>5 DEF Has, HasKind
    <2>7. UiInv'
      BY <1>0, <1>1, <2>3, <2>4 DEF UiInv, Awaits, Suspended, Live
    <2>8. QueueInv' BY <1>0, <1>1, <1>2 DEF QueueInv, Held
    <2>9. (Queued' <=> Queued) /\ (Blocked' <=> Blocked) /\ (Ended' <=> Ended)
          /\ (Hooked' <=> Hooked)
          /\ \A k : HasKind(outbox', k) <=> HasKind(outbox, k)
      BY <1>1 DEF Queued, Held, Blocked, Ended, Hooked
    <2>10. OneTurn' BY <2>3, <2>5, <2>9 DEF OneTurn
    <2>11. CASE h.kind = "TurnFinished"
      <3>1. /\ wpc \notin TurnPcs /\ ~HasKind(outbox, "TurnFinished")
            /\ UNCHANGED <<modal, modalId>>
        BY <1>0, <1>1, <1>2, <2>11 DEF OneTurn
      <3>2. ~Hooked BY <3>1 DEF Hooked, TurnPcs, RespondingPcs
      <3>3. AskInv'
        BY <2>3, <2>6, <2>9, <3>1, <3>2 DEF AskInv, Suspended
      <3>4. ~Turn' BY <1>1, <2>3, <2>5, <2>9, <3>1 DEF Turn
      <3>5. ~Awaits' BY <2>3, <2>4, <3>1 DEF Awaits, Suspended
      <3> QED BY <2>7, <2>8, <2>10, <3>3, <3>4, <3>5 DEF WaitInv
    <2>12. CASE h.kind = "ApprovalRequest"
      <3>1. modal' = "tool" /\ modalId' = h.id BY <1>1, <2>12
      <3>2. h.id = hookId /\ (Blocked \/ Ended)
        BY <1>0, <1>2, <2>12 DEF AskInv
      <3>3. AskInv' BY <1>1, <2>6, <2>9, <3>1, <3>2 DEF AskInv
      <3>4. Awaits' BY <3>1 DEF Awaits, Suspended
      <3>5. ~stop' => Turn'
        BY <1>1, <3>2 DEF Blocked, Ended, Hooked, Turn, TurnPcs, RespondingPcs
      <3> QED BY <2>7, <2>8, <2>10, <3>3, <3>4, <3>5 DEF WaitInv
    <2> QED BY <2>1, <2>11, <2>12
  <1> QED BY <1>3, <1>4

----------------------------------------------------------------------------
(* The theorems. *)

\* The invariant holds when the loop begins.
LEMMA BridgeInvInit == BridgeInit => BridgeInv
  <1> SUFFICES ASSUME BridgeInit PROVE BridgeInv OBVIOUS
  <1>1. Init /\ upc = "await" /\ until = "done" /\ ret = "frame"
        /\ modal = "none" /\ submits = <<>> /\ busy = FALSE
    BY DEF BridgeInit
  <1>2. TypeInv /\ HookInv BY <1>1, TypeInit, HookInit
  <1>3. /\ cmds = <<>> /\ evts = <<>> /\ outbox = <<>> /\ wpc = "compose"
        /\ pending = {} /\ hpc = "live" /\ stop = FALSE
    BY <1>1 DEF Init
  <1>4. /\ Len(<<>>) = 0 /\ <<>> \in Seq(AllLines) OBVIOUS
  <1>5. /\ \A x : ~Has(evts, x) /\ ~Has(cmds, x)
        /\ \A k : ~HasKind(evts, k) /\ ~HasKind(outbox, k)
        /\ OneMark(evts) /\ OneMark(outbox) /\ OnePrompt(cmds)
    BY <1>3, <1>4 DEF Has, HasKind, OneMark, OnePrompt
  <1>6. ~Suspended /\ ~Awaits BY <1>1 DEF Suspended, Awaits
  <1>7. submits \in Seq(AllLines) /\ Len(submits) <= 1 BY <1>1, <1>4
  <1>8. UiInv BY <1>1, <1>3, <1>6, <1>7 DEF UiInv, Live
  <1>9. QueueInv BY <1>3, <1>5 DEF QueueInv
  <1>10. OneTurn BY <1>1, <1>3, <1>5 DEF OneTurn, Queued, Held
  <1>11. AskInv BY <1>1, <1>3, <1>5 DEF AskInv
  <1>12. ~Turn BY <1>3, <1>5 DEF Turn, Queued, Held, TurnPcs, RespondingPcs
  <1>13. WaitInv BY <1>6, <1>12 DEF WaitInv
  <1> QED BY <1>2, <1>8, <1>9, <1>10, <1>11, <1>13 DEF BridgeInv

\* Every step keeps it when no key is typed ahead.
LEMMA BridgeInvStep ==
    ASSUME SendsAll, NoTypeAhead, BridgeInv, [BridgeNext]_bridgeVars
    PROVE  BridgeInv'
  <1>0. TypeInv /\ HookInv /\ UiInv BY DEF BridgeInv
  <1>1. LiveInv BY <1>0 DEF UiInv, LiveInv
  <1>2. [Next]_vars BY <1>1, BridgeRefines
  <1>3. TypeInv' /\ HookInv' BY <1>0, <1>2, TypeStep, HookStep
  <1>4. UiInv' /\ QueueInv' /\ OneTurn' /\ AskInv' /\ WaitInv'
    <2>1. CASE WorkerNext /\ UNCHANGED uiVars BY <2>1, WorkerKeeps
    <2>2. CASE AwaitEvent BY <2>2, AwaitKeeps
    <2>3. CASE RelayNext \/ InterruptSend \/ Interrupt \/ RelayExpires
      BY <2>3, RelayEventKeeps, RelayKeeps DEF RelayNext
    <2>4. CASE FrameNext \/ DeferDispatch
      BY <2>4, KeyKeeps, FrameStepKeeps, DispatchKeeps DEF FrameNext
    <2>5. CASE UserNext BY <2>3, <2>4, <2>5, KeyKeeps DEF UserNext
    <2>6. CASE AnswerModal BY <2>6, VerdictKeeps DEF AnswerModal
    <2>7. CASE CloseNext BY <2>7, LeaveKeeps
    <2>8. CASE (Finished /\ UNCHANGED uiVars) \/ UNCHANGED bridgeVars
      <3>1. UNCHANGED vars /\ UNCHANGED uiVars
        BY <2>8 DEF Finished, bridgeVars
      <3> QED BY <3>1
           DEF vars, uiVars, BridgeInv, UiInv, QueueInv, OneTurn, AskInv,
               WaitInv, Turn, Awaits, Queued, Held, Blocked, Ended, Hooked,
               Suspended, Live
    <2> QED BY <2>1, <2>2, <2>3, <2>4, <2>5, <2>6, <2>7, <2>8 DEF BridgeNext
  <1> QED BY <1>3, <1>4 DEF BridgeInv

\* The invariant, and with it the other theorems: the terminal and the worker
\* agree on whether a turn is on its way and on which approval is pending.
THEOREM BridgeInvariance ==
    ASSUME SendsAll, NoTypeAhead PROVE BridgeSpec => []BridgeInv
  <1>1. BridgeInv /\ [BridgeNext]_bridgeVars => BridgeInv' BY BridgeInvStep
  <1> QED BY <1>1, BridgeInvInit, PTL DEF BridgeSpec

\* A request blocked in its hook is announced or on the screen, so that the
\* user can still answer it, as long as no line is typed ahead of a verdict.
THEOREM BlockedHookIsShownHolds ==
    ASSUME SendsAll, NoTypeAhead PROVE BridgeSpec => []BlockedHookIsShown
  <1>1. BridgeInv => BlockedHookIsShown
    <2> SUFFICES ASSUME BridgeInv, At("hook"), pending # {}
                 PROVE  \/ modal = "tool" /\ modalId = hookId
                        \/ ApprovalRequest(hookId) \in
                               {evts[i] : i \in DOMAIN evts}
                        \/ upc = "closed"
      BY DEF BlockedHookIsShown
    <2>1. outbox = <<>> /\ Hooked BY DEF At, Hooked
    <2>2. <<ApprovalRequest(hookId)>> # <<>> OBVIOUS
    <2>3. evts \in Seq(Events) BY DEF BridgeInv, TypeInv, TypeOK
    <2> QED BY <2>1, <2>2, <2>3 DEF BridgeInv, AskInv, Has
  <1> QED BY <1>1, BridgeInvariance, PTL

\* "no deadlock is possible" (approval.rs): the UI never waits for the end of
\* a turn whose hook waits for the UI, as long as no line is typed ahead.
THEOREM NoDeadlockHolds ==
    ASSUME SendsAll, NoTypeAhead PROVE BridgeSpec => []NoDeadlock
  <1>1. BridgeInv => NoDeadlock
    <2> SUFFICES ASSUME BridgeInv, AwaitsTurn, AwaitsVerdict PROVE FALSE
      BY DEF NoDeadlock
    <2>1. /\ upc = "relay" /\ until = "TurnFinished" /\ evts = <<>>
          /\ wpc = "hook" /\ outbox = <<>> /\ pending # {}
      BY DEF AwaitsTurn, AwaitsVerdict, Relaying, At
    <2>2. modal # "tool" BY <2>1 DEF BridgeInv, UiInv, Suspended
    <2>3. ~Has(evts, ApprovalRequest(hookId)) BY <2>1, EmptySeq DEF Has
    <2>4. <<ApprovalRequest(hookId)>> # <<>> OBVIOUS
    <2> QED BY <2>1, <2>2, <2>3, <2>4 DEF BridgeInv, AskInv, Hooked
  <1> QED BY <1>1, BridgeInvariance, PTL

\* The UI never waits for the end of a turn when none runs and none is queued,
\* unless the worker has been stopped.
THEOREM NoStrandedRelayHolds ==
    ASSUME SendsAll, NoTypeAhead PROVE BridgeSpec => []NoStrandedRelay
  <1>1. BridgeInv => NoStrandedRelay
    <2> SUFFICES ASSUME BridgeInv, AwaitsTurn, ~stop, At("idle")
                 PROVE  "Prompt" \in {cmds[i] : i \in DOMAIN cmds}
      BY DEF NoStrandedRelay
    <2>1. /\ until = "TurnFinished" /\ evts = <<>>
          /\ wpc = "idle" /\ outbox = <<>>
      BY DEF AwaitsTurn, At
    <2>2. Turn BY <2>1 DEF BridgeInv, WaitInv, Awaits
    <2>3. \A k : ~HasKind(evts, k) /\ ~HasKind(outbox, k)
      BY <2>1, EmptySeq DEF HasKind
    <2>4. Has(cmds, "Prompt")
      BY <2>1, <2>2, <2>3 DEF Turn, Queued, Held, TurnPcs, RespondingPcs
    <2>5. cmds \in Seq(Commands) BY DEF BridgeInv, TypeInv, TypeOK
    <2> QED BY <2>4, <2>5 DEF Has
  <1> QED BY <1>1, BridgeInvariance, PTL
=============================================================================
