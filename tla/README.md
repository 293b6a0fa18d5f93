# A verification model of Siralos

Siralos is a coding agent written in Rust. This directory holds TLA+ modules for
the parts of it in which threads, cancellations, approvals, files, processes,
streams and long sequences of operations meet, the TLC configurations that check
them on small instances, and TLAPS proofs of all the safety results for every
instance.

## Inventory

The workspace has three crates: `siralos-core` (no I/O), `siralos-adapters`
(files, processes, providers, modules) and `siralos-cli` (frontends).

| part | state it keeps | operations | hard about it | module |
| --- | --- | --- | --- | --- |
| session worker (`session_worker.rs`) | command and event channels, cancel flag, stop bit, the session | command loop, one turn, drain and flush, shutdown | two unlocked flags read at different moments, a turn that never looks at the channel, bounded delivery, retries of the join | `SessionWorker` |
| approval exchange (`interactive/approval.rs`) | the table of blocked hooks, next id | register, deliver, poll, stop | a verdict races the stop; a late verdict | `SessionWorker` |
| terminal loop and relay (`interactive/tui_loop.rs`, `worker.rs`) | pending lines, modal, relay mode, busy marker | keys, dispatch, relay, resume, sweep | events consumed by the wrong relay; both threads waiting | `TuiBridge` |
| tool loop, tool round, ledger, collector (`tool/*.rs`, `provider/turn.rs`, `conversation.rs`) | the history, the response machine, the remaining calls, unconsumed digests | send_prompt, poll_event, cancel; one call per step; approve, take; one provider event | what is committed when; calls and results stay paired; spent once | `ToolLoop` |
| checkpoints, undo, write and edit tools (`workspace/checkpoint*.rs`, `tool/mutation_tools.rs`, `atomic.rs`, `interactive/undo.rs`) | record directories, workspace files | create, apply, mark, undo, reconcile, prune | a crash between two writes; a file changed meanwhile; a failed marking | `Checkpoints`, `EditLog` |
| task runtime and planning flow (`task/runtime.rs`, `planning/flow.rs`) | contract revisions, steps, evidence, plans, an approval | validated transitions | stale evidence, stale approvals, late calls | `TaskRuntime` |
| modules (`module/lifecycle.rs`, `module/host.rs`, `effects.rs`, `interactive/modules.rs`) | hosts, manifests, a guest session with a budget | rebuild, activate, query, effect, cancel | files that change under a rebuild; partial failure; guests that trap or lie | `Modules` |
| bash tool and sandbox run (`tool/bash_tool.rs`, `process/enforcing_backend/run.rs`) | the supervisor, two pipes and readers, a settings file | probe, spawn, poll, kill, join, classify | floods, children that hold pipes, cancel against exit, failing reads and removals | `BashTool` |
| generic provider adapter (`provider/generic.rs`, `sse.rs`, `redaction.rs`, `record.rs`) and its collector (`provider/turn.rs`) | assembler, held suffix, queue, record | call, read a chunk, pull an event, record | text cut anywhere on two channels, a cancel racing the end, a collector that refuses, endless streams | `ProviderStream` |
| supervision, context, projection, replay store, executor, configuration, language services, rendering | validated records, buffers, files | pure transitions, I/O, parsing, drawing | see "Not modelled" | none |

The worker owns the composed session, that is the tool loop. The UI thread talks
to it only through the two channels, the two flags and the approval table; the
tool loop reaches the approval exchange through its resolver, in the middle of
`poll_event`. The tool loop pulls a turn's events from a provider adapter through
the collector, and calls the write, edit and bash tools in its rounds; a rebuild
command of the worker applies the module declarations. `PROJECT.json` lists
every part, the ones that are not modelled too, and the hazards, each at its
line.

## Modules

* `SessionWorker` models the worker thread, the approval exchange and the
  handle. `wpc` is the place of the worker thread between two accesses to shared
  state; `outbox` holds the events a command arm has still to send, in the order
  of the code, so that a stop or a full channel can come between any two of
  them. `Deliver`, `LoseEvent` and `LoseTerminal` are the outcomes of
  `StopAwareEvents::send` and `send_terminal`; the two events of a failed
  composition and the announcement of an approval are plain sends, which only
  `Deliver`, `LosePlain` and `AnnounceFails` end. A command is received, then the
  stop bit is read again (`PassStop`, `DropCommand`), then the arm is served: each
  a step of its own. The `Prompt` arm reads the cancel flag (`PromptCancelled`,
  `PromptGoesOn`) before `PromptAccepted` or `PromptRefused`, so that both flags can
  change between their look and the start of the turn; then `PollEvent`,
  `PollApproval`, `PollNone`, `CheckCancel`, `SettleTurn`, `ClearCancel`.
  `HookVerdict`, `HookTimeout`, `HookStopped` and `HookWaits` are the loop of
  `request_blocking`; `HandleNext` is `shutdown_typed` with its retries. The UI
  thread is open: it may do anything a `WorkerHandle` offers. `owed`, `ran` and
  `flushes` are history variables; they guard nothing.
* `TuiBridge` extends it with the real UI thread: one frame after another (keys,
  status strip, resume, dispatch, sweep), and the relay with its five modes. A relay
  ends by an event only: the event channel never disconnects while the handle lives,
  for its approval exchange holds a sender. Its behaviours are behaviours of `SessionWorker` (`Spec` is checked as a property),
  so that every safety property proved of the open worker holds of it.
* `ToolLoop` models `SiralosApplication`, its response machine, the tool round,
  the ledger and the turn collector. `phase` is the code's `Phase`; `polling`
  separates a running `poll_event` from the host's calls between two of them.
  `granted` and `executed` are history variables.
* `Checkpoints` models one file, the records made for it, a tool that writes or
  edits it, an undo at the same time, other writers, crashes and failing calls.
  A record directory is `meta` (the state in metadata.json), `pre`
  (preimage.bin) and `tmp` (temporary files). `tpc` and `upc` are the places of
  the tool and of the undo between two file operations: `Begin`, the capacity
  check and pruning, `MakeDirectory`, `StageRecordFile`, `CommitPreimage`,
  `CommitMetadata` are `create_checkpoint`; `CheckOk`, `RenameTarget` and the
  verifications are `execute_write`/`execute_edit` with `StagedWrite`; the `Mark`
  actions are `mark_state`; the `Undo` actions `execute_undo_restore`;
  `Restart` and the `Reconcile` actions `reconcile_checkpoints`, where
  `ReadFileState` is what it reads of the file, failures included: a path that
  cannot be examined counts as a missing file, one that cannot be read has no
  digest.
* `EditLog` is what the store promises: every change Siralos makes to a file is
  an edit recorded before, over exactly what was recorded, or a restore of it.
  `Checkpoints` instantiates it with the log entries its records stand for.
* `TaskRuntime` models one task and its planning flow; an action is an operation
  that is accepted. The contract's content is its set of criteria; evidence
  carries the revision it was attached under.
* `Modules` models the hosts of a session, the rebuild that applies one id after
  another while files and declarations change, and a guest that may answer,
  trap, or ask for effects at any point.
* `BashTool` models one run of a command: the tool's thread, the two readers, the
  supervisor, the processes it leaves, the cancel and the deadline. `ReadFails` ends
  a reader as the end of the stream does, `RemoveSettings` may leave the file.
  `tardy` is a history variable: the cancel came after the tool's last look.
* `ProviderStream` models one turn of the generic adapter against an arbitrary
  provider and the collector that pulls. Before each pull the collector looks at
  its own token (`Look`); then the adapter cancels (`NextCancelled`), or what is
  queued is taken: a failure or an event after the completion (`NextTerminal`), an
  event that is applied (`NextQueued`) or refused for a limit (`NextRefused`), or
  nothing more (`NextEnds`). Texts are on the channel of the answer or of the
  reasoning and go through one redactor. `received` and `spoken` are history
  variables. `MCProviderStream` gives the credential and the texts their values.
* `SessionWorkerProofs`, `TuiBridgeProofs`, `ToolLoopProofs`, `CheckpointsProofs`,
  `TaskRuntimeProofs`, `ModulesProofs`, `BashToolProofs` and `ProviderStreamProofs`
  hold the theorems; each extends the module it is about.

Definitions with the comment "Seeded fault" are alternatives that no
specification uses: each is a plausible bug, and replacing the definition after
it by it makes a property fail. They show that the properties can fail.

### Abstractions

Clocks: a wait with a deadline may end at it whenever what it waits for has not
happened.

Worker, terminal and tool loop: event payloads are their kinds. Texts and inputs
are sizes; a tool with its input is one action, which with the task revision is
the digest of an approval. The provider is an arbitrary stream. Projection is an
arbitrary choice of surface, pressure and block. The byte limits of the
collector are folded into `PullFailure`. `Phase::EmitText` is unreachable and
left out. A refused prompt changes nothing. The provider-add form and the
resolution of a pending model picker are left out of the frame loop.

Checkpoints: a content is its digest. Refusals before a record is drawn up leave
no trace. The byte limit of the store holds whenever its count limit does. A
restart may or may not reconcile: the harness does, the interactive session does
not.

Task runtime: refused calls, reasons, notes, times and the progress tracker are
left out. The gates of validation, review and findings are one flag.

Modules: fuel, memory, sizes and the fence of generations are left out; running
out of fuel or memory is a trap.

Bash: output is counted in bytes; the sandbox is a probe that passes or not and
what it proves. A write to a closed pipe fails in the command.

Provider stream: bytes are lines and cut lines, so splits inside a character are
left out, as are encoded variants of the credential, the redactor's limit on a
held suffix, and the names of tools. The collector's limits are in sizes, which
are not modelled, so that it may refuse any text or call. Every refused frame is
one kind of line, as is every ignored one. Any credential is allowed, also one
that overlaps itself: what may be shown is the text with some set of its
occurrences masked and none left, for where two overlap the cut of the text
decides which of them the code sees.

## Runs

| run | shows | bounds |
| --- | --- | --- |
| `session_worker` | `ExchangeTable`, `OnlyApprovedRan`, `IdleIsSettled`, `FlushedOnce`, `StoppedIsLast`, `NothingStartsAfterStop`, and under `FairSpec` `StopEndsWorker` | channels of one, two request ids, prompts, cancels and two requests, panes on |
| `tui_bridge` | `BlockedHookIsShown`, `NoDeadlock`, `NoStrandedRelay`, and under `FairBridge` `BusyEnds` | channels of one, one pending line, prompts and model switches, no type-ahead |
| `tui_typeahead` | `Spec` of the worker, as refinement | channels of one, one pending line, prompts, the provider picker and exits, type-ahead |
| `tool_history` | `TranscriptValid`, `BoundaryIsUser`, `RejectedNotCommitted` | 4 items, 6 bytes, 2 calls per turn, one round |
| `tool_approvals` | `ApprovalsSpentOnce`, `RoundsBounded`, `ResponseEnds` | two actions, two revisions, two rounds, one grant per digest |
| `checkpoints` | `PreimageSurvives`, `ClassifiedTruly`, `ImplementsEditLog` (refinement), `MutationEnds` | two contents or no file, two records in a store of one, one foreign write, two faults (crashes and failed calls together) |
| `task_runtime` | `CompletedIsProven`, `ApprovalIsExact`, `TerminalIsFinal` | one step, two criteria of two kinds, two evidence ids, two plan ids, two contract and three plan revisions |
| `modules` | `HostAgrees`, `AnswersAreTrue`, `RebuildKeeps` | two ids, two packages, one within the authority and one not, one host call |
| `bash_tool` | `OutputIsTrue`, `NothingLeft`, `ToolAnswers` | pipes of two bytes, a cap of two, five bytes per stream |
| `provider_stream` | `ShownIsRedacted`, `CredentialIsHidden`, `AllOrNothing`, `RecordIsTrue`, `TurnEnds` | a credential `aaba`, answers `aa` and `aba`, reasoning `ba`, two calls, chunks of two lines, four lines, three events |
| `tui_deadlock` | expects `NoDeadlock` to fail: see below | type-ahead, two pending lines |
| `provider_channels` | expects `ReasoningStaysOut` to fail: see below | reasoning `a`, answer `b` |

The capacities are the smallest at which a channel is both empty and full and at
which a command or an event can be behind another (the outbox holds the rest of
an answer, so a full channel of one already separates its events). Two request
ids make the ids wrap. A history of four items with turns of up to six makes
pruning drop one turn, all turns, or none; two calls make pairing and duplicate
ids possible. `MaxGrants` and `MaxRevision` bound counters only. `TypeAhead =
FALSE` restricts the user: no second line, and no key after a verdict, is read
in the same frame.

A store of one record is at its capacity as soon as the first edit is made, so
the second evicts it while an undo may be restoring from it; two faults allow a
failed marking followed by a crash, and a crash during the reconciliation after
a crash. The two-letter beginning of the credential `aaba` ends in its one-letter
beginning, so that holding the wrong suffix matters, and its end is a beginning
again, so that occurrences overlap; the texts put it together from two or three
pieces and across the channels. A prompt is waited for until its turn ends and a
model switch up to the deadline, the two ways to wait for a line; the three
invariants of `tui_bridge` are proved for every set of lines. The bytes a command
may write exceed cap and pipe together, so that a reader stops while the command
is at a full pipe. A single host call is the budget at which a call after the
bind may already be one too many.

`task_runtime` has a state constraint, `OneAspect`: acceptance (steps, evidence,
criteria, gates) and planning (routing, plans, approvals) touch each other only
through the phase and the contract: planning steps read them and write neither,
and the steps that write them (`TransitionPhase`, `CompleteTask`,
`ReviseContract`) are explored with either one, so behaviours that use one of the
two are enough.

Deadlock is checked in the worker, bridge and module runs (`Finished` is the
proper end of the worker). The others may stop: a host may stay idle, a full
history refuses every prompt, bounds on records and faults are used up, a task
is terminal, a command or a turn is over.

### Disagreements that runs show

`tui_deadlock`: with type-ahead a second line is dispatched while an approval is
open; UI and worker wait for each other, and only a stop ends it.
`interactive/approval.rs:345-346` says that "no deadlock is possible".

`provider_channels`: one held suffix serves both channels (`redaction.rs:1097`,
`1136-1143`). Reasoning that ends in a beginning of the credential comes out in
front of the next delta, and if that is of the answer, as part of the answer.
`provider/event.rs:95-97` says of reasoning that "it never reaches the assistant
text".

### Observations made while modelling

These are what the code does, as the models have it; the properties are stated
so that they hold of it, and the README is where it is said.

* Worker. The announcement of an approval is a plain blocking send
  (`approval.rs:433`): a frontend that stops draining parks the worker there,
  while `session_worker.rs:492-494` bounds every other delivery.
  `StopEndsWorker` names this case, and the plain sends of a failed composition
  (`session_worker.rs:1363-1364`). The stop bit is read before the receive and
  after it (`session_worker.rs:672`, `682`), the start of a turn is a later step: a
  prompt that has passed the second read is started although the stop is set.
  `NothingStartsAfterStop` promises what holds: a stopped worker that stands before
  the second read starts nothing any more. If the `TurnFinished` and the `Stopped`
  of a worker that ends are both lost on a full channel, the relay waits for ever,
  because the exchange in the handle keeps a sender and the channel does not
  disconnect (`session_worker.rs:1329-1333`); `BusyEnds` names this case. With
  type-ahead an F2 after a verdict consumes
  the `TurnFinished` the resumed turn waits for (`tui_loop.rs:1026`). The clear
  after `TurnFinished` (`session_worker.rs:733`) can take back an interrupt meant
  for the next turn.
* Tool loop. A history of exactly the maximum is never pruned and refuses every
  prompt (`tool/session.rs:1002`). A provider id of the form `invalid-call-N` can
  collide with a synthetic one (`provider/turn.rs:271`); `tool_history` uses ids
  without that form, and the theorem about the transcript names it.
* Checkpoints. `reconcile_checkpoints` is called by the harness and tests only,
  while `docs/adr/0006` says startup resolves `prepared` checkpoints. A crash
  inside creation leaves content that cannot be verified, and every later creation
  is refused (`CapacityUnknown`). A prepared record whose marking failed is not
  healed once the file has been edited again. `prune_checkpoints` ignores a
  removal that fails and counts again (`checkpoint_lifecycle.rs:588-610`; "a
  vanished directory still counts as progress" says the comment): while the removal
  of the oldest record keeps failing, the loop does not end, and `MutationEnds`
  names this case, as it names a user who undoes for ever. `RemoveFails` is
  therefore outside the bound of faults. Reconciliation "never guesses"
  (`workspace/checkpoint.rs:802-806`), but it takes a file it could not examine for
  a missing one, so that the record of a created file is abandoned although the
  file is there; any other failed reading leaves the record uncertain.
  `ClassifiedTruly` says both. Nor can it tell a file that was changed and changed
  back; the property excludes files that others touched.
  A write between comparison and rename is overwritten; the code documents it and
  `EditLog` says exactly which edits it may happen to.
* Task runtime. A light plan that was approved satisfies the gate of full planning
  when the task is routed to full afterwards, since routing overwrites the depth
  the gate reads (`planning/flow.rs:289`, `task/runtime.rs:1463`). After a contract
  revision the flow can store no revised plan, because a revised plan keeps the
  contract revision of its predecessor (`planning/model.rs:772`). Validation and
  review status survive a revision.
* Modules. A query reports an exhausted budget before it looks for a trap, so the
  session of a guest that trapped then survives (`host.rs:703-711`), while the
  comment above `query` says that a fault stops it. A cancelled session stays
  active.
* Bash. What `run_bounded` is handed is already cut to the cap, so it never flags
  a cut itself (`bash_tool.rs:316-339`); `core/runtime/sandbox.rs:171` and
  `bash_tool.rs:7-9` say that truncation is always flagged, which holds of the
  backend, and only there the property claims it. A read that fails ends the
  reader like the end of the stream (`run.rs:251`): the rest is lost unflagged, and a
  success may then be short; `OutputIsTrue` excepts it. The removal of the settings
  file is tried once and its failure ignored (`run.rs:163`, `189`, `212`);
  `NothingLeft` promises the attempt. A cancel after the last look at the token
  (`bash_tool.rs:306`) is too late. A failed `try_wait`
  leaves supervisor, readers and settings file (`run.rs:180`), while the comment at
  `run.rs:131` says that nothing ran; `NothingLeft` names it.
* Provider stream. The suffix held at `[DONE]` is dropped, neither shown nor masked
  (`generic.rs:1234-1248`): the stream is drained without the flush that the end of
  file has. `redaction.rs:1148` says that it is replaced, and `generic.rs:890-893`
  says of a buffered body that it is masked rather than dropped.
  `ShownIsRedacted` names the suffix and allows the drop.
  A body that is
  buffered has its mask behind the completion (`generic.rs:903`), which the
  collector takes for an event after the end and refuses. A completion beyond the
  bound of events drops its own failure. What is promised of the credential is
  promised of the two channels read as one text in the order of the events, which is
  what the redactor sees; the answer read by itself is another text.
  A response that is recorded as complete at `[DONE]` may still end otherwise: the
  collector may refuse it for a limit (32 calls a turn against 64 that are
  streamed) or find its own token cancelled (`turn.rs:536-551`). A plain body,
  which has no completion of the assembler, is also cancelled by the adapter after
  it was recorded: the record then stays in the store, and the turn says that it
  has none. `RecordIsTrue` states exactly these.

### Fairness

`FairSpec` of the worker assumes that its thread is scheduled and nothing of the
frontend: every receive, send and join of the thread has a time limit or looks
at the stop bit, the announcement excepted, which the property names.
`FairBridge` adds that the UI thread is scheduled, that a relay with a deadline
is over, by its answer or at the deadline, that a response polled again and again
ends (the tool loop's `ResponseEnds`), and that the user answers an
approval that stays on the screen; `SF` is used where a step can be disabled
for a moment by the other thread. `FairSpec` of the tool loop assumes that the
worker polls until nothing is left, which its `while let` loop does.

`FairSpec` of the checkpoints assumes that a tool that runs is scheduled and a
host that crashed is started again; no undo and no writer has to do anything.
`FairSpec` of the bash tool assumes that the tool's threads run, that time passes,
and that the command's processes end once the supervisor has: the code kills no
process group and relies on the sandbox for it, which its canary probes before
every run. `FairSpec` of the provider stream assumes that the call and each read
end, for the client has timeouts, and that the collector pulls; the provider may
send for ever.

## Proofs

`SessionWorkerProofs` proves, for every capacity, every number of request ids
and every set of commands:

* `TypeCorrect`. `TypeOK` needs one more fact: a handle that is not dropped has
  an attempt left.
* `ExchangeTableHolds`, `OnlyApprovedRanHolds` from `HookInv`, which adds that a
  request whose hook is blocked has not run. Only four kinds of steps touch the
  exchange; the others are one frame lemma.
* `FlushedOnceHolds` from `TurnInv`: where a response can be active without a
  stop, that an unsettled turn is active or about to be settled, that a drain
  has something to drain, and that nothing is flushed before the exit.
* `IdleIsSettledHolds` from `TurnInv` and `OwedInv`: a `TurnFinished` is the last
  event of an outbox on its way to "clear", and without a stop the worker owes
  one exactly during a turn. `WorkerShapes` classifies every step of the worker
  by what it does to the outbox, so that the induction has nine cases.
* `StoppedIsLastHolds` from `StoppedInv`, in the same way.
* `NothingStartsAfterStopHolds`: that the stop is set and the worker stands before
  its second look, or past the loop, is kept by every step.

`TuiBridgeProofs` proves for every capacity of the channels, every number of
pending lines and every set of lines:

* `BridgeImplementsWorker`: each step of the terminal is a step of the worker, one
  operation of its handle, or neither. The mapping is the identity, and the only
  invariant needed is that the handle is live until the loop is left. Hypothesis
  `SendsAll`: the commands of the open frontend include those the terminal sends.
  With it every theorem above holds under the terminal, type-ahead or not.
* `BlockedHookIsShownHolds`, `NoDeadlockHolds`, `NoStrandedRelayHolds`, with the
  further hypothesis `NoTypeAhead`. `tui_deadlock` shows that `NoDeadlock` is false
  without it; so type-ahead is the only way into that deadlock, whatever the
  capacities. The inductive invariant `BridgeInv` says what the two threads know of
  each other through the queues between them: `OneTurn` (a prompt that is queued, a
  turn that runs and a `TurnFinished` under way exclude each other), `AskInv` (an
  announced or shown request is the latest one and blocked unless stopped, and a
  blocked one is announced or shown), `WaitInv` (the UI waits exactly while there is
  a turn, or after a stop), `QueueInv` (at most one such event in a queue) and
  `UiInv` (the locals of the loop), on top of the worker's `TypeInv` and `HookInv`.

`ToolLoopProofs` proves for every set of actions, policy, surface and limit:

* `ApprovalsSpentOnceHolds`, inductive with the types of ledger and counters, and
  `RoundsBoundedHolds` (before the provider is asked, there were at most as many
  turns as rounds).
* `TypeCorrect`; `BoundaryIsUserHolds` and `RejectedNotCommittedHolds` from
  `HistoryInv`, which adds how the conversation ends while its response is not
  decided, and the shape of a round under way: its transcript is its calls and then
  the results, in their order, of those that no longer remain.
* `TranscriptValidHolds` from `HistoryInv` and `PairingInv`: the calls a turn has
  retained have distinct ids, the provider's or synthetic ones that were counted,
  and so have the calls of the round. Hypothesis `SyntheticIdsApart`: no provider id
  has the form `invalid-call-N`, the collision named above.

`CheckpointsProofs` proves for every set of contents, every number of records,
faults and foreign writes, and every capacity of the store:

* `TypeCorrect`, `PreimageIsKept`, `RecordsAreTrue`. `PreimageSurvives` alone is not
  inductive: `DraftInv` says what of a record is on the disk at each step of its
  creation, `BornInv`, `RemovalInv` and `KeptInv` that a complete record only loses
  files once eviction has doomed it, `EditInv` and `MarkInv` where the tool is
  between record, rename and marking, `FileInv` what the file holds while a record
  nobody disturbed is prepared, `UndoInv` that an undo works on an applied record,
  `RaceInv` that a file differs from what was compared only after a foreign write.
* `EditLogImplemented`: under the mapping of `Checkpoints` each file operation is
  one step of `EditLog` or a stutter.

`TaskRuntimeProofs` proves `TypeCorrect`, `CompletedProven`, `ApprovalExact` and
the action property `TerminalFinal`, for every set of steps, criteria, evidence
and plans and any number of revisions. `AcceptanceInv` says that a mark of a
criterion rests on evidence of the current revision, `CompletedInv` that this stays
so, `PlansInv` that revisions of a plan rise, so that a pair of id and revision names
one plan, `ApprovalInv` that approval, plan, contract and gate agree. The proof does
not use `OneAspect`: what that constraint leaves out of the run is covered by the
theorems.

`ModulesProofs` proves `TypeCorrect`, `HostsAgree`, `AnswersTrue` and the action
property `RebuildKeepsWorking`, for every set of ids and packages, every authority
and every budget. `HostsInv` is about one host (a session runs exactly when it is
active, of the installed package, its budget spent or left) and holds of what each
operation on a lifecycle returns, which are lemmas of their own; `RebuildInv` is
about what is staged for the id a rebuild is at, `CallInv` about the call under way.

`BashToolProofs` proves `OutputTrue` and `NothingIsLeft` for every cap, every size
of a pipe and every amount of output. `Accounted` is the conservation of bytes
(what was written is in the pipe or in the buffer, until a reader has stopped with
more than the cap), `Stages` what has been started and ended at each place of the
thread, `OutcomeInv` and `ResultInv` what an outcome and a result rest on.

`ProviderStreamProofs` proves for every set of characters, every credential (one
that overlaps itself included), every set of texts on the two channels, and any
number of calls, fragments, events and lines:

* `RedactorMasksEveryCut`: after any sequence of events, what the redactor has passed
  on and what it holds is together their text with some set of the occurrences of the
  credential masked, none is left, and what is held is the longest suffix that may
  begin another. The set of masked occurrences depends on the cut when they overlap;
  the theorem says that there is one. The key is `Redacted`: the text is a part of
  which a masking has been passed on, followed by what is held, so that masking the
  held suffix with the next text gives a masking of the whole (`RedactedMore`). That
  none is left, across the seam either, is where the longest suffix is needed.
* `ShownIsAlwaysRedacted` from `TextInv` and `HeldInv`: every part of the queue the
  collector will take before it stops, put behind what is shown, is on the way to such
  a masking. It has to speak of the parts of the queue, since a failure, a refusal or a
  cancellation can break it off anywhere, and since a mask is put in the middle of it.
  `OpenInv` says when the text is still open, that is when more may come.
* `CredentialIsAlwaysHidden`, from the same: no part of a text with every visible
  occurrence masked contains the credential, for what stands left and right of a marker
  cannot make a new one.
* `CallsAreAllOrNothing` from `UntoldInv` and `CallsInv` (what has been taken and what
  is queued are together the calls in use, in their order), `RecordIsAlwaysTrue` from
  `RecordInv` (the record is made before what it is about is queued), `OrderInv` and
  `CompletedInv` (nothing follows the completion of a stream, and a stream that
  completed is on its way to the collector, there, or rejected by it). The type
  invariant is `StreamType`.

A read folds the assembler and the redactor over sequences of any length, so these
proofs are inductions over data. The library's induction theorems cannot be
instantiated; instead an induction up to a number is derived from the well-foundedness
of the naturals, and lemmas unroll each fold of the model into the sequence of its
intermediate results, whose steps are then proved like steps of a specification.

The assumptions are those of the modules: capacities are positive, there are at
least two request ids, the frontend sends no `Shutdown` of its own, gated actions
are actions, limits are naturals, markers for "none" are no members of the sets
they are added to, the credential is not empty and does not contain the marker, and no
delta is empty. Each inductive invariant was checked by TLC before it was proved.

What the proofs changed in the models: `Outcomes` of `Modules` had a `CASE` whose
guards overlapped, of which TLC takes the first and TLA+ leaves the choice open;
a proof about the operations failed there, and it is an `IF` now. In
`ProviderStream`, masking is said place by place (`Masked`) and a commit call by
call (`CommitCall`), the order of the calls in `AllOrNothing` is stated without
sorting, and the bounds are assumed to be naturals.

Only model-checked: the liveness properties (`StopEndsWorker`, `BusyEnds`,
`ResponseEnds`, `MutationEnds`, `ToolAnswers`, `TurnEnds`), since fairness and ENABLED
are out of the prover's reach.

## Plan

1. Done: worker and exchange, terminal loop, tool loop, first theorems.
2. Done: checkpoints with crashes, undo and reconciliation, and the edit log they
   implement; task runtime; modules; the bash run; the provider stream.
3. Done: the safety properties of all of them proved, and both refinements.
4. Done: credentials whose occurrences overlap, the two channels of a stream, the
   collector's refusals. Open: the encoded variants of a credential, which the
   matcher takes together.
5. Open: the context scheduler and the projection as operators against a
   reference definition.

## Not modelled

* Observed writes and the lock file: one-shot tokens and single writes of
  configuration; the staged replacement they share is in `Checkpoints`.
* Supervision, readiness, QA and profiling records, executor briefs, context
  classes: values replaced by validated transitions, with no second actor.
* Context scheduler and projection: deterministic functions without concurrency;
  the tool loop sees their result as an arbitrary choice.
* The replay store's format and the playback of records, the other adapters, the
  building of requests, model listing, configuration, language services, workspace
  reading and search, rendering: I/O, parsing and drawing.
* The sandbox's settings and its canary: external; what the canary proves is an
  assumption of `BashTool`.
* The harness, experiments and fuzz targets: tooling around the program.
