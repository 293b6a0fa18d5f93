------------------------------ MODULE BashTool ------------------------------
(***************************************************************************)
(* One command of the bash tool under the enforcing sandbox                *)
(* (adapters/tool/bash_tool.rs, process/enforcing_backend/run.rs): the     *)
(* tool's thread that spawns the sandbox supervisor and polls it, the two  *)
(* threads that read its output, the supervisor and the processes it       *)
(* starts, the user who cancels and the clock.                             *)
(*                                                                         *)
(* Output is counted in bytes and a pipe holds PipeSize of them.  A write  *)
(* to a pipe nobody reads fails in the command and changes nothing here.   *)
(* The sandbox itself and the canary that proves it are external: a probe  *)
(* passes or does not, and what it proves is that the processes of the     *)
(* command end when the supervisor does.  The pipes are there, for spawn   *)
(* was asked for them; parsing the input and building the environment are  *)
(* left out.                                                               *)
(***************************************************************************)
EXTENDS Naturals

CONSTANTS
    Cap,        \* stdout_max_bytes and stderr_max_bytes
    PipeSize,   \* what a pipe holds
    MaxBytes    \* bound on what the command writes to a stream

ASSUME BashAssumption ==
    /\ {Cap, PipeSize, MaxBytes} \subseteq Nat
    /\ PipeSize > 0

Streams == {"stdout", "stderr"}

VARIABLES
    pc,          \* the tool's thread
    supervisor,  \* the child process: none, running, exited or reaped
    status,      \* its exit status
    children,    \* the command left processes that hold the pipes
    streams,     \* per stream: bytes written, bytes in the pipe, the buffer
                 \* and the state of the reader, and whether a read failed
    settings,    \* the settings file: none, written, or left when its removal
                 \* failed
    cancelled,   \* the cancellation token
    tardy,       \* history: it was set after the tool's last look at it
    late,        \* the deadline has passed
    run,         \* how the wait ended: exited, timed_out or cancelled
    outcome,     \* what the backend returns
    result       \* what the tool returns

procVars == <<supervisor, status, children>>
userVars == <<cancelled, tardy>>
vars     == <<pc, procVars, streams, settings, userVars, late, run, outcome,
              result>>

NoStatus == 2      \* killed: no exit status
Statuses == {0, 1, NoStatus}

NoOutput == [s \in Streams |-> [length |-> 0, cut |-> FALSE]]

Returned(kind) == [kind |-> kind, output |-> NoOutput]

----------------------------------------------------------------------------
(***************************************************************************)
(* The tool's thread                                                       *)
(***************************************************************************)

Finish(kind) ==
    /\ pc' = "done"
    /\ result' = Returned(kind)

\* execute_bash looks at the token, then probes; execute probes again.
Start ==
    /\ pc = "start"
    /\ \/ cancelled /\ Finish("cancelled")
       \/ ~cancelled /\ Finish("unavailable")
       \/ ~cancelled /\ pc' = "probed" /\ UNCHANGED result
    /\ UNCHANGED <<procVars, streams, settings, userVars, late, run, outcome>>

ProbeFails ==
    /\ pc = "probed"
    /\ Finish("failed")
    /\ UNCHANGED <<procVars, streams, settings, userVars, late, run, outcome>>

\* remove_file: a failure is ignored.
RemoveSettings == settings' \in {"none", "left"}

\* write_settings_file: not opened, or not written and removed again.
WriteSettings ==
    /\ pc = "probed"
    /\ \/ settings' = "written" /\ pc' = "spawn" /\ UNCHANGED result
       \/ UNCHANGED settings /\ Finish("failed")
       \/ RemoveSettings /\ Finish("failed")
    /\ UNCHANGED <<procVars, streams, userVars, late, run, outcome>>

\* Seeded fault: a failed spawn forgets the settings file.
SpawnFailsDirty ==
    /\ pc = "spawn"
    /\ Finish("failed")
    /\ UNCHANGED <<procVars, streams, settings, userVars, late, run, outcome>>

SpawnFails ==
    /\ pc = "spawn"
    /\ RemoveSettings
    /\ Finish("failed")
    /\ UNCHANGED <<procVars, streams, userVars, late, run, outcome>>

Spawn ==
    /\ pc = "spawn"
    /\ supervisor' = "running"
    /\ streams' = [s \in Streams |-> [streams[s] EXCEPT !.reader = "reading"]]
    /\ pc' = "wait"
    /\ UNCHANGED <<status, children, settings, userVars, late, run, outcome,
                   result>>

\* try_wait fails: the run is given up as it is.
WaitFails ==
    /\ pc = "wait"
    /\ Finish("fault")
    /\ UNCHANGED <<procVars, streams, settings, userVars, late, run, outcome>>

\* try_wait finds the supervisor ended and reaps it.
Reap ==
    /\ pc = "wait" /\ supervisor = "exited"
    /\ supervisor' = "reaped"
    /\ run' = "exited"
    /\ pc' = "join"
    /\ UNCHANGED <<status, children, streams, settings, userVars, late,
                   outcome, result>>

\* It still runs: the token and the clock are looked at after that.
StillRunning ==
    /\ pc = "wait" /\ supervisor = "running"
    /\ pc' = "check"
    /\ UNCHANGED <<procVars, streams, settings, userVars, late, run, outcome,
                   result>>

Sleep ==
    /\ pc = "check" /\ ~cancelled /\ ~late
    /\ pc' = "wait"
    /\ UNCHANGED <<procVars, streams, settings, userVars, late, run, outcome,
                   result>>

\* Seeded fault: only a cancellation ends the wait.
KillOnCancel ==
    /\ pc = "check" /\ cancelled
    /\ run' = "cancelled"
    /\ supervisor' = "reaped"
    /\ status' = NoStatus
    /\ pc' = "join"
    /\ UNCHANGED <<children, streams, settings, userVars, late, outcome, result>>

\* Kill the supervisor and wait for it, even if it just ended by itself.
Kill ==
    /\ pc = "check" /\ (cancelled \/ late)
    /\ run' = IF cancelled THEN "cancelled" ELSE "timed_out"
    /\ supervisor' = "reaped"
    /\ status' = NoStatus
    /\ pc' = "join"
    /\ UNCHANGED <<children, streams, settings, userVars, late, outcome, result>>

\* join_run: both readers have ended; the settings file is removed.
Joinable == \A s \in Streams : streams[s].reader = "done"

Join ==
    /\ pc = "join" /\ Joinable
    /\ RemoveSettings
    /\ pc' = "classify"
    /\ UNCHANGED <<procVars, streams, userVars, late, run, outcome, result>>

\* truncate_bounded: what is kept of a stream, and whether it was cut.
Truncate(length) ==
    [length |-> IF length <= Cap THEN length ELSE Cap, cut |-> length > Cap]

Collected == [s \in Streams |-> Truncate(streams[s].buffer)]

\* classify_run: a failed run may carry the supervisor's own error.
Classify ==
    /\ pc = "classify"
    /\ \/ run # "exited" /\ outcome' = Returned(run)
       \/ run = "exited" /\ outcome' = [kind |-> "output", output |-> Collected]
       \/ run = "exited" /\ status # 0 /\ outcome' = Returned("error")
    /\ pc' = "report"
    /\ UNCHANGED <<procVars, streams, settings, userVars, late, run, result>>

\* run_bounded: an error first, then the last look at the token.
LastLook ==
    /\ pc = "report"
    /\ \/ outcome.kind = "error" /\ Finish("failed")
       \/ outcome.kind = "cancelled" /\ Finish("cancelled")
       \/ outcome.kind # "error" /\ cancelled /\ Finish("cancelled")
       \/ outcome.kind \in {"timed_out", "output"} /\ ~cancelled
          /\ pc' = "made" /\ UNCHANGED result
    /\ UNCHANGED <<procVars, streams, settings, userVars, late, run, outcome>>

\* The output it is handed is truncated once more.
Reported == [s \in Streams |-> Truncate(outcome.output[s].length)]

Report ==
    /\ pc = "made"
    /\ result' = CASE outcome.kind = "timed_out" -> Returned("timed_out")
                   [] outcome.kind = "output" /\ status = 0
                         -> [kind |-> "success", output |-> Reported]
                   [] outcome.kind = "output" /\ status # 0
                         -> Returned("failed")
    /\ pc' = "done"
    /\ UNCHANGED <<procVars, streams, settings, userVars, late, run, outcome>>

Tool == \/ Start \/ ProbeFails \/ WriteSettings \/ SpawnFails \/ Spawn
        \/ Reap \/ StillRunning \/ Sleep \/ Kill
        \/ Join \/ Classify \/ LastLook \/ Report

----------------------------------------------------------------------------
(***************************************************************************)
(* The readers                                                             *)
(***************************************************************************)

Writers == supervisor = "running" \/ children

\* Seeded fault: the reader stops at the cap, without the byte that shows a cut.
ReadToCap(s) ==
    LET total == streams[s].buffer + streams[s].pipe
    IN  /\ streams[s].reader = "reading" /\ streams[s].pipe > 0
        /\ streams' = [streams EXCEPT
                          ![s].buffer = IF total <= Cap THEN total ELSE Cap,
                          ![s].pipe = 0,
                          ![s].reader = IF total >= Cap THEN "done" ELSE @]
        /\ UNCHANGED <<pc, procVars, settings, userVars, late, run, outcome,
                       result>>

\* read_bounded: take what is there, up to one byte more than is kept; a
\* full buffer ends the reader, and that closes the pipe.
Read(s) ==
    LET total  == streams[s].buffer + streams[s].pipe
        buffer == IF total <= Cap + 1 THEN total ELSE Cap + 1
    IN  /\ streams[s].reader = "reading" /\ streams[s].pipe > 0
        /\ streams' = [streams EXCEPT
                          ![s].buffer = buffer,
                          ![s].pipe = 0,
                          ![s].reader = IF buffer > Cap THEN "done" ELSE @]
        /\ UNCHANGED <<pc, procVars, settings, userVars, late, run, outcome,
                       result>>

EndOfFile(s) ==
    /\ streams[s].reader = "reading" /\ streams[s].pipe = 0 /\ ~Writers
    /\ streams' = [streams EXCEPT ![s].reader = "done"]
    /\ UNCHANGED <<pc, procVars, settings, userVars, late, run, outcome, result>>

\* A read that fails ends the reader like the end of the stream does; what is
\* still in the pipe is lost, and nobody is told.
ReadFails(s) ==
    /\ streams[s].reader = "reading"
    /\ streams' = [streams EXCEPT ![s].reader = "done", ![s].pipe = 0,
                                  ![s].failed = TRUE]
    /\ UNCHANGED <<pc, procVars, settings, userVars, late, run, outcome, result>>

----------------------------------------------------------------------------
(***************************************************************************)
(* The command, the user and the clock                                     *)
(***************************************************************************)

Open(s) == streams[s].reader = "reading"

Write(s) ==
    /\ Writers
    /\ Open(s) /\ streams[s].pipe < PipeSize /\ streams[s].written < MaxBytes
    /\ streams' = [streams EXCEPT ![s].pipe = @ + 1, ![s].written = @ + 1]
    /\ UNCHANGED <<pc, procVars, settings, userVars, late, run, outcome, result>>

Fork ==
    /\ supervisor = "running" /\ ~children
    /\ children' = TRUE
    /\ UNCHANGED <<pc, supervisor, status, streams, settings, userVars, late,
                   run, outcome, result>>

Exit ==
    /\ supervisor = "running"
    /\ supervisor' = "exited"
    /\ \E code \in Statuses : status' = code
    /\ UNCHANGED <<pc, children, streams, settings, userVars, late, run,
                   outcome, result>>

\* They end by themselves, and with the supervisor.
ChildrenEnd ==
    /\ children
    /\ children' = FALSE
    /\ UNCHANGED <<pc, supervisor, status, streams, settings, userVars, late,
                   run, outcome, result>>

Cancel ==
    /\ ~cancelled /\ pc # "done"
    /\ cancelled' = TRUE /\ tardy' = (pc = "made")
    /\ UNCHANGED <<pc, procVars, streams, settings, late, run, outcome, result>>

Deadline ==
    /\ ~late /\ supervisor # "none"
    /\ late' = TRUE
    /\ UNCHANGED <<pc, procVars, streams, settings, userVars, run, outcome,
                   result>>

Init ==
    /\ pc = "start"
    /\ supervisor = "none" /\ status = NoStatus /\ children = FALSE
    /\ streams = [s \in Streams |-> [written |-> 0, pipe |-> 0, buffer |-> 0,
                                     reader |-> "none", failed |-> FALSE]]
    /\ settings = "none" /\ cancelled = FALSE /\ tardy = FALSE /\ late = FALSE
    /\ run = "none"
    /\ outcome = Returned("none") /\ result = Returned("none")

Next ==
    \/ Tool \/ WaitFails
    \/ \E s \in Streams : Read(s) \/ EndOfFile(s) \/ ReadFails(s) \/ Write(s)
    \/ Fork \/ Exit \/ ChildrenEnd \/ Cancel \/ Deadline

Spec == Init /\ [][Next]_vars

\* The threads of the tool run and time passes; the command may do as it
\* likes, but its processes end once the supervisor has: that is what the
\* probe proves of the sandbox.
FairSpec ==
    /\ Spec
    /\ WF_vars(Tool)
    /\ \A s \in Streams : WF_vars(Read(s) \/ EndOfFile(s))
    /\ WF_vars(Deadline)
    /\ WF_vars(ChildrenEnd /\ supervisor # "running")

----------------------------------------------------------------------------
(***************************************************************************)
(* Properties                                                              *)
(***************************************************************************)

\* A success is the command's own: it ended with status 0, nobody killed
\* it, and the output shown is all that it and its children wrote, up to
\* the cap, unless a read failed.
SuccessIsWhole ==
    result.kind = "success" =>
        /\ run = "exited" /\ status = 0
        /\ \A s \in Streams :
               \/ streams[s].failed
               \/ result.output[s].length = Truncate(streams[s].written).length

\* The backend says of each stream whether the command wrote more than it
\* returns, unless a read failed.
BackendFlagsCuts ==
    outcome.kind = "output" =>
        \A s \in Streams :
            \/ streams[s].failed
            \/ outcome.output[s] = Truncate(streams[s].written)

\* A cancel that comes before the tool's last look wins over what the command
\* made of itself meanwhile.
CancelWins ==
    result.kind \in {"success", "timed_out"} => ~cancelled \/ tardy

\* What the tool answers is true: no buffer of the host outgrows its bound,
\* whatever the command writes, a success shows all of it up to the cap, the
\* backend says what it cut, and a cancelled command is reported as that.
\* Nothing is said of the tool's own truncation flag: run_bounded computes it
\* again from output that is already cut, where it is never set.
OutputIsTrue ==
    /\ \A s \in Streams : streams[s].buffer <= Cap + 1
    /\ SuccessIsWhole
    /\ BackendFlagsCuts
    /\ CancelWins

\* A command that finds a pipe full is never left waiting: somebody still
\* reads it, or it is closed.
NeverWedged ==
    \A s \in Streams :
        streams[s].pipe = PipeSize /\ Writers =>
            streams[s].reader = "reading" /\ streams[s].buffer <= Cap

\* When the tool answers, the supervisor is reaped, no thread still reads, and
\* the settings file is gone or its removal was tried and failed; only a
\* failed wait leaves all three.  And while the command runs it is not left at
\* a full pipe.
NothingLeft ==
    /\ NeverWedged
    /\ pc = "done" /\ result.kind # "fault" =>
           /\ supervisor \in {"none", "reaped"}
           /\ settings # "written"
           /\ \A s \in Streams : streams[s].reader # "reading"

\* The tool answers in the end, whether the command ends, hangs, floods its
\* output or leaves processes behind, and whether or not it is cancelled.
ToolAnswers == <>(pc = "done")
=============================================================================
