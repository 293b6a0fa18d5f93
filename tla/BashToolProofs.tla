--------------------------- MODULE BashToolProofs ---------------------------
(***************************************************************************)
(* Proofs about BashTool, for every cap, every size of a pipe and every    *)
(* amount of output: what the tool shows is what the command wrote, and    *)
(* nothing of a run is left when the tool answers.                         *)
(***************************************************************************)
EXTENDS BashTool, TLAPS

----------------------------------------------------------------------------
(* The inductive invariant, in parts. *)

Stream == [written : Nat, pipe : Nat, buffer : Nat,
           reader : {"none", "reading", "done"}, failed : BOOLEAN]

\* The variables have their types.
BashType ==
    /\ pc \in {"start", "probed", "spawn", "wait", "check", "join", "classify",
               "report", "made", "done"}
    /\ supervisor \in {"none", "running", "exited", "reaped"}
    /\ status \in Statuses
    /\ children \in BOOLEAN /\ late \in BOOLEAN
    /\ cancelled \in BOOLEAN /\ tardy \in BOOLEAN
    /\ settings \in {"none", "written", "left"}
    /\ streams \in [Streams -> Stream]
    /\ run \in {"none", "exited", "timed_out", "cancelled"}
    /\ outcome.kind \in {"none", "output", "error", "timed_out", "cancelled"}

\* Every byte that was written is in the pipe or in the buffer, until the
\* reader has ended: then the buffer holds all of them or more than is kept,
\* unless it was a failed read that ended it.
Accounted ==
    \A s \in Streams :
        /\ streams[s].reader = "reading" =>
               /\ streams[s].written = streams[s].buffer + streams[s].pipe
               /\ streams[s].buffer <= Cap
        /\ streams[s].reader # "reading" =>
               /\ streams[s].pipe = 0
               /\ \/ streams[s].failed
                  \/ streams[s].buffer = streams[s].written
                  \/ streams[s].buffer = Cap + 1 /\ streams[s].written > Cap
        /\ streams[s].buffer <= Cap + 1

\* Where the tool's thread is tells what it has started, and what has ended.
Stages ==
    /\ pc \in {"start", "probed", "spawn"} => supervisor = "none"
    /\ supervisor = "none" =>
           /\ ~children
           /\ \A s \in Streams :
                  /\ streams[s].reader = "none"
                  /\ streams[s].written = 0 /\ streams[s].buffer = 0
    /\ pc \in {"join", "classify", "report", "made"} => supervisor = "reaped"
    /\ pc \in {"wait", "check", "join", "classify", "report", "made"} =>
           \A s \in Streams : streams[s].reader # "none"
    /\ pc \in {"classify", "report", "made"} => Joinable
    /\ settings = "written" =>
           pc \in {"spawn", "wait", "check", "join", "done"}

\* An outcome is there once the tool has it from a run that is over.
OutcomeInv ==
    /\ pc \notin {"report", "made", "done"} => outcome.kind = "none"
    /\ pc = "report" => outcome.kind # "none"
    /\ pc = "made" => outcome.kind \in {"timed_out", "output"}
    /\ pc \in {"join", "classify"} => run # "none"
    /\ outcome.kind # "none" =>
           supervisor = "reaped" /\ Joinable /\ settings # "written"
    /\ outcome.kind = "output" =>
           /\ run = "exited"
           /\ \A s \in Streams :
                  \/ streams[s].failed
                  \/ outcome.output[s] = Truncate(streams[s].written)

\* A result is there once the tool has answered; from its last look on, a
\* cancel is tardy.
ResultInv ==
    /\ pc = "made" => ~cancelled \/ tardy
    /\ CancelWins
    /\ pc # "done" => result.kind = "none"
    /\ result.kind = "success" =>
           outcome.kind = "output" /\ status = 0 /\ result.output = Reported
    /\ pc = "done" /\ result.kind # "fault" =>
           /\ settings # "written"
           /\ \/ supervisor = "none"
              \/ supervisor = "reaped" /\ Joinable

IInv == BashType /\ Accounted /\ Stages /\ OutcomeInv /\ ResultInv

----------------------------------------------------------------------------
(* Every action keeps the invariant. *)

USE BashAssumption
USE DEF procVars, userVars, NoStatus, Statuses, RemoveSettings, CancelWins

\* Every step of the tool's thread keeps the invariant.
LEMMA ToolStep == IInv /\ (Tool \/ WaitFails) => IInv'
<1> SUFFICES ASSUME IInv, (Tool \/ WaitFails) PROVE IInv' OBVIOUS
<1> USE DEF IInv
<1>1. CASE Start
  <2> USE <1>1 DEF Start, Finish, Returned, NoOutput, Streams
  <2>1. BashType'
    BY DEF BashType, Stream
  <2>2. Accounted' /\ Stages' /\ OutcomeInv'
    BY DEF Accounted, Stages, OutcomeInv, Joinable, Truncate
  <2>3. ResultInv'
    BY DEF ResultInv, Stages, Reported, Joinable, Truncate
  <2> QED BY <2>1, <2>2, <2>3
<1>2. CASE ProbeFails
  <2> USE <1>2 DEF ProbeFails, Finish, Returned, NoOutput, Streams
  <2>1. BashType'
    BY DEF BashType, Stream
  <2>2. Accounted' /\ Stages' /\ OutcomeInv'
    BY DEF Accounted, Stages, OutcomeInv, Joinable, Truncate
  <2>3. ResultInv'
    BY DEF ResultInv, Stages, Reported, Joinable, Truncate
  <2> QED BY <2>1, <2>2, <2>3
<1>3. CASE WriteSettings
  <2> USE <1>3 DEF WriteSettings, Finish, Returned, NoOutput, Streams
  <2>1. BashType'
    BY DEF BashType, Stream
  <2>2. Accounted' /\ Stages' /\ OutcomeInv'
    BY DEF Accounted, Stages, OutcomeInv, Joinable, Truncate
  <2>3. ResultInv'
    BY DEF ResultInv, Stages, Reported, Joinable, Truncate
  <2> QED BY <2>1, <2>2, <2>3
<1>4. CASE SpawnFails
  <2> USE <1>4 DEF SpawnFails, Finish, Returned, NoOutput, Streams
  <2>1. BashType'
    BY DEF BashType, Stream
  <2>2. Accounted' /\ Stages' /\ OutcomeInv'
    BY DEF Accounted, Stages, OutcomeInv, Joinable, Truncate
  <2>3. ResultInv'
    BY DEF ResultInv, Stages, Reported, Joinable, Truncate
  <2> QED BY <2>1, <2>2, <2>3
<1>5. CASE Spawn
  <2> USE <1>5 DEF Spawn, Streams
  <2>1. BashType'
    BY DEF BashType, Stream
  <2>2. OutcomeInv' /\ ResultInv'
    BY DEF OutcomeInv, ResultInv, Joinable, Truncate, Reported
  <2>3. Accounted'
    BY DEF Accounted, BashType, Stages, Stream, Joinable
  <2>4. Stages'
    BY DEF Stages, BashType, Joinable, Stream
  <2> QED BY <2>1, <2>2, <2>3, <2>4
<1>6. CASE WaitFails
  <2> USE <1>6 DEF WaitFails, Finish, Returned, NoOutput, Streams
  <2>1. BashType'
    BY DEF BashType, Stream
  <2>2. Accounted' /\ Stages' /\ OutcomeInv' /\ ResultInv'
    BY DEF Accounted, Stages, OutcomeInv, ResultInv, Joinable, Truncate,
       Reported
  <2> QED BY <2>1, <2>2
<1>7. CASE Reap
  <2> USE <1>7 DEF Reap
  <2>1. BashType'
    BY DEF BashType, Streams, Stream
  <2>2. Accounted' /\ Stages' /\ OutcomeInv' /\ ResultInv'
    BY DEF Accounted, Stages, OutcomeInv, ResultInv, Streams, Joinable,
       Truncate, Reported
  <2> QED BY <2>1, <2>2
<1>8. CASE StillRunning
  <2> USE <1>8 DEF StillRunning
  <2>1. BashType'
    BY DEF BashType, Streams, Stream
  <2>2. Accounted' /\ Stages' /\ OutcomeInv' /\ ResultInv'
    BY DEF Accounted, Stages, OutcomeInv, ResultInv, Streams, Joinable,
       Truncate, Reported
  <2> QED BY <2>1, <2>2
<1>9. CASE Sleep
  <2> USE <1>9 DEF Sleep
  <2>1. BashType'
    BY DEF BashType, Streams, Stream
  <2>2. Accounted' /\ Stages' /\ OutcomeInv' /\ ResultInv'
    BY DEF Accounted, Stages, OutcomeInv, ResultInv, Streams, Joinable,
       Truncate, Reported
  <2> QED BY <2>1, <2>2
<1>10. CASE Kill
  <2> USE <1>10 DEF Kill
  <2>1. BashType'
    BY DEF BashType, Streams, Stream
  <2>2. Accounted' /\ Stages' /\ OutcomeInv' /\ ResultInv'
    BY DEF Accounted, Stages, OutcomeInv, ResultInv, Streams, Joinable,
       Truncate, Reported
  <2> QED BY <2>1, <2>2
<1>11. CASE Join
  <2> USE <1>11 DEF Join, Joinable, Streams
  <2>1. BashType'
    BY DEF BashType, Stream
  <2>2. Accounted' /\ Stages' /\ OutcomeInv' /\ ResultInv'
    BY DEF Accounted, Stages, OutcomeInv, ResultInv, Truncate, Reported
  <2> QED BY <2>1, <2>2
<1>12. CASE Classify
  <2> USE <1>12 DEF Classify, Returned, Collected, NoOutput, Streams, Truncate
  <2>1. BashType'
    BY DEF BashType, Stream
  <2>2. Accounted' /\ Stages' /\ ResultInv'
    BY DEF Accounted, Stages, ResultInv, Joinable, Reported
  <2>3. OutcomeInv'
    BY DEF OutcomeInv, BashType, Accounted, Stages, Joinable, Stream
  <2> QED BY <2>1, <2>2, <2>3
<1>13. CASE LastLook
  <2> USE <1>13 DEF LastLook, Finish, Returned
  <2>1. BashType'
    BY DEF BashType
  <2>2. Accounted' /\ Stages' /\ OutcomeInv'
    BY DEF Accounted, Stages, OutcomeInv, BashType, Joinable
  <2>3. ResultInv'
    BY DEF ResultInv, BashType, OutcomeInv, Joinable, Reported
  <2> QED BY <2>1, <2>2, <2>3
<1>14. CASE Report
  <2> USE <1>14 DEF Report, Returned, Reported, NoOutput, Streams, Truncate
  <2>1. BashType'
    BY DEF BashType, Stream
  <2>2. Accounted' /\ Stages' /\ OutcomeInv'
    BY DEF Accounted, Stages, OutcomeInv, Joinable
  <2>3. ResultInv'
    BY DEF ResultInv, BashType, OutcomeInv, Joinable, Stream
  <2> QED BY <2>1, <2>2, <2>3
<1> QED BY <1>1, <1>2, <1>3, <1>4, <1>5, <1>6, <1>7, <1>8, <1>9, <1>10, <1>11,
   <1>12, <1>13, <1>14 DEF Tool

\* The readers and the writes of the command keep the invariant.
LEMMA StreamStep ==
    ASSUME IInv, NEW s \in Streams,
           Read(s) \/ EndOfFile(s) \/ ReadFails(s) \/ Write(s)
    PROVE  IInv'
<1> USE DEF IInv
<1>1. CASE Read(s)
  <2> USE <1>1 DEF Read
  <2>1. BashType'
    BY DEF BashType, Streams, Stream
  <2>2. ResultInv'
    BY DEF ResultInv, Reported, Joinable, Streams, Truncate
  <2>3. Accounted'
    BY DEF Accounted, BashType, Streams, Stream
  <2>4. Stages'
    BY DEF Stages, BashType, Streams, Joinable, Stream
  <2>5. OutcomeInv'
    BY DEF OutcomeInv, BashType, Accounted, Joinable, Streams, Truncate,
       Stream
  <2> QED BY <2>1, <2>2, <2>3, <2>4, <2>5
<1>2. CASE EndOfFile(s)
  <2> USE <1>2 DEF EndOfFile, Writers
  <2>1. BashType'
    BY DEF BashType, Streams, Stream
  <2>2. Stages' /\ OutcomeInv' /\ ResultInv'
    BY DEF Stages, OutcomeInv, ResultInv, Streams, Joinable, Truncate,
       Reported
  <2>3. Accounted'
    BY DEF Accounted, BashType, Streams, Stream
  <2> QED BY <2>1, <2>2, <2>3
<1>3. CASE Write(s)
  <2> USE <1>3 DEF Write, Writers, Open
  <2>1. BashType'
    BY DEF BashType, Streams, Stream
  <2>2. OutcomeInv' /\ ResultInv'
    BY DEF OutcomeInv, ResultInv, Joinable, Streams, Truncate, Reported
  <2>3. Accounted'
    BY DEF Accounted, BashType, Streams, Stream
  <2>4. Stages'
    BY DEF Stages, BashType, Streams, Joinable, Stream
  <2> QED BY <2>1, <2>2, <2>3, <2>4
<1>4. CASE ReadFails(s)
  <2> USE <1>4 DEF ReadFails
  <2>1. BashType'
    <3>1. \A t \in Stream :
              [t EXCEPT !.reader = "done", !.pipe = 0, !.failed = TRUE]
                  \in Stream
      BY Zenon, 0 \in Nat DEF Stream
    <3>2. streams' \in [Streams -> Stream] BY <3>1 DEF BashType
    <3> QED BY <3>2 DEF BashType
  <2>2. Stages' /\ OutcomeInv' /\ ResultInv'
    BY DEF Stages, OutcomeInv, ResultInv, BashType, Streams, Joinable,
       Truncate, Reported, Stream
  <2>3. Accounted'
    BY DEF Accounted, BashType, Streams, Stream
  <2> QED BY <2>1, <2>2, <2>3
<1> QED BY <1>1, <1>2, <1>3, <1>4

\* The command's processes, the user and the clock keep the invariant.
LEMMA WorldStep ==
    ASSUME IInv, Fork \/ Exit \/ ChildrenEnd \/ Cancel \/ Deadline
    PROVE  IInv'
<1> USE DEF IInv
<1>1. CASE Fork
  <2> USE <1>1 DEF Fork
  <2>1. BashType'
    BY DEF BashType, Streams, Stream
  <2>2. Accounted' /\ Stages' /\ OutcomeInv' /\ ResultInv'
    BY DEF Accounted, Stages, OutcomeInv, ResultInv, Streams, Joinable,
       Truncate, Reported
  <2> QED BY <2>1, <2>2
<1>2. CASE Exit
  <2> USE <1>2 DEF Exit
  <2>1. BashType'
    BY DEF BashType, Streams, Stream
  <2>2. Accounted' /\ Stages' /\ OutcomeInv' /\ ResultInv'
    BY DEF Accounted, Stages, OutcomeInv, ResultInv, Streams, Joinable,
       Truncate, Reported
  <2> QED BY <2>1, <2>2
<1>3. CASE ChildrenEnd
  <2> USE <1>3 DEF ChildrenEnd
  <2>1. BashType'
    <3>1. children' \in BOOLEAN BY Zenon
    <3> QED BY <3>1 DEF BashType
  <2>2. Accounted' /\ Stages' /\ OutcomeInv' /\ ResultInv'
    BY DEF Accounted, Stages, OutcomeInv, ResultInv, Streams, Joinable,
       Truncate, Reported
  <2> QED BY <2>1, <2>2
<1>4. CASE Cancel
  <2> USE <1>4 DEF Cancel
  <2>1. BashType'
    BY DEF BashType, Streams, Stream
  <2>2. Accounted' /\ Stages' /\ OutcomeInv' /\ ResultInv'
    BY DEF Accounted, Stages, OutcomeInv, ResultInv, Streams, Joinable,
       Truncate, Reported
  <2> QED BY <2>1, <2>2
<1>5. CASE Deadline
  <2> USE <1>5 DEF Deadline
  <2>1. BashType'
    BY DEF BashType, Streams, Stream
  <2>2. Accounted' /\ Stages' /\ OutcomeInv' /\ ResultInv'
    BY DEF Accounted, Stages, OutcomeInv, ResultInv, Streams, Joinable,
       Truncate, Reported
  <2> QED BY <2>1, <2>2
<1> QED BY <1>1, <1>2, <1>3, <1>4, <1>5

----------------------------------------------------------------------------
(* The invariant holds, and with it what the tool promises. *)

\* Before the tool starts there is nothing to be left.
LEMMA InitEstablishes == Init => IInv
<1> SUFFICES ASSUME Init PROVE IInv OBVIOUS
<1>1. BashType BY DEF Init, BashType, Stream, Returned
<1>2. Accounted BY DEF Init, Accounted
<1>3. Stages BY DEF Init, Stages
<1>4. OutcomeInv /\ ResultInv BY DEF Init, OutcomeInv, ResultInv, Returned
<1> QED BY <1>1, <1>2, <1>3, <1>4 DEF IInv

\* Nothing happens, nothing breaks.
LEMMA StutterKeeps == IInv /\ UNCHANGED vars => IInv'
BY DEF vars, IInv, BashType, Accounted, Stages, OutcomeInv, ResultInv,
   Joinable, Reported

\* The inductive invariant of a run of the bash tool.
THEOREM Invariance == Spec => []IInv
<1>1. Init => IInv BY InitEstablishes
<1>2. IInv /\ [Next]_vars => IInv'
  BY ToolStep, StreamStep, WorldStep, StutterKeeps DEF Next
<1> QED BY <1>1, <1>2, PTL DEF Spec

\* No buffer of the host outgrows its bound, a success shows all that the
\* command wrote up to the cap and the backend flags every cut, unless a read
\* failed, and a cancel before the last look wins: for every interleaving of
\* the command, the readers, the user and the tool's thread.
THEOREM OutputTrue == Spec => []OutputIsTrue
<1>1. IInv => OutputIsTrue
  <2> SUFFICES ASSUME IInv PROVE OutputIsTrue OBVIOUS
  <2>1. \A s \in Streams : streams[s].buffer <= Cap + 1
    BY DEF IInv, Accounted
  <2>2. BackendFlagsCuts BY DEF IInv, OutcomeInv, BackendFlagsCuts
  <2>3. SuccessIsWhole
    <3>1. ASSUME result.kind = "success"
          PROVE  /\ run = "exited" /\ status = 0
                 /\ result.output = Reported
                 /\ \A s \in Streams :
                        \/ streams[s].failed
                        \/ outcome.output[s] = Truncate(streams[s].written)
      BY <3>1 DEF IInv, OutcomeInv, ResultInv
    <3>2. ASSUME result.kind = "success", NEW s \in Streams,
                 ~streams[s].failed
          PROVE  result.output[s].length = Truncate(streams[s].written).length
      <4>1. result.output[s] = Truncate(Truncate(streams[s].written).length)
        BY <3>1, <3>2 DEF Reported
      <4>2. streams[s].written \in Nat BY DEF IInv, BashType, Stream
      <4> QED BY <4>1, <4>2, BashAssumption DEF Truncate
    <3> QED BY <3>1, <3>2 DEF SuccessIsWhole
  <2>4. CancelWins BY DEF IInv, ResultInv
  <2> QED BY <2>1, <2>2, <2>3, <2>4 DEF OutputIsTrue
<1> QED BY <1>1, Invariance, PTL

\* However a run ends, when the tool answers the supervisor is reaped, the
\* settings file is gone or could not be removed, and no thread still reads,
\* but for a failed wait; and a command at a full pipe always has a reader.
THEOREM NothingIsLeft == Spec => []NothingLeft
<1>1. IInv => NothingLeft
  <2> SUFFICES ASSUME IInv PROVE NothingLeft OBVIOUS
  <2>1. NeverWedged BY DEF IInv, BashType, Stream, Accounted, NeverWedged
  <2>2. ASSUME pc = "done", result.kind # "fault"
        PROVE  /\ supervisor \in {"none", "reaped"} /\ settings # "written"
               /\ \A s \in Streams : streams[s].reader # "reading"
    BY <2>2 DEF IInv, Stages, ResultInv, Joinable
  <2> QED BY <2>1, <2>2 DEF NothingLeft
<1> QED BY <1>1, Invariance, PTL
=============================================================================
