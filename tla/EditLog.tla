------------------------------ MODULE EditLog ------------------------------
(***************************************************************************)
(* What the checkpoints of a workspace promise, without files, staging or  *)
(* crashes: every change that Siralos makes to a file is an edit that was  *)
(* recorded before it was made, or a restore of what such an edit          *)
(* replaced.  Anybody else may change the file at any time.                *)
(*                                                                         *)
(* `raced` holds the edits and restores during whose last instant, between *)
(* the comparison and the rename, somebody else changed the file: the      *)
(* platform has no rename that compares, so those alone may overwrite.     *)
(***************************************************************************)
CONSTANTS Ids, Files

VARIABLES
    file,     \* the content of the file
    by,       \* who changed it last
    entry,    \* the records
    raced     \* the edits and restores that were raced

logVars == <<file, by, entry, raced>>

Free == [st |-> "free"]

Entry(st, before, after) == [st |-> st, before |-> before, after |-> after]

Is(id, states) == entry[id].st \in states

MoveTo(id, st) ==
    entry' = [entry EXCEPT ![id] = Entry(st, @.before, @.after)]

LogInit ==
    /\ file \in Files /\ by = "foreign"
    /\ entry = [id \in Ids |-> Free]
    /\ raced = {}

\* The intent to replace `before` by `after` is recorded.
Prepare(id) ==
    /\ Is(id, {"free"})
    /\ \E before, after \in Files :
           entry' = [entry EXCEPT ![id] = Entry("prepared", before, after)]
    /\ UNCHANGED <<file, by, raced>>

\* The edit is made: it replaces exactly what its record says.
Edit(id) ==
    /\ Is(id, {"prepared"})
    /\ file = entry[id].before \/ id \in raced
    /\ file' = entry[id].after /\ by' = "siralos"
    /\ MoveTo(id, "edited")
    /\ raced \subseteq raced'

\* The record gets a final state, whether the edit was made or not.
Resolve(id) ==
    /\ Is(id, {"prepared", "edited"})
    /\ MoveTo(id, "resolved")
    /\ UNCHANGED <<file, by, raced>>

\* A restore puts back exactly what the record says the edit replaced, and
\* only over what the edit wrote.
Restore(id) ==
    /\ Is(id, {"resolved", "gone"})
    /\ file = entry[id].after \/ id \in raced
    /\ file' = entry[id].before /\ by' = "siralos"
    /\ raced \subseteq raced'
    /\ UNCHANGED entry

\* Only a record with a final state is ever dropped.
Forget(id) ==
    /\ Is(id, {"resolved"})
    /\ MoveTo(id, "gone")
    /\ UNCHANGED <<file, by, raced>>

Foreign ==
    /\ file' \in Files /\ by' = "foreign"
    /\ raced' \subseteq Ids /\ raced \subseteq raced'
    /\ UNCHANGED entry

LogNext ==
    \/ \E id \in Ids : \/ Prepare(id) \/ Edit(id) \/ Resolve(id)
                       \/ Restore(id) \/ Forget(id)
    \/ Foreign

LogSpec == LogInit /\ [][LogNext]_logVars
=============================================================================
