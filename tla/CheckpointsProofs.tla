------------------------- MODULE CheckpointsProofs -------------------------
(***************************************************************************)
(* Proofs about Checkpoints, for every set of contents, every number of    *)
(* records and of crashes, and every capacity: what an edit replaced is    *)
(* kept, records tell the truth, and the store implements EditLog.         *)
(***************************************************************************)
EXTENDS Checkpoints, TLAPS

----------------------------------------------------------------------------
(* The inductive invariant, in parts. *)

\* While a record is drawn up it is none yet.
DraftInv ==
    /\ Drafting \/ tpc = "cleanup" =>
           tid \in Ids \ born /\ tid <= minted
    /\ tpc \in {"preStage", "preCommit", "metaStage", "metaCommit"} =>
           tid \in dirs
    /\ tpc \in {"metaStage", "metaCommit"} => pre[tid] = plan[tid].before
    /\ tpc \in {"capacity", "evict", "mkdir", "preStage", "preCommit"} =>
           pre[tid] = Absent

\* Records are made in the order of their ids, edits only after them.
BornInv ==
    /\ \A id \in born : id <= minted
    /\ made \subseteq born /\ doomed \subseteq born
    /\ \A id \in Ids : meta[id] # "none" => id \in born
    /\ \A id \in Ids : id > minted => pre[id] = Absent
    /\ \A id \in Ids : id <= minted => plan[id].after # Absent

\* What eviction deletes is doomed, what the clean-up deletes was never born.
RemovalInv ==
    /\ todo \subseteq born
    /\ tpc = "evict" => todo \subseteq doomed

\* A record that was born is complete until it is evicted.
KeptInv ==
    \A id \in born \ doomed :
        /\ id \in dirs /\ meta[id] # "none"
        /\ pre[id] = plan[id].before

\* Where the tool is between the record and its marking.
EditInv ==
    /\ tpc \in {"check", "rename", "verify"} =>
           tid \in born \ doomed /\ meta[tid] = "prepared"
    /\ tpc \in {"check", "rename"} => tid \notin made
    /\ tpc = "verify" => tid \in made
    /\ tpc \in {"mark", "markCommit"} => tid \in born

\* The marks the tool may be about to make.
MarkInv ==
    /\ target \in {"applied", "abandoned", "uncertain", "undone"}
    /\ tpc \in {"mark", "markCommit"} /\ tid \notin disturbed \cup doomed =>
           /\ target \in {"applied", "undone"} => tid \in made
           /\ target = "abandoned" =>
                  \/ tid \notin made \/ plan[tid].before = plan[tid].after
                  \/ tid \in misread /\ plan[tid].before = Absent
           /\ target = "uncertain" => tid \in misread

\* The file of an undisturbed record that is prepared or being drawn up.
FileInv ==
    /\ \A id \in born \ (disturbed \cup doomed) :
           meta[id] = "prepared" =>
               file = IF id \in made THEN plan[id].after ELSE plan[id].before
    /\ Drafting /\ tid \notin disturbed => file = plan[tid].before

\* The record an undo works on was marked applied.
UndoInv ==
    upc \notin {"idle", "down"} =>
        /\ uid \in born
        /\ meta[uid] # "prepared"
        /\ uid \in made \cup disturbed \cup doomed

\* Between the comparison and the rename only a race changes the file.
RaceInv ==
    /\ tpc = "rename" => file = plan[tid].before \/ tid \in raced
    /\ upc = "rename" => file = plan[uid].after \/ uid \in raced

IInv ==
    /\ TypeOK /\ DraftInv /\ BornInv /\ RemovalInv /\ KeptInv /\ EditInv
    /\ MarkInv /\ FileInv /\ ClassifiedTruly /\ UndoInv /\ RaceInv

----------------------------------------------------------------------------
(* Every action keeps the invariant. *)

USE CheckpointsAssumption
USE DEF Ids, NoId, Files, Procs, Owners, States
USE DEF storeVars, toolVars, undoVars, budget, history

\* Drawing up a record keeps the invariant: the capacity is made, the
\* preimage and the metadata are committed, or what was begun is removed.
LEMMA CreatingStep == IInv /\ Creating => IInv'
<1> SUFFICES ASSUME IInv, Creating PROVE IInv' OBVIOUS
<1> USE DEF IInv
<1>1. CASE Begin
  <2> USE <1>1 DEF Begin, ToolAt
  <2>1. TypeOK'
    BY DEF TypeOK
  <2>2. RemovalInv' /\ EditInv' /\ MarkInv' /\ UndoInv'
    BY DEF RemovalInv, EditInv, MarkInv, UndoInv
  <2>3. DraftInv'
    BY DEF DraftInv, TypeOK, BornInv, Drafting
  <2>4. BornInv'
    BY DEF BornInv, TypeOK
  <2>5. KeptInv'
    BY DEF KeptInv, TypeOK, BornInv
  <2>6. FileInv'
    BY DEF FileInv, TypeOK, BornInv, Drafting
  <2>7. ClassifiedTruly'
    BY DEF ClassifiedTruly, TypeOK, BornInv
  <2>8. RaceInv'
    BY DEF RaceInv, TypeOK, EditInv, UndoInv, BornInv
  <2> QED BY <2>1, <2>2, <2>3, <2>4, <2>5, <2>6, <2>7, <2>8
<1>2. CASE CapacityUnknown
  <2> USE <1>2 DEF CapacityUnknown, ToolAt, Fault
  <2>1. TypeOK'
    <3>1. foreign' \in 0 .. MaxForeign /\ faults' \in 0 .. MaxFaults
      BY CheckpointsAssumption DEF TypeOK
    <3> QED BY <3>1 DEF TypeOK
  <2>2. /\ DraftInv' /\ BornInv' /\ RemovalInv' /\ KeptInv' /\ EditInv'
        /\ MarkInv' /\ FileInv' /\ ClassifiedTruly' /\ UndoInv' /\ RaceInv'
    BY DEF DraftInv, BornInv, RemovalInv, KeptInv, EditInv, MarkInv, FileInv,
       ClassifiedTruly, UndoInv, RaceInv, Drafting
  <2> QED BY <2>1, <2>2
<1>3. CASE CapacityFree
  <2> USE <1>3 DEF CapacityFree, ToolAt
  <2>1. TypeOK'
    BY DEF TypeOK
  <2>2. /\ DraftInv' /\ BornInv' /\ RemovalInv' /\ KeptInv' /\ EditInv'
        /\ MarkInv' /\ FileInv' /\ ClassifiedTruly' /\ UndoInv' /\ RaceInv'
    BY DEF DraftInv, BornInv, RemovalInv, KeptInv, EditInv, MarkInv, FileInv,
       ClassifiedTruly, UndoInv, RaceInv, Drafting
  <2> QED BY <2>1, <2>2
<1>4. CASE CapacityPrune
  <2> USE <1>4 DEF CapacityPrune, ToolAt, OldestEvictable, Evictable, Rank
  <2>1. TypeOK'
    BY DEF TypeOK
  <2>2. DraftInv' /\ BornInv' /\ KeptInv' /\ EditInv' /\ MarkInv' /\ FileInv'
     /\ ClassifiedTruly' /\ UndoInv' /\ RaceInv'
    BY DEF DraftInv, BornInv, KeptInv, EditInv, MarkInv, FileInv,
       ClassifiedTruly, UndoInv, RaceInv, Drafting
  <2>3. RemovalInv'
    BY DEF RemovalInv, BornInv
  <2> QED BY <2>1, <2>2, <2>3
<1>5. CASE CapacityExceeded
  <2> USE <1>5 DEF CapacityExceeded, ToolAt, Evictable
  <2>1. TypeOK'
    BY DEF TypeOK
  <2>2. /\ DraftInv' /\ BornInv' /\ RemovalInv' /\ KeptInv' /\ EditInv'
        /\ MarkInv' /\ FileInv' /\ ClassifiedTruly' /\ UndoInv' /\ RaceInv'
    BY DEF DraftInv, BornInv, RemovalInv, KeptInv, EditInv, MarkInv, FileInv,
       ClassifiedTruly, UndoInv, RaceInv, Drafting
  <2> QED BY <2>1, <2>2
<1>6. CASE RemoveEntry
  <2> USE <1>6 DEF RemoveEntry, Removed
  <2>1. TypeOK'
    <3>1. meta' \in [Ids -> States \cup {"none"}]
      BY DEF TypeOK
    <3>2. pre' \in [Ids -> Files]
      BY DEF TypeOK
    <3>3. tmp' \in [Ids -> SUBSET Owners]
      BY DEF TypeOK
    <3> QED BY <3>1, <3>2, <3>3 DEF TypeOK
  <2>2. RemovalInv' /\ EditInv' /\ MarkInv' /\ RaceInv'
    BY DEF RemovalInv, EditInv, MarkInv, RaceInv
  <2>3. DraftInv'
    BY DEF DraftInv, TypeOK, Drafting
  <2>4. BornInv'
    BY DEF BornInv, TypeOK
  <2>5. KeptInv'
    <3>1. \A id \in born \ doomed : meta'[id] = meta[id] /\ pre'[id] = pre[id]
      BY DEF TypeOK, DraftInv, RemovalInv, Drafting
    <3> QED BY <3>1 DEF KeptInv
  <2>6. FileInv'
    BY DEF FileInv, TypeOK, Drafting
  <2>7. ClassifiedTruly'
    <3>1. \A id \in born \ doomed : meta'[id] = meta[id]
      BY DEF TypeOK, DraftInv, RemovalInv, Drafting
    <3> QED BY <3>1 DEF ClassifiedTruly
  <2>8. UndoInv'
    BY DEF UndoInv, TypeOK
  <2> QED BY <2>1, <2>2, <2>3, <2>4, <2>5, <2>6, <2>7, <2>8
<1>7. CASE RemoveDirectory
  <2> USE <1>7 DEF RemoveDirectory, Removed
  <2>1. TypeOK'
    BY DEF TypeOK
  <2>2. /\ DraftInv' /\ BornInv' /\ RemovalInv' /\ KeptInv' /\ EditInv'
        /\ MarkInv' /\ FileInv' /\ ClassifiedTruly' /\ UndoInv' /\ RaceInv'
    BY DEF DraftInv, BornInv, RemovalInv, KeptInv, EditInv, MarkInv, FileInv,
       ClassifiedTruly, UndoInv, RaceInv, Drafting
  <2> QED BY <2>1, <2>2
<1>8. CASE RemoveFails
  <2> USE <1>8 DEF RemoveFails
  <2>1. TypeOK'
    BY DEF TypeOK
  <2>2. /\ DraftInv' /\ BornInv' /\ RemovalInv' /\ KeptInv' /\ EditInv'
        /\ MarkInv' /\ FileInv' /\ ClassifiedTruly' /\ UndoInv' /\ RaceInv'
    BY DEF DraftInv, BornInv, RemovalInv, KeptInv, EditInv, MarkInv, FileInv,
       ClassifiedTruly, UndoInv, RaceInv, Drafting
  <2> QED BY <2>1, <2>2
<1>9. CASE MakeDirectory
  <2> USE <1>9 DEF MakeDirectory
  <2>1. TypeOK'
    BY DEF TypeOK, DraftInv, Drafting
  <2>2. /\ DraftInv' /\ BornInv' /\ RemovalInv' /\ KeptInv' /\ EditInv'
        /\ MarkInv' /\ FileInv' /\ ClassifiedTruly' /\ UndoInv' /\ RaceInv'
    BY DEF DraftInv, BornInv, RemovalInv, KeptInv, EditInv, MarkInv, FileInv,
       ClassifiedTruly, UndoInv, RaceInv, Drafting
  <2> QED BY <2>1, <2>2
<1>10. CASE StageRecordFile
  <2> USE <1>10 DEF StageRecordFile, ToolAt, Stage
  <2>1. TypeOK'
    <3>1. tid \in Ids
      BY DEF DraftInv, Drafting, TypeOK
    <3>2. tmp' \in [Ids -> SUBSET Owners]
      BY <3>1 DEF TypeOK
    <3> QED BY <3>1, <3>2 DEF TypeOK
  <2>2. /\ DraftInv' /\ BornInv' /\ RemovalInv' /\ KeptInv' /\ EditInv'
        /\ MarkInv' /\ FileInv' /\ ClassifiedTruly' /\ UndoInv' /\ RaceInv'
    BY DEF DraftInv, BornInv, RemovalInv, KeptInv, EditInv, MarkInv, FileInv,
       ClassifiedTruly, UndoInv, RaceInv, Drafting
  <2> QED BY <2>1, <2>2
<1>11. CASE CommitPreimage
  <2> USE <1>11 DEF CommitPreimage, ToolAt, Unstage
  <2>1. TypeOK'
    <3>1. tid \in Ids
      BY DEF DraftInv, Drafting, TypeOK
    <3>2. tmp' \in [Ids -> SUBSET Owners]
      BY <3>1 DEF TypeOK
    <3>3. pre' \in [Ids -> Files]
      BY <3>1 DEF TypeOK
    <3> QED BY <3>1, <3>2, <3>3 DEF TypeOK
  <2>2. /\ RemovalInv' /\ KeptInv' /\ EditInv' /\ MarkInv' /\ FileInv'
        /\ ClassifiedTruly' /\ UndoInv' /\ RaceInv'
    BY DEF RemovalInv, KeptInv, EditInv, MarkInv, FileInv, ClassifiedTruly,
       UndoInv, RaceInv, Drafting
  <2>3. DraftInv'
    BY DEF DraftInv, TypeOK, Drafting
  <2>4. BornInv'
    BY DEF BornInv, TypeOK, DraftInv, Drafting
  <2> QED BY <2>1, <2>2, <2>3, <2>4
<1>12. CASE CommitMetadata
  <2> USE <1>12 DEF CommitMetadata, ToolAt, Unstage
  <2>1. TypeOK'
    <3>1. tid \in Ids
      BY DEF DraftInv, Drafting, TypeOK
    <3>2. tmp' \in [Ids -> SUBSET Owners]
      BY <3>1 DEF TypeOK
    <3>3. meta' \in [Ids -> States \cup {"none"}]
      BY <3>1 DEF TypeOK
    <3> QED BY <3>1, <3>2, <3>3 DEF TypeOK
  <2>2. DraftInv' /\ RemovalInv' /\ MarkInv' /\ RaceInv'
    BY DEF DraftInv, RemovalInv, MarkInv, RaceInv, Drafting
  <2>3. BornInv'
    BY DEF BornInv, DraftInv, Drafting
  <2>4. KeptInv'
    BY DEF KeptInv, TypeOK, DraftInv, Drafting
  <2>5. EditInv'
    BY DEF EditInv, TypeOK, DraftInv, BornInv, Drafting
  <2>6. FileInv'
    BY DEF FileInv, DraftInv, BornInv, Drafting
  <2>7. ClassifiedTruly'
    BY DEF ClassifiedTruly, DraftInv, BornInv, Drafting
  <2>8. UndoInv'
    BY DEF UndoInv, DraftInv, Drafting
  <2> QED BY <2>1, <2>2, <2>3, <2>4, <2>5, <2>6, <2>7, <2>8
<1>13. CASE CreationFails
  <2> USE <1>13 DEF CreationFails, Fault
  <2>1. TypeOK'
    <3>1. tid \in Ids
      BY DEF DraftInv, Drafting, TypeOK
    <3>2. tmp' \in [Ids -> SUBSET Owners]
      BY <3>1 DEF TypeOK
    <3>3. faults' \in 0 .. MaxFaults
      BY DEF TypeOK
    <3> QED BY <3>1, <3>2, <3>3 DEF TypeOK
  <2>2. /\ DraftInv' /\ BornInv' /\ RemovalInv' /\ KeptInv' /\ EditInv'
        /\ MarkInv' /\ FileInv' /\ ClassifiedTruly' /\ UndoInv' /\ RaceInv'
    BY DEF DraftInv, BornInv, RemovalInv, KeptInv, EditInv, MarkInv, FileInv,
       ClassifiedTruly, UndoInv, RaceInv, Drafting
  <2> QED BY <2>1, <2>2
<1> QED BY <1>1, <1>2, <1>3, <1>4, <1>5, <1>6, <1>7, <1>8, <1>9, <1>10, <1>11,
   <1>12, <1>13 DEF Creating

\* The replacement of the file and the marking of its record keep the
\* invariant.
LEMMA MutatingStep == IInv /\ Mutating => IInv'
<1> SUFFICES ASSUME IInv, Mutating PROVE IInv' OBVIOUS
<1> USE DEF IInv
<1>1. CASE TargetFails
  <2> USE <1>1 DEF TargetFails, Fault, MarkAndReturn
  <2>1. TypeOK'
    <3>1. foreign' \in 0 .. MaxForeign /\ faults' \in 0 .. MaxFaults
      BY CheckpointsAssumption DEF TypeOK
    <3> QED BY <3>1 DEF TypeOK
  <2>2. /\ DraftInv' /\ BornInv' /\ RemovalInv' /\ KeptInv' /\ EditInv'
        /\ FileInv' /\ ClassifiedTruly' /\ UndoInv' /\ RaceInv'
    BY DEF DraftInv, BornInv, RemovalInv, KeptInv, EditInv, FileInv,
       ClassifiedTruly, UndoInv, RaceInv, Drafting
  <2>3. MarkInv'
    BY DEF MarkInv, EditInv
  <2> QED BY <2>1, <2>2, <2>3
<1>2. CASE CheckOk
  <2> USE <1>2 DEF CheckOk, ToolAt, StillThere
  <2>1. TypeOK'
    BY DEF TypeOK
  <2>2. /\ DraftInv' /\ BornInv' /\ RemovalInv' /\ KeptInv' /\ EditInv'
        /\ MarkInv' /\ FileInv' /\ ClassifiedTruly' /\ UndoInv' /\ RaceInv'
    BY DEF DraftInv, BornInv, RemovalInv, KeptInv, EditInv, MarkInv, FileInv,
       ClassifiedTruly, UndoInv, RaceInv, Drafting
  <2> QED BY <2>1, <2>2
<1>3. CASE CheckConflict
  <2> USE <1>3 DEF CheckConflict, StillThere, MarkAndReturn
  <2>1. TypeOK'
    BY DEF TypeOK
  <2>2. /\ DraftInv' /\ BornInv' /\ RemovalInv' /\ KeptInv' /\ EditInv'
        /\ FileInv' /\ ClassifiedTruly' /\ UndoInv' /\ RaceInv'
    BY DEF DraftInv, BornInv, RemovalInv, KeptInv, EditInv, FileInv,
       ClassifiedTruly, UndoInv, RaceInv, Drafting
  <2>3. MarkInv'
    BY DEF MarkInv, EditInv
  <2> QED BY <2>1, <2>2, <2>3
<1>4. CASE RenameTarget
  <2> USE <1>4 DEF RenameTarget, ToolAt, PreparedBut, Drafting
  <2>1. TypeOK'
    <3>1. tid \in Ids
      BY DEF EditInv, TypeOK
    <3>2. file' \in Files
      BY <3>1 DEF TypeOK
    <3>3. raced' \subseteq Ids
      BY DEF TypeOK, UndoInv
    <3>4. disturbed' \subseteq Ids
      BY DEF TypeOK
    <3> QED BY <3>1, <3>2, <3>3, <3>4 DEF TypeOK
  <2>2. /\ DraftInv' /\ RemovalInv' /\ KeptInv' /\ EditInv' /\ MarkInv'
        /\ UndoInv' /\ RaceInv'
    BY DEF DraftInv, RemovalInv, KeptInv, EditInv, MarkInv, UndoInv, RaceInv
  <2>3. BornInv'
    BY DEF BornInv, EditInv
  <2>4. FileInv'
    BY DEF FileInv, TypeOK
  <2>5. ClassifiedTruly'
    BY DEF ClassifiedTruly, EditInv
  <2> QED BY <2>1, <2>2, <2>3, <2>4, <2>5
<1>5. CASE VerifyOk
  <2> USE <1>5 DEF VerifyOk, MarkAndReturn
  <2>1. TypeOK'
    BY DEF TypeOK
  <2>2. /\ DraftInv' /\ BornInv' /\ RemovalInv' /\ KeptInv' /\ EditInv'
        /\ FileInv' /\ ClassifiedTruly' /\ UndoInv' /\ RaceInv'
    BY DEF DraftInv, BornInv, RemovalInv, KeptInv, EditInv, FileInv,
       ClassifiedTruly, UndoInv, RaceInv, Drafting
  <2>3. MarkInv'
    BY DEF MarkInv, EditInv
  <2> QED BY <2>1, <2>2, <2>3
<1>6. CASE VerifyFails
  <2> USE <1>6 DEF VerifyFails, ToolAt, Fault
  <2>1. TypeOK'
    <3>1. foreign' \in 0 .. MaxForeign /\ faults' \in 0 .. MaxFaults
      BY CheckpointsAssumption DEF TypeOK
    <3> QED BY <3>1 DEF TypeOK
  <2>2. /\ DraftInv' /\ BornInv' /\ RemovalInv' /\ KeptInv' /\ EditInv'
        /\ MarkInv' /\ FileInv' /\ ClassifiedTruly' /\ UndoInv' /\ RaceInv'
    BY DEF DraftInv, BornInv, RemovalInv, KeptInv, EditInv, MarkInv, FileInv,
       ClassifiedTruly, UndoInv, RaceInv, Drafting
  <2> QED BY <2>1, <2>2
<1>7. CASE MarkStage
  <2> USE <1>7 DEF MarkStage, ToolAt, MayBecome, Stage
  <2>1. TypeOK'
    <3>1. tid \in Ids
      BY DEF EditInv, TypeOK
    <3>2. tmp' \in [Ids -> SUBSET Owners]
      BY <3>1 DEF TypeOK
    <3> QED BY <3>1, <3>2 DEF TypeOK
  <2>2. /\ DraftInv' /\ BornInv' /\ RemovalInv' /\ KeptInv' /\ EditInv'
        /\ MarkInv' /\ FileInv' /\ ClassifiedTruly' /\ UndoInv' /\ RaceInv'
    BY DEF DraftInv, BornInv, RemovalInv, KeptInv, EditInv, MarkInv, FileInv,
       ClassifiedTruly, UndoInv, RaceInv, Drafting
  <2> QED BY <2>1, <2>2
<1>8. CASE MarkRefused
  <2> USE <1>8 DEF MarkRefused, ToolAt, MayBecome
  <2>1. TypeOK'
    BY DEF TypeOK
  <2>2. BornInv' /\ KeptInv' /\ MarkInv' /\ ClassifiedTruly' /\ UndoInv'
    BY DEF BornInv, KeptInv, MarkInv, ClassifiedTruly, UndoInv
  <2>3. DraftInv'
    BY DEF DraftInv, TypeOK, Drafting
  <2>4. RemovalInv'
    BY DEF RemovalInv, TypeOK
  <2>5. EditInv'
    BY DEF EditInv, TypeOK
  <2>6. FileInv'
    BY DEF FileInv, TypeOK, Drafting
  <2>7. RaceInv'
    BY DEF RaceInv, TypeOK
  <2> QED BY <2>1, <2>2, <2>3, <2>4, <2>5, <2>6, <2>7
<1>9. CASE MarkCommit
  <2> USE <1>9 DEF MarkCommit, ToolAt, Unstage
  <2>1. TypeOK'
    <3>1. tid \in Ids
      BY DEF EditInv, TypeOK
    <3>2. tmp' \in [Ids -> SUBSET Owners]
      BY <3>1 DEF TypeOK
    <3>3. meta' \in [Ids -> States \cup {"none"}]
      BY <3>1 DEF TypeOK
    <3> QED BY <3>1, <3>2, <3>3 DEF TypeOK
  <2>2. MarkInv'
    BY DEF MarkInv
  <2>3. DraftInv'
    BY DEF DraftInv, TypeOK, Drafting
  <2>4. BornInv'
    BY DEF BornInv, EditInv
  <2>5. RemovalInv'
    BY DEF RemovalInv, TypeOK
  <2>6. KeptInv'
    BY DEF KeptInv, MarkInv
  <2>7. EditInv'
    BY DEF EditInv, TypeOK
  <2>8. FileInv'
    BY DEF FileInv, TypeOK, MarkInv, Drafting
  <2>9. ClassifiedTruly'
    BY DEF ClassifiedTruly, MarkInv
  <2>10. UndoInv'
    BY DEF UndoInv, MarkInv
  <2>11. RaceInv'
    BY DEF RaceInv, TypeOK
  <2> QED BY <2>1, <2>2, <2>3, <2>4, <2>5, <2>6, <2>7, <2>8, <2>9, <2>10, <2>11
<1>10. CASE MarkFails
  <2> USE <1>10 DEF MarkFails, Fault, Unstage
  <2>1. TypeOK'
    <3>1. tid \in Ids
      BY DEF EditInv, TypeOK
    <3>2. tmp' \in [Ids -> SUBSET Owners]
      BY <3>1 DEF TypeOK
    <3>3. faults' \in 0 .. MaxFaults
      BY DEF TypeOK
    <3> QED BY <3>1, <3>2, <3>3 DEF TypeOK
  <2>2. BornInv' /\ KeptInv' /\ MarkInv' /\ ClassifiedTruly' /\ UndoInv'
    BY DEF BornInv, KeptInv, MarkInv, ClassifiedTruly, UndoInv
  <2>3. DraftInv'
    BY DEF DraftInv, TypeOK, Drafting
  <2>4. RemovalInv'
    BY DEF RemovalInv, TypeOK
  <2>5. EditInv'
    BY DEF EditInv, TypeOK
  <2>6. FileInv'
    BY DEF FileInv, TypeOK, Drafting
  <2>7. RaceInv'
    BY DEF RaceInv, TypeOK
  <2> QED BY <2>1, <2>2, <2>3, <2>4, <2>5, <2>6, <2>7
<1> QED BY <1>1, <1>2, <1>3, <1>4, <1>5, <1>6, <1>7, <1>8, <1>9, <1>10 DEF
   Mutating

\* The user's undo keeps the invariant.
LEMMA UndoingStep == IInv /\ Undoing => IInv'
<1> SUFFICES ASSUME IInv, Undoing PROVE IInv' OBVIOUS
<1> USE DEF IInv
<1>1. CASE UndoPlan
  <2> USE <1>1 DEF UndoPlan, UndoAt
  <2>1. TypeOK'
    BY DEF TypeOK
  <2>2. /\ DraftInv' /\ BornInv' /\ RemovalInv' /\ KeptInv' /\ EditInv'
        /\ MarkInv' /\ FileInv' /\ ClassifiedTruly' /\ RaceInv'
    BY DEF DraftInv, BornInv, RemovalInv, KeptInv, EditInv, MarkInv, FileInv,
       ClassifiedTruly, RaceInv, Drafting
  <2>3. UndoInv'
    BY DEF UndoInv, TypeOK, BornInv, ClassifiedTruly
  <2> QED BY <2>1, <2>2, <2>3
<1>2. CASE UndoPreimage
  <2> USE <1>2 DEF UndoPreimage
  <2>1. TypeOK'
    BY DEF TypeOK
  <2>2. /\ DraftInv' /\ BornInv' /\ RemovalInv' /\ KeptInv' /\ EditInv'
        /\ MarkInv' /\ FileInv' /\ ClassifiedTruly' /\ UndoInv' /\ RaceInv'
    BY DEF DraftInv, BornInv, RemovalInv, KeptInv, EditInv, MarkInv, FileInv,
       ClassifiedTruly, UndoInv, RaceInv, Drafting
  <2> QED BY <2>1, <2>2
<1>3. CASE UndoCheck
  <2> USE <1>3 DEF UndoCheck, StillThere
  <2>1. TypeOK'
    BY DEF TypeOK
  <2>2. /\ DraftInv' /\ BornInv' /\ RemovalInv' /\ KeptInv' /\ EditInv'
        /\ MarkInv' /\ FileInv' /\ ClassifiedTruly' /\ UndoInv' /\ RaceInv'
    BY DEF DraftInv, BornInv, RemovalInv, KeptInv, EditInv, MarkInv, FileInv,
       ClassifiedTruly, UndoInv, RaceInv, Drafting
  <2> QED BY <2>1, <2>2
<1>4. CASE UndoRename
  <2> USE <1>4 DEF UndoRename, UndoAt, PreparedBut, Drafting
  <2>1. TypeOK'
    <3>1. uid \in Ids
      BY DEF UndoInv, TypeOK
    <3>2. file' \in Files
      BY <3>1 DEF TypeOK
    <3>3. raced' \subseteq Ids
      BY DEF TypeOK, EditInv
    <3>4. disturbed' \subseteq Ids
      BY DEF TypeOK
    <3> QED BY <3>1, <3>2, <3>3, <3>4 DEF TypeOK
  <2>2. /\ DraftInv' /\ BornInv' /\ RemovalInv' /\ KeptInv' /\ EditInv'
        /\ MarkInv' /\ ClassifiedTruly' /\ UndoInv' /\ RaceInv'
    BY DEF DraftInv, BornInv, RemovalInv, KeptInv, EditInv, MarkInv,
       ClassifiedTruly, UndoInv, RaceInv
  <2>3. FileInv'
    BY DEF FileInv, TypeOK, DraftInv
  <2> QED BY <2>1, <2>2, <2>3
<1>5. CASE UndoVerify
  <2> USE <1>5 DEF UndoVerify
  <2>1. TypeOK'
    BY DEF TypeOK
  <2>2. /\ DraftInv' /\ BornInv' /\ RemovalInv' /\ KeptInv' /\ EditInv'
        /\ MarkInv' /\ FileInv' /\ ClassifiedTruly' /\ UndoInv' /\ RaceInv'
    BY DEF DraftInv, BornInv, RemovalInv, KeptInv, EditInv, MarkInv, FileInv,
       ClassifiedTruly, UndoInv, RaceInv, Drafting
  <2> QED BY <2>1, <2>2
<1>6. CASE UndoMark
  <2> USE <1>6 DEF UndoMark, MayBecome, Stage
  <2>1. TypeOK'
    <3>1. uid \in Ids
      BY DEF UndoInv, TypeOK
    <3>2. tmp' \in [Ids -> SUBSET Owners]
      BY <3>1 DEF TypeOK
    <3> QED BY <3>1, <3>2 DEF TypeOK
  <2>2. /\ DraftInv' /\ BornInv' /\ RemovalInv' /\ KeptInv' /\ EditInv'
        /\ MarkInv' /\ FileInv' /\ ClassifiedTruly' /\ UndoInv' /\ RaceInv'
    BY DEF DraftInv, BornInv, RemovalInv, KeptInv, EditInv, MarkInv, FileInv,
       ClassifiedTruly, UndoInv, RaceInv, Drafting
  <2> QED BY <2>1, <2>2
<1>7. CASE UndoMarkCommit
  <2> USE <1>7 DEF UndoMarkCommit, UndoAt, Unstage
  <2>1. TypeOK'
    <3>1. uid \in Ids
      BY DEF UndoInv, TypeOK
    <3>2. tmp' \in [Ids -> SUBSET Owners]
      BY <3>1 DEF TypeOK
    <3>3. meta' \in [Ids -> States \cup {"none"}]
      BY <3>1 DEF TypeOK
    <3>4. /\ upc' = "idle"
          /\ UNCHANGED <<file, dirs, pre, toolVars, uid, budget, history>>
      BY DEF UndoAt
    <3> HIDE <1>7
    <3> QED BY <3>1, <3>2, <3>3, <3>4 DEF TypeOK
  <2>2. DraftInv' /\ RemovalInv' /\ MarkInv' /\ UndoInv' /\ RaceInv'
    BY DEF DraftInv, RemovalInv, MarkInv, UndoInv, RaceInv, Drafting
  <2>3. BornInv'
    BY DEF BornInv, TypeOK, UndoInv
  <2>4. KeptInv'
    BY DEF KeptInv, TypeOK
  <2>5. EditInv'
    BY DEF EditInv, TypeOK, UndoInv
  <2>6. FileInv'
    BY DEF FileInv, TypeOK, Drafting
  <2>7. ClassifiedTruly'
    BY DEF ClassifiedTruly, TypeOK, UndoInv
  <2> QED BY <2>1, <2>2, <2>3, <2>4, <2>5, <2>6, <2>7
<1>8. CASE UndoFails
  <2> USE <1>8 DEF UndoFails, Fault, Unstage
  <2>1. TypeOK'
    <3>1. uid \in Ids
      BY DEF UndoInv, TypeOK
    <3>2. tmp' \in [Ids -> SUBSET Owners]
      BY <3>1 DEF TypeOK
    <3>3. faults' \in 0 .. MaxFaults
      BY DEF TypeOK
    <3> QED BY <3>1, <3>2, <3>3 DEF TypeOK
  <2>2. /\ DraftInv' /\ BornInv' /\ RemovalInv' /\ KeptInv' /\ EditInv'
        /\ MarkInv' /\ FileInv' /\ ClassifiedTruly' /\ UndoInv' /\ RaceInv'
    BY DEF DraftInv, BornInv, RemovalInv, KeptInv, EditInv, MarkInv, FileInv,
       ClassifiedTruly, UndoInv, RaceInv, Drafting
  <2> QED BY <2>1, <2>2
<1> QED BY <1>1, <1>2, <1>3, <1>4, <1>5, <1>6, <1>7, <1>8 DEF Undoing

\* The next start and its reconciliation keep the invariant.
LEMMA RecoveringStep == IInv /\ Recovering => IInv'
<1> SUFFICES ASSUME IInv, Recovering PROVE IInv' OBVIOUS
<1> USE DEF IInv
<1>1. CASE Restart
  <2> USE <1>1 DEF Restart, Pending
  <2>1. TypeOK'
    BY DEF TypeOK
  <2>2. DraftInv' /\ BornInv' /\ KeptInv' /\ EditInv' /\ MarkInv' /\ FileInv'
     /\ ClassifiedTruly' /\ UndoInv' /\ RaceInv'
    BY DEF DraftInv, BornInv, KeptInv, EditInv, MarkInv, FileInv,
       ClassifiedTruly, UndoInv, RaceInv, Drafting
  <2>3. RemovalInv'
    BY DEF RemovalInv, BornInv, TypeOK
  <2> QED BY <2>1, <2>2, <2>3
<1>2. CASE ReconcileNext
  <2>0. PICK id \in Ids, seen \in {{file}, {Absent}, {}} :
            /\ id \in todo /\ ReadFileState(id, seen)
            /\ todo' = todo \ {id} /\ tid' = id
            /\ \/ /\ meta[id] = "prepared"
                  /\ target' = ClassifyPrepared(id, seen)
                  /\ tpc' = "mark" /\ back' = "recon"
               \/ /\ meta[id] = "applied" /\ target' = "undone"
                  /\ tpc' = "mark" /\ back' = "recon"
               \/ UNCHANGED <<target, tpc, back>>
    BY <1>2 DEF ReconcileNext, Newest
  <2>u. tpc = "recon" /\ UNCHANGED <<file, storeVars, plan, minted, undoVars,
                                     made, born, doomed, raced, disturbed, by>>
    BY <1>2 DEF ReconcileNext
  <2>b. /\ foreign' \in 0 .. MaxForeign /\ faults' \in 0 .. MaxFaults
        /\ misread' \subseteq Ids /\ misread \subseteq misread'
    <3>1. foreign' \in 0 .. MaxForeign /\ faults' \in 0 .. MaxFaults
      BY <2>0, CheckpointsAssumption DEF ReadFileState, Fault, TypeOK
    <3>2. misread' = misread \/ misread' = misread \cup {id}
      BY <2>0 DEF ReadFileState
    <3>3. misread' \subseteq Ids /\ misread \subseteq misread'
      BY <3>2, Zenon DEF TypeOK
    <3> QED BY <3>1, <3>3
  <2>c. ClassifyPrepared(id, seen) \in {"abandoned", "applied", "uncertain"}
    BY DEF ClassifyPrepared
  <2>1. TypeOK'
    <3>1. tid' \in Ids /\ todo' \subseteq Ids
      BY <2>0 DEF TypeOK
    <3>2. target' \in States
      BY <2>0, <2>c DEF TypeOK
    <3>3. tpc' \in {"recon", "mark"} /\ back' \in {"idle", "recon"}
      BY <2>0, <2>u DEF TypeOK
    <3> QED BY <2>u, <2>b, <3>1, <3>2, <3>3 DEF TypeOK
  <2>2. /\ DraftInv' /\ BornInv' /\ RemovalInv' /\ KeptInv' /\ FileInv'
        /\ UndoInv' /\ RaceInv'
    BY <2>0, <2>u DEF DraftInv, BornInv, RemovalInv, KeptInv, FileInv, UndoInv,
       RaceInv, Drafting
  <2>t. ClassifiedTruly'
    BY <2>u, <2>b DEF ClassifiedTruly
  <2>3. EditInv'
    BY <2>0, <2>u DEF EditInv, RemovalInv
  <2>4. MarkInv'
    <3>1. target' \in {"applied", "abandoned", "uncertain", "undone"}
      BY <2>0, <2>c DEF MarkInv
    <3>2. ASSUME tpc' = "mark", id \notin disturbed \cup doomed
          PROVE  /\ target' \in {"applied", "undone"} => id \in made
                 /\ target' = "abandoned" =>
                        \/ id \notin made \/ plan[id].before = plan[id].after
                        \/ id \in misread' /\ plan[id].before = Absent
                 /\ target' = "uncertain" => id \in misread'
      <4>1. id \in born BY <2>0 DEF RemovalInv
      <4>2. plan[id].after # Absent BY <4>1 DEF BornInv
      <4>3. CASE meta[id] = "prepared"
        <5>1. target' = ClassifyPrepared(id, seen) BY <2>0, <2>u, <3>2, <4>3
        <5>2. file = IF id \in made THEN plan[id].after ELSE plan[id].before
          BY <3>2, <4>1, <4>3 DEF FileInv
        <5>3. CASE seen = {file} /\ UNCHANGED misread
          BY <5>1, <5>2, <5>3 DEF ClassifyPrepared
        <5>4. CASE seen \in {{Absent}, {}} /\ id \in misread'
          BY <4>2, <5>1, <5>4 DEF ClassifyPrepared
        <5> QED BY <2>0, <5>3, <5>4 DEF ReadFileState
      <4>4. CASE meta[id] = "applied" /\ target' = "undone"
        BY <3>2, <4>1, <4>4 DEF ClassifiedTruly
      <4> QED BY <2>0, <2>u, <3>2, <4>3, <4>4
    <3> QED BY <2>0, <2>u, <3>1, <3>2 DEF MarkInv
  <2> QED BY <2>1, <2>2, <2>t, <2>3, <2>4
<1>3. CASE ReconcileDone
  <2> USE <1>3 DEF ReconcileDone, ToolAt
  <2>1. TypeOK'
    BY DEF TypeOK
  <2>2. /\ DraftInv' /\ BornInv' /\ RemovalInv' /\ KeptInv' /\ EditInv'
        /\ MarkInv' /\ FileInv' /\ ClassifiedTruly' /\ UndoInv' /\ RaceInv'
    BY DEF DraftInv, BornInv, RemovalInv, KeptInv, EditInv, MarkInv, FileInv,
       ClassifiedTruly, UndoInv, RaceInv, Drafting
  <2> QED BY <2>1, <2>2
<1> QED BY <1>1, <1>2, <1>3 DEF Recovering

\* A write of somebody else and a crash keep the invariant.
LEMMA OutsideStep == IInv /\ (ForeignWrite \/ Crash) => IInv'
<1> SUFFICES ASSUME IInv, (ForeignWrite \/ Crash) PROVE IInv' OBVIOUS
<1> USE DEF IInv
<1>1. CASE ForeignWrite
  <2> USE <1>1 DEF ForeignWrite, PreparedBut, Drafting
  <2>1. TypeOK'
    <3>1. raced' \subseteq Ids
      BY DEF TypeOK
    <3>2. disturbed' \subseteq Ids
      BY DEF TypeOK
    <3>3. foreign' \in 0 .. MaxForeign
      BY DEF TypeOK
    <3> QED BY <3>1, <3>2, <3>3 DEF TypeOK
  <2>2. /\ DraftInv' /\ BornInv' /\ RemovalInv' /\ KeptInv' /\ EditInv'
        /\ MarkInv' /\ ClassifiedTruly' /\ UndoInv'
    BY DEF DraftInv, BornInv, RemovalInv, KeptInv, EditInv, MarkInv,
       ClassifiedTruly, UndoInv
  <2>3. FileInv'
    BY DEF FileInv, TypeOK, DraftInv
  <2>4. RaceInv'
    BY DEF RaceInv, TypeOK, EditInv, UndoInv
  <2> QED BY <2>1, <2>2, <2>3, <2>4
<1>2. CASE Crash
  <2> USE <1>2 DEF Crash, Fault
  <2>1. TypeOK'
    <3>1. foreign' \in 0 .. MaxForeign /\ faults' \in 0 .. MaxFaults
      BY CheckpointsAssumption DEF TypeOK
    <3> QED BY <3>1 DEF TypeOK
  <2>2. /\ DraftInv' /\ BornInv' /\ RemovalInv' /\ KeptInv' /\ EditInv'
        /\ MarkInv' /\ FileInv' /\ ClassifiedTruly' /\ UndoInv' /\ RaceInv'
    BY DEF DraftInv, BornInv, RemovalInv, KeptInv, EditInv, MarkInv, FileInv,
       ClassifiedTruly, UndoInv, RaceInv, Drafting
  <2> QED BY <2>1, <2>2
<1> QED BY <1>1, <1>2

----------------------------------------------------------------------------
(* The invariant holds, and with it what the store promises. *)

\* The program starts in the invariant.
LEMMA InitEstablishes == Init => IInv
<1> SUFFICES ASSUME Init PROVE IInv OBVIOUS
<1> USE DEF Init
<1>1. TypeOK BY DEF TypeOK
<1>2. DraftInv /\ BornInv /\ RemovalInv /\ KeptInv
  BY DEF DraftInv, BornInv, RemovalInv, KeptInv, Drafting
<1>3. EditInv /\ MarkInv /\ FileInv
  BY DEF EditInv, MarkInv, FileInv, Drafting
<1>4. ClassifiedTruly /\ UndoInv /\ RaceInv
  BY DEF ClassifiedTruly, UndoInv, RaceInv
<1> QED BY <1>1, <1>2, <1>3, <1>4 DEF IInv

\* Nothing happens, nothing breaks.
LEMMA StutterKeeps == IInv /\ UNCHANGED vars => IInv'
<1> SUFFICES ASSUME IInv, UNCHANGED vars PROVE IInv' OBVIOUS
<1> USE DEF IInv, vars
<1>1. TypeOK' BY DEF TypeOK
<1>2. DraftInv' /\ BornInv' /\ RemovalInv' /\ KeptInv'
  BY DEF DraftInv, BornInv, RemovalInv, KeptInv, Drafting
<1>3. EditInv' /\ MarkInv' /\ FileInv'
  BY DEF EditInv, MarkInv, FileInv, Drafting
<1>4. ClassifiedTruly' /\ UndoInv' /\ RaceInv'
  BY DEF ClassifiedTruly, UndoInv, RaceInv
<1> QED BY <1>1, <1>2, <1>3, <1>4

\* Every step of the tool, the undo, the next start and the world keeps it.
LEMMA StepKeeps == IInv /\ [Next]_vars => IInv'
  BY CreatingStep, MutatingStep, UndoingStep, RecoveringStep, OutsideStep,
     StutterKeeps DEF Next

\* The inductive invariant of the checkpoint store holds for ever.
THEOREM Invariance == Spec => []IInv
<1>1. Init => IInv BY InitEstablishes
<1>2. IInv /\ [Next]_vars => IInv' BY StepKeeps
<1> QED BY <1>1, <1>2, PTL DEF Spec

\* Every variable of the store, the tool and the undo stays in its range,
\* whatever fails or crashes.
THEOREM TypeCorrect == Spec => []TypeOK
<1>1. IInv => TypeOK BY DEF IInv
<1> QED BY <1>1, Invariance, PTL

\* What a file held before Siralos replaced it stays in the store, complete
\* and under a record that loads, until that record is evicted: through every
\* crash, failed call, marking and clean-up.
THEOREM PreimageIsKept == Spec => []PreimageSurvives
<1>1. IInv => PreimageSurvives
  BY DEF IInv, BornInv, KeptInv, PreimageSurvives
<1> QED BY <1>1, Invariance, PTL

\* A record whose file nobody else touched before it was marked tells the
\* truth, whether the tool marked it or the reconciliation after a crash.
THEOREM RecordsAreTrue == Spec => []ClassifiedTruly
<1>1. IInv => ClassifiedTruly BY DEF IInv
<1> QED BY <1>1, Invariance, PTL

----------------------------------------------------------------------------
(* The store implements the edit log. *)

\* The state of a record in the edit log.
LogState(id) ==
    IF id \in doomed THEN "gone"
    ELSE IF meta[id] # "prepared" THEN "resolved"
    ELSE IF id \in made THEN "edited" ELSE "prepared"

EntryOf(id) ==
    IF id \in born
    THEN [st |-> LogState(id), before |-> plan[id].before,
          after |-> plan[id].after]
    ELSE [st |-> "free"]

Entries == [id \in Ids |-> EntryOf(id)]

\* The mapping of Checkpoints, before and after a step, in terms of LogState.
MappedEntries ==
    [id \in Ids |-> IF id \in born THEN LogEntry(id) ELSE [st |-> "free"]]

\* LogState is the state in LogEntry.
LEMMA EntriesAre == MappedEntries = Entries /\ MappedEntries' = Entries'
<1>1. ASSUME NEW id \in Ids, id \in born PROVE LogEntry(id) = EntryOf(id)
  BY <1>1 DEF LogEntry, EntryOf, LogState
<1>2. ASSUME NEW id \in Ids, id \in born' PROVE LogEntry(id)' = EntryOf(id)'
  BY <1>2 DEF LogEntry, EntryOf, LogState
<1> QED BY <1>1, <1>2 DEF Entries, EntryOf, MappedEntries

\* What the records look like to the edit log changes only as these say.
EntriesStay == \A id \in Ids : EntryOf(id)' = EntryOf(id)

EntryBecomes(id, st) ==
    /\ EntryOf(id)'
           = [st |-> st, before |-> plan[id].before, after |-> plan[id].after]
    /\ \A other \in Ids \ {id} : EntryOf(other)' = EntryOf(other)

\* A step that shows nothing to the edit log: no record moves, nobody writes.
LEMMA HiddenStep ==
    ASSUME EntriesStay, UNCHANGED <<file, by, raced>>
    PROVE  UNCHANGED Log!logVars
<1>1. Entries' = Entries BY DEF Entries, EntriesStay
<1> QED BY <1>1, EntriesAre DEF Log!logVars, MappedEntries

\* A step that moves one record from a known state is the log's MoveTo.
LEMMA MovingStep ==
    ASSUME NEW id \in born, id \in Ids, NEW st, EntryBecomes(id, st)
    PROVE  Log!MoveTo(id, st)
<1>1. Entries' = [Entries EXCEPT ![id] = [st |-> st, before |-> @.before,
                                          after |-> @.after]]
  BY DEF Entries, EntryBecomes, EntryOf
<1> QED BY <1>1, EntriesAre DEF Log!MoveTo, Log!Entry, MappedEntries

\* What the log knows of a record that was born.
LEMMA KnownEntry ==
    ASSUME NEW id \in born, id \in Ids
    PROVE  /\ MappedEntries[id].st = LogState(id)
           /\ MappedEntries[id].before = plan[id].before
           /\ MappedEntries[id].after = plan[id].after
<1>1. Entries[id] = [st |-> LogState(id), before |-> plan[id].before,
                     after |-> plan[id].after]
  BY DEF Entries, EntryOf
<1>2. MappedEntries = Entries BY EntriesAre
<1> QED BY <1>1, <1>2

\* A step that leaves the records and their plans alone moves none.
LEMMA SameRecords ==
    UNCHANGED <<meta, plan, made, born, doomed>> => EntriesStay
BY DEF EntriesStay, EntryOf, LogState

\* Drawing up a record is hidden until its metadata is committed, which
\* prepares the edit; an eviction forgets a record with a final state.
LEMMA CreatingMaps ==
    IInv /\ IInv' /\ Creating => [Log!LogNext]_Log!logVars
<1> SUFFICES ASSUME IInv, IInv', Creating
             PROVE  Log!LogNext \/ UNCHANGED Log!logVars
    OBVIOUS
<1>1. CASE \/ CapacityUnknown \/ CapacityFree \/ CapacityExceeded
           \/ RemoveDirectory \/ RemoveFails \/ MakeDirectory
           \/ StageRecordFile \/ CommitPreimage \/ CreationFails
  <2>1. UNCHANGED <<file, by, raced, meta, plan, made, born, doomed>>
    BY <1>1 DEF CapacityUnknown, CapacityFree, CapacityExceeded,
       RemoveDirectory, RemoveFails, MakeDirectory, StageRecordFile,
       CommitPreimage, CreationFails
  <2> QED BY <2>1, SameRecords, HiddenStep
<1>2. CASE Begin
  <2>1. \A id \in born : id # minted + 1 BY DEF IInv, TypeOK, BornInv
  <2>2. \A id \in born : plan'[id] = plan[id]
    BY <1>2, <2>1 DEF Begin, IInv, TypeOK
  <2>3. EntriesStay
    BY <1>2, <2>2 DEF Begin, EntriesStay, EntryOf, LogState
  <2> QED BY <1>2, <2>3, HiddenStep DEF Begin
<1>3. CASE RemoveEntry
  <2>1. \A id \in born \ doomed : meta'[id] = meta[id]
    BY <1>3 DEF RemoveEntry, Removed, IInv, TypeOK, DraftInv, RemovalInv
  <2>2. EntriesStay
    BY <1>3, <2>1 DEF RemoveEntry, EntriesStay, EntryOf, LogState
  <2> QED BY <1>3, <2>2, HiddenStep DEF RemoveEntry
<1>4. CASE CapacityPrune
  <2>1. PICK id \in Ids : OldestEvictable(id) /\ doomed' = doomed \cup {id}
    BY <1>4 DEF CapacityPrune
  <2>2. id \in born /\ meta[id] # "prepared"
    BY <2>1 DEF OldestEvictable, Evictable, IInv, BornInv
  <2>3. UNCHANGED <<file, by, raced, meta, plan, made, born>>
    BY <1>4 DEF CapacityPrune
  <2>4. CASE id \in doomed
    <3>1. doomed' = doomed BY <2>1, <2>4
    <3> QED BY <2>3, <3>1, SameRecords, HiddenStep
  <2>5. CASE id \notin doomed
    <3>1. EntryBecomes(id, "gone")
      BY <2>1, <2>2, <2>3 DEF EntryBecomes, EntryOf, LogState
    <3>2. MappedEntries[id].st = "resolved"
      BY <2>2, <2>5, KnownEntry DEF LogState
    <3>3. Log!Forget(id)
      BY <2>2, <2>3, <3>1, <3>2, MovingStep
      DEF Log!Forget, Log!Is, MappedEntries
    <3> QED BY <3>3 DEF Log!LogNext
  <2> QED BY <2>4, <2>5
<1>5. CASE CommitMetadata
  <2>1. PICK id \in Ids \ born : id = tid
    BY <1>5 DEF CommitMetadata, ToolAt, IInv, DraftInv, Drafting
  <2>2. UNCHANGED <<file, by, raced, plan, made, doomed>>
    BY <1>5 DEF CommitMetadata
  <2>3. meta' = [meta EXCEPT ![id] = "prepared"] /\ born' = born \cup {id}
    BY <1>5, <2>1 DEF CommitMetadata
  <2>4. id \notin made \cup doomed BY <2>1 DEF IInv, BornInv
  <2>5. EntryOf(id)' = [st |-> "prepared", before |-> plan[id].before,
                        after |-> plan[id].after]
    BY <2>1, <2>2, <2>3, <2>4 DEF EntryOf, LogState, IInv, TypeOK
  <2>6. \A other \in Ids \ {id} : EntryOf(other)' = EntryOf(other)
    BY <2>2, <2>3 DEF EntryOf, LogState, IInv, TypeOK
  <2>7. Entries' = [Entries EXCEPT ![id] =
                       [st |-> "prepared", before |-> plan[id].before,
                        after |-> plan[id].after]]
    BY <2>5, <2>6 DEF Entries
  <2>8. MappedEntries[id].st = "free"
    BY <2>1 DEF MappedEntries
  <2>9. plan[id].before \in Files /\ plan[id].after \in Files
    BY DEF IInv, TypeOK
  <2>10. Log!Prepare(id)
    BY <2>2, <2>7, <2>8, <2>9, EntriesAre
    DEF Log!Prepare, Log!Is, Log!Entry, MappedEntries
  <2> QED BY <2>10 DEF Log!LogNext
<1> QED BY <1>1, <1>2, <1>3, <1>4, <1>5 DEF Creating

\* Of the tool's own steps the log sees two: the rename that makes the edit,
\* and the marking of a record that was prepared.
LEMMA MutatingMaps ==
    IInv /\ IInv' /\ Mutating => [Log!LogNext]_Log!logVars
<1> SUFFICES ASSUME IInv, IInv', Mutating
             PROVE  Log!LogNext \/ UNCHANGED Log!logVars
    OBVIOUS
<1>1. CASE \/ TargetFails \/ CheckOk \/ CheckConflict \/ VerifyOk
           \/ VerifyFails \/ MarkStage \/ MarkRefused \/ MarkFails
  <2>1. UNCHANGED <<file, by, raced, meta, plan, made, born, doomed>>
    BY <1>1 DEF TargetFails, CheckOk, CheckConflict, VerifyOk, VerifyFails,
       MarkStage, MarkRefused, MarkFails
  <2> QED BY <2>1, SameRecords, HiddenStep
<1>2. CASE RenameTarget
  <2>1. PICK id \in Ids : id = tid BY <1>2
    DEF RenameTarget, ToolAt, IInv, EditInv, TypeOK
  <2>2. /\ id \in born \ (doomed \cup made) /\ meta[id] = "prepared"
        /\ file = plan[id].before \/ id \in raced
    BY <1>2, <2>1 DEF RenameTarget, ToolAt, IInv, EditInv, RaceInv
  <2>3. /\ made' = made \cup {id} /\ file' = plan[id].after
        /\ by' = "siralos" /\ raced \subseteq raced'
        /\ UNCHANGED <<meta, plan, born, doomed>>
    BY <1>2, <2>1 DEF RenameTarget
  <2>4. EntryBecomes(id, "edited")
    BY <2>2, <2>3 DEF EntryBecomes, EntryOf, LogState
  <2>5. /\ MappedEntries[id].st = "prepared"
        /\ MappedEntries[id].before = plan[id].before
        /\ MappedEntries[id].after = plan[id].after
    BY <2>2, KnownEntry DEF LogState
  <2>6. Log!Edit(id)
    BY <2>2, <2>3, <2>4, <2>5, MovingStep
    DEF Log!Edit, Log!Is, MappedEntries
  <2> QED BY <2>6 DEF Log!LogNext
<1>3. CASE MarkCommit
  <2>1. PICK id \in Ids : id = tid BY <1>3
    DEF MarkCommit, ToolAt, IInv, EditInv, TypeOK
  <2>2. id \in born /\ target # "prepared"
    BY <1>3, <2>1 DEF MarkCommit, ToolAt, IInv, EditInv, MarkInv
  <2>3. /\ meta' = [meta EXCEPT ![id] = target]
        /\ UNCHANGED <<file, by, raced, plan, made, born, doomed>>
    BY <1>3, <2>1 DEF MarkCommit
  <2>4. CASE id \in doomed \/ meta[id] # "prepared"
    <3>1. \A other \in Ids : \/ other \in doomed
                             \/ meta'[other] = "prepared"
                                    <=> meta[other] = "prepared"
      BY <2>2, <2>3, <2>4 DEF IInv, TypeOK
    <3>2. EntriesStay BY <2>3, <3>1 DEF EntriesStay, EntryOf, LogState
    <3> QED BY <2>3, <3>2, HiddenStep
  <2>5. CASE id \notin doomed /\ meta[id] = "prepared"
    <3>1. EntryOf(id)' = [st |-> "resolved", before |-> plan[id].before,
                          after |-> plan[id].after]
      BY <2>2, <2>3, <2>5 DEF EntryOf, LogState, IInv, TypeOK
    <3>2. \A other \in Ids \ {id} : EntryOf(other)' = EntryOf(other)
      BY <2>3 DEF EntryOf, LogState, IInv, TypeOK
    <3>3. MappedEntries[id].st \in {"prepared", "edited"}
      BY <2>2, <2>5, KnownEntry DEF LogState
    <3>4. Log!Resolve(id)
      BY <2>2, <2>3, <3>1, <3>2, <3>3, MovingStep
      DEF EntryBecomes, Log!Resolve, Log!Is, MappedEntries
    <3> QED BY <3>4 DEF Log!LogNext
  <2> QED BY <2>4, <2>5
<1> QED BY <1>1, <1>2, <1>3 DEF Mutating

\* Of an undo the log sees the rename, a restore.
LEMMA UndoingMaps ==
    IInv /\ IInv' /\ Undoing => [Log!LogNext]_Log!logVars
<1> SUFFICES ASSUME IInv, IInv', Undoing
             PROVE  Log!LogNext \/ UNCHANGED Log!logVars
    OBVIOUS
<1>1. CASE \/ UndoPlan \/ UndoPreimage \/ UndoCheck \/ UndoVerify
           \/ UndoMark \/ UndoFails
  <2>1. UNCHANGED <<file, by, raced, meta, plan, made, born, doomed>>
    BY <1>1 DEF UndoPlan, UndoPreimage, UndoCheck, UndoVerify, UndoMark,
       UndoFails
  <2> QED BY <2>1, SameRecords, HiddenStep
<1>2. CASE UndoRename
  <2>1. PICK id \in Ids : id = uid BY <1>2
    DEF UndoRename, UndoAt, IInv, UndoInv, TypeOK
  <2>2. /\ id \in born /\ meta[id] # "prepared"
        /\ file = plan[id].after \/ id \in raced
    BY <1>2, <2>1 DEF UndoRename, UndoAt, IInv, UndoInv, RaceInv
  <2>3. /\ file' = plan[id].before /\ by' = "siralos"
        /\ raced \subseteq raced'
        /\ UNCHANGED <<meta, plan, made, born, doomed>>
    BY <1>2, <2>1 DEF UndoRename
  <2>4. MappedEntries' = MappedEntries
    BY <2>3 DEF MappedEntries, LogEntry
  <2>5. /\ MappedEntries[id].st \in {"resolved", "gone"}
        /\ MappedEntries[id].before = plan[id].before
        /\ MappedEntries[id].after = plan[id].after
    BY <2>2, KnownEntry DEF LogState
  <2>6. Log!Restore(id)
    BY <2>2, <2>3, <2>4, <2>5 DEF Log!Restore, Log!Is, MappedEntries
  <2> QED BY <2>6 DEF Log!LogNext
<1>3. CASE UndoMarkCommit
  <2>1. UNCHANGED <<file, by, raced, plan, made, born, doomed>>
    BY <1>3 DEF UndoMarkCommit
  <2>2. \A id \in Ids : meta'[id] = "prepared" <=> meta[id] = "prepared"
    BY <1>3 DEF UndoMarkCommit, UndoAt, IInv, TypeOK, UndoInv
  <2>3. EntriesStay BY <2>1, <2>2 DEF EntriesStay, EntryOf, LogState
  <2> QED BY <2>1, <2>3, HiddenStep
<1> QED BY <1>1, <1>2, <1>3 DEF Undoing

\* A restart and its reconciliation are hidden, a crash is too; a write of
\* somebody else is the log's.
LEMMA OthersMap ==
    IInv /\ IInv' /\ (Recovering \/ ForeignWrite \/ Crash)
        => [Log!LogNext]_Log!logVars
<1> SUFFICES ASSUME IInv, IInv', Recovering \/ ForeignWrite \/ Crash
             PROVE  Log!LogNext \/ UNCHANGED Log!logVars
    OBVIOUS
<1>1. CASE Recovering \/ Crash
  <2>1. UNCHANGED <<file, by, raced, meta, plan, made, born, doomed>>
    BY <1>1 DEF Recovering, Restart, ReconcileNext, ReconcileDone, Crash
  <2> QED BY <2>1, SameRecords, HiddenStep
<1>2. CASE ForeignWrite
  <2>1. MappedEntries' = MappedEntries
    BY <1>2 DEF ForeignWrite, MappedEntries, LogEntry
  <2>2. file' \in Files /\ raced' \subseteq Ids BY DEF IInv, TypeOK
  <2>3. Log!Foreign
    BY <1>2, <2>1, <2>2 DEF ForeignWrite, Log!Foreign, MappedEntries
  <2> QED BY <2>3 DEF Log!LogNext
<1> QED BY <1>1, <1>2

\* The program starts where the log starts.
LEMMA InitMaps == Init => Log!LogInit
<1> SUFFICES ASSUME Init PROVE Log!LogInit OBVIOUS
<1>1. MappedEntries = [id \in Ids |-> [st |-> "free"]]
  BY DEF Init, MappedEntries
<1> QED BY <1>1 DEF Init, Log!LogInit, Log!Free, MappedEntries

\* Every change Siralos makes to a file is an edit that was recorded before it
\* was made, or a restore of exactly what such an edit replaced: the store with
\* its staging, crashes, failures, evictions and reconciliation implements the
\* edit log, step by step.
THEOREM EditLogImplemented == Spec => ImplementsEditLog
<1>1. Init => Log!LogInit BY InitMaps
<1>2. IInv /\ IInv' /\ [Next]_vars => [Log!LogNext]_Log!logVars
  <2>1. IInv /\ IInv' /\ UNCHANGED vars => UNCHANGED Log!logVars
    BY SameRecords, HiddenStep DEF vars
  <2> QED BY <2>1, CreatingMaps, MutatingMaps, UndoingMaps, OthersMap DEF Next
<1> QED
  BY <1>1, <1>2, Invariance, PTL DEF Spec, ImplementsEditLog, Log!LogSpec
=============================================================================
