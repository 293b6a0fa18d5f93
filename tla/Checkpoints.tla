---------------------------- MODULE Checkpoints ----------------------------
(***************************************************************************)
(* Checkpoints, undo and the atomic writes they are made of: the `write`   *)
(* and `edit` tools (adapters/tool/mutation_tools.rs), the checkpoint      *)
(* store (adapters/workspace/checkpoint.rs, checkpoint_lifecycle.rs, with  *)
(* the decisions of core/workspace/checkpoint.rs), the staged replacement  *)
(* (adapters/atomic.rs) and the user's undo (cli/interactive/undo.rs).     *)
(*                                                                         *)
(* One file of the workspace and the records made for it.  A record is a   *)
(* directory with metadata.json, preimage.bin and, while a replacement is  *)
(* staged, temporary files.  A tool and an undo may run at once (two       *)
(* sessions in one workspace); others write the file whenever they like;   *)
(* a crash can come between any two writes.                                *)
(*                                                                         *)
(* A content is its digest.  Ids are minted in the order of created_at.    *)
(* Refusals before anything is recorded (input, containment, protected     *)
(* paths, stale or ambiguous old string) leave no trace and are left out.  *)
(* The byte limit is max_checkpoints times the largest record, so it holds *)
(* whenever the count limit does, and only the count is modelled.          *)
(***************************************************************************)
EXTENDS Integers, FiniteSets

CONSTANTS
    Contents,        \* the contents of the file
    Absent,          \* no file
    MaxIds,          \* bound on the records ever made
    MaxCheckpoints,  \* max_checkpoints
    MaxForeign,      \* bound on the writes of others
    MaxFaults        \* bound on crashes and failed system calls

ASSUME CheckpointsAssumption ==
    /\ Absent \notin Contents
    /\ {MaxIds, MaxForeign, MaxFaults} \subseteq Nat
    /\ MaxCheckpoints \in Nat \ {0}

Ids   == 1 .. MaxIds
Files == Contents \cup {Absent}
NoId  == 0

Procs  == {"tool", "undo"}
\* Owners of a temporary file; "left" is one whose process is gone.
Owners == Procs \cup {"left"}

States == {"prepared", "applied", "undone", "abandoned", "conflicted",
           "uncertain"}

VARIABLES
    file,       \* the file of the workspace
    dirs,       \* the record directories
    meta,       \* the state in metadata.json, "none" when it is not there
    pre,        \* preimage.bin, Absent when it is not there
    tmp,        \* the temporary files of a record directory, by owner
    plan,       \* the before and after of a record
    minted,     \* how many ids are minted
    tpc, tid,   \* the tool: where it is and the record it works on
    target,     \* the state the tool or the reconciliation marks
    back,       \* where that marking returns to
    todo,       \* the records reconciliation has still to look at
    upc, uid,   \* the undo: where it is and the record it restores
    foreign, faults,
    made, born, doomed, raced, disturbed, misread, by   \* history only

storeVars == <<dirs, meta, pre, tmp>>
toolVars  == <<plan, minted, tpc, tid, target, back, todo>>
undoVars  == <<upc, uid>>
budget    == <<foreign, faults>>
history   == <<made, born, doomed, raced, disturbed, misread, by>>
vars == <<file, storeVars, toolVars, undoVars, budget, history>>

TypeOK ==
    /\ file \in Files
    /\ dirs \subseteq Ids
    /\ meta \in [Ids -> States \cup {"none"}]
    /\ pre \in [Ids -> Files]
    /\ tmp \in [Ids -> SUBSET Owners]
    /\ plan \in [Ids -> [before : Files, after : Files]]
    /\ minted \in 0 .. MaxIds
    /\ tpc \in {"idle", "capacity", "evict", "mkdir", "preStage", "preCommit",
                "metaStage", "metaCommit", "cleanup", "check", "rename",
                "verify", "mark", "markCommit", "recon", "down"}
    /\ tid \in Ids \cup {NoId}
    /\ target \in States
    /\ back \in {"idle", "recon"}
    /\ todo \subseteq Ids
    /\ upc \in {"idle", "planned", "check", "rename", "verify", "mark",
                "markCommit", "down"}
    /\ uid \in Ids \cup {NoId}
    /\ foreign \in 0 .. MaxForeign
    /\ faults \in 0 .. MaxFaults
    /\ made \subseteq Ids /\ born \subseteq Ids /\ doomed \subseteq Ids
    /\ raced \subseteq Ids /\ disturbed \subseteq Ids /\ misread \subseteq Ids
    /\ by \in {"siralos", "foreign"}

Init ==
    /\ file \in Files
    /\ dirs = {} /\ meta = [id \in Ids |-> "none"]
    /\ pre = [id \in Ids |-> Absent] /\ tmp = [id \in Ids |-> {}]
    /\ plan = [id \in Ids |-> [before |-> Absent, after |-> Absent]]
    /\ minted = 0 /\ tpc = "idle" /\ tid = NoId /\ target = "applied"
    /\ back = "idle" /\ todo = {} /\ upc = "idle" /\ uid = NoId
    /\ foreign = 0 /\ faults = 0
    /\ made = {} /\ born = {} /\ doomed = {} /\ raced = {} /\ disturbed = {}
    /\ misread = {} /\ by = "foreign"

----------------------------------------------------------------------------
(* Staged replacement inside a record directory. *)

Stage(p, id) == tmp' = [tmp EXCEPT ![id] = @ \cup {p}]
Unstage(p, id) == tmp' = [tmp EXCEPT ![id] = @ \ {p}]

\* A system call fails or the process dies: the bound on both together.
Fault == faults < MaxFaults /\ faults' = faults + 1 /\ UNCHANGED foreign

\* The records besides id that are prepared or being drawn up: a change of
\* the file disturbs them.
Drafting == tpc \in {"capacity", "evict", "mkdir", "preStage", "preCommit",
                     "metaStage", "metaCommit"}

PreparedBut(id) ==
    {i \in Ids \ {id} : meta[i] = "prepared" \/ (Drafting /\ i = tid)}

----------------------------------------------------------------------------
(* The store. *)

\* checkpoint_capacity accepts a record only when it loads, has exactly the
\* files of its layout, and its preimage is the recorded before-state.
Verified(id) ==
    /\ meta[id] # "none"
    /\ tmp[id] = {}
    /\ pre[id] = plan[id].before

\* oldest_evictable: final states before applied ones, each oldest first;
\* never a prepared one.
Rank(id) == IF meta[id] = "applied" THEN 1 ELSE 0

Evictable == {id \in dirs : meta[id] \notin {"none", "prepared"}}

OldestEvictable(id) ==
    /\ id \in Evictable
    /\ \A other \in Evictable :
           \/ Rank(id) < Rank(other)
           \/ Rank(id) = Rank(other) /\ id <= other

\* mark_state and mark_undone: the transitions a record may make.
MayBecome(from, to) ==
    \/ from = "prepared"
       /\ to \in {"applied", "abandoned", "conflicted", "uncertain", "undone"}
    \/ from = "applied" /\ to \in {"uncertain", "undone"}

----------------------------------------------------------------------------
(* The write and edit tools: execute_write, execute_edit. *)

ToolAt(pc, next) == tpc = pc /\ tpc' = next

\* The tool marks its record and returns, whatever becomes of the marking.
MarkAndReturn(state) ==
    /\ tpc' = "mark"
    /\ target' = state /\ back' = "idle"

\* The current content is read (an edit needs a file, a write its absence)
\* and the record is drawn up.
Begin ==
    /\ ToolAt("idle", "capacity")
    /\ minted < MaxIds
    /\ minted' = minted + 1 /\ tid' = minted + 1
    /\ \E after \in Contents :
           plan' = [plan EXCEPT ![minted + 1] =
                                    [before |-> file, after |-> after]]
    /\ UNCHANGED <<file, storeVars, target, back, todo, undoVars, budget,
                   history>>

\* ensure_capacity_for: anything that cannot be verified, or read, blocks
\* creation.
CapacityUnknown ==
    /\ ToolAt("capacity", "idle")
    /\ \/ (\E id \in dirs : ~Verified(id)) /\ UNCHANGED budget
       \/ Fault
    /\ UNCHANGED <<file, storeVars, plan, minted, tid, target, back, todo,
                   undoVars, history>>

CapacityFree ==
    /\ ToolAt("capacity", "mkdir")
    /\ \A id \in dirs : Verified(id)
    /\ Cardinality(dirs) < MaxCheckpoints
    /\ UNCHANGED <<file, storeVars, plan, minted, tid, target, back, todo,
                   undoVars, budget, history>>

\* prune_checkpoints takes the oldest evictable record ...
CapacityPrune ==
    /\ ToolAt("capacity", "evict")
    /\ \A id \in dirs : Verified(id)
    /\ Cardinality(dirs) >= MaxCheckpoints
    /\ \E id \in Ids : OldestEvictable(id) /\ doomed' = doomed \cup {id}
                       /\ todo' = {id}
    /\ UNCHANGED <<file, storeVars, plan, minted, tid, target, back,
                   undoVars, budget, made, born, raced, disturbed, misread,
                   by>>

\* ... and refuses when there is none.  Seeded fault: it looks again.
CapacityRetries ==
    /\ ToolAt("capacity", "capacity")
    /\ Evictable = {}
    /\ UNCHANGED <<file, storeVars, plan, minted, tid, target, back, todo,
                   undoVars, budget, history>>

CapacityExceeded ==
    /\ ToolAt("capacity", "idle")
    /\ \A id \in dirs : Verified(id)
    /\ Cardinality(dirs) >= MaxCheckpoints
    /\ Evictable = {}
    /\ UNCHANGED <<file, storeVars, plan, minted, tid, target, back, todo,
                   undoVars, budget, history>>

\* remove_record_directory deletes one entry after another.
Removed == IF tpc = "evict" THEN todo ELSE {tid}

RemoveEntry ==
    /\ tpc \in {"evict", "cleanup"}
    /\ \E id \in Removed :
           \/ /\ meta[id] # "none" /\ meta' = [meta EXCEPT ![id] = "none"]
              /\ UNCHANGED <<pre, tmp>>
           \/ /\ pre[id] # Absent /\ pre' = [pre EXCEPT ![id] = Absent]
              /\ UNCHANGED <<meta, tmp>>
           \/ /\ tmp[id] # {} /\ tmp' = [tmp EXCEPT ![id] = {}]
              /\ UNCHANGED <<meta, pre>>
    /\ UNCHANGED <<file, dirs, toolVars, undoVars, budget, history>>

RemoveDirectory ==
    /\ tpc \in {"evict", "cleanup"}
    /\ \A id \in Removed : meta[id] = "none" /\ pre[id] = Absent /\ tmp[id] = {}
    /\ dirs' = dirs \ Removed
    /\ tpc' = IF tpc = "evict" THEN "capacity" ELSE "idle"
    /\ todo' = {}
    /\ UNCHANGED <<file, meta, pre, tmp, plan, minted, tid, target, back,
                   undoVars, budget, history>>

\* A deletion that fails is not noticed: the loop counts again, as often as
\* the deletion fails.
RemoveFails ==
    /\ tpc \in {"evict", "cleanup"}
    /\ tpc' = IF tpc = "evict" THEN "capacity" ELSE "idle"
    /\ todo' = {}
    /\ UNCHANGED <<file, storeVars, plan, minted, tid, target, back, undoVars,
                   budget, history>>

\* try_create_record_directory.  Seeded fault: the metadata is written and the
\* preimage is not.
MetadataOnly ==
    /\ ToolAt("mkdir", "metaStage")
    /\ dirs' = dirs \cup {tid}
    /\ UNCHANGED <<file, meta, pre, tmp, plan, minted, tid, target, back, todo,
                   undoVars, budget, history>>

MakeDirectory ==
    /\ tpc = "mkdir"
    /\ tpc' = IF plan[tid].before = Absent THEN "metaStage" ELSE "preStage"
    /\ dirs' = dirs \cup {tid}
    /\ UNCHANGED <<file, meta, pre, tmp, plan, minted, tid, target, back, todo,
                   undoVars, budget, history>>

\* write_prepared: the preimage, staged and renamed, then the metadata.
StageRecordFile ==
    /\ \/ ToolAt("preStage", "preCommit") \/ ToolAt("metaStage", "metaCommit")
    /\ Stage("tool", tid)
    /\ UNCHANGED <<file, dirs, meta, pre, plan, minted, tid, target, back,
                   todo, undoVars, budget, history>>

CommitPreimage ==
    /\ ToolAt("preCommit", "metaStage")
    /\ pre' = [pre EXCEPT ![tid] = plan[tid].before]
    /\ Unstage("tool", tid)
    /\ UNCHANGED <<file, dirs, meta, plan, minted, tid, target, back, todo,
                   undoVars, budget, history>>

CommitMetadata ==
    /\ ToolAt("metaCommit", "check")
    /\ meta' = [meta EXCEPT ![tid] = "prepared"]
    /\ Unstage("tool", tid)
    /\ born' = born \cup {tid}
    /\ UNCHANGED <<file, dirs, pre, plan, minted, tid, target, back, todo,
                   undoVars, budget, made, doomed, raced, disturbed, misread,
                   by>>

\* A partial record is removed before the error is returned.
CreationFails ==
    /\ tpc \in {"mkdir", "preStage", "preCommit", "metaStage", "metaCommit"}
    /\ Fault
    /\ tpc' = IF tpc = "mkdir" THEN "idle" ELSE "cleanup"
    /\ tmp' = [tmp EXCEPT ![tid] = @ \ {"tool"}]
    /\ UNCHANGED <<file, dirs, meta, pre, plan, minted, tid, target, back,
                   todo, undoVars, history>>

\* A parent that moved, a file that cannot be staged or renamed.
TargetFails ==
    /\ tpc \in {"check", "rename"}
    /\ Fault
    /\ MarkAndReturn("abandoned")
    /\ UNCHANGED <<file, storeVars, plan, minted, tid, todo, undoVars,
                   history>>

\* The new content is staged beside the file; then commit_if_digest and
\* commit_if_absent: what is replaced must still be what
\* was read.  Seeded fault: only its presence is compared.
SamePresence(expected) == (file = Absent) = (expected = Absent)

StillThere(expected) == file = expected

CheckOk ==
    /\ ToolAt("check", "rename")
    /\ StillThere(plan[tid].before)
    /\ UNCHANGED <<file, storeVars, plan, minted, tid, target, back, todo,
                   undoVars, budget, history>>

CheckConflict ==
    /\ tpc = "check"
    /\ ~StillThere(plan[tid].before)
    /\ MarkAndReturn("abandoned")
    /\ UNCHANGED <<file, storeVars, plan, minted, tid, todo, undoVars, budget,
                   history>>

\* The rename.  A restore between its own comparison and rename is raced.
RenameTarget ==
    /\ ToolAt("rename", "verify")
    /\ file' = plan[tid].after
    /\ made' = made \cup {tid} /\ by' = "siralos"
    /\ raced' = IF upc = "rename" THEN raced \cup {uid} ELSE raced
    /\ disturbed' = disturbed \cup PreparedBut(tid)
    /\ UNCHANGED <<storeVars, plan, minted, tid, target, back, todo, undoVars,
                   budget, born, doomed, misread>>

\* verify_committed.
VerifyOk ==
    /\ tpc = "verify"
    /\ file = plan[tid].after
    /\ MarkAndReturn("applied")
    /\ UNCHANGED <<file, storeVars, plan, minted, tid, todo, undoVars, budget,
                   history>>

\* A failed verification leaves the record prepared.
VerifyFails ==
    /\ ToolAt("verify", "idle")
    /\ \/ file # plan[tid].after /\ UNCHANGED budget
       \/ Fault
    /\ UNCHANGED <<file, storeVars, plan, minted, tid, target, back, todo,
                   undoVars, history>>

----------------------------------------------------------------------------
(* mark_state and mark_undone: the metadata is loaded, checked against the *)
(* table and replaced.  The result is ignored by every caller but undo.    *)

MarkStage ==
    /\ ToolAt("mark", "markCommit")
    /\ MayBecome(meta[tid], target)
    /\ Stage("tool", tid)
    /\ UNCHANGED <<file, dirs, meta, pre, plan, minted, tid, target, back,
                   todo, undoVars, budget, history>>

MarkRefused ==
    /\ ToolAt("mark", back)
    /\ ~MayBecome(meta[tid], target)
    /\ UNCHANGED <<file, storeVars, plan, minted, tid, target, back, todo,
                   undoVars, budget, history>>

MarkCommit ==
    /\ ToolAt("markCommit", back)
    /\ meta' = [meta EXCEPT ![tid] = target]
    /\ Unstage("tool", tid)
    /\ UNCHANGED <<file, dirs, pre, plan, minted, tid, target, back, todo,
                   undoVars, budget, history>>

MarkFails ==
    /\ tpc \in {"mark", "markCommit"} /\ tpc' = back
    /\ Fault
    /\ Unstage("tool", tid)
    /\ UNCHANGED <<file, dirs, meta, pre, plan, minted, tid, target, back,
                   todo, undoVars, history>>

----------------------------------------------------------------------------
(* The user's undo: execute_undo_restore, apply_undo, restore_before.      *)

UndoAt(pc, next) == upc = pc /\ upc' = next

\* refuse_unrestorable: applied, with a before-state.  Then plan_undo: the
\* file must be what the edit wrote.
UndoPlan ==
    /\ UndoAt("idle", "planned")
    /\ \E id \in dirs :
           /\ meta[id] = "applied" /\ plan[id].before # Absent
           /\ file = plan[id].after
           /\ uid' = id
    /\ UNCHANGED <<file, storeVars, toolVars, budget, history>>

\* verified_preimage.
UndoPreimage ==
    /\ upc = "planned"
    /\ upc' = IF pre[uid] = plan[uid].before THEN "check" ELSE "idle"
    /\ UNCHANGED <<file, storeVars, toolVars, uid, budget, history>>

\* write_target_cas: stage, compare with the after-state, rename.
UndoCheck ==
    /\ upc = "check"
    /\ upc' = IF StillThere(plan[uid].after) THEN "rename" ELSE "idle"
    /\ UNCHANGED <<file, storeVars, toolVars, uid, budget, history>>

UndoRename ==
    /\ UndoAt("rename", "verify")
    /\ file' = plan[uid].before /\ by' = "siralos"
    /\ raced' = IF tpc = "rename" THEN raced \cup {tid} ELSE raced
    /\ disturbed' = disturbed \cup PreparedBut(NoId)
    /\ UNCHANGED <<storeVars, toolVars, uid, budget, made, born, doomed,
                   misread>>

\* The restore is read back; an unexpected content is reported.
UndoVerify ==
    /\ upc = "verify"
    /\ upc' = IF file = plan[uid].before THEN "mark" ELSE "idle"
    /\ UNCHANGED <<file, storeVars, toolVars, uid, budget, history>>

UndoMark ==
    /\ upc = "mark"
    /\ IF MayBecome(meta[uid], "undone")
       THEN upc' = "markCommit" /\ Stage("undo", uid)
       ELSE upc' = "idle" /\ UNCHANGED tmp
    /\ UNCHANGED <<file, dirs, meta, pre, toolVars, uid, budget, history>>

\* A record that was evicted meanwhile has taken the staged file with it.
UndoMarkCommit ==
    /\ UndoAt("markCommit", "idle")
    /\ IF "undo" \in tmp[uid]
       THEN Unstage("undo", uid) /\ meta' = [meta EXCEPT ![uid] = "undone"]
       ELSE UNCHANGED <<meta, tmp>>
    /\ UNCHANGED <<file, dirs, pre, toolVars, uid, budget, history>>

UndoFails ==
    /\ upc \in {"planned", "check", "rename", "verify", "mark", "markCommit"}
    /\ upc' = "idle"
    /\ Fault
    /\ IF uid \in dirs THEN Unstage("undo", uid) ELSE UNCHANGED tmp
    /\ UNCHANGED <<file, dirs, meta, pre, toolVars, uid, history>>

----------------------------------------------------------------------------
(* Others, crashes, and the next start. *)

ForeignWrite ==
    /\ foreign < MaxForeign
    /\ foreign' = foreign + 1
    /\ \E content \in Files \ {file} : file' = content
    /\ by' = "foreign"
    /\ raced' = raced \cup {id \in Ids : \/ tpc = "rename" /\ id = tid
                                         \/ upc = "rename" /\ id = uid}
    /\ disturbed' = disturbed \cup PreparedBut(NoId)
    /\ UNCHANGED <<storeVars, toolVars, undoVars, faults, made, born,
                   doomed, misread>>

Crash ==
    /\ tpc # "down"
    /\ Fault
    /\ tpc' = "down" /\ upc' = "down"
    /\ tmp' = [id \in Ids |-> IF tmp[id] = {} THEN {} ELSE {"left"}]
    /\ UNCHANGED <<file, dirs, meta, pre, plan, minted, tid, target, back,
                   todo, uid, history>>

\* reconcile_checkpoints lists what is prepared or applied.
Pending == {id \in dirs : meta[id] \in {"prepared", "applied"}}

\* The harness reconciles when it starts, the interactive session does not.
Restart ==
    /\ tpc = "down"
    /\ upc' = "idle"
    /\ \/ tpc' = "recon" /\ todo' = Pending
       \/ tpc' = "idle" /\ todo' = {}
    /\ UNCHANGED <<file, storeVars, plan, minted, tid, target, back, uid,
                   budget, history>>

\* read_workspace_file_state: the file as reconciliation sees it, a set of at
\* most one content.  A path that cannot be examined counts as a missing file;
\* one that cannot be read, or is too large, exists without a digest.
ReadFileState(id, seen) ==
    \/ seen = {file} /\ UNCHANGED <<budget, misread>>
    \/ seen \in {{Absent}, {}} /\ Fault /\ misread' = misread \cup {id}

\* classify_reconciliation.  Seeded fault: the after-state is not asked for.
ClassifyByBefore(id, seen) ==
    IF plan[id].before \in seen THEN "abandoned" ELSE "uncertain"

ClassifyPrepared(id, seen) ==
    CASE plan[id].before \in seen -> "abandoned"
      [] plan[id].before \notin seen /\ plan[id].after \in seen -> "applied"
      [] OTHER -> "uncertain"

WasRestored(id, seen) == plan[id].before \in seen /\ plan[id].after \notin seen

\* The newest pending record is classified against the file, then marked.
Newest(id) == id \in todo /\ \A other \in todo : other <= id

ReconcileNext ==
    /\ tpc = "recon"
    /\ \E id \in Ids, seen \in {{file}, {Absent}, {}} :
           /\ Newest(id)
           /\ ReadFileState(id, seen)
           /\ todo' = todo \ {id} /\ tid' = id
           /\ \/ /\ meta[id] = "prepared"
                 /\ target' = ClassifyPrepared(id, seen)
                 /\ tpc' = "mark" /\ back' = "recon"
              \/ /\ meta[id] = "applied" /\ WasRestored(id, seen)
                 /\ target' = "undone"
                 /\ tpc' = "mark" /\ back' = "recon"
              \/ /\ meta[id] # "prepared"
                 /\ ~(meta[id] = "applied" /\ WasRestored(id, seen))
                 /\ UNCHANGED <<target, tpc, back>>
    /\ UNCHANGED <<file, storeVars, plan, minted, undoVars, made, born, doomed,
                   raced, disturbed, by>>

ReconcileDone ==
    /\ ToolAt("recon", "idle")
    /\ todo = {}
    /\ UNCHANGED <<file, storeVars, plan, minted, tid, target, back, todo,
                   undoVars, budget, history>>
----------------------------------------------------------------------------
(* The whole. *)

Creating ==
    \/ Begin \/ CapacityUnknown \/ CapacityFree \/ CapacityPrune
    \/ CapacityExceeded \/ RemoveEntry \/ RemoveDirectory \/ RemoveFails
    \/ MakeDirectory \/ StageRecordFile \/ CommitPreimage \/ CommitMetadata
    \/ CreationFails

Mutating ==
    \/ TargetFails \/ CheckOk \/ CheckConflict \/ RenameTarget
    \/ VerifyOk \/ VerifyFails \/ MarkStage \/ MarkRefused \/ MarkCommit
    \/ MarkFails

Undoing ==
    \/ UndoPlan \/ UndoPreimage \/ UndoCheck \/ UndoRename
    \/ UndoVerify \/ UndoMark \/ UndoMarkCommit \/ UndoFails

Recovering == Restart \/ ReconcileNext \/ ReconcileDone

Next == Creating \/ Mutating \/ Undoing \/ Recovering \/ ForeignWrite \/ Crash

Spec == Init /\ [][Next]_vars

\* A tool that runs goes on running, and a host that crashed is started again.
\* Nobody has to call a tool or write a file.
FairSpec == Spec /\ WF_vars((Creating /\ tpc # "idle") \/ Mutating \/ Recovering)

----------------------------------------------------------------------------
(* What the store promises. *)

\* Whatever crashes and fails after a file was replaced, what it held before
\* is in the store under a record that loads, until that record is evicted:
\* create_checkpoint is complete before the rename of the target, and no
\* marking ever loses the metadata.
PreimageSurvives ==
    \A id \in made \ doomed :
        /\ id \in dirs /\ meta[id] # "none"
        /\ pre[id] = plan[id].before

\* A record whose file nobody else touched between its preparation and its
\* marking tells the truth, on every path by which execute_write,
\* execute_edit or reconcile_checkpoints mark it, crashes and failed calls
\* included: applied or undone only if the edit was made, abandoned only if it
\* left nothing behind, and uncertain only after a read that failed.  The one
\* lie a failed read can tell is about a file the edit created: it looks
\* missing again, and the record is abandoned.
ClassifiedTruly ==
    \A id \in born \ (disturbed \cup doomed) :
        /\ meta[id] \in {"applied", "undone"} => id \in made
        /\ meta[id] = "abandoned" =>
               \/ id \notin made \/ plan[id].before = plan[id].after
               \/ id \in misread /\ plan[id].before = Absent
        /\ meta[id] = "uncertain" => id \in misread

\* The records, as the edit log sees them.
LogEntry(id) ==
    [st |-> CASE id \notin born -> "free"
              [] id \in doomed -> "gone"
              [] id \in born \ doomed /\ meta[id] # "prepared" -> "resolved"
              [] id \in made \ doomed /\ meta[id] = "prepared" -> "edited"
              [] OTHER -> "prepared",
     before |-> plan[id].before, after |-> plan[id].after]

Log == INSTANCE EditLog WITH
           entry <- [id \in Ids |-> IF id \in born THEN LogEntry(id)
                                    ELSE [st |-> "free"]]

\* Every change Siralos makes to the file is an edit recorded before it was
\* made, over exactly the content that was recorded, or a restore of exactly
\* that content over exactly what the edit wrote; a record is dropped only in
\* a final state.  Crashes, failing calls and the writes of others included,
\* but for a write inside the documented gap between comparison and rename.
ImplementsEditLog == Log!LogSpec

\* A write, an edit or a reconciliation that began comes to an end: every
\* failure leads back to the caller, and ensure_capacity_for and
\* prune_checkpoints go round for ever only while the user undoes for ever or
\* the file system for ever refuses to delete the record they chose.
MutationEnds ==
    \/ []<><<UndoRename>>_vars
    \/ []<><<RemoveFails>>_vars
    \/ (tpc # "idle") ~> (tpc = "idle")
=============================================================================
