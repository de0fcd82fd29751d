------------------------------ MODULE Previews ------------------------------
(***************************************************************************)
(* The thumbnail of one board. Every replica runs the job: it finds that   *)
(* the board is due, loads the canonical state, has it rendered, stores    *)
(* the image under the one key the board has for it, and stamps the row    *)
(* with the time of that statement. Nothing ties these steps together: the *)
(* board can change, be deleted or be rendered by the other replica        *)
(* between any two of them. updated_at and preview_generated_at are times  *)
(* of a clock; a commit carries the time its transaction began. A board    *)
(* that is imported may bring a thumbnail along, which is stored and       *)
(* stamped without being rendered.                                         *)
(***************************************************************************)
EXTENDS Integers, FiniteSets

CONSTANTS
  Replicas,          \* server processes, each with one run at a time
  PreviewInterval,   \* the throttle, in ticks
  MaxVersion,        \* bound: changes to the board
  MaxTime,           \* bound: ticks of the clock
  MaxPreviewFaults   \* bound: calls that fail, crashes included

VARIABLES
  time,        \* the clock
  present,     \* the board's row is there
  seeded,      \* its canonical base is there
  activated,   \* its head is there, and ready
  importPc,    \* where the import that made the board is, or none
  head,        \* the version of its canonical state
  updatedAt,   \* the later of updated_at of its base and of its head
  commitAt,    \* when the transaction of a commit in progress began, 0 for none
  generatedAt, \* preview_generated_at, 0 for NULL
  named,       \* preview_object_key is set
  image,       \* the version stored under the key, -1 for no object, Foreign for a
               \* picture of another state
  emptied,     \* the deletion job has emptied the board's prefix
  rPc,         \* replica -> where its job is
  loaded,      \* replica -> the version it has loaded
  behind,      \* history: the image or the stamp is of a run that a change overtook
  restored,    \* history: the stamp is an import's, of an image that was not the board's
  torn,        \* history: a run or an import failed, or died, between storing and stamping
  prFaults     \* failures so far

previewVars == <<time, present, seeded, activated, importPc, head, updatedAt, commitAt,
                 generatedAt, named, image, emptied, rPc, loaded, behind, restored, torn,
                 prFaults>>
boardVars == <<present, seeded, activated, importPc>>
rowVars == <<generatedAt, named>>
histories == <<behind, restored, torn>>

\* The picture in an archive is the one the exported board had, of whatever version.
Foreign == 0

\* A board somebody has created, or one that is being imported without or with a
\* thumbnail; its first version is 1.

Init ==
  /\ time = 1 /\ present = TRUE
  /\ importPc \in {"none", "bare", "upload"}
  /\ seeded = (importPc = "none") /\ activated = FALSE
  /\ head = 1 /\ updatedAt = 1 /\ commitAt = 0
  /\ generatedAt = 0 /\ named = FALSE /\ image = -1 /\ emptied = FALSE
  /\ rPc = [r \in Replicas |-> "idle"] /\ loaded = [r \in Replicas |-> 0]
  /\ behind = FALSE /\ restored = FALSE /\ torn = FALSE
  /\ prFaults = 0

Goto(r, where) == rPc' = [rPc EXCEPT ![r] = where]

Fault == prFaults < MaxPreviewFaults /\ prFaults' = prFaults + 1

Tick ==
  /\ time < MaxTime
  /\ time' = time + 1
  /\ UNCHANGED <<boardVars, head, updatedAt, commitAt, rowVars, image, emptied, rPc, loaded,
                 histories, prFaults>>

-----------------------------------------------------------------------------
(* The board *)

\* begin_activation and mark_ready make the head of a board that has none, with
\* updated_at = NOW().
ensure_active ==
  /\ seeded
  /\ activated' = TRUE
  /\ updatedAt' = IF activated THEN updatedAt ELSE time

\* Somebody opens the board for the first time.
OpenBoard ==
  /\ present /\ ~activated /\ ensure_active
  /\ UNCHANGED <<time, present, seeded, importPc, head, commitAt, rowVars, image, emptied, rPc,
                 loaded, histories, prFaults>>

\* A commit begins, at an instant of its own; NOW() is this time until it ends.
BeginCommit ==
  /\ present /\ activated /\ commitAt = 0 /\ head < MaxVersion
  /\ time < MaxTime
  /\ time' = time + 1 /\ commitAt' = time + 1
  /\ UNCHANGED <<boardVars, head, updatedAt, rowVars, image, emptied, rPc, loaded, histories,
                 prFaults>>

\* Mutant of EndCommit: a commit leaves updated_at to the compaction.
EndCommitMutant ==
  /\ commitAt > 0
  /\ head' = head + 1 /\ commitAt' = 0
  /\ UNCHANGED <<time, boardVars, updatedAt, rowVars, image, emptied, rPc, loaded, histories,
                 prFaults>>

\* advance_processed_seq, with updated_at = NOW().
EndCommit ==
  /\ commitAt > 0
  /\ head' = head + 1 /\ updatedAt' = commitAt /\ commitAt' = 0
  /\ UNCHANGED <<time, boardVars, rowVars, image, emptied, rPc, loaded, histories, prFaults>>

DeleteBoard ==
  /\ present /\ commitAt = 0
  /\ present' = FALSE
  /\ UNCHANGED <<time, seeded, activated, importPc, head, updatedAt, commitAt, rowVars, image,
                 emptied, rPc, loaded, histories, prFaults>>

\* The storage cleanup, after its grace period: the prefix is emptied for the last time.
EmptyPrefix ==
  /\ ~present /\ ~emptied
  /\ emptied' = TRUE /\ image' = -1
  /\ UNCHANGED <<time, boardVars, head, updatedAt, commitAt, rowVars, rPc, loaded, histories,
                 prFaults>>

-----------------------------------------------------------------------------
(* import_board, from the creation of the board on *)

\* The bundled thumbnail is uploaded under the key of the new board. An error, after
\* which it may be there or not, ends the import and takes back what was uploaded
\* before it, which the thumbnail is not.
StoreBundled ==
  /\ importPc = "upload"
  /\ \/ image' \in {head, Foreign} /\ importPc' = "record" /\ UNCHANGED <<torn, prFaults>>
     \/ /\ Fault /\ importPc' = "drop"
        /\ \/ image' \in {head, Foreign} /\ torn' = TRUE
           \/ UNCHANGED <<image, torn>>
  /\ UNCHANGED <<time, present, seeded, activated, head, updatedAt, commitAt, rowVars, emptied,
                 rPc, loaded, behind, restored>>

\* record_imported_storage, of a board that is still there.
RecordStorage ==
  /\ importPc = "record"
  /\ \/ present /\ importPc' = "seed" /\ UNCHANGED prFaults
     \/ ~present /\ importPc' = "undo" /\ UNCHANGED prFaults
     \/ Fault /\ importPc' = "undo"
  /\ UNCHANGED <<time, present, seeded, activated, head, updatedAt, commitAt, rowVars, image,
                 emptied, rPc, loaded, histories>>

\* What was uploaded is deleted, errors ignored.
DeleteUploaded ==
  /\ importPc = "undo"
  /\ importPc' = "drop"
  /\ \/ image' = -1 /\ UNCHANGED <<torn, prFaults>>
     \/ Fault /\ torn' = TRUE /\ UNCHANGED image
  /\ UNCHANGED <<time, present, seeded, activated, head, updatedAt, commitAt, rowVars, emptied,
                 rPc, loaded, behind, restored>>

\* So is the board.
DropBoard ==
  /\ importPc = "drop"
  /\ importPc' = "none"
  /\ \/ present' = FALSE /\ UNCHANGED prFaults
     \/ Fault /\ UNCHANGED present
  /\ UNCHANGED <<time, seeded, activated, head, updatedAt, commitAt, rowVars, image, emptied,
                 rPc, loaded, histories>>

\* upsert_base_cas, after which the board may come due; a failure undoes nothing.
SeedBase ==
  /\ importPc \in {"seed", "bare"}
  /\ \/ /\ present
        /\ seeded' = TRUE /\ updatedAt' = time
        /\ importPc' = IF importPc = "seed" THEN "update" ELSE "spawn"
        /\ UNCHANGED prFaults
     \/ ~present /\ importPc' = "none" /\ UNCHANGED <<seeded, updatedAt, prFaults>>
     \/ Fault /\ importPc' = "none" /\ UNCHANGED <<seeded, updatedAt>>
  /\ UNCHANGED <<time, present, activated, head, commitAt, rowVars, image, emptied, rPc, loaded,
                 histories>>

\* The row names the bundled thumbnail and is stamped with the present time, although
\* nothing was rendered; an error is ignored, and the board stays due.
StampBundled ==
  /\ importPc = "update"
  /\ importPc' = "none"
  /\ \/ /\ present /\ named' = TRUE /\ generatedAt' = time
        /\ restored' = (image # head \/ commitAt > 0)
        /\ UNCHANGED prFaults
     \/ ~present /\ UNCHANGED <<named, generatedAt, restored, prFaults>>
     \/ Fault /\ UNCHANGED <<named, generatedAt, restored>>
  /\ UNCHANGED <<time, present, seeded, activated, head, updatedAt, commitAt, image, emptied,
                 rPc, loaded, behind, torn>>

\* A board that came without a thumbnail is rendered at once, due or not.
RenderImported(r) ==
  /\ importPc = "spawn" /\ rPc[r] = "idle"
  /\ importPc' = "none"
  /\ loaded' = [loaded EXCEPT ![r] = 1]
  /\ Goto(r, "render")
  /\ UNCHANGED <<time, present, seeded, activated, head, updatedAt, commitAt, rowVars, image,
                 emptied, histories, prFaults>>

\* The process of the import dies.
AbandonImport ==
  /\ importPc # "none" /\ Fault
  /\ importPc' = "none"
  /\ torn' = (torn \/ importPc \in {"record", "undo"})
  /\ UNCHANGED <<time, present, seeded, activated, head, updatedAt, commitAt, rowVars, image,
                 emptied, rPc, loaded, behind, restored>>

-----------------------------------------------------------------------------
(* The job *)

\* PREVIEW_DUE_FILTER, of a board that is there and joined with its base. Nothing in
\* the program abandons a base or puts a head in quarantine, which it also asks.
preview_due ==
  /\ present /\ seeded
  /\ \/ generatedAt = 0
     \/ generatedAt > time
     \/ updatedAt > generatedAt /\ generatedAt <= time - PreviewInterval

\* run_preview_cycle: list_previews_due selects the board.
ListDue(r) ==
  /\ rPc[r] = "idle" /\ preview_due
  /\ Goto(r, "check")
  /\ UNCHANGED <<time, boardVars, head, updatedAt, commitAt, rowVars, image, emptied, loaded,
                 histories, prFaults>>

\* is_preview_due: the other replica may have been faster, or the query fails.
CheckDue(r) ==
  /\ rPc[r] = "check"
  /\ \/ preview_due /\ Goto(r, "load") /\ UNCHANGED prFaults
     \/ ~preview_due /\ Goto(r, "idle") /\ UNCHANGED prFaults
     \/ Fault /\ Goto(r, "idle")
  /\ UNCHANGED <<time, boardVars, head, updatedAt, commitAt, rowVars, image, emptied, loaded,
                 histories>>

\* current_canonical_state, which activates the board; one that is gone has none.
LoadState(r) ==
  /\ rPc[r] = "load"
  /\ \/ /\ present /\ ensure_active
        /\ loaded' = [loaded EXCEPT ![r] = head]
        /\ Goto(r, "render") /\ UNCHANGED prFaults
     \/ ~present /\ Goto(r, "idle") /\ UNCHANGED <<activated, updatedAt, loaded, prFaults>>
     \/ Fault /\ Goto(r, "idle") /\ UNCHANGED <<activated, updatedAt, loaded>>
  /\ UNCHANGED <<time, present, seeded, importPc, head, commitAt, rowVars, image, emptied,
                 histories>>

\* Mutant of Render: the row is written before the image is stored.
RenderMutant(r) ==
  /\ rPc[r] = "render" /\ Goto(r, "store")
  /\ named' = present /\ generatedAt' = time
  /\ UNCHANGED <<time, boardVars, head, updatedAt, commitAt, image, emptied, loaded, histories,
                 prFaults>>

\* generate_and_store: the renderer fails or gives nothing, and the run is over.
Render(r) ==
  /\ rPc[r] = "render"
  /\ \/ Goto(r, "store") /\ UNCHANGED prFaults
     \/ Fault /\ Goto(r, "idle")
  /\ UNCHANGED <<time, boardVars, head, updatedAt, commitAt, rowVars, image, emptied, loaded,
                 histories>>

\* A version that is behind the board, or that a commit in progress is about to overtake.
Overtaken(r) == loaded[r] # head \/ commitAt > 0

\* upload_to_storage; after an error the image may be there or not.
Store(r) ==
  /\ rPc[r] = "store"
  /\ \/ image' = loaded[r] /\ Goto(r, "stamp") /\ UNCHANGED <<torn, prFaults>>
     \/ /\ Fault /\ Goto(r, "idle")
        /\ \/ image' = loaded[r] /\ torn' = TRUE
           \/ UNCHANGED <<image, torn>>
  /\ behind' = (behind \/ Overtaken(r))
  /\ UNCHANGED <<time, boardVars, head, updatedAt, commitAt, rowVars, emptied, loaded, restored>>

\* Mutant of Stamp: the thumbnail of a board that is gone is left to the cleanup.
StampMutant(r) ==
  /\ rPc[r] = "stamp"
  /\ \/ /\ present /\ named' = TRUE /\ generatedAt' = time
        /\ behind' = (Overtaken(r) \/ (behind /\ image # loaded[r])) /\ restored' = FALSE
        /\ Goto(r, "idle") /\ UNCHANGED <<torn, prFaults>>
     \/ ~present /\ Goto(r, "idle") /\ UNCHANGED <<rowVars, histories, prFaults>>
     \/ /\ Fault /\ torn' = TRUE
        /\ Goto(r, "unstore") /\ UNCHANGED <<rowVars, behind, restored>>
  /\ UNCHANGED <<time, boardVars, head, updatedAt, commitAt, image, emptied, loaded>>

\* The UPDATE of the row: it names the key and stamps the time of the statement. A run
\* that finds its own image in place makes up for one that was overtaken.
Stamp(r) ==
  /\ rPc[r] = "stamp"
  /\ \/ /\ present /\ named' = TRUE /\ generatedAt' = time
        /\ behind' = (Overtaken(r) \/ (behind /\ image # loaded[r])) /\ restored' = FALSE
        /\ Goto(r, "idle") /\ UNCHANGED <<torn, prFaults>>
     \/ /\ ~present
        /\ Goto(r, "unstore") /\ UNCHANGED <<rowVars, histories, prFaults>>
     \/ /\ Fault /\ torn' = TRUE
        /\ Goto(r, "unstore") /\ UNCHANGED <<rowVars, behind, restored>>
  /\ UNCHANGED <<time, boardVars, head, updatedAt, commitAt, image, emptied, loaded>>

\* delete_from_storage after a board that is gone, or an UPDATE that failed.
Unstore(r) ==
  /\ rPc[r] = "unstore"
  /\ Goto(r, "idle")
  /\ \/ image' = -1 /\ UNCHANGED <<torn, prFaults>>
     \/ Fault /\ torn' = TRUE /\ UNCHANGED image
  /\ UNCHANGED <<time, boardVars, head, updatedAt, commitAt, rowVars, emptied, loaded, behind,
                 restored>>

Crash(r) ==
  /\ rPc[r] # "idle" /\ Fault
  /\ Goto(r, "idle")
  /\ torn' = (torn \/ rPc[r] \in {"stamp", "unstore"})
  /\ UNCHANGED <<time, boardVars, head, updatedAt, commitAt, rowVars, image, emptied, loaded,
                 behind, restored>>

Next ==
  \/ Tick \/ OpenBoard \/ BeginCommit \/ EndCommit \/ DeleteBoard \/ EmptyPrefix
  \/ StoreBundled \/ RecordStorage \/ DeleteUploaded \/ DropBoard \/ SeedBase \/ StampBundled
  \/ AbandonImport
  \/ \E r \in Replicas :
       \/ ListDue(r) \/ CheckDue(r) \/ LoadState(r) \/ RenderImported(r) \/ Render(r)
       \/ Store(r) \/ Stamp(r) \/ Unstore(r) \/ Crash(r)

-----------------------------------------------------------------------------
(* Properties *)

Quiet == importPc = "none" /\ \A r \in Replicas : rPc[r] = "idle"

(***************************************************************************)
(* While no run is under way and the board will not come due again without *)
(* another change, its thumbnail shows its present state, unless a change  *)
(* came, or was being committed, while a run was between loading and       *)
(* stamping, a run or an import broke off between storing and stamping, or *)
(* the stamp is that of an import, whose thumbnail was out of date when it *)
(* was exported or was overtaken before it was stamped. Such a stamp lasts *)
(* until the board is opened for the first time, or changed.               *)
(***************************************************************************)
PreviewFresh ==
  present /\ Quiet /\ commitAt = 0 /\ generatedAt > 0 /\ updatedAt <= generatedAt =>
    image = head \/ behind \/ torn \/ restored

(***************************************************************************)
(* A row that names a thumbnail names one that is there, unless a run      *)
(* broke off between storing and stamping: the deletion that follows a     *)
(* failed UPDATE takes the earlier thumbnail away too.                     *)
(***************************************************************************)
PreviewThere == present /\ named => image >= 0 \/ torn

(***************************************************************************)
(* When the board is gone, its prefix has been emptied and no run is under *)
(* way, no thumbnail is left, unless the last deletion failed or its       *)
(* process died: a run or an import that stored its image too late removes *)
(* it again.                                                               *)
(***************************************************************************)
NoPreviewLeft == ~present /\ emptied /\ Quiet => image = -1 \/ torn
=============================================================================
