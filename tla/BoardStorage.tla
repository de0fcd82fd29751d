---------------------------- MODULE BoardStorage ----------------------------
(***************************************************************************)
(* The boards of one owner, the objects below their prefixes in the bucket *)
(* and the owner's quotas. Rows change in transactions and the bucket does *)
(* not: an upload stores its object first and records it afterwards, an    *)
(* import creates its board first, and a deleted board leaves a job that   *)
(* empties its prefix later. Every file and every imported asset counts as *)
(* one unit of storage.                                                    *)
(***************************************************************************)
EXTENDS Integers, FiniteSets, Sequences, SequencesExt

CONSTANTS
  Handlers,      \* requests that can be in progress together
  MaxBoards,     \* bound: boards ever created
  MaxFiles,      \* bound: files ever uploaded
  BoardLimit,    \* max_owned_boards of the owner's tier
  StorageLimit,  \* max_storage_bytes of the owner's tier
  Poisoned,      \* boards whose prefix the bucket may refuse to empty for ever
  MaxStorageFaults  \* bound: other calls that fail, crashes included

VARIABLES
  boards,      \* the rows of boards
  made,        \* boards created so far
  based,       \* boards with a canonical base
  rows,        \* board_files: [board, file]
  imported,    \* what boards.imported_storage_bytes counts: [board, file]
  objects,     \* the bucket: [board, file, piece]
  files,       \* files that have been given a key so far
  jobs,        \* board_storage_deletion_jobs, by updated_at
  due,         \* jobs whose cleanup_after has passed
  bPc,         \* handler -> where it is
  bReq,        \* handler -> its request
  now,         \* board -> the pass delete_board has spawned
  cycle,       \* the cleanup worker: the job it has listed and the keys of its prefix
  late,        \* history: files stored after the prefix was listed for good
  abandoned,   \* history: files whose upload ended without cleaning up
  stranded,    \* history: boards whose creation ended without undoing it
  bFaults      \* calls that have failed

storageVars == <<boards, made, based, rows, imported, objects, files, jobs, due, bPc,
                 bReq, now, cycle, late, abandoned, stranded, bFaults>>

Boards == 1..MaxBoards
NoBoardReq == [board |-> 0, kind |-> "none", file |-> 0, left |-> 0, put |-> {}]
NoPass == [pc |-> "idle", keys |-> {}]
NoCycle == [job |-> 0, pc |-> "idle", keys |-> {}]

Init ==
  /\ boards = {} /\ made = 0 /\ based = {} /\ rows = {} /\ imported = {}
  /\ objects = {} /\ files = 0
  /\ jobs = <<>> /\ due = {}
  /\ bPc = [h \in Handlers |-> "idle"] /\ bReq = [h \in Handlers |-> NoBoardReq]
  /\ now = [b \in Boards |-> NoPass] /\ cycle = NoCycle
  /\ late = {} /\ abandoned = {} /\ stranded = {}
  /\ bFaults = 0

Goto(h, where) == bPc' = [bPc EXCEPT ![h] = where]

Done(h) == Goto(h, "idle") /\ bReq' = [bReq EXCEPT ![h] = NoBoardReq]

Fault == bFaults < MaxStorageFaults /\ bFaults' = bFaults + 1

\* usage_for_owner: recorded files and imported assets of the boards owned.
used == Cardinality(rows) + Cardinality(imported)

\* evaluate_board: one more board fits.
evaluate_board == Cardinality(boards) < BoardLimit

\* evaluate_storage and evaluate_upload: n more units fit.
evaluate_storage(n) == used + n <= StorageLimit

Prefix(b) == {o \in objects : o.board = b}

Object(h, piece) == [board |-> bReq[h].board, file |-> bReq[h].file, piece |-> piece]

\* The objects of one file: a PDF has its pages below the prefix of its document.
OfFile(f) == {o \in objects : o.file = f}

\* Requests that are creating board b or uploading to it.
At(b) == {h \in Handlers : bReq[h].board = b}

Queued(b) == \E i \in DOMAIN jobs : jobs[i] = b

\* The jobs but the one of board b.
Without(b) == IF Queued(b) THEN RemoveAt(jobs, CHOOSE i \in DOMAIN jobs : jobs[i] = b) ELSE jobs

-----------------------------------------------------------------------------
(* Rows *)

\* database::create_board: the count and the row under the owner's quota lock.
db_create_board ==
  /\ made < MaxBoards
  /\ evaluate_board
  /\ made' = made + 1
  /\ boards' = boards \cup {made + 1}

\* Deleting rows of boards: what references them cascades, and the trigger
\* queues a job with a grace period for each.
delete_boards(B) ==
  /\ boards' = boards \ B
  /\ rows' = {r \in rows : r.board \notin B}
  /\ based' = based \ B
  /\ imported' = {r \in imported : r.board \notin B}
  /\ jobs' = jobs \o SetToSeq(B)

-----------------------------------------------------------------------------
(* create_board *)

CreateBoard(h) ==
  /\ bPc[h] = "idle"
  /\ db_create_board
  /\ Goto(h, "seed")
  /\ bReq' = [bReq EXCEPT ![h] = [NoBoardReq EXCEPT !.board = made + 1, !.kind = "create"]]
  /\ UNCHANGED <<based, rows, imported, objects, files, jobs, due, now, cycle, late,
                 abandoned, stranded, bFaults>>

\* upsert_base_cas: a failure, or a board that is gone, goes to the deletion.
SeedBoard(h) ==
  /\ bPc[h] = "seed"
  /\ \/ bReq[h].board \in boards /\ based' = based \cup {bReq[h].board} /\ Done(h) /\ UNCHANGED bFaults
     \/ bReq[h].board \notin boards /\ Goto(h, "undo") /\ UNCHANGED <<based, bReq, bFaults>>
     \/ Fault /\ Goto(h, "undo") /\ UNCHANGED <<based, bReq>>
  /\ UNCHANGED <<boards, made, rows, imported, objects, files, jobs, due, now, cycle, late,
                 abandoned, stranded>>

\* create_board and import_board: delete_board_by_id, whose failure is ignored.
UndoBoard(h) ==
  /\ bPc[h] = "undo"
  /\ Done(h)
  /\ \/ delete_boards({bReq[h].board} \cap boards) /\ UNCHANGED <<stranded, bFaults>>
     \/ /\ Fault /\ stranded' = stranded \cup {bReq[h].board}
        /\ UNCHANGED <<boards, rows, based, imported, jobs>>
  /\ UNCHANGED <<made, objects, files, due, now, cycle, late, abandoned>>

-----------------------------------------------------------------------------
(* Uploads *)

\* What the uploads have in common: a board, and a first, unlocked look at the quota.
StartUpload(h, b, kind) ==
  /\ bPc[h] = "idle"
  /\ b \in boards /\ evaluate_storage(1)
  /\ files < MaxFiles
  /\ files' = files + 1
  /\ bReq' = [bReq EXCEPT ![h] = [NoBoardReq EXCEPT !.board = b, !.kind = kind, !.file = files + 1]]
  /\ Goto(h, IF kind = "pdf" THEN "page" ELSE "object")
  /\ UNCHANGED <<boards, made, based, rows, imported, objects, jobs, due, now, cycle, late,
                 abandoned, stranded, bFaults>>

\* The uploads differ in what they accept, and in a PDF being split into pages.
upload_board_image(h, b) == StartUpload(h, b, "media")
upload_board_audio(h, b) == StartUpload(h, b, "media")
upload_board_video(h, b) == StartUpload(h, b, "media")
upload_board_file(h, b) == StartUpload(h, b, "media")
upload_board_pdf(h, b) == StartUpload(h, b, "pdf")

\* The prefix of board b has been listed for the last time, or is about to be.
Listed(b) ==
  /\ b \notin boards
  /\ ~Queued(b) \/ (cycle.pc \in {"delete", "complete"} /\ cycle.job = b)

\* upload_to_storage.
Put(h, piece) ==
  /\ objects' = objects \cup {Object(h, piece)}
  /\ late' = IF Listed(bReq[h].board) THEN late \cup {bReq[h].file} ELSE late

\* After an error the object may be there or not.
PutFails(h, piece) == Fault /\ (Put(h, piece) \/ UNCHANGED <<objects, late>>)

\* The pages of a PDF come first.
StorePages(h) ==
  /\ bPc[h] = "page"
  /\ \/ Put(h, "page") /\ Goto(h, "object") /\ UNCHANGED bFaults
     \/ PutFails(h, "page") /\ Goto(h, "prefix")
  /\ UNCHANGED <<boards, made, based, rows, imported, files, jobs, due, bReq, now, cycle,
                 abandoned, stranded>>

\* A failed upload of a media file ends the request and leaves what was stored.
StoreObject(h) ==
  /\ bPc[h] = "object"
  /\ \/ /\ Put(h, "file") /\ Goto(h, "record")
        /\ UNCHANGED <<bReq, abandoned, bFaults>>
     \/ /\ PutFails(h, "file")
        /\ IF bReq[h].kind = "pdf"
           THEN Goto(h, "prefix") /\ UNCHANGED <<bReq, abandoned>>
           ELSE Done(h) /\ abandoned' = abandoned \cup {bReq[h].file}
  /\ UNCHANGED <<boards, made, based, rows, imported, files, jobs, due, now, cycle, stranded>>

Row(h) == [board |-> bReq[h].board, file |-> bReq[h].file]

\* Mutant of insert_board_file: the unlocked look is taken to be enough.
insert_board_fileMutant(h) == bReq[h].board \in boards

\* insert_board_file: the quota under the lock, and a board for the foreign key.
insert_board_file(h) == evaluate_storage(1) /\ bReq[h].board \in boards

\* record_uploaded_file; a commit whose answer is lost counts as an error.
RecordFile(h) ==
  /\ bPc[h] = "record"
  /\ \/ insert_board_file(h) /\ rows' = rows \cup {Row(h)} /\ Done(h) /\ UNCHANGED bFaults
     \/ ~insert_board_file(h) /\ Goto(h, "clean") /\ UNCHANGED <<rows, bReq, bFaults>>
     \/ /\ Fault /\ Goto(h, "clean") /\ UNCHANGED bReq
        /\ \/ insert_board_file(h) /\ rows' = rows \cup {Row(h)}
           \/ UNCHANGED rows
  /\ UNCHANGED <<boards, made, based, imported, objects, files, jobs, due, now, cycle, late,
                 abandoned, stranded>>

\* record_uploaded_file deletes the object it could not record; an error is logged.
CleanObject(h) ==
  /\ bPc[h] = "clean"
  /\ \/ objects' = objects \ {Object(h, "file")} /\ UNCHANGED <<abandoned, bFaults>>
     \/ Fault /\ abandoned' = abandoned \cup {bReq[h].file} /\ UNCHANGED objects
  /\ IF bReq[h].kind = "pdf" THEN Goto(h, "prefix") /\ UNCHANGED bReq ELSE Done(h)
  /\ UNCHANGED <<boards, made, based, rows, imported, files, jobs, due, now, cycle, late, stranded>>

\* cleanup_failed_pdf_upload: everything below the document's prefix.
CleanDocument(h) ==
  /\ bPc[h] = "prefix"
  /\ \/ objects' = objects \ OfFile(bReq[h].file) /\ UNCHANGED <<abandoned, bFaults>>
     \/ Fault /\ abandoned' = abandoned \cup {bReq[h].file} /\ UNCHANGED objects
  /\ Done(h)
  /\ UNCHANGED <<boards, made, based, rows, imported, files, jobs, due, now, cycle, late, stranded>>

-----------------------------------------------------------------------------
(* import_board *)

\* Mutant of ImportBoard: the board is created before the archive is looked at.
ImportBoardMutant(h, n, valid) ==
  /\ bPc[h] = "idle"
  /\ evaluate_storage(n) /\ db_create_board
  /\ IF valid
     THEN /\ bReq' = [bReq EXCEPT ![h] = [NoBoardReq EXCEPT !.board = made + 1, !.kind = "import", !.left = n]]
          /\ Goto(h, "asset")
     ELSE UNCHANGED <<bReq, bPc>>
  /\ UNCHANGED <<based, rows, imported, objects, files, jobs, due, now, cycle, late,
                 abandoned, stranded, bFaults>>

\* The archive of n assets is read, validated and held against the quotas first.
ImportBoard(h, n, valid) ==
  /\ bPc[h] = "idle"
  /\ valid
  /\ evaluate_storage(n) /\ db_create_board
  /\ bReq' = [bReq EXCEPT ![h] = [NoBoardReq EXCEPT !.board = made + 1, !.kind = "import", !.left = n]]
  /\ Goto(h, "asset")
  /\ UNCHANGED <<based, rows, imported, objects, files, jobs, due, now, cycle, late,
                 abandoned, stranded, bFaults>>

\* The assets one by one, each under a key of its own; an error undoes the import.
ImportAsset(h) ==
  /\ bPc[h] = "asset"
  /\ bReq[h].left > 0
  /\ files < MaxFiles
  /\ files' = files + 1
  /\ objects' = objects \cup {[board |-> bReq[h].board, file |-> files + 1, piece |-> "file"]}
  /\ late' = IF Listed(bReq[h].board) THEN late \cup {files + 1} ELSE late
  /\ \/ /\ bReq' = [bReq EXCEPT ![h].left = @ - 1, ![h].put = @ \cup {files + 1}]
        /\ UNCHANGED <<bPc, abandoned, bFaults>>
     \/ /\ Fault /\ Goto(h, "unput")
        /\ abandoned' = abandoned \cup {files + 1} /\ UNCHANGED bReq
  /\ UNCHANGED <<boards, made, based, rows, imported, jobs, due, now, cycle, stranded>>

\* record_imported_storage: the quota again, under the lock, for a board that is there.
RecordImport(h) ==
  /\ bPc[h] = "asset" /\ bReq[h].left = 0
  /\ LET b == bReq[h].board
         n == Cardinality(bReq[h].put)
     IN \/ /\ evaluate_storage(n) /\ b \in boards
           /\ imported' = imported \cup {[board |-> b, file |-> f] : f \in bReq[h].put}
           /\ Goto(h, "base") /\ UNCHANGED bFaults
        \/ ~(evaluate_storage(n) /\ b \in boards) /\ Goto(h, "unput") /\ UNCHANGED <<imported, bFaults>>
        \/ Fault /\ Goto(h, "unput") /\ UNCHANGED imported
  /\ UNCHANGED <<boards, made, based, rows, objects, files, jobs, due, bReq, now, cycle, late,
                 abandoned, stranded>>

\* The objects of the failed import are deleted, errors ignored, and then the board.
UnputAssets(h) ==
  /\ bPc[h] = "unput"
  /\ \/ objects' = {o \in objects : o.file \notin bReq[h].put} /\ UNCHANGED <<abandoned, bFaults>>
     \/ /\ Fault
        /\ \E f \in bReq[h].put :
             /\ objects' = {o \in objects : o.file \notin bReq[h].put \ {f}}
             /\ abandoned' = abandoned \cup {f}
  /\ Goto(h, "undo")
  /\ UNCHANGED <<boards, made, based, rows, imported, files, jobs, due, bReq, now, cycle, late, stranded>>

\* insert_snapshot and upsert_base_cas: a failure now leaves the board as it is.
ImportBase(h) ==
  /\ bPc[h] = "base"
  /\ Done(h)
  /\ \/ bReq[h].board \in boards /\ based' = based \cup {bReq[h].board} /\ UNCHANGED <<stranded, bFaults>>
     \/ bReq[h].board \notin boards /\ UNCHANGED <<based, stranded, bFaults>>
     \/ Fault /\ stranded' = stranded \cup {bReq[h].board} /\ UNCHANGED based
  /\ UNCHANGED <<boards, made, rows, imported, objects, files, jobs, due, now, cycle, late, abandoned>>

-----------------------------------------------------------------------------
(* Deletion *)

\* delete_board: the row, and a detached first pass over the prefix.
DeleteBoard(b) ==
  /\ b \in boards
  /\ delete_boards({b})
  /\ now' = [now EXCEPT ![b] = [NoPass EXCEPT !.pc = "list"]]
  /\ UNCHANGED <<made, objects, files, due, bPc, bReq, cycle, late, abandoned, stranded, bFaults>>

\* delete_project and the deletion of the account: the rows go by cascade.
DeleteOwner ==
  /\ boards # {}
  /\ delete_boards(boards)
  /\ UNCHANGED <<made, objects, files, due, bPc, bReq, now, cycle, late, abandoned, stranded, bFaults>>

\* A call on the prefix of b is refused.
Refused(b) == IF b \in Poisoned THEN UNCHANGED bFaults ELSE Fault

\* Mutant of record_failure: a failed job keeps its place.
record_failureMutant(b) == UNCHANGED jobs

\* record_failure: updated_at moves a failed job behind the others.
record_failure(b) == jobs' = IF Queued(b) THEN Append(Without(b), b) ELSE jobs

\* A pass ends on a refused call. An outage can take the statement that would record
\* it too; the job then keeps its place.
Fails(b) == (Refused(b) /\ record_failure(b)) \/ (Fault /\ UNCHANGED jobs)

\* cleanup_board_storage_now: the keys below the prefix, while there is a job.
ListNow(b) ==
  /\ now[b].pc = "list"
  /\ IF Queued(b)
     THEN \/ now' = [now EXCEPT ![b] = [pc |-> "delete", keys |-> Prefix(b)]] /\ UNCHANGED <<jobs, bFaults>>
          \/ Fails(b) /\ now' = [now EXCEPT ![b] = NoPass]
     ELSE now' = [now EXCEPT ![b] = NoPass] /\ UNCHANGED <<jobs, bFaults>>
  /\ UNCHANGED <<boards, made, based, rows, imported, objects, files, due, bPc, bReq, cycle,
                 late, abandoned, stranded>>

\* The job stays, whether the pass succeeds or not.
DeleteNow(b) ==
  /\ now[b].pc = "delete"
  /\ now' = [now EXCEPT ![b] = NoPass]
  /\ \/ objects' = objects \ now[b].keys /\ UNCHANGED <<jobs, bFaults>>
     \/ Fails(b) /\ UNCHANGED objects
  /\ UNCHANGED <<boards, made, based, rows, imported, files, due, bPc, bReq, cycle, late,
                 abandoned, stranded>>

\* cleanup_after passes.
JobDue ==
  /\ \E i \in DOMAIN jobs : jobs[i] \notin due /\ due' = due \cup {jobs[i]}
  /\ UNCHANGED <<boards, made, based, rows, imported, objects, files, jobs, bPc, bReq, now,
                 cycle, late, abandoned, stranded, bFaults>>

\* run_cleanup_cycle: a tick lists the due jobs, oldest updated_at first, at most one.
ListPending ==
  /\ cycle = NoCycle
  /\ \E i \in DOMAIN jobs :
       /\ jobs[i] \in due /\ \A j \in 1..(i - 1) : jobs[j] \notin due
       /\ cycle' = [NoCycle EXCEPT !.job = jobs[i], !.pc = "list"]
  /\ UNCHANGED <<boards, made, based, rows, imported, objects, files, jobs, due, bPc, bReq,
                 now, late, abandoned, stranded, bFaults>>

\* process_job, delete_objects_with_prefix: all keys are listed before any is deleted.
ListKeys ==
  /\ cycle.pc = "list"
  /\ LET b == cycle.job
     IN \/ cycle' = [cycle EXCEPT !.pc = "delete", !.keys = Prefix(b)] /\ UNCHANGED <<jobs, bFaults>>
        \/ Fails(b) /\ cycle' = NoCycle
  /\ UNCHANGED <<boards, made, based, rows, imported, objects, files, due, bPc, bReq, now, late,
                 abandoned, stranded>>

\* Mutant of DeleteKeys: the job is completed whatever became of its objects.
DeleteKeysMutant ==
  /\ cycle.pc = "delete"
  /\ LET b == cycle.job
     IN \/ /\ objects' = objects \ cycle.keys
           /\ cycle' = [cycle EXCEPT !.pc = "complete"] /\ UNCHANGED bFaults
        \/ /\ Refused(b) /\ UNCHANGED objects
           /\ cycle' = [cycle EXCEPT !.pc = "complete"]
  /\ UNCHANGED <<boards, made, based, rows, imported, files, jobs, due, bPc, bReq, now, late,
                 abandoned, stranded>>

\* The listed keys are deleted one by one; an error keeps the job.
DeleteKeys ==
  /\ cycle.pc = "delete"
  /\ LET b == cycle.job
     IN \/ /\ objects' = objects \ cycle.keys
           /\ cycle' = [cycle EXCEPT !.pc = "complete"] /\ UNCHANGED <<jobs, bFaults>>
        \/ /\ Fails(b)
           /\ \/ UNCHANGED objects
              \/ \E o \in cycle.keys : objects' = objects \ {o}
           /\ cycle' = NoCycle
  /\ UNCHANGED <<boards, made, based, rows, imported, files, due, bPc, bReq, now, late,
                 abandoned, stranded>>

\* complete: the job is done; a failed statement leaves it to the next tick.
CompleteJob ==
  /\ cycle.pc = "complete"
  /\ LET b == cycle.job
     IN \/ jobs' = Without(b) /\ due' = due \ {b} /\ UNCHANGED bFaults
        \/ Fault /\ UNCHANGED <<jobs, due>>
  /\ cycle' = NoCycle
  /\ UNCHANGED <<boards, made, based, rows, imported, objects, files, bPc, bReq, now, late,
                 abandoned, stranded>>

\* The process dies: requests, first passes and the cycle end where they are.
Crash ==
  /\ Fault
  /\ \E h \in Handlers : bPc[h] # "idle"
  /\ abandoned' = abandoned \cup UNION {{bReq[h].file} \cup bReq[h].put : h \in Handlers}
  /\ stranded' = stranded \cup {bReq[h].board : h \in Handlers}
  /\ bPc' = [h \in Handlers |-> "idle"] /\ bReq' = [h \in Handlers |-> NoBoardReq]
  /\ now' = [b \in Boards |-> NoPass] /\ cycle' = NoCycle
  /\ UNCHANGED <<boards, made, based, rows, imported, objects, files, jobs, due, late>>

CleanupCycle == ListPending \/ ListKeys \/ DeleteKeys \/ CompleteJob

Next ==
  \/ \E h \in Handlers :
       \/ CreateBoard(h) \/ SeedBoard(h) \/ UndoBoard(h)
       \/ \E b \in Boards :
            \/ upload_board_image(h, b) \/ upload_board_audio(h, b) \/ upload_board_video(h, b)
            \/ upload_board_file(h, b) \/ upload_board_pdf(h, b)
       \/ StorePages(h) \/ StoreObject(h) \/ RecordFile(h) \/ CleanObject(h) \/ CleanDocument(h)
       \/ \E n \in 1..2, valid \in BOOLEAN : ImportBoard(h, n, valid)
       \/ ImportAsset(h) \/ RecordImport(h) \/ UnputAssets(h) \/ ImportBase(h)
  \/ \E b \in Boards : DeleteBoard(b) \/ ListNow(b) \/ DeleteNow(b)
  \/ DeleteOwner \/ JobDue \/ CleanupCycle \/ Crash

-----------------------------------------------------------------------------
(* Properties *)

(***************************************************************************)
(* The owner's boards and storage stay within the tier's limits, however   *)
(* creations, uploads and imports overlap: the check that counts is made   *)
(* under the quota lock, and the earlier ones only save work.              *)
(***************************************************************************)
QuotaHolds == Cardinality(boards) <= BoardLimit /\ used <= StorageLimit

(***************************************************************************)
(* Once a board is gone, its job is done and nobody uploads to it, nothing *)
(* is left below its prefix, whatever calls failed on the way, except for  *)
(* a file that was stored after the prefix had been listed for the last    *)
(* time by an upload that then died or could not clean up after itself.    *)
(***************************************************************************)
NoOrphanLeft ==
  \A o \in objects :
    \/ o.board \in boards \/ At(o.board) # {}
    \/ Queued(o.board)
    \/ o.file \in late \cap abandoned

(***************************************************************************)
(* A board whose creation or import is over has a canonical base, unless   *)
(* the process died, the deletion meant to undo it failed or one of the    *)
(* last statements of an import did. An archive that is refused leaves no  *)
(* board.                                                                  *)
(***************************************************************************)
BoardInitialised ==
  \A b \in boards : b \in based \/ b \in stranded \/ \E h \in At(b) : bReq[h].kind \in {"create", "import"}

(***************************************************************************)
(* The job of a deleted board is completed even while another board's      *)
(* prefix cannot be emptied and the batch has room for one job.            *)
(***************************************************************************)
JobsComplete ==
  \A b \in Boards \ Poisoned : Queued(b) ~> ~Queued(b)

\* The ticker of the worker goes on, and time passes.
Fairness == WF_storageVars(JobDue) /\ WF_storageVars(ListPending) /\ WF_storageVars(ListKeys \/ DeleteKeys \/ CompleteJob)
=============================================================================
