------------------------------ MODULE AssetGc ------------------------------
(***************************************************************************)
(* The collection of files that are no longer on one board. A pass reads   *)
(* the references from the read model of the canonical state and deletes   *)
(* objects in a bucket that knows no transactions; a lock of the board's   *)
(* row, the fence, keeps commits away meanwhile. Media files are found by  *)
(* their rows, documents by a listing.                                     *)
(***************************************************************************)
EXTENDS Integers, FiniteSets

CONSTANTS
  Media,        \* image, audio, video and other files
  Documents,    \* PDF documents: pages and the original
  MaxGcFaults   \* bound: calls that fail

VARIABLES
  step,       \* file -> how far its upload is
  objs,       \* the bucket: [file, piece]
  fileRows,   \* board_files
  aged,       \* files whose row, or newest object, is older than the grace period
  placed,     \* files the canonical state refers to
  ready,      \* the read model is at the head and not blocked
  gc,         \* the pass: where it is, the references and what is left to delete
  fence,      \* the pass holds the fence
  whole,      \* history: files placed while all their objects were there
  gcFaults    \* calls that have failed

gcVars == <<step, objs, fileRows, aged, placed, ready, gc, fence, whole, gcFaults>>

Files == Media \cup Documents

Pieces(f) == IF f \in Documents THEN {"page", "original"} ELSE {"file"}
Objects(f) == {[file |-> f, piece |-> p] : p \in Pieces(f)}

NoGc == [pc |-> "idle", refs |-> {}, keys |-> {}, left |-> {}]

Init ==
  /\ step = [f \in Files |-> "none"]
  /\ objs = {} /\ fileRows = {} /\ aged = {}
  /\ placed = {} /\ ready = TRUE
  /\ gc = NoGc /\ fence = FALSE /\ whole = {}
  /\ gcFaults = 0

Fault == gcFaults < MaxGcFaults /\ gcFaults' = gcFaults + 1

-----------------------------------------------------------------------------
(* Uploads and commits *)

\* The pages of a document, then its original; a media file in one object. A new
\* object makes a document young again.
Upload(f) ==
  /\ \/ /\ step[f] = "none" /\ f \in Documents
        /\ objs' = objs \cup {[file |-> f, piece |-> "page"]}
        /\ step' = [step EXCEPT ![f] = "pages"]
     \/ /\ step[f] = (IF f \in Documents THEN "pages" ELSE "none")
        /\ objs' = objs \cup {[file |-> f, piece |-> IF f \in Documents THEN "original" ELSE "file"]}
        /\ step' = [step EXCEPT ![f] = "stored"]
  /\ aged' = aged \ {f}
  /\ UNCHANGED <<fileRows, placed, ready, gc, fence, whole, gcFaults>>

\* insert_board_file: created_at is the time of the row.
Record(f) ==
  /\ step[f] = "stored"
  /\ step' = [step EXCEPT ![f] = "done"]
  /\ fileRows' = fileRows \cup {f}
  /\ aged' = IF f \in Media THEN aged \ {f} ELSE aged
  /\ UNCHANGED <<objs, placed, ready, gc, fence, whole, gcFaults>>

\* The grace period goes by.
Age(f) ==
  /\ step[f] # "none" /\ f \notin aged
  /\ aged' = aged \cup {f}
  /\ UNCHANGED <<step, objs, fileRows, placed, ready, gc, fence, whole, gcFaults>>

\* Mutant of Commit: a commit does not wait for the fence.
CommitMutant(P) ==
  /\ P \subseteq {f \in Files : step[f] = "done"}
  /\ placed' = P
  /\ ready' \in BOOLEAN
  /\ whole' = {f \in P : f \in whole \/ (f \notin placed /\ Objects(f) \subseteq objs)}
  /\ UNCHANGED <<step, objs, fileRows, aged, gc, fence, gcFaults>>

\* A commit changes what is on the board, by undo too, and replaces the read model
\* in the same transaction, under the fence.
Commit(P) ==
  /\ ~fence
  /\ P # placed
  /\ P \subseteq {f \in Files : step[f] = "done"}
  /\ placed' = P
  /\ ready' \in BOOLEAN
  /\ whole' = {f \in P : f \in whole \/ (f \notin placed /\ Objects(f) \subseteq objs)}
  /\ UNCHANGED <<step, objs, fileRows, aged, gc, fence, gcFaults>>

-----------------------------------------------------------------------------
(* The pass that post_snapshot spawns *)

\* read_if_fresh_tx: the references are those of the head, or there is no pass.
read_if_fresh_tx == ready

\* gc_orphaned_board_storage_from_read_model: the fence, then read_if_fresh_tx.
StartGc ==
  /\ gc.pc = "idle" /\ ~fence
  /\ read_if_fresh_tx
  /\ gc' = [NoGc EXCEPT !.pc = "docs", !.refs = placed]
  /\ fence' = TRUE
  /\ UNCHANGED <<step, objs, fileRows, aged, placed, ready, whole, gcFaults>>

\* gc_orphaned_pdf_docs: documents by listing; a failed listing ends this part.
ListDocs ==
  /\ gc.pc = "docs"
  /\ \/ /\ gc' = [gc EXCEPT !.pc = "pages", !.keys =
                    {o \in objs : o.file \in (Documents \cap aged) \ gc.refs}]
        /\ UNCHANGED gcFaults
     \/ Fault /\ gc' = [gc EXCEPT !.pc = "rows"]
  /\ UNCHANGED <<step, objs, fileRows, aged, placed, ready, fence, whole>>

\* One key after the other; a failure is logged.
DeletePage ==
  /\ gc.pc = "pages"
  /\ \E o \in gc.keys :
       /\ gc' = [gc EXCEPT !.keys = @ \ {o}]
       /\ \/ objs' = objs \ {o} /\ UNCHANGED gcFaults
          \/ Fault /\ UNCHANGED objs
  /\ UNCHANGED <<step, fileRows, aged, placed, ready, fence, whole>>

DocsDone ==
  /\ gc.pc = "pages" /\ gc.keys = {}
  /\ gc' = [gc EXCEPT !.pc = "rows"]
  /\ UNCHANGED <<step, objs, fileRows, aged, placed, ready, fence, whole, gcFaults>>

\* gc_orphaned_board_files: media files by their rows.
ListRows ==
  /\ gc.pc = "rows"
  /\ \/ /\ gc' = [gc EXCEPT !.pc = "files", !.left = (fileRows \cap Media \cap aged) \ gc.refs]
        /\ UNCHANGED gcFaults
     \/ Fault /\ gc' = [gc EXCEPT !.pc = "release"]
  /\ UNCHANGED <<step, objs, fileRows, aged, placed, ready, fence, whole>>

\* Mutant of DeleteFile: the row goes first.
DeleteFileMutant ==
  /\ gc.pc = "files"
  /\ \E f \in gc.left :
       /\ fileRows' = fileRows \ {f}
       /\ gc' = [gc EXCEPT !.left = @ \ {f}]
       /\ \/ objs' = objs \ Objects(f) /\ UNCHANGED gcFaults
          \/ Fault /\ UNCHANGED objs
  /\ UNCHANGED <<step, aged, placed, ready, fence, whole>>

\* The object; a failure keeps the row for the next pass.
DeleteFile ==
  /\ gc.pc = "files"
  /\ \E f \in gc.left :
       \/ /\ objs' = objs \ Objects(f)
          /\ gc' = [gc EXCEPT !.pc = "row", !.keys = Objects(f)] /\ UNCHANGED gcFaults
       \/ Fault /\ gc' = [gc EXCEPT !.left = @ \ {f}] /\ UNCHANGED objs
  /\ UNCHANGED <<step, fileRows, aged, placed, ready, fence, whole>>

\* delete_board_file: then the row; a failure is logged.
DeleteRow ==
  /\ gc.pc = "row"
  /\ \E o \in gc.keys :
       /\ gc' = [gc EXCEPT !.pc = "files", !.keys = {}, !.left = @ \ {o.file}]
       /\ \/ fileRows' = fileRows \ {o.file} /\ UNCHANGED gcFaults
          \/ Fault /\ UNCHANGED fileRows
  /\ UNCHANGED <<step, objs, aged, placed, ready, fence, whole>>

\* The transaction that holds the fence ends.
ReleaseFence ==
  /\ gc.pc = "release" \/ (gc.pc = "files" /\ gc.left = {})
  /\ gc' = NoGc /\ fence' = FALSE
  /\ UNCHANGED <<step, objs, fileRows, aged, placed, ready, whole, gcFaults>>

\* The process dies, and with it the pass and its transaction.
CrashGc ==
  /\ gc.pc # "idle" /\ Fault
  /\ gc' = NoGc /\ fence' = FALSE
  /\ UNCHANGED <<step, objs, fileRows, aged, placed, ready, whole>>

Next ==
  \/ \E f \in Files : Upload(f) \/ Record(f) \/ Age(f)
  \/ \E P \in SUBSET Files : Commit(P)
  \/ StartGc \/ ListDocs \/ DeletePage \/ DocsDone \/ ListRows \/ DeleteFile \/ DeleteRow
  \/ ReleaseFence \/ CrashGc

-----------------------------------------------------------------------------
(* Properties *)

(***************************************************************************)
(* A file that was placed on the board while its objects were there, and   *)
(* is still on it, keeps all of them: no pass, working from references it  *)
(* has read before, deletes what a commit has put back since.              *)
(***************************************************************************)
PlacedFileStays == \A f \in whole : Objects(f) \subseteq objs

(***************************************************************************)
(* Whatever fails during a pass, the object of a finished media upload is  *)
(* named by a row, so that the next pass can find it.                      *)
(***************************************************************************)
ObjectsRecorded ==
  \A f \in Media : step[f] = "done" /\ Objects(f) \subseteq objs => f \in fileRows
=============================================================================
