------------------------------ MODULE MCBoards ------------------------------
(***************************************************************************)
(* Four parts of the boards service that share no state in the models: a   *)
(* behaviour exercises the one that part names.                            *)
(***************************************************************************)
EXTENDS Integers, FiniteSets, TLC

CONSTANTS
  Handlers,
  MaxBoards, MaxFiles, BoardLimit, StorageLimit, Poisoned, MaxStorageFaults,
  Media, Documents, MaxGcFaults,
  Replicas, PreviewInterval, MaxVersion, MaxTime, MaxPreviewFaults,
  Elements, MaxPages

\* The limits of a tier are not negative.
ASSUME BoardsAssumption == BoardLimit \in Nat /\ StorageLimit \in Nat

VARIABLES
  part,
  boards, made, based, rows, imported, objects, files, jobs, due, bPc, bReq, now, cycle,
  late, abandoned, stranded, bFaults,
  step, objs, fileRows, aged, placed, ready, gc, fence, whole, gcFaults,
  time, present, seeded, activated, importPc, head, updatedAt, commitAt, generatedAt, named,
  image, emptied, rPc, loaded, behind, restored, torn, prFaults,
  source, bucket, reader, aPc, archive, intact, result

BoardStorage == INSTANCE BoardStorage
AssetGc == INSTANCE AssetGc
Previews == INSTANCE Previews
BoardArchive == INSTANCE BoardArchive

storageVars == <<boards, made, based, rows, imported, objects, files, jobs, due, bPc, bReq,
                 now, cycle, late, abandoned, stranded, bFaults>>
gcVars == <<step, objs, fileRows, aged, placed, ready, gc, fence, whole, gcFaults>>

previewVars == <<time, present, seeded, activated, importPc, head, updatedAt, commitAt,
                 generatedAt, named, image, emptied, rPc, loaded, behind, restored, torn,
                 prFaults>>
archiveVars == <<source, bucket, reader, aPc, archive, intact, result>>

\* The board that is exported matters only to its own part, and so does the one that
\* is imported.
Init ==
  /\ BoardStorage!Init /\ AssetGc!Init /\ Previews!Init /\ BoardArchive!Init
  /\ part \in {"storage", "gc", "previews", "archive"}
  /\ part # "archive" => source = BoardArchive!Bare /\ reader = "owner"
  /\ part # "previews" => importPc = "none"

Next ==
  /\ UNCHANGED part
  /\ \/ /\ part = "storage" /\ BoardStorage!Next
        /\ UNCHANGED <<gcVars, previewVars, archiveVars>>
     \/ /\ part = "gc" /\ AssetGc!Next
        /\ UNCHANGED <<storageVars, previewVars, archiveVars>>
     \/ /\ part = "previews" /\ Previews!Next
        /\ UNCHANGED <<storageVars, gcVars, archiveVars>>
     \/ /\ part = "archive" /\ BoardArchive!Next
        /\ UNCHANGED <<storageVars, gcVars, previewVars>>

Spec == Init /\ [][Next]_<<part, storageVars, gcVars, previewVars, archiveVars>>

-----------------------------------------------------------------------------
\* BoardStorage: boards and storage stay within the tier's limits, the prefix of
\* a deleted board ends up empty, and a board that has been created has a base.
StorageSafe ==
  BoardStorage!QuotaHolds /\ BoardStorage!NoOrphanLeft /\ BoardStorage!BoardInitialised

\* AssetGc: a file on the board keeps its objects, and an object that is there is
\* named by a row.
CollectionSafe == AssetGc!PlacedFileStays /\ AssetGc!ObjectsRecorded

\* Previews: the thumbnail shows the board as it is, is there when a row names it,
\* and is gone when the board is.
PreviewSafe == Previews!PreviewFresh /\ Previews!PreviewThere /\ Previews!NoPreviewLeft

\* BoardArchive: what is exported can be imported, and comes back as it was.
ArchiveSafe == BoardArchive!RoundTrip /\ BoardArchive!ImportFaithful

\* Requests are interchangeable, and so are replicas.
Symmetry == Permutations(Handlers) \cup Permutations(Replicas)
=============================================================================
