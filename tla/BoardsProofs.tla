----------------------------- MODULE BoardsProofs -----------------------------
(***************************************************************************)
(* The boards service: the collection of files, the thumbnail of a board,  *)
(* its rows and objects, and its archive, for any number of files,         *)
(* replicas, requests, boards, elements and pages, any number of failures  *)
(* and any limits.                                                         *)
(***************************************************************************)
EXTENDS MCBoards, FiniteSetTheorems, SequenceTheorems, TLAPS

-----------------------------------------------------------------------------
\* A step of the whole is a step of each part or leaves it alone.
LEMMA BoardsStep ==
  ASSUME [Next]_<<part, storageVars, gcVars, previewVars, archiveVars>>
  PROVE  /\ BoardStorage!Next \/ UNCHANGED storageVars
         /\ AssetGc!Next \/ UNCHANGED gcVars
         /\ Previews!Next \/ UNCHANGED previewVars
         /\ BoardArchive!Next \/ UNCHANGED archiveVars
  BY DEF Next

-----------------------------------------------------------------------------
(* AssetGc *)

\* The states of a pass. While it deletes a row it remembers the file's object.
GcPlaces == {"idle", "docs", "pages", "rows", "files", "row", "release"}
GcObjects == [file : AssetGc!Files, piece : {"page", "original", "file"}]
Passes == [pc : GcPlaces, refs : SUBSET AssetGc!Files, keys : SUBSET GcObjects, left : SUBSET AssetGc!Files]

GcTypes ==
  /\ step \in [AssetGc!Files -> {"none", "pages", "stored", "done"}]
  /\ fileRows \subseteq {f \in AssetGc!Files : step[f] = "done"}
  /\ objs \subseteq GcObjects /\ gc \in Passes
  /\ placed \subseteq AssetGc!Files /\ whole \subseteq placed

\* A pass holds the fence, so that its references are those of the board until it ends.
Fenced == gc.pc # "idle" => fence /\ gc.refs = placed

\* What is left to delete is not on the board.
Unplaced ==
  /\ gc.pc = "pages" => \A o \in gc.keys : o.file \notin placed
  /\ gc.pc \in {"files", "row"} => gc.left \subseteq fileRows \ placed

\* A row goes after its object: nothing can put that back, since the upload is over.
ObjectGone ==
  gc.pc = "row" => \E f \in gc.left : gc.keys = AssetGc!Objects(f) /\ AssetGc!Objects(f) \cap objs = {}

GcInv ==
  /\ GcTypes /\ Fenced /\ Unplaced /\ ObjectGone
  /\ AssetGc!PlacedFileStays /\ AssetGc!ObjectsRecorded

\* Every file has an object.
LEMMA ObjectsOfFile ==
  ASSUME NEW f \in AssetGc!Files
  PROVE  /\ AssetGc!Objects(f) \subseteq GcObjects
         /\ AssetGc!Objects(f) # {}
         /\ \A o \in AssetGc!Objects(f) : o.file = f
  <1>1. AssetGc!Pieces(f) # {} /\ AssetGc!Pieces(f) \subseteq {"page", "original", "file"}
    BY DEF AssetGc!Pieces
  <1>2. \A p \in AssetGc!Pieces(f) : [file |-> f, piece |-> p] \in GcObjects
    BY <1>1 DEF GcObjects
  <1>3. AssetGc!Objects(f) \subseteq GcObjects
    BY <1>2 DEF AssetGc!Objects
  <1>4. AssetGc!Objects(f) # {}
    BY <1>1 DEF AssetGc!Objects
  <1>5. \A o \in AssetGc!Objects(f) : o.file = f
    BY DEF AssetGc!Objects
  <1> QED
    BY <1>3, <1>4, <1>5

\* Nothing has been uploaded at the start.
LEMMA GcInit == Init => GcInv
  <1> SUFFICES ASSUME Init PROVE GcInv
    OBVIOUS
  <1>1. AssetGc!Init
    BY DEF Init
  <1> QED
    BY <1>1, ObjectsOfFile DEF GcInv, GcTypes, GcPlaces, GcObjects, Passes, Fenced, Unplaced, ObjectGone,
       AssetGc!PlacedFileStays, AssetGc!ObjectsRecorded, AssetGc!Init, AssetGc!NoGc, AssetGc!Files

\* Uploads, rows and the passing of time.
LEMMA GcUpload ==
  ASSUME GcInv, NEW f \in AssetGc!Files,
         AssetGc!Upload(f) \/ AssetGc!Record(f) \/ AssetGc!Age(f)
  PROVE  GcInv'
  <1>0. /\ GcTypes /\ Fenced /\ Unplaced /\ ObjectGone
        /\ AssetGc!PlacedFileStays /\ AssetGc!ObjectsRecorded
    BY DEF GcInv
  <1>1. CASE AssetGc!Upload(f)
    <2>1. step[f] \in {"none", "pages"} /\ step' \in [AssetGc!Files -> {"none", "pages", "stored", "done"}]
      BY <1>0, <1>1 DEF AssetGc!Upload, GcTypes
    <2>2. \A e \in AssetGc!Files : step'[e] = "done" <=> step[e] = "done"
      BY <1>0, <1>1 DEF AssetGc!Upload, GcTypes
    <2>3. PICK p \in {"page", "original", "file"} : objs' = objs \cup {[file |-> f, piece |-> p]}
      BY <1>1 DEF AssetGc!Upload
    <2>o. objs' \subseteq GcObjects
      BY <1>0, <2>3 DEF GcTypes, GcObjects
    <2>4. UNCHANGED <<fileRows, placed, gc, fence, whole>>
      BY <1>1 DEF AssetGc!Upload
    <2>5. GcTypes' /\ Fenced' /\ Unplaced'
      BY <1>0, <2>1, <2>2, <2>4, <2>o DEF GcTypes, Fenced, Unplaced
    <2>6. ObjectGone'
      <3> SUFFICES ASSUME gc.pc = "row"
                   PROVE  \E e \in gc.left : gc.keys = AssetGc!Objects(e) /\ AssetGc!Objects(e) \cap objs' = {}
        BY <2>4 DEF ObjectGone
      <3>1. PICK e \in gc.left : gc.keys = AssetGc!Objects(e) /\ AssetGc!Objects(e) \cap objs = {}
        BY <1>0 DEF ObjectGone
      <3>2. e \in AssetGc!Files /\ step[e] = "done"
        BY <1>0 DEF Unplaced, GcTypes
      <3>3. e # f
        BY <2>1, <3>2
      <3>4. [file |-> f, piece |-> p] \notin AssetGc!Objects(e)
        BY <3>2, <3>3, ObjectsOfFile
      <3> QED
        BY <2>3, <3>1, <3>4
    <2>7. AssetGc!PlacedFileStays'
      BY <1>0, <2>3, <2>4 DEF AssetGc!PlacedFileStays
    <2>8. AssetGc!ObjectsRecorded'
      <3> SUFFICES ASSUME NEW e \in Media, step'[e] = "done", AssetGc!Objects(e) \subseteq objs'
                   PROVE  e \in fileRows
        BY <2>4 DEF AssetGc!ObjectsRecorded
      <3>1. e \in AssetGc!Files /\ step[e] = "done" /\ e # f
        BY <2>1, <2>2 DEF AssetGc!Files
      <3>2. AssetGc!Objects(e) \subseteq objs
        BY <2>3, <3>1, ObjectsOfFile
      <3> QED
        BY <1>0, <3>1, <3>2 DEF AssetGc!ObjectsRecorded
    <2> QED
      BY <2>5, <2>6, <2>7, <2>8 DEF GcInv
  <1>2. CASE AssetGc!Record(f)
    <2>1. /\ step' = [step EXCEPT ![f] = "done"] /\ fileRows' = fileRows \cup {f}
          /\ UNCHANGED <<objs, placed, gc, fence, whole>> /\ step[f] = "stored"
      BY <1>2 DEF AssetGc!Record
    <2>2. GcTypes'
      BY <1>0, <2>1 DEF GcTypes
    <2>3. Fenced'
      BY <1>0, <2>1 DEF Fenced
    <2>4. Unplaced'
      BY <1>0, <2>1 DEF Unplaced
    <2>5. ObjectGone' /\ AssetGc!PlacedFileStays'
      BY <1>0, <2>1 DEF ObjectGone, AssetGc!PlacedFileStays
    <2>6. AssetGc!ObjectsRecorded'
      BY <1>0, <2>1 DEF AssetGc!ObjectsRecorded, GcTypes, AssetGc!Files
    <2> QED
      BY <2>2, <2>3, <2>4, <2>5, <2>6 DEF GcInv
  <1>3. CASE AssetGc!Age(f)
    <2>1. UNCHANGED <<step, objs, fileRows, placed, gc, fence, whole>>
      BY <1>3 DEF AssetGc!Age
    <2> QED
      BY <1>0, <2>1 DEF GcInv, GcTypes, Fenced, Unplaced, ObjectGone,
         AssetGc!PlacedFileStays, AssetGc!ObjectsRecorded
  <1> QED
    BY <1>1, <1>2, <1>3

\* A commit waits for the fence, so that it finds no pass.
LEMMA GcCommit ==
  ASSUME GcInv, NEW P \in SUBSET AssetGc!Files, AssetGc!Commit(P)
  PROVE  GcInv'
  <1>0. /\ GcTypes /\ Fenced /\ Unplaced /\ ObjectGone
        /\ AssetGc!PlacedFileStays /\ AssetGc!ObjectsRecorded
    BY DEF GcInv
  <1>1. /\ ~fence /\ placed' = P
        /\ whole' = {f \in P : f \in whole \/ (f \notin placed /\ AssetGc!Objects(f) \subseteq objs)}
        /\ UNCHANGED <<step, objs, fileRows, gc, fence>>
    BY DEF AssetGc!Commit
  <1>2. gc.pc = "idle"
    BY <1>0, <1>1 DEF Fenced
  <1>3. GcTypes' /\ Fenced' /\ Unplaced' /\ ObjectGone'
    BY <1>0, <1>1, <1>2 DEF GcTypes, Fenced, Unplaced, ObjectGone
  <1>4. AssetGc!PlacedFileStays' /\ AssetGc!ObjectsRecorded'
    BY <1>0, <1>1 DEF AssetGc!PlacedFileStays, AssetGc!ObjectsRecorded
  <1> QED
    BY <1>3, <1>4 DEF GcInv

\* The parts of the pass that delete nothing: its start, its listings and its end.
LEMMA GcLists ==
  ASSUME GcInv,
         AssetGc!StartGc \/ AssetGc!ListDocs \/ AssetGc!DocsDone \/ AssetGc!ListRows
           \/ AssetGc!ReleaseFence \/ AssetGc!CrashGc
  PROVE  GcInv'
  <1>0. /\ GcTypes /\ Fenced /\ Unplaced /\ ObjectGone
        /\ AssetGc!PlacedFileStays /\ AssetGc!ObjectsRecorded
    BY DEF GcInv
  <1>1. UNCHANGED <<step, objs, fileRows, placed, whole>>
    BY DEF AssetGc!StartGc, AssetGc!ListDocs, AssetGc!DocsDone, AssetGc!ListRows,
       AssetGc!ReleaseFence, AssetGc!CrashGc
  <1>2. AssetGc!PlacedFileStays' /\ AssetGc!ObjectsRecorded'
    BY <1>0, <1>1 DEF AssetGc!PlacedFileStays, AssetGc!ObjectsRecorded
  <1>3. gc' \in Passes /\ Fenced' /\ Unplaced' /\ ObjectGone'
    <2>1. CASE AssetGc!StartGc
      <3>1. gc' = [AssetGc!NoGc EXCEPT !.pc = "docs", !.refs = placed] /\ fence' = TRUE
        BY <2>1 DEF AssetGc!StartGc
      <3>2. placed \subseteq AssetGc!Files
        BY <1>0 DEF GcTypes
      <3>3. gc' = [pc |-> "docs", refs |-> placed, keys |-> {}, left |-> {}]
        BY <3>1 DEF AssetGc!NoGc
      <3>4. gc' \in Passes
        BY <3>2, <3>3 DEF Passes, GcPlaces
      <3> QED
        BY <1>1, <3>1, <3>3, <3>4 DEF Fenced, Unplaced, ObjectGone
    <2>2. CASE AssetGc!ListDocs
      <3>1. /\ gc.pc = "docs" /\ UNCHANGED fence
            /\ \/ gc' = [gc EXCEPT !.pc = "pages", !.keys =
                           {o \in objs : o.file \in (Documents \cap aged) \ gc.refs}]
               \/ gc' = [gc EXCEPT !.pc = "rows"]
        BY <2>2 DEF AssetGc!ListDocs
      <3>2. gc \in Passes /\ objs \subseteq GcObjects
        BY <1>0 DEF GcTypes
      <3>3. gc' \in Passes /\ gc'.refs = gc.refs /\ gc'.pc \in {"pages", "rows"}
        BY <3>1, <3>2 DEF Passes, GcPlaces
      <3>4. gc'.pc = "pages" => \A o \in gc'.keys : o.file \notin gc.refs
        BY <3>1, <3>2 DEF Passes
      <3> QED
        BY <1>0, <1>1, <3>1, <3>3, <3>4 DEF Fenced, Unplaced, ObjectGone
    <2>3. CASE AssetGc!DocsDone
      <3>1. gc.pc = "pages" /\ gc' = [gc EXCEPT !.pc = "rows"] /\ UNCHANGED fence
        BY <2>3 DEF AssetGc!DocsDone
      <3>2. gc' \in Passes /\ gc'.refs = gc.refs /\ gc'.pc = "rows"
        BY <1>0, <3>1 DEF GcTypes, Passes, GcPlaces
      <3> QED
        BY <1>0, <1>1, <3>1, <3>2 DEF Fenced, Unplaced, ObjectGone
    <2>4. CASE AssetGc!ListRows
      <3>1. /\ gc.pc = "rows" /\ UNCHANGED fence
            /\ \/ gc' = [gc EXCEPT !.pc = "files", !.left = (fileRows \cap Media \cap aged) \ gc.refs]
               \/ gc' = [gc EXCEPT !.pc = "release"]
        BY <2>4 DEF AssetGc!ListRows
      <3>2. gc \in Passes /\ fileRows \subseteq AssetGc!Files
        BY <1>0 DEF GcTypes
      <3>3. gc' \in Passes /\ gc'.refs = gc.refs /\ gc'.pc \in {"files", "release"}
        BY <3>1, <3>2 DEF Passes, GcPlaces
      <3>4. gc'.pc = "files" => gc'.left \subseteq fileRows \ gc.refs
        BY <3>1, <3>2 DEF Passes
      <3> QED
        BY <1>0, <1>1, <3>1, <3>3, <3>4 DEF Fenced, Unplaced, ObjectGone
    <2>5. CASE AssetGc!ReleaseFence \/ AssetGc!CrashGc
      <3>1. gc' = AssetGc!NoGc
        BY <2>5 DEF AssetGc!ReleaseFence, AssetGc!CrashGc
      <3>2. gc' \in Passes /\ gc'.pc = "idle"
        BY <3>1 DEF AssetGc!NoGc, Passes, GcPlaces
      <3> QED
        BY <3>2 DEF Fenced, Unplaced, ObjectGone
    <2> QED
      BY <2>1, <2>2, <2>3, <2>4, <2>5
  <1> QED
    BY <1>0, <1>1, <1>2, <1>3 DEF GcInv, GcTypes

\* An object of a document goes: no file on the board loses one.
LEMMA GcDeletePage ==
  ASSUME GcInv, AssetGc!DeletePage
  PROVE  GcInv'
  <1>0. /\ GcTypes /\ Fenced /\ Unplaced /\ ObjectGone
        /\ AssetGc!PlacedFileStays /\ AssetGc!ObjectsRecorded
    BY DEF GcInv
  <1>1. /\ gc.pc = "pages" /\ UNCHANGED <<step, fileRows, placed, fence, whole>>
        /\ \E o \in gc.keys : gc' = [gc EXCEPT !.keys = @ \ {o}] /\ (objs' = objs \ {o} \/ UNCHANGED objs)
    BY DEF AssetGc!DeletePage
  <1>2. PICK o \in gc.keys : gc' = [gc EXCEPT !.keys = @ \ {o}] /\ (objs' = objs \ {o} \/ UNCHANGED objs)
    BY <1>1
  <1>3. gc \in Passes
    BY <1>0 DEF GcTypes
  <1>4. gc' \in Passes /\ gc'.pc = "pages" /\ gc'.refs = gc.refs /\ gc'.keys \subseteq gc.keys
    BY <1>1, <1>2, <1>3 DEF Passes
  <1>5. GcTypes' /\ Fenced' /\ Unplaced' /\ ObjectGone'
    BY <1>0, <1>1, <1>2, <1>4 DEF GcTypes, Fenced, Unplaced, ObjectGone
  <1>6. AssetGc!PlacedFileStays'
    <2> SUFFICES ASSUME NEW f \in whole PROVE AssetGc!Objects(f) \subseteq objs'
      BY <1>1 DEF AssetGc!PlacedFileStays
    <2>1. f \in placed /\ f \in AssetGc!Files /\ AssetGc!Objects(f) \subseteq objs
      BY <1>0 DEF GcTypes, AssetGc!PlacedFileStays
    <2>2. o.file \notin placed
      BY <1>0, <1>1, <1>2 DEF Unplaced
    <2>3. o \notin AssetGc!Objects(f)
      BY <2>1, <2>2, ObjectsOfFile
    <2> QED
      BY <1>2, <2>1, <2>3
  <1>7. AssetGc!ObjectsRecorded'
    BY <1>0, <1>1, <1>2 DEF AssetGc!ObjectsRecorded
  <1> QED
    BY <1>5, <1>6, <1>7 DEF GcInv

\* The object of a media file that is not on the board goes, its row still there.
LEMMA GcDeleteFile ==
  ASSUME GcInv, AssetGc!DeleteFile
  PROVE  GcInv'
  <1>0. /\ GcTypes /\ Fenced /\ Unplaced /\ ObjectGone
        /\ AssetGc!PlacedFileStays /\ AssetGc!ObjectsRecorded
    BY DEF GcInv
  <1>1. gc.pc = "files" /\ UNCHANGED <<step, fileRows, placed, fence, whole>>
    BY DEF AssetGc!DeleteFile
  <1>2. PICK f \in gc.left :
          \/ /\ objs' = objs \ AssetGc!Objects(f)
             /\ gc' = [gc EXCEPT !.pc = "row", !.keys = AssetGc!Objects(f)]
          \/ gc' = [gc EXCEPT !.left = @ \ {f}] /\ UNCHANGED objs
    BY DEF AssetGc!DeleteFile
  <1>3. gc \in Passes /\ f \in AssetGc!Files /\ f \notin placed /\ gc.left \subseteq fileRows \ placed
    BY <1>0, <1>1 DEF GcTypes, Unplaced
  <1>4. AssetGc!Objects(f) \subseteq GcObjects
    BY <1>3, ObjectsOfFile
  <1>5. gc' \in Passes /\ gc'.refs = gc.refs /\ gc'.left \subseteq gc.left /\ gc'.pc \in {"files", "row"}
    BY <1>1, <1>2, <1>3, <1>4 DEF Passes, GcPlaces
  <1>6. gc'.pc = "row" =>
          f \in gc'.left /\ gc'.keys = AssetGc!Objects(f) /\ objs' = objs \ AssetGc!Objects(f)
    BY <1>1, <1>2, <1>3 DEF Passes
  <1>7. objs' \subseteq objs
    BY <1>2
  <1>8. GcTypes' /\ Fenced' /\ Unplaced' /\ ObjectGone'
    BY <1>0, <1>1, <1>3, <1>5, <1>6, <1>7 DEF GcTypes, Fenced, Unplaced, ObjectGone
  <1>9. AssetGc!PlacedFileStays'
    <2> SUFFICES ASSUME NEW e \in whole PROVE AssetGc!Objects(e) \subseteq objs'
      BY <1>1 DEF AssetGc!PlacedFileStays
    <2>1. e \in placed /\ e \in AssetGc!Files /\ AssetGc!Objects(e) \subseteq objs
      BY <1>0 DEF GcTypes, AssetGc!PlacedFileStays
    <2>2. AssetGc!Objects(e) \cap AssetGc!Objects(f) = {}
      BY <1>3, <2>1, ObjectsOfFile
    <2> QED
      BY <1>2, <2>1, <2>2
  <1>10. AssetGc!ObjectsRecorded'
    BY <1>0, <1>1, <1>7 DEF AssetGc!ObjectsRecorded
  <1> QED
    BY <1>8, <1>9, <1>10 DEF GcInv

\* The row of a file goes, whose object is no longer there.
LEMMA GcDeleteRow ==
  ASSUME GcInv, AssetGc!DeleteRow
  PROVE  GcInv'
  <1>0. /\ GcTypes /\ Fenced /\ Unplaced /\ ObjectGone
        /\ AssetGc!PlacedFileStays /\ AssetGc!ObjectsRecorded
    BY DEF GcInv
  <1>1. gc.pc = "row" /\ UNCHANGED <<step, objs, placed, fence, whole>>
    BY DEF AssetGc!DeleteRow
  <1>2. PICK o \in gc.keys :
          /\ gc' = [gc EXCEPT !.pc = "files", !.keys = {}, !.left = @ \ {o.file}]
          /\ fileRows' = fileRows \ {o.file} \/ UNCHANGED fileRows
    BY DEF AssetGc!DeleteRow
  <1>3. PICK f \in gc.left : gc.keys = AssetGc!Objects(f) /\ AssetGc!Objects(f) \cap objs = {}
    BY <1>0, <1>1 DEF ObjectGone
  <1>4. gc \in Passes /\ f \in AssetGc!Files /\ gc.left \subseteq fileRows \ placed
    BY <1>0, <1>1 DEF GcTypes, Passes, Unplaced
  <1>5. o.file = f
    BY <1>2, <1>3, <1>4, ObjectsOfFile
  <1>6. gc' \in Passes /\ gc'.pc = "files" /\ gc'.refs = gc.refs /\ gc'.left = gc.left \ {f}
    BY <1>2, <1>4, <1>5 DEF Passes, GcPlaces
  <1>7. GcTypes' /\ Fenced' /\ Unplaced' /\ ObjectGone'
    BY <1>0, <1>1, <1>2, <1>4, <1>5, <1>6 DEF GcTypes, Fenced, Unplaced, ObjectGone
  <1>8. AssetGc!PlacedFileStays'
    BY <1>0, <1>1 DEF AssetGc!PlacedFileStays
  <1>9. AssetGc!ObjectsRecorded'
    <2> SUFFICES ASSUME NEW e \in Media, step[e] = "done", AssetGc!Objects(e) \subseteq objs
                 PROVE  e \in fileRows'
      BY <1>1 DEF AssetGc!ObjectsRecorded
    <2>1. e \in fileRows
      BY <1>0 DEF AssetGc!ObjectsRecorded
    <2>2. e # f
      BY <1>3, <1>4, ObjectsOfFile
    <2> QED
      BY <1>2, <1>5, <2>1, <2>2
  <1> QED
    BY <1>7, <1>8, <1>9 DEF GcInv

\* For any number of files, passes and failures: the collection never takes an object
\* from a file that was whole when it was placed on the board and is still there, and
\* a finished media upload with an object has its row.
THEOREM CollectionIsSafe == Spec => []CollectionSafe
  <1>1. GcInv /\ [Next]_<<part, storageVars, gcVars, previewVars, archiveVars>> => GcInv'
    <2> SUFFICES ASSUME GcInv, [Next]_<<part, storageVars, gcVars, previewVars, archiveVars>>
                 PROVE  GcInv'
      OBVIOUS
    <2>1. CASE AssetGc!Next
      BY <2>1, GcUpload, GcCommit, GcLists, GcDeletePage, GcDeleteFile, GcDeleteRow DEF AssetGc!Next
    <2>2. CASE UNCHANGED gcVars
      BY <2>2 DEF gcVars, GcInv, GcTypes, Fenced, Unplaced, ObjectGone,
         AssetGc!PlacedFileStays, AssetGc!ObjectsRecorded
    <2> QED
      BY <2>1, <2>2, BoardsStep
  <1>2. GcInv => CollectionSafe
    BY DEF GcInv, CollectionSafe
  <1> QED
    BY GcInit, <1>1, <1>2, PTL DEF Spec
-----------------------------------------------------------------------------
(* Previews *)

PreviewPlaces == {"idle", "check", "load", "render", "store", "stamp", "unstore"}

\* No version is newer than the board, and no time later than the clock.
PreviewTypes ==
  /\ time \in Nat \ {0} /\ head \in Nat \ {0} /\ updatedAt \in 1..time /\ commitAt \in 0..time
  /\ generatedAt \in 0..time /\ image \in Int
  /\ rPc \in [Replicas -> PreviewPlaces]
  /\ loaded \in [Replicas -> 0..head]
  /\ commitAt > 0 => present
  /\ emptied => ~present

PreviewFlags ==
  /\ present \in BOOLEAN /\ emptied \in BOOLEAN /\ behind \in BOOLEAN /\ torn \in BOOLEAN
  /\ seeded \in BOOLEAN /\ activated \in BOOLEAN /\ restored \in BOOLEAN

\* A board without its base has no commit, no stamp and no run; an import stores its
\* thumbnail before it seeds the base.
ImportFits ==
  /\ ~seeded => /\ commitAt = 0 /\ generatedAt = 0 /\ ~named
                /\ \A r \in Replicas : rPc[r] = "idle"
  /\ importPc \in {"upload", "record", "undo", "drop", "seed", "bare"} => ~seeded
  /\ importPc \in {"update", "spawn"} => seeded
  /\ activated => seeded

\* A run that stamps the present version has its image in place, or knows of one
\* that was overtaken.
StampsOwn ==
  present /\ ~torn =>
    \A r \in Replicas : rPc[r] = "stamp" /\ loaded[r] = head => image = head \/ behind

\* A stamp that is not older than the board is of its present version, whatever runs
\* are under way, unless it is an import's; a commit in progress will be newer than it.
StampedIsFresh ==
  present /\ ~torn =>
    /\ commitAt = 0 /\ generatedAt > 0 /\ updatedAt <= generatedAt =>
         image = head \/ behind \/ restored
    /\ commitAt > 0 => generatedAt < commitAt \/ behind \/ restored

\* An image that is to be named is there, and one is taken away only from a board
\* that is gone or a row that could not be written.
ImageThere ==
  /\ present /\ ~torn /\ named => image >= 0
  /\ present /\ ~torn /\ importPc \in {"record", "seed", "update"} => image >= 0
  /\ \A r \in Replicas : present /\ ~torn /\ rPc[r] = "stamp" => image >= 0
  /\ \A r \in Replicas : rPc[r] = "unstore" => ~present \/ torn

\* An image stored below an emptied prefix has a run, or an importPc, that will look
\* after it.
NoneLeft ==
  emptied /\ ~torn =>
    \/ image = -1 \/ importPc \in {"record", "undo"}
    \/ \E r \in Replicas : rPc[r] \in {"stamp", "unstore"}

PreviewInv ==
  PreviewTypes /\ ImportFits /\ StampsOwn /\ StampedIsFresh /\ ImageThere /\ NoneLeft

\* What is said of the board and of the runs is either so or not.
LEMMA PreviewFlagsStay ==
  ASSUME PreviewFlags, Previews!Next
  PROVE  PreviewFlags'
  <1> USE DEF Previews!Next, Previews!Tick, Previews!OpenBoard, Previews!ensure_active,
       Previews!BeginCommit, Previews!EndCommit, Previews!DeleteBoard, Previews!EmptyPrefix,
       Previews!StoreBundled, Previews!RecordStorage, Previews!DeleteUploaded, Previews!DropBoard,
       Previews!SeedBase, Previews!StampBundled, Previews!AbandonImport, Previews!ListDue,
       Previews!CheckDue, Previews!LoadState, Previews!RenderImported, Previews!Render,
       Previews!Store, Previews!Stamp, Previews!Unstore, Previews!Crash, Previews!boardVars,
       Previews!rowVars, Previews!histories
  <1>1. present' \in BOOLEAN /\ emptied' \in BOOLEAN
    BY DEF PreviewFlags
  <1>2. behind' \in BOOLEAN
    BY DEF PreviewFlags
  <1>3. torn' \in BOOLEAN
    BY DEF PreviewFlags
  <1>4. seeded' \in BOOLEAN /\ activated' \in BOOLEAN
    BY DEF PreviewFlags
  <1>5. restored' \in BOOLEAN
    BY DEF PreviewFlags
  <1> QED
    BY <1>1, <1>2, <1>3, <1>4, <1>5 DEF PreviewFlags

\* The board has no thumbnail at the start.
LEMMA PreviewInit == Init => PreviewInv /\ PreviewFlags
  <1> SUFFICES ASSUME Init PROVE PreviewInv /\ PreviewFlags
    OBVIOUS
  <1>1. Previews!Init
    BY DEF Init
  <1>2. PreviewTypes
    BY <1>1 DEF Previews!Init, PreviewTypes, PreviewPlaces
  <1>3. \A r \in Replicas : rPc[r] = "idle"
    BY <1>1 DEF Previews!Init
  <1>4. /\ commitAt = 0 /\ generatedAt = 0 /\ ~named /\ ~emptied /\ ~activated
        /\ importPc \in {"none", "bare", "upload"} /\ seeded = (importPc = "none")
    BY <1>1 DEF Previews!Init
  <1>5. PreviewFlags
    BY <1>1 DEF Previews!Init, PreviewFlags
  <1>6. ImportFits
    BY <1>3, <1>4 DEF ImportFits
  <1> QED
    BY <1>2, <1>3, <1>4, <1>5, <1>6 DEF PreviewInv, StampsOwn, StampedIsFresh, ImageThere, NoneLeft

\* The clock, the board's changes and its end.
LEMMA PreviewBoard ==
  ASSUME PreviewInv, PreviewFlags,
         Previews!Tick \/ Previews!OpenBoard \/ Previews!BeginCommit \/ Previews!EndCommit
           \/ Previews!DeleteBoard \/ Previews!EmptyPrefix
  PROVE  PreviewInv'
  <1> USE DEF Previews!boardVars, Previews!rowVars, Previews!histories
  <1>0. PreviewTypes /\ ImportFits /\ StampsOwn /\ StampedIsFresh /\ ImageThere /\ NoneLeft
    BY DEF PreviewInv
  <1>1. CASE Previews!Tick
    BY <1>0, <1>1 DEF Previews!Tick, PreviewInv, PreviewTypes, ImportFits, StampsOwn, StampedIsFresh,
       ImageThere, NoneLeft
  <1>2. CASE Previews!OpenBoard
    <2>1. /\ seeded /\ updatedAt' \in {updatedAt, time}
          /\ UNCHANGED <<time, present, seeded, importPc, head, commitAt, generatedAt, named, image,
                         emptied, rPc, loaded, behind, restored, torn>>
      BY <1>2 DEF Previews!OpenBoard, Previews!ensure_active
    <2>2. PreviewTypes' /\ ImportFits'
      BY <1>0, <2>1 DEF PreviewTypes, ImportFits
    <2>3. StampsOwn' /\ StampedIsFresh'
      BY <1>0, <2>1 DEF PreviewTypes, StampsOwn, StampedIsFresh
    <2> QED
      BY <1>0, <2>1, <2>2, <2>3 DEF PreviewInv, ImageThere, NoneLeft
  <1>3. CASE Previews!BeginCommit
    <2>1. /\ present /\ activated /\ time' = time + 1 /\ commitAt' = time + 1
          /\ UNCHANGED <<present, seeded, activated, importPc, head, updatedAt, generatedAt, named,
                         image, emptied, rPc, loaded, behind, restored, torn>>
      BY <1>3 DEF Previews!BeginCommit
    <2>2. PreviewTypes' /\ ImportFits'
      BY <1>0, <2>1 DEF PreviewTypes, ImportFits
    <2>3. StampsOwn' /\ StampedIsFresh'
      BY <1>0, <2>1 DEF PreviewTypes, StampsOwn, StampedIsFresh
    <2> QED
      BY <1>0, <2>1, <2>2, <2>3 DEF PreviewInv, ImageThere, NoneLeft
  <1>4. CASE Previews!EndCommit
    <2>1. /\ commitAt > 0 /\ head' = head + 1 /\ updatedAt' = commitAt /\ commitAt' = 0
          /\ UNCHANGED <<time, present, seeded, activated, importPc, generatedAt, named, image,
                         emptied, rPc, loaded, behind, restored, torn>>
      BY <1>4 DEF Previews!EndCommit
    <2>2. PreviewTypes' /\ ImportFits'
      BY <1>0, <2>1 DEF PreviewTypes, ImportFits
    <2>3. StampsOwn' /\ StampedIsFresh'
      BY <1>0, <2>1 DEF PreviewTypes, StampsOwn, StampedIsFresh
    <2> QED
      BY <1>0, <2>1, <2>2, <2>3 DEF PreviewInv, ImageThere, NoneLeft
  <1>5. CASE Previews!DeleteBoard
    <2>1. /\ present /\ commitAt = 0 /\ ~present'
          /\ UNCHANGED <<time, seeded, activated, importPc, head, updatedAt, commitAt, generatedAt,
                         named, image, emptied, rPc, loaded, behind, restored, torn>>
      BY <1>5 DEF Previews!DeleteBoard
    <2>2. PreviewTypes' /\ ImportFits'
      BY <1>0, <2>1 DEF PreviewTypes, ImportFits
    <2>3. StampsOwn' /\ StampedIsFresh'
      BY <2>1 DEF StampsOwn, StampedIsFresh
    <2>4. ImageThere' /\ NoneLeft'
      BY <1>0, <2>1 DEF ImageThere, NoneLeft
    <2> QED
      BY <2>2, <2>3, <2>4 DEF PreviewInv
  <1>6. CASE Previews!EmptyPrefix
    BY <1>0, <1>6 DEF Previews!EmptyPrefix, PreviewInv, PreviewTypes, ImportFits, StampsOwn,
       StampedIsFresh, ImageThere, NoneLeft
  <1> QED
    BY <1>1, <1>2, <1>3, <1>4, <1>5, <1>6

\* An import that has not seeded its base meets no run and no stamp.
LEMMA PreviewUnseeded ==
  ASSUME PreviewInv, PreviewFlags,
         \/ Previews!StoreBundled \/ Previews!RecordStorage \/ Previews!DeleteUploaded
         \/ Previews!DropBoard
  PROVE  PreviewInv'
  <1> USE DEF Previews!boardVars, Previews!rowVars, Previews!histories
  <1>0. PreviewTypes /\ ImportFits /\ StampsOwn /\ StampedIsFresh /\ ImageThere /\ NoneLeft
    BY DEF PreviewInv
  <1>1. /\ importPc \in {"upload", "record", "undo", "drop"}
        /\ importPc' \in {"record", "undo", "drop", "seed", "none"}
        /\ UNCHANGED <<time, seeded, activated, head, updatedAt, commitAt, generatedAt, named,
                       emptied, rPc, loaded, behind, restored>>
    BY DEF Previews!StoreBundled, Previews!RecordStorage, Previews!DeleteUploaded, Previews!DropBoard
  <1>2. /\ ~seeded /\ commitAt = 0 /\ generatedAt = 0 /\ ~named
        /\ \A r \in Replicas : rPc[r] = "idle"
    BY <1>0, <1>1 DEF ImportFits
  <1>3. /\ image' \in {image, head, 0, -1}
        /\ emptied => ~present
        /\ torn => torn'
        /\ present' => present
    <2>1. image' \in {image, head, 0, -1}
      BY DEF Previews!StoreBundled, Previews!RecordStorage, Previews!DeleteUploaded,
             Previews!DropBoard, Previews!Foreign
    <2>2. torn => torn'
      BY DEF PreviewFlags, Previews!StoreBundled, Previews!RecordStorage, Previews!DeleteUploaded,
             Previews!DropBoard
    <2>3. present' => present
      <3>1. CASE Previews!DropBoard
        BY <3>1 DEF Previews!DropBoard
      <3>2. CASE Previews!StoreBundled \/ Previews!RecordStorage \/ Previews!DeleteUploaded
        BY <3>2 DEF Previews!StoreBundled, Previews!RecordStorage, Previews!DeleteUploaded
      <3> QED
        BY <3>1, <3>2
    <2> QED
      BY <1>0, <2>1, <2>2, <2>3 DEF PreviewTypes
  <1>4. PreviewTypes'
    BY <1>0, <1>1, <1>2, <1>3 DEF PreviewTypes
  <1>5. ImportFits'
    BY <1>0, <1>1, <1>2 DEF ImportFits
  <1>6. StampsOwn' /\ StampedIsFresh'
    BY <1>1, <1>2 DEF StampsOwn, StampedIsFresh
  <1>7. ImageThere'
    <2>1. CASE Previews!StoreBundled
      <3>1. \/ importPc' = "record" /\ image' \in {head, 0}
            \/ importPc' = "drop"
        BY <2>1 DEF Previews!StoreBundled, Previews!Foreign
      <3>2. importPc' = "record" => image' >= 0
        BY <1>0, <3>1 DEF PreviewTypes
      <3> QED
        BY <1>1, <1>2, <3>1, <3>2 DEF ImageThere
    <2>2. CASE Previews!RecordStorage
      <3>1. /\ importPc = "record" /\ importPc' \in {"seed", "undo"}
            /\ UNCHANGED <<present, torn, image>>
        BY <2>2 DEF Previews!RecordStorage
      <3> QED
        BY <1>0, <1>1, <1>2, <3>1 DEF ImageThere
    <2>3. CASE Previews!DeleteUploaded \/ Previews!DropBoard
      <3>1. importPc' \in {"drop", "none"}
        BY <2>3 DEF Previews!DeleteUploaded, Previews!DropBoard
      <3> QED
        BY <1>1, <1>2, <3>1 DEF ImageThere
    <2> QED
      BY <2>1, <2>2, <2>3
  <1>8. NoneLeft'
    <2>1. CASE Previews!StoreBundled
      <3>1. \/ importPc' = "record" \/ torn'
            \/ image' = image /\ torn' = torn /\ importPc = "upload"
        BY <2>1 DEF Previews!StoreBundled
      <3> QED
        BY <1>0, <1>1, <1>2, <3>1 DEF NoneLeft
    <2>2. CASE Previews!RecordStorage
      <3>1. /\ importPc = "record" /\ (present => importPc' \in {"seed", "undo"})
            /\ (~present => importPc' = "undo")
        BY <2>2 DEF Previews!RecordStorage
      <3> QED
        BY <1>0, <1>1, <1>3, <3>1 DEF NoneLeft
    <2>3. CASE Previews!DeleteUploaded
      <3>1. image' = -1 \/ torn'
        BY <2>3 DEF Previews!DeleteUploaded
      <3> QED
        BY <3>1 DEF NoneLeft
    <2>4. CASE Previews!DropBoard
      <3>1. importPc = "drop" /\ UNCHANGED <<image, emptied, torn>>
        BY <2>4 DEF Previews!DropBoard
      <3> QED
        BY <1>0, <1>1, <1>2, <3>1 DEF NoneLeft
    <2> QED
      BY <2>1, <2>2, <2>3, <2>4
  <1> QED
    BY <1>4, <1>5, <1>6, <1>7, <1>8 DEF PreviewInv

\* The base is seeded, the import's thumbnail is stamped, or the import ends.
LEMMA PreviewImported ==
  ASSUME PreviewInv, PreviewFlags,
         Previews!SeedBase \/ Previews!StampBundled \/ Previews!AbandonImport
  PROVE  PreviewInv'
  <1> USE DEF Previews!boardVars, Previews!rowVars, Previews!histories
  <1>0. PreviewTypes /\ ImportFits /\ StampsOwn /\ StampedIsFresh /\ ImageThere /\ NoneLeft
    BY DEF PreviewInv
  <1>1. CASE Previews!SeedBase
    <2>1. /\ importPc \in {"seed", "bare"}
          /\ UNCHANGED <<time, present, activated, head, commitAt, generatedAt, named, image,
                         emptied, rPc, loaded, behind, restored, torn>>
          /\ \/ seeded' = TRUE /\ updatedAt' = time /\ importPc' = "update" /\ importPc = "seed"
             \/ seeded' = TRUE /\ updatedAt' = time /\ importPc' = "spawn"
             \/ importPc' = "none" /\ UNCHANGED <<seeded, updatedAt>>
      BY <1>1 DEF Previews!SeedBase
    <2>2. ~seeded /\ commitAt = 0 /\ generatedAt = 0
      BY <1>0, <2>1 DEF ImportFits
    <2>3. PreviewTypes' /\ ImportFits'
      BY <1>0, <2>1 DEF PreviewTypes, ImportFits
    <2>4. StampsOwn' /\ StampedIsFresh'
      BY <1>0, <2>1, <2>2 DEF StampsOwn, StampedIsFresh
    <2>5. ImageThere' /\ NoneLeft'
      BY <1>0, <2>1 DEF ImageThere, NoneLeft
    <2> QED
      BY <2>3, <2>4, <2>5 DEF PreviewInv
  <1>2. CASE Previews!StampBundled
    <2>1. /\ importPc = "update" /\ importPc' = "none"
          /\ UNCHANGED <<time, present, seeded, activated, head, updatedAt, commitAt, image,
                         emptied, rPc, loaded, behind, torn>>
          /\ \/ /\ present /\ named' = TRUE /\ generatedAt' = time
                /\ restored' = (image # head \/ commitAt > 0)
             \/ UNCHANGED <<named, generatedAt, restored>>
      BY <1>2 DEF Previews!StampBundled
    <2>2. seeded
      BY <1>0, <2>1 DEF ImportFits
    <2>3. PreviewTypes' /\ ImportFits'
      BY <1>0, <2>1, <2>2 DEF PreviewTypes, ImportFits
    <2>4. StampsOwn' /\ StampedIsFresh'
      BY <1>0, <2>1 DEF StampsOwn, StampedIsFresh
    <2>5. ImageThere' /\ NoneLeft'
      BY <1>0, <2>1 DEF ImageThere, NoneLeft
    <2> QED
      BY <2>3, <2>4, <2>5 DEF PreviewInv
  <1>3. CASE Previews!AbandonImport
    <2>1. /\ importPc # "none" /\ importPc' = "none"
          /\ torn' = (torn \/ importPc \in {"record", "undo"})
          /\ UNCHANGED <<time, present, seeded, activated, head, updatedAt, commitAt, generatedAt,
                         named, image, emptied, rPc, loaded, behind, restored>>
      BY <1>3 DEF Previews!AbandonImport
    <2>2. torn => torn'
      BY <2>1 DEF PreviewFlags
    <2>3. importPc \in {"record", "undo"} => torn'
      BY <2>1 DEF PreviewFlags
    <2>4. PreviewTypes' /\ ImportFits'
      BY <1>0, <2>1 DEF PreviewTypes, ImportFits
    <2>5. StampsOwn' /\ StampedIsFresh'
      BY <1>0, <2>1, <2>2 DEF StampsOwn, StampedIsFresh
    <2>6. ImageThere' /\ NoneLeft'
      BY <1>0, <2>1, <2>2, <2>3 DEF ImageThere, NoneLeft
    <2> QED
      BY <2>4, <2>5, <2>6 DEF PreviewInv
  <1> QED
    BY <1>1, <1>2, <1>3

\* The steps of a run before it stores its image.
LEMMA PreviewRun ==
  ASSUME PreviewInv, PreviewFlags, NEW r \in Replicas,
         Previews!ListDue(r) \/ Previews!CheckDue(r) \/ Previews!LoadState(r)
           \/ Previews!RenderImported(r) \/ Previews!Render(r)
  PROVE  PreviewInv'
  <1> USE DEF Previews!boardVars, Previews!rowVars, Previews!histories, Previews!ListDue,
              Previews!CheckDue, Previews!LoadState, Previews!RenderImported, Previews!Render
  <1>0. PreviewTypes /\ ImportFits /\ StampsOwn /\ StampedIsFresh /\ ImageThere /\ NoneLeft
    BY DEF PreviewInv
  <1>1. UNCHANGED <<time, present, seeded, head, commitAt, generatedAt, named, image, emptied,
                    behind, restored, torn>>
    OBVIOUS
  <1>2. PICK where \in {"idle", "check", "load", "render", "store"} : rPc' = [rPc EXCEPT ![r] = where]
    BY DEF Previews!Goto
  <1>3. rPc[r] \in {"idle", "check", "load", "render"}
    OBVIOUS
  <1>4. loaded' = loaded \/ loaded' = [loaded EXCEPT ![r] = head] \/ loaded' = [loaded EXCEPT ![r] = 1]
    OBVIOUS
  <1>5. updatedAt' \in {updatedAt, time}
    <2>1. CASE Previews!LoadState(r)
      BY <2>1 DEF Previews!ensure_active
    <2>2. CASE \/ Previews!ListDue(r) \/ Previews!CheckDue(r)
               \/ Previews!RenderImported(r) \/ Previews!Render(r)
      BY <2>2
    <2> QED
      BY <2>1, <2>2
  <1>6. \/ importPc' = importPc
        \/ importPc = "spawn" /\ importPc' = "none"
    <2>1. CASE Previews!RenderImported(r)
      BY <2>1
    <2>2. CASE \/ Previews!ListDue(r) \/ Previews!CheckDue(r)
               \/ Previews!LoadState(r) \/ Previews!Render(r)
      BY <2>2
    <2> QED
      BY <2>1, <2>2
  <1>7. seeded
    <2>1. rPc[r] # "idle" => seeded
      BY <1>0 DEF ImportFits
    <2>2. rPc[r] = "idle" => Previews!preview_due \/ importPc = "spawn"
      OBVIOUS
    <2> QED
      BY <1>0, <2>1, <2>2 DEF ImportFits, Previews!preview_due
  <1>8. rPc' \in [Replicas -> PreviewPlaces]
    BY <1>0, <1>2 DEF PreviewTypes, PreviewPlaces
  <1>9. loaded' \in [Replicas -> 0..head]
    BY <1>0, <1>4 DEF PreviewTypes
  <1>10. /\ rPc[r] \notin {"stamp", "unstore"} /\ rPc'[r] \notin {"stamp", "unstore"}
         /\ \A q \in Replicas \ {r} : rPc'[q] = rPc[q] /\ loaded'[q] = loaded[q]
    BY <1>0, <1>2, <1>3, <1>4 DEF PreviewTypes
  <1>11. PreviewTypes' /\ ImportFits'
    BY <1>0, <1>1, <1>5, <1>6, <1>7, <1>8, <1>9 DEF PreviewTypes, ImportFits
  <1>12. StampsOwn' /\ StampedIsFresh'
    BY <1>0, <1>1, <1>5, <1>10 DEF PreviewTypes, StampsOwn, StampedIsFresh
  <1>13. ImageThere' /\ NoneLeft'
    BY <1>0, <1>1, <1>6, <1>10 DEF ImageThere, NoneLeft
  <1> QED
    BY <1>11, <1>12, <1>13 DEF PreviewInv

\* The image is stored: the other replica's stamp may now be of another version.
LEMMA PreviewStore ==
  ASSUME PreviewInv, PreviewFlags, NEW r \in Replicas, Previews!Store(r)
  PROVE  PreviewInv'
  <1> USE DEF Previews!boardVars, Previews!rowVars, Previews!histories
  <1>0. PreviewTypes /\ ImportFits /\ StampsOwn /\ StampedIsFresh /\ ImageThere /\ NoneLeft
    BY DEF PreviewInv
  <1>1. /\ rPc[r] = "store" /\ behind' = (behind \/ Previews!Overtaken(r))
        /\ UNCHANGED <<time, present, seeded, activated, importPc, head, updatedAt, commitAt,
                       generatedAt, named, emptied, loaded, restored>>
    BY DEF Previews!Store
  <1>2. \/ image' = loaded[r] /\ rPc' = [rPc EXCEPT ![r] = "stamp"] /\ torn' = torn
        \/ image' = loaded[r] /\ rPc' = [rPc EXCEPT ![r] = "idle"] /\ torn' = TRUE
        \/ image' = image /\ rPc' = [rPc EXCEPT ![r] = "idle"] /\ torn' = torn
    BY DEF Previews!Store, Previews!Goto
  <1>3. loaded[r] \in 0..head /\ head \in Nat
    BY <1>0 DEF PreviewTypes
  <1>4. PreviewTypes' /\ ImportFits'
    <2>1. seeded
      BY <1>0, <1>1 DEF ImportFits
    <2> QED
      BY <1>0, <1>1, <1>2, <1>3, <2>1 DEF PreviewTypes, PreviewPlaces, ImportFits
  <1>5. \A q \in Replicas \ {r} : rPc'[q] = rPc[q]
    BY <1>0, <1>2 DEF PreviewTypes
  <1>6. CASE torn'
    BY <1>0, <1>1, <1>2, <1>3, <1>4, <1>5, <1>6 DEF PreviewTypes, PreviewInv, StampsOwn, StampedIsFresh,
       ImageThere, NoneLeft
  <1>7. CASE ~torn' /\ image' = loaded[r] /\ rPc' = [rPc EXCEPT ![r] = "stamp"] /\ torn' = torn
    <2>1. rPc'[r] = "stamp" /\ ~torn
      BY <1>0, <1>7 DEF PreviewTypes
    <2>2. image' = head' \/ behind'
      BY <1>1, <1>7 DEF Previews!Overtaken
    <2>3. commitAt > 0 => behind'
      BY <1>1 DEF Previews!Overtaken
    <2>4. image' >= 0
      BY <1>3, <1>7
    <2>5. StampsOwn' /\ StampedIsFresh'
      BY <1>1, <2>2, <2>3 DEF StampsOwn, StampedIsFresh
    <2>6. ImageThere' /\ NoneLeft'
      BY <1>0, <1>1, <1>5, <1>7, <2>1, <2>4 DEF ImageThere, NoneLeft
    <2> QED
      BY <1>4, <2>5, <2>6 DEF PreviewInv
  <1>8. CASE ~torn' /\ image' = image /\ rPc' = [rPc EXCEPT ![r] = "idle"] /\ torn' = torn
    <2>1. rPc'[r] = "idle"
      BY <1>0, <1>8 DEF PreviewTypes
    <2>2. StampsOwn' /\ StampedIsFresh'
      BY <1>0, <1>1, <1>5, <1>8, <2>1 DEF StampsOwn, StampedIsFresh
    <2>3. ImageThere' /\ NoneLeft'
      BY <1>0, <1>1, <1>5, <1>8, <2>1 DEF ImageThere, NoneLeft
    <2> QED
      BY <1>4, <2>2, <2>3 DEF PreviewInv
  <1> QED
    BY <1>2, <1>6, <1>7, <1>8

\* The row is stamped, or the image is to go.
LEMMA PreviewStamp ==
  ASSUME PreviewInv, PreviewFlags, NEW r \in Replicas, Previews!Stamp(r)
  PROVE  PreviewInv'
  <1> USE DEF Previews!boardVars, Previews!rowVars, Previews!histories
  <1>0. PreviewTypes /\ ImportFits /\ StampsOwn /\ StampedIsFresh /\ ImageThere /\ NoneLeft
    BY DEF PreviewInv
  <1>1. /\ rPc[r] = "stamp"
        /\ UNCHANGED <<time, present, seeded, activated, importPc, head, updatedAt, commitAt, image,
                       emptied, loaded>>
    BY DEF Previews!Stamp
  <1>2. \/ /\ present /\ named' = TRUE /\ generatedAt' = time /\ torn' = torn
           /\ behind' = (Previews!Overtaken(r) \/ (behind /\ image # loaded[r]))
           /\ rPc' = [rPc EXCEPT ![r] = "idle"]
        \/ /\ ~present \/ torn'
           /\ torn => torn'
           /\ rPc' = [rPc EXCEPT ![r] = "unstore"] /\ UNCHANGED <<named, generatedAt, behind, restored>>
    BY DEF Previews!Stamp, Previews!Goto
  <1>3. \A q \in Replicas \ {r} : rPc'[q] = rPc[q]
    BY <1>0, <1>2 DEF PreviewTypes
  <1>4. PreviewTypes' /\ ImportFits'
    <2>1. seeded
      BY <1>0, <1>1 DEF ImportFits
    <2> QED
      BY <1>0, <1>1, <1>2, <2>1 DEF PreviewTypes, PreviewPlaces, ImportFits
  <1>5. CASE /\ present /\ named' = TRUE /\ generatedAt' = time /\ torn' = torn
             /\ behind' = (Previews!Overtaken(r) \/ (behind /\ image # loaded[r]))
             /\ rPc' = [rPc EXCEPT ![r] = "idle"]
    <2>1. rPc'[r] = "idle"
      BY <1>0, <1>5 DEF PreviewTypes
    <2>2. ~torn => image = head \/ behind'
      BY <1>0, <1>1, <1>5 DEF StampsOwn, Previews!Overtaken
    <2>3. commitAt > 0 => behind'
      BY <1>5 DEF Previews!Overtaken
    <2>4. StampsOwn' /\ StampedIsFresh'
      BY <1>1, <1>5, <2>2, <2>3 DEF StampsOwn, StampedIsFresh
    <2>5. ImageThere' /\ NoneLeft'
      BY <1>0, <1>1, <1>3, <1>5, <2>1 DEF ImageThere, NoneLeft, PreviewTypes
    <2> QED
      BY <1>4, <2>4, <2>5 DEF PreviewInv
  <1>6. CASE /\ ~present \/ torn'
             /\ torn => torn'
             /\ rPc' = [rPc EXCEPT ![r] = "unstore"] /\ UNCHANGED <<named, generatedAt, behind, restored>>
    <2>1. rPc'[r] = "unstore"
      BY <1>0, <1>6 DEF PreviewTypes
    <2>2. StampsOwn' /\ StampedIsFresh'
      BY <1>1, <1>6 DEF StampsOwn, StampedIsFresh
    <2>3. ImageThere' /\ NoneLeft'
      BY <1>0, <1>1, <1>3, <1>6, <2>1 DEF ImageThere, NoneLeft
    <2> QED
      BY <1>4, <2>2, <2>3 DEF PreviewInv
  <1> QED
    BY <1>2, <1>5, <1>6

\* A run ends without a stamp.
LEMMA PreviewEnd ==
  ASSUME PreviewInv, PreviewFlags, NEW r \in Replicas, Previews!Unstore(r) \/ Previews!Crash(r)
  PROVE  PreviewInv'
  <1> USE DEF Previews!boardVars, Previews!rowVars, Previews!histories
  <1>0. PreviewTypes /\ ImportFits /\ StampsOwn /\ StampedIsFresh /\ ImageThere /\ NoneLeft
    BY DEF PreviewInv
  <1>1. /\ rPc' = [rPc EXCEPT ![r] = "idle"]
        /\ UNCHANGED <<time, present, seeded, activated, importPc, head, updatedAt, commitAt,
                       generatedAt, named, emptied, loaded, behind, restored>>
    BY DEF Previews!Unstore, Previews!Crash, Previews!Goto
  <1>2. /\ torn => torn'
        /\ \/ rPc[r] = "unstore" /\ image' = -1
           \/ image' = image /\ (rPc[r] \in {"stamp", "unstore"} => torn')
    <2>1. CASE Previews!Unstore(r)
      BY <2>1 DEF Previews!Unstore
    <2>2. CASE Previews!Crash(r)
      <3>1. torn' = (torn \/ rPc[r] \in {"stamp", "unstore"}) /\ image' = image
        BY <2>2 DEF Previews!Crash
      <3>2. torn \in BOOLEAN
        BY DEF PreviewFlags
      <3>3. torn => torn'
        BY <3>1, <3>2
      <3>4. rPc[r] \in {"stamp", "unstore"} => torn'
        BY <3>1, <3>2
      <3> QED
        BY <3>1, <3>3, <3>4
    <2> QED
      BY <2>1, <2>2
  <1>3. \A q \in Replicas \ {r} : rPc'[q] = rPc[q]
    BY <1>0, <1>1 DEF PreviewTypes
  <1>4. rPc'[r] = "idle"
    BY <1>0, <1>1 DEF PreviewTypes
  <1>5. PreviewTypes' /\ ImportFits'
    BY <1>0, <1>1, <1>2, <1>4 DEF PreviewTypes, PreviewPlaces, ImportFits
  <1>6. CASE rPc[r] = "unstore" /\ image' = -1
    <2>1. ~present \/ torn'
      BY <1>0, <1>2, <1>6 DEF ImageThere
    <2> QED
      BY <1>0, <1>1, <1>2, <1>3, <1>4, <1>5, <1>6, <2>1
         DEF PreviewInv, StampsOwn, StampedIsFresh, ImageThere, NoneLeft
  <1>7. CASE image' = image /\ (rPc[r] \in {"stamp", "unstore"} => torn')
    <2>1. StampsOwn' /\ StampedIsFresh'
      BY <1>0, <1>1, <1>2, <1>3, <1>4, <1>7 DEF StampsOwn, StampedIsFresh
    <2>2. ImageThere' /\ NoneLeft'
      BY <1>0, <1>1, <1>2, <1>3, <1>4, <1>7 DEF ImageThere, NoneLeft
    <2> QED
      BY <1>5, <2>1, <2>2 DEF PreviewInv
  <1> QED
    BY <1>2, <1>6, <1>7

\* For any number of replicas, versions, ticks and failures: a stamp that is not older
\* than the board is of its present version, a thumbnail that a row names is there, and
\* none is left of a board that is gone, but for runs that a change overtook or that
\* broke off between generate_and_store's two writes, and for the stamps of imports
\* whose bundled thumbnail was out of date.
THEOREM PreviewsAreSafe == Spec => []PreviewSafe
  <1>1. PreviewInv /\ PreviewFlags /\ [Next]_<<part, storageVars, gcVars, previewVars, archiveVars>>
          => PreviewInv' /\ PreviewFlags'
    <2> SUFFICES ASSUME PreviewInv, PreviewFlags,
                        [Next]_<<part, storageVars, gcVars, previewVars, archiveVars>>
                 PROVE  PreviewInv' /\ PreviewFlags'
      OBVIOUS
    <2>1. CASE Previews!Next
      <3>1. PreviewInv'
        BY <2>1, PreviewBoard, PreviewUnseeded, PreviewImported, PreviewRun, PreviewStore,
           PreviewStamp, PreviewEnd DEF Previews!Next
      <3> QED
        BY <2>1, <3>1, PreviewFlagsStay
    <2>2. CASE UNCHANGED previewVars
      BY <2>2 DEF previewVars, PreviewInv, PreviewTypes, PreviewFlags, ImportFits, StampsOwn, StampedIsFresh,
         ImageThere, NoneLeft
    <2> QED
      BY <2>1, <2>2, BoardsStep
  <1>2. PreviewInv => PreviewSafe
    BY DEF PreviewInv, PreviewTypes, StampedIsFresh, ImageThere, NoneLeft, PreviewSafe,
       Previews!PreviewFresh, Previews!PreviewThere, Previews!NoPreviewLeft, Previews!Quiet
  <1> QED
    BY PreviewInit, <1>1, <1>2, PTL DEF Spec
-----------------------------------------------------------------------------
(* BoardStorage *)

\* The files that the request h has been given and is responsible for.
Mine(h) == ({bReq[h].file} \cup bReq[h].put) \ {0}

\* Where a request may leave objects to be taken back, or take them back itself.
Uploading == {"page", "object", "record", "clean", "prefix"}
Importing == {"asset", "unput", "base"}
Creating == {"seed", "undo"} \cup Importing
StoragePlaces == {"idle"} \cup Uploading \cup Creating

StorageReqs ==
  [board : Nat, kind : {"none", "create", "import", "media", "pdf"}, file : Nat, left : Int, put : SUBSET Nat]
StorageObjects == [board : Nat, file : Nat, piece : {"page", "file"}]

StorageTypes ==
  /\ made \in Nat /\ files \in Nat
  /\ boards \subseteq 1..made
  /\ bPc \in [Handlers -> StoragePlaces]
  /\ bReq \in [Handlers -> StorageReqs]
  /\ objects \subseteq StorageObjects
  /\ late \subseteq 1..files
  /\ jobs \in Seq(Nat)
  /\ cycle \in [job : Nat, pc : {"idle", "list", "delete", "complete"}, keys : SUBSET StorageObjects]

\* What the request h carries at the place it is at.
RequestFits(h) ==
  /\ bPc[h] = "idle" => bReq[h] = BoardStorage!NoBoardReq
  /\ bPc[h] # "idle" => bReq[h].board \in 1..made
  /\ bPc[h] \in Uploading => bReq[h].kind \in {"media", "pdf"} /\ bReq[h].file # 0 /\ bReq[h].put = {}
  /\ bPc[h] \in {"page", "prefix"} => bReq[h].kind = "pdf"
  /\ bPc[h] \in Creating => bReq[h].kind \in {"create", "import"} /\ bReq[h].file = 0
  /\ bPc[h] \in Creating /\ bReq[h].kind = "create" => bReq[h].put = {}
  /\ bPc[h] = "seed" => bReq[h].kind = "create"
  /\ bPc[h] \in Importing => bReq[h].kind = "import"
  /\ Mine(h) \subseteq 1..files

\* No file is given to two requests.
RequestsInv ==
  /\ \A h \in Handlers : RequestFits(h)
  /\ \A h, i \in Handlers : h # i => Mine(h) \cap Mine(i) = {}

\* A job is of a board that is gone for good.
JobsInv == \A b \in Nat : BoardStorage!Queued(b) => b \in 1..made /\ b \notin boards

\* An object is of a file that was given out, and below the prefix of the request
\* that still has it, which knows all its pieces.
ObjectsFit ==
  \A o \in objects :
    /\ o.file \in 1..files /\ o.board \in 1..made
    /\ \A h \in Handlers :
         o.file \in Mine(h) => o.board = bReq[h].board /\ (bReq[h].kind = "media" => o.piece = "file")

\* An object of a board that is gone will be found by the board's job, or is late.
Findable ==
  \A o \in objects : o.board \in boards \/ BoardStorage!Queued(o.board) \/ o.file \in late

\* A late file is abandoned or still with a request that will take it back or abandon
\* it: such a request does not go on to an end that keeps the file, since that needs
\* the board.
LateInv ==
  /\ \A o \in objects :
       o.file \in late =>
         o.file \in abandoned \/ \E h \in Handlers : o.file \in Mine(h) /\ bPc[h] \notin {"undo", "base"}
  /\ \A h \in Handlers : Mine(h) \cap late # {} => bReq[h].board \notin boards /\ bPc[h] # "base"

\* The worker's listing has every object of the prefix but the late ones.
CycleInv ==
  /\ cycle.pc # "idle" => BoardStorage!Queued(cycle.job)
  /\ cycle.pc = "delete" =>
       \A o \in objects : o.board = cycle.job => o \in cycle.keys \/ o.file \in late
  /\ cycle.pc = "complete" => \A o \in objects : o.board = cycle.job => o.file \in late

\* The limits, and what it takes to count.
QuotaInv ==
  /\ IsFiniteSet(rows) /\ IsFiniteSet(imported)
  /\ Cardinality(boards) <= BoardLimit
  /\ Cardinality(rows) + Cardinality(imported) <= StorageLimit

StorageInv ==
  /\ StorageTypes /\ RequestsInv /\ JobsInv /\ ObjectsFit /\ Findable /\ LateInv /\ CycleInv
  /\ QuotaInv /\ BoardStorage!BoardInitialised

-----------------------------------------------------------------------------
(* The jobs *)

\* BoardStorage counts as FiniteSets does.
LEMMA SameCount ==
  ASSUME NEW S
  PROVE  BoardStorage!Cardinality(S) = Cardinality(S)
  BY DEF BoardStorage!Cardinality, Cardinality, BoardStorage!IsFiniteSet, IsFiniteSet

\* The jobs without that of one board: those of the other boards stay, none is added.
LEMMA Dequeue ==
  ASSUME jobs \in Seq(Nat), NEW b \in Nat
  PROVE  /\ BoardStorage!Without(b) \in Seq(Nat)
         /\ \A c \in Nat \ {b} :
              BoardStorage!Queued(c) => \E i \in DOMAIN BoardStorage!Without(b) : BoardStorage!Without(b)[i] = c
         /\ \A i \in DOMAIN BoardStorage!Without(b) : BoardStorage!Queued(BoardStorage!Without(b)[i])
  <1>1. CASE ~BoardStorage!Queued(b)
    BY <1>1 DEF BoardStorage!Without, BoardStorage!Queued
  <1>2. CASE BoardStorage!Queued(b)
    <2> DEFINE k == CHOOSE i \in DOMAIN jobs : jobs[i] = b
               w == BoardStorage!Without(b)
    <2>1. k \in 1..Len(jobs) /\ jobs[k] = b
      BY <1>2 DEF BoardStorage!Queued
    <2>2. w = SubSeq(jobs, 1, k - 1) \o SubSeq(jobs, k + 1, Len(jobs))
      BY <1>2 DEF BoardStorage!Without, BoardStorage!RemoveAt
    <2> HIDE DEF k, w
    <2>3. /\ w \in Seq(Nat) /\ Len(w) = Len(jobs) - 1
          /\ \A i \in 1..Len(w) : i < k => w[i] = jobs[i]
          /\ \A i \in 1..Len(w) : i >= k => w[i] = jobs[i + 1]
      <3> DEFINE s == SubSeq(jobs, 1, k - 1)
                 t == SubSeq(jobs, k + 1, Len(jobs))
      <3>1. Len(jobs) \in Nat /\ \A i \in 1..Len(jobs) : jobs[i] \in Nat
        OBVIOUS
      <3>2. s \in Seq(Nat) /\ Len(s) = k - 1 /\ \A i \in 1..(k - 1) : s[i] = jobs[i]
        <4>1. \A i \in 1..(k - 1) : jobs[i] \in Nat
          BY <2>1, <3>1
        <4>2. /\ s \in Seq(Nat) /\ Len(s) = (IF 1 <= k - 1 THEN (k - 1) - 1 + 1 ELSE 0)
              /\ \A i \in 1..((k - 1) - 1 + 1) : s[i] = jobs[1 + i - 1]
          BY <2>1, <4>1, SubSeqProperties
        <4> QED
          BY <2>1, <4>2
      <3>3. /\ t \in Seq(Nat) /\ Len(t) = Len(jobs) - k
            /\ \A i \in 1..(Len(jobs) - k) : t[i] = jobs[k + i]
        <4> DEFINE a == k + 1
                   z == Len(jobs)
        <4>1. a \in Int /\ z \in Int /\ \A i \in a..z : jobs[i] \in Nat
          BY <2>1, <3>1
        <4>2. t = SubSeq(jobs, a, z)
          OBVIOUS
        <4> HIDE DEF a, z, t
        <4>3. /\ t \in Seq(Nat) /\ Len(t) = (IF a <= z THEN z - a + 1 ELSE 0)
              /\ \A i \in 1..(z - a + 1) : t[i] = jobs[a + i - 1]
          BY <4>1, <4>2, SubSeqProperties
        <4> QED
          BY <2>1, <3>1, <4>3 DEF a, z
      <3> HIDE DEF s, t
      <3>4. w = s \o t
        BY <2>2 DEF s, t
      <3>5. /\ w \in Seq(Nat) /\ Len(w) = Len(s) + Len(t)
            /\ \A i \in 1..(Len(s) + Len(t)) : w[i] = IF i <= Len(s) THEN s[i] ELSE t[i - Len(s)]
        BY <3>2, <3>3, <3>4, ConcatProperties
      <3>6. Len(w) = Len(jobs) - 1
        BY <2>1, <3>1, <3>2, <3>3, <3>5
      <3>7. ASSUME NEW i \in 1..Len(w), i < k
            PROVE  w[i] = jobs[i]
        <4>1. i \in 1..(k - 1) /\ i <= Len(s) /\ i \in 1..(Len(s) + Len(t))
          BY <2>1, <3>1, <3>2, <3>3, <3>5, <3>7
        <4> QED
          BY <3>2, <3>5, <4>1
      <3>8. ASSUME NEW i \in 1..Len(w), i >= k
            PROVE  w[i] = jobs[i + 1]
        <4>1. /\ i - Len(s) \in 1..(Len(jobs) - k) /\ ~(i <= Len(s)) /\ i \in 1..(Len(s) + Len(t))
              /\ k + (i - Len(s)) = i + 1
          BY <2>1, <3>1, <3>2, <3>3, <3>5, <3>8
        <4>2. w[i] = t[i - Len(s)]
          BY <3>5, <4>1
        <4> QED
          BY <3>3, <4>1, <4>2
      <3> QED
        BY <3>5, <3>6, <3>7, <3>8
    <2>n. Len(jobs) \in Nat /\ Len(w) = Len(jobs) - 1 /\ DOMAIN w = 1..Len(w)
      BY <2>3
    <2>4. ASSUME NEW c \in Nat \ {b}, BoardStorage!Queued(c)
          PROVE  \E i \in DOMAIN w : w[i] = c
      <3>1. PICK i \in 1..Len(jobs) : jobs[i] = c
        BY <2>4 DEF BoardStorage!Queued
      <3>2. i # k
        BY <2>1, <3>1
      <3>3. CASE i < k
        <4>1. i \in 1..Len(w)
          BY <2>1, <2>n, <3>1, <3>3
        <4>2. w[i] = jobs[i]
          BY <2>3, <3>3, <4>1
        <4> QED
          BY <2>n, <3>1, <4>1, <4>2
      <3>4. CASE i > k
        <4>1. i - 1 \in 1..Len(w) /\ i - 1 >= k /\ (i - 1) + 1 = i
          BY <2>1, <2>3, <3>1, <3>4
        <4>2. w[i - 1] = jobs[i]
          BY <2>3, <4>1
        <4> QED
          BY <2>3, <3>1, <4>1, <4>2
      <3> QED
        BY <2>1, <3>1, <3>2, <3>3, <3>4
    <2>5. ASSUME NEW i \in DOMAIN w
          PROVE  BoardStorage!Queued(w[i])
      <3>1. i \in 1..Len(w)
        BY <2>3, <2>5
      <3>2. i \in 1..Len(jobs) /\ i + 1 \in 1..Len(jobs)
        BY <2>n, <3>1
      <3>3. i < k \/ i >= k
        BY <2>1, <3>2
      <3>4. w[i] = jobs[i] \/ w[i] = jobs[i + 1]
        BY <2>3, <3>1, <3>3
      <3> QED
        BY <3>2, <3>4 DEF BoardStorage!Queued
    <2> QED
      BY <2>3, <2>4, <2>5 DEF w
  <1> QED
    BY <1>1, <1>2

\* A failed job changes places: the same boards are queued.
LEMMA Requeue ==
  ASSUME jobs \in Seq(Nat), NEW b \in Nat, BoardStorage!record_failure(b)
  PROVE  /\ jobs' \in Seq(Nat)
         /\ \A c \in Nat : BoardStorage!Queued(c)' <=> BoardStorage!Queued(c)
  <1>1. CASE ~BoardStorage!Queued(b)
    BY <1>1 DEF BoardStorage!record_failure, BoardStorage!Queued
  <1>2. CASE BoardStorage!Queued(b)
    <2> DEFINE w == BoardStorage!Without(b)
    <2>1. jobs' = Append(w, b)
      BY <1>2 DEF BoardStorage!record_failure
    <2>2. /\ w \in Seq(Nat)
          /\ \A c \in Nat \ {b} : BoardStorage!Queued(c) => \E i \in DOMAIN w : w[i] = c
          /\ \A i \in DOMAIN w : BoardStorage!Queued(w[i])
      BY Dequeue
    <2> HIDE DEF w
    <2>3. /\ jobs' \in Seq(Nat) /\ Len(jobs') = Len(w) + 1 /\ jobs'[Len(w) + 1] = b
          /\ \A i \in 1..Len(w) : jobs'[i] = w[i]
      BY <2>1, <2>2, AppendProperties
    <2>4. ASSUME NEW c \in Nat, BoardStorage!Queued(c)
          PROVE  BoardStorage!Queued(c)'
      <3>1. c = b \/ \E i \in 1..Len(w) : w[i] = c
        BY <2>2, <2>4
      <3>2. \E i \in 1..Len(jobs') : jobs'[i] = c
        <4>1. Len(w) \in Nat
          BY <2>2
        <4>2. CASE c = b
          BY <2>3, <4>1, <4>2
        <4>3. CASE \E i \in 1..Len(w) : w[i] = c
          <5>1. PICK i \in 1..Len(w) : w[i] = c
            BY <4>3
          <5>2. i \in 1..Len(jobs') /\ jobs'[i] = c
            BY <2>3, <4>1, <5>1
          <5> QED
            BY <5>2
        <4> QED
          BY <3>1, <4>2, <4>3
      <3> QED
        BY <2>3, <3>2 DEF BoardStorage!Queued
    <2>5. ASSUME NEW c \in Nat, BoardStorage!Queued(c)'
          PROVE  BoardStorage!Queued(c)
      <3>1. PICK i \in 1..Len(jobs') : jobs'[i] = c
        BY <2>3, <2>5 DEF BoardStorage!Queued
      <3>2. CASE i = Len(w) + 1
        BY <1>2, <2>3, <3>1, <3>2
      <3>3. CASE i \in 1..Len(w)
        <4>1. w[i] = c
          BY <2>3, <3>1, <3>3
        <4>2. i \in DOMAIN w
          BY <2>2, <3>3
        <4> QED
          BY <2>2, <4>1, <4>2
      <3> QED
        BY <2>2, <2>3, <3>1, <3>2, <3>3
    <2> QED
      BY <2>3, <2>4, <2>5
  <1> QED
    BY <1>1, <1>2

\* The sequence of a finite set has its elements.
LEMMA ElementsOf ==
  ASSUME NEW S, IsFiniteSet(S)
  PROVE  /\ BoardStorage!SetToSeq(S) \in [1..Cardinality(S) -> S]
         /\ Cardinality(S) \in Nat
         /\ \A x \in S : \E i \in 1..Cardinality(S) : BoardStorage!SetToSeq(S)[i] = x
  <1> DEFINE n == Cardinality(S)
             q == BoardStorage!SetToSeq(S)
  <1>1. n \in Nat /\ ExistsBijection(1..n, S)
    BY FS_CardinalityType
  <1>2. PICK f \in Bijection(1..n, S) : TRUE
    BY <1>1 DEF ExistsBijection
  <1>3. f \in [1..n -> S] /\ BoardStorage!IsInjective(f)
    BY <1>2 DEF Bijection, Injection, IsInjective, BoardStorage!IsInjective
  <1>4. q = CHOOSE g \in [1..n -> S] : BoardStorage!IsInjective(g)
    BY SameCount DEF BoardStorage!SetToSeq
  <1> HIDE DEF n, q
  <1>5. q \in [1..n -> S] /\ BoardStorage!IsInjective(q)
    BY <1>3, <1>4
  <1>6. q \in Injection(1..n, S)
    BY <1>5 DEF Injection, IsInjective, BoardStorage!IsInjective
  <1>7. IsFiniteSet(1..n) /\ Cardinality(1..n) = n
    BY <1>1, FS_Interval
  <1>8. Cardinality(1..n) = Cardinality(S)
    BY <1>7 DEF n
  <1>9. q \in Surjection(1..n, S)
    BY <1>6, <1>8, FS_Injection
  <1>10. \A x \in S : \E i \in 1..n : q[i] = x
    BY <1>9 DEF Surjection
  <1> QED
    BY <1>1, <1>5, <1>10 DEF n, q

\* The trigger of a deletion queues the boards that go, and no others.
LEMMA Enqueue ==
  ASSUME jobs \in Seq(Nat), NEW B \in SUBSET Nat, IsFiniteSet(B), BoardStorage!delete_boards(B)
  PROVE  /\ jobs' \in Seq(Nat)
         /\ \A c \in Nat : BoardStorage!Queued(c)' <=> (BoardStorage!Queued(c) \/ c \in B)
  <1> DEFINE q == BoardStorage!SetToSeq(B)
             n == Cardinality(B)
  <1>1. q \in [1..n -> B] /\ n \in Nat /\ \A x \in B : \E i \in 1..n : q[i] = x
    BY ElementsOf
  <1>2. jobs' = jobs \o q
    BY DEF BoardStorage!delete_boards
  <1> HIDE DEF q, n
  <1>3. q \in Seq(Nat) /\ Len(q) = n
    <2>1. q \in [1..n -> Nat]
      BY <1>1
    <2> QED
      BY <1>1, <2>1
  <1>4. /\ jobs' \in Seq(Nat) /\ Len(jobs') = Len(jobs) + n
        /\ \A i \in 1..Len(jobs) : jobs'[i] = jobs[i]
        /\ \A i \in 1..n : jobs'[Len(jobs) + i] = q[i]
    <2>1. /\ jobs' \in Seq(Nat) /\ Len(jobs') = Len(jobs) + Len(q)
          /\ \A i \in 1..(Len(jobs) + Len(q)) :
               jobs'[i] = IF i <= Len(jobs) THEN jobs[i] ELSE q[i - Len(jobs)]
      BY <1>2, <1>3, ConcatProperties
    <2>2. Len(jobs) \in Nat
      OBVIOUS
    <2>3. ASSUME NEW i \in 1..Len(jobs)
          PROVE  jobs'[i] = jobs[i]
      <3>1. i \in 1..(Len(jobs) + Len(q)) /\ i <= Len(jobs)
        BY <1>1, <1>3, <2>2
      <3> QED
        BY <2>1, <3>1
    <2>4. ASSUME NEW i \in 1..n
          PROVE  jobs'[Len(jobs) + i] = q[i]
      <3>1. Len(jobs) + i \in 1..(Len(jobs) + Len(q)) /\ ~(Len(jobs) + i <= Len(jobs))
        BY <1>1, <1>3, <2>2
      <3>2. (Len(jobs) + i) - Len(jobs) = i
        BY <1>1, <2>2
      <3> QED
        BY <2>1, <3>1, <3>2
    <2> QED
      BY <1>3, <2>1, <2>3, <2>4
  <1>l. Len(jobs) \in Nat
    OBVIOUS
  <1>5. ASSUME NEW c \in Nat, BoardStorage!Queued(c)
        PROVE  BoardStorage!Queued(c)'
    <2>1. PICK i \in 1..Len(jobs) : jobs[i] = c
      BY <1>5 DEF BoardStorage!Queued
    <2>2. i \in 1..Len(jobs') /\ jobs'[i] = c
      BY <1>1, <1>4, <1>l, <2>1
    <2>3. i \in DOMAIN jobs'
      BY <1>4, <2>2
    <2> QED
      BY <2>2, <2>3 DEF BoardStorage!Queued
  <1>6. ASSUME NEW c \in B
        PROVE  BoardStorage!Queued(c)'
    <2>1. PICK i \in 1..n : q[i] = c
      BY <1>1
    <2>2. jobs'[Len(jobs) + i] = c
      BY <1>4, <2>1
    <2>3. Len(jobs) + i \in 1..(Len(jobs) + n)
      BY <1>1, <1>l
    <2>4. Len(jobs) + i \in DOMAIN jobs'
      BY <1>4, <2>3
    <2> QED
      BY <2>2, <2>4 DEF BoardStorage!Queued
  <1>7. ASSUME NEW c \in Nat, BoardStorage!Queued(c)'
        PROVE  BoardStorage!Queued(c) \/ c \in B
    <2>1. PICK i \in 1..Len(jobs') : jobs'[i] = c
      BY <1>4, <1>7 DEF BoardStorage!Queued
    <2>2. CASE i \in 1..Len(jobs)
      BY <1>4, <2>1, <2>2 DEF BoardStorage!Queued
    <2>3. CASE i > Len(jobs)
      <3>1. i - Len(jobs) \in 1..n /\ Len(jobs) + (i - Len(jobs)) = i
        BY <1>1, <1>4, <1>l, <2>1, <2>3
      <3>2. jobs'[i] = q[i - Len(jobs)]
        BY <1>4, <3>1
      <3> QED
        BY <1>1, <2>1, <3>1, <3>2
    <2> QED
      BY <1>l, <2>1, <2>2, <2>3
  <1> QED
    BY <1>4, <1>5, <1>6, <1>7
-----------------------------------------------------------------------------
(* The requests *)

\* A step of the request h leaves the other requests alone.
Others(h) == \A i \in Handlers \ {h} : bPc'[i] = bPc[i] /\ bReq'[i] = bReq[i]

\* The files that a step gives out.
Given == (files + 1)..files'

\* What a step of the request h may do to the files that it is responsible for.
Advance(h) ==
  /\ Others(h) /\ RequestFits(h)'
  /\ made' \in Nat /\ files' \in Nat /\ made <= made' /\ files <= files'
  /\ boards' \subseteq boards \cup (made + 1)..made'
  /\ Mine(h)' \subseteq Mine(h) \cup Given
  /\ Mine(h)' \cap Mine(h) # {} => bReq'[h].board = bReq[h].board /\ bReq'[h].kind = bReq[h].kind
  /\ \A o \in objects' \ objects :
       /\ o.file \in Mine(h) \cup Given /\ o.file \in 1..files' /\ o.board \in 1..made'
       /\ o.file \in Mine(h)' =>
            o.board = bReq'[h].board /\ (bReq'[h].kind = "media" => o.piece = "file")
  /\ late \subseteq late' /\ late' \subseteq late \cup Mine(h) \cup Given
  /\ abandoned \subseteq abandoned'
  /\ Mine(h)' \cap late' # {} => bReq'[h].board \notin boards' /\ bPc'[h] # "base"
  /\ \A o \in objects' :
       o.file \in late' \cap (Mine(h) \cup Given) =>
         o.file \in abandoned' \/ (o.file \in Mine(h)' /\ bPc'[h] \notin {"undo", "base"})

\* A step of a request disturbs neither the other requests nor their objects.
LEMMA RequestKeeps ==
  ASSUME StorageTypes, RequestsInv, ObjectsFit, LateInv, NEW h \in Handlers, Advance(h)
  PROVE  RequestsInv' /\ ObjectsFit' /\ LateInv'
  <1>1. \A i \in Handlers \ {h} : Mine(i)' = Mine(i)
    BY DEF Advance, Others, Mine
  <1>2. \A i \in Handlers : Mine(i) \subseteq 1..files
    BY DEF RequestsInv, RequestFits
  <1>3. files \in Nat /\ made \in Nat /\ files' \in Nat /\ made' \in Nat /\ files <= files' /\ made <= made'
    BY DEF StorageTypes, Advance
  <1>4. 1..files \cap Given = {}
    BY <1>3 DEF Given
  <1>5. \A i \in Handlers \ {h} : Mine(i) \cap (Mine(h) \cup Given) = {}
    BY <1>2, <1>4 DEF RequestsInv
  <1>6. RequestsInv'
    <2>1. ASSUME NEW i \in Handlers \ {h}
          PROVE  RequestFits(i)'
      <3>1. bPc'[i] = bPc[i] /\ bReq'[i] = bReq[i] /\ Mine(i)' = Mine(i)
        BY <1>1 DEF Advance, Others
      <3>2. RequestFits(i)
        BY DEF RequestsInv
      <3>3. 1..made \subseteq 1..made' /\ 1..files \subseteq 1..files'
        BY <1>3
      <3> QED
        BY <3>1, <3>2, <3>3 DEF RequestFits
    <2>2. \A i \in Handlers \ {h} : Mine(i)' \cap Mine(h)' = {}
      BY <1>1, <1>5 DEF Advance
    <2>3. \A i, j \in Handlers \ {h} : i # j => Mine(i)' \cap Mine(j)' = {}
      BY <1>1 DEF RequestsInv
    <2> QED
      BY <2>1, <2>2, <2>3 DEF RequestsInv, Advance
  <1>7. ObjectsFit'
    <2> SUFFICES ASSUME NEW o \in objects'
                 PROVE  /\ o.file \in 1..files' /\ o.board \in 1..made'
                        /\ \A i \in Handlers :
                             o.file \in Mine(i)' =>
                               o.board = bReq'[i].board /\ (bReq'[i].kind = "media" => o.piece = "file")
      BY DEF ObjectsFit
    <2>1. CASE o \in objects
      <3>1. /\ o.file \in 1..files /\ o.board \in 1..made
            /\ \A i \in Handlers :
                 o.file \in Mine(i) =>
                   o.board = bReq[i].board /\ (bReq[i].kind = "media" => o.piece = "file")
        BY <2>1 DEF ObjectsFit
      <3>2. o.file \in 1..files' /\ o.board \in 1..made'
        BY <1>3, <3>1
      <3>3. ASSUME NEW i \in Handlers \ {h}, o.file \in Mine(i)'
            PROVE  o.board = bReq'[i].board /\ (bReq'[i].kind = "media" => o.piece = "file")
        BY <1>1, <3>1, <3>3 DEF Advance, Others
      <3>4. ASSUME o.file \in Mine(h)'
            PROVE  o.board = bReq'[h].board /\ (bReq'[h].kind = "media" => o.piece = "file")
        <4>1. o.file \in Mine(h)
          BY <1>4, <3>1, <3>4 DEF Advance
        <4>2. bReq'[h].board = bReq[h].board /\ bReq'[h].kind = bReq[h].kind
          BY <3>4, <4>1 DEF Advance
        <4> QED
          BY <3>1, <4>1, <4>2
      <3> QED
        BY <3>2, <3>3, <3>4
    <2>2. CASE o \notin objects
      <3>1. /\ o.file \in Mine(h) \cup Given /\ o.file \in 1..files' /\ o.board \in 1..made'
            /\ o.file \in Mine(h)' =>
                 o.board = bReq'[h].board /\ (bReq'[h].kind = "media" => o.piece = "file")
        BY <2>2 DEF Advance
      <3>2. \A i \in Handlers \ {h} : o.file \notin Mine(i)'
        BY <1>1, <1>5, <3>1
      <3> QED
        BY <3>1, <3>2
    <2> QED
      BY <2>1, <2>2
  <1>8. LateInv'
    <2>1. ASSUME NEW o \in objects', o.file \in late'
          PROVE  o.file \in abandoned'
                   \/ \E i \in Handlers : o.file \in Mine(i)' /\ bPc'[i] \notin {"undo", "base"}
      <3>1. CASE o.file \in Mine(h) \cup Given
        BY <2>1, <3>1 DEF Advance
      <3>2. CASE o.file \notin Mine(h) \cup Given
        <4>1. o \in objects /\ o.file \in late
          BY <2>1, <3>2 DEF Advance
        <4>2. CASE o.file \in abandoned
          BY <4>2 DEF Advance
        <4>3. CASE \E i \in Handlers : o.file \in Mine(i) /\ bPc[i] \notin {"undo", "base"}
          <5>1. PICK i \in Handlers : o.file \in Mine(i) /\ bPc[i] \notin {"undo", "base"}
            BY <4>3
          <5>2. i # h
            BY <3>2, <5>1
          <5>3. o.file \in Mine(i)' /\ bPc'[i] = bPc[i]
            BY <1>1, <5>1, <5>2 DEF Advance, Others
          <5> QED
            BY <5>1, <5>3
        <4> QED
          BY <4>1, <4>2, <4>3 DEF LateInv
      <3> QED
        BY <3>1, <3>2
    <2>2. ASSUME NEW i \in Handlers, Mine(i)' \cap late' # {}
          PROVE  bReq'[i].board \notin boards' /\ bPc'[i] # "base"
      <3>1. CASE i = h
        BY <2>2, <3>1 DEF Advance
      <3>2. CASE i # h
        <4>1. Mine(i) \cap late # {}
          BY <1>1, <1>5, <2>2, <3>2 DEF Advance
        <4>2. bReq[i].board \notin boards /\ bPc[i] # "base"
          BY <4>1 DEF LateInv
        <4>3. bPc'[i] = bPc[i] /\ bReq'[i] = bReq[i]
          BY <3>2 DEF Advance, Others
        <4>4. bReq[i] # BoardStorage!NoBoardReq
          <5>1. CASE bReq[i] = BoardStorage!NoBoardReq
            <6>1. Mine(i) = {}
              BY <5>1 DEF Mine, BoardStorage!NoBoardReq
            <6> QED
              BY <4>1, <6>1
          <5> QED
            BY <5>1
        <4>5. bReq[i].board \in 1..made
          BY <4>4 DEF RequestsInv, RequestFits
        <4>6. bReq[i].board \notin (made + 1)..made'
          BY <1>3, <4>5
        <4> QED
          BY <4>2, <4>3, <4>6 DEF Advance
      <3> QED
        BY <3>1, <3>2
    <2> QED
      BY <2>1, <2>2 DEF LateInv
  <1> QED
    BY <1>6, <1>7, <1>8

\* What a request stores can be found later, as long as no board goes.
LEMMA StoreKeeps ==
  ASSUME StorageTypes, JobsInv, Findable, CycleInv, made' \in Nat, made <= made',
         boards \subseteq boards', boards' \subseteq boards \cup (made + 1)..made',
         UNCHANGED <<jobs, cycle>>, late \subseteq late', objects' \subseteq StorageObjects,
         \A o \in objects' \ objects : BoardStorage!Listed(o.board) => o.file \in late'
  PROVE  JobsInv' /\ Findable' /\ CycleInv'
  <1>0. made \in Nat
    BY DEF StorageTypes
  <1>1. \A b \in Nat : BoardStorage!Queued(b)' <=> BoardStorage!Queued(b)
    BY DEF BoardStorage!Queued
  <1>2. JobsInv'
    <2> SUFFICES ASSUME NEW b \in Nat, BoardStorage!Queued(b)'
                 PROVE  b \in 1..made' /\ b \notin boards'
      BY DEF JobsInv
    <2>1. b \in 1..made /\ b \notin boards
      BY <1>1 DEF JobsInv
    <2>2. b \notin (made + 1)..made'
      BY <1>0, <2>1
    <2> QED
      BY <1>0, <2>1, <2>2
  <1>3. \A o \in objects' : o.board \in Nat
    BY DEF StorageObjects
  <1>4. Findable'
    <2> SUFFICES ASSUME NEW o \in objects'
                 PROVE  o.board \in boards' \/ BoardStorage!Queued(o.board)' \/ o.file \in late'
      BY DEF Findable
    <2>1. CASE o \in objects
      BY <1>1, <1>3, <2>1 DEF Findable
    <2>2. CASE o \notin objects
      BY <1>1, <1>3, <2>2 DEF BoardStorage!Listed
    <2> QED
      BY <2>1, <2>2
  <1>5. CycleInv'
    <2>1. cycle' = cycle /\ cycle.job \in Nat
      BY DEF StorageTypes
    <2>2. cycle.pc # "idle" => BoardStorage!Queued(cycle.job)'
      BY <1>1, <2>1 DEF CycleInv
    <2>3. ASSUME NEW o \in objects' \ objects, cycle.pc \in {"delete", "complete"}, o.board = cycle.job
          PROVE  o.file \in late'
      <3>1. BoardStorage!Queued(cycle.job)
        BY <2>3 DEF CycleInv
      <3>2. cycle.job \notin boards
        BY <2>1, <3>1 DEF JobsInv
      <3> QED
        BY <2>3, <3>2 DEF BoardStorage!Listed
    <2>4. cycle.pc = "delete" => \A o \in objects' : o.board = cycle.job => o \in cycle.keys \/ o.file \in late'
      BY <2>3 DEF CycleInv
    <2>5. cycle.pc = "complete" => \A o \in objects' : o.board = cycle.job => o.file \in late'
      BY <2>3 DEF CycleInv
    <2> QED
      BY <2>1, <2>2, <2>4, <2>5 DEF CycleInv
  <1> QED
    BY <1>2, <1>4, <1>5

\* A board keeps its base, or the request that is about to give it one.
LEMMA InitialisedKeeps ==
  ASSUME BoardStorage!BoardInitialised, NEW h \in Handlers, Others(h),
         stranded \subseteq stranded', boards' \cap based \subseteq based',
         \A b \in boards' \ boards : bReq'[h].board = b /\ bReq'[h].kind \in {"create", "import"},
         \A b \in boards' :
           bReq[h].board = b /\ bReq[h].kind \in {"create", "import"} =>
             \/ b \in based' \cup stranded'
             \/ bReq'[h].board = b /\ bReq'[h].kind \in {"create", "import"}
  PROVE  BoardStorage!BoardInitialised'
  <1> SUFFICES ASSUME NEW b \in boards'
               PROVE  \/ b \in based' \/ b \in stranded'
                      \/ \E i \in Handlers : bReq'[i].board = b /\ bReq'[i].kind \in {"create", "import"}
    BY DEF BoardStorage!BoardInitialised, BoardStorage!At
  <1>1. CASE b \notin boards
    BY <1>1
  <1>2. CASE b \in boards
    <2>1. \/ b \in based \/ b \in stranded
          \/ \E i \in Handlers : bReq[i].board = b /\ bReq[i].kind \in {"create", "import"}
      BY <1>2 DEF BoardStorage!BoardInitialised, BoardStorage!At
    <2>2. ASSUME NEW i \in Handlers, bReq[i].board = b /\ bReq[i].kind \in {"create", "import"}
          PROVE  \/ b \in based' \/ b \in stranded'
                 \/ \E j \in Handlers : bReq'[j].board = b /\ bReq'[j].kind \in {"create", "import"}
      <3>1. CASE i = h
        BY <2>2, <3>1
      <3>2. CASE i # h
        BY <2>2, <3>2 DEF Others
      <3> QED
        BY <3>1, <3>2
    <2> QED
      BY <2>1, <2>2
  <1> QED
    BY <1>1, <1>2

\* Going to another place, and ending.
LEMMA GotoFacts ==
  ASSUME StorageTypes, NEW h \in Handlers, NEW w \in StoragePlaces, BoardStorage!Goto(h, w)
  PROVE  /\ bPc' \in [Handlers -> StoragePlaces] /\ bPc'[h] = w
         /\ \A i \in Handlers \ {h} : bPc'[i] = bPc[i]
  BY DEF StorageTypes, BoardStorage!Goto

\* A step that gives request h the record q leaves the others theirs.
LEMMA RequestFacts ==
  ASSUME StorageTypes, NEW h \in Handlers, NEW q \in StorageReqs, bReq' = [bReq EXCEPT ![h] = q]
  PROVE  /\ bReq' \in [Handlers -> StorageReqs] /\ bReq'[h] = q
         /\ \A i \in Handlers \ {h} : bReq'[i] = bReq[i]
  BY DEF StorageTypes

\* A request that is done is idle and carries nothing.
LEMMA DoneFacts ==
  ASSUME StorageTypes, NEW h \in Handlers, BoardStorage!Done(h)
  PROVE  /\ bPc' \in [Handlers -> StoragePlaces] /\ bReq' \in [Handlers -> StorageReqs]
         /\ bPc'[h] = "idle" /\ bReq'[h] = BoardStorage!NoBoardReq
         /\ Others(h) /\ RequestFits(h)' /\ Mine(h)' = {}
  <1>1. BoardStorage!NoBoardReq \in StorageReqs
    BY DEF StorageReqs, BoardStorage!NoBoardReq
  <1>2. bReq' = [bReq EXCEPT ![h] = BoardStorage!NoBoardReq] /\ BoardStorage!Goto(h, "idle")
    BY DEF BoardStorage!Done
  <1>3. "idle" \in StoragePlaces
    BY DEF StoragePlaces
  <1>4. bPc' \in [Handlers -> StoragePlaces] /\ bPc'[h] = "idle" /\ \A i \in Handlers \ {h} : bPc'[i] = bPc[i]
    BY <1>2, <1>3, GotoFacts
  <1>5. /\ bReq' \in [Handlers -> StorageReqs] /\ bReq'[h] = BoardStorage!NoBoardReq
        /\ \A i \in Handlers \ {h} : bReq'[i] = bReq[i]
    BY <1>1, <1>2, RequestFacts
  <1>6. Mine(h)' = {}
    BY <1>5 DEF Mine, BoardStorage!NoBoardReq
  <1>7. RequestFits(h)'
    BY <1>4, <1>5, <1>6 DEF RequestFits, Uploading, Creating, Importing
  <1> QED
    BY <1>4, <1>5, <1>6, <1>7 DEF Others
\* A step of a request that deletes no board.
LEMMA RequestStep ==
  ASSUME StorageInv, NEW h \in Handlers, StorageTypes', Advance(h), boards \subseteq boards',
         UNCHANGED <<jobs, cycle>>,
         \A o \in objects' \ objects : BoardStorage!Listed(o.board) => o.file \in late',
         QuotaInv', BoardStorage!BoardInitialised'
  PROVE  StorageInv'
  <1>1. RequestsInv' /\ ObjectsFit' /\ LateInv'
    BY RequestKeeps DEF StorageInv
  <1>2. JobsInv' /\ Findable' /\ CycleInv'
    <2>1. objects' \subseteq StorageObjects
      BY DEF StorageTypes
    <2>2. made' \in Nat /\ made <= made' /\ boards' \subseteq boards \cup (made + 1)..made' /\ late \subseteq late'
      BY DEF Advance
    <2> QED
      BY <2>1, <2>2, StoreKeeps DEF StorageInv
  <1> QED
    BY <1>1, <1>2 DEF StorageInv

\* A request that is not in progress is responsible for nothing.
LEMMA IdleRequest ==
  ASSUME StorageInv, NEW h \in Handlers, bPc[h] = "idle"
  PROVE  bReq[h] = BoardStorage!NoBoardReq /\ Mine(h) = {} /\ bReq[h].kind = "none"
  <1>1. bReq[h] = BoardStorage!NoBoardReq
    BY DEF StorageInv, RequestsInv, RequestFits
  <1> QED
    BY <1>1 DEF Mine, BoardStorage!NoBoardReq

\* The rows and the limits are as they were.
LEMMA QuotaStays ==
  ASSUME QuotaInv, UNCHANGED <<boards, rows, imported>>
  PROVE  QuotaInv'
  BY DEF QuotaInv

\* A board is created within the limit, for a request that will give it a base.
LEMMA NewBoard ==
  ASSUME StorageInv, NEW h \in Handlers, NEW kind, NEW w, NEW q \in StorageReqs,
         (kind = "create" /\ w = "seed") \/ (kind = "import" /\ w = "asset"),
         bPc[h] = "idle", BoardStorage!db_create_board, BoardStorage!Goto(h, w),
         q.board = made + 1, q.kind = kind, q.file = 0, q.put = {}, bReq' = [bReq EXCEPT ![h] = q],
         UNCHANGED <<based, rows, imported, objects, files, jobs, cycle, late, abandoned, stranded>>
  PROVE  StorageInv'
  <1>0. StorageTypes /\ QuotaInv /\ BoardStorage!BoardInitialised /\ ObjectsFit
    BY DEF StorageInv
  <1>1. made \in Nat /\ files \in Nat /\ boards \subseteq 1..made /\ late \subseteq 1..files
    BY <1>0 DEF StorageTypes
  <1>2. made' = made + 1 /\ boards' = boards \cup {made + 1} /\ Cardinality(boards) < BoardLimit
    BY SameCount DEF BoardStorage!db_create_board, BoardStorage!evaluate_board
  <1>3. w \in StoragePlaces
    BY DEF StoragePlaces, Creating, Importing
  <1>4. bPc' \in [Handlers -> StoragePlaces] /\ bPc'[h] = w /\ \A i \in Handlers \ {h} : bPc'[i] = bPc[i]
    BY <1>0, <1>3, GotoFacts
  <1>6. /\ bReq' \in [Handlers -> StorageReqs] /\ bReq'[h] = q
        /\ \A i \in Handlers \ {h} : bReq'[i] = bReq[i]
    BY <1>0, RequestFacts
  <1>7. Mine(h) = {} /\ bReq[h].kind = "none"
    BY IdleRequest
  <1>8. Mine(h)' = {}
    BY <1>6 DEF Mine
  <1>9. RequestFits(h)'
    <2>1. made + 1 \in 1..made'
      BY <1>1, <1>2
    <2> QED
      BY <1>4, <1>6, <1>8, <2>1 DEF RequestFits, Uploading, Creating, Importing
  <1>10. StorageTypes'
    <2>1. made' \in Nat /\ boards' \subseteq 1..made'
      BY <1>1, <1>2
    <2> QED
      BY <1>0, <1>4, <1>6, <2>1 DEF StorageTypes
  <1>11. Advance(h)
    <2>1. Given = {}
      BY <1>1 DEF Given
    <2>2. made + 1 \in (made + 1)..made'
      BY <1>1, <1>2
    <2>3. made' \in Nat /\ files' \in Nat /\ made <= made' /\ files <= files'
      BY <1>1, <1>2
    <2>4. Others(h)
      BY <1>4, <1>6 DEF Others
    <2> QED
      BY <1>2, <1>7, <1>8, <1>9, <2>1, <2>2, <2>3, <2>4 DEF Advance
  <1>12. QuotaInv'
    <2>1. IsFiniteSet(boards)
      <3>1. IsFiniteSet(1..made)
        BY <1>1, FS_Interval
      <3> QED
        BY <1>1, <3>1, FS_Subset
    <2>2. Cardinality(boards) \in Nat
      BY <2>1, FS_CardinalityType
    <2>3. made + 1 \notin boards
      BY <1>1
    <2>4. Cardinality(boards') = Cardinality(boards) + 1
      BY <1>2, <2>1, <2>3, FS_AddElement
    <2>5. Cardinality(boards') <= BoardLimit
      BY <1>2, <2>2, <2>4, BoardsAssumption DEF BoardsAssumption
    <2> QED
      BY <1>0, <2>5 DEF QuotaInv
  <1>13. BoardStorage!BoardInitialised'
    <2>1. Others(h)
      BY <1>4, <1>6 DEF Others
    <2>2. \A b \in boards' \ boards : bReq'[h].board = b /\ bReq'[h].kind \in {"create", "import"}
      BY <1>2, <1>6
    <2> QED
      BY <1>0, <1>7, <2>1, <2>2, InitialisedKeeps
  <1> QED
    BY <1>2, <1>10, <1>11, <1>12, <1>13, RequestStep

\* create_board: the row, under the count of the owner's boards.
LEMMA CreateBoardStep ==
  ASSUME StorageInv, NEW h \in Handlers, BoardStorage!CreateBoard(h)
  PROVE  StorageInv'
  <1> DEFINE q == [BoardStorage!NoBoardReq EXCEPT !.board = made + 1, !.kind = "create"]
  <1>1. bReq' = [bReq EXCEPT ![h] = q]
    BY DEF BoardStorage!CreateBoard
  <1>2. made \in Nat
    BY DEF StorageInv, StorageTypes
  <1>n. BoardStorage!NoBoardReq \in StorageReqs
    BY DEF StorageReqs, BoardStorage!NoBoardReq
  <1>3. q \in StorageReqs
    <2> DEFINE r == [BoardStorage!NoBoardReq EXCEPT !.board = made + 1]
               s == [r EXCEPT !.kind = "create"]
    <2>1. r \in StorageReqs
      BY <1>2, <1>n DEF StorageReqs
    <2> HIDE DEF r
    <2>2. s \in StorageReqs
      BY <2>1 DEF StorageReqs
    <2> HIDE DEF s
    <2>3. q = s
      BY DEF r, s
    <2> QED
      BY <2>2, <2>3
  <1>4. q.board = made + 1 /\ q.kind = "create" /\ q.file = 0 /\ q.put = {}
    BY DEF BoardStorage!NoBoardReq
  <1> HIDE DEF q
  <1>5. /\ bPc[h] = "idle" /\ BoardStorage!db_create_board /\ BoardStorage!Goto(h, "seed")
        /\ UNCHANGED <<based, rows, imported, objects, files, jobs, cycle, late, abandoned, stranded>>
    BY DEF BoardStorage!CreateBoard
  <1> QED
    BY <1>1, <1>3, <1>4, <1>5, NewBoard

\* import_board: the row, as in create_board, with assets to store.
LEMMA ImportBoardStep ==
  ASSUME StorageInv, NEW h \in Handlers, NEW n \in 1..2, NEW valid \in BOOLEAN,
         BoardStorage!ImportBoard(h, n, valid)
  PROVE  StorageInv'
  <1> DEFINE q == [BoardStorage!NoBoardReq EXCEPT !.board = made + 1, !.kind = "import", !.left = n]
  <1>1. bReq' = [bReq EXCEPT ![h] = q]
    BY DEF BoardStorage!ImportBoard
  <1>2. made \in Nat
    BY DEF StorageInv, StorageTypes
  <1>n. BoardStorage!NoBoardReq \in StorageReqs
    BY DEF StorageReqs, BoardStorage!NoBoardReq
  <1>3. q \in StorageReqs
    <2> DEFINE r == [BoardStorage!NoBoardReq EXCEPT !.board = made + 1]
               s == [r EXCEPT !.kind = "import"]
    <2>1. r \in StorageReqs
      BY <1>2, <1>n DEF StorageReqs
    <2> HIDE DEF r
    <2>2. s \in StorageReqs
      BY <2>1 DEF StorageReqs
    <2> HIDE DEF s
    <2>3. [s EXCEPT !.left = n] \in StorageReqs
      BY <2>2 DEF StorageReqs
    <2>4. q = [s EXCEPT !.left = n]
      BY DEF r, s
    <2> QED
      BY <2>3, <2>4
  <1>4. q.board = made + 1 /\ q.kind = "import" /\ q.file = 0 /\ q.put = {}
    BY DEF BoardStorage!NoBoardReq
  <1> HIDE DEF q
  <1>5. /\ bPc[h] = "idle" /\ BoardStorage!db_create_board /\ BoardStorage!Goto(h, "asset")
        /\ UNCHANGED <<based, rows, imported, objects, files, jobs, cycle, late, abandoned, stranded>>
    BY DEF BoardStorage!ImportBoard
  <1> QED
    BY <1>1, <1>3, <1>4, <1>5, NewBoard

\* A step that moves or ends the request h, which keeps its files or none, and touches
\* neither the rows of boards nor the bucket.
LEMMA MovesOn ==
  ASSUME StorageInv, NEW h \in Handlers, Others(h), RequestFits(h)',
         bPc' \in [Handlers -> StoragePlaces], bReq' \in [Handlers -> StorageReqs],
         bReq'[h] = bReq[h] \/ bReq'[h] = BoardStorage!NoBoardReq,
         UNCHANGED <<boards, made, files, jobs, cycle, objects, late>>, abandoned \subseteq abandoned',
         Mine(h) \cap late # {} => bPc'[h] # "base",
         \A o \in objects :
           o.file \in late \cap Mine(h) =>
             o.file \in abandoned' \/ (o.file \in Mine(h)' /\ bPc'[h] \notin {"undo", "base"}),
         QuotaInv', BoardStorage!BoardInitialised'
  PROVE  StorageInv'
  <1>1. StorageTypes'
    BY DEF StorageInv, StorageTypes
  <1>2. files \in Nat /\ made \in Nat /\ Given = {}
    BY DEF StorageInv, StorageTypes, Given
  <1>3. Mine(h)' \subseteq Mine(h)
    BY DEF Mine, BoardStorage!NoBoardReq
  <1>4. Mine(h)' # {} => bReq'[h] = bReq[h]
    BY DEF Mine, BoardStorage!NoBoardReq
  <1>5. Mine(h)' \cap late # {} => bReq'[h].board \notin boards
    BY <1>3, <1>4 DEF StorageInv, LateInv
  <1>6. made <= made' /\ files <= files'
    BY <1>2
  <1>7. Advance(h)
    BY <1>2, <1>3, <1>4, <1>5, <1>6 DEF Advance
  <1> QED
    BY <1>1, <1>7, RequestStep
\* A request goes to another place with what it has.
LEMMA GotoStep ==
  ASSUME StorageTypes, NEW h \in Handlers, NEW w \in StoragePlaces, BoardStorage!Goto(h, w), UNCHANGED bReq
  PROVE  /\ bPc' \in [Handlers -> StoragePlaces] /\ bReq' \in [Handlers -> StorageReqs]
         /\ bPc'[h] = w /\ bReq'[h] = bReq[h] /\ Others(h) /\ Mine(h)' = Mine(h)
  <1>1. /\ bPc' \in [Handlers -> StoragePlaces] /\ bPc'[h] = w
        /\ \A i \in Handlers \ {h} : bPc'[i] = bPc[i]
    BY GotoFacts
  <1>2. bReq' \in [Handlers -> StorageReqs]
    BY DEF StorageTypes
  <1> QED
    BY <1>1, <1>2 DEF Others, Mine

\* The base of a created board, or the way back when it fails.
LEMMA SeedBoardStep ==
  ASSUME StorageInv, NEW h \in Handlers, BoardStorage!SeedBoard(h)
  PROVE  StorageInv'
  <1>0. StorageTypes /\ RequestFits(h) /\ QuotaInv /\ BoardStorage!BoardInitialised
    BY DEF StorageInv, RequestsInv
  <1>1. /\ bPc[h] = "seed"
        /\ UNCHANGED <<boards, made, rows, imported, objects, files, jobs, cycle, late, abandoned, stranded>>
    BY DEF BoardStorage!SeedBoard
  <1>2. bReq[h].kind = "create" /\ bReq[h].file = 0 /\ bReq[h].put = {} /\ bReq[h].board \in 1..made
    BY <1>0, <1>1 DEF RequestFits, Creating, Uploading
  <1>3. Mine(h) = {}
    BY <1>2 DEF Mine
  <1>4. QuotaInv'
    BY <1>0, <1>1, QuotaStays
  <1>5. CASE BoardStorage!Done(h) /\ based' = based \cup {bReq[h].board}
    <2>1. /\ bPc' \in [Handlers -> StoragePlaces] /\ bReq' \in [Handlers -> StorageReqs]
          /\ bPc'[h] = "idle" /\ bReq'[h] = BoardStorage!NoBoardReq
          /\ Others(h) /\ RequestFits(h)'
      BY <1>0, <1>5, DoneFacts
    <2>2. BoardStorage!BoardInitialised'
      BY <1>0, <1>1, <1>5, <2>1, InitialisedKeeps
    <2> QED
      BY <1>1, <1>3, <1>4, <2>1, <2>2, MovesOn
  <1>6. CASE BoardStorage!Goto(h, "undo") /\ UNCHANGED <<based, bReq>>
    <2>1. "undo" \in StoragePlaces
      BY DEF StoragePlaces, Creating
    <2>2. /\ bPc' \in [Handlers -> StoragePlaces] /\ bReq' \in [Handlers -> StorageReqs]
          /\ bPc'[h] = "undo" /\ bReq'[h] = bReq[h] /\ Others(h) /\ Mine(h)' = Mine(h)
      BY <1>0, <1>6, <2>1, GotoStep
    <2>3. RequestFits(h)'
      BY <1>1, <1>2, <1>3, <2>2 DEF RequestFits, Creating, Importing, Uploading
    <2>4. BoardStorage!BoardInitialised'
      BY <1>0, <1>1, <1>6, <2>2, InitialisedKeeps
    <2> QED
      BY <1>1, <1>3, <1>4, <2>2, <2>3, <2>4, MovesOn
  <1> QED
    BY <1>5, <1>6 DEF BoardStorage!SeedBoard

\* The base of an imported board: what is late has been seen to before.
LEMMA ImportBaseStep ==
  ASSUME StorageInv, NEW h \in Handlers, BoardStorage!ImportBase(h)
  PROVE  StorageInv'
  <1>0. StorageTypes /\ RequestFits(h) /\ QuotaInv /\ BoardStorage!BoardInitialised /\ LateInv
    BY DEF StorageInv, RequestsInv
  <1>1. /\ bPc[h] = "base" /\ BoardStorage!Done(h)
        /\ UNCHANGED <<boards, made, rows, imported, objects, files, jobs, cycle, late, abandoned>>
        /\ based \subseteq based' /\ stranded \subseteq stranded'
        /\ bReq[h].board \in boards => bReq[h].board \in based' \cup stranded'
    BY DEF BoardStorage!ImportBase
  <1>2. /\ bPc' \in [Handlers -> StoragePlaces] /\ bReq' \in [Handlers -> StorageReqs]
        /\ bPc'[h] = "idle" /\ bReq'[h] = BoardStorage!NoBoardReq
        /\ Others(h) /\ RequestFits(h)'
    BY <1>0, <1>1, DoneFacts
  <1>3. QuotaInv'
    BY <1>0, <1>1, QuotaStays
  <1>4. Mine(h) \cap late = {}
    BY <1>0, <1>1 DEF LateInv
  <1>5. BoardStorage!BoardInitialised'
    BY <1>0, <1>1, <1>2, InitialisedKeeps
  <1> QED
    BY <1>1, <1>2, <1>3, <1>4, <1>5, MovesOn

\* A file is recorded within the limit, for a board that is there.
LEMMA RecordFileStep ==
  ASSUME StorageInv, NEW h \in Handlers, BoardStorage!RecordFile(h)
  PROVE  StorageInv'
  <1>0. StorageTypes /\ RequestFits(h) /\ QuotaInv /\ BoardStorage!BoardInitialised /\ LateInv
    BY DEF StorageInv, RequestsInv
  <1>1. /\ bPc[h] = "record"
        /\ UNCHANGED <<boards, made, based, imported, objects, files, jobs, cycle, late, abandoned, stranded>>
        /\ rows' = rows \/ (rows' = rows \cup {BoardStorage!Row(h)} /\ BoardStorage!insert_board_file(h))
    BY DEF BoardStorage!RecordFile
  <1>2. bReq[h].kind \in {"media", "pdf"} /\ bReq[h].file # 0 /\ bReq[h].put = {} /\ bReq[h].board \in 1..made
    BY <1>0, <1>1 DEF RequestFits, Uploading
  <1>3. QuotaInv'
    <2>1. CASE rows' = rows
      BY <1>0, <1>1, <2>1, QuotaStays
    <2>2. CASE rows' = rows \cup {BoardStorage!Row(h)} /\ BoardStorage!insert_board_file(h)
      <3>1. Cardinality(rows) + Cardinality(imported) + 1 <= StorageLimit
        BY <2>2, SameCount DEF BoardStorage!insert_board_file, BoardStorage!evaluate_storage, BoardStorage!used
      <3>2. IsFiniteSet(rows) /\ IsFiniteSet(imported) /\ Cardinality(boards) <= BoardLimit
        BY <1>0 DEF QuotaInv
      <3>3. Cardinality(rows) \in Nat /\ Cardinality(imported) \in Nat
        BY <3>2, FS_CardinalityType
      <3>4. IsFiniteSet(rows') /\ (Cardinality(rows') = Cardinality(rows) \/ Cardinality(rows') = Cardinality(rows) + 1)
        BY <2>2, <3>2, FS_AddElement
      <3>5. Cardinality(rows') + Cardinality(imported) <= StorageLimit
        BY <3>1, <3>3, <3>4, BoardsAssumption DEF BoardsAssumption
      <3> QED
        BY <1>1, <3>2, <3>4, <3>5 DEF QuotaInv
    <2> QED
      BY <1>1, <2>1, <2>2
  <1>4. CASE BoardStorage!Done(h) /\ BoardStorage!insert_board_file(h)
    <2>1. /\ bPc' \in [Handlers -> StoragePlaces] /\ bReq' \in [Handlers -> StorageReqs]
          /\ bPc'[h] = "idle" /\ bReq'[h] = BoardStorage!NoBoardReq
          /\ Others(h) /\ RequestFits(h)'
      BY <1>0, <1>4, DoneFacts
    <2>2. Mine(h) \cap late = {}
      BY <1>0, <1>4 DEF LateInv, BoardStorage!insert_board_file
    <2>3. BoardStorage!BoardInitialised'
      BY <1>0, <1>1, <1>2, <2>1, InitialisedKeeps
    <2> QED
      BY <1>1, <1>3, <2>1, <2>2, <2>3, MovesOn
  <1>5. CASE BoardStorage!Goto(h, "clean") /\ UNCHANGED bReq
    <2>1. "clean" \in StoragePlaces
      BY DEF StoragePlaces, Uploading
    <2>2. /\ bPc' \in [Handlers -> StoragePlaces] /\ bReq' \in [Handlers -> StorageReqs]
          /\ bPc'[h] = "clean" /\ bReq'[h] = bReq[h] /\ Others(h) /\ Mine(h)' = Mine(h)
      BY <1>0, <1>5, <2>1, GotoStep
    <2>3. Mine(h) \subseteq 1..files
      BY <1>0 DEF RequestFits
    <2>4. RequestFits(h)'
      BY <1>1, <1>2, <2>2, <2>3 DEF RequestFits, Creating, Importing, Uploading
    <2>5. BoardStorage!BoardInitialised'
      BY <1>0, <1>1, <2>2, InitialisedKeeps
    <2> QED
      BY <1>1, <1>3, <2>2, <2>4, <2>5, MovesOn
  <1> QED
    BY <1>4, <1>5 DEF BoardStorage!RecordFile

\* The assets of an import are counted within the limit, for a board that is there.
LEMMA RecordImportStep ==
  ASSUME StorageInv, NEW h \in Handlers, BoardStorage!RecordImport(h)
  PROVE  StorageInv'
  <1> DEFINE b == bReq[h].board
             put == bReq[h].put
             more == {[board |-> b, file |-> f] : f \in put}
             counted == BoardStorage!evaluate_storage(BoardStorage!Cardinality(put)) /\ b \in boards
  <1>0. StorageTypes /\ RequestFits(h) /\ QuotaInv /\ BoardStorage!BoardInitialised /\ LateInv
    BY DEF StorageInv, RequestsInv
  <1>1. /\ bPc[h] = "asset"
        /\ UNCHANGED <<boards, made, based, rows, objects, files, jobs, bReq, cycle, late, abandoned, stranded>>
        /\ \/ counted /\ imported' = imported \cup more /\ BoardStorage!Goto(h, "base")
           \/ imported' = imported /\ BoardStorage!Goto(h, "unput")
    BY DEF BoardStorage!RecordImport
  <1>2. bReq[h].kind = "import" /\ bReq[h].file = 0 /\ bReq[h].board \in 1..made /\ Mine(h) \subseteq 1..files
    BY <1>0, <1>1 DEF RequestFits, Creating, Importing
  <1>3. QuotaInv'
    <2>1. CASE imported' = imported
      BY <1>0, <1>1, <2>1, QuotaStays
    <2>2. CASE counted /\ imported' = imported \cup more
      <3>1. Cardinality(rows) + Cardinality(imported) + Cardinality(put) <= StorageLimit
        BY <2>2, SameCount DEF BoardStorage!evaluate_storage, BoardStorage!used
      <3>2. IsFiniteSet(rows) /\ IsFiniteSet(imported) /\ Cardinality(boards) <= BoardLimit
        BY <1>0 DEF QuotaInv
      <3>3. put \ {0} \subseteq 1..files /\ files \in Nat
        BY <1>0, <1>2 DEF Mine, StorageTypes
      <3>4. IsFiniteSet(0..files) /\ put \subseteq 0..files
        <4>1. put \subseteq 0..files
          BY <3>3
        <4>2. IsFiniteSet(0..files)
          BY <3>3, FS_Interval
        <4> QED
          BY <4>1, <4>2
      <3>5. IsFiniteSet(put)
        BY <3>4, FS_Subset
      <3>6. IsFiniteSet(more) /\ Cardinality(more) <= Cardinality(put)
        <4> DEFINE m == [f \in put |-> [board |-> b, file |-> f]]
        <4>1. m \in Surjection(put, more)
          BY DEF Surjection
        <4> QED
          BY <3>5, <4>1, FS_Surjection
      <3> HIDE DEF more, put
      <3>7. /\ IsFiniteSet(imported')
            /\ Cardinality(imported') = Cardinality(imported) + Cardinality(more) - Cardinality(imported \cap more)
        BY <2>2, <3>2, <3>6, FS_Union
      <3>8. IsFiniteSet(imported \cap more)
        BY <3>2, FS_Intersection
      <3>9. /\ Cardinality(rows) \in Nat /\ Cardinality(imported) \in Nat /\ Cardinality(more) \in Nat
            /\ Cardinality(put) \in Nat /\ Cardinality(imported \cap more) \in Nat
        BY <3>2, <3>5, <3>6, <3>8, FS_CardinalityType
      <3>10. Cardinality(rows) + Cardinality(imported') <= StorageLimit
        BY <3>1, <3>6, <3>7, <3>9, BoardsAssumption DEF BoardsAssumption
      <3> QED
        BY <1>1, <3>2, <3>7, <3>10 DEF QuotaInv
    <2> QED
      BY <1>1, <2>1, <2>2
  <1>4. CASE counted /\ BoardStorage!Goto(h, "base")
    <2>1. "base" \in StoragePlaces
      BY DEF StoragePlaces, Creating, Importing
    <2>2. /\ bPc' \in [Handlers -> StoragePlaces] /\ bReq' \in [Handlers -> StorageReqs]
          /\ bPc'[h] = "base" /\ bReq'[h] = bReq[h] /\ Others(h) /\ Mine(h)' = Mine(h)
      BY <1>0, <1>1, <1>4, <2>1, GotoStep
    <2>3. RequestFits(h)'
      BY <1>1, <1>2, <2>2 DEF RequestFits, Creating, Importing, Uploading
    <2>4. Mine(h) \cap late = {}
      BY <1>0, <1>4 DEF LateInv
    <2>5. BoardStorage!BoardInitialised'
      BY <1>0, <1>1, <2>2, InitialisedKeeps
    <2> QED
      BY <1>1, <1>3, <2>2, <2>3, <2>4, <2>5, MovesOn
  <1>5. CASE BoardStorage!Goto(h, "unput")
    <2>1. "unput" \in StoragePlaces
      BY DEF StoragePlaces, Creating, Importing
    <2>2. /\ bPc' \in [Handlers -> StoragePlaces] /\ bReq' \in [Handlers -> StorageReqs]
          /\ bPc'[h] = "unput" /\ bReq'[h] = bReq[h] /\ Others(h) /\ Mine(h)' = Mine(h)
      BY <1>0, <1>1, <1>5, <2>1, GotoStep
    <2>3. RequestFits(h)'
      BY <1>1, <1>2, <2>2 DEF RequestFits, Creating, Importing, Uploading
    <2>4. BoardStorage!BoardInitialised'
      BY <1>0, <1>1, <2>2, InitialisedKeeps
    <2> QED
      BY <1>1, <1>3, <2>2, <2>3, <2>4, MovesOn
  <1> QED
    BY <1>1, <1>4, <1>5
-----------------------------------------------------------------------------
(* Uploads *)

\* A request for an upload is given a file that nobody had.
LEMMA StartUploadStep ==
  ASSUME StorageInv, NEW h \in Handlers, NEW b, NEW kind \in {"media", "pdf"},
         BoardStorage!StartUpload(h, b, kind)
  PROVE  StorageInv'
  <1> DEFINE r == [BoardStorage!NoBoardReq EXCEPT !.board = b]
             s == [r EXCEPT !.kind = kind]
             q == [s EXCEPT !.file = files + 1]
             w == IF kind = "pdf" THEN "page" ELSE "object"
  <1>0. /\ StorageTypes /\ QuotaInv /\ BoardStorage!BoardInitialised /\ ObjectsFit
        /\ files \in Nat /\ made \in Nat /\ late \subseteq 1..files
    BY DEF StorageInv, StorageTypes
  <1>1. /\ bPc[h] = "idle" /\ b \in boards /\ files' = files + 1 /\ BoardStorage!Goto(h, w)
        /\ UNCHANGED <<boards, made, based, rows, imported, objects, jobs, cycle, late, abandoned, stranded>>
    BY DEF BoardStorage!StartUpload
  <1>2. bReq' = [bReq EXCEPT ![h] = q]
    BY DEF BoardStorage!StartUpload
  <1>3. b \in 1..made
    BY <1>0, <1>1 DEF StorageTypes
  <1>4. BoardStorage!NoBoardReq \in StorageReqs
    BY DEF StorageReqs, BoardStorage!NoBoardReq
  <1>5. q \in StorageReqs /\ q.board = b /\ q.kind = kind /\ q.file = files + 1 /\ q.put = {}
    <2>1. r \in StorageReqs
      BY <1>0, <1>3, <1>4 DEF StorageReqs
    <2>2. r.board = b /\ r.put = {}
      BY DEF BoardStorage!NoBoardReq
    <2> HIDE DEF r
    <2>3. s \in StorageReqs /\ s.board = b /\ s.kind = kind /\ s.put = {}
      BY <2>1, <2>2 DEF StorageReqs
    <2> HIDE DEF s
    <2> QED
      BY <1>0, <2>3 DEF StorageReqs
  <1> HIDE DEF q
  <1>6. w \in StoragePlaces /\ w \in {"page", "object"} /\ (w = "page" => kind = "pdf")
    BY DEF StoragePlaces, Uploading
  <1> HIDE DEF w
  <1>7. bPc' \in [Handlers -> StoragePlaces] /\ bPc'[h] = w /\ \A i \in Handlers \ {h} : bPc'[i] = bPc[i]
    BY <1>0, <1>1, <1>6, GotoFacts
  <1>8. /\ bReq' \in [Handlers -> StorageReqs] /\ bReq'[h] = q
        /\ \A i \in Handlers \ {h} : bReq'[i] = bReq[i]
    BY <1>0, <1>2, <1>5, RequestFacts
  <1>9. Mine(h) = {} /\ bReq[h].kind = "none"
    BY <1>1, IdleRequest
  <1>10. Mine(h)' = {files + 1}
    BY <1>0, <1>5, <1>8 DEF Mine
  <1>11. RequestFits(h)'
    <2>1. files + 1 \in 1..files' /\ files + 1 # 0
      BY <1>0, <1>1
    <2>2. bReq'[h].board \in 1..made' /\ bReq'[h].kind \in {"media", "pdf"}
      BY <1>1, <1>3, <1>5, <1>8
    <2>3. bReq'[h].file # 0 /\ bReq'[h].put = {}
      BY <1>5, <1>8, <2>1
    <2>4. Mine(h)' \subseteq 1..files'
      BY <1>10, <2>1
    <2> QED
      BY <1>5, <1>6, <1>7, <1>8, <2>2, <2>3, <2>4 DEF RequestFits, Uploading, Creating, Importing
  <1>12. StorageTypes'
    <2>1. files' \in Nat /\ late' \subseteq 1..files'
      BY <1>0, <1>1
    <2> QED
      BY <1>0, <1>1, <1>7, <1>8, <2>1 DEF StorageTypes
  <1>13. Advance(h)
    <2>1. Given = {files + 1} /\ files' \in Nat /\ files <= files' /\ made <= made'
      BY <1>0, <1>1 DEF Given
    <2>2. files + 1 \notin late /\ files + 1 \notin 1..files
      BY <1>0
    <2>3. Others(h)
      BY <1>7, <1>8 DEF Others
    <2>4. \A o \in objects' : o.file \in 1..files
      BY <1>0, <1>1 DEF ObjectsFit
    <2> QED
      BY <1>0, <1>1, <1>9, <1>10, <1>11, <2>1, <2>2, <2>3, <2>4 DEF Advance
  <1>14. BoardStorage!BoardInitialised'
    <2>1. Others(h)
      BY <1>7, <1>8 DEF Others
    <2> QED
      BY <1>0, <1>1, <1>9, <2>1, InitialisedKeeps
  <1>15. QuotaInv'
    BY <1>0, <1>1, QuotaStays
  <1> QED
    BY <1>1, <1>12, <1>13, <1>14, <1>15, RequestStep

\* An upload that stores, or fails to store, an object of its file, and one that takes
\* objects back: it is still responsible for the file, or it has abandoned it, or
\* nothing of it is left that is late.
LEMMA UploadStep ==
  ASSUME StorageInv, NEW h \in Handlers, bPc[h] \in Uploading, NEW piece \in {"page", "file"},
         piece = "page" => bReq[h].kind = "pdf", Others(h), RequestFits(h)',
         bPc' \in [Handlers -> StoragePlaces], bReq' \in [Handlers -> StorageReqs],
         bReq'[h] = bReq[h] \/ bReq'[h] = BoardStorage!NoBoardReq,
         bPc'[h] \notin {"undo", "base"},
         BoardStorage!Put(h, piece) \/ (objects' \subseteq objects /\ UNCHANGED late),
         bReq'[h] = bReq[h] \/ bReq[h].file \in abandoned' \/ (\A o \in objects' : o.file # bReq[h].file),
         abandoned \subseteq abandoned',
         UNCHANGED <<boards, made, based, rows, imported, files, jobs, cycle, stranded>>
  PROVE  StorageInv'
  <1>0. /\ StorageTypes /\ RequestFits(h) /\ QuotaInv /\ BoardStorage!BoardInitialised /\ LateInv /\ ObjectsFit
        /\ files \in Nat /\ made \in Nat /\ late \subseteq 1..files /\ Given = {}
    BY DEF StorageInv, RequestsInv, StorageTypes, Given
  <1>1. /\ bReq[h].kind \in {"media", "pdf"} /\ bReq[h].put = {} /\ bReq[h].board \in 1..made
        /\ Mine(h) = {bReq[h].file} /\ bReq[h].file \in 1..files
    BY <1>0 DEF RequestFits, Uploading, Mine
  <1>2. Mine(h)' = {} \/ (bReq'[h] = bReq[h] /\ Mine(h)' = Mine(h))
    BY DEF Mine, BoardStorage!NoBoardReq
  <1>3. /\ \A o \in objects' \ objects :
             /\ o = [board |-> bReq[h].board, file |-> bReq[h].file, piece |-> piece]
             /\ o.board = bReq[h].board /\ o.file = bReq[h].file /\ o.piece = piece
             /\ BoardStorage!Listed(o.board) => o.file \in late'
        /\ late \subseteq late' /\ late' \subseteq late \cup {bReq[h].file}
        /\ late' # late => bReq[h].board \notin boards
    BY DEF BoardStorage!Put, BoardStorage!Object, BoardStorage!Listed
  <1>4. StorageTypes'
    <2>1. bReq[h].board \in Nat /\ bReq[h].file \in Nat
      BY <1>0, <1>1
    <2>2. [board |-> bReq[h].board, file |-> bReq[h].file, piece |-> piece] \in StorageObjects
      BY <2>1 DEF StorageObjects
    <2>3. objects' \subseteq StorageObjects
      BY <1>0, <1>3, <2>2 DEF StorageTypes
    <2>4. late' \subseteq 1..files
      BY <1>0, <1>1, <1>3
    <2> QED
      BY <1>0, <2>3, <2>4 DEF StorageTypes
  <1>5. Mine(h)' \cap late' # {} => bReq'[h].board \notin boards'
    BY <1>0, <1>1, <1>2, <1>3 DEF LateInv
  <1>6. ASSUME NEW o \in objects', o.file \in Mine(h)
        PROVE  o.file \in abandoned' \/ o.file \in Mine(h)'
    BY <1>1, <1>2, <1>6 DEF Mine
  <1>7. Advance(h)
    <2>1. made' \in Nat /\ files' \in Nat /\ made <= made' /\ files <= files'
      BY <1>0
    <2>2. boards' \subseteq boards \cup (made + 1)..made' /\ Mine(h)' \subseteq Mine(h) \cup Given
      BY <1>2
    <2>3. Mine(h)' \cap Mine(h) # {} => bReq'[h].board = bReq[h].board /\ bReq'[h].kind = bReq[h].kind
      BY <1>2
    <2>4. \A o \in objects' \ objects :
            /\ o.file \in Mine(h) \cup Given /\ o.file \in 1..files' /\ o.board \in 1..made'
            /\ o.file \in Mine(h)' =>
                 o.board = bReq'[h].board /\ (bReq'[h].kind = "media" => o.piece = "file")
      BY <1>1, <1>2, <1>3
    <2>5. late' \subseteq late \cup Mine(h) \cup Given
      BY <1>1, <1>3
    <2> QED
      BY <1>0, <1>3, <1>5, <1>6, <2>1, <2>2, <2>3, <2>4, <2>5 DEF Advance
  <1>8. BoardStorage!BoardInitialised'
    BY <1>0, <1>1, InitialisedKeeps
  <1>9. QuotaInv'
    BY <1>0, QuotaStays
  <1> QED
    BY <1>3, <1>4, <1>7, <1>8, <1>9, RequestStep

\* An upload goes on with its file.
LEMMA UploadMoves ==
  ASSUME StorageInv, NEW h \in Handlers, bPc[h] \in Uploading, NEW w \in Uploading,
         w \in {"page", "prefix"} => bReq[h].kind = "pdf", BoardStorage!Goto(h, w), UNCHANGED <<bReq, made, files>>
  PROVE  /\ bPc' \in [Handlers -> StoragePlaces] /\ bReq' \in [Handlers -> StorageReqs]
         /\ Others(h) /\ RequestFits(h)' /\ bReq'[h] = bReq[h] /\ bPc'[h] = w
  <1>0. StorageTypes /\ RequestFits(h)
    BY DEF StorageInv, RequestsInv
  <1>1. w \in StoragePlaces
    BY DEF StoragePlaces
  <1>2. /\ bPc' \in [Handlers -> StoragePlaces] /\ bReq' \in [Handlers -> StorageReqs]
        /\ bPc'[h] = w /\ bReq'[h] = bReq[h] /\ Others(h) /\ Mine(h)' = Mine(h)
    BY <1>0, <1>1, GotoStep
  <1>3. /\ bReq[h].kind \in {"media", "pdf"} /\ bReq[h].file # 0 /\ bReq[h].put = {} /\ bReq[h].board \in 1..made
        /\ Mine(h) \subseteq 1..files
    BY <1>0 DEF RequestFits, Uploading
  <1>4. RequestFits(h)'
    BY <1>2, <1>3 DEF RequestFits, Creating, Importing, Uploading
  <1> QED
    BY <1>2, <1>4

\* The pages of a document, or the way to clearing its prefix.
LEMMA StorePagesStep ==
  ASSUME StorageInv, NEW h \in Handlers, BoardStorage!StorePages(h)
  PROVE  StorageInv'
  <1>1. /\ bPc[h] = "page" /\ UNCHANGED bReq
        /\ UNCHANGED <<boards, made, based, rows, imported, files, jobs, cycle, abandoned, stranded>>
        /\ BoardStorage!Goto(h, "object") \/ BoardStorage!Goto(h, "prefix")
        /\ BoardStorage!Put(h, "page") \/ UNCHANGED <<objects, late>>
    BY DEF BoardStorage!StorePages, BoardStorage!PutFails
  <1>2. bPc[h] \in Uploading /\ "object" \in Uploading /\ "prefix" \in Uploading
    BY <1>1 DEF Uploading
  <1>3. bReq[h].kind = "pdf"
    BY <1>1 DEF StorageInv, RequestsInv, RequestFits
  <1>4. /\ bPc' \in [Handlers -> StoragePlaces] /\ bReq' \in [Handlers -> StorageReqs]
        /\ Others(h) /\ RequestFits(h)' /\ bReq'[h] = bReq[h] /\ bPc'[h] \in {"object", "prefix"}
    BY <1>1, <1>2, <1>3, UploadMoves
  <1> QED
    BY <1>1, <1>2, <1>3, <1>4, UploadStep

\* The object of an upload, which may fail after it was stored.
LEMMA StoreObjectStep ==
  ASSUME StorageInv, NEW h \in Handlers, BoardStorage!StoreObject(h)
  PROVE  StorageInv'
  <1>1. /\ bPc[h] = "object"
        /\ UNCHANGED <<boards, made, based, rows, imported, files, jobs, cycle, stranded>>
        /\ BoardStorage!Put(h, "file") \/ UNCHANGED <<objects, late>>
        /\ \/ BoardStorage!Goto(h, "record") /\ UNCHANGED <<bReq, abandoned>>
           \/ bReq[h].kind = "pdf" /\ BoardStorage!Goto(h, "prefix") /\ UNCHANGED <<bReq, abandoned>>
           \/ BoardStorage!Done(h) /\ abandoned' = abandoned \cup {bReq[h].file}
    BY DEF BoardStorage!StoreObject, BoardStorage!PutFails
  <1>2. bPc[h] \in Uploading /\ "record" \in Uploading /\ "prefix" \in Uploading
    BY <1>1 DEF Uploading
  <1>3. CASE UNCHANGED <<bReq, abandoned>>
    <2>1. /\ bPc' \in [Handlers -> StoragePlaces] /\ bReq' \in [Handlers -> StorageReqs]
          /\ Others(h) /\ RequestFits(h)' /\ bReq'[h] = bReq[h] /\ bPc'[h] \in {"record", "prefix"}
      <3>1. CASE BoardStorage!Goto(h, "record")
        BY <1>1, <1>2, <1>3, <3>1, UploadMoves
      <3>2. CASE bReq[h].kind = "pdf" /\ BoardStorage!Goto(h, "prefix")
        BY <1>1, <1>2, <1>3, <3>2, UploadMoves
      <3>3. CASE BoardStorage!Done(h) /\ abandoned' = abandoned \cup {bReq[h].file}
        <4>1. bReq'[h] = BoardStorage!NoBoardReq
          BY <3>3, DoneFacts DEF StorageInv
        <4>2. bReq[h].board \in 1..made
          BY <1>1 DEF StorageInv, RequestsInv, RequestFits
        <4> QED
          BY <1>3, <4>1, <4>2 DEF BoardStorage!NoBoardReq
      <3> QED
        BY <1>1, <3>1, <3>2, <3>3
    <2> QED
      BY <1>1, <1>2, <1>3, <2>1, UploadStep
  <1>4. CASE BoardStorage!Done(h) /\ abandoned' = abandoned \cup {bReq[h].file}
    <2>1. /\ bPc' \in [Handlers -> StoragePlaces] /\ bReq' \in [Handlers -> StorageReqs]
          /\ bPc'[h] = "idle" /\ bReq'[h] = BoardStorage!NoBoardReq /\ Others(h) /\ RequestFits(h)'
      BY <1>4, DoneFacts DEF StorageInv
    <2> QED
      BY <1>1, <1>2, <1>4, <2>1, UploadStep
  <1> QED
    BY <1>1, <1>3, <1>4

\* The object of a media file is all there is of it.
LEMMA CleanObjectStep ==
  ASSUME StorageInv, NEW h \in Handlers, BoardStorage!CleanObject(h)
  PROVE  StorageInv'
  <1>1. /\ bPc[h] = "clean" /\ UNCHANGED late /\ objects' \subseteq objects /\ abandoned \subseteq abandoned'
        /\ UNCHANGED <<boards, made, based, rows, imported, files, jobs, cycle, stranded>>
        /\ objects' = objects \ {BoardStorage!Object(h, "file")} \/ bReq[h].file \in abandoned'
    BY DEF BoardStorage!CleanObject
  <1>2. bPc[h] \in Uploading /\ "prefix" \in Uploading
    BY <1>1 DEF Uploading
  <1>3. bReq[h].kind \in {"media", "pdf"} /\ bReq[h].file # 0
    BY <1>2 DEF StorageInv, RequestsInv, RequestFits
  <1>4. CASE bReq[h].kind = "pdf"
    <2>1. BoardStorage!Goto(h, "prefix") /\ UNCHANGED bReq
      BY <1>4 DEF BoardStorage!CleanObject
    <2>2. /\ bPc' \in [Handlers -> StoragePlaces] /\ bReq' \in [Handlers -> StorageReqs]
          /\ Others(h) /\ RequestFits(h)' /\ bReq'[h] = bReq[h] /\ bPc'[h] = "prefix"
      BY <1>1, <1>2, <1>4, <2>1, UploadMoves
    <2> QED
      BY <1>1, <1>2, <1>4, <2>2, UploadStep
  <1>5. CASE bReq[h].kind = "media"
    <2>1. BoardStorage!Done(h)
      BY <1>5 DEF BoardStorage!CleanObject
    <2>2. /\ bPc' \in [Handlers -> StoragePlaces] /\ bReq' \in [Handlers -> StorageReqs]
          /\ bPc'[h] = "idle" /\ bReq'[h] = BoardStorage!NoBoardReq /\ Others(h) /\ RequestFits(h)'
      BY <2>1, DoneFacts DEF StorageInv
    <2>3. ASSUME NEW o \in objects, o.file = bReq[h].file
          PROVE  o = BoardStorage!Object(h, "file")
      <3>1. bReq[h].file \in Mine(h)
        BY <1>3 DEF Mine
      <3>2. o.board = bReq[h].board /\ o.piece = "file"
        BY <1>5, <2>3, <3>1 DEF StorageInv, ObjectsFit
      <3>3. o \in StorageObjects
        BY DEF StorageInv, StorageTypes
      <3> QED
        BY <2>3, <3>2, <3>3 DEF StorageObjects, BoardStorage!Object
    <2>4. bReq[h].file \in abandoned' \/ \A o \in objects' : o.file # bReq[h].file
      BY <1>1, <2>3
    <2> QED
      BY <1>1, <1>2, <2>2, <2>4, UploadStep
  <1> QED
    BY <1>3, <1>4, <1>5

\* Clearing the prefix of a document that failed, or abandoning it.
LEMMA CleanDocumentStep ==
  ASSUME StorageInv, NEW h \in Handlers, BoardStorage!CleanDocument(h)
  PROVE  StorageInv'
  <1>1. /\ bPc[h] = "prefix" /\ BoardStorage!Done(h) /\ UNCHANGED late /\ objects' \subseteq objects
        /\ abandoned \subseteq abandoned'
        /\ UNCHANGED <<boards, made, based, rows, imported, files, jobs, cycle, stranded>>
        /\ (\A o \in objects' : o.file # bReq[h].file) \/ bReq[h].file \in abandoned'
    BY DEF BoardStorage!CleanDocument, BoardStorage!OfFile
  <1>2. bPc[h] \in Uploading
    BY <1>1 DEF Uploading
  <1>3. /\ bPc' \in [Handlers -> StoragePlaces] /\ bReq' \in [Handlers -> StorageReqs]
        /\ bPc'[h] = "idle" /\ bReq'[h] = BoardStorage!NoBoardReq /\ Others(h) /\ RequestFits(h)'
    BY <1>1, DoneFacts DEF StorageInv
  <1> QED
    BY <1>1, <1>2, <1>3, UploadStep
-----------------------------------------------------------------------------
(* Imports *)

\* The next asset, under a key of its own: the import has it, or has abandoned it.
LEMMA ImportAssetStep ==
  ASSUME StorageInv, NEW h \in Handlers, BoardStorage!ImportAsset(h)
  PROVE  StorageInv'
  <1> DEFINE f == files + 1
             o == [board |-> bReq[h].board, file |-> f, piece |-> "file"]
             r == [bReq[h] EXCEPT !.left = @ - 1]
             q == [r EXCEPT !.put = @ \cup {f}]
  <1>0. /\ StorageTypes /\ RequestFits(h) /\ QuotaInv /\ BoardStorage!BoardInitialised /\ LateInv /\ ObjectsFit
        /\ files \in Nat /\ made \in Nat /\ late \subseteq 1..files /\ boards \subseteq 1..made
    BY DEF StorageInv, RequestsInv, StorageTypes
  <1>1. /\ bPc[h] = "asset" /\ files' = f /\ objects' = objects \cup {o}
        /\ late' = IF BoardStorage!Listed(bReq[h].board) THEN late \cup {f} ELSE late
        /\ UNCHANGED <<boards, made, based, rows, imported, jobs, cycle, stranded>>
    BY DEF BoardStorage!ImportAsset
  <1>2. \/ bReq' = [bReq EXCEPT ![h] = q] /\ UNCHANGED <<bPc, abandoned>>
        \/ BoardStorage!Goto(h, "unput") /\ abandoned' = abandoned \cup {f} /\ UNCHANGED bReq
    <2> DEFINE once == [bReq EXCEPT ![h] = r]
               twice == [once EXCEPT ![h] = [once[h] EXCEPT !.put = @ \cup {f}]]
    <2>1. \/ bReq' = twice /\ UNCHANGED <<bPc, abandoned>>
          \/ BoardStorage!Goto(h, "unput") /\ abandoned' = abandoned \cup {f} /\ UNCHANGED bReq
      BY DEF BoardStorage!ImportAsset
    <2>2. bReq \in [Handlers -> StorageReqs]
      BY <1>0 DEF StorageTypes
    <2> HIDE DEF r, f
    <2>3. once[h] = r
      BY <2>2
    <2>4. twice = [once EXCEPT ![h] = q]
      BY <2>3
    <2> HIDE DEF q
    <2>5. [once EXCEPT ![h] = q] = [bReq EXCEPT ![h] = q]
      BY <2>2
    <2> HIDE DEF once, twice
    <2> QED
      BY <2>1, <2>4, <2>5
  <1>3. /\ bReq[h].kind = "import" /\ bReq[h].file = 0 /\ bReq[h].board \in 1..made
        /\ Mine(h) \subseteq 1..files /\ bReq[h] \in StorageReqs
    BY <1>0, <1>1 DEF RequestFits, Creating, Importing, StorageTypes
  <1>4. f \in Nat /\ f # 0 /\ f \notin 1..files /\ f \in 1..files' /\ 1..files \subseteq 1..files'
        /\ Given = {f} /\ files' \in Nat /\ files <= files' /\ made <= made'
    BY <1>0, <1>1 DEF Given
  <1>5. /\ q \in StorageReqs /\ q.board = bReq[h].board /\ q.kind = "import" /\ q.file = 0
        /\ q.put = bReq[h].put \cup {f}
    <2>1. /\ r \in StorageReqs /\ r.board = bReq[h].board /\ r.kind = "import" /\ r.file = 0
          /\ r.put = bReq[h].put
      BY <1>3 DEF StorageReqs
    <2> HIDE DEF r
    <2> QED
      BY <1>4, <2>1 DEF StorageReqs
  <1> HIDE DEF q
  <1>6. /\ Others(h) /\ bPc' \in [Handlers -> StoragePlaces] /\ bReq' \in [Handlers -> StorageReqs]
        /\ bReq'[h].board = bReq[h].board /\ bReq'[h].kind = "import" /\ bReq'[h].file = 0
        /\ bPc'[h] \in {"asset", "unput"}
        /\ \/ Mine(h)' = Mine(h) \cup {f}
           \/ Mine(h)' = Mine(h) /\ f \in abandoned'
        /\ abandoned \subseteq abandoned'
    <2>1. CASE bReq' = [bReq EXCEPT ![h] = q] /\ UNCHANGED <<bPc, abandoned>>
      <3>1. /\ bReq' \in [Handlers -> StorageReqs] /\ bReq'[h] = q
            /\ \A i \in Handlers \ {h} : bReq'[i] = bReq[i]
        BY <1>0, <1>5, <2>1, RequestFacts
      <3>2. Mine(h)' = Mine(h) \cup {f}
        BY <1>3, <1>4, <1>5, <3>1 DEF Mine
      <3> QED
        BY <1>0, <1>1, <1>5, <2>1, <3>1, <3>2 DEF Others, StorageTypes
    <2>2. CASE BoardStorage!Goto(h, "unput") /\ abandoned' = abandoned \cup {f} /\ UNCHANGED bReq
      <3>1. "unput" \in StoragePlaces
        BY DEF StoragePlaces, Creating, Importing
      <3>2. /\ bPc' \in [Handlers -> StoragePlaces] /\ bReq' \in [Handlers -> StorageReqs]
            /\ bPc'[h] = "unput" /\ bReq'[h] = bReq[h] /\ Others(h) /\ Mine(h)' = Mine(h)
        BY <1>0, <2>2, <3>1, GotoStep
      <3> QED
        BY <1>3, <2>2, <3>2
    <2> QED
      BY <1>2, <2>1, <2>2
  <1>7. RequestFits(h)'
    <2>1. Mine(h)' \subseteq 1..files'
      BY <1>3, <1>4, <1>6
    <2> QED
      BY <1>1, <1>3, <1>6, <2>1 DEF RequestFits, Uploading, Creating, Importing
  <1>8. StorageTypes'
    <2>1. o \in StorageObjects
      BY <1>0, <1>3, <1>4 DEF StorageObjects
    <2>2. objects' \subseteq StorageObjects
      BY <1>0, <1>1, <2>1 DEF StorageTypes
    <2>3. late' \subseteq 1..files'
      BY <1>0, <1>1, <1>4
    <2> QED
      BY <1>0, <1>1, <1>4, <1>6, <2>2, <2>3 DEF StorageTypes
  <1>9. Advance(h)
    <2>1. Mine(h)' \subseteq Mine(h) \cup Given
      BY <1>4, <1>6
    <2>2. \A p \in objects' \ objects :
            /\ p.file \in Mine(h) \cup Given /\ p.file \in 1..files' /\ p.board \in 1..made'
            /\ p.file \in Mine(h)' =>
                 p.board = bReq'[h].board /\ (bReq'[h].kind = "media" => p.piece = "file")
      BY <1>1, <1>3, <1>4, <1>6
    <2>3. late \subseteq late' /\ late' \subseteq late \cup Mine(h) \cup Given
      BY <1>1, <1>4
    <2>4. Mine(h)' \cap late' # {} => bReq'[h].board \notin boards' /\ bPc'[h] # "base"
      <3>1. CASE BoardStorage!Listed(bReq[h].board)
        BY <1>1, <1>6, <3>1 DEF BoardStorage!Listed
      <3>2. CASE ~BoardStorage!Listed(bReq[h].board)
        <4>1. late' = late /\ f \notin late
          BY <1>0, <1>1, <1>4, <3>2
        <4> QED
          BY <1>0, <1>1, <1>6, <4>1 DEF LateInv
      <3> QED
        BY <3>1, <3>2
    <2>5. \A p \in objects' :
            p.file \in Mine(h) \cup Given =>
              p.file \in abandoned' \/ (p.file \in Mine(h)' /\ bPc'[h] \notin {"undo", "base"})
      BY <1>4, <1>6
    <2>6. made' \in Nat /\ boards' \subseteq boards \cup (made + 1)..made'
      BY <1>0, <1>1
    <2>7. bReq'[h].board = bReq[h].board /\ bReq'[h].kind = bReq[h].kind
      BY <1>3, <1>6
    <2> QED
      BY <1>4, <1>6, <1>7, <2>1, <2>2, <2>3, <2>4, <2>5, <2>6, <2>7 DEF Advance
  <1>10. BoardStorage!BoardInitialised'
    BY <1>0, <1>1, <1>6, InitialisedKeeps
  <1>11. QuotaInv'
    BY <1>0, <1>1, QuotaStays
  <1>12. \A p \in objects' \ objects : BoardStorage!Listed(p.board) => p.file \in late'
    BY <1>1
  <1> QED
    BY <1>1, <1>8, <1>9, <1>10, <1>11, <1>12, RequestStep

\* A failed import takes its objects back, but for what it abandons.
LEMMA UnputAssetsStep ==
  ASSUME StorageInv, NEW h \in Handlers, BoardStorage!UnputAssets(h)
  PROVE  StorageInv'
  <1>0. /\ StorageTypes /\ RequestFits(h) /\ QuotaInv /\ BoardStorage!BoardInitialised /\ LateInv
        /\ files \in Nat /\ made \in Nat
    BY DEF StorageInv, RequestsInv, StorageTypes
  <1>1. /\ bPc[h] = "unput" /\ BoardStorage!Goto(h, "undo") /\ objects' \subseteq objects
        /\ abandoned \subseteq abandoned'
        /\ UNCHANGED <<boards, made, based, rows, imported, files, jobs, bReq, cycle, late, stranded>>
        /\ \A o \in objects' : o.file \in bReq[h].put => o.file \in abandoned'
    BY DEF BoardStorage!UnputAssets
  <1>2. "undo" \in StoragePlaces
    BY DEF StoragePlaces, Creating
  <1>3. /\ bPc' \in [Handlers -> StoragePlaces] /\ bReq' \in [Handlers -> StorageReqs]
        /\ bPc'[h] = "undo" /\ bReq'[h] = bReq[h] /\ Others(h) /\ Mine(h)' = Mine(h)
    BY <1>0, <1>1, <1>2, GotoStep
  <1>4. bReq[h].kind = "import" /\ bReq[h].file = 0 /\ bReq[h].board \in 1..made /\ Mine(h) \subseteq 1..files
    BY <1>0, <1>1 DEF RequestFits, Creating, Importing
  <1>5. RequestFits(h)'
    BY <1>1, <1>3, <1>4 DEF RequestFits, Creating, Importing, Uploading
  <1>6. StorageTypes'
    BY <1>0, <1>1, <1>3 DEF StorageTypes
  <1>7. Mine(h) \subseteq bReq[h].put
    BY <1>4 DEF Mine
  <1>8. Advance(h)
    <2>1. Given = {} /\ made <= made' /\ files <= files' /\ made' \in Nat /\ files' \in Nat
      BY <1>0, <1>1 DEF Given
    <2>2. Mine(h)' \cap late' # {} => bReq'[h].board \notin boards' /\ bPc'[h] # "base"
      BY <1>0, <1>1, <1>3 DEF LateInv
    <2>3. \A o \in objects' : o.file \in Mine(h) => o.file \in abandoned'
      BY <1>1, <1>7
    <2> QED
      BY <1>1, <1>3, <1>5, <2>1, <2>2, <2>3 DEF Advance
  <1>9. BoardStorage!BoardInitialised'
    BY <1>0, <1>1, <1>3, InitialisedKeeps
  <1>10. QuotaInv'
    BY <1>0, <1>1, QuotaStays
  <1> QED
    BY <1>1, <1>6, <1>8, <1>9, <1>10, RequestStep

-----------------------------------------------------------------------------
(* Deletion *)

\* Boards go with their rows, each leaving a job that will find its objects.
LEMMA DeleteKeeps ==
  ASSUME StorageInv, NEW B, B \subseteq boards, BoardStorage!delete_boards(B),
         UNCHANGED <<made, objects, cycle, late>>
  PROVE  JobsInv' /\ Findable' /\ CycleInv' /\ QuotaInv' /\ jobs' \in Seq(Nat)
  <1>0. StorageTypes /\ JobsInv /\ Findable /\ CycleInv /\ QuotaInv
    BY DEF StorageInv
  <1>1. made \in Nat /\ boards \subseteq 1..made /\ jobs \in Seq(Nat) /\ cycle.job \in Nat
        /\ objects \subseteq StorageObjects
    BY <1>0 DEF StorageTypes
  <1>2. IsFiniteSet(boards)
    <2>1. IsFiniteSet(1..made)
      BY <1>1, FS_Interval
    <2> QED
      BY <1>1, <2>1, FS_Subset
  <1>3. IsFiniteSet(B) /\ B \in SUBSET Nat
    <2>1. B \in SUBSET Nat
      BY <1>1
    <2> QED
      BY <1>2, <2>1, FS_Subset
  <1>4. /\ jobs' \in Seq(Nat)
        /\ \A c \in Nat : BoardStorage!Queued(c)' <=> (BoardStorage!Queued(c) \/ c \in B)
    BY <1>1, <1>3, Enqueue
  <1>5. boards' = boards \ B /\ rows' \subseteq rows /\ imported' \subseteq imported
    BY DEF BoardStorage!delete_boards
  <1>6. JobsInv'
    BY <1>0, <1>1, <1>4, <1>5 DEF JobsInv
  <1>7. Findable'
    <2>1. \A o \in objects : o.board \in Nat
      BY <1>1 DEF StorageObjects
    <2> QED
      BY <1>0, <1>4, <1>5, <2>1 DEF Findable
  <1>8. CycleInv'
    BY <1>0, <1>1, <1>4 DEF CycleInv
  <1>9. QuotaInv'
    <2>1. IsFiniteSet(rows) /\ IsFiniteSet(imported)
      BY <1>0 DEF QuotaInv
    <2>2. /\ IsFiniteSet(rows') /\ Cardinality(rows') <= Cardinality(rows)
          /\ IsFiniteSet(imported') /\ Cardinality(imported') <= Cardinality(imported)
          /\ IsFiniteSet(boards') /\ Cardinality(boards') <= Cardinality(boards)
      BY <1>2, <1>5, <2>1, FS_Subset
    <2>3. /\ Cardinality(rows) \in Nat /\ Cardinality(imported) \in Nat /\ Cardinality(boards) \in Nat
          /\ Cardinality(rows') \in Nat /\ Cardinality(imported') \in Nat /\ Cardinality(boards') \in Nat
      BY <1>2, <2>1, <2>2, FS_CardinalityType
    <2>4. Cardinality(boards) <= BoardLimit /\ Cardinality(rows) + Cardinality(imported) <= StorageLimit
      BY <1>0 DEF QuotaInv
    <2>5. Cardinality(boards') <= BoardLimit /\ Cardinality(rows') + Cardinality(imported') <= StorageLimit
      BY <2>2, <2>3, <2>4, BoardsAssumption DEF BoardsAssumption
    <2> QED
      BY <2>2, <2>5 DEF QuotaInv
  <1> QED
    BY <1>4, <1>6, <1>7, <1>8, <1>9

\* The rows of boards go, and no request moves.
LEMMA DeleteStep ==
  ASSUME StorageInv, NEW B, B \subseteq boards, BoardStorage!delete_boards(B),
         UNCHANGED <<made, objects, files, bPc, bReq, cycle, late, abandoned, stranded>>
  PROVE  StorageInv'
  <1>0. /\ StorageTypes /\ RequestsInv /\ ObjectsFit /\ LateInv /\ BoardStorage!BoardInitialised
    BY DEF StorageInv
  <1>1. JobsInv' /\ Findable' /\ CycleInv' /\ QuotaInv' /\ jobs' \in Seq(Nat)
    BY DeleteKeeps
  <1>2. boards' = boards \ B /\ based' = based \ B
    BY DEF BoardStorage!delete_boards
  <1>3. StorageTypes'
    BY <1>0, <1>1, <1>2 DEF StorageTypes
  <1>4. \A h \in Handlers : Mine(h)' = Mine(h) /\ bPc'[h] = bPc[h] /\ bReq'[h] = bReq[h]
    BY DEF Mine
  <1>5. RequestsInv'
    BY <1>0, <1>4 DEF RequestsInv, RequestFits
  <1>6. ObjectsFit'
    BY <1>0, <1>4 DEF ObjectsFit
  <1>7. LateInv'
    BY <1>0, <1>2, <1>4 DEF LateInv
  <1>8. BoardStorage!BoardInitialised'
    BY <1>0, <1>2, <1>4 DEF BoardStorage!BoardInitialised, BoardStorage!At
  <1> QED
    BY <1>1, <1>3, <1>5, <1>6, <1>7, <1>8 DEF StorageInv

\* A creation or an import is undone: it has seen to its files before.
LEMMA UndoBoardStep ==
  ASSUME StorageInv, NEW h \in Handlers, BoardStorage!UndoBoard(h)
  PROVE  StorageInv'
  <1>0. /\ StorageTypes /\ RequestsInv /\ ObjectsFit /\ LateInv /\ BoardStorage!BoardInitialised /\ QuotaInv
        /\ JobsInv /\ Findable /\ CycleInv /\ files \in Nat /\ made \in Nat
    BY DEF StorageInv, StorageTypes
  <1>1. /\ bPc[h] = "undo" /\ BoardStorage!Done(h)
        /\ UNCHANGED <<made, objects, files, cycle, late, abandoned>>
        /\ \/ BoardStorage!delete_boards({bReq[h].board} \cap boards) /\ UNCHANGED stranded
           \/ /\ stranded' = stranded \cup {bReq[h].board}
              /\ UNCHANGED <<boards, rows, based, imported, jobs>>
    BY DEF BoardStorage!UndoBoard
  <1>2. /\ bPc' \in [Handlers -> StoragePlaces] /\ bReq' \in [Handlers -> StorageReqs]
        /\ bPc'[h] = "idle" /\ bReq'[h] = BoardStorage!NoBoardReq
        /\ Others(h) /\ RequestFits(h)' /\ Mine(h)' = {}
    BY <1>0, <1>1, DoneFacts
  <1>3. JobsInv' /\ Findable' /\ CycleInv' /\ QuotaInv' /\ jobs' \in Seq(Nat)
    <2>1. CASE BoardStorage!delete_boards({bReq[h].board} \cap boards)
      BY <1>1, <2>1, DeleteKeeps
    <2>2. CASE UNCHANGED <<boards, rows, based, imported, jobs>>
      BY <1>0, <1>1, <2>2 DEF JobsInv, Findable, CycleInv, QuotaInv, StorageTypes, BoardStorage!Queued
    <2> QED
      BY <1>1, <2>1, <2>2
  <1>4. /\ boards' \subseteq boards /\ based \cap boards' \subseteq based' /\ stranded \subseteq stranded'
        /\ bReq[h].board \in boards' => bReq[h].board \in stranded'
    BY <1>1 DEF BoardStorage!delete_boards
  <1>5. ASSUME NEW o \in objects, o.file \in late \cap Mine(h)
        PROVE  o.file \in abandoned
    <2>1. \A i \in Handlers : o.file \in Mine(i) => i = h
      BY <1>0, <1>5 DEF RequestsInv
    <2> QED
      BY <1>0, <1>1, <1>5, <2>1 DEF LateInv
  <1>6. Advance(h)
    <2>1. Given = {} /\ made <= made' /\ files <= files' /\ made' \in Nat /\ files' \in Nat
      BY <1>0, <1>1 DEF Given
    <2>2. boards' \subseteq boards \cup (made + 1)..made'
      BY <1>4
    <2>3. \A o \in objects' : o.file \in late' \cap Mine(h) => o.file \in abandoned'
      BY <1>1, <1>5
    <2> QED
      BY <1>1, <1>2, <2>1, <2>2, <2>3 DEF Advance
  <1>7. RequestsInv' /\ ObjectsFit' /\ LateInv'
    BY <1>0, <1>6, RequestKeeps
  <1>8. StorageTypes'
    <2>1. boards' \subseteq 1..made' /\ made' \in Nat /\ files' \in Nat /\ late' \subseteq 1..files'
      BY <1>0, <1>1, <1>4 DEF StorageTypes
    <2>2. objects' \subseteq StorageObjects /\ cycle' = cycle
      BY <1>0, <1>1 DEF StorageTypes
    <2> QED
      BY <1>0, <1>2, <1>3, <2>1, <2>2 DEF StorageTypes
  <1>9. BoardStorage!BoardInitialised'
    <2>1. boards' \ boards = {} /\ boards' \cap based \subseteq based'
      BY <1>4
    <2>2. \A b \in boards' : bReq[h].board = b => b \in based' \cup stranded'
      BY <1>4
    <2> QED
      BY <1>0, <1>2, <1>4, <2>1, <2>2, InitialisedKeeps
  <1> QED
    BY <1>3, <1>7, <1>8, <1>9 DEF StorageInv
-----------------------------------------------------------------------------
(* The cleanup *)

\* Where only the bucket shrinks and the jobs change, the requests are as they were.
LEMMA BucketShrinks ==
  ASSUME StorageInv, objects' \subseteq objects, jobs' \in Seq(Nat),
         UNCHANGED <<boards, made, based, rows, imported, files, bPc, bReq, late, abandoned, stranded>>
  PROVE  /\ RequestsInv' /\ ObjectsFit' /\ LateInv' /\ QuotaInv' /\ BoardStorage!BoardInitialised'
         /\ cycle' \in [job : Nat, pc : {"idle", "list", "delete", "complete"}, keys : SUBSET StorageObjects]
              => StorageTypes'
  <1>0. /\ StorageTypes /\ RequestsInv /\ ObjectsFit /\ LateInv /\ QuotaInv
        /\ BoardStorage!BoardInitialised
    BY DEF StorageInv
  <1>1. \A h \in Handlers : Mine(h)' = Mine(h) /\ bPc'[h] = bPc[h] /\ bReq'[h] = bReq[h]
    BY DEF Mine
  <1>2. RequestsInv'
    BY <1>0, <1>1 DEF RequestsInv, RequestFits
  <1>3. ObjectsFit'
    BY <1>0, <1>1 DEF ObjectsFit
  <1>4. LateInv'
    BY <1>0, <1>1 DEF LateInv
  <1>5. BoardStorage!BoardInitialised'
    BY <1>0 DEF BoardStorage!BoardInitialised, BoardStorage!At
  <1>6. QuotaInv'
    BY <1>0, QuotaStays
  <1>7. cycle' \in [job : Nat, pc : {"idle", "list", "delete", "complete"}, keys : SUBSET StorageObjects]
          => StorageTypes'
    BY <1>0 DEF StorageTypes
  <1> QED
    BY <1>2, <1>3, <1>4, <1>5, <1>6, <1>7

\* A step of a cleanup, with the same boards queued afterwards.
LEMMA CleanupStep ==
  ASSUME StorageInv, objects' \subseteq objects, jobs' \in Seq(Nat),
         \A b \in Nat : BoardStorage!Queued(b)' <=> BoardStorage!Queued(b),
         cycle' \in [job : Nat, pc : {"idle", "list", "delete", "complete"}, keys : SUBSET StorageObjects],
         CycleInv',
         UNCHANGED <<boards, made, based, rows, imported, files, bPc, bReq, late, abandoned, stranded>>
  PROVE  StorageInv'
  <1>1. /\ StorageTypes' /\ RequestsInv' /\ ObjectsFit' /\ LateInv' /\ QuotaInv'
        /\ BoardStorage!BoardInitialised'
    BY BucketShrinks
  <1>2. JobsInv'
    BY DEF StorageInv, JobsInv
  <1>3. Findable'
    <2>1. \A o \in objects : o.board \in Nat
      BY DEF StorageInv, StorageTypes, StorageObjects
    <2> QED
      BY <2>1 DEF StorageInv, Findable
  <1> QED
    BY <1>1, <1>2, <1>3 DEF StorageInv

\* The pass that a deletion starts deletes objects and changes no job's board.
LEMMA FirstPassStep ==
  ASSUME StorageInv, NEW b \in BoardStorage!Boards, BoardStorage!ListNow(b) \/ BoardStorage!DeleteNow(b)
  PROVE  StorageInv'
  <1>0. StorageTypes /\ CycleInv /\ jobs \in Seq(Nat) /\ cycle.job \in Nat
    BY DEF StorageInv, StorageTypes
  <1>1. b \in Nat
    BY DEF BoardStorage!Boards
  <1>2. /\ objects' \subseteq objects
        /\ UNCHANGED jobs \/ BoardStorage!record_failure(b)
        /\ UNCHANGED <<boards, made, based, rows, imported, files, bPc, bReq, cycle, late, abandoned, stranded>>
    BY DEF BoardStorage!ListNow, BoardStorage!DeleteNow, BoardStorage!Fails
  <1>3. jobs' \in Seq(Nat) /\ \A c \in Nat : BoardStorage!Queued(c)' <=> BoardStorage!Queued(c)
    <2>1. CASE UNCHANGED jobs
      BY <1>0, <2>1 DEF BoardStorage!Queued
    <2>2. CASE BoardStorage!record_failure(b)
      BY <1>0, <1>1, <2>2, Requeue
    <2> QED
      BY <1>2, <2>1, <2>2
  <1>4. CycleInv'
    BY <1>0, <1>2, <1>3 DEF CycleInv
  <1>5. cycle' \in [job : Nat, pc : {"idle", "list", "delete", "complete"}, keys : SUBSET StorageObjects]
    BY <1>0, <1>2 DEF StorageTypes
  <1> QED
    BY <1>2, <1>3, <1>4, <1>5, CleanupStep

\* No cycle is under way.
LEMMA NoCycleFacts ==
  /\ BoardStorage!NoCycle.pc = "idle"
  /\ BoardStorage!NoCycle \in [job : Nat, pc : {"idle", "list", "delete", "complete"}, keys : SUBSET StorageObjects]
  BY DEF BoardStorage!NoCycle

\* A job that failed is due again.
LEMMA JobDueStep ==
  ASSUME StorageInv, BoardStorage!JobDue
  PROVE  StorageInv'
  <1>1. UNCHANGED <<boards, made, based, rows, imported, objects, files, jobs, bPc, bReq, cycle, late,
                    abandoned, stranded>>
    BY DEF BoardStorage!JobDue
  <1>2. CycleInv' /\ jobs' \in Seq(Nat) /\ \A c \in Nat : BoardStorage!Queued(c)' <=> BoardStorage!Queued(c)
    BY <1>1 DEF StorageInv, StorageTypes, CycleInv, BoardStorage!Queued
  <1>3. cycle' \in [job : Nat, pc : {"idle", "list", "delete", "complete"}, keys : SUBSET StorageObjects]
    BY <1>1 DEF StorageInv, StorageTypes
  <1> QED
    BY <1>1, <1>2, <1>3, CleanupStep

\* A tick takes a job that is queued.
LEMMA ListPendingStep ==
  ASSUME StorageInv, BoardStorage!ListPending
  PROVE  StorageInv'
  <1>0. jobs \in Seq(Nat)
    BY DEF StorageInv, StorageTypes
  <1>1. /\ cycle = BoardStorage!NoCycle
        /\ UNCHANGED <<boards, made, based, rows, imported, objects, files, jobs, bPc, bReq, late,
                       abandoned, stranded>>
        /\ \E i \in DOMAIN jobs : cycle' = [BoardStorage!NoCycle EXCEPT !.job = jobs[i], !.pc = "list"]
    BY DEF BoardStorage!ListPending
  <1>2. PICK i \in DOMAIN jobs : cycle' = [BoardStorage!NoCycle EXCEPT !.job = jobs[i], !.pc = "list"]
    BY <1>1
  <1>3. jobs[i] \in Nat
    BY <1>0
  <1>4. /\ cycle' \in [job : Nat, pc : {"idle", "list", "delete", "complete"}, keys : SUBSET StorageObjects]
        /\ cycle'.job = jobs[i] /\ cycle'.pc = "list"
    <2> DEFINE r == [BoardStorage!NoCycle EXCEPT !.job = jobs[i]]
    <2>1. r \in [job : Nat, pc : {"idle", "list", "delete", "complete"}, keys : SUBSET StorageObjects]
      BY <1>3, NoCycleFacts
    <2>2. r.job = jobs[i]
      BY DEF BoardStorage!NoCycle
    <2>3. cycle' = [r EXCEPT !.pc = "list"]
      BY <1>2
    <2> HIDE DEF r
    <2> QED
      BY <2>1, <2>2, <2>3
  <1>5. \A c \in Nat : BoardStorage!Queued(c)' <=> BoardStorage!Queued(c)
    BY <1>1 DEF BoardStorage!Queued
  <1>6. BoardStorage!Queued(jobs[i])
    BY DEF BoardStorage!Queued
  <1>7. CycleInv'
    <2>1. BoardStorage!Queued(cycle.job)'
      BY <1>3, <1>4, <1>5, <1>6
    <2> QED
      BY <1>4, <2>1 DEF CycleInv
  <1> QED
    BY <1>0, <1>1, <1>4, <1>5, <1>7, CleanupStep

\* All keys of the prefix are listed; what is stored after that is late.
LEMMA ListKeysStep ==
  ASSUME StorageInv, BoardStorage!ListKeys
  PROVE  StorageInv'
  <1>0. /\ jobs \in Seq(Nat) /\ CycleInv /\ objects \subseteq StorageObjects /\ cycle.job \in Nat
        /\ cycle \in [job : Nat, pc : {"idle", "list", "delete", "complete"}, keys : SUBSET StorageObjects]
    BY DEF StorageInv, StorageTypes
  <1>1. /\ cycle.pc = "list"
        /\ UNCHANGED <<boards, made, based, rows, imported, objects, files, bPc, bReq, late, abandoned, stranded>>
    BY DEF BoardStorage!ListKeys
  <1>2. CASE cycle' = [cycle EXCEPT !.pc = "delete", !.keys = BoardStorage!Prefix(cycle.job)] /\ UNCHANGED jobs
    <2> DEFINE r == [cycle EXCEPT !.pc = "delete"]
    <2>1. /\ r \in [job : Nat, pc : {"idle", "list", "delete", "complete"}, keys : SUBSET StorageObjects]
          /\ r.job = cycle.job /\ r.pc = "delete"
      BY <1>0
    <2>2. cycle' = [r EXCEPT !.keys = BoardStorage!Prefix(cycle.job)]
      BY <1>2
    <2>3. BoardStorage!Prefix(cycle.job) \in SUBSET StorageObjects
      BY <1>0 DEF BoardStorage!Prefix
    <2> HIDE DEF r
    <2>4. /\ cycle' \in [job : Nat, pc : {"idle", "list", "delete", "complete"}, keys : SUBSET StorageObjects]
          /\ cycle'.job = cycle.job /\ cycle'.pc = "delete" /\ cycle'.keys = BoardStorage!Prefix(cycle.job)
      BY <2>1, <2>2, <2>3
    <2>5. \A c \in Nat : BoardStorage!Queued(c)' <=> BoardStorage!Queued(c)
      BY <1>2 DEF BoardStorage!Queued
    <2>6. BoardStorage!Queued(cycle.job)'
      BY <1>0, <1>1, <2>4, <2>5 DEF CycleInv
    <2>7. CycleInv'
      BY <1>1, <2>4, <2>6 DEF CycleInv, BoardStorage!Prefix
    <2> QED
      BY <1>0, <1>1, <1>2, <2>4, <2>5, <2>7, CleanupStep
  <1>3. CASE BoardStorage!Fails(cycle.job) /\ cycle' = BoardStorage!NoCycle
    <2>1. jobs' \in Seq(Nat) /\ \A c \in Nat : BoardStorage!Queued(c)' <=> BoardStorage!Queued(c)
      BY <1>0, <1>3, Requeue DEF BoardStorage!Fails, BoardStorage!Queued
    <2>2. CycleInv'
      BY <1>3, NoCycleFacts DEF CycleInv
    <2> QED
      BY <1>1, <1>3, <2>1, <2>2, NoCycleFacts, CleanupStep
  <1> QED
    BY <1>2, <1>3 DEF BoardStorage!ListKeys

\* The listed keys of the prefix are deleted, or only some of them.
LEMMA DeleteKeysStep ==
  ASSUME StorageInv, BoardStorage!DeleteKeys
  PROVE  StorageInv'
  <1>0. /\ jobs \in Seq(Nat) /\ CycleInv /\ cycle.job \in Nat
        /\ cycle \in [job : Nat, pc : {"idle", "list", "delete", "complete"}, keys : SUBSET StorageObjects]
    BY DEF StorageInv, StorageTypes
  <1>1. /\ cycle.pc = "delete" /\ objects' \subseteq objects
        /\ UNCHANGED <<boards, made, based, rows, imported, files, bPc, bReq, late, abandoned, stranded>>
    BY DEF BoardStorage!DeleteKeys
  <1>2. CASE /\ objects' = objects \ cycle.keys /\ cycle' = [cycle EXCEPT !.pc = "complete"]
             /\ UNCHANGED jobs
    <2>1. /\ cycle' \in [job : Nat, pc : {"idle", "list", "delete", "complete"}, keys : SUBSET StorageObjects]
          /\ cycle'.job = cycle.job /\ cycle'.pc = "complete"
      BY <1>0, <1>2
    <2>2. \A c \in Nat : BoardStorage!Queued(c)' <=> BoardStorage!Queued(c)
      BY <1>2 DEF BoardStorage!Queued
    <2>3. BoardStorage!Queued(cycle.job)'
      BY <1>0, <1>1, <2>1, <2>2 DEF CycleInv
    <2>4. \A o \in objects' : o.board = cycle.job => o.file \in late
      BY <1>0, <1>1, <1>2 DEF CycleInv
    <2>5. CycleInv'
      BY <1>1, <2>1, <2>3, <2>4 DEF CycleInv
    <2> QED
      BY <1>0, <1>1, <1>2, <2>1, <2>2, <2>5, CleanupStep
  <1>3. CASE BoardStorage!Fails(cycle.job) /\ cycle' = BoardStorage!NoCycle
    <2>1. jobs' \in Seq(Nat) /\ \A c \in Nat : BoardStorage!Queued(c)' <=> BoardStorage!Queued(c)
      BY <1>0, <1>3, Requeue DEF BoardStorage!Fails, BoardStorage!Queued
    <2>2. CycleInv'
      BY <1>3, NoCycleFacts DEF CycleInv
    <2> QED
      BY <1>1, <1>3, <2>1, <2>2, NoCycleFacts, CleanupStep
  <1> QED
    BY <1>2, <1>3 DEF BoardStorage!DeleteKeys

\* A job is done when only what is late is left below its prefix.
LEMMA CompleteJobStep ==
  ASSUME StorageInv, BoardStorage!CompleteJob
  PROVE  StorageInv'
  <1>0. jobs \in Seq(Nat) /\ CycleInv /\ cycle.job \in Nat /\ JobsInv /\ Findable
    BY DEF StorageInv, StorageTypes
  <1>1. /\ cycle.pc = "complete" /\ cycle' = BoardStorage!NoCycle
        /\ jobs' = BoardStorage!Without(cycle.job) \/ UNCHANGED jobs
        /\ UNCHANGED <<boards, made, based, rows, imported, objects, files, bPc, bReq, late, abandoned, stranded>>
    BY DEF BoardStorage!CompleteJob
  <1>2. /\ jobs' \in Seq(Nat)
        /\ \A c \in Nat \ {cycle.job} : BoardStorage!Queued(c) => BoardStorage!Queued(c)'
        /\ \A c \in Nat : BoardStorage!Queued(c)' => BoardStorage!Queued(c)
    <2>1. CASE jobs' = BoardStorage!Without(cycle.job)
      <3>1. /\ jobs' \in Seq(Nat)
            /\ \A c \in Nat \ {cycle.job} : BoardStorage!Queued(c) => \E i \in DOMAIN jobs' : jobs'[i] = c
            /\ \A i \in DOMAIN jobs' : BoardStorage!Queued(jobs'[i])
        BY <1>0, <2>1, Dequeue
      <3>2. \A c \in Nat : BoardStorage!Queued(c)' <=> \E i \in DOMAIN jobs' : jobs'[i] = c
        BY DEF BoardStorage!Queued
      <3> QED
        BY <3>1, <3>2
    <2>2. CASE UNCHANGED jobs
      BY <1>0, <2>2 DEF BoardStorage!Queued
    <2> QED
      BY <1>1, <2>1, <2>2
  <1>3. /\ StorageTypes' /\ RequestsInv' /\ ObjectsFit' /\ LateInv' /\ QuotaInv'
        /\ BoardStorage!BoardInitialised'
    BY <1>1, <1>2, NoCycleFacts, BucketShrinks
  <1>4. JobsInv'
    BY <1>0, <1>1, <1>2 DEF JobsInv
  <1>5. Findable'
    <2>1. \A o \in objects : o.board \in Nat
      BY DEF StorageInv, StorageTypes, StorageObjects
    <2> QED
      BY <1>0, <1>1, <1>2, <2>1 DEF Findable, CycleInv
  <1>6. CycleInv'
    BY <1>1, NoCycleFacts DEF CycleInv
  <1> QED
    BY <1>3, <1>4, <1>5, <1>6 DEF StorageInv

\* The process dies: its requests abandon their files and leave their boards.
LEMMA StorageCrashStep ==
  ASSUME StorageInv, BoardStorage!Crash
  PROVE  StorageInv'
  <1>0. /\ StorageTypes /\ ObjectsFit /\ LateInv /\ QuotaInv /\ BoardStorage!BoardInitialised
        /\ JobsInv /\ Findable
    BY DEF StorageInv
  <1>1. /\ abandoned' = abandoned \cup UNION {{bReq[h].file} \cup bReq[h].put : h \in Handlers}
        /\ stranded' = stranded \cup {bReq[h].board : h \in Handlers}
        /\ bPc' = [h \in Handlers |-> "idle"] /\ bReq' = [h \in Handlers |-> BoardStorage!NoBoardReq]
        /\ cycle' = BoardStorage!NoCycle
        /\ UNCHANGED <<boards, made, based, rows, imported, objects, files, jobs, late>>
    BY DEF BoardStorage!Crash
  <1>2. "idle" \in StoragePlaces /\ BoardStorage!NoBoardReq \in StorageReqs
    BY DEF StoragePlaces, StorageReqs, BoardStorage!NoBoardReq
  <1>3. /\ bPc' \in [Handlers -> StoragePlaces] /\ bReq' \in [Handlers -> StorageReqs]
        /\ \A h \in Handlers : bPc'[h] = "idle" /\ bReq'[h] = BoardStorage!NoBoardReq
    BY <1>1, <1>2
  <1>4. \A h \in Handlers : Mine(h)' = {}
    BY <1>3 DEF Mine, BoardStorage!NoBoardReq
  <1>5. StorageTypes'
    BY <1>0, <1>1, <1>3, NoCycleFacts DEF StorageTypes
  <1>6. RequestsInv'
    <2>1. \A h \in Handlers : RequestFits(h)'
      BY <1>3, <1>4 DEF RequestFits, Uploading, Creating, Importing
    <2> QED
      BY <1>4, <2>1 DEF RequestsInv
  <1>7. ObjectsFit'
    BY <1>0, <1>1, <1>4 DEF ObjectsFit
  <1>8. LateInv'
    <2>1. \A h \in Handlers : Mine(h) \subseteq abandoned'
      BY <1>1 DEF Mine
    <2>2. \A o \in objects' : o.file \in late' => o.file \in abandoned'
      BY <1>0, <1>1, <2>1 DEF LateInv
    <2> QED
      BY <1>4, <2>2 DEF LateInv
  <1>9. BoardStorage!BoardInitialised'
    BY <1>0, <1>1 DEF BoardStorage!BoardInitialised, BoardStorage!At
  <1>10. JobsInv' /\ Findable' /\ QuotaInv'
    BY <1>0, <1>1 DEF JobsInv, Findable, QuotaInv, BoardStorage!Queued
  <1>11. CycleInv'
    BY <1>1, NoCycleFacts DEF CycleInv
  <1> QED
    BY <1>5, <1>6, <1>7, <1>8, <1>9, <1>10, <1>11 DEF StorageInv

-----------------------------------------------------------------------------
\* There is no board at the start.
LEMMA StorageInit == Init => StorageInv
  <1> SUFFICES ASSUME Init PROVE StorageInv
    OBVIOUS
  <1>1. /\ boards = {} /\ made = 0 /\ based = {} /\ rows = {} /\ imported = {}
        /\ objects = {} /\ files = 0 /\ jobs = <<>>
        /\ bPc = [h \in Handlers |-> "idle"] /\ bReq = [h \in Handlers |-> BoardStorage!NoBoardReq]
        /\ cycle = BoardStorage!NoCycle /\ late = {} /\ abandoned = {}
    BY DEF Init, BoardStorage!Init
  <1>2. "idle" \in StoragePlaces /\ BoardStorage!NoBoardReq \in StorageReqs
    BY DEF StoragePlaces, StorageReqs, BoardStorage!NoBoardReq
  <1>3. /\ bPc \in [Handlers -> StoragePlaces] /\ bReq \in [Handlers -> StorageReqs]
        /\ \A h \in Handlers : bPc[h] = "idle" /\ bReq[h] = BoardStorage!NoBoardReq
    BY <1>1, <1>2
  <1>4. \A h \in Handlers : Mine(h) = {}
    BY <1>3 DEF Mine, BoardStorage!NoBoardReq
  <1>5. StorageTypes
    BY <1>1, <1>3, NoCycleFacts DEF StorageTypes
  <1>6. RequestsInv
    <2>1. \A h \in Handlers : RequestFits(h)
      BY <1>3, <1>4 DEF RequestFits, Uploading, Creating, Importing
    <2> QED
      BY <1>4, <2>1 DEF RequestsInv
  <1>7. JobsInv
    BY <1>1 DEF JobsInv, BoardStorage!Queued
  <1>8. ObjectsFit /\ Findable /\ LateInv
    BY <1>1, <1>4 DEF ObjectsFit, Findable, LateInv
  <1>9. CycleInv
    BY <1>1, NoCycleFacts DEF CycleInv
  <1>10. QuotaInv
    BY <1>1, FS_EmptySet, BoardsAssumption DEF QuotaInv, BoardsAssumption
  <1>11. BoardStorage!BoardInitialised
    BY <1>1 DEF BoardStorage!BoardInitialised
  <1> QED
    BY <1>5, <1>6, <1>7, <1>8, <1>9, <1>10, <1>11 DEF StorageInv

\* Every step of the storage part keeps its invariant.
LEMMA StorageStep ==
  ASSUME StorageInv, BoardStorage!Next
  PROVE  StorageInv'
  <1>1. ASSUME NEW h \in Handlers,
               BoardStorage!CreateBoard(h) \/ BoardStorage!SeedBoard(h) \/ BoardStorage!UndoBoard(h)
        PROVE  StorageInv'
    BY <1>1, CreateBoardStep, SeedBoardStep, UndoBoardStep
  <1>2. ASSUME NEW h \in Handlers, NEW b \in BoardStorage!Boards,
               BoardStorage!upload_board_image(h, b) \/ BoardStorage!upload_board_audio(h, b)
                 \/ BoardStorage!upload_board_video(h, b) \/ BoardStorage!upload_board_file(h, b)
                 \/ BoardStorage!upload_board_pdf(h, b)
        PROVE  StorageInv'
    <2>1. BoardStorage!StartUpload(h, b, "media") \/ BoardStorage!StartUpload(h, b, "pdf")
      BY <1>2 DEF BoardStorage!upload_board_image, BoardStorage!upload_board_audio,
         BoardStorage!upload_board_video, BoardStorage!upload_board_file, BoardStorage!upload_board_pdf
    <2> QED
      BY <2>1, StartUploadStep
  <1>3. ASSUME NEW h \in Handlers,
               BoardStorage!StorePages(h) \/ BoardStorage!StoreObject(h) \/ BoardStorage!RecordFile(h)
                 \/ BoardStorage!CleanObject(h) \/ BoardStorage!CleanDocument(h)
        PROVE  StorageInv'
    BY <1>3, StorePagesStep, StoreObjectStep, RecordFileStep, CleanObjectStep, CleanDocumentStep
  <1>4. ASSUME NEW h \in Handlers, NEW n \in 1..2, NEW valid \in BOOLEAN, BoardStorage!ImportBoard(h, n, valid)
        PROVE  StorageInv'
    BY <1>4, ImportBoardStep
  <1>5. ASSUME NEW h \in Handlers,
               BoardStorage!ImportAsset(h) \/ BoardStorage!RecordImport(h)
                 \/ BoardStorage!UnputAssets(h) \/ BoardStorage!ImportBase(h)
        PROVE  StorageInv'
    BY <1>5, ImportAssetStep, RecordImportStep, UnputAssetsStep, ImportBaseStep
  <1>6. ASSUME NEW b \in BoardStorage!Boards, BoardStorage!DeleteBoard(b)
        PROVE  StorageInv'
    <2>1. /\ {b} \subseteq boards /\ BoardStorage!delete_boards({b})
          /\ UNCHANGED <<made, objects, files, bPc, bReq, cycle, late, abandoned, stranded>>
      BY <1>6 DEF BoardStorage!DeleteBoard
    <2> QED
      BY <2>1, DeleteStep
  <1>7. ASSUME NEW b \in BoardStorage!Boards, BoardStorage!ListNow(b) \/ BoardStorage!DeleteNow(b)
        PROVE  StorageInv'
    BY <1>7, FirstPassStep
  <1>8. ASSUME BoardStorage!DeleteOwner
        PROVE  StorageInv'
    <2>1. /\ BoardStorage!delete_boards(boards)
          /\ UNCHANGED <<made, objects, files, bPc, bReq, cycle, late, abandoned, stranded>>
      BY <1>8 DEF BoardStorage!DeleteOwner
    <2> QED
      BY <2>1, DeleteStep
  <1>9. ASSUME BoardStorage!JobDue \/ BoardStorage!CleanupCycle \/ BoardStorage!Crash
        PROVE  StorageInv'
    BY <1>9, JobDueStep, ListPendingStep, ListKeysStep, DeleteKeysStep, CompleteJobStep, StorageCrashStep
       DEF BoardStorage!CleanupCycle
  <1> QED
    BY <1>1, <1>2, <1>3, <1>4, <1>5, <1>6, <1>7, <1>8, <1>9 DEF BoardStorage!Next

\* For any number of requests, boards and files, any limits, prefixes that cannot be
\* emptied and failures: boards and storage stay within the limits of the tier, what is
\* left below the prefix of a board that is gone is late and abandoned unless a job or
\* a request will still see to it, and a board that has been created has a base.
THEOREM StorageIsSafe == Spec => []StorageSafe
  <1>1. StorageInv /\ [Next]_<<part, storageVars, gcVars, previewVars, archiveVars>> => StorageInv'
    <2> SUFFICES ASSUME StorageInv, [Next]_<<part, storageVars, gcVars, previewVars, archiveVars>>
                 PROVE  StorageInv'
      OBVIOUS
    <2>1. CASE BoardStorage!Next
      BY <2>1, StorageStep
    <2>2. CASE UNCHANGED storageVars
      <3>1. UNCHANGED <<boards, made, based, rows, imported, objects, files, jobs, bPc, bReq, cycle, late,
                        abandoned, stranded>>
        BY <2>2 DEF storageVars
      <3>2. CycleInv' /\ jobs' \in Seq(Nat) /\ \A c \in Nat : BoardStorage!Queued(c)' <=> BoardStorage!Queued(c)
        BY <3>1 DEF StorageInv, StorageTypes, CycleInv, BoardStorage!Queued
      <3>3. cycle' \in [job : Nat, pc : {"idle", "list", "delete", "complete"}, keys : SUBSET StorageObjects]
        BY <3>1 DEF StorageInv, StorageTypes
      <3> QED
        BY <3>1, <3>2, <3>3, CleanupStep
    <2> QED
      BY <2>1, <2>2, BoardsStep
  <1>2. StorageInv => StorageSafe
    <2> SUFFICES ASSUME StorageInv PROVE StorageSafe
      OBVIOUS
    <2>1. BoardStorage!QuotaHolds
      BY SameCount DEF StorageInv, QuotaInv, BoardStorage!QuotaHolds, BoardStorage!used
    <2>2. BoardStorage!NoOrphanLeft
      <3> SUFFICES ASSUME NEW o \in objects, o.board \notin boards, ~BoardStorage!Queued(o.board),
                          o.file \notin late \cap abandoned
                   PROVE  BoardStorage!At(o.board) # {}
        BY DEF BoardStorage!NoOrphanLeft
      <3>1. o.file \in late /\ o.file \notin abandoned
        BY DEF StorageInv, Findable
      <3>2. PICK h \in Handlers : o.file \in Mine(h)
        BY <3>1 DEF StorageInv, LateInv
      <3>3. bReq[h].board = o.board
        BY <3>2 DEF StorageInv, ObjectsFit
      <3> QED
        BY <3>3 DEF BoardStorage!At
    <2> QED
      BY <2>1, <2>2 DEF StorageInv, StorageSafe
  <1> QED
    BY StorageInit, <1>1, <1>2, PTL DEF Spec
-----------------------------------------------------------------------------
(* BoardArchive *)

\* What the exporter packs, and the archive it makes of it.
Referred == BoardArchive!References(source.state, "source", source.preview)
Packing == [k \in Referred |-> bucket[k]]
Packed == BoardArchive!build_zip(source.state, Packing, source.preview)

BoardKeys == [board : {"source", "other"}, dir : {"media", "pdf", "preview"}, n : Nat]
PreviewKeys == {BoardArchive!NoKey, BoardArchive!Preview("source"), BoardArchive!MediaKey("source")}

\* The board has what it refers to, whole or empty, but for what is missing.
SourceInv ==
  /\ source \in [state : BoardArchive!States,
                 preview : {BoardArchive!NoKey, BoardArchive!Preview("source")}]
  /\ DOMAIN bucket \subseteq BoardArchive!Behind(source.state, source.preview)
  /\ \A k \in DOMAIN bucket : bucket[k] \in {BoardArchive!Empty, BoardArchive!Bytes(k)}

\* The file is what was packed, or that with one thing wrong, or of an older version.
FileInv ==
  /\ aPc \in {"board", "file", "done"}
  /\ aPc = "board" => intact
  /\ aPc = "file" => Referred \subseteq DOMAIN bucket
  /\ aPc = "file" /\ intact => archive = Packed
  /\ aPc = "file" /\ ~intact => archive.version = 1 \/ BoardArchive!Damaged(Packed, archive)

ArchiveInv == SourceInv /\ FileInv /\ ArchiveSafe

\* The keys that a board of this server refers to.
LEMMA ReferredKeys ==
  ASSUME SourceInv
  PROVE  /\ Referred \subseteq BoardKeys
         /\ \A k \in BoardArchive!collect_object_keys(source.state) :
              \/ k = BoardArchive!MediaKey("source") \/ k = BoardArchive!MediaKey("other")
              \/ k = BoardArchive!Original("source")
         /\ source.state.pages \in Nat /\ source.state.urls \in {"source", "other"}
  <1>1. source.state \in BoardArchive!States /\ source.preview \in {BoardArchive!NoKey, BoardArchive!Preview("source")}
    BY DEF SourceInv
  <1>2. /\ source.state.pages \in Nat /\ source.state.urls \in {"source", "other"}
        /\ source.state.keys \in UNION {[E -> {BoardArchive!MediaKey("source"), BoardArchive!MediaKey("other"),
                                               BoardArchive!Original("source")}] : E \in SUBSET Elements}
    BY <1>1 DEF BoardArchive!States
  <1>3. PICK E \in SUBSET Elements :
          source.state.keys \in [E -> {BoardArchive!MediaKey("source"), BoardArchive!MediaKey("other"),
                                       BoardArchive!Original("source")}]
    BY <1>2
  <1>4. \A k \in BoardArchive!collect_object_keys(source.state) :
          \/ k = BoardArchive!MediaKey("source") \/ k = BoardArchive!MediaKey("other")
          \/ k = BoardArchive!Original("source")
    BY <1>3 DEF BoardArchive!collect_object_keys, BoardArchive!Range
  <1>5. /\ BoardArchive!MediaKey("source") \in BoardKeys /\ BoardArchive!MediaKey("other") \in BoardKeys
        /\ BoardArchive!Original("source") \in BoardKeys /\ BoardArchive!Preview("source") \in BoardKeys
    BY DEF BoardKeys, BoardArchive!MediaKey, BoardArchive!Original, BoardArchive!Preview
  <1>6. \A k \in BoardArchive!collect_pdf_page_keys(source.state, "source") : k \in BoardKeys
    BY <1>2 DEF BoardArchive!collect_pdf_page_keys, BoardArchive!Page, BoardKeys
  <1> QED
    BY <1>1, <1>2, <1>4, <1>5, <1>6 DEF Referred, BoardArchive!References

\* An archive in which one thing went wrong is refused, or it is only its preview or
\* its board's id that is not as it was.
LEMMA DamageIsFound ==
  ASSUME SourceInv, Referred \subseteq DOMAIN bucket, BoardArchive!Damaged(Packed, archive),
         BoardArchive!read_zip(archive), BoardArchive!validate_archive(archive), archive.version = 2
  PROVE  /\ archive.state = source.state /\ archive.assets = Packing
         /\ \/ archive.board = "source" /\ archive.preview \in PreviewKeys
            \/ archive.board = "other" /\ archive.preview = source.preview
  <1> DEFINE S == source.state
             a == archive
  <1>1. /\ ~a.unsafe /\ a.kind /\ a.lineage /\ a.update = a.state
        /\ DOMAIN a.assets = DOMAIN a.inventory
        /\ \A k \in DOMAIN a.assets : a.inventory[k] = a.assets[k]
    BY DEF BoardArchive!read_zip, BoardArchive!validate_archive, BoardArchive!validate_v2_assets,
       BoardArchive!digest_matches
  <1>2. /\ Packed = [version |-> 2, kind |-> TRUE, lineage |-> TRUE, state |-> S, update |-> S,
                     inventory |-> Packing, assets |-> Packing, unsafe |-> FALSE, board |-> "source",
                     preview |-> source.preview]
    BY DEF Packed, BoardArchive!build_zip
  <1>3. DOMAIN Packing = Referred
    BY DEF Packing
  <1>4. \A k \in Referred : Packing[k] # BoardArchive!Junk(k)
    <2> SUFFICES ASSUME NEW k \in Referred PROVE bucket[k] # BoardArchive!Junk(k)
      BY DEF Packing
    <2>1. bucket[k] \in {BoardArchive!Empty, BoardArchive!Bytes(k)}
      BY DEF SourceInv
    <2>2. BoardArchive!Empty.kind = "empty" /\ BoardArchive!Bytes(k).kind = "data" /\ BoardArchive!Junk(k).kind = "junk"
      BY DEF BoardArchive!Empty, BoardArchive!Bytes, BoardArchive!Junk
    <2> QED
      BY <2>1, <2>2
  <1>5. BoardArchive!Stray \notin Referred
    BY ReferredKeys DEF BoardArchive!Stray, BoardKeys
  <1>6. S \in BoardArchive!States /\ S.pages \in Nat /\ S.urls \in {"source", "other"}
    BY ReferredKeys DEF SourceInv
  <1> HIDE DEF S
  <1>7. CASE \E v \in {1, 3} : a = [Packed EXCEPT !.version = v]
    BY <1>2, <1>7
  <1>8. CASE a = [Packed EXCEPT !.kind = FALSE] \/ a = [Packed EXCEPT !.lineage = FALSE]
    BY <1>1, <1>2, <1>8
  <1>9. CASE \E e \in DOMAIN Packed.state.keys :
               a = [Packed EXCEPT !.state.keys = BoardArchive!Restrict(@, DOMAIN @ \ {e})]
    <2>1. PICK e \in DOMAIN S.keys : a = [Packed EXCEPT !.state.keys = BoardArchive!Restrict(@, DOMAIN @ \ {e})]
      BY <1>2, <1>9
    <2>2. a.update = S /\ a.state = [S EXCEPT !.keys = BoardArchive!Restrict(S.keys, DOMAIN S.keys \ {e})]
      BY <1>2, <2>1
    <2>3. a.state.keys = BoardArchive!Restrict(S.keys, DOMAIN S.keys \ {e})
      BY <1>6, <2>2 DEF BoardArchive!States
    <2>4. e \notin DOMAIN a.state.keys
      BY <2>3 DEF BoardArchive!Restrict
    <2> QED
      BY <1>1, <2>1, <2>2, <2>4
  <1>10. CASE a = [Packed EXCEPT !.state.pages = @ - 1]
    <2>1. a.update = S /\ a.state = [S EXCEPT !.pages = S.pages - 1]
      BY <1>2, <1>10
    <2>2. a.state.pages = S.pages - 1
      BY <1>6, <2>1 DEF BoardArchive!States
    <2> QED
      BY <1>1, <1>6, <2>1, <2>2
  <1>11. CASE a = [Packed EXCEPT !.update = BoardArchive!NoState]
    <2>1. a.update.urls = "" /\ a.state = S
      BY <1>2, <1>11 DEF BoardArchive!NoState
    <2> QED
      BY <1>1, <1>6, <2>1
  <1>12. CASE \E k \in DOMAIN Packed.inventory :
                \/ a = [Packed EXCEPT !.inventory = BoardArchive!Restrict(@, DOMAIN @ \ {k})]
                \/ a = [Packed EXCEPT !.inventory[k] = BoardArchive!Junk(k)]
    <2>1. PICK k \in Referred :
            \/ a = [Packed EXCEPT !.inventory = BoardArchive!Restrict(@, DOMAIN @ \ {k})]
            \/ a = [Packed EXCEPT !.inventory[k] = BoardArchive!Junk(k)]
      BY <1>2, <1>3, <1>12
    <2>2. CASE a = [Packed EXCEPT !.inventory = BoardArchive!Restrict(@, DOMAIN @ \ {k})]
      <3>1. a.inventory = BoardArchive!Restrict(Packing, Referred \ {k}) /\ a.assets = Packing
        BY <1>2, <1>3, <2>2
      <3>2. k \notin DOMAIN a.inventory
        BY <3>1 DEF BoardArchive!Restrict
      <3> QED
        BY <1>1, <1>3, <2>1, <3>1, <3>2
    <2>3. CASE a = [Packed EXCEPT !.inventory[k] = BoardArchive!Junk(k)]
      <3>1. a.inventory = [Packing EXCEPT ![k] = BoardArchive!Junk(k)] /\ a.assets = Packing
        BY <1>2, <2>3
      <3>2. a.inventory[k] = BoardArchive!Junk(k)
        BY <1>3, <2>1, <3>1
      <3> QED
        BY <1>1, <1>3, <1>4, <2>1, <3>1, <3>2
    <2> QED
      BY <2>1, <2>2, <2>3
  <1>13. CASE \E k \in DOMAIN Packed.assets :
                \/ a = [Packed EXCEPT !.assets = BoardArchive!Restrict(@, DOMAIN @ \ {k})]
                \/ a = [Packed EXCEPT !.assets[k] = BoardArchive!Junk(k)]
    <2>1. PICK k \in Referred :
            \/ a = [Packed EXCEPT !.assets = BoardArchive!Restrict(@, DOMAIN @ \ {k})]
            \/ a = [Packed EXCEPT !.assets[k] = BoardArchive!Junk(k)]
      BY <1>2, <1>3, <1>13
    <2>2. CASE a = [Packed EXCEPT !.assets = BoardArchive!Restrict(@, DOMAIN @ \ {k})]
      <3>1. a.assets = BoardArchive!Restrict(Packing, Referred \ {k}) /\ a.inventory = Packing
        BY <1>2, <1>3, <2>2
      <3>2. k \notin DOMAIN a.assets
        BY <3>1 DEF BoardArchive!Restrict
      <3> QED
        BY <1>1, <1>3, <2>1, <3>1, <3>2
    <2>3. CASE a = [Packed EXCEPT !.assets[k] = BoardArchive!Junk(k)]
      <3>1. a.assets = [Packing EXCEPT ![k] = BoardArchive!Junk(k)] /\ a.inventory = Packing
        BY <1>2, <2>3
      <3>2. a.assets[k] = BoardArchive!Junk(k) /\ k \in DOMAIN a.assets
        BY <1>3, <2>1, <3>1
      <3> QED
        BY <1>1, <1>3, <1>4, <2>1, <3>1, <3>2
    <2> QED
      BY <2>1, <2>2, <2>3
  <1>14. CASE a = [Packed EXCEPT !.assets =
                     [k \in DOMAIN @ \cup {BoardArchive!Stray} |->
                        IF k = BoardArchive!Stray THEN BoardArchive!Junk(k) ELSE @[k]]]
    <2>1. BoardArchive!Stray \in DOMAIN a.assets /\ a.inventory = Packing
      BY <1>2, <1>14
    <2> QED
      BY <1>1, <1>3, <1>5, <2>1
  <1>15. CASE a = [Packed EXCEPT !.unsafe = TRUE]
    BY <1>1, <1>2, <1>15
  <1>16. CASE a = [Packed EXCEPT !.board = "other"]
    BY <1>2, <1>16 DEF S
  <1>17. CASE \E k \in PreviewKeys : a = [Packed EXCEPT !.preview = k]
    BY <1>2, <1>17 DEF S
  <1> QED
    BY <1>7, <1>8, <1>9, <1>10, <1>11, <1>12, <1>13, <1>14, <1>15, <1>16, <1>17
       DEF BoardArchive!Damaged, PreviewKeys

\* A board refers to finitely many objects.
LEMMA ReferredFinite ==
  ASSUME SourceInv
  PROVE  IsFiniteSet(Referred)
  <1> DEFINE C == {BoardArchive!MediaKey("source"), BoardArchive!MediaKey("other"), BoardArchive!Original("source")}
             N == source.state.pages
             P == {BoardArchive!Page("source", p) : p \in 0..(N - 1)}
  <1>1. N \in Nat
    BY ReferredKeys
  <1>2. IsFiniteSet(C) /\ IsFiniteSet({source.preview})
    <2>1. ASSUME NEW a, NEW b, NEW c
          PROVE  IsFiniteSet({a, b, c})
      <3>1. IsFiniteSet({a}) /\ IsFiniteSet({b}) /\ IsFiniteSet({c})
        BY FS_Singleton
      <3>2. IsFiniteSet({a} \cup {b})
        BY <3>1, FS_Union
      <3>3. IsFiniteSet(({a} \cup {b}) \cup {c})
        BY <3>1, <3>2, FS_Union
      <3>4. {a, b, c} = ({a} \cup {b}) \cup {c}
        OBVIOUS
      <3> QED
        BY <3>3, <3>4
    <2> QED
      BY <2>1, FS_Singleton
  <1>3. IsFiniteSet(P)
    <2>1. IsFiniteSet(0..(N - 1))
      <3> DEFINE n == N - 1
      <3>1. n \in Int
        BY <1>1
      <3> HIDE DEF n
      <3>2. IsFiniteSet(0..n)
        BY <3>1, FS_Interval
      <3> QED
        BY <3>2 DEF n
    <2>2. [p \in 0..(N - 1) |-> BoardArchive!Page("source", p)] \in Surjection(0..(N - 1), P)
      BY DEF Surjection
    <2> QED
      BY <2>1, <2>2, FS_Surjection
  <1>4. Referred \in SUBSET ((C \cup P) \cup {source.preview})
    <2>1. BoardArchive!collect_object_keys(source.state) \subseteq C
      BY ReferredKeys
    <2>2. BoardArchive!collect_pdf_page_keys(source.state, "source") = P
      BY DEF BoardArchive!collect_pdf_page_keys
    <2> HIDE DEF C, P
    <2> QED
      BY <2>1, <2>2 DEF Referred, BoardArchive!References
  <1>5. IsFiniteSet((C \cup P) \cup {source.preview})
    BY <1>2, <1>3, FS_Union
  <1> QED
    BY <1>4, <1>5, FS_Subset

\* The media of an archive have a place each in the order its assets are read in.
LEMMA PlaceOfAsset ==
  ASSUME NEW S, IsFiniteSet(S), NEW k \in S
  PROVE  LET q == BoardArchive!SetToSeq(S)
         IN q[CHOOSE i \in DOMAIN q : q[i] = k] = k
  <1>1. BoardArchive!SetToSeq(S) = BoardStorage!SetToSeq(S)
    BY DEF BoardArchive!SetToSeq, BoardStorage!SetToSeq, BoardArchive!Cardinality, BoardStorage!Cardinality,
           BoardArchive!IsFiniteSet, BoardStorage!IsFiniteSet, BoardArchive!IsInjective, BoardStorage!IsInjective
  <1> DEFINE q == BoardArchive!SetToSeq(S)
  <1>2. \E i \in DOMAIN q : q[i] = k
    BY <1>1, ElementsOf
  <1> HIDE DEF q
  <1>3. q[CHOOSE i \in DOMAIN q : q[i] = k] = k
    BY <1>2
  <1> QED
    BY <1>3 DEF q

\* No two assets of an archive get the same new key.
LEMMA NewKeysDiffer ==
  ASSUME SourceInv, archive.assets = Packing,
         NEW k1 \in Referred, NEW k2 \in Referred,
         BoardArchive!NewKey(archive, k1) = BoardArchive!NewKey(archive, k2)
  PROVE  k1 = k2
  <1> DEFINE q == BoardArchive!SetToSeq(Referred)
             Place(k) == CHOOSE i \in DOMAIN q : q[i] = k
             Fixed(k) == k.board = archive.board /\ k.dir = "pdf"
  <1>1. DOMAIN archive.assets = Referred
    BY DEF Packing
  <1>2. q[Place(k1)] = k1 /\ q[Place(k2)] = k2
    BY ReferredFinite, PlaceOfAsset
  <1>3. k1 \in BoardKeys /\ k2 \in BoardKeys
    BY ReferredKeys
  <1>4. \A k \in {k1, k2} :
          BoardArchive!NewKey(archive, k) =
            IF k = archive.preview THEN BoardArchive!Preview("new")
            ELSE IF Fixed(k) THEN [k EXCEPT !.board = "new"]
            ELSE [board |-> "new", dir |-> "media", n |-> Place(k)]
    BY <1>1 DEF BoardArchive!NewKey
  <1> HIDE DEF q, Place
  <1> DEFINE New(k) == BoardArchive!NewKey(archive, k)
  <1>5. \A k \in {k1, k2} :
          /\ k = archive.preview => New(k).dir = "preview"
          /\ k # archive.preview /\ Fixed(k) => New(k).dir = "pdf" /\ New(k).n = k.n
          /\ k # archive.preview /\ ~Fixed(k) => New(k).dir = "media" /\ New(k).n = Place(k)
    <2> TAKE k \in {k1, k2}
    <2>1. k \in BoardKeys
      BY <1>3
    <2>2. CASE k = archive.preview
      BY <1>4, <2>2 DEF BoardArchive!Preview
    <2>3. CASE k # archive.preview /\ Fixed(k)
      <3>1. New(k) = [k EXCEPT !.board = "new"]
        BY <1>4, <2>3
      <3>2. New(k).dir = k.dir /\ New(k).n = k.n
        BY <2>1, <3>1 DEF BoardKeys
      <3> QED
        BY <2>3, <3>2
    <2>4. CASE k # archive.preview /\ ~Fixed(k)
      BY <1>4, <2>4
    <2> QED
      BY <2>2, <2>3, <2>4
  <1>6. New(k1) = New(k2)
    OBVIOUS
  <1> HIDE DEF New
  <1>7. CASE k1 = archive.preview
    BY <1>5, <1>6, <1>7
  <1>8. CASE k1 # archive.preview /\ Fixed(k1)
    <2>1. k2 # archive.preview /\ Fixed(k2) /\ k1.n = k2.n
      BY <1>5, <1>6, <1>8
    <2>2. k1.board = k2.board /\ k1.dir = k2.dir
      BY <1>8, <2>1
    <2> QED
      BY <1>3, <2>1, <2>2 DEF BoardKeys
  <1>9. CASE k1 # archive.preview /\ ~Fixed(k1)
    <2>1. Place(k1) = Place(k2)
      BY <1>5, <1>6, <1>9
    <2> QED
      BY <1>2, <2>1
  <1> QED
    BY <1>7, <1>8, <1>9

\* What an archive may name as its preview is in no document's directory.
LEMMA PreviewIsNoPage ==
  \A k \in PreviewKeys : k.dir # "pdf"
  <1>1. /\ BoardArchive!NoKey.dir = "" /\ BoardArchive!Preview("source").dir = "preview"
        /\ BoardArchive!MediaKey("source").dir = "media"
    BY DEF BoardArchive!NoKey, BoardArchive!Preview, BoardArchive!MediaKey
  <1> QED
    BY <1>1 DEF PreviewKeys

\* The importer finds what the exporter packed, and a document's pages are below
\* the board that was exported.
LEMMA SidesAgree ==
  ASSUME SourceInv, Referred \subseteq DOMAIN bucket, archive = Packed \/ BoardArchive!Damaged(Packed, archive),
         BoardArchive!read_zip(archive), BoardArchive!validate_archive(archive), archive.version = 2
  PROVE  /\ archive.state = source.state /\ archive.assets = Packing /\ archive.preview \in PreviewKeys
         /\ source.state.pages > 0 => archive.board = "source" /\ source.state.urls = "source"
  <1> DEFINE S == source.state
  <1>1. /\ S.pages \in Nat /\ S.urls \in {"source", "other"}
        /\ \A k \in BoardArchive!collect_object_keys(S) :
              \/ k = BoardArchive!MediaKey("source") \/ k = BoardArchive!MediaKey("other")
              \/ k = BoardArchive!Original("source")
        /\ source.preview \in {BoardArchive!NoKey, BoardArchive!Preview("source")}
    BY ReferredKeys DEF SourceInv
  <1>2. /\ archive.state = S /\ archive.assets = Packing
        /\ \/ archive.board = "source" /\ archive.preview \in PreviewKeys
           \/ archive.board = "other" /\ archive.preview = source.preview
    <2>1. CASE archive = Packed
      <3>1. /\ archive.state = S /\ archive.assets = Packing
            /\ archive.board = "source" /\ archive.preview = source.preview
        BY <2>1 DEF Packed, BoardArchive!build_zip
      <3> QED
        BY <1>1, <3>1 DEF PreviewKeys
    <2>2. CASE BoardArchive!Damaged(Packed, archive)
      BY <2>2, DamageIsFound
    <2> QED
      BY <2>1, <2>2
  <1>3. archive.preview \in PreviewKeys
    BY <1>1, <1>2 DEF PreviewKeys
  <1>4. ASSUME S.pages > 0
        PROVE  archive.board = "source" /\ S.urls = "source"
    <2>1. ASSUME NEW k, NEW b,
                 k \in BoardArchive!References(S, b, source.preview), k.dir = "pdf", k.n > 0
          PROVE  k.board = b
      <3>1. CASE k \in BoardArchive!collect_object_keys(S)
        BY <1>1, <2>1, <3>1 DEF BoardArchive!MediaKey, BoardArchive!Original
      <3>2. CASE k \in BoardArchive!collect_pdf_page_keys(S, b)
        BY <3>2 DEF BoardArchive!collect_pdf_page_keys, BoardArchive!Page
      <3>3. CASE k = source.preview
        <4>1. source.preview \in PreviewKeys
          BY <1>1 DEF PreviewKeys
        <4> QED
          BY <2>1, <3>3, <4>1, PreviewIsNoPage
      <3> QED
        BY <2>1, <3>1, <3>2, <3>3 DEF BoardArchive!References
    <2>2. \A b : LET k == BoardArchive!Page(b, 0) IN k.board = b /\ k.dir = "pdf" /\ k.n > 0
      BY DEF BoardArchive!Page
    <2>3. 0 \in 0..(S.pages - 1)
      BY <1>1, <1>4
    <2>4. BoardArchive!Page("source", 0) \in Referred
      BY <2>3 DEF Referred, BoardArchive!References, BoardArchive!collect_pdf_page_keys
    <2>5. BoardArchive!Page("source", 0) \in BoardArchive!References(S, S.urls, source.preview)
      BY <2>4 DEF SourceInv, BoardArchive!Behind
    <2>6. S.urls = "source"
      BY <2>1, <2>2, <2>5
    <2>7. archive.board # "other"
      <3> SUFFICES ASSUME archive.board = "other" PROVE FALSE
        OBVIOUS
      <3>1. BoardArchive!Page("other", 0) \in DOMAIN archive.inventory
        <4>1. BoardArchive!Page("other", 0) \in BoardArchive!import_pdf_page_keys(archive.state, archive.board)
          BY <1>2, <2>3 DEF BoardArchive!import_pdf_page_keys
        <4> QED
          BY <4>1 DEF BoardArchive!validate_archive, BoardArchive!validate_v2_assets
      <3>2. DOMAIN archive.inventory = Referred
        <4>1. DOMAIN archive.assets = DOMAIN archive.inventory
          BY DEF BoardArchive!validate_archive, BoardArchive!validate_v2_assets
        <4> QED
          BY <1>2, <4>1 DEF Packing
      <3> QED
        BY <2>1, <2>2, <3>1, <3>2 DEF Referred
    <2> QED
      BY <1>2, <2>6, <2>7
  <1> QED
    BY <1>2, <1>3, <1>4

\* An object that is not empty arrives under its new key with the bytes it had.
LEMMA AssetArrives ==
  ASSUME SourceInv, archive.assets = Packing, NEW k \in Referred, bucket[k] # BoardArchive!Empty
  PROVE  LET map == BoardArchive!key_map(archive)
         IN /\ k \in DOMAIN map /\ map[k] = BoardArchive!NewKey(archive, k)
            /\ map[k] \in BoardArchive!Range(map)
            /\ archive.assets[CHOOSE i \in DOMAIN map : map[i] = map[k]] = bucket[k]
  <1> DEFINE map == BoardArchive!key_map(archive)
  <1>1. DOMAIN Packing = Referred /\ Packing[k] = bucket[k]
    BY DEF Packing
  <1>2. /\ DOMAIN map \subseteq Referred
        /\ \A i \in DOMAIN map : map[i] = BoardArchive!NewKey(archive, i)
        /\ k \in DOMAIN map
    BY <1>1 DEF BoardArchive!key_map
  <1>3. \A i \in DOMAIN map : map[i] = map[k] => i = k
    BY <1>2, NewKeysDiffer
  <1>4. map[k] \in BoardArchive!Range(map)
    BY <1>2 DEF BoardArchive!Range
  <1> HIDE DEF map
  <1>5. (CHOOSE i \in DOMAIN map : map[i] = map[k]) = k
    BY <1>2, <1>3
  <1>6. archive.assets[CHOOSE i \in DOMAIN map : map[i] = map[k]] = bucket[k]
    BY <1>1, <1>5
  <1> QED
    BY <1>2, <1>4, <1>6 DEF map

\* What an accepted import of version 2 makes is the board that was exported.
LEMMA ImportIsFaithful ==
  ASSUME SourceInv, FileInv, BoardArchive!ImportBoard
  PROVE  BoardArchive!ImportFaithful'
  <1> DEFINE map == BoardArchive!key_map(archive)
             S == source.state
             newKeys == BoardArchive!rewrite_object_keys(archive.state, map)
             newUrls == BoardArchive!rewrite_pdf_urls(archive.state, archive.board)
  <1>1. /\ source' = source /\ bucket' = bucket /\ archive' = archive
        /\ Referred \subseteq DOMAIN bucket
        /\ archive.version = 1 \/ archive = Packed \/ BoardArchive!Damaged(Packed, archive)
    BY DEF BoardArchive!ImportBoard, FileInv
  <1> SUFFICES ASSUME result'.accepted, archive.version = 2
               PROVE  /\ DOMAIN result'.state.keys = DOMAIN S.keys
                      /\ \A e \in DOMAIN S.keys :
                           bucket[S.keys[e]] # BoardArchive!Empty =>
                             /\ result'.state.keys[e] \in DOMAIN result'.objects
                             /\ result'.objects[result'.state.keys[e]] = bucket[S.keys[e]]
                      /\ result'.state.pages = S.pages
                      /\ \A p \in 0..(S.pages - 1) :
                           LET bytes == bucket[BoardArchive!Page(S.urls, p)]
                               k == BoardArchive!Page(result'.state.urls, p)
                           IN bytes # BoardArchive!Empty =>
                                k \in DOMAIN result'.objects /\ result'.objects[k] = bytes
    BY <1>1 DEF BoardArchive!ImportFaithful, BoardArchive!Holds
  <1>2. BoardArchive!read_zip(archive) /\ BoardArchive!validate_archive(archive)
    BY DEF BoardArchive!ImportBoard, BoardArchive!NoResult
  <1>3. /\ archive.state = S /\ archive.assets = Packing /\ archive.preview \in PreviewKeys
        /\ S.pages > 0 => archive.board = "source" /\ S.urls = "source"
    BY <1>1, <1>2, SidesAgree
  <1>4. /\ result'.state = [S EXCEPT !.keys = newKeys, !.urls = newUrls]
        /\ result'.objects = [k \in BoardArchive!Range(map) |->
                                archive.assets[CHOOSE i \in DOMAIN map : map[i] = k]]
    BY <1>2, <1>3 DEF BoardArchive!ImportBoard
  <1>5. S \in BoardArchive!States /\ S.pages \in Nat
    BY ReferredKeys DEF SourceInv
  <1>6. ASSUME NEW k \in Referred, bucket[k] # BoardArchive!Empty
        PROVE  /\ k \in DOMAIN map /\ map[k] = BoardArchive!NewKey(archive, k)
               /\ map[k] \in DOMAIN result'.objects /\ result'.objects[map[k]] = bucket[k]
    BY <1>3, <1>4, <1>6, AssetArrives
  <1> HIDE DEF map
  <1>7. /\ newKeys = [e \in DOMAIN S.keys |-> IF S.keys[e] \in DOMAIN map THEN map[S.keys[e]] ELSE S.keys[e]]
        /\ newUrls = IF S.urls = archive.board THEN "new" ELSE S.urls
    BY <1>3 DEF BoardArchive!rewrite_object_keys, BoardArchive!rewrite_pdf_urls
  <1> HIDE DEF newKeys, newUrls, S
  <1>8. result'.state.keys = newKeys /\ result'.state.urls = newUrls /\ result'.state.pages = S.pages
    BY <1>4, <1>5 DEF BoardArchive!States
  <1>9. ASSUME NEW e \in DOMAIN S.keys, bucket[S.keys[e]] # BoardArchive!Empty
        PROVE  /\ result'.state.keys[e] \in DOMAIN result'.objects
               /\ result'.objects[result'.state.keys[e]] = bucket[S.keys[e]]
    <2>1. S.keys[e] \in Referred
      BY DEF Referred, BoardArchive!References, BoardArchive!collect_object_keys, BoardArchive!Range, S
    <2> QED
      BY <1>6, <1>7, <1>8, <1>9, <2>1
  <1>10. ASSUME NEW p \in 0..(S.pages - 1),
                bucket[BoardArchive!Page(S.urls, p)] # BoardArchive!Empty
         PROVE  LET k == BoardArchive!Page(result'.state.urls, p)
                IN /\ k \in DOMAIN result'.objects
                   /\ result'.objects[k] = bucket[BoardArchive!Page(S.urls, p)]
    <2>1. archive.board = "source" /\ S.urls = "source" /\ result'.state.urls = "new"
      BY <1>3, <1>5, <1>7, <1>8
    <2> DEFINE k == BoardArchive!Page("source", p)
    <2>2. k \in Referred
      BY DEF Referred, BoardArchive!References, BoardArchive!collect_pdf_page_keys, S
    <2>3. BoardArchive!NewKey(archive, k) = BoardArchive!Page("new", p)
      <3>1. k # archive.preview
        BY <1>3, PreviewIsNoPage DEF BoardArchive!Page
      <3> QED
        BY <2>1, <3>1 DEF BoardArchive!NewKey, BoardArchive!Page
    <2> HIDE DEF k
    <2>4. bucket[k] # BoardArchive!Empty /\ BoardArchive!Page(S.urls, p) = k
      BY <1>10, <2>1 DEF k
    <2> QED
      BY <1>6, <2>1, <2>2, <2>3, <2>4
  <1>11. DOMAIN result'.state.keys = DOMAIN S.keys
    BY <1>7, <1>8
  <1> QED
    BY <1>8, <1>9, <1>10, <1>11 DEF S

\* An archive that is as it was written is taken back when the board fits.
LEMMA RoundTripHolds ==
  ASSUME SourceInv, FileInv, BoardArchive!ImportBoard
  PROVE  BoardArchive!RoundTrip'
  <1>1. source' = source /\ intact' = intact
    BY DEF BoardArchive!ImportBoard
  <1> SUFFICES ASSUME intact PROVE result'.accepted <=> source.state.bulk = "fits"
    BY <1>1 DEF BoardArchive!RoundTrip
  <1>2. archive = Packed
    BY DEF FileInv, BoardArchive!ImportBoard
  <1>3. result'.accepted <=> BoardArchive!read_zip(archive) /\ BoardArchive!validate_archive(archive)
    BY DEF BoardArchive!ImportBoard, BoardArchive!NoResult
  <1>4. source.state.bulk \in {"fits", "large", "ids"}
    BY DEF SourceInv, BoardArchive!States
  <1>5. /\ archive.version = 2 /\ archive.kind /\ archive.lineage /\ ~archive.unsafe
        /\ archive.update = archive.state /\ archive.state = source.state
        /\ archive.assets = Packing /\ archive.inventory = Packing
        /\ archive.board = "source" /\ archive.preview = source.preview
    BY <1>2 DEF Packed, BoardArchive!build_zip
  <1>6. BoardArchive!validate_v2_assets(archive)
    <2>1. DOMAIN Packing = Referred
      BY DEF Packing
    <2> QED
      BY <1>5, <2>1
         DEF BoardArchive!validate_v2_assets, BoardArchive!digest_matches, Referred, BoardArchive!References,
             BoardArchive!collect_pdf_page_keys, BoardArchive!import_pdf_page_keys
  <1>7. BoardArchive!read_zip(archive) <=> source.state.bulk # "large"
    BY <1>5 DEF BoardArchive!read_zip
  <1>8. BoardArchive!validate_archive(archive) <=> source.state.bulk # "ids"
    BY <1>5, <1>6 DEF BoardArchive!validate_archive, BoardArchive!validate_import_allocator_capacity
  <1> QED
    BY <1>3, <1>4, <1>7, <1>8

\* The archive's part of the initial states.
LEMMA ArchiveInit == Init => ArchiveInv
  <1> SUFFICES ASSUME BoardArchive!Init PROVE ArchiveInv
    BY DEF Init
  <1>1. SourceInv
    <2> DEFINE keys == BoardArchive!Behind(source.state, source.preview)
    <2>1. source \in [state : BoardArchive!States,
                      preview : {BoardArchive!NoKey, BoardArchive!Preview("source")}]
      BY DEF BoardArchive!Init
    <2>2. \/ bucket = [k \in keys |-> BoardArchive!Bytes(k)]
          \/ \E k \in keys : bucket = [i \in keys |-> IF i = k THEN BoardArchive!Empty ELSE BoardArchive!Bytes(i)]
          \/ \E k \in keys : bucket = [i \in keys \ {k} |-> BoardArchive!Bytes(i)]
      BY DEF BoardArchive!Init
    <2> HIDE DEF keys
    <2>3. /\ DOMAIN bucket \subseteq keys
          /\ \A k \in DOMAIN bucket : bucket[k] \in {BoardArchive!Empty, BoardArchive!Bytes(k)}
      BY <2>2
    <2> QED
      BY <2>1, <2>3 DEF SourceInv, keys
  <1>2. aPc = "board" /\ intact = TRUE
    BY DEF BoardArchive!Init
  <1>3. FileInv
    BY <1>2 DEF FileInv
  <1>4. ArchiveSafe
    BY <1>2 DEF ArchiveSafe, BoardArchive!RoundTrip, BoardArchive!ImportFaithful
  <1> QED
    BY <1>1, <1>3, <1>4 DEF ArchiveInv

\* Every step of the archive's part, and every other step, keeps its invariant.
LEMMA ArchiveStep ==
  ASSUME ArchiveInv, [Next]_<<part, storageVars, gcVars, previewVars, archiveVars>>
  PROVE  ArchiveInv'
  <1> USE DEF ArchiveInv
  <1>1. CASE UNCHANGED archiveVars
    <2>1. /\ source' = source /\ bucket' = bucket /\ aPc' = aPc /\ archive' = archive
          /\ intact' = intact /\ result' = result
      BY <1>1 DEF archiveVars
    <2>2. SourceInv' /\ FileInv'
      BY <2>1 DEF SourceInv, FileInv, Referred, Packed, Packing
    <2>3. ArchiveSafe'
      BY <2>1 DEF ArchiveSafe, BoardArchive!RoundTrip, BoardArchive!ImportFaithful, BoardArchive!Holds
    <2> QED
      BY <2>2, <2>3
  <1>2. ASSUME source' = source, bucket' = bucket
        PROVE  SourceInv' /\ Referred' = Referred /\ Packing' = Packing /\ Packed' = Packed
    BY <1>2 DEF SourceInv, Referred, Packing, Packed
  <1>3. ASSUME aPc' # "done"
        PROVE  ArchiveSafe'
    BY <1>3 DEF ArchiveSafe, BoardArchive!RoundTrip, BoardArchive!ImportFaithful
  <1>4. CASE BoardArchive!ExportBoard
    <2>1. /\ source' = source /\ bucket' = bucket /\ intact' = intact /\ aPc' = "file" /\ aPc = "board"
          /\ Referred \subseteq DOMAIN bucket /\ archive' = Packed
      BY <1>4 DEF BoardArchive!ExportBoard, Referred, Packed, Packing
    <2>2. FileInv'
      BY <1>2, <2>1 DEF FileInv
    <2> QED
      BY <1>2, <1>3, <2>1, <2>2
  <1>5. CASE BoardArchive!Damage
    <2>1. /\ source' = source /\ bucket' = bucket /\ intact' = FALSE /\ aPc' = "file"
          /\ aPc = "file" /\ intact
      BY <1>5 DEF BoardArchive!Damage
    <2>2. archive = Packed /\ Referred \subseteq DOMAIN bucket
      BY <2>1 DEF FileInv
    <2>3. archive'.version = 1 \/ BoardArchive!Damaged(Packed, archive')
      <3>1. CASE archive' = [archive EXCEPT !.version = 1, !.update = BoardArchive!NoState, !.inventory = <<>>]
        BY <2>2, <3>1 DEF Packed, BoardArchive!build_zip
      <3>2. CASE BoardArchive!Damaged(archive, archive')
        BY <2>2, <3>2
      <3> QED
        BY <1>5, <3>1, <3>2 DEF BoardArchive!Damage
    <2>4. FileInv'
      BY <1>2, <2>1, <2>2, <2>3 DEF FileInv
    <2> QED
      BY <1>2, <1>3, <2>1, <2>4
  <1>6. CASE BoardArchive!ImportBoard
    <2>1. source' = source /\ bucket' = bucket /\ aPc' = "done"
      BY <1>6 DEF BoardArchive!ImportBoard
    <2>2. FileInv'
      BY <2>1 DEF FileInv
    <2>3. ArchiveSafe'
      BY <1>6, ImportIsFaithful, RoundTripHolds DEF ArchiveSafe
    <2> QED
      BY <1>2, <2>1, <2>2, <2>3
  <1> QED
    BY <1>1, <1>4, <1>5, <1>6, BoardsStep DEF BoardArchive!Next

(***************************************************************************)
(* What a server exports it takes back unless the board is too large, and  *)
(* an import of version 2 that it accepts, whatever single thing happened  *)
(* to the file, is the board that was exported: exporter and importer,     *)
(* each from its own reading of the state, name the same objects, and no   *)
(* two of them get the same new key. Boards of any number of elements and  *)
(* pages.                                                                  *)
(***************************************************************************)
THEOREM ArchiveIsSafe == Spec => []ArchiveSafe
  <1>1. Init => ArchiveInv
    BY ArchiveInit
  <1>2. ArchiveInv /\ [Next]_<<part, storageVars, gcVars, previewVars, archiveVars>> => ArchiveInv'
    BY ArchiveStep
  <1>3. ArchiveInv => ArchiveSafe
    BY DEF ArchiveInv
  <1> QED
    BY <1>1, <1>2, <1>3, PTL DEF Spec
=============================================================================
