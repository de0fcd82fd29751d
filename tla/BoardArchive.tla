---------------------------- MODULE BoardArchive ----------------------------
(***************************************************************************)
(* The .nezumo archive: export_board packs a board and everything it       *)
(* refers to, import_board checks an archive and rebuilds the board under  *)
(* an id of its own. Exporter and importer each compute for themselves     *)
(* which objects a board refers to, and between them the archive is a file *)
(* on somebody's disk. A key names a board, the directory below it and a   *)
(* number; a digest is as good as the bytes it is made of.                 *)
(***************************************************************************)
EXTENDS Integers, FiniteSets, Sequences, Functions, SequencesExt

CONSTANTS
  Elements,   \* media elements of the board
  MaxPages    \* bound: pages of its PDF

VARIABLES
  source,     \* the board: its state and its preview key
  bucket,     \* the objects its references name: key -> bytes
  reader,     \* who asks for the export
  aPc,        \* how far the archive has come
  archive,    \* the file
  intact,     \* the file is as it was written
  result      \* what the import has made of it

archiveVars == <<source, bucket, reader, aPc, archive, intact, result>>

MediaKey(b) == [board |-> b, dir |-> "media", n |-> 0]
Original(b) == [board |-> b, dir |-> "pdf", n |-> 0]
Page(b, p) == [board |-> b, dir |-> "pdf", n |-> p + 1]
Preview(b) == [board |-> b, dir |-> "preview", n |-> 0]
Stray == [board |-> "source", dir |-> "stray", n |-> 0]
NoKey == [board |-> "", dir |-> "", n |-> 0]

Empty == [of |-> NoKey, kind |-> "empty"]
Bytes(k) == [of |-> k, kind |-> "data"]
Junk(k) == [of |-> k, kind |-> "junk"]

\* A state: what its elements name, the pages of its document, the board in the
\* pages' URLs, and whether it is larger than an import takes.
States ==
  [keys : UNION {[E -> {MediaKey("source"), MediaKey("other"), Original("source")}] : E \in SUBSET Elements},
   pages : 0..MaxPages, urls : {"source", "other"}, bulk : {"fits", "large", "ids"}]
\* A board with nothing on it.
Bare == [state |-> [keys |-> <<>>, pages |-> 0, urls |-> "source", bulk |-> "fits"], preview |-> NoKey]
NoState == [keys |-> <<>>, pages |-> 0, urls |-> "", bulk |-> ""]

NoArchive == [version |-> 0, kind |-> FALSE, lineage |-> FALSE, state |-> NoState, update |-> NoState,
              inventory |-> <<>>, assets |-> <<>>, unsafe |-> FALSE, board |-> "", preview |-> NoKey]
NoResult == [accepted |-> FALSE, state |-> NoState, objects |-> <<>>, preview |-> NoKey]

\* collect_object_keys: every *object_key in the state.
collect_object_keys(st) == Range(st.keys)

\* collect_pdf_page_keys of export.rs, by the id of the board that is exported.
collect_pdf_page_keys(st, b) == {Page(b, p) : p \in 0..(st.pages - 1)}

\* The objects a board refers to, its preview included.
References(st, b, preview) ==
  collect_object_keys(st) \cup collect_pdf_page_keys(st, b) \cup ({preview} \ {NoKey})

\* What is really behind the references: a PDF's pages are where its URLs say.
Behind(st, preview) == References(st, st.urls, preview)

Init ==
  /\ source \in [state : States, preview : {NoKey, Preview("source")}]
  /\ LET keys == Behind(source.state, source.preview)
     IN \/ bucket = [k \in keys |-> Bytes(k)]
        \/ \E k \in keys : bucket = [i \in keys |-> IF i = k THEN Empty ELSE Bytes(i)]
        \/ \E k \in keys : bucket = [i \in keys \ {k} |-> Bytes(i)]
  /\ reader \in {"owner", "member", "stranger"}
  /\ reader # "owner" => DOMAIN bucket = {}
  /\ aPc = "board" /\ archive = NoArchive /\ intact = TRUE /\ result = NoResult

-----------------------------------------------------------------------------
(* Export *)

\* The manifest and build_zip: everything once, the assets with their digests.
build_zip(st, assets, preview) ==
  [version |-> 2, kind |-> TRUE, lineage |-> TRUE, state |-> st, update |-> st, inventory |-> assets,
   assets |-> assets, unsafe |-> FALSE, board |-> "source", preview |-> preview]

\* export_board: the owner, an admin or a member; every asset has to be there.
ExportBoard ==
  /\ aPc = "board"
  /\ reader # "stranger"
  /\ LET keys == References(source.state, "source", source.preview)
     IN /\ keys \subseteq DOMAIN bucket
        /\ archive' = build_zip(source.state, [k \in keys |-> bucket[k]], source.preview)
  /\ aPc' = "file"
  /\ UNCHANGED <<source, bucket, reader, intact, result>>

-----------------------------------------------------------------------------
(* The file on a disk *)

\* One entry of the archive, or one field of its manifest, is not what it was.
Damaged(a, b) ==
  \/ \E v \in {1, 3} : b = [a EXCEPT !.version = v]
  \/ b = [a EXCEPT !.kind = FALSE]
  \/ b = [a EXCEPT !.lineage = FALSE]
  \/ \E e \in DOMAIN a.state.keys : b = [a EXCEPT !.state.keys = Restrict(@, DOMAIN @ \ {e})]
  \/ a.state.pages > 0 /\ b = [a EXCEPT !.state.pages = @ - 1]
  \/ b = [a EXCEPT !.update = NoState]
  \/ \E k \in DOMAIN a.inventory :
       \/ b = [a EXCEPT !.inventory = Restrict(@, DOMAIN @ \ {k})]
       \/ b = [a EXCEPT !.inventory[k] = Junk(k)]
  \/ \E k \in DOMAIN a.assets :
       \/ b = [a EXCEPT !.assets = Restrict(@, DOMAIN @ \ {k})]
       \/ b = [a EXCEPT !.assets[k] = Junk(k)]
  \/ b = [a EXCEPT !.assets = [k \in DOMAIN @ \cup {Stray} |-> IF k = Stray THEN Junk(k) ELSE @[k]]]
  \/ b = [a EXCEPT !.unsafe = TRUE]
  \/ b = [a EXCEPT !.board = "other"]
  \/ \E k \in {NoKey, Preview("source"), MediaKey("source")} : b = [a EXCEPT !.preview = k]

\* A copy that went wrong, or the archive of an older server: no binary state, no inventory.
Damage ==
  /\ aPc = "file" /\ intact
  /\ \/ archive' = [archive EXCEPT !.version = 1, !.update = NoState, !.inventory = <<>>]
     \/ Damaged(archive, archive')
  /\ intact' = FALSE
  /\ UNCHANGED <<source, bucket, reader, aPc, result>>

-----------------------------------------------------------------------------
(* Import *)

\* read_zip: bounded entries with safe names, each once.
read_zip(a) == a.state.bulk # "large" /\ ~a.unsafe

\* validate_import_allocator_capacity.
validate_import_allocator_capacity(st) == st.bulk # "ids"

\* Mutant of import_pdf_page_keys: pages counted from one.
import_pdf_page_keysMutant(st, b) == {Page(b, p) : p \in 1..st.pages}

\* collect_pdf_page_keys of import.rs, by the id the manifest gives.
import_pdf_page_keys(st, b) == {Page(b, p) : p \in 0..(st.pages - 1)}

\* Mutant of digest_matches: an asset of the declared name will do.
digest_matchesMutant(a, k) == TRUE

\* digest_matches, and the declared size.
digest_matches(a, k) == a.inventory[k] = a.assets[k]

\* validate_v2_assets: the inventory, the references and the entries are one set.
validate_v2_assets(a) ==
  LET referenced == collect_object_keys(a.state) \cup import_pdf_page_keys(a.state, a.board)
                      \cup ({a.preview} \ {NoKey})
  IN /\ referenced = DOMAIN a.inventory
     /\ DOMAIN a.assets = DOMAIN a.inventory
     /\ \A k \in DOMAIN a.assets : digest_matches(a, k)

\* validate_archive: version 2 is bound to its binary state, version 1 has none.
validate_archive(a) ==
  /\ a.version \in {1, 2} /\ a.kind
  /\ validate_import_allocator_capacity(a.state)
  /\ IF a.version = 1 THEN a.update = NoState
     ELSE a.lineage /\ a.update = a.state /\ validate_v2_assets(a)

\* The new key of an asset: fixed paths are kept, other media get one at random.
NewKey(a, k) ==
  IF k = a.preview THEN Preview("new")
  ELSE IF k.board = a.board /\ k.dir = "pdf" THEN [k EXCEPT !.board = "new"]
  ELSE [board |-> "new", dir |-> "media",
        n |-> CHOOSE i \in DOMAIN SetToSeq(DOMAIN a.assets) : SetToSeq(DOMAIN a.assets)[i] = k]

\* The key map: empty assets are passed over.
key_map(a) == [k \in {k \in DOMAIN a.assets : a.assets[k] # Empty} |-> NewKey(a, k)]

\* rewrite_object_keys: what is not in the map stays.
rewrite_object_keys(st, map) ==
  [e \in DOMAIN st.keys |-> IF st.keys[e] \in DOMAIN map THEN map[st.keys[e]] ELSE st.keys[e]]

\* rewrite_pdf_urls: the old board's id inside the pages' URLs.
rewrite_pdf_urls(st, old) == IF st.urls = old THEN "new" ELSE st.urls

\* import_board, as far as the archive is concerned; its other steps are in BoardStorage.
ImportBoard ==
  /\ aPc = "file"
  /\ aPc' = "done"
  /\ LET map == key_map(archive)
     IN result' = IF ~(read_zip(archive) /\ validate_archive(archive)) THEN NoResult
                  ELSE [accepted |-> TRUE,
                        state |-> [archive.state EXCEPT !.keys = rewrite_object_keys(archive.state, map),
                                                        !.urls = rewrite_pdf_urls(archive.state, archive.board)],
                        objects |-> [k \in Range(map) |-> archive.assets[CHOOSE i \in DOMAIN map : map[i] = k]],
                        preview |-> IF archive.preview \in DOMAIN map THEN map[archive.preview] ELSE NoKey]
  /\ UNCHANGED <<source, bucket, reader, archive, intact>>

Next == ExportBoard \/ Damage \/ ImportBoard

-----------------------------------------------------------------------------
(* Properties *)

(***************************************************************************)
(* What one server exports another takes back, unless the board is larger  *)
(* than an import may be or its entity ids leave the allocator no room:    *)
(* the importer finds the same references as the exporter did.             *)
(***************************************************************************)
RoundTrip == aPc = "done" /\ intact => (result.accepted <=> source.state.bulk = "fits")

\* The object that an import has put behind key k holds these bytes.
Holds(k, bytes) == k \in DOMAIN result.objects /\ result.objects[k] = bytes

(***************************************************************************)
(* An import of version 2 that is accepted, whatever single thing happened *)
(* to the file, is the board that was exported: every element and every    *)
(* page names an object below the new board that holds what the old one    *)
(* held. Empty objects are the exception: they are not stored again, and   *)
(* an element keeps the old board's key.                                   *)
(***************************************************************************)
ImportFaithful ==
  aPc = "done" /\ result.accepted /\ archive.version = 2 =>
    /\ DOMAIN result.state.keys = DOMAIN source.state.keys
    /\ \A e \in DOMAIN source.state.keys :
         bucket[source.state.keys[e]] # Empty => Holds(result.state.keys[e], bucket[source.state.keys[e]])
    /\ result.state.pages = source.state.pages
    /\ \A p \in 0..(source.state.pages - 1) :
         LET bytes == bucket[Page(source.state.urls, p)]
         IN bytes # Empty => Holds(Page(result.state.urls, p), bytes)
=============================================================================
