-------------------------- MODULE ProfilePictures --------------------------
(***************************************************************************)
(* The profile picture of one account: a URL in its row and an object in   *)
(* the bucket, kept together by the order of the steps alone. An upload    *)
(* deletes the object of the URL it has read before it has looked at the   *)
(* new file, and writes the row last. The key of an object is the id of    *)
(* the account and the second of the upload, so that uploads in one second *)
(* write the same object; here a key is that second.                       *)
(***************************************************************************)
EXTENDS Integers, FiniteSets

CONSTANTS
  Handlers,     \* uploads that can be in progress together
  MaxSeconds,   \* bound: seconds on the clock
  MaxFaults     \* bound: calls that fail

VARIABLES
  second,       \* Utc::now().timestamp()
  url,          \* the key profile_picture_url names, 0 for NULL
  objects,      \* the keys in the bucket
  account,      \* the row of the account exists
  deletion,     \* where the deletion of the account is
  picPc,        \* handler -> where it is
  old,          \* handler -> the key it has read
  new,          \* handler -> the key it has uploaded
  spoiled,      \* history: a request ended between a deletion and the row
  overlapped,   \* history: two uploads, or an upload and the deletion, overlapped
  clashed,      \* history: the key an upload has read as old is one that another,
                \* not yet at the row, has stored its picture under
  picFaults     \* calls that have failed

picVars == <<second, url, objects, account, deletion, picPc, old, new, spoiled, overlapped,
             clashed, picFaults>>

Init ==
  /\ second = 1 /\ url = 0 /\ objects = {} /\ account = TRUE /\ deletion = "none"
  /\ picPc = [h \in Handlers |-> "idle"]
  /\ old = [h \in Handlers |-> 0] /\ new = [h \in Handlers |-> 0]
  /\ spoiled = FALSE /\ overlapped = FALSE /\ clashed = FALSE /\ picFaults = 0

Goto(h, where) == picPc' = [picPc EXCEPT ![h] = where]

Done(h) ==
  /\ Goto(h, "idle")
  /\ old' = [old EXCEPT ![h] = 0] /\ new' = [new EXCEPT ![h] = 0]

Fault == picFaults < MaxFaults /\ picFaults' = picFaults + 1

Busy == {h \in Handlers : picPc[h] # "idle"}

\* delete_from_storage: a missing object is no error.
delete_from_storage(k) == objects' = objects \ {k}

\* upload_to_storage: an object that is there is replaced.
upload_to_storage(k) == objects' = objects \cup {k}

\* update_user_profile_picture_in_db: the row, if it is still there.
update_url(k) == url' = IF account THEN k ELSE url

-----------------------------------------------------------------------------
(* post_user_profilepicture *)

\* The URL in the row.
ReadUrl(h) ==
  /\ picPc[h] = "idle" /\ account
  /\ Goto(h, IF url = 0 THEN "file" ELSE "old")
  /\ old' = [old EXCEPT ![h] = url]
  /\ overlapped' = (overlapped \/ Busy # {} \/ deletion # "none")
  /\ clashed' = (clashed \/ \E i \in Handlers : picPc[i] = "row" /\ new[i] = url)
  /\ UNCHANGED <<second, url, objects, account, deletion, new, spoiled, picFaults>>

\* Mutant of DeleteOldPicture: the old picture is left behind.
DeleteOldPictureMutant(h) ==
  /\ picPc[h] = "old"
  /\ Goto(h, "file")
  /\ UNCHANGED <<second, url, objects, account, deletion, old, new, spoiled, overlapped, clashed,
                 picFaults>>

\* A failed deletion is logged and the upload goes on.
DeleteOldPicture(h) ==
  /\ picPc[h] = "old"
  /\ Goto(h, "file")
  /\ \/ delete_from_storage(old[h]) /\ UNCHANGED picFaults
     \/ Fault /\ UNCHANGED objects
  /\ UNCHANGED <<second, url, account, deletion, old, new, spoiled, overlapped, clashed>>

\* The file is missing, of a wrong type, too large or no image.
RejectFile(h) ==
  /\ picPc[h] = "file"
  /\ Done(h)
  /\ spoiled' = TRUE
  /\ UNCHANGED <<second, url, objects, account, deletion, overlapped, clashed, picFaults>>

\* Mutant of StoreFile: a failed upload is not noticed.
StoreFileMutant(h) ==
  /\ picPc[h] = "file"
  /\ upload_to_storage(second) \/ UNCHANGED objects
  /\ new' = [new EXCEPT ![h] = second]
  /\ Goto(h, "row")
  /\ clashed' = (clashed \/ \E i \in Handlers : picPc[i] = "old" /\ old[i] = second)
  /\ UNCHANGED <<second, url, account, deletion, old, spoiled, overlapped, picFaults>>

StoreFile(h) ==
  /\ picPc[h] = "file"
  /\ \/ /\ upload_to_storage(second)
        /\ new' = [new EXCEPT ![h] = second]
        /\ Goto(h, "row")
        /\ clashed' = (clashed \/ \E i \in Handlers : picPc[i] = "old" /\ old[i] = second)
        /\ UNCHANGED <<old, spoiled, picFaults>>
     \/ Fault /\ Done(h) /\ spoiled' = TRUE /\ UNCHANGED <<objects, clashed>>
  /\ UNCHANGED <<second, url, account, deletion, overlapped>>

\* The row is written last, and not while a deletion has it locked.
WriteUrl(h) ==
  /\ picPc[h] = "row" /\ deletion = "none"
  /\ Done(h)
  /\ \/ update_url(new[h]) /\ UNCHANGED <<spoiled, picFaults>>
     \/ Fault /\ spoiled' = TRUE /\ UNCHANGED url
  /\ UNCHANGED <<second, objects, account, deletion, overlapped, clashed>>

-----------------------------------------------------------------------------
(* delete_user_by_id: the row, then the object, then COMMIT *)

\* DELETE ... RETURNING profile_picture_url locks the row; others see it until
\* COMMIT.
DeleteRow ==
  /\ account /\ deletion = "none"
  /\ deletion' = IF url = 0 THEN "commit" ELSE "object"
  /\ overlapped' = (overlapped \/ Busy # {})
  /\ UNCHANGED <<second, url, objects, account, picPc, old, new, spoiled, clashed, picFaults>>

\* A failure rolls the row back.
DeletePicture ==
  /\ deletion = "object"
  /\ \/ delete_from_storage(url) /\ deletion' = "commit" /\ UNCHANGED picFaults
     \/ Fault /\ deletion' = "none" /\ UNCHANGED objects
  /\ UNCHANGED <<second, url, account, picPc, old, new, spoiled, overlapped, clashed>>

\* When COMMIT fails the row is back and the object is not.
CommitDeletion ==
  /\ deletion = "commit"
  /\ deletion' = "none"
  /\ \/ account' = FALSE /\ url' = 0 /\ UNCHANGED <<spoiled, picFaults>>
     \/ Fault /\ spoiled' = TRUE /\ UNCHANGED <<account, url>>
  /\ UNCHANGED <<second, objects, picPc, old, new, overlapped, clashed>>

-----------------------------------------------------------------------------
\* The next second.
Tick ==
  /\ second < MaxSeconds
  /\ second' = second + 1
  /\ UNCHANGED <<url, objects, account, deletion, picPc, old, new, spoiled, overlapped, clashed,
                 picFaults>>

Next ==
  \/ \E h \in Handlers :
       \/ ReadUrl(h) \/ DeleteOldPicture(h) \/ RejectFile(h) \/ StoreFile(h) \/ WriteUrl(h)
  \/ DeleteRow \/ DeletePicture \/ CommitDeletion \/ Tick

-----------------------------------------------------------------------------
(* Properties *)

(***************************************************************************)
(* The row names a picture that is in the bucket, unless a request is      *)
(* replacing that very picture or deleting the account, one has ended      *)
(* between deleting a picture and writing the row, or the second-long keys *)
(* have made an upload take the picture another has just stored for the    *)
(* old one. Uploads that overlap without such a clash do no harm.          *)
(***************************************************************************)
PictureThere ==
  \/ url = 0 \/ url \in objects
  \/ deletion = "commit" \/ \E h \in Busy : old[h] = url
  \/ spoiled \/ clashed

(***************************************************************************)
(* No picture is left in the bucket that no row names, unless requests     *)
(* overlapped, an upload ended early or a call failed.                     *)
(***************************************************************************)
NoPictureLeft ==
  Busy = {} /\ deletion = "none" /\ ~overlapped /\ ~spoiled /\ picFaults = 0
    => objects \subseteq {url}
=============================================================================
