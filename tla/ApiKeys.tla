------------------------------- MODULE ApiKeys -------------------------------
(***************************************************************************)
(* The API keys of one account. Creating a key counts, then inserts; a     *)
(* rotation inserts the new key, disables the old one and, when that does  *)
(* not work, disables the new one again. No step shares a transaction with *)
(* another, and requests of the account overlap.                           *)
(***************************************************************************)
EXTENDS Integers, FiniteSets

CONSTANTS
  Handlers,     \* requests that can be in progress together
  KeyLimit,     \* the limit of 5 in post_apikey
  MaxKeys,      \* bound: keys ever inserted
  MaxFaults     \* bound: statements that fail

Keys == 1..MaxKeys

VARIABLES
  keys,      \* id -> its row: "none", "enabled", "disabled", "expired" or "deleted"
  keysMade,  \* keys inserted so far
  keyPc,     \* handler -> where it is
  keyReq,    \* handler -> the key it replaces and the key it inserted
  extra,     \* history: rotations that retired no key that counted
  removed,   \* history: a key was deleted or has expired
  keyFaults  \* statements that have failed

keyVars == <<keys, keysMade, keyPc, keyReq, extra, removed, keyFaults>>

NoKeyReq == [old |-> 0, new |-> 0]

Init ==
  /\ keys = [k \in Keys |-> "none"] /\ keysMade = 0
  /\ keyPc = [h \in Handlers |-> "idle"]
  /\ keyReq = [h \in Handlers |-> NoKeyReq]
  /\ extra = 0 /\ removed = FALSE /\ keyFaults = 0

\* check_existing_api_key_count: neither disabled nor expired.
Enabled == {k \in Keys : keys[k] = "enabled"}

Done(h) ==
  /\ keyPc' = [keyPc EXCEPT ![h] = "idle"]
  /\ keyReq' = [keyReq EXCEPT ![h] = NoKeyReq]

Fault == keyFaults < MaxFaults /\ keyFaults' = keyFaults + 1

insert_api_key_into_db ==
  /\ keysMade < MaxKeys
  /\ keysMade' = keysMade + 1
  /\ keys' = [keys EXCEPT ![keysMade + 1] = "enabled"]

\* The UPDATE finds a row of any state but a deleted one.
disable_apikey_in_db(k) == keys' = [keys EXCEPT ![k] = "disabled"]

\* The row is removed, whatever its state.
delete_apikey_from_db(k) == keys' = [keys EXCEPT ![k] = "deleted"]

\* Not disabled; the expiry is not looked at.
fetch_existing_apikey(k) == keys[k] \in {"enabled", "expired"}

-----------------------------------------------------------------------------
\* post_apikey, the count.
PostApiKey(h) ==
  /\ keyPc[h] = "idle"
  /\ Cardinality(Enabled) < KeyLimit
  /\ keyPc' = [keyPc EXCEPT ![h] = "insert"]
  /\ UNCHANGED <<keys, keysMade, keyReq, extra, removed, keyFaults>>

InsertKey(h) ==
  /\ keyPc[h] = "insert"
  /\ insert_api_key_into_db
  /\ Done(h)
  /\ UNCHANGED <<extra, removed, keyFaults>>

\* Mutant of RotateApiKey: the old key is disabled before the new one is there.
RotateApiKeyMutant(h, k) ==
  /\ keyPc[h] = "idle"
  /\ fetch_existing_apikey(k)
  /\ disable_apikey_in_db(k)
  /\ keyPc' = [keyPc EXCEPT ![h] = "rotate"]
  /\ keyReq' = [keyReq EXCEPT ![h].old = k]
  /\ UNCHANGED <<keysMade, extra, removed, keyFaults>>

\* rotate_apikey up to the lookup of the old key.
RotateApiKey(h, k) ==
  /\ keyPc[h] = "idle"
  /\ fetch_existing_apikey(k)
  /\ keyPc' = [keyPc EXCEPT ![h] = "rotate"]
  /\ keyReq' = [keyReq EXCEPT ![h].old = k]
  /\ UNCHANGED <<keys, keysMade, extra, removed, keyFaults>>

\* "Create new key FIRST".
InsertRotated(h) ==
  /\ keyPc[h] = "rotate"
  /\ insert_api_key_into_db
  /\ keyPc' = [keyPc EXCEPT ![h] = "disable"]
  /\ keyReq' = [keyReq EXCEPT ![h].new = keysMade + 1]
  /\ UNCHANGED <<extra, removed, keyFaults>>

\* Mutant of DisableOld: an old key that is gone is taken for a success.
DisableOldMutant(h) ==
  /\ keyPc[h] = "disable"
  /\ Done(h)
  /\ IF keys[keyReq[h].old] = "deleted" THEN UNCHANGED keys ELSE disable_apikey_in_db(keyReq[h].old)
  /\ extra' = IF keys[keyReq[h].old] \in {"disabled", "expired"} THEN extra + 1 ELSE extra
  /\ UNCHANGED <<keysMade, removed, keyFaults>>

\* An error, or no row: roll back by hand. A key another rotation has disabled is a row.
DisableOld(h) ==
  /\ keyPc[h] = "disable"
  /\ LET old == keyReq[h].old
     IN \/ /\ keys[old] # "deleted"
           /\ disable_apikey_in_db(old)
           /\ extra' = IF keys[old] = "enabled" THEN extra ELSE extra + 1
           /\ Done(h)
           /\ UNCHANGED keyFaults
        \/ /\ keys[old] = "deleted"
           /\ keyPc' = [keyPc EXCEPT ![h] = "rollback"]
           /\ UNCHANGED <<keys, keyReq, extra, keyFaults>>
        \/ /\ Fault
           /\ keyPc' = [keyPc EXCEPT ![h] = "rollback"]
           /\ UNCHANGED <<keys, keyReq, extra>>
  /\ UNCHANGED <<keysMade, removed>>

\* Disable the new key; a failure is ignored.
RollBack(h) ==
  /\ keyPc[h] = "rollback"
  /\ Done(h)
  /\ LET new == keyReq[h].new
     IN \/ /\ IF keys[new] = "deleted" THEN UNCHANGED keys ELSE disable_apikey_in_db(new)
           /\ extra' = IF keys[new] = "enabled" THEN extra ELSE extra + 1
           /\ UNCHANGED keyFaults
        \/ Fault /\ UNCHANGED <<keys, extra>>
  /\ UNCHANGED <<keysMade, removed>>

\* delete_apikey_by_id.
DeleteApiKey(k) ==
  /\ keys[k] \notin {"none", "deleted"}
  /\ delete_apikey_from_db(k)
  /\ removed' = TRUE
  /\ UNCHANGED <<keysMade, keyPc, keyReq, extra, keyFaults>>

\* The expiration date passes.
KeyExpires(k) ==
  /\ keys[k] = "enabled"
  /\ keys' = [keys EXCEPT ![k] = "expired"]
  /\ removed' = TRUE
  /\ UNCHANGED <<keysMade, keyPc, keyReq, extra, keyFaults>>

Next ==
  \/ \E h \in Handlers :
       \/ PostApiKey(h) \/ InsertKey(h) \/ InsertRotated(h) \/ DisableOld(h) \/ RollBack(h)
       \/ \E k \in Keys : RotateApiKey(h, k)
  \/ \E k \in Keys : DeleteApiKey(k) \/ KeyExpires(k)

-----------------------------------------------------------------------------
(* Properties *)

\* Rotations that have inserted a key and not yet retired one.
Rotating == {h \in Handlers : keyPc[h] \in {"disable", "rollback"}}

(***************************************************************************)
(* The limit on keys holds up to the overlap: the keys that work are no    *)
(* more than the limit, one for each other request in progress, one for    *)
(* each rotation that has yet to retire its key, one for each rotation     *)
(* that retired or took back a key that no longer counted, and one for     *)
(* each rollback that failed.                                              *)
(***************************************************************************)
KeysBounded ==
  Cardinality(Enabled) <=
    KeyLimit + Cardinality(Handlers) - 1 + Cardinality(Rotating) + extra + keyFaults

(***************************************************************************)
(* Rotations alone never leave the account without a key that works, even  *)
(* when they overlap, replace each other's keys and fail halfway.          *)
(***************************************************************************)
RotationKeepsAKey == keysMade > 0 /\ ~removed => Enabled # {}
=============================================================================
