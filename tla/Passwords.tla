------------------------------ MODULE Passwords ------------------------------
(***************************************************************************)
(* Password reset by a mailed code. Any number of codes may be outstanding; *)
(* the newest is accepted, and a reset updates the password and deletes all *)
(* codes in two statements. change_password overwrites the same column from *)
(* a request that checked the password earlier.                            *)
(***************************************************************************)
EXTENDS Integers, FiniteSets

CONSTANTS
  Handlers,      \* requests that can be in progress together
  MaxResetCodes, \* bound: codes ever mailed
  MaxPasswords,  \* bound: passwords ever set
  MaxFaults      \* bound: statements that fail

ResetCodes == 1..MaxResetCodes

VARIABLES
  password,    \* the password in force, numbered in the order they are set
  resetCodes,  \* the codes that are stored and have not expired
  codesMade,   \* codes mailed so far
  pwPc,        \* handler -> where it is
  pwCode,      \* handler -> the code it was given, 0 for change_password
  used,        \* history: code -> passwords it has set
  purged,      \* history: the newest code when the codes were last deleted
  pwFaults     \* statements that have failed

pwVars == <<password, resetCodes, codesMade, pwPc, pwCode, used, purged, pwFaults>>

Init ==
  /\ password = 1 /\ resetCodes = {} /\ codesMade = 0
  /\ pwPc = [h \in Handlers |-> "idle"]
  /\ pwCode = [h \in Handlers |-> 0]
  /\ used = [c \in ResetCodes |-> 0]
  /\ purged = 0 /\ pwFaults = 0

Done(h) ==
  /\ pwPc' = [pwPc EXCEPT ![h] = "idle"]
  /\ pwCode' = [pwCode EXCEPT ![h] = 0]

Goto(h, where) == pwPc' = [pwPc EXCEPT ![h] = where] /\ UNCHANGED pwCode

\* fetch_current_password_reset_code_from_db: the newest that has not expired.
Current(c) == c \in resetCodes /\ \A d \in resetCodes : d <= c

\* update_user_password_in_db.
update_user_password == password < MaxPasswords /\ password' = password + 1

\* delete_all_password_reset_codes_for_user.
delete_all_codes == resetCodes' = {} /\ purged' = codesMade

-----------------------------------------------------------------------------
\* post_user_password_reset.
RequestReset ==
  /\ codesMade < MaxResetCodes
  /\ codesMade' = codesMade + 1
  /\ resetCodes' = resetCodes \cup {codesMade + 1}
  /\ UNCHANGED <<password, pwPc, pwCode, used, purged, pwFaults>>

ResetCodeExpires(c) ==
  /\ c \in resetCodes
  /\ resetCodes' = resetCodes \ {c}
  /\ UNCHANGED <<password, codesMade, pwPc, pwCode, used, purged, pwFaults>>

\* post_user_password_reset_verify, the check.
CheckResetCode(h, c) ==
  /\ pwPc[h] = "idle"
  /\ Current(c)
  /\ pwPc' = [pwPc EXCEPT ![h] = "reset"]
  /\ pwCode' = [pwCode EXCEPT ![h] = c]
  /\ UNCHANGED <<password, resetCodes, codesMade, used, purged, pwFaults>>

ResetPassword(h) ==
  /\ pwPc[h] = "reset"
  /\ update_user_password
  /\ used' = [used EXCEPT ![pwCode[h]] = @ + 1]
  /\ Goto(h, "purge")
  /\ UNCHANGED <<resetCodes, codesMade, purged, pwFaults>>

\* Mutant of PurgeCodes: only the code that was used is deleted.
PurgeCodesMutant(h) ==
  /\ pwPc[h] = "purge"
  /\ Done(h)
  /\ resetCodes' = resetCodes \ {pwCode[h]} /\ purged' = codesMade
  /\ UNCHANGED <<password, codesMade, used, pwFaults>>

\* Mutant of PurgeCodes: the codes stay until they expire.
KeepCodesMutant(h) ==
  /\ pwPc[h] = "purge"
  /\ Done(h)
  /\ UNCHANGED <<password, resetCodes, codesMade, used, purged, pwFaults>>

\* After a failure the codes stay.
PurgeCodes(h) ==
  /\ pwPc[h] = "purge"
  /\ Done(h)
  /\ \/ delete_all_codes /\ UNCHANGED pwFaults
     \/ /\ pwFaults < MaxFaults /\ pwFaults' = pwFaults + 1
        /\ UNCHANGED <<resetCodes, purged>>
  /\ UNCHANGED <<password, codesMade, used>>

\* change_password: the current password is checked against authorize's row.
ChangePassword(h) ==
  /\ pwPc[h] = "idle"
  /\ Goto(h, "change")
  /\ UNCHANGED <<password, resetCodes, codesMade, used, purged, pwFaults>>

WriteChanged(h) ==
  /\ pwPc[h] = "change"
  /\ update_user_password
  /\ Done(h)
  /\ UNCHANGED <<resetCodes, codesMade, used, purged, pwFaults>>

Next ==
  \/ RequestReset
  \/ \E c \in ResetCodes : ResetCodeExpires(c) \/ \E h \in Handlers : CheckResetCode(h, c)
  \/ \E h \in Handlers :
       ResetPassword(h) \/ PurgeCodes(h) \/ ChangePassword(h) \/ WriteChanged(h)

-----------------------------------------------------------------------------
(* Properties *)

(***************************************************************************)
(* A finished reset settles the matter: no code mailed before it is left   *)
(* to be accepted, not even an older one that was never used.              *)
(***************************************************************************)
OldCodesDead == \A c \in resetCodes : c > purged

(***************************************************************************)
(* A code sets one password, and one more only for each request that       *)
(* passed the check before the codes were deleted or each failed deletion. *)
(***************************************************************************)
ResetCodesBounded ==
  \A c \in ResetCodes : used[c] <= Cardinality(Handlers) + pwFaults
=============================================================================
