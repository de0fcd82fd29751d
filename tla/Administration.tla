--------------------------- MODULE Administration ---------------------------
(***************************************************************************)
(* Administrators change the role and the status of accounts and delete    *)
(* them. authorize reads the caller's row when the request arrives; the    *)
(* statement that changes the target runs later, and in between another    *)
(* administrator may have changed the caller.                              *)
(***************************************************************************)
EXTENDS Integers, FiniteSets

CONSTANTS
  People, Nobody,
  Admins,     \* the administrators at the start
  Handlers    \* requests that can be in progress together

VARIABLES
  admin,      \* people whose role_level is 2
  active,     \* people whose status is active
  accounts,   \* people who have an account
  call,       \* handler -> the request it runs: caller, target, what
  selfDone,   \* history: an administrator demoted or deleted himself
  overtaken   \* history: a request's caller had lost his rights when it wrote

adminVars == <<admin, active, accounts, call, selfDone, overtaken>>

NoCall == [caller |-> Nobody, target |-> Nobody, what |-> "idle"]

Init ==
  /\ admin = Admins /\ active = People /\ accounts = People
  /\ call = [h \in Handlers |-> NoCall]
  /\ selfDone = FALSE /\ overtaken = FALSE

\* authorize with role 2: an active administrator.
Authorized(p) == p \in accounts \cap active \cap admin

Ask(h, p, q, what) ==
  /\ call[h] = NoCall
  /\ Authorized(p)
  /\ call' = [call EXCEPT ![h] = [caller |-> p, target |-> q, what |-> what]]
  /\ UNCHANGED <<admin, active, accounts, selfDone, overtaken>>

-----------------------------------------------------------------------------
\* Mutant of DeactivateUser: administrators may deactivate themselves.
DeactivateUserMutant(h, p, q) == Ask(h, p, q, "disable")

\* deactivate_user, and patch_user_profile with a status: not one's own account.
DeactivateUser(h, p, q) == p # q /\ Ask(h, p, q, "disable")

ActivateUser(h, p, q) == Ask(h, p, q, "enable")

\* patch_user_profile with a role_level: 1 or 2, the caller's own included.
PatchRole(h, p, q) == \E what \in {"demote", "promote"} : Ask(h, p, q, what)

DeleteUserById(h, p, q) == Ask(h, p, q, "delete")

\* The UPDATE of update_user_in_db, as far as it sets the role.
RoleAfter(what, q) ==
  CASE what = "demote" -> admin \ {q}
    [] what = "promote" /\ q \in accounts -> admin \cup {q}
    [] OTHER -> admin

\* One UPDATE or DELETE by the target's id, whoever the caller is by now.
Write(h) ==
  /\ call[h] # NoCall
  /\ call' = [call EXCEPT ![h] = NoCall]
  /\ LET p == call[h].caller
         q == call[h].target
         what == call[h].what
     IN /\ admin' = RoleAfter(what, q)
        /\ active' = CASE what = "disable" -> active \ {q}
                       [] what = "enable" /\ q \in accounts -> active \cup {q}
                       [] OTHER -> active
        /\ accounts' = IF what = "delete" THEN accounts \ {q} ELSE accounts
        /\ selfDone' = (selfDone \/ (p = q /\ what \in {"demote", "delete"}))
        /\ overtaken' = (overtaken \/ ~Authorized(p))

Next ==
  \/ \E h \in Handlers, p, q \in People :
       DeactivateUser(h, p, q) \/ ActivateUser(h, p, q) \/ PatchRole(h, p, q) \/ DeleteUserById(h, p, q)
  \/ \E h \in Handlers : Write(h)

-----------------------------------------------------------------------------
(* Properties *)

(***************************************************************************)
(* The server keeps an administrator who can sign in, unless one removes   *)
(* himself by role or deletion, which the handlers allow, or two requests  *)
(* cross: one whose caller loses his rights before it writes.              *)
(***************************************************************************)
AdministratorLeft ==
  selfDone \/ overtaken \/ \E p \in People : Authorized(p)
=============================================================================
