---------------------------- MODULE BoardAccess ----------------------------
(***************************************************************************)
(* Who may do what on one board. The creator is named in the board's row   *)
(* and, by a statement of its own, among the members; other people come    *)
(* in by an owner, by an invite link, by the board's visibility or by an   *)
(* embed token. Every handler checks first and writes later, and the read  *)
(* paths each have a check of their own.                                   *)
(***************************************************************************)
EXTENDS Integers, FiniteSets

CONSTANTS
  Handlers,       \* requests that can be in progress together
  Creator, Admin, \* the board's owner_id, and somebody with role_level 2
  Others,         \* everybody else
  Links,          \* bound: values of link_access that are tried
  InviteRoles,    \* bound: roles asked for in invite links
  MaxReadFaults   \* bound: reads that fail

VARIABLES
  role,        \* board_members: user -> role
  visibility,  \* boards.visibility
  link,        \* boards.link_access
  invites,     \* the roles there are invite links for
  aReq,        \* handler -> the request it has let in and not yet carried out
  crossed,     \* history: handlers whose target's role has changed since the check
  misread,     \* history: handlers that took a failed read of the target's role for none
  readFaults   \* reads that have failed

accessVars == <<role, visibility, link, invites, aReq, crossed, misread, readFaults>>

Users == {Creator, Admin} \cup Others
Roles == {"viewer", "editor", "owner"}

NoAccessReq == [kind |-> "none", who |-> Admin, target |-> Admin, value |-> "none"]

\* The creator's row among the members may be missing: create_board ignores the error.
Init ==
  /\ \E r \in {"none", "owner"} : role = [u \in Users |-> IF u = Creator THEN r ELSE "none"]
  /\ visibility = "private" /\ link = "none"
  /\ invites = {}
  /\ aReq = [h \in Handlers |-> NoAccessReq]
  /\ crossed = {} /\ misread = {}
  /\ readFaults = 0

-----------------------------------------------------------------------------
(* The checks of the handlers that write *)

\* Members, and so owners, by board_members alone.
Manages(u) == u = Admin \/ role[u] = "owner"

\* "Only the board creator can change the role of another owner": the rule for
\* anybody who is not an administrator.
MayTouch(u, target) == u = Admin \/ role[target] # "owner" \/ u = Creator

\* Mutant of remove_board_member: any owner removes any other.
remove_board_memberMutant(r) ==
  IF r.target = r.who THEN role[r.who] \in {"viewer", "editor"} ELSE Manages(r.who)

\* remove_board_member_handler: oneself unless an owner, others as an owner.
remove_board_member(r) ==
  IF r.target = r.who THEN role[r.who] \in {"viewer", "editor"}
  ELSE Manages(r.who) /\ MayTouch(r.who, r.target)

\* add_board_member_handler.
add_board_member(r) == r.value \in Roles /\ Manages(r.who) /\ MayTouch(r.who, r.target)

\* create_invite_link_handler: links make viewers and editors.
create_invite_link(r) == Manages(r.who) /\ r.value \in {"viewer", "editor"}

\* delete_invite_link_handler.
delete_invite_link(r) == Manages(r.who)

\* accept_invite_handler: whoever has the token of a link, which never expires.
accept_invite(r) == r.target = r.who /\ r.value \in invites

Allowed(r) ==
  CASE r.kind = "add" -> add_board_member(r)
    [] r.kind = "remove" -> remove_board_member(r)
    [] r.kind = "invite" -> create_invite_link(r)
    [] r.kind = "uninvite" -> delete_invite_link(r)
    [] r.kind = "accept" -> accept_invite(r)

\* The requests people can make. An administrator's own membership gives him nothing
\* he does not have, and is left out.
Members == {Creator} \cup Others

Requests ==
       [kind : {"add"}, who : Users, target : Members, value : Roles]
  \cup [kind : {"remove"}, who : Users, target : Members, value : {"none"}]
  \cup {[kind |-> k, who |-> u, target |-> u, value |-> v] :
          k \in {"invite", "uninvite"}, u \in Users, v \in InviteRoles}
  \cup {[kind |-> "accept", who |-> u, target |-> u, value |-> v] :
          u \in Members, v \in InviteRoles}

\* What is left of a request once it is let in: who made it matters for members only.
Pending(r) ==
  IF r.kind \in {"add", "remove", "accept"} THEN r ELSE [r EXCEPT !.who = Admin, !.target = Admin]

-----------------------------------------------------------------------------
(* Handlers *)

\* The request is let in.
Check(h, r) ==
  /\ aReq[h] = NoAccessReq
  /\ Allowed(r)
  /\ aReq' = [aReq EXCEPT ![h] = Pending(r)]
  /\ UNCHANGED <<role, visibility, link, invites, crossed, misread, readFaults>>

\* get_member_role(...).unwrap_or(None): a failed read of the target's role lets pass.
CheckMisread(h, r) ==
  /\ aReq[h] = NoAccessReq
  /\ readFaults < MaxReadFaults /\ readFaults' = readFaults + 1
  /\ r.kind \in {"add", "remove"} /\ r.who # r.target /\ Manages(r.who)
  /\ aReq' = [aReq EXCEPT ![h] = Pending(r)]
  /\ misread' = misread \cup {h}
  /\ UNCHANGED <<role, visibility, link, invites, crossed>>

\* add_board_member and remove_board_member: the row of the target afterwards.
MemberRows(r) ==
  CASE r.kind \in {"add", "accept"} -> [role EXCEPT ![r.target] = r.value]
    [] r.kind = "remove" -> [role EXCEPT ![r.target] = "none"]
    [] OTHER -> role

\* create_invite_link and delete_invite_link.
InviteRows(r) ==
  CASE r.kind = "invite" -> invites \cup {r.value}
    [] r.kind = "uninvite" -> invites \ {r.value}
    [] OTHER -> invites

\* The statement of the request.
Apply(h) ==
  LET r == aReq[h]
      changed == {g \in Handlers \ {h} : aReq[g].kind # "none" /\ aReq[g].target = r.target}
  IN /\ r.kind # "none"
     /\ aReq' = [aReq EXCEPT ![h] = NoAccessReq]
     /\ role' = MemberRows(r) /\ invites' = InviteRows(r)
     /\ crossed' = (IF role' # role THEN crossed \cup changed ELSE crossed) \ {h}
     /\ misread' = misread \ {h}
     /\ UNCHANGED <<visibility, link, readFaults>>

\* update_board: the creator or an administrator, who both stay what they are, so
\* that the check cannot be out of date when the row is written.
UpdateBoard ==
  /\ \/ visibility' \in {"public", "private"} /\ UNCHANGED link
     \/ link' \in Links /\ UNCHANGED visibility
  /\ UNCHANGED <<role, invites, aReq, crossed, misread, readFaults>>

Next ==
  \/ UpdateBoard
  \/ \E h \in Handlers :
       \/ \E r \in Requests : Check(h, r) \/ CheckMisread(h, r)
       \/ Apply(h)

-----------------------------------------------------------------------------
(* The read paths *)

Open == visibility = "public" \/ link # "none"

\* The mutant leaves out who is let in by the link.
ensure_board_accessMutant(u) == visibility = "public" \/ u = Admin \/ role[u] # "none"

\* ensure_board_access: events, updates, bases and snapshots over HTTP.
ensure_board_access(u) == Open \/ u = Admin \/ role[u] # "none"

\* get_board_state.
get_board_state(u) == Open \/ u = Admin \/ role[u] # "none"

\* presign_board_file.
presign_board_file(u) == Open \/ u = Admin \/ role[u] # "none" \/ u = Creator

\* get_board_by_id and ws_board: the role somebody has, "none" for no access.
effective_role(u) ==
  IF u \in {Admin, Creator} THEN "owner"
  ELSE IF role[u] # "none" THEN role[u]
  ELSE IF link # "none" THEN link
  ELSE IF visibility = "public" THEN "viewer" ELSE "none"

\* list_boards_for_user and list_all_boards: the boards somebody is shown.
list_boards_for_user(u) == Open \/ u \in {Admin, Creator} \/ role[u] # "none"

\* export_board: the archive, which is not for people who only have the link.
export_board(u) == u \in {Admin, Creator} \/ role[u] # "none"

\* export_board_image: pictures, by a copy of the same check.
export_board_image(u) == u \in {Admin, Creator} \/ role[u] # "none"

\* list_board_members.
list_board_members(u) == u = Admin \/ role[u] # "none"

\* list_invite_links_handler.
list_invite_links(u) == Manages(u)

\* get_board_sessions: a public board without a link is not open here.
get_board_sessions(u) == link # "none" \/ u = Admin \/ role[u] # "none"

\* ensure_board_edit_access, and the copies of it in the other uploads.
ensure_board_edit_access(u) == u \in {Admin, Creator} \/ role[u] \in {"owner", "editor"}

-----------------------------------------------------------------------------
(* Properties *)

(***************************************************************************)
(* An owner loses the role only by the creator, an administrator or his    *)
(* own doing, unless he became an owner after the request was let in or    *)
(* the read of his role failed.                                            *)
(***************************************************************************)
OwnersProtected ==
  [][\A u \in Users, h \in Handlers :
       role[u] = "owner" /\ role'[u] # "owner" /\ aReq[h] # aReq'[h] =>
         aReq[h].who \in {Creator, Admin, u} \/ h \in crossed \cup misread]_accessVars

(***************************************************************************)
(* The read paths agree: somebody who gets the board, or a socket to it,   *)
(* also gets its state, its updates and its files; only the creator whose  *)
(* membership is missing gets a socket and no state. Whoever sees the      *)
(* members or who is there also gets the state, whoever may upload or sees *)
(* the invite links has been told that he may edit, and the list of boards *)
(* shows exactly those that can be opened.                                 *)
(***************************************************************************)
ReadPathsAgree ==
  \A u \in Users :
    /\ effective_role(u) # "none" =>
         \/ get_board_state(u) /\ ensure_board_access(u) /\ presign_board_file(u)
         \/ u = Creator /\ role[u] = "none"
    /\ list_board_members(u) \/ get_board_sessions(u) => get_board_state(u)
    /\ get_board_state(u) \/ export_board(u) \/ export_board_image(u) => effective_role(u) # "none"
    /\ list_boards_for_user(u) <=> effective_role(u) # "none"
    /\ ensure_board_edit_access(u) \/ list_invite_links(u) => effective_role(u) \in {"owner", "editor"}
=============================================================================
