------------------------------ MODULE Accounts ------------------------------
(***************************************************************************)
(* How accounts come to be and to whom they belong: registration by a      *)
(* mailed code, accounts made by an administrator, sign-in through an OAuth *)
(* provider, adding an address to an account that has none, and deletion.  *)
(* Each handler checks first and writes later, in statements of their own: *)
(* what makes the outcome right are the UNIQUE and FOREIGN KEY constraints *)
(* and the conditions of the last statement. Refusals that change nothing  *)
(* (validation, a feature switched off, an expired or wrong code) are not  *)
(* actions. Addresses are in the normalised form the rows hold.            *)
(***************************************************************************)
EXTENDS Integers, FiniteSets

CONSTANTS
  Addresses, NoEmail,
  Identities, NoIdentity,  \* (provider, provider_user_id)
  ProviderOf,  \* identity -> "google", "yandex" or "vk"
  EmailOf,     \* identity -> the address its provider reports, or NoEmail
  Handlers,    \* requests that can be in progress together
  MaxUsers,    \* bound: accounts ever created
  MaxCodes,    \* bound: codes ever mailed
  MaxStarts,   \* bound: browser sign-ins ever started
  MaxFaults    \* bound: statements that fail

\* What the constants have to be.
AccountsAssumption ==
  /\ NoEmail \notin Addresses /\ NoIdentity \notin Identities
  /\ ProviderOf \in [Identities -> {"google", "yandex", "vk"}]
  /\ EmailOf \in [Identities -> Addresses \cup {NoEmail}]
  /\ IsFiniteSet(Handlers)
  /\ MaxUsers \in Nat /\ MaxCodes \in Nat /\ MaxStarts \in Nat /\ MaxFaults \in Nat

Users == 1..MaxUsers
Codes == 1..MaxCodes
Emails == Addresses \cup {NoEmail}

VARIABLES
  exists,    \* ids of the rows of users
  email,     \* id -> users.email, NoEmail for NULL
  made,      \* accounts created so far
  pending,   \* address -> the row of pending_registrations, or NoPending
  request,   \* id -> the row of user_email_verifications, or NoRequest
  link,      \* identity -> oauth_accounts.user_id, 0 without a row
  states,    \* identities whose browser has an OAuth state in Redis
  pc,        \* handler -> where it is
  req,       \* handler -> what it remembers
  mailed,    \* code -> the address it was mailed to
  proof,     \* history: id -> the code its address was proved with, 0 if none
  starts,    \* history: browser sign-ins started
  accepted,  \* history: callbacks whose state was accepted
  doubled,   \* history: identities whose first sign-ins overlapped
  faults     \* statements that have failed

userVars == <<exists, email, made, proof>>
oauthVars == <<link, states, starts, accepted, doubled>>
vars == <<userVars, pending, request, oauthVars, pc, req, mailed, faults>>

NoPending == [code |-> 0, verified |-> FALSE]
NoRequest == [email |-> NoEmail, code |-> 0]
NoReq == [user |-> 0, email |-> NoEmail, identity |-> NoIdentity, code |-> 0]

At == {"idle", "register", "insert", "cleanup", "take", "find", "byemail", "create",
       "link", "bymail", "native", "request", "verify"}

TypeOK ==
  /\ exists \subseteq 1..made /\ made \in 0..MaxUsers
  /\ email \in [Users -> Emails]
  /\ \A u \in Users \ exists : email[u] = NoEmail /\ request[u] = NoRequest
  /\ pending \in [Addresses -> [code : 0..MaxCodes, verified : BOOLEAN]]
  /\ request \in [Users -> [email : Emails, code : 0..MaxCodes]]
  /\ link \in [Identities -> 0..MaxUsers]
  /\ states \subseteq Identities
  /\ pc \in [Handlers -> At]
  /\ req \in [Handlers -> [user : 0..MaxUsers, email : Emails,
                           identity : Identities \cup {NoIdentity}, code : 0..MaxCodes]]
  /\ mailed \in [Codes -> Emails]
  /\ proof \in [Users -> 0..MaxCodes]
  /\ starts \in 0..MaxStarts
  /\ accepted \in Nat
  /\ doubled \subseteq Identities
  /\ faults \in 0..MaxFaults

Init ==
  /\ exists = {} /\ made = 0
  /\ email = [u \in Users |-> NoEmail]
  /\ pending = [a \in Addresses |-> NoPending]
  /\ request = [u \in Users |-> NoRequest]
  /\ link = [i \in Identities |-> 0]
  /\ states = {}
  /\ pc = [h \in Handlers |-> "idle"]
  /\ req = [h \in Handlers |-> NoReq]
  /\ mailed = [c \in Codes |-> NoEmail]
  /\ proof = [u \in Users |-> 0]
  /\ starts = 0 /\ accepted = 0
  /\ doubled = {} /\ faults = 0

-----------------------------------------------------------------------------
(* Helpers *)

Owners(a) == {u \in exists : a # NoEmail /\ email[u] = a}

Taken(a) == Owners(a) # {}

Begin(h, where, r) ==
  /\ pc[h] = "idle"
  /\ pc' = [pc EXCEPT ![h] = where]
  /\ req' = [req EXCEPT ![h] = r]

Goto(h, where) == pc' = [pc EXCEPT ![h] = where] /\ UNCHANGED req

Done(h) ==
  /\ pc' = [pc EXCEPT ![h] = "idle"]
  /\ req' = [req EXCEPT ![h] = NoReq]

Fault == faults < MaxFaults /\ faults' = faults + 1

NoFault == UNCHANGED faults

Sent == Cardinality({c \in Codes : mailed[c] # NoEmail})

\* A new code is mailed to an address.
send_mail(a) ==
  /\ Sent < MaxCodes
  /\ mailed' = [mailed EXCEPT ![Sent + 1] = a]

\* INSERT INTO users: the address is UNIQUE, NULLs do not conflict.
insert_user(a, code) ==
  /\ made < MaxUsers
  /\ ~Taken(a)
  /\ made' = made + 1
  /\ exists' = exists \cup {made + 1}
  /\ email' = [email EXCEPT ![made + 1] = a]
  /\ proof' = [proof EXCEPT ![made + 1] = code]

upsert_oauth_account(i, u) == link' = [link EXCEPT ![i] = u]

mark_pending_registration_verified(a, c) ==
  /\ pending[a].code = c
  /\ pending' = [pending EXCEPT ![a].verified = TRUE]

delete_pending_registration(a) == pending' = [pending EXCEPT ![a] = NoPending]

-----------------------------------------------------------------------------
(* Registration *)

\* post_user_register, the check.
PostRegister(h, a) ==
  /\ Begin(h, "register", [NoReq EXCEPT !.email = a])
  /\ Sent < MaxCodes
  /\ ~Taken(a)
  /\ UNCHANGED <<userVars, pending, request, oauthVars, mailed, faults>>

\* upsert_pending_registration resets what was verified; then the mail.
UpsertPending(h) ==
  /\ pc[h] = "register"
  /\ Done(h)
  /\ \/ send_mail(req[h].email) /\ NoFault
     \/ Fault /\ UNCHANGED mailed
  /\ pending' = [pending EXCEPT ![req[h].email] =
                   [code |-> IF mailed' = mailed THEN 0 ELSE Sent + 1, verified |-> FALSE]]
  /\ UNCHANGED <<userVars, request, oauthVars>>

\* post_user_register_verify: the conditional UPDATE repeats what was checked before.
RegisterVerify(a, c) ==
  /\ mailed[c] = a
  /\ mark_pending_registration_verified(a, c)
  /\ UNCHANGED <<userVars, request, oauthVars, pc, req, mailed, faults>>

\* post_user_register_complete up to the checks of the pending row.
RegisterComplete(h, a) ==
  /\ ~Taken(a)
  /\ pending[a].verified
  /\ Begin(h, "insert", [NoReq EXCEPT !.email = a, !.code = pending[a].code])
  /\ UNCHANGED <<userVars, pending, request, oauthVars, mailed, faults>>

\* Mutant of InsertRegistered: the address is not UNIQUE.
InsertRegisteredMutant(h) ==
  /\ pc[h] = "insert"
  /\ made < MaxUsers
  /\ made' = made + 1
  /\ exists' = exists \cup {made + 1}
  /\ email' = [email EXCEPT ![made + 1] = req[h].email]
  /\ proof' = [proof EXCEPT ![made + 1] = req[h].code]
  /\ Goto(h, "cleanup")
  /\ UNCHANGED <<pending, request, oauthVars, mailed, faults>>

InsertRegistered(h) ==
  /\ pc[h] = "insert"
  /\ \/ insert_user(req[h].email, req[h].code) /\ Goto(h, "cleanup")
     \/ Taken(req[h].email) /\ Done(h) /\ UNCHANGED userVars
  /\ UNCHANGED <<pending, request, oauthVars, mailed, faults>>

\* delete_pending_registration; when it fails the account stays without an answer.
DeletePending(h) ==
  /\ pc[h] = "cleanup"
  /\ Done(h)
  /\ \/ delete_pending_registration(req[h].email) /\ NoFault
     \/ Fault /\ UNCHANGED pending
  /\ UNCHANGED <<userVars, request, oauthVars, mailed>>

-----------------------------------------------------------------------------
(* Administrators *)

\* post_user: one INSERT.
PostUser(a) ==
  /\ insert_user(a, 0)
  /\ UNCHANGED <<pending, request, oauthVars, pc, req, mailed, faults>>

\* delete_user_by_id: one transaction; links and requests go by ON DELETE CASCADE.
DeleteUser(u) ==
  /\ u \in exists
  /\ exists' = exists \ {u}
  /\ email' = [email EXCEPT ![u] = NoEmail]
  /\ proof' = [proof EXCEPT ![u] = 0]
  /\ request' = [request EXCEPT ![u] = NoRequest]
  /\ link' = [i \in Identities |-> IF link[i] = u THEN 0 ELSE link[i]]
  /\ UNCHANGED <<made, pending, states, starts, accepted, doubled, pc, req, mailed, faults>>

-----------------------------------------------------------------------------
(* Browser sign-in with a provider *)

\* A state is stored for ten minutes: store_oauth_state.
store_oauth_state(i) ==
  /\ starts < MaxStarts
  /\ starts' = starts + 1
  /\ states' = states \cup {i}
  /\ UNCHANGED <<userVars, pending, request, link, accepted, doubled, pc, req, mailed, faults>>

OAuthGoogle(i) == ProviderOf[i] = "google" /\ store_oauth_state(i)

OAuthYandex(i) == ProviderOf[i] = "yandex" /\ store_oauth_state(i)

OAuthVk(i) == ProviderOf[i] = "vk" /\ store_oauth_state(i)

\* take_oauth_state: GET.
get_oauth_state(h, i) ==
  /\ i \in states
  /\ Begin(h, "take", [NoReq EXCEPT !.identity = i])
  /\ UNCHANGED <<userVars, pending, request, oauthVars, mailed, faults>>

\* Google's answer must carry an address; the others may leave it out.
OAuthGoogleCallback(h, i) ==
  ProviderOf[i] = "google" /\ EmailOf[i] # NoEmail /\ get_oauth_state(h, i)

OAuthYandexCallback(h, i) == ProviderOf[i] = "yandex" /\ get_oauth_state(h, i)

OAuthVkCallback(h, i) == ProviderOf[i] = "vk" /\ get_oauth_state(h, i)

\* Mutant of TakeState: the state is left to its expiry.
TakeStateMutant(h) ==
  /\ pc[h] = "take"
  /\ accepted' = accepted + 1
  /\ Goto(h, "find") /\ NoFault /\ UNCHANGED states
  /\ UNCHANGED <<userVars, pending, request, link, starts, doubled, mailed>>

\* take_oauth_state: DEL, whose failure is ignored; then the provider's answer.
TakeState(h) ==
  /\ pc[h] = "take"
  /\ accepted' = accepted + 1
  /\ Goto(h, "find")
  /\ \/ states' = states \ {req[h].identity} /\ NoFault
     \/ Fault /\ UNCHANGED states
  /\ UNCHANGED <<userVars, pending, request, link, starts, doubled, mailed>>

\* Another sign-in of the identity is between its lookup and its link.
Overlaps(h) ==
  \E k \in Handlers \ {h} :
    pc[k] \in {"byemail", "create", "link"} /\ req[k].identity = req[h].identity

\* Mutant of FindLinked: the link is not looked up.
FindLinkedMutant(h) ==
  /\ pc[h] = "find"
  /\ Goto(h, IF EmailOf[req[h].identity] = NoEmail THEN "create" ELSE "byemail")
  /\ UNCHANGED <<userVars, pending, request, oauthVars, mailed, faults>>

\* find_or_create_oauth_user, the link.
FindLinked(h) ==
  /\ pc[h] = "find"
  /\ LET i == req[h].identity
     IN IF link[i] # 0
          THEN /\ pc' = [pc EXCEPT ![h] = "link"]
               /\ req' = [req EXCEPT ![h].user = link[i]]
               /\ UNCHANGED doubled
          ELSE /\ Goto(h, IF EmailOf[i] = NoEmail THEN "create" ELSE "byemail")
               /\ doubled' = IF Overlaps(h) THEN doubled \cup {i} ELSE doubled
  /\ UNCHANGED <<userVars, pending, request, link, states, starts, accepted, mailed, faults>>

\* The account with the provider's address.
FindByEmail(h) ==
  /\ pc[h] = "byemail"
  /\ \/ /\ ~Taken(EmailOf[req[h].identity])
        /\ Goto(h, "create")
     \/ \E u \in Owners(EmailOf[req[h].identity]) :
          /\ pc' = [pc EXCEPT ![h] = "link"]
          /\ req' = [req EXCEPT ![h].user = u]
  /\ UNCHANGED <<userVars, pending, request, oauthVars, mailed, faults>>

\* insert_oauth_user_into_db; a taken address ends the sign-in with 500.
CreateOAuthUser(h) ==
  /\ pc[h] = "create"
  /\ LET i == req[h].identity
         a == EmailOf[i]
     IN \/ /\ insert_user(a, 0)
           /\ pc' = [pc EXCEPT ![h] = "link"]
           /\ req' = [req EXCEPT ![h].user = made + 1]
        \/ Taken(a) /\ Done(h) /\ UNCHANGED userVars
  /\ UNCHANGED <<pending, request, oauthVars, mailed, faults>>

\* Mutant of LinkAccount: no FOREIGN KEY to users.
LinkAccountMutant(h) ==
  /\ pc[h] = "link"
  /\ Done(h)
  /\ upsert_oauth_account(req[h].identity, req[h].user) /\ NoFault
  /\ UNCHANGED <<userVars, pending, request, states, starts, accepted, doubled, mailed>>

\* upsert_oauth_account: the link moves to the account that was found or made.
LinkAccount(h) ==
  /\ pc[h] = "link"
  /\ Done(h)
  /\ \/ /\ req[h].user \in exists
        /\ upsert_oauth_account(req[h].identity, req[h].user)
        /\ NoFault
     \/ req[h].user \notin exists /\ NoFault /\ UNCHANGED link
     \/ Fault /\ UNCHANGED link
  /\ UNCHANGED <<userVars, pending, request, states, starts, accepted, doubled, mailed>>

(* The native client's exchange: by address alone, no link *)

OAuthGoogleExchange(h, i) ==
  /\ ProviderOf[i] = "google" /\ EmailOf[i] # NoEmail
  /\ ~Taken(EmailOf[i])
  /\ Begin(h, "native", [NoReq EXCEPT !.identity = i])
  /\ UNCHANGED <<userVars, pending, request, oauthVars, mailed, faults>>

InsertNative(h) ==
  /\ pc[h] = "native"
  /\ Done(h)
  /\ LET a == EmailOf[req[h].identity]
     IN insert_user(a, 0) \/ (Taken(a) /\ UNCHANGED userVars)
  /\ UNCHANGED <<pending, request, oauthVars, mailed, faults>>

-----------------------------------------------------------------------------
(* Adding an address to an account that has none *)

\* request_current_user_email: authorize's row, then the check.
RequestEmail(h, u, a) ==
  /\ u \in exists /\ email[u] = NoEmail
  /\ ~Taken(a)
  /\ Sent < MaxCodes
  /\ Begin(h, "request", [NoReq EXCEPT !.user = u, !.email = a])
  /\ UNCHANGED <<userVars, pending, request, oauthVars, mailed, faults>>

\* upsert_user_email_verification: one row per user and per address; then the mail.
UpsertRequest(h) ==
  /\ pc[h] = "request"
  /\ Done(h)
  /\ LET u == req[h].user
         a == req[h].email
         free == u \in exists /\ \A v \in Users \ {u} : request[v].email # a
     IN \/ /\ free /\ send_mail(a) /\ NoFault
           /\ request' = [request EXCEPT ![u] = [email |-> a, code |-> Sent + 1]]
        \/ ~free /\ NoFault /\ UNCHANGED <<request, mailed>>
  /\ UNCHANGED <<userVars, pending, oauthVars>>

\* verify_current_user_email: authorize's row, and the code the caller presents.
VerifyEmail(h, u, a, c) ==
  /\ u \in exists /\ email[u] = NoEmail
  /\ mailed[c] # NoEmail
  /\ Begin(h, "verify", [NoReq EXCEPT !.user = u, !.email = a, !.code = c])
  /\ UNCHANGED <<userVars, pending, request, oauthVars, mailed, faults>>

\* Mutant of SetEmail: the row's address is not compared.
SetEmailMutant(h) ==
  /\ pc[h] = "verify"
  /\ Done(h)
  /\ LET u == req[h].user
         a == req[h].email
     IN /\ request[u].code = req[h].code
        /\ email[u] = NoEmail /\ ~Taken(a)
        /\ email' = [email EXCEPT ![u] = a]
        /\ proof' = [proof EXCEPT ![u] = req[h].code]
        /\ request' = [request EXCEPT ![u] = NoRequest]
  /\ UNCHANGED <<exists, made, pending, oauthVars, mailed, faults>>

\* verify_and_set_user_email: one transaction, and only over a NULL address.
SetEmail(h) ==
  /\ pc[h] = "verify"
  /\ Done(h)
  /\ LET u == req[h].user
         a == req[h].email
     IN IF /\ request[u] = [email |-> a, code |-> req[h].code]
           /\ email[u] = NoEmail /\ ~Taken(a)
          THEN /\ email' = [email EXCEPT ![u] = a]
               /\ proof' = [proof EXCEPT ![u] = req[h].code]
               /\ request' = [request EXCEPT ![u] = NoRequest]
          ELSE UNCHANGED <<email, proof, request>>
  /\ UNCHANGED <<exists, made, pending, oauthVars, mailed, faults>>

-----------------------------------------------------------------------------
HandlerStep(h) ==
  \/ UpsertPending(h) \/ InsertRegistered(h) \/ DeletePending(h)
  \/ TakeState(h) \/ FindLinked(h) \/ FindByEmail(h) \/ CreateOAuthUser(h) \/ LinkAccount(h)
  \/ InsertNative(h)
  \/ UpsertRequest(h) \/ SetEmail(h)

Next ==
  \/ \E h \in Handlers : HandlerStep(h)
  \/ \E h \in Handlers, a \in Addresses : PostRegister(h, a) \/ RegisterComplete(h, a)
  \/ \E a \in Addresses, c \in Codes : RegisterVerify(a, c)
  \/ \E a \in Addresses : PostUser(a)
  \/ \E u \in Users : DeleteUser(u)
  \/ \E i \in Identities : OAuthGoogle(i) \/ OAuthYandex(i) \/ OAuthVk(i)
  \/ \E h \in Handlers, i \in Identities :
       \/ OAuthGoogleCallback(h, i) \/ OAuthYandexCallback(h, i) \/ OAuthVkCallback(h, i)
       \/ OAuthGoogleExchange(h, i)
  \/ \E h \in Handlers, u \in Users, a \in Addresses :
       RequestEmail(h, u, a) \/ \E c \in Codes : VerifyEmail(h, u, a, c)

Spec == Init /\ [][Next]_vars

-----------------------------------------------------------------------------
(* Properties *)

(***************************************************************************)
(* However registrations, administrators, provider sign-ins and added      *)
(* addresses race, two accounts never hold one address.                    *)
(***************************************************************************)
OneAccountPerEmail == \A a \in Addresses : Cardinality(Owners(a)) <= 1

(***************************************************************************)
(* A browser sign-in follows the link, the native exchange the address of  *)
(* the same identity: both lead to the same account. A link never outlives *)
(* its account, although the account is looked up well before it is linked. *)
(***************************************************************************)
LinkFollowsEmail ==
  \A i \in Identities : link[i] # 0 =>
    /\ link[i] \in exists
    /\ EmailOf[i] # NoEmail => email[link[i]] = EmailOf[i]

(***************************************************************************)
(* An address proved with a code was proved with a code mailed to that     *)
(* very address, whatever other address the account asked for before.      *)
(***************************************************************************)
ProvedByItsMail == \A u \in exists : proof[u] # 0 => mailed[proof[u]] = email[u]

\* Accounts some sign-in in progress is about to link.
BeingLinked == {req[h].user : h \in {h \in Handlers : pc[h] = "link"}}

(***************************************************************************)
(* An account without an address can only be entered through its identity: *)
(* it has its link as soon as the sign-in that made it ends. Two first     *)
(* sign-ins of one identity that overlap, or a failed upsert, are the only *)
(* ways to lose one.                                                       *)
(***************************************************************************)
NoAccountLost ==
  \A u \in exists :
    \/ email[u] # NoEmail
    \/ u \in BeingLinked \/ \E i \in Identities : link[i] = u
    \/ faults > 0 \/ \E i \in doubled : EmailOf[i] = NoEmail

(***************************************************************************)
(* An OAuth state is good for one callback: take_oauth_state reads and     *)
(* deletes in two commands, so only callbacks that overlap can share one.  *)
(***************************************************************************)
StatesTakenOnce ==
  accepted <= (starts + faults) * Cardinality(Handlers)
=============================================================================
