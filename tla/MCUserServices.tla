--------------------------- MODULE MCUserServices ---------------------------
(***************************************************************************)
(* Nine services around accounts and permissions that share no state in    *)
(* the models: a behaviour exercises one of them, whichever part names,    *)
(* and leaves the others be.                                               *)
(***************************************************************************)
EXTENDS Integers, FiniteSets, TLC

CONSTANTS
  Handlers, KeyLimit, MaxKeys, MaxFaults, MaxResetCodes, MaxPasswords,
  People, Nobody, Admins, MaxSeconds,
  TierLimit, QueueLimit, MaxRequests,
  Creator, Admin, Others, Links, InviteRoles, MaxTokens, MaxReadFaults,
  Defaults, MaxStatuses, MaxStatusFaults,
  a1, a2, g, y, v, Addresses, NoEmail, Identities, NoIdentity, MaxUsers, MaxCodes, MaxStarts

VARIABLES
  part,
  keys, keysMade, keyPc, keyReq, extra, removed, keyFaults,
  password, resetCodes, codesMade, pwPc, pwCode, used, purged, pwFaults,
  admin, active, accounts, call, selfDone, overtaken,
  second, url, objects, account, deletion, picPc, old, new, spoiled, overlapped, clashed, picFaults,
  cached, usage, queue, reqPc, seen, admitted, missed, crowded, dropped,
  role, visibility, link, invites, aReq, crossed, misread, readFaults,
  tokens, ePc, twice, embedFaults,
  statuses, inserted, sPc, at, sOverlap, statusFaults,
  exists, email, made, proof, pending, request, linked, states, starts, accepted, doubled,
  pc, req, mailed, faults

\* Google reports the first address, Yandex the second, VK none.
ProviderOf == (g :> "google") @@ (y :> "yandex") @@ (v :> "vk")
EmailOf == (g :> a1) @@ (y :> a2) @@ (v :> NoEmail)

ApiKeys == INSTANCE ApiKeys
Passwords == INSTANCE Passwords
Administration == INSTANCE Administration
ProfilePictures == INSTANCE ProfilePictures
RequestLimits == INSTANCE RequestLimits
BoardAccess == INSTANCE BoardAccess
EmbedTokens == INSTANCE EmbedTokens
ProjectStatuses == INSTANCE ProjectStatuses
Accounts == INSTANCE Accounts WITH link <- linked

ASSUME AccountsHold == Accounts!AccountsAssumption

\* What the services' constants are: finitely many requests, limits that let at
\* least one through, and people who are told apart.
ASSUME ServicesAssumption ==
  /\ IsFiniteSet(Handlers)
  /\ KeyLimit \in Nat \ {0} /\ TierLimit \in Nat \ {0} /\ QueueLimit \in Nat
  /\ MaxKeys \in Nat /\ MaxFaults \in Nat /\ MaxResetCodes \in Nat /\ MaxPasswords \in Nat
  /\ MaxSeconds \in Nat /\ MaxRequests \in Nat /\ MaxTokens \in Nat /\ MaxReadFaults \in Nat
  /\ Defaults \in Nat \ {0} /\ MaxStatuses \in Nat /\ MaxStatusFaults \in Nat
  /\ Admins \subseteq People /\ Admins # {} /\ Nobody \notin People
  /\ Creator # Admin /\ Creator \notin Others /\ Admin \notin Others

keyVars == <<keys, keysMade, keyPc, keyReq, extra, removed, keyFaults>>
pwVars == <<password, resetCodes, codesMade, pwPc, pwCode, used, purged, pwFaults>>
adminVars == <<admin, active, accounts, call, selfDone, overtaken>>
picVars == <<second, url, objects, account, deletion, picPc, old, new, spoiled, overlapped,
             clashed, picFaults>>
reqVars == <<cached, usage, queue, reqPc, seen, admitted, missed, crowded, dropped>>
accessVars == <<role, visibility, link, invites, aReq, crossed, misread, readFaults>>
embedVars == <<tokens, ePc, twice, embedFaults>>
statusVars == <<statuses, inserted, sPc, at, sOverlap, statusFaults>>
accountVars == <<exists, email, made, proof, pending, request, linked, states, starts, accepted,
                 doubled, pc, req, mailed, faults>>

\* The variables of the first five services, and those of the last three.
userVars == <<keyVars, pwVars, adminVars, picVars, reqVars>>
boardVars == <<accessVars, embedVars, statusVars>>

Init ==
  /\ part \in {"keys", "password", "admin", "picture", "limits", "access", "embed", "statuses",
               "accounts"}
  /\ ApiKeys!Init /\ Passwords!Init /\ Administration!Init /\ ProfilePictures!Init
  /\ RequestLimits!Init
  /\ BoardAccess!Init /\ EmbedTokens!Init /\ ProjectStatuses!Init /\ Accounts!Init
  /\ part # "access" => role[Creator] = "owner"

Next ==
  /\ UNCHANGED part
  /\ \/ part = "keys" /\ ApiKeys!Next /\ UNCHANGED <<pwVars, adminVars, picVars, reqVars, boardVars, accountVars>>
     \/ part = "password" /\ Passwords!Next /\ UNCHANGED <<keyVars, adminVars, picVars, reqVars, boardVars, accountVars>>
     \/ part = "admin" /\ Administration!Next /\ UNCHANGED <<keyVars, pwVars, picVars, reqVars, boardVars, accountVars>>
     \/ part = "picture" /\ ProfilePictures!Next /\ UNCHANGED <<keyVars, pwVars, adminVars, reqVars, boardVars, accountVars>>
     \/ part = "limits" /\ RequestLimits!Next /\ UNCHANGED <<keyVars, pwVars, adminVars, picVars, boardVars, accountVars>>
     \/ part = "access" /\ BoardAccess!Next /\ UNCHANGED <<userVars, embedVars, statusVars, accountVars>>
     \/ part = "embed" /\ EmbedTokens!Next /\ UNCHANGED <<userVars, accessVars, statusVars, accountVars>>
     \/ part = "statuses" /\ ProjectStatuses!Next /\ UNCHANGED <<userVars, accessVars, embedVars, accountVars>>
     \/ part = "accounts" /\ Accounts!Next /\ UNCHANGED <<userVars, boardVars>>

Spec == Init /\ [][Next]_<<part, userVars, boardVars, accountVars>>

-----------------------------------------------------------------------------
\* ApiKeys: the limit on keys holds up to the requests that overlap, and
\* rotate_apikey never leaves an account without a key that works.
KeysSafe == ApiKeys!KeysBounded /\ ApiKeys!RotationKeepsAKey

\* Passwords: a finished reset leaves no older code, and a code sets one
\* password but for overlaps and failures.
ResetsSafe == Passwords!OldCodesDead /\ Passwords!ResetCodesBounded

\* ProfilePictures: the row names a picture that is there but for clashes of keys
\* and failures, and uploads that nothing disturbs leave no other picture behind.
PicturesSafe == ProfilePictures!PictureThere /\ ProfilePictures!NoPictureLeft

\* Administration and RequestLimits: authorize decides by a row and a count it has
\* read. Unless requests cross, an administrator is left and the daily limit holds.
AuthorizeSafe == Administration!AdministratorLeft /\ RequestLimits!RequestsWithinLimit

\* BoardAccess: who can take the role of an owner away.
OwnersProtected == BoardAccess!OwnersProtected

\* BoardAccess: the copies of the access check agree.
ReadPathsAgree == BoardAccess!ReadPathsAgree

\* EmbedTokens and ProjectStatuses look first and insert later: unless requests
\* overlap, no board gets a second token and no status a position that is taken.
InsertedOnce == EmbedTokens!EmbedIdempotent /\ ProjectStatuses!PositionsDistinct

\* Accounts: an address belongs to one account and was proved by a code mailed
\* to it; a linked identity leads to the account with its address; every account
\* can be signed in to; an OAuth state is accepted once.
AccountsSafe ==
  /\ Accounts!TypeOK
  /\ Accounts!OneAccountPerEmail /\ Accounts!ProvedByItsMail
  /\ Accounts!LinkFollowsEmail /\ Accounts!NoAccountLost /\ Accounts!StatesTakenOnce

\* Requests are interchangeable.
Symmetry == Permutations(Handlers)
=============================================================================
