---------------------------- MODULE EmbedTokens ----------------------------
(***************************************************************************)
(* The embed tokens of one board, which let whoever holds one view it.     *)
(* Creating one looks for a token first and inserts later, with nothing in *)
(* the table to keep a second one out; revoking deletes all there are.     *)
(***************************************************************************)
EXTENDS Integers, FiniteSets

CONSTANTS
  Handlers,       \* requests that can be in progress together
  MaxTokens,      \* bound: tokens ever created
  MaxReadFaults   \* bound: reads that fail

VARIABLES
  tokens,      \* tokens created so far -> valid
  ePc,         \* handler -> where it is
  twice,       \* history: two creations overlapped, or a look for a token failed
  embedFaults  \* reads that have failed

embedVars == <<tokens, ePc, twice, embedFaults>>

Init ==
  /\ tokens = [t \in {} |-> TRUE]
  /\ ePc = [h \in Handlers |-> "idle"]
  /\ twice = FALSE /\ embedFaults = 0

Made == Cardinality(DOMAIN tokens)
Valid == {t \in DOMAIN tokens : tokens[t]}

\* Mutant of latest_embed_token: the tokens there are go unnoticed.
latest_embed_tokenMutant == FALSE

\* latest_embed_token: embedding is on.
latest_embed_token == Valid # {}

\* create_embed_token_handler, for an owner: an existing token is handed out again;
\* a failed look for one counts as none.
CreateToken(h) ==
  /\ ePc[h] = "idle"
  /\ \/ ~latest_embed_token /\ UNCHANGED embedFaults
     \/ embedFaults < MaxReadFaults /\ embedFaults' = embedFaults + 1
  /\ ePc' = [ePc EXCEPT ![h] = "insert"]
  /\ twice' = (twice \/ (\E g \in Handlers : ePc[g] = "insert") \/ embedFaults' # embedFaults)
  /\ UNCHANGED tokens

\* create_embed_token: a token that never expires.
InsertToken(h) ==
  /\ ePc[h] = "insert" /\ Made < MaxTokens
  /\ ePc' = [ePc EXCEPT ![h] = "idle"]
  /\ tokens' = [t \in 1..Made + 1 |-> IF t \in DOMAIN tokens THEN tokens[t] ELSE TRUE]
  /\ UNCHANGED <<twice, embedFaults>>

\* delete_embed_token_handler, delete_embed_tokens: all tokens of the board.
RevokeTokens ==
  /\ Valid # {}
  /\ tokens' = [t \in DOMAIN tokens |-> FALSE]
  /\ twice' = \E h \in Handlers : twice /\ ePc[h] = "insert"
  /\ UNCHANGED <<ePc, embedFaults>>

\* embed_grants_view: what get_board_state, get_board_by_id, presign_board_file,
\* ensure_board_access and ws_board ask of a token before anything else.
embed_grants_view(t) == t \in Valid

Next ==
  \/ \E h \in Handlers : CreateToken(h) \/ InsertToken(h)
  \/ RevokeTokens

-----------------------------------------------------------------------------
(* Properties *)

(***************************************************************************)
(* create_embed_token_handler makes one token however often it is called   *)
(* and revoked, as long as calls do not overlap and its look for a token   *)
(* succeeds: two tokens never let people in at once.                       *)
(***************************************************************************)
EmbedIdempotent ==
  twice \/ \A t, u \in DOMAIN tokens : embed_grants_view(t) /\ embed_grants_view(u) => t = u
=============================================================================
