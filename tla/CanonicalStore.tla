--------------------------- MODULE CanonicalStore ---------------------------
(***************************************************************************)
(* The PostgreSQL state of ONE board's canonical history, and the          *)
(* transactions on it that more than one component runs: the head row      *)
(* (board_yrs_heads), the event log (board_events), the paired Yrs journal *)
(* (board_yrs_updates), the immutable checkpoints (board_yrs_snapshots),   *)
(* the asset read-model head and the board's config columns.               *)
(*                                                                         *)
(* Boards share no canonical row, so one board is enough.  Its canonical   *)
(* base is written once, at creation or import, with base_seq 0 and        *)
(* base_generation 1; nothing in the program rewrites it, so the base and  *)
(* the generation comparisons against it are not state here.  No code      *)
(* writes the head state 'quarantined' and none sets abandoned_at.         *)
(*                                                                         *)
(* A Yrs document is abstracted to the SET OF SEQUENCE NUMBERS whose       *)
(* updates were folded into it: that is what tells a complete document     *)
(* from one with a hole.                                                   *)
(***************************************************************************)
EXTENDS Integers, FiniteSets

CONSTANTS
  Cids,          \* client_event_ids, the clients' idempotency keys
  NoCid,         \* a request without one: the server makes up "live:<event id>"
  Bodies,        \* payload hash + update hash + source of an event
  ServerBodies,  \* the bodies without a client Yrs update (source = "server")
  ConfigBodies,  \* the bodies of board_commit events, which set board columns
  MaxSeq,        \* bound: events per board
  MaxEpoch       \* bound: activations that bump writer_epoch

ASSUME StoreAssumption ==
  /\ NoCid \notin Cids
  /\ ServerBodies \subseteq Bodies
  /\ ConfigBodies \subseteq Bodies
  /\ MaxSeq \in Nat
  /\ MaxEpoch \in Nat

VARIABLES
  head,       \* the board_yrs_heads row; state "none" before the first INSERT
  nextSeq,    \* boards.next_event_seq
  rows,       \* seq -> row: every journal row ever committed (rows are never updated)
  journal,    \* the seqs whose board_yrs_updates row is still stored
  events,     \* the seqs whose board_events row is still stored
  snapshots,  \* the 'canonical_compaction' rows of board_yrs_snapshots
  assetSeq,   \* last_event_seq of the asset projection
  configSeq,  \* the seq of the board_commit the config columns come from
  aged        \* rows with seq <= aged are older than the retention window

storeVars == <<head, nextSeq, rows, journal, events, snapshots,
               assetSeq, configSeq, aged>>

Row == [cid : Cids \cup {NoCid}, body : Bodies]

HeadRow == [state : {"none", "activating", "ready"}, epoch : Nat, processed : Nat]

Checkpoint == [seq : Nat, doc : SUBSET Nat]

StoreTypeOK ==
  /\ head \in HeadRow
  /\ nextSeq \in Nat \ {0}
  /\ DOMAIN rows \subseteq Nat
  /\ \A s \in DOMAIN rows : rows[s] \in Row
  /\ journal \subseteq Nat
  /\ events \subseteq Nat
  /\ snapshots \subseteq Checkpoint
  /\ assetSeq \in Nat
  /\ configSeq \in Nat
  /\ aged \in Nat

\* A board as create_board / import leave it: base row, no head row yet.
StoreInit ==
  /\ head = [state |-> "none", epoch |-> 0, processed |-> 0]
  /\ nextSeq = 1
  /\ rows = [s \in {} |-> NoCid]
  /\ journal = {}
  /\ events = {}
  /\ snapshots = {}
  /\ assetSeq = 0
  /\ configSeq = 0
  /\ aged = 0

-----------------------------------------------------------------------------
(* Reads *)

\* COALESCE(MAX(board_events.seq), base_seq) = m
IsEventsHead(m) ==
  \/ events = {} /\ m = 0
  \/ m \in events /\ \A e \in events : e <= m

\* read_latest_at_or_before: c is the newest checkpoint at or below seq.
IsLatestCheckpoint(c, seq) ==
  /\ c \in snapshots /\ c.seq <= seq
  /\ \A d \in snapshots : d.seq <= seq => d.seq <= c.seq

NoCheckpoint(seq) == \A d \in snapshots : d.seq > seq

\* The base an activation or a compaction starts from: the newest checkpoint
\* at or below seq, else the canonical base (seq 0, nothing folded in).
IsBase(c, seq) ==
  \/ IsLatestCheckpoint(c, seq)
  \/ NoCheckpoint(seq) /\ c = [seq |-> 0, doc |-> {}]

\* ORDER BY seq LIMIT limit, over the stored seqs in S above cursor.
IsPage(page, S, cursor, limit) ==
  LET tail == {s \in S : s > cursor} IN
  /\ page \in SUBSET tail
  /\ \A s \in page, r \in tail : r < s => r \in page
  /\ \/ Cardinality(page) = limit
     \/ page = tail /\ Cardinality(page) <= limit

\* read_by_client_event_id: seq is the stored row of this idempotency key.
RowOfCid(cid, seq) == cid # NoCid /\ seq \in journal /\ rows[seq].cid = cid

\* Mutant of CidTaken: the newest row is overlooked.
CidTakenMutant(cid) == \E s \in journal : s < head.processed /\ RowOfCid(cid, s)

\* UNIQUE (board_id, client_event_id): an INSERT with this key would fail.
CidTaken(cid) == \E s \in journal : RowOfCid(cid, s)

-----------------------------------------------------------------------------
(* Transactions, each under the board's advisory lock *)

\* begin_activation: INSERT with epoch 1, or re-enter and bump the epoch.
BeginActivation ==
  head' = [state |-> "activating", epoch |-> head.epoch + 1, processed |-> head.processed]

\* mark_ready's WHERE clause.
CanMarkReady(epoch) == head.epoch = epoch /\ head.state = "activating"

MarkReady(epoch, seq) ==
  head' = [state |-> "ready", epoch |-> head.epoch, processed |-> seq]

\* Mutant of RevisionFence: the writer epoch alone is compared.
RevisionFenceMutant(epoch, prior) ==
  head.state = "ready" /\ head.epoch = epoch

\* advance_processed_seq's WHERE clause: the multi-instance revision fence.
RevisionFence(epoch, prior) ==
  head.state = "ready" /\ head.epoch = epoch /\ head.processed = prior

\* Mutant of CommitPair: an event without a client update leaves the asset
\* projection as it is.
CommitPairMutant(row) ==
  /\ nextSeq' = nextSeq + 1
  /\ events' = events \cup {nextSeq}
  /\ configSeq' = IF row.body \in ConfigBodies THEN nextSeq ELSE configSeq
  /\ rows' = [s \in DOMAIN rows \cup {nextSeq} |-> IF s = nextSeq THEN row ELSE rows[s]]
  /\ journal' = journal \cup {nextSeq}
  /\ head' = [head EXCEPT !.processed = nextSeq]
  /\ assetSeq' = IF row.body \in ServerBodies THEN assetSeq ELSE nextSeq
  /\ UNCHANGED <<snapshots, aged>>

\* The commit transaction: reserve the seq, insert the event (and its board
\* config), insert the journal row, advance the head, replace the asset
\* projection.
CommitPair(row) ==
  /\ nextSeq' = nextSeq + 1
  /\ events' = events \cup {nextSeq}
  /\ configSeq' = IF row.body \in ConfigBodies THEN nextSeq ELSE configSeq
  /\ rows' = [s \in DOMAIN rows \cup {nextSeq} |-> IF s = nextSeq THEN row ELSE rows[s]]
  /\ journal' = journal \cup {nextSeq}
  /\ head' = [head EXCEPT !.processed = nextSeq]
  /\ assetSeq' = nextSeq
  /\ UNCHANGED <<snapshots, aged>>
=============================================================================
