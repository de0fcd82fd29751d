------------------------------- MODULE Fanout -------------------------------
(***************************************************************************)
(* CanonicalFanout of one instance, for one board: commit handlers, the    *)
(* Redis subscriber and the repair poller replay the durable journal after *)
(* a shared cursor into the local hub.  The other instances appear as the  *)
(* commits they make durable and the notices they publish, or lose.        *)
(***************************************************************************)
EXTENDS RealtimeHub

CONSTANTS
  Publishers,  \* commit handlers that can be publishing together
  Subscriber,  \* the Redis subscriber task
  Repair,      \* the repair poller task
  MaxSeq,      \* bound: events of the board
  Page,        \* CATCH_UP_BATCH
  Orphans,     \* journal rows whose event is gone when it is read
  DbErrors     \* whether reads of PostgreSQL can fail

ASSUME FanoutAssumption ==
  /\ Replayers = Publishers \cup {Subscriber, Repair}
  /\ Subscriber \notin Publishers \cup {Repair} /\ Repair \notin Publishers
  /\ MaxSeq \in Nat /\ Page \in Nat \ {0}
  /\ DbErrors \in BOOLEAN

VARIABLES
  head,     \* processed_seq of the board: its journal is 1..head
  notice,   \* whether a notice waits in the subscriber's stream
  cursor,   \* delivered[board], or NoCursor
  pc,       \* actor -> where it is
  seq,      \* actor -> the seq it publishes, or the head it read
  cur,      \* replayer -> the local cursor of reconcile_board
  rows,     \* replayer -> the rest of its page of journal rows
  full,     \* replayer -> whether that page was a full one
  served    \* history: the rows handed to a channel, as a pair or a resync, or
            \* left by a registration to the clients' bootstrap

localVars == <<pc, seq, cur, rows, full>>
fanoutVars == <<head, notice, cursor, localVars, served>>

NoCursor == -1

ReplayerAt == {"idle", "publish", "reconcile", "list", "row", "channel", "send"}
RegisterAt == {"register", "readhead", "setcursor"}
SessionAt  == {"off", "channels", "subscribe", "on", "leaving", "evict"}

FanoutTypeOK ==
  /\ head \in Nat /\ notice \in BOOLEAN
  /\ cursor \in 0..head \cup {NoCursor}
  /\ pc \in [Actors -> ReplayerAt \cup RegisterAt \cup SessionAt]
  /\ seq \in [Actors -> Nat]
  /\ cur \in [Replayers -> Nat]
  /\ rows \in [Replayers -> SUBSET Nat]
  /\ full \in [Replayers -> BOOLEAN]
  /\ served \subseteq Nat

FanoutInit ==
  /\ head = 0 /\ notice = FALSE /\ cursor = NoCursor
  /\ pc = [a \in Actors |-> IF a \in Sessions THEN "off" ELSE "idle"]
  /\ seq = [a \in Actors |-> 0]
  /\ cur = [r \in Replayers |-> 0]
  /\ rows = [r \in Replayers |-> {}]
  /\ full = [r \in Replayers |-> FALSE]
  /\ served = {}

Goto(a, where) == pc' = [pc EXCEPT ![a] = where]

\* The rows from above the cursor up to s will not be replayed.
SkipTo(s) == served' = served \cup {m \in 1..s : m > cursor}

-----------------------------------------------------------------------------
(* Durable commits *)

\* Another instance commits; its notice arrives or is lost.
RemoteCommit ==
  /\ head < MaxSeq
  /\ head' = head + 1
  /\ \/ notice' = TRUE
     \/ UNCHANGED notice
  /\ UNCHANGED <<cursor, localVars, served, hubVars>>

\* A handler of this instance commits, and will publish.
LocalCommit(p) ==
  /\ p \in Publishers
  /\ pc[p] = "idle"
  /\ head < MaxSeq
  /\ head' = head + 1
  /\ seq' = [seq EXCEPT ![p] = head + 1]
  /\ Goto(p, "publish")
  /\ UNCHANGED <<notice, cursor, cur, rows, full, served, hubVars>>

-----------------------------------------------------------------------------
(* register_board *)

\* Where a caller of register_board goes on.
AfterRegister(a) ==
  /\ Goto(a, IF a \in Sessions THEN "channels" ELSE "idle")
  /\ seq' = [seq EXCEPT ![a] = 0]

Registered(a) ==
  /\ pc[a] = "register"
  /\ Active /\ cursor # NoCursor
  /\ AfterRegister(a)
  /\ UNCHANGED <<head, notice, cursor, cur, rows, full, served, hubVars>>

Register(a) ==
  /\ pc[a] = "register"
  /\ ~Active \/ cursor = NoCursor
  /\ Goto(a, "readhead")
  /\ UNCHANGED <<head, notice, cursor, seq, cur, rows, full, served, hubVars>>

ReadHead(a) ==
  /\ pc[a] = "readhead"
  /\ seq' = [seq EXCEPT ![a] = head]
  /\ Goto(a, "setcursor")
  /\ UNCHANGED <<head, notice, cursor, cur, rows, full, served, hubVars>>

ReadHeadFails(a) ==
  /\ DbErrors
  /\ pc[a] = "readhead"
  /\ AfterRegister(a)
  /\ UNCHANGED <<head, notice, cursor, cur, rows, full, served, hubVars>>

\* Mutant of SetCursor: the local head is taken to be one further.
SetCursorMutant(a) ==
  /\ pc[a] = "setcursor"
  /\ cursor' = seq[a] + 1
  /\ SkipTo(seq[a])
  /\ AfterRegister(a)
  /\ UNCHANGED <<head, notice, cur, rows, full, hubVars>>

\* set_cursor overwrites whatever is there.
SetCursor(a) ==
  /\ pc[a] = "setcursor"
  /\ cursor' = seq[a]
  /\ SkipTo(seq[a])
  /\ AfterRegister(a)
  /\ UNCHANGED <<head, notice, cur, rows, full, hubVars>>

-----------------------------------------------------------------------------
(* What starts a replay *)

\* publish: replay if the board has receivers.  The notice to the other
\* instances changes nothing here.
Publish(p) ==
  /\ p \in Publishers
  /\ pc[p] = "publish"
  /\ IF Active /\ cursor = NoCursor
     THEN cursor' = seq[p] - 1 /\ SkipTo(seq[p] - 1)
     ELSE UNCHANGED <<cursor, served>>
  /\ Goto(p, IF Active THEN "reconcile" ELSE "idle")
  /\ seq' = [seq EXCEPT ![p] = 0]
  /\ UNCHANGED <<head, notice, cur, rows, full, hubVars>>

ReceiveNotice ==
  /\ pc[Subscriber] = "idle"
  /\ notice
  /\ notice' = FALSE
  /\ Goto(Subscriber, IF Active THEN "reconcile" ELSE "idle")
  /\ UNCHANGED <<head, cursor, seq, cur, rows, full, served, hubVars>>

\* The subscription breaks and is made again: what was in the stream is lost.
LoseNotice ==
  /\ notice
  /\ notice' = FALSE
  /\ UNCHANGED <<head, cursor, localVars, served, hubVars>>

\* Mutant of RepairTick: only boards without a cursor are looked at.
RepairTickMutant ==
  /\ pc[Repair] = "idle"
  /\ Active /\ cursor = NoCursor
  /\ Goto(Repair, "register")
  /\ UNCHANGED <<head, notice, cursor, seq, cur, rows, full, served, hubVars>>

RepairTick ==
  /\ pc[Repair] = "idle"
  /\ Active
  /\ Goto(Repair, IF cursor = NoCursor THEN "register" ELSE "reconcile")
  /\ UNCHANGED <<head, notice, cursor, seq, cur, rows, full, served, hubVars>>

-----------------------------------------------------------------------------
(* reconcile_board *)

Reconcile(r) ==
  /\ pc[r] = "reconcile"
  /\ IF cursor = NoCursor
     THEN Goto(r, "register") /\ UNCHANGED cur
     ELSE Goto(r, "list") /\ cur' = [cur EXCEPT ![r] = cursor]
  /\ UNCHANGED <<head, notice, cursor, seq, rows, full, served, hubVars>>

\* reconcile_board returns.
Return(r) ==
  /\ Goto(r, "idle")
  /\ cur' = [cur EXCEPT ![r] = 0]
  /\ rows' = [rows EXCEPT ![r] = {}]
  /\ full' = [full EXCEPT ![r] = FALSE]

ListRows(r) ==
  /\ pc[r] = "list"
  /\ cur[r] < head
  /\ rows' = [rows EXCEPT ![r] = {s \in 1..head : cur[r] < s /\ s <= cur[r] + Page}]
  /\ full' = [full EXCEPT ![r] = cur[r] + Page <= head]
  /\ Goto(r, "row")
  /\ UNCHANGED <<head, notice, cursor, seq, cur, served, hubVars>>

NoMoreRows(r) ==
  /\ pc[r] = "list"
  /\ cur[r] >= head
  /\ Return(r)
  /\ UNCHANGED <<head, notice, cursor, seq, served, hubVars>>

NextRow(r) == CHOOSE m \in rows[r] : \A n \in rows[r] : m <= n

\* Mutant of ReplayFails: the cursor was moved before the event was read.
ReplayFailsMutant(r) ==
  /\ DbErrors
  /\ pc[r] \in {"list", "row"}
  /\ cursor' = IF pc[r] = "row" /\ NextRow(r) > cursor THEN NextRow(r) ELSE cursor
  /\ Return(r)
  /\ UNCHANGED <<head, notice, seq, served, hubVars>>

\* list_updates_since or read_event_by_id fails: the replay is given up.
ReplayFails(r) ==
  /\ DbErrors
  /\ pc[r] \in {"list", "row"}
  /\ Return(r)
  /\ UNCHANGED <<head, notice, cursor, seq, served, hubVars>>

\* On with the page, with the next page if this one was full, or done.
RowDone(r) ==
  IF rows[r] = {NextRow(r)} /\ ~full[r]
  THEN Return(r)
  ELSE /\ cur' = [cur EXCEPT ![r] = NextRow(r)]
       /\ rows' = [rows EXCEPT ![r] = @ \ {NextRow(r)}]
       /\ Goto(r, IF rows[r] = {NextRow(r)} THEN "list" ELSE "row")
       /\ UNCHANGED full

\* deliver_pair: another replay already passed this row.
RowDelivered(r) ==
  /\ pc[r] = "row"
  /\ NextRow(r) \notin Orphans
  /\ NextRow(r) <= cursor
  /\ RowDone(r)
  /\ UNCHANGED <<head, notice, cursor, seq, served, hubVars>>

\* advance_cursor, by deliver_pair if the row is new, by request_resync for an
\* orphan whether it is new or not.
TakeRow(r) ==
  /\ pc[r] = "row"
  /\ NextRow(r) > cursor \/ NextRow(r) \in Orphans
  /\ cursor' = IF NextRow(r) > cursor THEN NextRow(r) ELSE cursor
  /\ Goto(r, "channel")
  /\ UNCHANGED <<head, notice, seq, cur, rows, full, served, hubVars>>

GetChannel(r) ==
  /\ pc[r] = "channel"
  /\ CloneSender(r)
  /\ Goto(r, "send")
  /\ UNCHANGED <<head, notice, cursor, seq, cur, rows, full, served>>

\* broadcast_pair, or the resync of request_resync.
Send(r) ==
  /\ pc[r] = "send"
  /\ Broadcast(sender[r], IF NextRow(r) \in Orphans THEN Resync ELSE NextRow(r))
  /\ DropSender(r)
  /\ served' = served \cup {NextRow(r)}
  /\ RowDone(r)
  /\ UNCHANGED <<head, notice, cursor, seq, chan, rx>>

-----------------------------------------------------------------------------
RegisterStep(a) ==
  Registered(a) \/ Register(a) \/ ReadHead(a) \/ ReadHeadFails(a) \/ SetCursor(a)

ReplayStep(r) ==
  \/ RegisterStep(r) \/ Reconcile(r) \/ ListRows(r) \/ NoMoreRows(r) \/ ReplayFails(r)
  \/ RowDelivered(r) \/ TakeRow(r) \/ GetChannel(r) \/ Send(r)

FanoutNext ==
  \/ RemoteCommit \/ ReceiveNotice \/ LoseNotice \/ RepairTick
  \/ \E p \in Publishers : LocalCommit(p) \/ Publish(p)
  \/ \E r \in Replayers : ReplayStep(r)
=============================================================================
