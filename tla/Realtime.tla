------------------------------ MODULE Realtime ------------------------------
(***************************************************************************)
(* The WebSocket sessions of one board at one instance, on the hub and the *)
(* fan-out: handshake, the send task with its lag and resync handling, and *)
(* teardown.  The browser is external: it loads the board over HTTP once   *)
(* its socket is open and again when told to resync, and folds every pair  *)
(* it receives into its document.                                          *)
(***************************************************************************)
EXTENDS Fanout

CONSTANT OtherBoards  \* whether other boards are opened at this instance

ASSUME RealtimeAssumption == OtherBoards \in BOOLEAN

VARIABLES
  have,      \* session -> the seqs in the client's document
  fetching,  \* session -> whether the client is about to load the board
  recent,    \* session -> whether its last resync is within RESYNC_DEBOUNCE
  missed,    \* history: session -> a lag was coalesced after the last load
  cut        \* history: sessions whose channel was evicted before they subscribed

clientVars == <<have, fetching, recent, missed, cut>>
vars == <<hubVars, fanoutVars, clientVars>>

Init ==
  /\ HubInit /\ FanoutInit
  /\ have = [s \in Sessions |-> {}]
  /\ fetching = [s \in Sessions |-> FALSE]
  /\ recent = [s \in Sessions |-> FALSE]
  /\ missed = [s \in Sessions |-> FALSE]
  /\ cut = {}

-----------------------------------------------------------------------------
(* Handshake *)

Connect(s) ==
  /\ pc[s] = "off"
  /\ Goto(s, "register")
  /\ UNCHANGED <<head, notice, cursor, seq, cur, rows, full, served,
                 hubVars, clientVars>>

GetChannels(s) ==
  /\ pc[s] = "channels"
  /\ CloneSender(s)
  /\ Goto(s, "subscribe")
  /\ cut' = cut \ {s}
  /\ UNCHANGED <<head, notice, cursor, seq, cur, rows, full, served,
                 have, fetching, recent, missed>>

OpenSocket(s) ==
  /\ pc[s] = "subscribe"
  /\ Subscribe(s)
  /\ Goto(s, "on")
  /\ fetching' = [fetching EXCEPT ![s] = TRUE]
  /\ UNCHANGED <<head, notice, cursor, seq, cur, rows, full, served,
                 have, recent, missed, cut>>

\* The client loads the canonical base and updates, through the head.
Load(s) ==
  /\ pc[s] = "on"
  /\ fetching[s]
  /\ have' = [have EXCEPT ![s] = 1..head]
  /\ fetching' = [fetching EXCEPT ![s] = FALSE]
  /\ missed' = [missed EXCEPT ![s] = FALSE]
  /\ UNCHANGED <<fanoutVars, hubVars, recent, cut>>

-----------------------------------------------------------------------------
(* The send task *)

Receive(s) ==
  /\ pc[s] = "on"
  /\ queue[s] # <<>> /\ ~Lagging(s)
  /\ queue' = [queue EXCEPT ![s] = Tail(@)]
  /\ IF Head(queue[s]) = Resync
     THEN fetching' = [fetching EXCEPT ![s] = TRUE] /\ UNCHANGED have
     ELSE have' = [have EXCEPT ![s] = @ \cup {Head(queue[s])}] /\ UNCHANGED fetching
  /\ UNCHANGED <<fanoutVars, chan, sender, rx, recent, missed, cut>>

LagResync(s) ==
  /\ pc[s] = "on"
  /\ Lagging(s) /\ ~recent[s]
  /\ SkipToOldest(s)
  /\ recent' = [recent EXCEPT ![s] = TRUE]
  /\ fetching' = [fetching EXCEPT ![s] = TRUE]
  /\ UNCHANGED <<fanoutVars, have, missed, cut>>

\* "coalesced": no resync within the window of the last one.
LagCoalesced(s) ==
  /\ pc[s] = "on"
  /\ Lagging(s) /\ recent[s]
  /\ SkipToOldest(s)
  /\ missed' = [missed EXCEPT ![s] = TRUE]
  /\ UNCHANGED <<fanoutVars, have, fetching, recent, cut>>

\* RESYNC_DEBOUNCE has passed.
DebounceOver(s) ==
  /\ recent[s]
  /\ recent' = [recent EXCEPT ![s] = FALSE]
  /\ UNCHANGED <<fanoutVars, hubVars, have, fetching, missed, cut>>

-----------------------------------------------------------------------------
(* Teardown *)

\* The socket is gone; the send task drops its receiver.
Disconnect(s) ==
  /\ pc[s] = "on"
  /\ Unsubscribe(s)
  /\ Goto(s, "leaving")
  /\ have' = [have EXCEPT ![s] = {}]
  /\ fetching' = [fetching EXCEPT ![s] = FALSE]
  /\ recent' = [recent EXCEPT ![s] = FALSE]
  /\ missed' = [missed EXCEPT ![s] = FALSE]
  /\ UNCHANGED <<head, notice, cursor, seq, cur, rows, full, served, cut>>

\* A session with an id announces its end on the preview channel.
Announce(s) ==
  /\ pc[s] = "leaving"
  /\ chan' = ChannelsFor
  /\ Goto(s, "evict")
  /\ UNCHANGED <<head, notice, cursor, seq, cur, rows, full, served,
                 sender, rx, queue, clientVars>>

LeaveSilently(s) ==
  /\ pc[s] = "leaving"
  /\ Goto(s, "evict")
  /\ UNCHANGED <<head, notice, cursor, seq, cur, rows, full, served,
                 hubVars, clientVars>>

\* The sessions that hold a clone of the evicted channel and no receiver yet.
CutOff == cut' = cut \cup {s \in Sessions : Idle /\ pc[s] = "subscribe"}

Evict(s) ==
  /\ pc[s] = "evict"
  /\ EvictIfIdle /\ CutOff
  /\ Goto(s, "off")
  /\ UNCHANGED <<head, notice, cursor, seq, cur, rows, full, served,
                 sender, rx, queue, have, fetching, recent, missed>>

\* channels_for of another board sweeps the idle ones.
SweepIdle ==
  /\ OtherBoards
  /\ chan # NoChannel
  /\ EvictIfIdle /\ CutOff
  /\ UNCHANGED <<sender, rx, queue, fanoutVars, have, fetching, recent, missed>>

-----------------------------------------------------------------------------
SendTask(s) == Receive(s) \/ LagResync(s) \/ LagCoalesced(s)

Handshake(s) ==
  \/ RegisterStep(s) /\ UNCHANGED clientVars
  \/ GetChannels(s) \/ OpenSocket(s)

Next ==
  \/ FanoutNext /\ UNCHANGED clientVars
  \/ \E s \in Sessions :
       \/ Connect(s) \/ Handshake(s) \/ Load(s) \/ SendTask(s) \/ DebounceOver(s)
       \/ Disconnect(s) \/ Announce(s) \/ LeaveSilently(s) \/ Evict(s)
  \/ SweepIdle

\* The repair poller alone: it ticks, goes on with what it starts, and its
\* reads do not fail for ever.
RepairFairness ==
  /\ WF_vars(RepairTick /\ UNCHANGED clientVars)
  /\ WF_vars(ReplayStep(Repair) /\ UNCHANGED clientVars)
  /\ SF_vars((ListRows(Repair) \/ NoMoreRows(Repair) \/ ReadHead(Repair))
               /\ UNCHANGED clientVars)
  /\ SF_vars((RowDelivered(Repair) \/ TakeRow(Repair)) /\ UNCHANGED clientVars)

Spec == Init /\ [][Next]_vars

RepairSpec == Spec /\ RepairFairness

-----------------------------------------------------------------------------
(* Properties *)

\* The types of all state; the cursor (yrs_fanout.rs delivered) never passes
\* the durable head.
TypeOK ==
  /\ HubTypeOK /\ FanoutTypeOK
  /\ have \in [Sessions -> SUBSET Nat]
  /\ fetching \in [Sessions -> BOOLEAN]
  /\ recent \in [Sessions -> BOOLEAN]
  /\ missed \in [Sessions -> BOOLEAN]
  /\ cut \subseteq Sessions

\* Replays that race, fail halfway or find rows already taken never drop a
\* durable pair behind the cursor: every row up to it was handed to a channel,
\* is in a replay's hand, or was left to the clients' bootstrap.
NothingDropped ==
  \A m \in 1..cursor :
    \/ m \in served
    \/ \E r \in Replayers : pc[r] \in {"channel", "send"} /\ NextRow(r) = m

\* Nothing is on its way any more.
Quiet ==
  /\ cursor >= head
  /\ \A a \in Actors : pc[a] \in {"idle", "off", "on"}
  /\ \A s \in Sessions : queue[s] = <<>> /\ ~fetching[s]

\* When nothing is on its way, every open client has the whole board, unless
\* its ring overflowed after its last load and the debounce of the send task
\* took the resync away: overflow, races of replays and reconnects alone lose
\* nothing.
CurrentUnlessCoalesced ==
  Quiet => \A s \in Sessions : pc[s] = "on" /\ ~missed[s] => have[s] = 1..head

\* Lost notices and failing reads only delay the cursor of an active board.
CursorCatchesUp ==
  \A n \in 1..MaxSeq : (Active /\ head >= n) ~> (cursor >= n \/ ~Active)

\* An open session listens to the channel the hub publishes on, whatever ends,
\* sweeps and announcements of others evict and make again, unless the channel
\* was evicted between its channels_for and its subscribe.
ListensToHub == \A s \in Sessions : pc[s] = "on" => rx[s] = chan \/ s \in cut

\* The hub (realtime.rs) and its sessions fit together at every step: the types,
\* the cursor no further than the head, and receivers on the channel in use.
HubConsistent == TypeOK /\ ListensToHub
=============================================================================
