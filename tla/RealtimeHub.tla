---------------------------- MODULE RealtimeHub ----------------------------
(***************************************************************************)
(* The in-process registry of one board's broadcast channels               *)
(* (RealtimeHub) and the durable stream of its WebSocket sessions.         *)
(*                                                                         *)
(* A channel has an identity: the map may drop a board's channel and make  *)
(* another one while tasks still hold a Sender of the first.  tokio's      *)
(* broadcast ring is modelled by what each receiver has still to read; a   *)
(* receiver more than Capacity messages behind has lost the oldest ones.   *)
(* A message is the seq of a Commit+YrsUpdate pair, or Resync.             *)
(***************************************************************************)
EXTENDS Integers, Sequences, FiniteSets

CONSTANTS
  Sessions,   \* WebSocket connections of this instance to the board
  Replayers,  \* tasks that publish durable pairs
  Channels,   \* identities of channels, as many as can be in use together
  NoChannel,
  Capacity    \* REALTIME_BROADCAST_CAPACITY, in pairs

ASSUME HubAssumption ==
  /\ Sessions \cap Replayers = {}
  /\ NoChannel \notin Channels
  /\ Capacity \in Nat \ {0}
  \* Making a channel never fails: one is always unused.
  /\ IsFiniteSet(Sessions \cup Replayers) /\ IsFiniteSet(Channels)
  /\ Cardinality(Channels) >= Cardinality(Sessions \cup Replayers)

Actors == Sessions \cup Replayers

VARIABLES
  chan,    \* the channel the hub's map holds for the board
  sender,  \* actor -> the channel whose Sender it has cloned and will use
  rx,      \* session -> the channel its receiver is subscribed to
  queue    \* session -> the messages its receiver has not read

hubVars == <<chan, sender, rx, queue>>

Resync == 0

HubTypeOK ==
  /\ chan \in Channels \cup {NoChannel}
  /\ sender \in [Actors -> Channels \cup {NoChannel}]
  /\ rx \in [Sessions -> Channels \cup {NoChannel}]
  /\ queue \in [Sessions -> Seq(Nat)]

HubInit ==
  /\ chan = NoChannel
  /\ sender = [a \in Actors |-> NoChannel]
  /\ rx = [s \in Sessions |-> NoChannel]
  /\ queue = [s \in Sessions |-> <<>>]

Idle == \A s \in Sessions : rx[s] = NoChannel \/ rx[s] # chan

\* active_board_ids contains the board.
Active == chan # NoChannel /\ ~Idle

Unused(c) ==
  /\ c # chan
  /\ \A a \in Actors : sender[a] # c
  /\ \A s \in Sessions : rx[s] # c

\* channels_for: the board's channel, made if the map has none.
ChannelsFor == IF chan = NoChannel THEN CHOOSE c \in Channels : Unused(c) ELSE chan

CloneSender(a) ==
  /\ chan' = ChannelsFor
  /\ sender' = [sender EXCEPT ![a] = ChannelsFor]
  /\ UNCHANGED <<rx, queue>>

DropSender(a) == sender' = [sender EXCEPT ![a] = NoChannel]

\* Sender::send: every receiver of that channel gets the message.
Broadcast(c, msg) ==
  queue' = [s \in Sessions |-> IF rx[s] = c THEN Append(queue[s], msg) ELSE queue[s]]

\* The clone the session keeps sends nothing more on the durable stream.
Subscribe(s) ==
  /\ rx' = [rx EXCEPT ![s] = sender[s]]
  /\ queue' = [queue EXCEPT ![s] = <<>>]
  /\ DropSender(s)
  /\ UNCHANGED chan

Unsubscribe(s) ==
  /\ rx' = [rx EXCEPT ![s] = NoChannel]
  /\ queue' = [queue EXCEPT ![s] = <<>>]
  /\ UNCHANGED <<chan, sender>>

Lagging(s) == Len(queue[s]) > Capacity

\* RecvError::Lagged: the receiver goes on at the oldest message still there.
SkipToOldest(s) ==
  /\ queue' = [queue EXCEPT ![s] = SubSeq(@, Len(@) - Capacity + 1, Len(@))]
  /\ UNCHANGED <<chan, sender, rx>>

\* Mutant of EvictIfIdle: the receivers are not counted again under the lock.
EvictIfIdleMutant == chan' = NoChannel

\* evict_if_idle, and the sweep of channels_for when another board is opened.
EvictIfIdle == chan' = IF Idle THEN NoChannel ELSE chan
=============================================================================
