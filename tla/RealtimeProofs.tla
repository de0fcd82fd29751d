--------------------------- MODULE RealtimeProofs ---------------------------
(***************************************************************************)
(* Safety of Realtime, for any number of sessions and publishers, any page *)
(* size and ring capacity, any orphans and any failures of the reads.      *)
(***************************************************************************)
EXTENDS Realtime, FiniteSetTheorems, TLAPS

\* Where reconcile_board has a local cursor, and where it has a page as well.
Replaying == {"list", "row", "channel", "send"}
WithPage == {"row", "channel", "send"}

\* A Sender is held only from channels_for to its use, a receiver only by an
\* open session: nobody holds two channels.
HoldInv ==
  /\ \A s \in Sessions : pc[s] \in RegisterAt \cup SessionAt
  /\ \A r \in Replayers : pc[r] \in ReplayerAt \cup RegisterAt
  /\ \A a \in Actors : sender[a] # NoChannel => pc[a] \in {"subscribe", "send"}
  /\ \A s \in Sessions : pc[s] = "subscribe" => sender[s] # NoChannel
  /\ \A s \in Sessions : pc[s] = "on" <=> rx[s] # NoChannel

\* From channels_for on, a session that was not cut off is on the hub's channel.
ListenInv ==
  \A s \in Sessions \ cut :
    /\ pc[s] = "subscribe" => sender[s] = chan
    /\ pc[s] = "on" => rx[s] = chan

\* A seq an actor carries and a local cursor are durable, and a publisher
\* carries a seq.
SeqInv ==
  /\ \A a \in Actors : seq[a] <= head
  /\ \A r \in Replayers : cur[r] <= head
  /\ \A p \in Publishers : pc[p] = "publish" => seq[p] # 0

\* What is left of a page follows the local cursor without a gap.
PageInv ==
  \A r \in Replayers : pc[r] \in WithPage =>
    \E top \in 1..head : cur[r] < top /\ rows[r] = (cur[r] + 1)..top

\* Row m was handed over or left to the bootstrap, or a replay holds it.
Covered(m) ==
  \/ m \in served
  \/ \E r \in Replayers : pc[r] \in {"channel", "send"} /\ cur[r] + 1 = m

\* The rows behind the shared cursor are covered, and those behind the local
\* cursor of every replay: a registration may set the shared one back.
CoverInv ==
  /\ \A m \in 1..cursor : Covered(m)
  /\ \A r \in Replayers : pc[r] \in Replaying => \A m \in 1..cur[r] : Covered(m)

\* The inductive invariant of the hub, the replays and the sessions.
HubInv == TypeOK /\ HoldInv /\ ListenInv /\ SeqInv /\ PageInv

\* One session, reads that do not fail, and no other boards.
Alone ==
  /\ \A s, t \in Sessions : s = t
  /\ ~DbErrors /\ ~OtherBoards

\* Without failing reads only a session registers, and the replays have a cursor.
CursorInv ==
  /\ \A r \in Replayers : pc[r] \notin RegisterAt
  /\ \A r \in Replayers : pc[r] \in Replaying \cup {"reconcile"} => cursor # NoCursor
  /\ \A s \in Sessions : pc[s] \in {"channels", "subscribe", "on"} => cursor # NoCursor
  /\ cut = {}

\* Row m, or a resync, waits in the ring of session s.
Queued(s, m) == \E i \in 1..Len(queue[s]) : queue[s][i] \in {m, Resync}

\* Replay r will send the row it holds to session s.
Brings(r, s) == pc[r] = "channel" \/ (pc[r] = "send" /\ sender[r] = rx[s])

\* Row m is on its way to the open session s, or the session will load the
\* board, or a lag of it was coalesced.
Reaches(s, m) ==
  \/ m \in have[s] \/ fetching[s] \/ missed[s] \/ Queued(s, m)
  \/ \E r \in Replayers : Brings(r, s) /\ cur[r] + 1 = m

\* How far replay r has come: past the row it holds.
InHand == {"channel", "send"}
Through(r) == IF pc[r] \in InHand THEN cur[r] + 1 ELSE cur[r]

\* The rows behind the shared cursor reach session s, and those a replay has
\* come through: some replays began before a registration set the cursor back.
ReachOf(s) ==
  /\ \A m \in 1..cursor : Reaches(s, m)
  /\ \A r \in Replayers : pc[r] \in Replaying => \A m \in 1..Through(r) : Reaches(s, m)

ReachInv == \A s \in Sessions : pc[s] = "on" => ReachOf(s)

\* What a client has or is sent is durable.
DurableInv ==
  \A s \in Sessions :
    /\ have[s] \subseteq 1..head
    /\ \A i \in 1..Len(queue[s]) : queue[s][i] \in 0..head

-----------------------------------------------------------------------------
(* Facts about single operators *)

USE HubAssumption, FanoutAssumption, RealtimeAssumption

\* While an actor holds no channel and the hub has none, one is unused: every
\* channel in use is held by another actor, and nobody holds two.
LEMMA UnusedExists ==
  ASSUME TypeOK, HoldInv, chan = NoChannel, NEW a \in Actors,
         pc[a] \notin {"subscribe", "send", "on"}
  PROVE  \E c \in Channels : Unused(c)
<1> SUFFICES ASSUME \A c \in Channels : ~Unused(c) PROVE FALSE
  OBVIOUS
<1> DEFINE Holds(b, c) == sender[b] = c \/ (b \in Sessions /\ rx[b] = c)
           Others == Actors \ {a}
           f == [c \in Channels |-> CHOOSE b \in Others : Holds(b, c)]
<1>1. ASSUME NEW c \in Channels PROVE \E b \in Others : Holds(b, c)
  <2>1. c # NoChannel
    OBVIOUS
  <2>2. PICK b \in Actors : Holds(b, c)
    BY <2>1 DEF Unused, Actors
  <2>3. b # a
    BY <2>1, <2>2 DEF HoldInv, Actors
  <2> QED BY <2>2, <2>3
<1>2. \A c \in Channels : f[c] \in Others /\ Holds(f[c], c)
  BY <1>1
<1>3. ASSUME NEW b \in Actors, NEW c \in Channels, NEW d \in Channels, Holds(b, c), Holds(b, d)
      PROVE  c = d
  BY <1>3 DEF HoldInv, Actors
<1>4. IsFiniteSet(Others) /\ Cardinality(Others) < Cardinality(Channels)
  <2>1. IsFiniteSet(Actors)
    BY DEF Actors
  <2>2. IsFiniteSet(Others) /\ Cardinality(Others) = Cardinality(Actors) - 1
    BY <2>1, FS_RemoveElement
  <2>3. Cardinality(Actors) \in Nat /\ Cardinality(Channels) \in Nat
    BY <2>1, FS_CardinalityType
  <2>4. Cardinality(Channels) >= Cardinality(Actors)
    BY DEF Actors
  <2> HIDE DEF Others
  <2> QED BY <2>2, <2>3, <2>4
<1>5. f \in [Channels -> Others]
  BY <1>2
<1>6. PICK c, d \in Channels : c # d /\ f[c] = f[d]
  <2> HIDE DEF f, Others
  <2> QED BY <1>4, <1>5, FS_PigeonHole
<1> QED BY <1>2, <1>3, <1>6

\* channels_for answers a channel, and the one the hub has if it has one.
LEMMA ChannelMade ==
  ASSUME TypeOK, HoldInv, NEW a \in Actors, pc[a] \notin {"subscribe", "send", "on"}
  PROVE  /\ ChannelsFor \in Channels
         /\ chan # NoChannel => ChannelsFor = chan
<1>1. CASE chan = NoChannel
  BY <1>1, UnusedExists DEF ChannelsFor
<1>2. CASE chan # NoChannel
  BY <1>2 DEF ChannelsFor, TypeOK, HubTypeOK
<1> QED BY <1>1, <1>2

\* The next row of a page is the one after the local cursor.
LEMMA NextRowFollows ==
  ASSUME TypeOK, PageInv, NEW r \in Replayers, pc[r] \in WithPage
  PROVE  /\ NextRow(r) = cur[r] + 1
         /\ NextRow(r) \in rows[r] /\ NextRow(r) \in 1..head
<1>1. PICK top \in 1..head : cur[r] < top /\ rows[r] = (cur[r] + 1)..top
  BY DEF PageInv
<1>2. cur[r] \in Nat /\ head \in Nat
  BY DEF TypeOK, FanoutTypeOK
<1>3. cur[r] + 1 \in rows[r] /\ \A n \in rows[r] : cur[r] + 1 <= n
  BY <1>1, <1>2
<1>4. NextRow(r) \in rows[r] /\ \A n \in rows[r] : NextRow(r) <= n
  BY <1>3 DEF NextRow
<1>5. NextRow(r) = cur[r] + 1
  BY <1>1, <1>2, <1>3, <1>4
<1> QED BY <1>1, <1>2, <1>4, <1>5

\* After a row a replay returns, lists the next page or goes on with this one.
LEMMA RowDoneMoves ==
  ASSUME TypeOK, PageInv, NEW r \in Replayers, pc[r] \in WithPage, RowDone(r)
  PROVE  /\ pc' \in [Actors -> ReplayerAt \cup RegisterAt \cup SessionAt]
         /\ cur' \in [Replayers -> Nat] /\ rows' \in [Replayers -> SUBSET Nat]
         /\ full' \in [Replayers -> BOOLEAN]
         /\ \A a \in Actors \ {r} : pc'[a] = pc[a]
         /\ \A q \in Replayers \ {r} : cur'[q] = cur[q] /\ rows'[q] = rows[q]
         /\ pc'[r] \in {"idle", "list", "row"}
         /\ pc'[r] # "idle" => cur'[r] = NextRow(r)
         /\ pc'[r] = "row" =>
              \E top \in 1..head : cur'[r] < top /\ rows'[r] = (cur'[r] + 1)..top
<1> USE DEF TypeOK, FanoutTypeOK, WithPage, ReplayerAt
<1>0. r \in Actors
  BY DEF Actors
<1>1. NextRow(r) = cur[r] + 1
  BY NextRowFollows
<1>2. PICK top \in 1..head : cur[r] < top /\ rows[r] = (cur[r] + 1)..top
  BY DEF PageInv
<1>3. CASE rows[r] = {NextRow(r)} /\ ~full[r]
  <2>1. /\ pc' = [pc EXCEPT ![r] = "idle"] /\ cur' = [cur EXCEPT ![r] = 0]
        /\ rows' = [rows EXCEPT ![r] = {}] /\ full' = [full EXCEPT ![r] = FALSE]
    BY <1>3 DEF RowDone, Return, Goto
  <2> QED BY <1>0, <2>1
<1>4. CASE rows[r] = {NextRow(r)} /\ full[r]
  BY <1>0, <1>1, <1>4 DEF RowDone, Goto
<1>5. CASE rows[r] # {NextRow(r)}
  <2>1. /\ pc' = [pc EXCEPT ![r] = "row"] /\ UNCHANGED full
        /\ cur' = [cur EXCEPT ![r] = cur[r] + 1]
        /\ rows' = [rows EXCEPT ![r] = rows[r] \ {cur[r] + 1}]
    BY <1>1, <1>5 DEF RowDone, Goto
  <2>2. cur[r] + 1 < top
    BY <1>1, <1>2, <1>5
  <2>3. rows[r] \ {cur[r] + 1} = (cur[r] + 1 + 1)..top
    BY <1>2, <2>2
  <2>4. /\ pc'[r] = "row" /\ cur'[r] = cur[r] + 1 /\ rows'[r] = rows[r] \ {cur[r] + 1}
    BY <1>0, <2>1
  <2>5. cur'[r] < top /\ rows'[r] = (cur'[r] + 1)..top
    BY <2>2, <2>3, <2>4
  <2>6. /\ pc' \in [Actors -> ReplayerAt \cup RegisterAt \cup SessionAt]
        /\ cur' \in [Replayers -> Nat] /\ rows' \in [Replayers -> SUBSET Nat]
        /\ full' \in [Replayers -> BOOLEAN]
    BY <1>0, <2>1
  <2>7. /\ \A a \in Actors \ {r} : pc'[a] = pc[a]
        /\ \A q \in Replayers \ {r} : cur'[q] = cur[q] /\ rows'[q] = rows[q]
    BY <2>1
  <2> QED BY <1>1, <2>4, <2>5, <2>6, <2>7
<1> QED BY <1>3, <1>4, <1>5
\* A registration that skips rows leaves none of them to a replay.
LEMMA SkipToCovers ==
  ASSUME TypeOK, NEW n \in Int, SkipTo(n)
  PROVE  /\ served' \subseteq Nat /\ served \subseteq served'
         /\ \A m \in 1..n : m > cursor => m \in served'
<1>1. {m \in 1..n : m > cursor} \subseteq Nat
  OBVIOUS
<1> QED BY <1>1 DEF SkipTo, TypeOK, FanoutTypeOK


-----------------------------------------------------------------------------
(* The inductive invariant *)

\* The steps of the next-state relation, one disjunct per action.
LEMMA StepCases ==
  ASSUME [Next]_vars
  PROVE
    \/ UNCHANGED clientVars /\ RemoteCommit
    \/ UNCHANGED clientVars /\ ReceiveNotice
    \/ UNCHANGED clientVars /\ LoseNotice
    \/ UNCHANGED clientVars /\ RepairTick
    \/ \E p \in Publishers : UNCHANGED clientVars /\ LocalCommit(p)
    \/ \E p \in Publishers : UNCHANGED clientVars /\ Publish(p)
    \/ \E a \in Actors : UNCHANGED clientVars /\ Registered(a)
    \/ \E a \in Actors : UNCHANGED clientVars /\ Register(a)
    \/ \E a \in Actors : UNCHANGED clientVars /\ ReadHead(a)
    \/ \E a \in Actors : UNCHANGED clientVars /\ ReadHeadFails(a)
    \/ \E a \in Actors : UNCHANGED clientVars /\ SetCursor(a)
    \/ \E r \in Replayers : UNCHANGED clientVars /\ Reconcile(r)
    \/ \E r \in Replayers : UNCHANGED clientVars /\ ListRows(r)
    \/ \E r \in Replayers : UNCHANGED clientVars /\ NoMoreRows(r)
    \/ \E r \in Replayers : UNCHANGED clientVars /\ ReplayFails(r)
    \/ \E r \in Replayers : UNCHANGED clientVars /\ RowDelivered(r)
    \/ \E r \in Replayers : UNCHANGED clientVars /\ TakeRow(r)
    \/ \E r \in Replayers : UNCHANGED clientVars /\ GetChannel(r)
    \/ \E r \in Replayers : UNCHANGED clientVars /\ Send(r)
    \/ \E s \in Sessions : Connect(s)
    \/ \E s \in Sessions : GetChannels(s)
    \/ \E s \in Sessions : OpenSocket(s)
    \/ \E s \in Sessions : Load(s)
    \/ \E s \in Sessions : Receive(s)
    \/ \E s \in Sessions : LagResync(s)
    \/ \E s \in Sessions : LagCoalesced(s)
    \/ \E s \in Sessions : DebounceOver(s)
    \/ \E s \in Sessions : Disconnect(s)
    \/ \E s \in Sessions : Announce(s)
    \/ \E s \in Sessions : LeaveSilently(s)
    \/ \E s \in Sessions : Evict(s)
    \/ SweepIdle
    \/ UNCHANGED vars
BY DEF Next, FanoutNext, ReplayStep, RegisterStep, Handshake, SendTask, Actors

\* Every step keeps the types.
LEMMA TypeStep ==
  ASSUME HubInv, [Next]_vars
  PROVE  TypeOK'
<1> USE DEF HubInv
<1>1. ASSUME UNCHANGED clientVars, RemoteCommit PROVE TypeOK'
  <2>1. head' \in Nat /\ cursor' \in 0..head' \cup {NoCursor}
    BY <1>1 DEF RemoteCommit, TypeOK, FanoutTypeOK
  <2>2. notice' \in BOOLEAN
    BY <1>1 DEF RemoteCommit, TypeOK, FanoutTypeOK
  <2> QED BY <1>1, <2>1, <2>2 DEF RemoteCommit, TypeOK, HubTypeOK, FanoutTypeOK, Actors,
      ReplayerAt, RegisterAt, SessionAt, hubVars, fanoutVars, localVars, clientVars
<1>2. ASSUME UNCHANGED clientVars, ReceiveNotice PROVE TypeOK'
  BY <1>2 DEF ReceiveNotice, Goto, TypeOK, HubTypeOK, FanoutTypeOK, Actors, ReplayerAt,
      RegisterAt, SessionAt, hubVars, fanoutVars, localVars, clientVars
<1>3. ASSUME UNCHANGED clientVars, LoseNotice PROVE TypeOK'
  BY <1>3 DEF LoseNotice, TypeOK, HubTypeOK, FanoutTypeOK, Actors, ReplayerAt, RegisterAt,
      SessionAt, hubVars, fanoutVars, localVars, clientVars
<1>4. ASSUME UNCHANGED clientVars, RepairTick PROVE TypeOK'
  BY <1>4 DEF RepairTick, Goto, TypeOK, HubTypeOK, FanoutTypeOK, Actors, ReplayerAt,
      RegisterAt, SessionAt, hubVars, fanoutVars, localVars, clientVars
<1>5. ASSUME NEW p \in Publishers, UNCHANGED clientVars, LocalCommit(p) PROVE TypeOK'
  BY <1>5 DEF LocalCommit, Goto, TypeOK, HubTypeOK, FanoutTypeOK, Actors, ReplayerAt,
      RegisterAt, SessionAt, hubVars, fanoutVars, localVars, clientVars
<1>6. ASSUME NEW p \in Publishers, UNCHANGED clientVars, Publish(p) PROVE TypeOK'
  <2>1. seq[p] \in Nat /\ seq[p] <= head /\ seq[p] # 0 /\ p \in Actors
    BY <1>6 DEF Publish, SeqInv, TypeOK, FanoutTypeOK, Actors
  <2>2. cursor' \in 0..head \cup {NoCursor}
    BY <1>6, <2>1 DEF Publish, TypeOK, FanoutTypeOK
  <2>4. served' \subseteq Nat
    <3>1. CASE SkipTo(seq[p] - 1)
      <4>1. seq[p] - 1 \in Int
        BY <2>1
      <4> QED BY <3>1, <4>1, SkipToCovers
    <3>2. CASE served' = served
      BY <3>2 DEF TypeOK, FanoutTypeOK
    <3> QED BY <1>6, <3>1, <3>2 DEF Publish
  <2>3. pc' \in [Actors -> ReplayerAt \cup RegisterAt \cup SessionAt] /\ seq' \in [Actors -> Nat]
    BY <1>6, <2>1 DEF Publish, Goto, ReplayerAt, TypeOK, FanoutTypeOK
  <2> QED BY <1>6, <2>2, <2>3, <2>4 DEF Publish, TypeOK, HubTypeOK, FanoutTypeOK, hubVars,
      fanoutVars, localVars, clientVars
<1>7. ASSUME NEW a \in Actors, UNCHANGED clientVars, Registered(a) PROVE TypeOK'
  BY <1>7 DEF Registered, AfterRegister, Goto, TypeOK, HubTypeOK, FanoutTypeOK, Actors,
      ReplayerAt, RegisterAt, SessionAt, hubVars, fanoutVars, localVars, clientVars
<1>8. ASSUME NEW a \in Actors, UNCHANGED clientVars, Register(a) PROVE TypeOK'
  BY <1>8 DEF Register, Goto, TypeOK, HubTypeOK, FanoutTypeOK, Actors, ReplayerAt,
      RegisterAt, SessionAt, hubVars, fanoutVars, localVars, clientVars
<1>9. ASSUME NEW a \in Actors, UNCHANGED clientVars, ReadHead(a) PROVE TypeOK'
  BY <1>9 DEF ReadHead, Goto, TypeOK, HubTypeOK, FanoutTypeOK, Actors, ReplayerAt,
      RegisterAt, SessionAt, hubVars, fanoutVars, localVars, clientVars
<1>10. ASSUME NEW a \in Actors, UNCHANGED clientVars, ReadHeadFails(a) PROVE TypeOK'
  BY <1>10 DEF ReadHeadFails, AfterRegister, Goto, TypeOK, HubTypeOK, FanoutTypeOK, Actors,
      ReplayerAt, RegisterAt, SessionAt, hubVars, fanoutVars, localVars, clientVars
<1>11. ASSUME NEW a \in Actors, UNCHANGED clientVars, SetCursor(a) PROVE TypeOK'
  <2>1. seq[a] \in 0..head
    BY <1>11 DEF SeqInv, TypeOK, FanoutTypeOK
  <2>2. cursor' \in 0..head \cup {NoCursor}
    BY <1>11, <2>1 DEF SetCursor, TypeOK, FanoutTypeOK
  <2>4. served' \subseteq Nat
    BY <1>11, <2>1, SkipToCovers DEF SetCursor
  <2>3. pc' \in [Actors -> ReplayerAt \cup RegisterAt \cup SessionAt] /\ seq' \in [Actors -> Nat]
    BY <1>11 DEF SetCursor, AfterRegister, Goto, ReplayerAt, SessionAt, TypeOK, FanoutTypeOK
  <2> QED BY <1>11, <2>2, <2>3, <2>4 DEF SetCursor, TypeOK, HubTypeOK, FanoutTypeOK, hubVars,
      fanoutVars, localVars, clientVars
<1>12. ASSUME NEW r \in Replayers, UNCHANGED clientVars, Reconcile(r) PROVE TypeOK'
  <2>1. r \in Actors
    BY <1>12 DEF Actors
  <2>2. cursor # NoCursor => cursor \in Nat
    BY DEF TypeOK, FanoutTypeOK
  <2>3. pc' \in [Actors -> ReplayerAt \cup RegisterAt \cup SessionAt]
    BY <1>12, <2>1 DEF Reconcile, Goto, ReplayerAt, RegisterAt, TypeOK, FanoutTypeOK
  <2>4. cur' \in [Replayers -> Nat]
    BY <1>12, <2>2 DEF Reconcile, TypeOK, FanoutTypeOK
  <2> QED BY <1>12, <2>3, <2>4 DEF Reconcile, TypeOK, HubTypeOK, FanoutTypeOK, hubVars,
      fanoutVars, localVars, clientVars
<1>13. ASSUME NEW r \in Replayers, UNCHANGED clientVars, ListRows(r) PROVE TypeOK'
  BY <1>13 DEF ListRows, Goto, TypeOK, HubTypeOK, FanoutTypeOK, Actors, ReplayerAt,
      RegisterAt, SessionAt, hubVars, fanoutVars, localVars, clientVars
<1>14. ASSUME NEW r \in Replayers, UNCHANGED clientVars, NoMoreRows(r) PROVE TypeOK'
  BY <1>14 DEF NoMoreRows, Return, Goto, TypeOK, HubTypeOK, FanoutTypeOK, Actors, ReplayerAt,
      RegisterAt, SessionAt, hubVars, fanoutVars, localVars, clientVars
<1>15. ASSUME NEW r \in Replayers, UNCHANGED clientVars, ReplayFails(r) PROVE TypeOK'
  BY <1>15 DEF ReplayFails, Return, Goto, TypeOK, HubTypeOK, FanoutTypeOK, Actors,
      ReplayerAt, RegisterAt, SessionAt, hubVars, fanoutVars, localVars, clientVars
<1>16. ASSUME NEW r \in Replayers, UNCHANGED clientVars, RowDelivered(r) PROVE TypeOK'
  <2>1. pc[r] \in WithPage /\ RowDone(r)
    BY <1>16 DEF RowDelivered, WithPage
  <2> QED BY <1>16, <2>1, RowDoneMoves DEF RowDelivered, TypeOK, HubTypeOK, FanoutTypeOK,
      hubVars, fanoutVars, localVars, clientVars
<1>17. ASSUME NEW r \in Replayers, UNCHANGED clientVars, TakeRow(r) PROVE TypeOK'
  <2>1. NextRow(r) \in 1..head
    BY <1>17, NextRowFollows DEF TakeRow, WithPage
  <2> QED BY <1>17, <2>1 DEF TakeRow, Goto, TypeOK, HubTypeOK, FanoutTypeOK, Actors,
      ReplayerAt, RegisterAt, SessionAt, hubVars, fanoutVars, localVars, clientVars
<1>18. ASSUME NEW r \in Replayers, UNCHANGED clientVars, GetChannel(r) PROVE TypeOK'
  <2>1. ChannelsFor \in Channels
    BY <1>18, ChannelMade DEF GetChannel, Actors
  <2> QED BY <1>18, <2>1 DEF GetChannel, CloneSender, Goto, TypeOK, HubTypeOK, FanoutTypeOK,
      Actors, ReplayerAt, RegisterAt, SessionAt, hubVars, fanoutVars, localVars, clientVars
<1>19. ASSUME NEW r \in Replayers, UNCHANGED clientVars, Send(r) PROVE TypeOK'
  <2>1. pc[r] \in WithPage /\ RowDone(r) /\ r \in Actors
    BY <1>19 DEF Send, WithPage, Actors
  <2>2. NextRow(r) \in Nat
    BY <2>1, NextRowFollows DEF TypeOK, FanoutTypeOK
  <2>5. PICK m \in Nat : Broadcast(sender[r], m)
    BY <1>19, <2>2 DEF Send, Resync
  <2>6. \A s \in Sessions : Append(queue[s], m) \in Seq(Nat)
    BY <2>5 DEF TypeOK, HubTypeOK
  <2>7. queue' \in [Sessions -> Seq(Nat)]
    BY <2>5, <2>6 DEF Broadcast, TypeOK, HubTypeOK
  <2>8. served' \subseteq Nat
    BY <1>19, <2>2 DEF Send, TypeOK, FanoutTypeOK
  <2>9. sender' \in [Actors -> Channels \cup {NoChannel}]
    BY <1>19 DEF Send, DropSender, TypeOK, HubTypeOK
  <2> QED BY <1>19, <2>1, <2>7, <2>8, <2>9, RowDoneMoves DEF Send, TypeOK, HubTypeOK,
      FanoutTypeOK, hubVars, fanoutVars, localVars, clientVars
<1>20. ASSUME NEW s \in Sessions, Connect(s) PROVE TypeOK'
  BY <1>20 DEF Connect, Goto, TypeOK, HubTypeOK, FanoutTypeOK, Actors, ReplayerAt,
      RegisterAt, SessionAt, hubVars, fanoutVars, localVars, clientVars
<1>21. ASSUME NEW s \in Sessions, GetChannels(s) PROVE TypeOK'
  <2>1. ChannelsFor \in Channels
    BY <1>21, ChannelMade DEF GetChannels, Actors
  <2> QED BY <1>21, <2>1 DEF GetChannels, CloneSender, Goto, TypeOK, HubTypeOK, FanoutTypeOK,
      Actors, ReplayerAt, RegisterAt, SessionAt, hubVars, fanoutVars, localVars, clientVars
<1>22. ASSUME NEW s \in Sessions, OpenSocket(s) PROVE TypeOK'
  BY <1>22 DEF OpenSocket, Subscribe, DropSender, Goto, TypeOK, HubTypeOK, FanoutTypeOK,
      Actors, ReplayerAt, RegisterAt, SessionAt, hubVars, fanoutVars, localVars, clientVars
<1>23. ASSUME NEW s \in Sessions, Load(s) PROVE TypeOK'
  BY <1>23 DEF Load, TypeOK, HubTypeOK, FanoutTypeOK, Actors, ReplayerAt, RegisterAt,
      SessionAt, hubVars, fanoutVars, localVars, clientVars
<1>24. ASSUME NEW s \in Sessions, Receive(s) PROVE TypeOK'
  <2>1. Head(queue[s]) \in Nat /\ Tail(queue[s]) \in Seq(Nat)
    BY <1>24 DEF Receive, TypeOK, HubTypeOK
  <2>2. queue' \in [Sessions -> Seq(Nat)]
    BY <1>24, <2>1 DEF Receive, TypeOK, HubTypeOK
  <2>3. have' \in [Sessions -> SUBSET Nat]
    BY <1>24, <2>1 DEF Receive, TypeOK
  <2>4. fetching' \in [Sessions -> BOOLEAN]
    BY <1>24 DEF Receive, TypeOK
  <2> QED BY <1>24, <2>2, <2>3, <2>4 DEF Receive, TypeOK, HubTypeOK, FanoutTypeOK, hubVars,
      fanoutVars, localVars, clientVars
<1>25. ASSUME NEW s \in Sessions, LagResync(s) PROVE TypeOK'
  <2>1. SubSeq(queue[s], Len(queue[s]) - Capacity + 1, Len(queue[s])) \in Seq(Nat)
    BY <1>25 DEF LagResync, Lagging, TypeOK, HubTypeOK
  <2> QED BY <1>25, <2>1 DEF LagResync, SkipToOldest, TypeOK, HubTypeOK, FanoutTypeOK,
      Actors, ReplayerAt, RegisterAt, SessionAt, hubVars, fanoutVars, localVars, clientVars
<1>26. ASSUME NEW s \in Sessions, LagCoalesced(s) PROVE TypeOK'
  <2>1. SubSeq(queue[s], Len(queue[s]) - Capacity + 1, Len(queue[s])) \in Seq(Nat)
    BY <1>26 DEF LagCoalesced, Lagging, TypeOK, HubTypeOK
  <2> QED BY <1>26, <2>1 DEF LagCoalesced, SkipToOldest, TypeOK, HubTypeOK, FanoutTypeOK,
      Actors, ReplayerAt, RegisterAt, SessionAt, hubVars, fanoutVars, localVars, clientVars
<1>27. ASSUME NEW s \in Sessions, DebounceOver(s) PROVE TypeOK'
  BY <1>27 DEF DebounceOver, TypeOK, HubTypeOK, FanoutTypeOK, Actors, ReplayerAt, RegisterAt,
      SessionAt, hubVars, fanoutVars, localVars, clientVars
<1>28. ASSUME NEW s \in Sessions, Disconnect(s) PROVE TypeOK'
  BY <1>28 DEF Disconnect, Unsubscribe, Goto, TypeOK, HubTypeOK, FanoutTypeOK, Actors,
      ReplayerAt, RegisterAt, SessionAt, hubVars, fanoutVars, localVars, clientVars
<1>29. ASSUME NEW s \in Sessions, Announce(s) PROVE TypeOK'
  <2>1. ChannelsFor \in Channels
    BY <1>29, ChannelMade DEF Announce, Actors
  <2> QED BY <1>29, <2>1 DEF Announce, Goto, TypeOK, HubTypeOK, FanoutTypeOK, Actors,
      ReplayerAt, RegisterAt, SessionAt, hubVars, fanoutVars, localVars, clientVars
<1>30. ASSUME NEW s \in Sessions, LeaveSilently(s) PROVE TypeOK'
  BY <1>30 DEF LeaveSilently, Goto, TypeOK, HubTypeOK, FanoutTypeOK, Actors, ReplayerAt,
      RegisterAt, SessionAt, hubVars, fanoutVars, localVars, clientVars
<1>31. ASSUME NEW s \in Sessions, Evict(s) PROVE TypeOK'
  BY <1>31 DEF Evict, EvictIfIdle, CutOff, Goto, TypeOK, HubTypeOK, FanoutTypeOK, Actors,
      ReplayerAt, RegisterAt, SessionAt, hubVars, fanoutVars, localVars, clientVars
<1>32. ASSUME SweepIdle PROVE TypeOK'
  BY <1>32 DEF SweepIdle, EvictIfIdle, CutOff, TypeOK, HubTypeOK, FanoutTypeOK, Actors,
      ReplayerAt, RegisterAt, SessionAt, hubVars, fanoutVars, localVars, clientVars
<1>33. CASE UNCHANGED vars
  BY <1>33 DEF vars, hubVars, fanoutVars, localVars, clientVars, TypeOK, HubTypeOK,
      FanoutTypeOK, Actors, ReplayerAt, RegisterAt, SessionAt, hubVars, fanoutVars,
          localVars, clientVars
<1> QED BY <1>1, <1>2, <1>3, <1>4, <1>5, <1>6, <1>7, <1>8, <1>9, <1>10, <1>11, <1>12, <1>13,
        <1>14, <1>15, <1>16, <1>17, <1>18, <1>19, <1>20, <1>21, <1>22, <1>23, <1>24, <1>25,
            <1>26, <1>27, <1>28, <1>29, <1>30, <1>31, <1>32, <1>33, StepCases

\* Every step keeps the holders of channels apart.
LEMMA HoldStep ==
  ASSUME HubInv, [Next]_vars
  PROVE  HoldInv'
<1> USE DEF HubInv
<1>1. ASSUME UNCHANGED clientVars, RemoteCommit PROVE HoldInv'
  BY <1>1 DEF RemoteCommit, HoldInv, Actors, ReplayerAt, RegisterAt, SessionAt, TypeOK,
      HubTypeOK, FanoutTypeOK, hubVars, fanoutVars, localVars, clientVars
<1>2. ASSUME UNCHANGED clientVars, ReceiveNotice PROVE HoldInv'
  BY <1>2 DEF ReceiveNotice, Goto, HoldInv, Actors, ReplayerAt, RegisterAt, SessionAt,
      TypeOK, HubTypeOK, FanoutTypeOK, hubVars, fanoutVars, localVars, clientVars
<1>3. ASSUME UNCHANGED clientVars, LoseNotice PROVE HoldInv'
  BY <1>3 DEF LoseNotice, HoldInv, Actors, ReplayerAt, RegisterAt, SessionAt, TypeOK,
      HubTypeOK, FanoutTypeOK, hubVars, fanoutVars, localVars, clientVars
<1>4. ASSUME UNCHANGED clientVars, RepairTick PROVE HoldInv'
  BY <1>4 DEF RepairTick, Goto, HoldInv, Actors, ReplayerAt, RegisterAt, SessionAt, TypeOK,
      HubTypeOK, FanoutTypeOK, hubVars, fanoutVars, localVars, clientVars
<1>5. ASSUME NEW p \in Publishers, UNCHANGED clientVars, LocalCommit(p) PROVE HoldInv'
  BY <1>5 DEF LocalCommit, Goto, HoldInv, Actors, ReplayerAt, RegisterAt, SessionAt, TypeOK,
      HubTypeOK, FanoutTypeOK, hubVars, fanoutVars, localVars, clientVars
<1>6. ASSUME NEW p \in Publishers, UNCHANGED clientVars, Publish(p) PROVE HoldInv'
  BY <1>6 DEF Publish, Goto, SkipTo, HoldInv, Actors, ReplayerAt, RegisterAt, SessionAt,
      TypeOK, HubTypeOK, FanoutTypeOK, hubVars, fanoutVars, localVars, clientVars
<1>7. ASSUME NEW a \in Actors, UNCHANGED clientVars, Registered(a) PROVE HoldInv'
  BY <1>7 DEF Registered, AfterRegister, Goto, HoldInv, Actors, ReplayerAt, RegisterAt,
      SessionAt, TypeOK, HubTypeOK, FanoutTypeOK, hubVars, fanoutVars, localVars, clientVars
<1>8. ASSUME NEW a \in Actors, UNCHANGED clientVars, Register(a) PROVE HoldInv'
  BY <1>8 DEF Register, Goto, HoldInv, Actors, ReplayerAt, RegisterAt, SessionAt, TypeOK,
      HubTypeOK, FanoutTypeOK, hubVars, fanoutVars, localVars, clientVars
<1>9. ASSUME NEW a \in Actors, UNCHANGED clientVars, ReadHead(a) PROVE HoldInv'
  BY <1>9 DEF ReadHead, Goto, HoldInv, Actors, ReplayerAt, RegisterAt, SessionAt, TypeOK,
      HubTypeOK, FanoutTypeOK, hubVars, fanoutVars, localVars, clientVars
<1>10. ASSUME NEW a \in Actors, UNCHANGED clientVars, ReadHeadFails(a) PROVE HoldInv'
  BY <1>10 DEF ReadHeadFails, AfterRegister, Goto, HoldInv, Actors, ReplayerAt, RegisterAt,
      SessionAt, TypeOK, HubTypeOK, FanoutTypeOK, hubVars, fanoutVars, localVars, clientVars
<1>11. ASSUME NEW a \in Actors, UNCHANGED clientVars, SetCursor(a) PROVE HoldInv'
  BY <1>11 DEF SetCursor, AfterRegister, Goto, SkipTo, HoldInv, Actors, ReplayerAt,
      RegisterAt, SessionAt, TypeOK, HubTypeOK, FanoutTypeOK, hubVars, fanoutVars, localVars,
          clientVars
<1>12. ASSUME NEW r \in Replayers, UNCHANGED clientVars, Reconcile(r) PROVE HoldInv'
  <2>1. PICK w \in {"register", "list"} : pc' = [pc EXCEPT ![r] = w]
    BY <1>12 DEF Reconcile, Goto
  <2> QED BY <1>12, <2>1 DEF Reconcile, HoldInv, Actors, ReplayerAt, RegisterAt, SessionAt,
      TypeOK, HubTypeOK, FanoutTypeOK, hubVars, fanoutVars, localVars, clientVars
<1>13. ASSUME NEW r \in Replayers, UNCHANGED clientVars, ListRows(r) PROVE HoldInv'
  BY <1>13 DEF ListRows, Goto, HoldInv, Actors, ReplayerAt, RegisterAt, SessionAt, TypeOK,
      HubTypeOK, FanoutTypeOK, hubVars, fanoutVars, localVars, clientVars
<1>14. ASSUME NEW r \in Replayers, UNCHANGED clientVars, NoMoreRows(r) PROVE HoldInv'
  BY <1>14 DEF NoMoreRows, Return, Goto, HoldInv, Actors, ReplayerAt, RegisterAt, SessionAt,
      TypeOK, HubTypeOK, FanoutTypeOK, hubVars, fanoutVars, localVars, clientVars
<1>15. ASSUME NEW r \in Replayers, UNCHANGED clientVars, ReplayFails(r) PROVE HoldInv'
  BY <1>15 DEF ReplayFails, Return, Goto, HoldInv, Actors, ReplayerAt, RegisterAt, SessionAt,
      TypeOK, HubTypeOK, FanoutTypeOK, hubVars, fanoutVars, localVars, clientVars
<1>16. ASSUME NEW r \in Replayers, UNCHANGED clientVars, RowDelivered(r) PROVE HoldInv'
  <2>1. pc[r] \in WithPage /\ RowDone(r) /\ r \in Actors /\ r \notin Sessions
    BY <1>16 DEF RowDelivered, WithPage, Actors
  <2>2. pc'[r] \in {"idle", "list", "row"} /\ \A a \in Actors \ {r} : pc'[a] = pc[a]
    BY <2>1, RowDoneMoves
  <2> QED BY <1>16, <2>1, <2>2 DEF RowDelivered, HoldInv, Actors, ReplayerAt, RegisterAt,
      SessionAt, TypeOK, HubTypeOK, FanoutTypeOK, hubVars, fanoutVars, localVars, clientVars
<1>17. ASSUME NEW r \in Replayers, UNCHANGED clientVars, TakeRow(r) PROVE HoldInv'
  BY <1>17 DEF TakeRow, Goto, HoldInv, Actors, ReplayerAt, RegisterAt, SessionAt, TypeOK,
      HubTypeOK, FanoutTypeOK, hubVars, fanoutVars, localVars, clientVars
<1>18. ASSUME NEW r \in Replayers, UNCHANGED clientVars, GetChannel(r) PROVE HoldInv'
  <2>1. ChannelsFor \in Channels /\ (chan # NoChannel => ChannelsFor = chan)
    BY <1>18, ChannelMade DEF GetChannel, Actors
  <2> QED BY <1>18, <2>1 DEF GetChannel, CloneSender, Goto, HoldInv, Actors, ReplayerAt,
      RegisterAt, SessionAt, TypeOK, HubTypeOK, FanoutTypeOK, hubVars, fanoutVars, localVars,
          clientVars
<1>19. ASSUME NEW r \in Replayers, UNCHANGED clientVars, Send(r) PROVE HoldInv'
  <2>1. pc[r] \in WithPage /\ RowDone(r) /\ r \in Actors /\ r \notin Sessions
    BY <1>19 DEF Send, WithPage, Actors
  <2>2. pc'[r] \in {"idle", "list", "row"} /\ \A a \in Actors \ {r} : pc'[a] = pc[a]
    BY <2>1, RowDoneMoves
  <2> QED BY <1>19, <2>1, <2>2 DEF Send, DropSender, HoldInv, Actors, ReplayerAt, RegisterAt,
      SessionAt, TypeOK, HubTypeOK, FanoutTypeOK, hubVars, fanoutVars, localVars, clientVars
<1>20. ASSUME NEW s \in Sessions, Connect(s) PROVE HoldInv'
  BY <1>20 DEF Connect, Goto, HoldInv, Actors, ReplayerAt, RegisterAt, SessionAt, TypeOK,
      HubTypeOK, FanoutTypeOK, hubVars, fanoutVars, localVars, clientVars
<1>21. ASSUME NEW s \in Sessions, GetChannels(s) PROVE HoldInv'
  <2>1. ChannelsFor \in Channels /\ (chan # NoChannel => ChannelsFor = chan)
    BY <1>21, ChannelMade DEF GetChannels, Actors
  <2> QED BY <1>21, <2>1 DEF GetChannels, CloneSender, Goto, HoldInv, Actors, ReplayerAt,
      RegisterAt, SessionAt, TypeOK, HubTypeOK, FanoutTypeOK, hubVars, fanoutVars, localVars,
          clientVars
<1>22. ASSUME NEW s \in Sessions, OpenSocket(s) PROVE HoldInv'
  BY <1>22 DEF OpenSocket, Subscribe, DropSender, Goto, HoldInv, Actors, ReplayerAt,
      RegisterAt, SessionAt, TypeOK, HubTypeOK, FanoutTypeOK, hubVars, fanoutVars, localVars,
          clientVars
<1>23. ASSUME NEW s \in Sessions, Load(s) PROVE HoldInv'
  BY <1>23 DEF Load, HoldInv, Actors, ReplayerAt, RegisterAt, SessionAt, TypeOK, HubTypeOK,
      FanoutTypeOK, hubVars, fanoutVars, localVars, clientVars
<1>24. ASSUME NEW s \in Sessions, Receive(s) PROVE HoldInv'
  BY <1>24 DEF Receive, HoldInv, Actors, ReplayerAt, RegisterAt, SessionAt, TypeOK,
      HubTypeOK, FanoutTypeOK, hubVars, fanoutVars, localVars, clientVars
<1>25. ASSUME NEW s \in Sessions, LagResync(s) PROVE HoldInv'
  BY <1>25 DEF LagResync, SkipToOldest, Lagging, HoldInv, Actors, ReplayerAt, RegisterAt,
      SessionAt, TypeOK, HubTypeOK, FanoutTypeOK, hubVars, fanoutVars, localVars, clientVars
<1>26. ASSUME NEW s \in Sessions, LagCoalesced(s) PROVE HoldInv'
  BY <1>26 DEF LagCoalesced, SkipToOldest, Lagging, HoldInv, Actors, ReplayerAt, RegisterAt,
      SessionAt, TypeOK, HubTypeOK, FanoutTypeOK, hubVars, fanoutVars, localVars, clientVars
<1>27. ASSUME NEW s \in Sessions, DebounceOver(s) PROVE HoldInv'
  BY <1>27 DEF DebounceOver, HoldInv, Actors, ReplayerAt, RegisterAt, SessionAt, TypeOK,
      HubTypeOK, FanoutTypeOK, hubVars, fanoutVars, localVars, clientVars
<1>28. ASSUME NEW s \in Sessions, Disconnect(s) PROVE HoldInv'
  BY <1>28 DEF Disconnect, Unsubscribe, Goto, HoldInv, Actors, ReplayerAt, RegisterAt,
      SessionAt, TypeOK, HubTypeOK, FanoutTypeOK, hubVars, fanoutVars, localVars, clientVars
<1>29. ASSUME NEW s \in Sessions, Announce(s) PROVE HoldInv'
  <2>1. ChannelsFor \in Channels /\ (chan # NoChannel => ChannelsFor = chan)
    BY <1>29, ChannelMade DEF Announce, Actors
  <2> QED BY <1>29, <2>1 DEF Announce, CloneSender, Goto, HoldInv, Actors, ReplayerAt,
      RegisterAt, SessionAt, TypeOK, HubTypeOK, FanoutTypeOK, hubVars, fanoutVars, localVars,
          clientVars
<1>30. ASSUME NEW s \in Sessions, LeaveSilently(s) PROVE HoldInv'
  BY <1>30 DEF LeaveSilently, Goto, HoldInv, Actors, ReplayerAt, RegisterAt, SessionAt,
      TypeOK, HubTypeOK, FanoutTypeOK, hubVars, fanoutVars, localVars, clientVars
<1>31. ASSUME NEW s \in Sessions, Evict(s) PROVE HoldInv'
  BY <1>31 DEF Evict, EvictIfIdle, CutOff, Goto, HoldInv, Actors, ReplayerAt, RegisterAt,
      SessionAt, TypeOK, HubTypeOK, FanoutTypeOK, hubVars, fanoutVars, localVars, clientVars
<1>32. ASSUME SweepIdle PROVE HoldInv'
  BY <1>32 DEF SweepIdle, EvictIfIdle, CutOff, HoldInv, Actors, ReplayerAt, RegisterAt,
      SessionAt, TypeOK, HubTypeOK, FanoutTypeOK, hubVars, fanoutVars, localVars, clientVars
<1>33. CASE UNCHANGED vars
  BY <1>33 DEF vars, hubVars, fanoutVars, localVars, clientVars, HoldInv, Actors, ReplayerAt,
      RegisterAt, SessionAt, TypeOK, HubTypeOK, FanoutTypeOK, hubVars, fanoutVars, localVars,
          clientVars
<1> QED BY <1>1, <1>2, <1>3, <1>4, <1>5, <1>6, <1>7, <1>8, <1>9, <1>10, <1>11, <1>12, <1>13,
        <1>14, <1>15, <1>16, <1>17, <1>18, <1>19, <1>20, <1>21, <1>22, <1>23, <1>24, <1>25,
            <1>26, <1>27, <1>28, <1>29, <1>30, <1>31, <1>32, <1>33, StepCases

\* Every step keeps the sessions that are not cut off on the hub's channel.
LEMMA ListenStep ==
  ASSUME HubInv, [Next]_vars
  PROVE  ListenInv'
<1> USE DEF HubInv
<1>1. ASSUME UNCHANGED clientVars, RemoteCommit PROVE ListenInv'
  BY <1>1 DEF RemoteCommit, ListenInv, HoldInv, Actors, ReplayerAt, RegisterAt, SessionAt,
      TypeOK, HubTypeOK, FanoutTypeOK, hubVars, fanoutVars, localVars, clientVars
<1>2. ASSUME UNCHANGED clientVars, ReceiveNotice PROVE ListenInv'
  BY <1>2 DEF ReceiveNotice, Goto, ListenInv, HoldInv, Actors, ReplayerAt, RegisterAt,
      SessionAt, TypeOK, HubTypeOK, FanoutTypeOK, hubVars, fanoutVars, localVars, clientVars
<1>3. ASSUME UNCHANGED clientVars, LoseNotice PROVE ListenInv'
  BY <1>3 DEF LoseNotice, ListenInv, HoldInv, Actors, ReplayerAt, RegisterAt, SessionAt,
      TypeOK, HubTypeOK, FanoutTypeOK, hubVars, fanoutVars, localVars, clientVars
<1>4. ASSUME UNCHANGED clientVars, RepairTick PROVE ListenInv'
  BY <1>4 DEF RepairTick, Goto, ListenInv, HoldInv, Actors, ReplayerAt, RegisterAt,
      SessionAt, TypeOK, HubTypeOK, FanoutTypeOK, hubVars, fanoutVars, localVars, clientVars
<1>5. ASSUME NEW p \in Publishers, UNCHANGED clientVars, LocalCommit(p) PROVE ListenInv'
  BY <1>5 DEF LocalCommit, Goto, ListenInv, HoldInv, Actors, ReplayerAt, RegisterAt,
      SessionAt, TypeOK, HubTypeOK, FanoutTypeOK, hubVars, fanoutVars, localVars, clientVars
<1>6. ASSUME NEW p \in Publishers, UNCHANGED clientVars, Publish(p) PROVE ListenInv'
  BY <1>6 DEF Publish, Goto, SkipTo, ListenInv, HoldInv, Actors, ReplayerAt, RegisterAt,
      SessionAt, TypeOK, HubTypeOK, FanoutTypeOK, hubVars, fanoutVars, localVars, clientVars
<1>7. ASSUME NEW a \in Actors, UNCHANGED clientVars, Registered(a) PROVE ListenInv'
  BY <1>7 DEF Registered, AfterRegister, Goto, ListenInv, HoldInv, Actors, ReplayerAt,
      RegisterAt, SessionAt, TypeOK, HubTypeOK, FanoutTypeOK, hubVars, fanoutVars, localVars,
          clientVars
<1>8. ASSUME NEW a \in Actors, UNCHANGED clientVars, Register(a) PROVE ListenInv'
  BY <1>8 DEF Register, Goto, ListenInv, HoldInv, Actors, ReplayerAt, RegisterAt, SessionAt,
      TypeOK, HubTypeOK, FanoutTypeOK, hubVars, fanoutVars, localVars, clientVars
<1>9. ASSUME NEW a \in Actors, UNCHANGED clientVars, ReadHead(a) PROVE ListenInv'
  BY <1>9 DEF ReadHead, Goto, ListenInv, HoldInv, Actors, ReplayerAt, RegisterAt, SessionAt,
      TypeOK, HubTypeOK, FanoutTypeOK, hubVars, fanoutVars, localVars, clientVars
<1>10. ASSUME NEW a \in Actors, UNCHANGED clientVars, ReadHeadFails(a) PROVE ListenInv'
  BY <1>10 DEF ReadHeadFails, AfterRegister, Goto, ListenInv, HoldInv, Actors, ReplayerAt,
      RegisterAt, SessionAt, TypeOK, HubTypeOK, FanoutTypeOK, hubVars, fanoutVars, localVars,
          clientVars
<1>11. ASSUME NEW a \in Actors, UNCHANGED clientVars, SetCursor(a) PROVE ListenInv'
  BY <1>11 DEF SetCursor, AfterRegister, Goto, SkipTo, ListenInv, HoldInv, Actors,
      ReplayerAt, RegisterAt, SessionAt, TypeOK, HubTypeOK, FanoutTypeOK, hubVars,
          fanoutVars, localVars, clientVars
<1>12. ASSUME NEW r \in Replayers, UNCHANGED clientVars, Reconcile(r) PROVE ListenInv'
  <2>1. PICK w \in {"register", "list"} : pc' = [pc EXCEPT ![r] = w]
    BY <1>12 DEF Reconcile, Goto
  <2> QED BY <1>12, <2>1 DEF Reconcile, ListenInv, HoldInv, Actors, ReplayerAt, RegisterAt,
      SessionAt, TypeOK, HubTypeOK, FanoutTypeOK, hubVars, fanoutVars, localVars, clientVars
<1>13. ASSUME NEW r \in Replayers, UNCHANGED clientVars, ListRows(r) PROVE ListenInv'
  BY <1>13 DEF ListRows, Goto, ListenInv, HoldInv, Actors, ReplayerAt, RegisterAt, SessionAt,
      TypeOK, HubTypeOK, FanoutTypeOK, hubVars, fanoutVars, localVars, clientVars
<1>14. ASSUME NEW r \in Replayers, UNCHANGED clientVars, NoMoreRows(r) PROVE ListenInv'
  BY <1>14 DEF NoMoreRows, Return, Goto, ListenInv, HoldInv, Actors, ReplayerAt, RegisterAt,
      SessionAt, TypeOK, HubTypeOK, FanoutTypeOK, hubVars, fanoutVars, localVars, clientVars
<1>15. ASSUME NEW r \in Replayers, UNCHANGED clientVars, ReplayFails(r) PROVE ListenInv'
  BY <1>15 DEF ReplayFails, Return, Goto, ListenInv, HoldInv, Actors, ReplayerAt, RegisterAt,
      SessionAt, TypeOK, HubTypeOK, FanoutTypeOK, hubVars, fanoutVars, localVars, clientVars
<1>16. ASSUME NEW r \in Replayers, UNCHANGED clientVars, RowDelivered(r) PROVE ListenInv'
  <2>1. pc[r] \in WithPage /\ RowDone(r) /\ r \in Actors /\ r \notin Sessions
    BY <1>16 DEF RowDelivered, WithPage, Actors
  <2>2. pc'[r] \in {"idle", "list", "row"} /\ \A a \in Actors \ {r} : pc'[a] = pc[a]
    BY <2>1, RowDoneMoves
  <2> QED BY <1>16, <2>1, <2>2 DEF RowDelivered, ListenInv, HoldInv, Actors, ReplayerAt,
      RegisterAt, SessionAt, TypeOK, HubTypeOK, FanoutTypeOK, hubVars, fanoutVars, localVars,
          clientVars
<1>17. ASSUME NEW r \in Replayers, UNCHANGED clientVars, TakeRow(r) PROVE ListenInv'
  BY <1>17 DEF TakeRow, Goto, ListenInv, HoldInv, Actors, ReplayerAt, RegisterAt, SessionAt,
      TypeOK, HubTypeOK, FanoutTypeOK, hubVars, fanoutVars, localVars, clientVars
<1>18. ASSUME NEW r \in Replayers, UNCHANGED clientVars, GetChannel(r) PROVE ListenInv'
  <2>1. ChannelsFor \in Channels /\ (chan # NoChannel => ChannelsFor = chan)
    BY <1>18, ChannelMade DEF GetChannel, Actors
  <2> QED BY <1>18, <2>1 DEF GetChannel, CloneSender, Goto, ListenInv, HoldInv, Actors,
      ReplayerAt, RegisterAt, SessionAt, TypeOK, HubTypeOK, FanoutTypeOK, hubVars,
          fanoutVars, localVars, clientVars
<1>19. ASSUME NEW r \in Replayers, UNCHANGED clientVars, Send(r) PROVE ListenInv'
  <2>1. pc[r] \in WithPage /\ RowDone(r) /\ r \in Actors /\ r \notin Sessions
    BY <1>19 DEF Send, WithPage, Actors
  <2>2. pc'[r] \in {"idle", "list", "row"} /\ \A a \in Actors \ {r} : pc'[a] = pc[a]
    BY <2>1, RowDoneMoves
  <2> QED BY <1>19, <2>1, <2>2 DEF Send, DropSender, ListenInv, HoldInv, Actors, ReplayerAt,
      RegisterAt, SessionAt, TypeOK, HubTypeOK, FanoutTypeOK, hubVars, fanoutVars, localVars,
          clientVars
<1>20. ASSUME NEW s \in Sessions, Connect(s) PROVE ListenInv'
  BY <1>20 DEF Connect, Goto, ListenInv, HoldInv, Actors, ReplayerAt, RegisterAt, SessionAt,
      TypeOK, HubTypeOK, FanoutTypeOK, hubVars, fanoutVars, localVars, clientVars
<1>21. ASSUME NEW s \in Sessions, GetChannels(s) PROVE ListenInv'
  <2>1. ChannelsFor \in Channels /\ (chan # NoChannel => ChannelsFor = chan)
    BY <1>21, ChannelMade DEF GetChannels, Actors
  <2> QED BY <1>21, <2>1 DEF GetChannels, CloneSender, Goto, ListenInv, HoldInv, Actors,
      ReplayerAt, RegisterAt, SessionAt, TypeOK, HubTypeOK, FanoutTypeOK, hubVars,
          fanoutVars, localVars, clientVars
<1>22. ASSUME NEW s \in Sessions, OpenSocket(s) PROVE ListenInv'
  BY <1>22 DEF OpenSocket, Subscribe, DropSender, Goto, ListenInv, HoldInv, Actors,
      ReplayerAt, RegisterAt, SessionAt, TypeOK, HubTypeOK, FanoutTypeOK, hubVars,
          fanoutVars, localVars, clientVars
<1>23. ASSUME NEW s \in Sessions, Load(s) PROVE ListenInv'
  BY <1>23 DEF Load, ListenInv, HoldInv, Actors, ReplayerAt, RegisterAt, SessionAt, TypeOK,
      HubTypeOK, FanoutTypeOK, hubVars, fanoutVars, localVars, clientVars
<1>24. ASSUME NEW s \in Sessions, Receive(s) PROVE ListenInv'
  BY <1>24 DEF Receive, ListenInv, HoldInv, Actors, ReplayerAt, RegisterAt, SessionAt,
      TypeOK, HubTypeOK, FanoutTypeOK, hubVars, fanoutVars, localVars, clientVars
<1>25. ASSUME NEW s \in Sessions, LagResync(s) PROVE ListenInv'
  BY <1>25 DEF LagResync, SkipToOldest, Lagging, ListenInv, HoldInv, Actors, ReplayerAt,
      RegisterAt, SessionAt, TypeOK, HubTypeOK, FanoutTypeOK, hubVars, fanoutVars, localVars,
          clientVars
<1>26. ASSUME NEW s \in Sessions, LagCoalesced(s) PROVE ListenInv'
  BY <1>26 DEF LagCoalesced, SkipToOldest, Lagging, ListenInv, HoldInv, Actors, ReplayerAt,
      RegisterAt, SessionAt, TypeOK, HubTypeOK, FanoutTypeOK, hubVars, fanoutVars, localVars,
          clientVars
<1>27. ASSUME NEW s \in Sessions, DebounceOver(s) PROVE ListenInv'
  BY <1>27 DEF DebounceOver, ListenInv, HoldInv, Actors, ReplayerAt, RegisterAt, SessionAt,
      TypeOK, HubTypeOK, FanoutTypeOK, hubVars, fanoutVars, localVars, clientVars
<1>28. ASSUME NEW s \in Sessions, Disconnect(s) PROVE ListenInv'
  BY <1>28 DEF Disconnect, Unsubscribe, Goto, ListenInv, HoldInv, Actors, ReplayerAt,
      RegisterAt, SessionAt, TypeOK, HubTypeOK, FanoutTypeOK, hubVars, fanoutVars, localVars,
          clientVars
<1>29. ASSUME NEW s \in Sessions, Announce(s) PROVE ListenInv'
  <2>1. ChannelsFor \in Channels /\ (chan # NoChannel => ChannelsFor = chan)
    BY <1>29, ChannelMade DEF Announce, Actors
  <2> QED BY <1>29, <2>1 DEF Announce, CloneSender, Goto, ListenInv, HoldInv, Actors,
      ReplayerAt, RegisterAt, SessionAt, TypeOK, HubTypeOK, FanoutTypeOK, hubVars,
          fanoutVars, localVars, clientVars
<1>30. ASSUME NEW s \in Sessions, LeaveSilently(s) PROVE ListenInv'
  BY <1>30 DEF LeaveSilently, Goto, ListenInv, HoldInv, Actors, ReplayerAt, RegisterAt,
      SessionAt, TypeOK, HubTypeOK, FanoutTypeOK, hubVars, fanoutVars, localVars, clientVars
<1>31. ASSUME NEW s \in Sessions, Evict(s) PROVE ListenInv'
  BY <1>31 DEF Evict, EvictIfIdle, Idle, CutOff, Goto, ListenInv, HoldInv, Actors,
      ReplayerAt, RegisterAt, SessionAt, TypeOK, HubTypeOK, FanoutTypeOK, hubVars,
          fanoutVars, localVars, clientVars
<1>32. ASSUME SweepIdle PROVE ListenInv'
  BY <1>32 DEF SweepIdle, EvictIfIdle, Idle, CutOff, Goto, ListenInv, HoldInv, Actors,
      ReplayerAt, RegisterAt, SessionAt, TypeOK, HubTypeOK, FanoutTypeOK, hubVars,
          fanoutVars, localVars, clientVars
<1>33. CASE UNCHANGED vars
  BY <1>33 DEF vars, hubVars, fanoutVars, localVars, clientVars, ListenInv, HoldInv, Actors,
      ReplayerAt, RegisterAt, SessionAt, TypeOK, HubTypeOK, FanoutTypeOK, hubVars,
          fanoutVars, localVars, clientVars
<1> QED BY <1>1, <1>2, <1>3, <1>4, <1>5, <1>6, <1>7, <1>8, <1>9, <1>10, <1>11, <1>12, <1>13,
        <1>14, <1>15, <1>16, <1>17, <1>18, <1>19, <1>20, <1>21, <1>22, <1>23, <1>24, <1>25,
            <1>26, <1>27, <1>28, <1>29, <1>30, <1>31, <1>32, <1>33, StepCases

\* Every step keeps the seqs the actors carry durable.
LEMMA SeqStep ==
  ASSUME HubInv, [Next]_vars
  PROVE  SeqInv'
<1> USE DEF HubInv
<1>1. ASSUME UNCHANGED clientVars, RemoteCommit PROVE SeqInv'
  BY <1>1 DEF RemoteCommit, SeqInv, Actors, ReplayerAt, RegisterAt, SessionAt, TypeOK,
      HubTypeOK, FanoutTypeOK, hubVars, fanoutVars, localVars, clientVars
<1>2. ASSUME UNCHANGED clientVars, ReceiveNotice PROVE SeqInv'
  BY <1>2 DEF ReceiveNotice, Goto, SeqInv, Actors, ReplayerAt, RegisterAt, SessionAt, TypeOK,
      HubTypeOK, FanoutTypeOK, hubVars, fanoutVars, localVars, clientVars
<1>3. ASSUME UNCHANGED clientVars, LoseNotice PROVE SeqInv'
  BY <1>3 DEF LoseNotice, SeqInv, Actors, ReplayerAt, RegisterAt, SessionAt, TypeOK,
      HubTypeOK, FanoutTypeOK, hubVars, fanoutVars, localVars, clientVars
<1>4. ASSUME UNCHANGED clientVars, RepairTick PROVE SeqInv'
  BY <1>4 DEF RepairTick, Goto, SeqInv, Actors, ReplayerAt, RegisterAt, SessionAt, TypeOK,
      HubTypeOK, FanoutTypeOK, hubVars, fanoutVars, localVars, clientVars
<1>5. ASSUME NEW p \in Publishers, UNCHANGED clientVars, LocalCommit(p) PROVE SeqInv'
  BY <1>5 DEF LocalCommit, Goto, SeqInv, Actors, ReplayerAt, RegisterAt, SessionAt, TypeOK,
      HubTypeOK, FanoutTypeOK, hubVars, fanoutVars, localVars, clientVars
<1>6. ASSUME NEW p \in Publishers, UNCHANGED clientVars, Publish(p) PROVE SeqInv'
  BY <1>6 DEF Publish, Goto, SkipTo, SeqInv, Actors, ReplayerAt, RegisterAt, SessionAt,
      TypeOK, HubTypeOK, FanoutTypeOK, hubVars, fanoutVars, localVars, clientVars
<1>7. ASSUME NEW a \in Actors, UNCHANGED clientVars, Registered(a) PROVE SeqInv'
  BY <1>7 DEF Registered, AfterRegister, Goto, SeqInv, Actors, ReplayerAt, RegisterAt,
      SessionAt, TypeOK, HubTypeOK, FanoutTypeOK, hubVars, fanoutVars, localVars, clientVars
<1>8. ASSUME NEW a \in Actors, UNCHANGED clientVars, Register(a) PROVE SeqInv'
  BY <1>8 DEF Register, Goto, SeqInv, Actors, ReplayerAt, RegisterAt, SessionAt, TypeOK,
      HubTypeOK, FanoutTypeOK, hubVars, fanoutVars, localVars, clientVars
<1>9. ASSUME NEW a \in Actors, UNCHANGED clientVars, ReadHead(a) PROVE SeqInv'
  BY <1>9 DEF ReadHead, Goto, SeqInv, Actors, ReplayerAt, RegisterAt, SessionAt, TypeOK,
      HubTypeOK, FanoutTypeOK, hubVars, fanoutVars, localVars, clientVars
<1>10. ASSUME NEW a \in Actors, UNCHANGED clientVars, ReadHeadFails(a) PROVE SeqInv'
  BY <1>10 DEF ReadHeadFails, AfterRegister, Goto, SeqInv, Actors, ReplayerAt, RegisterAt,
      SessionAt, TypeOK, HubTypeOK, FanoutTypeOK, hubVars, fanoutVars, localVars, clientVars
<1>11. ASSUME NEW a \in Actors, UNCHANGED clientVars, SetCursor(a) PROVE SeqInv'
  BY <1>11 DEF SetCursor, AfterRegister, Goto, SkipTo, SeqInv, Actors, ReplayerAt,
      RegisterAt, SessionAt, TypeOK, HubTypeOK, FanoutTypeOK, hubVars, fanoutVars, localVars,
          clientVars
<1>12. ASSUME NEW r \in Replayers, UNCHANGED clientVars, Reconcile(r) PROVE SeqInv'
  <2>1. PICK w \in {"register", "list"} : pc' = [pc EXCEPT ![r] = w]
    BY <1>12 DEF Reconcile, Goto
  <2>2. cursor # NoCursor => cursor \in Nat /\ cursor <= head
    BY DEF TypeOK, FanoutTypeOK
  <2>3. \A q \in Replayers : cur'[q] <= head
    BY <1>12, <2>2 DEF Reconcile, SeqInv, TypeOK, FanoutTypeOK
  <2> QED BY <1>12, <2>1, <2>3 DEF Reconcile, SeqInv, Actors, TypeOK, FanoutTypeOK
<1>13. ASSUME NEW r \in Replayers, UNCHANGED clientVars, ListRows(r) PROVE SeqInv'
  BY <1>13 DEF ListRows, Goto, SeqInv, Actors, ReplayerAt, RegisterAt, SessionAt, TypeOK,
      HubTypeOK, FanoutTypeOK, hubVars, fanoutVars, localVars, clientVars
<1>14. ASSUME NEW r \in Replayers, UNCHANGED clientVars, NoMoreRows(r) PROVE SeqInv'
  BY <1>14 DEF NoMoreRows, Return, Goto, SeqInv, Actors, ReplayerAt, RegisterAt, SessionAt,
      TypeOK, HubTypeOK, FanoutTypeOK, hubVars, fanoutVars, localVars, clientVars
<1>15. ASSUME NEW r \in Replayers, UNCHANGED clientVars, ReplayFails(r) PROVE SeqInv'
  BY <1>15 DEF ReplayFails, Return, Goto, SeqInv, Actors, ReplayerAt, RegisterAt, SessionAt,
      TypeOK, HubTypeOK, FanoutTypeOK, hubVars, fanoutVars, localVars, clientVars
<1>16. ASSUME NEW r \in Replayers, UNCHANGED clientVars, RowDelivered(r) PROVE SeqInv'
  <2>1. pc[r] \in WithPage /\ RowDone(r) /\ r \in Actors /\ r \notin Sessions
    BY <1>16 DEF RowDelivered, WithPage, Actors
  <2>2. pc'[r] \in {"idle", "list", "row"} /\ \A a \in Actors \ {r} : pc'[a] = pc[a]
    BY <2>1, RowDoneMoves
  <2>3. NextRow(r) <= head
    BY <2>1, NextRowFollows DEF TypeOK, FanoutTypeOK
  <2>4. \A q \in Replayers : cur'[q] <= head
    BY <2>1, <2>3 DEF RowDone, Return, SeqInv, TypeOK, FanoutTypeOK
  <2> QED BY <1>16, <2>1, <2>2, <2>4 DEF RowDelivered, SeqInv, Actors, TypeOK, FanoutTypeOK
<1>17. ASSUME NEW r \in Replayers, UNCHANGED clientVars, TakeRow(r) PROVE SeqInv'
  BY <1>17 DEF TakeRow, Goto, SeqInv, Actors, ReplayerAt, RegisterAt, SessionAt, TypeOK,
      HubTypeOK, FanoutTypeOK, hubVars, fanoutVars, localVars, clientVars
<1>18. ASSUME NEW r \in Replayers, UNCHANGED clientVars, GetChannel(r) PROVE SeqInv'
  BY <1>18 DEF GetChannel, CloneSender, Goto, SeqInv, Actors, ReplayerAt, RegisterAt,
      SessionAt, TypeOK, HubTypeOK, FanoutTypeOK, hubVars, fanoutVars, localVars, clientVars
<1>19. ASSUME NEW r \in Replayers, UNCHANGED clientVars, Send(r) PROVE SeqInv'
  <2>1. pc[r] \in WithPage /\ RowDone(r) /\ r \in Actors /\ r \notin Sessions
    BY <1>19 DEF Send, WithPage, Actors
  <2>2. pc'[r] \in {"idle", "list", "row"} /\ \A a \in Actors \ {r} : pc'[a] = pc[a]
    BY <2>1, RowDoneMoves
  <2>3. NextRow(r) <= head
    BY <2>1, NextRowFollows DEF TypeOK, FanoutTypeOK
  <2>4. \A q \in Replayers : cur'[q] <= head
    BY <2>1, <2>3 DEF RowDone, Return, SeqInv, TypeOK, FanoutTypeOK
  <2> QED BY <1>19, <2>1, <2>2, <2>4 DEF Send, SeqInv, Actors, TypeOK, FanoutTypeOK
<1>20. ASSUME NEW s \in Sessions, Connect(s) PROVE SeqInv'
  BY <1>20 DEF Connect, Goto, SeqInv, Actors, ReplayerAt, RegisterAt, SessionAt, TypeOK,
      HubTypeOK, FanoutTypeOK, hubVars, fanoutVars, localVars, clientVars
<1>21. ASSUME NEW s \in Sessions, GetChannels(s) PROVE SeqInv'
  BY <1>21 DEF GetChannels, CloneSender, Goto, SeqInv, Actors, ReplayerAt, RegisterAt,
      SessionAt, TypeOK, HubTypeOK, FanoutTypeOK, hubVars, fanoutVars, localVars, clientVars
<1>22. ASSUME NEW s \in Sessions, OpenSocket(s) PROVE SeqInv'
  BY <1>22 DEF OpenSocket, Subscribe, DropSender, Goto, SeqInv, Actors, ReplayerAt,
      RegisterAt, SessionAt, TypeOK, HubTypeOK, FanoutTypeOK, hubVars, fanoutVars, localVars,
          clientVars
<1>23. ASSUME NEW s \in Sessions, Load(s) PROVE SeqInv'
  BY <1>23 DEF Load, SeqInv, Actors, ReplayerAt, RegisterAt, SessionAt, TypeOK, HubTypeOK,
      FanoutTypeOK, hubVars, fanoutVars, localVars, clientVars
<1>24. ASSUME NEW s \in Sessions, Receive(s) PROVE SeqInv'
  BY <1>24 DEF Receive, SeqInv, Actors, ReplayerAt, RegisterAt, SessionAt, TypeOK, HubTypeOK,
      FanoutTypeOK, hubVars, fanoutVars, localVars, clientVars
<1>25. ASSUME NEW s \in Sessions, LagResync(s) PROVE SeqInv'
  BY <1>25 DEF LagResync, SkipToOldest, Lagging, SeqInv, Actors, ReplayerAt, RegisterAt,
      SessionAt, TypeOK, HubTypeOK, FanoutTypeOK, hubVars, fanoutVars, localVars, clientVars
<1>26. ASSUME NEW s \in Sessions, LagCoalesced(s) PROVE SeqInv'
  BY <1>26 DEF LagCoalesced, SkipToOldest, Lagging, SeqInv, Actors, ReplayerAt, RegisterAt,
      SessionAt, TypeOK, HubTypeOK, FanoutTypeOK, hubVars, fanoutVars, localVars, clientVars
<1>27. ASSUME NEW s \in Sessions, DebounceOver(s) PROVE SeqInv'
  BY <1>27 DEF DebounceOver, SeqInv, Actors, ReplayerAt, RegisterAt, SessionAt, TypeOK,
      HubTypeOK, FanoutTypeOK, hubVars, fanoutVars, localVars, clientVars
<1>28. ASSUME NEW s \in Sessions, Disconnect(s) PROVE SeqInv'
  BY <1>28 DEF Disconnect, Unsubscribe, Goto, SeqInv, Actors, ReplayerAt, RegisterAt,
      SessionAt, TypeOK, HubTypeOK, FanoutTypeOK, hubVars, fanoutVars, localVars, clientVars
<1>29. ASSUME NEW s \in Sessions, Announce(s) PROVE SeqInv'
  BY <1>29 DEF Announce, Goto, SeqInv, Actors, ReplayerAt, RegisterAt, SessionAt, TypeOK,
      HubTypeOK, FanoutTypeOK, hubVars, fanoutVars, localVars, clientVars
<1>30. ASSUME NEW s \in Sessions, LeaveSilently(s) PROVE SeqInv'
  BY <1>30 DEF LeaveSilently, Goto, SeqInv, Actors, ReplayerAt, RegisterAt, SessionAt,
      TypeOK, HubTypeOK, FanoutTypeOK, hubVars, fanoutVars, localVars, clientVars
<1>31. ASSUME NEW s \in Sessions, Evict(s) PROVE SeqInv'
  BY <1>31 DEF Evict, EvictIfIdle, CutOff, Goto, SeqInv, Actors, ReplayerAt, RegisterAt,
      SessionAt, TypeOK, HubTypeOK, FanoutTypeOK, hubVars, fanoutVars, localVars, clientVars
<1>32. ASSUME SweepIdle PROVE SeqInv'
  BY <1>32 DEF SweepIdle, EvictIfIdle, CutOff, SeqInv, Actors, ReplayerAt, RegisterAt,
      SessionAt, TypeOK, HubTypeOK, FanoutTypeOK, hubVars, fanoutVars, localVars, clientVars
<1>33. CASE UNCHANGED vars
  BY <1>33 DEF vars, hubVars, fanoutVars, localVars, clientVars, SeqInv, Actors, ReplayerAt,
      RegisterAt, SessionAt, TypeOK, HubTypeOK, FanoutTypeOK, hubVars, fanoutVars, localVars,
          clientVars
<1> QED BY <1>1, <1>2, <1>3, <1>4, <1>5, <1>6, <1>7, <1>8, <1>9, <1>10, <1>11, <1>12, <1>13,
        <1>14, <1>15, <1>16, <1>17, <1>18, <1>19, <1>20, <1>21, <1>22, <1>23, <1>24, <1>25,
            <1>26, <1>27, <1>28, <1>29, <1>30, <1>31, <1>32, <1>33, StepCases

\* Every step keeps the pages of the replays without a gap.
LEMMA PageStep ==
  ASSUME HubInv, [Next]_vars
  PROVE  PageInv'
<1> USE DEF HubInv
<1>1. ASSUME UNCHANGED clientVars, RemoteCommit PROVE PageInv'
  BY <1>1 DEF RemoteCommit, PageInv, WithPage, HoldInv, Actors, ReplayerAt, RegisterAt,
      SessionAt, TypeOK, HubTypeOK, FanoutTypeOK, hubVars, fanoutVars, localVars, clientVars
<1>2. ASSUME UNCHANGED clientVars, ReceiveNotice PROVE PageInv'
  BY <1>2 DEF ReceiveNotice, Goto, PageInv, WithPage, HoldInv, Actors, ReplayerAt,
      RegisterAt, SessionAt, TypeOK, HubTypeOK, FanoutTypeOK, hubVars, fanoutVars, localVars,
          clientVars
<1>3. ASSUME UNCHANGED clientVars, LoseNotice PROVE PageInv'
  BY <1>3 DEF LoseNotice, PageInv, WithPage, HoldInv, Actors, ReplayerAt, RegisterAt,
      SessionAt, TypeOK, HubTypeOK, FanoutTypeOK, hubVars, fanoutVars, localVars, clientVars
<1>4. ASSUME UNCHANGED clientVars, RepairTick PROVE PageInv'
  BY <1>4 DEF RepairTick, Goto, PageInv, WithPage, HoldInv, Actors, ReplayerAt, RegisterAt,
      SessionAt, TypeOK, HubTypeOK, FanoutTypeOK, hubVars, fanoutVars, localVars, clientVars
<1>5. ASSUME NEW p \in Publishers, UNCHANGED clientVars, LocalCommit(p) PROVE PageInv'
  BY <1>5 DEF LocalCommit, Goto, PageInv, WithPage, HoldInv, Actors, ReplayerAt, RegisterAt,
      SessionAt, TypeOK, HubTypeOK, FanoutTypeOK, hubVars, fanoutVars, localVars, clientVars
<1>6. ASSUME NEW p \in Publishers, UNCHANGED clientVars, Publish(p) PROVE PageInv'
  BY <1>6 DEF Publish, Goto, SkipTo, PageInv, WithPage, HoldInv, Actors, ReplayerAt,
      RegisterAt, SessionAt, TypeOK, HubTypeOK, FanoutTypeOK, hubVars, fanoutVars, localVars,
          clientVars
<1>7. ASSUME NEW a \in Actors, UNCHANGED clientVars, Registered(a) PROVE PageInv'
  BY <1>7 DEF Registered, AfterRegister, Goto, PageInv, WithPage, HoldInv, Actors,
      ReplayerAt, RegisterAt, SessionAt, TypeOK, HubTypeOK, FanoutTypeOK, hubVars,
          fanoutVars, localVars, clientVars
<1>8. ASSUME NEW a \in Actors, UNCHANGED clientVars, Register(a) PROVE PageInv'
  BY <1>8 DEF Register, Goto, PageInv, WithPage, HoldInv, Actors, ReplayerAt, RegisterAt,
      SessionAt, TypeOK, HubTypeOK, FanoutTypeOK, hubVars, fanoutVars, localVars, clientVars
<1>9. ASSUME NEW a \in Actors, UNCHANGED clientVars, ReadHead(a) PROVE PageInv'
  BY <1>9 DEF ReadHead, Goto, PageInv, WithPage, HoldInv, Actors, ReplayerAt, RegisterAt,
      SessionAt, TypeOK, HubTypeOK, FanoutTypeOK, hubVars, fanoutVars, localVars, clientVars
<1>10. ASSUME NEW a \in Actors, UNCHANGED clientVars, ReadHeadFails(a) PROVE PageInv'
  BY <1>10 DEF ReadHeadFails, AfterRegister, Goto, PageInv, WithPage, HoldInv, Actors,
      ReplayerAt, RegisterAt, SessionAt, TypeOK, HubTypeOK, FanoutTypeOK, hubVars,
          fanoutVars, localVars, clientVars
<1>11. ASSUME NEW a \in Actors, UNCHANGED clientVars, SetCursor(a) PROVE PageInv'
  BY <1>11 DEF SetCursor, AfterRegister, Goto, SkipTo, PageInv, WithPage, HoldInv, Actors,
      ReplayerAt, RegisterAt, SessionAt, TypeOK, HubTypeOK, FanoutTypeOK, hubVars,
          fanoutVars, localVars, clientVars
<1>12. ASSUME NEW r \in Replayers, UNCHANGED clientVars, Reconcile(r) PROVE PageInv'
  <2>1. \A q \in Replayers : pc'[q] \in WithPage =>
          pc'[q] = pc[q] /\ cur'[q] = cur[q] /\ rows'[q] = rows[q]
    BY <1>12 DEF Reconcile, Goto, WithPage, TypeOK, FanoutTypeOK, Actors
  <2>2. head' = head
    BY <1>12 DEF Reconcile
  <2> QED BY <2>1, <2>2 DEF PageInv
<1>13. ASSUME NEW r \in Replayers, UNCHANGED clientVars, ListRows(r) PROVE PageInv'
  <2> DEFINE top == IF cur[r] + Page <= head THEN cur[r] + Page ELSE head
  <2>1. cur[r] \in Nat /\ head \in Nat /\ cur[r] < head /\ r \in Actors
    BY <1>13 DEF ListRows, TypeOK, FanoutTypeOK, Actors
  <2>2. {s \in 1..head : cur[r] < s /\ s <= cur[r] + Page} = (cur[r] + 1)..top
    BY <2>1
  <2>3. top \in 1..head /\ cur[r] < top
    BY <2>1
  <2> HIDE DEF top
  <2>4. rows' = [rows EXCEPT ![r] = (cur[r] + 1)..top]
    BY <1>13, <2>2 DEF ListRows
  <2> SUFFICES ASSUME NEW q \in Replayers, pc'[q] \in WithPage
               PROVE  \E t \in 1..head : cur'[q] < t /\ rows'[q] = (cur'[q] + 1)..t
    BY <1>13 DEF ListRows, PageInv
  <2>5. CASE q = r
    BY <1>13, <2>3, <2>4, <2>5 DEF ListRows, TypeOK, FanoutTypeOK
  <2>6. CASE q # r
    <3>1. pc'[q] = pc[q] /\ cur'[q] = cur[q] /\ rows'[q] = rows[q]
      BY <1>13, <2>4, <2>6 DEF ListRows, Goto, TypeOK, FanoutTypeOK, Actors
    <3> QED BY <3>1 DEF PageInv
  <2> QED BY <2>5, <2>6
<1>14. ASSUME NEW r \in Replayers, UNCHANGED clientVars, NoMoreRows(r) PROVE PageInv'
  BY <1>14 DEF NoMoreRows, Return, Goto, PageInv, WithPage, HoldInv, Actors, ReplayerAt,
      RegisterAt, SessionAt, TypeOK, HubTypeOK, FanoutTypeOK, hubVars, fanoutVars, localVars,
          clientVars
<1>15. ASSUME NEW r \in Replayers, UNCHANGED clientVars, ReplayFails(r) PROVE PageInv'
  BY <1>15 DEF ReplayFails, Return, Goto, PageInv, WithPage, HoldInv, Actors, ReplayerAt,
      RegisterAt, SessionAt, TypeOK, HubTypeOK, FanoutTypeOK, hubVars, fanoutVars, localVars,
          clientVars
<1>16. ASSUME NEW r \in Replayers, UNCHANGED clientVars, RowDelivered(r) PROVE PageInv'
  <2>1. pc[r] \in WithPage /\ RowDone(r) /\ r \in Actors
    BY <1>16 DEF RowDelivered, WithPage, Actors
  <2> SUFFICES ASSUME NEW q \in Replayers, pc'[q] \in WithPage
               PROVE  \E top \in 1..head : cur'[q] < top /\ rows'[q] = (cur'[q] + 1)..top
    BY <1>16 DEF RowDelivered, PageInv
  <2>2. CASE q = r
    BY <2>1, <2>2, RowDoneMoves DEF WithPage
  <2>3. CASE q # r
    <3>1. pc'[q] = pc[q] /\ cur'[q] = cur[q] /\ rows'[q] = rows[q]
      BY <2>1, <2>3, RowDoneMoves DEF Actors
    <3> QED BY <3>1 DEF PageInv
  <2> QED BY <2>2, <2>3
<1>17. ASSUME NEW r \in Replayers, UNCHANGED clientVars, TakeRow(r) PROVE PageInv'
  BY <1>17 DEF TakeRow, Goto, PageInv, WithPage, HoldInv, Actors, ReplayerAt, RegisterAt,
      SessionAt, TypeOK, HubTypeOK, FanoutTypeOK, hubVars, fanoutVars, localVars, clientVars
<1>18. ASSUME NEW r \in Replayers, UNCHANGED clientVars, GetChannel(r) PROVE PageInv'
  BY <1>18 DEF GetChannel, CloneSender, Goto, PageInv, WithPage, HoldInv, Actors, ReplayerAt,
      RegisterAt, SessionAt, TypeOK, HubTypeOK, FanoutTypeOK, hubVars, fanoutVars, localVars,
          clientVars
<1>19. ASSUME NEW r \in Replayers, UNCHANGED clientVars, Send(r) PROVE PageInv'
  <2>1. pc[r] \in WithPage /\ RowDone(r) /\ r \in Actors
    BY <1>19 DEF Send, WithPage, Actors
  <2> SUFFICES ASSUME NEW q \in Replayers, pc'[q] \in WithPage
               PROVE  \E top \in 1..head : cur'[q] < top /\ rows'[q] = (cur'[q] + 1)..top
    BY <1>19 DEF Send, PageInv
  <2>2. CASE q = r
    BY <2>1, <2>2, RowDoneMoves DEF WithPage
  <2>3. CASE q # r
    <3>1. pc'[q] = pc[q] /\ cur'[q] = cur[q] /\ rows'[q] = rows[q]
      BY <2>1, <2>3, RowDoneMoves DEF Actors
    <3> QED BY <3>1 DEF PageInv
  <2> QED BY <2>2, <2>3
<1>20. ASSUME NEW s \in Sessions, Connect(s) PROVE PageInv'
  BY <1>20 DEF Connect, Goto, PageInv, WithPage, HoldInv, Actors, ReplayerAt, RegisterAt,
      SessionAt, TypeOK, HubTypeOK, FanoutTypeOK, hubVars, fanoutVars, localVars, clientVars
<1>21. ASSUME NEW s \in Sessions, GetChannels(s) PROVE PageInv'
  BY <1>21 DEF GetChannels, CloneSender, Goto, PageInv, WithPage, HoldInv, Actors,
      ReplayerAt, RegisterAt, SessionAt, TypeOK, HubTypeOK, FanoutTypeOK, hubVars,
          fanoutVars, localVars, clientVars
<1>22. ASSUME NEW s \in Sessions, OpenSocket(s) PROVE PageInv'
  BY <1>22 DEF OpenSocket, Subscribe, DropSender, Goto, PageInv, WithPage, HoldInv, Actors,
      ReplayerAt, RegisterAt, SessionAt, TypeOK, HubTypeOK, FanoutTypeOK, hubVars,
          fanoutVars, localVars, clientVars
<1>23. ASSUME NEW s \in Sessions, Load(s) PROVE PageInv'
  BY <1>23 DEF Load, PageInv, WithPage, HoldInv, Actors, ReplayerAt, RegisterAt, SessionAt,
      TypeOK, HubTypeOK, FanoutTypeOK, hubVars, fanoutVars, localVars, clientVars
<1>24. ASSUME NEW s \in Sessions, Receive(s) PROVE PageInv'
  BY <1>24 DEF Receive, PageInv, WithPage, HoldInv, Actors, ReplayerAt, RegisterAt,
      SessionAt, TypeOK, HubTypeOK, FanoutTypeOK, hubVars, fanoutVars, localVars, clientVars
<1>25. ASSUME NEW s \in Sessions, LagResync(s) PROVE PageInv'
  BY <1>25 DEF LagResync, SkipToOldest, Lagging, PageInv, WithPage, HoldInv, Actors,
      ReplayerAt, RegisterAt, SessionAt, TypeOK, HubTypeOK, FanoutTypeOK, hubVars,
          fanoutVars, localVars, clientVars
<1>26. ASSUME NEW s \in Sessions, LagCoalesced(s) PROVE PageInv'
  BY <1>26 DEF LagCoalesced, SkipToOldest, Lagging, PageInv, WithPage, HoldInv, Actors,
      ReplayerAt, RegisterAt, SessionAt, TypeOK, HubTypeOK, FanoutTypeOK, hubVars,
          fanoutVars, localVars, clientVars
<1>27. ASSUME NEW s \in Sessions, DebounceOver(s) PROVE PageInv'
  BY <1>27 DEF DebounceOver, PageInv, WithPage, HoldInv, Actors, ReplayerAt, RegisterAt,
      SessionAt, TypeOK, HubTypeOK, FanoutTypeOK, hubVars, fanoutVars, localVars, clientVars
<1>28. ASSUME NEW s \in Sessions, Disconnect(s) PROVE PageInv'
  BY <1>28 DEF Disconnect, Unsubscribe, Goto, PageInv, WithPage, HoldInv, Actors, ReplayerAt,
      RegisterAt, SessionAt, TypeOK, HubTypeOK, FanoutTypeOK, hubVars, fanoutVars, localVars,
          clientVars
<1>29. ASSUME NEW s \in Sessions, Announce(s) PROVE PageInv'
  BY <1>29 DEF Announce, Goto, PageInv, WithPage, HoldInv, Actors, ReplayerAt, RegisterAt,
      SessionAt, TypeOK, HubTypeOK, FanoutTypeOK, hubVars, fanoutVars, localVars, clientVars
<1>30. ASSUME NEW s \in Sessions, LeaveSilently(s) PROVE PageInv'
  BY <1>30 DEF LeaveSilently, Goto, PageInv, WithPage, HoldInv, Actors, ReplayerAt,
      RegisterAt, SessionAt, TypeOK, HubTypeOK, FanoutTypeOK, hubVars, fanoutVars, localVars,
          clientVars
<1>31. ASSUME NEW s \in Sessions, Evict(s) PROVE PageInv'
  BY <1>31 DEF Evict, EvictIfIdle, CutOff, Goto, PageInv, WithPage, HoldInv, Actors,
      ReplayerAt, RegisterAt, SessionAt, TypeOK, HubTypeOK, FanoutTypeOK, hubVars,
          fanoutVars, localVars, clientVars
<1>32. ASSUME SweepIdle PROVE PageInv'
  BY <1>32 DEF SweepIdle, EvictIfIdle, CutOff, PageInv, WithPage, HoldInv, Actors,
      ReplayerAt, RegisterAt, SessionAt, TypeOK, HubTypeOK, FanoutTypeOK, hubVars,
          fanoutVars, localVars, clientVars
<1>33. CASE UNCHANGED vars
  BY <1>33 DEF vars, hubVars, fanoutVars, localVars, clientVars, PageInv, WithPage, HoldInv,
      Actors, ReplayerAt, RegisterAt, SessionAt, TypeOK, HubTypeOK, FanoutTypeOK, hubVars,
          fanoutVars, localVars, clientVars
<1> QED BY <1>1, <1>2, <1>3, <1>4, <1>5, <1>6, <1>7, <1>8, <1>9, <1>10, <1>11, <1>12, <1>13,
        <1>14, <1>15, <1>16, <1>17, <1>18, <1>19, <1>20, <1>21, <1>22, <1>23, <1>24, <1>25,
            <1>26, <1>27, <1>28, <1>29, <1>30, <1>31, <1>32, <1>33, StepCases

\* The initial state.
LEMMA HubStart == Init => HubInv
<1> SUFFICES ASSUME Init PROVE HubInv
  OBVIOUS
<1> USE DEF Init, HubInit, FanoutInit
<1>1. TypeOK
  <2>1. HubTypeOK
    BY DEF HubTypeOK
  <2>2. /\ head \in Nat /\ notice \in BOOLEAN /\ cursor \in 0..head \cup {NoCursor}
        /\ pc \in [Actors -> ReplayerAt \cup RegisterAt \cup SessionAt]
    BY DEF Actors, ReplayerAt, RegisterAt, SessionAt
  <2>3. /\ seq \in [Actors -> Nat] /\ cur \in [Replayers -> Nat]
        /\ rows \in [Replayers -> SUBSET Nat] /\ full \in [Replayers -> BOOLEAN]
        /\ served \subseteq Nat
    OBVIOUS
  <2> QED BY <2>1, <2>2, <2>3 DEF TypeOK, FanoutTypeOK
<1>2. HoldInv /\ ListenInv
  BY DEF HoldInv, ListenInv, Actors, ReplayerAt, RegisterAt, SessionAt
<1>3. SeqInv /\ PageInv
  BY DEF SeqInv, PageInv, WithPage, Actors
<1> QED BY <1>1, <1>2, <1>3 DEF HubInv

\* Every step of the deployment keeps HubInv.
LEMMA HubStep ==
  ASSUME HubInv, [Next]_vars
  PROVE  HubInv'
BY TypeStep, HoldStep, ListenStep, SeqStep, PageStep DEF HubInv

\* HubInv holds at every step.
LEMMA HubInvariance == Spec => []HubInv
<1>1. HubInv /\ [Next]_vars => HubInv'
  BY HubStep
<1> QED BY HubStart, <1>1, PTL DEF Spec

\* RealtimeHub and its sessions stay consistent, for any number of sessions,
\* publishers and other boards: channels_for never runs out, the cursor never
\* passes the head, and an open session that was not evicted between its
\* channels_for and its subscribe listens to the channel the hub publishes on.
THEOREM HubStaysConsistent == Spec => []HubConsistent
<1>1. HubInv => HubConsistent
  BY DEF HubInv, HubConsistent, ListensToHub, ListenInv
<1> QED BY HubInvariance, <1>1, PTL

-----------------------------------------------------------------------------
(* No pair is dropped behind the cursor *)

\* A row stays covered if it stays in the hand that has it or is served.
LEMMA CoverKept ==
  ASSUME served \subseteq served', NEW m, Covered(m),
         \A r \in Replayers : pc[r] \in {"channel", "send"} =>
           \/ pc'[r] \in {"channel", "send"} /\ cur'[r] = cur[r]
           \/ cur[r] + 1 \in served'
  PROVE  Covered(m)'
<1>1. CASE m \in served
  BY <1>1 DEF Covered
<1>2. CASE m \notin served
  <2>1. PICK r \in Replayers : pc[r] \in {"channel", "send"} /\ cur[r] + 1 = m
    BY <1>2 DEF Covered
  <2> QED BY <2>1 DEF Covered
<1> QED BY <1>1, <1>2

\* What a step has to keep: the rows in hand, and cursors that move only over
\* covered rows.
CoverFrame ==
  /\ served \subseteq served'
  /\ \A r \in Replayers : pc[r] \in {"channel", "send"} =>
       \/ pc'[r] \in {"channel", "send"} /\ cur'[r] = cur[r]
       \/ cur[r] + 1 \in served'
  /\ \A r \in Replayers : pc'[r] \in Replaying =>
       \/ pc[r] \in Replaying /\ cur'[r] = cur[r]
       \/ cur'[r] = cursor
       \/ pc[r] \in Replaying /\ cur'[r] = cur[r] + 1 /\ (cur'[r] <= cursor \/ cur'[r] \in served')

\* A step within the frame whose cursor moves only over covered rows keeps
\* CoverInv.
LEMMA CoverFrameKeeps ==
  ASSUME TypeOK, CoverInv, CoverFrame, cursor' \in Int,
         \A m \in 1..cursor' : m <= cursor \/ Covered(m) \/ Covered(m)'
  PROVE  CoverInv'
<1>0. cursor \in Int /\ \A r \in Replayers : cur[r] \in Nat
  BY DEF TypeOK, FanoutTypeOK, NoCursor
<1>1. \A m : Covered(m) => Covered(m)'
  BY CoverKept DEF CoverFrame
<1>2. \A m \in 1..cursor : Covered(m)'
  BY <1>1 DEF CoverInv
<1>3. \A m \in 1..cursor' : Covered(m)'
  BY <1>0, <1>1, <1>2
<1>4. ASSUME NEW r \in Replayers, pc'[r] \in Replaying, NEW m \in 1..cur'[r]
      PROVE  Covered(m)'
  <2>1. CASE pc[r] \in Replaying /\ cur'[r] = cur[r]
    BY <1>1, <1>4, <2>1 DEF CoverInv
  <2>2. CASE cur'[r] = cursor
    BY <1>2, <1>4, <2>2
  <2>3. CASE /\ pc[r] \in Replaying /\ cur'[r] = cur[r] + 1
             /\ cur'[r] <= cursor \/ cur'[r] \in served'
    <3>1. CASE m <= cur[r]
      BY <1>0, <1>1, <1>4, <2>3, <3>1 DEF CoverInv
    <3>2. CASE m = cur[r] + 1
      BY <1>0, <1>2, <1>4, <2>3, <3>2 DEF Covered
    <3> QED BY <1>0, <1>4, <2>3, <3>1, <3>2
  <2> QED BY <1>4, <2>1, <2>2, <2>3 DEF CoverFrame
<1> QED BY <1>3, <1>4 DEF CoverInv

\* The cursor is a number.
LEMMA CursorIsInt ==
  ASSUME TypeOK
  PROVE  cursor \in Int
BY DEF TypeOK, FanoutTypeOK, NoCursor

\* Every step keeps the rows behind the cursors covered.
LEMMA CoverStep ==
  ASSUME HubInv, CoverInv, [Next]_vars
  PROVE  CoverInv'
<1> USE DEF HubInv
<1> DEFINE Moves == \A m \in 1..cursor' : m <= cursor \/ Covered(m) \/ Covered(m)'
<1>0. cursor \in Int /\ cursor' \in Int
  BY CursorIsInt, TypeStep DEF TypeOK, FanoutTypeOK, NoCursor
<1>1. ASSUME UNCHANGED clientVars, RemoteCommit PROVE CoverFrame /\ Moves
  BY <1>0, <1>1 DEF RemoteCommit, CoverFrame, Replaying, HoldInv, TypeOK, FanoutTypeOK, Actors,
      ReplayerAt, RegisterAt, SessionAt, hubVars, fanoutVars, localVars, clientVars
<1>2. ASSUME UNCHANGED clientVars, ReceiveNotice PROVE CoverFrame /\ Moves
  BY <1>0, <1>2 DEF ReceiveNotice, Goto, CoverFrame, Replaying, HoldInv, TypeOK, FanoutTypeOK,
      Actors, ReplayerAt, RegisterAt, SessionAt, hubVars, fanoutVars, localVars, clientVars
<1>3. ASSUME UNCHANGED clientVars, LoseNotice PROVE CoverFrame /\ Moves
  BY <1>0, <1>3 DEF LoseNotice, CoverFrame, Replaying, HoldInv, TypeOK, FanoutTypeOK, Actors,
      ReplayerAt, RegisterAt, SessionAt, hubVars, fanoutVars, localVars, clientVars
<1>4. ASSUME UNCHANGED clientVars, RepairTick PROVE CoverFrame /\ Moves
  BY <1>0, <1>4 DEF RepairTick, Goto, CoverFrame, Replaying, HoldInv, TypeOK, FanoutTypeOK, Actors,
      ReplayerAt, RegisterAt, SessionAt, hubVars, fanoutVars, localVars, clientVars
<1>5. ASSUME NEW p \in Publishers, UNCHANGED clientVars,
        LocalCommit(p) PROVE CoverFrame /\ Moves
  BY <1>0, <1>5 DEF LocalCommit, Goto, CoverFrame, Replaying, HoldInv, TypeOK, FanoutTypeOK,
      Actors, ReplayerAt, RegisterAt, SessionAt, hubVars, fanoutVars, localVars, clientVars
<1>6. ASSUME NEW p \in Publishers, UNCHANGED clientVars, Publish(p) PROVE CoverFrame /\ Moves
  <2>1. seq[p] - 1 \in Int /\ p \in Actors
    BY <1>6 DEF TypeOK, FanoutTypeOK, Actors
  <2>2. PICK w \in {"reconcile", "idle"} : pc' = [pc EXCEPT ![p] = w]
    BY <1>6 DEF Publish, Goto
  <2>3. CASE Active /\ cursor = NoCursor
    <3>1. cursor' = seq[p] - 1 /\ SkipTo(seq[p] - 1)
      BY <1>6, <2>3 DEF Publish
    <3>2. /\ served \subseteq served'
          /\ \A m \in 1..(seq[p] - 1) : m > cursor => m \in served'
      BY <2>1, <3>1, SkipToCovers
    <3> QED BY <1>6, <2>1, <2>2, <2>3, <3>1, <3>2 DEF Publish, NoCursor, Covered, CoverFrame,
        Replaying, HoldInv, TypeOK, FanoutTypeOK, Actors, ReplayerAt, RegisterAt, SessionAt,
            hubVars, fanoutVars, localVars, clientVars
  <2>4. CASE ~(Active /\ cursor = NoCursor)
    BY <1>6, <2>1, <2>2, <2>4 DEF Publish, CoverFrame, Replaying, HoldInv, TypeOK,
        FanoutTypeOK, Actors, ReplayerAt, RegisterAt, SessionAt, hubVars, fanoutVars,
            localVars, clientVars
  <2> QED BY <2>3, <2>4
<1>7. ASSUME NEW a \in Actors, UNCHANGED clientVars, Registered(a) PROVE CoverFrame /\ Moves
  BY <1>0, <1>7 DEF Registered, AfterRegister, Goto, CoverFrame, Replaying, HoldInv, TypeOK,
      FanoutTypeOK, Actors, ReplayerAt, RegisterAt, SessionAt, hubVars, fanoutVars,
          localVars, clientVars
<1>8. ASSUME NEW a \in Actors, UNCHANGED clientVars, Register(a) PROVE CoverFrame /\ Moves
  BY <1>0, <1>8 DEF Register, Goto, CoverFrame, Replaying, HoldInv, TypeOK, FanoutTypeOK, Actors,
      ReplayerAt, RegisterAt, SessionAt, hubVars, fanoutVars, localVars, clientVars
<1>9. ASSUME NEW a \in Actors, UNCHANGED clientVars, ReadHead(a) PROVE CoverFrame /\ Moves
  BY <1>0, <1>9 DEF ReadHead, Goto, CoverFrame, Replaying, HoldInv, TypeOK, FanoutTypeOK, Actors,
      ReplayerAt, RegisterAt, SessionAt, hubVars, fanoutVars, localVars, clientVars
<1>10. ASSUME NEW a \in Actors, UNCHANGED clientVars, ReadHeadFails(a) PROVE CoverFrame /\ Moves
  BY <1>0, <1>10 DEF ReadHeadFails, AfterRegister, Goto, CoverFrame, Replaying, HoldInv, TypeOK,
      FanoutTypeOK, Actors, ReplayerAt, RegisterAt, SessionAt, hubVars, fanoutVars,
          localVars, clientVars
<1>11. ASSUME NEW a \in Actors, UNCHANGED clientVars, SetCursor(a) PROVE CoverFrame /\ Moves
  <2>1. seq[a] \in Int /\ cursor' = seq[a] /\ SkipTo(seq[a])
    BY <1>11 DEF SetCursor, TypeOK, FanoutTypeOK
  <2>2. /\ served \subseteq served'
        /\ \A m \in 1..seq[a] : m > cursor => m \in served'
    BY <2>1, SkipToCovers
  <2>3. \A m \in 1..cursor' : m <= cursor \/ Covered(m)'
    BY <2>1, <2>2, CursorIsInt DEF Covered
  <2> QED BY <1>11, <2>2, <2>3 DEF SetCursor, AfterRegister, Goto, CoverFrame, Replaying,
      HoldInv, TypeOK, FanoutTypeOK, Actors, ReplayerAt, RegisterAt, SessionAt, hubVars,
          fanoutVars, localVars, clientVars
<1>12. ASSUME NEW r \in Replayers, UNCHANGED clientVars, Reconcile(r) PROVE CoverFrame /\ Moves
  <2>1. PICK w \in {"register", "list"} : pc' = [pc EXCEPT ![r] = w]
    BY <1>12 DEF Reconcile, Goto
  <2>2. w = "list" => cur' = [cur EXCEPT ![r] = cursor]
    BY <1>12, <2>1 DEF Reconcile, Goto, TypeOK, FanoutTypeOK, Actors
  <2>3. w = "register" => cur' = cur
    BY <1>12, <2>1 DEF Reconcile, Goto, TypeOK, FanoutTypeOK, Actors
  <2> QED BY <1>12, <2>1, <2>2, <2>3 DEF Reconcile, CoverFrame, Replaying, HoldInv, TypeOK,
      FanoutTypeOK, Actors, ReplayerAt, RegisterAt, SessionAt, hubVars, fanoutVars,
          localVars, clientVars
<1>13. ASSUME NEW r \in Replayers, UNCHANGED clientVars, ListRows(r) PROVE CoverFrame /\ Moves
  BY <1>0, <1>13 DEF ListRows, Goto, CoverFrame, Replaying, HoldInv, TypeOK, FanoutTypeOK, Actors,
      ReplayerAt, RegisterAt, SessionAt, hubVars, fanoutVars, localVars, clientVars
<1>14. ASSUME NEW r \in Replayers, UNCHANGED clientVars, NoMoreRows(r) PROVE CoverFrame /\ Moves
  BY <1>0, <1>14 DEF NoMoreRows, Return, Goto, CoverFrame, Replaying, HoldInv, TypeOK,
      FanoutTypeOK, Actors, ReplayerAt, RegisterAt, SessionAt, hubVars, fanoutVars,
          localVars, clientVars
<1>15. ASSUME NEW r \in Replayers, UNCHANGED clientVars,
        ReplayFails(r) PROVE CoverFrame /\ Moves
  BY <1>0, <1>15 DEF ReplayFails, Return, Goto, CoverFrame, Replaying, HoldInv, TypeOK,
      FanoutTypeOK, Actors, ReplayerAt, RegisterAt, SessionAt, hubVars, fanoutVars,
          localVars, clientVars
<1>16. ASSUME NEW r \in Replayers, UNCHANGED clientVars,
        RowDelivered(r) PROVE CoverFrame /\ Moves
  <2>1. pc[r] \in WithPage /\ RowDone(r) /\ r \in Actors
    BY <1>16 DEF RowDelivered, WithPage, Actors
  <2>2. /\ \A a \in Actors \ {r} : pc'[a] = pc[a]
        /\ \A q \in Replayers \ {r} : cur'[q] = cur[q]
        /\ pc'[r] \in {"idle", "list", "row"}
        /\ pc'[r] # "idle" => cur'[r] = NextRow(r)
    BY <2>1, RowDoneMoves
  <2>3. NextRow(r) = cur[r] + 1
    BY <2>1, NextRowFollows
  <2> QED BY <1>16, <2>1, <2>2, <2>3 DEF RowDelivered, WithPage, CoverFrame, Replaying,
      TypeOK, FanoutTypeOK, Actors
<1>17. ASSUME NEW r \in Replayers, UNCHANGED clientVars, TakeRow(r) PROVE CoverFrame /\ Moves
  <2>1. NextRow(r) = cur[r] + 1 /\ NextRow(r) \in 1..head /\ r \in Actors
    BY <1>17, NextRowFollows DEF TakeRow, WithPage, Actors
  <2>2. CoverFrame
    BY <1>17, <2>1 DEF TakeRow, Goto, CoverFrame, Replaying, HoldInv, TypeOK, FanoutTypeOK,
        Actors, ReplayerAt, RegisterAt, SessionAt, hubVars, fanoutVars, localVars, clientVars
  <2>3. ASSUME NEW m \in 1..cursor' PROVE m <= cursor \/ Covered(m) \/ Covered(m)'
    <3>1. CASE cursor' = cursor
      BY <2>3, <3>1
    <3>2. CASE cursor' = cur[r] + 1 /\ m <= cur[r]
      BY <1>17, <2>3, <3>2 DEF TakeRow, Replaying, CoverInv, TypeOK, FanoutTypeOK
    <3>3. CASE cursor' = cur[r] + 1 /\ m = cur[r] + 1
      BY <1>17, <2>1, <3>3 DEF TakeRow, Goto, Covered, TypeOK, FanoutTypeOK
    <3> QED BY <1>17, <2>1, <2>3, <3>1, <3>2, <3>3 DEF TakeRow, TypeOK, FanoutTypeOK
  <2> QED BY <2>2, <2>3
<1>18. ASSUME NEW r \in Replayers, UNCHANGED clientVars, GetChannel(r) PROVE CoverFrame /\ Moves
  BY <1>0, <1>18 DEF GetChannel, CloneSender, Goto, CoverFrame, Replaying, HoldInv, TypeOK,
      FanoutTypeOK, Actors, ReplayerAt, RegisterAt, SessionAt, hubVars, fanoutVars,
          localVars, clientVars
<1>19. ASSUME NEW r \in Replayers, UNCHANGED clientVars, Send(r) PROVE CoverFrame /\ Moves
  <2>1. pc[r] \in WithPage /\ RowDone(r) /\ r \in Actors
    BY <1>19 DEF Send, WithPage, Actors
  <2>2. /\ \A a \in Actors \ {r} : pc'[a] = pc[a]
        /\ \A q \in Replayers \ {r} : cur'[q] = cur[q]
        /\ pc'[r] \in {"idle", "list", "row"}
        /\ pc'[r] # "idle" => cur'[r] = NextRow(r)
    BY <2>1, RowDoneMoves
  <2>3. NextRow(r) = cur[r] + 1
    BY <2>1, NextRowFollows
  <2> QED BY <1>19, <2>1, <2>2, <2>3 DEF Send, WithPage, CoverFrame, Replaying, TypeOK,
      FanoutTypeOK, Actors
<1>20. ASSUME NEW s \in Sessions, Connect(s) PROVE CoverFrame /\ Moves
  BY <1>0, <1>20 DEF Connect, Goto, CoverFrame, Replaying, HoldInv, TypeOK, FanoutTypeOK, Actors,
      ReplayerAt, RegisterAt, SessionAt, hubVars, fanoutVars, localVars, clientVars
<1>21. ASSUME NEW s \in Sessions, GetChannels(s) PROVE CoverFrame /\ Moves
  BY <1>0, <1>21 DEF GetChannels, CloneSender, Goto, CoverFrame, Replaying, HoldInv, TypeOK,
      FanoutTypeOK, Actors, ReplayerAt, RegisterAt, SessionAt, hubVars, fanoutVars,
          localVars, clientVars
<1>22. ASSUME NEW s \in Sessions, OpenSocket(s) PROVE CoverFrame /\ Moves
  BY <1>0, <1>22 DEF OpenSocket, Subscribe, DropSender, Goto, CoverFrame, Replaying, HoldInv,
      TypeOK, FanoutTypeOK, Actors, ReplayerAt, RegisterAt, SessionAt, hubVars, fanoutVars,
          localVars, clientVars
<1>23. ASSUME NEW s \in Sessions, Load(s) PROVE CoverFrame /\ Moves
  BY <1>0, <1>23 DEF Load, CoverFrame, Replaying, HoldInv, TypeOK, FanoutTypeOK, Actors,
      ReplayerAt, RegisterAt, SessionAt, hubVars, fanoutVars, localVars, clientVars
<1>24. ASSUME NEW s \in Sessions, Receive(s) PROVE CoverFrame /\ Moves
  BY <1>0, <1>24 DEF Receive, CoverFrame, Replaying, HoldInv, TypeOK, FanoutTypeOK, Actors,
      ReplayerAt, RegisterAt, SessionAt, hubVars, fanoutVars, localVars, clientVars
<1>25. ASSUME NEW s \in Sessions, LagResync(s) PROVE CoverFrame /\ Moves
  BY <1>0, <1>25 DEF LagResync, SkipToOldest, Lagging, CoverFrame, Replaying, HoldInv, TypeOK,
      FanoutTypeOK, Actors, ReplayerAt, RegisterAt, SessionAt, hubVars, fanoutVars,
          localVars, clientVars
<1>26. ASSUME NEW s \in Sessions, LagCoalesced(s) PROVE CoverFrame /\ Moves
  BY <1>0, <1>26 DEF LagCoalesced, SkipToOldest, Lagging, CoverFrame, Replaying, HoldInv, TypeOK,
      FanoutTypeOK, Actors, ReplayerAt, RegisterAt, SessionAt, hubVars, fanoutVars,
          localVars, clientVars
<1>27. ASSUME NEW s \in Sessions, DebounceOver(s) PROVE CoverFrame /\ Moves
  BY <1>0, <1>27 DEF DebounceOver, CoverFrame, Replaying, HoldInv, TypeOK, FanoutTypeOK, Actors,
      ReplayerAt, RegisterAt, SessionAt, hubVars, fanoutVars, localVars, clientVars
<1>28. ASSUME NEW s \in Sessions, Disconnect(s) PROVE CoverFrame /\ Moves
  BY <1>0, <1>28 DEF Disconnect, Unsubscribe, Goto, CoverFrame, Replaying, HoldInv, TypeOK,
      FanoutTypeOK, Actors, ReplayerAt, RegisterAt, SessionAt, hubVars, fanoutVars,
          localVars, clientVars
<1>29. ASSUME NEW s \in Sessions, Announce(s) PROVE CoverFrame /\ Moves
  BY <1>0, <1>29 DEF Announce, Goto, CoverFrame, Replaying, HoldInv, TypeOK, FanoutTypeOK, Actors,
      ReplayerAt, RegisterAt, SessionAt, hubVars, fanoutVars, localVars, clientVars
<1>30. ASSUME NEW s \in Sessions, LeaveSilently(s) PROVE CoverFrame /\ Moves
  BY <1>0, <1>30 DEF LeaveSilently, Goto, CoverFrame, Replaying, HoldInv, TypeOK, FanoutTypeOK,
      Actors, ReplayerAt, RegisterAt, SessionAt, hubVars, fanoutVars, localVars, clientVars
<1>31. ASSUME NEW s \in Sessions, Evict(s) PROVE CoverFrame /\ Moves
  BY <1>0, <1>31 DEF Evict, EvictIfIdle, CutOff, Goto, CoverFrame, Replaying, HoldInv, TypeOK,
      FanoutTypeOK, Actors, ReplayerAt, RegisterAt, SessionAt, hubVars, fanoutVars,
          localVars, clientVars
<1>32. ASSUME SweepIdle PROVE CoverFrame /\ Moves
  BY <1>0, <1>32 DEF SweepIdle, EvictIfIdle, CutOff, CoverFrame, Replaying, HoldInv, TypeOK,
      FanoutTypeOK, Actors, ReplayerAt, RegisterAt, SessionAt, hubVars, fanoutVars,
          localVars, clientVars
<1>33. ASSUME UNCHANGED vars PROVE CoverFrame /\ Moves
  BY <1>0, <1>33 DEF vars, hubVars, fanoutVars, localVars, clientVars, CoverFrame, Replaying,
      HoldInv, TypeOK, FanoutTypeOK, Actors, ReplayerAt, RegisterAt, SessionAt, hubVars,
          fanoutVars, localVars, clientVars
<1>34. CoverFrame /\ Moves
  BY <1>1, <1>2, <1>3, <1>4, <1>5, <1>6, <1>7, <1>8, <1>9, <1>10, <1>11, <1>12, <1>13,
        <1>14, <1>15, <1>16, <1>17, <1>18, <1>19, <1>20, <1>21, <1>22, <1>23, <1>24, <1>25,
            <1>26, <1>27, <1>28, <1>29, <1>30, <1>31, <1>32, <1>33, StepCases
<1> QED BY <1>0, <1>34, CoverFrameKeeps

\* Replays that race, fail halfway or find rows already taken never drop a
\* durable pair behind the cursor (reconcile_board, deliver_pair), for any
\* number of sessions and publishers, any page and any failures.
THEOREM NoPairIsDropped == Spec => []NothingDropped
<1>1. Init => CoverInv
  BY DEF Init, FanoutInit, CoverInv, NoCursor, Replaying
<1>2. HubInv /\ CoverInv /\ [Next]_vars => CoverInv'
  BY CoverStep
<1>3. HubInv /\ CoverInv => NothingDropped
  <2> SUFFICES ASSUME HubInv, CoverInv, NEW m \in 1..cursor, m \notin served
               PROVE  \E r \in Replayers : pc[r] \in {"channel", "send"} /\ NextRow(r) = m
    BY DEF NothingDropped
  <2>1. PICK r \in Replayers : pc[r] \in {"channel", "send"} /\ cur[r] + 1 = m
    BY DEF CoverInv, Covered
  <2> QED BY <2>1, NextRowFollows DEF HubInv, WithPage
<1> QED BY HubInvariance, <1>1, <1>2, <1>3, PTL DEF Spec

-----------------------------------------------------------------------------
(* An open session that is alone is kept current *)

\* A board with receivers has a cursor.
LEMMA ActiveHasCursor ==
  ASSUME HubInv, CursorInv, Active
  PROVE  cursor # NoCursor
BY DEF Active, Idle, HubInv, HoldInv, CursorInv

\* Every step keeps the replays from registering and the cursor in place.
LEMMA CursorStep ==
  ASSUME Alone, HubInv, CursorInv, [Next]_vars
  PROVE  CursorInv'
<1> USE DEF HubInv
<1>1. ASSUME UNCHANGED clientVars, RemoteCommit PROVE CursorInv'
  BY <1>1 DEF RemoteCommit, CursorInv, Replaying, HoldInv, Alone, TypeOK, FanoutTypeOK,
      Actors, RegisterAt, SessionAt, hubVars, fanoutVars, localVars, clientVars
<1>2. ASSUME UNCHANGED clientVars, ReceiveNotice PROVE CursorInv'
  <2>1. Active => cursor # NoCursor
    BY ActiveHasCursor
  <2>2. PICK w \in {"reconcile", "idle"} :
          pc' = [pc EXCEPT ![Subscriber] = w] /\ (w = "reconcile" => Active)
    BY <1>2 DEF ReceiveNotice, Goto
  <2> QED BY <1>2, <2>1, <2>2 DEF ReceiveNotice, CursorInv, Replaying, HoldInv, Alone,
      TypeOK, FanoutTypeOK, Actors, RegisterAt, SessionAt, hubVars, fanoutVars, localVars,
          clientVars
<1>3. ASSUME UNCHANGED clientVars, LoseNotice PROVE CursorInv'
  BY <1>3 DEF LoseNotice, CursorInv, Replaying, HoldInv, Alone, TypeOK, FanoutTypeOK, Actors,
      RegisterAt, SessionAt, hubVars, fanoutVars, localVars, clientVars
<1>4. ASSUME UNCHANGED clientVars, RepairTick PROVE CursorInv'
  <2>1. cursor # NoCursor
    BY <1>4, ActiveHasCursor DEF RepairTick
  <2> QED BY <1>4, <2>1 DEF RepairTick, Goto, CursorInv, Replaying, HoldInv, Alone, TypeOK,
      FanoutTypeOK, Actors, RegisterAt, SessionAt, hubVars, fanoutVars, localVars, clientVars
<1>5. ASSUME NEW p \in Publishers, UNCHANGED clientVars, LocalCommit(p) PROVE CursorInv'
  BY <1>5 DEF LocalCommit, Goto, CursorInv, Replaying, HoldInv, Alone, TypeOK, FanoutTypeOK,
      Actors, RegisterAt, SessionAt, hubVars, fanoutVars, localVars, clientVars
<1>6. ASSUME NEW p \in Publishers, UNCHANGED clientVars, Publish(p) PROVE CursorInv'
  <2>1. Active => cursor # NoCursor
    BY ActiveHasCursor
  <2>2. PICK w \in {"reconcile", "idle"} :
          pc' = [pc EXCEPT ![p] = w] /\ (w = "reconcile" => Active)
    BY <1>6 DEF Publish, Goto
  <2>3. cursor' = cursor
    BY <1>6, <2>1 DEF Publish
  <2> QED BY <1>6, <2>1, <2>2, <2>3 DEF Publish, CursorInv, Replaying, HoldInv, Alone,
      TypeOK, FanoutTypeOK, Actors, RegisterAt, SessionAt, hubVars, fanoutVars, localVars,
          clientVars
<1>7. ASSUME NEW a \in Actors, UNCHANGED clientVars, Registered(a) PROVE CursorInv'
  BY <1>7 DEF Registered, AfterRegister, Goto, CursorInv, Replaying, HoldInv, Alone, TypeOK,
      FanoutTypeOK, Actors, RegisterAt, SessionAt, hubVars, fanoutVars, localVars, clientVars
<1>8. ASSUME NEW a \in Actors, UNCHANGED clientVars, Register(a) PROVE CursorInv'
  BY <1>8 DEF Register, Goto, CursorInv, Replaying, HoldInv, Alone, TypeOK, FanoutTypeOK,
      Actors, RegisterAt, SessionAt, hubVars, fanoutVars, localVars, clientVars
<1>9. ASSUME NEW a \in Actors, UNCHANGED clientVars, ReadHead(a) PROVE CursorInv'
  BY <1>9 DEF ReadHead, Goto, CursorInv, Replaying, HoldInv, Alone, TypeOK, FanoutTypeOK,
      Actors, RegisterAt, SessionAt, hubVars, fanoutVars, localVars, clientVars
<1>10. ASSUME NEW a \in Actors, UNCHANGED clientVars, ReadHeadFails(a) PROVE CursorInv'
  BY <1>10 DEF ReadHeadFails, AfterRegister, Goto, CursorInv, Replaying, HoldInv, Alone,
      TypeOK, FanoutTypeOK, Actors, RegisterAt, SessionAt, hubVars, fanoutVars, localVars,
          clientVars
<1>11. ASSUME NEW a \in Actors, UNCHANGED clientVars, SetCursor(a) PROVE CursorInv'
  <2>1. cursor' # NoCursor
    BY <1>11 DEF SetCursor, NoCursor, TypeOK, FanoutTypeOK
  <2> QED BY <1>11, <2>1 DEF SetCursor, AfterRegister, Goto, CursorInv, Replaying, HoldInv,
      Alone, TypeOK, FanoutTypeOK, Actors, RegisterAt, SessionAt, hubVars, fanoutVars,
          localVars, clientVars
<1>12. ASSUME NEW r \in Replayers, UNCHANGED clientVars, Reconcile(r) PROVE CursorInv'
  <2>1. pc' = [pc EXCEPT ![r] = "list"] /\ cursor # NoCursor
    BY <1>12 DEF Reconcile, Goto, CursorInv
  <2> QED BY <1>12, <2>1 DEF Reconcile, CursorInv, Replaying, HoldInv, Alone, TypeOK,
      FanoutTypeOK, Actors, RegisterAt, SessionAt, hubVars, fanoutVars, localVars, clientVars
<1>13. ASSUME NEW r \in Replayers, UNCHANGED clientVars, ListRows(r) PROVE CursorInv'
  BY <1>13 DEF ListRows, Goto, CursorInv, Replaying, HoldInv, Alone, TypeOK, FanoutTypeOK,
      Actors, RegisterAt, SessionAt, hubVars, fanoutVars, localVars, clientVars
<1>14. ASSUME NEW r \in Replayers, UNCHANGED clientVars, NoMoreRows(r) PROVE CursorInv'
  BY <1>14 DEF NoMoreRows, Return, Goto, CursorInv, Replaying, HoldInv, Alone, TypeOK,
      FanoutTypeOK, Actors, RegisterAt, SessionAt, hubVars, fanoutVars, localVars, clientVars
<1>15. ASSUME NEW r \in Replayers, UNCHANGED clientVars, ReplayFails(r) PROVE CursorInv'
  BY <1>15 DEF ReplayFails, Return, Goto, CursorInv, Replaying, HoldInv, Alone, TypeOK,
      FanoutTypeOK, Actors, RegisterAt, SessionAt, hubVars, fanoutVars, localVars, clientVars
<1>16. ASSUME NEW r \in Replayers, UNCHANGED clientVars, RowDelivered(r) PROVE CursorInv'
  <2>1. pc[r] \in WithPage /\ RowDone(r) /\ r \in Actors /\ r \notin Sessions
    BY <1>16 DEF RowDelivered, WithPage, Actors
  <2>2. pc'[r] \in {"idle", "list", "row"} /\ \A a \in Actors \ {r} : pc'[a] = pc[a]
    BY <2>1, RowDoneMoves
  <2> QED BY <1>16, <2>1, <2>2 DEF RowDelivered, WithPage, CursorInv, Replaying, HoldInv,
      Alone, TypeOK, FanoutTypeOK, Actors, RegisterAt, SessionAt, hubVars, fanoutVars,
          localVars, clientVars
<1>17. ASSUME NEW r \in Replayers, UNCHANGED clientVars, TakeRow(r) PROVE CursorInv'
  <2>1. NextRow(r) \in 1..head
    BY <1>17, NextRowFollows DEF TakeRow, WithPage
  <2>2. cursor' # NoCursor
    BY <1>17, <2>1 DEF TakeRow, CursorInv, Replaying, NoCursor, TypeOK, FanoutTypeOK
  <2> QED BY <1>17, <2>1, <2>2 DEF TakeRow, Goto, CursorInv, Replaying, HoldInv, Alone,
      TypeOK, FanoutTypeOK, Actors, RegisterAt, SessionAt, hubVars, fanoutVars, localVars,
          clientVars
<1>18. ASSUME NEW r \in Replayers, UNCHANGED clientVars, GetChannel(r) PROVE CursorInv'
  BY <1>18 DEF GetChannel, CloneSender, Goto, CursorInv, Replaying, HoldInv, Alone, TypeOK,
      FanoutTypeOK, Actors, RegisterAt, SessionAt, hubVars, fanoutVars, localVars, clientVars
<1>19. ASSUME NEW r \in Replayers, UNCHANGED clientVars, Send(r) PROVE CursorInv'
  <2>1. pc[r] \in WithPage /\ RowDone(r) /\ r \in Actors /\ r \notin Sessions
    BY <1>19 DEF Send, WithPage, Actors
  <2>2. pc'[r] \in {"idle", "list", "row"} /\ \A a \in Actors \ {r} : pc'[a] = pc[a]
    BY <2>1, RowDoneMoves
  <2> QED BY <1>19, <2>1, <2>2 DEF Send, WithPage, CursorInv, Replaying, HoldInv, Alone,
      TypeOK, FanoutTypeOK, Actors, RegisterAt, SessionAt, hubVars, fanoutVars, localVars,
          clientVars
<1>20. ASSUME NEW s \in Sessions, Connect(s) PROVE CursorInv'
  BY <1>20 DEF Connect, Goto, CursorInv, Replaying, HoldInv, Alone, TypeOK, FanoutTypeOK,
      Actors, RegisterAt, SessionAt, hubVars, fanoutVars, localVars, clientVars
<1>21. ASSUME NEW s \in Sessions, GetChannels(s) PROVE CursorInv'
  BY <1>21 DEF GetChannels, CloneSender, Goto, CursorInv, Replaying, HoldInv, Alone, TypeOK,
      FanoutTypeOK, Actors, RegisterAt, SessionAt, hubVars, fanoutVars, localVars, clientVars
<1>22. ASSUME NEW s \in Sessions, OpenSocket(s) PROVE CursorInv'
  BY <1>22 DEF OpenSocket, Subscribe, DropSender, Goto, CursorInv, Replaying, HoldInv, Alone,
      TypeOK, FanoutTypeOK, Actors, RegisterAt, SessionAt, hubVars, fanoutVars, localVars,
          clientVars
<1>23. ASSUME NEW s \in Sessions, Load(s) PROVE CursorInv'
  BY <1>23 DEF Load, CursorInv, Replaying, HoldInv, Alone, TypeOK, FanoutTypeOK, Actors,
      RegisterAt, SessionAt, hubVars, fanoutVars, localVars, clientVars
<1>24. ASSUME NEW s \in Sessions, Receive(s) PROVE CursorInv'
  BY <1>24 DEF Receive, CursorInv, Replaying, HoldInv, Alone, TypeOK, FanoutTypeOK, Actors,
      RegisterAt, SessionAt, hubVars, fanoutVars, localVars, clientVars
<1>25. ASSUME NEW s \in Sessions, LagResync(s) PROVE CursorInv'
  BY <1>25 DEF LagResync, SkipToOldest, Lagging, CursorInv, Replaying, HoldInv, Alone,
      TypeOK, FanoutTypeOK, Actors, RegisterAt, SessionAt, hubVars, fanoutVars, localVars,
          clientVars
<1>26. ASSUME NEW s \in Sessions, LagCoalesced(s) PROVE CursorInv'
  BY <1>26 DEF LagCoalesced, SkipToOldest, Lagging, CursorInv, Replaying, HoldInv, Alone,
      TypeOK, FanoutTypeOK, Actors, RegisterAt, SessionAt, hubVars, fanoutVars, localVars,
          clientVars
<1>27. ASSUME NEW s \in Sessions, DebounceOver(s) PROVE CursorInv'
  BY <1>27 DEF DebounceOver, CursorInv, Replaying, HoldInv, Alone, TypeOK, FanoutTypeOK,
      Actors, RegisterAt, SessionAt, hubVars, fanoutVars, localVars, clientVars
<1>28. ASSUME NEW s \in Sessions, Disconnect(s) PROVE CursorInv'
  BY <1>28 DEF Disconnect, Unsubscribe, Goto, CursorInv, Replaying, HoldInv, Alone, TypeOK,
      FanoutTypeOK, Actors, RegisterAt, SessionAt, hubVars, fanoutVars, localVars, clientVars
<1>29. ASSUME NEW s \in Sessions, Announce(s) PROVE CursorInv'
  BY <1>29 DEF Announce, Goto, CursorInv, Replaying, HoldInv, Alone, TypeOK, FanoutTypeOK,
      Actors, RegisterAt, SessionAt, hubVars, fanoutVars, localVars, clientVars
<1>30. ASSUME NEW s \in Sessions, LeaveSilently(s) PROVE CursorInv'
  BY <1>30 DEF LeaveSilently, Goto, CursorInv, Replaying, HoldInv, Alone, TypeOK,
      FanoutTypeOK, Actors, RegisterAt, SessionAt, hubVars, fanoutVars, localVars, clientVars
<1>31. ASSUME NEW s \in Sessions, Evict(s) PROVE CursorInv'
  BY <1>31 DEF Evict, EvictIfIdle, CutOff, Goto, CursorInv, Replaying, HoldInv, Alone,
      TypeOK, FanoutTypeOK, Actors, RegisterAt, SessionAt, hubVars, fanoutVars, localVars,
          clientVars
<1>32. ASSUME SweepIdle PROVE CursorInv'
  BY <1>32 DEF SweepIdle, EvictIfIdle, CutOff, CursorInv, Replaying, HoldInv, Alone, TypeOK,
      FanoutTypeOK, Actors, RegisterAt, SessionAt, hubVars, fanoutVars, localVars, clientVars
<1>33. CASE UNCHANGED vars
  BY <1>33 DEF vars, hubVars, fanoutVars, localVars, clientVars, CursorInv, Replaying,
      HoldInv, Alone, TypeOK, FanoutTypeOK, Actors, RegisterAt, SessionAt, hubVars,
          fanoutVars, localVars, clientVars
<1> QED BY <1>1, <1>2, <1>3, <1>4, <1>5, <1>6, <1>7, <1>8, <1>9, <1>10, <1>11, <1>12, <1>13,
        <1>14, <1>15, <1>16, <1>17, <1>18, <1>19, <1>20, <1>21, <1>22, <1>23, <1>24, <1>25,
            <1>26, <1>27, <1>28, <1>29, <1>30, <1>31, <1>32, <1>33, StepCases

\* Every step keeps what the clients have and are sent durable.
LEMMA DurableStep ==
  ASSUME HubInv, DurableInv, [Next]_vars
  PROVE  DurableInv'
<1> USE DEF HubInv
<1>1. ASSUME UNCHANGED clientVars, RemoteCommit PROVE DurableInv'
  BY <1>1 DEF RemoteCommit, DurableInv, TypeOK, HubTypeOK, FanoutTypeOK, Resync, hubVars,
      fanoutVars, localVars, clientVars
<1>2. ASSUME UNCHANGED clientVars, ReceiveNotice PROVE DurableInv'
  BY <1>2 DEF ReceiveNotice, Goto, DurableInv, TypeOK, HubTypeOK, FanoutTypeOK, Resync,
      hubVars, fanoutVars, localVars, clientVars
<1>3. ASSUME UNCHANGED clientVars, LoseNotice PROVE DurableInv'
  BY <1>3 DEF LoseNotice, DurableInv, TypeOK, HubTypeOK, FanoutTypeOK, Resync, hubVars,
      fanoutVars, localVars, clientVars
<1>4. ASSUME UNCHANGED clientVars, RepairTick PROVE DurableInv'
  BY <1>4 DEF RepairTick, Goto, DurableInv, TypeOK, HubTypeOK, FanoutTypeOK, Resync, hubVars,
      fanoutVars, localVars, clientVars
<1>5. ASSUME NEW p \in Publishers, UNCHANGED clientVars, LocalCommit(p) PROVE DurableInv'
  BY <1>5 DEF LocalCommit, Goto, DurableInv, TypeOK, HubTypeOK, FanoutTypeOK, Resync,
      hubVars, fanoutVars, localVars, clientVars
<1>6. ASSUME NEW p \in Publishers, UNCHANGED clientVars, Publish(p) PROVE DurableInv'
  BY <1>6 DEF Publish, Goto, SkipTo, DurableInv, TypeOK, HubTypeOK, FanoutTypeOK, Resync,
      hubVars, fanoutVars, localVars, clientVars
<1>7. ASSUME NEW a \in Actors, UNCHANGED clientVars, Registered(a) PROVE DurableInv'
  BY <1>7 DEF Registered, AfterRegister, Goto, DurableInv, TypeOK, HubTypeOK, FanoutTypeOK,
      Resync, hubVars, fanoutVars, localVars, clientVars
<1>8. ASSUME NEW a \in Actors, UNCHANGED clientVars, Register(a) PROVE DurableInv'
  BY <1>8 DEF Register, Goto, DurableInv, TypeOK, HubTypeOK, FanoutTypeOK, Resync, hubVars,
      fanoutVars, localVars, clientVars
<1>9. ASSUME NEW a \in Actors, UNCHANGED clientVars, ReadHead(a) PROVE DurableInv'
  BY <1>9 DEF ReadHead, Goto, DurableInv, TypeOK, HubTypeOK, FanoutTypeOK, Resync, hubVars,
      fanoutVars, localVars, clientVars
<1>10. ASSUME NEW a \in Actors, UNCHANGED clientVars, ReadHeadFails(a) PROVE DurableInv'
  BY <1>10 DEF ReadHeadFails, AfterRegister, Goto, DurableInv, TypeOK, HubTypeOK,
      FanoutTypeOK, Resync, hubVars, fanoutVars, localVars, clientVars
<1>11. ASSUME NEW a \in Actors, UNCHANGED clientVars, SetCursor(a) PROVE DurableInv'
  BY <1>11 DEF SetCursor, AfterRegister, Goto, SkipTo, DurableInv, TypeOK, HubTypeOK,
      FanoutTypeOK, Resync, hubVars, fanoutVars, localVars, clientVars
<1>12. ASSUME NEW r \in Replayers, UNCHANGED clientVars, Reconcile(r) PROVE DurableInv'
  BY <1>12 DEF Reconcile, Goto, DurableInv, TypeOK, HubTypeOK, FanoutTypeOK, Resync, hubVars,
      fanoutVars, localVars, clientVars
<1>13. ASSUME NEW r \in Replayers, UNCHANGED clientVars, ListRows(r) PROVE DurableInv'
  BY <1>13 DEF ListRows, Goto, DurableInv, TypeOK, HubTypeOK, FanoutTypeOK, Resync, hubVars,
      fanoutVars, localVars, clientVars
<1>14. ASSUME NEW r \in Replayers, UNCHANGED clientVars, NoMoreRows(r) PROVE DurableInv'
  BY <1>14 DEF NoMoreRows, Return, Goto, DurableInv, TypeOK, HubTypeOK, FanoutTypeOK, Resync,
      hubVars, fanoutVars, localVars, clientVars
<1>15. ASSUME NEW r \in Replayers, UNCHANGED clientVars, ReplayFails(r) PROVE DurableInv'
  BY <1>15 DEF ReplayFails, Return, Goto, DurableInv, TypeOK, HubTypeOK, FanoutTypeOK,
      Resync, hubVars, fanoutVars, localVars, clientVars
<1>16. ASSUME NEW r \in Replayers, UNCHANGED clientVars, RowDelivered(r) PROVE DurableInv'
  BY <1>16 DEF RowDelivered, DurableInv, TypeOK, HubTypeOK, FanoutTypeOK, Resync, hubVars,
      fanoutVars, localVars, clientVars
<1>17. ASSUME NEW r \in Replayers, UNCHANGED clientVars, TakeRow(r) PROVE DurableInv'
  BY <1>17 DEF TakeRow, Goto, DurableInv, TypeOK, HubTypeOK, FanoutTypeOK, Resync, hubVars,
      fanoutVars, localVars, clientVars
<1>18. ASSUME NEW r \in Replayers, UNCHANGED clientVars, GetChannel(r) PROVE DurableInv'
  BY <1>18 DEF GetChannel, CloneSender, DurableInv, TypeOK, HubTypeOK, FanoutTypeOK, Resync,
      hubVars, fanoutVars, localVars, clientVars
<1>19. ASSUME NEW r \in Replayers, UNCHANGED clientVars, Send(r) PROVE DurableInv'
  <2>1. NextRow(r) \in 1..head
    BY <1>19, NextRowFollows DEF Send, WithPage
  <2>2. PICK m \in 0..head : Broadcast(sender[r], m)
    BY <1>19, <2>1 DEF Send, Resync, TypeOK, FanoutTypeOK
  <2>3. ASSUME NEW s \in Sessions PROVE \A i \in 1..Len(queue'[s]) : queue'[s][i] \in 0..head
    <3>1. queue[s] \in Seq(Nat) /\ queue'[s] \in {queue[s], Append(queue[s], m)}
      BY <2>2 DEF Broadcast, TypeOK, HubTypeOK
    <3>2. /\ Len(Append(queue[s], m)) = Len(queue[s]) + 1
          /\ \A i \in 1..Len(queue[s]) : Append(queue[s], m)[i] = queue[s][i]
          /\ Append(queue[s], m)[Len(queue[s]) + 1] = m
      BY <3>1
    <3>3. \A i \in 1..Len(queue[s]) : queue[s][i] \in 0..head
      BY DEF DurableInv
    <3>4. ASSUME NEW i \in 1..(Len(queue[s]) + 1) PROVE Append(queue[s], m)[i] \in 0..head
      <4>1. i \in 1..Len(queue[s]) \/ i = Len(queue[s]) + 1
        BY <3>1
      <4> QED BY <2>2, <3>2, <3>3, <4>1
    <3> QED BY <3>1, <3>2, <3>3, <3>4
  <2> QED BY <1>19, <2>3 DEF Send, DurableInv, clientVars
<1>20. ASSUME NEW s \in Sessions, Connect(s) PROVE DurableInv'
  BY <1>20 DEF Connect, Goto, DurableInv, TypeOK, HubTypeOK, FanoutTypeOK, Resync, hubVars,
      fanoutVars, localVars, clientVars
<1>21. ASSUME NEW s \in Sessions, GetChannels(s) PROVE DurableInv'
  BY <1>21 DEF GetChannels, CloneSender, DurableInv, TypeOK, HubTypeOK, FanoutTypeOK, Resync,
      hubVars, fanoutVars, localVars, clientVars
<1>22. ASSUME NEW s \in Sessions, OpenSocket(s) PROVE DurableInv'
  BY <1>22 DEF OpenSocket, Subscribe, DurableInv, TypeOK, HubTypeOK, FanoutTypeOK, Resync,
      hubVars, fanoutVars, localVars, clientVars
<1>23. ASSUME NEW s \in Sessions, Load(s) PROVE DurableInv'
  BY <1>23 DEF Load, DurableInv, TypeOK, HubTypeOK, FanoutTypeOK, Resync, hubVars,
      fanoutVars, localVars, clientVars
<1>24. ASSUME NEW s \in Sessions, Receive(s) PROVE DurableInv'
  <2>1. /\ queue[s] \in Seq(Nat) /\ queue[s] # <<>> /\ Head(queue[s]) = queue[s][1]
        /\ Len(Tail(queue[s])) = Len(queue[s]) - 1
        /\ \A i \in 1..Len(Tail(queue[s])) : Tail(queue[s])[i] = queue[s][i + 1]
    BY <1>24 DEF Receive, TypeOK, HubTypeOK
  <2>2. Head(queue[s]) \in 0..head
    BY <2>1 DEF DurableInv
  <2>3. \A t \in Sessions : have'[t] \subseteq 1..head
    BY <1>24, <2>2 DEF Receive, DurableInv, Resync, TypeOK, FanoutTypeOK
  <2>4. \A i \in 1..Len(Tail(queue[s])) : Tail(queue[s])[i] \in 0..head
    BY <2>1 DEF DurableInv
  <2>5. \A t \in Sessions : \A i \in 1..Len(queue'[t]) : queue'[t][i] \in 0..head
    BY <1>24, <2>4 DEF Receive, DurableInv, TypeOK, HubTypeOK
  <2> QED BY <1>24, <2>3, <2>5 DEF Receive, DurableInv, fanoutVars
<1>25. ASSUME NEW s \in Sessions, LagResync(s) PROVE DurableInv'
  <2> DEFINE rest == SubSeq(queue[s], Len(queue[s]) - Capacity + 1, Len(queue[s]))
  <2>1. queue[s] \in Seq(Nat) /\ Len(queue[s]) > Capacity
    BY <1>25 DEF LagResync, Lagging, TypeOK, HubTypeOK
  <2>2. \A i \in 1..Len(rest) : \E j \in 1..Len(queue[s]) : rest[i] = queue[s][j]
    BY <2>1
  <2>3. \A i \in 1..Len(rest) : rest[i] \in 0..head
    BY <2>2 DEF DurableInv
  <2>4. queue' = [queue EXCEPT ![s] = rest]
    BY <1>25 DEF LagResync, SkipToOldest
  <2> HIDE DEF rest
  <2>5. \A t \in Sessions : \A i \in 1..Len(queue'[t]) : queue'[t][i] \in 0..head
    BY <2>3, <2>4 DEF DurableInv, TypeOK, HubTypeOK
  <2> QED BY <1>25, <2>5 DEF LagResync, DurableInv, fanoutVars
<1>26. ASSUME NEW s \in Sessions, LagCoalesced(s) PROVE DurableInv'
  <2> DEFINE rest == SubSeq(queue[s], Len(queue[s]) - Capacity + 1, Len(queue[s]))
  <2>1. queue[s] \in Seq(Nat) /\ Len(queue[s]) > Capacity
    BY <1>26 DEF LagCoalesced, Lagging, TypeOK, HubTypeOK
  <2>2. \A i \in 1..Len(rest) : \E j \in 1..Len(queue[s]) : rest[i] = queue[s][j]
    BY <2>1
  <2>3. \A i \in 1..Len(rest) : rest[i] \in 0..head
    BY <2>2 DEF DurableInv
  <2>4. queue' = [queue EXCEPT ![s] = rest]
    BY <1>26 DEF LagCoalesced, SkipToOldest
  <2> HIDE DEF rest
  <2>5. \A t \in Sessions : \A i \in 1..Len(queue'[t]) : queue'[t][i] \in 0..head
    BY <2>3, <2>4 DEF DurableInv, TypeOK, HubTypeOK
  <2> QED BY <1>26, <2>5 DEF LagCoalesced, DurableInv, fanoutVars
<1>27. ASSUME NEW s \in Sessions, DebounceOver(s) PROVE DurableInv'
  BY <1>27 DEF DebounceOver, DurableInv, TypeOK, HubTypeOK, FanoutTypeOK, Resync, hubVars,
      fanoutVars, localVars, clientVars
<1>28. ASSUME NEW s \in Sessions, Disconnect(s) PROVE DurableInv'
  BY <1>28 DEF Disconnect, Unsubscribe, DurableInv, TypeOK, HubTypeOK, FanoutTypeOK, Resync,
      hubVars, fanoutVars, localVars, clientVars
<1>29. ASSUME NEW s \in Sessions, Announce(s) PROVE DurableInv'
  BY <1>29 DEF Announce, Goto, DurableInv, TypeOK, HubTypeOK, FanoutTypeOK, Resync, hubVars,
      fanoutVars, localVars, clientVars
<1>30. ASSUME NEW s \in Sessions, LeaveSilently(s) PROVE DurableInv'
  BY <1>30 DEF LeaveSilently, Goto, DurableInv, TypeOK, HubTypeOK, FanoutTypeOK, Resync,
      hubVars, fanoutVars, localVars, clientVars
<1>31. ASSUME NEW s \in Sessions, Evict(s) PROVE DurableInv'
  BY <1>31 DEF Evict, EvictIfIdle, CutOff, Goto, DurableInv, TypeOK, HubTypeOK, FanoutTypeOK,
      Resync, hubVars, fanoutVars, localVars, clientVars
<1>32. ASSUME SweepIdle PROVE DurableInv'
  BY <1>32 DEF SweepIdle, EvictIfIdle, CutOff, DurableInv, TypeOK, HubTypeOK, FanoutTypeOK,
      Resync, hubVars, fanoutVars, localVars, clientVars
<1>33. CASE UNCHANGED vars
  BY <1>33 DEF vars, hubVars, fanoutVars, localVars, clientVars, DurableInv, TypeOK,
      HubTypeOK, FanoutTypeOK, Resync, hubVars, fanoutVars, localVars, clientVars
<1> QED BY <1>1, <1>2, <1>3, <1>4, <1>5, <1>6, <1>7, <1>8, <1>9, <1>10, <1>11, <1>12, <1>13,
        <1>14, <1>15, <1>16, <1>17, <1>18, <1>19, <1>20, <1>21, <1>22, <1>23, <1>24, <1>25,
            <1>26, <1>27, <1>28, <1>29, <1>30, <1>31, <1>32, <1>33, StepCases

\* A row goes on reaching a session whose client and ring keep it, if the hands
\* that have it keep it or put it in the ring.
LEMMA ReachKept ==
  ASSUME NEW u \in Sessions, NEW m, Reaches(u, m),
         have'[u] = have[u], fetching'[u] = fetching[u], missed'[u] = missed[u],
         Queued(u, m) => Queued(u, m)',
         \A r \in Replayers : Brings(r, u) =>
           \/ Brings(r, u)' /\ cur'[r] = cur[r]
           \/ cur[r] + 1 = m => Queued(u, m)'
  PROVE  Reaches(u, m)'
<1>1. CASE m \in have[u] \/ fetching[u] \/ missed[u] \/ Queued(u, m)
  BY <1>1 DEF Reaches
<1>2. CASE \E r \in Replayers : Brings(r, u) /\ cur[r] + 1 = m
  <2>1. PICK r \in Replayers : Brings(r, u) /\ cur[r] + 1 = m
    BY <1>2
  <2> QED BY <2>1 DEF Reaches
<1> QED BY <1>1, <1>2 DEF Reaches

\* The cursors of a step move only over rows that reach session u.
ReachFrame(u) ==
  /\ \A m \in 1..cursor' : m <= cursor \/ Reaches(u, m) \/ Reaches(u, m)'
  /\ \A r \in Replayers : pc'[r] \in Replaying =>
       \A m \in 1..Through(r)' :
         \/ m <= cursor
         \/ pc[r] \in Replaying /\ m <= Through(r)
         \/ Reaches(u, m)'

\* A step within that frame that takes nothing back keeps the rows reaching u.
LEMMA ReachFrameKeeps ==
  ASSUME TypeOK, TypeOK', ReachInv, NEW u \in Sessions, pc[u] = "on", ReachFrame(u),
         \A m \in Nat : Reaches(u, m) => Reaches(u, m)'
  PROVE  ReachOf(u)'
<1>1. cursor \in Int /\ cursor' \in Int
  BY CursorIsInt DEF TypeOK, FanoutTypeOK, NoCursor
<1>2. \A r \in Replayers : Through(r) \in Nat /\ Through(r)' \in Nat
  BY DEF Through, TypeOK, FanoutTypeOK
<1>3. ReachOf(u)
  BY DEF ReachInv
<1>4. ASSUME NEW m \in 1..cursor' PROVE Reaches(u, m)'
  <2>1. m \in Nat /\ (m <= cursor => m \in 1..cursor)
    BY <1>1, <1>4
  <2> QED BY <1>3, <1>4, <2>1 DEF ReachFrame, ReachOf
<1>5. ASSUME NEW r \in Replayers, pc'[r] \in Replaying, NEW m \in 1..Through(r)'
      PROVE  Reaches(u, m)'
  <2>1. m \in Nat /\ (m <= cursor => m \in 1..cursor) /\ (m <= Through(r) => m \in 1..Through(r))
    BY <1>1, <1>2, <1>5
  <2>2. CASE m <= cursor
    BY <1>3, <2>1, <2>2 DEF ReachOf
  <2>3. CASE pc[r] \in Replaying /\ m <= Through(r)
    BY <1>3, <2>1, <2>3 DEF ReachOf
  <2> QED BY <1>5, <2>2, <2>3 DEF ReachFrame
<1> QED BY <1>4, <1>5 DEF ReachOf

\* A step that leaves the cursor, the hub, the clients and the rows in hand
\* alone, and lets a replay move on only as far as the cursor.
LeavesReach(u) ==
  /\ pc[u] = "on"
  /\ UNCHANGED <<cursor, queue, rx, sender, have, fetching, missed>>
  /\ \A r \in Replayers : (pc[r] \in InHand \/ pc'[r] \in InHand) =>
       pc'[r] = pc[r] /\ cur'[r] = cur[r]
  /\ \A r \in Replayers : pc'[r] \in Replaying =>
       (pc[r] \in Replaying /\ cur'[r] = cur[r]) \/ cur'[r] <= cursor

\* Such a step keeps the rows reaching u.
LEMMA ReachQuiet ==
  ASSUME TypeOK, TypeOK', ReachInv, NEW u \in Sessions, LeavesReach(u)
  PROVE  ReachOf(u)'
<1> USE DEF LeavesReach
<1>0. \A r \in Replayers : cur[r] \in Nat /\ cur'[r] \in Nat
  BY DEF TypeOK, FanoutTypeOK
<1>1. \A m \in Nat : Queued(u, m) => Queued(u, m)'
  BY DEF Queued
<1>2. \A r \in Replayers : Brings(r, u) => Brings(r, u)' /\ cur'[r] = cur[r]
  BY DEF Brings, InHand
<1>3. \A m \in Nat : Reaches(u, m) => Reaches(u, m)'
  BY <1>1, <1>2, ReachKept
<1>4. ASSUME NEW r \in Replayers, pc'[r] \in Replaying, NEW m \in 1..Through(r)'
      PROVE  m <= cursor \/ (pc[r] \in Replaying /\ m <= Through(r))
  <2>0. cursor \in Int /\ m \in Nat
    BY <1>0, <1>4, CursorIsInt DEF Through
  <2>1. CASE pc'[r] \in InHand
    BY <1>0, <1>4, <2>1 DEF Through
  <2>2. CASE pc'[r] \notin InHand
    <3>1. m <= cur'[r] /\ pc[r] \notin InHand
      BY <1>0, <1>4, <2>2 DEF Through
    <3> QED BY <1>0, <1>4, <2>0, <3>1 DEF Through
  <2> QED BY <2>1, <2>2
<1>5. ReachFrame(u)
  <2>1. cursor' \in Int /\ \A m \in 1..cursor' : m <= cursor
    BY CursorIsInt
  <2> QED BY <1>4, <2>1 DEF ReachFrame
<1> QED BY <1>3, <1>5, ReachFrameKeeps

\* Every step keeps the rows behind the cursors reaching the open session.
LEMMA ReachStep ==
  ASSUME Alone, HubInv, CursorInv, ReachInv, [Next]_vars
  PROVE  ReachInv'
<1> USE DEF HubInv
<1> SUFFICES ASSUME NEW u \in Sessions, pc'[u] = "on"
             PROVE  ReachOf(u)'
  BY DEF ReachInv
<1>0. TypeOK' /\ pc'[u] = "on"
  BY TypeStep
<1>1. ASSUME UNCHANGED clientVars, RemoteCommit PROVE ReachOf(u)'
  <2>1. LeavesReach(u)
    BY <1>1, <1>0 DEF RemoteCommit, LeavesReach, InHand, Replaying, HoldInv, TypeOK,
        FanoutTypeOK, Actors, RegisterAt, ReplayerAt, hubVars, fanoutVars, localVars, clientVars
  <2> QED BY <1>0, <2>1, ReachQuiet
<1>2. ASSUME UNCHANGED clientVars, ReceiveNotice PROVE ReachOf(u)'
  <2>1. LeavesReach(u)
    BY <1>2, <1>0 DEF ReceiveNotice, Goto, LeavesReach, InHand, Replaying, HoldInv, TypeOK,
        FanoutTypeOK, Actors, RegisterAt, ReplayerAt, hubVars, fanoutVars, localVars, clientVars
  <2> QED BY <1>0, <2>1, ReachQuiet
<1>3. ASSUME UNCHANGED clientVars, LoseNotice PROVE ReachOf(u)'
  <2>1. LeavesReach(u)
    BY <1>3, <1>0 DEF LoseNotice, LeavesReach, InHand, Replaying, HoldInv, TypeOK,
        FanoutTypeOK, Actors, RegisterAt, ReplayerAt, hubVars, fanoutVars, localVars, clientVars
  <2> QED BY <1>0, <2>1, ReachQuiet
<1>4. ASSUME UNCHANGED clientVars, RepairTick PROVE ReachOf(u)'
  <2>1. LeavesReach(u)
    BY <1>4, <1>0 DEF RepairTick, Goto, LeavesReach, InHand, Replaying, HoldInv, TypeOK,
        FanoutTypeOK, Actors, RegisterAt, ReplayerAt, hubVars, fanoutVars, localVars, clientVars
  <2> QED BY <1>0, <2>1, ReachQuiet
<1>5. ASSUME NEW p \in Publishers, UNCHANGED clientVars, LocalCommit(p) PROVE ReachOf(u)'
  <2>1. LeavesReach(u)
    BY <1>5, <1>0 DEF LocalCommit, Goto, LeavesReach, InHand, Replaying, HoldInv, TypeOK,
        FanoutTypeOK, Actors, RegisterAt, ReplayerAt, hubVars, fanoutVars, localVars, clientVars
  <2> QED BY <1>0, <2>1, ReachQuiet
<1>6. ASSUME NEW p \in Publishers, UNCHANGED clientVars, Publish(p) PROVE ReachOf(u)'
  <2>1. Active => cursor # NoCursor
    BY ActiveHasCursor
  <2>2. PICK w \in {"reconcile", "idle"} : pc' = [pc EXCEPT ![p] = w]
    BY <1>6 DEF Publish, Goto
  <2>3. cursor' = cursor
    BY <1>6, <2>1 DEF Publish
  <2>4. LeavesReach(u)
    BY <1>6, <1>0, <2>2, <2>3 DEF Publish, LeavesReach, InHand, Replaying, HoldInv, TypeOK,
        FanoutTypeOK, Actors, RegisterAt, ReplayerAt, hubVars, fanoutVars, localVars, clientVars
  <2> QED BY <1>0, <2>4, ReachQuiet
<1>7. ASSUME NEW a \in Actors, UNCHANGED clientVars, Registered(a) PROVE ReachOf(u)'
  <2>1. LeavesReach(u)
    BY <1>7, <1>0 DEF Registered, AfterRegister, Goto, LeavesReach, InHand, Replaying,
        HoldInv, TypeOK, FanoutTypeOK, Actors, RegisterAt, ReplayerAt, hubVars, fanoutVars,
            localVars, clientVars
  <2> QED BY <1>0, <2>1, ReachQuiet
<1>8. ASSUME NEW a \in Actors, UNCHANGED clientVars, Register(a) PROVE ReachOf(u)'
  <2>1. LeavesReach(u)
    BY <1>8, <1>0 DEF Register, Goto, LeavesReach, InHand, Replaying, HoldInv, TypeOK,
        FanoutTypeOK, Actors, RegisterAt, ReplayerAt, hubVars, fanoutVars, localVars, clientVars
  <2> QED BY <1>0, <2>1, ReachQuiet
<1>9. ASSUME NEW a \in Actors, UNCHANGED clientVars, ReadHead(a) PROVE ReachOf(u)'
  <2>1. LeavesReach(u)
    BY <1>9, <1>0 DEF ReadHead, Goto, LeavesReach, InHand, Replaying, HoldInv, TypeOK,
        FanoutTypeOK, Actors, RegisterAt, ReplayerAt, hubVars, fanoutVars, localVars, clientVars
  <2> QED BY <1>0, <2>1, ReachQuiet
<1>10. ASSUME NEW a \in Actors, UNCHANGED clientVars, ReadHeadFails(a) PROVE ReachOf(u)'
  <2>1. LeavesReach(u)
    BY <1>10, <1>0 DEF ReadHeadFails, AfterRegister, Goto, LeavesReach, InHand, Replaying,
        HoldInv, TypeOK, FanoutTypeOK, Actors, RegisterAt, ReplayerAt, hubVars, fanoutVars,
            localVars, clientVars
  <2> QED BY <1>0, <2>1, ReachQuiet
<1>11. ASSUME NEW a \in Actors, UNCHANGED clientVars, SetCursor(a) PROVE ReachOf(u)'
  <2>1. a = u
    BY <1>11 DEF SetCursor, CursorInv, RegisterAt, Alone, Actors
  <2> QED BY <1>11, <1>0, <2>1 DEF SetCursor, AfterRegister, Goto, TypeOK, FanoutTypeOK
<1>12. ASSUME NEW r \in Replayers, UNCHANGED clientVars, Reconcile(r) PROVE ReachOf(u)'
  <2>1. pc' = [pc EXCEPT ![r] = "list"] /\ cur' = [cur EXCEPT ![r] = cursor] /\ cursor \in Int
    BY <1>12, CursorIsInt DEF Reconcile, Goto, CursorInv
  <2>2. LeavesReach(u)
    BY <1>12, <1>0, <2>1 DEF Reconcile, LeavesReach, InHand, Replaying, HoldInv, TypeOK,
        FanoutTypeOK, Actors, RegisterAt, ReplayerAt, hubVars, fanoutVars, localVars, clientVars
  <2> QED BY <1>0, <2>2, ReachQuiet
<1>13. ASSUME NEW r \in Replayers, UNCHANGED clientVars, ListRows(r) PROVE ReachOf(u)'
  <2>1. LeavesReach(u)
    BY <1>13, <1>0 DEF ListRows, Goto, LeavesReach, InHand, Replaying, HoldInv, TypeOK,
        FanoutTypeOK, Actors, RegisterAt, ReplayerAt, hubVars, fanoutVars, localVars, clientVars
  <2> QED BY <1>0, <2>1, ReachQuiet
<1>14. ASSUME NEW r \in Replayers, UNCHANGED clientVars, NoMoreRows(r) PROVE ReachOf(u)'
  <2>1. LeavesReach(u)
    BY <1>14, <1>0 DEF NoMoreRows, Return, Goto, LeavesReach, InHand, Replaying, HoldInv,
        TypeOK, FanoutTypeOK, Actors, RegisterAt, ReplayerAt, hubVars, fanoutVars, localVars,
            clientVars
  <2> QED BY <1>0, <2>1, ReachQuiet
<1>15. ASSUME NEW r \in Replayers, UNCHANGED clientVars, ReplayFails(r) PROVE ReachOf(u)'
  <2>1. LeavesReach(u)
    BY <1>15, <1>0 DEF ReplayFails, Return, Goto, LeavesReach, InHand, Replaying, HoldInv,
        TypeOK, FanoutTypeOK, Actors, RegisterAt, ReplayerAt, hubVars, fanoutVars, localVars,
            clientVars
  <2> QED BY <1>0, <2>1, ReachQuiet
<1>16. ASSUME NEW r \in Replayers, UNCHANGED clientVars, RowDelivered(r) PROVE ReachOf(u)'
  <2>1. pc[r] \in WithPage /\ RowDone(r) /\ r \in Actors /\ r \notin Sessions
    BY <1>16 DEF RowDelivered, WithPage, Actors
  <2>2. /\ \A a \in Actors \ {r} : pc'[a] = pc[a]
        /\ \A q \in Replayers \ {r} : cur'[q] = cur[q]
        /\ pc'[r] \in {"idle", "list", "row"}
        /\ pc'[r] # "idle" => cur'[r] = NextRow(r)
    BY <2>1, RowDoneMoves
  <2>3. LeavesReach(u)
    BY <1>16, <1>0, <2>1, <2>2 DEF RowDelivered, LeavesReach, InHand, Replaying, HoldInv,
        TypeOK, FanoutTypeOK, Actors, RegisterAt, ReplayerAt, hubVars, fanoutVars, localVars,
            clientVars
  <2> QED BY <1>0, <2>3, ReachQuiet
<1>17. ASSUME NEW r \in Replayers, UNCHANGED clientVars, TakeRow(r) PROVE ReachOf(u)'
  <2>1. NextRow(r) = cur[r] + 1 /\ NextRow(r) \in 1..head /\ r \in Actors /\ r \notin Sessions
    BY <1>17, NextRowFollows DEF TakeRow, WithPage, Actors
  <2>2. /\ pc[r] = "row" /\ pc' = [pc EXCEPT ![r] = "channel"]
        /\ UNCHANGED <<cur, queue, rx, sender, have, fetching, missed>>
        /\ cursor' = cursor \/ cursor' = cur[r] + 1
    BY <1>17, <2>1 DEF TakeRow, Goto, hubVars, clientVars
  <2>3. pc[u] = "on" /\ pc'[r] = "channel" /\ \A q \in Replayers \ {r} : pc'[q] = pc[q]
    BY <1>0, <2>1, <2>2 DEF TypeOK, FanoutTypeOK, Actors
  <2>4. \A q \in Replayers : Brings(q, u) => Brings(q, u)' /\ cur'[q] = cur[q]
    BY <2>2, <2>3 DEF Brings
  <2>5. \A m \in Nat : Reaches(u, m) => Reaches(u, m)'
    <3>1. \A m \in Nat : Queued(u, m) => Queued(u, m)'
      BY <2>2 DEF Queued
    <3> QED BY <2>2, <2>4, <3>1, ReachKept
  <2>6. \A m : m = cur[r] + 1 => Reaches(u, m)'
    BY <2>2, <2>3 DEF Reaches, Brings
  <2>7. \A m \in 1..cur[r] : Reaches(u, m)
    BY <2>2, <2>3 DEF ReachInv, ReachOf, Replaying, Through, InHand
  <2>8. cursor \in Int /\ cur[r] \in Nat
    BY CursorIsInt DEF TypeOK, FanoutTypeOK
  <2>9. ASSUME NEW m \in 1..cursor' PROVE m <= cursor \/ Reaches(u, m) \/ Reaches(u, m)'
    <3>1. m <= cursor \/ m \in 1..cur[r] \/ m = cur[r] + 1
      BY <2>2, <2>8, <2>9
    <3> QED BY <2>6, <2>7, <3>1
  <2>10. ASSUME NEW q \in Replayers, pc'[q] \in Replaying, NEW m \in 1..Through(q)'
         PROVE  (pc[q] \in Replaying /\ m <= Through(q)) \/ Reaches(u, m)'
    <3>1. CASE q = r
      <4>1. m \in 1..cur[r] \/ m = cur[r] + 1
        BY <2>2, <2>3, <2>8, <2>10, <3>1 DEF Through, InHand
      <4> QED BY <2>5, <2>6, <2>7, <2>8, <4>1
    <3>2. CASE q # r
      <4>1. pc'[q] = pc[q] /\ cur'[q] = cur[q] /\ cur[q] \in Nat
        BY <2>2, <2>3, <3>2 DEF TypeOK, FanoutTypeOK
      <4> QED BY <2>10, <4>1 DEF Through
    <3> QED BY <3>1, <3>2
  <2>11. ReachFrame(u)
    BY <2>9, <2>10 DEF ReachFrame
  <2> QED BY <1>0, <2>3, <2>5, <2>11, ReachFrameKeeps
<1>18. ASSUME NEW r \in Replayers, UNCHANGED clientVars, GetChannel(r) PROVE ReachOf(u)'
  <2>1. /\ pc[r] = "channel" /\ pc' = [pc EXCEPT ![r] = "send"]
        /\ sender' = [sender EXCEPT ![r] = ChannelsFor]
        /\ UNCHANGED <<cursor, cur, queue, rx, have, fetching, missed>>
        /\ r \in Actors /\ r \notin Sessions
    BY <1>18 DEF GetChannel, CloneSender, Goto, clientVars, Actors
  <2>2. /\ pc[u] = "on" /\ pc'[r] = "send" /\ sender'[r] = ChannelsFor
        /\ \A q \in Replayers \ {r} : pc'[q] = pc[q] /\ sender'[q] = sender[q]
    BY <1>0, <2>1 DEF TypeOK, FanoutTypeOK, HubTypeOK, Actors
  <2>3. ChannelsFor = rx[u]
    BY <2>1, <2>2, ChannelMade DEF ListenInv, HoldInv, CursorInv
  <2>4. \A q \in Replayers : Brings(q, u) => Brings(q, u)' /\ cur'[q] = cur[q]
    BY <2>1, <2>2, <2>3 DEF Brings
  <2>5. \A m \in Nat : Reaches(u, m) => Reaches(u, m)'
    <3>1. \A m \in Nat : Queued(u, m) => Queued(u, m)'
      BY <2>1 DEF Queued
    <3> QED BY <2>1, <2>4, <3>1, ReachKept
  <2>6. \A q \in Replayers : Through(q)' = Through(q) /\ (pc'[q] \in Replaying => pc[q] \in Replaying)
    BY <2>1, <2>2 DEF Through, InHand, Replaying
  <2>7. ReachFrame(u)
    <3>1. cursor \in Int /\ \A q \in Replayers : Through(q) \in Nat
      BY CursorIsInt DEF Through, TypeOK, FanoutTypeOK
    <3> QED BY <2>1, <2>6, <3>1 DEF ReachFrame
  <2> QED BY <1>0, <2>2, <2>5, <2>7, ReachFrameKeeps
<1>19. ASSUME NEW r \in Replayers, UNCHANGED clientVars, Send(r) PROVE ReachOf(u)'
  <2> DEFINE msg == IF NextRow(r) \in Orphans THEN Resync ELSE NextRow(r)
  <2>1. /\ pc[r] = "send" /\ RowDone(r) /\ r \in Actors /\ r \notin Sessions
        /\ UNCHANGED <<cursor, rx, have, fetching, missed>>
    BY <1>19 DEF Send, clientVars, Actors
  <2>2. NextRow(r) = cur[r] + 1
    BY <2>1, NextRowFollows DEF WithPage
  <2>3. /\ \A a \in Actors \ {r} : pc'[a] = pc[a]
        /\ \A q \in Replayers \ {r} : cur'[q] = cur[q]
        /\ pc'[r] \in {"idle", "list", "row"}
        /\ pc'[r] # "idle" => cur'[r] = cur[r] + 1
    BY <2>1, <2>2, RowDoneMoves DEF WithPage
  <2>4. pc[u] = "on" /\ \A q \in Replayers \ {r} : pc'[q] = pc[q] /\ sender'[q] = sender[q]
    BY <1>19, <1>0, <2>1, <2>3 DEF Send, DropSender, TypeOK, HubTypeOK, Actors
  <2>5. queue'[u] = IF rx[u] = sender[r] THEN Append(queue[u], msg) ELSE queue[u]
    BY <1>19 DEF Send, Broadcast
  <2>6. queue[u] \in Seq(Nat)
    BY DEF TypeOK, HubTypeOK
  <2> HIDE DEF msg
  <2>7. \A m \in Nat : Queued(u, m) => Queued(u, m)'
    <3>1. /\ Len(queue[u]) <= Len(queue'[u])
          /\ \A i \in 1..Len(queue[u]) : i \in 1..Len(queue'[u]) /\ queue'[u][i] = queue[u][i]
      <4>1. /\ Len(Append(queue[u], msg)) = Len(queue[u]) + 1
            /\ \A i \in 1..Len(queue[u]) : Append(queue[u], msg)[i] = queue[u][i]
        BY <2>6
      <4> QED BY <2>5, <2>6, <4>1
    <3> QED BY <3>1 DEF Queued
  <2>8. rx[u] = sender[r] => \A m : m = cur[r] + 1 => Queued(u, m)'
    <3>1. /\ Len(Append(queue[u], msg)) = Len(queue[u]) + 1
          /\ Append(queue[u], msg)[Len(queue[u]) + 1] = msg
          /\ Len(queue[u]) + 1 \in 1..(Len(queue[u]) + 1)
      BY <2>6
    <3>2. msg \in {cur[r] + 1, Resync}
      BY <2>2 DEF msg
    <3> QED BY <2>5, <3>1, <3>2 DEF Queued
  <2>9. \A q \in Replayers : Brings(q, u) =>
          \/ Brings(q, u)' /\ cur'[q] = cur[q]
          \/ \A m : cur[q] + 1 = m => Queued(u, m)'
    BY <2>1, <2>3, <2>4, <2>8 DEF Brings
  <2>10. \A m \in Nat : Reaches(u, m) => Reaches(u, m)'
    BY <2>1, <2>7, <2>9, ReachKept
  <2>11. ReachFrame(u)
    <3>1. cursor \in Int /\ \A q \in Replayers : Through(q) \in Nat
      BY CursorIsInt DEF Through, TypeOK, FanoutTypeOK
    <3>2. ASSUME NEW q \in Replayers, pc'[q] \in Replaying
          PROVE  Through(q)' = Through(q) /\ pc[q] \in Replaying
      <4>1. CASE q = r
        BY <2>1, <2>3, <3>2, <4>1 DEF Through, InHand, Replaying
      <4>2. CASE q # r
        BY <2>3, <2>4, <3>2, <4>2 DEF Through
      <4> QED BY <4>1, <4>2
    <3> QED BY <2>1, <3>1, <3>2 DEF ReachFrame
  <2> QED BY <1>0, <2>4, <2>10, <2>11, ReachFrameKeeps
<1>20. ASSUME NEW s \in Sessions, Connect(s) PROVE ReachOf(u)'
  BY <1>20, <1>0 DEF Connect, Goto, Alone, TypeOK, FanoutTypeOK, Actors
<1>21. ASSUME NEW s \in Sessions, GetChannels(s) PROVE ReachOf(u)'
  BY <1>21, <1>0 DEF GetChannels, Goto, Alone, TypeOK, FanoutTypeOK, Actors
<1>22. ASSUME NEW s \in Sessions, OpenSocket(s) PROVE ReachOf(u)'
  BY <1>22 DEF OpenSocket, Alone, ReachOf, Reaches, TypeOK
<1>23. ASSUME NEW s \in Sessions, Load(s) PROVE ReachOf(u)'
  <2>1. have'[u] = 1..head /\ UNCHANGED fanoutVars
    BY <1>23 DEF Load, Alone, TypeOK
  <2>2. cursor <= head /\ cursor \in Int /\ head \in Nat
    BY CursorIsInt DEF TypeOK, FanoutTypeOK, NoCursor
  <2>3. ASSUME NEW r \in Replayers PROVE Through(r) \in Nat /\ Through(r) <= head
    <3>1. CASE pc[r] \in InHand
      BY <3>1, <2>2, NextRowFollows DEF InHand, WithPage, Through, TypeOK, FanoutTypeOK
    <3>2. CASE pc[r] \notin InHand
      BY <3>2 DEF Through, SeqInv, TypeOK, FanoutTypeOK
    <3> QED BY <3>1, <3>2
  <2>4. \A m \in 1..head : Reaches(u, m)'
    BY <2>1, <2>2 DEF Reaches, fanoutVars
  <2>5. \A r \in Replayers : Through(r)' = Through(r)
    BY <2>1 DEF Through, fanoutVars, localVars
  <2>6. \A m \in 1..cursor' : Reaches(u, m)'
    BY <2>1, <2>2, <2>4 DEF fanoutVars
  <2>7. ASSUME NEW r \in Replayers, NEW m \in 1..Through(r)' PROVE Reaches(u, m)'
    BY <2>2, <2>3, <2>4, <2>5, <2>7
  <2> QED BY <2>6, <2>7 DEF ReachOf
<1>24. ASSUME NEW s \in Sessions, Receive(s) PROVE ReachOf(u)'
  <2>1. s = u /\ pc[u] = "on"
    BY <1>24 DEF Receive, Alone
  <2>2. /\ queue[u] \in Seq(Nat) /\ queue[u] # <<>> /\ Head(queue[u]) = queue[u][1]
        /\ Len(Tail(queue[u])) = Len(queue[u]) - 1
        /\ \A i \in 1..Len(Tail(queue[u])) : Tail(queue[u])[i] = queue[u][i + 1]
    BY <1>24, <2>1 DEF Receive, TypeOK, HubTypeOK
  <2>3. queue'[u] = Tail(queue[u]) /\ UNCHANGED <<fanoutVars, sender, rx, missed>>
    BY <1>24, <2>1 DEF Receive, TypeOK, HubTypeOK
  <2>4. CASE Head(queue[u]) = Resync
    BY <1>24, <2>1, <2>4 DEF Receive, ReachOf, Reaches, TypeOK
  <2>5. CASE Head(queue[u]) # Resync
    <3>1. have'[u] = have[u] \cup {Head(queue[u])} /\ fetching' = fetching
      BY <1>24, <2>1, <2>5 DEF Receive, TypeOK
    <3>2. ASSUME NEW m \in Nat, Reaches(u, m) PROVE Reaches(u, m)'
      <4>1. CASE Queued(u, m)
        <5>1. PICK i \in 1..Len(queue[u]) : queue[u][i] \in {m, Resync}
          BY <4>1 DEF Queued
        <5>2. CASE i = 1
          BY <2>2, <2>5, <3>1, <5>1, <5>2 DEF Reaches
        <5>3. CASE i # 1
          <6>1. i - 1 \in 1..Len(Tail(queue[u])) /\ Tail(queue[u])[i - 1] = queue[u][i]
            BY <2>2, <5>1, <5>3
          <6> QED BY <2>3, <5>1, <6>1 DEF Reaches, Queued
        <5> QED BY <5>2, <5>3
      <4>2. CASE m \in have[u] \/ fetching[u] \/ missed[u]
        BY <2>3, <3>1, <4>2 DEF Reaches
      <4>3. CASE \E r \in Replayers : Brings(r, u) /\ cur[r] + 1 = m
        BY <2>3, <4>3 DEF Reaches, Brings, fanoutVars, localVars
      <4> QED BY <3>2, <4>1, <4>2, <4>3 DEF Reaches
    <3>3. \A q \in Replayers : Through(q)' = Through(q) /\ Through(q) \in Nat /\ pc' = pc
      BY <2>3 DEF Through, fanoutVars, localVars, TypeOK, FanoutTypeOK
    <3>4. cursor' = cursor /\ cursor \in Int
      BY <2>3, CursorIsInt DEF fanoutVars
    <3>5. ReachFrame(u)
      BY <3>3, <3>4 DEF ReachFrame
    <3> QED BY <1>0, <2>1, <3>2, <3>5, ReachFrameKeeps
  <2> QED BY <2>4, <2>5
<1>25. ASSUME NEW s \in Sessions, LagResync(s) PROVE ReachOf(u)'
  BY <1>25 DEF LagResync, Alone, ReachOf, Reaches, TypeOK
<1>26. ASSUME NEW s \in Sessions, LagCoalesced(s) PROVE ReachOf(u)'
  BY <1>26 DEF LagCoalesced, Alone, ReachOf, Reaches, TypeOK
<1>27. ASSUME NEW s \in Sessions, DebounceOver(s) PROVE ReachOf(u)'
  <2>1. LeavesReach(u)
    BY <1>27, <1>0 DEF DebounceOver, LeavesReach, InHand, Replaying, HoldInv, TypeOK,
        FanoutTypeOK, Actors, RegisterAt, ReplayerAt, hubVars, fanoutVars, localVars, clientVars
  <2> QED BY <1>0, <2>1, ReachQuiet
<1>28. ASSUME NEW s \in Sessions, Disconnect(s) PROVE ReachOf(u)'
  BY <1>28, <1>0 DEF Disconnect, Goto, Alone, TypeOK, FanoutTypeOK, Actors
<1>29. ASSUME NEW s \in Sessions, Announce(s) PROVE ReachOf(u)'
  BY <1>29, <1>0 DEF Announce, Goto, Alone, TypeOK, FanoutTypeOK, Actors
<1>30. ASSUME NEW s \in Sessions, LeaveSilently(s) PROVE ReachOf(u)'
  BY <1>30, <1>0 DEF LeaveSilently, Goto, Alone, TypeOK, FanoutTypeOK, Actors
<1>31. ASSUME NEW s \in Sessions, Evict(s) PROVE ReachOf(u)'
  BY <1>31, <1>0 DEF Evict, Goto, Alone, TypeOK, FanoutTypeOK, Actors
<1>32. ASSUME SweepIdle PROVE ReachOf(u)'
  BY <1>32 DEF SweepIdle, Alone
<1>33. CASE UNCHANGED vars
  <2>1. LeavesReach(u)
    BY <1>0, <1>33 DEF vars, LeavesReach, InHand, Replaying, HoldInv, TypeOK, FanoutTypeOK,
        Actors, RegisterAt, ReplayerAt, hubVars, fanoutVars, localVars, clientVars
  <2> QED BY <1>0, <2>1, ReachQuiet
<1> QED BY <1>1, <1>2, <1>3, <1>4, <1>5, <1>6, <1>7, <1>8, <1>9, <1>10, <1>11, <1>12, <1>13,
        <1>14, <1>15, <1>16, <1>17, <1>18, <1>19, <1>20, <1>21, <1>22, <1>23, <1>24, <1>25,
            <1>26, <1>27, <1>28, <1>29, <1>30, <1>31, <1>32, <1>33, StepCases

\* A client that is alone on a board, at an instance whose reads do not fail and
\* that serves no other board, has the whole board whenever nothing is on its
\* way, unless the send task coalesced a lag after its last load: racing
\* replays, overflows, orphans, lost notices and reconnects lose nothing.
THEOREM LoneSessionIsCurrent == Alone => (Spec => []CurrentUnlessCoalesced)
<1> SUFFICES ASSUME Alone PROVE Spec => []CurrentUnlessCoalesced
  OBVIOUS
<1>1. Init => CursorInv /\ ReachInv /\ DurableInv
  BY DEF Init, HubInit, FanoutInit, CursorInv, ReachInv, DurableInv, Replaying, RegisterAt,
      Actors
<1>2. HubInv /\ CursorInv /\ ReachInv /\ DurableInv /\ [Next]_vars
        => CursorInv' /\ ReachInv' /\ DurableInv'
  BY CursorStep, ReachStep, DurableStep
<1>3. HubInv /\ ReachInv /\ DurableInv => CurrentUnlessCoalesced
  <2> SUFFICES ASSUME HubInv, ReachInv, DurableInv, Quiet, NEW s \in Sessions,
                      pc[s] = "on", ~missed[s]
               PROVE  have[s] = 1..head
    BY DEF CurrentUnlessCoalesced
  <2>1. head \in Nat /\ cursor \in Int /\ 1..head \subseteq 1..cursor
    BY CursorIsInt DEF Quiet, HubInv, TypeOK, FanoutTypeOK
  <2>2. ASSUME NEW m \in 1..head PROVE m \in have[s]
    <3>1. Reaches(s, m)
      BY <2>1 DEF ReachInv, ReachOf
    <3>2. ~Queued(s, m) /\ ~fetching[s]
      BY DEF Quiet, Queued
    <3>3. \A r \in Replayers : ~Brings(r, s)
      BY DEF Quiet, Brings, Actors
    <3> QED BY <3>1, <3>2, <3>3 DEF Reaches
  <2> QED BY <2>2 DEF DurableInv
<1> QED BY HubInvariance, <1>1, <1>2, <1>3, PTL DEF Spec
=============================================================================
