-------------------------- MODULE PresenceSessions --------------------------
(***************************************************************************)
(* Who is on one board, kept in Redis for all server processes: a set of   *)
(* sessions, and for each of them a heartbeat key that expires after a     *)
(* minute. A socket enters its session and its heartbeat one after the     *)
(* other, renews the heartbeat but not the entry, and takes the session    *)
(* out when it ends; a job of every process takes out sessions whose       *)
(* heartbeat is gone; and the set as a whole expires a day after the last  *)
(* socket opened. Whoever changes the set by a call reads it back and      *)
(* broadcasts the list to the sockets of its own process. A client that    *)
(* reconnects keeps its session id, so that two sockets, the old one and   *)
(* the new one, can share a session. There is no clock: whatever can take  *)
(* a minute or a day may. Cursors and display names are left out.          *)
(***************************************************************************)
EXTENDS Integers, FiniteSets

CONSTANTS
  Sockets,            \* sockets to the board, all of one user
  Sessions,           \* session ids
  Processes,          \* server processes
  MaxSweeps,          \* bound: cleanup jobs at work at once
  MaxPresenceFaults   \* bound: Redis calls that fail

VARIABLES
  sessionOf,  \* socket -> its session id, which never changes
  process,    \* socket -> the process that serves it, which never changes
  conn,       \* socket -> where its handler is
  entered,    \* the set of sessions
  ttl,        \* the set has an expiry
  beats,      \* sessions with a heartbeat key
  list,       \* socket -> the list it has read: "user" or "nobody"
  told,       \* process -> the list its hub broadcast last, "missed" if a change was not
  sweep,      \* process -> its cleanup job: where it is and the sessions left to look at
  raced,      \* history: sockets whose session was taken out by somebody else
  pFaults     \* calls that have failed

presenceVars == <<conn, entered, ttl, beats, list, told, sweep, raced, pFaults>>
jobVars == <<told, sweep>>

\* The users in the set of sessions.
Present == IF entered = {} THEN "nobody" ELSE "user"

NoSweep ==
  [pc |-> "idle", left |-> {}, stale |-> {}, young |-> {}, removed |-> FALSE, list |-> "nobody"]

Init ==
  /\ sessionOf \in [Sockets -> Sessions] /\ process \in [Sockets -> Processes]
  /\ conn = [c \in Sockets |-> "off"]
  /\ entered = {} /\ ttl = FALSE /\ beats = {}
  /\ list = [c \in Sockets |-> "nobody"] /\ told = [p \in Processes |-> "nobody"]
  /\ sweep = [p \in Processes |-> NoSweep]
  /\ raced = {}
  /\ pFaults = 0

Fault == pFaults < MaxPresenceFaults /\ pFaults' = pFaults + 1

Goto(c, where) == conn' = [conn EXCEPT ![c] = where]

\* The socket is open, and past its first heartbeat.
Connected(c) == conn[c] \in {"build", "tell", "live", "held"}

\* The socket is open, and past entering its session.
Open(c) == conn[c] = "touch" \/ Connected(c)

\* The set without the sessions S: a set without members is no key, and has no expiry.
TakeOut(S) == entered' = entered \ S /\ ttl' = (ttl /\ ~(entered \subseteq S))

\* The processes S have not broadcast who is present.
Miss(S) == told' = [q \in Processes |-> IF q \in S THEN "missed" ELSE told[q]]

\* A change by process p: the hubs of the others do not hear of it.
Unheard(p) == Miss(IF Present' = Present THEN {} ELSE Processes \ {p})

\* The hub of p broadcasts a list, which is out of date or not.
Broadcast(p, l) == told' = [told EXCEPT ![p] = IF l = Present THEN l ELSE "missed"]

-----------------------------------------------------------------------------
(* A socket *)

\* A socket opens, once: a client that comes back has another. add_session: SADD, then
\* EXPIRE on the whole set. An error is logged: the session is not entered, or entered in
\* a set that expires when it did before, if ever.
AddSession(c) ==
  /\ conn[c] = "off"
  /\ Goto(c, "touch")
  /\ \/ /\ entered' = entered \cup {sessionOf[c]}
        /\ ttl' = TRUE /\ UNCHANGED <<raced, pFaults>>
     \/ /\ Fault /\ entered' = entered \cup {sessionOf[c]}
        /\ UNCHANGED <<ttl, raced>>
     \/ /\ Fault /\ raced' = raced \cup {c}
        /\ UNCHANGED <<entered, ttl>>
  /\ Unheard(process[c])
  /\ UNCHANGED <<beats, list, sweep>>

\* Mutant of FirstTouch: the first heartbeat is left to the ticker.
FirstTouchMutant(c) ==
  /\ conn[c] = "touch"
  /\ Goto(c, "build")
  /\ UNCHANGED <<entered, ttl, beats, list, jobVars, raced, pFaults>>

\* touch_session_heartbeat when the socket opens; its error is ignored.
FirstTouch(c) ==
  /\ conn[c] = "touch"
  /\ Goto(c, "build")
  /\ \/ beats' = beats \cup {sessionOf[c]} /\ UNCHANGED <<raced, pFaults>>
     \/ Fault /\ raced' = raced \cup {c} /\ UNCHANGED beats
  /\ UNCHANGED <<entered, ttl, list, jobVars>>

\* build_sessions_users: the set is read; after an error nothing is broadcast.
Build(c) ==
  /\ conn[c] \in {"build", "leaving"}
  /\ \/ /\ list' = [list EXCEPT ![c] = Present]
        /\ Goto(c, IF conn[c] = "build" THEN "tell" ELSE "telling") /\ UNCHANGED <<told, pFaults>>
     \/ /\ Fault /\ Miss({process[c]})
        /\ Goto(c, IF conn[c] = "build" THEN "live" ELSE "closed") /\ UNCHANGED list
  /\ UNCHANGED <<entered, ttl, beats, sweep, raced>>

\* broadcast_ws: the SessionsUpdate goes to the sockets of this process.
Tell(c) ==
  /\ conn[c] \in {"tell", "telling"}
  /\ Broadcast(process[c], list[c])
  /\ list' = [list EXCEPT ![c] = "nobody"]
  /\ Goto(c, IF conn[c] = "tell" THEN "live" ELSE "closed")
  /\ UNCHANGED <<entered, ttl, beats, sweep, raced, pFaults>>

\* The heartbeat ticks: the key is renewed, the session is not entered again.
Heartbeat(c) ==
  /\ conn[c] = "live"
  /\ beats' = beats \cup {sessionOf[c]}
  /\ UNCHANGED <<conn, entered, ttl, list, jobVars, raced, pFaults>>

\* The task that ticks awaits its sends and takes whatever else is ready first: a
\* client that reads slowly, or a busy board, holds the tick up.
Hold(c) ==
  /\ conn[c] = "live" /\ Goto(c, "held")
  /\ UNCHANGED <<entered, ttl, beats, list, jobVars, raced, pFaults>>

Release(c) ==
  /\ conn[c] = "held" /\ Goto(c, "live")
  /\ UNCHANGED <<entered, ttl, beats, list, jobVars, raced, pFaults>>

\* The other sockets of a session that is taken out.
Others(c) == {d \in Sockets \ {c} : sessionOf[d] = sessionOf[c] /\ Open(d)}

\* Both tasks of the socket have ended. remove_session: the entry of another socket of
\* the session goes too.
RemoveSession(c) ==
  /\ conn[c] \in {"live", "held"}
  /\ Goto(c, "leaving")
  /\ \/ TakeOut({sessionOf[c]}) /\ raced' = (raced \ {c}) \cup Others(c) /\ UNCHANGED pFaults
     \/ Fault /\ raced' = raced \ {c} /\ UNCHANGED <<entered, ttl>>
  /\ Unheard(process[c])
  /\ UNCHANGED <<beats, list, sweep>>

\* The sockets a process is serving.
Served(p) == {c \in Sockets : process[c] = p /\ conn[c] \notin {"off", "closed", "dead"}}

\* A process that serves the board dies and another takes its place: nothing is taken
\* out, and what was on its way to its hub is lost.
Die(p) ==
  /\ Served(p) # {}
  /\ conn' = [c \in Sockets |-> IF c \in Served(p) THEN "dead" ELSE conn[c]]
  /\ raced' = raced \ Served(p)
  /\ list' = [c \in Sockets |-> IF c \in Served(p) THEN "nobody" ELSE list[c]]
  /\ sweep' = [sweep EXCEPT ![p] = NoSweep]
  /\ Miss({p})
  /\ UNCHANGED <<entered, ttl, beats, pFaults>>

-----------------------------------------------------------------------------
(* Expiry *)

\* The keys of session s expire: its sockets still open are excused.
BeatGone(s) ==
  /\ s \in beats /\ beats' = beats \ {s}
  /\ raced' = raced \cup {c \in Sockets : sessionOf[c] = s /\ Connected(c)}
  /\ UNCHANGED <<conn, entered, ttl, list, jobVars>>

\* HEARTBEAT_TTL_SECS in which no socket of the session ticks.
HeartbeatExpires(s) ==
  /\ \A c \in Sockets : sessionOf[c] = s => conn[c] # "live"
  /\ BeatGone(s) /\ UNCHANGED pFaults

\* The renewals of a session fail until its key expires.
RenewalsFail(s) == Fault /\ BeatGone(s)

\* SESSION_TTL_SECS in which no socket opens: the set goes, whoever is still there, and
\* nobody is told.
SetExpires ==
  /\ ttl
  /\ entered' = {} /\ ttl' = FALSE
  /\ raced' = raced \cup {c \in Sockets : Open(c)}
  /\ Miss(Processes)
  /\ UNCHANGED <<conn, beats, list, sweep, pFaults>>

-----------------------------------------------------------------------------
(* The cleanup job of process p *)

\* run_cleanup_cycle and cleanup_stale_sessions: a tick reads the set.
StartSweep(p) ==
  /\ sweep[p].pc = "idle" /\ entered # {}
  /\ Cardinality({q \in Processes : sweep[q].pc # "idle"}) < MaxSweeps
  /\ sweep' = [sweep EXCEPT ![p] = [NoSweep EXCEPT !.pc = "look", !.left = entered]]
  /\ UNCHANGED <<conn, entered, ttl, beats, list, told, raced, pFaults>>

\* A call of the job fails: the pass ends without a broadcast.
GiveUp(p) ==
  /\ Fault
  /\ sweep' = [sweep EXCEPT ![p] = NoSweep]
  /\ Miss(IF sweep[p].removed THEN {p} ELSE {})
  /\ UNCHANGED <<entered, ttl, raced>>

\* The sockets of session s without a heartbeat yet, at the time of EXISTS.
Young(s) == {c \in Sockets : sessionOf[c] = s /\ ~Connected(c)}

\* The pass r has found no heartbeat of session s.
Condemn(r, s) == [r EXCEPT !.pc = "srem", !.left = @ \ {s}, !.stale = {s}, !.young = Young(s)]

\* Mutant of LookAt: the user's other sessions count.
LookAtMutant(p, s) ==
  /\ sweep[p].pc = "look" /\ s \in sweep[p].left
  /\ \/ /\ beats # {} /\ sweep' = [sweep EXCEPT ![p].left = @ \ {s}]
        /\ UNCHANGED <<entered, ttl, told, raced, pFaults>>
     \/ /\ beats = {}
        /\ sweep' = [sweep EXCEPT ![p] = Condemn(@, s)]
        /\ UNCHANGED <<entered, ttl, told, raced, pFaults>>
     \/ GiveUp(p)
  /\ UNCHANGED <<conn, beats, list>>

\* EXISTS: a session with a heartbeat is kept.
LookAt(p, s) ==
  /\ sweep[p].pc = "look" /\ s \in sweep[p].left
  /\ \/ /\ s \in beats /\ sweep' = [sweep EXCEPT ![p].left = @ \ {s}]
        /\ UNCHANGED <<entered, ttl, told, raced, pFaults>>
     \/ /\ s \notin beats
        /\ sweep' = [sweep EXCEPT ![p] = Condemn(@, s)]
        /\ UNCHANGED <<entered, ttl, told, raced, pFaults>>
     \/ GiveUp(p)
  /\ UNCHANGED <<conn, beats, list>>

\* SREM.
RemoveStale(p) ==
  /\ sweep[p].pc = "srem"
  /\ \/ /\ TakeOut(sweep[p].stale)
        /\ sweep' = [sweep EXCEPT ![p] = [@ EXCEPT !.pc = "look", !.stale = {}, !.young = {},
                                                   !.removed = TRUE]]
        /\ raced' = raced \cup {c \in sweep[p].young : sessionOf[c] \in sweep[p].stale /\ Open(c)}
        /\ Unheard(p) /\ UNCHANGED pFaults
     \/ GiveUp(p)
  /\ UNCHANGED <<conn, beats, list>>

\* Mutant of SweepBuild: the job tells nobody.
SweepBuildMutant(p) ==
  /\ sweep[p].pc = "look" /\ sweep[p].left = {}
  /\ sweep' = [sweep EXCEPT ![p] = NoSweep]
  /\ UNCHANGED <<conn, entered, ttl, beats, list, told, raced, pFaults>>

\* All sessions have been looked at: the list is read if any was taken out.
SweepBuild(p) ==
  /\ sweep[p].pc = "look" /\ sweep[p].left = {}
  /\ \/ /\ sweep[p].removed
        /\ sweep' = [sweep EXCEPT ![p] = [@ EXCEPT !.pc = "tell", !.list = Present]]
        /\ UNCHANGED <<entered, ttl, told, raced, pFaults>>
     \/ /\ ~sweep[p].removed /\ sweep' = [sweep EXCEPT ![p] = NoSweep]
        /\ UNCHANGED <<entered, ttl, told, raced, pFaults>>
     \/ sweep[p].removed /\ GiveUp(p)
  /\ UNCHANGED <<conn, beats, list>>

SweepTell(p) ==
  /\ sweep[p].pc = "tell"
  /\ Broadcast(p, sweep[p].list)
  /\ sweep' = [sweep EXCEPT ![p] = NoSweep]
  /\ UNCHANGED <<conn, entered, ttl, beats, list, raced, pFaults>>

Sweep(p) ==
  \/ StartSweep(p) \/ RemoveStale(p) \/ SweepBuild(p) \/ SweepTell(p)
  \/ \E s \in Sessions : LookAt(p, s)

Next ==
  /\ UNCHANGED <<sessionOf, process>>
  /\ \/ \E c \in Sockets :
          \/ AddSession(c) \/ FirstTouch(c) \/ Build(c) \/ Tell(c) \/ Heartbeat(c)
          \/ Hold(c) \/ Release(c) \/ RemoveSession(c)
     \/ \E s \in Sessions : HeartbeatExpires(s) \/ RenewalsFail(s)
     \/ SetExpires
     \/ \E p \in Processes : Die(p) \/ Sweep(p)

\* The tickers of the jobs go on and keys expire; sockets owe nothing.
Fairness ==
  /\ \A p \in Processes : WF_presenceVars(Sweep(p))
  /\ \A s \in Sessions : WF_presenceVars(HeartbeatExpires(s))

Spec == Init /\ [][Next]_<<sessionOf, process, presenceVars>> /\ Fairness

-----------------------------------------------------------------------------
(* Properties *)

(***************************************************************************)
(* An open socket's session is in the set, whatever the jobs and the       *)
(* user's other sockets do, unless since it was entered an older socket of *)
(* the session ended, a job that had found no heartbeat before the socket  *)
(* gave its first took it out, the set expired for want of joins, the      *)
(* socket did not tick for a minute, or a call failed.                     *)
(***************************************************************************)
LiveEntered == \A c \in Sockets : Connected(c) => sessionOf[c] \in entered \/ c \in raced

\* Nobody in process p is on the way to broadcasting.
Quiet(p) ==
  /\ sweep[p].pc = "idle"
  /\ \A c \in Sockets : process[c] = p => conn[c] \in {"off", "live", "held", "closed", "dead"}

(***************************************************************************)
(* The list a process has broadcast last is the set as it is, whenever     *)
(* nobody in it is on the way to broadcasting, unless the set was changed  *)
(* by another process or by its expiry, the list was overtaken before it   *)
(* went out, a call failed or the process died.                            *)
(***************************************************************************)
ChangesTold == \A p \in Processes : Quiet(p) => told[p] \in {Present, "missed"}

\* Who is there is in the set, and those who are there are told.
PresenceSafe == LiveEntered /\ ChangesTold

(***************************************************************************)
(* The session of a process that died leaves the set, even while other     *)
(* sessions of the same user go on, unless the client comes back with it.  *)
(***************************************************************************)
DeadLeave ==
  \A c \in Sockets :
    conn[c] = "dead" ~>
      sessionOf[c] \notin entered
        \/ \E d \in Sockets : sessionOf[d] = sessionOf[c] /\ conn[d] \notin {"off", "closed", "dead"}
=============================================================================
