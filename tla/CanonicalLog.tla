---------------------------- MODULE CanonicalLog ----------------------------
(***************************************************************************)
(* What the canonical commit path promises its clients, with no instance,  *)
(* resident, epoch, journal or checkpoint in sight: one append-only log;   *)
(* an idempotency key enters it at most once; an Ack names the entry that  *)
(* is this request's; a read is a prefix of the log.  A request may be     *)
(* answered with an error or not at all, whether or not its entry made it. *)
(***************************************************************************)
EXTENDS Integers

CONSTANTS Requests,  \* what a client may ask for; a commit has cid and body
          Tasks, NoRequest, NoCid

VARIABLES
  log,      \* seq -> [cid, body], with domain 1..len
  len,
  pending,  \* task -> its request, or NoRequest
  answer    \* task -> [kind, seq]; kind "none" while there is no answer

logVars == <<log, len, pending, answer>>

NoAnswer == [kind |-> "none", seq |-> 0]

Init ==
  /\ log = [s \in {} |-> NoCid]
  /\ len = 0
  /\ pending = [t \in Tasks |-> NoRequest]
  /\ answer = [t \in Tasks |-> NoAnswer]

Ask(t) ==
  /\ pending[t] = NoRequest
  /\ \E r \in Requests : pending' = [pending EXCEPT ![t] = r]
  /\ UNCHANGED <<log, len, answer>>

\* The commit takes effect.
Append(t) ==
  /\ pending[t].kind = "commit"
  /\ answer[t] = NoAnswer
  /\ pending[t].cid = NoCid \/ \A s \in 1..len : log[s].cid # pending[t].cid
  /\ len' = len + 1
  /\ log' = [s \in 1..(len + 1) |->
               IF s = len + 1 THEN [cid |-> pending[t].cid, body |-> pending[t].body]
                              ELSE log[s]]
  /\ UNCHANGED pending

\* ... and is acknowledged later, if at all.
AppendSilently(t) == Append(t) /\ UNCHANGED answer

Ack(t) ==
  /\ pending[t].kind = "commit"
  /\ answer[t] = NoAnswer
  /\ \E s \in 1..len :
       /\ log[s] = [cid |-> pending[t].cid, body |-> pending[t].body]
       /\ answer' = [answer EXCEPT ![t] = [kind |-> "ack", seq |-> s]]
  /\ UNCHANGED <<log, len, pending>>

Fail(t) ==
  /\ answer[t] = NoAnswer
  /\ answer' = [answer EXCEPT ![t] = [kind |-> "error", seq |-> 0]]
  /\ UNCHANGED <<log, len, pending>>

\* The effect and the error in one: the answer to COMMIT was lost.
AppendAndFail(t) ==
  /\ Append(t)
  /\ answer' = [answer EXCEPT ![t] = [kind |-> "error", seq |-> 0]]

\* A read answers with some prefix of the log.
Read(t) ==
  /\ pending[t].kind = "read"
  /\ answer[t] = NoAnswer
  /\ \E s \in 0..len : answer' = [answer EXCEPT ![t] = [kind |-> "state", seq |-> s]]
  /\ UNCHANGED <<log, len, pending>>

\* Clients, one or all those of a crashed instance, go away.
Leave ==
  /\ \E T \in SUBSET Tasks :
       /\ pending' = [t \in Tasks |-> IF t \in T THEN NoRequest ELSE pending[t]]
       /\ answer' = [t \in Tasks |-> IF t \in T THEN NoAnswer ELSE answer[t]]
  /\ UNCHANGED <<log, len>>

Next ==
  \/ \E t \in Tasks : Ask(t) \/ AppendSilently(t) \/ Ack(t) \/ Fail(t)
                        \/ AppendAndFail(t) \/ Read(t)
  \/ Leave

Spec == Init /\ [][Next]_logVars
=============================================================================
