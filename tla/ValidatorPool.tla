--------------------------- MODULE ValidatorPool ---------------------------
(***************************************************************************)
(* The pool that asks an independent process for a verdict on every        *)
(* candidate before it is committed. Workers take jobs from one bounded    *)
(* queue; each owns a child process and speaks with it over two pipes, one *)
(* request and one reply at a time. A reply carries the request's seq,     *)
(* which the only caller always sets to 0: what keeps the reply to one     *)
(* candidate from being taken for the verdict on another is that a worker  *)
(* drops its child, pipes and all, after anything but a clean exchange.    *)
(***************************************************************************)
EXTENDS Integers, Sequences, FiniteSets

CONSTANTS
  Workers,     \* worker tasks
  Jobs,        \* calls of validate
  Good,        \* jobs whose candidate the renderer accepts
  QueueSize,   \* capacity of the queue
  MaxSpawnFaults  \* bound: children that cannot be started

VARIABLES
  calls,       \* job -> how far its call is
  verdict,     \* job -> what the call has returned
  pending,     \* the queue
  holds,       \* worker -> the job it has taken, in a sequence of at most one
  wPc,         \* worker -> where it is
  child,       \* worker -> its child: whether the worker owns one, whether that one runs,
               \* and what is in its pipes
  spawnFaults  \* failed starts

poolVars == <<calls, verdict, pending, holds, wPc, child, spawnFaults>>

NoChild == [owned |-> FALSE, up |-> FALSE, hung |-> FALSE, requests |-> <<>>, replies |-> <<>>]

\* A child that has died leaves what it has already answered to be read.
Dead(c) == [NoChild EXCEPT !.owned = c.owned, !.replies = c.replies]

Init ==
  /\ calls = [j \in Jobs |-> "idle"] /\ verdict = [j \in Jobs |-> "none"]
  /\ pending = <<>>
  /\ holds = [w \in Workers |-> <<>>] /\ wPc = [w \in Workers |-> "idle"]
  /\ child = [w \in Workers |-> NoChild]
  /\ spawnFaults = 0

\* The seq a commit puts into its request.
seq(j) == 0

\* What the renderer answers to a candidate.
Says(j) == IF j \in Good THEN "accept" ELSE "reject"

\* The reply to a worker's caller; the worker goes on to the next job.
Reply(w, result) ==
  /\ verdict' = [verdict EXCEPT ![Head(holds[w])] = result]
  /\ calls' = [calls EXCEPT ![Head(holds[w])] = "answered"]
  /\ holds' = [holds EXCEPT ![w] = <<>>]
  /\ wPc' = [wPc EXCEPT ![w] = "idle"]

\* A commit comes to ask for a verdict.
Ask(j) ==
  /\ calls[j] = "idle"
  /\ calls' = [calls EXCEPT ![j] = "new"]
  /\ UNCHANGED <<verdict, pending, holds, wPc, child, spawnFaults>>

\* validate: the call waits for room in the queue, then for its reply.
Validate(j) ==
  /\ calls[j] = "new" /\ Len(pending) < QueueSize
  /\ calls' = [calls EXCEPT ![j] = "waiting"]
  /\ pending' = Append(pending, j)
  /\ UNCHANGED <<verdict, holds, wPc, child, spawnFaults>>

\* worker_loop: the next job. A child that has died unnoticed is still the worker's.
Take(w) ==
  /\ wPc[w] = "idle" /\ pending # <<>>
  /\ holds' = [holds EXCEPT ![w] = <<Head(pending)>>]
  /\ pending' = Tail(pending)
  /\ wPc' = [wPc EXCEPT ![w] = IF child[w].owned THEN "write" ELSE "spawn"]
  /\ UNCHANGED <<calls, verdict, child, spawnFaults>>

\* Worker::spawn: a child with empty pipes that has announced itself.
SpawnWorker(w) ==
  /\ wPc[w] = "spawn"
  /\ \/ /\ child' = [child EXCEPT ![w] = [NoChild EXCEPT !.owned = TRUE, !.up = TRUE]]
        /\ wPc' = [wPc EXCEPT ![w] = "write"]
        /\ UNCHANGED <<calls, verdict, holds, spawnFaults>>
     \/ /\ spawnFaults < MaxSpawnFaults /\ spawnFaults' = spawnFaults + 1
        /\ Reply(w, "error") /\ UNCHANGED child
  /\ UNCHANGED pending

\* write_frame.
WriteRequest(w) ==
  /\ wPc[w] = "write"
  /\ child' = [child EXCEPT ![w].requests = Append(@, Head(holds[w]))]
  /\ wPc' = [wPc EXCEPT ![w] = "read"]
  /\ UNCHANGED <<calls, verdict, pending, holds, spawnFaults>>

\* The renderer works through its requests, or hangs, or dies.
Renderer(w) ==
  /\ child[w].up
  /\ \/ /\ ~child[w].hung /\ child[w].requests # <<>>
        /\ child' = [child EXCEPT ![w].requests = Tail(@),
                                  ![w].replies = Append(@, Head(child[w].requests))]
     \/ ~child[w].hung /\ child' = [child EXCEPT ![w].hung = TRUE]
     \/ child' = [child EXCEPT ![w] = Dead(@)]
  /\ UNCHANGED <<calls, verdict, pending, holds, wPc, spawnFaults>>

\* read_frame and parse_result: the first reply in the pipe is the result when its
\* seq is the one that was sent.
ReadReply(w) ==
  /\ wPc[w] = "read" /\ child[w].replies # <<>>
  /\ LET reply == Head(child[w].replies)
     IN IF seq(reply) = seq(Head(holds[w]))
        THEN Reply(w, Says(reply)) /\ child' = [child EXCEPT ![w].replies = Tail(@)]
        ELSE Reply(w, "error") /\ child' = [child EXCEPT ![w] = NoChild]
  /\ UNCHANGED <<pending, spawnFaults>>

\* The pipes are closed: an I/O error, and the child is dropped.
ReadFails(w) ==
  /\ wPc[w] \in {"write", "read"} /\ ~child[w].up
  /\ wPc[w] = "read" => child[w].replies = <<>>
  /\ Reply(w, "error")
  /\ child' = [child EXCEPT ![w] = NoChild]
  /\ UNCHANGED <<pending, spawnFaults>>

\* Mutant of Timeout: the child is kept for the next job.
TimeoutMutant(w) ==
  /\ wPc[w] \in {"write", "read"}
  /\ Reply(w, "error")
  /\ UNCHANGED <<pending, child, spawnFaults>>

\* Mutant of Timeout: a worker waits for as long as its child takes.
PatientMutant(w) == FALSE

\* per_request_timeout, which a prompt child can meet or miss: the child is killed.
Timeout(w) ==
  /\ wPc[w] \in {"write", "read"}
  /\ Reply(w, "error")
  /\ child' = [child EXCEPT ![w] = NoChild]
  /\ UNCHANGED <<pending, spawnFaults>>

Next ==
  \/ \E j \in Jobs : Ask(j) \/ Validate(j)
  \/ \E w \in Workers :
       \/ Take(w) \/ SpawnWorker(w) \/ WriteRequest(w) \/ Renderer(w)
       \/ ReadReply(w) \/ ReadFails(w) \/ Timeout(w)

Spec == Init /\ [][Next]_poolVars

\* Workers are tasks of the runtime, and time passes; the renderer owes nothing.
Fairness ==
  /\ \A w \in Workers :
       WF_poolVars(Take(w) \/ SpawnWorker(w) \/ WriteRequest(w) \/ ReadReply(w) \/ ReadFails(w) \/ Timeout(w))
  /\ \A j \in Jobs : SF_poolVars(Validate(j))

-----------------------------------------------------------------------------
(* Properties *)

(***************************************************************************)
(* A candidate is accepted only on the renderer's word about that very     *)
(* candidate: no reply that came late, and no reply of another worker's    *)
(* child, is taken for it, whatever hangs or dies.                         *)
(***************************************************************************)
VerdictIsOwn == \A j \in Jobs : verdict[j] \in {"none", "error", Says(j)}

(***************************************************************************)
(* Every call of validate returns, though the renderer may hang for ever   *)
(* and there are fewer workers, and less room in the queue, than calls.    *)
(***************************************************************************)
CallsReturn == \A j \in Jobs : calls[j] = "new" ~> calls[j] = "answered"
=============================================================================
