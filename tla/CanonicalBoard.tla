--------------------------- MODULE CanonicalBoard ---------------------------
(***************************************************************************)
(* The canonical history of one board as the whole deployment runs it:     *)
(* the registries of all instances, the compaction and retention jobs, and *)
(* the passing of time, on one database.                                   *)
(***************************************************************************)
EXTENDS CoordinatorRegistry, Compaction

vars == <<storeVars, registryVars, compactionVars>>

Init == StoreInit /\ RegistryInit /\ CompactionInit

\* Rows up to a pass the retention window.  The window (7 days at least) is
\* longer than any client keeps retrying, so no request in flight carries
\* the idempotency key of a row that ages.
Age(a) ==
  /\ aged < a /\ a < nextSeq
  /\ \A t \in Tasks, s \in DOMAIN rows :
       s <= a /\ req[t].cid # NoCid => rows[s].cid # req[t].cid
  /\ aged' = a
  /\ UNCHANGED <<head, nextSeq, rows, journal, events, snapshots, assetSeq, configSeq,
                 registryVars, compactionVars>>

Next ==
  \/ RegistryNext /\ UNCHANGED compactionVars
  \/ CompactionNext /\ UNCHANGED registryVars
  \/ \E a \in 1..MaxSeq : Age(a)

\* Tokio's mutexes are FIFO, so a task that can again and again take the gate
\* or a resident's mutex gets it; every other step of a handler is run by the
\* scheduler once it is ready.  Clients, failures and the periodic jobs owe
\* nothing.
Fairness ==
  \A t \in Tasks :
    /\ WF_vars(TaskStep(t) /\ UNCHANGED compactionVars)
    /\ SF_vars((GateHit(t) \/ GateEnter(t)) /\ UNCHANGED compactionVars)
    /\ SF_vars((CommitLock(t) \/ ReadState(t)) /\ UNCHANGED compactionVars)

Spec == Init /\ [][Next]_vars

FairSpec == Spec /\ Fairness

-----------------------------------------------------------------------------
(* Invariants *)

\* Every variable of the store, the registries and the jobs has its type.
TypeOK == StoreTypeOK /\ RegistryTypeOK /\ CompactionTypeOK

\* A ready head is at the end of the history: no reserved seq was lost to a
\* rollback, no superseded activation moved the watermark, and the history
\* has no holes.
HeadAtLogEnd ==
  /\ DOMAIN rows = 1..(nextSeq - 1)
  /\ head.state = "ready" => head.processed = nextSeq - 1

\* The revision fence is enough: any resident, on any instance, evicted or
\* not, that could win advance_processed_seq now has folded in every event of
\* the history.  So no commit is ever validated against a partial document.
FencedResidentComplete ==
  \A i \in Instances, a \in Slots :
    Referenced(i, a) /\ RevisionFence(arcs[i][a].epoch, arcs[i][a].processed)
      => arcs[i][a].doc = 1..(nextSeq - 1)

\* A client_event_id is committed at most once, however often and wherever it
\* is retried, through crashes, lost answers and retention.
ExactlyOnce ==
  \A r, s \in DOMAIN rows : rows[r].cid = rows[s].cid /\ rows[r].cid # NoCid => r = s

\* A checkpoint is the document of the whole history up to its seq, although
\* the head and the journal move while it is built and gaps are accepted.
CheckpointsComplete == \A c \in snapshots : c.seq < nextSeq /\ c.doc = 1..c.seq

\* Retention keeps "a tested recovery base plus its tail": an event and its
\* journal row are stored until two checkpoints cover them.
RecoveryTailRetained ==
  \A s \in 1..(nextSeq - 1) :
    \/ s \in journal /\ s \in events
    \/ \E c, d \in snapshots : c.seq # d.seq /\ c.seq >= s /\ d.seq >= s

\* No reader meets an update whose event half retention has removed.
PairedHistory == journal \subseteq events

\* The state answered to a reader (load, preview, render, export) is a prefix
\* of the history, at least as long as the last_event_seq it is labelled with.
ReadersSeePrefix ==
  \A t \in Tasks : pc[t] = "done" /\ out[t].kind = "state"
    => \E n \in out[t].seq..(nextSeq - 1) : out[t].doc = 1..n

\* The read models written in the commit transaction are those of the head.
ReadModelsAtHead ==
  head.state = "ready" /\ nextSeq > 1 =>
    /\ assetSeq = head.processed
    /\ \A s \in DOMAIN rows : rows[s].body \in ConfigBodies => s <= configSeq

\* A retry sent when its event was stored is acknowledged with that event, or
\* told to try again; whatever was evicted, activated or retained meanwhile, no
\* check turns it away for good.  (A retry sent while the first request is still
\* being handled has no such promise: see RejectObserved.)
StoredRetryAcked ==
  \A t \in Tasks : pc[t] = "done" /\ req[t].stored =>
    \/ out[t].kind \in {"db", "unavailable"}
    \/ out[t].kind = "ack" /\ out[t].seq \in DOMAIN rows /\ Matches(rows[out[t].seq], req[t])

-----------------------------------------------------------------------------
(* Action properties *)

\* Once a board is ready no later activation, on any instance, takes its
\* writer epoch away or moves its watermark except by committing one event.
ReadyIsFinal ==
  [][head.state = "ready" =>
       /\ head'.state = "ready" /\ head'.epoch = head.epoch
       /\ head'.processed \in {head.processed, head.processed + 1}]_vars

-----------------------------------------------------------------------------
(* Refinement *)

\* The answer a client can see.
VisibleAnswer(t) ==
  IF pc[t] # "done" THEN [kind |-> "none", seq |-> 0]
  ELSE IF out[t].kind \in {"ack", "state"} THEN [kind |-> out[t].kind, seq |-> out[t].seq]
  ELSE [kind |-> "error", seq |-> 0]

\* The request without what the client has observed, which the log ignores.
Asked(r) == [kind |-> r.kind, cid |-> r.cid, body |-> r.body]

Log == INSTANCE CanonicalLog WITH
         Requests <- [kind : {"commit", "read"}, cid : Cids \cup {NoCid},
                      body : Bodies \cup {None}],
         NoRequest <- Asked(NoRequest),
         log <- rows,
         len <- nextSeq - 1,
         pending <- [t \in Tasks |-> Asked(req[t])],
         answer <- [t \in Tasks |-> VisibleAnswer(t)]

\* The deployment implements the append-only, exactly-once log.
ImplementsLog == Log!Spec

-----------------------------------------------------------------------------
(* Liveness *)

\* Every request a live instance took is answered or dropped: no handler waits
\* for ever on the gate, on a resident, or in the stale-revision retry.
RequestsEnd == \A t \in Tasks : pc[t] # "idle" ~> pc[t] \in {"done", "idle"}

-----------------------------------------------------------------------------
(* What comments and docs of the repository say, and the code does not do *)

\* coordinator_registry.rs:742-744: a commit that loses to another instance is
\* StaleRevision, "rebuild from the durable journal"; so a client that only
\* reports what it has observed is never turned away for good.
HonestClientNotRejected == \A t \in Tasks : out[t].kind # "rejected"
=============================================================================
