------------------------ MODULE CoordinatorRegistry ------------------------
(***************************************************************************)
(* The per-process registry of resident boards (CoordinatorRegistry),      *)
(* several of which run behind a round-robin load balancer on one          *)
(* PostgreSQL.  A task is one request being handled: a commit from a       *)
(* WebSocket or POST, or a read of the current canonical state.            *)
(*                                                                         *)
(* A resident is an Arc<Mutex<ResidentBoard>>: the map and any number of   *)
(* tasks refer to it, and it lives until the last reference goes.  The     *)
(* two mutexes (a resident's, and the per-board activation gate) are RAII  *)
(* guards, so who holds one is determined by where the tasks are.          *)
(***************************************************************************)
EXTENDS CanonicalStore

CONSTANTS
  Instances,   \* server processes
  Writers,     \* commits that can be in flight together
  Readers,     \* reads of the canonical state that can be in flight together
  Slots,       \* where a process can allocate a ResidentBoard
  None,
  PageSize     \* CATCH_UP_BATCH

ASSUME RegistryAssumption ==
  /\ None \notin Slots /\ None \notin Instances /\ None \notin Bodies
  /\ Writers \cap Readers = {}
  /\ PageSize \in Nat \ {0}

Tasks == Writers \cup Readers

VARIABLES
  boards,   \* instance -> the resident its map holds for the board, or None
  arcs,     \* instance, slot -> the ResidentBoard allocated there
  pc,       \* task -> where its handler is
  inst,     \* task -> the instance handling it
  req,      \* task -> the request
  attempt,  \* task -> the attempt counter of `commit`
  held,     \* task -> the resident, of its instance, whose Arc it cloned
  act,      \* task -> the local variables of `activate`
  out       \* task -> the result handed to the client

registryVars == <<boards, arcs, pc, inst, req, attempt, held, act, out>>

-----------------------------------------------------------------------------
(* Types *)

Resident == [doc : SUBSET Nat, processed : Nat, epoch : Nat]
FreeArc  == [doc |-> {}, processed |-> 0, epoch |-> 0]

Request == [kind : {"none", "commit", "read"}, cid : Cids \cup {NoCid},
            body : Bodies \cup {None}, observed : Nat, stored : BOOLEAN]
NoRequest == [kind |-> "none", cid |-> NoCid, body |-> None, observed |-> 0,
              stored |-> FALSE]

\* stored, which no step reads: its event was already in the journal when the
\* request was sent.
\* ready, epoch, head: what tx1 returned; doc, cursor: the coordinator being
\* rebuilt; batch: the rest of the page of events being replayed.
Activation == [ready : BOOLEAN, epoch : Nat, head : Nat,
               doc : SUBSET Nat, cursor : Nat, batch : SUBSET Nat]
NoActivation == [ready |-> FALSE, epoch |-> 0, head |-> 0,
                 doc |-> {}, cursor |-> 0, batch |-> {}]

\* ack: CommitResult; state: the canonical state of a read; the others are
\* the CommitErrors, with Db split by what failed, and a failed activation.
Result == [kind : {"none", "ack", "state", "conflict", "rejected", "invalid",
                   "stale", "db", "duplicate_key", "unavailable"},
           seq : Nat, doc : SUBSET Nat]
NoResult == [kind |-> "none", seq |-> 0, doc |-> {}]

ActivatingAt == {"tx1", "pick", "list", "replay", "ready", "install"}
LockedAt     == {"check", "judge", "tx", "apply"}
Locations    == {"idle", "ensure", "gate", "lock", "evict", "done"}
                  \cup ActivatingAt \cup LockedAt

RegistryTypeOK ==
  /\ boards \in [Instances -> Slots \cup {None}]
  /\ arcs \in [Instances -> [Slots -> Resident]]
  /\ pc \in [Tasks -> Locations]
  /\ inst \in [Tasks -> Instances \cup {None}]
  /\ req \in [Tasks -> Request]
  /\ attempt \in [Tasks -> 0..1]
  /\ held \in [Tasks -> Slots \cup {None}]
  /\ act \in [Tasks -> Activation]
  /\ out \in [Tasks -> Result]

RegistryInit ==
  /\ boards = [i \in Instances |-> None]
  /\ arcs = [i \in Instances |-> [a \in Slots |-> FreeArc]]
  /\ pc = [t \in Tasks |-> "idle"]
  /\ inst = [t \in Tasks |-> None]
  /\ req = [t \in Tasks |-> NoRequest]
  /\ attempt = [t \in Tasks |-> 0]
  /\ held = [t \in Tasks |-> None]
  /\ act = [t \in Tasks |-> NoActivation]
  /\ out = [t \in Tasks |-> NoResult]

-----------------------------------------------------------------------------
(* Mutexes and reference counts *)

\* The activation gate of instance i is free.
GateFree(i) == \A u \in Tasks : inst[u] = i => pc[u] \notin ActivatingAt

\* The mutex of the resident that t refers to is free.
MutexFree(t) ==
  \A u \in Tasks : inst[u] = inst[t] /\ held[u] = held[t] => pc[u] \notin LockedAt

Referenced(i, a) ==
  boards[i] = a \/ \E u \in Tasks : inst[u] = i /\ held[u] = a

\* Dropping the last Arc frees the resident; f is what the step writes.
DropUnreferenced(f) ==
  arcs' = [i \in Instances |-> [a \in Slots |->
             IF Referenced(i, a)' THEN f[i][a] ELSE FreeArc]]

\* The resident t refers to.
MyResident(t) == arcs[inst[t]][held[t]]

\* The handler is over: its guards and its Arc are dropped.
Finish(t, result) ==
  /\ pc' = [pc EXCEPT ![t] = "done"]
  /\ out' = [out EXCEPT ![t] = result]
  /\ held' = [held EXCEPT ![t] = None]
  /\ act' = [act EXCEPT ![t] = NoActivation]
  /\ attempt' = [attempt EXCEPT ![t] = 0]
  /\ UNCHANGED <<inst, req>>

Error(kind) == [kind |-> kind, seq |-> 0, doc |-> {}]

Matches(row, r) == row.cid = r.cid /\ row.body = r.body

-----------------------------------------------------------------------------
(* The client *)

\* A request reaches an instance.  observed is a durable seq the client has
\* seen (0 when no envelope carries one).  A client never retries an event
\* whose row has outlived the retention window: the window "protects offline
\* idempotency keys".
Submit(t) ==
  /\ t \in Writers
  /\ pc[t] = "idle"
  /\ \E i \in Instances, cid \in Cids \cup {NoCid}, body \in Bodies, seen \in 0..MaxSeq :
       /\ seen < nextSeq /\ (body \in ServerBodies => seen = 0)
       /\ \A s \in DOMAIN rows : s <= aged /\ cid # NoCid => rows[s].cid # cid
       /\ req' = [req EXCEPT ![t] =
                    [kind |-> "commit", cid |-> cid, body |-> body, observed |-> seen,
                     stored |-> cid # NoCid /\ \E s \in journal :
                                  Matches(rows[s], [cid |-> cid, body |-> body])]]
       /\ inst' = [inst EXCEPT ![t] = i]
  /\ pc' = [pc EXCEPT ![t] = "ensure"]
  /\ UNCHANGED <<boards, arcs, attempt, held, act, out, storeVars>>

\* current_canonical_state / current_canonical_export, for load, preview,
\* rendering and export.
SubmitRead(t) ==
  /\ t \in Readers
  /\ pc[t] = "idle"
  /\ \E i \in Instances : inst' = [inst EXCEPT ![t] = i]
  /\ req' = [req EXCEPT ![t] = [@ EXCEPT !.kind = "read"]]
  /\ pc' = [pc EXCEPT ![t] = "ensure"]
  /\ UNCHANGED <<boards, arcs, attempt, held, act, out, storeVars>>

\* The result has been delivered, or lost; the client may send again.
Deliver(t) ==
  /\ pc[t] = "done"
  /\ pc' = [pc EXCEPT ![t] = "idle"]
  /\ out' = [out EXCEPT ![t] = NoResult]
  /\ req' = [req EXCEPT ![t] = NoRequest]
  /\ inst' = [inst EXCEPT ![t] = None]
  /\ UNCHANGED <<boards, arcs, attempt, held, act, storeVars>>

-----------------------------------------------------------------------------
(* ensure_active *)

\* The handler found the resident in the map and cloned its Arc.
UseResident(t) ==
  /\ boards[inst[t]] # None
  /\ held' = [held EXCEPT ![t] = boards[inst[t]]]
  /\ pc' = [pc EXCEPT ![t] = "lock"]
  /\ UNCHANGED <<boards, arcs, inst, req, attempt, act, out, storeVars>>

EnsureHit(t) == pc[t] = "ensure" /\ UseResident(t)

EnsureMiss(t) ==
  /\ pc[t] = "ensure"
  /\ boards[inst[t]] = None
  /\ pc' = [pc EXCEPT ![t] = "gate"]
  /\ UNCHANGED <<boards, arcs, inst, req, attempt, held, act, out, storeVars>>

\* The second check, under the gate.
GateHit(t) == pc[t] = "gate" /\ GateFree(inst[t]) /\ UseResident(t)

GateEnter(t) ==
  /\ pc[t] = "gate"
  /\ GateFree(inst[t])
  /\ boards[inst[t]] = None
  /\ pc' = [pc EXCEPT ![t] = "tx1"]
  /\ UNCHANGED <<boards, arcs, inst, req, attempt, held, act, out, storeVars>>

-----------------------------------------------------------------------------
(* activate *)

\* tx1, head already ready: reuse the durable revision.
ActivateReuse(t) ==
  /\ pc[t] = "tx1"
  /\ head.state = "ready"
  /\ act' = [act EXCEPT ![t] = [NoActivation EXCEPT !.ready = TRUE, !.epoch = head.epoch,
                                                    !.head = head.processed]]
  /\ pc' = [pc EXCEPT ![t] = "pick"]
  /\ UNCHANGED <<boards, arcs, inst, req, attempt, held, out, storeVars>>

\* Mutant of ActivateBegin: every activation takes a new epoch, ready or not.
ActivateBeginMutant(t) ==
  /\ pc[t] = "tx1"
  /\ head.epoch < MaxEpoch
  /\ BeginActivation
  /\ \E m \in 0..MaxSeq :
       /\ IsEventsHead(m)
       /\ act' = [act EXCEPT ![t] = [NoActivation EXCEPT !.epoch = head'.epoch, !.head = m]]
  /\ pc' = [pc EXCEPT ![t] = "pick"]
  /\ UNCHANGED <<boards, arcs, inst, req, attempt, held, out,
                 nextSeq, rows, journal, events, snapshots, assetSeq, configSeq, aged>>

\* tx1, no head or an abandoned activation: fence it with a new epoch.
ActivateBegin(t) ==
  /\ pc[t] = "tx1"
  /\ head.state # "ready"
  /\ head.epoch < MaxEpoch
  /\ BeginActivation
  /\ \E m \in 0..MaxSeq :
       /\ IsEventsHead(m)
       /\ act' = [act EXCEPT ![t] = [NoActivation EXCEPT !.epoch = head'.epoch, !.head = m]]
  /\ pc' = [pc EXCEPT ![t] = "pick"]
  /\ UNCHANGED <<boards, arcs, inst, req, attempt, held, out,
                 nextSeq, rows, journal, events, snapshots, assetSeq, configSeq, aged>>

\* preferred_activation_base and from_base.
PickBase(t) ==
  /\ pc[t] = "pick"
  /\ \E c \in snapshots \cup {[seq |-> 0, doc |-> {}]} :
       /\ IsBase(c, act[t].head)
       /\ act' = [act EXCEPT ![t] = [@ EXCEPT !.doc = c.doc, !.cursor = c.seq]]
  /\ pc' = [pc EXCEPT ![t] = "list"]
  /\ UNCHANGED <<boards, arcs, inst, req, attempt, held, out, storeVars>>

\* One round of the replay loop: the next page of events.
ListEvents(t) ==
  /\ pc[t] = "list"
  /\ act[t].cursor < act[t].head
  /\ \E page \in SUBSET events :
       /\ IsPage(page, events, act[t].cursor, PageSize)
       /\ act' = [act EXCEPT ![t] = [@ EXCEPT !.batch = page]]
       /\ pc' = [pc EXCEPT ![t] = IF page = {} THEN "ready" ELSE "replay"]
  /\ UNCHANGED <<boards, arcs, inst, req, attempt, held, out, storeVars>>

ReplayDone(t) ==
  /\ pc[t] = "list"
  /\ act[t].cursor >= act[t].head
  /\ pc' = [pc EXCEPT ![t] = "ready"]
  /\ UNCHANGED <<boards, arcs, inst, req, attempt, held, act, out, storeVars>>

\* ev is the next event of the page.
IsNextEvent(t, ev) == ev \in act[t].batch /\ \A e \in act[t].batch : ev <= e

\* Mutant of ReplayEvent: the cursor is not moved past the replayed event.
ReplayEventMutant(t) ==
  /\ pc[t] = "replay"
  /\ \E ev \in act[t].batch :
       /\ IsNextEvent(t, ev)
       /\ ev <= act[t].head
       /\ ev \in journal
       /\ act' = [act EXCEPT ![t] = [@ EXCEPT !.doc = act[t].doc \cup {ev},
                                             !.batch = act[t].batch \ {ev}]]
       /\ pc' = [pc EXCEPT ![t] = IF act[t].batch = {ev} THEN "list" ELSE "replay"]
  /\ UNCHANGED <<boards, arcs, inst, req, attempt, held, out, storeVars>>

\* catch_up_one found the journal row of the event.
ReplayEvent(t) ==
  /\ pc[t] = "replay"
  /\ \E ev \in act[t].batch :
       /\ IsNextEvent(t, ev)
       /\ ev <= act[t].head
       /\ ev \in journal
       /\ act' = [act EXCEPT ![t] = [@ EXCEPT !.doc = act[t].doc \cup {ev}, !.cursor = ev,
                                             !.batch = act[t].batch \ {ev}]]
       /\ pc' = [pc EXCEPT ![t] = IF act[t].batch = {ev} THEN "list" ELSE "replay"]
  /\ UNCHANGED <<boards, arcs, inst, req, attempt, held, out, storeVars>>

\* break 'outer: the page ran past activation_head.
ReplayPastHead(t) ==
  /\ pc[t] = "replay"
  /\ \E ev \in act[t].batch : IsNextEvent(t, ev) /\ ev > act[t].head
  /\ act' = [act EXCEPT ![t] = [@ EXCEPT !.batch = {}]]
  /\ pc' = [pc EXCEPT ![t] = "ready"]
  /\ UNCHANGED <<boards, arcs, inst, req, attempt, held, out, storeVars>>

\* `activate` returned an error: the gate is released and nothing installed.
ActivateFail(t) ==
  /\ Finish(t, Error(IF attempt[t] = 0 THEN "unavailable" ELSE "db"))
  /\ UNCHANGED <<boards, arcs, storeVars>>

\* catch_up_one: "canonical journal gap".
ReplayGap(t) ==
  /\ pc[t] = "replay"
  /\ \E ev \in act[t].batch : IsNextEvent(t, ev) /\ ev <= act[t].head /\ ev \notin journal
  /\ ActivateFail(t)

\* tx2 of a first activation.
ActivateReady(t) ==
  /\ pc[t] = "ready"
  /\ ~act[t].ready
  /\ CanMarkReady(act[t].epoch)
  /\ MarkReady(act[t].epoch, act[t].head)
  /\ pc' = [pc EXCEPT ![t] = "install"]
  /\ UNCHANGED <<boards, arcs, inst, req, attempt, held, act, out,
                 nextSeq, rows, journal, events, snapshots, assetSeq, configSeq, aged>>

\* "mark_ready CAS failed - superseded by another owner".
ActivateSuperseded(t) ==
  /\ pc[t] = "ready"
  /\ ~act[t].ready
  /\ ~CanMarkReady(act[t].epoch)
  /\ ActivateFail(t)

\* Publish the new resident in the map and go on with it.
Install(t) ==
  /\ \/ pc[t] = "install"
     \/ pc[t] = "ready" /\ act[t].ready
  /\ UNCHANGED <<inst, req, attempt, out, storeVars>>
  /\ \E a \in Slots : ~Referenced(inst[t], a)
  /\ LET a == CHOOSE a \in Slots : ~Referenced(inst[t], a) IN
       /\ boards' = [boards EXCEPT ![inst[t]] = a]
       /\ held' = [held EXCEPT ![t] = a]
       /\ DropUnreferenced([arcs EXCEPT ![inst[t]][a] =
            [doc |-> act[t].doc, processed |-> act[t].cursor, epoch |-> act[t].epoch]])
  /\ act' = [act EXCEPT ![t] = NoActivation]
  /\ pc' = [pc EXCEPT ![t] = "lock"]

-----------------------------------------------------------------------------
(* current_canonical_state: the document under the resident's mutex. *)

ReadState(t) ==
  /\ pc[t] = "lock"
  /\ req[t].kind = "read"
  /\ MutexFree(t)
  /\ Finish(t, [kind |-> "state", seq |-> MyResident(t).processed, doc |-> MyResident(t).doc])
  /\ UNCHANGED <<boards, storeVars>>
  /\ DropUnreferenced(arcs)

-----------------------------------------------------------------------------
(* commit / commit_once *)

CommitLock(t) ==
  /\ pc[t] = "lock"
  /\ req[t].kind = "commit"
  /\ MutexFree(t)
  /\ pc' = [pc EXCEPT ![t] = "check"]
  /\ UNCHANGED <<boards, arcs, inst, req, attempt, held, act, out, storeVars>>

\* The attempt is over with this result and touched nothing durable.
CommitReply(t, result) ==
  /\ Finish(t, result)
  /\ UNCHANGED <<boards, storeVars>>
  /\ DropUnreferenced(arcs)

\* A stored row has the request's client_event_id: an exact retry is answered
\* with the persisted result, anything else is a conflict.
DedupHit(t) ==
  /\ pc[t] = "check"
  /\ \E s \in journal :
       /\ RowOfCid(req[t].cid, s)
       /\ CommitReply(t, IF Matches(rows[s], req[t])
                         THEN [kind |-> "ack", seq |-> s, doc |-> {}]
                         ELSE Error("conflict"))

\* The dedup read finds no row.
DedupMiss(t) ==
  /\ pc[t] = "check"
  /\ ~CidTaken(req[t].cid)
  /\ pc' = [pc EXCEPT ![t] = "judge"]
  /\ UNCHANGED <<boards, arcs, inst, req, attempt, held, act, out, storeVars>>

\* Base, hash and schema of the client's envelope do not decode.  This comes
\* before the dedup read; a stored event passed it.
RejectEnvelope(t) ==
  /\ pc[t] = "check"
  /\ req[t].body \notin ServerBodies
  /\ \A s \in journal : RowOfCid(req[t].cid, s) => ~Matches(rows[s], req[t])
  /\ CommitReply(t, Error("invalid"))

\* The envelope claims a seq this resident has not folded in.
ObservedAhead(t) ==
  req[t].body \notin ServerBodies /\ req[t].observed > MyResident(t).processed

\* Mutant of RejectObserved: the revision check comes before durable dedup.
RejectObservedMutant(t) ==
  /\ pc[t] = "check"
  /\ ObservedAhead(t)
  /\ CommitReply(t, Error("rejected"))

\* Revision and candidate are judged after the dedup read has returned, and
\* the key is not looked up again: another instance may have committed it.
RejectObserved(t) ==
  /\ pc[t] = "judge"
  /\ ObservedAhead(t)
  /\ CommitReply(t, Error("rejected"))

\* Writer fence, payload form, schema fence, mapping or the validator sidecar
\* (which may also time out) turned the candidate down.
RejectCandidate(t) ==
  /\ pc[t] = "judge"
  /\ CommitReply(t, Error("invalid"))

CandidateValid(t) ==
  /\ pc[t] = "judge"
  /\ ~ObservedAhead(t)
  /\ pc' = [pc EXCEPT ![t] = "tx"]
  /\ UNCHANGED <<boards, arcs, inst, req, attempt, held, act, out, storeVars>>

NewRow(t) == [cid |-> req[t].cid, body |-> req[t].body]

Fenced(t) == RevisionFence(MyResident(t).epoch, MyResident(t).processed)

\* The transaction commits.
CommitTx(t) ==
  /\ pc[t] = "tx"
  /\ nextSeq <= MaxSeq
  /\ ~CidTaken(req[t].cid)
  /\ Fenced(t)
  /\ CommitPair(NewRow(t))
  /\ out' = [out EXCEPT ![t] = [kind |-> "ack", seq |-> nextSeq, doc |-> {}]]
  /\ pc' = [pc EXCEPT ![t] = "apply"]
  /\ UNCHANGED <<boards, arcs, inst, req, attempt, held, act>>

\* The transaction commits but the connection breaks before the answer.
CommitTxLostAnswer(t) ==
  /\ pc[t] = "tx"
  /\ nextSeq <= MaxSeq
  /\ ~CidTaken(req[t].cid)
  /\ Fenced(t)
  /\ CommitPair(NewRow(t))
  /\ Finish(t, Error("db"))
  /\ UNCHANGED boards
  /\ DropUnreferenced(arcs)

\* Mutant of CommitTxDuplicate: the violation is taken for a success.
CommitTxDuplicateMutant(t) ==
  /\ pc[t] = "tx"
  /\ CidTaken(req[t].cid)
  /\ CommitReply(t, [kind |-> "ack", seq |-> nextSeq, doc |-> {}])

\* insert_update hits UNIQUE (board_id, client_event_id).
CommitTxDuplicate(t) ==
  /\ pc[t] = "tx"
  /\ CidTaken(req[t].cid)
  /\ CommitReply(t, Error("duplicate_key"))

\* Mutant of CommitTxStale: the seq was reserved outside the transaction.
CommitTxStaleMutant(t) ==
  /\ pc[t] = "tx"
  /\ ~CidTaken(req[t].cid)
  /\ ~Fenced(t)
  /\ nextSeq <= MaxSeq
  /\ nextSeq' = nextSeq + 1
  /\ pc' = [pc EXCEPT ![t] = "evict"]
  /\ UNCHANGED <<boards, arcs, inst, req, attempt, held, act, out,
                 head, rows, journal, events, snapshots, assetSeq, configSeq, aged>>

\* advance_processed_seq matched no row: rollback, release the mutex.
CommitTxStale(t) ==
  /\ pc[t] = "tx"
  /\ ~CidTaken(req[t].cid)
  /\ ~Fenced(t)
  /\ pc' = [pc EXCEPT ![t] = "evict"]
  /\ UNCHANGED <<boards, arcs, inst, req, attempt, held, act, out, storeVars>>

\* evict_if_same: the map is emptied only of this very resident.
EvictIfSame(t) ==
  boards' = [boards EXCEPT ![inst[t]] = IF @ = held[t] THEN None ELSE @]

\* Mutant of EvictAndRetry: the attempts are not limited.
EvictAndRetryMutant(t) ==
  /\ pc[t] = "evict"
  /\ EvictIfSame(t)
  /\ held' = [held EXCEPT ![t] = None]
  /\ attempt' = [attempt EXCEPT ![t] = @ + 1]
  /\ pc' = [pc EXCEPT ![t] = "ensure"]
  /\ UNCHANGED <<inst, req, act, out, storeVars>>
  /\ DropUnreferenced(arcs)

\* StaleRevision on the first attempt: rebuild and try once more.
EvictAndRetry(t) ==
  /\ pc[t] = "evict"
  /\ attempt[t] = 0
  /\ EvictIfSame(t)
  /\ held' = [held EXCEPT ![t] = None]
  /\ attempt' = [attempt EXCEPT ![t] = 1]
  /\ pc' = [pc EXCEPT ![t] = "ensure"]
  /\ UNCHANGED <<inst, req, act, out, storeVars>>
  /\ DropUnreferenced(arcs)

EvictAndGiveUp(t) ==
  /\ pc[t] = "evict"
  /\ attempt[t] = 1
  /\ EvictIfSame(t)
  /\ Finish(t, Error("stale"))
  /\ DropUnreferenced(arcs)
  /\ UNCHANGED storeVars

\* Mutant of ApplyCommitted: the watermark moves, the update is not applied.
ApplyCommittedMutant(t) ==
  /\ pc[t] = "apply"
  /\ Finish(t, out[t])
  /\ UNCHANGED <<boards, storeVars>>
  /\ DropUnreferenced([arcs EXCEPT ![inst[t]][held[t]].processed = out[t].seq])

\* apply_committed: the resident folds in exactly what was persisted.
ApplyCommitted(t) ==
  /\ pc[t] = "apply"
  /\ Finish(t, out[t])
  /\ UNCHANGED <<boards, storeVars>>
  /\ DropUnreferenced([arcs EXCEPT ![inst[t]][held[t]] =
       [@ EXCEPT !.doc = MyResident(t).doc \cup {out[t].seq}, !.processed = out[t].seq]])

\* apply_committed failed, the update folded in or not: whatever the map
\* holds is removed, and the durable event is still acknowledged.
ApplyFailed(t) ==
  /\ pc[t] = "apply"
  /\ Finish(t, out[t])
  /\ boards' = [boards EXCEPT ![inst[t]] = None]
  /\ \E d \in {{}, {out[t].seq}} :
       DropUnreferenced([arcs EXCEPT ![inst[t]][held[t]] =
         [@ EXCEPT !.doc = MyResident(t).doc \cup d]])
  /\ UNCHANGED storeVars

-----------------------------------------------------------------------------
(* Failures *)

\* A statement of an activation fails; its transaction rolls back.
ActivateDbError(t) ==
  /\ pc[t] \in ActivatingAt \ {"install"}
  /\ ActivateFail(t)

\* A statement of commit_once fails; the transaction rolls back.
CommitDbError(t) ==
  /\ pc[t] \in {"check", "tx"}
  /\ CommitReply(t, Error("db"))

\* The HTTP client hangs up and its handler is dropped at an await, or (at
\* "apply") while the answer to COMMIT was outstanding.
Cancel(t) ==
  /\ pc[t] \notin {"idle", "done", "evict"}
  /\ pc' = [pc EXCEPT ![t] = "idle"]
  /\ held' = [held EXCEPT ![t] = None]
  /\ act' = [act EXCEPT ![t] = NoActivation]
  /\ attempt' = [attempt EXCEPT ![t] = 0]
  /\ out' = [out EXCEPT ![t] = NoResult]
  /\ req' = [req EXCEPT ![t] = NoRequest]
  /\ inst' = [inst EXCEPT ![t] = None]
  /\ UNCHANGED <<boards, storeVars>>
  /\ DropUnreferenced(arcs)

\* The process dies with every resident, gate and handler in it.
Crash(i) ==
  /\ boards' = [boards EXCEPT ![i] = None]
  /\ pc' = [t \in Tasks |-> IF inst[t] = i THEN "idle" ELSE pc[t]]
  /\ held' = [t \in Tasks |-> IF inst[t] = i THEN None ELSE held[t]]
  /\ act' = [t \in Tasks |-> IF inst[t] = i THEN NoActivation ELSE act[t]]
  /\ attempt' = [t \in Tasks |-> IF inst[t] = i THEN 0 ELSE attempt[t]]
  /\ out' = [t \in Tasks |-> IF inst[t] = i THEN NoResult ELSE out[t]]
  /\ req' = [t \in Tasks |-> IF inst[t] = i THEN NoRequest ELSE req[t]]
  /\ inst' = [t \in Tasks |-> IF inst[t] = i THEN None ELSE inst[t]]
  /\ UNCHANGED storeVars
  /\ DropUnreferenced(arcs)

-----------------------------------------------------------------------------
ActivationStep(t) ==
  \/ EnsureHit(t) \/ EnsureMiss(t) \/ GateHit(t) \/ GateEnter(t)
  \/ ActivateReuse(t) \/ ActivateBegin(t) \/ PickBase(t)
  \/ ListEvents(t) \/ ReplayDone(t) \/ ReplayEvent(t) \/ ReplayPastHead(t) \/ ReplayGap(t)
  \/ ActivateReady(t) \/ ActivateSuperseded(t) \/ Install(t) \/ ActivateDbError(t)

CommitStep(t) ==
  \/ CommitLock(t) \/ RejectEnvelope(t) \/ DedupHit(t) \/ DedupMiss(t)
  \/ RejectObserved(t) \/ RejectCandidate(t) \/ CandidateValid(t) \/ CommitTx(t) \/ CommitTxLostAnswer(t) \/ CommitTxDuplicate(t)
  \/ CommitTxStale(t) \/ EvictAndRetry(t) \/ EvictAndGiveUp(t)
  \/ ApplyCommitted(t) \/ ApplyFailed(t) \/ CommitDbError(t)

TaskStep(t) == ActivationStep(t) \/ CommitStep(t) \/ ReadState(t)

RegistryNext ==
  \/ \E t \in Tasks : Submit(t) \/ SubmitRead(t) \/ TaskStep(t) \/ Deliver(t) \/ Cancel(t)
  \/ \E i \in Instances : Crash(i)
=============================================================================
