---------------------------- MODULE HistoryProofs ----------------------------
(***************************************************************************)
(* CanonicalBoard, for any number of instances, tasks, residents, events   *)
(* and checkpoints. First its types; then the history itself, whatever the *)
(* residents believe: it has no holes, a ready head is at its end, a       *)
(* client_event_id enters it once, an update is never stored without its   *)
(* event, and a ready board is never activated again.                      *)
(***************************************************************************)
EXTENDS CanonicalBoard, TLAPS

-----------------------------------------------------------------------------
(* Types *)

\* Where a handler is decides what it may dereference: an accepted request
\* runs on an instance, one past ensure_active has cloned an Arc, and only a
\* commit, which has an event body, takes the resident's mutex for long.
Placed ==
  \A t \in Tasks :
    /\ pc[t] # "idle" => inst[t] \in Instances
    /\ pc[t] \in {"lock", "evict"} \cup LockedAt => held[t] \in Slots
    /\ pc[t] \in LockedAt => req[t].kind = "commit"
    /\ req[t].kind = "commit" => req[t].body \in Bodies

TypeInv == TypeOK /\ Placed

\* Types of the parts of the registry that a step may change on its own.
ArcsType == arcs \in [Instances -> [Slots -> Resident]]

-----------------------------------------------------------------------------
\* Every variable of the store, a registry or a job has its type initially.
LEMMA TypeInit == Init => TypeInv
  BY StoreAssumption, RegistryAssumption
  DEF Init, StoreInit, RegistryInit, CompactionInit, TypeInv, TypeOK, Placed,
      StoreTypeOK, RegistryTypeOK, CompactionTypeOK, HeadRow, Resident, FreeArc, Request,
      NoRequest, Activation, NoActivation, Result, NoResult, Candidate, NoCandidate,
      Locations, ActivatingAt, LockedAt, Tasks, Checkpoint, Row

\* Dropping the last reference to a resident leaves a well-formed table.
LEMMA DropType ==
  ASSUME NEW f \in [Instances -> [Slots -> Resident]], DropUnreferenced(f)
  PROVE  ArcsType'
  <1>1. FreeArc \in Resident
    BY DEF FreeArc, Resident
  <1> QED
    BY <1>1 DEF DropUnreferenced, ArcsType

\* The end of a handler, with any result.
LEMMA FinishType ==
  ASSUME TypeInv, NEW t \in Tasks, NEW result \in Result, Finish(t, result),
         pc[t] # "idle", boards' \in [Instances -> Slots \cup {None}],
         ArcsType', UNCHANGED compactionVars, StoreTypeOK'
  PROVE  TypeInv'
  <1>1. NoActivation \in Activation
    BY DEF NoActivation, Activation
  <1>2. RegistryTypeOK'
    BY <1>1 DEF TypeInv, TypeOK, RegistryTypeOK, Finish, ArcsType, Locations
  <1>3. CompactionTypeOK'
    BY DEF TypeInv, TypeOK, CompactionTypeOK, compactionVars
  <1>4. Placed'
    BY DEF TypeInv, TypeOK, Placed, Finish, RegistryTypeOK, LockedAt
  <1> QED
    BY <1>2, <1>3, <1>4 DEF TypeInv, TypeOK

\* A step of the client, of ensure_active or of activate that goes on.
LEMMA ActivationType ==
  ASSUME TypeInv, NEW t \in Tasks, UNCHANGED compactionVars,
         \/ Submit(t) \/ SubmitRead(t) \/ Deliver(t)
         \/ EnsureHit(t) \/ EnsureMiss(t) \/ GateHit(t) \/ GateEnter(t)
         \/ ActivateReuse(t) \/ ActivateBegin(t) \/ PickBase(t)
         \/ ListEvents(t) \/ ReplayDone(t) \/ ReplayEvent(t) \/ ReplayPastHead(t)
         \/ ActivateReady(t) \/ Install(t)
  PROVE  TypeInv'
  <1> USE DEF TypeInv, TypeOK
  <1>0. CompactionTypeOK'
    BY DEF CompactionTypeOK, compactionVars
  <1>a. StoreTypeOK'
    <2>1. CASE UNCHANGED storeVars
      BY <2>1 DEF StoreTypeOK, storeVars
    <2>2. CASE ActivateBegin(t)
      <3>1. head' = [state |-> "activating", epoch |-> head.epoch + 1,
                     processed |-> head.processed]
            /\ UNCHANGED <<nextSeq, rows, journal, events, snapshots, assetSeq, configSeq, aged>>
        BY <2>2 DEF ActivateBegin, BeginActivation
      <3>2. head' \in HeadRow
        BY <3>1 DEF StoreTypeOK, HeadRow
      <3> QED
        BY <3>1, <3>2 DEF StoreTypeOK
    <2>3. CASE ActivateReady(t)
      BY <2>3 DEF StoreTypeOK, ActivateReady, MarkReady, HeadRow, RegistryTypeOK, Activation
    <2> QED
      BY <2>1, <2>2, <2>3
      DEF Submit, SubmitRead, Deliver, EnsureHit, EnsureMiss, GateHit, GateEnter,
          UseResident, ActivateReuse, PickBase, ListEvents, ReplayDone, ReplayEvent,
          ReplayPastHead, Install, storeVars
  <1>1. CASE Submit(t)
    <2>1. RegistryTypeOK'
      BY <1>1, StoreAssumption DEF Submit, RegistryTypeOK, Request, Locations, Tasks
    <2>2. Placed'
      BY <1>1 DEF Submit, Placed, RegistryTypeOK, LockedAt
    <2> QED
      BY <1>0, <1>a, <2>1, <2>2
  <1>2. CASE SubmitRead(t)
    <2>1. RegistryTypeOK'
      <3>0. /\ req' = [req EXCEPT ![t] = [req[t] EXCEPT !.kind = "read"]]
            /\ req \in [Tasks -> Request]
        BY <1>2 DEF SubmitRead, RegistryTypeOK
      <3>2. [req[t] EXCEPT !.kind = "read"] \in Request
        BY <3>0 DEF Request
      <3>1. req' \in [Tasks -> Request]
        BY <3>0, <3>2
      <3> QED
        BY <1>2, <3>1 DEF SubmitRead, RegistryTypeOK, Locations
    <2>2. Placed'
      BY <1>2 DEF SubmitRead, Placed, RegistryTypeOK, LockedAt
    <2> QED
      BY <1>0, <1>a, <2>1, <2>2
  <1>3. CASE Deliver(t)
    <2>1. RegistryTypeOK'
      BY <1>3 DEF Deliver, RegistryTypeOK, Request, NoRequest, Result, NoResult, Locations
    <2>2. Placed'
      BY <1>3 DEF Deliver, Placed, RegistryTypeOK, LockedAt, NoRequest
    <2> QED
      BY <1>0, <1>a, <2>1, <2>2
  <1>4. CASE EnsureHit(t) \/ GateHit(t)
    <2>0. pc[t] # "idle" /\ inst[t] \in Instances
      BY <1>4 DEF EnsureHit, GateHit, Placed
    <2>1. RegistryTypeOK'
      BY <1>4, <2>0 DEF EnsureHit, GateHit, UseResident, RegistryTypeOK, Locations
    <2>2. Placed'
      BY <1>4, <2>0 DEF EnsureHit, GateHit, UseResident, Placed, RegistryTypeOK, LockedAt
    <2> QED
      BY <1>0, <1>a, <2>1, <2>2
  <1>5. CASE EnsureMiss(t) \/ GateEnter(t) \/ ReplayDone(t) \/ ActivateReady(t)
    <2>1. RegistryTypeOK'
      BY <1>5 DEF EnsureMiss, GateEnter, ReplayDone, ActivateReady, RegistryTypeOK,
                  Locations, ActivatingAt
    <2>2. Placed'
      BY <1>5 DEF EnsureMiss, GateEnter, ReplayDone, ActivateReady, Placed,
                  RegistryTypeOK, LockedAt
    <2> QED
      BY <1>0, <1>a, <2>1, <2>2
  <1>6. CASE \/ ActivateReuse(t) \/ ActivateBegin(t) \/ PickBase(t) \/ ListEvents(t)
             \/ ReplayEvent(t) \/ ReplayPastHead(t)
    <2>0. act[t] \in Activation
      BY DEF RegistryTypeOK
    <2>1. act' \in [Tasks -> Activation]
      <3>1. CASE ActivateReuse(t)
        BY <3>1 DEF ActivateReuse, RegistryTypeOK, Activation, NoActivation, StoreTypeOK, HeadRow
      <3>2. CASE ActivateBegin(t)
        <4>1. head'.epoch \in Nat
          BY <1>a DEF StoreTypeOK, HeadRow
        <4>2. PICK m \in 0..MaxSeq :
                act' = [act EXCEPT ![t] = [NoActivation EXCEPT !.epoch = head'.epoch, !.head = m]]
          BY <3>2 DEF ActivateBegin
        <4>m. m \in Nat
          BY StoreAssumption
        <4>3. [NoActivation EXCEPT !.epoch = head'.epoch, !.head = m] \in Activation
          BY <4>1, <4>m DEF Activation, NoActivation
        <4> QED
          BY <4>2, <4>3 DEF RegistryTypeOK
      <3>3. CASE PickBase(t)
        <4>1. PICK c \in snapshots \cup {[seq |-> 0, doc |-> {}]} :
                act' = [act EXCEPT ![t] = [@ EXCEPT !.doc = c.doc, !.cursor = c.seq]]
          BY <3>3 DEF PickBase
        <4>2. c.seq \in Nat /\ c.doc \in SUBSET Nat
          BY DEF StoreTypeOK, Checkpoint
        <4>3. [act[t] EXCEPT !.doc = c.doc, !.cursor = c.seq] \in Activation
          BY <2>0, <4>2 DEF Activation
        <4> QED
          BY <4>1, <4>3 DEF RegistryTypeOK
      <3>4. CASE ListEvents(t)
        <4>1. PICK page \in SUBSET events :
                act' = [act EXCEPT ![t] = [@ EXCEPT !.batch = page]]
          BY <3>4 DEF ListEvents
        <4>2. page \in SUBSET Nat
          BY DEF StoreTypeOK
        <4>3. [act[t] EXCEPT !.batch = page] \in Activation
          BY <2>0, <4>2 DEF Activation
        <4> QED
          BY <4>1, <4>3 DEF RegistryTypeOK
      <3>5. CASE ReplayEvent(t)
        <4>1. PICK ev \in act[t].batch :
                act' = [act EXCEPT ![t] = [@ EXCEPT !.doc = act[t].doc \cup {ev}, !.cursor = ev,
                                                    !.batch = act[t].batch \ {ev}]]
          BY <3>5 DEF ReplayEvent
        <4>2. ev \in Nat
          BY <2>0 DEF Activation
        <4>3. [act[t] EXCEPT !.doc = act[t].doc \cup {ev}, !.cursor = ev,
                             !.batch = act[t].batch \ {ev}] \in Activation
          BY <2>0, <4>2 DEF Activation
        <4> QED
          BY <4>1, <4>3 DEF RegistryTypeOK
      <3>6. CASE ReplayPastHead(t)
        BY <2>0, <3>6 DEF ReplayPastHead, RegistryTypeOK, Activation
      <3> QED
        BY <1>6, <3>1, <3>2, <3>3, <3>4, <3>5, <3>6
    <2>2. /\ pc' \in [Tasks -> Locations]
          /\ \A u \in Tasks : u # t => pc'[u] = pc[u]
          /\ pc[t] # "idle" /\ pc'[t] \in ActivatingAt
          /\ UNCHANGED <<boards, arcs, inst, req, attempt, held, out>>
      BY <1>6 DEF ActivateReuse, ActivateBegin, PickBase, ListEvents, ReplayEvent,
                  ReplayPastHead, RegistryTypeOK, Locations, ActivatingAt
    <2>3. RegistryTypeOK'
      BY <2>1, <2>2 DEF RegistryTypeOK
    <2>4. Placed'
      BY <2>2 DEF Placed, RegistryTypeOK, LockedAt, ActivatingAt
    <2> QED
      BY <1>0, <1>a, <2>3, <2>4
  <1>7. CASE Install(t)
    <2> DEFINE a == CHOOSE x \in Slots : ~Referenced(inst[t], x)
               r == [doc |-> act[t].doc, processed |-> act[t].cursor, epoch |-> act[t].epoch]
    <2>1. a \in Slots /\ inst[t] \in Instances
      BY <1>7 DEF Install, Placed
    <2>2. r \in Resident
      BY DEF RegistryTypeOK, Activation, Resident
    <2>3. [arcs EXCEPT ![inst[t]][a] = r] \in [Instances -> [Slots -> Resident]]
      BY <2>1, <2>2 DEF RegistryTypeOK
    <2>4. ArcsType'
      BY <1>7, <2>3, DropType DEF Install
    <2>5. RegistryTypeOK'
      BY <1>7, <2>1, <2>4
      DEF Install, RegistryTypeOK, ArcsType, Activation, NoActivation, Locations
    <2>6. Placed'
      BY <1>7, <2>1 DEF Install, Placed, RegistryTypeOK, LockedAt
    <2> QED
      BY <1>0, <1>a, <2>5, <2>6
  <1> QED
    BY <1>1, <1>2, <1>3, <1>4, <1>5, <1>6, <1>7

\* The results a handler can end with.
LEMMA ResultType ==
  /\ \A k \in {"conflict", "rejected", "invalid", "stale", "db", "duplicate_key",
               "unavailable"} : Error(k) \in Result
  /\ \A n \in Nat : [kind |-> "ack", seq |-> n, doc |-> {}] \in Result
  /\ \A n \in Nat, d \in SUBSET Nat : [kind |-> "state", seq |-> n, doc |-> d] \in Result
  BY DEF Error, Result

\* An activation, a read or a commit that ends without touching the store.
LEMMA AnswerType ==
  ASSUME TypeInv, NEW t \in Tasks, UNCHANGED compactionVars,
         \/ ReplayGap(t) \/ ActivateSuperseded(t) \/ ActivateDbError(t) \/ ReadState(t)
         \/ DedupHit(t) \/ RejectEnvelope(t) \/ RejectObserved(t) \/ RejectCandidate(t)
         \/ CommitTxDuplicate(t) \/ CommitDbError(t) \/ EvictAndGiveUp(t)
         \/ ApplyCommitted(t) \/ ApplyFailed(t)
  PROVE  TypeInv'
  <1>0. TypeOK /\ Placed /\ StoreTypeOK /\ RegistryTypeOK
    BY DEF TypeInv, TypeOK
  <1>a. UNCHANGED storeVars /\ pc[t] # "idle"
    BY DEF ReplayGap, ActivateSuperseded, ActivateDbError, ActivateFail, ReadState, DedupHit,
           RejectEnvelope, RejectObserved, RejectCandidate, CommitTxDuplicate, CommitDbError,
           CommitReply,
           EvictAndGiveUp, ApplyCommitted, ApplyFailed, ActivatingAt, storeVars
  <1>b. StoreTypeOK'
    BY <1>0, <1>a DEF StoreTypeOK, storeVars
  <1>1. CASE ReplayGap(t) \/ ActivateSuperseded(t) \/ ActivateDbError(t)
    <2>1. UNCHANGED <<boards, arcs>>
      BY <1>1 DEF ReplayGap, ActivateSuperseded, ActivateDbError, ActivateFail
    <2>2. boards' \in [Instances -> Slots \cup {None}] /\ ArcsType'
      BY <1>0, <2>1 DEF RegistryTypeOK, ArcsType
    <2>3. PICK result \in Result : Finish(t, result)
      BY <1>1, ResultType DEF ReplayGap, ActivateSuperseded, ActivateDbError, ActivateFail
    <2> QED
      BY <1>a, <1>b, <2>2, <2>3, FinishType
  <1>2. CASE \/ ReadState(t) \/ DedupHit(t) \/ RejectEnvelope(t) \/ RejectObserved(t)
             \/ RejectCandidate(t)
             \/ CommitTxDuplicate(t) \/ CommitDbError(t)
    <2>1. UNCHANGED boards /\ DropUnreferenced(arcs)
      BY <1>2 DEF ReadState, DedupHit, RejectEnvelope, RejectObserved, RejectCandidate,
                  CommitTxDuplicate,
                  CommitDbError, CommitReply
    <2>2. boards' \in [Instances -> Slots \cup {None}] /\ ArcsType'
      BY <1>0, <2>1, DropType DEF RegistryTypeOK
    <2>3. PICK result \in Result : Finish(t, result)
      <3>1. CASE ReadState(t)
        <4>1. MyResident(t) \in Resident
          BY <1>0, <3>1 DEF ReadState, MyResident, Placed, RegistryTypeOK
        <4> QED
          BY <3>1, <4>1, ResultType DEF ReadState, Resident
      <3>2. CASE DedupHit(t)
        <4>1. PICK s \in journal :
                CommitReply(t, IF Matches(rows[s], req[t])
                               THEN [kind |-> "ack", seq |-> s, doc |-> {}]
                               ELSE Error("conflict"))
          BY <3>2 DEF DedupHit
        <4>2. s \in Nat
          BY <1>0 DEF StoreTypeOK
        <4> QED
          BY <4>1, <4>2, ResultType DEF CommitReply
      <3>3. CASE \/ RejectEnvelope(t) \/ RejectObserved(t) \/ RejectCandidate(t)
                 \/ CommitTxDuplicate(t)
                 \/ CommitDbError(t)
        BY <3>3, ResultType DEF RejectEnvelope, RejectObserved, RejectCandidate,
                                CommitTxDuplicate,
                                CommitDbError, CommitReply
      <3> QED
        BY <1>2, <3>1, <3>2, <3>3
    <2> QED
      BY <1>a, <1>b, <2>2, <2>3, FinishType
  <1>3. CASE EvictAndGiveUp(t)
    <2>1. boards' \in [Instances -> Slots \cup {None}]
      BY <1>0, <1>3 DEF EvictAndGiveUp, EvictIfSame, RegistryTypeOK
    <2>2. ArcsType'
      BY <1>0, <1>3, DropType DEF EvictAndGiveUp, RegistryTypeOK
    <2>3. PICK result \in Result : Finish(t, result)
      BY <1>3, ResultType DEF EvictAndGiveUp
    <2> QED
      BY <1>a, <1>b, <2>1, <2>2, <2>3, FinishType
  <1>4. CASE ApplyCommitted(t) \/ ApplyFailed(t)
    <2>1. boards' \in [Instances -> Slots \cup {None}]
      BY <1>0, <1>4 DEF ApplyCommitted, ApplyFailed, RegistryTypeOK
    <2>2. /\ inst[t] \in Instances /\ held[t] \in Slots
          /\ MyResident(t) \in Resident /\ out[t] \in Result /\ out[t].seq \in Nat
      BY <1>0, <1>4 DEF ApplyCommitted, ApplyFailed, Placed, LockedAt, MyResident,
                        RegistryTypeOK, Result
    <2>3. PICK r \in Resident : DropUnreferenced([arcs EXCEPT ![inst[t]][held[t]] = r])
      <3>1. \A d \in SUBSET Nat, n \in Nat :
              /\ [MyResident(t) EXCEPT !.doc = MyResident(t).doc \cup d] \in Resident
              /\ [MyResident(t) EXCEPT !.doc = MyResident(t).doc \cup d, !.processed = n]
                   \in Resident
        BY <2>2 DEF Resident
      <3>2. CASE ApplyCommitted(t)
        <4>1. [MyResident(t) EXCEPT !.doc = MyResident(t).doc \cup {out[t].seq},
                                    !.processed = out[t].seq] \in Resident
          BY <2>2, <3>1
        <4>2. DropUnreferenced([arcs EXCEPT ![inst[t]][held[t]] =
                [MyResident(t) EXCEPT !.doc = MyResident(t).doc \cup {out[t].seq},
                                      !.processed = out[t].seq]])
          BY <3>2 DEF ApplyCommitted, MyResident
        <4> QED
          BY <4>1, <4>2
      <3>3. CASE ApplyFailed(t)
        <4>1. PICK d \in {{}, {out[t].seq}} :
                DropUnreferenced([arcs EXCEPT ![inst[t]][held[t]] =
                  [MyResident(t) EXCEPT !.doc = MyResident(t).doc \cup d]])
          BY <3>3 DEF ApplyFailed, MyResident
        <4>2. [MyResident(t) EXCEPT !.doc = MyResident(t).doc \cup d] \in Resident
          BY <2>2, <3>1
        <4> QED
          BY <4>1, <4>2
      <3> QED
        BY <1>4, <3>2, <3>3
    <2>4. [arcs EXCEPT ![inst[t]][held[t]] = r] \in [Instances -> [Slots -> Resident]]
      BY <1>0, <2>2 DEF RegistryTypeOK
    <2>5. ArcsType'
      BY <2>3, <2>4, DropType
    <2>6. Finish(t, out[t])
      BY <1>4 DEF ApplyCommitted, ApplyFailed
    <2> QED
      BY <1>a, <1>b, <2>1, <2>2, <2>5, <2>6, FinishType
  <1> QED
    BY <1>1, <1>2, <1>3, <1>4

\* The commit transaction.
LEMMA CommitPairType ==
  ASSUME StoreTypeOK, NEW row \in Row, CommitPair(row)
  PROVE  StoreTypeOK'
  <1>1. head' \in HeadRow
    BY DEF CommitPair, StoreTypeOK, HeadRow
  <1>2. DOMAIN rows' \subseteq Nat /\ \A s \in DOMAIN rows' : rows'[s] \in Row
    BY DEF CommitPair, StoreTypeOK
  <1>3. /\ nextSeq' \in Nat \ {0} /\ journal' \subseteq Nat /\ events' \subseteq Nat
        /\ snapshots' \subseteq Checkpoint /\ assetSeq' \in Nat /\ configSeq' \in Nat
        /\ aged' \in Nat
    BY DEF CommitPair, StoreTypeOK
  <1> QED
    BY <1>1, <1>2, <1>3 DEF StoreTypeOK

\* The row a commit inserts: only a commit request reaches the transaction.
LEMMA NewRowType ==
  ASSUME TypeInv, NEW t \in Tasks, pc[t] = "tx"
  PROVE  NewRow(t) \in Row
  <1>1. req[t].body \in Bodies /\ req[t].cid \in Cids \cup {NoCid}
    BY DEF TypeInv, TypeOK, Placed, LockedAt, RegistryTypeOK, Request
  <1> QED
    BY <1>1 DEF NewRow, Row

\* A commit that goes on, commits, or loses its resident or its client.
LEMMA CommitType ==
  ASSUME TypeInv, NEW t \in Tasks, UNCHANGED compactionVars,
         \/ CommitLock(t) \/ DedupMiss(t) \/ CandidateValid(t) \/ CommitTx(t)
         \/ CommitTxLostAnswer(t)
         \/ CommitTxStale(t) \/ EvictAndRetry(t) \/ Cancel(t)
  PROVE  TypeInv'
  <1>0. TypeOK /\ Placed /\ StoreTypeOK /\ RegistryTypeOK
    BY DEF TypeInv, TypeOK
  <1>a. CompactionTypeOK'
    BY DEF TypeInv, TypeOK, CompactionTypeOK, compactionVars
  <1>1. CASE CommitLock(t) \/ DedupMiss(t) \/ CandidateValid(t) \/ CommitTxStale(t)
    <2>1. StoreTypeOK'
      BY <1>0, <1>1 DEF CommitLock, DedupMiss, CandidateValid, CommitTxStale, StoreTypeOK,
                        storeVars
    <2>2. RegistryTypeOK'
      BY <1>0, <1>1 DEF CommitLock, DedupMiss, CandidateValid, CommitTxStale, RegistryTypeOK,
                        Locations, LockedAt
    <2>3. Placed'
      BY <1>0, <1>1 DEF CommitLock, DedupMiss, CandidateValid, CommitTxStale, Placed,
                        RegistryTypeOK,
                        LockedAt
    <2> QED
      BY <1>a, <2>1, <2>2, <2>3 DEF TypeInv, TypeOK
  <1>2. CASE CommitTx(t)
    <2>1. StoreTypeOK'
      BY <1>0, <1>2, NewRowType, CommitPairType DEF CommitTx
    <2>2. [kind |-> "ack", seq |-> nextSeq, doc |-> {}] \in Result
      BY <1>0, ResultType DEF StoreTypeOK
    <2>3. RegistryTypeOK'
      BY <1>0, <1>2, <2>2 DEF CommitTx, RegistryTypeOK, Locations, LockedAt
    <2>4. Placed'
      BY <1>0, <1>2 DEF CommitTx, Placed, RegistryTypeOK, LockedAt
    <2> QED
      BY <1>a, <2>1, <2>3, <2>4 DEF TypeInv, TypeOK
  <1>3. CASE CommitTxLostAnswer(t)
    <2>1. StoreTypeOK'
      BY <1>0, <1>3, NewRowType, CommitPairType DEF CommitTxLostAnswer
    <2>2. boards' \in [Instances -> Slots \cup {None}] /\ ArcsType'
      BY <1>0, <1>3, DropType DEF CommitTxLostAnswer, RegistryTypeOK
    <2>3. PICK result \in Result : Finish(t, result)
      BY <1>3, ResultType DEF CommitTxLostAnswer
    <2>4. pc[t] # "idle"
      BY <1>3 DEF CommitTxLostAnswer
    <2> QED
      BY <2>1, <2>2, <2>3, <2>4, FinishType
  <1>4. CASE EvictAndRetry(t)
    <2>1. StoreTypeOK'
      BY <1>0, <1>4 DEF EvictAndRetry, StoreTypeOK, storeVars
    <2>2. ArcsType'
      BY <1>0, <1>4, DropType DEF EvictAndRetry, RegistryTypeOK
    <2>3. RegistryTypeOK'
      <3>1. boards' \in [Instances -> Slots \cup {None}]
        BY <1>0, <1>4 DEF EvictAndRetry, EvictIfSame, RegistryTypeOK
      <3>2. attempt' \in [Tasks -> 0..1] /\ held' \in [Tasks -> Slots \cup {None}]
        BY <1>0, <1>4 DEF EvictAndRetry, RegistryTypeOK
      <3> QED
        BY <1>0, <1>4, <2>2, <3>1, <3>2 DEF EvictAndRetry, RegistryTypeOK, ArcsType, Locations
    <2>4. Placed'
      BY <1>0, <1>4 DEF EvictAndRetry, Placed, RegistryTypeOK, LockedAt
    <2> QED
      BY <1>a, <2>1, <2>3, <2>4 DEF TypeInv, TypeOK
  <1>5. CASE Cancel(t)
    <2>1. StoreTypeOK'
      BY <1>0, <1>5 DEF Cancel, StoreTypeOK, storeVars
    <2>2. ArcsType'
      BY <1>0, <1>5, DropType DEF Cancel, RegistryTypeOK
    <2>3. NoActivation \in Activation /\ NoResult \in Result /\ NoRequest \in Request
      BY DEF NoActivation, Activation, NoResult, Result, NoRequest, Request
    <2>4. RegistryTypeOK'
      BY <1>0, <1>5, <2>2, <2>3 DEF Cancel, RegistryTypeOK, ArcsType, Locations
    <2>5. Placed'
      BY <1>0, <1>5 DEF Cancel, Placed, RegistryTypeOK, LockedAt, NoRequest
    <2> QED
      BY <1>a, <2>1, <2>4, <2>5 DEF TypeInv, TypeOK
  <1> QED
    BY <1>1, <1>2, <1>3, <1>4, <1>5

\* The death of a process.
LEMMA CrashType ==
  ASSUME TypeInv, NEW i \in Instances, UNCHANGED compactionVars, Crash(i)
  PROVE  TypeInv'
  <1>0. TypeOK /\ Placed /\ StoreTypeOK /\ RegistryTypeOK
    BY DEF TypeInv, TypeOK
  <1>1. StoreTypeOK' /\ CompactionTypeOK'
    BY <1>0 DEF Crash, StoreTypeOK, storeVars, TypeOK, CompactionTypeOK, compactionVars
  <1>2. ArcsType'
    BY <1>0, DropType DEF Crash, RegistryTypeOK
  <1>3. NoActivation \in Activation /\ NoResult \in Result /\ NoRequest \in Request
    BY DEF NoActivation, Activation, NoResult, Result, NoRequest, Request
  <1>4. RegistryTypeOK'
    BY <1>0, <1>2, <1>3 DEF Crash, RegistryTypeOK, ArcsType, Locations
  <1>5. Placed'
    BY <1>0 DEF Crash, Placed, RegistryTypeOK, LockedAt, NoRequest
  <1> QED
    BY <1>1, <1>4, <1>5 DEF TypeInv, TypeOK

\* A step of a compactor, of retention, or of time.
LEMMA JobType ==
  ASSUME TypeInv,
         \/ CompactionNext /\ UNCHANGED registryVars
         \/ \E a \in 1..MaxSeq : Age(a)
  PROVE  TypeInv'
  <1>0. TypeOK /\ Placed /\ StoreTypeOK /\ RegistryTypeOK /\ CompactionTypeOK
    BY DEF TypeInv, TypeOK
  <1>1. RegistryTypeOK' /\ Placed'
    <2>1. UNCHANGED registryVars
      BY DEF Age
    <2> QED
      BY <1>0, <2>1 DEF RegistryTypeOK, Placed, registryVars
  <1>2. CASE \E a \in 1..MaxSeq : Age(a)
    <2>1. PICK a \in 1..MaxSeq : Age(a)
      BY <1>2
    <2>2. StoreTypeOK'
      BY <1>0, <2>1, StoreAssumption DEF Age, StoreTypeOK
    <2>3. CompactionTypeOK'
      BY <1>0, <2>1 DEF Age, CompactionTypeOK, compactionVars
    <2> QED
      BY <1>1, <2>2, <2>3 DEF TypeInv, TypeOK
  <1>3. CASE PruneBatch
    <2>1. StoreTypeOK'
      BY <1>0, <1>3 DEF PruneBatch, Expired, StoreTypeOK
    <2>2. CompactionTypeOK'
      BY <1>0, <1>3 DEF PruneBatch, CompactionTypeOK, compactionVars
    <2> QED
      BY <1>1, <2>1, <2>2 DEF TypeInv, TypeOK
  <1>4. CASE \E c \in Compactors : CompactorStep(c)
    <2>1. PICK c \in Compactors : CompactorStep(c)
      BY <1>4
    <2>2. StoreTypeOK'
      <3>1. CASE Publish(c)
        <4>1. [seq |-> cand[c].processed, doc |-> cand[c].doc] \in Checkpoint
          BY <1>0 DEF CompactionTypeOK, Candidate, Checkpoint
        <4> QED
          BY <1>0, <3>1, <4>1 DEF Publish, StoreTypeOK
      <3>2. CASE UNCHANGED storeVars
        BY <1>0, <3>2 DEF StoreTypeOK, storeVars
      <3> QED
        BY <2>1, <3>1, <3>2
        DEF CompactorStep, SelectCandidate, RecheckHead, SkipCandidate, ReadCheckpoint,
            ReadTail, TailComplete, PublishTooLate, AbortCompaction, storeVars
    <2>3. cpc' \in [Compactors -> {"idle", "selected", "base", "tail", "publish"}]
      BY <1>0, <2>1
      DEF CompactionTypeOK, CompactorStep, SelectCandidate, RecheckHead, SkipCandidate,
          ReadCheckpoint, ReadTail, TailComplete, Publish, PublishTooLate, AbortCompaction,
          Release
    <2>4. cand' \in [Compactors -> Candidate]
      <3>0. NoCandidate \in Candidate /\ cand[c] \in Candidate
        BY <1>0 DEF NoCandidate, Candidate, CompactionTypeOK
      <3>1. CASE SelectCandidate(c)
        <4>1. head.processed \in Nat /\ head.epoch \in Nat
          BY <1>0 DEF StoreTypeOK, HeadRow
        <4>2. [NoCandidate EXCEPT !.processed = head.processed, !.epoch = head.epoch]
                \in Candidate
          BY <4>1 DEF NoCandidate, Candidate
        <4> QED
          BY <1>0, <3>1, <4>2 DEF SelectCandidate, CompactionTypeOK
      <3>2. CASE ReadCheckpoint(c)
        <4>1. PICK base \in snapshots \cup {[seq |-> 0, doc |-> {}]} :
                cand' = [cand EXCEPT ![c] = [@ EXCEPT !.doc = base.doc, !.cursor = base.seq]]
          BY <3>2 DEF ReadCheckpoint
        <4>2. base.seq \in Nat /\ base.doc \in SUBSET Nat
          BY <1>0 DEF StoreTypeOK, Checkpoint
        <4>3. [cand[c] EXCEPT !.doc = base.doc, !.cursor = base.seq] \in Candidate
          BY <3>0, <4>2 DEF Candidate
        <4> QED
          BY <1>0, <4>1, <4>3 DEF CompactionTypeOK
      <3>3. CASE ReadTail(c)
        <4>1. CASE UNCHANGED cand
          BY <1>0, <4>1 DEF CompactionTypeOK
        <4>2. ASSUME NEW page \in SUBSET journal, NEW last \in page,
                     cand' = [cand EXCEPT ![c] = [@ EXCEPT !.doc = cand[c].doc \cup page,
                                                           !.cursor = last]]
              PROVE  cand' \in [Compactors -> Candidate]
          <5>1. page \in SUBSET Nat /\ last \in Nat
            BY <1>0 DEF StoreTypeOK
          <5>2. [cand[c] EXCEPT !.doc = cand[c].doc \cup page, !.cursor = last] \in Candidate
            BY <3>0, <5>1 DEF Candidate
          <5> QED
            BY <1>0, <4>2, <5>2 DEF CompactionTypeOK
        <4> QED
          BY <3>3, <4>1, <4>2 DEF ReadTail
      <3>4. CASE UNCHANGED cand \/ Release(c)
        BY <1>0, <3>0, <3>4 DEF CompactionTypeOK, Release
      <3> QED
        BY <2>1, <3>1, <3>2, <3>3, <3>4
        DEF CompactorStep, RecheckHead, SkipCandidate, TailComplete, Publish,
            PublishTooLate, AbortCompaction
    <2> QED
      BY <1>1, <2>2, <2>3, <2>4 DEF TypeInv, TypeOK, CompactionTypeOK
  <1> QED
    BY <1>2, <1>3, <1>4 DEF CompactionNext

\* No step, of any process or job, leaves the types.
LEMMA TypeStep == TypeInv /\ [Next]_vars => TypeInv'
  <1> SUFFICES ASSUME TypeInv, [Next]_vars
               PROVE  TypeInv'
    OBVIOUS
  <1>1. CASE UNCHANGED vars
    BY <1>1 DEF vars, storeVars, registryVars, compactionVars, TypeInv, TypeOK, StoreTypeOK,
                RegistryTypeOK, CompactionTypeOK, Placed
  <1>2. CASE RegistryNext /\ UNCHANGED compactionVars
    <2>1. ASSUME NEW i \in Instances, Crash(i)
          PROVE  TypeInv'
      BY <1>2, <2>1, CrashType
    <2>2. ASSUME NEW t \in Tasks,
                 Submit(t) \/ SubmitRead(t) \/ TaskStep(t) \/ Deliver(t) \/ Cancel(t)
          PROVE  TypeInv'
      BY <1>2, <2>2, ActivationType, AnswerType, CommitType
      DEF TaskStep, ActivationStep, CommitStep
    <2> QED
      BY <1>2, <2>1, <2>2 DEF RegistryNext
  <1>3. CASE CompactionNext /\ UNCHANGED registryVars
    BY <1>3, JobType
  <1>4. CASE \E a \in 1..MaxSeq : Age(a)
    BY <1>4, JobType
  <1> QED
    BY <1>1, <1>2, <1>3, <1>4 DEF Next

\* Every variable keeps its type, and a handler only dereferences an instance
\* and a resident that it has, in every deployment of any size.
THEOREM TypeCorrectness == Spec => []TypeOK
  <1>1. Init => TypeInv
    BY TypeInit
  <1>2. TypeInv /\ [Next]_vars => TypeInv'
    BY TypeStep
  <1>3. TypeInv => TypeOK
    BY DEF TypeInv
  <1> QED
    BY <1>1, <1>2, <1>3, PTL DEF Spec

-----------------------------------------------------------------------------
(* The history *)

\* A board has no event before its head is ready, so an activation that is not
\* a reuse has nothing to replay; this is why mark_ready may set the watermark
\* without comparing it with the history.
HistoryInv ==
  /\ HeadAtLogEnd
  /\ PairedHistory
  /\ events \subseteq 1..(nextSeq - 1)
  /\ head.state # "ready" => nextSeq = 1
  /\ \A t \in Tasks : ~act[t].ready => act[t].head = 0

\* Durable dedup looks a key up among the STORED rows only; the deleted ones
\* are past the retention window, and nobody still sends their keys.
KeysInv ==
  /\ ExactlyOnce
  /\ aged < nextSeq
  /\ \A s \in 1..(nextSeq - 1) : s \in journal \/ s <= aged
  /\ \A t \in Tasks, s \in 1..aged :
       req[t].cid # NoCid => rows[s].cid # req[t].cid

-----------------------------------------------------------------------------
\* The only steps that write the database.
LEMMA StoreWrites ==
  ASSUME [Next]_vars
  PROVE  \/ UNCHANGED storeVars
         \/ \E t \in Tasks : \/ ActivateBegin(t) \/ ActivateReady(t)
                             \/ CommitTx(t) \/ CommitTxLostAnswer(t)
         \/ \E c \in Compactors : Publish(c)
         \/ PruneBatch
         \/ \E a \in 1..MaxSeq : Age(a)
  <1>1. CASE UNCHANGED vars
    BY <1>1 DEF vars, storeVars
  <1>2. CASE RegistryNext
    <2>1. ASSUME NEW i \in Instances, Crash(i)
          PROVE  UNCHANGED storeVars
      BY <2>1 DEF Crash, storeVars
    <2>2. ASSUME NEW t \in Tasks, Submit(t) \/ SubmitRead(t) \/ Deliver(t) \/ Cancel(t)
          PROVE  UNCHANGED storeVars
      BY <2>2 DEF Submit, SubmitRead, Deliver, Cancel, storeVars
    <2>3. ASSUME NEW t \in Tasks, ActivationStep(t)
          PROVE  UNCHANGED storeVars \/ ActivateBegin(t) \/ ActivateReady(t)
      BY <2>3
      DEF ActivationStep, EnsureHit, EnsureMiss, GateHit, GateEnter, UseResident,
          ActivateReuse, PickBase, ListEvents, ReplayDone, ReplayEvent, ReplayPastHead,
          ReplayGap, ActivateSuperseded, ActivateFail, Install, ActivateDbError, storeVars
    <2>4. ASSUME NEW t \in Tasks, CommitStep(t)
          PROVE  UNCHANGED storeVars \/ CommitTx(t) \/ CommitTxLostAnswer(t)
      BY <2>4
      DEF CommitStep, CommitLock, DedupHit, RejectEnvelope, RejectObserved, RejectCandidate,
          DedupMiss, CandidateValid,
          CommitTxDuplicate, CommitTxStale, EvictAndRetry, EvictAndGiveUp, ApplyCommitted,
          ApplyFailed, CommitDbError, CommitReply, storeVars
    <2>5. ASSUME NEW t \in Tasks, ReadState(t)
          PROVE  UNCHANGED storeVars
      BY <2>5 DEF ReadState, storeVars
    <2> QED
      BY <1>2, <2>1, <2>2, <2>3, <2>4, <2>5 DEF RegistryNext, TaskStep
  <1>3. CASE CompactionNext
    <2>1. ASSUME NEW c \in Compactors, CompactorStep(c)
          PROVE  UNCHANGED storeVars \/ Publish(c)
      BY <2>1
      DEF CompactorStep, SelectCandidate, RecheckHead, SkipCandidate, ReadCheckpoint,
          ReadTail, TailComplete, PublishTooLate, AbortCompaction, storeVars
    <2> QED
      BY <1>3, <2>1 DEF CompactionNext
  <1> QED
    BY <1>1, <1>2, <1>3 DEF Next

\* The only steps by which a handler starts on a head, or gets a new key.
LEMMA LocalWrites ==
  ASSUME TypeInv, [Next]_vars
  PROVE  \A u \in Tasks :
           /\ \/ act'[u].ready = act[u].ready /\ act'[u].head = act[u].head
              \/ act'[u] = NoActivation
              \/ ActivateReuse(u) \/ ActivateBegin(u)
           /\ \/ req'[u].cid \in {req[u].cid, NoCid}
              \/ Submit(u)
  <1> SUFFICES ASSUME NEW u \in Tasks
               PROVE /\ \/ act'[u].ready = act[u].ready /\ act'[u].head = act[u].head
                        \/ act'[u] = NoActivation
                        \/ ActivateReuse(u) \/ ActivateBegin(u)
                     /\ \/ req'[u].cid \in {req[u].cid, NoCid}
                        \/ Submit(u)
    OBVIOUS
  <1>0. /\ act \in [Tasks -> Activation] /\ req \in [Tasks -> Request]
        /\ act[u] \in Activation /\ req[u] \in Request
    BY DEF TypeInv, TypeOK, RegistryTypeOK
  <1>n. NoRequest.cid = NoCid
    BY DEF NoRequest
  <1>1. CASE UNCHANGED registryVars
    BY <1>1 DEF registryVars
  <1>2. ASSUME NEW i \in Instances, Crash(i)
        PROVE  /\ act'[u] \in {act[u], NoActivation}
               /\ req'[u] \in {req[u], NoRequest}
    BY <1>2 DEF Crash
  <1>3. ASSUME NEW t \in Tasks, Submit(t) \/ SubmitRead(t) \/ Deliver(t) \/ Cancel(t)
        PROVE  /\ act'[u] \in {act[u], NoActivation}
               /\ req'[u].cid \in {req[u].cid, NoCid} \/ Submit(u)
    <2>1. act'[u] \in {act[u], NoActivation}
      BY <1>0, <1>3 DEF Submit, SubmitRead, Deliver, Cancel
    <2>2. CASE t # u
      <3>1. req'[u] = req[u]
        BY <1>0, <1>3, <2>2 DEF Submit, SubmitRead, Deliver, Cancel
      <3> QED
        BY <2>1, <3>1
    <2>3. CASE t = u
      BY <1>0, <1>3, <1>n, <2>1, <2>3 DEF SubmitRead, Deliver, Cancel, Request
    <2> QED
      BY <2>2, <2>3
  <1>4. ASSUME NEW t \in Tasks, ActivationStep(t)
        PROVE  /\ \/ act'[u].ready = act[u].ready /\ act'[u].head = act[u].head
                  \/ act'[u] = NoActivation
                  \/ ActivateReuse(u) \/ ActivateBegin(u)
               /\ req' = req
    <2>1. req' = req
      BY <1>4
      DEF ActivationStep, EnsureHit, EnsureMiss, GateHit, GateEnter, UseResident,
          ActivateReuse, ActivateBegin, PickBase, ListEvents, ReplayDone, ReplayEvent,
          ReplayPastHead, ReplayGap, ActivateReady, ActivateSuperseded, ActivateFail, Finish,
          Install, ActivateDbError
    <2>2. CASE PickBase(t) \/ ListEvents(t) \/ ReplayEvent(t) \/ ReplayPastHead(t)
      <3>0. act[t] \in Activation
        BY <1>0
      <3>1. /\ act'[t].ready = act[t].ready /\ act'[t].head = act[t].head
            /\ t # u => act'[u] = act[u]
        <4>1. CASE PickBase(t)
          <5>1. PICK c : act' = [act EXCEPT ![t] = [@ EXCEPT !.doc = c.doc, !.cursor = c.seq]]
            BY <4>1 DEF PickBase
          <5> QED
            BY <1>0, <3>0, <5>1 DEF Activation
        <4>2. CASE ListEvents(t)
          <5>1. PICK page : act' = [act EXCEPT ![t] = [@ EXCEPT !.batch = page]]
            BY <4>2 DEF ListEvents
          <5> QED
            BY <1>0, <3>0, <5>1 DEF Activation
        <4>3. CASE ReplayEvent(t)
          <5>1. PICK ev : act' = [act EXCEPT ![t] = [@ EXCEPT !.doc = act[t].doc \cup {ev},
                                    !.cursor = ev, !.batch = act[t].batch \ {ev}]]
            BY <4>3 DEF ReplayEvent
          <5> QED
            BY <1>0, <3>0, <5>1 DEF Activation
        <4>4. CASE ReplayPastHead(t)
          BY <1>0, <3>0, <4>4 DEF ReplayPastHead, Activation
        <4> QED
          BY <2>2, <4>1, <4>2, <4>3, <4>4
      <3> QED
        BY <1>0, <2>1, <3>1
    <2>3. CASE \/ EnsureHit(t) \/ EnsureMiss(t) \/ GateHit(t) \/ GateEnter(t)
               \/ ReplayDone(t) \/ ReplayGap(t) \/ ActivateReady(t) \/ ActivateSuperseded(t)
               \/ Install(t) \/ ActivateDbError(t)
      BY <1>0, <2>1, <2>3
      DEF EnsureHit, EnsureMiss, GateHit, GateEnter, UseResident, ReplayDone, ReplayGap,
          ActivateReady, ActivateSuperseded, ActivateFail, Finish, Install, ActivateDbError
    <2>4. CASE ActivateReuse(t) \/ ActivateBegin(t)
      <3>1. CASE t = u
        BY <2>1, <2>4, <3>1
      <3>2. CASE t # u
        <4>1. PICK r : act' = [act EXCEPT ![t] = r]
          BY <2>4 DEF ActivateReuse, ActivateBegin
        <4> QED
          BY <1>0, <2>1, <3>2, <4>1
      <3> QED
        BY <3>1, <3>2
    <2> QED
      BY <1>4, <2>2, <2>3, <2>4 DEF ActivationStep
  <1>5. ASSUME NEW t \in Tasks, CommitStep(t) \/ ReadState(t)
        PROVE  act'[u] \in {act[u], NoActivation} /\ req' = req
    BY <1>0, <1>5
    DEF CommitStep, CommitLock, DedupHit, RejectEnvelope, RejectObserved, RejectCandidate,
        DedupMiss, CandidateValid,
        CommitTx, CommitTxLostAnswer, CommitTxDuplicate, CommitTxStale, EvictAndRetry,
        EvictAndGiveUp, ApplyCommitted, ApplyFailed, CommitDbError, CommitReply, Finish,
        ReadState
  <1>6. CASE RegistryNext
    BY <1>6, <1>n, <1>2, <1>3, <1>4, <1>5 DEF RegistryNext, TaskStep
  <1> QED
    BY <1>1, <1>6 DEF Next, Age, vars

-----------------------------------------------------------------------------
\* An empty history.
LEMMA HistoryInit == Init => HistoryInv /\ KeysInv
  BY DEF Init, StoreInit, RegistryInit, HistoryInv, KeysInv, HeadAtLogEnd, PairedHistory,
         ExactlyOnce, NoActivation

\* The head and the log keep pace through commits, activations and retention.
LEMMA HistoryStep == TypeInv /\ HistoryInv /\ [Next]_vars => HistoryInv'
  <1> SUFFICES ASSUME TypeInv, HistoryInv, [Next]_vars
               PROVE  HistoryInv'
    OBVIOUS
  <1>0. StoreTypeOK /\ StoreTypeOK' /\ nextSeq \in Nat \ {0}
    BY TypeStep DEF TypeInv, TypeOK, StoreTypeOK
  <1>1. \A u \in Tasks : ~act'[u].ready => act'[u].head = 0
    <2> SUFFICES ASSUME NEW u \in Tasks, ~act'[u].ready
                 PROVE  act'[u].head = 0
      OBVIOUS
    <2>0. act \in [Tasks -> Activation]
      BY DEF TypeInv, TypeOK, RegistryTypeOK
    <2>1. CASE act'[u].ready = act[u].ready /\ act'[u].head = act[u].head
      BY <2>1 DEF HistoryInv
    <2>2. CASE act'[u] = NoActivation
      BY <2>2 DEF NoActivation
    <2>3. CASE ActivateReuse(u)
      BY <2>0, <2>3 DEF ActivateReuse, NoActivation
    <2>4. CASE ActivateBegin(u)
      <3>1. PICK m \in 0..MaxSeq :
              /\ IsEventsHead(m)
              /\ act' = [act EXCEPT ![u] = [NoActivation EXCEPT !.epoch = head'.epoch,
                                                                !.head = m]]
        BY <2>4 DEF ActivateBegin
      <3>2. events = {}
        BY <1>0, <2>4 DEF ActivateBegin, HistoryInv
      <3>3. m = 0
        BY <3>1, <3>2 DEF IsEventsHead
      <3> QED
        BY <2>0, <3>1, <3>3 DEF NoActivation
    <2> QED
      BY <2>1, <2>2, <2>3, <2>4, LocalWrites
  <1>2. CASE \/ UNCHANGED storeVars \/ \E c \in Compactors : Publish(c)
             \/ \E a \in 1..MaxSeq : Age(a)
    BY <1>1, <1>2 DEF HistoryInv, HeadAtLogEnd, PairedHistory, storeVars, Publish, Age
  <1>3. ASSUME NEW t \in Tasks, ActivateBegin(t)
        PROVE  HistoryInv'
    <2>1. head'.state = "activating" /\ nextSeq' = 1
      BY <1>3 DEF ActivateBegin, BeginActivation, HistoryInv
    <2> QED
      BY <1>1, <1>3, <2>1 DEF ActivateBegin, HistoryInv, HeadAtLogEnd, PairedHistory
  <1>4. ASSUME NEW t \in Tasks, ActivateReady(t)
        PROVE  HistoryInv'
    <2>1. head'.state = "ready" /\ head'.processed = act[t].head
      BY <1>4 DEF ActivateReady, MarkReady
    <2>2. act[t].head = 0 /\ nextSeq = 1
      BY <1>4 DEF ActivateReady, CanMarkReady, HistoryInv
    <2> QED
      BY <1>1, <1>4, <2>1, <2>2 DEF ActivateReady, HistoryInv, HeadAtLogEnd, PairedHistory
  <1>5. ASSUME NEW t \in Tasks, CommitTx(t) \/ CommitTxLostAnswer(t)
        PROVE  HistoryInv'
    <2>1. CommitPair(NewRow(t)) /\ head.state = "ready"
      BY <1>5 DEF CommitTx, CommitTxLostAnswer, Fenced, RevisionFence
    <2>2. head'.state = "ready" /\ head'.processed = nextSeq
      BY <1>0, <2>1 DEF CommitPair, StoreTypeOK, HeadRow
    <2>3. DOMAIN rows' = 1..(nextSeq' - 1)
      BY <1>0, <2>1 DEF CommitPair, HistoryInv, HeadAtLogEnd
    <2>4. events' \subseteq 1..(nextSeq' - 1) /\ journal' \subseteq events'
      BY <1>0, <2>1 DEF CommitPair, HistoryInv, PairedHistory
    <2>5. nextSeq' = nextSeq + 1
      BY <2>1 DEF CommitPair
    <2> QED
      BY <1>0, <1>1, <2>2, <2>3, <2>4, <2>5 DEF HistoryInv, HeadAtLogEnd, PairedHistory
  <1>6. CASE PruneBatch
    <2>1. /\ UNCHANGED <<head, nextSeq, rows>>
          /\ events' \subseteq events /\ journal' \subseteq journal
      BY <1>6 DEF PruneBatch
    <2>2. journal' \subseteq events'
      BY <1>6, <2>1 DEF PruneBatch, Expired, HistoryInv, PairedHistory
    <2> QED
      BY <1>1, <2>1, <2>2 DEF HistoryInv, HeadAtLogEnd, PairedHistory
  <1> QED
    BY <1>2, <1>3, <1>4, <1>5, <1>6, StoreWrites

\* A key that durable dedup does not find was never committed.
LEMMA NewKey ==
  ASSUME TypeInv, HistoryInv, KeysInv, NEW t \in Tasks, ~CidTaken(req[t].cid),
         req[t].cid # NoCid
  PROVE  \A s \in DOMAIN rows : rows[s].cid # req[t].cid
  <1> SUFFICES ASSUME NEW s \in DOMAIN rows
               PROVE  rows[s].cid # req[t].cid
    OBVIOUS
  <1>0. nextSeq \in Nat /\ aged \in Nat /\ s \in 1..(nextSeq - 1)
    BY DEF TypeInv, TypeOK, StoreTypeOK, HistoryInv, HeadAtLogEnd
  <1>1. CASE s \in journal
    BY <1>1 DEF CidTaken, RowOfCid
  <1>2. CASE s <= aged
    <2>1. s \in 1..aged
      BY <1>0, <1>2
    <2> QED
      BY <2>1 DEF KeysInv
  <1> QED
    BY <1>0, <1>1, <1>2 DEF KeysInv

\* Idempotency keys stay unique through commits, pruning and the window.
LEMMA KeysStep == TypeInv /\ HistoryInv /\ KeysInv /\ [Next]_vars => KeysInv'
  <1> SUFFICES ASSUME TypeInv, HistoryInv, KeysInv, [Next]_vars
               PROVE  KeysInv'
    OBVIOUS
  <1>0. /\ nextSeq \in Nat \ {0} /\ aged \in Nat
        /\ DOMAIN rows = 1..(nextSeq - 1)
    BY DEF TypeInv, TypeOK, StoreTypeOK, HistoryInv, HeadAtLogEnd
  <1>1. ASSUME UNCHANGED <<nextSeq, rows, aged>>
        PROVE  \A u \in Tasks, s \in 1..aged' :
                 req'[u].cid # NoCid => rows'[s].cid # req'[u].cid
    <2> SUFFICES ASSUME NEW u \in Tasks, NEW s \in 1..aged, req'[u].cid # NoCid
                 PROVE  rows[s].cid # req'[u].cid
      BY <1>1
    <2>1. CASE req'[u].cid = req[u].cid
      BY <2>1 DEF KeysInv
    <2>2. CASE Submit(u)
      <3>1. PICK i \in Instances, cid \in Cids \cup {NoCid}, body \in Bodies, seen \in 0..MaxSeq :
              /\ \A r \in DOMAIN rows : r <= aged /\ cid # NoCid => rows[r].cid # cid
              /\ req' = [req EXCEPT ![u] = [kind |-> "commit", cid |-> cid, body |-> body,
                                            observed |-> seen,
                   stored |-> cid # NoCid /\ \E r \in journal :
                                Matches(rows[r], [cid |-> cid, body |-> body])]]
        BY <2>2 DEF Submit
      <3>2. req'[u].cid = cid
        BY <3>1 DEF TypeInv, TypeOK, RegistryTypeOK
      <3>3. s \in DOMAIN rows /\ s <= aged
        BY <1>0 DEF KeysInv
      <3> QED
        BY <3>1, <3>2, <3>3
    <2> QED
      BY <2>1, <2>2, LocalWrites
  <1>2. CASE \/ UNCHANGED storeVars \/ \E c \in Compactors : Publish(c)
             \/ \E t \in Tasks : ActivateBegin(t) \/ ActivateReady(t)
    <2>1. UNCHANGED <<nextSeq, rows, aged, journal>>
      BY <1>2 DEF storeVars, Publish, ActivateBegin, ActivateReady
    <2> QED
      BY <1>1, <2>1 DEF KeysInv, ExactlyOnce
  <1>3. CASE PruneBatch
    <2>1. UNCHANGED <<nextSeq, rows, aged>>
      BY <1>3 DEF PruneBatch
    <2>2. \A s \in journal : s \in journal' \/ s <= aged
      BY <1>3 DEF PruneBatch, Expired
    <2> QED
      BY <1>1, <2>1, <2>2 DEF KeysInv, ExactlyOnce
  <1>4. ASSUME NEW a \in 1..MaxSeq, Age(a)
        PROVE  KeysInv'
    <2>1. a \in Nat /\ aged < a /\ a < nextSeq /\ aged' = a
      BY <1>4, StoreAssumption DEF Age
    <2>2. /\ \A t \in Tasks, s \in DOMAIN rows :
               s <= a /\ req[t].cid # NoCid => rows[s].cid # req[t].cid
          /\ UNCHANGED <<nextSeq, rows, journal, req>>
      BY <1>4 DEF Age, registryVars
    <2>3. ExactlyOnce'
      BY <2>2 DEF KeysInv, ExactlyOnce
    <2>4. \A s \in 1..(nextSeq' - 1) : s \in journal' \/ s <= aged'
      BY <1>0, <2>1, <2>2 DEF KeysInv
    <2>5. \A t \in Tasks, s \in 1..aged' : req'[t].cid # NoCid => rows'[s].cid # req'[t].cid
      <3> SUFFICES ASSUME NEW t \in Tasks, NEW s \in 1..a, req[t].cid # NoCid
                   PROVE  rows[s].cid # req[t].cid
        BY <2>1, <2>2
      <3>1. s \in DOMAIN rows /\ s <= a
        BY <1>0, <2>1
      <3> QED
        BY <2>2, <3>1
    <2> QED
      BY <2>1, <2>2, <2>3, <2>4, <2>5 DEF KeysInv
  <1>5. ASSUME NEW t \in Tasks, CommitTx(t) \/ CommitTxLostAnswer(t)
        PROVE  KeysInv'
    <2>1. /\ CommitPair(NewRow(t)) /\ ~CidTaken(req[t].cid)
          /\ UNCHANGED req
      BY <1>5 DEF CommitTx, CommitTxLostAnswer, Finish
    <2>2. /\ nextSeq' = nextSeq + 1 /\ aged' = aged /\ journal' = journal \cup {nextSeq}
          /\ DOMAIN rows' = 1..nextSeq
          /\ rows'[nextSeq].cid = req[t].cid
          /\ \A s \in 1..(nextSeq - 1) : rows'[s] = rows[s]
      BY <1>0, <2>1 DEF CommitPair, NewRow
    <2>3. ExactlyOnce'
      <3> SUFFICES ASSUME NEW r \in 1..nextSeq, NEW s \in 1..nextSeq,
                          rows'[r].cid = rows'[s].cid, rows'[r].cid # NoCid
                   PROVE  r = s
        BY <2>2 DEF ExactlyOnce
      <3>1. CASE r # nextSeq /\ s # nextSeq
        BY <1>0, <2>2, <3>1 DEF KeysInv, ExactlyOnce
      <3>2. CASE r = nextSeq /\ s # nextSeq
        BY <1>0, <2>1, <2>2, <3>2, NewKey
      <3>3. CASE r # nextSeq /\ s = nextSeq
        BY <1>0, <2>1, <2>2, <3>3, NewKey
      <3> QED
        BY <3>1, <3>2, <3>3
    <2>4. aged' < nextSeq' /\ \A s \in 1..(nextSeq' - 1) : s \in journal' \/ s <= aged'
      BY <1>0, <2>2 DEF KeysInv
    <2>5. \A u \in Tasks, s \in 1..aged' : req'[u].cid # NoCid => rows'[s].cid # req'[u].cid
      <3> SUFFICES ASSUME NEW u \in Tasks, NEW s \in 1..aged, req[u].cid # NoCid
                   PROVE  rows'[s].cid # req[u].cid
        BY <2>1, <2>2
      <3>1. s \in 1..(nextSeq - 1)
        BY <1>0 DEF KeysInv
      <3> QED
        BY <2>2, <3>1 DEF KeysInv
    <2> QED
      BY <2>3, <2>4, <2>5 DEF KeysInv
  <1> QED
    BY <1>2, <1>3, <1>4, <1>5, StoreWrites

-----------------------------------------------------------------------------
\* Types, history and keys together are inductive.
LEMMA HistoryInvariance == Spec => [](TypeInv /\ HistoryInv /\ KeysInv)
  <1>1. Init => TypeInv /\ HistoryInv /\ KeysInv
    BY TypeInit, HistoryInit
  <1>2. TypeInv /\ HistoryInv /\ KeysInv /\ [Next]_vars => (TypeInv /\ HistoryInv /\ KeysInv)'
    BY TypeStep, HistoryStep, KeysStep
  <1> QED
    BY <1>1, <1>2, PTL DEF Spec

\* A ready head is at the end of a history without holes: rolled-back commits
\* lose no seq, and no superseded activation moves the watermark.
THEOREM HeadIsAtLogEnd == Spec => []HeadAtLogEnd
  <1>1. HistoryInv => HeadAtLogEnd
    BY DEF HistoryInv
  <1> QED
    BY <1>1, HistoryInvariance, PTL

\* A client_event_id is committed at most once, although retention deletes the
\* rows that durable dedup and the UNIQUE constraint look at.
THEOREM KeysCommitOnce == Spec => []ExactlyOnce
  <1>1. KeysInv => ExactlyOnce
    BY DEF KeysInv
  <1> QED
    BY <1>1, HistoryInvariance, PTL

\* Retention never deletes an event whose journal row it keeps.
THEOREM HistoryStaysPaired == Spec => []PairedHistory
  <1>1. HistoryInv => PairedHistory
    BY DEF HistoryInv
  <1> QED
    BY <1>1, HistoryInvariance, PTL

\* A ready board keeps its writer epoch for ever, and its watermark moves one
\* committed event at a time.
THEOREM ReadyBoardsStayReady == Spec => ReadyIsFinal
  <1>1. ASSUME TypeInv, HistoryInv, [Next]_vars, head.state = "ready"
        PROVE  /\ head'.state = "ready" /\ head'.epoch = head.epoch
               /\ head'.processed \in {head.processed, head.processed + 1}
    <2>0. head \in HeadRow /\ nextSeq \in Nat /\ head.processed = nextSeq - 1
      BY <1>1 DEF TypeInv, TypeOK, StoreTypeOK, HistoryInv, HeadAtLogEnd
    <2>1. CASE head' = head
      BY <1>1, <2>1
    <2>2. ASSUME NEW t \in Tasks, CommitTx(t) \/ CommitTxLostAnswer(t)
          PROVE  head' = [head EXCEPT !.processed = nextSeq]
      BY <2>2 DEF CommitTx, CommitTxLostAnswer, CommitPair
    <2>3. ASSUME NEW t \in Tasks
          PROVE  ~ActivateBegin(t) /\ ~ActivateReady(t)
      BY <1>1 DEF ActivateBegin, ActivateReady, CanMarkReady
    <2>4. CASE head' = [head EXCEPT !.processed = nextSeq]
      BY <1>1, <2>0, <2>4 DEF HeadRow
    <2> QED
      BY <1>1, <2>1, <2>2, <2>3, <2>4, StoreWrites
      DEF storeVars, Publish, PruneBatch, Age
  <1>2. TypeInv /\ HistoryInv /\ [Next]_vars =>
          [head.state = "ready" =>
             /\ head'.state = "ready" /\ head'.epoch = head.epoch
             /\ head'.processed \in {head.processed, head.processed + 1}]_vars
    BY <1>1
  <1> QED
    BY <1>2, HistoryInvariance, PTL DEF Spec, ReadyIsFinal
=============================================================================
