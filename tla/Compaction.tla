----------------------------- MODULE Compaction -----------------------------
(***************************************************************************)
(* The two background jobs that every server instance runs over the        *)
(* canonical history: checkpointing (jobs/yrs_compaction) rebuilds the     *)
(* document at the head and publishes it as an immutable snapshot if the   *)
(* head has not moved; retention (jobs/yrs_retention) deletes aged journal *)
(* rows, and then their events, at or below the second newest snapshot.    *)
(***************************************************************************)
EXTENDS CanonicalStore

CONSTANTS
  Compactors,   \* one per instance running the compaction job
  MinUpdates,   \* YRS_COMPACTION_MIN_UPDATES
  TailPage,     \* UPDATE_PAGE
  RetentionOn   \* whether the retention job is configured ("Disabled by default")

ASSUME CompactionAssumption ==
  /\ MinUpdates \in Nat \ {0}
  /\ TailPage \in Nat \ {0}
  /\ RetentionOn \in BOOLEAN

VARIABLES
  cpc,    \* compactor -> where compact_one is
  cand    \* compactor -> the candidate row and the document being rebuilt

compactionVars == <<cpc, cand>>

\* processed, epoch: the selected head; doc, cursor: base plus tail so far.
Candidate == [processed : Nat, epoch : Nat, doc : SUBSET Nat, cursor : Nat]
NoCandidate == [processed |-> 0, epoch |-> 0, doc |-> {}, cursor |-> 0]

CompactionTypeOK ==
  /\ cpc \in [Compactors -> {"idle", "selected", "base", "tail", "publish"}]
  /\ cand \in [Compactors -> Candidate]

CompactionInit ==
  /\ cpc = [c \in Compactors |-> "idle"]
  /\ cand = [c \in Compactors |-> NoCandidate]

-----------------------------------------------------------------------------
\* list_compaction_candidates: the board is ready and has no checkpoint, or
\* MinUpdates journal rows above the newest one.  (The byte threshold is one
\* more reason to select a board, with the same effect.)
SelectCandidate(c) ==
  /\ cpc[c] = "idle"
  /\ head.state = "ready"
  /\ \/ NoCheckpoint(head.processed)
     \/ \E base \in snapshots :
          /\ IsLatestCheckpoint(base, head.processed)
          /\ Cardinality({s \in journal : base.seq < s /\ s <= head.processed}) >= MinUpdates
  /\ cand' = [cand EXCEPT ![c] = [NoCandidate EXCEPT !.processed = head.processed,
                                                     !.epoch = head.epoch]]
  /\ cpc' = [cpc EXCEPT ![c] = "selected"]
  /\ UNCHANGED storeVars

\* The head compact_one selected is still the head.
HeadUnchanged(c) == RevisionFence(cand[c].epoch, cand[c].processed)

\* The candidate is over, published or not.
Release(c) ==
  /\ cpc' = [cpc EXCEPT ![c] = "idle"]
  /\ cand' = [cand EXCEPT ![c] = NoCandidate]

RecheckHead(c) ==
  /\ cpc[c] = "selected"
  /\ HeadUnchanged(c)
  /\ cpc' = [cpc EXCEPT ![c] = "base"]
  /\ UNCHANGED <<cand, storeVars>>

SkipCandidate(c) ==
  /\ cpc[c] = "selected"
  /\ ~HeadUnchanged(c)
  /\ Release(c)
  /\ UNCHANGED storeVars

ReadCheckpoint(c) ==
  /\ cpc[c] = "base"
  /\ \E base \in snapshots \cup {[seq |-> 0, doc |-> {}]} :
       /\ IsBase(base, cand[c].processed)
       /\ cand' = [cand EXCEPT ![c] = [@ EXCEPT !.doc = base.doc, !.cursor = base.seq]]
  /\ cpc' = [cpc EXCEPT ![c] = "tail"]
  /\ UNCHANGED storeVars

\* Mutant of ReadTail: the loop ends after the first page.
ReadTailMutant(c) ==
  /\ cpc[c] = "tail"
  /\ cand[c].cursor < cand[c].processed
  /\ \E page \in SUBSET journal, last \in journal :
       /\ IsPage(page, {s \in journal : s <= cand[c].processed}, cand[c].cursor, TailPage)
       /\ last \in page /\ \A s \in page : s <= last
       /\ cand' = [cand EXCEPT ![c] = [@ EXCEPT !.doc = cand[c].doc \cup page, !.cursor = last]]
  /\ cpc' = [cpc EXCEPT ![c] = "publish"]
  /\ UNCHANGED storeVars

\* One page of the journal tail; a short page ends the loop.  Gaps between
\* the rows are accepted.
ReadTail(c) ==
  /\ cpc[c] = "tail"
  /\ cand[c].cursor < cand[c].processed
  /\ \E page \in SUBSET journal :
       /\ IsPage(page, {s \in journal : s <= cand[c].processed}, cand[c].cursor, TailPage)
       /\ \/ page = {} /\ UNCHANGED cand
          \/ \E last \in page :
               /\ \A s \in page : s <= last
               /\ cand' = [cand EXCEPT ![c] = [@ EXCEPT !.doc = cand[c].doc \cup page, !.cursor = last]]
       /\ cpc' = [cpc EXCEPT ![c] = IF Cardinality(page) < TailPage THEN "publish" ELSE "tail"]
  /\ UNCHANGED storeVars

TailComplete(c) ==
  /\ cpc[c] = "tail"
  /\ cand[c].cursor >= cand[c].processed
  /\ cpc' = [cpc EXCEPT ![c] = "publish"]
  /\ UNCHANGED <<cand, storeVars>>

\* publish_snapshot_cas.  A snapshot with this key is left as it is.
Publish(c) ==
  /\ cpc[c] = "publish"
  /\ HeadUnchanged(c)
  /\ snapshots' = IF \E d \in snapshots : d.seq = cand[c].processed
                  THEN snapshots
                  ELSE snapshots \cup {[seq |-> cand[c].processed, doc |-> cand[c].doc]}
  /\ Release(c)
  /\ UNCHANGED <<head, nextSeq, rows, journal, events, assetSeq, configSeq, aged>>

PublishTooLate(c) ==
  /\ cpc[c] = "publish"
  /\ ~HeadUnchanged(c)
  /\ Release(c)
  /\ UNCHANGED storeVars

\* A database error, an invalid document, or the process dies.
AbortCompaction(c) ==
  /\ cpc[c] # "idle"
  /\ Release(c)
  /\ UNCHANGED storeVars

-----------------------------------------------------------------------------
\* Mutant of IsBarrier: snapshot_rank = 1, the newest checkpoint.
IsBarrierMutant(b) == b \in snapshots /\ \A d \in snapshots : d.seq <= b.seq

\* snapshot_rank = 2: b has exactly one newer checkpoint.
IsBarrier(b) ==
  /\ b \in snapshots
  /\ \E newer \in snapshots :
       /\ newer.seq > b.seq
       /\ \A d \in snapshots : d.seq > b.seq => d.seq = newer.seq

\* The seqs in S at or below the barrier and past the retention window.
Expired(S, b) == {s \in S : s <= b.seq /\ s <= aged}

\* Mutant of PruneBatch: events go by their age alone, journal row or not.
PruneEventsMutant ==
  /\ RetentionOn
  /\ head.state = "ready"
  /\ \E b \in snapshots :
       /\ IsBarrier(b)
       /\ \E old \in SUBSET Expired(journal, b) : journal' = journal \ old
       /\ \E old \in SUBSET Expired(events, b) : events' = events \ old
  /\ UNCHANGED <<head, nextSeq, rows, snapshots, assetSeq, configSeq, aged,
                 compactionVars>>

\* prune_compacted_batch: journal rows first, then the events that have no
\* journal row left.  Which of the expired rows one batch takes depends on the
\* limit, shared with every other board, and on the rows another instance's
\* batch holds (SKIP LOCKED).
PruneBatch ==
  /\ RetentionOn
  /\ head.state = "ready"
  /\ \E b \in snapshots :
       /\ IsBarrier(b)
       /\ \E old \in SUBSET Expired(journal, b) : journal' = journal \ old
       /\ \E old \in SUBSET Expired(events \ journal', b) : events' = events \ old
  /\ UNCHANGED <<head, nextSeq, rows, snapshots, assetSeq, configSeq, aged,
                 compactionVars>>

CompactorStep(c) ==
  \/ SelectCandidate(c) \/ RecheckHead(c) \/ SkipCandidate(c) \/ ReadCheckpoint(c)
  \/ ReadTail(c) \/ TailComplete(c) \/ Publish(c) \/ PublishTooLate(c) \/ AbortCompaction(c)

CompactionNext == (\E c \in Compactors : CompactorStep(c)) \/ PruneBatch
=============================================================================
