--------------------------- MODULE ResidentProofs ---------------------------
(***************************************************************************)
(* What the checkpoints and the residents hold: a checkpoint is the whole  *)
(* document of its seq, retention keeps what recovery needs, and a         *)
(* resident that could still win the revision fence is complete.           *)
(*                                                                         *)
(* Compaction and activation both read a base and then, page by page, rows *)
(* that retention may be deleting.  The argument is the same for both: as  *)
(* long as the head they started from is the head, the only checkpoint     *)
(* that can be published is one AT that head, so no second checkpoint      *)
(* covers the tail they still have to read, and retention leaves it alone. *)
(* Once the head has moved, what they read may have holes, and what they   *)
(* build from it is turned away by the fence.                              *)
(*                                                                         *)
(* And what the clients of the commit path are told: the read models are   *)
(* those of the head, an exact retry is never turned away for good, a      *)
(* reader gets a prefix of the history, and the whole deployment           *)
(* implements the append-only exactly-once log of CanonicalLog.            *)
(***************************************************************************)
EXTENDS HistoryProofs

\* No checkpoint lies strictly between a cursor and the head.
NothingBetween(cursor, h) == \A d \in snapshots : d.seq <= cursor \/ d.seq = h

\* A compactor whose head is still the head holds the prefix it has read.
CandidatesInv ==
  \A c \in Compactors :
    /\ cand[c].processed < nextSeq
    /\ cpc[c] \in {"tail", "publish"} /\ cand[c].processed = nextSeq - 1 =>
         /\ cand[c].cursor <= cand[c].processed
         /\ cand[c].doc = 1..cand[c].cursor
         /\ NothingBetween(cand[c].cursor, cand[c].processed)
    /\ cpc[c] = "publish" /\ cand[c].processed = nextSeq - 1 =>
         cand[c].cursor = cand[c].processed

CheckpointInv == CheckpointsComplete /\ RecoveryTailRetained /\ CandidatesInv

-----------------------------------------------------------------------------
\* The tail of a reader that started from the current head is stored.
LEMMA TailStored ==
  ASSUME TypeInv, CheckpointInv, NEW n \in Nat, NothingBetween(n, nextSeq - 1),
         NEW s \in Nat, n < s, s < nextSeq
  PROVE  s \in journal /\ s \in events
  <1>0. nextSeq \in Nat /\ snapshots \subseteq Checkpoint
    BY DEF TypeInv, TypeOK, StoreTypeOK
  <1>1. SUFFICES ASSUME NEW c \in snapshots, NEW d \in snapshots,
                        c.seq # d.seq, c.seq >= s, d.seq >= s
                 PROVE  FALSE
    BY <1>0 DEF CheckpointInv, RecoveryTailRetained
  <1>2. c.seq \in Nat /\ d.seq \in Nat
    BY <1>0 DEF Checkpoint
  <1> QED
    BY <1>0, <1>1, <1>2 DEF NothingBetween

\* A base read for the current head is complete, and nothing is above it.
LEMMA BaseComplete ==
  ASSUME TypeInv, CheckpointInv, NEW h \in Nat, h < nextSeq,
         NEW b \in snapshots \cup {[seq |-> 0, doc |-> {}]}, IsBase(b, h)
  PROVE  /\ b.seq \in Nat /\ b.seq <= h /\ b.doc = 1..b.seq
         /\ h = nextSeq - 1 => NothingBetween(b.seq, h)
  <1>0. nextSeq \in Nat /\ snapshots \subseteq Checkpoint
    BY DEF TypeInv, TypeOK, StoreTypeOK
  <1>1. \A d \in snapshots : d.seq \in Nat /\ d.seq < nextSeq /\ d.doc = 1..d.seq
    BY <1>0 DEF Checkpoint, CheckpointInv, CheckpointsComplete
  <1>2. CASE IsLatestCheckpoint(b, h)
    <2>1. b \in snapshots /\ b.seq <= h /\ \A d \in snapshots : d.seq <= h => d.seq <= b.seq
      BY <1>2 DEF IsLatestCheckpoint
    <2> QED
      BY <1>0, <1>1, <2>1 DEF NothingBetween
  <1>3. CASE NoCheckpoint(h) /\ b = [seq |-> 0, doc |-> {}]
    <2>1. b.seq = 0 /\ b.doc = {} /\ \A d \in snapshots : d.seq > h
      BY <1>3 DEF NoCheckpoint
    <2>2. h = nextSeq - 1 => snapshots = {}
      BY <1>0, <1>1, <2>1
    <2> QED
      BY <1>0, <2>1, <2>2 DEF NothingBetween
  <1> QED
    BY <1>2, <1>3 DEF IsBase

\* No checkpoint on an empty board.
LEMMA CheckpointInit == Init => CheckpointInv
  BY DEF Init, StoreInit, CompactionInit, NoCandidate, CheckpointInv, CheckpointsComplete,
         RecoveryTailRetained, CandidatesInv

\* A step of the registries or of time leaves the jobs' promises alone.
LEMMA CheckpointsUnderCommits ==
  ASSUME TypeInv, HistoryInv, CheckpointInv, [Next]_vars, UNCHANGED compactionVars,
         ~PruneBatch, \A c \in Compactors : ~Publish(c)
  PROVE  CheckpointInv'
  <1>0. /\ nextSeq \in Nat \ {0}
        /\ cand \in [Compactors -> Candidate]
        /\ \A c \in Compactors : cand[c].processed \in Nat
    BY DEF TypeInv, TypeOK, StoreTypeOK, CompactionTypeOK, Candidate
  <1>1. CASE UNCHANGED <<nextSeq, snapshots, journal, events>>
    BY <1>1 DEF CheckpointInv, CheckpointsComplete, RecoveryTailRetained, CandidatesInv,
                NothingBetween, compactionVars
  <1>2. ASSUME NEW t \in Tasks, CommitTx(t) \/ CommitTxLostAnswer(t)
        PROVE  CheckpointInv'
    <2>1. /\ nextSeq' = nextSeq + 1 /\ snapshots' = snapshots
          /\ journal' = journal \cup {nextSeq} /\ events' = events \cup {nextSeq}
      BY <1>2 DEF CommitTx, CommitTxLostAnswer, CommitPair
    <2>2. CheckpointsComplete'
      <3>1. \A c \in snapshots : c.seq \in Nat
        BY DEF TypeInv, TypeOK, StoreTypeOK, Checkpoint
      <3> QED
        BY <1>0, <2>1, <3>1 DEF CheckpointInv, CheckpointsComplete
    <2>3. RecoveryTailRetained'
      BY <1>0, <2>1 DEF CheckpointInv, RecoveryTailRetained
    <2>4. CandidatesInv'
      BY <1>0, <2>1 DEF CheckpointInv, CandidatesInv, compactionVars
    <2> QED
      BY <2>2, <2>3, <2>4 DEF CheckpointInv
  <1> QED
    BY <1>1, <1>2, StoreWrites DEF storeVars, ActivateBegin, ActivateReady, Age

\* Retention deletes only what two checkpoints cover.
LEMMA CheckpointsUnderRetention ==
  ASSUME TypeInv, CheckpointInv, PruneBatch
  PROVE  CheckpointInv'
  <1>0. \A d \in snapshots : d.seq \in Nat
    BY DEF TypeInv, TypeOK, StoreTypeOK, Checkpoint
  <1>1. UNCHANGED <<nextSeq, snapshots, cpc, cand>>
    BY DEF PruneBatch, compactionVars
  <1>2. PICK b \in snapshots :
          /\ IsBarrier(b)
          /\ \A s \in journal : s \in journal' \/ s <= b.seq
          /\ \A s \in events : s \in events' \/ s <= b.seq
    BY DEF PruneBatch, Expired
  <1>3. PICK newer \in snapshots : newer.seq > b.seq
    BY <1>2 DEF IsBarrier
  <1>4. RecoveryTailRetained'
    <2> SUFFICES ASSUME NEW s \in 1..(nextSeq - 1), ~(s \in journal' /\ s \in events')
                 PROVE  \E c, d \in snapshots : c.seq # d.seq /\ c.seq >= s /\ d.seq >= s
      BY <1>1 DEF RecoveryTailRetained
    <2>1. CASE s <= b.seq
      <3>1. newer.seq # b.seq /\ newer.seq >= s /\ b.seq >= s
        BY <1>0, <1>3, <2>1 DEF TypeInv, TypeOK, StoreTypeOK
      <3> QED
        BY <3>1
    <2>2. CASE ~(s \in journal /\ s \in events)
      BY <2>2 DEF CheckpointInv, RecoveryTailRetained
    <2> QED
      BY <1>2, <2>1, <2>2
  <1> QED
    BY <1>1, <1>4 DEF CheckpointInv, CheckpointsComplete, CandidatesInv, NothingBetween

\* The stored seqs S hold everything from n to h, and nothing above h.
GapFree(S, n, h) ==
  /\ S \in SUBSET Nat
  /\ \A s \in Nat : n < s /\ s <= h => s \in S
  /\ \A s \in S : s <= h

\* Folding the page into the prefix 1..n gives a prefix; a short page ends at h.
ExtendsPrefix(page, n, h, limit) ==
  /\ \A last \in page : (\A s \in page : s <= last) =>
       last \in Nat /\ n < last /\ last <= h /\ (1..n) \cup page = 1..last
  /\ \A s \in page : s \in Nat /\ n < s /\ \A r \in (n + 1)..s : r \in page
  /\ n < h /\ Cardinality(page) # limit => h \in page /\ \A s \in page : s <= h

\* One page of a gap-free tail extends a gap-free prefix.
LEMMA PageExtends ==
  ASSUME NEW n \in Nat, NEW h \in Nat, NEW limit \in Nat, NEW S, NEW page,
         GapFree(S, n, h), IsPage(page, S, n, limit)
  PROVE  ExtendsPrefix(page, n, h, limit)
  <1> DEFINE tail == {s \in S : s > n}
  <1>1. /\ page \in SUBSET tail
        /\ \A s \in page, r \in tail : r < s => r \in page
        /\ Cardinality(page) # limit => page = tail
    BY DEF IsPage
  <1>2. tail = {s \in Nat : n < s /\ s <= h}
    BY DEF GapFree
  <1>3. ASSUME NEW last \in page, \A s \in page : s <= last
        PROVE  last \in Nat /\ n < last /\ last <= h /\ (1..n) \cup page = 1..last
    <2>1. last \in Nat /\ n < last /\ last <= h
      BY <1>1, <1>2
    <2>2. \A r \in Nat : n < r /\ r <= last => r \in page
      BY <1>1, <1>2, <2>1
    <2>3. \A r \in page : r \in Nat /\ n < r /\ r <= last
      BY <1>1, <1>2, <1>3
    <2>4. ASSUME NEW x
          PROVE  x \in (1..n) \cup page <=> x \in 1..last
      <3>1. x \in page => x \in 1..last
        BY <2>1, <2>3
      <3>2. x \in 1..n => x \in 1..last
        BY <2>1
      <3>3. x \in 1..last => x \in 1..n \/ x \in page
        BY <2>1, <2>2
      <3> QED
        BY <3>1, <3>2, <3>3
    <2> HIDE DEF tail
    <2> QED
      BY <2>1, <2>4
  <1>4. n < h /\ Cardinality(page) # limit => h \in page /\ \A s \in page : s <= h
    BY <1>1, <1>2
  <1>5. \A s \in page : s \in Nat /\ n < s /\ \A r \in (n + 1)..s : r \in page
    BY <1>1, <1>2
  <1> HIDE DEF tail
  <1> QED
    BY <1>3, <1>4, <1>5 DEF ExtendsPrefix

\* Building and publishing a checkpoint.
LEMMA CheckpointsUnderCompaction ==
  ASSUME TypeInv, HistoryInv, CheckpointInv, NEW c \in Compactors, CompactorStep(c)
  PROVE  CheckpointInv'
  <1>0. /\ nextSeq \in Nat \ {0} /\ head.processed \in Nat
        /\ cpc \in [Compactors -> {"idle", "selected", "base", "tail", "publish"}]
        /\ cand \in [Compactors -> Candidate]
        /\ cand[c] \in Candidate
        /\ head.state = "ready" => head.processed = nextSeq - 1
        /\ snapshots \subseteq Checkpoint /\ journal \subseteq Nat
    BY DEF TypeInv, TypeOK, StoreTypeOK, HeadRow, CompactionTypeOK, HistoryInv, HeadAtLogEnd
  <1>c. /\ cand[c].processed \in Nat /\ cand[c].cursor \in Nat
        /\ cand[c].processed < nextSeq
    BY <1>0 DEF Candidate, CheckpointInv, CandidatesInv
  <1>1. CASE Publish(c)
    <2>1. cand[c].processed = nextSeq - 1 /\ cpc[c] = "publish"
      BY <1>0, <1>1 DEF Publish, HeadUnchanged, RevisionFence
    <2>2. cand[c].doc = 1..cand[c].processed
      BY <2>1 DEF CheckpointInv, CandidatesInv
    <2> DEFINE new == [seq |-> cand[c].processed, doc |-> cand[c].doc]
    <2>3. /\ snapshots' \subseteq snapshots \cup {new} /\ snapshots \subseteq snapshots'
          /\ UNCHANGED <<nextSeq, journal, events>>
      BY <1>1 DEF Publish
    <2>4. new.seq = nextSeq - 1 /\ new.doc = 1..new.seq
      BY <2>1, <2>2
    <2> HIDE DEF new
    <2>5. CheckpointsComplete'
      BY <1>0, <2>3, <2>4 DEF CheckpointInv, CheckpointsComplete
    <2>6. RecoveryTailRetained'
      BY <2>3 DEF CheckpointInv, RecoveryTailRetained
    <2>7. CandidatesInv'
      <3>1. ASSUME NEW k \in Compactors, k # c
            PROVE  cpc'[k] = cpc[k] /\ cand'[k] = cand[k]
        BY <1>0, <1>1, <3>1 DEF Publish, Release
      <3>2. cpc'[c] = "idle" /\ cand'[c].processed = 0
        BY <1>0, <1>1 DEF Publish, Release, NoCandidate
      <3>3. ASSUME NEW k \in Compactors, cand[k].processed = nextSeq - 1,
                   NothingBetween(cand[k].cursor, cand[k].processed)
            PROVE  NothingBetween(cand[k].cursor, cand[k].processed)'
                     \/ cand'[k] # cand[k]
        BY <2>3, <2>4, <3>3 DEF NothingBetween
      <3> QED
        BY <1>0, <2>3, <3>1, <3>2, <3>3 DEF CheckpointInv, CandidatesInv, NothingBetween
    <2> QED
      BY <2>5, <2>6, <2>7 DEF CheckpointInv
  <1>2. CASE ~Publish(c)
    <2>1. /\ UNCHANGED <<nextSeq, snapshots, journal, events>>
          /\ \A k \in Compactors : k # c => cpc'[k] = cpc[k] /\ cand'[k] = cand[k]
      <3>1. UNCHANGED <<nextSeq, snapshots, journal, events>>
        BY <1>2
        DEF CompactorStep, SelectCandidate, RecheckHead, SkipCandidate, ReadCheckpoint,
            ReadTail, TailComplete, PublishTooLate, AbortCompaction, storeVars
      <3>2. \A k \in Compactors : k # c => cpc'[k] = cpc[k]
        BY <1>0, <1>2
        DEF CompactorStep, SelectCandidate, RecheckHead, SkipCandidate, ReadCheckpoint,
            ReadTail, TailComplete, PublishTooLate, AbortCompaction, Release
      <3>3. \A k \in Compactors : k # c => cand'[k] = cand[k]
        BY <1>0, <1>2
        DEF CompactorStep, SelectCandidate, RecheckHead, SkipCandidate, ReadCheckpoint,
            ReadTail, TailComplete, PublishTooLate, AbortCompaction, Release
      <3> QED
        BY <3>1, <3>2, <3>3
    <2> DEFINE Good(q, r) ==
           /\ r.processed < nextSeq
           /\ q \in {"tail", "publish"} /\ r.processed = nextSeq - 1 =>
                /\ r.cursor <= r.processed
                /\ r.doc = 1..r.cursor
                /\ NothingBetween(r.cursor, r.processed)
           /\ q = "publish" /\ r.processed = nextSeq - 1 => r.cursor = r.processed
    <2>2. Good(cpc'[c], cand'[c])
      <3>0. Good(cpc[c], cand[c])
        BY DEF CheckpointInv, CandidatesInv
      <3>1. CASE SelectCandidate(c)
        <4>1. cpc'[c] = "selected" /\ cand'[c].processed = head.processed
          BY <1>0, <3>1 DEF SelectCandidate, NoCandidate
        <4>2. head.processed < nextSeq
          BY <1>0, <3>1 DEF SelectCandidate
        <4> QED
          BY <4>1, <4>2
      <3>2. CASE RecheckHead(c)
        BY <1>0, <3>0, <3>2 DEF RecheckHead
      <3>3. CASE SkipCandidate(c) \/ PublishTooLate(c) \/ AbortCompaction(c)
        <4>1. cpc'[c] = "idle" /\ cand'[c].processed = 0
          BY <1>0, <3>3 DEF SkipCandidate, PublishTooLate, AbortCompaction, Release, NoCandidate
        <4> QED
          BY <1>0, <4>1
      <3>4. CASE ReadCheckpoint(c)
        <4>1. PICK b \in snapshots \cup {[seq |-> 0, doc |-> {}]} :
                /\ IsBase(b, cand[c].processed)
                /\ cand' = [cand EXCEPT ![c] = [@ EXCEPT !.doc = b.doc, !.cursor = b.seq]]
          BY <3>4 DEF ReadCheckpoint
        <4>2. /\ b.seq \in Nat /\ b.seq <= cand[c].processed /\ b.doc = 1..b.seq
              /\ cand[c].processed = nextSeq - 1 => NothingBetween(b.seq, cand[c].processed)
          BY <1>c, <4>1, BaseComplete
        <4>3. /\ cand'[c].processed = cand[c].processed
              /\ cand'[c].doc = b.doc /\ cand'[c].cursor = b.seq /\ cpc'[c] = "tail"
          BY <1>0, <3>4, <4>1 DEF ReadCheckpoint, Candidate
        <4> QED
          BY <3>0, <4>2, <4>3
      <3>5. CASE TailComplete(c)
        <4>1. cpc[c] = "tail" /\ cpc'[c] = "publish" /\ cand' = cand
              /\ cand[c].cursor >= cand[c].processed
          BY <1>0, <3>5 DEF TailComplete
        <4> QED
          BY <1>c, <3>0, <4>1
      <3>6. CASE ReadTail(c)
        <4>1. PICK page \in SUBSET journal :
                /\ IsPage(page, {s \in journal : s <= cand[c].processed}, cand[c].cursor,
                          TailPage)
                /\ \/ page = {} /\ UNCHANGED cand
                   \/ \E last \in page :
                        /\ \A s \in page : s <= last
                        /\ cand' = [cand EXCEPT ![c] = [@ EXCEPT !.doc = cand[c].doc \cup page,
                                                                 !.cursor = last]]
                /\ cpc' = [cpc EXCEPT ![c] = IF Cardinality(page) < TailPage
                                             THEN "publish" ELSE "tail"]
          BY <3>6 DEF ReadTail
        <4>2. /\ cpc[c] = "tail" /\ cand[c].cursor < cand[c].processed
              /\ cand'[c].processed = cand[c].processed
              /\ cpc'[c] \in {"tail", "publish"}
              /\ cpc'[c] = "publish" => Cardinality(page) # TailPage
          <5>1. cpc[c] = "tail" /\ cand[c].cursor < cand[c].processed
            BY <3>6 DEF ReadTail
          <5>2. cand'[c].processed = cand[c].processed
            <6>1. CASE UNCHANGED cand
              BY <6>1
            <6>2. ASSUME NEW last,
                         cand' = [cand EXCEPT ![c] = [@ EXCEPT !.doc = cand[c].doc \cup page,
                                                               !.cursor = last]]
                  PROVE  cand'[c].processed = cand[c].processed
              BY <1>0, <6>2 DEF Candidate
            <6> QED
              BY <4>1, <6>1, <6>2
          <5>3. cpc'[c] = IF Cardinality(page) < TailPage THEN "publish" ELSE "tail"
            BY <1>0, <4>1
          <5>4. ~(TailPage < TailPage)
            BY CompactionAssumption
          <5> QED
            BY <5>1, <5>2, <5>3, <5>4
        <4>3. CASE cand[c].processed # nextSeq - 1
          BY <3>0, <4>2, <4>3
        <4>4. CASE cand[c].processed = nextSeq - 1
          <5>1. /\ cand[c].doc = 1..cand[c].cursor
                /\ NothingBetween(cand[c].cursor, cand[c].processed)
            BY <3>0, <4>2, <4>4
          <5>2. \A s \in Nat : cand[c].cursor < s /\ s <= cand[c].processed => s \in journal
            BY <1>0, <1>c, <4>4, <5>1, TailStored
          <5>3. ExtendsPrefix(page, cand[c].cursor, cand[c].processed, TailPage)
            <6> DEFINE S == {s \in journal : s <= cand[c].processed}
            <6>1. TailPage \in Nat /\ GapFree(S, cand[c].cursor, cand[c].processed)
              BY <1>0, <5>2, CompactionAssumption DEF GapFree
            <6>2. IsPage(page, S, cand[c].cursor, TailPage)
              BY <4>1
            <6> HIDE DEF Good, S
            <6> QED
              BY <1>c, <6>1, <6>2, PageExtends
          <5>4. CASE page = {} /\ UNCHANGED cand
            BY <3>0, <4>2, <5>3, <5>4 DEF ExtendsPrefix
          <5>5. ASSUME NEW last \in page, \A s \in page : s <= last,
                       cand' = [cand EXCEPT ![c] = [@ EXCEPT !.doc = cand[c].doc \cup page,
                                                             !.cursor = last]]
                PROVE  Good(cpc'[c], cand'[c])
            <6>1. cand'[c].doc = cand[c].doc \cup page /\ cand'[c].cursor = last
              BY <1>0, <5>5 DEF Candidate
            <6>2. /\ last \in Nat /\ cand[c].cursor < last /\ last <= cand[c].processed
                  /\ cand'[c].doc = 1..last
              BY <5>1, <5>3, <5>5, <6>1 DEF ExtendsPrefix
            <6>3. NothingBetween(last, cand[c].processed)
              <7>1. \A d \in snapshots : d.seq \in Nat
                BY <1>0 DEF Checkpoint
              <7> QED
                BY <1>c, <5>1, <6>2, <7>1 DEF NothingBetween
            <6>4. cpc'[c] = "publish" => last = cand[c].processed
              <7>1. ASSUME cpc'[c] = "publish"
                    PROVE  cand[c].processed <= last
                BY <4>2, <5>3, <5>5, <7>1 DEF ExtendsPrefix
              <7> QED
                BY <1>c, <6>2, <7>1
            <6> QED
              BY <3>0, <4>2, <6>1, <6>2, <6>3, <6>4
          <5> QED
            BY <4>1, <5>4, <5>5
        <4> QED
          BY <4>3, <4>4
      <3> QED
        BY <1>2, <3>1, <3>2, <3>3, <3>4, <3>5, <3>6 DEF CompactorStep
    <2>3. CandidatesInv'
      <3>1. \A k \in Compactors : Good(cpc'[k], cand'[k])
        BY <2>1, <2>2 DEF CheckpointInv, CandidatesInv
      <3> QED
        BY <2>1, <3>1 DEF CandidatesInv, NothingBetween
    <2> QED
      BY <2>1, <2>3 DEF CheckpointInv, CheckpointsComplete, RecoveryTailRetained
  <1> QED
    BY <1>1, <1>2

\* No step breaks a checkpoint or takes away what recovery needs.
LEMMA CheckpointStep == TypeInv /\ HistoryInv /\ CheckpointInv /\ [Next]_vars => CheckpointInv'
  <1> SUFFICES ASSUME TypeInv, HistoryInv, CheckpointInv, [Next]_vars
               PROVE  CheckpointInv'
    OBVIOUS
  <1>1. CASE PruneBatch
    BY <1>1, CheckpointsUnderRetention
  <1>2. CASE \E c \in Compactors : CompactorStep(c)
    BY <1>2, CheckpointsUnderCompaction
  <1>3. CASE ~PruneBatch /\ ~\E c \in Compactors : CompactorStep(c)
    <2>1. UNCHANGED compactionVars
      BY <1>3 DEF Next, CompactionNext, Age, vars, compactionVars
    <2>2. \A c \in Compactors : ~Publish(c)
      BY <1>3 DEF CompactorStep
    <2> QED
      BY <1>3, <2>1, <2>2, CheckpointsUnderCommits
  <1> QED
    BY <1>1, <1>2, <1>3

-----------------------------------------------------------------------------
(* Handlers *)

\* The handler of u is where it was, with what it had.
Same(u) ==
  /\ pc'[u] = pc[u] /\ inst'[u] = inst[u] /\ held'[u] = held[u]
  /\ act'[u] = act[u] /\ out'[u] = out[u] /\ req'[u] = req[u]

\* A step of the handler of u, or of its client.
OwnStep(u) == Submit(u) \/ SubmitRead(u) \/ TaskStep(u) \/ Deliver(u) \/ Cancel(u)

\* A step of one handler leaves every other where it is.
LEMMA StepIsOwn ==
  ASSUME TypeInv, NEW t \in Tasks, OwnStep(t), NEW u \in Tasks, t # u
  PROVE  Same(u)
  <1>0. /\ pc \in [Tasks -> Locations] /\ inst \in [Tasks -> Instances \cup {None}]
        /\ held \in [Tasks -> Slots \cup {None}] /\ act \in [Tasks -> Activation]
        /\ out \in [Tasks -> Result] /\ req \in [Tasks -> Request]
    BY DEF TypeInv, TypeOK, RegistryTypeOK
  <1>1. CASE Submit(t) \/ SubmitRead(t) \/ Deliver(t) \/ Cancel(t)
    BY <1>0, <1>1 DEF Submit, SubmitRead, Deliver, Cancel, Same
  <1>2. CASE \/ EnsureHit(t) \/ EnsureMiss(t) \/ GateHit(t) \/ GateEnter(t)
             \/ ReplayDone(t) \/ ActivateReady(t)
    BY <1>0, <1>2
    DEF EnsureHit, EnsureMiss, GateHit, GateEnter, UseResident, ReplayDone, ActivateReady, Same
  <1>3. CASE \/ ActivateReuse(t) \/ ActivateBegin(t) \/ PickBase(t) \/ ListEvents(t)
             \/ ReplayEvent(t) \/ ReplayPastHead(t)
    <2>1. PICK a, p : act' = [act EXCEPT ![t] = a] /\ pc' = [pc EXCEPT ![t] = p]
      BY <1>3 DEF ActivateReuse, ActivateBegin, PickBase, ListEvents, ReplayEvent,
                  ReplayPastHead
    <2>2. UNCHANGED <<inst, held, out, req>>
      BY <1>3 DEF ActivateReuse, ActivateBegin, PickBase, ListEvents, ReplayEvent,
                  ReplayPastHead
    <2> QED
      BY <1>0, <2>1, <2>2 DEF Same
  <1>4. CASE \/ ReplayGap(t) \/ ActivateSuperseded(t) \/ ActivateDbError(t) \/ ReadState(t)
             \/ DedupHit(t) \/ RejectEnvelope(t) \/ RejectObserved(t) \/ RejectCandidate(t)
             \/ CommitTxLostAnswer(t) \/ CommitTxDuplicate(t) \/ CommitDbError(t)
             \/ EvictAndGiveUp(t) \/ ApplyCommitted(t) \/ ApplyFailed(t)
    <2>1. PICK result : Finish(t, result)
      BY <1>4 DEF ReplayGap, ActivateSuperseded, ActivateDbError, ActivateFail, ReadState,
        DedupHit, RejectEnvelope, RejectObserved, RejectCandidate, CommitTxLostAnswer,
        CommitTxDuplicate,
        CommitDbError, CommitReply, EvictAndGiveUp, ApplyCommitted, ApplyFailed
    <2> QED
      BY <1>0, <2>1 DEF Finish, Same
  <1>5. CASE \/ Install(t) \/ CommitLock(t) \/ DedupMiss(t) \/ CandidateValid(t) \/ CommitTx(t)
             \/ CommitTxStale(t) \/ EvictAndRetry(t)
    BY <1>0, <1>5
    DEF Install, CommitLock, DedupMiss, CandidateValid, CommitTx, CommitTxStale,
        EvictAndRetry, Same
  <1> QED
    BY <1>1, <1>2, <1>3, <1>4, <1>5 DEF OwnStep, TaskStep, ActivationStep, CommitStep

\* A handler is moved only by itself, or by the death of its process.
LEMMA OthersStay ==
  ASSUME TypeInv, [Next]_vars, NEW u \in Tasks
  PROVE  \/ Same(u) \/ OwnStep(u)
         \/ pc'[u] = "idle" /\ act'[u] = NoActivation /\ req'[u] = NoRequest
  <1>1. CASE UNCHANGED registryVars
    BY <1>1 DEF registryVars, Same
  <1>2. ASSUME NEW i \in Instances, Crash(i)
        PROVE  \/ Same(u)
               \/ pc'[u] = "idle" /\ act'[u] = NoActivation /\ req'[u] = NoRequest
    BY <1>2 DEF Crash, Same
  <1>3. CASE RegistryNext
    BY <1>2, <1>3, StepIsOwn DEF RegistryNext, OwnStep
  <1> QED
    BY <1>1, <1>3 DEF Next, Age, vars

\* A handler takes a resident's mutex only by waiting for it, and keeps the
\* same resident while it holds the mutex.
LEMMA LockedPersists ==
  ASSUME TypeInv, [Next]_vars, NEW u \in Tasks, pc'[u] \in LockedAt
  PROVE  /\ inst'[u] = inst[u] /\ held'[u] = held[u]
         /\ \/ CommitLock(u) \/ DedupMiss(u) \/ CandidateValid(u) \/ CommitTx(u)
            \/ Same(u) /\ pc[u] \in LockedAt
  <1>0. /\ pc \in [Tasks -> Locations] /\ inst \in [Tasks -> Instances \cup {None}]
        /\ held \in [Tasks -> Slots \cup {None}]
    BY DEF TypeInv, TypeOK, RegistryTypeOK
  <1>1. CASE Same(u)
    BY <1>1 DEF Same
  <1>2. CASE OwnStep(u)
    <2>1. CASE Submit(u) \/ SubmitRead(u) \/ Deliver(u) \/ Cancel(u)
      BY <1>0, <2>1 DEF Submit, SubmitRead, Deliver, Cancel, LockedAt
    <2>2. CASE \/ EnsureHit(u) \/ EnsureMiss(u) \/ GateHit(u) \/ GateEnter(u)
               \/ ReplayDone(u) \/ ActivateReady(u) \/ Install(u)
               \/ CommitTxStale(u) \/ EvictAndRetry(u)
      BY <1>0, <2>2
      DEF EnsureHit, EnsureMiss, GateHit, GateEnter, UseResident, ReplayDone, ActivateReady,
          Install, CommitTxStale, EvictAndRetry, LockedAt
    <2>3. CASE \/ ActivateReuse(u) \/ ActivateBegin(u) \/ PickBase(u) \/ ListEvents(u)
               \/ ReplayEvent(u) \/ ReplayPastHead(u)
      <3>1. pc'[u] \in ActivatingAt
        BY <1>0, <2>3 DEF ActivateReuse, ActivateBegin, PickBase, ListEvents, ReplayEvent,
                    ReplayPastHead, ActivatingAt
      <3> QED
        BY <3>1 DEF ActivatingAt, LockedAt
    <2>4. CASE \/ ReplayGap(u) \/ ActivateSuperseded(u) \/ ActivateDbError(u) \/ ReadState(u)
               \/ DedupHit(u) \/ RejectEnvelope(u) \/ RejectObserved(u) \/ RejectCandidate(u)
               \/ CommitTxLostAnswer(u) \/ CommitTxDuplicate(u) \/ CommitDbError(u)
               \/ EvictAndGiveUp(u) \/ ApplyCommitted(u) \/ ApplyFailed(u)
      <3>1. pc' = [pc EXCEPT ![u] = "done"]
        BY <2>4 DEF ReplayGap, ActivateSuperseded, ActivateDbError, ActivateFail, ReadState,
          DedupHit, RejectEnvelope, RejectObserved, RejectCandidate, CommitTxLostAnswer,
          CommitTxDuplicate,
          CommitDbError, CommitReply, EvictAndGiveUp, ApplyCommitted, ApplyFailed, Finish
      <3> QED
        BY <1>0, <3>1 DEF LockedAt
    <2>5. CASE CommitLock(u) \/ DedupMiss(u) \/ CandidateValid(u) \/ CommitTx(u)
      BY <2>5 DEF CommitLock, DedupMiss, CandidateValid, CommitTx
    <2> QED
      BY <1>2, <2>1, <2>2, <2>3, <2>4, <2>5 DEF OwnStep, TaskStep, ActivationStep, CommitStep
  <1> QED
    BY <1>1, <1>2, OthersStay DEF LockedAt

\* At most one handler is past the mutex of a resident.
MutexInv ==
  \A t, u \in Tasks :
    /\ t # u /\ inst[t] = inst[u] /\ held[t] = held[u]
    /\ pc[t] \in LockedAt
    => pc[u] \notin LockedAt

\* The Arc's mutex excludes, although evicted residents are still shared.
LEMMA MutexStep == TypeInv /\ MutexInv /\ [Next]_vars => MutexInv'
  <1> SUFFICES ASSUME TypeInv, MutexInv, [Next]_vars, NEW t \in Tasks, NEW u \in Tasks,
                      t # u, inst'[t] = inst'[u], held'[t] = held'[u],
                      pc'[t] \in LockedAt, pc'[u] \in LockedAt
               PROVE  FALSE
    BY DEF MutexInv
  <1>0. pc \in [Tasks -> Locations]
    BY DEF TypeInv, TypeOK, RegistryTypeOK
  <1>1. inst[t] = inst[u] /\ held[t] = held[u]
    BY LockedPersists
  <1>2. ASSUME NEW x \in {t, u}, CommitLock(x)
        PROVE  FALSE
    <2>1. \A y \in {t, u} : y # x => pc'[y] = pc[y]
      BY <1>0, <1>2 DEF CommitLock
    <2>2. \A y \in {t, u} : pc[y] \notin LockedAt
      BY <1>1, <1>2 DEF CommitLock, MutexFree
    <2> QED
      BY <2>1, <2>2
  <1>3. pc[t] \in LockedAt /\ pc[u] \in LockedAt
    BY <1>2, LockedPersists DEF DedupMiss, CandidateValid, CommitTx, LockedAt
  <1> QED
    BY <1>1, <1>3 DEF MutexInv

-----------------------------------------------------------------------------
(* Activations *)

Replaying == {"list", "replay", "ready", "install"}

\* An activation at q with locals a, when the store has checkpoints S and next
\* seq n: if its head is still the head it holds the prefix it has replayed,
\* and the rest of its page goes on without a gap.
ActivationOK(q, a, S, n) ==
  /\ a.head < n /\ a.cursor <= a.head
  /\ q \in Replaying /\ a.head = n - 1 =>
       /\ a.doc = 1..a.cursor
       /\ \A d \in S : d.seq <= a.cursor \/ d.seq = a.head
       /\ q = "replay" => \A e \in a.batch : /\ e > a.cursor
                                             /\ \A r \in (a.cursor + 1)..e : r \in a.batch

ActivationsInv == \A t \in Tasks : ActivationOK(pc[t], act[t], snapshots, nextSeq)

\* The history grows by one event, or a checkpoint appears at its end.
LEMMA StoreGrows ==
  ASSUME TypeInv, HistoryInv, [Next]_vars
  PROVE  \/ nextSeq' = nextSeq + 1 /\ snapshots' = snapshots
         \/ nextSeq' = nextSeq /\ \A d \in snapshots' : d \in snapshots \/ d.seq = nextSeq - 1
  <1>1. ASSUME NEW c \in Compactors, Publish(c)
        PROVE  nextSeq' = nextSeq /\ \A d \in snapshots' : d \in snapshots \/ d.seq = nextSeq - 1
    BY <1>1 DEF Publish, HeadUnchanged, RevisionFence, HistoryInv, HeadAtLogEnd
  <1>2. ASSUME NEW t \in Tasks, CommitTx(t) \/ CommitTxLostAnswer(t)
        PROVE  nextSeq' = nextSeq + 1 /\ snapshots' = snapshots
    BY <1>2 DEF CommitTx, CommitTxLostAnswer, CommitPair
  <1>3. CASE UNCHANGED <<nextSeq, snapshots>>
    BY <1>3
  <1> QED
    BY <1>1, <1>2, <1>3, StoreWrites
    DEF storeVars, ActivateBegin, ActivateReady, PruneBatch, Age

\* What the other processes do to the store does not hurt an activation.
LEMMA ActivationFrame ==
  ASSUME TypeInv, HistoryInv, [Next]_vars, NEW u \in Tasks,
         ActivationOK(pc'[u], act'[u], snapshots, nextSeq)
  PROVE  ActivationOK(pc'[u], act'[u], snapshots', nextSeq')
  <1>0. nextSeq \in Nat /\ act'[u].head \in Nat
    BY TypeStep DEF TypeInv, TypeOK, StoreTypeOK, RegistryTypeOK, Activation
  <1>1. CASE nextSeq' = nextSeq + 1
    BY <1>0, <1>1 DEF ActivationOK
  <1>2. CASE nextSeq' = nextSeq /\ \A d \in snapshots' : d \in snapshots \/ d.seq = nextSeq - 1
    BY <1>0, <1>2 DEF ActivationOK
  <1> QED
    BY <1>1, <1>2, StoreGrows

\* Replaying the next event of a gap-free page extends the prefix by one.
LEMMA ReplayPrefix ==
  ASSUME TypeInv, NEW u \in Tasks, ReplayEvent(u), act[u].doc = 1..act[u].cursor,
         \A e \in act[u].batch : /\ e > act[u].cursor
                                 /\ \A r \in (act[u].cursor + 1)..e : r \in act[u].batch
  PROVE  /\ act'[u].cursor = act[u].cursor + 1
         /\ act'[u].doc = 1..act'[u].cursor
         /\ \A e \in act'[u].batch : /\ e > act'[u].cursor
                                      /\ \A r \in (act'[u].cursor + 1)..e : r \in act'[u].batch
  <1>0. /\ act \in [Tasks -> Activation] /\ act[u] \in Activation
        /\ act[u].cursor \in Nat /\ act[u].batch \subseteq Nat
    BY DEF TypeInv, TypeOK, RegistryTypeOK, Activation
  <1>1. PICK ev \in act[u].batch :
          /\ IsNextEvent(u, ev)
          /\ act' = [act EXCEPT ![u] = [@ EXCEPT !.doc = act[u].doc \cup {ev}, !.cursor = ev,
                                                 !.batch = act[u].batch \ {ev}]]
    BY DEF ReplayEvent
  <1>2. /\ act'[u].cursor = ev
        /\ act'[u].doc = act[u].doc \cup {ev} /\ act'[u].batch = act[u].batch \ {ev}
    BY <1>0, <1>1 DEF Activation
  <1>3. ev \in Nat /\ \A e \in act[u].batch : ev <= e
    BY <1>0, <1>1 DEF IsNextEvent
  <1>4. ev = act[u].cursor + 1
    <2>1. ev > act[u].cursor /\ act[u].cursor + 1 \in (act[u].cursor + 1)..ev
      BY <1>0, <1>3
    <2>2. act[u].cursor + 1 \in act[u].batch
      BY <2>1
    <2> QED
      BY <1>0, <1>3, <2>1, <2>2
  <1>5. act'[u].doc = 1..ev
    BY <1>0, <1>2, <1>4
  <1>6. ASSUME NEW e \in act'[u].batch
        PROVE  e > ev /\ \A r \in (ev + 1)..e : r \in act'[u].batch
    <2>1. e \in act[u].batch /\ e # ev /\ e \in Nat
      BY <1>0, <1>2
    <2>2. e > ev
      BY <1>3, <2>1
    <2>3. \A r \in (ev + 1)..e : r \in (act[u].cursor + 1)..e /\ r # ev
      BY <1>0, <1>3, <1>4, <2>1
    <2> QED
      BY <1>2, <2>1, <2>2, <2>3
  <1>7. act'[u].cursor = act[u].cursor + 1
    BY <1>2, <1>4
  <1>8. act'[u].doc = 1..act'[u].cursor
    BY <1>2, <1>5, Zenon
  <1>9. \A e \in act'[u].batch :
          /\ e > act'[u].cursor
          /\ \A r \in (act'[u].cursor + 1)..e : r \in act'[u].batch
    BY <1>2, <1>6, Zenon
  <1> QED
    BY <1>7, <1>8, <1>9, Zenon

\* ... so an activation of the current head stays sound.
LEMMA ReplayExtends ==
  ASSUME TypeInv, NEW u \in Tasks, ReplayEvent(u),
         ActivationOK(pc[u], act[u], snapshots, nextSeq)
  PROVE  ActivationOK(pc'[u], act'[u], snapshots, nextSeq)
  <1>0. /\ act \in [Tasks -> Activation] /\ act[u] \in Activation
        /\ act[u].head \in Nat /\ act[u].cursor \in Nat
        /\ \A d \in snapshots : d.seq \in Nat
    BY DEF TypeInv, TypeOK, StoreTypeOK, RegistryTypeOK, Activation, Checkpoint
  <1>1. PICK ev \in act[u].batch :
          /\ ev <= act[u].head
          /\ act' = [act EXCEPT ![u] = [@ EXCEPT !.doc = act[u].doc \cup {ev}, !.cursor = ev,
                                                 !.batch = act[u].batch \ {ev}]]
    BY DEF ReplayEvent
  <1>2. act'[u].head = act[u].head /\ act'[u].cursor = ev
    BY <1>0, <1>1 DEF Activation
  <1>3. pc[u] = "replay"
    BY DEF ReplayEvent
  <1>4. ASSUME act[u].head = nextSeq - 1
        PROVE  /\ act'[u].doc = 1..act'[u].cursor
               /\ \A d \in snapshots : d.seq <= act'[u].cursor \/ d.seq = act[u].head
               /\ \A e \in act'[u].batch :
                    /\ e > act'[u].cursor
                    /\ \A r \in (act'[u].cursor + 1)..e : r \in act'[u].batch
    <2>1. /\ act[u].doc = 1..act[u].cursor
          /\ \A d \in snapshots : d.seq <= act[u].cursor \/ d.seq = act[u].head
          /\ \A e \in act[u].batch : /\ e > act[u].cursor
                                     /\ \A r \in (act[u].cursor + 1)..e : r \in act[u].batch
      BY <1>3, <1>4 DEF ActivationOK, Replaying
    <2>2. /\ act'[u].cursor = act[u].cursor + 1
          /\ act'[u].doc = 1..act'[u].cursor
          /\ \A e \in act'[u].batch :
               /\ e > act'[u].cursor
               /\ \A r \in (act'[u].cursor + 1)..e : r \in act'[u].batch
      BY <2>1, ReplayPrefix
    <2>3. \A d \in snapshots : d.seq <= act'[u].cursor \/ d.seq = act[u].head
      BY <1>0, <2>1, <2>2
    <2> QED
      BY <2>2, <2>3
  <1>5. act'[u].head < nextSeq /\ act'[u].cursor <= act'[u].head
    BY <1>1, <1>2 DEF ActivationOK
  <1> QED
    BY <1>2, <1>4, <1>5 DEF ActivationOK

\* A page of events read by an activation of the current head has no gap.
LEMMA ListExtends ==
  ASSUME TypeInv, HistoryInv, CheckpointInv, NEW u \in Tasks, ListEvents(u),
         ActivationOK(pc[u], act[u], snapshots, nextSeq)
  PROVE  ActivationOK(pc'[u], act'[u], snapshots, nextSeq)
  <1>0. /\ nextSeq \in Nat /\ pc \in [Tasks -> Locations] /\ act \in [Tasks -> Activation]
        /\ act[u] \in Activation /\ act[u].head \in Nat /\ act[u].cursor \in Nat
        /\ events \subseteq Nat /\ events \subseteq 1..(nextSeq - 1)
    BY DEF TypeInv, TypeOK, StoreTypeOK, RegistryTypeOK, Activation, HistoryInv
  <1>1. PICK page \in SUBSET events :
          /\ IsPage(page, events, act[u].cursor, PageSize)
          /\ act' = [act EXCEPT ![u] = [@ EXCEPT !.batch = page]]
    BY DEF ListEvents
  <1>2. /\ act'[u].head = act[u].head /\ act'[u].cursor = act[u].cursor
        /\ act'[u].doc = act[u].doc /\ act'[u].batch = page
    BY <1>0, <1>1 DEF Activation
  <1>3. pc[u] = "list"
    BY DEF ListEvents
  <1>4. ASSUME act[u].head = nextSeq - 1
        PROVE  \A e \in page : /\ e > act[u].cursor
                               /\ \A r \in (act[u].cursor + 1)..e : r \in page
    <2>1. NothingBetween(act[u].cursor, nextSeq - 1)
      BY <1>3, <1>4 DEF ActivationOK, Replaying, NothingBetween
    <2>2. GapFree(events, act[u].cursor, nextSeq - 1)
      <3>1. ASSUME NEW s \in Nat, act[u].cursor < s, s <= nextSeq - 1
            PROVE  s \in events
        BY <1>0, <2>1, <3>1, TailStored
      <3>2. \A s \in events : s <= nextSeq - 1
        BY <1>0
      <3> QED
        BY <1>0, <3>1, <3>2 DEF GapFree
    <2>3. nextSeq - 1 \in Nat /\ PageSize \in Nat
      BY <1>0, <1>4, RegistryAssumption
    <2>4. ExtendsPrefix(page, act[u].cursor, nextSeq - 1, PageSize)
      BY <1>0, <1>1, <2>2, <2>3, PageExtends
    <2> QED
      BY <1>0, <2>4 DEF ExtendsPrefix
  <1> QED
    BY <1>2, <1>3, <1>4 DEF ActivationOK, Replaying

\* Activations stay sound under their own steps and everybody else's.
LEMMA ActivationsStep ==
  TypeInv /\ HistoryInv /\ CheckpointInv /\ ActivationsInv /\ [Next]_vars => ActivationsInv'
  <1> SUFFICES ASSUME TypeInv, HistoryInv, CheckpointInv, ActivationsInv, [Next]_vars,
                      NEW u \in Tasks
               PROVE  ActivationOK(pc'[u], act'[u], snapshots', nextSeq')
    BY DEF ActivationsInv
  <1>0. /\ nextSeq \in Nat \ {0} /\ head.processed \in Nat
        /\ pc \in [Tasks -> Locations] /\ act \in [Tasks -> Activation]
        /\ act[u] \in Activation /\ act[u].head \in Nat
        /\ ActivationOK(pc[u], act[u], snapshots, nextSeq)
    BY DEF TypeInv, TypeOK, StoreTypeOK, HeadRow, RegistryTypeOK, Activation, ActivationsInv
  <1>1. SUFFICES ActivationOK(pc'[u], act'[u], snapshots, nextSeq)
    BY ActivationFrame
  <1>2. CASE Same(u)
    BY <1>0, <1>2 DEF Same
  <1>3. CASE act'[u] = NoActivation /\ pc'[u] \notin Replaying
    <2>1. act'[u].head = 0 /\ act'[u].cursor = 0
      BY <1>3 DEF NoActivation
    <2> QED
      BY <1>0, <1>3, <2>1 DEF ActivationOK
  <1>4. CASE act'[u] = act[u] /\ pc'[u] \notin Replaying
    BY <1>0, <1>4 DEF ActivationOK
  <1>5. CASE OwnStep(u)
    <2>1. CASE Submit(u) \/ SubmitRead(u) \/ Deliver(u) \/ Cancel(u)
      BY <1>0, <1>3, <1>4, <2>1 DEF Submit, SubmitRead, Deliver, Cancel, Replaying
    <2>2. CASE \/ EnsureHit(u) \/ EnsureMiss(u) \/ GateHit(u) \/ GateEnter(u)
               \/ CommitLock(u) \/ DedupMiss(u) \/ CandidateValid(u) \/ CommitTx(u)
               \/ CommitTxStale(u) \/ EvictAndRetry(u)
      BY <1>0, <1>4, <2>2
      DEF EnsureHit, EnsureMiss, GateHit, GateEnter, UseResident, CommitLock, DedupMiss,
          CandidateValid,
          CommitTx, CommitTxStale, EvictAndRetry, Replaying
    <2>3. CASE ReplayDone(u) \/ ActivateReady(u)
      BY <1>0, <2>3 DEF ReplayDone, ActivateReady, ActivationOK, Replaying
    <2>4. CASE ReplayPastHead(u)
      <3>1. /\ pc[u] = "replay" /\ pc'[u] = "ready"
            /\ act'[u].head = act[u].head /\ act'[u].cursor = act[u].cursor
            /\ act'[u].doc = act[u].doc
        BY <1>0, <2>4 DEF ReplayPastHead, Activation
      <3> QED
        BY <1>0, <3>1 DEF ActivationOK, Replaying
    <2>5. CASE ActivateReuse(u)
      <3>1. /\ pc'[u] = "pick" /\ act'[u].head = head.processed /\ act'[u].cursor = 0
            /\ head.state = "ready"
        BY <1>0, <2>5 DEF ActivateReuse, NoActivation
      <3>2. head.processed < nextSeq
        BY <1>0, <3>1 DEF HistoryInv, HeadAtLogEnd
      <3> QED
        BY <1>0, <3>1, <3>2 DEF ActivationOK, Replaying
    <2>6. CASE ActivateBegin(u)
      <3>1. PICK m \in 0..MaxSeq :
              /\ IsEventsHead(m)
              /\ act' = [act EXCEPT ![u] = [NoActivation EXCEPT !.epoch = head'.epoch,
                                                                !.head = m]]
        BY <2>6 DEF ActivateBegin
      <3>2. pc'[u] = "pick" /\ act'[u].head = m /\ act'[u].cursor = 0
        BY <1>0, <2>6, <3>1 DEF ActivateBegin, NoActivation
      <3>3. m \in Nat /\ m < nextSeq
        BY <1>0, <3>1, StoreAssumption DEF IsEventsHead, HistoryInv
      <3> QED
        BY <1>0, <3>2, <3>3 DEF ActivationOK, Replaying
    <2>7. CASE PickBase(u)
      <3>1. PICK b \in snapshots \cup {[seq |-> 0, doc |-> {}]} :
              /\ IsBase(b, act[u].head)
              /\ act' = [act EXCEPT ![u] = [@ EXCEPT !.doc = b.doc, !.cursor = b.seq]]
        BY <2>7 DEF PickBase
      <3>2. act[u].head < nextSeq
        BY <1>0 DEF ActivationOK
      <3>3. /\ b.seq <= act[u].head /\ b.doc = 1..b.seq
            /\ act[u].head = nextSeq - 1 => NothingBetween(b.seq, act[u].head)
        BY <1>0, <3>1, <3>2, BaseComplete
      <3>4. /\ pc'[u] = "list" /\ act'[u].head = act[u].head
            /\ act'[u].doc = b.doc /\ act'[u].cursor = b.seq
        BY <1>0, <2>7, <3>1 DEF PickBase, Activation
      <3> QED
        BY <3>2, <3>3, <3>4 DEF ActivationOK, NothingBetween
    <2>8. CASE ListEvents(u)
      BY <1>0, <2>8, ListExtends
    <2>9. CASE ReplayEvent(u)
      BY <1>0, <2>9, ReplayExtends
    <2>10. CASE Install(u)
      BY <1>0, <1>3, <2>10 DEF Install, Replaying
    <2>11. CASE \/ ReplayGap(u) \/ ActivateSuperseded(u) \/ ActivateDbError(u) \/ ReadState(u)
                \/ DedupHit(u) \/ RejectEnvelope(u) \/ RejectObserved(u) \/ RejectCandidate(u)
                \/ CommitTxLostAnswer(u) \/ CommitTxDuplicate(u) \/ CommitDbError(u)
                \/ EvictAndGiveUp(u) \/ ApplyCommitted(u) \/ ApplyFailed(u)
      <3>1. PICK result : Finish(u, result)
        BY <2>11 DEF ReplayGap, ActivateSuperseded, ActivateDbError, ActivateFail, ReadState,
          DedupHit, RejectEnvelope, RejectObserved, RejectCandidate, CommitTxLostAnswer,
          CommitTxDuplicate,
          CommitDbError, CommitReply, EvictAndGiveUp, ApplyCommitted, ApplyFailed
      <3> QED
        BY <1>0, <1>3, <3>1 DEF Finish, Replaying
    <2> QED
      BY <1>5, <2>1, <2>2, <2>3, <2>4, <2>5, <2>6, <2>7, <2>8, <2>9, <2>10, <2>11
      DEF OwnStep, TaskStep, ActivationStep, CommitStep
  <1> QED
    BY <1>2, <1>3, <1>5, OthersStay DEF Replaying

-----------------------------------------------------------------------------
(* Residents *)

\* A resident is at most at the end of the history n, and complete if there.
ResidentOK(r, n) ==
  /\ r.processed < n
  /\ r.processed = n - 1 => r.doc = 1..(n - 1)

\* The resident a commit applies its event to is complete up to that event.
ApplyOK(r, seq, n) ==
  /\ seq \in 1..(n - 1)
  /\ r.processed = seq - 1
  /\ r.doc = 1..(seq - 1)

ResidentsInv ==
  /\ \A i \in Instances, a \in Slots : ResidentOK(arcs[i][a], nextSeq)
  /\ \A t \in Tasks : pc[t] = "apply" => ApplyOK(MyResident(t), out[t].seq, nextSeq)

\* The steps that write a resident; any other at most drops unreferenced ones.
LEMMA ArcWrites ==
  ASSUME TypeInv, [Next]_vars
  PROVE  \/ arcs' = arcs
         \/ DropUnreferenced(arcs)
         \/ \E t \in Tasks : Install(t) \/ ApplyCommitted(t) \/ ApplyFailed(t)
  <1>1. CASE UNCHANGED registryVars
    BY <1>1 DEF registryVars
  <1>2. ASSUME NEW i \in Instances, Crash(i)
        PROVE  DropUnreferenced(arcs)
    BY <1>2 DEF Crash
  <1>3. ASSUME NEW t \in Tasks, Submit(t) \/ SubmitRead(t) \/ Deliver(t) \/ Cancel(t)
        PROVE  arcs' = arcs \/ DropUnreferenced(arcs)
    BY <1>3 DEF Submit, SubmitRead, Deliver, Cancel
  <1>4. ASSUME NEW t \in Tasks, ActivationStep(t)
        PROVE  arcs' = arcs \/ Install(t)
    BY <1>4
    DEF ActivationStep, EnsureHit, EnsureMiss, GateHit, GateEnter, UseResident,
        ActivateReuse, ActivateBegin, PickBase, ListEvents, ReplayDone, ReplayEvent,
        ReplayPastHead, ReplayGap, ActivateReady, ActivateSuperseded, ActivateFail,
        ActivateDbError
  <1>5. ASSUME NEW t \in Tasks, CommitStep(t) \/ ReadState(t)
        PROVE  \/ arcs' = arcs \/ DropUnreferenced(arcs)
               \/ ApplyCommitted(t) \/ ApplyFailed(t)
    BY <1>5
    DEF CommitStep, CommitLock, DedupHit, RejectEnvelope, RejectObserved, RejectCandidate,
        DedupMiss, CandidateValid,
        CommitTx, CommitTxLostAnswer, CommitTxDuplicate, CommitTxStale, EvictAndRetry,
        EvictAndGiveUp, CommitDbError, CommitReply, ReadState
  <1>6. CASE RegistryNext
    BY <1>6, <1>2, <1>3, <1>4, <1>5 DEF RegistryNext, TaskStep
  <1> QED
    BY <1>1, <1>6 DEF Next, Age, vars

\* What dropping the unreferenced residents leaves.
LEMMA DropValue ==
  ASSUME NEW f, DropUnreferenced(f), NEW i \in Instances, NEW a \in Slots
  PROVE  /\ arcs'[i][a] \in {f[i][a], FreeArc}
         /\ Referenced(i, a)' => arcs'[i][a] = f[i][a]
  BY DEF DropUnreferenced

\* A handler that stays put keeps its resident alive.
LEMMA KeepsReference ==
  ASSUME TypeInv, NEW u \in Tasks, Same(u), pc[u] = "apply"
  PROVE  \E i \in Instances, a \in Slots :
           /\ inst[u] = i /\ held[u] = a
           /\ Referenced(i, a) /\ Referenced(i, a)'
           /\ MyResident(u) = arcs[i][a] /\ MyResident(u)' = arcs'[i][a]
  <1>1. PICK i \in Instances, a \in Slots : inst[u] = i /\ held[u] = a
    BY DEF TypeInv, Placed, LockedAt
  <1>2. inst'[u] = i /\ held'[u] = a
    BY <1>1 DEF Same
  <1>3. Referenced(i, a) /\ Referenced(i, a)'
    BY <1>1, <1>2 DEF Referenced
  <1>4. MyResident(u) = arcs[i][a] /\ MyResident(u)' = arcs'[i][a]
    BY <1>1, <1>2 DEF MyResident
  <1> QED
    BY <1>1, <1>3, <1>4

\* A freed slot looks like a resident of an empty board.
LEMMA FreeOK ==
  ASSUME NEW n \in Nat \ {0}
  PROVE  ResidentOK(FreeArc, n)
  BY DEF ResidentOK, FreeArc

\* Writing one resident.
LEMMA WriteResident ==
  ASSUME TypeInv, ResidentsInv, NEW j \in Instances, NEW b \in Slots, NEW r,
         DropUnreferenced([arcs EXCEPT ![j][b] = r]), ResidentOK(r, nextSeq)
  PROVE  /\ \A i \in Instances, a \in Slots : ResidentOK(arcs'[i][a], nextSeq)
         /\ \A i \in Instances, a \in Slots :
              <<i, a>> # <<j, b>> /\ Referenced(i, a)' => arcs'[i][a] = arcs[i][a]
  <1>0. nextSeq \in Nat \ {0} /\ arcs \in [Instances -> [Slots -> Resident]]
    BY DEF TypeInv, TypeOK, StoreTypeOK, RegistryTypeOK
  <1> DEFINE f == [arcs EXCEPT ![j][b] = r]
  <1>1. \A i \in Instances, a \in Slots :
          f[i][a] = IF <<i, a>> = <<j, b>> THEN r ELSE arcs[i][a]
    BY <1>0
  <1>2. DropUnreferenced(f)
    OBVIOUS
  <1> HIDE DEF f
  <1>3. ASSUME NEW i \in Instances, NEW a \in Slots
        PROVE  /\ arcs'[i][a] \in {f[i][a], FreeArc}
               /\ Referenced(i, a)' => arcs'[i][a] = f[i][a]
    BY <1>2, DropValue
  <1> QED
    BY <1>0, <1>1, <1>3, FreeOK DEF ResidentsInv

\* Residents stay sound: commits leave all but their own behind the head, and
\* a new or updated one is as complete as the history it claims.
LEMMA ResidentsStep ==
  /\ TypeInv /\ HistoryInv /\ ActivationsInv /\ MutexInv /\ ResidentsInv
  /\ [Next]_vars
  => ResidentsInv'
  <1> SUFFICES ASSUME TypeInv, HistoryInv, ActivationsInv, MutexInv, ResidentsInv, [Next]_vars
               PROVE  ResidentsInv'
    OBVIOUS
  <1>0. /\ nextSeq \in Nat \ {0} /\ TypeInv'
        /\ arcs \in [Instances -> [Slots -> Resident]] /\ pc \in [Tasks -> Locations]
        /\ out \in [Tasks -> Result] /\ act \in [Tasks -> Activation]
        /\ \A i \in Instances, a \in Slots : arcs[i][a].processed \in Nat
    BY TypeStep DEF TypeInv, TypeOK, StoreTypeOK, RegistryTypeOK, Resident
  <1>1. ASSUME NEW u \in Tasks, pc'[u] = "apply"
        PROVE  CommitTx(u) \/ (Same(u) /\ pc[u] = "apply")
    <2>1. pc'[u] \in LockedAt
      BY <1>1 DEF LockedAt
    <2>2. ~CommitLock(u) /\ ~DedupMiss(u) /\ ~CandidateValid(u)
      BY <1>0, <1>1 DEF CommitLock, DedupMiss, CandidateValid
    <2> QED
      BY <1>1, <2>1, <2>2, LockedPersists DEF Same
  <1>2. CASE arcs' = arcs \/ DropUnreferenced(arcs)
    <2>1. ASSUME NEW i \in Instances, NEW a \in Slots
          PROVE  /\ arcs'[i][a] \in {arcs[i][a], FreeArc}
                 /\ Referenced(i, a)' => arcs'[i][a] = arcs[i][a]
      BY <1>2, DropValue
    <2>2. ASSUME NEW i \in Instances, NEW a \in Slots
          PROVE  ResidentOK(arcs'[i][a], nextSeq')
      <3>1. ResidentOK(arcs'[i][a], nextSeq)
        BY <1>0, <2>1, FreeOK DEF ResidentsInv
      <3>2. arcs'[i][a].processed \in Nat
        BY <1>0, <2>1 DEF FreeArc
      <3> QED
        BY <1>0, <3>1, <3>2, StoreGrows DEF ResidentOK
    <2>3. ASSUME NEW u \in Tasks, CommitTx(u)
          PROVE  ApplyOK(MyResident(u)', out'[u].seq, nextSeq')
      <3>1. /\ arcs' = arcs /\ inst' = inst /\ held' = held /\ nextSeq' = nextSeq + 1
            /\ out'[u].seq = nextSeq /\ pc[u] = "tx" /\ Fenced(u)
        BY <1>0, <2>3 DEF CommitTx, CommitPair
      <3>2. inst[u] \in Instances /\ held[u] \in Slots
        BY <3>1 DEF TypeInv, Placed, LockedAt
      <3>3. MyResident(u).processed = nextSeq - 1
        BY <3>1 DEF Fenced, RevisionFence, HistoryInv, HeadAtLogEnd
      <3>4. MyResident(u).doc = 1..(nextSeq - 1)
        BY <3>2, <3>3 DEF MyResident, ResidentsInv, ResidentOK
      <3>5. MyResident(u)' = MyResident(u)
        BY <3>1 DEF MyResident
      <3> QED
        BY <1>0, <3>1, <3>3, <3>4, <3>5 DEF ApplyOK
    <2>4. ASSUME NEW u \in Tasks, Same(u), pc[u] = "apply"
          PROVE  ApplyOK(MyResident(u)', out'[u].seq, nextSeq')
      <3>1. MyResident(u)' = MyResident(u)
        BY <2>1, <2>4, KeepsReference
      <3>2. ApplyOK(MyResident(u), out[u].seq, nextSeq) /\ out'[u] = out[u]
        BY <2>4 DEF ResidentsInv, Same
      <3> QED
        BY <1>0, <3>1, <3>2, StoreGrows DEF ApplyOK
    <2> QED
      BY <1>1, <2>2, <2>3, <2>4 DEF ResidentsInv
  <1>3. ASSUME NEW t \in Tasks, NEW j \in Instances, NEW b \in Slots, NEW r,
               DropUnreferenced([arcs EXCEPT ![j][b] = r]), ResidentOK(r, nextSeq),
               nextSeq' = nextSeq,
               \A u \in Tasks : Same(u) /\ pc[u] = "apply" => <<inst[u], held[u]>> # <<j, b>>
        PROVE  ResidentsInv'
    <2>1. /\ \A i \in Instances, a \in Slots : ResidentOK(arcs'[i][a], nextSeq)
          /\ \A i \in Instances, a \in Slots :
               <<i, a>> # <<j, b>> /\ Referenced(i, a)' => arcs'[i][a] = arcs[i][a]
      BY <1>3, WriteResident
    <2>2. ASSUME NEW u \in Tasks, pc'[u] = "apply"
          PROVE  ApplyOK(MyResident(u)', out'[u].seq, nextSeq')
      <3>1. Same(u) /\ pc[u] = "apply"
        BY <1>0, <1>1, <1>3, <2>2 DEF CommitTx, CommitPair
      <3>2. MyResident(u)' = MyResident(u)
        BY <1>3, <2>1, <3>1, KeepsReference
      <3> QED
        BY <1>3, <3>1, <3>2 DEF ResidentsInv, Same
    <2> QED
      BY <1>3, <2>1, <2>2 DEF ResidentsInv
  <1>4. ASSUME NEW t \in Tasks, Install(t)
        PROVE  ResidentsInv'
    <2> DEFINE b == CHOOSE x \in Slots : ~Referenced(inst[t], x)
               r == [doc |-> act[t].doc, processed |-> act[t].cursor, epoch |-> act[t].epoch]
    <2>1. /\ b \in Slots /\ ~Referenced(inst[t], b) /\ inst[t] \in Instances
          /\ nextSeq' = nextSeq /\ pc[t] \in Replaying
          /\ DropUnreferenced([arcs EXCEPT ![inst[t]][b] = r])
      <3>1. b \in Slots /\ ~Referenced(inst[t], b)
        BY <1>4 DEF Install
      <3>2. inst[t] \in Instances /\ pc[t] \in Replaying
        BY <1>4 DEF Install, TypeInv, Placed, Replaying
      <3>3. nextSeq' = nextSeq /\ DropUnreferenced([arcs EXCEPT ![inst[t]][b] = r])
        BY <1>4 DEF Install, storeVars
      <3> QED
        BY <3>1, <3>2, <3>3
    <2>2. ResidentOK(r, nextSeq)
      <3>1. /\ act[t].head \in Nat /\ act[t].cursor \in Nat
            /\ ActivationOK(pc[t], act[t], snapshots, nextSeq)
        BY <1>0 DEF Activation, ActivationsInv
      <3> QED
        BY <1>0, <2>1, <3>1 DEF ResidentOK, ActivationOK
    <2> HIDE DEF b, r
    <2>3. \A u \in Tasks : Same(u) /\ pc[u] = "apply" => <<inst[u], held[u]>> # <<inst[t], b>>
      BY <2>1, KeepsReference
    <2> QED
      BY <1>3, <2>1, <2>2, <2>3
  <1>5. ASSUME NEW t \in Tasks, ApplyCommitted(t) \/ ApplyFailed(t)
        PROVE  ResidentsInv'
    <2>0. /\ pc[t] = "apply" /\ nextSeq' = nextSeq /\ pc' = [pc EXCEPT ![t] = "done"]
      BY <1>5 DEF ApplyCommitted, ApplyFailed, Finish, storeVars
    <2>1. /\ inst[t] \in Instances /\ held[t] \in Slots
          /\ MyResident(t) \in Resident /\ out[t].seq \in Nat
          /\ ApplyOK(MyResident(t), out[t].seq, nextSeq)
      BY <1>0, <2>0 DEF TypeInv, Placed, LockedAt, MyResident, ResidentsInv, Result
    <2>2. \A u \in Tasks : Same(u) /\ pc[u] = "apply" =>
            <<inst[u], held[u]>> # <<inst[t], held[t]>>
      <3> SUFFICES ASSUME NEW u \in Tasks, Same(u), pc[u] = "apply",
                          inst[u] = inst[t], held[u] = held[t]
                   PROVE  FALSE
        OBVIOUS
      <3>1. u # t
        BY <1>0, <2>0 DEF Same
      <3> QED
        BY <2>0, <3>1 DEF MutexInv, LockedAt
    <2>3. ASSUME NEW r, DropUnreferenced([arcs EXCEPT ![inst[t]][held[t]] = r]),
                 ResidentOK(r, nextSeq)
          PROVE  ResidentsInv'
      BY <1>3, <2>0, <2>1, <2>2, <2>3
    <2>4. CASE ApplyCommitted(t)
      <3> DEFINE r == [MyResident(t) EXCEPT !.doc = MyResident(t).doc \cup {out[t].seq},
                                            !.processed = out[t].seq]
      <3>1. DropUnreferenced([arcs EXCEPT ![inst[t]][held[t]] = r])
        BY <2>4 DEF ApplyCommitted, MyResident
      <3>2. r.processed = out[t].seq /\ r.doc = MyResident(t).doc \cup {out[t].seq}
        BY <2>1 DEF Resident
      <3> HIDE DEF r
      <3>3. r.doc = 1..out[t].seq
        BY <1>0, <2>1, <3>2 DEF ApplyOK
      <3>4. ResidentOK(r, nextSeq)
        BY <1>0, <2>1, <3>2, <3>3 DEF ApplyOK, ResidentOK
      <3> QED
        BY <2>3, <3>1, <3>4
    <2>5. CASE ApplyFailed(t)
      <3>1. PICK d \in {{}, {out[t].seq}} :
              DropUnreferenced([arcs EXCEPT ![inst[t]][held[t]] =
                [MyResident(t) EXCEPT !.doc = MyResident(t).doc \cup d]])
        BY <2>5 DEF ApplyFailed, MyResident
      <3> DEFINE r == [MyResident(t) EXCEPT !.doc = MyResident(t).doc \cup d]
      <3>2. DropUnreferenced([arcs EXCEPT ![inst[t]][held[t]] = r])
        BY <3>1
      <3>3. r.processed = MyResident(t).processed
        BY <2>1 DEF Resident
      <3> HIDE DEF r
      <3>4. ResidentOK(r, nextSeq)
        BY <1>0, <2>1, <3>3 DEF ApplyOK, ResidentOK
      <3> QED
        BY <2>3, <3>2, <3>4
    <2> QED
      BY <1>5, <2>4, <2>5
  <1> QED
    BY <1>2, <1>4, <1>5, ArcWrites

-----------------------------------------------------------------------------
\* The inductive invariant of the canonical board.
BoardInv ==
  /\ TypeInv /\ HistoryInv /\ KeysInv /\ CheckpointInv
  /\ MutexInv /\ ActivationsInv /\ ResidentsInv

\* It holds of every reachable state.
LEMMA BoardInvariance == Spec => []BoardInv
  <1>1. Init => BoardInv
    <2> SUFFICES ASSUME Init PROVE BoardInv
      OBVIOUS
    <2>1. MutexInv
      BY DEF Init, RegistryInit, MutexInv, LockedAt
    <2>2. ActivationsInv
      <3>1. \A t \in Tasks : pc[t] = "idle" /\ act[t] = NoActivation
        BY DEF Init, RegistryInit
      <3> QED
        BY <3>1 DEF Init, StoreInit, ActivationsInv, ActivationOK, Replaying, NoActivation
    <2>3. ResidentsInv
      <3>1. /\ nextSeq = 1 /\ \A t \in Tasks : pc[t] = "idle"
            /\ \A i \in Instances, a \in Slots : arcs[i][a] = FreeArc
        BY DEF Init, StoreInit, RegistryInit
      <3> QED
        BY <3>1, FreeOK DEF ResidentsInv
    <2> QED
      BY <2>1, <2>2, <2>3, TypeInit, HistoryInit, CheckpointInit DEF BoardInv
  <1>2. BoardInv /\ [Next]_vars => BoardInv'
    BY TypeStep, HistoryStep, KeysStep, CheckpointStep, MutexStep, ActivationsStep,
       ResidentsStep DEF BoardInv
  <1> QED
    BY <1>1, <1>2, PTL DEF Spec

\* Every checkpoint, on which later activations and prunings rest, is the
\* document of the whole history up to its seq.
THEOREM CheckpointsAreComplete == Spec => []CheckpointsComplete
  <1>1. BoardInv => CheckpointsComplete
    BY DEF BoardInv, CheckpointInv
  <1> QED
    BY <1>1, BoardInvariance, PTL

\* Retention leaves every event and its journal row until two checkpoints
\* cover them.
THEOREM RetentionKeepsRecovery == Spec => []RecoveryTailRetained
  <1>1. BoardInv => RecoveryTailRetained
    BY DEF BoardInv, CheckpointInv
  <1> QED
    BY <1>1, BoardInvariance, PTL

\* A resident that could win advance_processed_seq, on whatever instance and
\* however it was built, has folded in the whole history: the epoch and seq
\* comparison is enough to keep instances that share no memory consistent.
THEOREM FenceIsSufficient == Spec => []FencedResidentComplete
  <1>1. BoardInv => FencedResidentComplete
    <2> SUFFICES ASSUME BoardInv, NEW i \in Instances, NEW a \in Slots,
                        RevisionFence(arcs[i][a].epoch, arcs[i][a].processed)
                 PROVE  arcs[i][a].doc = 1..(nextSeq - 1)
      BY DEF FencedResidentComplete
    <2>1. arcs[i][a].processed = nextSeq - 1
      BY DEF RevisionFence, BoardInv, HistoryInv, HeadAtLogEnd
    <2> QED
      BY <2>1 DEF BoardInv, ResidentsInv, ResidentOK
  <1> QED
    BY <1>1, BoardInvariance, PTL

-----------------------------------------------------------------------------
(* Read models *)

\* Before the first commit the head may be set to any state, so the read
\* models follow the log, whatever the state of the head.
ModelsInv ==
  /\ nextSeq > 1 => assetSeq = nextSeq - 1
  /\ \A s \in DOMAIN rows : rows[s].body \in ConfigBodies => s <= configSeq

\* Only the commit transaction touches the log, and it writes both models.
LEMMA ModelsStep == TypeInv /\ HistoryInv /\ ModelsInv /\ [Next]_vars => ModelsInv'
  <1> SUFFICES ASSUME TypeInv, HistoryInv, ModelsInv, [Next]_vars
               PROVE  ModelsInv'
    OBVIOUS
  <1>0. nextSeq \in Nat \ {0} /\ DOMAIN rows = 1..(nextSeq - 1) /\ configSeq \in Nat
    BY DEF TypeInv, TypeOK, StoreTypeOK, HistoryInv, HeadAtLogEnd
  <1>1. CASE UNCHANGED <<nextSeq, rows, assetSeq, configSeq>>
    BY <1>1 DEF ModelsInv
  <1>2. ASSUME NEW t \in Tasks, CommitTx(t) \/ CommitTxLostAnswer(t)
        PROVE  ModelsInv'
    <2>1. CommitPair(NewRow(t))
      BY <1>2 DEF CommitTx, CommitTxLostAnswer
    <2>2. /\ nextSeq' = nextSeq + 1 /\ assetSeq' = nextSeq
          /\ configSeq' = IF NewRow(t).body \in ConfigBodies THEN nextSeq ELSE configSeq
          /\ DOMAIN rows' = 1..nextSeq /\ rows'[nextSeq] = NewRow(t)
          /\ \A s \in 1..(nextSeq - 1) : rows'[s] = rows[s]
      BY <1>0, <2>1 DEF CommitPair
    <2>3. ASSUME NEW s \in 1..nextSeq, rows'[s].body \in ConfigBodies
          PROVE  s <= configSeq'
      <3>1. CASE s = nextSeq
        BY <1>0, <2>2, <2>3, <3>1
      <3>2. CASE s \in 1..(nextSeq - 1)
        BY <1>0, <2>2, <2>3, <3>2 DEF ModelsInv
      <3> QED
        BY <1>0, <3>1, <3>2
    <2> QED
      BY <1>0, <2>2, <2>3 DEF ModelsInv
  <1> QED
    BY <1>1, <1>2, StoreWrites
    DEF storeVars, ActivateBegin, ActivateReady, Publish, PruneBatch, Age

-----------------------------------------------------------------------------
(* Answers *)

\* The handler goes on with the same request.
Proceeds(u) ==
  /\ pc[u] \notin {"idle", "done"} /\ pc'[u] \notin {"idle", "done", "apply"}
  /\ UNCHANGED <<req, out, rows, nextSeq>>

\* The handler ends with an error, and committed nothing.
FailsWith(u, kind) ==
  pc[u] \notin {"idle", "done"} /\ Finish(u, Error(kind)) /\ UNCHANGED <<rows, nextSeq>>

\* The kinds of error a client cannot tell from a failure it may retry.
Transient == {"stale", "db", "duplicate_key", "unavailable"}

\* What a step of a handler means to its client.
LEMMA TaskOutcome ==
  ASSUME TypeInv, NEW u \in Tasks, TaskStep(u)
  PROVE  \/ Proceeds(u)
         \/ CommitTx(u) \/ CommitTxLostAnswer(u)
         \/ DedupHit(u) \/ ApplyCommitted(u) \/ ApplyFailed(u) \/ ReadState(u)
         \/ FailsWith(u, "rejected") \/ FailsWith(u, "invalid")
         \/ \E kind \in Transient : FailsWith(u, kind)
  <1>0. pc \in [Tasks -> Locations]
    BY DEF TypeInv, TypeOK, RegistryTypeOK
  <1>1. CASE \/ EnsureHit(u) \/ EnsureMiss(u) \/ GateHit(u) \/ GateEnter(u)
             \/ ReplayDone(u) \/ ActivateReady(u) \/ Install(u)
             \/ CommitLock(u) \/ DedupMiss(u) \/ CandidateValid(u) \/ CommitTxStale(u)
             \/ EvictAndRetry(u)
    BY <1>0, <1>1
    DEF EnsureHit, EnsureMiss, GateHit, GateEnter, UseResident, ReplayDone, ActivateReady,
        Install, CommitLock, DedupMiss, CandidateValid, CommitTxStale, EvictAndRetry,
        Proceeds, storeVars
  <1>2. CASE \/ ActivateReuse(u) \/ ActivateBegin(u) \/ PickBase(u) \/ ListEvents(u)
             \/ ReplayEvent(u) \/ ReplayPastHead(u)
    <2>1. /\ pc[u] \in ActivatingAt /\ pc'[u] \in ActivatingAt
          /\ UNCHANGED <<req, out, rows, nextSeq>>
      BY <1>0, <1>2
      DEF ActivateReuse, ActivateBegin, PickBase, ListEvents, ReplayEvent, ReplayPastHead,
          ActivatingAt, storeVars
    <2> QED
      BY <2>1 DEF ActivatingAt, Proceeds
  <1>3. CASE ReplayGap(u) \/ ActivateSuperseded(u) \/ ActivateDbError(u)
    <2>1. pc[u] \notin {"idle", "done"} /\ ActivateFail(u)
      BY <1>3 DEF ReplayGap, ActivateSuperseded, ActivateDbError, ActivatingAt
    <2>2. \E kind \in {"unavailable", "db"} :
            Finish(u, Error(kind)) /\ UNCHANGED <<rows, nextSeq>>
      BY <2>1 DEF ActivateFail, storeVars
    <2> QED
      BY <2>1, <2>2 DEF FailsWith, Transient
  <1>4. CASE CommitTxDuplicate(u) \/ CommitDbError(u)
    <2>1. \E kind \in {"duplicate_key", "db"} : FailsWith(u, kind)
      BY <1>4 DEF CommitTxDuplicate, CommitDbError, CommitReply, FailsWith, storeVars
    <2> QED
      BY <2>1 DEF Transient
  <1>5. CASE EvictAndGiveUp(u)
    <2>1. FailsWith(u, "stale")
      BY <1>5 DEF EvictAndGiveUp, FailsWith, storeVars
    <2> QED
      BY <2>1 DEF Transient
  <1>6. CASE RejectEnvelope(u) \/ RejectObserved(u) \/ RejectCandidate(u)
    BY <1>6 DEF RejectEnvelope, RejectObserved, RejectCandidate, CommitReply, FailsWith, storeVars
  <1> QED
    BY <1>1, <1>2, <1>3, <1>4, <1>5, <1>6 DEF TaskStep, ActivationStep, CommitStep

\* An idle handler has no request, and one whose transaction committed is
\* about to acknowledge the row of its own request.
AnswersInv ==
  \A t \in Tasks :
    /\ pc[t] = "idle" => req[t] = NoRequest
    /\ pc[t] = "apply" =>
         /\ out[t].kind = "ack" /\ out[t].seq \in DOMAIN rows
         /\ rows[out[t].seq] = NewRow(t)

\* Committed rows are never rewritten.
LEMMA RowsStay ==
  ASSUME TypeInv, HistoryInv, [Next]_vars, NEW s \in DOMAIN rows
  PROVE  s \in DOMAIN rows' /\ rows'[s] = rows[s]
  <1>0. nextSeq \in Nat \ {0} /\ DOMAIN rows = 1..(nextSeq - 1)
    BY DEF TypeInv, TypeOK, StoreTypeOK, HistoryInv, HeadAtLogEnd
  <1>1. ASSUME NEW t \in Tasks, CommitTx(t) \/ CommitTxLostAnswer(t)
        PROVE  s \in DOMAIN rows' /\ rows'[s] = rows[s]
    BY <1>0, <1>1 DEF CommitTx, CommitTxLostAnswer, CommitPair
  <1> QED
    BY <1>1, StoreWrites
    DEF storeVars, ActivateBegin, ActivateReady, Publish, PruneBatch, Age

\* The answer a handler is about to give stays true.
LEMMA AnswersStep == TypeInv /\ HistoryInv /\ AnswersInv /\ [Next]_vars => AnswersInv'
  <1> SUFFICES ASSUME TypeInv, HistoryInv, AnswersInv, [Next]_vars, NEW u \in Tasks
               PROVE  /\ pc'[u] = "idle" => req'[u] = NoRequest
                      /\ pc'[u] = "apply" =>
                           /\ out'[u].kind = "ack" /\ out'[u].seq \in DOMAIN rows'
                           /\ rows'[out'[u].seq] = NewRow(u)'
    BY DEF AnswersInv
  <1>0. /\ pc \in [Tasks -> Locations] /\ out \in [Tasks -> Result]
        /\ req \in [Tasks -> Request] /\ nextSeq \in Nat \ {0}
    BY DEF TypeInv, TypeOK, StoreTypeOK, RegistryTypeOK
  <1>1. CASE Same(u)
    BY <1>1, RowsStay DEF Same, AnswersInv, NewRow
  <1>2. CASE Submit(u) \/ SubmitRead(u) \/ Deliver(u) \/ Cancel(u)
    BY <1>0, <1>2 DEF Submit, SubmitRead, Deliver, Cancel
  <1>3. CASE Proceeds(u)
    BY <1>3 DEF Proceeds
  <1>4. CASE CommitTx(u)
    <2>1. /\ pc'[u] = "apply" /\ req' = req
          /\ out'[u] = [kind |-> "ack", seq |-> nextSeq, doc |-> {}]
          /\ rows' = [s \in DOMAIN rows \cup {nextSeq} |->
                        IF s = nextSeq THEN NewRow(u) ELSE rows[s]]
      BY <1>0, <1>4 DEF CommitTx, CommitPair
    <2> QED
      BY <2>1 DEF NewRow
  <1>5. ASSUME NEW result, Finish(u, result)
        PROVE  pc'[u] = "done"
    BY <1>0, <1>5 DEF Finish
  <1>6. CASE TaskStep(u) /\ ~Proceeds(u) /\ ~CommitTx(u)
    <2>1. \E result : Finish(u, result)
      BY <1>6, TaskOutcome
      DEF FailsWith, CommitTxLostAnswer, DedupHit, CommitReply, ApplyCommitted, ApplyFailed,
          ReadState
    <2> QED
      BY <1>5, <2>1
  <1> QED
    BY <1>1, <1>2, <1>3, <1>4, <1>6, OthersStay DEF OwnStep

\* Of the rows that bear a request's key there is only one.
LEMMA OneRowOfCid ==
  ASSUME HistoryInv, KeysInv, NEW r \in journal, NEW s \in journal,
         rows[r].cid = rows[s].cid, rows[r].cid # NoCid
  PROVE  r = s
  BY DEF HistoryInv, HeadAtLogEnd, PairedHistory, KeysInv, ExactlyOnce

-----------------------------------------------------------------------------
\* The inductive invariant of the board with what its clients are told.
ServiceInv == BoardInv /\ ModelsInv /\ AnswersInv

\* It holds of every reachable state.
LEMMA ServiceInvariance == Spec => []ServiceInv
  <1>1. Init => ModelsInv /\ AnswersInv
    BY DEF Init, StoreInit, RegistryInit, ModelsInv, AnswersInv
  <1>2. BoardInv /\ ModelsInv /\ AnswersInv /\ [Next]_vars => (ModelsInv /\ AnswersInv)'
    BY ModelsStep, AnswersStep DEF BoardInv
  <1> QED
    BY <1>1, <1>2, BoardInvariance, PTL DEF Spec, ServiceInv

\* When the head is ready the asset projection and the config columns are
\* those of the last committed event: no commit leaves a read model behind.
THEOREM ReadModelsFollowHead == Spec => []ReadModelsAtHead
  <1>1. ServiceInv => ReadModelsAtHead
    BY DEF ServiceInv, BoardInv, HistoryInv, HeadAtLogEnd, ModelsInv, ReadModelsAtHead
  <1> QED
    BY <1>1, ServiceInvariance, PTL

\* A request that was sent when its event was stored still finds the row, so it
\* never gets past durable dedup.
StoredInv ==
  \A t \in Tasks : req[t].stored =>
    /\ req[t].kind = "commit" /\ req[t].cid # NoCid
    /\ \E s \in DOMAIN rows : Matches(rows[s], req[t])
    /\ pc[t] \notin {"judge", "tx", "apply", "evict"}
    /\ pc[t] = "done" =>
         \/ out[t].kind \in {"db", "unavailable"}
         \/ /\ out[t].kind = "ack" /\ out[t].seq \in DOMAIN rows
            /\ Matches(rows[out[t].seq], req[t])

\* The row is in the journal: nobody still sends a key that retention removed.
LEMMA StoredRowKept ==
  ASSUME TypeInv, HistoryInv, KeysInv, StoredInv, NEW u \in Tasks, req[u].stored
  PROVE  \E s \in journal : RowOfCid(req[u].cid, s) /\ Matches(rows[s], req[u])
  <1>1. PICK s \in DOMAIN rows : Matches(rows[s], req[u])
    BY DEF StoredInv
  <1>2. req[u].cid # NoCid /\ rows[s].cid = req[u].cid
    BY <1>1 DEF StoredInv, Matches
  <1>3. nextSeq \in Nat \ {0} /\ aged \in Nat /\ s \in 1..(nextSeq - 1)
    BY DEF TypeInv, TypeOK, StoreTypeOK, HistoryInv, HeadAtLogEnd
  <1>4. s \in journal
    BY <1>2, <1>3 DEF KeysInv
  <1> QED
    BY <1>1, <1>2, <1>4 DEF RowOfCid

\* What the client of a stored event can be told at the end of its handler.
LEMMA StoredAnswer ==
  ASSUME TypeInv, HistoryInv, KeysInv, StoredInv, [Next]_vars, NEW u \in Tasks,
         req[u].stored, TaskStep(u), pc[u] # "done"
  PROVE  /\ pc'[u] \notin {"judge", "tx", "apply", "evict"}
         /\ pc'[u] = "done" =>
              \/ out'[u].kind \in {"db", "unavailable"}
              \/ /\ out'[u].kind = "ack" /\ out'[u].seq \in DOMAIN rows
                 /\ Matches(rows[out'[u].seq], req[u])
  <1>0. pc \in [Tasks -> Locations] /\ out \in [Tasks -> Result]
    BY DEF TypeInv, TypeOK, RegistryTypeOK
  <1>1. PICK s \in journal : RowOfCid(req[u].cid, s) /\ Matches(rows[s], req[u])
    BY StoredRowKept
  <1>2. pc[u] \notin {"judge", "tx", "apply", "evict"} /\ s \in DOMAIN rows
    BY <1>1 DEF StoredInv, HistoryInv, PairedHistory, HeadAtLogEnd
  <1>3. CidTaken(req[u].cid)
    BY <1>1 DEF CidTaken
  <1>4. ASSUME NEW result, Finish(u, result)
        PROVE  pc'[u] = "done" /\ out'[u] = result
    BY <1>0, <1>4 DEF Finish
  <1>5. CASE \/ EnsureHit(u) \/ EnsureMiss(u) \/ GateHit(u) \/ GateEnter(u)
             \/ ReplayDone(u) \/ ActivateReady(u) \/ Install(u) \/ CommitLock(u)
    BY <1>0, <1>5
    DEF EnsureHit, EnsureMiss, GateHit, GateEnter, UseResident, ReplayDone, ActivateReady,
        Install, CommitLock
  <1>6. CASE \/ ActivateReuse(u) \/ ActivateBegin(u) \/ PickBase(u) \/ ListEvents(u)
             \/ ReplayEvent(u) \/ ReplayPastHead(u)
    <2>1. pc'[u] \in ActivatingAt
      BY <1>0, <1>6
      DEF ActivateReuse, ActivateBegin, PickBase, ListEvents, ReplayEvent, ReplayPastHead,
          ActivatingAt
    <2> QED
      BY <2>1 DEF ActivatingAt
  <1>7. CASE ReplayGap(u) \/ ActivateSuperseded(u) \/ ActivateDbError(u) \/ CommitDbError(u)
    <2>1. \E kind \in {"unavailable", "db"} : Finish(u, Error(kind))
      BY <1>7 DEF ReplayGap, ActivateSuperseded, ActivateDbError, ActivateFail,
                  CommitDbError, CommitReply
    <2> QED
      BY <1>4, <2>1 DEF Error
  <1>8. CASE DedupHit(u)
    <2>1. PICK r \in journal :
            /\ RowOfCid(req[u].cid, r)
            /\ CommitReply(u, IF Matches(rows[r], req[u])
                              THEN [kind |-> "ack", seq |-> r, doc |-> {}]
                              ELSE Error("conflict"))
      BY <1>8 DEF DedupHit
    <2>2. r = s
      BY <1>1, <2>1, OneRowOfCid DEF RowOfCid
    <2> QED
      BY <1>1, <1>2, <1>4, <2>1, <2>2 DEF CommitReply
  <1>9. ~RejectEnvelope(u) /\ ~DedupMiss(u)
    BY <1>1, <1>3 DEF RejectEnvelope, DedupMiss
  <1>10. ~ReadState(u)
    BY DEF ReadState, StoredInv
  <1>11. /\ ~RejectObserved(u) /\ ~RejectCandidate(u) /\ ~CandidateValid(u) /\ ~CommitTx(u)
         /\ ~CommitTxLostAnswer(u) /\ ~CommitTxDuplicate(u) /\ ~CommitTxStale(u)
         /\ ~EvictAndRetry(u) /\ ~EvictAndGiveUp(u) /\ ~ApplyCommitted(u) /\ ~ApplyFailed(u)
    BY <1>2
    DEF RejectObserved, RejectCandidate, CandidateValid, CommitTx, CommitTxLostAnswer,
        CommitTxDuplicate, CommitTxStale, EvictAndRetry, EvictAndGiveUp, ApplyCommitted,
        ApplyFailed
  <1> QED
    BY <1>5, <1>6, <1>7, <1>8, <1>9, <1>10, <1>11 DEF TaskStep, ActivationStep, CommitStep

\* A handler works on one request until it has answered it.
LEMMA TaskKeepsRequest ==
  ASSUME NEW u \in Tasks, TaskStep(u)
  PROVE  req' = req /\ pc[u] # "done"
  BY DEF TaskStep, ActivationStep, CommitStep, EnsureHit, EnsureMiss, GateHit, GateEnter,
    UseResident, ActivateReuse, ActivateBegin, PickBase, ListEvents, ReplayDone, ReplayEvent,
    ReplayPastHead, ReplayGap, ActivateReady, ActivateSuperseded, Install, ActivateDbError,
    ActivateFail, ActivatingAt, CommitLock, RejectEnvelope, DedupHit, DedupMiss,
    RejectObserved, RejectCandidate, CandidateValid, CommitTx, CommitTxLostAnswer,
    CommitTxDuplicate, CommitTxStale, EvictAndRetry, EvictAndGiveUp, ApplyCommitted,
    ApplyFailed, CommitDbError, CommitReply, ReadState, Finish

\* Steps of the board keep StoredInv.
LEMMA StoredStep ==
  ASSUME TypeInv, HistoryInv, KeysInv, AnswersInv, StoredInv, [Next]_vars
  PROVE  StoredInv'
  <1> SUFFICES ASSUME NEW u \in Tasks, req'[u].stored
               PROVE  /\ req'[u].kind = "commit" /\ req'[u].cid # NoCid
                      /\ \E s \in DOMAIN rows' : Matches(rows'[s], req'[u])
                      /\ pc'[u] \notin {"judge", "tx", "apply", "evict"}
                      /\ pc'[u] = "done" =>
                           \/ out'[u].kind \in {"db", "unavailable"}
                           \/ /\ out'[u].kind = "ack" /\ out'[u].seq \in DOMAIN rows'
                              /\ Matches(rows'[out'[u].seq], req'[u])
    BY DEF StoredInv, Matches
  <1>0. /\ pc \in [Tasks -> Locations] /\ req \in [Tasks -> Request]
        /\ out \in [Tasks -> Result]
    BY DEF TypeInv, TypeOK, RegistryTypeOK
  <1>n. NoRequest.stored = FALSE
    BY DEF NoRequest
  <1>1. \A s \in DOMAIN rows : s \in DOMAIN rows' /\ rows'[s] = rows[s]
    BY RowsStay
  <1>2. CASE Same(u)
    BY <1>1, <1>2 DEF Same, StoredInv, Matches
  <1>3. CASE Submit(u)
    <2>1. PICK cid \in Cids \cup {NoCid}, body \in Bodies, seen \in 0..MaxSeq :
            req' = [req EXCEPT ![u] =
                      [kind |-> "commit", cid |-> cid, body |-> body, observed |-> seen,
                       stored |-> cid # NoCid /\ \E s \in journal :
                                    Matches(rows[s], [cid |-> cid, body |-> body])]]
      BY <1>3 DEF Submit
    <2>2. /\ req'[u].kind = "commit" /\ req'[u].cid = cid /\ req'[u].body = body /\ cid # NoCid
          /\ \E s \in journal : Matches(rows[s], [cid |-> cid, body |-> body])
      BY <1>0, <2>1
    <2>3. journal \subseteq DOMAIN rows
      BY DEF HistoryInv, PairedHistory, HeadAtLogEnd
    <2>4. pc'[u] = "ensure"
      BY <1>0, <1>3 DEF Submit
    <2> QED
      BY <1>1, <2>2, <2>3, <2>4 DEF Matches
  <1>4. CASE SubmitRead(u)
    <2>1. req'[u].stored = req[u].stored /\ req[u] = NoRequest
      BY <1>0, <1>4 DEF SubmitRead, AnswersInv, Request
    <2> QED
      BY <1>n, <2>1
  <1>5. CASE Deliver(u) \/ Cancel(u)
    <2>1. req'[u] = NoRequest
      BY <1>0, <1>5 DEF Deliver, Cancel
    <2> QED
      BY <1>n, <2>1
  <1>6. CASE TaskStep(u)
    <2>1. req'[u] = req[u] /\ pc[u] # "done"
      BY <1>6, TaskKeepsRequest
    <2>2. req[u].stored
      BY <2>1
    <2> QED
      BY <1>1, <1>6, <2>1, <2>2, StoredAnswer DEF StoredInv, Matches
  <1> QED
    BY <1>2, <1>3, <1>4, <1>5, <1>6, <1>n, OthersStay DEF OwnStep

\* A retry of an event that was stored when the retry was sent is acknowledged
\* with that event or may be repeated: no eviction, activation, retention pass
\* or commit of another instance makes a check turn it away for good.
THEOREM StoredRetriesAreAcked == Spec => []StoredRetryAcked
  <1>1. Init => StoredInv
    BY DEF Init, RegistryInit, StoredInv, NoRequest
  <1>2. ServiceInv /\ StoredInv /\ [Next]_vars => StoredInv'
    BY StoredStep DEF ServiceInv, BoardInv
  <1>3. StoredInv => StoredRetryAcked
    BY DEF StoredInv, StoredRetryAcked
  <1> QED
    BY <1>1, <1>2, <1>3, ServiceInvariance, PTL DEF Spec

-----------------------------------------------------------------------------
(* Refinement *)

\* The log's view of the deployment.
Pending == [t \in Tasks |-> Asked(req[t])]
Answers == [t \in Tasks |-> VisibleAnswer(t)]

\* What a client makes of a result.
Shown(result) ==
  IF result.kind \in {"ack", "state"} THEN [kind |-> result.kind, seq |-> result.seq]
  ELSE [kind |-> "error", seq |-> 0]

\* A step that leaves the log, the requests and the visible answers alone.
LEMMA InvisibleStep ==
  ASSUME UNCHANGED <<rows, nextSeq>>,
         \A t \in Tasks : req'[t] = req[t] /\ VisibleAnswer(t)' = VisibleAnswer(t)
  PROVE  UNCHANGED Log!logVars
  BY DEF Log!logVars, Asked

\* A handler that stays put shows its client nothing new.
LEMMA SameIsInvisible ==
  ASSUME NEW u \in Tasks, Same(u)
  PROVE  req'[u] = req[u] /\ VisibleAnswer(u)' = VisibleAnswer(u)
  BY DEF Same, VisibleAnswer

\* The end of a handler gives its client, and nobody else, an answer.
LEMMA FinishAnswers ==
  ASSUME TypeInv, NEW t \in Tasks, OwnStep(t), NEW result, Finish(t, result), pc[t] # "done"
  PROVE  /\ Pending' = Pending
         /\ Answers[t] = Log!NoAnswer
         /\ Answers' = [Answers EXCEPT ![t] = Shown(result)]
  <1>1. req' = req
    BY DEF Finish
  <1>2. pc'[t] = "done" /\ out'[t] = result
    BY DEF Finish, TypeInv, TypeOK, RegistryTypeOK
  <1>3. VisibleAnswer(t)' = Shown(result) /\ VisibleAnswer(t) = Log!NoAnswer
    BY <1>2 DEF VisibleAnswer, Shown, Log!NoAnswer
  <1>4. \A u \in Tasks : u # t => VisibleAnswer(u)' = VisibleAnswer(u)
    BY StepIsOwn, SameIsInvisible
  <1> QED
    BY <1>1, <1>3, <1>4 DEF Pending, Answers

\* Clients whose handlers are gone have left the log.
LEMMA GoneIsLeave ==
  ASSUME NEW T \in SUBSET Tasks, UNCHANGED <<rows, nextSeq>>,
         \A t \in T : pc'[t] = "idle" /\ req'[t] = NoRequest,
         \A t \in Tasks \ T : Same(t)
  PROVE  Log!Leave
  <1>1. \A t \in T : Asked(req[t])' = Asked(NoRequest) /\ VisibleAnswer(t)' = Log!NoAnswer
    BY DEF Asked, VisibleAnswer, Log!NoAnswer
  <1>2. \A t \in Tasks \ T :
          Asked(req[t])' = Asked(req[t]) /\ VisibleAnswer(t)' = VisibleAnswer(t)
    BY SameIsInvisible DEF Asked
  <1>3. /\ Pending' = [t \in Tasks |-> IF t \in T THEN Asked(NoRequest) ELSE Pending[t]]
        /\ Answers' = [t \in Tasks |-> IF t \in T THEN Log!NoAnswer ELSE Answers[t]]
    BY <1>1, <1>2 DEF Pending, Answers
  <1> QED
    BY <1>3 DEF Log!Leave, Pending, Answers

\* A request that reaches an instance has been asked.
LEMMA SubmitIsAsk ==
  ASSUME TypeInv, AnswersInv, NEW t \in Tasks, Submit(t) \/ SubmitRead(t)
  PROVE  Log!Ask(t)
  <1>0. /\ req \in [Tasks -> Request] /\ pc \in [Tasks -> Locations]
        /\ pc[t] = "idle" /\ req[t] = NoRequest /\ UNCHANGED <<rows, nextSeq>>
    BY DEF TypeInv, TypeOK, RegistryTypeOK, AnswersInv, Submit, SubmitRead, storeVars
  <1> DEFINE Asks == [kind : {"commit", "read"}, cid : Cids \cup {NoCid},
                      body : Bodies \cup {None}]
  <1>1. pc'[t] = "ensure" /\ Asked(req[t])' \in Asks
    <2>1. CASE Submit(t)
      <3>1. PICK cid \in Cids \cup {NoCid}, body \in Bodies, seen \in 0..MaxSeq :
              req' = [req EXCEPT ![t] = [kind |-> "commit", cid |-> cid, body |-> body,
                                         observed |-> seen,
                        stored |-> cid # NoCid /\ \E s \in journal :
                                     Matches(rows[s], [cid |-> cid, body |-> body])]]
        BY <2>1 DEF Submit
      <3>2. Asked(req[t])' = [kind |-> "commit", cid |-> cid, body |-> body]
        BY <1>0, <3>1 DEF Asked
      <3> QED
        BY <1>0, <2>1, <3>2 DEF Submit
    <2>2. CASE SubmitRead(t)
      <3>1. req'[t] = [NoRequest EXCEPT !.kind = "read"]
        BY <1>0, <2>2 DEF SubmitRead
      <3>2. Asked(req[t])' = [kind |-> "read", cid |-> NoCid, body |-> None]
        BY <3>1 DEF Asked, NoRequest
      <3> QED
        BY <1>0, <2>2, <3>2 DEF SubmitRead
    <2> QED
      BY <2>1, <2>2
  <1>2. /\ \A u \in Tasks : u # t => Asked(req[u])' = Asked(req[u])
        /\ \A u \in Tasks : u # t => VisibleAnswer(u)' = VisibleAnswer(u)
    BY StepIsOwn, SameIsInvisible DEF OwnStep, Asked
  <1>3. VisibleAnswer(t)' = VisibleAnswer(t)
    BY <1>0, <1>1 DEF VisibleAnswer
  <1>4. Pending' = [Pending EXCEPT ![t] = Asked(req[t])'] /\ Answers' = Answers
    BY <1>2, <1>3 DEF Pending, Answers
  <1>5. Pending[t] = Asked(NoRequest)
    BY <1>0 DEF Pending
  <1> QED
    BY <1>0, <1>1, <1>4, <1>5 DEF Log!Ask, Pending, Answers

\* The commit transaction appends the row of its request, once for its key.
LEMMA CommitIsAppend ==
  ASSUME TypeInv, HistoryInv, KeysInv, NEW t \in Tasks, CommitTx(t) \/ CommitTxLostAnswer(t)
  PROVE  Log!Append(t)
  <1>0. /\ nextSeq \in Nat \ {0} /\ DOMAIN rows = 1..(nextSeq - 1)
        /\ pc[t] = "tx" /\ req' = req /\ CommitPair(NewRow(t)) /\ ~CidTaken(req[t].cid)
    BY DEF TypeInv, TypeOK, StoreTypeOK, HistoryInv, HeadAtLogEnd, CommitTx,
           CommitTxLostAnswer, Finish
  <1>1. req[t].kind = "commit"
    BY <1>0 DEF TypeInv, Placed, LockedAt
  <1>2. Pending[t] = [kind |-> "commit", cid |-> req[t].cid, body |-> req[t].body]
    BY <1>1 DEF Pending, Asked
  <1>3. Answers[t] = Log!NoAnswer
    BY <1>0 DEF Answers, VisibleAnswer, Log!NoAnswer
  <1>4. req[t].cid = NoCid \/ \A s \in 1..(nextSeq - 1) : rows[s].cid # req[t].cid
    BY <1>0, NewKey
  <1>5. nextSeq' - 1 = (nextSeq - 1) + 1
    BY <1>0 DEF CommitPair
  <1>6. rows' = [s \in 1..((nextSeq - 1) + 1) |->
                   IF s = (nextSeq - 1) + 1 THEN [cid |-> req[t].cid, body |-> req[t].body]
                                            ELSE rows[s]]
    <2>1. (nextSeq - 1) + 1 = nextSeq /\ 1..nextSeq = DOMAIN rows \cup {nextSeq}
      BY <1>0
    <2> QED
      BY <1>0, <2>1 DEF CommitPair, NewRow
  <1>7. Pending' = Pending
    BY <1>0 DEF Pending
  <1>8. /\ Pending[t].kind = "commit"
        /\ Pending[t].cid = NoCid \/ \A s \in 1..(nextSeq - 1) : rows[s].cid # Pending[t].cid
        /\ [cid |-> Pending[t].cid, body |-> Pending[t].body]
             = [cid |-> req[t].cid, body |-> req[t].body]
    BY <1>2, <1>4
  <1> QED
    BY <1>3, <1>5, <1>6, <1>7, <1>8 DEF Log!Append, Pending, Answers

\* The end of a handler that committed nothing is an answer of the log: an
\* acknowledgement names the row of this very request, a read is a prefix.
LEMMA FinishIsAnswer ==
  ASSUME ServiceInv, NEW t \in Tasks, TaskStep(t), NEW result, Finish(t, result),
         pc[t] # "done", UNCHANGED <<rows, nextSeq>>,
         \/ result.kind \notin {"ack", "state"}
         \/ /\ result.kind = "ack" /\ req[t].kind = "commit"
            /\ result.seq \in DOMAIN rows /\ rows[result.seq] = NewRow(t)
         \/ /\ result.kind = "state" /\ req[t].kind = "read"
            /\ result.seq \in 0..(nextSeq - 1)
  PROVE  Log!Fail(t) \/ Log!Ack(t) \/ Log!Read(t)
  <1>0. TypeInv /\ DOMAIN rows = 1..(nextSeq - 1)
    BY DEF ServiceInv, BoardInv, HistoryInv, HeadAtLogEnd
  <1>1. /\ Pending' = Pending /\ Answers[t] = Log!NoAnswer
        /\ Answers' = [Answers EXCEPT ![t] = Shown(result)]
    BY <1>0, FinishAnswers DEF OwnStep
  <1>2. /\ Pending[t].kind = req[t].kind
        /\ [cid |-> Pending[t].cid, body |-> Pending[t].body] = NewRow(t)
    BY DEF Pending, Asked, NewRow
  <1>3. CASE result.kind \notin {"ack", "state"}
    BY <1>1, <1>3 DEF Log!Fail, Shown, Pending, Answers
  <1>4. CASE /\ result.kind = "ack" /\ req[t].kind = "commit"
             /\ result.seq \in DOMAIN rows /\ rows[result.seq] = NewRow(t)
    <2>1. Shown(result) = [kind |-> "ack", seq |-> result.seq]
      BY <1>4 DEF Shown
    <2> QED
      BY <1>0, <1>1, <1>2, <1>4, <2>1 DEF Log!Ack, Pending, Answers
  <1>5. CASE /\ result.kind = "state" /\ req[t].kind = "read"
             /\ result.seq \in 0..(nextSeq - 1)
    <2>1. Shown(result) = [kind |-> "state", seq |-> result.seq]
      BY <1>5 DEF Shown
    <2> QED
      BY <1>1, <1>2, <1>5, <2>1 DEF Log!Read, Pending, Answers
  <1> QED
    BY <1>3, <1>4, <1>5

\* Every step of a handler is a step of the log, or invisible.
LEMMA TaskRefines ==
  ASSUME ServiceInv, NEW t \in Tasks, TaskStep(t)
  PROVE  \/ UNCHANGED Log!logVars
         \/ Log!AppendSilently(t) \/ Log!AppendAndFail(t)
         \/ Log!Ack(t) \/ Log!Fail(t) \/ Log!Read(t)
  <1>0. /\ TypeInv /\ HistoryInv /\ KeysInv /\ AnswersInv
        /\ pc \in [Tasks -> Locations] /\ nextSeq \in Nat \ {0} /\ OwnStep(t)
        /\ arcs \in [Instances -> [Slots -> Resident]]
    BY DEF ServiceInv, BoardInv, TypeInv, TypeOK, StoreTypeOK, RegistryTypeOK, OwnStep
  <1>1. \A u \in Tasks : u # t => req'[u] = req[u] /\ VisibleAnswer(u)' = VisibleAnswer(u)
    BY <1>0, StepIsOwn, SameIsInvisible
  <1>2. CASE Proceeds(t)
    <2>1. UNCHANGED <<rows, nextSeq>> /\ req' = req
      BY <1>2 DEF Proceeds
    <2>2. VisibleAnswer(t)' = VisibleAnswer(t)
      BY <1>2 DEF Proceeds, VisibleAnswer
    <2> QED
      BY <1>1, <2>1, <2>2, InvisibleStep
  <1>3. CASE CommitTx(t)
    <2>1. Log!Append(t)
      BY <1>0, <1>3, CommitIsAppend
    <2>2. VisibleAnswer(t)' = VisibleAnswer(t)
      BY <1>0, <1>3 DEF CommitTx, VisibleAnswer
    <2>3. Answers' = Answers
      BY <1>1, <2>2 DEF Answers
    <2> QED
      BY <2>1, <2>3 DEF Log!AppendSilently, Answers
  <1>4. CASE CommitTxLostAnswer(t)
    <2>1. Log!Append(t)
      BY <1>0, <1>4, CommitIsAppend
    <2>2. pc[t] # "done" /\ Finish(t, Error("db"))
      BY <1>4 DEF CommitTxLostAnswer
    <2>3. Answers' = [Answers EXCEPT ![t] = Shown(Error("db"))]
      BY <1>0, <2>2, FinishAnswers
    <2>4. Shown(Error("db")) = [kind |-> "error", seq |-> 0]
      BY DEF Shown, Error
    <2> QED
      BY <2>1, <2>3, <2>4 DEF Log!AppendAndFail, Answers
  <1>5. ASSUME NEW kind \in Transient \cup {"rejected", "invalid"}, FailsWith(t, kind)
        PROVE  Log!Ack(t) \/ Log!Fail(t) \/ Log!Read(t)
    <2>1. /\ Finish(t, Error(kind)) /\ pc[t] # "done" /\ UNCHANGED <<rows, nextSeq>>
          /\ Error(kind).kind \notin {"ack", "state"}
      BY <1>5 DEF FailsWith, Error, Transient
    <2> QED
      BY <2>1, FinishIsAnswer
  <1>6. CASE DedupHit(t)
    <2>1. PICK s \in journal :
            /\ RowOfCid(req[t].cid, s)
            /\ CommitReply(t, IF Matches(rows[s], req[t])
                              THEN [kind |-> "ack", seq |-> s, doc |-> {}]
                              ELSE Error("conflict"))
      BY <1>6 DEF DedupHit
    <2>2. pc[t] # "done" /\ req[t].kind = "commit" /\ UNCHANGED <<rows, nextSeq>>
      BY <1>0, <1>6, <2>1 DEF DedupHit, CommitReply, storeVars, TypeInv, Placed, LockedAt
    <2>3. CASE Matches(rows[s], req[t])
      <3> DEFINE ack == [kind |-> "ack", seq |-> s, doc |-> {}]
      <3>1. Finish(t, ack)
        BY <2>1, <2>3 DEF CommitReply
      <3>2. s \in DOMAIN rows /\ rows[s] \in Row
        BY <1>0 DEF HistoryInv, HeadAtLogEnd, PairedHistory, TypeInv, TypeOK, StoreTypeOK
      <3>3. rows[s] = NewRow(t)
        BY <2>3, <3>2 DEF Matches, NewRow, Row
      <3>4. ack.kind = "ack" /\ ack.seq = s
        OBVIOUS
      <3> HIDE DEF ack
      <3> QED
        BY <2>2, <3>1, <3>2, <3>3, <3>4, FinishIsAnswer
    <2>4. CASE ~Matches(rows[s], req[t])
      <3>1. Finish(t, Error("conflict"))
        BY <2>1, <2>4 DEF CommitReply
      <3>2. Error("conflict").kind = "conflict"
        BY DEF Error
      <3> QED
        BY <2>2, <3>1, <3>2, FinishIsAnswer
    <2> QED
      BY <2>3, <2>4
  <1>7. CASE ApplyCommitted(t) \/ ApplyFailed(t)
    <2>1. pc[t] = "apply" /\ Finish(t, out[t]) /\ UNCHANGED <<rows, nextSeq>>
      BY <1>7 DEF ApplyCommitted, ApplyFailed, storeVars
    <2>2. /\ req[t].kind = "commit" /\ out[t].kind = "ack"
          /\ out[t].seq \in DOMAIN rows /\ rows[out[t].seq] = NewRow(t)
      BY <1>0, <2>1 DEF AnswersInv, TypeInv, Placed, LockedAt
    <2> QED
      BY <2>1, <2>2, FinishIsAnswer
  <1>8. CASE ReadState(t)
    <2> DEFINE r == MyResident(t)
               state == [kind |-> "state", seq |-> r.processed, doc |-> r.doc]
    <2>1. /\ pc[t] = "lock" /\ req[t].kind = "read" /\ Finish(t, state)
          /\ UNCHANGED <<rows, nextSeq>>
      BY <1>8 DEF ReadState, storeVars
    <2>2. inst[t] \in Instances /\ held[t] \in Slots
      BY <1>0, <2>1 DEF TypeInv, Placed
    <2>3. r.processed \in Nat /\ r.processed < nextSeq
      BY <1>0, <2>2 DEF MyResident, Resident, ServiceInv, BoardInv, ResidentsInv, ResidentOK
    <2>4. state.kind = "state" /\ state.seq \in 0..(nextSeq - 1)
      BY <1>0, <2>3
    <2> HIDE DEF state, r
    <2> QED
      BY <2>1, <2>4, FinishIsAnswer
  <1> QED
    BY <1>0, <1>2, <1>3, <1>4, <1>5, <1>6, <1>7, <1>8, TaskOutcome

\* The deployment, with its instances, residents, epochs, retries, crashes,
\* checkpoints and retention, implements the append-only log in which a key
\* appears once and an acknowledgement names the request's own entry.
THEOREM DeploymentImplementsLog == Spec => ImplementsLog
  <1>1. Init => Log!Init
    <2> SUFFICES ASSUME Init PROVE Log!Init
      OBVIOUS
    <2>1. /\ rows = [s \in {} |-> NoCid] /\ nextSeq = 1
          /\ \A t \in Tasks : pc[t] = "idle" /\ req[t] = NoRequest
      BY DEF Init, StoreInit, RegistryInit
    <2>2. \A t \in Tasks : VisibleAnswer(t) = Log!NoAnswer
      BY <2>1 DEF VisibleAnswer, Log!NoAnswer
    <2> QED
      BY <2>1, <2>2 DEF Log!Init
  <1>2. ServiceInv /\ [Next]_vars => [Log!Next]_(Log!logVars)
    <2> SUFFICES ASSUME ServiceInv, [Next]_vars
                 PROVE  Log!Next \/ UNCHANGED Log!logVars
      OBVIOUS
    <2>0. TypeInv /\ AnswersInv
      BY DEF ServiceInv, BoardInv
    <2>1. CASE UNCHANGED registryVars
      <3>1. UNCHANGED <<rows, nextSeq>>
        BY <2>0, <2>1, StoreWrites
        DEF storeVars, ActivateBegin, ActivateReady, CommitTx, CommitTxLostAnswer, Publish,
            PruneBatch, Age, registryVars, Finish, TypeInv, TypeOK, RegistryTypeOK
      <3>2. \A t \in Tasks : Same(t)
        BY <2>1 DEF Same, registryVars
      <3> QED
        BY <3>1, <3>2, SameIsInvisible, InvisibleStep
    <2>2. ASSUME NEW i \in Instances, Crash(i)
          PROVE  Log!Leave
      <3> DEFINE T == {t \in Tasks : inst[t] = i}
      <3>1. UNCHANGED <<rows, nextSeq>>
        BY <2>2 DEF Crash, storeVars
      <3>2. \A t \in T : pc'[t] = "idle" /\ req'[t] = NoRequest
        BY <2>2 DEF Crash
      <3>3. \A t \in Tasks \ T : Same(t)
        BY <2>2 DEF Crash, Same
      <3>4. T \in SUBSET Tasks
        OBVIOUS
      <3> HIDE DEF T
      <3> QED
        BY <3>1, <3>2, <3>3, <3>4, GoneIsLeave
    <2>3. ASSUME NEW t \in Tasks, Deliver(t) \/ Cancel(t)
          PROVE  Log!Leave
      <3> DEFINE T == {t}
      <3>1. UNCHANGED <<rows, nextSeq>>
        BY <2>3 DEF Deliver, Cancel, storeVars
      <3>2. \A u \in T : pc'[u] = "idle" /\ req'[u] = NoRequest
        BY <2>0, <2>3 DEF Deliver, Cancel, TypeInv, TypeOK, RegistryTypeOK
      <3>3. \A u \in Tasks \ T : Same(u)
        BY <2>0, <2>3, StepIsOwn DEF OwnStep
      <3>4. T \in SUBSET Tasks
        OBVIOUS
      <3> HIDE DEF T
      <3> QED
        BY <3>1, <3>2, <3>3, <3>4, GoneIsLeave
    <2>4. ASSUME NEW t \in Tasks, Submit(t) \/ SubmitRead(t)
          PROVE  Log!Ask(t)
      BY <2>0, <2>4, SubmitIsAsk
    <2>5. CASE RegistryNext
      BY <2>2, <2>3, <2>4, <2>5, TaskRefines DEF RegistryNext, Log!Next
    <2> QED
      BY <2>1, <2>5 DEF Next, Age, vars
  <1> QED
    BY <1>1, <1>2, ServiceInvariance, PTL DEF Spec, ImplementsLog, Log!Spec

-----------------------------------------------------------------------------
(* Readers, when nothing is deleted *)

\* The document is a prefix of a history with next seq n, seq or longer.
IsPrefix(doc, seq, n) == \E m \in seq..(n - 1) : doc = 1..m

\* The rest of a page goes on without a gap.
GapFreeBatch(batch, cursor) ==
  \A e \in batch : e > cursor /\ \A r \in (cursor + 1)..e : r \in batch

\* A handler rebuilding a resident holds a prefix of the history, even when
\* the head has moved on.
PrefixActivation(q, a) ==
  /\ q \in Replaying => a.doc = 1..a.cursor
  /\ q = "replay" => GapFreeBatch(a.batch, a.cursor)

\* With the retention job off every row is stored, so whatever a resident was
\* built from had no hole, and a resident that lost the fence, or whose last
\* update failed to apply, is still a prefix: that is all a reader needs.
PrefixInv ==
  /\ journal = 1..(nextSeq - 1) /\ events = 1..(nextSeq - 1)
  /\ \A t \in Tasks : PrefixActivation(pc[t], act[t])
  /\ \A i \in Instances, a \in Slots :
       IsPrefix(arcs[i][a].doc, arcs[i][a].processed, nextSeq)
  /\ ReadersSeePrefix

\* Without retention the journal and the events only grow.
LEMMA NothingDeleted ==
  ASSUME ~RetentionOn, TypeInv, PrefixInv, [Next]_vars
  PROVE  journal' = 1..(nextSeq' - 1) /\ events' = 1..(nextSeq' - 1)
  <1>0. nextSeq \in Nat \ {0}
    BY DEF TypeInv, TypeOK, StoreTypeOK
  <1>1. ASSUME NEW t \in Tasks, CommitTx(t) \/ CommitTxLostAnswer(t)
        PROVE  journal' = 1..(nextSeq' - 1) /\ events' = 1..(nextSeq' - 1)
    <2>1. /\ nextSeq' = nextSeq + 1 /\ journal' = journal \cup {nextSeq}
          /\ events' = events \cup {nextSeq}
      BY <1>1 DEF CommitTx, CommitTxLostAnswer, CommitPair
    <2>2. (1..(nextSeq - 1)) \cup {nextSeq} = 1..nextSeq /\ nextSeq' - 1 = nextSeq
      BY <1>0, <2>1
    <2> QED
      BY <2>1, <2>2 DEF PrefixInv
  <1>2. CASE UNCHANGED <<nextSeq, journal, events>>
    BY <1>2 DEF PrefixInv
  <1> QED
    BY <1>1, <1>2, StoreWrites
    DEF storeVars, ActivateBegin, ActivateReady, Publish, PruneBatch, Age

\* A longer history has the same prefixes.
LEMMA LongerPrefix ==
  ASSUME NEW n \in Nat, NEW k \in Nat, n <= k, NEW doc, NEW seq \in Nat, IsPrefix(doc, seq, n)
  PROVE  IsPrefix(doc, seq, k)
  <1>1. PICK m \in seq..(n - 1) : doc = 1..m
    BY DEF IsPrefix
  <1>2. m \in seq..(k - 1)
    BY <1>1
  <1> QED
    BY <1>1, <1>2 DEF IsPrefix

\* ... and the history only grows.
LEMMA PrefixGrows ==
  ASSUME TypeInv, HistoryInv, [Next]_vars, NEW doc, NEW seq \in Nat, IsPrefix(doc, seq, nextSeq)
  PROVE  IsPrefix(doc, seq, nextSeq')
  <1>1. nextSeq \in Nat /\ nextSeq' \in Nat /\ nextSeq <= nextSeq'
    BY StoreGrows DEF TypeInv, TypeOK, StoreTypeOK
  <1> QED
    BY <1>1, LongerPrefix

\* A freed slot is the empty prefix.
LEMMA EmptyIsPrefix ==
  ASSUME NEW n \in Nat \ {0}
  PROVE  IsPrefix(FreeArc.doc, FreeArc.processed, n)
  <1>1. FreeArc.doc = 1..0 /\ FreeArc.processed = 0 /\ 0 \in 0..(n - 1)
    BY DEF FreeArc
  <1> QED
    BY <1>1 DEF IsPrefix

\* An activation reads its base and its pages without a hole.
LEMMA PrefixActivations ==
  ASSUME ~RetentionOn, TypeInv, HistoryInv, CheckpointInv, ActivationsInv, PrefixInv,
         [Next]_vars, NEW u \in Tasks
  PROVE  PrefixActivation(pc'[u], act'[u])
  <1>0. /\ nextSeq \in Nat \ {0} /\ pc \in [Tasks -> Locations]
        /\ act \in [Tasks -> Activation] /\ act[u] \in Activation
        /\ act[u].head \in Nat /\ act[u].cursor \in Nat /\ act[u].batch \subseteq Nat
        /\ PrefixActivation(pc[u], act[u])
        /\ act[u].head < nextSeq
    BY DEF TypeInv, TypeOK, StoreTypeOK, RegistryTypeOK, Activation, PrefixInv,
           ActivationsInv, ActivationOK
  <1>1. CASE Same(u)
    BY <1>0, <1>1 DEF Same
  <1>2. CASE pc'[u] \notin Replaying
    BY <1>2 DEF PrefixActivation, Replaying
  <1>3. CASE ReplayDone(u) \/ ActivateReady(u) \/ ReplayPastHead(u)
    <2>1. /\ pc[u] \in Replaying /\ pc'[u] \in {"ready", "install"}
          /\ act'[u].doc = act[u].doc /\ act'[u].cursor = act[u].cursor
      BY <1>0, <1>3 DEF ReplayDone, ActivateReady, ReplayPastHead, Replaying, Activation
    <2> QED
      BY <1>0, <2>1 DEF PrefixActivation
  <1>4. CASE PickBase(u)
    <2>1. PICK b \in snapshots \cup {[seq |-> 0, doc |-> {}]} :
            /\ IsBase(b, act[u].head)
            /\ act' = [act EXCEPT ![u] = [@ EXCEPT !.doc = b.doc, !.cursor = b.seq]]
      BY <1>4 DEF PickBase
    <2>2. b.doc = 1..b.seq
      BY <1>0, <2>1, BaseComplete
    <2>3. pc'[u] = "list" /\ act'[u].doc = b.doc /\ act'[u].cursor = b.seq
      BY <1>0, <1>4, <2>1 DEF PickBase, Activation
    <2> QED
      BY <2>2, <2>3 DEF PrefixActivation
  <1>5. CASE ListEvents(u)
    <2>1. PICK page \in SUBSET events :
            /\ IsPage(page, events, act[u].cursor, PageSize)
            /\ act' = [act EXCEPT ![u] = [@ EXCEPT !.batch = page]]
      BY <1>5 DEF ListEvents
    <2>2. pc[u] = "list" /\ act'[u].doc = act[u].doc /\ act'[u].cursor = act[u].cursor
          /\ act'[u].batch = page
      BY <1>0, <1>5, <2>1 DEF ListEvents, Activation
    <2>3. GapFree(events, act[u].cursor, nextSeq - 1)
      BY <1>0 DEF PrefixInv, GapFree
    <2>4. nextSeq - 1 \in Nat /\ PageSize \in Nat
      BY <1>0, RegistryAssumption
    <2>5. ExtendsPrefix(page, act[u].cursor, nextSeq - 1, PageSize)
      BY <1>0, <2>1, <2>3, <2>4, PageExtends
    <2>6. GapFreeBatch(page, act[u].cursor)
      BY <1>0, <2>5 DEF ExtendsPrefix, GapFreeBatch
    <2> QED
      BY <1>0, <2>2, <2>6 DEF PrefixActivation, Replaying
  <1>6. CASE ReplayEvent(u)
    <2>1. act[u].doc = 1..act[u].cursor /\ GapFreeBatch(act[u].batch, act[u].cursor)
      BY <1>0, <1>6 DEF ReplayEvent, PrefixActivation, Replaying
    <2> QED
      BY <2>1, <1>6, ReplayPrefix DEF GapFreeBatch, PrefixActivation
  <1>7. ASSUME TaskStep(u)
        PROVE  \/ pc'[u] \notin Replaying
               \/ ReplayDone(u) \/ ActivateReady(u) \/ ReplayPastHead(u)
               \/ PickBase(u) \/ ListEvents(u) \/ ReplayEvent(u)
    <2>1. ASSUME NEW result, Finish(u, result)
          PROVE  pc'[u] = "done"
      BY <1>0, <2>1 DEF Finish
    <2>2. CASE \/ EnsureHit(u) \/ EnsureMiss(u) \/ GateHit(u) \/ GateEnter(u)
               \/ ActivateReuse(u) \/ ActivateBegin(u) \/ Install(u)
               \/ CommitLock(u) \/ DedupMiss(u) \/ CandidateValid(u) \/ CommitTx(u)
               \/ CommitTxStale(u) \/ EvictAndRetry(u)
      BY <1>0, <2>2
      DEF EnsureHit, EnsureMiss, GateHit, GateEnter, UseResident, ActivateReuse,
          ActivateBegin, Install, CommitLock, DedupMiss, CandidateValid, CommitTx, CommitTxStale,
          EvictAndRetry, Replaying
    <2>3. CASE \/ ReplayGap(u) \/ ActivateSuperseded(u) \/ ActivateDbError(u) \/ ReadState(u)
               \/ DedupHit(u) \/ RejectEnvelope(u) \/ RejectObserved(u) \/ RejectCandidate(u)
               \/ CommitTxLostAnswer(u) \/ CommitTxDuplicate(u) \/ CommitDbError(u)
               \/ EvictAndGiveUp(u) \/ ApplyCommitted(u) \/ ApplyFailed(u)
      <3>1. \E result : Finish(u, result)
        BY <2>3 DEF ReplayGap, ActivateSuperseded, ActivateDbError, ActivateFail, ReadState,
          DedupHit, RejectEnvelope, RejectObserved, RejectCandidate, CommitTxLostAnswer,
          CommitTxDuplicate,
          CommitDbError, CommitReply, EvictAndGiveUp, ApplyCommitted, ApplyFailed
      <3> QED
        BY <2>1, <3>1 DEF Replaying
    <2> QED
      BY <1>7, <2>2, <2>3 DEF TaskStep, ActivationStep, CommitStep
  <1>8. CASE Submit(u) \/ SubmitRead(u) \/ Deliver(u) \/ Cancel(u)
    BY <1>0, <1>2, <1>8 DEF Submit, SubmitRead, Deliver, Cancel, Replaying
  <1> QED
    BY <1>1, <1>2, <1>3, <1>4, <1>5, <1>6, <1>7, <1>8, OthersStay DEF OwnStep, Replaying

\* A written resident is a prefix, and dropping one leaves an empty prefix.
LEMMA PrefixWrite ==
  ASSUME TypeInv, PrefixInv, NEW j \in Instances, NEW b \in Slots, NEW r,
         DropUnreferenced([arcs EXCEPT ![j][b] = r]), IsPrefix(r.doc, r.processed, nextSeq)
  PROVE  \A i \in Instances, a \in Slots :
           IsPrefix(arcs'[i][a].doc, arcs'[i][a].processed, nextSeq)
  <1>0. nextSeq \in Nat \ {0} /\ arcs \in [Instances -> [Slots -> Resident]]
    BY DEF TypeInv, TypeOK, StoreTypeOK, RegistryTypeOK
  <1> DEFINE f == [arcs EXCEPT ![j][b] = r]
  <1>1. \A i \in Instances, a \in Slots : f[i][a] \in {r, arcs[i][a]}
    BY <1>0
  <1>2. DropUnreferenced(f)
    OBVIOUS
  <1> HIDE DEF f
  <1>3. \A i \in Instances, a \in Slots : arcs'[i][a] \in {r, arcs[i][a], FreeArc}
    BY <1>1, <1>2, DropValue
  <1>4. IsPrefix(FreeArc.doc, FreeArc.processed, nextSeq)
    BY <1>0, EmptyIsPrefix
  <1> QED
    BY <1>3, <1>4 DEF PrefixInv

\* Residents stay prefixes: new, updated, half updated or left behind.
LEMMA PrefixResidents ==
  ASSUME ~RetentionOn, TypeInv, HistoryInv, ActivationsInv, ResidentsInv, PrefixInv,
         [Next]_vars, NEW i \in Instances, NEW a \in Slots
  PROVE  IsPrefix(arcs'[i][a].doc, arcs'[i][a].processed, nextSeq')
  <1>0. /\ nextSeq \in Nat \ {0} /\ arcs \in [Instances -> [Slots -> Resident]]
        /\ arcs' \in [Instances -> [Slots -> Resident]]
        /\ out \in [Tasks -> Result] /\ act \in [Tasks -> Activation]
        /\ arcs'[i][a].processed \in Nat
    BY TypeStep DEF TypeInv, TypeOK, StoreTypeOK, RegistryTypeOK, Resident
  <1>1. SUFFICES IsPrefix(arcs'[i][a].doc, arcs'[i][a].processed, nextSeq)
    BY <1>0, PrefixGrows
  <1>2. CASE arcs' = arcs \/ DropUnreferenced(arcs)
    <2>1. arcs'[i][a] \in {arcs[i][a], FreeArc}
      BY <1>2, DropValue
    <2>2. IsPrefix(FreeArc.doc, FreeArc.processed, nextSeq)
      BY <1>0, EmptyIsPrefix
    <2> QED
      BY <2>1, <2>2 DEF PrefixInv
  <1>3. ASSUME NEW t \in Tasks, Install(t)
        PROVE  IsPrefix(arcs'[i][a].doc, arcs'[i][a].processed, nextSeq)
    <2> DEFINE b == CHOOSE x \in Slots : ~Referenced(inst[t], x)
               r == [doc |-> act[t].doc, processed |-> act[t].cursor, epoch |-> act[t].epoch]
    <2>1. b \in Slots /\ DropUnreferenced([arcs EXCEPT ![inst[t]][b] = r])
      BY <1>3 DEF Install
    <2>2. inst[t] \in Instances /\ pc[t] \in Replaying
      BY <1>3 DEF Install, TypeInv, Placed, Replaying
    <2>3. /\ act[t].doc = 1..act[t].cursor /\ act[t].cursor \in Nat /\ act[t].head \in Nat
          /\ act[t].cursor < nextSeq
      BY <1>0, <2>2
      DEF PrefixInv, PrefixActivation, ActivationsInv, ActivationOK, Activation
    <2>4. r.doc = act[t].doc /\ r.processed = act[t].cursor
      OBVIOUS
    <2> HIDE DEF b, r
    <2>5. IsPrefix(r.doc, r.processed, nextSeq)
      BY <1>0, <2>3, <2>4 DEF IsPrefix
    <2> QED
      BY <2>1, <2>2, <2>5, PrefixWrite
  <1>4. ASSUME NEW t \in Tasks, ApplyCommitted(t) \/ ApplyFailed(t)
        PROVE  IsPrefix(arcs'[i][a].doc, arcs'[i][a].processed, nextSeq)
    <2>1. pc[t] = "apply"
      BY <1>4 DEF ApplyCommitted, ApplyFailed
    <2>2. /\ inst[t] \in Instances /\ held[t] \in Slots
          /\ MyResident(t) \in Resident /\ out[t].seq \in Nat
          /\ ApplyOK(MyResident(t), out[t].seq, nextSeq)
      BY <1>0, <2>1 DEF TypeInv, Placed, LockedAt, MyResident, ResidentsInv, Result
    <2>3. CASE ApplyCommitted(t)
      <3> DEFINE r == [MyResident(t) EXCEPT !.doc = MyResident(t).doc \cup {out[t].seq},
                                            !.processed = out[t].seq]
      <3>1. DropUnreferenced([arcs EXCEPT ![inst[t]][held[t]] = r])
        BY <2>3 DEF ApplyCommitted, MyResident
      <3>2. r.processed = out[t].seq /\ r.doc = MyResident(t).doc \cup {out[t].seq}
        BY <2>2 DEF Resident
      <3> HIDE DEF r
      <3>3. r.doc = 1..out[t].seq
        BY <1>0, <2>2, <3>2 DEF ApplyOK
      <3>4. IsPrefix(r.doc, r.processed, nextSeq)
        BY <1>0, <2>2, <3>2, <3>3 DEF ApplyOK, IsPrefix
      <3> QED
        BY <2>2, <3>1, <3>4, PrefixWrite
    <2>4. CASE ApplyFailed(t)
      <3>1. PICK d \in {{}, {out[t].seq}} :
              DropUnreferenced([arcs EXCEPT ![inst[t]][held[t]] =
                [MyResident(t) EXCEPT !.doc = MyResident(t).doc \cup d]])
        BY <2>4 DEF ApplyFailed, MyResident
      <3> DEFINE r == [MyResident(t) EXCEPT !.doc = MyResident(t).doc \cup d]
      <3>2. DropUnreferenced([arcs EXCEPT ![inst[t]][held[t]] = r])
        BY <3>1
      <3>3. r.processed = MyResident(t).processed /\ r.doc = MyResident(t).doc \cup d
        BY <2>2 DEF Resident
      <3> HIDE DEF r
      <3>4. \E m \in {out[t].seq - 1, out[t].seq} : r.doc = 1..m
        <4>1. CASE d = {}
          BY <2>2, <3>3, <4>1 DEF ApplyOK
        <4>2. CASE d = {out[t].seq}
          <5>1. (1..(out[t].seq - 1)) \cup {out[t].seq} = 1..out[t].seq
            BY <1>0, <2>2 DEF ApplyOK
          <5> QED
            BY <2>2, <3>3, <4>2, <5>1 DEF ApplyOK
        <4> QED
          BY <4>1, <4>2
      <3>5. \A m \in {out[t].seq - 1, out[t].seq} : m \in r.processed..(nextSeq - 1)
        BY <1>0, <2>2, <3>3 DEF ApplyOK
      <3>6. IsPrefix(r.doc, r.processed, nextSeq)
        BY <3>4, <3>5 DEF IsPrefix
      <3> QED
        BY <2>2, <3>2, <3>6, PrefixWrite
    <2> QED
      BY <1>4, <2>3, <2>4
  <1> QED
    BY <1>2, <1>3, <1>4, ArcWrites

\* What a reader has been given stays a prefix until it is delivered.
LEMMA PrefixAnswers ==
  ASSUME ServiceInv, PrefixInv, [Next]_vars, NEW t \in Tasks,
         pc'[t] = "done", out'[t].kind = "state"
  PROVE  IsPrefix(out'[t].doc, out'[t].seq, nextSeq')
  <1>0. /\ TypeInv /\ HistoryInv /\ AnswersInv /\ TypeInv'
        /\ pc \in [Tasks -> Locations] /\ out \in [Tasks -> Result]
        /\ out'[t].seq \in Nat
    BY TypeStep DEF ServiceInv, BoardInv, TypeInv, TypeOK, RegistryTypeOK, Result
  <1>1. SUFFICES IsPrefix(out'[t].doc, out'[t].seq, nextSeq)
    BY <1>0, PrefixGrows
  <1>2. CASE Same(t)
    BY <1>2 DEF Same, PrefixInv, ReadersSeePrefix, IsPrefix
  <1>3. \A result : Finish(t, result) => out'[t] = result
    BY <1>0 DEF Finish
  <1>4. CASE ReadState(t)
    <2>1. inst[t] \in Instances /\ held[t] \in Slots
      BY <1>0, <1>4 DEF ReadState, TypeInv, Placed
    <2>2. IsPrefix(MyResident(t).doc, MyResident(t).processed, nextSeq)
      BY <2>1 DEF MyResident, PrefixInv
    <2>3. out'[t] = [kind |-> "state", seq |-> MyResident(t).processed,
                     doc |-> MyResident(t).doc]
      BY <1>3, <1>4 DEF ReadState
    <2> QED
      BY <2>2, <2>3
  <1>5. CASE DedupHit(t)
    BY <1>3, <1>5 DEF DedupHit, CommitReply, Error
  <1>6. CASE ApplyCommitted(t) \/ ApplyFailed(t)
    BY <1>0, <1>3, <1>6 DEF ApplyCommitted, ApplyFailed, AnswersInv
  <1>7. ASSUME NEW kind \in Transient \cup {"rejected", "invalid"}, FailsWith(t, kind)
        PROVE  FALSE
    <2>1. out'[t].kind = kind
      BY <1>3, <1>7 DEF FailsWith, Error
    <2> QED
      BY <1>7, <2>1 DEF Transient
  <1>8. ~Proceeds(t) /\ ~CommitTx(t)
    BY <1>0 DEF Proceeds, CommitTx
  <1>9. ~CommitTxLostAnswer(t)
    BY <1>3 DEF CommitTxLostAnswer, Error
  <1>10. ~Submit(t) /\ ~SubmitRead(t) /\ ~Deliver(t) /\ ~Cancel(t)
    BY <1>0 DEF Submit, SubmitRead, Deliver, Cancel
  <1> QED
    BY <1>0, <1>2, <1>4, <1>5, <1>6, <1>7, <1>8, <1>9, <1>10, OthersStay, TaskOutcome
    DEF OwnStep

\* With the retention job off, as it is by default, the state given to a
\* reader is a prefix of the history at least as long as its label says,
\* whichever resident, evicted or half updated, it was read from.
THEOREM ReadsArePrefixes == ~RetentionOn => (Spec => []ReadersSeePrefix)
  <1> SUFFICES ASSUME ~RetentionOn PROVE Spec => []ReadersSeePrefix
    OBVIOUS
  <1>1. Init => PrefixInv
    <2> SUFFICES ASSUME Init PROVE PrefixInv
      OBVIOUS
    <2>1. /\ nextSeq = 1 /\ journal = {} /\ events = {}
          /\ \A t \in Tasks : pc[t] = "idle" /\ act[t] = NoActivation
          /\ \A i \in Instances, a \in Slots : arcs[i][a] = FreeArc
      BY DEF Init, StoreInit, RegistryInit
    <2>2. journal = 1..(nextSeq - 1) /\ events = 1..(nextSeq - 1) /\ nextSeq \in Nat \ {0}
      BY <2>1
    <2> QED
      BY <2>1, <2>2, EmptyIsPrefix
      DEF PrefixInv, PrefixActivation, Replaying, ReadersSeePrefix
  <1>2. ServiceInv /\ PrefixInv /\ [Next]_vars => PrefixInv'
    <2> SUFFICES ASSUME ServiceInv, PrefixInv, [Next]_vars PROVE PrefixInv'
      OBVIOUS
    <2>1. TypeInv /\ HistoryInv /\ CheckpointInv /\ ActivationsInv /\ ResidentsInv
      BY DEF ServiceInv, BoardInv
    <2>2. ReadersSeePrefix'
      BY PrefixAnswers DEF ReadersSeePrefix, IsPrefix
    <2> QED
      BY <2>1, <2>2, NothingDeleted, PrefixActivations, PrefixResidents DEF PrefixInv
  <1>3. PrefixInv => ReadersSeePrefix
    BY DEF PrefixInv
  <1> QED
    BY <1>1, <1>2, <1>3, ServiceInvariance, PTL DEF Spec
=============================================================================
