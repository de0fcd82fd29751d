-------------------------- MODULE BackgroundProofs --------------------------
(***************************************************************************)
(* A candidate gets the verdict on itself, for any number of workers and   *)
(* calls, any room in the queue and any number of failed starts. Since     *)
(* every request carries the same seq, the argument is about the pipes:    *)
(* between two jobs they are empty, and during one they hold at most that  *)
(* job.                                                                    *)
(***************************************************************************)
EXTENDS MCBackground, TLAPS

-----------------------------------------------------------------------------
(* The validator pool *)

Verdicts == {"none", "error", "accept", "reject"}
Children ==
  [owned : BOOLEAN, up : BOOLEAN, hung : BOOLEAN, requests : Seq(Jobs), replies : Seq(Jobs)]

\* The types, and the invariants of the pool: a busy worker holds a job, and the
\* pipes of its child have nothing of another.
PoolTypes ==
  /\ calls \in [Jobs -> {"idle", "new", "waiting", "answered"}]
  /\ verdict \in [Jobs -> Verdicts]
  /\ pending \in Seq(Jobs)
  /\ holds \in [Workers -> Seq(Jobs)]
  /\ wPc \in [Workers -> {"idle", "spawn", "write", "read"}]
  /\ child \in [Workers -> Children]

BusyHolds == \A w \in Workers : wPc[w] # "idle" => \E j \in Jobs : holds[w] = <<j>>

\* The pipes of c hold nothing but the one job in h, once at most.
OnlyOf(c, h) ==
  \/ c.requests = <<>> /\ c.replies \in {<<>>, h}
  \/ c.requests = h /\ c.replies = <<>>

Quiet(c) == c.requests = <<>> /\ c.replies = <<>>

PipesClean ==
  \A w \in Workers :
    /\ wPc[w] = "read" => OnlyOf(child[w], holds[w])
    /\ wPc[w] # "read" => Quiet(child[w])

PoolInv == PoolTypes /\ BusyHolds /\ PipesClean /\ ValidatorPool!VerdictIsOwn

-----------------------------------------------------------------------------
\* A sequence of none, and of one.
LEMMA EmptySeq == <<>> \in Seq(Jobs)
  OBVIOUS

\* The facts about a queue of one element the pipes need.
LEMMA OneElement ==
  ASSUME NEW j \in Jobs
  PROVE  /\ Head(<<j>>) = j /\ Tail(<<j>>) = <<>> /\ Append(<<>>, j) = <<j>>
         /\ <<j>> # <<>> /\ <<j>> \in Seq(Jobs) /\ <<>> \in Seq(Jobs)
  OBVIOUS

\* The renderer's answer is a verdict, and a worker without a child has quiet pipes.
LEMMA Answers ==
  /\ \A j \in Jobs : ValidatorPool!Says(j) \in Verdicts
  /\ ValidatorPool!NoChild \in Children /\ Quiet(ValidatorPool!NoChild)
  BY EmptySeq DEF ValidatorPool!Says, Verdicts, ValidatorPool!NoChild, Children, Quiet

\* The pool begins well.
LEMMA PoolInit == Init => PoolInv
  BY Answers, EmptySeq
  DEF Init, ValidatorPool!Init, Verdicts, PoolInv, PoolTypes, BusyHolds, PipesClean,
      ValidatorPool!VerdictIsOwn

\* Answering the caller with something it may be told, and leaving the child's
\* pipes quiet, keeps the invariant.
LEMMA ReplyKeeps ==
  ASSUME PoolInv, NEW w \in Workers, NEW j \in Jobs, NEW r, wPc[w] # "idle",
         holds[w] = <<j>>, r \in {"error", ValidatorPool!Says(j)},
         ValidatorPool!Reply(w, r), UNCHANGED pending,
         NEW c \in Children, Quiet(c), child' = [child EXCEPT ![w] = c]
  PROVE  PoolInv'
<1>1. Head(holds[w]) = j /\ r \in Verdicts
  BY OneElement, Answers DEF Verdicts
<1>2. PoolTypes'
  BY <1>1, EmptySeq DEF PoolInv, PoolTypes, ValidatorPool!Reply
<1>3. BusyHolds'
  BY DEF PoolInv, PoolTypes, BusyHolds, ValidatorPool!Reply
<1>4. PipesClean'
  <2> SUFFICES ASSUME NEW x \in Workers
               PROVE  /\ wPc'[x] = "read" => OnlyOf(child'[x], holds'[x])
                      /\ wPc'[x] # "read" => Quiet(child'[x])
    BY DEF PipesClean
  <2>1. CASE x = w
    BY <2>1 DEF PoolInv, PoolTypes, ValidatorPool!Reply
  <2>2. CASE x # w
    BY <2>2 DEF PoolInv, PoolTypes, PipesClean, ValidatorPool!Reply
  <2> QED BY <2>1, <2>2
<1>5. ValidatorPool!VerdictIsOwn'
  BY <1>1 DEF PoolInv, PoolTypes, ValidatorPool!VerdictIsOwn, ValidatorPool!Reply
<1> QED BY <1>2, <1>3, <1>4, <1>5 DEF PoolInv

\* The calls of validate touch neither workers nor verdicts.
LEMMA CallKeeps ==
  ASSUME PoolInv, NEW j \in Jobs, ValidatorPool!Ask(j) \/ ValidatorPool!Validate(j)
  PROVE  PoolInv'
<1>1. PoolTypes'
  <2>1. Append(pending, j) \in Seq(Jobs)
    BY DEF PoolInv, PoolTypes
  <2> QED BY <2>1 DEF PoolInv, PoolTypes, ValidatorPool!Ask, ValidatorPool!Validate
<1>2. BusyHolds' /\ PipesClean' /\ ValidatorPool!VerdictIsOwn'
  BY DEF PoolInv, BusyHolds, PipesClean, ValidatorPool!VerdictIsOwn, ValidatorPool!Ask,
         ValidatorPool!Validate
<1> QED BY <1>1, <1>2 DEF PoolInv

\* A worker takes a job: its pipes are as they were, quiet.
LEMMA TakeKeeps ==
  ASSUME PoolInv, NEW w \in Workers, ValidatorPool!Take(w)
  PROVE  PoolInv'
<1>1. Head(pending) \in Jobs /\ Tail(pending) \in Seq(Jobs)
  BY DEF PoolInv, PoolTypes, ValidatorPool!Take
<1>2. PoolTypes'
  BY <1>1, OneElement DEF PoolInv, PoolTypes, ValidatorPool!Take
<1>3. BusyHolds'
  BY <1>1 DEF PoolInv, PoolTypes, BusyHolds, ValidatorPool!Take
<1>4. PipesClean'
  BY DEF PoolInv, PoolTypes, PipesClean, ValidatorPool!Take
<1>5. ValidatorPool!VerdictIsOwn'
  BY DEF PoolInv, ValidatorPool!VerdictIsOwn, ValidatorPool!Take
<1> QED BY <1>2, <1>3, <1>4, <1>5 DEF PoolInv

\* A started child has empty pipes; a failed start is an error to the caller.
LEMMA SpawnKeeps ==
  ASSUME PoolInv, NEW w \in Workers, ValidatorPool!SpawnWorker(w)
  PROVE  PoolInv'
<1>1. PICK j \in Jobs : holds[w] = <<j>>
  BY DEF PoolInv, BusyHolds, ValidatorPool!SpawnWorker
<1>2. CASE /\ child' = [child EXCEPT ![w] = [ValidatorPool!NoChild EXCEPT !.owned = TRUE, !.up = TRUE]]
           /\ wPc' = [wPc EXCEPT ![w] = "write"]
           /\ UNCHANGED <<calls, verdict, holds, spawnFaults>>
  <2>1. /\ [ValidatorPool!NoChild EXCEPT !.owned = TRUE, !.up = TRUE] \in Children
        /\ Quiet([ValidatorPool!NoChild EXCEPT !.owned = TRUE, !.up = TRUE])
    BY EmptySeq DEF ValidatorPool!NoChild, Children, Quiet
  <2>2. PoolTypes'
    BY <1>2, <2>1 DEF PoolInv, PoolTypes, ValidatorPool!SpawnWorker
  <2>3. BusyHolds' /\ ValidatorPool!VerdictIsOwn'
    BY <1>1, <1>2 DEF PoolInv, PoolTypes, BusyHolds, ValidatorPool!VerdictIsOwn
  <2>4. PipesClean'
    BY <1>2, <2>1 DEF PoolInv, PoolTypes, PipesClean
  <2> QED BY <2>2, <2>3, <2>4 DEF PoolInv
<1>3. CASE ValidatorPool!Reply(w, "error") /\ UNCHANGED child
  <2>1. child[w] \in Children /\ Quiet(child[w]) /\ child' = [child EXCEPT ![w] = child[w]]
    BY <1>3 DEF PoolInv, PoolTypes, PipesClean, ValidatorPool!SpawnWorker
  <2> QED BY <1>1, <1>3, <2>1, ReplyKeeps DEF ValidatorPool!SpawnWorker
<1> QED BY <1>2, <1>3 DEF ValidatorPool!SpawnWorker

\* write_frame puts the job into a quiet pipe.
LEMMA WriteKeeps ==
  ASSUME PoolInv, NEW w \in Workers, ValidatorPool!WriteRequest(w)
  PROVE  PoolInv'
<1>1. PICK j \in Jobs : holds[w] = <<j>>
  BY DEF PoolInv, BusyHolds, ValidatorPool!WriteRequest
<1>2. child[w] \in Children /\ child[w].requests = <<>> /\ child[w].replies = <<>>
  BY DEF PoolInv, PoolTypes, PipesClean, Quiet, ValidatorPool!WriteRequest
<1>3. child' = [child EXCEPT ![w] = [child[w] EXCEPT !.requests = <<j>>]]
  BY <1>1, <1>2, OneElement DEF PoolInv, PoolTypes, ValidatorPool!WriteRequest
<1>4. PoolTypes'
  <2>1. [child[w] EXCEPT !.requests = <<j>>] \in Children
    BY <1>2, OneElement DEF Children
  <2> QED BY <1>3, <2>1 DEF PoolInv, PoolTypes, ValidatorPool!WriteRequest
<1>5. BusyHolds' /\ ValidatorPool!VerdictIsOwn'
  BY <1>1 DEF PoolInv, PoolTypes, BusyHolds, ValidatorPool!VerdictIsOwn, ValidatorPool!WriteRequest
<1>6. PipesClean'
  BY <1>1, <1>2, <1>3 DEF PoolInv, PoolTypes, PipesClean, Children, OnlyOf, ValidatorPool!WriteRequest
<1> QED BY <1>4, <1>5, <1>6 DEF PoolInv

\* The renderer moves the job from one pipe to the other, or loses it.
LEMMA RendererKeeps ==
  ASSUME PoolInv, NEW w \in Workers, ValidatorPool!Renderer(w)
  PROVE  PoolInv'
<1>1. child[w] \in Children
  BY DEF PoolInv, PoolTypes
<1>2. PICK c \in Children :
        /\ child' = [child EXCEPT ![w] = c]
        /\ wPc[w] = "read" => OnlyOf(c, holds[w])
        /\ wPc[w] # "read" => Quiet(c)
  <2>1. CASE /\ ~child[w].hung /\ child[w].requests # <<>>
             /\ child' = [child EXCEPT ![w].requests = Tail(@),
                                       ![w].replies = Append(@, Head(child[w].requests))]
    <3>1. wPc[w] = "read"
      BY <2>1 DEF PoolInv, PipesClean, Quiet
    <3>2. PICK j \in Jobs : holds[w] = <<j>>
      BY <3>1 DEF PoolInv, BusyHolds
    <3>3. child[w].requests = <<j>> /\ child[w].replies = <<>>
      BY <2>1, <3>1, <3>2 DEF PoolInv, PipesClean, OnlyOf
    <3>4. child' = [child EXCEPT ![w] = [child[w] EXCEPT !.requests = <<>>, !.replies = <<j>>]]
      BY <1>1, <2>1, <3>3, OneElement DEF PoolInv, PoolTypes, Children
    <3>5. [child[w] EXCEPT !.requests = <<>>, !.replies = <<j>>] \in Children
      BY <1>1, OneElement DEF Children
    <3>6. OnlyOf([child[w] EXCEPT !.requests = <<>>, !.replies = <<j>>], <<j>>)
      BY <1>1 DEF Children, OnlyOf
    <3> QED BY <3>1, <3>2, <3>4, <3>5, <3>6
  <2>2. CASE child' = [child EXCEPT ![w].hung = TRUE]
    <3>1. [child[w] EXCEPT !.hung = TRUE] \in Children
      BY <1>1 DEF Children
    <3>2. /\ wPc[w] = "read" => OnlyOf([child[w] EXCEPT !.hung = TRUE], holds[w])
          /\ wPc[w] # "read" => Quiet([child[w] EXCEPT !.hung = TRUE])
      BY <1>1 DEF PoolInv, PipesClean, Children, OnlyOf, Quiet
    <3>3. child' = [child EXCEPT ![w] = [child[w] EXCEPT !.hung = TRUE]]
      BY <2>2
    <3> QED BY <3>1, <3>2, <3>3
  <2>3. CASE child' = [child EXCEPT ![w] = ValidatorPool!Dead(child[w])]
    <3>1. ValidatorPool!Dead(child[w]) \in Children
      BY <1>1, EmptySeq DEF ValidatorPool!Dead, ValidatorPool!NoChild, Children
    <3>2. /\ wPc[w] = "read" =>
               OnlyOf(ValidatorPool!Dead(child[w]), holds[w])
          /\ wPc[w] # "read" => Quiet(ValidatorPool!Dead(child[w]))
      BY <1>1 DEF PoolInv, PipesClean, ValidatorPool!Dead, ValidatorPool!NoChild, Children, OnlyOf, Quiet
    <3> QED BY <2>3, <3>1, <3>2
  <2> QED BY <2>1, <2>2, <2>3 DEF ValidatorPool!Renderer
<1>3. PoolTypes'
  BY <1>2 DEF PoolInv, PoolTypes, ValidatorPool!Renderer
<1>4. BusyHolds' /\ ValidatorPool!VerdictIsOwn'
  BY DEF PoolInv, BusyHolds, ValidatorPool!VerdictIsOwn, ValidatorPool!Renderer
<1>5. PipesClean'
  BY <1>2 DEF PoolInv, PoolTypes, PipesClean, ValidatorPool!Renderer
<1> QED BY <1>3, <1>4, <1>5 DEF PoolInv

\* The first reply in the pipe is the reply to the job the worker holds, and the
\* only one.
LEMMA ReadKeeps ==
  ASSUME PoolInv, NEW w \in Workers, ValidatorPool!ReadReply(w)
  PROVE  PoolInv'
<1>1. PICK j \in Jobs : holds[w] = <<j>>
  BY DEF PoolInv, BusyHolds, ValidatorPool!ReadReply
<1>2. child[w] \in Children /\ child[w].requests = <<>> /\ child[w].replies = <<j>>
  BY <1>1 DEF PoolInv, PoolTypes, PipesClean, OnlyOf, ValidatorPool!ReadReply
<1>3. /\ ValidatorPool!Reply(w, ValidatorPool!Says(j))
      /\ child' = [child EXCEPT ![w].replies = Tail(@)] /\ UNCHANGED pending
  BY <1>1, <1>2, OneElement DEF ValidatorPool!ReadReply, ValidatorPool!seq
<1>4. child' = [child EXCEPT ![w] = [child[w] EXCEPT !.replies = <<>>]]
  BY <1>2, <1>3, OneElement DEF PoolInv, PoolTypes, Children
<1>5. [child[w] EXCEPT !.replies = <<>>] \in Children
      /\ Quiet([child[w] EXCEPT !.replies = <<>>])
  BY <1>2, OneElement DEF Children, Quiet
<1> QED BY <1>1, <1>3, <1>4, <1>5, ReplyKeeps DEF ValidatorPool!ReadReply

\* An error, in time or after it: the child goes, and its pipes with it.
LEMMA GiveUpKeeps ==
  ASSUME PoolInv, NEW w \in Workers, ValidatorPool!ReadFails(w) \/ ValidatorPool!Timeout(w)
  PROVE  PoolInv'
<1>1. /\ wPc[w] # "idle" /\ ValidatorPool!Reply(w, "error")
      /\ child' = [child EXCEPT ![w] = ValidatorPool!NoChild] /\ UNCHANGED pending
  BY DEF ValidatorPool!ReadFails, ValidatorPool!Timeout
<1>2. PICK j \in Jobs : holds[w] = <<j>>
  BY <1>1 DEF PoolInv, BusyHolds
<1> QED BY <1>1, <1>2, Answers, ReplyKeeps

\* worker_loop drops its child after anything but a clean exchange, which is why a
\* candidate never gets the verdict on another though all requests carry seq 0.
THEOREM VerdictsAreOwn == Spec => []VerdictIsOwn
<1>1. PoolInv /\ [Next]_<<part, sessionOf, process, presenceVars, poolVars, storageVars>> => PoolInv'
  <2> SUFFICES ASSUME PoolInv, [Next]_<<part, sessionOf, process, presenceVars, poolVars, storageVars>>
               PROVE  PoolInv'
    OBVIOUS
  <2>1. CASE UNCHANGED poolVars
    BY <2>1
    DEF PoolInv, PoolTypes, BusyHolds, PipesClean, Quiet, OnlyOf, ValidatorPool!VerdictIsOwn, poolVars
  <2>2. CASE ValidatorPool!Next
    BY <2>2, CallKeeps, TakeKeeps, SpawnKeeps, WriteKeeps, RendererKeeps, ReadKeeps,
       GiveUpKeeps DEF ValidatorPool!Next
  <2> QED BY <2>1, <2>2 DEF Next
<1>2. PoolInv => VerdictIsOwn
  BY DEF PoolInv, VerdictIsOwn
<1> QED BY <1>1, <1>2, PoolInit, PTL DEF Spec
=============================================================================
