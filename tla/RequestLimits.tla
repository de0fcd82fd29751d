---------------------------- MODULE RequestLimits ----------------------------
(***************************************************************************)
(* The daily request limit of one account, within one day. authorize       *)
(* counts in a cache that is read and rewritten in two steps, refills it   *)
(* from the usage table when its entry has expired, and queues a record    *)
(* that a background task writes to that table once a minute.              *)
(***************************************************************************)
EXTENDS Integers, FiniteSets

CONSTANTS
  Handlers,     \* requests that can be in progress together
  TierLimit,    \* requests_per_day of the account's tier
  QueueLimit,   \* MAX_USAGE_QUEUE
  MaxRequests,  \* bound: requests ever admitted
  MaxFaults     \* bound: flushes that fail

NoEntry == -1

VARIABLES
  cached,       \* request_count in RATE_LIMIT_CACHE, or NoEntry
  usage,        \* rows of the account in the usage table
  queue,        \* records of the account in USAGE_QUEUE
  reqPc,        \* handler -> where it is
  seen,         \* handler -> the count it has read
  admitted,     \* history: requests let through
  missed,       \* history: the most records still queued when the table was read
  crowded,      \* history: two requests were in progress together
  dropped       \* history: records lost to a full queue or a failed flush

reqVars == <<cached, usage, queue, reqPc, seen, admitted, missed, crowded, dropped>>

Init ==
  /\ cached = NoEntry /\ usage = 0 /\ queue = 0
  /\ reqPc = [h \in Handlers |-> "idle"] /\ seen = [h \in Handlers |-> 0]
  /\ admitted = 0 /\ missed = 0 /\ crowded = FALSE /\ dropped = 0

Goto(h, where) == reqPc' = [reqPc EXCEPT ![h] = where]

Larger(a, b) == IF a < b THEN b ELSE a

-----------------------------------------------------------------------------
\* authorize up to RATE_LIMIT_CACHE.get; a full count is refused at once.
Authorize(h) ==
  /\ reqPc[h] = "idle" /\ admitted < MaxRequests
  /\ crowded' = (crowded \/ \E i \in Handlers : reqPc[i] # "idle")
  /\ \/ /\ cached = NoEntry
        /\ Goto(h, "count") /\ UNCHANGED seen
     \/ /\ cached # NoEntry /\ cached < TierLimit
        /\ seen' = [seen EXCEPT ![h] = cached]
        /\ Goto(h, "increment")
     \/ cached >= TierLimit /\ UNCHANGED <<reqPc, seen>>
  /\ UNCHANGED <<cached, usage, queue, admitted, missed, dropped>>

\* Mutant of Increment: the count is written back as it was read.
IncrementMutant(h) ==
  /\ reqPc[h] = "increment"
  /\ cached' = seen[h]
  /\ Goto(h, "queue")
  /\ UNCHANGED <<usage, queue, seen, admitted, missed, crowded, dropped>>

\* The entry is replaced by the count that was read plus one.
Increment(h) ==
  /\ reqPc[h] = "increment"
  /\ cached' = seen[h] + 1
  /\ Goto(h, "queue")
  /\ UNCHANGED <<usage, queue, seen, admitted, missed, crowded, dropped>>

\* The rows of the last 24 hours.
CountUsage(h) ==
  /\ reqPc[h] = "count"
  /\ seen' = [seen EXCEPT ![h] = usage]
  /\ missed' = Larger(missed, queue)
  /\ Goto(h, "refill")
  /\ UNCHANGED <<cached, usage, queue, admitted, crowded, dropped>>

\* The entry does not count the request that fills it.
Refill(h) ==
  /\ reqPc[h] = "refill"
  /\ cached' = seen[h]
  /\ Goto(h, IF seen[h] >= TierLimit THEN "idle" ELSE "queue")
  /\ UNCHANGED <<usage, queue, seen, admitted, missed, crowded, dropped>>

\* The record is queued, or dropped when the queue is full, and the handler runs.
QueueRecord(h) ==
  /\ reqPc[h] = "queue"
  /\ IF queue < QueueLimit
     THEN queue' = queue + 1 /\ UNCHANGED dropped
     ELSE dropped' = dropped + 1 /\ UNCHANGED queue
  /\ admitted' = admitted + 1
  /\ Goto(h, "idle")
  /\ UNCHANGED <<cached, usage, seen, missed, crowded>>

\* flush_usage_queue, under the queue's lock; the queue is cleared after an error too.
FlushUsageQueue ==
  /\ queue > 0
  /\ queue' = 0
  /\ \/ usage' = usage + queue /\ UNCHANGED dropped
     \/ dropped < MaxFaults /\ dropped' = dropped + queue /\ UNCHANGED usage
  /\ UNCHANGED <<cached, reqPc, seen, admitted, missed, crowded>>

\* Five minutes without an insert.
EntryExpires ==
  /\ cached # NoEntry
  /\ cached' = NoEntry
  /\ UNCHANGED <<usage, queue, reqPc, seen, admitted, missed, crowded, dropped>>

Next ==
  \/ \E h \in Handlers :
       Authorize(h) \/ Increment(h) \/ CountUsage(h) \/ Refill(h) \/ QueueRecord(h)
  \/ FlushUsageQueue \/ EntryExpires

-----------------------------------------------------------------------------
(* Properties *)

(***************************************************************************)
(* An account whose requests do not overlap makes no more than its daily   *)
(* limit, but for the request that fills the cache, the records that were  *)
(* still queued when the table was counted, and the records that were lost.*)
(***************************************************************************)
RequestsWithinLimit ==
  ~crowded => admitted <= TierLimit + 1 + missed + dropped
=============================================================================
