# Formal verification of the nezumo server

TLA+ models of the server under `src/src`, TLC configurations that check them,
and theorems about them whose proofs TLAPS checks.

## 1. The system

Nezumo is a collaborative whiteboard server (axum, tokio, PostgreSQL, Redis, an
object store). Several server instances run behind a round-robin balancer
(`src/docker/compose.loadbalanced.yml`). A board is a Yrs (CRDT) document whose
canonical history is the event log in PostgreSQL.

| component | state it keeps | operations | interacts with | what is hard |
|---|---|---|---|---|
| canonical store (`database/yrs_*.rs`, `events.rs`) | head row (state, epoch, processed seq), next seq, journal, events, checkpoints, read models | begin_activation, mark_ready, the commit transaction, publish_snapshot_cas, prune | every component | fences (CAS) instead of locks; one transaction writes six tables |
| coordinator registry (`state/coordinator_registry.rs`) | per process: resident documents, activation gates | ensure_active, activate, commit, current state | store, validator, handlers | residents of the same board on several instances; state read before awaits; lost answers |
| compaction and retention (`jobs/yrs_*.rs`) | none of their own | checkpoint the head, prune history below two checkpoints | store, concurrently with activations and commits | no lock while reading; deletes what others are reading |
| fan-out (`state/yrs_fanout.rs`) | per process: a delivery cursor per board | register_board, publish, notice, repair | store, Redis, hub | lost notices; concurrent replays of the same journal |
| realtime hub and sockets (`realtime.rs`, `handlers/realtime.rs`) | broadcast rings, receivers, ack queues | subscribe, broadcast, lag, resync, teardown | fan-out, registry, clients | ring overflow; debounced resync; eviction of idle boards |
| presence (`cache/sessions.rs`, `jobs/session_cleanup.rs`) | a Redis set with an expiry, and heartbeat keys | connect, tick, close, sweep | sockets, Redis, the hub of one process | death without teardown; sweep racing a reconnect; keys that expire under an open socket; lists that reach one process only |
| validator pool (`state/yrs_validator.rs`) | workers, a bounded queue, child processes | validate, time out, respawn | registry | a late reply; a renderer that hangs |
| boards and their objects (`handlers/boards.rs`, `handlers/import.rs`, `database/quotas.rs`, `storage/`, `jobs/storage_cleanup.rs`) | board and file rows, quotas, objects, deletion jobs | create, upload, import, delete, empty a prefix, collect files | PostgreSQL and a bucket without transactions | one of two stores fails; uploads in progress under a deletion |
| previews (`jobs/previews.rs`) | a thumbnail and its stamp | render, store, stamp | store, bucket, renderer | two replicas, commits and deletion between any two steps |
| archive (`handlers/export.rs`, `handlers/import.rs`) | none | export, import | bucket | two separate computations of the same references |
| access (`handlers/boards.rs`, `events.rs`, `board_embed.rs`, `database/board_members.rs`) | members, invitations, visibility, embed tokens | invite, accept, change, remove, read | every read path | each path has its own check; check, then write |
| sign-in (`handlers/login.rs`, `totp.rs`, `oauth.rs`, `middlewares/auth.rs`) | challenges, enrolments, secrets, OAuth states, request counts | sign in, enrol, disable, link | Redis, mail, providers | limits on guesses under overlapping requests |
| accounts (`handlers/*_users.rs`, `*_apikeys.rs`) | users, links, codes, keys, pictures | register, add address, reset, rotate, delete | mail, bucket | check first, write later |
| projects, voting | statuses, sessions, votes | seed, append; start, vote, end | hub | limits checked before they are used |
| settings, mail, wiring | rows read by single statements | | | |

PROJECT.json lists every component with its files, and the hazards with the line
each is at.

## 2. Modules

| module | models |
|---|---|
| `CanonicalStore` | the PostgreSQL state of one board's history and the transactions on it |
| `CoordinatorRegistry` | the registries of all instances and the handlers using them |
| `Compaction` | the checkpoint and retention jobs |
| `CanonicalBoard` | the composition of the three, and the properties |
| `CanonicalLog` | the abstract promise: one append-only, exactly-once log |
| `MCCanonicalBoard`, `MCSeeded` | instances for TLC, from an empty board and from one with a history |
| `RealtimeHub`, `Fanout`, `Realtime` | the durable channel of a board; the delivery cursor, replays, notices and repair; WebSocket sessions on the two (`MCRealtime`) |
| `Voting` | voting sessions and their handlers |
| `SecondFactor` | challenges, enrolment, disabling and resetting of TOTP (`MCSecondFactor`) |
| `Accounts` | registration, OAuth sign-in, added addresses, deletion |
| `ApiKeys`, `Passwords`, `Administration`, `ProfilePictures`, `RequestLimits` | one service of an account each |
| `BoardAccess`, `EmbedTokens`, `ProjectStatuses` | members, invitations and read paths of a board; its embed tokens; the statuses of a project |
| `BoardStorage` | boards of an owner, uploads, imports, quotas, deletion and the cleanup queue |
| `AssetGc` | collection of files that left a board, under the asset fence |
| `Previews` | the thumbnail of a board |
| `BoardArchive` | what an export packs and what an import accepts and rewrites |
| `PresenceSessions` | the session set, heartbeats, expiry, and the cleanup job of each process |
| `ValidatorPool` | workers, queue, children and their pipes |
| `MCMeeting` | instances of `Voting` and `PresenceSessions` |
| `MCUserServices`, `MCBoards`, `MCBackground` | instances of several of these at once |
| `HistoryProofs`, `ResidentProofs` | theorems about `CanonicalBoard`; the second extends the first and shows the refinement |
| `RealtimeProofs` | theorems about `Realtime`, with the hub and the fan-out |
| `MeetingProofs` | theorems about `Voting`, and about `PresenceSessions` |
| `SecondFactorProofs` | theorems about `SecondFactor` |
| `ServiceProofs`, `BackgroundProofs` | theorems about `MCUserServices`, and about the validator pool in `MCBackground` |
| `BoardsProofs` | theorems about the four parts of `MCBoards` |

The last four MC modules put side by side services that share no state in the
models. A behaviour exercises one of them, the one its variable `part` (`scene`) names:
interleaving them would multiply the states and could show nothing that one of
them alone does not. Their properties are conjunctions of the named properties
of the parts, where they are stated and explained. `BoardStorage` and
`PresenceSessions` are in two of them: with failures, and the safety properties,
in `boards` and `meeting`; with fairness, and the liveness properties, in
`background`.

In every module a request is a handler with a `pc` that names the statement or
await it is at; one action is what the code does from there to the next one.
Refusals that change nothing are not actions. A transaction is one action when
it takes the lock that decides first. Tokens, codes, hashes and payloads are
opaque. Statements and calls fail at most a bounded number of times in a
behaviour. History variables (`overlapped`, `cut`, `late`, `raced` and the like)
record the circumstances a property excepts; actions do not depend on them.

### The canonical board

The store is one record per table: `head` (`board_yrs_heads`), `nextSeq`
(`boards.next_event_seq`), `rows` (all journal rows ever written), `journal` and
`events` (those retention has left), `snapshots`, and the seqs the two read
models were written at. A document is the set of seqs folded into it: CRDT
merging is commutative and idempotent, so which updates are in is what the
registry can get wrong.

The steps of a task are `EnsureHit`/`EnsureMiss`, the gate (`GateHit`,
`GateEnter`), `activate` (`ActivateReuse`, `ActivateBegin`, `PickBase`,
`ListEvents`, `ReplayEvent`, `ActivateReady`, `Install` and their failures),
`commit_once` under the resident's mutex (`CommitLock`, the dedup read with
`DedupHit` and `DedupMiss`, then the verdicts `RejectObserved`,
`RejectCandidate`, `CandidateValid`, then `CommitTx` and its three other endings,
`ApplyCommitted`, `ApplyFailed`), and the loop of `commit` (`EvictAndRetry`,
`EvictAndGiveUp`). Residents live in slots so that an evicted one that a task
still holds stays a different object from its replacement, as with `Arc`.

Any instance may crash (its residents and tasks are gone), a handler may be
cancelled at an await, a statement may fail, and COMMIT's answer may be lost
with the commit done. Validation of the candidate is nondeterministic.
`Compaction` has one action for each read or write of `compact_one` and one for
`prune_compacted_batch`, which is one statement.

### Realtime

`chan`, `sender`, `rx` and `queue` are the hub's map entry, the clones of its
`Sender` held across awaits, the receivers and what each has yet to read; a
queue longer than `Capacity` is a receiver that will see `Lagged`. `cursor` is
`delivered` of the board. Replays are run by commit handlers (`publish`), the
Redis subscriber and the repair poller, all in `reconcile_board`: `Reconcile`,
`ListRows`, `RowDelivered`/`TakeRow` (`advance_cursor`, under its mutex),
`GetChannel` and `Send` are separate steps, since the lock is not held across
them. Commits of other instances are `RemoteCommit`, whose notice may be lost.
`Orphans` are rows whose event retention has removed; the code answers them with
a resync. A session registers, takes the channel, subscribes, and its client
then loads the board. The browser is external: it loads the board through the
head when its socket opens and when told to resync, and merges what it receives.

### Voting

The rows of the three tables and, per handler, the session row it has loaded.
Each SQL statement is an action. `shown` is what a client that gets every frame
keeps: the frame with the highest `rev`. `outdated` marks sessions that a handler
bumped after their end.

### Accounts and sign-in

`SecondFactor` keeps the secret, the enrolment row and the challenges of an
account, and the Redis counter of wrong disable codes with its expiry. `checked`
and `tried` count the codes that were compared for a challenge or a secret: what
the attempts columns are meant to limit. `Accounts` keeps users, addresses, the
proof of each address (the mailed code), requests for an address, identity links
and OAuth states. The UNIQUE and FOREIGN KEY constraints are guards of the
statements they make fail. `ProviderOf` and `EmailOf` are what a provider says of
an identity: one provider names no address. The other five modules follow one
handler family each.

### Boards

`BoardStorage` tells rows (which change in transactions) from objects (which do
not): an upload stores, then records, then takes back what was refused; an import
creates its board first; deleting a board enqueues its prefix, by the trigger,
and the worker lists, deletes and completes or postpones. `late`, `abandoned`
and `stranded` are files stored after their prefix was listed for good, files
whose upload ended without cleaning up, and boards whose creation ended without
being undone. `AssetGc` is one pass over one board with the
fence that keeps commits out; `Previews` has a clock, because what decides
whether a board is due is a comparison of two times taken at different moments.
Its board may be one that is being imported (`importPc`), with a thumbnail from
the archive, which need not be a picture of the imported state (`Foreign`).
`BoardArchive` is a pure pipeline: a source board, what export packs, what may
happen to the file, what import accepts.

### Presence and validator

In `PresenceSessions` each Redis call of connect, tick, close and the cleanup job
is a step, and two sockets may share a session id, as a reconnecting client's do.
Three things in Redis expire by themselves, and the model has no clock: a
heartbeat key may go while no socket of its session ticks (`HeartbeatExpires`; a
tick waits behind the sends of its task, `Hold`) or while its renewals fail; and
the set may go whenever it has an expiry (`SetExpires`), which `add_session` sets
in a call of its own that may fail and nothing else renews. Each process has its
own cleanup job (`sweep`) and its own hub (`told`): a change made by one process
is broadcast by that process only. `raced` names the sockets whose session
somebody else took out; `told` is "missed" where a change was not broadcast.
A call that fails ends the pass of the job (`GiveUp`).

In `ValidatorPool` a child has two pipes; a reply is the job it answers, and the
seq the code compares is the constant the only caller sends. A worker owns a
child until an exchange fails, so one that died while idle costs the next job an
error.

## 3. What the runs check

| run | question | properties |
|---|---|---|
| `commit_race` | two instances, two writers, one shared idempotency key, read models | `TypeOK`, `HeadAtLogEnd`, `ExactlyOnce`, `ReadModelsAtHead`; implements `CanonicalLog` |
| `activation_race` | a writer's retry and a reader while activations compete | `ReadersSeePrefix`, `ReadyIsFinal`, `StoredRetryAcked` |
| `retention` | two compaction jobs and retention against a writer, on a board with a history | `CheckpointsComplete`, `RecoveryTailRetained`, `PairedHistory`, `FencedResidentComplete` |
| `requests_end` | does every request end? | `RequestsEnd` |
| `fanout_repair` | lost notices, failing reads, swept channels | `NothingDropped`, `HubConsistent` (types, and `ListensToHub`), `CursorCatchesUp` |
| `single_session` | one reconnecting session with an overflowing ring, four replays | `CurrentUnlessCoalesced` |
| `meeting` | voting: two requests interleaved statement by statement, one failure; presence: two sockets, two processes and their cleanup jobs, expiry, one failing call | `OneActiveSession`, `OverrunBounded`, `ShownTallyExact`, `ShownEndStays`; `PresenceSafe` |
| `second_factor` | two requests on one account through all second-factor handlers | `GuessesLimited`, `SecretsUsedOnce` |
| `user_services` | two requests in each of nine services | `AccountsSafe`, `KeysSafe`, `ResetsSafe`, `AuthorizeSafe`, `PicturesSafe`, `ReadPathsAgree`, `OwnersProtected`, `InsertedOnce` |
| `boards` | rows and objects, collection, thumbnails, archives | `StorageSafe`, `CollectionSafe`, `PreviewSafe`, `ArchiveSafe` |
| `background` | does background work end, and rightly? | `DeadLeave`, `VerdictIsOwn`, `CallsReturn`, `JobsComplete` |
| `stale_resident_rejects` | what a comment says of a stale resident | violated, section 4 |

Many properties say "unless requests overlapped" or "but for each failed
statement". These are the exact exceptions the code has: a handler that checks
and writes in two statements does not keep its promise when another comes in
between, and the property says how far it can be broken and that nothing else
breaks it. Each has a mutant, a plausible slip in the code it is about, under
which TLC finds it violated; so has each conjunct of the combined ones, types
apart.

### Bounds, and why they are enough

- Two instances and two tasks: every race in the registry is between two
  residents of a board or two tasks on one resident. Three slots: the current
  resident, an evicted one that is held, and one being built.
- `MaxSeq` 2 (3 from a seeded history of 2): a commit, the commit that makes a
  resident stale, and in the seeded runs a new one above two checkpoints.
  `MaxEpoch` bounds activations that begin; `PageSize` and `TailPage` 1 make
  every replay cross a page.
- `requests_end` has one instance and no shared key, since liveness multiplies
  the state space; the waiting is on locks, which are per instance.
- Fan-out: two events and a page of one reach every race of two replays on a
  row. `Capacity` 1 makes two messages an overflow; an orphan is sent by every
  replay that meets it, which is what fills the ring a second time.
  `Channels` are identities, at least one for each actor: nobody holds two at
  once, so one is free whenever the hub makes one.
- `meeting`, voting: `MaxRev` bounds the revisions of all sessions together,
  `MaxFaults` one failure. Budget 1 and two handlers make the overrun exactly as
  large as `OverrunBounded` allows. Presence: two sockets of one or two sessions,
  on one or two processes, each opened once: an older and a newer socket of one
  session, or two clients. `MaxSweeps` lets one cleanup job work at a time and
  `MaxPresenceFaults` one call fail; `PresenceIsSafe` is about any number of each.
- `second_factor`: two attempts instead of five, two secrets and two challenges:
  one in use and one that replaces it. The overrun the bound allows is reached.
- `user_services`: two requests, one failure, and as many keys, codes, tokens,
  and statuses as two requests need to pass each limit twice, and three seconds,
  so that uploads fall into one second or into different ones. The limit
  on keys is 1 instead of 5, the tier's 2 requests a day, the usage queue 2
  records. Two administrators. Three identities, one of each provider kind: one
  address each, and none.
- `boards`: one board with three files against room for two. With as many boards
  as the limit allows, the run cannot exceed the limit on boards; that half of
  `StorageSafe` rests on `StorageIsSafe`. Two replicas, two changes and four
  ticks, so that the board can change before, during and after a rendering or an
  import; two media elements, two PDF pages, and every archive one corruption
  away from the exported one.
- `background`: two sockets of one or two sessions, each on a process of its own,
  so that one can die and the other go on, and no failing call; two workers,
  three calls and a queue of one: a call waits for room in the queue and for a
  worker whose child hangs, but not for both workers at once behind a full queue,
  which would take a fourth call; two prefixes, one of which can never be
  emptied, and no other failure of the store or the database.
- Deadlock is not checked in `meeting`, `user_services`, `boards` and
  `background`: nothing is left to do when the bounds are used up.
- Symmetry only permutes sets the modules treat alike, and not in runs with
  liveness.

### Fairness

`requests_end`: weak fairness of every step of a handler (the tokio runtime
polls a ready task), and strong fairness of taking the activation gate and a
resident's mutex, which are `tokio::sync::Mutex`, queued first in, first out.
Crashes, cancellations and errors are never required.

`fanout_repair`: weak fairness of the repair interval and of the steps of its
replay, strong fairness of its reads, which says that they do not fail for ever.
Nothing is assumed of the subscriber, of notices or of the commit handlers.

`background`: weak fairness of the steps of each process's cleanup job, whose
process comes back after a crash, and of the expiry of a heartbeat key while no
socket of its session ticks; of each validator worker, its timeout included, and strong
fairness of entering the queue (a tokio `mpsc`, whose senders wait first in,
first out); of the deletion worker and of the passing of time. Nothing is assumed
of the renderer, of sockets or of the bucket.

## 4. Where the code and its words differ

`stale_resident_rejects`: `observed_seq` of a client is compared with the seq of
the resident at hand. A client that saw an event through another instance is
rejected for good, where the code's own StaleRevision says to rebuild.

What was seen while modelling, and is in the models, without a run of its own:

*History and delivery.* An activation that has picked its base and not yet
listed the events skips those retention deletes meanwhile, and a reader can be
given a document with a hole (`FenceIsSufficient` proves that no *commit* can).
`register_board` overwrites the cursor with a head read earlier, so that a row
committed between another session's load and that read is sent to nobody. A lag
within the debounce window of a resync the client has already answered is not
reported to it. A commit that loses the race on its key is answered with a
database error and reconciled by the client's retry; one whose answer is lost is
reported as failed. `commit_once` says that an exact retry "must still Ack ...
otherwise a persisted edit could be reported as failed": a retry that overlaps the
first request, on another instance, can look its key up before that commits and
be judged afterwards, by `observed_seq` or by the validator, and is then refused
for good although the event is stored. `deliver_pair` may send a later row first. A session can be
evicted between `channels_for` and `subscribe`. A registration whose read fails
depends on the repair poller's later registration, which skips what was
committed before it.

*Voting.* Votes are counted and inserted in two statements, so that concurrent
votes pass the same count, and a failed count is taken for none. A vote bumped
after the session's end is broadcast as `active`.

*Accounts.* An address typed in mixed case is stored as typed by some handlers of
registration, login and reset and normalised by others. A request for an address
keeps it from others after it has expired. Two first sign-ins of an identity
without an address make two accounts. A late writer of the rate limit's cache can
set its count back, and every write restarts its expiry. `change_password`
overwrites a reset made since it was authorised. Two uploads of a profile picture
within one second have one key, and one of them can take the object the other has
just stored for the old picture and delete it.

*Access.* `get_member_role(..).unwrap_or(None)` lets a change pass when the
target's role cannot be read. `accept_invite` can lower an owner's role, even the
creator's. A creator without a member row gets a socket but no state. A public
board whose link role is none lists its sessions to members only. A socket keeps
the role it connected with. Two embed tokens can come of two overlapping
requests. `list_or_seed_statuses` can be left half seeded. `get_pdf_page` has no
access check of its own.

*Boards.* An import's authorisation is not that of `create_board`, which its
comment says it mirrors. Rows of PDF documents are never collected, so that their
storage stays charged, as does that of imported assets after collection. An
import that fails late leaves a board without a base when its clean-up fails too.
A failed upload can leave an object nobody recorded until the board is deleted. A
lost answer to COMMIT leaves a row without its object.

*Previews and archives.* A thumbnail is stamped with the time of the UPDATE, and
a commit with the start of its transaction: a change between load and stamp can
go unnoticed until the next. A failed UPDATE deletes an earlier thumbnail the row
still names. An import stamps the thumbnail it brings as new, however old it was
when it was exported; the stamp lasts until the board is first opened, when
activation sets `updated_at`. The comment there that the periodic job "would
never fire" for an imported board is not so: without a stamp it is due at once.
Empty assets keep the key of the board they came from. A PDF pasted from another board makes an export fail. A board too large, or with exhausted
entity ids, can be exported and not imported.

*Presence and validator.* The cleanup job takes out a session between its entry
and its first heartbeat. A session taken out under an open socket does not come
back: `add_session` runs once, when the socket opens, and a heartbeat renews a
key and not the entry. That happens to everybody on a board nobody has joined for
a day, when the set expires, and to a client whose socket does not tick for a
minute, because the tick is the last arm of a `biased` select whose other arms
await their sends. Who is taken out is told to the sockets of the process whose
job did it; those of other processes keep the old list until somebody joins or
leaves there. Closing one tab deletes the cursor and the display name
another tab of the same user still shows. Every validator request has seq 0, so
that the comparison in `parse_result` never finds a difference; dropping the
child is what protects the verdict (`VerdictsAreOwn`).

## 5. What is proved

For any number of instances, tasks, slots, events, pages and jobs; of users,
handlers, sessions and failures; of workers, sockets and calls; of secrets,
challenges and attempts; of keys, codes, addresses and identities; of boards,
files, replicas and elements; of WebSocket sessions, publishers, pages and ring
sizes. The constants are only assumed to be of their types (`StoreAssumption`,
`RegistryAssumption`, `CompactionAssumption`, `VotingAssumption`,
`SecondFactorAssumption`, `FanoutAssumption`, `AccountsAssumption`,
`ServicesAssumption`, `BoardsAssumption`; presence and the validator pool assume nothing),
limits to let at least one through, named people to differ, and `HubAssumption`
to have as many channel identities as actors, since making a channel never
fails:

| theorem | statement |
|---|---|
| `HistoryProofs!TypeCorrectness` | `Spec => []TypeOK` of the canonical board |
| `HistoryProofs!HeadIsAtLogEnd` | the history has no holes and a ready head is at its end |
| `HistoryProofs!KeysCommitOnce` | a key is committed at most once |
| `HistoryProofs!HistoryStaysPaired` | no journal row without its event |
| `HistoryProofs!ReadyBoardsStayReady` | `ReadyIsFinal`, an action property |
| `ResidentProofs!CheckpointsAreComplete` | a checkpoint is the whole document |
| `ResidentProofs!RetentionKeepsRecovery` | deletion only below two checkpoints |
| `ResidentProofs!FenceIsSufficient` | a resident that can win the fence is complete |
| `ResidentProofs!DeploymentImplementsLog` | `ImplementsLog`, the refinement of `CanonicalLog` |
| `ResidentProofs!ReadModelsFollowHead` | `ReadModelsAtHead` |
| `ResidentProofs!StoredRetriesAreAcked` | `StoredRetryAcked` |
| `ResidentProofs!ReadsArePrefixes` | `ReadersSeePrefix`, with retention off |
| `RealtimeProofs!HubStaysConsistent` | `HubConsistent`: the types, and `ListensToHub` |
| `RealtimeProofs!NoPairIsDropped` | `NothingDropped` |
| `RealtimeProofs!LoneSessionIsCurrent` | `CurrentUnlessCoalesced`, for one session, reads that do not fail and no other board |
| `MeetingProofs!VotingTypeCorrectness` | `Spec => []TypeOK` of voting |
| `MeetingProofs!SessionsDoNotOverlap` | `OneActiveSession` |
| `MeetingProofs!BudgetOverrunIsBounded` | `OverrunBounded` |
| `MeetingProofs!ClientsEndExact` | `ShownTallyExact` |
| `MeetingProofs!EndsAreShown` | `ShownEndStays` |
| `SecondFactorProofs!GuessesAreLimited` | `GuessesLimited` |
| `SecondFactorProofs!SecretsAreUsedOnce` | `SecretsUsedOnce`, an action property |
| `ServiceProofs!AccountsAreSafe` | `AccountsSafe` |
| `ServiceProofs!KeysAreSafe` | `KeysSafe` |
| `ServiceProofs!ResetsAreSafe` | `ResetsSafe` |
| `ServiceProofs!AuthorizeIsSafe` | `AuthorizeSafe` |
| `ServiceProofs!PicturesAreSafe` | `PicturesSafe` |
| `ServiceProofs!OwnersAreProtected` | `OwnersProtected`, an action property |
| `ServiceProofs!ReadPathsDoAgree` | `ReadPathsAgree` |
| `ServiceProofs!OneIsInserted` | `InsertedOnce` |
| `BoardsProofs!StorageIsSafe` | `StorageSafe` |
| `BoardsProofs!CollectionIsSafe` | `CollectionSafe` |
| `BoardsProofs!PreviewsAreSafe` | `PreviewSafe` |
| `BoardsProofs!ArchiveIsSafe` | `ArchiveSafe` |
| `MeetingProofs!PresenceIsSafe` | `PresenceSafe` |
| `BackgroundProofs!VerdictsAreOwn` | `VerdictIsOwn` |

The inductive invariant of the board is built in layers, each proved from the ones below:

- `TypeInv` is `TypeOK` with `Placed`: an accepted request runs on an instance,
  one past `ensure_active` holds a resident, and only a commit gets into its
  mutex. Without it the actions' record updates have no type.
- `HistoryInv` ties `rows`, `nextSeq`, `head`, `journal` and `events` together:
  a board has no event before it is ready, so an activation that is not a reuse
  has nothing to replay, which is why `mark_ready` may set the watermark.
- `KeysInv`: a row is stored or older than the retention window, and no live
  request carries a key older than the window. Dedup looks among stored rows
  only, so `ExactlyOnce` is not inductive without it.
- `CheckpointInv` adds to the two checkpoint properties `CandidatesInv`: a
  compactor whose head is still the head holds the whole prefix it has read, and
  no checkpoint lies strictly between its cursor and that head. So no second
  checkpoint covers the tail it has to read, and retention leaves it alone; once
  the head has moved, the publish fence turns the candidate away.
- `MutexInv`: at most one task is past the mutex of a resident.
- `ActivationsInv` says of a replay what `CandidatesInv` says of a compactor, and
  that the rest of its page goes on without a gap.
- `ResidentsInv`: a resident at the end of the history is complete, and so is the
  one a commit applies its event to, up to that event.
- `BoardInv` is their conjunction. `FenceIsSufficient` needs them all: a
  resident's content depends on what its activation read, which depends on what
  retention had left, which depends on the checkpoints. A resident or a replay
  that is behind may well have holes; the invariant claims completeness only
  where the fence can be won.
- `ServiceInv` adds to it `ModelsInv` (the read models are those of the last row,
  with or without a ready head) and `AnswersInv` (a task between its commit and
  its answer carries the seq of the row it made). The refinement maps `rows` to
  the log, a task's request to a pending one and its outcome to an answer; each
  action is then the log's append, an answer it allows, or a stutter.
- `StoredInv`: a request that was sent when its event was stored has not got past
  the dedup read, since its row is still in the journal (`KeysInv`) and is the
  only one with its key. The request remembers that it was stored (`stored`, a
  history field); of a retry sent before that nothing is claimed (section 4).
- `PrefixInv` is about readers: what a resident or a replay holds is a prefix.
  With retention on this is false of one that is behind, whose holes only the
  fence of a commit notices, and a reader meets no fence (section 4);
  `ReadsArePrefixes` therefore supposes `~RetentionOn`, the default of the code,
  as the run does.

That of the voting sessions is `VotingInv`:

- `SessionsInv`: session rows are numbered as they are made, one is active at
  most, and the row a handler holds is not newer than the stored one.
- `BudgetInv` counts, besides the votes cast, the handlers between the check and
  the insert, and allows one vote for each failure so far; `OverrunBounded` alone
  is not inductive, since nothing in it keeps a handler past the check from
  inserting.
- `FramesInv`: what a client shows is the tally, or a handler is about to take a
  newer revision, or already carries a newer frame; the same of each frame on
  its way. This is why `bump_rev` has to come before the tally is read.
- `EndsInv` says the same of the status: of an ended session the newest revision
  belongs to a frame that says so, shown or still with the handler that ended it.

That of the second factor is `GuessInv`. The counts are not read before a code is
checked, so a bound on the codes has to follow from the requests in progress:

- every code checked against a challenge is counted on its row, about to be, or
  lost to a failure; a count at the limit has a request that will delete the row,
  or a failure (`LoginOK`). Once the row is gone only the requests that fetched it
  go on. These requests are at different places, so they are at most all of them,
  which is where `Overrun` comes from;
- `EnrolmentOK` is the same for an enrolment, whose row can be replaced while a
  request holds the old secret, and which may be made while the account has a
  secret already: such a one is confirmed only by requests authorised before;
- `SecretsInv`: a secret is in one enrolment, or an account, or switched off;
  `ReplaceInv` and `CounterInv` count the logins between the two statements that
  replace a challenge, and the requests that arm the expiry of a counter.

That of the realtime sessions is `HubInv`:

- `HoldInv`: a `Sender` is held only between `channels_for` and its use, and a
  receiver only while a session is open, so nobody holds two channels and an
  unused one exists (a pigeonhole argument). `ListenInv` follows a session that
  is not cut off from `channels_for` on.
- `PageInv`: what is left of a page goes on from the local cursor without a gap,
  so `NextRow` is the row after it.
- `CoverInv` claims of the local cursor of each replay what `NothingDropped`
  claims of the shared one: a registration can set the shared cursor back below
  rows a replay has passed, and that replay moves it forward again over them.
- `ReachInv` strengthens this for an open session: each row behind a cursor is in
  its document or its ring, held by a replay that will send it on the session's
  channel, or will be loaded. `CursorInv` is why: without failing reads, a replay
  never registers. All three suppositions of `LoneSessionIsCurrent` are needed.
  A second session's registration, or one after a failed read, moves the cursor
  over rows the open client was not sent; another board's sweep can cut a
  session off. Section 4 describes the first.

The services of an account have an invariant each. Nearly all of them check in one
statement and write in another, so each counts, or describes, the requests
between the two:

- `KeyInv`: the keys that work and the requests about to add one are at most the
  limit, the requests that may have counted together, the rotations in progress,
  and the failures. `KeyKept` is why a rotation leaves a key: some working key is
  no rotation's to take back, which takes the order of the keys' numbers when
  rotations chase each other.
- `ResetInv`: a code that is stored has set a password only in requests that are
  about to delete it or failed to; one that is gone serves those past the check.
- `AdminInv` types a pending request; `LimitInv` balances what was admitted
  against the table, the queue and the lost records, and states for each step of
  a lone request what its count may have missed.
- `PictureInv`: a picture uploaded and not yet named is in the bucket and no other
  upload is about to delete its key, but for a clash within a second, so what is
  written into the row is there.
- `AccessInv`: a request nothing has overtaken was let in under the rule that
  still holds of its target. `EmbedInv` and `StatusInv` say that a lone request's
  look at the table is still right when it inserts; `Ranked`, that any statuses
  have a last one, is kept instead of finiteness, which is not needed.
- `AccountInv`: wherever a code is kept it is kept with the address it was
  mailed to (`MailInv`); no two accounts share an address, by the constraint
  (`OwnersInv`); the account a sign-in is about to link still has the identity's
  address (`LinkInv`); a sign-in that makes an account without an address is
  alone until it has linked it (`FirstInv`); and the callbacks that read a state
  deleted since are counted against those that accepted it (`StateInv`).

The four parts of the boards service share no variable, so each has an invariant
of its own and every step of the others leaves it alone (`BoardsStep`):

- `StorageInv`, of rows and objects. Rows go first and objects later, by a job,
  so `NoOrphanLeft` needs to know of each object of a deleted board that the job
  is still queued or the object is late (`Findable`); that the worker's listing
  misses only late objects (`CycleInv`), or completing the job would leave some;
  that a late file still has a request that will take it back or give it up
  (`LateInv`), which fails at the next row of the board and so cannot keep it; that
  a job is only ever of a board that does not come back (`JobsInv`); and that no
  two requests have one file (`RequestsInv`, `ObjectsFit`). `QuotaInv` adds to
  the limits that the rows can be counted: the charge of an import is a
  cardinality. No request needs to be counted here, since check and insert are
  one step under the lock.
- `GcInv`, of the collection: while a pass holds the fence its references are
  those of the board (`Fenced`), so what it has left to delete is not on the
  board (`Unplaced`), and a row is deleted only after its object (`ObjectGone`).
- `PreviewInv`, of the thumbnail: what a run is about to stamp is in the bucket
  or overtaken (`StampsOwn`); a stamp no older than the board is of its present
  version whatever runs are under way, unless it is an import's (`restored`), and
  a commit in progress will be newer than any stamp so far (`StampedIsFresh`); an
  image that a run or an import is about to name is there (`ImageThere`); one
  stored below an emptied prefix has a run or an import that will look after it
  (`NoneLeft`); and an import meets no run and no commit before it has seeded the
  base (`ImportFits`).
- `ArchiveInv`, of the archive: the file is what was packed, or that with one
  thing wrong, or of version 1 (`FileInv`). `DamageIsFound` goes through
  everything that may be wrong: the importer refuses it, or it is the board's id
  or the preview key, and then the references still have to be the assets, so a
  board with pages has its own id (`SidesAgree`). `NewKeysDiffer` shows that no
  two assets get one key, which is what makes the way back from a new key to
  the bytes a function.

That of presence is `PresenceInv`: an open socket past its first heartbeat has
both entry and heartbeat key or is in `raced` (`HereInv`), and a session a
cleanup job is about to take out belongs to sockets that are gone, were not past
that heartbeat when the job looked, or are in `raced`. `ToldInv` says of each
process that the list it broadcast last is right, or marked as missed, unless
somebody in it, a socket or its job, is on the way to broadcast another.

That of the validator pool is `PoolInv`: a busy worker holds a job, its child's
pipes hold at most that job while it waits for the reply, and nothing otherwise.
`VerdictIsOwn` alone says nothing of what the next reply will be.

Only model-checked: liveness (`RequestsEnd`, `CursorCatchesUp`, `DeadLeave`,
`CallsReturn`, `JobsComplete`), which is beyond the prover.

## 6. What is not modelled

- Document content: JSON, Yrs encoding and wire checks, the asset list, the
  validator's verdicts. The base of a board is never rewritten by the program
  and is the empty set of seqs.
- In `Realtime`: previews and cursors, which are droppable; the ack queue of the
  socket; the two frames of a pair, which are one message; pruning of the
  journal during a replay, except for its effect (`Orphans`); any gap detection
  in the browser; the paging of the bootstrap over HTTP, whose load is atomic.
- In `Voting`: candidates, identities and lost preview frames. A client that
  misses a frame shows an older tally until the next one.
- In `SecondFactor` and `Accounts`: how codes, hashes and tokens are made; the
  exchange with an OAuth provider, whose answer is an input; the case of an
  address. A TOTP code is right or wrong for the secret it is checked against.
- In `BoardAccess` and `BoardStorage`: roles that come from the project; image
  conversion; the lists and reports, which only read.
- In `AssetGc`: the end of the fence's own connection while a pass goes on.
- In `Previews`: the renderer's daemon (`jobs/preview_service.rs`), which is a
  step that succeeds or fails.
- In `PresenceSessions`: cursors and display names; the other boards a cleanup
  pass goes through, which have sets of their own.
- Server settings, mail, routing and process start: single reads and pure I/O.

## 7. Plan

Every safety property of the runs is proved. What is left to do:

1. The bootstrap over HTTP (`handlers/events.rs`) against commits and retention,
   page by page, composed with `CanonicalBoard`.
