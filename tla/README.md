# Snicket in TLA+

Models, model-checking runs and proofs for [Snicket](../src/README.md), a
stream store (an append-only log of messages, grouped in streams) for Node.js,
with an in-memory and a PostgreSQL implementation and subscriptions that follow
the log. Paths below are relative to the repository.

## The system

| Part | State it keeps | Operations | Talks to |
|---|---|---|---|
| In-memory store (`src/in-memory/in-memory-stream-store.ts`, `in-memory-stream.ts`) | `streamMap` (per stream: `messages`, `messageMap`, version, position), the all-stream array, `globalHeadPosition`, `disposed` | appendToStream, setStreamMetadata, deleteStream, deleteMessage, readStream, readAll, readHeadPosition, listStreams, subscribeTo*, dispose | notifier, subscriptions, expiry filter |
| PostgreSQL store (`src/postgres/pg-stream-store.ts`) | connection pool, `writeLatch`, metadata cache, subscriptions, `disposing` | the same | stored procedures, notifiers, guardian |
| Stored procedures (`src/postgres/setup/schema-v1.ts`) | tables `stream` and `message`, the `position` sequence | append_to_stream, set_stream_metadata, delete_stream, delete_messages, read_* | PostgreSQL transactions |
| Subscriptions (`src/subscriptions/all-subscription.ts`, `stream-subscription.ts`) | next position/version, `disposed`, reset event, latch | pull and push loop, dispose | store reads, notifier, consumer callbacks |
| Notifiers (`in-memory-notifier.ts`, `polling-notifier.ts`, `pg-notifications-notifier.ts`) | observers, last head position | subscribe, listen, dispose | store, `LISTEN`/`NOTIFY` |
| Guardian (`src/utils/guardian.ts`) | current actor, restart count, flags | start, restart on error, dispose | the pg-notify notifier's client |
| Gap detection (`src/utils/gap-detection.ts`) | none (a page, then reloads) | reload until a gap is stable | readAll |
| Metadata cache (`src/infra/metadata-cache.ts`) | a promise and an expiry time per stream | readStreamMetadata, purgeCache | reads of the PostgreSQL store, whose expiry filter asks it |
| Reset event, latch (`src/utils`) | a flag and waiters; a counter and waiters | set/reset/wait; enter/exit/wait | subscriptions, PostgreSQL store |

JavaScript runs one handler at a time: the code between two `await`s is atomic,
and everything else can interleave. That, and PostgreSQL's concurrent
transactions, is where the difficulty of this code lies:

* appends, metadata writes and readers **scavenge** behind awaits, from
  snapshots, while other calls write to the same stream;
* an append is **idempotent**: a client that lost the answer may retry with the
  same ids, and the store decides from what is left of the stream;
* three containers of the in-memory store hold the same messages and are
  updated by separate statements;
* **subscriptions** follow the log with pages, errors, retries, notifications
  that come at any time, messages that are deleted under them, and disposal at
  any point of the loop;
* readers **page** with the cursor of the page before, while others append to the
  log and delete from it;
* in PostgreSQL, positions are reserved before they are committed, so readers
  see **gaps**;
* an append in PostgreSQL scavenges in two more transactions, in the background;
* what has expired is decided by **cached** metadata, which may be old, still on its way, or an error;
* connections break, and take the notifications on their way along; actors are restarted and disposed at the same time.

What makes each part correct:

* stores: versions and positions are never handed out twice; the all-stream is
  the merge of the streams; a retry is recognised or refused, never written
  twice; scavenging leaves what the metadata asks for and removes nothing else, but for
  messages whose id was used before; disposal waits for what it says it waits for;
* reads: paging to the end gives what there is, once and in order, and comes to an end;
* metadata cache: one query per ttl for any number of readers, the right answer
  once the metadata has settled, and no error kept for good;
* subscriptions: every message at or after the start is delivered, in order,
  at most once unless processing is retried, and nothing after disposal;
* notifiers: a written message is eventually announced;
* guardian: at most one actor, none once disposed, and one again after an error;
* gap detection: a message that becomes visible late is not skipped.

`PROJECT.json` lists the hazards line by line, with the properties on them.

## Modules

| Module | Models | One action is |
|---|---|---|
| `Arrays` | arrays without some of their elements | (operators) |
| `EventLog` | what a store promises its clients: streams are logs | a batch appended, messages removed, the store closed |
| `InMemoryStore` | the in-memory store | the code of a call between two awaits |
| `InMemoryStoreProperties` | what makes it correct, and `EventLog` under its refinement mapping | |
| `ArraysProofs`, `InMemoryStoreProofs`, `SubscriptionProofs`, `GuardianProofs`, `PgDisposalProofs`, `MetadataCacheProofs`, `PgStoreProofs`, `PagingProofs` | proofs, see below | |
| `Subscription`, `SubscriptionProperties` | one subscription, all-stream or stream, on either store | the code of the loop between two awaits, or an event of the log |
| `GapDetection` | `readAll` of the PostgreSQL store with its reloads, and the transactions that make the gaps | a page read, a reload, a step of a transaction |
| `Guardian` | the guardian and the actor it keeps | the code of `onError`, `restart`, `start`, `dispose` between two awaits |
| `PgNotifier` | extends `Guardian`: the actor is a client that connects, listens, breaks; appends commit and notify it | a step of the guardian with what it does to the connections, or an event of a connection |
| `PollingNotifier` | the polling notifier, its listeners and the log they follow | one turn of `poll` up to its next await |
| `PgStore`, `PgStoreProperties` | the stored procedures that write, under READ COMMITTED, their callers' retries, and the scavenge that follows | one SQL statement |
| `PgDisposal` | the write latch, background scavenging and purging, the pool, `dispose` | the code of a call between two awaits |
| `Paging` | a client that pages through a stream, the all-stream or the listing of either store, while others write | one page, or one statement of PostgreSQL's `readStream` |
| `MetadataCache` | the PostgreSQL reads with `filterExpiredMessages`, and the cache of promises behind them | the code of a read between two awaits, a query answered or failed |

Each `MC` module gives TLC its instances of the module it is named after.

**In-memory store.** `streamMap`, `inMemoryAllStream` and
`globalHeadPosition` are the variables of the code; a stream is a record with
the fields of `in-memory-stream.ts`. `calls[c]` is a call that has been suspended: an
append or `setStreamMetadata` that has written and will read the metadata
(`ReadPolicy`) and scavenge, one message per await (`StartScavenge`,
`ContinueScavenge`), or a `readAll` that is about to filter expired messages. Both hold
the messages they are to delete (`todo`, `page`), as the code does, and delete by id.
What the code does before its first await happens in the action that begins the
call, so an append that is rejected changes nothing (but `Touch` creates the
empty stream that `getOrCreateStream` leaves behind). The microtask queue runs
the suspended calls in any order.

**Subscription.** `pc` is where the loop is; `page` is what `pull` returned; `set`
is the reset event; the loop latch is `InLoop`. `mode` says what is
followed: the two subscriptions are the same loop, and differ in the cursor
(`Cursor`), and the stores in the page they return (`NextAfter`, `HeadRead`) and
in whether it comes from one snapshot (`InTwoStatements`). The log
is reduced to the numbers of its messages; appends, deletions, expiry and
notifications happen at any time.

**PostgreSQL store.** `rows` and `messages` are the committed tables, `tx[c]` a
transaction with the variables of the procedure and what it has written. A
statement sees what is committed when it begins and its own writes, and waits
while another transaction holds a key or a row it needs. `Commit` may be
acknowledged or not; `LoseConnection` may happen at any statement. The uuids of
messages that are never sent twice are written `NewId` in a request. When
`append_to_stream` or `set_stream_metadata` answers with a maxCount, the client goes on
(`Followed`) with the two transactions of `maybeScavenge`: `SelectScavengable`, and a
`DeleteMessages` of what was selected. The clients follow one of several `Workloads`, sets
of requests, so that one run has appends that race, deletions, and a limit that changes.

**Paging.** `log` says what is read: either store, a stream, the all-stream or the listing, which way,
whether messages are deleted meanwhile, and whether the client goes on from the
end later. A message is its number in that log. `InRange`, `FirstOf`,
`NextVersion`, `NextPosition` and `NextCursor` are the queries and the arithmetic
of the cursors; `returned`, `owed` and `later` remember what the client was given and what it should be.

**Metadata cache.** `queries` are the promises ever made, `cache` which of them each
key has; a promise is asked for, waits for the promise of its own filter
(`readStreamMetadata` reads a stream, whose messages are filtered too), and
resolves or fails. `stored` and `doomed` are the messages and those a purge in the
background is about to delete.

**pg-notify.** `connection[a]` is the client of actor a. PostgreSQL delivers what is committed
while the client listens, in order, and forgets the rest; a broken connection is reported
by the client's error listener, by the keep-alive query or by the startup, or by two of these.

**Composition.** `Subscription` contains the notifier as a `signal`. In memory it follows every
append, which is what `NotifyObservers` does; in the PostgreSQL modes an append may go
unsignalled, since the polling notifier misses a first message and pg-notify what is committed while it
reconnects, and the next signal brings what was missed. Which signals are missed is the
subject of `PollingNotifier` and `PgNotifier` (which composes the guardian with the connections), and
`GapDetection` what its `readAll` adds to the pages. `PgDisposal` takes from
`PgStore` that a transaction ends and may be tried again. `Paging` is the
subscription's reading without its loop, in both directions and with any client; `MetadataCache` is
what happens to such a page before it is returned, which moves no cursor.

**Order of work.** The in-memory store came first, as the reference for what a
store does; then the subscription loop, which every consumer of either store depends on;
then what PostgreSQL adds to both (gaps, notifiers, procedures, disposal); then the
reads (pages, the metadata cache), the connections of the notifier and the scavenges of PostgreSQL.
No module that is proved about reaches a RECURSIVE operator.

## Runs

| Run | Shows | Bounds |
|---|---|---|
| `store_calls` | the containers of the in-memory store agree, are in order and are indexed; retries are recognised; no version is reassigned; a suspended call ends; it implements `EventLog` | one client stream with its metadata stream and `$deleted`, 6 batches of up to 2 of 3 ids, 4 positions, 2 instants, one suspended call and any number of calls that do not suspend |
| `store_scavenging` | scavenges and purges that interleave leave each stream as its newest metadata wants it, and remove only what a policy set on the stream lets go, or what has the id of such a message | two suspended calls that append, set metadata or read, 2 ids, 4 positions, 2 instants, maxCount 1, truncateBefore 1, maxAge 1; callers and ids are symmetric |
| `subscription` | order, completeness, one drop, silence after disposal | 3 messages, pages of 2, 2 tries; both stores, both kinds, from the beginning, the end, or message 0 |
| `subscription_liveness` | no lost wake-up, in the PostgreSQL modes given a signal; dispose ends | 3 messages, pages of 1, one try, 4 modes |
| `subscription_skipped` | **violation**: a message between the two statements of a stream read is skipped | 2 messages |
| `gaps` | once a page was reloaded, no gap behind the cursor is still to be filled, and what filled one was returned; reloading stops | 3 transactions, none slower than the delay, 6 positions, pages of 3, 2 reloads |
| `pg_notifier` | one actor; restarts that await one another end; disposal; a client listens again after each fault; what reaches a client that listens is heard, also before `LISTEN` has returned | 2 faults (4 errors), 2 restarts (so it gives up), one append |
| `polling` | a head above the remembered one is always told; disposing ends | 2 listeners, 3 positions, one failed read |
| `pgstore` | streams are logs and acknowledged appends are in them while nothing is removed; no deadlock or endless retry; a stream is left within its maxCount | 2 clients, 3 calls, 2 tries; three workloads: 8 kinds of append, 9 of append and deletion, 3 of append and limit |
| `disposal` | dispose waits for writes, in the background too, and ends | 3 calls, 2 tries, the option `scavengeSynchronously` on and off |
| `paging` | paging is complete, in order, and ends | 5 messages or streams, pages of 1 and 2, 10 kinds of log |
| `metadata_cache` | readers share a query, are exact once the metadata has settled, recover from failures, are answered | 2 reads, one message, ttl 1, maxAge none or 1, one failing query, 4 instants |

The bounds are the smallest at which what a property is about can happen with
one step to spare: two callers or clients for a race and, for a lost update, a
third call that had already succeeded; a page that is full, one that is not
and one that is empty; a retry and its exhaustion; a
disposal at every point of each of these. In `paging` five
messages make three pages of two, and two more to go on for; in
`metadata_cache` the clock goes past an expiry, the ttl and twice the ttl; in
`pg_notifier` each of two faults is reported twice, which is what can exhaust two restarts. `CallsFinish`
has one suspended call in `store_calls`, since symmetry cannot be used with liveness; it also holds in the instance of
`store_scavenging` with two of them, three positions and no symmetry. Every passing property is
also run against a mutation of a modelled definition (the definitions whose
comment begins with "Mutation of") and is violated by it.

The type invariants of `Subscription`, `GapDetection`, `PollingNotifier`, `PgDisposal`, `PgNotifier`,
`Paging` and `MetadataCache` hold in the same instances (add `TypeOK`, in `PgNotifier`
`NotifierTypeOK`, to the invariants of the configuration); the runs above spend their time on the properties that could fail.

Deadlock is not checked: every one of these systems really stops (a store or a subscription
that is disposed, clients that have made their calls, a guardian that gave up).

**Fairness.** `FairSpec` of each module adds to `Spec`:

* weak fairness of each suspended call's continuation, since promises of the
  in-memory store are always resolved and the microtask queue is drained;
* of the subscription's loop, of the consumer's processing (a consumer that never
  settles, or awaits `dispose` inside `processMessage`, does stop everything) and of a
  signal that was given, for the event loop. That an append gives one is assumed in memory only, where it does;
  `EventuallyDelivered` says of the PostgreSQL modes what follows once there is a signal;
* of each transaction, since PostgreSQL runs every statement that need not wait.
  Nothing is assumed of clients calling or connections being lost;
* of each startup, of the report of a broken connection (TCP's and the client's own
  keep-alive see to it) and of the delivery of a notification, in `PgNotifier`;
* of a client that has begun to page, and of the queries and reads of `MetadataCache`.

None of them needs strong fairness: nothing that can run is disabled
by others for ever, but the appends of any version, whose tries are bounded.

### What the code does not keep

One disagreement is a run of the project:

* `subscription_skipped`. The comment at `pg-stream-store.ts:250` says that
  reading the stream's version last "just keep[s] reading"; on the last page the
  cursor becomes that version plus one (`:847`), past what was appended in between.

The modules state more, each under a property that TLC finds violated with the
configuration in the last column; where a configuration lists several, TLC
stops at the first it finds, and finds each when the others are taken out:

| Property | Said by | What happens | Configuration |
|---|---|---|---|
| `RetriesSurviveScavenging` | `README.md:502` | a retry is refused once the message at its expected version is scavenged: `findIndex` finds the one after it (`in-memory-stream.ts:100`) | `MCInMemoryStore_disputed` |
| `DisposeWaitsForWrites` | `README.md:153` | the in-memory `dispose` clears the streams under a scavenge | `MCInMemoryStore_concurrent` |
| `NothingWrittenOnceDisposed` | `errors.ts:11` | `setStreamMetadata` does not ask | `MCInMemoryStore_concurrent` |
| `NothingElseIsRemoved` | `README.md:342` | a scavenge or a `readAll` deletes by id what it listed: when another call deletes the message first, and a client appends the same id again, the new message goes for the old one, the newest of the stream too | `MCInMemoryStore_concurrent` |
| `EarlierVersionIsFound` | `in-memory-stream.ts:104` | "this shouldn't happen" does, after `deleteStream` | `MCInMemoryStore_disputed` |
| `IdsAreUnique` | `types/stream-store.ts:122` | a batch that repeats an id is written | `MCInMemoryStore_disputed` |
| `OnlyNewMessages` | `README.md:391` | from the end of a log with one message at position 0, that message is delivered | `MCSubscription_end` |
| `ToldWhenCaughtUp` | `types/subscriptions.ts:59` | an empty last page is not reported | `MCSubscription_end` |
| `NoCommitBehindTheCursor` | `README.md:534` | pages of one message, and pages that are not the last, are not checked for gaps | `MCGapDetection_lost` |
| `AtMostOneActor` | `guardian.ts:142` | a restart that gave up lets later ones run beside those in progress | `Guardian_errors` |
| `DisposeShutsDown` | `guardian.ts:16` | a restart in progress spawns an actor after dispose | `Guardian_errors` |
| `ChangesAreSignalled` | `polling-notifier.ts:10` | the first message has the position of an empty head | `MCPollingNotifier_signals` |
| `VersionIsLast` | `schema-v1.ts:265-267` | a replay of any version reads the latest version in one statement and writes it in another: the row can be left behind the messages, after which appends at the real version are refused | `MCPgStore_disputed` |
| `AppendsAtTheExpectedVersion` | `README.md:170` | after a deletion an older version is accepted and given again | `MCPgStore_disputed` |
| `ReplayWritesNothing` | `schema-v1.ts:247` | after a deletion, a partial replay writes and leaves the stream row | `MCPgStore_disputed` |
| `DeletedAtTheExpectedVersion` | `schema-v1.ts:584` | a message appended between check and deletion is deleted too | `MCPgStore_disputed` |
| `PolicyIsNewest` | `schema-v1.ts:95` | metadata set while the stream is being created does not reach it | `MCPgStore_disputed` |
| `ScavengedWhenQuiet` | `pg-stream-store.ts:721` | an append at a version that finds some of its messages stored inserts the rest and reads the maxCount without holding the stream row: a policy committed before it is missed, and a message too many is left | `MCPgStore_disputed` |
| `PagesInOrder` | `README.md:297-298` | backwards in memory, after the message at the cursor was deleted, the page begins with the one after it again (`findIndex` with >=) | `MCPaging_backwards` |
| `WalksAreComplete` | `README.md:297-298` | or it finds none at or after the cursor, and what is left before is never given | `MCPaging_backwards` |
| `WalksEnd` | `README.md:297-298` | and may go on giving the same message for ever | `MCPaging_backwards` |
| `WalksAreComplete` | `stream-store.ts:26-29` | in memory the cursor of a page that is not full points past streams yet to be created, which the next page leaves out | `MCPaging_listing` |
| `PagesInOrder` | `stream-store.ts:26-29` | in PostgreSQL the cursor of an empty page is 0, from which the listing starts over | `MCPaging_listing` |
| `OnlyExpiredIsPurged` | `README.md:341` | a message is purged by the cached maxAge after the metadata has been given a longer one, or none | `MCMetadataCache_purged` |
| `AppendsAreHeard` | `README.md:438` | an append committed while the client reconnects is not signalled when it is back | `MCPgNotifier_missed` |
| `PoolEndsAfterWrites` | `README.md:153` | `deleteStream` returns its promise without awaiting it and so leaves the latch at once | `MCPgDisposal_deletestream` |

`MCPgStore_replays` and `MCPgStore_metadata` are two more instances that pass: appends of
any version that repeat one another, and metadata changes of one client.

## Proofs

What follows holds for every value of the constants that satisfies the named assumptions: any
streams, ids, clients, batches, workloads and policies, and any number of messages, errors, tries and
instants. Each inductive invariant was first checked by TLC in the
instances of the runs, where most of its conjuncts were found by what it refuted.

| Module | Theorems | The invariant |
|---|---|---|
| `ArraysProofs` | `WithoutProperties` | what splicing leaves of an array, from counting; lemmas on increasing sequences and their elements |
| `InMemoryStoreProofs` | `TypeCorrect`, `StaysInOrder`, `AllStreamStaysTheMerge`, `IndexStaysExact`; `NeverReassigned`, `Implements` (of `EventLog`), `RetriesStayRecognised` | `IInv`: the first four, none of which is inductive alone |
| | `ScavengedOnceQuiet` | `SInv`: what is too much in a stream, some call is going to delete |
| | `RemovesOnlyExcess` | `RInv`: what a call is going to delete, a policy of its stream lets go |
| `SubscriptionProofs` | `TypeCorrect`, `AlwaysInOrder`, `NeverSkips`, `DisposingEndsIt` | `Ahead`, `NotLost`: where the cursor is |
| `GuardianProofs` | `OneActor`, `CalmDispose`, `TypeCorrect`; `Implements` (`NotifierSpec => Spec`) and what it carries over: `NotifierKeepsOneActor`, `NotifierCalmDispose`, `NotifierTypeCorrect` | `Queue`: the restarts in progress await one another |
| `PgDisposalProofs` | `TypeCorrect`, `LatchNeverNegative`, `WritesHoldTheLatch`, `PoolEnds` | `Counted`: the latch counts tokens |
| `MetadataCacheProofs` | `TypeCorrect`, `OneQuery`, `Exact`, `Forgotten` | `LastIsCached`, `Filters`, `ReadAges`, `Readers`: when the queries were asked |
| `PagingProofs` | `TypeCorrect`, `WalksGiveAll`, `PagesGoOn` | `Given`, `Owes`: what was given is behind the cursor, what is owed ahead of it |
| `PgStoreProofs` | `KeysInvariance`, `TypeCorrect`; `StreamsInvariance`, `VersionsAreLast`, `AcknowledgedAreStored`, `AppendsAtTheVersion`, `PositionsAreInOrder`, `ReplaysWriteNothing`, `Implements` (of `EventLog`) | `TInv` of every workload, `SInv` of those that only append |
| | `ScavengedUnlessReplaysWrite`, `ScavengedAfterSingleAppends` | `QInv`, `OInv`: what is too much in a stream, some transaction is going to delete |

**In-memory store.** `IInv` is the conjunction of the invariants of the run. That a
deletion leaves the all-stream the merge (`SplicedMerged`) needs the arrays
to be typed and ordered; that an appended message is the last of both arrays needs
every position to be at most the head; that the index stays exact needs the ids
of a batch to be new, and distinct. The last is an assumption of the theorems that depend on it
(`DistinctBatches`), because `appendToStream` does not check it (`IdsAreUnique`
is violated). `StoreGood` restates `IInv` for any map and array, because
`deleteStream` appends to streams it has just deleted from in the same step.
The argument has two halves. `StepEffect` shows that each step of `Next` either
deletes, writes (`WriteTo`), touches a stream, or leaves the containers alone;
`DeleteGood`, `WriteToGood` and `TouchGood` show that each preserves the invariant
of the containers, and `StepRest` that every step preserves the types of the rest.
The refinement maps a write to `AppendBatch`, a deletion to
`Remove`, `Dispose` to `Close` and everything else to a stutter.
That retries are recognised (`RetriesStayRecognised`) follows from the index being exact and from counting: a
stream with as many messages as versions has its message of version v at index v (`NoneMissing`).

Scavenging (`ScavengedOnceQuiet`) is about calls that interleave, each with the policy it read and the list of
ids it made at some time. At any time, either some call is yet to look at the stream with its newest policy,
or whatever is too much in the stream is in the list of some call (`Covered`). An append or a new policy
makes the first true; a call that looks lists all that is too much at that moment, which makes the second
true; and what a deletion leaves was too much before if it is now (`RestIsExcess`), for a message's
distance from the end can only shrink. The hypothesis `MetadataIsKept` is that nobody deletes single messages of
metadata streams: the metadata before would be in force again, and `TLC` shows that no
scavenge follows.

That nothing else is removed (`RemovesOnlyExcess`) is the converse. A call holds a policy that was
metadata of its stream when it read it, and still is, for metadata is kept; what it lists was let go by that policy at
that moment (`HasReason`). It still is whenever the call deletes it (`MayGoStays`), since time passes, versions grow, and a
position, once given, is given to no other message. What is in the stream under the id at that
moment is therefore the message that was listed, or one appended after that was deleted (`IdWasReused`).
The hypotheses are `DistinctBatches`, without which an id names two messages, and `MetadataIsKept`.

**Subscription.** That messages are delivered in order is not inductive: it
depends on what the loop holds. Between two pages the cursor is past everything that was
given; while a page is pushed, the page's next position is past what was given and what is
left of the page, and what is left comes after what was given, but for the message that is being
processed (`Ahead`). Nothing is skipped because what the page's next position passes was given
or is left (`NotLost`); this needs a bound on the cursor (`Reachable`) that matters when the
log is followed from beyond its head. `NeverSkips` says nothing of a stream read in two statements,
where `subscription_skipped` shows the opposite.

**Guardian.** The code keeps one restart promise; each restart awaits the one it
replaces. The invariant makes of this a queue (`Queue`): a sequence of the restarts in
progress in which each but the first awaits its predecessor, and the promise is the last.
So at most one is past its await, and it is the one whose actor is current (`OthersDown`). A restart that
gives up breaks the queue, hence the "until exhausted" of `OneActor`, and
`AtMostOneActor` is violated. Every step of `PgNotifier` is a step of its guardian or of the
connections alone, so what holds of the guardian holds of it.

**Disposal.** The latch is a number. The invariant gives each call up to three tokens (the call, the work it
leaves in the background, the deletion within that) and says that the number
counts those that are held. It is therefore never negative, and zero, which is when `dispose` goes on, only
when nobody writes. The last two theorems assume `NoStreamIsDeleted`: `deleteStream` leaves the
latch before it has written (`MCPgDisposal_deletestream`).

**Paging.** A page is the beginning, in the order of reading, of the messages ahead of the cursor
(`RangeIsAhead`, `PageIsTheBeginning`), and the next cursor parts the page from what comes after it
(`Splits`). So what was given is behind the cursor, which makes pages go on in order, and what is owed was
given or is ahead, which makes the end complete. For `readStream` of PostgreSQL what is
owed is also in the page that waits for its stream, or after it. `CursorsHold` is the hypothesis: in memory nothing is
deleted under a client that reads backwards, and nobody goes on from the end of a listing, or of a stream
in PostgreSQL, whose version is read after its messages. The first two are what
`MCPaging_backwards` and `MCPaging_listing` refute.

**Metadata cache.** What is no longer cached was asked for more than `Ttl` ago, and what is cached
was asked for last; so a query comes more than `Ttl` after the one before. A reader waits for
a query that was cached when it began, which has read the policy in force unless that was
changed after it was asked; so only a change within `Ttl` makes it inexact. A failure comes from the query or the one it
awaited, hence the twice `Ttl` of `FailuresAreForgotten`.

**PostgreSQL store.** There are three invariants. `TInv` holds of every workload, deletions,
metadata and scavenges included: no message that is stored or that a transaction has inserted shares
a key with another, unless that transaction deletes it; a row or message is below the sequences. `SInv`
holds of a workload that only appends, and says what a transaction knows at each statement (`Stage`): that the
version it has read is not past the stream; after the insert, that what it inserted comes right after the
last message. The heart of it is that no other append can have committed in between,
although nothing locks the stream row before the update: it would have inserted a message with the same
version of the same stream, and the key makes one of the two wait (`OneAppends`). So a step of the
store is one `AppendBatch` or a stutter.

`SInv` needs a hypothesis on the workloads, `RepeatsAreOrderly`: among requests that only append,
an id is given (so that it may be sent twice) only at an expected version, and the first id of
an append of several is not one that another puts at or before the version this one expects. `TLC` refuted
what was tried without it: with repeats of any version, `VersionIsLast` fails (`MCPgStore_disputed`),
because the procedure reads and writes the version of a replay in two statements. A client that retries what it sent, at
the version it sent it for, satisfies it; so does the workload `Appends` of the run `pgstore`. With a
removal the properties fail outright (`AppendsAtTheExpectedVersion`, `ReplayWritesNothing` in the
table above), so `NothingRemoved` and `Undisturbed` are part of what they say.
`PositionsInOrder` and `ReplayWritesNothing` are checked with `MCPgStore_replays`.

`QInv` is about scavenging, of every workload: whatever a row says is too much in its stream, some call is yet to
select it, or has selected it and is yet to delete it (`Kept`). An append and `setStreamMetadata` take the
maxCount in one statement and scavenge two transactions later, so the invariant says what a transaction knows on its way
(`Course`): one that has written the row of its stream holds it, and nobody changes the
policy until it commits (`KnowsPolicy`); one that deletes the stream leaves no row.
A message refers to the row it was inserted under, and that row stays as long as it does (`References`, the foreign key).
So a commit that leaves too much is one of a call that goes on to scavenge with the policy of the row (`CommitScavenges`),
and what a deletion leaves was too much before. The one exception is an append that is
answered as a repeat but has written some of its messages: it takes no row. Hence the hypothesis
`[]ReplayWritesNothing` of `ScavengedUnlessReplaysWrite`; `MCPgStore_disputed` shows what happens without it.
`OInv` derives it, with deletions and all, where an append at a version of 0 or more has at most one id (`OneAtAVersion`).

**Assumptions.** Those of the modules (`BatchesAssumption`, `PoliciesAssumption`, `StreamsAssumption`,
`SubscriptionAssumption`, `GuardianAssumption`, `PgNotifierAssumption`, `PgDisposalAssumption`, `MetadataCacheAssumption`,
`PgStoreAssumption`, `PagingAssumption`) give the constants their types and are evaluated by the runs.
`DistinctBatches`, `MetadataIsKept`, `CursorsHold`, `NoStreamIsDeleted`, `RepeatsAreOrderly`, `ClientStreams` (callers
name no metadata or system stream) and `OneAtAVersion` are hypotheses of the theorems that name them. The instances of the runs that check the same properties satisfy them: `store_calls` and
`store_scavenging` the first, `store_scavenging` the second, and `paging`, `disposal` and `pgstore` the others; of the
workloads of `pgstore` that set a `maxCount`, which is `Retention`, no append at a version of 0 or more has more than one message.

**Left to TLC.** Out of the prover's reach: every liveness property (`CallsFinish`, `EventuallyDelivered`,
`DisposeEnds`, `ReadsEnd`, `ErrorsAreAnswered`, `KeepsListening`, `SignalsAreHeard`,
`HigherHeadsAreSignalled`, `DisposeResolves`, `CallsEnd`, `WalksEnd`, `ReadsAreAnswered`). Within it, and not
proved: `ReloadsFillTheGaps`.

## What is not modelled

* The database bootstrapper and the command line (`setup/bootstrapper.ts`,
  `bin/snicket-pg.ts`): an operator runs them before the store is used, one statement after the other; what
  happens when two run at once is decided by PostgreSQL's catalogue and by the wording of its errors.
* The validation of arguments beyond what `IsRequest` and `Begin` say of the requests that
  get through: a call that does not throws before any state changes.
* Serialization, logging, error classes, the formatting of queries (`scripts.ts`) and the
  configuration of the pool: data and output that no property tells apart.
* Scavenging by `truncateBefore` in PostgreSQL: it selects other messages by the same two
  transactions as `maxCount` (`PgStore`); in memory it is modelled.
* How PostgreSQL locks the rows of one insert. `PgStore` waits for all keys of a batch at once, while
  `schema-v1.ts:197` inserts row by row; the deadlocks that this adds need streams with holes and ids that
  repeat, and PostgreSQL ends them by aborting one of the transactions.
* The replay of any version on a stream that is deleted meanwhile: `ReadLatest` rejects it there, while in the code
  the `UPDATE` touches no row and the call resolves. Nothing is written either way.
* Expiry in `GapDetection`: a message that is filtered out of a page is, to the reload, a gap that does not fill,
  like one that was deleted, which the model has.
* Streams deleted and created again under a subscription or the metadata cache: the
  models follow one incarnation. `Paging` and `PgStore` do delete and recreate streams.
* A message payload, its type and its own `meta`; the time zone and the resolution of
  `created_at` (instants are whole numbers).
* `fejl`'s `retry`, `pg`, `pg-pool` and PostgreSQL itself are modelled as their documentation
  and use say, and marked external where a definition stands for them alone.
