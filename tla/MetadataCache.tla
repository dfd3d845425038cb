---------------------------- MODULE MetadataCache ----------------------------
(***************************************************************************)
(* Reads of the PostgreSQL store with filterExpiredMessages: the messages  *)
(* of a page whose maxAge is over are left out and purged in the           *)
(* background (maybeFilterExpiredMessages, purgeExpiredMessages).  The     *)
(* maxAge comes from a cache of promises (infra/metadata-cache.ts): the    *)
(* first to ask makes the query and everyone who asks until it is older    *)
(* than Ttl gets its outcome, which may be a failure or still to come.     *)
(*                                                                         *)
(* The metadata of a stream is itself read with readStream, so the message *)
(* that holds it is filtered too: that takes the metadata of the metadata  *)
(* stream, which has none.                                                 *)
(*                                                                         *)
(* One stream is modelled, with the entries its reads need; the entries of *)
(* other streams come and go by the same clock and nothing else.           *)
(***************************************************************************)
EXTENDS Integers, Sequences, FiniteSets

CONSTANTS
  Clients,       \* the calls that read
  Ttl,           \* metadataCacheTtl
  MaxAges,       \* what maxAge is set to; 0 for none
  MaxMessages,   \* bound: the messages appended
  MaxFailures,   \* bound: the queries that fail
  MaxClock       \* bound: how long it goes on

VARIABLES
  clock,
  createdAt,     \* when each message was appended
  stored,        \* the messages in the table
  doomed,        \* those that a deletion under way in the background will remove
  maxAge,        \* the maxAge of the stream, as committed
  changedAt,     \* when its metadata was committed; -1 if there is none
  scavenging,    \* the maxAge the writer has yet to scavenge with, or 0
  queries,       \* the reads of metadata made so far: the promises
  cache,         \* for each key, the query whose promise is cached, or 0
  client,        \* the calls that read
  failures       \* the queries that failed

vars == <<clock, createdAt, stored, doomed, maxAge, changedAt, scavenging,
          queries, cache, client, failures>>

ASSUME MetadataCacheAssumption ==
  /\ Ttl \in Nat /\ MaxAges \subseteq Nat
  /\ MaxMessages \in Nat /\ MaxFailures \in Nat /\ MaxClock \in Nat

\* The streams whose metadata is asked for: the stream and its metadata stream.
Keys == {"stream", "$$stream"}

Waiting == [pc |-> "idle", page |-> {}, query |-> 0, began |-> 0, valid |-> {}]

Init ==
  /\ clock = 0 /\ createdAt = << >> /\ stored = {} /\ doomed = {}
  /\ maxAge = 0 /\ changedAt = -1 /\ scavenging = 0
  /\ queries = << >> /\ cache = [k \in Keys |-> 0]
  /\ client = [c \in Clients |-> Waiting] /\ failures = 0

Tick ==
  /\ clock < MaxClock
  /\ clock' = clock + 1
  /\ UNCHANGED <<createdAt, stored, doomed, maxAge, changedAt, scavenging, queries, cache, client, failures>>

-----------------------------------------------------------------------------
(***************************************************************************)
(* A client that writes; its scavenge uses the metadata in the database    *)
(***************************************************************************)
AppendToStream ==
  /\ scavenging = 0 /\ Len(createdAt) < MaxMessages
  /\ createdAt' = Append(createdAt, clock)
  /\ stored' = stored \cup {Len(createdAt) + 1}
  /\ scavenging' = maxAge
  /\ UNCHANGED <<clock, doomed, maxAge, changedAt, queries, cache, client, failures>>

SetStreamMetadata ==
  /\ scavenging = 0
  /\ maxAge' \in MaxAges
  /\ changedAt' = clock
  /\ scavenging' = maxAge'
  /\ UNCHANGED <<clock, createdAt, stored, doomed, queries, cache, client, failures>>

\* maybeScavenge: get_scavengable_stream_messages, and then delete_messages.
Scavenge ==
  /\ scavenging # 0
  /\ scavenging' = 0
  /\ doomed' = doomed \cup {m \in stored : createdAt[m] < clock - scavenging}
  /\ UNCHANGED <<clock, createdAt, stored, maxAge, changedAt, queries, cache, client, failures>>

\* A deletion commits.
Purge ==
  /\ \E m \in doomed : stored' = stored \ {m} /\ doomed' = doomed \ {m}
  /\ UNCHANGED <<clock, createdAt, maxAge, changedAt, scavenging, queries, cache, client, failures>>

-----------------------------------------------------------------------------
(***************************************************************************)
(* The cache                                                               *)
(***************************************************************************)

\* Mutation of Kept: nothing ever leaves the cache.
KeptForever == cache

\* Mutation of Kept: only an answer is worth keeping.
KeptOnceResolved ==
  [k \in Keys |-> IF cache[k] # 0 /\ (queries[cache[k]].askedAt + Ttl < clock \/ queries[cache[k]].state # "resolved")
                  THEN 0 ELSE cache[k]]

\* purgeCache: an entry expires Ttl after it was asked for.
Kept ==
  [k \in Keys |-> IF cache[k] # 0 /\ queries[cache[k]].askedAt + Ttl < clock THEN 0 ELSE cache[k]]

\* The promise readStreamMetadata(k) returns, and the entry it leaves if it asks.
Promise(k) == IF Kept[k] # 0 THEN Kept[k] ELSE Len(queries) + 1
Asked(k, qs) ==
  IF Kept[k] # 0 THEN qs
  ELSE Append(qs, [key |-> k, askedAt |-> clock, state |-> "asked", maxAge |-> 0, filter |-> 0])

Cached(k) == [Kept EXCEPT ![k] = Promise(k)]

\* Mutation of FilterKey: a metadata message is filtered by the metadata it holds.
FilterKeyOwn == "stream"

\* Whose metadata the filter of a metadata message asks for.
FilterKey == "$$stream"

\* Without a message there is nothing to filter; with one the filter awaits the
\* maxAge of the metadata stream.
QueryAnswered(i) ==
  /\ queries[i].state = "asked"
  /\ \/ /\ queries[i].key = "$$stream" \/ changedAt = -1
        /\ queries' = [queries EXCEPT ![i].state = "resolved"]
        /\ UNCHANGED cache
     \/ /\ queries[i].key = "stream" /\ changedAt # -1
        /\ queries' = Asked(FilterKey, [queries EXCEPT ![i].state = "filtering", ![i].maxAge = maxAge,
                                                       ![i].filter = Promise(FilterKey)])
        /\ cache' = Cached(FilterKey)
  /\ UNCHANGED <<clock, createdAt, stored, doomed, maxAge, changedAt, scavenging, client, failures>>

QueryFails(i) ==
  /\ queries[i].state = "asked"
  /\ failures < MaxFailures
  /\ failures' = failures + 1
  /\ queries' = [queries EXCEPT ![i].state = "failed"]
  /\ UNCHANGED <<clock, createdAt, stored, doomed, maxAge, changedAt, scavenging, cache, client>>

Settled(i) == queries[i].state \in {"resolved", "failed"}

\* The metadata message is never left out, but a failure of what was asked for it
\* is passed on.
MetadataFiltered(i) ==
  /\ queries[i].state = "filtering"
  /\ Settled(queries[i].filter)
  /\ queries' = [queries EXCEPT ![i].state = queries[queries[i].filter].state]
  /\ UNCHANGED <<clock, createdAt, stored, doomed, maxAge, changedAt, scavenging, cache, client, failures>>

-----------------------------------------------------------------------------
(***************************************************************************)
(* A client that reads                                                     *)
(***************************************************************************)
ReadPage(c) ==
  /\ client[c].pc = "idle" /\ stored # {}
  /\ client' = [client EXCEPT ![c] = [Waiting EXCEPT !.pc = "read", !.page = stored]]
  /\ UNCHANGED <<clock, createdAt, stored, doomed, maxAge, changedAt, scavenging, queries, cache, failures>>

\* maybeFilterExpiredMessages asks once per message; all get the same promise.
LookUp(c) ==
  /\ client[c].pc = "read"
  /\ client' = [client EXCEPT ![c].pc = "waiting", ![c].query = Promise("stream"), ![c].began = clock]
  /\ queries' = Asked("stream", queries)
  /\ cache' = Cached("stream")
  /\ UNCHANGED <<clock, createdAt, stored, doomed, maxAge, changedAt, scavenging, failures>>

\* filterExpiredMessages.
Valid(ms, age) == {m \in ms : age = 0 \/ createdAt[m] + age > clock}

\* Mutation of Filter: the time is taken before the metadata is awaited.
FilterAsOfLookUp(c) ==
  LET query == queries[client[c].query]
      valid == {m \in client[c].page : query.maxAge = 0 \/ createdAt[m] + query.maxAge > client[c].began} IN
  /\ client[c].pc = "waiting" /\ query.state = "resolved"
  /\ client' = [client EXCEPT ![c] = [Waiting EXCEPT !.valid = valid]]
  /\ doomed' = doomed \cup ((client[c].page \ valid) \cap stored)
  /\ UNCHANGED <<clock, createdAt, stored, maxAge, changedAt, scavenging, queries, cache, failures>>

\* The read returns what is valid, and has the rest deleted.
Filter(c) ==
  LET query == queries[client[c].query]
      valid == Valid(client[c].page, query.maxAge) IN
  /\ client[c].pc = "waiting" /\ query.state = "resolved"
  /\ client' = [client EXCEPT ![c] = [Waiting EXCEPT !.valid = valid]]
  /\ doomed' = doomed \cup ((client[c].page \ valid) \cap stored)
  /\ UNCHANGED <<clock, createdAt, stored, maxAge, changedAt, scavenging, queries, cache, failures>>

\* The read rejects with the error of the query.
Reject(c) ==
  /\ client[c].pc = "waiting" /\ queries[client[c].query].state = "failed"
  /\ client' = [client EXCEPT ![c] = Waiting]
  /\ UNCHANGED <<clock, createdAt, stored, doomed, maxAge, changedAt, scavenging, queries, cache, failures>>

Next ==
  \/ Tick \/ AppendToStream \/ SetStreamMetadata \/ Scavenge \/ Purge
  \/ \E i \in 1 .. Len(queries) : QueryAnswered(i) \/ QueryFails(i) \/ MetadataFiltered(i)
  \/ \E c \in Clients : ReadPage(c) \/ LookUp(c) \/ Filter(c) \/ Reject(c)

Spec == Init /\ [][Next]_vars

\* The database answers every query and each call goes on with what it awaits.
Fairness ==
  /\ WF_vars(\E i \in 1 .. Len(queries) : QueryAnswered(i) \/ MetadataFiltered(i))
  /\ \A c \in Clients : WF_vars(LookUp(c) \/ Filter(c) \/ Reject(c))
FairSpec == Spec /\ Fairness

-----------------------------------------------------------------------------
(***************************************************************************)
(* Properties                                                              *)
(***************************************************************************)

\* The type of every variable: whoever waits, waits for a query that was made, and
\* what is cached for a key was asked for it.
TypeOK ==
  /\ clock \in 0 .. MaxClock /\ stored \cup doomed \subseteq DOMAIN createdAt
  /\ maxAge \in MaxAges \cup {0} /\ changedAt \in -1 .. clock /\ scavenging \in MaxAges \cup {0}
  /\ \A i \in DOMAIN queries :
       /\ queries[i].key \in Keys /\ queries[i].askedAt \in 0 .. clock
       /\ queries[i].state \in {"asked", "filtering", "resolved", "failed"}
       /\ queries[i].filter \in 0 .. Len(queries)
       /\ queries[i].state = "filtering" => queries[i].filter # 0
  /\ \A k \in Keys : cache[k] # 0 => cache[k] \in DOMAIN queries /\ queries[cache[k]].key = k
  /\ \A c \in Clients :
       /\ client[c].pc \in {"idle", "read", "waiting"}
       /\ client[c].page \cup client[c].valid \subseteq DOMAIN createdAt
       /\ client[c].pc = "waiting" => client[c].query \in DOMAIN queries

\* types/config.ts:116-119, "To avoid spamming the DB with requests, we can cache
\* the metadata": however many read at once, the metadata of a stream is read once in
\* Ttl seconds.
OneQueryPerTtl ==
  \A i, j \in DOMAIN queries :
    (i < j /\ queries[i].key = queries[j].key) => queries[i].askedAt + Ttl < queries[j].askedAt

\* README.md:341, "Messages older than this won't be returned": a read that began
\* when the metadata had not changed for longer than Ttl, and does not until it ends,
\* returns the messages that have not expired, those and no others.
ExactOnceSettled ==
  [][\A c \in Clients :
       (client[c].pc = "waiting" /\ queries[client[c].query].state = "resolved"
          /\ client'[c].pc = "idle" /\ changedAt + Ttl < client[c].began)
         => client'[c].valid = Valid(client[c].page, maxAge)]_vars

\* A query that fails fails the reads of the next Ttl seconds, and those that ask
\* for the entry that awaited it: after twice that time it is forgotten.
FailuresAreForgotten ==
  [][\A c \in Clients :
       LET i == client[c].query IN
       (client[c].pc = "waiting" /\ queries[i].state = "failed" /\ client'[c].pc = "idle")
         => \E j \in DOMAIN queries :
              /\ queries[j].state = "failed" /\ queries[j].filter = 0
              /\ queries[j].askedAt + 2 * Ttl >= client[c].began]_vars

\* Nobody waits for a promise that waits for itself: every read is answered.
ReadsAreAnswered == \A c \in Clients : (client[c].pc = "waiting") ~> (client[c].pc = "idle")

\* A message is purged only if it has expired by the metadata of the stream.  (The
\* cache may have a maxAge that was replaced by a longer one, or by none.)
OnlyExpiredIsPurged ==
  [][\A m \in doomed' \ doomed : maxAge # 0 /\ createdAt[m] + maxAge <= clock]_vars
=============================================================================
