-------------------------- MODULE PgStoreProperties --------------------------
(***************************************************************************)
(* What the writes of the PostgreSQL store keep true, whatever the order   *)
(* in which their statements interleave and wherever they fail.            *)
(***************************************************************************)
EXTENDS PgStore

Stored(s) == {m \in messages : m.id = rows[s].id}
Target(r) == IF r.op = "metadata" THEN MetaStream(r.stream) ELSE r.stream

\* Call c commits what it wrote.
Commits(c) == tx[c].pc = "commit" /\ tx'[c] # tx[c] /\ <<rows, messages>>' # <<rows, messages>>

Steps == {"idle", "metadata", "create", "read", "version", "insert", "enforce", "replayed",
          "latest", "update", "policy", "locate", "select", "delete",
          "find", "compare", "purge", "drop", "commit"}

\* The type of every variable; the keys of the message table are unique.
TypeOK ==
  /\ \A s \in AllStreams : /\ rows[s].id \in 0 .. nextId - 1
                           /\ rows[s].version \in Int /\ rows[s].version >= -1
                           /\ rows[s].maxCount \in Nat
  /\ \A m \in messages : /\ m.streamId \in AllStreams /\ m.id \in 1 .. nextId - 1
                         /\ m.streamVersion \in Nat /\ m.position \in 0 .. position - 1
  /\ \A m, k \in messages : m # k => ~ Conflict(m, k) /\ m.position # k.position
  /\ \A c \in Clients : tx[c].pc \in Steps /\ tx[c].tries \in 0 .. Tries
  /\ nextId \in Nat /\ position \in Nat /\ calls \in 0 .. MaxCalls

\* The clients ask for nothing that removes messages.
NothingRemoved == \A r \in workload : IsAppend(r) /\ r.maxCount = 0

\* schema-v1.ts:265-267: "The append was successful with no conflicts, so we need
\* to update the stream table" with "the latest version": the version of a stream
\* is that of its last message, and no version is missing below it.  (It holds as
\* long as no append of any or the empty version is repeated: a replay that read
\* the latest version before another append may write it after.)
VersionIsLast ==
  NothingRemoved =>
    \A s \in AllStreams : rows[s].id # 0 => {m.streamVersion : m \in Stored(s)} = 0 .. rows[s].version

\* Within a stream the all-stream keeps the order of the versions.
PositionsInOrder ==
  \A m, k \in messages :
    (m.id = k.id /\ m.streamVersion < k.streamVersion) => m.position < k.position

\* An append that was acknowledged is in the stream: its messages stand one after
\* the other, in order, and right after the version that was expected if one was
\* (schema-v1.ts:218-247).
AcknowledgedIsStored ==
  NothingRemoved => \A r \in acknowledged :
      \E v \in -1 .. position :
        /\ r.expected # ExpectedVersionAny => v = r.expected
        /\ \A i \in DOMAIN r.ids : \E m \in Stored(Target(r)) :
             m.messageId = r.ids[i] /\ m.streamVersion = v + i

\* README.md:170: the expected version "only allows appends when the DB version
\* and the one we pass in are the same".
AtTheExpectedVersion(c) ==
  LET r == tx[c].request IN
  (Commits(c) /\ r.op = "append" /\ r.expected # ExpectedVersionAny /\ tx[c].inserted # {})
    => rows[r.stream].version = r.expected

\* An append that expects a version is made at that version, or it was made before,
\* as long as nothing is removed: the unique keys see to it.
OnlyAtTheExpectedVersion == [][NothingRemoved => \A c \in Clients : AtTheExpectedVersion(c)]_vars

\* The same whatever is removed.  (Once messages were removed the version a message
\* would get may be free again, and the procedure only checks that the stream is not
\* behind.)
AppendsAtTheExpectedVersion == [][\A c \in Clients : AtTheExpectedVersion(c)]_vars

\* schema-v1.ts:247: a replay at a version need not update the stream, "as no new
\* writes should have occurred".
ReplayWritesNothing ==
  \A c \in Clients : tx[c].pc = "replayed" => tx[c].inserted = {}

\* The concurrency control of delete_stream (schema-v1.ts:583-613): a stream is
\* deleted at the version that was expected.  (What is committed between the check
\* and the deletion is deleted too.)
DeletedAtTheExpectedVersion ==
  [][\A c \in Clients :
       LET r == tx[c].request IN
       (Commits(c) /\ r.op = "delete stream" /\ r.expected >= 0) =>
         rows[r.stream].version = r.expected]_vars

\* schema-v1.ts:95: "we might have metadata for one, in which case we need to grab
\* the maxAge and maxCount": a stream has the policy of its newest metadata.  (The
\* metadata may be committed while the stream is being created.)
PolicyIsNewest ==
  \A s \in Streams :
    rows[s].id # 0 =>
      LET metadata == Stored(MetaStream(s)) IN
      \/ metadata = {} /\ rows[s].maxCount = 0
      \/ \E newest \in metadata : /\ \A m \in metadata : m.streamVersion <= newest.streamVersion
                                  /\ rows[s].maxCount = newest.maxCount

\* pg-stream-store.ts:721, "scavenges the stream if the max age, max count count or
\* truncate before say so": when the calls are over and no connection was lost, no
\* stream has more messages than the maxCount of its row, although each scavenge
\* selects and deletes in transactions of its own, after the one that appended.
ScavengedWhenQuiet ==
  (~ lost /\ \A c \in Clients : tx[c].pc = "idle") =>
    \A s \in Streams : rows[s].maxCount # 0 => Cardinality(Stored(s)) <= rows[s].maxCount

\* No call waits forever: the locks are taken in one order, and the tries end.
CallsEnd == \A c \in Clients : tx[c].pc # "idle" ~> tx[c].pc = "idle"

\* The store is a set of logs, if nothing is removed from it.
Log == INSTANCE EventLog WITH
  Streams <- AllStreams,
  open <- TRUE,
  version <- [s \in AllStreams |-> IF NothingRemoved THEN rows[s].version ELSE -1],
  live <- {[streamId |-> m.streamId, messageId |-> m.messageId,
            streamVersion |-> m.streamVersion, position |-> m.position] :
           m \in {k \in messages : NothingRemoved}}
ImplementsLog == Log!Spec
=============================================================================
