------------------------------ MODULE PgStore ------------------------------
(***************************************************************************)
(* The writes of the PostgreSQL store: the stored procedures of            *)
(* postgres/setup/schema-v1.ts, which postgres/pg-stream-store.ts calls in *)
(* one transaction each (runInTransaction), again and again while the      *)
(* error is a WrongExpectedVersion and the caller expected any version.    *)
(* When the procedure answers that the stream has a maxCount, the store    *)
(* goes on with two more transactions that scavenge the stream.            *)
(*                                                                         *)
(* One action is one statement of a procedure: under READ COMMITTED each   *)
(* sees what was committed when it began and what its own transaction      *)
(* wrote.  A statement that writes waits for the transactions that hold    *)
(* what it needs: an INSERT for the keys it conflicts with, an UPDATE or   *)
(* DELETE for the row, a DELETE of a stream also for the transactions that *)
(* inserted messages referring to it.  A row that is being inserted is not *)
(* visible, so nobody waits to update it.                                  *)
(*                                                                         *)
(* The statement that numbers the messages also takes their positions from *)
(* the sequence, before it waits; here they are taken when it goes on.     *)
(***************************************************************************)
EXTENDS Integers, Sequences, FiniteSets, SequencesExt

CONSTANTS
  Clients,        \* the calls that can be under way at a time
  Streams,        \* the streams of the clients
  Workloads,      \* the sets of requests, one of which they make
  NewId,          \* in a request, a message id that the client makes up for the call
  Tries,          \* retryOpts.tries
  MaxCalls        \* bound: the calls made

VARIABLES
  workload,       \* what the clients ask for, which never changes
  rows,           \* the stream table, as committed
  messages,       \* the message table, as committed
  tx,             \* the transaction of each client
  nextId,         \* the sequence of id_internal
  position,       \* message_seq
  calls,          \* history: the number of calls made
  acknowledged,   \* history: the appends that resolved
  lost            \* history: a connection was lost

vars == <<workload, rows, messages, tx, nextId, position, calls, acknowledged, lost>>

ExpectedVersionAny == -2
ExpectedVersionEmpty == -1

MetaStream(s) == <<"$$", s>>
DeletedStream == <<"$deleted">>
AllStreams == Streams \cup {MetaStream(s) : s \in Streams} \cup {DeletedStream}

\* What a caller asks for: an append of the messages ids, the metadata
\* maxCount, the deletion of the messages ids or of the stream.  The id of a
\* metadata message is random, that of the message that records the deletion of a
\* stream is made from the arguments.
Request(op, stream, expected, ids, maxCount) ==
  [op |-> op, stream |-> stream, expected |-> expected, ids |-> ids, maxCount |-> maxCount]

\* The ids the client makes up, which nobody else does.
MadeUp(call, i) == <<"uuid", call, i>>

IsRequest(r) ==
  /\ r = Request(r.op, r.stream, r.expected, r.ids, r.maxCount)
  /\ r.op \in {"append", "metadata", "delete", "delete stream"}
  /\ r.stream \in Streams
  /\ r.expected \in Int /\ r.expected >= ExpectedVersionAny
  /\ r.ids \in Seq(ToSet(r.ids))
  /\ \A i, j \in DOMAIN r.ids : r.ids[i] = r.ids[j] => i = j \/ r.ids[i] = NewId
  /\ r.op = "metadata" => r.ids = <<NewId>>
  /\ r.maxCount \in Nat

ASSUME PgStoreAssumption ==
  /\ IsFiniteSet(Clients)
  /\ \A requests \in Workloads : \A r \in requests : IsRequest(r)
  /\ \A requests \in Workloads : \A r, q \in requests :
       \A i \in DOMAIN r.ids, j \in DOMAIN q.ids, n \in 0 .. MaxCalls : r.ids[i] # MadeUp(n, j)
  /\ Tries \in Nat /\ Tries >= 1 /\ MaxCalls \in Nat

NoRow == [id |-> 0, version |-> -1, maxCount |-> 0]

\* A transaction: pc is its next statement; target, expected and ids are the
\* arguments of append_to_stream, id, current, success and maxCount its variables;
\* writes, inserted and deleted are what it wrote.
Idle ==
  [pc |-> "idle", request |-> Request("delete", DeletedStream, 0, << >>, 0), tries |-> 0,
   target |-> DeletedStream, expected |-> 0, ids |-> << >>,
   id |-> 0, current |-> -1, success |-> 0, maxCount |-> 0,
   writes |-> << >>, inserted |-> {}, deleted |-> {}]

Init ==
  /\ workload \in Workloads
  /\ rows = [s \in AllStreams |-> NoRow]
  /\ messages = {}
  /\ tx = [c \in Clients |-> Idle]
  /\ nextId = 1 /\ position = 0
  /\ calls = 0 /\ acknowledged = {} /\ lost = FALSE

-----------------------------------------------------------------------------
(***************************************************************************)
(* What a statement sees and what it waits for                             *)
(***************************************************************************)
Row(c, s) == IF s \in DOMAIN tx[c].writes THEN tx[c].writes[s] ELSE rows[s]
Visible(c) == (messages \ tx[c].deleted) \cup tx[c].inserted
MessagesOf(c, id) == {m \in Visible(c) : m.id = id}

\* No other transaction has written the row of stream s.
Free(c, s) == \A d \in Clients \ {c} : s \notin DOMAIN tx[d].writes

\* The unique constraints of the message table.
Conflict(m, k) ==
  m.id = k.id /\ (m.messageId = k.messageId \/ m.streamVersion = k.streamVersion)
Touched(c) == UNION {tx[d].inserted \cup tx[d].deleted : d \in Clients \ {c}}

\* The transaction of c goes on as t.
Become(c, t) == tx' = [tx EXCEPT ![c] = t]
Go(c, pc) == Become(c, [tx[c] EXCEPT !.pc = pc])
Wrote(t, s, row) == [u \in DOMAIN t.writes \cup {s} |-> IF u = s THEN row ELSE t.writes[u]]
Reads == UNCHANGED <<workload, rows, messages, nextId, position, calls, acknowledged, lost>>

\* append_to_stream begins by creating the stream unless a version is expected.
AppendStart(expected) == IF expected < 0 THEN "metadata" ELSE "read"

Begin(request, tries) ==
  LET start == CASE request.op \in {"delete", "scavenge"} -> "locate"
                 [] request.op = "delete stream" -> "find"
                 [] OTHER -> AppendStart(request.expected)
      target == IF request.op = "metadata" THEN MetaStream(request.stream) ELSE request.stream
  IN  [Idle EXCEPT !.pc = start, !.request = request, !.tries = tries, !.target = target,
                   !.expected = request.expected, !.ids = request.ids]

\* raise exception 'WrongExpectedVersion': rolled back, and tried again when any
\* version was expected.
WrongExpectedVersion(c) ==
  LET t == tx[c] IN
  Become(c, IF t.request.expected = ExpectedVersionAny /\ t.tries < Tries
            THEN Begin(t.request, t.tries + 1) ELSE Idle)

\* Any other error rolls back and rejects.
Reject(c) == Become(c, Idle)

-----------------------------------------------------------------------------
\* A client calls the store.
Fresh(r) == [r EXCEPT !.ids = [i \in DOMAIN @ |-> IF @[i] = NewId THEN MadeUp(calls, i) ELSE @[i]]]

Call(c) ==
  /\ tx[c].pc = "idle"
  /\ calls < MaxCalls
  /\ \E r \in workload : Become(c, Begin(Fresh(r), 1))
  /\ calls' = calls + 1
  /\ UNCHANGED <<workload, rows, messages, nextId, position, acknowledged, lost>>

-----------------------------------------------------------------------------
(***************************************************************************)
(* append_to_stream                                                        *)
(***************************************************************************)

\* The metadata there may already be for a stream that is yet to be created.
ReadMetadata(c) ==
  LET t == tx[c]
      metadata == {m \in Visible(c) : t.target \in Streams /\ m.id = Row(c, MetaStream(t.target)).id} IN
  /\ t.pc = "metadata"
  /\ \/ metadata = {} /\ Become(c, [t EXCEPT !.pc = "create", !.maxCount = 0])
     \/ \E newest \in metadata :
          /\ \A m \in metadata : m.streamVersion <= newest.streamVersion
          /\ Become(c, [t EXCEPT !.pc = "create", !.maxCount = newest.maxCount])
  /\ Reads

\* insert into stream ... on conflict do nothing
CreateStream(c) ==
  LET t == tx[c] IN
  /\ t.pc = "create"
  /\ Free(c, t.target)
  /\ \/ /\ Row(c, t.target).id = 0
        /\ Become(c, [t EXCEPT !.pc = "read",
             !.writes = Wrote(t, t.target, [id |-> nextId, version |-> -1, maxCount |-> t.maxCount])])
        /\ nextId' = nextId + 1
     \/ /\ Row(c, t.target).id # 0
        /\ Go(c, "read")
        /\ UNCHANGED nextId
  /\ UNCHANGED <<workload, rows, messages, position, calls, acknowledged, lost>>

\* The version to append after: that before the first message if it was written
\* already, when any version is expected.
ReadStream(c) ==
  LET t == tx[c]
      row == Row(c, t.target)
      found == {m \in MessagesOf(c, row.id) : t.ids # << >> /\ m.messageId = t.ids[1]}
      current == IF t.expected # ExpectedVersionAny THEN t.expected
                 ELSE IF found = {} THEN row.version
                 ELSE (CHOOSE m \in found : TRUE).streamVersion - 1 IN
  /\ t.pc = "read"
  /\ Become(c, [t EXCEPT !.id = row.id, !.current = IF t.ids = << >> THEN t.expected ELSE current,
                         !.maxCount = 0,
                         !.pc = IF t.expected >= 0 THEN "version"
                                ELSE IF t.ids = << >> THEN "commit" ELSE "insert"])
  /\ Reads

\* Mutation of CheckVersion: any expected version will do.
CheckNoVersion(c) ==
  LET t == tx[c] IN
  /\ t.pc = "version"
  /\ Go(c, IF t.ids = << >> THEN "commit" ELSE "insert")
  /\ Reads

\* The stream must not be behind the version that is expected.
CheckVersion(c) ==
  LET t == tx[c] IN
  /\ t.pc = "version"
  /\ \/ /\ t.id = 0 \/ (Row(c, t.target).id = t.id /\ Row(c, t.target).version < t.expected)
        /\ WrongExpectedVersion(c)
     \/ /\ t.id # 0 /\ (Row(c, t.target).id = t.id => Row(c, t.target).version >= t.expected)
        /\ Go(c, IF t.ids = << >> THEN "commit" ELSE "insert")
  /\ Reads

\* Mutation of NewMessages: the sequence is read once for all of them.
NewMessagesAtOnePosition(c) ==
  LET t == tx[c] IN
  {[streamId |-> t.target, id |-> t.id, messageId |-> t.ids[i], streamVersion |-> t.current + i,
    position |-> position, maxCount |-> t.request.maxCount] : i \in DOMAIN t.ids}

\* The rows to insert.
NewMessages(c) ==
  LET t == tx[c] IN
  {[streamId |-> t.target, id |-> t.id, messageId |-> t.ids[i], streamVersion |-> t.current + i,
    position |-> position + i - 1, maxCount |-> t.request.maxCount] : i \in DOMAIN t.ids}

\* insert into message ... on conflict do nothing; the stream must still be there.
InsertMessages(c) ==
  LET t == tx[c]
      fresh == {m \in NewMessages(c) : \A k \in Visible(c) : ~ Conflict(m, k)}
      orphans == fresh # {} /\ Row(c, t.target).id # t.id IN
  /\ t.pc = "insert"
  /\ \A m \in NewMessages(c), k \in Touched(c) : ~ Conflict(m, k)
  /\ \A d \in Clients \ {c} : t.target \in DOMAIN tx[d].writes => tx[d].writes[t.target] # NoRow
  /\ position' = position + Len(t.ids)
  /\ \/ /\ t.id = 0 \/ orphans
        /\ Reject(c)
     \/ /\ t.id # 0 /\ ~ orphans
        /\ Become(c, [t EXCEPT !.inserted = @ \cup fresh, !.success = Cardinality(fresh),
                               !.pc = IF Cardinality(fresh) = Len(t.ids) THEN "latest" ELSE "enforce"])
  /\ UNCHANGED <<workload, rows, messages, nextId, calls, acknowledged, lost>>

\* The message that has n of the messages ms before it.
After(n, ms) == {m \in ms : Cardinality({k \in ms : k.streamVersion < m.streamVersion}) = n}

\* Mutation of EnforceIdempotentAppend: the ids are compared as sets.
EnforceAnyOrder(c) ==
  LET t == tx[c]
      start == (IF t.expected = ExpectedVersionEmpty THEN -1 ELSE t.current - t.success)
      stored == {m \in MessagesOf(c, t.id) : m.streamVersion > start}
      replayed == /\ start >= 0 \/ t.success = 0
                  /\ ToSet(t.ids) \subseteq {m.messageId : m \in stored} IN
  /\ t.pc = "enforce"
  /\ \/ replayed /\ Go(c, IF t.expected < 0 THEN "latest" ELSE "replayed")
     \/ ~ replayed /\ WrongExpectedVersion(c)
  /\ Reads

\* Mutation of EnforceIdempotentAppend: what was inserted is not subtracted.
EnforceFromCurrent(c) ==
  LET t == tx[c]
      start == t.current
      stored == {m \in MessagesOf(c, t.id) : m.streamVersion > start}
      replayed == /\ start >= 0 \/ t.success = 0
                  /\ \A i \in DOMAIN t.ids : \E m \in After(i - 1, stored) : m.messageId = t.ids[i] IN
  /\ t.pc = "enforce"
  /\ \/ replayed /\ Go(c, IF t.expected < 0 THEN "latest" ELSE "replayed")
     \/ ~ replayed /\ WrongExpectedVersion(c)
  /\ Reads

\* Some messages conflicted: all of them must have been written before, in order.
EnforceIdempotentAppend(c) ==
  LET t == tx[c]
      start == (IF t.expected = ExpectedVersionEmpty THEN -1 ELSE t.current - t.success)
      stored == {m \in MessagesOf(c, t.id) : m.streamVersion > start}
      replayed == /\ start >= 0 \/ t.success = 0
                  /\ \A i \in DOMAIN t.ids : \E m \in After(i - 1, stored) : m.messageId = t.ids[i] IN
  /\ t.pc = "enforce"
  /\ \/ replayed /\ Go(c, IF t.expected < 0 THEN "latest" ELSE "replayed")
     \/ ~ replayed /\ WrongExpectedVersion(c)
  /\ Reads

\* A replay at a version reads what the stream is at, and writes nothing more;
\* the stream may have been deleted by then.
Replayed(c) ==
  LET t == tx[c]
      row == IF Row(c, t.target).id = t.id THEN Row(c, t.target) ELSE NoRow IN
  /\ t.pc = "replayed"
  /\ Become(c, [t EXCEPT !.pc = IF t.request.op = "metadata" THEN "policy" ELSE "commit",
                         !.current = row.version, !.maxCount = row.maxCount])
  /\ Reads

\* The version of the message with the greatest position.
ReadLatest(c) ==
  LET t == tx[c]
      all == MessagesOf(c, t.id) IN
  /\ t.pc = "latest"
  /\ \/ /\ all = {}
        /\ Reject(c)
     \/ \E latest \in all :
          /\ \A m \in all : m.position <= latest.position
          /\ Become(c, [t EXCEPT !.pc = "update", !.current = latest.streamVersion])
  /\ Reads

\* Mutation of UpdateStream: the version is not written.
UpdateNothing(c) ==
  LET t == tx[c] IN
  /\ t.pc = "update"
  /\ Go(c, IF t.request.op = "metadata" THEN "policy" ELSE "commit")
  /\ Reads

\* Mutation of UpdateStream: those that have read the row have locked it too.
UpdateStreamLockedByReaders(c) ==
  LET t == tx[c]
      row == Row(c, t.target)
      next == [t EXCEPT !.pc = IF t.request.op = "metadata" THEN "policy" ELSE "commit"] IN
  /\ t.pc = "update"
  /\ \A d \in Clients \ {c} : tx[d].id # t.id
  /\ Become(c, IF row.id # t.id THEN next
               ELSE [next EXCEPT !.writes = Wrote(t, t.target, [row EXCEPT !.version = t.current])])
  /\ Reads

\* update stream ... returning max_count
UpdateStream(c) ==
  LET t == tx[c]
      row == Row(c, t.target)
      next == [t EXCEPT !.pc = IF t.request.op = "metadata" THEN "policy" ELSE "commit"] IN
  /\ t.pc = "update"
  /\ \/ /\ row.id # t.id
        /\ Become(c, next)
     \/ /\ row.id = t.id
        /\ Free(c, t.target)
        /\ Become(c, [next EXCEPT !.maxCount = row.maxCount,
                                  !.writes = Wrote(t, t.target, [row EXCEPT !.version = t.current])])
  /\ Reads

\* set_stream_metadata, once its message is appended: update the stream if any.
UpdatePolicy(c) ==
  LET t == tx[c]
      s == t.request.stream
      next == [t EXCEPT !.pc = "commit", !.maxCount = t.request.maxCount] IN
  /\ t.pc = "policy"
  /\ \/ /\ Row(c, s).id = 0
        /\ Become(c, next)
     \/ /\ Row(c, s).id # 0
        /\ Free(c, s)
        /\ Become(c, [next EXCEPT
                               !.writes = Wrote(t, s, [Row(c, s) EXCEPT !.maxCount = t.request.maxCount])])
  /\ Reads

AppendToStream(c) ==
  \/ ReadMetadata(c) \/ CreateStream(c) \/ ReadStream(c) \/ CheckVersion(c)
  \/ InsertMessages(c) \/ EnforceIdempotentAppend(c) \/ Replayed(c)
  \/ ReadLatest(c) \/ UpdateStream(c) \/ UpdatePolicy(c)

-----------------------------------------------------------------------------
(***************************************************************************)
(* delete_messages, get_scavengable_stream_messages and delete_stream      *)
(***************************************************************************)
LocateStream(c) ==
  LET t == tx[c] IN
  /\ t.pc = "locate"
  /\ Become(c, [t EXCEPT !.id = Row(c, t.target).id,
                         !.pc = IF t.request.op = "scavenge" THEN "select" ELSE "delete"])
  /\ Reads

DeleteMessages(c) ==
  LET t == tx[c]
      gone == {m \in MessagesOf(c, t.id) : m.messageId \in ToSet(t.ids)} IN
  /\ t.pc = "delete"
  /\ gone \cap Touched(c) = {}
  /\ Become(c, [t EXCEPT !.pc = "commit", !.deleted = gone])
  /\ Reads

\* Mutation of Scavengable: one message more is kept.
ScavengableButOne(c) ==
  LET all == MessagesOf(c, tx[c].id)
      Newer(m) == {k \in all : k.streamVersion > m.streamVersion}
  IN  {m \in all : Cardinality(Newer(m)) > tx[c].request.maxCount}

\* The messages that are not among the newest maxCount.
Scavengable(c) ==
  LET all == MessagesOf(c, tx[c].id)
      Newer(m) == {k \in all : k.streamVersion > m.streamVersion}
  IN  {m \in all : Cardinality(Newer(m)) >= tx[c].request.maxCount}

\* maybeScavenge reads what is to be scavenged in one transaction and deletes it
\* by id in another.
SelectScavengable(c) ==
  LET t == tx[c]
      ids == SetToSeq({m.messageId : m \in Scavengable(c)}) IN
  /\ t.pc = "select"
  /\ Become(c, IF Scavengable(c) = {} THEN Idle
               ELSE Begin(Request("delete", t.request.stream, 0, ids, 0), 1))
  /\ Reads

FindStream(c) ==
  LET t == tx[c] IN
  /\ t.pc = "find"
  /\ \/ /\ Row(c, t.target).id = 0
        /\ Go(c, "commit")
     \/ /\ Row(c, t.target).id # 0 /\ t.expected = ExpectedVersionEmpty
        /\ WrongExpectedVersion(c)
     \/ /\ Row(c, t.target).id # 0 /\ t.expected # ExpectedVersionEmpty
        /\ Become(c, [t EXCEPT !.id = Row(c, t.target).id,
                               !.pc = IF t.expected >= 0 THEN "compare" ELSE "purge"])
  /\ Reads

\* The latest message must have the expected version, if there is a message.
CompareVersion(c) ==
  LET t == tx[c]
      all == MessagesOf(c, t.id)
      wrong == \E latest \in all : /\ \A m \in all : m.position <= latest.position
                                   /\ latest.streamVersion # t.expected IN
  /\ t.pc = "compare"
  /\ \/ wrong /\ WrongExpectedVersion(c)
     \/ ~ wrong /\ Go(c, "purge")
  /\ Reads

PurgeMessages(c) ==
  LET t == tx[c] IN
  /\ t.pc = "purge"
  /\ MessagesOf(c, t.id) \cap Touched(c) = {}
  /\ Become(c, [t EXCEPT !.pc = "drop", !.deleted = MessagesOf(c, t.id)])
  /\ Reads

\* delete from stream, and then append the message that records it; a message
\* committed since the purge still refers to the stream.
DropStream(c) ==
  LET t == tx[c] IN
  /\ t.pc = "drop"
  /\ \/ /\ Row(c, t.target).id # t.id
        /\ Go(c, "commit")
     \/ /\ Row(c, t.target).id = t.id
        /\ Free(c, t.target)
        /\ \A d \in Clients \ {c} : \A m \in tx[d].inserted : m.id # t.id
        /\ \/ /\ MessagesOf(c, t.id) # {}
              /\ Reject(c)
           \/ /\ MessagesOf(c, t.id) = {}
              /\ Become(c, [t EXCEPT !.pc = AppendStart(ExpectedVersionAny),
                                     !.writes = Wrote(t, t.target, NoRow),
                                     !.target = DeletedStream, !.expected = ExpectedVersionAny,
                                     !.ids = << <<t.request.stream, "deleted", t.request.expected>> >>])
  /\ Reads

DeleteStream(c) ==
  FindStream(c) \/ CompareVersion(c) \/ PurgeMessages(c) \/ DropStream(c)

-----------------------------------------------------------------------------
(***************************************************************************)
(* The end of a transaction                                                *)
(***************************************************************************)

\* The calls that scavenge the stream once they have written.
IsAppend(request) == request.op \in {"append", "metadata"}

\* What the client goes on with: nothing, or the scavenge that the maxCount asks for.
Followed(t) ==
  IF IsAppend(t.request) /\ t.maxCount # 0
  THEN Begin(Request("scavenge", t.request.stream, 0, << >>, t.maxCount), 1)
  ELSE Idle

\* COMMIT, which the caller may not hear of.
Commit(c) ==
  LET t == tx[c] IN
  /\ t.pc = "commit"
  /\ rows' = [s \in AllStreams |-> Row(c, s)]
  /\ messages' = Visible(c)
  /\ \/ /\ acknowledged' = IF IsAppend(t.request)
                            THEN acknowledged \cup {t.request}
                            ELSE acknowledged
        /\ Become(c, Followed(t))
        /\ UNCHANGED lost
     \/ /\ lost' = TRUE
        /\ Become(c, Idle)
        /\ UNCHANGED acknowledged
  /\ UNCHANGED <<workload, nextId, position, calls>>

\* The connection is lost before the transaction is committed.
LoseConnection(c) ==
  /\ tx[c].pc # "idle"
  /\ Reject(c)
  /\ lost' = TRUE
  /\ UNCHANGED <<workload, rows, messages, nextId, position, calls, acknowledged>>

Next ==
  \/ \E c \in Clients : Call(c)
  \/ \E c \in Clients : ReadMetadata(c)
  \/ \E c \in Clients : CreateStream(c)
  \/ \E c \in Clients : ReadStream(c)
  \/ \E c \in Clients : CheckVersion(c)
  \/ \E c \in Clients : InsertMessages(c)
  \/ \E c \in Clients : EnforceIdempotentAppend(c)
  \/ \E c \in Clients : Replayed(c)
  \/ \E c \in Clients : ReadLatest(c)
  \/ \E c \in Clients : UpdateStream(c)
  \/ \E c \in Clients : UpdatePolicy(c)
  \/ \E c \in Clients : LocateStream(c)
  \/ \E c \in Clients : DeleteMessages(c)
  \/ \E c \in Clients : SelectScavengable(c)
  \/ \E c \in Clients : FindStream(c)
  \/ \E c \in Clients : CompareVersion(c)
  \/ \E c \in Clients : PurgeMessages(c)
  \/ \E c \in Clients : DropStream(c)
  \/ \E c \in Clients : Commit(c)
  \/ \E c \in Clients : LoseConnection(c)

Spec == Init /\ [][Next]_vars

\* PostgreSQL goes on with every statement that need not wait.
Fairness ==
  \A c \in Clients :
    WF_vars(\/ AppendToStream(c) \/ DeleteStream(c)
            \/ LocateStream(c) \/ DeleteMessages(c) \/ SelectScavengable(c) \/ Commit(c))
FairSpec == Spec /\ Fairness
=============================================================================
