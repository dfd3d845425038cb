---------------------- MODULE InMemoryStoreProperties ----------------------
(***************************************************************************)
(* What makes the in-memory store correct.                                 *)
(***************************************************************************)
EXTENDS InMemoryStore

\* The type of every variable.
StreamOK(stream) ==
  /\ stream.streamVersion \in Int /\ stream.streamVersion >= -1
  /\ stream.position \in Int /\ stream.position >= -1
  /\ stream.messages \in Seq(Message)
  /\ DOMAIN stream.messageMap \subseteq AllMessageIds
  /\ \A id \in DOMAIN stream.messageMap : stream.messageMap[id] \in Message

TypeOK ==
  /\ disposal \in {"open", "disposing", "disposed"}
  /\ globalHeadPosition \in Int /\ globalHeadPosition >= -1
  /\ DOMAIN streamMap \subseteq AllStreams
  /\ \A s \in DOMAIN streamMap : StreamOK(streamMap[s])
  /\ inMemoryAllStream \in Seq(Message)
  /\ notifying \in BOOLEAN
  /\ now \in Nat
  /\ calls \in [Callers -> Call]

-----------------------------------------------------------------------------
(***************************************************************************)
(* Safety                                                                  *)
(***************************************************************************)

\* A stream's messages carry its id, are in the order of their versions and of
\* their positions, and none is newer than the version and the position the
\* stream reports, nor that position than the head, whatever was deleted or
\* scavenged in between (in-memory-stream.ts, appendMessages and deleteMessage).
StreamsOrdered ==
  \A s \in DOMAIN streamMap :
    LET messages == streamMap[s].messages IN
    /\ streamMap[s].position <= globalHeadPosition
    /\ \A i, j \in DOMAIN messages : i < j =>
         /\ messages[i].streamVersion < messages[j].streamVersion
         /\ messages[i].position < messages[j].position
    /\ \A i \in DOMAIN messages :
         /\ messages[i].streamId = s
         /\ messages[i].streamVersion <= streamMap[s].streamVersion
         /\ messages[i].position <= streamMap[s].position

\* The all-stream is in the order of the positions, none of them given out
\* twice and none past the head position (getNextHeadPosition).
AllStreamOrdered ==
  /\ \A i, j \in DOMAIN inMemoryAllStream :
       i < j => inMemoryAllStream[i].position < inMemoryAllStream[j].position
  /\ \A i \in DOMAIN inMemoryAllStream : inMemoryAllStream[i].position <= globalHeadPosition

\* Both: what readers and subscriptions page through never goes back.
InOrder == StreamsOrdered /\ AllStreamOrdered

\* A message is in the all-stream exactly when it is in its own stream: no
\* interleaving of appends, deletions, scavenges and reads of expired messages
\* leaves it in one array and not in the other (until dispose clears streamMap).
AllStreamIsTheMerge ==
  disposal # "disposed" =>
    Elements(inMemoryAllStream) =
      UNION {Elements(streamMap[s].messages) : s \in DOMAIN streamMap}

\* No batch holds the same id twice; appendToStream does not ask.
DistinctBatches ==
  \A batch \in Batches : \A i, j \in DOMAIN batch : i # j => batch[i] # batch[j]

\* messageMap finds every message of the stream by its id and nothing else, so
\* that a message can be deleted and a retry recognised.
IndexIsExact ==
  \A s \in DOMAIN streamMap :
    LET stream == streamMap[s] IN
    /\ \A m \in Elements(stream.messages) :
         m.messageId \in DOMAIN stream.messageMap /\ stream.messageMap[m.messageId] = m
    /\ \A id \in DOMAIN stream.messageMap :
         stream.messageMap[id] \in Elements(stream.messages) /\ stream.messageMap[id].messageId = id

\* The batch is in the stream, its first message at version v.
WrittenAt(stream, v, ids) ==
  \A i \in DOMAIN ids : \E m \in Elements(stream.messages) :
    m.messageId = ids[i] /\ m.streamVersion = v + i - 1

\* As long as nothing has been deleted from a stream, an append is taken for a
\* retry exactly when its messages were written in that order, right after the
\* expected version if one is given (README, Idempotency).
RetriesAreRecognised ==
  \A s \in DOMAIN streamMap \cap StreamIds, ids \in Batches \ {<< >>} :
    LET stream == streamMap[s] IN
    Len(stream.messages) = stream.streamVersion + 1 =>
      /\ IsReplay(stream, ExpectedVersionAny, ids) <=>
           \E v \in 0 .. stream.streamVersion : WrittenAt(stream, v, ids)
      /\ \A e \in ExpectedVersionEmpty .. stream.streamVersion :
           IsReplay(stream, e, ids) <=> WrittenAt(stream, e + 1, ids)

\* Once no call is in progress, every stream is as its metadata wants it: at
\* most maxCount messages and none before truncateBefore, however the appends,
\* the metadata writes and their scavenges were interleaved.
Quiet == \A c \in Callers : calls[c].pc \in {"idle", "reading"}
NewestMetadata(s) ==
  LET metadata == Elements(StreamIn(streamMap, MetaStream(s)).messages)
  IN {m \in metadata : \A k \in metadata : k.streamVersion <= m.streamVersion}
ScavengedWhenQuiet ==
  (disposal = "open" /\ Quiet) =>
    \A s \in StreamIds : \A metadata \in NewestMetadata(s) :
      LET messages == StreamIn(streamMap, s).messages
          policy == metadata.data
      IN /\ policy.maxCount # 0 => Len(messages) <= policy.maxCount
         /\ \A m \in Elements(messages) : m.streamVersion >= policy.truncateBefore

-----------------------------------------------------------------------------
(***************************************************************************)
(* What a step may never do                                                *)
(***************************************************************************)

\* A version or a position is given out once: deleting messages, or a whole
\* stream, never moves a stream's version or the head back, and a new message
\* gets a version and a position past every earlier one.
VersionsNeverReassigned ==
  [][\A s \in DOMAIN streamMap \cap DOMAIN streamMap' :
       /\ streamMap'[s].streamVersion >= streamMap[s].streamVersion
       /\ \A m \in Elements(streamMap'[s].messages) \ Elements(streamMap[s].messages) :
            /\ m.streamVersion > streamMap[s].streamVersion
            /\ m.position > globalHeadPosition]_vars

\* What has been set as metadata of stream s.
PoliciesOf(s) == {m.data : m \in Elements(StreamIn(streamMap, MetaStream(s)).messages)}

\* A policy lets message m of stream s go: it is older than the maxAge, not among
\* the newest maxCount, or before truncateBefore (README.md:341-343).
FallsOff(s, m, policy) ==
  \/ policy.maxAge # 0 /\ m.createdAt + policy.maxAge <= now
  \/ policy.maxCount # 0 /\ m.streamVersion <= streamMap[s].streamVersion - policy.maxCount
  \/ m.streamVersion < policy.truncateBefore

\* Call c was to delete an older message with the id of message m, which was deleted and
\* appended again meanwhile.
IdWasReused(c, m) ==
  \E k \in Elements(calls[c].todo) \cup calls[c].page :
    k.streamId = m.streamId /\ k.messageId = m.messageId /\ k.position # m.position

\* What call c removes from a stream.
Removed(c, s) ==
  IF calls'[c] = calls[c] THEN {}
  ELSE Elements(streamMap[s].messages) \ Elements(StreamIn(streamMap', s).messages)

\* However old the policy and the snapshot a call works from, it only removes what some
\* metadata that was set on the stream lets go; in particular maxCount never removes the
\* newest message (scavengeStreamInternal and maybeFilterExpiredMessages), as long as
\* clients delete no metadata messages.  But deletions are by id: a message appended
\* under the id of one that was deleted goes for it.
OnlyExcessIsRemoved ==
  [][\A c \in Callers, s \in DOMAIN streamMap \cap StreamIds : \A m \in Removed(c, s) :
       IdWasReused(c, m) \/ \E policy \in PoliciesOf(s) : FallsOff(s, m, policy)]_vars

-----------------------------------------------------------------------------
(***************************************************************************)
(* What must happen                                                        *)
(***************************************************************************)

\* A suspended call ends, however many messages it has to delete and whatever
\* the other calls do meanwhile: nothing in the store waits for another call.
CallsFinish == \A c \in Callers : calls[c].pc # "idle" ~> calls[c].pc = "idle"

-----------------------------------------------------------------------------
(***************************************************************************)
(* What the code does not keep: statements of the README, of a comment and *)
(* of an error's documentation that the runs refute.                       *)
(***************************************************************************)

\* README.md:502: messages that have been written in the order of the request,
\* starting at the expected version, are not written again: the append is a
\* retry.  (It is not recognised once the message at the expected version is
\* scavenged: findIndex then finds the message after it.)
RetriesSurviveScavenging ==
  \A s \in DOMAIN streamMap \cap StreamIds, ids \in Batches \ {<< >>} :
    LET stream == streamMap[s] IN
    \A e \in 0 .. stream.streamVersion - 1 :
      WrittenAt(stream, e + 1, ids) => IsReplay(stream, e, ids)

\* README.md:342: maxCount is "the max amount of messages allowed in the stream": what
\* scavenging and reading remove is beyond it, too old or truncated.  (With two calls a
\* message that is not is removed for an older one that had its id.)
NothingElseIsRemoved ==
  [][\A c \in Callers, s \in DOMAIN streamMap \cap StreamIds : \A m \in Removed(c, s) :
       \E policy \in PoliciesOf(s) : FallsOff(s, m, policy)]_vars

\* README.md:153: dispose waits until all write operations have finished.
\* (The store's dispose does not: it clears the streams under a scavenge.)
DisposeWaitsForWrites ==
  [][ClearStreams => \A c \in Callers : calls[c].pc \in {"idle", "reading"}]_vars

\* errors.ts:11: a DisposedError is thrown when a resource has been disposed, so
\* nothing is written any more.  (setStreamMetadata does not ask.)
NothingWrittenOnceDisposed ==
  [][disposal # "open" => UNCHANGED inMemoryAllStream]_vars

\* in-memory-stream.ts:104, "this shouldn't happen": an expected version below
\* the stream's version always finds a message at or after it.
\* (A deleted stream keeps its version and has no messages.)
EarlierVersionIsFound ==
  \A s \in DOMAIN streamMap :
    \A e \in ExpectedVersionEmpty .. streamMap[s].streamVersion - 1 :
      \E m \in Elements(streamMap[s].messages) : m.streamVersion >= e

\* stream-store.ts:122: appendToStream throws when an id is a duplicate, so that
\* no stream has two messages with one id.  (Within a batch it does not look.)
IdsAreUnique ==
  \A s \in DOMAIN streamMap :
    \A m, k \in Elements(streamMap[s].messages) : m # k => m.messageId # k.messageId

-----------------------------------------------------------------------------
(***************************************************************************)
(* The promise it keeps                                                    *)
(***************************************************************************)

\* The in-memory store is an event log: each of its steps appends one batch at
\* the end of one stream, removes messages, or changes nothing a client sees.
Log == INSTANCE EventLog WITH
  Streams <- AllStreams,
  open <- disposal = "open",
  version <- [s \in AllStreams |-> StreamIn(streamMap, s).streamVersion],
  live <- Elements(inMemoryAllStream)
ImplementsEventLog == Log!Spec

=============================================================================
