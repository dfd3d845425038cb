---------------------------- MODULE InMemoryStore ----------------------------
(***************************************************************************)
(* The in-memory stream store: createInMemoryStreamStore and the streams   *)
(* it keeps.  Three containers hold the same messages: each stream's       *)
(* messages array, its messageMap from id to message, and the all-stream   *)
(* shared by every stream.                                                 *)
(*                                                                         *)
(* JavaScript runs one handler at a time, so the code between two awaits   *)
(* is one action.  appendToStream, setStreamMetadata and readAll await, so *)
(* each is a sequence of actions of one caller, and the actions of several *)
(* callers interleave: calls[c] is what the suspended call of caller c     *)
(* remembers.  A call that throws simply ends.                             *)
(***************************************************************************)
EXTENDS Arrays

CONSTANTS
  StreamIds,         \* the streams clients append to
  MessageIds,        \* the message ids (UUIDs) clients choose
  Callers,           \* the calls that may be in progress at the same time
  Batches,           \* what clients append: sequences of message ids
  Policies,          \* the metadata clients set
  DeletableStreams,  \* the streams clients delete single messages from
  PageSizes,         \* the counts clients pass to readAll
  MaxPosition,       \* bound: no message is written past this position
  MaxTime            \* bound: the clock stops here

VARIABLES
  disposal,            \* "open", then "disposing" (disposed = true), then "disposed"
  globalHeadPosition,  \* the position of the newest message, -1 if none
  streamMap,           \* the streams created so far
  inMemoryAllStream,   \* every live message of every stream
  notifying,           \* a microtask that calls the notifier's observers is queued
  now,                 \* getCurrentTime(), in seconds
  calls                \* the suspended call of each caller

vars == <<disposal, globalHeadPosition, streamMap, inMemoryAllStream, notifying, now, calls>>

-----------------------------------------------------------------------------
(***************************************************************************)
(* Values                                                                  *)
(***************************************************************************)
ExpectedVersionAny == -2
ExpectedVersionEmpty == -1
ExpectedVersions == {ExpectedVersionAny} \cup (ExpectedVersionEmpty .. MaxPosition)

\* The operational streams: a stream's metadata, and the deleted streams.
MetaStream(s) == <<"$$", s>>
DeletedStream == <<"$deleted">>
AllStreams == StreamIds \cup ({"$$"} \X StreamIds) \cup {DeletedStream}

\* A metadata message has a random id, told apart here by the position it is
\* written at; the id of a deletion message is computed from the stream and
\* the expected version of the deletion.
MetaMessageId(position) == <<"uuid", position>>
DeletionMessageId(s, expectedVersion) == <<"deleted", s, expectedVersion>>
AllMessageIds ==
  MessageIds \cup ({"uuid"} \X Nat) \cup ({"deleted"} \X StreamIds \X Int)

\* Stream metadata.  0 is "disabled": the code stores null for it.
Policy == [maxAge : Nat, maxCount : Nat, truncateBefore : Nat]
NoPolicy == [maxAge |-> 0, maxCount |-> 0, truncateBefore |-> 0]

\* Only the data of metadata messages matters; it is NoPolicy for the others.
Message == [streamId : AllStreams, messageId : AllMessageIds, streamVersion : Nat,
            position : Nat, createdAt : Nat, data : Policy]

\* What a readAll remembers of a message that its stream's maxAge lets expire.
Expiring ==
  [streamId : AllStreams, messageId : AllMessageIds, position : Nat, expiresAt : Nat]

Call == [pc : {"idle", "appended", "policed", "scavenging", "reading"},
         streamId : AllStreams, policy : Policy,
         todo : Seq(Message), page : SUBSET Expiring]
NoCall == [pc |-> "idle", streamId |-> DeletedStream, policy |-> NoPolicy,
           todo |-> << >>, page |-> {}]

ASSUME BatchesAssumption == Batches \subseteq Seq(MessageIds)
ASSUME PoliciesAssumption == Policies \subseteq Policy
ASSUME StreamsAssumption == DeletableStreams \subseteq AllStreams

-----------------------------------------------------------------------------
(***************************************************************************)
(* Streams (in-memory-stream.ts)                                           *)
(***************************************************************************)
NewStream == [streamVersion |-> -1, position |-> -1, messages |-> << >>, messageMap |-> << >>]

StreamIn(map, s) == IF s \in DOMAIN map THEN map[s] ELSE NewStream

Put(map, s, stream) ==
  [t \in DOMAIN map \cup {s} |-> IF t = s THEN stream ELSE map[t]]

\* throwOnOverlappingWrite does not throw: from index start on, the stream's
\* messages have the ids of the batch, in the same order.
SameIdsAt(stream, start, ids) ==
  /\ start + Len(ids) - 1 <= Len(stream.messages)
  /\ \A i \in DOMAIN ids : stream.messages[start + i - 1].messageId = ids[i]

\* The first index of the stream at or after a version (findIndex).
IsFirstAt(stream, index, version) ==
  /\ stream.messages[index].streamVersion >= version
  /\ \A i \in 1 .. index - 1 : stream.messages[i].streamVersion < version

\* Mutation of IsReplay: ExpectedVersion.Empty is not treated apart.
IsReplayAfterVersion(stream, expectedVersion, ids) ==
  \E start \in DOMAIN stream.messages :
    \/ /\ expectedVersion = ExpectedVersionAny
       /\ stream.messages[start].messageId = Head(ids)
       /\ SameIdsAt(stream, start, ids)
    \/ /\ expectedVersion \in ExpectedVersionEmpty .. stream.streamVersion - 1
       /\ IsFirstAt(stream, start, expectedVersion)
       /\ SameIdsAt(stream, start + 1, ids)

\* The append is an idempotent retry: it succeeds and writes nothing.
IsReplay(stream, expectedVersion, ids) ==
  \/ /\ expectedVersion = ExpectedVersionAny
     /\ ids # << >>
     /\ ids[1] \in DOMAIN stream.messageMap
     /\ \E start \in DOMAIN stream.messages :
          /\ stream.messages[start] = stream.messageMap[ids[1]]
          /\ SameIdsAt(stream, start, ids)
  \/ /\ expectedVersion # ExpectedVersionAny
     /\ expectedVersion < stream.streamVersion
     /\ \E start \in DOMAIN stream.messages :
          /\ IsFirstAt(stream, start, expectedVersion)
          /\ SameIdsAt(stream, IF expectedVersion = ExpectedVersionEmpty THEN start ELSE start + 1, ids)

\* The append writes the batch.  It throws when neither of the two holds.
CanWrite(stream, expectedVersion, ids) ==
  /\ expectedVersion \in {ExpectedVersionAny, stream.streamVersion}
  /\ \A i \in DOMAIN ids : ids[i] \notin DOMAIN stream.messageMap

\* Mutation of NewMessages: the version is read before it is incremented.
NewMessagesAtCurrentVersion(map, s, ids, data) ==
  [i \in 1 .. Len(ids) |->
     [streamId |-> s, messageId |-> ids[i],
      streamVersion |-> StreamIn(map, s).streamVersion + i - 1,
      position |-> globalHeadPosition + i, createdAt |-> now, data |-> data]]

\* appendMessages: the messages a batch becomes.
NewMessages(map, s, ids, data) ==
  [i \in 1 .. Len(ids) |->
     [streamId |-> s, messageId |-> ids[i],
      streamVersion |-> StreamIn(map, s).streamVersion + i,
      position |-> globalHeadPosition + i, createdAt |-> now, data |-> data]]

\* Mutation of Appended: the stream's version is not advanced.
AppendedKeepsVersion(stream, new) ==
  [streamVersion |-> stream.streamVersion,
   position |-> IF new = << >> THEN stream.position ELSE globalHeadPosition + Len(new),
   messages |-> stream.messages \o new,
   messageMap |->
     [id \in DOMAIN stream.messageMap \cup {new[i].messageId : i \in DOMAIN new} |->
        LET written == {i \in DOMAIN new : new[i].messageId = id} IN
        IF written # {} THEN new[Greatest(written)] ELSE stream.messageMap[id]]]

\* appendMessages: the stream once the batch is pushed and indexed.  Of two
\* messages with one id (no check refuses such a batch) the last is indexed.
Appended(stream, new) ==
  [streamVersion |-> stream.streamVersion + Len(new),
   position |-> IF new = << >> THEN stream.position ELSE globalHeadPosition + Len(new),
   messages |-> stream.messages \o new,
   messageMap |->
     [id \in DOMAIN stream.messageMap \cup {new[i].messageId : i \in DOMAIN new} |->
        LET written == {i \in DOMAIN new : new[i].messageId = id} IN
        IF written # {} THEN new[Greatest(written)] ELSE stream.messageMap[id]]]

\* The messages deleteMessage finds under each <<streamId, messageId>>.
Found(map, keys) ==
  {map[k[1]].messageMap[k[2]] :
     k \in {k \in keys : k[1] \in DOMAIN map /\ k[2] \in DOMAIN map[k[1]].messageMap}}

\* Mutation of Spliced: messageMap keeps the deleted messages.
SplicedStillIndexed(map, gone) ==
  [s \in DOMAIN map |-> [map[s] EXCEPT !.messages = Without(@, gone)]]

\* Mutation of Spliced: an emptied stream starts again.
SplicedStartsAgain(map, gone) ==
  [s \in DOMAIN map |->
     IF Elements(map[s].messages) \subseteq gone THEN NewStream
     ELSE [map[s] EXCEPT !.messages = Without(@, gone),
                         !.messageMap = [id \in {i \in DOMAIN @ : @[i] \notin gone} |-> @[id]]]]

\* deleteMessage, on the stream of each of the messages.
Spliced(map, gone) ==
  [s \in DOMAIN map |->
     [streamVersion |-> map[s].streamVersion, position |-> map[s].position,
      messages |-> Without(map[s].messages, gone),
      messageMap |->
        [id \in {i \in DOMAIN map[s].messageMap : map[s].messageMap[i] \notin gone} |->
           map[s].messageMap[id]]]]

-----------------------------------------------------------------------------
(***************************************************************************)
(* Effects the handlers share                                              *)
(***************************************************************************)
Init ==
  /\ disposal = "open"
  /\ globalHeadPosition = -1
  /\ streamMap = << >>
  /\ inMemoryAllStream = << >>
  /\ notifying = FALSE
  /\ now = 0
  /\ calls = [c \in Callers |-> NoCall]

\* appendToStreamInternal when the batch is written, to the streams in map
\* and the all-stream all: it ends by invoking the notifier.
WriteTo(map, all, s, ids, data) ==
  LET new == NewMessages(map, s, ids, data) IN
  /\ globalHeadPosition + Len(ids) <= MaxPosition
  /\ streamMap' = Put(map, s, Appended(StreamIn(map, s), new))
  /\ inMemoryAllStream' = all \o new
  /\ globalHeadPosition' = globalHeadPosition + Len(ids)
  /\ notifying' = TRUE

\* appendToStreamInternal when nothing is written: the stream now exists.
Touch(s) ==
  /\ streamMap' = Put(streamMap, s, StreamIn(streamMap, s))
  /\ UNCHANGED <<inMemoryAllStream, globalHeadPosition, notifying>>

\* Mutation of Delete: the all-stream keeps the message.
DeleteFromStreamOnly(keys) ==
  /\ streamMap' = Spliced(streamMap, Found(streamMap, keys))
  /\ UNCHANGED <<inMemoryAllStream, globalHeadPosition, notifying>>

\* deleteMessage for each <<streamId, messageId>>.
Delete(keys) ==
  LET gone == Found(streamMap, keys) IN
  /\ streamMap' = Spliced(streamMap, gone)
  /\ inMemoryAllStream' = Without(inMemoryAllStream, gone)
  /\ UNCHANGED <<globalHeadPosition, notifying>>

Suspend(c, call) == calls' = [calls EXCEPT ![c] = call]
Finish(c) == calls' = [calls EXCEPT ![c] = NoCall]

\* Mutation of PolicyOf: the stream is read forwards.
PolicyOfOldest(s) ==
  LET metadata == StreamIn(streamMap, MetaStream(s)).messages
  IN IF metadata = << >> THEN NoPolicy ELSE metadata[1].data

\* readStreamMetadataInternal: the data of the newest metadata message.
PolicyOf(s) ==
  LET metadata == StreamIn(streamMap, MetaStream(s)).messages
  IN IF metadata = << >> THEN NoPolicy ELSE metadata[Len(metadata)].data

-----------------------------------------------------------------------------
(***************************************************************************)
(* Appending                                                               *)
(***************************************************************************)

\* appendToStream up to its first await.  A conflict throws: the call is over.
AppendToStream(c, s, expectedVersion, ids) ==
  LET stream == StreamIn(streamMap, s)
      appended == [NoCall EXCEPT !.pc = "appended", !.streamId = s]
  IN
  /\ calls[c] = NoCall
  /\ disposal = "open"
  /\ \/ /\ CanWrite(stream, expectedVersion, ids)
        /\ WriteTo(streamMap, inMemoryAllStream, s, ids, NoPolicy)
        /\ Suspend(c, appended)
     \/ /\ IsReplay(stream, expectedVersion, ids)
        /\ Touch(s)
        /\ Suspend(c, appended)
     \/ /\ ~ CanWrite(stream, expectedVersion, ids)
        /\ ~ IsReplay(stream, expectedVersion, ids)
        /\ Touch(s)
        /\ UNCHANGED calls
  /\ UNCHANGED <<disposal, now>>

\* appendToStream reads the stream's metadata.
ReadPolicy(c) ==
  /\ calls[c].pc = "appended"
  /\ Suspend(c, [calls[c] EXCEPT !.pc = "policed", !.policy = PolicyOf(calls[c].streamId)])
  /\ UNCHANGED <<disposal, globalHeadPosition, streamMap, inMemoryAllStream, notifying, now>>

\* setStreamMetadata up to its first await: it does not look at disposed.
SetStreamMetadata(c, s, expectedVersion, policy) ==
  LET meta == StreamIn(streamMap, MetaStream(s))
      ids == << MetaMessageId(globalHeadPosition + 1) >>
  IN
  /\ calls[c] = NoCall
  /\ \/ /\ CanWrite(meta, expectedVersion, ids)
        /\ WriteTo(streamMap, inMemoryAllStream, MetaStream(s), ids, policy)
        /\ Suspend(c, [NoCall EXCEPT !.pc = "policed", !.streamId = s, !.policy = policy])
     \/ /\ ~ CanWrite(meta, expectedVersion, ids)
        /\ Touch(MetaStream(s))
        /\ UNCHANGED calls
  /\ UNCHANGED <<disposal, now>>

-----------------------------------------------------------------------------
(***************************************************************************)
(* Scavenging (scavengeStreamInternal)                                     *)
(***************************************************************************)

\* Mutation of BeyondMaxCount: one message too many.
BeyondMaxCountOrAtIt(messages, i, policy) ==
  policy.maxCount # 0 /\ i <= Len(messages) - policy.maxCount + 1

\* The rules a message of the snapshot can fall under.
BeyondMaxCount(messages, i, policy) ==
  policy.maxCount # 0 /\ i <= Len(messages) - policy.maxCount

PastMaxAge(messages, i, policy) ==
  policy.maxAge # 0 /\ messages[i].createdAt + policy.maxAge <= now

Truncated(messages, i, policy) == messages[i].streamVersion < policy.truncateBefore

\* The messages the loop deletes, last one first: it goes through the snapshot
\* backwards, and deletes a message that is both too old and truncated twice
\* (2 * i is the deletion of message i, 2 * i - 1 its second deletion).
Deletions(messages, policy) ==
  {2 * i : i \in {i \in DOMAIN messages : \/ BeyondMaxCount(messages, i, policy)
                                          \/ PastMaxAge(messages, i, policy)
                                          \/ Truncated(messages, i, policy)}}
  \cup
  {2 * i - 1 : i \in {i \in DOMAIN messages : /\ ~ BeyondMaxCount(messages, i, policy)
                                              /\ PastMaxAge(messages, i, policy)
                                              /\ Truncated(messages, i, policy)}}

ScavengePlan(messages, policy) ==
  LET I == Deletions(messages, policy)
  IN [n \in 1 .. Cardinality(I) |-> messages[(Nth(I, n) + 1) \div 2]]

\* Mutation of ScavengeOn: the loop does not move on.
ScavengeOnForever(c, plan) ==
  \/ /\ plan = << >> \/ disposal # "open"
     /\ Finish(c)
     /\ UNCHANGED <<streamMap, inMemoryAllStream, globalHeadPosition, notifying>>
  \/ /\ plan # << >>
     /\ disposal = "open"
     /\ Delete({<<calls[c].streamId, plan[Len(plan)].messageId>>})
     /\ Suspend(c, [calls[c] EXCEPT !.pc = "scavenging", !.todo = plan])

\* The loop up to its next await, deleting by id: deleteMessage throws once disposed is set.
ScavengeOn(c, plan) ==
  \/ /\ plan = << >> \/ disposal # "open"
     /\ Finish(c)
     /\ UNCHANGED <<streamMap, inMemoryAllStream, globalHeadPosition, notifying>>
  \/ /\ plan # << >>
     /\ disposal = "open"
     /\ Delete({<<calls[c].streamId, plan[Len(plan)].messageId>>})
     /\ Suspend(c, [calls[c] EXCEPT !.pc = "scavenging",
                                    !.todo = SubSeq(plan, 1, Len(plan) - 1)])

StartScavenge(c) ==
  /\ calls[c].pc = "policed"
  /\ ScavengeOn(c, ScavengePlan(StreamIn(streamMap, calls[c].streamId).messages,
                                calls[c].policy))
  /\ UNCHANGED <<disposal, now>>

ContinueScavenge(c) ==
  /\ calls[c].pc = "scavenging"
  /\ ScavengeOn(c, calls[c].todo)
  /\ UNCHANGED <<disposal, now>>

-----------------------------------------------------------------------------
(***************************************************************************)
(* Deleting                                                                *)
(***************************************************************************)
DeleteMessage(s, id) ==
  /\ disposal = "open"
  /\ Delete({<<s, id>>})
  /\ UNCHANGED <<disposal, now, calls>>

\* The stream stays in streamMap, empty, with the version it had.
DeleteStream(s, expectedVersion) ==
  /\ disposal = "open"
  /\ s \in DOMAIN streamMap
  /\ expectedVersion \in {ExpectedVersionAny, streamMap[s].streamVersion}
  /\ LET gone == Found(streamMap,
                       {<<s, m.messageId>> : m \in Elements(streamMap[s].messages)})
         kept == Spliced(streamMap, gone)
         left == Without(inMemoryAllStream, gone)
         ids == << DeletionMessageId(s, expectedVersion) >>
         recorded == ~ CanWrite(StreamIn(kept, DeletedStream), ExpectedVersionAny, ids)
     IN \/ /\ ~ recorded
           /\ WriteTo(kept, left, DeletedStream, ids, NoPolicy)
        \/ /\ recorded
           /\ streamMap' = kept
           /\ inMemoryAllStream' = left
           /\ UNCHANGED <<globalHeadPosition, notifying>>
  /\ UNCHANGED <<disposal, now, calls>>

-----------------------------------------------------------------------------
(***************************************************************************)
(* Reading every stream: expired messages are deleted by the reader        *)
(***************************************************************************)
\* isMetaStream: the id starts with "$", as that of the deleted streams does.
IsMetaStream(s) == s \in ({"$$"} \X StreamIds) \cup {DeletedStream}

\* readAll up to its first await: the page, and the maxAge of each message's
\* stream.  Messages that cannot expire need not be remembered.
StartReadAll(c, first, count) ==
  LET slice == {i \in DOMAIN inMemoryAllStream : first <= i /\ i < first + count}
      mortal == {i \in slice : /\ ~ IsMetaStream(inMemoryAllStream[i].streamId)
                               /\ PolicyOf(inMemoryAllStream[i].streamId).maxAge # 0}
      expiring(m) == [streamId |-> m.streamId, messageId |-> m.messageId,
                      position |-> m.position, expiresAt |-> m.createdAt + PolicyOf(m.streamId).maxAge]
  IN
  /\ calls[c] = NoCall
  /\ disposal = "open"
  /\ Suspend(c, [NoCall EXCEPT !.pc = "reading",
                               !.page = {expiring(inMemoryAllStream[i]) : i \in mortal}])
  /\ UNCHANGED <<disposal, globalHeadPosition, streamMap, inMemoryAllStream, notifying, now>>

\* maybeFilterExpiredMessages: what has expired by now is deleted, by id.
FinishReadAll(c) ==
  LET expired == {m \in calls[c].page : m.expiresAt <= now} IN
  /\ calls[c].pc = "reading"
  /\ \/ /\ disposal = "open"
        /\ Delete({<<m.streamId, m.messageId>> : m \in expired})
     \/ /\ disposal # "open"
        /\ UNCHANGED <<streamMap, inMemoryAllStream, globalHeadPosition, notifying>>
  /\ Finish(c)
  /\ UNCHANGED <<disposal, now>>

-----------------------------------------------------------------------------
(***************************************************************************)
(* The notifier's microtask, disposal, time                                *)
(***************************************************************************)
NotifyObservers ==
  /\ notifying
  /\ notifying' = FALSE
  /\ UNCHANGED <<disposal, globalHeadPosition, streamMap, inMemoryAllStream, now, calls>>

\* dispose up to the await of the subscriptions: a second call throws.
Dispose ==
  /\ disposal = "open"
  /\ disposal' = "disposing"
  /\ UNCHANGED <<globalHeadPosition, streamMap, inMemoryAllStream, notifying, now, calls>>

\* dispose once the subscriptions and the notifier are disposed.
ClearStreams ==
  /\ disposal = "disposing"
  /\ disposal' = "disposed"
  /\ streamMap' = << >>
  /\ UNCHANGED <<globalHeadPosition, inMemoryAllStream, notifying, now, calls>>

Tick ==
  /\ now < MaxTime
  /\ now' = now + 1
  /\ UNCHANGED <<disposal, globalHeadPosition, streamMap, inMemoryAllStream, notifying, calls>>

-----------------------------------------------------------------------------
\* The rest of a call that has been suspended.
Resume(c) == ReadPolicy(c) \/ StartScavenge(c) \/ ContinueScavenge(c) \/ FinishReadAll(c)

Next ==
  \/ \E c \in Callers, s \in StreamIds, e \in ExpectedVersions :
       \/ \E ids \in Batches : AppendToStream(c, s, e, ids)
       \/ \E policy \in Policies : SetStreamMetadata(c, s, e, policy)
  \/ \E c \in Callers : ReadPolicy(c)
  \/ \E c \in Callers : StartScavenge(c)
  \/ \E c \in Callers : ContinueScavenge(c)
  \/ \E s \in DeletableStreams \cap DOMAIN streamMap :
       \E id \in DOMAIN streamMap[s].messageMap : DeleteMessage(s, id)
  \/ \E s \in StreamIds, e \in ExpectedVersions : DeleteStream(s, e)
  \/ \E c \in Callers, first \in DOMAIN inMemoryAllStream, count \in PageSizes :
       StartReadAll(c, first, count)
  \/ \E c \in Callers : FinishReadAll(c)
  \/ NotifyObservers
  \/ Dispose
  \/ ClearStreams
  \/ Tick

Spec == Init /\ [][Next]_vars

\* A suspended call always runs on (its promises are all resolved), the queued
\* microtask runs, and dispose waits for nothing that can fail.
Fairness ==
  /\ \A c \in Callers : WF_vars(Resume(c))
  /\ WF_vars(NotifyObservers)
  /\ WF_vars(ClearStreams)

FairSpec == Spec /\ Fairness

=============================================================================
