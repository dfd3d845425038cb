------------------------- MODULE InMemoryStoreProofs -------------------------
(***************************************************************************)
(* Proofs about the in-memory store, for every set of streams, messages,   *)
(* callers, batches and policies.                                          *)
(*                                                                         *)
(* An index is exact when no batch repeats an id (DistinctBatches); the    *)
(* theorems that depend on the index have that as a hypothesis.            *)
(*                                                                         *)
(* IInv is inductive: the type invariant alone is not (a new message is    *)
(* typed by the stream's version, which is typed by TypeOK, but the order  *)
(* of the arrays rests on every position being at most the head, and the   *)
(* index on the ids of a batch being new).  StreamGood and MapGood state   *)
(* its parts for any stream, map and array, because deleteStream appends   *)
(* to the streams it has just deleted from.                                *)
(*                                                                         *)
(* SInv adds what scavenging needs: whatever is too much in a stream, some *)
(* call has yet to look at or to delete.  RInv adds the opposite: whatever *)
(* a call has yet to delete, a policy of its stream lets go.               *)
(***************************************************************************)
EXTENDS InMemoryStoreProperties, ArraysProofs

IInv ==
  /\ TypeOK
  /\ StreamsOrdered
  /\ AllStreamOrdered
  /\ AllStreamIsTheMerge
  /\ DistinctBatches => IndexIsExact

-----------------------------------------------------------------------------
(***************************************************************************)
(* The invariant, for any map of streams and any all-stream.               *)
(***************************************************************************)
MessagesOrdered(messages) ==
  \A i, j \in DOMAIN messages : i < j =>
    /\ messages[i].streamVersion < messages[j].streamVersion
    /\ messages[i].position < messages[j].position

MessagesOf(s, stream) ==
  \A i \in DOMAIN stream.messages :
    /\ stream.messages[i].streamId = s
    /\ stream.messages[i].streamVersion <= stream.streamVersion
    /\ stream.messages[i].position <= stream.position

Indexed(stream) ==
  /\ \A m \in Elements(stream.messages) :
       m.messageId \in DOMAIN stream.messageMap /\ stream.messageMap[m.messageId] = m
  /\ \A id \in DOMAIN stream.messageMap :
       stream.messageMap[id] \in Elements(stream.messages) /\ stream.messageMap[id].messageId = id

StreamGood(s, stream, head) ==
  /\ StreamOK(stream)
  /\ stream.position <= head
  /\ MessagesOrdered(stream.messages)
  /\ MessagesOf(s, stream)
  /\ DistinctBatches => Indexed(stream)

AllGood(all, head) ==
  /\ all \in Seq(Message)
  /\ \A i, j \in DOMAIN all : i < j => all[i].position < all[j].position
  /\ \A i \in DOMAIN all : all[i].position <= head

MapGood(map, head) ==
  /\ DOMAIN map \subseteq AllStreams
  /\ \A s \in DOMAIN map : StreamGood(s, map[s], head)

Merged(map, all) == Elements(all) = UNION {Elements(map[s].messages) : s \in DOMAIN map}

\* The rest of the state.
RestOK ==
  /\ disposal \in {"open", "disposing", "disposed"}
  /\ globalHeadPosition \in Int /\ globalHeadPosition >= -1
  /\ notifying \in BOOLEAN
  /\ now \in Nat
  /\ calls \in [Callers -> Call]

StoreGood ==
  /\ RestOK
  /\ MapGood(streamMap, globalHeadPosition)
  /\ AllGood(inMemoryAllStream, globalHeadPosition)
  /\ disposal # "disposed" => Merged(streamMap, inMemoryAllStream)

LEMMA IInvIsStoreGood == IInv <=> StoreGood
<1>1. IInv => StoreGood
  BY DEF IInv, TypeOK, StreamsOrdered, AllStreamOrdered, AllStreamIsTheMerge, IndexIsExact,
         StoreGood, RestOK, MapGood, AllGood, Merged, StreamGood, MessagesOrdered, MessagesOf, Indexed
<1>2. StoreGood => IInv
  BY DEF IInv, TypeOK, StreamsOrdered, AllStreamOrdered, AllStreamIsTheMerge, IndexIsExact,
         StoreGood, RestOK, MapGood, AllGood, Merged, StreamGood, MessagesOrdered, MessagesOf, Indexed
<1> QED
  BY <1>1, <1>2

LEMMA PrimedIInvIsStoreGood == IInv' <=> StoreGood'
BY IInvIsStoreGood, PTL

-----------------------------------------------------------------------------
(***************************************************************************)
(* Values                                                                  *)
(***************************************************************************)
LEMMA NoFunction == DOMAIN << >> = {} /\ Elements(<< >>) = {} /\ << >> \in Seq(Message)
BY DEF Elements

LEMMA NewStreamGood ==
  ASSUME NEW s, NEW head \in Int, head >= -1
  PROVE  StreamGood(s, NewStream, head)
BY NoFunction
   DEF StreamGood, StreamOK, NewStream, MessagesOrdered, MessagesOf, Indexed

LEMMA StreamInGood ==
  ASSUME NEW map, NEW head \in Int, head >= -1, MapGood(map, head), NEW s
  PROVE  StreamGood(s, StreamIn(map, s), head)
BY NewStreamGood DEF MapGood, StreamIn


\* What the handlers append.
Ids(ids) ==
  /\ ids \in Seq(AllMessageIds)
  /\ DistinctBatches => \A i, j \in DOMAIN ids : i # j => ids[i] # ids[j]

-----------------------------------------------------------------------------
(***************************************************************************)
(* Deleting                                                                *)
(***************************************************************************)

\* An array stays ordered when elements are spliced out of it.
LEMMA WithoutGood ==
  ASSUME NEW all, NEW head, AllGood(all, head), NEW gone
  PROVE  AllGood(Without(all, gone), head)
<1> DEFINE rest == Without(all, gone)
<1>1. all \in Seq(Message) /\ DOMAIN all \subseteq Int
  BY LenProperties DEF AllGood
<1>2. /\ rest \in Seq(Message)
      /\ \E h \in [DOMAIN rest -> DOMAIN all] :
           /\ \A m, n \in DOMAIN rest : m < n => h[m] < h[n]
           /\ \A n \in DOMAIN rest : rest[n] = all[h[n]]
  BY <1>1, WithoutProperties
<1> QED
  BY <1>2 DEF AllGood

LEMMA SplicedStreamGood ==
  ASSUME NEW s, NEW stream, NEW head, StreamGood(s, stream, head), NEW gone
  PROVE  StreamGood(s,
           [streamVersion |-> stream.streamVersion, position |-> stream.position,
            messages |-> Without(stream.messages, gone),
            messageMap |->
              [id \in {i \in DOMAIN stream.messageMap : stream.messageMap[i] \notin gone} |->
                 stream.messageMap[id]]], head)
<1> DEFINE messages == stream.messages
           rest == Without(messages, gone)
           index == [id \in {i \in DOMAIN stream.messageMap : stream.messageMap[i] \notin gone} |->
                       stream.messageMap[id]]
           spliced == [streamVersion |-> stream.streamVersion, position |-> stream.position,
                       messages |-> rest, messageMap |-> index]
<1>1. messages \in Seq(Message)
  BY DEF StreamGood, StreamOK
<1>2. /\ rest \in Seq(Message)
      /\ Elements(rest) = Elements(messages) \ gone
      /\ \E h \in [DOMAIN rest -> DOMAIN messages] :
           /\ \A m, n \in DOMAIN rest : m < n => h[m] < h[n]
           /\ \A n \in DOMAIN rest : rest[n] = messages[h[n]]
  BY <1>1, WithoutProperties
<1>3. StreamOK(spliced) /\ spliced.position <= head
  BY <1>2 DEF StreamGood, StreamOK
<1>4. MessagesOrdered(rest)
  BY <1>2 DEF StreamGood, MessagesOrdered
<1>5. MessagesOf(s, spliced)
  BY <1>2 DEF StreamGood, MessagesOf
<1>6. ASSUME DistinctBatches
      PROVE  Indexed(spliced)
  <2>1. ASSUME NEW m \in Elements(rest)
        PROVE  m.messageId \in DOMAIN index /\ index[m.messageId] = m
    BY <1>2, <1>6, <2>1 DEF StreamGood, Indexed
  <2>2. ASSUME NEW id \in DOMAIN index
        PROVE  index[id] \in Elements(rest) /\ index[id].messageId = id
    BY <1>2, <1>6 DEF StreamGood, Indexed
  <2> QED
    BY <2>1, <2>2 DEF Indexed
<1> QED
  BY <1>3, <1>4, <1>5, <1>6 DEF StreamGood

\* Deleting from every stream and from the all-stream.
LEMMA SplicedGood ==
  ASSUME NEW map, NEW head, MapGood(map, head), NEW gone
  PROVE  /\ MapGood(Spliced(map, gone), head)
         /\ DOMAIN Spliced(map, gone) = DOMAIN map
         /\ \A s \in DOMAIN map :
              /\ Spliced(map, gone)[s].streamVersion = map[s].streamVersion
              /\ Elements(Spliced(map, gone)[s].messages) = Elements(map[s].messages) \ gone
<1>1. \A s \in DOMAIN map : StreamGood(s, Spliced(map, gone)[s], head)
  BY SplicedStreamGood DEF MapGood, Spliced
<1>2. \A s \in DOMAIN map : map[s].messages \in Seq(Message)
  BY DEF MapGood, StreamGood, StreamOK
<1>3. \A s \in DOMAIN map :
        Elements(Without(map[s].messages, gone)) = Elements(map[s].messages) \ gone
  BY <1>2, WithoutProperties
<1> QED
  BY <1>1, <1>3 DEF MapGood, Spliced

LEMMA SplicedMerged ==
  ASSUME NEW map, NEW head, MapGood(map, head), NEW all, AllGood(all, head), NEW gone,
         Merged(map, all)
  PROVE  Merged(Spliced(map, gone), Without(all, gone))
<1>1. Elements(Without(all, gone)) = Elements(all) \ gone
  BY WithoutProperties DEF AllGood
<1> QED
  BY <1>1, SplicedGood DEF Merged

-----------------------------------------------------------------------------
(***************************************************************************)
(* Appending                                                               *)
(***************************************************************************)
LEMMA NewMessagesGood ==
  ASSUME RestOK, NEW map, MapGood(map, globalHeadPosition), NEW s \in AllStreams,
         NEW ids, Ids(ids), NEW data \in Policy
  PROVE  LET new == NewMessages(map, s, ids, data) IN
         /\ new \in Seq(Message)
         /\ Len(ids) \in Nat /\ Len(new) = Len(ids)
         /\ DOMAIN new = 1 .. Len(ids) /\ DOMAIN ids = 1 .. Len(ids)
         /\ \A i \in 1 .. Len(ids) :
              /\ new[i].streamId = s
              /\ new[i].messageId = ids[i]
              /\ new[i].streamVersion = StreamIn(map, s).streamVersion + i
              /\ new[i].position = globalHeadPosition + i
<1> DEFINE new == NewMessages(map, s, ids, data)
           version == StreamIn(map, s).streamVersion
<1>1. /\ globalHeadPosition \in Int /\ globalHeadPosition >= -1 /\ now \in Nat
      /\ version \in Int /\ version >= -1
  BY StreamInGood DEF RestOK, StreamGood, StreamOK
<1>2. Len(ids) \in Nat /\ DOMAIN ids = 1 .. Len(ids) /\ \A i \in 1 .. Len(ids) : ids[i] \in AllMessageIds
  BY LenProperties, ElementOfSeq DEF Ids
<1> HIDE DEF version
<1>3. ASSUME NEW i \in 1 .. Len(ids)
      PROVE  [streamId |-> s, messageId |-> ids[i], streamVersion |-> version + i,
              position |-> globalHeadPosition + i, createdAt |-> now, data |-> data] \in Message
  <2>1. version + i \in Nat /\ globalHeadPosition + i \in Nat
    BY <1>1, <1>2
  <2> QED
    BY <1>1, <1>2, <2>1 DEF Message
<1>4. new = [i \in 1 .. Len(ids) |->
               [streamId |-> s, messageId |-> ids[i], streamVersion |-> version + i,
                position |-> globalHeadPosition + i, createdAt |-> now, data |-> data]]
  BY DEF NewMessages, version
<1>5. new \in [1 .. Len(ids) -> Message]
  BY <1>3, <1>4
<1>6. new \in Seq(Message) /\ Len(new) = Len(ids)
  BY <1>2, <1>5, SeqDef, LenProperties
<1> QED
  BY <1>2, <1>4, <1>6 DEF version

\* A batch whose ids are not in the index keeps its stream good.
LEMMA AppendedGood ==
  ASSUME RestOK, NEW map, MapGood(map, globalHeadPosition), NEW s \in AllStreams,
         NEW ids, Ids(ids), NEW data \in Policy,
         \A i \in DOMAIN ids : ids[i] \notin DOMAIN StreamIn(map, s).messageMap
  PROVE  LET new == NewMessages(map, s, ids, data)
             appended == Appended(StreamIn(map, s), new)
         IN /\ StreamGood(s, appended, globalHeadPosition + Len(ids))
            /\ appended.streamVersion = StreamIn(map, s).streamVersion + Len(ids)
            /\ Elements(appended.messages) = Elements(StreamIn(map, s).messages) \cup Elements(new)
<1> DEFINE stream == StreamIn(map, s)
           old == stream.messages
           new == NewMessages(map, s, ids, data)
           appended == Appended(stream, new)
           N == Len(ids)
           L == Len(old)
           all == old \o new
<1>1. StreamGood(s, stream, globalHeadPosition)
  BY StreamInGood DEF RestOK
<1>2. /\ globalHeadPosition \in Int /\ globalHeadPosition >= -1
      /\ stream.streamVersion \in Int /\ stream.streamVersion >= -1
      /\ stream.position \in Int /\ stream.position >= -1
      /\ stream.position <= globalHeadPosition
      /\ old \in Seq(Message)
  BY <1>1 DEF RestOK, StreamGood, StreamOK
<1>3. /\ new \in Seq(Message)
      /\ N \in Nat /\ Len(new) = N
      /\ DOMAIN new = 1 .. N /\ DOMAIN ids = 1 .. N
      /\ \A i \in 1 .. N :
           /\ new[i].streamId = s
           /\ new[i].messageId = ids[i]
           /\ new[i].streamVersion = stream.streamVersion + i
           /\ new[i].position = globalHeadPosition + i
  BY NewMessagesGood
<1>4. /\ DistinctBatches => \A i, j \in 1 .. N : i # j => ids[i] # ids[j]
      /\ \A i \in 1 .. N : ids[i] \in AllMessageIds /\ ids[i] \notin DOMAIN stream.messageMap
  BY <1>3, ElementOfSeq DEF Ids
<1>5. /\ L \in Nat /\ DOMAIN old = 1 .. L
      /\ all \in Seq(Message) /\ DOMAIN all = 1 .. L + N
      /\ \A i \in 1 .. L : all[i] = old[i]
      /\ \A i \in 1 .. N : all[L + i] = new[i]
      /\ \A i \in 1 .. L + N : i \in 1 .. L \/ \E k \in 1 .. N : i = L + k
  <2>1. L \in Nat /\ DOMAIN old = 1 .. L
    BY <1>2, LenProperties
  <2>2. /\ all \in Seq(Message) /\ Len(all) = L + N
        /\ \A i \in 1 .. L + N : all[i] = IF i <= L THEN old[i] ELSE new[i - L]
    <3> HIDE DEF old, new, N
    <3> QED
      BY <1>2, <1>3, ConcatProperties
  <2>3. DOMAIN all = 1 .. L + N
    BY <2>2, LenProperties
  <2>4. \A i \in 1 .. L + N : i \in 1 .. L \/ \E k \in 1 .. N : i = L + k
    <3> SUFFICES ASSUME NEW i \in 1 .. L + N, i \notin 1 .. L
                 PROVE  \E k \in 1 .. N : i = L + k
      OBVIOUS
    <3> HIDE DEF L, N
    <3>1. i - L \in 1 .. N /\ i = L + (i - L)
      BY <1>3, <2>1
    <3> QED
      BY <3>1
  <2>5. \A i \in 1 .. L : all[i] = old[i]
    <3> HIDE DEF L, N, all
    <3> QED
      BY <1>3, <2>1, <2>2
  <2>6. \A i \in 1 .. N : all[L + i] = new[i]
    <3> HIDE DEF L, N, all, new, old
    <3>1. \A i \in 1 .. N : L + i \in 1 .. L + N /\ ~ (L + i <= L) /\ (L + i) - L = i
      BY <1>3, <2>1
    <3> QED
      BY <2>2, <3>1
  <2> QED
    BY <2>1, <2>2, <2>3, <2>4, <2>5, <2>6
<1>6. Elements(all) = Elements(old) \cup Elements(new)
  BY <1>2, <1>3, ConcatElements
<1>7. /\ appended.streamVersion = stream.streamVersion + N
      /\ appended.position = IF new = << >> THEN stream.position ELSE globalHeadPosition + N
      /\ appended.messages = all
      /\ appended.messageMap =
           [id \in DOMAIN stream.messageMap \cup {new[i].messageId : i \in DOMAIN new} |->
              IF {i \in DOMAIN new : new[i].messageId = id} # {}
              THEN new[Greatest({i \in DOMAIN new : new[i].messageId = id})]
              ELSE stream.messageMap[id]]
  BY <1>3 DEF Appended
<1>8. /\ \A i \in 1 .. N :
           /\ ids[i] \in DOMAIN appended.messageMap
           /\ \E k \in 1 .. N : ids[k] = ids[i] /\ appended.messageMap[ids[i]] = new[k]
      /\ \A id \in DOMAIN stream.messageMap :
           id \in DOMAIN appended.messageMap /\ appended.messageMap[id] = stream.messageMap[id]
      /\ \A id \in DOMAIN appended.messageMap :
           id \in DOMAIN stream.messageMap \/ \E i \in 1 .. N : id = ids[i]
  <2> DEFINE written(id) == {i \in DOMAIN new : new[i].messageId = id}
  <2> HIDE DEF new, stream, appended, N
  <2>1. \A id : written(id) = {i \in 1 .. N : ids[i] = id}
    BY <1>3
  <2>2. ASSUME NEW i \in 1 .. N
        PROVE  Greatest(written(ids[i])) \in written(ids[i]) /\ written(ids[i]) # {}
    <3>1. written(ids[i]) \in SUBSET (1 .. N) /\ i \in written(ids[i])
      BY <2>1
    <3>2. IsFiniteSet(1 .. N)
      BY <1>3, FS_Interval
    <3> HIDE DEF written
    <3>3. IsFiniteSet(written(ids[i]))
      BY <3>1, <3>2, FS_Subset
    <3>4. written(ids[i]) \in SUBSET Int
      BY <1>3, <3>1
    <3> QED
      BY <3>1, <3>3, <3>4, GreatestExists
  <2>3. \A id \in DOMAIN stream.messageMap : written(id) = {}
    BY <1>4, <2>1
  <2>4. DOMAIN appended.messageMap = DOMAIN stream.messageMap \cup {ids[i] : i \in 1 .. N}
    <3>1. {new[i].messageId : i \in DOMAIN new} = {ids[i] : i \in 1 .. N}
      BY <1>3
    <3> QED
      BY <1>7, <3>1
  <2>5. \A id \in DOMAIN appended.messageMap :
          appended.messageMap[id] = IF written(id) # {} THEN new[Greatest(written(id))]
                                    ELSE stream.messageMap[id]
    BY <1>7, Zenon
  <2> HIDE DEF written
  <2>6. ASSUME NEW i \in 1 .. N
        PROVE  \E k \in 1 .. N : ids[k] = ids[i] /\ appended.messageMap[ids[i]] = new[k]
    <3>1. appended.messageMap[ids[i]] = new[Greatest(written(ids[i]))]
      BY <2>2, <2>4, <2>5
    <3>2. Greatest(written(ids[i])) \in {k \in 1 .. N : ids[k] = ids[i]}
      BY <2>1, <2>2
    <3> QED
      BY <3>1, <3>2
  <2>7. \A id \in DOMAIN stream.messageMap : appended.messageMap[id] = stream.messageMap[id]
    BY <2>3, <2>4, <2>5
  <2> QED
    BY <2>4, <2>6, <2>7
<1> HIDE DEF appended, new, stream, all, old, L, N
<1>9. /\ globalHeadPosition + N \in Int
      /\ appended.position \in Int /\ appended.position >= -1
      /\ appended.position <= globalHeadPosition + N
      /\ stream.position <= appended.position
      /\ appended.streamVersion \in Int /\ appended.streamVersion >= -1
      /\ N # 0 => appended.position = globalHeadPosition + N
  <2>1. N # 0 => new # << >>
    BY <1>3, NoFunction
  <2> QED
    BY <1>2, <1>3, <1>7, <2>1
<1>10. StreamOK(appended)
  <2>1. \A id \in DOMAIN appended.messageMap :
          id \in AllMessageIds /\ appended.messageMap[id] \in Message
    <3>1. \A i \in 1 .. N : new[i] \in Message
      BY <1>3, ElementOfSeq
    <3>2. \A id \in DOMAIN stream.messageMap :
            id \in AllMessageIds /\ stream.messageMap[id] \in Message
      BY <1>1 DEF StreamGood, StreamOK
    <3> QED
      BY <1>4, <1>8, <3>1, <3>2
  <2> QED
    BY <1>5, <1>7, <1>9, <2>1 DEF StreamOK
<1>11. \A i \in 1 .. L : /\ old[i].streamVersion \in Nat /\ old[i].position \in Nat
                         /\ old[i].streamVersion <= stream.streamVersion
                         /\ old[i].position <= stream.position
                         /\ old[i].streamId = s
  <2>1. \A i \in 1 .. L : old[i] \in Message
    BY <1>2, <1>5, ElementOfSeq
  <2> QED
    BY <1>1, <1>5, <2>1 DEF StreamGood, MessagesOf, Message, old
<1>12. MessagesOrdered(all)
  <2> SUFFICES ASSUME NEW i \in 1 .. L + N, NEW j \in 1 .. L + N, i < j
               PROVE  /\ all[i].streamVersion < all[j].streamVersion
                      /\ all[i].position < all[j].position
    BY <1>5 DEF MessagesOrdered
  <2>1. CASE i \in 1 .. L /\ j \in 1 .. L
    BY <1>1, <1>5, <2>1 DEF StreamGood, MessagesOrdered, old
  <2>2. CASE i \in 1 .. L /\ j \notin 1 .. L
    <3>1. PICK k \in 1 .. N : j = L + k
      BY <1>5, <2>2
    <3>2. all[i] = old[i] /\ all[j] = new[k]
      BY <1>5, <2>2, <3>1
    <3>3. /\ all[i].streamVersion \in Nat /\ all[i].streamVersion <= stream.streamVersion
          /\ all[i].position \in Nat /\ all[i].position <= globalHeadPosition
          /\ all[j].streamVersion = stream.streamVersion + k
          /\ all[j].position = globalHeadPosition + k
      <4>1. /\ old[i].streamVersion \in Nat /\ old[i].streamVersion <= stream.streamVersion
            /\ old[i].position \in Nat /\ old[i].position <= stream.position
        BY <1>11, <2>2
      <4>2. new[k].streamVersion = stream.streamVersion + k /\ new[k].position = globalHeadPosition + k
        BY <1>3
      <4> QED
        BY <1>2, <3>2, <4>1, <4>2
    <3>4. k \in Nat /\ k > 0
      BY <1>3
    <3> QED
      BY <1>2, <3>3, <3>4
  <2>3. CASE i \notin 1 .. L
    <3>1. PICK h \in 1 .. N : i = L + h
      BY <1>5, <2>3
    <3>2. j \notin 1 .. L
      BY <1>3, <1>5, <2>3
    <3>3. PICK k \in 1 .. N : j = L + k
      BY <1>5, <3>2
    <3>4. all[i] = new[h] /\ all[j] = new[k] /\ h < k
      BY <1>3, <1>5, <3>1, <3>3
    <3> QED
      BY <1>2, <1>3, <3>4
  <2> QED
    BY <2>1, <2>2, <2>3
<1>13. MessagesOf(s, appended)
  <2> SUFFICES ASSUME NEW i \in 1 .. L + N
               PROVE  /\ all[i].streamId = s
                      /\ all[i].streamVersion <= stream.streamVersion + N
                      /\ all[i].position <= appended.position
    BY <1>5, <1>7 DEF MessagesOf
  <2>1. CASE i \in 1 .. L
    <3>1. /\ old[i].streamVersion \in Nat /\ old[i].streamVersion <= stream.streamVersion
          /\ old[i].position \in Nat /\ old[i].position <= stream.position
          /\ old[i].streamId = s /\ all[i] = old[i]
      BY <1>5, <1>11, <2>1
    <3>2. N \in Nat
      BY <1>3
    <3> QED
      BY <1>2, <1>9, <3>1, <3>2
  <2>2. CASE i \notin 1 .. L
    <3>1. PICK k \in 1 .. N : i = L + k
      BY <1>5, <2>2
    <3>2. all[i] = new[k] /\ N # 0 /\ k <= N
      BY <1>3, <1>5, <3>1
    <3> QED
      BY <1>2, <1>3, <1>9, <3>2
  <2> QED
    BY <2>1, <2>2
<1>14. ASSUME DistinctBatches
       PROVE  Indexed(appended)
  <2>0. \A i \in 1 .. N : appended.messageMap[ids[i]] = new[i]
    BY <1>4, <1>8, <1>14
  <2>1. ASSUME NEW m \in Elements(all)
        PROVE  m.messageId \in DOMAIN appended.messageMap /\ appended.messageMap[m.messageId] = m
    <3>1. CASE m \in Elements(old)
      BY <1>1, <1>8, <1>14, <3>1 DEF StreamGood, Indexed, old
    <3>2. CASE m \in Elements(new)
      <4>1. PICK i \in 1 .. N : m = new[i]
        BY <1>3, <3>2 DEF Elements
      <4> QED
        BY <1>3, <1>8, <2>0, <4>1
    <3> QED
      BY <1>6, <2>1, <3>1, <3>2
  <2>2. ASSUME NEW id \in DOMAIN appended.messageMap
        PROVE  appended.messageMap[id] \in Elements(all) /\ appended.messageMap[id].messageId = id
    <3>1. CASE id \in DOMAIN stream.messageMap
      BY <1>1, <1>6, <1>8, <1>14, <3>1 DEF StreamGood, Indexed, old
    <3>2. CASE \E i \in 1 .. N : id = ids[i]
      <4>1. PICK i \in 1 .. N : id = ids[i]
        BY <3>2
      <4>2. new[i] \in Elements(new)
        BY <1>3 DEF Elements
      <4> QED
        BY <1>3, <1>6, <2>0, <4>1, <4>2
    <3> QED
      BY <1>8, <3>1, <3>2
  <2> QED
    BY <1>7, <2>1, <2>2 DEF Indexed
<1>15. StreamGood(s, appended, globalHeadPosition + N)
  BY <1>7, <1>9, <1>10, <1>12, <1>13, <1>14 DEF StreamGood
<1> QED
  BY <1>6, <1>7, <1>15 DEF appended, new, stream, all, old, N

\* Pushing a batch keeps the all-stream in the order of the positions.
LEMMA PushedGood ==
  ASSUME RestOK, NEW map, MapGood(map, globalHeadPosition), NEW s \in AllStreams,
         NEW ids, Ids(ids), NEW data \in Policy,
         NEW all, AllGood(all, globalHeadPosition)
  PROVE  LET new == NewMessages(map, s, ids, data) IN
         /\ AllGood(all \o new, globalHeadPosition + Len(ids))
         /\ Elements(all \o new) = Elements(all) \cup Elements(new)
<1> DEFINE new == NewMessages(map, s, ids, data)
           N == Len(ids)
           L == Len(all)
           pushed == all \o new
<1>1. globalHeadPosition \in Int /\ globalHeadPosition >= -1 /\ all \in Seq(Message)
  BY DEF RestOK, AllGood
<1>2. /\ new \in Seq(Message)
      /\ N \in Nat /\ Len(new) = N
      /\ \A i \in 1 .. N : new[i].position = globalHeadPosition + i
  BY NewMessagesGood
<1>3. Elements(pushed) = Elements(all) \cup Elements(new)
  BY <1>1, <1>2, ConcatElements
<1>4. L \in Nat /\ DOMAIN all = 1 .. L
  BY <1>1, LenProperties
<1>5. /\ pushed \in Seq(Message) /\ Len(pushed) = L + N
      /\ \A i \in 1 .. L + N : pushed[i] = IF i <= L THEN all[i] ELSE new[i - L]
  <2> HIDE DEF new, N
  <2> QED
    BY <1>1, <1>2, ConcatProperties
<1> HIDE DEF new, N, L, pushed
<1>6. DOMAIN pushed = 1 .. L + N
  BY <1>5, LenProperties
<1>7. \A i \in 1 .. L : all[i].position \in Nat /\ all[i].position <= globalHeadPosition
  <2>1. \A i \in 1 .. L : all[i] \in Message
    BY <1>1, <1>4, ElementOfSeq DEF L
  <2> QED
    BY <1>4, <2>1 DEF AllGood, Message
<1>8. \A i \in 1 .. L + N :
        \/ i \in 1 .. L /\ pushed[i].position = all[i].position
        \/ ~ (i \in 1 .. L) /\ pushed[i].position = globalHeadPosition + (i - L)
  <2> SUFFICES ASSUME NEW i \in 1 .. L + N, ~ (i \in 1 .. L)
               PROVE  pushed[i].position = globalHeadPosition + (i - L)
    BY <1>4, <1>5
  <2>1. i - L \in 1 .. N /\ ~ (i <= L)
    BY <1>2, <1>4
  <2> QED
    BY <1>2, <1>5, <2>1
<1>9. ASSUME NEW i \in 1 .. L + N, NEW j \in 1 .. L + N, i < j
      PROVE  pushed[i].position < pushed[j].position
  <2>1. CASE i \in 1 .. L /\ j \in 1 .. L
    BY <1>4, <1>8, <1>9, <2>1 DEF AllGood
  <2>2. CASE i \in 1 .. L /\ ~ (j \in 1 .. L)
    <3>1. /\ pushed[i].position \in Nat /\ pushed[i].position <= globalHeadPosition
          /\ pushed[j].position = globalHeadPosition + (j - L)
      BY <1>7, <1>8, <2>2
    <3> QED
      BY <1>1, <1>2, <1>4, <2>2, <3>1
  <2>3. CASE ~ (i \in 1 .. L)
    <3>1. ~ (j \in 1 .. L)
      BY <1>2, <1>4, <1>9, <2>3
    <3>2. /\ pushed[i].position = globalHeadPosition + (i - L)
          /\ pushed[j].position = globalHeadPosition + (j - L)
      BY <1>8, <2>3, <3>1
    <3> QED
      BY <1>1, <1>2, <1>4, <1>9, <3>2
  <2> QED
    BY <2>1, <2>2, <2>3
<1>10. ASSUME NEW i \in 1 .. L + N
       PROVE  pushed[i].position <= globalHeadPosition + N
  <2>1. CASE i \in 1 .. L
    <3>1. pushed[i].position \in Nat /\ pushed[i].position <= globalHeadPosition
      BY <1>7, <1>8, <2>1
    <3> QED
      BY <1>1, <1>2, <3>1
  <2>2. CASE ~ (i \in 1 .. L)
    <3>1. pushed[i].position = globalHeadPosition + (i - L)
      BY <1>8, <2>2
    <3> QED
      BY <1>1, <1>2, <1>4, <3>1
  <2> QED
    BY <2>1, <2>2
<1> QED
  BY <1>3, <1>5, <1>6, <1>9, <1>10 DEF AllGood, new, N, pushed

\* appendToStreamInternal when it writes: what becomes of the two containers.
LEMMA WriteToGood ==
  ASSUME RestOK, NEW map, MapGood(map, globalHeadPosition), NEW s \in AllStreams,
         NEW ids, Ids(ids), NEW data \in Policy,
         NEW all, AllGood(all, globalHeadPosition),
         CanWrite(StreamIn(map, s), ExpectedVersionAny, ids),
         WriteTo(map, all, s, ids, data)
  PROVE  LET new == NewMessages(map, s, ids, data) IN
         /\ globalHeadPosition' \in Int /\ globalHeadPosition' >= -1 /\ notifying' \in BOOLEAN
         /\ globalHeadPosition <= globalHeadPosition'
         /\ MapGood(streamMap', globalHeadPosition')
         /\ AllGood(inMemoryAllStream', globalHeadPosition')
         /\ Merged(map, all) => Merged(streamMap', inMemoryAllStream')
         /\ DOMAIN streamMap' = DOMAIN map \cup {s}
         /\ \A t \in DOMAIN map \ {s} : streamMap'[t] = map[t]
         /\ streamMap'[s].streamVersion = StreamIn(map, s).streamVersion + Len(ids)
         /\ Elements(streamMap'[s].messages) = Elements(StreamIn(map, s).messages) \cup Elements(new)
         /\ Elements(inMemoryAllStream') = Elements(all) \cup Elements(new)
<1> DEFINE new == NewMessages(map, s, ids, data)
           stream == StreamIn(map, s)
           N == Len(ids)
<1>1. /\ StreamGood(s, Appended(stream, new), globalHeadPosition + N)
      /\ Appended(stream, new).streamVersion = stream.streamVersion + N
      /\ Elements(Appended(stream, new).messages) = Elements(stream.messages) \cup Elements(new)
  BY AppendedGood DEF CanWrite
<1>2. /\ AllGood(all \o new, globalHeadPosition + N)
      /\ Elements(all \o new) = Elements(all) \cup Elements(new)
  BY PushedGood
<1>3. N \in Nat /\ globalHeadPosition \in Int /\ globalHeadPosition >= -1
  BY LenProperties DEF Ids, RestOK
<1>4. /\ streamMap' = [t \in DOMAIN map \cup {s} |-> IF t = s THEN Appended(stream, new) ELSE map[t]]
      /\ inMemoryAllStream' = all \o new
      /\ globalHeadPosition' = globalHeadPosition + N
      /\ notifying' = TRUE
  BY DEF WriteTo, Put
<1> HIDE DEF new, stream, N
<1>5. globalHeadPosition' \in Int /\ globalHeadPosition' >= -1 /\ globalHeadPosition <= globalHeadPosition'
  BY <1>3, <1>4
<1>6. /\ DOMAIN streamMap' = DOMAIN map \cup {s}
      /\ \A t \in DOMAIN map \ {s} : streamMap'[t] = map[t]
      /\ streamMap'[s] = Appended(stream, new)
  BY <1>4
<1>7. \A t \in DOMAIN map : StreamGood(t, map[t], globalHeadPosition')
  <2>1. \A t \in DOMAIN map : StreamGood(t, map[t], globalHeadPosition) /\ map[t].position \in Int
    BY DEF MapGood, StreamGood, StreamOK
  <2> QED
    BY <1>3, <1>4, <1>5, <2>1 DEF StreamGood
<1>8. MapGood(streamMap', globalHeadPosition')
  <2>1. ASSUME NEW t \in DOMAIN streamMap'
        PROVE  StreamGood(t, streamMap'[t], globalHeadPosition')
    <3>1. CASE t = s
      BY <1>1, <1>4, <1>6, <3>1
    <3>2. CASE t # s
      BY <1>6, <1>7, <2>1, <3>2
    <3> QED
      BY <3>1, <3>2
  <2> QED
    BY <1>6, <2>1 DEF MapGood
<1>9. ASSUME Merged(map, all)
      PROVE  Merged(streamMap', inMemoryAllStream')
  <2>1. Elements(stream.messages) \subseteq UNION {Elements(map[t].messages) : t \in DOMAIN map}
    <3>1. CASE s \in DOMAIN map
      BY <3>1 DEF stream, StreamIn
    <3>2. CASE s \notin DOMAIN map
      BY <3>2, NoFunction DEF stream, StreamIn, NewStream
    <3> QED
      BY <3>1, <3>2
  <2>2. s \in DOMAIN map => map[s] = stream
    BY DEF stream, StreamIn
  <2>3. UNION {Elements(streamMap'[t].messages) : t \in DOMAIN streamMap'}
          = (UNION {Elements(map[t].messages) : t \in DOMAIN map}) \cup Elements(new)
    BY <1>1, <1>6, <2>1, <2>2
  <2> QED
    BY <1>2, <1>4, <1>9, <2>3 DEF Merged
<1> QED
  BY <1>1, <1>2, <1>4, <1>5, <1>6, <1>8, <1>9 DEF new, stream, N

\* appendToStreamInternal when it writes nothing.
LEMMA TouchGood ==
  ASSUME StoreGood, NEW s \in AllStreams, Touch(s)
  PROVE  /\ MapGood(streamMap', globalHeadPosition')
         /\ AllGood(inMemoryAllStream', globalHeadPosition')
         /\ Merged(streamMap, inMemoryAllStream) => Merged(streamMap', inMemoryAllStream')
         /\ DOMAIN streamMap' = DOMAIN streamMap \cup {s}
         /\ \A t \in DOMAIN streamMap : streamMap'[t] = streamMap[t]
         /\ \A t \in AllStreams : StreamIn(streamMap', t) = StreamIn(streamMap, t)
<1>1. /\ streamMap' = [t \in DOMAIN streamMap \cup {s} |->
                         IF t = s THEN StreamIn(streamMap, s) ELSE streamMap[t]]
      /\ UNCHANGED <<inMemoryAllStream, globalHeadPosition, notifying>>
  BY DEF Touch, Put
<1>2. StreamGood(s, StreamIn(streamMap, s), globalHeadPosition)
  BY StreamInGood DEF StoreGood, RestOK
<1>3. MapGood(streamMap', globalHeadPosition') /\ AllGood(inMemoryAllStream', globalHeadPosition')
  BY <1>1, <1>2 DEF StoreGood, MapGood
<1>4. \A t \in DOMAIN streamMap : streamMap'[t] = streamMap[t]
  BY <1>1 DEF StreamIn
<1>5. \A t \in AllStreams : StreamIn(streamMap', t) = StreamIn(streamMap, t)
  BY <1>1 DEF StreamIn
<1>6. ASSUME Merged(streamMap, inMemoryAllStream)
      PROVE  Merged(streamMap', inMemoryAllStream')
  <2>1. CASE s \in DOMAIN streamMap
    BY <1>1, <1>4, <1>6, <2>1 DEF Merged
  <2>2. CASE s \notin DOMAIN streamMap
    <3>1. Elements(streamMap'[s].messages) = {}
      BY <1>1, <2>2, NoFunction DEF StreamIn, NewStream
    <3>2. DOMAIN streamMap' = DOMAIN streamMap \cup {s}
      BY <1>1
    <3>3. UNION {Elements(streamMap'[t].messages) : t \in DOMAIN streamMap'}
            = UNION {Elements(streamMap[t].messages) : t \in DOMAIN streamMap}
      BY <1>4, <3>1, <3>2
    <3> QED
      BY <1>1, <1>6, <3>3 DEF Merged
  <2> QED
    BY <2>1, <2>2
<1> QED
  BY <1>1, <1>3, <1>4, <1>5, <1>6

\* deleteMessage, of any number of messages.
LEMMA DeleteGood ==
  ASSUME StoreGood, NEW keys, Delete(keys)
  PROVE  /\ MapGood(streamMap', globalHeadPosition')
         /\ AllGood(inMemoryAllStream', globalHeadPosition')
         /\ Merged(streamMap, inMemoryAllStream) => Merged(streamMap', inMemoryAllStream')
         /\ DOMAIN streamMap' = DOMAIN streamMap
         /\ \A s \in DOMAIN streamMap :
              /\ streamMap'[s].streamVersion = streamMap[s].streamVersion
              /\ Elements(streamMap'[s].messages) \subseteq Elements(streamMap[s].messages)
         /\ Elements(inMemoryAllStream') \subseteq Elements(inMemoryAllStream)
<1> DEFINE gone == Found(streamMap, keys)
<1>1. /\ streamMap' = Spliced(streamMap, gone)
      /\ inMemoryAllStream' = Without(inMemoryAllStream, gone)
      /\ UNCHANGED globalHeadPosition
  BY DEF Delete
<1> HIDE DEF gone
<1>2. MapGood(streamMap, globalHeadPosition) /\ AllGood(inMemoryAllStream, globalHeadPosition)
  BY DEF StoreGood
<1>3. Elements(inMemoryAllStream') = Elements(inMemoryAllStream) \ gone
  BY <1>1, <1>2, WithoutProperties DEF AllGood
<1>4. AllGood(inMemoryAllStream', globalHeadPosition')
  BY <1>1, <1>2, WithoutGood
<1>5. /\ MapGood(streamMap', globalHeadPosition')
      /\ DOMAIN streamMap' = DOMAIN streamMap
      /\ \A s \in DOMAIN streamMap :
           /\ streamMap'[s].streamVersion = streamMap[s].streamVersion
           /\ Elements(streamMap'[s].messages) = Elements(streamMap[s].messages) \ gone
  BY <1>1, <1>2, SplicedGood
<1>6. Merged(streamMap, inMemoryAllStream) => Merged(streamMap', inMemoryAllStream')
  BY <1>1, <1>2, SplicedMerged
<1> QED
  BY <1>3, <1>4, <1>5, <1>6

-----------------------------------------------------------------------------
(***************************************************************************)
(* What the suspended calls remember.                                      *)
(***************************************************************************)
LEMMA NoCallOK == NoCall \in Call /\ NoPolicy \in Policy /\ DeletedStream \in AllStreams
<1>1. NoPolicy \in Policy /\ DeletedStream \in AllStreams
  BY DEF NoPolicy, Policy, AllStreams
<1>2. << >> \in Seq(Message)
  OBVIOUS
<1> QED
  BY <1>1, <1>2 DEF NoCall, Call

LEMMA PolicyOfOK ==
  ASSUME StoreGood, NEW s
  PROVE  PolicyOf(s) \in Policy
<1> DEFINE metadata == StreamIn(streamMap, MetaStream(s)).messages
<1>1. metadata \in Seq(Message)
  BY StreamInGood DEF StoreGood, RestOK, StreamGood, StreamOK
<1> HIDE DEF metadata
<1>2. metadata # << >> => metadata[Len(metadata)] \in Message
  <2> SUFFICES ASSUME metadata # << >> PROVE metadata[Len(metadata)] \in Message
    OBVIOUS
  <2>1. Len(metadata) \in Nat /\ Len(metadata) # 0
    BY <1>1, EmptySeq, LenProperties
  <2>2. Len(metadata) \in 1 .. Len(metadata)
    BY <2>1
  <2> QED
    BY <1>1, <2>2, ElementOfSeq
<1> QED
  BY <1>2, NoCallOK DEF PolicyOf, metadata, Message

\* The plan of a scavenge is a list of messages of the snapshot.
LEMMA ScavengePlanOK ==
  ASSUME NEW messages \in Seq(Message), NEW policy
  PROVE  ScavengePlan(messages, policy) \in Seq(Message)
<1> DEFINE I == Deletions(messages, policy)
           L == Len(messages)
           N == Cardinality(I)
<1>1. L \in Nat /\ DOMAIN messages = 1 .. L
  BY LenProperties
<1>2. \A k \in I : k \in Int /\ (k + 1) \div 2 \in 1 .. L
  <2> SUFFICES ASSUME NEW k \in I PROVE k \in Int /\ (k + 1) \div 2 \in 1 .. L
    OBVIOUS
  <2>1. PICK i \in 1 .. L : k = 2 * i \/ k = 2 * i - 1
    BY <1>1 DEF Deletions
  <2> HIDE DEF L, I
  <2>2. (2 * i + 1) \div 2 = i /\ (2 * i - 1 + 1) \div 2 = i /\ 2 * i \in Int /\ 2 * i - 1 \in Int
    BY <1>1
  <2> QED
    BY <2>1, <2>2
<1> HIDE DEF I, L
<1>3. I \subseteq 1 .. 2 * L
  <2> SUFFICES ASSUME NEW k \in I PROVE k \in 1 .. 2 * L
    OBVIOUS
  <2>1. k \in Int /\ (k + 1) \div 2 \in 1 .. L
    BY <1>2
  <2> QED
    BY <1>1, <2>1
<1>4. IsFiniteSet(I) /\ N \in Nat
  <2>1. 1 \in Int /\ 2 * L \in Int
    BY <1>1
  <2>2. IsFiniteSet(1 .. 2 * L)
    BY <2>1, FS_Interval
  <2> QED
    BY <1>3, <2>2, FS_Subset, FS_CardinalityType
<1>5. ASSUME NEW n \in 1 .. N
      PROVE  messages[(Nth(I, n) + 1) \div 2] \in Message
  <2>1. I \in SUBSET Int
    BY <1>2
  <2>2. Nth(I, n) \in I
    BY <1>4, <2>1, NthExists
  <2> QED
    BY <1>1, <1>2, <2>2, ElementOfSeq DEF L
<1>6. ScavengePlan(messages, policy) = [n \in 1 .. N |-> messages[(Nth(I, n) + 1) \div 2]]
  BY DEF ScavengePlan, I
<1>7. ScavengePlan(messages, policy) \in [1 .. N -> Message]
  BY <1>5, <1>6
<1> QED
  BY <1>4, <1>7, SeqDef

LEMMA BatchIds ==
  /\ \A ids \in Batches : Ids(ids)
  /\ \A id \in AllMessageIds : Ids(<< id >>)
<1>1. ASSUME NEW ids \in Batches
      PROVE  Ids(ids)
  <2>1. /\ ids \in Seq(MessageIds)
        /\ DistinctBatches => \A i, j \in DOMAIN ids : i # j => ids[i] # ids[j]
    BY BatchesAssumption DEF DistinctBatches
  <2>2. MessageIds \subseteq AllMessageIds
    BY DEF AllMessageIds
  <2>3. /\ Len(ids) \in Nat /\ ids \in [1 .. Len(ids) -> MessageIds]
    BY <2>1, LenProperties
  <2>4. ids \in [1 .. Len(ids) -> AllMessageIds]
    BY <2>2, <2>3
  <2> QED
    BY <2>1, <2>3, <2>4, SeqDef DEF Ids
<1>2. ASSUME NEW id \in AllMessageIds
      PROVE  Ids(<< id >>)
  BY DEF Ids
<1> QED
  BY <1>1, <1>2

-----------------------------------------------------------------------------
(***************************************************************************)
(* What a step does to the two containers: one of six things.              *)
(***************************************************************************)
Writes(map, all) ==
  \E s \in AllStreams, data \in Policy : \E ids :
    /\ Ids(ids)
    /\ CanWrite(StreamIn(map, s), ExpectedVersionAny, ids)
    /\ WriteTo(map, all, s, ids, data)

DeletesAndWrites ==
  \E gone : Writes(Spliced(streamMap, gone), Without(inMemoryAllStream, gone))

Effect ==
  \/ UNCHANGED <<streamMap, inMemoryAllStream, globalHeadPosition>>
  \/ \E s \in AllStreams : Touch(s)
  \/ \E keys : Delete(keys)
  \/ Writes(streamMap, inMemoryAllStream)
  \/ DeletesAndWrites
  \/ ClearStreams

LEMMA WritesIntro ==
  ASSUME NEW map, NEW all, NEW s \in AllStreams, NEW ids, Ids(ids), NEW data \in Policy,
         NEW e, CanWrite(StreamIn(map, s), e, ids), WriteTo(map, all, s, ids, data)
  PROVE  Writes(map, all) /\ notifying' \in BOOLEAN
<1>1. CanWrite(StreamIn(map, s), ExpectedVersionAny, ids) /\ notifying' = TRUE
  BY DEF CanWrite, WriteTo
<1>2. Writes(map, all)
  BY <1>1, Zenon DEF Writes
<1> QED
  BY <1>1, <1>2

LEMMA StreamIdsOK ==
  \A s \in StreamIds : s \in AllStreams /\ MetaStream(s) \in AllStreams /\ DeletedStream \in AllStreams
BY DEF AllStreams, MetaStream, DeletedStream

LEMMA AppendEffect ==
  ASSUME StoreGood, NEW c \in Callers, NEW s \in StreamIds, NEW e \in ExpectedVersions,
         NEW ids \in Batches, AppendToStream(c, s, e, ids)
  PROVE  Effect /\ notifying' \in BOOLEAN
<1>1. s \in AllStreams /\ Ids(ids) /\ NoPolicy \in Policy /\ notifying \in BOOLEAN
  BY StreamIdsOK, BatchIds, NoCallOK DEF StoreGood, RestOK
<1>2. CASE CanWrite(StreamIn(streamMap, s), e, ids)
           /\ WriteTo(streamMap, inMemoryAllStream, s, ids, NoPolicy)
  BY <1>1, <1>2, WritesIntro, Zenon DEF Effect
<1>3. CASE Touch(s)
  BY <1>1, <1>3 DEF Effect, Touch
<1> QED
  BY <1>2, <1>3 DEF AppendToStream

LEMMA SetMetadataEffect ==
  ASSUME StoreGood, NEW c \in Callers, NEW s \in StreamIds, NEW e \in ExpectedVersions,
         NEW policy \in Policies, SetStreamMetadata(c, s, e, policy)
  PROVE  Effect /\ notifying' \in BOOLEAN
<1> DEFINE ids == << MetaMessageId(globalHeadPosition + 1) >>
<1>1. MetaMessageId(globalHeadPosition + 1) \in AllMessageIds
  <2>1. globalHeadPosition + 1 \in Nat
    BY DEF StoreGood, RestOK
  <2> QED
    BY <2>1 DEF MetaMessageId, AllMessageIds
<1>2. MetaStream(s) \in AllStreams /\ Ids(ids) /\ policy \in Policy /\ notifying \in BOOLEAN
  BY <1>1, StreamIdsOK, BatchIds, PoliciesAssumption DEF StoreGood, RestOK
<1>3. \/ /\ CanWrite(StreamIn(streamMap, MetaStream(s)), e, ids)
         /\ WriteTo(streamMap, inMemoryAllStream, MetaStream(s), ids, policy)
      \/ Touch(MetaStream(s))
  BY DEF SetStreamMetadata
<1> HIDE DEF ids
<1>4. CASE CanWrite(StreamIn(streamMap, MetaStream(s)), e, ids)
           /\ WriteTo(streamMap, inMemoryAllStream, MetaStream(s), ids, policy)
  BY <1>2, <1>4, WritesIntro, Zenon DEF Effect
<1>5. CASE Touch(MetaStream(s))
  BY <1>2, <1>5 DEF Effect, Touch
<1> QED
  BY <1>3, <1>4, <1>5

LEMMA ScavengeEffect ==
  ASSUME StoreGood, NEW c, NEW plan, ScavengeOn(c, plan)
  PROVE  Effect /\ notifying' \in BOOLEAN
BY DEF Effect, ScavengeOn, Delete, StoreGood, RestOK

LEMMA DeleteStreamEffect ==
  ASSUME StoreGood, NEW s \in StreamIds, NEW e \in ExpectedVersions, DeleteStream(s, e)
  PROVE  Effect /\ notifying' \in BOOLEAN
<1> DEFINE keys == {<<s, m.messageId>> : m \in Elements(streamMap[s].messages)}
           gone == Found(streamMap, keys)
           kept == Spliced(streamMap, gone)
           left == Without(inMemoryAllStream, gone)
           ids == << DeletionMessageId(s, e) >>
<1>1. \/ /\ CanWrite(StreamIn(kept, DeletedStream), ExpectedVersionAny, ids)
         /\ WriteTo(kept, left, DeletedStream, ids, NoPolicy)
      \/ streamMap' = kept /\ inMemoryAllStream' = left /\ UNCHANGED <<globalHeadPosition, notifying>>
  BY DEF DeleteStream
<1>2. DeletionMessageId(s, e) \in AllMessageIds
  <2>1. e \in Int
    BY DEF ExpectedVersions, ExpectedVersionAny, ExpectedVersionEmpty
  <2> QED
    BY <2>1 DEF DeletionMessageId, AllMessageIds
<1>3. Ids(ids) /\ NoPolicy \in Policy /\ DeletedStream \in AllStreams /\ notifying \in BOOLEAN
  BY <1>2, BatchIds, NoCallOK DEF StoreGood, RestOK
<1> HIDE DEF keys, ids
<1>4. CASE CanWrite(StreamIn(kept, DeletedStream), ExpectedVersionAny, ids)
           /\ WriteTo(kept, left, DeletedStream, ids, NoPolicy)
  <2> HIDE DEF gone
  <2>1. Writes(kept, left) /\ notifying' \in BOOLEAN
    BY <1>3, <1>4, WritesIntro, Zenon
  <2> QED
    BY <2>1 DEF Effect, DeletesAndWrites
<1>5. CASE streamMap' = kept /\ inMemoryAllStream' = left /\ UNCHANGED <<globalHeadPosition, notifying>>
  <2>1. Delete(keys)
    BY <1>5 DEF Delete
  <2> QED
    BY <1>3, <1>5, <2>1 DEF Effect
<1> QED
  BY <1>1, <1>4, <1>5

LEMMA StepEffect ==
  ASSUME StoreGood, Next
  PROVE  Effect /\ notifying' \in BOOLEAN
<1>1. notifying \in BOOLEAN
  BY DEF StoreGood, RestOK
<1>2. ASSUME NEW c \in Callers, NEW s \in StreamIds, NEW e \in ExpectedVersions,
             NEW ids \in Batches, AppendToStream(c, s, e, ids)
      PROVE  Effect /\ notifying' \in BOOLEAN
  BY <1>2, AppendEffect
<1>3. ASSUME NEW c \in Callers, NEW s \in StreamIds, NEW e \in ExpectedVersions,
             NEW policy \in Policies, SetStreamMetadata(c, s, e, policy)
      PROVE  Effect /\ notifying' \in BOOLEAN
  BY <1>3, SetMetadataEffect
<1>4. ASSUME NEW c \in Callers, ReadPolicy(c)
      PROVE  Effect /\ notifying' \in BOOLEAN
  BY <1>1, <1>4 DEF ReadPolicy, Effect
<1>5. ASSUME NEW c \in Callers, StartScavenge(c) \/ ContinueScavenge(c)
      PROVE  Effect /\ notifying' \in BOOLEAN
  BY <1>5, ScavengeEffect DEF StartScavenge, ContinueScavenge
<1>6. ASSUME NEW s, NEW id, DeleteMessage(s, id)
      PROVE  Effect /\ notifying' \in BOOLEAN
  BY <1>1, <1>6 DEF DeleteMessage, Delete, Effect
<1>7. ASSUME NEW s \in StreamIds, NEW e \in ExpectedVersions, DeleteStream(s, e)
      PROVE  Effect /\ notifying' \in BOOLEAN
  BY <1>7, DeleteStreamEffect
<1>8. ASSUME NEW c \in Callers, NEW first, NEW count, StartReadAll(c, first, count)
      PROVE  Effect /\ notifying' \in BOOLEAN
  BY <1>1, <1>8 DEF StartReadAll, Effect
<1>9. ASSUME NEW c \in Callers, FinishReadAll(c)
      PROVE  Effect /\ notifying' \in BOOLEAN
  BY <1>1, <1>9 DEF FinishReadAll, Delete, Effect
<1>10. CASE NotifyObservers \/ Dispose \/ ClearStreams \/ Tick
  BY <1>1, <1>10 DEF NotifyObservers, Dispose, ClearStreams, Tick, Effect
<1> QED
  BY <1>2, <1>3, <1>4, <1>5, <1>6, <1>7, <1>8, <1>9, <1>10 DEF Next

-----------------------------------------------------------------------------
(***************************************************************************)
(* What a step does to the rest of the state.                              *)
(***************************************************************************)
LEMMA SuspendOK ==
  ASSUME calls \in [Callers -> Call], NEW c \in Callers, NEW call \in Call,
         Suspend(c, call) \/ Finish(c)
  PROVE  calls' \in [Callers -> Call]
BY NoCallOK DEF Suspend, Finish

LEMMA ScavengeOnRest ==
  ASSUME StoreGood, NEW c \in Callers, NEW plan \in Seq(Message), ScavengeOn(c, plan)
  PROVE  calls' \in [Callers -> Call]
<1>1. calls \in [Callers -> Call]
  BY DEF StoreGood, RestOK
<1>2. CASE Finish(c)
  BY <1>1, <1>2, NoCallOK, SuspendOK
<1>3. CASE /\ plan # << >>
           /\ Suspend(c, [calls[c] EXCEPT !.pc = "scavenging",
                                          !.todo = SubSeq(plan, 1, Len(plan) - 1)])
  <2>1. SubSeq(plan, 1, Len(plan) - 1) \in Seq(Message)
    <3>1. Len(plan) \in Nat /\ Len(plan) # 0
      BY <1>3, LenProperties, EmptySeq
    <3>2. \A i \in 1 .. Len(plan) - 1 : plan[i] \in Message
      <4>1. \A i \in 1 .. Len(plan) - 1 : i \in 1 .. Len(plan)
        BY <3>1
      <4> QED
        BY <4>1, ElementOfSeq
    <3> QED
      BY <3>1, <3>2, SubSeqProperties
  <2>2. [calls[c] EXCEPT !.pc = "scavenging", !.todo = SubSeq(plan, 1, Len(plan) - 1)] \in Call
    BY <1>1, <2>1 DEF Call
  <2> QED
    BY <1>1, <1>3, <2>2, SuspendOK
<1> QED
  BY <1>2, <1>3 DEF ScavengeOn

LEMMA StepRest ==
  ASSUME StoreGood, Next
  PROVE  /\ disposal' \in {"open", "disposing", "disposed"}
         /\ disposal' = disposal \/ Dispose \/ ClearStreams
         /\ now' \in Nat
         /\ calls' \in [Callers -> Call]
<1> DEFINE Goal == /\ disposal' \in {"open", "disposing", "disposed"}
                   /\ disposal' = disposal \/ Dispose \/ ClearStreams
                   /\ now' \in Nat
                   /\ calls' \in [Callers -> Call]
<1>1. /\ disposal \in {"open", "disposing", "disposed"}
      /\ now \in Nat
      /\ calls \in [Callers -> Call]
      /\ globalHeadPosition \in Int
  BY DEF StoreGood, RestOK
<1>2. ASSUME UNCHANGED <<disposal, now>>, calls' \in [Callers -> Call]
      PROVE  Goal
  BY <1>1, <1>2
<1> HIDE DEF Goal
<1>3. ASSUME NEW c \in Callers, NEW s \in StreamIds, NEW e \in ExpectedVersions,
             NEW ids \in Batches, AppendToStream(c, s, e, ids)
      PROVE  Goal
  <2>1. [NoCall EXCEPT !.pc = "appended", !.streamId = s] \in Call
    BY NoCallOK, StreamIdsOK DEF Call, NoCall
  <2>2. calls' \in [Callers -> Call]
    BY <1>1, <1>3, <2>1, SuspendOK DEF AppendToStream
  <2> QED
    BY <1>2, <1>3, <2>2 DEF AppendToStream
<1>4. ASSUME NEW c \in Callers, NEW s \in StreamIds, NEW e \in ExpectedVersions,
             NEW policy \in Policies, SetStreamMetadata(c, s, e, policy)
      PROVE  Goal
  <2>1. [NoCall EXCEPT !.pc = "policed", !.streamId = s, !.policy = policy] \in Call
    BY NoCallOK, StreamIdsOK, PoliciesAssumption DEF Call, NoCall
  <2>2. calls' \in [Callers -> Call]
    BY <1>1, <1>4, <2>1, SuspendOK DEF SetStreamMetadata
  <2> QED
    BY <1>2, <1>4, <2>2 DEF SetStreamMetadata
<1>5. ASSUME NEW c \in Callers, ReadPolicy(c)
      PROVE  Goal
  <2>1. [calls[c] EXCEPT !.pc = "policed", !.policy = PolicyOf(calls[c].streamId)] \in Call
    BY <1>1, PolicyOfOK DEF Call
  <2> QED
    BY <1>1, <1>2, <1>5, <2>1, SuspendOK DEF ReadPolicy
<1>6. ASSUME NEW c \in Callers, StartScavenge(c)
      PROVE  Goal
  <2>1. StreamIn(streamMap, calls[c].streamId).messages \in Seq(Message)
    BY StreamInGood DEF StoreGood, RestOK, StreamGood, StreamOK
  <2>2. ScavengePlan(StreamIn(streamMap, calls[c].streamId).messages, calls[c].policy)
          \in Seq(Message)
    BY <2>1, ScavengePlanOK
  <2> QED
    BY <1>2, <1>6, <2>2, ScavengeOnRest DEF StartScavenge
<1>7. ASSUME NEW c \in Callers, ContinueScavenge(c)
      PROVE  Goal
  <2>1. calls[c].todo \in Seq(Message)
    BY <1>1 DEF Call
  <2> QED
    BY <1>2, <1>7, <2>1, ScavengeOnRest DEF ContinueScavenge
<1>8. ASSUME NEW s, NEW id, DeleteMessage(s, id)
      PROVE  Goal
  BY <1>1, <1>2, <1>8 DEF DeleteMessage
<1>9. ASSUME NEW s \in StreamIds, NEW e \in ExpectedVersions, DeleteStream(s, e)
      PROVE  Goal
  BY <1>1, <1>2, <1>9 DEF DeleteStream
<1>10. ASSUME NEW c \in Callers, NEW first, NEW count, StartReadAll(c, first, count)
       PROVE  Goal
  <2> DEFINE mortal == {i \in DOMAIN inMemoryAllStream :
                          /\ first <= i /\ i < first + count
                          /\ ~ IsMetaStream(inMemoryAllStream[i].streamId)
                          /\ PolicyOf(inMemoryAllStream[i].streamId).maxAge # 0}
             expiring(m) == [streamId |-> m.streamId, messageId |-> m.messageId,
                             position |-> m.position,
                             expiresAt |-> m.createdAt + PolicyOf(m.streamId).maxAge]
             page == {expiring(inMemoryAllStream[i]) : i \in mortal}
  <2>1. ASSUME NEW i \in DOMAIN inMemoryAllStream
        PROVE  expiring(inMemoryAllStream[i]) \in Expiring
    <3>1. inMemoryAllStream[i] \in Message
      BY ElementOfSeq, LenProperties DEF StoreGood, AllGood
    <3>2. PolicyOf(inMemoryAllStream[i].streamId) \in Policy
      BY PolicyOfOK
    <3>3. inMemoryAllStream[i].createdAt \in Nat /\ PolicyOf(inMemoryAllStream[i].streamId).maxAge \in Nat
      BY <3>1, <3>2 DEF Message, Policy
    <3>4. inMemoryAllStream[i].createdAt + PolicyOf(inMemoryAllStream[i].streamId).maxAge \in Nat
      BY <3>3
    <3> QED
      BY <3>1, <3>4 DEF Message, Expiring
  <2>2. page \in SUBSET Expiring
    BY <2>1
  <2>3. [NoCall EXCEPT !.pc = "reading", !.page = page] \in Call
    BY <2>2, NoCallOK DEF Call, NoCall
  <2>4. Suspend(c, [NoCall EXCEPT !.pc = "reading", !.page = page])
    BY <1>10 DEF StartReadAll
  <2> HIDE DEF page
  <2> QED
    BY <1>1, <1>2, <1>10, <2>3, <2>4, SuspendOK DEF StartReadAll
<1>11. ASSUME NEW c \in Callers, FinishReadAll(c)
       PROVE  Goal
  BY <1>1, <1>2, <1>11, NoCallOK, SuspendOK DEF FinishReadAll
<1>12. ASSUME NotifyObservers \/ Dispose \/ ClearStreams \/ Tick
       PROVE  Goal
  BY <1>1, <1>12 DEF NotifyObservers, Dispose, ClearStreams, Tick, Goal
<1>13. Goal
  BY <1>3, <1>4, <1>5, <1>6, <1>7, <1>8, <1>9, <1>10, <1>11, <1>12 DEF Next
<1> QED
  BY <1>13 DEF Goal

-----------------------------------------------------------------------------
(***************************************************************************)
(* The invariant is inductive.                                             *)
(***************************************************************************)
LEMMA InitGood == Init => StoreGood
<1> SUFFICES ASSUME Init PROVE StoreGood
  OBVIOUS
<1>1. RestOK
  <2>1. calls = [c \in Callers |-> NoCall] /\ NoCall \in Call
    BY NoCallOK DEF Init
  <2>2. calls \in [Callers -> Call]
    BY <2>1
  <2>3. disposal = "open" /\ globalHeadPosition = -1 /\ notifying = FALSE /\ now = 0
    BY DEF Init
  <2>4. -1 \in Int /\ -1 >= -1 /\ 0 \in Nat
    OBVIOUS
  <2> QED
    BY <2>2, <2>3, <2>4 DEF RestOK
<1>2. DOMAIN streamMap = {} /\ inMemoryAllStream = << >> /\ globalHeadPosition = -1
  BY DEF Init
<1>3. MapGood(streamMap, globalHeadPosition) /\ Merged(streamMap, inMemoryAllStream)
  BY <1>2, NoFunction DEF MapGood, Merged
<1>4. AllGood(inMemoryAllStream, globalHeadPosition)
  BY <1>2, NoFunction DEF AllGood
<1> QED
  BY <1>1, <1>3, <1>4 DEF StoreGood

\* A write to the streams as they are, or as deleteStream has left them.
LEMMA WritesGood ==
  ASSUME RestOK, NEW map, MapGood(map, globalHeadPosition),
         NEW all, AllGood(all, globalHeadPosition), Writes(map, all)
  PROVE  /\ globalHeadPosition' \in Int /\ globalHeadPosition' >= -1
         /\ MapGood(streamMap', globalHeadPosition')
         /\ AllGood(inMemoryAllStream', globalHeadPosition')
         /\ Merged(map, all) => Merged(streamMap', inMemoryAllStream')
<1>1. PICK s \in AllStreams, data \in Policy : \E ids :
        /\ Ids(ids)
        /\ CanWrite(StreamIn(map, s), ExpectedVersionAny, ids)
        /\ WriteTo(map, all, s, ids, data)
  BY DEF Writes
<1>2. PICK ids :
        /\ Ids(ids)
        /\ CanWrite(StreamIn(map, s), ExpectedVersionAny, ids)
        /\ WriteTo(map, all, s, ids, data)
  BY <1>1
<1> QED
  BY <1>2, WriteToGood

LEMMA StepGood ==
  ASSUME StoreGood, [Next]_vars
  PROVE  StoreGood'
<1>1. CASE UNCHANGED vars
  BY <1>1 DEF vars, StoreGood, RestOK, MapGood, AllGood, Merged, StreamGood
<1>2. CASE Next
  <2>1. /\ RestOK /\ MapGood(streamMap, globalHeadPosition)
        /\ AllGood(inMemoryAllStream, globalHeadPosition)
        /\ disposal # "disposed" => Merged(streamMap, inMemoryAllStream)
        /\ globalHeadPosition \in Int /\ globalHeadPosition >= -1
    BY DEF StoreGood, RestOK
  <2>2. /\ disposal' \in {"open", "disposing", "disposed"}
        /\ disposal' = disposal \/ Dispose \/ ClearStreams
        /\ now' \in Nat /\ calls' \in [Callers -> Call] /\ notifying' \in BOOLEAN
    BY <1>2, StepRest, StepEffect
  <2>3. disposal' # "disposed" => disposal # "disposed"
    BY <2>2 DEF Dispose, ClearStreams
  <2> DEFINE Containers ==
               /\ globalHeadPosition' \in Int /\ globalHeadPosition' >= -1
               /\ MapGood(streamMap', globalHeadPosition')
               /\ AllGood(inMemoryAllStream', globalHeadPosition')
               /\ disposal' # "disposed" => Merged(streamMap', inMemoryAllStream')
  <2>4. Containers
    <3>1. CASE UNCHANGED <<streamMap, inMemoryAllStream, globalHeadPosition>>
      BY <2>1, <2>3, <3>1
    <3>2. ASSUME NEW s \in AllStreams, Touch(s)
          PROVE  Containers
      <4>1. UNCHANGED globalHeadPosition
        BY <3>2 DEF Touch
      <4> QED
        BY <2>1, <2>3, <3>2, <4>1, TouchGood
    <3>3. ASSUME NEW keys, Delete(keys)
          PROVE  Containers
      <4>1. UNCHANGED globalHeadPosition
        BY <3>3 DEF Delete
      <4> QED
        BY <2>1, <2>3, <3>3, <4>1, DeleteGood
    <3>4. CASE Writes(streamMap, inMemoryAllStream)
      BY <2>1, <2>3, <3>4, WritesGood
    <3>5. CASE DeletesAndWrites
      <4>1. PICK gone : Writes(Spliced(streamMap, gone), Without(inMemoryAllStream, gone))
        BY <3>5 DEF DeletesAndWrites
      <4>2. /\ MapGood(Spliced(streamMap, gone), globalHeadPosition)
            /\ AllGood(Without(inMemoryAllStream, gone), globalHeadPosition)
        BY <2>1, SplicedGood, WithoutGood
      <4>3. disposal # "disposed" =>
              Merged(Spliced(streamMap, gone), Without(inMemoryAllStream, gone))
        BY <2>1, SplicedMerged
      <4> QED
        BY <2>1, <2>3, <4>1, <4>2, <4>3, WritesGood
    <3>6. CASE ClearStreams
      <4>1. /\ streamMap' = << >> /\ disposal' = "disposed"
            /\ UNCHANGED <<globalHeadPosition, inMemoryAllStream>>
        BY <3>6 DEF ClearStreams
      <4>2. MapGood(streamMap', globalHeadPosition')
        BY <4>1, NoFunction DEF MapGood
      <4> QED
        BY <2>1, <4>1, <4>2
    <3>7. Effect
      BY <1>2, StepEffect
    <3> HIDE DEF Containers
    <3> QED
      BY <3>1, <3>2, <3>3, <3>4, <3>5, <3>6, <3>7, Zenon DEF Effect
  <2> QED
    BY <2>2, <2>4 DEF StoreGood, RestOK
<1> QED
  BY <1>1, <1>2

\* The inductive invariant holds of every behaviour.
THEOREM Invariance == Spec => []IInv
<1>1. Init => IInv
  BY InitGood, IInvIsStoreGood
<1>2. IInv /\ [Next]_vars => IInv'
  BY StepGood, IInvIsStoreGood, PrimedIInvIsStoreGood
<1> QED
  BY <1>1, <1>2, PTL DEF Spec

\* Every variable has its type, whatever the calls do.
THEOREM TypeCorrect == Spec => []TypeOK
BY Invariance, PTL DEF IInv

\* Every stream stays in the order of its versions and positions, and the
\* all-stream in that of the positions.
THEOREM StaysInOrder == Spec => []InOrder
<1>1. IInv => InOrder
  BY DEF IInv, InOrder
<1> QED
  BY <1>1, Invariance, PTL

\* No interleaving makes the all-stream and the streams disagree.
THEOREM AllStreamStaysTheMerge == Spec => []AllStreamIsTheMerge
BY Invariance, PTL DEF IInv

\* messageMap finds exactly the messages of its stream, if no batch repeats an
\* id: without that, a message that cannot be found cannot be deleted.
THEOREM IndexStaysExact ==
  ASSUME DistinctBatches
  PROVE  Spec => []IndexIsExact
<1>1. IInv => IndexIsExact
  BY DEF IInv
<1> QED
  BY <1>1, Invariance, PTL

-----------------------------------------------------------------------------
(***************************************************************************)
(* No version and no position is given out twice, and the store implements *)
(* EventLog.                                                               *)
(***************************************************************************)

\* What a write adds to the streams it starts from is newer than all of them.
LEMMA WritesFresh ==
  ASSUME RestOK, NEW map, MapGood(map, globalHeadPosition),
         NEW all, AllGood(all, globalHeadPosition), Writes(map, all), NEW t \in DOMAIN map
  PROVE  /\ t \in DOMAIN streamMap'
         /\ streamMap'[t].streamVersion >= map[t].streamVersion
         /\ \A m \in Elements(streamMap'[t].messages) \ Elements(map[t].messages) :
              m.streamVersion > map[t].streamVersion /\ m.position > globalHeadPosition
<1>1. PICK s \in AllStreams, data \in Policy : \E ids :
        /\ Ids(ids)
        /\ CanWrite(StreamIn(map, s), ExpectedVersionAny, ids)
        /\ WriteTo(map, all, s, ids, data)
  BY DEF Writes
<1>2. PICK ids :
        /\ Ids(ids)
        /\ CanWrite(StreamIn(map, s), ExpectedVersionAny, ids)
        /\ WriteTo(map, all, s, ids, data)
  BY <1>1
<1> DEFINE new == NewMessages(map, s, ids, data)
           N == Len(ids)
<1>3. /\ N \in Nat /\ DOMAIN new = 1 .. N
      /\ \A i \in 1 .. N : /\ new[i].streamVersion = StreamIn(map, s).streamVersion + i
                           /\ new[i].position = globalHeadPosition + i
  BY <1>2, NewMessagesGood
<1>4. /\ DOMAIN streamMap' = DOMAIN map \cup {s}
      /\ \A u \in DOMAIN map \ {s} : streamMap'[u] = map[u]
      /\ streamMap'[s].streamVersion = StreamIn(map, s).streamVersion + N
      /\ Elements(streamMap'[s].messages) = Elements(StreamIn(map, s).messages) \cup Elements(new)
  <2> DEFINE appended == Appended(StreamIn(map, s), new)
  <2>1. streamMap' = [u \in DOMAIN map \cup {s} |-> IF u = s THEN appended ELSE map[u]]
    BY <1>2 DEF WriteTo, Put
  <2>2. /\ appended.streamVersion = StreamIn(map, s).streamVersion + N
        /\ Elements(appended.messages) = Elements(StreamIn(map, s).messages) \cup Elements(new)
    BY <1>2, AppendedGood DEF CanWrite
  <2> HIDE DEF appended, new, N
  <2> QED
    BY <2>1, <2>2
<1> HIDE DEF new, N
<1>5. map[t].streamVersion \in Int /\ globalHeadPosition \in Int
  BY DEF MapGood, StreamGood, StreamOK, RestOK
<1>6. CASE t # s
  BY <1>4, <1>5, <1>6
<1>7. CASE t = s
  <2>1. StreamIn(map, s) = map[t]
    BY <1>7 DEF StreamIn
  <2>2. ASSUME NEW m \in Elements(streamMap'[t].messages) \ Elements(map[t].messages)
        PROVE  m.streamVersion > map[t].streamVersion /\ m.position > globalHeadPosition
    <3>1. m \in Elements(new)
      BY <1>4, <1>7, <2>1, <2>2
    <3>2. PICK i \in 1 .. N : m = new[i]
      BY <1>3, <3>1 DEF Elements
    <3>3. /\ m.streamVersion = map[t].streamVersion + i
          /\ m.position = globalHeadPosition + i
      BY <1>3, <2>1, <3>2
    <3> QED
      BY <1>3, <1>5, <3>3
  <2>3. streamMap'[t].streamVersion = map[t].streamVersion + N
    BY <1>4, <1>7, <2>1
  <2> QED
    BY <1>3, <1>4, <1>5, <2>2, <2>3
<1> QED
  BY <1>6, <1>7

LEMMA StepNeverReassigns ==
  ASSUME StoreGood, Next, NEW t \in DOMAIN streamMap \cap DOMAIN streamMap'
  PROVE  /\ streamMap'[t].streamVersion >= streamMap[t].streamVersion
         /\ \A m \in Elements(streamMap'[t].messages) \ Elements(streamMap[t].messages) :
              m.streamVersion > streamMap[t].streamVersion /\ m.position > globalHeadPosition
<1> DEFINE Goal ==
             /\ streamMap'[t].streamVersion >= streamMap[t].streamVersion
             /\ \A m \in Elements(streamMap'[t].messages) \ Elements(streamMap[t].messages) :
                  m.streamVersion > streamMap[t].streamVersion /\ m.position > globalHeadPosition
<1>1. /\ RestOK /\ MapGood(streamMap, globalHeadPosition)
      /\ AllGood(inMemoryAllStream, globalHeadPosition)
      /\ streamMap[t].streamVersion \in Int
  BY DEF StoreGood, MapGood, StreamGood, StreamOK
<1>2. ASSUME streamMap'[t].streamVersion = streamMap[t].streamVersion,
             Elements(streamMap'[t].messages) \subseteq Elements(streamMap[t].messages)
      PROVE  Goal
  BY <1>1, <1>2
<1>3. ASSUME UNCHANGED <<streamMap, inMemoryAllStream, globalHeadPosition>>
      PROVE  Goal
  BY <1>2, <1>3
<1>4. ASSUME NEW s \in AllStreams, Touch(s)
      PROVE  Goal
  <2>1. streamMap'[t] = streamMap[t]
    BY <1>4, TouchGood
  <2> QED
    BY <1>2, <2>1
<1>5. ASSUME NEW keys, Delete(keys)
      PROVE  Goal
  BY <1>2, <1>5, DeleteGood
<1>6. ASSUME Writes(streamMap, inMemoryAllStream)
      PROVE  Goal
  BY <1>1, <1>6, WritesFresh
<1>7. ASSUME DeletesAndWrites
      PROVE  Goal
  <2>1. PICK gone : Writes(Spliced(streamMap, gone), Without(inMemoryAllStream, gone))
    BY <1>7 DEF DeletesAndWrites
  <2> DEFINE kept == Spliced(streamMap, gone)
             left == Without(inMemoryAllStream, gone)
  <2>2. /\ MapGood(kept, globalHeadPosition) /\ AllGood(left, globalHeadPosition)
        /\ t \in DOMAIN kept
        /\ kept[t].streamVersion = streamMap[t].streamVersion
        /\ Elements(kept[t].messages) = Elements(streamMap[t].messages) \ gone
    <3>1. AllGood(left, globalHeadPosition)
      BY <1>1, WithoutGood
    <3>2. t \in DOMAIN streamMap
      OBVIOUS
    <3>3. MapGood(kept, globalHeadPosition) /\ DOMAIN kept = DOMAIN streamMap
      BY <1>1, SplicedGood
    <3>4. /\ kept[t].streamVersion = streamMap[t].streamVersion
          /\ Elements(kept[t].messages) = Elements(streamMap[t].messages) \ gone
      BY <1>1, <3>2, SplicedGood
    <3> QED
      BY <3>1, <3>2, <3>3, <3>4
  <2> HIDE DEF kept
  <2>3. /\ streamMap'[t].streamVersion >= kept[t].streamVersion
        /\ \A m \in Elements(streamMap'[t].messages) \ Elements(kept[t].messages) :
             m.streamVersion > kept[t].streamVersion /\ m.position > globalHeadPosition
    BY <1>1, <2>1, <2>2, WritesFresh DEF kept
  <2> QED
    BY <2>2, <2>3
<1>8. ASSUME ClearStreams
      PROVE  Goal
  <2>1. DOMAIN streamMap' = {}
    BY <1>8, NoFunction DEF ClearStreams
  <2> QED
    BY <2>1
<1>9. Effect
  BY StepEffect
<1> HIDE DEF Goal
<1>10. Goal
  BY <1>3, <1>4, <1>5, <1>6, <1>7, <1>8, <1>9, Zenon DEF Effect
<1> QED
  BY <1>10 DEF Goal

\* A version or a position is given out once, whatever is deleted in between.
THEOREM NeverReassigned == Spec => VersionsNeverReassigned
<1>1. IInv /\ [Next]_vars =>
        [\A s \in DOMAIN streamMap \cap DOMAIN streamMap' :
           /\ streamMap'[s].streamVersion >= streamMap[s].streamVersion
           /\ \A m \in Elements(streamMap'[s].messages) \ Elements(streamMap[s].messages) :
                /\ m.streamVersion > streamMap[s].streamVersion
                /\ m.position > globalHeadPosition]_vars
  BY IInvIsStoreGood, StepNeverReassigns
<1> QED
  BY <1>1, Invariance, PTL DEF Spec, VersionsNeverReassigned

-----------------------------------------------------------------------------
(***************************************************************************)
(* The event log.                                                          *)
(***************************************************************************)

\* A write is a batch appended to the log, from the streams as they are or as
\* deleteStream has left them.
LEMMA WritesAppendBatch ==
  ASSUME DistinctBatches, RestOK, disposal = "open", disposal' = "open",
         AllGood(inMemoryAllStream, globalHeadPosition),
         NEW map, MapGood(map, globalHeadPosition),
         NEW all, AllGood(all, globalHeadPosition), Merged(map, all),
         \A t \in AllStreams : StreamIn(map, t).streamVersion = StreamIn(streamMap, t).streamVersion,
         Elements(all) \subseteq Elements(inMemoryAllStream),
         Writes(map, all)
  PROVE  \E s \in AllStreams : Log!AppendBatch(s)
<1>1. PICK s \in AllStreams, data \in Policy : \E ids :
        /\ Ids(ids)
        /\ CanWrite(StreamIn(map, s), ExpectedVersionAny, ids)
        /\ WriteTo(map, all, s, ids, data)
  BY DEF Writes
<1>2. PICK ids :
        /\ Ids(ids)
        /\ CanWrite(StreamIn(map, s), ExpectedVersionAny, ids)
        /\ WriteTo(map, all, s, ids, data)
  BY <1>1
<1> DEFINE new == NewMessages(map, s, ids, data)
           N == Len(ids)
           V == StreamIn(map, s).streamVersion
           version == [t \in AllStreams |-> StreamIn(streamMap, t).streamVersion]
           live == Elements(inMemoryAllStream)
           fresh == Elements(new)
<1>3. /\ N \in Nat /\ DOMAIN new = 1 .. N
      /\ \A i \in 1 .. N : /\ new[i].streamId = s
                           /\ new[i].messageId = ids[i]
                           /\ new[i].streamVersion = V + i
                           /\ new[i].position = globalHeadPosition + i
  BY <1>2, NewMessagesGood
<1>4. DOMAIN ids = 1 .. N /\ \A i, j \in 1 .. N : i # j => ids[i] # ids[j]
  BY <1>2, LenProperties DEF Ids
<1>5. V \in Int /\ globalHeadPosition \in Int
  BY StreamInGood DEF RestOK, StreamGood, StreamOK
<1>6. version' = [version EXCEPT ![s] = V + N]
  <2> DEFINE appended == Appended(StreamIn(map, s), new)
  <2>1. streamMap' = [u \in DOMAIN map \cup {s} |-> IF u = s THEN appended ELSE map[u]]
    BY <1>2 DEF WriteTo, Put
  <2>2. appended.streamVersion = V + N
    BY <1>2, AppendedGood DEF CanWrite
  <2> HIDE DEF appended, new, N, V
  <2>3. StreamIn(streamMap', s).streamVersion = V + N
    BY <2>1, <2>2 DEF StreamIn
  <2>4. \A t \in AllStreams \ {s} : StreamIn(streamMap', t) = StreamIn(map, t)
    BY <2>1 DEF StreamIn
  <2> QED
    BY <2>3, <2>4
<1>7. live' = Elements(all) \cup fresh
  BY <1>2, PushedGood DEF WriteTo
<1>8. version[s] = V
  OBVIOUS
<1> HIDE DEF new, N, V, version, fresh
<1>9. \A m \in live : m.position \in Nat /\ m.position <= globalHeadPosition
  <2> SUFFICES ASSUME NEW i \in DOMAIN inMemoryAllStream
               PROVE  /\ inMemoryAllStream[i].position \in Nat
                      /\ inMemoryAllStream[i].position <= globalHeadPosition
    BY DEF Elements
  <2>1. inMemoryAllStream[i] \in Message
    BY ElementOfSeq, LenProperties DEF AllGood
  <2> QED
    BY <2>1 DEF AllGood, Message
<1>10. \A m \in fresh : \E i \in 1 .. N : m = new[i]
  BY <1>3 DEF fresh, Elements
<1>11. \A m \in fresh : m.position > globalHeadPosition
  <2> SUFFICES ASSUME NEW i \in 1 .. N PROVE new[i].position > globalHeadPosition
    BY <1>10
  <2> QED
    BY <1>3, <1>5
<1>12. live' \ live = fresh /\ live \cap live' = Elements(all)
  <2>1. \A m \in fresh : m \notin live
    <3> SUFFICES ASSUME NEW m \in fresh, m \in live PROVE FALSE
      OBVIOUS
    <3> QED
      BY <1>5, <1>9, <1>11
  <2> HIDE DEF live
  <2>2. Elements(all) \subseteq live
    BY DEF live
  <2> QED
    BY <1>7, <2>1, <2>2
<1>13. version[s] = V /\ version'[s] = V + N /\ version' = [version EXCEPT ![s] = version'[s]]
  <2>1. s \in DOMAIN version
    BY DEF version
  <2> QED
    BY <1>6, <1>8, <2>1
<1>14. {m.streamVersion : m \in fresh} = V + 1 .. V + N
  <2>1. ASSUME NEW m \in fresh PROVE m.streamVersion \in V + 1 .. V + N
    <3>1. PICK i \in 1 .. N : m = new[i]
      BY <1>10
    <3> QED
      BY <1>3, <1>5, <3>1
  <2>2. ASSUME NEW v \in V + 1 .. V + N PROVE \E m \in fresh : m.streamVersion = v
    <3>1. v - V \in 1 .. N /\ V + (v - V) = v
      BY <1>3, <1>5
    <3>2. new[v - V] \in fresh /\ new[v - V].streamVersion = v
      BY <1>3, <3>1 DEF fresh, Elements
    <3> QED
      BY <3>2
  <2> QED
    BY <2>1, <2>2
<1>15. ASSUME NEW m \in fresh, NEW k \in fresh \ {m}
       PROVE  /\ k.streamVersion # m.streamVersion
              /\ k.messageId # m.messageId
              /\ k.streamVersion < m.streamVersion => k.position < m.position
  <2>1. PICK i \in 1 .. N : m = new[i]
    BY <1>10
  <2>2. PICK j \in 1 .. N : k = new[j]
    BY <1>10
  <2>3. i # j
    BY <2>1, <2>2
  <2>4. /\ m.streamVersion = V + i /\ k.streamVersion = V + j
        /\ m.position = globalHeadPosition + i /\ k.position = globalHeadPosition + j
        /\ m.messageId = ids[i] /\ k.messageId = ids[j]
    BY <1>3, <2>1, <2>2
  <2>5. k.messageId # m.messageId
    BY <1>4, <2>3, <2>4
  <2>6. i \in Int /\ j \in Int
    OBVIOUS
  <2> QED
    BY <1>5, <2>3, <2>4, <2>5, <2>6
<1>16. ASSUME NEW m \in fresh, NEW k \in Elements(all)
       PROVE  /\ k.position # m.position
              /\ k.streamId = s => k.messageId # m.messageId
  <2>1. k.position # m.position
    <3>1. k \in live
      OBVIOUS
    <3>2. k.position \in Nat /\ k.position <= globalHeadPosition /\ m.position > globalHeadPosition
      BY <1>9, <1>11, <3>1
    <3> QED
      BY <1>5, <3>2
  <2>2. ASSUME k.streamId = s
        PROVE  k.messageId # m.messageId
    <3>1. PICK t \in DOMAIN map : k \in Elements(map[t].messages)
      BY DEF Merged
    <3>2. StreamGood(t, map[t], globalHeadPosition)
      BY DEF MapGood
    <3>3. k.streamId = t /\ k.messageId \in DOMAIN map[t].messageMap
      BY <3>1, <3>2 DEF StreamGood, MessagesOf, Indexed, Elements
    <3>4. k.messageId \in DOMAIN StreamIn(map, s).messageMap
      BY <2>2, <3>3 DEF StreamIn
    <3>5. PICK i \in 1 .. N : m = new[i]
      BY <1>10
    <3>6. m.messageId \notin DOMAIN StreamIn(map, s).messageMap
      BY <1>2, <1>3, <1>4, <3>5 DEF CanWrite
    <3> QED
      BY <3>4, <3>6
  <2> QED
    BY <2>1, <2>2
<1>17. \A m \in fresh : m.streamId = s
  BY <1>3, <1>10
<1> HIDE DEF live
<1>18. /\ {m.streamVersion : m \in live' \ live} = version[s] + 1 .. version'[s]
       /\ \A m \in live' \ live :
            /\ m.streamId = s
            /\ \A k \in (live' \ live) \ {m} :
                 /\ k.streamVersion # m.streamVersion
                 /\ k.messageId # m.messageId
                 /\ k.streamVersion < m.streamVersion => k.position < m.position
            /\ \A k \in live \cap live' :
                 /\ k.position # m.position
                 /\ k.streamId = s => k.messageId # m.messageId
  BY <1>12, <1>13, <1>14, <1>15, <1>16, <1>17
<1>19. version[s] <= version'[s]
  BY <1>3, <1>5, <1>13
<1>20. Log!IsBatch(s, live' \ live)
  BY <1>18, Zenon DEF Log!IsBatch, version, live
<1>21. Log!AppendBatch(s)
  BY <1>13, <1>19, <1>20 DEF Log!AppendBatch, version, live
<1> QED
  BY <1>21

\* While the store is open, a step keeps the versions and removes messages, or
\* appends a batch.
LEMMA OpenStepLogs ==
  ASSUME DistinctBatches, StoreGood, Next, disposal = "open", disposal' = "open"
  PROVE  Log!Remove \/ \E s \in AllStreams : Log!AppendBatch(s)
<1> DEFINE Goal == Log!Remove \/ \E s \in AllStreams : Log!AppendBatch(s)
<1>1. /\ RestOK /\ MapGood(streamMap, globalHeadPosition)
      /\ AllGood(inMemoryAllStream, globalHeadPosition)
      /\ Merged(streamMap, inMemoryAllStream)
  BY DEF StoreGood
<1>2. ASSUME Elements(inMemoryAllStream') \subseteq Elements(inMemoryAllStream),
             \A t \in AllStreams :
               StreamIn(streamMap', t).streamVersion = StreamIn(streamMap, t).streamVersion
      PROVE  Goal
  <2>1. [t \in AllStreams |-> StreamIn(streamMap', t).streamVersion]
          = [t \in AllStreams |-> StreamIn(streamMap, t).streamVersion]
    BY <1>2
  <2> QED
    BY <1>2, <2>1 DEF Log!Remove
<1>3. ASSUME UNCHANGED <<streamMap, inMemoryAllStream, globalHeadPosition>>
      PROVE  Goal
  BY <1>2, <1>3
<1>4. ASSUME NEW s \in AllStreams, Touch(s)
      PROVE  Goal
  <2>1. inMemoryAllStream' = inMemoryAllStream
    BY <1>4 DEF Touch
  <2>2. \A t \in AllStreams : StreamIn(streamMap', t) = StreamIn(streamMap, t)
    BY <1>4, TouchGood
  <2> QED
    BY <1>2, <2>1, <2>2
<1>5. ASSUME NEW keys, Delete(keys)
      PROVE  Goal
  <2>1. /\ DOMAIN streamMap' = DOMAIN streamMap
        /\ \A t \in DOMAIN streamMap : streamMap'[t].streamVersion = streamMap[t].streamVersion
        /\ Elements(inMemoryAllStream') \subseteq Elements(inMemoryAllStream)
    BY <1>5, DeleteGood
  <2>2. \A t \in AllStreams :
          StreamIn(streamMap', t).streamVersion = StreamIn(streamMap, t).streamVersion
    BY <2>1 DEF StreamIn
  <2> QED
    BY <1>2, <2>1, <2>2
<1>6. ASSUME Writes(streamMap, inMemoryAllStream)
      PROVE  Goal
  BY <1>1, <1>6, WritesAppendBatch
<1>7. ASSUME DeletesAndWrites
      PROVE  Goal
  <2>1. PICK gone : Writes(Spliced(streamMap, gone), Without(inMemoryAllStream, gone))
    BY <1>7 DEF DeletesAndWrites
  <2> DEFINE kept == Spliced(streamMap, gone)
             left == Without(inMemoryAllStream, gone)
  <2>2. AllGood(left, globalHeadPosition) /\ Merged(kept, left)
    BY <1>1, WithoutGood, SplicedMerged
  <2>3. /\ MapGood(kept, globalHeadPosition)
        /\ DOMAIN kept = DOMAIN streamMap
        /\ \A t \in DOMAIN streamMap : kept[t].streamVersion = streamMap[t].streamVersion
    BY <1>1, SplicedGood
  <2>4. Elements(left) \subseteq Elements(inMemoryAllStream)
    BY <1>1, WithoutProperties DEF AllGood
  <2> HIDE DEF kept, left
  <2>5. \A t \in AllStreams : StreamIn(kept, t).streamVersion = StreamIn(streamMap, t).streamVersion
    BY <2>3 DEF StreamIn
  <2>6. Writes(kept, left)
    BY <2>1 DEF kept, left
  <2> QED
    BY <1>1, <2>2, <2>3, <2>4, <2>5, <2>6, WritesAppendBatch
<1>8. ASSUME ClearStreams
      PROVE  Goal
  BY <1>8 DEF ClearStreams
<1>9. Effect
  BY StepEffect
<1> HIDE DEF Goal
<1>10. Goal
  BY <1>3, <1>4, <1>5, <1>6, <1>7, <1>8, <1>9, Zenon DEF Effect
<1> QED
  BY <1>10 DEF Goal

LEMMA StepLogs ==
  ASSUME DistinctBatches, StoreGood, [Next]_vars
  PROVE  [Log!Next]_(Log!vars)
<1>1. CASE UNCHANGED vars
  BY <1>1 DEF vars, Log!vars
<1>2. CASE Next
  <2>1. disposal' = disposal \/ Dispose \/ ClearStreams
    BY <1>2, StepRest
  <2>2. CASE disposal = "open" /\ disposal' = "open"
    BY <1>2, <2>2, OpenStepLogs DEF Log!Next
  <2>3. CASE Dispose
    <3>1. Log!Close
      BY <2>3 DEF Dispose, Log!Close
    <3> QED
      BY <3>1 DEF Log!Next
  <2>4. CASE disposal # "open" /\ disposal' # "open"
    <3>1. Log!Closed
      BY <2>4 DEF Log!Closed
    <3> QED
      BY <3>1 DEF Log!Next
  <2> QED
    BY <2>1, <2>2, <2>3, <2>4 DEF ClearStreams
<1> QED
  BY <1>1, <1>2

\* The in-memory store implements the event log, if no batch repeats an id.
THEOREM Implements ==
  ASSUME DistinctBatches
  PROVE  Spec => ImplementsEventLog
<1>1. Init => Log!Init
  <2> SUFFICES ASSUME Init PROVE Log!Init
    OBVIOUS
  <2>1. disposal = "open" /\ DOMAIN streamMap = {} /\ Elements(inMemoryAllStream) = {}
    BY NoFunction DEF Init
  <2>2. \A t \in AllStreams : StreamIn(streamMap, t).streamVersion = -1
    BY <2>1 DEF StreamIn, NewStream
  <2> QED
    BY <2>1, <2>2 DEF Log!Init
<1>2. IInv /\ [Next]_vars => [Log!Next]_(Log!vars)
  BY IInvIsStoreGood, StepLogs
<1> QED
  BY <1>1, <1>2, Invariance, PTL DEF Spec, ImplementsEventLog, Log!Spec

-----------------------------------------------------------------------------
(***************************************************************************)
(* Retries                                                                 *)
(***************************************************************************)

\* A stream with as many messages as versions has one of each version.
LEMMA NoneMissing ==
  ASSUME NEW stream, StreamOK(stream), MessagesOrdered(stream.messages),
         \A i \in DOMAIN stream.messages : stream.messages[i].streamVersion <= stream.streamVersion,
         Len(stream.messages) = stream.streamVersion + 1
  PROVE  \A i \in 1 .. Len(stream.messages) : stream.messages[i].streamVersion = i - 1
<1> DEFINE messages == stream.messages
           L == Len(messages)
           h == [i \in 1 .. L |-> messages[i].streamVersion + 1]
<1>1. L \in Nat /\ DOMAIN messages = 1 .. L /\ stream.streamVersion = L - 1
  BY LenProperties DEF StreamOK
<1>2. \A i \in 1 .. L : messages[i].streamVersion \in Nat /\ messages[i].streamVersion <= L - 1
  <2>1. \A i \in 1 .. L : messages[i] \in Message
    BY ElementOfSeq DEF StreamOK
  <2> QED
    BY <1>1, <2>1 DEF Message
<1>3. \A m, n \in 1 .. L : m < n => messages[m].streamVersion < messages[n].streamVersion
  BY <1>1 DEF MessagesOrdered
<1> HIDE DEF L, messages
<1>4. h \in [1 .. L -> 1 .. L]
  BY <1>1, <1>2
<1>5. \A m, n \in 1 .. L : m < n => h[m] < h[n]
  BY <1>2, <1>3
<1>6. ASSUME NEW i \in 1 .. L PROVE messages[i].streamVersion = i - 1
  <2>1. i <= h[i] /\ L - i <= L - h[i]
    BY <1>1, <1>4, <1>5, IncreasingLeavesRoom
  <2>2. h[i] = messages[i].streamVersion + 1
    OBVIOUS
  <2> QED
    BY <1>1, <1>2, <2>1, <2>2
<1> QED
  BY <1>6 DEF L, messages

\* In such a stream the array is compared from the right index on.
LEMMA WrittenIsSameIds ==
  ASSUME NEW stream, StreamOK(stream),
         \A i \in 1 .. Len(stream.messages) : stream.messages[i].streamVersion = i - 1,
         NEW ids, NEW N \in Nat, N # 0, Len(ids) = N, DOMAIN ids = 1 .. N,
         NEW v \in Nat, v <= Len(stream.messages)
  PROVE  WrittenAt(stream, v, ids) <=> SameIdsAt(stream, v + 1, ids)
<1> DEFINE messages == stream.messages
           L == Len(messages)
<1>1. L \in Nat /\ DOMAIN messages = 1 .. L
  BY LenProperties DEF StreamOK
<1> HIDE DEF L, messages
<1>2. \A i \in 1 .. L : messages[i].streamVersion = i - 1
  BY DEF L, messages
<1>3. WrittenAt(stream, v, ids) <=>
        \A i \in 1 .. N : \E k \in 1 .. L : messages[k].messageId = ids[i] /\ messages[k].streamVersion = v + i - 1
  BY <1>1 DEF WrittenAt, Elements, messages
<1>4. \A i \in 1 .. N, k \in 1 .. L : messages[k].streamVersion = v + i - 1 <=> k = v + i
  BY <1>1, <1>2
<1>5. SameIdsAt(stream, v + 1, ids) <=>
        v + 1 + N - 1 <= L /\ \A i \in 1 .. N : messages[v + 1 + i - 1].messageId = ids[i]
  BY DEF SameIdsAt, L, messages
<1>6. \A i \in 1 .. N : v + 1 + i - 1 = v + i
  OBVIOUS
<1>7. ASSUME WrittenAt(stream, v, ids) PROVE SameIdsAt(stream, v + 1, ids)
  <2>1. \A i \in 1 .. N : v + i \in 1 .. L /\ messages[v + i].messageId = ids[i]
    BY <1>3, <1>4, <1>7
  <2>2. v + 1 + N - 1 <= L
    <3>1. N \in 1 .. N
      OBVIOUS
    <3>2. v + N \in 1 .. L
      BY <2>1, <3>1
    <3> QED
      BY <1>1, <3>2
  <2>3. \A i \in 1 .. N : messages[v + 1 + i - 1].messageId = ids[i]
    BY <1>6, <2>1
  <2> QED
    BY <1>5, <2>2, <2>3
<1>8. ASSUME SameIdsAt(stream, v + 1, ids) PROVE WrittenAt(stream, v, ids)
  <2>1. \A i \in 1 .. N : v + i \in 1 .. L /\ messages[v + i].messageId = ids[i]
    BY <1>1, <1>5, <1>6, <1>8
  <2> QED
    BY <1>3, <1>4, <2>1
<1> QED
  BY <1>7, <1>8

\* RetriesAreRecognised, of any stream that is in order and indexed.
LEMMA RetriesOf ==
  ASSUME NEW stream, StreamOK(stream), MessagesOrdered(stream.messages), Indexed(stream),
         \A i \in DOMAIN stream.messages : stream.messages[i].streamVersion <= stream.streamVersion,
         Len(stream.messages) = stream.streamVersion + 1,
         NEW ids \in Seq(MessageIds), ids # << >>
  PROVE  /\ IsReplay(stream, ExpectedVersionAny, ids) <=>
              \E v \in 0 .. stream.streamVersion : WrittenAt(stream, v, ids)
         /\ \A e \in ExpectedVersionEmpty .. stream.streamVersion :
              IsReplay(stream, e, ids) <=> WrittenAt(stream, e + 1, ids)
<1> DEFINE messages == stream.messages
           L == Len(messages)
           N == Len(ids)
<1>1. /\ L \in Nat /\ DOMAIN messages = 1 .. L /\ stream.streamVersion = L - 1
      /\ N \in Nat /\ N # 0 /\ DOMAIN ids = 1 .. N
  BY LenProperties, EmptySeq DEF StreamOK
<1>2. \A i \in 1 .. L : messages[i].streamVersion = i - 1
  BY NoneMissing
<1>3. \A v \in Nat : v <= L => (WrittenAt(stream, v, ids) <=> SameIdsAt(stream, v + 1, ids))
  BY <1>1, <1>2, WrittenIsSameIds
<1> HIDE DEF L, N, messages
<1>4. IsReplay(stream, ExpectedVersionAny, ids) <=>
        \E v \in 0 .. stream.streamVersion : WrittenAt(stream, v, ids)
  <2>1. IsReplay(stream, ExpectedVersionAny, ids) <=>
          /\ ids[1] \in DOMAIN stream.messageMap
          /\ \E start \in 1 .. L : /\ messages[start] = stream.messageMap[ids[1]]
                                   /\ SameIdsAt(stream, start, ids)
    BY <1>1 DEF IsReplay, ExpectedVersionAny, messages
  <2>2. ASSUME NEW start \in 1 .. L, SameIdsAt(stream, start, ids)
        PROVE  \E v \in 0 .. stream.streamVersion : WrittenAt(stream, v, ids)
    <3>1. start - 1 \in Nat /\ start - 1 <= L /\ start - 1 + 1 = start /\ start - 1 \in 0 .. stream.streamVersion
      BY <1>1
    <3> QED
      BY <1>3, <2>2, <3>1
  <2>3. ASSUME NEW v \in 0 .. stream.streamVersion, WrittenAt(stream, v, ids)
        PROVE  IsReplay(stream, ExpectedVersionAny, ids)
    <3>1. v \in Nat /\ v <= L /\ v + 1 \in 1 .. L
      BY <1>1
    <3>2. SameIdsAt(stream, v + 1, ids)
      BY <1>3, <2>3, <3>1
    <3>3. messages[v + 1].messageId = ids[1]
      <4>1. 1 \in 1 .. N /\ v + 1 + 1 - 1 = v + 1
        BY <1>1, <3>1
      <4> QED
        BY <1>1, <3>2, <4>1 DEF SameIdsAt, messages
    <3>4. ids[1] \in DOMAIN stream.messageMap /\ stream.messageMap[ids[1]] = messages[v + 1]
      BY <1>1, <3>1, <3>3 DEF Indexed, Elements, messages
    <3> QED
      BY <2>1, <3>1, <3>2, <3>4
  <2> QED
    BY <2>1, <2>2, <2>3
<1>5. ASSUME NEW e \in ExpectedVersionEmpty .. stream.streamVersion
      PROVE  IsReplay(stream, e, ids) <=> WrittenAt(stream, e + 1, ids)
  <2>1. e \in Int /\ e >= -1 /\ e <= L - 1 /\ e # ExpectedVersionAny /\ e + 1 \in Nat /\ e + 1 <= L
    BY <1>1 DEF ExpectedVersionEmpty, ExpectedVersionAny
  <2>2. WrittenAt(stream, e + 1, ids) <=> SameIdsAt(stream, e + 2, ids)
    BY <1>3, <2>1
  <2> DEFINE at == IF e = ExpectedVersionEmpty THEN 1 ELSE e + 1
  <2>3. at \in Nat /\ at >= 1 /\ (e = -1 => at = e + 2) /\ (e # -1 => at + 1 = e + 2)
    BY <2>1 DEF ExpectedVersionEmpty
  <2>4. \A start \in 1 .. L : IsFirstAt(stream, start, e) <=> start = at
    <3>1. ASSUME NEW start \in 1 .. L, start = at PROVE IsFirstAt(stream, start, e)
      <4>1. start - 1 >= e
        BY <2>1, <3>1 DEF ExpectedVersionEmpty
      <4>2. \A i \in 1 .. start - 1 : i \in 1 .. L /\ i - 1 < e
        BY <1>1, <2>1, <3>1 DEF ExpectedVersionEmpty
      <4> QED
        BY <1>2, <4>1, <4>2 DEF IsFirstAt, messages
    <3>2. ASSUME NEW start \in 1 .. L, IsFirstAt(stream, start, e) PROVE start = at
      <4>1. start - 1 >= e
        BY <1>2, <3>2 DEF IsFirstAt, messages
      <4>2. start > 1 => start - 2 < e
        <5> SUFFICES ASSUME start > 1 PROVE start - 2 < e
          OBVIOUS
        <5>1. start - 1 \in 1 .. start - 1 /\ start - 1 \in 1 .. L
          BY <1>1
        <5>2. messages[start - 1].streamVersion < e
          BY <3>2, <5>1 DEF IsFirstAt, messages
        <5>3. messages[start - 1].streamVersion = start - 1 - 1
          BY <1>2, <5>1
        <5> QED
          BY <5>1, <5>2, <5>3
      <4> QED
        BY <1>1, <2>1, <4>1, <4>2 DEF ExpectedVersionEmpty
    <3> QED
      BY <3>1, <3>2
  <2>5. IsReplay(stream, e, ids) <=>
          /\ e < stream.streamVersion
          /\ \E start \in 1 .. L :
               /\ IsFirstAt(stream, start, e)
               /\ SameIdsAt(stream, IF e = ExpectedVersionEmpty THEN start ELSE start + 1, ids)
    BY <1>1, <2>1 DEF IsReplay, messages
  <2>6. (IF e = ExpectedVersionEmpty THEN at ELSE at + 1) = e + 2
    BY <2>1, <2>3 DEF ExpectedVersionEmpty
  <2>7. CASE e < stream.streamVersion
    <3>1. at \in 1 .. L
      BY <1>1, <2>1, <2>3, <2>7
    <3> HIDE DEF at
    <3> QED
      BY <2>2, <2>4, <2>5, <2>6, <2>7, <3>1
  <2>8. CASE ~ (e < stream.streamVersion)
    <3>1. e + 2 = L + 1
      BY <1>1, <2>1, <2>8
    <3>2. ~ SameIdsAt(stream, e + 2, ids)
      BY <1>1, <3>1 DEF SameIdsAt, L, N, messages
    <3> QED
      BY <2>2, <2>5, <2>8, <3>2
  <2> QED
    BY <2>7, <2>8
<1> QED
  BY <1>4, <1>5

\* An append is taken for a retry exactly when its messages are where it would have put
\* them, in every stream nothing was deleted from, if no batch repeats an id.
THEOREM RetriesStayRecognised ==
  ASSUME DistinctBatches
  PROVE  Spec => []RetriesAreRecognised
<1>1. IInv => RetriesAreRecognised
  <2> SUFFICES ASSUME IInv, NEW s \in DOMAIN streamMap \cap StreamIds, NEW ids \in Batches \ {<< >>},
                      Len(streamMap[s].messages) = streamMap[s].streamVersion + 1
               PROVE  /\ IsReplay(streamMap[s], ExpectedVersionAny, ids) <=>
                           \E v \in 0 .. streamMap[s].streamVersion : WrittenAt(streamMap[s], v, ids)
                      /\ \A e \in ExpectedVersionEmpty .. streamMap[s].streamVersion :
                           IsReplay(streamMap[s], e, ids) <=> WrittenAt(streamMap[s], e + 1, ids)
    BY DEF RetriesAreRecognised
  <2>1. StreamGood(s, streamMap[s], globalHeadPosition)
    BY IInvIsStoreGood DEF StoreGood, MapGood
  <2>2. ids \in Seq(MessageIds) /\ ids # << >>
    BY BatchesAssumption
  <2> QED
    BY <2>1, <2>2, RetriesOf DEF StreamGood, MessagesOf
<1> QED
  BY <1>1, Invariance, PTL

-----------------------------------------------------------------------------
(***************************************************************************)
(* Scavenging                                                              *)
(*                                                                         *)
(* Calls that append, set metadata and scavenge interleave, each with a    *)
(* policy it read or set at some time and a list of ids it made then.      *)
(* What keeps a stream within its newest metadata is that, at any time,    *)
(* either some call has yet to look at the stream with that policy, or     *)
(* whatever is too much is in the list of some call (Covered).             *)
(***************************************************************************)

\* The streams of clients are no metadata streams nor "$deleted", and nobody deletes
\* single messages of metadata: the older metadata that would come back is no reason
\* to scavenge.
MetadataIsKept ==
  /\ DeletedStream \notin StreamIds
  /\ \A s \in StreamIds : MetaStream(s) \notin StreamIds \cup DeletableStreams

\* Message i of the array is too much.
Excess(messages, i, policy) ==
  BeyondMaxCount(messages, i, policy) \/ Truncated(messages, i, policy)

\* Call c will look at stream s with its newest policy.
Awaited(c, s) ==
  /\ calls[c].streamId = s
  /\ calls[c].pc = "appended" \/ (calls[c].pc = "policed" /\ calls[c].policy = PolicyOf(s))

\* The ids of the messages of a list.
IdsIn(plan) == {k.messageId : k \in Elements(plan)}

\* The ids call c has yet to delete from stream s.
ToDelete(c, s) ==
  IF calls[c].pc = "scavenging" /\ calls[c].streamId = s THEN IdsIn(calls[c].todo) ELSE {}

\* All that is too much in stream s is in ids, or some call d (of the set cs) deletes it.
Listed(s, ids, cs) ==
  LET messages == StreamIn(streamMap, s).messages IN
  \A i \in DOMAIN messages :
    Excess(messages, i, PolicyOf(s)) =>
      messages[i].messageId \in ids \/ \E d \in cs : messages[i].messageId \in ToDelete(d, s)

Covered(s) == (\E c \in Callers : Awaited(c, s)) \/ Listed(s, {}, Callers)

ScavengesFollow == disposal = "open" => \A s \in StreamIds : Covered(s)

\* Calls are about the streams of clients; so are the messages that expire.
OfClients ==
  \A c \in Callers :
    /\ calls[c].pc \in {"appended", "policed", "scavenging"} => calls[c].streamId \in StreamIds
    /\ \A m \in calls[c].page : ~ IsMetaStream(m.streamId)

SInv == StoreGood /\ OfClients /\ ScavengesFollow

\* The three kinds of streams are apart.
LEMMA KindsApart ==
  ASSUME MetadataIsKept, NEW s \in StreamIds
  PROVE  /\ MetaStream(s) # DeletedStream /\ s # DeletedStream
         /\ IsMetaStream(MetaStream(s))
         /\ \A u \in StreamIds : s # MetaStream(u) /\ (MetaStream(u) = MetaStream(s) => u = s)
<1>1. MetaStream(s) # DeletedStream
  BY DEF MetaStream, DeletedStream
<1>2. \A u \in StreamIds : MetaStream(u) = MetaStream(s) => u = s
  BY DEF MetaStream
<1>3. IsMetaStream(MetaStream(s))
  BY DEF IsMetaStream, MetaStream
<1> QED
  BY <1>1, <1>2, <1>3 DEF MetadataIsKept

\* What is too much of an array that messages were spliced out of was too much before.
LEMMA RestIsExcess ==
  ASSUME NEW messages \in Seq(Message), NEW gone, NEW policy \in Policy,
         NEW n \in DOMAIN Without(messages, gone), Excess(Without(messages, gone), n, policy)
  PROVE  \E i \in DOMAIN messages :
           /\ Without(messages, gone)[n] = messages[i] /\ messages[i] \notin gone
           /\ Excess(messages, i, policy)
<1> DEFINE rest == Without(messages, gone)
           M == Len(rest)
           L == Len(messages)
<1>1. /\ rest \in Seq(Message) /\ Elements(rest) = Elements(messages) \ gone
      /\ \E h \in [DOMAIN rest -> DOMAIN messages] :
           /\ \A k, m \in DOMAIN rest : k < m => h[k] < h[m]
           /\ \A k \in DOMAIN rest : rest[k] = messages[h[k]]
  BY WithoutProperties
<1>2. M \in Nat /\ DOMAIN rest = 1 .. M /\ L \in Nat /\ DOMAIN messages = 1 .. L
  BY <1>1, LenProperties
<1>3. PICK h \in [1 .. M -> 1 .. L] :
        /\ \A k, m \in 1 .. M : k < m => h[k] < h[m]
        /\ \A k \in 1 .. M : rest[k] = messages[h[k]]
  BY <1>1, <1>2
<1> HIDE DEF M, L, rest
<1>4. n \in 1 .. M /\ h[n] \in 1 .. L
  BY <1>2, <1>3 DEF rest
<1>5. M - n <= L - h[n]
  BY <1>2, <1>3, <1>4, IncreasingLeavesRoom
<1>6. rest[n] = messages[h[n]] /\ messages[h[n]] \notin gone
  BY <1>1, <1>2, <1>3, <1>4 DEF Elements
<1>7. BeyondMaxCount(rest, n, policy) => BeyondMaxCount(messages, h[n], policy)
  <2>1. policy.maxCount \in Nat
    BY DEF Policy
  <2>2. \A p \in Nat : n <= M - p => h[n] <= L - p
    BY <1>2, <1>4, <1>5
  <2> QED
    BY <2>1, <2>2 DEF BeyondMaxCount, M, L
<1>8. Truncated(rest, n, policy) => Truncated(messages, h[n], policy)
  BY <1>6 DEF Truncated
<1>9. Excess(messages, h[n], policy)
  BY <1>7, <1>8 DEF Excess, rest
<1> QED
  BY <1>2, <1>4, <1>6, <1>9 DEF rest

\* A scavenge that begins lists all that is too much.
LEMMA PlanListsExcess ==
  ASSUME NEW messages \in Seq(Message), NEW policy, NEW i \in DOMAIN messages,
         Excess(messages, i, policy)
  PROVE  messages[i].messageId \in IdsIn(ScavengePlan(messages, policy))
<1> DEFINE I == Deletions(messages, policy)
           L == Len(messages)
           N == Cardinality(I)
<1>1. L \in Nat /\ DOMAIN messages = 1 .. L
  BY LenProperties
<1>2. 2 * i \in I
  BY DEF Deletions, Excess
<1>3. \A k \in I : \E j \in 1 .. L : k = 2 * j \/ k = 2 * j - 1
  BY <1>1 DEF Deletions
<1> HIDE DEF I, L
<1>4. I \subseteq 1 .. 2 * L
  <2> SUFFICES ASSUME NEW k \in I PROVE k \in 1 .. 2 * L
    OBVIOUS
  <2>1. PICK j \in 1 .. L : k = 2 * j \/ k = 2 * j - 1
    BY <1>3
  <2> QED
    BY <1>1, <2>1
<1>5. IsFiniteSet(I) /\ I \in SUBSET Int
  <2>1. IsFiniteSet(1 .. 2 * L)
    <3>1. 1 \in Int /\ 2 * L \in Int
      BY <1>1
    <3> QED
      BY <3>1, FS_Interval
  <2>2. IsFiniteSet(I)
    BY <1>4, <2>1, FS_Subset
  <2> QED
    BY <1>1, <1>4, <2>2
<1>6. PICK n \in 1 .. N : Nth(I, n) = 2 * i
  BY <1>2, <1>5, NthOnto
<1>7. (2 * i + 1) \div 2 = i
  BY <1>1
<1>8. ScavengePlan(messages, policy) = [k \in 1 .. N |-> messages[(Nth(I, k) + 1) \div 2]]
  BY DEF ScavengePlan, I
<1>9. ScavengePlan(messages, policy)[n] = messages[i] /\ n \in DOMAIN ScavengePlan(messages, policy)
  BY <1>6, <1>7, <1>8
<1> QED
  BY <1>9 DEF IdsIn, Elements

\* The last id of a list goes, the others stay.
LEMMA ButLast ==
  ASSUME NEW plan \in Seq(Message), plan # << >>,
         NEW id \in IdsIn(plan), id # plan[Len(plan)].messageId
  PROVE  id \in IdsIn(SubSeq(plan, 1, Len(plan) - 1))
<1>1. Len(plan) \in Nat /\ Len(plan) # 0 /\ DOMAIN plan = 1 .. Len(plan)
  BY LenProperties, EmptySeq
<1>2. PICK k \in 1 .. Len(plan) : plan[k].messageId = id
  BY <1>1 DEF IdsIn, Elements
<1>3. k \in 1 .. Len(plan) - 1
  BY <1>1, <1>2
<1>4. \A i \in 1 .. Len(plan) - 1 : plan[i] \in Message
  <2>1. \A i \in 1 .. Len(plan) - 1 : i \in 1 .. Len(plan)
    BY <1>1
  <2> QED
    BY <2>1, ElementOfSeq
<1>5. /\ DOMAIN SubSeq(plan, 1, Len(plan) - 1) = 1 .. Len(plan) - 1
      /\ SubSeq(plan, 1, Len(plan) - 1)[k] = plan[k]
  BY <1>1, <1>3, <1>4, SubSeqProperties
<1> QED
  BY <1>2, <1>3, <1>5 DEF IdsIn, Elements

\* What deleteMessage finds is of the stream it looks in.
LEMMA FoundInStream ==
  ASSUME DistinctBatches, StoreGood, NEW keys, NEW m \in Found(streamMap, keys)
  PROVE  \E k \in keys : m.streamId = k[1]
<1>1. PICK k \in keys : /\ k[1] \in DOMAIN streamMap /\ k[2] \in DOMAIN streamMap[k[1]].messageMap
                        /\ m = streamMap[k[1]].messageMap[k[2]]
  BY DEF Found
<1>2. StreamGood(k[1], streamMap[k[1]], globalHeadPosition)
  BY <1>1 DEF StoreGood, MapGood
<1>3. m \in Elements(streamMap[k[1]].messages)
  BY <1>1, <1>2 DEF StreamGood, Indexed
<1> QED
  BY <1>2, <1>3 DEF StreamGood, MessagesOf, Elements

\* A message whose id is deleted is found.
LEMMA IdIsFound ==
  ASSUME DistinctBatches, StoreGood, NEW s \in AllStreams, NEW id,
         NEW m \in Elements(StreamIn(streamMap, s).messages), m.messageId = id
  PROVE  m \in Found(streamMap, {<<s, id>>})
<1>1. s \in DOMAIN streamMap
  BY NoFunction DEF StreamIn, NewStream
<1>2. StreamGood(s, streamMap[s], globalHeadPosition) /\ m \in Elements(streamMap[s].messages)
  BY <1>1 DEF StoreGood, MapGood, StreamIn
<1>3. id \in DOMAIN streamMap[s].messageMap /\ streamMap[s].messageMap[id] = m
  BY <1>2 DEF StreamGood, Indexed
<1> DEFINE k == <<s, id>>
<1>4. k \in {k} /\ k[1] = s /\ k[2] = id
  OBVIOUS
<1> QED
  BY <1>1, <1>3, <1>4 DEF Found

\* The messages of stream s are an array.
LEMMA ArrayOf ==
  ASSUME StoreGood, NEW s
  PROVE  StreamIn(streamMap, s).messages \in Seq(Message)
BY StreamInGood DEF StoreGood, RestOK, StreamGood, StreamOK

\* What splicing leaves in stream s.
LEMMA SplicedArray ==
  ASSUME StoreGood, NEW s, NEW gone
  PROVE  StreamIn(Spliced(streamMap, gone), s).messages = Without(StreamIn(streamMap, s).messages, gone)
<1>1. CASE s \in DOMAIN streamMap
  BY <1>1 DEF StreamIn, Spliced
<1>2. CASE s \notin DOMAIN streamMap
  <2>1. StreamIn(Spliced(streamMap, gone), s).messages = << >> /\ StreamIn(streamMap, s).messages = << >>
    BY <1>2 DEF StreamIn, Spliced, NewStream
  <2>2. << >> \in Seq(Message) /\ Elements(<< >>) = {}
    BY NoFunction
  <2>3. Without(<< >>, gone) = << >>
    BY <2>2, WithoutNothing
  <2> QED
    BY <2>1, <2>3
<1> QED
  BY <1>1, <1>2

\* Deleting messages of other streams leaves stream s as it is.
LEMMA SplicedElsewhere ==
  ASSUME StoreGood, NEW s \in AllStreams, NEW gone, \A m \in gone : m.streamId # s
  PROVE  StreamIn(Spliced(streamMap, gone), s).messages = StreamIn(streamMap, s).messages
<1>1. StreamIn(streamMap, s).messages \in Seq(Message)
  BY ArrayOf
<1>2. \A m \in Elements(StreamIn(streamMap, s).messages) : m.streamId = s
  <2>1. StreamGood(s, StreamIn(streamMap, s), globalHeadPosition)
    BY StreamInGood DEF StoreGood, RestOK
  <2> QED
    BY <2>1 DEF StreamGood, MessagesOf, Elements
<1>3. Elements(StreamIn(streamMap, s).messages) \cap gone = {}
  BY <1>2
<1> QED
  BY <1>1, <1>3, SplicedArray, WithoutNothing

\* A policy depends on the array of the metadata stream only.
LEMMA PolicyStays ==
  ASSUME NEW s, StreamIn(streamMap', MetaStream(s)).messages = StreamIn(streamMap, MetaStream(s)).messages
  PROVE  PolicyOf(s)' = PolicyOf(s)
BY DEF PolicyOf

\* What is too much afterwards was so before, and the calls go on to see to it.
LEMMA StaysCovered ==
  ASSUME StoreGood, NEW s \in StreamIds, NEW gone, NEW ids, NEW cs,
         Listed(s, ids, cs),
         StreamIn(streamMap', s).messages = Without(StreamIn(streamMap, s).messages, gone),
         PolicyOf(s)' = PolicyOf(s),
         \A m \in Elements(StreamIn(streamMap, s).messages) \ gone :
           (m.messageId \in ids \/ \E d \in cs : m.messageId \in ToDelete(d, s))
             => \E d \in Callers : m.messageId \in ToDelete(d, s)'
  PROVE  Listed(s, {}, Callers)'
<1> DEFINE messages == StreamIn(streamMap, s).messages
           rest == Without(messages, gone)
           policy == PolicyOf(s)
<1>1. messages \in Seq(Message) /\ policy \in Policy
  BY ArrayOf, PolicyOfOK
<1>2. StreamIn(streamMap', s).messages = rest /\ PolicyOf(s)' = policy
  OBVIOUS
<1>3. ASSUME NEW n \in DOMAIN rest, Excess(rest, n, policy)
      PROVE  \E d \in Callers : rest[n].messageId \in ToDelete(d, s)'
  <2>1. PICK i \in DOMAIN messages : /\ rest[n] = messages[i] /\ messages[i] \notin gone
                                     /\ Excess(messages, i, policy)
    BY <1>1, <1>3, RestIsExcess
  <2>2. messages[i] \in Elements(messages) \ gone
    BY <2>1 DEF Elements
  <2>3. messages[i].messageId \in ids \/ \E d \in cs : messages[i].messageId \in ToDelete(d, s)
    BY <2>1 DEF Listed
  <2> QED
    BY <2>1, <2>2, <2>3
<1>4. Listed(s, {}, Callers)' <=>
        \A i \in DOMAIN rest :
          Excess(rest, i, policy) => \E d \in Callers : rest[i].messageId \in ToDelete(d, s)'
  BY <1>2 DEF Listed, Excess, BeyondMaxCount, Truncated
<1> QED
  BY <1>3, <1>4

\* A step that takes messages from stream s, and leaves alone the calls that see to it.
LEMMA ShrinkingStaysCovered ==
  ASSUME StoreGood, NEW s \in StreamIds, Covered(s), NEW gone,
         StreamIn(streamMap', s).messages = Without(StreamIn(streamMap, s).messages, gone),
         PolicyOf(s)' = PolicyOf(s),
         \A c \in Callers : Awaited(c, s) \/ ToDelete(c, s) # {} => calls'[c] = calls[c]
  PROVE  Covered(s)'
<1>1. \A c \in Callers : Awaited(c, s) => Awaited(c, s)'
  BY DEF Awaited
<1>2. \A c \in Callers : ToDelete(c, s) # {} => ToDelete(c, s)' = ToDelete(c, s)
  BY DEF ToDelete
<1>3. ASSUME Listed(s, {}, Callers)
      PROVE  Listed(s, {}, Callers)'
  <2>1. \A m \in Elements(StreamIn(streamMap, s).messages) \ gone :
          (m.messageId \in {} \/ \E d \in Callers : m.messageId \in ToDelete(d, s))
             => \E d \in Callers : m.messageId \in ToDelete(d, s)'
    BY <1>2
  <2> QED
    BY <1>3, <2>1, StaysCovered, Zenon
<1> QED
  BY <1>1, <1>3 DEF Covered

\* A step that leaves stream s and its metadata alone.
LEMMA UntouchedStaysCovered ==
  ASSUME StoreGood, NEW s \in StreamIds, Covered(s),
         StreamIn(streamMap', s).messages = StreamIn(streamMap, s).messages,
         StreamIn(streamMap', MetaStream(s)).messages = StreamIn(streamMap, MetaStream(s)).messages,
         \A c \in Callers : Awaited(c, s) \/ ToDelete(c, s) # {} => calls'[c] = calls[c]
  PROVE  Covered(s)'
<1>1. PolicyOf(s)' = PolicyOf(s)
  BY PolicyStays
<1>2. Without(StreamIn(streamMap, s).messages, {}) = StreamIn(streamMap, s).messages
  <2>1. StreamIn(streamMap, s).messages \in Seq(Message)
    BY ArrayOf
  <2> QED
    BY <2>1, WithoutNothing
<1> QED
  BY <1>1, <1>2, ShrinkingStaysCovered

\* deleteMessage of messages of clients' streams.
LEMMA DeleteShrinks ==
  ASSUME DistinctBatches, MetadataIsKept, StoreGood, NEW s \in StreamIds,
         NEW keys, Delete(keys), \A k \in keys : k[1] # MetaStream(s)
  PROVE  /\ StreamIn(streamMap', s).messages
              = Without(StreamIn(streamMap, s).messages, Found(streamMap, keys))
         /\ PolicyOf(s)' = PolicyOf(s)
<1>1. streamMap' = Spliced(streamMap, Found(streamMap, keys))
  BY DEF Delete
<1>2. \A m \in Found(streamMap, keys) : m.streamId # MetaStream(s)
  BY FoundInStream
<1>3. StreamIn(streamMap', MetaStream(s)).messages = StreamIn(streamMap, MetaStream(s)).messages
  BY <1>1, <1>2, StreamIdsOK, SplicedElsewhere
<1> QED
  BY <1>1, <1>3, SplicedArray, PolicyStays

\* A scavenge deletes the last id of its list: the others stay in it, and nothing that is
\* left has the id that was deleted.
LEMMA ScavengeOnCovers ==
  ASSUME DistinctBatches, MetadataIsKept, StoreGood, disposal = "open",
         NEW c \in Callers, NEW plan \in Seq(Message), ScavengeOn(c, plan),
         calls[c].streamId \in StreamIds, NEW s \in StreamIds,
         \/ \E d \in Callers \ {c} : Awaited(d, s)
         \/ Listed(s, IF s = calls[c].streamId THEN IdsIn(plan) ELSE {}, Callers \ {c})
  PROVE  Covered(s)'
<1> DEFINE u == calls[c].streamId
           todo == SubSeq(plan, 1, Len(plan) - 1)
           listed == IF s = u THEN IdsIn(plan) ELSE {}
<1>1. calls \in [Callers -> Call]
  BY DEF StoreGood, RestOK
<1>2. \A d \in Callers \ {c} : calls'[d] = calls[d]
  BY <1>1 DEF ScavengeOn, Finish, Suspend
<1>3. \A d \in Callers \ {c} : ToDelete(d, s)' = ToDelete(d, s)
  BY <1>2 DEF ToDelete
<1>4. ASSUME PolicyOf(s)' = PolicyOf(s), NEW d \in Callers \ {c}, Awaited(d, s)
      PROVE  Covered(s)'
  <2>1. Awaited(d, s)'
    BY <1>2, <1>4 DEF Awaited
  <2> QED
    BY <2>1 DEF Covered
<1>5. CASE plan = << >>
  <2>1. UNCHANGED streamMap
    BY <1>5 DEF ScavengeOn
  <2>2. PolicyOf(s)' = PolicyOf(s)
    BY <2>1, PolicyStays
  <2>3. IdsIn(plan) = {}
    BY <1>5, NoFunction DEF IdsIn
  <2>4. ASSUME Listed(s, listed, Callers \ {c})
        PROVE  Covered(s)'
    <3> DEFINE gone == {}
    <3>1. StreamIn(streamMap', s).messages = Without(StreamIn(streamMap, s).messages, gone)
      <4>1. StreamIn(streamMap, s).messages \in Seq(Message)
        BY ArrayOf
      <4> QED
        BY <2>1, <4>1, WithoutNothing
    <3>2. \A m \in Elements(StreamIn(streamMap, s).messages) \ gone :
            (m.messageId \in listed \/ \E d \in Callers \ {c} : m.messageId \in ToDelete(d, s))
               => \E d \in Callers : m.messageId \in ToDelete(d, s)'
      BY <1>3, <2>3
    <3> HIDE DEF gone, listed
    <3>3. Listed(s, {}, Callers)'
      BY <2>2, <2>4, <3>1, <3>2, StaysCovered
    <3> QED
      BY <3>3 DEF Covered
  <2> QED
    BY <1>4, <2>2, <2>4
<1>6. CASE plan # << >>
  <2> DEFINE keys == {<<u, plan[Len(plan)].messageId>>}
             gone == Found(streamMap, keys)
  <2>1. /\ Delete(keys)
        /\ calls' = [calls EXCEPT ![c] = [calls[c] EXCEPT !.pc = "scavenging", !.todo = todo]]
    BY <1>6 DEF ScavengeOn, Suspend
  <2>2. \A k \in keys : k[1] # MetaStream(s)
    BY KindsApart
  <2>3. /\ StreamIn(streamMap', s).messages = Without(StreamIn(streamMap, s).messages, gone)
        /\ PolicyOf(s)' = PolicyOf(s)
    BY <2>1, <2>2, DeleteShrinks
  <2>4. s = u => ToDelete(c, s)' = IdsIn(todo)
    BY <1>1, <2>1 DEF ToDelete, Call
  <2>5. ASSUME NEW m \in Elements(StreamIn(streamMap, s).messages) \ gone,
               m.messageId \in listed
        PROVE  m.messageId \in ToDelete(c, s)'
    <3>1. s = u /\ m.messageId \in IdsIn(plan)
      BY <2>5
    <3>2. m.messageId # plan[Len(plan)].messageId
      <4> SUFFICES ASSUME m.messageId = plan[Len(plan)].messageId PROVE m \in gone
        OBVIOUS
      <4> QED
        BY <3>1, IdIsFound, StreamIdsOK
    <3>3. m.messageId \in IdsIn(todo)
      BY <1>6, <3>1, <3>2, ButLast
    <3> QED
      BY <2>4, <3>1, <3>3
  <2>6. ASSUME Listed(s, listed, Callers \ {c})
        PROVE  Covered(s)'
    <3>1. \A m \in Elements(StreamIn(streamMap, s).messages) \ gone :
            (m.messageId \in listed \/ \E d \in Callers \ {c} : m.messageId \in ToDelete(d, s))
               => \E d \in Callers : m.messageId \in ToDelete(d, s)'
      BY <1>3, <2>5
    <3> HIDE DEF gone, listed
    <3>2. Listed(s, {}, Callers)'
      BY <2>3, <2>6, <3>1, StaysCovered
    <3> QED
      BY <3>2 DEF Covered
  <2> QED
    BY <1>4, <2>3, <2>6
<1> QED
  BY <1>5, <1>6

\* scavengeStreamInternal as it begins: with the newest policy the list is complete, with an
\* older one it is as if others had to do it.
LEMMA StartScavengeCovers ==
  ASSUME DistinctBatches, MetadataIsKept, StoreGood, OfClients, disposal = "open",
         NEW c \in Callers, StartScavenge(c), NEW s \in StreamIds, Covered(s)
  PROVE  Covered(s)'
<1> DEFINE u == calls[c].streamId
           messages == StreamIn(streamMap, u).messages
           plan == ScavengePlan(messages, calls[c].policy)
<1>1. calls[c].pc = "policed" /\ ScavengeOn(c, plan) /\ u \in StreamIds
  BY DEF StartScavenge, OfClients
<1>2. messages \in Seq(Message)
  BY ArrayOf
<1>3. plan \in Seq(Message)
  BY <1>2, ScavengePlanOK
<1>4. ToDelete(c, s) = {}
  BY <1>1 DEF ToDelete
<1>5. ASSUME Awaited(c, s)
      PROVE  Listed(s, IF s = u THEN IdsIn(plan) ELSE {}, Callers \ {c})
  <2>1. s = u /\ calls[c].policy = PolicyOf(s)
    BY <1>1, <1>5 DEF Awaited
  <2>2. \A i \in DOMAIN messages :
          Excess(messages, i, PolicyOf(s)) => messages[i].messageId \in IdsIn(plan)
    BY <1>2, <2>1, PlanListsExcess
  <2> QED
    BY <2>1, <2>2 DEF Listed
<1>6. ASSUME Listed(s, {}, Callers)
      PROVE  Listed(s, IF s = u THEN IdsIn(plan) ELSE {}, Callers \ {c})
  BY <1>4, <1>6 DEF Listed
<1>7. \/ \E d \in Callers \ {c} : Awaited(d, s)
      \/ Listed(s, IF s = u THEN IdsIn(plan) ELSE {}, Callers \ {c})
  BY <1>5, <1>6 DEF Covered
<1> HIDE DEF plan
<1> QED
  BY <1>1, <1>3, <1>7, ScavengeOnCovers

\* It goes on with its list.
LEMMA ContinueScavengeCovers ==
  ASSUME DistinctBatches, MetadataIsKept, StoreGood, OfClients, disposal = "open",
         NEW c \in Callers, ContinueScavenge(c), NEW s \in StreamIds, Covered(s)
  PROVE  Covered(s)'
<1> DEFINE u == calls[c].streamId
           plan == calls[c].todo
<1>1. calls[c].pc = "scavenging" /\ ScavengeOn(c, plan) /\ u \in StreamIds
  BY DEF ContinueScavenge, OfClients
<1>2. plan \in Seq(Message)
  BY DEF StoreGood, RestOK, Call
<1>3. ~ Awaited(c, s)
  BY <1>1 DEF Awaited
<1>4. ToDelete(c, s) = IF s = u THEN IdsIn(plan) ELSE {}
  BY <1>1 DEF ToDelete
<1>5. ASSUME Listed(s, {}, Callers)
      PROVE  Listed(s, IF s = u THEN IdsIn(plan) ELSE {}, Callers \ {c})
  BY <1>4, <1>5 DEF Listed
<1>6. \/ \E d \in Callers \ {c} : Awaited(d, s)
      \/ Listed(s, IF s = u THEN IdsIn(plan) ELSE {}, Callers \ {c})
  BY <1>3, <1>5 DEF Covered
<1> HIDE DEF plan
<1> QED
  BY <1>1, <1>2, <1>6, ScavengeOnCovers

\* Writing to one stream leaves the others alone.
LEMMA WriteElsewhere ==
  ASSUME NEW map, NEW all, NEW t, NEW ids, NEW data, WriteTo(map, all, t, ids, data),
         NEW s, s # t
  PROVE  StreamIn(streamMap', s) = StreamIn(map, s)
BY DEF WriteTo, Put, StreamIn

\* So does creating one, which changes nothing in it either.
LEMMA TouchedIsSame ==
  ASSUME NEW t, Touch(t), NEW s
  PROVE  StreamIn(streamMap', s) = StreamIn(streamMap, s)
BY DEF Touch, Put, StreamIn

\* An append is followed by its own scavenge, written or not.
LEMMA AppendCovers ==
  ASSUME MetadataIsKept, StoreGood, NEW c \in Callers, NEW t \in StreamIds, NEW e, NEW ids,
         AppendToStream(c, t, e, ids), NEW s \in StreamIds, Covered(s)
  PROVE  Covered(s)'
<1>1. calls \in [Callers -> Call] /\ calls[c] = NoCall
  BY DEF AppendToStream, StoreGood, RestOK
<1>2. ~ Awaited(c, s) /\ ToDelete(c, s) = {}
  BY <1>1 DEF Awaited, ToDelete, NoCall
<1>3. CASE s = t /\ Suspend(c, [NoCall EXCEPT !.pc = "appended", !.streamId = t])
  <2>1. calls'[c].pc = "appended" /\ calls'[c].streamId = s
    BY <1>1, <1>3 DEF Suspend, NoCall
  <2>2. Awaited(c, s)'
    BY <2>1 DEF Awaited
  <2> QED
    BY <2>2 DEF Covered
<1>4. CASE s # t \/ UNCHANGED calls
  <2>1. \A d \in Callers : d # c => calls'[d] = calls[d]
    BY <1>1 DEF AppendToStream, Suspend
  <2>2. s # MetaStream(t) /\ MetaStream(s) # t
    BY KindsApart
  <2>3. /\ StreamIn(streamMap', s) = StreamIn(streamMap, s)
        /\ StreamIn(streamMap', MetaStream(s)) = StreamIn(streamMap, MetaStream(s))
    <3>1. CASE Touch(t)
      BY <3>1, TouchedIsSame
    <3>2. CASE s # t /\ WriteTo(streamMap, inMemoryAllStream, t, ids, NoPolicy)
      BY <2>2, <3>2, WriteElsewhere
    <3>3. CASE UNCHANGED calls /\ ~ Touch(t)
      <4>1. Suspend(c, [NoCall EXCEPT !.pc = "appended", !.streamId = t])
        BY <3>3 DEF AppendToStream
      <4>2. calls'[c].pc = "appended"
        BY <1>1, <4>1 DEF Suspend, NoCall
      <4>3. calls[c].pc = "idle"
        BY <1>1 DEF NoCall
      <4> QED
        BY <3>3, <4>2, <4>3
    <3> QED
      BY <1>4, <3>1, <3>2, <3>3 DEF AppendToStream
  <2> QED
    BY <1>2, <2>1, <2>3, UntouchedStaysCovered
<1> QED
  BY <1>3, <1>4 DEF AppendToStream

\* What an append reads is the newest policy.
LEMMA ReadPolicyCovers ==
  ASSUME StoreGood, NEW c \in Callers, ReadPolicy(c), NEW s \in StreamIds, Covered(s)
  PROVE  Covered(s)'
<1>1. calls \in [Callers -> Call] /\ calls[c].pc = "appended" /\ UNCHANGED streamMap
      /\ calls' = [calls EXCEPT ![c] = [calls[c] EXCEPT !.pc = "policed", !.policy = PolicyOf(calls[c].streamId)]]
  BY DEF ReadPolicy, Suspend, StoreGood, RestOK
<1>2. CASE calls[c].streamId = s
  <2>1. calls'[c].pc = "policed" /\ calls'[c].streamId = s /\ calls'[c].policy = PolicyOf(s)
    BY <1>1, <1>2 DEF Call
  <2>2. PolicyOf(s)' = PolicyOf(s)
    BY <1>1, PolicyStays
  <2>3. Awaited(c, s)'
    BY <2>1, <2>2 DEF Awaited
  <2> QED
    BY <2>3 DEF Covered
<1>3. CASE calls[c].streamId # s
  <2>1. ~ Awaited(c, s) /\ ToDelete(c, s) = {}
    BY <1>3 DEF Awaited, ToDelete
  <2>2. \A d \in Callers : d # c => calls'[d] = calls[d]
    BY <1>1
  <2> QED
    BY <1>1, <2>1, <2>2, UntouchedStaysCovered
<1> QED
  BY <1>2, <1>3

\* The metadata that is written is the newest.
LEMMA WrittenPolicy ==
  ASSUME StoreGood, NEW s \in StreamIds, NEW id, NEW policy \in Policy,
         WriteTo(streamMap, inMemoryAllStream, MetaStream(s), << id >>, policy)
  PROVE  PolicyOf(s)' = policy
<1> DEFINE meta == StreamIn(streamMap, MetaStream(s))
           new == NewMessages(streamMap, MetaStream(s), << id >>, policy)
           L == Len(meta.messages)
<1>1. meta.messages \in Seq(Message)
  BY ArrayOf
<1>2. L \in Nat /\ DOMAIN meta.messages = 1 .. L
  BY <1>1, LenProperties
<1>3. Len(<< id >>) = 1
  OBVIOUS
<1>4. new = [i \in 1 .. 1 |-> new[i]] /\ new[1].data = policy /\ DOMAIN new = 1 .. 1
  BY <1>3 DEF NewMessages
<1>5. StreamIn(streamMap', MetaStream(s)).messages = meta.messages \o new
  <2>1. streamMap' = Put(streamMap, MetaStream(s), Appended(meta, new))
    BY DEF WriteTo
  <2> HIDE DEF new, meta
  <2> QED
    BY <2>1 DEF Put, StreamIn, Appended, meta
<1> HIDE DEF new, L, meta
<1>6. new \in Seq({new[1]}) /\ Len(new) = 1
  <2>1. 1 \in Nat /\ new \in [1 .. 1 -> {new[1]}]
    BY <1>4
  <2>2. new \in Seq({new[1]})
    BY <2>1, SeqDef
  <2> QED
    BY <1>4, <2>2, LenProperties
<1> DEFINE T == Message \cup {new[1]}
<1>7. meta.messages \in Seq(T) /\ new \in Seq(T)
  <2>1. meta.messages \in [1 .. L -> T]
    BY <1>1, <1>2, SeqDef
  <2>2. new \in [1 .. 1 -> T] /\ 1 \in Nat
    BY <1>4
  <2> HIDE DEF T
  <2> QED
    BY <1>2, <2>1, <2>2, SeqDef
<1> HIDE DEF T
<1>8. Len(meta.messages \o new) = L + 1 /\ (meta.messages \o new)[L + 1] = new[1]
  <2>1. L + 1 \in 1 .. L + 1 /\ ~ (L + 1 <= L) /\ L + 1 - L = 1
    BY <1>2
  <2> QED
    BY <1>6, <1>7, <2>1, ConcatProperties DEF L
<1>9. meta.messages \o new # << >>
  BY <1>2, <1>8
<1> QED
  BY <1>4, <1>5, <1>8, <1>9 DEF PolicyOf

\* Whoever sets the metadata goes on to look at the stream with it.
LEMMA SetMetadataCovers ==
  ASSUME MetadataIsKept, StoreGood, NEW c \in Callers, NEW t \in StreamIds, NEW e,
         NEW policy \in Policies, SetStreamMetadata(c, t, e, policy), NEW s \in StreamIds, Covered(s)
  PROVE  Covered(s)'
<1> DEFINE ids == << MetaMessageId(globalHeadPosition + 1) >>
<1>1. calls \in [Callers -> Call] /\ calls[c] = NoCall /\ policy \in Policy
  BY PoliciesAssumption DEF SetStreamMetadata, StoreGood, RestOK
<1>2. ~ Awaited(c, s) /\ ToDelete(c, s) = {}
  BY <1>1 DEF Awaited, ToDelete, NoCall
<1>3. s # MetaStream(t) /\ (MetaStream(t) = MetaStream(s) => s = t)
  BY KindsApart
<1>4. CASE /\ WriteTo(streamMap, inMemoryAllStream, MetaStream(t), ids, policy)
           /\ Suspend(c, [NoCall EXCEPT !.pc = "policed", !.streamId = t, !.policy = policy])
  <2>1. CASE s = t
    <3>1. calls'[c].pc = "policed" /\ calls'[c].streamId = s /\ calls'[c].policy = policy
      BY <1>1, <1>4, <2>1 DEF Suspend, NoCall
    <3>2. PolicyOf(s)' = policy
      BY <1>1, <1>4, <2>1, WrittenPolicy
    <3>3. Awaited(c, s)'
      BY <3>1, <3>2 DEF Awaited
    <3> QED
      BY <3>3 DEF Covered
  <2>2. CASE s # t
    <3>1. /\ StreamIn(streamMap', s) = StreamIn(streamMap, s)
          /\ StreamIn(streamMap', MetaStream(s)) = StreamIn(streamMap, MetaStream(s))
      BY <1>3, <1>4, <2>2, WriteElsewhere
    <3>2. \A d \in Callers : d # c => calls'[d] = calls[d]
      BY <1>1, <1>4 DEF Suspend
    <3> QED
      BY <1>2, <3>1, <3>2, UntouchedStaysCovered
  <2> QED
    BY <2>1, <2>2
<1>5. CASE Touch(MetaStream(t)) /\ UNCHANGED calls
  BY <1>5, TouchedIsSame, UntouchedStaysCovered
<1> QED
  BY <1>4, <1>5 DEF SetStreamMetadata

\* Deleting, by clients and by readers.
LEMMA DeleteCovers ==
  ASSUME DistinctBatches, MetadataIsKept, StoreGood, NEW s \in StreamIds, Covered(s),
         NEW keys, Delete(keys), \A k \in keys : k[1] # MetaStream(s),
         \A c \in Callers : Awaited(c, s) \/ ToDelete(c, s) # {} => calls'[c] = calls[c]
  PROVE  Covered(s)'
BY DeleteShrinks, ShrinkingStaysCovered

\* deleteStream leaves nothing of its stream, and records that in a stream of its own.
LEMMA DeleteStreamCovers ==
  ASSUME DistinctBatches, MetadataIsKept, StoreGood, NEW t \in StreamIds, NEW e, DeleteStream(t, e),
         NEW s \in StreamIds, Covered(s)
  PROVE  Covered(s)'
<1> DEFINE keys == {<<t, m.messageId>> : m \in Elements(streamMap[t].messages)}
           gone == Found(streamMap, keys)
           kept == Spliced(streamMap, gone)
           left == Without(inMemoryAllStream, gone)
           ids == << DeletionMessageId(t, e) >>
<1>1. /\ WriteTo(kept, left, DeletedStream, ids, NoPolicy) \/ streamMap' = kept
      /\ UNCHANGED calls
  BY DEF DeleteStream
<1>2. \A k \in keys : k[1] # MetaStream(s)
  BY KindsApart
<1>3. \A m \in gone : m.streamId # MetaStream(s)
  BY <1>2, FoundInStream
<1> HIDE DEF keys, gone
<1>4. s # DeletedStream /\ MetaStream(s) # DeletedStream
  BY KindsApart
<1>5. /\ StreamIn(streamMap', s) = StreamIn(kept, s)
      /\ StreamIn(streamMap', MetaStream(s)) = StreamIn(kept, MetaStream(s))
  <2> HIDE DEF kept, left, ids
  <2> QED
    BY <1>1, <1>4, WriteElsewhere
<1>6. StreamIn(streamMap', s).messages = Without(StreamIn(streamMap, s).messages, gone)
  BY <1>5, SplicedArray
<1>7. StreamIn(streamMap', MetaStream(s)).messages = StreamIn(streamMap, MetaStream(s)).messages
  BY <1>3, <1>5, SplicedElsewhere, StreamIdsOK
<1> QED
  BY <1>1, <1>6, <1>7, PolicyStays, ShrinkingStaysCovered

\* The calls stay with the streams of clients.
LEMMA OfClientsStep ==
  ASSUME StoreGood, OfClients, Next
  PROVE  OfClients'
<1>1. calls \in [Callers -> Call]
  BY DEF StoreGood, RestOK
<1>2. ASSUME NEW c \in Callers, NEW call, calls' = [calls EXCEPT ![c] = call],
             call.pc \in {"appended", "policed", "scavenging"} => call.streamId \in StreamIds,
             \A m \in call.page : ~ IsMetaStream(m.streamId)
      PROVE  OfClients'
  <2>1. \A d \in Callers : calls'[d] = IF d = c THEN call ELSE calls[d]
    BY <1>1, <1>2
  <2> QED
    BY <1>2, <2>1 DEF OfClients
<1>3. /\ NoCall.pc = "idle" /\ NoCall.page = {}
      /\ \A s : /\ [NoCall EXCEPT !.pc = "appended", !.streamId = s].streamId = s
                /\ [NoCall EXCEPT !.pc = "appended", !.streamId = s].page = {}
      /\ \A s, policy :
           /\ [NoCall EXCEPT !.pc = "policed", !.streamId = s, !.policy = policy].streamId = s
           /\ [NoCall EXCEPT !.pc = "policed", !.streamId = s, !.policy = policy].page = {}
  BY DEF NoCall
<1>4. ASSUME UNCHANGED calls
      PROVE  OfClients'
  BY <1>4 DEF OfClients
<1>5. ASSUME NEW c \in Callers, Finish(c)
      PROVE  OfClients'
  BY <1>2, <1>3, <1>5 DEF Finish
<1>6. ASSUME NEW c \in Callers, NEW s \in StreamIds, NEW e, NEW ids, AppendToStream(c, s, e, ids)
      PROVE  OfClients'
  <2>1. CASE UNCHANGED calls
    BY <1>4, <2>1
  <2>2. CASE Suspend(c, [NoCall EXCEPT !.pc = "appended", !.streamId = s])
    <3> DEFINE call == [NoCall EXCEPT !.pc = "appended", !.streamId = s]
    <3>1. calls' = [calls EXCEPT ![c] = call]
      BY <2>2 DEF Suspend
    <3>2. call.streamId = s /\ call.page = {}
      BY <1>3
    <3> HIDE DEF call
    <3> QED
      BY <1>2, <3>1, <3>2
  <2> QED
    BY <1>6, <2>1, <2>2 DEF AppendToStream
<1>7. ASSUME NEW c \in Callers, NEW s \in StreamIds, NEW e, NEW policy, SetStreamMetadata(c, s, e, policy)
      PROVE  OfClients'
  <2>1. CASE UNCHANGED calls
    BY <1>4, <2>1
  <2>2. CASE Suspend(c, [NoCall EXCEPT !.pc = "policed", !.streamId = s, !.policy = policy])
    <3> DEFINE call == [NoCall EXCEPT !.pc = "policed", !.streamId = s, !.policy = policy]
    <3>1. calls' = [calls EXCEPT ![c] = call]
      BY <2>2 DEF Suspend
    <3>2. call.streamId = s /\ call.page = {}
      BY <1>3
    <3> HIDE DEF call
    <3> QED
      BY <1>2, <3>1, <3>2
  <2> QED
    BY <1>7, <2>1, <2>2 DEF SetStreamMetadata
<1>8. ASSUME NEW c \in Callers, ReadPolicy(c)
      PROVE  OfClients'
  <2> DEFINE call == [calls[c] EXCEPT !.pc = "policed", !.policy = PolicyOf(calls[c].streamId)]
  <2>1. calls' = [calls EXCEPT ![c] = call] /\ calls[c].pc = "appended"
    BY <1>8 DEF ReadPolicy, Suspend
  <2>2. call.streamId = calls[c].streamId /\ call.page = calls[c].page
    BY <1>1 DEF Call
  <2> HIDE DEF call
  <2> QED
    BY <1>2, <2>1, <2>2 DEF OfClients
<1>9. ASSUME NEW c \in Callers, NEW plan, ScavengeOn(c, plan), calls[c].pc \in {"policed", "scavenging"}
      PROVE  OfClients'
  <2> DEFINE call == [calls[c] EXCEPT !.pc = "scavenging", !.todo = SubSeq(plan, 1, Len(plan) - 1)]
  <2>1. CASE calls' = [calls EXCEPT ![c] = call]
    <3>1. call.streamId = calls[c].streamId /\ call.page = calls[c].page
      BY <1>1 DEF Call
    <3> HIDE DEF call
    <3> QED
      BY <1>2, <1>9, <2>1, <3>1 DEF OfClients
  <2> QED
    BY <1>5, <1>9, <2>1 DEF ScavengeOn, Suspend
<1>10. ASSUME NEW c \in Callers, NEW first, NEW count, StartReadAll(c, first, count)
       PROVE  OfClients'
  <2> DEFINE mortal == {i \in DOMAIN inMemoryAllStream :
                          /\ first <= i /\ i < first + count
                          /\ ~ IsMetaStream(inMemoryAllStream[i].streamId)
                          /\ PolicyOf(inMemoryAllStream[i].streamId).maxAge # 0}
             expiring(m) == [streamId |-> m.streamId, messageId |-> m.messageId,
                             position |-> m.position,
                             expiresAt |-> m.createdAt + PolicyOf(m.streamId).maxAge]
             page == {expiring(inMemoryAllStream[i]) : i \in mortal}
             call == [NoCall EXCEPT !.pc = "reading", !.page = page]
  <2>1. \A m \in page : ~ IsMetaStream(m.streamId)
    OBVIOUS
  <2>2. calls' = [calls EXCEPT ![c] = call]
    BY <1>10 DEF StartReadAll, Suspend
  <2> HIDE DEF page
  <2>3. call.pc = "reading" /\ call.page = page
    BY DEF NoCall
  <2> HIDE DEF call
  <2> QED
    BY <1>2, <2>1, <2>2, <2>3
<1> QED
  BY <1>4, <1>5, <1>6, <1>7, <1>8, <1>9, <1>10
     DEF Next, StartScavenge, ContinueScavenge, FinishReadAll, DeleteMessage, DeleteStream,
         NotifyObservers, Dispose, ClearStreams, Tick

\* Every step leaves every stream covered.
LEMMA CoveredStep ==
  ASSUME DistinctBatches, MetadataIsKept, SInv, Next, disposal' = "open", NEW s \in StreamIds
  PROVE  Covered(s)'
<1>1. StoreGood /\ OfClients
  BY DEF SInv
<1>2. disposal = "open"
  BY <1>1, StepRest DEF Dispose, ClearStreams
<1>3. Covered(s)
  BY <1>2 DEF SInv, ScavengesFollow
<1>4. ASSUME UNCHANGED <<streamMap, calls>>
      PROVE  Covered(s)'
  BY <1>1, <1>3, <1>4, UntouchedStaysCovered
<1>5. ASSUME NEW t \in DeletableStreams, NEW id, DeleteMessage(t, id)
      PROVE  Covered(s)'
  <2>1. \A k \in {<<t, id>>} : k[1] # MetaStream(s)
    BY DEF MetadataIsKept
  <2>2. Delete({<<t, id>>}) /\ UNCHANGED calls
    BY <1>5 DEF DeleteMessage
  <2> QED
    BY <1>1, <1>3, <2>1, <2>2, DeleteCovers
<1>6. ASSUME NEW c \in Callers, NEW first, NEW count, StartReadAll(c, first, count)
      PROVE  Covered(s)'
  <2>1. calls \in [Callers -> Call] /\ calls[c] = NoCall /\ UNCHANGED streamMap
    BY <1>1, <1>6 DEF StartReadAll, StoreGood, RestOK
  <2>2. ~ Awaited(c, s) /\ ToDelete(c, s) = {}
    BY <2>1 DEF Awaited, ToDelete, NoCall
  <2>3. \A d \in Callers : d # c => calls'[d] = calls[d]
    BY <1>6, <2>1 DEF StartReadAll, Suspend
  <2> QED
    BY <1>1, <1>3, <2>1, <2>2, <2>3, UntouchedStaysCovered
<1>7. ASSUME NEW c \in Callers, FinishReadAll(c)
      PROVE  Covered(s)'
  <2> DEFINE expired == {m \in calls[c].page : m.expiresAt <= now}
             keys == {<<m.streamId, m.messageId>> : m \in expired}
  <2>1. calls \in [Callers -> Call] /\ calls[c].pc = "reading" /\ Delete(keys)
    BY <1>1, <1>2, <1>7 DEF FinishReadAll, StoreGood, RestOK
  <2>2. ~ Awaited(c, s) /\ ToDelete(c, s) = {}
    BY <2>1 DEF Awaited, ToDelete
  <2>3. \A d \in Callers : d # c => calls'[d] = calls[d]
    BY <1>7, <2>1 DEF FinishReadAll, Finish
  <2>4. \A k \in keys : k[1] # MetaStream(s)
    BY <1>1, KindsApart DEF OfClients
  <2> HIDE DEF keys
  <2> QED
    BY <1>1, <1>3, <2>1, <2>2, <2>3, <2>4, DeleteCovers
<1>8. ASSUME NEW c \in Callers, NEW t \in StreamIds, NEW e, NEW ids, AppendToStream(c, t, e, ids)
      PROVE  Covered(s)'
  BY <1>1, <1>3, <1>8, AppendCovers
<1>9. ASSUME NEW c \in Callers, NEW t \in StreamIds, NEW e, NEW policy \in Policies,
             SetStreamMetadata(c, t, e, policy)
      PROVE  Covered(s)'
  BY <1>1, <1>3, <1>9, SetMetadataCovers
<1>10. ASSUME NEW c \in Callers, ReadPolicy(c) \/ StartScavenge(c) \/ ContinueScavenge(c)
       PROVE  Covered(s)'
  BY <1>1, <1>2, <1>3, <1>10, ReadPolicyCovers, StartScavengeCovers, ContinueScavengeCovers
<1>11. ASSUME NEW t \in StreamIds, NEW e, DeleteStream(t, e)
       PROVE  Covered(s)'
  BY <1>1, <1>3, <1>11, DeleteStreamCovers
<1>12. CASE NotifyObservers \/ Dispose \/ ClearStreams \/ Tick
  BY <1>2, <1>4, <1>12 DEF NotifyObservers, Dispose, ClearStreams, Tick
<1> QED
  BY <1>5, <1>6, <1>7, <1>8, <1>9, <1>10, <1>11, <1>12 DEF Next

\* Once no call is under way, every stream is as its newest metadata wants it, however many
\* appended, set metadata, scavenged, deleted and read at once.
THEOREM ScavengedOnceQuiet ==
  ASSUME DistinctBatches, MetadataIsKept
  PROVE  Spec => []ScavengedWhenQuiet
<1>1. Init => SInv
  <2> SUFFICES ASSUME Init PROVE OfClients /\ ScavengesFollow
    BY InitGood DEF SInv
  <2>1. OfClients
    BY DEF Init, OfClients, NoCall
  <2>2. ASSUME NEW s \in StreamIds
        PROVE  Listed(s, {}, Callers)
    <3>1. StreamIn(streamMap, s).messages = << >>
      BY NoFunction DEF Init, StreamIn, NewStream
    <3> QED
      BY <3>1, NoFunction DEF Listed
  <2> QED
    BY <2>1, <2>2 DEF ScavengesFollow, Covered
<1>2. SInv /\ [Next]_vars => SInv'
  <2> SUFFICES ASSUME SInv, [Next]_vars PROVE SInv'
    OBVIOUS
  <2>1. StoreGood'
    BY StepGood DEF SInv
  <2>2. CASE UNCHANGED vars
    BY <2>1, <2>2 DEF vars, SInv, OfClients, ScavengesFollow, Covered, Awaited, Listed, ToDelete, PolicyOf
  <2>3. CASE Next
    <3>1. OfClients'
      BY <2>3, OfClientsStep DEF SInv
    <3>2. ASSUME disposal' = "open", NEW s \in StreamIds
          PROVE  Covered(s)'
      BY <2>3, <3>2, CoveredStep
    <3> QED
      BY <2>1, <3>1, <3>2 DEF SInv, ScavengesFollow
  <2> QED
    BY <2>2, <2>3
<1>3. SInv => ScavengedWhenQuiet
  <2> SUFFICES ASSUME SInv, disposal = "open", Quiet, NEW s \in StreamIds,
                      NEW metadata \in NewestMetadata(s)
               PROVE  LET messages == StreamIn(streamMap, s).messages
                          policy == metadata.data
                      IN /\ policy.maxCount # 0 => Len(messages) <= policy.maxCount
                         /\ \A m \in Elements(messages) : m.streamVersion >= policy.truncateBefore
    BY DEF ScavengedWhenQuiet
  <2> DEFINE messages == StreamIn(streamMap, s).messages
             policy == PolicyOf(s)
  <2>1. metadata.data = policy
    <3> DEFINE meta == StreamIn(streamMap, MetaStream(s))
               L == Len(meta.messages)
    <3>1. meta.messages \in Seq(Message) /\ MessagesOrdered(meta.messages)
      BY StreamInGood DEF SInv, StoreGood, RestOK, StreamGood, StreamOK
    <3>2. L \in Nat /\ DOMAIN meta.messages = 1 .. L
      BY <3>1, LenProperties
    <3>3. PICK i \in 1 .. L : metadata = meta.messages[i]
      BY <3>2 DEF NewestMetadata, Elements
    <3>4. L \in 1 .. L /\ meta.messages[L] \in Elements(meta.messages)
      BY <3>2, <3>3 DEF Elements
    <3>5. meta.messages[L].streamVersion <= metadata.streamVersion
      BY <3>4 DEF NewestMetadata
    <3>6. i < L => metadata.streamVersion < meta.messages[L].streamVersion
      BY <3>1, <3>2, <3>3, <3>4 DEF MessagesOrdered
    <3>7. metadata.streamVersion \in Int /\ meta.messages[L].streamVersion \in Int
      <4>1. meta.messages[i] \in Message /\ meta.messages[L] \in Message
        BY <3>1, <3>3, <3>4, ElementOfSeq
      <4> QED
        BY <3>3, <4>1 DEF Message
    <3>8. i = L
      BY <3>2, <3>3, <3>5, <3>6, <3>7
    <3>9. meta.messages # << >>
      BY <3>2, <3>3
    <3> QED
      BY <3>3, <3>8, <3>9 DEF PolicyOf
  <2>2. \A c \in Callers : ~ Awaited(c, s) /\ ToDelete(c, s) = {}
    BY DEF Quiet, Awaited, ToDelete
  <2>3. messages \in Seq(Message) /\ policy \in Policy
    BY ArrayOf, PolicyOfOK DEF SInv
  <2>4. Len(messages) \in Nat /\ DOMAIN messages = 1 .. Len(messages)
    BY <2>3, LenProperties
  <2>5. \A i \in 1 .. Len(messages) : ~ Excess(messages, i, policy)
    BY <2>2, <2>4 DEF SInv, ScavengesFollow, Covered, Listed
  <2>6. policy.maxCount \in Nat /\ policy.truncateBefore \in Nat
    BY <2>3 DEF Policy
  <2> HIDE DEF messages, policy
  <2>7. policy.maxCount # 0 => Len(messages) <= policy.maxCount
    <3> SUFFICES ASSUME policy.maxCount # 0, ~ (Len(messages) <= policy.maxCount) PROVE FALSE
      OBVIOUS
    <3>1. 1 \in 1 .. Len(messages) /\ 1 <= Len(messages) - policy.maxCount
      BY <2>4, <2>6
    <3> QED
      BY <2>5, <3>1 DEF Excess, BeyondMaxCount
  <2>8. \A m \in Elements(messages) : m.streamVersion >= policy.truncateBefore
    <3> SUFFICES ASSUME NEW i \in 1 .. Len(messages)
                 PROVE  messages[i].streamVersion >= policy.truncateBefore
      BY <2>4 DEF Elements
    <3>1. messages[i].streamVersion \in Int
      <4>1. messages[i] \in Message
        BY <2>3, ElementOfSeq
      <4> QED
        BY <4>1 DEF Message
    <3>2. ~ (messages[i].streamVersion < policy.truncateBefore)
      BY <2>5 DEF Excess, Truncated
    <3> QED
      BY <2>6, <3>1, <3>2
  <2> QED
    BY <2>1, <2>7, <2>8 DEF messages
<1> QED
  BY <1>1, <1>2, <1>3, PTL DEF Spec

-----------------------------------------------------------------------------
(***************************************************************************)
(* Nothing else is removed                                                 *)
(*                                                                         *)
(* What a suspended call is to delete was let go by a policy its stream    *)
(* has or had (HasReason), and that stays so: time and versions only grow, *)
(* metadata is kept, and no later message gets the position of an earlier  *)
(* one.                                                                    *)
(***************************************************************************)

\* Message k, to be deleted from stream s, may go; no other is at its position.
MayGo(s, k) ==
  /\ s \in DOMAIN streamMap /\ k \in Message
  /\ k.streamId = s /\ k.position <= globalHeadPosition
  /\ \A m \in Elements(streamMap[s].messages) : m.position = k.position => m = k
  /\ \E policy \in PoliciesOf(s) : FallsOff(s, k, policy)

\* From k.expiresAt on, the message at its position is too old for a policy of its stream.
MayExpire(k) ==
  /\ k.streamId \in DOMAIN streamMap \cap StreamIds /\ k.position <= globalHeadPosition
  /\ \E policy \in PoliciesOf(k.streamId) :
       /\ policy.maxAge # 0
       /\ \A m \in Elements(streamMap[k.streamId].messages) :
            m.position = k.position => m.createdAt + policy.maxAge <= k.expiresAt

HasReason(c) ==
  /\ calls[c].pc = "policed" =>
       calls[c].policy = NoPolicy \/ calls[c].policy \in PoliciesOf(calls[c].streamId)
  /\ calls[c].pc = "scavenging" =>
       \A k \in Elements(calls[c].todo) : MayGo(calls[c].streamId, k)
  /\ \A k \in calls[c].page : MayExpire(k)

RInv == StoreGood /\ OfClients /\ (disposal = "open" => \A c \in Callers : HasReason(c))

\* The containers and the clock only grow, until dispose clears the streams.
LEMMA WritesGrow ==
  ASSUME RestOK, NEW map, MapGood(map, globalHeadPosition),
         NEW all, AllGood(all, globalHeadPosition), Writes(map, all)
  PROVE  globalHeadPosition <= globalHeadPosition' /\ DOMAIN map \subseteq DOMAIN streamMap'
<1>1. PICK s \in AllStreams, data \in Policy : \E ids : Ids(ids) /\ WriteTo(map, all, s, ids, data)
  BY DEF Writes
<1>2. PICK ids : Ids(ids) /\ WriteTo(map, all, s, ids, data)
  BY <1>1
<1>3. Len(ids) \in Nat /\ globalHeadPosition' = globalHeadPosition + Len(ids)
  BY <1>2, LenProperties DEF Ids, WriteTo
<1>4. \A t \in DOMAIN map : t \in DOMAIN streamMap'
  BY WritesFresh
<1> QED
  BY <1>3, <1>4 DEF RestOK

LEMMA StepGrows ==
  ASSUME StoreGood, Next, disposal' = "open"
  PROVE  /\ globalHeadPosition <= globalHeadPosition'
         /\ DOMAIN streamMap \subseteq DOMAIN streamMap'
         /\ now <= now'
<1> DEFINE Goal == /\ globalHeadPosition <= globalHeadPosition'
                   /\ DOMAIN streamMap \subseteq DOMAIN streamMap'
<1>1. /\ RestOK /\ MapGood(streamMap, globalHeadPosition)
      /\ AllGood(inMemoryAllStream, globalHeadPosition) /\ globalHeadPosition \in Int
  BY DEF StoreGood, RestOK
<1>2. ASSUME UNCHANGED <<streamMap, inMemoryAllStream, globalHeadPosition>>
      PROVE  Goal
  BY <1>1, <1>2
<1>3. ASSUME NEW s \in AllStreams, Touch(s)
      PROVE  Goal
  <2>1. DOMAIN streamMap' = DOMAIN streamMap \cup {s}
    BY <1>3, TouchGood
  <2>2. globalHeadPosition' = globalHeadPosition
    BY <1>3 DEF Touch
  <2> QED
    BY <1>1, <2>1, <2>2
<1>4. ASSUME NEW keys, Delete(keys)
      PROVE  Goal
  BY <1>1, <1>4, DeleteGood DEF Delete
<1>5. ASSUME Writes(streamMap, inMemoryAllStream)
      PROVE  Goal
  BY <1>1, <1>5, WritesGrow
<1>6. ASSUME DeletesAndWrites
      PROVE  Goal
  <2>1. PICK gone : Writes(Spliced(streamMap, gone), Without(inMemoryAllStream, gone))
    BY <1>6 DEF DeletesAndWrites
  <2>2. /\ MapGood(Spliced(streamMap, gone), globalHeadPosition)
        /\ DOMAIN Spliced(streamMap, gone) = DOMAIN streamMap
        /\ AllGood(Without(inMemoryAllStream, gone), globalHeadPosition)
    BY <1>1, SplicedGood, WithoutGood
  <2> QED
    BY <1>1, <2>1, <2>2, WritesGrow
<1>7. Effect /\ ~ ClearStreams
  BY StepEffect DEF ClearStreams
<1> HIDE DEF Goal
<1>8. Goal
  BY <1>2, <1>3, <1>4, <1>5, <1>6, <1>7, Zenon DEF Effect
<1>9. now <= now'
  <2>1. now \in Nat /\ (now' = now \/ now' = now + 1)
    BY DEF Next, AppendToStream, SetStreamMetadata, ReadPolicy, StartScavenge, ContinueScavenge,
           DeleteMessage, DeleteStream, StartReadAll, FinishReadAll, NotifyObservers, Dispose,
           ClearStreams, Tick, StoreGood, RestOK
  <2> QED
    BY <2>1
<1> QED
  BY <1>8, <1>9 DEF Goal

\* A write takes nothing away.
LEMMA WritesKeep ==
  ASSUME StoreGood, (\E u \in AllStreams : Touch(u)) \/ Writes(streamMap, inMemoryAllStream), NEW t
  PROVE  Elements(StreamIn(streamMap, t).messages) \subseteq Elements(StreamIn(streamMap', t).messages)
<1>1. CASE \E u \in AllStreams : Touch(u)
  BY <1>1, TouchedIsSame
<1>2. ASSUME NEW s \in AllStreams, NEW data \in Policy, NEW ids, Ids(ids),
             CanWrite(StreamIn(streamMap, s), ExpectedVersionAny, ids),
             WriteTo(streamMap, inMemoryAllStream, s, ids, data)
      PROVE  Elements(StreamIn(streamMap, t).messages) \subseteq Elements(StreamIn(streamMap', t).messages)
  <2>1. CASE t # s
    BY <1>2, <2>1, WriteElsewhere
  <2>2. CASE t = s
    <3> DEFINE new == NewMessages(streamMap, s, ids, data)
               appended == Appended(StreamIn(streamMap, s), new)
    <3>1. RestOK /\ MapGood(streamMap, globalHeadPosition)
      BY DEF StoreGood
    <3>2. \A i \in DOMAIN ids : ids[i] \notin DOMAIN StreamIn(streamMap, s).messageMap
      BY <1>2 DEF CanWrite
    <3>3. Elements(appended.messages) = Elements(StreamIn(streamMap, s).messages) \cup Elements(new)
      BY <1>2, <3>1, <3>2, AppendedGood
    <3>4. streamMap' = Put(streamMap, s, appended)
      BY <1>2 DEF WriteTo
    <3> HIDE DEF new, appended
    <3>5. StreamIn(streamMap', s) = appended
      BY <3>4 DEF Put, StreamIn
    <3> QED
      BY <2>2, <3>3, <3>5
  <2> QED
    BY <2>1, <2>2
<1> QED
  BY <1>1, <1>2 DEF Writes

LEMMA AppendTouchesOrWrites ==
  ASSUME NEW c, NEW t \in StreamIds, NEW e, NEW ids \in Batches, AppendToStream(c, t, e, ids)
  PROVE  (\E u \in AllStreams : Touch(u)) \/ Writes(streamMap, inMemoryAllStream)
<1>1. Ids(ids) /\ t \in AllStreams /\ NoPolicy \in Policy
  BY BatchIds, StreamIdsOK, NoCallOK
<1>2. CASE Touch(t)
  BY <1>1, <1>2
<1>3. CASE CanWrite(StreamIn(streamMap, t), e, ids) /\ WriteTo(streamMap, inMemoryAllStream, t, ids, NoPolicy)
  BY <1>1, <1>3, WritesIntro
<1> QED
  BY <1>2, <1>3 DEF AppendToStream

LEMMA SetMetadataTouchesOrWrites ==
  ASSUME StoreGood, NEW c, NEW t \in StreamIds, NEW e, NEW policy \in Policies,
         SetStreamMetadata(c, t, e, policy)
  PROVE  (\E u \in AllStreams : Touch(u)) \/ Writes(streamMap, inMemoryAllStream)
<1> DEFINE ids == << MetaMessageId(globalHeadPosition + 1) >>
<1>1. Ids(ids) /\ MetaStream(t) \in AllStreams /\ policy \in Policy
  <2>1. globalHeadPosition + 1 \in Nat
    BY DEF StoreGood, RestOK
  <2>2. MetaMessageId(globalHeadPosition + 1) \in AllMessageIds
    BY <2>1 DEF MetaMessageId, AllMessageIds
  <2> QED
    BY <2>2, BatchIds, StreamIdsOK, PoliciesAssumption
<1>2. CASE Touch(MetaStream(t))
  BY <1>1, <1>2
<1>3. CASE /\ CanWrite(StreamIn(streamMap, MetaStream(t)), e, ids)
           /\ WriteTo(streamMap, inMemoryAllStream, MetaStream(t), ids, policy)
  <2> HIDE DEF ids
  <2> QED
    BY <1>1, <1>3, WritesIntro
<1> QED
  BY <1>2, <1>3 DEF SetStreamMetadata

\* Metadata that was set stays: calls delete from the streams of clients only.
LEMMA PoliciesStay ==
  ASSUME DistinctBatches, MetadataIsKept, StoreGood, OfClients, Next, disposal' = "open",
         NEW s \in StreamIds
  PROVE  PoliciesOf(s) \subseteq PoliciesOf(s)'
<1> DEFINE meta == MetaStream(s)
           Goal == Elements(StreamIn(streamMap, meta).messages)
                     \subseteq Elements(StreamIn(streamMap', meta).messages)
<1>1. ASSUME StreamIn(streamMap', meta).messages = StreamIn(streamMap, meta).messages
      PROVE  Goal
  BY <1>1
<1>2. ASSUME UNCHANGED streamMap
      PROVE  Goal
  BY <1>2
<1>3. ASSUME NEW keys, streamMap' = Spliced(streamMap, Found(streamMap, keys)),
             \A k \in keys : k[1] # meta
      PROVE  Goal
  <2>1. \A m \in Found(streamMap, keys) : m.streamId # meta
    BY <1>3, FoundInStream
  <2> QED
    BY <1>1, <1>3, <2>1, SplicedElsewhere, StreamIdsOK
<1>4. /\ meta # DeletedStream /\ meta \notin StreamIds \cup DeletableStreams
      /\ \A t \in StreamIds : MetaStream(t) = meta => t = s
      /\ IsMetaStream(meta)
  BY KindsApart DEF MetadataIsKept
<1> HIDE DEF Goal, meta
<1>5. ASSUME NEW c \in Callers, NEW t \in StreamIds, NEW e, NEW ids \in Batches,
             AppendToStream(c, t, e, ids)
      PROVE  Goal
  BY <1>5, AppendTouchesOrWrites, WritesKeep DEF Goal
<1>6. ASSUME NEW c \in Callers, NEW t \in StreamIds, NEW e, NEW policy \in Policies,
             SetStreamMetadata(c, t, e, policy)
      PROVE  Goal
  BY <1>6, SetMetadataTouchesOrWrites, WritesKeep DEF Goal
<1>7. ASSUME NEW c \in Callers, NEW plan, ScavengeOn(c, plan), calls[c].streamId \in StreamIds
      PROVE  Goal
  <2> DEFINE keys == {<<calls[c].streamId, plan[Len(plan)].messageId>>}
  <2>1. CASE UNCHANGED streamMap
    BY <1>2, <2>1
  <2>2. CASE streamMap' = Spliced(streamMap, Found(streamMap, keys))
    <3>1. \A k \in keys : k[1] # meta
      BY <1>4, <1>7
    <3> QED
      BY <1>3, <2>2, <3>1
  <2> QED
    BY <1>7, <2>1, <2>2 DEF ScavengeOn, Delete
<1>8. ASSUME NEW c \in Callers, StartScavenge(c) \/ ContinueScavenge(c)
      PROVE  Goal
  BY <1>7, <1>8 DEF StartScavenge, ContinueScavenge, OfClients
<1>9. ASSUME NEW t \in DeletableStreams, NEW id, DeleteMessage(t, id)
      PROVE  Goal
  <2>1. \A k \in {<<t, id>>} : k[1] # meta
    BY <1>4
  <2> QED
    BY <1>3, <1>9, <2>1 DEF DeleteMessage, Delete
<1>10. ASSUME NEW t \in StreamIds, NEW e, DeleteStream(t, e)
       PROVE  Goal
  <2> DEFINE keys == {<<t, m.messageId>> : m \in Elements(streamMap[t].messages)}
             gone == Found(streamMap, keys)
             kept == Spliced(streamMap, gone)
             left == Without(inMemoryAllStream, gone)
             ids == << DeletionMessageId(t, e) >>
  <2>1. WriteTo(kept, left, DeletedStream, ids, NoPolicy) \/ streamMap' = kept
    BY <1>10 DEF DeleteStream
  <2>2. \A k \in keys : k[1] # meta
    BY <1>4
  <2>3. \A m \in gone : m.streamId # meta
    BY <2>2, FoundInStream
  <2>4. StreamIn(kept, meta).messages = StreamIn(streamMap, meta).messages
    BY <2>3, SplicedElsewhere, StreamIdsOK DEF meta
  <2> HIDE DEF kept, left, ids
  <2>5. StreamIn(streamMap', meta) = StreamIn(kept, meta)
    BY <1>4, <2>1, WriteElsewhere
  <2> QED
    BY <1>1, <2>4, <2>5
<1>11. ASSUME NEW c \in Callers, FinishReadAll(c)
       PROVE  Goal
  <2> DEFINE keys == {<<m.streamId, m.messageId>> : m \in {m \in calls[c].page : m.expiresAt <= now}}
  <2>1. \A k \in keys : k[1] # meta
    BY <1>4 DEF OfClients
  <2>2. UNCHANGED streamMap \/ Delete(keys)
    BY <1>11 DEF FinishReadAll
  <2> HIDE DEF keys
  <2> QED
    BY <1>2, <1>3, <2>1, <2>2 DEF Delete
<1>12. ASSUME NEW c \in Callers, NEW first, NEW count,
              ReadPolicy(c) \/ StartReadAll(c, first, count)
       PROVE  Goal
  BY <1>2, <1>12 DEF ReadPolicy, StartReadAll
<1>13. ASSUME NotifyObservers \/ Dispose \/ ClearStreams \/ Tick
       PROVE  Goal
  BY <1>2, <1>13 DEF NotifyObservers, Dispose, ClearStreams, Tick
<1>14. Goal
  BY <1>5, <1>6, <1>8, <1>9, <1>10, <1>11, <1>12, <1>13 DEF Next
<1> QED
  BY <1>14 DEF Goal, meta, PoliciesOf

LEMMA PolicyTypes ==
  ASSUME StoreGood, NEW s, NEW policy \in PoliciesOf(s)
  PROVE  policy \in Policy
<1> DEFINE messages == StreamIn(streamMap, MetaStream(s)).messages
<1>1. messages \in Seq(Message)
  BY ArrayOf
<1>2. PICK m \in Elements(messages) : policy = m.data
  BY DEF PoliciesOf
<1> HIDE DEF messages
<1>3. m \in Message
  BY <1>1, ElementOfSeq, LenProperties DEF Elements
<1> QED
  BY <1>2, <1>3 DEF Message

\* The policy a call reads is one that was set, or none.
LEMMA ReadPolicyWasSet ==
  StoreGood => \A s : PolicyOf(s) = NoPolicy \/ PolicyOf(s) \in PoliciesOf(s)
<1> SUFFICES ASSUME StoreGood, NEW s, PolicyOf(s) # NoPolicy
             PROVE  PolicyOf(s) \in PoliciesOf(s)
  OBVIOUS
<1> DEFINE messages == StreamIn(streamMap, MetaStream(s)).messages
<1>1. messages \in Seq(Message)
  BY ArrayOf
<1>2. messages # << >> /\ PolicyOf(s) = messages[Len(messages)].data
  BY DEF PolicyOf
<1> HIDE DEF messages
<1>3. Len(messages) \in DOMAIN messages
  BY <1>1, <1>2, LenProperties, EmptySeq
<1>4. messages[Len(messages)] \in Elements(messages)
  BY <1>3 DEF Elements
<1> QED
  BY <1>2, <1>4 DEF PoliciesOf, messages

LEMMA PrimedReadPolicyWasSet ==
  StoreGood' => \A s : PolicyOf(s)' = NoPolicy \/ PolicyOf(s)' \in PoliciesOf(s)'
<1>1. (StoreGood => \A s : PolicyOf(s) = NoPolicy \/ PolicyOf(s) \in PoliciesOf(s))'
  BY ReadPolicyWasSet, PTL
<1> QED
  BY <1>1 DEF NoPolicy

\* The versions of a stream leave room for the messages behind each of them.
LEMMA VersionsLeaveRoom ==
  ASSUME NEW s, NEW head, NEW stream, StreamGood(s, stream, head), NEW i \in DOMAIN stream.messages
  PROVE  stream.messages[i].streamVersion <= stream.streamVersion - (Len(stream.messages) - i)
<1> DEFINE messages == stream.messages
           L == Len(messages)
           R == stream.streamVersion + 1
           h == [n \in 1 .. L |-> messages[n].streamVersion + 1]
<1>1. /\ messages \in Seq(Message) /\ L \in Nat /\ DOMAIN messages = 1 .. L
      /\ stream.streamVersion \in Int
  BY LenProperties DEF StreamGood, StreamOK
<1>2. \A n \in 1 .. L : /\ messages[n].streamVersion \in Nat
                        /\ messages[n].streamVersion <= stream.streamVersion
  <2>1. \A n \in 1 .. L : messages[n] \in Message
    BY <1>1, ElementOfSeq
  <2> QED
    BY <1>1, <2>1 DEF StreamGood, MessagesOf, Message
<1>3. \A m, n \in 1 .. L : m < n => messages[m].streamVersion < messages[n].streamVersion
  BY <1>1 DEF StreamGood, MessagesOrdered
<1> HIDE DEF messages, L
<1>4. i \in 1 .. L /\ R \in Nat
  <2>1. i \in 1 .. L
    BY <1>1 DEF messages
  <2> QED
    BY <1>1, <1>2, <2>1
<1>5. h \in [1 .. L -> 1 .. R]
  BY <1>1, <1>2, <1>4
<1>6. \A m, n \in 1 .. L : m < n => h[m] < h[n]
  BY <1>2, <1>3
<1>7. h[i] = messages[i].streamVersion + 1
  BY <1>4
<1> HIDE DEF h
<1>8. L - i <= R - h[i]
  BY <1>1, <1>4, <1>5, <1>6, IncreasingLeavesRoom
<1>9. messages[i].streamVersion <= stream.streamVersion - (L - i)
  BY <1>1, <1>2, <1>4, <1>7, <1>8
<1> QED
  BY <1>9 DEF messages, L

\* A message of stream s is at its position alone, and that is not past the head.
LEMMA AloneAtItsPosition ==
  ASSUME StoreGood, NEW s \in DOMAIN streamMap, NEW k \in Elements(streamMap[s].messages)
  PROVE  /\ k \in Message /\ k.streamId = s /\ k.position <= globalHeadPosition
         /\ \A m \in Elements(streamMap[s].messages) : m.position = k.position => m = k
<1> DEFINE messages == streamMap[s].messages
<1>1. /\ StreamGood(s, streamMap[s], globalHeadPosition)
      /\ globalHeadPosition \in Int
  BY DEF StoreGood, MapGood, RestOK
<1>2. /\ messages \in Seq(Message) /\ DOMAIN messages = 1 .. Len(messages) /\ Len(messages) \in Nat
      /\ streamMap[s].position \in Int /\ streamMap[s].position <= globalHeadPosition
      /\ \A i, j \in DOMAIN messages : i < j => messages[i].position < messages[j].position
      /\ \A i \in DOMAIN messages : messages[i].streamId = s /\ messages[i].position <= streamMap[s].position
  BY <1>1, LenProperties DEF StreamGood, StreamOK, MessagesOrdered, MessagesOf
<1> HIDE DEF messages
<1>3. \A i \in DOMAIN messages : messages[i] \in Message /\ messages[i].position \in Nat
  <2>1. \A i \in DOMAIN messages : messages[i] \in Message
    BY <1>2, ElementOfSeq
  <2> QED
    BY <2>1 DEF Message
<1>4. \A i, j \in DOMAIN messages : messages[i].position = messages[j].position => i = j
  BY <1>2, <1>3
<1>5. PICK i \in DOMAIN messages : k = messages[i]
  BY DEF Elements, messages
<1>6. \A m \in Elements(messages) : m.position = k.position => m = k
  BY <1>4, <1>5 DEF Elements
<1> QED
  BY <1>1, <1>2, <1>3, <1>5, <1>6 DEF messages

\* A scavenge that begins lists only messages that its policy lets go.
LEMMA PlanMayGo ==
  ASSUME StoreGood, NEW s \in StreamIds, NEW policy, policy = NoPolicy \/ policy \in PoliciesOf(s),
         NEW k \in Elements(ScavengePlan(StreamIn(streamMap, s).messages, policy))
  PROVE  MayGo(s, k) /\ k \in Elements(streamMap[s].messages)
<1> DEFINE messages == StreamIn(streamMap, s).messages
           I == Deletions(messages, policy)
           L == Len(messages)
           N == Cardinality(I)
<1>1. messages \in Seq(Message) /\ L \in Nat /\ DOMAIN messages = 1 .. L
  BY ArrayOf, LenProperties
<1>2. \A n \in I : \E i \in 1 .. L :
        /\ n = 2 * i \/ n = 2 * i - 1
        /\ \/ BeyondMaxCount(messages, i, policy)
           \/ PastMaxAge(messages, i, policy)
           \/ Truncated(messages, i, policy)
  BY <1>1 DEF Deletions
<1> HIDE DEF I, L, messages
<1>3. I \subseteq 1 .. 2 * L
  <2> SUFFICES ASSUME NEW n \in I PROVE n \in 1 .. 2 * L
    OBVIOUS
  <2>1. PICK i \in 1 .. L : n = 2 * i \/ n = 2 * i - 1
    BY <1>2
  <2> QED
    BY <1>1, <2>1
<1>4. IsFiniteSet(I) /\ I \in SUBSET Int
  <2>1. IsFiniteSet(1 .. 2 * L)
    <3>1. 1 \in Int /\ 2 * L \in Int
      BY <1>1
    <3> QED
      BY <3>1, FS_Interval
  <2>2. IsFiniteSet(I)
    BY <1>3, <2>1, FS_Subset
  <2> QED
    BY <1>1, <1>3, <2>2
<1>5. PICK n \in 1 .. N : k = messages[(Nth(I, n) + 1) \div 2]
  <2>1. ScavengePlan(messages, policy) = [n \in 1 .. N |-> messages[(Nth(I, n) + 1) \div 2]]
    BY DEF ScavengePlan, I
  <2> HIDE DEF N
  <2> QED
    BY <2>1 DEF Elements, messages
<1>6. Nth(I, n) \in I
  BY <1>4, NthExists
<1>7. PICK i \in 1 .. L :
        /\ Nth(I, n) = 2 * i \/ Nth(I, n) = 2 * i - 1
        /\ \/ BeyondMaxCount(messages, i, policy)
           \/ PastMaxAge(messages, i, policy)
           \/ Truncated(messages, i, policy)
  BY <1>2, <1>6
<1>8. k = messages[i]
  <2>1. (2 * i + 1) \div 2 = i /\ (2 * i - 1 + 1) \div 2 = i
    BY <1>1
  <2> QED
    BY <1>5, <1>7, <2>1
<1>9. s \in DOMAIN streamMap /\ messages = streamMap[s].messages
  <2>1. messages # << >>
    BY <1>1, <1>7, NoFunction
  <2> QED
    BY <2>1 DEF messages, StreamIn, NewStream
<1>10. k \in Elements(streamMap[s].messages)
  BY <1>1, <1>8, <1>9 DEF Elements
<1>11. messages[i] \in Message /\ messages[i].streamVersion \in Nat
  <2>1. messages[i] \in Message
    BY <1>1, ElementOfSeq DEF L
  <2> QED
    BY <2>1 DEF Message
<1>12. policy \in PoliciesOf(s)
  <2> SUFFICES ASSUME policy = NoPolicy PROVE FALSE
    OBVIOUS
  <2> QED
    BY <1>7, <1>11 DEF BeyondMaxCount, PastMaxAge, Truncated, NoPolicy
<1>13. FallsOff(s, k, policy)
  <2>1. CASE BeyondMaxCount(messages, i, policy)
    <3>1. messages[i].streamVersion <= streamMap[s].streamVersion - (L - i)
      <4>1. StreamGood(s, streamMap[s], globalHeadPosition)
        BY <1>9 DEF StoreGood, MapGood
      <4> QED
        BY <1>1, <1>9, <4>1, VersionsLeaveRoom DEF L
    <3>2. streamMap[s].streamVersion \in Int /\ policy.maxCount \in Nat
      BY <1>9, <1>12, PolicyTypes DEF StoreGood, MapGood, StreamGood, StreamOK, Policy
    <3>3. policy.maxCount # 0 /\ i <= L - policy.maxCount
      BY <2>1 DEF BeyondMaxCount, L
    <3>4. messages[i].streamVersion <= streamMap[s].streamVersion - policy.maxCount
      BY <1>1, <1>11, <3>1, <3>2, <3>3
    <3> QED
      BY <1>8, <3>3, <3>4 DEF FallsOff
  <2>2. CASE PastMaxAge(messages, i, policy)
    BY <1>8, <2>2 DEF PastMaxAge, FallsOff
  <2>3. CASE Truncated(messages, i, policy)
    BY <1>8, <2>3 DEF Truncated, FallsOff
  <2> QED
    BY <1>7, <2>1, <2>2, <2>3
<1> QED
  BY <1>9, <1>10, <1>12, <1>13, AloneAtItsPosition DEF MayGo

\* What a readAll remembers of a message is when a policy of its stream lets it go.
LEMMA PageMayExpire ==
  ASSUME StoreGood, disposal = "open", NEW m \in Elements(inMemoryAllStream),
         ~ IsMetaStream(m.streamId), PolicyOf(m.streamId).maxAge # 0
  PROVE  MayExpire([streamId |-> m.streamId, messageId |-> m.messageId, position |-> m.position,
                    expiresAt |-> m.createdAt + PolicyOf(m.streamId).maxAge])
<1> DEFINE s == m.streamId
           k == [streamId |-> s, messageId |-> m.messageId, position |-> m.position,
                 expiresAt |-> m.createdAt + PolicyOf(s).maxAge]
<1>1. PICK t \in DOMAIN streamMap : m \in Elements(streamMap[t].messages)
  BY DEF StoreGood, Merged
<1>2. /\ m \in Message /\ m.streamId = t /\ m.position <= globalHeadPosition
      /\ \A n \in Elements(streamMap[t].messages) : n.position = m.position => n = m
  BY <1>1, AloneAtItsPosition
<1>3. s \in DOMAIN streamMap \cap StreamIds
  BY <1>1, <1>2 DEF StoreGood, MapGood, AllStreams, IsMetaStream
<1>4. PolicyOf(s) \in PoliciesOf(s)
  BY ReadPolicyWasSet DEF NoPolicy
<1>5. m.createdAt + PolicyOf(s).maxAge <= k.expiresAt
  <2>1. PolicyOf(s) \in Policy
    BY PolicyOfOK
  <2>2. m.createdAt \in Nat /\ PolicyOf(s).maxAge \in Nat
    BY <1>2, <2>1 DEF Message, Policy
  <2>3. k.expiresAt = m.createdAt + PolicyOf(s).maxAge
    OBVIOUS
  <2> QED
    BY <2>2, <2>3
<1>6. k.streamId = s /\ k.position = m.position
  OBVIOUS
<1> HIDE DEF k
<1>7. MayExpire(k)
  BY <1>2, <1>3, <1>4, <1>5, <1>6 DEF MayExpire
<1> QED
  BY <1>7 DEF k

\* Later messages get later positions, policies stay and time goes on.
LEMMA NoNewAtOldPositions ==
  ASSUME StoreGood, Next, disposal' = "open", NEW s \in DOMAIN streamMap,
         NEW position \in Nat, position <= globalHeadPosition,
         NEW m \in Elements(streamMap'[s].messages), m.position = position
  PROVE  m \in Elements(streamMap[s].messages)
<1>1. s \in DOMAIN streamMap'
  BY StepGrows
<1>2. m \notin Elements(streamMap[s].messages) => m.position > globalHeadPosition
  BY <1>1, StepNeverReassigns
<1>3. globalHeadPosition \in Int
  BY DEF StoreGood, RestOK
<1> QED
  BY <1>2, <1>3

LEMMA MayGoStays ==
  ASSUME StoreGood, Next, disposal' = "open", NEW s, PoliciesOf(s) \subseteq PoliciesOf(s)',
         NEW k, MayGo(s, k)
  PROVE  MayGo(s, k)'
<1>1. /\ s \in DOMAIN streamMap /\ k \in Message
      /\ k.streamId = s /\ k.position <= globalHeadPosition
      /\ \A m \in Elements(streamMap[s].messages) : m.position = k.position => m = k
  BY DEF MayGo
<1>2. PICK policy \in PoliciesOf(s) : FallsOff(s, k, policy)
  BY DEF MayGo
<1>3. /\ globalHeadPosition \in Int /\ globalHeadPosition' \in Int
      /\ globalHeadPosition <= globalHeadPosition'
      /\ s \in DOMAIN streamMap'
      /\ now \in Nat /\ now' \in Nat /\ now <= now'
  BY <1>1, StepGrows, StepGood DEF StoreGood, RestOK
<1>4. k.position \in Nat /\ k.createdAt \in Nat /\ k.streamVersion \in Nat
  BY <1>1 DEF Message
<1>5. \A m \in Elements(streamMap'[s].messages) : m.position = k.position => m = k
  BY <1>1, <1>4, NoNewAtOldPositions
<1>6. /\ streamMap[s].streamVersion \in Int /\ streamMap'[s].streamVersion \in Int
      /\ streamMap[s].streamVersion <= streamMap'[s].streamVersion
  <2>1. streamMap'[s].streamVersion >= streamMap[s].streamVersion
    BY <1>1, <1>3, StepNeverReassigns
  <2>2. StoreGood'
    BY StepGood
  <2> QED
    BY <1>1, <1>3, <2>1, <2>2 DEF StoreGood, MapGood, StreamGood, StreamOK
<1>7. policy.maxAge \in Nat /\ policy.maxCount \in Nat /\ policy.truncateBefore \in Nat
  BY PolicyTypes DEF Policy
<1>8. FallsOff(s, k, policy)'
  <2>1. k.createdAt + policy.maxAge <= now => k.createdAt + policy.maxAge <= now'
    BY <1>3, <1>4, <1>7
  <2>2. k.streamVersion <= streamMap[s].streamVersion - policy.maxCount
          => k.streamVersion <= streamMap'[s].streamVersion - policy.maxCount
    BY <1>4, <1>6, <1>7
  <2> QED
    BY <1>2, <2>1, <2>2 DEF FallsOff
<1>9. k.position <= globalHeadPosition'
  BY <1>1, <1>3, <1>4
<1> QED
  BY <1>1, <1>2, <1>3, <1>5, <1>8, <1>9 DEF MayGo

LEMMA MayExpireStays ==
  ASSUME StoreGood, Next, disposal' = "open", NEW k \in Expiring,
         PoliciesOf(k.streamId) \subseteq PoliciesOf(k.streamId)', MayExpire(k)
  PROVE  MayExpire(k)'
<1> DEFINE s == k.streamId
<1>1. s \in DOMAIN streamMap /\ s \in StreamIds /\ k.position <= globalHeadPosition
  BY DEF MayExpire
<1>2. PICK policy \in PoliciesOf(s) :
        /\ policy.maxAge # 0
        /\ \A m \in Elements(streamMap[s].messages) :
             m.position = k.position => m.createdAt + policy.maxAge <= k.expiresAt
  BY DEF MayExpire
<1>3. /\ globalHeadPosition \in Int /\ globalHeadPosition' \in Int
      /\ globalHeadPosition <= globalHeadPosition'
      /\ s \in DOMAIN streamMap'
  BY <1>1, StepGrows, StepGood DEF StoreGood, RestOK
<1>4. k.position \in Nat
  BY DEF Expiring
<1>5. \A m \in Elements(streamMap'[s].messages) :
        m.position = k.position => m.createdAt + policy.maxAge <= k.expiresAt
  BY <1>1, <1>2, <1>4, NoNewAtOldPositions
<1>6. policy \in PoliciesOf(s)'
  BY <1>2
<1>7. k.position <= globalHeadPosition'
  BY <1>1, <1>3, <1>4
<1> QED
  BY <1>1, <1>2, <1>3, <1>5, <1>6, <1>7 DEF MayExpire

\* Every call goes on having a reason for what it is to delete.
LEMMA ReasonStep ==
  ASSUME DistinctBatches, MetadataIsKept, RInv, Next, disposal' = "open", NEW c \in Callers
  PROVE  HasReason(c)'
<1>1. StoreGood /\ OfClients /\ StoreGood'
  BY StepGood DEF RInv
<1>2. disposal = "open"
  BY <1>1, StepRest DEF Dispose, ClearStreams
<1>3. HasReason(c) /\ calls \in [Callers -> Call] /\ calls[c] \in Call
  BY <1>1, <1>2 DEF RInv, StoreGood, RestOK
<1>4. \A s \in StreamIds : PoliciesOf(s) \subseteq PoliciesOf(s)'
  BY <1>1, PoliciesStay
<1>5. \A k \in calls[c].page : MayExpire(k)'
  <2> SUFFICES ASSUME NEW k \in calls[c].page PROVE MayExpire(k)'
    OBVIOUS
  <2>1. k \in Expiring /\ MayExpire(k)
    BY <1>3 DEF HasReason, Call
  <2>2. PoliciesOf(k.streamId) \subseteq PoliciesOf(k.streamId)'
    BY <1>4, <2>1 DEF MayExpire
  <2> QED
    BY <1>1, <2>1, <2>2, MayExpireStays
<1>6. \A s \in StreamIds : \A k : MayGo(s, k) => MayGo(s, k)'
  BY <1>1, <1>4, MayGoStays
<1>7. ASSUME calls'[c] = calls[c]
      PROVE  HasReason(c)'
  <2>1. calls[c].pc \in {"policed", "scavenging"} => calls[c].streamId \in StreamIds
    BY <1>1 DEF OfClients
  <2> QED
    BY <1>3, <1>4, <1>5, <1>6, <1>7, <2>1 DEF HasReason
<1>8. ASSUME NEW call, calls'[c] = call, call.pc \notin {"policed", "scavenging"}, call.page = {}
      PROVE  HasReason(c)'
  BY <1>8 DEF HasReason
<1>9. NoCall.pc = "idle" /\ NoCall.page = {}
  BY DEF NoCall
<1>10. ASSUME NEW t \in StreamIds, NEW e, NEW ids, AppendToStream(c, t, e, ids)
       PROVE  HasReason(c)'
  <2> DEFINE call == [NoCall EXCEPT !.pc = "appended", !.streamId = t]
  <2>1. calls'[c] = call \/ calls'[c] = calls[c]
    BY <1>3, <1>10 DEF AppendToStream, Suspend
  <2>2. call.pc = "appended" /\ call.page = {}
    BY DEF NoCall
  <2> HIDE DEF call
  <2> QED
    BY <1>7, <1>8, <2>1, <2>2
<1>11. ASSUME NEW t \in StreamIds, NEW e, NEW policy \in Policies, SetStreamMetadata(c, t, e, policy)
       PROVE  HasReason(c)'
  <2> DEFINE ids == << MetaMessageId(globalHeadPosition + 1) >>
             call == [NoCall EXCEPT !.pc = "policed", !.streamId = t, !.policy = policy]
  <2>1. CASE UNCHANGED calls
    BY <1>7, <2>1
  <2>2. CASE /\ WriteTo(streamMap, inMemoryAllStream, MetaStream(t), ids, policy)
             /\ Suspend(c, call)
    <3>1. policy = NoPolicy \/ policy \in PoliciesOf(t)'
      <4>1. PolicyOf(t)' = policy
        BY <1>1, <2>2, WrittenPolicy, PoliciesAssumption
      <4> QED
        BY <1>1, <4>1, PrimedReadPolicyWasSet
    <3>2. calls'[c] = call
      BY <1>3, <2>2 DEF Suspend
    <3>3. call.pc = "policed" /\ call.streamId = t /\ call.policy = policy /\ call.page = {}
      BY DEF NoCall
    <3> HIDE DEF call
    <3> QED
      BY <3>1, <3>2, <3>3 DEF HasReason
  <2> QED
    BY <1>11, <2>1, <2>2 DEF SetStreamMetadata
<1>12. ASSUME ReadPolicy(c)
       PROVE  HasReason(c)'
  <2> DEFINE u == calls[c].streamId
             call == [calls[c] EXCEPT !.pc = "policed", !.policy = PolicyOf(u)]
  <2>1. calls'[c] = call /\ UNCHANGED streamMap
    BY <1>3, <1>12 DEF ReadPolicy, Suspend
  <2>2. call.pc = "policed" /\ call.streamId = u /\ call.policy = PolicyOf(u) /\ call.page = calls[c].page
    BY <1>3 DEF Call
  <2>3. PolicyOf(u) = NoPolicy \/ PolicyOf(u) \in PoliciesOf(u)
    BY <1>1, ReadPolicyWasSet
  <2>4. u \in StreamIds
    BY <1>1, <1>12 DEF OfClients, ReadPolicy
  <2> HIDE DEF call
  <2> QED
    BY <1>4, <1>5, <2>1, <2>2, <2>3, <2>4 DEF HasReason
<1>13. ASSUME NEW plan \in Seq(Message), ScavengeOn(c, plan), calls[c].streamId \in StreamIds,
              \A k \in Elements(plan) : MayGo(calls[c].streamId, k)
       PROVE  HasReason(c)'
  <2> DEFINE u == calls[c].streamId
             todo == SubSeq(plan, 1, Len(plan) - 1)
             call == [calls[c] EXCEPT !.pc = "scavenging", !.todo = todo]
  <2>1. CASE Finish(c)
    <3>1. calls'[c] = NoCall
      BY <1>3, <2>1 DEF Finish
    <3> QED
      BY <1>8, <1>9, <3>1
  <2>2. CASE plan # << >> /\ Suspend(c, call)
    <3>1. calls'[c] = call
      BY <1>3, <2>2 DEF Suspend
    <3>2. call.pc = "scavenging" /\ call.streamId = u /\ call.todo = todo /\ call.page = calls[c].page
      BY <1>3 DEF Call
    <3>3. Elements(todo) \subseteq Elements(plan)
      <4>1. Len(plan) \in Nat /\ Len(plan) # 0 /\ DOMAIN plan = 1 .. Len(plan)
        BY <1>13, <2>2, LenProperties, EmptySeq
      <4>2. \A i \in 1 .. Len(plan) - 1 : i \in 1 .. Len(plan)
        BY <4>1
      <4>3. \A i \in 1 .. Len(plan) - 1 : plan[i] \in Message
        BY <1>13, <4>2, ElementOfSeq
      <4>4. /\ DOMAIN todo = 1 .. Len(plan) - 1
            /\ \A i \in 1 .. Len(plan) - 1 : todo[i] = plan[i]
        BY <4>1, <4>3, SubSeqProperties
      <4> QED
        BY <4>1, <4>2, <4>4 DEF Elements
    <3> HIDE DEF call, todo
    <3>4. PICK s \in StreamIds : s = u
      BY <1>13
    <3>5. \A k \in Elements(todo) : MayGo(s, k)'
      BY <1>6, <1>13, <3>3, <3>4
    <3> QED
      BY <1>5, <3>1, <3>2, <3>4, <3>5 DEF HasReason
  <2> QED
    BY <1>13, <2>1, <2>2 DEF ScavengeOn
<1>14. ASSUME StartScavenge(c)
       PROVE  HasReason(c)'
  <2> DEFINE u == calls[c].streamId
             plan == ScavengePlan(StreamIn(streamMap, u).messages, calls[c].policy)
  <2>1. ScavengeOn(c, plan) /\ u \in StreamIds /\ calls[c].pc = "policed"
    BY <1>1, <1>14 DEF StartScavenge, OfClients
  <2>2. plan \in Seq(Message)
    BY <1>1, ArrayOf, ScavengePlanOK
  <2>3. \A k \in Elements(plan) : MayGo(u, k)
    BY <1>1, <1>3, <2>1, PlanMayGo DEF HasReason
  <2> HIDE DEF plan
  <2> QED
    BY <1>13, <2>1, <2>2, <2>3
<1>15. ASSUME ContinueScavenge(c)
       PROVE  HasReason(c)'
  <2>1. ScavengeOn(c, calls[c].todo) /\ calls[c].streamId \in StreamIds /\ calls[c].pc = "scavenging"
    BY <1>1, <1>15 DEF ContinueScavenge, OfClients
  <2> QED
    BY <1>3, <1>13, <2>1 DEF HasReason, Call
<1>16. ASSUME NEW first, NEW count, StartReadAll(c, first, count)
       PROVE  HasReason(c)'
  <2> DEFINE mortal == {i \in DOMAIN inMemoryAllStream :
                          /\ first <= i /\ i < first + count
                          /\ ~ IsMetaStream(inMemoryAllStream[i].streamId)
                          /\ PolicyOf(inMemoryAllStream[i].streamId).maxAge # 0}
             expiring(m) == [streamId |-> m.streamId, messageId |-> m.messageId,
                             position |-> m.position,
                             expiresAt |-> m.createdAt + PolicyOf(m.streamId).maxAge]
             page == {expiring(inMemoryAllStream[i]) : i \in mortal}
             call == [NoCall EXCEPT !.pc = "reading", !.page = page]
  <2>1. calls'[c] = call /\ UNCHANGED <<streamMap, globalHeadPosition>>
    BY <1>3, <1>16 DEF StartReadAll, Suspend
  <2>2. \A k \in page : MayExpire(k)
    <3> SUFFICES ASSUME NEW i \in mortal PROVE MayExpire(expiring(inMemoryAllStream[i]))
      OBVIOUS
    <3>1. inMemoryAllStream[i] \in Elements(inMemoryAllStream)
      BY DEF Elements
    <3> QED
      BY <1>1, <1>2, <3>1, PageMayExpire
  <2> HIDE DEF page
  <2>3. call.pc = "reading" /\ call.page = page
    BY DEF NoCall
  <2> HIDE DEF call
  <2>4. \A k \in page : MayExpire(k)'
    BY <2>1, <2>2 DEF MayExpire, PoliciesOf
  <2> QED
    BY <2>1, <2>3, <2>4 DEF HasReason
<1>17. ASSUME FinishReadAll(c)
       PROVE  HasReason(c)'
  <2>1. calls'[c] = NoCall
    BY <1>3, <1>17 DEF FinishReadAll, Finish
  <2> QED
    BY <1>8, <1>9, <2>1
<1>18. ASSUME NEW d \in Callers, d # c,
              \/ \E t \in StreamIds, e \in ExpectedVersions, ids \in Batches : AppendToStream(d, t, e, ids)
              \/ \E t \in StreamIds, e \in ExpectedVersions, policy \in Policies :
                   SetStreamMetadata(d, t, e, policy)
              \/ ReadPolicy(d) \/ StartScavenge(d) \/ ContinueScavenge(d)
              \/ \E first, count : StartReadAll(d, first, count)
              \/ FinishReadAll(d)
       PROVE  HasReason(c)'
  <2>1. calls'[c] = calls[c]
    BY <1>3, <1>18 DEF AppendToStream, SetStreamMetadata, ReadPolicy, StartScavenge, ContinueScavenge,
                       ScavengeOn, StartReadAll, FinishReadAll, Suspend, Finish
  <2> QED
    BY <1>7, <2>1
<1>19. ASSUME UNCHANGED calls
       PROVE  HasReason(c)'
  BY <1>7, <1>19
<1> QED
  BY <1>10, <1>11, <1>12, <1>14, <1>15, <1>16, <1>17, <1>18, <1>19
     DEF Next, DeleteMessage, DeleteStream, NotifyObservers, Dispose, ClearStreams, Tick

\* What deleting by the key <<u, id>> takes from stream s.
LEMMA TakenById ==
  ASSUME DistinctBatches, StoreGood, NEW keys, Delete(keys), NEW s \in DOMAIN streamMap,
         NEW m \in Elements(streamMap[s].messages) \ Elements(StreamIn(streamMap', s).messages)
  PROVE  \E k \in keys : k[1] = s /\ k[2] = m.messageId
<1> DEFINE gone == Found(streamMap, keys)
<1>1. /\ streamMap[s].messages \in Seq(Message)
      /\ StreamIn(streamMap, s) = streamMap[s]
  BY DEF StreamIn, StoreGood, MapGood, StreamGood, StreamOK
<1>2. StreamIn(streamMap', s).messages = Without(streamMap[s].messages, gone)
  BY <1>1, SplicedArray DEF Delete
<1>3. m \in gone
  BY <1>1, <1>2, WithoutProperties
<1>4. PICK k \in keys : /\ k[1] \in DOMAIN streamMap /\ k[2] \in DOMAIN streamMap[k[1]].messageMap
                        /\ m = streamMap[k[1]].messageMap[k[2]]
  BY <1>3 DEF Found
<1>5. StreamGood(k[1], streamMap[k[1]], globalHeadPosition)
  BY <1>4 DEF StoreGood, MapGood
<1>6. m \in Elements(streamMap[k[1]].messages) /\ m.messageId = k[2]
  BY <1>4, <1>5 DEF StreamGood, Indexed
<1>7. m.streamId = k[1] /\ m.streamId = s
  BY <1>4, <1>6, AloneAtItsPosition
<1> QED
  BY <1>6, <1>7

\* A call only removes what it has a reason to, or what has the id of it.
LEMMA StepRemovesExcess ==
  ASSUME DistinctBatches, MetadataIsKept, RInv, Next,
         NEW c \in Callers, NEW s \in DOMAIN streamMap \cap StreamIds, NEW m \in Removed(c, s)
  PROVE  IdWasReused(c, m) \/ \E policy \in PoliciesOf(s) : FallsOff(s, m, policy)
<1> DEFINE Goal == IdWasReused(c, m) \/ \E policy \in PoliciesOf(s) : FallsOff(s, m, policy)
<1>1. StoreGood /\ OfClients /\ calls \in [Callers -> Call]
  BY DEF RInv, StoreGood, RestOK
<1>2. /\ calls'[c] # calls[c]
      /\ m \in Elements(streamMap[s].messages) \ Elements(StreamIn(streamMap', s).messages)
  BY DEF Removed
<1>3. StreamIn(streamMap, s) = streamMap[s] /\ s \in DOMAIN streamMap /\ s \in StreamIds
  BY DEF StreamIn
<1>4. StreamIn(streamMap', s).messages # StreamIn(streamMap, s).messages
  BY <1>2, <1>3
<1>5. m \in Message /\ m.streamId = s
  BY <1>1, <1>2, AloneAtItsPosition
<1>6. disposal = "open" => HasReason(c)
  BY DEF RInv
<1> HIDE DEF Goal
<1>7. ASSUME NEW k, k.position = m.position, MayGo(s, k)
      PROVE  Goal
  <2>1. m = k
    BY <1>2, <1>7 DEF MayGo
  <2> QED
    BY <1>7, <2>1 DEF MayGo, Goal
<1>8. ASSUME NEW plan \in Seq(Message), ScavengeOn(c, plan),
             \A k \in Elements(plan) :
               /\ MayGo(calls[c].streamId, k)
               /\ k \in Elements(calls[c].todo) \/ k \in Elements(streamMap[calls[c].streamId].messages)
      PROVE  Goal
  <2> DEFINE last == plan[Len(plan)]
             keys == {<<calls[c].streamId, last.messageId>>}
  <2>1. plan # << >> /\ Delete(keys)
    BY <1>4, <1>8 DEF ScavengeOn
  <2>2. last \in Elements(plan)
    <3>1. Len(plan) \in DOMAIN plan
      BY <1>8, <2>1, LenProperties, EmptySeq
    <3> QED
      BY <3>1 DEF Elements
  <2> HIDE DEF last
  <2>3. calls[c].streamId = s /\ last.messageId = m.messageId
    <3>1. \E k \in keys : k[1] = s /\ k[2] = m.messageId
      BY <1>1, <1>2, <2>1, TakenById
    <3> QED
      BY <3>1
  <2>4. MayGo(s, last)
    BY <1>8, <2>2, <2>3
  <2>5. CASE last.position = m.position
    BY <1>7, <2>4, <2>5
  <2>6. CASE last.position # m.position /\ last \in Elements(calls[c].todo)
    <3>1. last.streamId = m.streamId
      BY <1>5, <2>4 DEF MayGo
    <3> QED
      BY <2>3, <2>6, <3>1 DEF Goal, IdWasReused
  <2>7. CASE last \in Elements(streamMap[s].messages)
    <3>1. StreamGood(s, streamMap[s], globalHeadPosition)
      BY <1>1 DEF StoreGood, MapGood
    <3>2. m = last
      BY <1>2, <2>3, <2>7, <3>1 DEF StreamGood, Indexed
    <3> QED
      BY <2>5, <3>2
  <2> QED
    BY <1>8, <2>2, <2>3, <2>5, <2>6, <2>7
<1>9. ASSUME StartScavenge(c)
      PROVE  Goal
  <2> DEFINE u == calls[c].streamId
             plan == ScavengePlan(StreamIn(streamMap, u).messages, calls[c].policy)
  <2>1. ScavengeOn(c, plan) /\ u \in StreamIds /\ calls[c].pc = "policed"
    BY <1>1, <1>9 DEF StartScavenge, OfClients
  <2>2. disposal = "open"
    BY <1>4, <2>1 DEF ScavengeOn
  <2>3. plan \in Seq(Message)
    BY <1>1, ArrayOf, ScavengePlanOK
  <2>4. \A k \in Elements(plan) : MayGo(u, k) /\ k \in Elements(streamMap[u].messages)
    BY <1>1, <1>6, <2>1, <2>2, PlanMayGo DEF HasReason
  <2> HIDE DEF plan
  <2> QED
    BY <1>8, <2>1, <2>3, <2>4
<1>10. ASSUME ContinueScavenge(c)
       PROVE  Goal
  <2>1. ScavengeOn(c, calls[c].todo) /\ calls[c].pc = "scavenging" /\ calls[c].todo \in Seq(Message)
    BY <1>1, <1>10 DEF ContinueScavenge, Call
  <2>2. disposal = "open"
    BY <1>4, <2>1 DEF ScavengeOn
  <2> QED
    BY <1>6, <1>8, <2>1, <2>2 DEF HasReason
<1>11. ASSUME FinishReadAll(c)
       PROVE  Goal
  <2> DEFINE expired == {k \in calls[c].page : k.expiresAt <= now}
             keys == {<<k.streamId, k.messageId>> : k \in expired}
  <2>1. disposal = "open" /\ Delete(keys)
    BY <1>4, <1>11 DEF FinishReadAll
  <2>2. \E key \in keys : key[1] = s /\ key[2] = m.messageId
    BY <1>1, <1>2, <2>1, TakenById
  <2>3. PICK k \in expired : k.streamId = s /\ k.messageId = m.messageId
    BY <2>2
  <2>4. CASE k.position # m.position
    BY <1>5, <2>3, <2>4 DEF Goal, IdWasReused
  <2>5. CASE k.position = m.position
    <3>1. PICK policy \in PoliciesOf(s) : policy.maxAge # 0 /\ m.createdAt + policy.maxAge <= k.expiresAt
      BY <1>2, <1>6, <2>1, <2>3, <2>5 DEF HasReason, MayExpire
    <3>2. m.createdAt \in Nat /\ policy.maxAge \in Nat /\ k.expiresAt \in Nat /\ now \in Nat
      <4>1. k \in Expiring /\ policy \in Policy
        BY <1>1, PolicyTypes DEF Call
      <4> QED
        BY <1>1, <1>5, <4>1 DEF Message, Policy, Expiring, StoreGood, RestOK
    <3>3. m.createdAt + policy.maxAge <= now
      BY <2>3, <3>1, <3>2
    <3> QED
      BY <3>1, <3>3 DEF Goal, FallsOff
  <2> QED
    BY <2>4, <2>5
<1>12. ~ ReadPolicy(c) /\ \A first, count : ~ StartReadAll(c, first, count)
  BY <1>4 DEF ReadPolicy, StartReadAll
<1>13. ASSUME (\E u \in AllStreams : Touch(u)) \/ Writes(streamMap, inMemoryAllStream)
       PROVE  FALSE
  BY <1>1, <1>2, <1>3, <1>13, WritesKeep
<1>14. ASSUME NEW t \in StreamIds, NEW e \in ExpectedVersions, NEW ids \in Batches,
              AppendToStream(c, t, e, ids)
       PROVE  FALSE
  BY <1>13, <1>14, AppendTouchesOrWrites
<1>15. ASSUME NEW t \in StreamIds, NEW e \in ExpectedVersions, NEW policy \in Policies,
              SetStreamMetadata(c, t, e, policy)
       PROVE  FALSE
  BY <1>1, <1>13, <1>15, SetMetadataTouchesOrWrites
<1>16. \A d \in Callers :
         /\ \/ \E t, e, ids : AppendToStream(d, t, e, ids)
            \/ \E t, e, policy : SetStreamMetadata(d, t, e, policy)
            \/ ReadPolicy(d) \/ StartScavenge(d) \/ ContinueScavenge(d)
            \/ \E first, count : StartReadAll(d, first, count)
            \/ FinishReadAll(d)
         => d = c
  BY <1>1, <1>2 DEF AppendToStream, SetStreamMetadata, ReadPolicy, StartScavenge, ContinueScavenge,
                    ScavengeOn, StartReadAll, FinishReadAll, Suspend, Finish
<1>17. ~ UNCHANGED calls
  BY <1>2
<1>18. Goal
  BY <1>9, <1>10, <1>11, <1>12, <1>14, <1>15, <1>16, <1>17
     DEF Next, DeleteMessage, DeleteStream, NotifyObservers, Dispose, ClearStreams, Tick
<1> QED
  BY <1>18 DEF Goal

\* However old the policies and the lists the calls work from, they remove what the metadata
\* of the stream lets go, or what was appended under the id of it.
THEOREM RemovesOnlyExcess ==
  ASSUME DistinctBatches, MetadataIsKept
  PROVE  Spec => OnlyExcessIsRemoved
<1>1. Init => RInv
  <2> SUFFICES ASSUME Init PROVE OfClients /\ \A c \in Callers : HasReason(c)
    BY InitGood DEF RInv
  <2> QED
    BY DEF Init, OfClients, HasReason, NoCall
<1>2. RInv /\ [Next]_vars => RInv'
  <2> SUFFICES ASSUME RInv, [Next]_vars PROVE RInv'
    OBVIOUS
  <2>1. StoreGood'
    BY StepGood DEF RInv
  <2>2. CASE UNCHANGED vars
    BY <2>1, <2>2 DEF vars, RInv, OfClients, HasReason, MayGo, MayExpire, PoliciesOf, FallsOff
  <2>3. CASE Next
    <3>1. OfClients'
      BY <2>3, OfClientsStep DEF RInv
    <3>2. disposal' = "open" => \A c \in Callers : HasReason(c)'
      BY <2>3, ReasonStep
    <3> QED
      BY <2>1, <3>1, <3>2 DEF RInv
  <2> QED
    BY <2>2, <2>3
<1>3. RInv /\ [Next]_vars =>
        [\A c \in Callers, s \in DOMAIN streamMap \cap StreamIds : \A m \in Removed(c, s) :
           IdWasReused(c, m) \/ \E policy \in PoliciesOf(s) : FallsOff(s, m, policy)]_vars
  BY StepRemovesExcess
<1> QED
  BY <1>1, <1>2, <1>3, PTL DEF Spec, OnlyExcessIsRemoved

=============================================================================
