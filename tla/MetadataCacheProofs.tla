------------------------- MODULE MetadataCacheProofs -------------------------
(***************************************************************************)
(* Proofs about the reads of the PostgreSQL store that filter expired      *)
(* messages, and the cache of metadata they share: for any number of       *)
(* clients, messages and failures, any policies and any metadataCacheTtl.  *)
(*                                                                         *)
(* Everything follows from when the queries were asked.  An entry that is  *)
(* no longer in the cache was asked for more than Ttl ago (LastIsCached),  *)
(* so that a query that is asked comes that much after the one before.  A  *)
(* reader waits for a query that was in the cache when it began (Readers), *)
(* and what the query read is the maxAge of the stream unless that was     *)
(* changed after the query was asked (ReadAges).  A failure comes from the *)
(* query itself or from the one it awaited (Filters), which was in the     *)
(* cache when it was needed.                                               *)
(***************************************************************************)
EXTENDS MetadataCache, SequenceTheorems, TLAPS

Query == [key : Keys, askedAt : Nat, state : {"asked", "filtering", "resolved", "failed"},
          maxAge : MaxAges \cup {0}, filter : Nat]
Client == [pc : {"idle", "read", "waiting"}, page : SUBSET Nat, query : Nat, began : Nat, valid : SUBSET Nat]

\* The shape of the variables, which TypeOK leaves to the reader.
Shape ==
  /\ createdAt \in Seq(Nat) /\ queries \in Seq(Query)
  /\ cache \in [Keys -> Nat] /\ client \in [Clients -> Client]

\* What is not cached any more was asked for more than Ttl ago; what is cached was
\* asked for last.
LastIsCached ==
  \A i \in DOMAIN queries :
    IF cache[queries[i].key] = 0 THEN queries[i].askedAt + Ttl < clock ELSE i <= cache[queries[i].key]

\* A query of the metadata stream awaits nobody.  Any other awaits one of these, from
\* which it has its failure, and which was asked for Ttl before it at the most.
Filters ==
  \A i \in DOMAIN queries :
    LET j == queries[i].filter IN
    /\ queries[i].state = "asked" => j = 0 /\ queries[i].maxAge = 0
    /\ queries[i].key = "$$stream" => j = 0 /\ queries[i].state # "filtering"
    /\ j # 0 => /\ j \in DOMAIN queries /\ queries[j].key = "$$stream"
                /\ queries[i].askedAt <= queries[j].askedAt + Ttl
                /\ queries[i].state = "failed" => queries[j].state = "failed"

\* What a query has read is the maxAge of the stream, unless that was changed since
\* it was asked.
ReadAges ==
  /\ changedAt = -1 => maxAge = 0
  /\ \A i \in DOMAIN queries :
       (queries[i].key = "stream" /\ queries[i].state \in {"filtering", "resolved"})
         => queries[i].maxAge = maxAge \/ changedAt >= queries[i].askedAt

\* A read waits for a query of the stream that was cached when it began.
Readers ==
  \A c \in Clients :
    client[c].pc = "waiting" =>
      /\ client[c].query \in DOMAIN queries /\ queries[client[c].query].key = "stream"
      /\ client[c].began <= queries[client[c].query].askedAt + Ttl

IInv ==
  /\ Shape
  /\ TypeOK
  /\ LastIsCached
  /\ OneQueryPerTtl
  /\ Filters
  /\ ReadAges
  /\ Readers

-----------------------------------------------------------------------------
(***************************************************************************)
(* The cache                                                               *)
(***************************************************************************)

\* A function on 1 .. n is a sequence of length n.
LEMMA FunctionIsSequence ==
  ASSUME NEW S, NEW n \in Nat, NEW f \in [1 .. n -> S]
  PROVE  f \in Seq(S) /\ Len(f) = n
<1>1. f \in Seq(S)
  BY SeqDef
<1> QED
  BY <1>1, LenProperties

\* What the invariant says of the variables, for reference in the proofs.
LEMMA Types ==
  ASSUME IInv
  PROVE  /\ queries \in Seq(Query) /\ Len(queries) \in Nat /\ DOMAIN queries = 1 .. Len(queries)
         /\ cache \in [Keys -> Nat] /\ client \in [Clients -> Client]
         /\ createdAt \in Seq(Nat)
         /\ \A i \in 1 .. Len(queries) : queries[i] \in Query
         /\ \A k \in Keys : cache[k] # 0 => cache[k] \in 1 .. Len(queries) /\ queries[cache[k]].key = k
         /\ Ttl \in Nat /\ clock \in Nat /\ maxAge \in MaxAges \cup {0} /\ changedAt \in Int
<1>1. queries \in Seq(Query) /\ createdAt \in Seq(Nat)
  BY DEF IInv, Shape
<1>2. Len(queries) \in Nat /\ DOMAIN queries = 1 .. Len(queries)
  BY <1>1, LenProperties
<1>3. \A i \in 1 .. Len(queries) : queries[i] \in Query
  BY <1>1, ElementOfSeq
<1>4. Ttl \in Nat /\ MaxClock \in Nat
  BY MetadataCacheAssumption
<1>5. clock \in Nat /\ changedAt \in Int /\ maxAge \in MaxAges \cup {0}
  BY <1>4 DEF IInv, TypeOK
<1>6. \A k \in Keys : cache[k] # 0 => cache[k] \in DOMAIN queries /\ queries[cache[k]].key = k
  BY DEF IInv, TypeOK
<1> QED
  BY <1>1, <1>2, <1>3, <1>4, <1>5, <1>6 DEF IInv, Shape

\* What is still in the cache is as old as Ttl at the most; a key that is not in it
\* was asked for longer ago than that.
LEMMA KeptProperties ==
  ASSUME IInv
  PROVE  /\ Kept \in [Keys -> Nat]
         /\ \A k \in Keys : Kept[k] # 0 => /\ Kept[k] = cache[k] /\ Kept[k] \in 1 .. Len(queries)
                                           /\ queries[Kept[k]].key = k
                                           /\ queries[Kept[k]].askedAt + Ttl >= clock
         /\ \A k \in Keys, i \in 1 .. Len(queries) :
              (queries[i].key = k /\ Kept[k] = 0) => queries[i].askedAt + Ttl < clock
<1>1. /\ cache \in [Keys -> Nat] /\ DOMAIN queries = 1 .. Len(queries) /\ Len(queries) \in Nat
      /\ \A i \in 1 .. Len(queries) : queries[i].askedAt \in Nat /\ queries[i].key \in Keys
      /\ \A k \in Keys : cache[k] # 0 => cache[k] \in 1 .. Len(queries) /\ queries[cache[k]].key = k
      /\ Ttl \in Nat /\ clock \in Nat
  BY Types DEF Query
<1>2. Kept \in [Keys -> Nat]
  BY <1>1 DEF Kept
<1>3. ASSUME NEW k \in Keys, Kept[k] # 0
      PROVE  /\ Kept[k] = cache[k] /\ Kept[k] \in 1 .. Len(queries)
             /\ queries[Kept[k]].key = k
             /\ queries[Kept[k]].askedAt + Ttl >= clock
  BY <1>1, <1>3 DEF Kept
<1>4. ASSUME NEW k \in Keys, NEW i \in 1 .. Len(queries), queries[i].key = k, Kept[k] = 0
      PROVE  queries[i].askedAt + Ttl < clock
  <2>1. cache[k] = 0 => queries[i].askedAt + Ttl < clock
    BY <1>1, <1>4 DEF IInv, LastIsCached
  <2>2. CASE cache[k] # 0
    <3>1. queries[cache[k]].askedAt + Ttl < clock
      BY <1>1, <1>4, <2>2 DEF Kept
    <3>2. i <= cache[k]
      BY <1>1, <1>4, <2>2 DEF IInv, LastIsCached
    <3>3. i < cache[k] => queries[i].askedAt + Ttl < queries[cache[k]].askedAt
      BY <1>1, <1>4, <2>2 DEF IInv, OneQueryPerTtl
    <3>4. i < cache[k] \/ i = cache[k]
      BY <1>1, <2>2, <3>2
    <3>5. queries[i].askedAt \in Nat /\ queries[cache[k]].askedAt \in Nat
      BY <1>1, <2>2
    <3> QED
      BY <1>1, <3>1, <3>3, <3>4, <3>5
  <2> QED
    BY <2>1, <2>2
<1> QED
  BY <1>2, <1>3, <1>4

\* Queries go on and time passes: the cache stays as it was.
LEMMA EntriesStay ==
  ASSUME IInv, UNCHANGED cache, clock' \in Nat, clock' >= clock,
         queries' \in Seq(Query), Len(queries') = Len(queries),
         \A i \in 1 .. Len(queries) :
           queries'[i].key = queries[i].key /\ queries'[i].askedAt = queries[i].askedAt
  PROVE  /\ LastIsCached' /\ OneQueryPerTtl'
         /\ DOMAIN queries' = 1 .. Len(queries)
         /\ \A k \in Keys : cache'[k] # 0 => cache'[k] \in DOMAIN queries' /\ queries'[cache'[k]].key = k
<1>1. /\ DOMAIN queries = 1 .. Len(queries) /\ DOMAIN queries' = 1 .. Len(queries)
      /\ \A i \in 1 .. Len(queries) : queries[i].askedAt \in Nat /\ queries[i].key \in Keys
      /\ \A k \in Keys : cache[k] # 0 => cache[k] \in 1 .. Len(queries) /\ queries[cache[k]].key = k
      /\ Ttl \in Nat /\ clock \in Nat
  BY Types, LenProperties DEF Query
<1>2. LastIsCached'
  <2> SUFFICES ASSUME NEW i \in 1 .. Len(queries)
               PROVE  IF cache[queries[i].key] = 0 THEN queries[i].askedAt + Ttl < clock'
                      ELSE i <= cache[queries[i].key]
    BY <1>1 DEF LastIsCached
  <2>1. IF cache[queries[i].key] = 0 THEN queries[i].askedAt + Ttl < clock
        ELSE i <= cache[queries[i].key]
    BY <1>1 DEF IInv, LastIsCached
  <2> QED
    BY <1>1, <2>1
<1>3. OneQueryPerTtl'
  BY <1>1 DEF IInv, OneQueryPerTtl
<1> QED
  BY <1>1, <1>2, <1>3

\* Asking for the metadata of k, while the queries made before become qs: there is a
\* promise for k that was asked for Ttl ago at the most, and if it is a new one none
\* was asked for in that time.
LEMMA AskedProperties ==
  ASSUME IInv, NEW k \in Keys, NEW qs \in Seq(Query), Len(qs) = Len(queries),
         \A i \in 1 .. Len(queries) : qs[i].key = queries[i].key /\ qs[i].askedAt = queries[i].askedAt,
         queries' = Asked(k, qs), cache' = Cached(k), clock' = clock
  PROVE  /\ queries' \in Seq(Query) /\ Len(queries') \in {Len(queries), Len(queries) + 1}
         /\ \A i \in 1 .. Len(queries) : queries'[i] = qs[i]
         /\ Len(queries') = Len(queries) + 1 =>
              queries'[Len(queries) + 1] =
                [key |-> k, askedAt |-> clock, state |-> "asked", maxAge |-> 0, filter |-> 0]
         /\ Promise(k) \in 1 .. Len(queries') /\ queries'[Promise(k)].key = k
         /\ clock <= queries'[Promise(k)].askedAt + Ttl
         /\ cache' \in [Keys -> Nat]
         /\ \A j \in Keys : cache'[j] # 0 => cache'[j] \in 1 .. Len(queries') /\ queries'[cache'[j]].key = j
         /\ LastIsCached' /\ OneQueryPerTtl'
<1> DEFINE n == Len(queries)
           fresh == [key |-> k, askedAt |-> clock, state |-> "asked", maxAge |-> 0, filter |-> 0]
<1>1. /\ queries \in Seq(Query) /\ n \in Nat
      /\ \A i \in 1 .. n : queries[i].askedAt \in Nat /\ queries[i].key \in Keys
      /\ \A i, j \in 1 .. n : (i < j /\ queries[i].key = queries[j].key) =>
                                queries[i].askedAt + Ttl < queries[j].askedAt
      /\ \A i \in 1 .. n : cache[queries[i].key] # 0 => i <= cache[queries[i].key]
      /\ Ttl \in Nat /\ clock \in Nat
  BY Types DEF Query, IInv, OneQueryPerTtl, LastIsCached
<1>2. fresh \in Query
  BY <1>1 DEF Query
<1>3. /\ Kept \in [Keys -> Nat]
      /\ \A j \in Keys : Kept[j] # 0 => /\ Kept[j] = cache[j] /\ Kept[j] \in 1 .. n
                                        /\ queries[Kept[j]].key = j
                                        /\ queries[Kept[j]].askedAt + Ttl >= clock
      /\ \A j \in Keys, i \in 1 .. n :
           (queries[i].key = j /\ Kept[j] = 0) => queries[i].askedAt + Ttl < clock
  BY KeptProperties
<1>4. CASE Kept[k] # 0
  <2>1. queries' = qs /\ Promise(k) = Kept[k] /\ cache' = Kept
    BY <1>3, <1>4 DEF Asked, Promise, Cached
  <2>2. Len(queries') = n /\ DOMAIN queries' = 1 .. n
    BY <2>1, LenProperties
  <2>3. LastIsCached'
    BY <1>1, <1>3, <2>1, <2>2 DEF LastIsCached
  <2>4. OneQueryPerTtl'
    BY <1>1, <2>1, <2>2 DEF OneQueryPerTtl
  <2>5. n # n + 1
    BY <1>1
  <2> QED
    BY <1>1, <1>3, <1>4, <2>1, <2>2, <2>3, <2>4, <2>5
<1>5. CASE Kept[k] = 0
  <2>1. queries' = Append(qs, fresh) /\ Promise(k) = n + 1 /\ cache' = [Kept EXCEPT ![k] = n + 1]
    BY <1>5 DEF Asked, Promise, Cached
  <2>2. /\ queries' \in Seq(Query) /\ Len(queries') = n + 1
        /\ \A i \in 1 .. n : queries'[i] = qs[i]
        /\ queries'[n + 1] = fresh
    BY <1>2, <2>1, AppendProperties
  <2>3. /\ DOMAIN queries' = 1 .. n + 1
        /\ \A i \in 1 .. n + 1 : i \in 1 .. n \/ i = n + 1
        /\ n + 1 \in 1 .. n + 1 /\ 1 .. n \subseteq 1 .. n + 1
    BY <1>1, <2>2, LenProperties
  <2>4. /\ cache' \in [Keys -> Nat] /\ cache'[k] = n + 1
        /\ \A j \in Keys : j # k => cache'[j] = Kept[j]
    BY <1>1, <1>3, <2>1
  <2>5. queries'[n + 1].key = k /\ queries'[n + 1].askedAt = clock
    BY <2>2
  <2>6. LastIsCached'
    <3> SUFFICES ASSUME NEW i \in 1 .. n + 1
                 PROVE  IF cache'[queries'[i].key] = 0 THEN queries'[i].askedAt + Ttl < clock
                        ELSE i <= cache'[queries'[i].key]
      BY <2>3 DEF LastIsCached
    <3>1. CASE i = n + 1
      BY <1>1, <2>4, <2>5, <3>1
    <3>2. CASE i \in 1 .. n
      <4>1. queries'[i].key = queries[i].key /\ queries'[i].askedAt = queries[i].askedAt /\ queries[i].key \in Keys
        BY <1>1, <2>2, <3>2
      <4>2. CASE queries[i].key = k
        BY <1>1, <2>4, <3>2, <4>1, <4>2
      <4>3. CASE queries[i].key # k
        <5>1. cache'[queries[i].key] = Kept[queries[i].key]
          BY <2>4, <4>1, <4>3
        <5>2. Kept[queries[i].key] = 0 => queries[i].askedAt + Ttl < clock
          BY <1>3, <3>2, <4>1
        <5>3. Kept[queries[i].key] # 0 => i <= Kept[queries[i].key]
          BY <1>1, <1>3, <3>2, <4>1
        <5> QED
          BY <4>1, <5>1, <5>2, <5>3
      <4> QED
        BY <4>2, <4>3
    <3> QED
      BY <2>3, <3>1, <3>2
  <2>7. OneQueryPerTtl'
    <3> SUFFICES ASSUME NEW i \in 1 .. n + 1, NEW j \in 1 .. n + 1, i < j, queries'[i].key = queries'[j].key
                 PROVE  queries'[i].askedAt + Ttl < queries'[j].askedAt
      BY <2>3 DEF OneQueryPerTtl
    <3>1. i \in 1 .. n
      BY <1>1
    <3>2. CASE j = n + 1
      BY <1>1, <1>3, <1>5, <2>2, <2>5, <3>1, <3>2
    <3>3. CASE j \in 1 .. n
      BY <1>1, <2>2, <3>1, <3>3
    <3> QED
      BY <2>3, <3>2, <3>3
  <2>8. \A j \in Keys : cache'[j] # 0 => cache'[j] \in 1 .. n + 1 /\ queries'[cache'[j]].key = j
    <3>1. ASSUME NEW j \in Keys, j # k, cache'[j] # 0
          PROVE  cache'[j] \in 1 .. n + 1 /\ queries'[cache'[j]].key = j
      <4>1. cache'[j] = Kept[j] /\ Kept[j] \in 1 .. n /\ queries[Kept[j]].key = j
        BY <1>3, <2>4, <3>1
      <4> QED
        BY <2>2, <2>3, <4>1
    <3> QED
      BY <2>3, <2>4, <2>5, <3>1
  <2> QED
    BY <1>1, <2>1, <2>2, <2>3, <2>4, <2>5, <2>6, <2>7, <2>8
<1> QED
  BY <1>4, <1>5

-----------------------------------------------------------------------------
(***************************************************************************)
(* The steps                                                               *)
(***************************************************************************)

\* The steps that have nothing to do with queries, and those of a query.
Elsewhere ==
  \/ Tick \/ AppendToStream \/ SetStreamMetadata \/ Scavenge \/ Purge
  \/ \E c \in Clients : ReadPage(c) \/ Filter(c) \/ Reject(c)
QueryStep == \E i \in 1 .. Len(queries) : QueryAnswered(i) \/ QueryFails(i) \/ MetadataFiltered(i)

\* Every step is one of these.
LEMMA Steps == [Next]_vars <=> Elsewhere \/ QueryStep \/ (\E c \in Clients : LookUp(c)) \/ UNCHANGED vars
BY Zenon DEF Next, Elsewhere, QueryStep

\* A query that goes on keeps its key and the time it was asked at.
LEMMA QueryGoesOn ==
  ASSUME IInv, NEW i \in 1 .. Len(queries), NEW state \in {"resolved", "failed"},
         NEW qs, qs = [queries EXCEPT ![i].state = state]
  PROVE  /\ qs \in Seq(Query) /\ Len(qs) = Len(queries)
         /\ \A j \in 1 .. Len(queries) : j # i => qs[j] = queries[j]
         /\ qs[i].key = queries[i].key /\ qs[i].askedAt = queries[i].askedAt
         /\ qs[i].state = state /\ qs[i].maxAge = queries[i].maxAge /\ qs[i].filter = queries[i].filter
<1> DEFINE n == Len(queries)
<1>1. queries \in Seq(Query) /\ n \in Nat /\ queries \in [1 .. n -> Query] /\ queries[i] \in Query
  BY Types, LenProperties
<1>2. /\ qs[i] \in Query
      /\ qs[i].key = queries[i].key /\ qs[i].askedAt = queries[i].askedAt
      /\ qs[i].state = state /\ qs[i].maxAge = queries[i].maxAge /\ qs[i].filter = queries[i].filter
  BY <1>1 DEF Query
<1>3. qs \in [1 .. n -> Query] /\ \A j \in 1 .. n : j # i => qs[j] = queries[j]
  BY <1>1, <1>2
<1>4. qs \in Seq(Query) /\ Len(qs) = n
  BY <1>1, <1>3, FunctionIsSequence
<1> QED
  BY <1>2, <1>3, <1>4

\* The queries once query i awaits filter for the metadata message it has read.
Filtering(i, filter) ==
  [queries EXCEPT ![i].state = "filtering", ![i].maxAge = maxAge, ![i].filter = filter]

\* So does one that has to await the metadata of the metadata stream.
LEMMA QueryFilters ==
  ASSUME IInv, NEW i \in 1 .. Len(queries), NEW filter \in Nat
  PROVE  /\ Filtering(i, filter) \in Seq(Query) /\ Len(Filtering(i, filter)) = Len(queries)
         /\ \A j \in 1 .. Len(queries) : j # i => Filtering(i, filter)[j] = queries[j]
         /\ Filtering(i, filter)[i].key = queries[i].key
         /\ Filtering(i, filter)[i].askedAt = queries[i].askedAt
         /\ Filtering(i, filter)[i].state = "filtering" /\ Filtering(i, filter)[i].maxAge = maxAge
         /\ Filtering(i, filter)[i].filter = filter
<1> SUFFICES ASSUME NEW qs, qs = Filtering(i, filter)
             PROVE  /\ qs \in Seq(Query) /\ Len(qs) = Len(queries)
                    /\ \A j \in 1 .. Len(queries) : j # i => qs[j] = queries[j]
                    /\ qs[i].key = queries[i].key /\ qs[i].askedAt = queries[i].askedAt
                    /\ qs[i].state = "filtering" /\ qs[i].maxAge = maxAge /\ qs[i].filter = filter
  BY Zenon
<1> DEFINE n == Len(queries)
<1>1. /\ queries \in Seq(Query) /\ n \in Nat /\ queries \in [1 .. n -> Query] /\ queries[i] \in Query
      /\ maxAge \in MaxAges \cup {0}
  BY Types, LenProperties
<1>2. /\ qs[i] \in Query
      /\ qs[i].key = queries[i].key /\ qs[i].askedAt = queries[i].askedAt
      /\ qs[i].state = "filtering" /\ qs[i].maxAge = maxAge /\ qs[i].filter = filter
  BY <1>1 DEF Query, Filtering
<1>3. qs \in [1 .. n -> Query] /\ \A j \in 1 .. n : j # i => qs[j] = queries[j]
  BY <1>1, <1>2 DEF Filtering
<1>4. \A f \in [1 .. n -> Query] : f \in Seq(Query) /\ Len(f) = n
  BY <1>1, FunctionIsSequence
<1>5. qs \in Seq(Query) /\ Len(qs) = n
  BY <1>3, <1>4, Zenon
<1> QED
  BY <1>2, <1>3, <1>5

\* The parts of the type invariant.
OtherTypes ==
  /\ clock \in 0 .. MaxClock /\ stored \cup doomed \subseteq DOMAIN createdAt
  /\ maxAge \in MaxAges \cup {0} /\ changedAt \in -1 .. clock /\ scavenging \in MaxAges \cup {0}
QueryTypes ==
  \A i \in DOMAIN queries :
    /\ queries[i].key \in Keys /\ queries[i].askedAt \in 0 .. clock
    /\ queries[i].state \in {"asked", "filtering", "resolved", "failed"}
    /\ queries[i].filter \in 0 .. Len(queries)
    /\ queries[i].state = "filtering" => queries[i].filter # 0
CacheTypes == \A k \in Keys : cache[k] # 0 => cache[k] \in DOMAIN queries /\ queries[cache[k]].key = k
ClientTypes ==
  \A c \in Clients :
    /\ client[c].pc \in {"idle", "read", "waiting"}
    /\ client[c].page \cup client[c].valid \subseteq DOMAIN createdAt
    /\ client[c].pc = "waiting" => client[c].query \in DOMAIN queries

\* They make up TypeOK.
LEMMA TypeParts == TypeOK <=> OtherTypes /\ QueryTypes /\ CacheTypes /\ ClientTypes
BY Zenon DEF TypeOK, OtherTypes, QueryTypes, CacheTypes, ClientTypes

\* Nobody who waits notices that queries go on or are added.
LEMMA ReadersStay ==
  ASSUME IInv, UNCHANGED <<client, createdAt>>, queries' \in Seq(Query), Len(queries') >= Len(queries),
         \A i \in 1 .. Len(queries) :
           queries'[i].key = queries[i].key /\ queries'[i].askedAt = queries[i].askedAt
  PROVE  Readers' /\ ClientTypes'
<1>1. /\ DOMAIN queries = 1 .. Len(queries) /\ Len(queries) \in Nat
      /\ DOMAIN queries' = 1 .. Len(queries') /\ Len(queries') \in Nat
  BY Types, LenProperties
<1>2. DOMAIN queries \subseteq DOMAIN queries'
  BY <1>1
<1>3. Readers'
  BY <1>1, <1>2 DEF IInv, Readers
<1>4. ClientTypes'
  BY <1>2, TypeParts DEF IInv, ClientTypes
<1> QED
  BY <1>3, <1>4

\* A query that is answered at once, fails, or has awaited what it had to.
LEMMA QueryGoesOnKeeps ==
  ASSUME IInv, NEW i \in 1 .. Len(queries), NEW state \in {"resolved", "failed"},
         queries' = [queries EXCEPT ![i].state = state], UNCHANGED cache,
         UNCHANGED <<clock, createdAt, stored, doomed, maxAge, changedAt, scavenging, client>>,
         \/ /\ queries[i].state = "asked"
            /\ state = "resolved" => queries[i].key = "$$stream" \/ changedAt = -1
         \/ queries[i].state = "filtering" /\ state = queries[queries[i].filter].state
  PROVE  IInv'
<1> DEFINE n == Len(queries)
<1>1. /\ DOMAIN queries = 1 .. n /\ n \in Nat /\ clock \in Nat
      /\ \A j \in 1 .. n : queries[j] \in Query
      /\ client \in [Clients -> Client] /\ cache \in [Keys -> Nat] /\ createdAt \in Seq(Nat)
  BY Types
<1>2. /\ queries' \in Seq(Query) /\ Len(queries') = n
      /\ \A j \in 1 .. n : j # i => queries'[j] = queries[j]
      /\ queries'[i].key = queries[i].key /\ queries'[i].askedAt = queries[i].askedAt
      /\ queries'[i].state = state /\ queries'[i].maxAge = queries[i].maxAge
      /\ queries'[i].filter = queries[i].filter
  <2>1. \A qs : qs = [queries EXCEPT ![i].state = state] =>
          /\ qs \in Seq(Query) /\ Len(qs) = Len(queries)
          /\ \A j \in 1 .. Len(queries) : j # i => qs[j] = queries[j]
          /\ qs[i].key = queries[i].key /\ qs[i].askedAt = queries[i].askedAt
          /\ qs[i].state = state /\ qs[i].maxAge = queries[i].maxAge /\ qs[i].filter = queries[i].filter
    BY QueryGoesOn
  <2> QED
    BY <2>1, Zenon
<1>3. /\ DOMAIN queries' = 1 .. n
      /\ \A j \in 1 .. n : /\ queries'[j].key = queries[j].key /\ queries'[j].askedAt = queries[j].askedAt
                           /\ queries'[j].maxAge = queries[j].maxAge /\ queries'[j].filter = queries[j].filter
  BY <1>2, LenProperties
<1>4. LastIsCached' /\ OneQueryPerTtl' /\ CacheTypes'
  BY <1>1, <1>2, <1>3, EntriesStay DEF CacheTypes
<1>5. Readers' /\ ClientTypes'
  BY <1>1, <1>2, <1>3, ReadersStay
<1>6. OtherTypes' /\ QueryTypes'
  <2>1. OtherTypes'
    BY TypeParts DEF IInv, OtherTypes
  <2>2. QueryTypes'
    <3> SUFFICES ASSUME NEW j \in 1 .. n
                 PROVE  /\ queries'[j].key \in Keys /\ queries'[j].askedAt \in 0 .. clock
                        /\ queries'[j].state \in {"asked", "filtering", "resolved", "failed"}
                        /\ queries'[j].filter \in 0 .. n
                        /\ queries'[j].state = "filtering" => queries'[j].filter # 0
      BY <1>2, <1>3 DEF QueryTypes
    <3>1. /\ queries[j].key \in Keys /\ queries[j].askedAt \in 0 .. clock
          /\ queries[j].state \in {"asked", "filtering", "resolved", "failed"}
          /\ queries[j].filter \in 0 .. n
          /\ queries[j].state = "filtering" => queries[j].filter # 0
      BY <1>1, TypeParts DEF IInv, QueryTypes
    <3> QED
      BY <1>2, <1>3, <3>1
  <2> QED
    BY <2>1, <2>2
<1>7. Filters'
  <2> SUFFICES ASSUME NEW j \in 1 .. n
               PROVE  LET f == queries[j].filter IN
                      /\ queries'[j].state = "asked" => f = 0 /\ queries[j].maxAge = 0
                      /\ queries[j].key = "$$stream" => f = 0 /\ queries'[j].state # "filtering"
                      /\ f # 0 => /\ f \in 1 .. n /\ queries[f].key = "$$stream"
                                  /\ queries[j].askedAt <= queries[f].askedAt + Ttl
                                  /\ queries'[j].state = "failed" => queries'[f].state = "failed"
    BY <1>3 DEF Filters
  <2> DEFINE f == queries[j].filter
  <2>1. /\ queries[j].state = "asked" => f = 0 /\ queries[j].maxAge = 0
        /\ queries[j].key = "$$stream" => f = 0 /\ queries[j].state # "filtering"
        /\ f # 0 => /\ f \in 1 .. n /\ queries[f].key = "$$stream"
                    /\ queries[j].askedAt <= queries[f].askedAt + Ttl
                    /\ queries[j].state = "failed" => queries[f].state = "failed"
    BY <1>1 DEF IInv, Filters
  <2>2. f # 0 /\ queries'[j].state = "failed" => queries'[f].state = "failed"
    <3> SUFFICES ASSUME f # 0, queries'[j].state = "failed"
                 PROVE  queries'[f].state = "failed"
      OBVIOUS
    <3>1. queries[f].state = "failed"
      BY <1>2, <2>1
    <3>2. f # i
      <4>1. queries[i].state # "failed"
        OBVIOUS
      <4> QED
        BY <3>1, <4>1
    <3> QED
      BY <1>2, <2>1, <3>1, <3>2
  <2> QED
    BY <1>2, <2>1, <2>2
<1>8. ReadAges'
  <2>1. \A j \in 1 .. n : /\ queries[j].state = "asked" => queries[j].maxAge = 0
                          /\ queries[j].key = "$$stream" => queries[j].state # "filtering"
    BY <1>1 DEF IInv, Filters
  <2>2. /\ changedAt = -1 => maxAge = 0
        /\ \A j \in 1 .. n :
             (queries[j].key = "stream" /\ queries[j].state \in {"filtering", "resolved"})
               => queries[j].maxAge = maxAge \/ changedAt >= queries[j].askedAt
    BY <1>1 DEF IInv, ReadAges
  <2>3. ASSUME NEW j \in 1 .. n, queries[j].key = "stream", queries'[j].state \in {"filtering", "resolved"}
        PROVE  queries[j].maxAge = maxAge \/ changedAt >= queries[j].askedAt
    BY <1>2, <2>1, <2>2, <2>3
  <2> QED
    BY <1>3, <2>2, <2>3 DEF ReadAges
<1> QED
  <2>1. Shape'
    BY <1>1, <1>2 DEF Shape
  <2>2. TypeOK'
    BY <1>4, <1>5, <1>6, Zenon DEF TypeOK, OtherTypes, QueryTypes, CacheTypes, ClientTypes
  <2> QED
    BY <1>4, <1>5, <1>7, <1>8, <2>1, <2>2 DEF IInv

\* A query whose metadata message has to be filtered, and the one it awaits for that.
LEMMA QueryAwaitsKeeps ==
  ASSUME IInv, NEW i \in 1 .. Len(queries), queries[i].state = "asked", queries[i].key = "stream", changedAt # -1,
         NEW qs \in Seq(Query), Len(qs) = Len(queries),
         \A j \in 1 .. Len(queries) : j # i => qs[j] = queries[j],
         qs[i].key = queries[i].key, qs[i].askedAt = queries[i].askedAt,
         qs[i].state = "filtering", qs[i].maxAge = maxAge, qs[i].filter = Promise("$$stream"),
         queries' = Asked("$$stream", qs), cache' = Cached("$$stream"),
         UNCHANGED <<clock, createdAt, stored, doomed, maxAge, changedAt, scavenging, client>>
  PROVE  IInv'
<1> DEFINE n == Len(queries)
           m == Len(queries')
           p == Promise("$$stream")
<1>1. /\ DOMAIN queries = 1 .. n /\ n \in Nat /\ clock \in Nat /\ Ttl \in Nat
      /\ \A j \in 1 .. n : queries[j] \in Query
      /\ client \in [Clients -> Client] /\ cache \in [Keys -> Nat] /\ createdAt \in Seq(Nat)
      /\ changedAt \in Int
  BY Types
<1>2. "$$stream" \in Keys /\ p \in Nat
  <2>1. "$$stream" \in Keys
    BY DEF Keys
  <2>2. Kept \in [Keys -> Nat]
    BY KeptProperties
  <2> QED
    BY <1>1, <2>1, <2>2 DEF Promise
<1>4. /\ qs \in Seq(Query) /\ Len(qs) = n
      /\ \A j \in 1 .. n : j # i => qs[j] = queries[j]
      /\ qs[i].key = queries[i].key /\ qs[i].askedAt = queries[i].askedAt
      /\ qs[i].state = "filtering" /\ qs[i].maxAge = maxAge /\ qs[i].filter = p
  OBVIOUS
<1>5. \A j \in 1 .. n : qs[j].key = queries[j].key /\ qs[j].askedAt = queries[j].askedAt
  BY <1>4
<1>6. /\ queries' \in Seq(Query) /\ m \in {n, n + 1}
      /\ \A j \in 1 .. n : queries'[j] = qs[j]
      /\ m = n + 1 => queries'[n + 1] =
                        [key |-> "$$stream", askedAt |-> clock, state |-> "asked", maxAge |-> 0, filter |-> 0]
      /\ p \in 1 .. m /\ queries'[p].key = "$$stream"
      /\ clock <= queries'[p].askedAt + Ttl
      /\ cache' \in [Keys -> Nat]
      /\ \A j \in Keys : cache'[j] # 0 => cache'[j] \in 1 .. m /\ queries'[cache'[j]].key = j
      /\ LastIsCached' /\ OneQueryPerTtl'
  BY <1>2, <1>4, <1>5, AskedProperties
<1>7. /\ DOMAIN queries' = 1 .. m /\ m \in Nat /\ m >= n
      /\ \A j \in 1 .. m : j \in 1 .. n \/ (j = n + 1 /\ m = n + 1)
      /\ 1 .. n \subseteq 1 .. m
  <2>1. DOMAIN queries' = 1 .. m
    BY <1>6, LenProperties
  <2>2. n \in Nat /\ (m = n \/ m = n + 1)
    BY <1>1, <1>6
  <2> HIDE DEF n, m
  <2>3. m \in Nat /\ m >= n
    BY <2>2
  <2>5. ASSUME NEW j \in 1 .. m
        PROVE  j \in 1 .. n \/ (j = n + 1 /\ m = n + 1)
    BY <2>2, <2>3
  <2>4. 1 .. n \subseteq 1 .. m
    BY <2>2
  <2> QED
    BY <2>1, <2>3, <2>4, <2>5
<1>8. /\ \A j \in 1 .. n : /\ queries'[j].key = queries[j].key /\ queries'[j].askedAt = queries[j].askedAt
                           /\ j # i => queries'[j] = queries[j]
      /\ queries'[i].state = "filtering" /\ queries'[i].maxAge = maxAge /\ queries'[i].filter = p
      /\ m = n + 1 => /\ queries'[n + 1].key = "$$stream" /\ queries'[n + 1].askedAt = clock
                      /\ queries'[n + 1].state = "asked" /\ queries'[n + 1].maxAge = 0
                      /\ queries'[n + 1].filter = 0
  <2>1. \A j \in 1 .. n : /\ queries'[j].key = queries[j].key /\ queries'[j].askedAt = queries[j].askedAt
                          /\ j # i => queries'[j] = queries[j]
    BY <1>4, <1>5, <1>6
  <2>2. queries'[i].state = "filtering" /\ queries'[i].maxAge = maxAge /\ queries'[i].filter = p
    BY <1>4, <1>6
  <2>3. ASSUME m = n + 1
        PROVE  /\ queries'[n + 1].key = "$$stream" /\ queries'[n + 1].askedAt = clock
               /\ queries'[n + 1].state = "asked" /\ queries'[n + 1].maxAge = 0
               /\ queries'[n + 1].filter = 0
    <3>1. queries'[n + 1] =
            [key |-> "$$stream", askedAt |-> clock, state |-> "asked", maxAge |-> 0, filter |-> 0]
      BY <1>6, <2>3, Zenon
    <3> HIDE DEF n
    <3> QED
      BY <3>1
  <2>4. m = n + 1 => /\ queries'[n + 1].key = "$$stream" /\ queries'[n + 1].askedAt = clock
                     /\ queries'[n + 1].state = "asked" /\ queries'[n + 1].maxAge = 0
                     /\ queries'[n + 1].filter = 0
    BY <2>3
  <2> HIDE DEF n, m, p
  <2> QED
    BY <2>1, <2>2, <2>4
<1>9. Readers' /\ ClientTypes'
  BY <1>6, <1>7, <1>8, ReadersStay
<1>10. OtherTypes' /\ CacheTypes'
  <2>1. OtherTypes'
    BY TypeParts DEF IInv, OtherTypes
  <2> QED
    BY <1>6, <1>7, <2>1 DEF CacheTypes
<1>11. QueryTypes'
  <2> SUFFICES ASSUME NEW j \in 1 .. m
               PROVE  /\ queries'[j].key \in Keys /\ queries'[j].askedAt \in 0 .. clock
                      /\ queries'[j].state \in {"asked", "filtering", "resolved", "failed"}
                      /\ queries'[j].filter \in 0 .. m
                      /\ queries'[j].state = "filtering" => queries'[j].filter # 0
    BY <1>7 DEF QueryTypes
  <2>1. CASE j = n + 1 /\ m = n + 1
    BY <1>1, <1>2, <1>8, <2>1
  <2>2. CASE j \in 1 .. n
    <3>1. /\ queries[j].key \in Keys /\ queries[j].askedAt \in 0 .. clock
          /\ queries[j].state \in {"asked", "filtering", "resolved", "failed"}
          /\ queries[j].filter \in 0 .. n
          /\ queries[j].state = "filtering" => queries[j].filter # 0
      BY <1>1, <2>2, TypeParts DEF IInv, QueryTypes
    <3>2. queries[j].filter \in 0 .. m
      BY <1>1, <1>7, <3>1
    <3>3. CASE j = i
      <4>1. queries'[i].state = "filtering" /\ queries'[i].filter = p /\ p \in 0 .. m /\ p # 0
        BY <1>6, <1>7, <1>8
      <4>2. queries'[i].key = queries[i].key /\ queries'[i].askedAt = queries[i].askedAt
        BY <1>8
      <4> QED
        BY <3>1, <3>3, <4>1, <4>2
    <3>4. CASE j # i
      BY <1>8, <2>2, <3>1, <3>2, <3>4
    <3> QED
      BY <3>3, <3>4
  <2> QED
    BY <1>7, <2>1, <2>2
<1>12. Filters'
  <2> SUFFICES ASSUME NEW j \in 1 .. m
               PROVE  LET f == queries'[j].filter IN
                      /\ queries'[j].state = "asked" => f = 0 /\ queries'[j].maxAge = 0
                      /\ queries'[j].key = "$$stream" => f = 0 /\ queries'[j].state # "filtering"
                      /\ f # 0 => /\ f \in 1 .. m /\ queries'[f].key = "$$stream"
                                  /\ queries'[j].askedAt <= queries'[f].askedAt + Ttl
                                  /\ queries'[j].state = "failed" => queries'[f].state = "failed"
    BY <1>7 DEF Filters
  <2>1. CASE j = n + 1 /\ m = n + 1
    BY <1>8, <2>1
  <2>2. CASE j = i
    <3>1. queries[i].askedAt \in 0 .. clock
      BY <1>1, TypeParts DEF IInv, QueryTypes
    <3>2. queries'[i].askedAt <= queries'[p].askedAt + Ttl
      <4>1. queries'[p] \in Query
        BY <1>6, <1>7, ElementOfSeq
      <4>2. queries'[p].askedAt \in Nat
        BY <4>1 DEF Query
      <4> QED
        <5>1. queries'[i].askedAt \in 0 .. clock
          BY <1>8, <3>1
        <5>2. clock <= queries'[p].askedAt + Ttl
          BY <1>6
        <5> HIDE DEF p
        <5> QED
          BY <1>1, <4>2, <5>1, <5>2
    <3> QED
      BY <1>6, <1>8, <2>2, <3>2
  <2>3. CASE j \in 1 .. n /\ j # i
    <3> DEFINE f == queries[j].filter
    <3>1. /\ queries[j].state = "asked" => f = 0 /\ queries[j].maxAge = 0
          /\ queries[j].key = "$$stream" => f = 0 /\ queries[j].state # "filtering"
          /\ f # 0 => /\ f \in 1 .. n /\ queries[f].key = "$$stream"
                      /\ queries[j].askedAt <= queries[f].askedAt + Ttl
                      /\ queries[j].state = "failed" => queries[f].state = "failed"
      BY <1>1, <2>3 DEF IInv, Filters
    <3>2. queries'[j] = queries[j]
      BY <1>8, <2>3
    <3>3. f # 0 => /\ f \in 1 .. m /\ f # i
                   /\ queries'[f] = queries[f]
      BY <1>7, <1>8, <3>1
    <3> QED
      BY <3>1, <3>2, <3>3
  <2> QED
    BY <1>7, <2>1, <2>2, <2>3
<1>13. ReadAges'
  <2>1. /\ changedAt = -1 => maxAge = 0
        /\ \A j \in 1 .. n :
             (queries[j].key = "stream" /\ queries[j].state \in {"filtering", "resolved"})
               => queries[j].maxAge = maxAge \/ changedAt >= queries[j].askedAt
    BY <1>1 DEF IInv, ReadAges
  <2>2. ASSUME NEW j \in 1 .. m, queries'[j].key = "stream", queries'[j].state \in {"filtering", "resolved"}
        PROVE  queries'[j].maxAge = maxAge \/ changedAt >= queries'[j].askedAt
    <3>1. j \in 1 .. n
      BY <1>7, <1>8, <2>2
    <3> QED
      BY <1>8, <2>1, <2>2, <3>1
  <2> QED
    BY <1>7, <2>1, <2>2 DEF ReadAges
<1> QED
  <2>1. Shape'
    BY <1>1, <1>6 DEF Shape
  <2>2. TypeOK'
    BY <1>9, <1>10, <1>11, Zenon DEF TypeOK, OtherTypes, QueryTypes, CacheTypes, ClientTypes
  <2> QED
    BY <1>6, <1>9, <1>12, <1>13, <2>1, <2>2 DEF IInv

\* The reads once c waits for query.
Waits(c, query) == [client EXCEPT ![c].pc = "waiting", ![c].query = query, ![c].began = clock]

\* A read that goes from what it has to the wait for its metadata.
LEMMA ReaderWaits ==
  ASSUME IInv, NEW c \in Clients, NEW query \in Nat,
         NEW cl, cl = Waits(c, query)
  PROVE  /\ cl \in [Clients -> Client]
         /\ \A d \in Clients : d # c => cl[d] = client[d]
         /\ cl[c].pc = "waiting" /\ cl[c].query = query /\ cl[c].began = clock
         /\ cl[c].page = client[c].page /\ cl[c].valid = client[c].valid
<1>1. client \in [Clients -> Client] /\ client[c] \in Client /\ clock \in Nat
  BY Types
<1>2. /\ cl[c] \in Client
      /\ cl[c].pc = "waiting" /\ cl[c].query = query /\ cl[c].began = clock
      /\ cl[c].page = client[c].page /\ cl[c].valid = client[c].valid
  BY <1>1 DEF Client, Waits
<1>3. \A d \in Clients : d # c => cl[d] = client[d]
  BY <1>1 DEF Waits
<1>4. cl \in [Clients -> Client]
  BY <1>1, <1>2 DEF Waits
<1> QED
  BY <1>2, <1>3, <1>4

\* A read that asks for the metadata of the stream.
LEMMA LookUpKeeps ==
  ASSUME IInv, NEW c \in Clients,
         client' \in [Clients -> Client], \A d \in Clients : d # c => client'[d] = client[d],
         client'[c].pc = "waiting", client'[c].query = Promise("stream"), client'[c].began = clock,
         client'[c].page = client[c].page, client'[c].valid = client[c].valid,
         queries' = Asked("stream", queries), cache' = Cached("stream"),
         UNCHANGED <<clock, createdAt, stored, doomed, maxAge, changedAt, scavenging>>
  PROVE  IInv'
<1> DEFINE n == Len(queries)
           m == Len(queries')
           p == Promise("stream")
<1>1. /\ DOMAIN queries = 1 .. n /\ n \in Nat /\ clock \in Nat /\ Ttl \in Nat
      /\ queries \in Seq(Query)
      /\ \A j \in 1 .. n : queries[j] \in Query
      /\ client \in [Clients -> Client] /\ cache \in [Keys -> Nat] /\ createdAt \in Seq(Nat)
  BY Types
<1>2. "stream" \in Keys
  BY DEF Keys
<1>3. /\ queries' \in Seq(Query) /\ m \in {n, n + 1}
      /\ \A j \in 1 .. n : queries'[j] = queries[j]
      /\ m = n + 1 => queries'[n + 1] =
                        [key |-> "stream", askedAt |-> clock, state |-> "asked", maxAge |-> 0, filter |-> 0]
      /\ p \in 1 .. m /\ queries'[p].key = "stream"
      /\ clock <= queries'[p].askedAt + Ttl
      /\ cache' \in [Keys -> Nat]
      /\ \A j \in Keys : cache'[j] # 0 => cache'[j] \in 1 .. m /\ queries'[cache'[j]].key = j
      /\ LastIsCached' /\ OneQueryPerTtl'
  BY <1>1, <1>2, AskedProperties
<1>4. /\ DOMAIN queries' = 1 .. m /\ m \in Nat /\ m >= n
      /\ \A j \in 1 .. m : j \in 1 .. n \/ (j = n + 1 /\ m = n + 1)
      /\ 1 .. n \subseteq 1 .. m
  <2>1. DOMAIN queries' = 1 .. m
    BY <1>3, LenProperties
  <2>2. n \in Nat /\ (m = n \/ m = n + 1)
    BY <1>1, <1>3
  <2> HIDE DEF n, m
  <2>3. m \in Nat /\ m >= n
    BY <2>2
  <2>4. 1 .. n \subseteq 1 .. m
    BY <2>2
  <2>5. ASSUME NEW j \in 1 .. m
        PROVE  j \in 1 .. n \/ (j = n + 1 /\ m = n + 1)
    BY <2>2, <2>3
  <2> QED
    BY <2>1, <2>3, <2>4, <2>5
<1>5. ASSUME m = n + 1
      PROVE  /\ queries'[n + 1].key = "stream" /\ queries'[n + 1].askedAt = clock
             /\ queries'[n + 1].state = "asked" /\ queries'[n + 1].maxAge = 0
             /\ queries'[n + 1].filter = 0
  <2>1. queries'[n + 1] =
          [key |-> "stream", askedAt |-> clock, state |-> "asked", maxAge |-> 0, filter |-> 0]
    BY <1>3, <1>5, Zenon
  <2> HIDE DEF n
  <2> QED
    BY <2>1
<1>6. Readers'
  <2> SUFFICES ASSUME NEW d \in Clients, client'[d].pc = "waiting"
               PROVE  /\ client'[d].query \in 1 .. m /\ queries'[client'[d].query].key = "stream"
                      /\ client'[d].began <= queries'[client'[d].query].askedAt + Ttl
    BY <1>4 DEF Readers
  <2>1. CASE d = c
    BY <1>3, <2>1
  <2>2. CASE d # c
    <3>1. client'[d] = client[d]
      BY <2>2
    <3>2. /\ client[d].query \in 1 .. n /\ queries[client[d].query].key = "stream"
          /\ client[d].began <= queries[client[d].query].askedAt + Ttl
      BY <1>1, <3>1 DEF IInv, Readers
    <3>3. client[d].query \in 1 .. m
      BY <1>4, <3>2
    <3> QED
      BY <1>3, <3>1, <3>2, <3>3
  <2> QED
    BY <2>1, <2>2
<1>7. ClientTypes'
  <2> SUFFICES ASSUME NEW d \in Clients
               PROVE  /\ client'[d].pc \in {"idle", "read", "waiting"}
                      /\ client'[d].page \cup client'[d].valid \subseteq DOMAIN createdAt
                      /\ client'[d].pc = "waiting" => client'[d].query \in 1 .. m
    BY <1>4 DEF ClientTypes
  <2>1. /\ client[d].pc \in {"idle", "read", "waiting"}
        /\ client[d].page \cup client[d].valid \subseteq DOMAIN createdAt
        /\ client[d].pc = "waiting" => client[d].query \in 1 .. n
    BY <1>1, TypeParts DEF IInv, ClientTypes
  <2>2. client'[d].pc = "waiting" => client'[d].query \in 1 .. m
    BY <1>4, <1>6 DEF Readers
  <2> QED
    BY <2>1, <2>2
<1>8. OtherTypes' /\ CacheTypes'
  <2>1. OtherTypes'
    BY TypeParts DEF IInv, OtherTypes
  <2> QED
    BY <1>3, <1>4, <2>1 DEF CacheTypes
<1>9. QueryTypes'
  <2> SUFFICES ASSUME NEW j \in 1 .. m
               PROVE  /\ queries'[j].key \in Keys /\ queries'[j].askedAt \in 0 .. clock
                      /\ queries'[j].state \in {"asked", "filtering", "resolved", "failed"}
                      /\ queries'[j].filter \in 0 .. m
                      /\ queries'[j].state = "filtering" => queries'[j].filter # 0
    BY <1>4 DEF QueryTypes
  <2>1. CASE j = n + 1 /\ m = n + 1
    BY <1>1, <1>2, <1>5, <2>1
  <2>2. CASE j \in 1 .. n
    <3>1. /\ queries[j].key \in Keys /\ queries[j].askedAt \in 0 .. clock
          /\ queries[j].state \in {"asked", "filtering", "resolved", "failed"}
          /\ queries[j].filter \in 0 .. n
          /\ queries[j].state = "filtering" => queries[j].filter # 0
      BY <1>1, <2>2, TypeParts DEF IInv, QueryTypes
    <3>2. queries[j].filter \in 0 .. m
      BY <1>1, <1>4, <3>1
    <3> QED
      BY <1>3, <2>2, <3>1, <3>2
  <2> QED
    BY <1>4, <2>1, <2>2
<1>10. Filters'
  <2> SUFFICES ASSUME NEW j \in 1 .. m
               PROVE  LET f == queries'[j].filter IN
                      /\ queries'[j].state = "asked" => f = 0 /\ queries'[j].maxAge = 0
                      /\ queries'[j].key = "$$stream" => f = 0 /\ queries'[j].state # "filtering"
                      /\ f # 0 => /\ f \in 1 .. m /\ queries'[f].key = "$$stream"
                                  /\ queries'[j].askedAt <= queries'[f].askedAt + Ttl
                                  /\ queries'[j].state = "failed" => queries'[f].state = "failed"
    BY <1>4 DEF Filters
  <2>1. CASE j = n + 1 /\ m = n + 1
    BY <1>5, <2>1
  <2>2. CASE j \in 1 .. n
    <3> DEFINE f == queries[j].filter
    <3>1. /\ queries[j].state = "asked" => f = 0 /\ queries[j].maxAge = 0
          /\ queries[j].key = "$$stream" => f = 0 /\ queries[j].state # "filtering"
          /\ f # 0 => /\ f \in 1 .. n /\ queries[f].key = "$$stream"
                      /\ queries[j].askedAt <= queries[f].askedAt + Ttl
                      /\ queries[j].state = "failed" => queries[f].state = "failed"
      BY <1>1, <2>2 DEF IInv, Filters
    <3>2. queries'[j] = queries[j] /\ (f # 0 => f \in 1 .. m /\ queries'[f] = queries[f])
      BY <1>3, <1>4, <2>2, <3>1
    <3> QED
      BY <3>1, <3>2
  <2> QED
    BY <1>4, <2>1, <2>2
<1>11. ReadAges'
  <2>1. /\ changedAt = -1 => maxAge = 0
        /\ \A j \in 1 .. n :
             (queries[j].key = "stream" /\ queries[j].state \in {"filtering", "resolved"})
               => queries[j].maxAge = maxAge \/ changedAt >= queries[j].askedAt
    BY <1>1 DEF IInv, ReadAges
  <2>2. ASSUME NEW j \in 1 .. m, queries'[j].key = "stream", queries'[j].state \in {"filtering", "resolved"}
        PROVE  queries'[j].maxAge = maxAge \/ changedAt >= queries'[j].askedAt
    <3>1. j \in 1 .. n
      BY <1>4, <1>5, <2>2
    <3> QED
      BY <1>3, <2>1, <2>2, <3>1
  <2> QED
    BY <1>4, <2>1, <2>2 DEF ReadAges
<1> QED
  <2>1. Shape'
    BY <1>1, <1>3 DEF Shape
  <2>2. TypeOK'
    BY <1>7, <1>8, <1>9, Zenon DEF TypeOK, OtherTypes, QueryTypes, CacheTypes, ClientTypes
  <2> QED
    BY <1>3, <1>6, <1>10, <1>11, <2>1, <2>2 DEF IInv

\* While no query is made or answered, time only makes what is cached older.
LEMMA QueriesUntouched ==
  ASSUME IInv, UNCHANGED <<queries, cache>>, clock' \in Nat, clock' >= clock
  PROVE  LastIsCached' /\ OneQueryPerTtl' /\ Filters' /\ CacheTypes' /\ QueryTypes'
<1>1. queries \in Seq(Query) /\ clock \in Nat
  BY Types
<1>2. LastIsCached' /\ OneQueryPerTtl'
  BY <1>1, EntriesStay
<1>3. Filters'
  BY Zenon DEF IInv, Filters
<1>4. CacheTypes'
  BY TypeParts, Zenon DEF IInv, CacheTypes
<1>5. QueryTypes'
  BY <1>1, TypeParts DEF IInv, QueryTypes
<1> QED
  BY <1>2, <1>3, <1>4, <1>5

\* What has nothing to do with queries keeps the invariant.
LEMMA ElsewhereKeeps ==
  ASSUME IInv, Elsewhere
  PROVE  IInv'
<1>1. /\ clock \in Nat /\ MaxClock \in Nat /\ Ttl \in Nat
      /\ client \in [Clients -> Client] /\ createdAt \in Seq(Nat)
      /\ changedAt \in Int
      /\ queries \in Seq(Query) /\ DOMAIN queries = 1 .. Len(queries)
      /\ \A i \in 1 .. Len(queries) : queries[i].askedAt \in Nat
      /\ cache \in [Keys -> Nat]
  BY Types, MetadataCacheAssumption DEF Query
<1>2. UNCHANGED <<queries, cache>> /\ clock' \in Nat /\ clock' >= clock
  BY <1>1 DEF Elsewhere, Tick, AppendToStream, SetStreamMetadata, Scavenge, Purge, ReadPage, Filter, Reject
<1>3. LastIsCached' /\ OneQueryPerTtl' /\ Filters' /\ CacheTypes' /\ QueryTypes'
  BY <1>2, QueriesUntouched
<1>4. OtherTypes /\ ClientTypes /\ ReadAges /\ Readers
  BY TypeParts DEF IInv
<1>5. ASSUME createdAt' \in Seq(Nat), client' \in [Clients -> Client],
             OtherTypes', ClientTypes', ReadAges', Readers'
      PROVE  IInv'
  <2>1. Shape'
    BY <1>1, <1>2, <1>5 DEF Shape
  <2>2. TypeOK'
    BY <1>3, <1>5, Zenon DEF TypeOK, OtherTypes, QueryTypes, CacheTypes, ClientTypes
  <2> QED
    BY <1>3, <1>5, <2>1, <2>2 DEF IInv
<1>6. UNCHANGED <<client, createdAt>> => Readers' /\ ClientTypes'
  BY <1>2, <1>4 DEF Readers, ClientTypes
<1>7. UNCHANGED <<maxAge, changedAt>> => ReadAges'
  BY <1>2, <1>4 DEF ReadAges
<1>8. CASE Tick
  <2>1. OtherTypes'
    BY <1>1, <1>4, <1>8 DEF Tick, OtherTypes
  <2> QED
    BY <1>1, <1>5, <1>6, <1>7, <1>8, <2>1 DEF Tick
<1>9. CASE AppendToStream
  <2>1. /\ createdAt' \in Seq(Nat) /\ Len(createdAt) \in Nat /\ Len(createdAt') = Len(createdAt) + 1
        /\ DOMAIN createdAt = 1 .. Len(createdAt) /\ DOMAIN createdAt' = 1 .. Len(createdAt')
    BY <1>1, <1>9, AppendProperties, LenProperties DEF AppendToStream
  <2>2. DOMAIN createdAt \subseteq DOMAIN createdAt' /\ Len(createdAt) + 1 \in DOMAIN createdAt'
    BY <2>1
  <2>3. OtherTypes'
    BY <1>4, <1>9, <2>2 DEF AppendToStream, OtherTypes
  <2>4. Readers' /\ ClientTypes'
    <3>1. UNCHANGED <<client, queries>>
      BY <1>2, <1>9 DEF AppendToStream
    <3>2. Readers'
      BY <1>4, <3>1 DEF Readers
    <3>3. ClientTypes'
      BY <1>4, <2>2, <3>1 DEF ClientTypes
    <3> QED
      BY <3>2, <3>3
  <2> QED
    BY <1>1, <1>5, <1>7, <1>9, <2>1, <2>3, <2>4 DEF AppendToStream
<1>10. CASE SetStreamMetadata
  <2>1. OtherTypes'
    BY <1>1, <1>4, <1>10 DEF SetStreamMetadata, OtherTypes
  <2>2. ReadAges'
    <3>1. changedAt' = clock /\ clock # -1
      BY <1>1, <1>10 DEF SetStreamMetadata
    <3>2. \A i \in DOMAIN queries : queries[i].askedAt \in 0 .. clock
      BY TypeParts DEF IInv, QueryTypes
    <3>3. \A i \in DOMAIN queries : clock >= queries[i].askedAt
      BY <1>1, <3>2
    <3> QED
      BY <1>2, <3>1, <3>3 DEF ReadAges
  <2> QED
    BY <1>1, <1>5, <1>6, <1>10, <2>1, <2>2 DEF SetStreamMetadata
<1>11. CASE Scavenge
  <2>1. OtherTypes'
    BY <1>4, <1>11 DEF Scavenge, OtherTypes
  <2> QED
    BY <1>1, <1>5, <1>6, <1>7, <1>11, <2>1 DEF Scavenge
<1>12. CASE Purge
  <2>1. OtherTypes'
    BY <1>4, <1>12 DEF Purge, OtherTypes
  <2> QED
    BY <1>1, <1>5, <1>6, <1>7, <1>12, <2>1 DEF Purge
<1>13. ASSUME NEW c \in Clients, NEW cl \in Client,
              client' = [client EXCEPT ![c] = cl], cl.pc \in {"idle", "read"},
              cl.page \cup cl.valid \subseteq DOMAIN createdAt,
              UNCHANGED <<createdAt, maxAge, changedAt, clock>>, OtherTypes'
       PROVE  IInv'
  <2>1. client' \in [Clients -> Client] /\ client'[c] = cl /\ \A d \in Clients : d # c => client'[d] = client[d]
    BY <1>1, <1>13
  <2>2. Readers'
    <3> SUFFICES ASSUME NEW d \in Clients, client'[d].pc = "waiting"
                 PROVE  /\ client'[d].query \in DOMAIN queries /\ queries[client'[d].query].key = "stream"
                        /\ client'[d].began <= queries[client'[d].query].askedAt + Ttl
      BY <1>2 DEF Readers
    <3>1. client'[d] = client[d]
      BY <1>13, <2>1
    <3> QED
      BY <1>4, <3>1 DEF Readers
  <2>3. ClientTypes'
    <3> SUFFICES ASSUME NEW d \in Clients
                 PROVE  /\ client'[d].pc \in {"idle", "read", "waiting"}
                        /\ client'[d].page \cup client'[d].valid \subseteq DOMAIN createdAt
                        /\ client'[d].pc = "waiting" => client'[d].query \in DOMAIN queries
      BY <1>2, <1>13 DEF ClientTypes
    <3>1. CASE d = c
      BY <1>13, <2>1, <3>1
    <3>2. CASE d # c
      BY <1>4, <2>1, <3>2 DEF ClientTypes
    <3> QED
      BY <3>1, <3>2
  <2> QED
    BY <1>1, <1>5, <1>7, <1>13, <2>1, <2>2, <2>3
<1>14. DOMAIN createdAt \subseteq Nat /\ stored \cup doomed \subseteq DOMAIN createdAt
  BY <1>1, <1>4, LenProperties DEF OtherTypes
<1>15. ASSUME NEW c \in Clients, ReadPage(c)
       PROVE  IInv'
  <2> DEFINE cl == [Waiting EXCEPT !.pc = "read", !.page = stored]
  <2>1. Waiting \in Client /\ Waiting.valid = {}
    BY DEF Waiting, Client
  <2>2. cl \in Client /\ cl.pc \in {"idle", "read"} /\ cl.page \cup cl.valid \subseteq DOMAIN createdAt
    <3>1. stored \in SUBSET Nat
      BY <1>14
    <3>2. cl \in Client /\ cl.pc = "read" /\ cl.page = stored /\ cl.valid = {}
      BY <2>1, <3>1 DEF Client
    <3> QED
      BY <1>14, <3>2
  <2>3. client' = [client EXCEPT ![c] = cl] /\ UNCHANGED <<createdAt, maxAge, changedAt, clock>>
    BY <1>15 DEF ReadPage
  <2>4. OtherTypes'
    BY <1>4, <1>15 DEF ReadPage, OtherTypes
  <2> HIDE DEF cl
  <2> QED
    BY <1>13, <2>2, <2>3, <2>4
<1>16. ASSUME NEW c \in Clients, Filter(c)
       PROVE  IInv'
  <2> DEFINE valid == Valid(client[c].page, queries[client[c].query].maxAge)
             cl == [Waiting EXCEPT !.valid = valid]
  <2>1. cl = [pc |-> "idle", page |-> {}, query |-> 0, began |-> 0, valid |-> valid]
    <3>1. \A v : [Waiting EXCEPT !.valid = v] =
                   [pc |-> "idle", page |-> {}, query |-> 0, began |-> 0, valid |-> v]
      BY DEF Waiting
    <3> QED
      BY <3>1, Zenon
  <2>2. valid \subseteq DOMAIN createdAt
    BY <1>4 DEF Valid, ClientTypes
  <2>3. cl \in Client /\ cl.pc \in {"idle", "read"} /\ cl.page \cup cl.valid \subseteq DOMAIN createdAt
    <3> HIDE DEF cl, valid
    <3>1. valid \in SUBSET Nat
      BY <1>14, <2>2
    <3> QED
      BY <2>1, <2>2, <3>1 DEF Client
  <2>4. client' = [client EXCEPT ![c] = cl] /\ UNCHANGED <<createdAt, maxAge, changedAt, clock>>
    BY <1>16 DEF Filter
  <2>5. OtherTypes'
    BY <1>4, <1>16 DEF Filter, OtherTypes
  <2> HIDE DEF cl
  <2> QED
    BY <1>13, <2>3, <2>4, <2>5
<1>17. ASSUME NEW c \in Clients, Reject(c)
       PROVE  IInv'
  <2>1. /\ Waiting \in Client /\ Waiting.pc \in {"idle", "read"}
        /\ Waiting.page \cup Waiting.valid \subseteq DOMAIN createdAt
    BY DEF Client, Waiting
  <2>2. client' = [client EXCEPT ![c] = Waiting] /\ UNCHANGED <<createdAt, maxAge, changedAt, clock>>
    BY <1>17 DEF Reject
  <2>3. OtherTypes'
    BY <1>4, <1>17 DEF Reject, OtherTypes
  <2> QED
    BY <1>13, <2>1, <2>2, <2>3
<1> QED
  BY <1>8, <1>9, <1>10, <1>11, <1>12, <1>15, <1>16, <1>17, Zenon DEF Elsewhere

\* What a query does keeps the invariant.
LEMMA QueryStepKeeps ==
  ASSUME IInv, NEW i \in 1 .. Len(queries), QueryAnswered(i) \/ QueryFails(i) \/ MetadataFiltered(i)
  PROVE  IInv'
<1> DEFINE Rest == UNCHANGED <<clock, createdAt, stored, doomed, maxAge, changedAt, scavenging, client>>
<1>1. CASE QueryFails(i)
  <2>1. /\ queries' = [queries EXCEPT ![i].state = "failed"] /\ UNCHANGED cache /\ Rest
        /\ queries[i].state = "asked"
    BY <1>1, Zenon DEF QueryFails
  <2> QED
    BY <2>1, QueryGoesOnKeeps
<1>2. CASE MetadataFiltered(i)
  <2>1. /\ queries' = [queries EXCEPT ![i].state = queries[queries[i].filter].state] /\ UNCHANGED cache /\ Rest
        /\ queries[i].state = "filtering"
        /\ queries[queries[i].filter].state \in {"resolved", "failed"}
    BY <1>2, Zenon DEF MetadataFiltered, Settled
  <2> QED
    BY <2>1, QueryGoesOnKeeps
<1>3. CASE /\ QueryAnswered(i)
           /\ queries[i].key = "$$stream" \/ changedAt = -1
           /\ queries' = [queries EXCEPT ![i].state = "resolved"]
           /\ UNCHANGED cache
  <2>1. Rest /\ queries[i].state = "asked"
    BY <1>3, Zenon DEF QueryAnswered
  <2> QED
    BY <1>3, <2>1, QueryGoesOnKeeps
<1>4. CASE /\ QueryAnswered(i)
           /\ queries[i].key = "stream" /\ changedAt # -1
           /\ queries' = Asked(FilterKey, [queries EXCEPT ![i].state = "filtering", ![i].maxAge = maxAge,
                                                          ![i].filter = Promise(FilterKey)])
           /\ cache' = Cached(FilterKey)
  <2>1. Promise("$$stream") \in Nat
    <3>1. "$$stream" \in Keys
      BY DEF Keys
    <3>2. Kept \in [Keys -> Nat] /\ Len(queries) \in Nat
      BY KeptProperties, Types
    <3>3. Kept["$$stream"] \in Nat
      BY <3>1, <3>2, Zenon
    <3>4. Len(queries) + 1 \in Nat
      BY <3>2, SMT
    <3> QED
      BY <3>3, <3>4, Zenon DEF Promise
  <2>0. PICK f \in Nat : f = Promise("$$stream")
    BY <2>1, Zenon
  <2>2. PICK qs : qs = Filtering(i, f) /\ queries' = Asked("$$stream", qs)
    BY <1>4, <2>0, Zenon DEF FilterKey, Filtering
  <2>3. /\ qs \in Seq(Query) /\ Len(qs) = Len(queries)
        /\ \A j \in 1 .. Len(queries) : j # i => qs[j] = queries[j]
        /\ qs[i].key = queries[i].key /\ qs[i].askedAt = queries[i].askedAt
        /\ qs[i].state = "filtering" /\ qs[i].maxAge = maxAge /\ qs[i].filter = Promise("$$stream")
    <3>1. /\ Filtering(i, f) \in Seq(Query) /\ Len(Filtering(i, f)) = Len(queries)
          /\ \A j \in 1 .. Len(queries) : j # i => Filtering(i, f)[j] = queries[j]
          /\ Filtering(i, f)[i].key = queries[i].key /\ Filtering(i, f)[i].askedAt = queries[i].askedAt
          /\ Filtering(i, f)[i].state = "filtering" /\ Filtering(i, f)[i].maxAge = maxAge
          /\ Filtering(i, f)[i].filter = f
      BY QueryFilters
    <3> QED
      BY <2>0, <2>2, <3>1, Zenon
  <2>4. Rest /\ queries[i].state = "asked" /\ cache' = Cached("$$stream")
    BY <1>4, Zenon DEF QueryAnswered, FilterKey
  <2> QED
    BY <1>4, <2>2, <2>3, <2>4, QueryAwaitsKeeps, Zenon
<1> QED
  BY <1>1, <1>2, <1>3, <1>4, Zenon DEF QueryAnswered

\* Before anything happens there is nothing to hold it against.
LEMMA InitKeeps == Init => IInv
<1> SUFFICES ASSUME Init
             PROVE  IInv
  OBVIOUS
<1>1. /\ createdAt = << >> /\ queries = << >> /\ client = [c \in Clients |-> Waiting]
      /\ cache = [k \in Keys |-> 0] /\ DOMAIN queries = {} /\ DOMAIN createdAt = {} /\ Len(queries) = 0
  <2>1. createdAt = << >> /\ queries = << >> /\ client = [c \in Clients |-> Waiting] /\ cache = [k \in Keys |-> 0]
    BY DEF Init
  <2>2. DOMAIN queries = {} /\ DOMAIN createdAt = {} /\ Len(queries) = 0
    BY <2>1, EmptySeq, LenProperties
  <2> QED
    BY <2>1, <2>2
<1>2. Waiting \in Client /\ Waiting.pc = "idle" /\ Waiting.page = {} /\ Waiting.valid = {}
  BY DEF Waiting, Client
<1>3. \A c \in Clients : client[c] = Waiting
  BY <1>1
<1>4. Shape
  <2>1. client \in [Clients -> Client] /\ cache \in [Keys -> Nat]
    BY <1>1, <1>2
  <2>2. createdAt \in Seq(Nat) /\ queries \in Seq(Query)
    BY <1>1, EmptySeq
  <2> QED
    BY <2>1, <2>2 DEF Shape
<1>5. OtherTypes
  BY <1>1, MetadataCacheAssumption DEF Init, OtherTypes
<1>6. QueryTypes /\ CacheTypes
  BY <1>1 DEF QueryTypes, CacheTypes
<1>7. ClientTypes /\ Readers
  BY <1>1, <1>2, <1>3 DEF ClientTypes, Readers
<1>8. LastIsCached /\ OneQueryPerTtl /\ Filters
  BY <1>1 DEF LastIsCached, OneQueryPerTtl, Filters
<1>9. ReadAges
  BY <1>1 DEF Init, ReadAges
<1> QED
  BY <1>4, <1>5, <1>6, <1>7, <1>8, <1>9, TypeParts DEF IInv

\* So does every step.
LEMMA NextKeeps == IInv /\ [Next]_vars => IInv'
<1> SUFFICES ASSUME IInv, [Next]_vars
             PROVE  IInv'
  OBVIOUS
<1>1. CASE Elsewhere
  BY <1>1, ElsewhereKeeps
<1>2. CASE QueryStep
  <2>1. PICK i \in 1 .. Len(queries) : QueryAnswered(i) \/ QueryFails(i) \/ MetadataFiltered(i)
    BY <1>2 DEF QueryStep
  <2> QED
    BY <2>1, QueryStepKeeps
<1>3. ASSUME NEW c \in Clients, LookUp(c)
      PROVE  IInv'
  <2>1. Promise("stream") \in Nat
    <3>1. "stream" \in Keys
      BY DEF Keys
    <3>2. Kept["stream"] \in Nat /\ Len(queries) \in Nat
      BY <3>1, KeptProperties, Types
    <3> QED
      BY <3>2 DEF Promise
  <2>2. /\ client' = Waits(c, Promise("stream"))
        /\ queries' = Asked("stream", queries) /\ cache' = Cached("stream")
        /\ UNCHANGED <<clock, createdAt, stored, doomed, maxAge, changedAt, scavenging>>
    BY <1>3, Zenon DEF LookUp, Waits
  <2>3. /\ client' \in [Clients -> Client]
        /\ \A d \in Clients : d # c => client'[d] = client[d]
        /\ client'[c].pc = "waiting" /\ client'[c].query = Promise("stream") /\ client'[c].began = clock
        /\ client'[c].page = client[c].page /\ client'[c].valid = client[c].valid
    BY <2>1, <2>2, ReaderWaits
  <2> QED
    BY <2>2, <2>3, LookUpKeeps
<1>4. CASE UNCHANGED vars
  BY <1>4 DEF vars, IInv, Shape, TypeOK, LastIsCached, OneQueryPerTtl, Filters, ReadAges, Readers
<1> QED
  BY <1>1, <1>2, <1>3, <1>4, Steps

-----------------------------------------------------------------------------
(***************************************************************************)
(* The theorems                                                            *)
(***************************************************************************)

\* Every state of the reads and of their cache satisfies the invariant.
THEOREM Invariance == Spec => []IInv
<1>1. Init => IInv
  BY InitKeeps
<1>2. IInv /\ [Next]_vars => IInv'
  BY NextKeeps
<1> QED
  BY <1>1, <1>2, PTL DEF Spec

\* Every variable has its type: who waits, waits for a query that was made.
THEOREM TypeCorrect == Spec => []TypeOK
<1>1. IInv => TypeOK
  BY DEF IInv
<1> QED
  BY <1>1, Invariance, PTL

\* "To avoid spamming the DB with requests": however many read, however the answers
\* come and whatever fails, the metadata of a stream is read once in Ttl seconds.
THEOREM OneQuery == Spec => []OneQueryPerTtl
<1>1. IInv => OneQueryPerTtl
  BY DEF IInv
<1> QED
  BY <1>1, Invariance, PTL

\* A read that is over has been filtered or rejected.
LEMMA Ends ==
  ASSUME IInv, [Next]_vars, NEW c \in Clients, client[c].pc = "waiting", client'[c].pc = "idle"
  PROVE  Filter(c) \/ Reject(c)
<1>1. client \in [Clients -> Client]
  BY Types
<1>2. client' # client
  OBVIOUS
<1>3. ASSUME NEW d \in Clients, ReadPage(d) \/ LookUp(d) \/ Filter(d) \/ Reject(d)
      PROVE  d = c
  <2>1. \A e \in Clients : e # d => client'[e] = client[e]
    BY <1>1, <1>3 DEF ReadPage, LookUp, Filter, Reject
  <2> QED
    BY <2>1
<1>4. ~ ReadPage(c)
  BY DEF ReadPage
<1>5. ~ LookUp(c)
  BY DEF LookUp
<1>6. \E d \in Clients : ReadPage(d) \/ LookUp(d) \/ Filter(d) \/ Reject(d)
  <2>1. ~ (Tick \/ AppendToStream \/ SetStreamMetadata \/ Scavenge \/ Purge)
    BY <1>2, Zenon DEF Tick, AppendToStream, SetStreamMetadata, Scavenge, Purge
  <2>2. ~ QueryStep
    BY <1>2, Zenon DEF QueryStep, QueryAnswered, QueryFails, MetadataFiltered
  <2>3. ~ UNCHANGED vars
    BY <1>2, Zenon DEF vars
  <2> QED
    BY <2>1, <2>2, <2>3, Steps, Zenon DEF Elsewhere
<1> QED
  BY <1>3, <1>4, <1>5, <1>6

\* README.md:341, "Messages older than this won't be returned": a read that began when
\* the metadata had been as it is for longer than Ttl returns exactly the messages
\* that have not expired, though it may filter by a promise someone else made.
THEOREM Exact == Spec => ExactOnceSettled
<1>1. ASSUME IInv, [Next]_vars, NEW c \in Clients,
             client[c].pc = "waiting", queries[client[c].query].state = "resolved",
             client'[c].pc = "idle", changedAt + Ttl < client[c].began
      PROVE  client'[c].valid = Valid(client[c].page, maxAge)
  <2> DEFINE i == client[c].query
  <2>1. /\ client \in [Clients -> Client] /\ client[c] \in Client /\ Ttl \in Nat /\ changedAt \in Int
        /\ DOMAIN queries = 1 .. Len(queries) /\ \A j \in 1 .. Len(queries) : queries[j] \in Query
    BY <1>1, Types
  <2>2. /\ i \in DOMAIN queries /\ queries[i].key = "stream"
        /\ client[c].began <= queries[i].askedAt + Ttl
    BY <1>1 DEF IInv, Readers
  <2>3. queries[i].maxAge = maxAge
    <3>1. queries[i].maxAge = maxAge \/ changedAt >= queries[i].askedAt
      BY <1>1, <2>2 DEF IInv, ReadAges
    <3>2. queries[i].askedAt \in Nat /\ client[c].began \in Nat
      BY <2>1, <2>2 DEF Query, Client
    <3> HIDE DEF i
    <3> QED
      BY <1>1, <2>1, <2>2, <3>1, <3>2
  <2>4. Filter(c)
    <3>1. ~ Reject(c)
      BY <1>1 DEF Reject
    <3> QED
      BY <1>1, <3>1, Ends
  <2>5. client' = [client EXCEPT ![c] = [Waiting EXCEPT !.valid = Valid(client[c].page, queries[i].maxAge)]]
    BY <2>4, Zenon DEF Filter
  <2>6. client'[c] = [Waiting EXCEPT !.valid = Valid(client[c].page, maxAge)]
    BY <2>1, <2>3, <2>5
  <2>7. \A v : [Waiting EXCEPT !.valid = v].valid = v
    BY DEF Waiting
  <2> QED
    BY <2>6, <2>7
<1>2. IInv /\ [Next]_vars =>
        [\A c \in Clients :
           (client[c].pc = "waiting" /\ queries[client[c].query].state = "resolved"
              /\ client'[c].pc = "idle" /\ changedAt + Ttl < client[c].began)
             => client'[c].valid = Valid(client[c].page, maxAge)]_vars
  BY <1>1
<1> QED
  BY <1>2, Invariance, PTL DEF Spec, ExactOnceSettled

\* A query that fails fails who asks in the Ttl seconds after, through the cache, and
\* who asks for the entry that awaited it: nobody else.
THEOREM Forgotten == Spec => FailuresAreForgotten
<1>1. ASSUME IInv, NEW c \in Clients, client[c].pc = "waiting", queries[client[c].query].state = "failed"
      PROVE  \E j \in DOMAIN queries :
               /\ queries[j].state = "failed" /\ queries[j].filter = 0
               /\ queries[j].askedAt + 2 * Ttl >= client[c].began
  <2> DEFINE i == client[c].query
             j == queries[i].filter
  <2>1. /\ client[c] \in Client /\ Ttl \in Nat
        /\ DOMAIN queries = 1 .. Len(queries) /\ \A k \in 1 .. Len(queries) : queries[k] \in Query
    BY <1>1, Types
  <2>2. i \in DOMAIN queries /\ client[c].began <= queries[i].askedAt + Ttl
    BY <1>1 DEF IInv, Readers
  <2>3. queries[i].askedAt \in Nat /\ client[c].began \in Nat
    BY <2>1, <2>2 DEF Query, Client
  <2>4. CASE j = 0
    <3>1. queries[i].askedAt + 2 * Ttl >= client[c].began
      <4> HIDE DEF i
      <4> QED
        BY <2>1, <2>2, <2>3
    <3> QED
      BY <1>1, <2>2, <2>4, <3>1
  <2>5. CASE j # 0
    <3>1. /\ j \in DOMAIN queries /\ queries[j].key = "$$stream" /\ queries[j].state = "failed"
          /\ queries[i].askedAt <= queries[j].askedAt + Ttl
      BY <1>1, <2>2, <2>5 DEF IInv, Filters
    <3>2. queries[j].filter = 0
      BY <1>1, <3>1 DEF IInv, Filters
    <3>3. queries[j].askedAt \in Nat
      BY <2>1, <3>1 DEF Query
    <3>4. queries[j].askedAt + 2 * Ttl >= client[c].began
      <4> HIDE DEF i, j
      <4> QED
        BY <2>1, <2>2, <2>3, <3>1, <3>3
    <3> QED
      BY <3>1, <3>2, <3>4
  <2> QED
    BY <2>4, <2>5
<1>2. IInv /\ [Next]_vars =>
        [\A c \in Clients :
           LET i == client[c].query IN
           (client[c].pc = "waiting" /\ queries[i].state = "failed" /\ client'[c].pc = "idle")
             => \E j \in DOMAIN queries :
                  /\ queries[j].state = "failed" /\ queries[j].filter = 0
                  /\ queries[j].askedAt + 2 * Ttl >= client[c].began]_vars
  BY <1>1
<1> QED
  BY <1>2, Invariance, PTL DEF Spec, FailuresAreForgotten

=============================================================================
