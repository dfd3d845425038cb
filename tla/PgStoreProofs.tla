----------------------------- MODULE PgStoreProofs -----------------------------
(***************************************************************************)
(* What PgStoreProperties says of the PostgreSQL store, proved.            *)
(*                                                                         *)
(* Of the three invariants TInv holds of every workload: the variables     *)
(* have their shape, what is stored or about to be is below the sequences, *)
(* and no two messages have a key in common.  From it comes TypeOK.        *)
(*                                                                         *)
(* SInv holds of the workloads that only append, and that repeat an append *)
(* at a version only (Undisturbed).  It says of the tables that a stream   *)
(* has the versions up to that of its row, in the order of the positions,  *)
(* and of each transaction what it knows at each of its statements: until  *)
(* the insert a version that the stream is not behind, and after it that   *)
(* what it inserted goes right after the last message, whoever commits     *)
(* meanwhile, since two transactions that insert the same version of a     *)
(* stream would have inserted the same key.                                *)
(*                                                                         *)
(* QInv is about scavenging, and holds of any workload whose replays write *)
(* nothing: what is too much in a stream, some transaction is going to     *)
(* delete.                                                                 *)
(***************************************************************************)
EXTENDS PgStoreProperties, FiniteSetTheorems, SequenceTheorems, TLAPS

-----------------------------------------------------------------------------
(***************************************************************************)
(* The shape of the variables and the keys of the message table            *)
(***************************************************************************)

\* The ids that callers give, and all there are.
GivenIn(requests) == UNION {ToSet(r.ids) : r \in requests}
Given == GivenIn(workload)
MadeUpIds == {MadeUp(n, i) : n \in Nat, i \in Nat}
DeletionIds == {<<s, "deleted", v>> : s \in Streams \cup {DeletedStream}, v \in Int}
MessageIds == (UNION {GivenIn(requests) : requests \in Workloads}) \cup MadeUpIds \cup DeletionIds

RowSet == [id : Nat, version : Int, maxCount : Nat]
MessageSet == [streamId : AllStreams, id : Nat, messageId : MessageIds, streamVersion : Nat,
               position : Nat, maxCount : Nat]
RequestSet == [op : {"append", "metadata", "delete", "delete stream", "scavenge"},
               stream : Streams \cup {DeletedStream}, expected : Int, ids : Seq(MessageIds), maxCount : Nat]
WriteSet == UNION {[S -> RowSet] : S \in SUBSET AllStreams}
TxSet == [pc : Steps, request : RequestSet, tries : Nat, target : AllStreams, expected : Int,
          ids : Seq(MessageIds), id : Nat, current : Int, success : Nat, maxCount : Nat,
          writes : WriteSet, inserted : SUBSET MessageSet, deleted : SUBSET MessageSet]

Shape ==
  /\ workload \in Workloads
  /\ rows \in [AllStreams -> RowSet]
  /\ messages \in SUBSET MessageSet /\ IsFiniteSet(messages)
  /\ tx \in [Clients -> TxSet]
  /\ nextId \in Nat /\ nextId >= 1 /\ position \in Nat /\ calls \in 0 .. MaxCalls

IsRow(row, n) == row.id < n /\ row.version >= -1
IsMessage(m, n, p) == m.id >= 1 /\ m.id < n /\ m.position < p
Injective(ids) == \A i, j \in DOMAIN ids : ids[i] = ids[j] => i = j
IsCall(r) ==
  /\ r \in RequestSet /\ r.expected >= ExpectedVersionAny /\ Injective(r.ids)
  /\ r.op = "metadata" => r.stream \in Streams

\* A transaction inserts once, after everything else it may do but commit.
Early == {"idle", "metadata", "create", "read", "version", "insert",
          "locate", "select", "delete", "find", "compare", "purge", "drop"}

\* The variables of a transaction t are in range when the sequences are at n and p.
InRange(t, n, p) ==
  /\ t \in TxSet /\ IsCall(t.request)
  /\ t.id < n /\ t.tries <= Tries
  /\ t.expected >= ExpectedVersionAny /\ Injective(t.ids)
  /\ \A s \in DOMAIN t.writes : IsRow(t.writes[s], n)
  /\ \A m \in t.inserted : IsMessage(m, n, p)
  /\ IsFiniteSet(t.inserted)
  /\ (t.pc \in {"version", "insert"} /\ t.ids # << >>) => t.current >= -1
  /\ t.pc = "update" => t.current >= -1
  /\ t.pc = "insert" => t.ids # << >>
  /\ t.pc \in Early => t.inserted = {}

Ranges ==
  /\ \A s \in AllStreams : IsRow(rows[s], nextId)
  /\ \A m \in messages : IsMessage(m, nextId, position)
  /\ \A c \in Clients : InRange(tx[c], nextId, position)

Apart(m, k) == ~ Conflict(m, k) /\ m.position # k.position

\* What t, the transaction of c, inserts and deletes goes with what the others do.
Fits(c, t) ==
  /\ \A m, k \in t.inserted : m # k => Apart(m, k)
  /\ \A m \in t.inserted, k \in messages :
       m.position # k.position /\ (k \notin t.deleted => ~ Conflict(m, k))
  /\ \A d \in Clients \ {c} :
       /\ \A m \in t.inserted, k \in tx[d].inserted : Apart(m, k)
       /\ \A m \in t.inserted, k \in tx[d].deleted : ~ Conflict(m, k)
       /\ \A m \in tx[d].inserted, k \in t.deleted : ~ Conflict(m, k)

\* No message has a key of another, whether they are committed or on the way; those
\* a transaction deletes are in the way of all but itself.
Keys ==
  /\ \A m, k \in messages : m # k => Apart(m, k)
  /\ \A c \in Clients : Fits(c, tx[c])

TInv == Shape /\ Ranges /\ Keys

-----------------------------------------------------------------------------
(***************************************************************************)
(* Lemmas: rows, transactions and requests                                 *)
(***************************************************************************)

\* The three kinds of streams, which are all streams.
LEMMA StreamKinds ==
  /\ \A s \in Streams : s \in AllStreams /\ MetaStream(s) \in AllStreams
  /\ DeletedStream \in AllStreams
BY DEF AllStreams

\* A row with what t has written to it.
LEMMA WroteIsWrites ==
  ASSUME NEW t \in TxSet, NEW s \in AllStreams, NEW row \in RowSet
  PROVE  /\ Wrote(t, s, row) \in WriteSet
         /\ DOMAIN Wrote(t, s, row) = DOMAIN t.writes \cup {s}
         /\ Wrote(t, s, row)[s] = row
         /\ \A u \in DOMAIN t.writes \ {s} : Wrote(t, s, row)[u] = t.writes[u]
<1>1. PICK S \in SUBSET AllStreams : t.writes \in [S -> RowSet]
  BY DEF TxSet, WriteSet
<1>2. Wrote(t, s, row) \in [S \cup {s} -> RowSet]
  BY <1>1 DEF Wrote
<1>3. S \cup {s} \in SUBSET AllStreams
  OBVIOUS
<1> QED BY <1>1, <1>2, <1>3 DEF WriteSet, Wrote

\* What a transaction sees of the stream table and the message table.
LEMMA Sees ==
  ASSUME Shape, Ranges, NEW c \in Clients
  PROVE  /\ \A s \in AllStreams : Row(c, s) \in RowSet /\ IsRow(Row(c, s), nextId)
         /\ DOMAIN tx[c].writes \subseteq AllStreams
         /\ Visible(c) \in SUBSET MessageSet /\ IsFiniteSet(Visible(c))
         /\ \A m \in Visible(c) : IsMessage(m, nextId, position)
<1> DEFINE t == tx[c]
<1>1. t \in TxSet /\ InRange(t, nextId, position)
  BY DEF Shape, Ranges
<1>2. PICK S \in SUBSET AllStreams : t.writes \in [S -> RowSet]
  BY <1>1 DEF TxSet, WriteSet
<1>3. t.inserted \in SUBSET MessageSet
  BY <1>1 DEF TxSet
<1>4. \A s \in AllStreams : Row(c, s) \in RowSet /\ IsRow(Row(c, s), nextId)
  <2> TAKE s \in AllStreams
  <2>1. CASE s \in DOMAIN t.writes
    BY <1>1, <1>2, <2>1 DEF Row, InRange
  <2>2. CASE s \notin DOMAIN t.writes
    BY <2>2 DEF Row, Shape, Ranges
  <2> QED BY <2>1, <2>2
<1>5. IsFiniteSet(Visible(c))
  <2>1. IsFiniteSet(messages \ t.deleted)
    BY FS_Difference DEF Shape
  <2>2. IsFiniteSet(t.inserted)
    BY <1>1 DEF InRange
  <2> QED BY <2>1, <2>2, FS_Union DEF Visible
<1>6. Visible(c) \in SUBSET MessageSet /\ \A m \in Visible(c) : IsMessage(m, nextId, position)
  BY <1>1, <1>3 DEF Visible, Shape, Ranges, InRange
<1> QED BY <1>2, <1>4, <1>5, <1>6

\* Conflict is symmetric.
LEMMA ConflictSymmetric ==
  ASSUME NEW m, NEW k
  PROVE  Conflict(m, k) = Conflict(k, m) /\ Apart(m, k) = Apart(k, m)
BY DEF Conflict, Apart

\* The transaction of c becomes t.
LEMMA Becomes ==
  ASSUME tx \in [Clients -> TxSet], NEW c \in Clients, NEW t \in TxSet, Become(c, t)
  PROVE  /\ tx' \in [Clients -> TxSet] /\ tx'[c] = t
         /\ \A d \in Clients \ {c} : tx'[d] = tx[d]
BY DEF Become

\* Every transaction is kept in range by the sequences' going on.
LEMMA RangeGrows ==
  ASSUME NEW t, NEW n \in Nat, NEW p \in Nat, NEW n1 \in Nat, NEW p1 \in Nat,
         n <= n1, p <= p1, InRange(t, n, p)
  PROVE  InRange(t, n1, p1)
<1>1. t \in TxSet
  BY DEF InRange
<1>2. t.id \in Nat /\ t.inserted \in SUBSET MessageSet
  BY <1>1 DEF TxSet
<1>3. PICK S \in SUBSET AllStreams : t.writes \in [S -> RowSet]
  BY <1>1 DEF TxSet, WriteSet
<1>4. \A s \in DOMAIN t.writes : IsRow(t.writes[s], n1)
  BY <1>3 DEF InRange, IsRow, RowSet
<1>5. \A m \in t.inserted : IsMessage(m, n1, p1)
  BY <1>2 DEF InRange, IsMessage, MessageSet
<1>6. t.id < n1
  BY <1>2 DEF InRange
<1> QED BY <1>1, <1>4, <1>5, <1>6 DEF InRange

\* A step of one transaction that commits nothing.
LEMMA OneStep ==
  ASSUME TInv, NEW c \in Clients, NEW t, Become(c, t),
         InRange(t, nextId', position'), Fits(c, t),
         UNCHANGED <<workload, rows, messages>>,
         nextId' \in Nat, nextId <= nextId', position' \in Nat, position <= position',
         calls' \in 0 .. MaxCalls
  PROVE  TInv'
<1>1. t \in TxSet
  BY DEF InRange
<1>2. /\ tx' \in [Clients -> TxSet] /\ tx'[c] = t
      /\ \A d \in Clients \ {c} : tx'[d] = tx[d]
  BY <1>1, Becomes DEF TInv, Shape
<1>3. nextId \in Nat /\ position \in Nat /\ nextId >= 1
  BY DEF TInv, Shape
<1>4. Shape'
  BY <1>2, <1>3 DEF TInv, Shape
<1>5. Ranges'
  <2>1. \A s \in AllStreams : IsRow(rows[s], nextId')
    BY <1>3 DEF TInv, Shape, Ranges, IsRow, RowSet
  <2>2. \A m \in messages : IsMessage(m, nextId', position')
    BY <1>3 DEF TInv, Shape, Ranges, IsMessage, MessageSet
  <2>3. \A d \in Clients : InRange(tx'[d], nextId', position')
    BY <1>2, <1>3, RangeGrows DEF TInv, Ranges
  <2> QED BY <2>1, <2>2, <2>3 DEF Ranges
<1>6. Keys'
  <2>1. \A m, k \in messages' : m # k => Apart(m, k)
    BY DEF TInv, Keys
  <2>2. ASSUME NEW d \in Clients PROVE Fits(d, tx[d])'
    <3>1. CASE d = c
      BY <1>2, <3>1 DEF Fits
    <3>2. CASE d # c
      <4>1. tx'[d] = tx[d]
        BY <1>2, <3>2
      <4>2. Fits(d, tx[d])
        BY DEF TInv, Keys
      <4>3. \A e \in Clients \ {d} :
              /\ \A m \in tx[d].inserted, k \in tx'[e].inserted : Apart(m, k)
              /\ \A m \in tx[d].inserted, k \in tx'[e].deleted : ~ Conflict(m, k)
              /\ \A m \in tx'[e].inserted, k \in tx[d].deleted : ~ Conflict(m, k)
        <5> TAKE e \in Clients \ {d}
        <5>1. CASE e = c
          BY <1>2, <3>2, <5>1, ConflictSymmetric DEF Fits
        <5>2. CASE e # c
          BY <1>2, <4>2, <5>2 DEF Fits
        <5> QED BY <5>1, <5>2
      <4> QED BY <4>1, <4>2, <4>3 DEF Fits
    <3> QED BY <3>1, <3>2
  <2> QED BY <2>1, <2>2 DEF Keys
<1> QED BY <1>4, <1>5, <1>6 DEF TInv

\* A transaction goes on fitting as long as it inserts and deletes nothing, and when it
\* has inserted nothing and deletes nothing more.
LEMMA StillFits ==
  ASSUME TInv, NEW c \in Clients, NEW t,
         \/ t.inserted = tx[c].inserted /\ t.deleted = tx[c].deleted
         \/ t.inserted = {} /\ t.deleted \subseteq tx[c].deleted
  PROVE  Fits(c, t)
BY DEF TInv, Keys, Fits

\* A request is of its type.
LEMMA RequestIs ==
  ASSUME NEW op \in {"append", "metadata", "delete", "delete stream", "scavenge"},
         NEW stream \in Streams \cup {DeletedStream}, NEW expected \in Int,
         NEW ids \in Seq(MessageIds), NEW maxCount \in Nat
  PROVE  Request(op, stream, expected, ids, maxCount) \in RequestSet
BY DEF Request, RequestSet

\* No transaction is under way.
LEMMA IdleInRange ==
  ASSUME NEW n \in Nat, n >= 1, NEW p \in Nat
  PROVE  InRange(Idle, n, p) /\ Idle.inserted = {} /\ Idle.deleted = {}
<1>1. Request("delete", DeletedStream, 0, << >>, 0) \in RequestSet
  BY DEF Request, RequestSet
<1>2. << >> \in WriteSet
  <2>1. << >> \in [{} -> RowSet]
    OBVIOUS
  <2> QED BY <2>1 DEF WriteSet
<1>3. Idle \in TxSet
  BY <1>1, <1>2, StreamKinds DEF Idle, TxSet, Steps
<1>4. IsCall(Request("delete", DeletedStream, 0, << >>, 0))
  BY <1>1 DEF IsCall, Request, Injective, ExpectedVersionAny
<1>5. IsFiniteSet({})
  BY FS_EmptySet
<1> QED
  BY <1>3, <1>4, <1>5, PgStoreAssumption DEF InRange, Idle, Injective, ExpectedVersionAny

\* A transaction begins.
LEMMA BeginInRange ==
  ASSUME NEW n \in Nat, n >= 1, NEW p \in Nat, NEW r, IsCall(r), NEW tries \in Nat, tries <= Tries
  PROVE  InRange(Begin(r, tries), n, p) /\ Begin(r, tries).inserted = {} /\ Begin(r, tries).deleted = {}
<1> DEFINE start == CASE r.op \in {"delete", "scavenge"} -> "locate"
                      [] r.op = "delete stream" -> "find"
                      [] OTHER -> AppendStart(r.expected)
           target == IF r.op = "metadata" THEN MetaStream(r.stream) ELSE r.stream
<1>1. r \in RequestSet /\ r.ids \in Seq(MessageIds) /\ r.expected \in Int
  BY DEF IsCall, RequestSet
<1>2. start \in {"locate", "find", "metadata", "read"}
  BY <1>1 DEF RequestSet, AppendStart
<1>3. target \in AllStreams
  BY <1>1, StreamKinds DEF RequestSet, IsCall
<1>4. InRange(Idle, n, p) /\ Idle.inserted = {} /\ Idle.deleted = {}
  BY IdleInRange
<1>5. Idle \in TxSet
  BY <1>4 DEF InRange
<1> HIDE DEF start, target
<1>6. Begin(r, tries) = [Idle EXCEPT !.pc = start, !.request = r, !.tries = tries, !.target = target,
                           !.expected = r.expected, !.ids = r.ids]
  BY DEF Begin, start, target
<1>7. Begin(r, tries) \in TxSet
  BY <1>1, <1>2, <1>3, <1>5, <1>6 DEF TxSet, Steps
<1>8. /\ Begin(r, tries).pc = start /\ Begin(r, tries).request = r /\ Begin(r, tries).tries = tries
      /\ Begin(r, tries).expected = r.expected /\ Begin(r, tries).ids = r.ids
      /\ Begin(r, tries).id = 0 /\ Begin(r, tries).writes = << >>
      /\ Begin(r, tries).inserted = {} /\ Begin(r, tries).deleted = {}
  BY <1>6 DEF Idle
<1>9. IsFiniteSet({})
  BY FS_EmptySet
<1> QED
  BY <1>2, <1>7, <1>8, <1>9 DEF InRange, IsCall

-----------------------------------------------------------------------------
(***************************************************************************)
(* Every step keeps the shape, the ranges and the keys                     *)
(***************************************************************************)

\* A step that inserts and deletes nothing.
LEMMA QuietStep ==
  ASSUME TInv, NEW c \in Clients, NEW t, Become(c, t), InRange(t, nextId', position'),
         \/ t.inserted = tx[c].inserted /\ t.deleted = tx[c].deleted
         \/ t.inserted = {} /\ t.deleted \subseteq tx[c].deleted,
         UNCHANGED <<workload, rows, messages>>,
         nextId' \in Nat, nextId <= nextId', position' \in Nat, position <= position',
         calls' \in 0 .. MaxCalls
  PROVE  TInv'
BY StillFits, OneStep

\* A step that reads.
LEMMA ReadStep ==
  ASSUME TInv, NEW c \in Clients, NEW t, Become(c, t), InRange(t, nextId, position),
         \/ t.inserted = tx[c].inserted /\ t.deleted = tx[c].deleted
         \/ t.inserted = {} /\ t.deleted \subseteq tx[c].deleted,
         Reads
  PROVE  TInv'
<1>1. /\ nextId \in Nat /\ position \in Nat /\ calls \in 0 .. MaxCalls
      /\ UNCHANGED <<workload, rows, messages, nextId, position, calls>>
  BY DEF TInv, Shape, Reads
<1> QED BY <1>1, QuietStep

\* A step that rolls back.
LEMMA RollBack ==
  ASSUME TInv, NEW c \in Clients, WrongExpectedVersion(c) \/ Reject(c),
         UNCHANGED <<workload, rows, messages, nextId>>,
         position' \in Nat, position <= position', calls' \in 0 .. MaxCalls
  PROVE  TInv'
<1> DEFINE t == tx[c]
<1>1. nextId \in Nat /\ nextId >= 1 /\ InRange(t, nextId, position)
  BY DEF TInv, Shape, Ranges
<1>2. PICK u : Become(c, u) /\ u \in {Idle, Begin(t.request, t.tries + 1)}
               /\ (u = Idle \/ t.tries < Tries)
  BY DEF WrongExpectedVersion, Reject
<1>3. IsCall(t.request) /\ t.tries \in Nat
  BY <1>1 DEF InRange, TxSet
<1>4. InRange(u, nextId', position') /\ u.inserted = {} /\ u.deleted = {}
  <2>1. CASE u = Idle
    BY <1>1, <2>1, IdleInRange
  <2>2. CASE u # Idle
    <3>1. u = Begin(t.request, t.tries + 1) /\ t.tries + 1 \in Nat /\ t.tries + 1 <= Tries
      BY <1>2, <1>3, <2>2, PgStoreAssumption
    <3> QED BY <1>1, <1>3, <3>1, BeginInRange
  <2> QED BY <2>1, <2>2
<1> HIDE DEF t
<1> QED BY <1>1, <1>2, <1>4, QuietStep

\* What a client asks for is a call.
LEMMA FreshIsCall ==
  ASSUME TInv, NEW r \in workload
  PROVE  IsCall(Fresh(r))
<1> DEFINE ids == [i \in DOMAIN r.ids |-> IF r.ids[i] = NewId THEN MadeUp(calls, i) ELSE r.ids[i]]
<1>1. workload \in Workloads /\ IsRequest(r) /\ calls \in 0 .. MaxCalls
  BY PgStoreAssumption DEF TInv, Shape
<1>2. r = Request(r.op, r.stream, r.expected, r.ids, r.maxCount)
  BY <1>1 DEF IsRequest
<1>3. r.ids \in Seq(ToSet(r.ids))
  BY <1>1 DEF IsRequest
<1>4. Fresh(r) = Request(r.op, r.stream, r.expected, ids, r.maxCount)
  BY <1>2 DEF Fresh, Request
<1>5. PICK n \in Nat : DOMAIN r.ids = 1 .. n
  BY <1>3
<1>6. \A i \in DOMAIN r.ids : ids[i] \in MessageIds
  <2> TAKE i \in DOMAIN r.ids
  <2>1. i \in Nat /\ calls \in Nat
    BY <1>1, <1>5
  <2>2. r.ids[i] \in ToSet(r.ids)
    BY DEF ToSet
  <2>3. r.ids[i] \in GivenIn(workload)
    BY <2>2 DEF GivenIn
  <2>4. r.ids[i] \in MessageIds
    BY <1>1, <2>3 DEF MessageIds
  <2>5. MadeUp(calls, i) \in MadeUpIds
    BY <2>1 DEF MadeUpIds
  <2>6. MadeUp(calls, i) \in MessageIds
    BY <2>5 DEF MessageIds
  <2> QED BY <2>4, <2>6
<1>7. ids \in Seq(MessageIds)
  BY <1>5, <1>6
<1>8. Injective(ids)
  <2> SUFFICES ASSUME NEW i \in DOMAIN r.ids, NEW j \in DOMAIN r.ids, ids[i] = ids[j]
               PROVE  i = j
    BY DEF Injective
  <2>1. \A k \in 0 .. MaxCalls : r.ids[i] # MadeUp(k, j) /\ r.ids[j] # MadeUp(k, i)
    BY <1>1, PgStoreAssumption
  <2>2. MadeUp(calls, i) = MadeUp(calls, j) => i = j
    BY DEF MadeUp
  <2>3. r.ids[i] = r.ids[j] => i = j \/ r.ids[i] = NewId
    BY <1>1 DEF IsRequest
  <2> QED BY <1>1, <2>1, <2>2, <2>3
<1> HIDE DEF ids
<1>9. /\ Fresh(r).op = r.op /\ Fresh(r).stream = r.stream /\ Fresh(r).expected = r.expected
      /\ Fresh(r).ids = ids
  BY <1>4 DEF Request
<1>10. /\ r.op \in {"append", "metadata", "delete", "delete stream"} /\ r.stream \in Streams
       /\ r.expected \in Int /\ r.expected >= ExpectedVersionAny /\ r.maxCount \in Nat
  BY <1>1 DEF IsRequest
<1>11. Fresh(r) \in RequestSet
  <2>1. r.op \in {"append", "metadata", "delete", "delete stream", "scavenge"}
    BY <1>10
  <2>2. r.stream \in Streams \cup {DeletedStream}
    BY <1>10
  <2> QED BY <1>4, <1>7, <1>10, <2>1, <2>2, RequestIs
<1> QED
  BY <1>8, <1>9, <1>10, <1>11 DEF IsCall

\* A call.
LEMMA CallKeeps ==
  ASSUME TInv, NEW c \in Clients, Call(c)
  PROVE  TInv'
<1>1. PICK r \in workload : Become(c, Begin(Fresh(r), 1))
  BY DEF Call
<1>2. /\ nextId \in Nat /\ nextId >= 1 /\ position \in Nat
      /\ calls' \in 0 .. MaxCalls
      /\ UNCHANGED <<workload, rows, messages, nextId, position>>
  BY PgStoreAssumption DEF TInv, Shape, Call
<1>3. IsCall(Fresh(r))
  BY FreshIsCall
<1>4. LET t == Begin(Fresh(r), 1) IN
      InRange(t, nextId, position) /\ t.inserted = {} /\ t.deleted = {}
  BY <1>2, <1>3, BeginInRange, PgStoreAssumption
<1> QED BY <1>1, <1>2, <1>4, QuietStep

\* A transaction goes to a step that asks for nothing more than the one it is at.
LEMMA GoKeeps ==
  ASSUME TInv, NEW c \in Clients, NEW pc \in Steps \ {"insert", "update"}, Go(c, pc), Reads,
         pc \in Early => tx[c].pc \in Early, pc # "version"
  PROVE  TInv'
<1> DEFINE t == [tx[c] EXCEPT !.pc = pc]
<1>1. tx[c] \in TxSet /\ InRange(tx[c], nextId, position)
  BY DEF TInv, Shape, Ranges
<1>2. t \in TxSet
  BY <1>1 DEF TxSet
<1>3. /\ t.pc = pc /\ t.request = tx[c].request /\ t.tries = tx[c].tries /\ t.id = tx[c].id
      /\ t.expected = tx[c].expected /\ t.ids = tx[c].ids /\ t.writes = tx[c].writes
      /\ t.inserted = tx[c].inserted /\ t.deleted = tx[c].deleted /\ t.current = tx[c].current
  BY <1>1 DEF TxSet
<1>4. Become(c, t)
  BY DEF Go
<1> HIDE DEF t
<1>5. InRange(t, nextId, position)
  BY <1>1, <1>2, <1>3 DEF InRange
<1> QED BY <1>3, <1>4, <1>5, ReadStep

\* ReadMetadata keeps the shape and the keys.
LEMMA ReadMetadataKeeps ==
  ASSUME TInv, NEW c \in Clients, ReadMetadata(c)
  PROVE  TInv'
<1>1. Shape /\ Ranges /\ tx[c] \in TxSet /\ InRange(tx[c], nextId, position)
  BY DEF TInv, Shape, Ranges
<1>2. PICK n \in Nat : Become(c, [tx[c] EXCEPT !.pc = "create", !.maxCount = n])
  <2>1. \A m \in Visible(c) : m.maxCount \in Nat
    BY <1>1, Sees DEF MessageSet
  <2> QED BY <2>1 DEF ReadMetadata
<1> DEFINE t == [tx[c] EXCEPT !.pc = "create", !.maxCount = n]
<1>3. t \in TxSet
  BY <1>1 DEF TxSet, Steps
<1>4. /\ t.pc = "create" /\ t.request = tx[c].request /\ t.tries = tx[c].tries /\ t.id = tx[c].id
      /\ t.expected = tx[c].expected /\ t.ids = tx[c].ids /\ t.writes = tx[c].writes
      /\ t.inserted = tx[c].inserted /\ t.deleted = tx[c].deleted
  BY <1>1 DEF TxSet
<1>5. Become(c, t) /\ tx[c].pc = "metadata" /\ Reads
  BY <1>2 DEF ReadMetadata
<1> HIDE DEF t
<1>6. InRange(t, nextId, position)
  BY <1>1, <1>3, <1>4, <1>5 DEF InRange, Early
<1> QED BY <1>4, <1>5, <1>6, ReadStep

\* CreateStream keeps the shape and the keys: the new row has an id of its own.
LEMMA CreateStreamKeeps ==
  ASSUME TInv, NEW c \in Clients, CreateStream(c)
  PROVE  TInv'
<1>1. /\ Shape /\ Ranges /\ tx[c] \in TxSet /\ InRange(tx[c], nextId, position)
      /\ nextId \in Nat /\ nextId >= 1 /\ position \in Nat /\ calls \in 0 .. MaxCalls
  BY DEF TInv, Shape, Ranges
<1>2. CASE Go(c, "read") /\ UNCHANGED nextId
  <2>1. tx[c].pc = "create" /\ Reads
    BY <1>2 DEF CreateStream, Reads
  <2> QED BY <1>2, <2>1, GoKeeps DEF Early, Steps
<1>3. CASE ~ (Go(c, "read") /\ UNCHANGED nextId)
  <2> DEFINE s == tx[c].target
             row == [id |-> nextId, version |-> -1, maxCount |-> tx[c].maxCount]
             w == Wrote(tx[c], s, row)
             t == [tx[c] EXCEPT !.pc = "read", !.writes = w]
  <2>1. s \in AllStreams /\ row \in RowSet /\ IsRow(row, nextId + 1)
    BY <1>1 DEF TxSet, RowSet, IsRow
  <2>2. Become(c, t) /\ nextId' = nextId + 1 /\ tx[c].pc = "create"
        /\ UNCHANGED <<workload, rows, messages, position, calls>>
    BY <1>3 DEF CreateStream
  <2> HIDE DEF row, s
  <2>3. /\ w \in WriteSet /\ DOMAIN w = DOMAIN tx[c].writes \cup {s} /\ w[s] = row
        /\ \A u \in DOMAIN tx[c].writes \ {s} : w[u] = tx[c].writes[u]
    BY <1>1, <2>1, WroteIsWrites
  <2> HIDE DEF w
  <2>4. t \in TxSet
    BY <1>1, <2>3 DEF TxSet, Steps
  <2>5. /\ t.pc = "read" /\ t.request = tx[c].request /\ t.tries = tx[c].tries /\ t.id = tx[c].id
        /\ t.expected = tx[c].expected /\ t.ids = tx[c].ids /\ t.writes = w
        /\ t.inserted = tx[c].inserted /\ t.deleted = tx[c].deleted
    BY <1>1 DEF TxSet
  <2> HIDE DEF t
  <2>6. InRange(tx[c], nextId + 1, position)
    BY <1>1, RangeGrows
  <2>7. \A u \in DOMAIN w : IsRow(w[u], nextId + 1)
    BY <2>1, <2>3, <2>6 DEF InRange
  <2>8. InRange(t, nextId + 1, position)
    BY <2>2, <2>4, <2>5, <2>6, <2>7 DEF InRange, Early
  <2> QED BY <1>1, <2>2, <2>5, <2>8, QuietStep
<1> QED BY <1>2, <1>3

\* ReadStream keeps the shape and the keys.
LEMMA ReadStreamKeeps ==
  ASSUME TInv, NEW c \in Clients, ReadStream(c)
  PROVE  TInv'
<1> DEFINE row == Row(c, tx[c].target)
           found == {m \in MessagesOf(c, row.id) : tx[c].ids # << >> /\ m.messageId = tx[c].ids[1]}
           current == IF tx[c].expected # ExpectedVersionAny THEN tx[c].expected
                      ELSE IF found = {} THEN row.version
                      ELSE (CHOOSE m \in found : TRUE).streamVersion - 1
           v == IF tx[c].ids = << >> THEN tx[c].expected ELSE current
           pc == IF tx[c].expected >= 0 THEN "version"
                 ELSE IF tx[c].ids = << >> THEN "commit" ELSE "insert"
           t == [tx[c] EXCEPT !.id = row.id, !.current = v, !.maxCount = 0, !.pc = pc]
<1>1. Shape /\ Ranges /\ tx[c] \in TxSet /\ InRange(tx[c], nextId, position)
  BY DEF TInv, Shape, Ranges
<1>2. row \in RowSet /\ IsRow(row, nextId)
  BY <1>1, Sees DEF TxSet
<1>3. found # {} => (CHOOSE m \in found : TRUE) \in found
  OBVIOUS
<1>4. \A m \in found : m.streamVersion \in Nat
  BY <1>1, Sees DEF MessagesOf, MessageSet
<1>5. tx[c].expected \in Int /\ tx[c].expected >= ExpectedVersionAny
  BY <1>1 DEF InRange, TxSet
<1>6. current \in Int /\ current >= -1
  <2>1. CASE tx[c].expected # ExpectedVersionAny
    BY <1>5, <2>1 DEF ExpectedVersionAny
  <2>2. CASE tx[c].expected = ExpectedVersionAny /\ found = {}
    BY <1>2, <2>2 DEF RowSet, IsRow
  <2>3. CASE tx[c].expected = ExpectedVersionAny /\ found # {}
    BY <1>3, <1>4, <2>3
  <2> QED BY <2>1, <2>2, <2>3
<1>7. Become(c, t) /\ tx[c].pc = "read" /\ Reads
  BY DEF ReadStream
<1>8. row.id \in Nat /\ row.id < nextId
  BY <1>2 DEF RowSet, IsRow
<1> HIDE DEF row, found, current
<1>9. v \in Int /\ (tx[c].ids # << >> => v >= -1)
  BY <1>5, <1>6
<1>10. pc \in {"version", "commit", "insert"} /\ (pc = "insert" => tx[c].ids # << >>)
  OBVIOUS
<1> HIDE DEF v, pc
<1>11. t \in TxSet
  BY <1>1, <1>8, <1>9, <1>10 DEF TxSet, Steps
<1>12. /\ t.pc = pc /\ t.request = tx[c].request /\ t.tries = tx[c].tries /\ t.id = row.id
       /\ t.expected = tx[c].expected /\ t.ids = tx[c].ids /\ t.writes = tx[c].writes
       /\ t.inserted = tx[c].inserted /\ t.deleted = tx[c].deleted /\ t.current = v
  BY <1>1 DEF TxSet
<1> HIDE DEF t
<1>13. InRange(t, nextId, position)
  BY <1>1, <1>7, <1>8, <1>9, <1>10, <1>11, <1>12 DEF InRange, Early
<1> QED BY <1>7, <1>12, <1>13, ReadStep

\* CheckVersion keeps the shape and the keys.
LEMMA CheckVersionKeeps ==
  ASSUME TInv, NEW c \in Clients, CheckVersion(c)
  PROVE  TInv'
<1> DEFINE t == [tx[c] EXCEPT !.pc = "insert"]
<1>1. /\ tx[c] \in TxSet /\ InRange(tx[c], nextId, position) /\ position \in Nat /\ calls \in 0 .. MaxCalls
  BY DEF TInv, Shape, Ranges
<1>2. Reads /\ tx[c].pc = "version"
  BY DEF CheckVersion
<1>3. CASE WrongExpectedVersion(c)
  BY <1>1, <1>2, <1>3, RollBack DEF Reads
<1>4. CASE Go(c, "commit")
  BY <1>2, <1>4, GoKeeps DEF Steps, Early
<1>5. CASE tx[c].ids # << >> /\ Become(c, t)
  <2>1. t \in TxSet
    BY <1>1 DEF TxSet, Steps
  <2>2. /\ t.pc = "insert" /\ t.request = tx[c].request /\ t.tries = tx[c].tries /\ t.id = tx[c].id
        /\ t.expected = tx[c].expected /\ t.ids = tx[c].ids /\ t.writes = tx[c].writes
        /\ t.inserted = tx[c].inserted /\ t.deleted = tx[c].deleted /\ t.current = tx[c].current
    BY <1>1 DEF TxSet
  <2>3. Become(c, t)
    BY <1>5
  <2> HIDE DEF t
  <2>4. InRange(t, nextId, position)
    BY <1>1, <1>2, <1>5, <2>1, <2>2 DEF InRange, Early
  <2> QED BY <1>2, <2>2, <2>3, <2>4, ReadStep
<1> QED BY <1>3, <1>4, <1>5 DEF CheckVersion, Go

\* The i-th message that an insert is given.
NewMessage(c, i) ==
  [streamId |-> tx[c].target, id |-> tx[c].id, messageId |-> tx[c].ids[i],
   streamVersion |-> tx[c].current + i, position |-> position + i - 1,
   maxCount |-> tx[c].request.maxCount]

\* The messages that an insert is given: no two of them have a key in common, and their
\* positions are new.
LEMMA NewMessagesAre ==
  ASSUME TInv, NEW c \in Clients, tx[c].pc = "insert"
  PROVE  /\ NewMessages(c) = {NewMessage(c, i) : i \in DOMAIN tx[c].ids}
         /\ NewMessages(c) \in SUBSET MessageSet
         /\ IsFiniteSet(NewMessages(c))
         /\ \A m \in NewMessages(c) :
              m.id = tx[c].id /\ m.position >= position /\ m.position < position + Len(tx[c].ids)
         /\ \A m, k \in NewMessages(c) : m # k => Apart(m, k)
<1> DEFINE t == tx[c]
           f == [i \in DOMAIN t.ids |-> NewMessage(c, i)]
<1>1. /\ t \in TxSet /\ InRange(t, nextId, position) /\ position \in Nat
  BY DEF TInv, Shape, Ranges
<1>2. /\ t.ids \in Seq(MessageIds) /\ t.target \in AllStreams /\ t.id \in Nat /\ t.current \in Int
      /\ t.request.maxCount \in Nat
  BY <1>1 DEF TxSet, RequestSet
<1>3. t.current >= -1 /\ Injective(t.ids)
  BY <1>1 DEF InRange
<1>4. NewMessages(c) = {NewMessage(c, i) : i \in DOMAIN t.ids}
  BY DEF NewMessages, NewMessage
<1>5. DOMAIN t.ids = 1 .. Len(t.ids) /\ Len(t.ids) \in Nat /\ \A i \in DOMAIN t.ids : t.ids[i] \in MessageIds
  BY <1>2
<1>6. \A i \in DOMAIN t.ids : i \in Int /\ i >= 1 /\ i <= Len(t.ids)
  BY <1>5
<1>7. ASSUME NEW i \in DOMAIN t.ids
      PROVE  /\ NewMessage(c, i) \in MessageSet
             /\ NewMessage(c, i).id = t.id
             /\ NewMessage(c, i).messageId = t.ids[i]
             /\ NewMessage(c, i).streamVersion = t.current + i
             /\ NewMessage(c, i).position = position + i - 1
  <2>1. t.current + i \in Nat /\ position + i - 1 \in Nat
    BY <1>1, <1>2, <1>3, <1>6
  <2>2. t.ids[i] \in MessageIds
    BY <1>5
  <2> HIDE DEF t
  <2>3. NewMessage(c, i) = [streamId |-> t.target, id |-> t.id, messageId |-> t.ids[i],
          streamVersion |-> t.current + i, position |-> position + i - 1, maxCount |-> t.request.maxCount]
    BY DEF t, NewMessage
  <2> QED BY <1>2, <2>1, <2>2, <2>3 DEF MessageSet
<1> HIDE DEF t
<1>8. IsFiniteSet(NewMessages(c))
  <2>1. IsFiniteSet(DOMAIN t.ids)
    BY <1>5, FS_Interval
  <2>2. f \in Surjection(DOMAIN t.ids, NewMessages(c))
    BY <1>4 DEF Surjection
  <2> QED BY <2>1, <2>2, FS_Surjection
<1>9. \A m \in NewMessages(c) : m.id = t.id /\ m.position >= position /\ m.position < position + Len(t.ids)
  <2> TAKE m \in NewMessages(c)
  <2>1. PICK i \in DOMAIN t.ids : m = NewMessage(c, i)
    BY <1>4
  <2>2. i \in Int /\ i >= 1 /\ i <= Len(t.ids) /\ m.position = position + i - 1 /\ m.id = t.id
    BY <1>6, <1>7, <2>1
  <2> QED BY <1>1, <1>5, <2>2
<1>10. \A m, k \in NewMessages(c) : m # k => Apart(m, k)
  <2> SUFFICES ASSUME NEW m \in NewMessages(c), NEW k \in NewMessages(c), m # k
               PROVE  Apart(m, k)
    OBVIOUS
  <2>1. PICK i \in DOMAIN t.ids : m = NewMessage(c, i)
    BY <1>4
  <2>2. PICK j \in DOMAIN t.ids : k = NewMessage(c, j)
    BY <1>4
  <2>3. i # j
    BY <2>1, <2>2
  <2>4. t.ids[i] # t.ids[j]
    BY <1>3, <2>3 DEF Injective
  <2>5. t.current + i # t.current + j /\ position + i - 1 # position + j - 1
    BY <1>1, <1>2, <1>6, <2>3
  <2> QED BY <1>7, <2>1, <2>2, <2>4, <2>5 DEF Apart, Conflict
<1>11. NewMessages(c) \in SUBSET MessageSet
  BY <1>4, <1>7
<1> QED BY <1>4, <1>8, <1>9, <1>10, <1>11 DEF t

\* What an insert leaves is: a rollback, or a transaction that has inserted the messages that
\* are in nobody's way.
NewOnes(c) == {m \in NewMessages(c) : \A k \in Visible(c) : ~ Conflict(m, k)}
AfterInsert(c) ==
  [tx[c] EXCEPT !.inserted = @ \cup NewOnes(c), !.success = Cardinality(NewOnes(c)),
                !.pc = IF Cardinality(NewOnes(c)) = Len(tx[c].ids) THEN "latest" ELSE "enforce"]

\* What InsertMessages does, case by case.
LEMMA InsertSteps ==
  ASSUME NEW c \in Clients, InsertMessages(c)
  PROVE  /\ tx[c].pc = "insert"
         /\ \A m \in NewMessages(c), k \in Touched(c) : ~ Conflict(m, k)
         /\ \A d \in Clients \ {c} :
              tx[c].target \in DOMAIN tx[d].writes => tx[d].writes[tx[c].target] # NoRow
         /\ position' = position + Len(tx[c].ids)
         /\ UNCHANGED <<workload, rows, messages, nextId, calls, acknowledged, lost>>
         /\ \/ (tx[c].id = 0 \/ (NewOnes(c) # {} /\ Row(c, tx[c].target).id # tx[c].id)) /\ Reject(c)
            \/ /\ tx[c].id # 0 /\ (NewOnes(c) # {} => Row(c, tx[c].target).id = tx[c].id)
               /\ Become(c, AfterInsert(c))
BY DEF InsertMessages, NewOnes, AfterInsert

\* The transaction is in range once it has inserted.
LEMMA AfterInsertIs ==
  ASSUME TInv, NEW c \in Clients, tx[c].pc = "insert"
  PROVE  LET t == AfterInsert(c) IN
         /\ t \in TxSet
         /\ t.pc \in {"latest", "enforce"} /\ (t.pc = "latest" <=> Cardinality(NewOnes(c)) = Len(tx[c].ids))
         /\ t.request = tx[c].request /\ t.tries = tx[c].tries /\ t.target = tx[c].target
         /\ t.expected = tx[c].expected /\ t.ids = tx[c].ids /\ t.id = tx[c].id
         /\ t.current = tx[c].current /\ t.maxCount = tx[c].maxCount /\ t.writes = tx[c].writes
         /\ t.deleted = tx[c].deleted
         /\ t.inserted = NewOnes(c) /\ t.success = Cardinality(NewOnes(c))
         /\ IsFiniteSet(NewOnes(c)) /\ NewOnes(c) \in SUBSET MessageSet
<1>1. /\ tx[c] \in TxSet /\ InRange(tx[c], nextId, position)
  BY DEF TInv, Shape, Ranges
<1>2. tx[c].inserted = {}
  BY <1>1 DEF InRange, Early
<1>3. IsFiniteSet(NewOnes(c)) /\ NewOnes(c) \in SUBSET MessageSet
  <2>1. NewOnes(c) \subseteq NewMessages(c)
    BY DEF NewOnes
  <2> QED BY <2>1, NewMessagesAre, FS_Subset
<1>4. Cardinality(NewOnes(c)) \in Nat
  BY <1>3, FS_CardinalityType
<1> DEFINE n == Cardinality(NewOnes(c))
           pc == IF n = Len(tx[c].ids) THEN "latest" ELSE "enforce"
<1>5. pc \in {"latest", "enforce"} /\ (pc = "latest" <=> n = Len(tx[c].ids))
  OBVIOUS
<1>6. AfterInsert(c) = [tx[c] EXCEPT !.inserted = NewOnes(c), !.success = n, !.pc = pc]
  BY <1>1, <1>2 DEF AfterInsert, TxSet
<1> HIDE DEF n, pc
<1>7. AfterInsert(c) \in TxSet
  BY <1>1, <1>3, <1>4, <1>5, <1>6 DEF TxSet, Steps, n
<1> QED BY <1>1, <1>3, <1>5, <1>6, <1>7 DEF TxSet, n

\* InsertMessages keeps the shape and the keys: what it inserts conflicts with nothing it sees,
\* and with nothing of the transactions it waits for.
LEMMA InsertMessagesKeeps ==
  ASSUME TInv, NEW c \in Clients, InsertMessages(c)
  PROVE  TInv'
<1> DEFINE t == AfterInsert(c)
<1>1. /\ Shape /\ Ranges /\ Keys /\ tx[c] \in TxSet /\ InRange(tx[c], nextId, position)
      /\ nextId \in Nat /\ position \in Nat /\ calls \in 0 .. MaxCalls
  BY DEF TInv, Shape, Ranges
<1>2. /\ tx[c].pc = "insert" /\ position' = position + Len(tx[c].ids)
      /\ UNCHANGED <<workload, rows, messages, nextId, calls>>
      /\ \A m \in NewMessages(c), k \in Touched(c) : ~ Conflict(m, k)
      /\ Reject(c) \/ (tx[c].id # 0 /\ Become(c, t))
  BY InsertSteps
<1>3. Len(tx[c].ids) \in Nat
  BY <1>1 DEF TxSet
<1>4. position' \in Nat /\ position <= position'
  BY <1>1, <1>2, <1>3
<1>5. CASE Reject(c)
  BY <1>1, <1>2, <1>4, <1>5, RollBack
<1>6. CASE tx[c].id # 0 /\ Become(c, t)
  <2>1. /\ t \in TxSet /\ t.pc \in {"latest", "enforce"}
        /\ t.request = tx[c].request /\ t.tries = tx[c].tries
        /\ t.expected = tx[c].expected /\ t.ids = tx[c].ids /\ t.id = tx[c].id
        /\ t.writes = tx[c].writes /\ t.deleted = tx[c].deleted
        /\ t.inserted = NewOnes(c) /\ IsFiniteSet(NewOnes(c)) /\ NewOnes(c) \in SUBSET MessageSet
    BY <1>2, AfterInsertIs
  <2>2. tx[c].id >= 1 /\ tx[c].id < nextId
    BY <1>1, <1>6 DEF TxSet, InRange
  <2>3. /\ \A m \in NewMessages(c) : m.id = tx[c].id /\ m.position >= position /\ m.position < position'
        /\ \A m, k \in NewMessages(c) : m # k => Apart(m, k)
    BY <1>2, NewMessagesAre
  <2>4. NewOnes(c) \subseteq NewMessages(c) /\ \A m \in NewOnes(c), k \in Visible(c) : ~ Conflict(m, k)
    BY DEF NewOnes
  <2> HIDE DEF t
  <2>5. InRange(tx[c], nextId, position')
    BY <1>1, <1>4, RangeGrows
  <2>6. \A m \in t.inserted : IsMessage(m, nextId, position')
    BY <2>1, <2>2, <2>3, <2>4 DEF IsMessage
  <2>7. InRange(t, nextId, position')
    BY <2>1, <2>5, <2>6 DEF InRange, Early
  <2>8. Fits(c, t)
    <3>1. \A m, k \in t.inserted : m # k => Apart(m, k)
      BY <2>1, <2>3, <2>4
    <3>2. \A m \in t.inserted, k \in messages :
            m.position # k.position /\ (k \notin t.deleted => ~ Conflict(m, k))
      <4> TAKE m \in t.inserted, k \in messages
      <4>1. k.position \in Nat /\ k.position < position
        BY <1>1 DEF Shape, Ranges, IsMessage, MessageSet
      <4>2. m.position \in Nat /\ m.position >= position
        BY <2>1, <2>3, <2>4 DEF MessageSet
      <4>3. k \notin t.deleted => k \in Visible(c)
        BY <2>1 DEF Visible
      <4> QED BY <1>1, <2>1, <2>4, <4>1, <4>2, <4>3
    <3>3. ASSUME NEW d \in Clients \ {c}
          PROVE  /\ \A m \in t.inserted, k \in tx[d].inserted : Apart(m, k)
                 /\ \A m \in t.inserted, k \in tx[d].deleted : ~ Conflict(m, k)
                 /\ \A m \in tx[d].inserted, k \in t.deleted : ~ Conflict(m, k)
      <4>1. tx[d].inserted \subseteq Touched(c) /\ tx[d].deleted \subseteq Touched(c)
        BY DEF Touched
      <4>2. \A m \in t.inserted, k \in tx[d].inserted : m.position # k.position
        <5> TAKE m \in t.inserted, k \in tx[d].inserted
        <5>1. tx[d] \in TxSet /\ InRange(tx[d], nextId, position)
          BY <1>1 DEF Shape, Ranges
        <5>2. k.position \in Nat /\ k.position < position
          BY <5>1 DEF InRange, TxSet, IsMessage, MessageSet
        <5>3. m.position \in Nat /\ m.position >= position
          BY <2>1, <2>3, <2>4 DEF MessageSet
        <5> QED BY <1>1, <5>2, <5>3
      <4>3. \A m \in tx[d].inserted, k \in t.deleted : ~ Conflict(m, k)
        BY <1>1, <2>1 DEF Keys, Fits
      <4> QED BY <1>2, <2>1, <2>4, <4>1, <4>2, <4>3 DEF Apart
    <3> QED BY <3>1, <3>2, <3>3 DEF Fits
  <2>9. nextId' \in Nat /\ nextId <= nextId' /\ calls' \in 0 .. MaxCalls
    BY <1>1, <1>2
  <2>10. InRange(t, nextId', position')
    BY <1>2, <2>7
  <2> QED BY <1>2, <1>4, <1>6, <2>8, <2>9, <2>10, OneStep
<1> QED BY <1>2, <1>5, <1>6

\* EnforceIdempotentAppend keeps the shape and the keys.
LEMMA EnforceKeeps ==
  ASSUME TInv, NEW c \in Clients, EnforceIdempotentAppend(c)
  PROVE  TInv'
<1>1. /\ position \in Nat /\ calls \in 0 .. MaxCalls /\ Reads /\ tx[c].pc = "enforce"
  BY DEF TInv, Shape, EnforceIdempotentAppend
<1>2. CASE WrongExpectedVersion(c)
  BY <1>1, <1>2, RollBack DEF Reads
<1>3. CASE Go(c, "latest") \/ Go(c, "replayed")
  BY <1>1, <1>3, GoKeeps DEF Steps, Early
<1> QED BY <1>2, <1>3 DEF EnforceIdempotentAppend

\* Replayed keeps the shape and the keys.
LEMMA ReplayedKeeps ==
  ASSUME TInv, NEW c \in Clients, Replayed(c)
  PROVE  TInv'
<1> DEFINE row == IF Row(c, tx[c].target).id = tx[c].id THEN Row(c, tx[c].target) ELSE NoRow
           pc == IF tx[c].request.op = "metadata" THEN "policy" ELSE "commit"
           t == [tx[c] EXCEPT !.pc = pc, !.current = row.version, !.maxCount = row.maxCount]
<1>1. Shape /\ Ranges /\ tx[c] \in TxSet /\ InRange(tx[c], nextId, position)
  BY DEF TInv, Shape, Ranges
<1>2. row \in RowSet
  BY <1>1, Sees DEF TxSet, NoRow, RowSet
<1>3. pc \in {"policy", "commit"}
  OBVIOUS
<1>4. Become(c, t) /\ tx[c].pc = "replayed" /\ Reads
  BY DEF Replayed
<1> HIDE DEF row, pc
<1>5. t \in TxSet
  BY <1>1, <1>2, <1>3 DEF TxSet, Steps, RowSet
<1>6. /\ t.pc = pc /\ t.request = tx[c].request /\ t.tries = tx[c].tries /\ t.id = tx[c].id
      /\ t.expected = tx[c].expected /\ t.ids = tx[c].ids /\ t.writes = tx[c].writes
      /\ t.inserted = tx[c].inserted /\ t.deleted = tx[c].deleted
  BY <1>1 DEF TxSet
<1> HIDE DEF t
<1>7. InRange(t, nextId, position)
  BY <1>1, <1>3, <1>5, <1>6 DEF InRange, Early
<1> QED BY <1>4, <1>6, <1>7, ReadStep

\* ReadLatest keeps the shape and the keys.
LEMMA ReadLatestKeeps ==
  ASSUME TInv, NEW c \in Clients, ReadLatest(c)
  PROVE  TInv'
<1>1. /\ Shape /\ Ranges /\ tx[c] \in TxSet /\ InRange(tx[c], nextId, position)
      /\ position \in Nat /\ calls \in 0 .. MaxCalls /\ Reads /\ tx[c].pc = "latest"
  BY DEF TInv, Shape, Ranges, ReadLatest
<1>2. CASE Reject(c)
  BY <1>1, <1>2, RollBack DEF Reads
<1>3. CASE ~ Reject(c)
  <2>1. PICK latest \in MessagesOf(c, tx[c].id) :
          Become(c, [tx[c] EXCEPT !.pc = "update", !.current = latest.streamVersion])
    BY <1>3 DEF ReadLatest
  <2> DEFINE v == latest.streamVersion
             t == [tx[c] EXCEPT !.pc = "update", !.current = v]
  <2>2. v \in Int /\ v >= -1
    BY <1>1, Sees DEF MessagesOf, MessageSet
  <2>3. Become(c, t)
    BY <2>1
  <2> HIDE DEF v
  <2>4. t \in TxSet
    BY <1>1, <2>2 DEF TxSet, Steps
  <2>5. /\ t.pc = "update" /\ t.request = tx[c].request /\ t.tries = tx[c].tries /\ t.id = tx[c].id
        /\ t.expected = tx[c].expected /\ t.ids = tx[c].ids /\ t.writes = tx[c].writes
        /\ t.inserted = tx[c].inserted /\ t.deleted = tx[c].deleted /\ t.current = v
    BY <1>1 DEF TxSet
  <2> HIDE DEF t
  <2>6. InRange(t, nextId, position)
    BY <1>1, <2>2, <2>4, <2>5 DEF InRange, Early
  <2> QED BY <1>1, <2>3, <2>5, <2>6, ReadStep
<1> QED BY <1>2, <1>3

\* A transaction that is past its insert writes a row of the stream table.
LEMMA WriteKeeps ==
  ASSUME TInv, NEW c \in Clients, NEW s \in AllStreams, NEW row \in RowSet, IsRow(row, nextId),
         NEW pc \in {"policy", "commit"}, NEW n \in Nat,
         Become(c, [tx[c] EXCEPT !.pc = pc, !.maxCount = n, !.writes = Wrote(tx[c], s, row)]), Reads
  PROVE  TInv'
<1> DEFINE w == Wrote(tx[c], s, row)
           t == [tx[c] EXCEPT !.pc = pc, !.maxCount = n, !.writes = w]
<1>1. tx[c] \in TxSet /\ InRange(tx[c], nextId, position)
  BY DEF TInv, Shape, Ranges
<1>2. /\ w \in WriteSet /\ DOMAIN w = DOMAIN tx[c].writes \cup {s} /\ w[s] = row
      /\ \A u \in DOMAIN tx[c].writes \ {s} : w[u] = tx[c].writes[u]
  BY <1>1, WroteIsWrites
<1>3. Become(c, t)
  OBVIOUS
<1> HIDE DEF w
<1>4. t \in TxSet
  BY <1>1, <1>2 DEF TxSet, Steps
<1>5. /\ t.pc = pc /\ t.request = tx[c].request /\ t.tries = tx[c].tries /\ t.id = tx[c].id
      /\ t.expected = tx[c].expected /\ t.ids = tx[c].ids /\ t.writes = w
      /\ t.inserted = tx[c].inserted /\ t.deleted = tx[c].deleted
  BY <1>1 DEF TxSet
<1> HIDE DEF t
<1>6. \A u \in DOMAIN w : IsRow(w[u], nextId)
  BY <1>1, <1>2 DEF InRange
<1>7. InRange(t, nextId, position)
  BY <1>1, <1>4, <1>5, <1>6 DEF InRange, Early
<1> QED BY <1>3, <1>5, <1>7, ReadStep

\* UpdateStream keeps the shape and the keys.
LEMMA UpdateStreamKeeps ==
  ASSUME TInv, NEW c \in Clients, UpdateStream(c)
  PROVE  TInv'
<1> DEFINE row == Row(c, tx[c].target)
           pc == IF tx[c].request.op = "metadata" THEN "policy" ELSE "commit"
           next == [row EXCEPT !.version = tx[c].current]
<1>1. /\ Shape /\ Ranges /\ tx[c] \in TxSet /\ InRange(tx[c], nextId, position)
      /\ tx[c].pc = "update" /\ Reads
  BY DEF TInv, Shape, Ranges, UpdateStream
<1>2. tx[c].target \in AllStreams /\ row \in RowSet /\ IsRow(row, nextId)
  BY <1>1, Sees DEF TxSet
<1>3. tx[c].current \in Int /\ tx[c].current >= -1
  BY <1>1 DEF InRange, TxSet
<1>4. pc \in {"policy", "commit"}
  OBVIOUS
<1>5. \/ Go(c, pc)
      \/ Become(c, [[tx[c] EXCEPT !.pc = pc] EXCEPT !.maxCount = row.maxCount,
                                     !.writes = Wrote(tx[c], tx[c].target, next)])
  BY DEF UpdateStream, Go
<1> HIDE DEF row, pc
<1>6. next \in RowSet /\ IsRow(next, nextId)
  BY <1>2, <1>3 DEF RowSet, IsRow
<1> HIDE DEF next
<1>7. CASE Go(c, pc)
  BY <1>1, <1>4, <1>7, GoKeeps DEF Steps, Early
<1>8. CASE ~ Go(c, pc)
  <2>1. Become(c, [tx[c] EXCEPT !.pc = pc, !.maxCount = row.maxCount,
                                !.writes = Wrote(tx[c], tx[c].target, next)])
    BY <1>5, <1>8
  <2>2. row.maxCount \in Nat
    BY <1>2 DEF RowSet
  <2> QED BY <1>1, <1>2, <1>4, <1>6, <2>1, <2>2, WriteKeeps
<1> QED BY <1>7, <1>8

\* UpdatePolicy keeps the shape and the keys.
LEMMA UpdatePolicyKeeps ==
  ASSUME TInv, NEW c \in Clients, UpdatePolicy(c)
  PROVE  TInv'
<1> DEFINE s == tx[c].request.stream
           n == tx[c].request.maxCount
           next == [Row(c, s) EXCEPT !.maxCount = n]
<1>1. /\ Shape /\ Ranges /\ tx[c] \in TxSet /\ InRange(tx[c], nextId, position)
      /\ tx[c].pc = "policy" /\ Reads
  BY DEF TInv, Shape, Ranges, UpdatePolicy
<1>2. s \in AllStreams /\ n \in Nat
  BY <1>1, StreamKinds DEF TxSet, RequestSet
<1>3. Row(c, s) \in RowSet /\ IsRow(Row(c, s), nextId)
  BY <1>1, <1>2, Sees
<1>4. next \in RowSet /\ IsRow(next, nextId)
  BY <1>2, <1>3 DEF RowSet, IsRow
<1>5. \/ Become(c, [tx[c] EXCEPT !.pc = "commit", !.maxCount = n])
      \/ Become(c, [[tx[c] EXCEPT !.pc = "commit", !.maxCount = n] EXCEPT !.writes = Wrote(tx[c], s, next)])
  BY DEF UpdatePolicy
<1> HIDE DEF s, n, next
<1>6. CASE Become(c, [tx[c] EXCEPT !.pc = "commit", !.maxCount = n])
  <2> DEFINE t == [tx[c] EXCEPT !.pc = "commit", !.maxCount = n]
  <2>1. t \in TxSet
    BY <1>1, <1>2 DEF TxSet, Steps
  <2>2. /\ t.pc = "commit" /\ t.request = tx[c].request /\ t.tries = tx[c].tries /\ t.id = tx[c].id
        /\ t.expected = tx[c].expected /\ t.ids = tx[c].ids /\ t.writes = tx[c].writes
        /\ t.inserted = tx[c].inserted /\ t.deleted = tx[c].deleted
    BY <1>1 DEF TxSet
  <2>3. Become(c, t)
    BY <1>6
  <2> HIDE DEF t
  <2>4. InRange(t, nextId, position)
    BY <1>1, <2>1, <2>2 DEF InRange, Early
  <2> QED BY <1>1, <2>2, <2>3, <2>4, ReadStep
<1>7. CASE ~ Become(c, [tx[c] EXCEPT !.pc = "commit", !.maxCount = n])
  <2>1. Become(c, [tx[c] EXCEPT !.pc = "commit", !.maxCount = n, !.writes = Wrote(tx[c], s, next)])
    BY <1>5, <1>7
  <2> QED BY <1>1, <1>2, <1>4, <2>1, WriteKeeps
<1> QED BY <1>6, <1>7

\* A transaction that does not append takes the id of its stream.
LEMMA TakesId ==
  ASSUME TInv, NEW c \in Clients, NEW pc \in Steps \ {"version", "insert", "update"},
         NEW id \in Nat, id < nextId, pc \in Early => tx[c].pc \in Early,
         Become(c, [tx[c] EXCEPT !.id = id, !.pc = pc]), Reads
  PROVE  TInv'
<1> DEFINE t == [tx[c] EXCEPT !.id = id, !.pc = pc]
<1>1. tx[c] \in TxSet /\ InRange(tx[c], nextId, position)
  BY DEF TInv, Shape, Ranges
<1>2. t \in TxSet
  BY <1>1 DEF TxSet
<1>3. /\ t.pc = pc /\ t.request = tx[c].request /\ t.tries = tx[c].tries /\ t.id = id
      /\ t.expected = tx[c].expected /\ t.ids = tx[c].ids /\ t.writes = tx[c].writes
      /\ t.inserted = tx[c].inserted /\ t.deleted = tx[c].deleted
  BY <1>1 DEF TxSet
<1>4. Become(c, t)
  OBVIOUS
<1> HIDE DEF t
<1>5. InRange(t, nextId, position)
  BY <1>1, <1>2, <1>3 DEF InRange
<1> QED BY <1>3, <1>4, <1>5, ReadStep

\* LocateStream keeps the shape and the keys.
LEMMA LocateStreamKeeps ==
  ASSUME TInv, NEW c \in Clients, LocateStream(c)
  PROVE  TInv'
<1> DEFINE id == Row(c, tx[c].target).id
           pc == IF tx[c].request.op = "scavenge" THEN "select" ELSE "delete"
<1>1. Shape /\ Ranges /\ tx[c].target \in AllStreams
  BY DEF TInv, Shape, TxSet
<1>2. id \in Nat /\ id < nextId
  BY <1>1, Sees DEF RowSet, IsRow
<1>3. pc \in Steps \ {"version", "insert", "update"}
  BY DEF Steps
<1>4. Become(c, [tx[c] EXCEPT !.id = id, !.pc = pc]) /\ Reads /\ tx[c].pc = "locate"
  BY DEF LocateStream
<1> HIDE DEF id, pc
<1> QED BY <1>2, <1>3, <1>4, TakesId DEF Early

\* A transaction deletes messages that nobody else has touched.
LEMMA DeletesUntouched ==
  ASSUME TInv, NEW c \in Clients, tx[c].pc \in Early, NEW gone, gone \subseteq Visible(c),
         gone \cap Touched(c) = {}, NEW pc \in {"drop", "commit"},
         Become(c, [tx[c] EXCEPT !.pc = pc, !.deleted = gone]), Reads
  PROVE  TInv'
<1> DEFINE t == [tx[c] EXCEPT !.pc = pc, !.deleted = gone]
<1>1. /\ Shape /\ Ranges /\ Keys /\ tx[c] \in TxSet /\ InRange(tx[c], nextId, position)
      /\ nextId \in Nat /\ position \in Nat /\ calls \in 0 .. MaxCalls
  BY DEF TInv, Shape, Ranges
<1>2. tx[c].inserted = {}
  BY <1>1 DEF InRange
<1>3. gone \in SUBSET MessageSet /\ gone \subseteq messages
  BY <1>1, <1>2, Sees DEF Visible
<1>4. t \in TxSet
  BY <1>1, <1>3 DEF TxSet, Steps
<1>5. /\ t.pc = pc /\ t.request = tx[c].request /\ t.tries = tx[c].tries /\ t.id = tx[c].id
      /\ t.expected = tx[c].expected /\ t.ids = tx[c].ids /\ t.writes = tx[c].writes
      /\ t.inserted = {} /\ t.deleted = gone
  BY <1>1, <1>2 DEF TxSet
<1>6. Become(c, t)
  OBVIOUS
<1> HIDE DEF t
<1>7. InRange(t, nextId, position)
  BY <1>1, <1>2, <1>4, <1>5 DEF InRange
<1>8. Fits(c, t)
  <2> SUFFICES ASSUME NEW d \in Clients \ {c}, NEW m \in tx[d].inserted, NEW k \in gone
               PROVE  ~ Conflict(m, k)
    BY <1>5 DEF Fits
  <2>1. k \in messages /\ k \notin tx[d].deleted
    BY <1>3 DEF Touched
  <2> QED BY <1>1, <2>1 DEF Keys, Fits
<1>9. UNCHANGED <<workload, rows, messages, nextId, position, calls>>
  BY DEF Reads
<1>10. /\ InRange(t, nextId', position') /\ nextId' \in Nat /\ nextId <= nextId'
       /\ position' \in Nat /\ position <= position' /\ calls' \in 0 .. MaxCalls
  BY <1>1, <1>7, <1>9
<1> QED BY <1>6, <1>8, <1>9, <1>10, OneStep

\* DeleteMessages keeps the shape and the keys: it waits for those who insert what it deletes.
LEMMA DeleteMessagesKeeps ==
  ASSUME TInv, NEW c \in Clients, DeleteMessages(c)
  PROVE  TInv'
<1> DEFINE gone == {m \in MessagesOf(c, tx[c].id) : m.messageId \in ToSet(tx[c].ids)}
<1>1. /\ tx[c].pc = "delete" /\ gone \cap Touched(c) = {} /\ Reads
      /\ Become(c, [tx[c] EXCEPT !.pc = "commit", !.deleted = gone])
  BY DEF DeleteMessages
<1>2. gone \subseteq Visible(c)
  BY DEF MessagesOf
<1> HIDE DEF gone
<1> QED BY <1>1, <1>2, DeletesUntouched DEF Early

\* PurgeMessages keeps the shape and the keys, for the same reason.
LEMMA PurgeMessagesKeeps ==
  ASSUME TInv, NEW c \in Clients, PurgeMessages(c)
  PROVE  TInv'
<1> DEFINE gone == MessagesOf(c, tx[c].id)
<1>1. /\ tx[c].pc = "purge" /\ gone \cap Touched(c) = {} /\ Reads
      /\ Become(c, [tx[c] EXCEPT !.pc = "drop", !.deleted = gone])
  BY DEF PurgeMessages
<1>2. gone \subseteq Visible(c)
  BY DEF MessagesOf
<1> HIDE DEF gone
<1> QED BY <1>1, <1>2, DeletesUntouched DEF Early

\* The elements of a finite set in a sequence, each once.
LEMMA SetToSeqIs ==
  ASSUME NEW S, IsFiniteSet(S)
  PROVE  SetToSeq(S) \in Seq(S) /\ Injective(SetToSeq(S))
<1> DEFINE n == Cardinality(S)
<1>1. n \in Nat /\ \E f : f \in Bijection(1 .. n, S)
  BY FS_CardinalityType DEF ExistsBijection
<1>2. \E f \in [1 .. n -> S] : IsInjective(f)
  <2>1. PICK f : f \in Bijection(1 .. n, S)
    BY <1>1
  <2>2. f \in [1 .. n -> S] /\ \A i, j \in 1 .. n : f[i] = f[j] => i = j
    BY <2>1 DEF Bijection, Injection, IsInjective
  <2> QED BY <2>2 DEF IsInjective
<1>3. SetToSeq(S) \in [1 .. n -> S] /\ IsInjective(SetToSeq(S))
  BY <1>2 DEF SetToSeq
<1> QED BY <1>1, <1>3 DEF Injective, IsInjective

\* SelectScavengable keeps the shape and the keys.
LEMMA SelectScavengableKeeps ==
  ASSUME TInv, NEW c \in Clients, SelectScavengable(c)
  PROVE  TInv'
<1> DEFINE S == {m.messageId : m \in Scavengable(c)}
           r == Request("delete", tx[c].request.stream, 0, SetToSeq(S), 0)
           t == IF Scavengable(c) = {} THEN Idle ELSE Begin(r, 1)
<1>1. /\ Shape /\ Ranges /\ tx[c] \in TxSet /\ nextId \in Nat /\ nextId >= 1 /\ position \in Nat
  BY DEF TInv, Shape
<1>2. Scavengable(c) \in SUBSET MessageSet /\ IsFiniteSet(Scavengable(c))
  <2>1. Scavengable(c) \subseteq Visible(c)
    BY DEF Scavengable, MessagesOf
  <2> QED BY <1>1, <2>1, Sees, FS_Subset
<1>3. IsFiniteSet(S) /\ S \subseteq MessageIds
  <2> DEFINE f == [m \in Scavengable(c) |-> m.messageId]
  <2>1. f \in Surjection(Scavengable(c), S)
    BY DEF Surjection
  <2>2. IsFiniteSet(S)
    BY <1>2, <2>1, FS_Surjection
  <2>3. S \subseteq MessageIds
    BY <1>2 DEF MessageSet
  <2> QED BY <2>2, <2>3
<1> HIDE DEF S
<1>4. SetToSeq(S) \in Seq(MessageIds) /\ Injective(SetToSeq(S))
  BY <1>3, SetToSeqIs
<1>5. IsCall(r)
  <2>1. tx[c].request.stream \in Streams \cup {DeletedStream}
    BY <1>1 DEF TxSet, RequestSet
  <2>2. r \in RequestSet
    <3>1. "delete" \in {"append", "metadata", "delete", "delete stream", "scavenge"}
      OBVIOUS
    <3>2. 0 \in Int /\ 0 \in Nat
      OBVIOUS
    <3> QED BY <1>4, <2>1, <3>1, <3>2, RequestIs, Zenon
  <2>3. r.op = "delete" /\ r.expected = 0 /\ r.ids = SetToSeq(S)
    BY DEF Request
  <2> QED BY <1>4, <2>2, <2>3 DEF IsCall, ExpectedVersionAny
<1>6. Become(c, t) /\ Reads
  BY DEF SelectScavengable, S
<1> HIDE DEF r
<1>7. InRange(t, nextId, position) /\ t.inserted = {} /\ t.deleted = {}
  BY <1>1, <1>5, IdleInRange, BeginInRange, PgStoreAssumption
<1> HIDE DEF t
<1> QED BY <1>6, <1>7, ReadStep

\* FindStream keeps the shape and the keys.
LEMMA FindStreamKeeps ==
  ASSUME TInv, NEW c \in Clients, FindStream(c)
  PROVE  TInv'
<1> DEFINE id == Row(c, tx[c].target).id
           pc == IF tx[c].expected >= 0 THEN "compare" ELSE "purge"
<1>1. /\ Shape /\ Ranges /\ tx[c].target \in AllStreams
      /\ position \in Nat /\ calls \in 0 .. MaxCalls
  BY DEF TInv, Shape, TxSet
<1>2. id \in Nat /\ id < nextId
  BY <1>1, Sees DEF RowSet, IsRow
<1>3. pc \in Steps \ {"version", "insert", "update"}
  BY DEF Steps
<1>4. /\ Reads /\ tx[c].pc = "find"
      /\ \/ Go(c, "commit")
         \/ WrongExpectedVersion(c)
         \/ Become(c, [tx[c] EXCEPT !.id = id, !.pc = pc])
  BY DEF FindStream
<1> HIDE DEF id, pc
<1>5. CASE Go(c, "commit")
  BY <1>4, <1>5, GoKeeps DEF Steps, Early
<1>6. CASE WrongExpectedVersion(c)
  BY <1>1, <1>4, <1>6, RollBack DEF Reads
<1>7. CASE Become(c, [tx[c] EXCEPT !.id = id, !.pc = pc])
  BY <1>2, <1>3, <1>4, <1>7, TakesId DEF Early
<1> QED BY <1>4, <1>5, <1>6, <1>7

\* CompareVersion keeps the shape and the keys.
LEMMA CompareVersionKeeps ==
  ASSUME TInv, NEW c \in Clients, CompareVersion(c)
  PROVE  TInv'
<1>1. /\ position \in Nat /\ calls \in 0 .. MaxCalls /\ Reads /\ tx[c].pc = "compare"
      /\ WrongExpectedVersion(c) \/ Go(c, "purge")
  BY DEF TInv, Shape, CompareVersion
<1>2. CASE WrongExpectedVersion(c)
  BY <1>1, <1>2, RollBack DEF Reads
<1>3. CASE Go(c, "purge")
  BY <1>1, <1>3, GoKeeps DEF Steps, Early
<1> QED BY <1>1, <1>2, <1>3

\* DropStream keeps the shape and the keys.
LEMMA DropStreamKeeps ==
  ASSUME TInv, NEW c \in Clients, DropStream(c)
  PROVE  TInv'
<1> DEFINE s == tx[c].target
           pc == AppendStart(ExpectedVersionAny)
           ids == << <<tx[c].request.stream, "deleted", tx[c].request.expected>> >>
           w == Wrote(tx[c], s, NoRow)
           t == [tx[c] EXCEPT !.pc = pc, !.writes = w, !.target = DeletedStream,
                              !.expected = ExpectedVersionAny, !.ids = ids]
<1>1. /\ Shape /\ Ranges /\ tx[c] \in TxSet /\ InRange(tx[c], nextId, position)
      /\ nextId \in Nat /\ nextId >= 1 /\ position \in Nat /\ calls \in 0 .. MaxCalls
  BY DEF TInv, Shape, Ranges
<1>2. /\ Reads /\ tx[c].pc = "drop"
      /\ Go(c, "commit") \/ Reject(c) \/ Become(c, t)
  BY DEF DropStream
<1>3. CASE Go(c, "commit")
  BY <1>2, <1>3, GoKeeps DEF Steps, Early
<1>4. CASE Reject(c)
  BY <1>1, <1>2, <1>4, RollBack DEF Reads
<1>5. CASE Become(c, t)
  <2>1. s \in AllStreams /\ NoRow \in RowSet /\ IsRow(NoRow, nextId) /\ pc = "metadata"
    BY <1>1 DEF TxSet, NoRow, RowSet, IsRow, AppendStart, ExpectedVersionAny
  <2> HIDE DEF s
  <2>2. /\ w \in WriteSet /\ DOMAIN w = DOMAIN tx[c].writes \cup {s} /\ w[s] = NoRow
        /\ \A u \in DOMAIN tx[c].writes \ {s} : w[u] = tx[c].writes[u]
    BY <1>1, <2>1, WroteIsWrites
  <2>3. ids \in Seq(MessageIds) /\ Injective(ids)
    <3>1. tx[c].request.stream \in Streams \cup {DeletedStream} /\ tx[c].request.expected \in Int
      BY <1>1 DEF TxSet, RequestSet
    <3>2. <<tx[c].request.stream, "deleted", tx[c].request.expected>> \in DeletionIds
      BY <3>1 DEF DeletionIds
    <3>3. <<tx[c].request.stream, "deleted", tx[c].request.expected>> \in MessageIds
      BY <3>2 DEF MessageIds
    <3> QED BY <3>3 DEF Injective
  <2> HIDE DEF w, ids, pc
  <2>4. t \in TxSet
    <3>1. DeletedStream \in AllStreams /\ ExpectedVersionAny \in Int /\ "metadata" \in Steps
      BY StreamKinds DEF ExpectedVersionAny, Steps
    <3> QED BY <1>1, <2>1, <2>2, <2>3, <3>1 DEF TxSet
  <2>5. /\ t.pc = "metadata" /\ t.request = tx[c].request /\ t.tries = tx[c].tries /\ t.id = tx[c].id
        /\ t.expected = ExpectedVersionAny /\ t.ids = ids /\ t.writes = w
        /\ t.inserted = tx[c].inserted /\ t.deleted = tx[c].deleted
    BY <1>1, <2>1 DEF TxSet
  <2>6. Become(c, t)
    BY <1>5
  <2> HIDE DEF t
  <2>7. \A u \in DOMAIN w : IsRow(w[u], nextId)
    BY <1>1, <2>1, <2>2 DEF InRange
  <2>8. InRange(t, nextId, position)
    BY <1>1, <1>2, <2>3, <2>4, <2>5, <2>7 DEF InRange, Early, ExpectedVersionAny
  <2> QED BY <1>2, <2>5, <2>6, <2>8, ReadStep
<1> QED BY <1>2, <1>3, <1>4, <1>5

\* The calls go on, or not, once c has committed.
LEMMA FollowedInRange ==
  ASSUME TInv, NEW c \in Clients, NEW t, t \in {Followed(tx[c]), Idle}
  PROVE  InRange(t, nextId, position) /\ t.inserted = {} /\ t.deleted = {}
<1> DEFINE r == Request("scavenge", tx[c].request.stream, 0, << >>, tx[c].maxCount)
<1>1. tx[c] \in TxSet /\ nextId \in Nat /\ nextId >= 1 /\ position \in Nat
  BY DEF TInv, Shape
<1>2. IsCall(r)
  <2>1. tx[c].request.stream \in Streams \cup {DeletedStream} /\ tx[c].maxCount \in Nat
    BY <1>1 DEF TxSet, RequestSet
  <2>2. << >> \in Seq(MessageIds) /\ 0 \in Int
    OBVIOUS
  <2>3. "scavenge" \in {"append", "metadata", "delete", "delete stream", "scavenge"}
    OBVIOUS
  <2>4. r \in RequestSet
    BY <2>1, <2>2, <2>3, RequestIs, Zenon
  <2>5. r.op = "scavenge" /\ r.expected = 0 /\ r.ids = << >>
    BY DEF Request
  <2> QED BY <2>4, <2>5 DEF IsCall, ExpectedVersionAny, Injective
<1> HIDE DEF r
<1>3. t \in {Begin(r, 1), Idle}
  BY DEF Followed, r
<1> QED BY <1>1, <1>2, <1>3, IdleInRange, BeginInRange, PgStoreAssumption

\* What a commit does.
LEMMA CommitSteps ==
  ASSUME NEW c \in Clients, Commit(c)
  PROVE  /\ tx[c].pc = "commit"
         /\ rows' = [s \in AllStreams |-> Row(c, s)] /\ messages' = Visible(c)
         /\ \E t \in {Followed(tx[c]), Idle} : Become(c, t)
         /\ UNCHANGED <<workload, nextId, position, calls>>
         /\ acknowledged' \in {acknowledged, acknowledged \cup {tx[c].request}}
         /\ ~ IsAppend(tx[c].request) => acknowledged' = acknowledged
BY DEF Commit

\* Commit keeps the shape and the keys.
LEMMA CommitKeeps ==
  ASSUME TInv, NEW c \in Clients, Commit(c)
  PROVE  TInv'
<1>1. /\ Shape /\ Ranges /\ Keys /\ tx[c] \in TxSet /\ InRange(tx[c], nextId, position)
  BY DEF TInv, Shape, Ranges
<1>2. /\ rows' = [s \in AllStreams |-> Row(c, s)] /\ messages' = Visible(c)
      /\ UNCHANGED <<workload, nextId, position, calls>>
  BY CommitSteps
<1>3. PICK t \in {Followed(tx[c]), Idle} : Become(c, t)
  BY CommitSteps
<1>4. InRange(t, nextId, position) /\ t.inserted = {} /\ t.deleted = {} /\ t \in TxSet
  BY FollowedInRange DEF InRange
<1>5. /\ tx' \in [Clients -> TxSet] /\ tx'[c] = t
      /\ \A d \in Clients \ {c} : tx'[d] = tx[d]
  BY <1>1, <1>3, <1>4, Becomes DEF Shape
<1>6. /\ \A s \in AllStreams : Row(c, s) \in RowSet /\ IsRow(Row(c, s), nextId)
      /\ Visible(c) \in SUBSET MessageSet /\ IsFiniteSet(Visible(c))
      /\ \A m \in Visible(c) : IsMessage(m, nextId, position)
  BY <1>1, Sees
<1>7. Shape'
  BY <1>1, <1>2, <1>5, <1>6 DEF Shape
<1>8. Ranges'
  <2>1. \A d \in Clients : InRange(tx'[d], nextId, position)
    BY <1>1, <1>4, <1>5 DEF Ranges
  <2>2. \A s \in AllStreams : IsRow(rows'[s], nextId)
    BY <1>2, <1>6
  <2> QED BY <1>2, <1>6, <2>1, <2>2 DEF Ranges
<1>9. Keys'
  <2>1. Fits(c, tx[c])
    BY <1>1 DEF Keys
  <2>2. \A m, k \in messages' : m # k => Apart(m, k)
    <3> SUFFICES ASSUME NEW m \in Visible(c), NEW k \in Visible(c), m # k PROVE Apart(m, k)
      BY <1>2
    <3>1. CASE m \in tx[c].inserted /\ k \in tx[c].inserted
      BY <2>1, <3>1 DEF Fits
    <3>2. CASE m \in tx[c].inserted /\ k \notin tx[c].inserted
      BY <2>1, <3>2 DEF Fits, Visible, Apart
    <3>3. CASE m \notin tx[c].inserted /\ k \in tx[c].inserted
      BY <2>1, <3>3, ConflictSymmetric DEF Fits, Visible, Apart
    <3>4. CASE m \notin tx[c].inserted /\ k \notin tx[c].inserted
      BY <1>1, <3>4 DEF Keys, Visible
    <3> QED BY <3>1, <3>2, <3>3, <3>4
  <2>3. ASSUME NEW d \in Clients PROVE Fits(d, tx[d])'
    <3>1. CASE d = c
      <4>1. tx'[d].inserted = {} /\ tx'[d].deleted = {}
        BY <1>4, <1>5, <3>1
      <4> QED BY <4>1 DEF Fits
    <3>2. CASE d # c
      <4>1. tx'[d] = tx[d] /\ Fits(d, tx[d])
        BY <1>1, <1>5, <3>2 DEF Keys
      <4>2. \A m \in tx[d].inserted, k \in messages' :
              m.position # k.position /\ (k \notin tx[d].deleted => ~ Conflict(m, k))
        <5> TAKE m \in tx[d].inserted, k \in messages'
        <5>1. CASE k \in messages
          BY <4>1, <5>1 DEF Fits
        <5>2. CASE k \in tx[c].inserted
          BY <3>2, <4>1, <5>2 DEF Fits, Apart
        <5> QED BY <1>2, <5>1, <5>2 DEF Visible
      <4>3. \A e \in Clients \ {d} :
              /\ \A m \in tx[d].inserted, k \in tx'[e].inserted : Apart(m, k)
              /\ \A m \in tx[d].inserted, k \in tx'[e].deleted : ~ Conflict(m, k)
              /\ \A m \in tx'[e].inserted, k \in tx[d].deleted : ~ Conflict(m, k)
        <5> TAKE e \in Clients \ {d}
        <5>1. CASE e = c
          BY <1>4, <1>5, <5>1
        <5>2. CASE e # c
          BY <1>5, <4>1, <5>2 DEF Fits
        <5> QED BY <5>1, <5>2
      <4> QED BY <4>1, <4>2, <4>3 DEF Fits
    <3> QED BY <3>1, <3>2
  <2> QED BY <2>2, <2>3 DEF Keys
<1> QED BY <1>7, <1>8, <1>9 DEF TInv

\* A lost connection keeps the shape and the keys.
LEMMA LoseConnectionKeeps ==
  ASSUME TInv, NEW c \in Clients, LoseConnection(c)
  PROVE  TInv'
<1>1. /\ position \in Nat /\ calls \in 0 .. MaxCalls /\ Reject(c)
      /\ UNCHANGED <<workload, rows, messages, nextId, position, calls>>
  BY DEF TInv, Shape, LoseConnection
<1> QED BY <1>1, RollBack

\* Initially, and whatever happens.
LEMMA TInvInit == Init => TInv
<1> SUFFICES ASSUME Init PROVE TInv
  OBVIOUS
<1>1. /\ workload \in Workloads /\ rows = [s \in AllStreams |-> NoRow] /\ messages = {}
      /\ tx = [c \in Clients |-> Idle] /\ nextId = 1 /\ position = 0 /\ calls = 0
  BY DEF Init
<1>2. InRange(Idle, nextId, position) /\ Idle.inserted = {} /\ Idle.deleted = {} /\ Idle \in TxSet
  BY <1>1, IdleInRange DEF InRange
<1>3. Shape
  <2>1. IsFiniteSet({})
    BY FS_EmptySet
  <2>2. NoRow \in RowSet
    BY DEF NoRow, RowSet
  <2> QED BY <1>1, <1>2, <2>1, <2>2, PgStoreAssumption DEF Shape
<1>4. Ranges
  BY <1>1, <1>2 DEF Ranges, NoRow, IsRow
<1>5. Keys
  BY <1>1, <1>2 DEF Keys, Fits
<1> QED BY <1>3, <1>4, <1>5 DEF TInv

\* Every step keeps the shape and the keys.
LEMMA TInvNext == TInv /\ [Next]_vars => TInv'
<1> SUFFICES ASSUME TInv, [Next]_vars PROVE TInv'
  OBVIOUS
<1>1. CASE UNCHANGED vars
  BY <1>1 DEF vars, TInv, Shape, Ranges, Keys, Fits
<1>2. ASSUME NEW c \in Clients, Call(c) PROVE TInv'
  BY <1>2, CallKeeps
<1>3. ASSUME NEW c \in Clients, ReadMetadata(c) PROVE TInv'
  BY <1>3, ReadMetadataKeeps
<1>4. ASSUME NEW c \in Clients, CreateStream(c) PROVE TInv'
  BY <1>4, CreateStreamKeeps
<1>5. ASSUME NEW c \in Clients, ReadStream(c) PROVE TInv'
  BY <1>5, ReadStreamKeeps
<1>6. ASSUME NEW c \in Clients, CheckVersion(c) PROVE TInv'
  BY <1>6, CheckVersionKeeps
<1>7. ASSUME NEW c \in Clients, InsertMessages(c) PROVE TInv'
  BY <1>7, InsertMessagesKeeps
<1>8. ASSUME NEW c \in Clients, EnforceIdempotentAppend(c) PROVE TInv'
  BY <1>8, EnforceKeeps
<1>9. ASSUME NEW c \in Clients, Replayed(c) PROVE TInv'
  BY <1>9, ReplayedKeeps
<1>10. ASSUME NEW c \in Clients, ReadLatest(c) PROVE TInv'
  BY <1>10, ReadLatestKeeps
<1>11. ASSUME NEW c \in Clients, UpdateStream(c) PROVE TInv'
  BY <1>11, UpdateStreamKeeps
<1>12. ASSUME NEW c \in Clients, UpdatePolicy(c) PROVE TInv'
  BY <1>12, UpdatePolicyKeeps
<1>13. ASSUME NEW c \in Clients, LocateStream(c) PROVE TInv'
  BY <1>13, LocateStreamKeeps
<1>14. ASSUME NEW c \in Clients, DeleteMessages(c) PROVE TInv'
  BY <1>14, DeleteMessagesKeeps
<1>15. ASSUME NEW c \in Clients, SelectScavengable(c) PROVE TInv'
  BY <1>15, SelectScavengableKeeps
<1>16. ASSUME NEW c \in Clients, FindStream(c) PROVE TInv'
  BY <1>16, FindStreamKeeps
<1>17. ASSUME NEW c \in Clients, CompareVersion(c) PROVE TInv'
  BY <1>17, CompareVersionKeeps
<1>18. ASSUME NEW c \in Clients, PurgeMessages(c) PROVE TInv'
  BY <1>18, PurgeMessagesKeeps
<1>19. ASSUME NEW c \in Clients, DropStream(c) PROVE TInv'
  BY <1>19, DropStreamKeeps
<1>20. ASSUME NEW c \in Clients, Commit(c) PROVE TInv'
  BY <1>20, CommitKeeps
<1>21. ASSUME NEW c \in Clients, LoseConnection(c) PROVE TInv'
  BY <1>21, LoseConnectionKeeps
<1> QED
  BY <1>1, <1>2, <1>3, <1>4, <1>5, <1>6, <1>7, <1>8, <1>9, <1>10, <1>11, <1>12, <1>13, <1>14,
     <1>15, <1>16, <1>17, <1>18, <1>19, <1>20, <1>21 DEF Next

\* The shape of the variables, the ranges of the sequences and the keys of the message table
\* are kept by every statement of every transaction, whatever the workload.
THEOREM KeysInvariance == Spec => []TInv
BY TInvInit, TInvNext, PTL DEF Spec

\* TypeOK for every workload: no two messages of the message table have an id, a version or a
\* position in common, although the statement that inserts them only looks at what is
\* committed and at what it must wait for.
THEOREM TypeCorrect == Spec => []TypeOK
<1>1. TInv => TypeOK
  <2> SUFFICES ASSUME TInv PROVE TypeOK
    OBVIOUS
  <2>1. Shape /\ Ranges /\ Keys
    BY DEF TInv
  <2>2. \A s \in AllStreams : /\ rows[s].id \in 0 .. nextId - 1
                              /\ rows[s].version \in Int /\ rows[s].version >= -1
                              /\ rows[s].maxCount \in Nat
    BY <2>1 DEF Shape, Ranges, IsRow, RowSet
  <2>3. \A m \in messages : /\ m.streamId \in AllStreams /\ m.id \in 1 .. nextId - 1
                            /\ m.streamVersion \in Nat /\ m.position \in 0 .. position - 1
    BY <2>1 DEF Shape, Ranges, IsMessage, MessageSet
  <2>4. \A m, k \in messages : m # k => ~ Conflict(m, k) /\ m.position # k.position
    BY <2>1 DEF Keys, Apart
  <2>5. \A c \in Clients : tx[c].pc \in Steps /\ tx[c].tries \in 0 .. Tries
    <3> TAKE c \in Clients
    <3>1. tx[c] \in TxSet /\ InRange(tx[c], nextId, position)
      BY <2>1 DEF Shape, Ranges
    <3> QED BY <3>1, PgStoreAssumption DEF TxSet, InRange
  <2> QED BY <2>1, <2>2, <2>3, <2>4, <2>5 DEF TypeOK, Shape
<1> QED BY <1>1, KeysInvariance, PTL

-----------------------------------------------------------------------------
(***************************************************************************)
(* The streams, as long as nothing is removed from them                    *)
(***************************************************************************)

\* A request of the workload, with the ids the client makes up in its n-th call.
As(r, n) == [r EXCEPT !.ids = [i \in DOMAIN @ |-> IF @[i] = NewId THEN MadeUp(n, i) ELSE @[i]]]

\* Appends of any or the empty version are not repeated.  No message is at the version
\* that was expected, or before, when an append of several begins with it.
Orderly(requests) ==
  \A r \in requests :
    /\ r.expected < 0 => \A i \in DOMAIN r.ids : r.ids[i] = NewId
    /\ (Len(r.ids) > 1 /\ r.ids[1] # NewId) =>
         \A q \in requests : \A j \in DOMAIN q.ids :
           (q.stream = r.stream /\ q.ids[j] = r.ids[1]) => q.expected + j > r.expected
OnlyAppended(requests) == \A r \in requests : IsAppend(r) /\ r.maxCount = 0
RepeatsAreOrderly == \A requests \in Workloads : OnlyAppended(requests) => Orderly(requests)

\* The tables: rows are told apart by their ids, and a message is in the stream of its row.
Tables(table, stored) ==
  /\ \A s \in AllStreams : table[s].maxCount = 0 /\ (table[s].id = 0 => table[s].version = -1)
  /\ \A s, u \in AllStreams : (s # u /\ table[s].id # 0) => table[s].id # table[u].id
  /\ \A m \in stored : m.maxCount = 0 /\ m.id = table[m.streamId].id

\* The messages of a stream have the versions up to that of its row, in the order of
\* the positions, of which p have been given out.
Versions(table, stored, p) ==
  /\ \A s \in AllStreams :
       /\ \A v \in 0 .. table[s].version : \E m \in stored : m.streamId = s /\ m.streamVersion = v
       /\ table[s].version < p
  /\ \A m \in stored : m.streamVersion <= table[m.streamId].version /\ m.streamVersion <= m.position
  /\ \A m, k \in stored :
       (m.streamId = k.streamId /\ m.streamVersion < k.streamVersion) => m.position < k.position

\* A message with an id that a caller gave is where a request puts it, and no message has
\* an id that is yet to be made up.
Placed(stored, n) ==
  \A m \in stored :
    /\ m.messageId \in Given =>
         \E q \in workload : \E j \in DOMAIN q.ids :
           q.stream = m.streamId /\ q.ids[j] = m.messageId /\ m.streamVersion = q.expected + j
    /\ \A q \in workload : \A i \in DOMAIN q.ids, k \in n .. MaxCalls : m.messageId # MadeUp(k, i)

\* What was acknowledged is stored, in one place.
Acknowledged(done, stored, p) ==
  \A r \in done :
    \E v \in -1 .. p :
      /\ r.expected # ExpectedVersionAny => v = r.expected
      /\ \A i \in DOMAIN r.ids : \E m \in stored :
           m.streamId = Target(r) /\ m.messageId = r.ids[i] /\ m.streamVersion = v + i

AppendSteps == {"metadata", "create", "read", "version", "insert", "enforce", "replayed",
                "latest", "update", "policy", "commit"}

\* Transaction t does nothing but append.
Appending(t) ==
  /\ t.deleted = {} /\ t.maxCount = 0
  /\ \A m \in t.inserted : m.maxCount = 0
  /\ \A s \in DOMAIN t.writes : t.writes[s].maxCount = 0
  /\ t.pc = "idle" => t.ids = << >> /\ DOMAIN t.writes = {}
  /\ t.pc # "idle" =>
       /\ t.pc \in AppendSteps
       /\ IsAppend(t.request) /\ t.request.maxCount = 0
       /\ t.target = Target(t.request)
       /\ t.expected = t.request.expected
       /\ t.ids = t.request.ids

\* It is one of the first n calls, and the ids that are made up for it are nowhere yet.
Comes(t, n) == t.pc # "idle" => \E r \in workload, k \in 0 .. n - 1 : t.request = As(r, k)
Unseen(t, stored) ==
  \A i \in DOMAIN t.ids : t.ids[i] \notin Given => \A m \in stored : m.messageId # t.ids[i]

\* The rows that t writes are those of the table, or new; it inserts into its stream.
RowOf(t, table, s) == IF s \in DOMAIN t.writes THEN t.writes[s] ELSE table[s]
Locked(t, table) ==
  /\ \A s \in DOMAIN t.writes :
       /\ t.writes[s].id # 0
       /\ table[s].id # 0 => t.writes[s].id = table[s].id
       /\ \A u \in AllStreams \ {s} : t.writes[s].id # table[u].id
       /\ \A u \in DOMAIN t.writes \ {s} : t.writes[s].id # t.writes[u].id
  /\ \A m \in t.inserted : m.streamId = t.target /\ m.id = t.id
  /\ (t.pc \notin {"idle", "metadata", "create", "read"} /\ t.id # 0) =>
       t.id = RowOf(t, table, t.target).id

\* What t has inserted goes right after the last message of its stream.
Appended(t, table, stored) ==
  LET last == table[t.target].version IN
  /\ t.ids # << >> /\ t.id # 0
  /\ \A m \in t.inserted :
       /\ m.streamVersion - last \in DOMAIN t.ids /\ m.messageId = t.ids[m.streamVersion - last]
       /\ m.streamVersion <= m.position
       /\ \A k \in stored : k.streamId = t.target => k.position < m.position
       /\ \A k \in t.inserted : k.streamVersion < m.streamVersion => k.position < m.position
  /\ \A i \in DOMAIN t.ids : \E m \in t.inserted : m.streamVersion = last + i
  /\ t.expected # ExpectedVersionAny => t.expected = last

\* What t would append was appended before at the version it expects.
WasAppended(t, stored) ==
  /\ t.expected >= 0
  /\ \A i \in DOMAIN t.ids : \E m \in stored :
       m.streamId = t.target /\ m.messageId = t.ids[i] /\ m.streamVersion = t.expected + i

\* Before the insert, after an insert of which some messages conflicted, and at the end.
ToInsert(t, table) ==
  t.current <= table[t.target].version /\ (t.expected # ExpectedVersionAny => t.current = t.expected)
ToEnforce(t, table) ==
  /\ t.ids # << >> /\ t.id # 0
  /\ t.expected >= 0 => t.current = t.expected /\ t.expected <= table[t.target].version
  /\ t.success = Cardinality(t.inserted) /\ t.success < Len(t.ids)
  /\ \E i \in DOMAIN t.ids : \A m \in t.inserted : m.messageId # t.ids[i]
  /\ \A m \in t.inserted : m.streamVersion > t.current
ToCommit(t, table, stored) ==
  IF t.inserted # {}
  THEN /\ Appended(t, table, stored) /\ t.target \in DOMAIN t.writes
       /\ t.writes[t.target].version = table[t.target].version + Len(t.ids)
  ELSE IF t.ids = << >> THEN t.expected <= table[t.target].version ELSE WasAppended(t, stored)

\* How far t is.
Stage(t, table, stored) ==
  /\ t.pc \in {"metadata", "create"} => t.expected < 0
  /\ t.pc = "version" => t.expected >= 0 /\ t.current = t.expected
  /\ t.pc = "insert" => ToInsert(t, table)
  /\ t.pc = "enforce" => ToEnforce(t, table)
  /\ t.pc = "replayed" => t.inserted = {} /\ WasAppended(t, stored) /\ t.ids # << >>
  /\ t.pc \in {"latest", "update"} => Appended(t, table, stored)
  /\ t.pc = "update" => t.current = table[t.target].version + Len(t.ids)
  /\ t.pc \in {"policy", "commit"} => ToCommit(t, table, stored)
  /\ \A s \in DOMAIN t.writes :
       \/ t.pc \in {"policy", "commit"} /\ s = t.target /\ t.inserted # {}
       \/ t.writes[s].version = table[s].version

\* Two transactions write different rows, and have none but given ids in common.
Separate(t, u) ==
  /\ DOMAIN t.writes \cap DOMAIN u.writes = {}
  /\ \A r \in DOMAIN t.writes, s \in DOMAIN u.writes : t.writes[r].id # u.writes[s].id
  /\ \A i \in DOMAIN t.ids, j \in DOMAIN u.ids : t.ids[i] = u.ids[j] => t.ids[i] \in Given

Committed ==
  /\ Tables(rows, messages) /\ Versions(rows, messages, position)
  /\ Placed(messages, calls) /\ Acknowledged(acknowledged, messages, position)
Proper(t, table, stored, n) ==
  Appending(t) /\ Comes(t, n) /\ Unseen(t, stored) /\ Locked(t, table) /\ Stage(t, table, stored)
Transactions ==
  /\ \A c \in Clients : Proper(tx[c], rows, messages, calls)
  /\ \A c, d \in Clients : c # d => Separate(tx[c], tx[d])
SInv == Committed /\ Transactions

Undisturbed == NothingRemoved /\ Orderly(workload)
IInv == TInv /\ (Undisturbed => SInv)

-----------------------------------------------------------------------------
(***************************************************************************)
(* Lemmas: calls, and what a transaction sees of its stream                *)
(***************************************************************************)

\* The requests of the workload, with the ids made up for a call.
LEMMA AsIs ==
  ASSUME TInv, NEW r \in workload, NEW k \in 0 .. MaxCalls
  PROVE  /\ As(r, k).op = r.op /\ As(r, k).stream = r.stream /\ As(r, k).expected = r.expected
         /\ As(r, k).maxCount = r.maxCount
         /\ DOMAIN As(r, k).ids = DOMAIN r.ids /\ Len(As(r, k).ids) = Len(r.ids)
         /\ \A i \in DOMAIN r.ids :
              As(r, k).ids[i] = IF r.ids[i] = NewId THEN MadeUp(k, i) ELSE r.ids[i]
         /\ k = calls => Fresh(r) = As(r, k)
<1> DEFINE ids == [i \in DOMAIN r.ids |-> IF r.ids[i] = NewId THEN MadeUp(k, i) ELSE r.ids[i]]
<1>1. IsRequest(r)
  BY PgStoreAssumption DEF TInv, Shape
<1>2. r = Request(r.op, r.stream, r.expected, r.ids, r.maxCount) /\ r.ids \in Seq(ToSet(r.ids))
  BY <1>1 DEF IsRequest
<1>3. As(r, k) = Request(r.op, r.stream, r.expected, ids, r.maxCount)
  BY <1>2 DEF As, Request
<1>4. k = calls => Fresh(r) = As(r, k)
  BY DEF Fresh, As
<1>5. DOMAIN r.ids = 1 .. Len(r.ids) /\ Len(r.ids) \in Nat
  BY <1>2
<1>6. Len(ids) = Len(r.ids)
  BY <1>5
<1> HIDE DEF ids
<1>7. /\ As(r, k).op = r.op /\ As(r, k).stream = r.stream /\ As(r, k).expected = r.expected
      /\ As(r, k).maxCount = r.maxCount /\ As(r, k).ids = ids
  BY <1>3 DEF Request
<1> QED BY <1>4, <1>6, <1>7 DEF ids

\* An id that is made up is not given by a caller, and is made up once.
LEMMA MadeUpOnce ==
  ASSUME TInv, NEW q \in workload, NEW j \in DOMAIN q.ids, NEW k \in 0 .. MaxCalls
  PROVE  /\ MadeUp(k, j) \notin Given
         /\ \A n, i : MadeUp(n, i) = MadeUp(k, j) => n = k /\ i = j
<1>1. workload \in Workloads
  BY DEF TInv, Shape
<1>2. \A r \in workload : \A i \in DOMAIN r.ids : r.ids[i] # MadeUp(k, j)
  BY <1>1, PgStoreAssumption
<1> QED BY <1>2 DEF Given, GivenIn, ToSet, MadeUp

\* Conflicts of ids and rows between two transactions go both ways.
LEMMA SeparateSymmetric ==
  ASSUME NEW t, NEW u, Separate(t, u)
  PROVE  Separate(u, t)
BY DEF Separate

\* What an appending transaction begins with.
LEMMA BeginsAppend ==
  ASSUME NEW r, IsAppend(r), NEW tries
  PROVE  LET t == Begin(r, tries) IN
         /\ t.pc = AppendStart(r.expected) /\ t.request = r /\ t.target = Target(r)
         /\ t.expected = r.expected /\ t.ids = r.ids /\ t.id = 0 /\ t.maxCount = 0
         /\ t.writes = << >> /\ t.inserted = {} /\ t.deleted = {}
<1> DEFINE start == CASE r.op \in {"delete", "scavenge"} -> "locate"
                      [] r.op = "delete stream" -> "find"
                      [] OTHER -> AppendStart(r.expected)
           target == IF r.op = "metadata" THEN MetaStream(r.stream) ELSE r.stream
<1>1. start = AppendStart(r.expected)
  BY DEF IsAppend
<1>2. target = Target(r)
  BY DEF Target
<1> HIDE DEF start, target
<1>3. Begin(r, tries) = [Idle EXCEPT !.pc = start, !.request = r, !.tries = tries, !.target = target,
                           !.expected = r.expected, !.ids = r.ids]
  BY DEF Begin, start, target
<1> QED BY <1>1, <1>2, <1>3 DEF Idle

\* A transaction that begins an append, or is idle, is in order.
LEMMA ProperBegin ==
  ASSUME NEW r, IsAppend(r), r.maxCount = 0, NEW tries, NEW n \in Nat,
         \E q \in workload, k \in 0 .. n - 1 : r = As(q, k),
         \A i \in DOMAIN r.ids : r.ids[i] \notin Given => \A m \in messages : m.messageId # r.ids[i]
  PROVE  Proper(Begin(r, tries), rows, messages, n)
<1> DEFINE t == Begin(r, tries)
<1>1. /\ t.pc = AppendStart(r.expected) /\ t.request = r /\ t.target = Target(r)
      /\ t.expected = r.expected /\ t.ids = r.ids /\ t.id = 0 /\ t.maxCount = 0
      /\ t.writes = << >> /\ t.inserted = {} /\ t.deleted = {}
  BY BeginsAppend
<1>2. DOMAIN t.writes = {}
  BY <1>1
<1> HIDE DEF t
<1>3. t.pc \in {"metadata", "read"} /\ (t.pc = "metadata" => t.expected < 0)
  BY <1>1 DEF AppendStart
<1>4. Appending(t)
  BY <1>1, <1>2, <1>3 DEF Appending, AppendSteps
<1>5. Comes(t, n)
  BY <1>1 DEF Comes
<1>6. Unseen(t, messages)
  BY <1>1 DEF Unseen
<1>7. Locked(t, rows)
  BY <1>1, <1>2, <1>3 DEF Locked
<1>8. Stage(t, rows, messages)
  BY <1>1, <1>2, <1>3 DEF Stage
<1> QED BY <1>4, <1>5, <1>6, <1>7, <1>8 DEF Proper, t

\* A transaction that is not under way is proper, whatever is stored.
LEMMA ProperIdle ==
  ASSUME NEW table, NEW stored, NEW n
  PROVE  Proper(Idle, table, stored, n) /\ \A u : Separate(Idle, u) /\ Separate(u, Idle)
<1>1. /\ Idle.pc = "idle" /\ Idle.deleted = {} /\ Idle.inserted = {} /\ Idle.maxCount = 0
      /\ Idle.ids = << >> /\ DOMAIN Idle.writes = {} /\ DOMAIN Idle.ids = {}
  BY DEF Idle
<1>2. Appending(Idle)
  BY <1>1 DEF Appending
<1>3. Comes(Idle, n) /\ Unseen(Idle, stored)
  BY <1>1 DEF Comes, Unseen
<1>4. Locked(Idle, table)
  BY <1>1 DEF Locked
<1>5. Stage(Idle, table, stored)
  BY <1>1 DEF Stage
<1>6. \A u : Separate(Idle, u) /\ Separate(u, Idle)
  BY <1>1 DEF Separate
<1> QED BY <1>2, <1>3, <1>4, <1>5, <1>6 DEF Proper

\* Intervals are as long as their ends say.
LEMMA IntervalGrows ==
  ASSUME NEW n \in Nat, NEW m \in Nat, n <= m
  PROVE  \A k \in 0 .. n - 1 : k \in 0 .. m - 1
OBVIOUS

\* A step of one transaction that commits nothing.
LEMMA OneProperStep ==
  ASSUME TInv, SInv, NEW c \in Clients, NEW t \in TxSet, Become(c, t),
         Proper(t, rows, messages, calls'), \A d \in Clients \ {c} : Separate(t, tx[d]),
         UNCHANGED <<workload, rows, messages, acknowledged>>,
         position' \in Nat, position <= position', calls' \in Nat, calls <= calls'
  PROVE  SInv'
<1>1. /\ position \in Nat /\ calls \in Nat
      /\ rows \in [AllStreams -> RowSet] /\ messages \in SUBSET MessageSet
  BY PgStoreAssumption DEF TInv, Shape
<1>2. /\ tx' \in [Clients -> TxSet] /\ tx'[c] = t
      /\ \A d \in Clients \ {c} : tx'[d] = tx[d]
  BY Becomes DEF TInv, Shape
<1>3. Tables(rows, messages)
  BY DEF SInv, Committed
<1>4. Versions(rows, messages, position')
  BY <1>1 DEF SInv, Committed, Versions, RowSet
<1>5. Placed(messages, calls)'
  <2>1. \A k \in calls' .. MaxCalls : k \in calls .. MaxCalls
    BY <1>1
  <2>2. Placed(messages, calls)
    BY DEF SInv, Committed
  <2> QED BY <2>1, <2>2 DEF Placed, Given
<1>6. Acknowledged(acknowledged, messages, position')
  <2>1. \A v \in -1 .. position : v \in -1 .. position'
    BY <1>1
  <2> QED BY <2>1 DEF SInv, Committed, Acknowledged
<1>7. Committed'
  BY <1>3, <1>4, <1>5, <1>6 DEF Committed
<1>8. \A k \in 0 .. calls - 1 : k \in 0 .. calls' - 1
  BY <1>1, IntervalGrows
<1>9. \A d \in Clients : Proper(tx[d], rows, messages, calls)'
  <2> SUFFICES ASSUME NEW d \in Clients
               PROVE  /\ Appending(tx'[d]) /\ Comes(tx[d], calls)' /\ Unseen(tx[d], messages)'
                      /\ Locked(tx'[d], rows) /\ Stage(tx'[d], rows, messages)
    BY DEF Proper
  <2>1. CASE d = c
    <3>1. /\ Appending(t) /\ Comes(t, calls') /\ Unseen(t, messages)
          /\ Locked(t, rows) /\ Stage(t, rows, messages)
      BY DEF Proper
    <3> QED BY <1>2, <2>1, <3>1 DEF Comes, Unseen, Given
  <2>2. CASE d # c
    <3>1. /\ Appending(tx[d]) /\ Comes(tx[d], calls) /\ Unseen(tx[d], messages)
          /\ Locked(tx[d], rows) /\ Stage(tx[d], rows, messages)
      BY DEF SInv, Transactions, Proper
    <3> QED BY <1>2, <1>8, <2>2, <3>1 DEF Comes, Unseen, Given
  <2> QED BY <2>1, <2>2
<1>10. \A d, e \in Clients : d # e => Separate(tx[d], tx[e])'
  <2> SUFFICES ASSUME NEW d \in Clients, NEW e \in Clients, d # e
               PROVE  Separate(tx[d], tx[e])'
    OBVIOUS
  <2>1. Separate(tx'[d], tx'[e])
    BY <1>2, SeparateSymmetric DEF SInv, Transactions
  <2> QED BY <2>1 DEF Separate, Given
<1> QED BY <1>7, <1>9, <1>10 DEF SInv, Transactions

\* A transaction that goes on with the same call and what it wrote.
LEMMA SameCall ==
  ASSUME SInv, NEW c \in Clients, tx[c].pc # "idle", NEW t, t.pc \in AppendSteps,
         t.request = tx[c].request, t.target = tx[c].target, t.expected = tx[c].expected,
         t.ids = tx[c].ids, t.writes = tx[c].writes, t.inserted = tx[c].inserted,
         t.deleted = tx[c].deleted, t.maxCount = 0
  PROVE  /\ Appending(t) /\ Comes(t, calls) /\ Unseen(t, messages)
         /\ \A d \in Clients \ {c} : Separate(t, tx[d])
<1>1. /\ Appending(tx[c]) /\ Comes(tx[c], calls) /\ Unseen(tx[c], messages)
      /\ \A d \in Clients \ {c} : Separate(tx[c], tx[d])
  BY DEF SInv, Transactions, Proper
<1>2. Appending(t)
  BY <1>1 DEF Appending, AppendSteps
<1>3. Comes(t, calls) /\ Unseen(t, messages)
  BY <1>1 DEF Comes, Unseen
<1>4. \A d \in Clients \ {c} : Separate(t, tx[d])
  BY <1>1 DEF Separate
<1> QED BY <1>2, <1>3, <1>4

\* A transaction that only reads, and goes on with the same call.
LEMMA SameCallReads ==
  ASSUME TInv, SInv, NEW c \in Clients, tx[c].pc # "idle", NEW t \in TxSet, t.pc \in AppendSteps,
         t.request = tx[c].request, t.target = tx[c].target, t.expected = tx[c].expected,
         t.ids = tx[c].ids, t.writes = tx[c].writes, t.inserted = tx[c].inserted,
         t.deleted = tx[c].deleted, t.maxCount = 0,
         Locked(t, rows), Stage(t, rows, messages), Become(c, t), Reads
  PROVE  SInv'
<1>1. /\ Appending(t) /\ Comes(t, calls) /\ Unseen(t, messages)
      /\ \A d \in Clients \ {c} : Separate(t, tx[d])
  BY SameCall
<1>2. Proper(t, rows, messages, calls)
  BY <1>1 DEF Proper
<1>3. /\ UNCHANGED <<workload, rows, messages, acknowledged, position, calls>>
      /\ position \in Nat /\ calls \in Nat
  BY PgStoreAssumption DEF TInv, Shape, Reads
<1>4. /\ Proper(t, rows, messages, calls') /\ position' \in Nat /\ position <= position'
      /\ calls' \in Nat /\ calls <= calls'
  BY <1>2, <1>3
<1> QED BY <1>1, <1>3, <1>4, OneProperStep

\* What is known of a transaction, in one place.
LEMMA TxFacts ==
  ASSUME TInv, SInv, NEW c \in Clients
  PROVE  /\ tx[c] \in TxSet /\ InRange(tx[c], nextId, position)
         /\ Appending(tx[c]) /\ Comes(tx[c], calls) /\ Unseen(tx[c], messages)
         /\ Locked(tx[c], rows) /\ Stage(tx[c], rows, messages)
         /\ tx[c].target \in AllStreams /\ DOMAIN tx[c].writes \subseteq AllStreams
         /\ tx[c].ids \in Seq(MessageIds) /\ tx[c].deleted = {}
         /\ rows[tx[c].target].version \in Int /\ rows[tx[c].target].version >= -1
         /\ rows[tx[c].target].version < position /\ position \in Nat
<1>1. Shape /\ Ranges
  BY DEF TInv
<1>2. tx[c] \in TxSet /\ InRange(tx[c], nextId, position)
  BY <1>1 DEF Shape, Ranges
<1>3. /\ Appending(tx[c]) /\ Comes(tx[c], calls) /\ Unseen(tx[c], messages)
      /\ Locked(tx[c], rows) /\ Stage(tx[c], rows, messages)
  BY DEF SInv, Transactions, Proper
<1>4. tx[c].target \in AllStreams /\ tx[c].ids \in Seq(MessageIds) /\ tx[c].deleted = {}
  BY <1>2, <1>3 DEF TxSet, Appending
<1>5. DOMAIN tx[c].writes \subseteq AllStreams
  BY <1>1, Sees
<1>6. rows[tx[c].target].version \in Int /\ rows[tx[c].target].version >= -1
  BY <1>1, <1>4 DEF Shape, Ranges, IsRow, RowSet
<1>7. rows[tx[c].target].version < position /\ position \in Nat
  BY <1>1, <1>4 DEF SInv, Committed, Versions, Shape
<1> QED BY <1>2, <1>3, <1>4, <1>5, <1>6, <1>7

\* Where the ids of a transaction come from.
LEMMA IdsFrom ==
  ASSUME TInv, SInv, NEW c \in Clients, tx[c].pc # "idle"
  PROVE  \E r \in workload, k \in 0 .. calls - 1 :
           /\ k \in 0 .. MaxCalls /\ k \in Nat /\ k < calls
           /\ tx[c].request = As(r, k)
           /\ r.op = tx[c].request.op /\ r.stream = tx[c].request.stream
           /\ r.expected = tx[c].expected
           /\ DOMAIN tx[c].ids = DOMAIN r.ids /\ Len(tx[c].ids) = Len(r.ids)
           /\ \A i \in DOMAIN r.ids :
                /\ tx[c].ids[i] = IF r.ids[i] = NewId THEN MadeUp(k, i) ELSE r.ids[i]
                /\ tx[c].ids[i] \in Given <=> r.ids[i] # NewId
<1>1. PICK r \in workload, k \in 0 .. calls - 1 : tx[c].request = As(r, k)
  BY TxFacts DEF Comes
<1>2. calls \in 0 .. MaxCalls /\ MaxCalls \in Nat
  BY PgStoreAssumption DEF TInv, Shape
<1>3. k \in 0 .. MaxCalls /\ k \in Nat /\ k < calls
  BY <1>2
<1>4. tx[c].expected = tx[c].request.expected /\ tx[c].ids = tx[c].request.ids
  BY TxFacts DEF Appending
<1>5. /\ As(r, k).op = r.op /\ As(r, k).stream = r.stream /\ As(r, k).expected = r.expected
      /\ DOMAIN As(r, k).ids = DOMAIN r.ids /\ Len(As(r, k).ids) = Len(r.ids)
      /\ \A i \in DOMAIN r.ids :
           As(r, k).ids[i] = IF r.ids[i] = NewId THEN MadeUp(k, i) ELSE r.ids[i]
  BY <1>3, AsIs
<1>6. \A i \in DOMAIN r.ids : MadeUp(k, i) \notin Given
  BY <1>3, MadeUpOnce
<1>7. \A i \in DOMAIN r.ids : r.ids[i] \in Given
  BY DEF Given, GivenIn, ToSet
<1> QED BY <1>1, <1>3, <1>4, <1>5, <1>6, <1>7

\* Once it has read its row a transaction sees the messages of its stream, and its own.
LEMMA OwnStream ==
  ASSUME TInv, SInv, NEW c \in Clients,
         tx[c].pc \notin {"idle", "metadata", "create", "read"}, tx[c].id # 0
  PROVE  /\ \A m \in messages : m.id = tx[c].id <=> m.streamId = tx[c].target
         /\ MessagesOf(c, tx[c].id) = {m \in messages : m.streamId = tx[c].target} \cup tx[c].inserted
         /\ Row(c, tx[c].target).id = tx[c].id
         /\ rows[tx[c].target].id # 0 => rows[tx[c].target].id = tx[c].id
<1> DEFINE t == tx[c]
<1>1. /\ t.id = RowOf(t, rows, t.target).id /\ t.target \in AllStreams /\ Locked(t, rows) /\ t.deleted = {}
  BY TxFacts DEF Locked
<1>2. Tables(rows, messages) /\ messages \in SUBSET MessageSet /\ \A m \in messages : m.id # 0
  BY DEF SInv, Committed, TInv, Shape, Ranges, IsMessage
<1>3. \A m \in messages : m.id = t.id <=> m.streamId = t.target
  <2> TAKE m \in messages
  <2>1. m.id = rows[m.streamId].id /\ m.id # 0 /\ m.streamId \in AllStreams
    BY <1>2 DEF Tables, MessageSet
  <2>2. CASE m.streamId = t.target
    BY <1>1, <2>1, <2>2 DEF RowOf, Locked
  <2>3. CASE m.streamId # t.target /\ t.target \in DOMAIN t.writes
    BY <1>1, <2>1, <2>3 DEF RowOf, Locked
  <2>4. CASE m.streamId # t.target /\ t.target \notin DOMAIN t.writes
    BY <1>1, <1>2, <2>1, <2>4 DEF RowOf, Tables
  <2> QED BY <2>2, <2>3, <2>4
<1>4. \A m \in t.inserted : m.id = t.id
  BY <1>1 DEF Locked
<1>5. MessagesOf(c, t.id) = {m \in messages : m.streamId = t.target} \cup t.inserted
  BY <1>1, <1>3, <1>4 DEF MessagesOf, Visible
<1>6. Row(c, t.target).id = t.id
  BY <1>1 DEF Row, RowOf
<1>7. rows[t.target].id # 0 => rows[t.target].id = t.id
  BY <1>1 DEF RowOf, Locked
<1> QED BY <1>3, <1>5, <1>6, <1>7

\* Before it updates its stream a transaction sees the version of the table.
LEMMA OwnVersion ==
  ASSUME TInv, SInv, NEW c \in Clients, NEW s \in AllStreams,
         tx[c].pc \notin {"policy", "commit"} \/ s # tx[c].target \/ tx[c].inserted = {}
  PROVE  Row(c, s).version = rows[s].version
BY TxFacts DEF Row, Stage

-----------------------------------------------------------------------------
(***************************************************************************)
(* Every step keeps the streams, as long as nothing is removed             *)
(***************************************************************************)

\* A call.
LEMMA CallAppends ==
  ASSUME TInv, Undisturbed, SInv, NEW c \in Clients, Call(c)
  PROVE  SInv'
<1>1. PICK r \in workload : Become(c, Begin(Fresh(r), 1))
  BY DEF Call
<1>2. /\ calls < MaxCalls /\ calls' = calls + 1 /\ calls \in 0 .. MaxCalls /\ position \in Nat
      /\ UNCHANGED <<workload, rows, messages, nextId, position, acknowledged>>
      /\ nextId \in Nat /\ nextId >= 1 /\ MaxCalls \in Nat
  BY PgStoreAssumption DEF Call, TInv, Shape
<1> DEFINE q == As(r, calls)
           t == Begin(q, 1)
<1>3. /\ q.op = r.op /\ q.maxCount = r.maxCount /\ DOMAIN q.ids = DOMAIN r.ids
      /\ \A i \in DOMAIN r.ids : q.ids[i] = IF r.ids[i] = NewId THEN MadeUp(calls, i) ELSE r.ids[i]
      /\ Fresh(r) = q
  BY <1>2, AsIs
<1>4. IsAppend(q) /\ q.maxCount = 0
  BY <1>3 DEF Undisturbed, NothingRemoved, IsAppend
<1> HIDE DEF q
<1>5. \A i \in DOMAIN q.ids : q.ids[i] \notin Given => q.ids[i] = MadeUp(calls, i)
  <2>1. \A i \in DOMAIN r.ids : r.ids[i] \in Given
    BY DEF Given, GivenIn, ToSet
  <2> QED BY <1>3, <2>1
<1>6. \A i \in DOMAIN q.ids : q.ids[i] \notin Given => \A m \in messages : m.messageId # q.ids[i]
  <2>1. calls \in calls .. MaxCalls
    BY <1>2
  <2> QED BY <1>3, <1>5, <2>1 DEF SInv, Committed, Placed
<1>7. Proper(t, rows, messages, calls')
  <2>1. calls \in 0 .. calls' - 1 /\ calls' \in Nat
    BY <1>2
  <2> QED BY <1>4, <1>6, <2>1, ProperBegin DEF q
<1>8. t \in TxSet
  <2>1. IsCall(Fresh(r))
    BY FreshIsCall
  <2> QED BY <1>2, <1>3, <2>1, BeginInRange, PgStoreAssumption DEF InRange
<1>9. \A d \in Clients \ {c} : Separate(t, tx[d])
  <2> SUFFICES ASSUME NEW d \in Clients \ {c} PROVE Separate(t, tx[d])
    OBVIOUS
  <2>1. t.writes = << >> /\ t.ids = q.ids
    BY <1>4, BeginsAppend
  <2>2. ASSUME NEW i \in DOMAIN q.ids, NEW j \in DOMAIN tx[d].ids, q.ids[i] = tx[d].ids[j],
               q.ids[i] \notin Given
        PROVE  FALSE
    <3>1. tx[d].pc # "idle"
      BY <2>2, TxFacts DEF Appending
    <3>2. PICK p \in workload, k \in 0 .. calls - 1 :
            /\ k \in 0 .. MaxCalls /\ k \in Nat /\ k < calls
            /\ DOMAIN tx[d].ids = DOMAIN p.ids
            /\ \A e \in DOMAIN p.ids :
                 /\ tx[d].ids[e] = IF p.ids[e] = NewId THEN MadeUp(k, e) ELSE p.ids[e]
                 /\ tx[d].ids[e] \in Given <=> p.ids[e] # NewId
      BY <3>1, IdsFrom
    <3>3. tx[d].ids[j] = MadeUp(k, j) /\ q.ids[i] = MadeUp(calls, i)
      BY <1>5, <2>2, <3>2
    <3>4. k = calls
      BY <2>2, <3>3 DEF MadeUp
    <3> QED BY <3>2, <3>4
  <2> HIDE DEF t
  <2> QED BY <2>1, <2>2 DEF Separate
<1>10. Become(c, t)
  BY <1>1, <1>3
<1>11. /\ UNCHANGED <<workload, rows, messages, acknowledged>>
       /\ position' \in Nat /\ position <= position' /\ calls' \in Nat /\ calls <= calls'
  BY <1>2
<1> HIDE DEF t
<1> QED BY <1>7, <1>8, <1>9, <1>10, <1>11, OneProperStep

\* A step that rolls back.
LEMMA RollsBack ==
  ASSUME TInv, Undisturbed, SInv, NEW c \in Clients, tx[c].pc # "idle",
         WrongExpectedVersion(c) \/ Reject(c),
         UNCHANGED <<workload, rows, messages, nextId, calls, acknowledged>>,
         position' \in Nat, position <= position'
  PROVE  SInv'
<1> DEFINE t == tx[c]
<1>1. PICK u : Become(c, u) /\ u \in {Idle, Begin(t.request, t.tries + 1)} /\ (u = Idle \/ t.tries < Tries)
  BY DEF WrongExpectedVersion, Reject
<1>2. /\ t \in TxSet /\ InRange(t, nextId, position) /\ Appending(t) /\ Comes(t, calls)
      /\ Unseen(t, messages) /\ \A d \in Clients \ {c} : Separate(t, tx[d])
  BY TxFacts DEF SInv, Transactions
<1>3. IsAppend(t.request) /\ t.request.maxCount = 0 /\ t.ids = t.request.ids
  BY <1>2 DEF Appending
<1>4. /\ nextId \in Nat /\ nextId >= 1 /\ position \in Nat /\ calls \in Nat /\ Tries \in Nat /\ t.tries \in Nat
  BY <1>2, PgStoreAssumption DEF TInv, Shape, TxSet
<1>5. u \in TxSet /\ Proper(u, rows, messages, calls') /\ \A d \in Clients \ {c} : Separate(u, tx[d])
  <2>1. CASE u = Idle
    BY <1>4, <2>1, IdleInRange, ProperIdle DEF InRange
  <2>2. CASE u # Idle
    <3>1. u = Begin(t.request, t.tries + 1) /\ t.tries + 1 \in Nat /\ t.tries + 1 <= Tries
      BY <1>1, <1>4, <2>2
    <3>2. u \in TxSet
      BY <1>2, <1>4, <3>1, BeginInRange DEF InRange
    <3>3. Proper(u, rows, messages, calls)
      BY <1>2, <1>3, <1>4, <3>1, ProperBegin DEF Comes, Unseen
    <3>4. u.writes = << >> /\ u.ids = t.ids
      BY <1>3, <3>1, BeginsAppend
    <3>5. \A d \in Clients \ {c} : Separate(u, tx[d])
      BY <1>2, <3>4 DEF Separate
    <3> QED BY <3>2, <3>3, <3>5
  <2> QED BY <2>1, <2>2
<1> QED BY <1>1, <1>4, <1>5, OneProperStep

\* ReadMetadata keeps the streams.
LEMMA ReadMetadataAppends ==
  ASSUME TInv, Undisturbed, SInv, NEW c \in Clients, ReadMetadata(c)
  PROVE  SInv'
<1>1. /\ tx[c] \in TxSet /\ tx[c].pc = "metadata" /\ Reads /\ tx[c].inserted = {}
      /\ Locked(tx[c], rows) /\ Stage(tx[c], rows, messages)
  BY TxFacts DEF ReadMetadata, InRange, Early
<1>2. \A m \in Visible(c) : m.maxCount = 0
  BY <1>1 DEF Visible, SInv, Committed, Tables
<1>3. Become(c, [tx[c] EXCEPT !.pc = "create", !.maxCount = 0])
  BY <1>2 DEF ReadMetadata
<1> DEFINE t == [tx[c] EXCEPT !.pc = "create", !.maxCount = 0]
<1>4. t \in TxSet
  BY <1>1 DEF TxSet, Steps
<1>5. /\ t.pc = "create" /\ t.request = tx[c].request /\ t.target = tx[c].target
      /\ t.expected = tx[c].expected /\ t.ids = tx[c].ids /\ t.writes = tx[c].writes
      /\ t.inserted = tx[c].inserted /\ t.deleted = tx[c].deleted /\ t.maxCount = 0
  BY <1>1 DEF TxSet
<1>6. Become(c, t)
  BY <1>3
<1> HIDE DEF t
<1>7. Locked(t, rows)
  BY <1>1, <1>5 DEF Locked
<1>8. Stage(t, rows, messages)
  BY <1>1, <1>5 DEF Stage
<1> QED BY <1>1, <1>4, <1>5, <1>6, <1>7, <1>8, SameCallReads DEF AppendSteps

\* CreateStream keeps the streams: the row is new, and nobody else has written it.
LEMMA CreateStreamAppends ==
  ASSUME TInv, Undisturbed, SInv, NEW c \in Clients, CreateStream(c)
  PROVE  SInv'
<1>1. /\ tx[c] \in TxSet /\ tx[c].pc = "create" /\ tx[c].inserted = {} /\ Appending(tx[c])
      /\ Locked(tx[c], rows) /\ Stage(tx[c], rows, messages) /\ Free(c, tx[c].target)
      /\ Comes(tx[c], calls) /\ Unseen(tx[c], messages) /\ DOMAIN tx[c].writes \subseteq AllStreams
      /\ \A d \in Clients \ {c} : Separate(tx[c], tx[d])
  BY TxFacts DEF CreateStream, InRange, Early, SInv, Transactions
<1>2. CASE Go(c, "read") /\ UNCHANGED nextId
  <2> DEFINE t == [tx[c] EXCEPT !.pc = "read"]
  <2>1. t \in TxSet
    BY <1>1 DEF TxSet, Steps
  <2>2. /\ t.pc = "read" /\ t.request = tx[c].request /\ t.target = tx[c].target
        /\ t.expected = tx[c].expected /\ t.ids = tx[c].ids /\ t.writes = tx[c].writes
        /\ t.inserted = tx[c].inserted /\ t.deleted = tx[c].deleted /\ t.maxCount = tx[c].maxCount
    BY <1>1 DEF TxSet
  <2>3. Become(c, t) /\ Reads
    BY <1>2 DEF Go, CreateStream, Reads
  <2> HIDE DEF t
  <2>4. Locked(t, rows)
    BY <1>1, <2>2 DEF Locked
  <2>5. Stage(t, rows, messages)
    BY <1>1, <2>2 DEF Stage
  <2>6. t.maxCount = 0
    BY <1>1, <2>2 DEF Appending
  <2> QED BY <1>1, <2>1, <2>2, <2>3, <2>4, <2>5, <2>6, SameCallReads DEF AppendSteps
<1>3. CASE ~ (Go(c, "read") /\ UNCHANGED nextId)
  <2> DEFINE s == tx[c].target
             row == [id |-> nextId, version |-> -1, maxCount |-> tx[c].maxCount]
             w == Wrote(tx[c], s, row)
             t == [tx[c] EXCEPT !.pc = "read", !.writes = w]
  <2>1. /\ s \in AllStreams /\ row \in RowSet /\ row.id = nextId /\ row.version = -1 /\ row.maxCount = 0
        /\ nextId \in Nat /\ nextId >= 1 /\ position \in Nat /\ calls \in Nat
    BY <1>1, PgStoreAssumption DEF TxSet, RowSet, Appending, TInv, Shape
  <2>2. /\ Become(c, t) /\ Row(c, s).id = 0
        /\ UNCHANGED <<workload, rows, messages, position, calls, acknowledged>>
    BY <1>3 DEF CreateStream
  <2>3. s \notin DOMAIN tx[c].writes /\ rows[s].id = 0 /\ rows[s].version = -1
    BY <1>1, <2>1, <2>2 DEF Row, Locked, SInv, Committed, Tables
  <2>4. \A d \in Clients \ {c} : s \notin DOMAIN tx[d].writes
    BY <1>1 DEF Free
  <2>5. \A u \in AllStreams : rows[u].id # nextId
    BY <2>1 DEF TInv, Shape, Ranges, IsRow, RowSet
  <2>6. \A d \in Clients : \A u \in DOMAIN tx[d].writes : tx[d].writes[u].id # nextId
    <3> TAKE d \in Clients
    <3>1. tx[d] \in TxSet /\ InRange(tx[d], nextId, position)
      BY TxFacts
    <3>2. PICK S \in SUBSET AllStreams : tx[d].writes \in [S -> RowSet]
      BY <3>1 DEF TxSet, WriteSet
    <3> QED BY <2>1, <3>1, <3>2 DEF InRange, IsRow, RowSet
  <2> HIDE DEF s, row
  <2>7. /\ w \in WriteSet /\ DOMAIN w = DOMAIN tx[c].writes \cup {s} /\ w[s] = row
        /\ \A u \in DOMAIN tx[c].writes \ {s} : w[u] = tx[c].writes[u]
    <3>1. tx[c] \in TxSet /\ s \in AllStreams /\ row \in RowSet
      BY <1>1, <2>1
    <3> QED BY <3>1, WroteIsWrites
  <2> HIDE DEF w
  <2>8. t \in TxSet
    BY <1>1, <2>7 DEF TxSet, Steps
  <2>9. /\ t.pc = "read" /\ t.request = tx[c].request /\ t.target = tx[c].target
        /\ t.expected = tx[c].expected /\ t.ids = tx[c].ids /\ t.writes = w
        /\ t.inserted = tx[c].inserted /\ t.deleted = tx[c].deleted /\ t.maxCount = tx[c].maxCount
    BY <1>1 DEF TxSet
  <2> HIDE DEF t
  <2>10. Appending(t)
    BY <1>1, <2>1, <2>7, <2>9 DEF Appending, AppendSteps
  <2>11. Comes(t, calls) /\ Unseen(t, messages)
    BY <1>1, <2>9 DEF Comes, Unseen
  <2>12. Locked(t, rows)
    <3>1. \A u \in DOMAIN w :
            /\ w[u].id # 0
            /\ rows[u].id # 0 => w[u].id = rows[u].id
            /\ \A v \in AllStreams \ {u} : w[u].id # rows[v].id
            /\ \A v \in DOMAIN w \ {u} : w[u].id # w[v].id
      <4> TAKE u \in DOMAIN w
      <4>1. CASE u = s
        BY <2>1, <2>3, <2>5, <2>6, <2>7, <4>1
      <4>2. CASE u # s
        BY <1>1, <2>1, <2>3, <2>6, <2>7, <4>2 DEF Locked
      <4> QED BY <4>1, <4>2
    <3> QED BY <1>1, <2>9, <3>1 DEF Locked
  <2>13. Stage(t, rows, messages)
    BY <1>1, <2>1, <2>3, <2>7, <2>9 DEF Stage
  <2>14. \A d \in Clients \ {c} : Separate(t, tx[d])
    BY <1>1, <2>1, <2>4, <2>6, <2>7, <2>9 DEF Separate
  <2>15. Proper(t, rows, messages, calls')
    BY <2>2, <2>10, <2>11, <2>12, <2>13 DEF Proper
  <2> QED BY <2>1, <2>2, <2>8, <2>14, <2>15, OneProperStep
<1> QED BY <1>2, <1>3

\* ReadStream keeps the streams: it reads a version that is not above that of the table.
LEMMA ReadStreamAppends ==
  ASSUME TInv, Undisturbed, SInv, NEW c \in Clients, ReadStream(c)
  PROVE  SInv'
<1> DEFINE row == Row(c, tx[c].target)
           found == {m \in MessagesOf(c, row.id) : tx[c].ids # << >> /\ m.messageId = tx[c].ids[1]}
           current == IF tx[c].expected # ExpectedVersionAny THEN tx[c].expected
                      ELSE IF found = {} THEN row.version
                      ELSE (CHOOSE m \in found : TRUE).streamVersion - 1
           v == IF tx[c].ids = << >> THEN tx[c].expected ELSE current
           pc == IF tx[c].expected >= 0 THEN "version"
                 ELSE IF tx[c].ids = << >> THEN "commit" ELSE "insert"
           t == [tx[c] EXCEPT !.id = row.id, !.current = v, !.maxCount = 0, !.pc = pc]
           last == rows[tx[c].target].version
<1>1. /\ tx[c] \in TxSet /\ tx[c].pc = "read" /\ Reads /\ tx[c].inserted = {} /\ tx[c].deleted = {}
      /\ Locked(tx[c], rows) /\ Stage(tx[c], rows, messages) /\ tx[c].target \in AllStreams
      /\ last \in Int /\ last >= -1 /\ tx[c].expected \in Int /\ tx[c].expected >= ExpectedVersionAny
  BY TxFacts DEF ReadStream, InRange, Early, TxSet
<1>2. row \in RowSet /\ row.version = last /\ row = RowOf(tx[c], rows, tx[c].target)
  BY <1>1, Sees, OwnVersion DEF TInv, Row, RowOf
<1>3. found # {} => (CHOOSE m \in found : TRUE) \in found
  OBVIOUS
<1>4. \A m \in found : m.streamVersion \in Nat /\ m.streamVersion <= last
  <2> TAKE m \in found
  <2>1. m \in messages /\ m.id = row.id /\ m.id # 0 /\ m.streamVersion \in Nat /\ m.streamId \in AllStreams
    BY <1>1 DEF MessagesOf, Visible, TInv, Shape, Ranges, IsMessage, MessageSet
  <2>2. m.id = rows[m.streamId].id /\ m.streamVersion <= rows[m.streamId].version
    BY <2>1 DEF SInv, Committed, Tables, Versions
  <2>3. m.streamId = tx[c].target
    BY <1>1, <1>2, <2>1, <2>2 DEF RowOf, Locked, SInv, Committed, Tables
  <2> QED BY <2>1, <2>2, <2>3
<1>5. /\ current \in Int
      /\ current <= last \/ tx[c].expected >= 0
      /\ tx[c].expected # ExpectedVersionAny => current = tx[c].expected
  <2>1. CASE tx[c].expected # ExpectedVersionAny
    BY <1>1, <2>1 DEF ExpectedVersionAny
  <2>2. CASE tx[c].expected = ExpectedVersionAny /\ found = {}
    BY <1>1, <1>2, <2>2
  <2>3. CASE tx[c].expected = ExpectedVersionAny /\ found # {}
    BY <1>1, <1>3, <1>4, <2>3
  <2> QED BY <2>1, <2>2, <2>3
<1>6. Become(c, t)
  BY DEF ReadStream
<1>7. row.id \in Nat
  BY <1>2 DEF RowSet
<1> HIDE DEF row, found, current
<1>8. /\ v \in Int
      /\ pc \in {"version", "commit", "insert"}
      /\ pc = "version" => tx[c].expected >= 0 /\ v = tx[c].expected
      /\ pc = "commit" => tx[c].expected <= last /\ tx[c].ids = << >>
      /\ pc = "insert" => v <= last /\ (tx[c].expected # ExpectedVersionAny => v = tx[c].expected)
  BY <1>1, <1>5 DEF ExpectedVersionAny
<1> HIDE DEF v, pc
<1>9. t \in TxSet
  BY <1>1, <1>7, <1>8 DEF TxSet, Steps
<1>10. /\ t.pc = pc /\ t.request = tx[c].request /\ t.target = tx[c].target
       /\ t.expected = tx[c].expected /\ t.ids = tx[c].ids /\ t.writes = tx[c].writes
       /\ t.inserted = tx[c].inserted /\ t.deleted = tx[c].deleted /\ t.maxCount = 0
       /\ t.id = row.id /\ t.current = v
  BY <1>1 DEF TxSet
<1> HIDE DEF t
<1>11. Locked(t, rows)
  BY <1>1, <1>2, <1>10 DEF Locked, RowOf
<1>12. Stage(t, rows, messages)
  BY <1>1, <1>8, <1>10 DEF Stage, ToInsert, ToCommit
<1> QED BY <1>1, <1>6, <1>8, <1>9, <1>10, <1>11, <1>12, SameCallReads DEF AppendSteps

\* A transaction goes to another step and reads nothing.
LEMMA GoAppends ==
  ASSUME TInv, Undisturbed, SInv, NEW c \in Clients, tx[c].pc \notin {"idle", "metadata", "create", "read"},
         NEW pc \in AppendSteps, Go(c, pc), Reads,
         Stage([tx[c] EXCEPT !.pc = pc], rows, messages)
  PROVE  SInv'
<1> DEFINE t == [tx[c] EXCEPT !.pc = pc]
<1>1. tx[c] \in TxSet /\ Locked(tx[c], rows) /\ Appending(tx[c])
  BY TxFacts
<1>2. t \in TxSet
  BY <1>1 DEF TxSet, AppendSteps, Steps
<1>3. /\ t.pc = pc /\ t.request = tx[c].request /\ t.target = tx[c].target
      /\ t.expected = tx[c].expected /\ t.ids = tx[c].ids /\ t.writes = tx[c].writes
      /\ t.inserted = tx[c].inserted /\ t.deleted = tx[c].deleted /\ t.maxCount = tx[c].maxCount
      /\ t.id = tx[c].id
  BY <1>1 DEF TxSet
<1>4. Become(c, t) /\ Stage(t, rows, messages)
  BY DEF Go
<1> HIDE DEF t
<1>5. Locked(t, rows)
  BY <1>1, <1>3 DEF Locked, RowOf
<1>6. t.maxCount = 0
  BY <1>1, <1>3 DEF Appending
<1> QED BY <1>2, <1>3, <1>4, <1>5, <1>6, SameCallReads

\* CheckVersion keeps the streams: the stream is not behind the version that is expected.
LEMMA CheckVersionAppends ==
  ASSUME TInv, Undisturbed, SInv, NEW c \in Clients, CheckVersion(c)
  PROVE  SInv'
<1>1. /\ tx[c] \in TxSet /\ tx[c].pc = "version" /\ Reads /\ tx[c].inserted = {}
      /\ Stage(tx[c], rows, messages) /\ position \in Nat
      /\ rows[tx[c].target].version \in Int /\ tx[c].expected \in Int
  BY TxFacts DEF CheckVersion, InRange, Early, TxSet
<1>2. CASE WrongExpectedVersion(c)
  BY <1>1, <1>2, RollsBack DEF Reads
<1>3. CASE ~ WrongExpectedVersion(c)
  <2> DEFINE pc == IF tx[c].ids = << >> THEN "commit" ELSE "insert"
             t == [tx[c] EXCEPT !.pc = pc]
  <2>1. /\ tx[c].id # 0 /\ (Row(c, tx[c].target).id = tx[c].id => Row(c, tx[c].target).version >= tx[c].expected)
        /\ Go(c, pc)
    BY <1>3 DEF CheckVersion
  <2>2. Row(c, tx[c].target).id = tx[c].id
    BY <1>1, <2>1, OwnStream
  <2>3. Row(c, tx[c].target).version = rows[tx[c].target].version
    BY <1>1, TxFacts, OwnVersion
  <2>4. tx[c].expected <= rows[tx[c].target].version
    BY <1>1, <2>1, <2>2, <2>3
  <2>5. /\ pc \in {"commit", "insert"} /\ (pc = "commit" => tx[c].ids = << >>)
    OBVIOUS
  <2> HIDE DEF pc
  <2>6. /\ t.pc = pc /\ t.target = tx[c].target /\ t.expected = tx[c].expected /\ t.ids = tx[c].ids
        /\ t.writes = tx[c].writes /\ t.inserted = {} /\ t.current = tx[c].current
    BY <1>1 DEF TxSet
  <2> HIDE DEF t
  <2>7. Stage(t, rows, messages)
    BY <1>1, <2>4, <2>5, <2>6 DEF Stage, ToInsert, ToCommit
  <2> QED BY <1>1, <2>1, <2>5, <2>7, GoAppends DEF t, AppendSteps
<1> QED BY <1>2, <1>3

\* The messages of an insert, and how many of them are new.
LEMMA BatchIs ==
  ASSUME TInv, NEW c \in Clients, tx[c].pc = "insert"
  PROVE  /\ \A i \in DOMAIN tx[c].ids :
              /\ NewMessage(c, i) \in NewMessages(c)
              /\ NewMessage(c, i).streamId = tx[c].target /\ NewMessage(c, i).id = tx[c].id
              /\ NewMessage(c, i).messageId = tx[c].ids[i]
              /\ NewMessage(c, i).streamVersion = tx[c].current + i
              /\ NewMessage(c, i).position = position + i - 1
              /\ NewMessage(c, i).maxCount = tx[c].request.maxCount
         /\ \A m \in NewMessages(c) : \E i \in DOMAIN tx[c].ids : m = NewMessage(c, i)
         /\ NewOnes(c) \subseteq NewMessages(c) /\ Cardinality(NewOnes(c)) \in Nat
         /\ Cardinality(NewOnes(c)) <= Len(tx[c].ids)
         /\ Cardinality(NewOnes(c)) = Len(tx[c].ids) <=> NewOnes(c) = NewMessages(c)
<1> DEFINE t == tx[c]
           f == [i \in DOMAIN t.ids |-> NewMessage(c, i)]
<1>1. t.ids \in Seq(MessageIds) /\ Injective(t.ids)
  BY DEF TInv, Shape, Ranges, TxSet, InRange
<1>2. NewMessages(c) = {NewMessage(c, i) : i \in DOMAIN t.ids} /\ IsFiniteSet(NewMessages(c))
  BY NewMessagesAre
<1>3. \A i \in DOMAIN t.ids :
        /\ NewMessage(c, i).streamId = t.target /\ NewMessage(c, i).id = t.id
        /\ NewMessage(c, i).messageId = t.ids[i]
        /\ NewMessage(c, i).streamVersion = t.current + i
        /\ NewMessage(c, i).position = position + i - 1
        /\ NewMessage(c, i).maxCount = t.request.maxCount
  BY DEF NewMessage
<1> HIDE DEF t
<1>4. DOMAIN t.ids = 1 .. Len(t.ids) /\ Len(t.ids) \in Nat
  BY <1>1
<1>5. Cardinality(NewMessages(c)) = Len(t.ids)
  <2>1. f \in Bijection(DOMAIN t.ids, NewMessages(c))
    <3>1. \A i, j \in DOMAIN t.ids : f[i] = f[j] => i = j
      BY <1>1, <1>3 DEF Injective
    <3>2. f \in [DOMAIN t.ids -> NewMessages(c)]
      BY <1>2
    <3>3. \A m \in NewMessages(c) : \E i \in DOMAIN t.ids : f[i] = m
      BY <1>2
    <3> HIDE DEF f
    <3> QED BY <3>1, <3>2, <3>3 DEF Bijection, Injection, IsInjective, Surjection
  <2>2. IsFiniteSet(DOMAIN t.ids) /\ Cardinality(DOMAIN t.ids) = Len(t.ids)
    BY <1>4, FS_Interval
  <2> QED BY <2>1, <2>2, FS_Bijection DEF ExistsBijection
<1>6. NewOnes(c) \subseteq NewMessages(c)
  BY DEF NewOnes
<1>7. /\ IsFiniteSet(NewOnes(c)) /\ Cardinality(NewOnes(c)) <= Cardinality(NewMessages(c))
      /\ Cardinality(NewOnes(c)) = Cardinality(NewMessages(c)) => NewOnes(c) = NewMessages(c)
  BY <1>2, <1>6, FS_Subset
<1>8. Cardinality(NewOnes(c)) \in Nat
  BY <1>7, FS_CardinalityType
<1> QED BY <1>2, <1>3, <1>5, <1>6, <1>7, <1>8 DEF t

\* All messages are new only if they go right after the last of the stream.
LEMMA AllNewAppends ==
  ASSUME TInv, SInv, NEW c \in Clients, tx[c].pc = "insert", tx[c].id # 0,
         Cardinality(NewOnes(c)) = Len(tx[c].ids),
         NEW t, t.target = tx[c].target, t.ids = tx[c].ids, t.id = tx[c].id,
         t.expected = tx[c].expected, t.inserted = NewOnes(c)
  PROVE  Appended(t, rows, messages)
<1> DEFINE u == tx[c]
           last == rows[u.target].version
<1>1. /\ u \in TxSet /\ InRange(u, nextId, position) /\ Stage(u, rows, messages) /\ u.deleted = {}
      /\ last \in Int /\ last >= -1 /\ last < position /\ position \in Nat /\ u.ids \in Seq(MessageIds)
      /\ u.target \in AllStreams
  BY TxFacts
<1>2. /\ u.current \in Int /\ u.current >= -1 /\ u.current <= last /\ u.ids # << >>
      /\ u.expected # ExpectedVersionAny => u.current = u.expected
  BY <1>1 DEF TxSet, InRange, Stage, ToInsert
<1>3. /\ \A i \in DOMAIN u.ids :
           /\ NewMessage(c, i) \in NewOnes(c)
           /\ NewMessage(c, i).id = u.id
           /\ NewMessage(c, i).messageId = u.ids[i]
           /\ NewMessage(c, i).streamVersion = u.current + i
           /\ NewMessage(c, i).position = position + i - 1
      /\ \A m \in NewOnes(c) : \E i \in DOMAIN u.ids : m = NewMessage(c, i)
  BY BatchIs
<1>4. DOMAIN u.ids = 1 .. Len(u.ids) /\ Len(u.ids) \in Nat /\ 1 \in DOMAIN u.ids
  BY <1>1, <1>2
<1>5. u.current = last
  <2> SUFFICES ASSUME u.current < last PROVE FALSE
    BY <1>1, <1>2
  <2>1. u.current + 1 \in 0 .. last
    BY <1>1, <1>2
  <2>2. PICK m \in messages : m.streamId = u.target /\ m.streamVersion = u.current + 1
    BY <1>1, <2>1 DEF SInv, Committed, Versions
  <2>3. m.id = u.id
    BY <2>2, OwnStream
  <2>4. m \in Visible(c)
    BY <1>1 DEF Visible
  <2>5. Conflict(NewMessage(c, 1), m)
    BY <1>3, <1>4, <2>2, <2>3 DEF Conflict
  <2> QED BY <1>3, <1>4, <2>4, <2>5 DEF NewOnes
<1>6. \A i \in DOMAIN u.ids : i \in Int /\ i >= 1 /\ i <= Len(u.ids)
  BY <1>4
<1>7. \A k \in messages : k.position \in Nat /\ k.position < position
  BY DEF TInv, Shape, Ranges, IsMessage, MessageSet
<1>8. ASSUME NEW m \in NewOnes(c)
      PROVE  /\ m.streamVersion - last \in DOMAIN u.ids /\ m.messageId = u.ids[m.streamVersion - last]
             /\ m.streamVersion <= m.position
             /\ \A k \in messages : k.streamId = u.target => k.position < m.position
             /\ \A k \in NewOnes(c) : k.streamVersion < m.streamVersion => k.position < m.position
  <2>1. PICK i \in DOMAIN u.ids : m = NewMessage(c, i)
    BY <1>3
  <2>2. m.streamVersion = last + i /\ m.position = position + i - 1 /\ m.messageId = u.ids[i]
    BY <1>3, <1>5, <2>1
  <2>3. i \in Int /\ i >= 1 /\ m.streamVersion - last = i
    BY <1>1, <1>6, <2>2
  <2>4. m.streamVersion <= m.position
    BY <1>1, <2>2, <2>3
  <2>5. \A k \in messages : k.position < m.position
    BY <1>1, <1>7, <2>2, <2>3
  <2>6. \A k \in NewOnes(c) : k.streamVersion < m.streamVersion => k.position < m.position
    <3> TAKE k \in NewOnes(c)
    <3>1. PICK j \in DOMAIN u.ids : k = NewMessage(c, j)
      BY <1>3
    <3>2. k.streamVersion = last + j /\ k.position = position + j - 1 /\ j \in Int
      BY <1>3, <1>5, <1>6, <3>1
    <3> QED BY <1>1, <2>2, <2>3, <3>2
  <2> QED BY <2>2, <2>3, <2>4, <2>5, <2>6
<1>9. \A i \in DOMAIN u.ids : \E m \in NewOnes(c) : m.streamVersion = last + i
  BY <1>3, <1>5
<1> HIDE DEF u
<1> QED BY <1>2, <1>5, <1>8, <1>9 DEF Appended, u

\* InsertMessages keeps the streams: what is inserted goes after the last message, or is enforced.
LEMMA InsertMessagesAppends ==
  ASSUME TInv, Undisturbed, SInv, NEW c \in Clients, InsertMessages(c)
  PROVE  SInv'
<1> DEFINE t == AfterInsert(c)
           u == tx[c]
           last == rows[u.target].version
<1>1. /\ u.pc = "insert" /\ position' = position + Len(u.ids)
      /\ UNCHANGED <<workload, rows, messages, nextId, calls, acknowledged>>
      /\ Reject(c) \/ (u.id # 0 /\ Become(c, t))
  BY InsertSteps
<1>2. /\ u \in TxSet /\ InRange(u, nextId, position) /\ Stage(u, rows, messages) /\ Appending(u)
      /\ Comes(u, calls) /\ Unseen(u, messages) /\ Locked(u, rows)
      /\ u.ids \in Seq(MessageIds) /\ position \in Nat /\ u.ids # << >>
      /\ \A d \in Clients \ {c} : Separate(u, tx[d])
  BY <1>1, TxFacts DEF InRange, SInv, Transactions
<1>3. position' \in Nat /\ position <= position' /\ calls \in Nat
  BY <1>1, <1>2, PgStoreAssumption DEF TInv, Shape
<1>4. CASE Reject(c)
  BY <1>1, <1>3, <1>4, RollsBack
<1>5. CASE u.id # 0 /\ Become(c, t)
  <2>1. /\ t \in TxSet
        /\ t.pc \in {"latest", "enforce"} /\ (t.pc = "latest" <=> Cardinality(NewOnes(c)) = Len(u.ids))
        /\ t.request = u.request /\ t.target = u.target
        /\ t.expected = u.expected /\ t.ids = u.ids /\ t.id = u.id
        /\ t.current = u.current /\ t.maxCount = u.maxCount /\ t.writes = u.writes
        /\ t.deleted = u.deleted
        /\ t.inserted = NewOnes(c) /\ t.success = Cardinality(NewOnes(c))
    BY <1>1, AfterInsertIs
  <2>2. /\ \A i \in DOMAIN u.ids :
             /\ NewMessage(c, i).streamId = u.target /\ NewMessage(c, i).id = u.id
             /\ NewMessage(c, i).messageId = u.ids[i]
             /\ NewMessage(c, i).streamVersion = u.current + i
             /\ NewMessage(c, i).maxCount = u.request.maxCount
        /\ \A m \in NewMessages(c) : \E i \in DOMAIN u.ids : m = NewMessage(c, i)
        /\ NewOnes(c) \subseteq NewMessages(c) /\ Cardinality(NewOnes(c)) \in Nat
        /\ Cardinality(NewOnes(c)) <= Len(u.ids) /\ Len(u.ids) \in Nat
    BY <1>1, <1>2, BatchIs
  <2> HIDE DEF t
  <2>3. u.request.maxCount = 0 /\ u.maxCount = 0
    BY <1>1, <1>2 DEF Appending
  <2>4. \A m \in NewOnes(c) : m.streamId = u.target /\ m.id = u.id /\ m.maxCount = 0
    BY <2>2, <2>3
  <2>5. Appending(t)
    BY <1>1, <1>2, <2>1, <2>3, <2>4 DEF Appending, AppendSteps
  <2>6. Comes(t, calls') /\ Unseen(t, messages)
    BY <1>1, <1>2, <2>1 DEF Comes, Unseen
  <2>7. Locked(t, rows)
    BY <1>1, <1>2, <2>1, <2>4 DEF Locked, RowOf
  <2>8. \A d \in Clients \ {c} : Separate(t, tx[d])
    BY <1>2, <2>1 DEF Separate
  <2>9. \A s \in DOMAIN t.writes : t.writes[s].version = rows[s].version
    BY <1>1, <1>2, <2>1 DEF Stage
  <2>10. Stage(t, rows, messages)
    <3>1. CASE t.pc = "latest"
      <4>1. Appended(t, rows, messages)
        BY <1>1, <1>5, <2>1, <3>1, AllNewAppends
      <4> QED BY <2>9, <3>1, <4>1 DEF Stage
    <3>2. CASE t.pc = "enforce"
      <4>1. t.ids # << >> /\ t.id # 0
        BY <1>2, <1>5, <2>1
      <4>2. t.expected >= 0 => t.current = t.expected /\ t.expected <= last
        BY <1>1, <1>2, <2>1 DEF Stage, ToInsert, ExpectedVersionAny
      <4>3. t.success = Cardinality(t.inserted) /\ t.success < Len(t.ids)
        BY <2>1, <2>2, <3>2
      <4>4. \E i \in DOMAIN t.ids : \A m \in t.inserted : m.messageId # t.ids[i]
        <5> SUFFICES ASSUME \A i \in DOMAIN u.ids : \E m \in NewOnes(c) : m.messageId = u.ids[i]
                     PROVE  FALSE
          BY <2>1
        <5>1. \A i \in DOMAIN u.ids : NewMessage(c, i) \in NewOnes(c)
          <6> TAKE i \in DOMAIN u.ids
          <6>1. PICK m \in NewOnes(c) : m.messageId = u.ids[i]
            OBVIOUS
          <6>2. PICK j \in DOMAIN u.ids : m = NewMessage(c, j)
            BY <2>2
          <6>3. i = j
            BY <1>2, <2>2, <6>1, <6>2 DEF InRange, Injective
          <6> QED BY <6>2, <6>3
        <5>2. NewMessages(c) = NewOnes(c)
          BY <2>2, <5>1
        <5>3. Cardinality(NewOnes(c)) = Len(u.ids)
          BY <1>1, <5>2, BatchIs
        <5> QED BY <2>1, <3>2, <5>3
      <4>5. \A m \in t.inserted : m.streamVersion > t.current
        <5> TAKE m \in t.inserted
        <5>1. PICK i \in DOMAIN u.ids : m = NewMessage(c, i)
          BY <2>1, <2>2
        <5>2. i \in Int /\ i >= 1 /\ u.current \in Int
          BY <1>2 DEF TxSet
        <5> QED BY <2>1, <2>2, <5>1, <5>2
      <4>6. ToEnforce(t, rows)
        BY <2>1, <4>1, <4>2, <4>3, <4>4, <4>5 DEF ToEnforce
      <4> QED BY <2>9, <3>2, <4>6 DEF Stage
    <3> QED BY <2>1, <3>1, <3>2
  <2>11. Proper(t, rows, messages, calls')
    BY <2>5, <2>6, <2>7, <2>10 DEF Proper
  <2>12. Become(c, t) /\ calls' \in Nat /\ calls <= calls'
    BY <1>1, <1>3, <1>5
  <2> HIDE DEF u
  <2> QED BY <1>1, <1>3, <2>1, <2>8, <2>11, <2>12, OneProperStep
<1> QED BY <1>1, <1>4, <1>5

\* A message has as many before it, above a version, as the versions say.
LEMMA RankIs ==
  ASSUME TInv, SInv, NEW s \in AllStreams, NEW low \in Int, low >= -1,
         NEW m \in messages, m.streamId = s, m.streamVersion > low
  PROVE  Cardinality({k \in messages : k.streamId = s /\ k.streamVersion > low
                                         /\ k.streamVersion < m.streamVersion})
           = m.streamVersion - low - 1
<1> DEFINE S == {k \in messages : k.streamId = s /\ k.streamVersion > low
                                    /\ k.streamVersion < m.streamVersion}
           I == low + 1 .. m.streamVersion - 1
           f == [k \in S |-> k.streamVersion]
<1>1. /\ messages \in SUBSET MessageSet /\ IsFiniteSet(messages) /\ Keys
      /\ Tables(rows, messages) /\ Versions(rows, messages, position) /\ rows[s].version \in Int
  BY DEF TInv, Shape, SInv, Committed, RowSet
<1>2. m.streamVersion \in Nat /\ m.streamVersion <= rows[s].version
  BY <1>1 DEF MessageSet, Versions
<1>3. S \subseteq messages /\ IsFiniteSet(S)
  BY <1>1, FS_Subset
<1>4. \A k \in S : k.streamVersion \in I
  BY <1>1, <1>2 DEF MessageSet
<1>5. \A k, l \in S : k.streamVersion = l.streamVersion => k = l
  <2> SUFFICES ASSUME NEW k \in S, NEW l \in S, k.streamVersion = l.streamVersion, k # l
               PROVE  FALSE
    OBVIOUS
  <2>1. k.id = l.id
    BY <1>1 DEF Tables
  <2> QED BY <1>1, <2>1 DEF Keys, Apart, Conflict
<1>6. \A v \in I : \E k \in S : k.streamVersion = v
  <2> TAKE v \in I
  <2>1. v \in Int /\ v > low /\ v < m.streamVersion /\ v \in 0 .. rows[s].version
    BY <1>1, <1>2
  <2> QED BY <1>1, <2>1 DEF Versions
<1> HIDE DEF S, I
<1>7. f \in Bijection(S, I)
  <2>1. f \in [S -> I] /\ DOMAIN f = S /\ \A k \in S : f[k] = k.streamVersion
    BY <1>4
  <2> HIDE DEF f
  <2> QED BY <1>5, <1>6, <2>1 DEF Bijection, Injection, IsInjective, Surjection
<1>8. Cardinality(I) = Cardinality(S)
  BY <1>3, <1>7, FS_Bijection DEF ExistsBijection
<1>9. Cardinality(I) = m.streamVersion - low - 1
  BY <1>2, FS_Interval DEF I
<1> QED BY <1>8, <1>9 DEF S

\* The version an idempotent append looks for its messages after, and what it finds there.
Start(c) == IF tx[c].expected = ExpectedVersionEmpty THEN -1 ELSE tx[c].current - tx[c].success
StoredAfter(c) == {m \in MessagesOf(c, tx[c].id) : m.streamVersion > Start(c)}

\* The messages an idempotent append looks for are where they should be.
LEMMA ReplayIsStored ==
  ASSUME TInv, Undisturbed, SInv, NEW c \in Clients, tx[c].pc = "enforce",
         Start(c) >= 0 \/ tx[c].success = 0,
         \A i \in DOMAIN tx[c].ids : \E m \in After(i - 1, StoredAfter(c)) : m.messageId = tx[c].ids[i]
  PROVE  tx[c].expected >= 0 /\ tx[c].inserted = {} /\ WasAppended(tx[c], messages) /\ tx[c].ids # << >>
<1> DEFINE t == tx[c]
           last == rows[t.target].version
           start == Start(c)
           stored == StoredAfter(c)
<1>1. /\ t \in TxSet /\ InRange(t, nextId, position) /\ Stage(t, rows, messages) /\ Appending(t)
      /\ Unseen(t, messages) /\ t.ids \in Seq(MessageIds) /\ t.target \in AllStreams
      /\ last \in Int /\ last >= -1
  BY TxFacts
<1>2. /\ t.ids # << >> /\ t.id # 0
      /\ t.expected >= 0 => t.current = t.expected /\ t.expected <= last
      /\ t.success = Cardinality(t.inserted) /\ t.success < Len(t.ids)
      /\ \E i \in DOMAIN t.ids : \A m \in t.inserted : m.messageId # t.ids[i]
      /\ \A m \in t.inserted : m.streamVersion > t.current
  BY <1>1 DEF Stage, ToEnforce
<1>3. /\ t.expected \in Int /\ t.current \in Int /\ t.success \in Nat /\ IsFiniteSet(t.inserted)
      /\ t.inserted \in SUBSET MessageSet
  BY <1>1 DEF TxSet, InRange
<1>4. MessagesOf(c, t.id) = {m \in messages : m.streamId = t.target} \cup t.inserted
  BY <1>2, OwnStream
<1>5. PICK r \in workload, k \in 0 .. calls - 1 :
        /\ r.op = t.request.op /\ r.stream = t.request.stream /\ r.expected = t.expected
        /\ DOMAIN t.ids = DOMAIN r.ids /\ Len(t.ids) = Len(r.ids)
        /\ \A i \in DOMAIN r.ids :
             /\ t.ids[i] = IF r.ids[i] = NewId THEN MadeUp(k, i) ELSE r.ids[i]
             /\ t.ids[i] \in Given <=> r.ids[i] # NewId
  BY IdsFrom
<1>6. /\ r.expected < 0 => \A i \in DOMAIN r.ids : r.ids[i] = NewId
      /\ (Len(r.ids) > 1 /\ r.ids[1] # NewId) =>
           \A q \in workload : \A j \in DOMAIN q.ids :
             (q.stream = r.stream /\ q.ids[j] = r.ids[1]) => q.expected + j > r.expected
  BY DEF Undisturbed, Orderly
<1>7. t.expected >= 0
  <2> SUFFICES ASSUME t.expected < 0 PROVE FALSE
    BY <1>3
  <2>1. PICK i \in DOMAIN t.ids : \A m \in t.inserted : m.messageId # t.ids[i]
    BY <1>2
  <2>2. PICK m \in After(i - 1, stored) : m.messageId = t.ids[i]
    OBVIOUS
  <2>3. m \in messages
    BY <1>4, <2>1, <2>2 DEF After, StoredAfter
  <2>4. t.ids[i] \notin Given
    BY <1>5, <1>6
  <2> QED BY <1>1, <2>2, <2>3, <2>4 DEF Unseen
<1>8. start = t.expected - t.success /\ stored = {m \in MessagesOf(c, t.id) : m.streamVersion > start}
  BY <1>2, <1>7 DEF ExpectedVersionEmpty, Start, StoredAfter
<1>9. 1 \in DOMAIN t.ids /\ DOMAIN t.ids = 1 .. Len(t.ids) /\ Len(t.ids) \in Nat
  BY <1>1, <1>2
<1>10. \A m \in messages : m.streamVersion \in Nat
  BY DEF TInv, Shape, MessageSet
<1>11. t.success = 0
  <2> SUFFICES ASSUME t.success > 0 PROVE FALSE
    BY <1>3
  <2>1. start \in Int /\ start >= 0 /\ start + 1 <= t.expected /\ start + 1 \in 0 .. last
    BY <1>1, <1>2, <1>3, <1>7, <1>8
  <2>2. PICK m \in After(1 - 1, stored) : m.messageId = t.ids[1]
    BY <1>9
  <2>3. m \in stored /\ Cardinality({l \in stored : l.streamVersion < m.streamVersion}) = 0
    BY <2>2 DEF After
  <2>4. {l \in stored : l.streamVersion < m.streamVersion} = {}
    <3>1. IsFiniteSet(Visible(c))
      BY Sees DEF TInv
    <3>2. {l \in stored : l.streamVersion < m.streamVersion} \subseteq Visible(c)
      BY <1>8 DEF MessagesOf
    <3> QED BY <2>3, <3>1, <3>2, FS_Subset, FS_EmptySet
  <2>5. PICK l \in messages : l.streamId = t.target /\ l.streamVersion = start + 1
    BY <1>1, <2>1 DEF SInv, Committed, Versions
  <2>6. l \in stored
    BY <1>4, <1>8, <2>1, <2>5
  <2>7. m.streamVersion \in Int
    BY <1>3, <1>4, <1>8, <1>10, <2>3 DEF MessageSet
  <2>8. m.streamVersion <= t.expected
    BY <1>3, <2>1, <2>4, <2>5, <2>6, <2>7
  <2>9. m \in messages /\ m.streamId = t.target
    BY <1>2, <1>3, <1>4, <1>7, <1>8, <2>3, <2>7, <2>8
  <2>10. t.ids[1] \in Given
    BY <1>1, <1>9, <2>2, <2>9 DEF Unseen
  <2>11. r.ids[1] # NewId /\ t.ids[1] = r.ids[1] /\ Len(r.ids) > 1
    BY <1>2, <1>3, <1>5, <1>9, <2>10
  <2>12. t.target = r.stream
    <3>1. r.op = "metadata" => r.ids = <<NewId>>
      BY PgStoreAssumption DEF TInv, Shape, IsRequest
    <3>2. r.op # "metadata"
      BY <2>11, <3>1
    <3>3. t.target = Target(t.request)
      BY <1>1 DEF Appending
    <3> QED BY <1>5, <3>2, <3>3 DEF Target
  <2>13. PICK q \in workload : \E j \in DOMAIN q.ids :
           q.stream = m.streamId /\ q.ids[j] = m.messageId /\ m.streamVersion = q.expected + j
    BY <2>2, <2>9, <2>10 DEF SInv, Committed, Placed
  <2>14. PICK j \in DOMAIN q.ids :
           q.stream = m.streamId /\ q.ids[j] = m.messageId /\ m.streamVersion = q.expected + j
    BY <2>13
  <2>15. m.streamVersion > t.expected
    BY <1>5, <1>6, <2>2, <2>9, <2>11, <2>12, <2>14
  <2> QED BY <1>3, <2>7, <2>8, <2>15
<1>12. t.inserted = {}
  BY <1>2, <1>3, <1>11, FS_EmptySet
<1>13. stored = {m \in messages : m.streamId = t.target /\ m.streamVersion > t.expected}
  BY <1>3, <1>4, <1>8, <1>11, <1>12
<1>14. ASSUME NEW i \in DOMAIN t.ids
       PROVE  \E m \in messages : m.streamId = t.target /\ m.messageId = t.ids[i]
                                    /\ m.streamVersion = t.expected + i
  <2>1. PICK m \in After(i - 1, stored) : m.messageId = t.ids[i]
    OBVIOUS
  <2>2. m \in stored /\ Cardinality({l \in stored : l.streamVersion < m.streamVersion}) = i - 1
    BY <2>1 DEF After
  <2>3. {l \in stored : l.streamVersion < m.streamVersion}
          = {l \in messages : l.streamId = t.target /\ l.streamVersion > t.expected
                                /\ l.streamVersion < m.streamVersion}
    BY <1>13
  <2>4. m \in messages /\ m.streamId = t.target /\ m.streamVersion > t.expected
    BY <1>13, <2>2
  <2>5. Cardinality({l \in messages : l.streamId = t.target /\ l.streamVersion > t.expected
                                        /\ l.streamVersion < m.streamVersion})
          = m.streamVersion - t.expected - 1
    BY <1>1, <1>3, <1>7, <2>4, RankIs
  <2>6. m.streamVersion - t.expected - 1 = i - 1
    BY <2>2, <2>3, <2>5
  <2>7. i \in Int /\ m.streamVersion \in Int
    BY <1>9, <1>10, <2>4
  <2>8. m.streamVersion = t.expected + i
    BY <1>3, <2>6, <2>7
  <2> QED BY <2>1, <2>4, <2>8
<1> QED BY <1>2, <1>7, <1>12, <1>14 DEF WasAppended

\* EnforceIdempotentAppend keeps the streams.
LEMMA EnforceAppends ==
  ASSUME TInv, Undisturbed, SInv, NEW c \in Clients, EnforceIdempotentAppend(c)
  PROVE  SInv'
<1>1. /\ tx[c].pc = "enforce" /\ Reads /\ position \in Nat /\ tx[c] \in TxSet
      /\ Stage(tx[c], rows, messages)
  BY TxFacts DEF EnforceIdempotentAppend
<1>2. CASE WrongExpectedVersion(c)
  BY <1>1, <1>2, RollsBack DEF Reads
<1>3. CASE ~ WrongExpectedVersion(c)
  <2>1. /\ Start(c) >= 0 \/ tx[c].success = 0
        /\ \A i \in DOMAIN tx[c].ids : \E m \in After(i - 1, StoredAfter(c)) : m.messageId = tx[c].ids[i]
        /\ Go(c, IF tx[c].expected < 0 THEN "latest" ELSE "replayed")
    BY <1>3 DEF EnforceIdempotentAppend, Start, StoredAfter
  <2>2. tx[c].expected >= 0 /\ tx[c].inserted = {} /\ WasAppended(tx[c], messages) /\ tx[c].ids # << >>
    BY <1>1, <2>1, ReplayIsStored
  <2>3. tx[c].expected \in Int
    BY <1>1 DEF TxSet
  <2>4. Go(c, "replayed")
    BY <2>1, <2>2, <2>3
  <2> DEFINE t == [tx[c] EXCEPT !.pc = "replayed"]
  <2>5. /\ t.pc = "replayed" /\ t.target = tx[c].target /\ t.expected = tx[c].expected /\ t.ids = tx[c].ids
        /\ t.writes = tx[c].writes /\ t.inserted = tx[c].inserted
    BY <1>1 DEF TxSet
  <2> HIDE DEF t
  <2>6. WasAppended(t, messages)
    BY <2>2, <2>5 DEF WasAppended
  <2>7. Stage(t, rows, messages)
    BY <1>1, <2>2, <2>5, <2>6 DEF Stage
  <2> QED BY <1>1, <2>4, <2>7, GoAppends DEF t, AppendSteps
<1> QED BY <1>2, <1>3

\* Replayed keeps the streams.
LEMMA ReplayedAppends ==
  ASSUME TInv, Undisturbed, SInv, NEW c \in Clients, Replayed(c)
  PROVE  SInv'
<1> DEFINE row == IF Row(c, tx[c].target).id = tx[c].id THEN Row(c, tx[c].target) ELSE NoRow
           pc == IF tx[c].request.op = "metadata" THEN "policy" ELSE "commit"
           t == [tx[c] EXCEPT !.pc = pc, !.current = row.version, !.maxCount = row.maxCount]
<1>1. /\ tx[c] \in TxSet /\ tx[c].pc = "replayed" /\ Reads /\ Appending(tx[c]) /\ Locked(tx[c], rows)
      /\ Stage(tx[c], rows, messages) /\ tx[c].target \in AllStreams
  BY TxFacts DEF Replayed
<1>2. row \in RowSet
  BY <1>1, Sees DEF TInv, NoRow, RowSet
<1>3. row.maxCount = 0
  BY <1>1 DEF Row, NoRow, Appending, SInv, Committed, Tables
<1>4. pc \in {"policy", "commit"}
  OBVIOUS
<1>5. Become(c, t)
  BY DEF Replayed
<1> HIDE DEF row, pc
<1>6. t \in TxSet
  BY <1>1, <1>2, <1>4 DEF TxSet, Steps, RowSet
<1>7. /\ t.pc = pc /\ t.request = tx[c].request /\ t.target = tx[c].target
      /\ t.expected = tx[c].expected /\ t.ids = tx[c].ids /\ t.writes = tx[c].writes
      /\ t.inserted = tx[c].inserted /\ t.deleted = tx[c].deleted /\ t.maxCount = 0
      /\ t.id = tx[c].id
  BY <1>1, <1>3 DEF TxSet
<1> HIDE DEF t
<1>8. Locked(t, rows)
  BY <1>1, <1>7 DEF Locked, RowOf
<1>9. Stage(t, rows, messages)
  <2>1. t.inserted = {} /\ t.ids # << >> /\ WasAppended(tx[c], messages)
    BY <1>1, <1>7 DEF Stage
  <2>2. WasAppended(t, messages)
    BY <1>7, <2>1 DEF WasAppended
  <2>3. ToCommit(t, rows, messages)
    BY <2>1, <2>2 DEF ToCommit
  <2>4. \A s \in DOMAIN t.writes : t.writes[s].version = rows[s].version
    BY <1>1, <1>7 DEF Stage
  <2> QED BY <1>4, <1>7, <2>3, <2>4 DEF Stage
<1> QED BY <1>1, <1>4, <1>5, <1>6, <1>7, <1>8, <1>9, SameCallReads DEF AppendSteps

\* ReadLatest keeps the streams: the greatest position is that of the last message inserted.
LEMMA ReadLatestAppends ==
  ASSUME TInv, Undisturbed, SInv, NEW c \in Clients, ReadLatest(c)
  PROVE  SInv'
<1> DEFINE last == rows[tx[c].target].version
<1>1. /\ tx[c] \in TxSet /\ tx[c].pc = "latest" /\ Reads /\ Appending(tx[c]) /\ Locked(tx[c], rows)
      /\ Stage(tx[c], rows, messages) /\ position \in Nat /\ tx[c].ids \in Seq(MessageIds)
      /\ last \in Int /\ tx[c].inserted \in SUBSET MessageSet /\ messages \in SUBSET MessageSet
  BY TxFacts DEF ReadLatest, TxSet, TInv, Shape
<1>2. CASE Reject(c)
  BY <1>1, <1>2, RollsBack DEF Reads
<1>3. CASE ~ Reject(c)
  <2>1. PICK latest \in MessagesOf(c, tx[c].id) :
          /\ \A m \in MessagesOf(c, tx[c].id) : m.position <= latest.position
          /\ Become(c, [tx[c] EXCEPT !.pc = "update", !.current = latest.streamVersion])
    BY <1>3 DEF ReadLatest
  <2> DEFINE v == latest.streamVersion
             n == Len(tx[c].ids)
             t == [tx[c] EXCEPT !.pc = "update", !.current = v]
  <2>2. Appended(tx[c], rows, messages)
    BY <1>1 DEF Stage
  <2>3. /\ tx[c].ids # << >> /\ tx[c].id # 0
        /\ \A m \in tx[c].inserted :
             /\ m.streamVersion - last \in DOMAIN tx[c].ids
             /\ \A k \in messages : k.streamId = tx[c].target => k.position < m.position
             /\ \A k \in tx[c].inserted : k.streamVersion < m.streamVersion => k.position < m.position
        /\ \A i \in DOMAIN tx[c].ids : \E m \in tx[c].inserted : m.streamVersion = last + i
    BY <2>2 DEF Appended
  <2>4. n \in Nat /\ DOMAIN tx[c].ids = 1 .. n /\ n \in DOMAIN tx[c].ids
    BY <1>1, <2>3
  <2>5. PICK m \in tx[c].inserted : m.streamVersion = last + n
    BY <2>3, <2>4
  <2>6. MessagesOf(c, tx[c].id) = {k \in messages : k.streamId = tx[c].target} \cup tx[c].inserted
    BY <1>1, <2>3, OwnStream
  <2>7. m.position <= latest.position /\ m.position \in Nat /\ latest.position \in Nat
    BY <1>1, <2>1, <2>5, <2>6 DEF MessageSet
  <2>8. latest \in tx[c].inserted
    BY <2>1, <2>3, <2>5, <2>6, <2>7
  <2>9. v \in Int /\ v - last \in 1 .. n /\ ~ (v < last + n)
    BY <1>1, <2>3, <2>4, <2>5, <2>7, <2>8 DEF MessageSet
  <2>10. v = last + n
    BY <1>1, <2>4, <2>9
  <2>11. Become(c, t)
    BY <2>1
  <2> HIDE DEF v, n
  <2>12. t \in TxSet
    BY <1>1, <2>9 DEF TxSet, Steps
  <2>13. /\ t.pc = "update" /\ t.request = tx[c].request /\ t.target = tx[c].target
         /\ t.expected = tx[c].expected /\ t.ids = tx[c].ids /\ t.writes = tx[c].writes
         /\ t.inserted = tx[c].inserted /\ t.deleted = tx[c].deleted /\ t.maxCount = tx[c].maxCount
         /\ t.id = tx[c].id /\ t.current = v
    BY <1>1 DEF TxSet
  <2> HIDE DEF t
  <2>14. Locked(t, rows) /\ t.maxCount = 0
    BY <1>1, <2>13 DEF Locked, RowOf, Appending
  <2>15. Appended(t, rows, messages)
    BY <2>2, <2>13 DEF Appended
  <2>16. Stage(t, rows, messages)
    BY <1>1, <2>10, <2>13, <2>15 DEF Stage, n
  <2> QED BY <1>1, <2>11, <2>12, <2>13, <2>14, <2>16, SameCallReads DEF AppendSteps
<1> QED BY <1>2, <1>3

\* Transaction t is u with a row that it has written for stream s.
WithRow(t, u, s, row) ==
  /\ DOMAIN t.writes = DOMAIN u.writes \cup {s} /\ t.writes[s] = row
  /\ \A v \in DOMAIN u.writes \ {s} : t.writes[v] = u.writes[v]

\* A transaction writes a row that nobody else has written.
LEMMA WritesRow ==
  ASSUME TInv, SInv, NEW c \in Clients, NEW s \in AllStreams, Free(c, s), NEW row \in RowSet,
         row.id = Row(c, s).id, row.id # 0,
         NEW t, t.writes = Wrote(tx[c], s, row), t.ids = tx[c].ids, t.inserted = tx[c].inserted,
         t.target = tx[c].target, t.id = tx[c].id, t.pc \in {"policy", "commit"},
         tx[c].pc \notin {"idle", "metadata", "create", "read"}
  PROVE  /\ Locked(t, rows) /\ WithRow(t, tx[c], s, row)
         /\ \A d \in Clients \ {c} : Separate(t, tx[d])
<1> DEFINE w == Wrote(tx[c], s, row)
<1>1. tx[c] \in TxSet /\ Locked(tx[c], rows) /\ Tables(rows, messages)
      /\ DOMAIN tx[c].writes \subseteq AllStreams
  BY TxFacts DEF SInv, Committed
<1>2. /\ DOMAIN w = DOMAIN tx[c].writes \cup {s} /\ w[s] = row
      /\ \A u \in DOMAIN tx[c].writes \ {s} : w[u] = tx[c].writes[u]
  BY <1>1, WroteIsWrites
<1> HIDE DEF w
<1>3. t.writes = w
  BY DEF w
<1>4. s \notin DOMAIN tx[c].writes => row.id = rows[s].id
  BY DEF Row
<1>5. s \in DOMAIN tx[c].writes => row.id = tx[c].writes[s].id
  BY DEF Row
<1>6. \A u \in DOMAIN w :
        /\ w[u].id # 0
        /\ rows[u].id # 0 => w[u].id = rows[u].id
        /\ \A v \in AllStreams \ {u} : w[u].id # rows[v].id
        /\ \A v \in DOMAIN w \ {u} : w[u].id # w[v].id
  <2> TAKE u \in DOMAIN w
  <2>1. CASE u = s
    <3>1. CASE s \in DOMAIN tx[c].writes
      BY <1>1, <1>2, <1>5, <2>1, <3>1 DEF Locked
    <3>2. CASE s \notin DOMAIN tx[c].writes
      BY <1>1, <1>2, <1>4, <2>1, <3>2 DEF Locked, Tables
    <3> QED BY <3>1, <3>2
  <2>2. CASE u # s
    <3>1. CASE s \in DOMAIN tx[c].writes
      BY <1>1, <1>2, <1>5, <2>2, <3>1 DEF Locked
    <3>2. CASE s \notin DOMAIN tx[c].writes
      BY <1>1, <1>2, <1>4, <2>2, <3>2 DEF Locked
    <3> QED BY <3>1, <3>2
  <2> QED BY <2>1, <2>2
<1>7. RowOf(tx[c], rows, tx[c].target).id = RowOf(t, rows, t.target).id
  BY <1>2, <1>3, <1>4, <1>5 DEF RowOf
<1>8. Locked(t, rows)
  BY <1>1, <1>3, <1>6, <1>7 DEF Locked
<1>9. ASSUME NEW d \in Clients \ {c} PROVE Separate(t, tx[d])
  <2>1. Separate(tx[c], tx[d]) /\ Locked(tx[d], rows) /\ s \notin DOMAIN tx[d].writes
    BY TxFacts DEF SInv, Transactions, Free
  <2>2. DOMAIN t.writes \cap DOMAIN tx[d].writes = {}
    BY <1>2, <1>3, <2>1 DEF Separate
  <2>3. \A u \in DOMAIN w, v \in DOMAIN tx[d].writes : w[u].id # tx[d].writes[v].id
    <3> TAKE u \in DOMAIN w, v \in DOMAIN tx[d].writes
    <3>1. CASE u \in DOMAIN tx[c].writes
      BY <1>2, <1>5, <2>1, <3>1 DEF Separate
    <3>2. CASE u \notin DOMAIN tx[c].writes
      BY <1>2, <1>4, <2>1, <3>2 DEF Locked
    <3> QED BY <3>1, <3>2
  <2> QED BY <1>3, <2>1, <2>2, <2>3 DEF Separate
<1> QED BY <1>2, <1>3, <1>8, <1>9 DEF WithRow

\* A transaction that writes a row keeps the streams.
LEMMA WritesAppends ==
  ASSUME TInv, Undisturbed, SInv, NEW c \in Clients, tx[c].pc \notin {"idle", "metadata", "create", "read"},
         NEW s \in AllStreams, Free(c, s), NEW row \in RowSet, row.id = Row(c, s).id, row.id # 0,
         row.maxCount = 0, NEW pc \in {"policy", "commit"}, Reads,
         Become(c, [tx[c] EXCEPT !.pc = pc, !.maxCount = 0, !.writes = Wrote(tx[c], s, row)]),
         \A t : ( /\ t.pc = pc /\ t.target = tx[c].target /\ t.ids = tx[c].ids /\ t.id = tx[c].id
                  /\ t.expected = tx[c].expected /\ t.inserted = tx[c].inserted
                  /\ WithRow(t, tx[c], s, row) )
                => Stage(t, rows, messages)
  PROVE  SInv'
<1> DEFINE w == Wrote(tx[c], s, row)
           t == [tx[c] EXCEPT !.pc = pc, !.maxCount = 0, !.writes = w]
<1>1. /\ tx[c] \in TxSet /\ Appending(tx[c]) /\ Comes(tx[c], calls) /\ Unseen(tx[c], messages)
      /\ position \in Nat /\ calls \in Nat
  BY TxFacts, PgStoreAssumption DEF TInv, Shape
<1>2. w \in WriteSet
  BY <1>1, WroteIsWrites
<1>3. Become(c, t)
  OBVIOUS
<1>4. w = Wrote(tx[c], s, row)
  OBVIOUS
<1> HIDE DEF w
<1>5. t \in TxSet
  BY <1>1, <1>2 DEF TxSet, Steps
<1>6. /\ t.pc = pc /\ t.request = tx[c].request /\ t.target = tx[c].target
      /\ t.expected = tx[c].expected /\ t.ids = tx[c].ids /\ t.writes = w
      /\ t.inserted = tx[c].inserted /\ t.deleted = tx[c].deleted /\ t.maxCount = 0
      /\ t.id = tx[c].id
  BY <1>1 DEF TxSet
<1> HIDE DEF t
<1>7. /\ Locked(t, rows) /\ WithRow(t, tx[c], s, row) /\ \A d \in Clients \ {c} : Separate(t, tx[d])
  <2>1. /\ t.writes = Wrote(tx[c], s, row) /\ t.ids = tx[c].ids /\ t.inserted = tx[c].inserted
        /\ t.target = tx[c].target /\ t.id = tx[c].id /\ t.pc \in {"policy", "commit"}
    BY <1>4, <1>6
  <2> QED BY <2>1, WritesRow, Zenon
<1>8. Stage(t, rows, messages)
  BY <1>6, <1>7
<1>9. Appending(t)
  BY <1>1, <1>6, <1>7 DEF Appending, AppendSteps, WithRow
<1>10. Comes(t, calls) /\ Unseen(t, messages)
  BY <1>1, <1>6 DEF Comes, Unseen
<1>11. UNCHANGED <<workload, rows, messages, acknowledged, position, calls>>
  BY DEF Reads
<1>12. Proper(t, rows, messages, calls')
  BY <1>7, <1>8, <1>9, <1>10, <1>11 DEF Proper
<1>13. position' \in Nat /\ position <= position' /\ calls' \in Nat /\ calls <= calls'
  BY <1>1, <1>11
<1> QED BY <1>3, <1>5, <1>7, <1>11, <1>12, <1>13, OneProperStep

\* UpdateStream keeps the streams.
LEMMA UpdateStreamAppends ==
  ASSUME TInv, Undisturbed, SInv, NEW c \in Clients, UpdateStream(c)
  PROVE  SInv'
<1> DEFINE s == tx[c].target
           row == Row(c, s)
           pc == IF tx[c].request.op = "metadata" THEN "policy" ELSE "commit"
           next == [row EXCEPT !.version = tx[c].current]
<1>1. /\ tx[c] \in TxSet /\ tx[c].pc = "update" /\ Reads /\ Appending(tx[c]) /\ Locked(tx[c], rows)
      /\ Stage(tx[c], rows, messages) /\ s \in AllStreams
  BY TxFacts DEF UpdateStream
<1>2. Appended(tx[c], rows, messages) /\ tx[c].current = rows[s].version + Len(tx[c].ids) /\ tx[c].id # 0
  BY <1>1 DEF Stage, Appended
<1>3. row.id = tx[c].id
  BY <1>1, <1>2, OwnStream
<1>4. row \in RowSet /\ row.maxCount = 0
  BY <1>1, Sees DEF TInv, Row, Appending, SInv, Committed, Tables
<1>5. pc \in {"policy", "commit"}
  OBVIOUS
<1>6. /\ Free(c, s)
      /\ Become(c, [[tx[c] EXCEPT !.pc = pc] EXCEPT !.maxCount = row.maxCount, !.writes = Wrote(tx[c], s, next)])
  BY <1>3 DEF UpdateStream
<1> HIDE DEF row, pc
<1>7. /\ next \in RowSet /\ next.id = row.id /\ next.id # 0 /\ next.maxCount = 0
      /\ next.version = rows[s].version + Len(tx[c].ids)
  BY <1>1, <1>2, <1>3, <1>4 DEF RowSet, TxSet
<1> HIDE DEF next
<1>8. Become(c, [tx[c] EXCEPT !.pc = pc, !.maxCount = 0, !.writes = Wrote(tx[c], s, next)])
  BY <1>4, <1>6
<1>9. ASSUME NEW t, t.pc = pc, t.target = s, t.ids = tx[c].ids, t.id = tx[c].id,
             t.expected = tx[c].expected, t.inserted = tx[c].inserted,
             WithRow(t, tx[c], s, next)
      PROVE  Stage(t, rows, messages)
  <2>1. Appended(t, rows, messages)
    BY <1>2, <1>9 DEF Appended
  <2>2. t.inserted # {}
    <3>1. tx[c].ids \in Seq(MessageIds) /\ tx[c].ids # << >>
      BY <1>1, <1>2 DEF TxSet, Appended
    <3>2. 1 \in DOMAIN tx[c].ids
      BY <3>1
    <3> QED BY <1>2, <1>9, <3>2 DEF Appended
  <2>3. ToCommit(t, rows, messages)
    BY <1>7, <1>9, <2>1, <2>2 DEF ToCommit, WithRow
  <2>4. \A u \in DOMAIN t.writes \ {s} : t.writes[u].version = rows[u].version
    BY <1>1, <1>9 DEF Stage, WithRow
  <2> QED BY <1>5, <1>9, <2>2, <2>3, <2>4 DEF Stage, WithRow
<1>10. row.id = Row(c, s).id
  BY DEF row
<1> QED BY <1>1, <1>5, <1>6, <1>7, <1>8, <1>9, <1>10, WritesAppends

\* The policy of the stream is updated.
LEMMA UpdatePolicyAppends ==
  ASSUME TInv, Undisturbed, SInv, NEW c \in Clients, UpdatePolicy(c)
  PROVE  SInv'
<1> DEFINE s == tx[c].request.stream
<1>1. /\ tx[c] \in TxSet /\ tx[c].pc = "policy" /\ Reads /\ Appending(tx[c]) /\ Locked(tx[c], rows)
      /\ Stage(tx[c], rows, messages) /\ DOMAIN tx[c].writes \subseteq AllStreams
      /\ tx[c].target \in AllStreams
  BY TxFacts DEF UpdatePolicy
<1>2. s \in AllStreams /\ tx[c].request.maxCount = 0 /\ ToCommit(tx[c], rows, messages)
  BY <1>1, StreamKinds DEF TxSet, RequestSet, Appending, Stage
<1>3. Row(c, s) \in RowSet
  BY <1>2, Sees DEF TInv
<1>4. CASE Row(c, s).id = 0
  <2> DEFINE t == [tx[c] EXCEPT !.pc = "commit", !.maxCount = 0]
  <2>1. Become(c, t)
    BY <1>2, <1>4 DEF UpdatePolicy
  <2>2. t \in TxSet
    BY <1>1 DEF TxSet, Steps
  <2>3. /\ t.pc = "commit" /\ t.request = tx[c].request /\ t.target = tx[c].target
        /\ t.expected = tx[c].expected /\ t.ids = tx[c].ids /\ t.writes = tx[c].writes
        /\ t.inserted = tx[c].inserted /\ t.deleted = tx[c].deleted /\ t.maxCount = 0
        /\ t.id = tx[c].id
    BY <1>1 DEF TxSet
  <2> HIDE DEF t
  <2>4. Locked(t, rows)
    BY <1>1, <2>3 DEF Locked, RowOf
  <2>5. ToCommit(t, rows, messages)
    BY <1>2, <2>3 DEF ToCommit, Appended, WasAppended
  <2>6. Stage(t, rows, messages)
    BY <1>1, <2>3, <2>5 DEF Stage
  <2> QED BY <1>1, <2>1, <2>2, <2>3, <2>4, <2>6, SameCallReads DEF AppendSteps
<1>5. CASE Row(c, s).id # 0
  <2> DEFINE row == [Row(c, s) EXCEPT !.maxCount = 0]
  <2>1. /\ row \in RowSet /\ row.id = Row(c, s).id /\ row.id # 0 /\ row.maxCount = 0
        /\ row.version = Row(c, s).version
    BY <1>3, <1>5 DEF RowSet
  <2>2. Become(c, [tx[c] EXCEPT !.pc = "commit", !.maxCount = 0, !.writes = Wrote(tx[c], s, row)])
    BY <1>2, <1>5 DEF UpdatePolicy
  <2>3. Free(c, s)
    BY <1>5 DEF UpdatePolicy
  <2> HIDE DEF row
  <2>4. ASSUME NEW t, t.pc = "commit", t.target = tx[c].target, t.ids = tx[c].ids, t.id = tx[c].id,
               t.expected = tx[c].expected, t.inserted = tx[c].inserted,
               WithRow(t, tx[c], s, row)
        PROVE  Stage(t, rows, messages)
    <3>1. tx[c].target \in DOMAIN tx[c].writes => t.writes[tx[c].target].version = tx[c].writes[tx[c].target].version
      BY <2>1, <2>4 DEF Row, WithRow
    <3>2. ToCommit(t, rows, messages)
      BY <1>2, <2>4, <3>1 DEF ToCommit, Appended, WasAppended, WithRow
    <3>3. s # tx[c].target \/ tx[c].inserted = {} => t.writes[s].version = rows[s].version
      BY <1>2, <2>1, <2>4, OwnVersion DEF WithRow
    <3>4. \A u \in DOMAIN t.writes :
            (u = tx[c].target /\ tx[c].inserted # {}) \/ t.writes[u].version = rows[u].version
      BY <1>1, <2>4, <3>3 DEF Stage, WithRow
    <3> QED BY <2>4, <3>2, <3>4 DEF Stage, WithRow
  <2> QED BY <1>1, <1>2, <2>1, <2>2, <2>3, <2>4, WritesAppends
<1> QED BY <1>3, <1>4, <1>5 DEF RowSet

\* No transaction removes anything.
LEMMA RemovesNothing ==
  ASSUME TInv, SInv, NEW c \in Clients
  PROVE  ~ (LocateStream(c) \/ DeleteMessages(c) \/ SelectScavengable(c) \/ DeleteStream(c))
BY TxFacts DEF Appending, AppendSteps, LocateStream, DeleteMessages, SelectScavengable, DeleteStream,
     FindStream, CompareVersion, PurgeMessages, DropStream

\* The connection is lost.
LEMMA LoseConnectionAppends ==
  ASSUME TInv, Undisturbed, SInv, NEW c \in Clients, LoseConnection(c)
  PROVE  SInv'
BY RollsBack DEF LoseConnection, TInv, Shape

-----------------------------------------------------------------------------
(***************************************************************************)
(* A commit keeps the streams, as long as nothing is removed               *)
(***************************************************************************)

\* What a commit does: it writes the rows and the messages of the transaction, of
\* which nothing is left.
LEMMA CommitFacts ==
  ASSUME TInv, Undisturbed, SInv, NEW c \in Clients, Commit(c)
  PROVE  /\ Become(c, Idle) /\ messages' = messages \cup tx[c].inserted
         /\ UNCHANGED <<workload, position, calls>>
         /\ acknowledged' \subseteq acknowledged \cup {tx[c].request}
         /\ rows' \in [AllStreams -> RowSet]
         /\ \A s \in AllStreams : rows'[s] = IF s \in DOMAIN tx[c].writes THEN tx[c].writes[s] ELSE rows[s]
         /\ \A s \in AllStreams : rows[s].id # 0 => rows'[s].id = rows[s].id
         /\ \A s \in AllStreams : (s # tx[c].target \/ tx[c].inserted = {}) => rows'[s].version = rows[s].version
         /\ tx[c].inserted # {} =>
              /\ Appended(tx[c], rows, messages)
              /\ rows'[tx[c].target].version = rows[tx[c].target].version + Len(tx[c].ids)
         /\ tx[c].pc = "commit" /\ ToCommit(tx[c], rows, messages)
<1>1. /\ tx[c].pc = "commit" /\ tx[c] \in TxSet /\ Appending(tx[c]) /\ Locked(tx[c], rows)
      /\ Stage(tx[c], rows, messages) /\ tx[c].target \in AllStreams
  BY TxFacts DEF Commit
<1>2. ToCommit(tx[c], rows, messages)
  BY <1>1 DEF Stage
<1>3. Followed(tx[c]) = Idle
  BY <1>1 DEF Followed, Appending
<1>4. messages' = messages \cup tx[c].inserted
  BY <1>1 DEF Commit, Visible, Appending
<1>5. /\ Become(c, Idle) /\ UNCHANGED <<workload, position, calls>>
      /\ acknowledged' \subseteq acknowledged \cup {tx[c].request}
  BY <1>3 DEF Commit
<1>6. rows' \in [AllStreams -> RowSet]
  BY Sees DEF Commit, TInv
<1>7. \A s \in AllStreams : rows'[s] = IF s \in DOMAIN tx[c].writes THEN tx[c].writes[s] ELSE rows[s]
  BY DEF Commit, Row
<1>8. \A s \in AllStreams : rows[s].id # 0 => rows'[s].id = rows[s].id
  BY <1>1, <1>7 DEF Locked
<1>9. \A s \in AllStreams : (s # tx[c].target \/ tx[c].inserted = {}) => rows'[s].version = rows[s].version
  BY <1>1, <1>7 DEF Stage
<1>10. tx[c].inserted # {} =>
         /\ Appended(tx[c], rows, messages)
         /\ rows'[tx[c].target].version = rows[tx[c].target].version + Len(tx[c].ids)
  BY <1>1, <1>2, <1>7 DEF ToCommit
<1> QED BY <1>1, <1>2, <1>4, <1>5, <1>6, <1>7, <1>8, <1>9, <1>10

\* What is inserted has the next versions of the stream.
LEMMA InsertedIs ==
  ASSUME TInv, SInv, NEW c \in Clients, Appended(tx[c], rows, messages)
  PROVE  LET last == rows[tx[c].target].version IN
         /\ last \in Int /\ last >= -1 /\ Len(tx[c].ids) \in Nat /\ Len(tx[c].ids) >= 1
         /\ DOMAIN tx[c].ids = 1 .. Len(tx[c].ids)
         /\ \A m \in tx[c].inserted :
              /\ m \in MessageSet /\ m.streamVersion - last \in DOMAIN tx[c].ids
              /\ m.streamVersion > last /\ m.streamVersion <= last + Len(tx[c].ids)
              /\ m.messageId = tx[c].ids[m.streamVersion - last]
              /\ m.id # 0 /\ m.streamId = tx[c].target
              /\ m.streamVersion <= m.position /\ m.position < position
         /\ \A i \in DOMAIN tx[c].ids : \E m \in tx[c].inserted :
              m.streamVersion = last + i /\ m.messageId = tx[c].ids[i]
<1> DEFINE last == rows[tx[c].target].version
           n == Len(tx[c].ids)
<1>1. /\ tx[c] \in TxSet /\ InRange(tx[c], nextId, position) /\ Locked(tx[c], rows)
      /\ last \in Int /\ last >= -1 /\ tx[c].ids \in Seq(MessageIds)
      /\ tx[c].inserted \in SUBSET MessageSet
  BY TxFacts DEF TxSet
<1>2. n \in Nat /\ n >= 1 /\ DOMAIN tx[c].ids = 1 .. n
  BY <1>1 DEF Appended
<1>3. \A m \in tx[c].inserted :
        /\ m \in MessageSet /\ m.streamVersion - last \in DOMAIN tx[c].ids
        /\ m.messageId = tx[c].ids[m.streamVersion - last]
        /\ m.id # 0 /\ m.streamId = tx[c].target
        /\ m.streamVersion <= m.position /\ m.position < position
  BY <1>1 DEF Appended, InRange, IsMessage, Locked
<1>4. \A m \in tx[c].inserted : m.streamVersion > last /\ m.streamVersion <= last + n
  <2> TAKE m \in tx[c].inserted
  <2>1. m.streamVersion \in Nat /\ m.streamVersion - last \in 1 .. n
    BY <1>2, <1>3 DEF MessageSet
  <2> QED BY <1>1, <1>2, <2>1
<1>5. ASSUME NEW i \in DOMAIN tx[c].ids
      PROVE  \E m \in tx[c].inserted : m.streamVersion = last + i /\ m.messageId = tx[c].ids[i]
  <2>1. PICK m \in tx[c].inserted : m.streamVersion = last + i
    BY DEF Appended
  <2>2. i \in Int
    BY <1>2
  <2>3. m.streamVersion - last = i
    BY <1>1, <2>1, <2>2
  <2> QED BY <1>3, <2>1, <2>3
<1> QED BY <1>1, <1>2, <1>3, <1>4, <1>5

\* After a commit a message is in the stream of its row.
LEMMA CommitTables ==
  ASSUME TInv, Undisturbed, SInv, NEW c \in Clients, Commit(c)
  PROVE  Tables(rows', messages')
<1> DEFINE t == tx[c]
<1>1. /\ t \in TxSet /\ InRange(t, nextId, position) /\ Appending(t) /\ Locked(t, rows)
      /\ t.target \in AllStreams /\ Tables(rows, messages)
  BY TxFacts DEF SInv, Committed
<1>2. /\ messages' = messages \cup t.inserted /\ t.pc = "commit"
      /\ \A s \in AllStreams : rows'[s] = IF s \in DOMAIN t.writes THEN t.writes[s] ELSE rows[s]
      /\ \A s \in AllStreams : rows[s].id # 0 => rows'[s].id = rows[s].id
  BY CommitFacts
<1>3. \A s \in AllStreams : rows'[s].maxCount = 0 /\ (rows'[s].id = 0 => rows'[s].version = -1)
  BY <1>1, <1>2 DEF Tables, Appending, Locked
<1>4. \A s, u \in AllStreams : (s # u /\ rows'[s].id # 0) => rows'[s].id # rows'[u].id
  <2> SUFFICES ASSUME NEW s \in AllStreams, NEW u \in AllStreams, s # u, rows'[s].id # 0
               PROVE  rows'[s].id # rows'[u].id
    OBVIOUS
  <2>1. CASE s \in DOMAIN t.writes
    BY <1>1, <1>2, <2>1 DEF Locked
  <2>2. CASE s \notin DOMAIN t.writes /\ u \in DOMAIN t.writes
    BY <1>1, <1>2, <2>2 DEF Locked
  <2>3. CASE s \notin DOMAIN t.writes /\ u \notin DOMAIN t.writes
    BY <1>1, <1>2, <2>3 DEF Tables
  <2> QED BY <2>1, <2>2, <2>3
<1>5. \A m \in messages : m.maxCount = 0 /\ m.id = rows'[m.streamId].id
  <2> TAKE m \in messages
  <2>1. m.streamId \in AllStreams /\ m.id \in Nat /\ m.id >= 1
    BY DEF TInv, Shape, Ranges, IsMessage, MessageSet
  <2> QED BY <1>1, <1>2, <2>1 DEF Tables
<1>6. \A m \in t.inserted : m.maxCount = 0 /\ m.id = rows'[m.streamId].id
  <2> TAKE m \in t.inserted
  <2>1. m.maxCount = 0 /\ m.streamId = t.target /\ m.id = t.id
    BY <1>1 DEF Appending, Locked
  <2>2. m.id \in Nat /\ m.id >= 1
    BY <1>1 DEF InRange, IsMessage, TxSet, MessageSet
  <2>3. t.id = RowOf(t, rows, t.target).id
    BY <1>1, <1>2, <2>1, <2>2 DEF Locked
  <2> QED BY <1>1, <1>2, <2>1, <2>3 DEF RowOf
<1> QED BY <1>2, <1>3, <1>4, <1>5, <1>6 DEF Tables

\* After a commit the messages of a stream have the versions up to that of its row.
LEMMA CommitVersions ==
  ASSUME TInv, Undisturbed, SInv, NEW c \in Clients, Commit(c)
  PROVE  Versions(rows', messages', position) /\ \A s \in AllStreams : rows[s].version <= rows'[s].version
<1> DEFINE t == tx[c]
           last == rows[t.target].version
           n == Len(t.ids)
<1>1. /\ Versions(rows, messages, position) /\ position \in Nat /\ messages \in SUBSET MessageSet
      /\ rows \in [AllStreams -> RowSet] /\ t.target \in AllStreams
  BY TxFacts DEF SInv, Committed, TInv, Shape
<1>2. /\ messages' = messages \cup t.inserted
      /\ rows' \in [AllStreams -> RowSet]
      /\ \A s \in AllStreams : (s # t.target \/ t.inserted = {}) => rows'[s].version = rows[s].version
      /\ t.inserted # {} => Appended(t, rows, messages) /\ rows'[t.target].version = last + n
  BY CommitFacts
<1>3. \A m \in messages : m.streamId \in AllStreams /\ m.streamVersion \in Int
  BY <1>1 DEF MessageSet
<1>4. \A s \in AllStreams : rows[s].version \in Int /\ rows'[s].version \in Int
  BY <1>1, <1>2 DEF RowSet
<1>5. CASE t.inserted = {}
  BY <1>1, <1>2, <1>3, <1>4, <1>5 DEF Versions
<1>6. CASE t.inserted # {}
  <2>1. /\ last \in Int /\ last >= -1 /\ n \in Nat /\ n >= 1 /\ DOMAIN t.ids = 1 .. n
        /\ \A m \in t.inserted :
             /\ m \in MessageSet /\ m.streamVersion > last /\ m.streamVersion <= last + n
             /\ m.streamId = t.target /\ m.streamVersion <= m.position /\ m.position < position
        /\ \A i \in DOMAIN t.ids : \E m \in t.inserted : m.streamVersion = last + i
    BY <1>2, <1>6, InsertedIs
  <2>2. /\ \A m \in t.inserted, k \in messages : k.streamId = t.target => k.position < m.position
        /\ \A m, k \in t.inserted : k.streamVersion < m.streamVersion => k.position < m.position
    BY <1>2, <1>6 DEF Appended
  <2>3. rows'[t.target].version = last + n
    BY <1>2, <1>6
  <2>4. \A m \in t.inserted : m.streamVersion \in Int /\ m.position \in Int
    BY <2>1 DEF MessageSet
  <2> HIDE DEF last, n
  <2>5. \A s \in AllStreams : rows[s].version <= rows'[s].version
    BY <1>2, <1>4, <2>1, <2>3 DEF last
  <2>6. \A s \in AllStreams : \A v \in 0 .. rows'[s].version :
          \E m \in messages' : m.streamId = s /\ m.streamVersion = v
    <3> TAKE s \in AllStreams
    <3> TAKE v \in 0 .. rows'[s].version
    <3>1. CASE v <= rows[s].version
      <4>1. v \in 0 .. rows[s].version
        BY <1>4, <3>1
      <4> QED BY <1>1, <1>2, <4>1 DEF Versions
    <3>2. CASE v > rows[s].version
      <4>1. s = t.target
        BY <1>2, <1>4, <3>2
      <4>2. v - last \in 1 .. n /\ last + (v - last) = v
        <5>1. v \in Int /\ v > last /\ v <= last + n
          BY <1>4, <2>3, <3>2, <4>1 DEF last
        <5> QED BY <2>1, <5>1
      <4>3. PICK m \in t.inserted : m.streamVersion = last + (v - last)
        BY <2>1, <4>2
      <4> QED BY <1>2, <2>1, <4>1, <4>2, <4>3
    <3> QED BY <1>4, <3>1, <3>2
  <2>7. \A s \in AllStreams : rows'[s].version < position
    <3> TAKE s \in AllStreams
    <3>1. CASE s # t.target
      BY <1>1, <1>2, <3>1 DEF Versions
    <3>2. CASE s = t.target
      <4>1. n \in DOMAIN t.ids
        BY <2>1
      <4>2. PICK m \in t.inserted : m.streamVersion = last + n
        BY <2>1, <4>1
      <4> QED BY <1>1, <2>1, <2>3, <2>4, <3>2, <4>2
    <3> QED BY <3>1, <3>2
  <2>8. \A m \in messages' : m.streamVersion <= rows'[m.streamId].version /\ m.streamVersion <= m.position
    <3> TAKE m \in messages'
    <3>1. CASE m \in messages
      BY <1>1, <1>3, <1>4, <2>5, <3>1 DEF Versions
    <3>2. CASE m \in t.inserted
      BY <2>1, <2>3, <3>2
    <3> QED BY <1>2, <3>1, <3>2
  <2>9. \A m, k \in messages' :
          (m.streamId = k.streamId /\ m.streamVersion < k.streamVersion) => m.position < k.position
    <3> SUFFICES ASSUME NEW m \in messages', NEW k \in messages', m.streamId = k.streamId,
                        m.streamVersion < k.streamVersion
                 PROVE  m.position < k.position
      OBVIOUS
    <3>1. CASE m \in messages /\ k \in messages
      BY <1>1, <3>1 DEF Versions
    <3>2. CASE m \in messages /\ k \in t.inserted
      BY <2>1, <2>2, <3>2
    <3>3. CASE m \in t.inserted /\ k \in messages
      <4>1. m.streamVersion > last /\ k.streamVersion <= last
        BY <1>1, <2>1, <3>3 DEF Versions, last
      <4> QED BY <1>3, <2>1, <2>4, <3>3, <4>1
    <3>4. CASE m \in t.inserted /\ k \in t.inserted
      BY <2>2, <3>4
    <3> QED BY <1>2, <3>1, <3>2, <3>3, <3>4
  <2> QED BY <2>5, <2>6, <2>7, <2>8, <2>9 DEF Versions
<1> QED BY <1>5, <1>6

\* After a commit the messages with given ids are where the requests put them.
LEMMA CommitPlaced ==
  ASSUME TInv, Undisturbed, SInv, NEW c \in Clients, Commit(c)
  PROVE  Placed(messages', calls)
<1> DEFINE t == tx[c]
           last == rows[t.target].version
<1>1. Placed(messages, calls) /\ calls \in Nat /\ MaxCalls \in Nat /\ calls \in 0 .. MaxCalls
  BY PgStoreAssumption DEF SInv, Committed, TInv, Shape
<1>2. /\ messages' = messages \cup t.inserted /\ t.pc = "commit"
      /\ t.inserted # {} => Appended(t, rows, messages)
  BY CommitFacts
<1>3. ASSUME NEW m \in t.inserted
      PROVE  /\ m.messageId \in Given =>
                  \E q \in workload : \E j \in DOMAIN q.ids :
                    q.stream = m.streamId /\ q.ids[j] = m.messageId /\ m.streamVersion = q.expected + j
             /\ \A q \in workload : \A i \in DOMAIN q.ids, k \in calls .. MaxCalls : m.messageId # MadeUp(k, i)
  <2>1. Appended(t, rows, messages)
    BY <1>2
  <2>2. /\ last \in Int /\ DOMAIN t.ids = 1 .. Len(t.ids)
        /\ m \in MessageSet /\ m.streamVersion - last \in DOMAIN t.ids
        /\ m.messageId = t.ids[m.streamVersion - last] /\ m.streamId = t.target
    BY <2>1, InsertedIs
  <2> DEFINE i == m.streamVersion - last
  <2>3. m.streamVersion \in Int /\ i \in Int /\ m.streamVersion = last + i /\ i \in DOMAIN t.ids
    BY <2>2 DEF MessageSet
  <2>4. PICK r \in workload, n \in 0 .. calls - 1 :
          /\ n \in 0 .. MaxCalls /\ n \in Nat /\ n < calls
          /\ r.op = t.request.op /\ r.stream = t.request.stream /\ r.expected = t.expected
          /\ DOMAIN t.ids = DOMAIN r.ids
          /\ \A e \in DOMAIN r.ids :
               /\ t.ids[e] = IF r.ids[e] = NewId THEN MadeUp(n, e) ELSE r.ids[e]
               /\ t.ids[e] \in Given <=> r.ids[e] # NewId
    BY <1>2, IdsFrom
  <2> HIDE DEF i
  <2>5. m.messageId = t.ids[i] /\ i \in DOMAIN r.ids
    BY <2>2, <2>3, <2>4 DEF i
  <2>6. ASSUME m.messageId \in Given
        PROVE  r.stream = m.streamId /\ r.ids[i] = m.messageId /\ m.streamVersion = r.expected + i
    <3>1. r.ids[i] # NewId /\ r.ids[i] = m.messageId
      BY <2>4, <2>5, <2>6
    <3>2. r.expected >= 0
      <4>1. r.expected < 0 => r.ids[i] = NewId
        BY <2>5 DEF Undisturbed, Orderly
      <4>2. r.expected \in Int
        BY PgStoreAssumption DEF TInv, Shape, IsRequest
      <4> QED BY <3>1, <4>1, <4>2
    <3>3. t.expected = last
      BY <2>1, <2>4, <3>2 DEF Appended, ExpectedVersionAny
    <3>4. r.op # "metadata"
      <4>1. r.op = "metadata" => r.ids = <<NewId>>
        BY PgStoreAssumption DEF TInv, Shape, IsRequest
      <4> QED BY <2>5, <3>1, <4>1
    <3>5. t.target = Target(t.request)
      BY <1>2, TxFacts DEF Appending
    <3>6. t.target = r.stream
      BY <2>4, <3>4, <3>5 DEF Target
    <3> QED BY <2>2, <2>3, <2>4, <3>1, <3>3, <3>6
  <2>7. ASSUME NEW q \in workload, NEW j \in DOMAIN q.ids, NEW k \in calls .. MaxCalls,
               m.messageId = MadeUp(k, j)
        PROVE  FALSE
    <3>1. k \in 0 .. MaxCalls /\ n < k
      BY <1>1, <2>4
    <3>2. MadeUp(k, j) \notin Given /\ \A l, e : MadeUp(l, e) = MadeUp(k, j) => l = k /\ e = j
      BY <3>1, MadeUpOnce
    <3>3. r.ids[i] = NewId /\ m.messageId = MadeUp(n, i)
      BY <2>4, <2>5, <2>7, <3>2
    <3>4. n = k
      BY <2>7, <3>2, <3>3
    <3> QED BY <2>4, <3>1, <3>4
  <2> QED BY <2>5, <2>6, <2>7
<1> QED BY <1>1, <1>2, <1>3 DEF Placed

\* What is acknowledged by a commit is stored.
LEMMA CommitAcknowledged ==
  ASSUME TInv, Undisturbed, SInv, NEW c \in Clients, Commit(c)
  PROVE  Acknowledged(acknowledged', messages', position)
<1> DEFINE t == tx[c]
           r == t.request
           last == rows[t.target].version
<1>1. /\ Acknowledged(acknowledged, messages, position) /\ Appending(t) /\ t \in TxSet
      /\ last \in Int /\ last >= -1 /\ last < position /\ position \in Nat
      /\ InRange(t, nextId, position) /\ t.ids \in Seq(MessageIds) /\ t.target \in AllStreams
      /\ Versions(rows, messages, position)
  BY TxFacts DEF SInv, Committed
<1>2. /\ messages' = messages \cup t.inserted /\ t.pc = "commit" /\ ToCommit(t, rows, messages)
      /\ acknowledged' \subseteq acknowledged \cup {r}
      /\ t.inserted # {} => Appended(t, rows, messages)
  BY CommitFacts
<1>3. /\ t.target = Target(r) /\ t.expected = r.expected /\ t.ids = r.ids
      /\ t.expected \in Int /\ t.expected >= -2
  BY <1>1, <1>2 DEF Appending, TxSet, InRange, ExpectedVersionAny
<1>4. \E v \in -1 .. position :
        /\ t.expected # ExpectedVersionAny => v = t.expected
        /\ \A i \in DOMAIN t.ids : \E m \in messages' :
             m.streamId = t.target /\ m.messageId = t.ids[i] /\ m.streamVersion = v + i
  <2>1. CASE t.inserted # {}
    <3>1. /\ \A m \in t.inserted : m.streamId = t.target
          /\ \A i \in DOMAIN t.ids : \E m \in t.inserted :
               m.streamVersion = last + i /\ m.messageId = t.ids[i]
      BY <1>2, <2>1, InsertedIs
    <3>2. last \in -1 .. position /\ (t.expected # ExpectedVersionAny => last = t.expected)
      BY <1>1, <1>2, <2>1 DEF Appended
    <3> QED BY <1>2, <3>1, <3>2
  <2>2. CASE t.inserted = {} /\ t.ids = << >>
    <3>1. t.expected <= last /\ DOMAIN t.ids = {}
      BY <1>2, <2>2 DEF ToCommit
    <3> DEFINE v == IF t.expected # ExpectedVersionAny THEN t.expected ELSE -1
    <3>2. v \in -1 .. position
      BY <1>1, <1>3, <3>1 DEF ExpectedVersionAny
    <3> QED BY <3>1, <3>2
  <2>3. CASE t.inserted = {} /\ t.ids # << >>
    <3>1. /\ t.expected >= 0
          /\ \A i \in DOMAIN t.ids : \E m \in messages :
               m.streamId = t.target /\ m.messageId = t.ids[i] /\ m.streamVersion = t.expected + i
      BY <1>2, <2>3 DEF ToCommit, WasAppended
    <3>2. 1 \in DOMAIN t.ids
      BY <1>1, <2>3
    <3>3. PICK m \in messages : m.streamId = t.target /\ m.streamVersion = t.expected + 1
      BY <3>1, <3>2
    <3>4. t.expected + 1 <= last
      BY <1>1, <3>3 DEF Versions
    <3>5. t.expected \in -1 .. position
      BY <1>1, <1>3, <3>1, <3>4
    <3> QED BY <1>2, <3>1, <3>5
  <2> QED BY <2>1, <2>2, <2>3
<1> HIDE DEF t, r
<1>5. ASSUME NEW q \in acknowledged'
      PROVE  \E v \in -1 .. position :
               /\ q.expected # ExpectedVersionAny => v = q.expected
               /\ \A i \in DOMAIN q.ids : \E m \in messages' :
                    m.streamId = Target(q) /\ m.messageId = q.ids[i] /\ m.streamVersion = v + i
  <2>1. CASE q \in acknowledged
    BY <1>1, <1>2, <2>1 DEF Acknowledged
  <2>2. CASE q = r
    BY <1>3, <1>4, <2>2
  <2> QED BY <1>2, <2>1, <2>2
<1> QED BY <1>5 DEF Acknowledged

\* Two transactions do not both append to a stream after the same message.
LEMMA OneAppends ==
  ASSUME TInv, SInv, NEW c \in Clients, NEW d \in Clients, c # d,
         tx[c].pc \notin {"idle", "metadata", "create", "read"},
         tx[d].pc \notin {"idle", "metadata", "create", "read"},
         Appended(tx[c], rows, messages), Appended(tx[d], rows, messages)
  PROVE  tx[c].target # tx[d].target
<1> SUFFICES ASSUME tx[c].target = tx[d].target PROVE FALSE
  OBVIOUS
<1> DEFINE s == tx[c].target
           last == rows[s].version
<1>1. /\ tx[c].id # 0 /\ tx[d].id # 0
      /\ tx[c].id = RowOf(tx[c], rows, s).id /\ tx[d].id = RowOf(tx[d], rows, s).id
      /\ Locked(tx[c], rows) /\ Locked(tx[d], rows) /\ Separate(tx[c], tx[d]) /\ s \in AllStreams
  BY TxFacts DEF Locked, Appended, SInv, Transactions
<1>2. tx[c].id = tx[d].id
  BY <1>1 DEF RowOf, Locked, Separate
<1>3. \A e \in {c, d} : 1 \in DOMAIN tx[e].ids
  BY InsertedIs
<1>4. PICK m \in tx[c].inserted : m.streamVersion = last + 1
  BY <1>3 DEF Appended
<1>5. PICK k \in tx[d].inserted : k.streamVersion = last + 1
  BY <1>3 DEF Appended
<1>6. m.id = k.id
  BY <1>1, <1>2 DEF Locked
<1>7. ~ Conflict(m, k)
  BY DEF TInv, Keys, Fits, Apart
<1> QED BY <1>4, <1>5, <1>6, <1>7 DEF Conflict

\* The other transactions are not disturbed.
LEMMA CommitOthers ==
  ASSUME TInv, Undisturbed, SInv, NEW c \in Clients, Commit(c), NEW d \in Clients \ {c}
  PROVE  Proper(tx[d], rows', messages', calls)
<1> DEFINE t == tx[c]
           u == tx[d]
<1>1. /\ u \in TxSet /\ Appending(u) /\ Comes(u, calls) /\ Unseen(u, messages)
      /\ Locked(u, rows) /\ Stage(u, rows, messages) /\ Separate(t, u)
      /\ u.target \in AllStreams /\ DOMAIN u.writes \subseteq AllStreams
  BY TxFacts DEF SInv, Transactions
<1>2. /\ messages' = messages \cup t.inserted /\ t.pc = "commit"
      /\ rows' \in [AllStreams -> RowSet]
      /\ \A s \in AllStreams : rows'[s] = IF s \in DOMAIN t.writes THEN t.writes[s] ELSE rows[s]
      /\ \A s \in AllStreams : rows[s].id # 0 => rows'[s].id = rows[s].id
      /\ \A s \in AllStreams : (s # t.target \/ t.inserted = {}) => rows'[s].version = rows[s].version
      /\ t.inserted # {} => Appended(t, rows, messages)
  BY CommitFacts
<1>3. \A s \in DOMAIN u.writes : s \notin DOMAIN t.writes /\ rows'[s] = rows[s]
  BY <1>1, <1>2 DEF Separate
<1>4. \A m \in t.inserted : m.streamId = t.target
  BY TxFacts DEF Locked
<1>5. rows[u.target].version <= rows'[u.target].version
  BY <1>1, CommitVersions
<1>6. rows[u.target].version \in Int /\ rows'[u.target].version \in Int
  BY <1>1, <1>2, TxFacts DEF RowSet
<1>7. Unseen(u, messages')
  <2> SUFFICES ASSUME NEW i \in DOMAIN u.ids, u.ids[i] \notin Given, NEW m \in messages'
               PROVE  m.messageId # u.ids[i]
    BY DEF Unseen
  <2>1. CASE m \in messages
    BY <1>1, <2>1 DEF Unseen
  <2>2. CASE m \in t.inserted
    <3>1. \E j \in DOMAIN t.ids : m.messageId = t.ids[j]
      BY <1>2, <2>2 DEF Appended
    <3> QED BY <1>1, <3>1 DEF Separate
  <2> QED BY <1>2, <2>1, <2>2
<1>8. Locked(u, rows')
  <2>1. ASSUME NEW s \in DOMAIN u.writes
        PROVE  /\ u.writes[s].id # 0
               /\ rows'[s].id # 0 => u.writes[s].id = rows'[s].id
               /\ \A v \in AllStreams \ {s} : u.writes[s].id # rows'[v].id
               /\ \A v \in DOMAIN u.writes \ {s} : u.writes[s].id # u.writes[v].id
    <3>1. \A v \in AllStreams \ {s} : u.writes[s].id # rows'[v].id
      <4> TAKE v \in AllStreams \ {s}
      <4>1. CASE v \in DOMAIN t.writes
        BY <1>1, <1>2, <4>1 DEF Separate
      <4>2. CASE v \notin DOMAIN t.writes
        BY <1>1, <1>2, <4>2 DEF Locked
      <4> QED BY <4>1, <4>2
    <3> QED BY <1>1, <1>3, <3>1 DEF Locked
  <2>2. (u.pc \notin {"idle", "metadata", "create", "read"} /\ u.id # 0) =>
          u.id = RowOf(u, rows', u.target).id
    BY <1>1, <1>2 DEF Locked, RowOf
  <2> QED BY <1>1, <2>1, <2>2 DEF Locked
<1>9. ASSUME u.pc \notin {"idle", "metadata", "create", "read"}, Appended(u, rows, messages)
      PROVE  Appended(u, rows', messages') /\ rows'[u.target].version = rows[u.target].version
  <2>1. t.inserted = {} \/ t.target # u.target
    BY <1>2, <1>9, OneAppends
  <2>2. rows'[u.target].version = rows[u.target].version
    BY <1>1, <1>2, <2>1
  <2>3. \A k \in messages' : k.streamId = u.target => k \in messages
    BY <1>2, <1>4, <2>1
  <2> QED BY <1>9, <2>2, <2>3 DEF Appended
<1>10. WasAppended(u, messages) => WasAppended(u, messages')
  BY <1>2 DEF WasAppended
<1>11. Stage(u, rows', messages')
  <2>1. u.pc = "insert" => ToInsert(u, rows')
    <3>1. u.current \in Int
      BY <1>1 DEF TxSet
    <3> QED BY <1>1, <1>5, <1>6, <3>1 DEF Stage, ToInsert
  <2>2. u.expected \in Int
    BY <1>1 DEF TxSet
  <2>3. u.pc = "enforce" => ToEnforce(u, rows')
    BY <1>1, <1>5, <1>6, <2>2 DEF Stage, ToEnforce
  <2>4. u.pc = "replayed" => u.inserted = {} /\ WasAppended(u, messages') /\ u.ids # << >>
    BY <1>1, <1>10 DEF Stage
  <2>5. u.pc \in {"latest", "update"} => Appended(u, rows', messages')
    BY <1>1, <1>9 DEF Stage
  <2>6. u.pc = "update" => u.current = rows'[u.target].version + Len(u.ids)
    BY <1>1, <1>9 DEF Stage
  <2>7. u.pc \in {"policy", "commit"} => ToCommit(u, rows', messages')
    <3> SUFFICES ASSUME u.pc \in {"policy", "commit"} PROVE ToCommit(u, rows', messages')
      OBVIOUS
    <3>1. ToCommit(u, rows, messages)
      BY <1>1 DEF Stage
    <3>2. CASE u.inserted # {}
      BY <1>9, <3>1, <3>2 DEF ToCommit
    <3>3. CASE u.inserted = {}
      BY <1>5, <1>6, <1>10, <2>2, <3>1, <3>3 DEF ToCommit
    <3> QED BY <3>2, <3>3
  <2>8. \A s \in DOMAIN u.writes :
          \/ u.pc \in {"policy", "commit"} /\ s = u.target /\ u.inserted # {}
          \/ u.writes[s].version = rows'[s].version
    BY <1>1, <1>3 DEF Stage
  <2>9. /\ u.pc \in {"metadata", "create"} => u.expected < 0
        /\ u.pc = "version" => u.expected >= 0 /\ u.current = u.expected
    BY <1>1 DEF Stage
  <2> QED BY <2>1, <2>3, <2>4, <2>5, <2>6, <2>7, <2>8, <2>9 DEF Stage
<1> QED BY <1>1, <1>7, <1>8, <1>11 DEF Proper

\* A commit keeps the streams.
LEMMA CommitAppends ==
  ASSUME TInv, Undisturbed, SInv, NEW c \in Clients, Commit(c)
  PROVE  SInv'
<1>1. /\ Become(c, Idle) /\ UNCHANGED <<workload, position, calls>>
      /\ tx \in [Clients -> TxSet]
  BY CommitFacts DEF TInv, Shape
<1>2. tx'[c] = Idle /\ \A d \in Clients \ {c} : tx'[d] = tx[d]
  BY <1>1 DEF Become
<1>3. Tables(rows, messages)' /\ Versions(rows, messages, position)'
  BY <1>1, CommitTables, CommitVersions
<1>4. Placed(messages, calls)' /\ Acknowledged(acknowledged, messages, position)'
  <2>1. Placed(messages', calls) /\ Acknowledged(acknowledged', messages', position)
    BY CommitPlaced, CommitAcknowledged
  <2> QED BY <1>1, <2>1 DEF Placed, Given, Acknowledged
<1>5. ASSUME NEW d \in Clients PROVE Proper(tx[d], rows, messages, calls)'
  <2>1. Proper(tx'[d], rows', messages', calls)
    BY <1>2, ProperIdle, CommitOthers
  <2> QED BY <1>1, <2>1 DEF Proper, Comes, Unseen, Given
<1>6. ASSUME NEW d \in Clients, NEW e \in Clients, d # e PROVE Separate(tx[d], tx[e])'
  <2>1. Separate(tx'[d], tx'[e])
    <3>1. \A u : Separate(Idle, u) /\ Separate(u, Idle)
      BY ProperIdle, Zenon
    <3>2. d # c /\ e # c => Separate(tx[d], tx[e])
      BY <1>6 DEF SInv, Transactions
    <3> QED BY <1>2, <3>1, <3>2
  <2> QED BY <1>1, <2>1 DEF Separate, Given
<1> QED BY <1>3, <1>4, <1>5, <1>6 DEF SInv, Committed, Transactions

-----------------------------------------------------------------------------
(***************************************************************************)
(* The streams, as long as nothing is removed: theorems                    *)
(***************************************************************************)

\* The streams are in order at first, and every step keeps them.
LEMMA StreamsInit ==
  ASSUME Init
  PROVE  SInv
<1>1. /\ rows = [s \in AllStreams |-> NoRow] /\ messages = {} /\ acknowledged = {} /\ position = 0
      /\ \A c \in Clients : tx[c] = Idle
  BY DEF Init
<1>2. Tables(rows, messages)
  BY <1>1 DEF Tables, NoRow
<1>3. Versions(rows, messages, position)
  BY <1>1 DEF Versions, NoRow
<1>4. Placed(messages, calls) /\ Acknowledged(acknowledged, messages, position)
  BY <1>1 DEF Placed, Acknowledged
<1>5. Transactions
  BY <1>1, ProperIdle DEF Transactions
<1> QED BY <1>2, <1>3, <1>4, <1>5 DEF SInv, Committed

\* Every step keeps the streams, as long as nothing is removed.
LEMMA StreamsNext ==
  ASSUME TInv, Undisturbed, SInv, [Next]_vars
  PROVE  SInv'
<1>1. CASE UNCHANGED vars
  BY <1>1 DEF vars, SInv, Committed, Transactions, Proper, Placed, Given, Comes, Unseen, Separate
<1>2. ASSUME NEW c \in Clients, AppendToStream(c) PROVE SInv'
  BY <1>2, ReadMetadataAppends, CreateStreamAppends, ReadStreamAppends, CheckVersionAppends,
     InsertMessagesAppends, EnforceAppends, ReplayedAppends, ReadLatestAppends,
     UpdateStreamAppends, UpdatePolicyAppends, Zenon DEF AppendToStream
<1>3. ASSUME NEW c \in Clients,
             LocateStream(c) \/ DeleteMessages(c) \/ SelectScavengable(c) \/ DeleteStream(c)
      PROVE  SInv'
  BY <1>3, RemovesNothing
<1>4. ASSUME NEW c \in Clients, Call(c) \/ Commit(c) \/ LoseConnection(c) PROVE SInv'
  BY <1>4, CallAppends, CommitAppends, LoseConnectionAppends
<1>5. CASE Next
  BY <1>2, <1>3, <1>4, <1>5, Zenon DEF Next, AppendToStream, DeleteStream
<1> QED BY <1>1, <1>5

\* What a step does to the tables, and to what the clients ask for.
LEMMA StepTables ==
  ASSUME Next
  PROVE  workload' = workload /\ (UNCHANGED <<rows, messages>> \/ \E c \in Clients : Commit(c))
<1>1. ASSUME NEW c \in Clients, AppendToStream(c)
      PROVE  UNCHANGED <<workload, rows, messages>>
  BY <1>1 DEF AppendToStream, ReadMetadata, CreateStream, ReadStream, CheckVersion, InsertMessages,
     EnforceIdempotentAppend, Replayed, ReadLatest, UpdateStream, UpdatePolicy, Reads
<1>2. ASSUME NEW c \in Clients,
             LocateStream(c) \/ DeleteMessages(c) \/ SelectScavengable(c) \/ DeleteStream(c)
      PROVE  UNCHANGED <<workload, rows, messages>>
  BY <1>2 DEF LocateStream, DeleteMessages, SelectScavengable, DeleteStream, FindStream, CompareVersion,
     PurgeMessages, DropStream, Reads
<1>3. ASSUME NEW c \in Clients, Call(c) \/ LoseConnection(c)
      PROVE  UNCHANGED <<workload, rows, messages>>
  BY <1>3 DEF Call, LoseConnection
<1>4. ASSUME NEW c \in Clients, Commit(c)
      PROVE  workload' = workload
  BY <1>4 DEF Commit
<1> QED BY <1>1, <1>2, <1>3, <1>4, Zenon DEF Next, AppendToStream, DeleteStream

\* The invariant of the streams, for the workloads that only append.
THEOREM StreamsInvariance == Spec => []IInv
<1>1. Init => IInv
  BY TInvInit, StreamsInit DEF IInv
<1>2. IInv /\ [Next]_vars => IInv'
  <2> SUFFICES ASSUME IInv, [Next]_vars PROVE IInv'
    OBVIOUS
  <2>1. TInv'
    BY TInvNext DEF IInv
  <2>2. ASSUME Undisturbed' PROVE SInv'
    <3>1. Undisturbed
      <4>1. workload' = workload
        BY StepTables DEF vars
      <4> QED BY <2>2, <4>1 DEF Undisturbed, NothingRemoved, Orderly
    <3> QED BY <3>1, StreamsNext DEF IInv
  <2> QED BY <2>1, <2>2 DEF IInv
<1> QED BY <1>1, <1>2, PTL DEF Spec

\* What the invariant says of a workload that only appends.
LEMMA OnlyAppends ==
  ASSUME RepeatsAreOrderly, IInv, NothingRemoved
  PROVE  TInv /\ SInv /\ Undisturbed
<1>1. TInv /\ workload \in Workloads
  BY DEF IInv, TInv, Shape
<1>2. Undisturbed
  BY <1>1 DEF RepeatsAreOrderly, OnlyAppended, NothingRemoved, Undisturbed
<1> QED BY <1>1, <1>2 DEF IInv

\* A message is in the stream of its row.
LEMMA StoredIs ==
  ASSUME TInv, SInv, NEW s \in AllStreams, rows[s].id # 0
  PROVE  Stored(s) = {m \in messages : m.streamId = s}
<1>1. \A m \in messages : m.streamId \in AllStreams /\ m.id = rows[m.streamId].id
  BY DEF TInv, Shape, MessageSet, SInv, Committed, Tables
<1>2. \A u \in AllStreams \ {s} : rows[s].id # rows[u].id
  BY DEF SInv, Committed, Tables
<1> QED BY <1>1, <1>2 DEF Stored

\* VersionIsLast: when nothing is removed and appends are repeated at a version only, the
\* version of each row is that of the last message, and every version below is there, however
\* the inserts and the updates of several appends interleave.
THEOREM VersionsAreLast ==
  ASSUME RepeatsAreOrderly
  PROVE  Spec => []VersionIsLast
<1>1. IInv => VersionIsLast
  <2> SUFFICES ASSUME IInv, NothingRemoved, NEW s \in AllStreams, rows[s].id # 0
               PROVE  {m.streamVersion : m \in Stored(s)} = 0 .. rows[s].version
    BY DEF VersionIsLast
  <2>1. TInv /\ SInv
    BY OnlyAppends
  <2>2. Versions(rows, messages, position) /\ messages \in SUBSET MessageSet
    BY <2>1 DEF SInv, Committed, TInv, Shape
  <2>3. Stored(s) = {m \in messages : m.streamId = s}
    BY <2>1, StoredIs
  <2>4. rows[s].version \in Int
    BY <2>1 DEF TInv, Shape, RowSet
  <2>5. \A m \in Stored(s) : m.streamVersion \in 0 .. rows[s].version
    BY <2>2, <2>3, <2>4 DEF Versions, MessageSet
  <2>6. \A v \in 0 .. rows[s].version : \E m \in Stored(s) : m.streamVersion = v
    BY <2>2, <2>3 DEF Versions
  <2> QED BY <2>5, <2>6
<1> QED BY <1>1, StreamsInvariance, PTL

\* PositionsInOrder: the positions of a stream's messages are in the order of their versions,
\* although each append takes them from the sequence before it knows that its messages go in.
THEOREM PositionsAreInOrder == Spec => [](Undisturbed => PositionsInOrder)
<1>1. IInv => (Undisturbed => PositionsInOrder)
  <2> SUFFICES ASSUME IInv, Undisturbed, NEW m \in messages, NEW k \in messages, m.id = k.id,
                      m.streamVersion < k.streamVersion
               PROVE  m.position < k.position
    BY DEF PositionsInOrder
  <2>1. TInv /\ SInv
    BY DEF IInv
  <2>2. /\ m.streamId \in AllStreams /\ k.streamId \in AllStreams /\ m.id \in Nat /\ m.id >= 1
        /\ m.id = rows[m.streamId].id /\ k.id = rows[k.streamId].id
    BY <2>1 DEF TInv, Shape, MessageSet, Ranges, IsMessage, SInv, Committed, Tables
  <2>3. m.streamId = k.streamId
    <3>1. rows[m.streamId].id # 0 /\ rows[m.streamId].id = rows[k.streamId].id
      <4>1. m.id # 0
        BY <2>2
      <4> QED BY <2>2, <4>1, Zenon
    <3>2. \A s, u \in AllStreams : (s # u /\ rows[s].id # 0) => rows[s].id # rows[u].id
      BY <2>1 DEF SInv, Committed, Tables
    <3> QED BY <2>2, <3>1, <3>2
  <2> QED BY <2>1, <2>3 DEF SInv, Committed, Versions
<1> QED BY <1>1, StreamsInvariance, PTL

\* ReplayWritesNothing: an append that is answered as a repeat has inserted nothing, so there is
\* no version that its stream would have to be updated to.
THEOREM ReplaysWriteNothing == Spec => [](Undisturbed => ReplayWritesNothing)
<1>1. IInv => (Undisturbed => ReplayWritesNothing)
  BY TxFacts DEF IInv, ReplayWritesNothing, Stage
<1> QED BY <1>1, StreamsInvariance, PTL

\* AcknowledgedIsStored: every append that resolved has its messages in the stream, one after
\* the other and after the version that it expected, whether it wrote them or repeated another.
THEOREM AcknowledgedAreStored ==
  ASSUME RepeatsAreOrderly
  PROVE  Spec => []AcknowledgedIsStored
<1>1. IInv => AcknowledgedIsStored
  <2> SUFFICES ASSUME IInv, NothingRemoved, NEW r \in acknowledged
               PROVE  \E v \in -1 .. position :
                        /\ r.expected # ExpectedVersionAny => v = r.expected
                        /\ \A i \in DOMAIN r.ids : \E m \in Stored(Target(r)) :
                             m.messageId = r.ids[i] /\ m.streamVersion = v + i
    BY DEF AcknowledgedIsStored
  <2>1. TInv /\ SInv
    BY OnlyAppends
  <2>2. PICK v \in -1 .. position :
          /\ r.expected # ExpectedVersionAny => v = r.expected
          /\ \A i \in DOMAIN r.ids : \E m \in messages :
               m.streamId = Target(r) /\ m.messageId = r.ids[i] /\ m.streamVersion = v + i
    BY <2>1 DEF SInv, Committed, Acknowledged
  <2>3. \A m \in messages : m \in Stored(m.streamId)
    BY <2>1 DEF Stored, SInv, Committed, Tables
  <2> QED BY <2>2, <2>3
<1> QED BY <1>1, StreamsInvariance, PTL

\* OnlyAtTheExpectedVersion: an append that commits messages does so at the version that it
\* expected, although the procedure only checks that the stream is not behind it.
THEOREM AppendsAtTheVersion ==
  ASSUME RepeatsAreOrderly
  PROVE  Spec => OnlyAtTheExpectedVersion
<1>1. IInv => (NothingRemoved => \A c \in Clients : AtTheExpectedVersion(c))
  <2> SUFFICES ASSUME IInv, NothingRemoved, NEW c \in Clients, tx[c].pc = "commit",
                      tx[c].request.op = "append", tx[c].request.expected # ExpectedVersionAny,
                      tx[c].inserted # {}
               PROVE  rows[tx[c].request.stream].version = tx[c].request.expected
    BY DEF AtTheExpectedVersion, Commits
  <2>1. TInv /\ SInv
    BY OnlyAppends
  <2>2. Appended(tx[c], rows, messages)
    BY <2>1, TxFacts DEF Stage, ToCommit
  <2>3. tx[c].target = tx[c].request.stream /\ tx[c].expected = tx[c].request.expected
    BY <2>1, TxFacts DEF Appending, Target
  <2> QED BY <2>2, <2>3 DEF Appended
<1>2. IInv /\ [Next]_vars => [NothingRemoved => \A c \in Clients : AtTheExpectedVersion(c)]_vars
  BY <1>1
<1> QED BY <1>2, StreamsInvariance, PTL DEF Spec, OnlyAtTheExpectedVersion

-----------------------------------------------------------------------------
(***************************************************************************)
(* The event log                                                           *)
(***************************************************************************)

\* A message as the log has it.
Shown(m) == [streamId |-> m.streamId, messageId |-> m.messageId,
             streamVersion |-> m.streamVersion, position |-> m.position]

\* A commit appends the messages of its transaction to the log of its stream.
LEMMA CommitAppendsBatch ==
  ASSUME TInv, Undisturbed, SInv, NEW c \in Clients, Commit(c), tx[c].inserted # {}
  PROVE  \E s \in AllStreams : Log!AppendBatch(s)
<1>1. PICK s \in AllStreams : s = tx[c].target
  BY TxFacts
<1> DEFINE t == tx[c]
           last == rows[s].version
           n == Len(t.ids)
           version == [u \in AllStreams |-> IF NothingRemoved THEN rows[u].version ELSE -1]
           live == {Shown(m) : m \in {k \in messages : NothingRemoved}}
           new == {Shown(m) : m \in t.inserted}
<1>2. /\ messages' = messages \cup t.inserted /\ t.pc = "commit" /\ UNCHANGED workload
      /\ \A u \in AllStreams : u # s => rows'[u].version = rows[u].version
      /\ Appended(t, rows, messages) /\ rows'[s].version = last + n
      /\ s = t.target /\ t.deleted = {}
  BY <1>1, CommitFacts, TxFacts
<1>3. /\ last \in Int /\ last >= -1 /\ n \in Nat /\ n >= 1 /\ DOMAIN t.ids = 1 .. n
      /\ \A m \in t.inserted :
           /\ m \in MessageSet /\ m.streamVersion > last /\ m.streamVersion <= last + n
           /\ m.streamId = s
      /\ \A i \in DOMAIN t.ids : \E m \in t.inserted : m.streamVersion = last + i
  BY <1>2, InsertedIs
<1>4. NothingRemoved /\ NothingRemoved'
  BY <1>2 DEF Undisturbed, NothingRemoved
<1>5. live = {Shown(m) : m \in messages} /\ live' = live \cup new
  BY <1>2, <1>4
<1>6. version[s] = last /\ version'[s] = last + n /\ version' = [version EXCEPT ![s] = version'[s]]
  BY <1>2, <1>4
<1>7. \A m \in t.inserted, k \in messages :
        m.position # k.position /\ (k.streamId = s => k.messageId # m.messageId)
  <2> TAKE m \in t.inserted, k \in messages
  <2>1. m.position # k.position /\ ~ Conflict(m, k)
    BY <1>2 DEF TInv, Keys, Fits
  <2>2. m.id = t.id /\ t.id # 0
    BY <1>2, TxFacts DEF Locked, Appended
  <2>3. k.streamId = s => k.id = t.id
    BY <1>2, <2>2, OwnStream
  <2> QED BY <2>1, <2>2, <2>3 DEF Conflict
<1>8. \A m, k \in t.inserted : m # k =>
        /\ k.streamVersion # m.streamVersion /\ k.messageId # m.messageId
        /\ k.streamVersion < m.streamVersion => k.position < m.position
  <2> SUFFICES ASSUME NEW m \in t.inserted, NEW k \in t.inserted, m # k
               PROVE  /\ k.streamVersion # m.streamVersion /\ k.messageId # m.messageId
                      /\ k.streamVersion < m.streamVersion => k.position < m.position
    OBVIOUS
  <2>1. ~ Conflict(m, k)
    BY DEF TInv, Keys, Fits, Apart
  <2>2. m.id = k.id
    BY TxFacts DEF Locked
  <2> QED BY <1>2, <2>1, <2>2 DEF Conflict, Appended
<1> HIDE DEF live, version, new
<1>9. live' \ live = new /\ live \cap live' = live
  <2>1. \A m \in t.inserted : Shown(m) \notin live
    <3> SUFFICES ASSUME NEW m \in t.inserted, NEW k \in messages, Shown(m) = Shown(k) PROVE FALSE
      BY <1>5
    <3>1. m.position = k.position
      BY DEF Shown
    <3> QED BY <1>7, <3>1
  <2> QED BY <1>5, <2>1 DEF new
<1>10. {m.streamVersion : m \in new} = last + 1 .. last + n
  <2>1. ASSUME NEW m \in t.inserted PROVE Shown(m).streamVersion \in last + 1 .. last + n
    <3>1. m.streamVersion \in Int
      BY <1>3 DEF MessageSet
    <3> QED BY <1>3, <3>1 DEF Shown
  <2>2. ASSUME NEW v \in last + 1 .. last + n PROVE \E m \in t.inserted : Shown(m).streamVersion = v
    <3>1. v - last \in 1 .. n /\ last + (v - last) = v
      BY <1>3
    <3>2. PICK m \in t.inserted : m.streamVersion = last + (v - last)
      BY <1>3, <3>1
    <3> QED BY <3>1, <3>2 DEF Shown
  <2> QED BY <2>1, <2>2 DEF new
<1>11. ASSUME NEW m \in new, NEW k \in new \ {m}
       PROVE  /\ k.streamVersion # m.streamVersion
              /\ k.messageId # m.messageId
              /\ k.streamVersion < m.streamVersion => k.position < m.position
  <2>1. PICK m1 \in t.inserted : m = Shown(m1)
    BY DEF new
  <2>2. PICK k1 \in t.inserted : k = Shown(k1)
    BY DEF new
  <2> QED BY <1>8, <2>1, <2>2 DEF Shown
<1>12. ASSUME NEW m \in new, NEW k \in live
       PROVE  k.position # m.position /\ (k.streamId = s => k.messageId # m.messageId)
  <2>1. PICK m1 \in t.inserted : m = Shown(m1)
    BY DEF new
  <2>2. PICK k1 \in messages : k = Shown(k1)
    BY <1>5
  <2> QED BY <1>7, <2>1, <2>2 DEF Shown
<1>13. \A m \in new : m.streamId = s
  BY <1>3 DEF new, Shown
<1>14. /\ {m.streamVersion : m \in live' \ live} = version[s] + 1 .. version'[s]
       /\ \A m \in live' \ live :
            /\ m.streamId = s
            /\ \A k \in (live' \ live) \ {m} :
                 /\ k.streamVersion # m.streamVersion
                 /\ k.messageId # m.messageId
                 /\ k.streamVersion < m.streamVersion => k.position < m.position
            /\ \A k \in live \cap live' :
                 /\ k.position # m.position
                 /\ k.streamId = s => k.messageId # m.messageId
  BY <1>6, <1>9, <1>10, <1>11, <1>12, <1>13
<1>15. version[s] <= version'[s]
  BY <1>3, <1>6
<1>16. Log!IsBatch(s, live' \ live)
  BY <1>14, Zenon DEF Log!IsBatch, version, live, Shown
<1>17. Log!AppendBatch(s)
  BY <1>6, <1>15, <1>16 DEF Log!AppendBatch, version, live, Shown
<1> QED BY <1>17

\* Every other step leaves the log as it is.
LEMMA StepLogs ==
  ASSUME RepeatsAreOrderly, IInv, [Next]_vars
  PROVE  [Log!Next]_(Log!vars)
<1>1. workload' = workload /\ (UNCHANGED <<rows, messages>> \/ \E c \in Clients : Commit(c))
  BY StepTables DEF vars
<1>2. NothingRemoved' = NothingRemoved
  BY <1>1 DEF NothingRemoved
<1>3. CASE ~ NothingRemoved
  BY <1>2, <1>3 DEF Log!vars
<1>4. CASE UNCHANGED <<rows, messages>>
  BY <1>2, <1>4 DEF Log!vars
<1>5. ASSUME NothingRemoved, NEW c \in Clients, Commit(c), tx[c].inserted = {}
      PROVE  UNCHANGED Log!vars
  <2>1. TInv /\ SInv /\ Undisturbed
    BY <1>5, OnlyAppends
  <2>2. messages' = messages /\ \A s \in AllStreams : rows'[s].version = rows[s].version
    BY <1>5, <2>1, CommitFacts
  <2> QED BY <1>2, <2>2 DEF Log!vars
<1>6. ASSUME NothingRemoved, NEW c \in Clients, Commit(c), tx[c].inserted # {}
      PROVE  Log!Next
  <2>1. TInv /\ SInv /\ Undisturbed
    BY <1>6, OnlyAppends
  <2>2. \E s \in AllStreams : Log!AppendBatch(s)
    BY <1>6, <2>1, CommitAppendsBatch
  <2> QED BY <2>2, Zenon DEF Log!Next
<1> QED BY <1>1, <1>3, <1>4, <1>5, <1>6

\* ImplementsLog: as long as nothing is removed and appends are repeated at a version only, each
\* commit is one append to one log, and no other statement shows.
THEOREM Implements ==
  ASSUME RepeatsAreOrderly
  PROVE  Spec => ImplementsLog
<1>1. Init => Log!Init
  <2> SUFFICES ASSUME Init PROVE Log!Init
    OBVIOUS
  <2>1. rows = [s \in AllStreams |-> NoRow] /\ messages = {}
    BY DEF Init
  <2> QED BY <2>1 DEF Log!Init, NoRow
<1>2. IInv /\ [Next]_vars => [Log!Next]_(Log!vars)
  BY StepLogs
<1> QED BY <1>1, <1>2, StreamsInvariance, PTL DEF Spec, ImplementsLog, Log!Spec

-----------------------------------------------------------------------------
(***************************************************************************)
(* The scavenges                                                           *)
(***************************************************************************)

\* The streams of the clients are none of those the store keeps for itself.
ClientStreams == \A s \in Streams : s # DeletedStream /\ \A u \in Streams : s # MetaStream(u)

\* Stream s has the row n, or has it once a transaction commits.
Named(s, n) ==
  rows[s].id = n \/ \E c \in Clients : s \in DOMAIN tx[c].writes /\ tx[c].writes[s].id = n

\* A row is that of one stream and is written by one transaction: it is the row that
\* is there, none, or a new one that no message refers to.
Rows ==
  /\ \A s, u \in AllStreams, n \in Nat : (n # 0 /\ Named(s, n) /\ Named(u, n)) => s = u
  /\ \A c, d \in Clients : c # d => DOMAIN tx[c].writes \cap DOMAIN tx[d].writes = {}
  /\ \A c \in Clients : \A s \in DOMAIN tx[c].writes :
       \/ tx[c].writes[s] = NoRow \/ tx[c].writes[s].id = rows[s].id
       \/ rows[s].id = 0 /\ \A m \in messages : m.id # tx[c].writes[s].id

\* The row that an inserted message refers to stays.
References ==
  \A c \in Clients : \A m \in tx[c].inserted :
    /\ m.streamId = tx[c].target /\ m.id = tx[c].id /\ Row(c, m.streamId).id = m.id
    /\ \A d \in Clients :
         m.streamId \in DOMAIN tx[d].writes => tx[d].writes[m.streamId].id = m.id

\* The statements of append_to_stream in the transaction t.
AppendsTo(t) ==
  /\ t.pc \in AppendSteps
  /\ t.pc \in {"metadata", "create"} => t.expected < 0 /\ DOMAIN t.writes = {}
  /\ t.pc \in {"version", "replayed"} => t.expected >= 0
  /\ (t.pc \in {"read", "version", "insert", "enforce", "replayed"} /\ t.expected >= 0) =>
       DOMAIN t.writes = {}
  /\ (t.pc \in {"insert", "enforce", "latest", "update"} /\ t.target \in DOMAIN t.writes) =>
       t.writes[t.target].id = t.id

\* An append that has written knows the policy of its stream, or has only created it.
KnowsPolicy(t) ==
  IF t.target \in DOMAIN t.writes
  THEN t.maxCount = t.writes[t.target].maxCount \/ (t.inserted = {} /\ t.writes[t.target].id # rows[t.target].id)
  ELSE t.inserted = {}

\* What each kind of call has written.
Course(t) ==
  /\ t.pc \in {"enforce", "latest", "update"} => t.id # 0
  /\ t.request.op \in {"append", "metadata"} => AppendsTo(t)
  /\ t.request.op = "append" =>
       /\ t.target = t.request.stream /\ DOMAIN t.writes \subseteq {t.target}
       /\ t.pc # "policy"
       /\ (t.pc = "read" /\ t.target \in DOMAIN t.writes) => t.writes[t.target].id # rows[t.target].id
       /\ t.pc = "commit" => KnowsPolicy(t)
  /\ t.request.op = "metadata" =>
       /\ t.target = MetaStream(t.request.stream)
       /\ DOMAIN t.writes \subseteq {t.target, t.request.stream}
       /\ t.request.stream \in DOMAIN t.writes =>
            t.pc = "commit" /\ t.maxCount = t.writes[t.request.stream].maxCount
  /\ t.request.op = "delete stream" =>
       /\ t.request.stream # DeletedStream
       /\ t.pc \in {"find", "compare", "purge", "drop"} \cup (AppendSteps \ {"policy"})
       /\ t.pc \in {"find", "compare", "purge", "drop"} =>
            t.target = t.request.stream /\ DOMAIN t.writes = {}
       /\ t.pc \in {"metadata", "create"} => DeletedStream \notin DOMAIN t.writes
       /\ t.pc \in AppendSteps \ {"commit"} => t.target = DeletedStream
       /\ t.inserted # {} => t.target = DeletedStream
       /\ \A s \in DOMAIN t.writes : s = DeletedStream \/ t.writes[s] = NoRow
  /\ t.request.op \in {"delete", "scavenge"} =>
       /\ t.pc \in {"idle", "locate", "select", "delete", "commit"}
       /\ t.request.op = "scavenge" => t.pc \in {"locate", "select"}
       /\ t.request.op = "delete" => t.pc # "select"
       /\ t.target = t.request.stream /\ DOMAIN t.writes = {} /\ t.inserted = {}
       /\ t.pc # "commit" => t.deleted = {}

\* The messages of stream s that its row says are too many.
Excess(s) ==
  {m \in Stored(s) : Cardinality({k \in Stored(s) : k.streamVersion > m.streamVersion}) >= rows[s].maxCount}

\* Transaction t removes them: it has yet to select them, or to delete what was selected.
Removes(t, s) ==
  /\ t.request.stream = s
  /\ \/ /\ t.request.op = "scavenge" /\ t.request.maxCount = rows[s].maxCount
        /\ t.pc = "select" => t.id = rows[s].id
     \/ /\ t.request.op = "delete"
        /\ \/ t.pc = "locate" \/ (t.pc = "delete" /\ t.id = rows[s].id)
        /\ \A m \in Excess(s) : m.messageId \in ToSet(t.ids)
     \/ /\ t.request.op = "delete" /\ t.pc = "commit"
        /\ Excess(s) \subseteq t.deleted

Kept ==
  \A s \in Streams :
    rows[s].maxCount = 0 \/ Excess(s) = {} \/ \E c \in Clients : Removes(tx[c], s)

QInv ==
  /\ TInv /\ Rows /\ References
  /\ \A c \in Clients : Course(tx[c])
  /\ ~ lost => Kept

-----------------------------------------------------------------------------
(***************************************************************************)
(* Lemmas: a step that commits nothing                                     *)
(***************************************************************************)

\* What the invariant says of a transaction.
LEMMA QFacts ==
  ASSUME QInv, NEW c \in Clients
  PROVE  /\ tx[c] \in TxSet /\ InRange(tx[c], nextId, position) /\ Course(tx[c])
         /\ IsCall(tx[c].request) /\ tx[c].request \in RequestSet
         /\ DOMAIN tx[c].writes \subseteq AllStreams /\ tx[c].target \in AllStreams
         /\ \A s \in DOMAIN tx[c].writes : tx[c].writes[s] \in RowSet
         /\ rows \in [AllStreams -> RowSet] /\ nextId \in Nat /\ nextId >= 1
<1>1. /\ tx[c] \in TxSet /\ InRange(tx[c], nextId, position) /\ Course(tx[c])
      /\ rows \in [AllStreams -> RowSet] /\ nextId \in Nat /\ nextId >= 1
  BY DEF QInv, TInv, Shape, Ranges
<1>2. PICK S \in SUBSET AllStreams : tx[c].writes \in [S -> RowSet]
  BY <1>1 DEF TxSet, WriteSet
<1>3. IsCall(tx[c].request) /\ tx[c].request \in RequestSet /\ tx[c].target \in AllStreams
  BY <1>1 DEF InRange, TxSet
<1> QED BY <1>1, <1>2, <1>3

\* The rows that t writes once it goes on from the transaction of c: those it has written,
\* those that are there, none, or one new one of the stream own.
Writes(c, t, own) ==
  \A s \in DOMAIN t.writes :
    \/ /\ s \in DOMAIN tx[c].writes /\ t.writes[s].id = tx[c].writes[s].id
       /\ t.writes[s] = tx[c].writes[s] \/ tx[c].writes[s] # NoRow
    \/ /\ s \notin DOMAIN tx[c].writes /\ Free(c, s)
       /\ \/ t.writes[s].id = rows[s].id
          \/ t.writes[s].id = nextId /\ rows[s].id = 0 /\ s = own
          \/ t.writes[s] = NoRow /\ \A d \in Clients \ {c} : \A m \in tx[d].inserted : m.streamId # s

\* What t inserts refers to its stream, which no other transaction removes.
Inserts(c, t) ==
  \A m \in t.inserted :
    /\ m.streamId = t.target /\ m.id = t.id /\ RowOf(t, rows, m.streamId).id = m.id
    /\ \A d \in Clients \ {c} :
         m.streamId \in DOMAIN tx[d].writes => tx[d].writes[m.streamId].id = m.id

\* What was inserted still refers to its stream.
LEMMA StillInserts ==
  ASSUME QInv, NEW c \in Clients, NEW t, NEW own, Writes(c, t, own),
         \/ t.inserted = {}
         \/ /\ t.inserted = tx[c].inserted /\ t.target = tx[c].target /\ t.id = tx[c].id
            /\ DOMAIN tx[c].writes \subseteq DOMAIN t.writes
            /\ \A s \in DOMAIN t.writes \ DOMAIN tx[c].writes : t.writes[s].id # 0
  PROVE  Inserts(c, t)
<1> SUFFICES ASSUME NEW m \in t.inserted
             PROVE  /\ m.streamId = t.target /\ m.id = t.id /\ RowOf(t, rows, m.streamId).id = m.id
                    /\ \A d \in Clients \ {c} :
                         m.streamId \in DOMAIN tx[d].writes => tx[d].writes[m.streamId].id = m.id
  BY DEF Inserts
<1>1. /\ m.streamId = t.target /\ m.id = t.id /\ Row(c, m.streamId).id = m.id
      /\ \A d \in Clients : m.streamId \in DOMAIN tx[d].writes => tx[d].writes[m.streamId].id = m.id
  BY DEF QInv, References
<1>2. m.id # 0
  <2>1. InRange(tx[c], nextId, position) /\ tx[c] \in TxSet
    BY QFacts
  <2>2. m \in MessageSet /\ m.id >= 1
    BY <2>1 DEF InRange, IsMessage, TxSet
  <2> QED BY <2>2 DEF MessageSet
<1>3. RowOf(t, rows, m.streamId).id = m.id
  <2>1. CASE m.streamId \in DOMAIN tx[c].writes
    BY <1>1, <2>1 DEF Row, RowOf, Writes
  <2>2. CASE m.streamId \notin DOMAIN t.writes
    BY <1>1, <2>2 DEF Row, RowOf
  <2>3. CASE m.streamId \notin DOMAIN tx[c].writes /\ m.streamId \in DOMAIN t.writes
    <3>1. rows[m.streamId].id = m.id
      BY <1>1, <2>3 DEF Row
    <3>2. t.writes[m.streamId].id = rows[m.streamId].id
      BY <1>1, <1>2, <2>3, <3>1 DEF Writes, NoRow
    <3> QED BY <2>3, <3>1, <3>2 DEF RowOf
  <2> QED BY <2>1, <2>2, <2>3
<1> QED BY <1>1, <1>3

\* A row is still that of one stream and written by one transaction.
LEMMA RowsStay ==
  ASSUME QInv, NEW c \in Clients, NEW t, NEW own, Writes(c, t, own), TInv',
         tx'[c] = t, \A d \in Clients \ {c} : tx'[d] = tx[d], UNCHANGED <<rows, messages>>
  PROVE  Rows'
<1>1. /\ nextId \in Nat /\ nextId >= 1 /\ rows \in [AllStreams -> RowSet] /\ t \in TxSet
      /\ \A s \in AllStreams : rows[s].id < nextId
      /\ \A d \in Clients : \A s \in DOMAIN tx[d].writes : tx[d].writes[s].id < nextId
      /\ \A m \in messages : m.id < nextId
  BY DEF QInv, TInv, Shape, Ranges, IsRow, IsMessage, InRange
<1>2. DOMAIN t.writes \subseteq AllStreams
  BY <1>1 DEF TxSet, WriteSet
<1>3. \A s \in AllStreams, n \in Nat \ {0} : Named(s, n)' => Named(s, n) \/ (s = own /\ n = nextId)
  <2> SUFFICES ASSUME NEW s \in AllStreams, NEW n \in Nat \ {0}, Named(s, n)'
               PROVE  Named(s, n) \/ (s = own /\ n = nextId)
    OBVIOUS
  <2>1. CASE rows[s].id = n
    BY <2>1 DEF Named
  <2>2. ASSUME NEW d \in Clients, s \in DOMAIN tx'[d].writes, tx'[d].writes[s].id = n
        PROVE  Named(s, n) \/ (s = own /\ n = nextId)
    <3>1. CASE d # c
      BY <2>2, <3>1 DEF Named
    <3>2. CASE d = c
      BY <2>2, <3>2 DEF Writes, Named, NoRow
    <3> QED BY <3>1, <3>2
  <2> QED BY <2>1, <2>2 DEF Named
<1>4. \A s \in AllStreams : ~ Named(s, nextId)
  BY <1>1 DEF Named, RowSet
<1>5. \A s, u \in AllStreams, n \in Nat : (n # 0 /\ Named(s, n)' /\ Named(u, n)') => s = u
  BY <1>3, <1>4 DEF QInv, Rows
<1>6. \A d, e \in Clients : d # e => DOMAIN tx'[d].writes \cap DOMAIN tx'[e].writes = {}
  <2> SUFFICES ASSUME NEW d \in Clients \ {c} PROVE DOMAIN t.writes \cap DOMAIN tx[d].writes = {}
    BY DEF QInv, Rows
  <2>1. \A s \in DOMAIN t.writes : s \in DOMAIN tx[c].writes \/ Free(c, s)
    BY DEF Writes
  <2> QED BY <2>1 DEF QInv, Rows, Free
<1>7. \A d \in Clients : \A s \in DOMAIN tx'[d].writes :
        \/ tx'[d].writes[s] = NoRow \/ tx'[d].writes[s].id = rows[s].id
        \/ rows[s].id = 0 /\ \A m \in messages : m.id # tx'[d].writes[s].id
  <2> TAKE d \in Clients
  <2> TAKE s \in DOMAIN tx'[d].writes
  <2>1. CASE d # c
    BY <2>1 DEF QInv, Rows
  <2>2. CASE d = c
    <3>1. \A m \in messages : m.id # nextId
      <4>1. messages \in SUBSET MessageSet
        BY DEF QInv, TInv, Shape
      <4> QED BY <1>1, <4>1 DEF MessageSet
    <3> QED BY <2>2, <3>1 DEF Writes, QInv, Rows
  <2> QED BY <2>1, <2>2
<1> QED BY <1>5, <1>6, <1>7 DEF Rows

\* What the others have inserted still refers to their streams.
LEMMA ReferencesStay ==
  ASSUME QInv, NEW c \in Clients, NEW t, NEW own, Writes(c, t, own), Inserts(c, t),
         tx'[c] = t, \A d \in Clients \ {c} : tx'[d] = tx[d], UNCHANGED rows
  PROVE  References'
<1> SUFFICES ASSUME NEW e \in Clients, NEW m \in tx'[e].inserted
             PROVE  /\ m.streamId = tx'[e].target /\ m.id = tx'[e].id /\ Row(e, m.streamId)'.id = m.id
                    /\ \A d \in Clients :
                         m.streamId \in DOMAIN tx'[d].writes => tx'[d].writes[m.streamId].id = m.id
  BY DEF References
<1>1. CASE e = c
  BY <1>1 DEF Inserts, Row, RowOf
<1>2. CASE e # c
  <2>1. /\ m \in tx[e].inserted /\ m.streamId = tx[e].target /\ m.id = tx[e].id
        /\ Row(e, m.streamId).id = m.id
        /\ \A d \in Clients : m.streamId \in DOMAIN tx[d].writes => tx[d].writes[m.streamId].id = m.id
    BY <1>2 DEF QInv, References
  <2>2. m.id # 0
    <3>1. InRange(tx[e], nextId, position) /\ tx[e] \in TxSet
      BY QFacts
    <3>2. m \in MessageSet /\ m.id >= 1
      BY <2>1, <3>1 DEF InRange, IsMessage, TxSet
    <3> QED BY <3>2 DEF MessageSet
  <2>3. m.streamId \in DOMAIN t.writes => t.writes[m.streamId].id = m.id
    <3> SUFFICES ASSUME m.streamId \in DOMAIN t.writes, m.streamId \notin DOMAIN tx[c].writes
                 PROVE  t.writes[m.streamId].id = m.id
      BY <2>1 DEF Writes
    <3>1. m.streamId \notin DOMAIN tx[e].writes
      BY <1>2 DEF Writes, Free
    <3>2. rows[m.streamId].id = m.id
      BY <2>1, <3>1 DEF Row
    <3> QED BY <1>2, <2>1, <2>2, <3>2 DEF Writes
  <2> QED BY <1>2, <2>1, <2>3 DEF Row
<1> QED BY <1>1, <1>2

\* A transaction goes on, and removes what it was to remove.
LEMMA GoesOn ==
  ASSUME QInv, NEW c \in Clients, NEW t, NEW own, Become(c, t), TInv', UNCHANGED <<rows, messages>>,
         Writes(c, t, own), Inserts(c, t), Course(t),
         ~ lost' => /\ ~ lost
                    /\ \A s \in Streams : Removes(tx[c], s) => Removes(t, s) \/ Excess(s) = {}
  PROVE  QInv'
<1>1. tx'[c] = t /\ \A d \in Clients \ {c} : tx'[d] = tx[d]
  BY DEF Become, QInv, TInv, Shape
<1>2. Rows' /\ References'
  BY <1>1, RowsStay, ReferencesStay
<1>3. ASSUME NEW d \in Clients PROVE Course(tx[d])'
  <2>1. Course(tx'[d])
    BY <1>1 DEF QInv
  <2>2. KnowsPolicy(tx'[d]) = KnowsPolicy(tx[d])'
    BY DEF KnowsPolicy
  <2>3. AppendsTo(tx'[d]) = AppendsTo(tx[d])'
    BY DEF AppendsTo
  <2> QED BY <2>1, <2>2, <2>3 DEF Course
<1>4. ASSUME ~ lost' PROVE Kept'
  <2>1. \A s \in Streams : Excess(s)' = Excess(s)
    BY DEF Excess, Stored
  <2>2. \A d \in Clients, s \in Streams : Removes(tx'[d], s) => Removes(tx[d], s)'
    BY <2>1 DEF Removes
  <2>3. SUFFICES ASSUME NEW s \in Streams, rows[s].maxCount # 0, Excess(s) # {}
                 PROVE  \E d \in Clients : Removes(tx'[d], s)
    BY <2>1, <2>2 DEF Kept
  <2>4. PICK d \in Clients : Removes(tx[d], s)
    BY <1>4, <2>3 DEF QInv, Kept
  <2> QED BY <1>1, <1>4, <2>3, <2>4
<1> QED BY <1>2, <1>3, <1>4 DEF QInv

\* A transaction that begins has written nothing.
LEMMA NothingWritten == DOMAIN << >> = {}
OBVIOUS

\* A transaction that begins, or is over, has written nothing.
LEMMA BeginsCourse ==
  ASSUME NEW r, IsCall(r), NEW n \in Nat, r.op = "delete stream" => r.stream # DeletedStream
  PROVE  /\ Course(Begin(r, n)) /\ DOMAIN Begin(r, n).writes = {} /\ Begin(r, n).inserted = {}
         /\ Begin(r, n).request = r /\ Begin(r, n).ids = r.ids
         /\ r.op \in {"delete", "scavenge"} => Begin(r, n).pc = "locate"
<1> DEFINE start == CASE r.op \in {"delete", "scavenge"} -> "locate"
                      [] r.op = "delete stream" -> "find"
                      [] OTHER -> AppendStart(r.expected)
           target == IF r.op = "metadata" THEN MetaStream(r.stream) ELSE r.stream
           t == Begin(r, n)
<1>1. r \in RequestSet /\ r.op \in {"append", "metadata", "delete", "delete stream", "scavenge"}
      /\ r.expected \in Int
  BY DEF IsCall, RequestSet
<1>2. /\ r.op \in {"delete", "scavenge"} => start = "locate"
      /\ r.op = "delete stream" => start = "find"
      /\ r.op \in {"append", "metadata"} => start = IF r.expected < 0 THEN "metadata" ELSE "read"
  BY DEF AppendStart
<1> HIDE DEF start, target
<1>3. t = [Idle EXCEPT !.pc = start, !.request = r, !.tries = n, !.target = target,
                       !.expected = r.expected, !.ids = r.ids]
  BY DEF Begin, start, target
<1>4. /\ t.pc = start /\ t.request = r /\ t.target = target /\ t.expected = r.expected
      /\ t.ids = r.ids /\ t.writes = << >> /\ t.inserted = {} /\ t.deleted = {}
  BY <1>3 DEF Idle
<1> HIDE DEF t
<1>5. DOMAIN t.writes = {}
  <2>1. t.writes = << >>
    BY <1>4
  <2> QED BY <2>1, NothingWritten, Zenon
<1>6. r.op \in {"append", "metadata"} => AppendsTo(t)
  BY <1>1, <1>2, <1>4, <1>5 DEF AppendsTo, AppendSteps
<1>7. Course(t)
  <2>1. target = IF r.op = "metadata" THEN MetaStream(r.stream) ELSE r.stream
    BY DEF target
  <2>2. CASE r.op = "append"
    BY <1>2, <1>4, <1>5, <1>6, <2>1, <2>2 DEF Course
  <2>3. CASE r.op = "metadata"
    BY <1>2, <1>4, <1>5, <1>6, <2>1, <2>3 DEF Course
  <2>4. CASE r.op = "delete stream"
    BY <1>2, <1>4, <1>5, <2>1, <2>4 DEF Course, AppendSteps
  <2>5. CASE r.op \in {"delete", "scavenge"}
    BY <1>2, <1>4, <1>5, <2>1, <2>5 DEF Course
  <2> QED BY <1>1, <2>2, <2>3, <2>4, <2>5
<1> QED BY <1>2, <1>4, <1>5, <1>7 DEF t

\* A transaction that is over has written nothing.
LEMMA IdleCourse == Course(Idle) /\ DOMAIN Idle.writes = {} /\ Idle.inserted = {}
<1>1. /\ Idle.deleted = {} /\ Idle.pc = "idle" /\ Idle.request.op = "delete" /\ Idle.request.stream = DeletedStream
      /\ Idle.target = DeletedStream /\ Idle.writes = << >> /\ Idle.inserted = {}
  BY DEF Idle, Request
<1>2. DOMAIN Idle.writes = {}
  BY <1>1
<1> QED BY <1>1, <1>2 DEF Course

\* A transaction that is over, or begins again, when it was to remove nothing.
LEMMA RollsBackCourse ==
  ASSUME QInv, NEW c \in Clients, WrongExpectedVersion(c) \/ Reject(c), TInv',
         UNCHANGED <<rows, messages>>,
         ~ lost' => ~ lost /\ \A s \in Streams : ~ Removes(tx[c], s)
  PROVE  QInv'
<1>1. PICK t : Become(c, t) /\ t \in {Idle, Begin(tx[c].request, tx[c].tries + 1)}
  BY DEF WrongExpectedVersion, Reject
<1>2. /\ IsCall(tx[c].request) /\ tx[c].tries + 1 \in Nat
      /\ tx[c].request.op = "delete stream" => tx[c].request.stream # DeletedStream
  <2>1. tx[c] \in TxSet /\ Course(tx[c]) /\ IsCall(tx[c].request)
    BY QFacts
  <2>2. tx[c].tries \in Nat
    BY <2>1 DEF TxSet
  <2>3. tx[c].tries + 1 \in Nat
    BY <2>2
  <2>4. tx[c].request.op = "delete stream" => tx[c].request.stream # DeletedStream
    BY <2>1 DEF Course
  <2> QED BY <2>1, <2>3, <2>4
<1>3. Course(t) /\ DOMAIN t.writes = {} /\ t.inserted = {}
  <2>1. CASE t = Idle
    BY <2>1, IdleCourse
  <2>2. CASE t = Begin(tx[c].request, tx[c].tries + 1)
    BY <1>2, <2>2, BeginsCourse, Zenon
  <2> QED BY <1>1, <2>1, <2>2
<1>4. Writes(c, t, DeletedStream) /\ Inserts(c, t)
  BY <1>3 DEF Writes, Inserts
<1> QED BY <1>1, <1>3, <1>4, GoesOn

\* A transaction that is about to append, or to delete a stream, removes nothing that is
\* too much.
LEMMA RemovesNone ==
  ASSUME QInv, NEW c \in Clients,
         tx[c].pc \notin {"locate", "select", "delete", "commit"}
  PROVE  \A s \in Streams : ~ Removes(tx[c], s)
<1>1. Course(tx[c])
  BY QFacts
<1> QED BY <1>1 DEF Course, Removes

\* A call.
LEMMA CallScavenges ==
  ASSUME ClientStreams, QInv, TInv', NEW c \in Clients, Call(c)
  PROVE  QInv'
<1>1. PICK r \in workload : Become(c, Begin(Fresh(r), 1))
  BY DEF Call
<1>2. IsCall(Fresh(r)) /\ Fresh(r).stream # DeletedStream
  <2>1. IsRequest(r)
    BY PgStoreAssumption DEF QInv, TInv, Shape
  <2>2. r.stream \in Streams /\ Fresh(r).stream = r.stream
    BY <2>1 DEF IsRequest, Fresh, Request
  <2> QED BY <2>2, FreshIsCall DEF QInv, ClientStreams
<1> DEFINE t == Begin(Fresh(r), 1)
<1>3. Course(t) /\ DOMAIN t.writes = {} /\ t.inserted = {}
  BY <1>2, BeginsCourse
<1> HIDE DEF t
<1>4. Writes(c, t, DeletedStream) /\ Inserts(c, t)
  BY <1>3 DEF Writes, Inserts
<1>5. tx[c].pc = "idle" /\ UNCHANGED <<rows, messages, lost>> /\ Become(c, t)
  BY <1>1 DEF Call, t
<1> QED BY <1>3, <1>4, <1>5, RemovesNone, GoesOn

\* A connection is lost.
LEMMA LoseConnectionScavenges ==
  ASSUME QInv, TInv', NEW c \in Clients, LoseConnection(c)
  PROVE  QInv'
<1>1. Reject(c) /\ UNCHANGED <<rows, messages>> /\ lost'
  BY DEF LoseConnection
<1> QED BY <1>1, RollsBackCourse

\* A transaction that goes on without writing.
LEMMA ReadsOn ==
  ASSUME QInv, TInv', NEW c \in Clients, NEW t, Become(c, t), Reads,
         tx[c].pc \notin {"locate", "select", "delete", "commit"},
         t.writes = tx[c].writes, Course(t),
         \/ t.inserted = {}
         \/ t.inserted = tx[c].inserted /\ t.target = tx[c].target /\ t.id = tx[c].id
  PROVE  QInv'
<1>1. Writes(c, t, DeletedStream)
  BY DEF Writes
<1>2. Inserts(c, t)
  <2>1. CASE t.inserted = {}
    BY <2>1 DEF Inserts
  <2>2. CASE t.inserted # {}
    <3>1. t.inserted = tx[c].inserted /\ t.target = tx[c].target /\ t.id = tx[c].id
      BY <2>2
    <3> QED BY <3>1 DEF QInv, References, Inserts, Row, RowOf
  <2> QED BY <2>1, <2>2
<1>3. UNCHANGED <<rows, messages, lost>>
  BY DEF Reads
<1> QED BY <1>1, <1>2, <1>3, RemovesNone, GoesOn

\* A transaction keeps its course while it appends and writes no row.
LEMMA CourseGoesOn ==
  ASSUME QInv, NEW c \in Clients, NEW t,
         tx[c].pc \in AppendSteps \ {"commit"}, t.pc \in AppendSteps \ {"metadata", "read"},
         t.request = tx[c].request, t.target = tx[c].target, t.expected = tx[c].expected,
         t.writes = tx[c].writes,
         t.pc = "create" => tx[c].pc = "metadata",
         t.pc \in {"version", "replayed"} => t.expected >= 0,
         t.pc \in {"version", "insert", "enforce", "replayed"} =>
           tx[c].pc \in {"read", "version", "insert", "enforce", "replayed"},
         (t.request.op \in {"append", "metadata"} /\ t.pc \in {"insert", "enforce", "latest", "update"}
           /\ t.target \in DOMAIN t.writes) => t.writes[t.target].id = t.id,
         t.pc \in {"enforce", "latest", "update"} => t.id # 0,
         t.pc = "policy" => t.request.op = "metadata",
         (t.pc = "commit" /\ t.request.op = "append") => KnowsPolicy(t)
  PROVE  Course(t)
<1> DEFINE u == tx[c]
<1>1. Course(u) /\ u.request.op \in {"append", "metadata", "delete", "delete stream", "scavenge"}
  BY QFacts DEF RequestSet
<1> HIDE DEF u
<1>2. u.request.op \notin {"delete", "scavenge"}
  BY <1>1 DEF Course, AppendSteps, u
<1>3. u.request.op \in {"append", "metadata"} => AppendsTo(u)
  BY <1>1 DEF Course
<1>4. u.request.op \in {"append", "metadata"} => AppendsTo(t)
  BY <1>3 DEF AppendsTo, u
<1>5. CASE u.request.op = "append"
  BY <1>1, <1>4, <1>5 DEF Course, u
<1>6. CASE u.request.op = "metadata"
  BY <1>1, <1>4, <1>6 DEF Course, u
<1>7. CASE u.request.op = "delete stream"
  <2>1. /\ u.request.stream # DeletedStream /\ u.pc # "policy" /\ u.target = DeletedStream
        /\ u.pc = "metadata" => DeletedStream \notin DOMAIN u.writes
        /\ \A s \in DOMAIN u.writes : s = DeletedStream \/ u.writes[s] = NoRow
    <3>1. u.pc \in AppendSteps \ {"commit"}
      BY DEF u
    <3>2. u.pc \notin {"find", "compare", "purge", "drop"}
      BY <3>1 DEF AppendSteps
    <3> QED BY <1>1, <1>7, <3>1, <3>2 DEF Course
  <2>2. /\ t.request = u.request /\ t.target = u.target /\ t.writes = u.writes
        /\ t.pc = "create" => u.pc = "metadata"
        /\ t.pc \in AppendSteps \ {"metadata", "read"} /\ t.pc # "policy"
    BY <1>7 DEF u
  <2>3. t.pc \notin {"find", "compare", "purge", "drop", "metadata"}
    BY <2>2 DEF AppendSteps
  <2>4. t.pc \in {"enforce", "latest", "update"} => t.id # 0
    OBVIOUS
  <2>5. t.request.op = "delete stream"
    BY <1>7, <2>2
  <2> HIDE DEF NoRow
  <2> QED BY <2>1, <2>2, <2>3, <2>4, <2>5 DEF Course
<1> QED BY <1>1, <1>2, <1>5, <1>6, <1>7

\* append_to_stream reads the metadata.
LEMMA ReadMetadataScavenges ==
  ASSUME QInv, TInv', NEW c \in Clients, ReadMetadata(c)
  PROVE  QInv'
<1>1. PICK n : Become(c, [tx[c] EXCEPT !.pc = "create", !.maxCount = n])
  BY DEF ReadMetadata
<1> DEFINE t == [tx[c] EXCEPT !.pc = "create", !.maxCount = n]
<1>2. tx[c] \in TxSet /\ tx[c].pc = "metadata" /\ Reads
  BY QFacts DEF ReadMetadata
<1>3. /\ t.pc = "create" /\ t.request = tx[c].request /\ t.target = tx[c].target
      /\ t.expected = tx[c].expected /\ t.id = tx[c].id
      /\ t.writes = tx[c].writes /\ t.inserted = tx[c].inserted
  BY <1>2 DEF TxSet
<1>4. Become(c, t)
  BY <1>1
<1> HIDE DEF t
<1>5. Course(t)
  BY <1>2, <1>3, CourseGoesOn DEF AppendSteps
<1> QED BY <1>2, <1>3, <1>4, <1>5, ReadsOn

\* It reads the row of the stream.
LEMMA ReadStreamScavenges ==
  ASSUME QInv, TInv', NEW c \in Clients, ReadStream(c)
  PROVE  QInv'
<1> DEFINE row == Row(c, tx[c].target)
           pc == IF tx[c].expected >= 0 THEN "version" ELSE IF tx[c].ids = << >> THEN "commit" ELSE "insert"
<1>1. PICK v : Become(c, [tx[c] EXCEPT !.id = row.id, !.current = v, !.maxCount = 0, !.pc = pc])
  BY DEF ReadStream
<1> DEFINE t == [tx[c] EXCEPT !.id = row.id, !.current = v, !.maxCount = 0, !.pc = pc]
<1>2. /\ tx[c] \in TxSet /\ tx[c].pc = "read" /\ Reads /\ tx[c].inserted = {} /\ Course(tx[c])
      /\ tx[c].expected \in Int
  BY QFacts DEF ReadStream, InRange, Early, TxSet
<1>3. /\ t.pc = pc /\ t.request = tx[c].request /\ t.target = tx[c].target
      /\ t.expected = tx[c].expected /\ t.id = row.id
      /\ t.writes = tx[c].writes /\ t.inserted = {}
  BY <1>2 DEF TxSet
<1>4. Become(c, t)
  BY <1>1
<1> HIDE DEF t
<1>5. tx[c].target \in DOMAIN tx[c].writes => row.id = tx[c].writes[tx[c].target].id
  BY DEF Row
<1> HIDE DEF row
<1>6. /\ pc \in {"version", "commit", "insert"} /\ (pc = "version" => tx[c].expected >= 0)
  OBVIOUS
<1> HIDE DEF pc
<1>7. tx[c].request.op = "append" => KnowsPolicy(t)
  BY <1>2, <1>3 DEF KnowsPolicy, Course
<1>8. Course(t)
  BY <1>2, <1>3, <1>5, <1>6, <1>7, CourseGoesOn DEF AppendSteps
<1> QED BY <1>2, <1>3, <1>4, <1>8, ReadsOn

\* It has read the row, and checks the version that is expected.
LEMMA CheckVersionScavenges ==
  ASSUME QInv, TInv', NEW c \in Clients, CheckVersion(c)
  PROVE  QInv'
<1> DEFINE pc == IF tx[c].ids = << >> THEN "commit" ELSE "insert"
           t == [tx[c] EXCEPT !.pc = pc]
<1>1. /\ tx[c] \in TxSet /\ tx[c].pc = "version" /\ Reads /\ tx[c].inserted = {} /\ Course(tx[c])
      /\ WrongExpectedVersion(c) \/ Become(c, t)
  BY QFacts DEF CheckVersion, InRange, Early, Go
<1>2. CASE WrongExpectedVersion(c)
  BY <1>1, <1>2, RemovesNone, RollsBackCourse DEF Reads
<1>3. CASE Become(c, t)
  <2>1. /\ t.pc = pc /\ t.request = tx[c].request /\ t.target = tx[c].target
        /\ t.expected = tx[c].expected /\ t.id = tx[c].id
        /\ t.writes = tx[c].writes /\ t.inserted = {}
    BY <1>1 DEF TxSet
  <2>2. pc \in {"commit", "insert"} /\ Become(c, t)
    BY <1>3
  <2> HIDE DEF t, pc
  <2>3. tx[c].request.op \in {"append", "metadata"} => DOMAIN tx[c].writes = {}
    BY <1>1 DEF Course, AppendsTo
  <2>4. tx[c].request.op = "append" => KnowsPolicy(t)
    BY <2>1, <2>3 DEF KnowsPolicy
  <2>5. Course(t)
    BY <1>1, <2>1, <2>2, <2>3, <2>4, CourseGoesOn DEF AppendSteps
  <2> QED BY <1>1, <2>1, <2>2, <2>5, ReadsOn
<1> QED BY <1>1, <1>2, <1>3

\* Some messages conflicted.
LEMMA EnforceScavenges ==
  ASSUME QInv, TInv', NEW c \in Clients, EnforceIdempotentAppend(c)
  PROVE  QInv'
<1> DEFINE pc == IF tx[c].expected < 0 THEN "latest" ELSE "replayed"
           t == [tx[c] EXCEPT !.pc = pc]
<1>1. /\ tx[c] \in TxSet /\ tx[c].pc = "enforce" /\ Reads /\ Course(tx[c]) /\ tx[c].expected \in Int
      /\ WrongExpectedVersion(c) \/ Become(c, t)
  BY QFacts DEF EnforceIdempotentAppend, Go, TxSet
<1>2. CASE WrongExpectedVersion(c)
  BY <1>1, <1>2, RemovesNone, RollsBackCourse DEF Reads
<1>3. CASE Become(c, t)
  <2>1. /\ t.pc = pc /\ t.request = tx[c].request /\ t.target = tx[c].target
        /\ t.expected = tx[c].expected /\ t.id = tx[c].id
        /\ t.writes = tx[c].writes /\ t.inserted = tx[c].inserted
    BY <1>1 DEF TxSet
  <2>2. pc \in {"latest", "replayed"} /\ (pc = "replayed" => tx[c].expected >= 0) /\ Become(c, t)
    BY <1>1, <1>3
  <2> HIDE DEF t, pc
  <2>3. /\ tx[c].id # 0
        /\ (tx[c].request.op \in {"append", "metadata"} /\ tx[c].target \in DOMAIN tx[c].writes) =>
             tx[c].writes[tx[c].target].id = tx[c].id
    BY <1>1 DEF Course, AppendsTo
  <2>4. Course(t)
    BY <1>1, <2>1, <2>2, <2>3, CourseGoesOn DEF AppendSteps
  <2> QED BY <1>1, <2>1, <2>2, <2>4, ReadsOn
<1> QED BY <1>1, <1>2, <1>3

\* The messages are a replay, which has inserted nothing.
LEMMA ReplayedScavenges ==
  ASSUME QInv, TInv', NEW c \in Clients, Replayed(c), ReplayWritesNothing
  PROVE  QInv'
<1> DEFINE pc == IF tx[c].request.op = "metadata" THEN "policy" ELSE "commit"
           row == IF Row(c, tx[c].target).id = tx[c].id THEN Row(c, tx[c].target) ELSE NoRow
           t == [tx[c] EXCEPT !.pc = pc, !.current = row.version, !.maxCount = row.maxCount]
<1>1. /\ tx[c] \in TxSet /\ tx[c].pc = "replayed" /\ Reads /\ Course(tx[c]) /\ tx[c].inserted = {}
      /\ Become(c, t)
  BY QFacts DEF Replayed, ReplayWritesNothing
<1> HIDE DEF row
<1>2. /\ t.pc = pc /\ t.request = tx[c].request /\ t.target = tx[c].target
      /\ t.expected = tx[c].expected /\ t.id = tx[c].id
      /\ t.writes = tx[c].writes /\ t.inserted = {}
  BY <1>1 DEF TxSet
<1>3. pc \in {"policy", "commit"} /\ (pc = "policy" => tx[c].request.op = "metadata")
  OBVIOUS
<1> HIDE DEF t, pc
<1>4. tx[c].request.op \in {"append", "metadata"} => DOMAIN tx[c].writes = {}
  BY <1>1 DEF Course, AppendsTo
<1>5. tx[c].request.op = "append" => KnowsPolicy(t)
  BY <1>2, <1>4 DEF KnowsPolicy
<1>6. Course(t)
  BY <1>1, <1>2, <1>3, <1>5, CourseGoesOn DEF AppendSteps
<1> QED BY <1>1, <1>2, <1>6, ReadsOn

\* The messages are in, and the latest version is read.
LEMMA ReadLatestScavenges ==
  ASSUME QInv, TInv', NEW c \in Clients, ReadLatest(c)
  PROVE  QInv'
<1>1. /\ tx[c] \in TxSet /\ tx[c].pc = "latest" /\ Reads /\ Course(tx[c])
      /\ Reject(c) \/ \E v : Become(c, [tx[c] EXCEPT !.pc = "update", !.current = v])
  BY QFacts DEF ReadLatest
<1>2. CASE Reject(c)
  BY <1>1, <1>2, RemovesNone, RollsBackCourse DEF Reads
<1>3. CASE ~ Reject(c)
  <2>1. PICK v : Become(c, [tx[c] EXCEPT !.pc = "update", !.current = v])
    BY <1>1, <1>3
  <2> DEFINE t == [tx[c] EXCEPT !.pc = "update", !.current = v]
  <2>2. /\ t.pc = "update" /\ t.request = tx[c].request /\ t.target = tx[c].target
        /\ t.expected = tx[c].expected /\ t.id = tx[c].id
        /\ t.writes = tx[c].writes /\ t.inserted = tx[c].inserted
    BY <1>1 DEF TxSet
  <2>3. Become(c, t)
    BY <2>1
  <2> HIDE DEF t
  <2>4. /\ tx[c].id # 0
        /\ (tx[c].request.op \in {"append", "metadata"} /\ tx[c].target \in DOMAIN tx[c].writes) =>
             tx[c].writes[tx[c].target].id = tx[c].id
    BY <1>1 DEF Course, AppendsTo
  <2>5. Course(t)
    BY <1>1, <2>2, <2>4, CourseGoesOn DEF AppendSteps
  <2> QED BY <1>1, <2>2, <2>3, <2>5, ReadsOn
<1> QED BY <1>1, <1>2, <1>3

\* The stream is created if it is not there.
LEMMA CreateStreamScavenges ==
  ASSUME ClientStreams, QInv, TInv', NEW c \in Clients, CreateStream(c)
  PROVE  QInv'
<1>1. /\ tx[c] \in TxSet /\ tx[c].pc = "create" /\ Course(tx[c]) /\ tx[c].inserted = {}
      /\ tx[c].target \in AllStreams /\ tx[c].expected \in Int /\ Free(c, tx[c].target)
      /\ nextId \in Nat /\ nextId >= 1
      /\ tx[c].request.op \in {"append", "metadata", "delete", "delete stream", "scavenge"}
      /\ UNCHANGED <<rows, messages, lost>>
  BY QFacts DEF CreateStream, InRange, Early, TxSet, RequestSet
<1>2. tx[c].target \notin DOMAIN tx[c].writes
  BY <1>1 DEF Course, AppendsTo, AppendSteps
<1>3. ASSUME NEW w, DOMAIN w \subseteq DOMAIN tx[c].writes \cup {tx[c].target},
             \A s \in DOMAIN w \ {tx[c].target} : s \in DOMAIN tx[c].writes /\ w[s] = tx[c].writes[s],
             tx[c].target \in DOMAIN w =>
               w[tx[c].target].id = nextId /\ rows[tx[c].target].id = 0,
             Become(c, [tx[c] EXCEPT !.pc = "read", !.writes = w])
      PROVE  QInv'
  <2> DEFINE t == [tx[c] EXCEPT !.pc = "read", !.writes = w]
  <2>1. /\ t.pc = "read" /\ t.request = tx[c].request /\ t.target = tx[c].target
        /\ t.expected = tx[c].expected /\ t.writes = w /\ t.inserted = {}
    BY <1>1 DEF TxSet
  <2>2. Become(c, t)
    BY <1>3
  <2> HIDE DEF t
  <2>3. Writes(c, t, tx[c].target)
    BY <1>1, <1>2, <1>3, <2>1 DEF Writes
  <2>4. Inserts(c, t)
    BY <2>1 DEF Inserts
  <2>5. Course(t)
    <3>1. tx[c].request.op \notin {"delete", "scavenge"}
      BY <1>1 DEF Course
    <3>2. tx[c].request.op \in {"append", "metadata"} => AppendsTo(t)
      <4>1. tx[c].request.op \in {"append", "metadata"} => tx[c].expected < 0 /\ DOMAIN tx[c].writes = {}
        BY <1>1 DEF Course, AppendsTo
      <4>2. tx[c].expected < 0 => ~ (tx[c].expected >= 0)
        <5>1. tx[c].expected \in Int
          BY <1>1
        <5> QED BY <5>1
      <4> QED BY <2>1, <4>1, <4>2 DEF AppendsTo, AppendSteps
    <3>3. CASE tx[c].request.op = "append"
      BY <1>1, <1>3, <2>1, <3>2, <3>3 DEF Course, AppendsTo
    <3>4. CASE tx[c].request.op = "metadata"
      <4>1. tx[c].target = MetaStream(tx[c].request.stream) /\ tx[c].request.stream \notin DOMAIN tx[c].writes
        BY <1>1, <3>4 DEF Course
      <4>2. tx[c].request.stream # tx[c].target
        BY <3>4, <4>1, QFacts DEF ClientStreams, IsCall
      <4> QED BY <1>1, <1>3, <2>1, <3>2, <3>4, <4>1, <4>2 DEF Course, AppendsTo
    <3>5. CASE tx[c].request.op = "delete stream"
      BY <1>1, <1>3, <2>1, <3>5 DEF Course, AppendSteps
    <3> QED BY <1>1, <3>1, <3>3, <3>4, <3>5
  <2> QED BY <1>1, <2>2, <2>3, <2>4, <2>5, RemovesNone, GoesOn
<1>4. CASE Row(c, tx[c].target).id = 0
  <2> DEFINE s == tx[c].target
             row == [id |-> nextId, version |-> -1, maxCount |-> tx[c].maxCount]
             w == Wrote(tx[c], s, row)
  <2>1. Become(c, [tx[c] EXCEPT !.pc = "read", !.writes = w])
    BY <1>4 DEF CreateStream
  <2>2. row \in RowSet /\ row.id = nextId
    <3>1. tx[c].maxCount \in Nat /\ nextId \in Nat
      BY <1>1 DEF TxSet
    <3>2. row \in RowSet
      BY <3>1 DEF RowSet
    <3> QED BY <3>2
  <2>3. rows[s].id = 0 /\ s = tx[c].target /\ s \in AllStreams /\ tx[c] \in TxSet
    BY <1>1, <1>2, <1>4 DEF Row
  <2> HIDE DEF row, s
  <2>4. /\ DOMAIN w = DOMAIN tx[c].writes \cup {s} /\ w[s] = row
        /\ \A u \in DOMAIN tx[c].writes \ {s} : w[u] = tx[c].writes[u]
    BY <2>2, <2>3, WroteIsWrites
  <2> HIDE DEF w
  <2> QED BY <1>3, <2>1, <2>2, <2>3, <2>4
<1>5. CASE Row(c, tx[c].target).id # 0
  <2>1. Become(c, [tx[c] EXCEPT !.pc = "read"])
    BY <1>5 DEF CreateStream, Go
  <2>2. [tx[c] EXCEPT !.pc = "read"] = [tx[c] EXCEPT !.pc = "read", !.writes = tx[c].writes]
    BY <1>1 DEF TxSet
  <2> QED BY <1>2, <1>3, <2>1, <2>2
<1> QED BY <1>4, <1>5

\* The messages are inserted.
LEMMA InsertMessagesScavenges ==
  ASSUME QInv, TInv', NEW c \in Clients, InsertMessages(c)
  PROVE  QInv'
<1>1. /\ tx[c] \in TxSet /\ tx[c].pc = "insert" /\ Course(tx[c]) /\ tx[c].inserted = {}
      /\ tx[c].target \in AllStreams
      /\ rows \in [AllStreams -> RowSet] /\ UNCHANGED <<rows, messages, lost>>
      /\ \A d \in Clients \ {c} :
           tx[c].target \in DOMAIN tx[d].writes => tx[d].writes[tx[c].target] # NoRow
  BY QFacts DEF InsertMessages, InRange, Early
<1>2. \/ Reject(c)
      \/ /\ Become(c, AfterInsert(c)) /\ tx[c].id # 0
         /\ NewOnes(c) # {} => Row(c, tx[c].target).id = tx[c].id
  BY InsertSteps
<1>3. CASE Reject(c)
  BY <1>1, <1>3, RemovesNone, RollsBackCourse
<1>4. CASE ~ Reject(c)
  <2> DEFINE t == AfterInsert(c)
  <2>1. /\ t.pc \in {"latest", "enforce"} /\ t.request = tx[c].request /\ t.target = tx[c].target
        /\ t.expected = tx[c].expected /\ t.id = tx[c].id
        /\ t.writes = tx[c].writes /\ t.inserted = NewOnes(c)
    BY <1>1 DEF TxSet, AfterInsert
  <2>2. Become(c, t) /\ tx[c].id # 0 /\ (NewOnes(c) # {} => Row(c, tx[c].target).id = tx[c].id)
    BY <1>2, <1>4
  <2> HIDE DEF t
  <2>3. Writes(c, t, DeletedStream)
    BY <2>1 DEF Writes
  <2>4. Inserts(c, t)
    <3> SUFFICES ASSUME NEW m \in NewOnes(c)
                 PROVE  /\ m.streamId = tx[c].target /\ m.id = tx[c].id
                        /\ RowOf(t, rows, m.streamId).id = m.id
                        /\ \A d \in Clients \ {c} :
                             m.streamId \in DOMAIN tx[d].writes => tx[d].writes[m.streamId].id = m.id
      BY <2>1 DEF Inserts
    <3>1. m.streamId = tx[c].target /\ m.id = tx[c].id
      BY DEF NewOnes, NewMessages
    <3>2. Row(c, m.streamId).id = m.id
      BY <2>2, <3>1
    <3>3. RowOf(t, rows, m.streamId).id = m.id
      BY <2>1, <3>2 DEF Row, RowOf
    <3>4. ASSUME NEW d \in Clients \ {c}, m.streamId \in DOMAIN tx[d].writes
          PROVE  tx[d].writes[m.streamId].id = m.id
      <4>1. m.streamId \notin DOMAIN tx[c].writes
        BY <3>4 DEF QInv, Rows
      <4>2. rows[m.streamId].id = m.id /\ m.id # 0
        BY <2>2, <3>1, <3>2, <4>1 DEF Row
      <4>3. tx[d].writes[m.streamId] # NoRow
        BY <1>1, <3>1, <3>4
      <4> QED BY <3>4, <4>2, <4>3 DEF QInv, Rows
    <3> QED BY <3>1, <3>3, <3>4
  <2>5. (tx[c].request.op \in {"append", "metadata"} /\ tx[c].target \in DOMAIN tx[c].writes) =>
          tx[c].writes[tx[c].target].id = tx[c].id
    BY <1>1 DEF Course, AppendsTo
  <2>6. Course(t)
    BY <1>1, <2>1, <2>2, <2>5, CourseGoesOn DEF AppendSteps
  <2> QED BY <1>1, <2>2, <2>3, <2>4, <2>6, RemovesNone, GoesOn
<1> QED BY <1>3, <1>4

\* A transaction writes to a row that is there.
LEMMA WritesToRow ==
  ASSUME QInv, NEW c \in Clients, NEW s \in AllStreams, NEW row \in RowSet,
         row.id = Row(c, s).id, row.id # 0, Free(c, s),
         NEW t, t.writes = Wrote(tx[c], s, row), t.inserted = tx[c].inserted,
         t.target = tx[c].target, t.id = tx[c].id
  PROVE  /\ Writes(c, t, DeletedStream) /\ Inserts(c, t)
         /\ DOMAIN t.writes = DOMAIN tx[c].writes \cup {s} /\ t.writes[s] = row
         /\ \A u \in DOMAIN tx[c].writes \ {s} : t.writes[u] = tx[c].writes[u]
<1>1. /\ DOMAIN t.writes = DOMAIN tx[c].writes \cup {s} /\ t.writes[s] = row
      /\ \A u \in DOMAIN tx[c].writes \ {s} : t.writes[u] = tx[c].writes[u]
  <2> DEFINE w == Wrote(tx[c], s, row)
  <2>1. tx[c] \in TxSet
    BY QFacts
  <2>2. /\ DOMAIN w = DOMAIN tx[c].writes \cup {s} /\ w[s] = row
        /\ \A u \in DOMAIN tx[c].writes \ {s} : w[u] = tx[c].writes[u]
    BY <2>1, WroteIsWrites
  <2>3. t.writes = w
    OBVIOUS
  <2> HIDE DEF w
  <2> QED BY <2>2, <2>3
<1>2. s \in DOMAIN tx[c].writes => row.id = tx[c].writes[s].id /\ tx[c].writes[s] # NoRow
  BY DEF Row, NoRow
<1>3. s \notin DOMAIN tx[c].writes => row.id = rows[s].id
  BY DEF Row
<1>4. Writes(c, t, DeletedStream)
  BY <1>1, <1>2, <1>3 DEF Writes
<1>5. Inserts(c, t)
  BY <1>1, <1>4, StillInserts
<1> QED BY <1>1, <1>4, <1>5

\* The version of the stream is written.
LEMMA UpdateStreamScavenges ==
  ASSUME ClientStreams, QInv, TInv', NEW c \in Clients, UpdateStream(c)
  PROVE  QInv'
<1> DEFINE s == tx[c].target
           row == Row(c, s)
           pc == IF tx[c].request.op = "metadata" THEN "policy" ELSE "commit"
           next == [row EXCEPT !.version = tx[c].current]
<1>1. /\ tx[c] \in TxSet /\ tx[c].pc = "update" /\ Course(tx[c]) /\ Reads
      /\ s \in AllStreams /\ tx[c].current \in Int
      /\ tx[c].request.op \in {"append", "metadata", "delete", "delete stream", "scavenge"}
  BY QFacts DEF UpdateStream, TxSet, RequestSet
<1>2. \/ row.id # tx[c].id /\ Become(c, [tx[c] EXCEPT !.pc = pc])
      \/ /\ row.id = tx[c].id /\ Free(c, s)
         /\ Become(c, [tx[c] EXCEPT !.pc = pc, !.maxCount = row.maxCount, !.writes = Wrote(tx[c], s, next)])
  BY DEF UpdateStream
<1>3. row \in RowSet
  BY <1>1, Sees DEF QInv, TInv
<1>4. /\ tx[c].id # 0 /\ tx[c].request.op \notin {"delete", "scavenge"}
      /\ (tx[c].request.op \in {"append", "metadata"} /\ s \in DOMAIN tx[c].writes) =>
           tx[c].writes[s].id = tx[c].id
  BY <1>1 DEF Course, AppendsTo
<1>5. pc \in {"policy", "commit"} /\ (pc = "policy" <=> tx[c].request.op = "metadata")
  OBVIOUS
<1> HIDE DEF pc
<1>6. CASE row.id # tx[c].id /\ Become(c, [tx[c] EXCEPT !.pc = pc])
  <2> DEFINE t == [tx[c] EXCEPT !.pc = pc]
  <2>1. /\ t.pc = pc /\ t.request = tx[c].request /\ t.target = tx[c].target
        /\ t.expected = tx[c].expected /\ t.id = tx[c].id
        /\ t.writes = tx[c].writes /\ t.inserted = tx[c].inserted
    BY <1>1 DEF TxSet
  <2>2. Become(c, t)
    BY <1>6
  <2> HIDE DEF t
  <2>3. tx[c].inserted = {}
    BY <1>6 DEF QInv, References
  <2>4. tx[c].request.op = "append" => s \notin DOMAIN tx[c].writes
    BY <1>4, <1>6 DEF Row
  <2>5. tx[c].request.op = "append" => KnowsPolicy(t)
    BY <2>1, <2>3, <2>4 DEF KnowsPolicy
  <2>6. Course(t)
    BY <1>1, <1>5, <2>1, <2>5, CourseGoesOn DEF AppendSteps
  <2> QED BY <1>1, <2>1, <2>2, <2>6, ReadsOn
<1>7. CASE row.id = tx[c].id /\ Free(c, s)
           /\ Become(c, [tx[c] EXCEPT !.pc = pc, !.maxCount = row.maxCount, !.writes = Wrote(tx[c], s, next)])
  <2>1. next \in RowSet /\ next.id = row.id /\ next.maxCount = row.maxCount
    BY <1>1, <1>3 DEF RowSet
  <2> HIDE DEF next
  <2> DEFINE w == Wrote(tx[c], s, next)
             t == [tx[c] EXCEPT !.pc = pc, !.maxCount = row.maxCount, !.writes = w]
  <2>2. Become(c, t)
    BY <1>7
  <2>3. /\ t.pc = pc /\ t.request = tx[c].request /\ t.target = s
        /\ t.expected = tx[c].expected /\ t.id = tx[c].id /\ t.maxCount = row.maxCount
        /\ t.writes = w /\ t.inserted = tx[c].inserted
    BY <1>1 DEF TxSet
  <2> HIDE DEF t
  <2>4. /\ Writes(c, t, DeletedStream) /\ Inserts(c, t)
        /\ DOMAIN t.writes = DOMAIN tx[c].writes \cup {s} /\ t.writes[s] = next
    <3>1. s \in AllStreams /\ next \in RowSet /\ next.id = Row(c, s).id /\ next.id # 0 /\ Free(c, s)
      BY <1>1, <1>4, <1>7, <2>1
    <3>2. /\ t.writes = Wrote(tx[c], s, next) /\ t.inserted = tx[c].inserted
          /\ t.target = tx[c].target /\ t.id = tx[c].id
      BY <2>3
    <3> HIDE DEF s, w
    <3> QED BY <3>1, <3>2, WritesToRow
  <2>7. \A u \in DOMAIN tx[c].writes \ {s} : t.writes[u] = tx[c].writes[u]
    BY <2>3 DEF Wrote
  <2> HIDE DEF w, row
  <2>5. Course(t)
    <3>1. CASE tx[c].request.op = "append"
      BY <1>1, <1>5, <2>1, <2>3, <2>4, <3>1 DEF Course, AppendsTo, AppendSteps, KnowsPolicy
    <3>2. CASE tx[c].request.op = "metadata"
      <4>1. s = MetaStream(tx[c].request.stream) /\ tx[c].request.stream \notin DOMAIN tx[c].writes
        BY <1>1, <3>2 DEF Course
      <4>2. tx[c].request.stream # s
        BY <3>2, <4>1, QFacts DEF ClientStreams, IsCall
      <4> QED BY <1>1, <1>5, <2>3, <2>4, <3>2, <4>1, <4>2 DEF Course, AppendsTo, AppendSteps
    <3>3. CASE tx[c].request.op = "delete stream"
      BY <1>1, <1>5, <2>3, <2>4, <2>7, <3>3 DEF Course, AppendSteps
    <3> QED BY <1>1, <1>4, <3>1, <3>2, <3>3
  <2>6. UNCHANGED <<rows, messages, lost>>
    BY <1>1 DEF Reads
  <2> QED BY <1>1, <2>2, <2>4, <2>5, <2>6, RemovesNone, GoesOn
<1> QED BY <1>2, <1>6, <1>7

\* set_stream_metadata writes the policy to the stream's row, if there is one.
LEMMA UpdatePolicyScavenges ==
  ASSUME ClientStreams, QInv, TInv', NEW c \in Clients, UpdatePolicy(c)
  PROVE  QInv'
<1> DEFINE s == tx[c].request.stream
           n == tx[c].request.maxCount
           row == Row(c, s)
           next == [row EXCEPT !.maxCount = n]
<1>1. /\ tx[c] \in TxSet /\ tx[c].pc = "policy" /\ Course(tx[c]) /\ Reads /\ n \in Nat
      /\ tx[c].request.op \in {"append", "metadata", "delete", "delete stream", "scavenge"}
  BY QFacts DEF UpdatePolicy, RequestSet
<1>2. \/ Become(c, [tx[c] EXCEPT !.pc = "commit", !.maxCount = n])
      \/ /\ row.id # 0 /\ Free(c, s)
         /\ Become(c, [tx[c] EXCEPT !.pc = "commit", !.maxCount = n, !.writes = Wrote(tx[c], s, next)])
  BY DEF UpdatePolicy
<1>3. tx[c].request.op = "metadata"
  BY <1>1 DEF Course, AppendSteps
<1>4. s \in Streams /\ s \in AllStreams /\ s # tx[c].target /\ s \notin DOMAIN tx[c].writes
      /\ tx[c].target = MetaStream(s)
  <2>1. s \in Streams
    BY <1>3, QFacts DEF IsCall
  <2>2. tx[c].target = MetaStream(s) /\ s \notin DOMAIN tx[c].writes
    BY <1>1, <1>3 DEF Course
  <2> QED BY <2>1, <2>2, StreamKinds DEF ClientStreams
<1>5. row \in RowSet
  BY <1>4, Sees DEF QInv, TInv
<1>6. CASE Become(c, [tx[c] EXCEPT !.pc = "commit", !.maxCount = n])
  <2> DEFINE t == [tx[c] EXCEPT !.pc = "commit", !.maxCount = n]
  <2>1. /\ t.pc = "commit" /\ t.request = tx[c].request /\ t.target = tx[c].target
        /\ t.expected = tx[c].expected /\ t.id = tx[c].id
        /\ t.writes = tx[c].writes /\ t.inserted = tx[c].inserted
    BY <1>1 DEF TxSet
  <2>2. Become(c, t)
    BY <1>6
  <2> HIDE DEF t
  <2>3. Course(t)
    BY <1>1, <1>3, <2>1, CourseGoesOn DEF AppendSteps
  <2> QED BY <1>1, <2>1, <2>2, <2>3, ReadsOn
<1>7. CASE row.id # 0 /\ Free(c, s)
           /\ Become(c, [tx[c] EXCEPT !.pc = "commit", !.maxCount = n, !.writes = Wrote(tx[c], s, next)])
  <2>1. next \in RowSet /\ next.id = row.id /\ next.maxCount = n
    BY <1>1, <1>5 DEF RowSet
  <2> HIDE DEF next
  <2> DEFINE w == Wrote(tx[c], s, next)
             t == [tx[c] EXCEPT !.pc = "commit", !.maxCount = n, !.writes = w]
  <2>2. Become(c, t)
    BY <1>7
  <2>3. /\ t.pc = "commit" /\ t.request = tx[c].request /\ t.target = tx[c].target
        /\ t.expected = tx[c].expected /\ t.id = tx[c].id /\ t.maxCount = n
        /\ t.writes = w /\ t.inserted = tx[c].inserted
    BY <1>1 DEF TxSet
  <2> HIDE DEF t
  <2>4. /\ Writes(c, t, DeletedStream) /\ Inserts(c, t)
        /\ DOMAIN t.writes = DOMAIN tx[c].writes \cup {s} /\ t.writes[s] = next
    <3>1. s \in AllStreams /\ next \in RowSet /\ next.id = Row(c, s).id /\ next.id # 0 /\ Free(c, s)
      BY <1>4, <1>7, <2>1
    <3>2. /\ t.writes = Wrote(tx[c], s, next) /\ t.inserted = tx[c].inserted
          /\ t.target = tx[c].target /\ t.id = tx[c].id
      BY <2>3
    <3> HIDE DEF s, w
    <3> QED BY <3>1, <3>2, WritesToRow
  <2> HIDE DEF w, row
  <2>5. Course(t)
    BY <1>1, <1>3, <1>4, <2>1, <2>3, <2>4 DEF Course, AppendsTo, AppendSteps
  <2>6. UNCHANGED <<rows, messages, lost>>
    BY <1>1 DEF Reads
  <2> QED BY <1>1, <2>2, <2>4, <2>5, <2>6, RemovesNone, GoesOn
<1> QED BY <1>2, <1>6, <1>7

\* delete_stream goes on without writing to the stream table.
LEMMA DeletionGoesOn ==
  ASSUME QInv, TInv', NEW c \in Clients, NEW t, Become(c, t), Reads,
         tx[c].pc \in {"find", "compare", "purge", "drop"},
         t.pc \in {"compare", "purge", "drop", "commit"},
         t.request = tx[c].request, t.target = tx[c].target, t.writes = tx[c].writes,
         t.inserted = tx[c].inserted
  PROVE  QInv'
<1>1. /\ Course(tx[c]) /\ tx[c].inserted = {}
      /\ tx[c].request.op \in {"append", "metadata", "delete", "delete stream", "scavenge"}
  BY QFacts DEF InRange, Early, RequestSet
<1>2. tx[c].request.op = "delete stream"
  BY <1>1 DEF Course, AppendsTo, AppendSteps
<1>3. Course(t)
  BY <1>1, <1>2 DEF Course, AppendSteps
<1> QED BY <1>1, <1>3, ReadsOn

\* delete_stream looks for the stream.
LEMMA FindStreamScavenges ==
  ASSUME QInv, TInv', NEW c \in Clients, FindStream(c)
  PROVE  QInv'
<1>1. /\ tx[c] \in TxSet /\ tx[c].pc = "find" /\ Reads
      /\ \/ WrongExpectedVersion(c)
         \/ \E pc \in {"commit", "compare", "purge"} :
              \E id : Become(c, [tx[c] EXCEPT !.id = id, !.pc = pc])
  <2>1. tx[c] \in TxSet
    BY QFacts
  <2>2. [tx[c] EXCEPT !.pc = "commit"] = [tx[c] EXCEPT !.id = tx[c].id, !.pc = "commit"]
    BY <2>1 DEF TxSet
  <2>3. tx[c].pc = "find" /\ Reads
        /\ \/ Go(c, "commit") \/ WrongExpectedVersion(c)
           \/ \E pc \in {"compare", "purge"} : Become(c, [tx[c] EXCEPT !.id = Row(c, tx[c].target).id, !.pc = pc])
    BY DEF FindStream
  <2> QED BY <2>1, <2>2, <2>3, Zenon DEF Go
<1>2. CASE WrongExpectedVersion(c)
  BY <1>1, <1>2, RemovesNone, RollsBackCourse DEF Reads
<1>3. CASE ~ WrongExpectedVersion(c)
  <2>0. PICK pc \in {"commit", "compare", "purge"} : \E id : Become(c, [tx[c] EXCEPT !.id = id, !.pc = pc])
    BY <1>1, <1>3
  <2>1. PICK id : Become(c, [tx[c] EXCEPT !.id = id, !.pc = pc])
    BY <2>0
  <2> DEFINE t == [tx[c] EXCEPT !.id = id, !.pc = pc]
  <2>2. /\ t.pc = pc /\ t.request = tx[c].request /\ t.target = tx[c].target
        /\ t.writes = tx[c].writes /\ t.inserted = tx[c].inserted
    BY <1>1 DEF TxSet
  <2>3. Become(c, t)
    BY <2>1
  <2> HIDE DEF t
  <2> QED BY <1>1, <2>2, <2>3, DeletionGoesOn
<1> QED BY <1>2, <1>3

\* delete_stream checks the version that is expected.
LEMMA CompareVersionScavenges ==
  ASSUME QInv, TInv', NEW c \in Clients, CompareVersion(c)
  PROVE  QInv'
<1> DEFINE t == [tx[c] EXCEPT !.pc = "purge"]
<1>1. /\ tx[c] \in TxSet /\ tx[c].pc = "compare" /\ Reads
      /\ WrongExpectedVersion(c) \/ Become(c, t)
  BY QFacts DEF CompareVersion, Go
<1>2. CASE WrongExpectedVersion(c)
  BY <1>1, <1>2, RemovesNone, RollsBackCourse DEF Reads
<1>3. CASE Become(c, t)
  <2>1. /\ t.pc = "purge" /\ t.request = tx[c].request /\ t.target = tx[c].target
        /\ t.writes = tx[c].writes /\ t.inserted = tx[c].inserted
    BY <1>1 DEF TxSet
  <2> HIDE DEF t
  <2> QED BY <1>1, <1>3, <2>1, DeletionGoesOn
<1> QED BY <1>1, <1>2, <1>3

\* delete_stream deletes the messages.
LEMMA PurgeMessagesScavenges ==
  ASSUME QInv, TInv', NEW c \in Clients, PurgeMessages(c)
  PROVE  QInv'
<1> DEFINE t == [tx[c] EXCEPT !.pc = "drop", !.deleted = MessagesOf(c, tx[c].id)]
<1>1. tx[c] \in TxSet /\ tx[c].pc = "purge" /\ Reads /\ Become(c, t)
  BY QFacts DEF PurgeMessages
<1>2. /\ t.pc = "drop" /\ t.request = tx[c].request /\ t.target = tx[c].target
      /\ t.writes = tx[c].writes /\ t.inserted = tx[c].inserted
  BY <1>1 DEF TxSet
<1> HIDE DEF t
<1> QED BY <1>1, <1>2, DeletionGoesOn

\* delete_stream deletes the stream, which no message refers to.
LEMMA DropStreamScavenges ==
  ASSUME ClientStreams, QInv, TInv', NEW c \in Clients, DropStream(c)
  PROVE  QInv'
<1> DEFINE s == tx[c].target
           ids == << <<tx[c].request.stream, "deleted", tx[c].request.expected>> >>
           w == Wrote(tx[c], s, NoRow)
           t == [tx[c] EXCEPT !.pc = "metadata", !.writes = w, !.target = DeletedStream,
                              !.expected = ExpectedVersionAny, !.ids = ids]
<1>1. /\ tx[c] \in TxSet /\ tx[c].pc = "drop" /\ Reads /\ Course(tx[c]) /\ tx[c].inserted = {}
      /\ tx[c].request.op \in {"append", "metadata", "delete", "delete stream", "scavenge"}
      /\ s \in AllStreams
  BY QFacts DEF DropStream, InRange, Early, RequestSet
<1>2. \/ Go(c, "commit") \/ Reject(c)
      \/ /\ Row(c, s).id = tx[c].id /\ Free(c, s) /\ Become(c, t)
         /\ \A d \in Clients \ {c} : \A m \in tx[d].inserted : m.id # tx[c].id
  BY DEF DropStream, AppendStart, ExpectedVersionAny
<1>3. /\ tx[c].request.op = "delete stream" /\ s = tx[c].request.stream /\ s # DeletedStream
      /\ DOMAIN tx[c].writes = {}
  BY <1>1 DEF Course, AppendsTo, AppendSteps
<1>4. CASE Go(c, "commit")
  <2> DEFINE v == [tx[c] EXCEPT !.pc = "commit"]
  <2>1. /\ v.pc = "commit" /\ v.request = tx[c].request /\ v.target = tx[c].target
        /\ v.writes = tx[c].writes /\ v.inserted = tx[c].inserted
    BY <1>1 DEF TxSet
  <2>2. Become(c, v)
    BY <1>4 DEF Go
  <2> HIDE DEF v
  <2> QED BY <1>1, <2>1, <2>2, DeletionGoesOn
<1>5. CASE Reject(c)
  BY <1>1, <1>5, RemovesNone, RollsBackCourse DEF Reads
<1>6. CASE /\ Row(c, s).id = tx[c].id /\ Free(c, s) /\ Become(c, t)
           /\ \A d \in Clients \ {c} : \A m \in tx[d].inserted : m.id # tx[c].id
  <2>1. /\ t.pc = "metadata" /\ t.request = tx[c].request /\ t.target = DeletedStream
        /\ t.expected = ExpectedVersionAny /\ t.writes = w /\ t.inserted = {}
    BY <1>1 DEF TxSet
  <2>2. Become(c, t)
    BY <1>6
  <2> HIDE DEF t
  <2>3. DOMAIN w = {s} /\ w[s] = NoRow
    BY <1>3 DEF Wrote
  <2>4. \A d \in Clients \ {c} : \A m \in tx[d].inserted : m.streamId # s
    <3> SUFFICES ASSUME NEW d \in Clients \ {c}, NEW m \in tx[d].inserted, m.streamId = s PROVE FALSE
      OBVIOUS
    <3>1. Row(d, s).id = m.id /\ m.id # tx[c].id
      BY <1>6 DEF QInv, References
    <3>2. rows[s].id = m.id
      BY <1>6, <3>1 DEF Free, Row
    <3> QED BY <1>3, <1>6, <3>1, <3>2 DEF Row
  <2> HIDE DEF w
  <2>5. Writes(c, t, DeletedStream)
    BY <1>3, <1>6, <2>1, <2>3, <2>4 DEF Writes
  <2>6. Inserts(c, t)
    BY <2>1 DEF Inserts
  <2>7. Course(t)
    BY <1>3, <2>1, <2>3 DEF Course, AppendSteps
  <2>8. UNCHANGED <<rows, messages, lost>>
    BY <1>1 DEF Reads
  <2> QED BY <1>1, <2>2, <2>5, <2>6, <2>7, <2>8, RemovesNone, GoesOn
<1> QED BY <1>2, <1>4, <1>5, <1>6

\* The transactions that delete messages see what is committed.
LEMMA SeesCommitted ==
  ASSUME QInv, NEW c \in Clients, tx[c].pc \in {"locate", "select", "delete"}
  PROVE  /\ tx[c] \in TxSet /\ Course(tx[c]) /\ tx[c].request.op \in {"delete", "scavenge"}
         /\ tx[c].target = tx[c].request.stream /\ DOMAIN tx[c].writes = {} /\ tx[c].inserted = {}
         /\ \A s : Row(c, s) = rows[s] /\ (tx[c].id = rows[s].id => MessagesOf(c, tx[c].id) = Stored(s))
<1>1. /\ tx[c] \in TxSet /\ Course(tx[c])
      /\ tx[c].request.op \in {"append", "metadata", "delete", "delete stream", "scavenge"}
  BY QFacts DEF RequestSet
<1>2. tx[c].request.op \in {"delete", "scavenge"}
  BY <1>1 DEF Course, AppendsTo, AppendSteps
<1>3. /\ tx[c].target = tx[c].request.stream /\ DOMAIN tx[c].writes = {} /\ tx[c].inserted = {}
      /\ tx[c].deleted = {}
  BY <1>1, <1>2 DEF Course
<1>4. Visible(c) = messages
  BY <1>3 DEF Visible
<1> QED BY <1>1, <1>2, <1>3, <1>4 DEF Row, MessagesOf, Stored

\* It looks up the id of its stream.
LEMMA LocateStreamScavenges ==
  ASSUME QInv, TInv', NEW c \in Clients, LocateStream(c)
  PROVE  QInv'
<1> DEFINE pc == IF tx[c].request.op = "scavenge" THEN "select" ELSE "delete"
           t == [tx[c] EXCEPT !.id = Row(c, tx[c].target).id, !.pc = pc]
<1>1. /\ tx[c].pc = "locate" /\ Reads /\ Become(c, t)
      /\ tx[c] \in TxSet /\ Course(tx[c]) /\ tx[c].request.op \in {"delete", "scavenge"}
      /\ tx[c].target = tx[c].request.stream /\ DOMAIN tx[c].writes = {} /\ tx[c].inserted = {}
      /\ Row(c, tx[c].target) = rows[tx[c].target]
  BY SeesCommitted DEF LocateStream
<1>2. /\ t.pc = pc /\ t.request = tx[c].request /\ t.target = tx[c].target /\ t.ids = tx[c].ids
      /\ t.id = rows[tx[c].target].id /\ t.deleted = tx[c].deleted
      /\ t.writes = tx[c].writes /\ t.inserted = {}
  BY <1>1 DEF TxSet
<1>3. /\ tx[c].request.op = "scavenge" => pc = "select"
      /\ tx[c].request.op = "delete" => pc = "delete"
  OBVIOUS
<1> HIDE DEF t, pc
<1>4. Course(t)
  BY <1>1, <1>2, <1>3 DEF Course
<1>5. Writes(c, t, DeletedStream) /\ Inserts(c, t)
  BY <1>1, <1>2 DEF Writes, Inserts
<1>6. \A s \in Streams : Removes(tx[c], s) => Removes(t, s)
  BY <1>1, <1>2, <1>3 DEF Removes
<1> QED BY <1>1, <1>4, <1>5, <1>6, GoesOn DEF Reads

\* The messages with the ids are deleted.
LEMMA DeleteMessagesScavenges ==
  ASSUME QInv, TInv', NEW c \in Clients, DeleteMessages(c)
  PROVE  QInv'
<1> DEFINE gone == {m \in MessagesOf(c, tx[c].id) : m.messageId \in ToSet(tx[c].ids)}
           t == [tx[c] EXCEPT !.pc = "commit", !.deleted = gone]
<1>1. /\ tx[c].pc = "delete" /\ Reads /\ Become(c, t)
      /\ tx[c] \in TxSet /\ Course(tx[c]) /\ tx[c].request.op \in {"delete", "scavenge"}
      /\ tx[c].target = tx[c].request.stream /\ DOMAIN tx[c].writes = {} /\ tx[c].inserted = {}
      /\ \A s : tx[c].id = rows[s].id => MessagesOf(c, tx[c].id) = Stored(s)
  BY SeesCommitted DEF DeleteMessages
<1>2. \A s \in Streams : Removes(tx[c], s) => /\ tx[c].request.op = "delete" /\ tx[c].request.stream = s
                                              /\ Excess(s) \subseteq gone
  BY <1>1 DEF Removes, Course, Excess
<1> HIDE DEF gone
<1>3. /\ t.pc = "commit" /\ t.request = tx[c].request /\ t.target = tx[c].target
      /\ t.deleted = gone /\ t.writes = tx[c].writes /\ t.inserted = {}
  BY <1>1 DEF TxSet
<1> HIDE DEF t
<1>4. Course(t)
  BY <1>1, <1>3 DEF Course
<1>5. Writes(c, t, DeletedStream) /\ Inserts(c, t)
  BY <1>1, <1>3 DEF Writes, Inserts
<1>6. \A s \in Streams : Removes(tx[c], s) => Removes(t, s)
  BY <1>2, <1>3 DEF Removes
<1> QED BY <1>1, <1>4, <1>5, <1>6, GoesOn DEF Reads

\* The sequence of the elements of a finite set has them all.
LEMMA SetToSeqHasAll ==
  ASSUME NEW S, IsFiniteSet(S)
  PROVE  ToSet(SetToSeq(S)) = S
<1> DEFINE n == Cardinality(S)
           f == SetToSeq(S)
<1>1. n \in Nat /\ \E g : g \in Bijection(1 .. n, S)
  BY FS_CardinalityType DEF ExistsBijection
<1>2. \E g \in [1 .. n -> S] : IsInjective(g)
  <2>1. PICK g : g \in Bijection(1 .. n, S)
    BY <1>1
  <2>2. g \in [1 .. n -> S] /\ \A i, j \in 1 .. n : g[i] = g[j] => i = j
    BY <2>1 DEF Bijection, Injection, IsInjective
  <2> QED BY <2>2 DEF IsInjective
<1>3. f \in [1 .. n -> S] /\ IsInjective(f)
  BY <1>2 DEF SetToSeq
<1> HIDE DEF f
<1>4. f \in Injection(1 .. n, S)
  BY <1>3 DEF Injection, IsInjective
<1>5. Cardinality(1 .. n) = n
  BY <1>1, FS_Interval
<1> HIDE DEF n
<1>6. f \in Surjection(1 .. n, S)
  <2>1. Cardinality(1 .. n) = Cardinality(S)
    BY <1>5 DEF n
  <2> QED BY <1>4, <2>1, FS_Injection
<1>7. ToSet(f) = S
  BY <1>3, <1>6 DEF Surjection, ToSet
<1> QED BY <1>7 DEF f

\* What is to be scavenged is selected.
LEMMA SelectScavengableScavenges ==
  ASSUME QInv, TInv', NEW c \in Clients, SelectScavengable(c)
  PROVE  QInv'
<1> DEFINE S == {m.messageId : m \in Scavengable(c)}
           r == Request("delete", tx[c].request.stream, 0, SetToSeq(S), 0)
           t == IF Scavengable(c) = {} THEN Idle ELSE Begin(r, 1)
<1>1. /\ tx[c].pc = "select" /\ Reads /\ Become(c, t)
      /\ tx[c] \in TxSet /\ Course(tx[c]) /\ tx[c].request.op \in {"delete", "scavenge"}
      /\ DOMAIN tx[c].writes = {} /\ Shape /\ Ranges
      /\ \A s : tx[c].id = rows[s].id => MessagesOf(c, tx[c].id) = Stored(s)
  BY SeesCommitted DEF SelectScavengable, QInv, TInv
<1>2. Scavengable(c) \in SUBSET MessageSet /\ IsFiniteSet(Scavengable(c))
  <2>1. Scavengable(c) \subseteq Visible(c)
    BY DEF Scavengable, MessagesOf
  <2> QED BY <1>1, <2>1, Sees, FS_Subset
<1>3. IsFiniteSet(S) /\ S \subseteq MessageIds
  <2> DEFINE f == [m \in Scavengable(c) |-> m.messageId]
  <2>1. f \in Surjection(Scavengable(c), S)
    BY DEF Surjection
  <2>2. IsFiniteSet(S)
    BY <1>2, <2>1, FS_Surjection
  <2>3. S \subseteq MessageIds
    BY <1>2 DEF MessageSet
  <2> QED BY <2>2, <2>3
<1>4. \A s \in Streams : Removes(tx[c], s) =>
        /\ tx[c].request.stream = s /\ Excess(s) = Scavengable(c)
        /\ \A m \in Excess(s) : m.messageId \in S
  BY <1>1 DEF Removes, Course, Excess, Scavengable
<1> HIDE DEF S
<1>5. SetToSeq(S) \in Seq(MessageIds) /\ Injective(SetToSeq(S)) /\ ToSet(SetToSeq(S)) = S
  BY <1>3, SetToSeqIs, SetToSeqHasAll
<1>6. IsCall(r) /\ r.op = "delete" /\ r.stream = tx[c].request.stream /\ r.ids = SetToSeq(S)
  <2>1. tx[c].request.stream \in Streams \cup {DeletedStream}
    BY <1>1 DEF TxSet, RequestSet
  <2>2. r \in RequestSet
    <3>1. "delete" \in {"append", "metadata", "delete", "delete stream", "scavenge"}
      OBVIOUS
    <3>2. 0 \in Int /\ 0 \in Nat
      OBVIOUS
    <3> QED BY <1>5, <2>1, <3>1, <3>2, RequestIs, Zenon
  <2>3. r.op = "delete" /\ r.expected = 0 /\ r.ids = SetToSeq(S) /\ r.stream = tx[c].request.stream
    BY DEF Request
  <2> QED BY <1>5, <2>2, <2>3 DEF IsCall, ExpectedVersionAny
<1> HIDE DEF r
<1>7. /\ Course(Begin(r, 1)) /\ DOMAIN Begin(r, 1).writes = {} /\ Begin(r, 1).inserted = {}
      /\ Begin(r, 1).request = r /\ Begin(r, 1).ids = SetToSeq(S) /\ Begin(r, 1).pc = "locate"
  <2>1. r.op \in {"delete", "scavenge"} /\ (r.op = "delete stream" => r.stream # DeletedStream) /\ 1 \in Nat
    BY <1>6
  <2> QED BY <1>6, <2>1, BeginsCourse, Zenon
<1>8. Course(t) /\ DOMAIN t.writes = {} /\ t.inserted = {}
  BY <1>7, IdleCourse
<1>9. \A s \in Streams : Removes(tx[c], s) => Removes(t, s) \/ Excess(s) = {}
  <2> SUFFICES ASSUME NEW s \in Streams, Removes(tx[c], s), Excess(s) # {}
               PROVE  Removes(Begin(r, 1), s)
    BY <1>4
  <2> QED BY <1>4, <1>5, <1>6, <1>7 DEF Removes
<1> HIDE DEF t
<1>10. Writes(c, t, DeletedStream) /\ Inserts(c, t)
  BY <1>1, <1>8 DEF Writes, Inserts
<1> QED BY <1>1, <1>8, <1>9, <1>10, GoesOn DEF Reads

-----------------------------------------------------------------------------
(***************************************************************************)
(* Lemmas: a commit                                                        *)
(***************************************************************************)

\* What the invariant says of a transaction that commits.
LEMMA CommitChanges ==
  ASSUME QInv, NEW c \in Clients, Commit(c)
  PROVE  /\ tx[c].pc = "commit" /\ tx[c] \in TxSet /\ Course(tx[c])
         /\ tx[c].request.op \in {"append", "metadata", "delete", "delete stream", "scavenge"}
         /\ \A s \in AllStreams : rows'[s] = Row(c, s)
         /\ messages' = (messages \ tx[c].deleted) \cup tx[c].inserted
         /\ \A d \in Clients \ {c} : tx'[d] = tx[d]
         /\ DOMAIN tx'[c].writes = {} /\ tx'[c].inserted = {} /\ Course(tx'[c])
         /\ ~ lost' => ~ lost /\ tx'[c] = Followed(tx[c])
         /\ \A d \in Clients \ {c} : \A s \in DOMAIN tx[d].writes : rows'[s] = rows[s]
         /\ \A d \in Clients : \A m \in tx[d].inserted : m.id \in Nat /\ m.id # 0 /\ m.streamId \in AllStreams
<1>1. /\ tx[c].pc = "commit" /\ tx[c] \in TxSet /\ Course(tx[c]) /\ tx[c].request \in RequestSet
      /\ rows' = [s \in AllStreams |-> Row(c, s)] /\ messages' = Visible(c)
      /\ tx \in [Clients -> TxSet]
  BY QFacts, CommitSteps DEF QInv, TInv, Shape
<1>2. PICK t \in {Followed(tx[c]), Idle} : Become(c, t) /\ (~ lost' => ~ lost /\ t = Followed(tx[c]))
  BY DEF Commit
<1>3. tx'[c] = t /\ \A d \in Clients \ {c} : tx'[d] = tx[d]
  BY <1>1, <1>2 DEF Become
<1>4. Course(t) /\ DOMAIN t.writes = {} /\ t.inserted = {}
  <2> DEFINE r == Request("scavenge", tx[c].request.stream, 0, << >>, tx[c].maxCount)
  <2>1. IsCall(r) /\ r.op = "scavenge"
    <3>1. tx[c].request.stream \in Streams \cup {DeletedStream} /\ tx[c].maxCount \in Nat
      BY <1>1 DEF TxSet, RequestSet
    <3>2. << >> \in Seq(MessageIds) /\ 0 \in Int
      OBVIOUS
    <3>3. "scavenge" \in {"append", "metadata", "delete", "delete stream", "scavenge"}
      OBVIOUS
    <3>4. r \in RequestSet
      BY <3>1, <3>2, <3>3, RequestIs, Zenon
    <3>5. r.op = "scavenge" /\ r.expected = 0 /\ r.ids = << >>
      BY DEF Request
    <3> QED BY <3>4, <3>5 DEF IsCall, ExpectedVersionAny, Injective
  <2> HIDE DEF r
  <2>2. t \in {Begin(r, 1), Idle}
    BY DEF Followed, r
  <2>3. Course(Begin(r, 1)) /\ DOMAIN Begin(r, 1).writes = {} /\ Begin(r, 1).inserted = {}
    <3>1. (r.op = "delete stream" => r.stream # DeletedStream) /\ 1 \in Nat
      BY <2>1
    <3> QED BY <2>1, <3>1, BeginsCourse, Zenon
  <2> QED BY <2>2, <2>3, IdleCourse
<1>5. \A d \in Clients \ {c} : \A s \in DOMAIN tx[d].writes : rows'[s] = rows[s]
  <2> SUFFICES ASSUME NEW d \in Clients \ {c}, NEW s \in DOMAIN tx[d].writes PROVE rows'[s] = rows[s]
    OBVIOUS
  <2>1. s \in AllStreams
    BY QFacts
  <2>2. s \notin DOMAIN tx[c].writes
    BY DEF QInv, Rows
  <2> QED BY <1>1, <2>1, <2>2 DEF Row
<1>6. ASSUME NEW d \in Clients, NEW m \in tx[d].inserted
      PROVE  m.id \in Nat /\ m.id # 0 /\ m.streamId \in AllStreams
  <2>1. InRange(tx[d], nextId, position) /\ tx[d] \in TxSet
    BY QFacts
  <2>2. m \in MessageSet /\ m.id >= 1
    BY <2>1 DEF InRange, IsMessage, TxSet
  <2> QED BY <2>2 DEF MessageSet
<1>7. tx[c].request.op \in {"append", "metadata", "delete", "delete stream", "scavenge"}
  BY <1>1 DEF RequestSet
<1> QED BY <1>1, <1>2, <1>3, <1>4, <1>5, <1>6, <1>7 DEF Visible

\* A commit leaves each row that of one stream.
LEMMA CommitRows ==
  ASSUME QInv, NEW c \in Clients, Commit(c)
  PROVE  Rows'
<1>1. /\ \A s \in AllStreams : rows'[s] = Row(c, s)
      /\ messages' = (messages \ tx[c].deleted) \cup tx[c].inserted
      /\ \A d \in Clients \ {c} : tx'[d] = tx[d]
      /\ DOMAIN tx'[c].writes = {}
      /\ \A d \in Clients \ {c} : \A s \in DOMAIN tx[d].writes : s \in AllStreams /\ rows'[s] = rows[s]
      /\ \A m \in tx[c].inserted : m.id \in Nat /\ m.id # 0 /\ m.streamId \in AllStreams
  BY CommitChanges, QFacts
<1>2. \A s \in AllStreams, n \in Nat : Named(s, n)' => Named(s, n)
  BY <1>1 DEF Named, Row
<1>3. \A s, u \in AllStreams, n \in Nat : (n # 0 /\ Named(s, n)' /\ Named(u, n)') => s = u
  BY <1>2 DEF QInv, Rows
<1>4. \A d, e \in Clients : d # e => DOMAIN tx'[d].writes \cap DOMAIN tx'[e].writes = {}
  BY <1>1 DEF QInv, Rows
<1>5. ASSUME NEW d \in Clients, NEW s \in DOMAIN tx'[d].writes
      PROVE  \/ tx'[d].writes[s] = NoRow \/ tx'[d].writes[s].id = rows'[s].id
             \/ rows'[s].id = 0 /\ \A m \in messages' : m.id # tx'[d].writes[s].id
  <2>1. d # c /\ tx'[d] = tx[d] /\ s \in DOMAIN tx[d].writes /\ rows'[s] = rows[s] /\ s \in AllStreams
    BY <1>1, <1>5
  <2> SUFFICES ASSUME rows[s].id = 0, \A m \in messages : m.id # tx[d].writes[s].id,
                      NEW m \in tx[c].inserted, m.id = tx[d].writes[s].id
               PROVE  FALSE
    BY <1>1, <2>1 DEF QInv, Rows
  <2>2. Row(c, m.streamId).id = m.id
    BY DEF QInv, References
  <2>3. Named(s, m.id) /\ Named(m.streamId, m.id)
    BY <2>1, <2>2 DEF Named, Row
  <2>4. m.streamId = s
    BY <1>1, <2>1, <2>3 DEF QInv, Rows
  <2>5. s \notin DOMAIN tx[c].writes
    BY <2>1 DEF QInv, Rows
  <2> QED BY <1>1, <2>2, <2>4, <2>5 DEF Row
<1> QED BY <1>3, <1>4, <1>5 DEF Rows

\* A commit leaves the rows that the others' messages refer to.
LEMMA CommitReferences ==
  ASSUME QInv, NEW c \in Clients, Commit(c)
  PROVE  References'
<1>1. /\ \A s \in AllStreams : rows'[s] = Row(c, s)
      /\ \A d \in Clients \ {c} : tx'[d] = tx[d]
      /\ DOMAIN tx'[c].writes = {} /\ tx'[c].inserted = {}
      /\ \A d \in Clients : \A m \in tx[d].inserted : m.streamId \in AllStreams
  BY CommitChanges
<1> SUFFICES ASSUME NEW e \in Clients \ {c}, NEW m \in tx[e].inserted
             PROVE  /\ m.streamId = tx'[e].target /\ m.id = tx'[e].id /\ Row(e, m.streamId)'.id = m.id
                    /\ \A d \in Clients :
                         m.streamId \in DOMAIN tx'[d].writes => tx'[d].writes[m.streamId].id = m.id
  BY <1>1 DEF References
<1>2. /\ m.streamId = tx[e].target /\ m.id = tx[e].id /\ Row(e, m.streamId).id = m.id
      /\ \A d \in Clients : m.streamId \in DOMAIN tx[d].writes => tx[d].writes[m.streamId].id = m.id
  BY DEF QInv, References
<1>3. Row(e, m.streamId)'.id = m.id
  BY <1>1, <1>2 DEF Row
<1> QED BY <1>1, <1>2, <1>3

\* A commit leaves the others on their course.
LEMMA CommitCourse ==
  ASSUME QInv, NEW c \in Clients, Commit(c), NEW d \in Clients
  PROVE  Course(tx[d])'
<1>1. Course(tx'[d]) /\ \A s \in DOMAIN tx'[d].writes : rows'[s] = rows[s]
  <2>1. CASE d = c
    BY <2>1, CommitChanges
  <2>2. CASE d # c
    BY <2>2, CommitChanges DEF QInv
  <2> QED BY <2>1, <2>2
<1>2. KnowsPolicy(tx'[d]) = KnowsPolicy(tx[d])'
  BY <1>1 DEF KnowsPolicy
<1>3. AppendsTo(tx'[d]) = AppendsTo(tx[d])'
  BY DEF AppendsTo
<1> QED BY <1>1, <1>2, <1>3 DEF Course

\* A commit that inserts nothing into a stream leaves no message over that was not.
LEMMA CommitExcess ==
  ASSUME QInv, NEW c \in Clients, Commit(c), NEW s \in AllStreams, rows'[s] = rows[s],
         \A m \in tx[c].inserted : m.id # rows[s].id
  PROVE  Excess(s)' \subseteq Excess(s) \ tx[c].deleted
<1>1. messages' = (messages \ tx[c].deleted) \cup tx[c].inserted
  BY CommitChanges
<1>2. Stored(s)' = {m \in messages' : m.id = rows[s].id}
  BY DEF Stored
<1>3. Stored(s)' \subseteq Stored(s) \ tx[c].deleted
  BY <1>1, <1>2 DEF Stored
<1>4. IsFiniteSet(Stored(s))
  <2>1. Stored(s) \in SUBSET messages /\ IsFiniteSet(messages)
    BY DEF Stored, QInv, TInv, Shape
  <2> QED BY <2>1, FS_Subset
<1>5. ASSUME NEW m \in Excess(s)' PROVE m \in Excess(s)
  <2> DEFINE now == {k \in Stored(s) : k.streamVersion > m.streamVersion}
             then == {k \in Stored(s)' : k.streamVersion > m.streamVersion}
  <2>1. m \in Stored(s)' /\ Cardinality(then) >= rows[s].maxCount
    BY <1>5 DEF Excess
  <2>2. then \in SUBSET now /\ now \in SUBSET Stored(s)
    BY <1>3
  <2> HIDE DEF now, then
  <2>3. IsFiniteSet(now)
    BY <1>4, <2>2, FS_Subset
  <2>4. Cardinality(then) <= Cardinality(now) /\ IsFiniteSet(then)
    BY <2>2, <2>3, FS_Subset
  <2>5. Cardinality(then) \in Nat /\ Cardinality(now) \in Nat /\ rows[s].maxCount \in Nat
    BY <2>3, <2>4, FS_CardinalityType DEF QInv, TInv, Shape, RowSet
  <2>6. Cardinality(now) >= rows[s].maxCount
    BY <2>1, <2>4, <2>5
  <2> QED BY <1>3, <2>1, <2>6 DEF Excess, now
<1>6. Excess(s)' \subseteq Stored(s)'
  BY DEF Excess
<1> QED BY <1>3, <1>5, <1>6

\* What is too much after a commit is still to be removed.
LEMMA CommitKept ==
  ASSUME ClientStreams, QInv, NEW c \in Clients, Commit(c), ~ lost'
  PROVE  Kept'
<1> SUFFICES ASSUME NEW s \in Streams, rows'[s].maxCount # 0, Excess(s)' # {}
             PROVE  \E d \in Clients : Removes(tx[d], s)'
  BY DEF Kept
<1> DEFINE t == tx[c]
<1>1. /\ t.pc = "commit" /\ t \in TxSet /\ Course(t)
      /\ t.request.op \in {"append", "metadata", "delete", "delete stream", "scavenge"}
      /\ \A u \in AllStreams : rows'[u] = Row(c, u)
      /\ messages' = (messages \ t.deleted) \cup t.inserted
      /\ \A d \in Clients \ {c} : tx'[d] = tx[d]
      /\ ~ lost /\ tx'[c] = Followed(t)
      /\ \A m \in t.inserted : m.id \in Nat /\ m.id # 0 /\ m.streamId \in AllStreams
  BY CommitChanges
<1>2. /\ s \in AllStreams /\ s # DeletedStream /\ rows'[s] = Row(c, s)
      /\ t.request.op = "metadata" => MetaStream(t.request.stream) # s
  BY <1>1, StreamKinds, QFacts DEF ClientStreams, IsCall
<1>3. CASE s \in DOMAIN t.writes
  <2>1. rows'[s] = t.writes[s]
    BY <1>2, <1>3 DEF Row
  <2>2. t.request.op \in {"append", "metadata"} /\ s = t.request.stream
    <3>1. CASE t.request.op = "append"
      BY <1>1, <1>3, <3>1 DEF Course
    <3>2. CASE t.request.op = "metadata"
      BY <1>1, <1>2, <1>3, <3>2 DEF Course
    <3>3. CASE t.request.op = "delete stream"
      <4>1. t.writes[s] = NoRow
        BY <1>1, <1>2, <1>3, <3>3 DEF Course
      <4> QED BY <2>1, <4>1 DEF NoRow
    <3>4. CASE t.request.op \in {"delete", "scavenge"}
      BY <1>1, <1>3, <3>4 DEF Course
    <3> QED BY <1>1, <3>1, <3>2, <3>3, <3>4
  <2>3. t.maxCount = t.writes[s].maxCount
    <3>1. CASE t.request.op = "metadata"
      BY <1>1, <1>3, <2>2, <3>1 DEF Course
    <3>2. CASE t.request.op = "append"
      <4>1. s = t.target /\ KnowsPolicy(t)
        BY <1>1, <2>2, <3>2 DEF Course
      <4> SUFFICES ASSUME t.inserted = {}, t.writes[s].id # rows[s].id PROVE FALSE
        BY <1>3, <4>1 DEF KnowsPolicy
      <4>2. \A m \in messages : m.id # t.writes[s].id
        BY <1>3, <2>1 DEF QInv, Rows, NoRow
      <4>3. Stored(s)' = {}
        BY <1>1, <2>1, <4>2 DEF Stored
      <4> QED BY <4>3 DEF Excess
    <3> QED BY <2>2, <3>1, <3>2
  <2> DEFINE r == Request("scavenge", t.request.stream, 0, << >>, t.maxCount)
  <2>4. Followed(t) = Begin(r, 1)
    BY <2>1, <2>2, <2>3 DEF Followed, IsAppend
  <2>5. r.op = "scavenge" /\ r.stream = s /\ r.maxCount = rows'[s].maxCount
    BY <2>1, <2>2, <2>3 DEF Request
  <2> HIDE DEF r
  <2>6. Begin(r, 1).pc = "locate" /\ Begin(r, 1).request = r
    BY <2>5 DEF Begin, Idle
  <2>7. tx'[c].pc = "locate" /\ tx'[c].request = r
    BY <1>1, <2>4, <2>6
  <2>8. Removes(tx[c], s)'
    BY <2>5, <2>7 DEF Removes
  <2> QED BY <2>8
<1>4. CASE s \notin DOMAIN t.writes
  <2>1. rows'[s] = rows[s]
    BY <1>2, <1>4 DEF Row
  <2>2. \A m \in t.inserted : m.id # rows[s].id
    <3> SUFFICES ASSUME NEW m \in t.inserted, m.id = rows[s].id PROVE FALSE
      OBVIOUS
    <3>1. m.streamId = t.target /\ Row(c, m.streamId).id = m.id
      BY DEF QInv, References
    <3>2. Named(s, m.id) /\ Named(m.streamId, m.id)
      BY <3>1 DEF Named, Row
    <3>3. s = t.target
      BY <1>1, <1>2, <3>1, <3>2 DEF QInv, Rows
    <3> QED BY <1>1, <1>2, <1>4, <3>3 DEF Course, KnowsPolicy
  <2>3. Excess(s)' \subseteq Excess(s) \ t.deleted
    BY <1>2, <2>1, <2>2, CommitExcess
  <2>4. PICK d \in Clients : Removes(tx[d], s)
    BY <1>1, <2>1, <2>3 DEF QInv, Kept
  <2>5. d # c
    BY <1>1, <2>3, <2>4 DEF Removes, Course
  <2>6. Removes(tx[d], s)'
    <3>1. tx'[d] = tx[d]
      BY <1>1, <2>5
    <3>2. tx[d].pc = "commit" /\ tx[d].request.op = "delete" /\ Excess(s) \subseteq tx[d].deleted
            => Excess(s)' \subseteq tx[d].deleted
      BY <2>3
    <3> QED BY <2>1, <2>3, <2>4, <3>1, <3>2 DEF Removes
  <2> QED BY <2>6
<1> QED BY <1>3, <1>4

\* A commit.
LEMMA CommitScavenges ==
  ASSUME ClientStreams, QInv, TInv', NEW c \in Clients, Commit(c)
  PROVE  QInv'
<1>1. Rows' /\ References' /\ (~ lost' => Kept')
  BY CommitRows, CommitReferences, CommitKept
<1>2. \A d \in Clients : Course(tx[d])'
  BY CommitCourse
<1> QED BY <1>1, <1>2 DEF QInv

-----------------------------------------------------------------------------
(***************************************************************************)
(* The streams are scavenged                                               *)
(***************************************************************************)

\* Initially.
LEMMA ScavengingInit == Init => QInv
<1> SUFFICES ASSUME Init PROVE QInv
  OBVIOUS
<1>1. /\ rows = [s \in AllStreams |-> NoRow] /\ messages = {} /\ tx = [c \in Clients |-> Idle]
  BY DEF Init
<1>2. /\ \A c \in Clients : tx[c] = Idle /\ DOMAIN tx[c].writes = {} /\ tx[c].inserted = {}
      /\ \A s \in AllStreams : rows[s] = NoRow
  BY <1>1, IdleCourse
<1>3. Rows /\ References
  BY <1>2 DEF Rows, References, Named, NoRow
<1>4. Kept
  BY <1>2, StreamKinds DEF Kept, NoRow
<1> QED BY <1>2, <1>3, <1>4, IdleCourse, TInvInit DEF QInv

\* Every step, if a replay writes nothing.
LEMMA ScavengingNext ==
  ASSUME ClientStreams, QInv, ReplayWritesNothing, [Next]_vars
  PROVE  QInv'
<1>1. TInv'
  BY TInvNext DEF QInv
<1>2. CASE UNCHANGED vars
  <2>1. rows' = rows /\ messages' = messages /\ tx' = tx /\ lost' = lost
    BY <1>2 DEF vars
  <2>2. Rows'
    BY <2>1 DEF QInv, Rows, Named
  <2>3. References'
    BY <2>1 DEF QInv, References, Row
  <2>4. \A c \in Clients : Course(tx[c])'
    <3> TAKE c \in Clients
    <3>1. tx'[c] = tx[c] /\ Course(tx'[c])
      BY <2>1 DEF QInv
    <3>2. KnowsPolicy(tx'[c]) = KnowsPolicy(tx[c])'
      BY <2>1 DEF KnowsPolicy
    <3>3. AppendsTo(tx'[c]) = AppendsTo(tx[c])'
      BY DEF AppendsTo
    <3> QED BY <2>1, <3>1, <3>2, <3>3 DEF Course
  <2>5. ~ lost' => Kept'
    BY <2>1 DEF QInv, Kept, Removes, Excess, Stored
  <2> QED BY <1>1, <2>2, <2>3, <2>4, <2>5 DEF QInv
<1>3. ASSUME NEW c \in Clients, Call(c) PROVE QInv'
  BY <1>1, <1>3, CallScavenges
<1>4. ASSUME NEW c \in Clients, ReadMetadata(c) PROVE QInv'
  BY <1>1, <1>4, ReadMetadataScavenges
<1>5. ASSUME NEW c \in Clients, CreateStream(c) PROVE QInv'
  BY <1>1, <1>5, CreateStreamScavenges
<1>6. ASSUME NEW c \in Clients, ReadStream(c) PROVE QInv'
  BY <1>1, <1>6, ReadStreamScavenges
<1>7. ASSUME NEW c \in Clients, CheckVersion(c) PROVE QInv'
  BY <1>1, <1>7, CheckVersionScavenges
<1>8. ASSUME NEW c \in Clients, InsertMessages(c) PROVE QInv'
  BY <1>1, <1>8, InsertMessagesScavenges
<1>9. ASSUME NEW c \in Clients, EnforceIdempotentAppend(c) PROVE QInv'
  BY <1>1, <1>9, EnforceScavenges
<1>10. ASSUME NEW c \in Clients, Replayed(c) PROVE QInv'
  BY <1>1, <1>10, ReplayedScavenges
<1>11. ASSUME NEW c \in Clients, ReadLatest(c) PROVE QInv'
  BY <1>1, <1>11, ReadLatestScavenges
<1>12. ASSUME NEW c \in Clients, UpdateStream(c) PROVE QInv'
  BY <1>1, <1>12, UpdateStreamScavenges
<1>13. ASSUME NEW c \in Clients, UpdatePolicy(c) PROVE QInv'
  BY <1>1, <1>13, UpdatePolicyScavenges
<1>14. ASSUME NEW c \in Clients, LocateStream(c) PROVE QInv'
  BY <1>1, <1>14, LocateStreamScavenges
<1>15. ASSUME NEW c \in Clients, DeleteMessages(c) PROVE QInv'
  BY <1>1, <1>15, DeleteMessagesScavenges
<1>16. ASSUME NEW c \in Clients, SelectScavengable(c) PROVE QInv'
  BY <1>1, <1>16, SelectScavengableScavenges
<1>17. ASSUME NEW c \in Clients, FindStream(c) PROVE QInv'
  BY <1>1, <1>17, FindStreamScavenges
<1>18. ASSUME NEW c \in Clients, CompareVersion(c) PROVE QInv'
  BY <1>1, <1>18, CompareVersionScavenges
<1>19. ASSUME NEW c \in Clients, PurgeMessages(c) PROVE QInv'
  BY <1>1, <1>19, PurgeMessagesScavenges
<1>20. ASSUME NEW c \in Clients, DropStream(c) PROVE QInv'
  BY <1>1, <1>20, DropStreamScavenges
<1>21. ASSUME NEW c \in Clients, Commit(c) PROVE QInv'
  BY <1>1, <1>21, CommitScavenges
<1>22. ASSUME NEW c \in Clients, LoseConnection(c) PROVE QInv'
  BY <1>1, <1>22, LoseConnectionScavenges
<1> QED
  BY <1>2, <1>3, <1>4, <1>5, <1>6, <1>7, <1>8, <1>9, <1>10, <1>11, <1>12, <1>13, <1>14,
     <1>15, <1>16, <1>17, <1>18, <1>19, <1>20, <1>21, <1>22 DEF Next

\* A finite set of messages of which each has fewer than n newer ones has no more than n.
LEMMA FewNewer ==
  ASSUME NEW S \in SUBSET MessageSet, IsFiniteSet(S), NEW n \in Nat,
         \A m, k \in S : m # k => m.streamVersion # k.streamVersion,
         \A m \in S : Cardinality({k \in S : k.streamVersion > m.streamVersion}) < n
  PROVE  Cardinality(S) <= n
<1> DEFINE Newer(m) == {k \in S : k.streamVersion > m.streamVersion}
           f == [m \in S |-> Cardinality(Newer(m))]
<1>1. \A m \in S : IsFiniteSet(Newer(m)) /\ Cardinality(Newer(m)) \in Nat
  BY FS_Subset, FS_CardinalityType
<1>2. f \in [S -> 0 .. n - 1]
  BY <1>1
<1>3. ASSUME NEW m \in S, NEW k \in S, m.streamVersion < k.streamVersion
      PROVE  f[m] # f[k]
  <2>1. m.streamVersion \in Nat /\ k.streamVersion \in Nat
    BY DEF MessageSet
  <2>2. Newer(k) \subseteq Newer(m)
    <3> SUFFICES ASSUME NEW l \in Newer(k) PROVE l.streamVersion > m.streamVersion
      OBVIOUS
    <3>1. l.streamVersion \in Nat
      BY DEF MessageSet
    <3> QED BY <1>3, <2>1, <3>1
  <2>3. k \in Newer(m) /\ k \notin Newer(k)
    BY <1>3, <2>1
  <2>4. Newer(k) \in SUBSET Newer(m) /\ Newer(k) # Newer(m)
    BY <2>2, <2>3
  <2>5. IsFiniteSet(Newer(m))
    BY <1>1
  <2> HIDE DEF Newer
  <2>6. Cardinality(Newer(m)) # Cardinality(Newer(k))
    BY <2>4, <2>5, FS_Subset
  <2> QED BY <2>6
<1>4. \A m, k \in S : f[m] = f[k] => m = k
  <2> SUFFICES ASSUME NEW m \in S, NEW k \in S, m # k PROVE f[m] # f[k]
    OBVIOUS
  <2>1. m.streamVersion \in Nat /\ k.streamVersion \in Nat /\ m.streamVersion # k.streamVersion
    BY DEF MessageSet
  <2>2. m.streamVersion < k.streamVersion \/ k.streamVersion < m.streamVersion
    BY <2>1
  <2> HIDE DEF f
  <2> QED BY <1>3, <2>2
<1> HIDE DEF f
<1>5. f \in Injection(S, 0 .. n - 1)
  BY <1>2, <1>4 DEF Injection, IsInjective
<1>6. IsFiniteSet(0 .. n - 1) /\ Cardinality(0 .. n - 1) = n
  BY FS_Interval
<1> DEFINE T == 0 .. n - 1
<1> HIDE DEF T
<1>7. f \in Injection(S, T) /\ IsFiniteSet(T) /\ Cardinality(T) = n
  BY <1>5, <1>6 DEF T
<1>8. Cardinality(S) <= Cardinality(T)
  BY <1>7, FS_Injection
<1> QED BY <1>7, <1>8

\* When nothing is under way nothing is left to remove.
LEMMA QuietIsScavenged == QInv => ScavengedWhenQuiet
<1> SUFFICES ASSUME QInv, ~ lost, \A c \in Clients : tx[c].pc = "idle",
                    NEW s \in Streams, rows[s].maxCount # 0
             PROVE  Cardinality(Stored(s)) <= rows[s].maxCount
  BY DEF ScavengedWhenQuiet
<1>1. Excess(s) = {}
  BY RemovesNone DEF QInv, Kept
<1>2. /\ messages \in SUBSET MessageSet /\ IsFiniteSet(messages) /\ rows[s].maxCount \in Nat
      /\ \A m, k \in messages : m # k => Apart(m, k)
  BY StreamKinds DEF QInv, TInv, Shape, Keys, RowSet
<1>3. Stored(s) \in SUBSET messages
  BY DEF Stored
<1>4. IsFiniteSet(Stored(s)) /\ Stored(s) \in SUBSET MessageSet
  BY <1>2, <1>3, FS_Subset
<1>5. \A m, k \in Stored(s) : m # k => m.streamVersion # k.streamVersion
  BY <1>2 DEF Stored, Apart, Conflict
<1>6. ASSUME NEW m \in Stored(s)
      PROVE  Cardinality({k \in Stored(s) : k.streamVersion > m.streamVersion}) < rows[s].maxCount
  <2> DEFINE newer == {k \in Stored(s) : k.streamVersion > m.streamVersion}
  <2>1. ~ (Cardinality(newer) >= rows[s].maxCount)
    BY <1>1 DEF Excess
  <2>2. newer \in SUBSET Stored(s)
    OBVIOUS
  <2> HIDE DEF newer
  <2>3. Cardinality(newer) \in Nat
    BY <1>4, <2>2, FS_Subset, FS_CardinalityType
  <2>4. Cardinality(newer) < rows[s].maxCount
    BY <1>2, <2>1, <2>3
  <2> QED BY <2>4 DEF newer
<1> QED BY <1>2, <1>4, <1>5, <1>6, FewNewer

\* pg-stream-store.ts:721: when the calls are over and no connection was lost, no stream has
\* more messages than its maxCount, however the selections and deletions of the scavenges
\* interleave with appends, changes of the policy and deletions, as long as no replay
\* has written anything.  (An append at a version that finds some of its messages stored and
\* inserts the others reads the policy without holding the row of the stream, and misses one
\* that is committed before it.)
THEOREM ScavengedUnlessReplaysWrite ==
  ASSUME ClientStreams
  PROVE  Spec /\ []ReplayWritesNothing => []ScavengedWhenQuiet
<1>1. Init => QInv
  BY ScavengingInit
<1>2. QInv /\ ReplayWritesNothing /\ [Next]_vars => QInv'
  BY ScavengingNext
<1>3. QInv => ScavengedWhenQuiet
  BY QuietIsScavenged
<1> QED BY <1>1, <1>2, <1>3, PTL DEF Spec

\* The clients ask for at most one message at a version.
OneAtAVersion == \A r \in workload : (IsAppend(r) /\ r.expected >= 0) => Len(r.ids) <= 1

\* A transaction that appends at a version has one message at most, and inserts it or
\* finds it.
OneMessage(t) ==
  /\ t.pc \in {"metadata", "create"} => t.expected < 0
  /\ t.pc \in {"version", "replayed"} => t.expected >= 0
  /\ (t.pc \in {"read", "version", "insert", "enforce", "replayed"} /\ t.expected >= 0) => Len(t.ids) <= 1
  /\ (t.pc \in {"enforce", "replayed"} /\ t.expected >= 0) => t.inserted = {}
OInv == TInv /\ (OneAtAVersion => \A c \in Clients : OneMessage(tx[c]))

\* A transaction that begins.
LEMMA BeginsWithOne ==
  ASSUME NEW r, r \in RequestSet, NEW n, (IsAppend(r) /\ r.expected >= 0) => Len(r.ids) <= 1
  PROVE  OneMessage(Begin(r, n))
<1> DEFINE start == CASE r.op \in {"delete", "scavenge"} -> "locate"
                      [] r.op = "delete stream" -> "find"
                      [] OTHER -> AppendStart(r.expected)
           target == IF r.op = "metadata" THEN MetaStream(r.stream) ELSE r.stream
           t == Begin(r, n)
<1>1. r.op \in {"append", "metadata", "delete", "delete stream", "scavenge"} /\ r.expected \in Int
  BY DEF RequestSet
<1>2. /\ start \in {"locate", "find", "metadata", "read"} /\ (start = "read" => IsAppend(r))
      /\ start = "metadata" => r.expected < 0
  BY <1>1 DEF AppendStart, IsAppend
<1> HIDE DEF start, target
<1>3. t = [Idle EXCEPT !.pc = start, !.request = r, !.tries = n, !.target = target,
                       !.expected = r.expected, !.ids = r.ids]
  BY DEF Begin, start, target
<1>4. t.pc = start /\ t.expected = r.expected /\ t.ids = r.ids
  BY <1>3 DEF Idle
<1> HIDE DEF t
<1>5. OneMessage(t)
  BY <1>2, <1>4 DEF OneMessage
<1> QED BY <1>5 DEF t

\* A transaction that is over.
LEMMA IdleHasOne == OneMessage(Idle)
BY DEF OneMessage, Idle

\* A transaction that starts over expected any version.
LEMMA RollsBackToOne ==
  ASSUME TInv, NEW c \in Clients, WrongExpectedVersion(c) \/ Reject(c)
  PROVE  \E t : Become(c, t) /\ OneMessage(t)
<1>1. tx[c].request \in RequestSet
  BY DEF TInv, Shape, TxSet
<1>2. tx[c].request.expected = ExpectedVersionAny =>
        OneMessage(Begin(tx[c].request, tx[c].tries + 1))
  BY <1>1, BeginsWithOne DEF ExpectedVersionAny
<1> QED BY <1>2, IdleHasOne DEF WrongExpectedVersion, Reject

\* A transaction that goes on with the same messages.
LEMMA GoesOnWithOne ==
  ASSUME NEW c \in Clients, OneMessage(tx[c]), NEW t, Become(c, t), t.expected = tx[c].expected, t.ids = tx[c].ids,
         t.inserted = tx[c].inserted,
         t.pc # "metadata" /\ t.pc # "read",
         t.pc = "create" => tx[c].pc = "metadata",
         t.pc \in {"version", "replayed"} => t.expected >= 0,
         t.pc \in {"version", "insert", "replayed"} =>
           tx[c].pc \in {"read", "version", "enforce"},
         t.pc = "replayed" => tx[c].pc = "enforce",
         t.pc # "enforce"
  PROVE  \E u : Become(c, u) /\ OneMessage(u)
BY DEF OneMessage

\* The messages of an append at a version are inserted together, or not at all.
LEMMA InsertsOneOrNone ==
  ASSUME TInv, NEW c \in Clients, OneMessage(tx[c]), InsertMessages(c)
  PROVE  \E t : Become(c, t) /\ OneMessage(t)
<1>1. CASE Reject(c)
  BY <1>1, RollsBackToOne
<1>2. CASE ~ Reject(c)
  <2> DEFINE t == AfterInsert(c)
             ids == tx[c].ids
  <2>1. tx[c].pc = "insert" /\ Become(c, t)
    BY <1>2, InsertSteps
  <2>2. /\ t.pc \in {"latest", "enforce"} /\ (t.pc = "latest" <=> Cardinality(NewOnes(c)) = Len(ids))
        /\ t.expected = tx[c].expected /\ t.ids = ids /\ t.inserted = NewOnes(c)
    BY <2>1, AfterInsertIs
  <2>3. tx[c] \in TxSet /\ ids \in Seq(MessageIds)
    BY DEF TInv, Shape, TxSet
  <2> HIDE DEF t
  <2>4. ASSUME t.pc = "enforce", tx[c].expected >= 0 PROVE NewOnes(c) = {}
    <3>1. Len(ids) <= 1 /\ Len(ids) \in Nat /\ DOMAIN ids = 1 .. Len(ids)
      BY <2>1, <2>3, <2>4 DEF OneMessage
    <3>2. NewOnes(c) \subseteq {NewMessage(c, i) : i \in DOMAIN ids}
      BY <2>1, NewMessagesAre DEF NewOnes
    <3> HIDE DEF ids
    <3>3. CASE Len(ids) = 0
      BY <3>1, <3>2, <3>3
    <3>4. CASE Len(ids) = 1
      <4> SUFFICES ASSUME NewOnes(c) # {} PROVE FALSE
        OBVIOUS
      <4>1. DOMAIN ids = {1}
        BY <3>1, <3>4
      <4>2. NewOnes(c) = {NewMessage(c, 1)}
        BY <3>2, <4>1
      <4>3. Cardinality(NewOnes(c)) = 1
        BY <4>2, FS_Singleton
      <4> QED BY <2>2, <2>4, <3>4, <4>3
    <3> QED BY <3>1, <3>3, <3>4
  <2>5. OneMessage(t)
    BY <2>1, <2>2, <2>4 DEF OneMessage
  <2> QED BY <2>1, <2>5
<1> QED BY <1>1, <1>2

\* append_to_stream keeps to one message.
LEMMA AppendsOne ==
  ASSUME TInv, NEW c \in Clients, OneMessage(tx[c]), AppendToStream(c)
  PROVE  \E t : Become(c, t) /\ OneMessage(t)
<1>1. tx[c] \in TxSet /\ tx[c].expected \in Int
  BY DEF TInv, Shape, TxSet
<1>2. ASSUME ReadMetadata(c) PROVE \E t : Become(c, t) /\ OneMessage(t)
  <2>1. PICK n : Become(c, [tx[c] EXCEPT !.pc = "create", !.maxCount = n]) /\ tx[c].pc = "metadata"
    BY <1>2 DEF ReadMetadata
  <2> DEFINE t == [tx[c] EXCEPT !.pc = "create", !.maxCount = n]
  <2>2. t.pc = "create" /\ t.expected = tx[c].expected /\ t.ids = tx[c].ids /\ t.inserted = tx[c].inserted
    BY <1>1 DEF TxSet
  <2> QED BY <2>1, <2>2, GoesOnWithOne
<1>3. ASSUME CreateStream(c) PROVE \E t : Become(c, t) /\ OneMessage(t)
  <2>1. PICK w : Become(c, [tx[c] EXCEPT !.pc = "read", !.writes = w]) /\ tx[c].pc = "create"
    <3>1. [tx[c] EXCEPT !.pc = "read"] = [tx[c] EXCEPT !.pc = "read", !.writes = tx[c].writes]
      BY <1>1 DEF TxSet
    <3> QED BY <1>3, <3>1 DEF CreateStream, Go
  <2> DEFINE t == [tx[c] EXCEPT !.pc = "read", !.writes = w]
  <2>2. t.pc = "read" /\ t.expected = tx[c].expected
    BY <1>1 DEF TxSet
  <2>3. OneMessage(t)
    BY <1>1, <2>1, <2>2 DEF OneMessage
  <2> QED BY <2>1, <2>3
<1>4. ASSUME ReadStream(c) PROVE \E t : Become(c, t) /\ OneMessage(t)
  <2> DEFINE pc == IF tx[c].expected >= 0 THEN "version" ELSE IF tx[c].ids = << >> THEN "commit" ELSE "insert"
  <2>1. PICK n, v : Become(c, [tx[c] EXCEPT !.id = n, !.current = v, !.maxCount = 0, !.pc = pc])
                    /\ tx[c].pc = "read"
    BY <1>4 DEF ReadStream
  <2> DEFINE t == [tx[c] EXCEPT !.id = n, !.current = v, !.maxCount = 0, !.pc = pc]
  <2>2. t.pc = pc /\ t.expected = tx[c].expected /\ t.ids = tx[c].ids /\ t.inserted = tx[c].inserted
    BY <1>1 DEF TxSet
  <2>3. pc \in {"version", "commit", "insert"} /\ (pc = "version" => tx[c].expected >= 0)
    OBVIOUS
  <2>4. Become(c, t)
    BY <2>1
  <2> HIDE DEF t, pc
  <2> QED BY <2>1, <2>2, <2>3, <2>4, GoesOnWithOne
<1>5. ASSUME CheckVersion(c) PROVE \E t : Become(c, t) /\ OneMessage(t)
  <2> DEFINE pc == IF tx[c].ids = << >> THEN "commit" ELSE "insert"
             t == [tx[c] EXCEPT !.pc = pc]
  <2>1. tx[c].pc = "version" /\ (WrongExpectedVersion(c) \/ Become(c, t))
    BY <1>5 DEF CheckVersion, Go
  <2>2. t.pc = pc /\ t.expected = tx[c].expected /\ t.ids = tx[c].ids /\ t.inserted = tx[c].inserted
    BY <1>1 DEF TxSet
  <2>3. pc \in {"commit", "insert"}
    OBVIOUS
  <2> HIDE DEF t, pc
  <2> QED BY <2>1, <2>2, <2>3, GoesOnWithOne, RollsBackToOne
<1>6. ASSUME EnforceIdempotentAppend(c) PROVE \E t : Become(c, t) /\ OneMessage(t)
  <2> DEFINE pc == IF tx[c].expected < 0 THEN "latest" ELSE "replayed"
             t == [tx[c] EXCEPT !.pc = pc]
  <2>1. tx[c].pc = "enforce" /\ (WrongExpectedVersion(c) \/ Become(c, t))
    BY <1>6 DEF EnforceIdempotentAppend, Go
  <2>2. t.pc = pc /\ t.expected = tx[c].expected /\ t.ids = tx[c].ids /\ t.inserted = tx[c].inserted
    BY <1>1 DEF TxSet
  <2>3. pc \in {"latest", "replayed"} /\ (pc = "replayed" => tx[c].expected >= 0)
    BY <1>1
  <2> HIDE DEF t, pc
  <2> QED BY <2>1, <2>2, <2>3, GoesOnWithOne, RollsBackToOne
<1>7. ASSUME \/ Replayed(c) \/ ReadLatest(c) \/ UpdateStream(c) \/ UpdatePolicy(c)
      PROVE  \E t : Become(c, t) /\ OneMessage(t)
  <2> DEFINE after == IF tx[c].request.op = "metadata" THEN "policy" ELSE "commit"
             Past(t) == t.pc \in {"update", "policy", "commit"}
  <2>1. after \in {"policy", "commit"}
    OBVIOUS
  <2> HIDE DEF after
  <2>2. ASSUME Replayed(c) PROVE \E t : Become(c, t) /\ Past(t)
    <3>1. PICK v, n : Become(c, [tx[c] EXCEPT !.pc = after, !.current = v, !.maxCount = n])
      BY <2>2 DEF Replayed, after
    <3>2. [tx[c] EXCEPT !.pc = after, !.current = v, !.maxCount = n].pc = after
      BY <1>1 DEF TxSet
    <3> QED BY <2>1, <3>1, <3>2
  <2>3. ASSUME ReadLatest(c), ~ Reject(c) PROVE \E t : Become(c, t) /\ Past(t)
    <3>1. PICK v : Become(c, [tx[c] EXCEPT !.pc = "update", !.current = v])
      BY <2>3 DEF ReadLatest
    <3>2. [tx[c] EXCEPT !.pc = "update", !.current = v].pc = "update"
      BY <1>1 DEF TxSet
    <3> QED BY <3>1, <3>2
  <2>4. ASSUME UpdateStream(c) PROVE \E t : Become(c, t) /\ Past(t)
    <3>1. \/ Become(c, [tx[c] EXCEPT !.pc = after])
          \/ \E n, w : Become(c, [tx[c] EXCEPT !.pc = after, !.maxCount = n, !.writes = w])
      BY <2>4 DEF UpdateStream, after
    <3>2. /\ [tx[c] EXCEPT !.pc = after].pc = after
          /\ \A n, w : [tx[c] EXCEPT !.pc = after, !.maxCount = n, !.writes = w].pc = after
      BY <1>1 DEF TxSet
    <3> QED BY <2>1, <3>1, <3>2
  <2>5. ASSUME UpdatePolicy(c) PROVE \E t : Become(c, t) /\ Past(t)
    <3>1. \/ \E n : Become(c, [tx[c] EXCEPT !.pc = "commit", !.maxCount = n])
          \/ \E n, w : Become(c, [tx[c] EXCEPT !.pc = "commit", !.maxCount = n, !.writes = w])
      BY <2>5 DEF UpdatePolicy
    <3>2. /\ \A n : [tx[c] EXCEPT !.pc = "commit", !.maxCount = n].pc = "commit"
          /\ \A n, w : [tx[c] EXCEPT !.pc = "commit", !.maxCount = n, !.writes = w].pc = "commit"
      BY <1>1 DEF TxSet
    <3> QED BY <3>1, <3>2
  <2>6. \A t : Past(t) => OneMessage(t)
    BY DEF OneMessage
  <2> QED BY <1>7, <2>2, <2>3, <2>4, <2>5, <2>6, RollsBackToOne
<1> QED BY <1>2, <1>3, <1>4, <1>5, <1>6, <1>7, InsertsOneOrNone DEF AppendToStream

\* The other statements have to do with no message that is appended.
LEMMA OthersKeepOne ==
  ASSUME TInv, NEW c \in Clients, OneMessage(tx[c]),
         LocateStream(c) \/ DeleteMessages(c) \/ SelectScavengable(c) \/ DeleteStream(c)
  PROVE  \E t : Become(c, t) /\ OneMessage(t)
<1> DEFINE Deletes(t) == t.pc \in {"select", "delete", "commit", "compare", "purge", "drop"}
<1>1. tx[c] \in TxSet
  BY DEF TInv, Shape
<1>2. \A t : Deletes(t) => OneMessage(t)
  BY DEF OneMessage
<1>3. ASSUME LocateStream(c) PROVE \E t : Become(c, t) /\ Deletes(t)
  <2> DEFINE pc == IF tx[c].request.op = "scavenge" THEN "select" ELSE "delete"
             t == [tx[c] EXCEPT !.id = Row(c, tx[c].target).id, !.pc = pc]
  <2>1. Become(c, t)
    BY <1>3 DEF LocateStream
  <2>2. t.pc \in {"select", "delete"}
    BY <1>1 DEF TxSet
  <2> HIDE DEF t
  <2> QED BY <2>1, <2>2
<1>4. ASSUME DeleteMessages(c) \/ PurgeMessages(c) PROVE \E t : Become(c, t) /\ Deletes(t)
  <2>1. \/ \E gone : Become(c, [tx[c] EXCEPT !.pc = "commit", !.deleted = gone])
        \/ \E gone : Become(c, [tx[c] EXCEPT !.pc = "drop", !.deleted = gone])
    BY <1>4 DEF DeleteMessages, PurgeMessages
  <2>2. /\ \A gone : [tx[c] EXCEPT !.pc = "commit", !.deleted = gone].pc = "commit"
        /\ \A gone : [tx[c] EXCEPT !.pc = "drop", !.deleted = gone].pc = "drop"
    BY <1>1 DEF TxSet
  <2> QED BY <2>1, <2>2
<1>5. ASSUME SelectScavengable(c) PROVE \E t : Become(c, t) /\ OneMessage(t)
  <2>1. PICK ids : \/ Become(c, Idle)
                   \/ Become(c, Begin(Request("delete", tx[c].request.stream, 0, ids, 0), 1))
    BY <1>5 DEF SelectScavengable
  <2> DEFINE r == Request("delete", tx[c].request.stream, 0, ids, 0)
  <2>2. r.op = "delete"
    BY DEF Request
  <2> HIDE DEF r
  <2>3. Begin(r, 1).pc = "locate"
    BY <2>2 DEF Begin, Idle
  <2>4. OneMessage(Begin(r, 1))
    BY <2>3 DEF OneMessage
  <2> QED BY <2>1, <2>4, IdleHasOne DEF r
<1>6. ASSUME FindStream(c), ~ WrongExpectedVersion(c) PROVE \E t : Become(c, t) /\ Deletes(t)
  <2> DEFINE pc == IF tx[c].expected >= 0 THEN "compare" ELSE "purge"
             found == [tx[c] EXCEPT !.id = Row(c, tx[c].target).id, !.pc = pc]
             none == [tx[c] EXCEPT !.pc = "commit"]
  <2>1. Become(c, none) \/ Become(c, found)
    BY <1>6 DEF FindStream, Go
  <2>2. none.pc = "commit" /\ found.pc = pc /\ pc \in {"compare", "purge"}
    BY <1>1 DEF TxSet
  <2> QED BY <2>1, <2>2
<1>7. ASSUME CompareVersion(c), ~ WrongExpectedVersion(c) PROVE \E t : Become(c, t) /\ Deletes(t)
  <2> DEFINE t == [tx[c] EXCEPT !.pc = "purge"]
  <2>1. Become(c, t)
    BY <1>7 DEF CompareVersion, Go
  <2>2. t.pc = "purge"
    BY <1>1 DEF TxSet
  <2> QED BY <2>1, <2>2
<1>8. ASSUME DropStream(c), ~ Reject(c) PROVE \E t : Become(c, t) /\ OneMessage(t)
  <2> DEFINE none == [tx[c] EXCEPT !.pc = "commit"]
             ids == << <<tx[c].request.stream, "deleted", tx[c].request.expected>> >>
             t == [tx[c] EXCEPT !.pc = AppendStart(ExpectedVersionAny),
                                !.writes = Wrote(tx[c], tx[c].target, NoRow), !.target = DeletedStream,
                                !.expected = ExpectedVersionAny, !.ids = ids]
  <2>1. Become(c, none) \/ Become(c, t)
    BY <1>8 DEF DropStream, Go
  <2>2. none.pc = "commit"
    BY <1>1 DEF TxSet
  <2>3. t.pc = "metadata" /\ t.expected = -2
    BY <1>1 DEF TxSet, AppendStart, ExpectedVersionAny
  <2> HIDE DEF t, none
  <2>4. OneMessage(t) /\ OneMessage(none)
    BY <2>2, <2>3 DEF OneMessage
  <2> QED BY <2>1, <2>4
<1> QED BY <1>2, <1>3, <1>4, <1>5, <1>6, <1>7, <1>8, RollsBackToOne DEF DeleteStream

\* Every step keeps to one message at a version.
LEMMA OneMessageNext == OInv /\ [Next]_vars => OInv'
<1> SUFFICES ASSUME OInv, [Next]_vars PROVE OInv'
  OBVIOUS
<1>1. TInv' /\ workload' = workload /\ tx \in [Clients -> TxSet]
  <2>1. TInv'
    BY TInvNext DEF OInv
  <2>2. workload' = workload
    BY DEF Next, vars, Call, ReadMetadata, CreateStream, ReadStream, CheckVersion, InsertMessages,
       EnforceIdempotentAppend, Replayed, ReadLatest, UpdateStream, UpdatePolicy, LocateStream,
       DeleteMessages, SelectScavengable, FindStream, CompareVersion, PurgeMessages, DropStream,
       Commit, LoseConnection, Reads
  <2> QED BY <2>1, <2>2 DEF OInv, TInv, Shape
<1>2. ASSUME OneAtAVersion', NEW d \in Clients PROVE OneMessage(tx'[d])
  <2>1. OneAtAVersion /\ \A c \in Clients : OneMessage(tx[c])
    BY <1>1, <1>2 DEF OInv, OneAtAVersion
  <2>2. ASSUME NEW c \in Clients, \E t : Become(c, t) /\ OneMessage(t) PROVE OneMessage(tx'[d])
    BY <1>1, <2>1, <2>2 DEF Become
  <2>3. CASE UNCHANGED vars
    BY <2>1, <2>3 DEF vars
  <2>4. ASSUME NEW c \in Clients, Call(c) PROVE \E t : Become(c, t) /\ OneMessage(t)
    <3>1. PICK r \in workload : Become(c, Begin(Fresh(r), 1))
      BY <2>4 DEF Call
    <3>2. /\ IsAppend(Fresh(r)) = IsAppend(r) /\ Fresh(r).expected = r.expected
          /\ Len(Fresh(r).ids) = Len(r.ids)
      <4>1. IsRequest(r)
        BY PgStoreAssumption DEF OInv, TInv, Shape
      <4>2. /\ Fresh(r).op = r.op /\ Fresh(r).expected = r.expected /\ r.ids \in Seq(ToSet(r.ids))
            /\ Fresh(r).ids = [i \in DOMAIN r.ids |-> IF r.ids[i] = NewId THEN MadeUp(calls, i) ELSE r.ids[i]]
        BY <4>1 DEF IsRequest, Fresh, Request
      <4>3. Len(Fresh(r).ids) = Len(r.ids)
        BY <4>2
      <4> QED BY <4>2, <4>3 DEF IsAppend
    <3>3. (IsAppend(Fresh(r)) /\ Fresh(r).expected >= 0) => Len(Fresh(r).ids) <= 1
      BY <2>1, <3>2 DEF OneAtAVersion
    <3>4. Fresh(r) \in RequestSet
      BY FreshIsCall DEF OInv, IsCall
    <3> QED BY <3>1, <3>3, <3>4, BeginsWithOne
  <2>5. ASSUME NEW c \in Clients, Commit(c) PROVE \E t : Become(c, t) /\ OneMessage(t)
    <3>1. PICK t \in {Followed(tx[c]), Idle} : Become(c, t)
      BY <2>5, CommitSteps
    <3>2. t.pc \in {"locate", "idle"}
      <4> DEFINE r == Request("scavenge", tx[c].request.stream, 0, << >>, tx[c].maxCount)
      <4>1. r.op = "scavenge"
        BY DEF Request
      <4> HIDE DEF r
      <4>2. Begin(r, 1).pc = "locate" /\ Idle.pc = "idle"
        BY <4>1 DEF Begin, Idle
      <4>3. t \in {Begin(r, 1), Idle}
        BY <3>1 DEF Followed, r
      <4> QED BY <4>2, <4>3
    <3>3. OneMessage(t)
      BY <3>2 DEF OneMessage
    <3> QED BY <3>1, <3>3
  <2>6. ASSUME NEW c \in Clients, LoseConnection(c) PROVE \E t : Become(c, t) /\ OneMessage(t)
    BY <2>6, RollsBackToOne DEF LoseConnection, OInv
  <2>7. ASSUME NEW c \in Clients, AppendToStream(c) PROVE \E t : Become(c, t) /\ OneMessage(t)
    BY <2>1, <2>7, AppendsOne DEF OInv
  <2>8. ASSUME NEW c \in Clients, LocateStream(c) \/ DeleteMessages(c) \/ SelectScavengable(c) \/ DeleteStream(c)
        PROVE  \E t : Become(c, t) /\ OneMessage(t)
    BY <2>1, <2>8, OthersKeepOne DEF OInv
  <2> QED
    BY <2>2, <2>3, <2>4, <2>5, <2>6, <2>7, <2>8 DEF Next, AppendToStream, DeleteStream
<1>3. OneAtAVersion' => \A c \in Clients : OneMessage(tx[c])'
  BY <1>2 DEF OneMessage
<1> QED BY <1>1, <1>3 DEF OInv

\* The workload is chosen once.
LEMMA WorkloadStays == [Next]_vars => (OneAtAVersion' <=> OneAtAVersion)
<1> SUFFICES ASSUME [Next]_vars PROVE workload' = workload
  BY DEF OneAtAVersion
<1> QED
  BY DEF Next, vars, Call, ReadMetadata, CreateStream, ReadStream, CheckVersion, InsertMessages,
     EnforceIdempotentAppend, Replayed, ReadLatest, UpdateStream, UpdatePolicy, LocateStream,
     DeleteMessages, SelectScavengable, FindStream, CompareVersion, PurgeMessages, DropStream,
     Commit, LoseConnection, Reads

\* A replay of one message writes nothing.
LEMMA OneReplayWritesNothing == OInv /\ OneAtAVersion => ReplayWritesNothing
BY DEF OInv, OneMessage, ReplayWritesNothing

\* In particular, when no client asks for more than one message at a version (appends of any
\* version and of the empty one may be of many): no stream is left with more messages than its
\* maxCount.
THEOREM ScavengedAfterSingleAppends ==
  ASSUME ClientStreams
  PROVE  Spec => [](OneAtAVersion => ScavengedWhenQuiet)
<1>1. Init => OInv /\ QInv
  <2>1. Init => \A c \in Clients : OneMessage(tx[c])
    BY IdleHasOne DEF Init
  <2> QED BY <2>1, ScavengingInit, TInvInit DEF OInv
<1> DEFINE Both == OInv /\ (OneAtAVersion => QInv)
<1>2. Both /\ [Next]_vars => Both'
  <2> SUFFICES ASSUME Both, [Next]_vars PROVE Both'
    OBVIOUS
  <2>1. OInv'
    BY OneMessageNext
  <2>2. ASSUME OneAtAVersion PROVE QInv'
    BY <2>2, OneReplayWritesNothing, ScavengingNext
  <2> QED BY <2>1, <2>2, WorkloadStays
<1>3. Both => (OneAtAVersion => ScavengedWhenQuiet)
  BY QuietIsScavenged
<1>4. Init => Both
  BY <1>1
<1> HIDE DEF Both
<1> QED BY <1>2, <1>3, <1>4, PTL DEF Spec
=============================================================================
