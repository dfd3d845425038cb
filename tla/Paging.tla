------------------------------- MODULE Paging -------------------------------
(***************************************************************************)
(* A client that reads a log page after page, giving the cursor of each    *)
(* answer to the next call: readStream and readAll, forwards or backwards, *)
(* until isEnd, and listStreams until a page is empty.  Other calls append *)
(* to the log and delete from it between two pages, and between the two    *)
(* statements of PostgreSQL's readStream.                                  *)
(*                                                                         *)
(* A message is its version (in a stream), its position (in the            *)
(* all-stream) or the id of its stream (in the listing).  No stream has a  *)
(* maxAge here: what MetadataCache filters out of a page moves no cursor.  *)
(* Nor do transactions overlap: GapDetection is about those.               *)
(***************************************************************************)
EXTENDS Integers, FiniteSetsExt

CONSTANTS
  Logs,       \* what is read, see Log
  Counts,     \* the page sizes a client asks for
  MaxHead     \* bound: the last version, position or id there can be

VARIABLES
  log,        \* which log of which store this is
  messages,   \* what is in it
  head,       \* the version of the stream, the head position or the last id
  exists,     \* there is a stream
  pc,         \* the client: "idle", "reading", "info" or "done"
  count,      \* the page size it asks for
  from,       \* fromVersionInclusive, fromPositionInclusive or the cursor
  page,       \* the messages read last
  isEnd,      \* there were no more of them
  returned,   \* history: what the client was given
  owed,       \* history: what was there when it began and still is
  later       \* history: what was appended since and still is

reader == <<pc, count, from, page, isEnd, returned, owed, later>>
vars == <<log, messages, head, exists, reader>>

Log == [store : {"memory", "postgres"}, kind : {"stream", "all", "listing"},
        forward : BOOLEAN, deletions : BOOLEAN, continued : BOOLEAN]

ASSUME PagingAssumption ==
  /\ Logs \subseteq Log
  /\ \A l \in Logs : /\ l.kind = "listing" => l.forward /\ (l.store = "memory" => ~ l.deletions)
                     /\ l.continued => l.forward
  /\ Counts \subseteq Nat \ {0}
  /\ MaxHead \in Nat

Start == 0
End == -1

InMemory == log.store = "memory"
Listing == log.kind = "listing"

\* What is before the first of the log: id_internal counts from 1, all else from 0.
Before(l) == IF l.kind = "listing" /\ l.store = "postgres" THEN 0 ELSE -1

Init ==
  /\ log \in Logs
  /\ messages = {} /\ head = Before(log) /\ exists = FALSE
  /\ pc = "idle" /\ count = 1 /\ from = Start /\ page = {} /\ isEnd = FALSE
  /\ returned = {} /\ owed = {} /\ later = {}

-----------------------------------------------------------------------------
(***************************************************************************)
(* The other calls                                                         *)
(***************************************************************************)

\* An append of no messages creates the stream.
CreateStream ==
  /\ log.kind = "stream" /\ ~ exists
  /\ exists' = TRUE
  /\ UNCHANGED <<log, messages, head, reader>>

Append ==
  /\ head < MaxHead
  /\ exists' = TRUE
  /\ head' = head + 1
  /\ messages' = messages \cup {head + 1}
  /\ later' = IF pc = "idle" THEN {} ELSE later \cup {head + 1}
  /\ UNCHANGED <<log, pc, count, from, page, isEnd, returned, owed>>

Delete ==
  /\ log.deletions
  /\ \E m \in messages : messages' = messages \ {m} /\ owed' = owed \ {m} /\ later' = later \ {m}
  /\ UNCHANGED <<log, head, exists, pc, count, from, page, isEnd, returned>>

\* deleteStream: in memory the stream keeps its entry and its version, in
\* PostgreSQL one of the same name begins anew.
DeleteStream ==
  /\ log.deletions /\ log.kind = "stream" /\ exists
  /\ messages' = {} /\ owed' = {} /\ later' = {}
  /\ IF InMemory THEN UNCHANGED <<head, exists>> ELSE head' = -1 /\ exists' = FALSE
  /\ UNCHANGED <<log, pc, count, from, page, isEnd, returned>>

-----------------------------------------------------------------------------
(***************************************************************************)
(* Which messages a page is taken from                                     *)
(***************************************************************************)

\* findIndex: the first message at or after the cursor.
FirstFrom == LET after == {m \in messages : m >= from} IN
  IF from = Start /\ messages # {} THEN {Min(messages)}
  ELSE IF from = End /\ messages # {} THEN {Max(messages)}
  ELSE IF after # {} THEN {Min(after)} ELSE {}

InMemoryRange ==
  IF log.forward THEN {m \in messages : \E s \in FirstFrom : m >= s}
  ELSE {m \in messages : \E s \in FirstFrom : m <= s}

\* Mutation of PostgresRange: the first message after the cursor is left out.
PostgresRangeExclusive ==
  CASE Listing -> {m \in messages : m > from}
    [] ~ Listing /\ log.forward -> {m \in messages : m > from}
    [] OTHER -> {m \in messages : from # End => m <= from}

\* read_stream, read_all and list_streams; from the end means from the greatest
\* number there is.
PostgresRange ==
  CASE Listing -> {m \in messages : m > from}
    [] ~ Listing /\ log.forward -> {m \in messages : from # End /\ m >= from}
    [] OTHER -> {m \in messages : from # End => m <= from}

InRange ==
  IF ~ InMemory THEN PostgresRange
  ELSE IF Listing THEN {m \in messages : m >= from} ELSE InMemoryRange

\* m comes before k in the order of reading.
Earlier(m, k) == IF log.forward THEN m < k ELSE m > k

\* The first count messages of S: the query asks for one more, the probe that
\* tells whether there are more.
FirstOf(S) == {m \in S : Cardinality({k \in S : Earlier(k, m)}) < count}

-----------------------------------------------------------------------------
(***************************************************************************)
(* The cursors                                                             *)
(***************************************************************************)
AtLeastEnd(v) == IF v < End THEN End ELSE v

\* readStreamForward, readStreamBackward and mapReadStreamResult.  version is the
\* one that comes with the page.
NextVersion(p, end, version) ==
  IF log.forward THEN (IF p = {} \/ end THEN version ELSE Max(p)) + 1
  ELSE IF InMemory THEN AtLeastEnd(IF end THEN -1 ELSE Min(p) - 1)
  ELSE AtLeastEnd((IF end THEN -1 ELSE Min(p)) - 1)

\* Mutation of NextPosition: reading backwards starts with the last message again.
NextPositionInclusive(p, end) ==
  IF log.forward THEN (IF p # {} THEN Max(p) + 1 ELSE IF InMemory THEN head + 1 ELSE from)
  ELSE IF p = {} \/ (InMemory /\ end) THEN -1
  ELSE AtLeastEnd(Min(p))

\* readAllForward, readAllBackward and readAllInternal.
NextPosition(p, end) ==
  IF log.forward THEN (IF p # {} THEN Max(p) + 1 ELSE IF InMemory THEN head + 1 ELSE from)
  ELSE IF p = {} \/ (InMemory /\ end) THEN -1
  ELSE AtLeastEnd(Min(p) - 1)

\* In memory the cursor is an index, in PostgreSQL the last id of the page.
NextCursor(p) ==
  IF InMemory THEN from + count ELSE IF p = {} THEN 0 ELSE Max(p)

-----------------------------------------------------------------------------
(***************************************************************************)
(* The client                                                              *)
(***************************************************************************)

\* It starts at the start, at the end, or at a message it knows.
Begin ==
  /\ pc = "idle"
  /\ pc' = "reading" /\ count' \in Counts
  /\ \/ /\ from' = IF log.forward THEN Start ELSE End
        /\ owed' = messages
     \/ /\ ~ Listing /\ \E m \in messages :
             from' = m /\ owed' = {k \in messages : k = m \/ Earlier(m, k)}
  /\ UNCHANGED <<log, messages, head, exists, page, isEnd, returned, later>>

\* The client has page p and the cursor next; at the end it stops.
Answered(p, end, next) ==
  /\ pc' = IF end THEN "done" ELSE "reading"
  /\ from' = next
  /\ returned' = returned \cup p
  /\ page' = p /\ isEnd' = end
  /\ UNCHANGED <<log, messages, head, exists, count, owed, later>>

ListStreams ==
  /\ pc = "reading" /\ Listing
  /\ LET p == FirstOf(InRange) IN Answered(p, p = {}, NextCursor(p))

ReadAll ==
  /\ pc = "reading" /\ log.kind = "all"
  /\ LET p == FirstOf(InRange) IN Answered(p, p = InRange, NextPosition(p, p = InRange))

\* readStream of the in-memory store.
ReadStream ==
  /\ pc = "reading" /\ log.kind = "stream" /\ InMemory
  /\ LET p == FirstOf(InRange)
         absent == IF log.forward THEN 0 ELSE -1 IN
     Answered(p, p = InRange, IF exists THEN NextVersion(p, p = InRange, head) ELSE absent)

\* readStream of PostgreSQL reads the messages, and then the stream.
ReadMessages ==
  /\ pc = "reading" /\ log.kind = "stream" /\ ~ InMemory
  /\ page' = FirstOf(InRange) /\ isEnd' = (page' = InRange)
  /\ pc' = "info"
  /\ UNCHANGED <<log, messages, head, exists, count, from, returned, owed, later>>

\* Mutation of ReadInfo: an empty page is no end.
ReadInfoNeverEnds ==
  /\ pc = "info"
  /\ IF exists THEN Answered(page, isEnd /\ page # {}, NextVersion(page, isEnd, head))
     ELSE Answered({}, TRUE, IF log.forward THEN 0 ELSE -1)

\* Without a stream the messages that were read are dropped.
ReadInfo ==
  /\ pc = "info"
  /\ IF exists THEN Answered(page, isEnd, NextVersion(page, isEnd, head))
     ELSE Answered({}, TRUE, IF log.forward THEN 0 ELSE -1)

Read == ListStreams \/ ReadAll \/ ReadStream \/ ReadMessages \/ ReadInfo

\* The client asks again later, with the cursor it stopped at.
Continue ==
  /\ pc = "done" /\ log.continued
  /\ pc' = "reading" /\ count' \in Counts
  /\ owed' = owed \cup later /\ later' = {}
  /\ UNCHANGED <<log, messages, head, exists, from, page, isEnd, returned>>

Next == CreateStream \/ Append \/ Delete \/ DeleteStream \/ Begin \/ Continue \/ Read

Spec == Init /\ [][Next]_vars

\* A client that has begun reads on; nobody need append, delete or ask again.
FairSpec == Spec /\ WF_vars(Read)

-----------------------------------------------------------------------------
(***************************************************************************)
(* Properties                                                              *)
(***************************************************************************)

\* The type of every variable: a cursor is a version, a position or an id that
\* can be read from, or the end.
TypeOK ==
  /\ log \in Logs
  /\ messages \subseteq 0 .. head /\ head \in -1 .. MaxHead /\ exists \in BOOLEAN
  /\ count \in Counts \cup {1}
  /\ pc \in {"idle", "reading", "info", "done"}
  /\ from \in Int /\ from >= End /\ (log.forward => from >= Start)
  /\ page \subseteq 0 .. MaxHead /\ isEnd \in BOOLEAN
  /\ returned \subseteq 0 .. MaxHead
  /\ owed \cup later \subseteq messages

\* README.md:297-298, "you can page both ways": each page goes on where the last
\* one ended, so that nothing is given twice or out of order, whatever is appended
\* or deleted between two pages.
PagesInOrder ==
  [][(Read /\ pc' # "info") => \A m \in page', k \in returned : Earlier(k, m)]_vars

\* Whoever pages to the end was given everything that was there when it began and
\* was not deleted meanwhile; if it goes on later from the cursor it stopped at,
\* also what was appended since.
WalksAreComplete == pc = "done" => owed \subseteq returned

\* Paging comes to an end, once nothing more is appended.
WalksEnd == (pc = "reading") ~> (pc = "done")
=============================================================================
