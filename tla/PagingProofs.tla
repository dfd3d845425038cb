---------------------------- MODULE PagingProofs ----------------------------
(***************************************************************************)
(* Proofs about paging: for any page sizes, any number of messages, and    *)
(* whatever is appended and deleted between two pages.                     *)
(*                                                                         *)
(* A page is the beginning, in the order of reading, of what is ahead of   *)
(* the cursor.  The next cursor leaves the page behind it and nothing      *)
(* else; so what was given is behind the cursor (Given) and what is owed   *)
(* was given or is ahead of it (Owes).                                     *)
(***************************************************************************)
EXTENDS Paging, FiniteSetTheorems, TLAPS

\* The logs in which a cursor says where to go on.  In memory, reading backwards,
\* the message at the cursor must not be deleted; and a client goes on from the end
\* of the all-stream, or of a stream in memory, only.
CursorsHold ==
  \A l \in Logs :
    /\ l.store = "memory" /\ ~ l.forward => ~ l.deletions
    /\ l.continued => l.kind = "all" \/ (l.kind = "stream" /\ l.store = "memory")

\* Message m is yet to come for a client with the cursor f.
Ahead(f, m) ==
  IF ~ log.forward THEN f # End => m <= f
  ELSE IF Listing /\ ~ InMemory THEN m > f ELSE m >= f

Shape ==
  /\ TypeOK
  /\ head >= Before(log) /\ messages \subseteq Before(log) + 1 .. head
  /\ pc = "info" => log.kind = "stream" /\ ~ InMemory

\* Without a stream there are no messages; without deletions there are all.
Stored ==
  /\ ~ exists => messages = {}
  /\ ~ exists /\ InMemory => head = -1
  /\ InMemory /\ ~ log.deletions => messages = 0 .. head

\* Where the cursor may be.
Cursor ==
  /\ log.continued => from <= head + 1
  /\ pc # "idle" /\ InMemory /\ ~ log.forward => from <= head

\* What was given is behind the cursor, until the client stops for good.
Given ==
  /\ pc = "idle" => returned = {} /\ owed = {} /\ later = {}
  /\ pc \in {"reading", "info"} \/ log.continued => \A k \in returned : ~ Ahead(from, k)

\* What is owed was given, or is in the page or after it, or ahead of the cursor.
Owes ==
  /\ pc = "reading" => \A m \in owed : m \in returned \/ Ahead(from, m)
  /\ pc = "info" => \A m \in owed : \/ m \in returned \cup page
                                    \/ ~ isEnd /\ \A k \in page : Earlier(k, m)
  /\ pc = "done" => owed \subseteq returned
  /\ log.continued => \A m \in later : m \in returned \/ Ahead(from, m)

\* A page that waits for its stream was ahead of the cursor.
PageRead ==
  pc = "info" => /\ \A m \in page : Ahead(from, m)
                 /\ ~ isEnd => page # {} /\ (~ log.forward => \A m \in page : m >= 1)

IInv == Shape /\ Stored /\ Cursor /\ Given /\ Owes /\ PageRead
-----------------------------------------------------------------------------
(***************************************************************************)
(* Pages                                                                   *)
(***************************************************************************)

\* What Min and Max choose.
LEMMA MinProperties ==
  ASSUME NEW S \in SUBSET Nat, S # {}
  PROVE  Min(S) \in S /\ \A x \in S : Min(S) <= x
<1>1. PICK m \in S : \A x \in S : ~ (<<x, m>> \in OpToRel(<, Nat))
  BY NatLessThanWellFounded, WFMin
<1>2. ASSUME NEW x \in S PROVE m <= x
  <2>1. <<x, m>> \in Nat \X Nat /\ <<x, m>>[1] = x /\ <<x, m>>[2] = m
    OBVIOUS
  <2>2. ~ (x < m)
    BY <1>1, <2>1 DEF OpToRel
  <2> QED
    BY <2>2
<1> QED
  BY <1>2 DEF Min

\* The greatest, of a bounded set.
LEMMA MaxProperties ==
  ASSUME NEW n \in Int, NEW S \in SUBSET (0 .. n), S # {}
  PROVE  Max(S) \in S /\ \A x \in S : x <= Max(S)
<1> DEFINE T == {n - x : x \in S}
<1>1. T \in SUBSET Nat /\ T # {}
  <2>1. \A x \in S : n - x \in Nat
    OBVIOUS
  <2>2. PICK x \in S : TRUE
    OBVIOUS
  <2>3. n - x \in T
    OBVIOUS
  <2> QED
    BY <2>1, <2>3
<1>2. PICK m \in T : \A y \in T : m <= y
  BY <1>1, MinProperties
<1>3. PICK x \in S : m = n - x
  OBVIOUS
<1>4. \A y \in S : y <= x
  <2> SUFFICES ASSUME NEW y \in S PROVE y <= x
    OBVIOUS
  <2>1. n - y \in T
    OBVIOUS
  <2> QED
    BY <1>2, <1>3, <2>1
<1>5. \A y \in S : x >= y
  BY <1>4
<1> QED
  BY <1>5 DEF Max

\* A page is the beginning of what it is taken from, and has a message if there is one.
LEMMA PageIsTheBeginning ==
  ASSUME IInv, NEW S \in SUBSET messages
  PROVE  /\ FirstOf(S) \subseteq S
         /\ \A k \in S \ FirstOf(S), m \in FirstOf(S) : Earlier(m, k)
         /\ S # {} => FirstOf(S) # {}
<1> DEFINE Before_(m) == {k \in S : Earlier(k, m)}
<1>1. S \in SUBSET Nat /\ head \in Int /\ count \in Nat \ {0} /\ log.forward \in BOOLEAN
  BY PagingAssumption DEF IInv, Shape, TypeOK, Log
<1>2. IsFiniteSet(S) /\ S \subseteq 0 .. head
  <2>1. IsFiniteSet(0 .. head)
    BY <1>1, FS_Interval
  <2>2. S \subseteq 0 .. head
    BY DEF IInv, Shape, TypeOK
  <2> QED
    BY <2>1, <2>2, FS_Subset
<1>3. \A m : IsFiniteSet(Before_(m)) /\ Cardinality(Before_(m)) \in Nat
  <2> SUFFICES ASSUME NEW m PROVE IsFiniteSet(Before_(m)) /\ Cardinality(Before_(m)) \in Nat
    OBVIOUS
  <2>1. Before_(m) \in SUBSET S
    OBVIOUS
  <2> QED
    BY <1>2, <2>1, FS_Subset, FS_CardinalityType
<1>4. FirstOf(S) = {m \in S : Cardinality(Before_(m)) < count}
  BY DEF FirstOf
<1>5. ASSUME NEW k \in S, NEW m \in FirstOf(S), ~ Earlier(m, k)
      PROVE  k \in FirstOf(S)
  <2>1. Before_(k) \in SUBSET Before_(m)
    <3> SUFFICES ASSUME NEW x \in S, Earlier(x, k) PROVE Earlier(x, m)
      OBVIOUS
    <3>1. x \in Nat /\ k \in Nat /\ m \in Nat
      BY <1>1, <1>4
    <3> QED
      BY <1>5, <3>1 DEF Earlier
  <2>2. Cardinality(Before_(k)) <= Cardinality(Before_(m))
    BY <1>3, <2>1, FS_Subset
  <2>3. Cardinality(Before_(m)) < count
    BY <1>4
  <2> HIDE DEF Before_
  <2>4. Cardinality(Before_(k)) < count
    BY <1>1, <1>3, <2>2, <2>3
  <2> QED
    BY <1>4, <2>4
<1>6. ASSUME S # {}
      PROVE  FirstOf(S) # {}
  <2>1. PICK m \in S : \A k \in S : ~ Earlier(k, m)
    <3>1. PICK x \in S : \A k \in S : x <= k
      BY <1>1, <1>6, MinProperties
    <3>2. PICK y \in S : \A k \in S : k <= y
      BY <1>1, <1>2, <1>6, MaxProperties
    <3>3. CASE log.forward
      BY <1>1, <3>1, <3>3 DEF Earlier
    <3>4. CASE ~ log.forward
      BY <1>1, <3>2, <3>4 DEF Earlier
    <3> QED
      BY <3>3, <3>4
  <2>2. Before_(m) = {}
    BY <2>1
  <2>3. Cardinality(Before_(m)) < count
    BY <1>1, <2>2, FS_EmptySet
  <2> QED
    BY <1>4, <2>3
<1> QED
  BY <1>4, <1>5, <1>6

\* The range a page is taken from is what is ahead of the cursor.
LEMMA RangeIsAhead ==
  ASSUME IInv, CursorsHold, pc = "reading"
  PROVE  InRange = {m \in messages : Ahead(from, m)}
<1>1. /\ messages \in SUBSET Nat /\ from \in Int /\ from >= -1 /\ head \in Int
      /\ messages \subseteq 0 .. head
      /\ log \in Logs /\ log \in Log /\ (log.forward => from >= 0)
  BY PagingAssumption DEF IInv, Shape, TypeOK, Start, End
<1>2. CASE ~ InMemory
  <2>1. CASE Listing
    <3>1. log.forward
      BY <1>1, <2>1, PagingAssumption DEF Listing
    <3>2. InRange = {m \in messages : m > from}
      BY <1>2, <2>1 DEF InRange, PostgresRange
    <3> QED
      BY <1>2, <2>1, <3>1, <3>2 DEF Ahead
  <2>2. CASE ~ Listing /\ log.forward
    <3>1. \A m : Ahead(from, m) <=> m >= from
      BY <2>2 DEF Ahead
    <3>2. InRange = {m \in messages : from # End /\ m >= from}
      BY <1>2, <2>2 DEF InRange, PostgresRange
    <3>3. from # End
      BY <1>1, <2>2 DEF End
    <3> QED
      BY <3>1, <3>2, <3>3
  <2>3. CASE ~ Listing /\ ~ log.forward
    BY <1>2, <2>3 DEF InRange, PostgresRange, Ahead
  <2> QED
    BY <2>1, <2>2, <2>3
<1>3. CASE InMemory /\ Listing
  <2>1. log.forward
    BY <1>1, <1>3, PagingAssumption DEF Listing
  <2> QED
    BY <1>3, <2>1 DEF InRange, Ahead
<1>4. CASE InMemory /\ ~ Listing /\ log.forward
  <2> DEFINE after == {m \in messages : m >= from}
  <2>1. InRange = {m \in messages : \E s \in FirstFrom : m >= s}
    BY <1>4 DEF InRange, InMemoryRange
  <2>2. \A m : Ahead(from, m) <=> m >= from
    BY <1>4 DEF Ahead
  <2>3. from # End /\ from >= 0
    BY <1>1, <1>4 DEF End
  <2>4. CASE messages = {}
    BY <2>1, <2>4
  <2>5. CASE messages # {} /\ from = Start
    <3>1. FirstFrom = {Min(messages)} /\ \A m \in messages : m >= Min(messages)
      BY <1>1, <2>5, MinProperties DEF FirstFrom
    <3>2. \A m \in messages : m >= from
      BY <1>1, <2>5 DEF Start
    <3> QED
      BY <2>1, <2>2, <3>1, <3>2
  <2>6. CASE from # Start /\ after # {}
    <3>1. FirstFrom = {Min(after)}
      BY <2>3, <2>6 DEF FirstFrom
    <3> DEFINE a == Min(after)
    <3>2. a \in after /\ \A m \in after : a <= m
      BY <1>1, <2>6, MinProperties
    <3> HIDE DEF a
    <3>3. \A m \in messages : m >= a <=> m >= from
      BY <1>1, <3>2
    <3> QED
      BY <2>1, <2>2, <3>1, <3>3 DEF a
  <2>7. CASE from # Start /\ after = {}
    <3>1. FirstFrom = {}
      BY <2>3, <2>7 DEF FirstFrom
    <3> QED
      BY <2>1, <2>2, <2>7, <3>1
  <2> QED
    BY <2>4, <2>5, <2>6, <2>7
<1>5. CASE InMemory /\ ~ Listing /\ ~ log.forward
  <2> DEFINE after == {m \in messages : m >= from}
  <2>1. InRange = {m \in messages : \E s \in FirstFrom : m <= s}
    BY <1>5 DEF InRange, InMemoryRange
  <2>2. \A m : Ahead(from, m) <=> (from # -1 => m <= from)
    BY <1>5 DEF Ahead, End
  <2>3. messages = 0 .. head /\ from <= head
    BY <1>1, <1>5 DEF IInv, Stored, Cursor, CursorsHold, InMemory
  <2>4. CASE messages = {}
    BY <2>1, <2>4
  <2>5. CASE messages # {} /\ from = Start
    <3> DEFINE a == Min(messages)
    <3>1. FirstFrom = {a} /\ a \in messages /\ \A m \in messages : a <= m
      BY <1>1, <2>5, MinProperties DEF FirstFrom
    <3> HIDE DEF a
    <3>2. 0 \in messages
      BY <1>1, <2>3, <2>5
    <3>3. a = 0
      BY <1>1, <3>1, <3>2
    <3> QED
      BY <2>1, <2>2, <2>5, <3>1, <3>3 DEF Start
  <2>6. CASE messages # {} /\ from = End
    <3>1. FirstFrom = {Max(messages)}
      BY <2>6 DEF FirstFrom, Start, End
    <3>2. \A m \in messages : m <= Max(messages)
      BY <1>1, <2>6, MaxProperties
    <3> QED
      BY <2>1, <2>2, <2>6, <3>1, <3>2 DEF End
  <2>7. CASE from # Start /\ from # End
    <3>1. from \in after
      BY <1>1, <2>3, <2>7 DEF Start, End
    <3>2. FirstFrom = {Min(after)}
      BY <2>7, <3>1 DEF FirstFrom
    <3> DEFINE a == Min(after)
    <3>3. a \in after /\ \A m \in after : a <= m
      BY <1>1, <3>1, MinProperties
    <3> HIDE DEF a
    <3>4. a = from
      BY <1>1, <3>1, <3>3
    <3> QED
      BY <2>1, <2>2, <2>7, <3>2, <3>4 DEF End, a
  <2> QED
    BY <2>4, <2>5, <2>6, <2>7
<1> QED
  BY <1>2, <1>3, <1>4, <1>5
\* A cursor that has page p behind it, and ahead of it all that comes later.
Splits(p, next) == \A x \in Nat : Ahead(next, x) <=> \A k \in p : Earlier(k, x)

\* What is behind a cursor comes before what is ahead of it.
LEMMA BehindIsEarlier ==
  ASSUME IInv, NEW k \in Nat, NEW m \in Nat, ~ Ahead(from, k), Ahead(from, m)
  PROVE  Earlier(k, m)
<1>1. from \in Int /\ from >= -1
  BY DEF IInv, Shape, TypeOK, End
<1> QED
  BY <1>1 DEF Ahead, Earlier, End

\* The cursors after the last message of a page.
LEMMA LastSplits ==
  ASSUME NEW n \in Int, NEW p \in SUBSET (0 .. n), p # {}
  PROVE  /\ log.forward /\ ~ Listing => Splits(p, Max(p) + 1)
         /\ log.forward /\ Listing /\ ~ InMemory => Splits(p, Max(p))
         /\ ~ log.forward /\ (\A k \in p : k >= 1) => Splits(p, Min(p) - 1)
<1>1. PICK a : a = Max(p) /\ a \in p /\ \A x \in p : x <= a
  BY MaxProperties
<1>2. PICK b : b = Min(p) /\ b \in p /\ \A x \in p : b <= x
  BY MinProperties
<1>3. /\ \A x \in Nat : (\A k \in p : k < x) <=> a < x
      /\ \A x \in Nat : (\A k \in p : k > x) <=> b > x
  BY <1>1, <1>2
<1>4. a \in Nat /\ b \in Nat
  BY <1>1, <1>2
<1>5. CASE log.forward /\ ~ Listing
  BY <1>1, <1>3, <1>4, <1>5 DEF Splits, Ahead, Earlier
<1>6. CASE log.forward /\ Listing /\ ~ InMemory
  BY <1>1, <1>3, <1>4, <1>6 DEF Splits, Ahead, Earlier
<1>7. CASE ~ log.forward /\ (\A k \in p : k >= 1)
  <2>1. b >= 1
    BY <1>2, <1>7
  <2>2. b - 1 # End
    BY <1>4, <2>1 DEF End
  <2> QED
    BY <1>2, <1>3, <1>4, <1>7, <2>2 DEF Splits, Ahead, Earlier
<1> QED
  BY <1>5, <1>6, <1>7

\* Such a cursor leaves behind it what was given before, too.
LEMMA SplitsBehind ==
  ASSUME IInv, pc \in {"reading", "info"}, NEW p \in SUBSET Nat, p # {}, \A m \in p : Ahead(from, m),
         NEW next, Splits(p, next)
  PROVE  \A k \in returned \cup p : ~ Ahead(next, k)
<1>1. returned \in SUBSET Nat
  BY DEF IInv, Shape, TypeOK
<1>2. \A k, m \in Nat : ~ (Earlier(k, m) /\ Earlier(m, k))
  BY DEF Earlier
<1>3. ASSUME NEW k \in p PROVE ~ Ahead(next, k)
  BY <1>2, <1>3 DEF Splits
<1>4. ASSUME NEW k \in returned PROVE ~ Ahead(next, k)
  <2>1. PICK m \in p : Ahead(from, m)
    OBVIOUS
  <2>2. ~ Ahead(from, k)
    BY DEF IInv, Given
  <2>3. Earlier(k, m)
    BY <1>1, <2>1, <2>2, BehindIsEarlier
  <2> QED
    BY <1>1, <1>2, <2>1, <2>3 DEF Splits
<1> QED
  BY <1>3, <1>4

-----------------------------------------------------------------------------
(***************************************************************************)
(* The invariant is inductive                                              *)
(***************************************************************************)

\* What an answer has to do for the client.
LEMMA AnswerGood ==
  ASSUME IInv, pc # "idle", NEW p \in SUBSET (0 .. MaxHead), NEW end \in BOOLEAN, NEW next \in Int,
         Answered(p, end, next),
         next >= End, log.forward => next >= Start,
         ~ end \/ log.continued => \A k \in returned \cup p : ~ Ahead(next, k),
         ~ end => \A m \in owed : m \in returned \cup p \/ Ahead(next, m),
         end => owed \subseteq returned \cup p,
         log.continued => next <= head + 1,
         log.continued => \A m \in later : m \in returned \cup p \/ Ahead(next, m),
         InMemory /\ ~ log.forward => next <= head
  PROVE  IInv'
<1>1. /\ UNCHANGED <<log, messages, head, exists, count, owed, later>>
      /\ pc' = (IF end THEN "done" ELSE "reading") /\ from' = next
      /\ returned' = returned \cup p /\ page' = p /\ isEnd' = end
  BY DEF Answered
<1>2. \A m : Ahead(next, m) <=> Ahead(from, m)'
  BY <1>1 DEF Ahead, Listing, InMemory
<1>3. Shape'
  BY <1>1 DEF IInv, Shape, TypeOK, Before, InMemory
<1>4. Stored'
  BY <1>1 DEF IInv, Stored, InMemory
<1>5. Cursor'
  BY <1>1 DEF IInv, Cursor, InMemory
<1>6. Given'
  BY <1>1, <1>2 DEF Given
<1>7. Owes'
  BY <1>1, <1>2 DEF Owes
<1>8. PageRead'
  BY <1>1 DEF PageRead
<1> QED
  BY <1>3, <1>4, <1>5, <1>6, <1>7, <1>8 DEF IInv

\* A page taken from the range, with a next cursor that parts it from the rest.
LEMMA PageGood ==
  ASSUME IInv, CursorsHold, pc = "reading", NEW end \in BOOLEAN, NEW next \in Int,
         Answered(FirstOf(InRange), end, next),
         next >= End, log.forward => next >= Start,
         end => FirstOf(InRange) = InRange,
         ~ end => /\ \A k \in returned \cup FirstOf(InRange) : ~ Ahead(next, k)
                  /\ \A m \in InRange \ FirstOf(InRange) : Ahead(next, m),
         log.continued => /\ next <= head + 1
                          /\ end => \A k \in returned \cup FirstOf(InRange) : ~ Ahead(next, k),
         InMemory /\ ~ log.forward => next <= head
  PROVE  IInv'
<1> DEFINE p == FirstOf(InRange)
<1>1. InRange = {m \in messages : Ahead(from, m)}
  BY RangeIsAhead
<1>2. p \subseteq InRange
  BY <1>1, PageIsTheBeginning
<1>3. p \in SUBSET (0 .. MaxHead)
  <2>1. messages \subseteq 0 .. head /\ head \in -1 .. MaxHead /\ MaxHead \in Nat
    BY PagingAssumption DEF IInv, Shape, TypeOK
  <2>2. 0 .. head \subseteq 0 .. MaxHead
    BY <2>1
  <2> QED
    BY <1>1, <1>2, <2>1, <2>2
<1>4. \A m \in owed : m \in returned \/ m \in InRange
  BY <1>1 DEF IInv, Owes, Shape, TypeOK
<1>5. log.continued => \A m \in later : m \in returned \/ m \in InRange
  BY <1>1 DEF IInv, Owes, Shape, TypeOK
<1> QED
  BY <1>3, <1>4, <1>5, AnswerGood
\* What a page that does not end the range says about the next one.
LEMMA PageParts ==
  ASSUME IInv, CursorsHold, pc = "reading"
  PROVE  LET p == FirstOf(InRange) IN
         /\ InRange \subseteq messages /\ p \subseteq InRange /\ p \in SUBSET (0 .. head) /\ p \in SUBSET Nat
         /\ p = {} => InRange = {}
         /\ p # InRange /\ ~ log.forward => \A k \in p : k >= 1
         /\ \A next : p # {} /\ Splits(p, next) =>
              /\ \A k \in returned \cup p : ~ Ahead(next, k)
              /\ \A m \in InRange \ p : Ahead(next, m)
<1> DEFINE p == FirstOf(InRange)
<1>1. InRange = {m \in messages : Ahead(from, m)} /\ messages \subseteq 0 .. head /\ head \in Int
  BY RangeIsAhead DEF IInv, Shape, TypeOK
<1>2. InRange \in SUBSET messages
  BY <1>1
<1>3. /\ p \subseteq InRange /\ (InRange # {} => p # {})
      /\ \A k \in InRange \ p, m \in p : Earlier(m, k)
  BY <1>2, PageIsTheBeginning
<1> HIDE DEF p
<1>4. p \in SUBSET (0 .. head) /\ p \in SUBSET Nat
  BY <1>1, <1>3
<1>5. ASSUME p # InRange, ~ log.forward, NEW k \in p PROVE k >= 1
  <2>1. PICK m \in InRange : m \notin p
    BY <1>3, <1>5
  <2>2. k > m /\ m \in Nat /\ k \in Nat
    BY <1>1, <1>3, <1>4, <1>5, <2>1 DEF Earlier
  <2> QED
    BY <2>2
<1>6. ASSUME NEW next, p # {}, Splits(p, next)
      PROVE  /\ \A k \in returned \cup p : ~ Ahead(next, k)
             /\ \A m \in InRange \ p : Ahead(next, m)
  <2>1. \A m \in p : Ahead(from, m)
    BY <1>1, <1>3
  <2>2. \A k \in returned \cup p : ~ Ahead(next, k)
    BY <1>4, <1>6, <2>1, SplitsBehind
  <2>3. \A m \in InRange \ p : Ahead(next, m)
    BY <1>1, <1>3, <1>6 DEF Splits
  <2> QED
    BY <2>2, <2>3
<1> QED
  BY <1>1, <1>2, <1>3, <1>4, <1>5, <1>6 DEF p

\* The all-stream.
LEMMA ReadAllGood ==
  ASSUME IInv, CursorsHold, ReadAll
  PROVE  IInv'
<1> DEFINE p == FirstOf(InRange)
           end == p = InRange
           next == NextPosition(p, end)
<1>1. pc = "reading" /\ log.kind = "all" /\ ~ Listing /\ Answered(p, end, next)
  BY DEF ReadAll, Listing
<1>2. /\ head \in Int /\ head >= -1 /\ from \in Int /\ from >= -1 /\ (log.forward => from >= 0)
      /\ (log.continued => log.forward /\ from <= head + 1)
      /\ returned \in SUBSET Nat
  BY PagingAssumption DEF IInv, Shape, TypeOK, Cursor, Start, End
<1>3. /\ InRange \subseteq messages /\ p \subseteq InRange /\ p \in SUBSET (0 .. head) /\ p \in SUBSET Nat
      /\ p = {} => InRange = {}
      /\ p # InRange /\ ~ log.forward => \A k \in p : k >= 1
      /\ \A n : p # {} /\ Splits(p, n) =>
           /\ \A k \in returned \cup p : ~ Ahead(n, k)
           /\ \A m \in InRange \ p : Ahead(n, m)
  BY <1>1, PageParts
<1>4. \A k \in returned : ~ Ahead(from, k)
  BY <1>1 DEF IInv, Given
<1> HIDE DEF p
<1>5. CASE log.forward /\ p # {}
  <2>1. PICK a : a = Max(p) /\ a \in p
    BY <1>2, <1>3, <1>5, MaxProperties
  <2>2. next = a + 1 /\ a \in 0 .. head /\ Splits(p, next)
    BY <1>1, <1>2, <1>3, <1>5, <2>1, LastSplits DEF NextPosition
  <2> HIDE DEF next
  <2>3. next \in Int /\ next >= 0 /\ next <= head + 1
    BY <1>2, <2>2
  <2>4. /\ \A k \in returned \cup p : ~ Ahead(next, k)
        /\ \A m \in InRange \ p : Ahead(next, m)
    BY <1>3, <1>5, <2>2
  <2>5. next >= End /\ next >= Start
    BY <2>3 DEF Start, End
  <2> QED
    BY <1>1, <1>5, <2>3, <2>4, <2>5, PageGood DEF p
<1>6. CASE log.forward /\ p = {}
  <2>1. end /\ next = (IF InMemory THEN head + 1 ELSE from)
    BY <1>3, <1>6 DEF NextPosition
  <2>2. log.continued => \A k \in returned : ~ Ahead(next, k)
    <3> SUFFICES ASSUME log.continued, NEW k \in returned PROVE ~ Ahead(next, k)
      OBVIOUS
    <3>1. ~ (k >= from) /\ k \in Nat
      BY <1>1, <1>2, <1>4, <1>6 DEF Ahead
    <3>2. ~ (k >= next)
      BY <1>2, <2>1, <3>1
    <3> QED
      BY <1>1, <1>6, <3>2 DEF Ahead
  <2>3. next \in Int /\ next >= 0 /\ (log.continued => next <= head + 1)
    BY <1>2, <1>6, <2>1
  <2> HIDE DEF next
  <2>4. next >= End /\ next >= Start
    BY <2>3 DEF Start, End
  <2>5. returned \cup p = returned
    BY <1>6
  <2> QED
    BY <1>1, <1>6, <2>1, <2>2, <2>3, <2>4, <2>5, PageGood DEF p
<1>7. CASE ~ log.forward /\ ~ end
  <2>1. p # {} /\ \A k \in p : k >= 1
    BY <1>3, <1>7
  <2>2. PICK b : b = Min(p) /\ b \in p
    BY <1>3, <2>1, MinProperties
  <2>3. b \in 0 .. head /\ b >= 1
    BY <1>3, <2>1, <2>2
  <2>4. next = b - 1
    BY <1>2, <1>7, <2>1, <2>2, <2>3 DEF NextPosition, AtLeastEnd, End
  <2>5. Splits(p, next)
    BY <1>2, <1>3, <1>7, <2>1, <2>2, <2>4, LastSplits
  <2> HIDE DEF next
  <2>6. next \in Int /\ next >= -1 /\ next <= head
    BY <1>2, <2>3, <2>4
  <2> QED
    BY <1>1, <1>2, <1>3, <1>7, <2>1, <2>5, <2>6, PageGood DEF p, End
<1>8. CASE ~ log.forward /\ end
  <2>1. next \in Int /\ next >= -1 /\ (InMemory => next <= head)
    <3>1. CASE p = {} \/ InMemory
      BY <1>2, <1>8, <3>1 DEF NextPosition
    <3>2. CASE p # {} /\ ~ InMemory
      <4>1. PICK b : b = Min(p) /\ b \in p
        BY <1>3, <3>2, MinProperties
      <4>2. b \in Nat /\ next = AtLeastEnd(b - 1)
        BY <1>3, <1>8, <3>2, <4>1 DEF NextPosition
      <4> QED
        BY <3>2, <4>2 DEF AtLeastEnd, End
    <3> QED
      BY <3>1, <3>2
  <2> HIDE DEF next
  <2> QED
    BY <1>1, <1>2, <1>8, <2>1, PageGood DEF p, End
<1> QED
  BY <1>5, <1>6, <1>7, <1>8
\* A stream in memory.
LEMMA ReadStreamGood ==
  ASSUME IInv, CursorsHold, ReadStream
  PROVE  IInv'
<1> DEFINE p == FirstOf(InRange)
           end == p = InRange
           next == IF exists THEN NextVersion(p, end, head) ELSE IF log.forward THEN 0 ELSE -1
<1>1. pc = "reading" /\ InMemory /\ ~ Listing /\ Answered(p, end, next)
  BY DEF ReadStream, Listing
<1>2. /\ head \in Int /\ head >= -1 /\ from \in Int /\ from >= -1 /\ (log.forward => from >= 0)
      /\ (log.continued => log.forward /\ from <= head + 1)
      /\ returned \in SUBSET Nat
  BY PagingAssumption DEF IInv, Shape, TypeOK, Cursor, Start, End
<1>3. /\ InRange \subseteq messages /\ p \subseteq InRange /\ p \in SUBSET (0 .. head) /\ p \in SUBSET Nat
      /\ p = {} => InRange = {}
      /\ p # InRange /\ ~ log.forward => \A k \in p : k >= 1
      /\ \A n : p # {} /\ Splits(p, n) =>
           /\ \A k \in returned \cup p : ~ Ahead(n, k)
           /\ \A m \in InRange \ p : Ahead(n, m)
  BY <1>1, PageParts
<1>4. \A k \in returned : ~ Ahead(from, k)
  BY <1>1 DEF IInv, Given
<1>5. ~ exists => messages = {} /\ head = -1 /\ end
  BY <1>1, <1>3 DEF IInv, Stored
<1> HIDE DEF p
<1>6. CASE log.forward /\ end
  <2>1. next = head + 1
    BY <1>5, <1>6 DEF NextVersion
  <2>2. log.continued => \A k \in returned \cup p : ~ Ahead(next, k)
    <3> SUFFICES ASSUME log.continued, NEW k \in returned \cup p PROVE ~ Ahead(next, k)
      OBVIOUS
    <3>1. k \in returned => ~ (k >= from) /\ k \in Nat
      BY <1>1, <1>2, <1>4, <1>6 DEF Ahead
    <3>2. ~ (k >= next)
      BY <1>2, <1>3, <2>1, <3>1
    <3> QED
      BY <1>1, <1>6, <3>2 DEF Ahead
  <2> HIDE DEF next
  <2>3. next \in Int /\ next >= End /\ next >= Start /\ next <= head + 1
    BY <1>2, <2>1 DEF Start, End
  <2> QED
    BY <1>1, <1>6, <2>2, <2>3, PageGood DEF p
<1>7. CASE log.forward /\ ~ end
  <2>1. p # {}
    BY <1>3, <1>7
  <2>2. PICK a : a = Max(p) /\ a \in p
    BY <1>2, <1>3, <2>1, MaxProperties
  <2>3. next = a + 1 /\ a \in 0 .. head /\ Splits(p, next)
    BY <1>1, <1>2, <1>3, <1>5, <1>7, <2>1, <2>2, LastSplits DEF NextVersion
  <2> HIDE DEF next
  <2>4. next \in Int /\ next >= End /\ next >= Start /\ next <= head + 1
    BY <1>2, <2>3 DEF Start, End
  <2> QED
    BY <1>1, <1>3, <1>7, <2>1, <2>3, <2>4, PageGood DEF p
<1>8. CASE ~ log.forward /\ end
  <2>1. next = -1
    BY <1>1, <1>8 DEF NextVersion, AtLeastEnd, End
  <2> HIDE DEF next
  <2>2. next \in Int /\ next >= End /\ next <= head
    BY <1>2, <2>1 DEF End
  <2> QED
    BY <1>1, <1>2, <1>8, <2>2, PageGood DEF p
<1>9. CASE ~ log.forward /\ ~ end
  <2>1. p # {} /\ \A k \in p : k >= 1
    BY <1>3, <1>9
  <2>2. PICK b : b = Min(p) /\ b \in p
    BY <1>3, <2>1, MinProperties
  <2>3. b \in 0 .. head /\ b >= 1
    BY <1>3, <2>1, <2>2
  <2>4. next = b - 1
    BY <1>1, <1>2, <1>5, <1>9, <2>1, <2>2, <2>3 DEF NextVersion, AtLeastEnd, End
  <2>5. Splits(p, next)
    BY <1>2, <1>3, <1>9, <2>1, <2>2, <2>4, LastSplits
  <2> HIDE DEF next
  <2>6. next \in Int /\ next >= End /\ next <= head
    BY <1>2, <2>3, <2>4 DEF End
  <2> QED
    BY <1>1, <1>2, <1>3, <1>9, <2>1, <2>5, <2>6, PageGood DEF p
<1> QED
  BY <1>6, <1>7, <1>8, <1>9

\* In memory the listing is an array: the cursor counts its elements.
LEMMA ListedPage ==
  ASSUME IInv, CursorsHold, pc = "reading", Listing, InMemory
  PROVE  /\ \A m \in FirstOf(InRange) : m < from + count
         /\ \A m \in InRange \ FirstOf(InRange) : m >= from + count
<1>1. log.forward /\ messages = 0 .. head
  BY PagingAssumption DEF IInv, Shape, TypeOK, Stored, Listing, InMemory
<1>2. head \in Int /\ from \in Nat /\ count \in Nat
  BY <1>1, PagingAssumption DEF IInv, Shape, TypeOK, Start
<1>3. InRange = {m \in 0 .. head : m >= from}
  BY <1>1 DEF InRange
<1>4. ASSUME NEW m \in InRange
      PROVE  Cardinality({k \in InRange : Earlier(k, m)}) = m - from
  <2>1. m \in Int /\ m <= head /\ m >= from
    BY <1>2, <1>3
  <2>2. {k \in InRange : Earlier(k, m)} = from .. m - 1
    BY <1>1, <1>2, <1>3, <2>1 DEF Earlier
  <2>3. from \in Int /\ m - 1 \in Int
    BY <1>2, <2>1
  <2>4. Cardinality(from .. m - 1) = IF from > m - 1 THEN 0 ELSE m - 1 - from + 1
    BY <2>3, FS_Interval
  <2>5. (IF from > m - 1 THEN 0 ELSE m - 1 - from + 1) = m - from
    BY <1>2, <2>1
  <2> QED
    BY <2>2, <2>4, <2>5
<1>5. FirstOf(InRange) = {m \in InRange : m - from < count}
  BY <1>4 DEF FirstOf
<1> QED
  BY <1>2, <1>3, <1>5

\* The listing.
LEMMA ListStreamsGood ==
  ASSUME IInv, CursorsHold, ListStreams
  PROVE  IInv'
<1> DEFINE p == FirstOf(InRange)
           end == p = {}
           next == NextCursor(p)
<1>1. pc = "reading" /\ Listing /\ Answered(p, end, next)
  BY DEF ListStreams
<1>2. /\ head \in Int /\ from \in Int /\ count \in Nat /\ log.forward /\ ~ log.continued
      /\ from >= 0
  BY <1>1, PagingAssumption DEF IInv, Shape, TypeOK, CursorsHold, Listing, Start
<1>3. /\ p \subseteq InRange /\ p \in SUBSET (0 .. head) /\ p \in SUBSET Nat
      /\ p = {} => InRange = {}
      /\ \A n : p # {} /\ Splits(p, n) =>
           /\ \A k \in returned \cup p : ~ Ahead(n, k)
           /\ \A m \in InRange \ p : Ahead(n, m)
  BY <1>1, PageParts
<1>4. \A k \in returned : ~ Ahead(from, k)
  BY <1>1 DEF IInv, Given
<1>5. CASE InMemory
  <2>1. /\ \A m \in p : m < from + count
        /\ \A m \in InRange \ p : m >= from + count
    BY <1>1, <1>5, ListedPage
  <2>2. next = from + count
    BY <1>5 DEF NextCursor
  <2> HIDE DEF p
  <2>3. \A m : Ahead(next, m) <=> m >= from + count
    BY <1>2, <1>5, <2>2 DEF Ahead
  <2>4. \A k \in returned : ~ (k >= from) /\ k \in Nat
    BY <1>2, <1>4, <1>5 DEF Ahead, IInv, Shape, TypeOK
  <2>5. \A k \in returned \cup p : ~ Ahead(next, k)
    <3>1. ASSUME NEW k \in returned PROVE ~ (k >= from + count)
      <4>1. ~ (k >= from) /\ k \in Int
        BY <2>4
      <4> QED
        BY <1>2, <4>1
    <3>2. ASSUME NEW k \in p PROVE ~ (k >= from + count)
      <4>1. k < from + count /\ k \in Int
        BY <1>3, <2>1
      <4> QED
        BY <1>2, <4>1
    <3> QED
      BY <2>3, <3>1, <3>2
  <2>6. next \in Int /\ next >= End /\ next >= Start
    BY <1>2, <2>2 DEF Start, End
  <2> HIDE DEF next
  <2> QED
    BY <1>1, <1>2, <1>3, <2>1, <2>3, <2>5, <2>6, PageGood DEF p
<1>6. CASE ~ InMemory /\ p # {}
  <2> HIDE DEF p
  <2>1. PICK a : a = Max(p) /\ a \in p
    BY <1>2, <1>3, <1>6, MaxProperties
  <2>2. next = a /\ Splits(p, next)
    BY <1>1, <1>2, <1>3, <1>6, <2>1, LastSplits DEF NextCursor
  <2> HIDE DEF next
  <2>3. next \in Int /\ next >= End /\ next >= Start
    BY <1>3, <2>1, <2>2 DEF Start, End
  <2> QED
    BY <1>1, <1>2, <1>3, <1>6, <2>2, <2>3, PageGood DEF p
<1>7. CASE ~ InMemory /\ p = {}
  <2>1. next = 0
    BY <1>7 DEF NextCursor
  <2> HIDE DEF next
  <2>2. next \in Int /\ next >= End /\ next >= Start
    BY <2>1 DEF Start, End
  <2> QED
    BY <1>1, <1>2, <1>3, <1>7, <2>2, PageGood
<1> QED
  BY <1>5, <1>6, <1>7
\* readStream of PostgreSQL, its first statement.
LEMMA ReadMessagesGood ==
  ASSUME IInv, CursorsHold, ReadMessages
  PROVE  IInv'
<1> DEFINE p == FirstOf(InRange)
<1>1. /\ pc = "reading" /\ log.kind = "stream" /\ ~ InMemory /\ pc' = "info"
      /\ page' = p /\ isEnd' = (p = InRange)
      /\ UNCHANGED <<log, messages, head, exists, count, from, returned, owed, later>>
  BY DEF ReadMessages
<1>2. InRange = {m \in messages : Ahead(from, m)}
  BY <1>1, RangeIsAhead
<1>3. /\ p \subseteq InRange /\ p \in SUBSET (0 .. head) /\ p \in SUBSET Nat
      /\ p = {} => InRange = {}
      /\ p # InRange /\ ~ log.forward => \A k \in p : k >= 1
  BY <1>1, PageParts
<1>4. \A k \in InRange \ p, m \in p : Earlier(m, k)
  <2>1. InRange \in SUBSET messages
    BY <1>2
  <2> QED
    BY <2>1, PageIsTheBeginning
<1>5. p \subseteq 0 .. MaxHead
  <2>1. head \in -1 .. MaxHead /\ MaxHead \in Nat
    BY PagingAssumption DEF IInv, Shape, TypeOK
  <2> QED
    BY <1>3, <2>1
<1>6. ~ log.continued
  BY <1>1, PagingAssumption DEF IInv, Shape, TypeOK, CursorsHold, InMemory
<1>7. \A m \in owed : m \in returned \/ m \in InRange
  BY <1>1, <1>2 DEF IInv, Owes, Shape, TypeOK
<1> HIDE DEF p
<1>8. Shape'
  BY <1>1, <1>5 DEF IInv, Shape, TypeOK, Before, InMemory
<1>9. Stored' /\ Cursor'
  BY <1>1 DEF IInv, Stored, Cursor, InMemory
<1>10. Given'
  BY <1>1 DEF IInv, Given, Ahead, Listing, InMemory
<1>11. Owes'
  BY <1>1, <1>4, <1>6, <1>7 DEF Owes, Earlier
<1>12. PageRead'
  BY <1>1, <1>2, <1>3 DEF PageRead, Ahead, Listing, InMemory
<1> QED
  BY <1>8, <1>9, <1>10, <1>11, <1>12 DEF IInv

\* And its second.
LEMMA ReadInfoGood ==
  ASSUME IInv, CursorsHold, ReadInfo
  PROVE  IInv'
<1>1. /\ pc = "info" /\ ~ InMemory /\ ~ Listing
      /\ page \in SUBSET (0 .. MaxHead) /\ page \in SUBSET Nat /\ isEnd \in BOOLEAN
      /\ head \in Int /\ head >= -1 /\ MaxHead \in Int
  BY PagingAssumption DEF ReadInfo, IInv, Shape, TypeOK, Listing
<1>2. ~ log.continued
  BY <1>1, PagingAssumption DEF IInv, Shape, TypeOK, CursorsHold, InMemory
<1>3. CASE ~ exists
  <2> DEFINE next == IF log.forward THEN 0 ELSE -1
  <2>1. Answered({}, TRUE, next)
    BY <1>3 DEF ReadInfo
  <2>2. owed = {}
    BY <1>3 DEF IInv, Stored, Shape, TypeOK
  <2>3. next \in Int /\ next >= End /\ (log.forward => next >= Start)
    BY DEF Start, End
  <2> HIDE DEF next
  <2> QED
    BY <1>1, <1>2, <2>1, <2>2, <2>3, AnswerGood
<1>4. CASE exists /\ isEnd
  <2> DEFINE next == NextVersion(page, isEnd, head)
  <2>1. Answered(page, isEnd, next)
    BY <1>4 DEF ReadInfo
  <2>2. owed \subseteq returned \cup page
    BY <1>1, <1>4 DEF IInv, Owes
  <2>3. next \in Int /\ next >= End /\ (log.forward => next >= Start)
    BY <1>1, <1>4 DEF NextVersion, AtLeastEnd, Start, End
  <2> HIDE DEF next
  <2> QED
    BY <1>1, <1>2, <1>4, <2>1, <2>2, <2>3, AnswerGood
<1>5. CASE exists /\ ~ isEnd
  <2> DEFINE next == NextVersion(page, isEnd, head)
  <2>1. Answered(page, isEnd, next)
    BY <1>5 DEF ReadInfo
  <2>2. /\ page # {} /\ (~ log.forward => \A m \in page : m >= 1)
        /\ \A m \in page : Ahead(from, m)
    BY <1>1, <1>5 DEF IInv, PageRead
  <2>3. next \in Int /\ next >= End /\ (log.forward => next >= Start) /\ Splits(page, next)
    <3>1. CASE log.forward
      <4>1. PICK a : a = Max(page) /\ a \in page
        BY <1>1, <2>2, MaxProperties
      <4>2. next = a + 1 /\ a \in Nat /\ Splits(page, next)
        BY <1>1, <1>5, <2>2, <3>1, <4>1, LastSplits DEF NextVersion
      <4> HIDE DEF next
      <4> QED
        BY <4>2 DEF Start, End
    <3>2. CASE ~ log.forward
      <4>1. PICK b : b = Min(page) /\ b \in page
        BY <1>1, <2>2, MinProperties
      <4>2. b \in Nat /\ b >= 1
        BY <1>1, <2>2, <3>2, <4>1
      <4>3. next = b - 1
        BY <1>1, <1>5, <2>2, <3>2, <4>1, <4>2 DEF NextVersion, AtLeastEnd, End
      <4>4. Splits(page, next)
        BY <1>1, <2>2, <3>2, <4>1, <4>3, LastSplits
      <4> HIDE DEF next
      <4> QED
        BY <3>2, <4>2, <4>3, <4>4 DEF End
    <3> QED
      BY <3>1, <3>2
  <2> HIDE DEF next
  <2>4. \A k \in returned \cup page : ~ Ahead(next, k)
    BY <1>1, <2>2, <2>3, SplitsBehind
  <2>5. \A m \in owed : m \in returned \cup page \/ Ahead(next, m)
    <3>1. owed \in SUBSET Nat
      <4>1. owed \subseteq messages /\ messages \subseteq 0 .. head
        BY DEF IInv, Shape, TypeOK
      <4> QED
        BY <4>1
    <3> QED
      BY <1>1, <1>5, <2>3, <3>1 DEF IInv, Owes, Splits
  <2> QED
    BY <1>1, <1>2, <1>5, <2>1, <2>3, <2>4, <2>5, AnswerGood
<1> QED
  BY <1>3, <1>4, <1>5

\* The other calls.
LEMMA CallGood ==
  ASSUME IInv, CursorsHold, CreateStream \/ Append \/ Delete \/ DeleteStream
  PROVE  IInv'
<1>1. UNCHANGED <<log, pc, count, from, page, isEnd, returned>>
  BY DEF CreateStream, Append, Delete, DeleteStream, reader
<1>2. /\ log \in Logs /\ head \in Int /\ head >= -1 /\ MaxHead \in Nat /\ from \in Int
      /\ log.continued => log.forward /\ ~ Listing /\ (log.kind = "stream" => InMemory)
  BY PagingAssumption DEF IInv, Shape, TypeOK, CursorsHold, Listing, InMemory
<1>3. PageRead'
  BY <1>1 DEF IInv, PageRead, Ahead, Listing, InMemory
<1>4. CASE CreateStream
  <2>1. Shape'
    BY <1>1, <1>4 DEF IInv, Shape, TypeOK, CreateStream, reader, Before, InMemory
  <2>2. Stored' /\ Cursor'
    BY <1>1, <1>4 DEF IInv, Stored, Cursor, CreateStream, reader, InMemory
  <2>3. Given' /\ Owes'
    BY <1>1, <1>4 DEF IInv, Given, Owes, CreateStream, reader, Ahead, Earlier, Listing, InMemory
  <2> QED
    BY <1>3, <2>1, <2>2, <2>3 DEF IInv
<1>5. CASE Append
  <2>1. /\ head' = head + 1 /\ messages' = messages \cup {head + 1} /\ exists' = TRUE /\ head < MaxHead
        /\ owed' = owed /\ later' \subseteq later \cup {head + 1} /\ (pc = "idle" => later' = {})
    BY <1>5 DEF Append
  <2>2. Shape'
    <3>1. head >= Before(log) /\ messages \subseteq Before(log) + 1 .. head /\ Before(log) \in {0, -1}
      BY DEF IInv, Shape, Before
    <3>2. messages' \subseteq Before(log) + 1 .. head' /\ head' \in -1 .. MaxHead /\ head' >= Before(log)
      BY <1>2, <2>1, <3>1
    <3>3. messages' \subseteq 0 .. head' /\ owed' \cup later' \subseteq messages'
      BY <1>2, <2>1 DEF IInv, Shape, TypeOK
    <3> QED
      BY <1>1, <2>1, <3>2, <3>3 DEF IInv, Shape, TypeOK, InMemory
  <2>3. Stored'
    <3>1. InMemory /\ ~ log.deletions => messages' = 0 .. head'
      BY <1>2, <2>1 DEF IInv, Stored
    <3> QED
      BY <1>1, <2>1, <3>1 DEF Stored, InMemory
  <2>4. Cursor'
    BY <1>1, <1>2, <2>1 DEF IInv, Cursor, InMemory
  <2>5. Given'
    BY <1>1, <2>1 DEF IInv, Given, Ahead, Listing, InMemory
  <2>6. Owes'
    <3>1. log.continued => Ahead(from, head + 1)
      BY <1>2 DEF IInv, Cursor, Ahead
    <3> QED
      BY <1>1, <2>1, <3>1 DEF IInv, Owes, Ahead, Earlier, Listing, InMemory
  <2> QED
    BY <1>3, <2>2, <2>3, <2>4, <2>5, <2>6 DEF IInv
<1>6. CASE Delete \/ DeleteStream
  <2>1. /\ log.deletions /\ messages' \subseteq messages
        /\ owed' \subseteq owed /\ later' \subseteq later /\ owed' \cup later' \subseteq messages'
        /\ \/ UNCHANGED <<head, exists>>
           \/ log.kind = "stream" /\ ~ InMemory /\ head' = -1 /\ exists' = FALSE /\ messages' = {}
    BY <1>6 DEF Delete, DeleteStream, IInv, Shape, TypeOK
  <2>2. Shape'
    <3>1. CASE UNCHANGED head
      BY <1>1, <2>1, <3>1 DEF IInv, Shape, TypeOK, Before, InMemory
    <3>2. CASE log.kind = "stream" /\ head' = -1 /\ messages' = {} /\ exists' = FALSE
      <4>1. Before(log) = -1 /\ head' \in -1 .. MaxHead /\ head' >= -1
        BY <1>2, <3>2 DEF Before
      <4>2. TypeOK'
        BY <1>1, <2>1, <3>2, <4>1 DEF IInv, Shape, TypeOK
      <4>3. Before(log)' = -1
        BY <1>1, <4>1 DEF Before
      <4> QED
        BY <1>1, <3>2, <4>1, <4>2, <4>3 DEF IInv, Shape, InMemory
    <3> QED
      BY <2>1, <3>1, <3>2, <1>1 DEF IInv, Shape, TypeOK
  <2>3. Stored'
    BY <1>1, <2>1 DEF IInv, Stored, InMemory
  <2>4. Cursor'
    BY <1>1, <1>2, <2>1 DEF IInv, Cursor, InMemory
  <2>5. Given'
    BY <1>1, <2>1 DEF IInv, Given, Ahead, Listing, InMemory
  <2>6. Owes'
    BY <1>1, <2>1 DEF IInv, Owes, Ahead, Earlier, Listing, InMemory
  <2> QED
    BY <1>3, <2>2, <2>3, <2>4, <2>5, <2>6 DEF IInv
<1> QED
  BY <1>4, <1>5, <1>6
\* The client begins, or goes on later.
LEMMA BeginGood ==
  ASSUME IInv, CursorsHold, Begin
  PROVE  IInv'
<1>1. /\ pc = "idle" /\ pc' = "reading" /\ count' \in Counts
      /\ UNCHANGED <<log, messages, head, exists, page, isEnd, returned, later>>
      /\ returned = {} /\ later = {}
  BY DEF Begin, IInv, Given
<1>2. /\ log \in Logs /\ log.forward \in BOOLEAN /\ head \in Int /\ head >= -1
      /\ messages \in SUBSET Nat /\ \A m \in messages : m \in 0 .. head /\ m >= Before(log) + 1
  BY PagingAssumption DEF IInv, Shape, TypeOK, Log, Before
<1>3. /\ from' \in Int /\ from' >= End /\ (log.forward => from' >= Start) /\ from' <= head + 1
      /\ ~ log.forward => from' <= head
      /\ owed' \subseteq messages /\ \A m \in owed' : Ahead(from', m)
  <2>1. CASE from' = (IF log.forward THEN Start ELSE End) /\ owed' = messages
    <3>1. ASSUME NEW m \in messages PROVE Ahead(from', m)
      <4>1. CASE log.forward
        <5>1. from' = 0 /\ m >= 0
          BY <1>2, <2>1, <4>1 DEF Start
        <5>2. Listing /\ ~ InMemory => m > 0
          <6>1. Listing /\ ~ InMemory => Before(log) = 0
            BY <1>2, PagingAssumption DEF Before, Listing, InMemory, Log
          <6> QED
            BY <1>2, <6>1
        <5> QED
          BY <4>1, <5>1, <5>2 DEF Ahead
      <4>2. CASE ~ log.forward
        BY <2>1, <4>2 DEF Ahead
      <4> QED
        BY <4>1, <4>2
    <3> QED
      BY <1>2, <2>1, <3>1 DEF Start, End
  <2>2. CASE ~ Listing /\ \E m \in messages :
                from' = m /\ owed' = {k \in messages : k = m \/ Earlier(m, k)}
    <3>1. PICK m \in messages : from' = m /\ owed' = {k \in messages : k = m \/ Earlier(m, k)}
      BY <2>2
    <3>2. m \in Nat /\ m <= head
      BY <1>2
    <3>3. ASSUME NEW k \in owed' PROVE Ahead(from', k)
      <4>1. k \in Nat
        BY <1>2, <3>1
      <4> QED
        BY <2>2, <3>1, <3>2, <4>1 DEF Ahead, Earlier
    <3> QED
      BY <1>2, <3>1, <3>2, <3>3 DEF Start, End
  <2> QED
    BY <2>1, <2>2 DEF Begin
<1>4. Shape'
  BY <1>1, <1>3 DEF IInv, Shape, TypeOK, Before, InMemory
<1>5. Stored' /\ PageRead'
  BY <1>1 DEF IInv, Stored, PageRead, InMemory
<1>6. Cursor'
  BY <1>1, <1>3 DEF Cursor, InMemory
<1>7. Given' /\ Owes'
  BY <1>1, <1>3 DEF Given, Owes, Ahead, Listing, InMemory
<1> QED
  BY <1>4, <1>5, <1>6, <1>7 DEF IInv

\* It goes on: what was appended since is owed as well.
LEMMA ContinueGood ==
  ASSUME IInv, CursorsHold, Continue
  PROVE  IInv'
<1>1. /\ pc = "done" /\ log.continued /\ pc' = "reading" /\ count' \in Counts
      /\ owed' = owed \cup later /\ later' = {}
      /\ UNCHANGED <<log, messages, head, exists, from, page, isEnd, returned>>
  BY DEF Continue
<1>2. Shape'
  BY <1>1 DEF IInv, Shape, TypeOK, Before, InMemory
<1>3. Stored' /\ PageRead' /\ Cursor'
  BY <1>1 DEF IInv, Stored, PageRead, Cursor, InMemory
<1>4. Given' /\ Owes'
  BY <1>1 DEF IInv, Given, Owes, Ahead, Listing, InMemory
<1> QED
  BY <1>2, <1>3, <1>4 DEF IInv

\* Every step keeps the invariant.
LEMMA StepGood ==
  ASSUME IInv, CursorsHold, [Next]_vars
  PROVE  IInv'
<1>1. CASE UNCHANGED vars
  BY <1>1 DEF vars, reader, IInv, Shape, TypeOK, Stored, Cursor, Given, Owes, PageRead,
              Ahead, Earlier, Before, Listing, InMemory
<1>2. CASE Next
  BY <1>2, CallGood, BeginGood, ContinueGood, ReadAllGood, ReadStreamGood, ListStreamsGood,
     ReadMessagesGood, ReadInfoGood DEF Next, Read
<1> QED
  BY <1>1, <1>2

\* It holds at first.
LEMMA InitGood == Init => IInv
<1> SUFFICES ASSUME Init PROVE IInv
  OBVIOUS
<1>1. /\ log \in Logs /\ log \in Log /\ messages = {} /\ head = Before(log) /\ exists = FALSE
      /\ pc = "idle" /\ count = 1 /\ from = 0 /\ page = {} /\ isEnd = FALSE
      /\ returned = {} /\ owed = {} /\ later = {}
      /\ head \in -1 .. MaxHead /\ head >= -1
  BY PagingAssumption DEF Init, Before, Start
<1>2. Shape
  <2>1. from >= End /\ from >= Start /\ from \in Int
    BY <1>1 DEF Start, End
  <2>2. /\ messages \subseteq 0 .. head /\ page \subseteq 0 .. MaxHead /\ returned \subseteq 0 .. MaxHead
        /\ owed \cup later \subseteq messages
    BY <1>1
  <2>3. TypeOK
    BY <1>1, <2>1, <2>2 DEF TypeOK
  <2> QED
    BY <1>1, <2>3 DEF Shape
<1>3. Stored
  BY <1>1 DEF Stored, Before, InMemory
<1>4. Cursor /\ Given /\ Owes /\ PageRead
  BY <1>1 DEF Cursor, Given, Owes, PageRead
<1> QED
  BY <1>2, <1>3, <1>4 DEF IInv

\* So it always holds.
LEMMA Invariance ==
  ASSUME CursorsHold
  PROVE  Spec => []IInv
<1>1. IInv /\ [Next]_vars => IInv'
  BY StepGood
<1> QED
  BY <1>1, InitGood, PTL DEF Spec

-----------------------------------------------------------------------------
(***************************************************************************)
(* What follows                                                            *)
(***************************************************************************)

\* The types: a cursor can be read from in its direction.
THEOREM TypeCorrect ==
  ASSUME CursorsHold
  PROVE  Spec => []TypeOK
<1>1. IInv => TypeOK
  BY DEF IInv, Shape
<1> QED
  BY <1>1, Invariance, PTL

\* Whoever pages to the end was given all that was there when it began and still is.
THEOREM WalksGiveAll ==
  ASSUME CursorsHold
  PROVE  Spec => []WalksAreComplete
<1>1. IInv => WalksAreComplete
  BY DEF IInv, Owes, WalksAreComplete
<1> QED
  BY <1>1, Invariance, PTL

\* Nothing is given twice or out of order, whatever happens between two pages.
THEOREM PagesGoOn ==
  ASSUME CursorsHold
  PROVE  Spec => PagesInOrder
<1>1. ASSUME IInv, Read, pc' # "info", NEW m \in page', NEW k \in returned
      PROVE  Earlier(k, m)
  <2>1. k \in Nat
    <3>1. returned \subseteq 0 .. MaxHead
      BY <1>1 DEF IInv, Shape, TypeOK
    <3> QED
      BY <3>1
  <2>2. CASE ReadInfo
    <3>1. m \in page /\ pc = "info"
      BY <1>1, <2>2 DEF ReadInfo, Answered
    <3>2. Ahead(from, m) /\ ~ Ahead(from, k) /\ m \in Nat
      BY <1>1, <3>1 DEF IInv, PageRead, Given, Shape, TypeOK
    <3> QED
      BY <1>1, <2>1, <3>2, BehindIsEarlier
  <2>3. CASE ListStreams \/ ReadAll \/ ReadStream
    <3>1. pc = "reading" /\ page' = FirstOf(InRange)
      BY <2>3 DEF ListStreams, ReadAll, ReadStream, Answered
    <3>2. InRange = {x \in messages : Ahead(from, x)} /\ FirstOf(InRange) \subseteq InRange
      BY <1>1, <3>1, RangeIsAhead, PageParts
    <3>3. Ahead(from, m) /\ m \in messages
      BY <1>1, <3>1, <3>2
    <3>4. m \in Nat /\ ~ Ahead(from, k)
      BY <1>1, <3>1, <3>3 DEF IInv, Given, Shape, TypeOK
    <3> QED
      BY <1>1, <2>1, <3>3, <3>4, BehindIsEarlier
  <2>4. CASE ReadMessages
    BY <1>1, <2>4 DEF ReadMessages
  <2> QED
    BY <1>1, <2>2, <2>3, <2>4 DEF Read
<1>2. IInv /\ [Next]_vars =>
        [(Read /\ pc' # "info") => \A m \in page', k \in returned : Earlier(k, m)]_vars
  BY <1>1
<1> QED
  BY <1>2, Invariance, PTL DEF Spec, PagesInOrder
=============================================================================
