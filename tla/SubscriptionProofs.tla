------------------------- MODULE SubscriptionProofs -------------------------
(***************************************************************************)
(* Proofs about a subscription, for every log, page size, number of        *)
(* attempts and bound on the log.                                          *)
(*                                                                         *)
(* What the consumer was given stays in order because of where the cursor  *)
(* is: between two pages it is past everything that was given (Ahead), and *)
(* while a page is pushed the page's next position is past what was given  *)
(* and what is left of the page.  Nothing is skipped because, in between,  *)
(* what the page's next position passes was given or is left of the page   *)
(* (NotLost).  Both rest on a bound that only shows when the log was       *)
(* followed from beyond its head: the cursor is never further than what    *)
(* comes after the head, or it is still where the subscription started.    *)
(***************************************************************************)
EXTENDS SubscriptionProperties, ArraysProofs

Given == Elements(delivered)
Left == Elements(page.todo)

\* A loop that goes on has attempts left.
AttemptsLeft == pc \notin {"returning", "ended"} => failures < Tries

\* Disposing waits for the loop, and only a loop that is over drops.
DisposalInOrder ==
  /\ pc = "idle" => disposal = "no"
  /\ disposal = "resolved" => ~ InLoop
  /\ drops > 0 => pc = "ended" /\ disposed

\* Everything given or about to be was in the log, and is in order.
InTheLog ==
  /\ Increasing(delivered) /\ Increasing(page.todo)
  /\ \A m \in Given : m <= head
  /\ pc \in {"informing", "pushing", "processing"} => \A m \in Left : m <= head

\* Between two pages the cursor is past everything that was given.
CursorAhead ==
  /\ pc \in {"idle", "starting"} => Given = {}
  /\ pc \in {"pulling", "informing", "retrying", "waiting"} => \A m \in Given : m < next

\* The page whose version is still to be read: page.next is the last of its slice.
SliceAhead ==
  pc = "informing" =>
    /\ InTwoStatements
    /\ page.next <= head
    /\ page.next = -1 => Left = {}
    /\ page.next # -1 => next <= page.next
    /\ \A m \in Left : next <= m /\ m <= page.next

\* The page being pushed.
PageAhead ==
  pc \in {"pushing", "processing"} =>
    /\ \A m \in Given \cup Left : m < page.next
    /\ \A m \in Given, k \in Left : m < k \/ (pc = "processing" /\ m = k /\ k = page.todo[1])
    /\ page.size = 0 => \A m \in Given : m < next

SizeIsExact ==
  /\ (pc \in {"informing", "pushing", "processing"} /\ page.size = 0) => page.todo = << >>
  /\ pc = "processing" => page.todo # << >> /\ page.todo[1] \in Given

Ahead == CursorAhead /\ SliceAhead /\ PageAhead /\ SizeIsExact

\* Where the cursor may be.
Reachable(n) == n <= head + 1 \/ n <= start

\* What the cursor, or the page's next position, has passed is not lost.
NotLost ==
  ~ InTwoStatements =>
    /\ InLoop => Reachable(next)
    /\ NothingSkipped
    /\ pc \in {"pushing", "processing"} =>
         /\ Reachable(page.next)
         /\ \A m \in live \ expired : (start <= m /\ m < page.next) => m \in Given \cup Left

IInv ==
  /\ TypeOK
  /\ AttemptsLeft
  /\ DisposalInOrder
  /\ InTheLog
  /\ Ahead
  /\ NotLost

-----------------------------------------------------------------------------
(***************************************************************************)
(* The page a store returns                                                *)
(***************************************************************************)

\* A slice has the first of the messages found; if there are any it has one.
LEMMA SliceProperties ==
  ASSUME TypeOK
  PROVE  /\ Found \in SUBSET Nat /\ IsFiniteSet(Found)
         /\ Slice \in SUBSET Found /\ IsFiniteSet(Slice)
         /\ \A m \in Found, k \in Slice : m <= k => m \in Slice
         /\ Slice = {} => Found = {}
<1> USE SubscriptionAssumption
<1>1. live \in SUBSET (0 .. head) /\ head \in Int /\ next \in Int
  BY DEF TypeOK
<1>2. IsFiniteSet(0 .. head)
  BY <1>1, FS_Interval
<1>3. Found \in SUBSET Nat /\ IsFiniteSet(Found)
  <2>1. Found \in SUBSET (0 .. head)
    BY <1>1 DEF Found
  <2>2. IsFiniteSet(Found)
    BY <1>2, <2>1, FS_Subset
  <2> QED
    BY <1>1, <2>1, <2>2
<1>4. Slice \in SUBSET Found /\ IsFiniteSet(Slice)
  <2>1. Slice \in SUBSET Found
    BY DEF Slice
  <2> QED
    BY <1>3, <2>1, FS_Subset
<1>5. ASSUME NEW m \in Found, NEW k \in Slice, m <= k
      PROVE  m \in Slice
  <2> DEFINE Below(n) == {l \in Found : l < n}
  <2>1. Below(m) \in SUBSET Below(k) /\ IsFiniteSet(Below(k))
    <3>1. k \in Nat /\ m \in Nat
      BY <1>3, <1>4
    <3>2. Below(k) \in SUBSET Found
      OBVIOUS
    <3>3. IsFiniteSet(Below(k))
      BY <1>3, <3>2, FS_Subset
    <3>4. \A l \in Found : l < m => l < k
      BY <1>3, <1>5, <3>1
    <3> QED
      BY <3>3, <3>4
  <2>2. Cardinality(Below(m)) <= Cardinality(Below(k)) /\ IsFiniteSet(Below(m))
    BY <2>1, FS_Subset
  <2>3. Cardinality(Below(k)) < MaxCountPerRead
    BY DEF Slice
  <2>4. Cardinality(Below(m)) \in Nat /\ Cardinality(Below(k)) \in Nat
    BY <2>1, <2>2, FS_CardinalityType
  <2> QED
    BY <2>2, <2>3, <2>4 DEF Slice
<1>6. ASSUME Found # {}
      PROVE  Slice # {}
  <2> DEFINE first == Nth(Found, 1)
             Below == {l \in Found : l < first}
             Upto == {l \in Found : l <= first}
  <2>1. Cardinality(Found) \in Nat /\ Cardinality(Found) # 0 /\ Found \in SUBSET Int
    BY <1>3, <1>6, FS_CardinalityType, FS_EmptySet
  <2>2. 1 \in 1 .. Cardinality(Found)
    BY <2>1
  <2>3. first \in Found /\ Cardinality(Upto) = 1
    BY <1>3, <2>1, <2>2, NthExists
  <2> HIDE DEF first
  <2>4. Below \in SUBSET Upto /\ Below # Upto /\ Upto \in SUBSET Found
    <3>1. \A l \in Found : l < first => l <= first
      BY <1>3, <2>3
    <3>2. first \in Upto /\ first \notin Below
      BY <1>3, <2>3
    <3> QED
      BY <3>1, <3>2
  <2>5. Cardinality(Below) < 1 /\ IsFiniteSet(Below)
    <3>1. IsFiniteSet(Upto)
      BY <1>3, <2>4, FS_Subset
    <3>2. IsFiniteSet(Below) /\ Cardinality(Below) <= 1 /\ Cardinality(Below) # 1
      BY <2>3, <2>4, <3>1, FS_Subset
    <3> QED
      BY <3>2, FS_CardinalityType
  <2>6. Cardinality(Below) < MaxCountPerRead
    BY <2>5, FS_CardinalityType
  <2> QED
    BY <2>3, <2>6 DEF Slice
<1> QED
  BY <1>3, <1>4, <1>5, <1>6

\* The last message of a slice, -1 if it is empty.
LEMMA LastOfProperties ==
  ASSUME NEW messages \in SUBSET Nat, IsFiniteSet(messages)
  PROVE  /\ LastOf(messages) \in Int
         /\ LastOf(messages) = -1 <=> messages = {}
         /\ messages # {} => LastOf(messages) \in messages
         /\ \A m \in messages : m <= LastOf(messages)
<1>1. messages \in SUBSET Int
  OBVIOUS
<1>2. CASE messages = {}
  BY <1>2 DEF LastOf
<1>3. CASE messages # {}
  <2>1. Greatest(messages) \in messages
    BY <1>1, <1>3, GreatestExists
  <2>2. \A m \in messages : m <= Greatest(messages)
    BY <1>1, GreatestIsLargest
  <2>3. LastOf(messages) = Greatest(messages)
    BY <1>3 DEF LastOf
  <2> HIDE DEF LastOf
  <2>4. LastOf(messages) \in Nat
    BY <2>1, <2>3
  <2> QED
    BY <1>3, <2>1, <2>2, <2>3, <2>4
<1> QED
  BY <1>2, <1>3

\* What is left of a slice once the expired messages are filtered out.
LEMMA ReadableProperties ==
  ASSUME NEW slice \in SUBSET Nat, IsFiniteSet(slice)
  PROVE  /\ Readable(slice) \in Seq(Nat) /\ Len(Readable(slice)) \in Nat
         /\ Increasing(Readable(slice))
         /\ Elements(Readable(slice)) = slice \ expired
         /\ Len(Readable(slice)) = 0 => Readable(slice) = << >>
<1> DEFINE valid == slice \ expired
<1>1. valid \in SUBSET Nat /\ IsFiniteSet(valid)
  BY FS_Subset
<1>2. Readable(slice) = [i \in 1 .. Cardinality(valid) |-> Nth(valid, i)]
  BY DEF Readable
<1>3. /\ Readable(slice) \in Seq(Nat)
      /\ Increasing(Readable(slice))
      /\ Elements(Readable(slice)) = valid
  BY <1>1, <1>2, EnumerationProperties
<1>4. /\ Len(Readable(slice)) \in Nat
      /\ Len(Readable(slice)) = 0 => Readable(slice) = << >>
  BY <1>3, LenProperties, EmptySeq
<1> QED
  BY <1>3, <1>4

\* The numbers the subscription computes are numbers.
LEMMA NumbersAreIntegers ==
  ASSUME TypeOK
  PROVE  /\ StartPosition \in Int
         /\ \A last \in Int, isEnd \in BOOLEAN : NextAfter(last, isEnd) \in Int
<1>1. HeadRead \in Int
  <2>1. live \in SUBSET (0 .. head) /\ head \in Int
    BY DEF TypeOK
  <2>2. live \in SUBSET Int /\ IsFiniteSet(live)
    <3>1. IsFiniteSet(0 .. head)
      BY <2>1, FS_Interval
    <3>2. IsFiniteSet(live)
      BY <2>1, <3>1, FS_Subset
    <3> QED
      BY <2>1, <3>2
  <2>3. live # {} => Greatest(live) \in Int
    BY <2>2, GreatestExists
  <2> QED
    BY <2>1, <2>3 DEF HeadRead
<1>2. After \in Int
  BY SubscriptionAssumption DEF TypeOK, IsMode, After
<1>3. StartPosition \in Int
  BY <1>1, <1>2 DEF StartPosition
<1>4. ASSUME NEW last \in Int, NEW isEnd \in BOOLEAN
      PROVE  NextAfter(last, isEnd) \in Int
  <2>1. next \in Int /\ head \in Int
    BY DEF TypeOK
  <2> QED
    BY <2>1 DEF NextAfter
<1> QED
  BY <1>3, <1>4

\* The page that a pull returns.
LEMMA PullProperties ==
  ASSUME TypeOK, Pull
  PROVE  /\ page' \in [todo : Seq(Nat), size : Nat, isEnd : BOOLEAN, next : Int]
         /\ Increasing(page'.todo)
         /\ Elements(page'.todo) = Slice \ expired
         /\ page'.size = 0 => page'.todo = << >>
         /\ page'.isEnd = (Slice = Found)
         /\ page'.next = IF InTwoStatements THEN LastOf(Slice)
                         ELSE NextAfter(LastOf(Slice), Slice = Found)
<1>1. Slice \in SUBSET Nat /\ IsFiniteSet(Slice)
  BY SliceProperties
<1>2. LastOf(Slice) \in Int
  BY <1>1, LastOfProperties
<1>3. NextAfter(LastOf(Slice), Slice = Found) \in Int
  BY <1>2, NumbersAreIntegers
<1>4. /\ Readable(Slice) \in Seq(Nat) /\ Len(Readable(Slice)) \in Nat
      /\ Increasing(Readable(Slice))
      /\ Elements(Readable(Slice)) = Slice \ expired
      /\ Len(Readable(Slice)) = 0 => Readable(Slice) = << >>
  BY <1>1, ReadableProperties
<1>5. page' = [todo |-> Readable(Slice), size |-> Len(Readable(Slice)),
               isEnd |-> (Slice = Found),
               next |-> IF InTwoStatements THEN LastOf(Slice)
                        ELSE NextAfter(LastOf(Slice), Slice = Found)]
  BY DEF Pull, SliceIsEnd
<1> QED
  BY <1>2, <1>3, <1>4, <1>5

-----------------------------------------------------------------------------
(***************************************************************************)
(* The type of the variables, and the order of disposing                   *)
(***************************************************************************)
\* What dropping the subscription does to the types.
LEMMA DropTypes ==
  ASSUME TypeOK, DropAndDispose
  PROVE  drops' \in Nat /\ disposal' \in {"no", "waiting", "resolved"} /\ set' \in BOOLEAN
<1>1. drops' \in Nat
  BY DEF DropAndDispose, TypeOK
<1>2. CASE disposed
  BY <1>1, <1>2 DEF DropAndDispose, BeginDispose, TypeOK
<1>3. CASE ~ disposed
  BY <1>1, <1>3 DEF DropAndDispose, BeginDispose, TypeOK
<1> QED
  BY <1>2, <1>3

\* Every step keeps the types, given that the attempts are counted and that the
\* message that is processed is still on the page.
LEMMA TypeInductive == TypeOK /\ AttemptsLeft /\ SizeIsExact /\ [Next]_vars => TypeOK'
<1> SUFFICES ASSUME TypeOK, AttemptsLeft, SizeIsExact, [Next]_vars
             PROVE  TypeOK'
  OBVIOUS
<1> USE SubscriptionAssumption DEF States, Statuses
<1>1. CASE Append1
  <2>1. head' = head + 1 /\ head' \in Int /\ head' >= -1
    BY <1>1 DEF Append1, TypeOK
  <2>2. live' \subseteq 0 .. head' /\ expired' \subseteq live'
    BY <1>1, <2>1 DEF Append1, TypeOK
  <2>3. UNCHANGED <<loop, history>> /\ mode' = mode
    BY <1>1 DEF Append1, loop, history
  <2> QED
    BY <1>1, <2>1, <2>2, <2>3 DEF Append1, TypeOK, loop, history
<1>2. ASSUME NEW m \in live, Remove1(m)
      PROVE  TypeOK'
  BY <1>2 DEF Remove1, TypeOK, loop, history
<1>3. ASSUME NEW m \in live \ expired, Expire(m)
      PROVE  TypeOK'
  BY <1>3 DEF Expire, TypeOK, loop, history
<1>4. CASE Signal
  BY <1>4 DEF Signal, TypeOK, log, loop, history, disposed
<1>5. CASE Subscribe
  BY <1>5 DEF Subscribe, TypeOK, log, loop
<1>6. CASE Start
  BY <1>6, NumbersAreIntegers DEF Start, TypeOK, log
<1>7. CASE StartFails
  BY <1>7, DropTypes DEF StartFails, TypeOK, log, loop
<1>8. CASE Pull
  BY <1>8, PullProperties DEF Pull, TypeOK, log, history
<1>9. CASE ReadInfo
  <2>1. NextAfter(page.next, page.isEnd) \in Int
    BY NumbersAreIntegers DEF TypeOK
  <2> QED
    BY <1>9, <2>1 DEF ReadInfo, TypeOK, log, history
<1>10. CASE PullFails
  BY <1>10 DEF PullFails, Failed, AttemptsLeft, TypeOK, log, history
<1>11. CASE Retry
  BY <1>11 DEF Retry, TypeOK, log, history
<1>12. CASE Process
  <2>1. page.todo \in Seq(Nat) /\ page.todo # << >> /\ delivered \in Seq(Nat)
    BY <1>12 DEF Process, TypeOK
  <2>2. page.todo[1] \in Nat
    BY <2>1, EmptySeq, LenProperties, ElementOfSeq
  <2>3. delivered' \in Seq(Nat)
    BY <1>12, <2>1, <2>2, AppendProperties DEF Process
  <2> QED
    BY <1>12, <2>3 DEF Process, TypeOK, log, loop
<1>13. CASE Processed
  <2>1. Tail(page.todo) \in Seq(Nat)
    BY <1>13, HeadTailProperties DEF Processed, SizeIsExact, TypeOK
  <2> QED
    BY <1>13, <2>1 DEF Processed, TypeOK, log, history
<1>14. CASE ProcessingFails
  BY <1>14 DEF ProcessingFails, TypeOK, log, loop, history
<1>15. CASE Advance
  BY <1>15 DEF Advance, Report, Cursor, Status, TypeOK, log
<1>16. CASE CallbackFails
  BY <1>16 DEF CallbackFails, Report, Cursor, Status, Failed, AttemptsLeft, TypeOK, log
<1>17. CASE Wake
  BY <1>17 DEF Wake, TypeOK, log, history
<1>18. CASE Exit
  <2>1. CASE disposed
    BY <1>18, <2>1 DEF Exit, TypeOK, log, loop
  <2>2. CASE ~ disposed
    BY <1>18, <2>2, DropTypes DEF Exit, TypeOK, log, loop
  <2> QED
    BY <2>1, <2>2
<1>19. CASE Dispose
  BY <1>19 DEF Dispose, BeginDispose, TypeOK, log, loop, history
<1>20. CASE DisposeResolves
  BY <1>20 DEF DisposeResolves, TypeOK, log, loop, history
<1>21. CASE UNCHANGED vars
  BY <1>21 DEF vars, TypeOK, log, loop, history
<1> QED
  BY <1>1, <1>2, <1>3, <1>4, <1>5, <1>6, <1>7, <1>8, <1>9, <1>10, <1>11, <1>12, <1>13,
     <1>14, <1>15, <1>16, <1>17, <1>18, <1>19, <1>20, <1>21 DEF Next, Loop

\* A failure that uses up the last attempt ends the loop.
LEMMA AttemptsInductive == TypeOK /\ AttemptsLeft /\ [Next]_vars => AttemptsLeft'
<1> SUFFICES ASSUME TypeOK, AttemptsLeft, [Next]_vars
             PROVE  AttemptsLeft'
  OBVIOUS
<1> USE SubscriptionAssumption DEF AttemptsLeft
<1>1. CASE PullFails \/ CallbackFails
  BY <1>1 DEF PullFails, CallbackFails, Report, Failed, TypeOK
<1>2. CASE ~ (PullFails \/ CallbackFails)
  <2>1. UNCHANGED failures /\ (pc \in {"returning", "ended"} => pc' \in {"returning", "ended"})
    BY <1>2 DEF Next, Loop, vars, log, loop, history, Append1, Remove1, Expire, Signal, Subscribe,
         Start, StartFails, Pull, ReadInfo, Retry, Process, Processed, ProcessingFails, Advance, Report,
         Wake, Exit, Dispose, DisposeResolves
  <2> QED
    BY <2>1
<1> QED
  BY <1>1, <1>2

\* Only a loop that is over lets dispose resolve, and only one that ends by itself drops.
LEMMA DisposalInductive == TypeOK /\ DisposalInOrder /\ [Next]_vars => DisposalInOrder'
<1> SUFFICES ASSUME TypeOK, DisposalInOrder, [Next]_vars
             PROVE  DisposalInOrder'
  OBVIOUS
<1> USE DEF DisposalInOrder, disposed, InLoop
<1>1. CASE Dispose
  BY <1>1 DEF Dispose, BeginDispose, TypeOK, history
<1>2. CASE DisposeResolves
  BY <1>2 DEF DisposeResolves, history
<1>3. CASE StartFails \/ Exit
  BY <1>3 DEF StartFails, Exit, DropAndDispose, BeginDispose, TypeOK
<1>4. CASE Start \/ Subscribe
  BY <1>4 DEF Start, Subscribe
<1>5. CASE Pull \/ ReadInfo \/ PullFails \/ Retry \/ Process \/ Processed \/ ProcessingFails
             \/ Advance \/ CallbackFails \/ Wake
  BY <1>5 DEF Pull, ReadInfo, PullFails, Retry, Process, Processed, ProcessingFails, Advance,
              CallbackFails, Report, Failed, Wake, loop, history
<1>6. CASE Append1 \/ (\E m \in live : Remove1(m)) \/ (\E m \in live \ expired : Expire(m)) \/ Signal
  BY <1>6 DEF Append1, Remove1, Expire, Signal, history
<1>7. CASE UNCHANGED vars
  BY <1>7 DEF vars, history
<1> QED
  BY <1>1, <1>2, <1>3, <1>4, <1>5, <1>6, <1>7 DEF Next, Loop

-----------------------------------------------------------------------------
(***************************************************************************)
(* What the consumer is given                                              *)
(***************************************************************************)

\* Messages are numbers.
LEMMA GivenAndLeftTypes ==
  ASSUME TypeOK
  PROVE  Given \subseteq Nat /\ Left \subseteq Nat
BY LenProperties, ElementOfSeq DEF TypeOK, Given, Left, Elements

\* A message is given to the consumer, and leaves the page once processed.
LEMMA ProcessProperties ==
  ASSUME TypeOK, Ahead, InTheLog, Process
  PROVE  /\ page.todo[1] \in Left /\ page.todo[1] \in Nat
         /\ Given' = Given \cup {page.todo[1]}
         /\ Increasing(delivered')
         /\ \A m \in Left : page.todo[1] <= m
<1>1. /\ page.todo \in Seq(Nat) /\ page.todo # << >> /\ delivered \in Seq(Nat)
      /\ Increasing(page.todo) /\ Increasing(delivered)
      /\ delivered' = Append(delivered, page.todo[1])
  BY DEF Process, TypeOK, InTheLog
<1>2. /\ page.todo[1] \in Left /\ page.todo[1] \in Nat
      /\ Left = Elements(Tail(page.todo)) \cup {page.todo[1]}
      /\ \A m \in Elements(Tail(page.todo)) : page.todo[1] < m
  BY <1>1, TailIncreasing DEF Left
<1>3. \A m \in Given : m < page.todo[1]
  BY <1>2 DEF Process, Ahead, PageAhead
<1>4. Increasing(delivered')
  BY <1>1, <1>2, <1>3, AppendIncreasing DEF Given
<1>5. Given' = Given \cup {page.todo[1]}
  BY <1>1, <1>2, AppendElements DEF Given
<1>6. Left \subseteq Nat
  BY GivenAndLeftTypes
<1> QED
  BY <1>2, <1>4, <1>5, <1>6

\* The message that was processed leaves the page, and is smaller than the rest.
LEMMA ProcessedProperties ==
  ASSUME TypeOK, Ahead, InTheLog, Processed
  PROVE  /\ page.todo[1] \in Given
         /\ Left = Left' \cup {page.todo[1]}
         /\ Increasing(page'.todo)
         /\ \A k \in Left' : page.todo[1] < k
         /\ page'.size = page.size /\ page'.next = page.next /\ page.size # 0
<1>1. /\ page.todo \in Seq(Nat) /\ page.todo # << >> /\ Increasing(page.todo)
      /\ page.todo[1] \in Given /\ page.size # 0
  BY DEF Processed, TypeOK, InTheLog, Ahead, SizeIsExact
<1>2. page'.todo = Tail(page.todo) /\ page'.size = page.size /\ page'.next = page.next
  BY DEF Processed, TypeOK
<1> QED
  BY <1>1, <1>2, TailIncreasing DEF Left

\* The elements of sequences that do not change.
LEMMA SameElements ==
  /\ UNCHANGED delivered => Given' = Given /\ (Increasing(delivered) => Increasing(delivered'))
  /\ page'.todo = page.todo => Left' = Left /\ (Increasing(page.todo) => Increasing(page'.todo))
BY DEF Given, Left

\* The log only grows at its head, so what was read stays below it.
LEMMA InTheLogInductive == TypeOK /\ Ahead /\ InTheLog /\ [Next]_vars => InTheLog'
<1> SUFFICES ASSUME TypeOK, Ahead, InTheLog, [Next]_vars
             PROVE  InTheLog'
  OBVIOUS
<1> USE DEF InTheLog
<1>1. CASE Append1
  <2>1. head' = head + 1 /\ UNCHANGED <<pc, page, delivered>>
    BY <1>1 DEF Append1, loop, history
  <2>2. Given \subseteq Nat /\ Left \subseteq Nat /\ head \in Int
    BY GivenAndLeftTypes DEF TypeOK
  <2>3. /\ \A m \in Given : m <= head + 1
        /\ pc \in {"informing", "pushing", "processing"} => \A m \in Left : m <= head + 1
    BY <2>2
  <2> QED
    BY <2>1, <2>3, SameElements
<1>2. CASE Pull
  <2>1. UNCHANGED <<delivered, head>>
    BY <1>2 DEF Pull, log, history
  <2>2. Increasing(page'.todo) /\ Left' = Slice \ expired
    BY <1>2, PullProperties DEF Left
  <2>3. \A m \in Slice : m <= head
    BY SliceProperties DEF Found, TypeOK
  <2> QED
    BY <2>1, <2>2, <2>3, SameElements
<1>3. CASE Process
  <2>1. UNCHANGED <<page, head>> /\ pc = "pushing"
    BY <1>3 DEF Process, loop, log
  <2> QED
    BY <1>3, <2>1, ProcessProperties, SameElements
<1>4. CASE Processed
  <2>1. UNCHANGED <<delivered, head>> /\ pc = "processing"
    BY <1>4 DEF Processed, log, history
  <2> QED
    BY <1>4, <2>1, ProcessedProperties, SameElements
<1>5. CASE ReadInfo
  <2>1. UNCHANGED <<delivered, head>> /\ page'.todo = page.todo /\ pc = "informing"
    BY <1>5 DEF ReadInfo, log, history, TypeOK
  <2> QED
    BY <2>1, SameElements
<1>6. CASE ~ (Append1 \/ Pull \/ Process \/ Processed \/ ReadInfo)
  <2>1. /\ UNCHANGED <<page, delivered, head>>
        /\ pc' \in {"informing", "pushing", "processing"} => pc \in {"informing", "pushing", "processing"}
    BY <1>6 DEF Next, Loop, vars, log, loop, history, Remove1, Expire, Signal, Subscribe,
         Start, StartFails, PullFails, Retry, ProcessingFails, Advance, CallbackFails, Report, Failed,
         Wake, Exit, Dispose, DisposeResolves
  <2> QED
    BY <2>1, SameElements
<1> QED
  BY <1>1, <1>2, <1>3, <1>4, <1>5, <1>6

-----------------------------------------------------------------------------
(***************************************************************************)
(* The cursor and the page                                                 *)
(***************************************************************************)

\* What a slice says to read next comes after what was passed and what it holds.
LEMMA NextAfterIsAhead ==
  ASSUME TypeOK, NEW last \in Int, NEW isEnd \in BOOLEAN, NEW S \in SUBSET Nat,
         last = -1 \/ next <= last,
         \A m \in S : m <= head /\ (m < next \/ m <= last)
  PROVE  \A m \in S : m < NextAfter(last, isEnd)
<1>1. next \in Int /\ head \in Int
  BY DEF TypeOK
<1> SUFFICES ASSUME NEW m \in S
             PROVE  m < NextAfter(last, isEnd)
  OBVIOUS
<1>2. m \in Nat /\ m <= head /\ (m < next \/ m <= last)
  OBVIOUS
<1>3. NextAfter(last, isEnd) \in {next, head + 1, last + 1}
      /\ (NextAfter(last, isEnd) = next => last = -1 \/ next = head + 1 \/ next = last + 1)
      /\ (NextAfter(last, isEnd) = last + 1 => last # -1 \/ last + 1 = next \/ last + 1 = head + 1)
  BY DEF NextAfter
<1> QED
  BY <1>1, <1>2, <1>3

\* A pull returns what the cursor has not passed.
LEMMA PullIsAhead == TypeOK /\ Ahead /\ InTheLog /\ Pull => Ahead'
<1> SUFFICES ASSUME TypeOK, Ahead, InTheLog, Pull
             PROVE  Ahead'
  OBVIOUS
<1> DEFINE last == LastOf(Slice)
<1>1. /\ Slice \in SUBSET Nat /\ IsFiniteSet(Slice)
      /\ \A m \in Slice : next <= m /\ m <= head
      /\ next \in Int /\ head \in Int /\ head >= -1
  BY SliceProperties DEF Found, TypeOK
<1>2. /\ last \in Int
      /\ last = -1 <=> Slice = {}
      /\ last # -1 => last \in Slice
      /\ \A m \in Slice : m <= last
  BY <1>1, LastOfProperties
<1> HIDE DEF last
<1>3. /\ Left' = Slice \ expired
      /\ page'.size = 0 => page'.todo = << >>
      /\ page'.next = IF InTwoStatements THEN last ELSE NextAfter(last, Slice = Found)
  BY PullProperties DEF Left, last
<1>4. /\ pc' = IF InTwoStatements THEN "informing" ELSE "pushing"
      /\ UNCHANGED <<mode, next, delivered, head>>
      /\ \A m \in Given : m < next
  BY DEF Pull, log, history, Ahead, CursorAhead
<1>5. /\ Given' = Given /\ Given \subseteq Nat /\ Left' \subseteq Nat
      /\ (InTwoStatements)' = InTwoStatements
  BY <1>1, <1>3, <1>4, GivenAndLeftTypes, SameElements DEF InTwoStatements, Kind, Store
<1>6. CursorAhead'
  BY <1>4, <1>5 DEF CursorAhead
<1>7. SliceAhead'
  <2> SUFFICES ASSUME InTwoStatements
               PROVE  SliceAhead'
    BY <1>4 DEF SliceAhead
  <2>1. page'.next = last
    BY <1>3
  <2> QED
    BY <1>1, <1>2, <1>3, <1>4, <1>5, <2>1 DEF SliceAhead
<1>8. PageAhead'
  <2> SUFFICES ASSUME ~ InTwoStatements
               PROVE  PageAhead'
    BY <1>4 DEF PageAhead
  <2>1. \A m \in Given \cup Left' : m <= head /\ (m < next \/ m <= last)
    BY <1>1, <1>2, <1>3, <1>4 DEF InTheLog
  <2>2. \A m \in Given \cup Left' : m < NextAfter(last, Slice = Found)
    BY <1>1, <1>2, <1>5, <2>1, NextAfterIsAhead
  <2>3. \A m \in Given, k \in Left' : m < k
    BY <1>1, <1>3, <1>4, <1>5
  <2> QED
    BY <1>3, <1>4, <1>5, <2>2, <2>3 DEF PageAhead
<1>9. SizeIsExact'
  BY <1>3, <1>4 DEF SizeIsExact
<1> QED
  BY <1>6, <1>7, <1>8, <1>9 DEF Ahead

\* So does the second statement of a PostgreSQL stream.
LEMMA ReadInfoIsAhead == TypeOK /\ Ahead /\ InTheLog /\ ReadInfo => Ahead'
<1> SUFFICES ASSUME TypeOK, Ahead, InTheLog, ReadInfo
             PROVE  Ahead'
  OBVIOUS
<1>1. /\ pc = "informing" /\ pc' = "pushing"
      /\ page'.todo = page.todo /\ page'.size = page.size
      /\ page'.next = NextAfter(page.next, page.isEnd)
      /\ UNCHANGED <<next, delivered, head>>
      /\ page.next \in Int /\ page.isEnd \in BOOLEAN /\ next \in Int
  BY DEF ReadInfo, log, history, TypeOK
<1>2. /\ Given' = Given /\ Left' = Left /\ Given \subseteq Nat /\ Left \subseteq Nat
  BY <1>1, GivenAndLeftTypes, SameElements
<1>3. /\ \A m \in Given : m < next
      /\ page.next = -1 \/ next <= page.next
      /\ \A m \in Left : next <= m /\ m <= page.next
  BY <1>1 DEF Ahead, CursorAhead, SliceAhead
<1>4. \A m \in Given \cup Left : m <= head /\ (m < next \/ m <= page.next)
  BY <1>1, <1>3 DEF InTheLog
<1>5. \A m \in Given \cup Left : m < page'.next
  BY <1>1, <1>2, <1>3, <1>4, NextAfterIsAhead
<1>6. \A m \in Given, k \in Left : m < k
  BY <1>1, <1>2, <1>3
<1>7. PageAhead'
  BY <1>1, <1>2, <1>3, <1>5, <1>6 DEF PageAhead
<1>8. SizeIsExact'
  BY <1>1 DEF Ahead, SizeIsExact
<1>9. CursorAhead' /\ SliceAhead'
  BY <1>1 DEF CursorAhead, SliceAhead
<1> QED
  BY <1>7, <1>8, <1>9 DEF Ahead

\* Once the page is done the cursor is past everything that was given.
LEMMA ReportIsAhead == TypeOK /\ Ahead /\ Report /\ UNCHANGED delivered => \A m \in Given' : m < next'
<1> SUFFICES ASSUME TypeOK, Ahead, Report, UNCHANGED delivered
             PROVE  \A m \in Given : m < next'
  BY SameElements
<1>1. CASE Kind = "stream" /\ Paused
  BY <1>1 DEF Report, Cursor, Paused, Ahead, PageAhead
<1>2. CASE ~ (Kind = "stream" /\ Paused)
  BY <1>2 DEF Report, Cursor, Ahead, PageAhead
<1> QED
  BY <1>1, <1>2

\* Every step keeps the cursor, or the page, ahead of what was given.
LEMMA AheadInductive == TypeOK /\ Ahead /\ InTheLog /\ [Next]_vars => Ahead'
<1> SUFFICES ASSUME TypeOK, Ahead, InTheLog, [Next]_vars
             PROVE  Ahead'
  OBVIOUS
<1> USE DEF CursorAhead, SliceAhead, PageAhead, SizeIsExact
<1>1. CASE Append1
  <2>1. /\ UNCHANGED <<mode, pc, next, page, delivered>>
        /\ head' = head + 1 /\ head \in Int /\ page.next \in Int
    BY <1>1 DEF Append1, TypeOK, loop, history
  <2>2. page.next <= head => page.next <= head'
    BY <2>1
  <2> QED
    BY <2>1, <2>2, SameElements DEF Ahead, InTwoStatements, Kind, Store
<1>2. CASE (\E m \in live : Remove1(m)) \/ (\E m \in live \ expired : Expire(m)) \/ Signal
             \/ Dispose \/ DisposeResolves \/ UNCHANGED vars
  <2>1. UNCHANGED <<mode, pc, next, page, delivered, head>>
    BY <1>2 DEF Remove1, Expire, Signal, Dispose, DisposeResolves, vars, log, loop, history
  <2> QED
    BY <2>1, SameElements DEF Ahead, InTwoStatements, Kind, Store
<1>3. CASE Subscribe \/ Start \/ StartFails
  <2>1. /\ UNCHANGED <<delivered, page>>
        /\ pc \in {"idle", "starting"} /\ pc' \in {"starting", "pulling", "ended"}
    BY <1>3 DEF Subscribe, Start, StartFails, loop
  <2>2. Given' = {}
    BY <2>1, SameElements DEF Ahead
  <2> QED
    BY <2>1, <2>2 DEF Ahead
<1>4. CASE Pull
  BY <1>4, PullIsAhead
<1>5. CASE ReadInfo
  BY <1>5, ReadInfoIsAhead
<1>6. CASE PullFails \/ Retry \/ Wake \/ ProcessingFails \/ Exit
  <2>1. /\ UNCHANGED <<delivered, page, next>>
        /\ \/ pc \in {"pulling", "informing", "retrying", "waiting"} /\ pc' \in {"retrying", "pulling"}
           \/ pc' \in {"returning", "ended"}
    BY <1>6 DEF PullFails, Failed, Retry, Wake, ProcessingFails, Exit, loop, history
  <2> QED
    BY <2>1, SameElements DEF Ahead
<1>7. CASE Process
  <2>1. /\ UNCHANGED <<page, next>> /\ pc = "pushing" /\ pc' = "processing" /\ page.todo # << >>
    BY <1>7 DEF Process, loop
  <2>2. /\ page.todo[1] \in Left /\ page.todo[1] \in Nat
        /\ Given' = Given \cup {page.todo[1]}
        /\ \A m \in Left : page.todo[1] <= m
    BY <1>7, ProcessProperties
  <2>3. Left' = Left /\ Left \subseteq Nat /\ Given \subseteq Nat
    BY <2>1, SameElements, GivenAndLeftTypes
  <2>4. page.size # 0
    BY <2>1 DEF Ahead
  <2>5. PageAhead'
    <3>1. \A m \in Given' \cup Left' : m < page'.next
      BY <2>1, <2>2, <2>3 DEF Ahead
    <3>2. ASSUME NEW m \in Given', NEW k \in Left'
          PROVE  m < k \/ (m = k /\ k = page'.todo[1])
      <4>1. CASE m \in Given
        BY <2>1, <2>3, <3>2, <4>1 DEF Ahead
      <4>2. CASE m = page.todo[1]
        BY <2>1, <2>2, <2>3, <3>2, <4>2
      <4> QED
        BY <2>2, <3>2, <4>1, <4>2
    <3> QED
      BY <2>1, <2>4, <3>1, <3>2
  <2>6. CursorAhead' /\ SliceAhead' /\ SizeIsExact'
    BY <2>1, <2>2, <2>4
  <2> QED
    BY <2>5, <2>6 DEF Ahead
<1>8. CASE Processed
  <2>1. /\ UNCHANGED <<delivered, next>> /\ pc = "processing" /\ pc' = "pushing"
    BY <1>8 DEF Processed, history
  <2>2. /\ Left = Left' \cup {page.todo[1]}
        /\ \A k \in Left' : page.todo[1] < k
        /\ page'.next = page.next /\ page'.size # 0
        /\ page.todo[1] \in Given
    BY <1>8, ProcessedProperties
  <2>3. Given' = Given /\ Left \subseteq Nat /\ Given \subseteq Nat
    BY <2>1, SameElements, GivenAndLeftTypes
  <2>4. \A m \in Given' \cup Left' : m < page'.next
    BY <2>1, <2>2, <2>3 DEF Ahead
  <2>5. \A m \in Given', k \in Left' : m < k
    BY <2>1, <2>2, <2>3 DEF Ahead
  <2> QED
    BY <2>1, <2>2, <2>4, <2>5 DEF Ahead
<1>9. CASE Advance \/ CallbackFails
  <2>1. /\ Report /\ UNCHANGED <<delivered, page>>
        /\ pc' \in {"waiting", "pulling", "retrying", "returning"}
    BY <1>9 DEF Advance, CallbackFails, Failed
  <2>2. \A m \in Given' : m < next'
    BY <2>1, ReportIsAhead
  <2> QED
    BY <2>1, <2>2 DEF Ahead
<1> QED
  BY <1>1, <1>2, <1>3, <1>4, <1>5, <1>6, <1>7, <1>8, <1>9 DEF Next, Loop

-----------------------------------------------------------------------------
(***************************************************************************)
(* What the cursor passes                                                  *)
(***************************************************************************)
PullLosesNothing ==
  /\ Reachable(page'.next)
  /\ \A m \in live \ expired : (start <= m /\ m < page'.next) => m \in Given \cup Left'

\* A page from one snapshot holds every message up to its next position.
LEMMA PullKeepsAll ==
  ASSUME TypeOK, InTheLog, NotLost, Pull, ~ InTwoStatements
  PROVE  PullLosesNothing
<1> DEFINE last == LastOf(Slice)
<1>1. /\ Slice \in SUBSET Nat /\ IsFiniteSet(Slice) /\ Found \in SUBSET Nat
      /\ \A m \in Found, k \in Slice : m <= k => m \in Slice
      /\ Slice = {} => Found = {}
      /\ \A m \in Slice : m <= head
      /\ \A m \in live : m >= next => m \in Found
      /\ live \subseteq Nat /\ \A m \in live : m <= head
      /\ next \in Int /\ head \in Int /\ head >= -1 /\ start \in Int
  BY SliceProperties DEF Found, TypeOK
<1>2. /\ last \in Int
      /\ last = -1 <=> Slice = {}
      /\ last # -1 => last \in Slice
  BY <1>1, LastOfProperties
<1> HIDE DEF last
<1>3. /\ Left' = Slice \ expired
      /\ page'.next = NextAfter(last, Slice = Found)
  BY PullProperties DEF Left, last
<1>4. /\ Reachable(next)
      /\ \A m \in live \ expired : (start <= m /\ m < next) => m \in Given
  BY DEF NotLost, NothingSkipped, InLoop, Pull, Given
<1>5. Reachable(page'.next)
  <2>1. last + 1 <= head + 1
    BY <1>1, <1>2
  <2>2. page'.next \in {next, head + 1, last + 1}
    BY <1>3 DEF NextAfter
  <2> QED
    BY <1>1, <1>2, <1>4, <2>1, <2>2 DEF Reachable
<1>6. ASSUME NEW m \in live \ expired, start <= m, m < page'.next
      PROVE  m \in Given \cup Left'
  <2>1. CASE m < next
    BY <1>4, <1>6, <2>1
  <2>2. CASE ~ (m < next)
    <3>1. m \in Found /\ m \in Nat /\ m <= head
      BY <1>1, <2>2
    <3>2. m \in Slice
      <4>1. last # -1
        BY <1>1, <1>2, <3>1
      <4>2. CASE Slice = Found
        BY <3>1, <4>2
      <4>3. CASE Slice # Found
        <5>1. page'.next = last + 1
          BY <1>3, <4>1, <4>3 DEF NextAfter
        <5> QED
          BY <1>1, <1>2, <1>6, <3>1, <4>1, <5>1
      <4> QED
        BY <4>2, <4>3
    <3> QED
      BY <1>3, <3>2
  <2> QED
    BY <2>1, <2>2
<1> QED
  BY <1>5, <1>6 DEF PullLosesNothing

\* What is appended comes after what was passed, unless that is where the subscription
\* started; what is deleted or expires is no loss; every other step moves the cursor
\* to the end of a page that is done, if at all.
LEMMA NotLostInductive == TypeOK /\ Ahead /\ InTheLog /\ NotLost /\ [Next]_vars => NotLost'
<1> SUFFICES ASSUME TypeOK, Ahead, InTheLog, NotLost, [Next]_vars
             PROVE  NotLost'
  OBVIOUS
<1>1. UNCHANGED mode
  BY DEF Next, Loop, vars, log, loop, history, Append1, Remove1, Expire, Signal, Subscribe,
         Start, StartFails, Pull, ReadInfo, PullFails, Failed, Retry, Process, Processed, ProcessingFails,
         Advance, CallbackFails, Report, Wake, Exit, Dispose, DisposeResolves
<1>2. (InTwoStatements)' = InTwoStatements
  BY <1>1 DEF InTwoStatements, Kind, Store
<1> SUFFICES ASSUME ~ InTwoStatements
             PROVE  NotLost'
  BY <1>2 DEF NotLost
<1> DEFINE Passed(n, s) == \A m \in live \ expired : (start <= m /\ m < n) => m \in s
           PassedNow(n, s) == \A m \in live' \ expired' : (start' <= m /\ m < n) => m \in s
           Pushing == pc \in {"pushing", "processing"}
<1>3. /\ InLoop => Reachable(next) /\ Passed(next, Given)
      /\ Pushing => Reachable(page.next) /\ Passed(page.next, Given \cup Left)
  BY DEF NotLost, NothingSkipped, Given
<1>4. SUFFICES /\ (InLoop)' => Reachable(next)' /\ PassedNow(next', Given')
               /\ pc' \in {"pushing", "processing"} =>
                    Reachable(page.next)' /\ PassedNow(page'.next, Given' \cup Left')
  BY <1>2 DEF NotLost, NothingSkipped, Given, Reachable
<1> HIDE DEF Passed
<1>5. pc \in {"pushing", "processing", "pulling", "informing", "retrying", "waiting", "returning"} => InLoop
  BY DEF InLoop
<1>6. next \in Int /\ page.next \in Int /\ head \in Int /\ start \in Int /\ live \subseteq Int
  BY DEF TypeOK
<1>7. UNCHANGED <<head, start>> => \A n : Reachable(n) => (n <= head' + 1 \/ n <= start')
  BY DEF Reachable
<1>8. ASSUME UNCHANGED <<head, live, expired, start>>
      PROVE  \A n, s, t : (Passed(n, s) /\ s \subseteq t) => PassedNow(n, t)
  BY <1>8 DEF Passed
<1>9. CASE Append1
  <2>1. /\ UNCHANGED <<pc, next, page, delivered, start, expired>>
        /\ head' = head + 1 /\ live' = live \cup {head + 1}
    BY <1>9 DEF Append1, loop, history
  <2>2. Given' = Given /\ Left' = Left
    BY <2>1, SameElements
  <2>3. ASSUME NEW n \in Int, NEW s, Reachable(n), Passed(n, s)
        PROVE  (n <= head' + 1 \/ n <= start') /\ PassedNow(n, s)
    BY <1>6, <2>1, <2>3 DEF Reachable, Passed
  <2> QED
    BY <1>3, <1>6, <2>1, <2>2, <2>3 DEF InLoop, Reachable
<1>10. CASE (\E m \in live : Remove1(m)) \/ (\E m \in live \ expired : Expire(m))
  <2>1. /\ UNCHANGED <<pc, next, page, delivered, start, head>>
        /\ live' \ expired' \subseteq live \ expired
    BY <1>10 DEF Remove1, Expire, loop, history
  <2>2. Given' = Given /\ Left' = Left
    BY <2>1, SameElements
  <2>3. ASSUME NEW n \in Int, NEW s, Passed(n, s)
        PROVE  PassedNow(n, s)
    BY <2>1, <2>3 DEF Passed
  <2> QED
    BY <1>3, <1>6, <2>1, <2>2, <2>3 DEF InLoop, Reachable
<1>11. CASE Signal \/ Dispose \/ DisposeResolves \/ PullFails \/ Retry \/ Wake \/ ProcessingFails
              \/ UNCHANGED vars
  <2>1. /\ UNCHANGED <<next, page, delivered, start, head, live, expired>>
        /\ pc' = pc \/ (pc' \in {"retrying", "returning", "pulling"} /\ InLoop)
    BY <1>5, <1>11 DEF Signal, Dispose, DisposeResolves, PullFails, Failed, Retry, Wake, ProcessingFails,
         vars, log, loop, history
  <2>2. Given' = Given /\ Left' = Left
    BY <2>1, SameElements
  <2>3. (InLoop)' => InLoop
    BY <2>1 DEF InLoop
  <2>4. pc' \in {"pushing", "processing"} => Pushing
    BY <2>1
  <2> QED
    BY <1>3, <1>8, <2>1, <2>2, <2>3, <2>4 DEF Reachable
<1>12. CASE Subscribe \/ StartFails \/ Exit
  <2>1. pc' \in {"starting", "ended"}
    BY <1>12 DEF Subscribe, StartFails, Exit
  <2> QED
    BY <2>1 DEF InLoop
<1>13. CASE Start
  <2>1. (pc' = "ended") \/ (pc' = "pulling" /\ next' = StartPosition /\ start' = StartPosition)
    BY <1>13 DEF Start
  <2>2. StartPosition \in Int
    BY NumbersAreIntegers
  <2>3. UNCHANGED live
    BY <1>13 DEF Start, log
  <2> QED
    BY <1>6, <2>1, <2>2, <2>3 DEF InLoop, Reachable
<1>14. CASE Pull
  <2>1. UNCHANGED <<next, delivered, start, head, live, expired>> /\ pc = "pulling" /\ pc' = "pushing"
    BY <1>14 DEF Pull, log, history
  <2>2. Given' = Given
    BY <2>1, SameElements
  <2>3. PullLosesNothing
    BY <1>14, PullKeepsAll
  <2> QED
    BY <1>3, <1>5, <1>8, <2>1, <2>2, <2>3 DEF PullLosesNothing, Reachable
<1>15. CASE ReadInfo
  BY <1>15 DEF ReadInfo, Ahead, SliceAhead
<1>16. CASE Process
  <2>1. /\ UNCHANGED <<next, page, start, head, live, expired>>
        /\ Pushing /\ pc' = "processing"
    BY <1>16 DEF Process, log, loop
  <2>2. Given \subseteq Given' /\ Left' = Left
    BY <1>16, <2>1, ProcessProperties, SameElements
  <2> QED
    BY <1>3, <1>5, <1>8, <2>1, <2>2 DEF Reachable
<1>17. CASE Processed
  <2>1. /\ UNCHANGED <<next, delivered, start, head, live, expired>>
        /\ Pushing /\ pc' = "pushing"
    BY <1>17 DEF Processed, log, history
  <2>2. Given' = Given /\ Given \cup Left = Given' \cup Left' /\ page'.next = page.next
    BY <1>17, <2>1, ProcessedProperties, SameElements
  <2> QED
    BY <1>3, <1>5, <1>8, <2>1, <2>2 DEF Reachable
<1>18. CASE Advance \/ CallbackFails
  <2>1. /\ UNCHANGED <<delivered, start, head, live, expired>>
        /\ Pushing /\ pc' \in {"waiting", "pulling", "retrying", "returning"}
        /\ page.todo = << >> /\ next' \in {next, page.next}
    BY <1>18 DEF Advance, CallbackFails, Failed, Report, Cursor, log
  <2>2. Given' = Given /\ Left = {}
    BY <2>1, SameElements DEF Left, Elements
  <2> QED
    BY <1>3, <1>5, <1>8, <2>1, <2>2 DEF Reachable
<1> QED
  BY <1>9, <1>10, <1>11, <1>12, <1>13, <1>14, <1>15, <1>16, <1>17, <1>18 DEF Next, Loop

-----------------------------------------------------------------------------
(***************************************************************************)
(* The theorems                                                            *)
(***************************************************************************)

\* The inductive invariant holds of every behaviour.
THEOREM Invariance == Spec => []IInv
<1>1. Init => IInv
  <2> SUFFICES ASSUME Init
               PROVE  IInv
    OBVIOUS
  <2>1. Given = {} /\ Left = {} /\ Increasing(delivered) /\ Increasing(page.todo)
    BY DEF Init, NoPage, Given, Left, Elements, Increasing
  <2>2. TypeOK
    <3>1. NoPage \in [todo : Seq(Nat), size : Nat, isEnd : BOOLEAN, next : Int]
      BY EmptySeq DEF NoPage
    <3>2. page \in [todo : Seq(Nat), size : Nat, isEnd : BOOLEAN, next : Int] /\ delivered \in Seq(Nat)
      BY <3>1, EmptySeq DEF Init
    <3>3. failures \in 0 .. Tries /\ head \in Int /\ head >= -1 /\ live \subseteq 0 .. head /\ expired \subseteq live
      BY SubscriptionAssumption DEF Init
    <3>4. mode \in Modes /\ pc \in States /\ next \in Int
      BY DEF Init, States
    <3>5. signal \in BOOLEAN /\ set \in BOOLEAN
      BY Zenon DEF Init
    <3>6. /\ lastHasCaughtUp \in Statuses /\ told \in Statuses
          /\ disposal \in {"no", "waiting", "resolved"}
          /\ headBefore \in Int /\ start \in Int /\ drops \in Nat
      BY DEF Init, Statuses
    <3> QED
      BY <3>2, <3>3, <3>4, <3>5, <3>6, Zenon DEF TypeOK
  <2>3. AttemptsLeft
    BY SubscriptionAssumption DEF Init, AttemptsLeft
  <2>4. DisposalInOrder /\ InTheLog /\ Ahead
    BY <2>1 DEF Init, DisposalInOrder, InLoop, InTheLog, Ahead, CursorAhead, SliceAhead, PageAhead, SizeIsExact
  <2>5. NotLost
    BY DEF Init, NotLost, NothingSkipped, InLoop
  <2> QED
    BY <2>1, <2>2, <2>3, <2>4, <2>5 DEF IInv
<1>2. IInv /\ [Next]_vars => IInv'
  BY TypeInductive, AttemptsInductive, DisposalInductive, InTheLogInductive, AheadInductive,
     NotLostInductive DEF IInv, Ahead
<1> QED
  BY <1>1, <1>2, PTL DEF Spec

\* Every variable has its type.
THEOREM TypeCorrect == Spec => []TypeOK
BY Invariance, PTL DEF IInv

\* Whatever the pages, the failed reads, the retries and what is appended, deleted
\* and expires meanwhile, the consumer gets messages in order, and none twice.
THEOREM AlwaysInOrder == Spec => []DeliveredInOrder
<1>1. IInv => DeliveredInOrder
  BY DEF IInv, InTheLog, Increasing, DeliveredInOrder
<1> QED
  BY <1>1, Invariance, PTL

\* Nothing that can still be read is left behind by the cursor, if the page is
\* read in one statement.
THEOREM NeverSkips == Spec => []NothingSkippedInSnapshots
<1>1. IInv => NothingSkippedInSnapshots
  BY DEF IInv, NotLost, NothingSkippedInSnapshots
<1> QED
  BY <1>1, Invariance, PTL

\* Disposing is the end of it, wherever the loop is.
THEOREM DisposingEndsIt == Spec => DisposingIsFinal
<1>1. IInv /\ [Next]_vars => [SilentOnceResolved /\ DroppedOnlyByTheLoop]_vars
  <2> SUFFICES ASSUME IInv, Next
               PROVE  SilentOnceResolved /\ DroppedOnlyByTheLoop
    OBVIOUS
  <2>1. DisposalInOrder /\ pc \in States /\ drops \in Nat
    BY DEF IInv, TypeOK
  <2> USE DEF InLoop, disposed, DisposalInOrder
  <2>2. drops' = drops \/ StartFails \/ (Exit /\ ~ disposed)
    BY DEF Next, Loop, log, loop, history, Append1, Remove1, Expire, Signal, Subscribe,
         Start, Pull, ReadInfo, PullFails, Failed, Retry, Process, Processed, ProcessingFails,
         Advance, CallbackFails, Report, Wake, Exit, Dispose, DisposeResolves
  <2>3. UNCHANGED <<delivered, told>> \/ InLoop
    BY <2>1 DEF Next, Loop, log, loop, history, Append1, Remove1, Expire, Signal, Subscribe,
         Start, StartFails, Pull, ReadInfo, PullFails, Failed, Retry, Process, Processed, ProcessingFails,
         Advance, CallbackFails, Report, Wake, Exit, Dispose, DisposeResolves
  <2>4. StartFails => pc = "starting"
    BY DEF StartFails
  <2>5. Exit => pc = "returning"
    BY DEF Exit
  <2>6. SilentOnceResolved
    BY <2>1, <2>2, <2>3, <2>5 , <2>4 DEF SilentOnceResolved
  <2>7. DroppedOnlyByTheLoop
    BY <2>1, <2>2, <2>4, <2>5 DEF DroppedOnlyByTheLoop
  <2> QED
    BY <2>6, <2>7
<1> QED
  BY <1>1, Invariance, PTL DEF Spec, DisposingIsFinal

=============================================================================
