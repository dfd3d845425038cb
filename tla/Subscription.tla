---------------------------- MODULE Subscription ----------------------------
(***************************************************************************)
(* One subscription and the log it follows.  createAllSubscription and     *)
(* createStreamSubscription are the same loop: pull a page, push its       *)
(* messages to the consumer one by one, and once there is nothing left     *)
(* wait for the notifier.  They differ in what they follow (the positions  *)
(* of the all-stream or the versions of one stream) and in when the cursor *)
(* moves; the stores differ in the page they return.                       *)
(*                                                                         *)
(* A message is its position (its version, for Kind = "stream").  Every    *)
(* await is a point where the log changes, the notifier signals or the     *)
(* subscription is disposed.                                               *)
(***************************************************************************)
EXTENDS Arrays

CONSTANTS
  Modes,            \* the stores and what may be followed in them, see IsMode
  MaxCountPerRead,  \* the page size
  Tries,            \* the attempts retry makes before it gives up
  MaxHead           \* bound: the number of the last message appended

VARIABLES
  mode,             \* what the consumer subscribes to, which never changes
  head,             \* the number of the newest message, -1 if none
  live,             \* the messages not deleted
  expired,          \* the live messages older than their stream's maxAge
  signal,           \* the notifier is about to call its observers
  pc,               \* where the loop is
  set,              \* the reset event
  next,             \* _nextPosition, or _nextVersion
  page,             \* the page being pushed
  lastHasCaughtUp,  \* "none", "caughtUp" or "behind"
  failures,         \* the failed attempts so far
  disposal,         \* "no", then "waiting" for the loop, then "resolved"
  headBefore,       \* history: the head when the consumer subscribed
  start,            \* history: the first number the subscription asked for
  delivered,        \* history: what the consumer was given, in order
  told,             \* history: what onCaughtUpChanged was last given
  drops             \* history: the calls of onSubscriptionDropped

log == <<head, live, expired>>
history == <<headBefore, start, delivered, told, drops>>
loop == <<next, page, lastHasCaughtUp, failures>>
vars == <<mode, log, signal, pc, set, loop, disposal, history>>

Beginning == -2
End == -1

NoPage == [todo |-> << >>, size |-> 0, isEnd |-> FALSE, next |-> 0]

\* The store that is read, the all-stream or one stream, and afterPosition or
\* afterVersion: Beginning, End, or a number.
IsMode(m) ==
  /\ m.store \in {"memory", "postgres"}
  /\ m.kind \in {"all", "stream"}
  /\ m.after \in Int /\ m.after >= Beginning

Store == mode.store
Kind == mode.kind
After == mode.after

ASSUME SubscriptionAssumption ==
  /\ \A m \in Modes : IsMode(m)
  /\ MaxCountPerRead \in Nat \ {0}
  /\ Tries \in Nat \ {0}
  /\ MaxHead \in Int

disposed == disposal # "no"

\* The loop latch is held.
InLoop == pc \notin {"idle", "starting", "ended"}

-----------------------------------------------------------------------------
(***************************************************************************)
(* The log and the notifier                                                *)
(***************************************************************************)

\* The in-memory notifier hears of every append.  Those of PostgreSQL miss some: polling
\* the first message, pg-notify what is committed while its client reconnects.
Append1 ==
  /\ head < MaxHead
  /\ head' = head + 1
  /\ live' = live \cup {head + 1}
  /\ signal' \in (IF Store = "memory" THEN {TRUE} ELSE {signal, TRUE})
  /\ UNCHANGED <<mode, expired, pc, set, loop, disposal, history>>

\* A message is deleted or scavenged.
Remove1(m) ==
  /\ live' = live \ {m}
  /\ expired' = expired \ {m}
  /\ UNCHANGED <<mode, head, signal, pc, set, loop, disposal, history>>

\* A message gets older than the maxAge of its stream: reads leave it out.
Expire(m) ==
  /\ expired' = expired \cup {m}
  /\ UNCHANGED <<mode, head, live, signal, pc, set, loop, disposal, history>>

\* The notifier calls its observers: next.set, unless the listener is gone.
Signal ==
  /\ signal
  /\ signal' = FALSE
  /\ set' = (set \/ (pc # "idle" /\ ~ disposed))
  /\ UNCHANGED <<mode, log, pc, loop, disposal, history>>

-----------------------------------------------------------------------------
(***************************************************************************)
(* What the store returns                                                  *)
(***************************************************************************)

\* The messages from the cursor on, the first MaxCountPerRead of them, and
\* whether there are more.
Found == {m \in live : m >= next}
Slice == {m \in Found : Cardinality({k \in Found : k < m}) < MaxCountPerRead}
SliceIsEnd == Slice = Found

\* Mutation of NextAfter: the last message of the page is read again.
NextAfterLast(last, isEnd) ==
  IF last = -1 /\ Kind = "all" /\ Store = "postgres" THEN next
  ELSE IF last = -1 \/ (Kind = "stream" /\ isEnd) THEN head + 1
  ELSE last

\* Mutation of NextAfter: always what follows the head.
NextAfterHead(last, isEnd) == head + 1

\* nextPosition, or nextVersion: what to read next, given the last message of
\* the slice (-1 if it is empty).
NextAfter(last, isEnd) ==
  IF last = -1 /\ Kind = "all" /\ Store = "postgres" THEN next
  ELSE IF last = -1 \/ (Kind = "stream" /\ isEnd) THEN head + 1
  ELSE last + 1

LastOf(messages) == IF messages = {} THEN -1 ELSE Greatest(messages)

\* The slice without the expired messages, oldest first.
Readable(slice) ==
  LET valid == slice \ expired IN [i \in 1 .. Cardinality(valid) |-> Nth(valid, i)]

\* readHeadPosition, and the version readStream reports.  PostgreSQL has no
\* head position when there is no message, which the store turns into '0'.
HeadRead ==
  IF Kind = "stream" \/ Store = "memory" THEN head
  ELSE IF live = {} THEN 0 ELSE Greatest(live)

-----------------------------------------------------------------------------
(***************************************************************************)
(* Subscribing                                                             *)
(***************************************************************************)
Init ==
  /\ mode \in Modes
  /\ head = -1 /\ live = {} /\ expired = {} /\ signal = FALSE
  /\ pc = "idle" /\ set = FALSE /\ disposal = "no"
  /\ next = -1 /\ page = NoPage /\ lastHasCaughtUp = "none" /\ failures = 0
  /\ headBefore = -1 /\ start = -1 /\ delivered = << >> /\ told = "none" /\ drops = 0

\* The listener is registered before the start is known.
Subscribe ==
  /\ pc = "idle"
  /\ pc' = "starting"
  /\ headBefore' = head
  /\ UNCHANGED <<mode, log, signal, set, loop, disposal, start, delivered, told, drops>>

\* getStartPositionForEnd: '0' is taken for the head of an empty store.
StartPosition ==
  CASE After = Beginning -> 0
    [] After = End -> IF Kind = "all" /\ HeadRead = 0 THEN 0 ELSE HeadRead + 1
    [] OTHER -> After + 1

\* pullAndPush up to the loop: a subscription disposed meanwhile never enters.
Start ==
  /\ pc = "starting"
  /\ IF disposed
     THEN /\ pc' = "ended"
          /\ UNCHANGED <<next, start>>
     ELSE /\ pc' = "pulling"
          /\ next' = StartPosition
          /\ start' = StartPosition
  /\ UNCHANGED <<mode, log, signal, set, page, lastHasCaughtUp, failures, disposal,
                 headBefore, delivered, told, drops>>

-----------------------------------------------------------------------------
(***************************************************************************)
(* Disposing                                                               *)
(***************************************************************************)

\* dispose up to the wait for the latch; a later call waits for the first.
\* The reset event is set so that a waiting loop goes on and ends.
BeginDispose ==
  IF disposed THEN UNCHANGED <<disposal, set>> ELSE disposal' = "waiting" /\ set' = TRUE

DropAndDispose ==
  /\ drops' = drops + 1
  /\ BeginDispose

\* Mutation of Dispose: the waiting loop is not woken.
DisposeQuietly ==
  /\ pc # "idle"
  /\ ~ disposed
  /\ disposal' = "waiting"
  /\ UNCHANGED <<mode, log, signal, pc, set, loop, history>>

\* The consumer, or the store that is being disposed.
Dispose ==
  /\ pc # "idle"
  /\ ~ disposed
  /\ BeginDispose
  /\ UNCHANGED <<mode, log, signal, pc, loop, history>>

\* Mutation of DisposeResolves: the latch is not waited for.
DisposeResolvesAtOnce ==
  /\ disposal = "waiting"
  /\ disposal' = "resolved"
  /\ UNCHANGED <<mode, log, signal, pc, set, loop, history>>

DisposeResolves ==
  /\ disposal = "waiting"
  /\ ~ InLoop
  /\ disposal' = "resolved"
  /\ UNCHANGED <<mode, log, signal, pc, set, loop, history>>

\* The start cannot be read: the subscription is dropped.
StartFails ==
  /\ pc = "starting"
  /\ After = End
  /\ pc' = "ended"
  /\ DropAndDispose
  /\ UNCHANGED <<mode, log, signal, loop, headBefore, start, delivered, told>>

-----------------------------------------------------------------------------
(***************************************************************************)
(* Pulling                                                                 *)
(***************************************************************************)

\* The PostgreSQL store reads a stream's messages first and its version in a
\* second statement; every other page comes from one snapshot.
InTwoStatements == Kind = "stream" /\ Store = "postgres"

Pull ==
  /\ pc = "pulling"
  /\ pc' = IF InTwoStatements THEN "informing" ELSE "pushing"
  /\ page' = [todo |-> Readable(Slice), size |-> Len(Readable(Slice)),
              isEnd |-> SliceIsEnd,
              next |-> IF InTwoStatements THEN LastOf(Slice)
                       ELSE NextAfter(LastOf(Slice), SliceIsEnd)]
  /\ UNCHANGED <<mode, log, signal, set, next, lastHasCaughtUp, failures, disposal, history>>

\* The second statement; page.next is the last message of the slice until then.
ReadInfo ==
  /\ pc = "informing"
  /\ pc' = "pushing"
  /\ page' = [page EXCEPT !.next = NextAfter(page.next, page.isEnd)]
  /\ UNCHANGED <<mode, log, signal, set, next, lastHasCaughtUp, failures, disposal, history>>

\* retry runs the loop again, until its attempts are exhausted.
Failed ==
  /\ failures' = failures + 1
  /\ pc' = IF failures + 1 < Tries THEN "retrying" ELSE "returning"

PullFails ==
  /\ pc \in {"pulling", "informing"}
  /\ Failed
  /\ UNCHANGED <<mode, log, signal, set, next, page, lastHasCaughtUp, disposal, history>>

Retry ==
  /\ pc = "retrying"
  /\ pc' = IF disposed THEN "returning" ELSE "pulling"
  /\ lastHasCaughtUp' = "none"
  /\ UNCHANGED <<mode, log, signal, set, next, page, failures, disposal, history>>

-----------------------------------------------------------------------------
(***************************************************************************)
(* Pushing                                                                 *)
(***************************************************************************)
Process ==
  /\ pc = "pushing"
  /\ page.todo # << >>
  /\ pc' = "processing"
  /\ delivered' = Append(delivered, page.todo[1])
  /\ UNCHANGED <<mode, log, signal, set, loop, disposal, headBefore, start, told, drops>>

Processed ==
  /\ pc = "processing"
  /\ pc' = "pushing"
  /\ page' = [page EXCEPT !.todo = Tail(@)]
  /\ UNCHANGED <<mode, log, signal, set, next, lastHasCaughtUp, failures, disposal, history>>

\* processMessage throws: the loop ends without an error.
ProcessingFails ==
  /\ pc = "processing"
  /\ pc' = "returning"
  /\ UNCHANGED <<mode, log, signal, set, loop, disposal, history>>

Paused == page.isEnd /\ page.size = 0
Status == IF page.isEnd THEN "caughtUp" ELSE "behind"
Reports == lastHasCaughtUp # Status /\ page.size > 0

\* The cursor of a stream subscription stays where it is when it pauses.
Cursor == IF Kind = "stream" /\ Paused THEN next ELSE page.next

\* The page is done: the cursor moves, and the consumer is told when it has
\* caught up or fallen behind.
Report ==
  /\ pc = "pushing"
  /\ page.todo = << >>
  /\ next' = Cursor
  /\ lastHasCaughtUp' = IF Reports THEN Status ELSE lastHasCaughtUp
  /\ told' = IF Reports THEN Status ELSE told

\* Mutation of Advance: the event is reset before it is waited for.
AdvanceAndReset ==
  /\ Report
  /\ pc' = IF Paused \/ disposed THEN "waiting" ELSE "pulling"
  /\ set' = (set /\ ~ Paused)
  /\ UNCHANGED <<mode, log, signal, page, failures, disposal, headBefore, start, delivered, drops>>

Advance ==
  /\ Report
  /\ pc' = IF Paused \/ disposed THEN "waiting" ELSE "pulling"
  /\ UNCHANGED <<mode, log, signal, set, page, failures, disposal, headBefore, start, delivered, drops>>

\* onCaughtUpChanged throws, which counts as a failed attempt.
CallbackFails ==
  /\ Report
  /\ Reports
  /\ Failed
  /\ UNCHANGED <<mode, log, signal, set, page, disposal, headBefore, start, delivered, drops>>

-----------------------------------------------------------------------------
(***************************************************************************)
(* Waiting and ending                                                      *)
(***************************************************************************)
Wake ==
  /\ pc = "waiting"
  /\ set
  /\ set' = FALSE
  /\ pc' = IF disposed THEN "returning" ELSE "pulling"
  /\ lastHasCaughtUp' = "none"
  /\ UNCHANGED <<mode, log, signal, next, page, failures, disposal, history>>

\* The latch is released; a loop that ended by itself drops the subscription.
Exit ==
  /\ pc = "returning"
  /\ pc' = "ended"
  /\ IF disposed THEN UNCHANGED <<drops, disposal, set>> ELSE DropAndDispose
  /\ UNCHANGED <<mode, log, signal, loop, headBefore, start, delivered, told>>

Loop ==
  \/ Start \/ StartFails
  \/ Pull \/ ReadInfo \/ PullFails \/ Retry
  \/ Process \/ Advance \/ CallbackFails
  \/ Wake \/ Exit

Next ==
  \/ Append1
  \/ \E m \in live : Remove1(m)
  \/ \E m \in live \ expired : Expire(m)
  \/ Signal
  \/ Subscribe
  \/ Loop
  \/ Processed
  \/ ProcessingFails
  \/ Dispose
  \/ DisposeResolves

Spec == Init /\ [][Next]_vars

\* The event loop runs what can run; the consumer's processing ends; a notifier
\* that has something to signal calls its observers.
Fairness ==
  /\ WF_vars(Loop)
  /\ WF_vars(Processed \/ ProcessingFails)
  /\ WF_vars(Signal)
  /\ WF_vars(DisposeResolves)

FairSpec == Spec /\ Fairness

=============================================================================
