----------------------- MODULE SubscriptionProperties -----------------------
(***************************************************************************)
(* What makes a subscription correct.                                      *)
(***************************************************************************)
EXTENDS Subscription

Numbers == -1 .. MaxHead + 1
States == {"idle", "starting", "pulling", "informing", "retrying", "pushing",
           "processing", "waiting", "returning", "ended"}
Statuses == {"none", "caughtUp", "behind"}

\* The type of every variable.
TypeOK ==
  /\ mode \in Modes
  /\ head \in Int /\ head >= -1 /\ live \subseteq 0 .. head /\ expired \subseteq live
  /\ signal \in BOOLEAN /\ set \in BOOLEAN
  /\ pc \in States
  /\ next \in Int
  /\ page \in [todo : Seq(Nat), size : Nat, isEnd : BOOLEAN, next : Int]
  /\ lastHasCaughtUp \in Statuses /\ told \in Statuses
  /\ failures \in 0 .. Tries
  /\ disposal \in {"no", "waiting", "resolved"}
  /\ headBefore \in Int /\ start \in Int
  /\ delivered \in Seq(Nat)
  /\ drops \in Nat

-----------------------------------------------------------------------------
\* The consumer gets the messages in order and each of them once, whatever the
\* pages, the failed reads and the retries were (README.md:395, "called in
\* serial"; the cursor moves past a page only once it has been pushed).
DeliveredInOrder ==
  \A i, j \in DOMAIN delivered : i < j => delivered[i] < delivered[j]

\* A message the cursor has passed was given to the consumer, if it is still
\* there to be read: pages, deletions, expiry and retries skip nothing.
NothingSkipped ==
  InLoop =>
    \A m \in live \ expired : (start <= m /\ m < next) => m \in Elements(delivered)

\* The page of a PostgreSQL stream is read in two statements: what is appended
\* between them is skipped.  Nothing is skipped in any other log.
NothingSkippedInSnapshots == ~ InTwoStatements => NothingSkipped

\* Once dispose has resolved the consumer's processMessage is neither running
\* nor called again, and no callback is; but a store disposed of while a subscription
\* reads where to start does not wait for that read, and if it fails the subscription
\* is dropped then.
SilentOnceResolved ==
  disposal = "resolved" => /\ pc # "processing"
                           /\ UNCHANGED <<delivered, told>>
                           /\ pc # "starting" => UNCHANGED drops

\* onSubscriptionDropped is called when the loop has ended by itself or the start
\* could not be read, and at most once.
DroppedOnlyByTheLoop ==
  /\ (InLoop /\ disposed) => UNCHANGED drops
  /\ drops > 0 => UNCHANGED drops

\* Disposing is the end of it, wherever the loop is (all-subscription.ts:84, 234 and
\* 246, the loop latch): the consumer hears nothing more once dispose has resolved,
\* and is not told that a subscription it disposed of was dropped.
DisposingIsFinal == [][SilentOnceResolved /\ DroppedOnlyByTheLoop]_vars

-----------------------------------------------------------------------------
\* A message that stays in the log reaches the consumer, unless the subscription is
\* dropped or disposed of: no signal is lost between a read that finds nothing and the
\* wait for the next one (reset-event.ts).  In memory every append is signalled; with a
\* notifier of PostgreSQL, which may miss some, the next signal brings what it missed.
EventuallyDelivered ==
  \A m \in 0 .. MaxHead :
    (/\ ~ InTwoStatements /\ InLoop /\ m \in live /\ m >= start
     /\ Store = "memory" \/ signal) ~>
      (m \in Elements(delivered) \/ m \notin live \ expired \/ disposed)

\* dispose resolves wherever the loop was, if the consumer's processing ends.
DisposeEnds == disposal = "waiting" ~> disposal = "resolved"

-----------------------------------------------------------------------------
(***************************************************************************)
(* What the code does not keep.                                            *)
(***************************************************************************)

\* README.md:391: a subscription without options subscribes "to the head,
\* meaning only messages appended after the subscription started will appear".
\* (When the only message is at position 0 it appears too.)
OnlyNewMessages ==
  After = End => \A m \in Elements(delivered) : m > headBefore

\* types/subscriptions.ts:59: onCaughtUpChanged is invoked with caughtUp: true
\* when the underlying read has isEnd = true; so a subscription that waits for
\* new messages never leaves its consumer with caughtUp: false.  (It does when
\* the rest of the log was deleted or expired: an empty page is not reported.)
ToldWhenCaughtUp == pc = "waiting" /\ ~ disposed => told # "behind"
=============================================================================
