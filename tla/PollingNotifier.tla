-------------------------- MODULE PollingNotifier --------------------------
(***************************************************************************)
(* The polling notifier (subscriptions/polling-notifier.ts) of the         *)
(* PostgreSQL store: it reads the head of the all-stream, tells the        *)
(* listeners when the head has moved, and otherwise waits for a while.     *)
(*                                                                         *)
(* Writers take positions from a sequence, commit in any order, and their  *)
(* messages may be deleted.  A listener is a subscription: it pulls once   *)
(* when it starts to listen and then whenever it is told to, so that       *)
(* told[l] is what the log held when l last had a reason to pull.          *)
(***************************************************************************)
EXTENDS Integers, FiniteSets, FiniteSetsExt

CONSTANTS
  Listeners,   \* the subscriptions
  MaxPosition, \* bound: the positions the sequence gives
  MaxErrors    \* bound: the reads of the head that fail

VARIABLES
  next,                 \* the next position of the sequence
  pending, messages,    \* positions of open transactions; of committed messages
  told,                 \* told[l]: the messages there were when l was last told
  listeners,            \* _listeners
  headPosition, previousHeadPosition,
  pc,                   \* where poll is
  errorCount,
  disposal              \* "no", "awaiting" the loop, "done"

vars == <<next, pending, messages, told, listeners, headPosition, previousHeadPosition,
          pc, errorCount, disposal>>

store == <<next, pending, messages>>
disposed == disposal # "no"

ASSUME PollingNotifierAssumption ==
  IsFiniteSet(Listeners) /\ MaxPosition \in Nat /\ MaxErrors \in Nat

Positions == 0 .. MaxPosition

Init ==
  /\ next = 0 /\ pending = {} /\ messages = {}
  /\ told = [l \in Listeners |-> {}] /\ listeners = {}
  /\ headPosition = -1 /\ previousHeadPosition = -1
  /\ pc = "reading" /\ errorCount = 0 /\ disposal = "no"

-----------------------------------------------------------------------------
(***************************************************************************)
(* The store                                                               *)
(***************************************************************************)
InStore == UNCHANGED <<told, listeners, headPosition, previousHeadPosition, pc, errorCount, disposal>>

Reserve ==
  /\ next <= MaxPosition
  /\ next' = next + 1 /\ pending' = pending \cup {next}
  /\ UNCHANGED messages /\ InStore

Commit(p) ==
  /\ messages' = messages \cup {p} /\ pending' = pending \ {p}
  /\ UNCHANGED next /\ InStore

Delete(p) ==
  /\ messages' = messages \ {p}
  /\ UNCHANGED <<next, pending>> /\ InStore

\* max(position), or 0 when there is none.
Head == IF messages = {} THEN 0 ELSE Max(messages)

-----------------------------------------------------------------------------
(***************************************************************************)
(* The notifier                                                            *)
(***************************************************************************)
Listen(l) ==
  /\ ~ disposed
  /\ l \notin listeners
  /\ listeners' = listeners \cup {l}
  /\ told' = [told EXCEPT ![l] = messages]
  /\ UNCHANGED <<store, headPosition, previousHeadPosition, pc, errorCount, disposal>>

Unlisten(l) ==
  /\ listeners' = listeners \ {l}
  /\ UNCHANGED <<store, told, headPosition, previousHeadPosition, pc, errorCount, disposal>>

\* The query is answered; poll has yet to see the answer.
ReadHeadPosition ==
  /\ pc = "reading"
  /\ headPosition' = Head
  /\ pc' = "read"
  /\ UNCHANGED <<store, told, listeners, previousHeadPosition, errorCount, disposal>>

ReadFails ==
  /\ pc = "reading"
  /\ errorCount < MaxErrors
  /\ errorCount' = errorCount + 1
  /\ pc' = "read"
  /\ UNCHANGED <<store, told, listeners, headPosition, previousHeadPosition, disposal>>

InvokeListeners == told' = [l \in Listeners |-> IF l \in listeners THEN messages ELSE told[l]]

\* Mutation of Poll: the head must have moved by more than one.
PollIgnoresNext ==
  /\ pc = "read"
  /\ \/ /\ disposed
        /\ pc' = "ended"
        /\ UNCHANGED <<told, previousHeadPosition>>
     \/ /\ ~ disposed /\ headPosition > previousHeadPosition + 1
        /\ InvokeListeners
        /\ previousHeadPosition' = headPosition
        /\ pc' = "reading"
     \/ /\ ~ disposed /\ headPosition <= previousHeadPosition + 1
        /\ pc' = "delaying"
        /\ UNCHANGED <<told, previousHeadPosition>>
  /\ UNCHANGED <<store, listeners, headPosition, errorCount, disposal>>

\* poll goes on with the position it has: leave, tell the listeners, or wait.
Poll ==
  /\ pc = "read"
  /\ \/ /\ disposed
        /\ pc' = "ended"
        /\ UNCHANGED <<told, previousHeadPosition>>
     \/ /\ ~ disposed /\ headPosition > previousHeadPosition
        /\ InvokeListeners
        /\ previousHeadPosition' = headPosition
        /\ pc' = "reading"
     \/ /\ ~ disposed /\ headPosition <= previousHeadPosition
        /\ pc' = "delaying"
        /\ UNCHANGED <<told, previousHeadPosition>>
  /\ UNCHANGED <<store, listeners, headPosition, errorCount, disposal>>

\* Mutation of Delayed: the loop does not ask whether the notifier is disposed
\* and never hears of it again.
DelayedStays ==
  /\ pc = "delaying"
  /\ ~ disposed
  /\ pc' = "reading"
  /\ UNCHANGED <<store, told, listeners, headPosition, previousHeadPosition, errorCount, disposal>>

Delayed ==
  /\ pc = "delaying"
  /\ pc' = IF disposed THEN "ended" ELSE "reading"
  /\ UNCHANGED <<store, told, listeners, headPosition, previousHeadPosition, errorCount, disposal>>

Dispose ==
  /\ ~ disposed
  /\ disposal' = "awaiting"
  /\ UNCHANGED <<store, told, listeners, headPosition, previousHeadPosition, pc, errorCount>>

DisposeEnds ==
  /\ disposal = "awaiting"
  /\ pc = "ended"
  /\ disposal' = "done"
  /\ listeners' = {}
  /\ UNCHANGED <<store, told, headPosition, previousHeadPosition, pc, errorCount>>

-----------------------------------------------------------------------------
Next ==
  \/ Reserve
  \/ \E p \in pending : Commit(p)
  \/ \E p \in messages : Delete(p)
  \/ \E l \in Listeners : Listen(l)
  \/ \E l \in listeners : Unlisten(l)
  \/ ReadHeadPosition
  \/ ReadFails
  \/ Poll
  \/ Delayed
  \/ Dispose
  \/ DisposeEnds

Spec == Init /\ [][Next]_vars

\* Queries are answered, timers fire, and a settled promise is noticed.  Nobody
\* has to write, listen, delete or dispose.
Fairness ==
  /\ WF_vars(ReadHeadPosition \/ ReadFails)
  /\ WF_vars(Poll) /\ WF_vars(Delayed) /\ WF_vars(DisposeEnds)

FairSpec == Spec /\ Fairness

-----------------------------------------------------------------------------
\* The type of every variable; the head remembered is one that was read.
TypeOK ==
  /\ next \in 0 .. MaxPosition + 1
  /\ pending \subseteq 0 .. next - 1 /\ messages \subseteq 0 .. next - 1
  /\ told \in [Listeners -> SUBSET Positions] /\ listeners \subseteq Listeners
  /\ {headPosition, previousHeadPosition} \subseteq -1 .. MaxPosition
  /\ pc \in {"reading", "read", "delaying", "ended"}
  /\ errorCount \in 0 .. MaxErrors
  /\ disposal \in {"no", "awaiting", "done"}

\* The head remembered never goes down, although the head itself does when its
\* messages are deleted: a head already told is not told again
\* (polling-notifier.ts:79-84).
PreviousHeadNeverFalls == [][previousHeadPosition' >= previousHeadPosition]_vars

\* Whoever listens is told of a message above the head remembered
\* (polling-notifier.ts:79), however commits, reads and failures interleave.
HigherHeadsAreSignalled ==
  \A l \in Listeners, p \in Positions :
    (l \in listeners /\ p \in messages /\ p > previousHeadPosition) ~>
      (p \in told[l] \/ p \notin messages \/ l \notin listeners \/ disposed)

\* No listener is called once the notifier is being disposed
\* (polling-notifier.ts:75).
SilentAfterDispose == [][disposed => told' = told]_vars

\* Disposing ends: the loop notices within a read or a delay (polling-notifier.ts:50).
DisposeResolves == disposed ~> disposal = "done"

\* polling-notifier.ts:10: the notifier will "signal whenever there's changes to
\* pull".  (The first message of an empty store has position 0, which is also the
\* head of an empty store, and a message may be committed below the head.)
ChangesAreSignalled ==
  \A l \in Listeners, p \in Positions :
    (l \in listeners /\ p \in messages) ~>
      (p \in told[l] \/ p \notin messages \/ l \notin listeners \/ disposed)
=============================================================================
