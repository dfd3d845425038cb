----------------------------- MODULE PgDisposal -----------------------------
(***************************************************************************)
(* Disposing of the PostgreSQL store (postgres/pg-stream-store.ts) while   *)
(* calls are under way: the latch that counts the writes (utils/latch.ts), *)
(* the scavenging that an append leaves in the background, the deletion of *)
(* the expired messages that a read found, and the connection pool.        *)
(*                                                                         *)
(* A call w has at most one job of its own: the scavenging or the purge it *)
(* started, which it may or may not await.  A transaction first waits for  *)
(* a connection; the pool gives none once it is ending, and has ended when *)
(* the connections in use are released.                                    *)
(***************************************************************************)
EXTENDS Integers, FiniteSets

CONSTANTS
  Calls,                   \* the calls that can be under way at a time
  Operations,              \* what they call
  Tries                    \* retryOpts.tries

VARIABLES
  scavengeSynchronously,   \* the option, chosen when the store is created
  call,      \* call[w]: the operation, where it is and how often it tried
  job,       \* job[w]: where the scavenging or the purge of the call is
  count,     \* the latch
  disposal,  \* where dispose is
  pool       \* "open", "ending"

vars == <<scavengeSynchronously, call, job, count, disposal, pool>>

ASSUME PgDisposalAssumption ==
  /\ IsFiniteSet(Calls)
  /\ Operations \subseteq {"append", "set metadata", "delete message", "delete stream", "read"}
  /\ Tries \in Nat \ {0}

NoCall == [op |-> "read", pc |-> "idle", tries |-> 0]
disposing == disposal # "no"

Init ==
  /\ scavengeSynchronously \in BOOLEAN
  /\ call = [w \in Calls |-> NoCall]
  /\ job = [w \in Calls |-> "none"]
  /\ count = 0 /\ disposal = "no" /\ pool = "open"

-----------------------------------------------------------------------------
(***************************************************************************)
(* The latch                                                               *)
(***************************************************************************)

\* exit and wait resolve the promise that dispose awaits once nobody is inside.
Latch(n) ==
  /\ count' = n
  /\ disposal' = IF disposal = "waiting" /\ n <= 0 THEN "released" ELSE disposal

\* enter does not resolve anything.
Enter(n) == count' = count + n /\ UNCHANGED disposal

\* Mutation of Exit: the promise is resolved by the next wait only.
ExitQuietly(n) == count' = count - n /\ UNCHANGED disposal

Exit(n) == Latch(count - n)
Stay == UNCHANGED <<count, disposal>>

\* deleteStream returns the promise of its transaction without awaiting it, and
\* so leaves the latch before the transaction has begun; a read never enters it.
Inside(op) == IF op \in {"append", "set metadata", "delete message"} THEN 1 ELSE 0

-----------------------------------------------------------------------------
(***************************************************************************)
(* Calls                                                                   *)
(***************************************************************************)
Call(w) ==
  /\ ~ disposing
  /\ call[w].pc = "idle" /\ job[w] = "none"
  /\ \E op \in Operations :
       /\ call' = [call EXCEPT ![w] = [op |-> op, pc |-> "connecting", tries |-> 1]]
       /\ Enter(Inside(op))
  /\ UNCHANGED <<scavengeSynchronously, job, pool>>

\* The pool has a connection, or rejects.
Connect(w) ==
  /\ call[w].pc = "connecting"
  /\ \/ /\ pool = "open"
        /\ call' = [call EXCEPT ![w].pc = "running"]
        /\ Stay
     \/ /\ pool # "open"
        /\ call' = [call EXCEPT ![w] = NoCall]
        /\ Exit(Inside(call[w].op))
  /\ UNCHANGED <<scavengeSynchronously, job, pool>>

\* The transaction conflicted and is tried again, in another one.
Again(w) ==
  /\ call[w].pc = "running"
  /\ call[w].op \in {"append", "set metadata", "delete stream"}
  /\ call[w].tries < Tries
  /\ call' = [call EXCEPT ![w].pc = "connecting", ![w].tries = @ + 1]
  /\ UNCHANGED <<scavengeSynchronously, job, count, disposal, pool>>

\* The transaction is over.  A write that failed, or found nothing to scavenge by,
\* returns.  Otherwise maybeScavenge enters the latch, and is awaited by
\* setStreamMetadata, by a synchronous append, and by any append when disposing.
Done(w) ==
  LET op == call[w].op IN
  /\ call[w].pc = "running"
  /\ \/ /\ call' = [call EXCEPT ![w] = NoCall]
        /\ Exit(Inside(op))
        /\ UNCHANGED job
     \/ /\ op \in {"append", "set metadata"}
        /\ job' = [job EXCEPT ![w] = "connecting"]
        /\ \/ /\ op = "set metadata" \/ scavengeSynchronously \/ disposing
              /\ call' = [call EXCEPT ![w].pc = "scavenging"]
              /\ Enter(1)
           \/ /\ ~ (op = "set metadata" \/ scavengeSynchronously \/ disposing)
              /\ call' = [call EXCEPT ![w] = NoCall]
              /\ Stay
     \/ /\ op = "read"
        /\ job' = [job EXCEPT ![w] = "connecting deletion"]
        /\ call' = [call EXCEPT ![w] = NoCall]
        /\ Enter(2)
  /\ UNCHANGED <<scavengeSynchronously, pool>>

\* The scavenging that was awaited is over.
Scavenged(w) ==
  /\ call[w].pc = "scavenging"
  /\ job[w] = "none"
  /\ call' = [call EXCEPT ![w] = NoCall]
  /\ Exit(1)
  /\ UNCHANGED <<scavengeSynchronously, job, pool>>

-----------------------------------------------------------------------------
(***************************************************************************)
(* Jobs: maybeScavenge reads what to delete in one transaction, and        *)
(* deleteMessages deletes it in another, inside the latch once more;       *)
(* purgeExpiredMessages begins with the second.                            *)
(***************************************************************************)

\* A connection for the query of maybeScavenge.
ScavengeConnects(w) ==
  /\ job[w] = "connecting"
  /\ \/ /\ pool = "open"
        /\ job' = [job EXCEPT ![w] = "selecting"]
        /\ Stay
     \/ /\ pool # "open"
        /\ job' = [job EXCEPT ![w] = "none"]
        /\ Exit(1)
  /\ UNCHANGED <<scavengeSynchronously, call, pool>>

\* There is nothing to scavenge, the query failed, or deleteMessages begins.
ScavengeSelected(w) ==
  /\ job[w] = "selecting"
  /\ \/ job' = [job EXCEPT ![w] = "none"] /\ Exit(1)
     \/ job' = [job EXCEPT ![w] = "connecting deletion"] /\ Enter(1)
  /\ UNCHANGED <<scavengeSynchronously, call, pool>>

DeletionConnects(w) ==
  /\ job[w] = "connecting deletion"
  /\ \/ /\ pool = "open"
        /\ job' = [job EXCEPT ![w] = "deleting"]
        /\ Stay
     \/ /\ pool # "open"
        /\ job' = [job EXCEPT ![w] = "none"]
        /\ Exit(2)
  /\ UNCHANGED <<scavengeSynchronously, call, pool>>

Deleted(w) ==
  /\ job[w] = "deleting"
  /\ job' = [job EXCEPT ![w] = "none"]
  /\ Exit(2)
  /\ UNCHANGED <<scavengeSynchronously, call, pool>>

-----------------------------------------------------------------------------
(***************************************************************************)
(* Disposing                                                               *)
(***************************************************************************)
Dispose ==
  /\ ~ disposing
  /\ disposal' = "subscriptions"
  /\ UNCHANGED <<scavengeSynchronously, call, job, count, pool>>

\* Mutation of SubscriptionsDisposed: the latch is not awaited.
SubscriptionsDisposedAtOnce ==
  /\ disposal = "subscriptions"
  /\ disposal' = "released"
  /\ UNCHANGED <<scavengeSynchronously, call, job, count, pool>>

\* The subscriptions and the notifier are disposed of: wait for the latch.
SubscriptionsDisposed ==
  /\ disposal = "subscriptions"
  /\ disposal' = IF count <= 0 THEN "released" ELSE "waiting"
  /\ UNCHANGED <<scavengeSynchronously, call, job, count, pool>>

EndPool ==
  /\ disposal = "released"
  /\ disposal' = "ending" /\ pool' = "ending"
  /\ UNCHANGED <<scavengeSynchronously, call, job, count>>

\* The connections in use have been released.
PoolEnded ==
  /\ disposal = "ending"
  /\ \A w \in Calls : call[w].pc # "running" /\ job[w] \notin {"selecting", "deleting"}
  /\ disposal' = "done"
  /\ UNCHANGED <<scavengeSynchronously, call, job, count, pool>>

-----------------------------------------------------------------------------
Step(w) ==
  \/ Connect(w) \/ Done(w) \/ Scavenged(w)
  \/ ScavengeConnects(w) \/ ScavengeSelected(w) \/ DeletionConnects(w) \/ Deleted(w)

Next ==
  \/ \E w \in Calls : Call(w)
  \/ \E w \in Calls : Again(w)
  \/ \E w \in Calls : Connect(w)
  \/ \E w \in Calls : Done(w)
  \/ \E w \in Calls : Scavenged(w)
  \/ \E w \in Calls : ScavengeConnects(w)
  \/ \E w \in Calls : ScavengeSelected(w)
  \/ \E w \in Calls : DeletionConnects(w)
  \/ \E w \in Calls : Deleted(w)
  \/ Dispose
  \/ SubscriptionsDisposed
  \/ EndPool
  \/ PoolEnded

Spec == Init /\ [][Next]_vars

\* The database answers, settled promises go on, and disposing of a subscription
\* ends (see Subscription).
Fairness ==
  /\ \A w \in Calls : WF_vars(Step(w))
  /\ WF_vars(SubscriptionsDisposed) /\ WF_vars(EndPool) /\ WF_vars(PoolEnded)

FairSpec == Spec /\ Fairness

-----------------------------------------------------------------------------
\* The type of every variable.
TypeOK ==
  /\ scavengeSynchronously \in BOOLEAN
  /\ call \in [Calls -> [op : {"append", "set metadata", "delete message", "delete stream", "read"},
                         pc : {"idle", "connecting", "running", "scavenging"}, tries : 0 .. Tries]]
  /\ job \in [Calls -> {"none", "connecting", "selecting", "connecting deletion", "deleting"}]
  /\ count \in Int
  /\ disposal \in {"no", "subscriptions", "waiting", "released", "ending", "done"}
  /\ pool \in {"open", "ending"}

Writes == {"append", "set metadata", "delete message", "delete stream"}
Writing(w) == (call[w].op \in Writes /\ call[w].pc # "idle") \/ job[w] # "none"

\* A write holds the latch until its last transaction is over, the ones in the
\* background too (latch.ts:5-6).
LatchHeldByWrites == (\E w \in Calls : Writing(w)) => count > 0

\* README.md:153: dispose "will wait until all write operations [...] have finished
\* before closing connections": none is under way when the latch lets dispose go on.
\* (A read that finds expired messages may begin to delete them just after.)
PoolEndsAfterWrites ==
  [][(disposal' = "released" /\ disposal # "released") => \A w \in Calls : ~ Writing(w)']_vars

\* Disposing ends, whatever is under way.
DisposeEnds == disposing ~> disposal = "done"
=============================================================================
