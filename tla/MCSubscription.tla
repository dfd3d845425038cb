--------------------------- MODULE MCSubscription ---------------------------
(***************************************************************************)
(* Small instances of the subscription for TLC.                            *)
(***************************************************************************)
EXTENDS SubscriptionProperties

Mode(store, kind, after) == [store |-> store, kind |-> kind, after |-> after]

\* Every log, followed from its beginning, from its end or from its first message.
AllModes ==
  {Mode(store, kind, after) : store \in {"memory", "postgres"}, kind \in {"all", "stream"},
                              after \in {Beginning, End, 0}}
\* Each log once.
FourModes ==
  {Mode("memory", "all", Beginning), Mode("memory", "stream", End),
   Mode("postgres", "all", End), Mode("postgres", "stream", Beginning)}
PostgresStream == {Mode("postgres", "stream", Beginning)}
=============================================================================
