------------------------------- MODULE EventLog -------------------------------
(***************************************************************************)
(* What a Snicket stream store promises its clients, whatever keeps the    *)
(* messages: streams are logs.  A step appends one batch to the end of one *)
(* stream, removes messages, or both; a message is never altered, moved or *)
(* given a version, a position or an id that is already taken.             *)
(*                                                                         *)
(* Messages are removed by deletions and by scavenging; which ones is the  *)
(* business of the stores.  Nothing is promised once the store is being    *)
(* disposed of.                                                            *)
(***************************************************************************)
EXTENDS Integers

CONSTANT Streams  \* the streams that can exist

VARIABLES
  open,     \* the store is not being disposed of
  version,  \* the version of each stream: that of the last message appended
  live      \* the messages that can be read

vars == <<open, version, live>>

Init ==
  /\ open = TRUE
  /\ version = [s \in Streams |-> -1]
  /\ live = {}

\* The messages of a batch: the versions continue those of the stream, the
\* positions are in the order of the versions and new, and so are the ids.
IsBatch(s, new) ==
  /\ {m.streamVersion : m \in new} = version[s] + 1 .. version'[s]
  /\ \A m \in new :
       /\ m.streamId = s
       /\ \A k \in new \ {m} :
            /\ k.streamVersion # m.streamVersion
            /\ k.messageId # m.messageId
            /\ k.streamVersion < m.streamVersion => k.position < m.position
       /\ \A k \in live \cap live' :
            /\ k.position # m.position
            /\ k.streamId = s => k.messageId # m.messageId

\* A batch is appended to stream s; any messages may go at the same time.
AppendBatch(s) ==
  /\ open
  /\ version[s] <= version'[s]
  /\ version' = [version EXCEPT ![s] = version'[s]]
  /\ IsBatch(s, live' \ live)
  /\ UNCHANGED open

\* Messages are removed.
Remove ==
  /\ open
  /\ live' \subseteq live
  /\ UNCHANGED <<open, version>>

Close ==
  /\ open
  /\ open' = FALSE
  /\ UNCHANGED <<version, live>>

Closed == ~ open /\ ~ open'

Next == (\E s \in Streams : AppendBatch(s)) \/ Remove \/ Close \/ Closed

Spec == Init /\ [][Next]_vars

=============================================================================
