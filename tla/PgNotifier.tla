----------------------------- MODULE PgNotifier -----------------------------
(***************************************************************************)
(* The pg-notify notifier: a guardian that keeps one client connected      *)
(* which LISTENs for what append_to_stream NOTIFYs.  PostgreSQL sends a    *)
(* notification at COMMIT, to the connections that have LISTENed by then,  *)
(* and forgets it.                                                         *)
(*                                                                         *)
(* The guardian is that of Guardian; here its actors have a connection,    *)
(* which is what makes them start, fail and report errors.  A fault is     *)
(* what goes wrong with a connection: it breaks, is refused, or reports an *)
(* error and goes on.  A broken one is reported by the client and, if its  *)
(* startup was under way, by the startup: two errors at the most.          *)
(***************************************************************************)
EXTENDS Guardian

CONSTANTS
  MaxFaults,    \* bound: the faults
  MaxCommits    \* bound: the appends that are committed

VARIABLES
  connection,   \* of each actor: "none", "listening", "broken" or "reported"
  faults,       \* the number of faults so far
  committed,    \* the number of appends committed
  sent,         \* the notifications on their way: <<actor, commit>>
  heard         \* the commits after which the listeners were invoked

server == <<connection, faults, committed, sent, heard>>
notifierVars == <<vars, server>>

ASSUME PgNotifierAssumption ==
  /\ MaxFaults \in Nat /\ MaxCommits \in Nat
  /\ MaxErrors >= 2 * MaxFaults

Actors == 1 .. MaxErrors + 1

NotifierInit ==
  /\ Init
  /\ connection = [a \in Actors |-> "none"]
  /\ faults = 0 /\ committed = 0 /\ sent = {} /\ heard = {}

\* A fault happens, or does not.
Fault == faults < MaxFaults /\ faults' = faults + 1
NoFault == UNCHANGED faults

-----------------------------------------------------------------------------
(***************************************************************************)
(* The guardian's steps                                                    *)
(***************************************************************************)

\* client.end: an actor that is down has no connection.
Ended ==
  /\ connection' = [a \in Actors |-> IF a \in DOMAIN actors' /\ actors'[a].isDown
                                     THEN "none" ELSE connection[a]]
  /\ sent' = {s \in sent : connection'[s[1]] # "none"}
  /\ UNCHANGED <<faults, committed, heard>>

GuardianStep ==
  \/ Start \/ Dispose \/ DisposeStops \/ DisposeEnds
  \/ \E h \in Handlers : Handle(h)

\* startup: connect and LISTEN.
Listen(a) ==
  /\ a \in DOMAIN actors /\ actors[a].startup = "pending" /\ ~ actors[a].isDown
  /\ connection[a] = "none"
  /\ connection' = [connection EXCEPT ![a] = "listening"]
  /\ UNCHANGED <<vars, faults, committed, sent, heard>>

\* The answer to LISTEN was on its way when the connection broke, if it did.
Startup(a) ==
  /\ connection[a] \in {"listening", "broken"}
  /\ StartupSucceeds(a)
  /\ UNCHANGED server

StartupRefused(a) ==
  /\ StartupFails(a)
  /\ \/ connection[a] = "none" /\ ~ actors[a].isDown /\ Fault
     \/ connection[a] = "none" /\ actors[a].isDown /\ NoFault
     \/ connection[a] \in {"broken", "reported"} /\ NoFault
  /\ UNCHANGED <<connection, committed, sent, heard>>

\* The server answers the keep-alive query.
Heartbeat(a) ==
  /\ connection[a] = "listening"
  /\ KeepAlive(a)
  /\ UNCHANGED server

\* The connection breaks, and takes what is on its way along.
Break(a) ==
  /\ connection[a] = "listening"
  /\ Fault
  /\ connection' = [connection EXCEPT ![a] = "broken"]
  /\ sent' = {s \in sent : s[1] # a}
  /\ UNCHANGED <<vars, committed, heard>>

\* Mutation of ReportBroken: the client's errors go nowhere.
ReportNothing(a) ==
  /\ a \in DOMAIN actors /\ ~ actors[a].isDown /\ connection[a] = "broken"
  /\ connection' = [connection EXCEPT ![a] = "reported"]
  /\ UNCHANGED <<vars, faults, committed, sent, heard>>

\* The client, or a keep-alive query, reports that the connection is broken.
ReportBroken(a) ==
  /\ connection[a] = "broken"
  /\ ReportError(a)
  /\ connection' = [connection EXCEPT ![a] = "reported"]
  /\ UNCHANGED <<faults, committed, sent, heard>>

\* An error that leaves the connection as it is.
ReportOther(a) ==
  /\ connection[a] # "broken"
  /\ Fault
  /\ ReportError(a)
  /\ UNCHANGED <<connection, committed, sent, heard>>

-----------------------------------------------------------------------------
(***************************************************************************)
(* The signals                                                             *)
(***************************************************************************)

\* append_to_stream commits.
Commit ==
  /\ committed < MaxCommits
  /\ committed' = committed + 1
  /\ sent' = sent \cup {<<a, committed + 1>> : a \in {b \in Actors : connection[b] = "listening"}}
  /\ UNCHANGED <<vars, connection, faults, heard>>

\* Mutation of Notify: the client listens for notifications once LISTEN has returned.
NotifyOnceStarted(a) ==
  /\ \E n \in 1 .. committed :
       /\ <<a, n>> \in sent
       /\ sent' = sent \ {<<a, n>>}
       /\ heard' = IF actors[a].startup = "done" THEN heard \cup {n} ELSE heard
  /\ UNCHANGED <<vars, connection, faults, committed>>

\* invokeListeners; the notifications of a connection arrive in order.
Notify(a) ==
  /\ \E n \in 1 .. committed :
       /\ <<a, n>> \in sent /\ \A k \in 1 .. n - 1 : <<a, k>> \notin sent
       /\ sent' = sent \ {<<a, n>>}
       /\ heard' = heard \cup {n}
  /\ UNCHANGED <<vars, connection, faults, committed>>

NotifierNext ==
  \/ GuardianStep /\ Ended
  \/ \E a \in DOMAIN actors : Listen(a)
  \/ \E a \in DOMAIN actors : Startup(a)
  \/ \E a \in DOMAIN actors : StartupRefused(a)
  \/ \E a \in DOMAIN actors : Heartbeat(a)
  \/ \E a \in DOMAIN actors : Break(a)
  \/ \E a \in DOMAIN actors : ReportBroken(a)
  \/ \E a \in DOMAIN actors : ReportOther(a)
  \/ \E a \in DOMAIN actors : Notify(a)
  \/ Commit

NotifierSpec == NotifierInit /\ [][NotifierNext]_notifierVars

\* The guardian's fairness; a startup ends, a broken connection is noticed (TCP and
\* the keep-alive query see to that), and what was sent arrives.
NotifierFairness ==
  /\ \A h \in Handlers : WF_notifierVars(Handle(h) /\ Ended)
  /\ WF_notifierVars((DisposeStops \/ DisposeEnds) /\ Ended)
  /\ \A a \in Actors :
       /\ WF_notifierVars(a \in DOMAIN actors /\ (Listen(a) \/ Startup(a) \/ StartupRefused(a)))
       /\ WF_notifierVars(a \in DOMAIN actors /\ ReportBroken(a))
       /\ WF_notifierVars(Notify(a))
NotifierFairSpec == NotifierSpec /\ NotifierFairness

-----------------------------------------------------------------------------
\* The type of every variable: only a client that is not shut down has a connection.
NotifierTypeOK ==
  /\ TypeOK
  /\ connection \in [Actors -> {"none", "listening", "broken", "reported"}]
  /\ \A a \in Actors : connection[a] # "none" => a \in Alive
  /\ faults \in 0 .. MaxFaults /\ committed \in 0 .. MaxCommits
  /\ sent \subseteq Actors \X (1 .. committed) /\ heard \subseteq 1 .. committed

\* guardian.ts:11-12, the actor is kept running: however often its connection breaks
\* there is one again that listens, until the guardian gives up or is disposed.
KeepsListening ==
  actors # << >> ~> (exhausted \/ disposed \/ \E a \in Actors : connection[a] = "listening")

\* A commit that finds the client listening is heard, also while its startup is still
\* under way, unless the connection breaks or is ended.
SignalsAreHeard ==
  \A a \in Actors, n \in 1 .. MaxCommits :
    <<a, n>> \in sent ~> (n \in heard \/ connection[a] # "listening")

\* README.md:438, pg_notify "after every append which will serve as the signal":
\* every append is heard.  (What is committed while the client reconnects is not;
\* the listeners are not invoked when it is back.)
AppendsAreHeard ==
  \A n \in 1 .. MaxCommits : committed = n ~> (n \in heard \/ exhausted \/ disposed)
=============================================================================
