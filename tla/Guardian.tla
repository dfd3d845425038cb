------------------------------ MODULE Guardian ------------------------------
(***************************************************************************)
(* The guardian (utils/guardian.ts) and the actors it spawns one after the *)
(* other.  The actor is the pg-notify notifier's client: it may fail to    *)
(* start, report an error at any time, and resets the restart count once   *)
(* it has started.                                                         *)
(*                                                                         *)
(* Every error that is not ignored becomes a call of onError, which awaits *)
(* the restart promise it finds, and then a restart, which awaits the      *)
(* restart promise it finds: errors[h] is where call h is, and the restart *)
(* promise is the number of the last restart begun (0 is resolved).        *)
(***************************************************************************)
EXTENDS Integers, Sequences, FiniteSets

CONSTANTS
  MaxRestarts,  \* maxRestarts
  MaxErrors     \* bound: the errors that are not ignored

VARIABLES
  actors,               \* the actors spawned so far; the last is the current one
  restartCount,
  errors,               \* the calls of onError and the restarts they become
  actorRestartPromise,  \* the last restart begun
  exhausted,            \* onRestartsExhausted was called
  disposal,             \* "no", "awaiting" the start, "stopping", "resolved"
  disposing,            \* the actor dispose awaits or shuts down
  calm                  \* history: dispose was called with no error being handled, before giving up

vars == <<actors, restartCount, errors, actorRestartPromise, exhausted, disposal, disposing, calm>>

Handlers == 1 .. MaxErrors

ASSUME GuardianAssumption == MaxRestarts \in Nat \ {0} /\ MaxErrors \in Nat

Actor == [startup : {"pending", "done", "failed"}, isDown : BOOLEAN]
NewActor == [startup |-> "pending", isDown |-> FALSE]

\* A call of onError ("queued"), or the restart it has become.
Handling == [pc : {"none", "queued", "waiting", "stopping", "starting", "giving up", "done"},
             awaits : Nat, actor : Nat]
NoHandling == [pc |-> "none", awaits |-> 0, actor |-> 0]

actor == Len(actors)
disposed == disposal # "no"
Settled(h) == h # 0 => errors[h].pc = "done"
Reported == {h \in Handlers : errors[h].pc # "none"}
Handled == \A h \in Handlers : errors[h].pc \in {"none", "done"}

-----------------------------------------------------------------------------
Init ==
  /\ actors = << >> /\ restartCount = 0
  /\ errors = [h \in Handlers |-> NoHandling] /\ actorRestartPromise = 0
  /\ exhausted = FALSE /\ disposal = "no" /\ disposing = 0 /\ calm = TRUE

\* start, called once, spawns the first actor.
Start ==
  /\ actors = << >>
  /\ ~ disposed
  /\ actors' = << NewActor >>
  /\ UNCHANGED <<restartCount, errors, actorRestartPromise, exhausted, disposal, disposing, calm>>

\* onError up to its await: it is ignored once disposed or exhausted.
OnError ==
  IF disposed \/ restartCount >= MaxRestarts
  THEN UNCHANGED errors
  ELSE \E h \in Handlers \ Reported :
         /\ h = Cardinality(Reported) + 1
         /\ errors' = [errors EXCEPT ![h] = [pc |-> "queued", awaits |-> actorRestartPromise, actor |-> 0]]

StartupSucceeds(a) ==
  /\ actors[a].startup = "pending"
  /\ actors' = [actors EXCEPT ![a].startup = "done"]
  /\ restartCount' = 0
  /\ UNCHANGED <<errors, actorRestartPromise, exhausted, disposal, disposing, calm>>

StartupFails(a) ==
  /\ actors[a].startup = "pending"
  /\ actors' = [actors EXCEPT ![a].startup = "failed"]
  /\ OnError
  /\ UNCHANGED <<restartCount, actorRestartPromise, exhausted, disposal, disposing, calm>>

\* The keep-alive query of a running actor is answered.
KeepAlive(a) ==
  /\ actors[a].startup = "done" /\ ~ actors[a].isDown
  /\ restartCount' = 0
  /\ UNCHANGED <<actors, errors, actorRestartPromise, exhausted, disposal, disposing, calm>>

\* An actor that is not down reports an error.
ReportError(a) ==
  /\ ~ actors[a].isDown
  /\ OnError
  /\ UNCHANGED <<actors, restartCount, actorRestartPromise, exhausted, disposal, disposing, calm>>

-----------------------------------------------------------------------------
(***************************************************************************)
(* Restarting                                                              *)
(***************************************************************************)

\* Mutation of Restart: the restart does not await the one before it.
RestartAtOnce(h) ==
  /\ errors[h].pc = "queued"
  /\ Settled(errors[h].awaits)
  /\ restartCount' = restartCount + 1
  /\ actorRestartPromise' = h
  /\ IF restartCount + 1 >= MaxRestarts
     THEN /\ exhausted' = TRUE
          /\ errors' = [errors EXCEPT ![h] = [pc |-> "giving up", awaits |-> 0, actor |-> actor]]
     ELSE /\ errors' = [errors EXCEPT ![h] = [pc |-> "stopping", awaits |-> 0, actor |-> actor]]
          /\ UNCHANGED exhausted
  /\ UNCHANGED <<actors, disposal, disposing, calm>>

\* Mutation of Restart: the promise awaited is the restart's own.
RestartAwaitingItself(h) ==
  /\ errors[h].pc = "queued"
  /\ Settled(errors[h].awaits)
  /\ restartCount' = restartCount + 1
  /\ actorRestartPromise' = h
  /\ IF restartCount + 1 >= MaxRestarts
     THEN /\ exhausted' = TRUE
          /\ errors' = [errors EXCEPT ![h] = [pc |-> "giving up", awaits |-> 0, actor |-> actor]]
     ELSE /\ errors' = [errors EXCEPT ![h] = [pc |-> "waiting", awaits |-> h, actor |-> 0]]
          /\ UNCHANGED exhausted
  /\ UNCHANGED <<actors, disposal, disposing, calm>>

\* onError goes on: restart up to its first await.  It does not ask again
\* whether the guardian has been disposed meanwhile.
Restart(h) ==
  /\ errors[h].pc = "queued"
  /\ Settled(errors[h].awaits)
  /\ restartCount' = restartCount + 1
  /\ actorRestartPromise' = h
  /\ IF restartCount + 1 >= MaxRestarts
     THEN /\ exhausted' = TRUE
          /\ errors' = [errors EXCEPT ![h] = [pc |-> "giving up", awaits |-> 0, actor |-> actor]]
     ELSE /\ errors' = [errors EXCEPT ![h] = [pc |-> "waiting", awaits |-> actorRestartPromise, actor |-> 0]]
          /\ UNCHANGED exhausted
  /\ UNCHANGED <<actors, disposal, disposing, calm>>

\* The restart before is over: shut the current actor down.
Stop(h) ==
  /\ errors[h].pc = "waiting"
  /\ Settled(errors[h].awaits)
  /\ errors' = [errors EXCEPT ![h].pc = "stopping", ![h].actor = actor]
  /\ UNCHANGED <<actors, restartCount, actorRestartPromise, exhausted, disposal, disposing, calm>>

\* It is down, or failed to go down: spawnAndStartActor.
Spawn(h) ==
  /\ errors[h].pc = "stopping"
  /\ actors' = Append([actors EXCEPT ![errors[h].actor].isDown = TRUE], NewActor)
  /\ errors' = [errors EXCEPT ![h].pc = "starting", ![h].actor = actor + 1]
  /\ UNCHANGED <<restartCount, actorRestartPromise, exhausted, disposal, disposing, calm>>

Started(h) ==
  /\ errors[h].pc = "starting"
  /\ actors[errors[h].actor].startup # "pending"
  /\ errors' = [errors EXCEPT ![h].pc = "done"]
  /\ UNCHANGED <<actors, restartCount, actorRestartPromise, exhausted, disposal, disposing, calm>>

GiveUp(h) ==
  /\ errors[h].pc = "giving up"
  /\ actors' = [actors EXCEPT ![errors[h].actor].isDown = TRUE]
  /\ errors' = [errors EXCEPT ![h].pc = "done"]
  /\ UNCHANGED <<restartCount, actorRestartPromise, exhausted, disposal, disposing, calm>>

-----------------------------------------------------------------------------
(***************************************************************************)
(* Disposing                                                               *)
(***************************************************************************)
Dispose ==
  /\ ~ disposed
  /\ disposal' = IF actors = << >> THEN "resolved" ELSE "awaiting"
  /\ disposing' = actor
  /\ calm' = (Handled /\ ~ exhausted)
  /\ UNCHANGED <<actors, restartCount, errors, actorRestartPromise, exhausted>>

\* Mutation of DisposeStops: nothing is awaited or shut down.
DisposeStopsNothing ==
  /\ disposal = "awaiting"
  /\ disposal' = "resolved"
  /\ UNCHANGED <<actors, restartCount, errors, actorRestartPromise, exhausted, disposing, calm>>

\* The start promise is settled: shut down the actor that is current by now.
DisposeStops ==
  /\ disposal = "awaiting"
  /\ actors[disposing].startup # "pending"
  /\ disposal' = "stopping"
  /\ disposing' = actor
  /\ UNCHANGED <<actors, restartCount, errors, actorRestartPromise, exhausted, calm>>

DisposeEnds ==
  /\ disposal = "stopping"
  /\ disposal' = "resolved"
  /\ actors' = [actors EXCEPT ![disposing].isDown = TRUE]
  /\ UNCHANGED <<restartCount, errors, actorRestartPromise, exhausted, disposing, calm>>

Handle(h) == Restart(h) \/ Stop(h) \/ Spawn(h) \/ Started(h) \/ GiveUp(h)

Next ==
  \/ Start
  \/ \E a \in DOMAIN actors : StartupSucceeds(a) \/ StartupFails(a)
                               \/ KeepAlive(a) \/ ReportError(a)
  \/ \E h \in Handlers : Restart(h)
  \/ \E h \in Handlers : Stop(h)
  \/ \E h \in Handlers : Spawn(h)
  \/ \E h \in Handlers : Started(h)
  \/ \E h \in Handlers : GiveUp(h)
  \/ Dispose
  \/ DisposeStops
  \/ DisposeEnds

Spec == Init /\ [][Next]_vars

-----------------------------------------------------------------------------
\* The type of every variable.
TypeOK ==
  /\ actors \in Seq(Actor) /\ actor <= Cardinality(Reported) + 1
  /\ restartCount \in 0 .. MaxErrors
  /\ errors \in [Handlers -> Handling]
  /\ actorRestartPromise \in 0 .. MaxErrors
  /\ exhausted \in BOOLEAN /\ calm \in BOOLEAN
  /\ disposal \in {"no", "awaiting", "stopping", "resolved"}
  /\ disposing \in 0 .. actor

Alive == {a \in DOMAIN actors : ~ actors[a].isDown}

\* Until restarts are exhausted an actor is spawned only once the one before it
\* has been shut down, however the errors come (guardian.ts:157-159).
OneActorUntilExhausted == ~ exhausted => Cardinality(Alive) <= 1

\* guardian.ts:142: a restart shuts the actor down first, then spawns another
\* one.  (A restart that gives up becomes the restart promise without awaiting
\* the ones in progress; if one of these starts an actor, the count is reset,
\* and the next restart runs beside them.)
AtMostOneActor == Cardinality(Alive) <= 1

\* A guardian disposed before it gave up, with no error being handled, leaves no
\* actor behind, whether the actor has started, is starting or fails to.
CalmDisposeShutsDown ==
  (disposal = "resolved" /\ calm) => Alive = {}

\* Every error is answered: no restart waits for itself, or for a restart that
\* waits for it (guardian.ts:100 and 157 await the same variable).
ErrorsAreAnswered ==
  \A h \in Handlers : errors[h].pc = "queued" ~> errors[h].pc = "done"

\* guardian.ts:16: dispose "disposes the guardian by shutting down the spawned
\* actor", which is kept running "until we dispose the guardian".  (A restart in
\* progress goes on, and spawns an actor that nobody will shut down.)
DisposeShutsDown ==
  disposal = "resolved" => Alive = {}
=============================================================================
