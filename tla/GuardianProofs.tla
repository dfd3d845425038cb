--------------------------- MODULE GuardianProofs ---------------------------
(***************************************************************************)
(* Proofs about the guardian and the pg-notify notifier that uses it, for  *)
(* every maxRestarts and any number of errors, faults and commits.         *)
(*                                                                         *)
(* Errors come at any time and each of them becomes a restart.  What keeps *)
(* these apart is a queue that the code never names: every restart awaits  *)
(* the one begun before it, so that those in progress can be put in a      *)
(* sequence in which each awaits its predecessor, only the first may have  *)
(* gone past that await, and the restart promise is the last (Queue).      *)
(* A restart that gives up breaks the queue, which is why all of this      *)
(* holds until restarts are exhausted.                                     *)
(*                                                                         *)
(* Every step of the notifier is a step of the guardian, or none of its    *)
(* business (Implements), so what is proved of the guardian holds of it.   *)
(***************************************************************************)
EXTENDS PgNotifier, FiniteSetTheorems, SequenceTheorems, TLAPS

InProgress == {"waiting", "stopping", "starting"}

\* The restarts in progress, in the order in which they were begun.
Queue(q) ==
  /\ q \in Seq(Handlers)
  /\ \A i, j \in 1 .. Len(q) : q[i] = q[j] => i = j
  /\ \A h \in Handlers : errors[h].pc \in InProgress <=> \E i \in 1 .. Len(q) : q[i] = h
  /\ \A i \in 2 .. Len(q) : errors[q[i]].pc = "waiting" /\ errors[q[i]].awaits = q[i - 1]
  /\ Len(q) # 0 => actorRestartPromise = q[Len(q)]
  /\ Len(q) = 0 => Settled(actorRestartPromise)

Queued ==
  ~ exhausted =>
    /\ \A h \in Handlers : errors[h].pc # "giving up"
    /\ \E q \in Seq(Handlers) : Queue(q)

\* Only an actor reports errors; every restart spawns one actor at the most, and
\* counts once.
Begun == {h \in Handlers : errors[h].pc \notin {"none", "queued"}}
Spawned == {h \in Handlers : errors[h].pc \in {"starting", "done"}}

Counted ==
  /\ Reported # {} => actors # << >>
  /\ actor <= Cardinality(Spawned) + 1
  /\ restartCount <= Cardinality(Begun)

\* The restart that shuts an actor down shuts the current one down, and the
\* others are down.
OthersDown ==
  ~ exhausted =>
    /\ \A h \in Handlers : errors[h].pc = "stopping" => errors[h].actor = actor
    /\ Alive \subseteq {actor}

\* A guardian disposed of in a calm moment is not disturbed any more.
CalmStays ==
  (disposed /\ calm) =>
    /\ Handled /\ ~ exhausted
    /\ disposal = "stopping" => disposing = actor
    /\ disposal = "resolved" => Alive = {}

IInv ==
  /\ TypeOK
  /\ Counted
  /\ Queued
  /\ OthersDown
  /\ CalmStays

-----------------------------------------------------------------------------
(***************************************************************************)
(* The actors                                                              *)
(***************************************************************************)

\* Shutting an actor down changes nothing else.
LEMMA DownProperties ==
  ASSUME NEW s \in Seq(Actor), NEW i
  PROVE  LET t == [s EXCEPT ![i].isDown = TRUE] IN
         /\ t \in Seq(Actor) /\ Len(t) = Len(s)
         /\ \A a \in 1 .. Len(s) : /\ t[a].startup = s[a].startup
                                   /\ t[a].isDown <=> (s[a].isDown \/ a = i)
<1> DEFINE t == [s EXCEPT ![i].isDown = TRUE]
           n == Len(s)
<1>1. n \in Nat /\ s \in [1 .. n -> Actor]
  BY LenProperties
<1> HIDE DEF n
<1>2. ASSUME NEW a \in 1 .. n
      PROVE  /\ t[a] \in Actor /\ t[a].startup = s[a].startup
             /\ t[a].isDown <=> (s[a].isDown \/ a = i)
  BY <1>1 DEF Actor
<1>3. t \in [1 .. n -> Actor]
  BY <1>1, <1>2
<1>4. t \in Seq(Actor)
  BY <1>1, <1>3, SeqDef
<1>5. Len(t) = n
  BY <1>1, <1>3, <1>4, LenProperties
<1> QED
  BY <1>2, <1>4, <1>5 DEF n

\* So does the end of a startup.
LEMMA StartupProperties ==
  ASSUME NEW s \in Seq(Actor), NEW i, NEW e \in {"done", "failed"}
  PROVE  LET t == [s EXCEPT ![i].startup = e] IN
         /\ t \in Seq(Actor) /\ Len(t) = Len(s)
         /\ \A a \in 1 .. Len(s) : t[a].isDown <=> s[a].isDown
<1> DEFINE t == [s EXCEPT ![i].startup = e]
           n == Len(s)
<1>1. n \in Nat /\ s \in [1 .. n -> Actor]
  BY LenProperties
<1> HIDE DEF n
<1>2. ASSUME NEW a \in 1 .. n
      PROVE  t[a] \in Actor /\ (t[a].isDown <=> s[a].isDown)
  BY <1>1 DEF Actor
<1>3. t \in [1 .. n -> Actor]
  BY <1>1, <1>2
<1>4. t \in Seq(Actor)
  BY <1>1, <1>3, SeqDef
<1>5. Len(t) = n
  BY <1>1, <1>3, <1>4, LenProperties
<1> QED
  BY <1>2, <1>4, <1>5 DEF n

\* A new actor comes after those there were.
LEMMA SpawnProperties ==
  ASSUME NEW s \in Seq(Actor)
  PROVE  /\ Append(s, NewActor) \in Seq(Actor) /\ Len(Append(s, NewActor)) = Len(s) + 1
         /\ \A a \in 1 .. Len(s) : Append(s, NewActor)[a] = s[a]
<1>1. NewActor \in Actor
  BY DEF NewActor, Actor
<1> QED
  BY <1>1, AppendProperties

\* The actors and the errors of the type invariant.
LEMMA ActorTypes ==
  ASSUME TypeOK
  PROVE  /\ actors \in Seq(Actor) /\ actor \in Nat /\ DOMAIN actors = 1 .. actor
         /\ actors = << >> <=> actor = 0
         /\ errors \in [Handlers -> Handling]
         /\ IsFiniteSet(Handlers) /\ Cardinality(Handlers) = MaxErrors
<1>1. actors \in Seq(Actor) /\ errors \in [Handlers -> Handling]
  BY DEF TypeOK
<1>2. actor \in Nat /\ DOMAIN actors = 1 .. actor /\ (actors = << >> <=> actor = 0)
  BY <1>1, LenProperties, EmptySeq DEF actor
<1>3. IsFiniteSet(Handlers) /\ Cardinality(Handlers) = MaxErrors
  BY GuardianAssumption, FS_Interval DEF Handlers
<1> QED
  BY <1>1, <1>2, <1>3

\* Subsets of the calls of onError are counted.
LEMMA HandlersCounted ==
  ASSUME NEW S \in SUBSET Handlers
  PROVE  /\ IsFiniteSet(S) /\ Cardinality(S) \in 0 .. MaxErrors
         /\ \A T \in SUBSET S : Cardinality(T) <= Cardinality(S)
         /\ \A h \in Handlers \ S : Cardinality(S \cup {h}) = Cardinality(S) + 1
<1>1. IsFiniteSet(Handlers) /\ Cardinality(Handlers) = MaxErrors /\ MaxErrors \in Nat
  BY GuardianAssumption, FS_Interval DEF Handlers
<1>2. IsFiniteSet(S) /\ Cardinality(S) <= MaxErrors
  BY <1>1, FS_Subset
<1>3. Cardinality(S) \in 0 .. MaxErrors
  BY <1>1, <1>2, FS_CardinalityType
<1>4. \A T \in SUBSET S : Cardinality(T) <= Cardinality(S)
  BY <1>2, FS_Subset
<1>5. \A h \in Handlers \ S : Cardinality(S \cup {h}) = Cardinality(S) + 1
  BY <1>2, FS_AddElement
<1> QED
  BY <1>2, <1>3, <1>4, <1>5

-----------------------------------------------------------------------------
(***************************************************************************)
(* Steps                                                                   *)
(***************************************************************************)

\* Where call h is, from one state to the next: an error that was not handled is
\* queued, or nothing happens to the calls.
LEMMA OnErrorEffect ==
  ASSUME TypeOK, OnError
  PROVE  \/ UNCHANGED errors
         \/ /\ ~ disposed
            /\ \E h \in Handlers :
                 /\ errors[h].pc = "none"
                 /\ errors' = [errors EXCEPT ![h] = [pc |-> "queued", awaits |-> actorRestartPromise,
                                                     actor |-> 0]]
<1>1. CASE disposed \/ restartCount >= MaxRestarts
  BY <1>1 DEF OnError
<1>2. CASE ~ (disposed \/ restartCount >= MaxRestarts)
  BY <1>2 DEF OnError, Reported
<1> QED
  BY <1>1, <1>2

\* The steps that only concern the actors and the errors they report.
ActorStep ==
  \E a \in DOMAIN actors : StartupSucceeds(a) \/ StartupFails(a) \/ KeepAlive(a) \/ ReportError(a)

\* An actor spawns none and shuts none down; at most it reports one more error.
LEMMA ActorStepEffect ==
  ASSUME TypeOK, ActorStep
  PROVE  /\ actors # << >> /\ actors' \in Seq(Actor) /\ actor' = actor /\ Alive' = Alive
         /\ UNCHANGED <<actorRestartPromise, exhausted, disposal, disposing, calm>>
         /\ restartCount' \in {restartCount, 0}
         /\ \/ UNCHANGED errors
            \/ /\ ~ disposed
               /\ \E h \in Handlers :
                    /\ errors[h].pc = "none"
                    /\ errors' = [errors EXCEPT ![h] = [pc |-> "queued", awaits |-> actorRestartPromise,
                                                        actor |-> 0]]
<1>1. PICK a \in DOMAIN actors : StartupSucceeds(a) \/ StartupFails(a) \/ KeepAlive(a) \/ ReportError(a)
  BY DEF ActorStep
<1>2. actors \in Seq(Actor) /\ DOMAIN actors = 1 .. actor /\ actor \in Nat /\ actors # << >>
  BY <1>1, ActorTypes
<1>3. CASE StartupSucceeds(a) \/ StartupFails(a)
  <2>1. PICK e \in {"done", "failed"} : actors' = [actors EXCEPT ![a].startup = e]
    BY <1>3 DEF StartupSucceeds, StartupFails
  <2>2. /\ actors' \in Seq(Actor) /\ Len(actors') = Len(actors)
        /\ \A b \in 1 .. Len(actors) : actors'[b].isDown <=> actors[b].isDown
    BY <1>2, <2>1, StartupProperties
  <2>3. DOMAIN actors' = 1 .. actor
    BY <2>2, LenProperties DEF actor
  <2>4. actor' = actor /\ Alive' = Alive
    BY <1>2, <2>2, <2>3 DEF actor, Alive
  <2> QED
    BY <1>2, <1>3, <2>2, <2>4, OnErrorEffect DEF StartupSucceeds, StartupFails
<1>4. CASE KeepAlive(a) \/ ReportError(a)
  BY <1>2, <1>4, OnErrorEffect DEF KeepAlive, ReportError, actor, Alive
<1> QED
  BY <1>1, <1>3, <1>4

\* A call of onError or a restart goes on.
HandlerStep(h) ==
  \/ Restart(h) \/ Stop(h) \/ Started(h)
  \/ Spawn(h) \/ GiveUp(h)

\* It concerns no other call, and its effect on the actors is to spawn one or to shut
\* some down.
LEMMA HandlerStepEffect ==
  ASSUME TypeOK, NEW h \in Handlers, HandlerStep(h)
  PROVE  /\ errors[h].pc \in {"queued", "waiting", "stopping", "starting", "giving up"}
         /\ errors'[h].pc \in {"waiting", "stopping", "starting", "giving up", "done"}
         /\ errors' \in [Handlers -> Handling]
         /\ \A g \in Handlers : g # h => errors'[g] = errors[g]
         /\ UNCHANGED <<disposal, disposing, calm>>
         /\ actors' \in Seq(Actor)
         /\ actor' = IF Spawn(h) THEN actor + 1 ELSE actor
         /\ \A a \in 1 .. actor : ~ actors'[a].isDown => ~ actors[a].isDown
         /\ Spawn(h) => \A a \in 1 .. actor : ~ actors'[a].isDown => a # errors[h].actor
<1>1. /\ actors \in Seq(Actor) /\ actor \in Nat
      /\ errors \in [Handlers -> Handling]
      /\ actorRestartPromise \in 0 .. MaxErrors /\ MaxErrors \in Nat
  BY ActorTypes, GuardianAssumption DEF TypeOK
<1>2. CASE Restart(h)
  <2>1. errors[h].pc = "queued" /\ UNCHANGED <<actors, disposal, disposing, calm>>
    BY <1>2 DEF Restart
  <2>2. PICK r \in [pc : {"waiting", "giving up"}, awaits : Nat, actor : Nat] :
          errors' = [errors EXCEPT ![h] = r]
    <3> DEFINE last == [pc |-> "giving up", awaits |-> 0, actor |-> actor]
               next == [pc |-> "waiting", awaits |-> actorRestartPromise, actor |-> 0]
    <3>1. errors' = [errors EXCEPT ![h] = last] \/ errors' = [errors EXCEPT ![h] = next]
      BY <1>2 DEF Restart
    <3>2. /\ last \in [pc : {"waiting", "giving up"}, awaits : Nat, actor : Nat]
          /\ next \in [pc : {"waiting", "giving up"}, awaits : Nat, actor : Nat]
      <4>1. actorRestartPromise \in Nat
        BY <1>1
      <4> QED
        BY <1>1, <4>1
    <3> QED
      BY <3>1, <3>2
  <2>3. ~ Spawn(h)
    BY <2>1 DEF Spawn
  <2> QED
    BY <1>1, <2>1, <2>2, <2>3 DEF actor, Handling
<1>3. CASE Stop(h)
  <2>1. errors[h].pc = "waiting" /\ UNCHANGED <<actors, disposal, disposing, calm>>
    BY <1>3 DEF Stop
  <2>2. errors' = [errors EXCEPT ![h].pc = "stopping", ![h].actor = actor]
    BY <1>3 DEF Stop
  <2>3. ~ Spawn(h)
    BY <2>1 DEF Spawn
  <2> QED
    BY <1>1, <2>1, <2>2, <2>3 DEF actor, Handling
<1>4. CASE Started(h)
  <2>1. errors[h].pc = "starting" /\ UNCHANGED <<actors, disposal, disposing, calm>>
    BY <1>4 DEF Started
  <2>2. errors' = [errors EXCEPT ![h].pc = "done"]
    BY <1>4 DEF Started
  <2>3. ~ Spawn(h)
    BY <2>1 DEF Spawn
  <2> QED
    BY <1>1, <2>1, <2>2, <2>3 DEF actor, Handling
<1>5. CASE Spawn(h)
  <2>1. errors[h].pc = "stopping" /\ UNCHANGED <<disposal, disposing, calm>>
    BY <1>5 DEF Spawn
  <2>2. errors' = [errors EXCEPT ![h].pc = "starting", ![h].actor = actor + 1]
    BY <1>5 DEF Spawn
  <2>3. actors' = Append([actors EXCEPT ![errors[h].actor].isDown = TRUE], NewActor)
    BY <1>5 DEF Spawn
  <2>4. /\ actors' \in Seq(Actor) /\ Len(actors') = Len(actors) + 1
        /\ \A a \in 1 .. Len(actors) : actors'[a].isDown <=> (actors[a].isDown \/ a = errors[h].actor)
    <3> DEFINE d == [actors EXCEPT ![errors[h].actor].isDown = TRUE]
    <3>1. /\ d \in Seq(Actor) /\ Len(d) = Len(actors)
          /\ \A a \in 1 .. Len(actors) : d[a].isDown <=> (actors[a].isDown \/ a = errors[h].actor)
      BY <1>1, DownProperties
    <3>2. actors' = Append(d, NewActor)
      BY <2>3
    <3> HIDE DEF d
    <3> QED
      BY <3>1, <3>2, SpawnProperties
  <2>5. errors' \in [Handlers -> Handling] /\ errors'[h].pc = "starting"
    <3> DEFINE e == [errors[h] EXCEPT !.pc = "starting", !.actor = actor + 1]
    <3>1. actor + 1 \in Nat
      BY <1>1
    <3>2. e \in Handling /\ e.pc = "starting"
      BY <1>1, <3>1 DEF Handling
    <3>3. errors' = [errors EXCEPT ![h] = e]
      BY <1>1, <2>2
    <3> HIDE DEF e
    <3> QED
      BY <1>1, <3>2, <3>3
  <2>6. \A g \in Handlers : g # h => errors'[g] = errors[g]
    BY <1>1, <2>2
  <2>7. /\ actor' = actor + 1
        /\ \A a \in 1 .. actor : ~ actors'[a].isDown => ~ actors[a].isDown /\ a # errors[h].actor
    BY <2>4 DEF actor
  <2> QED
    BY <1>5, <2>1, <2>4, <2>5, <2>6, <2>7
<1>6. CASE GiveUp(h)
  <2>1. errors[h].pc = "giving up" /\ UNCHANGED <<disposal, disposing, calm>>
    BY <1>6 DEF GiveUp
  <2>2. errors' = [errors EXCEPT ![h].pc = "done"]
    BY <1>6 DEF GiveUp
  <2>3. actors' = [actors EXCEPT ![errors[h].actor].isDown = TRUE]
    BY <1>6 DEF GiveUp
  <2>4. /\ actors' \in Seq(Actor) /\ Len(actors') = Len(actors)
        /\ \A a \in 1 .. Len(actors) : actors'[a].isDown <=> (actors[a].isDown \/ a = errors[h].actor)
    BY <1>1, <2>3, DownProperties
  <2>5. ~ Spawn(h)
    BY <2>1 DEF Spawn
  <2> QED
    BY <1>1, <2>1, <2>2, <2>4, <2>5 DEF actor, Handling
<1> QED
  BY <1>2, <1>3, <1>4, <1>5, <1>6 DEF HandlerStep

\* The steps of dispose.
DisposeStep == Dispose \/ DisposeStops \/ DisposeEnds

\* Disposing concerns no call of onError, and no actor but the one it shuts down.
LEMMA DisposeStepEffect ==
  ASSUME TypeOK, DisposeStep
  PROVE  /\ UNCHANGED <<errors, restartCount, actorRestartPromise, exhausted>>
         /\ disposal' \in {"awaiting", "stopping", "resolved"} /\ disposing' \in 0 .. actor
         /\ actors' \in Seq(Actor) /\ actor' = actor
         /\ \A a \in 1 .. actor : ~ actors'[a].isDown => ~ actors[a].isDown
         /\ DisposeEnds => \A a \in 1 .. actor : ~ actors'[a].isDown => a # disposing
         /\ ~ DisposeEnds => UNCHANGED actors
<1>1. actors \in Seq(Actor) /\ actor \in Nat /\ disposing \in 0 .. actor
  BY ActorTypes DEF TypeOK
<1>2. CASE Dispose
  BY <1>1, <1>2 DEF Dispose, DisposeEnds, disposed, actor
<1>3. CASE DisposeStops
  BY <1>1, <1>3 DEF DisposeStops, DisposeEnds, actor
<1>4. CASE DisposeEnds
  <2>1. actors' = [actors EXCEPT ![disposing].isDown = TRUE]
    BY <1>4 DEF DisposeEnds
  <2>2. /\ actors' \in Seq(Actor) /\ Len(actors') = Len(actors)
        /\ \A a \in 1 .. Len(actors) : actors'[a].isDown <=> (actors[a].isDown \/ a = disposing)
    BY <1>1, <2>1, DownProperties
  <2> QED
    BY <1>1, <1>4, <2>2 DEF DisposeEnds, actor
<1> QED
  BY <1>2, <1>3, <1>4 DEF DisposeStep

\* Every step is one of these.
LEMMA Steps ==
  [Next]_vars <=> Start \/ ActorStep \/ (\E h \in Handlers : HandlerStep(h)) \/ DisposeStep \/ UNCHANGED vars
BY Zenon DEF Next, ActorStep, HandlerStep, DisposeStep

-----------------------------------------------------------------------------
(***************************************************************************)
(* The types and the counts                                                *)
(***************************************************************************)

\* There are as many actors as restarts that spawned one, and the first.
LEMMA CountedInductive == TypeOK /\ Counted /\ [Next]_vars => Counted'
<1> SUFFICES ASSUME TypeOK, Counted, [Next]_vars
             PROVE  Counted'
  OBVIOUS
<1>1. /\ Reported \in SUBSET Handlers /\ Begun \in SUBSET Handlers /\ Spawned \in SUBSET Handlers
      /\ actor \in Nat /\ restartCount \in Int
      /\ errors \in [Handlers -> Handling]
      /\ actors = << >> <=> actor = 0
  BY ActorTypes, GuardianAssumption DEF Reported, Begun, Spawned, TypeOK
<1>2. /\ Cardinality(Spawned) \in Nat /\ Cardinality(Begun) \in Nat
      /\ \A h \in Handlers \ Spawned : Cardinality(Spawned \cup {h}) = Cardinality(Spawned) + 1
      /\ \A h \in Handlers \ Begun : Cardinality(Begun \cup {h}) = Cardinality(Begun) + 1
  BY <1>1, HandlersCounted
<1>3. CASE Start
  <2>1. UNCHANGED <<errors, restartCount>> /\ actors' = << NewActor >>
    BY <1>3 DEF Start
  <2>2. actor' = 1 /\ actors' # << >>
    BY <2>1 DEF actor
  <2> QED
    BY <1>2, <2>1, <2>2 DEF Counted, Reported, Spawned, Begun
<1>4. CASE ActorStep
  <2>1. /\ actors # << >> /\ actor' = actor /\ restartCount' \in {restartCount, 0} /\ actors' \in Seq(Actor)
        /\ \/ UNCHANGED errors
           \/ \E h \in Handlers :
                /\ errors[h].pc = "none"
                /\ errors' = [errors EXCEPT ![h] = [pc |-> "queued", awaits |-> actorRestartPromise,
                                                    actor |-> 0]]
    BY <1>4, ActorStepEffect
  <2>2. Spawned' = Spawned /\ Begun' = Begun
    BY <1>1, <2>1 DEF Spawned, Begun
  <2>3. actors' # << >>
    BY <1>1, <2>1 DEF actor
  <2> QED
    BY <1>1, <1>2, <2>1, <2>2, <2>3 DEF Counted
<1>5. ASSUME NEW h \in Handlers, HandlerStep(h)
      PROVE  Counted'
  <2>1. /\ errors[h].pc # "none"
        /\ errors'[h].pc \notin {"none", "queued"}
        /\ errors' \in [Handlers -> Handling]
        /\ \A g \in Handlers : g # h => errors'[g] = errors[g]
        /\ actors' \in Seq(Actor)
        /\ actor' = IF Spawn(h) THEN actor + 1 ELSE actor
    BY <1>5, HandlerStepEffect
  <2>2. actors # << >> /\ actors' # << >>
    <3>1. h \in Reported
      BY <2>1 DEF Reported
    <3>2. actor' # 0
      BY <1>1, <2>1, <3>1 DEF Counted
    <3> QED
      BY <3>1, <3>2 DEF Counted, actor
  <2>3. actor' <= Cardinality(Spawned') + 1
    <3>1. CASE Spawn(h)
      <4>1. errors[h].pc = "stopping" /\ errors'[h].pc = "starting"
        BY <1>1, <3>1 DEF Spawn, Handling
      <4>2. Spawned' = Spawned \cup {h} /\ h \notin Spawned
        BY <1>1, <2>1, <4>1 DEF Spawned
      <4> QED
        BY <1>1, <1>2, <2>1, <3>1, <4>2 DEF Counted
    <3>2. CASE ~ Spawn(h)
      <4>1. h \in Spawned => h \in Spawned'
        BY <1>1, <1>5, <3>2 DEF Spawned, HandlerStep, Restart, Stop, Started, GiveUp, Handling
      <4>2. Spawned' \in SUBSET Handlers /\ Spawned \subseteq Spawned'
        BY <1>1, <2>1, <4>1 DEF Spawned
      <4>3. Cardinality(Spawned) <= Cardinality(Spawned') /\ Cardinality(Spawned') \in Int
        BY <4>2, HandlersCounted, GuardianAssumption
      <4> QED
        BY <1>1, <1>2, <2>1, <3>2, <4>3 DEF Counted
    <3> QED
      BY <3>1, <3>2
  <2>4. restartCount' <= Cardinality(Begun')
    <3>1. Begun' = Begun \cup {h}
      BY <1>1, <2>1 DEF Begun
    <3>2. CASE Restart(h)
      <4>1. h \notin Begun /\ restartCount' = restartCount + 1
        BY <3>2 DEF Restart, Begun
      <4> QED
        BY <1>1, <1>2, <3>1, <4>1 DEF Counted
    <3>3. CASE ~ Restart(h)
      <4>1. restartCount' = restartCount
        BY <1>5, <3>3 DEF HandlerStep, Stop, Started, Spawn, GiveUp
      <4>2. h \in Begun
        BY <1>5, <3>3 DEF HandlerStep, Stop, Started, Spawn, GiveUp, Begun
      <4>3. Begun' = Begun
        BY <3>1, <4>2
      <4> QED
        BY <4>1, <4>3 DEF Counted
    <3> QED
      BY <3>2, <3>3
  <2> QED
    BY <2>2, <2>3, <2>4 DEF Counted
<1>6. CASE DisposeStep
  <2>1. UNCHANGED <<errors, restartCount>> /\ actor' = actor /\ actors' \in Seq(Actor)
    BY <1>6, DisposeStepEffect
  <2>2. actors # << >> => actors' # << >>
    BY <1>1, <2>1 DEF actor
  <2> QED
    BY <2>1, <2>2 DEF Counted, Reported, Spawned, Begun
<1>7. CASE UNCHANGED vars
  BY <1>7 DEF vars, Counted, Reported, Spawned, Begun, actor
<1> QED
  BY <1>3, <1>4, <1>5, <1>6, <1>7, Steps

\* Every step keeps the types.
LEMMA TypeInductive == TypeOK /\ Counted /\ [Next]_vars => TypeOK'
<1> SUFFICES ASSUME TypeOK, Counted, [Next]_vars
             PROVE  TypeOK'
  OBVIOUS
<1>1. /\ actors \in Seq(Actor) /\ actor \in Nat
      /\ errors \in [Handlers -> Handling]
      /\ disposing \in 0 .. actor /\ actorRestartPromise \in 0 .. MaxErrors
      /\ disposal \in {"no", "awaiting", "stopping", "resolved"}
      /\ restartCount \in 0 .. MaxErrors /\ MaxErrors \in Nat
  BY ActorTypes, GuardianAssumption DEF TypeOK
<1>2. exhausted \in BOOLEAN /\ calm \in BOOLEAN
  BY DEF TypeOK
<1> DEFINE Typed ==
             /\ actors' \in Seq(Actor) /\ errors' \in [Handlers -> Handling]
             /\ disposing' \in 0 .. actor' /\ actorRestartPromise' \in 0 .. MaxErrors
             /\ disposal' \in {"no", "awaiting", "stopping", "resolved"}
             /\ restartCount' \in Nat
<1>3. Typed
  <2>1. CASE Start
    <3>1. actors' = << NewActor >> /\ UNCHANGED <<errors, disposing, actorRestartPromise, disposal, restartCount>>
      BY <2>1 DEF Start
    <3>2. actors' \in Seq(Actor) /\ actor' = 1 /\ actor = 0
      BY <2>1, <3>1 DEF NewActor, Actor, actor, Start
    <3> QED
      BY <1>1, <3>1, <3>2
  <2>2. CASE ActorStep
    <3>1. /\ actors' \in Seq(Actor) /\ actor' = actor
          /\ UNCHANGED <<actorRestartPromise, disposal, disposing>> /\ restartCount' \in {restartCount, 0}
          /\ \/ UNCHANGED errors
             \/ \E h \in Handlers :
                  errors' = [errors EXCEPT ![h] = [pc |-> "queued", awaits |-> actorRestartPromise,
                                                   actor |-> 0]]
      BY <2>2, ActorStepEffect
    <3>2. [pc |-> "queued", awaits |-> actorRestartPromise, actor |-> 0] \in Handling
      <4>1. actorRestartPromise \in Nat
        BY <1>1
      <4> QED
        BY <4>1 DEF Handling
    <3>3. errors' \in [Handlers -> Handling]
      BY <1>1, <3>1, <3>2
    <3> QED
      BY <1>1, <3>1, <3>3
  <2>3. ASSUME NEW h \in Handlers, HandlerStep(h)
        PROVE  Typed
    <3>1. /\ actors' \in Seq(Actor) /\ errors' \in [Handlers -> Handling]
          /\ actor' = IF Spawn(h) THEN actor + 1 ELSE actor
          /\ UNCHANGED <<disposal, disposing>>
      BY <2>3, HandlerStepEffect
    <3>2. /\ actorRestartPromise' \in {actorRestartPromise, h}
          /\ restartCount' \in {restartCount, restartCount + 1}
      BY <2>3 DEF HandlerStep, Restart, Stop, Started, Spawn, GiveUp
    <3>3. h \in 0 .. MaxErrors
      BY <1>1 DEF Handlers
    <3> QED
      BY <1>1, <3>1, <3>2, <3>3
  <2>4. CASE DisposeStep
    BY <1>1, <2>4, DisposeStepEffect
  <2>5. CASE UNCHANGED vars
    BY <1>1, <2>5 DEF vars, actor
  <2> QED
    BY <2>1, <2>2, <2>3, <2>4, <2>5, Steps
<1>4. exhausted' \in BOOLEAN
  BY <1>2, Zenon DEF Next, vars, Start, StartupSucceeds, StartupFails, KeepAlive, ReportError,
     Restart, Stop, Spawn, Started, GiveUp, Dispose, DisposeStops, DisposeEnds
<1>5. calm' \in BOOLEAN
  BY <1>2 DEF Next, vars, Start, StartupSucceeds, StartupFails, KeepAlive, ReportError,
     Restart, Stop, Spawn, Started, GiveUp, Dispose, DisposeStops, DisposeEnds
<1>6. actor' <= Cardinality(Reported') + 1 /\ restartCount' \in 0 .. MaxErrors
  <2>1. Counted'
    BY CountedInductive
  <2>2. /\ Reported' \in SUBSET Handlers /\ Begun' \in SUBSET Handlers
        /\ Spawned' \in SUBSET Reported'
    BY DEF Reported, Spawned, Begun
  <2>3. /\ Cardinality(Spawned') <= Cardinality(Reported')
        /\ Cardinality(Spawned') \in Nat /\ Cardinality(Reported') \in Nat
        /\ Cardinality(Begun') \in 0 .. MaxErrors
    <3>1. Spawned' \in SUBSET Handlers
      BY <2>2
    <3> QED
      BY <1>1, <2>2, <3>1, HandlersCounted
  <2>4. actor' \in Nat
    BY <1>3, LenProperties DEF actor
  <2> QED
    BY <1>1, <1>3, <2>1, <2>3, <2>4 DEF Counted
<1> QED
  BY <1>3, <1>4, <1>5, <1>6, Zenon DEF TypeOK

-----------------------------------------------------------------------------
(***************************************************************************)
(* The queue                                                               *)
(***************************************************************************)

\* What is in a queue of restarts.
LEMMA QueueProperties ==
  ASSUME NEW q \in Seq(Handlers)
  PROVE  /\ Len(q) \in Nat /\ DOMAIN q = 1 .. Len(q)
         /\ \A i \in 1 .. Len(q) : q[i] \in Handlers /\ q[i] # 0
         /\ q # << >> <=> Len(q) # 0
BY LenProperties, ElementOfSeq, EmptySeq, GuardianAssumption DEF Handlers

\* A restart that has gone past its await is the first.
LEMMA FirstInQueue ==
  ASSUME NEW q, Queue(q), NEW h \in Handlers,
         \/ errors[h].pc \in {"stopping", "starting"}
         \/ errors[h].pc = "waiting" /\ Settled(errors[h].awaits)
  PROVE  Len(q) # 0 /\ q[1] = h
<1>1. /\ q \in Seq(Handlers) /\ Len(q) \in Nat
      /\ \A i \in 1 .. Len(q) : q[i] \in Handlers /\ q[i] # 0
  BY QueueProperties DEF Queue
<1>2. PICK i \in 1 .. Len(q) : q[i] = h
  BY DEF Queue, InProgress
<1>3. ASSUME i # 1
      PROVE  FALSE
  <2>1. i \in 2 .. Len(q) /\ i - 1 \in 1 .. Len(q)
    BY <1>1, <1>2, <1>3
  <2>2. errors[h].pc = "waiting" /\ errors[h].awaits = q[i - 1]
    BY <1>2, <2>1 DEF Queue
  <2>3. q[i - 1] \in Handlers /\ q[i - 1] # 0
    BY <1>1, <2>1
  <2>4. errors[q[i - 1]].pc \in InProgress
    BY <2>1, <2>3 DEF Queue
  <2> QED
    BY <2>2, <2>3, <2>4 DEF Settled, InProgress
<1> QED
  BY <1>1, <1>2, <1>3

\* Nothing that goes on in the queue changes who is in it, or awaits whom.
LEMMA SameQueue ==
  ASSUME TypeOK, NEW q, Queue(q), UNCHANGED actorRestartPromise,
         \A h \in Handlers : errors'[h].pc \in InProgress <=> errors[h].pc \in InProgress,
         \A h \in Handlers : errors[h].pc = "waiting" =>
           errors'[h] = errors[h] \/ (Len(q) # 0 /\ q[1] = h),
         \A h \in Handlers : errors[h].pc = "done" => errors'[h].pc = "done"
  PROVE  Queue(q)'
<1>1. /\ q \in Seq(Handlers) /\ Len(q) \in Nat
      /\ \A i \in 1 .. Len(q) : q[i] \in Handlers
      /\ \A i, j \in 1 .. Len(q) : q[i] = q[j] => i = j
  BY QueueProperties DEF Queue
<1>2. \A h \in Handlers : errors'[h].pc \in InProgress <=> \E i \in 1 .. Len(q) : q[i] = h
  BY DEF Queue
<1>3. ASSUME NEW i \in 2 .. Len(q)
      PROVE  errors'[q[i]].pc = "waiting" /\ errors'[q[i]].awaits = q[i - 1]
  <2>1. i \in 1 .. Len(q) /\ 1 \in 1 .. Len(q) /\ i # 1
    BY <1>1
  <2>2. q[i] # q[1] /\ q[i] \in Handlers
    BY <1>1, <2>1
  <2>3. errors[q[i]].pc = "waiting" /\ errors[q[i]].awaits = q[i - 1]
    BY DEF Queue
  <2> QED
    BY <2>2, <2>3
<1>4. Len(q) # 0 => actorRestartPromise' = q[Len(q)]
  BY DEF Queue
<1>5. Len(q) = 0 => (actorRestartPromise' # 0 => errors'[actorRestartPromise'].pc = "done")
  <2> SUFFICES ASSUME Len(q) = 0, actorRestartPromise # 0
               PROVE  errors'[actorRestartPromise].pc = "done"
    OBVIOUS
  <2>1. errors[actorRestartPromise].pc = "done" /\ actorRestartPromise \in Handlers
    BY GuardianAssumption DEF Queue, Settled, TypeOK, Handlers
  <2> QED
    BY <2>1
<1> QED
  BY <1>1, <1>2, <1>3, <1>4, <1>5 DEF Queue, Settled

\* A restart that is begun is the last of the queue.
LEMMA RestartQueues ==
  ASSUME TypeOK, NEW q, Queue(q), NEW h \in Handlers, Restart(h), ~ exhausted'
  PROVE  Queue(Append(q, h))' /\ errors'[h].pc = "waiting"
<1> DEFINE n == Len(q)
           t == Append(q, h)
<1>1. /\ q \in Seq(Handlers) /\ n \in Nat
      /\ \A i \in 1 .. n : q[i] \in Handlers
      /\ \A i, j \in 1 .. n : q[i] = q[j] => i = j
  BY QueueProperties DEF Queue
<1>2. /\ t \in Seq(Handlers) /\ Len(t) = n + 1
      /\ \A i \in 1 .. n : t[i] = q[i]
      /\ t[n + 1] = h
  BY <1>1, AppendProperties
<1>3. /\ errors[h].pc = "queued" /\ actorRestartPromise' = h
      /\ errors' = [errors EXCEPT ![h] = [pc |-> "waiting", awaits |-> actorRestartPromise, actor |-> 0]]
  BY DEF Restart
<1>4. /\ errors'[h].pc = "waiting" /\ errors'[h].awaits = actorRestartPromise
      /\ \A g \in Handlers : g # h => errors'[g] = errors[g]
  BY <1>3, ActorTypes
<1>5. \A i \in 1 .. n : q[i] # h /\ errors[q[i]].pc \in InProgress
  BY <1>1, <1>3 DEF Queue, InProgress
<1> HIDE DEF n, t
<1>6. \A i, j \in 1 .. n + 1 : t[i] = t[j] => i = j
  <2> SUFFICES ASSUME NEW i \in 1 .. n + 1, NEW j \in 1 .. n + 1, t[i] = t[j]
               PROVE  i = j
    OBVIOUS
  <2>1. (i \in 1 .. n \/ i = n + 1) /\ (j \in 1 .. n \/ j = n + 1)
    BY <1>1
  <2> QED
    BY <1>1, <1>2, <1>5, <2>1
<1>7. ASSUME NEW g \in Handlers
      PROVE  errors'[g].pc \in InProgress <=> \E i \in 1 .. n + 1 : t[i] = g
  <2>1. CASE g = h
    <3>1. n + 1 \in 1 .. n + 1
      BY <1>1
    <3> QED
      BY <1>2, <1>4, <2>1, <3>1 DEF InProgress
  <2>2. CASE g # h
    <3>1. errors'[g].pc \in InProgress <=> \E i \in 1 .. n : q[i] = g
      BY <1>4, <2>2 DEF Queue, n
    <3>2. \A i \in 1 .. n + 1 : i \in 1 .. n \/ (i = n + 1 /\ t[i] # g)
      BY <1>1, <1>2, <2>2
    <3>3. \A i \in 1 .. n : i \in 1 .. n + 1
      BY <1>1
    <3> QED
      BY <1>2, <3>1, <3>2, <3>3
  <2> QED
    BY <2>1, <2>2
<1>8. ASSUME NEW i \in 2 .. n + 1
      PROVE  errors'[t[i]].pc = "waiting" /\ errors'[t[i]].awaits = t[i - 1]
  <2>1. CASE i = n + 1
    <3>1. n # 0 /\ n \in 1 .. n /\ i - 1 = n
      BY <1>1, <2>1
    <3>2. actorRestartPromise = q[n]
      BY <3>1 DEF Queue, n
    <3> QED
      BY <1>2, <1>4, <2>1, <3>1, <3>2
  <2>2. CASE i # n + 1
    <3>1. i \in 2 .. n /\ i \in 1 .. n /\ i - 1 \in 1 .. n
      BY <1>1, <2>2
    <3>2. errors[q[i]].pc = "waiting" /\ errors[q[i]].awaits = q[i - 1]
      BY <3>1 DEF Queue, n
    <3>3. errors'[q[i]] = errors[q[i]]
      BY <1>1, <1>4, <1>5, <3>1
    <3> QED
      BY <1>2, <3>1, <3>2, <3>3
  <2> QED
    BY <2>1, <2>2
<1>9. Len(t) # 0 /\ actorRestartPromise' = t[Len(t)]
  BY <1>1, <1>2, <1>3
<1>10. Queue(t)'
  BY <1>2, <1>6, <1>7, <1>8, <1>9 DEF Queue
<1> QED
  BY <1>4, <1>10 DEF t

\* A restart that is over was the first; the next one may go past its await.
LEMMA StartedDequeues ==
  ASSUME TypeOK, NEW q, Queue(q), NEW h \in Handlers, Started(h)
  PROVE  Tail(q) \in Seq(Handlers) /\ Queue(Tail(q))'
<1> DEFINE n == Len(q)
           t == Tail(q)
<1>1. /\ q \in Seq(Handlers) /\ n \in Nat
      /\ \A i \in 1 .. n : q[i] \in Handlers
      /\ \A i, j \in 1 .. n : q[i] = q[j] => i = j
      /\ q # << >> <=> n # 0
  BY QueueProperties DEF Queue
<1>2. /\ errors[h].pc = "starting" /\ UNCHANGED actorRestartPromise
      /\ errors' = [errors EXCEPT ![h].pc = "done"]
  BY DEF Started
<1>3. n # 0 /\ q[1] = h
  BY <1>2, FirstInQueue
<1>4. /\ errors'[h].pc = "done"
      /\ \A g \in Handlers : g # h => errors'[g] = errors[g]
  BY <1>2, ActorTypes DEF Handling
<1>5. /\ t \in Seq(Handlers) /\ Len(t) = n - 1
      /\ \A i \in 1 .. n - 1 : t[i] = q[i + 1]
  BY <1>1, <1>3, HeadTailProperties
<1> HIDE DEF n, t
<1>6. \A i \in 1 .. n - 1 : i + 1 \in 1 .. n /\ i + 1 # 1
  BY <1>1
<1>7. \A i, j \in 1 .. n - 1 : t[i] = t[j] => i = j
  BY <1>1, <1>5, <1>6
<1>8. ASSUME NEW g \in Handlers
      PROVE  errors'[g].pc \in InProgress <=> \E i \in 1 .. n - 1 : t[i] = g
  <2>1. CASE g = h
    <3>1. \A i \in 1 .. n - 1 : t[i] # h
      BY <1>1, <1>3, <1>5, <1>6
    <3> QED
      BY <1>4, <2>1, <3>1 DEF InProgress
  <2>2. CASE g # h
    <3>1. errors'[g].pc \in InProgress <=> \E i \in 1 .. n : q[i] = g
      BY <1>4, <2>2 DEF Queue, n
    <3>2. \A i \in 1 .. n : q[i] = g => i - 1 \in 1 .. n - 1 /\ i = (i - 1) + 1
      BY <1>1, <1>3, <2>2
    <3> QED
      BY <1>5, <1>6, <3>1, <3>2
  <2> QED
    BY <2>1, <2>2
<1>9. ASSUME NEW i \in 2 .. n - 1
      PROVE  errors'[t[i]].pc = "waiting" /\ errors'[t[i]].awaits = t[i - 1]
  <2>1. /\ i \in 1 .. n - 1 /\ i - 1 \in 1 .. n - 1 /\ i + 1 \in 2 .. n /\ (i + 1) - 1 = i
        /\ (i - 1) + 1 = i /\ i + 1 \in 1 .. n /\ i \in 1 .. n
    BY <1>1
  <2>2. errors[q[i + 1]].pc = "waiting" /\ errors[q[i + 1]].awaits = q[i]
    BY <2>1 DEF Queue, n
  <2>3. t[i] = q[i + 1] /\ t[i - 1] = q[i]
    BY <1>5, <2>1
  <2>4. q[i + 1] \in Handlers /\ q[i + 1] # h
    BY <1>1, <1>3, <1>6, <2>1
  <2> QED
    BY <1>4, <2>2, <2>3, <2>4
<1>10. actorRestartPromise' = q[n]
  BY <1>2, <1>3 DEF Queue, n
<1>11. n - 1 # 0 => actorRestartPromise' = t[n - 1]
  BY <1>1, <1>3, <1>5, <1>10
<1>12. n - 1 = 0 => (actorRestartPromise' # 0 => errors'[actorRestartPromise'].pc = "done")
  BY <1>1, <1>3, <1>4, <1>10
<1>13. Queue(t)'
  BY <1>5, <1>7, <1>8, <1>9, <1>11, <1>12 DEF Queue, Settled
<1> QED
  BY <1>5, <1>13 DEF t

\* Until restarts are exhausted, those in progress stay a queue.
LEMMA QueuedInductive == TypeOK /\ Queued /\ [Next]_vars => Queued'
<1> SUFFICES ASSUME TypeOK, Queued, [Next]_vars, ~ exhausted'
             PROVE  /\ \A h \in Handlers : errors'[h].pc # "giving up"
                    /\ \E q \in Seq(Handlers) : Queue(q)'
  BY DEF Queued
<1>1. ~ exhausted
  BY DEF Next, vars, Start, StartupSucceeds, StartupFails, KeepAlive, ReportError,
     Restart, Stop, Spawn, Started, GiveUp, Dispose, DisposeStops, DisposeEnds
<1>2. \A h \in Handlers : errors[h].pc # "giving up"
  BY <1>1 DEF Queued
<1>3. PICK q \in Seq(Handlers) : Queue(q)
  BY <1>1 DEF Queued
<1>4. errors \in [Handlers -> Handling]
  BY ActorTypes
<1>5. CASE Start \/ DisposeStep \/ UNCHANGED vars
  <2>1. UNCHANGED <<errors, actorRestartPromise>>
    BY <1>5, DisposeStepEffect DEF Start, vars
  <2> QED
    BY <1>2, <1>3, <2>1, SameQueue
<1>6. CASE ActorStep
  <2>1. /\ UNCHANGED actorRestartPromise
        /\ \/ UNCHANGED errors
           \/ \E h \in Handlers :
                /\ errors[h].pc = "none"
                /\ errors' = [errors EXCEPT ![h] = [pc |-> "queued", awaits |-> actorRestartPromise,
                                                    actor |-> 0]]
    BY <1>6, ActorStepEffect
  <2>2. \A h \in Handlers : errors'[h] = errors[h] \/ (errors[h].pc = "none" /\ errors'[h].pc = "queued")
    BY <1>4, <2>1
  <2>3. Queue(q)'
    BY <1>3, <2>1, <2>2, SameQueue DEF InProgress
  <2> QED
    BY <1>2, <1>3, <2>2, <2>3
<1>7. ASSUME NEW h \in Handlers, HandlerStep(h)
      PROVE  /\ \A g \in Handlers : errors'[g].pc # "giving up"
             /\ \E t \in Seq(Handlers) : Queue(t)'
  <2>1. \A g \in Handlers : g # h => errors'[g] = errors[g]
    BY <1>7, HandlerStepEffect
  <2>2. CASE Restart(h)
    <3>1. Queue(Append(q, h))' /\ errors'[h].pc = "waiting"
      BY <1>3, <2>2, RestartQueues
    <3>2. Append(q, h) \in Seq(Handlers)
      BY AppendProperties
    <3> QED
      BY <1>2, <2>1, <3>1, <3>2
  <2>3. CASE Stop(h)
    <3>1. /\ errors[h].pc = "waiting" /\ Settled(errors[h].awaits) /\ errors'[h].pc = "stopping"
          /\ UNCHANGED actorRestartPromise
      BY <1>4, <2>3 DEF Stop, Handling
    <3>2. Len(q) # 0 /\ q[1] = h
      BY <1>3, <3>1, FirstInQueue
    <3>3. Queue(q)'
      BY <1>3, <2>1, <3>1, <3>2, SameQueue DEF InProgress
    <3> QED
      BY <1>2, <2>1, <3>1, <3>3
  <2>4. CASE Spawn(h)
    <3>1. errors[h].pc = "stopping" /\ errors'[h].pc = "starting" /\ UNCHANGED actorRestartPromise
      BY <1>4, <2>4 DEF Spawn, Handling
    <3>2. Queue(q)'
      BY <1>3, <2>1, <3>1, SameQueue DEF InProgress
    <3> QED
      BY <1>2, <2>1, <3>1, <3>2
  <2>5. CASE Started(h)
    <3>1. errors'[h].pc = "done"
      BY <1>4, <2>5 DEF Started, Handling
    <3>2. Tail(q) \in Seq(Handlers) /\ Queue(Tail(q))'
      BY <1>3, <2>5, StartedDequeues
    <3> QED
      BY <1>2, <2>1, <3>1, <3>2
  <2>6. CASE GiveUp(h)
    BY <1>2, <2>6 DEF GiveUp
  <2> QED
    BY <1>7, <2>2, <2>3, <2>4, <2>5, <2>6 DEF HandlerStep
<1> QED
  BY <1>5, <1>6, <1>7, Steps

-----------------------------------------------------------------------------
(***************************************************************************)
(* The actors that are not down                                            *)
(***************************************************************************)

\* An actor is spawned only when the current one is down.
LEMMA OthersDownInductive == TypeOK /\ Counted /\ Queued /\ OthersDown /\ [Next]_vars => OthersDown'
<1> SUFFICES ASSUME TypeOK, Counted, Queued, OthersDown, [Next]_vars, ~ exhausted'
             PROVE  /\ \A h \in Handlers : errors'[h].pc = "stopping" => errors'[h].actor = actor'
                    /\ Alive' \subseteq {actor'}
  BY DEF OthersDown
<1>1. ~ exhausted
  BY DEF Next, vars, Start, StartupSucceeds, StartupFails, KeepAlive, ReportError,
     Restart, Stop, Spawn, Started, GiveUp, Dispose, DisposeStops, DisposeEnds
<1>2. /\ \A h \in Handlers : errors[h].pc = "stopping" => errors[h].actor = actor
      /\ \A a \in 1 .. actor : ~ actors[a].isDown => a = actor
      /\ actors \in Seq(Actor) /\ actor \in Nat /\ DOMAIN actors = 1 .. actor
      /\ actors = << >> <=> actor = 0
      /\ errors \in [Handlers -> Handling]
  BY <1>1, ActorTypes DEF OthersDown, Alive
<1>3. CASE Start
  <2>1. actors = << >> /\ actors' = << NewActor >> /\ UNCHANGED errors
    BY <1>3 DEF Start
  <2>2. \A h \in Handlers : errors[h].pc = "none"
    BY <2>1 DEF Counted, Reported
  <2>3. actor' = 1 /\ DOMAIN actors' = {1}
    BY <2>1 DEF actor
  <2> QED
    BY <2>1, <2>2, <2>3 DEF Alive
<1>4. CASE ActorStep
  <2>1. /\ actor' = actor /\ Alive' = Alive
        /\ \/ UNCHANGED errors
           \/ \E h \in Handlers :
                errors' = [errors EXCEPT ![h] = [pc |-> "queued", awaits |-> actorRestartPromise,
                                                 actor |-> 0]]
    BY <1>4, ActorStepEffect
  <2>2. \A h \in Handlers : errors'[h] = errors[h] \/ errors'[h].pc = "queued"
    BY <1>2, <2>1
  <2>3. Alive \subseteq {actor}
    BY <1>1 DEF OthersDown
  <2> QED
    BY <1>2, <2>1, <2>2, <2>3
<1>5. ASSUME NEW h \in Handlers, HandlerStep(h)
      PROVE  /\ \A g \in Handlers : errors'[g].pc = "stopping" => errors'[g].actor = actor'
             /\ Alive' \subseteq {actor'}
  <2>1. /\ \A g \in Handlers : g # h => errors'[g] = errors[g]
        /\ actors' \in Seq(Actor)
        /\ actor' = IF Spawn(h) THEN actor + 1 ELSE actor
        /\ \A a \in 1 .. actor : ~ actors'[a].isDown => ~ actors[a].isDown
        /\ Spawn(h) => \A a \in 1 .. actor : ~ actors'[a].isDown => a # errors[h].actor
    BY <1>5, HandlerStepEffect
  <2>2. DOMAIN actors' = 1 .. actor'
    BY <2>1, LenProperties DEF actor
  <2>3. CASE Spawn(h)
    <3>1. errors[h].pc = "stopping" /\ errors'[h].pc = "starting"
      BY <1>2, <2>3 DEF Spawn, Handling
    <3>2. errors[h].actor = actor /\ actor' = actor + 1
      BY <1>2, <2>1, <2>3, <3>1
    <3>3. \A a \in 1 .. actor + 1 : a \in 1 .. actor \/ a = actor + 1
      BY <1>2
    <3>4. Alive' \subseteq {actor'}
      BY <1>2, <2>1, <2>2, <2>3, <3>2, <3>3 DEF Alive
    <3>5. ASSUME NEW g \in Handlers, errors'[g].pc = "stopping"
          PROVE  FALSE
      <4>1. g # h /\ errors[g].pc = "stopping"
        BY <2>1, <3>1, <3>5
      <4>2. PICK q : Queue(q)
        BY <1>1 DEF Queued
      <4>3. q[1] = g /\ q[1] = h
        BY <3>1, <4>1, <4>2, FirstInQueue
      <4> QED
        BY <4>1, <4>3
    <3> QED
      BY <3>4, <3>5
  <2>4. CASE ~ Spawn(h)
    <3>1. Alive' \subseteq {actor'}
      BY <1>2, <2>1, <2>2, <2>4 DEF Alive
    <3>2. errors'[h].pc = "stopping" => errors'[h].actor = actor
      <4>1. CASE Restart(h)
        <5>1. CASE restartCount + 1 >= MaxRestarts
          BY <1>2, <4>1, <5>1 DEF Restart
        <5>2. CASE ~ restartCount + 1 >= MaxRestarts
          <6>1. errors' = [errors EXCEPT ![h] = [pc |-> "waiting", awaits |-> actorRestartPromise, actor |-> 0]]
            BY <4>1, <5>2 DEF Restart
          <6> QED
            BY <1>2, <6>1
        <5> QED
          BY <5>1, <5>2
      <4>2. CASE Stop(h)
        BY <1>2, <4>2 DEF Stop, Handling
      <4>3. CASE Started(h)
        BY <1>2, <4>3 DEF Started, Handling
      <4>4. CASE GiveUp(h)
        BY <1>2, <4>4 DEF GiveUp, Handling
      <4> QED
        BY <1>5, <2>4, <4>1, <4>2, <4>3, <4>4 DEF HandlerStep
    <3> QED
      BY <1>2, <2>1, <2>4, <3>1, <3>2
  <2> QED
    BY <2>3, <2>4
<1>6. CASE DisposeStep
  <2>1. /\ UNCHANGED errors /\ actor' = actor /\ actors' \in Seq(Actor)
        /\ \A a \in 1 .. actor : ~ actors'[a].isDown => ~ actors[a].isDown
    BY <1>6, DisposeStepEffect
  <2>2. DOMAIN actors' = 1 .. actor
    BY <2>1, LenProperties DEF actor
  <2> QED
    BY <1>2, <2>1, <2>2 DEF Alive
<1>7. CASE UNCHANGED vars
  BY <1>1, <1>7 DEF vars, OthersDown, Alive, actor
<1> QED
  BY <1>3, <1>4, <1>5, <1>6, <1>7, Steps

\* Once disposed of, the guardian ignores errors: if there were none it goes down
\* with the actor that was the last.
LEMMA CalmInductive == TypeOK /\ OthersDown /\ CalmStays /\ [Next]_vars => CalmStays'
<1> SUFFICES ASSUME TypeOK, OthersDown, CalmStays, [Next]_vars
             PROVE  CalmStays'
  OBVIOUS
<1> USE DEF disposed
<1>1. /\ actors \in Seq(Actor) /\ actor \in Nat /\ DOMAIN actors = 1 .. actor
      /\ errors \in [Handlers -> Handling]
      /\ actors = << >> <=> actor = 0
  BY ActorTypes
<1>2. CASE Start
  BY <1>2 DEF Start, CalmStays
<1>3. CASE ActorStep
  <2>1. /\ actor' = actor /\ Alive' = Alive
        /\ UNCHANGED <<exhausted, disposal, disposing, calm>>
        /\ UNCHANGED errors \/ ~ disposed
    BY <1>3, ActorStepEffect
  <2> QED
    BY <2>1 DEF CalmStays, Handled
<1>4. ASSUME NEW h \in Handlers, HandlerStep(h)
      PROVE  CalmStays'
  <2>1. /\ errors[h].pc \notin {"none", "done"}
        /\ UNCHANGED <<disposal, calm>>
    BY <1>4, HandlerStepEffect
  <2> QED
    BY <2>1 DEF CalmStays, Handled
<1>5. CASE Dispose
  <2>1. /\ disposal' = IF actors = << >> THEN "resolved" ELSE "awaiting"
        /\ calm' = (Handled /\ ~ exhausted)
        /\ UNCHANGED <<actors, errors, exhausted>>
    BY <1>5 DEF Dispose
  <2>2. actors = << >> => Alive' = {}
    BY <1>1, <2>1 DEF Alive
  <2>3. Handled' = Handled
    BY <2>1 DEF Handled
  <2> QED
    BY <2>1, <2>2, <2>3 DEF CalmStays
<1>6. CASE DisposeStops
  BY <1>6 DEF DisposeStops, CalmStays, Handled, actor
<1>7. CASE DisposeEnds
  <2>1. /\ disposal = "stopping" /\ disposal' = "resolved" /\ UNCHANGED <<errors, exhausted, calm>>
        /\ actors' \in Seq(Actor) /\ actor' = actor
        /\ \A a \in 1 .. actor : ~ actors'[a].isDown => ~ actors[a].isDown /\ a # disposing
    BY <1>7, DisposeStepEffect DEF DisposeEnds, DisposeStep
  <2>2. DOMAIN actors' = 1 .. actor
    BY <2>1, LenProperties DEF actor
  <2> SUFFICES ASSUME calm
               PROVE  Handled /\ ~ exhausted /\ Alive' = {}
    BY <2>1 DEF CalmStays, Handled
  <2>3. Handled /\ ~ exhausted /\ disposing = actor
    BY <2>1 DEF CalmStays
  <2>4. Alive \subseteq {actor}
    BY <2>3 DEF OthersDown
  <2>5. Alive' = {}
    BY <1>1, <2>1, <2>2, <2>3, <2>4 DEF Alive
  <2> QED
    BY <2>3, <2>5
<1>8. CASE UNCHANGED vars
  BY <1>8 DEF vars, CalmStays, Handled, Alive, actor
<1> QED
  BY <1>2, <1>3, <1>4, <1>5, <1>6, <1>7, <1>8, Steps DEF DisposeStep

-----------------------------------------------------------------------------
(***************************************************************************)
(* The theorems about the guardian                                         *)
(***************************************************************************)

\* The inductive invariant holds of every behaviour.
THEOREM Invariance == Spec => []IInv
<1>1. Init => IInv
  <2> SUFFICES ASSUME Init
               PROVE  IInv
    OBVIOUS
  <2>1. /\ \A h \in Handlers : errors[h].pc = "none"
        /\ actor = 0 /\ actors = << >> /\ DOMAIN actors = {} /\ actors \in Seq(Actor)
    BY DEF Init, NoHandling, actor
  <2>2. Reported = {} /\ Begun = {} /\ Spawned = {} /\ Alive = {}
    BY <2>1 DEF Reported, Begun, Spawned, Alive
  <2>3. errors \in [Handlers -> Handling]
    BY DEF Init, NoHandling, Handling
  <2>4. exhausted \in BOOLEAN /\ calm \in BOOLEAN
    BY Zenon DEF Init
  <2>5. TypeOK
    <3>1. actor <= Cardinality(Reported) + 1
      BY <2>1, <2>2, FS_EmptySet
    <3>2. /\ restartCount \in 0 .. MaxErrors /\ actorRestartPromise \in 0 .. MaxErrors
          /\ disposal \in {"no", "awaiting", "stopping", "resolved"} /\ disposing \in 0 .. actor
      BY <2>1, GuardianAssumption DEF Init
    <3> QED
      BY <2>1, <2>3, <2>4, <3>1, <3>2, Zenon DEF TypeOK
  <2>6. Counted
    BY <2>1, <2>2, FS_EmptySet DEF Counted, Init
  <2>7. Queue(<< >>) /\ << >> \in Seq(Handlers)
    BY <2>1 DEF Queue, Init, Settled, InProgress
  <2>8. Queued
    BY <2>1, <2>7 DEF Queued
  <2>9. OthersDown
    BY <2>1, <2>2 DEF OthersDown
  <2>10. CalmStays
    BY DEF CalmStays, disposed, Init
  <2> QED
    BY <2>5, <2>6, <2>8, <2>9, <2>10 DEF IInv
<1>2. IInv /\ [Next]_vars => IInv'
  BY TypeInductive, CountedInductive, QueuedInductive, OthersDownInductive, CalmInductive DEF IInv
<1> QED
  BY <1>1, <1>2, PTL DEF Spec

\* One actor at a time, however the errors come, until restarts are exhausted.
LEMMA InvariantMeansOneActor == IInv => OneActorUntilExhausted
<1> SUFFICES ASSUME IInv, ~ exhausted
             PROVE  Cardinality(Alive) <= 1
  BY DEF OneActorUntilExhausted
<1>1. Alive \subseteq {actor}
  BY DEF IInv, OthersDown
<1>2. IsFiniteSet({actor}) /\ Cardinality({actor}) = 1
  BY FS_Singleton
<1> QED
  BY <1>1, <1>2, FS_Subset

\* Every variable of the guardian has its type.
THEOREM TypeCorrect == Spec => []TypeOK
BY Invariance, PTL DEF IInv

\* Until restarts are exhausted an actor is spawned only once the one before it
\* is down.
THEOREM OneActor == Spec => []OneActorUntilExhausted
BY Invariance, InvariantMeansOneActor, PTL

\* Nothing is left of a guardian that is disposed of in a calm moment.
THEOREM CalmDispose == Spec => []CalmDisposeShutsDown
<1>1. IInv => CalmDisposeShutsDown
  BY DEF IInv, CalmStays, disposed, CalmDisposeShutsDown
<1> QED
  BY <1>1, Invariance, PTL

-----------------------------------------------------------------------------
(***************************************************************************)
(* The notifier is a guardian                                              *)
(***************************************************************************)

\* Every step of the notifier is one of the guardian, or one of the connections and
\* notifications alone.
LEMMA NotifierSteps ==
  NotifierNext =>
    \/ GuardianStep /\ Ended
    \/ \E a \in DOMAIN actors : StartupSucceeds(a) /\ UNCHANGED server
    \/ \E a \in DOMAIN actors : StartupFails(a) /\ (Fault \/ NoFault) /\ UNCHANGED <<connection, committed, sent, heard>>
    \/ \E a \in DOMAIN actors : KeepAlive(a) /\ UNCHANGED server
    \/ \E a \in DOMAIN actors : ReportBroken(a)
    \/ \E a \in DOMAIN actors : ReportOther(a)
    \/ UNCHANGED vars /\ ((\E a \in DOMAIN actors : Listen(a) \/ Break(a) \/ Notify(a)) \/ Commit)
<1> SUFFICES ASSUME NotifierNext
             PROVE  \/ GuardianStep /\ Ended
                    \/ \E a \in DOMAIN actors : StartupSucceeds(a) /\ UNCHANGED server
                    \/ \E a \in DOMAIN actors : StartupFails(a) /\ (Fault \/ NoFault)
                                                /\ UNCHANGED <<connection, committed, sent, heard>>
                    \/ \E a \in DOMAIN actors : KeepAlive(a) /\ UNCHANGED server
                    \/ \E a \in DOMAIN actors : ReportBroken(a)
                    \/ \E a \in DOMAIN actors : ReportOther(a)
                    \/ UNCHANGED vars /\ ((\E a \in DOMAIN actors : Listen(a) \/ Break(a) \/ Notify(a)) \/ Commit)
  OBVIOUS
<1>1. CASE GuardianStep /\ Ended
  BY <1>1
<1>2. ASSUME NEW a \in DOMAIN actors, Startup(a)
      PROVE  StartupSucceeds(a) /\ UNCHANGED server
  BY <1>2 DEF Startup
<1>3. ASSUME NEW a \in DOMAIN actors, StartupRefused(a)
      PROVE  StartupFails(a) /\ (Fault \/ NoFault) /\ UNCHANGED <<connection, committed, sent, heard>>
  BY <1>3 DEF StartupRefused
<1>4. ASSUME NEW a \in DOMAIN actors, Heartbeat(a)
      PROVE  KeepAlive(a) /\ UNCHANGED server
  BY <1>4 DEF Heartbeat
<1>5. ASSUME NEW a \in DOMAIN actors, Listen(a) \/ Break(a) \/ Notify(a)
      PROVE  UNCHANGED vars
  BY <1>5 DEF Listen, Break, Notify, vars
<1>6. CASE Commit
  BY <1>6 DEF Commit
<1> QED
  BY <1>1, <1>2, <1>3, <1>4, <1>5, <1>6, Zenon DEF NotifierNext

\* What the connections make the actors do, the guardian's actors may do.
LEMMA NotifierStepsAreGuardianSteps == [NotifierNext]_notifierVars => [Next]_vars
<1> SUFFICES ASSUME [NotifierNext]_notifierVars
             PROVE  [Next]_vars
  OBVIOUS
<1>1. CASE NotifierNext
  <2>1. GuardianStep => Next
    BY Zenon DEF GuardianStep, Handle, Next
  <2>2. ASSUME NEW a \in DOMAIN actors, ReportBroken(a) \/ ReportOther(a)
        PROVE  ReportError(a)
    BY <2>2 DEF ReportBroken, ReportOther
  <2> QED
    BY <1>1, <2>1, <2>2, NotifierSteps, Zenon DEF Next
<1>2. CASE UNCHANGED notifierVars
  BY <1>2 DEF notifierVars
<1> QED
  BY <1>1, <1>2

\* The pg-notify notifier runs its client as the guardian promises to.
THEOREM Implements == NotifierSpec => Spec
<1>1. NotifierInit => Init
  BY DEF NotifierInit
<1> QED
  BY <1>1, NotifierStepsAreGuardianSteps, PTL DEF NotifierSpec, Spec

\* However often connections break or are refused, one client is connected at a
\* time until the guardian gives up.
THEOREM NotifierKeepsOneActor == NotifierSpec => []OneActorUntilExhausted
BY Implements, OneActor, PTL

\* A notifier disposed of in a calm moment leaves no client behind.
THEOREM NotifierCalmDispose == NotifierSpec => []CalmDisposeShutsDown
BY Implements, CalmDispose, PTL

-----------------------------------------------------------------------------
(***************************************************************************)
(* The connections                                                         *)
(***************************************************************************)

\* Only a client that is not shut down has a connection, and only what was committed
\* is sent and heard.
Connected ==
  /\ connection \in [Actors -> {"none", "listening", "broken", "reported"}]
  /\ \A a \in Actors : connection[a] # "none" => a \in Alive
  /\ faults \in 0 .. MaxFaults /\ committed \in 0 .. MaxCommits
  /\ sent \subseteq Actors \X (1 .. committed) /\ heard \subseteq 1 .. committed

\* A step of the guardian never forgets an actor.
LEMMA ActorsRemain ==
  ASSUME TypeOK, GuardianStep
  PROVE  DOMAIN actors \subseteq DOMAIN actors'
<1>1. actors \in Seq(Actor) /\ actor \in Nat /\ DOMAIN actors = 1 .. actor /\ (actors = << >> <=> actor = 0)
  BY ActorTypes
<1>2. CASE Start
  BY <1>1, <1>2 DEF Start
<1>3. CASE DisposeStep
  <2>1. actors' \in Seq(Actor) /\ actor' = actor
    BY <1>3, DisposeStepEffect
  <2> QED
    BY <1>1, <2>1, LenProperties DEF actor
<1>4. ASSUME NEW h \in Handlers, HandlerStep(h)
      PROVE  DOMAIN actors \subseteq DOMAIN actors'
  <2>1. actors' \in Seq(Actor) /\ actor' \in {actor, actor + 1}
    BY <1>4, HandlerStepEffect
  <2>2. DOMAIN actors' = 1 .. actor'
    BY <2>1, LenProperties DEF actor
  <2> QED
    BY <1>1, <2>1, <2>2
<1> QED
  BY <1>2, <1>3, <1>4 DEF GuardianStep, Handle, HandlerStep, DisposeStep

\* An actor shut down loses its connection in the same step.
LEMMA ConnectedInductive == TypeOK /\ Connected /\ [NotifierNext]_notifierVars => Connected'
<1> SUFFICES ASSUME TypeOK, Connected, [NotifierNext]_notifierVars
             PROVE  Connected'
  OBVIOUS
<1>1. MaxFaults \in Nat /\ MaxCommits \in Nat /\ committed \in Nat
  BY PgNotifierAssumption DEF Connected
<1>2. CASE GuardianStep /\ Ended
  <2>1. connection' = [a \in Actors |-> IF a \in DOMAIN actors' /\ actors'[a].isDown
                                        THEN "none" ELSE connection[a]]
    BY <1>2 DEF Ended
  <2>2. \A a \in Actors : connection'[a] # "none" => a \in Alive'
    BY <1>2, <2>1, ActorsRemain DEF Connected, Alive
  <2>3. connection' \in [Actors -> {"none", "listening", "broken", "reported"}]
    BY <2>1 DEF Connected
  <2> QED
    BY <1>2, <2>2, <2>3 DEF Ended, Connected
<1>3. ASSUME NEW a \in DOMAIN actors, StartupSucceeds(a) \/ StartupFails(a) \/ KeepAlive(a) \/ ReportError(a),
             faults' \in 0 .. MaxFaults,
             connection' = connection \/ connection' = [connection EXCEPT ![a] = "reported"],
             UNCHANGED <<committed, sent, heard>>,
             a \in Alive \/ UNCHANGED connection
      PROVE  Connected'
  <2>1. Alive' = Alive
    BY <1>3, ActorStepEffect DEF ActorStep
  <2>2. connection' \in [Actors -> {"none", "listening", "broken", "reported"}]
    BY <1>3 DEF Connected
  <2>3. \A b \in Actors : connection'[b] # "none" => b \in Alive'
    BY <1>3, <2>1 DEF Connected
  <2> QED
    BY <1>3, <2>2, <2>3 DEF Connected
<1>4. ASSUME NEW a \in DOMAIN actors, StartupSucceeds(a) /\ UNCHANGED server
      PROVE  Connected'
  BY <1>3, <1>4 DEF server, Connected
<1>5. ASSUME NEW a \in DOMAIN actors, StartupFails(a), Fault \/ NoFault,
             UNCHANGED <<connection, committed, sent, heard>>
      PROVE  Connected'
  <2>1. faults' \in 0 .. MaxFaults
    BY <1>1, <1>5 DEF Fault, NoFault, Connected
  <2> QED
    BY <1>3, <1>5, <2>1
<1>6. ASSUME NEW a \in DOMAIN actors, KeepAlive(a) /\ UNCHANGED server
      PROVE  Connected'
  BY <1>3, <1>6 DEF server, Connected
<1>7. ASSUME NEW a \in DOMAIN actors, ReportBroken(a)
      PROVE  Connected'
  BY <1>3, <1>7 DEF ReportBroken, ReportError, Connected, Alive
<1>8. ASSUME NEW a \in DOMAIN actors, ReportOther(a)
      PROVE  Connected'
  <2>1. faults' \in 0 .. MaxFaults
    BY <1>1, <1>8 DEF ReportOther, Fault, Connected
  <2> QED
    BY <1>3, <1>8, <2>1 DEF ReportOther
<1>9. ASSUME NEW a \in DOMAIN actors, UNCHANGED vars, Listen(a) \/ Break(a) \/ Notify(a)
      PROVE  Connected'
  <2>1. Alive' = Alive
    BY <1>9 DEF vars, Alive
  <2>2. CASE Listen(a)
    BY <2>1, <2>2 DEF Listen, Connected, Alive
  <2>3. CASE Break(a)
    <3>1. faults' \in 0 .. MaxFaults /\ sent' \subseteq sent /\ UNCHANGED <<committed, heard>>
      BY <1>1, <2>3 DEF Break, Fault, Connected
    <3>2. connection' = [connection EXCEPT ![a] = "broken"] /\ connection[a] # "none"
      BY <2>3 DEF Break
    <3>3. /\ connection' \in [Actors -> {"none", "listening", "broken", "reported"}]
          /\ \A b \in Actors : connection'[b] # "none" => b \in Alive
      BY <3>2 DEF Connected
    <3> QED
      BY <2>1, <3>1, <3>3 DEF Connected
  <2>4. CASE Notify(a)
    BY <2>1, <2>4 DEF Notify, Connected
  <2> QED
    BY <1>9, <2>2, <2>3, <2>4
<1>10. CASE UNCHANGED vars /\ Commit
  <2>1. Alive' = Alive /\ UNCHANGED <<connection, faults, heard>>
    BY <1>10 DEF vars, Alive, Commit
  <2>2. committed' = committed + 1 /\ committed' \in 0 .. MaxCommits
    BY <1>1, <1>10 DEF Commit, Connected
  <2>3. 1 .. committed \subseteq 1 .. committed' /\ committed + 1 \in 1 .. committed'
    BY <1>1, <2>2
  <2>4. sent' \subseteq Actors \X (1 .. committed')
    BY <1>10, <2>3 DEF Commit, Connected
  <2> QED
    BY <2>1, <2>2, <2>3, <2>4 DEF Connected
<1>11. CASE UNCHANGED notifierVars
  BY <1>11 DEF notifierVars, server, vars, Connected, Alive
<1> QED
  BY <1>2, <1>4, <1>5, <1>6, <1>7, <1>8, <1>9, <1>10, <1>11, NotifierSteps, Zenon

\* Every variable of the notifier has its type; an actor that is shut down has no
\* connection.
THEOREM NotifierTypeCorrect == NotifierSpec => []NotifierTypeOK
<1>1. NotifierInit => Connected
  BY PgNotifierAssumption DEF NotifierInit, Connected
<1>2. TypeOK /\ Connected <=> NotifierTypeOK
  BY Zenon DEF Connected, NotifierTypeOK
<1> QED
  BY <1>1, <1>2, ConnectedInductive, Implements, TypeCorrect, PTL DEF NotifierSpec

=============================================================================
