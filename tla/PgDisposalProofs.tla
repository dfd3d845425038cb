--------------------------- MODULE PgDisposalProofs ---------------------------
(***************************************************************************)
(* Proofs about disposing of the PostgreSQL store, for any set of calls    *)
(* and any number of tries.                                                *)
(*                                                                         *)
(* The latch is a number that eleven places of the code add to and         *)
(* subtract from.  Behind it is a set of tokens: a call holds one while it *)
(* is under way, the scavenging or purge it leaves behind holds one, and a *)
(* second one while it deletes.  The latch always counts these (Counted),  *)
(* so it never misses a write and never goes below zero, and when it lets  *)
(* dispose go on nobody holds a token.                                     *)
(***************************************************************************)
EXTENDS PgDisposal, FiniteSetTheorems, TLAPS

Tokens == Calls \X {"call", "job", "deletion"}

HeldByCall(w) == Inside(call[w].op) = 1 /\ call[w].pc # "idle"
HeldByJob(w) == job[w] # "none"
HeldByDeletion(w) == job[w] \in {"connecting deletion", "deleting"}

\* The tokens that are held.
Held ==
  {x \in Tokens : \/ x[2] = "call" /\ HeldByCall(x[1])
                  \/ x[2] = "job" /\ HeldByJob(x[1])
                  \/ x[2] = "deletion" /\ HeldByDeletion(x[1])}

Counted == count = Cardinality(Held)

\* A call under way is one of Operations, and has no job yet unless it awaits it.
CallsBeforeJobs ==
  \A w \in Calls :
    /\ call[w].pc # "idle" => call[w].op \in Operations
    /\ call[w].pc \in {"connecting", "running"} => job[w] = "none"
    /\ call[w].pc = "scavenging" => call[w].op \in {"append", "set metadata"}

IInv == TypeOK /\ CallsBeforeJobs /\ Counted

-----------------------------------------------------------------------------
(***************************************************************************)
(* Counting tokens                                                         *)
(***************************************************************************)

\* There are finitely many tokens.
LEMMA HeldIsFinite == IsFiniteSet(Held) /\ Cardinality(Held) \in Nat
<1>1. IsFiniteSet({"call", "job", "deletion"})
  <2>1. IsFiniteSet({"call"})
    BY FS_Singleton
  <2>2. IsFiniteSet({"call"} \cup {"job"})
    BY <2>1, FS_AddElement
  <2>3. IsFiniteSet(({"call"} \cup {"job"}) \cup {"deletion"})
    BY <2>2, FS_AddElement
  <2>4. {"call", "job", "deletion"} = ({"call"} \cup {"job"}) \cup {"deletion"}
    OBVIOUS
  <2> QED
    BY <2>3, <2>4
<1>2. IsFiniteSet(Tokens)
  BY <1>1, PgDisposalAssumption, FS_Product DEF Tokens
<1>3. Held \subseteq Tokens
  BY DEF Held
<1> QED
  BY <1>2, <1>3, FS_Subset, FS_CardinalityType

\* Taking tokens that are not held, and giving back ones that are.
LEMMA Taken ==
  ASSUME NEW S, NEW T, NEW x, NEW y, IsFiniteSet(S), x # y
  PROVE  /\ T = S => Cardinality(T) = Cardinality(S)
         /\ x \notin S /\ T = S \cup {x} => Cardinality(T) = Cardinality(S) + 1
         /\ x \in S /\ T = S \ {x} => Cardinality(T) = Cardinality(S) - 1
         /\ x \notin S /\ y \notin S /\ T = S \cup {x, y} => Cardinality(T) = Cardinality(S) + 2
         /\ x \in S /\ y \in S /\ T = S \ {x, y} => Cardinality(T) = Cardinality(S) - 2
         /\ x \in S /\ y \notin S /\ T = (S \ {x}) \cup {y} => Cardinality(T) = Cardinality(S)
<1>1. /\ Cardinality(S) \in Nat
      /\ IsFiniteSet(S \cup {x}) /\ x \notin S => Cardinality(S \cup {x}) = Cardinality(S) + 1
      /\ IsFiniteSet(S \ {x}) /\ x \in S => Cardinality(S \ {x}) = Cardinality(S) - 1
  BY FS_CardinalityType, FS_AddElement, FS_RemoveElement
<1>2. IsFiniteSet(S \cup {x}) /\ IsFiniteSet(S \ {x})
  BY FS_AddElement, FS_RemoveElement
<1>3. x \notin S /\ y \notin S => Cardinality(S \cup {x, y}) = Cardinality(S) + 2
  <2>1. S \cup {x, y} = (S \cup {x}) \cup {y} /\ (y \notin S => y \notin S \cup {x})
    OBVIOUS
  <2>2. Cardinality((S \cup {x}) \cup {y}) = IF y \in S \cup {x} THEN Cardinality(S \cup {x}) ELSE Cardinality(S \cup {x}) + 1
    BY <1>2, FS_AddElement
  <2> QED
    BY <1>1, <1>2, <2>1, <2>2
<1>4. x \in S /\ y \in S => Cardinality(S \ {x, y}) = Cardinality(S) - 2
  <2>1. S \ {x, y} = (S \ {x}) \ {y} /\ (y \in S => y \in S \ {x})
    OBVIOUS
  <2>2. Cardinality((S \ {x}) \ {y}) = IF y \in S \ {x} THEN Cardinality(S \ {x}) - 1 ELSE Cardinality(S \ {x})
    BY <1>2, FS_RemoveElement
  <2> QED
    BY <1>1, <1>2, <2>1, <2>2
<1>5. x \in S /\ y \notin S => Cardinality((S \ {x}) \cup {y}) = Cardinality(S)
  <2>1. y \notin S => y \notin S \ {x}
    OBVIOUS
  <2>2. Cardinality((S \ {x}) \cup {y}) = IF y \in S \ {x} THEN Cardinality(S \ {x}) ELSE Cardinality(S \ {x}) + 1
    BY <1>2, FS_AddElement
  <2> QED
    BY <1>1, <1>2, <2>1, <2>2
<1> QED
  BY <1>1, <1>2, <1>3, <1>4, <1>5

\* The tokens of one call at a time: a step of call w changes those of w alone.
LEMMA HeldByOthers ==
  ASSUME NEW w \in Calls, TypeOK,
         \A v \in Calls \ {w} : call'[v] = call[v] /\ job'[v] = job[v]
  PROVE  \A x \in Tokens : x[1] # w => (x \in Held' <=> x \in Held)
BY DEF Held, Tokens, HeldByCall, HeldByJob, HeldByDeletion, Inside

\* What w holds, spelled out.
LEMMA HeldBy ==
  ASSUME NEW w \in Calls
  PROVE  /\ <<w, "call">> \in Tokens /\ <<w, "job">> \in Tokens /\ <<w, "deletion">> \in Tokens
         /\ <<w, "call">> \in Held <=> HeldByCall(w)
         /\ <<w, "job">> \in Held <=> HeldByJob(w)
         /\ <<w, "deletion">> \in Held <=> HeldByDeletion(w)
         /\ <<w, "call">> \in Held' <=> HeldByCall(w)'
         /\ <<w, "job">> \in Held' <=> HeldByJob(w)'
         /\ <<w, "deletion">> \in Held' <=> HeldByDeletion(w)'
         /\ \A x \in Tokens : x[1] = w => x \in {<<w, "call">>, <<w, "job">>, <<w, "deletion">>}
         /\ Held \subseteq Tokens /\ Held' \subseteq Tokens
         /\ <<w, "call">> # <<w, "job">> /\ <<w, "job">> # <<w, "deletion">>
BY DEF Held, Tokens

-----------------------------------------------------------------------------
(***************************************************************************)
(* The invariant                                                           *)
(***************************************************************************)

KeepsCall(w) == HeldByCall(w)' <=> HeldByCall(w)
KeepsJob(w) == HeldByJob(w)' <=> HeldByJob(w)
KeepsDeletion(w) == HeldByDeletion(w)' <=> HeldByDeletion(w)

\* The latch changes by n, and so do the tokens of call w.
Balanced(w, n) ==
  \/ n = 0 /\ KeepsCall(w) /\ KeepsJob(w) /\ KeepsDeletion(w)
  \/ n = 1 /\ ~ HeldByCall(w) /\ HeldByCall(w)' /\ KeepsJob(w) /\ KeepsDeletion(w)
  \/ n = -1 /\ HeldByCall(w) /\ ~ HeldByCall(w)' /\ KeepsJob(w) /\ KeepsDeletion(w)
  \/ n = 1 /\ ~ HeldByJob(w) /\ HeldByJob(w)' /\ KeepsCall(w) /\ KeepsDeletion(w)
  \/ n = -1 /\ HeldByJob(w) /\ ~ HeldByJob(w)' /\ KeepsCall(w) /\ KeepsDeletion(w)
  \/ n = 1 /\ ~ HeldByDeletion(w) /\ HeldByDeletion(w)' /\ KeepsCall(w) /\ KeepsJob(w)
  \/ /\ n = 2 /\ ~ HeldByJob(w) /\ ~ HeldByDeletion(w) /\ HeldByJob(w)' /\ HeldByDeletion(w)'
     /\ KeepsCall(w)
  \/ /\ n = -2 /\ HeldByJob(w) /\ HeldByDeletion(w) /\ ~ HeldByJob(w)' /\ ~ HeldByDeletion(w)'
     /\ KeepsCall(w)
  \/ /\ n = 0 /\ HeldByCall(w) /\ ~ HeldByJob(w) /\ ~ HeldByCall(w)' /\ HeldByJob(w)'
     /\ KeepsDeletion(w)

\* A step of call w that changes the latch by as much as the tokens of w.
LEMMA StepCounts ==
  ASSUME NEW w \in Calls, TypeOK, Counted, NEW n \in -2 .. 2, count' = count + n,
         \A v \in Calls \ {w} : call'[v] = call[v] /\ job'[v] = job[v],
         Balanced(w, n)
  PROVE  Counted'
<1> DEFINE C == <<w, "call">>
           J == <<w, "job">>
           D == <<w, "deletion">>
           S == Held
           T == Held'
<1>1. /\ S \subseteq Tokens /\ T \subseteq Tokens /\ C # J /\ J # D
      /\ C \in Tokens /\ J \in Tokens /\ D \in Tokens
      /\ \A x \in Tokens : (x \in T <=> x \in S) \/ x = C \/ x = J \/ x = D
  BY HeldBy, HeldByOthers
<1>2. /\ C \in S <=> HeldByCall(w)
      /\ J \in S <=> HeldByJob(w)
      /\ D \in S <=> HeldByDeletion(w)
      /\ C \in T <=> HeldByCall(w)'
      /\ J \in T <=> HeldByJob(w)'
      /\ D \in T <=> HeldByDeletion(w)'
  BY HeldBy
<1>3. \/ n = 0 /\ T = S
      \/ n = 1 /\ C \notin S /\ T = S \cup {C}
      \/ n = -1 /\ C \in S /\ T = S \ {C}
      \/ n = 1 /\ J \notin S /\ T = S \cup {J}
      \/ n = -1 /\ J \in S /\ T = S \ {J}
      \/ n = 1 /\ D \notin S /\ T = S \cup {D}
      \/ n = 2 /\ J \notin S /\ D \notin S /\ T = S \cup {J, D}
      \/ n = -2 /\ J \in S /\ D \in S /\ T = S \ {J, D}
      \/ n = 0 /\ C \in S /\ J \notin S /\ T = (S \ {C}) \cup {J}
  <2> HIDE DEF C, J, D, S, T
  <2>1. \/ n = 0 /\ (C \in T <=> C \in S) /\ (J \in T <=> J \in S) /\ (D \in T <=> D \in S)
        \/ n = 1 /\ C \notin S /\ C \in T /\ (J \in T <=> J \in S) /\ (D \in T <=> D \in S)
        \/ n = -1 /\ C \in S /\ C \notin T /\ (J \in T <=> J \in S) /\ (D \in T <=> D \in S)
        \/ n = 1 /\ J \notin S /\ J \in T /\ (C \in T <=> C \in S) /\ (D \in T <=> D \in S)
        \/ n = -1 /\ J \in S /\ J \notin T /\ (C \in T <=> C \in S) /\ (D \in T <=> D \in S)
        \/ n = 1 /\ D \notin S /\ D \in T /\ (C \in T <=> C \in S) /\ (J \in T <=> J \in S)
        \/ n = 2 /\ J \notin S /\ D \notin S /\ J \in T /\ D \in T /\ (C \in T <=> C \in S)
        \/ n = -2 /\ J \in S /\ D \in S /\ J \notin T /\ D \notin T /\ (C \in T <=> C \in S)
        \/ n = 0 /\ C \in S /\ J \notin S /\ C \notin T /\ J \in T /\ (D \in T <=> D \in S)
    BY <1>2, Zenon DEF Balanced, KeepsCall, KeepsJob, KeepsDeletion
  <2>2. \A U : U \subseteq Tokens /\ (\A x \in Tokens : x \in T <=> x \in U) => T = U
    BY <1>1
  <2>3. /\ S \cup {C} \subseteq Tokens /\ S \ {C} \subseteq Tokens
        /\ S \cup {J} \subseteq Tokens /\ S \ {J} \subseteq Tokens
        /\ S \cup {D} \subseteq Tokens
        /\ S \cup {J, D} \subseteq Tokens /\ S \ {J, D} \subseteq Tokens
        /\ (S \ {C}) \cup {J} \subseteq Tokens
    BY <1>1
  <2> QED
    BY <1>1, <2>1, <2>2, <2>3
<1>4. IsFiniteSet(S) /\ Cardinality(S) \in Nat /\ count = Cardinality(S)
  BY HeldIsFinite DEF Counted
<1> HIDE DEF C, J, D, S, T
<1>5. Cardinality(T) = Cardinality(S) + n
  <2>1. \A x, y : x # y =>
          /\ T = S => Cardinality(T) = Cardinality(S)
          /\ x \notin S /\ T = S \cup {x} => Cardinality(T) = Cardinality(S) + 1
          /\ x \in S /\ T = S \ {x} => Cardinality(T) = Cardinality(S) - 1
          /\ x \notin S /\ y \notin S /\ T = S \cup {x, y} => Cardinality(T) = Cardinality(S) + 2
          /\ x \in S /\ y \in S /\ T = S \ {x, y} => Cardinality(T) = Cardinality(S) - 2
          /\ x \in S /\ y \notin S /\ T = (S \ {x}) \cup {y} => Cardinality(T) = Cardinality(S)
    BY <1>4, Taken
  <2> QED
    BY <1>1, <1>3, <1>4, <2>1
<1>6. count' = Cardinality(T)
  BY <1>4, <1>5
<1> QED
  BY <1>6 DEF T, Counted

CallTypes == [op : {"append", "set metadata", "delete message", "delete stream", "read"},
              pc : {"idle", "connecting", "running", "scavenging"}, tries : 0 .. Tries]
JobTypes == {"none", "connecting", "selecting", "connecting deletion", "deleting"}

\* What the type invariant says of one call.
LEMMA CallTypesHold ==
  ASSUME TypeOK, NEW w \in Calls
  PROVE  /\ call \in [Calls -> CallTypes] /\ job \in [Calls -> JobTypes]
         /\ call[w] \in CallTypes /\ job[w] \in JobTypes /\ count \in Int
         /\ NoCall \in CallTypes /\ Inside(call[w].op) \in {0, 1}
<1>1. 0 \in 0 .. Tries
  <2>1. Tries \in Nat
    BY PgDisposalAssumption, Zenon
  <2> QED
    BY <2>1
<1> QED
  BY <1>1 DEF TypeOK, CallTypes, JobTypes, NoCall, Inside

\* The latch is entered and left with the tokens.
LEMMA LatchCounts ==
  ASSUME NEW n
  PROVE  /\ Enter(n) => count' = count + n /\ UNCHANGED disposal
         /\ Exit(n) => count' = count - n
         /\ Stay => count' = count
BY DEF Enter, Exit, Latch, Stay

\* Call w goes on, or its job does, and enters or leaves the latch as it does.
LEMMA CountedStep ==
  ASSUME IInv, NEW w \in Calls,
         Call(w) \/ Again(w) \/ Connect(w) \/ Done(w) \/ Scavenged(w)
         \/ ScavengeConnects(w) \/ ScavengeSelected(w) \/ DeletionConnects(w) \/ Deleted(w)
  PROVE  Counted'
<1>1. /\ TypeOK /\ Counted /\ count \in Int
      /\ call \in [Calls -> CallTypes] /\ job \in [Calls -> JobTypes]
      /\ call[w].pc \in {"connecting", "running"} => job[w] = "none"
      /\ call[w].pc = "scavenging" => call[w].op \in {"append", "set metadata"}
  BY CallTypesHold DEF IInv, CallsBeforeJobs
<1>0. count \in Int
  BY <1>1
<1> SUFFICES /\ \A v \in Calls \ {w} : call'[v] = call[v] /\ job'[v] = job[v]
             /\ \E n \in -2 .. 2 : count' = count + n /\ Balanced(w, n)
  BY <1>1, StepCounts
<1>2. CASE Call(w)
  <2>1. PICK op \in Operations :
          /\ call' = [call EXCEPT ![w] = [op |-> op, pc |-> "connecting", tries |-> 1]]
          /\ count' = count + Inside(op)
    BY <1>2 DEF Call, Enter
  <2>2. call[w].pc = "idle" /\ job[w] = "none" /\ job' = job
    BY <1>2 DEF Call
  <2>3. Inside(op) \in -2 .. 2 /\ Inside(op) \in {0, 1}
    BY DEF Inside
  <2>4. \A v \in Calls \ {w} : call'[v] = call[v] /\ job'[v] = job[v]
    BY <1>1, <2>1, <2>2
  <2>5. HeldByCall(w)' <=> Inside(op) = 1
    BY <1>1, <2>1 DEF HeldByCall
  <2>6. Balanced(w, Inside(op))
    BY <2>2, <2>3, <2>5 DEF Balanced, KeepsCall, KeepsJob, KeepsDeletion, HeldByCall, HeldByJob, HeldByDeletion
  <2> QED
    BY <2>1, <2>3, <2>4, <2>6
<1>3. CASE Again(w)
  <2>1. call[w].pc = "running" /\ call'[w].pc = "connecting" /\ call'[w].op = call[w].op
    BY <1>1, <1>3 DEF Again, CallTypes
  <2>2. job' = job /\ \A v \in Calls \ {w} : call'[v] = call[v]
    BY <1>1, <1>3 DEF Again
  <2>3. Balanced(w, 0)
    BY <2>1, <2>2 DEF Balanced, KeepsCall, KeepsJob, KeepsDeletion, HeldByCall, HeldByJob, HeldByDeletion
  <2>4. count' = count + 0
    <3>1. count' = count
      BY <1>3 DEF Again
    <3> QED
      BY <1>0, <3>1
  <2> QED
    BY <2>2, <2>3, <2>4
<1>4. CASE Connect(w)
  <2>1. call[w].pc = "connecting" /\ job' = job
    BY <1>1, <1>4 DEF Connect
  <2>2. CASE call' = [call EXCEPT ![w].pc = "running"] /\ Stay
    <3>1. Balanced(w, 0)
      BY <1>1, <2>1, <2>2 DEF Inside, NoCall, CallTypes, Balanced, KeepsCall, KeepsJob, KeepsDeletion, HeldByCall, HeldByJob, HeldByDeletion
    <3>2. count' = count + 0
      <4>1. count' = count
        BY <1>0, <2>2 DEF Stay, Exit, Latch, Inside
      <4> QED
        BY <1>0, <4>1
    <3>3. \A v \in Calls \ {w} : call'[v] = call[v] /\ job'[v] = job[v]
      BY <1>1, <2>1, <2>2
    <3> QED
      BY <3>1, <3>2, <3>3
  <2>3. CASE call' = [call EXCEPT ![w] = NoCall] /\ Exit(Inside(call[w].op))
             /\ call[w].op \in {"append", "set metadata", "delete message"}
    <3>1. Balanced(w, -1)
      BY <1>1, <2>1, <2>3 DEF Inside, NoCall, CallTypes, Balanced, KeepsCall, KeepsJob, KeepsDeletion, HeldByCall, HeldByJob, HeldByDeletion
    <3>2. count' = count + (-1)
      BY <1>0, <2>3 DEF Enter, Exit, Latch, Stay, Inside
    <3>3. \A v \in Calls \ {w} : call'[v] = call[v] /\ job'[v] = job[v]
      BY <1>1, <2>1, <2>3
    <3> QED
      BY <3>1, <3>2, <3>3
  <2>4. CASE call' = [call EXCEPT ![w] = NoCall] /\ Exit(Inside(call[w].op))
             /\ call[w].op \notin {"append", "set metadata", "delete message"}
    <3>1. Balanced(w, 0)
      <4>1. KeepsJob(w) /\ KeepsDeletion(w)
        BY <2>1, <2>4 DEF KeepsJob, KeepsDeletion, HeldByJob, HeldByDeletion
      <4>2. ~ HeldByCall(w) /\ ~ HeldByCall(w)'
        <5>1. Inside(call[w].op) = 0
          BY <2>4 DEF Inside
        <5>2. call'[w].pc = "idle"
          BY <1>1, <2>4 DEF NoCall
        <5> QED
          BY <5>1, <5>2 DEF HeldByCall
      <4> QED
        BY <4>1, <4>2 DEF Balanced, KeepsCall
    <3>2. count' = count + 0
      <4>1. Inside(call[w].op) = 0
        BY <2>4 DEF Inside
      <4>2. count' = count - Inside(call[w].op)
        BY <2>4 DEF Exit, Latch
      <4> QED
        BY <1>0, <4>1, <4>2
    <3>3. \A v \in Calls \ {w} : call'[v] = call[v] /\ job'[v] = job[v]
      BY <1>1, <2>1, <2>4
    <3> QED
      BY <3>1, <3>2, <3>3
  <2> QED
    BY <1>4, <2>2, <2>3, <2>4 DEF Connect, Inside
<1>5. CASE Done(w)
  <2>1. call[w].pc = "running" /\ job[w] = "none"
    BY <1>1, <1>5 DEF Done
  <2>2. CASE call' = [call EXCEPT ![w] = NoCall] /\ Exit(Inside(call[w].op)) /\ job' = job
             /\ call[w].op \in {"append", "set metadata", "delete message"}
    <3>1. Balanced(w, -1)
      BY <1>1, <2>1, <2>2 DEF Inside, NoCall, CallTypes, Balanced, KeepsCall, KeepsJob, KeepsDeletion, HeldByCall, HeldByJob, HeldByDeletion
    <3>2. count' = count + (-1)
      BY <1>0, <2>2 DEF Enter, Exit, Latch, Stay, Inside
    <3>3. \A v \in Calls \ {w} : call'[v] = call[v] /\ job'[v] = job[v]
      BY <1>1, <2>1, <2>2
    <3> QED
      BY <3>1, <3>2, <3>3
  <2>3. CASE call' = [call EXCEPT ![w] = NoCall] /\ Exit(Inside(call[w].op)) /\ job' = job
             /\ call[w].op \notin {"append", "set metadata", "delete message"}
    <3>1. Balanced(w, 0)
      <4>1. KeepsJob(w) /\ KeepsDeletion(w)
        BY <2>1, <2>3 DEF KeepsJob, KeepsDeletion, HeldByJob, HeldByDeletion
      <4>2. ~ HeldByCall(w) /\ ~ HeldByCall(w)'
        <5>1. Inside(call[w].op) = 0
          BY <2>3 DEF Inside
        <5>2. call'[w].pc = "idle"
          BY <1>1, <2>3 DEF NoCall
        <5> QED
          BY <5>1, <5>2 DEF HeldByCall
      <4> QED
        BY <4>1, <4>2 DEF Balanced, KeepsCall
    <3>2. count' = count + 0
      <4>1. Inside(call[w].op) = 0
        BY <2>3 DEF Inside
      <4>2. count' = count - Inside(call[w].op)
        BY <2>3 DEF Exit, Latch
      <4> QED
        BY <1>0, <4>1, <4>2
    <3>3. \A v \in Calls \ {w} : call'[v] = call[v] /\ job'[v] = job[v]
      BY <1>1, <2>1, <2>3
    <3> QED
      BY <3>1, <3>2, <3>3
  <2>4. CASE call[w].op \in {"append", "set metadata"} /\ job' = [job EXCEPT ![w] = "connecting"]
             /\ call' = [call EXCEPT ![w].pc = "scavenging"] /\ Enter(1)
    <3>1. Balanced(w, 1)
      BY <1>1, <2>1, <2>4 DEF Inside, NoCall, CallTypes, Balanced, KeepsCall, KeepsJob, KeepsDeletion, HeldByCall, HeldByJob, HeldByDeletion
    <3>2. count' = count + 1
      BY <1>0, <2>4 DEF Enter, Exit, Latch, Stay, Inside
    <3>3. \A v \in Calls \ {w} : call'[v] = call[v] /\ job'[v] = job[v]
      BY <1>1, <2>1, <2>4
    <3> QED
      BY <3>1, <3>2, <3>3
  <2>5. CASE call[w].op \in {"append", "set metadata"} /\ job' = [job EXCEPT ![w] = "connecting"]
             /\ call' = [call EXCEPT ![w] = NoCall] /\ Stay
    <3>1. Balanced(w, 0)
      BY <1>1, <2>1, <2>5 DEF Inside, NoCall, CallTypes, Balanced, KeepsCall, KeepsJob, KeepsDeletion, HeldByCall, HeldByJob, HeldByDeletion
    <3>2. count' = count + 0
      <4>1. count' = count
        BY <1>0, <2>5 DEF Stay, Exit, Latch, Inside
      <4> QED
        BY <1>0, <4>1
    <3>3. \A v \in Calls \ {w} : call'[v] = call[v] /\ job'[v] = job[v]
      BY <1>1, <2>1, <2>5
    <3> QED
      BY <3>1, <3>2, <3>3
  <2>6. CASE call[w].op = "read" /\ job' = [job EXCEPT ![w] = "connecting deletion"]
             /\ call' = [call EXCEPT ![w] = NoCall] /\ Enter(2)
    <3>1. Balanced(w, 2)
      <4>1. ~ HeldByJob(w) /\ ~ HeldByDeletion(w)
        BY <2>1 DEF HeldByJob, HeldByDeletion
      <4>2. HeldByJob(w)' /\ HeldByDeletion(w)'
        BY <1>1, <2>6 DEF HeldByJob, HeldByDeletion
      <4>3. ~ HeldByCall(w) /\ ~ HeldByCall(w)'
        <5>1. Inside(call[w].op) = 0
          BY <2>6 DEF Inside
        <5>2. call'[w].pc = "idle"
          BY <1>1, <2>6 DEF NoCall
        <5> QED
          BY <5>1, <5>2 DEF HeldByCall
      <4> QED
        BY <4>1, <4>2, <4>3 DEF Balanced, KeepsCall
    <3>2. count' = count + 2
      BY <1>0, <2>6 DEF Enter, Exit, Latch, Stay, Inside
    <3>3. \A v \in Calls \ {w} : call'[v] = call[v] /\ job'[v] = job[v]
      BY <1>1, <2>1, <2>6
    <3> QED
      BY <3>1, <3>2, <3>3
  <2> QED
    BY <1>5, <2>2, <2>3, <2>4, <2>5, <2>6 DEF Done
<1>6. CASE Scavenged(w)
  <2>1. call[w].pc = "scavenging" /\ job' = job
    BY <1>1, <1>6 DEF Scavenged
  <2>2. CASE call' = [call EXCEPT ![w] = NoCall] /\ Exit(1)
    <3>1. Balanced(w, -1)
      BY <1>1, <2>1, <2>2 DEF Inside, NoCall, CallTypes, Balanced, KeepsCall, KeepsJob, KeepsDeletion, HeldByCall, HeldByJob, HeldByDeletion
    <3>2. count' = count + (-1)
      BY <1>0, <2>2 DEF Enter, Exit, Latch, Stay, Inside
    <3>3. \A v \in Calls \ {w} : call'[v] = call[v] /\ job'[v] = job[v]
      BY <1>1, <2>1, <2>2
    <3> QED
      BY <3>1, <3>2, <3>3
  <2> QED
    BY <1>6, <2>2 DEF Scavenged
<1>7. CASE ScavengeConnects(w)
  <2>1. job[w] = "connecting" /\ call' = call
    BY <1>1, <1>7 DEF ScavengeConnects
  <2>2. CASE job' = [job EXCEPT ![w] = "selecting"] /\ Stay
    <3>1. Balanced(w, 0)
      BY <1>1, <2>1, <2>2 DEF Inside, NoCall, CallTypes, Balanced, KeepsCall, KeepsJob, KeepsDeletion, HeldByCall, HeldByJob, HeldByDeletion
    <3>2. count' = count + 0
      <4>1. count' = count
        BY <1>0, <2>2 DEF Stay, Exit, Latch, Inside
      <4> QED
        BY <1>0, <4>1
    <3>3. \A v \in Calls \ {w} : call'[v] = call[v] /\ job'[v] = job[v]
      BY <1>1, <2>1, <2>2
    <3> QED
      BY <3>1, <3>2, <3>3
  <2>3. CASE job' = [job EXCEPT ![w] = "none"] /\ Exit(1)
    <3>1. Balanced(w, -1)
      BY <1>1, <2>1, <2>3 DEF Inside, NoCall, CallTypes, Balanced, KeepsCall, KeepsJob, KeepsDeletion, HeldByCall, HeldByJob, HeldByDeletion
    <3>2. count' = count + (-1)
      BY <1>0, <2>3 DEF Enter, Exit, Latch, Stay, Inside
    <3>3. \A v \in Calls \ {w} : call'[v] = call[v] /\ job'[v] = job[v]
      BY <1>1, <2>1, <2>3
    <3> QED
      BY <3>1, <3>2, <3>3
  <2> QED
    BY <1>7, <2>2, <2>3 DEF ScavengeConnects
<1>8. CASE ScavengeSelected(w)
  <2>1. job[w] = "selecting" /\ call' = call
    BY <1>1, <1>8 DEF ScavengeSelected
  <2>2. CASE job' = [job EXCEPT ![w] = "none"] /\ Exit(1)
    <3>1. Balanced(w, -1)
      BY <1>1, <2>1, <2>2 DEF Inside, NoCall, CallTypes, Balanced, KeepsCall, KeepsJob, KeepsDeletion, HeldByCall, HeldByJob, HeldByDeletion
    <3>2. count' = count + (-1)
      BY <1>0, <2>2 DEF Enter, Exit, Latch, Stay, Inside
    <3>3. \A v \in Calls \ {w} : call'[v] = call[v] /\ job'[v] = job[v]
      BY <1>1, <2>1, <2>2
    <3> QED
      BY <3>1, <3>2, <3>3
  <2>3. CASE job' = [job EXCEPT ![w] = "connecting deletion"] /\ Enter(1)
    <3>1. Balanced(w, 1)
      BY <1>1, <2>1, <2>3 DEF Inside, NoCall, CallTypes, Balanced, KeepsCall, KeepsJob, KeepsDeletion, HeldByCall, HeldByJob, HeldByDeletion
    <3>2. count' = count + 1
      BY <1>0, <2>3 DEF Enter, Exit, Latch, Stay, Inside
    <3>3. \A v \in Calls \ {w} : call'[v] = call[v] /\ job'[v] = job[v]
      BY <1>1, <2>1, <2>3
    <3> QED
      BY <3>1, <3>2, <3>3
  <2> QED
    BY <1>8, <2>2, <2>3 DEF ScavengeSelected
<1>9. CASE DeletionConnects(w)
  <2>1. job[w] = "connecting deletion" /\ call' = call
    BY <1>1, <1>9 DEF DeletionConnects
  <2>2. CASE job' = [job EXCEPT ![w] = "deleting"] /\ Stay
    <3>1. Balanced(w, 0)
      BY <1>1, <2>1, <2>2 DEF Inside, NoCall, CallTypes, Balanced, KeepsCall, KeepsJob, KeepsDeletion, HeldByCall, HeldByJob, HeldByDeletion
    <3>2. count' = count + 0
      <4>1. count' = count
        BY <1>0, <2>2 DEF Stay, Exit, Latch, Inside
      <4> QED
        BY <1>0, <4>1
    <3>3. \A v \in Calls \ {w} : call'[v] = call[v] /\ job'[v] = job[v]
      BY <1>1, <2>1, <2>2
    <3> QED
      BY <3>1, <3>2, <3>3
  <2>3. CASE job' = [job EXCEPT ![w] = "none"] /\ Exit(2)
    <3>1. Balanced(w, -2)
      BY <1>1, <2>1, <2>3 DEF Inside, NoCall, CallTypes, Balanced, KeepsCall, KeepsJob, KeepsDeletion, HeldByCall, HeldByJob, HeldByDeletion
    <3>2. count' = count + (-2)
      BY <1>0, <2>3 DEF Enter, Exit, Latch, Stay, Inside
    <3>3. \A v \in Calls \ {w} : call'[v] = call[v] /\ job'[v] = job[v]
      BY <1>1, <2>1, <2>3
    <3> QED
      BY <3>1, <3>2, <3>3
  <2> QED
    BY <1>9, <2>2, <2>3 DEF DeletionConnects
<1>10. CASE Deleted(w)
  <2>1. job[w] = "deleting" /\ call' = call
    BY <1>1, <1>10 DEF Deleted
  <2>2. CASE job' = [job EXCEPT ![w] = "none"] /\ Exit(2)
    <3>1. Balanced(w, -2)
      BY <1>1, <2>1, <2>2 DEF Inside, NoCall, CallTypes, Balanced, KeepsCall, KeepsJob, KeepsDeletion, HeldByCall, HeldByJob, HeldByDeletion
    <3>2. count' = count + (-2)
      BY <1>0, <2>2 DEF Enter, Exit, Latch, Stay, Inside
    <3>3. \A v \in Calls \ {w} : call'[v] = call[v] /\ job'[v] = job[v]
      BY <1>1, <2>1, <2>2
    <3> QED
      BY <3>1, <3>2, <3>3
  <2> QED
    BY <1>10, <2>2 DEF Deleted
<1> QED
  BY <1>2, <1>3, <1>4, <1>5, <1>6, <1>7, <1>8, <1>9, <1>10

\* The steps that concern one call, and those of dispose.
CallStep(w) == Call(w) \/ Again(w) \/ Step(w)
DisposeStep == Dispose \/ SubscriptionsDisposed \/ EndPool \/ PoolEnded

\* Every step is one of these.
LEMMA Steps == Next <=> (\E w \in Calls : CallStep(w)) \/ DisposeStep
BY Zenon DEF Next, CallStep, Step, DisposeStep

\* What the latch may do to dispose.
LEMMA LatchTypes ==
  ASSUME TypeOK, NEW n \in 0 .. 2, Enter(n) \/ Exit(n) \/ Stay
  PROVE  /\ count' \in Int
         /\ disposal' = disposal \/ disposal' = "released"
         /\ (disposal' = "released" /\ disposal # "released") => count' <= 0
<1>1. count \in Int
  BY DEF TypeOK
<1> QED
  BY <1>1 DEF Enter, Exit, Latch, Stay

\* Calls and jobs keep their types, and go through their stages in order.
LEMMA CallStepEffect ==
  ASSUME TypeOK, CallsBeforeJobs, NEW w \in Calls, CallStep(w)
  PROVE  /\ call' \in [Calls -> CallTypes] /\ job' \in [Calls -> JobTypes]
         /\ CallsBeforeJobs'
         /\ UNCHANGED <<scavengeSynchronously, pool>>
         /\ \E n \in 0 .. 2 : Enter(n) \/ Exit(n) \/ Stay
<1>1. /\ call \in [Calls -> CallTypes] /\ job \in [Calls -> JobTypes] /\ call[w] \in CallTypes /\ job[w] \in JobTypes
      /\ NoCall \in CallTypes /\ Inside(call[w].op) \in 0 .. 2 /\ Tries \in Nat /\ Tries >= 1
      /\ \A v \in Calls : /\ call[v].pc # "idle" => call[v].op \in Operations
                          /\ call[v].pc \in {"connecting", "running"} => job[v] = "none"
                          /\ call[v].pc = "scavenging" => call[v].op \in {"append", "set metadata"}
  <2>1. Tries \in Nat /\ Tries >= 1
    <3>1. Tries \in Nat /\ Tries # 0
      BY PgDisposalAssumption, Zenon
    <3> QED
      BY <3>1
  <2>2. Inside(call[w].op) \in 0 .. 2
    BY CallTypesHold
  <2> QED
    BY <2>1, <2>2, CallTypesHold, Zenon DEF CallsBeforeJobs
<1> DEFINE Fits(k, j) ==
             /\ k \in CallTypes /\ j \in JobTypes
             /\ call' = [call EXCEPT ![w] = k] /\ job' = [job EXCEPT ![w] = j]
             /\ k.pc # "idle" => k.op \in Operations
             /\ k.pc \in {"connecting", "running"} => j = "none"
             /\ k.pc = "scavenging" => k.op \in {"append", "set metadata"}
           Latched == \E n \in 0 .. 2 : Enter(n) \/ Exit(n) \/ Stay
<1>2. SUFFICES /\ \E k, j : Fits(k, j)
               /\ UNCHANGED <<scavengeSynchronously, pool>>
               /\ Latched
  <2>1. PICK k, j : Fits(k, j)
    BY <1>2
  <2>2. /\ call' \in [Calls -> CallTypes] /\ job' \in [Calls -> JobTypes]
        /\ call'[w] = k /\ job'[w] = j
        /\ \A v \in Calls : v # w => call'[v] = call[v] /\ job'[v] = job[v]
    BY <1>1, <2>1
  <2>3. CallsBeforeJobs'
    BY <1>1, <2>1, <2>2 DEF CallsBeforeJobs
  <2> QED
    BY <1>2, <2>2, <2>3
<1>3. Latched
  <2>1. Enter(1) \/ Enter(2) \/ Exit(1) \/ Exit(2) \/ Stay => Latched
    OBVIOUS
  <2>2. Exit(Inside(call[w].op)) => Latched
    BY <1>1
  <2>3. ASSUME NEW op, Enter(Inside(op))
        PROVE  Latched
    <3>1. Inside(op) \in 0 .. 2
      BY DEF Inside
    <3> QED
      BY <2>3, <3>1
  <2>4. Again(w) => Stay
    BY DEF Again, Stay
  <2> HIDE DEF Latched
  <2> QED
    BY <2>1, <2>2, <2>3, <2>4, Zenon DEF CallStep, Step, Call, Connect, Done, Scavenged, ScavengeConnects,
       ScavengeSelected, DeletionConnects, Deleted
<1>4. UNCHANGED <<scavengeSynchronously, pool>>
  BY DEF CallStep, Step, Call, Again, Connect, Done, Scavenged, ScavengeConnects,
         ScavengeSelected, DeletionConnects, Deleted
<1>5. SUFFICES \E k, j : Fits(k, j)
  BY <1>3, <1>4
<1>6. /\ call = [call EXCEPT ![w] = call[w]] /\ job = [job EXCEPT ![w] = job[w]]
      /\ NoCall.pc = "idle"
  BY <1>1 DEF NoCall
<1>tries. 1 \in 0 .. Tries /\ \A n \in 0 .. Tries : n < Tries => n + 1 \in 0 .. Tries
  <2>1. Tries \in Nat /\ Tries >= 1
    BY <1>1
  <2> QED
    BY <2>1
<1> DEFINE At(pc) == [call[w] EXCEPT !.pc = pc]
<1>7. ASSUME NEW pc \in {"idle", "connecting", "running", "scavenging"}
      PROVE  /\ At(pc) \in CallTypes /\ At(pc).pc = pc /\ At(pc).op = call[w].op
             /\ [call EXCEPT ![w].pc = pc] = [call EXCEPT ![w] = At(pc)]
  BY <1>1 DEF CallTypes
<1>8. CASE Call(w)
  <2>1. PICK op \in Operations : call' = [call EXCEPT ![w] = [op |-> op, pc |-> "connecting", tries |-> 1]]
    BY <1>8 DEF Call
  <2>2. job[w] = "none" /\ job' = job
    BY <1>8 DEF Call
  <2>3. op \in {"append", "set metadata", "delete message", "delete stream", "read"}
    BY PgDisposalAssumption, Zenon
  <2>4. [op |-> op, pc |-> "connecting", tries |-> 1] \in CallTypes
    <3>1. 1 \in 0 .. Tries
      BY <1>tries
    <3> QED
      BY <2>3, <3>1 DEF CallTypes
  <2>5. Fits([op |-> op, pc |-> "connecting", tries |-> 1], "none")
    BY <1>1, <1>6, <2>1, <2>2, <2>4
  <2> QED
    BY <2>5
<1>9. CASE Again(w)
  <2> DEFINE k == [call[w] EXCEPT !.pc = "connecting", !.tries = @ + 1]
  <2>1. /\ call[w].pc = "running" /\ call[w].tries < Tries /\ job' = job
        /\ call' = [call EXCEPT ![w].pc = "connecting", ![w].tries = @ + 1]
    BY <1>9 DEF Again
  <2>2. k \in CallTypes /\ k.pc = "connecting" /\ k.op = call[w].op
    <3>1. call[w].tries + 1 \in 0 .. Tries
      <4>1. call[w].tries \in 0 .. Tries
        BY <1>1 DEF CallTypes
      <4> QED
        BY <1>tries, <2>1, <4>1
    <3> QED
      BY <1>1, <3>1 DEF CallTypes
  <2>3. call' = [call EXCEPT ![w] = k]
    BY <1>1, <2>1
  <2> HIDE DEF k
  <2>4. Fits(k, job[w])
    BY <1>1, <1>6, <2>1, <2>2, <2>3
  <2> QED
    BY <2>4
<1>10. CASE Connect(w)
  <2>1. /\ call[w].pc = "connecting" /\ job' = job
        /\ call' = [call EXCEPT ![w].pc = "running"] \/ call' = [call EXCEPT ![w] = NoCall]
    BY <1>10 DEF Connect
  <2>2. Fits(At("running"), job[w]) \/ Fits(NoCall, job[w])
    <3> HIDE DEF At
    <3> QED
      BY <1>1, <1>6, <1>7, <2>1
  <2> QED
    BY <2>2
<1>11. CASE Done(w)
  <2>1. call[w].pc = "running"
    BY <1>11 DEF Done
  <2>2. \/ call' = [call EXCEPT ![w] = NoCall] /\ job' = job
        \/ call' = [call EXCEPT ![w].pc = "scavenging"] /\ job' = [job EXCEPT ![w] = "connecting"]
           /\ call[w].op \in {"append", "set metadata"}
        \/ call' = [call EXCEPT ![w] = NoCall] /\ job' = [job EXCEPT ![w] = "connecting"]
        \/ call' = [call EXCEPT ![w] = NoCall] /\ job' = [job EXCEPT ![w] = "connecting deletion"]
    BY <1>11 DEF Done
  <2>3. \/ Fits(NoCall, job[w]) \/ Fits(At("scavenging"), "connecting")
        \/ Fits(NoCall, "connecting") \/ Fits(NoCall, "connecting deletion")
    <3> HIDE DEF At
    <3> QED
      BY <1>1, <1>6, <1>7, <2>1, <2>2 DEF JobTypes
  <2> QED
    BY <2>3
<1>12. CASE Scavenged(w)
  <2>1. Fits(NoCall, job[w])
    BY <1>1, <1>6, <1>12 DEF Scavenged
  <2> QED
    BY <2>1
<1>13. CASE ScavengeConnects(w) \/ ScavengeSelected(w) \/ DeletionConnects(w) \/ Deleted(w)
  <2>1. PICK j \in JobTypes : job' = [job EXCEPT ![w] = j]
    BY <1>13 DEF ScavengeConnects, ScavengeSelected, DeletionConnects, Deleted, JobTypes
  <2>2. call' = call /\ job[w] # "none"
    BY <1>13 DEF ScavengeConnects, ScavengeSelected, DeletionConnects, Deleted
  <2>3. Fits(call[w], j)
    BY <1>1, <1>6, <2>1, <2>2
  <2> QED
    BY <2>3
<1> QED
  BY <1>8, <1>9, <1>10, <1>11, <1>12, <1>13, Zenon DEF CallStep, Step

\* Every step keeps the invariant.
LEMMA IInvInductive == IInv /\ [Next]_vars => IInv'
<1> SUFFICES ASSUME IInv, [Next]_vars
             PROVE  IInv'
  OBVIOUS
<1>1. TypeOK /\ CallsBeforeJobs /\ Counted
  BY DEF IInv
<1>2. ASSUME NEW w \in Calls, CallStep(w)
      PROVE  IInv'
  <2>1. /\ call' \in [Calls -> CallTypes] /\ job' \in [Calls -> JobTypes] /\ CallsBeforeJobs'
        /\ UNCHANGED <<scavengeSynchronously, pool>>
    BY <1>1, <1>2, CallStepEffect
  <2>2. count' \in Int /\ (disposal' = disposal \/ disposal' = "released")
    BY <1>1, <1>2, CallStepEffect, LatchTypes
  <2>3. TypeOK'
    <3>1. /\ disposal' \in {"no", "subscriptions", "waiting", "released", "ending", "done"}
          /\ pool' \in {"open", "ending"}
      BY <1>1, <2>1, <2>2 DEF TypeOK
    <3>2. scavengeSynchronously' \in BOOLEAN
      BY <1>1, <2>1, Zenon DEF TypeOK
    <3> QED
      BY <2>1, <2>2, <3>1, <3>2, Zenon DEF TypeOK, CallTypes, JobTypes
  <2>4. Counted'
    BY <1>2, CountedStep, Zenon DEF CallStep, Step
  <2> QED
    BY <2>1, <2>3, <2>4 DEF IInv
<1>3. CASE DisposeStep
  <2>1. UNCHANGED <<scavengeSynchronously, call, job, count>>
    BY <1>3 DEF DisposeStep, Dispose, SubscriptionsDisposed, EndPool, PoolEnded
  <2>2. /\ disposal' \in {"no", "subscriptions", "waiting", "released", "ending", "done"}
        /\ pool' \in {"open", "ending"}
    BY <1>1, <1>3 DEF DisposeStep, Dispose, SubscriptionsDisposed, EndPool, PoolEnded, TypeOK
  <2>3. TypeOK'
    BY <1>1, <2>1, <2>2, Zenon DEF TypeOK
  <2>4. Counted'
    BY <1>1, <2>1 DEF Counted, Held, HeldByCall, HeldByJob, HeldByDeletion
  <2>5. CallsBeforeJobs'
    BY <1>1, <2>1 DEF CallsBeforeJobs
  <2> QED
    BY <2>3, <2>4, <2>5 DEF IInv
<1>4. CASE UNCHANGED vars
  <2>1. UNCHANGED <<call, job, count>> /\ TypeOK'
    BY <1>1, <1>4, Zenon DEF vars, TypeOK
  <2>2. Counted'
    BY <1>1, <2>1 DEF Counted, Held, HeldByCall, HeldByJob, HeldByDeletion
  <2> QED
    BY <1>1, <2>1, <2>2 DEF IInv, CallsBeforeJobs
<1> QED
  BY <1>2, <1>3, <1>4, Steps

-----------------------------------------------------------------------------
(***************************************************************************)
(* The theorems about disposing                                            *)
(***************************************************************************)

\* Every variable has its type, and the latch counts the tokens that are held.
THEOREM Invariance == Spec => []IInv
<1>1. Init => IInv
  <2> SUFFICES ASSUME Init
               PROVE  IInv
    OBVIOUS
  <2>1. 0 \in 0 .. Tries
    <3>1. Tries \in Nat
      BY PgDisposalAssumption, Zenon
    <3> QED
      BY <3>1
  <2>2. /\ call \in [Calls -> CallTypes] /\ job \in [Calls -> JobTypes] /\ count = 0
        /\ disposal = "no" /\ pool = "open"
        /\ \A w \in Calls : call[w] = NoCall /\ job[w] = "none"
    BY <2>1 DEF Init, NoCall, CallTypes, JobTypes
  <2>3. TypeOK
    <3>1. scavengeSynchronously \in BOOLEAN /\ count \in Int
      BY <2>2 DEF Init
    <3> QED
      BY <2>2, <3>1 DEF TypeOK, CallTypes, JobTypes
  <2>4. Held = {}
    <3>1. \A w \in Calls : call[w].pc = "idle"
      BY <2>2 DEF NoCall
    <3> QED
      BY <2>2, <3>1 DEF Held, Tokens, HeldByCall, HeldByJob, HeldByDeletion
  <2>5. Counted
    BY <2>2, <2>4, FS_EmptySet DEF Counted
  <2>6. CallsBeforeJobs
    <3>1. \A w \in Calls : call[w].pc = "idle"
      BY <2>2 DEF NoCall
    <3> QED
      BY <2>2, <3>1 DEF CallsBeforeJobs
  <2> QED
    BY <2>3, <2>5, <2>6 DEF IInv
<1> QED
  BY <1>1, IInvInductive, PTL DEF Spec

\* Every variable has its type.
THEOREM TypeCorrect == Spec => []TypeOK
BY Invariance, PTL DEF IInv

\* The latch never goes below zero: nobody leaves it who has not entered.
THEOREM LatchNeverNegative == Spec => [](count >= 0)
<1>1. IInv => count >= 0
  BY HeldIsFinite DEF IInv, Counted
<1> QED
  BY <1>1, Invariance, PTL

\* deleteStream does not await the promise of its transaction inside the latch.
NoStreamIsDeleted == "delete stream" \notin Operations

\* A write holds a token, unless it is the deletion of a stream.
LEMMA WritesHold ==
  ASSUME NoStreamIsDeleted, IInv, NEW w \in Calls, Writing(w)
  PROVE  Held # {} /\ count > 0
<1>1. HeldByCall(w) \/ HeldByJob(w)
  <2>1. CASE call[w].op \in Writes /\ call[w].pc # "idle"
    <3>1. call[w].op # "delete stream"
      BY <2>1, Zenon DEF IInv, CallsBeforeJobs, NoStreamIsDeleted
    <3>2. Inside(call[w].op) = 1
      BY <2>1, <3>1 DEF Inside, Writes
    <3> QED
      BY <2>1, <3>2 DEF HeldByCall
  <2> QED
    BY <2>1 DEF Writing, HeldByJob
<1>2. Held # {}
  BY <1>1, HeldBy
<1>3. Cardinality(Held) # 0
  BY <1>2, HeldIsFinite, FS_EmptySet
<1>4. count = Cardinality(Held) /\ Cardinality(Held) \in Nat
  BY HeldIsFinite DEF IInv, Counted
<1> QED
  BY <1>2, <1>3, <1>4

\* Every write but the deletion of a stream, which leaves the latch before its
\* transaction begins, holds the latch until its last transaction is over.
THEOREM WritesHoldTheLatch ==
  ASSUME NoStreamIsDeleted
  PROVE  Spec => []LatchHeldByWrites
<1>1. IInv => LatchHeldByWrites
  BY WritesHold DEF LatchHeldByWrites
<1> QED
  BY <1>1, Invariance, PTL

\* Dispose is let go on, at whatever moment it began, only when no write is under
\* way, not even in the background.
THEOREM PoolEnds ==
  ASSUME NoStreamIsDeleted
  PROVE  Spec => PoolEndsAfterWrites
<1>1. IInv => \A w \in Calls : Writing(w) => count > 0
  BY WritesHold
<1>2. IInv' => (\A w \in Calls : Writing(w) => count > 0)'
  BY <1>1, PTL
<1>3. IInv /\ IInv' /\ [Next]_vars =>
        [(disposal' = "released" /\ disposal # "released") => \A w \in Calls : ~ Writing(w)']_vars
  <2> SUFFICES ASSUME IInv, IInv', [Next]_vars, disposal' = "released", disposal # "released"
               PROVE  \A w \in Calls : ~ Writing(w)'
    OBVIOUS
  <2>1. count' <= 0
    <3>1. ASSUME NEW w \in Calls, CallStep(w)
          PROVE  count' <= 0
      BY <3>1, CallStepEffect, LatchTypes DEF IInv
    <3>2. CASE DisposeStep
      BY <3>2 DEF DisposeStep, Dispose, SubscriptionsDisposed, EndPool, PoolEnded
    <3>3. CASE UNCHANGED vars
      BY <3>3 DEF vars
    <3> QED
      BY <3>1, <3>2, <3>3, Steps
  <2>2. count' \in Int
    BY DEF IInv, TypeOK
  <2> QED
    BY <1>2, <2>1, <2>2
<1> QED
  BY <1>3, Invariance, PTL DEF Spec, PoolEndsAfterWrites

=============================================================================
