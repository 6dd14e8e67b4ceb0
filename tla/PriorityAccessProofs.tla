----------------------- MODULE PriorityAccessProofs -----------------------
(***************************************************************************)
(* Proofs about the gate of PriorityAccess, and the facts about queues that  *)
(* the proofs about the objects behind it use too.                           *)
(***************************************************************************)
EXTENDS PriorityAccess, SequenceTheorems, TLAPS

(* Queues. *)

\* The queues in which only members of S stand, each at most once.
Line(S) == {q \in Seq(S) : \A i, j \in 1..Len(q) : q[i] = q[j] => i = j}

StandsIn(t, q) == \E i \in 1..Len(q) : q[i] = t

LEMMA LineEmpty == ASSUME NEW S PROVE <<>> \in Line(S)
BY DEF Line

LEMMA LineMonotone ==
    ASSUME NEW S, NEW T, S \subseteq T, NEW q \in Line(S)
    PROVE  q \in Line(T)
BY DEF Line

\* A member that does not stand in the queue yet joins it.
LEMMA LineAppend ==
    ASSUME NEW S, NEW T, S \subseteq T, NEW q \in Line(S), NEW t \in T, t \notin S
    PROVE  Append(q, t) \in Line(T)
<1>1. q \in Seq(T) /\ Append(q, t) \in Seq(T)
  BY DEF Line
<1>2. ASSUME NEW i \in 1..Len(Append(q, t)), NEW j \in 1..Len(Append(q, t)),
             Append(q, t)[i] = Append(q, t)[j]
      PROVE  i = j
  BY <1>2 DEF Line
<1>3. QED BY <1>1, <1>2 DEF Line

\* The head of a queue leaves it and stands in it no more.
LEMMA LineTail ==
    ASSUME NEW S, NEW q \in Line(S), q # <<>>
    PROVE  Head(q) \in S /\ Tail(q) \in Line(S \ {Head(q)})
<1>1. q \in Seq(S) /\ Len(q) \in Nat \ {0} /\ Head(q) = q[1]
  BY DEF Line
<1>2. /\ Tail(q) \in Seq(S)
      /\ Len(Tail(q)) = Len(q) - 1
      /\ \A i \in 1..Len(Tail(q)) : Tail(q)[i] = q[i + 1]
  BY <1>1
<1>3. ASSUME NEW i \in 1..Len(Tail(q)) PROVE Tail(q)[i] \in S \ {Head(q)}
  BY <1>1, <1>2 DEF Line
<1>4. ASSUME NEW i \in 1..Len(Tail(q)), NEW j \in 1..Len(Tail(q)),
             Tail(q)[i] = Tail(q)[j]
      PROVE  i = j
  BY <1>1, <1>2, <1>4 DEF Line
<1>5. Tail(q) \in Seq(S \ {Head(q)})
  <2>1. Len(Tail(q)) \in Nat /\ Tail(q) \in [1..Len(Tail(q)) -> S]
    BY <1>2, LenProperties
  <2>2. Tail(q) \in [1..Len(Tail(q)) -> S \ {Head(q)}]
    BY <2>1, <1>3
  <2>3. QED BY <2>1, <2>2, SeqDef
<1>6. QED BY <1>1, <1>4, <1>5 DEF Line

LEMMA StandsInAppend ==
    ASSUME NEW S, NEW q \in Seq(S), NEW t \in S, NEW u
    PROVE  StandsIn(u, Append(q, t)) <=> StandsIn(u, q) \/ u = t
<1>1. /\ Len(Append(q, t)) = Len(q) + 1 /\ Len(q) \in Nat
      /\ \A i \in 1..Len(q) : Append(q, t)[i] = q[i]
      /\ Append(q, t)[Len(q) + 1] = t
  OBVIOUS
<1>2. QED BY <1>1 DEF StandsIn

\* Whoever stands in a queue and is not its head stays when the head leaves.
LEMMA StandsInTail ==
    ASSUME NEW S, NEW q \in Seq(S), NEW u, StandsIn(u, q), u # Head(q)
    PROVE  StandsIn(u, Tail(q))
<1>1. PICK i \in 1..Len(q) : q[i] = u
  BY DEF StandsIn
<1>2. Len(q) \in Nat /\ i # 1
  BY <1>1
<1>3. i - 1 \in 1..Len(Tail(q)) /\ Tail(q)[i - 1] = u
  BY <1>1, <1>2
<1>4. QED BY <1>3 DEF StandsIn

LEMMA StandsInNonEmpty ==
    ASSUME NEW q, NEW u, StandsIn(u, q) PROVE q # <<>>
BY DEF StandsIn
-----------------------------------------------------------------------------
(* Who stands before whom in a queue.                                        *)

\* Train t stands before train u.
Ahead(t, u, q) == \E i, j \in 1..Len(q) : i < j /\ q[i] = t /\ q[j] = u

LEMMA AheadStands ==
    ASSUME NEW t, NEW u, NEW q, Ahead(t, u, q)
    PROVE  StandsIn(t, q) /\ StandsIn(u, q)
BY DEF Ahead, StandsIn

\* Whoever joins a queue stands behind all the others.
LEMMA AheadAppend ==
    ASSUME NEW S, NEW q \in Seq(S), NEW x \in S, NEW t, NEW u
    PROVE  Ahead(t, u, Append(q, x)) <=> Ahead(t, u, q) \/ (u = x /\ StandsIn(t, q))
<1>1. /\ Len(Append(q, x)) = Len(q) + 1 /\ Len(q) \in Nat
      /\ \A i \in 1..Len(q) : Append(q, x)[i] = q[i]
      /\ Append(q, x)[Len(q) + 1] = x
  OBVIOUS
<1>2. ASSUME Ahead(t, u, Append(q, x)) PROVE Ahead(t, u, q) \/ (u = x /\ StandsIn(t, q))
  <2>1. PICK i, j \in 1..Len(q) + 1 :
             i < j /\ Append(q, x)[i] = t /\ Append(q, x)[j] = u
    BY <1>1, <1>2 DEF Ahead
  <2>2. i \in 1..Len(q) /\ (j \in 1..Len(q) \/ j = Len(q) + 1)
    BY <1>1, <2>1
  <2>3. QED BY <1>1, <2>1, <2>2 DEF Ahead, StandsIn
<1>3. ASSUME Ahead(t, u, q) PROVE Ahead(t, u, Append(q, x))
  <2>1. PICK i, j \in 1..Len(q) : i < j /\ q[i] = t /\ q[j] = u
    BY <1>3 DEF Ahead
  <2>2. i \in 1..Len(Append(q, x)) /\ j \in 1..Len(Append(q, x))
    BY <1>1
  <2>3. Append(q, x)[i] = t /\ Append(q, x)[j] = u
    BY <1>1, <2>1
  <2>4. QED BY <2>1, <2>2, <2>3 DEF Ahead
<1>4. ASSUME u = x, StandsIn(t, q) PROVE Ahead(t, u, Append(q, x))
  <2>1. PICK i \in 1..Len(q) : q[i] = t
    BY <1>4 DEF StandsIn
  <2>2. /\ i \in 1..Len(Append(q, x)) /\ Len(q) + 1 \in 1..Len(Append(q, x))
        /\ i < Len(q) + 1
    BY <1>1
  <2>3. Append(q, x)[i] = t /\ Append(q, x)[Len(q) + 1] = u
    BY <1>1, <1>4, <2>1
  <2>4. QED BY <2>2, <2>3 DEF Ahead
<1>5. QED BY <1>2, <1>3, <1>4

\* Whoever stands behind another is not the head, and stays behind it when the
\* head leaves, unless that was the head.
LEMMA AheadTail ==
    ASSUME NEW S, NEW q \in Seq(S), NEW t, NEW u, Ahead(t, u, q)
    PROVE  StandsIn(u, Tail(q)) /\ (t # Head(q) => Ahead(t, u, Tail(q)))
<1>1. PICK i, j \in 1..Len(q) : i < j /\ q[i] = t /\ q[j] = u
  BY DEF Ahead
<1>2. Len(q) \in Nat /\ q # <<>>
  BY <1>1
<1>3. /\ Len(Tail(q)) = Len(q) - 1
      /\ \A k \in 1..Len(Tail(q)) : Tail(q)[k] = q[k + 1]
      /\ Head(q) = q[1]
  BY <1>2
<1>4. j - 1 \in 1..Len(Tail(q)) /\ Tail(q)[j - 1] = u
  BY <1>1, <1>2, <1>3
<1>5. ASSUME t # Head(q) PROVE Ahead(t, u, Tail(q))
  <2>1. i # 1
    BY <1>1, <1>3, <1>5
  <2>2. i - 1 \in 1..Len(Tail(q)) /\ Tail(q)[i - 1] = t /\ i - 1 < j - 1
    BY <1>1, <1>2, <1>3, <2>1
  <2>3. QED BY <1>4, <2>2 DEF Ahead
<1>6. QED BY <1>4, <1>5 DEF StandsIn

\* The head stands before all the others.
LEMMA AheadHead ==
    ASSUME NEW S, NEW q \in Seq(S), NEW u, StandsIn(u, q), u # Head(q)
    PROVE  Ahead(Head(q), u, q)
<1>1. PICK i \in 1..Len(q) : q[i] = u
  BY DEF StandsIn
<1>2. Len(q) \in Nat /\ i # 1 /\ 1 \in 1..Len(q) /\ Head(q) = q[1]
  BY <1>1
<1>3. QED BY <1>1, <1>2 DEF Ahead

\* In a queue without repetition the head is gone once it has left.
LEMMA TailApart ==
    ASSUME NEW S, NEW q \in Line(S), q # <<>>, NEW t, StandsIn(t, Tail(q))
    PROVE  StandsIn(t, q) /\ t # Head(q)
<1>1. q \in Seq(S) /\ Len(q) \in Nat
  BY DEF Line
<1>2. /\ Len(Tail(q)) = Len(q) - 1
      /\ \A k \in 1..Len(Tail(q)) : Tail(q)[k] = q[k + 1]
      /\ Head(q) = q[1]
  BY <1>1
<1>3. PICK i \in 1..Len(Tail(q)) : Tail(q)[i] = t
  BY DEF StandsIn
<1>4. i + 1 \in 1..Len(q) /\ 1 \in 1..Len(q) /\ q[i + 1] = t
  BY <1>1, <1>2, <1>3
<1>5. q[i + 1] # q[1]
  BY <1>3, <1>4 DEF Line
<1>6. QED BY <1>2, <1>4, <1>5 DEF StandsIn

LEMMA TailAhead ==
    ASSUME NEW S, NEW q \in Line(S), q # <<>>, NEW t, NEW u, Ahead(t, u, Tail(q))
    PROVE  Ahead(t, u, q) /\ t # Head(q) /\ u # Head(q)
<1>1. q \in Seq(S) /\ Len(q) \in Nat
  BY DEF Line
<1>2. /\ Len(Tail(q)) = Len(q) - 1
      /\ \A k \in 1..Len(Tail(q)) : Tail(q)[k] = q[k + 1]
  BY <1>1
<1>3. PICK i, j \in 1..Len(Tail(q)) : i < j /\ Tail(q)[i] = t /\ Tail(q)[j] = u
  BY DEF Ahead
<1>4. i + 1 \in 1..Len(q) /\ j + 1 \in 1..Len(q) /\ q[i + 1] = t /\ q[j + 1] = u
  BY <1>1, <1>2, <1>3
<1>5. Ahead(t, u, q)
  BY <1>3, <1>4 DEF Ahead
<1>6. QED BY <1>5, AheadStands, TailApart

\* Nobody stands before the head.
LEMMA HeadFirst ==
    ASSUME NEW S, NEW q \in Line(S), NEW t, Ahead(t, Head(q), q)
    PROVE  FALSE
<1>1. q \in Seq(S)
  BY DEF Line
<1>2. PICK i, j \in 1..Len(q) : i < j /\ q[i] = t /\ q[j] = Head(q)
  BY DEF Ahead
<1>3. Len(q) \in Nat /\ Head(q) = q[1] /\ 1 \in 1..Len(q)
  BY <1>1, <1>2
<1>4. j = 1
  BY <1>2, <1>3 DEF Line
<1>5. QED BY <1>2, <1>4
-----------------------------------------------------------------------------
\* The trains at some places that come from some stations or segments; f is pc, g
\* origin in a segment, via in a station.
At(f, g, places, from) == {t \in Trains : f[t] \in places /\ g[t] \in from}

(* How a queue changes when the task of one train t moves; f and g are as in At  *)
(* before the step, f1 and g1 after it.                                      *)

OnlyMoves(t, f, g, f1, g1) ==
    \A u \in Trains \ {t} : f1[u] = f[u] /\ g1[u] = g[u]

\* A queue at a place that t does not leave still matches.
LEMMA QueueKept ==
    ASSUME NEW f, NEW g, NEW f1, NEW g1, NEW t, NEW P, NEW E,
           NEW q \in Line(At(f, g, P, E)),
           OnlyMoves(t, f, g, f1, g1), f[t] \notin P
    PROVE  q \in Line(At(f1, g1, P, E))
<1>1. At(f, g, P, E) \subseteq At(f1, g1, P, E)
  BY DEF At, OnlyMoves
<1>2. QED BY <1>1, LineMonotone

\* Nor does it change when t moves between two of the places it covers.
LEMMA QueueStays ==
    ASSUME NEW f, NEW g, NEW f1, NEW g1, NEW t, NEW P, NEW E,
           NEW q \in Line(At(f, g, P, E)),
           OnlyMoves(t, f, g, f1, g1), f1[t] \in P, g1[t] = g[t]
    PROVE  q \in Line(At(f1, g1, P, E))
<1>1. At(f, g, P, E) \subseteq At(f1, g1, P, E)
  BY DEF At, OnlyMoves
<1>2. QED BY <1>1, LineMonotone

\* Train t comes to the place of the queue and joins it.
LEMMA QueueJoined ==
    ASSUME NEW f, NEW g, NEW f1, NEW g1, NEW t \in Trains, NEW P, NEW E,
           NEW q \in Line(At(f, g, P, E)),
           OnlyMoves(t, f, g, f1, g1),
           f[t] \notin P, f1[t] \in P, g1[t] \in E
    PROVE  Append(q, t) \in Line(At(f1, g1, P, E))
<1>1. /\ At(f, g, P, E) \subseteq At(f1, g1, P, E)
      /\ t \in At(f1, g1, P, E) /\ t \notin At(f, g, P, E)
  BY DEF At, OnlyMoves
<1>2. QED BY <1>1, LineAppend

\* The head of the queue leaves it for another place.
LEMMA QueueLeft ==
    ASSUME NEW f, NEW g, NEW f1, NEW g1, NEW P, NEW E,
           NEW q \in Line(At(f, g, P, E)), q # <<>>,
           OnlyMoves(Head(q), f, g, f1, g1)
    PROVE  Tail(q) \in Line(At(f1, g1, P, E))
<1>1. Tail(q) \in Line(At(f, g, P, E) \ {Head(q)})
  BY LineTail
<1>2. At(f, g, P, E) \ {Head(q)} \subseteq At(f1, g1, P, E)
  BY DEF At, OnlyMoves
<1>3. QED BY <1>1, <1>2, LineMonotone

LEMMA QueueHead ==
    ASSUME NEW f, NEW g, NEW P, NEW E, NEW q \in Line(At(f, g, P, E)), q # <<>>
    PROVE  Head(q) \in Trains /\ f[Head(q)] \in P /\ g[Head(q)] \in E
<1>1. Head(q) \in At(f, g, P, E)
  BY LineTail
<1>2. QED BY <1>1 DEF At
-----------------------------------------------------------------------------
(* The gate. *)

LEMMA GateInitType == GateInit => GateTypeOK
BY DEF GateInit, GateTypeOK

\* Every entry of the gate keeps its state well-typed.
LEMMA GateStepType ==
    ASSUME GateTypeOK,
           Admit \/ \E t \in Trains : Gain_Access(t) \/ Access_Gained(t)
    PROVE  GateTypeOK'
<1>1. ASSUME NEW t \in Trains, Gain_Access(t) PROVE GateTypeOK'
  <2>1. gate' \in [Trains -> {"out", "waiting", "inside"}] /\ gateFree' \in BOOLEAN
    BY <1>1 DEF Gain_Access, GateTypeOK
  <2>2. CASE t \in FB
    BY SMTT(20), <1>1, <2>1, <2>2 DEF Gain_Access, Requeue, GateTypeOK
  <2>3. CASE t \in Trains \ FB
    BY <1>1, <2>1, <2>3 DEF Gain_Access, Requeue, GateTypeOK
  <2>4. QED BY <2>2, <2>3
<1>2. ASSUME NEW t \in Trains, Access_Gained(t) PROVE GateTypeOK'
  BY <1>2 DEF Access_Gained, FreeGate, GateTypeOK
<1>3. CASE Gain_Access_FB
  <2>1. Head(fbQueue) \in FB /\ Tail(fbQueue) \in Seq(FB)
    BY <1>3 DEF Gain_Access_FB, GateTypeOK
  <2>2. QED BY <1>3, <2>1, FBAssumption DEF Gain_Access_FB, GateTypeOK
<1>4. CASE Gain_Access_Regional
  <2>1. Head(regionalQueue) \in Trains \ FB /\ Tail(regionalQueue) \in Seq(Trains \ FB)
    BY <1>4 DEF Gain_Access_Regional, RegionalBarrier, GateTypeOK
  <2>2. QED BY <1>4, <2>1 DEF Gain_Access_Regional, GateTypeOK
<1>5. QED BY <1>1, <1>2, <1>3, <1>4 DEF Admit

\* The head of a queue of the gate is a train.
LEMMA GateHeads ==
    ASSUME GateTypeOK
    PROVE  /\ fbQueue # <<>> => Head(fbQueue) \in Trains
           /\ regionalQueue # <<>> => Head(regionalQueue) \in Trains
BY FBAssumption DEF GateTypeOK

GateInv == GateTypeOK /\ GateExclusion

LEMMA GateInvStep == GateInv /\ [GateNext]_gateVars => GateInv'
<1> SUFFICES ASSUME GateInv, [GateNext]_gateVars PROVE GateInv'
  OBVIOUS
<1> USE DEF GateInv
<1>1. ASSUME NEW t \in Trains, Gain_Access(t) PROVE GateExclusion'
  BY <1>1 DEF Gain_Access, GateTypeOK, GateExclusion
<1>2. ASSUME NEW t \in Trains, Access_Gained(t) PROVE GateExclusion'
  BY <1>2 DEF Access_Gained, FreeGate, GateTypeOK, GateExclusion
<1>3. CASE Gain_Access_FB
  BY <1>3, GateStepType, GateHeads DEF Admit, Gain_Access_FB, Barrier, GateTypeOK, GateExclusion
<1>4. CASE Gain_Access_Regional
  BY <1>4, GateStepType, GateHeads
     DEF Admit, Gain_Access_Regional, Barrier, RegionalBarrier, GateTypeOK, GateExclusion
<1>5. CASE UNCHANGED gateVars
  BY <1>5 DEF gateVars, GateTypeOK, GateExclusion
<1>6. QED BY <1>1, <1>2, <1>3, <1>4, <1>5, GateStepType DEF GateNext, Admit

\* However many trains there are and whichever of them are FB trains, the
\* gate is well-typed and at most one of them is inside it: the train that
\* registers itself in the order of a segment or platform does so alone
\* (priority_access.adb, Gain_Access to Access_Gained).
THEOREM GateIsExclusive == GateSpec => [](GateTypeOK /\ GateExclusion)
<1>1. GateInit => GateInv
  BY GateInitType DEF GateInit, GateInv, GateExclusion
<1>2. QED BY <1>1, GateInvStep, PTL DEF GateSpec, GateInv
=============================================================================
