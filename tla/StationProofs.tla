--------------------------- MODULE StationProofs ---------------------------
(***************************************************************************)
(* Proofs about the platform of Station, for any number of trains and of      *)
(* segments that end at the station.                                         *)
(***************************************************************************)
EXTENDS Station, PriorityAccessProofs

\* A train is in the order of its segment, has been found first in it, is in the
\* order of the platform, and does not stand there yet.
AccessPlaces == {"arriving", "Wait", "passed", "gate", "added", "released"}
PassedPlaces == {"passed", "gate", "added", "released"}
PlatformPlaces == {"added", "released", "freed", "Enter", "Retry", "standing", "departing"}
AwaitPlaces == {"added", "released", "freed", "Enter", "Retry"}

\* A queue holds trains whose task is at its places, each of them once.
AccessMatches(s) == Access_Order[s] \in Line(At(pc, via, AccessPlaces, {s}))
WaitMatches(s) == waitQ[s] \in Line(At(pc, via, {"Wait"}, {s}))
OrderMatches == Trains_Order \in Line(At(pc, via, PlatformPlaces, Segments))
EnterMatches == enterQ \in Line(At(pc, via, {"Enter"}, Segments))
RetryMatches == retryQ \in Line(At(pc, via, {"Retry"}, Segments))

QueuesMatch ==
    /\ \A s \in Segments : AccessMatches(s) /\ WaitMatches(s)
    /\ OrderMatches
    /\ EnterMatches
    /\ RetryMatches

\* No train is missing from the order of its segment or of the platform.
NoneMissing ==
    \A t \in Trains :
        /\ pc[t] \in AccessPlaces => StandsIn(t, Access_Order[via[t]])
        /\ pc[t] \in PlatformPlaces => StandsIn(t, Trains_Order)

\* A guard is open exactly while trains are counted that it lets retry.
CountersAgree ==
    /\ \A s \in Segments : Can_Access[s] <=> Trains_Waiting[s] > 0
    /\ Can_Retry <=> Retry_Count > 0

\* Whoever has passed the access controller is the first of its segment.
PassedIsFirst ==
    \A t \in Trains : pc[t] \in PassedPlaces => FirstOfSegment(t)

\* A train that came before another one through the same segment is still before
\* it in the order of the segment, and if the later one has joined the order of
\* the platform, before it in that one.
Before(u, t) ==
    /\ u # t
    /\ via[u] = via[t]
    /\ Coming(u)
    /\ pc[u] \in AccessPlaces => Ahead(u, t, Access_Order[via[t]])
    /\ pc[t] \in AwaitPlaces => Ahead(u, t, Trains_Order)

OrderKept == \A t \in Trains : Coming(t) => \A u \in ahead[t] : Before(u, t)

\* A train that departs is the first of the platform, and so is one that stands
\* there, until trains stand out of turn; and none departs from then on that did
\* not before.
TurnKept ==
    /\ \A t \in Trains : pc[t] = "departing" => HasTurn(t)
    /\ \A t \in Trains : pc[t] = "standing" /\ ~Terminated => HasTurn(t)
    /\ Terminated => Stopped

PlatformInv ==
    /\ TypeOK
    /\ QueuesMatch
    /\ NoneMissing
    /\ CountersAgree
    /\ PassedIsFirst
    /\ OrderKept
    /\ TurnKept
-----------------------------------------------------------------------------
(* Types. *)

LEMMA GateUnchanged == ASSUME GateTypeOK, UNCHANGED gateVars PROVE GateTypeOK'
BY DEF gateVars, GateTypeOK

LEMMA TypesStep == ASSUME TypeOK, NoneMissing, CountersAgree, [Next]_vars PROVE TypeOK'
<1> USE DEF TypeOK, MoveTo, Locations, accessVars, platformVars, guardVars
<1>1. ASSUME NEW t \in Trains, NEW s \in Segments, Add_Train(t, s) PROVE TypeOK'
  BY <1>1, GateUnchanged DEF Add_Train
<1>2. ASSUME NEW t \in Trains, AccessEnter(t) PROVE TypeOK'
  <2>1. pc' \in [Trains -> Locations] /\ waitQ' \in [Segments -> Seq(Trains)]
    <3>1. CASE FirstOfSegment(t)
      BY <1>2, <3>1 DEF AccessEnter
    <3>2. CASE ~FirstOfSegment(t)
      <4>1. Append(waitQ[via[t]], t) \in Seq(Trains)
        OBVIOUS
      <4>2. waitQ' = [waitQ EXCEPT ![via[t]] = Append(@, t)] /\ MoveTo(t, "Wait")
        BY <1>2, <3>2 DEF AccessEnter
      <4>3. QED BY <4>1, <4>2
    <3>3. QED BY <3>1, <3>2
  <2>2. QED BY <1>2, <2>1, GateUnchanged DEF AccessEnter
<1>3. ASSUME NEW t \in Trains, AskGate(t) PROVE TypeOK'
  BY <1>3, GateStepType DEF AskGate
<1>4. ASSUME NEW t \in Trains, JoinPlatform(t) PROVE TypeOK'
  BY <1>4, GateUnchanged DEF JoinPlatform
<1>5. ASSUME NEW t \in Trains, ReleaseGate(t) PROVE TypeOK'
  BY <1>5, GateStepType DEF ReleaseGate
<1>6. ASSUME NEW t \in Trains, AccessFree(t) PROVE TypeOK'
  <2>1. via[t] \in Segments /\ Len(waitQ[via[t]]) \in Nat
    OBVIOUS
  <2>2. /\ Trains_Waiting' \in [Segments -> Nat]
        /\ Can_Access' \in [Segments -> BOOLEAN]
    BY <1>6, <2>1 DEF AccessFree, OpenAccess
  <2>3. Access_Order' \in [Segments -> Seq(Trains)]
    <3>1. StandsIn(t, Access_Order[via[t]])
      BY <1>6 DEF AccessFree, NoneMissing, AccessPlaces
    <3>2. Access_Order[via[t]] \in Seq(Trains) /\ Access_Order[via[t]] # <<>>
      BY <2>1, <3>1, StandsInNonEmpty
    <3>3. Tail(Access_Order[via[t]]) \in Seq(Trains)
      BY <3>2
    <3>4. QED BY <1>6, <3>3 DEF AccessFree
  <2>4. QED BY <1>6, <2>2, <2>3, GateUnchanged DEF AccessFree
<1>7. ASSUME NEW t \in Trains, CallEnter(t) PROVE TypeOK'
  BY <1>7, GateUnchanged DEF CallEnter
<1>8. ASSUME NEW t \in Trains, TakeDescriptor(t) PROVE TypeOK'
  BY <1>8, GateUnchanged DEF TakeDescriptor
<1>9. ASSUME NEW t \in Trains, Leave(t) PROVE TypeOK'
  <2>1. StandsIn(t, Trains_Order)
    BY <1>9 DEF Leave, NoneMissing, PlatformPlaces
  <2>2. Tail(Trains_Order) \in Seq(Trains)
    BY <2>1, StandsInNonEmpty
  <2>3. Retry_Count' \in Nat /\ Can_Retry' \in BOOLEAN
    <3>1. CASE retryQ # <<>>
      <4>1. Len(retryQ) \in Nat
        OBVIOUS
      <4>2. Retry_Count' = Len(retryQ) /\ Can_Retry' = TRUE
        BY <1>9, <3>1 DEF Leave, OpenRetry
      <4>3. QED BY <4>1, <4>2
    <3>2. CASE retryQ = <<>>
      BY <1>9, <3>2 DEF Leave, OpenRetry
    <3>3. QED BY <3>1, <3>2
  <2>4. QED BY <1>9, <2>2, <2>3, GateUnchanged DEF Leave
<1>10. CASE PassGate
  BY <1>10, GateStepType DEF PassGate
<1>11. CASE Enter
  <2>1. Head(enterQ) \in Trains /\ Tail(enterQ) \in Seq(Trains)
    BY <1>11 DEF Enter
  <2>2. /\ pc' \in [Trains -> Locations] /\ retryQ' \in Seq(Trains)
        /\ ahead' \in [Trains -> SUBSET Trains]
    <3>1. CASE HasTurn(Head(enterQ))
      <4>1. /\ pc' = [pc EXCEPT ![Head(enterQ)] = "standing"]
            /\ ahead' = [u \in Trains |-> ahead[u] \ {Head(enterQ)}]
            /\ retryQ' = retryQ
        BY <1>11, <3>1 DEF Enter, Stand
      <4>2. QED BY <2>1, <4>1
    <3>2. CASE ~HasTurn(Head(enterQ))
      <4>1. /\ pc' = [pc EXCEPT ![Head(enterQ)] = "Retry"]
            /\ retryQ' = Append(retryQ, Head(enterQ))
            /\ ahead' = ahead
        BY <1>11, <3>2 DEF Enter
      <4>2. QED BY SMTT(20), <2>1, <4>1
    <3>3. QED BY <3>1, <3>2
  <2>3. QED BY <1>11, <2>1, <2>2, GateUnchanged DEF Enter
<1>12. CASE Retry
  <2>1. Retry_Count - 1 \in Nat
    BY <1>12 DEF Retry, CountersAgree
  <2>2. QED BY <1>12, <2>1, GateUnchanged DEF Retry, StaysOpen
<1>13. CASE RetryTerminated
  <2>1. Head(retryQ) \in Trains /\ Tail(retryQ) \in Seq(Trains)
    BY <1>13 DEF RetryTerminated
  <2>2. pc' \in [Trains -> Locations] /\ ahead' \in [Trains -> SUBSET Trains]
    BY <1>13, <2>1 DEF RetryTerminated, Stand
  <2>3. QED BY <1>13, <2>1, <2>2, GateUnchanged DEF RetryTerminated
<1>14. ASSUME NEW s \in Segments, AccessWait(s) PROVE TypeOK'
  <2>1. Trains_Waiting[s] - 1 \in Nat
    <3>1. Can_Access[s]
      BY <1>14 DEF AccessWait
    <3>2. Trains_Waiting[s] > 0
      BY <3>1 DEF CountersAgree
    <3>3. QED BY <3>2
  <2>2. Head(waitQ[s]) \in Trains /\ Tail(waitQ[s]) \in Seq(Trains)
    BY <1>14 DEF AccessWait
  <2>3. pc' \in [Trains -> Locations] /\ waitQ' \in [Segments -> Seq(Trains)]
    <3>1. Append(Tail(waitQ[s]), Head(waitQ[s])) \in Seq(Trains)
      BY <2>2
    <3>2. CASE FirstOfSegment(Head(waitQ[s]))
      <4>1. /\ pc' = [pc EXCEPT ![Head(waitQ[s])] = "passed"]
            /\ waitQ' = [waitQ EXCEPT ![s] = Tail(@)]
        BY <1>14, <3>2 DEF AccessWait
      <4>2. QED BY <2>2, <4>1
    <3>3. CASE ~FirstOfSegment(Head(waitQ[s]))
      <4>1. waitQ' = [waitQ EXCEPT ![s] = Append(Tail(@), Head(waitQ[s]))] /\ UNCHANGED pc
        BY <1>14, <3>3 DEF AccessWait
      <4>2. QED BY <3>1, <4>1
    <3>4. QED BY <3>2, <3>3
  <2>4. Trains_Waiting' \in [Segments -> Nat] /\ Can_Access' \in [Segments -> BOOLEAN]
    BY <1>14, <2>1 DEF AccessWait, StaysOpen
  <2>5. QED BY <1>14, <2>3, <2>4, GateUnchanged DEF AccessWait
<1>15. CASE StopPool
  BY <1>15, GateUnchanged DEF StopPool
<1>16. CASE Terminate_Platform
  BY <1>16, GateUnchanged DEF Terminate_Platform
<1>17. CASE UNCHANGED vars
  BY <1>17, GateUnchanged DEF vars
<1>18. QED
  BY <1>1, <1>2, <1>3, <1>4, <1>5, <1>6, <1>7, <1>8, <1>9, <1>10, <1>11, <1>12, <1>13,
     <1>14, <1>15, <1>16, <1>17 DEF Next, TrainStep, ServePlatform
-----------------------------------------------------------------------------
(* Queues. *)

\* The queues that a step leaves alone match while the train t that moves does not
\* leave the places they cover.
LEMMA QueuesStay ==
    ASSUME NEW t \in Trains, OnlyMoves(t, pc, via, pc', via'),
           pc[t] = "away" \/ via'[t] = via[t]
    PROVE  /\ \A s \in Segments :
                  /\ /\ AccessMatches(s) /\ Access_Order'[s] = Access_Order[s]
                     /\ pc[t] \in AccessPlaces => pc'[t] \in AccessPlaces
                     => AccessMatches(s)'
                  /\ WaitMatches(s) /\ waitQ'[s] = waitQ[s] /\ pc[t] # "Wait"
                        => WaitMatches(s)'
           /\ /\ OrderMatches /\ UNCHANGED Trains_Order /\ via'[t] \in Segments
              /\ pc[t] \in PlatformPlaces => pc'[t] \in PlatformPlaces
              => OrderMatches'
           /\ EnterMatches /\ UNCHANGED enterQ /\ pc[t] # "Enter" => EnterMatches'
           /\ RetryMatches /\ UNCHANGED retryQ /\ pc[t] # "Retry" => RetryMatches'
<1>1. ASSUME NEW P, NEW E, pc[t] \in P => pc[t] # "away" /\ pc'[t] \in P
      PROVE  At(pc, via, P, E) \subseteq At(pc', via', P, E)
  BY <1>1 DEF At, OnlyMoves
<1>2. ASSUME NEW s \in Segments, AccessMatches(s), Access_Order'[s] = Access_Order[s],
             pc[t] \in AccessPlaces => pc'[t] \in AccessPlaces
      PROVE  AccessMatches(s)'
  <2>1. At(pc, via, AccessPlaces, {s}) \subseteq At(pc', via', AccessPlaces, {s})
    BY <1>1, <1>2 DEF AccessPlaces
  <2>2. QED BY <1>2, <2>1, LineMonotone DEF AccessMatches
<1>3. ASSUME NEW s \in Segments, WaitMatches(s), waitQ'[s] = waitQ[s], pc[t] # "Wait"
      PROVE  WaitMatches(s)'
  <2>1. At(pc, via, {"Wait"}, {s}) \subseteq At(pc', via', {"Wait"}, {s})
    <3>1. pc[t] \in {"Wait"} => pc[t] # "away" /\ pc'[t] \in {"Wait"}
      BY <1>3
    <3>2. QED BY <1>1, <3>1
  <2>2. QED BY <1>3, <2>1, LineMonotone DEF WaitMatches
<1>4. ASSUME OrderMatches, UNCHANGED Trains_Order,
             pc[t] \in PlatformPlaces => pc'[t] \in PlatformPlaces
      PROVE  OrderMatches'
  <2>1. At(pc, via, PlatformPlaces, Segments) \subseteq At(pc', via', PlatformPlaces, Segments)
    BY <1>1, <1>4 DEF PlatformPlaces
  <2>2. QED BY <1>4, <2>1, LineMonotone DEF OrderMatches
<1>5. ASSUME EnterMatches, UNCHANGED enterQ, pc[t] # "Enter" PROVE EnterMatches'
  <2>1. At(pc, via, {"Enter"}, Segments) \subseteq At(pc', via', {"Enter"}, Segments)
    BY <1>1, <1>5
  <2>2. QED BY <1>5, <2>1, LineMonotone DEF EnterMatches
<1>6. ASSUME RetryMatches, UNCHANGED retryQ, pc[t] # "Retry" PROVE RetryMatches'
  <2>1. At(pc, via, {"Retry"}, Segments) \subseteq At(pc', via', {"Retry"}, Segments)
    BY <1>1, <1>6
  <2>2. QED BY <1>6, <2>1, LineMonotone DEF RetryMatches
<1>7. QED BY <1>2, <1>3, <1>4, <1>5, <1>6

\* A task that moves is the only one that does.
LEMMA MovesAlone ==
    ASSUME TypeOK, NEW t \in Trains, NEW where, MoveTo(t, where), UNCHANGED via
    PROVE  OnlyMoves(t, pc, via, pc', via') /\ pc'[t] = where /\ via'[t] = via[t]
           /\ via[t] \in Segments
BY DEF TypeOK, MoveTo, OnlyMoves

\* Who is at the head of each queue.
LEMMA WaitHead ==
    ASSUME NEW s \in Segments, WaitMatches(s), waitQ[s] # <<>>
    PROVE  Head(waitQ[s]) \in Trains /\ pc[Head(waitQ[s])] = "Wait" /\ via[Head(waitQ[s])] = s
BY QueueHead DEF WaitMatches

LEMMA EnterHead ==
    ASSUME EnterMatches, enterQ # <<>>
    PROVE  Head(enterQ) \in Trains /\ pc[Head(enterQ)] = "Enter"
BY QueueHead DEF EnterMatches

LEMMA RetryHead ==
    ASSUME RetryMatches, retryQ # <<>>
    PROVE  Head(retryQ) \in Trains /\ pc[Head(retryQ)] = "Retry"
BY QueueHead DEF RetryMatches
-----------------------------------------------------------------------------
(* Every step keeps the queues right. *)

LEMMA QueuesStep ==
    ASSUME TypeOK, QueuesMatch, NoneMissing, PassedIsFirst, TurnKept, [Next]_vars
    PROVE  QueuesMatch'
<1>1. ASSUME NEW t \in Trains, NEW s \in Segments, Add_Train(t, s) PROVE QueuesMatch'
  <2>1. /\ OnlyMoves(t, pc, via, pc', via')
        /\ pc[t] = "away" /\ pc'[t] = "arriving" /\ via'[t] = s
        /\ Access_Order'[s] = Append(Access_Order[s], t)
        /\ \A e \in Segments \ {s} : Access_Order'[e] = Access_Order[e]
        /\ UNCHANGED <<waitQ, Trains_Order, enterQ, retryQ>>
    BY <1>1 DEF Add_Train, MoveTo, OnlyMoves, TypeOK, platformVars
  <2>2. AccessMatches(s)'
    <3>1. pc[t] \notin AccessPlaces /\ pc'[t] \in AccessPlaces /\ via'[t] \in {s}
      BY <2>1 DEF AccessPlaces
    <3>2. Access_Order[s] \in Line(At(pc, via, AccessPlaces, {s}))
      BY DEF QueuesMatch, AccessMatches
    <3>3. Append(Access_Order[s], t) \in Line(At(pc', via', AccessPlaces, {s}))
      BY <2>1, <3>1, <3>2, QueueJoined
    <3>4. QED BY <2>1, <3>3 DEF AccessMatches
  <2>3. \A e \in Segments \ {s} : AccessMatches(e)'
    BY <2>1, QueuesStay DEF QueuesMatch, AccessPlaces
  <2>4. (\A e \in Segments : WaitMatches(e)') /\ OrderMatches' /\ EnterMatches' /\ RetryMatches'
    BY <2>1, QueuesStay DEF QueuesMatch, PlatformPlaces
  <2>5. QED BY <2>2, <2>3, <2>4 DEF QueuesMatch
<1>2. ASSUME NEW t \in Trains, AccessEnter(t) PROVE QueuesMatch'
  <2>1. CASE FirstOfSegment(t)
    <3>1. /\ MoveTo(t, "passed") /\ pc[t] = "arriving"
          /\ UNCHANGED <<via, Access_Order, waitQ, Trains_Order, enterQ, retryQ>>
      BY <1>2, <2>1 DEF AccessEnter, platformVars
    <3>2. QED BY <3>1, MovesAlone, QueuesStay DEF QueuesMatch, AccessPlaces, PlatformPlaces
  <2>2. CASE ~FirstOfSegment(t)
    <3>1. /\ MoveTo(t, "Wait") /\ pc[t] = "arriving"
          /\ waitQ' = [waitQ EXCEPT ![via[t]] = Append(@, t)]
          /\ UNCHANGED <<via, Access_Order, Trains_Order, enterQ, retryQ>>
      BY <1>2, <2>2 DEF AccessEnter, platformVars
    <3>2. OnlyMoves(t, pc, via, pc', via') /\ pc'[t] = "Wait" /\ via'[t] = via[t]
          /\ via[t] \in Segments
      BY <3>1, MovesAlone
    <3>3. WaitMatches(via[t])'
      <4>1. waitQ[via[t]] \in Line(At(pc, via, {"Wait"}, {via[t]}))
        BY <3>2 DEF QueuesMatch, WaitMatches
      <4>2. Append(waitQ[via[t]], t) \in Line(At(pc', via', {"Wait"}, {via[t]}))
        BY <3>1, <3>2, <4>1, QueueJoined
      <4>3. waitQ'[via[t]] = Append(waitQ[via[t]], t)
        BY <3>1, <3>2 DEF TypeOK
      <4>4. QED BY <3>1, <4>2, <4>3 DEF WaitMatches
    <3>4. \A e \in Segments \ {via[t]} : WaitMatches(e)'
      <4>1. \A e \in Segments \ {via[t]} : waitQ'[e] = waitQ[e]
        BY <3>1 DEF TypeOK
      <4>2. QED BY <3>1, <3>2, <4>1, QueuesStay DEF QueuesMatch
    <3>5. (\A e \in Segments : AccessMatches(e)') /\ OrderMatches' /\ EnterMatches' /\ RetryMatches'
      BY <3>1, <3>2, QueuesStay DEF QueuesMatch, AccessPlaces, PlatformPlaces
    <3>6. QED BY <3>2, <3>3, <3>4, <3>5 DEF QueuesMatch
  <2>3. QED BY <2>1, <2>2
<1>3. ASSUME NEW t \in Trains, AskGate(t) PROVE QueuesMatch'
  <2>1. /\ MoveTo(t, "gate") /\ pc[t] = "passed"
        /\ UNCHANGED <<via, Access_Order, waitQ, Trains_Order, enterQ, retryQ>>
    BY <1>3 DEF AskGate, accessVars, platformVars
  <2>2. QED BY <2>1, MovesAlone, QueuesStay DEF QueuesMatch, AccessPlaces, PlatformPlaces
<1>4. ASSUME NEW t \in Trains, JoinPlatform(t) PROVE QueuesMatch'
  <2>1. /\ MoveTo(t, "added") /\ pc[t] = "gate"
        /\ Trains_Order' = Append(Trains_Order, t)
        /\ UNCHANGED <<via, Access_Order, waitQ, enterQ, retryQ>>
    BY <1>4 DEF JoinPlatform, accessVars
  <2>2. OnlyMoves(t, pc, via, pc', via') /\ pc'[t] = "added" /\ via'[t] = via[t]
        /\ via[t] \in Segments
    BY <2>1, MovesAlone
  <2>3. OrderMatches'
    <3>1. pc[t] \notin PlatformPlaces /\ pc'[t] \in PlatformPlaces
      BY <2>1, <2>2 DEF PlatformPlaces
    <3>2. Trains_Order \in Line(At(pc, via, PlatformPlaces, Segments))
      BY DEF QueuesMatch, OrderMatches
    <3>3. Append(Trains_Order, t) \in Line(At(pc', via', PlatformPlaces, Segments))
      BY <2>2, <3>1, <3>2, QueueJoined
    <3>4. QED BY <2>1, <3>3 DEF OrderMatches
  <2>4. (\A e \in Segments : AccessMatches(e)' /\ WaitMatches(e)') /\ EnterMatches' /\ RetryMatches'
    BY <2>1, <2>2, QueuesStay DEF QueuesMatch, AccessPlaces
  <2>5. QED BY <2>3, <2>4 DEF QueuesMatch
<1>5. ASSUME NEW t \in Trains, ReleaseGate(t) PROVE QueuesMatch'
  <2>1. /\ MoveTo(t, "released") /\ pc[t] = "added"
        /\ UNCHANGED <<via, Access_Order, waitQ, Trains_Order, enterQ, retryQ>>
    BY <1>5 DEF ReleaseGate, accessVars, platformVars
  <2>2. QED BY <2>1, MovesAlone, QueuesStay DEF QueuesMatch, AccessPlaces, PlatformPlaces
<1>6. ASSUME NEW t \in Trains, AccessFree(t) PROVE QueuesMatch'
  <2>1. /\ MoveTo(t, "freed") /\ pc[t] = "released"
        /\ Access_Order' = [Access_Order EXCEPT ![via[t]] = Tail(@)]
        /\ UNCHANGED <<via, waitQ, Trains_Order, enterQ, retryQ>>
    BY <1>6 DEF AccessFree, platformVars
  <2>2. OnlyMoves(t, pc, via, pc', via') /\ pc'[t] = "freed" /\ via'[t] = via[t]
        /\ via[t] \in Segments
    BY <2>1, MovesAlone
  <2>3. AccessMatches(via[t])'
    <3>1. Access_Order[via[t]] # <<>> /\ Head(Access_Order[via[t]]) = t
      BY <2>1, StandsInNonEmpty
      DEF NoneMissing, PassedIsFirst, FirstOfSegment, AccessPlaces, PassedPlaces
    <3>2. Access_Order[via[t]] \in Line(At(pc, via, AccessPlaces, {via[t]}))
      BY <2>2 DEF QueuesMatch, AccessMatches
    <3>3. Tail(Access_Order[via[t]]) \in Line(At(pc', via', AccessPlaces, {via[t]}))
      BY <2>2, <3>1, <3>2, QueueLeft
    <3>4. Access_Order'[via[t]] = Tail(Access_Order[via[t]])
      BY <2>1, <2>2 DEF TypeOK
    <3>5. QED BY <2>1, <3>3, <3>4 DEF AccessMatches
  <2>4. \A e \in Segments \ {via[t]} : AccessMatches(e)'
    <3>1. ASSUME NEW e \in Segments \ {via[t]} PROVE AccessMatches(e)'
      <4>1. At(pc, via, AccessPlaces, {e}) \subseteq At(pc', via', AccessPlaces, {e})
        BY <2>2, <3>1 DEF At, OnlyMoves
      <4>2. Access_Order'[e] = Access_Order[e]
        BY <2>1 DEF TypeOK
      <4>3. QED BY <4>1, <4>2, LineMonotone DEF QueuesMatch, AccessMatches
    <3>2. QED BY <3>1
  <2>5. (\A e \in Segments : WaitMatches(e)') /\ OrderMatches' /\ EnterMatches' /\ RetryMatches'
    BY <2>1, <2>2, QueuesStay DEF QueuesMatch, PlatformPlaces
  <2>6. QED BY <2>2, <2>3, <2>4, <2>5 DEF QueuesMatch
<1>7. ASSUME NEW t \in Trains, CallEnter(t) PROVE QueuesMatch'
  <2>1. /\ MoveTo(t, "Enter") /\ pc[t] = "freed"
        /\ enterQ' = Append(enterQ, t)
        /\ UNCHANGED <<via, Access_Order, waitQ, Trains_Order, retryQ>>
    BY <1>7 DEF CallEnter, accessVars
  <2>2. OnlyMoves(t, pc, via, pc', via') /\ pc'[t] = "Enter" /\ via'[t] = via[t]
        /\ via[t] \in Segments
    BY <2>1, MovesAlone
  <2>3. EnterMatches'
    <3>1. Append(enterQ, t) \in Line(At(pc', via', {"Enter"}, Segments))
      BY <2>1, <2>2, QueueJoined DEF QueuesMatch, EnterMatches
    <3>2. QED BY <2>1, <3>1 DEF EnterMatches
  <2>4. (\A e \in Segments : AccessMatches(e)' /\ WaitMatches(e)') /\ OrderMatches' /\ RetryMatches'
    BY <2>1, <2>2, QueuesStay DEF QueuesMatch, AccessPlaces, PlatformPlaces
  <2>5. QED BY <2>3, <2>4 DEF QueuesMatch
<1>8. ASSUME NEW t \in Trains, TakeDescriptor(t) PROVE QueuesMatch'
  <2>1. /\ MoveTo(t, "departing") /\ pc[t] = "standing"
        /\ UNCHANGED <<via, Access_Order, waitQ, Trains_Order, enterQ, retryQ>>
    BY <1>8 DEF TakeDescriptor, accessVars, platformVars
  <2>2. QED BY <2>1, MovesAlone, QueuesStay DEF QueuesMatch, AccessPlaces, PlatformPlaces
<1>9. ASSUME NEW t \in Trains, Leave(t) PROVE QueuesMatch'
  <2>1. /\ MoveTo(t, "away") /\ pc[t] = "departing"
        /\ Trains_Order' = Tail(Trains_Order)
        /\ UNCHANGED <<via, Access_Order, waitQ, enterQ, retryQ>>
    BY <1>9 DEF Leave, accessVars
  <2>2. OnlyMoves(t, pc, via, pc', via') /\ pc'[t] = "away" /\ via'[t] = via[t]
        /\ via[t] \in Segments
    BY <2>1, MovesAlone
  <2>3. OrderMatches'
    <3>1. Trains_Order # <<>> /\ Head(Trains_Order) = t
      BY <2>1, StandsInNonEmpty DEF NoneMissing, TurnKept, HasTurn, PlatformPlaces
    <3>2. Tail(Trains_Order) \in Line(At(pc', via', PlatformPlaces, Segments))
      BY <2>2, <3>1, QueueLeft DEF QueuesMatch, OrderMatches
    <3>3. QED BY <2>1, <3>2 DEF OrderMatches
  <2>4. (\A e \in Segments : AccessMatches(e)' /\ WaitMatches(e)') /\ EnterMatches' /\ RetryMatches'
    BY <2>1, <2>2, QueuesStay DEF QueuesMatch, AccessPlaces
  <2>5. QED BY <2>3, <2>4 DEF QueuesMatch
<1>10. CASE PassGate
  <2>1. UNCHANGED <<pc, via, Access_Order, waitQ, Trains_Order, enterQ, retryQ>>
    BY <1>10 DEF PassGate, accessVars, platformVars
  <2>2. QED
    BY <2>1 DEF QueuesMatch, AccessMatches, WaitMatches, OrderMatches, EnterMatches,
                RetryMatches
<1>11. CASE Enter
  <2> DEFINE t == Head(enterQ)
  <2>1. t \in Trains /\ pc[t] = "Enter" /\ enterQ # <<>>
    BY <1>11, EnterHead DEF Enter, QueuesMatch
  <2>2. /\ enterQ' = Tail(enterQ)
        /\ UNCHANGED <<via, Access_Order, waitQ, Trains_Order>>
    BY <1>11 DEF Enter, accessVars
  <2>3. \/ MoveTo(t, "standing") /\ UNCHANGED retryQ
        \/ MoveTo(t, "Retry") /\ retryQ' = Append(retryQ, t)
    BY <1>11 DEF Enter, Stand
  <2> HIDE DEF t
  <2>4. OnlyMoves(t, pc, via, pc', via') /\ pc'[t] \in {"standing", "Retry"}
        /\ via'[t] = via[t] /\ via[t] \in Segments
    BY <2>1, <2>2, <2>3, MovesAlone
  <2>5. EnterMatches'
    <3>1. Tail(enterQ) \in Line(At(pc', via', {"Enter"}, Segments))
      BY <2>1, <2>4, QueueLeft DEF QueuesMatch, EnterMatches, t
    <3>2. QED BY <2>2, <3>1 DEF EnterMatches
  <2>6. RetryMatches'
    <3>1. CASE UNCHANGED retryQ
      BY <2>1, <2>4, <3>1, QueuesStay DEF QueuesMatch
    <3>2. CASE MoveTo(t, "Retry") /\ retryQ' = Append(retryQ, t)
      <4>1. pc'[t] = "Retry"
        BY <2>1, <2>2, <3>2, MovesAlone
      <4>2. Append(retryQ, t) \in Line(At(pc', via', {"Retry"}, Segments))
        BY <2>1, <2>4, <4>1, QueueJoined DEF QueuesMatch, RetryMatches
      <4>3. QED BY <3>2, <4>2 DEF RetryMatches
    <3>3. QED BY <2>3, <3>1, <3>2
  <2>7. (\A e \in Segments : AccessMatches(e)' /\ WaitMatches(e)') /\ OrderMatches'
    BY <2>1, <2>2, <2>4, QueuesStay DEF QueuesMatch, AccessPlaces, PlatformPlaces
  <2>8. QED BY <2>5, <2>6, <2>7 DEF QueuesMatch
<1>12. CASE Retry
  <2> DEFINE t == Head(retryQ)
  <2>1. t \in Trains /\ pc[t] = "Retry" /\ retryQ # <<>>
    BY <1>12, RetryHead DEF Retry, QueuesMatch
  <2>2. /\ retryQ' = Tail(retryQ) /\ enterQ' = Append(enterQ, t) /\ MoveTo(t, "Enter")
        /\ UNCHANGED <<via, Access_Order, waitQ, Trains_Order>>
    BY <1>12 DEF Retry, accessVars
  <2> HIDE DEF t
  <2>3. OnlyMoves(t, pc, via, pc', via') /\ pc'[t] = "Enter"
        /\ via'[t] = via[t] /\ via[t] \in Segments
    BY <2>1, <2>2, MovesAlone
  <2>4. EnterMatches'
    <3>1. Append(enterQ, t) \in Line(At(pc', via', {"Enter"}, Segments))
      BY <2>1, <2>3, QueueJoined DEF QueuesMatch, EnterMatches
    <3>2. QED BY <2>2, <3>1 DEF EnterMatches
  <2>5. RetryMatches'
    <3>1. Tail(retryQ) \in Line(At(pc', via', {"Retry"}, Segments))
      BY <2>1, <2>3, QueueLeft DEF QueuesMatch, RetryMatches, t
    <3>2. QED BY <2>2, <3>1 DEF RetryMatches
  <2>6. (\A e \in Segments : AccessMatches(e)' /\ WaitMatches(e)') /\ OrderMatches'
    BY <2>1, <2>2, <2>3, QueuesStay DEF QueuesMatch, AccessPlaces, PlatformPlaces
  <2>7. QED BY <2>4, <2>5, <2>6 DEF QueuesMatch
<1>13. CASE RetryTerminated
  <2> DEFINE t == Head(retryQ)
  <2>1. t \in Trains /\ pc[t] = "Retry" /\ retryQ # <<>>
    BY <1>13, RetryHead DEF RetryTerminated, QueuesMatch
  <2>2. /\ retryQ' = Tail(retryQ) /\ MoveTo(t, "standing")
        /\ UNCHANGED <<via, Access_Order, waitQ, Trains_Order, enterQ>>
    BY <1>13 DEF RetryTerminated, Stand, accessVars
  <2> HIDE DEF t
  <2>3. OnlyMoves(t, pc, via, pc', via') /\ pc'[t] = "standing"
        /\ via'[t] = via[t] /\ via[t] \in Segments
    BY <2>1, <2>2, MovesAlone
  <2>4. RetryMatches'
    <3>1. Tail(retryQ) \in Line(At(pc', via', {"Retry"}, Segments))
      BY <2>1, <2>3, QueueLeft DEF QueuesMatch, RetryMatches, t
    <3>2. QED BY <2>2, <3>1 DEF RetryMatches
  <2>5. (\A e \in Segments : AccessMatches(e)' /\ WaitMatches(e)') /\ OrderMatches' /\ EnterMatches'
    BY <2>1, <2>2, <2>3, QueuesStay DEF QueuesMatch, AccessPlaces, PlatformPlaces
  <2>6. QED BY <2>4, <2>5 DEF QueuesMatch
<1>14. ASSUME NEW s \in Segments, AccessWait(s) PROVE QueuesMatch'
  <2> DEFINE t == Head(waitQ[s])
  <2>1. t \in Trains /\ pc[t] = "Wait" /\ via[t] = s /\ waitQ[s] # <<>>
    BY <1>14, WaitHead DEF AccessWait, QueuesMatch
  <2>2. UNCHANGED <<via, Access_Order, Trains_Order, enterQ, retryQ>>
    BY <1>14 DEF AccessWait, platformVars
  <2>3. \/ MoveTo(t, "passed") /\ waitQ' = [waitQ EXCEPT ![s] = Tail(@)]
        \/ UNCHANGED pc /\ waitQ' = [waitQ EXCEPT ![s] = Append(Tail(@), t)]
    BY <1>14 DEF AccessWait
  <2>4. waitQ[s] \in Line(At(pc, via, {"Wait"}, {s}))
    BY DEF QueuesMatch, WaitMatches
  <2>5. CASE MoveTo(t, "passed") /\ waitQ' = [waitQ EXCEPT ![s] = Tail(@)]
    <3>1. OnlyMoves(t, pc, via, pc', via') /\ pc'[t] = "passed"
          /\ via'[t] = via[t]
      BY <2>1, <2>2, <2>5, MovesAlone
    <3>2. Tail(waitQ[s]) \in Line(At(pc', via', {"Wait"}, {s}))
      BY <2>1, <2>4, <3>1, QueueLeft
    <3>3. WaitMatches(s)'
      <4>1. waitQ'[s] = Tail(waitQ[s])
        BY <2>5 DEF TypeOK
      <4>2. QED BY <3>2, <4>1 DEF WaitMatches
    <3>4. ASSUME NEW e \in Segments \ {s} PROVE WaitMatches(e)'
      <4>1. At(pc, via, {"Wait"}, {e}) \subseteq At(pc', via', {"Wait"}, {e})
        BY <2>1, <3>1 DEF At, OnlyMoves
      <4>2. waitQ'[e] = waitQ[e]
        BY <2>5 DEF TypeOK
      <4>3. QED BY <4>1, <4>2, LineMonotone DEF QueuesMatch, WaitMatches
    <3> HIDE DEF t
    <3>5. (\A e \in Segments : AccessMatches(e)') /\ OrderMatches' /\ EnterMatches' /\ RetryMatches'
      BY <2>1, <2>2, <3>1, QueuesStay DEF QueuesMatch, AccessPlaces, PlatformPlaces
    <3>6. QED BY <3>3, <3>4, <3>5 DEF QueuesMatch
  <2>6. CASE UNCHANGED pc /\ waitQ' = [waitQ EXCEPT ![s] = Append(Tail(@), t)]
    <3>1. WaitMatches(s)'
      <4>1. /\ t \in At(pc, via, {"Wait"}, {s})
            /\ Tail(waitQ[s]) \in Line(At(pc, via, {"Wait"}, {s}) \ {t})
        BY <2>1, <2>4, LineTail
      <4> HIDE DEF t
      <4>2. Append(Tail(waitQ[s]), t) \in Line(At(pc, via, {"Wait"}, {s}))
        <5> DEFINE S == At(pc, via, {"Wait"}, {s})
        <5>1. S \ {t} \subseteq S /\ t \in S /\ t \notin S \ {t}
          BY <4>1
        <5>2. Tail(waitQ[s]) \in Line(S \ {t})
          BY <4>1
        <5> HIDE DEF S
        <5>3. Append(Tail(waitQ[s]), t) \in Line(S)
          BY <5>1, <5>2, LineAppend
        <5>4. QED BY <5>3 DEF S
      <4>3. waitQ'[s] = Append(Tail(waitQ[s]), t)
        BY <2>6 DEF TypeOK
      <4>4. QED BY <2>2, <2>6, <4>2, <4>3 DEF WaitMatches
    <3>2. \A e \in Segments \ {s} : WaitMatches(e)'
      <4>1. \A e \in Segments \ {s} : waitQ'[e] = waitQ[e]
        BY <2>6 DEF TypeOK
      <4>2. QED BY <2>2, <2>6, <4>1 DEF QueuesMatch, WaitMatches
    <3>3. (\A e \in Segments : AccessMatches(e)') /\ OrderMatches' /\ EnterMatches' /\ RetryMatches'
      BY <2>2, <2>6 DEF QueuesMatch, AccessMatches, OrderMatches, EnterMatches, RetryMatches
    <3>4. QED BY <3>1, <3>2, <3>3 DEF QueuesMatch
  <2>7. QED BY <2>3, <2>5, <2>6
<1>15. CASE StopPool \/ Terminate_Platform \/ UNCHANGED vars
  <2>1. UNCHANGED <<pc, via, Access_Order, waitQ, Trains_Order, enterQ, retryQ>>
    BY <1>15 DEF StopPool, Terminate_Platform, vars, accessVars, platformVars
  <2>2. QED
    BY <2>1 DEF QueuesMatch, AccessMatches, WaitMatches, OrderMatches, EnterMatches,
                RetryMatches
<1>16. QED
  BY <1>1, <1>2, <1>3, <1>4, <1>5, <1>6, <1>7, <1>8, <1>9, <1>10, <1>11, <1>12, <1>13,
     <1>14, <1>15 DEF Next, TrainStep, ServePlatform
-----------------------------------------------------------------------------
(* The kinds of steps, by what they do to the order of a segment and of the   *)
(* platform.                                                                  *)

OrdersStay == UNCHANGED <<via, Access_Order, Trains_Order>>
RestStays == OrdersStay /\ UNCHANGED <<ahead, Terminated, Stopped>>

\* A train passes the access controller.
Passes(t) ==
    /\ pc[t] \in {"arriving", "Wait"}
    /\ FirstOfSegment(t)
    /\ MoveTo(t, "passed")
    /\ RestStays

\* A train moves on without any order being changed.
Proceeds(t) ==
    /\ \/ pc[t] = "arriving" /\ MoveTo(t, "Wait")
       \/ pc[t] = "passed" /\ MoveTo(t, "gate")
       \/ pc[t] = "added" /\ MoveTo(t, "released")
       \/ pc[t] \in {"freed", "Retry"} /\ MoveTo(t, "Enter")
       \/ pc[t] = "Enter" /\ MoveTo(t, "Retry")
    /\ RestStays

\* A train comes to stand at the platform.
Stands(t) ==
    /\ pc[t] \in {"Enter", "Retry"}
    /\ HasTurn(t) \/ Terminated
    /\ Stand(t)
    /\ OrdersStay
    /\ UNCHANGED <<Terminated, Stopped>>

\* The shutdown, and steps inside the gate and the queues.
NoTrainMoves ==
    /\ UNCHANGED <<pc, ahead>>
    /\ OrdersStay
    /\ \/ UNCHANGED <<Terminated, Stopped>>
       \/ Stopped' /\ UNCHANGED Terminated
       \/ Terminated' /\ Stopped /\ Stopped'

KindOfStep ==
    \/ \E t \in Trains, s \in Segments : Add_Train(t, s)
    \/ \E t \in Trains :
           \/ Passes(t) \/ Proceeds(t) \/ Stands(t)
           \/ JoinPlatform(t) \/ AccessFree(t) \/ TakeDescriptor(t) \/ Leave(t)
    \/ NoTrainMoves

LEMMA StepKinds == ASSUME TypeOK, QueuesMatch, [Next]_vars PROVE KindOfStep
<1> USE DEF RestStays, OrdersStay
<1>1. ASSUME NEW t \in Trains, AccessEnter(t) PROVE KindOfStep
  BY <1>1 DEF AccessEnter, Passes, Proceeds, platformVars, KindOfStep
<1>2. ASSUME NEW t \in Trains, AskGate(t) PROVE KindOfStep
  BY <1>2 DEF AskGate, Proceeds, accessVars, platformVars, KindOfStep
<1>3. ASSUME NEW t \in Trains, ReleaseGate(t) PROVE KindOfStep
  BY <1>3 DEF ReleaseGate, Proceeds, accessVars, platformVars, KindOfStep
<1>4. ASSUME NEW t \in Trains, CallEnter(t) PROVE KindOfStep
  BY <1>4 DEF CallEnter, Proceeds, accessVars, KindOfStep
<1>5. CASE PassGate
  BY <1>5 DEF PassGate, NoTrainMoves, accessVars, platformVars, KindOfStep
<1>6. CASE Enter
  <2>1. Head(enterQ) \in Trains /\ pc[Head(enterQ)] = "Enter"
    BY <1>6, EnterHead DEF Enter, QueuesMatch
  <2>2. Stands(Head(enterQ)) \/ Proceeds(Head(enterQ))
    BY <1>6, <2>1 DEF Enter, Stands, Proceeds, accessVars
  <2>3. QED BY <2>1, <2>2 DEF KindOfStep
<1>7. CASE Retry
  <2>1. Head(retryQ) \in Trains /\ pc[Head(retryQ)] = "Retry"
    BY <1>7, RetryHead DEF Retry, QueuesMatch
  <2>2. Proceeds(Head(retryQ))
    BY <1>7, <2>1 DEF Retry, Proceeds, accessVars
  <2>3. QED BY <2>1, <2>2 DEF KindOfStep
<1>8. CASE RetryTerminated
  <2>1. Head(retryQ) \in Trains /\ pc[Head(retryQ)] = "Retry"
    BY <1>8, RetryHead DEF RetryTerminated, QueuesMatch
  <2>2. Stands(Head(retryQ))
    BY <1>8, <2>1 DEF RetryTerminated, Stands, accessVars
  <2>3. QED BY <2>1, <2>2 DEF KindOfStep
<1>9. ASSUME NEW s \in Segments, AccessWait(s) PROVE KindOfStep
  <2>1. Head(waitQ[s]) \in Trains /\ pc[Head(waitQ[s])] = "Wait"
    BY <1>9, WaitHead DEF AccessWait, QueuesMatch
  <2>2. Passes(Head(waitQ[s])) \/ NoTrainMoves
    BY <1>9, <2>1 DEF AccessWait, Passes, NoTrainMoves, platformVars
  <2>3. QED BY <2>1, <2>2 DEF KindOfStep
<1>10. CASE StopPool
  BY <1>10 DEF StopPool, NoTrainMoves, accessVars, platformVars, KindOfStep
<1>11. CASE Terminate_Platform
  BY <1>11 DEF Terminate_Platform, NoTrainMoves, accessVars, KindOfStep
<1>12. CASE UNCHANGED vars
  BY <1>12 DEF vars, NoTrainMoves, accessVars, platformVars, KindOfStep
<1>13. CASE \E t \in Trains, s \in Segments : Add_Train(t, s)
  BY <1>13 DEF KindOfStep
<1>14. ASSUME NEW t \in Trains,
              JoinPlatform(t) \/ AccessFree(t) \/ TakeDescriptor(t) \/ Leave(t)
       PROVE  KindOfStep
  BY <1>14 DEF KindOfStep
<1>15. QED
  BY <1>1, <1>2, <1>3, <1>4, <1>5, <1>6, <1>7, <1>8, <1>9, <1>10, <1>11, <1>12, <1>13,
     <1>14 DEF Next, TrainStep, ServePlatform
-----------------------------------------------------------------------------
(* The orders hold every train. *)

LEMMA NoneMissingStep ==
    ASSUME TypeOK, QueuesMatch, NoneMissing, PassedIsFirst, TurnKept, KindOfStep
    PROVE  NoneMissing'
<1> USE DEF AccessPlaces, PlatformPlaces
<1>1. ASSUME NEW t \in Trains, NEW s \in Segments, Add_Train(t, s) PROVE NoneMissing'
  <2>1. /\ OnlyMoves(t, pc, via, pc', via') /\ pc'[t] = "arriving" /\ via'[t] = s
        /\ Access_Order'[s] = Append(Access_Order[s], t)
        /\ \A e \in Segments \ {s} : Access_Order'[e] = Access_Order[e]
        /\ UNCHANGED Trains_Order
    BY <1>1 DEF Add_Train, MoveTo, OnlyMoves, TypeOK, platformVars
  <2>2. \A u : StandsIn(u, Access_Order'[s]) <=> StandsIn(u, Access_Order[s]) \/ u = t
    BY <2>1, StandsInAppend DEF TypeOK
  <2>3. ASSUME NEW u \in Trains PROVE
            /\ pc'[u] \in AccessPlaces => StandsIn(u, Access_Order'[via'[u]])
            /\ pc'[u] \in PlatformPlaces => StandsIn(u, Trains_Order')
    BY <2>1, <2>2 DEF NoneMissing, OnlyMoves, TypeOK
  <2>4. QED BY <2>3 DEF NoneMissing
<1>2. ASSUME NEW t \in Trains, Passes(t) \/ Proceeds(t) \/ Stands(t) \/ TakeDescriptor(t)
      PROVE  NoneMissing'
  <2>1. /\ OrdersStay
        /\ \/ pc[t] \in {"arriving", "Wait"} /\ MoveTo(t, "passed")
           \/ pc[t] = "arriving" /\ MoveTo(t, "Wait")
           \/ pc[t] = "passed" /\ MoveTo(t, "gate")
           \/ pc[t] = "added" /\ MoveTo(t, "released")
           \/ pc[t] \in {"freed", "Retry"} /\ MoveTo(t, "Enter")
           \/ pc[t] = "Enter" /\ MoveTo(t, "Retry")
           \/ pc[t] \in {"Enter", "Retry"} /\ MoveTo(t, "standing")
           \/ pc[t] = "standing" /\ MoveTo(t, "departing")
    BY <1>2 DEF Passes, Proceeds, Stands, Stand, TakeDescriptor, RestStays, OrdersStay,
                accessVars, platformVars
  <2>2. /\ OnlyMoves(t, pc, via, pc', via')
        /\ pc'[t] \in AccessPlaces => pc[t] \in AccessPlaces
        /\ pc'[t] \in PlatformPlaces => pc[t] \in PlatformPlaces \/ pc[t] = "freed"
    BY <2>1 DEF OnlyMoves, MoveTo, TypeOK, OrdersStay
  <2>3. QED BY <2>1, <2>2 DEF NoneMissing, OnlyMoves, OrdersStay
<1>3. ASSUME NEW t \in Trains, JoinPlatform(t) PROVE NoneMissing'
  <2>1. /\ MoveTo(t, "added") /\ pc[t] = "gate"
        /\ Trains_Order' = Append(Trains_Order, t)
        /\ UNCHANGED <<via, Access_Order>>
    BY <1>3 DEF JoinPlatform, accessVars
  <2>2. OnlyMoves(t, pc, via, pc', via') /\ pc'[t] = "added"
    BY <2>1, MovesAlone
  <2>3. \A u : StandsIn(u, Trains_Order') <=> StandsIn(u, Trains_Order) \/ u = t
    BY <2>1, StandsInAppend DEF TypeOK
  <2>4. QED BY <2>1, <2>2, <2>3 DEF NoneMissing, OnlyMoves
<1>4. ASSUME NEW t \in Trains, AccessFree(t) PROVE NoneMissing'
  <2>1. /\ MoveTo(t, "freed") /\ pc[t] = "released"
        /\ Access_Order' = [Access_Order EXCEPT ![via[t]] = Tail(@)]
        /\ UNCHANGED <<via, Trains_Order>>
    BY <1>4 DEF AccessFree, platformVars
  <2>2. OnlyMoves(t, pc, via, pc', via') /\ pc'[t] = "freed" /\ via[t] \in Segments
    BY <2>1, MovesAlone
  <2>3. /\ Access_Order'[via[t]] = Tail(Access_Order[via[t]])
        /\ \A e \in Segments \ {via[t]} : Access_Order'[e] = Access_Order[e]
        /\ Head(Access_Order[via[t]]) = t
    BY <2>1, <2>2 DEF TypeOK, PassedIsFirst, PassedPlaces, FirstOfSegment
  <2>4. ASSUME NEW u \in Trains \ {t}, StandsIn(u, Access_Order[via[u]])
        PROVE  StandsIn(u, Access_Order'[via[u]])
    <3>1. CASE via[u] = via[t]
      <4> DEFINE q == Access_Order[via[t]]
      <4>1. q \in Seq(Trains) /\ StandsIn(u, q) /\ u # Head(q)
        BY <2>2, <2>3, <2>4, <3>1 DEF TypeOK
      <4>2. StandsIn(u, Tail(q))
        BY <4>1, StandsInTail
      <4>3. QED BY <2>3, <3>1, <4>2
    <3>2. CASE via[u] # via[t]
      BY <2>3, <2>4, <3>2 DEF TypeOK
    <3>3. QED BY <3>1, <3>2
  <2>5. QED BY <2>1, <2>2, <2>4 DEF NoneMissing, OnlyMoves
<1>5. ASSUME NEW t \in Trains, Leave(t) PROVE NoneMissing'
  <2>1. /\ MoveTo(t, "away") /\ pc[t] = "departing"
        /\ Trains_Order' = Tail(Trains_Order)
        /\ UNCHANGED <<via, Access_Order>>
    BY <1>5 DEF Leave, accessVars
  <2>2. OnlyMoves(t, pc, via, pc', via') /\ pc'[t] = "away"
    BY <2>1, MovesAlone
  <2>3. Head(Trains_Order) = t
    BY <2>1 DEF TurnKept, HasTurn
  <2>4. \A u \in Trains \ {t} : StandsIn(u, Trains_Order) => StandsIn(u, Trains_Order')
    BY <2>1, <2>3, StandsInTail DEF TypeOK
  <2>5. QED BY <2>1, <2>2, <2>4 DEF NoneMissing, OnlyMoves
<1>6. CASE NoTrainMoves
  BY <1>6 DEF NoTrainMoves, OrdersStay, NoneMissing
<1>7. QED BY <1>1, <1>2, <1>3, <1>4, <1>5, <1>6 DEF KindOfStep
-----------------------------------------------------------------------------
(* The counters of the guards. *)

LEMMA CountersStep == ASSUME TypeOK, CountersAgree, [Next]_vars PROVE CountersAgree'
<1>1. ASSUME UNCHANGED <<Trains_Waiting, Can_Access, Retry_Count, Can_Retry>>
      PROVE  CountersAgree'
  BY <1>1 DEF CountersAgree
<1>2. ASSUME NEW t \in Trains, AccessFree(t) PROVE CountersAgree'
  <2>1. UNCHANGED <<Retry_Count, Can_Retry>> /\ OpenAccess(via[t])
    BY <1>2 DEF AccessFree, platformVars, guardVars
  <2>2. CASE waitQ[via[t]] # <<>>
    <3>1. /\ Trains_Waiting' = [Trains_Waiting EXCEPT ![via[t]] = Len(waitQ[via[t]])]
          /\ Can_Access' = [Can_Access EXCEPT ![via[t]] = TRUE]
          /\ Len(waitQ[via[t]]) > 0
      BY <2>1, <2>2 DEF OpenAccess, TypeOK
    <3>2. ASSUME NEW s \in Segments PROVE Can_Access'[s] <=> Trains_Waiting'[s] > 0
      <4>1. CASE s = via[t]
        BY <3>1, <4>1 DEF TypeOK
      <4>2. CASE s # via[t]
        BY <3>1, <4>2 DEF TypeOK, CountersAgree
      <4>3. QED BY <4>1, <4>2
    <3>3. QED BY <2>1, <3>2 DEF CountersAgree
  <2>3. CASE waitQ[via[t]] = <<>>
    BY <1>1, <2>1, <2>3 DEF OpenAccess
  <2>4. QED BY <2>2, <2>3
<1>3. ASSUME NEW s \in Segments, AccessWait(s) PROVE CountersAgree'
  <2>1. /\ UNCHANGED <<Retry_Count, Can_Retry>>
        /\ Trains_Waiting' = [Trains_Waiting EXCEPT ![s] = @ - 1]
        /\ Can_Access' = [Can_Access EXCEPT ![s] = Trains_Waiting[s] # 1]
        /\ Can_Access[s]
    BY <1>3 DEF AccessWait, StaysOpen, platformVars, guardVars
  <2>2. Trains_Waiting[s] \in Nat /\ Trains_Waiting[s] > 0
    BY <2>1 DEF CountersAgree, TypeOK
  <2>3. Can_Access'[s] <=> Trains_Waiting'[s] > 0
    <3>1. Trains_Waiting'[s] = Trains_Waiting[s] - 1
      BY <2>1 DEF TypeOK
    <3>2. Can_Access'[s] <=> Trains_Waiting[s] # 1
      BY <2>1 DEF TypeOK
    <3>3. QED BY <2>2, <3>1, <3>2
  <2>4. \A e \in Segments \ {s} : Can_Access'[e] <=> Trains_Waiting'[e] > 0
    BY <2>1 DEF CountersAgree, TypeOK
  <2>5. QED BY <2>1, <2>3, <2>4 DEF CountersAgree
<1>4. ASSUME NEW t \in Trains, Leave(t) PROVE CountersAgree'
  <2>1. UNCHANGED <<Trains_Waiting, Can_Access>> /\ OpenRetry
    BY <1>4 DEF Leave, accessVars
  <2>2. CASE retryQ # <<>>
    <3>1. Retry_Count' = Len(retryQ) /\ Can_Retry' = TRUE /\ Len(retryQ) > 0
      BY <2>1, <2>2 DEF OpenRetry, TypeOK
    <3>2. QED BY <2>1, <3>1 DEF CountersAgree
  <2>3. CASE retryQ = <<>>
    BY <1>1, <2>1, <2>3 DEF OpenRetry, guardVars
  <2>4. QED BY <2>2, <2>3
<1>5. CASE Retry
  <2>1. /\ UNCHANGED <<Trains_Waiting, Can_Access>>
        /\ Can_Retry /\ Retry_Count' = Retry_Count - 1
        /\ Can_Retry' = (Retry_Count # 1)
    BY <1>5 DEF Retry, StaysOpen, accessVars
  <2>2. Retry_Count \in Nat /\ Retry_Count > 0
    BY <2>1 DEF CountersAgree, TypeOK
  <2>3. Can_Retry' <=> Retry_Count' > 0
    <3>1. Can_Retry' <=> Retry_Count # 1
      BY <2>1
    <3>2. Retry_Count' > 0 <=> Retry_Count # 1
      BY <2>1, <2>2
    <3>3. QED BY <3>1, <3>2
  <2>4. QED BY <2>1, <2>3 DEF CountersAgree
<1>6. CASE \/ \E t \in Trains, s \in Segments : Add_Train(t, s)
           \/ \E t \in Trains : \/ AccessEnter(t) \/ AskGate(t) \/ JoinPlatform(t)
                                \/ ReleaseGate(t) \/ CallEnter(t) \/ TakeDescriptor(t)
           \/ PassGate \/ Enter \/ RetryTerminated \/ StopPool \/ Terminate_Platform
           \/ UNCHANGED vars
  BY <1>1, <1>6
  DEF Add_Train, AccessEnter, AskGate, JoinPlatform, ReleaseGate, CallEnter,
      TakeDescriptor, PassGate, Enter, RetryTerminated, StopPool, Terminate_Platform,
      vars, accessVars, platformVars, guardVars
<1>7. QED BY <1>2, <1>3, <1>4, <1>5, <1>6 DEF Next, TrainStep, ServePlatform
-----------------------------------------------------------------------------
(* The first of a segment. *)

LEMMA PassedIsFirstStep ==
    ASSUME TypeOK, NoneMissing, PassedIsFirst, KindOfStep
    PROVE  PassedIsFirst'
<1> USE DEF PassedPlaces, FirstOfSegment
<1>1. ASSUME NEW t \in Trains, NEW s \in Segments, Add_Train(t, s) PROVE PassedIsFirst'
  <2>1. /\ OnlyMoves(t, pc, via, pc', via') /\ pc'[t] = "arriving" /\ via'[t] = s
        /\ Access_Order'[s] = Append(Access_Order[s], t)
        /\ \A e \in Segments \ {s} : Access_Order'[e] = Access_Order[e]
    BY <1>1 DEF Add_Train, MoveTo, OnlyMoves, TypeOK
  <2>2. ASSUME NEW u \in Trains \ {t}, pc[u] \in PassedPlaces
        PROVE  Head(Access_Order'[via[u]]) = u
    <3>1. Head(Access_Order[via[u]]) = u /\ Access_Order[via[u]] # <<>>
      BY <2>2, StandsInNonEmpty DEF PassedIsFirst, NoneMissing, AccessPlaces
    <3>2. via[u] \in Segments /\ Access_Order[via[u]] \in Seq(Trains)
      BY DEF TypeOK
    <3>3. CASE via[u] = s
      <4>1. Head(Append(Access_Order[s], t)) = Head(Access_Order[s])
        BY <3>1, <3>2, <3>3
      <4>2. QED BY <2>1, <3>1, <3>3, <4>1
    <3>4. CASE via[u] # s
      BY <2>1, <3>1, <3>2, <3>4
    <3>5. QED BY <3>3, <3>4
  <2>3. QED BY <2>1, <2>2 DEF PassedIsFirst, OnlyMoves
<1>2. ASSUME NEW t \in Trains, Passes(t) PROVE PassedIsFirst'
  BY <1>2 DEF Passes, RestStays, OrdersStay, MoveTo, TypeOK, PassedIsFirst
<1>3. ASSUME NEW t \in Trains, Proceeds(t) PROVE PassedIsFirst'
  BY <1>3 DEF Proceeds, RestStays, OrdersStay, MoveTo, TypeOK, PassedIsFirst
<1>4. ASSUME NEW t \in Trains, Stands(t) PROVE PassedIsFirst'
  BY <1>4 DEF Stands, Stand, OrdersStay, MoveTo, TypeOK, PassedIsFirst
<1>5. ASSUME NEW t \in Trains, JoinPlatform(t) PROVE PassedIsFirst'
  BY <1>5 DEF JoinPlatform, accessVars, MoveTo, TypeOK, PassedIsFirst
<1>6. ASSUME NEW t \in Trains, AccessFree(t) PROVE PassedIsFirst'
  <2>1. /\ MoveTo(t, "freed") /\ pc[t] = "released"
        /\ Access_Order' = [Access_Order EXCEPT ![via[t]] = Tail(@)]
        /\ UNCHANGED via
    BY <1>6 DEF AccessFree
  <2>2. ASSUME NEW u \in Trains, pc'[u] \in PassedPlaces
        PROVE  Head(Access_Order'[via[u]]) = u
    <3>1. u # t /\ pc[u] \in PassedPlaces
      BY <2>1, <2>2 DEF MoveTo, TypeOK
    <3>2. Head(Access_Order[via[u]]) = u /\ Head(Access_Order[via[t]]) = t
      BY <2>1, <3>1 DEF PassedIsFirst
    <3>3. via[u] # via[t]
      BY <3>1, <3>2
    <3>4. Access_Order'[via[u]] = Access_Order[via[u]]
      BY <2>1, <3>3 DEF TypeOK
    <3>5. QED BY <3>2, <3>4
  <2>3. QED BY <2>1, <2>2 DEF PassedIsFirst
<1>7. ASSUME NEW t \in Trains, TakeDescriptor(t) \/ Leave(t) PROVE PassedIsFirst'
  BY <1>7 DEF TakeDescriptor, Leave, accessVars, MoveTo, TypeOK, PassedIsFirst
<1>8. CASE NoTrainMoves
  BY <1>8 DEF NoTrainMoves, OrdersStay, PassedIsFirst
<1>9. QED BY <1>1, <1>2, <1>3, <1>4, <1>5, <1>6, <1>7, <1>8 DEF KindOfStep
-----------------------------------------------------------------------------
(* The turn of the trains at the platform. *)

LEMMA TurnStep ==
    ASSUME TypeOK, NoneMissing, TurnKept, KindOfStep
    PROVE  TurnKept'
<1> USE DEF HasTurn
<1>1. ASSUME NEW t \in Trains, NEW s \in Segments, Add_Train(t, s) PROVE TurnKept'
  BY <1>1 DEF Add_Train, platformVars, MoveTo, TypeOK, TurnKept
<1>2. ASSUME NEW t \in Trains, Passes(t) PROVE TurnKept'
  BY <1>2 DEF Passes, RestStays, OrdersStay, MoveTo, TypeOK, TurnKept
<1>3. ASSUME NEW t \in Trains, Proceeds(t) PROVE TurnKept'
  BY <1>3 DEF Proceeds, RestStays, OrdersStay, MoveTo, TypeOK, TurnKept
<1>4. ASSUME NEW t \in Trains, Stands(t) PROVE TurnKept'
  BY <1>4 DEF Stands, Stand, OrdersStay, MoveTo, TypeOK, TurnKept
<1>5. ASSUME NEW t \in Trains, JoinPlatform(t) PROVE TurnKept'
  <2>1. /\ MoveTo(t, "added") /\ UNCHANGED <<Terminated, Stopped>>
        /\ Trains_Order' = Append(Trains_Order, t)
    BY <1>5 DEF JoinPlatform
  <2>2. ASSUME NEW u \in Trains, pc'[u] \in {"standing", "departing"}
        PROVE  pc[u] = pc'[u] /\ (HasTurn(u) => HasTurn(u)')
    <3>1. pc[u] = pc'[u]
      BY <2>1, <2>2 DEF MoveTo, TypeOK
    <3>2. Trains_Order # <<>>
      BY <2>2, <3>1, StandsInNonEmpty DEF NoneMissing, PlatformPlaces
    <3>3. Head(Append(Trains_Order, t)) = Head(Trains_Order)
      BY <3>2 DEF TypeOK
    <3>4. QED BY <2>1, <3>1, <3>3
  <2>3. QED BY <2>1, <2>2 DEF TurnKept
<1>6. ASSUME NEW t \in Trains, AccessFree(t) PROVE TurnKept'
  BY <1>6 DEF AccessFree, platformVars, MoveTo, TypeOK, TurnKept
<1>7. ASSUME NEW t \in Trains, TakeDescriptor(t) PROVE TurnKept'
  BY <1>7 DEF TakeDescriptor, PoolServes, platformVars, MoveTo, TypeOK, TurnKept
<1>8. ASSUME NEW t \in Trains, Leave(t) PROVE TurnKept'
  <2>1. /\ MoveTo(t, "away") /\ pc[t] = "departing" /\ UNCHANGED <<Terminated, Stopped>>
    BY <1>8 DEF Leave
  <2>2. ASSUME NEW u \in Trains
        PROVE  pc'[u] # "departing" /\ (~Terminated => pc'[u] # "standing")
    BY <2>1 DEF TurnKept, MoveTo, TypeOK
  <2>3. QED BY <2>1, <2>2 DEF TurnKept
<1>9. CASE NoTrainMoves
  BY <1>9 DEF NoTrainMoves, OrdersStay, TurnKept
<1>10. QED BY <1>1, <1>2, <1>3, <1>4, <1>5, <1>6, <1>7, <1>8, <1>9 DEF KindOfStep
-----------------------------------------------------------------------------
(* The order in which trains come is kept. *)

\* Nobody of the same segment that came before is before a train that has passed
\* the access controller: all of them are in the order of the platform.
LEMMA EarlierHavePassed ==
    ASSUME TypeOK, QueuesMatch, NoneMissing, PassedIsFirst, OrderKept,
           NEW t \in Trains, pc[t] \in PassedPlaces, NEW u \in ahead[t]
    PROVE  u \in Trains /\ pc[u] \notin AccessPlaces /\ StandsIn(u, Trains_Order)
<1>1. u \in Trains /\ via[t] \in Segments
  BY DEF TypeOK
<1>2. Before(u, t)
  BY <1>1 DEF OrderKept, Coming, PassedPlaces
<1>3. ASSUME pc[u] \in AccessPlaces PROVE FALSE
  <2>1. Ahead(u, Head(Access_Order[via[t]]), Access_Order[via[t]])
    BY <1>2, <1>3 DEF Before, PassedIsFirst, FirstOfSegment
  <2>2. Access_Order[via[t]] \in Line(At(pc, via, AccessPlaces, {via[t]}))
    BY <1>1 DEF QueuesMatch, AccessMatches
  <2>3. QED BY <2>1, <2>2, HeadFirst
<1>4. pc[u] \in PlatformPlaces
  BY <1>1, <1>2, <1>3 DEF Before, Coming, TypeOK, Locations, AccessPlaces, PlatformPlaces
<1>5. QED BY <1>1, <1>3, <1>4 DEF NoneMissing

\* A step that lets no train into the places of an order, and takes none from
\* between two others, keeps who is before whom.
LEMMA BeforeKept ==
    ASSUME NEW u, NEW t, Before(u, t),
           via'[u] = via[u], via'[t] = via[t],
           Coming(u)',
           pc'[u] \in AccessPlaces => pc[u] \in AccessPlaces,
           pc'[t] \in AwaitPlaces => pc[t] \in AwaitPlaces,
           pc'[u] \in AccessPlaces /\ Ahead(u, t, Access_Order[via[t]]) =>
               Ahead(u, t, Access_Order'[via[t]]),
           Ahead(u, t, Trains_Order) => Ahead(u, t, Trains_Order')
    PROVE  Before(u, t)'
BY DEF Before

LEMMA OrderStep ==
    ASSUME TypeOK, QueuesMatch, NoneMissing, PassedIsFirst, TurnKept, OrderKept, KindOfStep
    PROVE  OrderKept'
<1> USE DEF Coming
<1>1. ASSUME NEW t \in Trains, NEW s \in Segments, Add_Train(t, s) PROVE OrderKept'
  <2>1. /\ OnlyMoves(t, pc, via, pc', via')
        /\ pc[t] = "away" /\ pc'[t] = "arriving" /\ via'[t] = s
        /\ Access_Order'[s] = Append(Access_Order[s], t)
        /\ \A e \in Segments \ {s} : Access_Order'[e] = Access_Order[e]
        /\ UNCHANGED Trains_Order
        /\ ahead'[t] = {u \in Trains : via[u] = s /\ Coming(u)}
        /\ \A y \in Trains \ {t} : ahead'[y] = ahead[y]
    BY <1>1 DEF Add_Train, MoveTo, OnlyMoves, TypeOK, platformVars
  <2>2. \A u, y : Ahead(u, y, Access_Order'[s]) <=>
            Ahead(u, y, Access_Order[s]) \/ (y = t /\ StandsIn(u, Access_Order[s]))
    BY <2>1, AheadAppend DEF TypeOK
  <2>3. ASSUME NEW u \in ahead'[t] PROVE Before(u, t)'
    <3>1. u \in Trains \ {t} /\ via[u] = s /\ pc'[u] = pc[u] /\ via'[u] = s /\ Coming(u)'
      BY <2>1, <2>3 DEF OnlyMoves
    <3>2. pc'[u] \in AccessPlaces => Ahead(u, t, Access_Order'[s])
      BY <2>2, <3>1 DEF NoneMissing
    <3>3. QED BY <2>1, <3>1, <3>2 DEF Before, AwaitPlaces
  <2>4. ASSUME NEW y \in Trains \ {t}, Coming(y)', NEW u \in ahead'[y] PROVE Before(u, y)'
    <3>1. u \in Trains /\ u \in ahead[y] /\ Coming(y) /\ via[y] \in Segments
      BY <2>1, <2>4 DEF OnlyMoves, TypeOK
    <3>2. Before(u, y)
      BY <3>1 DEF OrderKept
    <3>3. u # t
      BY <2>1, <3>2 DEF Before
    <3>4. Ahead(u, y, Access_Order[via[y]]) => Ahead(u, y, Access_Order'[via[y]])
      BY <2>1, <2>2, <3>1
    <3>5. QED BY <2>1, <3>1, <3>2, <3>3, <3>4, BeforeKept DEF OnlyMoves, Before
  <2>5. QED BY <2>3, <2>4 DEF OrderKept
<1>2. ASSUME NEW t \in Trains, Passes(t) \/ Proceeds(t) PROVE OrderKept'
  <2>1. /\ OnlyMoves(t, pc, via, pc', via')
        /\ UNCHANGED <<via, Access_Order, Trains_Order, ahead>>
        /\ Coming(t) /\ Coming(t)'
        /\ pc'[t] \in AccessPlaces => pc[t] \in AccessPlaces
        /\ pc'[t] \in AwaitPlaces => pc[t] \in AwaitPlaces
    BY <1>2 DEF Passes, Proceeds, RestStays, OrdersStay, MoveTo, OnlyMoves, TypeOK,
                AccessPlaces, AwaitPlaces
  <2>2. ASSUME NEW y \in Trains, Coming(y)', NEW u \in ahead'[y] PROVE Before(u, y)'
    <3>1. u \in Trains /\ Before(u, y)
      BY <2>1, <2>2 DEF OrderKept, OnlyMoves, TypeOK
    <3>2. Coming(u)'
      BY <2>1, <3>1 DEF Before, OnlyMoves
    <3>3. /\ pc'[u] \in AccessPlaces => pc[u] \in AccessPlaces
          /\ pc'[y] \in AwaitPlaces => pc[y] \in AwaitPlaces
      BY <2>1, <3>1 DEF OnlyMoves
    <3>4. QED BY <2>1, <3>1, <3>2, <3>3, BeforeKept
  <2>3. QED BY <2>2 DEF OrderKept
<1>3. ASSUME NEW t \in Trains, Stands(t) PROVE OrderKept'
  <2>1. /\ OnlyMoves(t, pc, via, pc', via') /\ pc'[t] = "standing"
        /\ UNCHANGED <<via, Access_Order, Trains_Order>>
        /\ \A y \in Trains : ahead'[y] = ahead[y] \ {t}
    BY <1>3 DEF Stands, Stand, OrdersStay, MoveTo, OnlyMoves, TypeOK
  <2>2. ASSUME NEW y \in Trains, Coming(y)', NEW u \in ahead'[y] PROVE Before(u, y)'
    <3>1. u \in Trains \ {t} /\ y # t /\ u \in ahead[y]
      BY <2>1, <2>2 DEF TypeOK
    <3>2. pc'[u] = pc[u] /\ pc'[y] = pc[y]
      BY <2>1, <3>1 DEF OnlyMoves
    <3>3. Before(u, y)
      BY <2>2, <3>1, <3>2 DEF OrderKept
    <3>4. QED BY <2>1, <3>2, <3>3, BeforeKept DEF Before
  <2>3. QED BY <2>2 DEF OrderKept
<1>4. ASSUME NEW t \in Trains, JoinPlatform(t) PROVE OrderKept'
  <2>1. /\ MoveTo(t, "added") /\ pc[t] = "gate"
        /\ UNCHANGED <<via, Access_Order, ahead>>
        /\ Trains_Order' = Append(Trains_Order, t)
    BY <1>4 DEF JoinPlatform, accessVars
  <2>2. OnlyMoves(t, pc, via, pc', via') /\ pc'[t] = "added"
    BY <2>1, MovesAlone
  <2>3. \A u, y : Ahead(u, y, Trains_Order') <=>
            Ahead(u, y, Trains_Order) \/ (y = t /\ StandsIn(u, Trains_Order))
    BY <2>1, AheadAppend DEF TypeOK
  <2>4. ASSUME NEW y \in Trains, Coming(y)', NEW u \in ahead'[y] PROVE Before(u, y)'
    <3>1. u \in Trains /\ Before(u, y)
      BY <2>1, <2>2, <2>4 DEF OrderKept, OnlyMoves, TypeOK
    <3>2. Coming(u)' /\ (pc'[u] \in AccessPlaces => pc[u] \in AccessPlaces)
      BY <2>1, <2>2, <3>1 DEF Before, OnlyMoves, AccessPlaces
    <3>3. CASE y = t
      <4>1. StandsIn(u, Trains_Order)
        BY <2>1, <2>4, <3>3, EarlierHavePassed DEF PassedPlaces
      <4>2. Ahead(u, t, Trains_Order')
        BY <2>3, <4>1
      <4>3. QED BY <2>1, <3>1, <3>2, <3>3, <4>2 DEF Before
    <3>4. CASE y # t
      <4>1. pc'[y] = pc[y] /\ (Ahead(u, y, Trains_Order) => Ahead(u, y, Trains_Order'))
        BY <2>2, <2>3, <3>4 DEF OnlyMoves
      <4>2. QED BY <2>1, <3>1, <3>2, <4>1, BeforeKept
    <3>5. QED BY <3>3, <3>4
  <2>5. QED BY <2>4 DEF OrderKept
<1>5. ASSUME NEW t \in Trains, AccessFree(t) PROVE OrderKept'
  <2>1. /\ MoveTo(t, "freed") /\ pc[t] = "released"
        /\ Access_Order' = [Access_Order EXCEPT ![via[t]] = Tail(@)]
        /\ UNCHANGED <<via, Trains_Order, ahead>>
    BY <1>5 DEF AccessFree, platformVars
  <2>2. OnlyMoves(t, pc, via, pc', via') /\ pc'[t] = "freed" /\ via[t] \in Segments
    BY <2>1, MovesAlone
  <2>3. /\ Access_Order'[via[t]] = Tail(Access_Order[via[t]])
        /\ \A e \in Segments \ {via[t]} : Access_Order'[e] = Access_Order[e]
        /\ Head(Access_Order[via[t]]) = t
    BY <2>1, <2>2 DEF TypeOK, PassedIsFirst, PassedPlaces, FirstOfSegment
  <2>4. ASSUME NEW y \in Trains, Coming(y)', NEW u \in ahead'[y] PROVE Before(u, y)'
    <3>1. u \in Trains /\ Before(u, y) /\ via[y] \in Segments
      BY <2>1, <2>2, <2>4 DEF OrderKept, OnlyMoves, TypeOK
    <3>2. /\ Coming(u)'
          /\ pc'[u] \in AccessPlaces => u # t /\ pc[u] \in AccessPlaces
          /\ pc'[y] \in AwaitPlaces => pc[y] \in AwaitPlaces
      BY <2>1, <2>2, <3>1 DEF Before, OnlyMoves, AccessPlaces, AwaitPlaces
    <3>3. ASSUME u # t, Ahead(u, y, Access_Order[via[y]])
          PROVE  Ahead(u, y, Access_Order'[via[y]])
      <4>1. CASE via[y] = via[t]
        <5> DEFINE q == Access_Order[via[t]]
        <5>1. q \in Seq(Trains) /\ Ahead(u, y, q) /\ u # Head(q)
          BY <2>2, <2>3, <3>3, <4>1 DEF TypeOK
        <5>2. Ahead(u, y, Tail(q))
          BY <5>1, AheadTail
        <5>3. QED BY <2>3, <4>1, <5>2
      <4>2. CASE via[y] # via[t]
        BY <2>3, <3>1, <3>3, <4>2
      <4>3. QED BY <4>1, <4>2
    <3>4. QED BY <2>1, <3>1, <3>2, <3>3, BeforeKept
  <2>5. QED BY <2>4 DEF OrderKept
<1>6. ASSUME NEW t \in Trains, TakeDescriptor(t) PROVE OrderKept'
  <2>1. /\ OnlyMoves(t, pc, via, pc', via')
        /\ pc[t] = "standing" /\ pc'[t] = "departing"
        /\ UNCHANGED <<via, Access_Order, Trains_Order, ahead>>
    BY <1>6 DEF TakeDescriptor, accessVars, platformVars, MoveTo, OnlyMoves, TypeOK
  <2>2. ASSUME NEW y \in Trains, Coming(y)', NEW u \in ahead'[y] PROVE Before(u, y)'
    <3>1. y # t /\ pc'[y] = pc[y]
      BY <2>1, <2>2 DEF OnlyMoves
    <3>2. u \in Trains /\ Before(u, y)
      BY <2>1, <2>2, <3>1 DEF OrderKept, TypeOK
    <3>3. pc'[u] = pc[u]
      BY <2>1, <3>2 DEF Before, OnlyMoves
    <3>4. QED BY <2>1, <3>1, <3>2, <3>3, BeforeKept DEF Before
  <2>3. QED BY <2>2 DEF OrderKept
<1>7. ASSUME NEW t \in Trains, Leave(t) PROVE OrderKept'
  <2>1. /\ MoveTo(t, "away") /\ pc[t] = "departing"
        /\ Trains_Order' = Tail(Trains_Order)
        /\ UNCHANGED <<via, Access_Order, ahead>>
    BY <1>7 DEF Leave, accessVars
  <2>2. OnlyMoves(t, pc, via, pc', via') /\ pc'[t] = "away"
    BY <2>1, MovesAlone
  <2>3. Head(Trains_Order) = t
    BY <2>1 DEF TurnKept, HasTurn
  <2>4. ASSUME NEW y \in Trains, Coming(y)', NEW u \in ahead'[y] PROVE Before(u, y)'
    <3>1. y # t /\ pc'[y] = pc[y]
      BY <2>2, <2>4 DEF OnlyMoves
    <3>2. u \in Trains /\ Before(u, y)
      BY <2>1, <2>4, <3>1 DEF OrderKept, TypeOK
    <3>3. u # t /\ pc'[u] = pc[u]
      BY <2>1, <2>2, <3>2 DEF Before, OnlyMoves
    <3>4. Ahead(u, y, Trains_Order) => Ahead(u, y, Trains_Order')
      BY <2>1, <2>3, <3>3, AheadTail DEF TypeOK
    <3>5. QED BY <2>1, <3>1, <3>2, <3>3, <3>4, BeforeKept DEF Before
  <2>5. QED BY <2>4 DEF OrderKept
<1>8. CASE NoTrainMoves
  BY <1>8 DEF NoTrainMoves, OrdersStay, OrderKept, Before
<1>9. QED BY <1>1, <1>2, <1>3, <1>4, <1>5, <1>6, <1>7, <1>8 DEF KindOfStep
-----------------------------------------------------------------------------
(* The invariant and what follows from it. *)

LEMMA PlatformInvInit == Init => PlatformInv
<1> SUFFICES ASSUME Init PROVE PlatformInv
  OBVIOUS
<1>1. TypeOK
  <2>1. GateTypeOK
    BY GateInitType DEF Init
  <2>2. <<>> \in Seq(Trains) /\ 0 \in Nat
    OBVIOUS
  <2>3. /\ pc \in [Trains -> Locations] /\ via \in [Trains -> Segments]
        /\ ahead \in [Trains -> SUBSET Trains]
    BY DEF Init, Locations
  <2>4. /\ Access_Order \in [Segments -> Seq(Trains)] /\ waitQ \in [Segments -> Seq(Trains)]
        /\ Trains_Waiting \in [Segments -> Nat] /\ Can_Access \in [Segments -> BOOLEAN]
    BY <2>2 DEF Init
  <2>5. QED BY <2>1, <2>2, <2>3, <2>4 DEF Init, TypeOK
<1>2. QueuesMatch
  BY LineEmpty DEF Init, QueuesMatch, AccessMatches, WaitMatches, OrderMatches,
                   EnterMatches, RetryMatches
<1>3. NoneMissing /\ PassedIsFirst /\ OrderKept /\ TurnKept
  BY DEF Init, NoneMissing, PassedIsFirst, OrderKept, TurnKept, Coming, AccessPlaces,
         PlatformPlaces, PassedPlaces
<1>4. CountersAgree
  BY DEF Init, CountersAgree
<1>5. QED BY <1>1, <1>2, <1>3, <1>4 DEF PlatformInv

LEMMA PlatformInvStep == PlatformInv /\ [Next]_vars => PlatformInv'
<1> SUFFICES ASSUME PlatformInv, [Next]_vars PROVE PlatformInv'
  OBVIOUS
<1>1. KindOfStep
  BY StepKinds DEF PlatformInv
<1>2. TypeOK' /\ QueuesMatch' /\ CountersAgree'
  BY TypesStep, QueuesStep, CountersStep DEF PlatformInv
<1>3. NoneMissing' /\ PassedIsFirst' /\ OrderKept' /\ TurnKept'
  BY <1>1, NoneMissingStep, PassedIsFirstStep, OrderStep, TurnStep DEF PlatformInv
<1>4. QED BY <1>2, <1>3 DEF PlatformInv

LEMMA PlatformInvHolds == Spec => []PlatformInv
BY PlatformInvInit, PlatformInvStep, PTL DEF Spec

\* The state of the access controllers and of the platform has its types: no train
\* is taken out of an empty order or queue, and no counter goes below zero
\* (generic_station.adb, platform.adb).
THEOREM StationTypes == Spec => []TypeOK
<1>1. PlatformInv => TypeOK
  BY DEF PlatformInv
<1>2. QED BY <1>1, PlatformInvHolds, PTL

\* Until it is terminated, the platform is given to one train at a time; trains
\* that come through one segment stand there in the order in which they left the
\* segment; and a train that leaves takes its own place out of the order, although
\* Leave dequeues whichever is first (platform.adb:88-215).
THEOREM PlatformIsOrdered == Spec => PlatformInOrder
<1>1. PlatformInv => PlatformExclusion
  <2>1. SUFFICES ASSUME PlatformInv, ~Terminated, NEW t \in Trains, AtPlatform(t)
                 PROVE  Trains_Order # <<>> /\ Head(Trains_Order) = t
    BY DEF PlatformExclusion
  <2>2. StandsIn(t, Trains_Order) /\ HasTurn(t)
    BY <2>1 DEF PlatformInv, NoneMissing, TurnKept, AtPlatform, PlatformPlaces
  <2>3. QED BY <2>2, StandsInNonEmpty DEF HasTurn
<1> DEFINE Kept ==
        \A t \in Trains :
            /\ pc[t] # "standing" /\ pc'[t] = "standing" /\ ~Terminated => ahead[t] = {}
            /\ pc[t] = "departing" /\ pc'[t] = "away" => Head(Trains_Order) = t
<1>2. PlatformInv /\ [Next]_vars => Kept
  <2>1. SUFFICES ASSUME PlatformInv, [Next]_vars PROVE Kept
    OBVIOUS
  <2>2. KindOfStep
    BY <2>1, StepKinds DEF PlatformInv
  <2>3. ASSUME NEW t \in Trains, pc[t] # "standing", pc'[t] = "standing", ~Terminated
        PROVE  ahead[t] = {}
    <3>1. Stands(t)
      BY <2>1, <2>2, <2>3
      DEF KindOfStep, Add_Train, Passes, Proceeds, Stands, Stand, JoinPlatform,
          AccessFree, TakeDescriptor, Leave, NoTrainMoves, MoveTo, PlatformInv, TypeOK
    <3>2. pc[t] \in {"Enter", "Retry"} /\ HasTurn(t)
      BY <2>3, <3>1 DEF Stands
    <3>3. ASSUME NEW u \in ahead[t] PROVE FALSE
      <4>1. Ahead(u, Head(Trains_Order), Trains_Order)
        BY <2>1, <3>2, <3>3
        DEF PlatformInv, OrderKept, Before, Coming, AwaitPlaces, HasTurn
      <4>2. Trains_Order \in Line(At(pc, via, PlatformPlaces, Segments))
        BY <2>1 DEF PlatformInv, QueuesMatch, OrderMatches
      <4>3. QED BY <4>1, <4>2, HeadFirst
    <3>4. QED BY <3>3
  <2>4. ASSUME NEW t \in Trains, pc[t] = "departing" PROVE Head(Trains_Order) = t
    BY <2>1, <2>4 DEF PlatformInv, TurnKept, HasTurn
  <2>5. QED BY <2>3, <2>4
<1>3. Spec => []PlatformExclusion
  BY <1>1, PlatformInvHolds, PTL
<1>4. Spec => PlacesKept
  <2>1. Spec => [][Kept]_vars
    BY <1>2, PlatformInvHolds, PTL DEF Spec
  <2>2. QED BY <2>1 DEF PlacesKept
<1>5. QED BY <1>3, <1>4 DEF PlatformInOrder
=============================================================================
