--------------------------- MODULE SegmentProofs ---------------------------
(***************************************************************************)
(* Proofs about the segment of Segment and SegmentOrder, for any number of    *)
(* trains and stations, any speeds and any bound Max.                        *)
(***************************************************************************)
EXTENDS SegmentOrder, PriorityAccessProofs

EnterPlaces == {"added", "ordered", "Enter", "Retry"}
TrackPlaces == {"running", "Leave", "Retry_Leave"}

\* A queue holds trains whose task is at that queue, each of them once; a
\* train waits at, and runs from, the end it came from.
EnterMatches == enterQ \in Line(At(pc, origin, {"Enter"}, Origins))
RetryMatches == retryQ \in Line(At(pc, origin, {"Retry"}, Origins))
PerformMatches == performQ \in Line(At(pc, origin, {"Perform_Enter"}, Ends))
WaitMatches(e) == waitQ[e] \in Line(At(pc, origin, {"Retry_End"}, {e}))
LeaveMatches == leaveQ \in Line(At(pc, origin, {"Leave"}, Origins))
RetryLeaveMatches == retryLeaveQ \in Line(At(pc, origin, {"Retry_Leave"}, Origins))
RunningMatches ==
    Running_Trains \in Line(At(pc, origin, TrackPlaces, {Current_Direction}))

QueuesMatch ==
    /\ EnterMatches
    /\ RetryMatches
    /\ PerformMatches
    /\ \A e \in Ends : WaitMatches(e)
    /\ LeaveMatches
    /\ RetryLeaveMatches
    /\ RunningMatches

\* Nobody who is on the track or has registered is missing from the lists.
NoneMissing ==
    /\ \A t \in Trains : pc[t] \in TrackPlaces => StandsIn(t, Running_Trains)
    /\ \A t \in Trains : pc[t] \in EnterPlaces => StandsIn(t, Trains_Order)

\* Free and Trains_Number tell how many trains run.
TrackCounted ==
    /\ Free <=> Running_Trains = <<>>
    /\ Trains_Number = Len(Running_Trains)

\* While trains are let in again at an end, no train asks to leave: the trains
\* that entered since the segment was free have not run through it yet.
NoneLeavesWhileEntering ==
    \A e \in Ends : Can_Enter[e] => leaveQ = <<>> /\ retryLeaveQ = <<>>

\* What every running train was given is at least what the next one may get.
SlowestKnown ==
    \A i \in 1..Len(Running_Trains) :
        \/ speed[Running_Trains[i]] >= Segment_Max_Speed
        \/ speed[Running_Trains[i]] >= Current_Max_Speed

IInv ==
    /\ TypeOK
    /\ QueuesMatch
    /\ NoneMissing
    /\ TrackCounted
    /\ RetryCounters
    /\ NoneLeavesWhileEntering
    /\ SlowestKnown
    /\ NoCatchUp
-----------------------------------------------------------------------------
\* Who is at the head of each queue.
LEMMA EnterHead ==
    ASSUME EnterMatches, enterQ # <<>>
    PROVE  Head(enterQ) \in Trains /\ pc[Head(enterQ)] = "Enter"
BY QueueHead DEF EnterMatches

LEMMA RetryHead ==
    ASSUME RetryMatches, retryQ # <<>>
    PROVE  Head(retryQ) \in Trains /\ pc[Head(retryQ)] = "Retry"
BY QueueHead DEF RetryMatches

LEMMA PerformHead ==
    ASSUME PerformMatches, performQ # <<>>
    PROVE  /\ Head(performQ) \in Trains /\ pc[Head(performQ)] = "Perform_Enter"
           /\ origin[Head(performQ)] \in Ends
BY QueueHead DEF PerformMatches

LEMMA WaitHead ==
    ASSUME NEW e, WaitMatches(e), waitQ[e] # <<>>
    PROVE  /\ Head(waitQ[e]) \in Trains /\ pc[Head(waitQ[e])] = "Retry_End"
           /\ origin[Head(waitQ[e])] = e
BY QueueHead DEF WaitMatches

LEMMA LeaveHead ==
    ASSUME LeaveMatches, leaveQ # <<>>
    PROVE  Head(leaveQ) \in Trains /\ pc[Head(leaveQ)] = "Leave"
BY QueueHead DEF LeaveMatches

LEMMA RetryLeaveHead ==
    ASSUME RetryLeaveMatches, retryLeaveQ # <<>>
    PROVE  Head(retryLeaveQ) \in Trains /\ pc[Head(retryLeaveQ)] = "Retry_Leave"
BY QueueHead DEF RetryLeaveMatches

\* The queues that a step of train t from another place does not touch.
OneMoves(t) == OnlyMoves(t, pc, origin, pc', origin')

LEMMA EnterKept ==
    ASSUME EnterMatches, NEW t, OneMoves(t), pc[t] # "Enter", enterQ' = enterQ
    PROVE  EnterMatches'
<1>1. pc[t] \notin {"Enter"}
  OBVIOUS
<1>2. QED BY <1>1, QueueKept DEF EnterMatches, OneMoves

LEMMA RetryKept ==
    ASSUME RetryMatches, NEW t, OneMoves(t), pc[t] # "Retry", retryQ' = retryQ
    PROVE  RetryMatches'
<1>1. pc[t] \notin {"Retry"}
  OBVIOUS
<1>2. QED BY <1>1, QueueKept DEF RetryMatches, OneMoves

LEMMA PerformKept ==
    ASSUME PerformMatches, NEW t, OneMoves(t), pc[t] # "Perform_Enter",
           performQ' = performQ
    PROVE  PerformMatches'
<1>1. pc[t] \notin {"Perform_Enter"}
  OBVIOUS
<1>2. QED BY <1>1, QueueKept DEF PerformMatches, OneMoves

LEMMA WaitKept ==
    ASSUME NEW e, WaitMatches(e), NEW t, OneMoves(t), pc[t] # "Retry_End",
           waitQ'[e] = waitQ[e]
    PROVE  WaitMatches(e)'
<1>1. pc[t] \notin {"Retry_End"}
  OBVIOUS
<1>2. QED BY <1>1, QueueKept DEF WaitMatches, OneMoves

LEMMA WaitElsewhereKept ==
    ASSUME NEW e, WaitMatches(e), NEW t, OneMoves(t), origin[t] # e, waitQ'[e] = waitQ[e]
    PROVE  WaitMatches(e)'
<1>1. At(pc, origin, {"Retry_End"}, {e}) \subseteq At(pc', origin', {"Retry_End"}, {e})
  BY DEF At, OneMoves, OnlyMoves
<1>2. QED BY <1>1, LineMonotone DEF WaitMatches

LEMMA WaitsKept ==
    ASSUME \A e \in Ends : WaitMatches(e), NEW t, OneMoves(t), pc[t] # "Retry_End",
           waitQ' = waitQ
    PROVE  \A e \in Ends : WaitMatches(e)'
BY WaitKept

LEMMA LeaveKept ==
    ASSUME LeaveMatches, NEW t, OneMoves(t), pc[t] # "Leave", leaveQ' = leaveQ
    PROVE  LeaveMatches'
<1>1. pc[t] \notin {"Leave"}
  OBVIOUS
<1>2. QED BY <1>1, QueueKept DEF LeaveMatches, OneMoves

LEMMA RetryLeaveKept ==
    ASSUME RetryLeaveMatches, NEW t, OneMoves(t), pc[t] # "Retry_Leave",
           retryLeaveQ' = retryLeaveQ
    PROVE  RetryLeaveMatches'
<1>1. pc[t] \notin {"Retry_Leave"}
  OBVIOUS
<1>2. QED BY <1>1, QueueKept DEF RetryLeaveMatches, OneMoves

LEMMA RunningKept ==
    ASSUME RunningMatches, NEW t, OneMoves(t), pc[t] \notin TrackPlaces,
           UNCHANGED <<Running_Trains, Current_Direction>>
    PROVE  RunningMatches'
BY QueueKept DEF RunningMatches, OneMoves

\* A train on the track that asks to leave stays in the list.
LEMMA RunningStays ==
    ASSUME RunningMatches, NEW t, OneMoves(t), pc'[t] \in TrackPlaces,
           UNCHANGED <<origin, Running_Trains, Current_Direction>>
    PROVE  RunningMatches'
BY QueueStays DEF RunningMatches, OneMoves

queues == <<enterQ, retryQ, performQ, waitQ, leaveQ, retryLeaveQ, Running_Trains,
            Current_Direction>>

LEMMA QueuesKept ==
    ASSUME QueuesMatch, NEW t, OneMoves(t), UNCHANGED queues,
           pc[t] \in {"idle", "gate", "added", "ordered", "left"}
    PROVE  QueuesMatch'
<1>1. pc[t] \notin TrackPlaces
  BY DEF TrackPlaces
<1>2. QED BY <1>1, EnterKept, RetryKept, PerformKept, WaitsKept, LeaveKept,
         RetryLeaveKept, RunningKept DEF QueuesMatch, queues

LEMMA RunningOnTrack ==
    ASSUME RunningMatches
    PROVE  \A i \in 1..Len(Running_Trains) :
              /\ Running_Trains[i] \in Trains
              /\ pc[Running_Trains[i]] \in TrackPlaces
              /\ origin[Running_Trains[i]] = Current_Direction
<1>1. Running_Trains \in Seq(At(pc, origin, TrackPlaces, {Current_Direction}))
  BY DEF RunningMatches, Line
<1>2. SUFFICES ASSUME NEW i \in 1..Len(Running_Trains)
               PROVE  Running_Trains[i] \in At(pc, origin, TrackPlaces, {Current_Direction})
  BY DEF At
<1>3. QED BY <1>1, ElementOfSeq

\* What a step that leaves the track or the gate alone preserves.
LEMMA TrackKept ==
    ASSUME TrackCounted, SlowestKnown, NoCatchUp, UNCHANGED <<trackVars, speed>>
    PROVE  TrackCounted' /\ SlowestKnown' /\ NoCatchUp'
BY DEF trackVars, TrackCounted, SlowestKnown, NoCatchUp

LEMMA GateKept == ASSUME GateTypeOK, UNCHANGED gateVars PROVE GateTypeOK'
BY DEF gateVars, GateTypeOK

LEMMA Moved ==
    ASSUME TypeOK, NEW t \in Trains, NEW where \in Locations, MoveTo(t, where)
    PROVE  /\ pc' \in [Trains -> Locations] /\ pc'[t] = where
           /\ UNCHANGED origin => OneMoves(t)
           /\ \A u \in Trains \ {t} : pc'[u] = pc[u]
BY DEF MoveTo, TypeOK, OneMoves, OnlyMoves
-----------------------------------------------------------------------------
LEMMA InitInv == Init => IInv
<1> SUFFICES ASSUME Init PROVE IInv
  OBVIOUS
<1>1. TypeOK
  <2>1. GateTypeOK /\ pc \in [Trains -> Locations] /\ speed \in [Trains -> Nat]
    BY GateInitType DEF Init, Locations
  <2>2. waitQ \in [Ends -> Seq(Trains)] /\ arrivals \in [Ends -> Seq(Trains)]
    BY DEF Init
  <2>3. 0 \in 0..Max /\ Segment_Max_Speed \in Nat \ {0}
    BY MaxAssumption, SpeedAssumption
  <2>4. /\ enterQ \in Seq(Trains) /\ retryQ \in Seq(Trains) /\ performQ \in Seq(Trains)
        /\ leaveQ \in Seq(Trains) /\ retryLeaveQ \in Seq(Trains)
        /\ Running_Trains \in Seq(Trains) /\ Trains_Order \in Seq(Trains)
    BY DEF Init
  <2>5. /\ Free \in BOOLEAN /\ Can_Retry \in BOOLEAN /\ Can_Retry_Leave \in BOOLEAN
        /\ Can_Enter \in [Ends -> BOOLEAN]
    BY DEF Init
  <2>6. /\ Current_Direction \in Ends \cup {"none"}
        /\ Trains_Number \in Nat /\ Retry_Num \in Nat /\ Enter_Retry_Num \in Nat
        /\ Exit_Retry_Num \in Nat
    BY DEF Init
  <2>7. QED BY <2>1, <2>2, <2>3, <2>4, <2>5, <2>6 DEF Init, TypeOK
<1>2. QueuesMatch
  BY LineEmpty DEF Init, QueuesMatch, EnterMatches, RetryMatches, PerformMatches,
     WaitMatches, LeaveMatches, RetryLeaveMatches, RunningMatches
<1>3. NoneMissing /\ TrackCounted /\ NoneLeavesWhileEntering /\ SlowestKnown /\ NoCatchUp
  BY DEF Init, NoneMissing, EnterPlaces, TrackPlaces, TrackCounted,
         NoneLeavesWhileEntering, SlowestKnown, NoCatchUp
<1>4. RetryCounters
  BY DEF Init, RetryCounters, OrderCounter, LeaveCounter, EndCounter, Ends
<1>5. QED BY <1>1, <1>2, <1>3, <1>4 DEF IInv
-----------------------------------------------------------------------------
(* Segment_Type.Enter and Segment_Type.Leave.                                *)

LEMMA AskGateInv ==
    ASSUME IInv, NEW t \in Trains, NEW s \in Origins, AskGate(t, s) PROVE IInv'
<1> USE DEF IInv
<1>1. GateTypeOK'
  BY GateStepType DEF AskGate, TypeOK
<1>2. pc' \in [Trains -> Locations] /\ pc[t] = "idle" /\ pc'[t] = "gate"
  BY DEF AskGate, MoveTo, TypeOK, Locations
<1>3. OneMoves(t)
  BY DEF AskGate, MoveTo, TypeOK, OneMoves, OnlyMoves
<1>4. TypeOK'
  BY <1>1, <1>2 DEF AskGate, TypeOK, objectVars, orderVars, trackVars,
     enterGuardVars, leaveGuardVars, enterQueues, leaveQueues
<1>5. QueuesMatch'
  BY <1>2, <1>3, QueuesKept DEF queues, AskGate, objectVars, trackVars, enterQueues,
     leaveQueues
<1>6. NoneMissing'
  BY <1>2, <1>3 DEF NoneMissing, AskGate, objectVars, orderVars, trackVars,
     OneMoves, OnlyMoves, EnterPlaces, TrackPlaces
<1>7. TrackCounted' /\ SlowestKnown' /\ NoCatchUp'
  BY TrackKept DEF AskGate, objectVars
<1>8. RetryCounters' /\ NoneLeavesWhileEntering'
  BY DEF AskGate, objectVars, orderVars, enterGuardVars, leaveGuardVars, enterQueues,
     leaveQueues, RetryCounters, OrderCounter, LeaveCounter, EndCounter,
     NoneLeavesWhileEntering
<1>9. QED BY <1>4, <1>5, <1>6, <1>7, <1>8

LEMMA PassGateInv == ASSUME IInv, PassGate PROVE IInv'
<1> USE DEF IInv
<1>1. UNCHANGED <<trainVars, objectVars>> /\ GateTypeOK'
  BY GateStepType DEF PassGate, TypeOK
<1>2. TypeOK'
  BY <1>1 DEF TypeOK, trainVars, objectVars, orderVars, trackVars, enterGuardVars,
     leaveGuardVars, enterQueues, leaveQueues
<1>3. QueuesMatch' /\ NoneMissing'
  BY <1>1 DEF trainVars, objectVars, orderVars, trackVars, enterQueues, leaveQueues,
     QueuesMatch, EnterMatches, RetryMatches, PerformMatches, WaitMatches, LeaveMatches,
     RetryLeaveMatches, RunningMatches, NoneMissing
<1>4. TrackCounted' /\ SlowestKnown' /\ NoCatchUp'
  BY <1>1, TrackKept DEF trainVars, objectVars
<1>5. RetryCounters' /\ NoneLeavesWhileEntering'
  BY <1>1 DEF objectVars, orderVars, enterGuardVars, leaveGuardVars, enterQueues,
     leaveQueues, RetryCounters, OrderCounter, LeaveCounter, EndCounter,
     NoneLeavesWhileEntering
<1>6. QED BY <1>2, <1>3, <1>4, <1>5

LEMMA Add_TrainInv == ASSUME IInv, NEW t \in Trains, Add_Train(t) PROVE IInv'
<1> USE DEF IInv
<1>1. pc' \in [Trains -> Locations] /\ pc[t] = "gate" /\ pc'[t] = "added" /\ OneMoves(t)
  BY Moved DEF Add_Train, Locations
<1>2. Trains_Order' \in Seq(Trains)
  BY DEF Add_Train, TypeOK
<1>3. TypeOK'
  BY <1>1, <1>2, GateKept DEF Add_Train, TypeOK, trackVars, enterGuardVars,
     leaveGuardVars, enterQueues, leaveQueues
<1>4. QueuesMatch'
  BY <1>1, QueuesKept DEF queues, Add_Train, trackVars, enterQueues, leaveQueues
<1>5. NoneMissing'
  <2>1. \A u \in Trains : pc'[u] \in EnterPlaces => StandsIn(u, Trains_Order')
    BY <1>1, StandsInAppend DEF NoneMissing, Add_Train, TypeOK, OneMoves, OnlyMoves,
       EnterPlaces
  <2>2. \A u \in Trains : pc'[u] \in TrackPlaces => StandsIn(u, Running_Trains')
    BY <1>1 DEF NoneMissing, Add_Train, trackVars, OneMoves, OnlyMoves, TrackPlaces
  <2>3. QED BY <2>1, <2>2 DEF NoneMissing
<1>6. TrackCounted' /\ SlowestKnown' /\ NoCatchUp'
  BY TrackKept DEF Add_Train
<1>7. RetryCounters' /\ NoneLeavesWhileEntering'
  BY DEF Add_Train, enterGuardVars, leaveGuardVars, enterQueues, leaveQueues,
     RetryCounters, OrderCounter, LeaveCounter, EndCounter, NoneLeavesWhileEntering
<1>8. QED BY <1>3, <1>4, <1>5, <1>6, <1>7

LEMMA ReleaseGateInv == ASSUME IInv, NEW t \in Trains, ReleaseGate(t) PROVE IInv'
<1> USE DEF IInv
<1>1. pc' \in [Trains -> Locations] /\ pc[t] = "added" /\ pc'[t] = "ordered" /\ OneMoves(t)
  BY Moved DEF ReleaseGate, Locations
<1>2. GateTypeOK'
  BY GateStepType DEF ReleaseGate, TypeOK
<1>3. TypeOK'
  BY <1>1, <1>2 DEF ReleaseGate, TypeOK, objectVars, orderVars, trackVars,
     enterGuardVars, leaveGuardVars, enterQueues, leaveQueues
<1>4. QueuesMatch'
  BY <1>1, QueuesKept DEF queues, ReleaseGate, objectVars, trackVars, enterQueues,
     leaveQueues
<1>5. NoneMissing'
  BY <1>1 DEF NoneMissing, ReleaseGate, objectVars, orderVars, trackVars, OneMoves,
     OnlyMoves, EnterPlaces, TrackPlaces
<1>6. TrackCounted' /\ SlowestKnown' /\ NoCatchUp'
  BY TrackKept DEF ReleaseGate, objectVars
<1>7. RetryCounters' /\ NoneLeavesWhileEntering'
  BY DEF ReleaseGate, objectVars, orderVars, enterGuardVars, leaveGuardVars,
     enterQueues, leaveQueues, RetryCounters, OrderCounter, LeaveCounter, EndCounter,
     NoneLeavesWhileEntering
<1>8. QED BY <1>3, <1>4, <1>5, <1>6, <1>7

LEMMA CallEnterInv == ASSUME IInv, NEW t \in Trains, CallEnter(t) PROVE IInv'
<1> USE DEF IInv
<1>1. pc' \in [Trains -> Locations] /\ pc[t] = "ordered" /\ pc'[t] = "Enter" /\ OneMoves(t)
  BY Moved DEF CallEnter, Locations
<1>2. TypeOK'
  BY <1>1, GateKept DEF CallEnter, TypeOK, orderVars, trackVars, enterGuardVars,
     leaveGuardVars, leaveQueues
<1>3. QueuesMatch'
  <2>1. EnterMatches'
    <3>1. /\ pc[t] \notin {"Enter"} /\ pc'[t] \in {"Enter"} /\ origin'[t] \in Origins
          /\ enterQ' = Append(enterQ, t)
      BY <1>1 DEF CallEnter, TypeOK
    <3>2. QED BY <1>1, <3>1, QueueJoined DEF QueuesMatch, EnterMatches, OneMoves
  <2>2. pc[t] \notin TrackPlaces
    BY <1>1 DEF TrackPlaces
  <2>3. QED BY <1>1, <2>1, <2>2, RetryKept, PerformKept, WaitsKept, LeaveKept,
            RetryLeaveKept, RunningKept DEF QueuesMatch, CallEnter, trackVars, leaveQueues
<1>4. NoneMissing'
  BY <1>1 DEF NoneMissing, CallEnter, orderVars, trackVars, OneMoves, OnlyMoves,
     EnterPlaces, TrackPlaces
<1>5. TrackCounted' /\ SlowestKnown' /\ NoCatchUp'
  BY TrackKept DEF CallEnter
<1>6. RetryCounters' /\ NoneLeavesWhileEntering'
  BY DEF CallEnter, orderVars, enterGuardVars, leaveGuardVars, leaveQueues,
     RetryCounters, OrderCounter, LeaveCounter, EndCounter, NoneLeavesWhileEntering
<1>7. QED BY <1>2, <1>3, <1>4, <1>5, <1>6

\* A train calls Leave only when nobody is let in at an end: the guard of an
\* end is open only while someone waits there, and then no new call is taken.
LEMMA CallLeaveInv == ASSUME IInv, NEW t \in Trains, CallLeave(t) PROVE IInv'
<1> USE DEF IInv
<1>1. pc' \in [Trains -> Locations] /\ pc[t] = "running" /\ pc'[t] = "Leave" /\ OneMoves(t)
  BY Moved DEF CallLeave, Locations
<1>2. TypeOK'
  BY <1>1, GateKept DEF CallLeave, TypeOK, orderVars, trackVars, enterGuardVars,
     leaveGuardVars, enterQueues
<1>3. QueuesMatch'
  <2>1. LeaveMatches'
    <3>1. /\ pc[t] \notin {"Leave"} /\ pc'[t] \in {"Leave"} /\ origin'[t] \in Origins
          /\ leaveQ' = Append(leaveQ, t)
      BY <1>1 DEF CallLeave, TypeOK
    <3>2. QED BY <1>1, <3>1, QueueJoined DEF QueuesMatch, LeaveMatches, OneMoves
  <2>2. pc'[t] \in TrackPlaces
    BY <1>1 DEF TrackPlaces
  <2>3. QED BY <1>1, <2>1, <2>2, EnterKept, RetryKept, PerformKept, WaitsKept,
            RetryLeaveKept, RunningStays DEF QueuesMatch, CallLeave, trackVars, enterQueues
<1>4. NoneMissing'
  BY <1>1 DEF NoneMissing, CallLeave, orderVars, trackVars, OneMoves, OnlyMoves,
     EnterPlaces, TrackPlaces
<1>5. TrackCounted' /\ SlowestKnown' /\ NoCatchUp'
  BY TrackKept DEF CallLeave
<1>6. \A e \in Ends : ~Can_Enter[e]
  <2>1. SUFFICES ASSUME NEW e \in Ends, Can_Enter[e] PROVE FALSE
    OBVIOUS
  <2>2. waitQ[e] = <<>> /\ Enter_Retry_Num <= Len(waitQ[e]) /\ Enter_Retry_Num > 0
    BY <2>1 DEF CallLeave, Quiescent, RetryCounters, EndCounter
  <2>3. Len(waitQ[e]) = 0 /\ Enter_Retry_Num \in Nat
    BY <2>2 DEF TypeOK
  <2>4. QED BY <2>2, <2>3
<1>7. RetryCounters' /\ NoneLeavesWhileEntering'
  BY <1>6 DEF CallLeave, orderVars, enterGuardVars, leaveGuardVars, enterQueues,
     RetryCounters, OrderCounter, LeaveCounter, EndCounter, NoneLeavesWhileEntering
<1>8. QED BY <1>2, <1>3, <1>4, <1>5, <1>7

LEMMA SettleInv == ASSUME IInv, NEW t \in Trains, Settle(t) PROVE IInv'
<1> USE DEF IInv
<1>1. pc' \in [Trains -> Locations] /\ pc[t] = "left" /\ pc'[t] = "idle" /\ OneMoves(t)
  BY Moved DEF Settle, Locations
<1>2. arrivals' \in [Ends -> Seq(Trains)]
  BY DEF Settle, TypeOK
<1>3. TypeOK'
  BY <1>1, <1>2, GateKept DEF Settle, TypeOK, orderVars, trackVars, enterGuardVars,
     leaveGuardVars, enterQueues, leaveQueues
<1>4. QueuesMatch'
  BY <1>1, QueuesKept DEF queues, Settle, trackVars, enterQueues, leaveQueues
<1>5. NoneMissing'
  BY <1>1 DEF NoneMissing, Settle, orderVars, trackVars, OneMoves, OnlyMoves,
     EnterPlaces, TrackPlaces
<1>6. TrackCounted' /\ SlowestKnown' /\ NoCatchUp'
  BY TrackKept DEF Settle
<1>7. RetryCounters' /\ NoneLeavesWhileEntering'
  BY DEF Settle, orderVars, enterGuardVars, leaveGuardVars, enterQueues, leaveQueues,
     RetryCounters, OrderCounter, LeaveCounter, EndCounter, NoneLeavesWhileEntering
<1>8. QED BY <1>3, <1>4, <1>5, <1>6, <1>7
-----------------------------------------------------------------------------
(* The entries of Segment_Access_Controller.                                 *)

LEMMA RetryInv == ASSUME IInv, Retry PROVE IInv'
<1> DEFINE t == Head(retryQ)
<1> USE DEF IInv
<1>0. t \in Trains /\ pc[t] = "Retry" /\ retryQ # <<>>
  BY RetryHead DEF Retry, QueuesMatch
<1>1. pc' \in [Trains -> Locations] /\ pc'[t] = "Enter" /\ OneMoves(t)
  BY <1>0, Moved DEF Retry, Locations
<1>2. Retry_Num \in Nat \ {0} /\ Len(retryQ) \in Nat /\ Retry_Num <= Len(retryQ)
  BY SMTT(30) DEF Retry, RetryCounters, OrderCounter, TypeOK
<1>3. /\ enterQ' \in Seq(Trains)
      /\ retryQ' \in Seq(Trains) /\ Len(retryQ') = Len(retryQ) - 1
  BY <1>0 DEF Retry, TypeOK
<1>4. TypeOK'
  BY SMTT(30), <1>1, <1>2, <1>3, GateKept DEF Retry, TypeOK, StaysOpen, trackVars, enterGuardVars,
     leaveGuardVars, leaveQueues
<1>5. QueuesMatch'
  <2>1. RetryMatches'
    BY <1>0, <1>1, QueueLeft DEF QueuesMatch, RetryMatches, Retry, OneMoves
  <2>2. EnterMatches'
    <3>1. pc[t] \notin {"Enter"} /\ pc'[t] \in {"Enter"} /\ origin'[t] \in Origins
      BY <1>0, <1>1 DEF Retry, TypeOK
    <3>2. enterQ' = Append(enterQ, t)
      BY DEF Retry
    <3>3. QED BY <1>0, <1>1, <3>1, <3>2, QueueJoined DEF QueuesMatch, EnterMatches, OneMoves
  <2>3. pc[t] \notin TrackPlaces
    BY <1>0 DEF TrackPlaces
  <2>4. QED BY <1>0, <1>1, <2>1, <2>2, <2>3, PerformKept, WaitsKept, LeaveKept,
            RetryLeaveKept, RunningKept DEF QueuesMatch, Retry, trackVars, leaveQueues
<1>6. NoneMissing'
  BY <1>0, <1>1 DEF NoneMissing, Retry, trackVars, OneMoves, OnlyMoves, EnterPlaces,
     TrackPlaces
<1>7. TrackCounted' /\ SlowestKnown' /\ NoCatchUp'
  BY TrackKept DEF Retry
<1>8. OrderCounter'
  <2>1. Retry_Num' = Retry_Num - 1 /\ (Can_Retry' <=> Retry_Num # 1)
    BY DEF Retry, StaysOpen
  <2>2. QED BY <1>2, <1>3, <2>1 DEF OrderCounter
<1>9. RetryCounters' /\ NoneLeavesWhileEntering'
  BY <1>8 DEF Retry, enterGuardVars, leaveGuardVars, leaveQueues, RetryCounters,
     LeaveCounter, EndCounter, NoneLeavesWhileEntering
<1>10. QED BY <1>4, <1>5, <1>6, <1>7, <1>9

LEMMA EnterFromElsewhereInv == ASSUME IInv, EnterFromElsewhere PROVE IInv'
<1> DEFINE t == Head(enterQ)
<1> USE DEF IInv
<1>0. t \in Trains /\ pc[t] = "Enter" /\ enterQ # <<>>
  BY EnterHead DEF EnterFromElsewhere, QueuesMatch
<1>1. pc' \in [Trains -> Locations] /\ pc'[t] = "dropped" /\ OneMoves(t)
  BY <1>0, Moved DEF EnterFromElsewhere, Locations
<1>2. enterQ' \in Seq(Trains)
  BY <1>0 DEF EnterFromElsewhere, TypeOK
<1>3. TypeOK'
  BY <1>1, <1>2, GateKept DEF EnterFromElsewhere, TypeOK, orderVars, trackVars,
     enterGuardVars, leaveGuardVars, leaveQueues
<1>4. QueuesMatch'
  <2>1. EnterMatches'
    BY <1>0, <1>1, QueueLeft DEF QueuesMatch, EnterMatches, EnterFromElsewhere, OneMoves
  <2>2. pc[t] \notin TrackPlaces
    BY <1>0 DEF TrackPlaces
  <2>3. QED BY <1>0, <1>1, <2>1, <2>2, RetryKept, PerformKept, WaitsKept, LeaveKept,
            RetryLeaveKept, RunningKept
            DEF QueuesMatch, EnterFromElsewhere, trackVars, leaveQueues
<1>5. NoneMissing'
  BY <1>0, <1>1 DEF NoneMissing, EnterFromElsewhere, orderVars, trackVars, OneMoves,
     OnlyMoves, EnterPlaces, TrackPlaces
<1>6. TrackCounted' /\ SlowestKnown' /\ NoCatchUp'
  BY TrackKept DEF EnterFromElsewhere
<1>7. RetryCounters' /\ NoneLeavesWhileEntering'
  BY DEF EnterFromElsewhere, orderVars, enterGuardVars, leaveGuardVars, leaveQueues,
     RetryCounters, OrderCounter, LeaveCounter, EndCounter, NoneLeavesWhileEntering
<1>8. QED BY <1>3, <1>4, <1>5, <1>6, <1>7

LEMMA EnterOutOfOrderInv == ASSUME IInv, EnterOutOfOrder PROVE IInv'
<1> DEFINE t == Head(enterQ)
<1> USE DEF IInv
<1>0. t \in Trains /\ pc[t] = "Enter" /\ enterQ # <<>>
  BY EnterHead DEF EnterOutOfOrder, QueuesMatch
<1>1. pc' \in [Trains -> Locations] /\ pc'[t] = "Retry" /\ OneMoves(t)
  BY <1>0, Moved DEF EnterOutOfOrder, Locations
<1>2. /\ enterQ' \in Seq(Trains)
      /\ retryQ' \in Seq(Trains) /\ Len(retryQ') = Len(retryQ) + 1
  BY <1>0 DEF EnterOutOfOrder, TypeOK
<1>3. TypeOK'
  BY <1>1, <1>2, GateKept DEF EnterOutOfOrder, TypeOK, orderVars, trackVars,
     enterGuardVars, leaveGuardVars, leaveQueues
<1>4. QueuesMatch'
  <2>1. EnterMatches'
    BY <1>0, <1>1, QueueLeft DEF QueuesMatch, EnterMatches, EnterOutOfOrder, OneMoves
  <2>2. RetryMatches'
    <3>1. pc[t] \notin {"Retry"} /\ pc'[t] \in {"Retry"} /\ origin'[t] \in Origins
      BY <1>0, <1>1 DEF EnterOutOfOrder, TypeOK
    <3>2. retryQ' = Append(retryQ, t)
      BY DEF EnterOutOfOrder
    <3>3. QED BY <1>0, <1>1, <3>1, <3>2, QueueJoined DEF QueuesMatch, RetryMatches, OneMoves
  <2>3. pc[t] \notin TrackPlaces
    BY <1>0 DEF TrackPlaces
  <2>4. QED BY <1>0, <1>1, <2>1, <2>2, <2>3, PerformKept, WaitsKept, LeaveKept,
            RetryLeaveKept, RunningKept
            DEF QueuesMatch, EnterOutOfOrder, trackVars, leaveQueues
<1>5. NoneMissing'
  BY <1>0, <1>1 DEF NoneMissing, EnterOutOfOrder, orderVars, trackVars, OneMoves,
     OnlyMoves, EnterPlaces, TrackPlaces
<1>6. TrackCounted' /\ SlowestKnown' /\ NoCatchUp'
  BY TrackKept DEF EnterOutOfOrder
<1>7. OrderCounter'
  BY <1>2 DEF EnterOutOfOrder, orderVars, RetryCounters, OrderCounter, TypeOK
<1>8. RetryCounters' /\ NoneLeavesWhileEntering'
  BY <1>7 DEF EnterOutOfOrder, enterGuardVars, leaveGuardVars, leaveQueues,
     RetryCounters, LeaveCounter, EndCounter, NoneLeavesWhileEntering
<1>9. QED BY <1>3, <1>4, <1>5, <1>6, <1>8

\* The train is in the order, since it registered itself before it called Enter.
LEMMA EnterInOrderInv == ASSUME IInv, EnterInOrder PROVE IInv'
<1> DEFINE t == Head(enterQ)
<1> USE DEF IInv
<1>0. /\ t \in Trains /\ pc[t] = "Enter" /\ enterQ # <<>>
      /\ origin[t] \in Ends /\ Head(Trains_Order) = t
  BY EnterHead DEF EnterInOrder, QueuesMatch, HasTurn
<1>1. pc' \in [Trains -> Locations] /\ pc'[t] = "Perform_Enter" /\ OneMoves(t)
  BY <1>0, Moved DEF EnterInOrder, Locations
<1>2. Trains_Order # <<>>
  BY <1>0, StandsInNonEmpty DEF NoneMissing, EnterPlaces
<1>3. /\ enterQ' \in Seq(Trains) /\ performQ' \in Seq(Trains)
      /\ Trains_Order' \in Seq(Trains)
  BY <1>0, <1>2 DEF EnterInOrder, TypeOK
<1>4. Retry_Num' \in Nat /\ Can_Retry' \in BOOLEAN /\ OrderCounter'
  <2>1. CASE retryQ # <<>>
    <3>1. Len(retryQ) \in Nat \ {0}
      BY <2>1 DEF TypeOK
    <3>2. Retry_Num' = Len(retryQ) /\ Can_Retry' = TRUE /\ retryQ' = retryQ
      BY <2>1 DEF EnterInOrder, OpenRetry
    <3>3. QED BY <3>1, <3>2 DEF OrderCounter
  <2>2. CASE retryQ = <<>>
    BY <2>2 DEF EnterInOrder, OpenRetry, TypeOK, RetryCounters, OrderCounter
  <2>3. QED BY <2>1, <2>2
<1>5. TypeOK'
  BY <1>1, <1>3, <1>4, GateKept DEF EnterInOrder, TypeOK, trackVars, enterGuardVars,
     leaveGuardVars, leaveQueues
<1>6. QueuesMatch'
  <2>1. EnterMatches'
    BY <1>0, <1>1, QueueLeft DEF QueuesMatch, EnterMatches, EnterInOrder, OneMoves
  <2>2. PerformMatches'
    <3>1. pc[t] \notin {"Perform_Enter"} /\ pc'[t] \in {"Perform_Enter"} /\ origin'[t] \in Ends
      BY <1>0, <1>1 DEF EnterInOrder
    <3>2. performQ' = Append(performQ, t)
      BY DEF EnterInOrder
    <3>3. QED BY <1>0, <1>1, <3>1, <3>2, QueueJoined DEF QueuesMatch, PerformMatches, OneMoves
  <2>3. pc[t] \notin TrackPlaces
    BY <1>0 DEF TrackPlaces
  <2>4. QED BY <1>0, <1>1, <2>1, <2>2, <2>3, RetryKept, WaitsKept, LeaveKept,
            RetryLeaveKept, RunningKept DEF QueuesMatch, EnterInOrder, trackVars, leaveQueues
<1>7. NoneMissing'
  <2>1. \A u \in Trains : pc'[u] \in EnterPlaces => StandsIn(u, Trains_Order')
    BY <1>0, <1>1, StandsInTail DEF NoneMissing, EnterInOrder, TypeOK, OneMoves,
       OnlyMoves, EnterPlaces
  <2>2. \A u \in Trains : pc'[u] \in TrackPlaces => StandsIn(u, Running_Trains')
    BY <1>1 DEF NoneMissing, EnterInOrder, trackVars, OneMoves, OnlyMoves, TrackPlaces
  <2>3. QED BY <2>1, <2>2 DEF NoneMissing
<1>8. TrackCounted' /\ SlowestKnown' /\ NoCatchUp'
  BY TrackKept DEF EnterInOrder
<1>9. RetryCounters' /\ NoneLeavesWhileEntering'
  BY <1>4 DEF EnterInOrder, enterGuardVars, leaveGuardVars, leaveQueues, RetryCounters,
     LeaveCounter, EndCounter, NoneLeavesWhileEntering
<1>10. QED BY <1>5, <1>6, <1>7, <1>8, <1>9

LEMMA PerformEnterWaitsInv == ASSUME IInv, PerformEnterWaits PROVE IInv'
<1> DEFINE t == Head(performQ)
<1> USE DEF IInv
<1>0. t \in Trains /\ pc[t] = "Perform_Enter" /\ origin[t] \in Ends /\ performQ # <<>>
  BY PerformHead DEF PerformEnterWaits, QueuesMatch
<1>1. pc' \in [Trains -> Locations] /\ pc'[t] = "Retry_End" /\ OneMoves(t)
  BY <1>0, Moved DEF PerformEnterWaits, Locations
<1>2. /\ waitQ'[origin[t]] = Append(waitQ[origin[t]], t)
      /\ \A e \in Ends \ {origin[t]} : waitQ'[e] = waitQ[e]
      /\ waitQ[origin[t]] \in Seq(Trains)
  BY <1>0 DEF PerformEnterWaits, TypeOK
<1>3. /\ performQ' \in Seq(Trains)
      /\ waitQ' \in [Ends -> Seq(Trains)]
      /\ \A e \in Ends : Len(waitQ'[e]) >= Len(waitQ[e])
  <2>1. performQ' \in Seq(Trains)
    BY <1>0 DEF PerformEnterWaits, TypeOK
  <2>2. /\ Append(waitQ[origin[t]], t) \in Seq(Trains)
        /\ Len(waitQ'[origin[t]]) = Len(waitQ[origin[t]]) + 1
    BY <1>0, <1>2
  <2>3. waitQ' \in [Ends -> Seq(Trains)]
    BY <1>0, <2>2 DEF PerformEnterWaits, TypeOK
  <2>4. \A e \in Ends : Len(waitQ[e]) \in Nat
    BY DEF TypeOK
  <2>5. QED BY SMTT(30), <1>2, <2>1, <2>2, <2>3, <2>4
<1>4. TypeOK'
  BY <1>1, <1>3, GateKept DEF PerformEnterWaits, TypeOK, orderVars, trackVars,
     enterGuardVars, leaveGuardVars, leaveQueues
<1>5. QueuesMatch'
  <2>1. PerformMatches'
    BY <1>0, <1>1, QueueLeft DEF QueuesMatch, PerformMatches, PerformEnterWaits, OneMoves
  <2>2. ASSUME NEW e \in Ends PROVE WaitMatches(e)'
    <3>1. CASE e = origin[t]
      <4>1. pc[t] \notin {"Retry_End"} /\ pc'[t] \in {"Retry_End"} /\ origin'[t] \in {e}
        BY <1>0, <1>1, <3>1 DEF PerformEnterWaits
      <4>2. /\ waitQ[e] \in Line(At(pc, origin, {"Retry_End"}, {e}))
            /\ waitQ'[e] = Append(waitQ[e], t)
        BY <1>2, <3>1 DEF QueuesMatch, WaitMatches
      <4>3. Append(waitQ[e], t) \in Line(At(pc', origin', {"Retry_End"}, {e}))
        BY <1>0, <1>1, <4>1, <4>2, QueueJoined DEF OneMoves
      <4>4. QED BY <4>2, <4>3 DEF WaitMatches
    <3>2. CASE e # origin[t]
      BY <1>0, <1>1, <1>2, <3>2, WaitElsewhereKept DEF QueuesMatch
    <3>3. QED BY <3>1, <3>2
  <2>3. pc[t] \notin TrackPlaces
    BY <1>0 DEF TrackPlaces
  <2>4. QED BY <1>0, <1>1, <2>1, <2>2, <2>3, EnterKept, RetryKept, LeaveKept,
            RetryLeaveKept, RunningKept
            DEF QueuesMatch, PerformEnterWaits, trackVars, leaveQueues
<1>6. NoneMissing'
  BY <1>0, <1>1 DEF NoneMissing, PerformEnterWaits, orderVars, trackVars, OneMoves,
     OnlyMoves, EnterPlaces, TrackPlaces
<1>7. TrackCounted' /\ SlowestKnown' /\ NoCatchUp'
  BY TrackKept DEF PerformEnterWaits
<1>8. EndCounter'
  <2>1. /\ UNCHANGED <<Can_Enter, Enter_Retry_Num>> /\ Enter_Retry_Num \in Nat
        /\ \A e \in Ends : Len(waitQ[e]) \in Nat /\ Len(waitQ'[e]) \in Nat
    BY SMTT(30), <1>3 DEF PerformEnterWaits, enterGuardVars, TypeOK
  <2>2. QED BY <1>3, <2>1 DEF RetryCounters, EndCounter
<1>9. RetryCounters' /\ NoneLeavesWhileEntering'
  BY <1>8 DEF PerformEnterWaits, orderVars, enterGuardVars, leaveGuardVars, leaveQueues,
     RetryCounters, OrderCounter, LeaveCounter, NoneLeavesWhileEntering
<1>10. QED BY <1>4, <1>5, <1>6, <1>7, <1>9

\* The new train comes from the same end as the others and gets at most the
\* speed of the slowest of them.
LEMMA PerformEnterRunsInv == ASSUME IInv, PerformEnterRuns PROVE IInv'
<1> DEFINE t == Head(performQ)
           n == Len(Running_Trains)
<1> USE DEF IInv
<1>0. t \in Trains /\ pc[t] = "Perform_Enter" /\ origin[t] \in Ends /\ performQ # <<>>
  BY PerformHead DEF PerformEnterRuns, QueuesMatch
<1>1. pc' \in [Trains -> Locations] /\ pc'[t] = "running" /\ OneMoves(t)
  BY <1>0, Moved DEF PerformEnterRuns, Locations
<1>2. /\ Current_Direction' = origin[t]
      /\ Running_Trains = <<>> \/ Current_Direction = origin[t]
  BY DEF PerformEnterRuns, MustWait, TrackCounted
<1>3. /\ Running_Trains' \in Seq(Trains) /\ performQ' \in Seq(Trains)
      /\ n \in Nat /\ Len(Running_Trains') = n + 1
      /\ \A i \in 1..n : Running_Trains'[i] = Running_Trains[i]
      /\ Running_Trains'[n + 1] = t
  BY SMTT(30), <1>0 DEF PerformEnterRuns, TypeOK
<1>4. /\ SpeedAfter(t) \in Nat \ {0} /\ SpeedAfter(t) <= Current_Max_Speed
      /\ Current_Max_Speed' = SpeedAfter(t)
  <2>1. MaxSpeed[t] \in Nat \ {0} /\ Current_Max_Speed \in Nat \ {0}
    BY <1>0, SpeedAssumption DEF TypeOK
  <2>2. QED BY <2>1 DEF PerformEnterRuns, SpeedAfter
<1>5. /\ speed' \in [Trains -> Nat]
      /\ speed'[t] = IF Segment_Max_Speed > SpeedAfter(t) THEN SpeedAfter(t)
                                                          ELSE Segment_Max_Speed
      /\ \A u \in Trains \ {t} : speed'[u] = speed[u]
  BY <1>0, <1>4, SpeedAssumption DEF PerformEnterRuns, TypeOK
<1>6. TypeOK'
  <2>1. EnteredAfter \in 0..Max
    <3>1. CASE Free
      BY <3>1, MaxAssumption DEF EnteredAfter
    <3>2. CASE ~Free /\ Train_Entered_Per_Direction = Max
      BY <3>2, MaxAssumption DEF EnteredAfter
    <3>3. CASE ~Free /\ Train_Entered_Per_Direction # Max
      <4>1. Train_Entered_Per_Direction + 1 \in 0..Max
        BY <3>3, MaxAssumption DEF TypeOK
      <4>2. QED BY <3>3, <4>1 DEF EnteredAfter
    <3>4. QED BY <3>1, <3>2, <3>3
  <2>2. /\ Train_Entered_Per_Direction' \in 0..Max /\ Free' \in BOOLEAN
        /\ Trains_Number' \in Nat /\ Current_Direction' \in Ends \cup {"none"}
        /\ Current_Max_Speed' \in Nat \ {0}
    <3>1. Train_Entered_Per_Direction' \in 0..Max /\ Free' \in BOOLEAN
      BY <2>1 DEF PerformEnterRuns
    <3>2. Trains_Number' \in Nat
      BY DEF PerformEnterRuns, TypeOK
    <3>3. QED BY <1>0, <1>2, <1>4, <3>1, <3>2
  <2>3. QED BY <1>1, <1>3, <1>5, <2>2, GateKept
            DEF PerformEnterRuns, TypeOK, orderVars, enterGuardVars, leaveGuardVars,
                leaveQueues
<1>7. QueuesMatch'
  <2>1. PerformMatches'
    BY <1>0, <1>1, QueueLeft DEF QueuesMatch, PerformMatches, PerformEnterRuns, OneMoves
  <2>2. RunningMatches'
    <3>1. Running_Trains \in Line(At(pc, origin, TrackPlaces, {Current_Direction'}))
      BY <1>2, LineEmpty DEF QueuesMatch, RunningMatches
    <3>2. pc[t] \notin TrackPlaces /\ pc'[t] \in TrackPlaces
      BY <1>0, <1>1 DEF TrackPlaces
    <3>3. Running_Trains' = Append(Running_Trains, t) /\ origin'[t] \in {Current_Direction'}
      BY <1>2 DEF PerformEnterRuns
    <3>4. QED BY <1>0, <1>1, <3>1, <3>2, <3>3, QueueJoined DEF RunningMatches, OneMoves
  <2>3. QED BY <1>0, <1>1, <2>1, <2>2, EnterKept, RetryKept, WaitsKept, LeaveKept,
            RetryLeaveKept DEF QueuesMatch, PerformEnterRuns, leaveQueues
<1>8. NoneMissing'
  <2>1. \A u \in Trains : pc'[u] \in TrackPlaces => StandsIn(u, Running_Trains')
    BY <1>0, <1>1, StandsInAppend DEF NoneMissing, PerformEnterRuns, TypeOK, OneMoves,
       OnlyMoves
  <2>2. \A u \in Trains : pc'[u] \in EnterPlaces => StandsIn(u, Trains_Order')
    BY <1>1 DEF NoneMissing, PerformEnterRuns, orderVars, OneMoves, OnlyMoves, EnterPlaces
  <2>3. QED BY <2>1, <2>2 DEF NoneMissing
<1>9. TrackCounted'
  BY <1>3 DEF TrackCounted, PerformEnterRuns
<1>10. \A i \in 1..n : /\ Running_Trains[i] \in Trains \ {t}
                       /\ speed'[Running_Trains[i]] = speed[Running_Trains[i]]
                       /\ speed[Running_Trains[i]] \in Nat
  BY <1>0, <1>5, RunningOnTrack DEF QueuesMatch, TrackPlaces, TypeOK
<1>11. SlowestKnown'
  <2>1. \A i \in 1..n : \/ speed'[Running_Trains'[i]] >= Segment_Max_Speed
                        \/ speed'[Running_Trains'[i]] >= Current_Max_Speed'
    <3> SUFFICES ASSUME NEW i \in 1..n
                 PROVE  \/ speed[Running_Trains[i]] >= Segment_Max_Speed
                        \/ speed[Running_Trains[i]] >= SpeedAfter(t)
      BY <1>3, <1>4, <1>10
    <3>1. \/ speed[Running_Trains[i]] >= Segment_Max_Speed
          \/ speed[Running_Trains[i]] >= Current_Max_Speed
      BY DEF SlowestKnown
    <3>2. speed[Running_Trains[i]] \in Nat /\ Current_Max_Speed \in Nat
      BY <1>10 DEF TypeOK
    <3>3. QED BY <1>4, <3>1, <3>2
  <2>2. speed'[t] >= Segment_Max_Speed \/ speed'[t] >= Current_Max_Speed'
    BY <1>4, <1>5, SpeedAssumption
  <2>3. QED BY <1>3, <2>1, <2>2 DEF SlowestKnown
<1>12. NoCatchUp'
  <2>1. \A i \in 1..n : speed'[t] <= speed'[Running_Trains[i]]
    <3> SUFFICES ASSUME NEW i \in 1..n PROVE speed'[t] <= speed[Running_Trains[i]]
      BY <1>10
    <3>1. \/ speed[Running_Trains[i]] >= Segment_Max_Speed
          \/ speed[Running_Trains[i]] >= Current_Max_Speed
      BY DEF SlowestKnown
    <3>2. speed[Running_Trains[i]] \in Nat /\ Current_Max_Speed \in Nat
      BY <1>10 DEF TypeOK
    <3>3. speed'[t] <= Segment_Max_Speed /\ speed'[t] <= SpeedAfter(t)
      BY <1>4, <1>5, SpeedAssumption
    <3>4. QED BY <1>4, <1>5, <3>1, <3>2, <3>3, SpeedAssumption
  <2>2. SUFFICES ASSUME NEW i \in 1..Len(Running_Trains'), NEW j \in 1..Len(Running_Trains'),
                        i < j
                 PROVE  speed'[Running_Trains'[j]] <= speed'[Running_Trains'[i]]
    BY DEF NoCatchUp
  <2>3. i \in 1..n /\ j \in 1..(n + 1) /\ Running_Trains'[i] = Running_Trains[i]
    BY <1>3, <2>2
  <2>4. CASE j = n + 1
    BY <1>3, <2>1, <2>3, <2>4
  <2>5. CASE j # n + 1
    <3>1. j \in 1..n /\ Running_Trains'[j] = Running_Trains[j]
      BY <1>3, <2>3, <2>5
    <3>2. speed[Running_Trains[j]] <= speed[Running_Trains[i]]
      BY <2>2, <2>3, <3>1 DEF NoCatchUp
    <3>3. QED BY <1>10, <2>3, <3>1, <3>2
  <2>6. QED BY <2>4, <2>5
<1>13. RetryCounters' /\ NoneLeavesWhileEntering'
  BY DEF PerformEnterRuns, orderVars, enterGuardVars, leaveGuardVars, leaveQueues,
     RetryCounters, OrderCounter, LeaveCounter, EndCounter, NoneLeavesWhileEntering
<1>14. QED BY <1>6, <1>7, <1>8, <1>9, <1>11, <1>12, <1>13

LEMMA RetryEndInv == ASSUME IInv, NEW e \in Ends, RetryEnd(e) PROVE IInv'
<1> DEFINE t == Head(waitQ[e])
<1> USE DEF IInv
<1>0. /\ t \in Trains /\ pc[t] = "Retry_End" /\ origin[t] = e
      /\ waitQ[e] # <<>> /\ waitQ[e] \in Seq(Trains)
  BY WaitHead DEF RetryEnd, QueuesMatch, TypeOK
<1>1. pc' \in [Trains -> Locations] /\ pc'[t] = "Perform_Enter" /\ OneMoves(t)
  BY <1>0, Moved DEF RetryEnd, Locations
<1>2. /\ waitQ'[e] = Tail(waitQ[e])
      /\ \A d \in Ends \ {e} : waitQ'[d] = waitQ[d]
  BY DEF RetryEnd, TypeOK
<1>3. Tail(waitQ[e]) \in Seq(Trains) /\ Len(waitQ'[e]) = Len(waitQ[e]) - 1
  BY <1>0, <1>2
<1>4. waitQ' \in [Ends -> Seq(Trains)] /\ performQ' \in Seq(Trains)
  BY <1>0, <1>3 DEF RetryEnd, TypeOK
<1>5. /\ Enter_Retry_Num \in Nat \ {0} /\ Enter_Retry_Num' = Enter_Retry_Num - 1
      /\ Can_Enter'[e] <=> Enter_Retry_Num # 1
      /\ \A d \in Ends \ {e} : Can_Enter'[d] = Can_Enter[d] /\ ~Can_Enter[d]
      /\ Can_Enter' \in [Ends -> BOOLEAN]
      /\ Enter_Retry_Num <= Len(waitQ[e]) /\ Len(waitQ[e]) \in Nat
  <2>1. Can_Enter[e] /\ Can_Enter' = [Can_Enter EXCEPT ![e] = StaysOpen(Enter_Retry_Num)]
    BY DEF RetryEnd
  <2>2. StaysOpen(Enter_Retry_Num) \in BOOLEAN
    BY DEF StaysOpen
  <2>3. Can_Enter' \in [Ends -> BOOLEAN] /\ (Can_Enter'[e] <=> Enter_Retry_Num # 1)
    BY <2>1, <2>2 DEF TypeOK, StaysOpen
  <2>4. \A d \in Ends \ {e} : Can_Enter'[d] = Can_Enter[d] /\ ~Can_Enter[d]
    BY <2>1 DEF TypeOK, RetryCounters, EndCounter, Ends
  <2>5. Enter_Retry_Num \in Nat \ {0} /\ Enter_Retry_Num' = Enter_Retry_Num - 1
    BY <2>1 DEF RetryEnd, TypeOK, RetryCounters, EndCounter
  <2>6. Enter_Retry_Num <= Len(waitQ[e]) /\ Len(waitQ[e]) \in Nat
    BY <1>0, <2>1 DEF RetryCounters, EndCounter
  <2>7. QED BY <2>3, <2>4, <2>5, <2>6
<1>6. TypeOK'
  BY SMTT(30), <1>1, <1>4, <1>5, GateKept DEF RetryEnd, TypeOK, orderVars, trackVars,
     leaveGuardVars, leaveQueues
<1>7. QueuesMatch'
  <2>1. PerformMatches'
    <3>1. pc[t] \notin {"Perform_Enter"} /\ pc'[t] \in {"Perform_Enter"} /\ origin'[t] \in Ends
      BY <1>0, <1>1 DEF RetryEnd
    <3>2. performQ' = Append(performQ, t)
      BY DEF RetryEnd
    <3>3. QED BY <1>0, <1>1, <3>1, <3>2, QueueJoined DEF QueuesMatch, PerformMatches, OneMoves
  <2>2. ASSUME NEW d \in Ends PROVE WaitMatches(d)'
    <3>1. CASE d = e
      <4>1. waitQ[e] \in Line(At(pc, origin, {"Retry_End"}, {e}))
        BY DEF QueuesMatch, WaitMatches
      <4>2. Tail(waitQ[e]) \in Line(At(pc', origin', {"Retry_End"}, {e}))
        BY <1>0, <1>1, <4>1, QueueLeft DEF OneMoves
      <4>3. QED BY <1>2, <3>1, <4>2 DEF WaitMatches
    <3>2. CASE d # e
      BY <1>0, <1>1, <1>2, <3>2, WaitElsewhereKept DEF QueuesMatch
    <3>3. QED BY <3>1, <3>2
  <2>3. pc[t] \notin TrackPlaces
    BY <1>0 DEF TrackPlaces
  <2>4. QED BY <1>0, <1>1, <2>1, <2>2, <2>3, EnterKept, RetryKept, LeaveKept,
            RetryLeaveKept, RunningKept DEF QueuesMatch, RetryEnd, trackVars, leaveQueues
<1>8. NoneMissing'
  BY <1>0, <1>1 DEF NoneMissing, RetryEnd, orderVars, trackVars, OneMoves, OnlyMoves,
     EnterPlaces, TrackPlaces
<1>9. TrackCounted' /\ SlowestKnown' /\ NoCatchUp'
  BY TrackKept DEF RetryEnd
<1>10. EndCounter'
  <2>1. \A d \in Ends : Can_Enter'[d] <=> d = e /\ Enter_Retry_Num' > 0
    BY <1>5
  <2>2. Enter_Retry_Num' <= Len(waitQ'[e]) /\ Enter_Retry_Num' \in Nat
    BY <1>3, <1>5
  <2>3. ~(Can_Enter'[First_End] /\ Can_Enter'[Second_End])
    BY <2>1, EndsAssumption DEF Ends
  <2>4. QED BY <2>1, <2>2, <2>3 DEF EndCounter
<1>11. RetryCounters' /\ NoneLeavesWhileEntering'
  <2>1. Can_Enter[e] /\ UNCHANGED <<leaveQ, retryLeaveQ>>
    BY DEF RetryEnd, leaveQueues
  <2>2. NoneLeavesWhileEntering'
    BY <2>1 DEF NoneLeavesWhileEntering
  <2>3. QED BY <1>10, <2>2 DEF RetryEnd, orderVars, leaveGuardVars, leaveQueues,
            RetryCounters, OrderCounter, LeaveCounter
<1>12. QED BY <1>6, <1>7, <1>8, <1>9, <1>11

LEMMA LeaveOutOfOrderInv == ASSUME IInv, LeaveOutOfOrder PROVE IInv'
<1> DEFINE t == Head(leaveQ)
<1> USE DEF IInv
<1>0. t \in Trains /\ pc[t] = "Leave" /\ leaveQ # <<>>
  BY LeaveHead DEF LeaveOutOfOrder, QueuesMatch
<1>1. pc' \in [Trains -> Locations] /\ pc'[t] = "Retry_Leave" /\ OneMoves(t)
  BY <1>0, Moved DEF LeaveOutOfOrder, Locations
<1>2. /\ leaveQ' \in Seq(Trains)
      /\ retryLeaveQ' \in Seq(Trains) /\ Len(retryLeaveQ') = Len(retryLeaveQ) + 1
  BY <1>0 DEF LeaveOutOfOrder, TypeOK
<1>3. TypeOK'
  BY <1>1, <1>2, GateKept DEF LeaveOutOfOrder, TypeOK, orderVars, trackVars,
     enterGuardVars, leaveGuardVars, enterQueues
<1>4. QueuesMatch'
  <2>1. LeaveMatches'
    BY <1>0, <1>1, QueueLeft DEF QueuesMatch, LeaveMatches, LeaveOutOfOrder, OneMoves
  <2>2. RetryLeaveMatches'
    <3>1. pc[t] \notin {"Retry_Leave"} /\ pc'[t] \in {"Retry_Leave"} /\ origin'[t] \in Origins
      BY <1>0, <1>1 DEF LeaveOutOfOrder, TypeOK
    <3>2. retryLeaveQ' = Append(retryLeaveQ, t)
      BY DEF LeaveOutOfOrder
    <3>3. QED BY <1>0, <1>1, <3>1, <3>2, QueueJoined
              DEF QueuesMatch, RetryLeaveMatches, OneMoves
  <2>3. pc'[t] \in TrackPlaces
    BY <1>1 DEF TrackPlaces
  <2>4. QED BY <1>0, <1>1, <2>1, <2>2, <2>3, EnterKept, RetryKept, PerformKept,
            WaitsKept, RunningStays DEF QueuesMatch, LeaveOutOfOrder, trackVars, enterQueues
<1>5. NoneMissing'
  BY <1>0, <1>1 DEF NoneMissing, LeaveOutOfOrder, orderVars, trackVars, OneMoves,
     OnlyMoves, EnterPlaces, TrackPlaces
<1>6. TrackCounted' /\ SlowestKnown' /\ NoCatchUp'
  BY TrackKept DEF LeaveOutOfOrder
<1>7. LeaveCounter'
  BY <1>2 DEF LeaveOutOfOrder, leaveGuardVars, RetryCounters, LeaveCounter, TypeOK
<1>8. RetryCounters' /\ NoneLeavesWhileEntering'
  BY <1>0, <1>7 DEF LeaveOutOfOrder, orderVars, enterGuardVars, enterQueues,
     RetryCounters, OrderCounter, EndCounter, NoneLeavesWhileEntering
<1>9. QED BY <1>3, <1>4, <1>5, <1>6, <1>8

LEMMA Retry_LeaveInv == ASSUME IInv, Retry_Leave PROVE IInv'
<1> DEFINE t == Head(retryLeaveQ)
<1> USE DEF IInv
<1>0. t \in Trains /\ pc[t] = "Retry_Leave" /\ retryLeaveQ # <<>>
  BY RetryLeaveHead DEF Retry_Leave, QueuesMatch
<1>1. pc' \in [Trains -> Locations] /\ pc'[t] = "Leave" /\ OneMoves(t)
  BY <1>0, Moved DEF Retry_Leave, Locations
<1>2. Exit_Retry_Num \in Nat \ {0} /\ Len(retryLeaveQ) \in Nat
      /\ Exit_Retry_Num <= Len(retryLeaveQ)
  BY SMTT(30) DEF Retry_Leave, RetryCounters, LeaveCounter, TypeOK
<1>3. /\ leaveQ' \in Seq(Trains)
      /\ retryLeaveQ' \in Seq(Trains) /\ Len(retryLeaveQ') = Len(retryLeaveQ) - 1
  BY <1>0 DEF Retry_Leave, TypeOK
<1>4. TypeOK'
  BY SMTT(30), <1>1, <1>2, <1>3, GateKept DEF Retry_Leave, TypeOK, StaysOpen, orderVars, trackVars,
     enterGuardVars, enterQueues
<1>5. QueuesMatch'
  <2>1. RetryLeaveMatches'
    BY <1>0, <1>1, QueueLeft DEF QueuesMatch, RetryLeaveMatches, Retry_Leave, OneMoves
  <2>2. LeaveMatches'
    <3>1. pc[t] \notin {"Leave"} /\ pc'[t] \in {"Leave"} /\ origin'[t] \in Origins
      BY <1>0, <1>1 DEF Retry_Leave, TypeOK
    <3>2. leaveQ' = Append(leaveQ, t)
      BY DEF Retry_Leave
    <3>3. QED BY <1>0, <1>1, <3>1, <3>2, QueueJoined DEF QueuesMatch, LeaveMatches, OneMoves
  <2>3. pc'[t] \in TrackPlaces
    BY <1>1 DEF TrackPlaces
  <2>4. QED BY <1>0, <1>1, <2>1, <2>2, <2>3, EnterKept, RetryKept, PerformKept,
            WaitsKept, RunningStays DEF QueuesMatch, Retry_Leave, trackVars, enterQueues
<1>6. NoneMissing'
  BY <1>0, <1>1 DEF NoneMissing, Retry_Leave, orderVars, trackVars, OneMoves, OnlyMoves,
     EnterPlaces, TrackPlaces
<1>7. TrackCounted' /\ SlowestKnown' /\ NoCatchUp'
  BY TrackKept DEF Retry_Leave
<1>8. LeaveCounter'
  <2>1. Exit_Retry_Num' = Exit_Retry_Num - 1 /\ (Can_Retry_Leave' <=> Exit_Retry_Num # 1)
    BY DEF Retry_Leave, StaysOpen
  <2>2. QED BY <1>2, <1>3, <2>1 DEF LeaveCounter
<1>9. RetryCounters' /\ NoneLeavesWhileEntering'
  BY <1>0, <1>8 DEF Retry_Leave, orderVars, enterGuardVars, enterQueues, RetryCounters,
     OrderCounter, EndCounter, NoneLeavesWhileEntering
<1>10. QED BY <1>4, <1>5, <1>6, <1>7, <1>9

\* The first of the running trains leaves.  When it was the only one, nobody
\* else is in the queues of Leave, and one end may be opened.
LEMMA LeaveInOrderInv == ASSUME IInv, LeaveInOrder PROVE IInv'
<1> DEFINE t == Head(leaveQ)
           n == Len(Running_Trains)
           last == Trains_Number = 1
           d == Other(Current_Direction)
<1> USE DEF IInv
<1>0. /\ t \in Trains /\ pc[t] = "Leave" /\ leaveQ # <<>>
      /\ Running_Trains # <<>> /\ Head(Running_Trains) = t
  BY LeaveHead DEF LeaveInOrder, QueuesMatch, TrackCounted
<1>1. pc' \in [Trains -> Locations] /\ pc'[t] = "left" /\ OneMoves(t)
  BY <1>0, Moved DEF LeaveInOrder, Locations
<1>2. /\ Running_Trains' \in Seq(Trains) /\ leaveQ' \in Seq(Trains)
      /\ n \in Nat \ {0} /\ Len(Running_Trains') = n - 1
      /\ \A i \in 1..(n - 1) : Running_Trains'[i] = Running_Trains[i + 1]
  BY <1>0 DEF LeaveInOrder, TypeOK
<1>3. Trains_Number = n /\ Trains_Number' = n - 1
  BY DEF LeaveInOrder, TrackCounted
<1>4. d \in Ends
  BY DEF Ends, Other
<1>5. \A e \in Ends : ~Can_Enter[e]
  BY <1>0 DEF NoneLeavesWhileEntering
<1>6. QueuesMatch'
  <2>1. LeaveMatches'
    BY <1>0, <1>1, QueueLeft DEF QueuesMatch, LeaveMatches, LeaveInOrder, OneMoves
  <2>2. RunningMatches'
    BY <1>0, <1>1, QueueLeft DEF QueuesMatch, RunningMatches, LeaveInOrder, OneMoves
  <2>3. QED BY <1>0, <1>1, <2>1, <2>2, EnterKept, RetryKept, PerformKept, WaitsKept,
            RetryLeaveKept DEF QueuesMatch, LeaveInOrder, enterQueues
<1>7. NoneMissing'
  <2>1. \A u \in Trains : pc'[u] \in TrackPlaces => StandsIn(u, Running_Trains')
    BY <1>0, <1>1, StandsInTail DEF NoneMissing, LeaveInOrder, TypeOK, OneMoves,
       OnlyMoves, TrackPlaces
  <2>2. \A u \in Trains : pc'[u] \in EnterPlaces => StandsIn(u, Trains_Order')
    BY <1>0, <1>1 DEF NoneMissing, LeaveInOrder, orderVars, OneMoves, OnlyMoves, EnterPlaces
  <2>3. QED BY <2>1, <2>2 DEF NoneMissing
<1>8. n = 1 => leaveQ' = <<>> /\ retryLeaveQ' = <<>>
  <2> SUFFICES ASSUME n = 1 PROVE leaveQ' = <<>> /\ retryLeaveQ' = <<>>
    OBVIOUS
  <2>1. ASSUME NEW u \in Trains, pc'[u] \in TrackPlaces PROVE FALSE
    BY <1>2, <1>7, <2>1 DEF NoneMissing, StandsIn
  <2>2. ASSUME leaveQ' # <<>> PROVE FALSE
    <3>1. Head(leaveQ') \in Trains /\ pc'[Head(leaveQ')] \in {"Leave"}
      BY <1>6, <2>2, QueueHead DEF QueuesMatch, LeaveMatches
    <3>2. QED BY <2>1, <3>1 DEF TrackPlaces
  <2>3. ASSUME retryLeaveQ' # <<>> PROVE FALSE
    <3>1. Head(retryLeaveQ') \in Trains /\ pc'[Head(retryLeaveQ')] \in {"Retry_Leave"}
      BY <1>6, <2>3, QueueHead DEF QueuesMatch, RetryLeaveMatches
    <3>2. QED BY <2>1, <3>1 DEF TrackPlaces
  <2>4. QED BY <2>2, <2>3
<1>9. TrackCounted'
  <2>1. Free' <=> n = 1
    BY <1>3 DEF LeaveInOrder, FreeTrack
  <2>2. Running_Trains' = <<>> <=> Len(Running_Trains') = 0
    BY <1>2
  <2>3. QED BY <1>2, <1>3, <2>1, <2>2 DEF TrackCounted
<1>10. NoCatchUp'
  BY <1>2 DEF NoCatchUp, LeaveInOrder
<1>11. SlowestKnown'
  <2>1. CASE n = 1
    BY <1>2, <2>1 DEF SlowestKnown
  <2>2. CASE n # 1
    BY <1>2, <1>3, <2>2 DEF SlowestKnown, LeaveInOrder, FreeTrack
  <2>3. QED BY <2>1, <2>2
<1>12. /\ Exit_Retry_Num' \in Nat /\ Can_Retry_Leave' \in BOOLEAN /\ LeaveCounter'
  <2>1. CASE retryLeaveQ # <<>>
    <3>1. Len(retryLeaveQ) \in Nat \ {0}
      BY <2>1 DEF TypeOK
    <3>2. /\ Exit_Retry_Num' = Len(retryLeaveQ) /\ Can_Retry_Leave' = TRUE
          /\ retryLeaveQ' = retryLeaveQ
      BY <2>1 DEF LeaveInOrder, OpenRetryLeave
    <3>3. QED BY <3>1, <3>2 DEF LeaveCounter
  <2>2. CASE retryLeaveQ = <<>>
    BY <2>2 DEF LeaveInOrder, OpenRetryLeave, leaveGuardVars, TypeOK, RetryCounters,
       LeaveCounter
  <2>3. QED BY <2>1, <2>2
<1>13. /\ Enter_Retry_Num' \in Nat /\ Can_Enter' \in [Ends -> BOOLEAN] /\ EndCounter'
  <2>1. CASE last /\ waitQ[d] # <<>>
    <3>1. Len(waitQ[d]) \in Nat \ {0}
      BY <1>4, <2>1 DEF TypeOK
    <3>2. /\ Enter_Retry_Num' = Len(waitQ[d]) /\ waitQ' = waitQ
          /\ Can_Enter' = [Can_Enter EXCEPT ![d] = TRUE]
      BY <2>1 DEF LeaveInOrder, FreeTrack, OpenEnd, enterQueues
    <3>3. /\ Can_Enter' \in [Ends -> BOOLEAN] /\ Can_Enter'[d]
          /\ \A e \in Ends \ {d} : ~Can_Enter'[e]
      BY <1>4, <1>5, <3>2 DEF TypeOK
    <3>4. ~(Can_Enter'[First_End] /\ Can_Enter'[Second_End])
      BY <3>3, EndsAssumption DEF Ends
    <3>5. (\E e \in Ends : Can_Enter'[e]) <=> Enter_Retry_Num' > 0
      BY <1>4, <3>1, <3>2, <3>3
    <3>6. \A e \in Ends : Can_Enter'[e] => Enter_Retry_Num' <= Len(waitQ'[e])
      <4>1. SUFFICES Enter_Retry_Num' <= Len(waitQ'[d])
        BY <3>3
      <4>2. QED BY <3>1, <3>2
    <3>7. QED BY <3>1, <3>2, <3>3, <3>4, <3>5, <3>6 DEF EndCounter
  <2>2. CASE ~(last /\ waitQ[d] # <<>>)
    BY <2>2 DEF LeaveInOrder, FreeTrack, OpenEnd, enterGuardVars, enterQueues, TypeOK,
       RetryCounters, EndCounter
  <2>3. QED BY <2>1, <2>2
<1>14. NoneLeavesWhileEntering'
  <2>1. CASE last
    BY <1>3, <1>8, <2>1 DEF NoneLeavesWhileEntering
  <2>2. CASE ~last
    BY <1>5, <2>2 DEF LeaveInOrder, FreeTrack, enterGuardVars, NoneLeavesWhileEntering
  <2>3. QED BY <2>1, <2>2
<1>15. TypeOK'
  <2>1. arrivals' \in [Ends -> Seq(Trains)]
    <3>1. Append(arrivals[d], t) \in Seq(Trains)
      BY <1>0, <1>4 DEF TypeOK
    <3>2. arrivals' = [arrivals EXCEPT ![d] = Append(arrivals[d], t)]
      BY <1>4 DEF LeaveInOrder, HandOver, TypeOK
    <3>3. QED BY <1>4, <3>1, <3>2 DEF TypeOK
  <2>2. /\ Trains_Number' \in Nat /\ Free' \in BOOLEAN
        /\ Current_Max_Speed' \in Nat \ {0}
    <3>1. CASE last
      BY <1>2, <1>3, <3>1, SpeedAssumption DEF LeaveInOrder, FreeTrack
    <3>2. CASE ~last
      BY <1>2, <1>3, <3>2 DEF LeaveInOrder, FreeTrack, TypeOK
    <3>3. QED BY <3>1, <3>2
  <2>3. QED BY <1>1, <1>2, <1>12, <1>13, <2>1, <2>2, GateKept
            DEF LeaveInOrder, TypeOK, orderVars, enterQueues
<1>16. RetryCounters'
  BY <1>12, <1>13 DEF LeaveInOrder, orderVars, enterQueues, RetryCounters, OrderCounter
<1>17. QED BY <1>6, <1>7, <1>9, <1>10, <1>11, <1>14, <1>15, <1>16
-----------------------------------------------------------------------------
LEMMA StutterInv == ASSUME IInv, UNCHANGED vars PROVE IInv'
<1> USE DEF IInv
<1>1. UNCHANGED <<gateVars, trainVars, objectVars>>
  BY DEF vars
<1>2. TypeOK' /\ QueuesMatch' /\ NoneMissing'
  BY <1>1, GateKept DEF TypeOK, trainVars, objectVars, orderVars, trackVars,
     enterGuardVars, leaveGuardVars, enterQueues, leaveQueues, QueuesMatch, EnterMatches,
     RetryMatches, PerformMatches, WaitMatches, LeaveMatches, RetryLeaveMatches,
     RunningMatches, NoneMissing
<1>3. TrackCounted' /\ SlowestKnown' /\ NoCatchUp'
  BY <1>1, TrackKept DEF trainVars, objectVars
<1>4. RetryCounters' /\ NoneLeavesWhileEntering'
  BY <1>1 DEF objectVars, orderVars, enterGuardVars, leaveGuardVars, enterQueues,
     leaveQueues, RetryCounters, OrderCounter, LeaveCounter, EndCounter,
     NoneLeavesWhileEntering
<1>5. QED BY <1>2, <1>3, <1>4

LEMMA StepInv == IInv /\ [Next]_vars => IInv'
<1> SUFFICES ASSUME IInv, [Next]_vars PROVE IInv'
  OBVIOUS
<1>1. CASE \E t \in Trains, s \in Origins : AskGate(t, s)
  BY <1>1, AskGateInv
<1>2. CASE PassGate
  BY <1>2, PassGateInv
<1>3. CASE \E t \in Trains : TrainStep(t)
  BY <1>3, Add_TrainInv, ReleaseGateInv, CallEnterInv, CallLeaveInv, SettleInv
     DEF TrainStep
<1>4. CASE Serve
  BY <1>4, RetryInv, EnterFromElsewhereInv, EnterOutOfOrderInv, EnterInOrderInv,
     PerformEnterWaitsInv, PerformEnterRunsInv, RetryEndInv, LeaveOutOfOrderInv,
     LeaveInOrderInv, Retry_LeaveInv DEF Serve
<1>5. CASE UNCHANGED vars
  BY <1>5, StutterInv
<1>6. QED BY <1>1, <1>2, <1>3, <1>4, <1>5 DEF Next

LEMMA InvHolds == Spec => []IInv
BY InitInv, StepInv, PTL DEF Spec
-----------------------------------------------------------------------------
\* The segment keeps the types of the code, in particular no Natural counter
\* runs below zero (segment.ads, segment.adb).
THEOREM SegmentTypes == Spec => []TypeOK
<1>1. IInv => TypeOK
  BY DEF IInv
<1>2. QED BY <1>1, InvHolds, PTL

\* Two trains never run against each other, whatever the number of trains, and
\* the segment is Free exactly while it is empty (segment.adb, Perform_Enter, Leave).
THEOREM SegmentIsOneWay == Spec => []OneWay
<1>1. IInv => OneWay
  BY RunningOnTrack DEF IInv, QueuesMatch, TrackCounted, OneWay
<1>2. QED BY <1>1, InvHolds, PTL

\* No train can catch up with the one ahead of it: the speeds that Enter
\* returns to the trains on the segment never increase from one to the next.
THEOREM SegmentNoCatchUp == Spec => []NoCatchUp
<1>1. IInv => NoCatchUp
  BY DEF IInv
<1>2. QED BY <1>1, InvHolds, PTL

\* The retry counters agree with their guards and never promise more retries
\* than there are trains to retry (segment.adb, Retry, Retry_First_End,
\* Retry_Second_End, Retry_Leave).
THEOREM SegmentRetries == Spec => []RetryCounters
<1>1. IInv => RetryCounters
  BY DEF IInv
<1>2. QED BY <1>1, InvHolds, PTL

-----------------------------------------------------------------------------
(* The order in which trains enter the segment: trains that wait at one end  *)
(* are passed over at most Max times, and the segment implements             *)
(* OneWayTrack.                                                            *)
(*                                                                         *)
(* The argument: the protected object takes a call only when no open entry   *)
(* has one, so it serves either one call of Enter with what follows from it, *)
(* or one call of Leave with what follows from that, never both at once.     *)
(* ServeInv says what the two ends are in the middle of, BypassInv how often *)
(* each has been passed over meanwhile, and LineInv that the queues together *)
(* hold the trains of an end in the order in which they registered.          *)

\* No call of Enter is being served: the trains at Perform_Enter, if any, were
\* let in again at an end.
EnterQuiet == enterQ = <<>> /\ ~Can_Retry

PerformFrom(e) == performQ \in Line(At(pc, origin, {"Perform_Enter"}, {e}))
LettingIn(e) == EnterQuiet /\ PerformFrom(e)

\* While a call of Leave is served no call of Enter is.
ServedApart ==
    leaveQ # <<>> \/ Can_Retry_Leave => EnterQuiet /\ performQ = <<>>

\* While an end is open its trains alone come to Perform_Enter, and until one
\* of them runs the segment is free and still marked with the other direction.
OneEndEnters ==
    \A e \in Ends : Can_Enter[e] =>
        /\ LettingIn(e)
        /\ Current_Direction = IF Free THEN Other(e) ELSE e

\* Of the trains that wait at end e, how many the guard still lets in.
Turns(e) == IF Can_Enter[e] THEN Enter_Retry_Num ELSE 0

\* Why a train waits at end e: trains come the other way, or Max have entered
\* since some wait at the other end; or the other end is being let in now.
Blocked(e) ==
    /\ ~Free
    /\ Current_Direction = e =>
          Train_Entered_Per_Direction = Max /\ waitQ[Other(e)] # <<>>
GivesWay(e) ==
    /\ Free /\ Current_Direction = e
    /\ LettingIn(Other(e))
    /\ performQ # <<>> \/ Can_Enter[Other(e)]

\* Trains on the track came from one of the two ends.
DirectionKnown == Free \/ Current_Direction \in Ends

WaitersHeld == \A e \in Ends : Len(waitQ[e]) > Turns(e) => Blocked(e) \/ GivesWay(e)

ServeInv == ServedApart /\ DirectionKnown /\ OneEndEnters /\ WaitersHeld

\* End e has been passed over only by the trains counted since the direction
\* last changed, and its trains wait still or are being let in.
PassedOver(e) ==
    bypass[e] > 0 =>
        /\ Current_Direction = Other(e)
        /\ bypass[e] <= Train_Entered_Per_Direction
        /\ ~Free => waitQ[e] # <<>>
        /\ Free => GivesWay(Other(e))

BypassInv == bypass \in [Ends -> Nat] /\ \A e \in Ends : PassedOver(e)
-----------------------------------------------------------------------------
(* The two ends and who is being served.                                     *)

LEMMA OtherEnd ==
    /\ \A e \in Ends : Other(e) \in Ends /\ Other(e) # e /\ Other(Other(e)) = e
    /\ \A e, d \in Ends : e = d \/ e = Other(d)
BY EndsAssumption DEF Ends, Other

\* The trains at Perform_Enter come from one end alone.
LEMMA PerformApart ==
    ASSUME NEW e \in Ends, PerformFrom(e), performQ # <<>>
    PROVE  origin[Head(performQ)] = e
BY QueueHead DEF PerformFrom

\* What the protected object leaves alone while it serves no train at an end.
serveVars == <<Can_Enter, Enter_Retry_Num, Free, Current_Direction,
               Train_Entered_Per_Direction, waitQ, leaveQ, Can_Retry_Leave>>

\* A train that takes no part in what the entries serve does not disturb it.
LEMMA LettingInKept ==
    ASSUME NEW e, LettingIn(e), NEW t, OneMoves(t), pc[t] # "Perform_Enter",
           UNCHANGED <<enterQ, Can_Retry, performQ>>
    PROVE  LettingIn(e)'
<1>1. pc[t] \notin {"Perform_Enter"}
  OBVIOUS
<1>2. QED BY <1>1, QueueKept DEF LettingIn, EnterQuiet, PerformFrom, OneMoves

LEMMA ServeKept ==
    ASSUME ServeInv, NEW t, OneMoves(t), pc[t] # "Perform_Enter",
           UNCHANGED <<serveVars, enterQ, Can_Retry, performQ>>
    PROVE  ServeInv'
<1>1. ASSUME NEW e, LettingIn(e) PROVE LettingIn(e)'
  BY <1>1, LettingInKept
<1>2. QED BY <1>1 DEF ServeInv, ServedApart, DirectionKnown, OneEndEnters, WaitersHeld,
     EnterQuiet, Turns, Blocked, GivesWay, serveVars

\* The object takes a new call only when it serves nobody.
LEMMA QuietCall ==
    ASSUME IInv, Quiescent
    PROVE  /\ EnterQuiet /\ performQ = <<>>
           /\ \A e \in Ends : ~Can_Enter[e]
           /\ leaveQ = <<>> /\ ~Can_Retry_Leave
<1> USE DEF IInv
<1>1. ~Can_Retry
  BY DEF Quiescent, RetryCounters, OrderCounter, TypeOK
<1>2. ~Can_Retry_Leave
  BY DEF Quiescent, RetryCounters, LeaveCounter, TypeOK
<1>3. ASSUME NEW e \in Ends, Can_Enter[e] PROVE FALSE
  <2>1. waitQ[e] = <<>> /\ Enter_Retry_Num <= Len(waitQ[e]) /\ Enter_Retry_Num > 0
    BY <1>3 DEF Quiescent, RetryCounters, EndCounter
  <2>2. Len(waitQ[e]) = 0 /\ Enter_Retry_Num \in Nat
    BY <2>1 DEF TypeOK
  <2>3. QED BY <2>1, <2>2
<1>4. leaveQ = <<>>
  <2>1. SUFFICES ASSUME leaveQ # <<>>, Free PROVE FALSE
    BY DEF Quiescent
  <2>2. Head(leaveQ) \in Trains /\ pc[Head(leaveQ)] = "Leave"
    BY <2>1, LeaveHead DEF QueuesMatch
  <2>3. Running_Trains # <<>>
    BY <2>2, StandsInNonEmpty DEF NoneMissing, TrackPlaces
  <2>4. QED BY <2>1, <2>3 DEF TrackCounted
<1>5. QED BY <1>1, <1>2, <1>3, <1>4 DEF Quiescent, EnterQuiet

\* While a call of Enter is served the segment is not being left, and no train
\* is let in at an end.
LEMMA EnterServed ==
    ASSUME ServeInv, ~EnterQuiet
    PROVE  /\ leaveQ = <<>> /\ ~Can_Retry_Leave
           /\ \A e \in Ends : ~Can_Enter[e] /\ ~GivesWay(e)
BY DEF ServeInv, ServedApart, OneEndEnters, LettingIn, GivesWay

\* While a call of Leave is served no train enters or is let in.
LEMMA LeaveServed ==
    ASSUME IInv, ServeInv, leaveQ # <<>> \/ Can_Retry_Leave
    PROVE  /\ EnterQuiet /\ performQ = <<>>
           /\ \A e \in Ends : ~Can_Enter[e] /\ ~GivesWay(e)
<1>1. EnterQuiet /\ performQ = <<>>
  BY DEF ServeInv, ServedApart
<1>2. leaveQ # <<>> \/ retryLeaveQ # <<>>
  <2>1. SUFFICES ASSUME Can_Retry_Leave, retryLeaveQ = <<>> PROVE FALSE
    OBVIOUS
  <2>2. QED BY <2>1 DEF IInv, RetryCounters, LeaveCounter, TypeOK
<1>3. \A e \in Ends : ~Can_Enter[e]
  BY <1>2 DEF IInv, NoneLeavesWhileEntering
<1>4. QED BY <1>1, <1>3, OtherEnd DEF GivesWay

\* Steps that serve a call of Enter before Perform_Enter.
LEMMA EnterServes ==
    ASSUME ServeInv, ~EnterQuiet, UNCHANGED serveVars
    PROVE  ServeInv'
<1>1. /\ leaveQ' = <<>> /\ ~Can_Retry_Leave'
      /\ \A e \in Ends : ~Can_Enter'[e] /\ ~GivesWay(e)
  BY EnterServed DEF serveVars
<1>2. \A e \in Ends : Len(waitQ'[e]) > Turns(e)' => Blocked(e)'
  BY <1>1 DEF ServeInv, WaitersHeld, Turns, Blocked, serveVars
<1>3. QED BY <1>1, <1>2 DEF ServeInv, ServedApart, DirectionKnown, OneEndEnters,
     WaitersHeld, serveVars

\* Steps that serve a call of Leave and do not free the segment.
LEMMA LeaveServes ==
    ASSUME IInv, ServeInv, leaveQ # <<>> \/ Can_Retry_Leave,
           UNCHANGED <<Can_Enter, Enter_Retry_Num, Free, Current_Direction,
                       Train_Entered_Per_Direction, enterQ, Can_Retry, performQ, waitQ>>
    PROVE  ServeInv'
<1>1. /\ EnterQuiet' /\ performQ' = <<>>
      /\ \A e \in Ends : ~Can_Enter'[e] /\ ~GivesWay(e)
  BY LeaveServed DEF EnterQuiet
<1>2. \A e \in Ends : Len(waitQ'[e]) > Turns(e)' => Blocked(e)'
  BY <1>1 DEF ServeInv, WaitersHeld, Turns, Blocked
<1>3. QED BY <1>1, <1>2 DEF ServeInv, ServedApart, DirectionKnown, OneEndEnters,
     WaitersHeld
-----------------------------------------------------------------------------
(* ServeInv, one lemma per entry that does more than the steps above.         *)

LEMMA CallEnterServed ==
    ASSUME IInv, ServeInv, NEW t \in Trains, CallEnter(t) PROVE ServeInv'
<1>1. /\ EnterQuiet /\ performQ = <<>>
      /\ \A e \in Ends : ~Can_Enter[e]
      /\ leaveQ = <<>> /\ ~Can_Retry_Leave
  BY QuietCall DEF CallEnter
<1>2. UNCHANGED serveVars /\ performQ' = performQ /\ Can_Retry' = Can_Retry
  BY DEF CallEnter, serveVars, enterGuardVars, trackVars, leaveQueues, leaveGuardVars,
     orderVars
<1>3. \A e \in Ends : ~GivesWay(e)
  BY <1>1, OtherEnd DEF GivesWay
<1>4. \A e \in Ends : Len(waitQ'[e]) > Turns(e)' => Blocked(e)'
  BY <1>2, <1>3 DEF ServeInv, WaitersHeld, Turns, Blocked, serveVars
<1>5. QED BY <1>1, <1>2, <1>4 DEF ServeInv, ServedApart, DirectionKnown, OneEndEnters,
     WaitersHeld, serveVars

LEMMA CallLeaveServed ==
    ASSUME IInv, ServeInv, NEW t \in Trains, CallLeave(t) PROVE ServeInv'
<1>1. /\ EnterQuiet /\ performQ = <<>>
      /\ \A e \in Ends : ~Can_Enter[e]
      /\ leaveQ = <<>> /\ ~Can_Retry_Leave
  BY QuietCall DEF CallLeave
<1>2. /\ UNCHANGED <<Can_Enter, Enter_Retry_Num, Free, Current_Direction,
                     Train_Entered_Per_Direction, waitQ>>
      /\ UNCHANGED <<enterQ, Can_Retry, performQ>>
  BY DEF CallLeave, enterGuardVars, trackVars, enterQueues, orderVars
<1>3. \A e \in Ends : ~GivesWay(e)
  BY <1>1, OtherEnd DEF GivesWay
<1>4. \A e \in Ends : Len(waitQ'[e]) > Turns(e)' => Blocked(e)'
  BY <1>2, <1>3 DEF ServeInv, WaitersHeld, Turns, Blocked
<1>5. QED BY <1>1, <1>2, <1>4 DEF ServeInv, ServedApart, EnterQuiet, DirectionKnown,
     OneEndEnters, WaitersHeld

\* A train that has to wait joins its end, and is Blocked there.
LEMMA PerformEnterWaitsServed ==
    ASSUME IInv, ServeInv, PerformEnterWaits PROVE ServeInv'
<1> DEFINE t == Head(performQ)
<1> DEFINE o == origin[t]
<1>1. t \in Trains /\ o \in Ends
  BY PerformHead DEF PerformEnterWaits, IInv, QueuesMatch
<1>2. /\ performQ # <<>> /\ ~Free /\ performQ' = Tail(performQ)
      /\ o # Current_Direction \/ (Train_Entered_Per_Direction = Max /\ waitQ[Other(o)] # <<>>)
      /\ waitQ' = [waitQ EXCEPT ![o] = Append(@, t)]
      /\ UNCHANGED <<Can_Enter, Enter_Retry_Num, Free, Current_Direction,
                     Train_Entered_Per_Direction, enterQ, Can_Retry, leaveQ,
                     Can_Retry_Leave, origin>>
  BY DEF PerformEnterWaits, MustWait, orderVars, trackVars, enterGuardVars,
     leaveGuardVars, leaveQueues
<1>3. OneMoves(t)
  BY <1>1, Moved DEF PerformEnterWaits, IInv, Locations
<1>4. leaveQ = <<>> /\ ~Can_Retry_Leave
  BY <1>2 DEF ServeInv, ServedApart
<1>5. ASSUME NEW e \in Ends, LettingIn(e) PROVE LettingIn(e)'
  BY <1>2, <1>3, <1>5, QueueLeft DEF LettingIn, PerformFrom, EnterQuiet, OneMoves
<1>6. /\ waitQ'[o] = Append(waitQ[o], t)
      /\ \A e \in Ends \ {o} : waitQ'[e] = waitQ[e]
      /\ waitQ[o] \in Seq(Trains)
  BY <1>1, <1>2 DEF IInv, TypeOK
<1>7. ASSUME NEW e \in Ends, Len(waitQ'[e]) > Turns(e)' PROVE Blocked(e)'
  <2>1. CASE e = o
    BY <1>1, <1>2, <1>6, <2>1, OtherEnd DEF Blocked
  <2>2. CASE e # o
    <3>1. Blocked(e)
      BY <1>2, <1>6, <1>7, <2>2 DEF ServeInv, WaitersHeld, Turns, GivesWay
    <3>2. waitQ'[o] # <<>> /\ Other(e) = o
      BY <1>1, <1>6, <2>2, OtherEnd
    <3>3. QED BY <1>2, <3>1, <3>2 DEF Blocked
  <2>3. QED BY <2>1, <2>2
<1>8. QED BY <1>2, <1>4, <1>5, <1>7 DEF ServeInv, ServedApart, DirectionKnown,
     OneEndEnters, WaitersHeld

\* A train enters: no train of its end has been waiting longer, and those at
\* the other end are Blocked by it.
LEMMA PerformEnterRunsServed ==
    ASSUME IInv, ServeInv, PerformEnterRuns PROVE ServeInv'
<1> DEFINE t == Head(performQ)
<1> DEFINE o == origin[t]
<1>1. t \in Trains /\ o \in Ends
  BY PerformHead DEF PerformEnterRuns, IInv, QueuesMatch
<1>2. /\ performQ # <<>> /\ ~Free' /\ performQ' = Tail(performQ)
      /\ ~MustWait(t)
      /\ Current_Direction' = IF Free THEN o ELSE Current_Direction
      /\ UNCHANGED <<Can_Enter, Enter_Retry_Num, enterQ, Can_Retry, leaveQ,
                     Can_Retry_Leave, waitQ, origin>>
  BY DEF PerformEnterRuns, orderVars, enterGuardVars, leaveGuardVars, leaveQueues
<1>3. OneMoves(t)
  BY <1>1, Moved DEF PerformEnterRuns, IInv, Locations
<1>4. leaveQ = <<>> /\ ~Can_Retry_Leave
  BY <1>2 DEF ServeInv, ServedApart
<1>5. Current_Direction' = o
  BY <1>1, <1>2 DEF MustWait
<1>6. ASSUME NEW e \in Ends, Can_Enter[e] PROVE LettingIn(e)' /\ e = o
  <2>1. LettingIn(e)
    BY <1>6 DEF ServeInv, OneEndEnters
  <2>2. PerformFrom(e)'
    BY <1>2, <1>3, <2>1, QueueLeft DEF LettingIn, PerformFrom, OneMoves
  <2>3. QED BY <1>2, <2>1, <2>2, PerformApart DEF LettingIn, EnterQuiet
<1>7. ASSUME NEW e \in Ends, Len(waitQ'[e]) > Turns(e)' PROVE Blocked(e)'
  <2>1. Blocked(e) \/ GivesWay(e)
    BY <1>2, <1>7 DEF ServeInv, WaitersHeld, Turns
  <2>2. e # o
    <3>1. CASE Free
      BY <1>2, <2>1, <3>1, PerformApart, OtherEnd DEF Blocked, GivesWay, LettingIn
    <3>2. CASE ~Free
      BY <1>1, <1>2, <2>1, <3>2 DEF MustWait, Blocked, GivesWay
    <3>3. QED BY <3>1, <3>2
  <2>3. QED BY <1>2, <1>5, <2>2 DEF Blocked
<1>8. QED BY <1>1, <1>2, <1>4, <1>5, <1>6, <1>7 DEF ServeInv, ServedApart, DirectionKnown,
     OneEndEnters, WaitersHeld

\* The head of the trains let in at an end comes to Perform_Enter.
LEMMA RetryEndLetsIn ==
    ASSUME IInv, NEW e \in Ends, LettingIn(e), RetryEnd(e)
    PROVE  LettingIn(e)' /\ performQ' # <<>>
<1> DEFINE t == Head(waitQ[e])
<1>1. /\ performQ' = Append(performQ, t)
      /\ UNCHANGED <<enterQ, Can_Retry, origin>>
  BY DEF RetryEnd, orderVars
<1>2. /\ t \in Trains /\ pc[t] = "Retry_End" /\ origin[t] = e
      /\ pc'[t] = "Perform_Enter" /\ OneMoves(t)
  BY <1>1, WaitHead, Moved DEF RetryEnd, IInv, QueuesMatch, Locations
<1>3. pc[t] \notin {"Perform_Enter"} /\ pc'[t] \in {"Perform_Enter"} /\ origin'[t] \in {e}
  BY <1>1, <1>2
<1>4. PerformFrom(e)'
  BY <1>1, <1>2, <1>3, QueueJoined DEF LettingIn, PerformFrom, OneMoves
<1>5. performQ' # <<>>
  <2>1. performQ \in Seq(Trains)
    BY DEF IInv, TypeOK
  <2>2. QED BY <1>1, <1>2, <2>1
<1>6. QED BY <1>1, <1>4, <1>5 DEF LettingIn, EnterQuiet

LEMMA RetryEndServed ==
    ASSUME IInv, ServeInv, NEW e \in Ends, RetryEnd(e) PROVE ServeInv'
<1> DEFINE t == Head(waitQ[e])
<1>1. /\ Can_Enter[e] /\ waitQ[e] # <<>>
      /\ Enter_Retry_Num' = Enter_Retry_Num - 1
      /\ Can_Enter' = [Can_Enter EXCEPT ![e] = Enter_Retry_Num # 1]
      /\ waitQ' = [waitQ EXCEPT ![e] = Tail(@)]
      /\ performQ' = Append(performQ, t)
      /\ UNCHANGED <<Free, Current_Direction, Train_Entered_Per_Direction, enterQ,
                     Can_Retry, leaveQ, Can_Retry_Leave, origin>>
  BY DEF RetryEnd, StaysOpen, orderVars, trackVars, leaveGuardVars, leaveQueues
<1>2. t \in Trains
  BY <1>1, WaitHead DEF IInv, QueuesMatch
<1>3. LettingIn(e) /\ Current_Direction = (IF Free THEN Other(e) ELSE e)
  BY <1>1 DEF ServeInv, OneEndEnters
<1>4. LettingIn(e)' /\ performQ' # <<>>
  BY <1>3, RetryEndLetsIn
<1>5. leaveQ = <<>> /\ ~Can_Retry_Leave
  BY <1>1, LeaveServed
<1>6. /\ Enter_Retry_Num \in Nat \ {0}
      /\ \A d \in Ends \ {e} : ~Can_Enter[d]
  BY SMTT(20), <1>1, OtherEnd DEF IInv, TypeOK, RetryCounters, EndCounter, Ends
<1>7. /\ Can_Enter'[e] <=> Enter_Retry_Num # 1
      /\ \A d \in Ends \ {e} : ~Can_Enter'[d] /\ waitQ'[d] = waitQ[d]
      /\ waitQ'[e] = Tail(waitQ[e]) /\ waitQ[e] \in Seq(Trains)
  BY <1>1, <1>6 DEF IInv, TypeOK
<1>8. ASSUME NEW d \in Ends, Len(waitQ'[d]) > Turns(d)'
      PROVE  Blocked(d)' \/ GivesWay(d)'
  <2>1. CASE d = e
    <3>1. Len(waitQ'[e]) = Len(waitQ[e]) - 1 /\ Turns(e)' = Enter_Retry_Num - 1
      <4>1. Len(waitQ'[e]) = Len(waitQ[e]) - 1
        BY <1>1, <1>7, HeadTailProperties
      <4>2. Turns(e)' = IF Can_Enter'[e] THEN Enter_Retry_Num' ELSE 0
        BY DEF Turns
      <4>3. QED BY <1>1, <1>6, <1>7, <4>1, <4>2
    <3>2. Blocked(e) \/ GivesWay(e)
      BY <1>1, <1>6, <1>7, <1>8, <2>1, <3>1 DEF ServeInv, WaitersHeld, Turns
    <3>3. Blocked(e)
      BY <1>3, <3>2, OtherEnd DEF GivesWay
    <3>4. QED BY <1>1, <1>7, <2>1, <3>3, OtherEnd DEF Blocked
  <2>2. CASE d # e
    <3>1. Other(d) = e /\ Other(e) = d
      BY <2>2, OtherEnd
    <3>2. Blocked(d) \/ GivesWay(d)
      BY <1>6, <1>7, <1>8, <2>2 DEF ServeInv, WaitersHeld, Turns
    <3>3. CASE Blocked(d)
      BY <1>1, <1>3, <2>2, <3>1, <3>3 DEF Blocked
    <3>4. CASE GivesWay(d)
      BY <1>1, <1>4, <3>1, <3>4 DEF GivesWay
    <3>5. QED BY <3>2, <3>3, <3>4
  <2>3. QED BY <2>1, <2>2
<1>9. QED BY <1>1, <1>3, <1>4, <1>5, <1>7, <1>8 DEF ServeInv, ServedApart, DirectionKnown,
     OneEndEnters, WaitersHeld

\* The last train to leave lets in all that wait at the end it ran towards,
\* and those that wait behind it give way.
LEMMA LeaveInOrderServed ==
    ASSUME IInv, ServeInv, LeaveInOrder PROVE ServeInv'
<1> DEFINE o == Other(Current_Direction)
<1>1. /\ leaveQ # <<>> /\ ~Free /\ FreeTrack
      /\ UNCHANGED <<Current_Direction, Train_Entered_Per_Direction, enterQ, Can_Retry,
                     performQ, waitQ, origin>>
  BY DEF LeaveInOrder, orderVars, enterQueues
<1>2. /\ EnterQuiet /\ performQ = <<>>
      /\ \A e \in Ends : ~Can_Enter[e] /\ ~GivesWay(e)
  BY <1>1, LeaveServed
<1>3. Current_Direction \in Ends /\ o \in Ends /\ Other(o) = Current_Direction
  BY <1>1, OtherEnd DEF ServeInv, DirectionKnown
<1>4. \A e \in Ends : Len(waitQ[e]) > 0 => Blocked(e)
  BY <1>2 DEF ServeInv, WaitersHeld, Turns
<1>5. CASE Trains_Number = 1 /\ waitQ[o] # <<>>
  <2>1. /\ Free' /\ Enter_Retry_Num' = Len(waitQ[o])
        /\ Can_Enter' = [Can_Enter EXCEPT ![o] = TRUE]
    BY <1>1, <1>5 DEF FreeTrack, OpenEnd
  <2>2. Can_Enter'[o] /\ \A e \in Ends \ {o} : ~Can_Enter'[e]
    BY <1>2, <1>3, <2>1 DEF IInv, TypeOK
  <2>3. LettingIn(o)'
    BY <1>1, <1>2, LineEmpty DEF LettingIn, EnterQuiet, PerformFrom
  <2>4. ASSUME NEW e \in Ends, Len(waitQ'[e]) > Turns(e)' PROVE GivesWay(e)'
    <3>1. e # o
      BY <1>1, <1>3, <2>1, <2>2, <2>4 DEF Turns, IInv, TypeOK
    <3>2. e = Current_Direction
      BY <1>3, <3>1, OtherEnd
    <3>3. QED BY <1>1, <2>1, <2>2, <2>3, <3>2 DEF GivesWay
  <2>5. QED BY <1>1, <1>2, <1>3, <2>1, <2>2, <2>3, <2>4 DEF ServeInv, ServedApart,
       EnterQuiet, DirectionKnown, OneEndEnters, WaitersHeld
<1>6. CASE Trains_Number = 1 /\ waitQ[o] = <<>>
  <2>1. Free' /\ UNCHANGED <<Can_Enter, Enter_Retry_Num>>
    BY <1>1, <1>6 DEF FreeTrack, OpenEnd, enterGuardVars
  <2>2. \A e \in Ends : waitQ[e] = <<>>
    <3>1. waitQ[Current_Direction] = <<>>
      BY <1>3, <1>4, <1>6 DEF Blocked, IInv, TypeOK
    <3>2. QED BY <1>3, <1>6, <3>1, OtherEnd
  <2>3. QED BY <1>1, <1>2, <2>1, <2>2 DEF ServeInv, ServedApart, EnterQuiet,
       DirectionKnown, OneEndEnters, WaitersHeld, Turns
<1>7. CASE Trains_Number # 1
  BY <1>1, <1>7, LeaveServes DEF FreeTrack, enterGuardVars
<1>8. QED BY <1>5, <1>6, <1>7
-----------------------------------------------------------------------------
LEMMA ServeInit == Init => ServeInv
BY DEF Init, ServeInv, ServedApart, DirectionKnown, OneEndEnters, WaitersHeld, Turns

LEMMA TrainServed ==
    ASSUME IInv, ServeInv, NEW t \in Trains, TrainStep(t) PROVE ServeInv'
<1>1. CASE Add_Train(t)
  <2>1. OneMoves(t) /\ pc[t] = "gate"
    BY <1>1, Moved DEF Add_Train, IInv, Locations
  <2>2. QED BY <1>1, <2>1, ServeKept DEF Add_Train, serveVars, trackVars, enterGuardVars,
       leaveGuardVars, enterQueues, leaveQueues
<1>2. CASE ReleaseGate(t)
  <2>1. OneMoves(t) /\ pc[t] = "added"
    BY <1>2, Moved DEF ReleaseGate, IInv, Locations
  <2>2. QED BY <1>2, <2>1, ServeKept DEF ReleaseGate, serveVars, objectVars, orderVars,
       trackVars, enterGuardVars, leaveGuardVars, enterQueues, leaveQueues
<1>3. CASE Settle(t)
  <2>1. OneMoves(t) /\ pc[t] = "left"
    BY <1>3, Moved DEF Settle, IInv, Locations
  <2>2. QED BY <1>3, <2>1, ServeKept DEF Settle, serveVars, orderVars,
       trackVars, enterGuardVars, leaveGuardVars, enterQueues, leaveQueues
<1>4. QED BY <1>1, <1>2, <1>3, CallEnterServed, CallLeaveServed DEF TrainStep

LEMMA ServeServed == ASSUME IInv, ServeInv, Serve PROVE ServeInv'
<1> USE DEF IInv
<1>1. CASE Retry
  BY <1>1, EnterServes DEF Retry, EnterQuiet, serveVars, trackVars, enterGuardVars,
     leaveGuardVars, leaveQueues
<1>2. CASE EnterFromElsewhere
  BY <1>2, EnterServes DEF EnterFromElsewhere, EnterQuiet, serveVars, trackVars,
     enterGuardVars, leaveGuardVars, leaveQueues
<1>3. CASE EnterOutOfOrder
  BY <1>3, EnterServes DEF EnterOutOfOrder, EnterQuiet, serveVars, trackVars,
     enterGuardVars, leaveGuardVars, leaveQueues
<1>4. CASE EnterInOrder
  BY <1>4, EnterServes DEF EnterInOrder, EnterQuiet, serveVars, trackVars,
     enterGuardVars, leaveGuardVars, leaveQueues
<1>5. CASE LeaveOutOfOrder
  BY <1>5, LeaveServes DEF LeaveOutOfOrder, trackVars, enterGuardVars, orderVars,
     enterQueues
<1>6. CASE Retry_Leave
  BY <1>6, LeaveServes DEF Retry_Leave, trackVars, enterGuardVars, orderVars,
     enterQueues
<1>7. QED BY <1>1, <1>2, <1>3, <1>4, <1>5, <1>6, PerformEnterWaitsServed,
     PerformEnterRunsServed, RetryEndServed, LeaveInOrderServed DEF Serve

LEMMA ServeStep == IInv /\ ServeInv /\ [Next]_vars => ServeInv'
<1> SUFFICES ASSUME IInv, ServeInv, [Next]_vars PROVE ServeInv'
  OBVIOUS
<1>1. ASSUME NEW t \in Trains, NEW s \in Origins, AskGate(t, s) PROVE ServeInv'
  <2>1. OneMoves(t) /\ pc[t] = "idle"
    BY <1>1 DEF AskGate, MoveTo, IInv, TypeOK, OneMoves, OnlyMoves
  <2>2. QED BY <1>1, <2>1, ServeKept DEF AskGate, serveVars, objectVars, orderVars,
       trackVars, enterGuardVars, leaveGuardVars, enterQueues, leaveQueues
<1>2. CASE PassGate \/ UNCHANGED vars
  <2>1. UNCHANGED <<trainVars, objectVars>>
    BY <1>2 DEF PassGate, vars
  <2>2. QED BY <2>1 DEF trainVars, objectVars, orderVars, trackVars, enterGuardVars,
       leaveGuardVars, enterQueues, leaveQueues, ServeInv, ServedApart, DirectionKnown,
       OneEndEnters, WaitersHeld, EnterQuiet, LettingIn, PerformFrom, Turns, Blocked,
       GivesWay
<1>3. QED BY <1>1, <1>2, TrainServed, ServeServed DEF Next
-----------------------------------------------------------------------------
(* How often an end is passed over.                                          *)

\* Only Perform_Enter lets a train onto the track.
LEMMA NobodyElseEnters ==
    ASSUME IInv, [Next]_vars, ~PerformEnterRuns
    PROVE  \A t \in Trains : ~Entering(t)
<1> SUFFICES ASSUME NEW t \in Trains, Entering(t) PROVE FALSE
  OBVIOUS
<1> USE DEF IInv, QueuesMatch, TypeOK, Entering, MoveTo
<1>1. ~\E u \in Trains, s \in Origins : AskGate(u, s)
  BY DEF AskGate
<1>2. ~PassGate /\ ~UNCHANGED vars
  BY DEF PassGate, vars, trainVars
<1>3. ~\E u \in Trains : TrainStep(u)
  BY DEF TrainStep, Add_Train, ReleaseGate, CallEnter, CallLeave, Settle
<1>4. ~Retry /\ ~EnterFromElsewhere /\ ~EnterOutOfOrder /\ ~EnterInOrder
  BY DEF Retry, EnterFromElsewhere, EnterOutOfOrder, EnterInOrder
<1>5. ~PerformEnterWaits /\ ~\E e \in Ends : RetryEnd(e)
  BY DEF PerformEnterWaits, RetryEnd
<1>6. ~LeaveOutOfOrder /\ ~LeaveInOrder /\ ~Retry_Leave
  BY DEF LeaveOutOfOrder, LeaveInOrder, Retry_Leave
<1>7. QED BY <1>1, <1>2, <1>3, <1>4, <1>5, <1>6 DEF Next, Serve

\* And it lets one in, the head of its queue.
LEMMA HeadEnters ==
    ASSUME IInv, PerformEnterRuns
    PROVE  /\ Head(performQ) \in Trains /\ Entering(Head(performQ))
           /\ \A t \in Trains : Entering(t) => t = Head(performQ)
BY PerformHead DEF IInv, QueuesMatch, TypeOK, Entering, MoveTo, PerformEnterRuns

LEMMA BypassKept ==
    ASSUME BypassInv, bypass' = [e \in Ends |-> BypassAfter(e)],
           \A t \in Trains : ~Entering(t)
    PROVE  bypass' = bypass
BY DEF BypassInv, BypassAfter

\* A step while nobody gives way leaves what is passed over as it was.
LEMMA PassedOverKept ==
    ASSUME BypassInv, bypass' = bypass, \A e \in Ends : ~GivesWay(e),
           UNCHANGED <<Free, Current_Direction, Train_Entered_Per_Direction, waitQ>>
    PROVE  BypassInv'
BY OtherEnd DEF BypassInv, PassedOver

LEMMA GivesWayKept ==
    ASSUME BypassInv, bypass' = bypass, NEW t, OneMoves(t), pc[t] # "Perform_Enter",
           UNCHANGED <<serveVars, enterQ, Can_Retry, performQ>>
    PROVE  BypassInv'
<1>1. ASSUME NEW e, GivesWay(e) PROVE GivesWay(e)'
  BY <1>1, LettingInKept DEF GivesWay, serveVars
<1>2. QED BY <1>1 DEF BypassInv, PassedOver, serveVars

LEMMA TrainPasses ==
    ASSUME IInv, ServeInv, BypassInv, bypass' = bypass, NEW t \in Trains, TrainStep(t)
    PROVE  BypassInv'
<1>1. CASE Add_Train(t)
  <2>1. OneMoves(t) /\ pc[t] = "gate"
    BY <1>1, Moved DEF Add_Train, IInv, Locations
  <2>2. QED BY <1>1, <2>1, GivesWayKept DEF Add_Train, serveVars, trackVars,
       enterGuardVars, leaveGuardVars, enterQueues, leaveQueues
<1>2. CASE ReleaseGate(t)
  <2>1. OneMoves(t) /\ pc[t] = "added"
    BY <1>2, Moved DEF ReleaseGate, IInv, Locations
  <2>2. QED BY <1>2, <2>1, GivesWayKept DEF ReleaseGate, serveVars, objectVars, orderVars,
       trackVars, enterGuardVars, leaveGuardVars, enterQueues, leaveQueues
<1>3. CASE Settle(t)
  <2>1. OneMoves(t) /\ pc[t] = "left"
    BY <1>3, Moved DEF Settle, IInv, Locations
  <2>2. QED BY <1>3, <2>1, GivesWayKept DEF Settle, serveVars, orderVars,
       trackVars, enterGuardVars, leaveGuardVars, enterQueues, leaveQueues
<1>4. CASE CallEnter(t) \/ CallLeave(t)
  <2>1. \A e \in Ends : ~GivesWay(e)
    BY <1>4, QuietCall, OtherEnd DEF CallEnter, CallLeave, GivesWay
  <2>2. QED BY <1>4, <2>1, PassedOverKept DEF CallEnter, CallLeave, trackVars, enterQueues
<1>5. QED BY <1>1, <1>2, <1>3, <1>4 DEF TrainStep

\* The trains of an end that is passed over are let in when the segment is free.
LEMMA RetryEndPasses ==
    ASSUME IInv, ServeInv, BypassInv, bypass' = bypass, NEW e \in Ends, RetryEnd(e)
    PROVE  BypassInv'
<1>1. /\ Can_Enter[e]
      /\ UNCHANGED <<Free, Current_Direction, Train_Entered_Per_Direction>>
  BY DEF RetryEnd, trackVars
<1>2. LettingIn(e) /\ Current_Direction = (IF Free THEN Other(e) ELSE e)
  BY <1>1 DEF ServeInv, OneEndEnters
<1>3. LettingIn(e)' /\ performQ' # <<>>
  BY <1>2, RetryEndLetsIn
<1>4. ASSUME NEW d \in Ends, PassedOver(d) PROVE PassedOver(d)'
  <2>1. SUFFICES ASSUME bypass[d] > 0
                 PROVE  /\ ~Free => waitQ'[d] # <<>>
                        /\ Free => GivesWay(Other(d))'
    BY <1>1, <1>4 DEF PassedOver
  <2>2. Current_Direction = Other(d) /\ (~Free => waitQ[d] # <<>>)
    BY <1>4, <2>1 DEF PassedOver
  <2>3. CASE Free
    <3>1. d = e
      BY <1>2, <2>2, <2>3, OtherEnd
    <3>2. QED BY <1>1, <1>2, <1>3, <2>3, <3>1, OtherEnd DEF GivesWay
  <2>4. CASE ~Free
    <3>1. d # e
      BY <1>2, <2>2, <2>4, OtherEnd
    <3>2. waitQ'[d] = waitQ[d]
      BY <3>1 DEF RetryEnd, IInv, TypeOK
    <3>3. QED BY <2>2, <2>4, <3>2
  <2>5. QED BY <2>3, <2>4
<1>5. QED BY <1>4 DEF BypassInv

LEMMA PerformEnterWaitsPasses ==
    ASSUME IInv, ServeInv, BypassInv, bypass' = bypass, PerformEnterWaits
    PROVE  BypassInv'
<1> DEFINE t == Head(performQ)
<1>1. t \in Trains /\ origin[t] \in Ends
  BY PerformHead DEF PerformEnterWaits, IInv, QueuesMatch
<1>2. /\ ~Free /\ waitQ' = [waitQ EXCEPT ![origin[t]] = Append(@, t)]
      /\ UNCHANGED <<Free, Current_Direction, Train_Entered_Per_Direction>>
  BY DEF PerformEnterWaits, MustWait, trackVars
<1>3. ASSUME NEW e \in Ends, waitQ[e] # <<>> PROVE waitQ'[e] # <<>>
  <2>1. waitQ[e] \in Seq(Trains)
    BY DEF IInv, TypeOK
  <2>2. waitQ'[e] = waitQ[e] \/ waitQ'[e] = Append(waitQ[e], t)
    BY <1>2 DEF IInv, TypeOK
  <2>3. QED BY <1>1, <1>3, <2>1, <2>2
<1>4. QED BY <1>2, <1>3 DEF BypassInv, PassedOver

LEMMA LeaveInOrderPasses ==
    ASSUME IInv, ServeInv, ServeInv', BypassInv, bypass' = bypass, LeaveInOrder
    PROVE  BypassInv'
<1>1. /\ leaveQ # <<>> /\ ~Free /\ FreeTrack
      /\ UNCHANGED <<Current_Direction, Train_Entered_Per_Direction, waitQ>>
  BY DEF LeaveInOrder, enterQueues
<1>2. \A e \in Ends : ~GivesWay(e)
  BY <1>1, LeaveServed
<1>3. CASE Trains_Number # 1
  BY <1>1, <1>2, <1>3, PassedOverKept DEF FreeTrack
<1>4. CASE Trains_Number = 1
  <2>1. SUFFICES ASSUME NEW e \in Ends, bypass[e] > 0
                 PROVE  GivesWay(Other(e))' /\ Free'
    BY <1>1, <1>4 DEF BypassInv, PassedOver
  <2>2. Current_Direction = Other(e) /\ waitQ[e] # <<>>
    BY <1>1, <2>1 DEF BypassInv, PassedOver
  <2>3. Free' /\ Can_Enter'[e]
    BY <1>1, <1>4, <2>2, OtherEnd DEF FreeTrack, OpenEnd, IInv, TypeOK
  <2>4. LettingIn(e)'
    BY <2>3 DEF ServeInv, OneEndEnters
  <2>5. QED BY <1>1, <2>2, <2>3, <2>4, OtherEnd DEF GivesWay
<1>5. QED BY <1>3, <1>4

\* A train that enters while trains wait opposite is counted, and finds fewer
\* than Max counted.
LEMMA PerformEnterRunsPasses ==
    ASSUME IInv, ServeInv, BypassInv, bypass' = [e \in Ends |-> BypassAfter(e)],
           PerformEnterRuns
    PROVE  BypassInv'
<1> DEFINE t == Head(performQ)
<1> DEFINE n == Train_Entered_Per_Direction
<1>0. PICK o \in Ends : t \in Trains /\ origin[t] = o
  BY PerformHead DEF PerformEnterRuns, IInv, QueuesMatch
<1>1. /\ t \in Trains /\ origin[t] = o
      /\ Other(o) \in Ends /\ Other(o) # o /\ Other(Other(o)) = o
  BY <1>0, OtherEnd
<1>2. /\ performQ # <<>> /\ ~Free' /\ waitQ' = waitQ /\ ~MustWait(t)
      /\ Current_Direction' = IF Free THEN o ELSE Current_Direction
      /\ n' = EnteredAfter
  BY <1>1 DEF PerformEnterRuns
<1>3. n \in 0..Max /\ bypass \in [Ends -> Nat] /\ Max \in Nat \ {0}
  BY MaxAssumption DEF IInv, TypeOK, BypassInv
<1>4. Current_Direction' = o
  BY <1>1, <1>2 DEF MustWait
<1>5. BypassAfter(o) = 0
  BY <1>1, HeadEnters DEF BypassAfter
<1>6. BypassAfter(Other(o)) = IF waitQ[Other(o)] # <<>> THEN bypass[Other(o)] + 1
                              ELSE bypass[Other(o)]
  BY <1>1, HeadEnters DEF BypassAfter
<1>7. PassedOver(Other(o))
  BY <1>1 DEF BypassInv
<1>8. bypass[Other(o)] > 0 => ~Free /\ bypass[Other(o)] <= n /\ waitQ[Other(o)] # <<>>
  <2>1. ~GivesWay(o)
    BY <1>1, <1>2, PerformApart DEF GivesWay, LettingIn
  <2>2. QED BY <1>1, <1>7, <2>1 DEF PassedOver
<1>9. BypassAfter(Other(o)) \in Nat
  BY <1>1, <1>3, <1>6
<1>10. bypass'[o] = 0 /\ bypass'[Other(o)] = BypassAfter(Other(o))
  BY <1>1, <1>5
<1>11. PassedOver(o)'
  BY <1>10 DEF PassedOver
<1>12. PassedOver(Other(o))'
  <2>1. SUFFICES ASSUME BypassAfter(Other(o)) > 0
                 PROVE  BypassAfter(Other(o)) <= n' /\ waitQ[Other(o)] # <<>>
    BY <1>1, <1>2, <1>4, <1>10 DEF PassedOver
  <2>2. waitQ[Other(o)] # <<>> /\ BypassAfter(Other(o)) = bypass[Other(o)] + 1
    BY <1>6, <1>8, <2>1
  <2>3. bypass[Other(o)] \in Nat /\ (Free => bypass[Other(o)] = 0)
    BY <1>1, <1>3, <1>8
  <2>4. CASE Free
    BY <1>2, <2>2, <2>3, <2>4 DEF EnteredAfter
  <2>5. CASE ~Free
    <3>1. n # Max /\ n' = n + 1
      BY <1>1, <1>2, <2>2, <2>5 DEF MustWait, EnteredAfter
    <3>2. QED BY <1>3, <1>8, <2>2, <2>3, <3>1
  <2>6. QED BY <2>4, <2>5
<1>13. bypass' \in [Ends -> Nat]
  <2>1. \A e \in Ends : BypassAfter(e) \in Nat
    BY <1>1, <1>5, <1>9, OtherEnd
  <2>2. QED BY <2>1, Zenon
<1>14. QED BY <1>1, <1>11, <1>12, <1>13, OtherEnd DEF BypassInv

LEMMA ServePasses ==
    ASSUME IInv, ServeInv, ServeInv', BypassInv, bypass' = bypass, Serve, ~PerformEnterRuns
    PROVE  BypassInv'
<1>1. CASE Retry \/ EnterFromElsewhere \/ EnterOutOfOrder \/ EnterInOrder
  <2>1. ~EnterQuiet /\ UNCHANGED <<trackVars, waitQ>>
    BY <1>1 DEF Retry, EnterFromElsewhere, EnterOutOfOrder, EnterInOrder, EnterQuiet
  <2>2. QED BY <2>1, EnterServed, PassedOverKept DEF trackVars
<1>2. CASE LeaveOutOfOrder \/ Retry_Leave
  <2>1. (leaveQ # <<>> \/ Can_Retry_Leave) /\ UNCHANGED <<trackVars, waitQ>>
    BY <1>2 DEF LeaveOutOfOrder, Retry_Leave, enterQueues
  <2>2. QED BY <2>1, LeaveServed, PassedOverKept DEF trackVars
<1>3. QED BY <1>1, <1>2, PerformEnterWaitsPasses, RetryEndPasses, LeaveInOrderPasses
     DEF Serve

LEMMA BypassStep ==
    ASSUME IInv, ServeInv, ServeInv', BypassInv, Next,
           bypass' = [e \in Ends |-> BypassAfter(e)]
    PROVE  BypassInv'
<1>1. CASE PerformEnterRuns
  BY <1>1, PerformEnterRunsPasses
<1>2. CASE ~PerformEnterRuns
  <2>1. bypass' = bypass
    BY <1>2, NobodyElseEnters, BypassKept
  <2>2. ASSUME NEW t \in Trains, NEW s \in Origins, AskGate(t, s) PROVE BypassInv'
    <3>1. OneMoves(t) /\ pc[t] = "idle"
      BY <2>2 DEF AskGate, MoveTo, IInv, TypeOK, OneMoves, OnlyMoves
    <3>2. QED BY <2>1, <2>2, <3>1, GivesWayKept DEF AskGate, serveVars, objectVars,
         orderVars, trackVars, enterGuardVars, leaveGuardVars, enterQueues, leaveQueues
  <2>3. CASE PassGate
    BY <2>1, <2>3 DEF PassGate, trainVars, objectVars, orderVars, trackVars,
       enterGuardVars, enterQueues, BypassInv, PassedOver, GivesWay, LettingIn,
       EnterQuiet, PerformFrom
  <2>4. QED BY <1>2, <2>1, <2>2, <2>3, TrainPasses, ServePasses DEF Next
<1>3. QED BY <1>1, <1>2

LEMMA OrderStutter ==
    ASSUME ServeInv, BypassInv, UNCHANGED <<vars, orderHistory>>
    PROVE  ServeInv' /\ BypassInv'
BY DEF vars, orderHistory, trainVars, objectVars, orderVars, trackVars, enterGuardVars,
   leaveGuardVars, enterQueues, leaveQueues, ServeInv, ServedApart, DirectionKnown,
   OneEndEnters, WaitersHeld, EnterQuiet, LettingIn, PerformFrom, Turns, Blocked,
   GivesWay, BypassInv, PassedOver

LEMMA OrderInvHolds == HistorySpec => [](IInv /\ ServeInv /\ BypassInv)
<1>1. HistoryInit => IInv /\ ServeInv /\ BypassInv
  BY InitInv, ServeInit DEF HistoryInit, BypassInv, PassedOver
<1>2. IInv /\ ServeInv /\ BypassInv /\ [HistoryNext]_<<vars, orderHistory>>
         => (IInv /\ ServeInv /\ BypassInv)'
  <2>1. SUFFICES ASSUME IInv, ServeInv, BypassInv, [HistoryNext]_<<vars, orderHistory>>
                 PROVE  IInv' /\ ServeInv' /\ BypassInv'
    OBVIOUS
  <2>2. CASE HistoryNext
    BY <2>1, <2>2, StepInv, ServeStep, BypassStep DEF HistoryNext
  <2>3. CASE UNCHANGED <<vars, orderHistory>>
    BY <2>1, <2>3, StutterInv, OrderStutter
  <2>4. QED BY <2>1, <2>2, <2>3
<1>3. QED BY <1>1, <1>2, PTL DEF HistorySpec

\* No end is starved: however many trains there are, at most Max of them enter
\* from one end while trains wait at the other, whether they wait for the
\* direction or for the count (segment.adb:103-161).
THEOREM SegmentBypass == HistorySpec => []BoundedBypass
<1>1. IInv /\ BypassInv => BoundedBypass
  <2>1. SUFFICES ASSUME IInv, BypassInv, NEW e \in Ends PROVE bypass[e] <= Max
    BY DEF BoundedBypass
  <2>2. bypass[e] \in Nat /\ PassedOver(e)
    BY <2>1 DEF BypassInv
  <2>3. Train_Entered_Per_Direction \in 0..Max
    BY <2>1 DEF IInv, TypeOK
  <2>4. QED BY <2>2, <2>3, MaxAssumption DEF PassedOver
<1>2. QED BY <1>1, OrderInvHolds, PTL
-----------------------------------------------------------------------------
(* The first n of a queue and the others. *)
FirstOf(q, n) == SubSeq(q, 1, n)
RestOf(q, n) == SubSeq(q, n + 1, Len(q))

LEMMA PartsType ==
    ASSUME NEW S, NEW q \in Seq(S), NEW n \in 0..Len(q)
    PROVE  /\ FirstOf(q, n) \in Seq(S) /\ Len(FirstOf(q, n)) = n
           /\ \A i \in 1..n : FirstOf(q, n)[i] = q[i]
           /\ RestOf(q, n) \in Seq(S) /\ Len(RestOf(q, n)) = Len(q) - n
           /\ \A i \in 1..Len(q) - n : RestOf(q, n)[i] = q[n + i]
<1>1. Len(q) \in Nat /\ n \in Int /\ 1 \in Int /\ n + 1 \in Int /\ Len(q) \in Int
  OBVIOUS
<1>2. /\ \A i \in 1..n : q[i] \in S
      /\ \A i \in n + 1..Len(q) : q[i] \in S
  BY ElementOfSeq
<1>3. /\ SubSeq(q, 1, n) \in Seq(S)
      /\ Len(SubSeq(q, 1, n)) = (IF 1 <= n THEN n - 1 + 1 ELSE 0)
      /\ \A i \in 1..n - 1 + 1 : SubSeq(q, 1, n)[i] = q[1 + i - 1]
  BY <1>1, <1>2, SubSeqProperties
<1>4. /\ SubSeq(q, n + 1, Len(q)) \in Seq(S)
      /\ Len(SubSeq(q, n + 1, Len(q))) = (IF n + 1 <= Len(q) THEN Len(q) - (n + 1) + 1 ELSE 0)
      /\ \A i \in 1..Len(q) - (n + 1) + 1 : SubSeq(q, n + 1, Len(q))[i] = q[(n + 1) + i - 1]
  BY <1>1, <1>2, SubSeqProperties
<1>5. QED BY <1>1, <1>3, <1>4 DEF FirstOf, RestOf

LEMMA PartsStand ==
    ASSUME NEW S, NEW q \in Seq(S), NEW n \in 0..Len(q), NEW t
    PROVE  StandsIn(t, q) <=> StandsIn(t, FirstOf(q, n)) \/ StandsIn(t, RestOf(q, n))
<1>1. Len(q) \in Nat /\ n \in Nat
  OBVIOUS
<1> DEFINE f == FirstOf(q, n)
<1> DEFINE r == RestOf(q, n)
<1>0. /\ Len(f) = n /\ \A i \in 1..n : f[i] = q[i]
      /\ Len(r) = Len(q) - n /\ \A i \in 1..Len(q) - n : r[i] = q[n + i]
  BY PartsType
<1> HIDE DEF f, r
<1>2. ASSUME StandsIn(t, q) PROVE StandsIn(t, f) \/ StandsIn(t, r)
  <2>1. PICK i \in 1..Len(q) : q[i] = t
    BY <1>2 DEF StandsIn
  <2>2. CASE i <= n
    <3>1. i \in 1..Len(f) /\ f[i] = t
      BY <1>1, <2>1, <2>2, <1>0
    <3>2. QED BY <3>1 DEF StandsIn
  <2>3. CASE i > n
    <3>1. i - n \in 1..Len(r) /\ i - n \in 1..Len(q) - n /\ n + (i - n) = i
      BY <1>1, <2>1, <2>3, <1>0
    <3>2. r[i - n] = t
      BY <2>1, <3>1, <1>0
    <3>3. QED BY <3>1, <3>2 DEF StandsIn
  <2>4. QED BY <1>1, <2>2, <2>3
<1>3. ASSUME StandsIn(t, f) PROVE StandsIn(t, q)
  <2>1. PICK i \in 1..n : f[i] = t
    BY <1>3, <1>0 DEF StandsIn
  <2>2. i \in 1..Len(q) /\ q[i] = t
    BY <1>1, <2>1, <1>0
  <2>3. QED BY <2>2 DEF StandsIn
<1>4. ASSUME StandsIn(t, r) PROVE StandsIn(t, q)
  <2>1. PICK i \in 1..Len(q) - n : r[i] = t
    BY <1>4, <1>0 DEF StandsIn
  <2>2. n + i \in 1..Len(q)
    BY <1>1, <2>1
  <2>3. q[n + i] = t
    BY <2>1, <1>0
  <2>4. QED BY <2>2, <2>3 DEF StandsIn
<1>5. QED BY <1>2, <1>3, <1>4 DEF f, r

LEMMA PartsAppend ==
    ASSUME NEW S, NEW q \in Seq(S), NEW n \in 0..Len(q), NEW x \in S
    PROVE  /\ FirstOf(Append(q, x), n) = FirstOf(q, n)
           /\ RestOf(Append(q, x), n) = Append(RestOf(q, n), x)
<1> DEFINE p == Append(q, x)
<1>1. /\ Len(q) \in Nat /\ n \in Nat /\ p \in Seq(S) /\ Len(p) = Len(q) + 1
      /\ \A i \in 1..Len(q) : p[i] = q[i]
      /\ p[Len(q) + 1] = x
  OBVIOUS
<1>2. n \in 0..Len(p)
  BY <1>1
<1>3. /\ FirstOf(q, n) \in Seq(S) /\ Len(FirstOf(q, n)) = n
      /\ \A i \in 1..n : FirstOf(q, n)[i] = q[i]
      /\ RestOf(q, n) \in Seq(S) /\ Len(RestOf(q, n)) = Len(q) - n
      /\ \A i \in 1..Len(q) - n : RestOf(q, n)[i] = q[n + i]
  BY PartsType
<1>4. /\ FirstOf(p, n) \in Seq(S) /\ Len(FirstOf(p, n)) = n
      /\ \A i \in 1..n : FirstOf(p, n)[i] = p[i]
      /\ RestOf(p, n) \in Seq(S) /\ Len(RestOf(p, n)) = Len(p) - n
      /\ \A i \in 1..Len(p) - n : RestOf(p, n)[i] = p[n + i]
  BY <1>1, <1>2, PartsType
<1> HIDE DEF p
<1>5. FirstOf(p, n) = FirstOf(q, n)
  <2>1. ASSUME NEW i \in 1..n PROVE FirstOf(p, n)[i] = FirstOf(q, n)[i]
    <3>1. FirstOf(p, n)[i] = p[i] /\ FirstOf(q, n)[i] = q[i] /\ i \in 1..Len(q)
      BY <1>1, <1>3, <1>4
    <3>2. QED BY <1>1, <3>1
  <2>2. QED BY <1>3, <1>4, <2>1, SeqEqual
<1>6. RestOf(p, n) = Append(RestOf(q, n), x)
  <2> DEFINE r == Append(RestOf(q, n), x)
  <2>1. /\ r \in Seq(S) /\ Len(r) = Len(q) - n + 1
        /\ \A i \in 1..Len(q) - n : r[i] = RestOf(q, n)[i]
        /\ r[Len(q) - n + 1] = x
    BY <1>3
  <2> HIDE DEF r
  <2>2. ASSUME NEW i \in 1..Len(p) - n PROVE RestOf(p, n)[i] = r[i]
    <3>1. CASE i \in 1..Len(q) - n
      BY <1>1, <1>3, <1>4, <2>1, <3>1
    <3>2. CASE i = Len(q) - n + 1
      BY <1>1, <1>4, <2>1, <3>2
    <3>3. QED BY <1>1, <3>1, <3>2
  <2>3. RestOf(p, n) = r
    BY <1>1, <1>4, <2>1, <2>2, SeqEqual
  <2>4. QED BY <2>3 DEF r
<1>7. QED BY <1>5, <1>6 DEF p

LEMMA PartsTail ==
    ASSUME NEW S, NEW q \in Seq(S), NEW n \in 1..Len(q)
    PROVE  /\ Head(FirstOf(q, n)) = Head(q) /\ FirstOf(q, n) # <<>>
           /\ FirstOf(Tail(q), n - 1) = Tail(FirstOf(q, n))
           /\ RestOf(Tail(q), n - 1) = RestOf(q, n)
<1> DEFINE p == Tail(q)
<1>1. /\ Len(q) \in Nat /\ n \in Nat /\ q # <<>>
      /\ p \in Seq(S) /\ Len(p) = Len(q) - 1 /\ Head(q) = q[1]
      /\ \A i \in 1..Len(p) : p[i] = q[i + 1]
  OBVIOUS
<1>2. n - 1 \in 0..Len(p) /\ n \in 0..Len(q)
  BY <1>1
<1>3. /\ FirstOf(q, n) \in Seq(S) /\ Len(FirstOf(q, n)) = n
      /\ \A i \in 1..n : FirstOf(q, n)[i] = q[i]
      /\ RestOf(q, n) \in Seq(S) /\ Len(RestOf(q, n)) = Len(q) - n
      /\ \A i \in 1..Len(q) - n : RestOf(q, n)[i] = q[n + i]
  BY <1>2, PartsType
<1>4. /\ FirstOf(p, n - 1) \in Seq(S) /\ Len(FirstOf(p, n - 1)) = n - 1
      /\ \A i \in 1..n - 1 : FirstOf(p, n - 1)[i] = p[i]
      /\ RestOf(p, n - 1) \in Seq(S) /\ Len(RestOf(p, n - 1)) = Len(p) - (n - 1)
      /\ \A i \in 1..Len(p) - (n - 1) : RestOf(p, n - 1)[i] = p[n - 1 + i]
  BY <1>1, <1>2, PartsType
<1> HIDE DEF p
<1>5. FirstOf(q, n) # <<>> /\ Head(FirstOf(q, n)) = Head(q)
  BY <1>1, <1>3
<1>6. FirstOf(p, n - 1) = Tail(FirstOf(q, n))
  <2> DEFINE r == Tail(FirstOf(q, n))
  <2>1. /\ r \in Seq(S) /\ Len(r) = n - 1
        /\ \A i \in 1..n - 1 : r[i] = FirstOf(q, n)[i + 1]
    BY <1>3, <1>5, HeadTailProperties
  <2> HIDE DEF r
  <2>2. ASSUME NEW i \in 1..n - 1 PROVE FirstOf(p, n - 1)[i] = r[i]
    BY SMTT(20), <1>1, <1>3, <1>4, <2>1
  <2>3. FirstOf(p, n - 1) = r
    BY <1>1, <1>4, <2>1, <2>2, SeqEqual
  <2>4. QED BY <2>3 DEF r
<1>7. RestOf(p, n - 1) = RestOf(q, n)
  <2>1. Len(RestOf(p, n - 1)) = Len(RestOf(q, n))
    <3>1. Len(p) - (n - 1) = Len(q) - n
      BY <1>1
    <3>2. QED BY <1>3, <1>4, <3>1
  <2>2. ASSUME NEW i \in 1..Len(RestOf(p, n - 1)) PROVE RestOf(p, n - 1)[i] = RestOf(q, n)[i]
    <3>1. RestOf(p, n - 1)[i] = p[n - 1 + i] /\ RestOf(q, n)[i] = q[n + i]
      BY <1>1, <1>3, <1>4
    <3>2. n - 1 + i \in 1..Len(p) /\ n - 1 + i + 1 = n + i
      BY SMTT(20), <1>1, <1>4
    <3>3. QED BY <1>1, <3>1, <3>2
  <2>3. QED BY <1>3, <1>4, <2>1, <2>2, SeqEqual
<1>8. QED BY <1>5, <1>6, <1>7 DEF p

LEMMA PartsEnds ==
    ASSUME NEW S, NEW q \in Seq(S)
    PROVE  /\ FirstOf(q, 0) = <<>> /\ RestOf(q, 0) = q
           /\ FirstOf(q, Len(q)) = q /\ RestOf(q, Len(q)) = <<>>
<1>1. Len(q) \in Nat
  OBVIOUS
<1>2. FirstOf(q, 0) = <<>> /\ RestOf(q, Len(q)) = <<>>
  BY <1>1, SubSeqEmpty DEF FirstOf, RestOf
<1>3. FirstOf(q, Len(q)) = q /\ RestOf(q, 0) = q
  BY <1>1, SubSeqFull DEF FirstOf, RestOf
<1>4. QED BY <1>2, <1>3
-----------------------------------------------------------------------------
(* The order of the lines.                                                   *)

\* The trains that wait at end e and have to stay, and those it lets in.
Held(e) == RestOf(waitQ[e], Turns(e))
Due(e) == FirstOf(waitQ[e], Turns(e))

LinePlaces == {"added", "ordered", "Enter", "Retry", "Perform_Enter", "Retry_End"}
OrderPlaces == EnterPlaces \cup {"dropped"}

OrderMatches == Trains_Order \in Line(At(pc, origin, OrderPlaces, Origins))

\* A train at Perform_Enter or at an end stands in the queue there.
NoneHidden ==
    /\ \A t \in Trains : pc[t] = "Perform_Enter" => StandsIn(t, performQ)
    /\ \A t \in Trains, e \in Ends :
          pc[t] = "Retry_End" /\ origin[t] = e => StandsIn(t, waitQ[e])

LineMatches(e) ==
    /\ line[e] \in Line(At(pc, origin, LinePlaces, {e}))
    /\ \A t \in Trains : pc[t] \in LinePlaces /\ origin[t] = e => StandsIn(t, line[e])

\* The order in which the queues hold the trains of end e: those that have to
\* stay, those at Perform_Enter, those it lets in, those that have not come to
\* Perform_Enter yet.
Precedes(t, u, e) ==
    \/ Ahead(t, u, Held(e)) \/ Ahead(t, u, performQ)
    \/ Ahead(t, u, Due(e)) \/ Ahead(t, u, Trains_Order)
    \/ StandsIn(t, Held(e)) /\ (StandsIn(u, performQ) \/ StandsIn(u, Due(e)))
    \/ StandsIn(t, performQ) /\ StandsIn(u, Due(e))
    \/ ~StandsIn(t, Trains_Order) /\ StandsIn(u, Trains_Order)

LineKeptInOrder(e) ==
    \A t, u \in Trains : Ahead(t, u, line[e]) => Precedes(t, u, e)

LineInv ==
    /\ line \in [Ends -> Seq(Trains)]
    /\ OrderMatches
    /\ NoneHidden
    /\ \A e \in Ends : LineMatches(e) /\ LineKeptInOrder(e)

LEMMA StandsAt ==
    ASSUME NEW f, NEW g, NEW P, NEW E, NEW q \in Line(At(f, g, P, E)),
           NEW t, StandsIn(t, q)
    PROVE  t \in Trains /\ f[t] \in P /\ g[t] \in E
<1>1. PICK i \in 1..Len(q) : q[i] = t
  BY DEF StandsIn
<1>2. t \in At(f, g, P, E)
  BY <1>1, ElementOfSeq DEF Line
<1>3. QED BY <1>2 DEF At

LEMMA WaitingParts ==
    ASSUME IInv, NEW e \in Ends
    PROVE  /\ Turns(e) \in 0..Len(waitQ[e]) /\ waitQ[e] \in Seq(Trains)
           /\ Held(e) \in Seq(Trains) /\ Due(e) \in Seq(Trains)
           /\ \A t : StandsIn(t, waitQ[e]) <=> StandsIn(t, Held(e)) \/ StandsIn(t, Due(e))
           /\ \A t : StandsIn(t, waitQ[e]) =>
                        t \in Trains /\ pc[t] = "Retry_End" /\ origin[t] = e
<1>1. waitQ[e] \in Seq(Trains) /\ Len(waitQ[e]) \in Nat
  BY DEF IInv, TypeOK
<1>2. Turns(e) \in 0..Len(waitQ[e])
  BY <1>1 DEF Turns, IInv, TypeOK, RetryCounters, EndCounter
<1>3. /\ Held(e) \in Seq(Trains) /\ Due(e) \in Seq(Trains)
      /\ \A t : StandsIn(t, waitQ[e]) <=> StandsIn(t, Held(e)) \/ StandsIn(t, Due(e))
  BY <1>1, <1>2, PartsType, PartsStand DEF Held, Due
<1>4. ASSUME NEW t, StandsIn(t, waitQ[e])
      PROVE  t \in Trains /\ pc[t] \in {"Retry_End"} /\ origin[t] \in {e}
  BY <1>4, StandsAt DEF IInv, QueuesMatch, WaitMatches
<1>5. QED BY <1>1, <1>2, <1>3, <1>4

LEMMA InQueue ==
    ASSUME IInv, LineInv, NEW t
    PROVE  /\ StandsIn(t, performQ) => t \in Trains /\ pc[t] = "Perform_Enter"
           /\ StandsIn(t, Trains_Order) => t \in Trains /\ pc[t] \in OrderPlaces
           /\ \A e \in Ends : StandsIn(t, line[e]) =>
                 t \in Trains /\ pc[t] \in LinePlaces /\ origin[t] = e
<1>1. StandsIn(t, performQ) => t \in Trains /\ pc[t] \in {"Perform_Enter"}
  BY StandsAt DEF IInv, QueuesMatch, PerformMatches
<1>2. StandsIn(t, Trains_Order) => t \in Trains /\ pc[t] \in OrderPlaces
  BY StandsAt DEF LineInv, OrderMatches
<1>3. ASSUME NEW e \in Ends, StandsIn(t, line[e])
      PROVE  t \in Trains /\ pc[t] \in LinePlaces /\ origin[t] \in {e}
  BY <1>3, StandsAt DEF LineInv, LineMatches
<1>4. QED BY <1>1, <1>2, <1>3

\* The line of an end when a train moves that neither joins nor leaves it.
LEMMA LineMatchesKept ==
    ASSUME NEW e, LineMatches(e), NEW x, OneMoves(x), line'[e] = line[e],
           \/ pc[x] \notin LinePlaces /\ pc'[x] \notin LinePlaces
           \/ /\ origin'[x] = origin[x]
              /\ origin[x] # e \/ (pc[x] \in LinePlaces /\ pc'[x] \in LinePlaces)
    PROVE  LineMatches(e)'
<1>1. At(pc, origin, LinePlaces, {e}) \subseteq At(pc', origin', LinePlaces, {e})
  BY DEF At, OneMoves, OnlyMoves
<1>2. line'[e] \in Line(At(pc', origin', LinePlaces, {e}))
  BY <1>1, LineMonotone DEF LineMatches
<1>3. QED BY <1>2 DEF LineMatches, OneMoves, OnlyMoves

\* Only Add_Train adds to a line, only Perform_Enter shortens one.
LEMMA LineStays ==
    ASSUME IInv, [Next]_vars, ~PerformEnterRuns, \A t \in Trains : ~Add_Train(t),
           line \in [Ends -> Seq(Trains)], line' = [e \in Ends |-> LineAfter(e)]
    PROVE  line' = line
<1>1. \A t \in Trains : ~Entering(t)
  BY NobodyElseEnters
<1>2. ASSUME NEW t \in Trains, Registering(t) PROVE FALSE
  <2> USE <1>2 DEF IInv, QueuesMatch, TypeOK, Registering, MoveTo
  <2>1. ~\E u \in Trains, s \in Origins : AskGate(u, s)
    BY DEF AskGate
  <2>2. ~PassGate /\ ~UNCHANGED vars
    BY DEF PassGate, vars, trainVars
  <2>3. ~\E u \in Trains : TrainStep(u)
    BY DEF TrainStep, ReleaseGate, CallEnter, CallLeave, Settle
  <2>4. ~Retry /\ ~EnterFromElsewhere /\ ~EnterOutOfOrder /\ ~EnterInOrder
    BY DEF Retry, EnterFromElsewhere, EnterOutOfOrder, EnterInOrder
  <2>5. ~PerformEnterWaits /\ ~\E e \in Ends : RetryEnd(e)
    BY DEF PerformEnterWaits, RetryEnd
  <2>6. ~LeaveOutOfOrder /\ ~LeaveInOrder /\ ~Retry_Leave
    BY DEF LeaveOutOfOrder, LeaveInOrder, Retry_Leave
  <2>7. QED BY <2>1, <2>2, <2>3, <2>4, <2>5, <2>6 DEF Next, Serve
<1>3. \A e \in Ends : LineAfter(e) = line[e]
  BY <1>1, <1>2 DEF LineAfter
<1>4. QED BY <1>3

\* What tells where the trains of a line stand.
placeVars == <<waitQ, Can_Enter, Enter_Retry_Num, performQ, Trains_Order>>

LEMMA LineQuiet ==
    ASSUME LineInv, NEW x, OneMoves(x), UNCHANGED <<line, placeVars>>,
           pc[x] \notin {"Perform_Enter", "Retry_End"},
           pc'[x] \notin {"Perform_Enter", "Retry_End"},
           pc[x] \in OrderPlaces => pc'[x] \in OrderPlaces /\ origin'[x] = origin[x],
           \/ pc[x] \notin LinePlaces /\ pc'[x] \notin LinePlaces
           \/ /\ origin'[x] = origin[x]
              /\ origin[x] \in Ends => pc[x] \in LinePlaces /\ pc'[x] \in LinePlaces
    PROVE  LineInv'
<1>1. line' = line /\ UNCHANGED <<waitQ, performQ, Trains_Order, Can_Enter, Enter_Retry_Num>>
  BY DEF placeVars
<1>2. ASSUME NEW e \in Ends PROVE LineMatches(e)'
  <2>1. LineMatches(e) /\ line'[e] = line[e]
    BY <1>1 DEF LineInv
  <2>2. QED BY <2>1, LineMatchesKept
<1>3. OrderMatches'
  <2>1. At(pc, origin, OrderPlaces, Origins) \subseteq At(pc', origin', OrderPlaces, Origins)
    BY DEF At, OneMoves, OnlyMoves
  <2>2. QED BY <1>1, <2>1, LineMonotone DEF LineInv, OrderMatches
<1>4. NoneHidden'
  BY <1>1 DEF LineInv, NoneHidden, OneMoves, OnlyMoves
<1>5. ASSUME NEW e \in Ends PROVE LineKeptInOrder(e)'
  <2>1. LineKeptInOrder(e)
    BY DEF LineInv
  <2>2. QED BY <1>1, <2>1 DEF LineKeptInOrder, Precedes, Held, Due, Turns
<1>6. QED BY <1>1, <1>2, <1>3, <1>4, <1>5 DEF LineInv

\* A train that registers joins the line of its end, behind all the others.
LEMMA RegisterLine ==
    ASSUME IInv, LineInv, NEW x \in Trains, Add_Train(x),
           line' = [e \in Ends |-> LineAfter(e)]
    PROVE  \A e \in Ends :
              line'[e] = IF origin[x] = e THEN Append(line[e], x) ELSE line[e]
<1>1. pc[x] = "gate" /\ pc'[x] = "added" /\ OneMoves(x)
  BY Moved DEF Add_Train, IInv, Locations
<1>2. \A t \in Trains : (Registering(t) <=> t = x) /\ ~Entering(t)
  BY <1>1 DEF Registering, Entering, OneMoves, OnlyMoves
<1>3. ASSUME NEW e \in Ends
      PROVE  line'[e] = IF origin[x] = e THEN Append(line[e], x) ELSE line[e]
  <2>1. {t \in Trains : origin[t] = e /\ Registering(t)} = IF origin[x] = e THEN {x} ELSE {}
    BY <1>2
  <2>2. CASE origin[x] = e
    <3>1. {t \in Trains : origin[t] = e /\ Registering(t)} = {x}
      BY <2>1, <2>2
    <3>2. (CHOOSE t \in {x} : TRUE) = x
      OBVIOUS
    <3>3. LineAfter(e) = Append(line[e], x)
      BY <1>2, <3>1, <3>2 DEF LineAfter
    <3>4. QED BY <2>2, <3>3
  <2>3. CASE origin[x] # e
    BY <1>2, <2>1, <2>3 DEF LineAfter
  <2>4. QED BY <2>2, <2>3
<1>4. QED BY <1>3

LEMMA Add_TrainLine ==
    ASSUME IInv, LineInv, NEW x \in Trains, Add_Train(x),
           line' = [e \in Ends |-> LineAfter(e)]
    PROVE  LineInv'
<1>1. /\ pc[x] = "gate" /\ pc'[x] = "added" /\ OneMoves(x) /\ UNCHANGED origin
      /\ pc[x] \notin LinePlaces /\ pc'[x] \in LinePlaces
      /\ pc[x] \notin OrderPlaces /\ pc'[x] \in OrderPlaces
  BY Moved DEF Add_Train, IInv, Locations, LinePlaces, OrderPlaces, EnterPlaces
<1>2. /\ UNCHANGED <<waitQ, Can_Enter, Enter_Retry_Num, performQ>>
      /\ Trains_Order' = Append(Trains_Order, x) /\ Trains_Order \in Seq(Trains)
  BY DEF Add_Train, IInv, TypeOK, enterGuardVars, enterQueues
<1>3. \A e \in Ends : line'[e] = IF origin[x] = e THEN Append(line[e], x) ELSE line[e]
  BY RegisterLine
<1>4. \A e \in Ends : line[e] \in Seq(Trains)
  BY DEF LineInv
<1>5. line' \in [Ends -> Seq(Trains)]
  <2>1. \A e \in Ends : line'[e] \in Seq(Trains)
    BY SMTT(20), <1>3, <1>4
  <2>2. QED BY <2>1
<1>6. OrderMatches'
  <2>1. x \in Trains /\ origin'[x] \in Origins
    BY <1>1 DEF IInv, TypeOK
  <2>2. QED BY <1>1, <1>2, <2>1, QueueJoined DEF LineInv, OrderMatches, OneMoves
<1>7. NoneHidden'
  BY <1>1, <1>2 DEF LineInv, NoneHidden, OneMoves, OnlyMoves
<1>8. ASSUME NEW e \in Ends PROVE LineMatches(e)'
  <2>1. LineMatches(e)
    BY DEF LineInv
  <2>2. CASE origin[x] = e
    <3>1. line'[e] = Append(line[e], x) /\ origin'[x] \in {e}
      BY <1>1, <1>3, <2>2
    <3>2. line'[e] \in Line(At(pc', origin', LinePlaces, {e}))
      <4>1. line[e] \in Line(At(pc, origin, LinePlaces, {e}))
        BY <2>1 DEF LineMatches
      <4>2. Append(line[e], x) \in Line(At(pc', origin', LinePlaces, {e}))
        BY <1>1, <3>1, <4>1, QueueJoined DEF OneMoves
      <4>3. QED BY <3>1, <4>2
    <3>3. ASSUME NEW t PROVE StandsIn(t, line'[e]) <=> StandsIn(t, line[e]) \/ t = x
      <4>1. line[e] \in Seq(Trains)
        BY <1>4
      <4>2. StandsIn(t, Append(line[e], x)) <=> StandsIn(t, line[e]) \/ t = x
        BY <4>1, StandsInAppend
      <4>3. QED BY <3>1, <4>2
    <3>4. QED BY <1>1, <2>1, <3>2, <3>3 DEF LineMatches, OneMoves, OnlyMoves
  <2>3. CASE origin[x] # e
    <3>1. At(pc, origin, LinePlaces, {e}) \subseteq At(pc', origin', LinePlaces, {e})
      BY <1>1 DEF At, OneMoves, OnlyMoves
    <3>2. line'[e] \in Line(At(pc', origin', LinePlaces, {e}))
      BY <1>3, <2>1, <2>3, <3>1, LineMonotone DEF LineMatches
    <3>3. QED BY <1>1, <1>3, <2>1, <2>3, <3>2 DEF LineMatches, OneMoves, OnlyMoves
  <2>4. QED BY <2>2, <2>3
<1>9. ASSUME NEW e \in Ends PROVE LineKeptInOrder(e)'
  <2>1. SUFFICES ASSUME NEW t \in Trains, NEW u \in Trains, Ahead(t, u, line'[e])
                 PROVE  Precedes(t, u, e)'
    BY DEF LineKeptInOrder
  <2>2. \A v : /\ StandsIn(v, Trains_Order') <=> StandsIn(v, Trains_Order) \/ v = x
               /\ Ahead(v, u, Trains_Order') <=>
                     Ahead(v, u, Trains_Order) \/ (u = x /\ StandsIn(v, Trains_Order))
    BY <1>2, StandsInAppend, AheadAppend
  <2>3. CASE Ahead(t, u, line[e])
    <3>1. Precedes(t, u, e)
      BY <2>3 DEF LineInv, LineKeptInOrder
    <3>2. t # x
      BY <1>1, <2>3, AheadStands, InQueue
    <3>3. QED BY <1>2, <2>2, <3>1, <3>2 DEF Precedes, Held, Due, Turns
  <2>4. CASE u = x /\ StandsIn(t, line[e])
    <3>1. t # x
      BY <1>1, <2>4, InQueue
    <3>2. QED BY <2>2, <2>4, <3>1 DEF Precedes
  <2>5. Ahead(t, u, line[e]) \/ (u = x /\ StandsIn(t, line[e]))
    <3>1. line[e] \in Seq(Trains)
      BY <1>4
    <3>2. CASE origin[x] = e
      <4>1. Ahead(t, u, Append(line[e], x))
        BY <1>3, <2>1, <3>2
      <4>2. QED BY <3>1, <4>1, AheadAppend
    <3>3. CASE origin[x] # e
      BY <1>3, <2>1, <3>3
    <3>4. QED BY <3>2, <3>3
  <2>6. QED BY <2>3, <2>4, <2>5
<1>10. QED BY <1>5, <1>6, <1>7, <1>8, <1>9 DEF LineInv

\* The first in the order comes to Perform_Enter, behind all the trains of its
\* end that have.
LEMMA EnterInOrderLine ==
    ASSUME IInv, ServeInv, LineInv, EnterInOrder, line' = line PROVE LineInv'
<1>0. PICK x \in Trains : x = Head(enterQ) /\ pc[x] = "Enter" /\ pc'[x] = "Perform_Enter"
                          /\ OneMoves(x)
  <2>1. Head(enterQ) \in Trains /\ pc[Head(enterQ)] = "Enter"
    BY EnterHead DEF EnterInOrder, IInv, QueuesMatch
  <2>2. QED BY <2>1, Moved DEF EnterInOrder, IInv, Locations
<1>1. /\ pc[x] \in LinePlaces /\ pc'[x] \in LinePlaces /\ UNCHANGED origin
      /\ pc[x] \in EnterPlaces
  BY <1>0 DEF EnterInOrder, LinePlaces, EnterPlaces
<1>2. /\ UNCHANGED <<waitQ, Can_Enter, Enter_Retry_Num>>
      /\ performQ' = Append(performQ, x) /\ performQ \in Seq(Trains)
      /\ Trains_Order' = Tail(Trains_Order) /\ x = Head(Trains_Order)
      /\ Trains_Order \in Seq(Trains)
  BY <1>0 DEF EnterInOrder, HasTurn, IInv, TypeOK, enterGuardVars
<1>3. StandsIn(x, Trains_Order) /\ Trains_Order # <<>>
  BY <1>1, StandsInNonEmpty DEF IInv, NoneMissing
<1>4. OrderMatches /\ OrderMatches'
  BY <1>0, <1>2, <1>3, QueueLeft DEF LineInv, OrderMatches, OneMoves
<1>5. \A v : StandsIn(v, performQ') <=> StandsIn(v, performQ) \/ v = x
  BY <1>2, StandsInAppend
<1>6. NoneHidden'
  BY <1>0, <1>2, <1>5 DEF LineInv, NoneHidden, OneMoves, OnlyMoves
<1>7. ASSUME NEW e \in Ends PROVE LineMatches(e)'
  BY <1>0, <1>1, LineMatchesKept DEF LineInv
<1>8. ASSUME NEW e \in Ends PROVE LineKeptInOrder(e)'
  <2>1. SUFFICES ASSUME NEW t \in Trains, NEW u \in Trains, Ahead(t, u, line[e])
                 PROVE  Precedes(t, u, e)'
    BY DEF LineKeptInOrder
  <2>2. Precedes(t, u, e) /\ StandsIn(t, line[e])
    BY <2>1, AheadStands DEF LineInv, LineKeptInOrder
  <2>3. Held(e)' = Held(e) /\ Due(e)' = Due(e)
    BY <1>2 DEF Held, Due, Turns
  <2>4. Ahead(t, u, performQ') <=> Ahead(t, u, performQ) \/ (u = x /\ StandsIn(t, performQ))
    BY <1>2, AheadAppend
  <2>5. ASSUME NEW v, StandsIn(v, Trains_Order')
        PROVE  StandsIn(v, Trains_Order) /\ v # x
    BY <1>2, <1>3, <1>4, <2>5, TailApart DEF OrderMatches
  <2>6. ASSUME NEW v, StandsIn(v, Trains_Order), v # x
        PROVE  StandsIn(v, Trains_Order')
    BY <1>2, <2>6, StandsInTail
  <2>7. CASE Ahead(t, u, Trains_Order)
    <3>1. StandsIn(u, Trains_Order') /\ (t # x => Ahead(t, u, Trains_Order'))
      BY <1>2, <2>7, AheadTail
    <3>2. QED BY <2>5, <3>1 DEF Precedes
  <2>8. CASE ~StandsIn(t, Trains_Order) /\ StandsIn(u, Trains_Order)
    <3>1. CASE u # x
      BY <2>5, <2>6, <2>8, <3>1 DEF Precedes
    <3>2. CASE u = x
      <4>1. pc[t] \in LinePlaces /\ origin[t] = e /\ pc[t] \notin EnterPlaces
        BY <2>2, <2>8, InQueue DEF IInv, NoneMissing
      <4>2. StandsIn(t, performQ) \/ StandsIn(t, waitQ[e])
        BY <4>1 DEF LineInv, NoneHidden, LinePlaces, EnterPlaces
      <4>3. StandsIn(t, waitQ[e]) => StandsIn(t, Held(e))
        <5>1. ~Can_Enter[e]
          BY EnterServed DEF EnterInOrder, EnterQuiet
        <5>2. QED BY <5>1, WaitingParts, PartsEnds DEF Held, Turns
      <4>4. QED BY <1>5, <2>3, <2>4, <3>2, <4>2, <4>3 DEF Precedes
    <3>3. QED BY <3>1, <3>2
  <2>9. QED BY <1>5, <2>2, <2>3, <2>4, <2>7, <2>8 DEF Precedes
<1>9. QED BY <1>4, <1>6, <1>7, <1>8 DEF LineInv

\* A train that has to wait joins those that wait at its end already.
LEMMA PerformEnterWaitsLine ==
    ASSUME IInv, ServeInv, LineInv, PerformEnterWaits, line' = line PROVE LineInv'
<1>0. PICK x \in Trains, o \in Ends :
          /\ x = Head(performQ) /\ o = origin[x]
          /\ pc[x] = "Perform_Enter" /\ pc'[x] = "Retry_End" /\ OneMoves(x)
  <2>1. /\ Head(performQ) \in Trains /\ pc[Head(performQ)] = "Perform_Enter"
        /\ origin[Head(performQ)] \in Ends
    BY PerformHead DEF PerformEnterWaits, IInv, QueuesMatch
  <2>2. QED BY <2>1, Moved DEF PerformEnterWaits, IInv, Locations
<1>1. /\ pc[x] \in LinePlaces /\ pc'[x] \in LinePlaces /\ UNCHANGED origin
      /\ pc[x] \notin OrderPlaces
  BY <1>0 DEF PerformEnterWaits, LinePlaces, OrderPlaces, EnterPlaces
<1>2. /\ UNCHANGED <<Can_Enter, Enter_Retry_Num, Trains_Order>>
      /\ performQ' = Tail(performQ) /\ performQ \in Seq(Trains) /\ performQ # <<>>
      /\ performQ \in Line(At(pc, origin, {"Perform_Enter"}, Ends))
      /\ waitQ'[o] = Append(waitQ[o], x)
      /\ \A e \in Ends \ {o} : waitQ'[e] = waitQ[e]
  BY <1>0 DEF PerformEnterWaits, IInv, TypeOK, enterGuardVars, orderVars, QueuesMatch,
     PerformMatches
<1>3. OrderMatches'
  BY <1>0, <1>1, <1>2, QueueKept DEF LineInv, OrderMatches, OneMoves
<1>4. /\ waitQ[o] \in Seq(Trains) /\ Turns(o) \in 0..Len(waitQ[o])
      /\ Held(o) \in Seq(Trains) /\ Due(o) \in Seq(Trains)
  BY WaitingParts
<1>5. /\ Held(o)' = Append(Held(o), x) /\ Due(o)' = Due(o)
      /\ \A e \in Ends \ {o} : Held(e)' = Held(e) /\ Due(e)' = Due(e)
  BY <1>2, <1>4, PartsAppend DEF Held, Due, Turns
<1>6. ASSUME NEW v, StandsIn(v, performQ), v # x PROVE StandsIn(v, performQ')
  BY <1>0, <1>2, <1>6, StandsInTail
<1>7. NoneHidden'
  <2>1. \A v : StandsIn(v, waitQ'[o]) <=> StandsIn(v, waitQ[o]) \/ v = x
    <3>1. ASSUME NEW v PROVE StandsIn(v, Append(waitQ[o], x)) <=> StandsIn(v, waitQ[o]) \/ v = x
      BY <1>4, StandsInAppend
    <3>2. QED BY <1>2, <3>1
  <2>2. \A t \in Trains : pc'[t] = "Perform_Enter" => StandsIn(t, performQ')
    BY <1>0, <1>6 DEF LineInv, NoneHidden, OneMoves, OnlyMoves
  <2>3. ASSUME NEW t \in Trains, NEW e \in Ends, pc'[t] = "Retry_End", origin'[t] = e
        PROVE  StandsIn(t, waitQ'[e])
    <3>1. CASE t = x
      BY <1>0, <1>1, <2>1, <2>3, <3>1
    <3>2. CASE t # x
      <4>1. StandsIn(t, waitQ[e])
        BY <1>0, <1>1, <2>3, <3>2 DEF LineInv, NoneHidden, OneMoves, OnlyMoves
      <4>2. QED BY <1>2, <2>1, <4>1
    <3>3. QED BY <3>1, <3>2
  <2>4. QED BY <2>2, <2>3 DEF NoneHidden
<1>8. ASSUME NEW e \in Ends PROVE LineMatches(e)'
  BY <1>0, <1>1, LineMatchesKept DEF LineInv
<1>9. ASSUME NEW e \in Ends PROVE LineKeptInOrder(e)'
  <2>1. SUFFICES ASSUME NEW t \in Trains, NEW u \in Trains, Ahead(t, u, line[e])
                 PROVE  Precedes(t, u, e)'
    BY DEF LineKeptInOrder
  <2>2. /\ Precedes(t, u, e) /\ origin[t] = e /\ origin[u] = e
    BY <2>1, AheadStands, InQueue DEF LineInv, LineKeptInOrder
  <2>3. Due(e)' = Due(e)
    BY <1>5
  <2>4. ASSUME NEW v PROVE StandsIn(v, Held(e)) => StandsIn(v, Held(e)')
    <3>1. CASE e = o
      <4>1. StandsIn(v, Held(o)) => StandsIn(v, Append(Held(o), x))
        BY <1>4, StandsInAppend
      <4>2. QED BY <1>5, <3>1, <4>1
    <3>2. QED BY <1>5, <3>1
  <2>5. Ahead(t, u, Held(e)) => Ahead(t, u, Held(e)')
    <3>1. CASE e = o
      <4>1. Ahead(t, u, Held(o)) => Ahead(t, u, Append(Held(o), x))
        BY <1>4, AheadAppend
      <4>2. QED BY <1>5, <3>1, <4>1
    <3>2. QED BY <1>5, <3>1
  <2>6. t = x => StandsIn(t, Held(e)')
    <3>1. StandsIn(x, Append(Held(o), x))
      BY <1>4, StandsInAppend
    <3>2. QED BY <1>0, <1>5, <2>2, <3>1
  <2>7. u = x /\ StandsIn(t, Held(e)) => Ahead(t, u, Held(e)')
    <3>1. StandsIn(t, Held(o)) => Ahead(t, x, Append(Held(o), x))
      BY <1>4, AheadAppend
    <3>2. QED BY <1>0, <1>5, <2>2, <3>1
  <2>8. CASE Ahead(t, u, performQ)
    <3>1. StandsIn(u, performQ') /\ (t # x => Ahead(t, u, performQ'))
      BY <1>0, <1>2, <2>8, AheadTail
    <3>2. QED BY <2>6, <3>1 DEF Precedes
  <2>9. QED BY <1>2, <1>6, <2>2, <2>3, <2>4, <2>5, <2>6, <2>7, <2>8 DEF Precedes
<1>10. QED BY <1>3, <1>7, <1>8, <1>9 DEF LineInv

\* The train that enters is the first of its line.
LEMMA FirstEnters ==
    ASSUME IInv, ServeInv, LineInv, PerformEnterRuns, NEW o \in Ends,
           o = origin[Head(performQ)]
    PROVE  line[o] # <<>> /\ Head(line[o]) = Head(performQ)
<1> DEFINE x == Head(performQ)
<1>1. x \in Trains /\ pc[x] = "Perform_Enter" /\ performQ # <<>> /\ ~MustWait(x)
  BY PerformHead DEF PerformEnterRuns, IInv, QueuesMatch
<1>2. pc[x] \in LinePlaces /\ pc[x] \notin OrderPlaces
  BY <1>1 DEF LinePlaces, OrderPlaces, EnterPlaces
<1>3. StandsIn(x, line[o]) /\ line[o] \in Seq(Trains)
  BY <1>1, <1>2 DEF LineInv, LineMatches
<1>4. line[o] # <<>>
  BY <1>3, StandsInNonEmpty
<1>5. ASSUME x # Head(line[o]) PROVE FALSE
  <2> DEFINE t == Head(line[o])
  <2>1. t \in Trains /\ Ahead(t, x, line[o])
    BY <1>3, <1>4, <1>5, AheadHead
  <2>2. Precedes(t, x, o)
    BY <1>1, <2>1 DEF LineInv, LineKeptInOrder
  <2>3. ~StandsIn(x, Held(o)) /\ ~StandsIn(x, Due(o)) /\ ~StandsIn(x, Trains_Order)
    BY <1>1, <1>2, WaitingParts, InQueue
  <2>4. ~Ahead(t, x, performQ)
    BY <1>1, HeadFirst DEF IInv, QueuesMatch, PerformMatches
  <2>5. StandsIn(t, Held(o))
    BY <2>2, <2>3, <2>4, AheadStands DEF Precedes
  <2>6. Len(waitQ[o]) > Turns(o)
    <3>1. Held(o) # <<>> /\ Turns(o) \in 0..Len(waitQ[o]) /\ waitQ[o] \in Seq(Trains)
      BY <2>5, StandsInNonEmpty, WaitingParts
    <3>2. Turns(o) # Len(waitQ[o])
      BY <3>1, PartsEnds DEF Held
    <3>3. QED BY <3>1, <3>2
  <2>7. Blocked(o) \/ GivesWay(o)
    BY <2>6 DEF ServeInv, WaitersHeld
  <2>8. ~GivesWay(o)
    BY <1>1, PerformApart, OtherEnd DEF GivesWay, LettingIn
  <2>9. QED BY <1>1, <2>7, <2>8 DEF Blocked, MustWait
<1>6. QED BY <1>4, <1>5

LEMMA EnterLine ==
    ASSUME IInv, PerformEnterRuns, line' = [e \in Ends |-> LineAfter(e)]
    PROVE  \A e \in Ends :
              line'[e] = IF origin[Head(performQ)] = e THEN Tail(line[e]) ELSE line[e]
<1> DEFINE x == Head(performQ)
<1>1. /\ x \in Trains /\ Entering(x)
      /\ \A t \in Trains : Entering(t) => t = x
  BY HeadEnters
<1>2. \A t \in Trains : ~Registering(t)
  BY <1>1 DEF PerformEnterRuns, IInv, TypeOK, MoveTo, Registering
<1>3. ASSUME NEW e \in Ends
      PROVE  line'[e] = IF origin[x] = e THEN Tail(line[e]) ELSE line[e]
  BY <1>1, <1>2 DEF LineAfter
<1>4. QED BY <1>3

LEMMA PerformEnterRunsLine ==
    ASSUME IInv, ServeInv, LineInv, PerformEnterRuns,
           line' = [e \in Ends |-> LineAfter(e)]
    PROVE  LineInv'
<1>0. PICK x \in Trains, o \in Ends :
          /\ x = Head(performQ) /\ o = origin[x]
          /\ pc[x] = "Perform_Enter" /\ pc'[x] = "running" /\ OneMoves(x)
  <2>1. /\ Head(performQ) \in Trains /\ pc[Head(performQ)] = "Perform_Enter"
        /\ origin[Head(performQ)] \in Ends
    BY PerformHead DEF PerformEnterRuns, IInv, QueuesMatch
  <2>2. QED BY <2>1, Moved DEF PerformEnterRuns, IInv, Locations
<1>1. /\ pc'[x] \notin LinePlaces /\ UNCHANGED origin
      /\ pc[x] \notin OrderPlaces
  BY <1>0 DEF PerformEnterRuns, LinePlaces, OrderPlaces, EnterPlaces
<1>2. /\ UNCHANGED <<Can_Enter, Enter_Retry_Num, Trains_Order, waitQ>>
      /\ performQ' = Tail(performQ) /\ performQ \in Seq(Trains) /\ performQ # <<>>
  BY DEF PerformEnterRuns, IInv, TypeOK, enterGuardVars, orderVars
<1>3. /\ line[o] # <<>> /\ Head(line[o]) = x
      /\ \A e \in Ends : line'[e] = IF o = e THEN Tail(line[e]) ELSE line[e]
  BY <1>0, FirstEnters, EnterLine
<1>4. \A e \in Ends : /\ line[e] \in Line(At(pc, origin, LinePlaces, {e}))
                      /\ line[e] \in Seq(Trains)
  BY DEF LineInv, LineMatches
<1>5. line' \in [Ends -> Seq(Trains)]
  <2>1. ASSUME NEW e \in Ends PROVE line'[e] \in Seq(Trains)
    <3>1. line[o] \in Seq(Trains) /\ line[e] \in Seq(Trains)
      BY <1>4
    <3>2. Tail(line[o]) \in Seq(Trains)
      BY <1>3, <3>1
    <3>3. QED BY <1>3, <3>1, <3>2
  <2>2. line' = [e \in Ends |-> line'[e]]
    OBVIOUS
  <2>3. QED BY <2>1, <2>2
<1>6. OrderMatches'
  BY <1>0, <1>1, <1>2, QueueKept DEF LineInv, OrderMatches, OneMoves
<1>7. ASSUME NEW v, StandsIn(v, performQ), v # x PROVE StandsIn(v, performQ')
  BY <1>0, <1>2, <1>7, StandsInTail
<1>8. NoneHidden'
  BY <1>0, <1>2, <1>7 DEF LineInv, NoneHidden, OneMoves, OnlyMoves
<1>9. ASSUME NEW e \in Ends PROVE LineMatches(e)'
  <2>1. CASE e = o
    <3>1. Tail(line[o]) \in Line(At(pc', origin', LinePlaces, {o}))
      BY <1>0, <1>3, <1>4, QueueLeft DEF OneMoves
    <3>2. ASSUME NEW t \in Trains, pc'[t] \in LinePlaces, origin'[t] = o
          PROVE  StandsIn(t, Tail(line[o]))
      <4>1. t # x /\ StandsIn(t, line[o])
        BY <1>0, <1>1, <3>2 DEF LineInv, LineMatches, OneMoves, OnlyMoves
      <4>2. QED BY <1>3, <1>4, <4>1, StandsInTail
    <3>3. QED BY <1>3, <2>1, <3>1, <3>2 DEF LineMatches
  <2>2. CASE e # o
    BY <1>0, <1>1, <1>3, <2>2, LineMatchesKept DEF LineInv
  <2>3. QED BY <2>1, <2>2
<1>10. ASSUME NEW e \in Ends PROVE LineKeptInOrder(e)'
  <2>1. SUFFICES ASSUME NEW t \in Trains, NEW u \in Trains, Ahead(t, u, line'[e])
                 PROVE  Precedes(t, u, e)'
    BY DEF LineKeptInOrder
  <2>2. Ahead(t, u, line[e]) /\ t # x /\ u # x
    <3>1. CASE e = o
      <4>1. Ahead(t, u, Tail(line[o]))
        BY <1>3, <2>1, <3>1
      <4>2. QED BY <1>3, <1>4, <3>1, <4>1, TailAhead
    <3>2. CASE e # o
      <4>1. Ahead(t, u, line[e])
        BY <1>3, <2>1, <3>2
      <4>2. origin[t] = e /\ origin[u] = e
        BY <4>1, AheadStands, InQueue
      <4>3. QED BY <1>0, <3>2, <4>1, <4>2
    <3>3. QED BY <3>1, <3>2
  <2>3. Precedes(t, u, e)
    BY <2>2 DEF LineInv, LineKeptInOrder
  <2>4. Ahead(t, u, performQ) => Ahead(t, u, performQ')
    BY <1>0, <1>2, <2>2, AheadTail
  <2>5. Held(e)' = Held(e) /\ Due(e)' = Due(e)
    BY <1>2 DEF Held, Due, Turns
  <2>6. QED BY <1>2, <1>7, <2>2, <2>3, <2>4, <2>5 DEF Precedes
<1>11. QED BY <1>5, <1>6, <1>8, <1>9, <1>10 DEF LineInv

\* The first of those that are let in follows those that were let in before.
LEMMA RetryEndLine ==
    ASSUME IInv, ServeInv, LineInv, NEW d \in Ends, RetryEnd(d), line' = line
    PROVE  LineInv'
<1>0. PICK x \in Trains :
          /\ x = Head(waitQ[d]) /\ origin[x] = d
          /\ pc[x] = "Retry_End" /\ pc'[x] = "Perform_Enter" /\ OneMoves(x)
  <2>1. /\ Head(waitQ[d]) \in Trains /\ pc[Head(waitQ[d])] = "Retry_End"
        /\ origin[Head(waitQ[d])] = d
    BY WaitHead DEF RetryEnd, IInv, QueuesMatch
  <2>2. QED BY <2>1, Moved DEF RetryEnd, IInv, Locations
<1>1. /\ pc[x] \in LinePlaces /\ pc'[x] \in LinePlaces /\ UNCHANGED origin
      /\ pc[x] \notin OrderPlaces
  BY <1>0 DEF RetryEnd, LinePlaces, OrderPlaces, EnterPlaces
<1>2. /\ UNCHANGED Trains_Order
      /\ performQ' = Append(performQ, x) /\ performQ \in Seq(Trains)
      /\ waitQ[d] # <<>> /\ waitQ'[d] = Tail(waitQ[d]) /\ Can_Enter[d]
      /\ \A e \in Ends \ {d} : waitQ'[e] = waitQ[e] /\ Can_Enter'[e] = Can_Enter[e]
      /\ Enter_Retry_Num' = Enter_Retry_Num - 1
      /\ Can_Enter'[d] <=> Enter_Retry_Num # 1
  BY <1>0 DEF RetryEnd, StaysOpen, IInv, TypeOK, orderVars
<1>3. Enter_Retry_Num \in Nat \ {0} /\ \A e \in Ends \ {d} : ~Can_Enter[e]
  BY <1>2, OtherEnd DEF IInv, TypeOK, RetryCounters, EndCounter, Ends
<1>4. OrderMatches'
  BY <1>0, <1>1, <1>2, QueueKept DEF LineInv, OrderMatches, OneMoves
<1>5. /\ waitQ[d] \in Seq(Trains) /\ Turns(d) \in 1..Len(waitQ[d])
      /\ Held(d) \in Seq(Trains) /\ Due(d) \in Seq(Trains)
  BY <1>2, <1>3, WaitingParts DEF Turns
<1>6. Turns(d)' = Turns(d) - 1
  <2>1. Turns(d) = Enter_Retry_Num
    BY <1>2 DEF Turns
  <2>2. Turns(d)' = IF Can_Enter'[d] THEN Enter_Retry_Num' ELSE 0
    BY DEF Turns
  <2>3. QED BY <1>2, <1>3, <2>1, <2>2
<1>7. /\ Held(d)' = Held(d) /\ Due(d)' = Tail(Due(d)) /\ Head(Due(d)) = x
      /\ \A e \in Ends \ {d} : Held(e)' = Held(e) /\ Due(e)' = Due(e)
  <2>1. /\ RestOf(Tail(waitQ[d]), Turns(d) - 1) = RestOf(waitQ[d], Turns(d))
        /\ FirstOf(Tail(waitQ[d]), Turns(d) - 1) = Tail(FirstOf(waitQ[d], Turns(d)))
        /\ Head(FirstOf(waitQ[d], Turns(d))) = Head(waitQ[d])
    BY <1>5, PartsTail
  <2>2. \A e \in Ends \ {d} : Turns(e)' = Turns(e)
    BY <1>2, <1>3 DEF Turns
  <2>3. QED BY <1>0, <1>2, <1>6, <2>1, <2>2 DEF Held, Due
<1>8. \A v : StandsIn(v, performQ') <=> StandsIn(v, performQ) \/ v = x
  BY <1>2, StandsInAppend
<1>9. NoneHidden'
  <2>1. \A t \in Trains : pc'[t] = "Perform_Enter" => StandsIn(t, performQ')
    BY <1>0, <1>8 DEF LineInv, NoneHidden, OneMoves, OnlyMoves
  <2>2. ASSUME NEW t \in Trains, NEW e \in Ends, pc'[t] = "Retry_End", origin'[t] = e
        PROVE  StandsIn(t, waitQ'[e])
    <3>1. t # x /\ StandsIn(t, waitQ[e])
      BY <1>0, <1>1, <2>2 DEF LineInv, NoneHidden, OneMoves, OnlyMoves
    <3>2. CASE e = d
      <4>1. StandsIn(t, Tail(waitQ[d]))
        BY <1>0, <1>5, <3>1, <3>2, StandsInTail
      <4>2. QED BY <1>2, <3>2, <4>1
    <3>3. QED BY <1>2, <3>1, <3>2
  <2>3. QED BY <2>1, <2>2 DEF NoneHidden
<1>10. ASSUME NEW e \in Ends PROVE LineMatches(e)'
  BY <1>0, <1>1, LineMatchesKept DEF LineInv
<1>11. ASSUME NEW e \in Ends PROVE LineKeptInOrder(e)'
  <2>1. SUFFICES ASSUME NEW t \in Trains, NEW u \in Trains, Ahead(t, u, line[e])
                 PROVE  Precedes(t, u, e)'
    BY DEF LineKeptInOrder
  <2>2. Precedes(t, u, e)
    BY <2>1 DEF LineInv, LineKeptInOrder
  <2>3. Ahead(t, u, performQ') <=> Ahead(t, u, performQ) \/ (u = x /\ StandsIn(t, performQ))
    BY <1>2, AheadAppend
  <2>4. Held(e)' = Held(e)
    BY <1>7
  <2>5. CASE e # d
    <3>1. Due(e)' = Due(e)
      BY <1>7, <2>5
    <3>2. QED BY <1>2, <1>8, <2>2, <2>3, <2>4, <3>1 DEF Precedes
  <2>6. CASE e = d
    <3>1. Ahead(t, u, Due(d)) =>
             StandsIn(u, Due(d)') /\ (t # x => Ahead(t, u, Due(d)'))
      <4>1. Ahead(t, u, Due(d)) =>
               StandsIn(u, Tail(Due(d))) /\ (t # x => Ahead(t, u, Tail(Due(d))))
        BY <1>5, <1>7, AheadTail
      <4>2. QED BY <1>7, <4>1
    <3>2. StandsIn(u, Due(d)) /\ u # x => StandsIn(u, Due(d)')
      <4>1. StandsIn(u, Due(d)) /\ u # x => StandsIn(u, Tail(Due(d)))
        BY <1>5, <1>7, StandsInTail
      <4>2. QED BY <1>7, <4>1
    <3>3. QED BY <1>2, <1>8, <2>2, <2>3, <2>4, <2>6, <3>1, <3>2 DEF Precedes
  <2>7. QED BY <2>5, <2>6
<1>12. QED BY <1>4, <1>9, <1>10, <1>11 DEF LineInv

\* The last train to leave lets in all that wait opposite, in their order.
LEMMA LeaveInOrderLine ==
    ASSUME IInv, ServeInv, LineInv, LeaveInOrder, line' = line PROVE LineInv'
<1>0. PICK x \in Trains : x = Head(leaveQ) /\ pc[x] = "Leave" /\ pc'[x] = "left"
                          /\ OneMoves(x)
  <2>1. Head(leaveQ) \in Trains /\ pc[Head(leaveQ)] = "Leave"
    BY LeaveHead DEF LeaveInOrder, IInv, QueuesMatch
  <2>2. QED BY <2>1, Moved DEF LeaveInOrder, IInv, Locations
<1>1. /\ pc[x] \notin LinePlaces /\ pc'[x] \notin LinePlaces /\ UNCHANGED origin
      /\ pc[x] \notin OrderPlaces
  BY <1>0 DEF LeaveInOrder, LinePlaces, OrderPlaces, EnterPlaces
<1>2. /\ UNCHANGED <<Trains_Order, performQ, waitQ>> /\ FreeTrack /\ leaveQ # <<>>
  BY DEF LeaveInOrder, orderVars, enterQueues
<1>3. performQ = <<>> /\ \A e \in Ends : ~Can_Enter[e]
  BY <1>2, LeaveServed
<1>4. OrderMatches'
  BY <1>0, <1>1, <1>2, QueueKept DEF LineInv, OrderMatches, OneMoves
<1>5. NoneHidden'
  BY <1>0, <1>1, <1>2 DEF LineInv, NoneHidden, OneMoves, OnlyMoves
<1>6. ASSUME NEW e \in Ends PROVE LineMatches(e)'
  BY <1>0, <1>1, LineMatchesKept DEF LineInv
<1>7. ASSUME NEW e \in Ends PROVE LineKeptInOrder(e)'
  <2>1. SUFFICES ASSUME NEW t \in Trains, NEW u \in Trains, Ahead(t, u, line[e])
                 PROVE  Precedes(t, u, e)'
    BY DEF LineKeptInOrder
  <2>2. Precedes(t, u, e)
    BY <2>1 DEF LineInv, LineKeptInOrder
  <2>3. waitQ[e] \in Seq(Trains) /\ Held(e) = waitQ[e] /\ Due(e) = <<>>
    BY <1>3, WaitingParts, PartsEnds DEF Held, Due, Turns
  <2>4. Turns(e)' = 0 \/ Turns(e)' = Len(waitQ[e])
    <3>1. CASE UNCHANGED <<Can_Enter, Enter_Retry_Num>>
      BY <1>3, <3>1 DEF Turns
    <3>2. PICK o \in Ends : OpenEnd(o) \/ UNCHANGED <<Can_Enter, Enter_Retry_Num>>
      BY <1>2, OtherEnd DEF FreeTrack, enterGuardVars, Other, Ends
    <3>3. CASE waitQ[o] # <<>> /\ OpenEnd(o)
      <4>1. /\ Enter_Retry_Num' = Len(waitQ[o]) /\ Can_Enter'[o]
            /\ \A f \in Ends \ {o} : ~Can_Enter'[f]
        BY <1>3, <3>3 DEF OpenEnd, IInv, TypeOK
      <4>2. QED BY <4>1 DEF Turns
    <3>4. QED BY <3>1, <3>2, <3>3 DEF OpenEnd, enterGuardVars
  <2>5. \/ Held(e)' = waitQ[e] /\ Due(e)' = <<>>
        \/ Held(e)' = <<>> /\ Due(e)' = waitQ[e]
    BY <1>2, <2>3, <2>4, PartsEnds DEF Held, Due
  <2>6. ~StandsIn(u, <<>>) /\ ~Ahead(t, u, <<>>)
    BY DEF StandsIn, Ahead
  <2>7. Ahead(t, u, waitQ[e]) \/ Ahead(t, u, Trains_Order)
        \/ (~StandsIn(t, Trains_Order) /\ StandsIn(u, Trains_Order))
    BY <1>3, <2>2, <2>3, <2>6 DEF Precedes
  <2>8. QED BY <1>2, <2>5, <2>7 DEF Precedes
<1>8. QED BY <1>4, <1>5, <1>6, <1>7 DEF LineInv

\* The other steps: the train that moves keeps its place in the order.
LEMMA ElsewhereLine ==
    ASSUME IInv, LineInv, Next, line' = line, ~PassGate, ~EnterInOrder,
           ~PerformEnterWaits, ~PerformEnterRuns, ~LeaveInOrder,
           \A t \in Trains : ~Add_Train(t), \A e \in Ends : ~RetryEnd(e)
    PROVE  LineInv'
<1> USE DEF LinePlaces, OrderPlaces, EnterPlaces
<1>1. ASSUME NEW t \in Trains, NEW s \in Origins, AskGate(t, s) PROVE LineInv'
  <2>1. OneMoves(t) /\ pc[t] = "idle" /\ pc'[t] = "gate"
    BY <1>1 DEF AskGate, MoveTo, IInv, TypeOK, OneMoves, OnlyMoves
  <2>2. UNCHANGED placeVars
    BY <1>1 DEF AskGate, placeVars, objectVars, orderVars, enterGuardVars, enterQueues
  <2>3. QED BY <2>1, <2>2, LineQuiet
<1>2. ASSUME NEW t \in Trains, ReleaseGate(t) PROVE LineInv'
  <2>1. /\ OneMoves(t) /\ pc[t] = "added" /\ pc'[t] = "ordered" /\ UNCHANGED origin
        /\ UNCHANGED placeVars
    BY <1>2, Moved DEF ReleaseGate, IInv, Locations, placeVars, objectVars, orderVars,
       enterGuardVars, enterQueues
  <2>2. QED BY <2>1, LineQuiet
<1>3. ASSUME NEW t \in Trains, CallEnter(t) PROVE LineInv'
  <2>1. /\ OneMoves(t) /\ pc[t] = "ordered" /\ pc'[t] = "Enter" /\ UNCHANGED origin
        /\ UNCHANGED placeVars
    BY <1>3, Moved DEF CallEnter, IInv, Locations, placeVars, orderVars, enterGuardVars
  <2>2. QED BY <2>1, LineQuiet
<1>4. ASSUME NEW t \in Trains, CallLeave(t) \/ Settle(t) PROVE LineInv'
  <2>1. /\ OneMoves(t) /\ pc[t] \in {"running", "left"} /\ pc'[t] \in {"Leave", "idle"}
        /\ UNCHANGED placeVars
    BY <1>4, Moved DEF CallLeave, Settle, IInv, Locations, placeVars, orderVars,
       enterGuardVars, enterQueues
  <2>2. QED BY <2>1, LineQuiet
<1>5. CASE Retry
  <2>1. Head(retryQ) \in Trains /\ pc[Head(retryQ)] = "Retry"
    BY <1>5, RetryHead DEF Retry, IInv, QueuesMatch
  <2>2. /\ OneMoves(Head(retryQ)) /\ pc'[Head(retryQ)] = "Enter" /\ UNCHANGED origin
        /\ UNCHANGED placeVars
    BY <1>5, <2>1, Moved DEF Retry, IInv, Locations, placeVars, orderVars, enterGuardVars
  <2>3. QED BY <2>1, <2>2, LineQuiet
<1>6. CASE EnterOutOfOrder
  <2>1. Head(enterQ) \in Trains /\ pc[Head(enterQ)] = "Enter"
    BY <1>6, EnterHead DEF EnterOutOfOrder, IInv, QueuesMatch
  <2>2. /\ OneMoves(Head(enterQ)) /\ pc'[Head(enterQ)] = "Retry" /\ UNCHANGED origin
        /\ UNCHANGED placeVars
    BY <1>6, <2>1, Moved DEF EnterOutOfOrder, IInv, Locations, placeVars, orderVars,
       enterGuardVars
  <2>3. QED BY <2>1, <2>2, LineQuiet
<1>7. CASE EnterFromElsewhere
  <2>1. Head(enterQ) \in Trains /\ pc[Head(enterQ)] = "Enter"
    BY <1>7, EnterHead DEF EnterFromElsewhere, IInv, QueuesMatch
  <2>2. /\ OneMoves(Head(enterQ)) /\ pc'[Head(enterQ)] = "dropped" /\ UNCHANGED origin
        /\ UNCHANGED placeVars /\ origin[Head(enterQ)] \notin Ends
    BY <1>7, <2>1, Moved DEF EnterFromElsewhere, IInv, Locations, placeVars, orderVars,
       enterGuardVars
  <2>3. QED BY <2>1, <2>2, LineQuiet
<1>8. CASE LeaveOutOfOrder
  <2>1. Head(leaveQ) \in Trains /\ pc[Head(leaveQ)] = "Leave"
    BY <1>8, LeaveHead DEF LeaveOutOfOrder, IInv, QueuesMatch
  <2>2. /\ OneMoves(Head(leaveQ)) /\ pc'[Head(leaveQ)] = "Retry_Leave" /\ UNCHANGED origin
        /\ UNCHANGED placeVars
    BY <1>8, <2>1, Moved DEF LeaveOutOfOrder, IInv, Locations, placeVars, orderVars,
       enterGuardVars, enterQueues
  <2>3. QED BY <2>1, <2>2, LineQuiet
<1>9. CASE Retry_Leave
  <2>1. Head(retryLeaveQ) \in Trains /\ pc[Head(retryLeaveQ)] = "Retry_Leave"
    BY <1>9, RetryLeaveHead DEF Retry_Leave, IInv, QueuesMatch
  <2>2. /\ OneMoves(Head(retryLeaveQ)) /\ pc'[Head(retryLeaveQ)] = "Leave"
        /\ UNCHANGED origin /\ UNCHANGED placeVars
    BY <1>9, <2>1, Moved DEF Retry_Leave, IInv, Locations, placeVars, orderVars,
       enterGuardVars, enterQueues
  <2>3. QED BY <2>1, <2>2, LineQuiet
<1>10. QED BY <1>1, <1>2, <1>3, <1>4, <1>5, <1>6, <1>7, <1>8, <1>9
      DEF Next, TrainStep, Serve

LEMMA LineUnchanged ==
    ASSUME LineInv, UNCHANGED <<line, trainVars, objectVars>> PROVE LineInv'
<1>1. UNCHANGED <<line, pc, origin, placeVars>>
  BY DEF trainVars, objectVars, orderVars, enterGuardVars, enterQueues, placeVars
<1>2. OrderMatches' /\ NoneHidden' /\ line' \in [Ends -> Seq(Trains)]
  BY <1>1 DEF LineInv, OrderMatches, NoneHidden, placeVars
<1>3. ASSUME NEW e \in Ends PROVE LineMatches(e)' /\ LineKeptInOrder(e)'
  <2>1. LineMatches(e) /\ LineKeptInOrder(e)
    BY DEF LineInv
  <2>2. LineMatches(e)'
    BY <1>1, <2>1 DEF LineMatches
  <2>3. LineKeptInOrder(e)'
    BY <1>1, <2>1 DEF LineKeptInOrder, Precedes, Held, Due, Turns, placeVars
  <2>4. QED BY <2>2, <2>3
<1>4. QED BY <1>2, <1>3 DEF LineInv

LEMMA LineStep ==
    ASSUME IInv, ServeInv, LineInv, HistoryNext PROVE LineInv'
<1>1. Next /\ line' = [e \in Ends |-> LineAfter(e)]
  BY DEF HistoryNext
<1>2. CASE PerformEnterRuns
  BY <1>1, <1>2, PerformEnterRunsLine
<1>3. CASE \E t \in Trains : Add_Train(t)
  BY <1>1, <1>3, Add_TrainLine
<1>4. CASE ~PerformEnterRuns /\ \A t \in Trains : ~Add_Train(t)
  <2>1. line' = line
    BY <1>1, <1>4, LineStays DEF LineInv
  <2>2. CASE PassGate
    BY <2>1, <2>2, LineUnchanged DEF PassGate
  <2>3. QED BY <1>1, <1>4, <2>1, <2>2, EnterInOrderLine, PerformEnterWaitsLine,
            RetryEndLine, LeaveInOrderLine, ElsewhereLine
<1>5. QED BY <1>2, <1>3, <1>4

LEMMA LineInit == HistoryInit => LineInv
<1> SUFFICES ASSUME HistoryInit PROVE LineInv
  OBVIOUS
<1>1. /\ line = [e \in Ends |-> <<>>] /\ Trains_Order = <<>>
      /\ \A t \in Trains : pc[t] = "idle"
  BY DEF HistoryInit, Init
<1>2. line \in [Ends -> Seq(Trains)]
  BY <1>1
<1>3. OrderMatches /\ \A e \in Ends : line[e] \in Line(At(pc, origin, LinePlaces, {e}))
  BY <1>1, LineEmpty DEF OrderMatches
<1>4. \A e \in Ends : LineMatches(e) /\ LineKeptInOrder(e)
  BY <1>1, <1>3 DEF LineMatches, LinePlaces, LineKeptInOrder, Ahead
<1>5. NoneHidden
  BY <1>1 DEF NoneHidden
<1>6. QED BY <1>2, <1>3, <1>4, <1>5 DEF LineInv

LEMMA LineInvHolds == HistorySpec => [](IInv /\ ServeInv /\ LineInv)
<1>1. IInv /\ ServeInv /\ LineInv /\ [HistoryNext]_<<vars, orderHistory>> => LineInv'
  <2>1. ASSUME IInv, ServeInv, LineInv, UNCHANGED <<vars, orderHistory>> PROVE LineInv'
    BY <2>1, LineUnchanged DEF vars, orderHistory
  <2>2. QED BY <2>1, LineStep
<1>2. QED BY <1>1, LineInit, OrderInvHolds, PTL DEF HistorySpec
-----------------------------------------------------------------------------
(* Every step of the segment is a step of the track, or changes nothing of it. *)

LEMMA StartTrack == HistoryInit => Track!Start
BY EndsAssumption DEF HistoryInit, Init, Track!Start

LEMMA LineUpTrack ==
    ASSUME IInv, LineInv, HistoryNext, NEW x \in Trains, Add_Train(x)
    PROVE  [Track!Move]_Track!trackStateVars
<1>1. UNCHANGED <<Running_Trains, Current_Direction, arrivals>>
  BY DEF Add_Train, trackVars
<1>2. \A e \in Ends : line'[e] = IF origin[x] = e THEN Append(line[e], x) ELSE line[e]
  BY RegisterLine DEF HistoryNext
<1>3. line \in [Ends -> Seq(Trains)] /\ line' = [e \in Ends |-> line'[e]]
  BY DEF LineInv, HistoryNext
<1>4. CASE origin[x] \in Ends
  <2>1. line' = [line EXCEPT ![origin[x]] = Append(@, x)]
    BY <1>2, <1>3, <1>4
  <2>2. Track!LineUp(x, origin[x])
    BY <1>1, <2>1 DEF Track!LineUp
  <2>3. QED BY <1>4, <2>2 DEF Track!Move
<1>5. CASE origin[x] \notin Ends
  <2>1. line' = line
    BY <1>2, <1>3, <1>5
  <2>2. QED BY <1>1, <2>1 DEF Track!trackStateVars
<1>6. QED BY <1>4, <1>5

LEMMA GoInTrack ==
    ASSUME IInv, ServeInv, LineInv, HistoryNext, PerformEnterRuns
    PROVE  [Track!Move]_Track!trackStateVars
<1>1. PICK o \in Ends : o = origin[Head(performQ)]
  BY PerformHead DEF PerformEnterRuns, IInv, QueuesMatch
<1>2. line[o] # <<>> /\ Head(line[o]) = Head(performQ)
  BY <1>1, FirstEnters
<1>3. \A e \in Ends : line'[e] = IF o = e THEN Tail(line[e]) ELSE line[e]
  BY <1>1, EnterLine DEF HistoryNext
<1>4. line \in [Ends -> Seq(Trains)] /\ line' = [e \in Ends |-> line'[e]]
  BY DEF LineInv, HistoryNext
<1>5. line' = [line EXCEPT ![o] = Tail(@)]
  BY <1>3, <1>4
<1>6. /\ Running_Trains' = Append(Running_Trains, Head(line[o]))
      /\ Current_Direction' = o /\ UNCHANGED arrivals
      /\ Running_Trains # <<>> => Current_Direction = o
  BY <1>1, <1>2 DEF PerformEnterRuns, MustWait, IInv, TrackCounted
<1>7. Track!GoIn(o)
  BY <1>2, <1>5, <1>6 DEF Track!GoIn
<1>8. QED BY <1>7 DEF Track!Move

LEMMA GoOutTrack ==
    ASSUME IInv, LeaveInOrder, line' = line PROVE [Track!Move]_Track!trackStateVars
<1>1. /\ Running_Trains # <<>> /\ Running_Trains' = Tail(Running_Trains)
      /\ UNCHANGED Current_Direction
      /\ arrivals' = [arrivals EXCEPT ![Other(Current_Direction)]
                                    = Append(@, Head(Running_Trains))]
  BY DEF LeaveInOrder, HandOver, IInv, TrackCounted
<1>2. Track!GoOut
  BY <1>1 DEF Track!GoOut
<1>3. QED BY <1>2 DEF Track!Move

LEMMA TakeOverTrack ==
    ASSUME NEW t \in Trains, Settle(t), line' = line
    PROVE  [Track!Move]_Track!trackStateVars
<1>1. PICK e \in Ends : /\ arrivals[e] # <<>>
                        /\ arrivals' = [arrivals EXCEPT ![e] = Tail(@)]
  BY DEF Settle
<1>2. Track!TakeOver(e)
  BY <1>1 DEF Settle, trackVars, Track!TakeOver
<1>3. QED BY <1>2 DEF Track!Move

\* The steps that change nothing of the track.
LEMMA OtherTrack ==
    ASSUME [Next]_vars, line' = line, ~PerformEnterRuns, ~LeaveInOrder,
           \A t \in Trains : ~Settle(t)
    PROVE  UNCHANGED Track!trackStateVars
<1> SUFFICES UNCHANGED <<Running_Trains, Current_Direction, arrivals>>
  BY DEF Track!trackStateVars
<1> USE DEF trackVars
<1>1. CASE (\E t \in Trains, s \in Origins : AskGate(t, s)) \/ PassGate \/ UNCHANGED vars
  BY <1>1 DEF AskGate, PassGate, vars, objectVars
<1>2. CASE \E t \in Trains : TrainStep(t)
  BY <1>2 DEF TrainStep, Add_Train, ReleaseGate, CallEnter, CallLeave, objectVars
<1>3. CASE Serve
  BY <1>3 DEF Serve, Retry, EnterFromElsewhere, EnterOutOfOrder, EnterInOrder,
     PerformEnterWaits, RetryEnd, LeaveOutOfOrder, Retry_Leave
<1>4. QED BY <1>1, <1>2, <1>3 DEF Next

LEMMA TrackStep ==
    IInv /\ ServeInv /\ LineInv /\ [HistoryNext]_<<vars, orderHistory>>
        => [Track!Move]_Track!trackStateVars
<1> SUFFICES ASSUME IInv, ServeInv, LineInv, [HistoryNext]_<<vars, orderHistory>>
             PROVE  [Track!Move]_Track!trackStateVars
  OBVIOUS
<1>1. CASE UNCHANGED <<vars, orderHistory>>
  BY <1>1 DEF vars, orderHistory, objectVars, trackVars, Track!trackStateVars
<1>2. CASE HistoryNext
  <2>1. CASE PerformEnterRuns
    BY <1>2, <2>1, GoInTrack
  <2>2. CASE \E t \in Trains : Add_Train(t)
    BY <1>2, <2>2, LineUpTrack
  <2>3. CASE ~PerformEnterRuns /\ \A t \in Trains : ~Add_Train(t)
    <3>1. line' = line
      BY <1>2, <2>3, LineStays DEF LineInv, HistoryNext
    <3>2. QED BY <1>2, <2>3, <3>1, GoOutTrack, TakeOverTrack, OtherTrack DEF HistoryNext
  <2>4. QED BY <2>1, <2>2, <2>3
<1>3. QED BY <1>1, <1>2

\* However many trains use it, the segment is a one-way track: at each end the
\* trains enter in the order in which they registered, whatever order their
\* tasks are scheduled in, wait on the track for the one ahead, and reach the
\* next station in that order (segment.adb).
THEOREM SegmentImplementsTrack == HistorySpec => ImplementsTrack
BY StartTrack, TrackStep, LineInvHolds, PTL
   DEF HistorySpec, ImplementsTrack, Track!TrackSpec
=============================================================================
