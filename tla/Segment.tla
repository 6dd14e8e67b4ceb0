------------------------------ MODULE Segment ------------------------------
(***************************************************************************)
(* One track segment (railway/src/segment.ad[bs]): the gate of              *)
(* Priority_Access_Controller, the protected object                         *)
(* Segment_Access_Controller, and the trains that call Segment_Type.Enter   *)
(* and Segment_Type.Leave.                                                  *)
(*                                                                         *)
(* Every entry body is an action.  A call queued on an open entry is served *)
(* before any new call from outside (Quiescent), each entry serves its      *)
(* queue in order, and the choice between two open entries is arbitrary.    *)
(* The variables of the protected object have the names of the code; E'Count *)
(* is the length of the queue of entry E.                                   *)
(***************************************************************************)
EXTENDS PriorityAccess

CONSTANTS First_End, Second_End,  \* the stations at its two ends
          Origins,   \* the stations trains may come from
          MaxSpeed,  \* Train.Max_Speed
          Segment_Max_Speed,
          Max        \* trains counted per direction while the other side waits

Ends == {First_End, Second_End}
Other(e) == IF e = First_End THEN Second_End ELSE First_End

ASSUME EndsAssumption == First_End # Second_End /\ "none" \notin Ends
ASSUME MaxAssumption == Max \in Nat \ {0}
ASSUME SpeedAssumption ==
    /\ Segment_Max_Speed \in Nat \ {0}
    /\ MaxSpeed \in [Trains -> Nat \ {0}]

VARIABLES
    pc,       \* where each train's task is; the name of an entry: queued on it
    origin,   \* Train.Current_Station, the end from which it enters
    speed,    \* the Max_Speed that Enter returned to the train
    enterQ, retryQ, performQ,       \* queues of Enter, Retry and Perform_Enter
    waitQ,                          \* of Retry_First_End and Retry_Second_End
    leaveQ, retryLeaveQ,            \* of Leave and Retry_Leave
    Free, Current_Direction, Current_Max_Speed,
    Running_Trains, Trains_Number, Train_Entered_Per_Direction,
    Trains_Order, Retry_Num, Can_Retry,
    Can_Enter, Enter_Retry_Num,     \* Can_Enter_First_End, Can_Enter_Second_End
    Can_Retry_Leave, Exit_Retry_Num,
    arrivals  \* per end, the trains handed to the station there, in order

trainVars == <<pc, origin, speed>>
orderVars == <<Trains_Order, Retry_Num, Can_Retry>>
trackVars == <<Free, Current_Direction, Current_Max_Speed, Running_Trains,
               Trains_Number, Train_Entered_Per_Direction>>
enterGuardVars == <<Can_Enter, Enter_Retry_Num>>
leaveGuardVars == <<Can_Retry_Leave, Exit_Retry_Num>>
enterQueues == <<enterQ, retryQ, performQ, waitQ>>
leaveQueues == <<leaveQ, retryLeaveQ>>
objectVars == <<orderVars, trackVars, enterGuardVars, leaveGuardVars,
                enterQueues, leaveQueues, arrivals>>
vars == <<gateVars, trainVars, objectVars>>

Locations == {"idle", "gate", "added", "ordered", "Enter", "Retry",
              "Perform_Enter", "Retry_End", "running", "Leave", "Retry_Leave",
              "left", "dropped"}

TypeOK ==
    /\ GateTypeOK
    /\ pc \in [Trains -> Locations]
    /\ origin \in [Trains -> Origins]
    /\ speed \in [Trains -> Nat]
    /\ enterQ \in Seq(Trains) /\ retryQ \in Seq(Trains) /\ performQ \in Seq(Trains)
    /\ waitQ \in [Ends -> Seq(Trains)]
    /\ leaveQ \in Seq(Trains) /\ retryLeaveQ \in Seq(Trains)
    /\ Free \in BOOLEAN
    /\ Current_Direction \in Ends \cup {"none"}
    /\ Current_Max_Speed \in Nat \ {0}
    /\ Running_Trains \in Seq(Trains)
    /\ Trains_Number \in Nat
    /\ Train_Entered_Per_Direction \in 0..Max
    /\ Trains_Order \in Seq(Trains)
    /\ Retry_Num \in Nat /\ Can_Retry \in BOOLEAN
    /\ Can_Enter \in [Ends -> BOOLEAN] /\ Enter_Retry_Num \in Nat
    /\ Can_Retry_Leave \in BOOLEAN /\ Exit_Retry_Num \in Nat
    /\ arrivals \in [Ends -> Seq(Trains)]

Init ==
    /\ GateInit
    /\ pc = [t \in Trains |-> "idle"]
    /\ origin \in [Trains -> Origins]
    /\ speed = [t \in Trains |-> 0]
    /\ enterQ = <<>> /\ retryQ = <<>> /\ performQ = <<>>
    /\ waitQ = [e \in Ends |-> <<>>]
    /\ leaveQ = <<>> /\ retryLeaveQ = <<>>
    /\ Free = TRUE
    /\ Current_Direction = "none"
    /\ Current_Max_Speed = Segment_Max_Speed
    /\ Running_Trains = <<>>
    /\ Trains_Number = 0
    /\ Train_Entered_Per_Direction = 0
    /\ Trains_Order = <<>>
    /\ Retry_Num = 0 /\ Can_Retry = FALSE
    /\ Can_Enter = [e \in Ends |-> FALSE] /\ Enter_Retry_Num = 0
    /\ Can_Retry_Leave = FALSE /\ Exit_Retry_Num = 0
    /\ arrivals = [e \in Ends |-> <<>>]

\* No call is queued on an open entry: the protected object takes a new call.
Quiescent ==
    /\ enterQ = <<>>
    /\ performQ = <<>>
    /\ Can_Retry => retryQ = <<>>
    /\ \A e \in Ends : Can_Enter[e] => waitQ[e] = <<>>
    /\ ~Free => leaveQ = <<>>
    /\ Can_Retry_Leave => retryLeaveQ = <<>>

MoveTo(t, where) == pc' = [pc EXCEPT ![t] = where]
-----------------------------------------------------------------------------
(* Mutations of definitions below, for the runs that test the properties.     *)
WaitForCount(t) ==
    ~Free /\ Train_Entered_Per_Direction = Max /\ waitQ[Other(origin[t])] # <<>>
WaitForDirection(t) == ~Free /\ origin[t] # Current_Direction
OwnSpeed(t) == MaxSpeed[t]
ForgetRetry == UNCHANGED <<Retry_Num, Can_Retry>>
HandBack(t) == arrivals' = [arrivals EXCEPT ![Current_Direction] = Append(@, t)]
-----------------------------------------------------------------------------
(* Segment_Type.Enter and Segment_Type.Leave, run by the task of a train.    *)

\* The train asks for the gate, coming from station s.
AskGate(t, s) ==
    /\ pc[t] = "idle"
    /\ origin' = [origin EXCEPT ![t] = s]
    /\ MoveTo(t, "gate")
    /\ Gain_Access(t)
    /\ UNCHANGED <<speed, objectVars>>

PassGate == Admit /\ UNCHANGED <<trainVars, objectVars>>

Add_Train(t) ==
    /\ pc[t] = "gate" /\ gate[t] = "inside"
    /\ Quiescent
    /\ Trains_Order' = Append(Trains_Order, t)
    /\ MoveTo(t, "added")
    /\ UNCHANGED <<gateVars, origin, speed, Retry_Num, Can_Retry, trackVars,
                   enterGuardVars, leaveGuardVars, enterQueues, leaveQueues, arrivals>>

ReleaseGate(t) ==
    /\ pc[t] = "added"
    /\ Access_Gained(t)
    /\ MoveTo(t, "ordered")
    /\ UNCHANGED <<origin, speed, objectVars>>

CallEnter(t) ==
    /\ pc[t] = "ordered"
    /\ Quiescent
    /\ MoveTo(t, "Enter")
    /\ enterQ' = Append(enterQ, t)
    /\ UNCHANGED <<gateVars, origin, speed, orderVars, trackVars, enterGuardVars,
                   leaveGuardVars, retryQ, performQ, waitQ, leaveQueues, arrivals>>

CallLeave(t) ==
    /\ pc[t] = "running"
    /\ Quiescent
    /\ MoveTo(t, "Leave")
    /\ leaveQ' = Append(leaveQ, t)
    /\ UNCHANGED <<gateVars, origin, speed, orderVars, trackVars, enterGuardVars,
                   leaveGuardVars, enterQueues, retryLeaveQ, arrivals>>

\* The station takes the trains in the order in which they were handed to it,
\* and the train later asks for this segment again.
Settle(t) ==
    /\ pc[t] = "left"
    /\ \E e \in Ends :
          /\ arrivals[e] # <<>> /\ Head(arrivals[e]) = t
          /\ arrivals' = [arrivals EXCEPT ![e] = Tail(@)]
    /\ MoveTo(t, "idle")
    /\ UNCHANGED <<gateVars, origin, speed, orderVars, trackVars, enterGuardVars,
                   leaveGuardVars, enterQueues, leaveQueues>>
-----------------------------------------------------------------------------
(* The entries of Segment_Access_Controller.                                 *)

\* Whether a guard stays open when one of the n trains it lets retry has passed.
StaysOpen(n) == n # 1

Retry ==
    /\ Can_Retry /\ retryQ # <<>>
    /\ Retry_Num' = Retry_Num - 1
    /\ Can_Retry' = StaysOpen(Retry_Num)
    /\ retryQ' = Tail(retryQ)
    /\ enterQ' = Append(enterQ, Head(retryQ))
    /\ MoveTo(Head(retryQ), "Enter")
    /\ UNCHANGED <<gateVars, origin, speed, Trains_Order, trackVars, enterGuardVars,
                   leaveGuardVars, performQ, waitQ, leaveQueues, arrivals>>

\* Bad_Segment_Access_Request_Exception: the train stays in Trains_Order and
\* its task, which handles the exception, drops it.
EnterFromElsewhere ==
    /\ enterQ # <<>>
    /\ origin[Head(enterQ)] \notin Ends
    /\ MoveTo(Head(enterQ), "dropped")
    /\ enterQ' = Tail(enterQ)
    /\ UNCHANGED <<gateVars, origin, speed, orderVars, trackVars, enterGuardVars,
                   leaveGuardVars, retryQ, performQ, waitQ, leaveQueues, arrivals>>

HasTurn(t) == Head(Trains_Order) = t

EnterOutOfOrder ==
    /\ enterQ # <<>>
    /\ LET t == Head(enterQ) IN
          /\ origin[t] \in Ends
          /\ ~HasTurn(t)
          /\ MoveTo(t, "Retry")
          /\ retryQ' = Append(retryQ, t)
    /\ enterQ' = Tail(enterQ)
    /\ UNCHANGED <<gateVars, origin, speed, orderVars, trackVars, enterGuardVars,
                   leaveGuardVars, performQ, waitQ, leaveQueues, arrivals>>

\* All the trains that wait in Retry try again.
OpenRetry ==
    IF retryQ # <<>>
    THEN Retry_Num' = Len(retryQ) /\ Can_Retry' = TRUE
    ELSE UNCHANGED <<Retry_Num, Can_Retry>>

EnterInOrder ==
    /\ enterQ # <<>>
    /\ LET t == Head(enterQ) IN
          /\ origin[t] \in Ends
          /\ HasTurn(t)
          /\ MoveTo(t, "Perform_Enter")
          /\ performQ' = Append(performQ, t)
    /\ enterQ' = Tail(enterQ)
    /\ Trains_Order' = Tail(Trains_Order)
    /\ OpenRetry
    /\ UNCHANGED <<gateVars, origin, speed, trackVars, enterGuardVars,
                   leaveGuardVars, retryQ, waitQ, leaveQueues, arrivals>>

\* When train t at Perform_Enter has to wait at its end of the segment.
MustWait(t) ==
    /\ ~Free
    /\ \/ origin[t] # Current_Direction
       \/ Train_Entered_Per_Direction = Max /\ waitQ[Other(origin[t])] # <<>>

PerformEnterWaits ==
    /\ performQ # <<>>
    /\ LET t == Head(performQ) IN
          /\ MustWait(t)
          /\ MoveTo(t, "Retry_End")
          /\ waitQ' = [waitQ EXCEPT ![origin[t]] = Append(@, t)]
    /\ performQ' = Tail(performQ)
    /\ UNCHANGED <<gateVars, origin, speed, orderVars, trackVars, enterGuardVars,
                   leaveGuardVars, enterQ, retryQ, leaveQueues, arrivals>>

\* The number of trains counted for this direction once one more has entered;
\* it stays at Max when trains keep entering while nobody waits opposite.
EnteredAfter ==
    CASE Free -> 1
      [] ~Free /\ Train_Entered_Per_Direction = Max -> Max
      [] OTHER -> Train_Entered_Per_Direction + 1

SpeedAfter(t) ==
    IF MaxSpeed[t] < Current_Max_Speed THEN MaxSpeed[t] ELSE Current_Max_Speed

PerformEnterRuns ==
    /\ performQ # <<>>
    /\ LET t == Head(performQ) IN
          /\ ~MustWait(t)
          /\ MoveTo(t, "running")
          /\ Current_Direction' = IF Free THEN origin[t] ELSE Current_Direction
          /\ Running_Trains' = Append(Running_Trains, t)
          /\ Current_Max_Speed' = SpeedAfter(t)
          /\ speed' = [speed EXCEPT ![t] = IF Segment_Max_Speed > SpeedAfter(t)
                                           THEN SpeedAfter(t) ELSE Segment_Max_Speed]
    /\ performQ' = Tail(performQ)
    /\ Free' = FALSE
    /\ Train_Entered_Per_Direction' = EnteredAfter
    /\ Trains_Number' = Trains_Number + 1
    /\ UNCHANGED <<gateVars, origin, orderVars, enterGuardVars, leaveGuardVars,
                   enterQ, retryQ, waitQ, leaveQueues, arrivals>>

\* Retry_First_End (e = First_End) and Retry_Second_End.
RetryEnd(e) ==
    /\ Can_Enter[e] /\ waitQ[e] # <<>>
    /\ Enter_Retry_Num' = Enter_Retry_Num - 1
    /\ Can_Enter' = [Can_Enter EXCEPT ![e] = StaysOpen(Enter_Retry_Num)]
    /\ waitQ' = [waitQ EXCEPT ![e] = Tail(@)]
    /\ performQ' = Append(performQ, Head(waitQ[e]))
    /\ MoveTo(Head(waitQ[e]), "Perform_Enter")
    /\ UNCHANGED <<gateVars, origin, speed, orderVars, trackVars, leaveGuardVars,
                   enterQ, retryQ, leaveQueues, arrivals>>

LeaveOutOfOrder ==
    /\ ~Free /\ leaveQ # <<>>
    /\ Head(Running_Trains) # Head(leaveQ)
    /\ MoveTo(Head(leaveQ), "Retry_Leave")
    /\ leaveQ' = Tail(leaveQ)
    /\ retryLeaveQ' = Append(retryLeaveQ, Head(leaveQ))
    /\ UNCHANGED <<gateVars, origin, speed, orderVars, trackVars, enterGuardVars,
                   leaveGuardVars, enterQueues, arrivals>>

\* The trains that wait at end e try again.
OpenEnd(e) ==
    IF waitQ[e] # <<>>
    THEN /\ Enter_Retry_Num' = Len(waitQ[e])
         /\ Can_Enter' = [Can_Enter EXCEPT ![e] = TRUE]
    ELSE UNCHANGED enterGuardVars

\* The last running train frees the segment for the end it runs towards.
FreeTrack ==
    IF Trains_Number = 1
    THEN /\ Free' = TRUE
         /\ Current_Max_Speed' = Segment_Max_Speed
         /\ OpenEnd(Other(Current_Direction))
    ELSE UNCHANGED <<Free, Current_Max_Speed, enterGuardVars>>

OpenRetryLeave ==
    IF retryLeaveQ # <<>>
    THEN Exit_Retry_Num' = Len(retryLeaveQ) /\ Can_Retry_Leave' = TRUE
    ELSE UNCHANGED leaveGuardVars

\* Add_Train of the station the trains run towards.
HandOver(t) ==
    arrivals' = [arrivals EXCEPT ![Other(Current_Direction)] = Append(@, t)]

LeaveInOrder ==
    /\ ~Free /\ leaveQ # <<>>
    /\ Head(Running_Trains) = Head(leaveQ)
    /\ MoveTo(Head(leaveQ), "left")
    /\ leaveQ' = Tail(leaveQ)
    /\ Running_Trains' = Tail(Running_Trains)
    /\ OpenRetryLeave
    /\ Trains_Number' = Trains_Number - 1
    /\ FreeTrack
    /\ HandOver(Head(leaveQ))
    /\ UNCHANGED <<gateVars, origin, speed, orderVars, Current_Direction,
                   Train_Entered_Per_Direction, enterQueues, retryLeaveQ>>

Retry_Leave ==
    /\ Can_Retry_Leave /\ retryLeaveQ # <<>>
    /\ Exit_Retry_Num' = Exit_Retry_Num - 1
    /\ Can_Retry_Leave' = StaysOpen(Exit_Retry_Num)
    /\ retryLeaveQ' = Tail(retryLeaveQ)
    /\ leaveQ' = Append(leaveQ, Head(retryLeaveQ))
    /\ MoveTo(Head(retryLeaveQ), "Leave")
    /\ UNCHANGED <<gateVars, origin, speed, orderVars, trackVars, enterGuardVars,
                   enterQueues, arrivals>>
-----------------------------------------------------------------------------
\* The steps the protected object takes by itself to serve its queues.
Serve ==
    \/ Retry
    \/ EnterFromElsewhere \/ EnterOutOfOrder \/ EnterInOrder
    \/ PerformEnterWaits \/ PerformEnterRuns
    \/ \E e \in Ends : RetryEnd(e)
    \/ LeaveOutOfOrder \/ LeaveInOrder
    \/ Retry_Leave

\* The steps of a task between its request of the gate and its return to idle.
TrainStep(t) ==
    Add_Train(t) \/ ReleaseGate(t) \/ CallEnter(t) \/ CallLeave(t) \/ Settle(t)

Next ==
    \/ \E t \in Trains, s \in Origins : AskGate(t, s)
    \/ PassGate
    \/ \E t \in Trains : TrainStep(t)
    \/ Serve

Spec == Init /\ [][Next]_vars

\* Open entries are served by the run-time system, and the task of a train
\* that has begun a stage goes on; no train has to begin one.
Fairness ==
    /\ WF_vars(PassGate)
    /\ WF_vars(Serve)
    /\ \A t \in Trains : WF_vars(TrainStep(t))

-----------------------------------------------------------------------------
\* All the trains on the segment came in from the end recorded in
\* Current_Direction, and the segment is marked Free exactly when it is empty:
\* two trains never run against each other (segment.adb, Perform_Enter, Leave).
OneWay ==
    /\ \A i \in 1..Len(Running_Trains) : origin[Running_Trains[i]] = Current_Direction
    /\ Free <=> Running_Trains = <<>>
    /\ Trains_Number = Len(Running_Trains)

\* No train was given a higher speed than a train that runs ahead of it, so it
\* cannot catch up (Current_Max_Speed, segment.adb).
NoCatchUp ==
    \A i, j \in 1..Len(Running_Trains) :
        i < j => speed[Running_Trains[j]] <= speed[Running_Trains[i]]

\* The counters of the trains that a guard lets retry, each with its guard.
OrderCounter ==
    /\ Can_Retry <=> Retry_Num > 0
    /\ Retry_Num <= Len(retryQ)

LeaveCounter ==
    /\ Can_Retry_Leave <=> Exit_Retry_Num > 0
    /\ Exit_Retry_Num <= Len(retryLeaveQ)

EndCounter ==
    /\ ~(Can_Enter[First_End] /\ Can_Enter[Second_End])
    /\ (\E e \in Ends : Can_Enter[e]) <=> Enter_Retry_Num > 0
    /\ \A e \in Ends : Can_Enter[e] => Enter_Retry_Num <= Len(waitQ[e])

\* The retry counters never run below zero (they are Natural, so that would
\* raise Constraint_Error in a train's task), and never let more trains retry
\* than wait: a guard is open exactly while its counter is positive, and the
\* one counter of the two ends never serves both.
RetryCounters == OrderCounter /\ LeaveCounter /\ EndCounter

\* Every registered train eventually enters the segment, unless some train has
\* asked from a wrong station, which stays in the order (segment.adb:74-78), and
\* every train on it eventually leaves: no queue of the object holds a train for
\* ever.
EveryTrainPasses ==
    \A t \in Trains :
        /\ pc[t] = "added" ~> (pc[t] = "running" \/ \E u \in Trains : pc[u] = "dropped")
        /\ pc[t] = "running" ~> pc[t] = "left"
=============================================================================
