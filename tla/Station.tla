------------------------------ MODULE Station ------------------------------
(***************************************************************************)
(* The way of a train from the end of a segment onto a platform and off it   *)
(* again: the Access_Controller that a station keeps per incoming segment    *)
(* (railway/src/generic_station.adb), the gate and the protected object      *)
(* Platform_Type of one platform (platform.adb), the procedures of           *)
(* Regional_Station_Type that call them in turn (regional_station.adb), and  *)
(* their shutdown: the train pool is stopped, then the platform.             *)
(*                                                                         *)
(* Platforms of a station share only the access controllers, so one platform *)
(* is modelled; travellers are the subject of Boarding.                     *)
(***************************************************************************)
EXTENDS PriorityAccess

CONSTANT Segments  \* the segments that end at the station

VARIABLES
    pc,    \* where each train's task is; the name of an entry: queued on it
    via,   \* the segment through which the train comes
    Access_Order, waitQ, Trains_Waiting, Can_Access,  \* Access_Controller of each
        \* segment: Trains_Order, the queue of Wait, Trains_Waiting, Can_Retry
    Trains_Order, enterQ, retryQ, Retry_Count, Can_Retry, Terminated, \* Platform_Type
    Stopped, \* the train pool gives out no more descriptors
    ahead    \* history: of each train, those that left its segment before it and do
             \* not yet stand at the platform

accessVars == <<Access_Order, waitQ, Trains_Waiting, Can_Access>>
guardVars == <<Retry_Count, Can_Retry>>
platformVars == <<Trains_Order, enterQ, retryQ, guardVars, Terminated>>
vars == <<gateVars, pc, via, accessVars, platformVars, Stopped, ahead>>

Locations == {"away", "arriving", "Wait", "passed", "gate", "added", "released",
              "freed", "Enter", "Retry", "standing", "departing"}

TypeOK ==
    /\ GateTypeOK
    /\ pc \in [Trains -> Locations]
    /\ via \in [Trains -> Segments]
    /\ Access_Order \in [Segments -> Seq(Trains)]
    /\ waitQ \in [Segments -> Seq(Trains)]
    /\ Trains_Waiting \in [Segments -> Nat]
    /\ Can_Access \in [Segments -> BOOLEAN]
    /\ Trains_Order \in Seq(Trains)
    /\ enterQ \in Seq(Trains) /\ retryQ \in Seq(Trains)
    /\ Retry_Count \in Nat /\ Can_Retry \in BOOLEAN
    /\ Terminated \in BOOLEAN /\ Stopped \in BOOLEAN
    /\ ahead \in [Trains -> SUBSET Trains]

Init ==
    /\ GateInit
    /\ pc = [t \in Trains |-> "away"]
    /\ via \in [Trains -> Segments]
    /\ Access_Order = [s \in Segments |-> <<>>]
    /\ waitQ = [s \in Segments |-> <<>>]
    /\ Trains_Waiting = [s \in Segments |-> 0]
    /\ Can_Access = [s \in Segments |-> FALSE]
    /\ Trains_Order = <<>>
    /\ enterQ = <<>> /\ retryQ = <<>>
    /\ Retry_Count = 0 /\ Can_Retry = FALSE
    /\ Terminated = FALSE /\ Stopped = FALSE
    /\ ahead = [t \in Trains |-> {}]

MoveTo(t, where) == pc' = [pc EXCEPT ![t] = where]

\* Train t has been handed over and does not stand yet.
Coming(t) == pc[t] \notin {"away", "standing", "departing"}

\* The access controller of s, or the platform, has no call left to serve.
AccessQuiescent(s) == Can_Access[s] => waitQ[s] = <<>>
PlatformQuiescent == enterQ = <<>> /\ (Can_Retry \/ Terminated => retryQ = <<>>)
-----------------------------------------------------------------------------
(* Mutations of definitions below, for the runs that test the properties.     *)
AnyAccess(t) == TRUE
ForgetAccess(s) == UNCHANGED <<Trains_Waiting, Can_Access>>
-----------------------------------------------------------------------------
(* Access_Controller.                                                        *)

\* Segment s hands a train over when it leaves (Station.Add_Train).
Add_Train(t, s) ==
    /\ pc[t] = "away"
    /\ AccessQuiescent(s)
    /\ MoveTo(t, "arriving")
    /\ via' = [via EXCEPT ![t] = s]
    /\ Access_Order' = [Access_Order EXCEPT ![s] = Append(@, t)]
    /\ ahead' = [ahead EXCEPT ![t] = {u \in Trains : via[u] = s /\ Coming(u)}]
    /\ UNCHANGED <<gateVars, waitQ, Trains_Waiting, Can_Access, platformVars, Stopped>>

FirstOfSegment(t) == Head(Access_Order[via[t]]) = t

AccessEnter(t) ==
    LET s == via[t] IN
    /\ pc[t] = "arriving"
    /\ AccessQuiescent(s)
    /\ \/ /\ FirstOfSegment(t)
          /\ MoveTo(t, "passed")
          /\ UNCHANGED waitQ
       \/ /\ ~FirstOfSegment(t)
          /\ MoveTo(t, "Wait")
          /\ waitQ' = [waitQ EXCEPT ![s] = Append(@, t)]
    /\ UNCHANGED <<gateVars, via, Access_Order, Trains_Waiting, Can_Access,
                   platformVars, Stopped, ahead>>

\* Whether a guard stays open when one of the n trains it lets retry has passed.
StaysOpen(n) == n # 1

AccessWait(s) ==
    LET t == Head(waitQ[s]) IN
    /\ Can_Access[s] /\ waitQ[s] # <<>>
    /\ Trains_Waiting' = [Trains_Waiting EXCEPT ![s] = @ - 1]
    /\ Can_Access' = [Can_Access EXCEPT ![s] = StaysOpen(Trains_Waiting[s])]
    /\ \/ /\ FirstOfSegment(t)
          /\ MoveTo(t, "passed")
          /\ waitQ' = [waitQ EXCEPT ![s] = Tail(@)]
       \/ /\ ~FirstOfSegment(t)
          /\ waitQ' = [waitQ EXCEPT ![s] = Append(Tail(@), t)]
          /\ UNCHANGED pc
    /\ UNCHANGED <<gateVars, via, Access_Order, platformVars, Stopped, ahead>>

OpenAccess(s) ==
    IF waitQ[s] # <<>>
    THEN /\ Trains_Waiting' = [Trains_Waiting EXCEPT ![s] = Len(waitQ[s])]
         /\ Can_Access' = [Can_Access EXCEPT ![s] = TRUE]
    ELSE UNCHANGED <<Trains_Waiting, Can_Access>>

AccessFree(t) ==
    LET s == via[t] IN
    /\ pc[t] = "released"
    /\ AccessQuiescent(s)
    /\ MoveTo(t, "freed")
    /\ Access_Order' = [Access_Order EXCEPT ![s] = Tail(@)]
    /\ OpenAccess(s)
    /\ UNCHANGED <<gateVars, via, waitQ, platformVars, Stopped, ahead>>
-----------------------------------------------------------------------------
(* Platform_Handler.Add_Train: the gate around Platform_Type.Add_Train.      *)

AskGate(t) ==
    /\ pc[t] = "passed"
    /\ MoveTo(t, "gate")
    /\ Gain_Access(t)
    /\ UNCHANGED <<via, accessVars, platformVars, Stopped, ahead>>

PassGate ==
    Admit /\ UNCHANGED <<pc, via, accessVars, platformVars, Stopped, ahead>>

JoinPlatform(t) ==
    /\ pc[t] = "gate" /\ gate[t] = "inside"
    /\ PlatformQuiescent
    /\ MoveTo(t, "added")
    /\ Trains_Order' = Append(Trains_Order, t)
    /\ UNCHANGED <<gateVars, via, accessVars, enterQ, retryQ, guardVars,
                   Terminated, Stopped, ahead>>

ReleaseGate(t) ==
    /\ pc[t] = "added"
    /\ MoveTo(t, "released")
    /\ Access_Gained(t)
    /\ UNCHANGED <<via, accessVars, platformVars, Stopped, ahead>>
-----------------------------------------------------------------------------
(* Platform_Type.                                                            *)

CallEnter(t) ==
    /\ pc[t] = "freed"
    /\ PlatformQuiescent
    /\ MoveTo(t, "Enter")
    /\ enterQ' = Append(enterQ, t)
    /\ UNCHANGED <<gateVars, via, accessVars, Trains_Order, retryQ, guardVars,
                   Terminated, Stopped, ahead>>

\* The train stands at the platform, and is struck from the history.
Stand(t) ==
    /\ MoveTo(t, "standing")
    /\ ahead' = [u \in Trains |-> ahead[u] \ {t}]

HasTurn(t) == Head(Trains_Order) = t

Enter ==
    LET t == Head(enterQ) IN
    /\ enterQ # <<>>
    /\ \/ /\ HasTurn(t)
          /\ Stand(t)
          /\ UNCHANGED retryQ
       \/ /\ ~HasTurn(t)
          /\ MoveTo(t, "Retry")
          /\ retryQ' = Append(retryQ, t)
          /\ UNCHANGED ahead
    /\ enterQ' = Tail(enterQ)
    /\ UNCHANGED <<gateVars, via, accessVars, Trains_Order, guardVars, Terminated,
                   Stopped>>

Retry ==
    LET t == Head(retryQ) IN
    /\ ~Terminated /\ Can_Retry /\ retryQ # <<>>
    /\ Retry_Count' = Retry_Count - 1
    /\ Can_Retry' = StaysOpen(Retry_Count)
    /\ retryQ' = Tail(retryQ)
    /\ enterQ' = Append(enterQ, t)
    /\ MoveTo(t, "Enter")
    /\ UNCHANGED <<gateVars, via, accessVars, Trains_Order, Terminated, Stopped, ahead>>

\* After Terminate_Platform the entry returns whoever's turn it is.
RetryTerminated ==
    /\ Terminated /\ retryQ # <<>>
    /\ retryQ' = Tail(retryQ)
    /\ Stand(Head(retryQ))
    /\ UNCHANGED <<gateVars, via, accessVars, Trains_Order, enterQ, guardVars,
                   Terminated, Stopped>>

\* A task of the train pool dequeues the descriptor of a standing train, unless
\* the queue has been stopped.
PoolServes == ~Stopped

TakeDescriptor(t) ==
    /\ pc[t] = "standing"
    /\ PoolServes
    /\ MoveTo(t, "departing")
    /\ UNCHANGED <<gateVars, via, accessVars, platformVars, Stopped, ahead>>

OpenRetry ==
    IF retryQ # <<>>
    THEN Retry_Count' = Len(retryQ) /\ Can_Retry' = TRUE
    ELSE UNCHANGED guardVars

\* Leave takes the first train out of Trains_Order, whichever it is.
Leave(t) ==
    /\ pc[t] = "departing"
    /\ PlatformQuiescent
    /\ MoveTo(t, "away")
    /\ Trains_Order' = Tail(Trains_Order)
    /\ OpenRetry
    /\ UNCHANGED <<gateVars, via, accessVars, enterQ, retryQ, Terminated, Stopped, ahead>>

\* The handler of the termination message: Train_Pool.Stop, later Terminate_Platforms.
StopPool ==
    /\ ~Stopped
    /\ Stopped' = TRUE
    /\ UNCHANGED <<gateVars, pc, via, accessVars, platformVars, ahead>>

Terminate_Platform ==
    /\ Stopped /\ ~Terminated
    /\ PlatformQuiescent
    /\ Terminated' = TRUE
    /\ UNCHANGED <<gateVars, pc, via, accessVars, Trains_Order, enterQ, retryQ,
                   guardVars, Stopped, ahead>>
-----------------------------------------------------------------------------
ServePlatform == Enter \/ Retry \/ RetryTerminated

\* The steps of the task of a train that has been handed to the station.
TrainStep(t) ==
    \/ AccessEnter(t) \/ AskGate(t) \/ JoinPlatform(t) \/ ReleaseGate(t)
    \/ AccessFree(t) \/ CallEnter(t) \/ TakeDescriptor(t) \/ Leave(t)

Next ==
    \/ \E t \in Trains, s \in Segments : Add_Train(t, s)
    \/ \E t \in Trains : TrainStep(t)
    \/ PassGate
    \/ ServePlatform
    \/ \E s \in Segments : AccessWait(s)
    \/ StopPool \/ Terminate_Platform

Spec == Init /\ [][Next]_vars

\* As in Segment, but a task has to wait for the lock of the gate or of an access
\* controller while other trains pass again and again: that the lock goes to
\* every task that keeps asking for it is strong fairness.  A stopped pool is
\* followed by the stop of the platforms, in the same handler.
Fairness ==
    /\ WF_vars(PassGate) /\ WF_vars(ServePlatform) /\ WF_vars(Terminate_Platform)
    /\ \A s \in Segments : WF_vars(AccessWait(s))
    /\ \A t \in Trains : SF_vars(TrainStep(t))

FairSpec == Spec /\ Fairness
-----------------------------------------------------------------------------
AtPlatform(t) == pc[t] \in {"standing", "departing"}

\* Until the platform is terminated at most one train is at it, the one that is
\* first in Trains_Order.
PlatformExclusion ==
    ~Terminated => \A t \in Trains : AtPlatform(t) =>
                       Trains_Order # <<>> /\ Head(Trains_Order) = t

\* Trains that come through one segment get the platform in the order in which
\* they left the segment, whatever order their tasks run in, until the platform
\* is terminated; and a train that leaves takes its own place out of Trains_Order,
\* although Leave dequeues whichever train is first, also when Terminate_Platform
\* has let trains onto the platform out of turn.
PlacesKept ==
    [][\A t \in Trains :
          /\ pc[t] # "standing" /\ pc'[t] = "standing" /\ ~Terminated =>
                ahead[t] = {}
          /\ pc[t] = "departing" /\ pc'[t] = "away" => Head(Trains_Order) = t]_vars

\* The platform is given to one train at a time, in the order of the line.
PlatformInOrder == []PlatformExclusion /\ PlacesKept

\* Every train handed to the station gets to the platform, also when the
\* simulation is shut down while it waits (with one FB train: two that keep
\* coming can hold a regional train at the gate for ever).
EveryTrainStands == \A t \in Trains : pc[t] = "arriving" ~> pc[t] = "standing"
=============================================================================
