----------------------------- MODULE MCStations -----------------------------
(* What happens at the stations: travellers who board and alight, trains that come to
   one platform, and trains that pass from one node to another over the platforms of
   the gateway.  The parts share no state; a behaviour is one of one of them, and all
   are explored in one run. *)
EXTENDS MCBoarding

CONSTANTS f1, r1, r2, s1, s2

VARIABLES
    part,                                                    \* the part that runs
    gateFree, fbQueue, regionalQueue, gate, pc, via, Access_Order, waitQ, Trains_Waiting,
    Can_Access, Trains_Order, enterQ, retryQ, Retry_Count, Can_Retry, Terminated, Stopped,
    ahead,                                                              \* Platform
    stage, order, pool, stopped, task, sending, inbox, handling, lost   \* Transfer

boardingVars == vars
platformVars ==
    <<gateFree, fbQueue, regionalQueue, gate, pc, via, Access_Order, waitQ, Trains_Waiting,
      Can_Access, Trains_Order, enterQ, retryQ, Retry_Count, Can_Retry, Terminated, Stopped,
      ahead>>
transferVars == <<stage, order, pool, stopped, task, sending, inbox, handling, lost>>
allVars == <<part, boardingVars, platformVars, transferVars>>

-----------------------------------------------------------------------------
(* A platform: an FB train and two regional ones come through two segments.   *)

Comers == {f1, r1, r2}

Platform == INSTANCE Station WITH Trains <- Comers, FB <- {f1}, Segments <- {s1, s2}

-----------------------------------------------------------------------------
(* Two nodes and the gateway between them: platform "ab" is for trains from the first
   node to the second, "ba" for those back, as in src/configuration. *)

S(node, begin, next) == [node |-> node, start |-> begin, next |-> next]

(* A train of each node; both nodes have a station "s" with one platform that both
   trains use.  The second starts at the gateway station, as route 3 does. *)
TransferRoute ==
    ("t1" :> <<S("A", "home", "ab"), S("B", "ab", "s"), S("B", "s", "ba"), S("A", "ba", "home")>>) @@
    ("t2" :> <<S("B", "bb", "s"), S("B", "s", "ba"), S("A", "ba", "s"),
               S("A", "s", "ab"), S("B", "ab", "bb")>>)

\* One thread where one is enough for a message to block behind it, two where a
\* handler can fall behind the next message.
TransferDispatchers == ("A" :> 2) @@ ("B" :> 1)

Transfer == INSTANCE GatewayTransfer WITH
    Nodes <- {"A", "B"}, Trains <- {"t1", "t2"}, Platforms <- {"ab", "ba", "s", "home", "bb"},
    Gateways <- {"ab", "ba", "bb"}, Route <- TransferRoute, Tasks <- 2,
    Dispatchers <- TransferDispatchers, MaxLost <- 1

ASSUME PartsAssumption == Transfer!GatewayAssumption

-----------------------------------------------------------------------------
(* One part runs. *)

Runs(p) == part = p

MCInit ==
    /\ part \in {"boarding", "platform", "transfer"}
    /\ Init /\ Platform!Init /\ Transfer!Init

MCNext ==
    /\ UNCHANGED part
    /\ \/ Runs("boarding") /\ Next /\ UNCHANGED <<platformVars, transferVars>>
       \/ Runs("platform") /\ Platform!Next /\ UNCHANGED <<boardingVars, transferVars>>
       \/ Runs("transfer") /\ Transfer!Next /\ UNCHANGED <<boardingVars, platformVars>>

\* Each part is fair to the actions that its module is fair to (Station!Fairness and
\* GatewayTransfer!Fairness); they name the part, so that TLC asks nothing of the others.
PlatformFairness ==
    /\ WF_platformVars(Runs("platform") /\ Platform!PassGate)
    /\ WF_platformVars(Runs("platform") /\ Platform!ServePlatform)
    /\ WF_platformVars(Runs("platform") /\ Platform!Terminate_Platform)
    /\ \A s \in {s1, s2} : WF_platformVars(Runs("platform") /\ Platform!AccessWait(s))
    /\ \A t \in Comers : SF_platformVars(Runs("platform") /\ Platform!TrainStep(t))

TransferFairness ==
    \A n \in {"A", "B"} :
        /\ WF_transferVars(Runs("transfer") /\ Transfer!Dequeue(n))
        /\ WF_transferVars(Runs("transfer") /\ Transfer!Dispatch(n))
        /\ \A t \in {"t1", "t2"} :
             /\ WF_transferVars(Runs("transfer") /\ Transfer!TaskStep(n, t))
             /\ WF_transferVars(Runs("transfer") /\ Transfer!HandlerStepFor(n, t))

\* What must happen in a part is a property of its behaviours that are fair to it.
MCSpec == MCInit /\ [][MCNext]_allVars

\* The state of the part that runs.
View ==
    CASE Runs("boarding") -> <<part, boardingVars>>
      [] Runs("platform") -> <<part, platformVars>>
      [] Runs("transfer") -> <<part, transferVars>>

-----------------------------------------------------------------------------
(* The properties of the platform. *)

\* The platform is given to one train at a time, in order (Station).
PlatformInOrder == Platform!PlatformInOrder

\* Every train that comes gets to the platform (Station).
EveryTrainStands == Runs("platform") /\ PlatformFairness => Platform!EveryTrainStands

-----------------------------------------------------------------------------
(* The properties of the transfer. *)

\* A train is executed by one task of one node (GatewayTransfer).
OneExecutor == Transfer!OneExecutor

\* Both nodes agree on who stands first at a platform (GatewayTransfer).
PlatformsPaired == Transfer!PlatformsPaired

\* Undisturbed, every train goes round again and again (GatewayTransfer).
EveryTrainRuns == Runs("transfer") /\ TransferFairness => Transfer!EveryTrainRuns

\* Once the nodes are told to stop, every task ends (GatewayTransfer).
EveryTaskEnds == Runs("transfer") /\ TransferFairness => Transfer!EveryTaskEnds
=============================================================================
