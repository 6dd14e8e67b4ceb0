-------------------------- MODULE GatewayTransfer --------------------------
(***************************************************************************)
(* The passage of trains between the nodes of the simulation: the tasks of   *)
(* each node's train pool (railway/src/train_pool.adb), the gateway stations *)
(* that are parts of one station on several nodes (gateway_station.adb), the *)
(* synchronous messages "train_transfer" and "train_left_platfrom"           *)
(* (remote_station_interface.adb, message_agent.adb) and the dispatcher      *)
(* threads that handle them (handlers.adb).                                  *)
(*                                                                         *)
(* A train stands at the same platform on both nodes from its transfer until *)
(* it leaves.  Platforms are as Station shows them, an order in which trains *)
(* take their turn; segments, gates and travellers have modules of their own.*)
(***************************************************************************)
EXTENDS Integers, Sequences, SequencesExt, FiniteSets, FiniteSetsExt

CONSTANTS
    Nodes, Trains,
    Platforms,    \* of all stations of a node
    Gateways,     \* those of the gateway station, the same on each node
    Route,        \* [Trains -> Seq of stages]: [node, start, next], platforms
    Tasks,        \* tasks in the pool of a node
    Dispatchers,  \* [Nodes -> number of dispatcher threads] (5 in message_agent.adb)
    MaxLost       \* bound: messages or replies that are lost

GatewayAssumption ==
    /\ IsFiniteSet(Trains) /\ Gateways \subseteq Platforms
    /\ Route \in [Trains -> Seq([node : Nodes, start : Platforms, next : Platforms])]
    /\ \A t \in Trains : Route[t] # <<>>
    /\ Tasks \in Nat \ {0} /\ Dispatchers \in [Nodes -> Nat \ {0}] /\ MaxLost \in Nat

VARIABLES
    stage,    \* Next_Stage of each train as each node has it
    order,    \* Trains_Order of each platform
    pool,     \* the queue of descriptors of each node
    stopped,  \* the node was told to terminate
    task,     \* where the task is that executes the train on the node
    sending,  \* number of tasks that sent their train away and wait for the reply
    inbox,    \* messages received and not yet dispatched
    handling, \* what the busy dispatcher threads do: [id, m, at]
    lost      \* bound and history: messages and replies lost so far

vars == <<stage, order, pool, stopped, task, sending, inbox, handling, lost>>

Messages ==
    {m \in [kind : {"transfer", "left"}, from : Nodes, train : Trains, stage : Nat \ {0},
            platform : Platforms, by : Nat, awaited : BOOLEAN] :
        m.stage <= Len(Route[m.train])}

Handlers ==
    {h \in [id : Nat \ {0}, m : Messages, at : {"transfer", "left", "telling", "reply"}] :
        h.at = "transfer" => h.m.kind = "transfer"}

TypeOK ==
    /\ stage \in [Nodes -> [Trains -> Nat \ {0}]]
    /\ \A n \in Nodes, t \in Trains : stage[n][t] <= Len(Route[t])
    /\ order \in [Nodes -> [Platforms -> Seq(Trains)]]
    /\ pool \in [Nodes -> Seq(Trains)]
    /\ stopped \in [Nodes -> BOOLEAN]
    /\ task \in [Nodes -> [Trains -> {"none", "depart", "telling", "segment", "enter"}]]
    /\ sending \in [Nodes -> Int]
    /\ inbox \in [Nodes -> Seq(Messages)]
    /\ handling \in [Nodes -> SUBSET Handlers]
    /\ \A n \in Nodes : IsFiniteSet(handling[n])
    /\ lost \in Nat

\* Trains are put into the queue of the node they start on, wherever they stand
\* (Perform_Initializations_Handler): no platform knows of them yet.
Init ==
    /\ stage = [n \in Nodes |-> [t \in Trains |-> 1]]
    /\ order = [n \in Nodes |-> [p \in Platforms |-> <<>>]]
    /\ pool = [n \in Nodes |-> SetToSeq({t \in Trains : Route[t][1].node = n})]
    /\ stopped = [n \in Nodes |-> FALSE]
    /\ task = [n \in Nodes |-> [t \in Trains |-> "none"]]
    /\ sending = [n \in Nodes |-> 0]
    /\ inbox = [n \in Nodes |-> <<>>]
    /\ handling = [n \in Nodes |-> {}]
    /\ lost = 0

-----------------------------------------------------------------------------
Stage(n, t) == Route[t][stage[n][t]]

\* The task moves on; when it is done with the train it is free for another.
GoOn(n, t, where) == task' = [task EXCEPT ![n][t] = where]
Busy(n) == Cardinality({t \in Trains : task[n][t] # "none"}) + sending[n]

\* The node that sent the train here, if one did.
FromElsewhere(n, t) == stage[n][t] > 1 /\ Route[t][stage[n][t] - 1].node # n
Previous(n, t) == Route[t][stage[n][t] - 1].node

ToElsewhere(n, t) == /\ stage[n][t] < Len(Route[t])
                     /\ Route[t][stage[n][t] + 1].node # n

-----------------------------------------------------------------------------
(* Mutations of definitions below, for the runs that test the properties.     *)
AnyTurn(n, p, t) == TRUE
OnlyTurn(n, p, t) == order[n][p] # <<>> /\ Head(order[n][p]) = t
RunsOn(n, t) == pool' = [pool EXCEPT ![n] = Append(@, t)]
FreedLater(q) == q

-----------------------------------------------------------------------------
(* Platforms.                                                                *)

HasTurn(n, p, t) == stopped[n] \/ (order[n][p] # <<>> /\ Head(order[n][p]) = t)

Join(n, p, t) == order' = [order EXCEPT ![n][p] = Append(@, t)]

\* The first train is taken out, whichever it is; of an empty queue none.
Freed(q) == IF q = <<>> THEN q ELSE Tail(q)
Leave(n, p) == order' = [order EXCEPT ![n][p] = Freed(@)]

-----------------------------------------------------------------------------
(* Messages.  The sender waits for the reply.                                 *)

\* "by": the dispatcher thread that sends it, 0 for a task; "awaited": the reply is.
Message(kind, n, t, platform, by) ==
    [kind |-> kind, from |-> n, train |-> t, stage |-> stage'[n][t], platform |-> platform,
     by |-> by, awaited |-> TRUE]

Sent(m, to) == inbox' = [inbox EXCEPT ![to] = Append(@, m)]

-----------------------------------------------------------------------------
(* A task of the pool, with the train it got.                                *)

Dequeue(n) ==
    /\ ~stopped[n] /\ pool[n] # <<>>
    /\ Busy(n) < Tasks
    /\ GoOn(n, Head(pool[n]), "depart")
    /\ pool' = [pool EXCEPT ![n] = Tail(@)]
    /\ UNCHANGED <<stage, order, stopped, sending, inbox, handling, lost>>

\* It is time to go; from a gateway station, the node the train came from is told.
Depart(n, t) ==
    /\ task[n][t] = "depart"
    /\ Leave(n, Stage(n, t).start)
    /\ UNCHANGED stage
    /\ IF Stage(n, t).start \in Gateways /\ FromElsewhere(n, t)
       THEN /\ Sent(Message("left", n, t, Stage(n, t).start, 0), Previous(n, t))
            /\ GoOn(n, t, "telling")
       ELSE GoOn(n, t, "segment") /\ UNCHANGED inbox
    /\ UNCHANGED <<pool, stopped, sending, handling, lost>>

\* Off the segment; the access controller and the gate let it join the queue.
Arrive(n, t) ==
    /\ task[n][t] = "segment"
    /\ Join(n, Stage(n, t).next, t)
    /\ GoOn(n, t, "enter")
    /\ UNCHANGED <<stage, pool, stopped, sending, inbox, handling, lost>>

Enter(n, t) == task[n][t] = "enter" /\ HasTurn(n, Stage(n, t).next, t)

\* Stop_Train_Execution: the descriptor is not put back.
StopExecution(n, t) == UNCHANGED pool

\* To the next stage, here or on the next node.
NextStage(n, t) ==
    /\ Enter(n, t)
    /\ ~(Stage(n, t).next \in Gateways /\ ToElsewhere(n, t))
    /\ stage' = [stage EXCEPT ![n][t] = IF @ = Len(Route[t]) THEN 1 ELSE @ + 1]
    /\ pool' = [pool EXCEPT ![n] = Append(@, t)]
    /\ GoOn(n, t, "none")
    /\ UNCHANGED <<order, stopped, sending, inbox, handling, lost>>

SendTrain(n, t) ==
    /\ Enter(n, t)
    /\ Stage(n, t).next \in Gateways /\ ToElsewhere(n, t)
    /\ stage' = [stage EXCEPT ![n][t] = @ + 1]
    /\ Sent(Message("transfer", n, t, Stage(n, t).next, 0), Route[t][stage[n][t] + 1].node)
    /\ sending' = [sending EXCEPT ![n] = @ + 1]
    /\ GoOn(n, t, "none")
    /\ UNCHANGED <<order, pool, stopped, handling, lost>>

-----------------------------------------------------------------------------
(* The dispatcher threads.                                                   *)

MoveTo(n, h, where) == handling' = [handling EXCEPT ![n] = (@ \ {h}) \cup {[h EXCEPT !.at = where]}]

\* The train's data are updated, and it queues for its platform.
TransferHandler(n, m) ==
    /\ stage' = [stage EXCEPT ![n][m.train] = m.stage]
    /\ Join(n, m.platform, m.train)

\* The platform the train left on this node too is freed.
LeftHandler(n, m) == Leave(n, m.platform) /\ UNCHANGED stage

FreeDispatcher(n) == Min((1 .. Dispatchers[n]) \ {h.id : h \in handling[n]})

Dispatch(n) ==
    /\ inbox[n] # <<>> /\ Cardinality(handling[n]) < Dispatchers[n]
    /\ inbox' = [inbox EXCEPT ![n] = Tail(@)]
    /\ LET m == Head(inbox[n])
       IN /\ IF m.kind = "transfer" THEN TransferHandler(n, m) ELSE LeftHandler(n, m)
          /\ handling' = [handling EXCEPT ![n] = @ \cup {[id |-> FreeDispatcher(n), m |-> m, at |-> m.kind]}]
    /\ UNCHANGED <<pool, stopped, task, sending, lost>>

\* A reply that nobody waits for has no effect, and is not shown.
ToReply(hs) == {h \in hs : h.at = "reply" => h.m.awaited}

\* Occupy_Platform, then Associate.
Occupy(n, h) ==
    /\ h.at = "transfer"
    /\ HasTurn(n, h.m.platform, h.m.train)
    /\ pool' = [pool EXCEPT ![n] = Append(@, h.m.train)]
    /\ handling' = [handling EXCEPT ![n] = (@ \ {h}) \cup ToReply({[h EXCEPT !.at = "reply"]})]
    /\ UNCHANGED <<stage, order, stopped, task, sending, inbox, lost>>

\* The sender has its answer: it goes on, or gives the train up.
Answered(m) ==
    IF m.by # 0 \/ ~m.awaited THEN UNCHANGED <<task, pool, sending>>
    ELSE IF m.kind = "transfer"
    THEN sending' = [sending EXCEPT ![m.from] = @ - 1] /\ StopExecution(m.from, m.train) /\ UNCHANGED task
    ELSE GoOn(m.from, m.train, "segment") /\ UNCHANGED <<pool, sending>>

WaitingFor(m) == {h \in handling[m.from] : h.at = "telling" /\ h.id = m.by}

Finish(n, h) ==
    /\ Answered(h.m)
    /\ handling' = [k \in Nodes |->
          {IF k = h.m.from /\ w \in WaitingFor(h.m) THEN [w EXCEPT !.at = "reply"] ELSE w :
             w \in handling[k] \ (IF k = n THEN {h} ELSE {})}]

Reply(n, h) ==
    /\ h.at = "reply"
    /\ Finish(n, h)
    /\ UNCHANGED <<stage, order, stopped, inbox, lost>>

\* The rest of Gateway_Station.Leave, with the stage that this node has by now.
PassOn(n, h) ==
    LET t == h.m.train
    IN /\ h.at = "left"
       /\ UNCHANGED <<stage, order, stopped, lost>>
       /\ IF FromElsewhere(n, t)
          THEN /\ Sent(Message("left", n, t, h.m.platform, h.id), Previous(n, t))
               /\ MoveTo(n, h, "telling")
               /\ UNCHANGED <<pool, task, sending>>
          ELSE Finish(n, h) /\ UNCHANGED inbox

-----------------------------------------------------------------------------
(* A name that is not resolved, an exception of the send, a rejected message or a
   broken connection: the sender goes on as if it had the answer.  The message
   may have been received all the same.  Those that handlers send are not lost. *)

Orphan(m) == [m EXCEPT !.awaited = FALSE]

LoseMessage(n) ==
    /\ lost < MaxLost /\ lost' = lost + 1
    /\ \E i \in DOMAIN inbox[n] :
         /\ inbox[n][i].by = 0 /\ inbox[n][i].awaited
         /\ Answered(inbox[n][i])
         /\ \/ inbox' = [inbox EXCEPT ![n] = RemoveAt(@, i)]
            \/ inbox' = [inbox EXCEPT ![n][i] = Orphan(@)]
    /\ UNCHANGED <<stage, order, stopped, handling>>

LoseReply(n, h) ==
    /\ lost < MaxLost /\ lost' = lost + 1
    /\ h.m.by = 0 /\ h.m.awaited
    /\ Answered(h.m)
    /\ handling' = [handling EXCEPT ![n] = (@ \ {h}) \cup ToReply({[h EXCEPT !.m = Orphan(@)]})]
    /\ UNCHANGED <<stage, order, stopped, inbox>>

\* Termination_Handler: the pool is stopped and every platform opened.
Terminate(n) ==
    /\ ~stopped[n]
    /\ stopped' = [stopped EXCEPT ![n] = TRUE]
    /\ UNCHANGED <<stage, order, pool, task, sending, inbox, handling, lost>>

-----------------------------------------------------------------------------
TaskStep(n, t) ==
    \/ Depart(n, t) \/ Arrive(n, t) \/ NextStage(n, t) \/ SendTrain(n, t)

HandlerStep(n) == \E h \in handling[n] : Occupy(n, h) \/ PassOn(n, h) \/ Reply(n, h)

Next ==
    \E n \in Nodes :
        \/ Dequeue(n) \/ Dispatch(n) \/ HandlerStep(n)
        \/ \E t \in Trains : TaskStep(n, t)
        \/ LoseMessage(n) \/ \E h \in handling[n] : LoseReply(n, h)
        \/ Terminate(n)

\* A step of a handler of a message about the train.
HandlerStepFor(n, t) ==
    \E h \in handling[n] : h.m.train = t /\ (Occupy(n, h) \/ PassOn(n, h) \/ Reply(n, h))

\* Threads run; a dispatcher may be busy with one message while another waits.
Fairness ==
    \A n \in Nodes :
        /\ WF_vars(Dequeue(n)) /\ WF_vars(Dispatch(n))
        /\ \A t \in Trains : WF_vars(TaskStep(n, t)) /\ WF_vars(HandlerStepFor(n, t))

Spec == Init /\ [][Next]_vars /\ Fairness

-----------------------------------------------------------------------------
(* Properties.                                                               *)

Transfers(n, t) ==
    {i \in DOMAIN inbox[n] : inbox[n][i].kind = "transfer" /\ inbox[n][i].train = t}
Occupying(n, t) == {h \in handling[n] : h.at = "transfer" /\ h.m.train = t}
Executing(n, t) == task[n][t] # "none"

\* What holds the train: a pool's queue, a task, a message or its handler.
Holders(n, t) ==
    Cardinality({i \in DOMAIN pool[n] : pool[n][i] = t}) + Cardinality(Transfers(n, t))
    + Cardinality(Occupying(n, t)) + (IF Executing(n, t) THEN 1 ELSE 0)

\* No train runs on two nodes, or twice on one, whichever messages and answers are
\* lost (Send_Train, Station_Train_Transfer_Handler).
OneExecutor ==
    \A t \in Trains :
        /\ \A n, k \in Nodes : n # k /\ Holders(n, t) > 0 => Holders(k, t) = 0
        /\ \A n \in Nodes : Holders(n, t) <= 1

Undisturbed == lost = 0 /\ \A n \in Nodes : ~stopped[n]

FirstAt(n, p, t) == order[n][p] # <<>> /\ Head(order[n][p]) = t

\* On its way to another node, or there and still at the gateway's platform.
Standing(n, t) == \/ \E i \in DOMAIN pool[n] : pool[n][i] = t
                  \/ task[n][t] = "depart"
                  \/ Occupying(n, t) # {}

\* As long as no message is lost and no node stops: a train that was sent to another
\* node keeps its platform here, first in the order, until it has left the platform
\* there and said so; it is the train whose platform that message frees
\* (Gateway_Station.Leave, Station_Train_Transfer_Left_Handler).
PlatformsPaired ==
    Undisturbed =>
        \A n \in Nodes, t \in Trains :
            /\ \A i \in Transfers(n, t) : FirstAt(inbox[n][i].from, inbox[n][i].platform, t)
            /\ Standing(n, t) /\ FromElsewhere(n, t) => FirstAt(Previous(n, t), Stage(n, t).start, t)
            /\ \A i \in DOMAIN inbox[n] :
                 inbox[n][i].kind = "left" /\ inbox[n][i].train = t => FirstAt(n, inbox[n][i].platform, t)

\* Undisturbed, every train runs through all its stages again and again: neither
\* the platforms of two nodes, nor the tasks, nor the dispatchers that block on
\* platforms, bring the trains to wait for each other for ever.
EveryTrainRuns ==
    []Undisturbed =>
        \A t \in Trains : []<>(stage[Route[t][1].node][t] = 1 /\ task[Route[t][1].node][t] = "depart")

\* Once all nodes are told to terminate, every task ends, also with lost messages.
EveryTaskEnds ==
    (\A n \in Nodes : stopped[n]) ~> \A n \in Nodes : Busy(n) = 0

=============================================================================
