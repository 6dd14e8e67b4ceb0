---------------------------- MODULE Termination ----------------------------
(***************************************************************************)
(* Distributed termination: the Controller actor of the central controller   *)
(* (central_controller/src/CentralController.scala), the ticket office, the  *)
(* name server (name_server/src/Server.scala), and the end of each           *)
(* simulation node (railway/src/handlers.adb, main.adb).                     *)
(*                                                                         *)
(* The user asks for a stop; a first marker makes the office finish its      *)
(* requests and acknowledge; the controller then terminates every node on    *)
(* the name server's list, and when the last one has confirmed, sends the    *)
(* second marker and ends the name server.                                  *)
(***************************************************************************)
EXTENDS TicketOffice

CONSTANTS Nodes,
          Asker,      \* per request, the node that sends it
          MaxPresses, \* bound: how often the user presses Stop
          MayCrash    \* whether the name server may crash

ASSUME TerminationAssumption ==
    /\ Asker \in [Requests -> Nodes] /\ MaxPresses \in Nat /\ MayCrash \in BOOLEAN
    /\ Nodes \cap {"DistributedStop", "Continue", "Stop"} = {}

VARIABLES
    controller,    \* "react", "asking" in the loop of Continue, or "ended"
    toAsk,         \* the nodes of the list that loop has still to ask
    askedNodes, controllerBox,
    addresses,     \* the nodes bound at the name server
    node,          \* per node: "running", "stopping", "notified" or "closed"
    presses,
    crashed,       \* the name server crashed, before the controller told it to end
    stopped        \* history: the nodes that had been asked to terminate

controllerVars == <<controller, toAsk, askedNodes>>
nodeVars == <<node, stopped>>
user == <<presses, crashed>>
vars == <<officeVars, controllerVars, controllerBox, addresses, nodeVars, user>>

TypeOK ==
    /\ OfficeTypeOK
    /\ controller \in {"react", "asking", "ended"}
    /\ toAsk \subseteq Nodes /\ askedNodes \subseteq Nodes
    /\ controllerBox \in Seq({"DistributedStop", "Continue", "Stop"} \cup Nodes)
    /\ addresses \subseteq Nodes
    /\ node \in [Nodes -> {"running", "stopping", "notified", "closed"}]
    /\ presses \in 0..MaxPresses /\ crashed \in BOOLEAN /\ stopped \subseteq Nodes

Init ==
    /\ OfficeInit
    /\ controller = "react" /\ toAsk = {} /\ askedNodes = {} /\ controllerBox = <<>>
    /\ addresses = Nodes
    /\ node = [n \in Nodes |-> "running"]
    /\ presses = 0 /\ crashed = FALSE /\ stopped = {}

Post(m) == controllerBox' = Append(controllerBox, m)

(* Mutations of definitions below, for the runs that test the properties.     *)
DropAck == UNCHANGED controllerBox

\* The receiver thread of the controller passes each acknowledgement on.
PassAck == controllerBox' = IF acks' > acks THEN Append(controllerBox, "Continue")
                            ELSE controllerBox

\* The user presses Stop; the button stays enabled while the system terminates.
Press ==
    /\ presses < MaxPresses
    /\ presses' = presses + 1 /\ UNCHANGED crashed
    /\ Post("DistributedStop")
    /\ UNCHANGED <<officeVars, controllerVars, addresses, nodeVars>>
-----------------------------------------------------------------------------
(* Nodes.                                                                    *)

\* A traveller of node n asks the office, as long as the pool of n executes.
Ask_For_Ticket(r) ==
    /\ node[Asker[r]] \in {"running", "stopping"}
    /\ ResolveCall(r)
    /\ UNCHANGED <<controllerVars, controllerBox, addresses, nodeVars, user>>

\* The tasks of both pools have finished what they had; none waits for the office.
\* Notify_Termination follows.
Notify_Termination(n) ==
    /\ node[n] = "stopping"
    /\ \A r \in Requests : Asker[r] = n => ~Unreplied(r)
    /\ node' = [node EXCEPT ![n] = "notified"]
    /\ Post(n)
    /\ UNCHANGED <<officeVars, controllerVars, addresses, user, stopped>>

\* Name_Server_Interface.Remove, which a name server that is gone does not answer.
Remove(n) ==
    /\ node[n] = "notified"
    /\ node' = [node EXCEPT ![n] = "closed"]
    /\ addresses' = IF nameServer THEN addresses \ {n} ELSE addresses
    /\ UNCHANGED <<officeVars, controllerVars, controllerBox, user, stopped>>
-----------------------------------------------------------------------------
(* The Controller actor.                                                     *)

Handle(m) ==
    /\ controller = "react"
    /\ controllerBox # <<>> /\ Head(controllerBox) = m

DistributedStop ==
    /\ Handle("DistributedStop")
    /\ MarkerCall
    /\ controllerBox' = Tail(controllerBox)
    /\ UNCHANGED <<controllerVars, addresses, nodeVars, user, nameServer>>

ContinueAsks ==
    /\ Handle("Continue")
    /\ nameServer /\ addresses # {}
    /\ controller' = "asking"
    /\ toAsk' = addresses
    /\ controllerBox' = Tail(controllerBox)
    /\ UNCHANGED <<officeVars, askedNodes, addresses, nodeVars, user>>

\* No node to terminate: the second marker, then Stop.  getNodesList returns an
\* empty list also when the name server does not answer.
ContinueEmpty ==
    /\ Handle("Continue")
    /\ nameServer => addresses = {}
    /\ MarkerCall
    /\ controllerBox' = Append(Tail(controllerBox), "Stop")
    /\ UNCHANGED <<controllerVars, addresses, nodeVars, user, nameServer>>

\* One node of the list is told to terminate and replies: its pools and its
\* platforms are stopped.
AskNode(n) ==
    /\ controller = "asking" /\ n \in toAsk
    /\ node[n] # "closed"
    /\ toAsk' = toAsk \ {n}
    /\ askedNodes' = askedNodes \cup {n}
    /\ node' = [node EXCEPT ![n] = IF @ = "running" THEN "stopping" ELSE @]
    /\ stopped' = stopped \cup {n}
    /\ UNCHANGED <<officeVars, controller, controllerBox, addresses, user>>

\* A node that does not answer any more is not waited for.
AskNodeFails(n) ==
    /\ controller = "asking" /\ n \in toAsk
    /\ node[n] = "closed"
    /\ toAsk' = toAsk \ {n}
    /\ UNCHANGED <<officeVars, controller, askedNodes, controllerBox, addresses,
                   nodeVars, user>>

AllAsked ==
    /\ controller = "asking" /\ toAsk = {}
    /\ controller' = "react"
    /\ UNCHANGED <<officeVars, toAsk, askedNodes, controllerBox, addresses, nodeVars,
                   user>>

AllConfirmed(n) == askedNodes \ {n} = {}

NodeTerminated(n) ==
    /\ Handle(n)
    /\ ~AllConfirmed(n)
    /\ askedNodes' = askedNodes \ {n}
    /\ controllerBox' = Tail(controllerBox)
    /\ UNCHANGED <<officeVars, controller, toAsk, addresses, nodeVars, user>>

\* The last node: the second marker, then the name server is told to end.  The
\* actor does not react again, and leaves the Stop it sends itself unread.
LastNodeTerminated(n) ==
    /\ Handle(n)
    /\ AllConfirmed(n)
    /\ MarkerCall
    /\ askedNodes' = askedNodes \ {n}
    /\ nameServer' = FALSE
    /\ controller' = "ended"
    /\ controllerBox' = Append(Tail(controllerBox), "Stop")
    /\ UNCHANGED <<toAsk, addresses, nodeVars, user>>

Stop ==
    /\ Handle("Stop")
    /\ controller' = "ended"
    /\ controllerBox' = Tail(controllerBox)
    /\ UNCHANGED <<officeVars, toAsk, askedNodes, addresses, nodeVars, user>>
-----------------------------------------------------------------------------
NameServerCrash ==
    /\ MayCrash /\ nameServer
    /\ nameServer' = FALSE /\ crashed' = TRUE
    /\ UNCHANGED <<requestVars, controllerVars, controllerBox, addresses, nodeVars,
                   presses>>

\* Steps of the office; the controller receives what it acknowledges.
OfficeStep(A) ==
    /\ A
    /\ PassAck
    /\ UNCHANGED <<controllerVars, addresses, nodeVars, user>>

ControllerStep ==
    \/ DistributedStop \/ ContinueAsks \/ ContinueEmpty \/ AllAsked \/ Stop
    \/ \E n \in Nodes :
          AskNode(n) \/ AskNodeFails(n) \/ NodeTerminated(n) \/ LastNodeTerminated(n)

Next ==
    \/ Press
    \/ \E r \in Requests : Ask_For_Ticket(r)
    \/ OfficeStep(TestPending)
    \/ OfficeStep(ActorStep)
    \/ \E w \in Workers : OfficeStep(WorkerStep(w))
    \/ ControllerStep
    \/ \E n \in Nodes : Notify_Termination(n) \/ Remove(n)
    \/ NameServerCrash

Spec == Init /\ [][Next]_vars

\* Every actor goes on while it has a message, every thread and every node with
\* what it has begun; nobody has to press Stop, ask for a ticket or crash.
FairSpec ==
    /\ Spec
    /\ WF_vars(OfficeStep(TestPending))
    /\ WF_vars(OfficeStep(ActorStep))
    /\ \A w \in Workers : WF_vars(OfficeStep(WorkerStep(w)))
    /\ WF_vars(ControllerStep)
    /\ \A n \in Nodes : WF_vars(Notify_Termination(n)) /\ WF_vars(Remove(n))
-----------------------------------------------------------------------------
\* creationRequests is the number of requests that the actor has counted and
\* that no CreationRequestResolved has taken off again, over all interleavings
\* of the actor, its workers and the YAMI thread; those that are buffered, or
\* that a worker lost, stay in it.
RequestsCounted ==
    creationRequests = Cardinality({r \in Requests : request[r] \in Stages \
                                        {"none", "sent", "done"}})

\* Once a node has been asked to terminate, the office has no ticket request in
\* progress: the tickets it still makes find the nodes they need
\* (entity_interaction_termination.tex l.11, the purpose of the first marker).  The
\* request that was dispatched in an early race escapes it (TestPending).
NoTicketInProgress ==
    stopped # {} /\ race # "early" => \A r \in Requests : ~InProgress(r)

\* The office is stopped, by the second marker, only once every node that was
\* bound has confirmed its end (CentralController.scala l.311), if the user pressed
\* Stop once and the name server did not crash before.
OfficeStopsLast ==
    presses = 1 /\ ~crashed /\
    (actor = "stopped" \/ \E i \in DOMAIN mailbox : mailbox[i].kind = "Stop") =>
        \A n \in Nodes : node[n] \in {"notified", "closed"}

\* The parts of the system are stopped in their order, and none while it is needed.
ShutdownInOrder == RequestsCounted /\ NoTicketInProgress /\ OfficeStopsLast

Ended == actor = "stopped" /\ controller = "ended" /\ \A n \in Nodes : node[n] = "closed"

\* A stop that the user asks for ends every part of the system.
Terminates == (presses > 0) ~> Ended

\* It does so unless a request was buffered, which creationRequests then counts
\* for ever, the office acknowledged twice, or not at all as its thread and its actor
\* missed each other, the user pressed twice, or the name server crashed.
Undisturbed == queue = <<>> /\ acks <= 1 /\ race # "missed" /\ presses <= 1 /\ ~crashed
TerminatesUndisturbed == <>(presses > 0) /\ []Undisturbed => <>Ended
=============================================================================
