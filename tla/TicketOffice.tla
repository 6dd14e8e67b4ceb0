---------------------------- MODULE TicketOffice ----------------------------
(***************************************************************************)
(* The central ticket office as it takes ticket requests and is shut down    *)
(* (central_ticket_office/src): the actor MessagesReceiver with its mailbox, *)
(* the thread of the YAMI agent that runs MessagesReceiver.call, and the     *)
(* TicketCreator actors of PathResolver.scala.  Termination composes it with *)
(* the controller, the nodes and the name server.                            *)
(*                                                                         *)
(* The actor and the YAMI thread share markerReceived and creationRequests   *)
(* without synchronisation, and neither takes a lock between its write of    *)
(* one and its read of the other.  With StaleReads, a read in that stretch   *)
(* may return the value before the other's write, which is still on its way; *)
(* without it every read returns the last value written.                    *)
(* What a ticket is, and whether the answer is a ticket or an error, makes   *)
(* no difference here.                                                       *)
(***************************************************************************)
EXTENDS Naturals, Sequences, FiniteSets

CONSTANTS Requests,    \* the ticket requests that reach the office
          Workers,     \* the TicketCreator actors
          StaleReads,  \* whether racing reads may return old values
          None         \* no request

ASSUME OfficeAssumption ==
    /\ StaleReads \in BOOLEAN
    /\ None \notin Requests /\ IsFiniteSet(Workers)

VARIABLES
    request,   \* how far each request has come
    mailbox,   \* of the actor
    actor,     \* "react"; inside the handler of resolve: "counting", and once it has
               \* read the marker "buffering" or "dispatching"; inside the one of
               \* CreationRequestResolved: "resolving", then "acknowledging" or
               \* "returning"; "stopped"
    current,   \* the request whose handler the actor runs
    yami,      \* "idle", or "marking" inside the handler of a marker
    markerReceived, creationRequests,
    queue,     \* the requests buffered since the marker
    asyncTasks, waitingTicketCreationWorkers,
    task,      \* per worker: its request, or None
    worker,    \* per worker: "react", "answered" or "dead"
    nodesAddresses,  \* the workers that have the list of the nodes
    nameServer,      \* whether the name server runs
    acks,            \* acknowledgements sent to the controller
    race             \* history: how actor and thread passed each other unseen at the
                     \* marker, "early", "missed" or "none" (TestPending)

sharedVars == <<markerReceived, creationRequests>>
dispatchVars == <<asyncTasks, waitingTicketCreationWorkers>>
workerVars == <<task, worker, nodesAddresses>>
requestVars == <<request, mailbox, actor, current, yami, sharedVars, queue,
                 dispatchVars, workerVars, acks, race>>
officeVars == <<requestVars, nameServer>>

Stages == {"none", "sent", "counted", "buffered", "dispatched", "queued",
           "working", "answered", "lost", "done"}

\* Messages of the mailbox; a kind that carries no request carries a worker or None.
Messages ==
    [kind : {"resolve", "Dispatch", "CreationRequestResolved"}, of : Requests]
    \cup [kind : {"RequestAsynchTask"}, of : Workers]
    \cup [kind : {"Stop"}, of : {None}]

OfficeTypeOK ==
    /\ request \in [Requests -> Stages]
    /\ mailbox \in Seq(Messages)
    /\ actor \in {"react", "counting", "buffering", "dispatching",
                  "resolving", "acknowledging", "returning", "stopped"}
    /\ current \in Requests \cup {None}
    /\ yami \in {"idle", "marking"}
    /\ markerReceived \in BOOLEAN /\ creationRequests \in Nat
    /\ queue \in Seq(Requests) /\ asyncTasks \in Seq(Requests)
    /\ waitingTicketCreationWorkers \in Seq(Workers)
    /\ task \in [Workers -> Requests \cup {None}]
    /\ worker \in [Workers -> {"react", "answered", "dead"}]
    /\ nodesAddresses \subseteq Workers
    /\ nameServer \in BOOLEAN /\ acks \in Nat
    /\ race \in {"none", "early", "missed"}

OfficeInit ==
    /\ request = [r \in Requests |-> "none"]
    /\ mailbox = <<>> /\ actor = "react" /\ current = None /\ yami = "idle"
    /\ markerReceived = FALSE /\ creationRequests = 0
    /\ queue = <<>> /\ asyncTasks = <<>>
    /\ waitingTicketCreationWorkers \in
          {s \in [1..Cardinality(Workers) -> Workers] :
              \A i, j \in DOMAIN s : s[i] = s[j] => i = j}
    /\ task = [w \in Workers |-> None]
    /\ worker = [w \in Workers |-> "react"]
    /\ nodesAddresses = {}
    /\ nameServer = TRUE /\ acks = 0 /\ race = "none"

Message(k, x) == [kind |-> k, of |-> x]
MoveTo(r, stage) == request' = [request EXCEPT ![r] = stage]

\* The actor takes the first message of its mailbox, if it is of kind k.
Receive(k) ==
    /\ actor = "react"
    /\ mailbox # <<>> /\ Head(mailbox).kind = k

\* The marker as the actor reads it.  The write of the thread is on its way while the
\* thread has not gone on; an actor that acknowledged has seen it.
MarkerRead ==
    {markerReceived} \cup IF StaleReads /\ yami = "marking" /\ acks = 0 THEN {FALSE} ELSE {}

Counting == actor \in {"counting", "buffering", "dispatching"}
Resolving == actor \in {"resolving", "acknowledging", "returning"}

\* The number of requests as the thread reads it; the last write of the actor is on
\* its way while the actor has not left its handler.
CountRead ==
    {creationRequests} \cup
    CASE StaleReads /\ Counting  -> {creationRequests - 1}
      [] StaleReads /\ Resolving -> {creationRequests + 1}
      [] OTHER -> {}
-----------------------------------------------------------------------------
(* Mutations of definitions below, for the runs that test the properties.     *)
AlwaysNone(count) == TRUE
-----------------------------------------------------------------------------
(* MessagesReceiver.call, in the thread of the YAMI agent.                   *)

ResolveCall(r) ==
    /\ yami = "idle"
    /\ request[r] = "none"
    /\ MoveTo(r, "sent")
    /\ mailbox' = Append(mailbox, Message("resolve", r))
    /\ UNCHANGED <<actor, current, yami, sharedVars, queue, dispatchVars,
                   workerVars, nameServer, acks, race>>

\* A first marker is remembered, a second one stops the actor.  The reply has
\* been sent already.
MarkerCall ==
    /\ yami = "idle"
    /\ \/ /\ markerReceived
          /\ mailbox' = Append(mailbox, Message("Stop", None))
          /\ UNCHANGED <<yami, markerReceived>>
       \/ /\ ~markerReceived
          /\ markerReceived' = TRUE
          /\ yami' = "marking"
          /\ UNCHANGED mailbox
    /\ UNCHANGED <<request, actor, current, creationRequests, queue, dispatchVars,
                   workerVars, acks, race>>

NonePending(count) == count = 0

\* Then the thread looks whether requests are pending.  The race is early when it
\* acknowledges although the actor has found no marker and dispatches a request, and
\* missed when it leaves the acknowledgement to an actor that found no marker either.
TestPending ==
    /\ yami = "marking"
    /\ yami' = "idle"
    /\ \E count \in CountRead :
          \/ /\ NonePending(count)
             /\ acks' = acks + 1
             /\ race' = IF actor = "dispatching" THEN "early" ELSE race
          \/ /\ ~NonePending(count)
             /\ acks' = acks
             /\ race' = IF actor = "returning" /\ creationRequests = 0 THEN "missed" ELSE race
    /\ UNCHANGED <<request, mailbox, actor, current, sharedVars, queue, dispatchVars,
                   workerVars, nameServer>>
-----------------------------------------------------------------------------
(* MessagesReceiver.mainLoop.                                                *)

CountRequest == creationRequests' = creationRequests + 1
RequestResolved == creationRequests' = creationRequests - 1

ReceiveResolve ==
    /\ Receive("resolve")
    /\ CountRequest
    /\ current' = Head(mailbox).of
    /\ MoveTo(Head(mailbox).of, "counted")
    /\ actor' = "counting"
    /\ mailbox' = Tail(mailbox)
    /\ UNCHANGED <<yami, markerReceived, queue, dispatchVars, workerVars, nameServer,
                   acks, race>>

\* The actor reads the marker.
TestMarker ==
    /\ \E marker \in MarkerRead :
          \/ actor = "counting" /\ actor' = IF marker THEN "buffering" ELSE "dispatching"
          \/ actor = "resolving" /\ actor' = IF marker THEN "acknowledging" ELSE "returning"
    /\ UNCHANGED <<request, mailbox, current, yami, sharedVars, queue, dispatchVars,
                   workerVars, nameServer, acks, race>>

BufferOrDispatch ==
    /\ \/ /\ actor = "buffering"
          /\ MoveTo(current, "buffered")
          /\ queue' = Append(queue, current)
          /\ UNCHANGED mailbox
       \/ /\ actor = "dispatching"
          /\ MoveTo(current, "dispatched")
          /\ mailbox' = Append(mailbox, Message("Dispatch", current))
          /\ UNCHANGED queue
    /\ actor' = "react" /\ current' = None
    /\ UNCHANGED <<yami, sharedVars, dispatchVars, workerVars, nameServer, acks, race>>

ReceiveDispatch ==
    LET r == Head(mailbox).of IN
    /\ Receive("Dispatch")
    /\ mailbox' = Tail(mailbox)
    /\ \/ /\ waitingTicketCreationWorkers # <<>>
          /\ task' = [task EXCEPT ![Head(waitingTicketCreationWorkers)] = r]
          /\ waitingTicketCreationWorkers' = Tail(waitingTicketCreationWorkers)
          /\ MoveTo(r, "working")
          /\ UNCHANGED asyncTasks
       \/ /\ waitingTicketCreationWorkers = <<>>
          /\ asyncTasks' = Append(asyncTasks, r)
          /\ MoveTo(r, "queued")
          /\ UNCHANGED <<task, waitingTicketCreationWorkers>>
    /\ UNCHANGED <<actor, current, yami, sharedVars, queue, worker, nodesAddresses,
                   nameServer, acks, race>>

ReceiveRequestAsynchTask ==
    LET w == Head(mailbox).of IN
    /\ Receive("RequestAsynchTask")
    /\ mailbox' = Tail(mailbox)
    /\ \/ /\ asyncTasks # <<>>
          /\ task' = [task EXCEPT ![w] = Head(asyncTasks)]
          /\ asyncTasks' = Tail(asyncTasks)
          /\ MoveTo(Head(asyncTasks), "working")
          /\ UNCHANGED waitingTicketCreationWorkers
       \/ /\ asyncTasks = <<>>
          /\ waitingTicketCreationWorkers' = Append(waitingTicketCreationWorkers, w)
          /\ UNCHANGED <<task, asyncTasks, request>>
    /\ UNCHANGED <<actor, current, yami, sharedVars, queue, worker, nodesAddresses,
                   nameServer, acks, race>>

ReceiveCreationRequestResolved ==
    /\ Receive("CreationRequestResolved")
    /\ RequestResolved
    /\ MoveTo(Head(mailbox).of, "done")
    /\ actor' = "resolving"
    /\ mailbox' = Tail(mailbox)
    /\ UNCHANGED <<current, yami, markerReceived, queue, dispatchVars, workerVars,
                   nameServer, acks, race>>

AckWhenLast ==
    /\ actor \in {"acknowledging", "returning"}
    /\ actor' = "react"
    /\ acks' = IF actor = "acknowledging" /\ NonePending(creationRequests)
               THEN acks + 1 ELSE acks
    /\ UNCHANGED <<request, mailbox, current, yami, sharedVars, queue, dispatchVars,
                   workerVars, nameServer, race>>

\* The workers get a Stop, which they take after the request they have.
ReceiveStop ==
    /\ Receive("Stop")
    /\ actor' = "stopped"
    /\ mailbox' = Tail(mailbox)
    /\ UNCHANGED <<request, current, yami, sharedVars, queue, dispatchVars, workerVars,
                   nameServer, acks, race>>
-----------------------------------------------------------------------------
(* TicketCreator.                                                            *)

GetNodesAddressList(w) ==
    /\ task[w] # None /\ worker[w] = "react" /\ w \notin nodesAddresses
    /\ nameServer
    /\ nodesAddresses' = nodesAddresses \cup {w}
    /\ UNCHANGED <<request, mailbox, actor, current, yami, sharedVars, queue,
                   dispatchVars, task, worker, nameServer, acks, race>>

\* The name server does not answer: the error cannot be sent, as the address to
\* send it to comes from the missing list, and the exception ends the actor.
NoAddressList(w) ==
    /\ task[w] # None /\ worker[w] = "react" /\ w \notin nodesAddresses
    /\ ~nameServer
    /\ worker' = [worker EXCEPT ![w] = "dead"]
    /\ MoveTo(task[w], "lost")
    /\ UNCHANGED <<mailbox, actor, current, yami, sharedVars, queue, dispatchVars,
                   task, nodesAddresses, nameServer, acks, race>>

\* sendTicket or sendError: the node is answered, then the actor is told.
Answer(w) ==
    /\ task[w] # None /\ worker[w] = "react" /\ w \in nodesAddresses
    /\ worker' = [worker EXCEPT ![w] = "answered"]
    /\ MoveTo(task[w], "answered")
    /\ mailbox' = Append(mailbox, Message("CreationRequestResolved", task[w]))
    /\ UNCHANGED <<actor, current, yami, sharedVars, queue, dispatchVars, task,
                   nodesAddresses, nameServer, acks, race>>

RequestTask(w) ==
    /\ worker[w] = "answered"
    /\ worker' = [worker EXCEPT ![w] = "react"]
    /\ task' = [task EXCEPT ![w] = None]
    /\ mailbox' = Append(mailbox, Message("RequestAsynchTask", w))
    /\ UNCHANGED <<request, actor, current, yami, sharedVars, queue, dispatchVars,
                   nodesAddresses, nameServer, acks, race>>
-----------------------------------------------------------------------------
ActorStep ==
    \/ ReceiveResolve \/ TestMarker \/ BufferOrDispatch \/ ReceiveDispatch
    \/ ReceiveRequestAsynchTask \/ ReceiveCreationRequestResolved \/ AckWhenLast
    \/ ReceiveStop

WorkerStep(w) ==
    GetNodesAddressList(w) \/ NoAddressList(w) \/ Answer(w) \/ RequestTask(w)

\* A request the office has taken on and not answered yet.
InProgress(r) == request[r] \in {"dispatched", "queued", "working"}

\* A request whose caller still waits for the immediate OK.
Unreplied(r) == request[r] \in {"sent", "counted"}
=============================================================================
