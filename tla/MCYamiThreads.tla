--------------------------- MODULE MCYamiThreads ---------------------------
(* What must happen in the end where threads of the YAMI4 library wait for each
   other: messages that go through channels, a publication that waits for full lists,
   the queue of the Python module, and the agent with its dispatchers and its flow
   control.  The parts share no state; a behaviour is one of one of them, and all are
   explored in one run. *)
EXTENDS YamiAgent, TLC

CONSTANTS c1, c2, d1, d2, s1, s2, s3

VARIABLES
  part,                                                     (* the part that runs *)
  conditions, channels, life, holders, user, handle, server, locked, signals, link, listener,
  closing, failures, postedTo, via, notices, wire, delivered, undefined    (* Group *)

VARIABLES
  registered, subscriptions, live, links, pc, it, omit, lost,          (* Publisher *)
  messages, events, terminated, waiting, gil, place, received, reported, handled,
  told                                                                    (* Python *)

agentVars == vars
groupVars ==
  <<conditions, channels, life, holders, user, handle, server, locked, signals, link,
    listener, closing, failures, postedTo, via, notices, wire, delivered, undefined>>
publisherVars == <<registered, subscriptions, live, links, pc, it, omit, lost>>
pythonVars ==
  <<messages, events, terminated, waiting, gil, place, received, reported, handled, told>>
allVars == <<part, agentVars, groupVars, publisherVars, pythonVars>>

Runs(p) == part = p

-----------------------------------------------------------------------------
(* Messages through channels (YamiGroup).                                  *)

Peer == INSTANCE MCYamiFrames WITH FramePayload <- 2, HeadSize <- 1

Alone == [datagrams |-> {}, script |-> <<>>, messages |-> {"m"}, listens |-> FALSE,
          failures |-> 0]

GroupSettings ==
  { [Alone EXCEPT !.script = Peer!Long], [Alone EXCEPT !.failures = 1],
    [Alone EXCEPT !.datagrams = {"t"}, !.script = <<Peer!LongHeader>>],
    [Alone EXCEPT !.listens = TRUE] }

Group == INSTANCE YamiGroup WITH
  Users <- {"u"}, Targets <- {"t"}, Channels <- {"c1", "c2"}, Messages <- {"m"},
  FramePayload <- 2, HeadSize <- 1, Header <- [m \in {"m"} |-> 1], Body <- [m \in {"m"} |-> 2],
  Priority <- [m \in {"m"} |-> 0], ClosePriorities <- {0}, Settings <- GroupSettings,
  InitialBlock <- 1, MaxPins <- 3,
  setting <- conditions, worker <- server, interrupts <- signals

GroupFairness ==
  /\ WF_groupVars(Runs("group") /\ Group!PinAll) /\ WF_groupVars(Runs("group") /\ Group!Serve)
  /\ WF_groupVars(Runs("group") /\ Group!Served) /\ WF_groupVars(Runs("group") /\ Group!Unpin)
  /\ WF_groupVars(Runs("group") /\ Group!WorkDone)
  /\ WF_groupVars(Runs("group") /\ signals > 0 /\ \E r \in Group!Reports : Group!Wake(r))
  /\ \A o \in {"c1", "c2"} : SF_groupVars(Runs("group") /\ Group!ReportsOutput(o))
  /\ SF_groupVars(Runs("group") /\ (Group!AddChannel("u") \/ Group!CloseCleans("u")))

-----------------------------------------------------------------------------
(* A publication.                                                          *)

Publisher == INSTANCE YamiPublisher WITH
  Targets <- {1, 2}, Objects <- {"object"}, MaxQueueLength <- 2,
  Decisions <- {"wait_for_previous_message", "abandon_message", "abandon_subscription"}

PublisherFairness ==
  /\ WF_publisherVars(Runs("publisher") /\ Publisher!Continue)
  /\ \A t \in {1, 2} : WF_publisherVars(Runs("publisher") /\ Publisher!Transmit(t))

-----------------------------------------------------------------------------
(* The Python module: one dispatcher thread, as its options have it unless they say
   otherwise, a short queue, and one thread of each other kind.            *)
Python == INSTANCE YamiPython WITH
  Dispatchers <- {"dispatcher"}, Workers <- {"worker"}, Users <- {"user"}, Consumers <- {"consumer"},
  Closer <- "closer", Nobody <- "nobody", MaxLength <- 1, MaxMessages <- 3, MaxEvents <- 3,
  pc <- place

PythonFairness ==
  /\ WF_pythonVars(Runs("python") /\ Python!OfMessages("dispatcher"))
  /\ \A t \in {"worker", "user"} : WF_pythonVars(Runs("python") /\ Python!OfEvents(t))
  /\ SF_pythonVars(Runs("python") /\ Python!OfConsumer("consumer"))
  /\ SF_pythonVars(Runs("python") /\ Python!OfCloser)

-----------------------------------------------------------------------------
(* The agent.                                                              *)

Nobody == [s \in Sends |-> {}]

(* Two threads send three plain one-way messages, no requests. *)
Plain == [kind |-> [s \in Sends |-> "one_way"], id |-> [s \in Sends |-> s],
          turn |-> [s \in Sends |-> 0],
          from |-> (s1 :> {c1} @@ s2 :> {c2} @@ s3 :> {c1, c2}),
          requests |-> 0, failures |-> 0, replies |-> 0, stops |-> FALSE]

TwoKinds == (s1 :> "two_way" @@ s2 :> "callback" @@ s3 :> "one_way")

(* The first target of a group is s1, the second s2; s3 is not of it.      *)
Failover(kind) ==
  [Plain EXCEPT !.kind = [s \in Sends |-> IF s = s3 THEN "one_way" ELSE kind],
                !.id[s2] = s1, !.turn[s2] = 1,
                !.from = (s1 :> {c1} @@ s2 :> {} @@ s3 :> {c2})]

(* A group of three targets. *)
FailoverTwice(kind) ==
  [Plain EXCEPT !.kind = [s \in Sends |-> kind],
                !.id = [s \in Sends |-> s1], !.turn = (s1 :> 0 @@ s2 :> 1 @@ s3 :> 2),
                !.from = [Nobody EXCEPT ![s1] = {c1}]]

AgentSettings ==
  { [Plain EXCEPT !.failures = 1],
    [Plain EXCEPT !.kind = TwoKinds, !.from = [Nobody EXCEPT ![s1] = {c1}, ![s2] = {c2}],
                  !.replies = 2, !.stops = TRUE],
    [Plain EXCEPT !.kind = TwoKinds, !.failures = 1],
    [Plain EXCEPT !.from = Nobody, !.requests = 7],
    [Plain EXCEPT !.from = [Nobody EXCEPT ![s1] = {c1}, ![s2] = {d1}, ![s3] = {d1}],
                  !.requests = 1, !.stops = TRUE],
    [Failover("failover") EXCEPT !.replies = 1, !.failures = 1, !.stops = TRUE],
    [FailoverTwice("failover") EXCEPT !.replies = 1, !.failures = 2, !.stops = TRUE],
    [Failover("one_way_failover") EXCEPT !.failures = 1] }

AgentFairness ==
  /\ \A c \in {c1, c2, d1, d2} : WF_agentVars(Runs("agent") /\ SendStep(c))
  /\ \A s \in Sends : SF_agentVars(Runs("agent") /\ \E how \in {"sent", "dropped"} : Progress(s, how))
  /\ SF_agentVars(Runs("agent") /\ Receive) /\ WF_agentVars(Runs("agent") /\ WorkerStep)
  /\ \A d \in {d1, d2} : WF_agentVars(Runs("agent") /\ DispatcherStep(d))
  /\ WF_agentVars(/\ Runs("agent")
                  /\ TerminateDispatchers \/ BeginCleaning \/ Cleaned)

-----------------------------------------------------------------------------
(* One part runs.                                                          *)

ASSUME PartsAssumption ==
  Publisher!PublisherAssumption /\ Python!PythonAssumption /\ AgentAssumption /\ Group!GroupAssumption

MCInit ==
  /\ part \in {"group", "publisher", "python", "agent"}
  /\ Init /\ Group!Init /\ Publisher!Init /\ Python!Init

MCNext ==
  /\ UNCHANGED part
  /\ \/ Runs("group") /\ Group!Next /\ UNCHANGED <<publisherVars, pythonVars, agentVars>>
     \/ Runs("publisher") /\ Publisher!Next /\ UNCHANGED <<groupVars, pythonVars, agentVars>>
     \/ Runs("python") /\ Python!Next /\ UNCHANGED <<groupVars, publisherVars, agentVars>>
     \/ Runs("agent") /\ Next /\ UNCHANGED <<groupVars, publisherVars, pythonVars>>

(* What must happen in a part is a property of its behaviours that are fair to it. *)
MCSpec == MCInit /\ [][MCNext]_allVars

(* The state of the part that runs.                                        *)
View ==
  CASE Runs("group") -> <<part, groupVars>>
    [] Runs("publisher") -> <<part, publisherVars>>
    [] Runs("python") -> <<part, pythonVars>>
    [] Runs("agent") -> <<part, agentVars>>

-----------------------------------------------------------------------------
(* The properties of the parts.                                            *)

(* Every message posted is answered (YamiGroup).                           *)
EveryMessageAnswered == Runs("group") /\ GroupFairness => Group!PostedAnswered

(* Subscribers are kept with their updates until one is lost (YamiPublisher). *)
SubscribersKept == Publisher!SubscribersKept

(* A publication ends (YamiPublisher).                                     *)
PublishEnds == Runs("publisher") /\ PublisherFairness => Publisher!PublishEnds

(* While no two threads wait for room, and none with the interpreter's lock, every
   message in the queue is handled, and closing the agent ends (YamiPython). *)
QueueDrains == Runs("python") /\ PythonFairness => Python!QueueDrains

(* The agent is never closed to its senders for good (YamiAgent).          *)
SendersAreAdmitted == Runs("agent") /\ AgentFairness => SendersAdmitted

(* Every request that comes is dispatched (YamiAgent).                     *)
RequestsAreDispatched == Runs("agent") /\ AgentFairness => RequestsDispatched

(* The agent's destructor ends (YamiAgent).                                *)
AgentStopEnds == Runs("agent") /\ AgentFairness => StopEnds
=============================================================================
