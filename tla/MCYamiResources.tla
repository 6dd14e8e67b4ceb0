-------------------------- MODULE MCYamiResources --------------------------
(* What the YAMI4 library owns and gives back: the channels of a channel group and
   the connections of each protocol, parameters objects and the views of them in C++,
   the private area, and the objects that messages are dispatched to.  The parts share
   no state; a behaviour is one of one of them, and all are explored in one run.  *)
EXTENDS YamiGroup, MCYamiFrames, MCYamiEntries, TLC

CONSTANTS u1, u2, t1, t2, c1, c2, m1, m2

VARIABLES
  part,                                                     (* the part that runs *)
  connections, slots, shadow, listeners, objects, thread, pinned, serving, stats, fds,
  blocks, stopping, circumstances, faults, disturbed, failed,     (* Connections *)
  params, live, last,                                              (* Parameters *)
  handles, cores, references, lost, done,                               (* Views *)
  segments, firstFree, given, stale,                                     (* Heap *)
  registry, deleted, received, at, target, calling, unused, answers, made, gone,
  barred                                                             (* Dispatch *)

groupVars == vars
connectionsVars ==
  <<connections, slots, shadow, listeners, objects, thread, pinned, serving, stats, fds,
    blocks, stopping, circumstances, faults, disturbed, failed>>
parametersVars == <<params, live, last>>
viewsVars == <<handles, cores, references, lost, done>>
heapVars == <<segments, firstFree, given, stale>>
dispatchVars ==
  <<registry, deleted, received, at, target, calling, unused, answers, made, gone, barred>>
allVars ==
  <<part, groupVars, connectionsVars, parametersVars, viewsVars, heapVars, dispatchVars>>

-----------------------------------------------------------------------------
(* The channel group.                                                      *)

(* m1 has two frames, m2 has one and more priority. *)
MCHeader == [m \in Messages |-> 1]
MCBody == [m \in Messages |-> IF m = m1 THEN 2 ELSE 1]
MCPriority == [m \in Messages |-> IF m = m1 THEN 0 ELSE 1]

Alone == [datagrams |-> {}, script |-> <<>>, messages |-> Messages, listens |-> FALSE,
          failures |-> 0]

MCSettings ==
  { Alone,
    [Alone EXCEPT !.failures = 1],
    [Alone EXCEPT !.messages = {m1}, !.script = <<Long[1], Short[1], Long[2], Empty>>],
    [Alone EXCEPT !.messages = {m1}, !.script = <<LongHeader>>, !.failures = 1],
    [Alone EXCEPT !.messages = {m1}, !.script = Long, !.failures = 1],
    [Alone EXCEPT !.datagrams = {t1}, !.script = <<LongHeader, Long[2], Long[1]>>],
    [Alone EXCEPT !.messages = {m2}, !.listens = TRUE, !.script = Short] }

-----------------------------------------------------------------------------
(* Connections of each protocol.                                           *)

OpenedTargets == {"to tcp", "to udp", "to unix", "to file"}

MCProtocol ==
  [n \in OpenedTargets \cup {"at tcp", "at udp", "at unix", "from tcp", "from udp", "from unix"} |->
     CASE n \in {"to tcp", "at tcp", "from tcp"} -> "tcp"
       [] n \in {"to udp", "at udp", "from udp"} -> "udp"
       [] n \in {"to unix", "at unix", "from unix"} -> "unix"
       [] OTHER -> "file"]

NoWork == [users |-> {"u1", "u2"}, targets |-> {}, addresses |-> {}, peers |-> {}, objects |-> {}]

(* Two threads open one target of each protocol; one thread listens, and peers
   connect; two threads listen and register objects.                       *)
ConnectionSettings ==
  {[NoWork EXCEPT !.targets = {t}] : t \in OpenedTargets} \cup
  {[users |-> {"u1"}, targets |-> {"to unix"}, addresses |-> {"at " \o p}, peers |-> {"from " \o p},
    objects |-> {}] : p \in {"tcp", "udp", "unix"}} \cup
  {[NoWork EXCEPT !.addresses = {"at unix"}, !.objects = {"o"}]}

Connections == INSTANCE YamiConnections WITH
  channels <- connections, user <- thread, closing <- stopping,
  setting <- circumstances, failures <- faults,
  Users <- {"u1", "u2"}, Targets <- OpenedTargets, Addresses <- {"at tcp", "at udp", "at unix"},
  Peers <- {"from tcp", "from udp", "from unix"}, Objects <- {"o"}, Protocol <- MCProtocol,
  Settings <- ConnectionSettings, InitialBlock <- 1, MaxFailures <- 1, MaxChannels <- 2, MaxListeners <- 2,
  MaxPins <- 2, MaxCounted <- 1

-----------------------------------------------------------------------------
(* Parameters: one value of each type; messages with a nested object, with an array,
   and with a boolean array that fills its words.  Two keys, for which the model values
   of two channels serve.                                                  *)
Params == INSTANCE YamiParameters WITH
  Names <- {"a", "b"}, LongNames <- {"b"}, Keys <- {c1, c2}, Initial <- 1, MaxNesting <- 2,
  BitsInWord <- 2, Limits <- {1, 100}, MaxEntries <- 2, MaxDepth <- 3,
  Samples <- SampleEntries, Messages <- SampleMessages

-----------------------------------------------------------------------------
(* Views: two objects of the program, for which the model values of two threads
   serve, and four of the core.                                            *)

Views == INSTANCE YamiViews WITH
  Handles <- {u1, u2}, Names <- {"a", "b"}, Cores <- 1 .. 4, MaxEntries <- 2, MaxReferences <- 1

-----------------------------------------------------------------------------
(* The private area: small, but three segments fit in it beside a free one. *)

Heap == INSTANCE YamiAllocator WITH AreaSize <- 36, HeaderSize <- 5, SmallestSplit <- 8, Requests <- {1, 5}

-----------------------------------------------------------------------------
(* Dispatching: both messages are for one object, and one wants no answer. *)

Dispatch == INSTANCE YamiDispatch WITH
  Dispatchers <- {"d1", "d2"}, Names <- {"x"}, Callbacks <- 1 .. 2, Messages <- {"m1", "m2"},
  ObjectName <- [m \in {"m1", "m2"} |-> "x"], OneWay <- {"m2"}

-----------------------------------------------------------------------------
(* One part runs.                                                          *)

ASSUME PartsAssumption ==
  /\ Connections!ConnectionsAssumption /\ Params!ParametersAssumption
  /\ Views!ViewsAssumption /\ Heap!AllocatorAssumption /\ Dispatch!DispatchAssumption

MCInit ==
  /\ part \in {"group", "connections", "parameters", "views", "heap", "dispatch"}
  /\ Init /\ Connections!Init /\ Params!Init /\ Views!Init /\ Heap!Init /\ Dispatch!Init

Runs(p) == part = p

GroupStep ==
  /\ Runs("group") /\ Next
  /\ UNCHANGED <<connectionsVars, parametersVars, viewsVars, heapVars, dispatchVars>>

ConnectionsStep ==
  /\ Runs("connections") /\ Connections!Next
  /\ UNCHANGED <<groupVars, parametersVars, viewsVars, heapVars, dispatchVars>>

ParametersStep ==
  /\ Runs("parameters") /\ Params!Next
  /\ UNCHANGED <<groupVars, connectionsVars, viewsVars, heapVars, dispatchVars>>

ViewsStep ==
  /\ Runs("views") /\ Views!Next /\ Views!Bounded'
  /\ UNCHANGED <<groupVars, connectionsVars, parametersVars, heapVars, dispatchVars>>

HeapStep ==
  /\ Runs("heap") /\ Heap!Next
  /\ UNCHANGED <<groupVars, connectionsVars, parametersVars, viewsVars, dispatchVars>>

DispatchStep ==
  /\ Runs("dispatch") /\ Dispatch!Next
  /\ UNCHANGED <<groupVars, connectionsVars, parametersVars, viewsVars, heapVars>>

MCNext ==
  /\ UNCHANGED part
  /\ \/ GroupStep \/ ConnectionsStep \/ ParametersStep \/ ViewsStep \/ HeapStep \/ DispatchStep

MCSpec == MCInit /\ [][MCNext]_allVars

(* The state of the part that runs, without what no step depends on and no property
   reads before a step: the last operation, and the last failure.          *)
View ==
  CASE Runs("group") -> <<part, groupVars>>
    [] Runs("connections") ->
         <<part, connections, slots, shadow, listeners, objects, thread, pinned, serving,
           stats, fds, blocks, stopping, circumstances, faults, disturbed>>
    [] Runs("parameters") -> <<part, params, live>>
    [] Runs("views") -> <<part, handles, cores, references, lost>>
    [] Runs("heap") -> <<part, heapVars>>
    [] Runs("dispatch") -> <<part, dispatchVars>>

Symmetry == Permutations({u1, u2}) \cup Permutations({c1, c2})

-----------------------------------------------------------------------------
(* The properties of the parts.                                            *)

(* No descriptor and no memory is lost when a step fails (YamiConnections). *)
NothingLost == Connections!NothingLost

(* The monitor shows what there is (YamiConnections).                      *)
ShownRight == Runs("connections") => Connections!ShownRight

(* What is written is what is read (YamiParameters).                       *)
RoundTrip == Runs("parameters") => Params!RoundTrip

(* An operation that fails loses nothing (YamiParameters).                 *)
FailuresContained == Params!FailuresContained

(* A locked entry stays what it is (YamiParameters).                       *)
LocksKeep == Params!LocksKeep

(* No nested object is owned by two entries or by none (YamiViews).        *)
OwnedOnce == Runs("views") => Views!OwnedOnce

(* A reference into an object stays good (YamiViews).                      *)
ReferencesStay == Views!ReferencesStay

(* Free memory is on the list and in one piece (YamiAllocator).            *)
AllFreeOnList == Runs("heap") => Heap!AllFreeOnList

(* Messages go to objects registered before, and have two answers only when the
   object throws (YamiDispatch).                                           *)
DispatchedRight == Runs("dispatch") => Dispatch!DispatchedRight
=============================================================================
