-------------------------- MODULE YamiStatistics --------------------------
(***************************************************************************)
(* The statistics an agent keeps of its listeners, objects and connections *)
(* (lib/yami4-gpl-1.6.0/src/cpp/activity_statistics_monitor.cpp), fed by   *)
(* the event notifications of the core and the agent.                      *)
(*                                                                         *)
(* A connection's four counters are two here, in messages; bytes go with   *)
(* them.                                                                   *)
(***************************************************************************)
EXTENDS Naturals, Functions

NoStatistics ==
    [listeners |-> {}, objects |-> {}, connections |-> [c \in {} |-> {}], errors |-> [c \in {} |-> 0]]

NewConnection(type) == [type |-> type, sent |-> 0, received |-> 0]

\* The entry of a map is made when it is asked for, as by operator[] of std::map.
Put(map, key, value) == [k \in DOMAIN map \cup {key} |-> IF k = key THEN value ELSE map[k]]
At(map, key, default) == IF key \in DOMAIN map THEN map[key] ELSE default

-----------------------------------------------------------------------------
ListenerAdded(stats, target) == [stats EXCEPT !.listeners = @ \cup {target}]
ListenerRemoved(stats, target) == [stats EXCEPT !.listeners = @ \ {target}]

ObjectRegistered(stats, name) == [stats EXCEPT !.objects = @ \cup {name}]
ObjectUnregistered(stats, name) == [stats EXCEPT !.objects = @ \ {name}]

ConnectionOpen(stats, target, type) ==
    [stats EXCEPT !.connections = Put(@, target, NewConnection(type))]
ConnectionClosed(stats, target) ==
    [stats EXCEPT !.connections = Restrict(@, DOMAIN @ \ {target})]
ConnectionError(stats, target) == [stats EXCEPT !.errors = Put(@, target, At(@, target, 0) + 1)]

\* A message of a connection that is not known makes it an incoming one.
MessageSent(stats, target) ==
    LET c == At(stats.connections, target, NewConnection("incoming"))
    IN [stats EXCEPT !.connections = Put(@, target, [c EXCEPT !.sent = @ + 1])]
MessageReceived(stats, target) ==
    LET c == At(stats.connections, target, NewConnection("incoming"))
    IN [stats EXCEPT !.connections = Put(@, target, [c EXCEPT !.received = @ + 1])]

\* The reset that goes with a report: connections stay, and what they counted
\* goes; errors go with their targets.
ResetConnections(connections) ==
    [c \in DOMAIN connections |-> NewConnection(connections[c].type)]
Reset(stats) ==
    [stats EXCEPT !.connections = ResetConnections(@), !.errors = [c \in {} |-> 0]]
=============================================================================
