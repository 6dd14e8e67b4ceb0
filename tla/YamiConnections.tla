-------------------------- MODULE YamiConnections --------------------------
(***************************************************************************)
(* What the connections and listeners of a YAMI4 agent own, descriptors of *)
(* the system and blocks of memory, while any call that opens, accepts or  *)
(* listens may fail at any of its steps; and the statistics kept of them   *)
(* (lib/yami4-gpl-1.6.0/src/core: posix/channel.cpp, posix/listener.cpp,   *)
(* channel.cpp, channel_group.cpp; cpp/agent_impl.cpp).                    *)
(*                                                                         *)
(* Messages and the life of one channel in detail are in YamiGroup.        *)
(***************************************************************************)
EXTENDS Naturals, Sequences, SequencesExt, FiniteSets, FiniteSetsExt, YamiStatistics

CONSTANTS
    Users,         \* the program's threads
    Targets,       \* targets it opens
    Addresses,     \* at which it listens
    Peers,         \* targets of the connections that come in
    Objects,       \* names of objects
    Protocol,      \* "tcp", "udp", "unix" or "file" of each target, address and peer
    Settings,      \* threads, targets, addresses, peers and objects there may be together
    InitialBlock   \* initial_block_size

CONSTANTS
    MaxFailures,   \* bound: steps that fail
    MaxChannels,   \* bound: channels
    MaxListeners,  \* bound: listeners
    MaxPins,       \* bound: references to a listener
    MaxCounted     \* bound: messages and errors in the statistics

ConnectionsAssumption ==
    /\ {InitialBlock, MaxChannels, MaxPins} \subseteq Nat \ {0}
    /\ {MaxFailures, MaxListeners, MaxCounted} \subseteq Nat

VARIABLES
    channels,     \* channels of the group, by their targets
    slots,        \* channels_num_
    shadow,       \* shadow_channels_num_, and whether the array is there
    listeners,    \* the list of listeners
    objects,      \* names registered with the resolver
    user,         \* what each thread of the program is at
    pinned,       \* channels the worker is serving
    serving,      \* the worker is between its wait and the end of do_some_work
    stats,        \* of the monitor
    fds,          \* descriptors open in the system
    blocks,       \* blocks allocated and not freed
    closing       \* closing_

VARIABLES
    setting,      \* those of Settings that there are
    failures,     \* bound: steps that failed so far
    disturbed,    \* history: two threads worked on one name at once
    failed        \* history: protocol and step of the last failure

groupVars == <<channels, slots, shadow, listeners, pinned, serving, closing>>
historyVars == <<setting, failures, failed>>
vars == <<channels, slots, shadow, listeners, objects, user, pinned, serving, stats, fds, blocks,
          closing, setting, failures, disturbed, failed>>

One(condition) == IF condition THEN 1 ELSE 0
Idle == [pc |-> "idle", name |-> "none"]
NoFailure == [protocol |-> "none", step |-> "none"]

Init ==
    /\ channels = [t \in {} |-> Idle] /\ slots = 0 /\ shadow = [size |-> 0, there |-> FALSE]
    /\ listeners = <<>> /\ objects = {}
    /\ user = [u \in Users |-> Idle] /\ pinned = {} /\ serving = FALSE
    /\ stats = NoStatistics
    /\ fds = 0 /\ blocks = 0 /\ closing = FALSE
    /\ setting \in Settings
    /\ failures = 0 /\ disturbed = FALSE /\ failed = NoFailure

-----------------------------------------------------------------------------
(* An attempt goes through its steps and fails at the k-th, or at none.       *)

Attempts(steps) == IF failures < MaxFailures THEN 1 .. Len(steps) + 1 ELSE {Len(steps) + 1}
Succeeds(steps, k) == k > Len(steps)
Passes(steps, k, step) == \E i \in 1 .. k - 1 : i <= Len(steps) /\ steps[i] = step

Recorded(steps, k, protocol) ==
    IF Succeeds(steps, k) THEN UNCHANGED historyVars
    ELSE /\ failures' = failures + 1
         /\ failed' = [protocol |-> protocol, step |-> steps[k]]
         /\ UNCHANGED setting

\* What an attempt leaves: descriptors that are open and blocks allocated.
Left(ok, descriptors, memory) == [ok |-> ok, fds |-> descriptors, blocks |-> memory]
Nothing == Left(FALSE, 0, 0)

(* Mutations of definitions below, for the runs that test the properties.     *)
ConnectToUnixUnclosed(k) == Left(k > 4, One(k > 2), 0)
ToldOfNew(pc, name) ==
    IF pc = "listener added" THEN ListenerAdded(stats, name) ELSE ObjectRegistered(stats, name)

-----------------------------------------------------------------------------
(* Connecting a channel: connect, and its part for each protocol.             *)

ConnectSteps(protocol) ==
    CASE protocol = "tcp" -> <<"address", "socket", "nonblocking", "connect", "nodelay", "keepalive">>
      [] protocol = "udp" -> <<"address", "socket", "address memory", "datagram buffer">>
      [] protocol = "unix" -> <<"path", "socket", "connect", "nonblocking">>
      [] protocol = "file" -> <<"name memory", "open", "nonblocking">>

ConnectToTcp(k) == IF Succeeds(ConnectSteps("tcp"), k) THEN Left(TRUE, 1, 0) ELSE Nothing

\* The socket of a channel that finds no memory for its datagrams stays open.
ConnectToUdp(k) ==
    LET steps == ConnectSteps("udp")
    IN IF Succeeds(steps, k) THEN Left(TRUE, 1, 2)
       ELSE Left(FALSE, One(Passes(steps, k, "socket")), 0)

ConnectToUnix(k) == IF Succeeds(ConnectSteps("unix"), k) THEN Left(TRUE, 1, 0) ELSE Nothing

\* A file that cannot be made non-blocking stays open.
ConnectToFile(k) ==
    LET steps == ConnectSteps("file")
    IN Left(Succeeds(steps, k), One(Passes(steps, k, "open")), 0)

Connect(protocol, k) ==
    CASE protocol = "tcp" -> ConnectToTcp(k)
      [] protocol = "udp" -> ConnectToUdp(k)
      [] protocol = "unix" -> ConnectToUnix(k)
      [] protocol = "file" -> ConnectToFile(k)

\* The channel and its target are freed when it cannot be connected.
OpenSteps(protocol) == <<"channel memory", "target memory">> \o ConnectSteps(protocol)

InitChannel(protocol, k) ==
    LET connection == Connect(protocol, k - 2)
    IN IF k <= 2 THEN Nothing
       ELSE [connection EXCEPT !.blocks = @ + IF connection.ok THEN 2 ELSE 0]

ChannelBlocks(target) == 2 + IF Protocol[target] = "udp" THEN 2 ELSE 0

-----------------------------------------------------------------------------
(* Preparing a listener: whatever fails, socket, target and buffer are given back. *)

PrepareSteps(protocol) ==
    CASE protocol = "tcp" -> <<"listener memory", "address", "socket", "reuseaddr", "bind", "listen",
                               "target memory", "getsockname", "gethostname">>
      [] protocol = "udp" -> <<"listener memory", "address", "socket", "bind", "target memory",
                               "getsockname", "gethostname", "frame buffer">>
      [] protocol = "unix" -> <<"listener memory", "path", "socket", "bind", "listen", "target memory">>

PrepareTcp(k) == IF Succeeds(PrepareSteps("tcp"), k) THEN Left(TRUE, 1, 2) ELSE Nothing
PrepareUdp(k) == IF Succeeds(PrepareSteps("udp"), k) THEN Left(TRUE, 1, 3) ELSE Nothing
PrepareUnix(k) == IF Succeeds(PrepareSteps("unix"), k) THEN Left(TRUE, 1, 2) ELSE Nothing

Prepare(protocol, k) ==
    CASE protocol = "tcp" -> PrepareTcp(k)
      [] protocol = "udp" -> PrepareUdp(k)
      [] protocol = "unix" -> PrepareUnix(k)

ListenerBlocks(address) == 2 + One(Protocol[address] = "udp")

-----------------------------------------------------------------------------
(* The table of channels, which only grows.                                   *)

TableSteps == IF Cardinality(DOMAIN channels) < slots THEN <<>> ELSE <<"table memory">>

Grown == IF slots < InitialBlock THEN InitialBlock ELSE 2 * slots

\* The table once an attempt has come to it, and the blocks it takes.
SlotsAfter(steps, k) == IF Passes(steps, k, "table memory") THEN Grown ELSE slots
TableBlocks(steps, k) == One(Passes(steps, k, "table memory") /\ slots = 0)

NewChannel == [refs |-> 1, state |-> "operational"]

\* The channels of T lose a reference; the last one closes the connection, frees
\* what the channel owns and reports it.
RECURSIVE AllClosed(_, _)
AllClosed(st, T) ==
    IF T = {} THEN st
    ELSE LET t == CHOOSE t \in T : TRUE IN AllClosed(ConnectionClosed(st, t), T \ {t})

Unref(T, table, st) ==
    LET last == {t \in T : table[t].refs = 1}
    IN /\ channels' = [t \in DOMAIN table \ last |->
                          IF t \in T THEN [table[t] EXCEPT !.refs = @ - 1] ELSE table[t]]
       /\ fds' = fds - Cardinality(last)
       /\ blocks' = blocks - MapThenSumSet(ChannelBlocks, last)
       /\ stats' = AllClosed(st, last)

-----------------------------------------------------------------------------
(* open, without the lock while it connects.                                  *)

Enters(u) == user[u].pc = "idle" /\ ~closing
Now(u, pc, name) == user' = [user EXCEPT ![u] = [pc |-> pc, name |-> name]]

OpenConnect(u, t) ==
    /\ Enters(u) /\ t \notin DOMAIN channels
    /\ \E k \in Attempts(OpenSteps(Protocol[t])) :
         LET made == InitChannel(Protocol[t], k)
         IN /\ fds' = fds + made.fds /\ blocks' = blocks + made.blocks
            /\ IF made.ok THEN Now(u, "connected", t) ELSE UNCHANGED user
            /\ Recorded(OpenSteps(Protocol[t]), k, Protocol[t])
    /\ UNCHANGED <<groupVars, objects, stats, disturbed>>

\* Another thread was faster, or there is no place for the channel.
Discard(t) ==
    /\ fds' = fds - 1 /\ blocks' = blocks - ChannelBlocks(t)
    /\ UNCHANGED <<channels, slots, stats>>

OpenAdd(u) ==
    LET t == user[u].name
    IN /\ user[u].pc = "connected"
       /\ Now(u, "idle", "none")
       /\ \/ t \in DOMAIN channels /\ Discard(t) /\ UNCHANGED historyVars
          \/ /\ t \notin DOMAIN channels /\ Cardinality(DOMAIN channels) < MaxChannels
             /\ \E k \in Attempts(TableSteps) :
                  /\ Recorded(TableSteps, k, Protocol[t])
                  /\ IF Succeeds(TableSteps, k)
                     THEN /\ channels' = Put(channels, t, NewChannel)
                          /\ slots' = SlotsAfter(TableSteps, k)
                          /\ blocks' = blocks + TableBlocks(TableSteps, k)
                          /\ stats' = ConnectionOpen(stats, t, "outgoing")
                          /\ UNCHANGED fds
                     ELSE Discard(t)
       /\ UNCHANGED <<shadow, listeners, objects, pinned, serving, closing, disturbed>>

\* close: at once when there is nothing to send, or once the worker reaches the pill.
CloseAtOnce(u, t) ==
    /\ Enters(u) /\ t \in DOMAIN channels /\ channels[t].state = "operational"
    /\ Unref({t}, [channels EXCEPT ![t].state = "closed"], stats)
    /\ UNCHANGED <<slots, shadow, listeners, objects, user, pinned, serving, closing, historyVars,
                   disturbed>>

ClosePosts(u, t) ==
    /\ Enters(u) /\ t \in DOMAIN channels /\ channels[t].state = "operational"
    /\ channels' = [channels EXCEPT ![t].state = "closing"]
    /\ UNCHANGED <<slots, shadow, listeners, objects, user, pinned, serving, stats, fds, blocks,
                   closing, historyVars, disturbed>>

-----------------------------------------------------------------------------
(* Listeners and objects: what is told to the monitor is told without a lock.  *)

Listening == {listeners[i].address : i \in DOMAIN listeners}

\* Another thread is about to tell of this name.
BothAtOnce(name) ==
    disturbed' = (disturbed \/ \E v \in Users : user[v].pc \notin {"idle", "connected"} /\ user[v].name = name)

\* An address of tcp or udp is bound once; a path is bound again.
AddListener(u, a) ==
    /\ Enters(u) /\ Len(listeners) < MaxListeners
    /\ a \in Listening => Protocol[a] = "unix"
    /\ \E k \in Attempts(PrepareSteps(Protocol[a])) :
         LET made == Prepare(Protocol[a], k)
         IN /\ Recorded(PrepareSteps(Protocol[a]), k, Protocol[a])
            /\ fds' = fds + made.fds /\ blocks' = blocks + made.blocks
            /\ IF made.ok
               THEN /\ listeners' = <<[address |-> a, refs |-> 1]>> \o listeners
                    /\ Now(u, "listener added", a)
                    /\ IF a \in Listening THEN disturbed' = TRUE ELSE BothAtOnce(a)
               ELSE UNCHANGED <<listeners, user, disturbed>>
    /\ UNCHANGED <<channels, slots, shadow, objects, pinned, serving, stats, closing>>

\* prune_listeners.
RECURSIVE AllRemoved(_, _)
AllRemoved(st, list) ==
    IF list = <<>> THEN st ELSE AllRemoved(ListenerRemoved(st, Head(list).address), Tail(list))

Prune(list, st, descriptors, memory) ==
    LET gone == SelectSeq(list, LAMBDA l : l.refs = 0)
    IN /\ listeners' = SelectSeq(list, LAMBDA l : l.refs # 0)
       /\ stats' = AllRemoved(st, gone)
       /\ fds' = descriptors - Len(gone)
       /\ blocks' = memory - MapThenSumSet(LAMBDA i : ListenerBlocks(gone[i].address), DOMAIN gone)

RemoveListener(u, a) ==
    LET at == {i \in DOMAIN listeners : listeners[i].address = a}
        i == CHOOSE i \in at : \A j \in at : i <= j
    IN /\ Enters(u) /\ at # {}
       /\ Prune([listeners EXCEPT ![i].refs = @ - 1], stats, fds, blocks)
       /\ BothAtOnce(a)
       /\ UNCHANGED <<channels, slots, shadow, objects, user, pinned, serving, closing, historyVars>>

RegisterObject(u, o) ==
    /\ Enters(u)
    /\ objects' = objects \cup {o} /\ Now(u, "registered", o)
    /\ BothAtOnce(o)
    /\ UNCHANGED <<groupVars, stats, fds, blocks, historyVars>>

UnregisterObject(u, o) ==
    /\ Enters(u)
    /\ objects' = objects \ {o} /\ Now(u, "unregistered", o)
    /\ BothAtOnce(o)
    /\ UNCHANGED <<groupVars, stats, fds, blocks, historyVars>>

Told(pc, name) ==
    CASE pc = "listener added" -> ListenerAdded(stats, name)
      [] pc = "registered" -> ObjectRegistered(stats, name)
      [] pc = "unregistered" -> ObjectUnregistered(stats, name)

Tell(u) ==
    /\ user[u].pc \in {"listener added", "registered", "unregistered"}
    /\ stats' = Told(user[u].pc, user[u].name)
    /\ Now(u, "idle", "none")
    /\ UNCHANGED <<groupVars, objects, fds, blocks, historyVars, disturbed>>

Report(u) ==
    /\ Enters(u) /\ stats' = Reset(stats) /\ stats' # stats
    /\ UNCHANGED <<groupVars, objects, user, fds, blocks, historyVars, disturbed>>

-----------------------------------------------------------------------------
(* The worker: do_some_work.                                                  *)

ShadowSteps == IF shadow.size = slots THEN <<>> ELSE <<"shadow memory">>

Capped(n) == IF n < MaxPins THEN n + 1 ELSE n

\* The old shadow array is freed before the new one is there.  Listeners keep the
\* reference they are given here.
Pin ==
    /\ ~serving /\ ~closing
    /\ \E k \in Attempts(ShadowSteps) :
         /\ Recorded(ShadowSteps, k, "none")
         /\ IF Succeeds(ShadowSteps, k)
            THEN /\ shadow' = [size |-> slots, there |-> slots > 0]
                 /\ blocks' = (blocks - One(shadow.there)) + One(slots > 0)
                 /\ channels' = [t \in DOMAIN channels |-> [channels[t] EXCEPT !.refs = @ + 1]]
                 /\ listeners' = [i \in DOMAIN listeners |->
                                     [listeners[i] EXCEPT !.refs = Capped(@)]]
                 /\ pinned' = DOMAIN channels /\ serving' = TRUE
            ELSE /\ shadow' = [shadow EXCEPT !.there = FALSE]
                 /\ blocks' = blocks - One(shadow.there)
                 /\ UNCHANGED <<channels, listeners, pinned, serving>>
    /\ UNCHANGED <<slots, objects, user, stats, fds, closing, disturbed>>

Counts(st) ==
    /\ \A c \in DOMAIN st.connections : st.connections[c].sent + st.connections[c].received <= MaxCounted
    /\ \A c \in DOMAIN st.errors : st.errors[c] <= MaxCounted

Alive(t) == serving /\ t \in pinned /\ channels[t].state # "closed"

Transfer(t) ==
    /\ Alive(t)
    /\ stats' \in {MessageSent(stats, t), MessageReceived(stats, t)} /\ Counts(stats')
    /\ UNCHANGED <<groupVars, objects, user, fds, blocks, historyVars, disturbed>>

\* An error, the end of the input, or the pill: the channel is closed.
CloseByWorker(t) ==
    /\ Alive(t)
    /\ \E st \in {stats, ConnectionError(stats, t)} :
         Counts(st) /\ Unref({t}, [channels EXCEPT ![t].state = "closed"], st)
    /\ UNCHANGED <<slots, shadow, listeners, objects, user, pinned, serving, closing, historyVars,
                   disturbed>>

\* accept_tcp and accept_unix: add_existing refuses a target it has.
AcceptSteps(protocol) ==
    CASE protocol = "tcp" -> <<"accept", "nonblocking", "nodelay", "keepalive", "target memory">>
      [] protocol = "unix" -> <<"accept", "nonblocking", "target memory", "getsockname">>

Accept(p) ==
    LET steps == AcceptSteps(Protocol[p]) \o TableSteps \o <<"channel memory">>
    IN /\ serving /\ \E a \in Listening : Protocol[a] = Protocol[p]
       /\ Protocol[p] # "udp" /\ Cardinality(DOMAIN channels) < MaxChannels
       /\ p \notin DOMAIN channels
       /\ \E k \in Attempts(steps) :
            /\ Recorded(steps, k, Protocol[p])
            /\ slots' = SlotsAfter(steps, k)
            /\ IF Succeeds(steps, k)
               THEN /\ channels' = Put(channels, p, NewChannel)
                    /\ fds' = fds + 1
                    /\ blocks' = blocks + TableBlocks(steps, k) + ChannelBlocks(p)
                    /\ stats' = ConnectionOpen(stats, p, "incoming")
               ELSE /\ blocks' = blocks + TableBlocks(steps, k)
                    /\ UNCHANGED <<channels, fds, stats>>
       /\ UNCHANGED <<shadow, listeners, objects, user, pinned, serving, closing, disturbed>>

\* accept_udp: a datagram of a peer without a channel opens one, with the lock.
AcceptUdp(p) ==
    LET known == p \in DOMAIN channels
        steps == <<"receive", "target memory">> \o
                 IF known THEN <<>> ELSE OpenSteps("udp") \o TableSteps
    IN /\ serving /\ \E a \in Listening : Protocol[a] = "udp"
       /\ Protocol[p] = "udp"
       /\ known \/ Cardinality(DOMAIN channels) < MaxChannels
       /\ \E k \in Attempts(steps) :
            LET made == InitChannel("udp", k - 2)
                opened == IF known THEN stats ELSE ConnectionOpen(stats, p, "outgoing")
            IN /\ Recorded(steps, k, "udp")
               /\ slots' = SlotsAfter(steps, k)
               /\ IF Succeeds(steps, k)
                  THEN /\ channels' = IF known THEN channels ELSE Put(channels, p, NewChannel)
                       /\ fds' = fds + One(~known)
                       /\ blocks' = blocks + TableBlocks(steps, k) + IF known THEN 0 ELSE ChannelBlocks(p)
                       /\ stats' \in {opened, MessageReceived(opened, p)} /\ Counts(stats')
                  ELSE /\ fds' = fds + IF k > 2 /\ ~known /\ ~made.ok THEN made.fds ELSE 0
                       /\ UNCHANGED <<channels, blocks, stats>>
       /\ UNCHANGED <<shadow, listeners, objects, user, pinned, serving, closing, disturbed>>

\* The channels of the shadow array are let go; listeners keep their reference.
Unpin ==
    /\ serving
    /\ serving' = FALSE /\ pinned' = {}
    /\ Unref(pinned, channels, stats)
    /\ UNCHANGED <<slots, shadow, listeners, objects, user, closing, historyVars, disturbed>>

-----------------------------------------------------------------------------
Clean ==
    /\ ~closing /\ ~serving /\ \A u \in Users : user[u].pc = "idle"
    /\ closing' = TRUE
    /\ channels' = [t \in {} |-> NewChannel] /\ listeners' = <<>>
    /\ slots' = 0 /\ shadow' = [size |-> 0, there |-> FALSE]
    /\ stats' = AllRemoved(AllClosed(stats, DOMAIN channels), listeners)
    /\ fds' = fds - (Cardinality(DOMAIN channels) + Len(listeners))
    /\ blocks' = blocks - (MapThenSumSet(ChannelBlocks, DOMAIN channels) + One(slots > 0)
                           + One(shadow.there)
                           + MapThenSumSet(LAMBDA i : ListenerBlocks(listeners[i].address), DOMAIN listeners))
    /\ UNCHANGED <<objects, user, pinned, serving, historyVars, disturbed>>

UserStep(u) ==
    \/ \E t \in setting.targets : OpenConnect(u, t)
    \/ OpenAdd(u)
    \/ \E t \in DOMAIN channels : CloseAtOnce(u, t) \/ ClosePosts(u, t)
    \/ \E a \in setting.addresses : AddListener(u, a) \/ RemoveListener(u, a)
    \/ \E o \in setting.objects : RegisterObject(u, o) \/ UnregisterObject(u, o)
    \/ Tell(u) \/ Report(u)

WorkerStep ==
    \/ Pin \/ Unpin
    \/ \E t \in DOMAIN channels : Transfer(t) \/ CloseByWorker(t)
    \/ \E p \in setting.peers : Accept(p) \/ AcceptUdp(p)

Next == (\E u \in setting.users : UserStep(u)) \/ WorkerStep \/ Clean

Spec == Init /\ [][Next]_vars

-----------------------------------------------------------------------------
(* Properties.                                                                *)

Connecting == {u \in Users : user[u].pc = "connected"}

OwnedFds == Cardinality(DOMAIN channels) + Len(listeners) + Cardinality(Connecting)

OwnedBlocks ==
    MapThenSumSet(ChannelBlocks, DOMAIN channels) + One(slots > 0) + One(shadow.there)
    + MapThenSumSet(LAMBDA i : ListenerBlocks(listeners[i].address), DOMAIN listeners)
    + MapThenSumSet(LAMBDA u : ChannelBlocks(user[u].name), Connecting)

\* Whatever step fails, all memory and every descriptor belongs to a channel, a
\* listener or a thread that is connecting, and nothing is given back twice; but a
\* socket is lost where connect_to_udp finds no memory (posix/channel.cpp:378), and
\* a file where connect_to_file cannot make it non-blocking (line 155).
KnownLoss ==
    /\ failures' # failures
    /\ \/ failed'.protocol = "udp" /\ failed'.step \in {"address memory", "datagram buffer"}
       \/ failed'.protocol = "file" /\ failed'.step = "nonblocking"

NothingLost ==
    [][/\ blocks' = OwnedBlocks'
       /\ fds' + OwnedFds = fds + OwnedFds' + One(KnownLoss)]_vars

\* The monitor shows the connections that there are, no more and no fewer, however
\* the worker's last events of a channel meet the thread that closes it.
ShownConnections == DOMAIN stats.connections = DOMAIN channels

\* When no thread is in between it shows the listeners and objects that there are,
\* unless two threads have worked on the same name at once.
ShownAtRest ==
    (\A u \in Users : user[u].pc \in {"idle", "connected"}) /\ ~disturbed =>
        stats.listeners = Listening /\ stats.objects = objects

\* What the monitor shows is what there is.
ShownRight == ShownConnections /\ ShownAtRest
=============================================================================
