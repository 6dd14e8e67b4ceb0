# TrainProject: TLA+ models and proofs

The repository simulates a railway: trains run over segments and stop at the
platforms of stations, travellers buy tickets, board and alight.  Stations are
spread over several *nodes* (Ada programs, `railway/`); a *central ticket office*,
a *central controller* and a *name server* (Scala) serve all of them.  The parts
talk through the YAMI4 messaging library, whose source is part of the repository
(`lib/yami4-gpl-1.6.0`): the nodes use its C++ agent through an Ada wrapper.

This directory models the parts in which something can go wrong that a test would
hardly find: the queues, guards and requeues of the protected objects trains use,
the boarding of travellers, the sale of seats, the passage of trains between nodes,
the distributed termination, and the library's channels, agents, parameters
objects and queues, in which threads, callbacks and failures meet.  TLC checks every
module on small instances.  TLAPS proves, for all instances, the safety of the gate,
the segment and the platform, that a segment is a one-way track, that travellers are
where the queues and the seats say and are not carried past their platform, that a
train is executed on one node, the order of the shutdown, that seats, runs and tickets
agree, and that the library dispatches messages to the right object, completes each
message it sends once, and counts right what is under way.

## 1. The system

### The simulation

| Part | State | Operations | Interaction |
|---|---|---|---|
| Priority gate (`railway/src/priority_access.adb`) | `Free`, two entry queues | `Gain_Access`, `Access_Gained` | taken by a train's task before it registers at a segment or platform; FB trains first |
| Segment (`segment.adb`) | running trains, direction, order of registration, retry counters | `Enter`, `Leave` | procedures that call the gate and six entries with requeues; on `Leave` hands the train to the next station |
| Station (`generic_station.adb`, `regional_station.adb`) | an access controller per incoming segment | `Enter`, `Leave`, `Add_Train`, `Terminate_Platforms` | keeps the order in which trains left the segment |
| Platform (`platform.adb`) | order of trains, travellers' arrival and departure queues, last run per train | `Enter`, `Leave`, `Add_Incoming/Outgoing_Traveler`, `Terminate` | boards and alights travellers, calls the traveller pool |
| Gateway station (`gateway_station.adb`, `remote_station_interface.adb`, `handlers.adb`) | the platforms that two nodes share | `Send_Train`, `Occupy_Platform`, `Leave`, the transfer handlers | messages between nodes whose sender waits for the reply |
| Train pool (`train_pool.adb`, `queue.adb`) | queues of train descriptors | one stage of a train per iteration | drives segments and stations, updates the time table |
| Travellers (`move_operation.adb`, `traveler_pool.adb`) | ticket, place | `BUY_TICKET`, `TICKET_READY`, `LEAVE`, `ENTER` | operations executed by a pool of tasks |
| Time table (`time_table.adb`) | run, run id, cursor, dates | `Update_Time_Table` | calls the central office at the end of a run |
| Regional ticket office (`regional_ticket_office.adb`) | precomputed paths | `Create_Ticket`, `Get_Ticket` | asks the central office for other regions and for FB trains |
| Central ticket office (`central_ticket_office/src`) | request counter, marker flag, buffers, pools of actors; seats per run | `resolve`, `validate`, `update_run`, `terminate` | actors plus the receiving thread of the messaging agent |
| Central controller (`central_controller/src`) | nodes still to confirm | `DistributedStop`, `Continue`, `NodeTerminated`, `Stop` | asks office, name server and nodes |
| Name server (`name_server/src/Server.scala`) | bound nodes | bind, resolve, list, remove, terminate | used by all |

### The messaging library (`lib/yami4-gpl-1.6.0/src`)

| Part | State | Operations | Interaction |
|---|---|---|---|
| Allocator (`core/allocator.cpp`) | segments of a private area, list of the free ones | `allocate`, `deallocate` | takes all memory of an agent from an area, or from the system |
| Parameters (`core/parameters*.cpp`, `serialization.cpp`) | entries with locks, nested objects | setters, getters, `merge`, `clear`, `remove`, `serialize`, `deserialize` | the content of every message |
| Parameters of C++ (`cpp/parameters.cpp`) | an owned core object, a view | copies, assignment, views, iterators | wraps the core's |
| Channel (`core/channel.cpp`) | outgoing frames, incoming messages in parts, mode, reference count | `post`, `post_close`, `do_some_work` | all under the group's mutex, given up around callbacks |
| Channel group (`core/channel_group.cpp`, `posix/selector.cpp`) | table of channels with sequence numbers, listeners | `open`, `post`, `close`, `clean`, `do_some_work` | threads of the program, and one worker |
| Connections (`core/posix/channel.cpp`, `posix/listener.cpp`) | descriptors and blocks of each | connect, accept, listen for tcp, udp, unix, file | each of their steps may fail |
| Agent (`cpp/agent_impl.cpp`) | infos of outgoing messages, flow levels, queue of requests | `send`, failover, callbacks, worker, destructor | on top of the group; dispatcher threads call the program's objects |
| Dispatch (`cpp/name_resolver.cpp`, `incoming_message.cpp`) | registered objects | `register_object`, look-up, reply, reject | dispatcher threads against the program's |
| Value publisher (`cpp/value_publisher_impl.cpp`) | subscriptions with the updates last sent | `subscribe`, `publish`, registration | one mutex over all, also while it waits |
| Statistics (`cpp/activity_statistics_monitor.cpp`) | counters per connection, listener, object | the event notifications, `get` | told by group and agent |
| Python binding (`python3/yami4py.cpp`) | queue of messages and events | put, get, terminate | dispatchers and consumers on one condition, with the interpreter's lock |

What is hard in it: every train is a task of its own that is moved between entry
queues by *requeue*, woken by counters; operations of one train are sequences of
calls with other trains between any two of them; travellers' operations run while
trains walk through the queues they are in; an actor and a thread share variables
without synchronisation; messages are lost or overtaken; parts are shut down while
others still call them.  In the library: a mutex that is given up in the middle of
work on a channel, objects kept alive by counts that several threads change,
decisions taken under one lock and carried out under another, memory that runs out
at any allocation.  `PROJECT.json` lists these hazards at their lines.

What makes each part correct: one train at a time inside a gate, FB trains
preferred; trains on a segment go one way, do not catch up, leave in order, and
neither end waits for ever or is passed over more than Max times; a platform holds
one train, in the order of the segments; no traveller is lost, duplicated or carried
past; no seat of a run is sold twice; a train is executed on one node, once; a stop
ends every part, none before those that need it.  For the library: no object is
freed too early, twice or never; a sender is told once what happened to its message;
messages arrive whole; a failed operation changes and loses nothing; locks and
monitors tell the truth; and no thread waits for ever.

## 2. Modules

| Module | Models | Composes |
|---|---|---|
| `PriorityAccess` | the gate | |
| `Segment` | one segment and the trains that use it | `PriorityAccess` |
| `OneWayTrack` | *abstract*: what a segment promises | |
| `SegmentOrder` | history variables over `Segment`, refinement of `OneWayTrack` | `Segment`, `OneWayTrack` |
| `Station` | access controllers, platform object, shutdown | `PriorityAccess` |
| `Boarding` | travellers, platform queues, time tables as boarding sees them | |
| `GatewayTransfer` | nodes with pools, platforms, messages, handlers, losses | |
| `Booking` | runs and seats at the office, time table of the train, failing calls | |
| `TicketOffice` | the request side of the office | |
| `Termination` | controller, nodes, name server | `TicketOffice` |
| `Office` | both sides of the central ticket office | `Termination`, `Booking` |
| `YamiChannel` | the functions on one channel, as operators | |
| `YamiGroup` | channel table, threads, worker, selector, peers | `YamiChannel` |
| `YamiAgent` | sending, progress, replies, flow control, destruction | |
| `YamiDispatch` | look-up and call of objects, answers | |
| `YamiConnections` | what connections own when steps fail, and their statistics | `YamiStatistics` |
| `YamiStatistics` | the monitor's counters, as operators | |
| `YamiParameters` | parameters objects, memory, serialised form | |
| `YamiViews` | ownership between C++ parameters objects | |
| `YamiAllocator` | the private area | |
| `YamiPublisher` | subscribers and publication | |
| `YamiPython` | the binding's queue and its threads | |
| `PriorityAccessProofs`, `SegmentProofs`, `StationProofs`, `BoardingProofs`, `GatewayTransferProofs`, `OfficeProofs`, `YamiAgentProofs`, `YamiGroupProofs` | theorems | the module each is named for; `SegmentProofs`: `SegmentOrder`; `YamiAgentProofs`: `YamiDispatch` |

`MCx` modules give the constants of module `x` the values of an instance.  Four of
them explore several modules in one run: `MCStations` (`Boarding`, `Station`,
`GatewayTransfer`), `MCOffice` (`Termination`, `Booking`), `MCYamiThreads` (`YamiAgent`,
`YamiGroup` with fair threads, `YamiPublisher`, `YamiPython`) and `MCYamiResources`
(`YamiGroup`, `YamiConnections`, `YamiParameters`, `YamiViews`, `YamiAllocator`,
`YamiDispatch`).  `MCYamiFrames` holds the frames that peers send in the two runs of `YamiGroup`,
`MCYamiEntries` the entries and messages the two runs of `YamiParameters` share.  The
parts share no state: a variable `part`, fixed at the start, says which runs, and `VIEW`
leaves the variables of the others out.  A liveness property of a part is stated of the
behaviours that are fair to it: `Runs("x") /\ XFairness => ...`.  (In `MCOffice`, where one
part only needs fairness, it is in `MCSpec`.)  In `MCYamiResources` the model values of
the threads and channels of `YamiGroup` serve as handles and keys of other parts too, so
that one symmetry covers all.  The assumptions of instanced modules are definitions that
are asserted there (`PartsAssumption`; in `Office`, `BookedAssumption`), in `MCOffice` also that the offers fit the routes.

In each module a section of *mutations* holds wrong versions of some definitions;
each property of each run fails when one of them replaces the right one.

### Conventions

* **Protected objects.**  Every entry body is one action, which is what the Ada
  rules give: it runs with the object locked.  A caller inside the object is a
  member of the queue of one entry, so `E'Count` is a length.  A queued call whose
  guard is open is served before a call from outside: calls need `Quiescent` (or
  its counterparts in `Station`).  Entry queues are FIFO, the choice among open
  entries is arbitrary.  `Perform_Enter` contains `delay 0.2` (segment.adb:134, 155),
  which the language calls a bounded error in a protected action; it is treated as
  the passing of time.
* **Gate.**  `gate[t]` is "out", "waiting" or "inside".  `Settled` is the same rule
  about queued callers.
* **Trains.**  `pc[t]` is the place of the train's task in the procedure that calls
  the objects; the name of an entry means *queued on it*.
* **Operations of travellers** run one at a time for each traveller, whichever task
  takes them: a traveller has one outstanding operation.
* **Actors** handle one message at a time from a FIFO mailbox.  A handler is split
  where it touches what the YAMI thread touches.
* **Mutexes.**  What a C++ function does between two of its lock operations is one
  action; it is split where the mutex is given up, also for a call of user code.
* **Undefined behaviour.**  Where the code uses memory that it has freed, the model
  records it (`undefined`, `broken`, links that leave the headers in the allocator)
  and the behaviour ends: nothing can be said of the program from there.  The places
  are listed below.
* **`setting`** is a variable that never changes: the environment of a behaviour
  (which messages are posted, what peers send, how many steps fail), chosen at
  the start from a few that the MC module names.  One run so covers environments
  whose product would be too large.
* **History variables** are read by no guard; their comments say so.

### Module by module: the simulation

**PriorityAccess.**  `fbQueue`, `regionalQueue` are the queues behind the requeue of
`Gain_Access`; `Barrier` and `RegionalBarrier` the guards of the two entries.

**Segment.**  Variables have the names of the code (`Free`, `Current_Direction`,
`Running_Trains`, `Trains_Order`, `Retry_Num`, ...); `Can_Enter` joins
`Can_Enter_First_End` and `Can_Enter_Second_End`, `waitQ` the queues of the two
`Retry_..._End` entries.  Registration (gate, `Add_Train`, `Access_Gained`) and the
call of `Enter` are separate actions, as other trains come between.  `Enter` has
three outcomes: exception, requeue on `Retry`, requeue on `Perform_Enter`; that one
two: run or wait at its end.  `Settle` is the environment: the station takes the
train, which comes again from any origin.

**OneWayTrack, SegmentOrder.**  The abstract track knows lines at two ends, a track
with a direction, and exits; trains enter in the order of their line, against no
one, and come out in order.  `Segment` implements it with `Running_Trains`,
`Current_Direction`, `arrivals` and a history variable `line`.  A second history
variable counts how often trains that wait at an end are passed over.

**Station.**  A train goes through `Access_Controller.Enter` of its segment, the gate,
`Platform_Type.Add_Train`, `Access_Controller.Free` and `Platform_Type.Enter`; a task
of the pool takes its descriptor and leaves.  `StopPool` then `Terminate_Platform` is
the termination handler (handlers.adb).  `ahead` is history: for each train, those that
left its segment before it and do not stand yet.

**Boarding.**  The loops of `Perform_Entrance` and `Perform_Exit` read a queue's
length and then take that many travellers, one per step, so travellers join
queues in between.  `turns` is what is left of the loop.  FB trains have a
time table: `due` counts scheduled departures whose time has come, `Buy` books a
stage for the run `Validate` selects, `TimeComes` updates the time table before
the train leaves (train_pool.adb:130-139), and `BeginExit` then reads how many wait
(platform.adb:239); travellers may come in between.  `round` and `left` are history.

**GatewayTransfer.**  Every node has its own record of each train (`stage`), its own
platforms, a pool with a number of tasks and a number of dispatcher threads for
messages.  A task takes a descriptor (`Dequeue`), leaves the platform (`Depart`; from
a gateway it tells the node the train came from, and waits: "telling"), comes off
the segment (`Arrive`) and enters the next platform, after which the descriptor is put
back (`NextStage`) or the train sent (`SendTrain`; the task waits for the reply).  A
dispatcher executes the transfer handler, which occupies the platform and may block
in it (`Occupy`), or the handler of a train that left, which frees the platform and
may pass the message on (`PassOn`).  `LoseMessage` and `LoseReply` are the callbacks
of a message that is rejected or abandoned, whether or not it was handled.
Segments, gates and travellers are left to their modules.

**Booking.**  Rows of a time table hold the number of the round whose dates they
carry, which is all the dates decide: `UpdateRun` moves the last row to the front
and dates the others after it.  A call of a train to the office may fail before or
after the office has handled it (`CallFails`); nothing repeats it
(message_agent.adb, `Send`).  `Indexes` is the search for the stages of a ticket in
the halves of an out-and-back route.  The code refills new rows with the constant 5;
`SeatsAccounted` holds because the configured trains have 5 seats (`Refill` = `Sits`).

**TicketOffice, Termination.**  `MessagesReceiver` is an actor whose fields
`creationRequests` and `markerReceived` are also used by `call`, which runs in a
thread of the messaging agent.  With `StaleReads`, as in the run, a read that races with a
write may return the old value (`MarkerRead`, `CountRead`), as the JVM allows for plain
fields.  The stretch in which it may ends where the writer next takes a lock: the thread
when it leaves the handler of the marker, the actor when it goes back to its mailbox;
an actor that has acknowledged has seen the marker.  `race` is history: how the two
passed each other unseen.  Workers are the
`TicketCreator` actors; one that has no list of nodes and cannot get it dies
(PathResolver.scala:321-325).  The controller, after it has seen the last
confirmation, does not react again, so the `Stop` it sends itself stays unread.

### Module by module: the library

**YamiChannel.**  A channel is a record: mode, references, outgoing frames of which
the first may be written in part, incoming messages with the frames that have come.
Bytes are counted in words, a frame is known by its message and number.  Operators
give what each function makes of the record: `InsertionPoint` for priorities, the
pill of `post_close`, reassembly (`Complete`), `HardClose`, `CleanOutgoing`.

**YamiGroup.**  `user` is where each thread is in `open`, `post`, `close` or `clean`,
split where the mutex is given up (`connect`, callbacks); `worker` pins all channels,
waits in the selector (`Wake`: any set of reports), serves those reported and unpins, each
time in the order of the table, of which it has a copy (`First`).
`link` is what each peer still sends, cut at any word.  `holders` is the table with
its sequence numbers.  Allocations may fail, up to the setting's number.

**YamiAgent.**  The core is the promise of `YamiGroup`: each posted message is reported
once.  `thread` walks through `do_send` (gate, create, increase, post and what undoes
them); the sends of a failover call share an id and have turns, and the call goes on with
the next turn; `info` is the reference-counted record
shared by manager, progress callback and program; `worker` reports or reads;
`level`/`allowed` and `levelIn`/`allowedIn` are the two flow controls, each with its
decision and its effect in separate steps; `stopping` the destructor.

**YamiDispatch.**  A dispatcher takes a message, resolves its object under the
resolver's mutex and calls it without; meanwhile the program registers, replaces
and unregisters.  Handlers reply, reject, throw, or keep a copy of the message.

**YamiConnections, YamiStatistics.**  Each way to connect, accept or listen is a
sequence of steps, any of which may fail; the operators give what is open and
allocated after each and what its clean-up gives back.  The monitor is told of each
by the calls the code makes, inside or after the lock.

**YamiParameters.**  An object is its slots, nested objects within; `mem` is the
number of allocations that still succeed and the blocks alive, so that every
operation is explored with memory that ends at each of its allocations.  `Words`
and `Deserialize` are the serialised form, with its padding, strings and arrays.
The recursion over nested objects makes this a module without theorems.

**YamiViews.**  Handles own a core object or view one; references (to values, entries
and iterators) are what the program still holds.

**YamiAllocator.**  Headers with both lists of the code; `given` is what the program
holds.

**YamiPublisher.**  `publish` goes subscriber by subscriber and update by update, with
the mutex held, while the agent sends or abandons updates and channels break.

**YamiPython.**  All threads that use the queue; `pthread_cond_signal` wakes any one
waiter; `gil` is the interpreter's lock where a call keeps it.

## 3. Runs

| Run | Instance | Shows |
|---|---|---|
| `segment` | 3 trains (1 FB, 2 speeds), Max = 1, also from a wrong station | `GateExclusion`, `OneWay`, `NoCatchUp`, `BoundedBypass`, `ImplementsTrack`, `EveryTrainPasses` |
| `stations` | boarding: 2 travellers, 1 FB and 1 regional train, 3 platforms, 3 runs; platform: 3 trains, 2 segments, shutdown at any moment; transfer: 2 nodes, 2 trains over both, 2 tasks each, 2 and 1 dispatchers, one loss | `TravelersAccounted`, `TravelersServed`; `PlatformInOrder`, `EveryTrainStands`; `OneExecutor`, `PlatformsPaired`, `EveryTrainRuns`, `EveryTaskEnds` |
| `office` | end: 2 nodes, 2 requests, 2 workers, 2 presses of Stop, crash, outdated reads; booking: 2 routes, 1 seat, three rounds of a table of 3 rows | `ShutdownInOrder`, `TerminatesUndisturbed`; `TablesAgree`, `BookedAhead` |
| `yami_threads` | group with fair threads; publisher with 2 subscribers and lists of 2; the binding with one thread of each kind and a queue of 1; agent: 2 senders, 2 dispatchers, 3 messages of each kind, groups of 2 and 3 targets, marks 2 and 1 | `EveryMessageAnswered`; `SubscribersKept`, `PublishEnds`; `QueueDrains`; `CountsRight`, `CompletedOnce`, `SendersAreAdmitted`, `RequestsAreDispatched`, `AgentStopEnds` |
| `yami_resources` | group: 2 threads, 2 channels, 2 messages of 2 and 1 frames, peers that send well or badly; connections: 2 threads, every protocol, one failure; objects of 2 entries and depth 3; 2 handles, 4 core objects; an area of 36 words; 2 dispatchers, 2 objects | `ReferencesCounted`, `ToldWhatWasSent`, `DeliveredWhole`, `TableRight`; `ShownRight`, `NothingLost`; `RoundTrip`, `FailuresContained`, `LocksKeep`; `OwnedOnce`, `ReferencesStay`; `AllFreeOnList`; `DispatchedRight` |
| `boarding_lost` | as `stations` | *violation* of `LostOnlyAfterDeparture` |
| `boarded_early` | as `stations` | *violation* of `BoardsBookedRun` |
| `termination_lost` | 2 requests, 1 worker | *violation* of `Terminates` |
| `yami_allocator` | as `yami_resources` | *violation* of `OnlyFreeOnList` |
| `yami_dispatch_deleted` | 2 dispatchers, 3 objects | *violation* of `DispatchedToLiving` |
| `yami_buffer_short` | as `yami_resources` | *violation* of `BufferSuffices` |
| `yami_python_stuck` | one thread of each kind, a queue of 2 | *violation* of `MessagesDelivered` |

**Bounds.**  With three trains on a segment, one runs, one waits opposite and one is
queued behind either: every guard opens with 0, 1 and 2 waiting trains, which is
where the counters change behaviour; Max = 1 makes the limit bite at the second
train.  The inductive invariant of the segment was also checked with four.  Trains never
end, so there is no bound on the length of behaviours.  `MaxDue` bounds the
scheduled departures of an FB train (three runs in `Boarding`; in `Booking` three
rounds, the roll-over of the table and what follows a lost reply up to the row
that does not exist), `MaxLate` how late a train may be in `Booking`, `MaxPresses`
the presses of Stop.  In `Booking` the train of the second route stands still: it
serves for tickets over two nodes and two routes.  One seat makes two tickets
compete.  In `GatewayTransfer` the two trains cross at both platforms of the
gateway and share a platform on each node; one dispatcher is the least with which a
message blocks behind another, two the least with which a handler falls behind one;
`MaxLost` = 1 is one lost message or reply at any point.  In the library, two threads
and the worker are the least that race for one channel, two frames the least that
another message can come between, two channels the least for which a descriptor
outlives its place; three core objects beside one are what a deep copy needs; memory
that ends after one allocation, or never, meets each allocation of an operation as the
first that fails or not (`Limits`), with objects filled before; an
area of 36 words holds three segments beside a free one, the least with which a
split meets a free neighbour; marks 2 and 1 are the least that differ.  Lists and
queues are at their limit in each instance (`MaxQueueLength` 2, `MaxLength` 1).

Symmetry is used in `yami_resources` only, of threads and channels, which are handles and
keys too; no liveness is checked there.
`CHECK_DEADLOCK FALSE` is given where the system really stops: after termination,
after the bounds of `Booking`, behind a train from a wrong station in `Segment`
(whose liveness property says that nothing else stops it), when nothing is left to
send, and where a behaviour ends because the code's is undefined.

**Fairness.**  Open entries are served by the Ada run-time system, and a task that
has begun a stage goes on when it can: weak fairness of the served entries and of
each train's steps; in `Station` strong fairness of trains, as a task may find the
lock of an object taken again and again and the lock is granted to each waiting
task in the end.  No train has to begin a stage there, no traveller has to ask, the
user need not press Stop, nothing has to fail.  In `GatewayTransfer` the tasks run
trains for ever, as those of the pool do; each task, and the handling of messages of
each train, is weakly fair, since each is a thread of its own once it has begun.  An
actor with a message handles it, a thread finishes its handler.  In `YamiGroup` the
worker's steps are weakly fair, the readiness of a channel that can be written is
strongly fair (a peer that reads makes room again and again), and so are threads that
wait for the mutex; nothing has to come in or to be called.  The publisher's steps are
weakly fair, and so is the sending of what each connected subscriber was given
(`Transmit`): it is assumed that a subscriber which is connected goes on reading.  The Python consumers and the
closing thread need strong fairness: they compete for the interpreter's lock, which
the interpreter hands round.  `QueueDrains` has one more condition, `[]Calm`: no two threads wait
for room in the queue at once, and none waits for it with the interpreter's lock.  The code
does not see to either; without it threads do wait for ever, which `yami_python_stuck`
shows and §5 describes.

## 4. Proofs

Each proof module extends the module it is named for; `SegmentProofs` is about
`SegmentOrder`, which extends `Segment`, and what `OfficeProofs` says is about the two
modules that `Office` puts together, `Termination` and an instance `Booked` of `Booking`
with constants of its own.  All theorems are of the form
`Spec => []...` (or `Spec => ImplementsTrack`, `Spec => BookedAhead`) and hold for every value of the
constants under the modules' assumptions; there is one lemma per action, and in it a
step per conjunct of the invariant that the action disturbs.

| Theorem | What it says | Assumptions |
|---|---|---|
| `GateIsExclusive` | one train at a time inside a gate, `GateExclusion` | `FBAssumption` |
| `SegmentTypes` | types; no counter below zero, no queue taken from when empty | `EndsAssumption`, `MaxAssumption`, `SpeedAssumption` |
| `SegmentIsOneWay` | `OneWay`: trains on a segment have entered at one end | " |
| `SegmentNoCatchUp` | `NoCatchUp`: no train runs faster than one before it | " |
| `SegmentRetries` | a guard of a retry entry is open exactly while its counter is positive, for no more trains than wait | " |
| `SegmentBypass` | `BoundedBypass`: a waiting train is passed over by Max trains of the other end at most | " |
| `SegmentImplementsTrack` | `ImplementsTrack`: each step of a segment is one of `OneWayTrack` or none | " |
| `StationTypes` | types of a station's objects | `FBAssumption` |
| `PlatformIsOrdered` | one train holds the platform; trains of a segment get it in the order in which they left the segment; each takes itself out of the order | " |
| `BoardingTypes` | types of platforms, trains and travellers; no ticket is read past its last stage | `BoardingAssumption` |
| `TravelersAreAccounted` | `TravelersAccounted`: a traveller is once in the queue its ticket names or in none, and the seats taken are the riders | " |
| `NoneIsCarriedPast` | no train leaves a platform with a traveller whose stage ends there | " |
| `TravelersAreServed` | `TravelersServed`: also, whoever boards a booked train boards it one run late at most and two runs early at most | ", `OneDatePerStage` |
| `GatewayTypes` | types of the nodes of a gateway | `GatewayAssumption` |
| `TrainsRunOnce` | `OneExecutor`: a train is executed by one task of one node, whatever is lost | " |
| `TerminationTypes` | types of controller, nodes and office | `OfficeAssumption`, `TerminationAssumption` |
| `ShutdownIsOrdered` | `ShutdownInOrder`, also where actor and thread read outdated values: then a node is asked to end while a ticket is in progress only after the thread acknowledged on an outdated count | " |
| `FreshReadsDoNotRace` | no ticket at all is in progress once a node was asked to end, and nobody misses an acknowledgement, where reads are not outdated | ", `~StaleReads` |
| `OfficeAndTrainsAgree` | `RunsAgree` and `NumberOfRound`: train and office agree on run, number and table whenever no call is under way, until one fails; tickets carry the number the train has | `BookedAssumption` |
| `SeatsAndTablesAgree` | `TablesAgree`: also, the seats left are those not sold, whatever fails | ", `Refill = Sits` |
| `TicketsAreAhead` | `BookedAhead`: tickets are for departures to come, and from and to where the traveller wants | ", `OffersFit` |
| `AgentTypes` | types of the agent's objects; no count of references, level or queue below zero | `AgentAssumption` |
| `MessagesCompletedOnce` | `CompletedOnce`: a message is completed at most once, those who wait are let go only then, and no later reply changes it | " |
| `AgentCounts` | `CountsRight`: references are those of who uses an info, nothing freed is used, and the level of outgoing messages is their number, while no failover message was abandoned; the level of requests is bounded | " |
| `MessagesDispatchedRight` | a message that comes after an object has been unregistered or replaced does not reach it; program and agent answer a message once each at most, and both only if its object throws | `DispatchAssumption` |
| `ChannelReferences` | `ReferencesCounted`: a listed channel has the references of the table and of the worker, and one at least; what is pinned is not freed | `GroupAssumption` |
| `TableOfChannels` | `TableRight`: one channel for a target, and no descriptor reaches a channel it was not given for | " |

The assumptions say that sets of names are disjoint or finite and that bounds and
speeds are positive numbers; that of `Boarding` also gives the types of routes and
tickets, and that trains begin at platforms of their own, as those of trains.json and
routes.json do.  That of `YamiAgent` says which calls there are: the sends of a failover
call have the id of its first target and distinct turns, and low water marks are between
1 and the high ones (a low mark of 0 closes the gate for good, §5).  That of `YamiGroup` keeps
channels and targets apart: a connection that is accepted gets a target of its own, the
address and port of the peer, which the model writes as the channel itself.  None
restricts what the code does.  `OneDatePerStage` is a hypothesis of
one theorem, not of the model: it says that a run of a time table has as many dates as
its route has stages.  Where it fails, as for routes 4 and 5 of the configuration
(§5), rounds and runs drift apart and comparing them says nothing; the other
three theorems do not need it.  Of `Booking` two theorems have a hypothesis of their own.
`Refill = Sits`: `UpdateRun` writes 5 seats into every new row, whatever the train has
(BookingManager.scala:178-189), which is right for the trains of trains.json only.
`OffersFit`: of the stations of a node each half of a route leaves, and reaches, each
once, a ticket stage lies in a half, and the stages of a ticket follow the route; the
search of `Validate` takes the last match in a half and knows only stations and nodes.
The routes of routes.json are such, and the office computes tickets from them.

**The gate.**  Exclusion alone is not inductive: that the train admitted from a queue
was waiting, and in one queue only, must be known.  `PriorityAccessProofs` begins with
the lemmas on queues of distinct trains that all proofs about entry queues use:
`Line(q)` (no train twice) and `StandsIn(t, q)` are kept by `Append` and `Tail`, and
what the head of a line is.

**The segment.**  One inductive invariant `IInv` gives the first four theorems:

* `QueuesMatch`: a train is in the queue its `pc` names, once, and in no other;
* `NoneMissing`: the registered trains that have not entered stand in
  `Trains_Order`, which is what makes its first element defined where the code
  takes it;
* `TrackCounted`: `OneWay` in an inductive form, with the trains whose `pc` is on the
  track standing in `Running_Trains`;
* `RetryCounters`: each guard with its counter.  That the one counter of the two
  ends never serves both needs `NoneLeavesWhileEntering`: while a guard of an end
  is open no train is on its way out, so no second guard is opened;
* `SlowestKnown`: `Current_Max_Speed` is at most the speed of every running train,
  from which `NoCatchUp` is kept when a train enters.

The second part of `SegmentProofs` adds the history variables.  `ServeInv` says how waiting trains
are served: those whose retry is granted and those that wait are kept apart
(`ServedApart`), the direction is that of the trains that are on their way in
(`DirectionKnown`, `OneEndEnters`), and trains wait only for a reason (`WaitersHeld`).  On
it rest `BypassInv` (`PassedOver`: how often an end was passed over is bounded by the
trains counted in this direction) and `LineInv` (`OrderMatches`, `NoneHidden`, `LineMatches`,
`LineKeptInOrder`: the abstract line of an end is what `Trains_Order` holds of it,
less the trains that are served).  The last theorem then maps each action: `Add_Train`
to the abstract registration, the ways into `Running_Trains` to the abstract entry,
and all else to a stutter.

**The platform.**  `PlatformInv` consists of `TypeOK`, `QueuesMatch`, `NoneMissing` (the
trains between segment and platform stand in the order of their access controller),
`CountersAgree` (a guard is open exactly while trains are counted that it lets retry),
`PassedIsFirst` (whoever the access controller has let through is the first of its
segment), `OrderKept` (a train that came before another through the same segment is
before it in the segment's order, and in the platform's once the later one has joined
that) and `TurnKept` (a train that stands or departs is the first of the platform,
until trains stand out of turn at the end).  The statement about `ahead` alone is not
inductive: between the two orders a train is in both, and the later one may join the
second only because it was let through as the first of the other.

**The travellers.**  `BoardInv` consists of `TypeOK`, `QueuesHold` (each queue of a platform
holds those that wait there, or ride there, once), `SeatsCounted`, `Ticketed` (who is not
buying has a stage left), `OneAtPlatform`, `TurnsLeft` (a loop has no more travellers to look
at than its queue holds) and `LookedAt`: those that alight from the train at a platform
are among the first `turns` of the arrival queue, and none is left when the train
boards.  The last is what the fixed number of turns of both loops is for: a traveller
who comes meanwhile stands behind them, one who stays seated goes to the end, and
`OneAtPlatform` keeps another train's loop away.  It gives `NoneIsCarriedPast`.  How late a
traveller may be is a matter of three numbers: `RunIsRound` says that the run of a time
table is the train's round, one ahead from the update of the time table at the last
stage until the train leaves, and `RunRecorded` that the run a platform has recorded
for a train is the train's round at platforms already passed in it and at most one
behind elsewhere.  A traveller is told that it lost its train only if the recorded run is
beyond the booked one, so whoever boards is at most one run late.  That it is at most two runs
early is `BookedAtMostNext`: the office books the run of the time table, which may be one ahead of
the round, or the one after it.

**The gateway.**  `OneExecutor` is not inductive: a task waits for the reply of a message
about its train and goes on when the reply, or the loss of the message, comes.  If a
reply could come twice, or after its loss had been noticed, or if two messages
could be under way for one train, a train would run on two nodes.  `GatewayInv` therefore speaks of two kinds of right: to execute a train
(`TrainRight`) and to tell a waiting task to go on (`AnswerRight`).  A right is carried by
a pool, a task, a message in an inbox or a handler; `PoolOnce`, `InboxOnce` and
`HandsOnce` say that nothing carries it twice over, `OneBearer` that nobody else carries
it too, and `AnswersAwaited` that a right to answer is there only while a task
waits.  Each action hands on the rights it has and makes none, which is the one
step of the proof that every action shares.

**The shutdown.**  `OfficeInv` (`OfficeTypeOK`, `Fits`, `Waiting`, `AtWork`, `CurrentCounted`,
`Counts`, `AcknowledgedWhenIdle`, `RacesByStaleReads`) says where each counted request is:
unread, taken, buffered, at a worker, or answered.  From it an acknowledgement means that no
ticket is in progress, or that the one request was let in which the actor had counted but
the thread had not seen (`Early`).  `ControllerInv` (`ControllerTypes`, `AskedAfterAck`, `NodesFollow`,
`NoneForgotten`, `OneMarker`, `OfficeAskedLast`) carries that through the controller's
messages, in the order in which it asks.  It is proved with outdated reads; where reads
are fresh the exception falls away (`FreshReadsDoNotRace`).

**The booking.**  `BookInv` says of each route that the office has a row behind the current
one and rows of consecutive rounds (`OfficeRight`), that a train that calls stands at the
first stage of its next run (`TrainRight`), and how the two sides differ while a call is
on its way (`Agree`): the train is a run ahead until the call is handled, and behind in
number and table until it has the reply, in which it finds what it needs to catch up.
A failed call puts the route into `failed`, and `Agree` is claimed of the others.
`TicketsRight` bounds the rounds of the tickets by the last row of the table: a
roll-over makes rows for rounds beyond that, so nobody holds a seat of them, and the
row it keeps takes its seats along.  With the finitely many tickets sold (`Sold`)
`SeatsRight` then follows step by step, of every route by itself, whether calls fail or
not.  For `BookedAhead` a search that finds a stage finds the one the ticket means
(`IndexesFound`), and the row behind the current one holds no departure the train has made
(`NextRunAhead`), even while the train is the one that is ahead.

**The agent.**  `AgentInv` has two halves.  Of the messages that are sent (`Outgoing`):

* `OneSender`, `StepFits`: a message is sent by one thread at a time, and the thread's place
  in `do_send` fits what the core has done with the message;
* `SendRight`: the references of an info are those of the manager, of the reports of
  progress and of the program.  A failover message that is abandoned is let go once more
  when its exception is caught (`Caught`), which is right only because its entry was
  removed before.  When the next target of a group is tried the ones before it have
  neither entry nor thread (`Superseded`);
* `ReportTrue`, `EntriesById`: what the worker reports is what the core did, to the info
  that has the message's id.

`LevelRight` counts the messages between `increase` and `lower`.  Of the requests
(`Incoming`), `levelIn` is what is queued, served or just being pushed, and it exceeds the high
mark by at most the dispatchers: each that has seen the level fall to the low mark may
open the gate after others have seen it closed.  `AnswerAwaited` keeps a message in the
manager while its callback is told of the answer.  From these, step by step, no use of
a freed info, no id put twice into the manager and no level counted below zero
(`broken`, where a behaviour of the model ends) is reached while no failover message was
abandoned; with one, the extra release and count of agent_impl.cpp:1027-1050 make it
possible (§5), and once it has happened the invariant says no more of outgoing messages.

**Dispatch.**  `DispatchInv`: `Registered` (what has a name is not gone, and has no other
name), `StaysGone` (what was gone when a message came stays gone), `TargetForMessage` (a
dispatcher that has found an object has the message it found it for),
`LaterNotDispatched`, `InOnePlace` (a message is in the queue, or with one dispatcher,
or was), `OneUsable` and `UsableUnanswered` (of the copies of a message one can still
answer, and only while the program and the agent's look-up gave none), `NotHandedOn` (a
message that is rejected for want of an object was handed to nobody),
`TwoAnswersOnlyIfThrown`.

**The table of channels.**  `GroupInv`: `TableListed` (the slots hold the listed channels, each
once), `WorkerFits` (what is watched and served is pinned), `UsersFit` (what a thread
connects is its own and not in the table yet), `HandlesFit` (a descriptor's number is none
its slot will have for another channel), `ClosingAlone` (`clean` runs alone) and
`MailFits`.  A step that is in the middle of a frame changes nothing that counts
(`InPlace`); the others give up one reference (`Dropped`), put a channel into a free slot
(`Added`), pin or go.  `open` adds a channel only if it finds none of that target when
it has the mutex again, and closes its own otherwise, which is why `OneChannelPerTarget`
needs no more than the table.  A slot's number grows when it is filled (`SlotsKept`), so a
descriptor from before finds nothing there.  A behaviour
of the model ends where freed memory is used (`undefined`, §5).

The inductive invariants of segment (with four trains as well), station, travellers,
gateway, booking, agent, dispatch and the table of channels were checked with TLC before they were proved.

**Only model-checked.**

* Liveness under fairness, and `ENABLED`, are out of the prover's reach: `EveryTrainPasses`,
  `EveryTrainStands`, `EveryTrainRuns`, `EveryTaskEnds`,
  `TerminatesUndisturbed`, and those of the library.
* `YamiParameters`, `YamiViews`, `YamiAllocator` and `YamiConnections` hold recursive
  definitions, over nested objects or lists; what they compute for every input would
  need induction over data.
* `PlatformsPaired` is checked for the routes of the run only: with arbitrary routes the
  trains of the initial state may stand at a platform whose order does not name
  them, and the statement is not true from there.
* What `YamiGroup` says of messages (`ToldWhatWasSent`, `DeliveredWhole`, `ShownRight`):
  `YamiChannel`'s queues and reassembly would have to be followed word by word.
* `YamiPublisher`, `YamiPython`: all of their properties.

## 5. What was found

### Runs that show a disagreement with a comment or a report

* `boarding_lost`: train_pool.adb:130 updates the time table before the train leaves
  its last platform (139), so the platform records the next run's number for it
  (platform.adb:272), and a traveller who booked that next run is told it has lost the
  train.
* `boarded_early`: a traveller is sent away only if the run recorded for the train is
  greater than the booked one (platform.adb:291-293), where the comment (289) says "NOT the
  same".  The office books by the time the traveller asked (BookingManager.scala:312-315)
  from a table that is ahead of the train, so a traveller with a ticket for run 2 boards
  run 1.
* `termination_lost`: a request that arrives after the marker is counted, buffered
  and never taken off the count; the acknowledgement is never sent and the
  system does not end (MessagesReceiver.scala:98, 105, 116, 239).
* `yami_allocator`: after some orders of release the free list holds a segment that has
  been joined to its neighbour (allocator.cpp:151 leaves `prev_free_` as it was), and it
  is given out again as part of another.
* `yami_dispatch_deleted`: an object that is unregistered between look-up and call is
  called after the program was told it is gone (name_resolver.cpp:57,
  agent_impl.cpp:1303-1316, agent.h:157).
* `yami_buffer_short`: `get_serialize_buffer_size` counts no space for the word that
  `put_boolean_array` writes after an array whose length is a multiple of 32
  (parameters-details.cpp:535, serialization.cpp:511-533), so an object is refused with
  not_enough_space in a buffer of the size computed for it (core/parameters.h:1218).  By
  that `merge` of such objects (parameters.cpp:1493), messages with them
  (channel_group.cpp:245) and the C++ `serialize` (cpp/parameters.cpp:833) fail.
* `yami_python_stuck`: with one dispatcher thread, as is the default, a callback that replies
  on a connection which must be opened again reports an event, for which it waits while
  the queue is full (yami4py.cpp:302), and nobody else takes a message from the queue
  (yami.py:1035).  The default length of the queue is 100; any length can be full.

### Seen in the models or while reading: the simulation

* A traveller boards another run than the one it booked: the next one, as platform.adb:291-293
  compares with the run recorded at the *previous* passage, or an earlier one
  (`boarded_early`).  `BoardsNearItsRun` shows, and `TravelersAreServed` proves, that it is at most
  one run late and two early.
* The office may acknowledge one marker twice, when the last request is resolved
  between the two steps of the marker's handler (MessagesReceiver.scala:98-100,
  239-243); this is why `TerminatesUndisturbed` has `acks <= 1`.
* Actor and thread of the office each write one field and read the other's without
  synchronisation (MessagesReceiver.scala:14, 59, 97-98, 105-114, 236-239), and both may
  read the value from before.  Then the thread acknowledges while the actor dispatches a
  request that is in progress when the nodes are asked to end (`race` = "early"), or
  the actor takes the last request off without seeing the marker while the thread still
  sees it counted, nobody acknowledges, and the system does not end ("missed").  The
  first is excepted in `NoTicketInProgress`, the second in `Undisturbed`; both occur in the run.
* A second press of Stop is taken for the final marker, and a name server that does not
  answer looks like an empty list of nodes (CentralController.scala:107-119, 264-270);
  both break the order of the shutdown beyond what its property allows for.
* A node unbinds from the name server after it has confirmed its end
  (main.adb:226-231), when the name server may be gone; the report has the other order.
* After a lost reply to `Update_Run` at a roll-over the train runs past its table and
  its task drops it (`Drop` in `Booking`).
* Routes 4 and 5 of the configuration do not match their time tables (8 stages and 10
  dates per run; 4 stages and 3 dates), so runs and rounds of these trains drift apart.
  The models take a run to have a date for each stage (`Booking`) or any number
  (`Entries` in `Boarding`).
* Gateway: a node needs as many tasks as trains (report/concurrency.tex:52): with one
  task for two trains `EveryTrainRuns` fails, as two nodes wait for each other's reply.
  The configuration has five of each, and separate platforms per direction
  (report/distriburtion.tex:42).  The report (entity_interaction_train.tex:470-510)
  has the task interrupted as soon as it has sent; the code waits for the
  reply.  The handler of a train that left reads this node's stage
  (gateway_station.adb:181), which is stale after a lost reply; the message is
  then passed on to a node that does not expect it.

### Seen in the models or while reading: the library

* *Core.*  `post_close` and `clean_outgoing_frames` notify with the channel unpinned: the
  worker may free it meanwhile (channel.cpp:399, 514).  A listener's count is not given
  back (channel_group.cpp:1187, comment 1276).  `open` may return a channel that is
  closing.  Memory that ends at the end of a header looks like the end of the stream.
  `clean` of a group with a private area does not cancel its messages.  The selector
  compares `cc` with `EINTR` (selector.cpp:185).  An empty body whose header fills
  its frames is read past its end (channel_group.cpp).
* *Agent.*  The destructor stops the worker before the dispatchers, and waits for ever
  for an object that waits at a closed gate (agent_impl.cpp:624-640).  A
  failover message that is abandoned is released and counted out by the core's report and
  again by the handler of its exception (1032: "no progress will be ever reported for this
  message"); failover of one-way messages takes an abandoned message for sent.  The worker's late clean-up by id removes the info of the
  next attempt.  A low water mark of 0 closes the gate for good.  A transmitted message
  whose channel closes never completes.  Events before `install_event_notifications` are
  missed.  `init` leaves what it has made when a later step fails (488-585).
* *Dispatch.*  A message may get both a reply and a rejection, in either order: its object
  replies and then throws, or hands the message on and throws, and the agent rejects it
  without regard to the flag of incoming_message (agent_impl.cpp:1317-1350), where
  incoming_message.h:98 and 108 say "The reply (or rejection) can be sent only once."
  `AnsweredOnlyOnce` of `YamiDispatch` states that sentence; TLC refutes it with `Reply`, `Throw`
  in the instance of `yami_dispatch_deleted`.  What does hold is
  `TwoAnswersOnlyIfThrown`, which the run checks and `MessagesDispatchedRight` proves.  Objects
  registered as "*" are never deleted.
* *Parameters.*  `lock` and `unlock` of a nested entry act on all of the object that holds
  it (parameters.cpp:1265, 1300; comment core/parameters.h:1057).  `remove` (1348) and the
  iterator's leak nested data, the latter ignoring locks; so does `clear`, which
  stops where the nesting is too deep.  `merge` that fails stays half done.
  Iterators are stale after the table grows.
* *Views.*  `set_*_array_shallow` of a `const char *` name copies, where parameters.h:292
  says "not copied".  Assignment to a view binds it anew.  Handles to entries dangle when the
  table grows.
* *Allocator.*  `AllFreeOnList` holds while no stale link was followed.
* *Connections.*  `connect_to_udp` loses its socket when memory fails,
  `connect_to_file` its descriptor when it cannot be made non-blocking
  (posix/channel.cpp).  `accept_udp` tells of a target it has freed.  Registration and
  new listeners are told to the monitor after the lock is given up.
* *Publisher.*  The overflow callback is called, and a connection opened, with the mutex
  held.  `subscribe` uses `controlling_agent_` after `unregister` has cleared it
  (value_publisher_impl.cpp:186).  An update that is abandoned while `publish` waits for it, on
  a channel that is open again by then, is taken off the list and forgotten, and its
  subscriber kept (310-317), where value_publisher.h:151 says it is unsubscribed; so
  `LosersDropped` speaks only of updates lost before the publish.  A queue length of 0 with waiting reads the first
  element of an empty list (316).
* *Python.*  Threads wait for ever beyond `Calm` also in these ways: `open_connection` keeps the
  interpreter's lock (yami4py.cpp:1068-1082) while its event waits for room (302), and the
  dispatcher thread cannot return to Python to make it; and two threads that wait for
  room, and the one that takes messages, wait on one condition of which `pthread_cond_signal`
  wakes the wrong one.  With several dispatcher threads a thread that was woken for an event
  which another takes finds neither message nor event, and ends as if the agent were
  closing (yami.py:1075-1077); messages then stay unhandled and `close` waits for ever.
  `QueueDrains` is therefore stated for one dispatcher thread.  `destroy_agent` destroys the mutex before the agent whose threads use it.

## 6. Not modelled

* Web view, presentation and report; logging, notice panels, the tables the
  controller prints, JSON conversion; loading of the configuration; shortest paths.
* How tickets are computed, and seats checked on merged ranges
  (BookingManager.scala:326): the configured routes give only tickets whose stages on a
  route adjoin.
* The map of access controllers (regional_station.adb:193), whose unsynchronised
  insertion has an outcome only the container library knows.
* The second priority of descriptors, and exceptions in a stage (train_pool.adb:237),
  other than a train's wrong origin.
* At a stage with the action `PASS`, of which routes.json has six, a train neither lets
  travellers off nor takes any on (platform.adb:129, 244, 362-378); `Boarding` has the
  other 22, with `ENTER`.  No route uses `FREE`.
* In `GatewayTransfer` a dispatcher takes a message and carries out `Update_Train` or
  `Add_Train` in one step (handlers.adb:64-95): these touch the record of one train, which
  no task of the node executes then.
* In `YamiAgent`: a message kept for its callback, and one that takes the place of the
  program's, sent to a failover group (agent_impl.cpp:804, 971-992, 1002-1007).
* The transfer of travellers at gateways, losses of the messages that handlers
  send themselves, the resolution of names and its cache.
* Options and C interface of the library's core, the bindings for other languages,
  its services, and Windows.

## 7. What is left

In the order of what it would say about the system: `ToldWhatWasSent` of `YamiGroup` as a
theorem; the composition of `Segment` and `Station` by `arrivals` and
`ahead`; tickets and shortest paths against a reference definition.
