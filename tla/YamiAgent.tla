---------------------------- MODULE YamiAgent ----------------------------
(***************************************************************************)
(* The C++ agent on top of the YAMI4 core (lib/yami4-gpl-1.6.0/src/cpp):   *)
(* threads of the program send messages, a worker thread reports what      *)
(* becomes of them and reads what comes in, dispatcher threads call the    *)
(* program's objects, and water marks hold both directions back.           *)
(*                                                                         *)
(* The core is what YamiGroup shows it to be: each posted message is in    *)
(* the end reported once, as sent or as abandoned.  A behaviour ends       *)
(* (broken) where the code uses memory it has freed or calls fatal_failure.*)
(***************************************************************************)
EXTENDS Naturals, Sequences, FiniteSets

CONSTANTS
  Callers,      (* threads of the program                                  *)
  Dispatchers,  (* dispatcher threads: dispatcher_threads                  *)
  Sends,        (* calls of do_send_to_single_target                       *)
  Settings,     (* circumstances of a behaviour, see setting               *)
  High, Low,    (* water marks of the outgoing flow                        *)
  HighIn, LowIn,(* water marks of the incoming flow                        *)
  None

(* A call with a failover group has no kind of its own for a message that is kept for
   its callback, or that takes the place of the program's (l. 804, 971-992): these
   two are not modelled with a group.                                      *)
Kinds == {"one_way", "two_way", "callback", "failover", "one_way_failover"}

(* What an outgoing_message_info holds: its references, its state, and whether
   those who wait for it to be transmitted or completed are let go.        *)
Final == {"replied", "rejected", "abandoned"}
Infos == [state : {"posted", "transmitted"} \cup Final, refs : Nat \ {0},
          transmitted : BOOLEAN, done : BOOLEAN]

(* The sends of a call with a failover group have one message id and the kind of
   the call, and try its targets in turn; other calls are one send.        *)
Circumstances ==
  {x \in [kind : [Sends -> Kinds], id : [Sends -> Sends], turn : [Sends -> Nat],
          from : [Sends -> SUBSET (Callers \cup Dispatchers)], requests : Nat,
          failures : Nat, replies : Nat, stops : BOOLEAN] :
     \A s \in Sends :
        /\ x.id[x.id[s]] = x.id[s] /\ (x.id[s] = s <=> x.turn[s] = 0)
        /\ x.kind[x.id[s]] = x.kind[s]
        /\ x.id[s] # s => x.kind[s] \in {"failover", "one_way_failover"}
        /\ \A t \in Sends : x.id[t] = x.id[s] /\ x.turn[t] = x.turn[s] => t = s}

(* LowMark: options.cpp makes the low marks no larger than the high ones; they
   may be 0, and then nothing is let in again after the first stop.        *)
AgentAssumption ==
  /\ None \notin Sends \cup Infos /\ Callers \cap Dispatchers = {}
  /\ IsFiniteSet(Sends) /\ IsFiniteSet(Dispatchers)
  /\ \A x \in Settings : x \in Circumstances
  /\ High \in Nat /\ Low \in 1 .. High /\ HighIn \in Nat /\ LowIn \in 1 .. HighIn

VARIABLES
  setting,  (* what does not change: the kind of each send, its message id, which
               target of its group it tries, the threads that may make it, the
               number of requests that come, how many posts fail, replies per
               message, whether the agent is destroyed *)
  thread,   (* where each thread is in do_send, and with which send         *)
  info,     (* outgoing_message_info of each send                           *)
  entry,    (* outgoing_message_manager: id -> the send whose info it has   *)
  held,     (* the sends whose outgoing_message the program has             *)
  core,     (* "new", "queued", "sent" or "dropped" by the core             *)
  replies,  (* replies the peer has made to each message                    *)
  refused,  (* posts that failed                                            *)
  level,    (* outgoing_flow_manager_                                       *)
  allowed   (* outgoing_flow_allowed_                                       *)

VARIABLES
  worker,     (* the worker: place, message it reports, incoming allowed as it
                 has read it *)
  interrupts, (* wake-ups of the core not yet seen by the worker            *)
  coming,     (* requests not yet read from the network                     *)
  queue,      (* incoming_queue_: how many requests are in it               *)
  sem,        (* its semaphore                                              *)
  levelIn,    (* incoming_flow_manager_                                     *)
  allowedIn,  (* allow_incoming_traffic_                                    *)
  dispatcher, (* place of each dispatcher                                   *)
  stopping,   (* progress of the agent's destructor                         *)
  broken,     (* freed memory used, or fatal_failure                        *)
  completed   (* history: final states each message was given               *)

outVars == <<thread, info, entry, held, core, replies, refused, completed>>
flowVars == <<level, allowed>>
inVars == <<coming, queue, sem, levelIn, allowedIn, dispatcher>>
vars == <<setting, outVars, flowVars, worker, interrupts, inVars, stopping, broken>>

Threads == Callers \cup Dispatchers

ThreadTypes ==
  /\ thread \in [Threads ->
       [pc : {"idle", "gate", "connect", "increase", "suppress", "post", "awaiting",
              "unwinding", "catch", "lower", "reopen"}, s : Sends \cup {None}]]
  /\ \A c \in Threads : thread[c].pc = "idle" <=> thread[c].s = None

MessageTypes ==
  /\ info \in [Sends -> Infos \cup {None}]
  /\ entry \in [Sends -> Sends \cup {None}]
  /\ held \in SUBSET Sends
  /\ core \in [Sends -> {"new", "calling", "queued", "sent", "dropped", "failed"}]
  /\ replies \in [Sends -> Nat] /\ refused \in Nat
  /\ completed \in [Sends -> Seq(Final)]

WorkerTypes ==
  /\ worker \in
       [pc : {"top", "waiting", "check", "stopped", "shut", "push", "calling", "lower",
              "reopen", "tidy", "release", "answering"},
        s : Sends \cup {None}, how : {"sent", "dropped"}, view : BOOLEAN]
  /\ worker.s = None =>
       worker.pc \in {"top", "waiting", "check", "stopped", "shut", "push"}

RequestTypes ==
  /\ coming \in Nat /\ queue \in Nat /\ sem \in Nat
  /\ levelIn \in Nat /\ allowedIn \in BOOLEAN
  /\ dispatcher \in
       [Dispatchers -> {"waiting", "dispatching", "lower", "allow", "interrupt", "stopped"}]

TypeOK ==
  /\ setting \in Circumstances
  /\ ThreadTypes /\ MessageTypes /\ WorkerTypes /\ RequestTypes
  /\ level \in Nat /\ allowed \in BOOLEAN /\ interrupts \in Nat
  /\ stopping \in {"no", "worker", "dispatchers", "cleaning", "done"}
  /\ broken \in BOOLEAN

Idle == [pc |-> "idle", s |-> None]

Init ==
  /\ setting \in Settings
  /\ thread = [c \in Threads |-> Idle]
  /\ info = [s \in Sends |-> None]
  /\ entry = [s \in Sends |-> None]
  /\ held = {}
  /\ core = [s \in Sends |-> "new"]
  /\ replies = [s \in Sends |-> 0]
  /\ refused = 0
  /\ level = 0
  /\ allowed = TRUE
  /\ worker = [pc |-> "top", s |-> None, how |-> "sent", view |-> TRUE]
  /\ interrupts = 0
  /\ coming = setting.requests
  /\ queue = 0
  /\ sem = 0
  /\ levelIn = 0
  /\ allowedIn = TRUE
  /\ dispatcher = [d \in Dispatchers |-> "waiting"]
  /\ stopping = "no"
  /\ broken = FALSE
  /\ completed = [s \in Sends |-> <<>>]

-----------------------------------------------------------------------------
(* Mutations of definitions below, for the runs that test the properties.  *)

(* Those who wait are not told of a rejection.                             *)
InStateUntold(i, state) ==
  [i EXCEPT !.state = state, !.transmitted = TRUE, !.done = state \in {"replied", "abandoned"}]

(* The flow is let go one message too late.                                *)
LowEnoughLate(n) == n + 1 < Low

(* What is dropped leaves the queue without being counted.                 *)
AfterProgressUncounted(how, called) ==
  IF called THEN "calling" ELSE IF how = "dropped" THEN "tidy" ELSE "lower"

(* The worker is not woken when requests are let in again.                 *)
AfterAllowAsleep == "waiting"

(* The worker is not woken to stop.                                        *)
WakeToStopNot == 0

-----------------------------------------------------------------------------
(* Messages and their infos.                                               *)

Kind(s) == setting.kind[s]
Id(s) == setting.id[s]
Turn(s) == setting.turn[s]

(* The send that tries the next target, if there is one.                   *)
Follows(t, s) == Id(t) = Id(s) /\ Turn(t) = Turn(s) + 1
Another(s) ==
  IF \E t \in Sends : Follows(t, s) THEN CHOOSE t \in Sends : Follows(t, s) ELSE None

HasInfo(s) == Kind(s) # "one_way"
Owned(s) == Kind(s) \in {"two_way", "failover", "one_way_failover"}

(* An info is born with the references of the manager and of the reports of its
   progress, and that of the outgoing_message the sender or the program has: one
   with a callback belongs to the info and has none.                       *)
NewInfo(s) ==
  [state |-> "posted", refs |-> IF Owned(s) THEN 3 ELSE 2, transmitted |-> FALSE, done |-> FALSE]

(* One reference less; the last one frees the info.                        *)
Fewer(x) == IF x = None \/ x.refs = 1 THEN None ELSE [x EXCEPT !.refs = @ - 1]
DecRef(i, s) == [i EXCEPT ![s] = Fewer(@)]

(* outgoing_message_manager::remove: spurious calls are accepted.          *)
Remove(id) == entry' = [entry EXCEPT ![id] = None]
Removed(i, id) == IF entry[id] = None THEN i ELSE DecRef(i, entry[id])

MayComplete(i) == i.state \in {"posted", "transmitted"}
InState(i, state) ==
  [i EXCEPT !.state = state, !.transmitted = TRUE, !.done = state \in Final]

-----------------------------------------------------------------------------
(* do_send, do_send_to_single_target.                                      *)

At(c, pc) == thread[c].pc = pc /\ ~broken
Goto(c, pc) == thread' = [thread EXCEPT ![c].pc = pc]
Return(c) == thread' = [thread EXCEPT ![c] = Idle]

(* A thread of the program, or an object it has registered, sends a message. *)
Call(c, s) ==
  /\ At(c, "idle") /\ core[s] = "new" /\ s = Id(s)
  /\ c \in setting.from[s]
  /\ \/ c \in Callers /\ stopping = "no"
     \/ c \in Dispatchers /\ dispatcher[c] = "dispatching"
  /\ thread' = [thread EXCEPT ![c] = [pc |-> "gate", s |-> s]]
  /\ core' = [core EXCEPT ![s] = "calling"]
  /\ UNCHANGED <<setting, info, entry, held, replies, refused, completed>>
  /\ UNCHANGED <<flowVars, worker, interrupts, inVars, stopping, broken>>

PassGate(c) ==
  /\ At(c, "gate") /\ allowed
  /\ Goto(c, "connect")
  /\ UNCHANGED <<setting, info, entry, held, core, replies, refused, completed>>
  /\ UNCHANGED <<flowVars, worker, interrupts, inVars, stopping, broken>>

(* The exception reaches the caller, or the next target of the group is tried. *)
Failed(c, s) ==
  /\ thread' = [thread EXCEPT ![c] = IF Another(s) = None THEN Idle
                                     ELSE [pc |-> "gate", s |-> Another(s)]]
  /\ core' = [t \in Sends |-> IF t = s /\ core[s] = "calling" THEN "failed"
                              ELSE IF t = Another(s) THEN "calling" ELSE core[t]]

MayFail == refused < setting.failures /\ refused' = refused + 1

ConnectFails(c) ==
  /\ At(c, "connect") /\ MayFail
  /\ Failed(c, thread[c].s)
  /\ UNCHANGED <<setting, info, entry, held, replies, completed>>
  /\ UNCHANGED <<flowVars, worker, interrupts, inVars, stopping, broken>>

(* With a channel, the info is made before the message can be answered; an id
   that is there already is fatal.                                         *)
AfterGate == "increase"

Prepare(c) ==
  LET s == thread[c].s
  IN /\ At(c, "connect")
     /\ IF HasInfo(s)
        THEN /\ info' = [info EXCEPT ![s] = NewInfo(s)]
             /\ entry' = [entry EXCEPT ![Id(s)] = s]
             /\ broken' = (entry[Id(s)] # None)
        ELSE UNCHANGED <<info, entry, broken>>
     /\ Goto(c, AfterGate)
     /\ UNCHANGED <<setting, held, core, replies, refused, completed>>
     /\ UNCHANGED <<flowVars, worker, interrupts, inVars, stopping>>

(* The manager of the flow decides, its flag is changed later.             *)
LowEnough(n) == n < Low

Increase(c) ==
  /\ At(c, "increase")
  /\ level' = level + 1
  /\ Goto(c, IF level + 1 >= High THEN "suppress" ELSE "post")
  /\ UNCHANGED <<setting, info, entry, held, core, replies, refused, completed>>
  /\ UNCHANGED <<allowed, worker, interrupts, inVars, stopping, broken>>

Suppress(c) ==
  /\ At(c, "suppress")
  /\ allowed' = FALSE
  /\ Goto(c, "post")
  /\ UNCHANGED <<setting, info, entry, held, core, replies, refused, completed>>
  /\ UNCHANGED <<level, worker, interrupts, inVars, stopping, broken>>

Post(c) ==
  LET s == thread[c].s
  IN /\ At(c, "post")
     /\ core' = [core EXCEPT ![s] = "queued"]
     /\ IF Kind(s) \in {"failover", "one_way_failover"}
        THEN Goto(c, "awaiting") /\ UNCHANGED held
        ELSE Return(c) /\ held' = IF Owned(s) THEN held \cup {s} ELSE held
     /\ UNCHANGED <<setting, info, entry, replies, refused, completed>>
     /\ UNCHANGED <<flowVars, worker, interrupts, inVars, stopping, broken>>

PostFails(c) ==
  /\ At(c, "post") /\ MayFail
  /\ core' = [core EXCEPT ![thread[c].s] = "failed"]
  /\ Goto(c, IF Owned(thread[c].s) THEN "unwinding" ELSE "catch")
  /\ UNCHANGED <<setting, info, entry, held, replies, completed>>
  /\ UNCHANGED <<flowVars, worker, interrupts, inVars, stopping, broken>>

(* With a failover group a two-way message is awaited until it is completed, and
   an abandoned one is an exception; a one-way message is awaited until it leaves
   the queue, in whatever way.                                             *)
Awaited(c) ==
  LET s == thread[c].s
  IN /\ At(c, "awaiting")
     /\ \/ info[s] = None /\ broken' = TRUE /\ UNCHANGED <<thread, held, info, entry>>
        \/ /\ info[s] # None /\ info[s].done /\ Kind(s) = "failover"
           /\ IF info[s].state = "abandoned"
              THEN Goto(c, "unwinding") /\ UNCHANGED held
              ELSE Return(c) /\ held' = held \cup {s}
           /\ UNCHANGED <<info, entry, broken>>
        \/ /\ info[s] # None /\ info[s].transmitted /\ Kind(s) = "one_way_failover"
           /\ Return(c)
           /\ info' = DecRef(Removed(info, Id(s)), s) /\ Remove(Id(s))
           /\ UNCHANGED <<held, broken>>
     /\ UNCHANGED <<setting, core, replies, refused, completed>>
     /\ UNCHANGED <<flowVars, worker, interrupts, inVars, stopping>>

(* The exception destroys the outgoing_message; the handler releases what the
   reports of progress would have, and counts the message out.             *)
Unwind(c) ==
  LET s == thread[c].s
  IN /\ At(c, "unwinding")
     /\ info' = DecRef(Removed(info, Id(s)), s) /\ Remove(Id(s))
     /\ broken' = (info[s] = None)
     /\ Goto(c, "catch")
     /\ UNCHANGED <<setting, held, core, replies, refused, completed>>
     /\ UNCHANGED <<flowVars, worker, interrupts, inVars, stopping>>

Catch(c) ==
  LET s == thread[c].s
  IN /\ At(c, "catch")
     /\ IF HasInfo(s)
        THEN /\ info' = Removed(DecRef(info, s), Id(s)) /\ Remove(Id(s))
             /\ broken' = (info[s] = None)
        ELSE UNCHANGED <<info, entry, broken>>
     /\ Goto(c, "lower")
     /\ UNCHANGED <<setting, held, core, replies, refused, completed>>
     /\ UNCHANGED <<flowVars, worker, interrupts, inVars, stopping>>

(* Counting below zero is fatal.                                           *)
Lower(c) ==
  /\ At(c, "lower")
  /\ broken' = (level = 0)
  /\ level' = IF level = 0 THEN 0 ELSE level - 1
  /\ IF LowEnough(level') THEN Goto(c, "reopen") /\ UNCHANGED core ELSE Failed(c, thread[c].s)
  /\ UNCHANGED <<setting, info, entry, held, replies, refused, completed>>
  /\ UNCHANGED <<allowed, worker, interrupts, inVars, stopping>>

Reopen(c) ==
  /\ At(c, "reopen")
  /\ allowed' = TRUE
  /\ Failed(c, thread[c].s)
  /\ UNCHANGED <<setting, info, entry, held, replies, refused, completed>>
  /\ UNCHANGED <<level, worker, interrupts, inVars, stopping, broken>>

(* The program is done with a message: outgoing_message::clean.            *)
Drop(s) ==
  /\ s \in held /\ ~broken
  /\ held' = held \ {s}
  /\ info' = DecRef(Removed(info, Id(s)), s) /\ Remove(Id(s))
  /\ UNCHANGED <<setting, thread, core, replies, refused, completed>>
  /\ UNCHANGED <<flowVars, worker, interrupts, inVars, stopping, broken>>

-----------------------------------------------------------------------------
(* The worker: do_event_loop.  Each do_some_work has one event.            *)

WorkerAt(pc) == worker.pc = pc /\ ~broken
WorkerTo(pc) == worker' = [worker EXCEPT !.pc = pc]
Cleaning == stopping = "cleaning"

(* Where the thread that reports goes on: the worker, or the destructor.   *)
Reported == IF Cleaning THEN "stopped" ELSE "check"

Read ==
  /\ WorkerAt("top")
  /\ worker' = [worker EXCEPT !.pc = "waiting", !.view = allowedIn]
  /\ UNCHANGED <<setting, outVars, flowVars, interrupts, inVars, stopping, broken>>

Interrupted ==
  /\ WorkerAt("waiting") /\ interrupts > 0
  /\ interrupts' = interrupts - 1
  /\ WorkerTo("check")
  /\ UNCHANGED <<setting, outVars, flowVars, inVars, stopping, broken>>

TimedOut ==
  /\ WorkerAt("waiting")
  /\ WorkerTo("check")
  /\ UNCHANGED <<setting, outVars, flowVars, interrupts, inVars, stopping, broken>>

Check ==
  /\ WorkerAt("check")
  /\ WorkerTo(IF stopping = "no" THEN "top" ELSE "stopped")
  /\ UNCHANGED <<setting, outVars, flowVars, interrupts, inVars, stopping, broken>>

(* The core reports that a message has left its queue.  The info is changed and
   a callback is called with its mutex given up.                           *)
AfterProgress(how, called) == IF called THEN "calling" ELSE "lower"

Progress(s, how) ==
  LET state == IF how = "sent" THEN "transmitted" ELSE "abandoned"
      changes == HasInfo(s) /\ info[s] # None /\ info[s].state = "posted"
  IN /\ core[s] = "queued"
     /\ WorkerAt("waiting") \/ (WorkerAt("stopped") /\ Cleaning /\ how = "dropped")
     /\ core' = [core EXCEPT ![s] = how]
     /\ broken' = (HasInfo(s) /\ (info[s] = None \/ (how = "dropped" /\ info[s].state # "posted")))
     /\ IF changes
        THEN /\ info' = [info EXCEPT ![s] = InState(@, state)]
             /\ completed' = [completed EXCEPT ![s] =
                                IF how = "dropped" THEN Append(@, state) ELSE @]
        ELSE UNCHANGED <<info, completed>>
     /\ worker' = [worker EXCEPT !.s = s, !.how = how,
                                 !.pc = AfterProgress(how, changes /\ Kind(s) = "callback")]
     /\ UNCHANGED <<setting, thread, entry, held, replies, refused>>
     /\ UNCHANGED <<flowVars, interrupts, inVars, stopping>>

Called ==
  /\ WorkerAt("calling")
  /\ WorkerTo("lower")
  /\ UNCHANGED <<setting, outVars, flowVars, interrupts, inVars, stopping, broken>>

(* The info is read for the agent it points to.                            *)
InfoGone == HasInfo(worker.s) /\ info[worker.s] = None

LowerByWorker ==
  /\ WorkerAt("lower")
  /\ broken' = (level = 0 \/ InfoGone)
  /\ level' = IF level = 0 THEN 0 ELSE level - 1
  /\ WorkerTo(IF LowEnough(level') THEN "reopen" ELSE "tidy")
  /\ UNCHANGED <<setting, outVars, allowed, interrupts, inVars, stopping>>

ReopenByWorker ==
  /\ WorkerAt("reopen")
  /\ allowed' = TRUE
  /\ WorkerTo("tidy")
  /\ UNCHANGED <<setting, outVars, level, interrupts, inVars, stopping, broken>>

(* An abandoned message is taken from the manager by its id.               *)
Tidy ==
  /\ WorkerAt("tidy")
  /\ broken' = InfoGone
  /\ IF HasInfo(worker.s) /\ worker.how = "dropped"
     THEN info' = Removed(info, Id(worker.s)) /\ Remove(Id(worker.s))
     ELSE UNCHANGED <<info, entry>>
  /\ WorkerTo(IF HasInfo(worker.s) THEN "release" ELSE Reported)
  /\ UNCHANGED <<setting, thread, held, core, replies, refused, completed>>
  /\ UNCHANGED <<flowVars, interrupts, inVars, stopping>>

Release ==
  /\ WorkerAt("release")
  /\ broken' = InfoGone
  /\ info' = DecRef(info, worker.s)
  /\ WorkerTo(Reported)
  /\ UNCHANGED <<setting, thread, entry, held, core, replies, refused, completed>>
  /\ UNCHANGED <<flowVars, interrupts, inVars, stopping>>

(* A reply or rejection comes, perhaps not the first one.  The manager's mutex is
   kept until the message is removed, but for a callback it is given up.   *)
Reply(s, how) ==
  LET t == entry[Id(s)]
  IN /\ WorkerAt("waiting") /\ worker.view
     /\ core[s] = "sent" /\ replies[s] < setting.replies
     /\ replies' = [replies EXCEPT ![s] = @ + 1]
     /\ IF t = None \/ ~MayComplete(info[t])
        THEN WorkerTo("check") /\ UNCHANGED <<info, entry, completed>>
        ELSE /\ completed' = [completed EXCEPT ![t] = Append(@, how)]
             /\ LET answered == [info EXCEPT ![t] = InState(@, how)]
                IN IF Kind(t) = "callback"
                   THEN /\ info' = answered
                        /\ worker' = [worker EXCEPT !.pc = "answering", !.s = t]
                        /\ UNCHANGED entry
                   ELSE info' = Removed(answered, Id(t)) /\ Remove(Id(t)) /\ WorkerTo("check")
     /\ UNCHANGED <<setting, thread, held, core, refused>>
     /\ UNCHANGED <<flowVars, interrupts, inVars, stopping, broken>>

Answered ==
  /\ WorkerAt("answering")
  /\ broken' = (entry[Id(worker.s)] # worker.s)
  /\ info' = Removed(info, Id(worker.s)) /\ Remove(Id(worker.s))
  /\ WorkerTo("check")
  /\ UNCHANGED <<setting, thread, held, core, replies, refused, completed>>
  /\ UNCHANGED <<flowVars, interrupts, inVars, stopping>>

-----------------------------------------------------------------------------
(* Requests that come in, and the dispatchers.                             *)

(* queue_incoming counts the request before it is in the queue.            *)
TooMany(n) == n >= HighIn

Receive ==
  /\ WorkerAt("waiting") /\ worker.view /\ coming > 0
  /\ coming' = coming - 1
  /\ levelIn' = levelIn + 1
  /\ WorkerTo(IF TooMany(levelIn + 1) THEN "shut" ELSE "push")
  /\ UNCHANGED <<setting, outVars, flowVars, interrupts, queue, sem, allowedIn, dispatcher,
                 stopping, broken>>

Shut ==
  /\ WorkerAt("shut")
  /\ allowedIn' = FALSE
  /\ WorkerTo("push")
  /\ UNCHANGED <<setting, outVars, flowVars, interrupts, coming, queue, sem, levelIn, dispatcher,
                 stopping, broken>>

Push ==
  /\ WorkerAt("push")
  /\ queue' = queue + 1 /\ sem' = sem + 1
  /\ WorkerTo("check")
  /\ UNCHANGED <<setting, outVars, flowVars, interrupts, coming, levelIn, allowedIn, dispatcher,
                 stopping, broken>>

(* A queue that was terminated gives out nothing more, whatever is in it.  *)
Terminated == stopping \in {"dispatchers", "cleaning", "done"}

Pop(d) ==
  /\ dispatcher[d] = "waiting" /\ sem > 0 /\ ~broken
  /\ sem' = sem - 1
  /\ queue' = IF Terminated THEN queue ELSE queue - 1
  /\ dispatcher' = [dispatcher EXCEPT ![d] = IF Terminated THEN "stopped" ELSE "dispatching"]
  /\ UNCHANGED <<setting, outVars, flowVars, worker, interrupts, coming, levelIn, allowedIn,
                 stopping, broken>>

Dispatched(d) ==
  /\ dispatcher[d] = "dispatching" /\ At(d, "idle")
  /\ dispatcher' = [dispatcher EXCEPT ![d] = "lower"]
  /\ UNCHANGED <<setting, outVars, flowVars, worker, interrupts, coming, queue, sem, levelIn,
                 allowedIn, stopping, broken>>

LowerIn(d) ==
  /\ dispatcher[d] = "lower" /\ ~broken
  /\ levelIn' = levelIn - 1
  /\ dispatcher' = [dispatcher EXCEPT ![d] = IF levelIn - 1 < LowIn THEN "allow" ELSE "waiting"]
  /\ UNCHANGED <<setting, outVars, flowVars, worker, interrupts, coming, queue, sem, allowedIn,
                 stopping, broken>>

AfterAllow == "interrupt"

Allow(d) ==
  /\ dispatcher[d] = "allow" /\ ~broken
  /\ allowedIn' = TRUE
  /\ dispatcher' = [dispatcher EXCEPT ![d] = AfterAllow]
  /\ UNCHANGED <<setting, outVars, flowVars, worker, interrupts, coming, queue, sem, levelIn,
                 stopping, broken>>

Interrupt(d) ==
  /\ dispatcher[d] = "interrupt" /\ ~broken
  /\ interrupts' = interrupts + 1
  /\ dispatcher' = [dispatcher EXCEPT ![d] = "waiting"]
  /\ UNCHANGED <<setting, outVars, flowVars, worker, coming, queue, sem, levelIn, allowedIn,
                 stopping, broken>>

-----------------------------------------------------------------------------
(* The destructor, when no thread of the program is in the agent and none of its
   messages is left: the worker is stopped, then the dispatchers, and the core
   abandons what it still has.                                             *)

WakeToStop == 1

RequestStop ==
  /\ stopping = "no" /\ setting.stops /\ ~broken
  /\ held = {} /\ \A c \in Callers : thread[c] = Idle
  /\ stopping' = "worker"
  /\ interrupts' = interrupts + WakeToStop
  /\ UNCHANGED <<setting, outVars, flowVars, worker, inVars, broken>>

TerminateDispatchers ==
  /\ stopping = "worker" /\ WorkerAt("stopped")
  /\ stopping' = "dispatchers"
  /\ sem' = sem + Cardinality(Dispatchers)
  /\ UNCHANGED <<setting, outVars, flowVars, worker, interrupts, coming, queue, levelIn,
                 allowedIn, dispatcher, broken>>

BeginCleaning ==
  /\ stopping = "dispatchers" /\ ~broken
  /\ \A d \in Dispatchers : dispatcher[d] = "stopped"
  /\ stopping' = "cleaning"
  /\ UNCHANGED <<setting, outVars, flowVars, worker, interrupts, inVars, broken>>

(* The manager gives up the infos it still has, those that were never answered. *)
Cleaned ==
  /\ Cleaning /\ WorkerAt("stopped") /\ \A s \in Sends : core[s] # "queued"
  /\ stopping' = "done"
  /\ info' = [s \in Sends |-> IF entry[Id(s)] = s THEN DecRef(info, s)[s] ELSE info[s]]
  /\ entry' = [s \in Sends |-> None]
  /\ UNCHANGED <<setting, thread, held, core, replies, refused, completed>>
  /\ UNCHANGED <<flowVars, worker, interrupts, inVars, broken>>

-----------------------------------------------------------------------------
SendStep(c) ==
  \/ PassGate(c) \/ ConnectFails(c) \/ Prepare(c) \/ Increase(c) \/ Suppress(c)
  \/ Post(c) \/ PostFails(c) \/ Awaited(c)
  \/ Unwind(c) \/ Catch(c) \/ Lower(c) \/ Reopen(c)

Report ==
  \/ Called \/ LowerByWorker \/ ReopenByWorker \/ Tidy \/ Release \/ Answered
  \/ Shut \/ Push

WorkerStep == Read \/ Interrupted \/ Check \/ Report

DispatcherStep(d) ==
  Pop(d) \/ Dispatched(d) \/ LowerIn(d) \/ Allow(d) \/ Interrupt(d)

Stop == RequestStop \/ TerminateDispatchers \/ BeginCleaning \/ Cleaned

Next ==
  \/ \E c \in Threads, s \in Sends : Call(c, s)
  \/ \E c \in Threads : SendStep(c)
  \/ \E s \in Sends : Drop(s)
  \/ \E s \in Sends, how \in {"sent", "dropped"} : Progress(s, how)
  \/ \E s \in Sends, how \in {"replied", "rejected"} : Reply(s, how)
  \/ Receive \/ TimedOut \/ WorkerStep
  \/ \E d \in Dispatchers : DispatcherStep(d)
  \/ Stop

(* Threads run; the core reports each message it has (YamiGroup) and reads what
   comes when it is allowed to.  Nothing has to time out, to be answered, to be
   called or to stop.                                                      *)
Fairness ==
  /\ \A c \in Threads : WF_vars(SendStep(c))
  /\ \A s \in Sends : SF_vars(\E how \in {"sent", "dropped"} : Progress(s, how))
  /\ SF_vars(Receive) /\ WF_vars(WorkerStep)
  /\ \A d \in Dispatchers : WF_vars(DispatcherStep(d))
  /\ WF_vars(TerminateDispatchers \/ BeginCleaning \/ Cleaned)

Spec == Init /\ [][Next]_vars /\ Fairness

-----------------------------------------------------------------------------
(* Properties.                                                             *)

(* A message of a failover group was abandoned: its infos and the flow are no
   longer counted right (agent_impl.cpp:1032).                           *)
FailoverDropped == \E s \in Sends : Kind(s) = "failover" /\ core[s] = "dropped"

One(condition) == IF condition THEN 1 ELSE 0

SendingAt(s, pcs) == \E c \in Threads : thread[c].s = s /\ thread[c].pc \in pcs
ReportingAt(s, pcs) == worker.s = s /\ worker.pc \in pcs
Abandoning(s) == core[s] = "failed" /\ SendingAt(s, {"unwinding", "catch"})

(* An info is freed when the manager, the reports of progress and the program
   have all let it go, and not before.                                     *)
InfosCounted ==
  \A s \in Sends : ~FailoverDropped =>
    LET manager == One(entry[Id(s)] = s)
        progress == One(\/ SendingAt(s, {"increase", "suppress", "post"}) \/ Abandoning(s)
                        \/ core[s] = "queued"
                        \/ ReportingAt(s, {"calling", "lower", "reopen", "tidy", "release"}))
        program == One(/\ Owned(s)
                       /\ \/ s \in held
                          \/ SendingAt(s, {"increase", "suppress", "post", "awaiting", "unwinding"}))
    IN HasInfo(s) => IF info[s] = None THEN core[s] \in {"new", "calling"} \/ manager + progress + program = 0
                     ELSE info[s].refs = manager + progress + program

(* A message is completed at most once, threads that wait for it are let go only
   when it is, and no reply makes it another thing later (report_replied,
   report_rejected, outgoing_message_progress_callback).                   *)
CompletedOnce ==
  \A s \in Sends :
    /\ Len(completed[s]) <= 1
    /\ info[s] # None => /\ info[s].done <=> (completed[s] # <<>>)
                         /\ info[s].done => info[s].state = completed[s][1]
                         /\ info[s].transmitted <=> info[s].state # "posted"

(* The level of the outgoing flow is the number of messages on their way, whatever
   failed, and a stale decision lets it pass the high mark by no more than the
   threads that were past the gate, twice.                                 *)
OnTheirWay ==
  {s \in Sends : \/ SendingAt(s, {"suppress", "post"})
                 \/ core[s] = "failed" /\ SendingAt(s, {"unwinding", "catch", "lower"})
                 \/ core[s] = "queued"
                 \/ ReportingAt(s, {"calling", "lower"})}

FlowCounted == ~FailoverDropped => level = Cardinality(OnTheirWay)

(* One message for each dispatcher comes in above the high mark at most: only a
   decision to let more in that is carried out late can open the way.      *)
IncomingBounded == levelIn <= HighIn + Cardinality(Dispatchers)

(* No info is used when it was freed, no id is in the manager twice and no level
   falls below 0 (fatal_failure), while no failover message was abandoned.  *)
NothingFreedUsed == broken => FailoverDropped

(* The counts by which infos are freed and the gates opened are right.     *)
CountsRight == InfosCounted /\ FlowCounted /\ IncomingBounded /\ NothingFreedUsed

(* The agent is never closed to its senders for good.                      *)
SendersAdmitted ==
  \A c \in Callers :
    thread[c].pc = "gate" ~> (thread[c].pc # "gate" \/ broken)

(* Every request that comes is dispatched, unless the agent is destroyed.  *)
RequestsDispatched ==
  <>(broken \/ stopping # "no" \/ (coming = 0 /\ queue = 0))

(* The destructor ends, and then no info is left, unless an object that sends
   a message is held at the gate when the worker has stopped.              *)
HeldAtGate == \E d \in Dispatchers : thread[d].pc = "gate"

StopEnds ==
  stopping = "worker" ~> (\/ stopping = "done" /\ \A s \in Sends : info[s] = None
                          \/ broken \/ HeldAtGate \/ FailoverDropped)

=============================================================================
