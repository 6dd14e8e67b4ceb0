----------------------------- MODULE YamiPython -----------------------------
(***************************************************************************)
(* The incoming queue of the Python binding of YAMI4 (agent_wrapper and the  *)
(* extension functions of python3/yami4py.cpp; python2/yami4py.cpp has the   *)
(* same code) and the threads that meet at it: the dispatcher threads of the *)
(* C++ agent, which bring messages; the threads that report connection       *)
(* events, its worker and Python threads that open connections or reply; the *)
(* Python dispatcher threads (yami.py), which consume both; and the thread   *)
(* that closes the agent.                                                    *)
(*                                                                         *)
(* All wait on one condition variable, and pthread_cond_signal wakes one of  *)
(* them, whichever it is.  Some extension functions keep the interpreter's   *)
(* lock while they run.  So the queue may stop with messages in it and all its *)
(* threads waiting, also with the default options; MessagesDelivered fails for *)
(* that reason, and QueueDrains says what holds while the code is lucky.       *)
(***************************************************************************)
EXTENDS Naturals, Sequences, FiniteSets

CONSTANTS
    Dispatchers,  \* dispatcher threads of the C++ agent
    Workers,      \* the agent's worker, and threads in calls without the lock
    Users,        \* Python threads that call open_connection
    Consumers,    \* Python dispatcher threads
    Closer,       \* the thread that closes the agent
    Nobody,       \* that holds the interpreter's lock
    MaxLength,    \* incoming_queue_max_length
    MaxMessages,  \* bound: messages received
    MaxEvents     \* bound: connection events

PythonAssumption ==
    /\ MaxLength \in Nat \ {0} /\ MaxMessages \in Nat /\ MaxEvents \in Nat
    /\ IsFiniteSet(Consumers) /\ Consumers # {}

VARIABLES
    messages,   \* messages_, numbered in the order of their arrival
    events,     \* number of connection_events_
    terminated, \* terminated_
    waiting,    \* threads in pthread_cond_wait
    gil,        \* who holds the interpreter's lock during a long call
    pc,         \* where each thread is
    received,   \* bound: messages so far
    reported,   \* bound: events so far
    handled,    \* messages that were given to a callback
    told        \* calls of terminate_incoming_queue so far

queueVars == <<messages, events, terminated, waiting>>
vars == <<messages, events, terminated, waiting, gil, pc, received, reported, handled, told>>

Threads == Dispatchers \cup Workers \cup Users \cup Consumers \cup {Closer}

Init ==
    /\ messages = <<>> /\ events = 0 /\ terminated = FALSE /\ waiting = {}
    /\ gil = Nobody
    /\ pc = [t \in Threads |-> IF t \in Consumers THEN "get" ELSE "idle"]
    /\ received = 0 /\ reported = 0 /\ handled = {} /\ told = 0

-----------------------------------------------------------------------------
At(t, where) == pc[t] = where /\ t \notin waiting
GoTo(t, where) == pc' = [pc EXCEPT ![t] = where]
Full == Len(messages) >= MaxLength

(* Mutations of definitions below, for the runs that test the properties.     *)
SignalNobody(W) == waiting' = W

\* One of the waiting threads goes back to the test of its loop.
Signal(W) == IF W = {} THEN waiting' = W ELSE \E t \in W : waiting' = W \ {t}

Wait(t) == waiting' = waiting \cup {t} /\ UNCHANGED <<messages, events, terminated>>

-----------------------------------------------------------------------------
(* Incoming messages: operator()(incoming_message &).                          *)

Receive(t) ==
    /\ At(t, "idle") /\ received < MaxMessages
    /\ received' = received + 1
    /\ GoTo(t, "offer")
    /\ UNCHANGED <<queueVars, gil, reported, handled, told>>

\* A message that comes after the termination is dropped; the test is made once.
DropMessage(t) ==
    /\ At(t, "offer") /\ terminated
    /\ Signal(waiting)
    /\ GoTo(t, "idle")
    /\ UNCHANGED <<messages, events, terminated, gil, received, reported, handled, told>>

PushMessage(t) ==
    /\ (At(t, "offer") /\ ~terminated) \/ At(t, "offer again")
    /\ IF Full
       THEN Wait(t) /\ GoTo(t, "offer again")
       ELSE /\ messages' = Append(messages, received)
            /\ Signal(waiting)
            /\ GoTo(t, "idle")
            /\ UNCHANGED <<events, terminated>>
    /\ UNCHANGED <<gil, received, reported, handled, told>>

-----------------------------------------------------------------------------
(* Connection events: operator()(name, event), called by the thread that opens,
   accepts or loses the connection.                                           *)

Report(t) == reported < MaxEvents /\ reported' = reported + 1 /\ GoTo(t, "report")

\* Back to what the thread did; a Python thread gives the interpreter's lock back.
Reported(t) ==
    /\ GoTo(t, IF t \in Consumers THEN "get" ELSE "idle")
    /\ gil' = IF gil = t THEN Nobody ELSE gil

NoticeEvent(t) ==
    /\ At(t, "idle") /\ Report(t)
    /\ UNCHANGED <<queueVars, gil, received, handled, told>>

\* open_connection keeps the interpreter's lock.
OpenConnection(t) ==
    /\ At(t, "idle") /\ gil = Nobody
    /\ gil' = t
    /\ Report(t)
    /\ UNCHANGED <<queueVars, received, handled, told>>

\* terminated_ is read without the mutex.
TestTerminated(t) ==
    /\ At(t, "report")
    /\ IF terminated THEN Reported(t) ELSE GoTo(t, "push") /\ UNCHANGED gil
    /\ UNCHANGED <<queueVars, received, reported, handled, told>>

\* An event waits for room among the messages.
PushEvent(t) ==
    /\ At(t, "push")
    /\ IF Full
       THEN Wait(t) /\ UNCHANGED <<pc, gil>>
       ELSE /\ events' = events + 1
            /\ Signal(waiting)
            /\ Reported(t)
            /\ UNCHANGED <<messages, terminated>>
    /\ UNCHANGED <<received, reported, handled, told>>

-----------------------------------------------------------------------------
(* A Python dispatcher thread: it waits without the interpreter's lock, and takes
   the lock again before it returns to Python.                               *)

MayTake == terminated \/ messages # <<>> \/ events # 0

GetNext(t) ==
    /\ At(t, "get")
    /\ IF ~MayTake
       THEN Wait(t) /\ UNCHANGED <<pc, handled>>
       ELSE /\ Signal(waiting)
            /\ IF messages # <<>>
               THEN /\ handled' = handled \cup {Head(messages)}
                    /\ messages' = Tail(messages)
                    /\ GoTo(t, "handle")
               ELSE GoTo(t, "event") /\ UNCHANGED <<messages, handled>>
            /\ UNCHANGED <<events, terminated>>
    /\ UNCHANGED <<gil, received, reported, told>>

\* The callback may reply, and so open a connection anew, with the lock.
Handle(t) ==
    /\ At(t, "handle") /\ gil = Nobody
    /\ \/ GoTo(t, "get") /\ UNCHANGED <<gil, reported>>
       \/ Report(t) /\ gil' = t
    /\ UNCHANGED <<queueVars, received, handled, told>>

\* No message: an event, or else the end of the thread.
GetEvent(t) ==
    /\ At(t, "event") /\ gil = Nobody
    /\ IF events # 0
       THEN events' = events - 1 /\ GoTo(t, "get")
       ELSE GoTo(t, "ended") /\ UNCHANGED events
    /\ UNCHANGED <<messages, terminated, waiting, gil, received, reported, handled, told>>

-----------------------------------------------------------------------------
(* Agent.close: the queue is terminated once for each dispatcher thread, which
   are then joined.                                                          *)

TerminateQueue ==
    /\ gil = Nobody /\ told < Cardinality(Consumers)
    /\ told' = told + 1
    /\ terminated' = TRUE
    /\ Signal(waiting)
    /\ GoTo(Closer, "closing")
    /\ UNCHANGED <<messages, events, gil, received, reported, handled>>

Join ==
    /\ told = Cardinality(Consumers) /\ pc[Closer] = "closing" /\ gil = Nobody
    /\ \A t \in Consumers : pc[t] = "ended"
    /\ GoTo(Closer, "joined")
    /\ UNCHANGED <<queueVars, gil, received, reported, handled, told>>

-----------------------------------------------------------------------------
OfMessages(t) == DropMessage(t) \/ PushMessage(t)
OfEvents(t) == TestTerminated(t) \/ PushEvent(t)
OfConsumer(t) == GetNext(t) \/ Handle(t) \/ GetEvent(t) \/ OfEvents(t)
OfCloser == (told > 0 /\ TerminateQueue) \/ Join

Next ==
    \/ \E t \in Dispatchers : Receive(t) \/ OfMessages(t)
    \/ \E t \in Workers : NoticeEvent(t) \/ OfEvents(t)
    \/ \E t \in Users : OpenConnection(t) \/ OfEvents(t)
    \/ \E t \in Consumers : OfConsumer(t)
    \/ TerminateQueue \/ Join

\* Threads run; nobody need send messages, open connections or close the agent.
Fairness ==
    /\ \A t \in Dispatchers : WF_vars(OfMessages(t))
    /\ \A t \in Workers \cup Users : WF_vars(OfEvents(t))
    /\ \A t \in Consumers : SF_vars(OfConsumer(t))
    /\ SF_vars(OfCloser)

Spec == Init /\ [][Next]_vars /\ Fairness

-----------------------------------------------------------------------------
(* Properties.                                                               *)

\* "Dispatcher thread that consumes incoming messages from the queue and delivers them
\* to registered callable entities" (python3/yami.py:1035): a message in the queue is
\* given to a callback, unless the agent is closed.
MessagesDelivered ==
    \A m \in 1 .. MaxMessages :
        (\E i \in DOMAIN messages : messages[i] = m) ~> (m \in handled \/ terminated)

CloseEnds == pc[Closer] = "closing" ~> pc[Closer] = "joined"

\* What the code does not see to: never do two threads wait for room, and the one
\* that waits does not keep the interpreter's lock from the thread that makes room.
Calm ==
    /\ Cardinality(waiting \ Consumers) <= 1
    /\ gil \notin waiting

\* While that lasts, and with one Python dispatcher thread, every message in the queue
\* is given to a callback, and closing the agent ends, whatever is in the queue and
\* however the threads wait and wake each other.
QueueDrains == []Calm => MessagesDelivered /\ CloseEnds
=============================================================================
