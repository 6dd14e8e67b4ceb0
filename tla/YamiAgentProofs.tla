-------------------------- MODULE YamiAgentProofs --------------------------
(***************************************************************************)
(* Proofs about YamiAgent: the references of a message's info are counted    *)
(* right and the message is completed once, whatever fails and however the   *)
(* program's threads, the worker and the reports of the core interleave; the *)
(* level of each flow is right, and that of the incoming one is bounded.     *)
(*                                                                           *)
(* And about YamiDispatch, what its dispatchers do with a message: whatever  *)
(* the program registers, unregisters and answers meanwhile, no message goes *)
(* to an object that was gone when it came, and none is answered twice by    *)
(* the program or twice by the agent.                                        *)
(***************************************************************************)
EXTENDS YamiAgent, FiniteSetTheorems, WellFoundedInduction, TLAPS

-----------------------------------------------------------------------------
(* Where the thread is that sends s.                                       *)

Steps == {"gate", "connect", "increase", "suppress", "post", "awaiting", "unwinding",
          "catch", "lower", "reopen"}

Sender(s) == CHOOSE c \in Threads : thread[c].s = s
Where(s) == IF \E c \in Threads : thread[c].s = s THEN thread[Sender(s)].pc ELSE "none"

OneSender ==
  \A c, d \in Threads : thread[c].s = thread[d].s /\ thread[c].s # None => c = d

LEMMA WhereSent ==
  ASSUME TypeOK, OneSender, NEW c \in Threads, thread[c].s # None
  PROVE  Where(thread[c].s) = thread[c].pc
<1>1. Sender(thread[c].s) = c
  BY DEF Sender, OneSender
<1> QED
  BY <1>1 DEF Where

LEMMA NowhereSent ==
  ASSUME TypeOK, NEW s \in Sends
  PROVE  Where(s) = "none" <=> \A c \in Threads : thread[c].s # s
<1>1. ASSUME NEW c \in Threads, thread[c].s = s PROVE Where(s) # "none"
  <2>1. Sender(s) \in Threads /\ thread[Sender(s)].s = s
    BY <1>1 DEF Sender
  <2>2. thread[Sender(s)].pc # "none"
    BY <2>1 DEF TypeOK, ThreadTypes
  <2> QED
    BY <1>1, <2>2 DEF Where
<1> QED
  BY <1>1 DEF Where

(* What the properties of YamiAgent say about a thread, by where it is.    *)
LEMMA SendingWhere ==
  ASSUME TypeOK, OneSender, AgentAssumption, NEW s \in Sends, NEW P, "none" \notin P
  PROVE  SendingAt(s, P) <=> Where(s) \in P
<1>1. s # None
  BY DEF AgentAssumption
<1>2. ASSUME NEW c \in Threads, thread[c].s = s PROVE Where(s) = thread[c].pc
  BY <1>1, <1>2, WhereSent
<1>3. CASE \E c \in Threads : thread[c].s = s
  BY <1>2, <1>3 DEF SendingAt
<1>4. CASE \A c \in Threads : thread[c].s # s
  BY <1>4, NowhereSent DEF SendingAt
<1> QED
  BY <1>3, <1>4

(* A thread goes on with its message.                                      *)
LEMMA WhereMoves ==
  ASSUME TypeOK, OneSender, NEW c \in Threads, thread[c].s # None, NEW pc \in Steps,
         thread' = [thread EXCEPT ![c].pc = pc]
  PROVE  /\ OneSender'
         /\ \A s \in Sends : Where(s)' = IF s = thread[c].s THEN pc ELSE Where(s)
<1>1. /\ \A d \in Threads : thread'[d].s = thread[d].s /\ (d # c => thread'[d] = thread[d])
      /\ thread'[c].pc = pc
  BY DEF TypeOK, ThreadTypes
<1>2. OneSender'
  BY <1>1 DEF OneSender
<1>3. \A s \in Sends : Sender(s)' = Sender(s)
  BY <1>1 DEF Sender
<1>4. ASSUME NEW s \in Sends PROVE Where(s)' = IF s = thread[c].s THEN pc ELSE Where(s)
  <2>1. CASE s = thread[c].s
    <3>1. Sender(s) = c
      BY <2>1 DEF Sender, OneSender
    <3> QED
      BY <1>1, <1>3, <2>1, <3>1 DEF Where
  <2>2. CASE s # thread[c].s
    <3>1. CASE \E d \in Threads : thread[d].s = s
      <4>1. Sender(s) \in Threads /\ thread[Sender(s)].s = s
        BY <3>1 DEF Sender
      <4> QED
        BY <1>1, <1>3, <2>2, <3>1, <4>1 DEF Where
    <3>2. CASE \A d \in Threads : thread[d].s # s
      BY <1>1, <2>2, <3>2 DEF Where
    <3> QED
      BY <3>1, <3>2
  <2> QED
    BY <2>1, <2>2
<1> QED
  BY <1>2, <1>4

(* A thread turns from one message, or none, to another that nobody sends, or to none. *)
LEMMA WhereTurns ==
  ASSUME TypeOK, OneSender, AgentAssumption, NEW c \in Threads, NEW next,
         \/ next = Idle
         \/ next.s \in Sends /\ Where(next.s) = "none" /\ next = [pc |-> "gate", s |-> next.s],
         thread' = [thread EXCEPT ![c] = next]
  PROVE  /\ OneSender'
         /\ \A s \in Sends : Where(s)' = IF s = next.s THEN "gate"
                                         ELSE IF s = thread[c].s THEN "none" ELSE Where(s)
<1>1. (\A d \in Threads : d # c => thread'[d] = thread[d]) /\ thread'[c] = next
  BY DEF TypeOK, ThreadTypes
<1>2. \A d \in Threads : thread[d].s = next.s => next.s = None
  BY NowhereSent DEF Idle
<1>3. OneSender'
  BY <1>1, <1>2 DEF OneSender
<1>4. ASSUME NEW s \in Sends
      PROVE  Where(s)' = IF s = next.s THEN "gate" ELSE IF s = thread[c].s THEN "none" ELSE Where(s)
  <2>1. s # None
    BY DEF AgentAssumption
  <2>2. CASE s = next.s
    <3>1. Sender(s)' = c
      BY <1>1, <1>3, <2>1, <2>2 DEF Sender, OneSender
    <3>2. next.pc = "gate"
      BY <2>1, <2>2 DEF Idle
    <3> QED
      BY <1>1, <2>2, <3>1, <3>2 DEF Where
  <2>3. CASE s # next.s /\ s = thread[c].s
    <3>1. \A d \in Threads : thread'[d].s # s
      BY <1>1, <2>1, <2>3 DEF OneSender
    <3> QED
      BY <2>3, <3>1 DEF Where
  <2>4. CASE s # next.s /\ s # thread[c].s
    <3>1. \A d \in Threads : thread'[d].s = s <=> thread[d].s = s
      BY <1>1, <2>4
    <3>2. CASE \E d \in Threads : thread[d].s = s
      <4>1. PICK d \in Threads : thread[d].s = s
        BY <3>2
      <4>2. Sender(s) = d /\ Sender(s)' = d
        BY <1>3, <2>1, <3>1, <4>1 DEF Sender, OneSender
      <4> QED
        BY <1>1, <2>4, <3>1, <4>1, <4>2 DEF Where
    <3>3. CASE \A d \in Threads : thread[d].s # s
      BY <2>4, <3>1, <3>3 DEF Where
    <3> QED
      BY <3>2, <3>3
  <2> QED
    BY <2>2, <2>3, <2>4
<1> QED
  BY <1>3, <1>4

LEMMA WhereReturns ==
  ASSUME TypeOK, OneSender, AgentAssumption, NEW c \in Threads, Return(c)
  PROVE  /\ OneSender'
         /\ \A s \in Sends : Where(s)' = IF s = thread[c].s THEN "none" ELSE Where(s)
<1> DEFINE next == Idle
<1>1. next = Idle /\ thread' = [thread EXCEPT ![c] = next]
  BY DEF Return
<1>2. next.s \notin Sends
  BY DEF Idle, AgentAssumption
<1> HIDE DEF next
<1>3. /\ OneSender'
      /\ \A s \in Sends : Where(s)' = IF s = next.s THEN "gate"
                                      ELSE IF s = thread[c].s THEN "none" ELSE Where(s)
  BY <1>1, WhereTurns
<1> QED
  BY <1>2, <1>3


-----------------------------------------------------------------------------
(* The inductive invariant: the messages the agent sends.                  *)

GivenUp(s) == Kind(s) = "failover" /\ core[s] = "dropped"

(* The next target of a group is tried when this one has been given up.    *)
Superseded(s) == \E t \in Sends : Id(t) = Id(s) /\ Turn(t) > Turn(s) /\ core[t] # "new"

(* How a thread's step and what the core has done with its message fit.    *)
StepFits(s) ==
  /\ Where(s) \in {"gate", "connect", "increase", "suppress", "post"} => core[s] = "calling"
  /\ Where(s) = "awaiting" => /\ core[s] \in {"queued", "sent", "dropped"}
                              /\ Kind(s) \in {"failover", "one_way_failover"}
  /\ Where(s) = "unwinding" => Owned(s)
  /\ Where(s) \in {"unwinding", "catch", "lower", "reopen"} => core[s] = "failed" \/ GivenUp(s)

(* The references of an info: of the manager, of the reports of progress and of the
   program.  A failover message that was abandoned has been let go once more
   when its exception was caught.                                          *)
Reporting == {"calling", "lower", "reopen", "tidy", "release"}

References(s) == IF info[s] = None THEN 0 ELSE info[s].refs
ByManager(s) == entry[Id(s)] = s
ByProgress(s) ==
  \/ Where(s) \in {"increase", "suppress", "post"}
  \/ core[s] = "failed" /\ Where(s) \in {"unwinding", "catch"}
  \/ core[s] = "queued"
  \/ ReportingAt(s, Reporting)
ByProgram(s) ==
  Owned(s) /\ (s \in held \/ Where(s) \in {"increase", "suppress", "post", "awaiting", "unwinding"})
Caught(s) == GivenUp(s) /\ Where(s) \notin {"awaiting", "unwinding", "catch"}

(* Nothing is known of a message before its info is made; the program has it only
   when the call has returned; it is awaited while it is queued if its group
   must know whether it is abandoned; it is taken from the manager before the
   next target is tried; and its state says what the core has done.       *)
SendRight(s) ==
  /\ StepFits(s)
  /\ core[s] = "new" \/ Where(s) \in {"gate", "connect"} =>
       info[s] = None /\ ~ByManager(s) /\ completed[s] = <<>>
  /\ Superseded(s) =>
       (core[s] = "failed" \/ GivenUp(s)) /\ Where(s) = "none" /\ ~ByManager(s) /\ s \notin held
  /\ s \in held =>
       /\ Owned(s) /\ Where(s) = "none"
       /\ core[s] \in {"queued", "sent", "dropped"} /\ ~GivenUp(s)
  /\ Kind(s) = "failover" /\ core[s] = "queued" => Where(s) = "awaiting"
  /\ (Where(s) = "catch" /\ Owned(s)) \/ Where(s) \in {"lower", "reopen"} \/ Caught(s) => ~ByManager(s)
  /\ info[s] # None =>
       /\ info[s].state \in {"transmitted", "replied", "rejected"} => core[s] = "sent"
       /\ info[s].state = "abandoned" => core[s] = "dropped"
  /\ HasInfo(s) =>
       References(s) + One(Caught(s)) = One(ByManager(s)) + One(ByProgress(s)) + One(ByProgram(s))

(* The worker reports what the core has done.                              *)
ReportTrue ==
  /\ worker.pc \in Reporting => core[worker.s] = worker.how
  /\ worker.pc = "release" => HasInfo(worker.s)

EntriesById == \A i \in Sends : entry[i] # None => Id(entry[i]) = i /\ HasInfo(entry[i])

Outgoing == OneSender /\ ReportTrue /\ EntriesById /\ \A s \in Sends : SendRight(s)

(* The messages the level of the outgoing flow counts.                     *)
Underway(s) ==
  \/ Where(s) \in {"suppress", "post"}
  \/ core[s] = "failed" /\ Where(s) \in {"unwinding", "catch", "lower"}
  \/ core[s] = "queued"
  \/ ReportingAt(s, {"calling", "lower"})

LevelRight == ~FailoverDropped => level = Cardinality({s \in Sends : Underway(s)})

-----------------------------------------------------------------------------
(* The inductive invariant: the requests that come in.                     *)

Opening == {d \in Dispatchers : dispatcher[d] = "allow"}
Serving == {d \in Dispatchers : dispatcher[d] \in {"dispatching", "lower"}}

(* Requests are let in, and will be without a dispatcher's doing.          *)
LetsIn == allowedIn /\ worker.pc # "shut"

Incoming ==
  /\ worker.pc = "waiting" /\ worker.view => allowedIn
  /\ levelIn + Cardinality(Opening) + One(LetsIn) <= HighIn + Cardinality(Dispatchers)
  /\ levelIn = queue + Cardinality(Serving) + One(worker.pc \in {"shut", "push"})
  /\ ~Terminated => sem = queue
  /\ Terminated => worker.pc = "stopped" \/ (Cleaning /\ worker.pc \in Reporting)

(* The message whose callback is called with an answer is in the manager still.   *)
AnswerAwaited ==
  worker.pc = "answering" =>
    /\ Kind(worker.s) = "callback" /\ core[worker.s] = "sent"
    /\ entry[Id(worker.s)] = worker.s

AgentInv ==
  /\ TypeOK /\ CompletedOnce /\ Incoming /\ NothingFreedUsed
  /\ ~broken => Outgoing /\ LevelRight /\ AnswerAwaited

-----------------------------------------------------------------------------
(* The settings.                                                           *)

Settled == \A s \in Sends :
  /\ Kind(s) \in Kinds /\ Id(s) \in Sends /\ Turn(s) \in Nat /\ Another(s) \in Sends \cup {None}
  /\ Another(s) # None => Id(Another(s)) = Id(s) /\ Turn(Another(s)) = Turn(s) + 1
  /\ Kind(Id(s)) = Kind(s) /\ Id(Id(s)) = Id(s) /\ (Id(s) = s <=> Turn(s) = 0)
  /\ Id(s) # s => Kind(s) \in {"failover", "one_way_failover"}
  /\ \A t \in Sends : Id(t) = Id(s) /\ Turn(t) = Turn(s) => t = s

LEMMA SettingsRight == AgentAssumption /\ TypeOK => Settled
<1> SUFFICES ASSUME AgentAssumption, TypeOK PROVE Settled
  OBVIOUS
<1>1. \A s \in Sends :
        /\ Kind(s) \in Kinds /\ Id(s) \in Sends /\ Turn(s) \in Nat
        /\ Kind(Id(s)) = Kind(s) /\ Id(Id(s)) = Id(s) /\ (Id(s) = s <=> Turn(s) = 0)
        /\ Id(s) # s => Kind(s) \in {"failover", "one_way_failover"}
        /\ \A t \in Sends : Id(t) = Id(s) /\ Turn(t) = Turn(s) => t = s
  BY DEF TypeOK, Circumstances, Kind, Id, Turn
<1>2. ASSUME NEW s \in Sends
      PROVE  /\ Another(s) \in Sends \cup {None}
             /\ Another(s) # None => Id(Another(s)) = Id(s) /\ Turn(Another(s)) = Turn(s) + 1
  <2>1. CASE \E t \in Sends : Follows(t, s)
    <3>1. Another(s) \in Sends /\ Follows(Another(s), s)
      BY <2>1 DEF Another
    <3> QED
      BY <3>1 DEF Follows
  <2>2. CASE ~\E t \in Sends : Follows(t, s)
    BY <2>2 DEF Another
  <2> QED
    BY <2>1, <2>2
<1> QED
  BY <1>1, <1>2 DEF Settled

LEMMA SettingStays ==
  ASSUME setting' = setting
  PROVE  \A s : /\ Kind(s)' = Kind(s) /\ Id(s)' = Id(s) /\ Turn(s)' = Turn(s)
                /\ Another(s)' = Another(s)
                /\ Owned(s)' = Owned(s) /\ HasInfo(s)' = HasInfo(s)
<1>1. \A s : Kind(s)' = Kind(s) /\ Id(s)' = Id(s) /\ Turn(s)' = Turn(s)
  BY DEF Kind, Id, Turn
<1>2. \A s, t : Follows(t, s)' <=> Follows(t, s)
  BY <1>1 DEF Follows
<1>3. \A s : Another(s)' = Another(s)
  BY <1>2 DEF Another
<1> QED
  BY <1>1, <1>3 DEF Owned, HasInfo

-----------------------------------------------------------------------------
(* The types.                                                              *)

LEMMA Released ==
  ASSUME AgentAssumption, NEW i \in [Sends -> Infos \cup {None}], NEW s \in Sends
  PROVE  /\ DecRef(i, s) \in [Sends -> Infos \cup {None}]
         /\ \A u \in Sends : u # s => DecRef(i, s)[u] = i[u]
         /\ i[s] = None => DecRef(i, s)[s] = None
         /\ i[s] # None /\ i[s].refs = 1 => DecRef(i, s)[s] = None
         /\ i[s] # None /\ i[s].refs # 1 =>
              /\ DecRef(i, s)[s] # None /\ DecRef(i, s)[s].refs = i[s].refs - 1
              /\ DecRef(i, s)[s].state = i[s].state /\ DecRef(i, s)[s].done = i[s].done
              /\ DecRef(i, s)[s].transmitted = i[s].transmitted
<1> DEFINE less == [i[s] EXCEPT !.refs = i[s].refs - 1]
           new == IF i[s] = None \/ i[s].refs = 1 THEN None ELSE less
<1>1. DecRef(i, s) = [i EXCEPT ![s] = new]
  BY DEF DecRef, Fewer
<1>2. ASSUME i[s] # None, i[s].refs # 1
      PROVE  /\ less \in Infos /\ less.refs = i[s].refs - 1 /\ less.state = i[s].state
             /\ less.done = i[s].done /\ less.transmitted = i[s].transmitted
  BY <1>2 DEF Infos
<1>3. new \in Infos \cup {None}
  BY <1>2
<1>4. DecRef(i, s)[s] = new /\ \A u \in Sends : u # s => DecRef(i, s)[u] = i[u]
  BY <1>1
<1>5. DecRef(i, s) \in [Sends -> Infos \cup {None}]
  BY <1>1, <1>3
<1>6. None \notin Infos
  BY DEF AgentAssumption
<1> QED
  BY <1>2, <1>4, <1>5, <1>6

LEMMA RemovedTypes ==
  ASSUME TypeOK, AgentAssumption, NEW i \in [Sends -> Infos \cup {None}], NEW s \in Sends, Remove(s)
  PROVE  /\ Removed(i, s) \in [Sends -> Infos \cup {None}]
         /\ entry' \in [Sends -> Sends \cup {None}]
<1>1. entry \in [Sends -> Sends \cup {None}]
  BY DEF TypeOK, MessageTypes
<1>2. entry' \in [Sends -> Sends \cup {None}]
  BY <1>1 DEF Remove
<1>3. CASE entry[s] = None
  BY <1>2, <1>3 DEF Removed
<1>4. CASE entry[s] # None
  <2>1. Removed(i, s) = DecRef(i, entry[s]) /\ entry[s] \in Sends
    BY <1>1, <1>4 DEF Removed
  <2> QED
    BY <1>2, <2>1, Released
<1> QED
  BY <1>3, <1>4

LEMMA MoveTypes ==
  ASSUME ThreadTypes, NEW c \in Threads, thread[c].s # None, NEW pc \in Steps, Goto(c, pc)
  PROVE  ThreadTypes'
BY DEF ThreadTypes, Goto, Steps

LEMMA TurnTypes ==
  ASSUME ThreadTypes, AgentAssumption, NEW c \in Threads, NEW next,
         next = Idle \/ (next.s \in Sends /\ next = [pc |-> "gate", s |-> next.s]),
         thread' = [thread EXCEPT ![c] = next]
  PROVE  ThreadTypes'
<1>1. next \in [pc : {"idle", "gate"}, s : Sends \cup {None}] /\ (next.pc = "idle" <=> next.s = None)
  BY DEF Idle, AgentAssumption
<1> QED
  BY <1>1 DEF ThreadTypes

LEMMA FailedTypes ==
  ASSUME TypeOK, AgentAssumption, NEW c \in Threads, NEW s \in Sends, Failed(c, s)
  PROVE  ThreadTypes' /\ core' \in [Sends -> {"new", "calling", "queued", "sent", "dropped", "failed"}]
<1>1. core' \in [Sends -> {"new", "calling", "queued", "sent", "dropped", "failed"}]
  BY DEF Failed, TypeOK, MessageTypes
<1>2. Another(s) \in Sends \cup {None}
  BY SettingsRight DEF Settled
<1>3. ThreadTypes'
  BY <1>2, TurnTypes DEF Failed, TypeOK
<1> QED
  BY <1>1, <1>3

(* A thread that is somewhere has a message.                               *)
LEMMA AtMessage ==
  ASSUME TypeOK, NEW c \in Threads, NEW pc \in Steps, At(c, pc)
  PROVE  thread[c].s \in Sends /\ thread[c].s # None /\ thread[c].pc = pc
BY DEF TypeOK, ThreadTypes, At, Steps

LEMMA ReturnTypes ==
  ASSUME ThreadTypes, AgentAssumption, NEW c \in Threads, Return(c)
  PROVE  ThreadTypes'
<1>1. Idle = Idle /\ thread' = [thread EXCEPT ![c] = Idle]
  BY DEF Return
<1> QED
  BY <1>1, TurnTypes

LEMMA ReleasedBoth ==
  ASSUME TypeOK, AgentAssumption, NEW s \in Sends, Remove(Id(s))
  PROVE  /\ DecRef(Removed(info, Id(s)), s) \in [Sends -> Infos \cup {None}]
         /\ Removed(DecRef(info, s), Id(s)) \in [Sends -> Infos \cup {None}]
         /\ Removed(info, Id(s)) \in [Sends -> Infos \cup {None}]
         /\ entry' \in [Sends -> Sends \cup {None}]
<1>1. Id(s) \in Sends
  BY SettingsRight DEF Settled
<1>2. info \in [Sends -> Infos \cup {None}]
  BY DEF TypeOK, MessageTypes
<1> QED
  BY <1>1, <1>2, RemovedTypes, Released

LEMMA MadeTypes ==
  ASSUME TypeOK, AgentAssumption, NEW s \in Sends
  PROVE  /\ NewInfo(s) \in Infos /\ Id(s) \in Sends
         /\ NewInfo(s).refs = (IF Owned(s) THEN 3 ELSE 2)
         /\ NewInfo(s).state = "posted" /\ ~NewInfo(s).done /\ ~NewInfo(s).transmitted
<1>1. (IF Owned(s) THEN 3 ELSE 2) \in Nat \ {0}
  OBVIOUS
<1> QED
  BY <1>1, SettingsRight DEF NewInfo, Infos, Settled

LEMMA InStateTypes ==
  ASSUME NEW i \in Infos, NEW state \in {"transmitted"} \cup Final
  PROVE  /\ InState(i, state) \in Infos
         /\ InState(i, state).refs = i.refs /\ InState(i, state).state = state
         /\ InState(i, state).transmitted
         /\ InState(i, state).done <=> state \in Final
<1>1. CASE state \in Final
  <2> DEFINE after == [i EXCEPT !.state = state, !.transmitted = TRUE, !.done = TRUE]
  <2>1. InState(i, state) = after
    BY <1>1 DEF InState
  <2>2. after \in Infos /\ after.state = state /\ after.transmitted /\ after.done /\ after.refs = i.refs
    BY DEF Infos
  <2> QED
    BY <1>1, <2>1, <2>2
<1>2. CASE state \notin Final
  <2> DEFINE after == [i EXCEPT !.state = state, !.transmitted = TRUE, !.done = FALSE]
  <2>1. InState(i, state) = after
    <3>1. (state \in Final) = FALSE
      BY <1>2
    <3> QED
      BY <3>1 DEF InState
  <2>2. after \in Infos /\ after.state = state /\ after.transmitted /\ ~after.done /\ after.refs = i.refs
    BY DEF Infos
  <2> QED
    BY <1>2, <2>1, <2>2
<1> QED
  BY <1>1, <1>2

Cores == {"new", "calling", "queued", "sent", "dropped", "failed"}
WorkerPlaces == {"top", "waiting", "check", "stopped", "shut", "push", "calling", "lower",
                 "reopen", "tidy", "release", "answering"}

LEMMA WorkerTypesMove ==
  ASSUME WorkerTypes, NEW pc \in WorkerPlaces, worker' = [worker EXCEPT !.pc = pc],
         worker.s # None \/ pc \in {"top", "waiting", "check", "stopped", "shut", "push"}
  PROVE  WorkerTypes'
BY DEF WorkerTypes, WorkerPlaces

LEMMA SendTypes ==
  ASSUME TypeOK, AgentAssumption, NEW c \in Threads, SendStep(c)
  PROVE  TypeOK'
<1> DEFINE s == thread[c].s
<1> USE DEF flowVars, inVars
<1>1. ASSUME PassGate(c) \/ Suppress(c) PROVE TypeOK'
  <2>1. ThreadTypes'
    BY <1>1, AtMessage, MoveTypes DEF TypeOK, PassGate, Suppress, Steps
  <2> QED
    BY <1>1, <2>1 DEF TypeOK, PassGate, Suppress, RequestTypes, WorkerTypes, MessageTypes
<1>2. ASSUME ConnectFails(c) PROVE TypeOK'
  <2>1. ThreadTypes' /\ core' \in [Sends -> Cores] /\ refused' \in Nat
    BY <1>2, AtMessage, FailedTypes DEF TypeOK, ConnectFails, MayFail, Steps, MessageTypes, Cores
  <2> QED
    BY <1>2, <2>1 DEF TypeOK, ConnectFails, RequestTypes, WorkerTypes, MessageTypes, Cores
<1>3. ASSUME Prepare(c) PROVE TypeOK'
  <2>1. s \in Sends /\ s # None
    BY <1>3, AtMessage DEF Prepare, Steps
  <2>2. ThreadTypes'
    BY <1>3, <2>1, MoveTypes DEF TypeOK, Prepare, Steps, AfterGate
  <2>3. /\ info' \in [Sends -> Infos \cup {None}] /\ entry' \in [Sends -> Sends \cup {None}]
        /\ broken' \in BOOLEAN
    <3>1. CASE HasInfo(s)
      <4>1. /\ info' = [info EXCEPT ![s] = NewInfo(s)] /\ entry' = [entry EXCEPT ![Id(s)] = s]
            /\ broken' = (entry[Id(s)] # None)
        BY <1>3, <3>1 DEF Prepare
      <4> HIDE DEF s
      <4> QED
        BY <2>1, <4>1, MadeTypes DEF TypeOK, MessageTypes
    <3>2. CASE ~HasInfo(s)
      BY <1>3, <3>2 DEF TypeOK, Prepare, MessageTypes
    <3> QED
      BY <3>1, <3>2
  <2> QED
    BY <1>3, <2>2, <2>3 DEF TypeOK, Prepare, RequestTypes, WorkerTypes, MessageTypes
<1>4. ASSUME Increase(c) PROVE TypeOK'
  <2>1. ThreadTypes'
    BY <1>4, AtMessage, MoveTypes DEF TypeOK, Increase, Steps
  <2> QED
    BY <1>4, <2>1 DEF TypeOK, Increase, RequestTypes, WorkerTypes, MessageTypes
<1>5. ASSUME Post(c) PROVE TypeOK'
  <2>1. s \in Sends /\ s # None
    BY <1>5, AtMessage DEF Post, Steps
  <2>2. Goto(c, "awaiting") \/ Return(c)
    BY <1>5 DEF Post
  <2>3. ThreadTypes'
    BY <2>1, <2>2, MoveTypes, ReturnTypes DEF TypeOK, Steps
  <2>4. held' \in SUBSET Sends /\ core' \in [Sends -> Cores]
    BY <1>5, <2>1 DEF TypeOK, Post, MessageTypes, Cores
  <2> QED
    BY <1>5, <2>3, <2>4 DEF TypeOK, Post, RequestTypes, WorkerTypes, MessageTypes, Cores
<1>6. ASSUME PostFails(c) PROVE TypeOK'
  <2>1. s \in Sends /\ s # None
    BY <1>6, AtMessage DEF PostFails, Steps
  <2>2. ThreadTypes'
    BY <1>6, <2>1, MoveTypes DEF TypeOK, PostFails, Steps
  <2>3. core' \in [Sends -> Cores] /\ refused' \in Nat
    BY <1>6, <2>1 DEF TypeOK, PostFails, MayFail, MessageTypes, Cores
  <2> QED
    BY <1>6, <2>2, <2>3 DEF TypeOK, PostFails, RequestTypes, WorkerTypes, MessageTypes, Cores
<1>7. ASSUME Awaited(c) PROVE TypeOK'
  <2>1. s \in Sends /\ s # None
    BY <1>7, AtMessage DEF Awaited, Steps
  <2>2. ThreadTypes'
    <3>1. Goto(c, "unwinding") \/ Return(c) \/ UNCHANGED thread
      BY <1>7 DEF Awaited
    <3> QED
      BY <2>1, <3>1, MoveTypes, ReturnTypes DEF TypeOK, Steps, ThreadTypes
  <2>3. /\ info' \in [Sends -> Infos \cup {None}] /\ entry' \in [Sends -> Sends \cup {None}]
        /\ held' \in SUBSET Sends /\ broken' \in BOOLEAN
    <3>1. \/ UNCHANGED <<info, entry>>
          \/ info' = DecRef(Removed(info, Id(s)), s) /\ Remove(Id(s))
      BY <1>7 DEF Awaited
    <3>2. info' \in [Sends -> Infos \cup {None}] /\ entry' \in [Sends -> Sends \cup {None}]
      <4> HIDE DEF s
      <4> QED
        BY <2>1, <3>1, ReleasedBoth DEF TypeOK, MessageTypes
    <3>3. (broken' = TRUE \/ broken' = broken) /\ (held' = held \cup {s} \/ held' = held)
      BY <1>7 DEF Awaited
    <3> QED
      BY <2>1, <3>2, <3>3 DEF TypeOK, MessageTypes
  <2> QED
    BY <1>7, <2>2, <2>3 DEF TypeOK, Awaited, RequestTypes, WorkerTypes, MessageTypes
<1>8. ASSUME Unwind(c) \/ Catch(c) PROVE TypeOK'
  <2>1. s \in Sends /\ s # None
    BY <1>8, AtMessage DEF Unwind, Catch, Steps
  <2>2. ThreadTypes'
    BY <1>8, <2>1, MoveTypes DEF TypeOK, Unwind, Catch, Steps
  <2>3. info' \in [Sends -> Infos \cup {None}] /\ entry' \in [Sends -> Sends \cup {None}]
    <3>1. \/ UNCHANGED <<info, entry>>
          \/ info' = DecRef(Removed(info, Id(s)), s) /\ Remove(Id(s))
          \/ info' = Removed(DecRef(info, s), Id(s)) /\ Remove(Id(s))
      BY <1>8 DEF Unwind, Catch
    <3> HIDE DEF s
    <3> QED
      BY <2>1, <3>1, ReleasedBoth DEF TypeOK, MessageTypes
  <2>4. broken' \in BOOLEAN
    BY <1>8 DEF Unwind, Catch, TypeOK
  <2> QED
    BY <1>8, <2>2, <2>3, <2>4 DEF TypeOK, Unwind, Catch, RequestTypes, WorkerTypes, MessageTypes
<1>9. ASSUME Lower(c) PROVE TypeOK'
  <2>1. s \in Sends /\ s # None
    BY <1>9, AtMessage DEF Lower, Steps
  <2>2. ThreadTypes' /\ core' \in [Sends -> Cores]
    BY <1>9, <2>1, MoveTypes, FailedTypes DEF TypeOK, Lower, Steps, MessageTypes, Cores
  <2>3. level' \in Nat /\ broken' \in BOOLEAN
    BY <1>9 DEF TypeOK, Lower
  <2> QED
    BY <1>9, <2>2, <2>3 DEF TypeOK, Lower, RequestTypes, WorkerTypes, MessageTypes, Cores
<1>10. ASSUME Reopen(c) PROVE TypeOK'
  <2>1. ThreadTypes' /\ core' \in [Sends -> Cores]
    BY <1>10, AtMessage, FailedTypes DEF TypeOK, Reopen, Steps, Cores
  <2> QED
    BY <1>10, <2>1 DEF TypeOK, Reopen, RequestTypes, WorkerTypes, MessageTypes, Cores
<1> QED
  BY <1>1, <1>2, <1>3, <1>4, <1>5, <1>6, <1>7, <1>8, <1>9, <1>10 DEF SendStep

LEMMA ProgramTypes ==
  ASSUME TypeOK, AgentAssumption, NEW s \in Sends, Drop(s) \/ \E c \in Threads : Call(c, s)
  PROVE  TypeOK'
<1> USE DEF flowVars, inVars, RequestTypes, WorkerTypes
<1>1. ASSUME Drop(s) PROVE TypeOK'
  <2>1. info' \in [Sends -> Infos \cup {None}] /\ entry' \in [Sends -> Sends \cup {None}]
    BY <1>1, ReleasedBoth DEF Drop
  <2> QED
    BY <1>1, <2>1 DEF TypeOK, Drop, ThreadTypes, MessageTypes
<1>2. ASSUME NEW c \in Threads, Call(c, s) PROVE TypeOK'
  <2>1. [pc |-> "gate", s |-> s].s \in Sends /\ thread' = [thread EXCEPT ![c] = [pc |-> "gate", s |-> s]]
    BY <1>2 DEF Call
  <2>2. ThreadTypes'
    BY <2>1, TurnTypes DEF TypeOK
  <2> QED
    BY <1>2, <2>2 DEF TypeOK, Call, MessageTypes
<1> QED
  BY <1>1, <1>2

LEMMA ReportTypes ==
  ASSUME TypeOK, AgentAssumption, WorkerStep \/ TimedOut \/ Receive
  PROVE  TypeOK'
<1> USE DEF flowVars, outVars, inVars
<1>1. ASSUME Read \/ Interrupted \/ TimedOut \/ Check PROVE TypeOK'
  <2>1. WorkerTypes'
    <3>1. ASSUME Read PROVE WorkerTypes'
      BY <3>1 DEF Read, TypeOK, WorkerTypes, RequestTypes
    <3>2. ASSUME Interrupted \/ TimedOut \/ Check PROVE WorkerTypes'
      BY <3>2, WorkerTypesMove DEF TypeOK, Interrupted, TimedOut, Check, WorkerTo, WorkerPlaces
    <3> QED
      BY <1>1, <3>1, <3>2
  <2>2. interrupts' \in Nat
    BY <1>1 DEF TypeOK, Read, Interrupted, TimedOut, Check
  <2> QED
    BY <1>1, <2>1, <2>2 DEF TypeOK, Read, Interrupted, TimedOut, Check, ThreadTypes, MessageTypes,
                            RequestTypes
<1>2. ASSUME Receive \/ Shut \/ Push PROVE TypeOK'
  <2>1. WorkerTypes'
    BY <1>2, WorkerTypesMove DEF TypeOK, Receive, Shut, Push, WorkerTo, WorkerPlaces
  <2>2. RequestTypes'
    <3> USE DEF TypeOK, RequestTypes
    <3>1. ASSUME Receive PROVE RequestTypes'
      BY <3>1 DEF Receive
    <3>2. ASSUME Shut PROVE RequestTypes'
      BY <3>2 DEF Shut
    <3>3. ASSUME Push PROVE RequestTypes'
      BY <3>3 DEF Push
    <3> QED
      BY <1>2, <3>1, <3>2, <3>3
  <2> QED
    BY <1>2, <2>1, <2>2 DEF TypeOK, Receive, Shut, Push, ThreadTypes, MessageTypes
<1>3. ASSUME Called \/ LowerByWorker \/ ReopenByWorker PROVE TypeOK'
  <2>1. worker.s # None
    BY <1>3 DEF TypeOK, WorkerTypes, Called, LowerByWorker, ReopenByWorker, WorkerAt
  <2>2. WorkerTypes'
    BY <1>3, <2>1, WorkerTypesMove DEF TypeOK, Called, LowerByWorker, ReopenByWorker, WorkerTo,
                                       WorkerPlaces
  <2>3. level' \in Nat /\ allowed' \in BOOLEAN /\ broken' \in BOOLEAN
    <3>1. ASSUME LowerByWorker PROVE level' \in Nat /\ allowed' \in BOOLEAN /\ broken' \in BOOLEAN
      BY <3>1 DEF TypeOK, LowerByWorker, InfoGone
    <3>2. ASSUME Called \/ ReopenByWorker
          PROVE  level' \in Nat /\ allowed' \in BOOLEAN /\ broken' \in BOOLEAN
      BY <3>2 DEF TypeOK, Called, ReopenByWorker
    <3> QED
      BY <1>3, <3>1, <3>2
  <2> QED
    BY <1>3, <2>2, <2>3 DEF TypeOK, Called, LowerByWorker, ReopenByWorker, ThreadTypes, MessageTypes,
                            RequestTypes
<1>4. ASSUME Tidy \/ Release \/ Answered PROVE TypeOK'
  <2>1. worker.s \in Sends /\ worker.s # None
    BY <1>4 DEF TypeOK, WorkerTypes, Tidy, Release, Answered, WorkerAt
  <2>2. info' \in [Sends -> Infos \cup {None}] /\ entry' \in [Sends -> Sends \cup {None}]
    <3>1. \/ UNCHANGED <<info, entry>>
          \/ info' = Removed(info, Id(worker.s)) /\ Remove(Id(worker.s))
          \/ info' = DecRef(info, worker.s) /\ UNCHANGED entry
      BY <1>4 DEF Tidy, Release, Answered
    <3>2. info \in [Sends -> Infos \cup {None}] /\ entry \in [Sends -> Sends \cup {None}]
      BY DEF TypeOK, MessageTypes
    <3>3. CASE UNCHANGED <<info, entry>>
      BY <3>2, <3>3
    <3>4. CASE info' = Removed(info, Id(worker.s)) /\ Remove(Id(worker.s))
      BY <2>1, <3>4, ReleasedBoth
    <3>5. CASE info' = DecRef(info, worker.s) /\ UNCHANGED entry
      BY <2>1, <3>2, <3>5, Released
    <3> QED
      BY <3>1, <3>3, <3>4, <3>5
  <2>3. WorkerTypes'
    BY <1>4, <2>1, WorkerTypesMove DEF TypeOK, Tidy, Release, Answered, WorkerTo, WorkerPlaces, Reported
  <2>4. broken' \in BOOLEAN
    BY <1>4 DEF Tidy, Release, Answered, InfoGone
  <2> QED
    BY <1>4, <2>2, <2>3, <2>4 DEF TypeOK, Tidy, Release, Answered, ThreadTypes, MessageTypes,
                                  RequestTypes
<1> QED
  BY <1>1, <1>2, <1>3, <1>4 DEF WorkerStep, Report

LEMMA ProgressTypes ==
  ASSUME TypeOK, AgentAssumption, NEW s \in Sends, NEW how \in {"sent", "dropped"}, Progress(s, how)
  PROVE  TypeOK'
<1> DEFINE state == IF how = "sent" THEN "transmitted" ELSE "abandoned"
           changes == HasInfo(s) /\ info[s] # None /\ info[s].state = "posted"
           pc == AfterProgress(how, changes /\ Kind(s) = "callback")
<1>1. info \in [Sends -> Infos \cup {None}] /\ completed \in [Sends -> Seq(Final)]
  BY DEF TypeOK, MessageTypes
<1>2. state \in {"transmitted"} \cup Final /\ (how = "dropped" => state \in Final)
  BY DEF Final
<1>3. info' \in [Sends -> Infos \cup {None}] /\ completed' \in [Sends -> Seq(Final)]
  <2>1. CASE changes
    <3>1. info' = [info EXCEPT ![s] = InState(info[s], state)]
          /\ completed' = [completed EXCEPT ![s] = IF how = "dropped" THEN Append(completed[s], state) ELSE completed[s]]
      BY <2>1 DEF Progress
    <3>2. InState(info[s], state) \in Infos
      BY <1>1, <1>2, <2>1, InStateTypes
    <3>3. how = "dropped" => Append(completed[s], state) \in Seq(Final)
      BY <1>1, <1>2
    <3> QED
      BY <1>1, <3>1, <3>2, <3>3
  <2>2. CASE ~changes
    BY <1>1, <2>2 DEF Progress
  <2> QED
    BY <2>1, <2>2
<1>4. core' \in [Sends -> Cores] /\ broken' \in BOOLEAN
  <2>1. core' = [core EXCEPT ![s] = how] /\ core \in [Sends -> Cores]
    BY DEF Progress, TypeOK, MessageTypes, Cores
  <2>2. core' \in [Sends -> Cores]
    BY <2>1 DEF Cores
  <2> QED
    BY <2>2 DEF Progress
<1>5. WorkerTypes'
  <2>1. worker' = [worker EXCEPT !.s = s, !.how = how, !.pc = pc]
    BY DEF Progress
  <2>2. pc \in {"calling", "lower"}
    BY DEF AfterProgress
  <2>3. s # None
    BY DEF AgentAssumption
  <2> HIDE DEF pc
  <2> QED
    BY <2>1, <2>2, <2>3 DEF TypeOK, WorkerTypes
<1>6. /\ UNCHANGED <<setting, thread, entry, held, replies, refused>>
      /\ UNCHANGED <<flowVars, interrupts, inVars, stopping>>
  BY DEF Progress
<1>7. ThreadTypes' /\ RequestTypes'
  BY <1>6 DEF TypeOK, ThreadTypes, RequestTypes, inVars
<1>8. MessageTypes'
  BY <1>3, <1>4, <1>6 DEF TypeOK, MessageTypes, Cores
<1> QED
  BY <1>4, <1>5, <1>6, <1>7, <1>8 DEF TypeOK, flowVars

LEMMA ReplyTypes ==
  ASSUME TypeOK, AgentAssumption, NEW s \in Sends, NEW how \in {"replied", "rejected"}, Reply(s, how),
         \A t \in Sends : entry[Id(s)] = t => info[t] # None
  PROVE  TypeOK'
<1> DEFINE t == entry[Id(s)]
           answered == [info EXCEPT ![t] = InState(info[t], how)]
<1>1. /\ info \in [Sends -> Infos \cup {None}] /\ completed \in [Sends -> Seq(Final)]
      /\ Id(s) \in Sends /\ t \in Sends \cup {None} /\ entry \in [Sends -> Sends \cup {None}]
  BY SettingsRight DEF TypeOK, MessageTypes, Settled
<1>2. /\ info' \in [Sends -> Infos \cup {None}] /\ entry' \in [Sends -> Sends \cup {None}]
      /\ completed' \in [Sends -> Seq(Final)] /\ WorkerTypes'
  <2>1. CASE t = None \/ ~MayComplete(info[t])
    <3>1. UNCHANGED <<info, entry, completed>> /\ WorkerTo("check")
      BY <2>1 DEF Reply
    <3>2. WorkerTypes'
      BY <3>1, WorkerTypesMove DEF TypeOK, WorkerTo, WorkerPlaces
    <3> QED
      BY <1>1, <3>1, <3>2
  <2>2. CASE t # None /\ MayComplete(info[t])
    <3>1. t \in Sends /\ info[t] \in Infos
      BY <1>1, <2>2
    <3>2. answered \in [Sends -> Infos \cup {None}]
      BY <1>1, <3>1, InStateTypes DEF Final
    <3>3. completed' = [completed EXCEPT ![t] = Append(completed[t], how)]
      BY <2>2 DEF Reply
    <3>4. completed' \in [Sends -> Seq(Final)]
      BY <1>1, <3>1, <3>3 DEF Final
    <3>5. CASE Kind(t) = "callback"
      <4>1. info' = answered /\ worker' = [worker EXCEPT !.pc = "answering", !.s = t] /\ UNCHANGED entry
        BY <2>2, <3>5 DEF Reply
      <4> HIDE DEF t
      <4>2. WorkerTypes'
        BY <3>1, <4>1 DEF TypeOK, WorkerTypes, AgentAssumption
      <4> QED
        BY <1>1, <3>2, <3>4, <4>1, <4>2
    <3>6. CASE Kind(t) # "callback"
      <4>1. info' = Removed(answered, Id(t)) /\ Remove(Id(t)) /\ WorkerTo("check")
        BY <2>2, <3>6 DEF Reply
      <4>2. Id(t) \in Sends
        BY <3>1, SettingsRight DEF Settled
      <4>3. info' \in [Sends -> Infos \cup {None}] /\ entry' \in [Sends -> Sends \cup {None}]
        BY <3>2, <4>1, <4>2, RemovedTypes
      <4>4. WorkerTypes'
        BY <4>1, WorkerTypesMove DEF TypeOK, WorkerTo, WorkerPlaces
      <4> QED
        BY <3>4, <4>3, <4>4
    <3> QED
      BY <3>5, <3>6
  <2> QED
    BY <2>1, <2>2
<1>3. /\ UNCHANGED <<setting, thread, held, core, refused>>
      /\ UNCHANGED <<flowVars, interrupts, inVars, stopping, broken>>
      /\ replies' = [replies EXCEPT ![s] = replies[s] + 1]
  BY DEF Reply
<1>4. replies' \in [Sends -> Nat]
  BY <1>3 DEF TypeOK, MessageTypes
<1>5. ThreadTypes' /\ RequestTypes'
  BY <1>3 DEF TypeOK, ThreadTypes, RequestTypes, inVars
<1>6. MessageTypes'
  BY <1>2, <1>3, <1>4 DEF TypeOK, MessageTypes
<1> QED
  BY <1>2, <1>3, <1>5, <1>6 DEF TypeOK, flowVars

LEMMA RequestStepTypes ==
  ASSUME TypeOK, Incoming, AgentAssumption, NEW d \in Dispatchers, DispatcherStep(d)
  PROVE  TypeOK'
<1>1. Cardinality(Serving) \in Nat /\ (dispatcher[d] = "lower" => Cardinality(Serving) > 0)
  <2>1. IsFiniteSet(Serving)
    BY FS_Subset DEF AgentAssumption, Serving
  <2>2. d \in Serving => Serving # {}
    OBVIOUS
  <2> QED
    BY <2>1, <2>2, FS_CardinalityType, FS_EmptySet DEF Serving
<1>2. dispatcher[d] = "lower" => levelIn > 0
  BY <1>1 DEF Incoming, TypeOK, RequestTypes, One
<1>3. RequestTypes' /\ interrupts' \in Nat
  <2> USE DEF inVars, RequestTypes, TypeOK
  <2>1. ASSUME Pop(d) PROVE RequestTypes' /\ interrupts' \in Nat
    BY <2>1 DEF Pop, Incoming
  <2>2. ASSUME Dispatched(d) \/ Allow(d) \/ Interrupt(d) PROVE RequestTypes' /\ interrupts' \in Nat
    <3>1. ASSUME Dispatched(d) PROVE RequestTypes' /\ interrupts' \in Nat
      BY <3>1 DEF Dispatched
    <3>2. ASSUME Allow(d) PROVE RequestTypes' /\ interrupts' \in Nat
      BY <3>2 DEF Allow, AfterAllow
    <3>3. ASSUME Interrupt(d) PROVE RequestTypes' /\ interrupts' \in Nat
      BY <3>3 DEF Interrupt
    <3> QED
      BY <2>2, <3>1, <3>2, <3>3
  <2>3. ASSUME LowerIn(d) PROVE RequestTypes' /\ interrupts' \in Nat
    BY <1>2, <2>3 DEF LowerIn
  <2> QED
    BY <2>1, <2>2, <2>3 DEF DispatcherStep
<1>4. UNCHANGED <<setting, outVars, flowVars, worker, stopping, broken>>
  BY DEF DispatcherStep, Pop, Dispatched, Allow, Interrupt, LowerIn
<1>5. ThreadTypes' /\ MessageTypes' /\ WorkerTypes'
  BY <1>4 DEF TypeOK, ThreadTypes, MessageTypes, WorkerTypes, outVars
<1> QED
  BY <1>3, <1>4, <1>5 DEF TypeOK, flowVars

LEMMA StopTypes == TypeOK /\ AgentAssumption /\ Stop => TypeOK'
<1> SUFFICES ASSUME TypeOK, AgentAssumption, Stop PROVE TypeOK'
  OBVIOUS
<1> USE DEF flowVars, outVars, inVars
<1>1. ASSUME RequestStop \/ BeginCleaning PROVE TypeOK'
  <2>1. interrupts' \in Nat
    BY <1>1 DEF TypeOK, RequestStop, BeginCleaning, WakeToStop
  <2>2. ThreadTypes' /\ MessageTypes' /\ WorkerTypes' /\ RequestTypes'
    BY <1>1 DEF TypeOK, RequestStop, BeginCleaning, RequestTypes, WorkerTypes, MessageTypes, ThreadTypes
  <2> QED
    BY <1>1, <2>1, <2>2 DEF TypeOK, RequestStop, BeginCleaning
<1>2. ASSUME TerminateDispatchers PROVE TypeOK'
  <2>1. Cardinality(Dispatchers) \in Nat
    BY FS_CardinalityType DEF AgentAssumption
  <2>2. RequestTypes'
    BY <1>2, <2>1 DEF TypeOK, TerminateDispatchers, RequestTypes
  <2>3. ThreadTypes' /\ MessageTypes' /\ WorkerTypes'
    BY <1>2 DEF TypeOK, TerminateDispatchers, WorkerTypes, MessageTypes, ThreadTypes
  <2> QED
    BY <1>2, <2>2, <2>3 DEF TypeOK, TerminateDispatchers
<1>3. ASSUME Cleaned PROVE TypeOK'
  <2>1. info \in [Sends -> Infos \cup {None}]
    BY DEF TypeOK, MessageTypes
  <2>2. \A s \in Sends : DecRef(info, s)[s] \in Infos \cup {None}
    <3> TAKE s \in Sends
    <3>1. DecRef(info, s) \in [Sends -> Infos \cup {None}]
      BY <2>1, Released
    <3> QED
      BY <3>1
  <2>3. info' \in [Sends -> Infos \cup {None}] /\ entry' \in [Sends -> Sends \cup {None}]
    BY <1>3, <2>1, <2>2 DEF Cleaned
  <2>4. UNCHANGED <<setting, thread, held, core, replies, refused, completed>>
        /\ UNCHANGED <<flowVars, worker, interrupts, inVars, broken>> /\ stopping' = "done"
    BY <1>3 DEF Cleaned
  <2>5. ThreadTypes' /\ WorkerTypes' /\ RequestTypes'
    BY <2>4 DEF TypeOK, RequestTypes, WorkerTypes, ThreadTypes
  <2>6. MessageTypes'
    BY <2>3, <2>4 DEF TypeOK, MessageTypes
  <2> QED
    BY <2>4, <2>5, <2>6 DEF TypeOK
<1> QED
  BY <1>1, <1>2, <1>3 DEF Stop

-----------------------------------------------------------------------------
(* What a step leaves alone.                                               *)

Same(s) ==
  /\ Where(s)' = Where(s) /\ core'[s] = core[s] /\ info'[s] = info[s]
  /\ ByManager(s)' <=> ByManager(s)
  /\ s \in held' <=> s \in held
  /\ completed'[s] = completed[s]
  /\ Superseded(s)' <=> Superseded(s)
  /\ ReportingAt(s, Reporting)' <=> ReportingAt(s, Reporting)

LEMMA SameRight ==
  ASSUME setting' = setting, NEW s \in Sends, Same(s), SendRight(s)
  PROVE  SendRight(s)'
<1>1. /\ Kind(s)' = Kind(s) /\ Owned(s)' = Owned(s) /\ HasInfo(s)' = HasInfo(s)
  BY SettingStays
<1>2. /\ GivenUp(s)' <=> GivenUp(s)
      /\ Caught(s)' <=> Caught(s)
      /\ ByProgress(s)' <=> ByProgress(s)
      /\ ByProgram(s)' <=> ByProgram(s)
      /\ References(s)' = References(s)
  BY <1>1 DEF Same, GivenUp, Caught, ByProgress, ByProgram, References
<1>3. StepFits(s)'
  BY <1>1, <1>2 DEF Same, SendRight, StepFits
<1>4. HasInfo(s)' => References(s)' + One(Caught(s))' = One(ByManager(s))' + One(ByProgress(s))' + One(ByProgram(s))'
  BY <1>1, <1>2 DEF Same, SendRight, One
<1> QED
  BY <1>1, <1>2, <1>3, <1>4 DEF Same, SendRight, One

LEMMA OthersRight ==
  ASSUME setting' = setting, Outgoing, OneSender', ReportTrue', EntriesById',
         \A s \in Sends : Same(s) \/ SendRight(s)'
  PROVE  Outgoing'
BY SameRight DEF Outgoing

(* One message of a group has an info at a time.                           *)
LEMMA OneOfGroup ==
  ASSUME AgentAssumption, TypeOK, Outgoing, NEW s \in Sends, core[s] # "new", ~Superseded(s)
  PROVE  entry[Id(s)] \in {s, None} /\ Id(s) \in Sends
<1>1. Settled
  BY SettingsRight
<1>2. Id(s) \in Sends /\ entry[Id(s)] \in Sends \cup {None}
  BY <1>1 DEF Settled, TypeOK, MessageTypes
<1>3. ASSUME NEW t \in Sends, entry[Id(s)] = t, t # s PROVE FALSE
  <2>1. t # None
    BY DEF AgentAssumption
  <2>2. Id(t) = Id(s)
    BY <1>2, <1>3, <2>1 DEF Outgoing, EntriesById
  <2>3. ByManager(t)
    BY <1>3, <2>2 DEF ByManager
  <2>4. Turn(t) # Turn(s) /\ Turn(t) \in Nat /\ Turn(s) \in Nat
    BY <1>1, <1>3, <2>2 DEF Settled
  <2>5. CASE Turn(t) < Turn(s)
    <3>1. Superseded(t)
      BY <2>2, <2>4, <2>5 DEF Superseded
    <3> QED
      BY <2>3, <3>1 DEF Outgoing, SendRight
  <2>6. CASE Turn(t) > Turn(s)
    <3>1. core[t] = "new"
      BY <2>2, <2>6 DEF Superseded
    <3> QED
      BY <2>3, <3>1 DEF Outgoing, SendRight
  <2> QED
    BY <2>4, <2>5, <2>6
<1> QED
  BY <1>2, <1>3

-----------------------------------------------------------------------------
(* How an info is let go.                                                  *)

(* So many references less, and nothing else of the info is changed.       *)
LetGo(s, n) ==
  /\ References(s)' = IF References(s) > n THEN References(s) - n ELSE 0
  /\ info'[s] # None => /\ info[s] # None /\ info'[s].state = info[s].state
                        /\ info'[s].done = info[s].done /\ info'[s].transmitted = info[s].transmitted

LEMMA LetGoOnce ==
  ASSUME AgentAssumption, TypeOK, NEW s \in Sends, info'[s] = DecRef(info, s)[s]
  PROVE  LetGo(s, 1)
<1>1. info \in [Sends -> Infos \cup {None}]
  BY DEF TypeOK, MessageTypes
<1>2. info[s] # None => info[s].refs \in Nat \ {0}
  BY <1>1 DEF Infos
<1>3. /\ info[s] = None => info'[s] = None
      /\ info[s] # None /\ info[s].refs = 1 => info'[s] = None
      /\ info[s] # None /\ info[s].refs # 1 =>
           /\ info'[s] # None /\ info'[s].refs = info[s].refs - 1
           /\ info'[s].state = info[s].state /\ info'[s].done = info[s].done
           /\ info'[s].transmitted = info[s].transmitted
  BY <1>1, Released
<1> QED
  BY <1>2, <1>3 DEF LetGo, References

(* The manager's reference goes with the entry, one more with the program's. *)
LEMMA LetGoByManager ==
  ASSUME AgentAssumption, TypeOK, NEW s \in Sends, Id(s) \in Sends, entry[Id(s)] \in {s, None},
         setting' = setting, Remove(Id(s)), info' = Removed(info, Id(s))
  PROVE  /\ LetGo(s, One(ByManager(s))) /\ ~ByManager(s)'
         /\ \A u \in Sends : u # s => info'[u] = info[u] /\ (ByManager(u)' <=> ByManager(u))
         /\ EntriesById => EntriesById'
<1>1. info \in [Sends -> Infos \cup {None}] /\ entry \in [Sends -> Sends \cup {None}] /\ None \notin Sends
  BY DEF TypeOK, MessageTypes, AgentAssumption
<1>2. /\ entry'[Id(s)] = None /\ \A i \in Sends : entry'[i] = entry[i] \/ (i = Id(s) /\ entry'[i] = None)
      /\ DOMAIN entry' = Sends
  BY <1>1 DEF Remove
<1>3. \A u : Id(u)' = Id(u) /\ HasInfo(u)' = HasInfo(u)
  BY SettingStays
<1>4. \A u \in Sends : Id(u) \in Sends
  BY SettingsRight DEF Settled
<1>5. ~ByManager(s)' /\ \A u \in Sends : u # s => (ByManager(u)' <=> ByManager(u))
  BY <1>1, <1>2, <1>3, <1>4 DEF ByManager
<1>6. EntriesById => EntriesById'
  BY <1>2, <1>3 DEF EntriesById
<1>7. CASE entry[Id(s)] = None
  <2>1. info' = info /\ ~ByManager(s)
    BY <1>1, <1>7 DEF Removed, ByManager
  <2>2. References(s) \in Nat
    BY <1>1 DEF References, Infos
  <2>3. LetGo(s, 0)
    BY <2>1, <2>2 DEF LetGo, References
  <2> QED
    BY <1>5, <1>6, <2>1, <2>3 DEF One
<1>8. CASE entry[Id(s)] = s
  <2>1. info' = DecRef(info, s) /\ ByManager(s)
    BY <1>1, <1>8 DEF Removed, ByManager
  <2>2. LetGo(s, 1) /\ \A u \in Sends : u # s => info'[u] = info[u]
    BY <1>1, <2>1, LetGoOnce, Released
  <2> QED
    BY <1>5, <1>6, <2>1, <2>2 DEF One
<1> QED
  BY <1>7, <1>8

LEMMA LetGoTwice ==
  ASSUME AgentAssumption, TypeOK, NEW s \in Sends, info' = DecRef(DecRef(info, s), s)
  PROVE  LetGo(s, 2) /\ \A u \in Sends : u # s => info'[u] = info[u]
<1> DEFINE once == DecRef(info, s)
<1>1. info \in [Sends -> Infos \cup {None}] /\ None \notin Infos
  BY DEF TypeOK, MessageTypes, AgentAssumption
<1>2. info[s] # None => info[s].refs \in Nat \ {0}
  BY <1>1 DEF Infos
<1>3. /\ once \in [Sends -> Infos \cup {None}]
      /\ \A u \in Sends : u # s => once[u] = info[u]
      /\ info[s] = None => once[s] = None
      /\ info[s] # None /\ info[s].refs = 1 => once[s] = None
      /\ info[s] # None /\ info[s].refs # 1 =>
           /\ once[s] # None /\ once[s].refs = info[s].refs - 1
           /\ once[s].state = info[s].state /\ once[s].done = info[s].done
           /\ once[s].transmitted = info[s].transmitted
  BY <1>1, Released
<1> HIDE DEF once
<1>4. info' = DecRef(once, s)
  BY DEF once
<1>5. /\ \A u \in Sends : u # s => info'[u] = once[u]
      /\ once[s] = None => info'[s] = None
      /\ once[s] # None /\ once[s].refs = 1 => info'[s] = None
      /\ once[s] # None /\ once[s].refs # 1 =>
           /\ info'[s] # None /\ info'[s].refs = once[s].refs - 1
           /\ info'[s].state = once[s].state /\ info'[s].done = once[s].done
           /\ info'[s].transmitted = once[s].transmitted
  BY <1>3, <1>4, Released
<1>6. LetGo(s, 2)
  BY <1>2, <1>3, <1>5 DEF LetGo, References
<1> QED
  BY <1>3, <1>5, <1>6

LEMMA LetGoByBoth ==
  ASSUME AgentAssumption, TypeOK, NEW s \in Sends, Id(s) \in Sends, entry[Id(s)] \in {s, None},
         setting' = setting, Remove(Id(s)),
         \/ info' = DecRef(Removed(info, Id(s)), s)
         \/ info' = Removed(DecRef(info, s), Id(s))
  PROVE  /\ LetGo(s, One(ByManager(s)) + 1) /\ ~ByManager(s)'
         /\ \A u \in Sends : u # s => info'[u] = info[u] /\ (ByManager(u)' <=> ByManager(u))
         /\ EntriesById => EntriesById'
<1>1. info \in [Sends -> Infos \cup {None}] /\ entry \in [Sends -> Sends \cup {None}] /\ None \notin Sends
  BY DEF TypeOK, MessageTypes, AgentAssumption
<1>2. /\ entry'[Id(s)] = None /\ \A i \in Sends : entry'[i] = entry[i] \/ (i = Id(s) /\ entry'[i] = None)
      /\ DOMAIN entry' = Sends
  BY <1>1 DEF Remove
<1>3. \A u : Id(u)' = Id(u) /\ HasInfo(u)' = HasInfo(u)
  BY SettingStays
<1>4. \A u \in Sends : Id(u) \in Sends
  BY SettingsRight DEF Settled
<1>5. ~ByManager(s)' /\ \A u \in Sends : u # s => (ByManager(u)' <=> ByManager(u))
  BY <1>1, <1>2, <1>3, <1>4 DEF ByManager
<1>6. EntriesById => EntriesById'
  BY <1>2, <1>3 DEF EntriesById
<1>7. CASE entry[Id(s)] = None
  <2>1. info' = DecRef(info, s) /\ ~ByManager(s)
    BY <1>1, <1>7 DEF Removed, ByManager
  <2>2. LetGo(s, 1) /\ \A u \in Sends : u # s => info'[u] = info[u]
    BY <1>1, <2>1, LetGoOnce, Released
  <2> QED
    BY <1>5, <1>6, <2>1, <2>2 DEF One
<1>8. CASE entry[Id(s)] = s
  <2>1. info' = DecRef(DecRef(info, s), s) /\ ByManager(s)
    BY <1>1, <1>8 DEF Removed, ByManager
  <2>2. LetGo(s, 2) /\ \A u \in Sends : u # s => info'[u] = info[u]
    BY <2>1, LetGoTwice
  <2> QED
    BY <1>5, <1>6, <2>1, <2>2 DEF One
<1> QED
  BY <1>7, <1>8

-----------------------------------------------------------------------------
(* The steps of a thread that sends.                                       *)

(* All a thread's step at pc says of the other messages and of the worker. *)
LEMMA ThreadAt ==
  ASSUME AgentAssumption, TypeOK, Outgoing, NEW c \in Threads, NEW pc \in Steps, At(c, pc)
  PROVE  \E s \in Sends :
           /\ thread[c].s = s /\ s # None /\ Where(s) = pc
           /\ SendRight(s) /\ core[s] # "new" /\ ~Superseded(s) /\ s \notin held
           /\ Id(s) \in Sends /\ entry[Id(s)] \in {s, None}
<1>1. PICK s \in Sends : s = thread[c].s /\ s # None /\ thread[c].pc = pc
  BY AtMessage
<1>2. Where(s) = pc
  BY <1>1, WhereSent DEF Outgoing
<1>3. SendRight(s)
  BY <1>1 DEF Outgoing
<1>4. core[s] # "new" /\ ~Superseded(s) /\ s \notin held
  BY <1>2, <1>3 DEF SendRight, StepFits, Steps, GivenUp
<1> QED
  BY <1>1, <1>2, <1>3, <1>4, OneOfGroup

(* Nobody sends a new message, and nothing is reported of one the core does not have. *)
LEMMA NewNowhere ==
  ASSUME AgentAssumption, TypeOK, Outgoing, NEW s \in Sends, core[s] = "new"
  PROVE  Where(s) = "none" /\ s \notin held
<1>1. Where(s) \in Steps \cup {"none"}
  <2>1. CASE \E d \in Threads : thread[d].s = s
    <3>1. PICK d \in Threads : thread[d].s = s
      BY <2>1
    <3>2. s # None
      BY DEF AgentAssumption
    <3>3. Where(s) = thread[d].pc /\ thread[d].pc # "idle"
      BY <3>1, <3>2, WhereSent DEF Outgoing, TypeOK, ThreadTypes
    <3> QED
      BY <3>3 DEF TypeOK, ThreadTypes, Steps
  <2>2. CASE \A d \in Threads : thread[d].s # s
    BY <2>2, NowhereSent
  <2> QED
    BY <2>1, <2>2
<1> QED
  BY <1>1 DEF Outgoing, SendRight, StepFits, Steps, GivenUp

LEMMA NotReported ==
  ASSUME TypeOK, Outgoing, NEW s \in Sends, core[s] \notin {"sent", "dropped"}
  PROVE  ~ReportingAt(s, Reporting) /\ ~ReportingAt(s, {"calling", "lower"})
BY DEF Outgoing, ReportTrue, ReportingAt, Reporting, TypeOK, WorkerTypes

(* What a step does to the messages the level counts.                      *)
Stay == \A u \in Sends : Underway(u)' <=> Underway(u)
Joins(s) == ~Underway(s) /\ \A u \in Sends : Underway(u)' <=> Underway(u) \/ u = s
Leaves(s) == Underway(s) /\ \A u \in Sends : Underway(u)' <=> Underway(u) /\ u # s

LEMMA PassGateRight ==
  ASSUME AgentAssumption, TypeOK, Outgoing, NEW c \in Threads, PassGate(c) \/ Increase(c) \/ Suppress(c)
  PROVE  Outgoing' /\ (~Increase(c) => Stay) /\ (Increase(c) => \E s \in Sends : Joins(s))
<1>1. PICK pc \in {"gate", "increase", "suppress"}, next \in {"connect", "suppress", "post"} :
        /\ At(c, pc) /\ Goto(c, next)
        /\ pc = "gate" <=> next = "connect"
        /\ pc = "increase" => Increase(c)
        /\ pc # "increase" => ~Increase(c)
  BY DEF PassGate, Increase, Suppress, At
<1>2. UNCHANGED <<setting, info, entry, held, core, completed, worker>>
  BY DEF PassGate, Increase, Suppress
<1>3. PICK s \in Sends :
        thread[c].s = s /\ s # None /\ Where(s) = pc /\ SendRight(s) /\ ~Superseded(s) /\ s \notin held
  BY <1>1, ThreadAt DEF Steps
<1>4. OneSender' /\ \A u \in Sends : Where(u)' = IF u = s THEN next ELSE Where(u)
  BY <1>1, <1>3, WhereMoves DEF Outgoing, Goto, Steps
<1>5. \A u : /\ Kind(u)' = Kind(u) /\ Id(u)' = Id(u) /\ Turn(u)' = Turn(u)
             /\ Another(u)' = Another(u)
             /\ Owned(u)' = Owned(u) /\ HasInfo(u)' = HasInfo(u)
  BY <1>2, SettingStays
<1>6. ReportTrue' /\ EntriesById'
  BY <1>2, <1>5 DEF Outgoing, ReportTrue, EntriesById
<1>7. ASSUME NEW u \in Sends, u # s PROVE Same(u)
  BY <1>2, <1>4, <1>5, <1>7 DEF Same, ByManager, Superseded, ReportingAt
<1>8. SendRight(s)'
  <2>1. StepFits(s)'
    BY <1>1, <1>2, <1>3, <1>4, <1>5 DEF SendRight, StepFits, GivenUp
  <2>2. ~Superseded(s)' /\ References(s)' = References(s)
        /\ (ByManager(s)' <=> ByManager(s))
    BY <1>2, <1>3, <1>5 DEF Superseded, References, ByManager
  <2>3. (ByProgress(s)' <=> ByProgress(s)) /\ (ByProgram(s)' <=> ByProgram(s)) /\ ~Caught(s)' /\ ~Caught(s)
    BY <1>1, <1>2, <1>3, <1>4, <1>5 DEF ByProgress, ByProgram, Caught, GivenUp, SendRight, StepFits, ReportingAt
  <2> QED
    BY <1>1, <1>2, <1>3, <1>4, <1>5, <2>1, <2>2, <2>3 DEF SendRight, One, GivenUp
<1>9. (~Increase(c) => Stay) /\ (Increase(c) => Joins(s))
  <2>1. \A u \in Sends : u # s => (Underway(u)' <=> Underway(u))
    BY <1>2, <1>4 DEF Underway, ReportingAt
  <2>2. core[s] = "calling" /\ core' = core /\ worker' = worker
    BY <1>1, <1>2, <1>3 DEF SendRight, StepFits
  <2>3. ~ReportingAt(s, {"calling", "lower"})
    BY <2>2, NotReported
  <2>4. ~ReportingAt(s, {"calling", "lower"})'
    BY <2>2, <2>3 DEF ReportingAt
  <2>5. (Underway(s)' <=> next \in {"suppress", "post"}) /\ (Underway(s) <=> pc = "suppress")
    BY <1>1, <1>3, <1>4, <2>2, <2>3, <2>4 DEF Underway
  <2>6. next \in {"suppress", "post"} <=> pc \in {"increase", "suppress"}
    BY <1>1
  <2>7. Increase(c) <=> pc = "increase"
    BY <1>1
  <2> QED
    BY <2>1, <2>5, <2>6, <2>7 DEF Stay, Joins
<1> QED
  BY <1>2, <1>4, <1>6, <1>7, <1>8, <1>9, OthersRight

(* A thread fails with its message, and goes on with the next of its group, if any. *)
LEMMA FailedRight ==
  ASSUME AgentAssumption, TypeOK, Outgoing, NEW c \in Threads, NEW s \in Sends, s = thread[c].s,
         NEW pc \in {"connect", "lower", "reopen"}, At(c, pc), Failed(c, s),
         UNCHANGED <<setting, info, entry, held, completed, worker>>
  PROVE  /\ Outgoing'
         /\ pc # "lower" => Stay
         /\ pc = "lower" /\ ~FailoverDropped => Leaves(s)
<1> DEFINE next == IF Another(s) = None THEN Idle ELSE [pc |-> "gate", s |-> Another(s)]
<1>1. /\ s # None /\ Where(s) = pc /\ SendRight(s) /\ core[s] # "new" /\ ~Superseded(s) /\ s \notin held
  BY ThreadAt DEF Steps
<1>2. /\ Another(s) \in Sends \cup {None} /\ Another(s) # s
      /\ Another(s) # None => Id(Another(s)) = Id(s) /\ Turn(Another(s)) = Turn(s) + 1
      /\ \A u \in Sends : Turn(u) \in Nat /\ (Id(u) = Id(s) /\ Turn(u) = Turn(s) => u = s)
  <2>1. Settled
    BY SettingsRight
  <2>2. /\ Another(s) \in Sends \cup {None}
        /\ Another(s) # None => Id(Another(s)) = Id(s) /\ Turn(Another(s)) = Turn(s) + 1
        /\ \A u \in Sends : Turn(u) \in Nat /\ (Id(u) = Id(s) /\ Turn(u) = Turn(s) => u = s)
    BY <2>1 DEF Settled
  <2> QED
    BY <1>1, <2>2
<1>3. Another(s) # None =>
        /\ core[Another(s)] = "new" /\ Where(Another(s)) = "none" /\ SendRight(Another(s))
        /\ Another(s) \notin held
  <2>1. ASSUME Another(s) # None PROVE Another(s) \in Sends /\ core[Another(s)] = "new" /\ SendRight(Another(s))
    <3>1. Another(s) \in Sends /\ Turn(Another(s)) > Turn(s) /\ Id(Another(s)) = Id(s)
      BY <1>2, <2>1
    <3> QED
      BY <1>1, <3>1 DEF Superseded, Outgoing
  <2> QED
    BY <2>1, NewNowhere
<1>4. /\ OneSender'
      /\ \A u \in Sends : Where(u)' = IF u = Another(s) THEN "gate" ELSE IF u = s THEN "none" ELSE Where(u)
  <2>1. thread' = [thread EXCEPT ![c] = next]
    BY DEF Failed
  <2>2. next.s = Another(s)
    BY DEF Idle
  <2>3. next = Idle \/ (next.s \in Sends /\ Where(next.s) = "none" /\ next = [pc |-> "gate", s |-> next.s])
    BY <1>2, <1>3
  <2> HIDE DEF next
  <2> QED
    BY <2>1, <2>2, <2>3, WhereTurns DEF Outgoing
<1>5. \A u : /\ Kind(u)' = Kind(u) /\ Id(u)' = Id(u) /\ Turn(u)' = Turn(u)
             /\ Another(u)' = Another(u)
             /\ Owned(u)' = Owned(u) /\ HasInfo(u)' = HasInfo(u)
  BY SettingStays
<1>6. /\ core'[s] = IF pc = "connect" THEN "failed" ELSE core[s]
      /\ Another(s) # None => core'[Another(s)] = "calling"
      /\ \A u \in Sends : u # s /\ u # Another(s) => core'[u] = core[u]
      /\ pc = "connect" => core[s] = "calling"
      /\ pc # "connect" => core[s] = "failed" \/ GivenUp(s)
  BY <1>1, <1>2 DEF Failed, SendRight, StepFits, GivenUp
<1>7. ReportTrue' /\ EntriesById'
  <2>1. EntriesById'
    BY <1>5 DEF Outgoing, EntriesById
  <2>2. worker.pc \in Reporting => worker.s \in Sends /\ worker.s # Another(s) /\ (pc = "connect" => worker.s # s)
    BY <1>1, <1>3, <1>6 DEF Outgoing, ReportTrue, Reporting, TypeOK, WorkerTypes
  <2> QED
    BY <1>5, <1>6, <2>1, <2>2 DEF Outgoing, ReportTrue, Reporting
<1>8. ASSUME NEW u \in Sends, u # s, u # Another(s) PROVE Same(u)
  <2>1. ASSUME NEW t \in Sends, t # Another(s) PROVE core'[t] = "new" <=> core[t] = "new"
    BY <1>1, <1>6, <2>1
  <2>2. ASSUME Another(s) # None, Id(Another(s)) = Id(u), Turn(Another(s)) > Turn(u)
        PROVE  Superseded(u)
    <3>1. Id(s) = Id(u) /\ Turn(s) > Turn(u)
      BY <1>2, <1>8, <2>2
    <3> QED
      BY <1>1, <3>1 DEF Superseded
  <2>3. Superseded(u)' <=> Superseded(u)
    <3>1. ASSUME Superseded(u) PROVE Superseded(u)'
      <4>1. PICK t \in Sends : Id(t) = Id(u) /\ Turn(t) > Turn(u) /\ core[t] # "new"
        BY <3>1 DEF Superseded
      <4>2. t # Another(s)
        BY <1>3, <4>1 DEF AgentAssumption
      <4>3. core'[t] # "new"
        BY <2>1, <4>1, <4>2
      <4> QED
        BY <1>5, <4>1, <4>3 DEF Superseded
    <3>2. ASSUME Superseded(u)' PROVE Superseded(u)
      <4>1. PICK t \in Sends : Id(t) = Id(u) /\ Turn(t) > Turn(u) /\ core'[t] # "new"
        BY <1>5, <3>2 DEF Superseded
      <4>2. CASE t = Another(s)
        BY <2>2, <4>1, <4>2 DEF AgentAssumption
      <4>3. CASE t # Another(s)
        BY <2>1, <4>1, <4>3 DEF Superseded
      <4> QED
        BY <4>2, <4>3
    <3> QED
      BY <3>1, <3>2
  <2> QED
    BY <1>4, <1>5, <1>6, <1>8, <2>3 DEF Same, ByManager, ReportingAt
<1>9. SendRight(s)'
  <2>1. ~ByManager(s) /\ ~ByManager(s)'
    BY <1>1, <1>5 DEF SendRight, ByManager
  <2>2. /\ ~ByProgress(s)' <=> ~ReportingAt(s, Reporting)
        /\ ~ByProgram(s)' /\ ~ByProgram(s)
        /\ ~ByProgress(s) <=> ~ReportingAt(s, Reporting)
    BY <1>1, <1>2, <1>4, <1>5, <1>6 DEF ByProgress, ByProgram, GivenUp, ReportingAt
  <2>3. (Caught(s)' <=> GivenUp(s)) /\ (Caught(s) <=> GivenUp(s))
    BY <1>1, <1>2, <1>4, <1>5, <1>6 DEF Caught, GivenUp
  <2>4. References(s)' = References(s)
    BY DEF References
  <2>5. HasInfo(s)' =>
          References(s)' + One(Caught(s))' = One(ByManager(s))' + One(ByProgress(s))' + One(ByProgram(s))'
    BY <1>1, <1>5, <2>1, <2>2, <2>3, <2>4 DEF SendRight, One
  <2>6. core'[s] = "failed" \/ GivenUp(s)'
    BY <1>5, <1>6 DEF GivenUp
  <2>7. StepFits(s)'
    BY <1>2, <1>4 DEF StepFits
  <2>8. core'[s] # "new" /\ Where(s)' = "none" /\ core'[s] # "queued"
    BY <1>2, <1>4, <1>6, <2>6 DEF GivenUp
  <2>9. info[s] # None => (core[s] = core'[s] \/ (core[s] = "calling" /\ core'[s] = "failed"))
    BY <1>6
  <2> QED
    BY <1>1, <1>5, <2>1, <2>5, <2>6, <2>7, <2>8, <2>9 DEF SendRight
<1>10. ASSUME NEW n \in Sends, n = Another(s) PROVE SendRight(n)'
  <2>1. n # None
    BY DEF AgentAssumption
  <2>2. /\ core[n] = "new" /\ Where(n) = "none" /\ SendRight(n) /\ n \notin held
        /\ core'[n] = "calling" /\ Where(n)' = "gate"
    BY <1>2, <1>3, <1>4, <1>6, <1>10, <2>1
  <2>3. info[n] = None /\ ~ByManager(n) /\ completed[n] = <<>> /\ ~ByManager(n)'
    BY <1>5, <2>2 DEF SendRight, ByManager
  <2>4. ~ByProgress(n)' /\ ~ByProgram(n)' /\ ~Caught(n)' /\ References(n)' = 0
    <3>1. ~ReportingAt(n, Reporting)
      BY <2>2, NotReported
    <3>2. ~ReportingAt(n, Reporting)'
      BY <3>1 DEF ReportingAt
    <3> QED
      BY <2>2, <2>3, <3>2 DEF ByProgress, ByProgram, Caught, GivenUp, References
  <2>5. StepFits(n)' /\ ~Superseded(n)'
    <3>1. ASSUME NEW t \in Sends, Id(t) = Id(n), Turn(t) > Turn(n) PROVE core'[t] = "new"
      <4>1. Id(t) = Id(s) /\ Turn(t) > Turn(s) /\ t # n /\ t # s
        BY <1>2, <1>10, <2>1, <3>1
      <4>2. core[t] = "new"
        BY <1>1, <4>1 DEF Superseded
      <4> QED
        BY <1>6, <1>10, <4>1, <4>2
    <3> QED
      BY <1>5, <2>2, <3>1 DEF StepFits, Superseded
  <2>6. SendRight(n)'
    BY <2>2, <2>3, <2>4, <2>5 DEF SendRight, One
  <2> QED
    BY <2>6
<1>11. Outgoing'
  BY <1>4, <1>7, <1>8, <1>9, <1>10, OthersRight
<1>12. (pc # "lower" => Stay) /\ (pc = "lower" /\ ~FailoverDropped => Leaves(s))
  <2>1. ASSUME NEW u \in Sends, u # s PROVE Underway(u)' <=> Underway(u)
    <3>1. CASE u # Another(s)
      BY <1>4, <1>6, <2>1, <3>1 DEF Underway, ReportingAt
    <3>2. CASE u = Another(s)
      <4>1. ~ReportingAt(u, {"calling", "lower"})
        BY <1>3, <2>1, <3>2, NotReported DEF AgentAssumption
      <4>2. ~ReportingAt(u, {"calling", "lower"})'
        BY <4>1 DEF ReportingAt
      <4> QED
        BY <1>3, <1>4, <1>6, <2>1, <3>2, <4>1, <4>2 DEF Underway, AgentAssumption
    <3> QED
      BY <3>1, <3>2
  <2>2. Underway(s)' <=> ReportingAt(s, {"calling", "lower"})
    BY <1>1, <1>2, <1>4, <1>6 DEF Underway, ReportingAt, GivenUp
  <2>3. pc # "lower" => (Underway(s) <=> ReportingAt(s, {"calling", "lower"}))
    BY <1>1, <1>6 DEF Underway, GivenUp
  <2>4. ASSUME pc = "lower", ~FailoverDropped PROVE Underway(s) /\ ~Underway(s)'
    <3>1. core[s] = "failed"
      BY <1>6, <2>4 DEF FailoverDropped, GivenUp
    <3> QED
      BY <1>1, <2>2, <2>4, <3>1, NotReported DEF Underway
  <2> QED
    BY <2>1, <2>2, <2>3, <2>4 DEF Stay, Leaves
<1> QED
  BY <1>11, <1>12

LEMMA PrepareRight ==
  ASSUME AgentAssumption, TypeOK, Outgoing, NEW c \in Threads, Prepare(c), ~broken, ~broken'
  PROVE  Outgoing' /\ Stay
<1>1. PICK s \in Sends :
        /\ thread[c].s = s /\ s # None /\ Where(s) = "connect" /\ SendRight(s) /\ ~Superseded(s)
        /\ s \notin held /\ Id(s) \in Sends
  BY ThreadAt DEF Prepare, Steps
<1>2. UNCHANGED <<setting, held, core, completed, worker>>
  BY DEF Prepare
<1>3. OneSender' /\ \A u \in Sends : Where(u)' = IF u = s THEN "increase" ELSE Where(u)
  BY <1>1, WhereMoves DEF Outgoing, Prepare, Goto, Steps, AfterGate
<1>4. \A u : /\ Kind(u)' = Kind(u) /\ Id(u)' = Id(u) /\ Turn(u)' = Turn(u)
             /\ Another(u)' = Another(u)
             /\ Owned(u)' = Owned(u) /\ HasInfo(u)' = HasInfo(u)
  BY <1>2, SettingStays
<1>5. core[s] = "calling" /\ info[s] = None /\ ~ByManager(s)
  BY <1>1 DEF SendRight, StepFits
<1>6. ~ReportingAt(s, Reporting) /\ ~ReportingAt(s, {"calling", "lower"})
  BY <1>5, NotReported
<1>7. ~ReportingAt(s, Reporting)' /\ ~ReportingAt(s, {"calling", "lower"})'
  BY <1>2, <1>6 DEF ReportingAt
<1>8. Stay
  <2>1. \A u \in Sends : u # s => (Underway(u)' <=> Underway(u))
    BY <1>2, <1>3 DEF Underway, ReportingAt
  <2>2. Underway(s)' <=> Underway(s)
    BY <1>1, <1>2, <1>3, <1>5, <1>6, <1>7 DEF Underway
  <2> QED
    BY <2>1, <2>2 DEF Stay
<1>9. CASE HasInfo(s)
  <2>1. /\ info' = [info EXCEPT ![s] = NewInfo(s)] /\ entry' = [entry EXCEPT ![Id(s)] = s]
        /\ entry[Id(s)] = None
    BY <1>1, <1>9 DEF Prepare
  <2>2. /\ info'[s] = NewInfo(s) /\ (\A u \in Sends : u # s => info'[u] = info[u])
        /\ entry'[Id(s)] = s /\ (\A i \in Sends : i # Id(s) => entry'[i] = entry[i])
    BY <1>1, <2>1 DEF TypeOK, MessageTypes
  <2>3. \A u \in Sends : Id(u) \in Sends
    BY SettingsRight DEF Settled
  <2>4. ByManager(s)' /\ \A u \in Sends : u # s => (ByManager(u)' <=> ByManager(u))
    BY <1>4, <2>1, <2>2, <2>3 DEF ByManager, AgentAssumption
  <2>5. ReportTrue' /\ EntriesById'
    BY <1>2, <1>4, <1>9, <2>2 DEF Outgoing, ReportTrue, EntriesById
  <2>6. ASSUME NEW u \in Sends, u # s PROVE Same(u)
    BY <1>2, <1>3, <1>4, <2>2, <2>4, <2>6 DEF Same, Superseded, ReportingAt
  <2>7. /\ NewInfo(s) # None /\ NewInfo(s).state = "posted"
        /\ NewInfo(s).refs = IF Owned(s) THEN 3 ELSE 2
    BY MadeTypes DEF AgentAssumption
  <2>8. ~Superseded(s)' /\ StepFits(s)' /\ ByProgress(s)' /\ (ByProgram(s)' <=> Owned(s)) /\ ~Caught(s)'
    BY <1>1, <1>2, <1>3, <1>4, <1>5 DEF Superseded, StepFits, ByProgress, ByProgram, Caught, GivenUp
  <2>9. References(s)' = IF Owned(s) THEN 3 ELSE 2
    BY <2>2, <2>7 DEF References
  <2>10. References(s)' + One(Caught(s))' = One(ByManager(s))' + One(ByProgress(s))' + One(ByProgram(s))'
    BY <2>4, <2>8, <2>9 DEF One
  <2>11. SendRight(s)'
    BY <1>1, <1>2, <1>3, <1>5, <2>2, <2>7, <2>8, <2>10 DEF SendRight
  <2> QED
    BY <1>2, <1>3, <1>8, <2>5, <2>6, <2>11, OthersRight
<1>10. CASE ~HasInfo(s)
  <2>1. UNCHANGED <<info, entry>>
    BY <1>1, <1>10 DEF Prepare
  <2>2. \A u \in Sends : ByManager(u)' <=> ByManager(u)
    BY <1>4, <2>1 DEF ByManager
  <2>3. ReportTrue' /\ EntriesById'
    BY <1>2, <1>4, <2>1 DEF Outgoing, ReportTrue, EntriesById
  <2>4. ASSUME NEW u \in Sends, u # s PROVE Same(u)
    BY <1>2, <1>3, <1>4, <2>1, <2>2, <2>4 DEF Same, Superseded, ReportingAt
  <2>5. ~Superseded(s)' /\ StepFits(s)' /\ ~Caught(s)'
    BY <1>1, <1>2, <1>3, <1>4, <1>5 DEF Superseded, StepFits, Caught, GivenUp
  <2>6. SendRight(s)'
    BY <1>1, <1>2, <1>3, <1>4, <1>5, <1>10, <2>1, <2>2, <2>5 DEF SendRight
  <2> QED
    BY <1>2, <1>3, <1>8, <2>3, <2>4, <2>6, OthersRight
<1> QED
  BY <1>8, <1>9, <1>10

LEMMA PostRight ==
  ASSUME AgentAssumption, TypeOK, Outgoing, NEW c \in Threads, Post(c) \/ PostFails(c)
  PROVE  Outgoing' /\ Stay
<1>1. PICK s \in Sends :
        /\ thread[c].s = s /\ s # None /\ Where(s) = "post" /\ SendRight(s) /\ ~Superseded(s)
        /\ s \notin held /\ Id(s) \in Sends
  BY ThreadAt DEF Post, PostFails, Steps
<1>2. PICK next \in {"awaiting", "none", "unwinding", "catch"}, k \in {"queued", "failed"} :
        /\ OneSender' /\ \A u \in Sends : Where(u)' = IF u = s THEN next ELSE Where(u)
        /\ core' = [core EXCEPT ![s] = k]
        /\ k = "failed" <=> next \in {"unwinding", "catch"}
        /\ next = "awaiting" <=> (k = "queued" /\ Kind(s) \in {"failover", "one_way_failover"})
        /\ next = "unwinding" <=> k = "failed" /\ Owned(s)
        /\ held' = IF next = "none" /\ Owned(s) THEN held \cup {s} ELSE held
  <2>1. CASE Post(c) /\ Kind(s) \in {"failover", "one_way_failover"}
    <3>1. OneSender' /\ \A u \in Sends : Where(u)' = IF u = s THEN "awaiting" ELSE Where(u)
      BY <1>1, <2>1, WhereMoves DEF Outgoing, Post, Goto, Steps
    <3> QED
      BY <1>1, <2>1, <3>1 DEF Post
  <2>2. CASE Post(c) /\ Kind(s) \notin {"failover", "one_way_failover"}
    <3>1. OneSender' /\ \A u \in Sends : Where(u)' = IF u = s THEN "none" ELSE Where(u)
      BY <1>1, <2>2, WhereReturns DEF Outgoing, Post
    <3> QED
      BY <1>1, <2>2, <3>1 DEF Post
  <2>3. CASE PostFails(c)
    <3> DEFINE pc == IF Owned(s) THEN "unwinding" ELSE "catch"
    <3>1. pc \in Steps /\ Goto(c, pc)
      BY <1>1, <2>3 DEF PostFails, Steps
    <3>2. OneSender' /\ \A u \in Sends : Where(u)' = IF u = s THEN pc ELSE Where(u)
      <4> HIDE DEF pc
      <4> QED
        BY <1>1, <3>1, WhereMoves DEF Outgoing, Goto
    <3> QED
      BY <1>1, <2>3, <3>2 DEF PostFails
  <2> QED
    BY <2>1, <2>2, <2>3
<1>3. UNCHANGED <<setting, info, entry, completed, worker>>
  BY DEF Post, PostFails
<1>4. \A u : /\ Kind(u)' = Kind(u) /\ Id(u)' = Id(u) /\ Turn(u)' = Turn(u)
             /\ Another(u)' = Another(u)
             /\ Owned(u)' = Owned(u) /\ HasInfo(u)' = HasInfo(u)
  BY <1>3, SettingStays
<1>5. /\ core[s] = "calling" /\ core'[s] = k /\ k \in {"queued", "failed"}
      /\ \A u \in Sends : u # s => core'[u] = core[u]
  BY <1>1, <1>2 DEF SendRight, StepFits, TypeOK, MessageTypes
<1>6. ~ReportingAt(s, Reporting) /\ ~ReportingAt(s, {"calling", "lower"})
  BY <1>5, NotReported
<1>7. ~ReportingAt(s, Reporting)' /\ ~ReportingAt(s, {"calling", "lower"})'
  BY <1>3, <1>6 DEF ReportingAt
<1>8. ReportTrue' /\ EntriesById'
  <2>1. worker.pc \in Reporting => worker.s \in Sends /\ worker.s # s
    BY <1>6 DEF ReportingAt, Reporting, TypeOK, WorkerTypes
  <2> QED
    BY <1>3, <1>4, <1>5, <2>1 DEF Outgoing, ReportTrue, EntriesById, Reporting
<1>9. \A u \in Sends : ByManager(u)' <=> ByManager(u)
  BY <1>3, <1>4 DEF ByManager
<1>10. \A u \in Sends : Superseded(u)' <=> Superseded(u)
  BY <1>1, <1>4, <1>5 DEF Superseded
<1>11. ASSUME NEW u \in Sends, u # s PROVE Same(u)
  BY <1>2, <1>3, <1>5, <1>9, <1>10, <1>11 DEF Same, ReportingAt
<1>12. SendRight(s)'
  <2>1. /\ Where(s)' = next /\ ~GivenUp(s)' /\ ~Caught(s)'
        /\ next \in {"awaiting", "none", "unwinding", "catch"}
    BY <1>2, <1>5 DEF Caught, GivenUp
  <2>2. StepFits(s)'
    BY <1>2, <1>4, <1>5, <2>1 DEF StepFits
  <2>3. s \in held' => Owned(s) /\ next = "none" /\ k = "queued"
    BY <1>1, <1>2
  <2>4. ByProgress(s)' /\ (ByProgram(s)' <=> Owned(s))
    BY <1>2, <1>4, <1>5, <2>1 DEF ByProgress, ByProgram, Owned
  <2>5. ByProgress(s) /\ (ByProgram(s) <=> Owned(s)) /\ ~Caught(s) /\ References(s)' = References(s)
    BY <1>1, <1>3, <1>5 DEF ByProgress, ByProgram, Caught, GivenUp, References
  <2>6. HasInfo(s)' =>
          References(s)' + One(Caught(s))' = One(ByManager(s))' + One(ByProgress(s))' + One(ByProgram(s))'
    BY <1>1, <1>4, <1>9, <2>1, <2>4, <2>5 DEF SendRight, One
  <2>7. Kind(s) = "failover" /\ k = "queued" => next = "awaiting"
    BY <1>2
  <2>8. info[s] # None => info[s].state \notin {"transmitted", "replied", "rejected", "abandoned"}
    BY <1>1, <1>5 DEF SendRight
  <2>9. (next = "catch" => ~Owned(s)) /\ next \notin {"lower", "reopen", "gate", "connect"}
    BY <1>2
  <2> QED
    BY <1>1, <1>3, <1>4, <1>5, <1>10, <2>1, <2>2, <2>3, <2>6, <2>7, <2>8, <2>9 DEF SendRight
<1>13. Stay
  <2>1. \A u \in Sends : u # s => (Underway(u)' <=> Underway(u))
    BY <1>2, <1>3, <1>5 DEF Underway, ReportingAt
  <2>2. Underway(s)' /\ Underway(s)
    BY <1>1, <1>2, <1>5 DEF Underway
  <2> QED
    BY <2>1, <2>2 DEF Stay
<1> QED
  BY <1>2, <1>3, <1>8, <1>11, <1>12, <1>13, OthersRight

LEMMA CompletedState ==
  ASSUME TypeOK, AgentAssumption, CompletedOnce, NEW s \in Sends, info[s] # None, info[s].done
  PROVE  info[s].state \in Final
<1>1. completed[s] # <<>> /\ info[s].state = completed[s][1] /\ completed[s] \in Seq(Final)
  BY DEF CompletedOnce, TypeOK, MessageTypes
<1>2. Len(completed[s]) \in Nat /\ Len(completed[s]) # 0
  BY <1>1
<1> QED
  BY <1>1, <1>2

LEMMA AwaitedRight ==
  ASSUME AgentAssumption, TypeOK, CompletedOnce, Outgoing, NEW c \in Threads, Awaited(c), ~broken'
  PROVE  Outgoing' /\ Stay
<1>1. PICK s \in Sends :
        /\ thread[c].s = s /\ s # None /\ Where(s) = "awaiting" /\ SendRight(s) /\ ~Superseded(s)
        /\ s \notin held /\ Id(s) \in Sends /\ entry[Id(s)] \in {s, None}
  BY ThreadAt DEF Awaited, Steps
<1>2. UNCHANGED <<setting, core, completed, worker>>
  BY DEF Awaited
<1>3. \A u : /\ Kind(u)' = Kind(u) /\ Id(u)' = Id(u) /\ Turn(u)' = Turn(u)
             /\ Another(u)' = Another(u)
             /\ Owned(u)' = Owned(u) /\ HasInfo(u)' = HasInfo(u)
  BY <1>2, SettingStays
<1>4. /\ core[s] \in {"queued", "sent", "dropped"} /\ Kind(s) \in {"failover", "one_way_failover"}
      /\ Owned(s) /\ HasInfo(s)
  BY <1>1 DEF SendRight, StepFits, Owned, HasInfo
<1>5. \A u \in Sends : Superseded(u)' <=> Superseded(u)
  BY <1>2, <1>3 DEF Superseded
<1>6. CASE Kind(s) = "failover"
  <2>1. /\ info[s] # None /\ info[s].done
        /\ IF info[s].state = "abandoned"
           THEN Goto(c, "unwinding") /\ UNCHANGED held
           ELSE Return(c) /\ held' = held \cup {s}
        /\ UNCHANGED <<info, entry>>
    BY <1>1, <1>6 DEF Awaited
  <2>2. /\ info[s].state = "abandoned" => core[s] = "dropped"
        /\ info[s].state # "abandoned" => core[s] = "sent"
    BY <1>1, <2>1, CompletedState DEF SendRight, Final
  <2>3. PICK next \in {"unwinding", "none"} :
          /\ OneSender' /\ \A u \in Sends : Where(u)' = IF u = s THEN next ELSE Where(u)
          /\ held' = IF next = "none" THEN held \cup {s} ELSE held
          /\ core[s] = IF next = "none" THEN "sent" ELSE "dropped"
    <3>1. CASE info[s].state = "abandoned"
      <4>1. OneSender' /\ \A u \in Sends : Where(u)' = IF u = s THEN "unwinding" ELSE Where(u)
        BY <1>1, <2>1, <3>1, WhereMoves DEF Outgoing, Goto, Steps
      <4> QED
        BY <2>1, <2>2, <3>1, <4>1
    <3>2. CASE info[s].state # "abandoned"
      <4>1. OneSender' /\ \A u \in Sends : Where(u)' = IF u = s THEN "none" ELSE Where(u)
        BY <1>1, <2>1, <3>2, WhereReturns DEF Outgoing
      <4> QED
        BY <2>1, <2>2, <3>2, <4>1
    <3> QED
      BY <3>1, <3>2
  <2>4. ReportTrue' /\ EntriesById' /\ \A u \in Sends : ByManager(u)' <=> ByManager(u)
    BY <1>2, <1>3, <2>1 DEF Outgoing, ReportTrue, EntriesById, ByManager
  <2>5. ASSUME NEW u \in Sends, u # s PROVE Same(u)
    BY <1>2, <1>5, <2>1, <2>3, <2>4, <2>5 DEF Same, ReportingAt
  <2>6. SendRight(s)'
    <3>1. Where(s)' = next /\ ~Caught(s)' /\ ~Caught(s) /\ References(s)' = References(s)
      BY <1>1, <1>2, <1>3, <2>1, <2>3 DEF Caught, GivenUp, References
    <3>2. /\ ByProgress(s)' <=> ByProgress(s)
          /\ ByProgram(s)' /\ ByProgram(s)
      BY <1>1, <1>2, <1>3, <1>4, <2>1, <2>3 DEF ByProgress, ByProgram, ReportingAt
    <3>3. References(s)' + One(Caught(s))' = One(ByManager(s))' + One(ByProgress(s))' + One(ByProgram(s))'
      BY <1>1, <1>4, <2>4, <3>1, <3>2 DEF SendRight, One
    <3>4. StepFits(s)' /\ (s \in held' => ~GivenUp(s)')
      BY <1>1, <1>2, <1>3, <1>4, <1>6, <2>3, <3>1 DEF StepFits, GivenUp
    <3> QED
      BY <1>1, <1>2, <1>3, <1>4, <1>5, <2>1, <2>3, <3>1, <3>3, <3>4 DEF SendRight
  <2>7. \A u \in Sends : Underway(u)' <=> Underway(u)
    BY <1>1, <1>2, <2>3 DEF Underway, ReportingAt
  <2> QED
    BY <1>2, <2>3, <2>4, <2>5, <2>6, <2>7, OthersRight DEF Stay
<1>7. CASE Kind(s) = "one_way_failover"
  <2>1. /\ info[s] # None /\ Return(c)
        /\ info' = DecRef(Removed(info, Id(s)), s) /\ Remove(Id(s)) /\ UNCHANGED held
    BY <1>1, <1>7 DEF Awaited
  <2>2. OneSender' /\ \A u \in Sends : Where(u)' = IF u = s THEN "none" ELSE Where(u)
    BY <1>1, <2>1, WhereReturns DEF Outgoing
  <2>3. /\ LetGo(s, One(ByManager(s)) + 1) /\ ~ByManager(s)'
        /\ \A u \in Sends : u # s => info'[u] = info[u] /\ (ByManager(u)' <=> ByManager(u))
        /\ EntriesById'
    BY <1>1, <1>2, <2>1, LetGoByBoth DEF Outgoing
  <2>4. ReportTrue'
    BY <1>2, <1>3 DEF Outgoing, ReportTrue
  <2>5. ASSUME NEW u \in Sends, u # s PROVE Same(u)
    BY <1>2, <1>5, <2>1, <2>2, <2>3, <2>5 DEF Same, ReportingAt
  <2>6. SendRight(s)'
    <3>1. ~Caught(s)' /\ ~Caught(s) /\ ~GivenUp(s)'
      BY <1>3, <1>7 DEF Caught, GivenUp
    <3>2. /\ ByProgress(s)' <=> ByProgress(s)
          /\ ~ByProgram(s)' /\ ByProgram(s)
      BY <1>1, <1>2, <1>3, <1>4, <2>1, <2>2 DEF ByProgress, ByProgram, ReportingAt
    <3>3. References(s) = One(ByManager(s)) + One(ByProgress(s)) + 1
      <4>1. References(s) \in Nat
        BY DEF References, TypeOK, MessageTypes, Infos
      <4> QED
        BY <1>1, <1>4, <3>1, <3>2, <4>1 DEF SendRight, One
    <3>4. References(s)' + One(Caught(s))' = One(ByManager(s))' + One(ByProgress(s))' + One(ByProgram(s))'
      BY <2>3, <3>1, <3>2, <3>3 DEF LetGo, One
    <3>5. StepFits(s)'
      BY <2>2 DEF StepFits
    <3> QED
      BY <1>1, <1>2, <1>3, <1>4, <1>5, <1>7, <2>1, <2>2, <2>3, <3>1, <3>4, <3>5 DEF SendRight, LetGo
  <2>7. \A u \in Sends : Underway(u)' <=> Underway(u)
    BY <1>1, <1>2, <2>2 DEF Underway, ReportingAt
  <2> QED
    BY <1>2, <2>2, <2>3, <2>4, <2>5, <2>6, <2>7, OthersRight DEF Stay
<1> QED
  BY <1>4, <1>6, <1>7

LEMMA UnwindRight ==
  ASSUME AgentAssumption, TypeOK, Outgoing, NEW c \in Threads, Unwind(c)
  PROVE  Outgoing' /\ Stay
<1>1. PICK s \in Sends :
        /\ thread[c].s = s /\ s # None /\ Where(s) = "unwinding" /\ SendRight(s) /\ ~Superseded(s)
        /\ s \notin held /\ Id(s) \in Sends /\ entry[Id(s)] \in {s, None}
  BY ThreadAt DEF Unwind, Steps
<1>2. /\ info' = DecRef(Removed(info, Id(s)), s) /\ Remove(Id(s)) /\ Goto(c, "catch")
      /\ UNCHANGED <<setting, held, core, completed, worker>>
  BY <1>1 DEF Unwind
<1>3. \A u : /\ Kind(u)' = Kind(u) /\ Id(u)' = Id(u) /\ Turn(u)' = Turn(u)
             /\ Another(u)' = Another(u)
             /\ Owned(u)' = Owned(u) /\ HasInfo(u)' = HasInfo(u)
  BY <1>2, SettingStays
<1>4. Owned(s) /\ HasInfo(s) /\ (core[s] = "failed" \/ GivenUp(s))
  BY <1>1 DEF SendRight, StepFits, Owned, HasInfo
<1>5. \A u \in Sends : Superseded(u)' <=> Superseded(u)
  BY <1>2, <1>3 DEF Superseded
<1>6. OneSender' /\ \A u \in Sends : Where(u)' = IF u = s THEN "catch" ELSE Where(u)
  BY <1>1, <1>2, WhereMoves DEF Outgoing, Goto, Steps
<1>7. /\ LetGo(s, One(ByManager(s)) + 1) /\ ~ByManager(s)'
      /\ \A u \in Sends : u # s => info'[u] = info[u] /\ (ByManager(u)' <=> ByManager(u))
      /\ EntriesById'
  BY <1>1, <1>2, LetGoByBoth DEF Outgoing
<1>8. ReportTrue'
  BY <1>2, <1>3 DEF Outgoing, ReportTrue
<1>9. ASSUME NEW u \in Sends, u # s PROVE Same(u)
  BY <1>2, <1>5, <1>6, <1>7, <1>9 DEF Same, ReportingAt
<1>10. SendRight(s)'
  <2>1. ~Caught(s)' /\ ~Caught(s) /\ (GivenUp(s)' <=> GivenUp(s))
    BY <1>1, <1>2, <1>3, <1>6 DEF Caught, GivenUp
  <2>2. /\ ByProgress(s)' <=> ByProgress(s)
        /\ ~ByProgram(s)' /\ ByProgram(s)
    BY <1>1, <1>2, <1>3, <1>4, <1>6 DEF ByProgress, ByProgram, ReportingAt
  <2>3. References(s) = One(ByManager(s)) + One(ByProgress(s)) + 1
    <3>1. References(s) \in Nat
      BY DEF References, TypeOK, MessageTypes, Infos
    <3> QED
      BY <1>1, <1>4, <2>1, <2>2, <3>1 DEF SendRight, One
  <2>4. References(s)' + One(Caught(s))' = One(ByManager(s))' + One(ByProgress(s))' + One(ByProgram(s))'
    BY <1>7, <2>1, <2>2, <2>3 DEF LetGo, One
  <2>5. StepFits(s)'
    BY <1>2, <1>4, <1>6, <2>1 DEF StepFits
  <2> QED
    BY <1>1, <1>2, <1>3, <1>4, <1>5, <1>6, <1>7, <2>1, <2>4, <2>5 DEF SendRight, LetGo, GivenUp
<1>11. Stay
  BY <1>1, <1>2, <1>6 DEF Stay, Underway, ReportingAt
<1> QED
  BY <1>2, <1>6, <1>7, <1>8, <1>9, <1>10, <1>11, OthersRight

LEMMA CatchRight ==
  ASSUME AgentAssumption, TypeOK, Outgoing, NEW c \in Threads, Catch(c), ~broken'
  PROVE  Outgoing' /\ Stay
<1>1. PICK s \in Sends :
        /\ thread[c].s = s /\ s # None /\ Where(s) = "catch" /\ SendRight(s) /\ ~Superseded(s)
        /\ s \notin held /\ Id(s) \in Sends /\ entry[Id(s)] \in {s, None}
  BY ThreadAt DEF Catch, Steps
<1>2. /\ HasInfo(s) => /\ info' = Removed(DecRef(info, s), Id(s)) /\ Remove(Id(s))
                       /\ info[s] # None
      /\ ~HasInfo(s) => UNCHANGED <<info, entry>>
      /\ Goto(c, "lower")
      /\ UNCHANGED <<setting, held, core, completed, worker>>
  BY <1>1 DEF Catch
<1>3. \A u : /\ Kind(u)' = Kind(u) /\ Id(u)' = Id(u) /\ Turn(u)' = Turn(u)
             /\ Another(u)' = Another(u)
             /\ Owned(u)' = Owned(u) /\ HasInfo(u)' = HasInfo(u)
  BY <1>2, SettingStays
<1>4. core[s] = "failed" \/ GivenUp(s)
  BY <1>1 DEF SendRight, StepFits
<1>5. \A u \in Sends : Superseded(u)' <=> Superseded(u)
  BY <1>2, <1>3 DEF Superseded
<1>6. OneSender' /\ \A u \in Sends : Where(u)' = IF u = s THEN "lower" ELSE Where(u)
  BY <1>1, <1>2, WhereMoves DEF Outgoing, Goto, Steps
<1>7. /\ HasInfo(s) => LetGo(s, One(ByManager(s)) + 1)
      /\ ~ByManager(s)' /\ EntriesById'
      /\ \A u \in Sends : u # s => info'[u] = info[u] /\ (ByManager(u)' <=> ByManager(u))
  <2>1. CASE HasInfo(s)
    BY <1>1, <1>2, <2>1, LetGoByBoth DEF Outgoing
  <2>2. CASE ~HasInfo(s)
    <3>1. ~ByManager(s)
      BY <1>1, <2>2 DEF Outgoing, EntriesById, ByManager
    <3> QED
      BY <1>2, <1>3, <2>2, <3>1 DEF Outgoing, EntriesById, ByManager
  <2> QED
    BY <2>1, <2>2
<1>8. ReportTrue'
  BY <1>2, <1>3 DEF Outgoing, ReportTrue
<1>9. ASSUME NEW u \in Sends, u # s PROVE Same(u)
  BY <1>2, <1>5, <1>6, <1>7, <1>9 DEF Same, ReportingAt
<1>10. SendRight(s)'
  <2>1. (Caught(s)' <=> GivenUp(s)) /\ ~Caught(s) /\ (GivenUp(s)' <=> GivenUp(s))
    BY <1>1, <1>2, <1>3, <1>6 DEF Caught, GivenUp
  <2>2. HasInfo(s) =>
          References(s)' + One(Caught(s))' = One(ByManager(s))' + One(ByProgress(s))' + One(ByProgram(s))'
    <3> SUFFICES ASSUME HasInfo(s)
                 PROVE  References(s)' + One(Caught(s))' = One(ByManager(s))' + One(ByProgress(s))' + One(ByProgram(s))'
      OBVIOUS
    <3>1. References(s) \in Nat /\ References(s) # 0
      BY <1>2 DEF References, TypeOK, MessageTypes, Infos
    <3>2. ~ByProgram(s)' /\ ~ByProgram(s)
      BY <1>1, <1>2, <1>3, <1>6 DEF ByProgram
    <3>3. References(s) = One(ByManager(s)) + One(ByProgress(s))
      BY <1>1, <2>1, <3>1, <3>2 DEF SendRight, One
    <3>4. CASE core[s] = "failed"
      <4>1. ByProgress(s) /\ ~ByProgress(s)' /\ ~GivenUp(s)
        <5>1. ~ReportingAt(s, Reporting)
          BY <3>4, NotReported
        <5>2. ~ReportingAt(s, Reporting)'
          BY <1>2, <5>1 DEF ReportingAt
        <5> QED
          BY <1>1, <1>2, <1>6, <3>4, <5>2 DEF ByProgress, GivenUp
      <4> QED
        BY <1>7, <2>1, <3>2, <3>3, <4>1 DEF LetGo, One
    <3>5. CASE GivenUp(s)
      <4>1. ~ByManager(s)
        BY <1>1, <3>5 DEF SendRight, GivenUp, Owned
      <4>2. ByProgress(s) /\ ByProgress(s)'
        <5>1. ByProgress(s)
          BY <3>1, <3>3, <4>1 DEF One
        <5>2. ReportingAt(s, Reporting)
          BY <1>1, <3>5, <5>1 DEF ByProgress, GivenUp
        <5>3. ReportingAt(s, Reporting)'
          BY <1>2, <5>2 DEF ReportingAt
        <5> QED
          BY <5>1, <5>3 DEF ByProgress
      <4> QED
        BY <1>7, <2>1, <3>2, <3>3, <3>5, <4>1, <4>2 DEF LetGo, One
    <3> QED
      BY <1>4, <3>4, <3>5
  <2>3. StepFits(s)'
    BY <1>2, <1>4, <1>6, <2>1 DEF StepFits
  <2>4. info'[s] # None => info[s] # None /\ info'[s].state = info[s].state
    BY <1>2, <1>7 DEF LetGo
  <2> QED
    BY <1>1, <1>2, <1>3, <1>4, <1>5, <1>6, <1>7, <2>1, <2>2, <2>3, <2>4 DEF SendRight, GivenUp
<1>11. Stay
  BY <1>1, <1>2, <1>6 DEF Stay, Underway, ReportingAt
<1> QED
  BY <1>2, <1>6, <1>7, <1>8, <1>9, <1>10, <1>11, OthersRight

LEMMA ConnectFailsRight ==
  ASSUME AgentAssumption, TypeOK, Outgoing, NEW c \in Threads, ConnectFails(c) \/ Reopen(c)
  PROVE  Outgoing' /\ Stay
<1>1. PICK pc \in {"connect", "reopen"} : At(c, pc) /\ Failed(c, thread[c].s)
  BY DEF ConnectFails, Reopen
<1>2. PICK s \in Sends : s = thread[c].s
  BY <1>1, ThreadAt DEF Steps
<1>3. Failed(c, s) /\ UNCHANGED <<setting, info, entry, held, completed, worker>>
  BY <1>1, <1>2 DEF ConnectFails, Reopen
<1> QED
  BY <1>1, <1>2, <1>3, FailedRight

LEMMA LowerRight ==
  ASSUME AgentAssumption, TypeOK, Outgoing, NEW c \in Threads, Lower(c)
  PROVE  Outgoing' /\ (~FailoverDropped => \E s \in Sends : Leaves(s))
<1>1. PICK s \in Sends :
        /\ thread[c].s = s /\ s # None /\ Where(s) = "lower" /\ SendRight(s) /\ ~Superseded(s)
        /\ s \notin held
  BY ThreadAt DEF Lower, Steps
<1>2. /\ At(c, "lower") /\ UNCHANGED <<setting, info, entry, held, completed, worker>>
      /\ Failed(c, s) \/ (Goto(c, "reopen") /\ UNCHANGED core)
  BY <1>1 DEF Lower
<1>3. CASE Failed(c, s)
  BY <1>1, <1>2, <1>3, FailedRight
<1>4. CASE Goto(c, "reopen") /\ UNCHANGED core
  <2>1. OneSender' /\ \A u \in Sends : Where(u)' = IF u = s THEN "reopen" ELSE Where(u)
    BY <1>1, <1>4, WhereMoves DEF Outgoing, Goto, Steps
  <2>2. \A u : /\ Kind(u)' = Kind(u) /\ Id(u)' = Id(u) /\ Turn(u)' = Turn(u)
             /\ Another(u)' = Another(u)
               /\ Owned(u)' = Owned(u) /\ HasInfo(u)' = HasInfo(u)
    BY <1>2, SettingStays
  <2>3. /\ ReportTrue' /\ EntriesById'
        /\ \A u \in Sends : (Superseded(u)' <=> Superseded(u)) /\ (ByManager(u)' <=> ByManager(u))
    BY <1>2, <1>4, <2>2 DEF Outgoing, ReportTrue, EntriesById, Superseded, ByManager
  <2>4. ASSUME NEW u \in Sends, u # s PROVE Same(u)
    BY <1>2, <1>4, <2>1, <2>3, <2>4 DEF Same, ReportingAt
  <2>5. SendRight(s)'
    <3>1. /\ Caught(s)' <=> Caught(s)
          /\ ByProgress(s)' <=> ByProgress(s)
          /\ ByProgram(s)' <=> ByProgram(s)
          /\ GivenUp(s)' <=> GivenUp(s)
          /\ References(s)' = References(s)
      BY <1>1, <1>2, <1>4, <2>1, <2>2 DEF Caught, GivenUp, ByProgress, ByProgram, ReportingAt, References
    <3>2. StepFits(s)'
      BY <1>1, <1>4, <2>1, <3>1 DEF SendRight, StepFits
    <3>3. HasInfo(s) =>
            References(s)' + One(Caught(s))' = One(ByManager(s))' + One(ByProgress(s))' + One(ByProgram(s))'
      BY <1>1, <2>3, <3>1 DEF SendRight, One
    <3>4. core[s] \notin {"new", "queued"} /\ ~ByManager(s)
      BY <1>1 DEF SendRight, StepFits, GivenUp
    <3> QED
      BY <1>1, <1>2, <1>4, <2>1, <2>2, <2>3, <3>1, <3>2, <3>3, <3>4 DEF SendRight
  <2>6. ~FailoverDropped => Leaves(s)
    <3> SUFFICES ASSUME ~FailoverDropped PROVE Leaves(s)
      OBVIOUS
    <3>1. core[s] = "failed" /\ core' = core
      BY <1>1, <1>4 DEF FailoverDropped, GivenUp, SendRight, StepFits
    <3>2. ~ReportingAt(s, {"calling", "lower"})'
      <4>1. ~ReportingAt(s, {"calling", "lower"})
        BY <3>1, NotReported
      <4> QED
        BY <1>2, <4>1 DEF ReportingAt
    <3>3. Underway(s) /\ ~Underway(s)'
      BY <1>1, <2>1, <3>1, <3>2 DEF Underway
    <3>4. \A u \in Sends : u # s => (Underway(u)' <=> Underway(u))
      BY <1>2, <1>4, <2>1 DEF Underway, ReportingAt
    <3> QED
      BY <3>3, <3>4 DEF Leaves
  <2> QED
    BY <1>2, <2>1, <2>3, <2>4, <2>5, <2>6, OthersRight
<1> QED
  BY <1>2, <1>3, <1>4

-----------------------------------------------------------------------------
(* The steps of the program.                                               *)

LEMMA CallRight ==
  ASSUME AgentAssumption, TypeOK, Outgoing, NEW c \in Threads, NEW s \in Sends, Call(c, s)
  PROVE  Outgoing' /\ Stay
<1>1. /\ core[s] = "new" /\ s = Id(s) /\ core' = [core EXCEPT ![s] = "calling"]
      /\ thread' = [thread EXCEPT ![c] = [pc |-> "gate", s |-> s]] /\ thread[c].pc = "idle"
      /\ UNCHANGED <<setting, info, entry, held, completed, worker>>
  BY DEF Call, At
<1>2. Where(s) = "none" /\ s \notin held
  BY <1>1, NewNowhere
<1>3. thread[c].s = None
  BY <1>1 DEF TypeOK, ThreadTypes
<1>4. OneSender' /\ \A u \in Sends : Where(u)' = IF u = s THEN "gate" ELSE Where(u)
  <2> DEFINE next == [pc |-> "gate", s |-> s]
  <2>1. next.s = s /\ next = [pc |-> "gate", s |-> next.s]
    OBVIOUS
  <2>2. thread' = [thread EXCEPT ![c] = next]
    BY <1>1
  <2> HIDE DEF next
  <2>3. /\ OneSender'
        /\ \A u \in Sends : Where(u)' = IF u = next.s THEN "gate"
                                        ELSE IF u = thread[c].s THEN "none" ELSE Where(u)
    BY <1>2, <2>1, <2>2, WhereTurns DEF Outgoing
  <2> QED
    BY <1>3, <2>1, <2>3 DEF AgentAssumption
<1>5. \A u : /\ Kind(u)' = Kind(u) /\ Id(u)' = Id(u) /\ Turn(u)' = Turn(u)
             /\ Another(u)' = Another(u)
             /\ Owned(u)' = Owned(u) /\ HasInfo(u)' = HasInfo(u)
  BY <1>1, SettingStays
<1>6. core'[s] = "calling" /\ \A u \in Sends : u # s => core'[u] = core[u]
  BY <1>1 DEF TypeOK, MessageTypes
<1>7. ~ReportingAt(s, Reporting) /\ ~ReportingAt(s, {"calling", "lower"})
  BY <1>1, NotReported
<1>8. ~ReportingAt(s, Reporting)' /\ ~ReportingAt(s, {"calling", "lower"})'
  BY <1>1, <1>7 DEF ReportingAt
<1>9. ReportTrue' /\ EntriesById' /\ \A u \in Sends : ByManager(u)' <=> ByManager(u)
  <2>1. worker.pc \in Reporting => worker.s \in Sends /\ worker.s # s
    BY <1>7 DEF ReportingAt, Reporting, TypeOK, WorkerTypes
  <2> QED
    BY <1>1, <1>5, <1>6, <2>1 DEF Outgoing, ReportTrue, EntriesById, Reporting, ByManager
<1>10. \A u \in Sends : Superseded(u)' <=> Superseded(u)
  <2>1. Turn(s) = 0 /\ \A u \in Sends : Turn(u) \in Nat
    BY <1>1, SettingsRight DEF Settled
  <2>2. \A u \in Sends : ~(Turn(s) > Turn(u))
    BY <2>1
  <2> QED
    BY <1>5, <1>6, <2>2 DEF Superseded
<1>11. ASSUME NEW u \in Sends, u # s PROVE Same(u)
  BY <1>1, <1>4, <1>6, <1>9, <1>10, <1>11 DEF Same, ReportingAt
<1>12. SendRight(s)'
  <2>1. SendRight(s) /\ info[s] = None /\ ~ByManager(s) /\ completed[s] = <<>>
    BY <1>1 DEF Outgoing, SendRight
  <2>2. ~Superseded(s)
    BY <1>1, <2>1 DEF SendRight, GivenUp
  <2>3. ~ByProgress(s)' /\ ~ByProgram(s)' /\ ~Caught(s)' /\ References(s)' = 0
    BY <1>1, <1>2, <1>4, <1>6, <1>8, <2>1 DEF ByProgress, ByProgram, Caught, GivenUp, References
  <2>4. StepFits(s)'
    BY <1>4, <1>6 DEF StepFits
  <2> QED
    BY <1>1, <1>2, <1>4, <1>5, <1>6, <1>9, <1>10, <2>1, <2>2, <2>3, <2>4 DEF SendRight, One
<1>13. Stay
  <2>1. \A u \in Sends : u # s => (Underway(u)' <=> Underway(u))
    BY <1>1, <1>4, <1>6 DEF Underway, ReportingAt
  <2>2. ~Underway(s)' /\ ~Underway(s)
    BY <1>1, <1>2, <1>4, <1>6, <1>7, <1>8 DEF Underway
  <2> QED
    BY <2>1, <2>2 DEF Stay
<1> QED
  BY <1>1, <1>4, <1>9, <1>11, <1>12, <1>13, OthersRight

LEMMA DropRight ==
  ASSUME AgentAssumption, TypeOK, Outgoing, NEW s \in Sends, Drop(s)
  PROVE  Outgoing' /\ Stay
<1>1. /\ s \in held /\ held' = held \ {s}
      /\ info' = DecRef(Removed(info, Id(s)), s) /\ Remove(Id(s))
      /\ UNCHANGED <<setting, thread, core, completed, worker>>
  BY DEF Drop
<1>2. SendRight(s) /\ Owned(s) /\ HasInfo(s) /\ Where(s) = "none" /\ core[s] \in {"queued", "sent", "dropped"}
      /\ ~GivenUp(s) /\ ~Superseded(s)
  BY <1>1 DEF Outgoing, SendRight, Owned, HasInfo
<1>3. Id(s) \in Sends /\ entry[Id(s)] \in {s, None}
  BY <1>2, OneOfGroup
<1>4. \A u : /\ Kind(u)' = Kind(u) /\ Id(u)' = Id(u) /\ Turn(u)' = Turn(u)
             /\ Another(u)' = Another(u)
             /\ Owned(u)' = Owned(u) /\ HasInfo(u)' = HasInfo(u)
  BY <1>1, SettingStays
<1>5. OneSender' /\ \A u \in Sends : Where(u)' = Where(u)
  BY <1>1 DEF Outgoing, OneSender, Where, Sender
<1>6. /\ LetGo(s, One(ByManager(s)) + 1) /\ ~ByManager(s)'
      /\ \A u \in Sends : u # s => info'[u] = info[u] /\ (ByManager(u)' <=> ByManager(u))
      /\ EntriesById'
  BY <1>1, <1>3, LetGoByBoth DEF Outgoing
<1>7. ReportTrue' /\ \A u \in Sends : Superseded(u)' <=> Superseded(u)
  BY <1>1, <1>4 DEF Outgoing, ReportTrue, Superseded
<1>8. ASSUME NEW u \in Sends, u # s PROVE Same(u)
  BY <1>1, <1>5, <1>6, <1>7, <1>8 DEF Same, ReportingAt
<1>9. SendRight(s)'
  <2>1. ~Caught(s)' /\ ~Caught(s) /\ ~GivenUp(s)'
    BY <1>1, <1>2, <1>4 DEF Caught, GivenUp
  <2>2. /\ ByProgress(s)' <=> ByProgress(s)
        /\ ~ByProgram(s)' /\ ByProgram(s)
    BY <1>1, <1>2, <1>4, <1>5 DEF ByProgress, ByProgram, ReportingAt
  <2>3. References(s) = One(ByManager(s)) + One(ByProgress(s)) + 1
    <3>1. References(s) \in Nat
      BY DEF References, TypeOK, MessageTypes, Infos
    <3> QED
      BY <1>2, <2>1, <2>2, <3>1 DEF SendRight, One
  <2>4. References(s)' + One(Caught(s))' = One(ByManager(s))' + One(ByProgress(s))' + One(ByProgram(s))'
    BY <1>6, <2>1, <2>2, <2>3 DEF LetGo, One
  <2>5. StepFits(s)'
    BY <1>2, <1>5 DEF StepFits
  <2> QED
    BY <1>1, <1>2, <1>4, <1>5, <1>6, <1>7, <2>1, <2>4, <2>5 DEF SendRight, LetGo, GivenUp
<1>10. Stay
  BY <1>1, <1>5 DEF Stay, Underway, ReportingAt
<1> QED
  BY <1>1, <1>5, <1>6, <1>7, <1>8, <1>9, <1>10, OthersRight

-----------------------------------------------------------------------------
(* The steps of the worker.                                                *)

LEMMA QuietRight ==
  ASSUME Outgoing, UNCHANGED <<setting, outVars>>, ReportTrue',
         \A s \in Sends : ReportingAt(s, Reporting)' <=> ReportingAt(s, Reporting)
  PROVE  Outgoing'
<1> USE DEF outVars
<1>1. \A u : /\ Kind(u)' = Kind(u) /\ Id(u)' = Id(u) /\ Turn(u)' = Turn(u)
             /\ Another(u)' = Another(u)
             /\ Owned(u)' = Owned(u) /\ HasInfo(u)' = HasInfo(u)
  BY SettingStays
<1>2. OneSender' /\ \A u \in Sends : Where(u)' = Where(u)
  BY DEF Outgoing, OneSender, Where, Sender
<1>3. EntriesById'
  BY <1>1 DEF Outgoing, EntriesById
<1>4. \A u \in Sends : Same(u)
  BY <1>1, <1>2 DEF Same, ByManager, Superseded
<1> QED
  BY <1>2, <1>3, <1>4, OthersRight

LEMMA QuietStays ==
  ASSUME UNCHANGED <<thread, core>>,
         \A s \in Sends : ReportingAt(s, {"calling", "lower"})' <=> ReportingAt(s, {"calling", "lower"})
  PROVE  Stay
<1>1. \A u \in Sends : Where(u)' = Where(u)
  BY DEF Where, Sender
<1> QED
  BY <1>1 DEF Stay, Underway

LEMMA WorkerUnchangedRight ==
  ASSUME Outgoing, UNCHANGED <<setting, outVars, worker>>
  PROVE  Outgoing' /\ Stay
<1>1. ReportTrue'
  <2>1. \A u : HasInfo(u)' = HasInfo(u)
    BY SettingStays
  <2> QED
    BY <2>1 DEF Outgoing, ReportTrue, outVars
<1>2. /\ \A s \in Sends : ReportingAt(s, Reporting)' <=> ReportingAt(s, Reporting)
      /\ \A s \in Sends : ReportingAt(s, {"calling", "lower"})' <=> ReportingAt(s, {"calling", "lower"})
  BY DEF ReportingAt
<1>3. UNCHANGED <<thread, core>>
  BY DEF outVars
<1> QED
  BY <1>1, <1>2, <1>3, QuietRight, QuietStays

(* The worker does other things than to report.                            *)
LEMMA ElsewhereRight ==
  ASSUME TypeOK, Outgoing, Read \/ Interrupted \/ TimedOut \/ Check \/ Receive \/ Shut \/ Push
  PROVE  Outgoing' /\ Stay
<1>1. /\ UNCHANGED <<setting, outVars>> /\ worker.pc \notin Reporting /\ worker'.pc \notin Reporting
      /\ worker'.s = worker.s
  BY DEF Read, Interrupted, TimedOut, Check, Receive, Shut, Push, WorkerAt, WorkerTo, Reporting,
         TypeOK, WorkerTypes
<1>2. ReportTrue'
  BY <1>1 DEF ReportTrue, Reporting
<1>3. UNCHANGED <<thread, core>>
  BY <1>1 DEF outVars
<1>4. /\ \A s \in Sends : ReportingAt(s, Reporting)' <=> ReportingAt(s, Reporting)
      /\ \A s \in Sends : ReportingAt(s, {"calling", "lower"})' <=> ReportingAt(s, {"calling", "lower"})
  BY <1>1 DEF ReportingAt, Reporting
<1> QED
  BY <1>1, <1>2, <1>3, <1>4, QuietRight, QuietStays

(* It reports, and neither the info nor the manager is concerned.          *)
LEMMA LowerByWorkerRight ==
  ASSUME TypeOK, AgentAssumption, Outgoing, Called \/ LowerByWorker \/ ReopenByWorker
  PROVE  /\ Outgoing'
         /\ ~LowerByWorker => Stay
         /\ LowerByWorker => \E s \in Sends : Leaves(s)
<1>1. /\ UNCHANGED <<setting, outVars>> /\ worker.pc \in {"calling", "lower", "reopen"}
      /\ worker'.pc \in {"lower", "reopen", "tidy"}
      /\ worker'.s = worker.s /\ worker'.how = worker.how
      /\ worker.pc = "lower" <=> LowerByWorker
      /\ worker.pc = "calling" <=> worker'.pc = "lower"
  <2>1. ASSUME Called
        PROVE  worker.pc = "calling" /\ worker' = [worker EXCEPT !.pc = "lower"] /\ ~LowerByWorker
               /\ UNCHANGED <<setting, outVars>>
    BY <2>1 DEF Called, WorkerAt, WorkerTo, LowerByWorker
  <2>2. ASSUME ReopenByWorker
        PROVE  worker.pc = "reopen" /\ worker' = [worker EXCEPT !.pc = "tidy"] /\ ~LowerByWorker
               /\ UNCHANGED <<setting, outVars>>
    BY <2>2 DEF ReopenByWorker, WorkerAt, WorkerTo, LowerByWorker
  <2>3. ASSUME LowerByWorker
        PROVE  worker.pc = "lower" /\ (\E pc \in {"reopen", "tidy"} : worker' = [worker EXCEPT !.pc = pc])
               /\ UNCHANGED <<setting, outVars>>
    BY <2>3 DEF LowerByWorker, WorkerAt, WorkerTo
  <2> QED
    BY <2>1, <2>2, <2>3 DEF TypeOK, WorkerTypes
<1>2. ReportTrue'
  <2>1. core' = core
    BY <1>1 DEF outVars
  <2> QED
    BY <1>1, <2>1 DEF Outgoing, ReportTrue, Reporting
<1>3. UNCHANGED <<thread, core>>
  BY <1>1 DEF outVars
<1>4. \A s \in Sends : ReportingAt(s, Reporting)' <=> ReportingAt(s, Reporting)
  BY <1>1 DEF ReportingAt, Reporting
<1>5. Outgoing'
  BY <1>1, <1>2, <1>4, QuietRight
<1>6. ASSUME ~LowerByWorker PROVE Stay
  <2>1. \A s \in Sends : ReportingAt(s, {"calling", "lower"})' <=> ReportingAt(s, {"calling", "lower"})
    BY <1>1, <1>6 DEF ReportingAt
  <2> QED
    BY <1>3, <2>1, QuietStays
<1>7. ASSUME LowerByWorker PROVE \E s \in Sends : Leaves(s)
  <2>1. PICK s \in Sends : s = worker.s
    BY <1>1 DEF TypeOK, WorkerTypes
  <2>2. \A u \in Sends : Where(u)' = Where(u)
    BY <1>3 DEF Where, Sender
  <2>3. core[s] \in {"sent", "dropped"} /\ SendRight(s)
    BY <1>1, <2>1 DEF Outgoing, ReportTrue, Reporting, TypeOK, WorkerTypes
  <2>4. Where(s) \notin {"suppress", "post"}
    BY <2>3 DEF SendRight, StepFits
  <2>5. Underway(s) /\ ~Underway(s)'
    BY <1>1, <1>3, <1>7, <2>1, <2>2, <2>3, <2>4 DEF Underway, ReportingAt
  <2>6. \A u \in Sends : u # s => (Underway(u)' <=> Underway(u))
    BY <1>1, <1>3, <2>1, <2>2 DEF Underway, ReportingAt
  <2> QED
    BY <2>5, <2>6 DEF Leaves
<1> QED
  BY <1>5, <1>6, <1>7

LEMMA TidyRight ==
  ASSUME AgentAssumption, TypeOK, Outgoing, Tidy, ~broken'
  PROVE  Outgoing' /\ Stay
<1>1. PICK s \in Sends : s = worker.s /\ s # None /\ worker.pc = "tidy"
  BY DEF Tidy, WorkerAt, TypeOK, WorkerTypes
<1>2. /\ HasInfo(s) => info[s] # None
      /\ IF HasInfo(s) /\ worker.how = "dropped"
         THEN info' = Removed(info, Id(s)) /\ Remove(Id(s)) ELSE UNCHANGED <<info, entry>>
      /\ UNCHANGED <<setting, thread, held, core, completed>>
  BY <1>1 DEF Tidy, InfoGone
<1>3. /\ worker'.pc = IF HasInfo(s) THEN "release" ELSE Reported
      /\ worker'.s = s /\ worker'.how = worker.how /\ worker.how \in {"sent", "dropped"}
      /\ Reported \notin Reporting
  BY <1>1 DEF Tidy, WorkerTo, Reported, Reporting, TypeOK, WorkerTypes
<1>4. \A u : /\ Kind(u)' = Kind(u) /\ Id(u)' = Id(u) /\ Turn(u)' = Turn(u)
             /\ Another(u)' = Another(u)
             /\ Owned(u)' = Owned(u) /\ HasInfo(u)' = HasInfo(u)
  BY <1>2, SettingStays
<1>5. core[s] = worker.how /\ SendRight(s)
  BY <1>1 DEF Outgoing, ReportTrue, Reporting
<1>6. OneSender' /\ \A u \in Sends : Where(u)' = Where(u) /\ (Superseded(u)' <=> Superseded(u))
  BY <1>2, <1>4 DEF Outgoing, OneSender, Where, Sender, Superseded
<1>7. Stay
  <2>1. \A u \in Sends : ReportingAt(u, {"calling", "lower"})' <=> ReportingAt(u, {"calling", "lower"})
    BY <1>1, <1>3 DEF ReportingAt, Reported
  <2> QED
    BY <1>2, <2>1, QuietStays
<1>8. ReportTrue'
  BY <1>2, <1>3, <1>4, <1>5 DEF ReportTrue, Reporting
<1>9. CASE HasInfo(s) /\ worker.how = "dropped"
  <2>1. ~Superseded(s)
    <3>1. ByProgress(s)
      BY <1>1 DEF ByProgress, ReportingAt, Reporting
    <3>2. References(s) \in Nat \ {0}
      BY <1>2, <1>9 DEF References, TypeOK, MessageTypes, Infos
    <3>3. References(s) + One(Caught(s)) = One(ByManager(s)) + 1 + One(ByProgram(s))
      BY <1>5, <1>9, <3>1 DEF SendRight, One
    <3>4. ASSUME Superseded(s) PROVE FALSE
      <4>1. GivenUp(s) /\ Where(s) = "none" /\ ~ByManager(s) /\ s \notin held
        BY <1>5, <1>9, <3>4 DEF SendRight
      <4>2. Caught(s) /\ ~ByProgram(s)
        BY <4>1 DEF Caught, ByProgram
      <4> QED
        BY <3>2, <3>3, <4>1, <4>2 DEF One
    <3> QED
      BY <3>4
  <2>2. Id(s) \in Sends /\ entry[Id(s)] \in {s, None}
    BY <1>5, <1>9, <2>1, OneOfGroup
  <2>3. /\ LetGo(s, One(ByManager(s))) /\ ~ByManager(s)'
        /\ \A u \in Sends : u # s => info'[u] = info[u] /\ (ByManager(u)' <=> ByManager(u))
        /\ EntriesById'
    BY <1>2, <1>9, <2>2, LetGoByManager DEF Outgoing
  <2>4. ASSUME NEW u \in Sends, u # s PROVE Same(u)
    BY <1>1, <1>2, <1>3, <1>6, <2>3, <2>4 DEF Same, ReportingAt
  <2>5. SendRight(s)'
    <3>1. (Caught(s)' <=> Caught(s)) /\ (GivenUp(s)' <=> GivenUp(s))
      BY <1>2, <1>4, <1>6 DEF Caught, GivenUp
    <3>2. /\ ByProgress(s)' /\ ByProgress(s)
          /\ ByProgram(s)' <=> ByProgram(s)
      BY <1>1, <1>2, <1>3, <1>4, <1>6, <1>9 DEF ByProgress, ByProgram, ReportingAt, Reporting
    <3>3. References(s) + One(Caught(s)) = One(ByManager(s)) + 1 + One(ByProgram(s))
      BY <1>5, <1>9, <3>2 DEF SendRight, One
    <3>4. References(s)' + One(Caught(s))' = One(ByManager(s))' + One(ByProgress(s))' + One(ByProgram(s))'
      <4>1. References(s) \in Nat
        BY DEF References, TypeOK, MessageTypes, Infos
      <4> QED
        BY <2>3, <3>1, <3>2, <3>3, <4>1 DEF LetGo, One
    <3>5. StepFits(s)'
      BY <1>2, <1>4, <1>5, <1>6, <3>1 DEF SendRight, StepFits
    <3> QED
      BY <1>2, <1>4, <1>5, <1>6, <2>1, <2>3, <3>1, <3>4, <3>5 DEF SendRight, LetGo
  <2> QED
    BY <1>2, <1>6, <1>7, <1>8, <2>3, <2>4, <2>5, OthersRight
<1>10. CASE ~(HasInfo(s) /\ worker.how = "dropped")
  <2>1. UNCHANGED <<info, entry>>
    BY <1>2, <1>10
  <2>2. EntriesById' /\ \A u \in Sends : ByManager(u)' <=> ByManager(u)
    BY <1>4, <2>1 DEF Outgoing, EntriesById, ByManager
  <2>3. ASSUME NEW u \in Sends, u # s PROVE Same(u)
    BY <1>1, <1>2, <1>3, <1>6, <2>1, <2>2, <2>3 DEF Same, ReportingAt
  <2>4. CASE HasInfo(s)
    <3>1. Same(s)
      BY <1>1, <1>2, <1>3, <1>6, <2>1, <2>2, <2>4 DEF Same, ReportingAt, Reporting
    <3> QED
      BY <1>2, <1>6, <1>7, <1>8, <2>2, <2>3, <3>1, OthersRight
  <2>5. CASE ~HasInfo(s)
    <3>1. (Caught(s)' <=> Caught(s)) /\ (GivenUp(s)' <=> GivenUp(s))
      BY <1>2, <1>4, <1>6 DEF Caught, GivenUp
    <3>2. StepFits(s)'
      BY <1>2, <1>4, <1>5, <1>6, <3>1 DEF SendRight, StepFits
    <3>3. SendRight(s)'
      BY <1>2, <1>4, <1>5, <1>6, <2>1, <2>2, <2>5, <3>1, <3>2 DEF SendRight
    <3> QED
      BY <1>2, <1>6, <1>7, <1>8, <2>2, <2>3, <3>3, OthersRight
  <2> QED
    BY <2>4, <2>5
<1> QED
  BY <1>9, <1>10

LEMMA ReleaseRight ==
  ASSUME AgentAssumption, TypeOK, Outgoing, Release, ~broken'
  PROVE  Outgoing' /\ Stay
<1>1. PICK s \in Sends : s = worker.s /\ s # None /\ worker.pc = "release"
  BY DEF Release, WorkerAt, TypeOK, WorkerTypes
<1>2. /\ HasInfo(s) /\ info[s] # None /\ SendRight(s) /\ info' = DecRef(info, s)
      /\ UNCHANGED <<setting, thread, entry, held, core, completed>>
  BY <1>1 DEF Release, InfoGone, Outgoing, ReportTrue
<1>3. worker'.pc \notin Reporting /\ worker'.s = s
  BY <1>1 DEF Release, WorkerTo, Reported, Reporting, TypeOK, WorkerTypes
<1>4. \A u : /\ Kind(u)' = Kind(u) /\ Id(u)' = Id(u) /\ Turn(u)' = Turn(u)
             /\ Another(u)' = Another(u)
             /\ Owned(u)' = Owned(u) /\ HasInfo(u)' = HasInfo(u)
  BY <1>2, SettingStays
<1>5. /\ OneSender' /\ EntriesById'
      /\ \A u \in Sends : /\ Where(u)' = Where(u) /\ (Superseded(u)' <=> Superseded(u))
                          /\ ByManager(u)' <=> ByManager(u)
  BY <1>2, <1>4 DEF Outgoing, OneSender, Where, Sender, Superseded, EntriesById, ByManager
<1>6. Stay
  <2>1. \A u \in Sends : ReportingAt(u, {"calling", "lower"})' <=> ReportingAt(u, {"calling", "lower"})
    BY <1>1, <1>3 DEF ReportingAt, Reporting
  <2> QED
    BY <1>2, <2>1, QuietStays
<1>7. ReportTrue'
  BY <1>3 DEF ReportTrue, Reporting
<1>8. LetGo(s, 1) /\ \A u \in Sends : u # s => info'[u] = info[u]
  <2>1. info \in [Sends -> Infos \cup {None}]
    BY DEF TypeOK, MessageTypes
  <2>2. LetGo(s, 1)
    BY <1>2, LetGoOnce
  <2> QED
    BY <1>2, <2>1, <2>2, Released
<1>9. ASSUME NEW u \in Sends, u # s PROVE Same(u)
  BY <1>1, <1>2, <1>3, <1>5, <1>8, <1>9 DEF Same, ReportingAt
<1>10. SendRight(s)'
  <2>1. (Caught(s)' <=> Caught(s)) /\ (GivenUp(s)' <=> GivenUp(s))
    BY <1>2, <1>4, <1>5 DEF Caught, GivenUp
  <2>2. core[s] \in {"sent", "dropped"}
    BY <1>1 DEF Outgoing, ReportTrue, Reporting, TypeOK, WorkerTypes
  <2>3. Where(s) \notin {"increase", "suppress", "post"}
    BY <1>2, <2>2 DEF SendRight, StepFits
  <2>4. /\ ~ByProgress(s)' /\ ByProgress(s)
        /\ ByProgram(s)' <=> ByProgram(s)
    BY <1>1, <1>2, <1>3, <1>4, <1>5, <2>2, <2>3 DEF ByProgress, ByProgram, ReportingAt, Reporting
  <2>5. References(s) \in Nat \ {0}
    BY <1>2 DEF References, TypeOK, MessageTypes, Infos
  <2>6. References(s)' + One(Caught(s))' = One(ByManager(s))' + One(ByProgress(s))' + One(ByProgram(s))'
    BY <1>2, <1>5, <1>8, <2>1, <2>4, <2>5 DEF SendRight, LetGo, One
  <2>7. StepFits(s)'
    BY <1>2, <1>4, <1>5, <2>1 DEF SendRight, StepFits
  <2> QED
    BY <1>2, <1>4, <1>5, <1>8, <2>1, <2>6, <2>7 DEF SendRight, LetGo
<1> QED
  BY <1>2, <1>5, <1>6, <1>7, <1>9, <1>10, OthersRight

LEMMA AnsweredRight ==
  ASSUME AgentAssumption, TypeOK, Outgoing, Answered, ~broken'
  PROVE  Outgoing' /\ Stay
<1>1. PICK s \in Sends : s = worker.s /\ s # None /\ worker.pc = "answering"
  BY DEF Answered, WorkerAt, TypeOK, WorkerTypes
<1>2. /\ entry[Id(s)] = s /\ ByManager(s) /\ SendRight(s)
      /\ info' = Removed(info, Id(s)) /\ Remove(Id(s))
      /\ UNCHANGED <<setting, thread, held, core, completed>>
  BY <1>1 DEF Answered, Outgoing, ByManager
<1>3. worker'.pc \notin Reporting /\ worker'.s = s /\ worker.pc \notin Reporting
  BY <1>1 DEF Answered, WorkerTo, Reporting, TypeOK, WorkerTypes
<1>4. \A u : /\ Kind(u)' = Kind(u) /\ Id(u)' = Id(u) /\ Turn(u)' = Turn(u)
             /\ Another(u)' = Another(u)
             /\ Owned(u)' = Owned(u) /\ HasInfo(u)' = HasInfo(u)
  BY <1>2, SettingStays
<1>5. Id(s) \in Sends
  BY SettingsRight DEF Settled
<1>6. HasInfo(s)
  BY <1>1, <1>2, <1>5 DEF Outgoing, EntriesById
<1>7. OneSender' /\ \A u \in Sends : Where(u)' = Where(u) /\ (Superseded(u)' <=> Superseded(u))
  BY <1>2, <1>4 DEF Outgoing, OneSender, Where, Sender, Superseded
<1>8. Stay
  <2>1. \A u \in Sends : ReportingAt(u, {"calling", "lower"})' <=> ReportingAt(u, {"calling", "lower"})
    BY <1>1, <1>3 DEF ReportingAt, Reporting
  <2> QED
    BY <1>2, <2>1, QuietStays
<1>9. ReportTrue'
  BY <1>3 DEF ReportTrue, Reporting
<1>10. /\ LetGo(s, One(ByManager(s))) /\ ~ByManager(s)'
       /\ \A u \in Sends : u # s => info'[u] = info[u] /\ (ByManager(u)' <=> ByManager(u))
       /\ EntriesById'
  BY <1>2, <1>5, LetGoByManager DEF Outgoing
<1>11. ASSUME NEW u \in Sends, u # s PROVE Same(u)
  BY <1>1, <1>2, <1>3, <1>7, <1>10, <1>11 DEF Same, ReportingAt
<1>12. SendRight(s)'
  <2>1. ~Caught(s)' /\ ~Caught(s) /\ (GivenUp(s)' <=> GivenUp(s))
    BY <1>2, <1>4, <1>7 DEF Caught, GivenUp, SendRight
  <2>2. /\ ByProgress(s)' <=> ByProgress(s)
        /\ ByProgram(s)' <=> ByProgram(s)
    BY <1>1, <1>2, <1>3, <1>4, <1>7 DEF ByProgress, ByProgram, ReportingAt
  <2>3. References(s) \in Nat
    BY DEF References, TypeOK, MessageTypes, Infos
  <2>4. References(s) = 1 + One(ByProgress(s)) + One(ByProgram(s))
    BY <1>2, <1>6, <2>1, <2>3 DEF SendRight, One
  <2>5. References(s)' + One(Caught(s))' = One(ByManager(s))' + One(ByProgress(s))' + One(ByProgram(s))'
    BY <1>2, <1>10, <2>1, <2>2, <2>4 DEF LetGo, One
  <2>6. StepFits(s)'
    BY <1>2, <1>4, <1>7, <2>1 DEF SendRight, StepFits
  <2> QED
    BY <1>2, <1>4, <1>7, <1>10, <2>1, <2>5, <2>6 DEF SendRight, LetGo
<1> QED
  BY <1>2, <1>7, <1>8, <1>9, <1>10, <1>11, <1>12, OthersRight

LEMMA ProgressRight ==
  ASSUME AgentAssumption, TypeOK, Outgoing, NEW s \in Sends, NEW how \in {"sent", "dropped"},
         Progress(s, how), ~broken'
  PROVE  Outgoing' /\ Stay
<1>1. /\ core[s] = "queued" /\ core' = [core EXCEPT ![s] = how]
      /\ worker.pc \in {"waiting", "stopped"}
      /\ HasInfo(s) => info[s] # None /\ (how = "dropped" => info[s].state = "posted")
      /\ UNCHANGED <<setting, thread, entry, held>>
  BY DEF Progress, WorkerAt
<1>2. SendRight(s)
  BY DEF Outgoing
<1>3. HasInfo(s) => info[s] # None /\ info[s].state = "posted"
  BY <1>1, <1>2 DEF SendRight, TypeOK, MessageTypes, Infos, Final
<1>4. PICK i \in Infos :
        /\ HasInfo(s) => /\ info' = [info EXCEPT ![s] = i] /\ i.refs = info[s].refs
                         /\ i.state = IF how = "sent" THEN "transmitted" ELSE "abandoned"
        /\ ~HasInfo(s) => info' = info
        /\ \A u \in Sends : u # s => completed'[u] = completed[u]
  <2> DEFINE state == IF how = "sent" THEN "transmitted" ELSE "abandoned"
             new == InState(info[s], state)
  <2>1. CASE HasInfo(s)
    <3>1. info' = [info EXCEPT ![s] = new]
      BY <1>3, <2>1 DEF Progress
    <3>2. info[s] \in Infos
      BY <1>3, <2>1 DEF TypeOK, MessageTypes
    <3>3. state \in {"transmitted"} \cup Final
      BY DEF Final
    <3> HIDE DEF state
    <3>4. new \in Infos /\ new.refs = info[s].refs /\ new.state = state
      BY <3>2, <3>3, InStateTypes
    <3>5. \A u \in Sends : u # s => completed'[u] = completed[u]
      BY <1>3, <2>1 DEF Progress, TypeOK, MessageTypes
    <3> HIDE DEF new
    <3> QED
      BY <2>1, <3>1, <3>4, <3>5 DEF state
  <2>2. CASE ~HasInfo(s)
    <3>1. info' = info /\ completed' = completed
      BY <2>2 DEF Progress
    <3> QED
      BY <2>2, <3>1, MadeTypes
  <2> QED
    BY <2>1, <2>2
<1>5. /\ worker'.pc \in {"calling", "lower"} /\ worker'.s = s /\ worker'.how = how
  <2> DEFINE pc == AfterProgress(how, (HasInfo(s) /\ info[s] # None /\ info[s].state = "posted") /\ Kind(s) = "callback")
  <2>1. worker' = [worker EXCEPT !.s = s, !.how = how, !.pc = pc]
    BY DEF Progress
  <2>2. pc \in {"calling", "lower"}
    BY DEF AfterProgress
  <2> HIDE DEF pc
  <2> QED
    BY <2>1, <2>2 DEF TypeOK, WorkerTypes
<1>6. \A u : /\ Kind(u)' = Kind(u) /\ Id(u)' = Id(u) /\ Turn(u)' = Turn(u)
             /\ Another(u)' = Another(u)
             /\ Owned(u)' = Owned(u) /\ HasInfo(u)' = HasInfo(u)
  BY <1>1, SettingStays
<1>7. core'[s] = how /\ \A u \in Sends : u # s => core'[u] = core[u]
  BY <1>1 DEF TypeOK, MessageTypes
<1>8. /\ OneSender' /\ EntriesById'
      /\ \A u \in Sends : Where(u)' = Where(u) /\ (ByManager(u)' <=> ByManager(u))
  BY <1>1, <1>6 DEF Outgoing, OneSender, Where, Sender, EntriesById, ByManager
<1>9. \A u \in Sends : Superseded(u)' <=> Superseded(u)
  BY <1>1, <1>6, <1>7 DEF Superseded
<1>10. ReportTrue'
  BY <1>5, <1>7 DEF ReportTrue
<1>11. ASSUME NEW u \in Sends, u # s PROVE Same(u)
  <2>1. info'[u] = info[u]
    BY <1>4, <1>11 DEF TypeOK, MessageTypes
  <2>2. ReportingAt(u, Reporting)' <=> ReportingAt(u, Reporting)
    BY <1>1, <1>5, <1>11 DEF ReportingAt, Reporting
  <2> QED
    BY <1>1, <1>4, <1>7, <1>8, <1>9, <1>11, <2>1, <2>2 DEF Same
<1>12. SendRight(s)'
  <2>1. s \in held => Owned(s) /\ Where(s) = "none"
    BY <1>2 DEF SendRight
  <2>2. ~Caught(s)' /\ ~Caught(s) /\ ~Superseded(s)
    BY <1>1, <1>2, <1>6, <1>7, <1>8 DEF Caught, GivenUp, SendRight
  <2>3. s \in held => ~GivenUp(s)'
    BY <1>1, <1>2, <1>6, <1>7 DEF GivenUp, SendRight
  <2>4. ByProgress(s)' /\ ByProgress(s) /\ (ByProgram(s)' <=> ByProgram(s))
    BY <1>1, <1>5, <1>6, <1>8 DEF ByProgress, ByProgram, ReportingAt, Reporting
  <2>5. HasInfo(s) => /\ info'[s] # None /\ References(s)' = References(s)
                      /\ info'[s].state = IF how = "sent" THEN "transmitted" ELSE "abandoned"
    BY <1>3, <1>4 DEF References, TypeOK, MessageTypes, AgentAssumption
  <2>6. HasInfo(s) =>
          References(s)' + One(Caught(s))' = One(ByManager(s))' + One(ByProgress(s))' + One(ByProgram(s))'
    BY <1>2, <1>8, <2>2, <2>4, <2>5 DEF SendRight, One
  <2>7. StepFits(s)'
    BY <1>1, <1>2, <1>6, <1>7, <1>8 DEF SendRight, StepFits, GivenUp
  <2>8. core'[s] \in {"sent", "dropped"} /\ Where(s)' \notin {"gate", "connect"}
    BY <1>1, <1>2, <1>7, <1>8 DEF SendRight, StepFits
  <2>9. info'[s] # None => /\ info'[s].state \in {"transmitted", "replied", "rejected"} => core'[s] = "sent"
                           /\ info'[s].state = "abandoned" => core'[s] = "dropped"
    <3>1. CASE HasInfo(s)
      BY <1>7, <2>5, <3>1
    <3>2. CASE ~HasInfo(s)
      <4>1. info'[s] = info[s] /\ (info[s] # None => info[s].state = "posted")
        BY <1>1, <1>2, <1>4, <3>2 DEF SendRight, TypeOK, MessageTypes, Infos, Final
      <4> QED
        BY <4>1
    <3> QED
      BY <3>1, <3>2
  <2>10. (Where(s) = "catch" /\ Owned(s)) \/ Where(s) \in {"lower", "reopen"} => ~ByManager(s)
    BY <1>2 DEF SendRight
  <2> QED
    BY <1>1, <1>6, <1>8, <1>9, <2>1, <2>2, <2>3, <2>6, <2>7, <2>8, <2>9, <2>10 DEF SendRight
<1>13. Stay
  <2>1. \A u \in Sends : u # s => (Underway(u)' <=> Underway(u))
    BY <1>1, <1>5, <1>7, <1>8 DEF Underway, ReportingAt
  <2>2. Underway(s)' /\ Underway(s)
    BY <1>1, <1>5 DEF Underway, ReportingAt
  <2> QED
    BY <2>1, <2>2 DEF Stay
<1> QED
  BY <1>1, <1>8, <1>10, <1>11, <1>12, <1>13, OthersRight

(* A reply is to the message itself, and its info is there.                *)
LEMMA ReplyFinds ==
  ASSUME AgentAssumption, TypeOK, Outgoing, NEW s \in Sends, core[s] = "sent"
  PROVE  /\ Id(s) \in Sends /\ entry[Id(s)] \in {s, None}
         /\ entry[Id(s)] = s => info[s] # None /\ HasInfo(s) /\ ~Caught(s)
<1>1. SendRight(s) /\ ~Superseded(s)
  BY DEF Outgoing, SendRight, GivenUp
<1>2. Id(s) \in Sends /\ entry[Id(s)] \in {s, None}
  BY <1>1, OneOfGroup
<1>3. ASSUME entry[Id(s)] = s PROVE info[s] # None /\ HasInfo(s) /\ ~Caught(s)
  <2>1. HasInfo(s)
    BY <1>2, <1>3 DEF Outgoing, EntriesById, AgentAssumption
  <2>2. ~Caught(s)
    BY DEF Caught, GivenUp
  <2>3. References(s) # 0
    <3>1. ByManager(s) /\ References(s) \in Nat
      BY <1>3 DEF ByManager, References, TypeOK, MessageTypes, Infos
    <3>2. References(s) = 1 + One(ByProgress(s)) + One(ByProgram(s))
      BY <1>1, <2>1, <2>2, <3>1 DEF SendRight, One
    <3> QED
      BY <3>2 DEF One
  <2> QED
    BY <2>1, <2>2, <2>3 DEF References
<1> QED
  BY <1>2, <1>3

LEMMA ReplyRight ==
  ASSUME AgentAssumption, TypeOK, Outgoing, NEW s \in Sends, NEW how \in {"replied", "rejected"},
         Reply(s, how)
  PROVE  Outgoing' /\ Stay
<1>1. /\ core[s] = "sent" /\ worker.pc = "waiting" /\ UNCHANGED <<setting, thread, held, core>>
      /\ SendRight(s)
  BY DEF Reply, WorkerAt, Outgoing
<1>2. /\ Id(s) \in Sends /\ entry[Id(s)] \in {s, None}
      /\ entry[Id(s)] = s => info[s] # None /\ HasInfo(s) /\ ~Caught(s)
  BY <1>1, ReplyFinds
<1>3. \A u : /\ Kind(u)' = Kind(u) /\ Id(u)' = Id(u) /\ Turn(u)' = Turn(u)
             /\ Another(u)' = Another(u)
             /\ Owned(u)' = Owned(u) /\ HasInfo(u)' = HasInfo(u)
  BY <1>1, SettingStays
<1>4. OneSender' /\ \A u \in Sends : Where(u)' = Where(u) /\ (Superseded(u)' <=> Superseded(u))
  BY <1>1, <1>3 DEF Outgoing, OneSender, Where, Sender, Superseded
<1>5. worker'.pc \in {"check", "answering"}
  BY DEF Reply, WorkerTo, TypeOK, WorkerTypes
<1>6. /\ ReportTrue'
      /\ \A u \in Sends : /\ ~ReportingAt(u, Reporting)' /\ ~ReportingAt(u, Reporting)
                          /\ ~ReportingAt(u, {"calling", "lower"})' /\ ~ReportingAt(u, {"calling", "lower"})
  BY <1>1, <1>5 DEF ReportTrue, ReportingAt, Reporting
<1>7. Stay
  BY <1>1, <1>6, QuietStays
<1>8. CASE entry[Id(s)] = None \/ ~MayComplete(info[entry[Id(s)]])
  <2>1. UNCHANGED <<info, entry, completed>>
    BY <1>8 DEF Reply
  <2>2. EntriesById' /\ \A u \in Sends : ByManager(u)' <=> ByManager(u)
    BY <1>3, <2>1 DEF Outgoing, EntriesById, ByManager
  <2>3. \A u \in Sends : Same(u)
    BY <1>1, <1>4, <1>6, <2>1, <2>2 DEF Same
  <2> QED
    BY <1>1, <1>4, <1>6, <1>7, <2>2, <2>3, OthersRight
<1>9. CASE entry[Id(s)] = s /\ MayComplete(info[s])
  <2> DEFINE new == InState(info[s], how)
             answered == [info EXCEPT ![s] = new]
  <2>1. s # None /\ info \in [Sends -> Infos \cup {None}] /\ info[s] \in Infos
    BY <1>2, <1>9 DEF AgentAssumption, TypeOK, MessageTypes
  <2>2. new \in Infos /\ new.refs = info[s].refs /\ new.state = how
    BY <2>1, InStateTypes DEF Final
  <2>3. /\ completed' = [completed EXCEPT ![s] = Append(completed[s], how)]
        /\ \/ Kind(s) = "callback" /\ info' = answered /\ UNCHANGED entry
           \/ info' = Removed(answered, Id(s)) /\ Remove(Id(s))
    BY <1>9, <2>1 DEF Reply
  <2>4. \A u \in Sends : u # s => completed'[u] = completed[u]
    BY <2>3 DEF TypeOK, MessageTypes
  <2> HIDE DEF new
  <2>5. /\ answered \in [Sends -> Infos \cup {None}] /\ answered[s] = new
        /\ \A u \in Sends : u # s => answered[u] = info[u]
    BY <2>1, <2>2
  <2>6. ByManager(s) /\ References(s) = info[s].refs /\ References(s) \in Nat \ {0}
    BY <1>2, <1>9, <2>1 DEF ByManager, References, Infos
  <2>7. /\ References(s)' = References(s) + One(ByManager(s))' - 1
        /\ info'[s] # None => info'[s].state = how
        /\ \A u \in Sends : u # s => info'[u] = info[u] /\ (ByManager(u)' <=> ByManager(u))
        /\ EntriesById'
    <3>1. CASE info' = answered /\ UNCHANGED entry
      <4>1. EntriesById' /\ \A u \in Sends : ByManager(u)' <=> ByManager(u)
        BY <1>3, <3>1 DEF Outgoing, EntriesById, ByManager
      <4>2. info'[s] = new /\ new # None /\ \A u \in Sends : u # s => info'[u] = info[u]
        BY <2>2, <2>5, <3>1 DEF AgentAssumption
      <4>3. References(s)' = References(s)
        BY <2>2, <2>6, <4>2 DEF References
      <4> QED
        BY <2>2, <2>6, <4>1, <4>2, <4>3 DEF One
    <3>2. CASE info' = Removed(answered, Id(s)) /\ Remove(Id(s))
      <4>1. info' = DecRef(answered, s)
        BY <1>9, <2>1, <3>2 DEF Removed
      <4>2. /\ entry'[Id(s)] = None
            /\ \A i \in Sends : entry'[i] = entry[i] \/ (i = Id(s) /\ entry'[i] = None)
        BY <1>2, <3>2 DEF Remove, TypeOK, MessageTypes
      <4>3. \A u \in Sends : Id(u) \in Sends
        BY SettingsRight DEF Settled
      <4>4. ~ByManager(s)' /\ \A u \in Sends : u # s => (ByManager(u)' <=> ByManager(u))
        BY <1>3, <1>9, <2>1, <4>2, <4>3 DEF ByManager, AgentAssumption
      <4>5. EntriesById'
        BY <1>3, <4>2 DEF Outgoing, EntriesById
      <4> HIDE DEF answered
      <4>6. /\ \A u \in Sends : u # s => info'[u] = answered[u]
            /\ answered[s] # None /\ answered[s].refs = 1 => info'[s] = None
            /\ answered[s] # None /\ answered[s].refs # 1 =>
                 /\ info'[s] # None /\ info'[s].refs = answered[s].refs - 1
                 /\ info'[s].state = answered[s].state
        BY <2>5, <4>1, Released
      <4>7. new # None
        BY <2>2 DEF AgentAssumption
      <4>8. References(s)' = References(s) - 1 /\ (info'[s] # None => info'[s].state = how)
        BY <2>2, <2>5, <2>6, <4>6, <4>7 DEF References
      <4> QED
        BY <2>5, <2>6, <4>4, <4>5, <4>6, <4>8 DEF One
    <3> QED
      BY <2>3, <3>1, <3>2
  <2>8. ASSUME NEW u \in Sends, u # s PROVE Same(u)
    BY <1>1, <1>4, <1>6, <2>4, <2>7, <2>8 DEF Same
  <2>9. SendRight(s)'
    <3>1. ~Caught(s)' /\ ~Caught(s) /\ ~GivenUp(s)'
      BY <1>1 DEF Caught, GivenUp
    <3>2. /\ ByProgress(s)' <=> ByProgress(s)
          /\ ByProgram(s)' <=> ByProgram(s)
      BY <1>1, <1>3, <1>4, <1>6 DEF ByProgress, ByProgram
    <3>3. References(s) = 1 + One(ByProgress(s)) + One(ByProgram(s))
      BY <1>1, <1>2, <1>9, <2>6, <3>1 DEF SendRight, One
    <3>4. References(s)' + One(Caught(s))' = One(ByManager(s))' + One(ByProgress(s))' + One(ByProgram(s))'
      BY <2>7, <3>1, <3>2, <3>3 DEF One
    <3>5. StepFits(s)'
      BY <1>1, <1>3, <1>4, <3>1 DEF SendRight, StepFits, GivenUp
    <3>6. ~((Where(s) = "catch" /\ Owned(s)) \/ Where(s) \in {"lower", "reopen", "gate", "connect"})
      BY <1>1, <2>6 DEF SendRight, StepFits
    <3>7. ~Superseded(s)
      BY <1>1 DEF SendRight, GivenUp
    <3>8. s \in held => Owned(s) /\ Where(s) = "none"
      BY <1>1 DEF SendRight
    <3> QED
      BY <1>1, <1>3, <1>4, <2>7, <3>1, <3>4, <3>5, <3>6, <3>7, <3>8 DEF SendRight
  <2> QED
    BY <1>1, <1>4, <1>6, <1>7, <2>7, <2>8, <2>9, OthersRight
<1> QED
  BY <1>2, <1>8, <1>9

-----------------------------------------------------------------------------
(* The destructor.                                                         *)

LEMMA CleanedRight ==
  ASSUME AgentAssumption, TypeOK, Outgoing, Cleaned
  PROVE  Outgoing' /\ Stay
<1>1. /\ UNCHANGED <<setting, thread, held, core, completed, worker>>
      /\ info' = [s \in Sends |-> IF entry[Id(s)] = s THEN DecRef(info, s)[s] ELSE info[s]]
      /\ entry' = [s \in Sends |-> None]
  BY DEF Cleaned
<1>2. \A u : /\ Kind(u)' = Kind(u) /\ Id(u)' = Id(u) /\ Turn(u)' = Turn(u)
             /\ Another(u)' = Another(u)
             /\ Owned(u)' = Owned(u) /\ HasInfo(u)' = HasInfo(u)
  BY <1>1, SettingStays
<1>3. OneSender' /\ \A u \in Sends : Where(u)' = Where(u) /\ (Superseded(u)' <=> Superseded(u))
  BY <1>1, <1>2 DEF Outgoing, OneSender, Where, Sender, Superseded
<1>4. /\ \A u \in Sends : ReportingAt(u, Reporting)' <=> ReportingAt(u, Reporting)
      /\ \A u \in Sends : ReportingAt(u, {"calling", "lower"})' <=> ReportingAt(u, {"calling", "lower"})
  BY <1>1 DEF ReportingAt
<1>5. Stay
  BY <1>1, <1>4, QuietStays
<1>6. ReportTrue' /\ EntriesById'
  BY <1>1, <1>2 DEF Outgoing, ReportTrue, EntriesById
<1>7. \A s \in Sends : ~ByManager(s)'
  <2>1. \A s \in Sends : Id(s) \in Sends /\ s # None
    BY SettingsRight DEF Settled, AgentAssumption
  <2> QED
    BY <1>1, <1>2, <2>1 DEF ByManager
<1>8. ASSUME NEW s \in Sends PROVE LetGo(s, One(ByManager(s)))
  <2>1. CASE ByManager(s)
    <3>1. info'[s] = DecRef(info, s)[s]
      BY <1>1, <2>1 DEF ByManager
    <3>2. LetGo(s, 1)
      BY <3>1, LetGoOnce
    <3> QED
      BY <2>1, <3>2 DEF One
  <2>2. CASE ~ByManager(s)
    <3>1. info'[s] = info[s] /\ References(s) \in Nat
      BY <1>1, <2>2 DEF ByManager, References, TypeOK, MessageTypes, Infos
    <3> QED
      BY <2>2, <3>1 DEF LetGo, References, One
  <2> QED
    BY <2>1, <2>2
<1>9. ASSUME NEW s \in Sends PROVE SendRight(s)'
  <2>1. SendRight(s)
    BY DEF Outgoing
  <2>2. (Caught(s)' <=> Caught(s)) /\ (GivenUp(s)' <=> GivenUp(s))
    BY <1>1, <1>2, <1>3 DEF Caught, GivenUp
  <2>3. /\ ByProgress(s)' <=> ByProgress(s)
        /\ ByProgram(s)' <=> ByProgram(s)
    BY <1>1, <1>2, <1>3, <1>4 DEF ByProgress, ByProgram
  <2>4. References(s) \in Nat
    BY DEF References, TypeOK, MessageTypes, Infos
  <2>5. Caught(s) => ~ByManager(s)
    BY <2>1 DEF SendRight
  <2>6. HasInfo(s) =>
          References(s)' + One(Caught(s))' = One(ByManager(s))' + One(ByProgress(s))' + One(ByProgram(s))'
    BY <1>7, <1>8, <2>1, <2>2, <2>3, <2>4, <2>5 DEF SendRight, LetGo, One
  <2>7. StepFits(s)'
    BY <1>1, <1>2, <1>3, <2>1, <2>2 DEF SendRight, StepFits
  <2> QED
    BY <1>1, <1>2, <1>3, <1>7, <1>8, <2>1, <2>2, <2>6, <2>7 DEF SendRight, LetGo
<1> QED
  BY <1>1, <1>3, <1>5, <1>6, <1>9, OthersRight

-----------------------------------------------------------------------------
(* What is completed is completed once.                                    *)

(* Infos are let go, and those that stay have not changed.                 *)
Kept(i, j) ==
  \A u \in Sends : j[u] # None => /\ i[u] # None /\ j[u].state = i[u].state
                                  /\ j[u].done = i[u].done /\ j[u].transmitted = i[u].transmitted

LEMMA KeptByRelease ==
  ASSUME AgentAssumption, TypeOK, NEW i \in [Sends -> Infos \cup {None}], NEW s \in Sends
  PROVE  /\ Kept(i, DecRef(i, s)) /\ DecRef(i, s) \in [Sends -> Infos \cup {None}]
         /\ Kept(i, Removed(i, s)) /\ Removed(i, s) \in [Sends -> Infos \cup {None}]
<1>1. ASSUME NEW t \in Sends PROVE Kept(i, DecRef(i, t)) /\ DecRef(i, t) \in [Sends -> Infos \cup {None}]
  BY Released DEF Kept
<1>2. CASE entry[s] = None
  BY <1>1, <1>2 DEF Removed, Kept
<1>3. CASE entry[s] # None
  <2>1. entry[s] \in Sends /\ Removed(i, s) = DecRef(i, entry[s])
    BY <1>3 DEF Removed, TypeOK, MessageTypes
  <2> QED
    BY <1>1, <2>1
<1> QED
  BY <1>2, <1>3

LEMMA CompletedKept ==
  ASSUME CompletedOnce, completed' = completed, Kept(info, info')
  PROVE  CompletedOnce'
BY DEF CompletedOnce, Kept

(* The steps that let infos go.                                            *)
LEMMA CompletedLetGo ==
  ASSUME AgentAssumption, TypeOK, CompletedOnce, completed' = completed, NEW s \in Sends,
         \/ info' = info
         \/ info' = DecRef(Removed(info, Id(s)), s)
         \/ info' = Removed(DecRef(info, s), Id(s))
         \/ info' = Removed(info, Id(s))
         \/ info' = DecRef(info, s)
  PROVE  CompletedOnce'
<1>1. Id(s) \in Sends /\ info \in [Sends -> Infos \cup {None}]
  BY SettingsRight DEF Settled, TypeOK, MessageTypes
<1>2. CASE info' = info
  BY <1>2, CompletedKept DEF Kept
<1>3. CASE info' = DecRef(Removed(info, Id(s)), s)
  <2> DEFINE i == Removed(info, Id(s))
  <2>1. Kept(info, i) /\ i \in [Sends -> Infos \cup {None}]
    BY <1>1, KeptByRelease
  <2>2. info' = DecRef(i, s)
    BY <1>3
  <2> HIDE DEF i
  <2>3. Kept(i, info')
    BY <2>1, <2>2, KeptByRelease
  <2>4. Kept(info, info')
    BY <2>1, <2>3 DEF Kept
  <2> QED
    BY <2>4, CompletedKept
<1>4. CASE info' = Removed(DecRef(info, s), Id(s))
  <2> DEFINE i == DecRef(info, s)
  <2>1. Kept(info, i) /\ i \in [Sends -> Infos \cup {None}]
    BY <1>1, KeptByRelease
  <2>2. info' = Removed(i, Id(s))
    BY <1>4
  <2> HIDE DEF i
  <2>3. Kept(i, info')
    BY <1>1, <2>1, <2>2, KeptByRelease
  <2>4. Kept(info, info')
    BY <2>1, <2>3 DEF Kept
  <2> QED
    BY <2>4, CompletedKept
<1>5. CASE info' = Removed(info, Id(s)) \/ info' = DecRef(info, s)
  <2>1. Kept(info, info')
    BY <1>1, <1>5, KeptByRelease
  <2> QED
    BY <2>1, CompletedKept
<1> QED
  BY <1>2, <1>3, <1>4, <1>5

CompletedAt(s) ==
  /\ Len(completed[s]) <= 1
  /\ info[s] # None => /\ info[s].done <=> (completed[s] # <<>>)
                       /\ info[s].done => info[s].state = completed[s][1]
                       /\ info[s].transmitted <=> info[s].state # "posted"

LEMMA CompletedPrepared ==
  ASSUME AgentAssumption, TypeOK, CompletedOnce, Outgoing, NEW c \in Threads, Prepare(c)
  PROVE  CompletedOnce'
<1>1. PICK s \in Sends : thread[c].s = s /\ Where(s) = "connect" /\ SendRight(s)
  BY ThreadAt DEF Prepare, Steps
<1>2. completed[s] = <<>> /\ completed' = completed
  BY <1>1 DEF SendRight, Prepare
<1>3. CASE HasInfo(s)
  <2>1. info' = [info EXCEPT ![s] = NewInfo(s)]
    BY <1>1, <1>3 DEF Prepare
  <2>2. info'[s] = NewInfo(s) /\ \A u \in Sends : u # s => info'[u] = info[u]
    BY <2>1 DEF TypeOK, MessageTypes
  <2>3. NewInfo(s).state = "posted" /\ NewInfo(s).done = FALSE /\ NewInfo(s).transmitted = FALSE
    BY DEF NewInfo
  <2>4. ASSUME NEW u \in Sends, u # s PROVE CompletedAt(u)'
    BY <1>2, <2>2, <2>4 DEF CompletedOnce, CompletedAt
  <2>5. CompletedAt(s)'
    BY <1>2, <2>2, <2>3 DEF CompletedAt
  <2> QED
    BY <2>4, <2>5 DEF CompletedOnce, CompletedAt
<1>4. CASE ~HasInfo(s)
  <2>1. info' = info
    BY <1>1, <1>4 DEF Prepare
  <2> QED
    BY <1>2, <2>1 DEF CompletedOnce
<1> QED
  BY <1>3, <1>4

(* A message in a state that is not final has not been completed.          *)
LEMMA NotCompleted ==
  ASSUME AgentAssumption, TypeOK, CompletedOnce, NEW s \in Sends, info[s] # None, MayComplete(info[s])
  PROVE  completed[s] = <<>>
BY CompletedState DEF CompletedOnce, MayComplete, Final

LEMMA CompletedInState ==
  ASSUME AgentAssumption, TypeOK, CompletedOnce, NEW s \in Sends, info[s] # None, MayComplete(info[s]),
         NEW state \in {"transmitted"} \cup Final,
         completed' = [completed EXCEPT ![s] =
                         IF state \in Final THEN Append(completed[s], state) ELSE completed[s]],
         NEW i \in [Sends -> Infos \cup {None}], i = [info EXCEPT ![s] = InState(info[s], state)],
         Kept(i, info')
  PROVE  CompletedOnce'
<1> DEFINE new == InState(info[s], state)
<1>1. completed[s] = <<>> /\ completed \in [Sends -> Seq(Final)] /\ info \in [Sends -> Infos \cup {None}]
  BY NotCompleted DEF TypeOK, MessageTypes
<1>2. /\ new.state = state /\ new.transmitted /\ (new.done <=> state \in Final)
      /\ state # "posted"
  BY <1>1, InStateTypes DEF Final
<1> HIDE DEF new
<1>3. i[s] = new /\ \A u \in Sends : u # s => i[u] = info[u]
  BY <1>1 DEF new
<1>4. /\ \A u \in Sends : u # s => completed'[u] = completed[u]
      /\ completed'[s] = IF state \in Final THEN <<state>> ELSE <<>>
  BY <1>1
<1>5. ASSUME NEW u \in Sends, u # s PROVE CompletedAt(u)'
  BY <1>3, <1>4, <1>5 DEF CompletedOnce, CompletedAt, Kept
<1>6. CompletedAt(s)'
  <2>1. info'[s] # None =>
          info'[s].state = state /\ info'[s].transmitted = new.transmitted /\ info'[s].done = new.done
    BY <1>2, <1>3 DEF Kept
  <2>2. CASE state \in Final
    <3>1. completed'[s] = <<state>>
      BY <1>4, <2>2
    <3>2. Len(completed'[s]) <= 1 /\ completed'[s] # <<>> /\ completed'[s][1] = state
      <4> DEFINE once == <<state>>
      <4>1. Len(once) <= 1 /\ once # <<>> /\ once[1] = state
        OBVIOUS
      <4>2. completed'[s] = once
        BY <3>1
      <4> HIDE DEF once
      <4> QED
        BY <4>1, <4>2
    <3>3. info'[s] # None =>
            info'[s].done /\ info'[s].state = state /\ info'[s].transmitted /\ state # "posted"
      BY <1>2, <2>1, <2>2
    <3> QED
      BY <3>2, <3>3 DEF CompletedAt
  <2>3. CASE state \notin Final
    <3>1. completed'[s] = <<>>
      BY <1>4, <2>3
    <3>2. Len(completed'[s]) <= 1
      BY <3>1
    <3>3. info'[s] # None =>
            ~info'[s].done /\ info'[s].state = state /\ info'[s].transmitted /\ state # "posted"
      BY <1>2, <2>1, <2>3
    <3> QED
      BY <3>1, <3>2, <3>3 DEF CompletedAt
  <2> QED
    BY <2>2, <2>3
<1> QED
  BY <1>5, <1>6 DEF CompletedOnce, CompletedAt

LEMMA CompletedProgress ==
  ASSUME AgentAssumption, TypeOK, CompletedOnce, NEW s \in Sends, NEW how \in {"sent", "dropped"},
         Progress(s, how)
  PROVE  CompletedOnce'
<1> DEFINE state == IF how = "sent" THEN "transmitted" ELSE "abandoned"
           changes == HasInfo(s) /\ info[s] # None /\ info[s].state = "posted"
           i == [info EXCEPT ![s] = InState(info[s], state)]
<1>1. CASE changes
  <2>1. /\ info' = i
        /\ completed' = [completed EXCEPT ![s] = IF how = "dropped" THEN Append(completed[s], state) ELSE completed[s]]
    BY <1>1 DEF Progress
  <2>2. state \in {"transmitted"} \cup Final /\ (how = "dropped" <=> state \in Final)
    BY DEF Final
  <2>3. i \in [Sends -> Infos \cup {None}]
    <3>1. info \in [Sends -> Infos \cup {None}] /\ info[s] \in Infos
      BY <1>1 DEF TypeOK, MessageTypes
    <3>2. InState(info[s], state) \in Infos
      BY <2>2, <3>1, InStateTypes
    <3> QED
      BY <3>1, <3>2
  <2>4. Kept(i, info')
    BY <2>1 DEF Kept
  <2>5. MayComplete(info[s]) /\ info[s] # None
    BY <1>1 DEF MayComplete
  <2>6. completed' = [completed EXCEPT ![s] = IF state \in Final THEN Append(completed[s], state) ELSE completed[s]]
    BY <2>1, <2>2
  <2>7. i = [info EXCEPT ![s] = InState(info[s], state)]
    OBVIOUS
  <2> HIDE DEF state, i
  <2> QED
    BY <2>2, <2>3, <2>4, <2>5, <2>6, <2>7, CompletedInState
<1>2. CASE ~changes
  <2>1. UNCHANGED <<info, completed>>
    BY <1>2 DEF Progress
  <2> QED
    BY <2>1 DEF CompletedOnce
<1> QED
  BY <1>1, <1>2

LEMMA CompletedReply ==
  ASSUME AgentAssumption, TypeOK, CompletedOnce, Outgoing, NEW s \in Sends,
         NEW how \in {"replied", "rejected"}, Reply(s, how)
  PROVE  CompletedOnce'
<1>1. /\ Id(s) \in Sends /\ entry[Id(s)] \in {s, None}
      /\ entry[Id(s)] = s => info[s] # None
  BY ReplyFinds DEF Reply
<1>2. CASE entry[Id(s)] = None \/ ~MayComplete(info[entry[Id(s)]])
  <2>1. UNCHANGED <<info, completed>>
    BY <1>2 DEF Reply
  <2> QED
    BY <2>1 DEF CompletedOnce
<1>3. CASE entry[Id(s)] = s /\ MayComplete(info[s])
  <2> DEFINE i == [info EXCEPT ![s] = InState(info[s], how)]
  <2>1. s # None /\ info \in [Sends -> Infos \cup {None}] /\ info[s] \in Infos /\ how \in Final
    BY <1>1, <1>3 DEF AgentAssumption, TypeOK, MessageTypes, Final
  <2>2. /\ completed' = [completed EXCEPT ![s] = Append(completed[s], how)]
        /\ info' = i \/ info' = Removed(i, Id(s))
    BY <1>3, <2>1 DEF Reply
  <2>3. i \in [Sends -> Infos \cup {None}] /\ i = [info EXCEPT ![s] = InState(info[s], how)]
    <3>1. InState(info[s], how) \in Infos
      BY <2>1, InStateTypes
    <3> QED
      BY <2>1, <3>1
  <2> HIDE DEF i
  <2>4. Kept(i, info')
    <3>1. Kept(i, i) /\ Kept(i, Removed(i, Id(s)))
      BY <1>1, <2>3, KeptByRelease DEF Kept
    <3> QED
      BY <2>2, <3>1
  <2>5. completed' = [completed EXCEPT ![s] = IF how \in Final THEN Append(completed[s], how) ELSE completed[s]]
    BY <2>1, <2>2
  <2> QED
    BY <1>1, <1>3, <2>1, <2>3, <2>4, <2>5, CompletedInState
<1> QED
  BY <1>1, <1>2, <1>3

LEMMA CompletedCleaned ==
  ASSUME AgentAssumption, TypeOK, CompletedOnce, Cleaned
  PROVE  CompletedOnce'
<1>1. /\ info' = [s \in Sends |-> IF entry[Id(s)] = s THEN DecRef(info, s)[s] ELSE info[s]]
      /\ completed' = completed
  BY DEF Cleaned
<1>2. info \in [Sends -> Infos \cup {None}]
  BY DEF TypeOK, MessageTypes
<1>3. \A s \in Sends : Kept(info, DecRef(info, s))
  BY <1>2, KeptByRelease
<1>4. Kept(info, info')
  BY <1>1, <1>3 DEF Kept
<1> QED
  BY <1>1, <1>4, CompletedKept

LEMMA CompletedStep ==
  ASSUME AgentAssumption, TypeOK, CompletedOnce, Outgoing, Next
  PROVE  CompletedOnce'
<1> USE DEF outVars
<1>1. ASSUME NEW c \in Threads, NEW s \in Sends, Call(c, s) PROVE CompletedOnce'
  BY <1>1, CompletedLetGo DEF Call
<1>2. ASSUME NEW c \in Threads, SendStep(c) PROVE CompletedOnce'
  <2>1. ASSUME Prepare(c) PROVE CompletedOnce'
    BY <2>1, CompletedPrepared
  <2>2. ASSUME PassGate(c) \/ ConnectFails(c) \/ Increase(c) \/ Suppress(c) \/ Post(c) \/ PostFails(c)
               \/ Lower(c) \/ Reopen(c)
        PROVE  CompletedOnce'
    <3>1. UNCHANGED <<info, completed>>
      BY <2>2 DEF PassGate, ConnectFails, Increase, Suppress, Post, PostFails, Lower, Reopen
    <3> QED
      BY <3>1 DEF CompletedOnce
  <2>3. ASSUME Awaited(c) \/ Unwind(c) \/ Catch(c) PROVE CompletedOnce'
    <3>1. PICK s \in Sends : s = thread[c].s
      BY <2>3, AtMessage DEF Awaited, Unwind, Catch, Steps
    <3>2. /\ completed' = completed
          /\ \/ info' = info
             \/ info' = DecRef(Removed(info, Id(s)), s)
             \/ info' = Removed(DecRef(info, s), Id(s))
      BY <2>3, <3>1 DEF Awaited, Unwind, Catch
    <3> QED
      BY <3>2, CompletedLetGo
  <2> QED
    BY <1>2, <2>1, <2>2, <2>3 DEF SendStep
<1>3. ASSUME NEW s \in Sends, Drop(s) PROVE CompletedOnce'
  BY <1>3, CompletedLetGo DEF Drop
<1>4. ASSUME Tidy \/ Release \/ Answered PROVE CompletedOnce'
  <2>1. PICK s \in Sends : s = worker.s
    BY <1>4 DEF Tidy, Release, Answered, WorkerAt, TypeOK, WorkerTypes
  <2>2. /\ completed' = completed
        /\ \/ info' = info
           \/ info' = Removed(info, Id(s))
           \/ info' = DecRef(info, s)
    BY <1>4, <2>1 DEF Tidy, Release, Answered
  <2> QED
    BY <2>2, CompletedLetGo
<1>5. ASSUME \/ Receive \/ TimedOut \/ Read \/ Interrupted \/ Check \/ Called \/ LowerByWorker
             \/ ReopenByWorker \/ Shut \/ Push
             \/ \E d \in Dispatchers : DispatcherStep(d)
             \/ RequestStop \/ TerminateDispatchers \/ BeginCleaning
      PROVE  CompletedOnce'
  <2>1. UNCHANGED <<info, completed>>
    <3>1. ASSUME NEW d \in Dispatchers, DispatcherStep(d) PROVE UNCHANGED <<info, completed>>
      BY <3>1 DEF DispatcherStep, Pop, Dispatched, LowerIn, Allow, Interrupt
    <3> QED
      BY <1>5, <3>1 DEF Receive, TimedOut, Read, Interrupted, Check, Called, LowerByWorker,
                        ReopenByWorker, Shut, Push, RequestStop, TerminateDispatchers, BeginCleaning
  <2> QED
    BY <2>1 DEF CompletedOnce
<1> QED
  BY <1>1, <1>2, <1>3, <1>4, <1>5, CompletedProgress, CompletedReply, CompletedCleaned
     DEF Next, WorkerStep, Report, Stop

-----------------------------------------------------------------------------
(* All the steps.                                                          *)

LEMMA OutgoingStep ==
  ASSUME AgentAssumption, TypeOK, CompletedOnce, Outgoing, Next, ~broken, ~broken'
  PROVE  /\ Outgoing'
         /\ \/ Stay /\ level' = level
            \/ (\E s \in Sends : Joins(s)) /\ level' = level + 1
            \/ (~FailoverDropped => \E s \in Sends : Leaves(s)) /\ level' = level - 1
<1> DEFINE Goal == /\ Outgoing'
                   /\ \/ Stay /\ level' = level
                      \/ (\E s \in Sends : Joins(s)) /\ level' = level + 1
                      \/ (~FailoverDropped => \E s \in Sends : Leaves(s)) /\ level' = level - 1
<1> USE DEF flowVars
<1>1. ASSUME NEW c \in Threads, NEW s \in Sends, Call(c, s) PROVE Goal
  BY <1>1, CallRight DEF Call
<1>2. ASSUME NEW c \in Threads, SendStep(c) PROVE Goal
  <2>1. ASSUME PassGate(c) \/ Suppress(c) PROVE Goal
    <3>1. ~Increase(c) /\ level' = level
      BY <2>1 DEF PassGate, Suppress, Increase, At
    <3> QED
      BY <2>1, <3>1, PassGateRight
  <2>2. ASSUME Increase(c) PROVE Goal
    <3>1. level' = level + 1
      BY <2>2 DEF Increase
    <3> QED
      BY <2>2, <3>1, PassGateRight
  <2>3. ASSUME ConnectFails(c) \/ Reopen(c) PROVE Goal
    <3>1. level' = level
      BY <2>3 DEF ConnectFails, Reopen
    <3> QED
      BY <2>3, <3>1, ConnectFailsRight
  <2>4. ASSUME Prepare(c) PROVE Goal
    BY <2>4, PrepareRight DEF Prepare
  <2>5. ASSUME Post(c) \/ PostFails(c) PROVE Goal
    <3>1. level' = level
      BY <2>5 DEF Post, PostFails
    <3> QED
      BY <2>5, <3>1, PostRight
  <2>6. ASSUME Awaited(c) PROVE Goal
    <3>1. level' = level
      BY <2>6 DEF Awaited
    <3> QED
      BY <2>6, <3>1, AwaitedRight
  <2>7. ASSUME Unwind(c) PROVE Goal
    BY <2>7, UnwindRight DEF Unwind
  <2>8. ASSUME Catch(c) PROVE Goal
    <3>1. level' = level
      BY <2>8 DEF Catch
    <3> QED
      BY <2>8, <3>1, CatchRight
  <2>9. ASSUME Lower(c) PROVE Goal
    <3>1. level' = level - 1
      BY <2>9 DEF Lower
    <3> QED
      BY <2>9, <3>1, LowerRight
  <2> QED
    BY <1>2, <2>1, <2>2, <2>3, <2>4, <2>5, <2>6, <2>7, <2>8, <2>9 DEF SendStep
<1>3. ASSUME NEW s \in Sends, Drop(s) PROVE Goal
  BY <1>3, DropRight DEF Drop
<1>4. ASSUME NEW s \in Sends, NEW how \in {"sent", "dropped"}, Progress(s, how) PROVE Goal
  <2>1. level' = level
    BY <1>4 DEF Progress
  <2> QED
    BY <1>4, <2>1, ProgressRight
<1>5. ASSUME NEW s \in Sends, NEW how \in {"replied", "rejected"}, Reply(s, how) PROVE Goal
  <2>1. level' = level
    BY <1>5 DEF Reply
  <2> QED
    BY <1>5, <2>1, ReplyRight
<1>6. ASSUME Receive \/ TimedOut \/ Read \/ Interrupted \/ Check \/ Shut \/ Push PROVE Goal
  <2>1. level' = level
    BY <1>6 DEF Receive, TimedOut, Read, Interrupted, Check, Shut, Push
  <2> QED
    BY <1>6, <2>1, ElsewhereRight
<1>7. ASSUME Report PROVE Goal
  <2>1. ASSUME Called \/ ReopenByWorker PROVE Goal
    <3>1. level' = level /\ ~LowerByWorker
      BY <2>1 DEF Called, ReopenByWorker, LowerByWorker, WorkerAt
    <3> QED
      BY <2>1, <3>1, LowerByWorkerRight
  <2>2. ASSUME LowerByWorker PROVE Goal
    <3>1. level' = level - 1
      BY <2>2 DEF LowerByWorker
    <3> QED
      BY <2>2, <3>1, LowerByWorkerRight
  <2>3. ASSUME Tidy PROVE Goal
    <3>1. level' = level
      BY <2>3 DEF Tidy
    <3> QED
      BY <2>3, <3>1, TidyRight
  <2>4. ASSUME Release PROVE Goal
    BY <2>4, ReleaseRight DEF Release
  <2>5. ASSUME Answered PROVE Goal
    BY <2>5, AnsweredRight DEF Answered
  <2> QED
    BY <1>6, <1>7, <2>1, <2>2, <2>3, <2>4, <2>5 DEF Report
<1>8. ASSUME NEW d \in Dispatchers, DispatcherStep(d) PROVE Goal
  <2>1. UNCHANGED <<setting, outVars, worker, level>>
    BY <1>8 DEF DispatcherStep, Pop, Dispatched, LowerIn, Allow, Interrupt
  <2> QED
    BY <2>1, WorkerUnchangedRight
<1>9. ASSUME Stop PROVE Goal
  <2>1. ASSUME RequestStop \/ TerminateDispatchers \/ BeginCleaning PROVE Goal
    <3>1. UNCHANGED <<setting, outVars, worker, level>>
      BY <2>1 DEF RequestStop, TerminateDispatchers, BeginCleaning
    <3> QED
      BY <3>1, WorkerUnchangedRight
  <2>2. ASSUME Cleaned PROVE Goal
    BY <2>2, CleanedRight DEF Cleaned
  <2> QED
    BY <1>9, <2>1, <2>2 DEF Stop
<1> QED
  BY <1>1, <1>2, <1>3, <1>4, <1>5, <1>6, <1>7, <1>8, <1>9 DEF Next, WorkerStep

(* What the settings say does not change.                                  *)
LEMMA SettingKept == Next => setting' = setting
<1>1. ASSUME NEW c \in Threads, SendStep(c) PROVE setting' = setting
  BY <1>1 DEF SendStep, PassGate, ConnectFails, Prepare, Increase, Suppress, Post, PostFails,
              Awaited, Unwind, Catch, Lower, Reopen
<1>2. ASSUME NEW d \in Dispatchers, DispatcherStep(d) PROVE setting' = setting
  BY <1>2 DEF DispatcherStep, Pop, Dispatched, LowerIn, Allow, Interrupt
<1>3. ASSUME WorkerStep \/ TimedOut \/ Receive \/ Stop PROVE setting' = setting
  BY <1>3 DEF WorkerStep, Read, Interrupted, Check, Report, Called, LowerByWorker, ReopenByWorker,
              Tidy, Release, Answered, Shut, Push, TimedOut, Receive, Stop, RequestStop,
              TerminateDispatchers, BeginCleaning, Cleaned
<1>4. ASSUME NEW s \in Sends, Drop(s) \/ (\E c \in Threads : Call(c, s)) PROVE setting' = setting
  BY <1>4 DEF Drop, Call
<1>5. ASSUME NEW s \in Sends, NEW how, Progress(s, how) \/ Reply(s, how) PROVE setting' = setting
  BY <1>5 DEF Progress, Reply
<1> QED
  BY <1>1, <1>2, <1>3, <1>4, <1>5 DEF Next

(* A failover message that was abandoned stays abandoned.                  *)
LEMMA DroppedStays ==
  ASSUME AgentAssumption, TypeOK, Outgoing, Next, FailoverDropped
  PROVE  FailoverDropped'
<1>1. setting' = setting
  BY SettingKept
<1>2. core \in [Sends -> Cores]
  BY DEF TypeOK, MessageTypes, Cores
<1>3. PICK s \in Sends : Kind(s) = "failover" /\ core[s] = "dropped"
  BY DEF FailoverDropped
<1>4. core'[s] = "dropped"
  <2>1. ASSUME NEW c \in Threads, NEW t \in Sends, Call(c, t) PROVE core'[s] = "dropped"
    BY <1>2, <1>3, <2>1 DEF Call
  <2>2. ASSUME NEW c \in Threads, NEW t \in Sends, t = thread[c].s, ~Superseded(t), Failed(c, t)
        PROVE  core'[s] = "dropped"
    <3>1. ASSUME s = Another(t) PROVE FALSE
      <4>1. Id(s) = Id(t) /\ Turn(s) = Turn(t) + 1 /\ Turn(t) \in Nat
        BY <3>1, SettingsRight DEF Settled, AgentAssumption
      <4> QED
        BY <1>3, <2>2, <4>1 DEF Superseded
    <3> QED
      BY <1>2, <1>3, <2>2, <3>1 DEF Failed
  <2>3. ASSUME NEW c \in Threads, SendStep(c) PROVE core'[s] = "dropped"
    <3>1. ASSUME Post(c) \/ PostFails(c) PROVE core'[s] = "dropped"
      <4>1. PICK t \in Sends : t = thread[c].s /\ Where(t) = "post" /\ SendRight(t)
        BY <3>1, ThreadAt DEF Post, PostFails, Steps
      <4>2. core[t] = "calling" /\ (\E k \in Cores : core' = [core EXCEPT ![t] = k])
        BY <3>1, <4>1 DEF SendRight, StepFits, Post, PostFails, Cores
      <4> QED
        BY <1>2, <1>3, <4>2
    <3>2. ASSUME ConnectFails(c) \/ Lower(c) \/ Reopen(c) PROVE core'[s] = "dropped"
      <4>1. PICK t \in Sends : t = thread[c].s /\ ~Superseded(t)
        BY <3>2, ThreadAt DEF ConnectFails, Lower, Reopen, Steps
      <4>2. Failed(c, t) \/ core' = core
        BY <3>2, <4>1 DEF ConnectFails, Lower, Reopen
      <4> QED
        BY <1>3, <2>2, <4>1, <4>2
    <3>3. ASSUME PassGate(c) \/ Prepare(c) \/ Increase(c) \/ Suppress(c) \/ Awaited(c) \/ Unwind(c) \/ Catch(c)
          PROVE  core'[s] = "dropped"
      BY <1>3, <3>3 DEF PassGate, Prepare, Increase, Suppress, Awaited, Unwind, Catch
    <3> QED
      BY <2>3, <3>1, <3>2, <3>3 DEF SendStep
  <2>4. ASSUME NEW t \in Sends, NEW how, Progress(t, how) PROVE core'[s] = "dropped"
    BY <1>2, <1>3, <2>4 DEF Progress
  <2>5. ASSUME NEW d \in Dispatchers, DispatcherStep(d) PROVE core'[s] = "dropped"
    BY <1>3, <2>5 DEF DispatcherStep, Pop, Dispatched, LowerIn, Allow, Interrupt, outVars
  <2>6. ASSUME WorkerStep \/ TimedOut \/ Receive \/ Stop PROVE core'[s] = "dropped"
    BY <1>3, <2>6 DEF WorkerStep, Read, Interrupted, Check, Report, Called, LowerByWorker, ReopenByWorker,
                Tidy, Release, Answered, Shut, Push, TimedOut, Receive, Stop, RequestStop,
                TerminateDispatchers, BeginCleaning, Cleaned, outVars
  <2>7. ASSUME NEW t \in Sends, Drop(t) \/ (\E how \in {"replied", "rejected"} : Reply(t, how))
        PROVE  core'[s] = "dropped"
    BY <1>3, <2>7 DEF Drop, Reply
  <2> QED
    BY <2>1, <2>3, <2>4, <2>5, <2>6, <2>7 DEF Next
<1>5. Kind(s)' = "failover"
  BY <1>1, <1>3, SettingStays
<1> QED
  BY <1>4, <1>5 DEF FailoverDropped

LEMMA LevelStep ==
  ASSUME AgentAssumption, TypeOK, CompletedOnce, Outgoing, LevelRight, Next, ~broken, ~broken'
  PROVE  LevelRight'
<1> DEFINE Counted == {s \in Sends : Underway(s)}
           Next1 == {s \in Sends : Underway(s)'}
<1>1. SUFFICES ASSUME ~FailoverDropped' PROVE level' = Cardinality(Next1)
  BY DEF LevelRight
<1>2. ~FailoverDropped
  BY <1>1, DroppedStays
<1>3. level = Cardinality(Counted)
  BY <1>2 DEF LevelRight
<1>4. IsFiniteSet(Counted)
  BY FS_Subset DEF AgentAssumption
<1>5. CASE Stay /\ level' = level
  <2>1. Next1 = Counted
    BY <1>5 DEF Stay
  <2> QED
    BY <1>3, <1>5, <2>1
<1>6. CASE (\E s \in Sends : Joins(s)) /\ level' = level + 1
  <2>1. PICK s \in Sends : Joins(s)
    BY <1>6
  <2>2. Next1 = Counted \cup {s} /\ s \notin Counted
    BY <2>1 DEF Joins
  <2> HIDE DEF Counted, Next1
  <2> QED
    BY <1>3, <1>4, <1>6, <2>2, FS_AddElement
<1>7. CASE (\E s \in Sends : Leaves(s)) /\ level' = level - 1
  <2>1. PICK s \in Sends : Leaves(s)
    BY <1>7
  <2>2. Next1 = Counted \ {s} /\ s \in Counted
    BY <2>1 DEF Leaves
  <2> HIDE DEF Counted, Next1
  <2> QED
    BY <1>3, <1>4, <1>7, <2>2, FS_RemoveElement
<1> QED
  BY <1>2, <1>5, <1>6, <1>7, OutgoingStep

-----------------------------------------------------------------------------
(* What goes wrong, does so only when a failover message was abandoned.     *)

(* A message with a callback is alone in its group.                        *)
LEMMA CallbackAlone ==
  ASSUME AgentAssumption, TypeOK, NEW s \in Sends, NEW t \in Sends, Kind(t) = "callback", Id(s) = Id(t)
  PROVE  s = t
<1>1. Settled
  BY SettingsRight
<1>2. Kind(s) = Kind(Id(s)) /\ Kind(t) = Kind(Id(t))
  BY <1>1 DEF Settled
<1>3. Id(s) = s /\ Id(t) = t
  BY <1>1, <1>2 DEF Settled
<1> QED
  BY <1>3

(* The message whose callback is told of the answer is in the manager still.  *)
LEMMA AnswerSent ==
  ASSUME AgentAssumption, TypeOK, AnswerAwaited, worker.pc = "answering", NEW c \in Threads,
         NEW s \in Sends, thread[c].s = s, SendRight(s), Where(s) \in Steps
  PROVE  /\ worker.s \in Sends /\ Id(worker.s) \in Sends
         /\ Id(s) # Id(worker.s) /\ Another(s) # worker.s /\ s # worker.s
<1> DEFINE w == worker.s
<1>1. w \in Sends /\ Kind(w) = "callback" /\ core[w] = "sent"
  BY DEF TypeOK, WorkerTypes, AnswerAwaited
<1>2. Settled /\ Id(w) \in Sends
  BY <1>1, SettingsRight DEF Settled
<1>3. s # w
  BY <1>1 DEF SendRight, StepFits, Steps, GivenUp
<1>4. Id(s) # Id(w)
  BY <1>1, <1>3, CallbackAlone
<1>5. Another(s) # w
  BY <1>1, <1>2, <1>4 DEF Settled, AgentAssumption
<1> QED
  BY <1>1, <1>2, <1>3, <1>4, <1>5

LEMMA AnswerStep ==
  ASSUME AgentAssumption, TypeOK, Outgoing, AnswerAwaited, Next, ~broken
  PROVE  AnswerAwaited'
<1> DEFINE w == worker.s
<1> SUFFICES ASSUME worker'.pc = "answering" PROVE AnswerAwaited'
  BY DEF AnswerAwaited
<1>0. setting' = setting
  BY SettingKept
<1>1. \A u : Kind(u)' = Kind(u) /\ Id(u)' = Id(u)
  BY <1>0, SettingStays
<1>2. ASSUME worker' = worker, core'[w] = core[w], entry'[Id(w)] = entry[Id(w)]
      PROVE  AnswerAwaited'
  BY <1>1, <1>2 DEF AnswerAwaited
<1>3. ASSUME worker' = worker PROVE w \in Sends /\ Id(w) \in Sends /\ core[w] = "sent" /\ Kind(w) = "callback"
  <2>1. w \in Sends /\ core[w] = "sent" /\ Kind(w) = "callback"
    BY <1>3 DEF AnswerAwaited, TypeOK, WorkerTypes
  <2> QED
    BY <2>1, SettingsRight DEF Settled
<1>4. /\ core \in [Sends -> Cores] /\ DOMAIN entry = Sends
      /\ worker = [worker EXCEPT !.pc = worker.pc]
  BY DEF TypeOK, MessageTypes, WorkerTypes, Cores
<1>5. ASSUME NEW c \in Threads, NEW s \in Sends, Call(c, s) PROVE AnswerAwaited'
  <2>1. worker' = worker /\ entry' = entry /\ core[s] = "new" /\ core' = [core EXCEPT ![s] = "calling"]
    BY <1>5 DEF Call
  <2>2. core'[w] = core[w]
    BY <1>3, <1>4, <2>1
  <2> QED
    BY <1>2, <2>1, <2>2
<1>6. ASSUME NEW c \in Threads, SendStep(c) PROVE AnswerAwaited'
  <2>1. worker' = worker
    BY <1>6 DEF SendStep, PassGate, ConnectFails, Prepare, Increase, Suppress, Post, PostFails,
                Awaited, Unwind, Catch, Lower, Reopen
  <2>2. PICK pc \in Steps : At(c, pc)
    BY <1>6 DEF SendStep, PassGate, ConnectFails, Prepare, Increase, Suppress, Post, PostFails,
                Awaited, Unwind, Catch, Lower, Reopen, Steps
  <2>3. PICK s \in Sends : thread[c].s = s /\ Where(s) = pc /\ SendRight(s) /\ Id(s) \in Sends
    BY <2>2, ThreadAt
  <2>4. /\ s # w /\ Another(s) # w /\ Id(s) # Id(w) /\ w \in Sends /\ Id(w) \in Sends
    BY <2>1, <2>3, AnswerSent
  <2>5. core'[w] = core[w]
    <3>1. \/ core' = core \/ (\E k \in Cores : core' = [core EXCEPT ![s] = k]) \/ Failed(c, s)
      BY <1>6, <2>3 DEF SendStep, PassGate, ConnectFails, Prepare, Increase, Suppress, Post, PostFails,
                Awaited, Unwind, Catch, Lower, Reopen, Cores
    <3> QED
      BY <1>4, <2>4, <3>1 DEF Failed
  <2>6. entry'[Id(w)] = entry[Id(w)]
    <3>1. entry' = entry \/ (\E x \in Sends \cup {None} : entry' = [entry EXCEPT ![Id(s)] = x])
      BY <1>6, <2>3 DEF SendStep, PassGate, ConnectFails, Prepare, Increase, Suppress, Post, PostFails,
                Awaited, Unwind, Catch, Lower, Reopen, Remove
    <3> QED
      BY <1>4, <2>4, <3>1
  <2> QED
    BY <1>2, <2>1, <2>5, <2>6
<1>7. ASSUME NEW s \in Sends, Drop(s) PROVE AnswerAwaited'
  <2>1. worker' = worker /\ core' = core /\ entry' = [entry EXCEPT ![Id(s)] = None] /\ s \in held
    BY <1>7 DEF Drop, Remove
  <2>2. Kind(s) # "callback"
    BY <2>1 DEF Outgoing, SendRight, Owned
  <2>3. Id(s) # Id(w)
    BY <1>3, <2>1, <2>2, CallbackAlone
  <2> QED
    BY <1>2, <1>3, <1>4, <2>1, <2>3
<1>8. ASSUME NEW s \in Sends, NEW how \in {"sent", "dropped"}, Progress(s, how) PROVE FALSE
  BY <1>8 DEF Progress, AfterProgress, TypeOK, WorkerTypes
<1>9. ASSUME NEW s \in Sends, NEW how \in {"replied", "rejected"}, Reply(s, how) PROVE AnswerAwaited'
  <2>1. core[s] = "sent" /\ entry[Id(s)] \in {s, None} /\ core' = core
    BY <1>9, ReplyFinds DEF Reply
  <2>2. ~(worker' = [worker EXCEPT !.pc = "check"])
    BY DEF TypeOK, WorkerTypes
  <2>3. /\ entry[Id(s)] # None /\ Kind(entry[Id(s)]) = "callback" /\ entry' = entry
        /\ worker' = [worker EXCEPT !.pc = "answering", !.s = entry[Id(s)]]
    BY <1>9, <2>2 DEF Reply, WorkerTo
  <2>4. entry[Id(s)] = s /\ worker'.s = s
    BY <2>1, <2>3 DEF TypeOK, WorkerTypes
  <2> QED
    BY <1>1, <2>1, <2>3, <2>4 DEF AnswerAwaited
<1>10. ASSUME Receive \/ TimedOut \/ WorkerStep PROVE FALSE
  <2>1. \E pc \in WorkerPlaces : /\ pc # "answering"
                               /\ \/ worker' = [worker EXCEPT !.pc = pc]
                                  \/ worker' = [worker EXCEPT !.pc = pc, !.view = allowedIn]
    BY <1>10 DEF Receive, TimedOut, WorkerStep, Report, Read, Interrupted, Check, Called, LowerByWorker,
              ReopenByWorker, Tidy, Release, Answered, Shut, Push, WorkerTo, WorkerPlaces, Reported
  <2> QED
    BY <2>1 DEF TypeOK, WorkerTypes
<1>11. ASSUME NEW d \in Dispatchers, DispatcherStep(d) PROVE AnswerAwaited'
  BY <1>2, <1>11 DEF DispatcherStep, Pop, Dispatched, LowerIn, Allow, Interrupt, outVars
<1>12. ASSUME Stop PROVE AnswerAwaited'
  <2>1. ~Cleaned
    BY DEF Cleaned, WorkerAt
  <2> QED
    BY <1>2, <1>12, <2>1 DEF Stop, RequestStop, TerminateDispatchers, BeginCleaning, outVars
<1> QED
  BY <1>5, <1>6, <1>7, <1>8, <1>9, <1>10, <1>11, <1>12 DEF Next

(* Whoever uses an info has a reference of it.                             *)
LEMMA StillThere ==
  ASSUME AgentAssumption, TypeOK, Outgoing, ~FailoverDropped, NEW s \in Sends, HasInfo(s),
         ByProgress(s) \/ ByProgram(s)
  PROVE  info[s] # None
<1>1. ~Caught(s)
  BY DEF FailoverDropped, Caught, GivenUp
<1>2. References(s) + One(Caught(s)) = One(ByManager(s)) + One(ByProgress(s)) + One(ByProgram(s))
  BY DEF Outgoing, SendRight
<1>3. References(s) \in Nat
  BY DEF References, TypeOK, MessageTypes, Infos
<1>4. One(Caught(s)) = 0 /\ One(ByManager(s)) \in {0, 1}
  BY <1>1 DEF One
<1>5. One(ByProgress(s)) \in {0, 1} /\ One(ByProgram(s)) \in {0, 1}
  BY DEF One
<1>6. One(ByProgress(s)) = 1 \/ One(ByProgram(s)) = 1
  BY DEF One
<1>7. References(s) # 0
  BY <1>2, <1>3, <1>4, <1>5, <1>6
<1> QED
  BY <1>7 DEF References

(* The level counts whatever is counted out of it.                         *)
LEMMA LevelCounts ==
  ASSUME AgentAssumption, TypeOK, LevelRight, ~FailoverDropped, NEW s \in Sends, Underway(s)
  PROVE  level # 0
<1> DEFINE Counted == {u \in Sends : Underway(u)}
<1>1. s \in Counted /\ IsFiniteSet(Counted)
  BY FS_Subset DEF AgentAssumption
<1>2. level = Cardinality(Counted)
  BY DEF LevelRight
<1> HIDE DEF Counted
<1> QED
  BY <1>1, <1>2, FS_EmptySet

(* An id is in the manager only for the target of its group that is tried.   *)
LEMMA IdIsFree ==
  ASSUME AgentAssumption, TypeOK, Outgoing, NEW c \in Threads, Prepare(c)
  PROVE  ~broken'
<1>1. PICK s \in Sends : /\ thread[c].s = s /\ Where(s) = "connect" /\ SendRight(s)
                         /\ entry[Id(s)] \in {s, None}
  BY ThreadAt DEF Prepare, Steps
<1>2. entry[Id(s)] = None
  BY <1>1 DEF SendRight, ByManager
<1>3. ~broken
  BY DEF Prepare, At
<1> QED
  BY <1>1, <1>2, <1>3 DEF Prepare

LEMMA UnbrokenStep ==
  ASSUME AgentAssumption, TypeOK, Outgoing, LevelRight, AnswerAwaited, Next, ~broken, ~FailoverDropped
  PROVE  ~broken'
<1>1. ASSUME NEW c \in Threads, SendStep(c) PROVE ~broken'
  <2>1. ASSUME Prepare(c) PROVE ~broken'
    BY <2>1, IdIsFree
  <2>2. ASSUME Awaited(c) PROVE ~broken'
    <3>1. PICK s \in Sends : thread[c].s = s /\ Where(s) = "awaiting" /\ SendRight(s)
      BY <2>2, ThreadAt DEF Awaited, Steps
    <3>2. HasInfo(s) /\ ByProgram(s)
      BY <3>1 DEF SendRight, StepFits, HasInfo, ByProgram, Owned
    <3>3. info[s] # None
      BY <3>2, StillThere
    <3> QED
      BY <2>2, <3>1, <3>3 DEF Awaited
  <2>3. ASSUME Unwind(c) PROVE ~broken'
    <3>1. PICK s \in Sends : thread[c].s = s /\ Where(s) = "unwinding" /\ SendRight(s)
      BY <2>3, ThreadAt DEF Unwind, Steps
    <3>2. HasInfo(s) /\ ByProgram(s)
      BY <3>1 DEF SendRight, StepFits, HasInfo, ByProgram, Owned
    <3>3. info[s] # None
      BY <3>2, StillThere
    <3> QED
      BY <2>3, <3>1, <3>3 DEF Unwind
  <2>4. ASSUME Catch(c) PROVE ~broken'
    <3>1. PICK s \in Sends : thread[c].s = s /\ Where(s) = "catch" /\ SendRight(s)
      BY <2>4, ThreadAt DEF Catch, Steps
    <3>2. core[s] = "failed"
      BY <3>1 DEF SendRight, StepFits, GivenUp, FailoverDropped
    <3>3. ByProgress(s)
      BY <3>1, <3>2 DEF ByProgress
    <3>4. HasInfo(s) => info[s] # None
      BY <3>3, StillThere
    <3> QED
      BY <2>4, <3>1, <3>4 DEF Catch
  <2>5. ASSUME Lower(c) PROVE ~broken'
    <3>1. PICK s \in Sends : thread[c].s = s /\ Where(s) = "lower" /\ SendRight(s)
      BY <2>5, ThreadAt DEF Lower, Steps
    <3>2. Underway(s)
      BY <3>1 DEF SendRight, StepFits, GivenUp, FailoverDropped, Underway
    <3>3. level # 0
      BY <3>2, LevelCounts
    <3> QED
      BY <2>5, <3>3 DEF Lower
  <2> QED
    BY <1>1, <2>1, <2>2, <2>3, <2>4, <2>5
       DEF SendStep, PassGate, ConnectFails, Increase, Suppress, Post, PostFails, Reopen
<1>2. ASSUME NEW s \in Sends, NEW how \in {"sent", "dropped"}, Progress(s, how) PROVE ~broken'
  <2>1. core[s] = "queued"
    BY <1>2 DEF Progress
  <2>2. HasInfo(s) => info[s] # None
    BY <2>1, StillThere DEF ByProgress
  <2>3. info[s] # None => info[s].state = "posted"
    BY <2>1 DEF Outgoing, SendRight, TypeOK, MessageTypes, Infos, Final
  <2> QED
    BY <1>2, <2>2, <2>3 DEF Progress
<1>3. ASSUME LowerByWorker \/ Tidy \/ Release PROVE ~broken'
  <2>1. worker.pc \in Reporting /\ worker.s \in Sends
    BY <1>3 DEF LowerByWorker, Tidy, Release, WorkerAt, Reporting, TypeOK, WorkerTypes
  <2>2. ByProgress(worker.s)
    BY <2>1 DEF ByProgress, ReportingAt
  <2>3. ~InfoGone
    BY <2>1, <2>2, StillThere DEF InfoGone
  <2>4. ASSUME LowerByWorker PROVE level # 0
    <3>1. Underway(worker.s)
      BY <2>4 DEF Underway, ReportingAt, LowerByWorker, WorkerAt
    <3> QED
      BY <2>1, <3>1, LevelCounts
  <2> QED
    BY <1>3, <2>3, <2>4 DEF LowerByWorker, Tidy, Release
<1>4. ASSUME Answered PROVE ~broken'
  BY <1>4 DEF Answered, AnswerAwaited, WorkerAt
<1>5. ASSUME Receive \/ TimedOut \/ Read \/ Interrupted \/ Check \/ Called \/ ReopenByWorker \/ Shut \/ Push
      PROVE  ~broken'
  BY <1>5 DEF Receive, TimedOut, Read, Interrupted, Check, Called, ReopenByWorker, Shut, Push
<1>6. ASSUME NEW s \in Sends, \/ Drop(s) \/ (\E c \in Threads : Call(c, s))
                             \/ (\E how \in {"replied", "rejected"} : Reply(s, how))
      PROVE  ~broken'
  BY <1>6 DEF Drop, Call, Reply
<1>7. ASSUME Stop \/ (\E d \in Dispatchers : DispatcherStep(d)) PROVE ~broken'
  BY <1>7 DEF DispatcherStep, Pop, Dispatched, LowerIn, Allow, Interrupt, Stop, RequestStop,
              TerminateDispatchers, BeginCleaning, Cleaned
<1> QED
  BY <1>1, <1>2, <1>3, <1>4, <1>5, <1>6, <1>7 DEF Next, WorkerStep, Report

-----------------------------------------------------------------------------
(* The requests that come in.                                              *)

LEMMA Counts ==
  ASSUME AgentAssumption
  PROVE  /\ IsFiniteSet(Opening) /\ Cardinality(Opening) \in Nat
         /\ IsFiniteSet(Serving) /\ Cardinality(Serving) \in Nat
         /\ Cardinality(Opening) <= Cardinality(Dispatchers) /\ Cardinality(Dispatchers) \in Nat
<1>1. Opening \subseteq Dispatchers /\ Serving \subseteq Dispatchers /\ IsFiniteSet(Dispatchers)
  BY DEF Opening, Serving, AgentAssumption
<1> QED
  BY <1>1, FS_Subset, FS_CardinalityType

(* The worker and the dispatchers do something else.                       *)
LEMMA IncomingQuiet ==
  ASSUME Incoming, UNCHANGED <<queue, sem, levelIn, allowedIn, dispatcher, stopping>>,
         \/ worker' = worker
         \/ /\ worker.pc \notin {"shut", "push"} /\ worker'.pc \notin {"shut", "push"}
            /\ worker'.pc = "waiting" /\ worker'.view => allowedIn
            /\ Terminated => worker'.pc = "stopped" \/ (Cleaning /\ worker'.pc \in Reporting)
  PROVE  Incoming'
<1>1. Opening' = Opening /\ Serving' = Serving
  BY DEF Opening, Serving
<1>2. (Terminated' <=> Terminated) /\ (Cleaning' <=> Cleaning)
  BY DEF Terminated, Cleaning
<1>3. One(LetsIn)' = One(LetsIn)
  BY DEF One, LetsIn, Incoming
<1>4. (worker'.pc \in {"shut", "push"}) <=> (worker.pc \in {"shut", "push"})
  OBVIOUS
<1>5. /\ worker'.pc = "waiting" /\ worker'.view => allowedIn'
      /\ Terminated' => worker'.pc = "stopped" \/ (Cleaning' /\ worker'.pc \in Reporting)
  BY <1>2 DEF Incoming
<1> QED
  BY <1>1, <1>2, <1>3, <1>4, <1>5 DEF Incoming, One

LEMMA IncomingWorker ==
  ASSUME AgentAssumption, TypeOK, Incoming, Receive \/ Shut \/ Push
  PROVE  Incoming'
<1>1. UNCHANGED <<dispatcher, stopping>> /\ worker.pc \in {"waiting", "shut", "push"}
  BY DEF Receive, Shut, Push, WorkerAt
<1>2. Opening' = Opening /\ Serving' = Serving
  BY <1>1 DEF Opening, Serving
<1>3. ~Terminated /\ ~Terminated'
  BY <1>1 DEF Terminated, Incoming, Reporting
<1>4. /\ Cardinality(Opening) \in Nat /\ Cardinality(Serving) \in Nat /\ Cardinality(Dispatchers) \in Nat
      /\ Cardinality(Opening) <= Cardinality(Dispatchers)
  BY Counts
<1>5. levelIn \in Nat /\ queue \in Nat /\ HighIn \in Nat /\ sem = queue
  BY <1>3 DEF TypeOK, RequestTypes, AgentAssumption, Incoming
<1>6. ASSUME Receive PROVE Incoming'
  <2>1. /\ allowedIn /\ worker.pc = "waiting" /\ levelIn' = levelIn + 1
        /\ UNCHANGED <<queue, sem, allowedIn>>
    BY <1>6 DEF Receive, WorkerAt, Incoming
  <2>2. worker'.pc = IF levelIn + 1 >= HighIn THEN "shut" ELSE "push"
    BY <1>6 DEF Receive, WorkerTo, TooMany, TypeOK, WorkerTypes
  <2>3. One(LetsIn) = 1 /\ One(LetsIn)' = IF levelIn + 1 >= HighIn THEN 0 ELSE 1
    BY <2>1, <2>2 DEF LetsIn, One
  <2>4. One(worker.pc \in {"shut", "push"}) = 0 /\ One(worker'.pc \in {"shut", "push"}) = 1
    BY <2>1, <2>2 DEF One
  <2>5. levelIn' + Cardinality(Opening)' + One(LetsIn)' <= HighIn + Cardinality(Dispatchers)
    BY <1>2, <1>4, <1>5, <2>1, <2>3 DEF Incoming
  <2>6. levelIn' = queue' + Cardinality(Serving)' + One(worker'.pc \in {"shut", "push"})
    BY <1>2, <1>4, <1>5, <2>1, <2>4 DEF Incoming
  <2> QED
    BY <1>3, <1>5, <2>1, <2>2, <2>5, <2>6 DEF Incoming
<1>7. ASSUME Shut PROVE Incoming'
  <2>1. worker.pc = "shut" /\ worker'.pc = "push" /\ allowedIn' = FALSE /\ UNCHANGED <<queue, sem, levelIn>>
    BY <1>7 DEF Shut, WorkerAt, WorkerTo, TypeOK, WorkerTypes
  <2>2. One(LetsIn) = 0 /\ One(LetsIn)' = 0
    BY <2>1 DEF LetsIn, One
  <2>3. One(worker.pc \in {"shut", "push"}) = 1 /\ One(worker'.pc \in {"shut", "push"}) = 1
    BY <2>1 DEF One
  <2> QED
    BY <1>2, <1>3, <1>5, <2>1, <2>2, <2>3 DEF Incoming
<1>8. ASSUME Push PROVE Incoming'
  <2>1. /\ worker.pc = "push" /\ worker'.pc = "check" /\ queue' = queue + 1 /\ sem' = sem + 1
        /\ UNCHANGED <<levelIn, allowedIn>>
    BY <1>8 DEF Push, WorkerAt, WorkerTo, TypeOK, WorkerTypes
  <2>2. One(LetsIn)' = One(LetsIn)
    BY <2>1 DEF LetsIn, One
  <2>3. One(worker.pc \in {"shut", "push"}) = 1 /\ One(worker'.pc \in {"shut", "push"}) = 0
    BY <2>1 DEF One
  <2>4. levelIn' = queue' + Cardinality(Serving)' + One(worker'.pc \in {"shut", "push"})
    BY <1>2, <1>4, <1>5, <2>1, <2>3 DEF Incoming
  <2> QED
    BY <1>2, <1>3, <1>5, <2>1, <2>2, <2>4 DEF Incoming
<1> QED
  BY <1>6, <1>7, <1>8

LEMMA IncomingDispatcher ==
  ASSUME AgentAssumption, TypeOK, Incoming, NEW d \in Dispatchers, DispatcherStep(d)
  PROVE  Incoming'
<1>1. UNCHANGED <<worker, stopping>>
  BY DEF DispatcherStep, Pop, Dispatched, LowerIn, Allow, Interrupt
<1>2. (Terminated' <=> Terminated) /\ (Cleaning' <=> Cleaning)
  BY <1>1 DEF Terminated, Cleaning
<1>3. /\ Cardinality(Opening) \in Nat /\ Cardinality(Serving) \in Nat /\ Cardinality(Dispatchers) \in Nat
      /\ IsFiniteSet(Opening) /\ IsFiniteSet(Serving)
  BY Counts
<1>4. /\ levelIn \in Nat /\ queue \in Nat /\ sem \in Nat /\ HighIn \in Nat
      /\ dispatcher \in [Dispatchers -> {"waiting", "dispatching", "lower", "allow", "interrupt", "stopped"}]
  BY DEF TypeOK, RequestTypes, AgentAssumption
<1>5. One(LetsIn) \in {0, 1}
  BY DEF One
<1>6. ASSUME NEW pc, dispatcher' = [dispatcher EXCEPT ![d] = pc]
      PROVE  /\ Opening' = IF pc = "allow" THEN Opening \cup {d} ELSE Opening \ {d}
             /\ Serving' = IF pc \in {"dispatching", "lower"} THEN Serving \cup {d} ELSE Serving \ {d}
  BY <1>4, <1>6 DEF Opening, Serving
<1>7. (d \in Opening <=> dispatcher[d] = "allow") /\ (d \in Serving <=> dispatcher[d] \in {"dispatching", "lower"})
  BY DEF Opening, Serving
<1>8. ASSUME NEW S, IsFiniteSet(S)
      PROVE  /\ d \in S => S \cup {d} = S /\ Cardinality(S \ {d}) = Cardinality(S) - 1
             /\ d \notin S => S \ {d} = S /\ Cardinality(S \cup {d}) = Cardinality(S) + 1
  BY <1>8, FS_AddElement, FS_RemoveElement
<1>9. /\ d \in Opening => Opening \cup {d} = Opening /\ Cardinality(Opening \ {d}) = Cardinality(Opening) - 1
      /\ d \notin Opening => Opening \ {d} = Opening /\ Cardinality(Opening \cup {d}) = Cardinality(Opening) + 1
      /\ d \in Serving => Serving \cup {d} = Serving /\ Cardinality(Serving \ {d}) = Cardinality(Serving) - 1
      /\ d \notin Serving => Serving \ {d} = Serving /\ Cardinality(Serving \cup {d}) = Cardinality(Serving) + 1
  BY <1>3, <1>8
<1>10. One(worker'.pc \in {"shut", "push"}) = One(worker.pc \in {"shut", "push"})
       /\ One(worker.pc \in {"shut", "push"}) \in {0, 1}
  BY <1>1 DEF One
<1>11. ASSUME Pop(d) PROVE Incoming'
  <2>1. PICK pc \in {"stopped", "dispatching"} :
          /\ dispatcher' = [dispatcher EXCEPT ![d] = pc]
          /\ pc = IF Terminated THEN "stopped" ELSE "dispatching"
          /\ dispatcher[d] = "waiting" /\ sem > 0 /\ sem' = sem - 1
          /\ queue' = IF Terminated THEN queue ELSE queue - 1
          /\ UNCHANGED <<levelIn, allowedIn>>
    BY <1>11 DEF Pop
  <2>2. Opening' = Opening /\ One(LetsIn)' = One(LetsIn)
    BY <1>1, <1>6, <1>7, <1>9, <2>1 DEF LetsIn, One
  <2>3. Cardinality(Serving)' = IF Terminated THEN Cardinality(Serving) ELSE Cardinality(Serving) + 1
    BY <1>6, <1>7, <1>9, <2>1
  <2>4. levelIn' = queue' + Cardinality(Serving)' + One(worker'.pc \in {"shut", "push"})
    BY <1>3, <1>4, <1>10, <2>1, <2>3 DEF Incoming
  <2> QED
    BY <1>1, <1>2, <2>1, <2>2, <2>4 DEF Incoming
<1>12. ASSUME Dispatched(d) \/ Interrupt(d) PROVE Incoming'
  <2>1. /\ UNCHANGED <<levelIn, allowedIn, queue, sem>>
        /\ \/ dispatcher[d] = "dispatching" /\ dispatcher' = [dispatcher EXCEPT ![d] = "lower"]
           \/ dispatcher[d] = "interrupt" /\ dispatcher' = [dispatcher EXCEPT ![d] = "waiting"]
    BY <1>12 DEF Dispatched, Interrupt
  <2>2. Opening' = Opening /\ Serving' = Serving /\ One(LetsIn)' = One(LetsIn)
    BY <1>1, <1>6, <1>7, <1>9, <2>1 DEF LetsIn, One
  <2> QED
    BY <1>1, <1>2, <1>10, <2>1, <2>2 DEF Incoming
<1>13. ASSUME LowerIn(d) PROVE Incoming'
  <2>1. PICK pc \in {"allow", "waiting"} :
          /\ dispatcher[d] = "lower" /\ dispatcher' = [dispatcher EXCEPT ![d] = pc]
          /\ levelIn' = levelIn - 1 /\ UNCHANGED <<allowedIn, queue, sem>>
    BY <1>13 DEF LowerIn
  <2>2. One(LetsIn)' = One(LetsIn) /\ Cardinality(Serving)' = Cardinality(Serving) - 1
    BY <1>1, <1>6, <1>7, <1>9, <2>1 DEF LetsIn, One
  <2>3. Cardinality(Opening)' <= Cardinality(Opening) + 1 /\ Cardinality(Opening)' \in Nat
    <3>1. d \notin Opening
      BY <1>7, <2>1
    <3>2. Opening' = Opening \cup {d} \/ Opening' = Opening
      BY <1>6, <1>9, <2>1, <3>1
    <3>3. Cardinality(Opening \cup {d}) = Cardinality(Opening) + 1
      BY <1>9, <3>1
    <3>4. CASE Opening' = Opening \cup {d}
      BY <1>3, <3>3, <3>4
    <3>5. CASE Opening' = Opening
      BY <1>3, <3>5
    <3> QED
      BY <3>2, <3>4, <3>5
  <2>4. levelIn' = queue' + Cardinality(Serving)' + One(worker'.pc \in {"shut", "push"})
    BY <1>3, <1>4, <1>10, <2>1, <2>2 DEF Incoming
  <2>5. levelIn' + Cardinality(Opening)' + One(LetsIn)' <= HighIn + Cardinality(Dispatchers)
    <3>1. levelIn + Cardinality(Opening) + One(LetsIn) <= HighIn + Cardinality(Dispatchers)
      BY DEF Incoming
    <3>2. levelIn' = levelIn - 1 /\ One(LetsIn)' = One(LetsIn)
      BY <2>1, <2>2
    <3> QED
      BY <1>3, <1>4, <1>5, <2>3, <3>1, <3>2
  <2> QED
    BY <1>1, <1>2, <2>1, <2>4, <2>5 DEF Incoming
<1>14. ASSUME Allow(d) PROVE Incoming'
  <2>1. /\ dispatcher[d] = "allow" /\ dispatcher' = [dispatcher EXCEPT ![d] = "interrupt"]
        /\ allowedIn' = TRUE /\ UNCHANGED <<levelIn, queue, sem>>
    BY <1>14 DEF Allow, AfterAllow
  <2>2. Cardinality(Opening)' = Cardinality(Opening) - 1 /\ Serving' = Serving
    <3>1. d \in Opening /\ d \notin Serving
      BY <1>7, <2>1
    <3>2. Opening' = Opening \ {d} /\ Serving' = Serving \ {d}
      BY <1>4, <2>1 DEF Opening, Serving
    <3> QED
      BY <1>9, <3>1, <3>2
  <2>3. One(LetsIn)' <= One(LetsIn) + 1 /\ One(LetsIn)' \in {0, 1}
    BY <1>5 DEF One
  <2>4. levelIn' + Cardinality(Opening)' + One(LetsIn)' <= HighIn + Cardinality(Dispatchers)
    BY <1>3, <1>4, <1>5, <2>1, <2>2, <2>3 DEF Incoming
  <2> QED
    BY <1>1, <1>2, <1>10, <2>1, <2>2, <2>4 DEF Incoming
<1> QED
  BY <1>11, <1>12, <1>13, <1>14 DEF DispatcherStep

LEMMA IncomingStep ==
  ASSUME AgentAssumption, TypeOK, Incoming, Next
  PROVE  Incoming'
<1> USE DEF inVars
<1>1. ASSUME NEW c \in Threads, SendStep(c) PROVE Incoming'
  <2>1. UNCHANGED <<queue, sem, levelIn, allowedIn, dispatcher, stopping, worker>>
    BY <1>1 DEF SendStep, PassGate, ConnectFails, Prepare, Increase, Suppress, Post, PostFails,
                Awaited, Unwind, Catch, Lower, Reopen
  <2> QED
    BY <2>1, IncomingQuiet
<1>2. ASSUME NEW s \in Sends, Drop(s) \/ (\E c \in Threads : Call(c, s)) PROVE Incoming'
  <2>1. UNCHANGED <<queue, sem, levelIn, allowedIn, dispatcher, stopping, worker>>
    BY <1>2 DEF Drop, Call
  <2> QED
    BY <2>1, IncomingQuiet
<1>3. ASSUME NEW s \in Sends, NEW how \in {"sent", "dropped"}, Progress(s, how) PROVE Incoming'
  <2>1. UNCHANGED <<queue, sem, levelIn, allowedIn, dispatcher, stopping>>
    BY <1>3 DEF Progress
  <2>2. worker.pc = "waiting" \/ (worker.pc = "stopped" /\ Cleaning)
    BY <1>3 DEF Progress, WorkerAt
  <2>3. worker'.pc \in {"calling", "lower"}
    <3> DEFINE pc == AfterProgress(how, (HasInfo(s) /\ info[s] # None /\ info[s].state = "posted") /\ Kind(s) = "callback")
    <3>1. worker' = [worker EXCEPT !.s = s, !.how = how, !.pc = pc]
      BY <1>3 DEF Progress
    <3>2. pc \in {"calling", "lower"}
      BY DEF AfterProgress
    <3> HIDE DEF pc
    <3> QED
      BY <3>1, <3>2 DEF TypeOK, WorkerTypes
  <2>4. Terminated => Cleaning
    BY <2>2 DEF Incoming, Reporting
  <2> QED
    BY <2>1, <2>2, <2>3, <2>4, IncomingQuiet DEF Reporting
<1>4. ASSUME NEW s \in Sends, NEW how \in {"replied", "rejected"}, Reply(s, how) PROVE Incoming'
  <2>1. UNCHANGED <<queue, sem, levelIn, allowedIn, dispatcher, stopping>> /\ worker.pc = "waiting"
    BY <1>4 DEF Reply, WorkerAt
  <2>2. worker'.pc \in {"check", "answering"}
    BY <1>4 DEF Reply, WorkerTo, TypeOK, WorkerTypes
  <2>3. ~Terminated
    BY <2>1 DEF Incoming, Reporting
  <2> QED
    BY <2>1, <2>2, <2>3, IncomingQuiet
<1>5. ASSUME \/ Read \/ Interrupted \/ TimedOut \/ Check \/ Called \/ LowerByWorker \/ ReopenByWorker
             \/ Tidy \/ Release \/ Answered
      PROVE  Incoming'
  <2>1. UNCHANGED <<queue, sem, levelIn, allowedIn, dispatcher, stopping>>
    BY <1>5 DEF Read, Interrupted, TimedOut, Check, Called, LowerByWorker, ReopenByWorker, Tidy,
                Release, Answered
  <2>2. ASSUME Read PROVE /\ worker.pc = "top" /\ worker'.pc = "waiting" /\ (worker'.view => allowedIn)
    BY <2>2 DEF Read, WorkerAt, TypeOK, WorkerTypes, RequestTypes
  <2>3. ASSUME Interrupted \/ TimedOut \/ Check \/ Answered
        PROVE  /\ worker.pc \in {"waiting", "check", "answering"} /\ worker'.pc \in {"check", "top", "stopped"}
    BY <2>3 DEF Interrupted, TimedOut, Check, Answered, WorkerAt, WorkerTo, TypeOK, WorkerTypes
  <2>4. ASSUME Called \/ LowerByWorker \/ ReopenByWorker \/ Tidy \/ Release
        PROVE  /\ worker.pc \in Reporting /\ worker'.pc \in Reporting \cup {"stopped", "check"}
               /\ worker'.pc \notin {"shut", "push", "waiting"}
               /\ worker'.pc = "check" => ~Cleaning
    BY <2>4 DEF Called, LowerByWorker, ReopenByWorker, Tidy, Release, WorkerAt, WorkerTo, TypeOK,
                WorkerTypes, Reporting, Reported
  <2>5. CASE Read
    BY <2>1, <2>2, <2>5, IncomingQuiet DEF Incoming, Reporting
  <2>6. CASE Interrupted \/ TimedOut \/ Check \/ Answered
    BY <2>1, <2>3, <2>6, IncomingQuiet DEF Incoming, Reporting
  <2>7. CASE Called \/ LowerByWorker \/ ReopenByWorker \/ Tidy \/ Release
    <3>1. Terminated => worker'.pc = "stopped" \/ (Cleaning /\ worker'.pc \in Reporting)
      BY <2>4, <2>7 DEF Incoming, Reporting
    <3>2. worker.pc \notin {"shut", "push"}
      BY <2>4, <2>7 DEF Reporting
    <3> QED
      BY <2>1, <2>4, <2>7, <3>1, <3>2, IncomingQuiet
  <2> QED
    BY <1>5, <2>5, <2>6, <2>7
<1>6. ASSUME Cleaned \/ RequestStop \/ BeginCleaning \/ TerminateDispatchers PROVE Incoming'
  <2>1. UNCHANGED <<queue, levelIn, allowedIn, dispatcher, worker>>
    BY <1>6 DEF Cleaned, RequestStop, BeginCleaning, TerminateDispatchers
  <2>2. Opening' = Opening /\ Serving' = Serving /\ One(LetsIn)' = One(LetsIn)
    BY <2>1 DEF Opening, Serving, LetsIn, One
  <2>3. ~Terminated' => ~Terminated /\ sem' = sem
    BY <1>6 DEF Cleaned, RequestStop, BeginCleaning, TerminateDispatchers, Terminated, Cleaning
  <2>4. Terminated' => worker'.pc = "stopped" \/ (Cleaning' /\ worker'.pc \in Reporting)
    BY <1>6, <2>1 DEF Cleaned, RequestStop, BeginCleaning, TerminateDispatchers, Terminated, Cleaning,
                      WorkerAt, Incoming
  <2> QED
    BY <2>1, <2>2, <2>3, <2>4 DEF Incoming
<1> QED
  BY <1>1, <1>2, <1>3, <1>4, <1>5, <1>6, IncomingWorker, IncomingDispatcher
     DEF Next, WorkerStep, Report, Stop

-----------------------------------------------------------------------------
(* The inductive invariant holds.                                          *)

LEMMA AgentInit == AgentAssumption /\ Init => AgentInv
<1> SUFFICES ASSUME AgentAssumption, Init PROVE AgentInv
  OBVIOUS
<1> USE DEF Init
<1>1. TypeOK
  <2>1. setting \in Circumstances /\ setting.requests \in Nat
    BY DEF AgentAssumption, Circumstances
  <2>2. ThreadTypes
    BY DEF ThreadTypes, Idle, AgentAssumption
  <2>3. MessageTypes
    BY DEF MessageTypes
  <2>4. WorkerTypes /\ RequestTypes
    BY <2>1 DEF WorkerTypes, RequestTypes
  <2> QED
    BY <2>1, <2>2, <2>3, <2>4 DEF TypeOK
<1>2. CompletedOnce
  BY DEF CompletedOnce
<1>3. Incoming
  <2>1. Opening = {} /\ Serving = {}
    BY DEF Opening, Serving
  <2>2. Cardinality(Opening) = 0 /\ Cardinality(Serving) = 0 /\ Cardinality(Dispatchers) \in Nat
    BY <2>1, FS_EmptySet, FS_CardinalityType DEF AgentAssumption
  <2>3. HighIn \in Nat /\ HighIn >= 1
    BY DEF AgentAssumption
  <2>4. One(LetsIn) = 1 /\ One(worker.pc \in {"shut", "push"}) = 0
    BY DEF One, LetsIn
  <2> QED
    BY <2>2, <2>3, <2>4 DEF Incoming, Terminated
<1>4. \A c \in Threads : thread[c].s = None
  BY DEF Idle
<1>5. \A s \in Sends : Where(s) = "none"
  BY <1>4 DEF Where, AgentAssumption
<1>6. Outgoing
  <2>1. OneSender
    BY <1>4 DEF OneSender
  <2>2. ReportTrue /\ EntriesById
    BY DEF ReportTrue, Reporting, EntriesById
  <2>3. ASSUME NEW s \in Sends PROVE SendRight(s)
    <3>1. Id(s) \in Sends /\ Another(s) \in Sends \cup {None} /\ s # None
      BY <1>1, SettingsRight DEF Settled, AgentAssumption
    <3>2. StepFits(s)
      BY <1>5 DEF StepFits
    <3>3. ~ByManager(s) /\ ~Superseded(s) /\ ~Caught(s) /\ ~GivenUp(s)
      BY <3>1 DEF ByManager, Superseded, Caught, GivenUp
    <3>4. ~ByProgress(s) /\ ~ByProgram(s)
      BY <1>5 DEF ByProgress, ByProgram, ReportingAt, Reporting
    <3>5. References(s) = 0
      BY DEF References
    <3> QED
      BY <1>5, <3>2, <3>3, <3>4, <3>5 DEF SendRight, One
  <2> QED
    BY <2>1, <2>2, <2>3 DEF Outgoing
<1>7. LevelRight
  <2>1. \A s \in Sends : ~Underway(s)
    BY <1>5 DEF Underway, ReportingAt
  <2>2. {s \in Sends : Underway(s)} = {}
    BY <2>1
  <2> QED
    BY <2>2, FS_EmptySet DEF LevelRight
<1>8. NothingFreedUsed /\ AnswerAwaited
  BY DEF Init, NothingFreedUsed, AnswerAwaited
<1> QED
  BY <1>1, <1>2, <1>3, <1>6, <1>7, <1>8 DEF AgentInv

(* Nothing more is said of a behaviour once it is broken.                  *)
LEMMA NextUnbroken == Next => ~broken
<1>1. ASSUME NEW c \in Threads, SendStep(c) PROVE ~broken
  BY <1>1 DEF SendStep, PassGate, ConnectFails, Prepare, Increase, Suppress, Post, PostFails,
              Awaited, Unwind, Catch, Lower, Reopen, At
<1>2. ASSUME NEW s \in Sends, Drop(s) \/ (\E c \in Threads : Call(c, s)) PROVE ~broken
  BY <1>2 DEF Drop, Call, At
<1>3. ASSUME NEW s \in Sends, NEW how, Progress(s, how) \/ Reply(s, how) PROVE ~broken
  BY <1>3 DEF Progress, Reply, WorkerAt
<1>4. ASSUME Receive \/ TimedOut \/ WorkerStep PROVE ~broken
  BY <1>4 DEF Receive, TimedOut, WorkerStep, Report, Read, Interrupted, Check, Called, LowerByWorker,
              ReopenByWorker, Tidy, Release, Answered, Shut, Push, WorkerAt
<1>5. ASSUME NEW d \in Dispatchers, DispatcherStep(d) PROVE ~broken
  BY <1>5 DEF DispatcherStep, Pop, Dispatched, LowerIn, Allow, Interrupt, At
<1>6. ASSUME Stop PROVE ~broken
  BY <1>6 DEF Stop, RequestStop, TerminateDispatchers, BeginCleaning, Cleaned, WorkerAt
<1> QED
  BY <1>1, <1>2, <1>3, <1>4, <1>5, <1>6 DEF Next

LEMMA TypesStep ==
  ASSUME AgentAssumption, TypeOK, Outgoing, Incoming, Next
  PROVE  TypeOK'
<1>1. ASSUME NEW s \in Sends, NEW how \in {"replied", "rejected"}, Reply(s, how) PROVE TypeOK'
  <2>1. core[s] = "sent"
    BY <1>1 DEF Reply
  <2>2. entry[Id(s)] \in {s, None} /\ (entry[Id(s)] = s => info[s] # None)
    BY <2>1, ReplyFinds
  <2>3. \A t \in Sends : entry[Id(s)] = t => info[t] # None
    BY <2>2 DEF AgentAssumption
  <2> QED
    BY <1>1, <2>3, ReplyTypes
<1> QED
  BY <1>1, SendTypes, ProgramTypes, ReportTypes, ProgressTypes, RequestStepTypes, StopTypes DEF Next

LEMMA AgentStep ==
  ASSUME AgentAssumption, AgentInv, [Next]_vars
  PROVE  AgentInv'
<1>1. /\ TypeOK /\ CompletedOnce /\ Incoming /\ NothingFreedUsed
      /\ ~broken => Outgoing /\ LevelRight /\ AnswerAwaited
  BY DEF AgentInv
<1>2. CASE Next
  <2>1. ~broken /\ Outgoing /\ LevelRight /\ AnswerAwaited
    BY <1>1, <1>2, NextUnbroken
  <2>2. TypeOK' /\ CompletedOnce' /\ Incoming'
    BY <1>1, <1>2, <2>1, TypesStep, CompletedStep, IncomingStep
  <2>3. ~broken' => Outgoing' /\ LevelRight' /\ AnswerAwaited'
    BY <1>1, <1>2, <2>1, OutgoingStep, LevelStep, AnswerStep
  <2>4. CASE FailoverDropped
    <3>1. FailoverDropped'
      BY <1>1, <1>2, <2>1, <2>4, DroppedStays
    <3> QED
      BY <2>2, <2>3, <3>1 DEF AgentInv, NothingFreedUsed
  <2>5. CASE ~FailoverDropped
    <3>1. ~broken'
      BY <1>1, <1>2, <2>1, <2>5, UnbrokenStep
    <3> QED
      BY <2>2, <2>3, <3>1 DEF AgentInv, NothingFreedUsed
  <2> QED
    BY <2>4, <2>5
<1>3. CASE UNCHANGED vars
  <2>1. /\ UNCHANGED <<setting, outVars, flowVars, worker, interrupts, stopping, broken>>
        /\ UNCHANGED <<coming, queue, sem, levelIn, allowedIn, dispatcher>>
    BY <1>3 DEF vars, inVars
  <2>2. TypeOK'
    BY <1>1, <2>1 DEF TypeOK, ThreadTypes, MessageTypes, WorkerTypes, RequestTypes, outVars, flowVars
  <2>3. CompletedOnce'
    BY <1>1, <2>1 DEF CompletedOnce, outVars
  <2>4. Incoming'
    BY <1>1, <2>1, IncomingQuiet
  <2>5. FailoverDropped' <=> FailoverDropped
    BY <2>1, SettingStays DEF FailoverDropped, outVars
  <2>6. NothingFreedUsed'
    BY <1>1, <2>1, <2>5 DEF NothingFreedUsed
  <2>7. ASSUME ~broken' PROVE Outgoing' /\ LevelRight' /\ AnswerAwaited'
    <3>1. Outgoing /\ LevelRight /\ AnswerAwaited
      BY <1>1, <2>1, <2>7
    <3>2. Outgoing' /\ Stay
      BY <2>1, <3>1, WorkerUnchangedRight
    <3>3. {s \in Sends : Underway(s)'} = {s \in Sends : Underway(s)}
      BY <3>2 DEF Stay
    <3>4. level' = level
      BY <2>1 DEF flowVars
    <3>5. AnswerAwaited'
      <4>1. \A u : Kind(u)' = Kind(u) /\ Id(u)' = Id(u)
        BY <2>1, SettingStays
      <4> QED
        BY <2>1, <3>1, <4>1 DEF AnswerAwaited, outVars
    <3> QED
      BY <2>5, <3>1, <3>2, <3>3, <3>4, <3>5 DEF LevelRight
  <2> QED
    BY <2>2, <2>3, <2>4, <2>6, <2>7 DEF AgentInv
<1> QED
  BY <1>2, <1>3

-----------------------------------------------------------------------------
(* What the inductive invariant says.                                      *)

LEMMA RightInfos ==
  ASSUME AgentAssumption, AgentInv
  PROVE  InfosCounted
<1> SUFFICES ASSUME NEW s \in Sends, ~FailoverDropped, HasInfo(s)
             PROVE  LET manager == One(entry[Id(s)] = s)
                        progress == One(\/ SendingAt(s, {"increase", "suppress", "post"}) \/ Abandoning(s)
                                        \/ core[s] = "queued"
                                        \/ ReportingAt(s, {"calling", "lower", "reopen", "tidy", "release"}))
                        program == One(/\ Owned(s)
                                       /\ \/ s \in held
                                          \/ SendingAt(s, {"increase", "suppress", "post", "awaiting", "unwinding"}))
                    IN IF info[s] = None THEN core[s] \in {"new", "calling"} \/ manager + progress + program = 0
                       ELSE info[s].refs = manager + progress + program
  BY DEF InfosCounted
<1>1. TypeOK /\ OneSender /\ SendRight(s)
  BY DEF AgentInv, Outgoing, NothingFreedUsed
<1>2. /\ SendingAt(s, {"increase", "suppress", "post"}) <=> Where(s) \in {"increase", "suppress", "post"}
      /\ SendingAt(s, {"unwinding", "catch"}) <=> Where(s) \in {"unwinding", "catch"}
      /\ SendingAt(s, {"increase", "suppress", "post", "awaiting", "unwinding"})
           <=> Where(s) \in {"increase", "suppress", "post", "awaiting", "unwinding"}
  BY <1>1, SendingWhere
<1>3. Abandoning(s) <=> core[s] = "failed" /\ Where(s) \in {"unwinding", "catch"}
  BY <1>2 DEF Abandoning
<1>4. ByProgress(s) <=> \/ SendingAt(s, {"increase", "suppress", "post"}) \/ Abandoning(s)
                        \/ core[s] = "queued"
                        \/ ReportingAt(s, {"calling", "lower", "reopen", "tidy", "release"})
  BY <1>2, <1>3 DEF ByProgress, Reporting
<1>5. ByProgram(s) <=>
        /\ Owned(s)
        /\ \/ s \in held
           \/ SendingAt(s, {"increase", "suppress", "post", "awaiting", "unwinding"})
  BY <1>2 DEF ByProgram
<1>6. ~Caught(s)
  BY DEF FailoverDropped, Caught, GivenUp
<1>7. References(s) = One(ByManager(s)) + One(ByProgress(s)) + One(ByProgram(s))
  <2>1. References(s) + One(Caught(s)) = One(ByManager(s)) + One(ByProgress(s)) + One(ByProgram(s))
    BY <1>1 DEF SendRight
  <2>2. One(Caught(s)) = 0
    BY <1>6 DEF One
  <2>3. References(s) \in Nat
    BY <1>1 DEF References, TypeOK, MessageTypes, Infos
  <2> QED
    BY <2>1, <2>2, <2>3
<1>8. CASE info[s] = None
  BY <1>4, <1>5, <1>7, <1>8 DEF References, ByManager, One
<1>9. CASE info[s] # None
  BY <1>4, <1>5, <1>7, <1>9 DEF References, ByManager, One
<1> QED
  BY <1>8, <1>9

LEMMA RightFlow ==
  ASSUME AgentAssumption, AgentInv
  PROVE  FlowCounted
<1> SUFFICES ASSUME ~FailoverDropped PROVE level = Cardinality(OnTheirWay)
  BY DEF FlowCounted
<1>1. TypeOK /\ OneSender /\ level = Cardinality({s \in Sends : Underway(s)})
  BY DEF AgentInv, Outgoing, LevelRight, NothingFreedUsed
<1>2. ASSUME NEW s \in Sends
      PROVE  /\ SendingAt(s, {"suppress", "post"}) <=> Where(s) \in {"suppress", "post"}
             /\ SendingAt(s, {"unwinding", "catch", "lower"}) <=> Where(s) \in {"unwinding", "catch", "lower"}
  BY <1>1, SendingWhere
<1>3. OnTheirWay = {s \in Sends : Underway(s)}
  BY <1>2 DEF OnTheirWay, Underway
<1> QED
  BY <1>1, <1>3

LEMMA RightIncoming ==
  ASSUME AgentAssumption, AgentInv
  PROVE  IncomingBounded
<1>1. levelIn + Cardinality(Opening) + One(LetsIn) <= HighIn + Cardinality(Dispatchers)
  BY DEF AgentInv, Incoming
<1>2. levelIn \in Nat /\ HighIn \in Nat
  BY DEF AgentInv, TypeOK, RequestTypes, AgentAssumption
<1>3. Cardinality(Opening) \in Nat /\ Cardinality(Dispatchers) \in Nat
  BY Counts
<1>4. One(LetsIn) \in {0, 1}
  BY DEF One
<1> QED
  BY <1>1, <1>2, <1>3, <1>4 DEF IncomingBounded

LEMMA AgentAlways ==
  ASSUME AgentAssumption
  PROVE  Spec => []AgentInv
<1>1. Init => AgentInv
  BY AgentInit
<1>2. AgentInv /\ [Next]_vars => AgentInv'
  BY AgentStep
<1> QED
  BY <1>1, <1>2, PTL DEF Spec

(* The state of the agent keeps its types: in particular no info has fewer than one
   reference, no level falls below 0 and no request is taken from an empty
   queue (flow_manager, incoming_message_queue).                           *)
THEOREM AgentTypes ==
  ASSUME AgentAssumption
  PROVE  Spec => []TypeOK
<1>1. AgentInv => TypeOK
  BY DEF AgentInv
<1> QED
  BY <1>1, AgentAlways, PTL

(* Each message is completed at most once, those who wait for it are let go only
   then, and no later reply makes it another thing, for any number of threads,
   messages, replies and failures (report_replied, report_rejected,
   outgoing_message_progress_callback).                                    *)
THEOREM MessagesCompletedOnce ==
  ASSUME AgentAssumption
  PROVE  Spec => []CompletedOnce
<1>1. AgentInv => CompletedOnce
  BY DEF AgentInv
<1> QED
  BY <1>1, AgentAlways, PTL

(* An info has a reference for each that uses it, is freed with the last and not used
   after that, and the level of the outgoing flow is the number of messages on their
   way and is never counted below 0, while no failover message was abandoned; and
   the incoming flow passes its high mark by one request for each dispatcher at
   most (inc_ref, dec_ref, flow_manager, queue_incoming).                  *)
THEOREM AgentCounts ==
  ASSUME AgentAssumption
  PROVE  Spec => []CountsRight
<1>1. AgentInv => CountsRight
  BY RightInfos, RightFlow, RightIncoming DEF CountsRight, AgentInv
<1> QED
  BY <1>1, AgentAlways, PTL

-----------------------------------------------------------------------------
(* What the agent's dispatchers do with the messages they get (YamiDispatch). *)

CONSTANTS Names, Callbacks, Messages, ObjectName, OneWay

VARIABLES registry, deleted, received, at, target, calling, unused, answers, made, gone, barred

Dispatch == INSTANCE YamiDispatch

-----------------------------------------------------------------------------
(* The inductive invariant.                                                *)

Objects == made \cup {Dispatch!NoObject}
AllNames == Names \cup {"*"}
Came == DOMAIN barred
Tallies == [program : Nat, unknown : Nat, thrown : Nat]

DispatchTypes ==
  /\ made \subseteq Callbacks /\ gone \subseteq Objects
  /\ registry \in [AllNames -> Objects]
  /\ Came \subseteq Messages /\ barred \in [Came -> SUBSET Objects]
  /\ received \subseteq Came
  /\ at \in [Dispatchers -> Came \cup {Dispatch!Nothing}]
  /\ target \in [Dispatchers -> Objects] /\ calling \subseteq Dispatchers
  /\ answers \in [Messages -> Tallies]

(* What has a name is not gone, and nothing has two names.                 *)
Registered ==
  \A n \in AllNames : registry[n] # Dispatch!NoObject =>
    /\ registry[n] \notin gone
    /\ \A k \in AllNames : registry[k] = registry[n] => k = n

(* What was gone when a message came stays gone.                           *)
StaysGone == \A m \in Came : barred[m] \subseteq gone

(* A dispatcher that has found an object has the message it found it for.  *)
TargetForMessage ==
  \A d \in Dispatchers :
    /\ at[d] = Dispatch!Nothing => target[d] = Dispatch!NoObject
    /\ d \in calling => target[d] # Dispatch!NoObject

(* A message is in the queue, or with one dispatcher, or was.              *)
InOnePlace ==
  \A d \in Dispatchers : at[d] # Dispatch!Nothing =>
    /\ at[d] \notin received
    /\ \A e \in Dispatchers : at[e] = at[d] => e = d

Waits(m) == m \notin Came \/ m \in received

(* The original may be used only by the dispatcher that has it, and only one of
   the two objects of a message may be.                                    *)
OneUsable ==
  \A m \in Messages :
    /\ Waits(m) => Dispatch!Original(m) \notin unused /\ Dispatch!Copied(m) \notin unused
    /\ Dispatch!Original(m) \in unused => Dispatch!Copied(m) \notin unused
    /\ Dispatch!Original(m) \in unused => \E d \in Dispatchers : at[d] = m

(* A message whose object was not called yet was not handed on.            *)
NotHandedOn ==
  \A d \in Dispatchers : at[d] # Dispatch!Nothing /\ d \notin calling =>
    Dispatch!Copied(at[d]) \notin unused /\ answers[at[d]].program = 0

(* What may still be used was not; what is with a dispatcher the agent has not
   answered; what is rejected as unknown can never be used.                *)
UsableUnanswered ==
  \A m \in Messages :
    /\ Waits(m) \/ Dispatch!Original(m) \in unused \/ Dispatch!Copied(m) \in unused => answers[m].program = 0
    /\ Waits(m) \/ (\E d \in Dispatchers : at[d] = m) => answers[m].unknown = 0 /\ answers[m].thrown = 0
    /\ answers[m].unknown # 0 => Dispatch!Copied(m) \notin unused

DispatchInv ==
  /\ DispatchTypes /\ Registered /\ StaysGone /\ TargetForMessage /\ Dispatch!LaterNotDispatched
  /\ InOnePlace /\ OneUsable /\ NotHandedOn /\ UsableUnanswered /\ Dispatch!TwoAnswersOnlyIfThrown

-----------------------------------------------------------------------------
(* A registration makes an object that was not there: the numbers have a least. *)
LEMMA NewObject ==
  ASSUME NEW S \in SUBSET Nat, S # {}
  PROVE  Dispatch!Min(S) \in S
<1>1. IsWellFoundedOn(OpToRel(<, Nat), Nat)
  BY NatLessThanWellFounded
<1>2. PICK x \in S : \A y \in S : ~ (<<y, x>> \in OpToRel(<, Nat))
  BY <1>1, WFMin
<1>3. ASSUME NEW y \in S PROVE x =< y
  <2>1. <<y, x>> \in Nat \X Nat /\ <<y, x>>[1] = y /\ <<y, x>>[2] = x
    OBVIOUS
  <2>2. ~ (y < x)
    BY <1>2, <2>1 DEF OpToRel
  <2> QED
    BY <2>2
<1> QED
  BY <1>2, <1>3 DEF Dispatch!Min

(* The objects of a message differ from each other and from any other's.   *)
LEMMA ObjectsDiffer ==
  \A m, n : /\ Dispatch!Original(m) # Dispatch!Copied(n)
            /\ Dispatch!Original(m) = Dispatch!Original(n) => m = n
            /\ Dispatch!Copied(m) = Dispatch!Copied(n) => m = n
BY DEF Dispatch!Original, Dispatch!Copied

LEMMA DispatchInit == Dispatch!DispatchAssumption /\ Dispatch!Init => DispatchInv
<1> SUFFICES ASSUME Dispatch!DispatchAssumption, Dispatch!Init PROVE DispatchInv
  OBVIOUS
<1>1. Came = {} /\ barred \in [Came -> SUBSET Objects]
  BY DEF Dispatch!Init, Came
<1>2. DispatchTypes
  BY <1>1 DEF Dispatch!Init, DispatchTypes, Objects, AllNames, Dispatch!NoObject, Tallies
<1>3. Registered /\ StaysGone /\ TargetForMessage /\ Dispatch!LaterNotDispatched /\ InOnePlace
  BY <1>1 DEF Dispatch!Init, Registered, StaysGone, TargetForMessage, Dispatch!LaterNotDispatched, InOnePlace, AllNames
<1>4. OneUsable /\ UsableUnanswered /\ NotHandedOn /\ Dispatch!TwoAnswersOnlyIfThrown
  BY <1>1 DEF Dispatch!Init, OneUsable, UsableUnanswered, NotHandedOn, Dispatch!TwoAnswersOnlyIfThrown, Waits
<1> QED
  BY <1>2, <1>3, <1>4 DEF DispatchInv

-----------------------------------------------------------------------------
(* The program registers and unregisters objects.                          *)

LEMMA MadeNew ==
  ASSUME Dispatch!DispatchAssumption, DispatchTypes, Callbacks # made
  PROVE  Dispatch!Min(Callbacks \ made) \in Callbacks \ made /\ Dispatch!NoObject \notin Callbacks
BY NewObject DEF Dispatch!DispatchAssumption, DispatchTypes, Dispatch!NoObject

LEMMA RegisterInv ==
  ASSUME Dispatch!DispatchAssumption, DispatchInv, NEW name \in AllNames, Dispatch!RegisterObject(name)
  PROVE  DispatchInv'
<1> DEFINE o == Dispatch!Min(Callbacks \ made)
<1>1. o \in Callbacks \ made /\ o # Dispatch!NoObject
  BY MadeNew DEF Dispatch!RegisterObject, DispatchInv
<1> HIDE DEF o
<1>2. /\ registry' = [registry EXCEPT ![name] = o] /\ made' = made \cup {o}
      /\ gone' = gone \cup {registry[name]}
      /\ UNCHANGED <<received, at, target, calling, unused, answers, barred>>
  BY DEF Dispatch!RegisterObject, o
<1>3. DispatchTypes'
  BY <1>1, <1>2 DEF DispatchInv, DispatchTypes, Objects, AllNames, Came, Tallies
<1>4. Registered'
  BY <1>1, <1>2 DEF DispatchInv, DispatchTypes, Objects, Registered, AllNames
<1>5. StaysGone' /\ TargetForMessage' /\ Dispatch!LaterNotDispatched' /\ InOnePlace'
  BY <1>2 DEF DispatchInv, StaysGone, TargetForMessage, Dispatch!LaterNotDispatched, InOnePlace, Came
<1>6. OneUsable' /\ UsableUnanswered' /\ NotHandedOn' /\ Dispatch!TwoAnswersOnlyIfThrown'
  BY <1>2 DEF DispatchInv, OneUsable, UsableUnanswered, NotHandedOn, Dispatch!TwoAnswersOnlyIfThrown, Waits, Came
<1> QED
  BY <1>3, <1>4, <1>5, <1>6 DEF DispatchInv

LEMMA UnregisterInv ==
  ASSUME DispatchInv, NEW name \in AllNames, Dispatch!UnregisterObject(name)
  PROVE  DispatchInv'
<1>1. /\ registry' = [registry EXCEPT ![name] = Dispatch!NoObject] /\ gone' = gone \cup {registry[name]}
      /\ UNCHANGED <<received, at, target, calling, unused, answers, made, barred>>
  BY DEF Dispatch!UnregisterObject, Dispatch!Erased
<1>2. DispatchTypes'
  BY <1>1 DEF DispatchInv, DispatchTypes, Objects, AllNames, Came, Tallies
<1>3. Registered'
  BY <1>1 DEF DispatchInv, DispatchTypes, Objects, Registered, AllNames
<1>4. StaysGone' /\ TargetForMessage' /\ Dispatch!LaterNotDispatched' /\ InOnePlace'
  BY <1>1 DEF DispatchInv, StaysGone, TargetForMessage, Dispatch!LaterNotDispatched, InOnePlace, Came
<1>5. OneUsable' /\ UsableUnanswered' /\ NotHandedOn' /\ Dispatch!TwoAnswersOnlyIfThrown'
  BY <1>1 DEF DispatchInv, OneUsable, UsableUnanswered, NotHandedOn, Dispatch!TwoAnswersOnlyIfThrown, Waits, Came
<1> QED
  BY <1>2, <1>3, <1>4, <1>5 DEF DispatchInv

-----------------------------------------------------------------------------
(* Messages come, are taken and dispatched.                                *)

(* What leaves the registry alone and forgets nothing of what is gone.     *)
LEMMA RegistryKept ==
  ASSUME DispatchInv, UNCHANGED <<registry, gone, barred>>
  PROVE  Registered' /\ StaysGone'
BY DEF DispatchInv, Registered, StaysGone, AllNames, Came

LEMMA ReceiveInv ==
  ASSUME Dispatch!DispatchAssumption, DispatchInv, NEW m \in Messages, Dispatch!ReceiveMessage(m)
  PROVE  DispatchInv'
<1>1. /\ m \notin Came /\ received' = received \cup {m} /\ Came' = Came \cup {m}
      /\ \A n \in Came' : barred'[n] = IF n = m THEN gone ELSE barred[n]
      /\ UNCHANGED <<registry, deleted, at, target, calling, unused, answers, made, gone>>
  BY DEF Dispatch!ReceiveMessage, Dispatch!Arrived, Came
<1>2. \A d \in Dispatchers : at[d] # m
  BY <1>1 DEF Dispatch!DispatchAssumption, DispatchInv, DispatchTypes, Dispatch!Nothing
<1>3. DispatchTypes'
  <2>1. barred' \in [Came' -> SUBSET Objects']
    BY <1>1 DEF Dispatch!ReceiveMessage, Dispatch!Arrived, DispatchInv, DispatchTypes, Objects, Came
  <2> QED
    BY <1>1, <2>1 DEF DispatchInv, DispatchTypes, Objects, AllNames
<1>4. Registered' /\ StaysGone'
  BY <1>1 DEF DispatchInv, Registered, StaysGone, AllNames
<1>5. TargetForMessage' /\ Dispatch!LaterNotDispatched'
  BY <1>1, <1>2 DEF DispatchInv, DispatchTypes, TargetForMessage, Dispatch!LaterNotDispatched
<1>6. InOnePlace'
  BY <1>1, <1>2 DEF DispatchInv, InOnePlace
<1>7. OneUsable' /\ UsableUnanswered' /\ NotHandedOn' /\ Dispatch!TwoAnswersOnlyIfThrown'
  BY <1>1 DEF DispatchInv, OneUsable, UsableUnanswered, NotHandedOn, Dispatch!TwoAnswersOnlyIfThrown, Waits
<1> QED
  BY <1>3, <1>4, <1>5, <1>6, <1>7 DEF DispatchInv

LEMMA TakeInv ==
  ASSUME Dispatch!DispatchAssumption, DispatchInv, NEW d \in Dispatchers, Dispatch!Take(d)
  PROVE  DispatchInv'
<1>1. PICK m \in received : received' = received \ {m} /\ at' = [at EXCEPT ![d] = m]
                           /\ unused' = unused \cup {Dispatch!Original(m)}
  BY DEF Dispatch!Take
<1>2. /\ at[d] = Dispatch!Nothing
      /\ UNCHANGED <<registry, deleted, target, calling, answers, made, gone, barred>>
  BY DEF Dispatch!Take
<1>3. m \in Came /\ m \in Messages /\ m # Dispatch!Nothing
  BY <1>1 DEF Dispatch!DispatchAssumption, DispatchInv, DispatchTypes, Dispatch!Nothing
<1>4. DispatchTypes'
  BY <1>1, <1>2, <1>3 DEF DispatchInv, DispatchTypes, Objects, AllNames, Came, Tallies
<1>5. Registered' /\ StaysGone'
  BY <1>2, RegistryKept
<1>6. TargetForMessage' /\ Dispatch!LaterNotDispatched'
  BY <1>1, <1>2 DEF DispatchInv, DispatchTypes, TargetForMessage, Dispatch!LaterNotDispatched
<1>7. InOnePlace'
  BY <1>1, <1>2 DEF DispatchInv, DispatchTypes, InOnePlace
<1>8. at'[d] = m /\ \A e \in Dispatchers : e # d => at'[e] = at[e]
  BY <1>1 DEF DispatchInv, DispatchTypes
<1>9. Came' = Came
  BY <1>2 DEF Came
<1>10. OneUsable'
  <2>1. Dispatch!Original(m) \notin unused /\ Dispatch!Copied(m) \notin unused /\ ~Waits(m)'
    BY <1>1, <1>3, <1>9 DEF DispatchInv, OneUsable, Waits
  <2>2. Dispatch!Copied(m) \notin unused'
    BY <1>1, <2>1, ObjectsDiffer
  <2>3. ASSUME NEW n \in Messages, n # m
        PROVE  /\ Waits(n)' <=> Waits(n)
               /\ Dispatch!Original(n) \in unused' <=> Dispatch!Original(n) \in unused
               /\ Dispatch!Copied(n) \in unused' <=> Dispatch!Copied(n) \in unused
               /\ (\E e \in Dispatchers : at[e] = n) => \E e \in Dispatchers : at'[e] = n
    <3>1. n # Dispatch!Nothing
      BY DEF Dispatch!DispatchAssumption, Dispatch!Nothing
    <3> QED
      BY <1>1, <1>2, <1>3, <1>8, <1>9, <2>3, <3>1, ObjectsDiffer DEF Waits
  <2> QED
    BY <1>8, <2>1, <2>2, <2>3 DEF DispatchInv, OneUsable
<1>11. UsableUnanswered' /\ Dispatch!TwoAnswersOnlyIfThrown'
  BY <1>1, <1>2, <1>3, <1>8, <1>9, ObjectsDiffer DEF DispatchInv, UsableUnanswered, Dispatch!TwoAnswersOnlyIfThrown, Waits
<1>12. NotHandedOn'
  <2> SUFFICES ASSUME NEW e \in Dispatchers, at'[e] # Dispatch!Nothing, e \notin calling
               PROVE  Dispatch!Copied(at'[e]) \notin unused' /\ answers[at'[e]].program = 0
    BY <1>2 DEF NotHandedOn, Dispatch!Copied
  <2>1. CASE e = d
    BY <1>1, <1>3, <1>8, <2>1, ObjectsDiffer DEF DispatchInv, OneUsable, UsableUnanswered, Waits
  <2>2. CASE e # d
    BY <1>1, <1>8, <2>2, ObjectsDiffer DEF DispatchInv, NotHandedOn
  <2> QED
    BY <2>1, <2>2
<1> QED
  BY <1>4, <1>5, <1>6, <1>7, <1>10, <1>11, <1>12 DEF DispatchInv

(* The object found has a name, so that it is not among those gone.        *)
LEMMA FindInv ==
  ASSUME Dispatch!DispatchAssumption, DispatchInv, NEW d \in Dispatchers, Dispatch!Find(d)
  PROVE  DispatchInv'
<1> DEFINE o == Dispatch!Resolve(ObjectName[at[d]])
<1>1. /\ at[d] # Dispatch!Nothing /\ o # Dispatch!NoObject /\ target' = [target EXCEPT ![d] = o]
      /\ UNCHANGED <<registry, deleted, received, at, calling, unused, answers, made, gone, barred>>
  BY DEF Dispatch!Find
<1>2. at[d] \in Came /\ ObjectName[at[d]] \in Names
  BY <1>1 DEF Dispatch!DispatchAssumption, DispatchInv, DispatchTypes
<1>3. o \in Objects /\ o \notin gone
  BY <1>1, <1>2 DEF DispatchInv, DispatchTypes, Registered, Dispatch!Resolve, AllNames
<1> HIDE DEF o
<1>4. DispatchTypes'
  BY <1>1, <1>3 DEF DispatchInv, DispatchTypes, Objects, AllNames, Came, Tallies
<1>5. Registered' /\ StaysGone'
  BY <1>1, RegistryKept
<1>6. TargetForMessage' /\ Dispatch!LaterNotDispatched'
  BY <1>1, <1>2, <1>3 DEF DispatchInv, DispatchTypes, TargetForMessage, Dispatch!LaterNotDispatched, StaysGone, Came
<1>7. InOnePlace' /\ OneUsable' /\ UsableUnanswered' /\ NotHandedOn' /\ Dispatch!TwoAnswersOnlyIfThrown'
  BY <1>1 DEF DispatchInv, InOnePlace, OneUsable, UsableUnanswered, NotHandedOn, Dispatch!TwoAnswersOnlyIfThrown, Waits, Came
<1> QED
  BY <1>4, <1>5, <1>6, <1>7 DEF DispatchInv

LEMMA CallInv ==
  ASSUME DispatchInv, NEW d \in Dispatchers, Dispatch!Call(d)
  PROVE  DispatchInv'
<1>1. /\ target[d] # Dispatch!NoObject /\ calling' = calling \cup {d}
      /\ UNCHANGED <<registry, deleted, received, at, target, unused, answers, made, gone, barred>>
  BY DEF Dispatch!Call
<1>2. DispatchTypes'
  BY <1>1 DEF DispatchInv, DispatchTypes, Objects, AllNames, Came, Tallies
<1>3. Registered' /\ StaysGone'
  BY <1>1, RegistryKept
<1>4. TargetForMessage' /\ Dispatch!LaterNotDispatched'
  BY <1>1 DEF DispatchInv, TargetForMessage, Dispatch!LaterNotDispatched
<1>5. InOnePlace' /\ OneUsable' /\ UsableUnanswered' /\ NotHandedOn' /\ Dispatch!TwoAnswersOnlyIfThrown'
  BY <1>1 DEF DispatchInv, InOnePlace, OneUsable, UsableUnanswered, NotHandedOn, Dispatch!TwoAnswersOnlyIfThrown, Waits, Came
<1> QED
  BY <1>2, <1>3, <1>4, <1>5 DEF DispatchInv

-----------------------------------------------------------------------------
(* Answers.                                                                *)

(* A dispatcher that is done with its message lets go of it and its original,
   whether the agent has answered it or not.                               *)
LEMMA FinishInv ==
  ASSUME Dispatch!DispatchAssumption, DispatchInv, NEW d \in Dispatchers, at[d] # Dispatch!Nothing, Dispatch!Finish(d),
         unused' = unused \ {Dispatch!Original(at[d])},
         \/ d \notin calling /\ answers' = Dispatch!Answers(at[d], "unknown")
         \/ answers' = Dispatch!Answers(at[d], "thrown")
         \/ UNCHANGED answers,
         UNCHANGED <<registry, deleted, received, made, gone, barred>>
  PROVE  DispatchInv'
<1> DEFINE m == at[d]
<1>1. m \in Came /\ m \in Messages /\ ~Waits(m) /\ m # Dispatch!Nothing
  BY DEF DispatchInv, DispatchTypes, InOnePlace, Waits
<1>2. /\ at'[d] = Dispatch!Nothing /\ target'[d] = Dispatch!NoObject /\ d \notin calling'
      /\ \A e \in Dispatchers : e # d => at'[e] = at[e] /\ target'[e] = target[e]
      /\ \A e \in Dispatchers : e \in calling' => e \in calling
      /\ \A e \in Dispatchers : at'[e] # m
  BY <1>1 DEF Dispatch!Finish, DispatchInv, DispatchTypes, InOnePlace
<1>3. /\ answers' \in [Messages -> Tallies]
      /\ \A n \in Messages : answers'[n].program = answers[n].program
      /\ \A n \in Messages : n # m => answers'[n] = answers[n]
      /\ answers'[m].unknown + answers'[m].thrown <= answers[m].unknown + answers[m].thrown + 1
      /\ answers'[m].unknown <= answers[m].unknown + 1
      /\ answers'[m].unknown # answers[m].unknown => d \notin calling
  BY <1>1 DEF Dispatch!Answers, DispatchInv, DispatchTypes, Tallies
<1>4. DispatchTypes'
  <2>1. at' \in [Dispatchers -> Came \cup {Dispatch!Nothing}] /\ target' \in [Dispatchers -> Objects]
    BY DEF Dispatch!Finish, DispatchInv, DispatchTypes, Objects
  <2> QED
    BY <1>3, <2>1 DEF Dispatch!Finish, DispatchInv, DispatchTypes, Objects, AllNames, Came, Tallies
<1>5. Registered' /\ StaysGone'
  BY RegistryKept
<1>6. TargetForMessage' /\ Dispatch!LaterNotDispatched' /\ InOnePlace'
  BY <1>2 DEF DispatchInv, TargetForMessage, Dispatch!LaterNotDispatched, InOnePlace
<1>7. Came' = Came /\ received' = received
  BY DEF Came
<1>8. OneUsable'
  BY <1>1, <1>2, <1>7, ObjectsDiffer DEF DispatchInv, OneUsable, Waits
<1>9. UsableUnanswered'
  <2> SUFFICES ASSUME NEW n \in Messages
               PROVE  /\ Waits(n)' \/ Dispatch!Original(n) \in unused' \/ Dispatch!Copied(n) \in unused' =>
                           answers'[n].program = 0
                      /\ Waits(n)' \/ (\E e \in Dispatchers : at'[e] = n) =>
                           answers'[n].unknown = 0 /\ answers'[n].thrown = 0
                      /\ answers'[n].unknown # 0 => Dispatch!Copied(n) \notin unused'
    BY DEF UsableUnanswered, Dispatch!Original, Dispatch!Copied
  <2>1. /\ Waits(n)' <=> Waits(n)
        /\ Dispatch!Original(n) \in unused' => Dispatch!Original(n) \in unused
        /\ Dispatch!Copied(n) \in unused' => Dispatch!Copied(n) \in unused
        /\ n # m => ((\E e \in Dispatchers : at'[e] = n) => \E e \in Dispatchers : at[e] = n)
    <3>1. n # Dispatch!Nothing
      BY DEF Dispatch!DispatchAssumption, Dispatch!Nothing
    <3> QED
      BY <1>2, <1>7, <3>1 DEF Waits
  <2>2. answers'[n].unknown # 0 => Dispatch!Copied(n) \notin unused
    BY <1>1, <1>3 DEF DispatchInv, UsableUnanswered, NotHandedOn
  <2> QED
    BY <1>1, <1>2, <1>3, <2>1, <2>2 DEF DispatchInv, UsableUnanswered
<1>10. NotHandedOn'
  <2> SUFFICES ASSUME NEW e \in Dispatchers, at'[e] # Dispatch!Nothing, e \notin calling'
               PROVE  Dispatch!Copied(at'[e]) \notin unused' /\ answers'[at'[e]].program = 0
    BY DEF NotHandedOn, Dispatch!Copied
  <2>1. e # d /\ at'[e] = at[e] /\ e \notin calling /\ at[e] \in Messages
    BY <1>2 DEF Dispatch!Finish, DispatchInv, DispatchTypes
  <2> QED
    BY <1>3, <2>1 DEF DispatchInv, NotHandedOn
<1>11. Dispatch!TwoAnswersOnlyIfThrown'
  <2>1. answers[m].unknown = 0 /\ answers[m].thrown = 0 /\ answers[m] \in Tallies
    BY <1>1 DEF DispatchInv, UsableUnanswered, DispatchTypes
  <2>2. answers'[m].unknown + answers'[m].thrown <= 1 /\ answers'[m].program <= 1
    BY <1>1, <1>3, <2>1 DEF DispatchInv, Dispatch!TwoAnswersOnlyIfThrown, Tallies
  <2>3. answers'[m] \in Tallies /\ (answers'[m].unknown # 0 => answers'[m].program = 0)
    BY <1>1, <1>3, <2>1 DEF DispatchInv, NotHandedOn
  <2>4. answers'[m].unknown + answers'[m].program <= 1
    BY <1>3, <2>1, <2>2, <2>3 DEF Tallies
  <2> QED
    BY <1>1, <1>3, <2>2, <2>4 DEF DispatchInv, Dispatch!TwoAnswersOnlyIfThrown
<1> QED
  BY <1>4, <1>5, <1>6, <1>8, <1>9, <1>10, <1>11 DEF DispatchInv

(* An object that may be used is used up by the answer.                    *)
LEMMA ReplyInv ==
  ASSUME Dispatch!DispatchAssumption, DispatchInv, NEW m \in Messages,
         NEW object \in {Dispatch!Original(m), Dispatch!Copied(m)}, Dispatch!ReplyWith(object, m),
         object = Dispatch!Original(m) => \E d \in calling : at[d] = m
  PROVE  DispatchInv'
<1>1. /\ object \in unused /\ answers' = Dispatch!Answers(m, "program") /\ unused' = unused \ {object}
      /\ UNCHANGED <<registry, deleted, received, at, target, calling, made, gone, barred>>
  BY DEF Dispatch!ReplyWith
<1>2. ~Waits(m) /\ answers[m].program = 0
  BY <1>1 DEF DispatchInv, OneUsable, UsableUnanswered
<1>3. /\ answers' \in [Messages -> Tallies]
      /\ \A n \in Messages : answers'[n].unknown = answers[n].unknown /\ answers'[n].thrown = answers[n].thrown
      /\ \A n \in Messages : n # m => answers'[n].program = answers[n].program
      /\ answers'[m].program = 1
  BY <1>1, <1>2 DEF Dispatch!Answers, DispatchInv, DispatchTypes, Tallies
<1>4. DispatchTypes'
  BY <1>1, <1>3 DEF DispatchInv, DispatchTypes, Objects, AllNames, Came, Tallies
<1>5. Registered' /\ StaysGone'
  BY <1>1, RegistryKept
<1>6. TargetForMessage' /\ Dispatch!LaterNotDispatched' /\ InOnePlace'
  BY <1>1 DEF DispatchInv, TargetForMessage, Dispatch!LaterNotDispatched, InOnePlace
<1>7. Came' = Came
  BY <1>1 DEF Came
<1>8. OneUsable'
  BY <1>1, <1>7, ObjectsDiffer DEF DispatchInv, OneUsable, Waits
<1>9. Dispatch!Original(m) \notin unused' /\ Dispatch!Copied(m) \notin unused'
  BY <1>1, ObjectsDiffer DEF DispatchInv, OneUsable
<1>10. UsableUnanswered'
  BY <1>1, <1>2, <1>3, <1>7, <1>9, ObjectsDiffer DEF DispatchInv, UsableUnanswered, Waits
<1>11. NotHandedOn'
  <2> SUFFICES ASSUME NEW e \in Dispatchers, at[e] # Dispatch!Nothing, e \notin calling
               PROVE  Dispatch!Copied(at[e]) \notin unused' /\ answers'[at[e]].program = 0
    BY <1>1 DEF NotHandedOn, Dispatch!Copied
  <2>1. at[e] \in Messages /\ Dispatch!Copied(at[e]) \notin unused /\ answers[at[e]].program = 0
    BY DEF DispatchInv, DispatchTypes, NotHandedOn
  <2>2. at[e] # m
    <3>1. CASE object = Dispatch!Copied(m)
      BY <1>1, <2>1, <3>1
    <3>2. CASE object = Dispatch!Original(m)
      BY <3>2 DEF DispatchInv, DispatchTypes, InOnePlace
    <3> QED
      BY <3>1, <3>2
  <2> QED
    BY <1>1, <1>3, <2>1, <2>2
<1>12. answers[m].unknown = 0
  <2>1. CASE object = Dispatch!Copied(m)
    BY <1>1, <2>1 DEF DispatchInv, UsableUnanswered
  <2>2. CASE object = Dispatch!Original(m)
    BY <2>2 DEF DispatchInv, DispatchTypes, UsableUnanswered
  <2> QED
    BY <2>1, <2>2
<1>13. Dispatch!TwoAnswersOnlyIfThrown'
  BY <1>3, <1>12 DEF DispatchInv, Dispatch!TwoAnswersOnlyIfThrown, Tallies
<1> QED
  BY <1>4, <1>5, <1>6, <1>8, <1>10, <1>11, <1>13 DEF DispatchInv

LEMMA HandOnInv ==
  ASSUME Dispatch!DispatchAssumption, DispatchInv, NEW d \in Dispatchers, Dispatch!HandOn(d)
  PROVE  DispatchInv'
<1> DEFINE m == at[d]
<1>1. /\ Dispatch!Original(m) \in unused /\ unused' = (unused \ {Dispatch!Original(m)}) \cup {Dispatch!Copied(m)}
      /\ d \in calling
      /\ UNCHANGED <<registry, deleted, received, at, target, calling, answers, made, gone, barred>>
  BY DEF Dispatch!HandOn, Dispatch!Moved
<1>2. m \in Came /\ m \in Messages /\ ~Waits(m)
  BY <1>1 DEF DispatchInv, DispatchTypes, TargetForMessage, InOnePlace, Waits
<1>3. DispatchTypes'
  BY <1>1 DEF DispatchInv, DispatchTypes, Objects, AllNames, Came, Tallies
<1>4. Registered' /\ StaysGone'
  BY <1>1, RegistryKept
<1>5. TargetForMessage' /\ Dispatch!LaterNotDispatched' /\ InOnePlace'
  BY <1>1 DEF DispatchInv, TargetForMessage, Dispatch!LaterNotDispatched, InOnePlace
<1>6. Came' = Came
  BY <1>1 DEF Came
<1>7. OneUsable'
  BY <1>1, <1>2, <1>6, ObjectsDiffer DEF DispatchInv, OneUsable, Waits
<1>8. answers[m].unknown = 0
  BY <1>1, <1>2 DEF DispatchInv, DispatchTypes, UsableUnanswered
<1>9. UsableUnanswered' /\ Dispatch!TwoAnswersOnlyIfThrown'
  BY <1>1, <1>2, <1>6, <1>8, ObjectsDiffer DEF DispatchInv, UsableUnanswered, Dispatch!TwoAnswersOnlyIfThrown, Waits
<1>10. NotHandedOn'
  <2> SUFFICES ASSUME NEW e \in Dispatchers, at[e] # Dispatch!Nothing, e \notin calling
               PROVE  Dispatch!Copied(at[e]) \notin unused' /\ answers[at[e]].program = 0
    BY <1>1 DEF NotHandedOn, Dispatch!Copied
  <2>1. at[e] # m
    BY <1>1 DEF DispatchInv, DispatchTypes, InOnePlace
  <2> QED
    BY <1>1, <2>1, ObjectsDiffer DEF DispatchInv, NotHandedOn
<1> QED
  BY <1>3, <1>4, <1>5, <1>7, <1>9, <1>10 DEF DispatchInv

-----------------------------------------------------------------------------
LEMMA DispatchStep ==
  ASSUME Dispatch!DispatchAssumption, DispatchInv, [Dispatch!Next]_(Dispatch!dispatchVars)
  PROVE  DispatchInv'
<1>1. ASSUME NEW name \in AllNames, Dispatch!RegisterObject(name) \/ Dispatch!UnregisterObject(name)
      PROVE  DispatchInv'
  BY <1>1, RegisterInv, UnregisterInv
<1>2. ASSUME NEW m \in Messages, Dispatch!ReceiveMessage(m) \/ Dispatch!ReplyElsewhere(m)
      PROVE  DispatchInv'
  BY <1>2, ReceiveInv, ReplyInv, ObjectsDiffer DEF Dispatch!ReplyElsewhere
<1>3. ASSUME NEW d \in Dispatchers, Dispatch!Take(d) \/ Dispatch!Find(d) \/ Dispatch!Call(d) \/ Dispatch!HandOn(d)
      PROVE  DispatchInv'
  BY <1>3, TakeInv, FindInv, CallInv, HandOnInv
<1>4. ASSUME NEW d \in Dispatchers, Dispatch!Unknown(d) \/ Dispatch!Throw(d) \/ Dispatch!Return(d)
      PROVE  DispatchInv'
  <2>1. at[d] # Dispatch!Nothing
    BY <1>4 DEF Dispatch!Unknown, Dispatch!Throw, Dispatch!Return, DispatchInv, TargetForMessage
  <2> QED
    BY <1>4, <2>1, FinishInv DEF Dispatch!Unknown, Dispatch!Throw, Dispatch!Return, Dispatch!Reject,
      DispatchInv, TargetForMessage
<1>5. ASSUME NEW d \in Dispatchers, Dispatch!Reply(d)
      PROVE  DispatchInv'
  <2>1. d \in calling /\ at[d] \in Messages /\ Dispatch!ReplyWith(Dispatch!Original(at[d]), at[d])
    BY <1>5 DEF Dispatch!Reply, DispatchInv, TargetForMessage, DispatchTypes
  <2> QED
    BY <2>1, ReplyInv
<1>6. CASE UNCHANGED Dispatch!dispatchVars
  BY <1>6 DEF Dispatch!dispatchVars, DispatchInv, DispatchTypes, Registered, StaysGone, TargetForMessage,
    Dispatch!LaterNotDispatched, InOnePlace, OneUsable, UsableUnanswered, NotHandedOn, Dispatch!TwoAnswersOnlyIfThrown, Objects, AllNames,
    Came, Waits
<1> QED
  BY <1>1, <1>2, <1>3, <1>4, <1>5, <1>6 DEF Dispatch!Next, AllNames

(* A message that comes after an object was unregistered, or replaced, is not
   dispatched to it.  The program and the agent answer it at most once each, and
   both of them do only when its object throws: do_message_dispatching and the flag
   already_used_ of incoming_message, for any number of dispatchers, names,
   registrations and messages.                                             *)
THEOREM MessagesDispatchedRight ==
  ASSUME Dispatch!DispatchAssumption
  PROVE  Dispatch!Spec => []Dispatch!DispatchedRight
<1>1. Dispatch!Init => DispatchInv
  BY DispatchInit
<1>2. DispatchInv /\ [Dispatch!Next]_(Dispatch!dispatchVars) => DispatchInv'
  BY DispatchStep
<1>3. DispatchInv => Dispatch!DispatchedRight
  BY DEF DispatchInv, Dispatch!DispatchedRight
<1> QED
  BY <1>1, <1>2, <1>3, PTL DEF Dispatch!Spec

=============================================================================
