--------------------------- MODULE YamiDispatch ---------------------------
(***************************************************************************)
(* What the YAMI4 C++ agent does with a message that it has received: its  *)
(* dispatcher threads look its object up and call it                       *)
(* (lib/yami4-gpl-1.6.0/src/cpp/agent_impl.cpp, do_message_dispatching;    *)
(* name_resolver.cpp), and the object, or a thread that it gave the        *)
(* message to, answers (incoming_message.cpp).                             *)
(*                                                                         *)
(* The resolver's mutex covers the search, not the call: meanwhile the     *)
(* program registers and unregisters objects.                              *)
(***************************************************************************)
EXTENDS Naturals, FiniteSets, FiniteSetsExt

CONSTANTS
  Dispatchers,   (* dispatcher threads                                     *)
  Names,         (* object names but "*"                                   *)
  Callbacks,     (* dispatcher objects, one made by each registration, numbered *)
  Messages,      (* messages that arrive                                   *)
  ObjectName,    (* the name each is for                                   *)
  OneWay         (* those whose message_id is 0                            *)

DispatchAssumption ==
  /\ ObjectName \in [Messages -> Names] /\ OneWay \subseteq Messages
  /\ Callbacks \subseteq Nat \ {0} /\ "*" \notin Names
  /\ "nothing" \notin Messages

VARIABLES
  registry,   (* name_resolver: map_, and any_callback_ as "*"             *)
  deleted,    (* dispatcher objects deleted                                *)
  received,   (* messages in the incoming queue                            *)
  at,         (* the message of each dispatcher                            *)
  target,     (* the object it has found for it                            *)
  calling,    (* the dispatchers that are in the call of their object      *)
  unused,     (* incoming_message objects whose already_used_ is FALSE     *)
  answers,    (* history: answers sent to each message: by the program, by the
                 agent as it knows no object, and as the object has thrown *)
  made,       (* history: dispatcher objects made                          *)
  gone,       (* history: those replaced, or that were to be unregistered  *)
  barred      (* history: those gone as a message came                     *)

dispatchVars == <<registry, deleted, received, at, target, calling, unused, answers, made, gone, barred>>

NoObject == 0
Nothing == "nothing"

(* The objects of a message: the dispatcher's own, and a thread's copy.    *)
Original(m) == <<m, "original">>
Copied(m) == <<m, "copy">>

Arrived(m) == m \in DOMAIN barred

Init ==
  /\ registry = [n \in Names \cup {"*"} |-> NoObject] /\ deleted = {}
  /\ received = {} /\ at = [d \in Dispatchers |-> Nothing]
  /\ target = [d \in Dispatchers |-> NoObject] /\ calling = {} /\ unused = {}
  /\ answers = [m \in Messages |-> [program |-> 0, unknown |-> 0, thrown |-> 0]]
  /\ made = {} /\ gone = {} /\ barred = <<>>

-----------------------------------------------------------------------------
(* Mutations of definitions below, for the runs that test the properties.  *)

(* The object is deleted and the name not erased.                          *)
ErasedNot(name) == registry

-----------------------------------------------------------------------------
(* name_resolver.                                                          *)

(* What had the name is deleted, but not an object for any name.           *)
Deleted(name) == IF name = "*" THEN {} ELSE {registry[name]} \ {NoObject}

Erased(name) == [registry EXCEPT ![name] = NoObject]

RegisterObject(name) ==
  /\ Callbacks # made
  /\ LET o == Min(Callbacks \ made)
     IN registry' = [registry EXCEPT ![name] = o] /\ made' = made \cup {o}
  /\ deleted' = deleted \cup Deleted(name) /\ gone' = gone \cup {registry[name]}
  /\ UNCHANGED <<received, at, target, calling, unused, answers, barred>>

UnregisterObject(name) ==
  /\ registry' = Erased(name)
  /\ deleted' = deleted \cup Deleted(name) /\ gone' = gone \cup {registry[name]}
  /\ UNCHANGED <<received, at, target, calling, unused, answers, made, barred>>

Resolve(name) == IF registry[name] # NoObject THEN registry[name] ELSE registry["*"]

-----------------------------------------------------------------------------
(* do_message_dispatching.                                                 *)

(* The worker.                                                             *)
ReceiveMessage(m) ==
  /\ ~Arrived(m)
  /\ received' = received \cup {m}
  /\ barred' = [n \in DOMAIN barred \cup {m} |-> IF n = m THEN gone ELSE barred[n]]
  /\ UNCHANGED <<registry, deleted, at, target, calling, unused, answers, made, gone>>

(* The order of the queue does not matter here.                            *)
Take(d) ==
  /\ at[d] = Nothing
  /\ \E m \in received :
       /\ received' = received \ {m} /\ at' = [at EXCEPT ![d] = m]
       /\ unused' = unused \cup {Original(m)}
  /\ UNCHANGED <<registry, deleted, target, calling, answers, made, gone, barred>>

Finish(d) ==
  /\ at' = [at EXCEPT ![d] = Nothing] /\ target' = [target EXCEPT ![d] = NoObject]
  /\ calling' = calling \ {d}

Answers(m, why) == [answers EXCEPT ![m][why] = @ + 1]

(* send_rejection; its failure is ignored, and a one-way message gets none. *)
Reject(m, why) ==
  \/ m \notin OneWay /\ answers' = Answers(m, why)
  \/ UNCHANGED answers

Find(d) ==
  /\ at[d] # Nothing /\ target[d] = NoObject /\ Resolve(ObjectName[at[d]]) # NoObject
  /\ target' = [target EXCEPT ![d] = Resolve(ObjectName[at[d]])]
  /\ UNCHANGED <<registry, deleted, received, at, calling, unused, answers, made, gone, barred>>

Call(d) ==
  /\ target[d] # NoObject /\ d \notin calling /\ calling' = calling \cup {d}
  /\ UNCHANGED <<registry, deleted, received, at, target, unused, answers, made, gone, barred>>

Unknown(d) ==
  /\ at[d] # Nothing /\ target[d] = NoObject /\ Resolve(ObjectName[at[d]]) = NoObject
  /\ Reject(at[d], "unknown") /\ Finish(d) /\ unused' = unused \ {Original(at[d])}
  /\ UNCHANGED <<registry, deleted, received, made, gone, barred>>

(* The object may call reply or reject, which a message that was used refuses; one
   whose answer could not be sent may be tried again.                      *)
ReplyWith(object, m) ==
  /\ object \in unused
  /\ answers' = Answers(m, "program") /\ unused' = unused \ {object}
  /\ UNCHANGED <<registry, deleted, received, at, target, calling, made, gone, barred>>

Reply(d) == d \in calling /\ ReplyWith(Original(at[d]), at[d])

(* The copy constructor: the copy may be used if this one might.           *)
Moved(m) ==
  IF Original(m) \in unused THEN (unused \ {Original(m)}) \cup {Copied(m)} ELSE unused

HandOn(d) ==
  /\ d \in calling /\ Original(at[d]) \in unused
  /\ unused' = Moved(at[d])
  /\ UNCHANGED <<registry, deleted, received, at, target, calling, answers, made, gone, barred>>

ReplyElsewhere(m) == ReplyWith(Copied(m), m)

(* An exception is answered by the agent, whatever the object has done.    *)
Throw(d) ==
  /\ d \in calling
  /\ Reject(at[d], "thrown") /\ Finish(d) /\ unused' = unused \ {Original(at[d])}
  /\ UNCHANGED <<registry, deleted, received, made, gone, barred>>

Return(d) ==
  /\ d \in calling
  /\ Finish(d) /\ unused' = unused \ {Original(at[d])}
  /\ UNCHANGED <<registry, deleted, received, answers, made, gone, barred>>

Next ==
  \/ \E name \in Names \cup {"*"} : RegisterObject(name) \/ UnregisterObject(name)
  \/ \E m \in Messages : ReceiveMessage(m) \/ ReplyElsewhere(m)
  \/ \E d \in Dispatchers :
       Take(d) \/ Find(d) \/ Call(d) \/ Unknown(d) \/ Reply(d) \/ HandOn(d) \/ Throw(d) \/ Return(d)

Spec == Init /\ [][Next]_dispatchVars

-----------------------------------------------------------------------------
(* Properties.                                                             *)

(* agent.h:160: "Only those messages that are received by agent after this function
   returns are guaranteed not to be dispatched to the unregistered object", nor to
   one that another has replaced; those received before may be.            *)
LaterNotDispatched ==
  \A d \in Dispatchers : target[d] # NoObject => target[d] \notin barred[at[d]]

(* The program answers a message once, whichever of its two objects it uses, and the
   agent once.  A message that is rejected as for no object has no other answer; one
   whose object throws may have two, in either order, if the object replies before
   it throws, or has handed the message on (agent_impl.cpp:1311-1350).     *)
TwoAnswersOnlyIfThrown ==
  \A m \in Messages :
    LET a == answers[m]
    IN a.program <= 1 /\ a.unknown + a.thrown <= 1 /\ a.unknown + a.program <= 1

(* A message goes to an object that was there when it came, and has two answers only
   when its object throws.                                                 *)
DispatchedRight == LaterNotDispatched /\ TwoAnswersOnlyIfThrown

(* incoming_message.h:98: "The reply (or rejection) can be sent only once."  *)
AnsweredOnlyOnce ==
  \A m \in Messages : answers[m].program + answers[m].unknown + answers[m].thrown <= 1

(* agent.h:157: "some of the messages that have been received by agent and not yet
   dispatched might be still dispatched shortly after this function returns": the
   object whose dispatch is called then is still there.                    *)
DispatchedToLiving ==
  [][\A d \in calling' \ calling : target[d] \notin deleted]_dispatchVars

=============================================================================
