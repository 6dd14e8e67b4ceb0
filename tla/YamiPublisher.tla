-------------------------- MODULE YamiPublisher --------------------------
(***************************************************************************)
(* The value publisher of the YAMI4 C++ library                            *)
(* (lib/yami4-gpl-1.6.0/src/cpp/value_publisher_impl.cpp): it keeps the    *)
(* listeners that have subscribed, each with the updates last sent to it,  *)
(* and drops those it cannot reach.                                        *)
(*                                                                         *)
(* A call holds the publisher's mutex from beginning to end; the agent's   *)
(* worker sends the updates meanwhile.  The updates of one publisher have  *)
(* one priority here.  The program neither unregisters nor destroys the    *)
(* publisher during a call, which the code does not protect against.       *)
(***************************************************************************)
EXTENDS Naturals, Sequences, SequencesExt, FiniteSetsExt

CONSTANTS
  Targets,        (* destination targets, numbered in the order of the map *)
  Objects,        (* destination objects                                   *)
  MaxQueueLength, (* max_queue_length; with 0 the code's behaviour is undefined *)
  Decisions       (* what the overflow dispatcher may decide               *)

PublisherAssumption ==
  /\ Targets \subseteq Nat /\ MaxQueueLength \in Nat \ {0}
  /\ Decisions \subseteq {"wait_for_previous_message", "abandon_message", "abandon_subscription"}

VARIABLES
  registered,     (* controlling_agent_ is not NULL                        *)
  subscriptions,  (* target -> its object, and the states of the updates kept *)
  live,           (* outgoing_message objects not yet deleted              *)
  links,          (* targets with a channel in the agent                   *)
  pc,             (* where the thread that publishes is; it holds the mutex unless idle *)
  it,             (* the subscriber it is at                               *)
  omit,           (* the subscriber's update it looks at                   *)
  lost            (* history: targets that had lost an update as it began  *)

publisherVars == <<registered, subscriptions, live, links, pc, it, omit, lost>>

NoSubscription == [object |-> "none", queue |-> <<>>]

Subscribers == {t \in Targets : subscriptions[t].object # "none"}
Queue(t) == subscriptions[t].queue

Unlocked == pc = "idle"

Init ==
  /\ registered = FALSE
  /\ subscriptions = [t \in Targets |-> NoSubscription]
  /\ live = 0 /\ links = {}
  /\ pc = "idle" /\ it = 0 /\ omit = 1 /\ lost = {}

-----------------------------------------------------------------------------
(* Mutations of definitions below, for the runs that test the properties.  *)

(* Who waits is not told of a message that is abandoned.                   *)
WaitIsOverIfSent(state) == state \in {"transmitted", "replied", "rejected"}

(* A message that was abandoned is removed like one that was sent.         *)
BreaksNever(state) == FALSE

-----------------------------------------------------------------------------
(* release_last_messages, and do_unsubscribe.                              *)

Released(t) == Len(Queue(t))

DoUnsubscribe(t) ==
  /\ subscriptions' = [subscriptions EXCEPT ![t] = NoSubscription]
  /\ live' = live - Released(t)

(* The next in the map.                                                    *)
After(t) ==
  LET rest == {s \in Subscribers : s > t} IN IF rest = {} THEN 0 ELSE Min(rest)

(* The loop goes on with subscriber t, or ends.                            *)
GoTo(t) ==
  /\ it' = t /\ omit' = 1
  /\ IF t = 0 THEN pc' = "idle" /\ lost' = {} ELSE pc' = "look" /\ UNCHANGED lost

-----------------------------------------------------------------------------
(* register_at, unregister, and the destructor, after which another publisher is
   made.                                                                   *)

RegisterAt ==
  /\ ~registered /\ registered' = TRUE
  /\ UNCHANGED <<subscriptions, live, links, pc, it, omit, lost>>

Unregister ==
  /\ registered /\ Unlocked
  /\ registered' = FALSE
  /\ UNCHANGED <<subscriptions, live, links, pc, it, omit, lost>>

Destroy ==
  /\ Unlocked
  /\ registered' = FALSE
  /\ subscriptions' = [t \in Targets |-> NoSubscription]
  /\ live' = live - MapThenSumSet(Released, Targets)
  /\ UNCHANGED <<links, pc, it, omit, lost>>

-----------------------------------------------------------------------------
(* Messages of listeners, operator().  Other messages go to the program's callback,
   as these do afterwards.                                                 *)

(* What the message does not say is taken from the message itself.         *)
DestinationTarget(m) == IF m.target # 0 THEN m.target ELSE m.source
DestinationObject(m) == IF m.object # "" THEN m.object ELSE m.objectName

(* The connection is opened, which may fail, when there is no subscription.  One
   that exists is refreshed: its messages are deleted, sent or not.        *)
Subscribe(target, object) ==
  /\ registered /\ Unlocked
  /\ \/ /\ target \notin Subscribers
        /\ links' = links \cup {target}
        /\ subscriptions' = [subscriptions EXCEPT ![target] = [object |-> object, queue |-> <<>>]]
        /\ UNCHANGED live
     \/ /\ target \in Subscribers
        /\ live' = live - Released(target)
        /\ subscriptions' = [subscriptions EXCEPT ![target] = [object |-> object, queue |-> <<>>]]
        /\ UNCHANGED links
  /\ UNCHANGED <<registered, pc, it, omit, lost>>

Unsubscribe(target) ==
  /\ Unlocked
  /\ target \in Subscribers /\ DoUnsubscribe(target)
  /\ UNCHANGED <<registered, links, pc, it, omit, lost>>

Requests ==
  [name : {"subscribe", "unsubscribe"}, target : Targets \cup {0}, source : Targets,
   object : Objects \cup {""}, objectName : Objects]

Handle ==
  \E m \in Requests :
    \/ m.name = "subscribe" /\ Subscribe(DestinationTarget(m), DestinationObject(m))
    \/ m.name = "unsubscribe" /\ Unsubscribe(DestinationTarget(m))

-----------------------------------------------------------------------------
(* publish.                                                                *)

Publish ==
  /\ registered /\ Unlocked /\ Subscribers # {}
  /\ pc' = "look" /\ it' = Min(Subscribers) /\ omit' = 1
  /\ lost' = {t \in Targets : Contains(Queue(t), "abandoned")}
  /\ UNCHANGED <<registered, subscriptions, live, links>>

Breaks(state) == state = "abandoned"

(* The states are read one after the other, as the worker changes them.    *)
Look ==
  /\ pc = "look" /\ omit \in DOMAIN Queue(it)
  /\ LET state == Queue(it)[omit]
     IN IF Breaks(state) THEN DoUnsubscribe(it) /\ GoTo(After(it))
        ELSE IF state = "posted"
        THEN omit' = omit + 1 /\ UNCHANGED <<subscriptions, live, pc, it, lost>>
        ELSE /\ subscriptions' = [subscriptions EXCEPT ![it].queue = RemoveAt(@, omit)]
             /\ live' = live - 1 /\ UNCHANGED <<pc, it, omit, lost>>
  /\ UNCHANGED <<registered, links>>

Looked ==
  /\ pc = "look" /\ omit \notin DOMAIN Queue(it)
  /\ pc' = IF Len(Queue(it)) >= MaxQueueLength THEN "full" ELSE "send"
  /\ UNCHANGED <<registered, subscriptions, live, links, it, omit, lost>>

(* The program decides; an exception is abandon_message.                   *)
Decide ==
  /\ pc = "full"
  /\ \E decision \in Decisions :
       \/ /\ decision = "wait_for_previous_message"
          /\ pc' = "wait" /\ UNCHANGED <<subscriptions, live, it, omit, lost>>
       \/ /\ decision = "abandon_message"
          /\ GoTo(After(it)) /\ UNCHANGED <<subscriptions, live>>
       \/ /\ decision = "abandon_subscription"
          /\ DoUnsubscribe(it) /\ GoTo(After(it))
  /\ UNCHANGED <<registered, links>>

(* wait_for_transmission returns as well when the message is abandoned.    *)
WaitIsOver(state) == state # "posted"

Waited ==
  /\ pc = "wait" /\ WaitIsOver(Head(Queue(it)))
  /\ subscriptions' = [subscriptions EXCEPT ![it].queue = Tail(@)]
  /\ live' = live - 1 /\ pc' = "send"
  /\ UNCHANGED <<registered, links, it, omit, lost>>

(* Without a channel the message cannot be sent, and for want of memory.   *)
Send ==
  /\ pc = "send"
  /\ \/ /\ it \in links
        /\ subscriptions' = [subscriptions EXCEPT ![it].queue = Append(@, "posted")]
        /\ live' = live + 1 /\ GoTo(After(it))
     \/ DoUnsubscribe(it) /\ GoTo(After(it))
  /\ UNCHANGED <<registered, links>>

-----------------------------------------------------------------------------
(* The agent: its worker writes a channel's messages in order, closes it with an
   error, and receives answers; other parts of the program open channels.  *)

Posted(t) == {k \in DOMAIN Queue(t) : Queue(t)[k] = "posted"}

Transmit(t) ==
  /\ Posted(t) # {} /\ t \in links
  /\ subscriptions' = [subscriptions EXCEPT ![t].queue[Min(Posted(t))] = "transmitted"]
  /\ UNCHANGED <<registered, live, links, pc, it, omit, lost>>

Answer(t) ==
  /\ \E k \in DOMAIN Queue(t), state \in {"replied", "rejected"} :
       /\ Queue(t)[k] = "transmitted"
       /\ subscriptions' = [subscriptions EXCEPT ![t].queue[k] = state]
  /\ UNCHANGED <<registered, live, links, pc, it, omit, lost>>

Break(t) ==
  /\ t \in links /\ links' = links \ {t}
  /\ subscriptions' = [subscriptions EXCEPT ![t].queue =
       [k \in DOMAIN @ |-> IF @[k] = "posted" THEN "abandoned" ELSE @[k]]]
  /\ UNCHANGED <<registered, live, pc, it, omit, lost>>

Reconnect(t) ==
  /\ t \notin links /\ links' = links \cup {t}
  /\ UNCHANGED <<registered, subscriptions, live, pc, it, omit, lost>>

Continue == Look \/ Looked \/ Decide \/ Waited \/ Send

Next ==
  \/ RegisterAt \/ Unregister \/ Destroy \/ Handle
  \/ Publish \/ Continue
  \/ \E t \in Targets : Transmit(t) \/ Answer(t) \/ Break(t) \/ Reconnect(t)

(* A user in a call goes on, and the worker writes what a channel takes.   *)
Fairness ==
  /\ WF_publisherVars(Continue)
  /\ \A t \in Targets : WF_publisherVars(Transmit(t))

Spec == Init /\ [][Next]_publisherVars
FairSpec == Spec /\ Fairness

-----------------------------------------------------------------------------
(* Properties.                                                             *)

(* Every message object is kept in one subscriber's list, in at most
   max_queue_length places, and deleted when it leaves it: as it is seen to be
   sent, waited for, or when the subscriber is refreshed, dropped or destroyed. *)
UpdatesKept ==
  /\ live = MapThenSumSet(LAMBDA t : Len(Queue(t)), Targets)
  /\ \A t \in Targets : Len(Queue(t)) <= MaxQueueLength

(* value_publisher.h:151: "In case of any errors or communication problems, the
   problematic listener is automatically unsubscribed": who had lost an update
   before a publish began is no subscriber when it ends, though its channel was
   opened again in between.  Of an update that is lost during a publish it says
   nothing: one that the publish waits for is forgotten when it is abandoned, and its
   listener stays subscribed if the channel is open again by then
   (value_publisher_impl.cpp, wait_for_transmission and pop_front).        *)
LosersDropped ==
  [][~Unlocked /\ Unlocked' => \A t \in lost : subscriptions'[t] = NoSubscription]_publisherVars

(* A subscriber is kept with its updates, in a list that is not too long, until one
   of them is lost.                                                        *)
SubscribersKept == []UpdatesKept /\ LosersDropped

(* A publish ends, whatever is decided of full lists: the message it waits for with
   the mutex held is sent or abandoned.  That rests on the fairness of Transmit: each
   subscriber that is connected goes on reading.                           *)
PublishEnds == ~Unlocked ~> Unlocked

=============================================================================
