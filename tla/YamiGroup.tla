---------------------------- MODULE YamiGroup ----------------------------
(***************************************************************************)
(* The channels of one YAMI4 agent (core/channel_group.cpp): threads of    *)
(* the user open channels, post messages to them and close them, while the *)
(* worker thread waits for the channels to be ready, reads, writes and     *)
(* calls back.  All share one mutex, which is given up around every call   *)
(* of user code; channels are kept alive by counting references.           *)
(*                                                                         *)
(* A behaviour ends when the code touches what it has freed: what the      *)
(* program does from there is undefined.                                   *)
(***************************************************************************)
EXTENDS YamiChannel, FiniteSets, Functions

CONSTANTS
  Users,        (* threads that call the agent                             *)
  Targets,      (* addresses they open                                     *)
  Channels,     (* channel objects that are ever allocated                 *)
  Messages,     (* messages that are ever posted                           *)
  Header, Body, Priority, (* of each message: words, words, number         *)
  ClosePriorities, (* priorities with which channels are closed            *)
  Settings,     (* circumstances of a behaviour, see setting               *)
  InitialBlock, (* size of the first table of channels: 10 in the code     *)
  MaxPins,      (* references of a listener are not counted beyond this    *)
  None          (* no channel                                              *)

Gone == None (* what is left of a channel that was freed *)

ASSUME GroupAssumption ==
  /\ None \notin Channels \cup Targets /\ Channels \cap Targets = {}
  /\ Header \in [Messages -> Nat \ {0}] /\ Body \in [Messages -> Nat \ {0}]
  /\ Priority \in [Messages -> Nat] /\ ClosePriorities \subseteq Nat
  /\ InitialBlock \in Nat \ {0} /\ MaxPins \in Nat \ {0, 1}
  /\ \A s \in Settings : /\ s.datagrams \subseteq Targets /\ s.messages \subseteq Messages
                         /\ s.listens \in BOOLEAN /\ s.failures \in Nat

VARIABLES
  setting,    (* what does not change: the targets reached with datagrams, the
                 frames each peer sends, the messages that may be posted, whether
                 the program has a listener, how many allocations may fail *)
  channels,   (* the channel objects                                       *)
  life,       (* "unused", "private" to its creator, "listed", "freed"     *)
  holders,    (* table of channels: channel, sequence number, reserved     *)
  user,       (* where each thread is, in which channel, with which frames *)
  handle,     (* descriptor each thread got from its last open             *)
  worker,     (* the worker: place, what it watches, serves and has pinned *)
  locked,     (* the worker has the mutex between two of its steps         *)
  interrupts, (* bytes in the pipe that wakes the selector                 *)
  link,       (* what the peer of each channel has still to send           *)
  listener,   (* state and references of the agent's listener              *)
  closing,    (* the agent is being destroyed                              *)
  failures    (* allocations that failed                                   *)

VARIABLES     (* history, read by no action                                *)
  postedTo,   (* channel a message was posted to                           *)
  via,        (* channel of the descriptor it was posted with              *)
  notices,    (* final notifications its sender was given                  *)
  wire,       (* frames completely written to each channel                 *)
  delivered,  (* messages given to the user, per channel                   *)
  undefined   (* freed memory was used                                     *)

tableVars == <<channels, life, holders>>
threadVars == <<user, handle>>
workVars == <<worker, locked>>
envVars == <<setting, link, listener, closing, failures>>
historyVars == <<postedTo, via, notices, wire, delivered, undefined>>
vars == <<tableVars, threadVars, workVars, interrupts, envVars, historyVars>>

IdleUser == [pc |-> "idle", ch |-> None, target |-> None, cut |-> <<>>]
IdleWorker == [pc |-> "idle", pins |-> {}, poll |-> <<>>, todo |-> <<>>]
EmptyHolder == [ch |-> None, seq |-> 0, reserved |-> FALSE]

Init ==
  /\ setting \in Settings
  /\ channels = [o \in Channels |-> Gone]
  /\ life = [o \in Channels |-> "unused"]
  /\ holders = <<>>
  /\ user = [u \in Users |-> IdleUser]
  /\ handle = [u \in Users |-> [index |-> 0, seq |-> 0, ch |-> None]]
  /\ worker = IdleWorker
  /\ locked = FALSE
  /\ interrupts = 0
  /\ link = [o \in Channels |-> <<>>]
  /\ listener = [state |-> "none", refs |-> 0]
  /\ closing = FALSE
  /\ failures = 0
  /\ postedTo = [m \in Messages |-> None]
  /\ via = [m \in Messages |-> None]
  /\ notices = [m \in Messages |-> <<>>]
  /\ wire = [o \in Channels |-> <<>>]
  /\ delivered = [o \in Channels |-> <<>>]
  /\ undefined = FALSE

-----------------------------------------------------------------------------
(* Mutations of definitions below, for the runs that test the properties.  *)

(* post does not wake the worker.                                          *)
WakesNobody(ch) == 0

(* open does not count what a slot has held.                               *)
SetHolderAsItWas(table, i, o, reserve) ==
  [table EXCEPT ![i] = [ch |-> o, seq |-> 1, reserved |-> reserve]]

-----------------------------------------------------------------------------
(* The table of channels.                                                  *)

IsDatagram(t) == t \in setting.datagrams

(* Index of the first listed channel with this target, 0 if there is none. *)
Find(t) ==
  LET found == {i \in 1 .. Len(holders) :
                  holders[i].ch # None /\ channels[holders[i].ch].target = t}
  IN IF found = {} THEN 0 ELSE CHOOSE i \in found : \A j \in found : i <= j

FreeSlots(table) ==
  {i \in 1 .. Len(table) : table[i].ch = None /\ ~table[i].reserved}

(* The table grows to the first block, then to twice its size.             *)
Grown ==
  holders \o [i \in 1 .. (IF Len(holders) < InitialBlock
                          THEN InitialBlock - Len(holders) ELSE Len(holders))
                |-> EmptyHolder]

(* The table and the slot of it for a new channel.                         *)
Room == IF FreeSlots(holders) # {} THEN holders ELSE Grown
SlotIn(table) == CHOOSE i \in FreeSlots(table) : \A j \in FreeSlots(table) : i <= j

(* A slot counts the channels it has held.                                 *)
SetHolder(table, i, o, reserve) ==
  [table EXCEPT ![i] = [ch |-> o, seq |-> @.seq + 1, reserved |-> reserve]]
CleanHolder(o) ==
  [i \in 1 .. Len(holders) |->
     IF holders[i].ch = o THEN [holders[i] EXCEPT !.ch = None, !.reserved = FALSE]
     ELSE holders[i]]

Descriptor(i, seq, o) == [index |-> i, seq |-> seq, ch |-> o]
FindByHandle(h) ==
  IF h.index \in 1 .. Len(holders) /\ holders[h.index].seq = h.seq THEN h.index ELSE 0

(* The channels a call of thread u reaches: by the target, or by u's
   descriptor.                                                             *)
Reached(u, how) ==
  LET i == IF how \in Targets THEN Find(how) ELSE FindByHandle(handle[u])
  IN IF i = 0 \/ holders[i].ch = None THEN {} ELSE {holders[i].ch}

(* The senders of these messages are told once more.                       *)
Told(msgs, what) ==
  [m \in Messages |-> IF m \in msgs THEN Append(notices[m], what) ELSE notices[m]]

(* One reference of o less, o being as in ch: the last one takes the channel
   out of the table and destroys it with all it still had to send.         *)
Unref(o, ch) ==
  IF ch.refs > 1
  THEN /\ channels' = [channels EXCEPT ![o] = [ch EXCEPT !.refs = @ - 1]]
       /\ UNCHANGED <<life, holders, notices>>
  ELSE /\ channels' = [channels EXCEPT ![o] = Gone]
       /\ life' = [life EXCEPT ![o] = "freed"]
       /\ holders' = CleanHolder(o)
       /\ notices' = Told(Cancelled(ch.out), "cancelled")

(* The worker goes through the channels it has pinned in the order of the table,
   of which it has a copy; it is at the first it has still to serve.       *)
First(os) ==
  LET slots == {i \in 1 .. Len(holders) : holders[i].ch \in os}
  IN holders[CHOOSE i \in slots : \A j \in slots : i <= j].ch
Now == First(DOMAIN worker.todo)

(* User code is reading what the worker has read from channel o.           *)
BeingDispatched(o) == worker.pc = "dispatching" /\ Now = o

(* A call of a user's thread gets the mutex.                               *)
Enters(u) == user[u].pc = "idle" /\ ~locked /\ ~closing /\ ~undefined

Fails == failures < setting.failures /\ failures' = failures + 1

-----------------------------------------------------------------------------
(* Calls of the user's threads.                                            *)

(* open: a channel with this target is returned as it is, even when it is being
   closed; otherwise a new one is connected with the mutex unlocked.       *)
OpenFind(u, t) ==
  /\ Enters(u)
  /\ IF Find(t) # 0
     THEN LET i == Find(t)
          IN /\ handle' = [handle EXCEPT ![u] = Descriptor(i, holders[i].seq, holders[i].ch)]
             /\ UNCHANGED <<user, life>>
     ELSE \E o \in Channels :
            /\ life[o] = "unused"
            /\ life' = [life EXCEPT ![o] = "private"]
            /\ user' = [user EXCEPT ![u] = [@ EXCEPT !.pc = "connecting", !.ch = o, !.target = t]]
            /\ UNCHANGED handle
  /\ UNCHANGED <<channels, holders, workVars, interrupts, envVars, historyVars>>

Discard(u, o) ==
  /\ life' = [life EXCEPT ![o] = "freed"]
  /\ UNCHANGED <<channels, holders, interrupts, link>>

(* Connected: the table is looked at again, as another thread may have opened a
   channel with the same target in the meantime.                           *)
AddChannel(u) ==
  LET o == user[u].ch
      t == user[u].target
  IN /\ user[u].pc = "connecting" /\ ~locked /\ ~undefined
     /\ user' = [user EXCEPT ![u] = IdleUser]
     /\ \/ /\ Find(t) # 0
           /\ handle' = [handle EXCEPT ![u] =
                           Descriptor(Find(t), holders[Find(t)].seq, holders[Find(t)].ch)]
           /\ Discard(u, o) /\ UNCHANGED failures
        \/ /\ Find(t) = 0
           /\ LET i == SlotIn(Room)
              IN /\ holders' = SetHolder(Room, i, o, TRUE)
                 /\ handle' = [handle EXCEPT ![u] = Descriptor(i, Room[i].seq + 1, o)]
           /\ channels' = [channels EXCEPT ![o] = NewChannel(t, IsDatagram(t), "inout")]
           /\ life' = [life EXCEPT ![o] = "listed"]
           /\ link' = [link EXCEPT ![o] = setting.script]
           /\ interrupts' = interrupts + 1
           /\ UNCHANGED failures
        \/ /\ Find(t) = 0 /\ FreeSlots(holders) = {} /\ Fails
           /\ Discard(u, o) /\ UNCHANGED handle
     /\ UNCHANGED <<workVars, setting, listener, closing, historyVars>>

(* No connection can be made.                                              *)
ConnectFails(u) ==
  /\ user[u].pc = "connecting" /\ ~undefined
  /\ user' = [user EXCEPT ![u] = IdleUser]
  /\ life' = [life EXCEPT ![user[u].ch] = "freed"]
  /\ UNCHANGED <<channels, holders, handle, workVars, interrupts, envVars, historyVars>>

(* post: the frames of the message are put into the queue of the channel.  The
   worker is woken when the queue was empty.                               *)
FirstFrame(ch) == ch.out = <<>>
Wakes(ch) == IF FirstFrame(ch) THEN 1 ELSE 0

Post(u, m, how) ==
  /\ Enters(u) /\ m \in setting.messages /\ postedTo[m] = None
  /\ \E o \in Reached(u, how) :
       LET ch == channels[o]
       IN /\ ch.mode = "operational"
          /\ channels' = [channels EXCEPT ![o] =
               Insert(ch, Frames(m, m, Header[m], Body[m], Priority[m]), Priority[m])]
          /\ interrupts' = interrupts + Wakes(ch)
          /\ postedTo' = [postedTo EXCEPT ![m] = o]
          /\ via' = [via EXCEPT ![m] = IF how \in Targets THEN o ELSE handle[u].ch]
  /\ UNCHANGED <<life, holders, threadVars, workVars, envVars, notices, wire, delivered, undefined>>

(* close of a channel that has nothing to send: it goes at once, unless the
   worker has it pinned, which is then woken to let it go.  The worker's reading
   is dropped, under the hands of user code if that is looking at it.      *)
CloseAtOnce(u, how) ==
  /\ Enters(u)
  /\ \E o \in Reached(u, how) :
       /\ channels[o].mode = "operational" /\ channels[o].out = <<>>
       /\ Unref(o, CleanIncoming(HardClose(channels[o])))
       /\ interrupts' = interrupts + (IF channels[o].refs > 1 THEN 1 ELSE 0)
       /\ undefined' = BeingDispatched(o)
  /\ UNCHANGED <<threadVars, workVars, envVars, postedTo, via, wire, delivered>>

(* close of one that has: the poison pill goes into the queue, and what it cuts
   off is gone through with the mutex given up for each message.           *)
ClosePosts(u, how, priority) ==
  /\ Enters(u)
  /\ \E o \in Reached(u, how) :
       LET ch == channels[o]
           closed == InsertPill(ch, None, priority)
       IN /\ ch.mode = "operational" /\ ch.out # <<>>
          /\ IF CutOff(ch, priority) = <<>>
             THEN /\ channels' = [channels EXCEPT ![o] = CleanIncoming(closed)]
                  /\ undefined' = BeingDispatched(o)
                  /\ UNCHANGED user
             ELSE /\ channels' = [channels EXCEPT ![o] = closed]
                  /\ user' = [user EXCEPT ![u] = [@ EXCEPT !.pc = "cancelling", !.ch = o,
                                                           !.cut = CutOff(ch, priority)]]
                  /\ UNCHANGED undefined
  /\ UNCHANGED <<life, holders, handle, workVars, interrupts, envVars,
                 postedTo, via, notices, wire, delivered>>

(* The senders were told, the mutex is taken again.  The channel has not been
   pinned for this thread: the worker may have destroyed it by now.        *)
CloseCleans(u) ==
  LET o == user[u].ch
  IN /\ user[u].pc = "cancelling" /\ ~locked /\ ~undefined
     /\ user' = [user EXCEPT ![u] = IdleUser]
     /\ notices' = Told(Cancelled(user[u].cut), "cancelled")
     /\ channels' = IF life[o] = "listed"
                    THEN [channels EXCEPT ![o] = CleanIncoming(@)] ELSE channels
     /\ undefined' = (life[o] = "freed" \/ BeingDispatched(o))
     /\ UNCHANGED <<life, holders, handle, workVars, interrupts, envVars,
                    postedTo, via, wire, delivered>>

(* No memory for the pill: the channel stays open, but what was read is dropped
   all the same.                                                           *)
CloseFails(u, how) ==
  /\ Enters(u) /\ Fails
  /\ \E o \in Reached(u, how) :
       /\ channels[o].mode = "operational" /\ channels[o].out # <<>>
       /\ channels' = [channels EXCEPT ![o] = CleanIncoming(@)]
       /\ undefined' = BeingDispatched(o)
  /\ UNCHANGED <<life, holders, threadVars, workVars, interrupts, setting, link, listener, closing,
                 postedTo, via, notices, wire, delivered>>

(* The listener of the agent.                                              *)
AddListener(u) ==
  /\ Enters(u) /\ setting.listens /\ listener.state = "none"
  /\ listener' = [state |-> "listening", refs |-> 1]
  /\ interrupts' = interrupts + 1
  /\ UNCHANGED <<tableVars, threadVars, workVars, setting, link, closing, failures, historyVars>>

Pruned(l) == IF l.refs = 0 THEN [state |-> "removed", refs |-> 0] ELSE l

RemoveListener(u) ==
  /\ Enters(u) /\ listener.state = "listening"
  /\ listener' = Pruned([listener EXCEPT !.refs = @ - 1])
  /\ UNCHANGED <<tableVars, threadVars, workVars, interrupts, setting, link, closing, failures, historyVars>>

(* The agent is destroyed when no thread is in it: every channel is cleaned, which
   tells the senders of what was not sent.                                 *)
Clean ==
  /\ ~closing /\ ~undefined /\ worker.pc = "idle" /\ \A u \in Users : user[u].pc = "idle"
  /\ closing' = TRUE
  /\ notices' = Told(UNION {Cancelled(channels[o].out) : o \in {c \in Channels : life[c] = "listed"}},
                     "cancelled")
  /\ life' = [o \in Channels |-> IF life[o] = "listed" THEN "freed" ELSE life[o]]
  /\ channels' = [o \in Channels |-> Gone]
  /\ holders' = <<>>
  /\ listener' = [state |-> "removed", refs |-> 0]
  /\ UNCHANGED <<threadVars, workVars, interrupts, setting, link, failures,
                 postedTo, via, wire, delivered, undefined>>

-----------------------------------------------------------------------------
(* The worker: do_some_work.                                               *)

Chan == channels[Now]
At(pc) == [worker EXCEPT !.pc = pc]

(* The table is copied, everything in it is pinned, and the selector is told what
   to watch: a queue that is filled later is not watched.                  *)
Interest(ch) == {d \in {"input", "output"} :
                   IF d = "input" THEN WantsInput(ch) ELSE WantsOutput(ch)}

PinAll ==
  LET shadow == {holders[i].ch : i \in 1 .. Len(holders)} \ {None}
  IN /\ worker.pc = "idle" /\ ~closing /\ ~undefined
     /\ channels' = [o \in Channels |-> IF o \in shadow
                                        THEN [channels[o] EXCEPT !.refs = @ + 1] ELSE channels[o]]
     /\ listener' = IF listener.state = "listening"
                    THEN [listener EXCEPT !.refs = Smaller(@ + 1, MaxPins)] ELSE listener
     /\ worker' = [pc |-> "waiting", pins |-> shadow, todo |-> <<>>,
                   poll |-> [o \in shadow |-> Interest(channels[o])]]
     /\ UNCHANGED <<life, holders, threadVars, locked, interrupts, setting, link, closing, failures,
                    historyVars>>

(* The selector reports some of the channels it watches, or the wait was
   interrupted, which takes one byte out of the pipe.                      *)
Wake(ready) ==
  /\ worker.pc = "waiting" /\ ~undefined
  /\ interrupts > 0 \/ \E o \in DOMAIN ready : ready[o] # {}
  /\ interrupts' = IF interrupts > 0 THEN interrupts - 1 ELSE 0
  /\ worker' = [worker EXCEPT !.pc = "serving", !.poll = <<>>,
                              !.todo = Restrict(ready, {o \in DOMAIN ready : ready[o] # {}})]
  /\ locked' = TRUE
  /\ UNCHANGED <<tableVars, threadVars, envVars, historyVars>>

Reports == {r \in [DOMAIN worker.poll -> SUBSET {"input", "output"}] :
              \A o \in DOMAIN worker.poll : r[o] \subseteq worker.poll[o]}

TimedOut ==
  /\ worker.pc = "waiting" /\ ~undefined
  /\ worker' = [worker EXCEPT !.pc = "unpinning", !.poll = <<>>]
  /\ locked' = TRUE
  /\ UNCHANGED <<tableVars, threadVars, interrupts, envVars, historyVars>>

(* What becomes of the loop over the channels that are ready: on an error the
   rest of them, and the listener, are left for the next time.             *)
Continue == [worker EXCEPT !.pc = "serving", !.todo = Restrict(@, DOMAIN @ \ {Now})]
Abort == [worker EXCEPT !.pc = "unpinning", !.todo = <<>>]

(* do_some_work of the channel: input, then output if nothing went wrong.  *)
NoInput ==
  /\ worker.pc = "serving" /\ DOMAIN worker.todo # {}
  /\ Chan.mode # "operational" \/ "input" \notin worker.todo[Now]
  /\ worker' = At("output")
  /\ UNCHANGED <<tableVars, threadVars, locked, interrupts, envVars, historyVars>>

MayRead == /\ worker.pc = "serving" /\ DOMAIN worker.todo # {} /\ ~undefined
           /\ Chan.mode = "operational" /\ "input" \in worker.todo[Now]

AfterInput == /\ UNCHANGED <<life, holders, threadVars, locked, interrupts, setting, listener, closing>>
              /\ UNCHANGED <<postedTo, via, notices, wire, undefined>>

(* Input that ends the connection: the peer has closed it, an I/O error, or a
   frame that cannot be.  After an error what was read is dropped.  A read of
   nothing looks like the end of the stream, which is what happens after there was
   no memory for a payload; one of a payload that a failed close has dropped
   fails.                                                                  *)
CloseMe(ch) == Unref(Now, HardClose(ch))

(* The same where only the table's reference goes, the worker having its own. *)
CloseReading(ch) == [HardClose(ch) EXCEPT !.refs = @ - 1]

InputEnds ==
  /\ MayRead
  /\ \/ ~Chan.datagram /\ CloseMe(Chan) /\ worker' = Continue
     \/ CloseMe(CleanIncoming(Chan)) /\ worker' = Abort
  /\ UNCHANGED <<threadVars, locked, interrupts, envVars, postedTo, via, wire, delivered,
                 undefined>>

Readable(n) ==
  /\ MayRead /\ ~Chan.datagram /\ link[Now] # <<>>
  /\ n \in 1 .. RestOfInput(Chan, Head(link[Now]))
  /\ Chan.inState = "payload" => Chan.payload

ReadPart(n) ==
  /\ Readable(n) /\ n < RestOfInput(Chan, Head(link[Now]))
  /\ channels' = [channels EXCEPT ![Now] = PartRead(@, n)]
  /\ worker' = At("output")
  /\ AfterInput /\ UNCHANGED <<link, failures, delivered>>

ReadHeader(n) ==
  /\ Readable(n) /\ n = RestOfInput(Chan, Head(link[Now])) /\ Chan.inState = "header"
  /\ \/ /\ PayloadAcceptable(Head(link[Now]))
        /\ channels' = [channels EXCEPT ![Now] = BeginPayload(@)]
        /\ worker' = At("output") /\ UNCHANGED failures
     \/ /\ PayloadAcceptable(Head(link[Now])) /\ Fails
        /\ channels' = [channels EXCEPT ![Now] = PartRead(@, n)]
        /\ worker' = Abort
     \/ /\ ~PayloadAcceptable(Head(link[Now]))
        /\ channels' = [channels EXCEPT ![Now] = CloseReading(@)]
        /\ worker' = Abort /\ UNCHANGED failures
  /\ AfterInput /\ UNCHANGED <<link, delivered>>

(* A whole frame has come.  ch is the channel as the read leaves it.       *)
Deliver(list) == delivered' = [delivered EXCEPT ![Now] = Append(@, Delivery(list))]

FrameComes(ch, frame) ==
  \/ /\ IsShort(frame) /\ ShortAcceptable(frame)
     /\ Deliver(AsList(frame))
     /\ channels' = [channels EXCEPT ![Now] = ch]
     /\ worker' = At("dispatching") /\ locked' = FALSE /\ UNCHANGED failures
  \/ /\ IsShort(frame) /\ ~ShortAcceptable(frame)
     /\ channels' = [channels EXCEPT ![Now] =
          IF ch.datagram THEN [ch EXCEPT !.payload = FALSE]
          ELSE CloseReading([ch EXCEPT !.payload = FALSE])]
     /\ worker' = IF ch.datagram THEN At("output") ELSE Abort
     /\ UNCHANGED <<locked, delivered, failures>>
  \/ LET stored == StoreFrame(ch, frame)
         list == stored.lists[ListOf(stored, frame.id)]
     IN /\ ~IsShort(frame)
        /\ channels' = [channels EXCEPT ![Now] = stored]
        /\ IF Complete(list)
           THEN Deliver(list) /\ worker' = At("dispatching") /\ locked' = FALSE
           ELSE worker' = At("output") /\ UNCHANGED <<locked, delivered>>
        /\ UNCHANGED failures
  \/ /\ ~IsShort(frame) /\ Fails
     /\ channels' = [channels EXCEPT ![Now] = [ch EXCEPT !.payload = FALSE]]
     /\ worker' = IF ch.datagram THEN At("output") ELSE Abort
     /\ UNCHANGED <<locked, delivered>>

AfterFrame ==
  /\ link' = [link EXCEPT ![Now] = Tail(@)]
  /\ UNCHANGED <<life, holders, threadVars, interrupts, setting, listener, closing>>
  /\ UNCHANGED <<postedTo, via, notices, wire, undefined>>

ReadPayload(n) ==
  /\ Readable(n) /\ n = RestOfInput(Chan, Head(link[Now])) /\ Chan.inState = "payload"
  /\ FrameComes(FrameRead(Chan), Head(link[Now]))
  /\ AfterFrame

ReadDatagram ==
  /\ MayRead /\ Chan.datagram /\ link[Now] # <<>>
  /\ FrameComes([Chan EXCEPT !.payload = TRUE], Head(link[Now]))
  /\ AfterFrame

(* User code has seen the message: its frames are let go.                  *)
Dispatched ==
  LET last == delivered[Now][Len(delivered[Now])].id
  IN /\ worker.pc = "dispatching" /\ ~undefined
     /\ channels' = [channels EXCEPT ![Now] =
          IF @.payload THEN [@ EXCEPT !.payload = FALSE]
          ELSE IF HasList(@, last) THEN WithoutList(@, last) ELSE @]
     /\ worker' = At("output") /\ locked' = TRUE
     /\ UNCHANGED <<life, holders, threadVars, interrupts, envVars, historyVars>>

(* Output.                                                                 *)
MayWrite == /\ worker.pc = "output" /\ ~undefined
            /\ Chan.mode \in {"operational", "soft_close"}
            /\ "output" \in worker.todo[Now]

NoOutput ==
  /\ worker.pc = "output" /\ ~MayWrite /\ ~undefined
  /\ worker' = Continue
  /\ UNCHANGED <<tableVars, threadVars, locked, interrupts, envVars, historyVars>>

(* The pill has come to the front: all before it has been sent.            *)
PillReached ==
  /\ MayWrite /\ Head(Chan.out).close
  /\ CloseMe(Chan)
  /\ worker' = Continue
  /\ UNCHANGED <<threadVars, locked, interrupts, envVars, postedTo, via, wire, delivered,
                 undefined>>

WriteFails ==
  /\ MayWrite /\ ~Head(Chan.out).close
  /\ CloseMe(Chan)
  /\ worker' = Abort
  /\ UNCHANGED <<threadVars, locked, interrupts, envVars, postedTo, via, wire, delivered,
                 undefined>>

WritePart(n) ==
  /\ MayWrite /\ ~Head(Chan.out).close /\ ~Chan.datagram
  /\ n < RestOfFrame(Chan)
  /\ channels' = [channels EXCEPT ![Now] = Written(@, n)]
  /\ worker' = Continue
  /\ UNCHANGED <<life, holders, threadVars, locked, interrupts, envVars, historyVars>>

(* The rest of the frame is written; its sender is told with the mutex given up
   and the frame still in the queue.                                       *)
WriteRest ==
  /\ MayWrite /\ ~Head(Chan.out).close
  /\ wire' = [wire EXCEPT ![Now] = Append(@, Head(Chan.out))]
  /\ channels' = [channels EXCEPT ![Now] = Written(@, RestOfFrame(@))]
  /\ notices' = Told(IF Head(Chan.out).last THEN {Head(Chan.out).msg} ELSE {}, "sent")
  /\ worker' = At("progress") /\ locked' = FALSE
  /\ UNCHANGED <<life, holders, threadVars, interrupts, envVars, postedTo, via, delivered,
                 undefined>>

Consume ==
  /\ worker.pc = "progress" /\ ~undefined
  /\ channels' = [channels EXCEPT ![Now] = ConsumeFrame(@)]
  /\ worker' = Continue /\ locked' = TRUE
  /\ UNCHANGED <<life, holders, threadVars, interrupts, envVars, historyVars>>

(* The channels are served: the listener takes a connection, if one is there and
   reported.  Its channel is not pinned while the user is told of it.      *)
Accept(o) ==
  /\ worker.pc = "serving" /\ DOMAIN worker.todo = {} /\ listener.state = "listening"
  /\ ~undefined /\ life[o] = "unused"
  /\ LET i == SlotIn(Room)
     IN holders' = SetHolder(Room, i, o, FALSE)
  /\ channels' = [channels EXCEPT ![o] = NewChannel(o, FALSE, "inout")]
  /\ life' = [life EXCEPT ![o] = "listed"]
  /\ link' = [link EXCEPT ![o] = setting.script]
  /\ worker' = At("hook") /\ locked' = FALSE
  /\ UNCHANGED <<threadVars, interrupts, setting, listener, closing, failures, historyVars>>

Served ==
  /\ \/ worker.pc = "serving" /\ DOMAIN worker.todo = {}
     \/ worker.pc = "hook"
  /\ ~undefined
  /\ worker' = At("unpinning") /\ locked' = TRUE
  /\ UNCHANGED <<tableVars, threadVars, interrupts, envVars, historyVars>>

(* One of the pinned channels is let go, with the mutex given up when that was
   its last reference.                                                     *)
Unpin ==
  /\ worker.pc = "unpinning" /\ worker.pins # {} /\ ~undefined
  /\ Unref(First(worker.pins), channels[First(worker.pins)])
  /\ worker' = [worker EXCEPT !.pins = @ \ {First(@)}]
  /\ UNCHANGED <<threadVars, locked, interrupts, envVars, postedTo, via, wire, delivered,
                 undefined>>

WorkDone ==
  /\ worker.pc = "unpinning" /\ worker.pins = {} /\ ~undefined
  /\ worker' = IdleWorker /\ locked' = FALSE
  /\ listener' = IF listener.state = "listening" THEN Pruned(listener) ELSE listener
  /\ UNCHANGED <<tableVars, threadVars, interrupts, setting, link, closing, failures, historyVars>>

-----------------------------------------------------------------------------
UserCall(u) ==
  \/ \E t \in Targets : OpenFind(u, t)
  \/ \E m \in Messages, how \in Targets \cup {"descriptor"} : Post(u, m, how)
  \/ \E how \in Targets \cup {"descriptor"} : CloseAtOnce(u, how) \/ CloseFails(u, how)
  \/ \E how \in Targets \cup {"descriptor"}, p \in ClosePriorities : ClosePosts(u, how, p)
  \/ AddListener(u) \/ RemoveListener(u)

UserContinues(u) == AddChannel(u) \/ ConnectFails(u) \/ CloseCleans(u)

Serve ==
  \/ NoInput \/ InputEnds
  \/ \E n \in {1, HeadSize} : ReadPart(n) \/ ReadHeader(n)
  \/ \E n \in 1 .. FramePayload : ReadPayload(n)
  \/ ReadDatagram \/ Dispatched
  \/ NoOutput \/ PillReached \/ WriteFails \/ WritePart(1) \/ WriteRest \/ Consume

WorkerStep ==
  \/ PinAll \/ Serve
  \/ \E o \in Channels : Accept(o)
  \/ Served \/ Unpin \/ WorkDone

Next ==
  \/ \E u \in Users : UserCall(u) \/ UserContinues(u)
  \/ WorkerStep \/ (\E r \in Reports : Wake(r)) \/ TimedOut
  \/ Clean

Spec == Init /\ [][Next]_vars

(* The worker's thread runs, and a thread that waits for the mutex gets it in
   the end.  A peer that reads makes its channel ready for output again and
   again; nothing has to time out, to come in or to be called.             *)
ReportsOutput(o) ==
  \E r \in Reports : o \in DOMAIN r /\ "output" \in r[o] /\ Wake(r)

Fairness ==
  /\ WF_vars(PinAll) /\ WF_vars(Serve) /\ WF_vars(Served)
  /\ WF_vars(Unpin) /\ WF_vars(WorkDone)
  /\ WF_vars(interrupts > 0 /\ \E r \in Reports : Wake(r))
  /\ \A o \in Channels : SF_vars(ReportsOutput(o))
  /\ \A u \in Users : SF_vars((AddChannel(u) \/ CloseCleans(u)))

FairSpec == Spec /\ Fairness

-----------------------------------------------------------------------------
(* Properties.                                                             *)

Listed(o) == life[o] = "listed"

(* The counts of references are right: a channel in the table has one unless
   it is closed, and one for the worker while that has it pinned; what the
   worker has pinned is not freed (inc_ref, dec_ref, channel_dec_ref).     *)
ReferencesCounted ==
  \A o \in Channels :
    /\ o \in worker.pins => Listed(o)
    /\ Listed(o) =>
         /\ channels[o].refs = (IF o \in worker.pins THEN 1 ELSE 0)
                               + (IF channels[o].mode = "hard_close" THEN 0 ELSE 1)
         /\ channels[o].refs > 0

(* The sender of a message is told once that it was sent or will not be: never
   twice, and no later than its channel is freed, unless the closing thread is
   about to tell it (notify_progress, notify_cancellation).                *)
ToldOnce ==
  \A m \in Messages :
    /\ Len(notices[m]) <= 1
    /\ (postedTo[m] # None /\ life[postedTo[m]] = "freed" /\ notices[m] = <<>>)
         => \E u \in Users : m \in Cancelled(user[u].cut)

(* The frames of a message get to the peer in their order on the channel it was
   posted to, and all of them when the sender is told that it was sent.    *)
WrittenOf(o, m) == SelectSeq(wire[o], LAMBDA f : f.msg = m)

SentWhole ==
  \A m \in Messages, o \in Channels :
    LET frames == Frames(m, m, Header[m], Body[m], Priority[m])
    IN /\ IsPrefix(WrittenOf(o, m), frames)
       /\ WrittenOf(o, m) # <<>> => postedTo[m] = o
       /\ (postedTo[m] = o /\ notices[m] # <<>>)
            => ((notices[m][1] = "sent") <=> WrittenOf(o, m) = frames)

(* What the sender is told is what happened to the message, and it is told once. *)
ToldWhatWasSent == ToldOnce /\ SentWhole

(* The user is given whole messages, in parts of the right sizes, whatever the
   order in which the peer's frames come (store_incoming_frame, dispatch). *)
Words(parts) == FoldLeft(LAMBDA sum, n : sum + n, 0, parts)
IsMessageOf(script, d) ==
  LET sent == {f \in {script[i] : i \in 1 .. Len(script)} : f.id = d.id}
      last == CHOOSE f \in sent : f.last
      first == CHOOSE f \in sent : f.num = 1
  IN /\ sent # {} /\ Cardinality(sent) = last.num
     /\ Words(d.header) = first.head
     /\ Words(d.header) + Words(d.body) = (last.num - 1) * FramePayload + last.size

DeliveredWhole ==
  \A o \in Channels : \A i \in 1 .. Len(delivered[o]) :
    IsMessageOf(setting.script, delivered[o][i])

(* No two channels of the table have one target, though two threads may connect
   to it at once (open looks again after it has connected).                *)
OneChannelPerTarget ==
  \A i, j \in 1 .. Len(holders) :
    (i # j /\ holders[i].ch # None /\ holders[j].ch # None)
      => channels[holders[i].ch].target # channels[holders[j].ch].target

(* A descriptor reaches the channel it was given for or none, also when its place
   in the table was given to another (the sequence numbers).               *)
DescriptorsReachTheirOwn == \A m \in Messages : via[m] = postedTo[m]

(* The table of channels stays what its users take it for.                 *)
TableRight == OneChannelPerTarget /\ DescriptorsReachTheirOwn

(* Every sender is told in the end, if memory is not used after it was freed. *)
PostedAnswered ==
  \A m \in Messages : postedTo[m] # None ~> (notices[m] # <<>> \/ undefined)

=============================================================================
