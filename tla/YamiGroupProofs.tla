-------------------------- MODULE YamiGroupProofs --------------------------
(***************************************************************************)
(* Proofs about YamiGroup: the references of a channel are counted right,   *)
(* and the table of channels is what its users take it for, for any         *)
(* threads, targets, channels, messages and circumstances.                  *)
(***************************************************************************)
EXTENDS YamiGroup, WellFoundedInduction, TLAPS

-----------------------------------------------------------------------------
(* The inductive invariant.                                                  *)

Fields == {"target", "datagram", "direction", "refs", "mode", "out", "offset", "inState",
           "readOffset", "payload", "lists"}
Holders == [ch : Channels \cup {None}, seq : Nat, reserved : BOOLEAN]
Slots == 1 .. Len(holders)

IsChannel(o) ==
  /\ DOMAIN channels[o] = Fields /\ channels[o].refs \in Nat
  /\ channels[o].target \in Targets \cup {o}

(* The table holds the listed channels, each once.                         *)
TableListed ==
  /\ life \in [Channels -> {"unused", "private", "listed", "freed"}]
  /\ DOMAIN channels = Channels
  /\ holders \in Seq(Holders)
  /\ \A o \in Channels : Listed(o) => IsChannel(o) /\ \E i \in Slots : holders[i].ch = o
  /\ \A i \in Slots : holders[i].ch # None => Listed(holders[i].ch)
  /\ \A i, j \in Slots : holders[i].ch = holders[j].ch /\ holders[i].ch # None => i = j

(* What the worker watches and serves it has pinned.                       *)
WorkerFits ==
  /\ DOMAIN worker = {"pc", "pins", "poll", "todo"}
  /\ worker.pins \subseteq Channels
  /\ DOMAIN worker.poll \subseteq worker.pins /\ DOMAIN worker.todo \subseteq worker.pins
  /\ worker.pc # "waiting" => DOMAIN worker.poll = {}
  /\ worker.pc \notin {"serving", "dispatching", "output", "progress"} => DOMAIN worker.todo = {}
  /\ worker.pc \in {"dispatching", "output", "progress"} => DOMAIN worker.todo # {}
  /\ worker.pc = "idle" => worker.pins = {}

(* The channel a thread connects is its own.                               *)
UsersFit ==
  /\ DOMAIN user = Users
  /\ \A u \in Users :
       /\ DOMAIN user[u] = {"pc", "ch", "target", "cut"}
       /\ user[u].pc \in {"idle", "connecting", "cancelling"}
       /\ user[u].pc # "idle" => user[u].ch \in Channels
       /\ user[u].pc = "connecting" =>
            /\ life[user[u].ch] = "private" /\ user[u].target \in Targets
            /\ \A v \in Users : user[v].pc = "connecting" /\ user[v].ch = user[u].ch => v = u

(* A descriptor is of no later number than its slot, and of the channel that is
   there if it has its number.                                             *)
HandleFits(u) ==
  /\ DOMAIN handle[u] = {"index", "seq", "ch"}
  /\ handle[u].index \in Nat /\ handle[u].seq \in Nat
  /\ handle[u].index <= Len(holders) \/ closing
  /\ handle[u].index \in Slots =>
       /\ handle[u].seq <= holders[handle[u].index].seq
       /\ handle[u].seq = holders[handle[u].index].seq
            => holders[handle[u].index].ch \in {None, handle[u].ch}

HandlesFit == DOMAIN handle = Users /\ \A u \in Users : HandleFits(u)

(* While the agent is destroyed nobody is in it.                           *)
ClosingAlone == closing => worker.pc = "idle" /\ \A u \in Users : user[u].pc = "idle"

MailFits ==
  /\ DOMAIN via = Messages /\ DOMAIN postedTo = Messages
  /\ DescriptorsReachTheirOwn

GroupInv ==
  /\ TableListed /\ WorkerFits /\ ReferencesCounted /\ OneChannelPerTarget
  /\ UsersFit /\ HandlesFit /\ ClosingAlone /\ MailFits

-----------------------------------------------------------------------------
(* The operators.                                                            *)

\* A set of numbers that is not empty has a least one.
LEMMA Least ==
  ASSUME NEW S, S \subseteq Nat, S # {}
  PROVE  \E i \in S : \A j \in S : i <= j
<1>1. IsWellFoundedOn(OpToRel(<, Nat), Nat)
  BY NatLessThanWellFounded
<1>2. PICK i \in S : \A j \in S : ~ (<<j, i>> \in OpToRel(<, Nat))
  BY <1>1, WFMin
<1>3. \A j \in S : ~(j < i)
  BY <1>2 DEF OpToRel
<1> QED
  BY <1>3

\* Find gives a slot with the target, or 0 when there is none.
LEMMA FindFinds ==
  ASSUME TableListed, NEW t
  PROVE  /\ Find(t) # 0 => /\ Find(t) \in Slots /\ holders[Find(t)].ch # None
                           /\ channels[holders[Find(t)].ch].target = t
         /\ Find(t) = 0 => \A i \in Slots :
                             holders[i].ch # None => channels[holders[i].ch].target # t
<1> DEFINE found == {i \in 1 .. Len(holders) :
                       holders[i].ch # None /\ channels[holders[i].ch].target = t}
<1>1. Len(holders) \in Nat
  BY DEF TableListed
<1>2. CASE found = {}
  <2>1. Find(t) = 0
    BY <1>2 DEF Find
  <2>2. \A i \in Slots : holders[i].ch # None => channels[holders[i].ch].target # t
    BY <1>2 DEF Slots
  <2> QED
    BY <2>1, <2>2
<1>3. CASE found # {}
  <2>1. \E i \in found : \A j \in found : i <= j
    <3>1. found \subseteq Nat
      BY <1>1
    <3> HIDE DEF found
    <3> QED
      BY <1>3, <3>1, Least
  <2>2. Find(t) = CHOOSE i \in found : \A j \in found : i <= j
    BY <1>3 DEF Find
  <2>3. Find(t) \in found
    BY <2>1, <2>2
  <2> QED
    BY <1>1, <2>3 DEF Slots
<1> QED
  BY <1>2, <1>3

LEMMA Joined ==
  ASSUME NEW S, NEW s \in Seq(S), NEW t \in Seq(S)
  PROVE  /\ s \o t \in Seq(S) /\ Len(s \o t) = Len(s) + Len(t)
         /\ \A i \in 1 .. Len(s) + Len(t) :
              (s \o t)[i] = IF i <= Len(s) THEN s[i] ELSE t[i - Len(s)]
OBVIOUS

\* There is a free slot once the table has grown.
LEMMA SlotInRoom ==
  ASSUME GroupAssumption, TableListed
  PROVE  /\ Room \in Seq(Holders) /\ Len(holders) <= Len(Room)
         /\ \A i \in Slots : Room[i] = holders[i]
         /\ \A i \in 1 .. Len(Room) : i \notin Slots => Room[i] = EmptyHolder
         /\ SlotIn(Room) \in 1 .. Len(Room) /\ Room[SlotIn(Room)].ch = None
<1>1. /\ holders \in Seq(Holders) /\ Len(holders) \in Nat
      /\ Slots = 1 .. Len(holders) /\ \A i \in Slots : holders[i] \in Holders
  BY DEF TableListed, Slots
<1>2. EmptyHolder \in Holders
  BY DEF EmptyHolder, Holders
<1> DEFINE n == IF Len(holders) < InitialBlock THEN InitialBlock - Len(holders) ELSE Len(holders)
           more == [i \in 1 .. n |-> EmptyHolder]
<1>3. n \in Nat /\ n > 0
  BY <1>1 DEF GroupAssumption
<1>4. more \in Seq(Holders) /\ Len(more) = n /\ \A i \in 1 .. n : more[i] = EmptyHolder
  BY <1>2, <1>3
<1>5. Grown = holders \o more
  BY DEF Grown
<1> HIDE DEF n, more
<1>6. /\ Grown \in Seq(Holders) /\ Len(Grown) = Len(holders) + n
      /\ \A i \in 1 .. Len(holders) : Grown[i] = holders[i]
      /\ \A i \in 1 .. Len(holders) + n : i > Len(holders) => Grown[i] = more[i - Len(holders)]
  <2>1. /\ holders \o more \in Seq(Holders) /\ Len(holders \o more) = Len(holders) + Len(more)
        /\ \A i \in 1 .. Len(holders) + Len(more) :
             (holders \o more)[i] = IF i <= Len(holders) THEN holders[i] ELSE more[i - Len(holders)]
    <3>1. holders \in Seq(Holders) /\ more \in Seq(Holders)
      BY <1>1, <1>4
    <3> QED
      BY <3>1, Joined
  <2> QED
    BY <1>1, <1>3, <1>4, <1>5, <2>1
<1>7. \A i \in 1 .. Len(Grown) : i \notin Slots => Grown[i] = EmptyHolder
  <2> SUFFICES ASSUME NEW i \in 1 .. Len(Grown), i \notin Slots PROVE Grown[i] = EmptyHolder
    OBVIOUS
  <2>1. i > Len(holders) /\ i \in 1 .. Len(holders) + n
    BY <1>1, <1>3, <1>6
  <2>2. i - Len(holders) \in 1 .. n
    BY <1>1, <1>3, <2>1
  <2> QED
    BY <1>4, <1>6, <2>1, <2>2
<1>8. Room \in Seq(Holders) /\ Len(holders) <= Len(Room) /\ (\A i \in Slots : Room[i] = holders[i])
      /\ (\A i \in 1 .. Len(Room) : i \notin Slots => Room[i] = EmptyHolder)
  BY <1>1, <1>3, <1>6, <1>7 DEF Room
<1>9. FreeSlots(Room) # {} /\ FreeSlots(Room) \subseteq 1 .. Len(Room)
  <2>1. CASE FreeSlots(holders) # {}
    BY <2>1 DEF Room, FreeSlots
  <2>2. CASE FreeSlots(holders) = {}
    <3>1. Len(holders) + 1 \in 1 .. Len(Grown) /\ Len(holders) + 1 \notin Slots
      BY <1>1, <1>3, <1>6
    <3>2. Grown[Len(holders) + 1] = EmptyHolder
      BY <1>7, <3>1
    <3>3. Len(holders) + 1 \in FreeSlots(Grown)
      BY <3>1, <3>2 DEF FreeSlots, EmptyHolder
    <3> QED
      BY <2>2, <3>3 DEF Room, FreeSlots
  <2> QED
    BY <2>1, <2>2
<1>10. FreeSlots(Room) \subseteq Nat
  BY <1>8, <1>9
<1>11. \E i \in FreeSlots(Room) : \A j \in FreeSlots(Room) : i <= j
  BY <1>9, <1>10, Least
<1>12. SlotIn(Room) \in FreeSlots(Room)
  BY <1>11 DEF SlotIn
<1> QED
  BY <1>8, <1>9, <1>12 DEF FreeSlots

\* The first of some pinned channels is one of them.
LEMMA FirstIsOne ==
  ASSUME TableListed, NEW os, os \subseteq Channels, os # {}, \A o \in os : Listed(o)
  PROVE  First(os) \in os
<1> DEFINE slots == {i \in 1 .. Len(holders) : holders[i].ch \in os}
<1>1. Len(holders) \in Nat
  BY DEF TableListed
<1>2. slots \subseteq Nat /\ slots # {}
  BY <1>1 DEF TableListed, Slots
<1>3. \E i \in slots : \A j \in slots : i <= j
  <2> HIDE DEF slots
  <2> QED
    BY <1>2, Least
<1>4. (CHOOSE i \in slots : \A j \in slots : i <= j) \in slots
  <2> HIDE DEF slots
  <2> QED
    BY <1>3
<1>5. First(os) = holders[CHOOSE i \in slots : \A j \in slots : i <= j].ch
  BY DEF First
<1> QED
  BY <1>4, <1>5

\* The channel the worker serves is one it has pinned.
LEMMA NowIsPinned ==
  ASSUME TableListed, WorkerFits, ReferencesCounted, DOMAIN worker.todo # {}
  PROVE  /\ Now \in DOMAIN worker.todo /\ Now \in worker.pins /\ Now \in Channels
         /\ Listed(Now) /\ IsChannel(Now)
<1>1. DOMAIN worker.todo \subseteq Channels /\ \A o \in DOMAIN worker.todo : Listed(o)
  BY DEF WorkerFits, ReferencesCounted
<1>2. Now \in DOMAIN worker.todo
  BY <1>1, FirstIsOne DEF Now
<1> QED
  BY <1>1, <1>2 DEF WorkerFits, TableListed
-----------------------------------------------------------------------------
(* What steps do to the table.                                               *)

TableInv == TableListed /\ ReferencesCounted /\ OneChannelPerTarget

\* What counts of a channel is as it was.
SameCounts(c, o) ==
  /\ DOMAIN c = Fields /\ c.refs = channels[o].refs /\ c.target = channels[o].target
  /\ c.mode = "hard_close" <=> channels[o].mode = "hard_close"

\* Slots stay, and count what they hold.
SlotsKept ==
  /\ Len(holders) <= Len(holders')
  /\ \A i \in Slots : /\ holders'[i].seq \in Nat /\ holders[i].seq <= holders'[i].seq
                      /\ holders'[i].seq = holders[i].seq
                           => holders'[i].ch \in {None, holders[i].ch}

PrivateKept == \A o \in Channels : life[o] = "private" => life'[o] = "private"

LEMMA SlotValues ==
  ASSUME TableListed
  PROVE  /\ Len(holders) \in Nat /\ Slots = 1 .. Len(holders)
         /\ \A i \in Slots : /\ holders[i] \in Holders /\ holders[i].ch \in Channels \cup {None}
                             /\ holders[i].seq \in Nat
<1>1. Len(holders) \in Nat /\ \A i \in Slots : holders[i] \in Holders
  BY DEF TableListed, Slots
<1> QED
  BY <1>1 DEF Slots, Holders

LEMMA TableStays ==
  ASSUME TableInv, UNCHANGED <<channels, life, holders>>, worker'.pins = worker.pins
  PROVE  TableInv'
BY DEF TableInv, TableListed, IsChannel, Listed, Slots, ReferencesCounted, OneChannelPerTarget

LEMMA SlotsStay ==
  ASSUME TableListed, UNCHANGED holders
  PROVE  SlotsKept
BY SlotValues DEF SlotsKept

LEMMA InPlace ==
  ASSUME TableInv, NEW o \in Channels, Listed(o), NEW c, SameCounts(c, o),
         channels' = [channels EXCEPT ![o] = c],
         UNCHANGED <<life, holders>>, worker'.pins = worker.pins
  PROVE  TableInv'
<1>1. /\ DOMAIN channels' = Channels /\ channels'[o] = c
      /\ \A p \in Channels : p # o => channels'[p] = channels[p]
  BY DEF TableInv, TableListed
<1>2. \A p \in Channels : Listed(p) => SameCounts(channels'[p], p)
  BY <1>1 DEF SameCounts, TableInv, TableListed, IsChannel
<1>3. TableListed'
  BY <1>1, <1>2 DEF TableInv, TableListed, IsChannel, SameCounts, Listed, Slots
<1>4. ReferencesCounted'
  BY <1>2 DEF TableInv, ReferencesCounted, SameCounts, Listed
<1>5. OneChannelPerTarget'
  <2>1. \A i \in Slots : holders[i].ch # None => Listed(holders[i].ch) /\ holders[i].ch \in Channels
    BY SlotValues DEF TableInv, TableListed
  <2> QED
    BY <1>2, <2>1 DEF TableInv, OneChannelPerTarget, SameCounts, Slots
<1> QED
  BY <1>3, <1>4, <1>5 DEF TableInv

\* A thread gets a channel object, or gives it up: the table knows nothing of it.
LEMMA OffTheTable ==
  ASSUME TableInv, NEW o \in Channels, ~Listed(o), NEW s \in {"unused", "private", "freed"},
         life' = [life EXCEPT ![o] = s], UNCHANGED <<channels, holders>>, worker'.pins = worker.pins
  PROVE  TableInv'
<1>1. /\ life' \in [Channels -> {"unused", "private", "listed", "freed"}]
      /\ \A p \in Channels : Listed(p)' <=> Listed(p)
  BY DEF TableInv, TableListed, Listed
<1>2. \A i \in Slots : holders[i].ch \in Channels \cup {None}
  BY SlotValues DEF TableInv
<1>3. TableListed'
  BY <1>1, <1>2 DEF TableInv, TableListed, IsChannel, Slots
<1>4. ReferencesCounted'
  BY <1>1 DEF TableInv, ReferencesCounted
<1>5. OneChannelPerTarget'
  BY DEF TableInv, OneChannelPerTarget
<1> QED
  BY <1>3, <1>4, <1>5 DEF TableInv

\* CleanHolder empties the slot of a channel.
LEMMA CleanedSlots ==
  ASSUME TableListed, NEW o \in Channels, None \notin Channels
  PROVE  /\ CleanHolder(o) \in Seq(Holders) /\ Len(CleanHolder(o)) = Len(holders)
         /\ \A i \in Slots : /\ CleanHolder(o)[i].ch = IF holders[i].ch = o THEN None ELSE holders[i].ch
                             /\ CleanHolder(o)[i].seq = holders[i].seq
<1>1. /\ Len(holders) \in Nat /\ \A i \in Slots : holders[i] \in Holders
      /\ Slots = 1 .. Len(holders)
  BY DEF TableListed, Slots
<1> DEFINE e(i) == IF holders[i].ch = o THEN [holders[i] EXCEPT !.ch = None, !.reserved = FALSE]
                   ELSE holders[i]
<1>2. \A i \in Slots : /\ e(i) \in Holders /\ e(i).seq = holders[i].seq
                       /\ e(i).ch = IF holders[i].ch = o THEN None ELSE holders[i].ch
  BY <1>1 DEF Holders
<1>3. CleanHolder(o) = [i \in 1 .. Len(holders) |-> e(i)]
  BY DEF CleanHolder
<1> HIDE DEF e
<1>4. CleanHolder(o) \in Seq(Holders) /\ Len(CleanHolder(o)) = Len(holders)
  BY <1>1, <1>2, <1>3
<1> QED
  BY <1>1, <1>2, <1>3, <1>4
\* The reference that a step gives up: that of the table as the channel is closed for
\* good, or the worker's.
Unrefs(o, c) ==
  IF c.refs > 1
  THEN /\ channels' = [channels EXCEPT ![o] = [c EXCEPT !.refs = @ - 1]]
       /\ UNCHANGED <<life, holders>>
  ELSE /\ channels' = [channels EXCEPT ![o] = Gone]
       /\ life' = [life EXCEPT ![o] = "freed"]
       /\ holders' = CleanHolder(o)

LetsGo(o, c) ==
  \/ /\ c.mode = "hard_close" /\ channels[o].mode # "hard_close"
     /\ worker'.pins = worker.pins
  \/ /\ c.mode = channels[o].mode /\ o \in worker.pins
     /\ worker'.pins = worker.pins \ {o}

LEMMA Dropped ==
  ASSUME GroupAssumption, TableInv, NEW o \in Channels, Listed(o), NEW c,
         DOMAIN c = Fields, c.refs = channels[o].refs, c.target = channels[o].target,
         Unrefs(o, c), LetsGo(o, c)
  PROVE  TableInv' /\ SlotsKept /\ PrivateKept
<1> DEFINE pinned(p) == IF p \in worker.pins THEN 1 ELSE 0
           kept(p) == IF channels[p].mode = "hard_close" THEN 0 ELSE 1
<1>1. /\ c.refs \in Nat /\ c.refs = pinned(o) + kept(o) /\ c.refs > 0
      /\ o \notin Targets /\ None \notin Channels
  BY DEF TableInv, TableListed, IsChannel, ReferencesCounted, GroupAssumption
<1>2. /\ DOMAIN channels = Channels /\ DOMAIN life = Channels
      /\ \A i \in Slots : holders[i].ch \in Channels \cup {None} /\ holders[i].seq \in Nat
      /\ Len(holders) \in Nat /\ Slots = 1 .. Len(holders)
  BY SlotValues DEF TableInv, TableListed
<1>3. CASE c.refs > 1
  <2> DEFINE d == [c EXCEPT !.refs = @ - 1]
  <2>1. /\ channels' = [channels EXCEPT ![o] = d] /\ UNCHANGED <<life, holders>>
        /\ DOMAIN d = Fields /\ d.refs = c.refs - 1 /\ d.target = c.target /\ d.mode = c.mode
    BY <1>3 DEF Unrefs, Fields
  <2> HIDE DEF d
  <2>2. /\ DOMAIN channels' = Channels /\ channels'[o] = d
        /\ \A p \in Channels : p # o => channels'[p] = channels[p]
    BY <1>2, <2>1
  <2>3. c.refs = 2 /\ d.refs = 1 /\ o \in worker.pins /\ channels[o].mode # "hard_close"
    BY <1>1, <1>3, <2>1
  <2>4. TableListed'
    BY <2>1, <2>2, <2>3 DEF TableInv, TableListed, IsChannel, Listed, Slots
  <2>5. ReferencesCounted'
    <3>1. \A p \in Channels : p # o => (p \in worker'.pins <=> p \in worker.pins)
      BY DEF LetsGo
    <3>2. 1 = (IF o \in worker'.pins THEN 1 ELSE 0) + (IF d.mode = "hard_close" THEN 0 ELSE 1)
      BY <2>1, <2>3 DEF LetsGo
    <3>3. ASSUME NEW p \in Channels, p # o
          PROVE  /\ p \in worker'.pins => Listed(p)'
                 /\ Listed(p)' => /\ channels'[p].refs = (IF p \in worker'.pins THEN 1 ELSE 0)
                                        + (IF channels'[p].mode = "hard_close" THEN 0 ELSE 1)
                                  /\ channels'[p].refs > 0
      BY <2>1, <2>2, <3>1, <3>3 DEF TableInv, ReferencesCounted, Listed
    <3>4. Listed(o)'
      BY <2>1 DEF Listed
    <3>5. /\ channels'[o].refs = (IF o \in worker'.pins THEN 1 ELSE 0)
                                 + (IF channels'[o].mode = "hard_close" THEN 0 ELSE 1)
          /\ channels'[o].refs > 0
      BY <2>2, <2>3, <3>2
    <3> QED
      BY <3>3, <3>4, <3>5 DEF ReferencesCounted
  <2>6. OneChannelPerTarget'
    BY <1>2, <2>1, <2>2 DEF TableInv, OneChannelPerTarget
  <2>7. SlotsKept /\ PrivateKept
    BY <2>1, SlotsStay DEF TableInv, PrivateKept
  <2> QED
    BY <2>4, <2>5, <2>6, <2>7 DEF TableInv
<1>4. CASE ~(c.refs > 1)
  <2>1. /\ channels' = [channels EXCEPT ![o] = Gone] /\ life' = [life EXCEPT ![o] = "freed"]
        /\ holders' = CleanHolder(o)
    BY <1>4 DEF Unrefs
  <2>2. /\ DOMAIN channels' = Channels /\ life'[o] = "freed" /\ ~Listed(o)'
        /\ life' \in [Channels -> {"unused", "private", "listed", "freed"}]
        /\ \A p \in Channels : p # o => /\ channels'[p] = channels[p] /\ life'[p] = life[p]
                                        /\ Listed(p)' <=> Listed(p)
    BY <1>2, <2>1 DEF Listed, TableInv, TableListed
  <2>3. /\ holders' \in Seq(Holders) /\ Len(holders') = Len(holders) /\ Slots' = Slots
        /\ \A i \in Slots : /\ holders'[i].ch = IF holders[i].ch = o THEN None ELSE holders[i].ch
                            /\ holders'[i].seq = holders[i].seq
    BY <1>1, <2>1, CleanedSlots DEF TableInv, Slots
  <2>4. o \notin worker'.pins
    BY <1>1, <1>4 DEF LetsGo
  <2>5. TableListed'
    <3>1. ASSUME NEW p \in Channels, life'[p] = "listed"
          PROVE  IsChannel(p)' /\ \E i \in Slots : holders'[i].ch = p
      <4>1. p # o /\ Listed(p) /\ channels'[p] = channels[p]
        BY <2>2, <3>1 DEF Listed
      <4>2. IsChannel(p) /\ \E i \in Slots : holders[i].ch = p
        BY <4>1 DEF TableInv, TableListed
      <4> QED
        BY <2>3, <4>1, <4>2 DEF IsChannel
    <3>2. ASSUME NEW i \in Slots, holders'[i].ch # None
          PROVE  holders'[i].ch = holders[i].ch /\ life'[holders'[i].ch] = "listed"
      <4>1. holders'[i].ch = holders[i].ch /\ holders[i].ch # o /\ holders[i].ch \in Channels
        BY <1>2, <2>3, <3>2
      <4>2. Listed(holders[i].ch)
        BY <3>2, <4>1 DEF TableInv, TableListed
      <4> QED
        BY <2>2, <4>1, <4>2 DEF Listed
    <3>3. \A i, j \in Slots : holders'[i].ch = holders'[j].ch /\ holders'[i].ch # None => i = j
      BY <2>3, <3>2 DEF TableInv, TableListed
    <3> QED
      BY <2>2, <2>3, <3>1, <3>2, <3>3 DEF TableListed, Listed
  <2>6. ReferencesCounted'
    BY <2>2, <2>4 DEF TableInv, ReferencesCounted, LetsGo
  <2>7. OneChannelPerTarget'
    <3>1. \A i \in Slots : holders'[i].ch # None =>
             holders'[i].ch = holders[i].ch /\ channels'[holders'[i].ch] = channels[holders[i].ch]
      BY <1>2, <2>2, <2>3
    <3>2. \A i, j \in Slots :
            (i # j /\ holders[i].ch # None /\ holders[j].ch # None)
              => channels[holders[i].ch].target # channels[holders[j].ch].target
      BY <1>2 DEF TableInv, OneChannelPerTarget
    <3>3. 1 .. Len(holders') = Slots
      BY <1>2, <2>3
    <3>4. ASSUME NEW i \in Slots, NEW j \in Slots, i # j, holders'[i].ch # None, holders'[j].ch # None
          PROVE  channels'[holders'[i].ch].target # channels'[holders'[j].ch].target
      <4>1. /\ holders'[i].ch = holders[i].ch /\ channels'[holders'[i].ch] = channels[holders[i].ch]
            /\ holders'[j].ch = holders[j].ch /\ channels'[holders'[j].ch] = channels[holders[j].ch]
        BY <3>1, <3>4
      <4> QED
        BY <3>2, <3>4, <4>1
    <3> QED
      BY <3>3, <3>4 DEF OneChannelPerTarget
  <2>8. SlotsKept /\ PrivateKept
    BY <1>2, <2>2, <2>3 DEF SlotsKept, PrivateKept, Listed
  <2> QED
    BY <2>5, <2>6, <2>7, <2>8 DEF TableInv
<1> QED
  BY <1>3, <1>4

\* A new channel gets a slot of its own.
Adds(o, t, datagram, reserve) ==
  /\ holders' = SetHolder(Room, SlotIn(Room), o, reserve)
  /\ channels' = [channels EXCEPT ![o] = NewChannel(t, datagram, "inout")]
  /\ life' = [life EXCEPT ![o] = "listed"]

LEMMA Added ==
  ASSUME GroupAssumption, TableInv, NEW o \in Channels, ~Listed(o),
         NEW t \in Targets \cup {o}, NEW datagram, NEW reserve \in BOOLEAN,
         \A i \in Slots : holders[i].ch # None => channels[holders[i].ch].target # t,
         Adds(o, t, datagram, reserve), worker'.pins = worker.pins
  PROVE  /\ TableInv' /\ SlotsKept /\ \A p \in Channels : p # o /\ life[p] = "private" => life'[p] = "private"
         /\ SlotIn(Room) \in Slots' /\ holders'[SlotIn(Room)].ch = o
         /\ Room[SlotIn(Room)].seq \in Nat /\ holders'[SlotIn(Room)].seq = Room[SlotIn(Room)].seq + 1
<1> DEFINE i == SlotIn(Room)
<1>1. /\ Len(holders) \in Nat /\ Slots = 1 .. Len(holders)
      /\ \A j \in Slots : holders[j].ch \in Channels \cup {None} /\ holders[j].seq \in Nat
  BY SlotValues DEF TableInv
<1>2. /\ Room \in Seq(Holders) /\ Len(holders) <= Len(Room)
      /\ \A j \in Slots : Room[j] = holders[j]
      /\ \A j \in 1 .. Len(Room) : j \notin Slots => Room[j] = EmptyHolder
      /\ i \in 1 .. Len(Room) /\ Room[i].ch = None
  BY SlotInRoom DEF TableInv
<1>3. Len(Room) \in Nat /\ \A j \in 1 .. Len(Room) : Room[j] \in Holders /\ Room[j].seq \in Nat
  <2>1. Len(Room) \in Nat /\ \A j \in 1 .. Len(Room) : Room[j] \in Holders
    BY <1>2
  <2> QED
    BY <2>1 DEF Holders
<1> DEFINE h == [ch |-> o, seq |-> Room[i].seq + 1, reserved |-> reserve]
<1>4. h \in Holders /\ h.ch = o /\ h.seq = Room[i].seq + 1
  BY <1>2, <1>3 DEF Holders
<1>5. holders' = [Room EXCEPT ![i] = h]
  BY DEF Adds, SetHolder
<1> HIDE DEF h, i
<1>6. /\ holders' \in Seq(Holders) /\ Len(holders') = Len(Room) /\ Slots' = 1 .. Len(Room)
      /\ holders'[i] = h /\ \A j \in 1 .. Len(Room) : j # i => holders'[j] = Room[j]
  BY <1>2, <1>3, <1>4, <1>5 DEF Slots
<1>7. \A j \in 1 .. Len(Room) : j # i =>
        /\ holders'[j].ch = Room[j].ch
        /\ Room[j].ch # None => j \in Slots /\ holders'[j] = holders[j]
  BY <1>2, <1>6 DEF EmptyHolder
<1>8. /\ DOMAIN channels' = Channels /\ channels'[o] = NewChannel(t, datagram, "inout")
      /\ life' \in [Channels -> {"unused", "private", "listed", "freed"}] /\ Listed(o)'
      /\ \A p \in Channels : p # o => /\ channels'[p] = channels[p] /\ life'[p] = life[p]
                                      /\ Listed(p)' <=> Listed(p)
  BY DEF Adds, TableInv, TableListed, Listed
<1>9. /\ DOMAIN channels'[o] = Fields /\ channels'[o].refs = 1 /\ channels'[o].target = t
      /\ channels'[o].mode = "operational"
  BY <1>8 DEF NewChannel, Fields
<1>10. o \notin worker.pins /\ o # None
  BY DEF TableInv, ReferencesCounted, GroupAssumption
<1>11. \A j \in Slots : holders[j].ch # None =>
         /\ j # i /\ holders[j].ch # o /\ holders[j].ch \in Channels /\ Listed(holders[j].ch)
         /\ j \in 1 .. Len(Room) /\ holders'[j] = holders[j]
  <2> SUFFICES ASSUME NEW j \in Slots, holders[j].ch # None
               PROVE  /\ j # i /\ holders[j].ch # o /\ holders[j].ch \in Channels
                      /\ Listed(holders[j].ch)
                      /\ j \in 1 .. Len(Room) /\ holders'[j] = holders[j]
    OBVIOUS
  <2>1. Listed(holders[j].ch) /\ holders[j].ch \in Channels /\ holders[j].ch # o
    BY <1>1 DEF TableInv, TableListed
  <2>2. j \in 1 .. Len(Room)
    BY <1>1, <1>2, <1>3
  <2>3. j # i
    BY <1>2
  <2> QED
    BY <1>2, <1>6, <2>1, <2>2, <2>3
<1>12. TableListed'
  <2>1. ASSUME NEW p \in Channels, life'[p] = "listed"
        PROVE  IsChannel(p)' /\ \E j \in Slots' : holders'[j].ch = p
    <3>1. CASE p = o
      <4>1. IsChannel(o)'
        BY <1>9 DEF IsChannel
      <4> QED
        BY <1>2, <1>4, <1>6, <3>1, <4>1
    <3>2. CASE p # o
      <4>1. Listed(p) /\ IsChannel(p) /\ channels'[p] = channels[p]
        BY <1>8, <2>1, <3>2 DEF TableInv, TableListed, Listed
      <4>2. PICK j \in Slots : holders[j].ch = p
        BY <4>1 DEF TableInv, TableListed
      <4>3. p # None
        BY DEF GroupAssumption
      <4> QED
        BY <1>6, <1>11, <4>1, <4>2, <4>3 DEF IsChannel
    <3> QED
      BY <3>1, <3>2
  <2>2. ASSUME NEW j \in Slots', holders'[j].ch # None
        PROVE  life'[holders'[j].ch] = "listed"
    <3>1. CASE j = i
      BY <1>4, <1>6, <1>8, <3>1 DEF Listed
    <3>2. CASE j # i
      <4>1. j \in Slots /\ holders'[j] = holders[j] /\ holders[j].ch # None
        BY <1>6, <1>7, <2>2, <3>2
      <4>2. holders[j].ch \in Channels /\ holders[j].ch # o /\ Listed(holders[j].ch)
        BY <1>11, <4>1
      <4> QED
        BY <1>8, <4>1, <4>2 DEF Listed
    <3> QED
      BY <3>1, <3>2
  <2>3. ASSUME NEW j \in Slots', NEW k \in Slots', holders'[j].ch = holders'[k].ch, holders'[j].ch # None
        PROVE  j = k
    <3>1. j # i => j \in Slots /\ holders'[j] = holders[j] /\ holders[j].ch # o
      BY <1>6, <1>7, <1>11, <2>3
    <3>2. k # i => k \in Slots /\ holders'[k] = holders[k] /\ holders[k].ch # o
      BY <1>6, <1>7, <1>11, <2>3
    <3>3. holders'[i].ch = o
      BY <1>4, <1>6
    <3> QED
      BY <2>3, <3>1, <3>2, <3>3 DEF TableInv, TableListed
  <2> QED
    BY <1>6, <1>8, <2>1, <2>2, <2>3 DEF TableListed, Listed
<1>13. ReferencesCounted'
  BY <1>8, <1>9, <1>10 DEF TableInv, ReferencesCounted
<1>14. OneChannelPerTarget'
  <2>1. \A j \in Slots' : j # i /\ holders'[j].ch # None =>
          /\ j \in Slots /\ holders'[j] = holders[j]
          /\ channels'[holders[j].ch] = channels[holders[j].ch]
          /\ channels'[holders'[j].ch].target # t
    BY <1>6, <1>7, <1>8, <1>11
  <2>2. holders'[i].ch = o
    BY <1>4, <1>6
  <2>3. ASSUME NEW j \in Slots', NEW k \in Slots', j # k, holders'[j].ch # None, holders'[k].ch # None
        PROVE  channels'[holders'[j].ch].target # channels'[holders'[k].ch].target
    <3>1. CASE j = i \/ k = i
      BY <1>9, <2>1, <2>2, <2>3, <3>1
    <3>2. CASE j # i /\ k # i
      BY SMTT(20), <1>1, <2>1, <2>3, <3>2 DEF TableInv, OneChannelPerTarget
    <3> QED
      BY <3>1, <3>2
  <2> QED
    BY <1>6, <2>3 DEF OneChannelPerTarget
<1>15. SlotsKept
  <2> SUFFICES ASSUME NEW j \in Slots
               PROVE  /\ holders'[j].seq \in Nat /\ holders[j].seq <= holders'[j].seq
                      /\ holders'[j].seq = holders[j].seq => holders'[j].ch \in {None, holders[j].ch}
    BY <1>2, <1>6 DEF SlotsKept
  <2>1. j \in 1 .. Len(Room) /\ Room[j] = holders[j] /\ holders[j].seq \in Nat
    BY <1>1, <1>2, <1>3
  <2>2. CASE j = i
    BY <1>4, <1>6, <2>1, <2>2
  <2>3. CASE j # i
    BY <1>6, <2>1, <2>3
  <2> QED
    BY <2>2, <2>3
<1> QED
  BY <1>2, <1>3, <1>4, <1>6, <1>8, <1>12, <1>13, <1>14, <1>15 DEF TableInv, i
-----------------------------------------------------------------------------
(* What steps leave to the threads, their descriptors and messages.          *)

LEMMA HandlesKept ==
  ASSUME TableListed, HandlesFit, ~closing, SlotsKept, UNCHANGED <<handle, closing>>
  PROVE  HandlesFit'
<1> SUFFICES ASSUME NEW u \in Users PROVE HandleFits(u)'
  BY DEF HandlesFit
<1>1. HandleFits(u) /\ Len(holders) \in Nat /\ Slots = 1 .. Len(holders)
  BY SlotValues DEF HandlesFit
<1>2. handle[u].index \in Nat /\ handle[u].index <= Len(holders)
  BY <1>1 DEF HandleFits
<1>3. Len(holders) <= Len(holders')
  BY DEF SlotsKept
<1>4. handle[u].index <= Len(holders') \/ closing
  BY <1>1, <1>2, <1>3 DEF HandleFits, SlotsKept
<1>5. ASSUME handle[u].index \in Slots'
      PROVE  /\ handle[u].seq <= holders'[handle[u].index].seq
             /\ handle[u].seq = holders'[handle[u].index].seq
                  => holders'[handle[u].index].ch \in {None, handle[u].ch}
  <2> DEFINE i == handle[u].index
  <2>1. i \in Slots
    BY <1>1, <1>2, <1>5 DEF Slots
  <2>2. /\ handle[u].seq \in Nat /\ handle[u].seq <= holders[i].seq
        /\ handle[u].seq = holders[i].seq => holders[i].ch \in {None, handle[u].ch}
    BY <1>1, <2>1 DEF HandleFits
  <2>3. /\ holders'[i].seq \in Nat /\ holders[i].seq <= holders'[i].seq
        /\ holders'[i].seq = holders[i].seq => holders'[i].ch \in {None, holders[i].ch}
    BY <2>1 DEF SlotsKept
  <2>4. holders[i].seq \in Nat
    BY <2>1, SlotValues
  <2> HIDE DEF i
  <2>5. handle[u].seq <= holders'[i].seq
    BY <2>2, <2>3, <2>4
  <2>6. ASSUME handle[u].seq = holders'[i].seq PROVE holders'[i].ch \in {None, handle[u].ch}
    <3>1. handle[u].seq = holders[i].seq /\ holders'[i].seq = holders[i].seq
      BY <2>2, <2>3, <2>4, <2>6
    <3> QED
      BY <2>2, <2>3, <3>1
  <2> QED
    BY <2>5, <2>6 DEF i
<1> QED
  BY <1>1, <1>4, <1>5 DEF HandleFits

\* A thread is given the descriptor of a slot as it is after the step.
LEMMA HandleGiven ==
  ASSUME TableListed, TableListed', HandlesFit, ~closing, SlotsKept, UNCHANGED closing,
         NEW u \in Users, NEW i \in Slots',
         handle' = [handle EXCEPT ![u] = Descriptor(i, holders'[i].seq, holders'[i].ch)]
  PROVE  HandlesFit'
<1> DEFINE d == Descriptor(i, holders'[i].seq, holders'[i].ch)
<1>1. /\ Len(holders') \in Nat /\ Slots' = 1 .. Len(holders')
      /\ holders'[i].seq \in Nat
  <2>1. Len(holders') \in Nat /\ holders'[i] \in Holders
    BY DEF TableListed, Slots
  <2> QED
    BY <2>1 DEF Slots, Holders
<1>2. /\ DOMAIN d = {"index", "seq", "ch"} /\ d.index = i
      /\ d.seq = holders'[i].seq /\ d.ch = holders'[i].ch
  BY DEF Descriptor
<1> HIDE DEF d
<1>3. DOMAIN handle' = Users /\ handle'[u] = d /\ \A v \in Users : v # u => handle'[v] = handle[v]
  BY DEF HandlesFit, d
<1>4. HandleFits(u)'
  BY <1>1, <1>2, <1>3 DEF HandleFits
<1>5. ASSUME NEW v \in Users, v # u PROVE HandleFits(v)'
  <2>1. HandleFits(v) /\ handle'[v] = handle[v] /\ Len(holders) \in Nat /\ Slots = 1 .. Len(holders)
    BY <1>3, <1>5, SlotValues DEF HandlesFit
  <2> DEFINE j == handle[v].index
  <2>2. j \in Nat /\ j <= Len(holders) /\ handle[v].seq \in Nat
    BY <2>1 DEF HandleFits
  <2>3. j <= Len(holders')
    BY <1>1, <2>1, <2>2 DEF SlotsKept
  <2>4. ASSUME j \in Slots'
        PROVE  /\ handle[v].seq <= holders'[j].seq
               /\ handle[v].seq = holders'[j].seq => holders'[j].ch \in {None, handle[v].ch}
    <3>1. j \in Slots
      BY <1>1, <2>1, <2>2, <2>4
    <3>2. /\ handle[v].seq <= holders[j].seq
          /\ handle[v].seq = holders[j].seq => holders[j].ch \in {None, handle[v].ch}
      BY <2>1, <3>1 DEF HandleFits
    <3>3. /\ holders'[j].seq \in Nat /\ holders[j].seq <= holders'[j].seq /\ holders[j].seq \in Nat
          /\ holders'[j].seq = holders[j].seq => holders'[j].ch \in {None, holders[j].ch}
      BY <3>1, SlotValues DEF SlotsKept
    <3> HIDE DEF j
    <3>4. handle[v].seq <= holders'[j].seq
      BY <2>2, <3>2, <3>3
    <3>5. ASSUME handle[v].seq = holders'[j].seq PROVE holders'[j].ch \in {None, handle[v].ch}
      <4>1. handle[v].seq = holders[j].seq /\ holders'[j].seq = holders[j].seq
        BY <2>2, <3>2, <3>3, <3>5
      <4> QED
        BY <3>2, <3>3, <4>1
    <3> QED
      BY <3>4, <3>5
  <2> QED
    BY <2>1, <2>2, <2>3, <2>4 DEF HandleFits
<1> QED
  BY <1>3, <1>4, <1>5 DEF HandlesFit

LEMMA UsersKept ==
  ASSUME UsersFit, PrivateKept, UNCHANGED user
  PROVE  UsersFit'
BY DEF UsersFit, PrivateKept

\* A thread's call ends: what it was connecting was its own.
LEMMA UserReturns ==
  ASSUME UsersFit, NEW u \in Users, user[u].pc # "idle", user' = [user EXCEPT ![u] = IdleUser],
         \A p \in Channels :
           (user[u].pc = "connecting" => p # user[u].ch) /\ life[p] = "private" => life'[p] = "private"
  PROVE  UsersFit'
<1>1. /\ DOMAIN user' = Users /\ user'[u] = IdleUser
      /\ \A v \in Users : v # u => user'[v] = user[v]
  BY DEF UsersFit
<1>2. DOMAIN IdleUser = {"pc", "ch", "target", "cut"} /\ IdleUser.pc = "idle"
  BY DEF IdleUser
<1>3. ASSUME NEW v \in Users, v # u, user[v].pc = "connecting" PROVE life'[user[v].ch] = "private"
  BY <1>3 DEF UsersFit
<1> QED
  BY <1>1, <1>2, <1>3 DEF UsersFit

\* The conjuncts of the invariant that are not about the table and the worker.
ThreadInv == UsersFit /\ HandlesFit /\ ClosingAlone /\ MailFits

LEMMA ThreadsStay ==
  ASSUME GroupInv, ~closing, SlotsKept, PrivateKept,
         UNCHANGED <<threadVars, closing, postedTo, via>>
  PROVE  ThreadInv'
<1>1. UsersFit'
  BY UsersKept DEF GroupInv, threadVars
<1>2. HandlesFit'
  BY HandlesKept DEF GroupInv, threadVars
<1>3. ClosingAlone' /\ MailFits'
  BY DEF GroupInv, ClosingAlone, MailFits, DescriptorsReachTheirOwn
<1> QED
  BY <1>1, <1>2, <1>3 DEF ThreadInv
-----------------------------------------------------------------------------
(* The worker serves a channel.                                              *)

Serving == {At("dispatching"), At("output"), At("progress"), Continue, Abort}

LEMMA WorkerServes ==
  ASSUME WorkerFits, DOMAIN worker.todo # {}, worker' \in Serving
  PROVE  WorkerFits' /\ worker'.pins = worker.pins /\ worker.pc # "idle" /\ worker'.pc # "idle"
<1>1. /\ DOMAIN worker = {"pc", "pins", "poll", "todo"}
      /\ worker.pc \in {"serving", "dispatching", "output", "progress"} /\ DOMAIN worker.poll = {}
      /\ worker.pins \subseteq Channels /\ DOMAIN worker.todo \subseteq worker.pins
  BY DEF WorkerFits
<1>2. ASSUME NEW pc \in {"dispatching", "output", "progress"}, worker' = At(pc)
      PROVE  WorkerFits' /\ worker'.pins = worker.pins /\ worker'.pc # "idle"
  <2>1. /\ DOMAIN worker' = {"pc", "pins", "poll", "todo"} /\ worker'.pc = pc
        /\ worker'.pins = worker.pins /\ worker'.poll = worker.poll /\ worker'.todo = worker.todo
    BY <1>1, <1>2 DEF At
  <2> QED
    BY <1>1, <2>1 DEF WorkerFits
<1>3. CASE worker' = Continue
  <2> DEFINE rest == Restrict(worker.todo, DOMAIN worker.todo \ {Now})
  <2>1. /\ DOMAIN worker' = {"pc", "pins", "poll", "todo"} /\ worker'.pc = "serving"
        /\ worker'.pins = worker.pins /\ worker'.poll = worker.poll /\ worker'.todo = rest
    BY <1>1, <1>3 DEF Continue
  <2>2. DOMAIN rest \subseteq DOMAIN worker.todo
    BY DEF Restrict
  <2> HIDE DEF rest
  <2> QED
    BY <1>1, <2>1, <2>2 DEF WorkerFits
<1>4. CASE worker' = Abort
  <2>1. /\ DOMAIN worker' = {"pc", "pins", "poll", "todo"} /\ worker'.pc = "unpinning"
        /\ worker'.pins = worker.pins /\ worker'.poll = worker.poll /\ worker'.todo = <<>>
    BY <1>1, <1>4 DEF Abort
  <2>2. DOMAIN worker'.todo = {}
    BY <2>1
  <2> QED
    BY <1>1, <2>1, <2>2 DEF WorkerFits
<1> QED
  BY <1>1, <1>2, <1>3, <1>4 DEF Serving

\* Nothing of the channel that counts is changed.
LEMMA ServedInPlace ==
  ASSUME GroupInv, DOMAIN worker.todo # {}, NEW c, SameCounts(c, Now),
         channels' = [channels EXCEPT ![Now] = c], worker' \in Serving,
         UNCHANGED <<life, holders, threadVars, closing, postedTo, via>>
  PROVE  GroupInv'
<1>1. Now \in Channels /\ Listed(Now)
  BY NowIsPinned DEF GroupInv
<1>2. WorkerFits' /\ worker'.pins = worker.pins /\ ~closing
  BY WorkerServes DEF GroupInv, ClosingAlone
<1>3. TableInv'
  BY <1>1, <1>2, InPlace DEF GroupInv, TableInv
<1>4. SlotsKept /\ PrivateKept
  BY SlotsStay DEF GroupInv, PrivateKept
<1> QED
  BY <1>2, <1>3, <1>4, ThreadsStay DEF GroupInv, TableInv, ThreadInv

\* The channel is closed for good.
LEMMA ServedClosed ==
  ASSUME GroupAssumption, GroupInv, DOMAIN worker.todo # {}, Chan.mode # "hard_close",
         NEW c, DOMAIN c = Fields, c.refs = Chan.refs, c.target = Chan.target, c.mode = "hard_close",
         Unrefs(Now, c), worker' \in Serving,
         UNCHANGED <<threadVars, closing, postedTo, via>>
  PROVE  GroupInv'
<1>1. Now \in Channels /\ Listed(Now)
  BY NowIsPinned DEF GroupInv
<1>2. WorkerFits' /\ worker'.pins = worker.pins /\ ~closing
  BY WorkerServes DEF GroupInv, ClosingAlone
<1>3. LetsGo(Now, c)
  BY <1>2 DEF LetsGo, Chan
<1>4. TableInv' /\ SlotsKept /\ PrivateKept
  BY <1>1, <1>3, Dropped DEF GroupInv, TableInv, Chan
<1> QED
  BY <1>2, <1>4, ThreadsStay DEF GroupInv, TableInv, ThreadInv

-----------------------------------------------------------------------------
(* What a channel's functions leave as it is.                                *)

Alike(c, d) ==
  /\ DOMAIN c = Fields
  /\ c.refs = d.refs /\ c.target = d.target /\ c.mode = d.mode

LEMMA ReadingKeeps ==
  ASSUME NEW ch, DOMAIN ch = Fields, NEW n, NEW id, NEW frame
  PROVE  /\ Alike(PartRead(ch, n), ch) /\ Alike(BeginPayload(ch), ch) /\ Alike(FrameRead(ch), ch)
         /\ Alike([ch EXCEPT !.payload = FALSE], ch) /\ Alike([ch EXCEPT !.payload = TRUE], ch)
         /\ Alike(CleanIncoming(ch), ch) /\ Alike(WithoutList(ch, id), ch)
         /\ Alike(StoreFrame(ch, frame), ch)
<1>1. /\ Alike(PartRead(ch, n), ch) /\ Alike(BeginPayload(ch), ch) /\ Alike(FrameRead(ch), ch)
      /\ Alike([ch EXCEPT !.payload = FALSE], ch) /\ Alike([ch EXCEPT !.payload = TRUE], ch)
      /\ Alike(CleanIncoming(ch), ch)
  BY DEF Alike, Fields, PartRead, BeginPayload, FrameRead, CleanIncoming
<1>2. Alike(WithoutList(ch, id), ch)
  <2> DEFINE lists == RemoveAt(ch.lists, ListOf(ch, id))
  <2>1. WithoutList(ch, id) = [ch EXCEPT !.lists = lists]
    BY DEF WithoutList
  <2> HIDE DEF lists
  <2> QED
    BY <2>1 DEF Alike, Fields
<1>3. Alike(StoreFrame(ch, frame), ch)
  <2>1. CASE HasList(ch, frame.id)
    <3> DEFINE lists == [ch.lists EXCEPT ![ListOf(ch, frame.id)] = WithFrame(@, frame)]
    <3>1. StoreFrame(ch, frame) = [ch EXCEPT !.payload = FALSE, !.lists = lists]
      BY <2>1 DEF StoreFrame
    <3> HIDE DEF lists
    <3> QED
      BY <3>1 DEF Alike, Fields
  <2>2. CASE ~HasList(ch, frame.id)
    <3> DEFINE lists == Append(ch.lists, [id |-> frame.id, head |-> frame.head,
                                          check |-> frame.last, frames |-> <<Piece(frame)>>])
    <3>1. StoreFrame(ch, frame) = [[ch EXCEPT !.lists = lists] EXCEPT !.payload = FALSE]
      BY <2>2 DEF StoreFrame, WithNewList
    <3> HIDE DEF lists
    <3> QED
      BY <3>1 DEF Alike, Fields
  <2> QED
    BY <2>1, <2>2
<1> QED
  BY <1>1, <1>2, <1>3

LEMMA WritingKeeps ==
  ASSUME NEW ch, DOMAIN ch = Fields, NEW n
  PROVE  Alike(Written(ch, n), ch) /\ Alike(ConsumeFrame(ch), ch)
BY DEF Alike, Fields, Written, ConsumeFrame

LEMMA ClosingChannel ==
  ASSUME NEW ch, DOMAIN ch = Fields
  PROVE  /\ DOMAIN HardClose(ch) = Fields /\ HardClose(ch).refs = ch.refs
         /\ HardClose(ch).target = ch.target /\ HardClose(ch).mode = "hard_close"
BY DEF Fields, HardClose

\* What is alike counts the same.
LEMMA AlikeCounts ==
  ASSUME NEW o, NEW c, Alike(c, channels[o])
  PROVE  SameCounts(c, o)
BY DEF Alike, SameCounts

LEMMA AlikeTwice ==
  ASSUME NEW b, NEW c, NEW d, Alike(b, c), Alike(c, d)
  PROVE  Alike(b, d)
BY DEF Alike
-----------------------------------------------------------------------------
(* The steps of the worker while it serves a channel.                        *)

LEMMA ChanFits ==
  ASSUME GroupInv, DOMAIN worker.todo # {}
  PROVE  /\ Now \in Channels /\ DOMAIN Chan = Fields /\ Chan.refs \in Nat
         /\ Now \in DOMAIN channels /\ worker.pc \in {"serving", "dispatching", "output", "progress"}
         /\ Chan.mode # "hard_close" => Chan.refs = 2
<1>1. /\ Now \in Channels /\ Listed(Now) /\ IsChannel(Now) /\ Now \in worker.pins
  BY NowIsPinned DEF GroupInv
<1>2. Chan.refs = 1 + (IF Chan.mode = "hard_close" THEN 0 ELSE 1)
  BY <1>1 DEF GroupInv, ReferencesCounted, Chan
<1> QED
  BY <1>1, <1>2 DEF GroupInv, TableListed, WorkerFits, IsChannel, Chan

LEMMA ServedAlike ==
  ASSUME GroupInv, DOMAIN worker.todo # {}, NEW c, Alike(c, Chan),
         channels' = [channels EXCEPT ![Now] = c], worker' \in Serving,
         UNCHANGED <<life, holders, threadVars, closing, postedTo, via>>
  PROVE  GroupInv'
BY AlikeCounts, ServedInPlace DEF Chan

\* CloseMe, from a channel as a failed read leaves it.
LEMMA ClosedByWorker ==
  ASSUME GroupAssumption, GroupInv, DOMAIN worker.todo # {}, Chan.mode # "hard_close",
         NEW c, Alike(c, Chan), CloseMe(c), worker' \in {Continue, Abort},
         UNCHANGED <<threadVars, closing, postedTo, via>>
  PROVE  GroupInv'
<1>1. /\ DOMAIN HardClose(c) = Fields /\ HardClose(c).refs = Chan.refs
      /\ HardClose(c).target = Chan.target /\ HardClose(c).mode = "hard_close"
  BY ClosingChannel DEF Alike
<1>2. Unrefs(Now, HardClose(c))
  BY DEF CloseMe, Unref, Unrefs
<1>3. worker' \in Serving
  BY DEF Serving
<1> QED
  BY <1>1, <1>2, <1>3, ServedClosed

\* What is closed in the middle of a frame has the worker's reference left.
LEMMA ClosedOnBadFrame ==
  ASSUME GroupAssumption, GroupInv, DOMAIN worker.todo # {}, Chan.mode # "hard_close",
         NEW c, Alike(c, Chan),
         channels' = [channels EXCEPT ![Now] = CloseReading(c)], worker' \in Serving,
         UNCHANGED <<life, holders, threadVars, closing, postedTo, via>>
  PROVE  GroupInv'
<1>1. /\ DOMAIN HardClose(c) = Fields /\ HardClose(c).refs = Chan.refs
      /\ HardClose(c).target = Chan.target /\ HardClose(c).mode = "hard_close"
  BY ClosingChannel DEF Alike
<1>2. HardClose(c).refs > 1
  BY <1>1, ChanFits
<1>3. Unrefs(Now, HardClose(c))
  BY <1>2 DEF Unrefs, CloseReading
<1> QED
  BY <1>1, <1>3, ServedClosed

LEMMA FrameComesInv ==
  ASSUME GroupAssumption, GroupInv, DOMAIN worker.todo # {}, Chan.mode # "hard_close",
         NEW ch, Alike(ch, Chan), NEW frame, FrameComes(ch, frame),
         UNCHANGED <<life, holders, threadVars, closing, postedTo, via>>
  PROVE  GroupInv'
<1>1. DOMAIN ch = Fields /\ ch.refs = Chan.refs /\ ch.target = Chan.target /\ ch.mode = Chan.mode
  BY DEF Alike
<1>2. ASSUME NEW c, Alike(c, ch), channels' = [channels EXCEPT ![Now] = c], worker' \in Serving
      PROVE  GroupInv'
  BY <1>2, AlikeTwice, ServedAlike
<1>3. Alike([ch EXCEPT !.payload = FALSE], ch) /\ Alike(StoreFrame(ch, frame), ch) /\ Alike(ch, ch)
  BY <1>1, ReadingKeeps DEF Alike
<1>4. CASE /\ channels' = [channels EXCEPT ![Now] = ch] /\ worker' = At("dispatching")
  BY <1>2, <1>3, <1>4 DEF Serving
<1>5. CASE /\ channels' = [channels EXCEPT ![Now] =
                IF ch.datagram THEN [ch EXCEPT !.payload = FALSE]
                ELSE CloseReading([ch EXCEPT !.payload = FALSE])]
           /\ worker' = IF ch.datagram THEN At("output") ELSE Abort
  <2>1. CASE ch.datagram
    BY <1>2, <1>3, <1>5, <2>1 DEF Serving
  <2>2. CASE ~ch.datagram
    <3>1. Alike([ch EXCEPT !.payload = FALSE], Chan)
      BY <1>3, AlikeTwice
    <3>2. channels' = [channels EXCEPT ![Now] = CloseReading([ch EXCEPT !.payload = FALSE])]
      BY <1>5, <2>2
    <3>3. worker' \in Serving
      BY <1>5, <2>2 DEF Serving
    <3> QED
      BY <3>1, <3>2, <3>3, ClosedOnBadFrame
  <2> QED
    BY <2>1, <2>2
<1>6. CASE /\ channels' = [channels EXCEPT ![Now] = StoreFrame(ch, frame)]
           /\ worker' \in {At("dispatching"), At("output")}
  BY <1>2, <1>3, <1>6 DEF Serving
<1>7. CASE /\ channels' = [channels EXCEPT ![Now] = [ch EXCEPT !.payload = FALSE]]
           /\ worker' = IF ch.datagram THEN At("output") ELSE Abort
  BY <1>2, <1>3, <1>7 DEF Serving
<1>8. \/ channels' = [channels EXCEPT ![Now] = ch] /\ worker' = At("dispatching")
      \/ /\ channels' = [channels EXCEPT ![Now] =
                IF ch.datagram THEN [ch EXCEPT !.payload = FALSE]
                ELSE CloseReading([ch EXCEPT !.payload = FALSE])]
         /\ worker' = IF ch.datagram THEN At("output") ELSE Abort
      \/ /\ channels' = [channels EXCEPT ![Now] = StoreFrame(ch, frame)]
         /\ worker' \in {At("dispatching"), At("output")}
      \/ /\ channels' = [channels EXCEPT ![Now] = [ch EXCEPT !.payload = FALSE]]
         /\ worker' = IF ch.datagram THEN At("output") ELSE Abort
  BY DEF FrameComes
<1> QED
  BY <1>4, <1>5, <1>6, <1>7, <1>8

LEMMA ReadInv ==
  ASSUME GroupAssumption, GroupInv, NEW n,
         InputEnds \/ ReadPart(n) \/ ReadHeader(n) \/ ReadPayload(n) \/ ReadDatagram
  PROVE  GroupInv'
<1>1. DOMAIN worker.todo # {} /\ Chan.mode = "operational"
  BY DEF InputEnds, ReadPart, ReadHeader, ReadPayload, ReadDatagram, Readable, MayRead
<1>2. DOMAIN Chan = Fields /\ Chan.mode # "hard_close"
  BY <1>1, ChanFits
<1>3. Alike(Chan, Chan) /\ Alike(CleanIncoming(Chan), Chan) /\ Alike(PartRead(Chan, n), Chan)
      /\ Alike(BeginPayload(Chan), Chan) /\ Alike(FrameRead(Chan), Chan)
      /\ Alike([Chan EXCEPT !.payload = TRUE], Chan)
  BY <1>2, ReadingKeeps DEF Alike
<1>4. CASE InputEnds
  <2>1. UNCHANGED <<threadVars, closing, postedTo, via>>
    BY <1>4 DEF InputEnds, envVars
  <2>2. \/ CloseMe(Chan) /\ worker' = Continue
        \/ CloseMe(CleanIncoming(Chan)) /\ worker' = Abort
    BY <1>4 DEF InputEnds
  <2> QED
    BY <1>1, <1>2, <1>3, <2>1, <2>2, ClosedByWorker
<1>5. CASE ReadPart(n)
  <2>1. UNCHANGED <<life, holders, threadVars, closing, postedTo, via>>
    BY <1>5 DEF ReadPart, AfterInput
  <2>2. channels' = [channels EXCEPT ![Now] = PartRead(Chan, n)] /\ worker' \in Serving
    BY <1>5 DEF ReadPart, Chan, Serving
  <2> QED
    BY <1>1, <1>3, <2>1, <2>2, ServedAlike
<1>6. CASE ReadHeader(n)
  <2>1. UNCHANGED <<life, holders, threadVars, closing, postedTo, via>>
    BY <1>6 DEF ReadHeader, AfterInput
  <2>2. \/ /\ channels' = [channels EXCEPT ![Now] = BeginPayload(Chan)] /\ worker' \in Serving
        \/ /\ channels' = [channels EXCEPT ![Now] = PartRead(Chan, n)] /\ worker' \in Serving
        \/ channels' = [channels EXCEPT ![Now] = CloseReading(Chan)] /\ worker' \in Serving
    BY <1>6 DEF ReadHeader, Chan, Serving
  <2> QED
    BY <1>1, <1>2, <1>3, <2>1, <2>2, ServedAlike, ClosedOnBadFrame
<1>7. CASE ReadPayload(n)
  <2>1. UNCHANGED <<life, holders, threadVars, closing, postedTo, via>>
        /\ FrameComes(FrameRead(Chan), Head(link[Now]))
    BY <1>7 DEF ReadPayload, AfterFrame
  <2> QED
    BY <1>1, <1>2, <1>3, <2>1, FrameComesInv
<1>8. CASE ReadDatagram
  <2>1. UNCHANGED <<life, holders, threadVars, closing, postedTo, via>>
        /\ FrameComes([Chan EXCEPT !.payload = TRUE], Head(link[Now]))
    BY <1>8 DEF ReadDatagram, AfterFrame
  <2> QED
    BY <1>1, <1>2, <1>3, <2>1, FrameComesInv
<1> QED
  BY <1>4, <1>5, <1>6, <1>7, <1>8

LEMMA WriteInv ==
  ASSUME GroupAssumption, GroupInv,
         \/ Dispatched \/ PillReached \/ WriteFails \/ WritePart(1) \/ WriteRest \/ Consume
  PROVE  GroupInv'
<1>1. DOMAIN worker.todo # {}
  BY DEF GroupInv, WorkerFits, Dispatched, PillReached, WriteFails, WritePart, WriteRest, Consume, MayWrite
<1>2. DOMAIN Chan = Fields /\ Alike(Chan, Chan)
  BY <1>1, ChanFits DEF Alike
<1>3. CASE Dispatched
  <2> DEFINE last == delivered[Now][Len(delivered[Now])].id
             c == IF Chan.payload THEN [Chan EXCEPT !.payload = FALSE]
                  ELSE IF HasList(Chan, last) THEN WithoutList(Chan, last) ELSE Chan
  <2>1. /\ channels' = [channels EXCEPT ![Now] = c] /\ worker' \in Serving
        /\ UNCHANGED <<life, holders, threadVars, closing, postedTo, via>>
    BY <1>3 DEF Dispatched, Chan, Serving, envVars, historyVars
  <2>2. Alike(c, Chan)
    BY <1>2, ReadingKeeps
  <2> HIDE DEF c
  <2> QED
    BY <1>1, <2>1, <2>2, ServedAlike
<1>4. CASE PillReached \/ WriteFails
  <2>1. /\ Chan.mode # "hard_close" /\ CloseMe(Chan) /\ worker' \in {Continue, Abort}
        /\ UNCHANGED <<threadVars, closing, postedTo, via>>
    BY <1>4 DEF PillReached, WriteFails, MayWrite, envVars
  <2> QED
    BY <1>1, <1>2, <2>1, ClosedByWorker
<1>5. ASSUME NEW c, Alike(c, Chan), channels' = [channels EXCEPT ![Now] = c], worker' \in Serving,
             UNCHANGED <<life, holders, threadVars, closing, postedTo, via>>
      PROVE  GroupInv'
  BY <1>1, <1>5, ServedAlike
<1>6. CASE WritePart(1)
  <2>1. channels' = [channels EXCEPT ![Now] = Written(Chan, 1)] /\ worker' \in Serving
        /\ UNCHANGED <<life, holders, threadVars, closing, postedTo, via>>
    BY <1>6 DEF WritePart, Chan, Serving, envVars, historyVars
  <2> QED
    BY <1>2, <1>5, <2>1, WritingKeeps
<1>7. CASE WriteRest
  <2>1. channels' = [channels EXCEPT ![Now] = Written(Chan, RestOfFrame(Chan))] /\ worker' \in Serving
        /\ UNCHANGED <<life, holders, threadVars, closing, postedTo, via>>
    BY <1>7 DEF WriteRest, Chan, Serving, envVars
  <2> QED
    BY <1>2, <1>5, <2>1, WritingKeeps
<1>8. CASE Consume
  <2>1. channels' = [channels EXCEPT ![Now] = ConsumeFrame(Chan)] /\ worker' \in Serving
        /\ UNCHANGED <<life, holders, threadVars, closing, postedTo, via>>
    BY <1>8 DEF Consume, Chan, Serving, envVars, historyVars
  <2> QED
    BY <1>2, <1>5, <2>1, WritingKeeps
<1> QED
  BY <1>3, <1>4, <1>6, <1>7, <1>8

\* Steps that touch no channel.
LEMMA PassedOver ==
  ASSUME GroupInv, NoInput \/ NoOutput
  PROVE  GroupInv'
<1>1. /\ DOMAIN worker.todo # {} /\ worker' \in Serving
      /\ UNCHANGED <<channels, life, holders, threadVars, closing, postedTo, via>>
  BY DEF NoInput, NoOutput, GroupInv, WorkerFits, Serving, tableVars, envVars, historyVars
<1>2. WorkerFits' /\ worker'.pins = worker.pins /\ ~closing
  BY <1>1, WorkerServes DEF GroupInv, ClosingAlone
<1>3. TableInv'
  BY <1>1, <1>2, TableStays DEF GroupInv, TableInv
<1>4. SlotsKept /\ PrivateKept
  BY <1>1, SlotsStay DEF GroupInv, PrivateKept
<1> QED
  BY <1>1, <1>2, <1>3, <1>4, ThreadsStay DEF GroupInv, TableInv, ThreadInv
-----------------------------------------------------------------------------
(* The worker between two rounds.                                            *)

LEMMA PinAllInv ==
  ASSUME GroupAssumption, GroupInv, PinAll
  PROVE  GroupInv'
<1> DEFINE shadow == {holders[i].ch : i \in 1 .. Len(holders)} \ {None}
           poll == [o \in shadow |-> Interest(channels[o])]
<1>1. /\ worker.pc = "idle" /\ ~closing
      /\ channels' = [o \in Channels |-> IF o \in shadow
                                         THEN [channels[o] EXCEPT !.refs = @ + 1] ELSE channels[o]]
      /\ worker' = [pc |-> "waiting", pins |-> shadow, todo |-> <<>>, poll |-> poll]
      /\ UNCHANGED <<life, holders, threadVars, closing, postedTo, via>>
  BY DEF PinAll, historyVars
<1>2. \A o \in Channels : o \in shadow <=> Listed(o)
  <2>1. None \notin Channels
    BY DEF GroupAssumption
  <2>2. ASSUME NEW o \in Channels, Listed(o)
        PROVE  o \in shadow
    <3>1. PICK i \in Slots : holders[i].ch = o
      BY <2>2 DEF GroupInv, TableListed
    <3> QED
      BY <2>1, <3>1 DEF Slots
  <2>3. ASSUME NEW o \in Channels, o \in shadow
        PROVE  Listed(o)
    <3>1. PICK i \in Slots : holders[i].ch = o /\ o # None
      BY <2>3 DEF Slots
    <3> QED
      BY <3>1 DEF GroupInv, TableListed
  <2> QED
    BY <2>2, <2>3
<1>3. shadow \subseteq Channels
  BY SlotValues DEF GroupInv
<1>4. worker.pins = {}
  BY <1>1 DEF GroupInv, WorkerFits
<1>5. /\ DOMAIN worker' = {"pc", "pins", "poll", "todo"} /\ worker'.pc = "waiting"
      /\ worker'.pins = shadow /\ DOMAIN worker'.poll = shadow /\ worker'.todo = <<>>
  BY <1>1
<1> HIDE DEF poll, shadow
<1>6. WorkerFits'
  <2>1. DOMAIN worker'.todo = {}
    BY <1>5
  <2> QED
    BY <1>3, <1>5, <2>1 DEF WorkerFits
<1>7. ASSUME NEW o \in Channels, Listed(o)
      PROVE  /\ DOMAIN channels'[o] = Fields /\ channels'[o].refs = channels[o].refs + 1
             /\ channels[o].refs \in Nat
             /\ channels'[o].target = channels[o].target /\ channels'[o].mode = channels[o].mode
  <2>1. channels'[o] = [channels[o] EXCEPT !.refs = @ + 1]
    BY <1>1, <1>2, <1>7
  <2>2. DOMAIN channels[o] = Fields /\ channels[o].refs \in Nat
    BY <1>7 DEF GroupInv, TableListed, IsChannel
  <2> QED
    BY <2>1, <2>2 DEF Fields
<1>8. TableListed'
  <2>1. \A o \in Channels : Listed(o) => IsChannel(o)'
    <3> SUFFICES ASSUME NEW o \in Channels, Listed(o) PROVE IsChannel(o)'
      OBVIOUS
    <3>1. channels'[o].refs \in Nat /\ channels[o].target \in Targets \cup {o}
      BY <1>7 DEF GroupInv, TableListed, IsChannel
    <3> QED
      BY <1>7, <3>1 DEF IsChannel
  <2> QED
    BY <1>1, <2>1 DEF GroupInv, TableListed, Listed, Slots
<1>9. ReferencesCounted'
  <2> SUFFICES ASSUME NEW o \in Channels
               PROVE  /\ o \in shadow => life[o] = "listed"
                      /\ life[o] = "listed" =>
                           /\ channels'[o].refs = (IF o \in shadow THEN 1 ELSE 0)
                                + (IF channels'[o].mode = "hard_close" THEN 0 ELSE 1)
                           /\ channels'[o].refs > 0
    BY <1>1, <1>5 DEF ReferencesCounted, Listed
  <2>1. CASE ~Listed(o)
    BY <1>2, <2>1 DEF Listed
  <2>2. CASE Listed(o)
    <3>1. channels[o].refs = 0 + (IF channels[o].mode = "hard_close" THEN 0 ELSE 1)
      BY <1>4, <2>2 DEF GroupInv, ReferencesCounted
    <3> QED
      BY <1>2, <1>7, <2>2, <3>1 DEF Listed
  <2> QED
    BY <2>1, <2>2
<1>10. OneChannelPerTarget'
  <2>1. \A i \in Slots : holders[i].ch # None =>
          channels'[holders[i].ch].target = channels[holders[i].ch].target
    <3>1. \A i \in Slots : holders[i].ch # None => holders[i].ch \in Channels /\ Listed(holders[i].ch)
      BY SlotValues DEF GroupInv, TableListed
    <3> QED
      BY <1>7, <3>1
  <2> QED
    BY <1>1, <2>1 DEF GroupInv, OneChannelPerTarget, Slots
<1>11. ThreadInv'
  <2>1. SlotsKept /\ PrivateKept
    BY <1>1, SlotsStay DEF GroupInv, PrivateKept
  <2> QED
    BY <1>1, <2>1, ThreadsStay
<1> QED
  BY <1>6, <1>8, <1>9, <1>10, <1>11 DEF GroupInv, ThreadInv

\* Steps that change only what the worker is at.
LEMMA WorkerMoves ==
  ASSUME GroupInv, \/ \E r \in Reports : Wake(r)
                   \/ TimedOut \/ Served \/ WorkDone
  PROVE  GroupInv'
<1>1. /\ UNCHANGED <<channels, life, holders, threadVars, closing, postedTo, via>>
      /\ worker.pc # "idle"
  BY DEF Wake, TimedOut, Served, WorkDone, tableVars, envVars, historyVars
<1>2. /\ DOMAIN worker = {"pc", "pins", "poll", "todo"}
      /\ worker.pins \subseteq Channels /\ DOMAIN worker.poll \subseteq worker.pins
      /\ DOMAIN worker.todo \subseteq worker.pins
      /\ worker.pc # "waiting" => DOMAIN worker.poll = {}
      /\ worker.pc \notin {"serving", "dispatching", "output", "progress"} => DOMAIN worker.todo = {}
  BY DEF GroupInv, WorkerFits
<1>3. WorkerFits' /\ worker'.pins = worker.pins
  <2>1. CASE \E r \in Reports : Wake(r)
    <3>1. PICK r \in Reports : Wake(r)
      BY <2>1
    <3> DEFINE todo == Restrict(r, {o \in DOMAIN r : r[o] # {}})
    <3>2. /\ DOMAIN worker' = {"pc", "pins", "poll", "todo"} /\ worker'.pc = "serving"
          /\ worker'.pins = worker.pins /\ worker'.poll = <<>> /\ worker'.todo = todo
      BY <1>2, <3>1 DEF Wake
    <3>3. DOMAIN todo \subseteq worker.pins
      BY <1>2, <3>1 DEF Restrict, Reports
    <3>4. DOMAIN worker'.poll = {}
      BY <3>2
    <3> HIDE DEF todo
    <3> QED
      BY <1>2, <3>2, <3>3, <3>4 DEF WorkerFits
  <2>2. CASE TimedOut
    <3>1. /\ DOMAIN worker' = {"pc", "pins", "poll", "todo"} /\ worker'.pc = "unpinning"
          /\ worker'.pins = worker.pins /\ worker'.poll = <<>> /\ worker'.todo = worker.todo
          /\ worker.pc = "waiting"
      BY <1>2, <2>2 DEF TimedOut
    <3>2. DOMAIN worker'.poll = {}
      BY <3>1
    <3> QED
      BY <1>2, <3>1, <3>2 DEF WorkerFits
  <2>3. CASE Served
    <3>1. /\ DOMAIN worker' = {"pc", "pins", "poll", "todo"} /\ worker'.pc = "unpinning"
          /\ worker'.pins = worker.pins /\ worker'.poll = worker.poll /\ worker'.todo = worker.todo
          /\ worker.pc \in {"serving", "hook"} /\ DOMAIN worker.todo = {}
      BY <1>2, <2>3 DEF Served, At
    <3> QED
      BY <1>2, <3>1 DEF WorkerFits
  <2>4. CASE WorkDone
    <3>1. worker' = IdleWorker /\ worker.pins = {}
      BY <2>4 DEF WorkDone
    <3>2. /\ DOMAIN worker' = {"pc", "pins", "poll", "todo"} /\ worker'.pc = "idle"
          /\ worker'.pins = {} /\ worker'.poll = <<>> /\ worker'.todo = <<>>
      BY <3>1 DEF IdleWorker
    <3>3. DOMAIN worker'.poll = {} /\ DOMAIN worker'.todo = {}
      BY <3>2
    <3> QED
      BY <3>1, <3>2, <3>3 DEF WorkerFits
  <2> QED
    BY <2>1, <2>2, <2>3, <2>4
<1>4. TableInv'
  BY <1>1, <1>3, TableStays DEF GroupInv, TableInv
<1>5. SlotsKept /\ PrivateKept /\ ~closing
  BY <1>1, SlotsStay DEF GroupInv, PrivateKept, ClosingAlone
<1> QED
  BY <1>1, <1>3, <1>4, <1>5, ThreadsStay DEF GroupInv, TableInv, ThreadInv

LEMMA UnpinInv ==
  ASSUME GroupAssumption, GroupInv, Unpin
  PROVE  GroupInv'
<1> DEFINE o == First(worker.pins)
<1>1. /\ worker.pc = "unpinning" /\ worker.pins # {}
      /\ Unref(o, channels[o]) /\ worker' = [worker EXCEPT !.pins = @ \ {o}]
      /\ UNCHANGED <<threadVars, closing, postedTo, via>>
  BY DEF Unpin, envVars
<1>2. \A p \in worker.pins : p \in Channels /\ Listed(p)
  BY DEF GroupInv, WorkerFits, ReferencesCounted
<1>3. o \in worker.pins
  BY <1>1, <1>2, FirstIsOne DEF GroupInv
<1> HIDE DEF o
<1>4. o \in Channels /\ Listed(o) /\ IsChannel(o)
  BY <1>2, <1>3 DEF GroupInv, TableListed
<1>5. /\ DOMAIN worker' = {"pc", "pins", "poll", "todo"} /\ worker'.pc = worker.pc
      /\ worker'.pins = worker.pins \ {o} /\ worker'.poll = worker.poll /\ worker'.todo = worker.todo
  BY <1>1 DEF GroupInv, WorkerFits
<1>6. WorkerFits'
  BY <1>1, <1>5 DEF GroupInv, WorkerFits
<1>7. Unrefs(o, channels[o]) /\ LetsGo(o, channels[o])
  BY <1>1, <1>3, <1>5 DEF Unref, Unrefs, LetsGo
<1>8. TableInv' /\ SlotsKept /\ PrivateKept
  BY <1>4, <1>7, Dropped DEF GroupInv, TableInv, IsChannel
<1>9. ~closing
  BY <1>1 DEF GroupInv, ClosingAlone
<1> QED
  BY <1>1, <1>6, <1>8, <1>9, ThreadsStay DEF GroupInv, TableInv, ThreadInv

LEMMA AcceptInv ==
  ASSUME GroupAssumption, GroupInv, NEW o \in Channels, Accept(o)
  PROVE  GroupInv'
<1>1. /\ worker.pc = "serving" /\ DOMAIN worker.todo = {} /\ life[o] = "unused"
      /\ Adds(o, o, FALSE, FALSE) /\ worker' = At("hook")
      /\ UNCHANGED <<threadVars, closing, postedTo, via>>
  BY DEF Accept, Adds, historyVars
<1>2. /\ DOMAIN worker' = {"pc", "pins", "poll", "todo"} /\ worker'.pc = "hook"
      /\ worker'.pins = worker.pins /\ worker'.poll = worker.poll /\ worker'.todo = worker.todo
  BY <1>1 DEF GroupInv, WorkerFits, At
<1>3. WorkerFits'
  BY <1>1, <1>2 DEF GroupInv, WorkerFits
<1>4. \A i \in Slots : holders[i].ch # None => channels[holders[i].ch].target # o
  <2> SUFFICES ASSUME NEW i \in Slots, holders[i].ch # None
               PROVE  channels[holders[i].ch].target # o
    OBVIOUS
  <2> DEFINE p == holders[i].ch
  <2>1. p \in Channels /\ Listed(p)
    BY SlotValues DEF GroupInv, TableListed
  <2>2. channels[p].target \in Targets \cup {p}
    BY <2>1 DEF GroupInv, TableListed, IsChannel
  <2>3. p # o /\ o \notin Targets
    BY <1>1, <2>1 DEF Listed, GroupAssumption
  <2> QED
    BY <2>2, <2>3
<1>5. ~Listed(o)
  BY <1>1 DEF Listed
<1>6. TableInv' /\ SlotsKept /\ \A p \in Channels : p # o /\ life[p] = "private" => life'[p] = "private"
  <2>1. TableInv /\ Adds(o, o, FALSE, FALSE) /\ worker'.pins = worker.pins
    BY <1>1, <1>2 DEF GroupInv, TableInv
  <2> QED
    BY <1>4, <1>5, <2>1, Added
<1>7. PrivateKept /\ ~closing
  BY <1>1, <1>6 DEF PrivateKept, GroupInv, ClosingAlone
<1> QED
  BY <1>1, <1>3, <1>6, <1>7, ThreadsStay DEF GroupInv, TableInv, ThreadInv

\* The agent is destroyed.
LEMMA CleanInv ==
  ASSUME GroupAssumption, GroupInv, Clean
  PROVE  GroupInv'
<1>1. /\ ~closing /\ worker.pc = "idle" /\ \A u \in Users : user[u].pc = "idle"
      /\ closing' = TRUE /\ holders' = <<>> /\ channels' = [o \in Channels |-> Gone]
      /\ life' = [o \in Channels |-> IF life[o] = "listed" THEN "freed" ELSE life[o]]
      /\ UNCHANGED <<user, handle, worker, postedTo, via>>
  BY DEF Clean, threadVars, workVars
<1>2. /\ life' \in [Channels -> {"unused", "private", "listed", "freed"}]
      /\ \A o \in Channels : ~Listed(o)'
  BY <1>1 DEF GroupInv, TableListed, Listed
<1>3. holders' \in Seq(Holders) /\ Len(holders') = 0 /\ Slots' = {}
  BY <1>1 DEF Slots
<1>4. TableListed'
  BY <1>1, <1>2, <1>3 DEF TableListed
<1>5. WorkerFits' /\ ReferencesCounted'
  BY <1>1, <1>2 DEF GroupInv, WorkerFits, ReferencesCounted
<1>6. OneChannelPerTarget' /\ ClosingAlone'
  BY <1>1, <1>3 DEF OneChannelPerTarget, ClosingAlone
<1>7. UsersFit'
  BY <1>1 DEF GroupInv, UsersFit
<1>8. HandlesFit'
  BY <1>1, <1>3 DEF GroupInv, HandlesFit, HandleFits
<1>9. MailFits'
  BY <1>1 DEF GroupInv, MailFits, DescriptorsReachTheirOwn
<1> QED
  BY <1>4, <1>5, <1>6, <1>7, <1>8, <1>9 DEF GroupInv
-----------------------------------------------------------------------------
(* The calls of the program's threads.                                       *)

LEMMA ReachedListed ==
  ASSUME GroupAssumption, GroupInv, NEW u \in Users, NEW how, NEW o \in Reached(u, how)
  PROVE  /\ o \in Channels /\ Listed(o) /\ IsChannel(o)
         /\ how \notin Targets => o = handle[u].ch
<1> DEFINE i == IF how \in Targets THEN Find(how) ELSE FindByHandle(handle[u])
<1>1. i # 0 /\ holders[i].ch # None /\ o = holders[i].ch
  BY DEF Reached
<1>2. i \in Slots
  <2>1. CASE how \in Targets
    BY <1>1, <2>1, FindFinds DEF GroupInv
  <2>2. CASE how \notin Targets
    BY <1>1, <2>2 DEF FindByHandle, Slots
  <2> QED
    BY <2>1, <2>2
<1>3. ASSUME how \notin Targets PROVE o = handle[u].ch
  <2>1. i = handle[u].index /\ holders[i].seq = handle[u].seq
    BY <1>1, <1>3 DEF FindByHandle
  <2>2. HandleFits(u)
    BY DEF GroupInv, HandlesFit
  <2>3. holders[i].ch \in {None, handle[u].ch}
    BY <1>2, <2>1, <2>2 DEF HandleFits
  <2> QED
    BY <1>1, <2>3
<1> HIDE DEF i
<1>4. holders[i].ch \in Channels \cup {None} /\ Listed(holders[i].ch)
  BY <1>1, <1>2, SlotValues DEF GroupInv, TableListed
<1> QED
  BY <1>1, <1>3, <1>4 DEF GroupInv, TableListed

LEMMA CalledInPlace ==
  ASSUME GroupInv, NEW o \in Channels, Listed(o), NEW c, SameCounts(c, o),
         channels' = [channels EXCEPT ![o] = c], UNCHANGED <<life, holders, worker>>
  PROVE  TableInv' /\ WorkerFits' /\ SlotsKept /\ PrivateKept
<1>1. TableInv' /\ WorkerFits'
  BY InPlace DEF GroupInv, TableInv, WorkerFits
<1>2. SlotsKept /\ PrivateKept
  BY SlotsStay DEF GroupInv, PrivateKept
<1> QED
  BY <1>1, <1>2

LEMMA PostInv ==
  ASSUME GroupAssumption, GroupInv, NEW u \in Users, NEW m \in Messages, NEW how, Post(u, m, how)
  PROVE  GroupInv'
<1>1. /\ ~closing /\ UNCHANGED <<life, holders, user, handle, worker, closing>>
  BY DEF Post, Enters, threadVars, workVars, envVars
<1>2. PICK o \in Reached(u, how) :
        /\ channels' = [channels EXCEPT ![o] =
             Insert(channels[o], Frames(m, m, Header[m], Body[m], Priority[m]), Priority[m])]
        /\ postedTo' = [postedTo EXCEPT ![m] = o]
        /\ via' = [via EXCEPT ![m] = IF how \in Targets THEN o ELSE handle[u].ch]
  BY DEF Post
<1>3. o \in Channels /\ Listed(o) /\ IsChannel(o) /\ (how \notin Targets => o = handle[u].ch)
  BY ReachedListed
<1> DEFINE out == Before(channels[o].out, Priority[m])
                   \o Frames(m, m, Header[m], Body[m], Priority[m]) \o After(channels[o].out, Priority[m])
           c == [channels[o] EXCEPT !.out = out]
<1>4. channels' = [channels EXCEPT ![o] = c]
  BY <1>2 DEF Insert
<1> HIDE DEF out
<1>5. SameCounts(c, o)
  BY <1>3 DEF SameCounts, IsChannel, Fields
<1> HIDE DEF c
<1>6. TableInv' /\ WorkerFits' /\ SlotsKept /\ PrivateKept
  BY <1>1, <1>3, <1>4, <1>5, CalledInPlace
<1>7. UsersFit' /\ HandlesFit' /\ ClosingAlone'
  BY <1>1, <1>6, UsersKept, HandlesKept DEF GroupInv, ClosingAlone
<1>8. MailFits'
  <2>1. via' = [via EXCEPT ![m] = o]
    BY <1>2, <1>3
  <2> QED
    BY <1>2, <2>1 DEF GroupInv, MailFits, DescriptorsReachTheirOwn
<1> QED
  BY <1>6, <1>7, <1>8 DEF GroupInv, TableInv

LEMMA CloseInv ==
  ASSUME GroupAssumption, GroupInv, NEW u \in Users, NEW how, CloseAtOnce(u, how) \/ CloseFails(u, how)
  PROVE  GroupInv'
<1>1. ~closing /\ UNCHANGED <<threadVars, worker, closing, postedTo, via>>
  BY DEF CloseAtOnce, CloseFails, Enters, workVars, envVars
<1>2. CASE CloseAtOnce(u, how)
  <2>1. PICK o \in Reached(u, how) :
          channels[o].mode = "operational" /\ Unref(o, CleanIncoming(HardClose(channels[o])))
    BY <1>2 DEF CloseAtOnce
  <2>2. o \in Channels /\ Listed(o) /\ DOMAIN channels[o] = Fields
    BY ReachedListed DEF IsChannel
  <2> DEFINE c == CleanIncoming(HardClose(channels[o]))
  <2>3. /\ DOMAIN HardClose(channels[o]) = Fields /\ HardClose(channels[o]).refs = channels[o].refs
        /\ HardClose(channels[o]).target = channels[o].target
        /\ HardClose(channels[o]).mode = "hard_close"
    BY <2>2, ClosingChannel
  <2>4. Alike(c, HardClose(channels[o]))
    BY <2>3, ReadingKeeps
  <2>5. /\ DOMAIN c = Fields /\ c.refs = channels[o].refs /\ c.target = channels[o].target
        /\ c.mode = "hard_close"
    BY <2>3, <2>4 DEF Alike
  <2>6. Unrefs(o, c)
    BY <2>1 DEF Unref, Unrefs
  <2> HIDE DEF c
  <2>7. LetsGo(o, c)
    BY <1>1, <2>1, <2>5 DEF LetsGo
  <2>8. TableInv' /\ SlotsKept /\ PrivateKept
    BY <2>2, <2>5, <2>6, <2>7, Dropped DEF GroupInv, TableInv
  <2>9. WorkerFits'
    BY <1>1 DEF GroupInv, WorkerFits
  <2> QED
    BY <1>1, <2>8, <2>9, ThreadsStay DEF GroupInv, TableInv, ThreadInv
<1>3. CASE CloseFails(u, how)
  <2>1. PICK o \in Reached(u, how) : channels' = [channels EXCEPT ![o] = CleanIncoming(channels[o])]
    BY <1>3 DEF CloseFails
  <2>2. o \in Channels /\ Listed(o) /\ DOMAIN channels[o] = Fields
    BY ReachedListed DEF IsChannel
  <2>3. SameCounts(CleanIncoming(channels[o]), o)
    BY <2>2, ReadingKeeps, AlikeCounts
  <2>4. UNCHANGED <<life, holders>>
    BY <1>3 DEF CloseFails
  <2>5. TableInv' /\ WorkerFits' /\ SlotsKept /\ PrivateKept
    BY <1>1, <2>1, <2>2, <2>3, <2>4, CalledInPlace
  <2> QED
    BY <1>1, <2>5, ThreadsStay DEF GroupInv, TableInv, ThreadInv
<1> QED
  BY <1>2, <1>3

LEMMA ClosePostsInv ==
  ASSUME GroupAssumption, GroupInv, NEW u \in Users, NEW how, NEW priority,
         ClosePosts(u, how, priority)
  PROVE  GroupInv'
<1>1. ~closing /\ UNCHANGED <<life, holders, handle, worker, closing, postedTo, via>>
  BY DEF ClosePosts, Enters, workVars, envVars
<1>2. user[u].pc = "idle"
  BY DEF ClosePosts, Enters
<1>3. PICK o \in Reached(u, how) :
        LET closed == InsertPill(channels[o], None, priority)
        IN /\ channels[o].mode = "operational"
           /\ IF CutOff(channels[o], priority) = <<>>
              THEN channels' = [channels EXCEPT ![o] = CleanIncoming(closed)] /\ UNCHANGED user
              ELSE /\ channels' = [channels EXCEPT ![o] = closed]
                   /\ user' = [user EXCEPT ![u] = [@ EXCEPT !.pc = "cancelling", !.ch = o,
                                                            !.cut = CutOff(channels[o], priority)]]
  BY DEF ClosePosts
<1>4. o \in Channels /\ Listed(o) /\ DOMAIN channels[o] = Fields
  BY ReachedListed DEF IsChannel
<1> DEFINE closed == InsertPill(channels[o], None, priority)
<1>5. /\ DOMAIN closed = Fields /\ closed.refs = channels[o].refs
      /\ closed.target = channels[o].target /\ closed.mode = "soft_close"
  <2> DEFINE out == Append(Before(channels[o].out, priority), Pill(None))
  <2>1. closed = [channels[o] EXCEPT !.out = out, !.mode = "soft_close"]
    BY DEF InsertPill
  <2> HIDE DEF out, closed
  <2> QED
    BY <1>4, <2>1 DEF Fields
<1> HIDE DEF closed
<1>6. Alike(CleanIncoming(closed), closed)
  BY <1>5, ReadingKeeps
<1>7. SameCounts(closed, o) /\ SameCounts(CleanIncoming(closed), o)
  BY <1>3, <1>5, <1>6 DEF SameCounts, Alike
<1>8. channels' = [channels EXCEPT ![o] = closed] \/ channels' = [channels EXCEPT ![o] = CleanIncoming(closed)]
  BY <1>3 DEF closed
<1>9. TableInv' /\ WorkerFits' /\ SlotsKept /\ PrivateKept
  BY <1>1, <1>4, <1>7, <1>8, CalledInPlace
<1>10. HandlesFit' /\ ClosingAlone' /\ MailFits'
  BY <1>1, <1>9, HandlesKept DEF GroupInv, ClosingAlone, MailFits, DescriptorsReachTheirOwn
<1>11. UsersFit'
  <2>1. CASE UNCHANGED user
    BY <1>9, <2>1, UsersKept DEF GroupInv
  <2>2. CASE user' = [user EXCEPT ![u] = [@ EXCEPT !.pc = "cancelling", !.ch = o,
                                                   !.cut = CutOff(channels[o], priority)]]
    <3> DEFINE r == [user[u] EXCEPT !.pc = "cancelling", !.ch = o, !.cut = CutOff(channels[o], priority)]
    <3>1. DOMAIN r = {"pc", "ch", "target", "cut"} /\ r.pc = "cancelling" /\ r.ch = o
      BY DEF GroupInv, UsersFit
    <3> HIDE DEF r
    <3>2. user' = [user EXCEPT ![u] = r]
      BY <2>2 DEF r
    <3>3. /\ DOMAIN user' = Users /\ user'[u] = r /\ \A v \in Users : v # u => user'[v] = user[v]
      BY <3>2 DEF GroupInv, UsersFit
    <3> QED
      BY <1>1, <1>4, <3>1, <3>3 DEF GroupInv, UsersFit
  <2> QED
    BY <1>3, <2>1, <2>2
<1> QED
  BY <1>9, <1>10, <1>11 DEF GroupInv, TableInv

LEMMA ListenerInv ==
  ASSUME GroupInv, NEW u \in Users, AddListener(u) \/ RemoveListener(u)
  PROVE  GroupInv'
<1>1. /\ ~closing
      /\ UNCHANGED <<channels, life, holders, threadVars, worker, closing, postedTo, via>>
  BY DEF AddListener, RemoveListener, Enters, tableVars, workVars, historyVars
<1>2. TableInv' /\ WorkerFits'
  BY <1>1, TableStays DEF GroupInv, TableInv, WorkerFits
<1>3. SlotsKept /\ PrivateKept
  BY <1>1, SlotsStay DEF GroupInv, PrivateKept
<1> QED
  BY <1>1, <1>2, <1>3, ThreadsStay DEF GroupInv, TableInv, ThreadInv
-----------------------------------------------------------------------------
(* Opening a channel, and the ends of calls that gave the mutex up.          *)

LEMMA OpenFindInv ==
  ASSUME GroupAssumption, GroupInv, NEW u \in Users, NEW t \in Targets, OpenFind(u, t)
  PROVE  GroupInv'
<1>1. /\ ~closing /\ user[u].pc = "idle"
      /\ UNCHANGED <<channels, holders, worker, closing, postedTo, via>>
  BY DEF OpenFind, Enters, workVars, envVars, historyVars
<1>2. ClosingAlone' /\ MailFits' /\ WorkerFits'
  BY <1>1 DEF GroupInv, ClosingAlone, MailFits, DescriptorsReachTheirOwn, WorkerFits
<1>3. CASE Find(t) # 0
  <2> DEFINE i == Find(t)
  <2>1. /\ handle' = [handle EXCEPT ![u] = Descriptor(i, holders[i].seq, holders[i].ch)]
        /\ UNCHANGED <<user, life>>
    BY <1>3 DEF OpenFind
  <2>2. i \in Slots
    BY <1>3, FindFinds DEF GroupInv
  <2> HIDE DEF i
  <2>3. TableInv'
    BY <1>1, <2>1, TableStays DEF GroupInv, TableInv
  <2>4. SlotsKept /\ PrivateKept
    BY <1>1, <2>1, SlotsStay DEF GroupInv, PrivateKept
  <2>5. i \in Slots' /\ handle' = [handle EXCEPT ![u] = Descriptor(i, holders'[i].seq, holders'[i].ch)]
    BY <1>1, <2>1, <2>2 DEF Slots
  <2>6. HandlesFit'
    BY <1>1, <2>3, <2>4, <2>5, HandleGiven DEF GroupInv, TableInv
  <2>7. UsersFit'
    BY <2>1, <2>4, UsersKept DEF GroupInv
  <2> QED
    BY <1>2, <2>3, <2>6, <2>7 DEF GroupInv, TableInv
<1>4. CASE Find(t) = 0
  <2>1. PICK o \in Channels :
          /\ life[o] = "unused" /\ life' = [life EXCEPT ![o] = "private"]
          /\ user' = [user EXCEPT ![u] = [@ EXCEPT !.pc = "connecting", !.ch = o, !.target = t]]
          /\ UNCHANGED handle
    BY <1>4 DEF OpenFind
  <2>2. TableInv'
    BY <1>1, <2>1, OffTheTable DEF GroupInv, TableInv, Listed
  <2>3. SlotsKept /\ PrivateKept
    BY <1>1, <2>1, SlotsStay DEF GroupInv, PrivateKept, TableListed
  <2>4. HandlesFit'
    BY <1>1, <2>1, <2>3, HandlesKept DEF GroupInv
  <2>5. UsersFit'
    <3> DEFINE r == [user[u] EXCEPT !.pc = "connecting", !.ch = o, !.target = t]
    <3>1. /\ DOMAIN r = {"pc", "ch", "target", "cut"} /\ r.pc = "connecting" /\ r.ch = o
          /\ r.target = t
      BY DEF GroupInv, UsersFit
    <3> HIDE DEF r
    <3>2. user' = [user EXCEPT ![u] = r]
      BY <2>1 DEF r
    <3>3. /\ DOMAIN user' = Users /\ user'[u] = r /\ \A v \in Users : v # u => user'[v] = user[v]
      BY <3>2 DEF GroupInv, UsersFit
    <3>4. life'[o] = "private" /\ \A p \in Channels : life[p] = "private" => p # o /\ life'[p] = "private"
      BY <2>1 DEF GroupInv, TableListed
    <3>5. \A v \in Users : user[v].pc = "connecting" => user[v].ch # o
      BY <3>4 DEF GroupInv, UsersFit
    <3>6. ASSUME NEW v \in Users, user'[v].pc = "connecting"
          PROVE  /\ life'[user'[v].ch] = "private" /\ user'[v].target \in Targets
                 /\ \A w \in Users : user'[w].pc = "connecting" /\ user'[w].ch = user'[v].ch => w = v
      <4>1. CASE v = u
        BY <3>1, <3>3, <3>4, <3>5, <4>1
      <4>2. CASE v # u
        <5>1. user'[v] = user[v] /\ user[v].pc = "connecting" /\ user[v].ch \in Channels /\ user[v].ch # o
          BY <3>3, <3>5, <3>6, <4>2 DEF GroupInv, UsersFit
        <5>2. life[user[v].ch] = "private" /\ user[v].target \in Targets
          BY <5>1 DEF GroupInv, UsersFit
        <5>3. ASSUME NEW w \in Users, user'[w].pc = "connecting", user'[w].ch = user'[v].ch PROVE w = v
          BY <3>1, <3>3, <5>1, <5>3 DEF GroupInv, UsersFit
        <5> QED
          BY <3>4, <5>1, <5>2, <5>3
      <4> QED
        BY <4>1, <4>2
    <3>7. ASSUME NEW v \in Users
          PROVE  /\ DOMAIN user'[v] = {"pc", "ch", "target", "cut"}
                 /\ user'[v].pc \in {"idle", "connecting", "cancelling"}
                 /\ user'[v].pc # "idle" => user'[v].ch \in Channels
      BY <3>1, <3>3 DEF GroupInv, UsersFit
    <3> QED
      BY <3>3, <3>6, <3>7 DEF UsersFit
  <2> QED
    BY <1>2, <2>2, <2>4, <2>5 DEF GroupInv, TableInv
<1> QED
  BY <1>3, <1>4

\* The thread gives its channel up.
LEMMA Discarded ==
  ASSUME GroupInv, NEW u \in Users, user[u].pc = "connecting", user' = [user EXCEPT ![u] = IdleUser],
         life' = [life EXCEPT ![user[u].ch] = "freed"],
         UNCHANGED <<channels, holders, worker, closing, postedTo, via>>
  PROVE  /\ TableInv' /\ WorkerFits' /\ SlotsKept /\ UsersFit' /\ ClosingAlone' /\ MailFits'
         /\ ~closing
<1> DEFINE o == user[u].ch
<1>1. o \in Channels /\ life[o] = "private" /\ ~closing
  BY DEF GroupInv, UsersFit, ClosingAlone
<1>2. TableInv'
  BY <1>1, OffTheTable DEF GroupInv, TableInv, Listed
<1>3. \A p \in Channels : p # o /\ life[p] = "private" => life'[p] = "private"
  BY DEF GroupInv, TableListed
<1>4. UsersFit'
  BY <1>3, UserReturns DEF GroupInv
<1>5. SlotsKept
  BY SlotsStay DEF GroupInv
<1>6. ClosingAlone' /\ MailFits' /\ WorkerFits'
  BY <1>1 DEF GroupInv, ClosingAlone, MailFits, DescriptorsReachTheirOwn, WorkerFits
<1> QED
  BY <1>1, <1>2, <1>4, <1>5, <1>6

LEMMA ConnectFailsInv ==
  ASSUME GroupInv, NEW u \in Users, ConnectFails(u)
  PROVE  GroupInv'
<1>1. /\ user[u].pc = "connecting" /\ user' = [user EXCEPT ![u] = IdleUser]
      /\ life' = [life EXCEPT ![user[u].ch] = "freed"]
      /\ UNCHANGED <<channels, holders, handle, worker, closing, postedTo, via>>
  BY DEF ConnectFails, workVars, envVars, historyVars
<1>2. /\ TableInv' /\ WorkerFits' /\ SlotsKept /\ UsersFit' /\ ClosingAlone' /\ MailFits'
      /\ ~closing
  BY <1>1, Discarded
<1>3. HandlesFit'
  BY <1>1, <1>2, HandlesKept DEF GroupInv
<1> QED
  BY <1>2, <1>3 DEF GroupInv, TableInv

LEMMA AddChannelInv ==
  ASSUME GroupAssumption, GroupInv, NEW u \in Users, AddChannel(u)
  PROVE  GroupInv'
<1> DEFINE o == user[u].ch
           t == user[u].target
<1>1. /\ user[u].pc = "connecting" /\ user' = [user EXCEPT ![u] = IdleUser]
      /\ UNCHANGED <<worker, closing, postedTo, via>>
  BY DEF AddChannel, workVars, historyVars
<1>2. /\ o \in Channels /\ life[o] = "private" /\ t \in Targets /\ ~closing
  BY <1>1 DEF GroupInv, UsersFit, ClosingAlone
<1>3. CASE /\ Find(t) # 0
           /\ handle' = [handle EXCEPT ![u] =
                           Descriptor(Find(t), holders[Find(t)].seq, holders[Find(t)].ch)]
           /\ Discard(u, o)
  <2> DEFINE i == Find(t)
  <2>1. /\ TableInv' /\ WorkerFits' /\ SlotsKept /\ UsersFit' /\ ClosingAlone' /\ MailFits'
        /\ UNCHANGED holders
    BY <1>1, <1>3, Discarded DEF Discard
  <2>2. i \in Slots
    BY <1>3, FindFinds DEF GroupInv
  <2>3. i \in Slots' /\ handle' = [handle EXCEPT ![u] = Descriptor(i, holders'[i].seq, holders'[i].ch)]
    BY <1>3, <2>1, <2>2 DEF Slots
  <2> HIDE DEF i
  <2>4. HandlesFit'
    BY <1>1, <1>2, <2>1, <2>3, HandleGiven DEF GroupInv, TableInv
  <2> QED
    BY <2>1, <2>4 DEF GroupInv, TableInv
<1>4. CASE /\ Find(t) = 0
           /\ holders' = SetHolder(Room, SlotIn(Room), o, TRUE)
           /\ handle' = [handle EXCEPT ![u] = Descriptor(SlotIn(Room), Room[SlotIn(Room)].seq + 1, o)]
           /\ channels' = [channels EXCEPT ![o] = NewChannel(t, IsDatagram(t), "inout")]
           /\ life' = [life EXCEPT ![o] = "listed"]
  <2>1. \A i \in Slots : holders[i].ch # None => channels[holders[i].ch].target # t
    BY <1>4, FindFinds DEF GroupInv
  <2>2. Adds(o, t, IsDatagram(t), TRUE)
    BY <1>4 DEF Adds
  <2>3. ~Listed(o) /\ t \in Targets \cup {o}
    BY <1>2 DEF Listed
  <2> DEFINE i == SlotIn(Room)
  <2> HIDE DEF o, t
  <2>4. /\ TableInv' /\ SlotsKept
        /\ \A p \in Channels : p # o /\ life[p] = "private" => life'[p] = "private"
        /\ i \in Slots' /\ holders'[i].ch = o /\ holders'[i].seq = Room[i].seq + 1
    BY <1>1, <1>2, <2>1, <2>2, <2>3, Added DEF GroupInv, TableInv
  <2>5. handle' = [handle EXCEPT ![u] = Descriptor(i, holders'[i].seq, holders'[i].ch)]
    BY <1>4, <2>4
  <2> HIDE DEF i
  <2>6. HandlesFit'
    BY <1>1, <1>2, <2>4, <2>5, HandleGiven DEF GroupInv, TableInv
  <2>7. UsersFit'
    BY <1>1, <2>4, UserReturns DEF GroupInv, o
  <2>8. WorkerFits' /\ ClosingAlone' /\ MailFits'
    BY <1>1, <1>2 DEF GroupInv, WorkerFits, ClosingAlone, MailFits, DescriptorsReachTheirOwn
  <2> QED
    BY <2>4, <2>6, <2>7, <2>8 DEF GroupInv, TableInv
<1>5. CASE Discard(u, o) /\ UNCHANGED handle
  <2>1. /\ TableInv' /\ WorkerFits' /\ SlotsKept /\ UsersFit' /\ ClosingAlone' /\ MailFits'
    BY <1>1, <1>5, Discarded DEF Discard
  <2>2. HandlesFit'
    BY <1>1, <1>2, <1>5, <2>1, HandlesKept DEF GroupInv
  <2> QED
    BY <2>1, <2>2 DEF GroupInv, TableInv
<1> QED
  BY <1>3, <1>4, <1>5 DEF AddChannel

LEMMA CloseCleansInv ==
  ASSUME GroupInv, NEW u \in Users, CloseCleans(u)
  PROVE  GroupInv'
<1> DEFINE o == user[u].ch
<1>1. /\ user[u].pc = "cancelling" /\ user' = [user EXCEPT ![u] = IdleUser]
      /\ channels' = IF life[o] = "listed"
                     THEN [channels EXCEPT ![o] = CleanIncoming(channels[o])] ELSE channels
      /\ UNCHANGED <<life, holders, handle, worker, closing, postedTo, via>>
  BY DEF CloseCleans, workVars, envVars
<1>2. o \in Channels /\ ~closing
  BY <1>1 DEF GroupInv, UsersFit, ClosingAlone
<1> HIDE DEF o
<1>3. TableInv' /\ WorkerFits' /\ SlotsKept /\ PrivateKept
  <2>1. CASE life[o] = "listed"
    <3>1. SameCounts(CleanIncoming(channels[o]), o)
      BY <1>2, <2>1, ReadingKeeps, AlikeCounts DEF GroupInv, TableListed, IsChannel, Listed
    <3> QED
      BY <1>1, <1>2, <2>1, <3>1, CalledInPlace DEF Listed
  <2>2. CASE life[o] # "listed"
    BY <1>1, <2>2, TableStays, SlotsStay DEF GroupInv, TableInv, WorkerFits, PrivateKept
  <2> QED
    BY <2>1, <2>2
<1>4. UsersFit'
  BY <1>1, UserReturns DEF GroupInv
<1>5. HandlesFit' /\ ClosingAlone' /\ MailFits'
  BY <1>1, <1>2, <1>3, HandlesKept DEF GroupInv, ClosingAlone, MailFits, DescriptorsReachTheirOwn
<1> QED
  BY <1>3, <1>4, <1>5 DEF GroupInv, TableInv

-----------------------------------------------------------------------------
LEMMA GroupInit == GroupAssumption /\ Init => GroupInv
<1> SUFFICES ASSUME GroupAssumption, Init PROVE GroupInv
  OBVIOUS
<1>1. /\ channels = [o \in Channels |-> Gone] /\ life = [o \in Channels |-> "unused"] /\ holders = <<>>
      /\ user = [u \in Users |-> IdleUser] /\ worker = IdleWorker /\ closing = FALSE
      /\ handle = [u \in Users |-> [index |-> 0, seq |-> 0, ch |-> None]]
      /\ postedTo = [m \in Messages |-> None] /\ via = [m \in Messages |-> None]
  BY DEF Init
<1>2. Len(holders) = 0 /\ Slots = {} /\ holders \in Seq(Holders)
  BY <1>1 DEF Slots
<1>3. TableListed /\ OneChannelPerTarget
  BY <1>1, <1>2 DEF TableListed, OneChannelPerTarget, Listed
<1>4. WorkerFits /\ ReferencesCounted
  <2>1. /\ DOMAIN worker = {"pc", "pins", "poll", "todo"} /\ worker.pc = "idle"
        /\ worker.pins = {} /\ worker.poll = <<>> /\ worker.todo = <<>>
    BY <1>1 DEF IdleWorker
  <2>2. DOMAIN worker.poll = {} /\ DOMAIN worker.todo = {}
    BY <2>1
  <2> QED
    BY <1>1, <2>1, <2>2 DEF WorkerFits, ReferencesCounted, Listed
<1>5. UsersFit /\ ClosingAlone
  <2>1. DOMAIN IdleUser = {"pc", "ch", "target", "cut"} /\ IdleUser.pc = "idle"
    BY DEF IdleUser
  <2> QED
    BY <1>1, <2>1 DEF UsersFit, ClosingAlone
<1>6. HandlesFit
  BY <1>1, <1>2 DEF HandlesFit, HandleFits
<1>7. MailFits
  BY <1>1 DEF MailFits, DescriptorsReachTheirOwn
<1> QED
  BY <1>3, <1>4, <1>5, <1>6, <1>7 DEF GroupInv

LEMMA GroupStep ==
  ASSUME GroupAssumption, GroupInv, [Next]_vars
  PROVE  GroupInv'
<1>1. ASSUME NEW u \in Users, UserCall(u) PROVE GroupInv'
  <2>1. ASSUME NEW t \in Targets, OpenFind(u, t) PROVE GroupInv'
    BY <2>1, OpenFindInv
  <2>2. ASSUME NEW m \in Messages, NEW how \in Targets \cup {"descriptor"}, Post(u, m, how) PROVE GroupInv'
    BY <2>2, PostInv
  <2>3. ASSUME NEW how \in Targets \cup {"descriptor"}, CloseAtOnce(u, how) \/ CloseFails(u, how)
        PROVE  GroupInv'
    BY <2>3, CloseInv
  <2>4. ASSUME NEW how \in Targets \cup {"descriptor"}, NEW p \in ClosePriorities, ClosePosts(u, how, p)
        PROVE  GroupInv'
    BY <2>4, ClosePostsInv
  <2>5. ASSUME AddListener(u) \/ RemoveListener(u) PROVE GroupInv'
    BY <2>5, ListenerInv
  <2> QED
    BY <1>1, <2>1, <2>2, <2>3, <2>4, <2>5 DEF UserCall
<1>2. ASSUME NEW u \in Users, UserContinues(u) PROVE GroupInv'
  BY <1>2, AddChannelInv, ConnectFailsInv, CloseCleansInv DEF UserContinues
<1>3. ASSUME Serve PROVE GroupInv'
  <2>1. ASSUME NEW n, InputEnds \/ ReadPart(n) \/ ReadHeader(n) \/ ReadPayload(n) \/ ReadDatagram
        PROVE  GroupInv'
    BY <2>1, ReadInv
  <2>2. ASSUME NoInput \/ NoOutput PROVE GroupInv'
    BY <2>2, PassedOver
  <2>3. ASSUME Dispatched \/ PillReached \/ WriteFails \/ WritePart(1) \/ WriteRest \/ Consume
        PROVE  GroupInv'
    BY <2>3, WriteInv
  <2> QED
    BY <1>3, <2>1, <2>2, <2>3 DEF Serve
<1>4. ASSUME WorkerStep \/ (\E r \in Reports : Wake(r)) \/ TimedOut PROVE GroupInv'
  <2>1. ASSUME NEW o \in Channels, Accept(o) PROVE GroupInv'
    BY <2>1, AcceptInv
  <2>2. ASSUME Served \/ WorkDone \/ (\E r \in Reports : Wake(r)) \/ TimedOut PROVE GroupInv'
    BY <2>2, WorkerMoves
  <2> QED
    BY <1>3, <1>4, <2>1, <2>2, PinAllInv, UnpinInv DEF WorkerStep
<1>5. CASE UNCHANGED vars
  <2>1. UNCHANGED <<channels, life, holders, threadVars, worker, closing, postedTo, via>>
    BY <1>5 DEF vars, tableVars, workVars, envVars, historyVars
  <2>2. TableInv'
    BY <2>1, TableStays DEF GroupInv, TableInv
  <2>3. WorkerFits' /\ UsersFit' /\ ClosingAlone' /\ MailFits' /\ HandlesFit'
    BY <2>1 DEF GroupInv, WorkerFits, UsersFit, ClosingAlone, MailFits, DescriptorsReachTheirOwn,
      HandlesFit, HandleFits, Slots, threadVars
  <2> QED
    BY <2>2, <2>3 DEF GroupInv, TableInv
<1> QED
  BY <1>1, <1>2, <1>3, <1>4, <1>5, CleanInv DEF Next

LEMMA GroupAlways ==
  ASSUME GroupAssumption
  PROVE  Spec => []GroupInv
<1>1. Init => GroupInv
  BY GroupInit
<1>2. GroupInv /\ [Next]_vars => GroupInv'
  BY GroupStep
<1> QED
  BY <1>1, <1>2, PTL DEF Spec

(* The references of every channel are counted right, and what the worker has pinned
   is not freed under it, whatever the threads open, post and close, the peers send
   and fails (inc_ref, dec_ref, channel_dec_ref of channel_group.cpp).       *)
THEOREM ChannelReferences ==
  ASSUME GroupAssumption
  PROVE  Spec => []ReferencesCounted
<1>1. GroupInv => ReferencesCounted
  BY DEF GroupInv
<1> QED
  BY <1>1, GroupAlways, PTL

(* No target has two channels in the table, and a descriptor reaches the channel it
   was given for or none, however often its slot has been used since (open, post,
   and the sequence numbers of channel_holder).                              *)
THEOREM TableOfChannels ==
  ASSUME GroupAssumption
  PROVE  Spec => []TableRight
<1>1. GroupInv => TableRight
  BY DEF GroupInv, MailFits, TableRight
<1> QED
  BY <1>1, GroupAlways, PTL
=============================================================================
