--------------------------- MODULE BoardingProofs ---------------------------
(***************************************************************************)
(* Proofs about Boarding: travellers are in the queue or on the train that   *)
(* their ticket names, none is carried past its platform, and whoever boards  *)
(* a booked train is at most one run late or two early, for any travellers and trains.    *)
(***************************************************************************)
EXTENDS Boarding, FiniteSetTheorems, SequenceTheorems, TLAPS

-----------------------------------------------------------------------------
(* The inductive invariant.                                                  *)

\* q has every member of S, once, and nothing else.
Lists(q, S) ==
    /\ q \in Seq(S)
    /\ \A v \in S : \E i \in 1..Len(q) : q[i] = v
    /\ \A i, j \in 1..Len(q) : q[i] = q[j] => i = j

\* Who waits at platform p, who rides to it, who rides train t; w is where and k is ticket.
Waiters(w, k, p) == {v \in Travelers : w[v] = "waiting" /\ Head(k[v]).from = p}
Riders(w, k, p) == {v \in Travelers : w[v] = "riding" /\ Head(k[v]).to = p}
Aboard(w, k, t) == {v \in Travelers : w[v] = "riding" /\ Head(k[v]).train = t}

QueuesHold ==
    \A p \in Platforms :
        /\ Lists(Leaving_Queue[p], Waiters(where, ticket, p))
        /\ Lists(Arrival_Queue[p], Riders(where, ticket, p))

SeatsCounted ==
    \A t \in Trains : Occupied_Sits[t] = Cardinality(Aboard(where, ticket, t))

\* Nobody travels without a ticket.
Ticketed == \A v \in Travelers : where[v] # "buying" => ticket[v] # <<>>

AtPlatform(t) == place[t] # "track"

OneAtPlatform ==
    \A t, u \in Trains : AtPlatform(t) /\ AtPlatform(u) /\ PlatformOf(t) = PlatformOf(u) => t = u

\* A loop does not look at more travellers than its queue still holds.
TurnsLeft ==
    \A t \in Trains :
        /\ place[t] = "alighting" => turns[t] <= Len(Arrival_Queue[PlatformOf(t)])
        /\ place[t] = "boarding" => turns[t] <= Len(Leaving_Queue[PlatformOf(t)])

\* The travellers that alight from t are among those it has still to look at.
RidesTo(t, i) == Head(ticket[Arrival_Queue[PlatformOf(t)][i]]).train = t

LookedAt ==
    \A t \in Trains : AtPlatform(t) =>
        \A i \in 1..Len(Arrival_Queue[PlatformOf(t)]) :
            RidesTo(t, i) => place[t] = "alighting" /\ i <= turns[t]

BoardInv ==
    /\ TypeOK /\ QueuesHold /\ SeatsCounted /\ Ticketed
    /\ OneAtPlatform /\ TurnsLeft /\ LookedAt
-----------------------------------------------------------------------------
(* Queues.                                                                   *)

LEMMA ListsEmpty == Lists(<<>>, {})
BY DEF Lists

LEMMA ListsAppend ==
    ASSUME NEW q, NEW S, NEW v, Lists(q, S), v \notin S
    PROVE  Lists(Append(q, v), S \cup {v})
<1>1. q \in Seq(S) /\ q \in Seq(S \cup {v}) /\ Len(q) \in Nat
  BY LenProperties DEF Lists
<1>2. /\ Append(q, v) \in Seq(S \cup {v})
      /\ Len(Append(q, v)) = Len(q) + 1
      /\ \A i \in 1..Len(q) : Append(q, v)[i] = q[i]
      /\ Append(q, v)[Len(q) + 1] = v
  BY <1>1, AppendProperties
<1>3. \A i \in 1..Len(q) : q[i] \in S
  BY <1>1, ElementOfSeq
<1>4. ASSUME NEW u \in S \cup {v} PROVE \E i \in 1..Len(Append(q, v)) : Append(q, v)[i] = u
  <2>1. CASE u = v
    BY <1>1, <1>2, <2>1
  <2>2. CASE u # v
    <3>1. PICK i \in 1..Len(q) : q[i] = u
      BY <2>2 DEF Lists
    <3> QED
      BY <1>1, <1>2, <3>1
  <2> QED
    BY <2>1, <2>2
<1>5. ASSUME NEW i \in 1..Len(Append(q, v)), NEW j \in 1..Len(Append(q, v)),
             Append(q, v)[i] = Append(q, v)[j]
      PROVE  i = j
  BY SMTT(20), <1>1, <1>2, <1>3, <1>5 DEF Lists
<1> QED
  BY <1>2, <1>4, <1>5 DEF Lists

LEMMA ListsTail ==
    ASSUME NEW q, NEW S, Lists(q, S), q # <<>>
    PROVE  Head(q) \in S /\ Head(q) = q[1] /\ Lists(Tail(q), S \ {Head(q)})
<1>1. /\ q \in Seq(S) /\ Len(q) \in Nat \ {0} /\ Head(q) \in S
      /\ Head(q) = q[1]
      /\ Tail(q) \in Seq(S) /\ Len(Tail(q)) = Len(q) - 1
      /\ \A i \in 1..Len(Tail(q)) : Tail(q)[i] = q[i + 1]
  BY HeadTailProperties, LenProperties, EmptySeq DEF Lists
<1>2. \A i \in 1..Len(Tail(q)) : Tail(q)[i] \in S \ {Head(q)}
  BY <1>1, ElementOfSeq DEF Lists
<1>3. Tail(q) \in Seq(S \ {Head(q)})
  <2>1. Len(Tail(q)) \in Nat /\ Tail(q) \in [1..Len(Tail(q)) -> S]
    BY <1>1, LenProperties
  <2>2. Tail(q) \in [1..Len(Tail(q)) -> S \ {Head(q)}]
    BY <1>2, <2>1
  <2> QED
    BY <2>1, <2>2, SeqDef
<1>4. ASSUME NEW u \in S \ {Head(q)} PROVE \E i \in 1..Len(Tail(q)) : Tail(q)[i] = u
  <2>1. PICK i \in 1..Len(q) : q[i] = u
    BY DEF Lists
  <2>2. i # 1 /\ i - 1 \in 1..Len(Tail(q)) /\ Tail(q)[i - 1] = q[i]
    BY <1>1, <2>1
  <2> QED
    BY <2>1, <2>2
<1>5. ASSUME NEW i \in 1..Len(Tail(q)), NEW j \in 1..Len(Tail(q)), Tail(q)[i] = Tail(q)[j]
      PROVE  i = j
  BY <1>1, <1>5 DEF Lists
<1> QED
  BY <1>1, <1>3, <1>4, <1>5 DEF Lists

LEMMA ListsBack ==
    ASSUME NEW q, NEW S, Lists(q, S), q # <<>>
    PROVE  Lists(BackOfQueue(q), S)
<1> DEFINE v == Head(q)
           R == S \ {v}
<1>1. v \in S /\ Lists(Tail(q), R) /\ v \notin R /\ R \cup {v} = S
  BY ListsTail
<1> HIDE DEF v, R
<1>2. Lists(Append(Tail(q), v), R \cup {v})
  BY <1>1, ListsAppend
<1> QED
  BY <1>1, <1>2 DEF BackOfQueue, v

\* What stands where in a queue whose head went to its end.
LEMMA BackElements ==
    ASSUME NEW T, NEW q \in Seq(T), q # <<>>
    PROVE  /\ BackOfQueue(q) \in Seq(T) /\ Len(BackOfQueue(q)) = Len(q)
           /\ \A i \in 1..(Len(q) - 1) : BackOfQueue(q)[i] = q[i + 1]
           /\ BackOfQueue(q)[Len(q)] = q[1]
<1>1. /\ Len(q) \in Nat \ {0} /\ Head(q) \in T /\ Head(q) = q[1]
      /\ Tail(q) \in Seq(T) /\ Len(Tail(q)) = Len(q) - 1
      /\ \A i \in 1..Len(Tail(q)) : Tail(q)[i] = q[i + 1]
  BY HeadTailProperties, LenProperties, EmptySeq
<1>2. /\ Append(Tail(q), Head(q)) \in Seq(T)
      /\ Len(Append(Tail(q), Head(q))) = Len(Tail(q)) + 1
      /\ \A i \in 1..Len(Tail(q)) : Append(Tail(q), Head(q))[i] = Tail(q)[i]
      /\ Append(Tail(q), Head(q))[Len(Tail(q)) + 1] = Head(q)
  BY <1>1, AppendProperties
<1> QED
  BY <1>1, <1>2 DEF BackOfQueue

LEMMA ListsPositions ==
    ASSUME NEW q, NEW S, Lists(q, S), NEW v
    PROVE  Cardinality(Positions(q, v)) = IF v \in S THEN 1 ELSE 0
<1>1. DOMAIN q = 1..Len(q) /\ \A i \in 1..Len(q) : q[i] \in S
  BY LenProperties, ElementOfSeq DEF Lists
<1>2. CASE v \in S
  <2>1. PICK i \in 1..Len(q) : q[i] = v
    BY <1>2 DEF Lists
  <2>2. Positions(q, v) = {i}
    BY <1>1, <2>1 DEF Positions, Lists
  <2> QED
    BY <1>2, <2>2, FS_Singleton
<1>3. CASE v \notin S
  <2>1. Positions(q, v) = {}
    BY <1>1, <1>3 DEF Positions
  <2> QED
    BY <1>3, <2>1, FS_EmptySet
<1> QED
  BY <1>2, <1>3
-----------------------------------------------------------------------------
(* Who is at the head of a queue that a loop looks at.                       *)

LEMMA Places ==
    ASSUME TypeOK, NEW t \in Trains
    PROVE  /\ PlatformOf(t) \in Platforms /\ Next_Stage[t] \in 1..Len(Route[t])
           /\ Len(Route[t]) \in Nat /\ turns[t] \in Nat /\ Occupied_Sits[t] \in Nat
           /\ Leaving_Queue[PlatformOf(t)] \in Seq(Travelers)
           /\ Arrival_Queue[PlatformOf(t)] \in Seq(Travelers)
<1>1. Route[t] \in Seq(Platforms) /\ Next_Stage[t] \in 1..Len(Route[t])
  BY BoardingAssumption DEF TypeOK
<1>2. Route[t][Next_Stage[t]] \in Platforms /\ Len(Route[t]) \in Nat
  BY <1>1, ElementOfSeq, LenProperties
<1> QED
  BY <1>1, <1>2 DEF PlatformOf, TypeOK

LEMMA StageOf ==
    ASSUME TypeOK, Ticketed, NEW v \in Travelers, where[v] # "buying"
    PROVE  /\ ticket[v] \in Seq(Stages) /\ Len(ticket[v]) \in Nat \ {0} /\ ticket[v] # <<>>
           /\ Head(ticket[v]) \in Stages /\ Tail(ticket[v]) \in Seq(Stages)
           /\ Len(Tail(ticket[v])) = Len(ticket[v]) - 1
           /\ Head(ticket[v]).train \in Trains /\ Head(ticket[v]).run \in Nat
           /\ Head(ticket[v]).from \in Platforms /\ Head(ticket[v]).to \in Platforms
           /\ Head(ticket[v]).from # Head(ticket[v]).to
           /\ Head(ticket[v]).run > 0 => Head(ticket[v]).train \in FB
<1>1. ticket[v] \in Seq(Stages) /\ ticket[v] # <<>>
  BY DEF TypeOK, Ticketed
<1>2. /\ Len(ticket[v]) \in Nat \ {0} /\ Head(ticket[v]) \in Stages
      /\ Tail(ticket[v]) \in Seq(Stages) /\ Len(Tail(ticket[v])) = Len(ticket[v]) - 1
  BY <1>1, HeadTailProperties, LenProperties, EmptySeq
<1> QED
  BY <1>1, <1>2 DEF Stages

LEMMA Boarder ==
    ASSUME BoardInv, NEW t \in Trains, BoardingTurn(t)
    PROVE  LET q == Leaving_Queue[PlatformOf(t)]
               v == Head(q)
           IN /\ q # <<>> /\ v \in Travelers
              /\ v \in Waiters(where, ticket, PlatformOf(t))
              /\ where[v] = "waiting" /\ Head(ticket[v]).from = PlatformOf(t)
              /\ turns[t] - 1 \in Nat /\ turns[t] - 1 <= Len(Tail(q))
              /\ Tail(q) \in Seq(Travelers) /\ Len(q) \in Nat /\ Len(Tail(q)) = Len(q) - 1
<1> DEFINE q == Leaving_Queue[PlatformOf(t)]
<1>1. /\ PlatformOf(t) \in Platforms /\ turns[t] \in Nat /\ q \in Seq(Travelers)
      /\ Lists(q, Waiters(where, ticket, PlatformOf(t)))
      /\ turns[t] > 0 /\ turns[t] <= Len(q)
  BY Places DEF BoardInv, QueuesHold, TurnsLeft, BoardingTurn
<1>2. q # <<>> /\ Len(q) \in Nat
  BY <1>1, LenProperties, EmptySeq
<1>3. /\ Head(q) \in Waiters(where, ticket, PlatformOf(t))
  BY <1>1, <1>2, ListsTail
<1>4. Tail(q) \in Seq(Travelers) /\ Len(Tail(q)) = Len(q) - 1
  BY <1>1, <1>2, HeadTailProperties
<1> QED
  BY <1>1, <1>2, <1>3, <1>4 DEF Waiters

LEMMA Alighter ==
    ASSUME BoardInv, NEW t \in Trains, place[t] = "alighting", turns[t] > 0
    PROVE  LET q == Arrival_Queue[PlatformOf(t)]
               v == Head(q)
           IN /\ q # <<>> /\ v \in Travelers /\ v = q[1]
              /\ v \in Riders(where, ticket, PlatformOf(t))
              /\ where[v] = "riding" /\ Head(ticket[v]).to = PlatformOf(t)
              /\ turns[t] - 1 \in Nat /\ turns[t] - 1 <= Len(Tail(q))
              /\ Tail(q) \in Seq(Travelers) /\ Len(q) \in Nat \ {0} /\ Len(Tail(q)) = Len(q) - 1
              /\ \A i \in 1..Len(Tail(q)) : Tail(q)[i] = q[i + 1]
<1> DEFINE q == Arrival_Queue[PlatformOf(t)]
<1>1. /\ PlatformOf(t) \in Platforms /\ turns[t] \in Nat /\ q \in Seq(Travelers)
      /\ Lists(q, Riders(where, ticket, PlatformOf(t)))
      /\ turns[t] <= Len(q)
  BY Places DEF BoardInv, QueuesHold, TurnsLeft
<1>2. q # <<>> /\ Len(q) \in Nat \ {0}
  BY <1>1, LenProperties, EmptySeq
<1>3. /\ Head(q) \in Riders(where, ticket, PlatformOf(t)) /\ Head(q) = q[1]
  BY <1>1, <1>2, ListsTail
<1>4. /\ Tail(q) \in Seq(Travelers) /\ Len(Tail(q)) = Len(q) - 1
      /\ \A i \in 1..Len(Tail(q)) : Tail(q)[i] = q[i + 1]
  BY <1>1, <1>2, HeadTailProperties
<1> QED
  BY <1>1, <1>2, <1>3, <1>4 DEF Riders
-----------------------------------------------------------------------------
(* Types.                                                                    *)

LEMMA BuyType ==
    ASSUME TypeOK, NEW v \in Travelers, Buy(v)
    PROVE  /\ \E s \in Seq(Stages) \ {<<>>} : ticket' = [ticket EXCEPT ![v] = s]
           /\ ticket'[v] # <<>> /\ TypeOK'
<1>1. PICK o \in Offers :
        ticket' = [ticket EXCEPT ![v] = [i \in DOMAIN o |->
                [train |-> o[i].train, from |-> o[i].from, to |-> o[i].to,
                 run |-> IF o[i].train \in FB
                         THEN SelectedRun(o[i].train, o[i].from) ELSE 0]]]
  BY DEF Buy
<1> DEFINE S(i) == [train |-> o[i].train, from |-> o[i].from, to |-> o[i].to,
                    run |-> IF o[i].train \in FB
                            THEN SelectedRun(o[i].train, o[i].from) ELSE 0]
<1>2. /\ o \in Seq([train : Trains, from : Platforms, to : Platforms]) /\ o # <<>>
      /\ \A i \in DOMAIN o : o[i].from # o[i].to
  BY BoardingAssumption
<1>3. DOMAIN o = 1..Len(o) /\ Len(o) \in Nat \ {0}
  BY <1>2, LenProperties, EmptySeq
<1>4. ASSUME NEW i \in 1..Len(o) PROVE S(i) \in Stages
  <2>1. o[i] \in [train : Trains, from : Platforms, to : Platforms] /\ o[i].from # o[i].to
    BY <1>2, <1>3, ElementOfSeq
  <2>2. ASSUME o[i].train \in FB PROVE SelectedRun(o[i].train, o[i].from) \in Nat
    <3>1. Current_Run_Id[o[i].train] \in Nat
      BY <2>2 DEF TypeOK
    <3>2. SelectedRun(o[i].train, o[i].from)
            \in {Current_Run_Id[o[i].train], Current_Run_Id[o[i].train] + 1}
      BY DEF SelectedRun
    <3> QED
      BY <3>1, <3>2
  <2>3. (IF o[i].train \in FB THEN SelectedRun(o[i].train, o[i].from) ELSE 0) \in Nat
    BY <2>2
  <2> HIDE DEF SelectedRun
  <2> QED
    BY <2>1, <2>3 DEF Stages
<1> DEFINE s == [i \in 1..Len(o) |-> S(i)]
<1>5. s \in Seq(Stages) /\ s # <<>> /\ ticket' = [ticket EXCEPT ![v] = s]
  <2>1. s \in [1..Len(o) -> Stages]
    BY <1>4
  <2>2. s \in Seq(Stages)
    BY <2>1, <1>3, SeqDef
  <2>3. s # <<>>
    <3>1. DOMAIN s = 1..Len(o) /\ 1 \in 1..Len(o) /\ DOMAIN (<<>>) = {}
      BY <1>3
    <3> QED
      BY <3>1
  <2> QED
    BY <1>1, <1>3, <2>2, <2>3
<1> HIDE DEF s
<1>6. ticket \in [Travelers -> Seq(Stages)]
  BY DEF TypeOK
<1>7. ticket' \in [Travelers -> Seq(Stages)] /\ ticket'[v] = s
  BY <1>5, <1>6
<1> QED
  BY <1>5, <1>7 DEF Buy, TypeOK, trainVars, timeTableVars, queueVars, historyVars

LEMMA TypeStep == BoardInv /\ [Next]_vars => TypeOK'
<1> SUFFICES ASSUME BoardInv, [Next]_vars PROVE TypeOK'
  OBVIOUS
<1>0. TypeOK /\ Ticketed
  BY DEF BoardInv
<1>1. ASSUME NEW f \in FB, Tick(f) PROVE TypeOK'
  <2>1. due' \in [FB -> 0..MaxDue]
    <3>1. due \in [FB -> 0..MaxDue] /\ due' = [due EXCEPT ![f] = @ + 1] /\ due[f] < MaxDue
      BY <1>0, <1>1 DEF Tick, TypeOK
    <3>2. due[f] \in 0..MaxDue /\ MaxDue \in Nat
      BY <3>1, BoardingAssumption
    <3>3. due[f] + 1 \in 0..MaxDue
      BY <3>1, <3>2
    <3> QED
      BY <3>1, <3>3
  <2> QED
    BY <1>0, <1>1, <2>1 DEF Tick, TypeOK, trainVars, queueVars, travelerVars, historyVars
<1>2. ASSUME NEW v \in Travelers, Buy(v) PROVE TypeOK'
  BY <1>0, <1>2, BuyType
<1>3. ASSUME NEW v \in Travelers, Wait_For_Train_To_Go(v) PROVE TypeOK'
  <2>1. Head(ticket[v]).from \in Platforms
    BY <1>0, <1>3, StageOf DEF Wait_For_Train_To_Go
  <2>2. Leaving_Queue' \in [Platforms -> Seq(Travelers)]
    <3>1. Leaving_Queue \in [Platforms -> Seq(Travelers)]
      BY <1>0 DEF TypeOK
    <3>2. Append(Leaving_Queue[Head(ticket[v]).from], v) \in Seq(Travelers)
      BY <2>1, <3>1, AppendProperties
    <3> QED
      BY <1>3, <3>1, <3>2 DEF Wait_For_Train_To_Go
  <2>3. where' \in [Travelers -> {"buying", "leaving", "waiting", "riding"}]
    BY <1>0, <1>3 DEF Wait_For_Train_To_Go, TypeOK
  <2> QED
    BY <1>0, <1>3, <2>2, <2>3 DEF Wait_For_Train_To_Go, TypeOK, trainVars, timeTableVars, historyVars
<1>4. ASSUME NEW t \in Trains, Enter(t) PROVE TypeOK'
  <2>1. turns' \in [Trains -> Nat]
    <3>1. Len(Arrival_Queue[PlatformOf(t)]) \in Nat
      BY <1>0, Places, LenProperties
    <3> QED
      BY <1>0, <1>4, <3>1 DEF Enter, ToLookAt, TypeOK
  <2> QED
    BY <1>0, <1>4, <2>1 DEF Enter, TypeOK, TrainPlaces, timeTableVars, queueVars, travelerVars, historyVars
<1>5. ASSUME NEW t \in Trains, StaySeated(t) PROVE TypeOK'
  <2>1. turns[t] - 1 \in Nat /\ BackOfQueue(Arrival_Queue[PlatformOf(t)]) \in Seq(Travelers)
    BY <1>0, <1>5, Alighter, Places, BackElements DEF StaySeated
  <2>2. /\ turns' \in [Trains -> Nat] /\ Arrival_Queue' \in [Platforms -> Seq(Travelers)]
    BY <1>0, <1>5, <2>1 DEF StaySeated, TypeOK
  <2> QED
    BY <1>0, <1>5, <2>2 DEF StaySeated, TypeOK, timeTableVars, travelerVars, historyVars
<1>6. ASSUME NEW t \in Trains, Alight(t) PROVE TypeOK'
  <2> DEFINE q == Arrival_Queue[PlatformOf(t)]
             v == Head(q)
  <2>1. /\ turns[t] - 1 \in Nat /\ Tail(q) \in Seq(Travelers) /\ v \in Travelers
        /\ where[v] # "buying"
    BY <1>6, Alighter DEF Alight
  <2>2. /\ Tail(ticket[v]) \in Seq(Stages) /\ SeatsAfterAlighting(Occupied_Sits[t]) \in Nat
    BY <1>0, <2>1, StageOf, Places DEF SeatsAfterAlighting
  <2>3. /\ turns' \in [Trains -> Nat] /\ Arrival_Queue' \in [Platforms -> Seq(Travelers)]
        /\ Occupied_Sits' \in [Trains -> Nat]
    BY <1>0, <1>6, <2>1, <2>2 DEF Alight, TypeOK
  <2>4. /\ ticket' \in [Travelers -> Seq(Stages)]
        /\ where' \in [Travelers -> {"buying", "leaving", "waiting", "riding"}]
    BY <1>0, <1>6, <2>1, <2>2 DEF Alight, TypeOK
  <2>5. /\ journey' \in [Travelers -> Platforms \X Platforms]
        /\ start' \in [Travelers -> Platforms]
    <3>1. journey[v][1] \in Platforms /\ journey[v][2] \in Platforms
      BY <1>0, <2>1 DEF TypeOK
    <3> HIDE DEF v
    <3>2. CASE Len(ticket[v]) = 1
      <4>1. /\ journey' = [journey EXCEPT ![v] = <<@[2], @[1]>>]
            /\ start' = [start EXCEPT ![v] = journey[v][2]]
        BY <1>6, <3>2 DEF Alight, v
      <4>2. <<journey[v][2], journey[v][1]>> \in Platforms \X Platforms
        BY <3>1
      <4> QED
        BY <1>0, <2>1, <3>1, <4>1, <4>2 DEF TypeOK
    <3>3. CASE Len(ticket[v]) # 1
      BY <1>0, <1>6, <3>3 DEF Alight, v, TypeOK
    <3> QED
      BY <3>2, <3>3
  <2> QED
    BY <1>0, <1>6, <2>3, <2>4, <2>5 DEF Alight, TypeOK, timeTableVars, historyVars
<1>7. ASSUME NEW t \in Trains, Stop(t) PROVE TypeOK'
  BY <1>0, <1>7 DEF Stop, TypeOK, TrainPlaces, timeTableVars, queueVars, travelerVars, historyVars
<1>8. ASSUME NEW t \in FB, TimeComes(t) PROVE TypeOK'
  <2>1. place' \in [Trains -> TrainPlaces]
    BY <1>0, <1>8, BoardingAssumption DEF TimeComes, TypeOK, TrainPlaces
  <2>2. /\ Current_Run_Id' \in [FB -> Nat \ {0}]
        /\ Current_Run_Cursor' \in [FB -> Nat \ {0}]
        /\ \A f \in FB : Current_Run_Cursor'[f] <= Entries[f]
    <3>1. Entries[t] \in Nat \ {0} /\ Current_Run_Cursor[t] \in Nat \ {0} /\ Current_Run_Id[t] \in Nat \ {0}
      BY <1>0, BoardingAssumption DEF TypeOK
    <3>2. CASE RunEnds(t)
      <4>1. /\ Current_Run_Cursor' = [Current_Run_Cursor EXCEPT ![t] = 1]
            /\ Current_Run_Id' = [Current_Run_Id EXCEPT ![t] = @ + 1]
        BY <1>8, <3>2 DEF TimeComes, Update_Time_Table
      <4> QED
        BY SMTT(20), <1>0, <3>1, <4>1 DEF TypeOK
    <3>3. CASE ~RunEnds(t)
      <4>1. /\ Current_Run_Cursor' = [Current_Run_Cursor EXCEPT ![t] = @ + 1]
            /\ Current_Run_Id' = Current_Run_Id
        BY <1>8, <3>3 DEF TimeComes, Update_Time_Table
      <4>2. Current_Run_Cursor[t] + 1 <= Entries[t]
        BY <3>1, <3>3 DEF RunEnds
      <4> QED
        BY SMTT(20), <1>0, <3>1, <4>1, <4>2 DEF TypeOK
    <3> QED
      BY <3>2, <3>3
  <2> QED
    BY <1>0, <1>8, <2>1, <2>2 DEF TimeComes, TypeOK, queueVars, travelerVars, historyVars
<1>13. ASSUME NEW t \in Trains, BeginExit(t) PROVE TypeOK'
  <2>1. Len(Leaving_Queue[PlatformOf(t)]) \in Nat
    BY <1>0, Places, LenProperties
  <2> QED
    BY <1>0, <1>13, <2>1 DEF BeginExit, TypeOK, TrainPlaces, timeTableVars, queueVars, travelerVars,
                             historyVars
<1>9. ASSUME NEW t \in Trains, SendAway(t) PROVE TypeOK'
  <2>1. /\ turns[t] - 1 \in Nat /\ Tail(Leaving_Queue[PlatformOf(t)]) \in Seq(Travelers)
        /\ PlatformOf(t) \in Platforms
    BY <1>0, <1>9, Boarder, Places DEF SendAway
  <2>2. /\ turns' \in [Trains -> Nat] /\ Leaving_Queue' \in [Platforms -> Seq(Travelers)]
        /\ start' \in [Travelers -> Platforms]
        /\ where' \in [Travelers -> {"buying", "leaving", "waiting", "riding"}]
    BY <1>0, <1>9, <2>1 DEF SendAway, TypeOK
  <2> QED
    BY <1>0, <1>9, <2>2 DEF SendAway, TypeOK, timeTableVars, historyVars
<1>10. ASSUME NEW t \in Trains, KeepWaiting(t) PROVE TypeOK'
  <2>1. turns[t] - 1 \in Nat /\ BackOfQueue(Leaving_Queue[PlatformOf(t)]) \in Seq(Travelers)
    BY <1>0, <1>10, Boarder, Places, BackElements DEF KeepWaiting
  <2>2. /\ turns' \in [Trains -> Nat] /\ Leaving_Queue' \in [Platforms -> Seq(Travelers)]
    BY <1>0, <1>10, <2>1 DEF KeepWaiting, TypeOK
  <2> QED
    BY <1>0, <1>10, <2>2 DEF KeepWaiting, TypeOK, timeTableVars, travelerVars, historyVars
<1>11. ASSUME NEW t \in Trains, Board(t) PROVE TypeOK'
  <2> DEFINE q == Leaving_Queue[PlatformOf(t)]
             v == Head(q)
  <2>1. /\ turns[t] - 1 \in Nat /\ Tail(q) \in Seq(Travelers) /\ v \in Travelers
        /\ where[v] # "buying"
    BY <1>11, Boarder DEF Board
  <2>2. Head(ticket[v]).to \in Platforms
    BY <1>0, <2>1, StageOf
  <2> HIDE DEF q
  <2>3. /\ turns' \in [Trains -> Nat] /\ Leaving_Queue' \in [Platforms -> Seq(Travelers)]
        /\ Occupied_Sits' \in [Trains -> Nat]
        /\ where' \in [Travelers -> {"buying", "leaving", "waiting", "riding"}]
    <3>1. /\ turns' = [turns EXCEPT ![t] = @ - 1]
          /\ Leaving_Queue' = [Leaving_Queue EXCEPT ![PlatformOf(t)] = Tail(q)]
          /\ Occupied_Sits' = [Occupied_Sits EXCEPT ![t] = @ + 1]
          /\ where' = [where EXCEPT ![v] = "riding"]
      BY <1>11 DEF Board, q
    <3>2. Occupied_Sits[t] + 1 \in Nat
      BY <1>0, Places
    <3> QED
      BY <1>0, <2>1, <3>1, <3>2 DEF TypeOK
  <2>4. Arrival_Queue' \in [Platforms -> Seq(Travelers)]
    <3>1. Arrival_Queue' = [Arrival_Queue EXCEPT ![Head(ticket[v]).to] = Append(@, v)]
      BY <1>11 DEF Board, q
    <3>2. Append(Arrival_Queue[Head(ticket[v]).to], v) \in Seq(Travelers)
      <4>1. Arrival_Queue[Head(ticket[v]).to] \in Seq(Travelers)
        BY <1>0, <2>2 DEF TypeOK
      <4> QED
        BY <2>1, <4>1, AppendProperties
    <3> QED
      BY <1>0, <2>2, <3>1, <3>2 DEF TypeOK
  <2> QED
    BY <1>0, <1>11, <2>3, <2>4 DEF Board, TypeOK, timeTableVars, historyVars
<1>12. ASSUME NEW t \in Trains, Leave(t) PROVE TypeOK'
  <2>1. PlatformOf(t) \in Platforms /\ Next_Stage[t] \in 1..Len(Route[t]) /\ Len(Route[t]) \in Nat
    BY <1>0, Places
  <2>2. /\ Next_Stage' \in [Trains -> Nat]
        /\ \A u \in Trains : Next_Stage'[u] \in 1..Len(Route[u])
    BY SMTT(20), <1>0, <1>12, <2>1 DEF Leave, TypeOK
  <2>3. /\ Train_Run' \in [Platforms -> [FB -> Nat]]
        /\ left' \in [Platforms -> [FB -> Nat]]
        /\ round' \in [FB -> Nat \ {0}]
    <3>1. CASE t \in FB
      <4>1. \E b \in BOOLEAN :
              round' = [round EXCEPT ![t] = IF b THEN @ + 1 ELSE @]
        BY <1>12, <3>1 DEF Leave
      <4>2. /\ Train_Run' = [Train_Run EXCEPT ![PlatformOf(t)][t] = Current_Run_Id[t]]
            /\ left' = [left EXCEPT ![PlatformOf(t)][t] = round[t]]
        BY <1>12, <3>1 DEF Leave
      <4>3. Current_Run_Id[t] \in Nat /\ round[t] \in Nat \ {0} /\ round[t] + 1 \in Nat \ {0}
        BY <1>0, <3>1 DEF TypeOK
      <4> QED
        BY SMTT(20), <1>0, <2>1, <3>1, <4>1, <4>2, <4>3 DEF TypeOK
    <3>2. CASE t \notin FB
      BY <1>0, <1>12, <3>2 DEF Leave, TypeOK, historyVars
    <3> QED
      BY <3>1, <3>2
  <2> QED
    BY <1>0, <1>12, <2>2, <2>3 DEF Leave, TypeOK, TrainPlaces, timeTableVars, queueVars, travelerVars
<1>14. CASE UNCHANGED vars
  BY <1>0, <1>14 DEF TypeOK, vars, trainVars, timeTableVars, queueVars, travelerVars, historyVars
<1> QED
  BY <1>1, <1>2, <1>3, <1>4, <1>5, <1>6, <1>7, <1>8, <1>9, <1>10, <1>11, <1>12, <1>13, <1>14
     DEF Next, TrainNext
-----------------------------------------------------------------------------
(* Queues, when one traveller moves.                                         *)

LEMMA ListsJoined ==
    ASSUME NEW q, NEW S, NEW T, NEW v, Lists(q, S), v \notin S, v \in T, T \ {v} = S \ {v}
    PROVE  Lists(Append(q, v), T)
<1>1. T = S \cup {v}
  OBVIOUS
<1> QED
  BY <1>1, ListsAppend

LEMMA ListsLeft ==
    ASSUME NEW q, NEW S, NEW T, Lists(q, S), q # <<>>,
           Head(q) \notin T, T \ {Head(q)} = S \ {Head(q)}
    PROVE  Lists(Tail(q), T)
<1>1. T = S \ {Head(q)}
  OBVIOUS
<1> QED
  BY <1>1, ListsTail

\* Only v may have moved or changed its ticket.
Others(v, w, k, w1, k1) == \A u \in Travelers \ {v} : w1[u] = w[u] /\ k1[u] = k[u]

LEMMA OthersStay ==
    ASSUME NEW v \in Travelers, NEW w, NEW k, NEW w1, NEW k1, Others(v, w, k, w1, k1), NEW p
    PROVE  /\ Waiters(w1, k1, p) \ {v} = Waiters(w, k, p) \ {v}
           /\ Riders(w1, k1, p) \ {v} = Riders(w, k, p) \ {v}
           /\ Aboard(w1, k1, p) \ {v} = Aboard(w, k, p) \ {v}
BY DEF Others, Waiters, Riders, Aboard

LEMMA Members ==
    ASSUME NEW v \in Travelers, NEW w, NEW k, NEW p
    PROVE  /\ v \in Waiters(w, k, p) <=> w[v] = "waiting" /\ Head(k[v]).from = p
           /\ v \in Riders(w, k, p) <=> w[v] = "riding" /\ Head(k[v]).to = p
           /\ v \in Aboard(w, k, p) <=> w[v] = "riding" /\ Head(k[v]).train = p
BY DEF Waiters, Riders, Aboard

LEMMA AboardFinite ==
    ASSUME NEW w, NEW k, NEW t
    PROVE  IsFiniteSet(Aboard(w, k, t)) /\ Cardinality(Aboard(w, k, t)) \in Nat
<1>1. Aboard(w, k, t) \in SUBSET Travelers /\ IsFiniteSet(Travelers)
  BY BoardingAssumption DEF Aboard
<1> QED
  BY <1>1, FS_Subset, FS_CardinalityType

LEMMA SameSet ==
    ASSUME NEW S, NEW T, NEW v, T \ {v} = S \ {v}, v \in T <=> v \in S
    PROVE  T = S
OBVIOUS

Books == QueuesHold /\ SeatsCounted /\ Ticketed

LEMMA BooksUntouched ==
    ASSUME Books, UNCHANGED <<queueVars, where, ticket, Occupied_Sits>>
    PROVE  Books'
BY DEF Books, QueuesHold, SeatsCounted, Ticketed, queueVars

LEMMA BuyBooks ==
    ASSUME BoardInv, NEW v \in Travelers, Buy(v)
    PROVE  Books'
<1>1. /\ where[v] = "buying" /\ where' = [where EXCEPT ![v] = "leaving"]
      /\ where \in [Travelers -> {"buying", "leaving", "waiting", "riding"}]
      /\ ticket \in [Travelers -> Seq(Stages)]
      /\ UNCHANGED <<queueVars, Occupied_Sits>>
  BY DEF Buy, BoardInv, TypeOK
<1>2. ticket'[v] # <<>> /\ \A u \in Travelers \ {v} : ticket'[u] = ticket[u]
  BY <1>1, BuyType DEF BoardInv
<1>3. Others(v, where, ticket, where', ticket') /\ where'[v] = "leaving"
  BY <1>1, <1>2 DEF Others
<1>4. ASSUME NEW p
      PROVE  /\ Waiters(where', ticket', p) = Waiters(where, ticket, p)
             /\ Riders(where', ticket', p) = Riders(where, ticket, p)
             /\ Aboard(where', ticket', p) = Aboard(where, ticket, p)
  <2>1. /\ Waiters(where', ticket', p) \ {v} = Waiters(where, ticket, p) \ {v}
        /\ Riders(where', ticket', p) \ {v} = Riders(where, ticket, p) \ {v}
        /\ Aboard(where', ticket', p) \ {v} = Aboard(where, ticket, p) \ {v}
    BY <1>3, OthersStay
  <2>2. /\ v \notin Waiters(where, ticket, p) /\ v \notin Waiters(where', ticket', p)
        /\ v \notin Riders(where, ticket, p) /\ v \notin Riders(where', ticket', p)
        /\ v \notin Aboard(where, ticket, p) /\ v \notin Aboard(where', ticket', p)
    BY <1>1, <1>3 DEF Waiters, Riders, Aboard
  <2> QED
    BY <2>1, <2>2, SameSet
<1>5. QueuesHold' /\ SeatsCounted'
  BY <1>1, <1>4 DEF BoardInv, QueuesHold, SeatsCounted, queueVars
<1>6. Ticketed'
  BY <1>1, <1>2 DEF BoardInv, Ticketed
<1> QED
  BY <1>5, <1>6 DEF Books

LEMMA WaitBooks ==
    ASSUME BoardInv, NEW v \in Travelers, Wait_For_Train_To_Go(v)
    PROVE  Books'
<1> DEFINE p0 == Head(ticket[v]).from
<1>1. /\ where[v] = "leaving" /\ where' = [where EXCEPT ![v] = "waiting"]
      /\ where \in [Travelers -> {"buying", "leaving", "waiting", "riding"}]
      /\ UNCHANGED <<Arrival_Queue, Occupied_Sits, ticket>>
      /\ Leaving_Queue \in [Platforms -> Seq(Travelers)]
      /\ Leaving_Queue' = [Leaving_Queue EXCEPT ![p0] = Append(@, v)]
  BY DEF Wait_For_Train_To_Go, BoardInv, TypeOK
<1>2. p0 \in Platforms
  BY <1>1, StageOf DEF BoardInv
<1>3. Others(v, where, ticket, where', ticket') /\ where'[v] = "waiting"
  BY <1>1 DEF Others
<1>4. ASSUME NEW p
      PROVE  /\ Waiters(where', ticket', p) \ {v} = Waiters(where, ticket, p) \ {v}
             /\ v \notin Waiters(where, ticket, p)
             /\ v \in Waiters(where', ticket', p) <=> p = p0
             /\ Riders(where', ticket', p) = Riders(where, ticket, p)
             /\ Aboard(where', ticket', p) = Aboard(where, ticket, p)
  <2>1. /\ Waiters(where', ticket', p) \ {v} = Waiters(where, ticket, p) \ {v}
        /\ Riders(where', ticket', p) \ {v} = Riders(where, ticket, p) \ {v}
        /\ Aboard(where', ticket', p) \ {v} = Aboard(where, ticket, p) \ {v}
    BY <1>3, OthersStay
  <2>2. /\ v \notin Waiters(where, ticket, p)
        /\ v \in Waiters(where', ticket', p) <=> p = p0
        /\ v \notin Riders(where, ticket, p) /\ v \notin Riders(where', ticket', p)
        /\ v \notin Aboard(where, ticket, p) /\ v \notin Aboard(where', ticket', p)
    BY <1>1, <1>3 DEF Waiters, Riders, Aboard
  <2> QED
    BY <2>1, <2>2, SameSet
<1> HIDE DEF p0
<1>5. ASSUME NEW p \in Platforms
      PROVE  /\ Lists(Leaving_Queue'[p], Waiters(where', ticket', p))
             /\ Lists(Arrival_Queue'[p], Riders(where', ticket', p))
  <2>1. /\ Lists(Leaving_Queue[p], Waiters(where, ticket, p))
        /\ Lists(Arrival_Queue[p], Riders(where, ticket, p))
    BY DEF BoardInv, QueuesHold
  <2>2. CASE p = p0
    <3>1. Leaving_Queue'[p] = Append(Leaving_Queue[p], v)
      BY <1>1, <2>2
    <3>2. Lists(Append(Leaving_Queue[p], v), Waiters(where', ticket', p))
      BY <1>4, <2>1, <2>2, ListsJoined
    <3> QED
      BY <1>1, <1>4, <2>1, <3>1, <3>2
  <2>3. CASE p # p0
    <3>1. Waiters(where', ticket', p) = Waiters(where, ticket, p)
      BY <1>4, <2>3, SameSet
    <3> QED
      BY <1>1, <1>4, <2>1, <2>3, <3>1
  <2> QED
    BY <2>2, <2>3
<1>6. SeatsCounted' /\ Ticketed'
  <2>1. SeatsCounted'
    BY <1>1, <1>4 DEF BoardInv, SeatsCounted
  <2>2. Ticketed'
    BY <1>1 DEF BoardInv, Ticketed
  <2> QED
    BY <2>1, <2>2
<1> QED
  BY <1>5, <1>6 DEF Books, QueuesHold

LEMMA StaySeatedBooks ==
    ASSUME BoardInv, NEW t \in Trains, StaySeated(t)
    PROVE  Books'
<1> DEFINE p0 == PlatformOf(t)
<1>1. /\ UNCHANGED <<where, ticket, Occupied_Sits, Leaving_Queue>>
      /\ Arrival_Queue' = [Arrival_Queue EXCEPT ![p0] = BackOfQueue(@)]
      /\ Arrival_Queue \in [Platforms -> Seq(Travelers)]
      /\ Arrival_Queue[p0] # <<>> /\ p0 \in Platforms
  BY Alighter, Places DEF StaySeated, BoardInv, TypeOK, travelerVars
<1> HIDE DEF p0
<1>2. ASSUME NEW p \in Platforms
      PROVE  Lists(Arrival_Queue'[p], Riders(where, ticket, p))
  <2>1. Lists(Arrival_Queue[p], Riders(where, ticket, p))
    BY DEF BoardInv, QueuesHold
  <2>2. CASE p = p0
    BY <1>1, <2>1, <2>2, ListsBack
  <2>3. CASE p # p0
    BY <1>1, <2>1, <2>3
  <2> QED
    BY <2>2, <2>3
<1> QED
  BY <1>1, <1>2 DEF Books, BoardInv, QueuesHold, SeatsCounted, Ticketed

LEMMA KeepWaitingBooks ==
    ASSUME BoardInv, NEW t \in Trains, KeepWaiting(t)
    PROVE  Books'
<1> DEFINE p0 == PlatformOf(t)
<1>1. /\ UNCHANGED <<where, ticket, Occupied_Sits, Arrival_Queue>>
      /\ Leaving_Queue' = [Leaving_Queue EXCEPT ![p0] = BackOfQueue(@)]
      /\ Leaving_Queue \in [Platforms -> Seq(Travelers)]
      /\ Leaving_Queue[p0] # <<>> /\ p0 \in Platforms
  BY Boarder, Places DEF KeepWaiting, BoardInv, TypeOK, travelerVars
<1> HIDE DEF p0
<1>2. ASSUME NEW p \in Platforms
      PROVE  Lists(Leaving_Queue'[p], Waiters(where, ticket, p))
  <2>1. Lists(Leaving_Queue[p], Waiters(where, ticket, p))
    BY DEF BoardInv, QueuesHold
  <2>2. CASE p = p0
    BY <1>1, <2>1, <2>2, ListsBack
  <2>3. CASE p # p0
    BY <1>1, <2>1, <2>3
  <2> QED
    BY <2>2, <2>3
<1> QED
  BY <1>1, <1>2 DEF Books, BoardInv, QueuesHold, SeatsCounted, Ticketed

LEMMA SendAwayBooks ==
    ASSUME BoardInv, NEW t \in Trains, SendAway(t)
    PROVE  Books'
<1> DEFINE p0 == PlatformOf(t)
           v == Head(Leaving_Queue[p0])
<1>1. /\ where' = [where EXCEPT ![v] = "buying"]
      /\ where \in [Travelers -> {"buying", "leaving", "waiting", "riding"}]
      /\ UNCHANGED <<Arrival_Queue, Occupied_Sits, ticket>>
      /\ Leaving_Queue \in [Platforms -> Seq(Travelers)]
      /\ Leaving_Queue' = [Leaving_Queue EXCEPT ![p0] = Tail(@)]
  BY DEF SendAway, BoardInv, TypeOK
<1>2. /\ Leaving_Queue[p0] # <<>> /\ v \in Travelers /\ p0 \in Platforms
      /\ where[v] = "waiting" /\ Head(ticket[v]).from = p0
  BY Boarder, Places DEF SendAway, BoardInv
<1>3. v = Head(Leaving_Queue[p0])
  OBVIOUS
<1> HIDE DEF v, p0
<1>4. Others(v, where, ticket, where', ticket') /\ where'[v] = "buying"
  BY <1>1, <1>2 DEF Others
<1>5. ASSUME NEW p
      PROVE  /\ Waiters(where', ticket', p) \ {v} = Waiters(where, ticket, p) \ {v}
             /\ v \notin Waiters(where', ticket', p)
             /\ v \in Waiters(where, ticket, p) <=> p = p0
             /\ Riders(where', ticket', p) = Riders(where, ticket, p)
             /\ Aboard(where', ticket', p) = Aboard(where, ticket, p)
  <2>1. /\ Waiters(where', ticket', p) \ {v} = Waiters(where, ticket, p) \ {v}
        /\ Riders(where', ticket', p) \ {v} = Riders(where, ticket, p) \ {v}
        /\ Aboard(where', ticket', p) \ {v} = Aboard(where, ticket, p) \ {v}
    BY <1>2, <1>4, OthersStay
  <2>2. /\ v \notin Waiters(where', ticket', p)
        /\ v \in Waiters(where, ticket, p) <=> p = p0
        /\ v \notin Riders(where, ticket, p) /\ v \notin Riders(where', ticket', p)
        /\ v \notin Aboard(where, ticket, p) /\ v \notin Aboard(where', ticket', p)
    BY <1>1, <1>2, <1>4 DEF Waiters, Riders, Aboard
  <2> QED
    BY <2>1, <2>2, SameSet
<1>6. ASSUME NEW p \in Platforms
      PROVE  /\ Lists(Leaving_Queue'[p], Waiters(where', ticket', p))
             /\ Lists(Arrival_Queue'[p], Riders(where', ticket', p))
  <2>1. /\ Lists(Leaving_Queue[p], Waiters(where, ticket, p))
        /\ Lists(Arrival_Queue[p], Riders(where, ticket, p))
    BY DEF BoardInv, QueuesHold
  <2>2. CASE p = p0
    <3>1. Leaving_Queue'[p] = Tail(Leaving_Queue[p])
      BY <1>1, <2>2
    <3>2. Lists(Tail(Leaving_Queue[p]), Waiters(where', ticket', p))
      BY <1>2, <1>3, <1>5, <2>1, <2>2, ListsLeft
    <3> QED
      BY <1>1, <1>5, <2>1, <3>1, <3>2
  <2>3. CASE p # p0
    <3>1. Waiters(where', ticket', p) = Waiters(where, ticket, p)
      BY <1>5, <2>3, SameSet
    <3> QED
      BY <1>1, <1>5, <2>1, <2>3, <3>1
  <2> QED
    BY <2>2, <2>3
<1>7. SeatsCounted'
  BY <1>1, <1>5 DEF BoardInv, SeatsCounted
<1>8. Ticketed'
  BY <1>1, <1>2 DEF BoardInv, Ticketed
<1> QED
  BY <1>6, <1>7, <1>8 DEF Books, QueuesHold

LEMMA BoardBooks ==
    ASSUME BoardInv, NEW t \in Trains, Board(t)
    PROVE  Books'
<1> DEFINE p0 == PlatformOf(t)
           v == Head(Leaving_Queue[p0])
           p1 == Head(ticket[v]).to
<1>1. /\ where' = [where EXCEPT ![v] = "riding"]
      /\ where \in [Travelers -> {"buying", "leaving", "waiting", "riding"}]
      /\ ticket' = ticket
      /\ Occupied_Sits \in [Trains -> Nat] /\ Head(ticket[v]).train = t
      /\ Occupied_Sits' = [Occupied_Sits EXCEPT ![t] = @ + 1]
      /\ Leaving_Queue \in [Platforms -> Seq(Travelers)]
      /\ Leaving_Queue' = [Leaving_Queue EXCEPT ![p0] = Tail(@)]
      /\ Arrival_Queue \in [Platforms -> Seq(Travelers)]
      /\ Arrival_Queue' = [Arrival_Queue EXCEPT ![p1] = Append(@, v)]
  BY DEF Board, BoardInv, TypeOK
<1>2. /\ Leaving_Queue[p0] # <<>> /\ v \in Travelers /\ p0 \in Platforms
      /\ where[v] = "waiting" /\ Head(ticket[v]).from = p0
  BY Boarder, Places DEF Board, BoardInv
<1>3. v = Head(Leaving_Queue[p0]) /\ Head(ticket[v]).to = p1
  OBVIOUS
<1>4. p1 \in Platforms /\ p1 # p0
  BY <1>2, StageOf DEF BoardInv
<1> HIDE DEF v, p0, p1
<1>5. Others(v, where, ticket, where', ticket') /\ where'[v] = "riding"
  BY <1>1, <1>2 DEF Others
<1>6. ASSUME NEW p
      PROVE  /\ Waiters(where', ticket', p) \ {v} = Waiters(where, ticket, p) \ {v}
             /\ v \notin Waiters(where', ticket', p)
             /\ v \in Waiters(where, ticket, p) <=> p = p0
             /\ Riders(where', ticket', p) \ {v} = Riders(where, ticket, p) \ {v}
             /\ v \notin Riders(where, ticket, p)
             /\ v \in Riders(where', ticket', p) <=> p = p1
             /\ Aboard(where', ticket', p) \ {v} = Aboard(where, ticket, p) \ {v}
             /\ v \notin Aboard(where, ticket, p)
             /\ v \in Aboard(where', ticket', p) <=> p = t
  <2>1. /\ Waiters(where', ticket', p) \ {v} = Waiters(where, ticket, p) \ {v}
        /\ Riders(where', ticket', p) \ {v} = Riders(where, ticket, p) \ {v}
        /\ Aboard(where', ticket', p) \ {v} = Aboard(where, ticket, p) \ {v}
    BY <1>2, <1>5, OthersStay
  <2>2. /\ v \notin Waiters(where', ticket', p)
        /\ v \in Waiters(where, ticket, p) <=> p = p0
    BY <1>1, <1>2, <1>5 DEF Waiters
  <2>3. /\ v \notin Riders(where, ticket, p)
        /\ v \in Riders(where', ticket', p) <=> p = p1
    BY <1>1, <1>2, <1>3, <1>5 DEF Riders
  <2>4. /\ v \notin Aboard(where, ticket, p)
        /\ v \in Aboard(where', ticket', p) <=> p = t
    BY <1>1, <1>2, <1>5 DEF Aboard
  <2> QED
    BY <2>1, <2>2, <2>3, <2>4
<1>7. ASSUME NEW p \in Platforms
      PROVE  Lists(Leaving_Queue'[p], Waiters(where', ticket', p))
  <2>1. Lists(Leaving_Queue[p], Waiters(where, ticket, p))
    BY DEF BoardInv, QueuesHold
  <2>2. CASE p = p0
    <3>1. Leaving_Queue'[p] = Tail(Leaving_Queue[p])
      BY <1>1, <2>2
    <3>2. Lists(Tail(Leaving_Queue[p]), Waiters(where', ticket', p))
      BY <1>2, <1>3, <1>6, <2>1, <2>2, ListsLeft
    <3> QED
      BY <3>1, <3>2
  <2>3. CASE p # p0
    <3>1. Waiters(where', ticket', p) = Waiters(where, ticket, p)
      BY <1>6, <2>3, SameSet
    <3> QED
      BY <1>1, <2>1, <2>3, <3>1
  <2> QED
    BY <2>2, <2>3
<1>8. ASSUME NEW p \in Platforms
      PROVE  Lists(Arrival_Queue'[p], Riders(where', ticket', p))
  <2>1. Lists(Arrival_Queue[p], Riders(where, ticket, p))
    BY DEF BoardInv, QueuesHold
  <2>2. CASE p = p1
    <3>1. Arrival_Queue'[p] = Append(Arrival_Queue[p], v)
      BY <1>1, <2>2
    <3>2. Lists(Append(Arrival_Queue[p], v), Riders(where', ticket', p))
      BY <1>6, <2>1, <2>2, ListsJoined
    <3> QED
      BY <3>1, <3>2
  <2>3. CASE p # p1
    <3>1. Riders(where', ticket', p) = Riders(where, ticket, p)
      BY <1>6, <2>3, SameSet
    <3> QED
      BY <1>1, <2>1, <2>3, <3>1
  <2> QED
    BY <2>2, <2>3
<1>9. ASSUME NEW u \in Trains
      PROVE  Occupied_Sits'[u] = Cardinality(Aboard(where', ticket', u))
  <2>1. Occupied_Sits[u] = Cardinality(Aboard(where, ticket, u))
    BY DEF BoardInv, SeatsCounted
  <2>2. CASE u = t
    <3>1. Aboard(where', ticket', u) = Aboard(where, ticket, u) \cup {v}
      BY <1>6, <2>2
    <3>2. Cardinality(Aboard(where, ticket, u) \cup {v}) = Cardinality(Aboard(where, ticket, u)) + 1
      BY <1>6, AboardFinite, FS_AddElement
    <3> QED
      BY <1>1, <2>1, <2>2, <3>1, <3>2
  <2>3. CASE u # t
    <3>1. Aboard(where', ticket', u) = Aboard(where, ticket, u)
      BY <1>6, <2>3, SameSet
    <3> QED
      BY <1>1, <2>1, <2>3, <3>1
  <2> QED
    BY <2>2, <2>3
<1>10. Ticketed'
  BY <1>1, <1>2 DEF BoardInv, Ticketed
<1> QED
  BY <1>7, <1>8, <1>9, <1>10 DEF Books, QueuesHold, SeatsCounted

LEMMA AlightBooks ==
    ASSUME BoardInv, NEW t \in Trains, Alight(t)
    PROVE  Books'
<1> DEFINE p0 == PlatformOf(t)
           v == Head(Arrival_Queue[p0])
           x == IF Len(ticket[v]) = 1 THEN "buying" ELSE "leaving"
<1>1. /\ where' = [where EXCEPT ![v] = x]
      /\ where \in [Travelers -> {"buying", "leaving", "waiting", "riding"}]
      /\ ticket' = [ticket EXCEPT ![v] = Tail(@)]
      /\ ticket \in [Travelers -> Seq(Stages)]
      /\ Occupied_Sits \in [Trains -> Nat] /\ Head(ticket[v]).train = t
      /\ Occupied_Sits' = [Occupied_Sits EXCEPT ![t] = SeatsAfterAlighting(@)]
      /\ Arrival_Queue \in [Platforms -> Seq(Travelers)]
      /\ Arrival_Queue' = [Arrival_Queue EXCEPT ![p0] = Tail(@)]
      /\ Leaving_Queue' = Leaving_Queue
  BY DEF Alight, BoardInv, TypeOK
<1>2. /\ Arrival_Queue[p0] # <<>> /\ v \in Travelers /\ p0 \in Platforms
      /\ where[v] = "riding" /\ Head(ticket[v]).to = p0
  BY Alighter, Places DEF Alight, BoardInv
<1>3. v = Head(Arrival_Queue[p0])
  OBVIOUS
<1>4. /\ Len(ticket[v]) \in Nat \ {0} /\ Tail(ticket[v]) \in Seq(Stages)
      /\ Len(Tail(ticket[v])) = Len(ticket[v]) - 1
  BY <1>2, StageOf DEF BoardInv
<1>5. x \in {"buying", "leaving"} /\ (x = "leaving" => Tail(ticket[v]) # <<>>)
  <2>1. CASE Len(ticket[v]) = 1
    BY <2>1
  <2>2. CASE Len(ticket[v]) # 1
    <3>1. Len(Tail(ticket[v])) # 0
      BY <1>4, <2>2
    <3> QED
      BY <1>4, <3>1, EmptySeq
  <2> QED
    BY <2>1, <2>2
<1> HIDE DEF v, p0, x
<1>6. /\ Others(v, where, ticket, where', ticket') /\ where'[v] = x
      /\ ticket'[v] = Tail(ticket[v])
  BY <1>1, <1>2 DEF Others
<1>7. ASSUME NEW p
      PROVE  /\ Waiters(where', ticket', p) = Waiters(where, ticket, p)
             /\ Riders(where', ticket', p) \ {v} = Riders(where, ticket, p) \ {v}
             /\ v \notin Riders(where', ticket', p)
             /\ v \in Riders(where, ticket, p) <=> p = p0
             /\ Aboard(where', ticket', p) \ {v} = Aboard(where, ticket, p) \ {v}
             /\ v \notin Aboard(where', ticket', p)
             /\ v \in Aboard(where, ticket, p) <=> p = t
  <2>1. /\ Waiters(where', ticket', p) \ {v} = Waiters(where, ticket, p) \ {v}
        /\ Riders(where', ticket', p) \ {v} = Riders(where, ticket, p) \ {v}
        /\ Aboard(where', ticket', p) \ {v} = Aboard(where, ticket, p) \ {v}
    BY <1>2, <1>6, OthersStay
  <2>2. v \notin Waiters(where', ticket', p) /\ v \notin Waiters(where, ticket, p)
    BY <1>2, <1>5, <1>6 DEF Waiters
  <2>3. /\ v \notin Riders(where', ticket', p)
        /\ v \in Riders(where, ticket, p) <=> p = p0
    BY <1>2, <1>5, <1>6 DEF Riders
  <2>4. /\ v \notin Aboard(where', ticket', p)
        /\ v \in Aboard(where, ticket, p) <=> p = t
    BY <1>1, <1>2, <1>5, <1>6 DEF Aboard
  <2> QED
    BY <2>1, <2>2, <2>3, <2>4, SameSet
<1>8. ASSUME NEW p \in Platforms
      PROVE  Lists(Leaving_Queue'[p], Waiters(where', ticket', p))
  BY <1>1, <1>7 DEF BoardInv, QueuesHold
<1>9. ASSUME NEW p \in Platforms
      PROVE  Lists(Arrival_Queue'[p], Riders(where', ticket', p))
  <2>1. Lists(Arrival_Queue[p], Riders(where, ticket, p))
    BY DEF BoardInv, QueuesHold
  <2>2. CASE p = p0
    <3>1. Arrival_Queue'[p] = Tail(Arrival_Queue[p])
      BY <1>1, <2>2
    <3>2. Lists(Tail(Arrival_Queue[p]), Riders(where', ticket', p))
      BY <1>2, <1>3, <1>7, <2>1, <2>2, ListsLeft
    <3> QED
      BY <3>1, <3>2
  <2>3. CASE p # p0
    <3>1. Riders(where', ticket', p) = Riders(where, ticket, p)
      BY <1>7, <2>3, SameSet
    <3> QED
      BY <1>1, <2>1, <2>3, <3>1
  <2> QED
    BY <2>2, <2>3
<1>10. ASSUME NEW u \in Trains
       PROVE  Occupied_Sits'[u] = Cardinality(Aboard(where', ticket', u))
  <2>1. /\ Occupied_Sits[u] = Cardinality(Aboard(where, ticket, u)) /\ Occupied_Sits[u] \in Nat
    BY <1>1 DEF BoardInv, SeatsCounted
  <2>2. CASE u = t
    <3>1. Aboard(where', ticket', u) = Aboard(where, ticket, u) \ {v} /\ v \in Aboard(where, ticket, u)
      BY <1>7, <2>2
    <3>2. /\ Cardinality(Aboard(where, ticket, u) \ {v}) = Cardinality(Aboard(where, ticket, u)) - 1
      BY <3>1, AboardFinite, FS_RemoveElement
    <3>3. Cardinality(Aboard(where, ticket, u)) # 0
      BY <3>1, AboardFinite, FS_EmptySet
    <3>4. Occupied_Sits'[u] = SeatsAfterAlighting(Occupied_Sits[u])
      BY <1>1, <2>2
    <3> QED
      BY <2>1, <3>1, <3>2, <3>3, <3>4 DEF SeatsAfterAlighting
  <2>3. CASE u # t
    <3>1. Aboard(where', ticket', u) = Aboard(where, ticket, u)
      BY <1>7, <2>3, SameSet
    <3> QED
      BY <1>1, <2>1, <2>3, <3>1
  <2> QED
    BY <2>2, <2>3
<1>11. Ticketed'
  <2>1. ASSUME NEW u \in Travelers, where'[u] # "buying" PROVE ticket'[u] # <<>>
    <3>1. CASE u = v
      BY <1>5, <1>6, <2>1, <3>1
    <3>2. CASE u # v
      BY <1>6, <2>1, <3>2 DEF Others, BoardInv, Ticketed
    <3> QED
      BY <3>1, <3>2
  <2> QED
    BY <2>1 DEF Ticketed
<1> QED
  BY <1>8, <1>9, <1>10, <1>11 DEF Books, QueuesHold, SeatsCounted
-----------------------------------------------------------------------------
(* Trains at platforms.                                                      *)

TrainsHold == OneAtPlatform /\ TurnsLeft /\ LookedAt

\* Who is in an arrival queue rides to its platform.
LEMMA QueuedRide ==
    ASSUME BoardInv, NEW p \in Platforms, NEW i \in 1..Len(Arrival_Queue[p])
    PROVE  /\ Arrival_Queue[p][i] \in Travelers /\ where[Arrival_Queue[p][i]] = "riding"
           /\ Head(ticket[Arrival_Queue[p][i]]).to = p
<1>1. Lists(Arrival_Queue[p], Riders(where, ticket, p))
  BY DEF BoardInv, QueuesHold
<1>2. Arrival_Queue[p][i] \in Riders(where, ticket, p)
  BY <1>1, ElementOfSeq DEF Lists
<1> QED
  BY <1>2 DEF Riders

\* Steps that leave the trains and what they look at alone.
LEMMA TrainsUntouched ==
    ASSUME TypeOK, TrainsHold, UNCHANGED <<place, Next_Stage, turns, Arrival_Queue>>,
           \A p \in Platforms : Len(Leaving_Queue'[p]) >= Len(Leaving_Queue[p]),
           \A p \in Platforms : \A i \in 1..Len(Arrival_Queue[p]) :
               ticket'[Arrival_Queue[p][i]] = ticket[Arrival_Queue[p][i]]
    PROVE  TrainsHold'
<1>1. \A t \in Trains : PlatformOf(t)' = PlatformOf(t) /\ PlatformOf(t) \in Platforms
  BY Places DEF PlatformOf
<1>2. OneAtPlatform'
  BY <1>1 DEF TrainsHold, OneAtPlatform, AtPlatform
<1>3. ASSUME NEW t \in Trains
      PROVE  /\ place[t] = "alighting" => turns[t] <= Len(Arrival_Queue[PlatformOf(t)])
             /\ place[t] = "boarding" => turns[t] <= Len(Leaving_Queue'[PlatformOf(t)])
  <2>1. /\ turns[t] \in Nat /\ PlatformOf(t) \in Platforms
        /\ Len(Leaving_Queue'[PlatformOf(t)]) >= Len(Leaving_Queue[PlatformOf(t)])
    BY Places
  <2>2. Len(Leaving_Queue[PlatformOf(t)]) \in Nat
    BY Places, LenProperties
  <2> QED
    BY <2>1, <2>2 DEF TrainsHold, TurnsLeft
<1> QED
  <2>1. TurnsLeft'
    BY <1>1, <1>3 DEF TurnsLeft
  <2>2. LookedAt'
    BY <1>1 DEF TrainsHold, LookedAt, RidesTo, AtPlatform
  <2> QED
    BY <1>2, <2>1, <2>2 DEF TrainsHold

LEMMA WaitBuyTrains ==
    ASSUME BoardInv, NEW v \in Travelers, Buy(v) \/ Wait_For_Train_To_Go(v)
    PROVE  TrainsHold'
<1>1. UNCHANGED <<place, Next_Stage, turns, Arrival_Queue>>
  BY DEF Buy, Wait_For_Train_To_Go, trainVars, queueVars
<1>2. ASSUME NEW p \in Platforms PROVE Len(Leaving_Queue'[p]) >= Len(Leaving_Queue[p])
  <2>1. Leaving_Queue[p] \in Seq(Travelers) /\ Len(Leaving_Queue[p]) \in Nat
    BY LenProperties DEF BoardInv, TypeOK
  <2>2. CASE Buy(v)
    BY <2>1, <2>2 DEF Buy, queueVars
  <2>3. CASE Wait_For_Train_To_Go(v)
    <3>1. Len(Append(Leaving_Queue[p], v)) = Len(Leaving_Queue[p]) + 1
      BY <2>1, AppendProperties
    <3>2. \/ Leaving_Queue'[p] = Leaving_Queue[p]
          \/ Leaving_Queue'[p] = Append(Leaving_Queue[p], v)
      BY <2>3 DEF Wait_For_Train_To_Go, BoardInv, TypeOK
    <3> QED
      BY <2>1, <3>1, <3>2
  <2> QED
    BY <2>2, <2>3
<1>3. ASSUME NEW p \in Platforms, NEW i \in 1..Len(Arrival_Queue[p])
      PROVE  ticket'[Arrival_Queue[p][i]] = ticket[Arrival_Queue[p][i]]
  <2>1. CASE Buy(v)
    <3>1. where[v] = "buying"
      BY <2>1 DEF Buy
    <3>2. Arrival_Queue[p][i] \in Travelers /\ Arrival_Queue[p][i] # v
      BY <3>1, QueuedRide
    <3>3. PICK s \in Seq(Stages) \ {<<>>} : ticket' = [ticket EXCEPT ![v] = s]
      BY <2>1, BuyType DEF BoardInv
    <3> QED
      BY <3>2, <3>3 DEF BoardInv, TypeOK
  <2>2. CASE Wait_For_Train_To_Go(v)
    BY <2>2 DEF Wait_For_Train_To_Go
  <2> QED
    BY <2>1, <2>2
<1> QED
  BY <1>1, <1>2, <1>3, TrainsUntouched DEF BoardInv, TrainsHold

\* Steps of train t alone: the others stay as they are.
OthersStand(t) ==
    \A u \in Trains \ {t} : place'[u] = place[u] /\ turns'[u] = turns[u] /\ Next_Stage'[u] = Next_Stage[u]

\* What is true of the trains, for one of them.
LeftFor(t) ==
    /\ place[t] = "alighting" => turns[t] <= Len(Arrival_Queue[PlatformOf(t)])
    /\ place[t] = "boarding" => turns[t] <= Len(Leaving_Queue[PlatformOf(t)])
    /\ AtPlatform(t) =>
        \A i \in 1..Len(Arrival_Queue[PlatformOf(t)]) :
            RidesTo(t, i) => place[t] = "alighting" /\ i <= turns[t]

LEMMA TrainsEach == TurnsLeft /\ LookedAt <=> \A t \in Trains : LeftFor(t)
BY DEF TurnsLeft, LookedAt, LeftFor

\* Of another train, when the queues of its platform and the tickets of those in it stay.
LEMMA OtherTrain ==
    ASSUME TypeOK, NEW u \in Trains, LeftFor(u),
           place'[u] = place[u], turns'[u] = turns[u], Next_Stage'[u] = Next_Stage[u],
           AtPlatform(u) => /\ Leaving_Queue'[PlatformOf(u)] = Leaving_Queue[PlatformOf(u)]
                            /\ Arrival_Queue'[PlatformOf(u)] = Arrival_Queue[PlatformOf(u)],
           \A i \in 1..Len(Arrival_Queue[PlatformOf(u)]) :
               ticket'[Arrival_Queue[PlatformOf(u)][i]] = ticket[Arrival_Queue[PlatformOf(u)][i]]
    PROVE  LeftFor(u)'
<1>1. PlatformOf(u)' = PlatformOf(u)
  BY DEF PlatformOf
<1>2. CASE ~AtPlatform(u)
  BY <1>2 DEF LeftFor, AtPlatform
<1>3. CASE AtPlatform(u)
  BY <1>1, <1>3 DEF LeftFor, AtPlatform, RidesTo
<1> QED
  BY <1>2, <1>3

LEMMA EnterTrains ==
    ASSUME BoardInv, NEW t \in Trains, Enter(t)
    PROVE  TrainsHold'
<1> DEFINE p == PlatformOf(t)
<1>1. /\ place' = [place EXCEPT ![t] = "alighting"]
      /\ place \in [Trains -> TrainPlaces]
      /\ turns' = [turns EXCEPT ![t] = Len(Arrival_Queue[p])] /\ turns \in [Trains -> Nat]
      /\ UNCHANGED <<Next_Stage, Leaving_Queue, Arrival_Queue, ticket>>
      /\ \A u \in Trains : place[u] # "track" => PlatformOf(u) # p
      /\ TypeOK
  BY DEF Enter, ToLookAt, BoardInv, TypeOK, queueVars, travelerVars
<1>2. \A u \in Trains : PlatformOf(u)' = PlatformOf(u)
  BY <1>1 DEF PlatformOf
<1>3. \A u \in Trains \ {t} : place'[u] = place[u] /\ turns'[u] = turns[u]
  BY <1>1
<1>4. OneAtPlatform'
  BY <1>1, <1>2, <1>3 DEF BoardInv, OneAtPlatform, AtPlatform
<1>5. LeftFor(t)'
  BY <1>1, <1>2 DEF LeftFor, AtPlatform
<1>6. ASSUME NEW u \in Trains \ {t} PROVE LeftFor(u)'
  BY <1>1, <1>3, OtherTrain, TrainsEach DEF BoardInv
<1> QED
  <2>1. \A u \in Trains : LeftFor(u)'
    BY <1>5, <1>6
  <2>2. TurnsLeft' /\ LookedAt'
    BY <2>1 DEF TurnsLeft, LookedAt, LeftFor
  <2> QED
    BY <1>4, <2>2 DEF TrainsHold

\* Steps after which no train is at a platform that was not there before.
LEMMA StillApart ==
    ASSUME TypeOK, OneAtPlatform,
           \A u \in Trains : place'[u] # "track" =>
               place[u] # "track" /\ Next_Stage'[u] = Next_Stage[u]
    PROVE  OneAtPlatform'
BY DEF OneAtPlatform, AtPlatform, PlatformOf

LEMMA StopTrains ==
    ASSUME BoardInv, NEW t \in Trains, Stop(t)
    PROVE  TrainsHold'
<1>1. /\ place' = [place EXCEPT ![t] = "stopped"] /\ place[t] = "alighting" /\ turns[t] = 0
      /\ place \in [Trains -> TrainPlaces]
      /\ UNCHANGED <<turns, Next_Stage, Leaving_Queue, Arrival_Queue, ticket>>
      /\ TypeOK
  BY DEF Stop, BoardInv, TypeOK, queueVars, travelerVars
<1>2. PlatformOf(t)' = PlatformOf(t)
  BY <1>1 DEF PlatformOf
<1>3. OneAtPlatform'
  BY <1>1, StillApart DEF BoardInv
<1>4. LeftFor(t)'
  <2>1. LeftFor(t)
    BY TrainsEach DEF BoardInv
  <2>2. ASSUME NEW i \in 1..Len(Arrival_Queue[PlatformOf(t)]) PROVE ~RidesTo(t, i)
    BY <1>1, <2>1 DEF LeftFor, AtPlatform
  <2> QED
    BY <1>1, <1>2, <2>2 DEF LeftFor, AtPlatform, RidesTo
<1>5. ASSUME NEW u \in Trains \ {t} PROVE LeftFor(u)'
  BY <1>1, OtherTrain, TrainsEach DEF BoardInv
<1> QED
  BY <1>3, <1>4, <1>5 DEF TrainsHold, TurnsLeft, LookedAt, LeftFor

LEMMA TimeComesTrains ==
    ASSUME BoardInv, NEW t \in FB, TimeComes(t)
    PROVE  TrainsHold'
<1>1. /\ place' = [place EXCEPT ![t] = "due"] /\ place[t] \in {"stopped"}
      /\ place \in [Trains -> TrainPlaces]
      /\ t \in Trains
      /\ UNCHANGED <<turns, Next_Stage, Leaving_Queue, Arrival_Queue, ticket>>
      /\ TypeOK
  BY BoardingAssumption DEF TimeComes, BoardInv, TypeOK, queueVars, travelerVars
<1>2. PlatformOf(t)' = PlatformOf(t)
  BY <1>1 DEF PlatformOf
<1>3. OneAtPlatform'
  BY <1>1, StillApart DEF BoardInv
<1>4. LeftFor(t)'
  <2>1. LeftFor(t)
    BY <1>1, TrainsEach DEF BoardInv
  <2>2. ASSUME NEW i \in 1..Len(Arrival_Queue[PlatformOf(t)]) PROVE ~RidesTo(t, i)
    BY <1>1, <2>1 DEF LeftFor, AtPlatform
  <2> QED
    BY <1>1, <1>2, <2>2 DEF LeftFor, AtPlatform, RidesTo
<1>5. ASSUME NEW u \in Trains \ {t} PROVE LeftFor(u)'
  BY <1>1, OtherTrain, TrainsEach DEF BoardInv
<1> QED
  BY <1>3, <1>4, <1>5 DEF TrainsHold, TurnsLeft, LookedAt, LeftFor

LEMMA BeginExitTrains ==
    ASSUME BoardInv, NEW t \in Trains, BeginExit(t)
    PROVE  TrainsHold'
<1>1. /\ place' = [place EXCEPT ![t] = "boarding"] /\ place[t] \in {"stopped", "due"}
      /\ place \in [Trains -> TrainPlaces]
      /\ turns' = [turns EXCEPT ![t] = Len(Leaving_Queue[PlatformOf(t)])]
      /\ turns \in [Trains -> Nat]
      /\ UNCHANGED <<Next_Stage, Leaving_Queue, Arrival_Queue, ticket>>
      /\ TypeOK
  BY DEF BeginExit, BoardInv, TypeOK, queueVars, travelerVars
<1>2. PlatformOf(t)' = PlatformOf(t)
  BY <1>1 DEF PlatformOf
<1>3. OneAtPlatform'
  BY <1>1, StillApart DEF BoardInv
<1>4. LeftFor(t)'
  <2>1. LeftFor(t)
    BY TrainsEach DEF BoardInv
  <2>2. ASSUME NEW i \in 1..Len(Arrival_Queue[PlatformOf(t)]) PROVE ~RidesTo(t, i)
    BY <1>1, <2>1 DEF LeftFor, AtPlatform
  <2> QED
    BY <1>1, <1>2, <2>2 DEF LeftFor, AtPlatform, RidesTo
<1>5. ASSUME NEW u \in Trains \ {t} PROVE LeftFor(u)'
  BY <1>1, OtherTrain, TrainsEach DEF BoardInv
<1> QED
  BY <1>3, <1>4, <1>5 DEF TrainsHold, TurnsLeft, LookedAt, LeftFor

LEMMA LeaveTrains ==
    ASSUME BoardInv, NEW t \in Trains, Leave(t)
    PROVE  TrainsHold'
<1>1. /\ place' = [place EXCEPT ![t] = "track"]
      /\ place \in [Trains -> TrainPlaces]
      /\ \A u \in Trains \ {t} : Next_Stage'[u] = Next_Stage[u]
      /\ UNCHANGED <<turns, Leaving_Queue, Arrival_Queue, ticket>>
      /\ TypeOK
  BY DEF Leave, BoardInv, TypeOK, queueVars, travelerVars
<1>2. OneAtPlatform'
  BY <1>1, StillApart DEF BoardInv
<1>3. LeftFor(t)'
  BY <1>1 DEF LeftFor, AtPlatform
<1>4. ASSUME NEW u \in Trains \ {t} PROVE LeftFor(u)'
  BY <1>1, OtherTrain, TrainsEach DEF BoardInv
<1> QED
  BY <1>2, <1>3, <1>4 DEF TrainsHold, TurnsLeft, LookedAt, LeftFor

LEMMA StaySeatedTrains ==
    ASSUME BoardInv, NEW t \in Trains, StaySeated(t)
    PROVE  TrainsHold'
<1> DEFINE p == PlatformOf(t)
           q == Arrival_Queue[p]
<1>1. /\ place' = place /\ place[t] = "alighting"
      /\ turns' = [turns EXCEPT ![t] = @ - 1] /\ turns \in [Trains -> Nat]
      /\ Arrival_Queue' = [Arrival_Queue EXCEPT ![p] = BackOfQueue(@)]
      /\ Arrival_Queue \in [Platforms -> Seq(Travelers)]
      /\ UNCHANGED <<Next_Stage, Leaving_Queue, ticket>>
      /\ Head(ticket[Head(q)]).train # t
      /\ TypeOK
  BY DEF StaySeated, BoardInv, TypeOK, travelerVars
<1>2. /\ p \in Platforms /\ q \in Seq(Travelers) /\ q # <<>> /\ Head(q) = q[1]
      /\ Len(q) \in Nat \ {0} /\ turns[t] \in Nat /\ turns[t] - 1 \in Nat
  BY Places, Alighter DEF StaySeated, BoardInv
<1>3. PlatformOf(t)' = p
  BY <1>1 DEF PlatformOf
<1>4. OneAtPlatform'
  BY <1>1, StillApart DEF BoardInv
<1>5. LeftFor(t)'
  <2>1. LeftFor(t)
    BY TrainsEach DEF BoardInv
  <2>2. /\ Len(BackOfQueue(q)) = Len(q)
        /\ \A i \in 1..(Len(q) - 1) : BackOfQueue(q)[i] = q[i + 1]
        /\ BackOfQueue(q)[Len(q)] = q[1]
    BY <1>2, BackElements
  <2>3. turns[t] <= Len(q)
    BY <1>1, <2>1 DEF LeftFor
  <2>4. ASSUME NEW i \in 1..Len(q), Head(ticket[BackOfQueue(q)[i]]).train = t
        PROVE  i <= turns[t] - 1
    <3>1. CASE i = Len(q)
      BY <1>1, <1>2, <2>2, <2>4, <3>1
    <3>2. CASE i # Len(q)
      <4>1. i \in 1..(Len(q) - 1) /\ i + 1 \in 1..Len(q)
        BY <1>2, <3>2
      <4>2. RidesTo(t, i + 1)
        BY <2>2, <2>4, <4>1 DEF RidesTo
      <4>3. i + 1 <= turns[t]
        BY <1>1, <2>1, <4>1, <4>2 DEF LeftFor, AtPlatform
      <4> QED
        BY <1>2, <4>1, <4>3
    <3> QED
      BY <3>1, <3>2
  <2>5. Arrival_Queue'[p] = BackOfQueue(q) /\ turns'[t] = turns[t] - 1 /\ place'[t] = "alighting"
    BY <1>1, <1>2
  <2> HIDE DEF p, q
  <2> QED
    BY <1>1, <1>2, <1>3, <2>2, <2>3, <2>4, <2>5 DEF LeftFor, RidesTo
<1>6. ASSUME NEW u \in Trains \ {t} PROVE LeftFor(u)'
  <2>1. AtPlatform(u) => PlatformOf(u) # p
    BY <1>1 DEF BoardInv, OneAtPlatform, AtPlatform
  <2>2. AtPlatform(u) => Arrival_Queue'[PlatformOf(u)] = Arrival_Queue[PlatformOf(u)]
    BY <1>1, <2>1, Places
  <2> QED
    BY <1>1, <2>2, OtherTrain, TrainsEach DEF BoardInv
<1> QED
  BY <1>4, <1>5, <1>6 DEF TrainsHold, TurnsLeft, LookedAt, LeftFor

LEMMA AlightTrains ==
    ASSUME BoardInv, NEW t \in Trains, Alight(t)
    PROVE  TrainsHold'
<1> DEFINE p == PlatformOf(t)
           q == Arrival_Queue[p]
           v == Head(q)
<1>1. /\ place' = place /\ place[t] = "alighting"
      /\ turns' = [turns EXCEPT ![t] = @ - 1] /\ turns \in [Trains -> Nat]
      /\ Arrival_Queue' = [Arrival_Queue EXCEPT ![p] = Tail(@)]
      /\ Arrival_Queue \in [Platforms -> Seq(Travelers)]
      /\ UNCHANGED <<Next_Stage, Leaving_Queue>>
      /\ ticket' = [ticket EXCEPT ![v] = Tail(@)]
      /\ ticket \in [Travelers -> Seq(Stages)]
      /\ TypeOK
  BY DEF Alight, BoardInv, TypeOK
<1>2. /\ p \in Platforms /\ q \in Seq(Travelers) /\ v \in Travelers /\ v = q[1]
      /\ Len(q) \in Nat \ {0} /\ turns[t] \in Nat /\ turns[t] - 1 \in Nat
      /\ turns[t] - 1 <= Len(Tail(q)) /\ Len(Tail(q)) = Len(q) - 1
      /\ \A i \in 1..Len(Tail(q)) : Tail(q)[i] = q[i + 1]
      /\ Head(ticket[v]).to = p
  BY Places, Alighter DEF Alight, BoardInv
<1>3. PlatformOf(t)' = p
  BY <1>1 DEF PlatformOf
<1>4. OneAtPlatform'
  BY <1>1, StillApart DEF BoardInv
<1>5. LeftFor(t)'
  <2>1. LeftFor(t)
    BY TrainsEach DEF BoardInv
  <2>2. \A i, j \in 1..Len(q) : q[i] = q[j] => i = j
    BY <1>2 DEF BoardInv, QueuesHold, Lists
  <2>3. ASSUME NEW i \in 1..Len(Tail(q)), Head(ticket'[Tail(q)[i]]).train = t
        PROVE  i <= turns[t] - 1
    <3>1. i + 1 \in 1..Len(q) /\ Tail(q)[i] = q[i + 1] /\ q[i + 1] \in Travelers
      BY <1>2, ElementOfSeq
    <3>2. q[i + 1] # v
      BY <1>2, <2>2, <3>1
    <3>3. ticket'[q[i + 1]] = ticket[q[i + 1]]
      BY <1>1, <3>1, <3>2
    <3>4. RidesTo(t, i + 1)
      BY <2>3, <3>1, <3>3 DEF RidesTo
    <3>5. i + 1 <= turns[t]
      BY <1>1, <2>1, <3>1, <3>4 DEF LeftFor, AtPlatform
    <3> QED
      BY <1>2, <3>1, <3>5
  <2>4. Arrival_Queue'[p] = Tail(q) /\ turns'[t] = turns[t] - 1 /\ place'[t] = "alighting"
    BY <1>1, <1>2
  <2> HIDE DEF p, q, v
  <2> QED
    BY <1>1, <1>2, <1>3, <2>3, <2>4 DEF LeftFor, RidesTo
<1>6. ASSUME NEW u \in Trains \ {t} PROVE LeftFor(u)'
  <2>1. CASE ~AtPlatform(u)
    BY <1>1, <2>1 DEF LeftFor, AtPlatform
  <2>2. CASE AtPlatform(u)
    <3>1. PlatformOf(u) # p /\ PlatformOf(u) \in Platforms
      BY <1>1, <2>2, Places DEF BoardInv, OneAtPlatform, AtPlatform
    <3>2. Arrival_Queue'[PlatformOf(u)] = Arrival_Queue[PlatformOf(u)]
      BY <1>1, <3>1
    <3>3. ASSUME NEW i \in 1..Len(Arrival_Queue[PlatformOf(u)])
          PROVE  ticket'[Arrival_Queue[PlatformOf(u)][i]] = ticket[Arrival_Queue[PlatformOf(u)][i]]
      <4>1. /\ Arrival_Queue[PlatformOf(u)][i] \in Travelers
            /\ Arrival_Queue[PlatformOf(u)][i] # v
        BY <1>2, <3>1, QueuedRide
      <4> QED
        BY <1>1, <4>1
    <3> QED
      BY <1>1, <3>2, <3>3, OtherTrain, TrainsEach DEF BoardInv
  <2> QED
    BY <2>1, <2>2
<1> QED
  BY <1>4, <1>5, <1>6 DEF TrainsHold, TurnsLeft, LookedAt, LeftFor

LEMMA SendAwayKeepWaitingTrains ==
    ASSUME BoardInv, NEW t \in Trains, SendAway(t) \/ KeepWaiting(t)
    PROVE  TrainsHold'
<1> DEFINE p == PlatformOf(t)
           q == Leaving_Queue[p]
<1>1. /\ place' = place /\ place[t] = "boarding" /\ BoardingTurn(t)
      /\ turns' = [turns EXCEPT ![t] = @ - 1] /\ turns \in [Trains -> Nat]
      /\ \/ Leaving_Queue' = [Leaving_Queue EXCEPT ![p] = Tail(@)]
         \/ Leaving_Queue' = [Leaving_Queue EXCEPT ![p] = BackOfQueue(@)]
      /\ Leaving_Queue \in [Platforms -> Seq(Travelers)]
      /\ UNCHANGED <<Next_Stage, Arrival_Queue, ticket>>
      /\ TypeOK
  BY DEF SendAway, KeepWaiting, BoardingTurn, BoardInv, TypeOK, travelerVars
<1>2. /\ p \in Platforms /\ q \in Seq(Travelers) /\ q # <<>>
      /\ Len(q) \in Nat /\ turns[t] - 1 \in Nat
      /\ turns[t] - 1 <= Len(Tail(q)) /\ Len(Tail(q)) = Len(q) - 1
  BY <1>1, Places, Boarder
<1>3. PlatformOf(t)' = p
  BY <1>1 DEF PlatformOf
<1>4. OneAtPlatform'
  BY <1>1, StillApart DEF BoardInv
<1>5. LeftFor(t)'
  <2>1. LeftFor(t)
    BY TrainsEach DEF BoardInv
  <2>2. Len(BackOfQueue(q)) = Len(q)
    BY <1>2, BackElements
  <2>3. Leaving_Queue'[p] = Tail(q) \/ Leaving_Queue'[p] = BackOfQueue(q)
    BY <1>1, <1>2
  <2>4. turns'[t] <= Len(Leaving_Queue'[p])
    <3>1. turns'[t] = turns[t] - 1
      BY <1>1
    <3> HIDE DEF p, q
    <3>2. turns'[t] \in Nat /\ turns'[t] <= Len(Tail(q)) /\ Len(Tail(q)) <= Len(q) /\ Len(q) \in Nat
      BY <1>2, <3>1
    <3>3. CASE Leaving_Queue'[p] = Tail(q)
      BY <3>2, <3>3
    <3>4. CASE Leaving_Queue'[p] = BackOfQueue(q)
      <4>1. Len(Leaving_Queue'[p]) = Len(q)
        BY <2>2, <3>4
      <4>2. Len(Tail(q)) \in Int
        BY <1>2
      <4> QED
        BY <3>2, <4>1, <4>2
    <3> QED
      BY <2>3, <3>3, <3>4
  <2> HIDE DEF p, q
  <2>5. ASSUME NEW i \in 1..Len(Arrival_Queue[p]), RidesTo(t, i) PROVE FALSE
    BY <1>1, <2>1, <2>5 DEF LeftFor, AtPlatform, p
  <2> QED
    BY <1>1, <1>3, <2>4, <2>5 DEF LeftFor, RidesTo, p
<1>6. ASSUME NEW u \in Trains \ {t} PROVE LeftFor(u)'
  <2>1. AtPlatform(u) => PlatformOf(u) # p
    BY <1>1 DEF BoardInv, OneAtPlatform, AtPlatform
  <2>2. AtPlatform(u) => Leaving_Queue'[PlatformOf(u)] = Leaving_Queue[PlatformOf(u)]
    BY <1>1, <2>1, Places
  <2> QED
    BY <1>1, <2>2, OtherTrain, TrainsEach DEF BoardInv
<1> QED
  BY <1>4, <1>5, <1>6 DEF TrainsHold, TurnsLeft, LookedAt, LeftFor

LEMMA BoardTrains ==
    ASSUME BoardInv, NEW t \in Trains, Board(t)
    PROVE  TrainsHold'
<1> DEFINE p == PlatformOf(t)
           q == Leaving_Queue[p]
           v == Head(q)
           p1 == Head(ticket[v]).to
<1>1. /\ place' = place /\ place[t] = "boarding" /\ BoardingTurn(t)
      /\ turns' = [turns EXCEPT ![t] = @ - 1] /\ turns \in [Trains -> Nat]
      /\ Leaving_Queue' = [Leaving_Queue EXCEPT ![p] = Tail(@)]
      /\ Leaving_Queue \in [Platforms -> Seq(Travelers)]
      /\ Arrival_Queue' = [Arrival_Queue EXCEPT ![p1] = Append(@, v)]
      /\ Arrival_Queue \in [Platforms -> Seq(Travelers)]
      /\ UNCHANGED <<Next_Stage, ticket>> /\ Head(ticket[v]).train = t
      /\ TypeOK
  BY DEF Board, BoardingTurn, BoardInv, TypeOK
<1>2. /\ p \in Platforms /\ q \in Seq(Travelers) /\ v \in Travelers
      /\ Len(q) \in Nat /\ turns[t] - 1 \in Nat
      /\ turns[t] - 1 <= Len(Tail(q)) /\ Len(Tail(q)) = Len(q) - 1
      /\ where[v] = "waiting" /\ Head(ticket[v]).from = p
  BY <1>1, Places, Boarder
<1>3. p1 \in Platforms /\ p1 # p
  BY <1>2, StageOf DEF BoardInv
<1>4. PlatformOf(t)' = p
  BY <1>1 DEF PlatformOf
<1>5. OneAtPlatform'
  BY <1>1, StillApart DEF BoardInv
<1>6. LeftFor(t)'
  <2>1. LeftFor(t)
    BY TrainsEach DEF BoardInv
  <2>2. Leaving_Queue'[p] = Tail(q) /\ Arrival_Queue'[p] = Arrival_Queue[p] /\ turns'[t] = turns[t] - 1
    BY <1>1, <1>2, <1>3
  <2> HIDE DEF p, q, v, p1
  <2>3. ASSUME NEW i \in 1..Len(Arrival_Queue[p]), RidesTo(t, i) PROVE FALSE
    BY <1>1, <2>1, <2>3 DEF LeftFor, AtPlatform, p
  <2> QED
    BY <1>1, <1>2, <1>4, <2>2, <2>3 DEF LeftFor, RidesTo, p
<1> HIDE DEF v, p1
<1>7. ASSUME NEW u \in Trains \ {t} PROVE LeftFor(u)'
  <2>1. CASE ~AtPlatform(u)
    BY <1>1, <2>1 DEF LeftFor, AtPlatform
  <2>2. CASE AtPlatform(u)
    <3> DEFINE r == PlatformOf(u)
    <3>1. /\ r # p /\ r \in Platforms /\ r' = r /\ LeftFor(u)
          /\ Arrival_Queue[r] \in Seq(Travelers)
      BY <1>1, <2>2, Places, TrainsEach DEF BoardInv, OneAtPlatform, AtPlatform, PlatformOf
    <3>2. /\ Leaving_Queue'[r] = Leaving_Queue[r]
          /\ place'[u] = place[u] /\ turns'[u] = turns[u]
      BY <1>1, <3>1
    <3>3. CASE r # p1
      <4>1. Arrival_Queue'[r] = Arrival_Queue[r]
        BY <1>1, <3>1, <3>3
      <4> QED
        BY <1>1, <3>1, <3>2, <4>1, OtherTrain
    <3>4. CASE r = p1
      <4>1. Arrival_Queue'[r] = Append(Arrival_Queue[r], v)
        BY <1>1, <3>1, <3>4
      <4>2. /\ Len(Arrival_Queue'[r]) = Len(Arrival_Queue[r]) + 1 /\ Len(Arrival_Queue[r]) \in Nat
            /\ \A i \in 1..Len(Arrival_Queue[r]) : Arrival_Queue'[r][i] = Arrival_Queue[r][i]
            /\ Arrival_Queue'[r][Len(Arrival_Queue[r]) + 1] = v
        BY <1>2, <3>1, <4>1, AppendProperties, LenProperties
      <4>3. ASSUME NEW i \in 1..Len(Arrival_Queue'[r]), Head(ticket[Arrival_Queue'[r][i]]).train = u
            PROVE  place[u] = "alighting" /\ i <= turns[u]
        <5>1. i # Len(Arrival_Queue[r]) + 1
          BY <1>1, <4>2, <4>3
        <5>2. i \in 1..Len(Arrival_Queue[r]) /\ RidesTo(u, i)
          BY <4>2, <4>3, <5>1 DEF RidesTo
        <5> QED
          BY <2>2, <3>1, <5>2 DEF LeftFor
      <4>4. turns[u] \in Nat
        BY <1>1
      <4>5. /\ place[u] = "alighting" => turns[u] <= Len(Arrival_Queue'[r])
            /\ place[u] = "boarding" => turns[u] <= Len(Leaving_Queue'[r])
        BY <3>1, <3>2, <4>2, <4>4 DEF LeftFor
      <4> HIDE DEF r
      <4>6. PlatformOf(u)' = r
        BY <3>1 DEF r
      <4> QED
        BY <1>1, <3>2, <4>3, <4>5, <4>6 DEF LeftFor, RidesTo
    <3> QED
      BY <3>3, <3>4
  <2> QED
    BY <2>1, <2>2
<1> QED
  BY <1>5, <1>6, <1>7 DEF TrainsHold, TurnsLeft, LookedAt, LeftFor
-----------------------------------------------------------------------------
(* The invariant holds.                                                      *)

LEMMA BoardInit == Init => BoardInv
<1> SUFFICES ASSUME Init PROVE BoardInv
  OBVIOUS
<1>1. ASSUME NEW t \in Trains
      PROVE  /\ Route[t] \in Seq(Platforms) /\ Len(Route[t]) \in Nat /\ 1 \in 1..Len(Route[t])
  BY BoardingAssumption, LenProperties
<1>2. TypeOK
  <2>1. \A v \in Travelers : Home[v] \in Platforms \X Platforms /\ Home[v][1] \in Platforms
    BY BoardingAssumption
  <2>2. start \in [Travelers -> Platforms] /\ journey \in [Travelers -> Platforms \X Platforms]
    BY <2>1, BoardingAssumption DEF Init
  <2>3. \A f \in FB : Entries[f] \in Nat \ {0}
    BY BoardingAssumption
  <2>4. due \in [FB -> 0..MaxDue]
    BY BoardingAssumption DEF Init
  <2>5. /\ ticket \in [Travelers -> Seq(Stages)]
        /\ Leaving_Queue \in [Platforms -> Seq(Travelers)]
        /\ Arrival_Queue \in [Platforms -> Seq(Travelers)]
    BY DEF Init
  <2>6. /\ Current_Run_Id \in [FB -> Nat \ {0}] /\ Current_Run_Cursor \in [FB -> Nat \ {0}]
        /\ \A f \in FB : Current_Run_Cursor[f] <= Entries[f]
    BY <2>3 DEF Init
  <2> QED
    BY <1>1, <2>2, <2>4, <2>5, <2>6 DEF Init, TypeOK, TrainPlaces
<1>3. /\ \A p : Waiters(where, ticket, p) = {}
      /\ \A p : Riders(where, ticket, p) = {}
      /\ \A t : Aboard(where, ticket, t) = {}
  BY DEF Init, Waiters, Riders, Aboard
<1>4. QueuesHold /\ SeatsCounted /\ Ticketed
  <2>1. QueuesHold
    BY <1>3, ListsEmpty DEF Init, QueuesHold
  <2>2. SeatsCounted
    BY <1>3, FS_EmptySet DEF Init, SeatsCounted
  <2>3. Ticketed
    BY DEF Init, Ticketed
  <2> QED
    BY <2>1, <2>2, <2>3
<1>5. OneAtPlatform /\ TurnsLeft /\ LookedAt
  <2>1. OneAtPlatform
    BY BoardingAssumption DEF Init, OneAtPlatform, PlatformOf
  <2>2. TurnsLeft /\ LookedAt
    <3>1. \A t \in Trains : PlatformOf(t) \in Platforms
      BY <1>2, Places
    <3> QED
      BY <3>1 DEF Init, TurnsLeft, LookedAt
  <2> QED
    BY <2>1, <2>2
<1> QED
  BY <1>2, <1>4, <1>5 DEF BoardInv

LEMMA BoardStep == BoardInv /\ [Next]_vars => BoardInv'
<1> SUFFICES ASSUME BoardInv, [Next]_vars PROVE BoardInv'
  OBVIOUS
<1>0. TypeOK' /\ TypeOK /\ Books /\ TrainsHold
  BY TypeStep DEF BoardInv, Books, TrainsHold
<1>1. CASE UNCHANGED vars \/ \E f \in FB : Tick(f)
  <2>1. /\ UNCHANGED <<queueVars, where, ticket, Occupied_Sits>>
        /\ UNCHANGED <<place, Next_Stage, turns, Arrival_Queue, Leaving_Queue>>
    BY <1>1 DEF Tick, vars, trainVars, travelerVars, queueVars
  <2>2. \A p \in Platforms : Len(Leaving_Queue[p]) \in Nat
    BY <1>0, LenProperties DEF TypeOK
  <2>3. TrainsHold'
    BY <1>0, <2>1, <2>2, TrainsUntouched
  <2> QED
    BY <1>0, <2>1, <2>3, BooksUntouched DEF BoardInv, Books, TrainsHold
<1>2. CASE \E v \in Travelers : Buy(v) \/ Wait_For_Train_To_Go(v)
  BY <1>0, <1>2, BuyBooks, WaitBooks, WaitBuyTrains DEF BoardInv, Books, TrainsHold
<1>3. ASSUME NEW t \in Trains, Enter(t) PROVE BoardInv'
  <2>1. UNCHANGED <<queueVars, where, ticket, Occupied_Sits>>
    BY <1>3 DEF Enter, travelerVars
  <2> QED
    BY <1>0, <1>3, <2>1, BooksUntouched, EnterTrains DEF BoardInv, Books, TrainsHold
<1>4. ASSUME NEW t \in Trains, Stop(t) PROVE BoardInv'
  <2>1. UNCHANGED <<queueVars, where, ticket, Occupied_Sits>>
    BY <1>4 DEF Stop, travelerVars
  <2> QED
    BY <1>0, <1>4, <2>1, BooksUntouched, StopTrains DEF BoardInv, Books, TrainsHold
<1>9. ASSUME NEW t \in FB, TimeComes(t) PROVE BoardInv'
  <2>1. UNCHANGED <<queueVars, where, ticket, Occupied_Sits>>
    BY <1>9 DEF TimeComes, travelerVars
  <2> QED
    BY <1>0, <1>9, <2>1, BooksUntouched, TimeComesTrains DEF BoardInv, Books, TrainsHold
<1>5. ASSUME NEW t \in Trains, BeginExit(t) PROVE BoardInv'
  <2>1. UNCHANGED <<queueVars, where, ticket, Occupied_Sits>>
    BY <1>5 DEF BeginExit, travelerVars
  <2> QED
    BY <1>0, <1>5, <2>1, BooksUntouched, BeginExitTrains DEF BoardInv, Books, TrainsHold
<1>6. ASSUME NEW t \in Trains, Leave(t) PROVE BoardInv'
  <2>1. UNCHANGED <<queueVars, where, ticket, Occupied_Sits>>
    BY <1>6 DEF Leave, travelerVars
  <2> QED
    BY <1>0, <1>6, <2>1, BooksUntouched, LeaveTrains DEF BoardInv, Books, TrainsHold
<1>7. ASSUME NEW t \in Trains, StaySeated(t) \/ Alight(t) PROVE BoardInv'
  BY <1>0, <1>7, StaySeatedBooks, AlightBooks, StaySeatedTrains, AlightTrains
     DEF BoardInv, Books, TrainsHold
<1>8. ASSUME NEW t \in Trains, SendAway(t) \/ KeepWaiting(t) \/ Board(t) PROVE BoardInv'
  BY <1>0, <1>8, SendAwayBooks, KeepWaitingBooks, BoardBooks, SendAwayKeepWaitingTrains, BoardTrains
     DEF BoardInv, Books, TrainsHold
<1> QED
  BY <1>1, <1>2, <1>3, <1>4, <1>5, <1>6, <1>7, <1>8, <1>9 DEF Next, TrainNext

LEMMA BoardInvHolds == Spec => []BoardInv
BY BoardInit, BoardStep, PTL DEF Spec
-----------------------------------------------------------------------------
\* The queues, tickets, seats and time tables keep their types, and every train is
\* at a stage of its route (platform.adb, time_table.adb, train_pool.adb).
THEOREM BoardingTypes == Spec => []TypeOK
<1>1. BoardInv => TypeOK
  BY DEF BoardInv
<1> QED
  BY <1>1, BoardInvHolds, PTL

\* A traveller is in one queue, that of the platform its ticket names, or at none
\* while an operation of its own is to be executed; and the seats taken on a train
\* are those of the travellers that ride it (platform.adb, Perform_Entrance,
\* Perform_Exit; move_operation.adb).
THEOREM TravelersAreAccounted == Spec => []TravelersAccounted
<1>1. BoardInv => TravelersAccounted
  <2> SUFFICES ASSUME BoardInv PROVE TravelersAccounted
    OBVIOUS
  <2>1. ASSUME NEW v \in Travelers, NEW p \in Platforms
        PROVE  /\ Cardinality(Positions(Leaving_Queue[p], v)) =
                     IF where[v] = "waiting" /\ Head(ticket[v]).from = p THEN 1 ELSE 0
               /\ Cardinality(Positions(Arrival_Queue[p], v)) =
                     IF where[v] = "riding" /\ Head(ticket[v]).to = p THEN 1 ELSE 0
    <3>1. /\ Lists(Leaving_Queue[p], Waiters(where, ticket, p))
          /\ Lists(Arrival_Queue[p], Riders(where, ticket, p))
      BY DEF BoardInv, QueuesHold
    <3>2. /\ Cardinality(Positions(Leaving_Queue[p], v)) =
                IF v \in Waiters(where, ticket, p) THEN 1 ELSE 0
          /\ Cardinality(Positions(Arrival_Queue[p], v)) =
                IF v \in Riders(where, ticket, p) THEN 1 ELSE 0
      BY <3>1, ListsPositions
    <3> QED
      BY <3>2, Members
  <2>2. SeatsMatchRiders
    BY DEF BoardInv, SeatsCounted, Aboard, SeatsMatchRiders
  <2> QED
    BY <2>1, <2>2 DEF TravelersAccounted, TravelerInOnePlace
<1> QED
  BY <1>1, BoardInvHolds, PTL
-----------------------------------------------------------------------------
(* Whom trains leave behind, and how late those are that they take.          *)

LEMMA NobodyLeft ==
    ASSUME BoardInv, NEW t \in Trains, NEW v \in Travelers,
           place[t] = "boarding",
           where[v] = "riding", Head(ticket[v]).train = t, Head(ticket[v]).to = PlatformOf(t)
    PROVE  FALSE
<1> DEFINE q == Arrival_Queue[PlatformOf(t)]
<1>1. Lists(q, Riders(where, ticket, PlatformOf(t)))
  BY Places DEF BoardInv, QueuesHold
<1>2. v \in Riders(where, ticket, PlatformOf(t))
  BY DEF Riders
<1>3. PICK i \in 1..Len(q) : q[i] = v
  BY <1>1, <1>2 DEF Lists
<1>4. RidesTo(t, i)
  BY <1>3 DEF RidesTo
<1> QED
  BY <1>4 DEF BoardInv, LookedAt, AtPlatform

\* No train leaves a platform with a traveller whose stage ends there, however the
\* loops of Perform_Entrance and Perform_Exit share the platform's queues with the
\* travellers who come and the trains before and after (platform.adb:117-232, 341-412).
THEOREM NoneIsCarriedPast == Spec => NobodyCarriedPast
<1>1. BoardInv =>
        \A t \in Trains, v \in Travelers :
            place[t] = "boarding" /\ place'[t] = "track" =>
              ~(where[v] = "riding" /\ Head(ticket[v]).train = t
                /\ Head(ticket[v]).to = PlatformOf(t))
  BY NobodyLeft
<1> QED
  BY <1>1, BoardInvHolds, PTL DEF NobodyCarriedPast, Spec

\* The time tables have a date for each stage, as Booking takes them to have.
OneDatePerStage == \A f \in FB : Entries[f] = Len(Route[f])

\* The time table has moved on, and the train is still at the platform.
Moved(f) == place[f] \in {"due", "boarding"}

\* The run of a time table is the round of its train, one ahead from the time table's
\* update at the last stage until the train leaves.
RunIsRound ==
    \A f \in FB :
        /\ ~Moved(f) => Current_Run_Id[f] = round[f] /\ Current_Run_Cursor[f] = Next_Stage[f]
        /\ Moved(f) =>
              IF Next_Stage[f] = Len(Route[f])
              THEN Current_Run_Id[f] = round[f] + 1 /\ Current_Run_Cursor[f] = 1
              ELSE Current_Run_Id[f] = round[f] /\ Current_Run_Cursor[f] = Next_Stage[f] + 1

\* Every platform of its route has recorded the round before, or this one.
RunRecorded ==
    \A f \in FB : \A i \in 1..Len(Route[f]) :
        /\ round[f] <= Train_Run[Route[f][i]][f] + 1
        /\ i < Next_Stage[f] => round[f] <= Train_Run[Route[f][i]][f]

\* No stage of a ticket is booked for a run beyond the next one of the time table.
BookedAtMostNext ==
    \A v \in Travelers : \A i \in 1..Len(ticket[v]) :
        ticket[v][i].run > 0 => ticket[v][i].run <= Current_Run_Id[ticket[v][i].train] + 1

RunsInv == BoardInv /\ RunIsRound /\ RunRecorded /\ BookedAtMostNext

LEMMA RunsInit == Init => RunsInv
<1> SUFFICES ASSUME Init PROVE RunsInv
  OBVIOUS
<1>1. BoardInv
  BY BoardInit
<1>2. RunIsRound
  BY BoardingAssumption DEF Init, RunIsRound, Moved
<1>4. BookedAtMostNext
  <2>1. Len(<<>>) = 0 /\ \A v \in Travelers : ticket[v] = <<>>
    BY DEF Init
  <2> QED
    BY <2>1 DEF BookedAtMostNext
<1>3. RunRecorded
  <2>1. ASSUME NEW f \in FB, NEW i \in 1..Len(Route[f]) PROVE Route[f][i] \in Platforms
    BY BoardingAssumption, ElementOfSeq
  <2>2. \A f \in FB : Next_Stage[f] = 1 /\ round[f] = 1
    BY BoardingAssumption DEF Init
  <2>3. \A p \in Platforms, f \in FB : Train_Run[p][f] = 0
    BY DEF Init
  <2> QED
    BY <2>1, <2>2, <2>3 DEF RunRecorded
<1> QED
  BY <1>1, <1>2, <1>3, <1>4 DEF RunsInv

\* The time tables move on.
LEMMA RunsForward ==
    ASSUME TypeOK, [Next]_vars
    PROVE  \A f \in FB : Current_Run_Id[f] <= Current_Run_Id'[f]
<1>1. \A f \in FB : Current_Run_Id[f] \in Nat
  BY DEF TypeOK
<1>2. ASSUME NEW t \in FB, TimeComes(t) PROVE \A f \in FB : Current_Run_Id[f] <= Current_Run_Id'[f]
  <2>1. CASE RunEnds(t)
    <3>1. Current_Run_Id' = [Current_Run_Id EXCEPT ![t] = @ + 1]
      BY <1>2, <2>1 DEF TimeComes, Update_Time_Table
    <3> QED
      BY <1>1, <3>1 DEF TypeOK
  <2>2. CASE ~RunEnds(t)
    BY <1>1, <1>2, <2>2 DEF TimeComes, Update_Time_Table
  <2> QED
    BY <2>1, <2>2
<1>3. CASE \/ UNCHANGED vars \/ \E f \in FB : Tick(f)
           \/ \E v \in Travelers : Buy(v) \/ Wait_For_Train_To_Go(v)
           \/ \E t \in Trains : Enter(t) \/ StaySeated(t) \/ Alight(t) \/ Stop(t) \/ BeginExit(t)
                                \/ SendAway(t) \/ KeepWaiting(t) \/ Board(t) \/ Leave(t)
  <2>1. UNCHANGED Current_Run_Id
    BY <1>3 DEF vars, Tick, Buy, Wait_For_Train_To_Go, Enter, StaySeated, Alight, Stop, BeginExit,
                SendAway, KeepWaiting, Board, Leave, timeTableVars
  <2> QED
    BY <1>1, <2>1
<1> QED
  BY <1>2, <1>3 DEF Next, TrainNext

\* A stage is booked for the run of the time table, or the next one.
LEMMA RunSold ==
    ASSUME TypeOK, NEW v \in Travelers, Buy(v), NEW i \in 1..Len(ticket'[v]),
           ticket'[v][i].run > 0
    PROVE  ticket'[v][i].run <= Current_Run_Id[ticket'[v][i].train] + 1
<1>1. PICK o \in Offers :
        ticket' = [ticket EXCEPT ![v] = [k \in DOMAIN o |->
                [train |-> o[k].train, from |-> o[k].from, to |-> o[k].to,
                 run |-> IF o[k].train \in FB
                         THEN SelectedRun(o[k].train, o[k].from) ELSE 0]]]
  BY DEF Buy
<1> DEFINE S(k) == [train |-> o[k].train, from |-> o[k].from, to |-> o[k].to,
                    run |-> IF o[k].train \in FB
                            THEN SelectedRun(o[k].train, o[k].from) ELSE 0]
<1>2. DOMAIN o = 1..Len(o) /\ Len(o) \in Nat
  BY BoardingAssumption, LenProperties
<1>3. ticket'[v] = [k \in 1..Len(o) |-> S(k)]
  BY <1>1, <1>2 DEF TypeOK
<1>4. Len(ticket'[v]) = Len(o)
  BY <1>2, <1>3
<1>5. ticket'[v][i] = S(i)
  BY <1>3, <1>4
<1>6. /\ ticket'[v][i].train = o[i].train
      /\ ticket'[v][i].run = IF o[i].train \in FB THEN SelectedRun(o[i].train, o[i].from) ELSE 0
  BY <1>5
<1>7. o[i].train \in FB /\ ticket'[v][i].run = SelectedRun(o[i].train, o[i].from)
  BY <1>6
<1>8. Current_Run_Id[o[i].train] \in Nat
  BY <1>7 DEF TypeOK
<1>9. SelectedRun(o[i].train, o[i].from)
         \in {Current_Run_Id[o[i].train], Current_Run_Id[o[i].train] + 1}
  BY DEF SelectedRun
<1> HIDE DEF SelectedRun
<1> QED
  BY <1>6, <1>7, <1>8, <1>9

LEMMA BookedStep ==
    ASSUME BoardInv, BookedAtMostNext, [Next]_vars
    PROVE  BookedAtMostNext'
<1>1. TypeOK /\ ticket \in [Travelers -> Seq(Stages)]
  BY DEF BoardInv, TypeOK
<1>2. \A f \in FB : /\ Current_Run_Id[f] \in Nat /\ Current_Run_Id'[f] \in Nat
                    /\ Current_Run_Id[f] <= Current_Run_Id'[f]
  <2>1. TypeOK'
    BY TypeStep
  <2> QED
    BY <1>1, <2>1, RunsForward DEF TypeOK
<1>3. \A s \in Stages : s.run \in Nat /\ (s.run > 0 => s.train \in FB)
  BY DEF Stages
\* A stage that was on the ticket before.
<1>4. ASSUME NEW v \in Travelers, NEW k \in 1..Len(ticket[v]), ticket[v][k].run > 0
      PROVE  ticket[v][k].run <= Current_Run_Id'[ticket[v][k].train] + 1
  <2>1. ticket[v][k] \in Stages
    BY <1>1, ElementOfSeq
  <2>2. ticket[v][k].train \in FB /\ ticket[v][k].run \in Nat
    BY <1>3, <1>4, <2>1
  <2>3. ticket[v][k].run <= Current_Run_Id[ticket[v][k].train] + 1
    BY <1>4 DEF BookedAtMostNext
  <2> QED
    BY <1>2, <2>2, <2>3
<1>5. CASE UNCHANGED ticket
  BY <1>4, <1>5 DEF BookedAtMostNext
<1>6. ASSUME NEW u \in Travelers, Buy(u) PROVE BookedAtMostNext'
  <2> SUFFICES ASSUME NEW v \in Travelers, NEW i \in 1..Len(ticket'[v]), ticket'[v][i].run > 0
               PROVE  ticket'[v][i].run <= Current_Run_Id'[ticket'[v][i].train] + 1
    BY DEF BookedAtMostNext
  <2>1. CASE v = u
    <3>1. ticket'[v][i].run <= Current_Run_Id[ticket'[v][i].train] + 1
      BY <1>1, <1>6, <2>1, RunSold
    <3>2. Current_Run_Id' = Current_Run_Id
      BY <1>6 DEF Buy, timeTableVars
    <3> QED
      BY <3>1, <3>2
  <2>2. CASE v # u
    <3>1. ticket'[v] = ticket[v]
      <4>1. PICK s \in Seq(Stages) \ {<<>>} : ticket' = [ticket EXCEPT ![u] = s]
        BY <1>1, <1>6, BuyType
      <4> QED
        BY <1>1, <2>2, <4>1
    <3> QED
      BY <1>4, <3>1
  <2> QED
    BY <2>1, <2>2
<1>7. ASSUME NEW t \in Trains, Alight(t) PROVE BookedAtMostNext'
  <2> DEFINE u == Head(Arrival_Queue[PlatformOf(t)])
  <2> SUFFICES ASSUME NEW v \in Travelers, NEW i \in 1..Len(ticket'[v]), ticket'[v][i].run > 0
               PROVE  ticket'[v][i].run <= Current_Run_Id'[ticket'[v][i].train] + 1
    BY DEF BookedAtMostNext
  <2>1. ticket' = [ticket EXCEPT ![u] = Tail(ticket[u])]
    BY <1>7 DEF Alight
  <2>2. u \in Travelers /\ where[u] # "buying"
    BY <1>7, Alighter DEF Alight
  <2> HIDE DEF u
  <2>3. CASE v = u
    <3>1. /\ ticket[u] \in Seq(Stages) /\ ticket[u] # <<>> /\ Len(ticket[u]) \in Nat
          /\ ticket'[v] = Tail(ticket[u])
      BY <1>1, <2>1, <2>2, <2>3, StageOf DEF BoardInv
    <3>2. /\ Len(Tail(ticket[u])) = Len(ticket[u]) - 1
          /\ \A k \in 1..Len(Tail(ticket[u])) : Tail(ticket[u])[k] = ticket[u][k + 1]
      BY <3>1, HeadTailProperties
    <3>3. i + 1 \in 1..Len(ticket[u]) /\ ticket'[v][i] = ticket[u][i + 1]
      BY <3>1, <3>2
    <3> QED
      BY <1>4, <2>2, <3>3
  <2>4. CASE v # u
    BY <1>1, <1>4, <2>1, <2>4
  <2> QED
    BY <2>3, <2>4
<1>8. CASE \/ UNCHANGED vars \/ \E f \in FB : Tick(f)
           \/ \E v \in Travelers : Wait_For_Train_To_Go(v)
           \/ \E f \in FB : TimeComes(f)
           \/ \E t \in Trains : Enter(t) \/ StaySeated(t) \/ Stop(t) \/ BeginExit(t)
                                \/ SendAway(t) \/ KeepWaiting(t) \/ Board(t) \/ Leave(t)
  <2>1. UNCHANGED ticket
    BY <1>8 DEF vars, Tick, Wait_For_Train_To_Go, TimeComes, Enter, StaySeated, Stop, BeginExit,
                SendAway, KeepWaiting, Board, Leave, travelerVars
  <2> QED
    BY <1>5, <2>1
<1> QED
  BY <1>6, <1>7, <1>8 DEF Next, TrainNext

LEMMA BeginExitRuns ==
    ASSUME RunsInv, NEW t \in Trains, BeginExit(t)
    PROVE  RunIsRound' /\ RunRecorded'
<1>1. /\ UNCHANGED <<Next_Stage, Current_Run_Id, Current_Run_Cursor, Train_Run, round>>
      /\ place' = [place EXCEPT ![t] = "boarding"] /\ place \in [Trains -> TrainPlaces]
      /\ t \in FB => place[t] = "due"
  BY DEF BeginExit, timeTableVars, historyVars, RunsInv, BoardInv, TypeOK
<1>2. \A f \in FB : Moved(f)' <=> Moved(f)
  BY <1>1, BoardingAssumption DEF Moved
<1> QED
  BY <1>1, <1>2 DEF RunsInv, RunIsRound, RunRecorded

LEMMA TimeComesRuns ==
    ASSUME OneDatePerStage, RunsInv, NEW t \in FB, TimeComes(t)
    PROVE  RunIsRound' /\ RunRecorded'
<1>1. /\ place[t] = "stopped" /\ place' = [place EXCEPT ![t] = "due"] /\ t \in Trains
      /\ place \in [Trains -> TrainPlaces]
      /\ UNCHANGED <<Next_Stage, Train_Run, round>>
  BY BoardingAssumption DEF TimeComes, RunsInv, BoardInv, TypeOK, historyVars
<1>2. RunRecorded'
  BY <1>1 DEF RunsInv, RunRecorded
<1>3. ASSUME NEW f \in FB, f # t
      PROVE  /\ place'[f] = place[f] /\ Current_Run_Id'[f] = Current_Run_Id[f]
             /\ Current_Run_Cursor'[f] = Current_Run_Cursor[f]
  <2>1. place'[f] = place[f]
    BY <1>1, <1>3, BoardingAssumption
  <2> QED
    BY <1>3, <2>1 DEF TimeComes, Update_Time_Table, RunsInv, BoardInv, TypeOK
<1>4. IF Next_Stage[t] = Len(Route[t])
             THEN Current_Run_Id'[t] = round[t] + 1 /\ Current_Run_Cursor'[t] = 1
             ELSE Current_Run_Id'[t] = round[t] /\ Current_Run_Cursor'[t] = Next_Stage[t] + 1
  <2>1. /\ Current_Run_Id[t] = round[t] /\ Current_Run_Cursor[t] = Next_Stage[t]
        /\ Next_Stage[t] \in 1..Len(Route[t]) /\ Len(Route[t]) \in Nat /\ Entries[t] = Len(Route[t])
        /\ round[t] \in Nat
    BY <1>1, Places DEF RunsInv, RunIsRound, Moved, OneDatePerStage, BoardInv, TypeOK
  <2>2. /\ Current_Run_Id \in [FB -> Nat \ {0}] /\ Current_Run_Cursor \in [FB -> Nat \ {0}]
    BY DEF RunsInv, BoardInv, TypeOK
  <2>3. RunEnds(t) <=> Next_Stage[t] = Len(Route[t])
    BY <2>1 DEF RunEnds
  <2>4. Update_Time_Table(t)
    BY DEF TimeComes
  <2>5. CASE RunEnds(t)
    <3>1. /\ Current_Run_Cursor' = [Current_Run_Cursor EXCEPT ![t] = 1]
          /\ Current_Run_Id' = [Current_Run_Id EXCEPT ![t] = @ + 1]
      BY <2>4, <2>5 DEF Update_Time_Table
    <3> QED
      BY <2>1, <2>2, <2>3, <2>5, <3>1
  <2>6. CASE ~RunEnds(t)
    <3>1. /\ Current_Run_Cursor' = [Current_Run_Cursor EXCEPT ![t] = @ + 1]
          /\ Current_Run_Id' = Current_Run_Id
      BY <2>4, <2>6 DEF Update_Time_Table
    <3> QED
      BY <2>1, <2>2, <2>3, <2>6, <3>1
  <2> QED
    BY <2>5, <2>6
<1>5. Moved(t)'
  BY <1>1 DEF Moved
<1>6. RunIsRound'
  <2>1. ASSUME NEW f \in FB
        PROVE  /\ ~Moved(f)' =>
                     Current_Run_Id'[f] = round'[f] /\ Current_Run_Cursor'[f] = Next_Stage'[f]
               /\ Moved(f)' =>
                     IF Next_Stage'[f] = Len(Route[f])
                     THEN Current_Run_Id'[f] = round'[f] + 1 /\ Current_Run_Cursor'[f] = 1
                     ELSE Current_Run_Id'[f] = round'[f] /\ Current_Run_Cursor'[f] = Next_Stage'[f] + 1
    <3>1. CASE f = t
      BY <1>1, <1>4, <1>5, <3>1
    <3>2. CASE f # t
      BY <1>1, <1>3, <3>2 DEF RunsInv, RunIsRound, Moved
    <3> QED
      BY <3>1, <3>2
  <2> QED
    BY <2>1 DEF RunIsRound
<1> QED
  BY <1>2, <1>6

LEMMA LeaveRuns ==
    ASSUME RunsInv, NEW t \in Trains, Leave(t)
    PROVE  RunIsRound' /\ RunRecorded'
<1> DEFINE last == Next_Stage[t] = Len(Route[t])
<1>1. /\ place[t] = "boarding" /\ place' = [place EXCEPT ![t] = "track"]
      /\ place \in [Trains -> TrainPlaces]
      /\ Next_Stage \in [Trains -> Nat]
      /\ Next_Stage' = [Next_Stage EXCEPT ![t] = IF last THEN 1 ELSE @ + 1]
      /\ UNCHANGED <<Current_Run_Id, Current_Run_Cursor>>
      /\ round \in [FB -> Nat \ {0}] /\ Train_Run \in [Platforms -> [FB -> Nat]]
  BY DEF Leave, RunsInv, BoardInv, TypeOK, timeTableVars
<1>2. /\ PlatformOf(t) \in Platforms /\ Next_Stage[t] \in 1..Len(Route[t]) /\ Len(Route[t]) \in Nat
      /\ PlatformOf(t) = Route[t][Next_Stage[t]]
  BY Places DEF RunsInv, BoardInv, PlatformOf
<1>3. ASSUME NEW f \in FB, f # t
      PROVE  /\ place'[f] = place[f] /\ Next_Stage'[f] = Next_Stage[f] /\ round'[f] = round[f]
             /\ \A p \in Platforms : Train_Run'[p][f] = Train_Run[p][f]
  <2>1. place'[f] = place[f] /\ Next_Stage'[f] = Next_Stage[f]
    BY <1>1, <1>3, BoardingAssumption
  <2>2. CASE t \in FB
    <3>1. /\ Train_Run' = [Train_Run EXCEPT ![PlatformOf(t)][t] = Current_Run_Id[t]]
          /\ \E b \in BOOLEAN : round' = [round EXCEPT ![t] = IF b THEN @ + 1 ELSE @]
      BY <2>2 DEF Leave
    <3> QED
      BY <1>1, <1>2, <1>3, <2>1, <3>1
  <2>3. CASE t \notin FB
    BY <2>1, <2>3 DEF Leave, historyVars
  <2> QED
    BY <2>2, <2>3
<1>4. ASSUME t \in FB
      PROVE  /\ Next_Stage'[t] = IF last THEN 1 ELSE Next_Stage[t] + 1
             /\ round'[t] = IF last THEN round[t] + 1 ELSE round[t]
             /\ Train_Run'[PlatformOf(t)][t] = Current_Run_Id[t]
             /\ \A p \in Platforms : p # PlatformOf(t) => Train_Run'[p][t] = Train_Run[p][t]
             /\ Current_Run_Id[t] = IF last THEN round[t] + 1 ELSE round[t]
             /\ Current_Run_Cursor[t] = IF last THEN 1 ELSE Next_Stage[t] + 1
             /\ place'[t] = "track"
  <2>1. /\ Train_Run' = [Train_Run EXCEPT ![PlatformOf(t)][t] = Current_Run_Id[t]]
        /\ round' = [round EXCEPT ![t] = IF last THEN @ + 1 ELSE @]
    BY <1>4 DEF Leave
  <2>2. /\ Current_Run_Id[t] = IF last THEN round[t] + 1 ELSE round[t]
        /\ Current_Run_Cursor[t] = IF last THEN 1 ELSE Next_Stage[t] + 1
    BY <1>1, <1>4 DEF RunsInv, RunIsRound, Moved
  <2>3. Next_Stage'[t] = (IF last THEN 1 ELSE Next_Stage[t] + 1) /\ place'[t] = "track"
    BY <1>1
  <2>4. round'[t] = IF last THEN round[t] + 1 ELSE round[t]
    BY <1>1, <1>4, <2>1
  <2>5. /\ Train_Run'[PlatformOf(t)][t] = Current_Run_Id[t]
        /\ \A p \in Platforms : p # PlatformOf(t) => Train_Run'[p][t] = Train_Run[p][t]
    BY <1>1, <1>2, <1>4, <2>1
  <2> QED
    BY <2>2, <2>3, <2>4, <2>5
<1>5. RunIsRound'
  <2>1. ASSUME NEW f \in FB
        PROVE  /\ ~Moved(f)' =>
                     Current_Run_Id'[f] = round'[f] /\ Current_Run_Cursor'[f] = Next_Stage'[f]
               /\ Moved(f)' =>
                     IF Next_Stage'[f] = Len(Route[f])
                     THEN Current_Run_Id'[f] = round'[f] + 1 /\ Current_Run_Cursor'[f] = 1
                     ELSE Current_Run_Id'[f] = round'[f] /\ Current_Run_Cursor'[f] = Next_Stage'[f] + 1
    <3>1. CASE f = t
      BY <1>1, <1>4, <3>1 DEF Moved
    <3>2. CASE f # t
      BY <1>1, <1>3, <3>2 DEF RunsInv, RunIsRound, Moved
    <3> QED
      BY <3>1, <3>2
  <2> QED
    BY <2>1 DEF RunIsRound
<1>6. RunRecorded'
  <2>1. ASSUME NEW f \in FB, NEW i \in 1..Len(Route[f])
        PROVE  /\ round'[f] <= Train_Run'[Route[f][i]][f] + 1
               /\ i < Next_Stage'[f] => round'[f] <= Train_Run'[Route[f][i]][f]
    <3>1. /\ Route[f][i] \in Platforms
          /\ round[f] \in Nat /\ Train_Run[Route[f][i]][f] \in Nat
      <4>1. Route[f][i] \in Platforms
        BY BoardingAssumption, ElementOfSeq
      <4> QED
        BY <1>1, <4>1
    <3>2. /\ round[f] <= Train_Run[Route[f][i]][f] + 1
          /\ i < Next_Stage[f] => round[f] <= Train_Run[Route[f][i]][f]
      BY DEF RunsInv, RunRecorded
    <3>3. CASE f # t
      BY <1>3, <3>1, <3>2, <3>3
    <3>4. CASE f = t
      <4>1. CASE Route[f][i] = PlatformOf(t)
        <5>1. Train_Run'[Route[f][i]][f] = round'[f]
          BY <1>4, <3>4, <4>1
        <5>2. round'[f] \in Nat
          BY <1>4, <3>1, <3>4
        <5> QED
          BY <5>1, <5>2
      <4>2. CASE Route[f][i] # PlatformOf(t)
        <5>1. i # Next_Stage[t] /\ Train_Run'[Route[f][i]][f] = Train_Run[Route[f][i]][f]
          BY <1>2, <1>4, <3>1, <3>4, <4>2
        <5>2. CASE last
          <6>1. i < Next_Stage[t]
            BY <1>2, <3>4, <5>1, <5>2
          <6>2. round'[f] = round[f] + 1 /\ Next_Stage'[f] = 1
            BY <1>4, <3>4, <5>2
          <6> QED
            BY <3>1, <3>2, <3>4, <5>1, <6>1, <6>2
        <5>3. CASE ~last
          <6>1. round'[f] = round[f] /\ Next_Stage'[f] = Next_Stage[t] + 1
            BY <1>4, <3>4, <5>3
          <6>2. i < Next_Stage'[f] => i < Next_Stage[t]
            BY <1>2, <3>4, <5>1, <6>1
          <6> QED
            BY <3>1, <3>2, <3>4, <5>1, <6>1, <6>2
        <5> QED
          BY <5>2, <5>3
      <4> QED
        BY <4>1, <4>2
    <3> QED
      BY <3>3, <3>4
  <2> QED
    BY <2>1 DEF RunRecorded
<1> QED
  BY <1>5, <1>6

LEMMA RunsStep == OneDatePerStage /\ RunsInv /\ [Next]_vars => RunsInv'
<1> SUFFICES ASSUME OneDatePerStage, RunsInv, [Next]_vars PROVE RunsInv'
  OBVIOUS
<1>1. BoardInv'
  BY BoardStep DEF RunsInv
<1>2. ASSUME NEW t \in Trains, BeginExit(t) PROVE RunIsRound' /\ RunRecorded'
  BY <1>2, BeginExitRuns
<1>8. ASSUME NEW t \in FB, TimeComes(t) PROVE RunIsRound' /\ RunRecorded'
  BY <1>8, TimeComesRuns
<1>9. BookedAtMostNext'
  BY BookedStep DEF RunsInv
<1>3. ASSUME NEW t \in Trains, Leave(t) PROVE RunIsRound' /\ RunRecorded'
  BY <1>3, LeaveRuns
<1>4. ASSUME NEW t \in Trains, Enter(t) \/ Stop(t)
      PROVE  RunIsRound' /\ RunRecorded'
  <2>1. /\ UNCHANGED <<Next_Stage, Current_Run_Id, Current_Run_Cursor, Train_Run, round>>
        /\ ~Moved(t) /\ \E x \in {"alighting", "stopped"} : place' = [place EXCEPT ![t] = x]
        /\ place \in [Trains -> TrainPlaces]
    BY <1>4 DEF Enter, Stop, Moved, timeTableVars, historyVars, RunsInv, BoardInv, TypeOK
  <2>2. \A f \in FB : Moved(f)' <=> Moved(f)
    BY <2>1, BoardingAssumption DEF Moved
  <2> QED
    BY <2>1, <2>2 DEF RunsInv, RunIsRound, RunRecorded
<1>5. ASSUME \/ UNCHANGED vars
             \/ \E f \in FB : Tick(f)
             \/ \E v \in Travelers : Buy(v) \/ Wait_For_Train_To_Go(v)
             \/ \E t \in Trains : StaySeated(t) \/ Alight(t) \/ SendAway(t) \/ KeepWaiting(t) \/ Board(t)
      PROVE  RunIsRound' /\ RunRecorded'
  <2>1. UNCHANGED <<place, Next_Stage, Current_Run_Id, Current_Run_Cursor, Train_Run, round>>
    BY <1>5 DEF vars, Tick, Buy, Wait_For_Train_To_Go, StaySeated, Alight, SendAway, KeepWaiting,
                Board, trainVars, timeTableVars, historyVars
  <2> QED
    BY <2>1 DEF RunsInv, RunIsRound, Moved, RunRecorded
<1>6. ASSUME \E t \in Trains : TrainNext(t)
      PROVE  RunIsRound' /\ RunRecorded'
  <2>1. PICK t \in Trains : TrainNext(t)
    BY <1>6
  <2>2. CASE Enter(t) \/ Stop(t)
    BY <1>4, <2>2
  <2>3. CASE BeginExit(t)
    BY <1>2, <2>3
  <2>6. CASE t \in FB /\ TimeComes(t)
    BY <1>8, <2>6
  <2>4. CASE Leave(t)
    BY <1>3, <2>4
  <2>5. CASE StaySeated(t) \/ Alight(t) \/ SendAway(t) \/ KeepWaiting(t) \/ Board(t)
    BY <1>5, <2>5
  <2> QED
    BY <2>1, <2>2, <2>3, <2>4, <2>5, <2>6 DEF TrainNext
<1>7. RunIsRound' /\ RunRecorded'
  BY <1>5, <1>6 DEF Next
<1> QED
  BY <1>1, <1>7, <1>9 DEF RunsInv

\* The trains board one traveller at a time, and only those that wait for them.
LEMMA WhoBoards ==
    ASSUME BoardInv, [Next]_vars, NEW v \in Travelers, where[v] = "waiting", where'[v] = "riding"
    PROVE  \E t \in Trains :
              /\ BoardingTurn(t) /\ Head(ticket[v]).train = t
              /\ Head(ticket[v]).from = PlatformOf(t)
              /\ ~LostTrain(v, t, PlatformOf(t))
<1>1. where \in [Travelers -> {"buying", "leaving", "waiting", "riding"}]
  BY DEF BoardInv, TypeOK
<1>2. ~UNCHANGED where
  OBVIOUS
<1>3. ASSUME NEW t \in Trains, Board(t) PROVE v = Head(Leaving_Queue[PlatformOf(t)])
  BY <1>1, <1>3 DEF Board
<1>4. ASSUME NEW t \in Trains, Board(t)
      PROVE  /\ BoardingTurn(t) /\ Head(ticket[v]).train = t
             /\ Head(ticket[v]).from = PlatformOf(t)
             /\ ~LostTrain(v, t, PlatformOf(t))
  BY <1>3, <1>4, Boarder DEF Board
<1>5. ~ \E u \in Travelers : Buy(u) \/ Wait_For_Train_To_Go(u)
  BY <1>1 DEF Buy, Wait_For_Train_To_Go
<1>6. ASSUME NEW t \in Trains, Alight(t) PROVE FALSE
  BY <1>1, <1>6 DEF Alight
<1>7. ASSUME NEW t \in Trains, SendAway(t) PROVE FALSE
  BY <1>1, <1>7 DEF SendAway
<1>8. ~ (\/ UNCHANGED vars \/ \E f \in FB : Tick(f) \/ TimeComes(f)
         \/ \E t \in Trains : Enter(t) \/ StaySeated(t) \/ Stop(t) \/ BeginExit(t)
                              \/ KeepWaiting(t) \/ Leave(t))
  BY <1>2 DEF vars, travelerVars, Tick, TimeComes, Enter, StaySeated, Stop, BeginExit, KeepWaiting,
                Leave
<1> QED
  BY <1>4, <1>5, <1>6, <1>7, <1>8 DEF Next, TrainNext

\* Where the time tables have a date for each stage, whoever boards a booked train
\* boards it at most one run late, and at most two runs early; and nobody is carried
\* past a platform (platform.adb:255-300; train_pool.adb:126-142; time_table.adb,
\* Update_Time_Table; BookingManager.scala:312-315).
THEOREM TravelersAreServed ==
    ASSUME OneDatePerStage
    PROVE  Spec => TravelersServed
<1>1. Spec => NobodyCarriedPast
  BY NoneIsCarriedPast
<1>2. RunsInv /\ [Next]_vars =>
        \A v \in Travelers : BoardsFB(v) =>
            LET r == round[Head(ticket[v]).train]
                booked == Head(ticket[v]).run
            IN booked <= r + 2 /\ r <= booked + 1
  <2> SUFFICES ASSUME RunsInv, [Next]_vars, NEW v \in Travelers, BoardsFB(v)
               PROVE  /\ Head(ticket[v]).run <= round[Head(ticket[v]).train] + 2
                      /\ round[Head(ticket[v]).train] <= Head(ticket[v]).run + 1
    OBVIOUS
  <2>1. where[v] = "waiting" /\ where'[v] = "riding" /\ Head(ticket[v]).run > 0
    BY DEF BoardsFB
  <2>2. PICK t \in Trains :
          /\ BoardingTurn(t) /\ Head(ticket[v]).train = t
          /\ Head(ticket[v]).from = PlatformOf(t)
          /\ ~LostTrain(v, t, PlatformOf(t))
    BY <2>1, WhoBoards DEF RunsInv
  <2>3. t \in FB /\ Head(ticket[v]).run \in Nat
    BY <2>1, <2>2, StageOf DEF RunsInv, BoardInv
  <2>4. /\ PlatformOf(t) \in Platforms /\ Next_Stage[t] \in 1..Len(Route[t])
        /\ PlatformOf(t) = Route[t][Next_Stage[t]]
    BY Places DEF RunsInv, BoardInv, PlatformOf
  <2>5. round[t] <= Train_Run[PlatformOf(t)][t] + 1
    BY <2>3, <2>4 DEF RunsInv, RunRecorded
  <2>6. ~(Head(ticket[v]).run < Train_Run[PlatformOf(t)][t])
    BY <2>1, <2>2 DEF LostTrain
  <2>7. /\ Train_Run[PlatformOf(t)][t] \in Nat /\ round[t] \in Nat /\ Current_Run_Id[t] \in Nat
    BY <2>3, <2>4 DEF RunsInv, BoardInv, TypeOK
  <2>8. Head(ticket[v]).run <= Current_Run_Id[t] + 1
    <3>1. ticket[v] \in Seq(Stages) /\ ticket[v] # <<>> /\ Len(ticket[v]) \in Nat \ {0}
      BY <2>1, StageOf DEF RunsInv, BoardInv
    <3>2. Head(ticket[v]) = ticket[v][1] /\ 1 \in 1..Len(ticket[v])
      BY <3>1, HeadTailProperties
    <3> QED
      BY <2>1, <2>2, <3>2 DEF RunsInv, BookedAtMostNext
  <2>9. Current_Run_Id[t] <= round[t] + 1
    BY <2>3, <2>7 DEF RunsInv, RunIsRound
  <2> QED
    BY <2>2, <2>3, <2>5, <2>6, <2>7, <2>8, <2>9
<1>3. Spec => []RunsInv
  BY RunsInit, RunsStep, OneDatePerStage, PTL DEF Spec
<1>4. Spec => BoardsNearItsRun
  BY <1>2, <1>3, PTL DEF BoardsNearItsRun, Spec
<1> QED
  BY <1>1, <1>4 DEF TravelersServed
=============================================================================
