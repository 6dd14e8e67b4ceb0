------------------------------ MODULE Boarding ------------------------------
(***************************************************************************)
(* Travellers and trains at the platforms (railway/src/platform.adb,         *)
(* Perform_Entrance and Perform_Exit; move_operation.adb; train_pool.adb;    *)
(* time_table.adb, Update_Time_Table): who boards which train, who alights,  *)
(* and when a traveller is told that the booked train is lost.               *)
(*                                                                         *)
(* A train goes round its Route, a sequence of platforms.  Its time table    *)
(* has Entries departures per run, and due counts the scheduled departures   *)
(* whose time has come.  One train is at a platform at a time (Station).     *)
(* The loops over the queues of a platform take one traveller per step, so   *)
(* travellers come to the platform while trains board.  The exchange with    *)
(* the central office over runs (Booking) is taken to succeed.               *)
(***************************************************************************)
EXTENDS Naturals, Sequences, FiniteSets

CONSTANTS Travelers, Trains,
          FB,        \* the trains whose tickets are booked for a run
          Platforms,
          Route,     \* per train, the platforms it leaves, in order
          Entries,   \* per train, the departures in one run of its time table
          Home,      \* per traveller, <<start, destination>> of its first journey
          Offers,    \* the tickets the office sells, as sequences of stages
          MaxDue     \* bound: scheduled departures of an FB train

\* Trains begin at platforms of their own (trains.json, routes.json).
ASSUME BoardingAssumption ==
    /\ FB \subseteq Trains /\ IsFiniteSet(Travelers)
    /\ Route \in [Trains -> Seq(Platforms)] /\ Entries \in [FB -> Nat \ {0}]
    /\ \A t \in Trains : Len(Route[t]) > 1
    /\ \A t, u \in Trains : Route[t][1] = Route[u][1] => t = u
    /\ Home \in [Travelers -> Platforms \X Platforms] /\ MaxDue \in Nat
    /\ Offers \subseteq Seq([train : Trains, from : Platforms, to : Platforms])
    /\ \A o \in Offers : o # <<>> /\ \A i \in DOMAIN o : o[i].from # o[i].to

VARIABLES
    place,         \* per train: "track", "alighting", "stopped", "due" or "boarding"
    Next_Stage,    \* per train: the index in Route of its next departure
    turns,         \* per train: travellers the running loop has still to look at
    Occupied_Sits,
    Current_Run_Id, Current_Run_Cursor, due,    \* time tables of the FB trains
    Leaving_Queue, Arrival_Queue, Train_Run,    \* per platform
    where,         \* per traveller: "buying", "leaving", "waiting" or "riding"
    ticket,        \* the stages left of its ticket, the current one first
    journey,       \* its Start_Station and Destination
    start,         \* Current_Start_Station
    round, left    \* history: rounds begun, and round of the last departure per platform

trainVars == <<place, Next_Stage, turns>>
timeTableVars == <<Current_Run_Id, Current_Run_Cursor, due>>
queueVars == <<Leaving_Queue, Arrival_Queue>>
travelerVars == <<where, ticket, journey, start>>
historyVars == <<round, left>>
vars == <<trainVars, Occupied_Sits, timeTableVars, queueVars, Train_Run,
          travelerVars, historyVars>>

Stages ==
    {s \in [train : Trains, from : Platforms, to : Platforms, run : Nat] :
        s.from # s.to /\ (s.run > 0 => s.train \in FB)}

\* On the way, letting travellers off, waiting for its time, past it with the time
\* table moved on, and taking travellers on.
TrainPlaces == {"track", "alighting", "stopped", "due", "boarding"}

TypeOK ==
    /\ place \in [Trains -> TrainPlaces]
    /\ Next_Stage \in [Trains -> Nat] /\ \A t \in Trains : Next_Stage[t] \in 1..Len(Route[t])
    /\ turns \in [Trains -> Nat] /\ Occupied_Sits \in [Trains -> Nat]
    /\ Current_Run_Id \in [FB -> Nat \ {0}] /\ Current_Run_Cursor \in [FB -> Nat \ {0}]
    /\ \A f \in FB : Current_Run_Cursor[f] <= Entries[f]
    /\ due \in [FB -> 0..MaxDue]
    /\ Leaving_Queue \in [Platforms -> Seq(Travelers)]
    /\ Arrival_Queue \in [Platforms -> Seq(Travelers)]
    /\ Train_Run \in [Platforms -> [FB -> Nat]]
    /\ where \in [Travelers -> {"buying", "leaving", "waiting", "riding"}]
    /\ ticket \in [Travelers -> Seq(Stages)]
    /\ journey \in [Travelers -> Platforms \X Platforms] /\ start \in [Travelers -> Platforms]
    /\ round \in [FB -> Nat \ {0}] /\ left \in [Platforms -> [FB -> Nat]]

Init ==
    /\ place = [t \in Trains |-> "stopped"]
    /\ Next_Stage = [t \in Trains |-> 1]
    /\ turns = [t \in Trains |-> 0]
    /\ Occupied_Sits = [t \in Trains |-> 0]
    /\ Current_Run_Id = [f \in FB |-> 1]
    /\ Current_Run_Cursor = [f \in FB |-> 1]
    /\ due = [f \in FB |-> 0]
    /\ Leaving_Queue = [p \in Platforms |-> <<>>]
    /\ Arrival_Queue = [p \in Platforms |-> <<>>]
    /\ Train_Run = [p \in Platforms |-> [f \in FB |-> 0]]
    /\ where = [v \in Travelers |-> "buying"]
    /\ ticket = [v \in Travelers |-> <<>>]
    /\ journey = Home
    /\ start = [v \in Travelers |-> Home[v][1]]
    /\ round = [t \in FB |-> 1]
    /\ left = [p \in Platforms |-> [f \in FB |-> 0]]

PlatformOf(t) == Route[t][Next_Stage[t]]

\* The number of scheduled departures of f up to entry c of run r.
Scheduled(f, r, c) == (r - 1) * Entries[f] + c

(* Mutations of definitions below, for the runs that test the properties.     *)
DropHead(q) == Tail(q)
AllButLast(p) == IF Arrival_Queue[p] = <<>> THEN 0 ELSE Len(Arrival_Queue[p]) - 1
-----------------------------------------------------------------------------
Tick(f) ==
    /\ due[f] < MaxDue
    /\ due' = [due EXCEPT ![f] = @ + 1]
    /\ UNCHANGED <<trainVars, Occupied_Sits, Current_Run_Id, Current_Run_Cursor,
                   queueVars, Train_Run, travelerVars, historyVars>>
-----------------------------------------------------------------------------
(* Travellers.                                                               *)

\* The run a stage is booked for: the current one if its departure is still to
\* come when the ticket is asked for, else the next.
SelectedRun(f, p) ==
    LET i == CHOOSE n \in DOMAIN Route[f] : Route[f][n] = p
    IN IF Scheduled(f, Current_Run_Id[f], i) > due[f]
       THEN Current_Run_Id[f] ELSE Current_Run_Id[f] + 1

\* BUY_TICKET and TICKET_READY; a refused ticket is asked for again.
Buy(v) ==
    /\ where[v] = "buying"
    /\ \E o \in Offers :
          /\ o[1].from = start[v] /\ o[Len(o)].to = journey[v][2]
          /\ ticket' = [ticket EXCEPT ![v] = [i \in DOMAIN o |->
                [train |-> o[i].train, from |-> o[i].from, to |-> o[i].to,
                 run |-> IF o[i].train \in FB
                         THEN SelectedRun(o[i].train, o[i].from) ELSE 0]]]
    /\ where' = [where EXCEPT ![v] = "leaving"]
    /\ UNCHANGED <<trainVars, Occupied_Sits, timeTableVars, queueVars, Train_Run,
                   journey, start, historyVars>>

\* LEAVE: the traveller waits at the platform for its train to go.
Wait_For_Train_To_Go(v) ==
    /\ where[v] = "leaving"
    /\ where' = [where EXCEPT ![v] = "waiting"]
    /\ Leaving_Queue' = [Leaving_Queue EXCEPT ![Head(ticket[v]).from] = Append(@, v)]
    /\ UNCHANGED <<trainVars, Occupied_Sits, timeTableVars, Arrival_Queue, Train_Run,
                   ticket, journey, start, historyVars>>
-----------------------------------------------------------------------------
(* Perform_Entrance.                                                         *)

\* A traveller that is not concerned goes to the end of its queue.
BackOfQueue(q) == Append(Tail(q), Head(q))

ToLookAt(p) == Len(Arrival_Queue[p])

SeatsAfterAlighting(n) == IF n > 0 THEN n - 1 ELSE n

Enter(t) ==
    LET p == PlatformOf(t) IN
    /\ place[t] = "track"
    /\ \A u \in Trains : place[u] # "track" => PlatformOf(u) # p
    /\ place' = [place EXCEPT ![t] = "alighting"]
    /\ turns' = [turns EXCEPT ![t] = ToLookAt(p)]
    /\ UNCHANGED <<Next_Stage, Occupied_Sits, timeTableVars, queueVars, Train_Run,
                   travelerVars, historyVars>>

\* The traveller at the head of the arrival queue waits for another train.
StaySeated(t) ==
    LET p == PlatformOf(t) IN
    /\ place[t] = "alighting" /\ turns[t] > 0
    /\ Head(ticket[Head(Arrival_Queue[p])]).train # t
    /\ Arrival_Queue' = [Arrival_Queue EXCEPT ![p] = BackOfQueue(@)]
    /\ turns' = [turns EXCEPT ![t] = @ - 1]
    /\ UNCHANGED <<place, Next_Stage, Occupied_Sits, timeTableVars, Leaving_Queue,
                   Train_Run, travelerVars, historyVars>>

\* It goes on with the next stage of its ticket, or has finished its journey and
\* buys a ticket for the way back.
Alight(t) ==
    LET p == PlatformOf(t)
        v == Head(Arrival_Queue[p])
        last == Len(ticket[v]) = 1
    IN
    /\ place[t] = "alighting" /\ turns[t] > 0
    /\ Head(ticket[v]).train = t
    /\ Arrival_Queue' = [Arrival_Queue EXCEPT ![p] = Tail(@)]
    /\ turns' = [turns EXCEPT ![t] = @ - 1]
    /\ Occupied_Sits' = [Occupied_Sits EXCEPT ![t] = SeatsAfterAlighting(@)]
    /\ ticket' = [ticket EXCEPT ![v] = Tail(@)]
    /\ where' = [where EXCEPT ![v] = IF last THEN "buying" ELSE "leaving"]
    /\ IF last
       THEN /\ journey' = [journey EXCEPT ![v] = <<@[2], @[1]>>]
            /\ start' = [start EXCEPT ![v] = journey[v][2]]
       ELSE UNCHANGED <<journey, start>>
    /\ UNCHANGED <<place, Next_Stage, timeTableVars, Leaving_Queue, Train_Run,
                   historyVars>>

Stop(t) ==
    /\ place[t] = "alighting" /\ turns[t] = 0
    /\ place' = [place EXCEPT ![t] = "stopped"]
    /\ UNCHANGED <<Next_Stage, turns, Occupied_Sits, timeTableVars, queueVars,
                   Train_Run, travelerVars, historyVars>>
-----------------------------------------------------------------------------
(* Leaving a platform: Update_Time_Table, then Perform_Exit.                 *)

RunEnds(f) == Current_Run_Cursor[f] + 1 > Entries[f]

\* The last entry of a run moves the time table on to the next run.
Update_Time_Table(f) ==
    IF RunEnds(f)
    THEN /\ Current_Run_Cursor' = [Current_Run_Cursor EXCEPT ![f] = 1]
         /\ Current_Run_Id' = [Current_Run_Id EXCEPT ![f] = @ + 1]
    ELSE /\ Current_Run_Cursor' = [Current_Run_Cursor EXCEPT ![f] = @ + 1]
         /\ UNCHANGED Current_Run_Id

\* The time of a train with a time table has come: the table moves on first.
TimeComes(f) ==
    /\ place[f] = "stopped"
    /\ Scheduled(f, Current_Run_Id[f], Current_Run_Cursor[f]) <= due[f]
    /\ Update_Time_Table(f)
    /\ place' = [place EXCEPT ![f] = "due"]
    /\ UNCHANGED <<Next_Stage, turns, Occupied_Sits, due, queueVars, Train_Run,
                   travelerVars, historyVars>>

\* The train begins to leave: it looks at as many travellers as wait now.
BeginExit(t) ==
    /\ place[t] = IF t \in FB THEN "due" ELSE "stopped"
    /\ place' = [place EXCEPT ![t] = "boarding"]
    /\ turns' = [turns EXCEPT ![t] = Len(Leaving_Queue[PlatformOf(t)])]
    /\ UNCHANGED <<Next_Stage, Occupied_Sits, timeTableVars, queueVars, Train_Run,
                   travelerVars, historyVars>>

\* Whether the traveller v at platform p, which meets train t there, has lost
\* its booked train.
LostTrain(v, t, p) ==
    LET s == Head(ticket[v]) IN
    /\ s.run > 0
    /\ \/ s.train # t /\ s.run <= Train_Run[p][s.train]
       \/ s.train = t /\ s.run < Train_Run[p][s.train]

BoardingTurn(t) == place[t] = "boarding" /\ turns[t] > 0

\* It has to buy another ticket, from this platform.
SendAway(t) ==
    LET p == PlatformOf(t)
        v == Head(Leaving_Queue[p])
    IN
    /\ BoardingTurn(t)
    /\ LostTrain(v, t, p)
    /\ Leaving_Queue' = [Leaving_Queue EXCEPT ![p] = Tail(@)]
    /\ start' = [start EXCEPT ![v] = p]
    /\ where' = [where EXCEPT ![v] = "buying"]
    /\ turns' = [turns EXCEPT ![t] = @ - 1]
    /\ UNCHANGED <<place, Next_Stage, Occupied_Sits, timeTableVars, Arrival_Queue,
                   Train_Run, ticket, journey, historyVars>>

\* It waits for another train.
KeepWaiting(t) ==
    LET p == PlatformOf(t)
        v == Head(Leaving_Queue[p])
    IN
    /\ BoardingTurn(t)
    /\ Head(ticket[v]).train # t /\ ~LostTrain(v, t, p)
    /\ Leaving_Queue' = [Leaving_Queue EXCEPT ![p] = BackOfQueue(@)]
    /\ turns' = [turns EXCEPT ![t] = @ - 1]
    /\ UNCHANGED <<place, Next_Stage, Occupied_Sits, timeTableVars, Arrival_Queue,
                   Train_Run, travelerVars, historyVars>>

\* It boards, and its ENTER operation queues it where it will alight.
Board(t) ==
    LET p == PlatformOf(t)
        v == Head(Leaving_Queue[p])
    IN
    /\ BoardingTurn(t)
    /\ Head(ticket[v]).train = t /\ ~LostTrain(v, t, p)
    /\ Leaving_Queue' = [Leaving_Queue EXCEPT ![p] = Tail(@)]
    /\ Occupied_Sits' = [Occupied_Sits EXCEPT ![t] = @ + 1]
    /\ where' = [where EXCEPT ![v] = "riding"]
    /\ Arrival_Queue' = [Arrival_Queue EXCEPT ![Head(ticket[v]).to] = Append(@, v)]
    /\ turns' = [turns EXCEPT ![t] = @ - 1]
    /\ UNCHANGED <<place, Next_Stage, timeTableVars, Train_Run, ticket, journey,
                   start, historyVars>>

\* The run is recorded at the platform, and the train goes to the next one.
Leave(t) ==
    LET p == PlatformOf(t)
        last == Next_Stage[t] = Len(Route[t])
    IN
    /\ place[t] = "boarding" /\ turns[t] = 0
    /\ place' = [place EXCEPT ![t] = "track"]
    /\ Next_Stage' = [Next_Stage EXCEPT ![t] = IF last THEN 1 ELSE @ + 1]
    /\ IF t \in FB
       THEN /\ Train_Run' = [Train_Run EXCEPT ![p][t] = Current_Run_Id[t]]
            /\ left' = [left EXCEPT ![p][t] = round[t]]
            /\ round' = [round EXCEPT ![t] = IF last THEN @ + 1 ELSE @]
       ELSE UNCHANGED <<Train_Run, historyVars>>
    /\ UNCHANGED <<turns, Occupied_Sits, timeTableVars, queueVars, travelerVars>>
-----------------------------------------------------------------------------
TrainNext(t) ==
    \/ Enter(t) \/ StaySeated(t) \/ Alight(t) \/ Stop(t)
    \/ t \in FB /\ TimeComes(t)
    \/ BeginExit(t) \/ SendAway(t) \/ KeepWaiting(t) \/ Board(t) \/ Leave(t)

Next ==
    \/ \E f \in FB : Tick(f)
    \/ \E v \in Travelers : Buy(v) \/ Wait_For_Train_To_Go(v)
    \/ \E t \in Trains : TrainNext(t)

Spec == Init /\ [][Next]_vars
-----------------------------------------------------------------------------
Positions(q, v) == {i \in DOMAIN q : q[i] = v}

\* Every traveller is in one place: a waiting one in exactly one queue, at the
\* platform its ticket names, and in no queue while an operation of its own is
\* to be executed; so no operation is lost and none is executed twice.
TravelerInOnePlace ==
    \A v \in Travelers, p \in Platforms :
        /\ Cardinality(Positions(Leaving_Queue[p], v)) =
              IF where[v] = "waiting" /\ Head(ticket[v]).from = p THEN 1 ELSE 0
        /\ Cardinality(Positions(Arrival_Queue[p], v)) =
              IF where[v] = "riding" /\ Head(ticket[v]).to = p THEN 1 ELSE 0

\* The occupied seats of a train are the travellers that ride it.
SeatsMatchRiders ==
    \A t \in Trains : Occupied_Sits[t] =
        Cardinality({v \in Travelers : where[v] = "riding" /\ Head(ticket[v]).train = t})

\* Travellers are where the queues and the counts of seats say, and nowhere else.
TravelersAccounted == TravelerInOnePlace /\ SeatsMatchRiders

\* No train leaves a platform with a traveller whose stage ends there.
NobodyCarriedPast ==
    [][\A t \in Trains, v \in Travelers :
          place[t] = "boarding" /\ place'[t] = "track" =>
            ~(where[v] = "riding" /\ Head(ticket[v]).train = t
              /\ Head(ticket[v]).to = PlatformOf(t))]_vars

BoardsFB(v) ==
    where[v] = "waiting" /\ where'[v] = "riding" /\ Head(ticket[v]).run > 0

\* Perform_Exit sends a traveller away only if the train was recorded at the platform
\* in a later run than the booked one (l.291), so travellers board other runs too: at
\* most one run late, and at most two runs early (SelectedRun reads a time table that
\* is one run ahead of its train, and of which the next departure may be past).
BoardsNearItsRun ==
    [][\A v \in Travelers : BoardsFB(v) =>
          LET r == round[Head(ticket[v]).train]
              booked == Head(ticket[v]).run
          IN booked <= r + 2 /\ r <= booked + 1]_vars

\* Travellers alight where their stage ends, and board no run further from the one they
\* booked than one run late or two early.
TravelersServed == NobodyCarriedPast /\ BoardsNearItsRun

\* A traveller boards a booked train in the booked run: it has lost the train if "the
\* current train's run is NOT the same" (platform.adb l.289).
BoardsBookedRun ==
    [][\A v \in Travelers : BoardsFB(v) =>
          round[Head(ticket[v]).train] = Head(ticket[v]).run]_vars

\* A traveller is told that another train, the one it booked, is lost only if
\* that train has left this platform in the booked run (platform.adb l.272).
LostOnlyAfterDeparture ==
    [][\A v \in Travelers, t \in Trains :
          /\ BoardingTurn(t) /\ where[v] = "waiting" /\ where'[v] = "buying"
          /\ Head(ticket[v]).train # t
          => left[start'[v]][Head(ticket[v]).train] >= Head(ticket[v]).run]_vars
=============================================================================
