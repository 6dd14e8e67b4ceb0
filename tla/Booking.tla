------------------------------ MODULE Booking -------------------------------
(***************************************************************************)
(* Runs and seats of the FB trains: the BookingManager actor of the central  *)
(* ticket office (central_ticket_office/src/BookingManager.scala), which     *)
(* sells seats of a run, and the time table of each train                    *)
(* (railway/src/time_table.adb, central_office_interface.adb), which tells   *)
(* the office when a run ends.  The actor handles one message at a time.     *)
(*                                                                         *)
(* The rows of a table of departures are numbered by the round the train     *)
(* makes: row i holds round i when the system starts, and the dates that     *)
(* UpdateRun computes for the rows behind the first are those of the next    *)
(* rounds.  due counts the departures of a route whose date has come.        *)
(* A call that a node makes to the office may fail, before or after the      *)
(* office has handled it; Message_Agent.Send does not repeat it.             *)
(***************************************************************************)
EXTENDS Naturals, Sequences, FiniteSets

CONSTANTS Routes,    \* the routes of the FB trains
          Legs,      \* per route, its stages: stations from and to, and node
          Runs,      \* per route, the rows of its table
          Sits,      \* Train.sitsNumber
          Refill,    \* the number of seats UpdateRun writes into new rows
          Requests,  \* the tickets travellers ask for
          Offers,    \* what they may ask for: sequences of ticket stages
          MaxDue,    \* bound: per route, the departures that come due
          MaxLate    \* bound: how many of them the train may lag behind

BookingAssumption ==
    /\ Runs \in [Routes -> Nat \ {0, 1}]
    /\ \A r \in Routes : Len(Legs[r]) \in Nat \ {0}
    /\ Sits \in Nat /\ Refill \in Nat
    /\ MaxDue \in [Routes -> Nat] /\ MaxLate \in Nat

VARIABLES
    current_run, current_run_id, table, bookingSits,       \* BookingManager
    Current_Run, Current_Run_Id, Current_Run_Cursor, Table, \* Time_Table of the train
    train,    \* per route: "running", "calling" the office, or "dropped"
    call,     \* the call of each train: its argument, then the reply
    due,
    asked,    \* per request: the stages and the time of the request
    ticket,   \* per request: "none", "asked", "refused" or the stages granted
    failed    \* history: the routes of which a call failed

officeVars == <<current_run, current_run_id, table>>
tableVars == <<Current_Run, Current_Run_Id, Current_Run_Cursor, Table>>
trainVars == <<tableVars, train, call, failed>>
ticketVars == <<asked, ticket>>
vars == <<officeVars, bookingSits, trainVars, due, ticketVars>>

Entries(r) == Len(Legs[r])
Rows(r) == 0..(Runs[r] - 1)

Nothing == [kind |-> "none"]

Init ==
    /\ current_run = [r \in Routes |-> 0]
    /\ current_run_id = [r \in Routes |-> 0]
    /\ table = [r \in Routes |-> [i \in Rows(r) |-> i + 1]]
    /\ bookingSits = [r \in Routes |-> [i \in Rows(r) |-> [j \in 1..Entries(r) |-> Sits]]]
    /\ Current_Run = [r \in Routes |-> 1]
    /\ Current_Run_Id = [r \in Routes |-> 1]
    /\ Current_Run_Cursor = [r \in Routes |-> 1]
    /\ Table = table
    /\ train = [r \in Routes |-> "running"]
    /\ call = [r \in Routes |-> Nothing]
    /\ due = [r \in Routes |-> 0]
    /\ asked = [q \in Requests |-> Nothing]
    /\ ticket = [q \in Requests |-> Nothing]
    /\ failed = {}

\* The date of departure j of a round.
Date(r, round, j) == (round - 1) * Entries(r) + j
-----------------------------------------------------------------------------
(* Mutations of definitions below, for the runs that test the properties.     *)
ForgetLastRow(r) == [i \in Rows(r) |-> [j \in 1..Entries(r) |-> Refill]]
LeavesWhenever(r, j, at) == TRUE
-----------------------------------------------------------------------------
(* The trains.                                                               *)

HasRow(r) == Current_Run[r] - 1 \in Rows(r)

\* The departures of its route that the train has made, counted.
Made(r) ==
    IF HasRow(r) THEN Date(r, Table[r][Current_Run[r] - 1], Current_Run_Cursor[r]) - 1
                 ELSE MaxDue[r]

Tick(r) ==
    /\ due[r] < MaxDue[r] /\ due[r] < Made(r) + MaxLate
    /\ due' = [due EXCEPT ![r] = @ + 1]
    /\ UNCHANGED <<officeVars, bookingSits, trainVars, ticketVars>>

\* The train departs when its time has come: Update_Time_Table, within a run.
Depart(r) ==
    /\ train[r] = "running" /\ HasRow(r)
    /\ Date(r, Table[r][Current_Run[r] - 1], Current_Run_Cursor[r]) <= due[r]
    /\ Current_Run_Cursor[r] < Entries(r)
    /\ Current_Run_Cursor' = [Current_Run_Cursor EXCEPT ![r] = @ + 1]
    /\ UNCHANGED <<officeVars, bookingSits, Current_Run, Current_Run_Id, Table, train,
                   call, failed, due, ticketVars>>

\* At the last departure of a run it calls Update_Run.
EndRun(r) ==
    /\ train[r] = "running" /\ HasRow(r)
    /\ Date(r, Table[r][Current_Run[r] - 1], Current_Run_Cursor[r]) <= due[r]
    /\ Current_Run_Cursor[r] = Entries(r)
    /\ Current_Run_Cursor' = [Current_Run_Cursor EXCEPT ![r] = 1]
    /\ Current_Run' = [Current_Run EXCEPT ![r] = @ + 1]
    /\ train' = [train EXCEPT ![r] = "calling"]
    /\ call' = [call EXCEPT ![r] = [kind |-> "update_run", run |-> Current_Run[r] + 1]]
    /\ UNCHANGED <<officeVars, bookingSits, Current_Run_Id, Table, failed, due, ticketVars>>

RunAfterUpdate(r) == 1

\* The callback of Update_Run; an error has none.
TakeReply(r) ==
    /\ train[r] = "calling" /\ call[r].kind \in {"OK", "UPDATED", "ERROR"}
    /\ \/ /\ call[r].kind = "UPDATED"
          /\ Current_Run' = [Current_Run EXCEPT ![r] = RunAfterUpdate(r)]
          /\ Current_Run_Id' = [Current_Run_Id EXCEPT ![r] = call[r].run_id]
          /\ Table' = [Table EXCEPT ![r] = call[r].new_time_table]
       \/ /\ call[r].kind = "OK"
          /\ Current_Run_Id' = [Current_Run_Id EXCEPT ![r] = call[r].run_id]
          /\ UNCHANGED <<Current_Run, Table>>
       \/ /\ call[r].kind = "ERROR"
          /\ UNCHANGED <<Current_Run, Current_Run_Id, Table>>
    /\ train' = [train EXCEPT ![r] = "running"]
    /\ call' = [call EXCEPT ![r] = Nothing]
    /\ UNCHANGED <<officeVars, bookingSits, Current_Run_Cursor, failed, due, ticketVars>>

\* The message, or its reply, is lost: rejected, abandoned or never sent.
CallFails(r) ==
    /\ train[r] = "calling"
    /\ train' = [train EXCEPT ![r] = "running"]
    /\ call' = [call EXCEPT ![r] = Nothing]
    /\ failed' = failed \cup {r}
    /\ UNCHANGED <<officeVars, bookingSits, tableVars, due, ticketVars>>

\* Reading a row the table does not have raises an exception in the task of the
\* train, which drops it.
Drop(r) ==
    /\ train[r] = "running" /\ ~HasRow(r)
    /\ train' = [train EXCEPT ![r] = "dropped"]
    /\ UNCHANGED <<officeVars, bookingSits, tableVars, call, failed, due, ticketVars>>
-----------------------------------------------------------------------------
(* BookingManager, UpdateRun.                                                *)

Answer(r, reply) == call' = [call EXCEPT ![r] = reply]

LastRow(r) == Runs[r] - 1
RowAfter(r, run) == IF run = LastRow(r) THEN 0 ELSE run
IdAfter(r, run) == current_run_id[r] + 1

\* The last row becomes the first; the seats of the others are new.
SeatsCarried(r) ==
    [i \in Rows(r) |-> IF i = 0 THEN bookingSits[r][LastRow(r)]
                                ELSE [j \in 1..Entries(r) |-> Refill]]

UpdateRunError(r) ==
    /\ call[r].kind = "update_run" /\ call[r].run - 1 \notin Rows(r)
    /\ Answer(r, [kind |-> "ERROR"])
    /\ UNCHANGED <<officeVars, bookingSits, tableVars, train, failed, due, ticketVars>>

UpdateRun(r) ==
    LET run == call[r].run - 1
        row0 == table[r][LastRow(r)]
        newTable == [i \in Rows(r) |-> row0 + i]
    IN
    /\ call[r].kind = "update_run" /\ run \in Rows(r)
    /\ current_run' = [current_run EXCEPT ![r] = RowAfter(r, run)]
    /\ current_run_id' = [current_run_id EXCEPT ![r] = IdAfter(r, run)]
    /\ \/ /\ run = LastRow(r)
          /\ bookingSits' = [bookingSits EXCEPT ![r] = SeatsCarried(r)]
          /\ table' = [table EXCEPT ![r] = newTable]
          /\ Answer(r, [kind |-> "UPDATED", run_id |-> IdAfter(r, run) + 1,
                        new_time_table |-> newTable])
       \/ /\ run # LastRow(r)
          /\ UNCHANGED <<bookingSits, table>>
          /\ Answer(r, [kind |-> "OK", run_id |-> IdAfter(r, run) + 1])
    /\ UNCHANGED <<tableVars, train, failed, due, ticketVars>>
-----------------------------------------------------------------------------
(* BookingManager, Validate.                                                 *)

\* A traveller asks; the date of the request is that moment's.
Ask(q) ==
    /\ ticket[q].kind = "none"
    /\ \E o \in Offers : asked' = [asked EXCEPT ![q] = [stages |-> o, at |-> due]]
    /\ ticket' = [ticket EXCEPT ![q] = [kind |-> "asked"]]
    /\ UNCHANGED <<officeVars, bookingSits, trainVars, due>>

SearchHalf(r) == 1..(Entries(r) \div 2)

\* The stages of the route at which a ticket stage may begin and end, looked for
\* in one half of the route.
Begins(s, half) ==
    {i \in half : Legs[s.route][i].from = s.from /\ Legs[s.route][i].node = s.node}
Finishes(s, half) ==
    {i \in half : Legs[s.route][i].to = s.to /\ Legs[s.route][i].node = s.node}

LastOf(S, none) == IF S = {} THEN none ELSE CHOOSE i \in S : \A j \in S : j <= i

\* firstIndex and secondIndex of ticket stage s; 0 for none.
Indexes(s) ==
    LET half == SearchHalf(s.route)
        rest == (1..Entries(s.route)) \ half
        first == LastOf(Begins(s, half), 0)
        second == LastOf(Finishes(s, half), 0)
    IN IF first > second \/ first = 0 \/ second = 0
       THEN <<LastOf(Begins(s, rest), first), LastOf(Finishes(s, rest), second)>>
       ELSE <<first, second>>

LeavesAfter(r, j, at) == Date(r, table[r][current_run[r]], j) > at

\* The run, of 0 for the current and 1 for the next one, of ticket stage s.
SelectedRun(s, at) ==
    IF LeavesAfter(s.route, Indexes(s)[1], at[s.route]) THEN 0 ELSE 1

\* The first of the ticket stages on route r: its run is that of all of them.
FirstOn(stages, r) ==
    CHOOSE i \in DOMAIN stages :
        stages[i].route = r /\ \A k \in 1..(i - 1) : stages[k].route # r
LastOn(stages, r) ==
    CHOOSE i \in DOMAIN stages :
        stages[i].route = r /\ \A k \in (i + 1)..Len(stages) : stages[k].route # r

RoutesOf(stages) == {stages[i].route : i \in DOMAIN stages}

Selected(a, r) == SelectedRun(a.stages[FirstOn(a.stages, r)], a.at)

Available(a) ==
    \A i \in DOMAIN a.stages :
        LET r == a.stages[i].route
        IN \A j \in Indexes(a.stages[i])[1]..Indexes(a.stages[i])[2] :
              bookingSits[r][current_run[r] + Selected(a, r)][j] > 0

\* The stages of the route of which a seat is taken.
Taken(a, r) ==
    Indexes(a.stages[FirstOn(a.stages, r)])[1]..Indexes(a.stages[LastOn(a.stages, r)])[2]

Grant(q) ==
    LET a == asked[q] IN
    /\ ticket[q].kind = "asked" /\ Available(a)
    /\ bookingSits' =
          [r \in Routes |-> [i \in Rows(r) |-> [j \in 1..Entries(r) |->
              IF /\ r \in RoutesOf(a.stages) /\ i = current_run[r] + Selected(a, r)
                 /\ j \in Taken(a, r)
              THEN bookingSits[r][i][j] - 1 ELSE bookingSits[r][i][j]]]]
    /\ ticket' = [ticket EXCEPT ![q] = [kind |-> "granted", seats |->
          [r \in RoutesOf(a.stages) |->
              [round |-> table[r][current_run[r] + Selected(a, r)],
               run_number |-> current_run_id[r] + Selected(a, r) + 1,
               first |-> Indexes(a.stages[FirstOn(a.stages, r)])[1],
               last |-> Indexes(a.stages[LastOn(a.stages, r)])[2]]]]]
    /\ UNCHANGED <<officeVars, trainVars, due, asked>>

Refuse(q) ==
    /\ ticket[q].kind = "asked" /\ ~Available(asked[q])
    /\ ticket' = [ticket EXCEPT ![q] = [kind |-> "refused"]]
    /\ UNCHANGED <<officeVars, bookingSits, trainVars, due, asked>>
-----------------------------------------------------------------------------
Next ==
    \/ \E r \in Routes :
          \/ Tick(r) \/ Depart(r) \/ EndRun(r) \/ TakeReply(r) \/ CallFails(r) \/ Drop(r)
          \/ UpdateRun(r) \/ UpdateRunError(r)
    \/ \E q \in Requests : Ask(q) \/ Grant(q) \/ Refuse(q)

Spec == Init /\ [][Next]_vars
-----------------------------------------------------------------------------
(* What tickets are asked for.                                               *)

Halves(r) == {SearchHalf(r), (1..Entries(r)) \ SearchHalf(r)}

\* No half of a route leaves, or reaches, a station of a node twice; a ticket stage
\* lies within a half of its route, and the ticket's stages of a route follow it.
OffersFit ==
    /\ \A r \in Routes : \A half \in Halves(r) : \A i, j \in half :
          /\ Legs[r][i].node = Legs[r][j].node
          /\ Legs[r][i].from = Legs[r][j].from \/ Legs[r][i].to = Legs[r][j].to
          => i = j
    /\ \A o \in Offers :
          /\ Len(o) \in Nat /\ DOMAIN o = 1..Len(o)
          /\ \A k \in DOMAIN o :
                /\ o[k].route \in Routes
                /\ \E half \in Halves(o[k].route) :
                      \E i \in Begins(o[k], half), j \in Finishes(o[k], half) : i <= j
          /\ \A k, l \in DOMAIN o :
                k <= l /\ o[k].route = o[l].route => Indexes(o[k])[1] <= Indexes(o[l])[2]
-----------------------------------------------------------------------------
Granted(r) == {q \in Requests : ticket[q].kind = "granted" /\ r \in DOMAIN ticket[q].seats}

\* The seats left of every row of every table are those not sold for its round,
\* over any number of roll-overs of the table and whatever calls fail: no seat
\* is sold twice, none is lost, and a refused ticket takes none.
SeatsAccounted ==
    \A r \in Routes : \A i \in Rows(r), j \in 1..Entries(r) :
        bookingSits[r][i][j] +
            Cardinality({q \in Granted(r) : ticket[q].seats[r].round = table[r][i]
                            /\ j \in ticket[q].seats[r].first..ticket[q].seats[r].last})
        = Sits

\* While no call of its train has failed, train and office agree on the run, its
\* number and the table whenever no call is under way, and the train never
\* leaves its table.
RunsAgree ==
    \A r \in Routes \ failed :
        /\ train[r] # "dropped"
        /\ train[r] = "running" =>
              /\ Current_Run[r] = current_run[r] + 1
              /\ Current_Run_Id[r] = current_run_id[r] + 1
              /\ Table[r] = table[r]

\* While no call has failed, all the tickets for one round of a train carry the
\* number the train itself has in that round (platform.adb compares the two).
NumberOfRound ==
    \A r \in Routes \ failed :
        /\ \A q \in Granted(r) : ticket[q].seats[r].run_number = ticket[q].seats[r].round
        /\ train[r] = "running" => Current_Run_Id[r] = Table[r][Current_Run[r] - 1]

\* A ticket is not granted for a departure that the train has made before the
\* traveller asked, nor for the wrong stages of an out-and-back route: it begins
\* and ends where the traveller wants to.
BookedAhead ==
    [][\A q \in Requests : \A r \in Routes \ failed :
          q \notin Granted(r) /\ q \in Granted(r)' =>
             LET seat == ticket'[q].seats[r]
                 stages == asked[q].stages
             IN /\ Legs[r][seat.first].from = stages[FirstOn(stages, r)].from
                /\ Legs[r][seat.last].to = stages[LastOn(stages, r)].to
                /\ seat.first <= seat.last
                /\ \/ Date(r, seat.round, seat.first) > asked[q].at[r]
                   \/ Date(r, seat.round, seat.first) > Made(r)]_vars

\* Seats are accounted for; office, train and tickets agree on the runs.
TablesAgree == SeatsAccounted /\ RunsAgree /\ NumberOfRound
=============================================================================
