------------------------------- MODULE Office -------------------------------
(***************************************************************************)
(* The central ticket office: its requests and the end of the simulation      *)
(* (Termination), and the runs and seats it sells (Booking).  Both serve the   *)
(* same requests and share no state.                                         *)
(***************************************************************************)
EXTENDS Termination

CONSTANTS Routes, Legs, Runs, Sits, Refill, Offers, MaxDue, MaxLate

VARIABLES current_run, current_run_id, table, bookingSits, Current_Run, Current_Run_Id,
          Current_Run_Cursor, Table, train, call, due, asked, ticket, failed

Booked == INSTANCE Booking

ASSUME BookedAssumption == Booked!BookingAssumption

\* Seats, runs and numbers of office, trains and tickets agree (BookingManager.scala,
\* UpdateRun and Validate).
TablesAgree == Booked!TablesAgree

\* Tickets are for departures to come and for the stages asked for
\* (BookingManager.scala, Validate).
BookedAhead == Booked!BookedAhead
=============================================================================
