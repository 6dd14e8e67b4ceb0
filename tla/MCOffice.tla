------------------------------ MODULE MCOffice ------------------------------
(* The central ticket office: the end of the simulation, which it outlives, and the
   seats it sells for the runs of a train.  The parts share no state; a behaviour is
   one of one of them, and both are explored in one run. *)
EXTENDS Office, MCTermination

CONSTANTS A, C, D, G, shuttle, through

VARIABLES part   \* the part that runs

endVars == vars
bookingVars ==
    <<current_run, current_run_id, table, bookingSits, Current_Run, Current_Run_Id,
      Current_Run_Cursor, Table, train, call, due, asked, ticket, failed>>
allVars == <<part, endVars, bookingVars>>

-----------------------------------------------------------------------------
(* A route out and back between A and C whose table has three rows, and a route
   through two nodes, from A over G to D, whose train stands still; tickets for
   either way, for both parts of the second route, and for both routes at once. *)

Leg(x, y, n) == [from |-> x, to |-> y, node |-> n]
MCLegs == (shuttle :> <<Leg(A, C, n1), Leg(C, A, n1)>>)
          @@ (through :> <<Leg(A, G, n1), Leg(G, D, n2)>>)

Part(r, x, y, n) == [route |-> r, from |-> x, to |-> y, node |-> n]
MCOffers == {<<Part(shuttle, A, C, n1)>>, <<Part(shuttle, C, A, n1)>>,
             <<Part(through, A, G, n1), Part(through, G, D, n2)>>,
             <<Part(shuttle, C, A, n1), Part(through, A, G, n1), Part(through, G, D, n2)>>}

MCRoutes == {shuttle, through}
MCRuns == (shuttle :> 3) @@ (through :> 2)
MCMaxDue == (shuttle :> 6) @@ (through :> 0)

ASSUME OffersFitAssumption == Booked!OffersFit

-----------------------------------------------------------------------------
(* One part runs. *)

InPart(p) == part = p

\* The workers are alike: they wait in one order first, which stands for any.
MCInit ==
    /\ part \in {"end", "booking"}
    /\ waitingTicketCreationWorkers = <<w1, w2>>
    /\ Init /\ Booked!Init

MCNext ==
    /\ UNCHANGED part
    /\ \/ InPart("end") /\ Next /\ UNCHANGED bookingVars
       \/ InPart("booking") /\ Booked!Next /\ UNCHANGED endVars

\* Fairness of the end while it runs, as Termination states it.
EndFairness ==
    /\ WF_endVars(InPart("end") /\ OfficeStep(TestPending))
    /\ WF_endVars(InPart("end") /\ OfficeStep(ActorStep))
    /\ \A w \in Workers : WF_endVars(InPart("end") /\ OfficeStep(WorkerStep(w)))
    /\ WF_endVars(InPart("end") /\ ControllerStep)
    /\ \A n \in Nodes : /\ WF_endVars(InPart("end") /\ Notify_Termination(n))
                        /\ WF_endVars(InPart("end") /\ Remove(n))

MCSpec == MCInit /\ [][MCNext]_allVars /\ EndFairness

\* The state of the part that runs.
View == IF InPart("end") THEN <<part, endVars>> ELSE <<part, bookingVars>>
=============================================================================
