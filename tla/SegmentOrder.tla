---------------------------- MODULE SegmentOrder ----------------------------
(***************************************************************************)
(* Two history variables over Segment, the properties that need them, and    *)
(* the refinement of OneWayTrack.                                           *)
(***************************************************************************)
EXTENDS Segment

VARIABLES
    line,   \* per end, the registered trains that have not entered yet
    bypass  \* per end, how many trains entered opposite since one waits here

orderHistory == <<line, bypass>>

Entering(t) == pc[t] # "running" /\ pc'[t] = "running"
Registering(t) == pc[t] # "added" /\ pc'[t] = "added"

\* A train joins the line of the end it comes from when it registers itself;
\* one that enters makes the line of its end one train shorter.
LineAfter(e) ==
    LET new == {t \in Trains : origin[t] = e /\ Registering(t)}
    IN CASE new # {} -> Append(line[e], CHOOSE t \in new : TRUE)
         [] \E t \in Trains : Entering(t) /\ origin[t] = e -> Tail(line[e])
         [] OTHER -> line[e]

BypassAfter(e) ==
    CASE \E t \in Trains : Entering(t) /\ origin[t] = e -> 0
      [] \E t \in Trains : Entering(t) /\ origin[t] = Other(e) /\ waitQ[e] # <<>>
            -> bypass[e] + 1
      [] OTHER -> bypass[e]

HistoryInit ==
    /\ Init
    /\ line = [e \in Ends |-> <<>>]
    /\ bypass = [e \in Ends |-> 0]

HistoryNext ==
    /\ Next
    /\ line' = [e \in Ends |-> LineAfter(e)]
    /\ bypass' = [e \in Ends |-> BypassAfter(e)]

HistorySpec ==
    /\ HistoryInit
    /\ [][HistoryNext]_<<vars, orderHistory>>
    /\ Fairness
-----------------------------------------------------------------------------
\* While trains wait at one end, at most Max trains enter from the other before
\* one of them does (segment.adb:118-126, the purpose of Max).
BoundedBypass == \A e \in Ends : bypass[e] <= Max

\* The segment implements the abstract track.
Track == INSTANCE OneWayTrack
         WITH Travellers <- Trains, track <- Running_Trains,
              direction <- Current_Direction, exits <- arrivals
ImplementsTrack == Track!TrackSpec
=============================================================================
