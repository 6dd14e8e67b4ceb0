---------------------------- MODULE OneWayTrack ----------------------------
(***************************************************************************)
(* What a segment promises its trains, whatever the entries, guards and      *)
(* retry counters it is built from: trains line up at the two ends, enter in *)
(* the order of their line, never meet a train that comes the other way,     *)
(* leave in the order in which they entered, and are handed to the station   *)
(* they run towards in that order.                                          *)
(***************************************************************************)
EXTENDS Sequences

CONSTANTS Travellers,   \* the trains that use the track
          Ends,         \* its two ends
          Other(_)      \* the other end

VARIABLES line,       \* per end, the trains that wait to enter there
          track,      \* the trains on the track, the first to leave first
          direction,  \* the end from which the trains on the track came
          exits       \* per end, the trains that left the track there

trackStateVars == <<line, track, direction, exits>>

Start ==
    /\ line = [e \in Ends |-> <<>>]
    /\ track = <<>>
    /\ direction \notin Ends
    /\ exits = [e \in Ends |-> <<>>]

LineUp(t, e) ==
    /\ line' = [line EXCEPT ![e] = Append(@, t)]
    /\ UNCHANGED <<track, direction, exits>>

GoIn(e) ==
    /\ line[e] # <<>>
    /\ track # <<>> => direction = e
    /\ line' = [line EXCEPT ![e] = Tail(@)]
    /\ track' = Append(track, Head(line[e]))
    /\ direction' = e
    /\ UNCHANGED exits

GoOut ==
    /\ track # <<>>
    /\ track' = Tail(track)
    /\ exits' = [exits EXCEPT ![Other(direction)] = Append(@, Head(track))]
    /\ UNCHANGED <<line, direction>>

TakeOver(e) ==
    /\ exits[e] # <<>>
    /\ exits' = [exits EXCEPT ![e] = Tail(@)]
    /\ UNCHANGED <<line, track, direction>>

Move ==
    \/ \E t \in Travellers, e \in Ends : LineUp(t, e)
    \/ \E e \in Ends : GoIn(e) \/ TakeOver(e)
    \/ GoOut

TrackSpec == Start /\ [][Move]_trackStateVars
=============================================================================
