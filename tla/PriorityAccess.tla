--------------------------- MODULE PriorityAccess ---------------------------
(***************************************************************************)
(* Priority_Access_Controller (railway/src/priority_access.ad[bs]): the     *)
(* gate that a train passes before it registers itself in the order of a    *)
(* segment or of a platform.  FB trains are preferred to regional ones.     *)
(*                                                                         *)
(* A protected object serves the calls queued on its open entries before    *)
(* it takes a new call from outside; Settled says that none is left.        *)
(***************************************************************************)
EXTENDS Naturals, Sequences

CONSTANTS Trains,   \* the trains that use the gate
          FB        \* those of them whose T_Type is FB

ASSUME FBAssumption == FB \subseteq Trains

VARIABLES gateFree,       \* Free
          fbQueue,        \* the queue of entry Gain_Access_FB
          regionalQueue,  \* the queue of entry Gain_Access_Regional
          gate            \* where each train is: "out", "waiting" or "inside"

gateVars == <<gateFree, fbQueue, regionalQueue, gate>>

GateTypeOK ==
    /\ gateFree \in BOOLEAN
    /\ fbQueue \in Seq(FB)
    /\ regionalQueue \in Seq(Trains \ FB)
    /\ gate \in [Trains -> {"out", "waiting", "inside"}]

GateInit ==
    /\ gateFree = TRUE
    /\ fbQueue = <<>>
    /\ regionalQueue = <<>>
    /\ gate = [t \in Trains |-> "out"]

Settled == gateFree => fbQueue = <<>> /\ regionalQueue = <<>>

-----------------------------------------------------------------------------
(* Mutations of the definitions below, for the runs that test the properties. *)
AlwaysFree == TRUE

-----------------------------------------------------------------------------
\* The barrier of both entries asks whether the gate is free; that of the
\* regional one also whether an FB train is queued.
Barrier == gateFree
RegionalBarrier == fbQueue = <<>> /\ regionalQueue # <<>>

Requeue(t) ==
    \/ t \in FB /\ fbQueue' = Append(fbQueue, t) /\ UNCHANGED regionalQueue
    \/ t \notin FB /\ regionalQueue' = Append(regionalQueue, t) /\ UNCHANGED fbQueue

\* Gain_Access: its barrier is TRUE, so the call is requeued at once on the
\* entry of the train's class.
Gain_Access(t) ==
    /\ gate[t] = "out"
    /\ Settled
    /\ gate' = [gate EXCEPT ![t] = "waiting"]
    /\ Requeue(t)
    /\ UNCHANGED gateFree

Gain_Access_FB ==
    /\ Barrier
    /\ fbQueue # <<>>
    /\ gateFree' = FALSE
    /\ gate' = [gate EXCEPT ![Head(fbQueue)] = "inside"]
    /\ fbQueue' = Tail(fbQueue)
    /\ UNCHANGED regionalQueue

Gain_Access_Regional ==
    /\ Barrier
    /\ RegionalBarrier
    /\ gateFree' = FALSE
    /\ gate' = [gate EXCEPT ![Head(regionalQueue)] = "inside"]
    /\ regionalQueue' = Tail(regionalQueue)
    /\ UNCHANGED fbQueue

Admit == Gain_Access_FB \/ Gain_Access_Regional

FreeGate == gateFree' = TRUE

Access_Gained(t) ==
    /\ gate[t] = "inside"
    /\ FreeGate
    /\ gate' = [gate EXCEPT ![t] = "out"]
    /\ UNCHANGED <<fbQueue, regionalQueue>>

-----------------------------------------------------------------------------
GateNext ==
    \/ \E t \in Trains : Gain_Access(t) \/ Access_Gained(t)
    \/ Admit

\* The run-time system serves an open entry, and a train that holds the gate
\* gives it back after a bounded amount of code; a train need never ask for it.
GateSpec ==
    /\ GateInit
    /\ [][GateNext]_gateVars
    /\ WF_gateVars(Admit)
    /\ \A t \in Trains : WF_gateVars(Access_Gained(t))

-----------------------------------------------------------------------------
\* At most one train is between Gain_Access and Access_Gained, and Free is
\* FALSE exactly while one is.
GateExclusion ==
    /\ \A t, u \in Trains : gate[t] = "inside" /\ gate[u] = "inside" => t = u
    /\ gateFree <=> \A t \in Trains : gate[t] # "inside"
=============================================================================
