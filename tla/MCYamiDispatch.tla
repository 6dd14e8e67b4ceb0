--------------------------- MODULE MCYamiDispatch ---------------------------
EXTENDS YamiDispatch

(* Both messages are for one object.                                       *)
MCObjectName == [m \in Messages |-> "x"]
=============================================================================
