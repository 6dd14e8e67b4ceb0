--------------------------- MODULE MCYamiFrames ---------------------------
(* What peers send in the instances of YamiGroup: a message of one frame between the two
   of another, frames in any order, and what they should not: a frame of no words, a
   header too long.  *)
EXTENDS YamiChannel

Long == Frames("p", "p", 1, 2, 0)
Short == Frames("q", "q", 1, 1, 1)
Empty == [Short[1] EXCEPT !.id = "r", !.size = 0]
LongHeader == [Short[1] EXCEPT !.id = "r", !.head = 2]
=============================================================================
