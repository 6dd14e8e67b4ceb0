--------------------------- MODULE YamiChannel ---------------------------
(***************************************************************************)
(* A channel of the YAMI4 core library (lib/yami4-gpl-1.6.0/src/core,      *)
(* channel.cpp): the record that a channel group keeps for one connection, *)
(* and what each member function makes of it while the group's mutex is    *)
(* held.  A function that gives the mutex up to call user code is split    *)
(* here in the parts before and after the call (YamiGroup has the calls).  *)
(*                                                                         *)
(* Bytes are counted in words and carry no values.  A frame of a message   *)
(* is known by the message and its number in it.                           *)
(***************************************************************************)
EXTENDS Naturals, Sequences, SequencesExt

CONSTANTS
  FramePayload, (* words of payload of a full frame (preferred_frame_size) *)
  HeadSize      (* words of the header of a frame: 4 in the code           *)

ASSUME SizesAreNatural ==
  /\ FramePayload \in Nat \ {0}
  /\ HeadSize \in Nat \ {0}

Smaller(a, b) == IF a < b THEN a ELSE b
Monus(a, b) == IF a > b THEN a - b ELSE 0

-----------------------------------------------------------------------------
(* Mutations of definitions below, for the runs that test the properties.  *)

(* A channel closed for good keeps the reference of the table.             *)
HardCloseKept(ch) == [ch EXCEPT !.mode = "hard_close", !.refs = @ + 1]

(* The first frame of a queue is passed as any other.                      *)
InsertionPointAnywhere(out, priority) ==
  Len(SelectSeq(out, LAMBDA f : f.prio >= priority))

(* The last frame is taken for the end of the message, gaps or not.        *)
CompleteByLast(list) == list.check

-----------------------------------------------------------------------------
(* A message on its way out is cut in frames.                              *)

(* Sizes of the payloads of the frames of a message.                       *)
NumberOfFrames(total) == (total + FramePayload - 1) \div FramePayload
SizeOfLastFrame(total) == ((total - 1) % FramePayload) + 1

(* The frames of message m, as they are put into the outgoing queue and as
   they arrive at a peer that cuts its messages in the same way.           *)
Frames(m, id, head, body, priority) ==
  LET total == head + body
      last == NumberOfFrames(total)
  IN [i \in 1 .. last |->
        [msg |-> m, id |-> id, num |-> i, last |-> i = last, head |-> head,
         size |-> IF i = last THEN SizeOfLastFrame(total) ELSE FramePayload,
         prio |-> priority, close |-> FALSE]]

(* The frame that ends the outgoing queue of a channel being closed.  The code
   leaves its priority unset, and nothing is inserted once it is there.    *)
Pill(m) == [msg |-> m, id |-> 0, num |-> 0, last |-> FALSE, head |-> 0, size |-> 0,
            prio |-> 0, close |-> TRUE]

-----------------------------------------------------------------------------
(* The record of a channel.                                                *)

NewChannel(target, datagram, direction) ==
  [target |-> target, datagram |-> datagram, direction |-> direction, refs |-> 1,
   mode |-> "operational", out |-> <<>>, offset |-> 0,
   inState |-> "header", readOffset |-> 0, payload |-> FALSE, lists |-> <<>>]

(* Directions of I/O the channel asks the selector to watch.               *)
WantsInput(ch) == ch.direction \in {"input", "inout"}
WantsOutput(ch) == ch.direction \in {"output", "inout"} /\ ch.out # <<>>

(* Length of the part of the queue that stays in front of new frames: the
   first frame stays whatever its priority.                                *)
InsertionPoint(out, priority) ==
  IF out = <<>> THEN 0
  ELSE IF priority <= Last(out).prio THEN Len(out)
  ELSE CHOOSE p \in 1 .. Len(out) :
         /\ p = Len(out) \/ out[p + 1].prio < priority
         /\ \A i \in 2 .. p : out[i].prio >= priority

Before(out, priority) == SubSeq(out, 1, InsertionPoint(out, priority))
After(out, priority) == SubSeq(out, InsertionPoint(out, priority) + 1, Len(out))

Insert(ch, frames, priority) ==
  [ch EXCEPT !.out = Before(@, priority) \o frames \o After(@, priority)]

(* Closing a channel that has frames to send: the pill goes in as a message
   would and everything behind it is cut off.                              *)
CutOff(ch, priority) == After(ch.out, priority)
InsertPill(ch, m, priority) ==
  [ch EXCEPT !.out = Append(Before(@, priority), Pill(m)), !.mode = "soft_close"]

(* The messages whose sender must be told that they will not be sent.      *)
Cancelled(frames) ==
  {frames[i].msg : i \in {j \in 1 .. Len(frames) : ~frames[j].close /\ frames[j].last}}

HardClose(ch) == [ch EXCEPT !.mode = "hard_close"]

(* Everything that has been read of messages not yet complete is dropped.  *)
CleanIncoming(ch) == [ch EXCEPT !.payload = FALSE, !.lists = <<>>]

-----------------------------------------------------------------------------
(* Output.                                                                 *)

(* n words of the first frame are written.                                 *)
Written(ch, n) == [ch EXCEPT !.offset = @ + n]
RestOfFrame(ch) == Head(ch.out).size + HeadSize - ch.offset

(* The first frame was sent and its sender has been told.                  *)
ConsumeFrame(ch) == [ch EXCEPT !.out = Tail(@), !.offset = 0]

-----------------------------------------------------------------------------
(* Input.  frame is the one being read from the stream.                    *)

RestOfInput(ch, frame) ==
  (IF ch.inState = "header" THEN HeadSize ELSE frame.size) - ch.readOffset

(* A payload of no words, or not of whole ones, ends the connection.       *)
PayloadAcceptable(frame) == frame.size # 0

PartRead(ch, n) == [ch EXCEPT !.readOffset = @ + n]
BeginPayload(ch) ==
  [ch EXCEPT !.readOffset = 0, !.inState = "payload", !.payload = TRUE]
FrameRead(ch) == [ch EXCEPT !.readOffset = 0, !.inState = "header"]

IsShort(frame) == frame.num = 1 /\ frame.last
ShortAcceptable(frame) == frame.head < frame.size

Piece(frame) == [num |-> frame.num, size |-> frame.size]

HasList(ch, id) == \E k \in 1 .. Len(ch.lists) : ch.lists[k].id = id
ListOf(ch, id) == CHOOSE k \in 1 .. Len(ch.lists) :
                    /\ ch.lists[k].id = id
                    /\ \A j \in 1 .. k - 1 : ch.lists[j].id # id

(* A frame of a message not seen before starts a list of its own.          *)
WithNewList(ch, frame) ==
  [ch EXCEPT !.lists = Append(@, [id |-> frame.id, head |-> frame.head,
                                  check |-> frame.last, frames |-> <<Piece(frame)>>])]

(* Other frames are put in by their number.  Only a frame that is put at the
   end can say that the last one has come; the size of the message's header
   is taken from frame 1.                                                  *)
AtEnd(list, frame) == frame.num >= Last(list.frames).num

InFrontOf(list, frame) ==
  CHOOSE p \in 1 .. Len(list.frames) :
    /\ list.frames[p].num > frame.num
    /\ \A i \in 1 .. p - 1 : list.frames[i].num <= frame.num

WithFrame(list, frame) ==
  IF AtEnd(list, frame)
  THEN [list EXCEPT !.frames = Append(@, Piece(frame)), !.check = @ \/ frame.last]
  ELSE [list EXCEPT !.frames = InsertAt(@, InFrontOf(list, frame), Piece(frame)),
                    !.head = IF frame.num = 1 THEN frame.head ELSE @]

StoreFrame(ch, frame) ==
  IF HasList(ch, frame.id)
  THEN [ch EXCEPT !.payload = FALSE, !.lists[ListOf(ch, frame.id)] = WithFrame(@, frame)]
  ELSE [WithNewList(ch, frame) EXCEPT !.payload = FALSE]

(* Whether a list is a whole message: the numbers are 1, 2, ... to the end. *)
Complete(list) ==
  list.check /\ \A i \in 1 .. Len(list.frames) : list.frames[i].num = i

WithoutList(ch, id) == [ch EXCEPT !.lists = RemoveAt(@, ListOf(ch, id))]

(* The buffers handed to the user: the frames up to the one in which the
   header ends give it their words, that one and those behind it the body. *)
WordsUpTo(frames, i) == FoldLeft(LAMBDA sum, f : sum + f.size, 0, SubSeq(frames, 1, i))
HeaderPart(list, i) ==
  Smaller(list.frames[i].size, Monus(list.head, WordsUpTo(list.frames, i - 1)))
BodyPart(list, i) == list.frames[i].size - HeaderPart(list, i)

HeaderBuffers(list) ==
  SelectSeq([i \in 1 .. Len(list.frames) |-> HeaderPart(list, i)], LAMBDA n : n > 0)
BodyBuffers(list) ==
  SelectSeq([i \in 1 .. Len(list.frames) |-> BodyPart(list, i)], LAMBDA n : n > 0)

AsList(frame) == [id |-> frame.id, head |-> frame.head, check |-> TRUE,
                  frames |-> <<Piece(frame)>>]

(* What the user is given of a complete message.                           *)
Delivery(list) == [id |-> list.id, header |-> HeaderBuffers(list), body |-> BodyBuffers(list)]

=============================================================================
