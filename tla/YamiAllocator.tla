--------------------------- MODULE YamiAllocator ---------------------------
(***************************************************************************)
(* The allocator of a YAMI4 agent or parameters object with a private area  *)
(* (lib/yami4-gpl-1.6.0/src/core/allocator.cpp): segments that tile the     *)
(* area, each with its header, and a doubly linked list of the free ones.   *)
(*                                                                         *)
(* Sizes and addresses are words, the area begins at address 1.             *)
(***************************************************************************)
EXTENDS Naturals, Sequences, FiniteSets

CONSTANTS
    AreaSize,       \* size of the private area
    HeaderSize,     \* words before the buffer of a segment
    SmallestSplit,  \* smallest_split_segment_size, with the header
    Requests        \* sizes the program asks for, rounded up to words

AllocatorAssumption ==
    /\ {AreaSize, HeaderSize, SmallestSplit} \subseteq Nat \ {0}
    /\ HeaderSize < SmallestSplit /\ SmallestSplit < AreaSize
    /\ Requests \subseteq Nat \ {0}

VARIABLES
    segments,   \* the headers, by their address
    firstFree,  \* first_free_segment_
    given,      \* segments whose buffer the program holds, and how many times
    stale       \* history: a split left the next free segment's prev_free_ behind

heapVars == <<segments, firstFree, given, stale>>

NoSegment == 0

Init ==
    /\ segments = [s \in {1} |-> [next |-> NoSegment, prev |-> NoSegment, free |-> TRUE,
                                  nextFree |-> NoSegment, prevFree |-> NoSegment]]
    /\ firstFree = 1
    /\ given = [s \in 1 .. AreaSize |-> 0]
    /\ stale = FALSE

-----------------------------------------------------------------------------
BufferSize(seg, s) ==
    (IF seg[s].next # NoSegment THEN seg[s].next ELSE AreaSize + 1) - (s + HeaderSize)

\* seg with a field of the segment at s set, when there is one.
With(seg, s, field, value) == IF s = NoSegment THEN seg ELSE [seg EXCEPT ![s][field] = value]

Without(seg, s) == [r \in DOMAIN seg \ {s} |-> seg[r]]

(* Mutations of definitions below, for the runs that test the properties.     *)
JoinNextNot(seg, s) == seg

-----------------------------------------------------------------------------
(* allocate: the first segment of the list that is big enough.               *)

\* The list as the links give it, as far as they lead to headers; a walk of more
\* steps than words goes round.
RECURSIVE ListFrom(_, _, _)
ListFrom(seg, s, steps) ==
    IF s \notin DOMAIN seg \/ steps = 0 THEN <<>> ELSE <<s>> \o ListFrom(seg, seg[s].nextFree, steps - 1)
FreeList == ListFrom(segments, firstFree, AreaSize)

FirstFit(n) ==
    LET fits == {k \in DOMAIN FreeList : BufferSize(segments, FreeList[k]) >= n}
    IN IF fits = {} THEN NoSegment ELSE FreeList[CHOOSE k \in fits : \A j \in fits : k <= j]

\* What remains becomes a segment when it can hold one.  The next free segment
\* still has this one before it, not the new one.
Split(s, n) ==
    LET r == s + HeaderSize + n
        new == [next |-> segments[s].next, prev |-> s, free |-> TRUE,
                nextFree |-> segments[s].nextFree, prevFree |-> s]
        seg == [t \in DOMAIN segments \cup {r} |-> IF t = r THEN new ELSE segments[t]]
    IN IF BufferSize(segments, s) - n < SmallestSplit THEN segments
       ELSE With([seg EXCEPT ![s].next = r, ![s].nextFree = r], new.next, "prev", r)

Unlinked(seg, s) ==
    With(With(seg, seg[s].prevFree, "nextFree", seg[s].nextFree),
         seg[s].nextFree, "prevFree", seg[s].prevFree)

Allocate(n) ==
    LET s == FirstFit(n)
        seg == [Split(s, n) EXCEPT ![s].free = FALSE]
    IN /\ s # NoSegment
       /\ segments' = Unlinked(seg, s)
       /\ firstFree' = IF seg[s].prevFree = NoSegment THEN seg[s].nextFree ELSE firstFree
       /\ given' = [given EXCEPT ![s] = @ + 1]
       /\ stale' = (stale \/ segments[s].nextFree \notin {NoSegment, seg[s].nextFree})

-----------------------------------------------------------------------------
(* deallocate: back to its place in the list, then joined with its neighbours. *)

Nearest(seg, s, S) ==
    IF S = {} THEN NoSegment
    ELSE CHOOSE r \in S : \A t \in S : IF r < s THEN t <= r ELSE r <= t

Linked(seg, s) ==
    LET free == {r \in DOMAIN seg \ {s} : seg[r].free}
        before == Nearest(seg, s, {r \in free : r < s})
        after == Nearest(seg, s, {r \in free : r > s})
    IN IF firstFree = NoSegment \/ s < firstFree
       THEN With([seg EXCEPT ![s].prevFree = NoSegment, ![s].nextFree = firstFree],
                 firstFree, "prevFree", s)
       ELSE With(With([seg EXCEPT ![s].prevFree = before, ![s].nextFree = after],
                      before, "nextFree", s), after, "prevFree", s)

\* The segment at s takes in the one after it.
Absorb(seg, s) ==
    LET r == seg[s].next
        joined == [seg EXCEPT ![s].next = seg[r].next, ![s].nextFree = seg[r].nextFree]
    IN Without(With(With(joined, seg[r].next, "prev", s), seg[r].nextFree, "prevFree", s), r)

JoinNext(seg, s) ==
    IF seg[s].next # NoSegment /\ seg[seg[s].next].free THEN Absorb(seg, s) ELSE seg

JoinPrevious(seg, s) ==
    IF seg[s].prev # NoSegment /\ seg[seg[s].prev].free THEN Absorb(seg, seg[s].prev) ELSE seg

\* The fatal failure of a segment that is the first of the list: no program that
\* frees what it was given meets it.
Deallocate(s) ==
    LET seg == Linked([segments EXCEPT ![s].free = TRUE], s)
    IN /\ given[s] > 0 /\ s # firstFree
       /\ segments' = JoinPrevious(JoinNext(seg, s), s)
       /\ firstFree' = IF firstFree = NoSegment \/ s < firstFree THEN s ELSE firstFree
       /\ given' = [given EXCEPT ![s] = @ - 1]
       /\ UNCHANGED stale

\* "iterate over the list of free segments and find the first that is big enough"
\* (allocator.cpp:115): no segment that the program holds is on the list, from
\* which it would be handed out again.
OnlyFreeOnList ==
    \A k \in DOMAIN FreeList : segments[FreeList[k]].free /\ given[FreeList[k]] = 0

\* The links of free segments lead to headers.
Intact ==
    {firstFree} \cup UNION {{segments[s].nextFree, segments[s].prevFree} :
                             s \in {r \in DOMAIN segments : segments[r].free}}
        \subseteq DOMAIN segments \cup {NoSegment}

\* Until one of them leads into the memory of the program, or a segment of the
\* program is on the list.
Next ==
    /\ Intact /\ OnlyFreeOnList
    /\ \/ \E n \in Requests : Allocate(n)
       \/ \E s \in DOMAIN segments : Deallocate(s)

Spec == Init /\ [][Next]_heapVars

-----------------------------------------------------------------------------
(* Properties.                                                               *)

\* Until a segment is split with a free one after it (line 151), no segment is handed
\* out twice, and no memory is lost or held in pieces when it could be whole: every
\* free segment is on the list, which goes up the area, and no two of them adjoin; so
\* when the program has freed all it was given the area is one free segment again.
AllFreeOnList ==
    ~stale =>
    /\ OnlyFreeOnList
    /\ \A s \in DOMAIN segments :
          segments[s].free => /\ \E k \in DOMAIN FreeList : FreeList[k] = s
                              /\ segments[s].next # NoSegment => ~segments[segments[s].next].free
    /\ \A k, j \in DOMAIN FreeList : k < j => FreeList[k] < FreeList[j]
    /\ (\A s \in DOMAIN given : given[s] = 0) =>
          DOMAIN segments = {1} /\ BufferSize(segments, 1) = AreaSize - HeaderSize
=============================================================================
