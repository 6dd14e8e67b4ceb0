----------------------- MODULE GatewayTransferProofs -----------------------
(***************************************************************************)
(* Proofs about GatewayTransfer: a train is executed at one place of one   *)
(* node, whichever messages and replies are lost and whenever nodes stop.  *)
(*                                                                         *)
(* Two kinds of rights are handed on and never copied: to execute a train, *)
(* and to tell a task that waits for a reply to go on.  The first is       *)
(* carried by a pool's queue, a task, a message "transfer" or its handler; *)
(* the second by a message "left" or its handler, as long as the task      *)
(* waits.  A reply that comes twice, or after its loss was noticed, would  *)
(* let a task go on with a train that runs elsewhere by then.              *)
(***************************************************************************)
EXTENDS GatewayTransfer, FiniteSetTheorems, SequenceTheorems, TLAPS

-----------------------------------------------------------------------------
(* Rights, and who carries them.                                           *)

TrainRight(t) == <<"train", t>>
AnswerRight(n, t) == <<"answer", <<n, t>>>>
NoRight == <<"none", "none">>

Rights == {TrainRight(t) : t \in Trains} \cup {AnswerRight(n, t) : n \in Nodes, t \in Trains}

\* What a message carries; a handler does until the train is put into the pool.
MessageRight(m) ==
    IF m.kind = "transfer" THEN TrainRight(m.train)
    ELSE IF m.by = 0 /\ m.awaited THEN AnswerRight(m.from, m.train)
    ELSE NoRight
HandlerRight(h) ==
    IF h.at # "transfer" /\ h.m.kind = "transfer" THEN NoRight ELSE MessageRight(h.m)

\* In a queue of trains, a queue of messages, a set of handlers.
InPool(q, c) == \E i \in DOMAIN q : TrainRight(q[i]) = c
InInbox(q, c) == \E i \in DOMAIN q : MessageRight(q[i]) = c
InHands(H, c) == \E h \in H : HandlerRight(h) = c
InTask(f, c) == \E t \in Trains : f[t] # "none" /\ TrainRight(t) = c

Kinds == {"pool", "task", "inbox", "handler"}

Carries(k, n, c) ==
    \/ k = "pool" /\ InPool(pool[n], c)
    \/ k = "task" /\ InTask(task[n], c)
    \/ k = "inbox" /\ InInbox(inbox[n], c)
    \/ k = "handler" /\ InHands(handling[n], c)

-----------------------------------------------------------------------------
(* The inductive invariant.                                                *)

PoolApart(q) == \A i, j \in DOMAIN q : q[i] = q[j] => i = j
InboxApart(q) ==
    \A i, j \in DOMAIN q :
        MessageRight(q[i]) = MessageRight(q[j]) /\ MessageRight(q[i]) # NoRight => i = j
HandsApart(H) ==
    \A g, h \in H : HandlerRight(g) = HandlerRight(h) /\ HandlerRight(g) # NoRight => g = h

\* No place carries a right twice.
PoolOnce == \A n \in Nodes : PoolApart(pool[n])
InboxOnce == \A n \in Nodes : InboxApart(inbox[n])
HandsOnce == \A n \in Nodes : HandsApart(handling[n])

\* No two places carry the same.
OneBearer ==
    \A c \in Rights, k, j \in Kinds, n, m \in Nodes :
        Carries(k, n, c) /\ Carries(j, m, c) => k = j /\ n = m

\* A task that somebody may tell to go on waits for it.
AnswersAwaited ==
    \A k \in Kinds, m, n \in Nodes, t \in Trains :
        Carries(k, m, AnswerRight(n, t)) => task[n][t] = "telling"

GatewayInv ==
    TypeOK /\ PoolOnce /\ InboxOnce /\ HandsOnce /\ OneBearer /\ AnswersAwaited

-----------------------------------------------------------------------------
(* Rights are known by what they are for.                                  *)

LEMMA RightsDiffer ==
    /\ \A t, u : TrainRight(t) = TrainRight(u) => t = u
    /\ \A n, m, t, u : AnswerRight(n, t) = AnswerRight(m, u) => n = m /\ t = u
    /\ \A n, t, u : AnswerRight(n, t) # TrainRight(u)
    /\ \A t : TrainRight(t) # NoRight
    /\ \A n, t : AnswerRight(n, t) # NoRight
    /\ \A t \in Trains : TrainRight(t) \in Rights
    /\ \A n \in Nodes, t \in Trains : AnswerRight(n, t) \in Rights
    /\ NoRight \notin Rights
<1>1. \A t, u : TrainRight(t) = TrainRight(u) => t = u
  BY DEF TrainRight
<1>2. \A n, m, t, u : AnswerRight(n, t) = AnswerRight(m, u) => n = m /\ t = u
  BY DEF AnswerRight
<1>3. \A n, t, u : AnswerRight(n, t) # TrainRight(u)
  BY DEF AnswerRight, TrainRight
<1>4. (\A t : TrainRight(t) # NoRight) /\ (\A n, t : AnswerRight(n, t) # NoRight)
  BY DEF AnswerRight, TrainRight, NoRight
<1>5. QED BY <1>1, <1>2, <1>3, <1>4 DEF Rights

-----------------------------------------------------------------------------
(* Queues and sets of handlers.                                            *)

LEMMA PoolAppend ==
    ASSUME NEW q \in Seq(Trains), NEW t \in Trains, PoolApart(q), ~ InPool(q, TrainRight(t))
    PROVE  /\ PoolApart(Append(q, t))
           /\ \A c : InPool(Append(q, t), c) => InPool(q, c) \/ c = TrainRight(t)
<1>1. \A i \in DOMAIN Append(q, t) : \/ i \in DOMAIN q /\ Append(q, t)[i] = q[i]
                                     \/ i = Len(q) + 1 /\ Append(q, t)[i] = t
  BY LenProperties
<1>2. \A i \in DOMAIN q : q[i] # t
  BY DEF InPool
<1>3. QED BY <1>1, <1>2 DEF PoolApart, InPool

LEMMA PoolTail ==
    ASSUME NEW q \in Seq(Trains), q # <<>>, PoolApart(q)
    PROVE  /\ PoolApart(Tail(q)) /\ InPool(q, TrainRight(Head(q)))
           /\ \A c : InPool(Tail(q), c) => InPool(q, c) /\ c # TrainRight(Head(q))
<1>1. \A i \in DOMAIN Tail(q) : i + 1 \in DOMAIN q /\ Tail(q)[i] = q[i + 1] /\ i \in Nat \ {0}
  OBVIOUS
<1>2. 1 \in DOMAIN q /\ Head(q) = q[1]
  OBVIOUS
<1>3. PoolApart(Tail(q))
  BY <1>1 DEF PoolApart
<1>4. \A i \in DOMAIN Tail(q) : Tail(q)[i] # Head(q)
  BY <1>1, <1>2 DEF PoolApart
<1>5. QED BY <1>1, <1>2, <1>3, <1>4, RightsDiffer DEF InPool

LEMMA InboxAppend ==
    ASSUME NEW q \in Seq(Messages), NEW m \in Messages, InboxApart(q),
           MessageRight(m) # NoRight => ~ InInbox(q, MessageRight(m))
    PROVE  /\ InboxApart(Append(q, m))
           /\ \A c : InInbox(Append(q, m), c) => InInbox(q, c) \/ c = MessageRight(m)
<1>1. \A i \in DOMAIN Append(q, m) : \/ i \in DOMAIN q /\ Append(q, m)[i] = q[i]
                                     \/ i = Len(q) + 1 /\ Append(q, m)[i] = m
  BY LenProperties
<1>2. \A i \in DOMAIN q : MessageRight(m) # NoRight => MessageRight(q[i]) # MessageRight(m)
  BY DEF InInbox
<1>3. QED BY <1>1, <1>2 DEF InboxApart, InInbox

\* A queue whose members come from different places of another.
LEMMA InboxDrawn ==
    ASSUME NEW q \in Seq(Messages), NEW r \in Seq(Messages), InboxApart(q),
           NEW f \in [DOMAIN r -> DOMAIN q], NEW i \in DOMAIN q,
           \A j \in DOMAIN r : r[j] = q[f[j]] /\ f[j] # i,
           \A j, k \in DOMAIN r : f[j] = f[k] => j = k
    PROVE  /\ InboxApart(r)
           /\ \A c : InInbox(r, c) => InInbox(q, c) /\ (c # NoRight => c # MessageRight(q[i]))
<1>1. InboxApart(r)
  BY DEF InboxApart
<1>2. \A j \in DOMAIN r : MessageRight(r[j]) # NoRight => MessageRight(r[j]) # MessageRight(q[i])
  BY DEF InboxApart
<1>3. QED BY <1>1, <1>2 DEF InInbox

LEMMA InboxTail ==
    ASSUME NEW q \in Seq(Messages), q # <<>>, InboxApart(q)
    PROVE  /\ InboxApart(Tail(q)) /\ Head(q) \in Messages /\ InInbox(q, MessageRight(Head(q)))
           /\ \A c : InInbox(Tail(q), c) =>
                       InInbox(q, c) /\ (c # NoRight => c # MessageRight(Head(q)))
<1> DEFINE f == [j \in DOMAIN Tail(q) |-> j + 1]
<1>1. /\ f \in [DOMAIN Tail(q) -> DOMAIN q] /\ 1 \in DOMAIN q /\ Head(q) = q[1] /\ q[1] \in Messages
      /\ Tail(q) \in Seq(Messages)
  OBVIOUS
<1>2. \A j \in DOMAIN Tail(q) : Tail(q)[j] = q[f[j]] /\ f[j] # 1
  OBVIOUS
<1>3. \A j, k \in DOMAIN Tail(q) : f[j] = f[k] => j = k
  OBVIOUS
<1> HIDE DEF f
<1>4. /\ InboxApart(Tail(q))
      /\ \A c : InInbox(Tail(q), c) => InInbox(q, c) /\ (c # NoRight => c # MessageRight(q[1]))
  <2> DEFINE r == Tail(q)
  <2> HIDE DEF r
  <2>1. /\ InboxApart(r)
        /\ \A c : InInbox(r, c) => InInbox(q, c) /\ (c # NoRight => c # MessageRight(q[1]))
    <3>1. r \in Seq(Messages) /\ f \in [DOMAIN r -> DOMAIN q] /\ 1 \in DOMAIN q
      BY <1>1 DEF r
    <3>2. \A j \in DOMAIN r : r[j] = q[f[j]] /\ f[j] # 1
      BY <1>2 DEF r
    <3>3. \A j, k \in DOMAIN r : f[j] = f[k] => j = k
      BY <1>3 DEF r
    <3>4. QED BY <3>1, <3>2, <3>3, InboxDrawn
  <2>2. QED BY <2>1 DEF r
<1>5. QED BY <1>1, <1>4 DEF InInbox

LEMMA InboxRemove ==
    ASSUME NEW q \in Seq(Messages), NEW i \in DOMAIN q, InboxApart(q)
    PROVE  /\ RemoveAt(q, i) \in Seq(Messages) /\ InboxApart(RemoveAt(q, i))
           /\ \A c : InInbox(RemoveAt(q, i), c) =>
                       InInbox(q, c) /\ (c # NoRight => c # MessageRight(q[i]))
<1> DEFINE r == RemoveAt(q, i)
           f == [j \in DOMAIN r |-> IF j < i THEN j ELSE j + 1]
<1>1. /\ r \in Seq(Messages) /\ Len(r) = Len(q) - 1
      /\ \A j \in 1 .. Len(r) : r[j] = IF j < i THEN q[j] ELSE q[j + 1]
  <2> DEFINE a == SubSeq(q, 1, i - 1)
             b == SubSeq(q, i + 1, Len(q))
  <2>1. /\ i \in 1 .. Len(q) /\ Len(q) \in Nat /\ DOMAIN q = 1 .. Len(q)
        /\ \A j \in 1 .. Len(q) : q[j] \in Messages
    BY LenProperties, ElementOfSeq
  <2>2. /\ a \in Seq(Messages) /\ Len(a) = i - 1 /\ \A j \in 1 .. i - 1 : a[j] = q[j]
    <3>1. \A j \in 1 .. i - 1 : q[j] \in Messages
      BY <2>1
    <3>2. /\ a \in Seq(Messages) /\ Len(a) = IF 1 <= i - 1 THEN i - 1 - 1 + 1 ELSE 0
          /\ \A j \in 1 .. i - 1 - 1 + 1 : a[j] = q[1 + j - 1]
      BY <2>1, <3>1, SubSeqProperties
    <3>3. QED BY <2>1, <3>2
  <2>3. /\ b \in Seq(Messages) /\ Len(b) = Len(q) - i
        /\ \A j \in 1 .. Len(q) - i : b[j] = q[i + j]
    <3>1. \A j \in i + 1 .. Len(q) : q[j] \in Messages
      BY <2>1
    <3>2. /\ b \in Seq(Messages)
          /\ Len(b) = IF i + 1 <= Len(q) THEN Len(q) - (i + 1) + 1 ELSE 0
          /\ \A j \in 1 .. Len(q) - (i + 1) + 1 : b[j] = q[i + 1 + j - 1]
      BY <2>1, <3>1, SubSeqProperties
    <3>3. Len(b) = Len(q) - i
      BY <2>1, <3>2
    <3>4. ASSUME NEW j \in 1 .. Len(q) - i PROVE b[j] = q[i + j]
      <4>1. j \in 1 .. Len(q) - (i + 1) + 1 /\ i + 1 + j - 1 = i + j
        BY <2>1, <3>4
      <4>2. QED BY <3>2, <4>1
    <3> HIDE DEF b
    <3>5. QED BY <3>2, <3>3, <3>4
  <2>4. r = a \o b
    BY DEF RemoveAt
  <2> HIDE DEF a, b, r
  <2>5. /\ r \in Seq(Messages) /\ Len(r) = Len(a) + Len(b)
        /\ \A j \in 1 .. Len(a) + Len(b) : r[j] = IF j <= Len(a) THEN a[j] ELSE b[j - Len(a)]
    BY <2>2, <2>3, <2>4, ConcatProperties
  <2>6. ASSUME NEW j \in 1 .. Len(r) PROVE r[j] = IF j < i THEN q[j] ELSE q[j + 1]
    <3>1. CASE j < i
      BY <2>1, <2>2, <2>5, <2>6, <3>1
    <3>2. CASE ~ (j < i)
      <4>1. j - (i - 1) \in 1 .. Len(q) - i /\ i + (j - (i - 1)) = j + 1
        BY SMTT(20), <2>1, <2>2, <2>3, <2>5, <2>6, <3>2
      <4>2. r[j] = b[j - (i - 1)]
        BY <2>1, <2>2, <2>3, <2>5, <2>6, <3>2
      <4>3. QED BY <2>3, <3>2, <4>1, <4>2
    <3>3. QED BY <3>1, <3>2
  <2>7. QED BY <2>1, <2>2, <2>3, <2>5, <2>6
<1> HIDE DEF r
<1>0. /\ DOMAIN r = 1 .. Len(r) /\ Len(r) \in Nat
      /\ DOMAIN q = 1 .. Len(q) /\ Len(q) \in Nat /\ i \in 1 .. Len(q)
  BY <1>1, LenProperties
<1>2. f \in [DOMAIN r -> DOMAIN q]
  BY <1>0, <1>1
<1>3. \A j \in DOMAIN r : r[j] = q[f[j]] /\ f[j] # i
  BY <1>0, <1>1
<1>4. \A j, k \in DOMAIN r : f[j] = f[k] => j = k
  BY <1>0, <1>1
<1> HIDE DEF f
<1>5. /\ InboxApart(r)
      /\ \A c : InInbox(r, c) => InInbox(q, c) /\ (c # NoRight => c # MessageRight(q[i]))
  <2>1. r \in Seq(Messages)
    BY <1>1
  <2>2. QED BY SMTT(20), <1>2, <1>3, <1>4, <2>1, InboxDrawn
<1>6. QED BY <1>1, <1>5 DEF r

\* The reply to a message is no longer awaited: an answer is taken away.
LEMMA OrphanRight ==
    ASSUME NEW m \in Messages
    PROVE  /\ Orphan(m) \in Messages /\ Orphan(m).kind = m.kind
           /\ MessageRight(Orphan(m)) = IF m.kind = "transfer" THEN MessageRight(m) ELSE NoRight
BY DEF Orphan, Messages, MessageRight

LEMMA InboxOrphan ==
    ASSUME NEW q \in Seq(Messages), NEW i \in DOMAIN q, InboxApart(q),
           NEW r, r = [q EXCEPT ![i] = Orphan(@)]
    PROVE  /\ r \in Seq(Messages) /\ InboxApart(r)
           /\ \A c : InInbox(r, c) /\ c # NoRight =>
                       InInbox(q, c) /\ (q[i].kind = "left" => c # MessageRight(q[i]))
<1>1. /\ q[i] \in Messages /\ Orphan(q[i]) \in Messages /\ i \in 1 .. Len(q)
      /\ DOMAIN q = 1 .. Len(q)
  BY LenProperties, ElementOfSeq, OrphanRight
<1>2. /\ r \in Seq(Messages) /\ DOMAIN r = DOMAIN q
      /\ \A j \in DOMAIN q : r[j] = IF j = i THEN Orphan(q[i]) ELSE q[j]
  BY <1>1, ExceptSeq
<1>3. \A j \in DOMAIN q : \/ MessageRight(r[j]) = NoRight
                          \/ /\ MessageRight(r[j]) = MessageRight(q[j])
                             /\ j = i => q[i].kind = "transfer"
  BY <1>1, <1>2, OrphanRight
<1>4. InboxApart(r)
  BY <1>2, <1>3 DEF InboxApart
<1>5. q[i].kind \in {"transfer", "left"}
  BY <1>1 DEF Messages
<1>6. ASSUME NEW c, c # NoRight, NEW j \in DOMAIN r, MessageRight(r[j]) = c
      PROVE  InInbox(q, c) /\ (q[i].kind = "left" => c # MessageRight(q[i]))
  <2>1. j \in DOMAIN q /\ MessageRight(q[j]) = c /\ (j = i => q[i].kind = "transfer")
    BY <1>2, <1>3, <1>6
  <2>2. InInbox(q, c)
    BY <2>1 DEF InInbox
  <2>3. ASSUME q[i].kind = "left", c = MessageRight(q[i]) PROVE FALSE
    BY <1>6, <2>1, <2>3 DEF InboxApart
  <2>4. QED BY <2>2, <2>3
<1>7. QED BY <1>2, <1>4, <1>6 DEF InInbox

-----------------------------------------------------------------------------
(* The right of the handlers.                                              *)

LEMMA HandsAdded ==
    ASSUME NEW H \in SUBSET Handlers, NEW h \in Handlers, HandsApart(H),
           HandlerRight(h) # NoRight => ~ InHands(H, HandlerRight(h))
    PROVE  /\ HandsApart(H \cup {h})
           /\ \A c : InHands(H \cup {h}, c) => InHands(H, c) \/ c = HandlerRight(h)
BY DEF HandsApart, InHands

\* A handler that ends, or goes on with the same right or none.
LEMMA HandsReplaced ==
    ASSUME NEW H \in SUBSET Handlers, NEW h \in H, NEW g \in Handlers,
           NEW G, G \subseteq (H \ {h}) \cup {g},
           HandsApart(H), HandlerRight(g) \in {HandlerRight(h), NoRight}
    PROVE  /\ HandsApart(G)
           /\ \A c : InHands(G, c) /\ c # NoRight =>
                       InHands(H, c) /\ (c = HandlerRight(h) => HandlerRight(g) = c)
BY DEF HandsApart, InHands

\* Handlers that wait for a handler which ends may now reply themselves: what they
\* carry is the same.
Woken(H, X, W, G) ==
    /\ H \in SUBSET Handlers /\ HandsApart(H) /\ \A w \in W : w.at = "telling"
    /\ G = {IF w \in W THEN [w EXCEPT !.at = "reply"] ELSE w : w \in H \ X}

LEMMA HandsWoken ==
    ASSUME NEW H, NEW X, NEW W, NEW G, Woken(H, X, W, G)
    PROVE  /\ G \in SUBSET Handlers /\ HandsApart(G)
           /\ IsFiniteSet(H) => IsFiniteSet(G)
           /\ \A c : InHands(G, c) => \E w \in H \ X : HandlerRight(w) = c
<1> DEFINE woken(w) == IF w \in W THEN [w EXCEPT !.at = "reply"] ELSE w
<1>0. H \in SUBSET Handlers /\ HandsApart(H) /\ \A w \in W : w.at = "telling"
  BY DEF Woken
<1>1. ASSUME NEW w \in H PROVE woken(w) \in Handlers /\ HandlerRight(woken(w)) = HandlerRight(w)
  <2>1. CASE w \in W
    <3>1. w \in Handlers /\ w.at = "telling"
      BY <1>0, <2>1
    <3>2. /\ [w EXCEPT !.at = "reply"] \in Handlers
          /\ [w EXCEPT !.at = "reply"].at = "reply" /\ [w EXCEPT !.at = "reply"].m = w.m
      BY <3>1 DEF Handlers
    <3>3. QED BY <2>1, <3>1, <3>2 DEF HandlerRight
  <2>2. CASE w \notin W
    BY <1>0, <2>2
  <2>3. QED BY <2>1, <2>2
<1>2. G = {woken(w) : w \in H \ X}
  BY DEF Woken
<1>3. IsFiniteSet(H) => IsFiniteSet(G)
  <2>1. SUFFICES ASSUME IsFiniteSet(H) PROVE IsFiniteSet(G)
    OBVIOUS
  <2>2. IsFiniteSet(H \ X)
    BY <2>1, FS_Subset
  <2> DEFINE f == [w \in H \ X |-> woken(w)]
  <2>3. f \in Surjection(H \ X, G)
    BY <1>2 DEF Surjection
  <2> HIDE DEF f
  <2>4. QED BY <2>2, <2>3, FS_Surjection
<1> HIDE DEF woken
<1>4. G \in SUBSET Handlers
  BY <1>1, <1>2
<1>5. ASSUME NEW g \in G, NEW h \in G, HandlerRight(g) = HandlerRight(h), HandlerRight(g) # NoRight
      PROVE  g = h
  <2>1. PICK v \in H : g = woken(v)
    BY <1>2
  <2>2. PICK w \in H : h = woken(w)
    BY <1>2
  <2>3. v = w
    BY <1>0, <1>1, <1>5, <2>1, <2>2 DEF HandsApart
  <2>4. QED BY <2>1, <2>2, <2>3
<1>6. HandsApart(G)
  BY <1>5 DEF HandsApart
<1>7. \A c : InHands(G, c) => \E w \in H \ X : HandlerRight(w) = c
  BY <1>1, <1>2 DEF InHands
<1>8. QED BY <1>3, <1>4, <1>6, <1>7

\* The number of a dispatcher that is free.
LEMMA LeastIn ==
    ASSUME NEW S \in SUBSET Nat, S # {}
    PROVE  Min(S) \in S
<1>1. IsWellFoundedOn(OpToRel(<, Nat), Nat)
  BY NatLessThanWellFounded
<1>2. PICK x \in S : \A y \in S : ~ (<<y, x>> \in OpToRel(<, Nat))
  BY <1>1, WFMin
<1>3. ASSUME NEW y \in S PROVE x =< y
  <2>1. <<y, x>> \in Nat \X Nat /\ <<y, x>>[1] = y /\ <<y, x>>[2] = x
    OBVIOUS
  <2>2. ~ (y < x)
    BY <1>2, <2>1 DEF OpToRel
  <2>3. QED BY <2>2
<1>4. QED BY <1>2, <1>3 DEF Min

LEMMA DispatcherFree ==
    ASSUME GatewayAssumption, NEW n \in Nodes, IsFiniteSet(handling[n]),
           Cardinality(handling[n]) < Dispatchers[n]
    PROVE  FreeDispatcher(n) \in Nat \ {0}
<1> DEFINE D == Dispatchers[n]
           ids == {h.id : h \in handling[n]}
<1>1. D \in Nat /\ IsFiniteSet(1 .. D) /\ Cardinality(1 .. D) = D
  BY FS_Interval DEF GatewayAssumption
<1>2. IsFiniteSet(ids) /\ Cardinality(ids) <= Cardinality(handling[n]) /\ Cardinality(ids) \in Nat
  <2> DEFINE f == [h \in handling[n] |-> h.id]
  <2>1. f \in Surjection(handling[n], ids)
    BY DEF Surjection
  <2> HIDE DEF f, ids
  <2>2. QED BY <2>1, FS_Surjection, FS_CardinalityType
<1>3. Cardinality(handling[n]) \in Nat
  BY FS_CardinalityType
<1> HIDE DEF ids
<1>4. ASSUME (1 .. D) \subseteq ids PROVE FALSE
  <2>1. Cardinality(1 .. D) <= Cardinality(ids)
    BY <1>2, <1>4, FS_Subset
  <2>2. QED BY <1>1, <1>2, <1>3, <2>1
<1>5. (1 .. D) \ ids # {} /\ (1 .. D) \ ids \subseteq Nat \ {0}
  BY <1>1, <1>4
<1>6. Min((1 .. D) \ ids) \in (1 .. D) \ ids
  BY <1>5, LeastIn
<1>7. QED BY <1>5, <1>6 DEF FreeDispatcher, ids

-----------------------------------------------------------------------------
(* What a step does to each place.  Each lemma says which rights a place can *)
(* carry after the step; the lemmas on actions put them together.            *)

LEMMA PoolTakes ==
    ASSUME TypeOK, PoolOnce, NEW n \in Nodes, pool[n] # <<>>,
           pool' = [pool EXCEPT ![n] = Tail(@)]
    PROVE  /\ PoolOnce' /\ pool' \in [Nodes -> Seq(Trains)]
           /\ Carries("pool", n, TrainRight(Head(pool[n])))
           /\ \A m \in Nodes, c \in Rights : Carries("pool", m, c)' =>
                  Carries("pool", m, c) /\ (m = n => c # TrainRight(Head(pool[n])))
<1>1. /\ pool' \in [Nodes -> Seq(Trains)] /\ pool'[n] = Tail(pool[n])
      /\ \A m \in Nodes : m # n => pool'[m] = pool[m]
  BY DEF TypeOK
<1>2. /\ PoolApart(Tail(pool[n])) /\ InPool(pool[n], TrainRight(Head(pool[n])))
      /\ \A c : InPool(Tail(pool[n]), c) => InPool(pool[n], c) /\ c # TrainRight(Head(pool[n]))
  BY PoolTail DEF TypeOK, PoolOnce
<1>3. PoolOnce'
  BY <1>1, <1>2 DEF PoolOnce
<1>4. QED BY <1>1, <1>2, <1>3 DEF Carries

LEMMA PoolGets ==
    ASSUME TypeOK, PoolOnce, NEW n \in Nodes, NEW t \in Trains,
           ~ Carries("pool", n, TrainRight(t)), pool' = [pool EXCEPT ![n] = Append(@, t)]
    PROVE  /\ PoolOnce' /\ pool' \in [Nodes -> Seq(Trains)]
           /\ \A m \in Nodes, c \in Rights : Carries("pool", m, c)' =>
                  Carries("pool", m, c) \/ (m = n /\ c = TrainRight(t))
<1>1. /\ pool' \in [Nodes -> Seq(Trains)] /\ pool'[n] = Append(pool[n], t)
      /\ \A m \in Nodes : m # n => pool'[m] = pool[m]
  BY DEF TypeOK
<1>2. /\ PoolApart(Append(pool[n], t))
      /\ \A c : InPool(Append(pool[n], t), c) => InPool(pool[n], c) \/ c = TrainRight(t)
  BY PoolAppend DEF TypeOK, PoolOnce, Carries
<1>3. PoolOnce'
  BY <1>1, <1>2 DEF PoolOnce
<1>4. QED BY <1>1, <1>2, <1>3 DEF Carries

Locations == {"none", "depart", "telling", "segment", "enter"}

LEMMA TaskGoesOn ==
    ASSUME TypeOK, NEW n \in Nodes, NEW t \in Trains, NEW where \in Locations, GoOn(n, t, where)
    PROVE  /\ task' \in [Nodes -> [Trains -> Locations]] /\ task'[n][t] = where
           /\ \A m \in Nodes, u \in Trains : m # n \/ u # t => task'[m][u] = task[m][u]
           /\ \A m \in Nodes, c \in Rights : Carries("task", m, c)' =>
                  \/ Carries("task", m, c) /\ ~ (m = n /\ c = TrainRight(t))
                  \/ m = n /\ c = TrainRight(t) /\ where # "none"
<1>1. /\ task' \in [Nodes -> [Trains -> Locations]] /\ task'[n][t] = where
      /\ \A m \in Nodes, u \in Trains : m # n \/ u # t => task'[m][u] = task[m][u]
  BY DEF TypeOK, GoOn, Locations
<1>2. ASSUME NEW m \in Nodes, NEW c \in Rights, InTask(task'[m], c)
      PROVE  \/ InTask(task[m], c) /\ ~ (m = n /\ c = TrainRight(t))
             \/ m = n /\ c = TrainRight(t) /\ where # "none"
  <2>1. PICK u \in Trains : task'[m][u] # "none" /\ TrainRight(u) = c
    BY <1>2 DEF InTask
  <2>2. CASE m = n /\ u = t
    BY <1>1, <2>1, <2>2
  <2>3. CASE m # n \/ u # t
    BY <1>1, <2>1, <2>3, RightsDiffer DEF InTask
  <2>4. QED BY <2>2, <2>3
<1>3. QED BY <1>1, <1>2 DEF Carries

LEMMA InboxGets ==
    ASSUME TypeOK, InboxOnce, NEW n \in Nodes, NEW m \in Messages, Sent(m, n),
           MessageRight(m) # NoRight => ~ Carries("inbox", n, MessageRight(m))
    PROVE  /\ InboxOnce' /\ inbox' \in [Nodes -> Seq(Messages)]
           /\ \A k \in Nodes, c \in Rights : Carries("inbox", k, c)' =>
                  Carries("inbox", k, c) \/ (k = n /\ c = MessageRight(m))
<1>1. /\ inbox' \in [Nodes -> Seq(Messages)] /\ inbox'[n] = Append(inbox[n], m)
      /\ \A k \in Nodes : k # n => inbox'[k] = inbox[k]
  BY DEF TypeOK, Sent
<1>2. /\ InboxApart(Append(inbox[n], m))
      /\ \A c : InInbox(Append(inbox[n], m), c) => InInbox(inbox[n], c) \/ c = MessageRight(m)
  BY InboxAppend DEF TypeOK, InboxOnce, Carries
<1>3. InboxOnce'
  BY <1>1, <1>2 DEF InboxOnce
<1>4. QED BY <1>1, <1>2, <1>3 DEF Carries

\* A queue of messages from which one is taken, or what one carries.
LEMMA InboxLoses ==
    ASSUME TypeOK, InboxOnce, NEW n \in Nodes, NEW q \in Seq(Messages), NEW x, NEW taken,
           InboxApart(q), inbox' = [inbox EXCEPT ![n] = q],
           \A c : InInbox(q, c) /\ c # NoRight => InInbox(inbox[n], c) /\ (taken => c # x)
    PROVE  /\ InboxOnce' /\ inbox' \in [Nodes -> Seq(Messages)]
           /\ \A k \in Nodes, c \in Rights : Carries("inbox", k, c)' =>
                  Carries("inbox", k, c) /\ (taken /\ k = n => c # x)
<1>1. /\ inbox' \in [Nodes -> Seq(Messages)] /\ inbox'[n] = q
      /\ \A k \in Nodes : k # n => inbox'[k] = inbox[k]
  BY DEF TypeOK
<1>2. InboxOnce'
  BY <1>1 DEF InboxOnce
<1>3. \A c \in Rights : c # NoRight
  BY RightsDiffer
<1>4. QED BY <1>1, <1>2, <1>3 DEF Carries

LEMMA HandsGet ==
    ASSUME TypeOK, HandsOnce, NEW n \in Nodes, NEW h \in Handlers,
           handling' = [handling EXCEPT ![n] = @ \cup {h}],
           HandlerRight(h) # NoRight => ~ Carries("handler", n, HandlerRight(h))
    PROVE  /\ HandsOnce' /\ handling' \in [Nodes -> SUBSET Handlers]
           /\ \A k \in Nodes : IsFiniteSet(handling'[k])
           /\ \A k \in Nodes, c \in Rights : Carries("handler", k, c)' =>
                  Carries("handler", k, c) \/ (k = n /\ c = HandlerRight(h))
<1>1. /\ handling' \in [Nodes -> SUBSET Handlers] /\ handling'[n] = handling[n] \cup {h}
      /\ \A k \in Nodes : k # n => handling'[k] = handling[k]
  BY DEF TypeOK
<1>2. \A k \in Nodes : IsFiniteSet(handling'[k])
  <2>1. IsFiniteSet(handling[n] \cup {h})
    BY FS_AddElement DEF TypeOK
  <2>2. QED BY <1>1, <2>1 DEF TypeOK
<1>3. /\ HandsApart(handling[n] \cup {h})
      /\ \A c : InHands(handling[n] \cup {h}, c) => InHands(handling[n], c) \/ c = HandlerRight(h)
  <2>1. handling[n] \in SUBSET Handlers /\ HandsApart(handling[n])
    BY DEF TypeOK, HandsOnce
  <2>2. HandlerRight(h) # NoRight => ~ InHands(handling[n], HandlerRight(h))
    BY DEF Carries
  <2>3. QED BY <2>1, <2>2, HandsAdded
<1>4. HandsOnce'
  BY <1>1, <1>3 DEF HandsOnce
<1>5. QED BY <1>1, <1>2, <1>3, <1>4 DEF Carries

LEMMA HandsGoOn ==
    ASSUME TypeOK, HandsOnce, NEW n \in Nodes, NEW h \in handling[n], NEW g \in Handlers,
           NEW G, G \subseteq (handling[n] \ {h}) \cup {g}, handling' = [handling EXCEPT ![n] = G],
           HandlerRight(g) \in {HandlerRight(h), NoRight}
    PROVE  /\ HandsOnce' /\ handling' \in [Nodes -> SUBSET Handlers]
           /\ \A k \in Nodes : IsFiniteSet(handling'[k])
           /\ \A k \in Nodes, c \in Rights : Carries("handler", k, c)' =>
                  /\ Carries("handler", k, c)
                  /\ k = n /\ c = HandlerRight(h) => HandlerRight(g) = c
<1>1. /\ handling' \in [Nodes -> SUBSET Handlers] /\ handling'[n] = G
      /\ \A k \in Nodes : k # n => handling'[k] = handling[k]
  BY DEF TypeOK
<1>2. \A k \in Nodes : IsFiniteSet(handling'[k])
  <2>1. IsFiniteSet((handling[n] \cup {g}))
    BY FS_AddElement DEF TypeOK
  <2>2. G \in SUBSET (handling[n] \cup {g})
    OBVIOUS
  <2>3. IsFiniteSet(G)
    BY <2>1, <2>2, FS_Subset
  <2>4. QED BY <1>1, <2>3 DEF TypeOK
<1>3. /\ HandsApart(G)
      /\ \A c : InHands(G, c) /\ c # NoRight =>
                  InHands(handling[n], c) /\ (c = HandlerRight(h) => HandlerRight(g) = c)
  <2> DEFINE H == handling[n]
  <2>1. H \in SUBSET Handlers /\ HandsApart(H) /\ h \in H /\ G \subseteq (H \ {h}) \cup {g}
    BY DEF TypeOK, HandsOnce
  <2> HIDE DEF H
  <2>2. /\ HandsApart(G)
        /\ \A c : InHands(G, c) /\ c # NoRight =>
                    InHands(H, c) /\ (c = HandlerRight(h) => HandlerRight(g) = c)
    BY <2>1, HandsReplaced
  <2>3. QED BY <2>2 DEF H
<1>4. HandsOnce'
  BY <1>1, <1>3 DEF HandsOnce
<1>5. \A c \in Rights : c # NoRight
  BY RightsDiffer
<1>6. QED BY <1>1, <1>2, <1>3, <1>4, <1>5 DEF Carries

\* A place that a step leaves alone carries what it did.
LEMMA Unmoved ==
    /\ UNCHANGED pool => \A m \in Nodes : \A c : Carries("pool", m, c)' <=> Carries("pool", m, c)
    /\ UNCHANGED task => \A m \in Nodes : \A c : Carries("task", m, c)' <=> Carries("task", m, c)
    /\ UNCHANGED inbox => \A m \in Nodes : \A c : Carries("inbox", m, c)' <=> Carries("inbox", m, c)
    /\ UNCHANGED handling =>
           \A m \in Nodes : \A c : Carries("handler", m, c)' <=> Carries("handler", m, c)
BY DEF Carries

-----------------------------------------------------------------------------
(* Rights that are handed on, given out, or only lost.                       *)

LEMMA OneMoves ==
    ASSUME OneBearer, NEW c \in Rights, NEW k0 \in Kinds, NEW n0 \in Nodes, Carries(k0, n0, c),
           NEW k1 \in Kinds, NEW n1 \in Nodes,
           \A k \in Kinds, m \in Nodes, d \in Rights : Carries(k, m, d)' =>
               \/ Carries(k, m, d) /\ ~ (k = k0 /\ m = n0 /\ d = c)
               \/ k = k1 /\ m = n1 /\ d = c
    PROVE  OneBearer'
<1> SUFFICES ASSUME NEW d \in Rights, NEW k \in Kinds, NEW j \in Kinds,
                    NEW n \in Nodes, NEW m \in Nodes, Carries(k, n, d)', Carries(j, m, d)'
             PROVE  k = j /\ n = m
  BY DEF OneBearer
<1>1. CASE d # c
  BY <1>1 DEF OneBearer
<1>2. CASE d = c
  BY <1>2 DEF OneBearer
<1>3. QED BY <1>1, <1>2

LEMMA OneArises ==
    ASSUME OneBearer, NEW c \in Rights, \A k \in Kinds, m \in Nodes : ~ Carries(k, m, c),
           NEW k1 \in Kinds, NEW n1 \in Nodes,
           \A k \in Kinds, m \in Nodes, d \in Rights : Carries(k, m, d)' =>
               Carries(k, m, d) \/ (k = k1 /\ m = n1 /\ d = c)
    PROVE  OneBearer'
BY DEF OneBearer

LEMMA NoneArises ==
    ASSUME OneBearer,
           \A k \in Kinds, m \in Nodes, d \in Rights : Carries(k, m, d)' => Carries(k, m, d)
    PROVE  OneBearer'
BY DEF OneBearer

LEMMA AnswersStay ==
    ASSUME AnswersAwaited,
           \A k \in Kinds, m, n \in Nodes, t \in Trains :
               Carries(k, m, AnswerRight(n, t))' =>
                   /\ Carries(k, m, AnswerRight(n, t))
                   /\ task[n][t] = "telling" => task'[n][t] = "telling"
    PROVE  AnswersAwaited'
BY DEF AnswersAwaited

\* The holder of a right at another place does not have it here.
LEMMA NotHere ==
    ASSUME OneBearer, NEW c \in Rights, NEW k \in Kinds, NEW n \in Nodes, Carries(k, n, c),
           NEW j \in Kinds, NEW m \in Nodes, k # j
    PROVE  ~ Carries(j, m, c)
BY DEF OneBearer

LEMMA TaskCarries ==
    ASSUME NEW n \in Nodes, NEW t \in Trains
    PROVE  Carries("task", n, TrainRight(t)) <=> task[n][t] # "none"
BY RightsDiffer DEF Carries, InTask

\* The stages of a train are those of its route.
LEMMA StageOfRoute ==
    ASSUME GatewayAssumption, TypeOK, NEW n \in Nodes, NEW t \in Trains
    PROVE  /\ stage[n][t] \in Nat \ {0} /\ stage[n][t] <= Len(Route[t]) /\ Len(Route[t]) \in Nat \ {0}
           /\ Stage(n, t).start \in Platforms /\ Stage(n, t).next \in Platforms
           /\ FromElsewhere(n, t) => Previous(n, t) \in Nodes
           /\ ToElsewhere(n, t) =>
                  Route[t][stage[n][t] + 1].node \in Nodes /\ stage[n][t] + 1 <= Len(Route[t])
<1> DEFINE R == [node : Nodes, start : Platforms, next : Platforms]
<1>1. Route[t] \in Seq(R) /\ Route[t] # <<>>
  BY DEF GatewayAssumption
<1>2. Len(Route[t]) \in Nat \ {0} /\ \A i \in 1 .. Len(Route[t]) : Route[t][i] \in R
  BY <1>1, LenProperties, ElementOfSeq, EmptySeq
<1>3. stage[n][t] \in Nat \ {0} /\ stage[n][t] <= Len(Route[t])
  BY DEF TypeOK
<1>4. Stage(n, t) \in R
  BY <1>2, <1>3 DEF Stage
<1>5. FromElsewhere(n, t) => Previous(n, t) \in Nodes
  BY SMTT(20), <1>2, <1>3 DEF FromElsewhere, Previous
<1>6. ToElsewhere(n, t) =>
          Route[t][stage[n][t] + 1].node \in Nodes /\ stage[n][t] + 1 <= Len(Route[t])
  BY <1>2, <1>3 DEF ToElsewhere
<1>7. QED BY <1>2, <1>3, <1>4, <1>5, <1>6

LEMMA MessageSent ==
    ASSUME NEW kind \in {"transfer", "left"}, NEW n \in Nodes, NEW t \in Trains,
           NEW p \in Platforms, NEW by \in Nat,
           stage'[n][t] \in Nat \ {0}, stage'[n][t] <= Len(Route[t])
    PROVE  /\ Message(kind, n, t, p, by) \in Messages
           /\ kind = "transfer" => MessageRight(Message(kind, n, t, p, by)) = TrainRight(t)
           /\ kind = "left" /\ by = 0 => MessageRight(Message(kind, n, t, p, by)) = AnswerRight(n, t)
           /\ kind = "left" /\ by # 0 => MessageRight(Message(kind, n, t, p, by)) = NoRight
<1> DEFINE m == Message(kind, n, t, p, by)
<1>1. /\ m.kind = kind /\ m.from = n /\ m.train = t /\ m.by = by /\ m.awaited = TRUE
      /\ m \in Messages
  BY DEF Message, Messages
<1> HIDE DEF m
<1>2. QED BY <1>1 DEF m, MessageRight

-----------------------------------------------------------------------------
(* A platform's queue.                                                       *)

LEMMA PlatformTypes ==
    ASSUME TypeOK, NEW n \in Nodes, NEW p \in Platforms, NEW t \in Trains,
           Join(n, p, t) \/ Leave(n, p)
    PROVE  order' \in [Nodes -> [Platforms -> Seq(Trains)]]
<1>1. order[n][p] \in Seq(Trains)
  BY DEF TypeOK
<1>2. Append(order[n][p], t) \in Seq(Trains) /\ Freed(order[n][p]) \in Seq(Trains)
  BY <1>1, HeadTailProperties DEF Freed
<1>3. ASSUME NEW q \in Seq(Trains), order' = [order EXCEPT ![n][p] = q]
      PROVE  order' \in [Nodes -> [Platforms -> Seq(Trains)]]
  BY <1>3 DEF TypeOK
<1>4. CASE Join(n, p, t)
  BY <1>2, <1>3, <1>4 DEF Join
<1>5. CASE Leave(n, p)
  BY <1>2, <1>3, <1>5 DEF Leave
<1>6. QED BY <1>4, <1>5

-----------------------------------------------------------------------------
(* Steps of tasks.                                                           *)

LEMMA DequeueInv ==
    ASSUME GatewayInv, NEW n \in Nodes, Dequeue(n)
    PROVE  GatewayInv'
<1> DEFINE t == Head(pool[n])
           c == TrainRight(t)
<1>1. /\ pool[n] # <<>> /\ pool' = [pool EXCEPT ![n] = Tail(@)] /\ GoOn(n, t, "depart")
      /\ UNCHANGED <<stage, order, stopped, sending, inbox, handling, lost>>
  BY DEF Dequeue
<1>2. t \in Trains /\ c \in Rights
  <2>1. pool[n] \in Seq(Trains)
    BY DEF GatewayInv, TypeOK
  <2>2. QED BY <1>1, <2>1, HeadTailProperties, RightsDiffer
<1> HIDE DEF t
<1>3. /\ PoolOnce' /\ pool' \in [Nodes -> Seq(Trains)] /\ Carries("pool", n, c)
      /\ \A m \in Nodes, d \in Rights : Carries("pool", m, d)' =>
             Carries("pool", m, d) /\ (m = n => d # c)
  BY <1>1, PoolTakes DEF GatewayInv, t
<1>4. /\ task' \in [Nodes -> [Trains -> Locations]]
      /\ \A m \in Nodes, u \in Trains : m # n \/ u # t => task'[m][u] = task[m][u]
      /\ \A m \in Nodes, d \in Rights : Carries("task", m, d)' =>
             Carries("task", m, d) \/ (m = n /\ d = c)
  BY <1>1, <1>2, TaskGoesOn DEF GatewayInv, Locations
<1>5. task[n][t] = "none"
  BY <1>2, <1>3, NotHere, TaskCarries DEF GatewayInv, Kinds
<1>6. TypeOK'
  BY <1>1, <1>3, <1>4 DEF GatewayInv, TypeOK, Locations
<1>7. \A k \in Kinds, m \in Nodes, d \in Rights : Carries(k, m, d)' =>
          \/ Carries(k, m, d) /\ ~ (k = "pool" /\ m = n /\ d = c)
          \/ k = "task" /\ m = n /\ d = c
  BY <1>1, <1>3, <1>4, Unmoved DEF Kinds
<1>8. OneBearer'
  BY <1>2, <1>3, <1>7, OneMoves DEF GatewayInv, Kinds
<1>9. AnswersAwaited'
  <2>1. \A k \in Kinds, m, i \in Nodes, u \in Trains :
            Carries(k, m, AnswerRight(i, u))' => Carries(k, m, AnswerRight(i, u))
    BY <1>7, RightsDiffer
  <2>2. \A i \in Nodes, u \in Trains : task[i][u] = "telling" => task'[i][u] = "telling"
    BY <1>4, <1>5
  <2>3. QED BY <2>1, <2>2, AnswersStay DEF GatewayInv
<1>10. InboxOnce' /\ HandsOnce'
  BY <1>1 DEF GatewayInv, InboxOnce, HandsOnce
<1>11. QED BY <1>3, <1>6, <1>8, <1>9, <1>10 DEF GatewayInv

\* A task that goes on with its train and does not wait for an answer.
LEMMA SameTrain ==
    ASSUME GatewayInv, NEW n \in Nodes, NEW t \in Trains, task[n][t] \notin {"none", "telling"},
           NEW where \in Locations, where # "none", GoOn(n, t, where), UNCHANGED <<pool, inbox, handling>>
    PROVE  /\ task' \in [Nodes -> [Trains -> Locations]]
           /\ PoolOnce' /\ InboxOnce' /\ HandsOnce' /\ OneBearer' /\ AnswersAwaited'
<1>1. /\ task' \in [Nodes -> [Trains -> Locations]]
      /\ \A m \in Nodes, u \in Trains : m # n \/ u # t => task'[m][u] = task[m][u]
      /\ \A m \in Nodes, c \in Rights : Carries("task", m, c)' =>
             Carries("task", m, c) \/ (m = n /\ c = TrainRight(t))
  BY TaskGoesOn DEF GatewayInv
<1>2. Carries("task", n, TrainRight(t))
  BY TaskCarries
<1>3. \A k \in Kinds, m \in Nodes, d \in Rights : Carries(k, m, d)' => Carries(k, m, d)
  BY <1>1, <1>2, Unmoved DEF Kinds
<1>4. OneBearer'
  BY <1>3, NoneArises DEF GatewayInv
<1>5. AnswersAwaited'
  BY <1>1, <1>3, AnswersStay, RightsDiffer DEF GatewayInv
<1>6. QED BY <1>1, <1>4, <1>5 DEF GatewayInv, PoolOnce, InboxOnce, HandsOnce

LEMMA DepartInv ==
    ASSUME GatewayAssumption, GatewayInv, NEW n \in Nodes, NEW t \in Trains, Depart(n, t)
    PROVE  GatewayInv'
<1>1. /\ task[n][t] = "depart" /\ Leave(n, Stage(n, t).start)
      /\ UNCHANGED <<stage, pool, stopped, sending, handling, lost>>
  BY DEF Depart
<1>2. order' \in [Nodes -> [Platforms -> Seq(Trains)]] /\ Stage(n, t).start \in Platforms
  BY <1>1, StageOfRoute, PlatformTypes DEF GatewayInv
<1>3. CASE UNCHANGED inbox /\ GoOn(n, t, "segment")
  <2>1. /\ task' \in [Nodes -> [Trains -> Locations]]
        /\ PoolOnce' /\ InboxOnce' /\ HandsOnce' /\ OneBearer' /\ AnswersAwaited'
    BY <1>1, <1>3, SameTrain DEF Locations
  <2>2. TypeOK'
    BY <1>1, <1>2, <1>3, <2>1 DEF GatewayInv, TypeOK, Locations
  <2>3. QED BY <2>1, <2>2 DEF GatewayInv
<1>4. CASE /\ FromElsewhere(n, t) /\ GoOn(n, t, "telling")
           /\ Sent(Message("left", n, t, Stage(n, t).start, 0), Previous(n, t))
  <2> DEFINE c == AnswerRight(n, t)
             x == Message("left", n, t, Stage(n, t).start, 0)
  <2>1. Previous(n, t) \in Nodes
    BY <1>4, StageOfRoute DEF GatewayInv
  <2>2. x \in Messages /\ MessageRight(x) = c /\ c \in Rights
    <3>1. stage'[n][t] \in Nat \ {0} /\ stage'[n][t] <= Len(Route[t])
      BY <1>1 DEF GatewayInv, TypeOK
    <3>2. "left" \in {"transfer", "left"} /\ 0 \in Nat
      OBVIOUS
    <3>3. x \in Messages /\ ("left" = "left" /\ 0 = 0 => MessageRight(x) = c)
      BY <1>2, <3>1, <3>2, MessageSent
    <3>4. QED BY <3>3, RightsDiffer
  <2>3. \A k \in Kinds, m \in Nodes : ~ Carries(k, m, c)
    BY <1>1 DEF GatewayInv, AnswersAwaited
  <2>4. Sent(x, Previous(n, t))
    BY <1>4
  <2> HIDE DEF x
  <2>5. /\ InboxOnce' /\ inbox' \in [Nodes -> Seq(Messages)]
        /\ \A k \in Nodes, d \in Rights : Carries("inbox", k, d)' =>
               Carries("inbox", k, d) \/ (k = Previous(n, t) /\ d = c)
    BY <2>1, <2>2, <2>3, <2>4, InboxGets DEF GatewayInv, Kinds
  <2>6. /\ task' \in [Nodes -> [Trains -> Locations]] /\ task'[n][t] = "telling"
        /\ \A m \in Nodes, u \in Trains : m # n \/ u # t => task'[m][u] = task[m][u]
        /\ \A m \in Nodes, d \in Rights : Carries("task", m, d)' => Carries("task", m, d)
    <3>1. Carries("task", n, TrainRight(t))
      BY <1>1, TaskCarries
    <3>2. QED BY <1>4, <3>1, TaskGoesOn DEF GatewayInv, Locations
  <2>7. \A k \in Kinds, m \in Nodes, d \in Rights : Carries(k, m, d)' =>
            Carries(k, m, d) \/ (k = "inbox" /\ m = Previous(n, t) /\ d = c)
    BY <1>1, <2>5, <2>6, Unmoved DEF Kinds
  <2>8. OneBearer'
    BY <2>1, <2>2, <2>3, <2>7, OneArises DEF GatewayInv, Kinds
  <2>9. AnswersAwaited'
    <3>1. SUFFICES ASSUME NEW k \in Kinds, NEW m \in Nodes, NEW i \in Nodes, NEW u \in Trains,
                          Carries(k, m, AnswerRight(i, u))'
                   PROVE  task'[i][u] = "telling"
      BY DEF AnswersAwaited
    <3>2. CASE AnswerRight(i, u) = c
      BY <2>6, <3>2, RightsDiffer
    <3>3. CASE AnswerRight(i, u) # c
      <4>1. Carries(k, m, AnswerRight(i, u))
        BY <2>7, <3>1, <3>3, RightsDiffer
      <4>2. task[i][u] = "telling"
        BY <4>1 DEF GatewayInv, AnswersAwaited
      <4>3. i # n \/ u # t
        BY <3>3
      <4>4. QED BY <2>6, <4>2, <4>3
    <3>4. QED BY <3>2, <3>3
  <2>10. TypeOK'
    BY <1>1, <1>2, <2>5, <2>6 DEF GatewayInv, TypeOK, Locations
  <2>11. PoolOnce' /\ HandsOnce'
    BY <1>1 DEF GatewayInv, PoolOnce, HandsOnce
  <2>12. QED BY <2>5, <2>8, <2>9, <2>10, <2>11 DEF GatewayInv
<1>5. QED BY <1>3, <1>4 DEF Depart

LEMMA ArriveInv ==
    ASSUME GatewayAssumption, GatewayInv, NEW n \in Nodes, NEW t \in Trains, Arrive(n, t)
    PROVE  GatewayInv'
<1>1. /\ task[n][t] = "segment" /\ Join(n, Stage(n, t).next, t) /\ GoOn(n, t, "enter")
      /\ UNCHANGED <<stage, pool, stopped, sending, inbox, handling, lost>>
  BY DEF Arrive
<1>2. order' \in [Nodes -> [Platforms -> Seq(Trains)]]
  BY <1>1, StageOfRoute, PlatformTypes DEF GatewayInv
<1>3. /\ task' \in [Nodes -> [Trains -> Locations]]
      /\ PoolOnce' /\ InboxOnce' /\ HandsOnce' /\ OneBearer' /\ AnswersAwaited'
  BY <1>1, SameTrain DEF Locations
<1>4. TypeOK'
  BY <1>1, <1>2, <1>3 DEF GatewayInv, TypeOK, Locations
<1>5. QED BY <1>3, <1>4 DEF GatewayInv

\* A train gets another stage of its route.
LEMMA StageTypes ==
    ASSUME TypeOK, NEW n \in Nodes, NEW t \in Trains, NEW v \in Nat \ {0}, v <= Len(Route[t]),
           stage' = [stage EXCEPT ![n][t] = v]
    PROVE  /\ stage' \in [Nodes -> [Trains -> Nat \ {0}]] /\ stage'[n][t] = v
           /\ \A m \in Nodes, u \in Trains : stage'[m][u] <= Len(Route[u])
<1>1. stage \in [Nodes -> [Trains -> Nat \ {0}]]
  BY DEF TypeOK
<1>2. stage' \in [Nodes -> [Trains -> Nat \ {0}]] /\ stage'[n][t] = v
  BY <1>1
<1>3. \A m \in Nodes, u \in Trains : m # n \/ u # t => stage'[m][u] = stage[m][u]
  BY <1>1
<1>4. QED BY <1>2, <1>3 DEF TypeOK

LEMMA NextStageInv ==
    ASSUME GatewayAssumption, GatewayInv, NEW n \in Nodes, NEW t \in Trains, NextStage(n, t)
    PROVE  GatewayInv'
<1> DEFINE c == TrainRight(t)
           v == IF stage[n][t] = Len(Route[t]) THEN 1 ELSE stage[n][t] + 1
<1>1. /\ task[n][t] = "enter" /\ stage' = [stage EXCEPT ![n][t] = v]
      /\ pool' = [pool EXCEPT ![n] = Append(@, t)] /\ GoOn(n, t, "none")
      /\ UNCHANGED <<order, stopped, sending, inbox, handling, lost>>
  BY DEF NextStage, Enter
<1>2. v \in Nat \ {0} /\ v <= Len(Route[t])
  <2>1. /\ stage[n][t] \in Nat \ {0} /\ stage[n][t] <= Len(Route[t])
        /\ Len(Route[t]) \in Nat \ {0}
    BY StageOfRoute DEF GatewayInv
  <2>2. QED BY <2>1
<1> HIDE DEF v
<1>3. /\ stage' \in [Nodes -> [Trains -> Nat \ {0}]]
      /\ \A m \in Nodes, u \in Trains : stage'[m][u] <= Len(Route[u])
  BY <1>1, <1>2, StageTypes DEF GatewayInv
<1>4. c \in Rights /\ Carries("task", n, c) /\ ~ Carries("pool", n, c)
  <2>1. c \in Rights /\ Carries("task", n, c)
    BY <1>1, TaskCarries, RightsDiffer
  <2>2. QED BY <2>1, NotHere DEF GatewayInv, Kinds
<1>5. /\ PoolOnce' /\ pool' \in [Nodes -> Seq(Trains)]
      /\ \A m \in Nodes, d \in Rights : Carries("pool", m, d)' =>
             Carries("pool", m, d) \/ (m = n /\ d = c)
  BY <1>1, <1>4, PoolGets DEF GatewayInv
<1>6. /\ task' \in [Nodes -> [Trains -> Locations]]
      /\ \A m \in Nodes, u \in Trains : m # n \/ u # t => task'[m][u] = task[m][u]
      /\ \A m \in Nodes, d \in Rights : Carries("task", m, d)' =>
             Carries("task", m, d) /\ ~ (m = n /\ d = c)
  BY <1>1, TaskGoesOn DEF GatewayInv, Locations
<1>7. TypeOK'
  BY <1>1, <1>3, <1>5, <1>6 DEF GatewayInv, TypeOK, Locations
<1>8. \A k \in Kinds, m \in Nodes, d \in Rights : Carries(k, m, d)' =>
          \/ Carries(k, m, d) /\ ~ (k = "task" /\ m = n /\ d = c)
          \/ k = "pool" /\ m = n /\ d = c
  BY <1>1, <1>5, <1>6, Unmoved DEF Kinds
<1>9. OneBearer'
  BY <1>4, <1>8, OneMoves DEF GatewayInv, Kinds
<1>10. AnswersAwaited'
  <2>1. \A k \in Kinds, m, i \in Nodes, u \in Trains :
            Carries(k, m, AnswerRight(i, u))' => Carries(k, m, AnswerRight(i, u))
    BY <1>8, RightsDiffer
  <2>2. \A i \in Nodes, u \in Trains : task[i][u] = "telling" => task'[i][u] = "telling"
    BY <1>1, <1>6
  <2>3. QED BY <2>1, <2>2, AnswersStay DEF GatewayInv
<1>11. InboxOnce' /\ HandsOnce'
  BY <1>1 DEF GatewayInv, InboxOnce, HandsOnce
<1>12. QED BY <1>5, <1>7, <1>9, <1>10, <1>11 DEF GatewayInv

LEMMA SendTrainInv ==
    ASSUME GatewayAssumption, GatewayInv, NEW n \in Nodes, NEW t \in Trains, SendTrain(n, t)
    PROVE  GatewayInv'
<1> DEFINE c == TrainRight(t)
           p == Stage(n, t).next
           to == Route[t][stage[n][t] + 1].node
           x == Message("transfer", n, t, p, 0)
<1>1. /\ task[n][t] = "enter" /\ stage' = [stage EXCEPT ![n][t] = stage[n][t] + 1]
      /\ Sent(x, to) /\ GoOn(n, t, "none") /\ sending' = [sending EXCEPT ![n] = @ + 1]
      /\ UNCHANGED <<order, pool, stopped, handling, lost>>
  BY DEF SendTrain, Enter
<1>2. /\ to \in Nodes /\ p \in Platforms
      /\ stage[n][t] + 1 \in Nat \ {0} /\ stage[n][t] + 1 <= Len(Route[t])
  <2>1. ToElsewhere(n, t)
    BY DEF SendTrain
  <2>2. /\ to \in Nodes /\ p \in Platforms
        /\ stage[n][t] \in Nat \ {0} /\ stage[n][t] + 1 <= Len(Route[t])
    BY <2>1, StageOfRoute DEF GatewayInv
  <2>3. QED BY <2>2
<1>3. /\ stage' \in [Nodes -> [Trains -> Nat \ {0}]] /\ stage'[n][t] = stage[n][t] + 1
      /\ \A m \in Nodes, u \in Trains : stage'[m][u] <= Len(Route[u])
  BY <1>1, <1>2, StageTypes DEF GatewayInv
<1>4. x \in Messages /\ MessageRight(x) = c
  <2>1. stage'[n][t] \in Nat \ {0} /\ stage'[n][t] <= Len(Route[t])
    BY <1>2, <1>3
  <2>2. "transfer" \in {"transfer", "left"} /\ 0 \in Nat
    OBVIOUS
  <2>3. x \in Messages /\ ("transfer" = "transfer" => MessageRight(x) = c)
    BY <1>2, <2>1, <2>2, MessageSent
  <2>4. QED BY <2>3
<1> HIDE DEF x, to, p
<1>5. c \in Rights /\ Carries("task", n, c) /\ ~ Carries("inbox", to, c)
  <2>1. c \in Rights /\ Carries("task", n, c)
    BY <1>1, TaskCarries, RightsDiffer
  <2>2. QED BY <1>2, <2>1, NotHere DEF GatewayInv, Kinds
<1>6. /\ InboxOnce' /\ inbox' \in [Nodes -> Seq(Messages)]
      /\ \A m \in Nodes, d \in Rights : Carries("inbox", m, d)' =>
             Carries("inbox", m, d) \/ (m = to /\ d = c)
  BY <1>1, <1>2, <1>4, <1>5, InboxGets DEF GatewayInv
<1>7. /\ task' \in [Nodes -> [Trains -> Locations]]
      /\ \A m \in Nodes, u \in Trains : m # n \/ u # t => task'[m][u] = task[m][u]
      /\ \A m \in Nodes, d \in Rights : Carries("task", m, d)' =>
             Carries("task", m, d) /\ ~ (m = n /\ d = c)
  BY <1>1, TaskGoesOn DEF GatewayInv, Locations
<1>8. TypeOK'
  <2>1. sending \in [Nodes -> Int]
    BY DEF GatewayInv, TypeOK
  <2>2. sending' \in [Nodes -> Int]
    BY <1>1, <2>1
  <2>3. QED BY <1>1, <1>3, <1>6, <1>7, <2>2 DEF GatewayInv, TypeOK, Locations
<1>9. \A k \in Kinds, m \in Nodes, d \in Rights : Carries(k, m, d)' =>
          \/ Carries(k, m, d) /\ ~ (k = "task" /\ m = n /\ d = c)
          \/ k = "inbox" /\ m = to /\ d = c
  BY <1>1, <1>6, <1>7, Unmoved DEF Kinds
<1>10. OneBearer'
  BY <1>2, <1>5, <1>9, OneMoves DEF GatewayInv, Kinds
<1>11. AnswersAwaited'
  <2>1. \A k \in Kinds, m, i \in Nodes, u \in Trains :
            Carries(k, m, AnswerRight(i, u))' => Carries(k, m, AnswerRight(i, u))
    BY <1>9, RightsDiffer
  <2>2. \A i \in Nodes, u \in Trains : task[i][u] = "telling" => task'[i][u] = "telling"
    BY <1>1, <1>7
  <2>3. QED BY <2>1, <2>2, AnswersStay DEF GatewayInv
<1>12. PoolOnce' /\ HandsOnce'
  BY <1>1 DEF GatewayInv, PoolOnce, HandsOnce
<1>13. QED BY <1>6, <1>8, <1>10, <1>11, <1>12 DEF GatewayInv

-----------------------------------------------------------------------------
(* Steps of dispatchers.                                                     *)

LEMMA RightOfMessage ==
    ASSUME NEW m \in Messages
    PROVE  MessageRight(m) \in Rights \cup {NoRight}
BY DEF Messages, MessageRight, Rights

\* The handler of a message begins: it stands for the right of the message.
LEMMA DispatchInv ==
    ASSUME GatewayAssumption, GatewayInv, NEW n \in Nodes, Dispatch(n)
    PROVE  GatewayInv'
<1> DEFINE m == Head(inbox[n])
           h == [id |-> FreeDispatcher(n), m |-> m, at |-> m.kind]
           c == MessageRight(m)
           q == Tail(inbox[n])
<1>1. /\ inbox[n] # <<>> /\ Cardinality(handling[n]) < Dispatchers[n]
      /\ inbox' = [inbox EXCEPT ![n] = q] /\ handling' = [handling EXCEPT ![n] = @ \cup {h}]
      /\ TransferHandler(n, m) \/ LeftHandler(n, m)
      /\ UNCHANGED <<pool, stopped, task, sending, lost>>
  BY DEF Dispatch
<1>2. inbox[n] \in Seq(Messages) /\ InboxApart(inbox[n]) /\ IsFiniteSet(handling[n])
  BY DEF GatewayInv, TypeOK, InboxOnce
<1>3. /\ m \in Messages /\ q \in Seq(Messages) /\ InboxApart(q) /\ InInbox(inbox[n], c)
      /\ \A d : InInbox(q, d) => InInbox(inbox[n], d) /\ (d # NoRight => d # c)
  BY <1>1, <1>2, InboxTail, HeadTailProperties
<1>4. FreeDispatcher(n) \in Nat \ {0}
  BY <1>1, <1>2, DispatcherFree
<1> HIDE DEF m, q
<1>5. h \in Handlers /\ HandlerRight(h) = c
  <2>1. /\ m.kind \in {"transfer", "left"}
        /\ h.id = FreeDispatcher(n) /\ h.m = m /\ h.at = m.kind
    BY <1>3 DEF Messages
  <2>2. h \in Handlers
    BY <1>3, <1>4, <2>1 DEF Handlers
  <2>3. QED BY <2>1, <2>2 DEF HandlerRight
<1> HIDE DEF h
<1>6. /\ InboxOnce' /\ inbox' \in [Nodes -> Seq(Messages)]
      /\ \A k \in Nodes, d \in Rights : Carries("inbox", k, d)' =>
             Carries("inbox", k, d) /\ (k = n => d # c)
  <2>1. \A d : InInbox(q, d) /\ d # NoRight => InInbox(inbox[n], d) /\ (TRUE => d # c)
    BY <1>3
  <2>2. QED BY <1>1, <1>3, <2>1, InboxLoses DEF GatewayInv
<1>7. c \in Rights \cup {NoRight} /\ Carries("inbox", n, c)
  BY <1>3, RightOfMessage DEF Carries
<1>8. c # NoRight => ~ Carries("handler", n, c)
  BY <1>7, NotHere DEF GatewayInv, Kinds
<1>9. /\ HandsOnce' /\ handling' \in [Nodes -> SUBSET Handlers]
      /\ \A k \in Nodes : IsFiniteSet(handling'[k])
      /\ \A k \in Nodes, d \in Rights : Carries("handler", k, d)' =>
             Carries("handler", k, d) \/ (k = n /\ d = c)
  BY <1>1, <1>5, <1>8, HandsGet DEF GatewayInv
<1>10. \A k \in Kinds, i \in Nodes, d \in Rights : Carries(k, i, d)' =>
          \/ Carries(k, i, d) /\ ~ (k = "inbox" /\ i = n /\ d = c)
          \/ k = "handler" /\ i = n /\ d = c
  BY <1>1, <1>6, <1>9, Unmoved DEF Kinds
<1>11. OneBearer'
  <2>1. CASE c \in Rights
    BY <1>7, <1>10, <2>1, OneMoves DEF GatewayInv, Kinds
  <2>2. CASE c = NoRight
    BY <1>10, <2>2, NoneArises, RightsDiffer DEF GatewayInv
  <2>3. QED BY <1>7, <2>1, <2>2
<1>12. AnswersAwaited'
  <2>1. SUFFICES ASSUME NEW k \in Kinds, NEW l \in Nodes, NEW i \in Nodes, NEW u \in Trains,
                        Carries(k, l, AnswerRight(i, u))'
                 PROVE  task[i][u] = "telling"
    BY <1>1 DEF AnswersAwaited
  <2>2. Carries(k, l, AnswerRight(i, u)) \/ Carries("inbox", n, AnswerRight(i, u))
    BY <1>7, <1>10, <2>1, RightsDiffer
  <2>3. QED BY <2>2 DEF GatewayInv, AnswersAwaited, Kinds
<1>13. order' \in [Nodes -> [Platforms -> Seq(Trains)]]
  <2>1. m.platform \in Platforms /\ m.train \in Trains
    BY <1>3 DEF Messages
  <2>2. QED BY <1>1, <2>1, PlatformTypes DEF GatewayInv, TransferHandler, LeftHandler
<1>14. /\ stage' \in [Nodes -> [Trains -> Nat \ {0}]]
       /\ \A k \in Nodes, u \in Trains : stage'[k][u] <= Len(Route[u])
  <2>1. m.train \in Trains /\ m.stage \in Nat \ {0} /\ m.stage <= Len(Route[m.train])
    BY <1>3 DEF Messages
  <2>2. CASE TransferHandler(n, m)
    BY <2>1, <2>2, StageTypes DEF GatewayInv, TransferHandler
  <2>3. CASE LeftHandler(n, m)
    BY <2>3 DEF GatewayInv, TypeOK, LeftHandler
  <2>4. QED BY <1>1, <2>2, <2>3
<1>15. TypeOK'
  BY <1>1, <1>6, <1>9, <1>13, <1>14 DEF GatewayInv, TypeOK
<1>16. PoolOnce'
  BY <1>1 DEF GatewayInv, PoolOnce
<1>17. QED BY <1>6, <1>9, <1>11, <1>12, <1>15, <1>16 DEF GatewayInv

LEMMA OccupyInv ==
    ASSUME GatewayInv, NEW n \in Nodes, NEW h \in handling[n], Occupy(n, h)
    PROVE  GatewayInv'
<1> DEFINE t == h.m.train
           c == TrainRight(t)
           g == [h EXCEPT !.at = "reply"]
<1>1. /\ h.at = "transfer" /\ pool' = [pool EXCEPT ![n] = Append(@, t)]
      /\ handling' = [handling EXCEPT ![n] = (@ \ {h}) \cup ToReply({g})]
      /\ UNCHANGED <<stage, order, stopped, task, sending, inbox, lost>>
  BY DEF Occupy
<1>2. h \in Handlers
  BY DEF GatewayInv, TypeOK
<1>3. h.m.kind = "transfer" /\ t \in Trains
  BY <1>1, <1>2 DEF Handlers, Messages
<1>4. g \in Handlers /\ HandlerRight(g) = NoRight
  <2>1. g \in Handlers /\ g.at = "reply" /\ g.m = h.m
    BY <1>2 DEF Handlers
  <2>2. QED BY <1>3, <2>1 DEF HandlerRight
<1>5. HandlerRight(h) = c /\ c \in Rights
  BY <1>1, <1>3, RightsDiffer DEF HandlerRight, MessageRight
<1>6. ToReply({g}) \in SUBSET {g}
  BY DEF ToReply
<1> HIDE DEF g, t
<1>7. Carries("handler", n, c) /\ ~ Carries("pool", n, c)
  <2>1. Carries("handler", n, c)
    BY <1>5 DEF Carries, InHands
  <2>2. QED BY <1>5, <2>1, NotHere DEF GatewayInv, Kinds
<1>8. /\ PoolOnce' /\ pool' \in [Nodes -> Seq(Trains)]
      /\ \A m \in Nodes, d \in Rights : Carries("pool", m, d)' =>
             Carries("pool", m, d) \/ (m = n /\ d = c)
  BY <1>1, <1>3, <1>7, PoolGets DEF GatewayInv
<1>9. /\ HandsOnce' /\ handling' \in [Nodes -> SUBSET Handlers]
      /\ \A k \in Nodes : IsFiniteSet(handling'[k])
      /\ \A k \in Nodes, d \in Rights : Carries("handler", k, d)' =>
             Carries("handler", k, d) /\ (k = n => d # c)
  <2> DEFINE G == (handling[n] \ {h}) \cup ToReply({g})
  <2>1. G \subseteq (handling[n] \ {h}) \cup {g} /\ handling' = [handling EXCEPT ![n] = G]
    BY <1>1, <1>6
  <2>2. HandlerRight(g) \in {HandlerRight(h), NoRight}
    BY <1>4
  <2> HIDE DEF G
  <2>3. /\ HandsOnce' /\ handling' \in [Nodes -> SUBSET Handlers]
        /\ \A k \in Nodes : IsFiniteSet(handling'[k])
        /\ \A k \in Nodes, d \in Rights : Carries("handler", k, d)' =>
               /\ Carries("handler", k, d)
               /\ k = n /\ d = HandlerRight(h) => HandlerRight(g) = d
    BY <1>4, <2>1, <2>2, HandsGoOn DEF GatewayInv
  <2>4. QED BY <1>4, <1>5, <2>3, RightsDiffer
<1>10. TypeOK'
  BY <1>1, <1>8, <1>9 DEF GatewayInv, TypeOK
<1>11. \A k \in Kinds, m \in Nodes, d \in Rights : Carries(k, m, d)' =>
          \/ Carries(k, m, d) /\ ~ (k = "handler" /\ m = n /\ d = c)
          \/ k = "pool" /\ m = n /\ d = c
  BY <1>1, <1>8, <1>9, Unmoved DEF Kinds
<1>12. OneBearer'
  BY <1>5, <1>7, <1>11, OneMoves DEF GatewayInv, Kinds
<1>13. AnswersAwaited'
  <2>1. \A k \in Kinds, m, i \in Nodes, u \in Trains :
            Carries(k, m, AnswerRight(i, u))' => Carries(k, m, AnswerRight(i, u))
    BY <1>11, RightsDiffer
  <2>2. QED BY <1>1, <2>1, AnswersStay DEF GatewayInv
<1>14. InboxOnce'
  BY <1>1 DEF GatewayInv, InboxOnce
<1>15. QED BY <1>8, <1>9, <1>10, <1>12, <1>13, <1>14 DEF GatewayInv

-----------------------------------------------------------------------------
(* Answers.                                                                  *)

\* Who answers a message that asks a task to go on has the right to: the task waits,
\* and nothing but its place changes.
LEMMA AnsweredEffect ==
    ASSUME GatewayInv, NEW m \in Messages, Answered(m), NEW k \in Kinds, NEW n \in Nodes,
           m.kind = "left" /\ MessageRight(m) # NoRight => Carries(k, n, MessageRight(m))
    PROVE  /\ UNCHANGED pool /\ task' \in [Nodes -> [Trains -> Locations]]
           /\ sending' \in [Nodes -> Int]
           /\ \A l \in Nodes, d \in Rights : Carries("task", l, d)' => Carries("task", l, d)
           /\ \A i \in Nodes, u \in Trains :
                  task'[i][u] = task[i][u] \/ (m.kind = "left" /\ MessageRight(m) = AnswerRight(i, u))
<1>1. /\ task \in [Nodes -> [Trains -> Locations]] /\ sending \in [Nodes -> Int]
      /\ m.from \in Nodes /\ m.train \in Trains /\ m.kind \in {"transfer", "left"}
  BY DEF GatewayInv, TypeOK, Locations, Messages
<1>2. CASE UNCHANGED <<task, pool, sending>>
  BY <1>1, <1>2, Unmoved
<1>3. CASE m.kind = "transfer" /\ UNCHANGED <<task, pool>> /\ sending' = [sending EXCEPT ![m.from] = @ - 1]
  <2>1. sending' \in [Nodes -> Int]
    BY <1>1, <1>3
  <2>2. QED BY <1>1, <1>3, <2>1, Unmoved
<1>4. CASE /\ m.kind = "left" /\ m.by = 0 /\ m.awaited
           /\ GoOn(m.from, m.train, "segment") /\ UNCHANGED <<pool, sending>>
  <2>1. MessageRight(m) = AnswerRight(m.from, m.train)
    BY <1>4 DEF MessageRight
  <2>2. task[m.from][m.train] = "telling"
    BY <1>1, <1>4, <2>1, RightsDiffer DEF GatewayInv, AnswersAwaited
  <2>3. Carries("task", m.from, TrainRight(m.train))
    BY <1>1, <2>2, TaskCarries
  <2>4. /\ task' \in [Nodes -> [Trains -> Locations]]
        /\ \A l \in Nodes, u \in Trains : l # m.from \/ u # m.train => task'[l][u] = task[l][u]
        /\ \A l \in Nodes, d \in Rights : Carries("task", l, d)' =>
               Carries("task", l, d) \/ (l = m.from /\ d = TrainRight(m.train))
    BY <1>1, <1>4, TaskGoesOn DEF GatewayInv, Locations
  <2>5. QED BY <1>1, <1>4, <2>1, <2>3, <2>4
<1>5. QED BY <1>1, <1>2, <1>3, <1>4 DEF Answered, StopExecution

\* When a message or its handler loses its right to answer, nobody else has it.
LEMMA AnsweredInv ==
    ASSUME GatewayInv, NEW m \in Messages, Answered(m), NEW k0 \in Kinds, NEW n0 \in Nodes,
           m.kind = "left" /\ MessageRight(m) # NoRight => Carries(k0, n0, MessageRight(m)),
           \A k \in Kinds \ {"pool", "task"}, n \in Nodes, d \in Rights : Carries(k, n, d)' =>
               /\ Carries(k, n, d)
               /\ k = k0 /\ n = n0 /\ m.kind = "left" => d # MessageRight(m)
    PROVE  /\ UNCHANGED pool /\ task' \in [Nodes -> [Trains -> Locations]]
           /\ sending' \in [Nodes -> Int]
           /\ PoolOnce' /\ OneBearer' /\ AnswersAwaited'
<1>1. /\ UNCHANGED pool /\ task' \in [Nodes -> [Trains -> Locations]]
      /\ sending' \in [Nodes -> Int]
      /\ \A l \in Nodes, d \in Rights : Carries("task", l, d)' => Carries("task", l, d)
      /\ \A i \in Nodes, u \in Trains :
             task'[i][u] = task[i][u] \/ (m.kind = "left" /\ MessageRight(m) = AnswerRight(i, u))
  BY AnsweredEffect
<1>2. \A k \in Kinds, n \in Nodes, d \in Rights : Carries(k, n, d)' => Carries(k, n, d)
  BY <1>1, Unmoved DEF Kinds
<1>3. OneBearer'
  BY <1>2, NoneArises DEF GatewayInv
<1>4. ASSUME NEW k \in Kinds, NEW n \in Nodes, NEW i \in Nodes, NEW u \in Trains,
             Carries(k, n, AnswerRight(i, u))'
      PROVE  Carries(k, n, AnswerRight(i, u)) /\ task'[i][u] = task[i][u]
  <2> DEFINE c == AnswerRight(i, u)
  <2>1. c \in Rights /\ c # NoRight
    BY RightsDiffer
  <2>2. Carries(k, n, c)
    BY <1>2, <1>4, <2>1
  <2>3. k \notin {"pool", "task"}
    <3>1. ~ InPool(pool[n], c) /\ ~ InTask(task[n], c)
      BY RightsDiffer DEF InPool, InTask
    <3>2. QED BY <2>2, <3>1 DEF Carries
  <2>4. ASSUME m.kind = "left", MessageRight(m) = c PROVE FALSE
    <3>1. Carries(k0, n0, c)
      BY <2>1, <2>4
    <3>2. k = k0 /\ n = n0
      BY <2>1, <2>2, <3>1 DEF GatewayInv, OneBearer
    <3>3. QED BY <1>4, <2>1, <2>3, <2>4, <3>2
  <2>5. QED BY <1>1, <2>2, <2>4
<1>5. AnswersAwaited'
  BY <1>4, AnswersStay DEF GatewayInv
<1>6. QED BY <1>1, <1>3, <1>5 DEF GatewayInv, PoolOnce

\* A handler that ends.
LEMMA FinishInv ==
    ASSUME GatewayInv, NEW n \in Nodes, NEW h \in handling[n], h.at # "transfer", Finish(n, h),
           UNCHANGED <<stage, order, stopped, inbox, lost>>
    PROVE  GatewayInv'
<1> DEFINE W(k) == IF k = h.m.from THEN WaitingFor(h.m) ELSE {}
           X(k) == IF k = n THEN {h} ELSE {}
           G(k) == {IF w \in W(k) THEN [w EXCEPT !.at = "reply"] ELSE w : w \in handling[k] \ X(k)}
<1>1. handling' = [k \in Nodes |-> G(k)] /\ Answered(h.m)
  <2>1. \A k \in Nodes :
          {IF k = h.m.from /\ w \in WaitingFor(h.m) THEN [w EXCEPT !.at = "reply"] ELSE w :
             w \in handling[k] \ (IF k = n THEN {h} ELSE {})} = G(k)
    OBVIOUS
  <2> HIDE DEF G
  <2>2. QED BY <2>1 DEF Finish
<1>2. h \in Handlers /\ h.m \in Messages
  BY DEF GatewayInv, TypeOK, Handlers
<1>3. ASSUME NEW k \in Nodes
      PROVE  /\ handling'[k] \in SUBSET Handlers /\ HandsApart(handling'[k])
             /\ IsFiniteSet(handling'[k])
             /\ \A d : InHands(handling'[k], d) => \E w \in handling[k] \ X(k) : HandlerRight(w) = d
  <2> DEFINE H == handling[k]
             g == handling'[k]
             V == W(k)
             Y == X(k)
  <2>1. \A w \in V : w.at = "telling"
    BY DEF WaitingFor
  <2>2. H \in SUBSET Handlers /\ HandsApart(H) /\ IsFiniteSet(H)
    BY DEF GatewayInv, TypeOK, HandsOnce
  <2>3. Woken(H, Y, V, g)
    BY <1>1, <2>1, <2>2 DEF Woken
  <2> HIDE DEF W, X, G, H, g, V, Y
  <2>4. /\ g \in SUBSET Handlers /\ HandsApart(g) /\ IsFiniteSet(g)
        /\ \A d : InHands(g, d) => \E w \in H \ Y : HandlerRight(w) = d
    BY <2>2, <2>3, HandsWoken
  <2>5. QED BY <2>4 DEF H, g, Y
<1>4. HandsOnce' /\ handling' \in [Nodes -> SUBSET Handlers] /\ \A k \in Nodes : IsFiniteSet(handling'[k])
  <2>1. handling' \in [Nodes -> SUBSET Handlers]
    <3> HIDE DEF G
    <3>1. \A k \in Nodes : G(k) \in SUBSET Handlers
      BY <1>1, <1>3
    <3>2. QED BY <1>1, <3>1
  <2>2. QED BY <1>3, <2>1 DEF HandsOnce
<1>5. \A k \in Nodes, d \in Rights : Carries("handler", k, d)' =>
          Carries("handler", k, d) /\ (k = n => d # HandlerRight(h))
  <2>1. SUFFICES ASSUME NEW k \in Nodes, NEW d \in Rights, Carries("handler", k, d)'
                 PROVE  Carries("handler", k, d) /\ (k = n => d # HandlerRight(h))
    OBVIOUS
  <2>2. InHands(handling'[k], d)
    BY <2>1 DEF Carries
  <2>3. PICK w \in handling[k] \ X(k) : HandlerRight(w) = d
    BY <1>3, <2>2
  <2>4. d # NoRight
    BY RightsDiffer
  <2>5. k = n => d # HandlerRight(h)
    BY <2>3, <2>4 DEF GatewayInv, HandsOnce, HandsApart
  <2>6. QED BY <2>3, <2>5 DEF Carries, InHands
<1> HIDE DEF W, X, G
<1>6. h.m.kind = "left" => HandlerRight(h) = MessageRight(h.m)
  BY DEF HandlerRight
<1>7. h.m.kind = "left" => Carries("handler", n, MessageRight(h.m))
  BY <1>6 DEF Carries, InHands
<1>8. \A k \in Kinds \ {"pool", "task"}, l \in Nodes, d \in Rights : Carries(k, l, d)' =>
          /\ Carries(k, l, d)
          /\ k = "handler" /\ l = n /\ h.m.kind = "left" => d # MessageRight(h.m)
  BY <1>5, <1>6, Unmoved DEF Kinds
<1>9. /\ UNCHANGED pool /\ task' \in [Nodes -> [Trains -> Locations]]
      /\ sending' \in [Nodes -> Int]
      /\ PoolOnce' /\ OneBearer' /\ AnswersAwaited'
  <2>1. "handler" \in Kinds
    BY DEF Kinds
  <2>2. QED BY <1>1, <1>2, <1>7, <1>8, <2>1, AnsweredInv
<1>10. TypeOK'
  BY <1>4, <1>9 DEF GatewayInv, TypeOK, Locations
<1>11. InboxOnce'
  BY DEF GatewayInv, InboxOnce
<1>12. QED BY <1>4, <1>9, <1>10, <1>11 DEF GatewayInv

LEMMA ReplyInv ==
    ASSUME GatewayInv, NEW n \in Nodes, NEW h \in handling[n], Reply(n, h)
    PROVE  GatewayInv'
<1>1. h.at # "transfer" /\ Finish(n, h) /\ UNCHANGED <<stage, order, stopped, inbox, lost>>
  BY DEF Reply
<1>2. QED BY <1>1, FinishInv

\* The message that is passed on carries no right: a dispatcher waits for its reply.
LEMMA PassOnInv ==
    ASSUME GatewayAssumption, GatewayInv, NEW n \in Nodes, NEW h \in handling[n], PassOn(n, h)
    PROVE  GatewayInv'
<1> DEFINE t == h.m.train
           x == Message("left", n, t, h.m.platform, h.id)
           g == [h EXCEPT !.at = "telling"]
<1>1. h.at = "left" /\ UNCHANGED <<stage, order, stopped, lost>>
  BY DEF PassOn
<1>2. CASE Finish(n, h) /\ UNCHANGED inbox
  BY <1>1, <1>2, FinishInv
<1>3. CASE /\ FromElsewhere(n, t) /\ Sent(x, Previous(n, t)) /\ MoveTo(n, h, "telling")
           /\ UNCHANGED <<pool, task, sending>>
  <2>1. h \in Handlers /\ h.id \in Nat /\ h.id # 0 /\ t \in Trains /\ h.m.platform \in Platforms
    <3>1. h \in Handlers
      BY DEF GatewayInv, TypeOK
    <3>2. h.id \in Nat \ {0} /\ h.m \in Messages
      BY <3>1 DEF Handlers
    <3>3. t \in Trains /\ h.m.platform \in Platforms
      BY <3>2 DEF Messages
    <3>4. QED BY <3>1, <3>2, <3>3
  <2>2. Previous(n, t) \in Nodes
    BY <1>3, <2>1, StageOfRoute DEF GatewayInv
  <2>3. x \in Messages /\ MessageRight(x) = NoRight
    <3>1. stage'[n][t] \in Nat \ {0} /\ stage'[n][t] <= Len(Route[t])
      <4>1. stage[n][t] \in Nat \ {0} /\ stage[n][t] <= Len(Route[t])
        BY <2>1, StageOfRoute DEF GatewayInv
      <4>2. stage' = stage
        BY <1>1
      <4>3. QED BY <4>1, <4>2
    <3>2. "left" \in {"transfer", "left"}
      OBVIOUS
    <3>3. x \in Messages /\ ("left" = "left" /\ h.id # 0 => MessageRight(x) = NoRight)
      BY <2>1, <3>1, <3>2, MessageSent
    <3>4. QED BY <2>1, <3>3
  <2>4. g \in Handlers /\ HandlerRight(g) = HandlerRight(h)
    <3>1. g \in Handlers /\ g.at = "telling" /\ g.m = h.m
      BY <2>1 DEF Handlers
    <3>2. QED BY <1>1, <3>1 DEF HandlerRight
  <2> DEFINE G == (handling[n] \ {h}) \cup {g}
  <2>5. handling' = [handling EXCEPT ![n] = G] /\ G \subseteq (handling[n] \ {h}) \cup {g}
    BY <1>3 DEF MoveTo
  <2> HIDE DEF x, t, g, G
  <2>6. /\ InboxOnce' /\ inbox' \in [Nodes -> Seq(Messages)]
        /\ \A k \in Nodes, d \in Rights : Carries("inbox", k, d)' => Carries("inbox", k, d)
    <3>1. /\ InboxOnce' /\ inbox' \in [Nodes -> Seq(Messages)]
          /\ \A k \in Nodes, d \in Rights : Carries("inbox", k, d)' =>
                 Carries("inbox", k, d) \/ (k = Previous(n, t) /\ d = MessageRight(x))
      BY <1>3, <2>2, <2>3, InboxGets DEF GatewayInv
    <3>2. QED BY <2>3, <3>1, RightsDiffer
  <2>7. /\ HandsOnce' /\ handling' \in [Nodes -> SUBSET Handlers]
        /\ \A k \in Nodes : IsFiniteSet(handling'[k])
        /\ \A k \in Nodes, d \in Rights : Carries("handler", k, d)' => Carries("handler", k, d)
    BY <2>4, <2>5, HandsGoOn DEF GatewayInv
  <2>8. \A k \in Kinds, m \in Nodes, d \in Rights : Carries(k, m, d)' => Carries(k, m, d)
    BY <1>3, <2>6, <2>7, Unmoved DEF Kinds
  <2>9. OneBearer'
    BY <2>8, NoneArises DEF GatewayInv
  <2>10. AnswersAwaited'
    BY <1>3, <2>8, AnswersStay, RightsDiffer DEF GatewayInv
  <2>11. TypeOK'
    BY <1>1, <1>3, <2>6, <2>7 DEF GatewayInv, TypeOK
  <2>12. PoolOnce'
    BY <1>3 DEF GatewayInv, PoolOnce
  <2>13. QED BY <2>6, <2>7, <2>9, <2>10, <2>11, <2>12 DEF GatewayInv
<1>4. QED BY <1>2, <1>3 DEF PassOn

-----------------------------------------------------------------------------
(* Losses, and the end of a node.                                            *)

LEMMA LoseMessageInv ==
    ASSUME GatewayInv, NEW n \in Nodes, LoseMessage(n)
    PROVE  GatewayInv'
<1>1. PICK i \in DOMAIN inbox[n] :
          /\ inbox[n][i].by = 0 /\ inbox[n][i].awaited
          /\ Answered(inbox[n][i])
          /\ \/ inbox' = [inbox EXCEPT ![n] = RemoveAt(@, i)]
             \/ inbox' = [inbox EXCEPT ![n][i] = Orphan(@)]
  BY DEF LoseMessage
<1>2. lost' = lost + 1 /\ UNCHANGED <<stage, order, stopped, handling>>
  BY DEF LoseMessage
<1> DEFINE q == inbox[n]
           m == q[i]
           c == MessageRight(m)
           asks == m.kind = "left"
<1>3. q \in Seq(Messages) /\ InboxApart(q) /\ m \in Messages
  <2>1. q \in Seq(Messages) /\ InboxApart(q)
    BY DEF GatewayInv, TypeOK, InboxOnce
  <2>2. QED BY <1>1, <2>1, LenProperties, ElementOfSeq
<1>4. \E r \in Seq(Messages) :
          /\ inbox' = [inbox EXCEPT ![n] = r] /\ InboxApart(r)
          /\ \A d : InInbox(r, d) /\ d # NoRight => InInbox(q, d) /\ (asks => d # c)
  <2>1. CASE inbox' = [inbox EXCEPT ![n] = RemoveAt(@, i)]
    <3> DEFINE r == RemoveAt(q, i)
    <3>1. inbox' = [inbox EXCEPT ![n] = r]
      BY <2>1
    <3> HIDE DEF q
    <3>2. /\ r \in Seq(Messages) /\ InboxApart(r)
          /\ \A d : InInbox(r, d) => InInbox(q, d) /\ (d # NoRight => d # MessageRight(q[i]))
      BY <1>1, <1>3, InboxRemove DEF q
    <3> HIDE DEF r
    <3>3. QED BY <3>1, <3>2
  <2>2. CASE inbox' = [inbox EXCEPT ![n][i] = Orphan(@)]
    <3> DEFINE r == [q EXCEPT ![i] = Orphan(@)]
    <3>1. inbox' = [inbox EXCEPT ![n] = r]
      BY <2>2
    <3>2. i \in DOMAIN q
      BY <1>1
    <3> HIDE DEF q
    <3>3. r = [q EXCEPT ![i] = Orphan(@)]
      OBVIOUS
    <3> HIDE DEF r
    <3>4. /\ r \in Seq(Messages) /\ InboxApart(r)
          /\ \A d : InInbox(r, d) /\ d # NoRight =>
                      InInbox(q, d) /\ (q[i].kind = "left" => d # MessageRight(q[i]))
      BY <1>3, <3>2, <3>3, InboxOrphan
    <3>5. QED BY <3>1, <3>4
  <2>3. QED BY <1>1, <2>1, <2>2
<1>5. Carries("inbox", n, c)
  BY <1>1 DEF Carries, InInbox
<1> DEFINE taken == asks
<1>6. PICK r \in Seq(Messages) :
          /\ inbox' = [inbox EXCEPT ![n] = r] /\ InboxApart(r)
          /\ \A d : InInbox(r, d) /\ d # NoRight => InInbox(inbox[n], d) /\ (asks => d # c)
  BY <1>4
<1>7. Answered(m)
  BY <1>1
<1>8. asks <=> m.kind = "left"
  OBVIOUS
<1> HIDE DEF q, m, asks
<1>9. /\ InboxOnce' /\ inbox' \in [Nodes -> Seq(Messages)]
      /\ \A k \in Nodes, d \in Rights : Carries("inbox", k, d)' =>
             Carries("inbox", k, d) /\ (asks /\ k = n => d # c)
  BY <1>6, InboxLoses DEF GatewayInv
<1>10. \A k \in Kinds \ {"pool", "task"}, l \in Nodes, d \in Rights : Carries(k, l, d)' =>
           /\ Carries(k, l, d)
           /\ k = "inbox" /\ l = n /\ m.kind = "left" => d # MessageRight(m)
  BY <1>2, <1>8, <1>9, Unmoved DEF Kinds
<1>11. /\ UNCHANGED pool /\ task' \in [Nodes -> [Trains -> Locations]]
       /\ sending' \in [Nodes -> Int]
       /\ PoolOnce' /\ OneBearer' /\ AnswersAwaited'
  <2>1. "inbox" \in Kinds
    BY DEF Kinds
  <2>2. QED BY <1>3, <1>5, <1>7, <1>10, <2>1, AnsweredInv
<1>12. TypeOK'
  BY <1>2, <1>9, <1>11 DEF GatewayInv, TypeOK, Locations
<1>13. HandsOnce'
  BY <1>2 DEF GatewayInv, HandsOnce
<1>14. QED BY <1>9, <1>11, <1>12, <1>13 DEF GatewayInv

LEMMA LoseReplyInv ==
    ASSUME GatewayInv, NEW n \in Nodes, NEW h \in handling[n], LoseReply(n, h)
    PROVE  GatewayInv'
<1> DEFINE g == [h EXCEPT !.m = Orphan(@)]
           G == (handling[n] \ {h}) \cup ToReply({g})
<1>1. /\ lost' = lost + 1 /\ Answered(h.m) /\ handling' = [handling EXCEPT ![n] = G]
      /\ UNCHANGED <<stage, order, stopped, inbox>>
  BY DEF LoseReply
<1>2. h \in Handlers /\ h.m \in Messages
  BY DEF GatewayInv, TypeOK, Handlers
<1>3. /\ Orphan(h.m) \in Messages /\ Orphan(h.m).kind = h.m.kind
      /\ MessageRight(Orphan(h.m)) =
             IF h.m.kind = "transfer" THEN MessageRight(h.m) ELSE NoRight
  BY <1>2, OrphanRight
<1>4. g \in Handlers /\ g.m = Orphan(h.m) /\ g.at = h.at
  BY <1>2, <1>3 DEF Handlers
<1>5. HandlerRight(g) = IF h.m.kind = "transfer" THEN HandlerRight(h) ELSE NoRight
  BY <1>3, <1>4 DEF HandlerRight
<1>6. G \subseteq (handling[n] \ {h}) \cup {g}
  BY DEF ToReply
<1>7. HandlerRight(g) \in {HandlerRight(h), NoRight}
  BY <1>5
<1> HIDE DEF g, G
<1>8. /\ HandsOnce' /\ handling' \in [Nodes -> SUBSET Handlers]
      /\ \A k \in Nodes : IsFiniteSet(handling'[k])
      /\ \A k \in Nodes, d \in Rights : Carries("handler", k, d)' =>
             /\ Carries("handler", k, d)
             /\ k = n /\ d = HandlerRight(h) => HandlerRight(g) = d
  BY <1>1, <1>4, <1>6, <1>7, HandsGoOn DEF GatewayInv
<1>9. h.m.kind = "left" => HandlerRight(h) = MessageRight(h.m)
  BY DEF HandlerRight
<1>10. h.m.kind = "left" => Carries("handler", n, MessageRight(h.m))
  BY <1>9 DEF Carries, InHands
<1>11. \A k \in Kinds \ {"pool", "task"}, l \in Nodes, d \in Rights : Carries(k, l, d)' =>
           /\ Carries(k, l, d)
           /\ k = "handler" /\ l = n /\ h.m.kind = "left" => d # MessageRight(h.m)
  <2>1. \A l \in Nodes, d \in Rights : Carries("inbox", l, d)' => Carries("inbox", l, d)
    BY <1>1, Unmoved
  <2>2. ASSUME NEW d \in Rights, Carries("handler", n, d)', h.m.kind = "left"
        PROVE  d # MessageRight(h.m)
    BY <1>5, <1>8, <1>9, <2>2, RightsDiffer
  <2>3. QED BY <1>8, <2>1, <2>2 DEF Kinds
<1>12. /\ UNCHANGED pool /\ task' \in [Nodes -> [Trains -> Locations]]
       /\ sending' \in [Nodes -> Int]
       /\ PoolOnce' /\ OneBearer' /\ AnswersAwaited'
  <2>1. "handler" \in Kinds
    BY DEF Kinds
  <2>2. QED BY <1>1, <1>2, <1>10, <1>11, <2>1, AnsweredInv
<1>13. TypeOK'
  BY <1>1, <1>8, <1>12 DEF GatewayInv, TypeOK, Locations
<1>14. InboxOnce'
  BY <1>1 DEF GatewayInv, InboxOnce
<1>15. QED BY <1>8, <1>12, <1>13, <1>14 DEF GatewayInv

\* What is said of the places does not depend on whether a node was stopped.
LEMMA StoppedInv ==
    ASSUME GatewayInv, UNCHANGED <<stage, order, pool, task, sending, inbox, handling, lost>>,
           stopped' \in [Nodes -> BOOLEAN]
    PROVE  GatewayInv'
<1>1. \A k, n, c : Carries(k, n, c)' <=> Carries(k, n, c)
  BY DEF Carries
<1>2. OneBearer' /\ AnswersAwaited'
  BY <1>1 DEF GatewayInv, OneBearer, AnswersAwaited
<1>3. PoolOnce' /\ InboxOnce' /\ HandsOnce' /\ TypeOK'
  BY DEF GatewayInv, PoolOnce, InboxOnce, HandsOnce, TypeOK
<1>4. QED BY <1>2, <1>3 DEF GatewayInv

-----------------------------------------------------------------------------
(* The invariant.                                                            *)

\* The trains of a node are put into its queue once, and there is one node a train
\* starts on.
LEMMA SetInOrder ==
    ASSUME NEW S, IsFiniteSet(S)
    PROVE  /\ SetToSeq(S) \in Seq(S)
           /\ \A i, j \in DOMAIN SetToSeq(S) : SetToSeq(S)[i] = SetToSeq(S)[j] => i = j
<1> DEFINE D == 1 .. Cardinality(S)
<1>1. Cardinality(S) \in Nat /\ ExistsBijection(D, S)
  BY FS_CardinalityType
<1>2. \E f \in [D -> S] : IsInjective(f)
  BY <1>1 DEF ExistsBijection, Bijection, Injection
<1>3. SetToSeq(S) \in [D -> S] /\ IsInjective(SetToSeq(S))
  BY <1>2 DEF SetToSeq
<1>4. QED BY <1>1, <1>3 DEF IsInjective

LEMMA GatewayInit ==
    ASSUME GatewayAssumption, Init
    PROVE  GatewayInv
<1> DEFINE mine(n) == {t \in Trains : Route[t][1].node = n}
<1>1. ASSUME NEW n \in Nodes
      PROVE  pool[n] \in Seq(Trains) /\ PoolApart(pool[n])
             /\ \A i \in DOMAIN pool[n] : pool[n][i] \in Trains /\ Route[pool[n][i]][1].node = n
  <2> DEFINE q == SetToSeq(mine(n))
  <2>1. IsFiniteSet(mine(n))
    BY FS_Subset DEF GatewayAssumption
  <2>2. q \in Seq(mine(n)) /\ \A i, j \in DOMAIN q : q[i] = q[j] => i = j
    BY <2>1, SetInOrder
  <2>3. pool[n] = q
    BY DEF Init
  <2> HIDE DEF q
  <2>4. q \in Seq(Trains)
    BY <2>2, SeqMonotonic
  <2>5. \A i \in DOMAIN q : q[i] \in mine(n)
    BY <2>2, LenProperties, ElementOfSeq
  <2>6. QED BY <2>2, <2>3, <2>4, <2>5 DEF PoolApart
<1>2. TypeOK
  <2>1. /\ stage = [n \in Nodes |-> [t \in Trains |-> 1]]
        /\ order = [n \in Nodes |-> [p \in Platforms |-> <<>>]]
        /\ stopped = [n \in Nodes |-> FALSE] /\ task = [n \in Nodes |-> [t \in Trains |-> "none"]]
        /\ sending = [n \in Nodes |-> 0] /\ inbox = [n \in Nodes |-> <<>>]
        /\ handling = [n \in Nodes |-> {}] /\ lost = 0
    BY DEF Init
  <2>2. pool \in [Nodes -> Seq(Trains)]
    BY <1>1 DEF Init
  <2>3. \A t \in Trains : Len(Route[t]) \in Nat \ {0}
    BY EmptySeq DEF GatewayAssumption
  <2>4. IsFiniteSet({}) /\ <<>> \in Seq(Trains) /\ <<>> \in Seq(Messages)
    BY FS_EmptySet, EmptySeq
  <2>5. order \in [Nodes -> [Platforms -> Seq(Trains)]] /\ inbox \in [Nodes -> Seq(Messages)]
    BY <2>1, <2>4
  <2>6. /\ stage \in [Nodes -> [Trains -> Nat \ {0}]]
        /\ \A n \in Nodes, t \in Trains : stage[n][t] <= Len(Route[t])
    BY <2>1, <2>3
  <2>7. QED BY <2>1, <2>2, <2>4, <2>5, <2>6 DEF TypeOK
<1>3. PoolOnce /\ InboxOnce /\ HandsOnce
  BY <1>1 DEF Init, PoolOnce, InboxOnce, HandsOnce, InboxApart, HandsApart
<1>4. ASSUME NEW k, NEW n \in Nodes, NEW c, Carries(k, n, c)
      PROVE  /\ k = "pool"
             /\ \E t \in Trains : c = TrainRight(t) /\ Route[t][1].node = n
  <2>1. ~ InInbox(inbox[n], c) /\ ~ InHands(handling[n], c) /\ ~ InTask(task[n], c)
    BY DEF Init, InInbox, InHands, InTask
  <2>2. k = "pool" /\ InPool(pool[n], c)
    BY <1>4, <2>1 DEF Carries
  <2>3. QED BY <1>1, <2>2 DEF InPool
<1>5. OneBearer
  BY <1>4, RightsDiffer DEF OneBearer
<1>6. AnswersAwaited
  BY <1>4, RightsDiffer DEF AnswersAwaited
<1>7. QED BY <1>2, <1>3, <1>5, <1>6 DEF GatewayInv

LEMMA GatewayNext ==
    ASSUME GatewayAssumption, GatewayInv, [Next]_vars
    PROVE  GatewayInv'
<1>1. CASE UNCHANGED vars
  BY <1>1, StoppedInv DEF vars, GatewayInv, TypeOK
<1>2. ASSUME NEW n \in Nodes, Dequeue(n) PROVE GatewayInv'
  BY <1>2, DequeueInv
<1>3. ASSUME NEW n \in Nodes, Dispatch(n) PROVE GatewayInv'
  BY <1>3, DispatchInv
<1>4. ASSUME NEW n \in Nodes, HandlerStep(n) PROVE GatewayInv'
  BY <1>4, OccupyInv, PassOnInv, ReplyInv DEF HandlerStep
<1>5. ASSUME NEW n \in Nodes, NEW t \in Trains, TaskStep(n, t) PROVE GatewayInv'
  BY <1>5, DepartInv, ArriveInv, NextStageInv, SendTrainInv DEF TaskStep
<1>6. ASSUME NEW n \in Nodes, LoseMessage(n) PROVE GatewayInv'
  BY <1>6, LoseMessageInv
<1>7. ASSUME NEW n \in Nodes, NEW h \in handling[n], LoseReply(n, h) PROVE GatewayInv'
  BY <1>7, LoseReplyInv
<1>8. ASSUME NEW n \in Nodes, Terminate(n) PROVE GatewayInv'
  BY <1>8, StoppedInv DEF Terminate, GatewayInv, TypeOK
<1>9. QED BY <1>1, <1>2, <1>3, <1>4, <1>5, <1>6, <1>7, <1>8 DEF Next

\* The places, counted.
LEMMA OneHolder ==
    ASSUME GatewayInv
    PROVE  OneExecutor
<1>1. ASSUME NEW n \in Nodes, NEW t \in Trains
      PROVE  LET A == {i \in DOMAIN pool[n] : pool[n][i] = t}
             IN  /\ Cardinality(A) \in {0, 1}
                 /\ Cardinality(A) = 1 => Carries("pool", n, TrainRight(t))
  <2> DEFINE A == {i \in DOMAIN pool[n] : pool[n][i] = t}
  <2>1. A = {} \/ \E i : A = {i}
    <3>1. \A i, j \in A : i = j
      BY DEF GatewayInv, PoolOnce, PoolApart
    <3> HIDE DEF A
    <3>2. QED BY <3>1
  <2>2. A # {} => Carries("pool", n, TrainRight(t))
    BY DEF Carries, InPool
  <2> HIDE DEF A
  <2>3. QED BY <2>1, <2>2, FS_EmptySet, FS_Singleton DEF A
<1>2. ASSUME NEW n \in Nodes, NEW t \in Trains
      PROVE  /\ Cardinality(Transfers(n, t)) \in {0, 1}
             /\ Cardinality(Transfers(n, t)) = 1 => Carries("inbox", n, TrainRight(t))
  <2>1. \A i \in Transfers(n, t) : i \in DOMAIN inbox[n] /\ MessageRight(inbox[n][i]) = TrainRight(t)
    BY DEF Transfers, MessageRight
  <2>2. Transfers(n, t) = {} \/ \E i : Transfers(n, t) = {i}
    BY <2>1, RightsDiffer DEF GatewayInv, InboxOnce, InboxApart
  <2>3. Transfers(n, t) # {} => Carries("inbox", n, TrainRight(t))
    BY <2>1 DEF Carries, InInbox
  <2>4. QED BY <2>2, <2>3, FS_EmptySet, FS_Singleton
<1>3. ASSUME NEW n \in Nodes, NEW t \in Trains
      PROVE  /\ Cardinality(Occupying(n, t)) \in {0, 1}
             /\ Cardinality(Occupying(n, t)) = 1 => Carries("handler", n, TrainRight(t))
  <2>1. \A h \in Occupying(n, t) : h \in handling[n] /\ HandlerRight(h) = TrainRight(t)
    <3>1. SUFFICES ASSUME NEW h \in Occupying(n, t)
                   PROVE  h \in handling[n] /\ HandlerRight(h) = TrainRight(t)
      OBVIOUS
    <3>2. h \in handling[n] /\ h.at = "transfer" /\ h.m.train = t
      BY DEF Occupying
    <3>3. h.m.kind = "transfer"
      BY <3>2 DEF GatewayInv, TypeOK, Handlers
    <3>4. QED BY <3>2, <3>3 DEF HandlerRight, MessageRight
  <2>2. Occupying(n, t) = {} \/ \E h : Occupying(n, t) = {h}
    BY <2>1, RightsDiffer DEF GatewayInv, HandsOnce, HandsApart
  <2>3. Occupying(n, t) # {} => Carries("handler", n, TrainRight(t))
    BY <2>1 DEF Carries, InHands
  <2>4. QED BY <2>2, <2>3, FS_EmptySet, FS_Singleton
<1>4. ASSUME NEW n \in Nodes, NEW t \in Trains
      PROVE  /\ Holders(n, t) \in 0 .. 1
             /\ Holders(n, t) > 0 => \E k \in Kinds : Carries(k, n, TrainRight(t))
  <2> DEFINE a == Cardinality({i \in DOMAIN pool[n] : pool[n][i] = t})
             b == Cardinality(Transfers(n, t))
             c == Cardinality(Occupying(n, t))
             d == IF Executing(n, t) THEN 1 ELSE 0
  <2>1. a \in {0, 1} /\ (a = 1 => Carries("pool", n, TrainRight(t)))
    BY <1>1
  <2>2. b \in {0, 1} /\ (b = 1 => Carries("inbox", n, TrainRight(t)))
    BY <1>2
  <2>3. c \in {0, 1} /\ (c = 1 => Carries("handler", n, TrainRight(t)))
    BY <1>3
  <2>4. d \in {0, 1} /\ (d = 1 => Carries("task", n, TrainRight(t)))
    BY TaskCarries DEF Executing
  <2>5. Holders(n, t) = a + b + c + d
    BY DEF Holders
  <2> HIDE DEF a, b, c, d
  <2>6. /\ ~ (a = 1 /\ b = 1) /\ ~ (a = 1 /\ c = 1) /\ ~ (a = 1 /\ d = 1)
        /\ ~ (b = 1 /\ c = 1) /\ ~ (b = 1 /\ d = 1) /\ ~ (c = 1 /\ d = 1)
    BY <2>1, <2>2, <2>3, <2>4, RightsDiffer DEF GatewayInv, OneBearer, Kinds
  <2>7. Holders(n, t) \in 0 .. 1
    BY <2>1, <2>2, <2>3, <2>4, <2>5, <2>6
  <2>8. Holders(n, t) > 0 => a = 1 \/ b = 1 \/ c = 1 \/ d = 1
    BY <2>1, <2>2, <2>3, <2>4, <2>5
  <2>9. QED BY <2>1, <2>2, <2>3, <2>4, <2>7, <2>8 DEF Kinds
<1>5. ASSUME NEW t \in Trains, NEW n \in Nodes, NEW k \in Nodes, n # k, Holders(n, t) > 0
      PROVE  Holders(k, t) = 0
  BY <1>4, <1>5, RightsDiffer DEF GatewayInv, OneBearer
<1>6. QED BY <1>4, <1>5 DEF OneExecutor

LEMMA GatewayInvariant ==
    ASSUME GatewayAssumption
    PROVE  Spec => []GatewayInv
<1>1. Init => GatewayInv
  BY GatewayInit, GatewayAssumption
<1>2. GatewayInv /\ [Next]_vars => GatewayInv'
  BY GatewayNext, GatewayAssumption
<1>3. QED BY <1>1, <1>2, PTL DEF Spec

\* Messages, handlers and queues are what their types say (handlers.adb,
\* train_pool.adb): no stage beyond a train's route is sent or taken.
THEOREM GatewayTypes ==
    ASSUME GatewayAssumption
    PROVE  Spec => []TypeOK
<1>1. GatewayInv => TypeOK
  BY DEF GatewayInv
<1>2. QED BY <1>1, GatewayInvariant, GatewayAssumption, PTL

\* Whatever is lost, delayed or stopped, a train is executed on one node, once
\* (Send_Train, Station_Train_Transfer_Handler, Gateway_Station.Leave).
THEOREM TrainsRunOnce ==
    ASSUME GatewayAssumption
    PROVE  Spec => []OneExecutor
<1>1. GatewayInv => OneExecutor
  BY OneHolder
<1>2. QED BY <1>1, GatewayInvariant, GatewayAssumption, PTL
=============================================================================
