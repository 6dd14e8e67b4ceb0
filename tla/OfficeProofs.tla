---------------------------- MODULE OfficeProofs ----------------------------
(***************************************************************************)
(* Proofs about the central ticket office.  The end of the simulation        *)
(* (Termination): the office counts its requests, has none in progress once  *)
(* a node was asked to terminate, and is itself the last to be stopped, for  *)
(* any number of requests, workers and nodes.  The seats it sells (Booking): *)
(* office, trains and tickets agree on runs and seats, for any routes,       *)
(* tables, requests and offers.                                              *)
(***************************************************************************)
EXTENDS Office, FiniteSetTheorems, SequenceTheorems, WellFoundedInduction, TLAPS

-----------------------------------------------------------------------------
(* The inductive invariant of the office.                                    *)

\* The messages that carry a request tell how far it has come.
StageOf == [resolve |-> "sent", Dispatch |-> "dispatched",
            CreationRequestResolved |-> "answered"]
Carries(m) == m.kind \in {"resolve", "Dispatch", "CreationRequestResolved"}
MailStages == {"sent", "dispatched", "answered"}

\* Every request has at most one message in a mailbox q; f is request.
Fits(q, f) ==
    /\ \A i \in 1..Len(q) : Carries(q[i]) => f[q[i].of] = StageOf[q[i].kind]
    /\ \A i, j \in 1..Len(q) : Carries(q[i]) /\ q[i] = q[j] => i = j

\* A request that waits for a worker does so once.
Waiting(q, f) ==
    /\ \A i \in 1..Len(q) : f[q[i]] = "queued"
    /\ \A i, j \in 1..Len(q) : q[i] = q[j] => i = j

\* A worker at work has a request that no other works on.
AtWork(f, v, g) ==
    \A w \in Workers : f[w] # None /\ v[w] = "react" =>
        /\ g[f[w]] = "working"
        /\ \A x \in Workers : f[x] = f[w] /\ v[x] = "react" => x = w

CurrentCounted ==
    Counting => current \in Requests /\ request[current] = "counted"

\* Whatever request is counted, it is one of finitely many.
CountedStages == Stages \ {"none", "sent", "done"}
Counted(f) == {r \in Requests : f[r] \in CountedStages}
Counts(n, f) == IsFiniteSet(Counted(f)) /\ n = Cardinality(Counted(f))

\* Once the office has acknowledged the marker, no request gets further than the
\* buffer, but in an early race the one that was dispatched.
Early == {"none", "sent", "counted", "buffered", "done"}
AcknowledgedWhenIdle ==
    /\ acks > 0 \/ yami = "marking" \/ actor \in {"buffering", "acknowledging"} => markerReceived
    /\ race # "none" => markerReceived /\ yami = "idle"
    /\ acks > 0 /\ race # "early" =>
          actor # "dispatching" /\ \A r \in Requests : request[r] \in Early

\* Where every read is the last value written nothing passes unseen.
RacesByStaleReads == race # "none" => StaleReads

OfficeInv ==
    /\ OfficeTypeOK
    /\ Fits(mailbox, request)
    /\ Waiting(asyncTasks, request)
    /\ AtWork(task, worker, request)
    /\ CurrentCounted
    /\ Counts(creationRequests, request)
    /\ AcknowledgedWhenIdle
    /\ RacesByStaleReads
-----------------------------------------------------------------------------
(* Mailboxes and queues.                                                     *)

LEMMA AppendFacts ==
    ASSUME NEW S, NEW q \in Seq(S), NEW x \in S
    PROVE  /\ Append(q, x) \in Seq(S) /\ Len(q) \in Nat
           /\ Len(Append(q, x)) = Len(q) + 1
           /\ Append(q, x)[Len(q) + 1] = x
           /\ \A i \in 1..Len(q) : Append(q, x)[i] = q[i]
OBVIOUS

LEMMA TailFacts ==
    ASSUME NEW S, NEW q \in Seq(S), q # <<>>
    PROVE  /\ Head(q) \in S /\ Head(q) = q[1] /\ Tail(q) \in Seq(S)
           /\ Len(q) \in Nat \ {0} /\ Len(Tail(q)) = Len(q) - 1
           /\ \A i \in 1..Len(Tail(q)) : i + 1 \in 1..Len(q) /\ Tail(q)[i] = q[i + 1]
BY HeadTailProperties, EmptySeq, LenProperties

\* One stage of one request changes.
Moved(f, r, s, f1) ==
    /\ f \in [Requests -> Stages] /\ r \in Requests /\ s \in Stages
    /\ f1 = [f EXCEPT ![r] = s]

LEMMA MovedFacts ==
    ASSUME NEW f, NEW r, NEW s, NEW f1, Moved(f, r, s, f1)
    PROVE  /\ f1 \in [Requests -> Stages] /\ r \in Requests /\ f1[r] = s
           /\ \A x \in Requests : x # r => f1[x] = f[x]
BY DEF Moved

\* Messages that carry the same request at the same stage are the same.
LEMMA Carriers ==
    ASSUME NEW m \in Messages, Carries(m)
    PROVE  /\ m.of \in Requests /\ StageOf[m.kind] \in MailStages
           /\ \A n \in Messages :
                 Carries(n) /\ n.of = m.of /\ StageOf[n.kind] = StageOf[m.kind] => n = m
BY DEF Messages, Carries, StageOf, MailStages

\* A request with no message in the mailbox moves.
LEMMA FitsKept ==
    ASSUME NEW q \in Seq(Messages), NEW f, NEW r, NEW s, NEW f1, Fits(q, f),
           Moved(f, r, s, f1), f[r] \notin MailStages
    PROVE  Fits(q, f1)
<1>1. ASSUME NEW i \in 1..Len(q), Carries(q[i]) PROVE f1[q[i].of] = StageOf[q[i].kind]
  <2>1. q[i] \in Messages /\ f[q[i].of] = StageOf[q[i].kind]
    BY <1>1 DEF Fits
  <2>2. q[i].of \in Requests /\ q[i].of # r
    BY <1>1, <2>1, Carriers
  <2> QED
    BY <2>1, <2>2, MovedFacts
<1> QED
  BY <1>1 DEF Fits

\* The request of the message taken moves.
LEMMA FitsTaken ==
    ASSUME NEW q \in Seq(Messages), NEW f, NEW s, NEW f1, Fits(q, f), q # <<>>,
           Carries(Head(q)), Moved(f, Head(q).of, s, f1)
    PROVE  Fits(Tail(q), f1)
<1>1. ASSUME NEW i \in 1..Len(Tail(q)), Carries(Tail(q)[i])
      PROVE  f1[Tail(q)[i].of] = StageOf[Tail(q)[i].kind]
  <2> DEFINE m == q[i + 1]
  <2>1. Tail(q)[i] = m /\ i + 1 \in 1..Len(q) /\ 1 \in 1..Len(q) /\ i + 1 # 1 /\ Head(q) = q[1]
    BY TailFacts
  <2>2. m \in Messages /\ q[1] \in Messages /\ Carries(m) /\ Carries(q[1]) /\ m # q[1]
    BY <1>1, <2>1 DEF Fits
  <2>3. f[m.of] = StageOf[m.kind] /\ f[q[1].of] = StageOf[q[1].kind]
    BY <2>1, <2>2 DEF Fits
  <2>4. m.of \in Requests /\ m.of # q[1].of
    BY <2>2, <2>3, Carriers
  <2> QED
    BY <2>1, <2>3, <2>4, MovedFacts
<1>2. ASSUME NEW i \in 1..Len(Tail(q)), NEW j \in 1..Len(Tail(q)), Carries(Tail(q)[i]),
             Tail(q)[i] = Tail(q)[j]
      PROVE  i = j
  BY <1>2, TailFacts DEF Fits
<1> QED
  BY <1>1, <1>2 DEF Fits

LEMMA FitsTail ==
    ASSUME NEW q \in Seq(Messages), NEW f, Fits(q, f), q # <<>>
    PROVE  Fits(Tail(q), f)
BY TailFacts DEF Fits

\* A message is sent with the stage that it tells.
LEMMA FitsSent ==
    ASSUME NEW q \in Seq(Messages), NEW f, NEW f1, NEW m \in Messages, Fits(q, f), Carries(m),
           Moved(f, m.of, StageOf[m.kind], f1), f[m.of] \notin MailStages
    PROVE  Fits(Append(q, m), f1)
<1>1. Fits(q, f1)
  BY FitsKept
<1>2. f1[m.of] = StageOf[m.kind]
  BY MovedFacts
<1>3. ASSUME NEW i \in 1..Len(q), Carries(q[i]) PROVE q[i] # m
  <2>1. q[i] \in Messages /\ f[q[i].of] = StageOf[q[i].kind]
    BY <1>3 DEF Fits
  <2> QED
    BY <1>3, <2>1, Carriers
<1> QED
  BY <1>1, <1>2, <1>3, AppendFacts DEF Fits

LEMMA FitsOther ==
    ASSUME NEW q \in Seq(Messages), NEW f, NEW m \in Messages, Fits(q, f), ~Carries(m)
    PROVE  Fits(Append(q, m), f)
BY AppendFacts DEF Fits

LEMMA WaitingKept ==
    ASSUME NEW q \in Seq(Requests), NEW f, NEW r, NEW s, NEW f1, Waiting(q, f),
           Moved(f, r, s, f1), f[r] # "queued"
    PROVE  Waiting(q, f1)
<1>1. ASSUME NEW i \in 1..Len(q) PROVE f1[q[i]] = "queued"
  BY MovedFacts, ElementOfSeq DEF Waiting
<1> QED
  BY <1>1 DEF Waiting

LEMMA WaitingJoined ==
    ASSUME NEW q \in Seq(Requests), NEW f, NEW r, NEW f1, Waiting(q, f),
           Moved(f, r, "queued", f1), f[r] # "queued"
    PROVE  Append(q, r) \in Seq(Requests) /\ Waiting(Append(q, r), f1)
<1>1. r \in Requests /\ f1[r] = "queued" /\ \A i \in 1..Len(q) : q[i] # r
  BY MovedFacts DEF Waiting
<1>2. Waiting(q, f1)
  BY WaitingKept
<1> QED
  BY <1>1, <1>2, AppendFacts DEF Waiting

LEMMA WaitingLeft ==
    ASSUME NEW q \in Seq(Requests), NEW f, NEW s, NEW f1, Waiting(q, f), q # <<>>,
           Moved(f, Head(q), s, f1)
    PROVE  f[Head(q)] = "queued" /\ Waiting(Tail(q), f1)
<1>1. /\ \A i \in 1..Len(Tail(q)) : Tail(q)[i] = q[i + 1] /\ i + 1 \in 1..Len(q) /\ i + 1 # 1
      /\ Head(q) = q[1] /\ 1 \in 1..Len(q) /\ Len(Tail(q)) \in Nat
  BY TailFacts
<1>2. ASSUME NEW i \in 1..Len(Tail(q)) PROVE f1[Tail(q)[i]] = "queued"
  <2>1. q[i + 1] # q[1] /\ f[q[i + 1]] = "queued" /\ q[i + 1] \in Requests
    BY <1>1, ElementOfSeq DEF Waiting
  <2> QED
    BY <1>1, <2>1, MovedFacts
<1> QED
  BY <1>1, <1>2 DEF Waiting

\* A request that nobody works on moves.
LEMMA WorkKept ==
    ASSUME NEW t, NEW v, NEW f, NEW r, NEW s, NEW f1, AtWork(t, v, f),
           t \in [Workers -> Requests \cup {None}], Moved(f, r, s, f1), f[r] # "working"
    PROVE  AtWork(t, v, f1)
BY MovedFacts DEF AtWork

\* A worker is given a request that nobody works on.
LEMMA WorkGiven ==
    ASSUME NEW t, NEW v, NEW f, NEW r, NEW f1, NEW w \in Workers, NEW t1, AtWork(t, v, f),
           t \in [Workers -> Requests \cup {None}], Moved(f, r, "working", f1),
           f[r] # "working", t1 = [t EXCEPT ![w] = r]
    PROVE  AtWork(t1, v, f1)
BY MovedFacts, OfficeAssumption DEF AtWork

\* A worker's request moves on and the worker is at work no more.
Rests(w, v, v1) == v1[w] # "react" /\ \A u \in Workers : u # w => v1[u] = v[u]

LEMMA WorkDone ==
    ASSUME NEW t \in [Workers -> Requests \cup {None}], NEW v, NEW f, NEW s, NEW f1,
           NEW w \in Workers, NEW v1,
           AtWork(t, v, f), v[w] = "react", t[w] # None, Moved(f, t[w], s, f1),
           Rests(w, v, v1)
    PROVE  f[t[w]] = "working" /\ AtWork(t, v1, f1)
<1>1. f[t[w]] = "working"
  BY DEF AtWork
<1>2. ASSUME NEW u \in Workers, t[u] # None, v1[u] = "react"
      PROVE  v[u] = "react" /\ t[u] # t[w] /\ f1[t[u]] = "working"
  <2>1. u # w /\ v[u] = "react" /\ t[u] # t[w]
    BY <1>2 DEF AtWork, Rests
  <2> QED
    BY <1>2, <2>1, MovedFacts DEF AtWork
<1> QED
  BY <1>1, <1>2 DEF AtWork

LEMMA WorkAskedFor ==
    ASSUME NEW t, NEW v, NEW f, NEW w \in Workers, NEW t1, NEW v1, AtWork(t, v, f),
           t \in [Workers -> Requests \cup {None}],
           v \in [Workers -> {"react", "answered", "dead"}],
           t1 = [t EXCEPT ![w] = None], v1 = [v EXCEPT ![w] = "react"]
    PROVE  AtWork(t1, v1, f)
BY DEF AtWork

\* The count follows the requests that are counted and resolved.
LEMMA CountKept ==
    ASSUME NEW n, NEW f, NEW r, NEW s, NEW f1, Counts(n, f), Moved(f, r, s, f1),
           f[r] \in CountedStages <=> s \in CountedStages
    PROVE  Counts(n, f1)
<1>1. Counted(f1) = Counted(f)
  BY MovedFacts DEF Counted
<1> QED
  BY <1>1 DEF Counts

LEMMA CountUp ==
    ASSUME NEW n, NEW f, NEW r, NEW s, NEW f1, Counts(n, f), Moved(f, r, s, f1),
           f[r] \notin CountedStages, s \in CountedStages
    PROVE  Counts(n + 1, f1)
<1>1. Counted(f1) = Counted(f) \cup {r} /\ r \notin Counted(f)
  BY MovedFacts DEF Counted
<1> QED
  BY <1>1, FS_AddElement DEF Counts

LEMMA CountDown ==
    ASSUME NEW n, NEW f, NEW r, NEW s, NEW f1, Counts(n, f), Moved(f, r, s, f1),
           f[r] \in CountedStages, s \notin CountedStages
    PROVE  Counts(n - 1, f1) /\ n - 1 \in Nat
<1>1. Counted(f1) = Counted(f) \ {r} /\ r \in Counted(f)
  BY MovedFacts DEF Counted
<1>2. Counts(n - 1, f1)
  BY <1>1, FS_RemoveElement DEF Counts
<1> QED
  BY <1>2, FS_CardinalityType DEF Counts

LEMMA CountZero ==
    ASSUME NEW f, Counts(0, f), f \in [Requests -> Stages]
    PROVE  \A r \in Requests : f[r] \in {"none", "sent", "done"}
<1>1. Counted(f) = {}
  BY FS_EmptySet DEF Counts
<1> QED
  BY <1>1 DEF Counted, CountedStages

LEMMA CountOne ==
    ASSUME NEW f, Counts(1, f), f \in [Requests -> Stages], NEW r \in Requests,
           f[r] \in CountedStages
    PROVE  \A x \in Requests : x # r => f[x] \in {"none", "sent", "done"}
<1>1. r \in Counted(f) /\ IsFiniteSet(Counted(f)) /\ Cardinality(Counted(f)) = 1
  BY DEF Counted, Counts
<1>2. IsFiniteSet(Counted(f) \ {r}) /\ Cardinality(Counted(f) \ {r}) = 0
  BY <1>1, FS_RemoveElement
<1>3. Counted(f) \ {r} = {}
  BY <1>2, FS_EmptySet
<1> QED
  BY <1>3 DEF Counted, CountedStages
-----------------------------------------------------------------------------
(* The steps of the office.                                                  *)

LEMMA Moves ==
    ASSUME OfficeTypeOK, NEW r \in Requests, NEW s \in Stages, MoveTo(r, s)
    PROVE  Moved(request, r, s, request') /\ request' \in [Requests -> Stages]
BY MovedFacts DEF OfficeTypeOK, MoveTo, Moved

\* A request moves among the stages up to the buffer.
LEMMA EarlyKept ==
    ASSUME AcknowledgedWhenIdle, NEW r, NEW s, Moved(request, r, s, request'),
           s \in Early \/ request[r] \notin Early,
           UNCHANGED <<acks, yami, markerReceived, race>>,
           actor' \in {actor, "counting", "resolving"}
    PROVE  AcknowledgedWhenIdle'
BY MovedFacts DEF AcknowledgedWhenIdle

LEMMA ResolveCallInv ==
    ASSUME OfficeInv, NEW r \in Requests, ResolveCall(r) PROVE OfficeInv'
<1> DEFINE m == Message("resolve", r)
<1>1. /\ yami = "idle" /\ request[r] = "none" /\ MoveTo(r, "sent")
      /\ mailbox' = Append(mailbox, m)
      /\ UNCHANGED <<actor, current, yami, sharedVars, queue, dispatchVars, workerVars,
                     nameServer, acks, race>>
  BY DEF ResolveCall
<1>2. Moved(request, r, "sent", request') /\ request' \in [Requests -> Stages]
  BY <1>1, Moves DEF OfficeInv, Stages
<1>3. m \in Messages /\ Carries(m) /\ m.of = r /\ StageOf[m.kind] = "sent"
  BY DEF Message, Messages, Carries, StageOf
<1>4. OfficeTypeOK'
  BY <1>1, <1>2, <1>3, AppendFacts
     DEF OfficeInv, OfficeTypeOK, sharedVars, dispatchVars, workerVars
<1>5. Fits(mailbox, request)'
  BY <1>1, <1>2, <1>3, FitsSent DEF OfficeInv, OfficeTypeOK, MailStages
<1>6. Waiting(asyncTasks, request)' /\ AtWork(task, worker, request)'
  BY <1>1, <1>2, WaitingKept, WorkKept DEF OfficeInv, OfficeTypeOK, dispatchVars, workerVars
<1>7. CurrentCounted'
  BY <1>1, <1>2, MovedFacts DEF OfficeInv, CurrentCounted, Counting
<1>8. Counts(creationRequests, request)'
  BY <1>1, <1>2, CountKept DEF OfficeInv, CountedStages, Stages, sharedVars
<1>9. AcknowledgedWhenIdle'
  BY <1>1, <1>2, EarlyKept DEF OfficeInv, Early, sharedVars
<1> QED
  BY <1>1, <1>4, <1>5, <1>6, <1>7, <1>8, <1>9 DEF OfficeInv, RacesByStaleReads

\* Nothing the controller, a marker or the name server does touches a request.
LEMMA RequestsKept ==
    ASSUME OfficeInv,
           UNCHANGED <<request, asyncTasks, task, worker, creationRequests>>
    PROVE  /\ Waiting(asyncTasks, request)' /\ AtWork(task, worker, request)'
           /\ Counts(creationRequests, request)'
BY DEF OfficeInv, Waiting, AtWork, Counts, Counted

LEMMA MarkerCallInv ==
    ASSUME OfficeInv, MarkerCall, nameServer' \in BOOLEAN PROVE OfficeInv'
<1>1. /\ yami = "idle" /\ UNCHANGED <<request, actor, current, creationRequests, queue,
                                      dispatchVars, workerVars, acks, race>>
      /\ \/ /\ markerReceived /\ mailbox' = Append(mailbox, Message("Stop", None))
            /\ UNCHANGED <<yami, markerReceived>>
         \/ /\ ~markerReceived /\ markerReceived' = TRUE /\ yami' = "marking"
            /\ UNCHANGED mailbox
  BY DEF MarkerCall
<1>2. Message("Stop", None) \in Messages /\ ~Carries(Message("Stop", None))
  BY DEF Message, Messages, Carries
<1>3. OfficeTypeOK'
  <2>1. Append(mailbox, Message("Stop", None)) \in Seq(Messages)
    BY <1>2, AppendFacts DEF OfficeInv, OfficeTypeOK
  <2>2. mailbox' \in Seq(Messages) /\ yami' \in {"idle", "marking"} /\ markerReceived' \in BOOLEAN
    BY <1>1, <2>1 DEF OfficeInv, OfficeTypeOK
  <2> QED
    BY <1>1, <2>2 DEF OfficeInv, OfficeTypeOK, dispatchVars, workerVars
<1>4. Fits(mailbox, request)'
  BY <1>1, <1>2, FitsOther DEF OfficeInv, OfficeTypeOK
<1>5. /\ Waiting(asyncTasks, request)' /\ AtWork(task, worker, request)'
      /\ Counts(creationRequests, request)'
  BY <1>1, RequestsKept DEF dispatchVars, workerVars
<1>6. CurrentCounted' /\ AcknowledgedWhenIdle'
  BY <1>1 DEF OfficeInv, CurrentCounted, Counting, AcknowledgedWhenIdle
<1> QED
  BY <1>1, <1>3, <1>4, <1>5, <1>6 DEF OfficeInv, RacesByStaleReads

\* The marker is acknowledged when the count is zero: no request is on its way.
LEMMA AcknowledgedAtZero ==
    ASSUME OfficeInv, creationRequests = 0
    PROVE  ~Counting /\ \A r \in Requests : request[r] \in Early
<1>1. \A r \in Requests : request[r] \in {"none", "sent", "done"}
  BY CountZero DEF OfficeInv, OfficeTypeOK
<1>2. ~Counting
  BY <1>1 DEF OfficeInv, CurrentCounted
<1> QED
  BY <1>1, <1>2 DEF Early

\* The thread finds none pending also while the only one is being counted.
LEMMA AcknowledgedOutdated ==
    ASSUME OfficeInv, NEW count \in CountRead, count = 0
    PROVE  \A r \in Requests : request[r] \in Early
<1>1. creationRequests \in Nat
  BY DEF OfficeInv, OfficeTypeOK
<1>2. creationRequests = 0 \/ (creationRequests = 1 /\ Counting)
  BY <1>1 DEF CountRead
<1>3. CASE creationRequests = 1 /\ Counting
  <2>1. current \in Requests /\ request[current] = "counted"
    BY <1>3 DEF OfficeInv, CurrentCounted
  <2>2. \A r \in Requests : r # current => request[r] \in {"none", "sent", "done"}
    BY <1>3, <2>1, CountOne DEF OfficeInv, OfficeTypeOK, CountedStages, Stages
  <2> QED
    BY <2>1, <2>2 DEF Early
<1> QED
  BY <1>2, <1>3, AcknowledgedAtZero

LEMMA TestPendingInv ==
    ASSUME OfficeInv, TestPending PROVE OfficeInv'
<1>1. /\ yami = "marking" /\ yami' = "idle"
      /\ UNCHANGED <<request, mailbox, actor, current, sharedVars, queue, dispatchVars,
                     workerVars, nameServer>>
  BY DEF TestPending
<1>2. PICK count \in CountRead :
          \/ /\ count = 0 /\ acks' = acks + 1
             /\ race' = IF actor = "dispatching" THEN "early" ELSE race
          \/ /\ count # 0 /\ acks' = acks
             /\ race' = IF actor = "returning" /\ creationRequests = 0 THEN "missed" ELSE race
  BY DEF TestPending, NonePending
<1>3. acks' \in Nat /\ race' \in {"none", "early", "missed"}
  BY <1>2 DEF OfficeInv, OfficeTypeOK
<1>4. OfficeTypeOK'
  BY <1>1, <1>3 DEF OfficeInv, OfficeTypeOK, sharedVars, dispatchVars, workerVars
<1>5. Fits(mailbox, request)' /\ CurrentCounted'
  BY <1>1 DEF OfficeInv, Fits, CurrentCounted, Counting
<1>6. /\ Waiting(asyncTasks, request)' /\ AtWork(task, worker, request)'
      /\ Counts(creationRequests, request)'
  BY <1>1, RequestsKept DEF sharedVars, dispatchVars, workerVars
<1>7. AcknowledgedWhenIdle'
  <2>1. CASE count = 0
    <3>1. \A r \in Requests : request[r] \in Early
      BY <2>1, AcknowledgedOutdated
    <3> QED
      BY <1>1, <1>2, <2>1, <3>1 DEF OfficeInv, AcknowledgedWhenIdle, sharedVars
  <2>2. CASE count # 0
    <3>1. acks' = acks /\ race = "none" /\ markerReceived
      BY <1>1, <1>2, <2>2 DEF OfficeInv, AcknowledgedWhenIdle
    <3> QED
      BY <1>1, <3>1 DEF OfficeInv, AcknowledgedWhenIdle, sharedVars
  <2> QED
    BY <2>1, <2>2
<1>8. RacesByStaleReads'
  <2> SUFFICES ASSUME ~StaleReads PROVE race' = race
    BY DEF OfficeInv, RacesByStaleReads
  <2>1. count = creationRequests
    BY DEF CountRead
  <2>2. count = 0 => actor # "dispatching"
    BY <2>1, AcknowledgedAtZero DEF Counting
  <2> QED
    BY <1>2, <2>1, <2>2
<1> QED
  BY <1>4, <1>5, <1>6, <1>7, <1>8 DEF OfficeInv

LEMMA ReceiveResolveInv ==
    ASSUME OfficeInv, ReceiveResolve PROVE OfficeInv'
<1> DEFINE r == Head(mailbox).of
<1>1. /\ mailbox # <<>> /\ Head(mailbox).kind = "resolve" /\ actor' = "counting"
      /\ MoveTo(r, "counted") /\ current' = r /\ mailbox' = Tail(mailbox)
      /\ creationRequests' = creationRequests + 1
      /\ UNCHANGED <<yami, markerReceived, queue, dispatchVars, workerVars, nameServer,
                     acks, race>>
  BY DEF ReceiveResolve, Receive, CountRequest
<1>2. /\ mailbox \in Seq(Messages) /\ Head(mailbox) \in Messages
      /\ Head(mailbox) = mailbox[1] /\ 1 \in 1..Len(mailbox) /\ Tail(mailbox) \in Seq(Messages)
  BY <1>1, TailFacts DEF OfficeInv, OfficeTypeOK
<1>3. Carries(Head(mailbox)) /\ r \in Requests /\ request[r] = "sent"
  BY <1>1, <1>2, Carriers DEF OfficeInv, Fits, Carries, StageOf
<1>4. Moved(request, r, "counted", request') /\ request' \in [Requests -> Stages]
  BY <1>1, <1>3, Moves DEF OfficeInv, Stages
<1>5. OfficeTypeOK'
  BY <1>1, <1>2, <1>3, <1>4 DEF OfficeInv, OfficeTypeOK, dispatchVars, workerVars
<1>6. Fits(mailbox, request)'
  BY <1>1, <1>2, <1>3, <1>4, FitsTaken DEF OfficeInv
<1>7. Waiting(asyncTasks, request)' /\ AtWork(task, worker, request)'
  BY <1>1, <1>3, <1>4, WaitingKept, WorkKept
     DEF OfficeInv, OfficeTypeOK, dispatchVars, workerVars
<1>8. CurrentCounted'
  BY <1>1, <1>3, <1>4, MovedFacts DEF CurrentCounted, Counting
<1>9. Counts(creationRequests, request)'
  BY <1>1, <1>3, <1>4, CountUp DEF OfficeInv, CountedStages, Stages
<1>10. AcknowledgedWhenIdle'
  BY <1>1, <1>4, EarlyKept DEF OfficeInv, Early
<1> QED
  BY <1>1, <1>5, <1>6, <1>7, <1>8, <1>9, <1>10 DEF OfficeInv, RacesByStaleReads

\* The actor reads the marker; having acknowledged it reads that it was received.
LEMMA TestMarkerInv ==
    ASSUME OfficeInv, TestMarker PROVE OfficeInv'
<1>1. UNCHANGED <<request, mailbox, current, yami, sharedVars, queue, dispatchVars,
                  workerVars, nameServer, acks, race>>
  BY DEF TestMarker
<1>2. PICK marker \in MarkerRead :
          \/ actor = "counting" /\ actor' = IF marker THEN "buffering" ELSE "dispatching"
          \/ actor = "resolving" /\ actor' = IF marker THEN "acknowledging" ELSE "returning"
  BY DEF TestMarker
<1>3. /\ actor' \in {"buffering", "dispatching", "acknowledging", "returning"}
      /\ actor' \in {"buffering", "acknowledging"} => marker
      /\ actor' = "dispatching" => ~marker
      /\ actor' \in {"buffering", "dispatching"} => actor = "counting"
  BY <1>2
<1>4. OfficeTypeOK'
  BY <1>1, <1>3 DEF OfficeInv, OfficeTypeOK, sharedVars, dispatchVars, workerVars
<1>5. Fits(mailbox, request)' /\ CurrentCounted' /\ RacesByStaleReads'
  BY <1>1, <1>3 DEF OfficeInv, Fits, CurrentCounted, Counting, RacesByStaleReads
<1>6. /\ Waiting(asyncTasks, request)' /\ AtWork(task, worker, request)'
      /\ Counts(creationRequests, request)'
  BY <1>1, RequestsKept DEF sharedVars, dispatchVars, workerVars
<1>7. AcknowledgedWhenIdle'
  <2>1. AcknowledgedWhenIdle /\ markerReceived \in BOOLEAN
    BY DEF OfficeInv, OfficeTypeOK
  <2>2. (marker => markerReceived) /\ (~marker => ~markerReceived \/ acks = 0)
    <3>1. marker = markerReceived \/ (~marker /\ acks = 0)
      BY DEF MarkerRead
    <3> QED
      BY <2>1, <3>1
  <2>3. ~marker => ~(acks > 0)
    BY <2>1, <2>2 DEF AcknowledgedWhenIdle
  <2> QED
    BY <1>1, <1>3, <2>1, <2>2, <2>3 DEF AcknowledgedWhenIdle, sharedVars
<1> QED
  BY <1>4, <1>5, <1>6, <1>7 DEF OfficeInv

\* A request is dispatched only while the marker is not acknowledged, or in an early race.
LEMMA BufferOrDispatchInv ==
    ASSUME OfficeInv, BufferOrDispatch PROVE OfficeInv'
<1> DEFINE m == Message("Dispatch", current)
<1>1. /\ actor' = "react" /\ current' = None
      /\ \/ /\ actor = "buffering" /\ MoveTo(current, "buffered")
            /\ queue' = Append(queue, current) /\ UNCHANGED mailbox
         \/ /\ actor = "dispatching" /\ MoveTo(current, "dispatched")
            /\ mailbox' = Append(mailbox, m) /\ UNCHANGED queue
      /\ UNCHANGED <<yami, sharedVars, dispatchVars, workerVars, nameServer, acks, race>>
  BY DEF BufferOrDispatch
<1>2. current \in Requests /\ request[current] = "counted"
  BY <1>1 DEF OfficeInv, CurrentCounted, Counting
<1>3. m \in Messages /\ Carries(m) /\ m.of = current /\ StageOf[m.kind] = "dispatched"
  BY <1>2 DEF Message, Messages, Carries, StageOf
<1>4. PICK s \in {"buffered", "dispatched"} :
          /\ MoveTo(current, s)
          /\ s = "buffered" => queue' = Append(queue, current) /\ UNCHANGED mailbox
          /\ s = "dispatched" =>
                actor = "dispatching" /\ mailbox' = Append(mailbox, m) /\ UNCHANGED queue
  BY <1>1
<1>5. Moved(request, current, s, request') /\ request' \in [Requests -> Stages]
  BY <1>2, <1>4, Moves DEF OfficeInv, Stages
<1>6. OfficeTypeOK'
  <2>1. mailbox' \in Seq(Messages) /\ queue' \in Seq(Requests)
    <3>1. mailbox \in Seq(Messages) /\ queue \in Seq(Requests)
      BY DEF OfficeInv, OfficeTypeOK
    <3>2. Append(queue, current) \in Seq(Requests) /\ Append(mailbox, m) \in Seq(Messages)
      BY <1>2, <1>3, <3>1, AppendFacts
    <3> QED
      BY <1>4, <3>1, <3>2
  <2> QED
    BY <1>1, <1>5, <2>1 DEF OfficeInv, OfficeTypeOK, sharedVars, dispatchVars, workerVars
<1>7. Fits(mailbox, request)'
  <2>1. /\ mailbox \in Seq(Messages) /\ Fits(mailbox, request)
        /\ request[current] \notin MailStages
    BY <1>2 DEF OfficeInv, OfficeTypeOK, MailStages
  <2>2. CASE s = "buffered"
    BY <1>4, <1>5, <2>1, <2>2, FitsKept
  <2>3. CASE s = "dispatched"
    <3>1. Moved(request, m.of, StageOf[m.kind], request')
      BY <1>3, <1>5, <2>3
    <3>2. Fits(Append(mailbox, m), request')
      BY <1>3, <2>1, <3>1, FitsSent
    <3> QED
      BY <1>4, <2>3, <3>2
  <2> QED
    BY <1>4, <2>2, <2>3
<1>8. Waiting(asyncTasks, request)' /\ AtWork(task, worker, request)'
  BY <1>1, <1>2, <1>5, WaitingKept, WorkKept
     DEF OfficeInv, OfficeTypeOK, dispatchVars, workerVars
<1>9. Counts(creationRequests, request)'
  BY <1>1, <1>2, <1>5, CountKept DEF OfficeInv, CountedStages, Stages, sharedVars
<1>10. AcknowledgedWhenIdle'
  <2>1. s = "buffered" \/ ~(acks > 0 /\ race # "early")
    BY <1>4 DEF OfficeInv, AcknowledgedWhenIdle
  <2> QED
    BY <1>1, <1>5, <2>1, MovedFacts DEF OfficeInv, AcknowledgedWhenIdle, Early, sharedVars
<1> QED
  BY <1>1, <1>6, <1>7, <1>8, <1>9, <1>10
     DEF OfficeInv, CurrentCounted, Counting, RacesByStaleReads

\* A request goes to a worker that waits, or to the queue.
LEMMA ReceiveDispatchInv ==
    ASSUME OfficeInv, ReceiveDispatch PROVE OfficeInv'
<1> DEFINE r == Head(mailbox).of
<1> DEFINE w == Head(waitingTicketCreationWorkers)
<1>1. /\ mailbox # <<>> /\ Head(mailbox).kind = "Dispatch" /\ mailbox' = Tail(mailbox)
      /\ \/ /\ waitingTicketCreationWorkers # <<>> /\ task' = [task EXCEPT ![w] = r]
            /\ waitingTicketCreationWorkers' = Tail(waitingTicketCreationWorkers)
            /\ MoveTo(r, "working") /\ UNCHANGED asyncTasks
         \/ /\ asyncTasks' = Append(asyncTasks, r) /\ MoveTo(r, "queued")
            /\ UNCHANGED <<task, waitingTicketCreationWorkers>>
      /\ UNCHANGED <<actor, current, yami, sharedVars, queue, worker, nodesAddresses,
                     nameServer, acks, race>>
  BY DEF ReceiveDispatch, Receive
<1>2. /\ mailbox \in Seq(Messages) /\ Head(mailbox) \in Messages
      /\ Head(mailbox) = mailbox[1] /\ 1 \in 1..Len(mailbox) /\ Tail(mailbox) \in Seq(Messages)
  BY <1>1, TailFacts DEF OfficeInv, OfficeTypeOK
<1>3. Carries(Head(mailbox)) /\ r \in Requests /\ request[r] = "dispatched"
  BY <1>1, <1>2, Carriers DEF OfficeInv, Fits, Carries, StageOf
<1>4. PICK s \in {"working", "queued"} :
          /\ MoveTo(r, s)
          /\ s = "working" => /\ waitingTicketCreationWorkers # <<>>
                              /\ task' = [task EXCEPT ![w] = r] /\ UNCHANGED asyncTasks
                              /\ waitingTicketCreationWorkers' = Tail(waitingTicketCreationWorkers)
          /\ s = "queued" => /\ asyncTasks' = Append(asyncTasks, r)
                             /\ UNCHANGED <<task, waitingTicketCreationWorkers>>
  BY <1>1
<1>5. Moved(request, r, s, request') /\ request' \in [Requests -> Stages]
  BY <1>3, <1>4, Moves DEF OfficeInv, Stages
<1>6. /\ waitingTicketCreationWorkers \in Seq(Workers) /\ task \in [Workers -> Requests \cup {None}]
      /\ asyncTasks \in Seq(Requests)
      /\ waitingTicketCreationWorkers # <<>> =>
            w \in Workers /\ Tail(waitingTicketCreationWorkers) \in Seq(Workers)
  BY TailFacts DEF OfficeInv, OfficeTypeOK
<1>7. Waiting(asyncTasks, request)' /\ asyncTasks' \in Seq(Requests)
  <2>1. Waiting(asyncTasks, request) /\ request[r] # "queued"
    BY <1>3 DEF OfficeInv
  <2>2. CASE s = "working"
    BY <1>4, <1>5, <1>6, <2>1, <2>2, WaitingKept
  <2>3. CASE s = "queued"
    <3>1. Append(asyncTasks, r) \in Seq(Requests) /\ Waiting(Append(asyncTasks, r), request')
      BY <1>5, <1>6, <2>1, <2>3, WaitingJoined
    <3> QED
      BY <1>4, <2>3, <3>1
  <2> QED
    BY <2>2, <2>3
<1>8. AtWork(task, worker, request)' /\ task' \in [Workers -> Requests \cup {None}]
  <2>1. worker' = worker /\ AtWork(task, worker, request)
    BY <1>1 DEF OfficeInv
  <2>2. CASE s = "working"
    BY <1>3, <1>4, <1>5, <1>6, <2>1, <2>2, WorkGiven
  <2>3. CASE s = "queued"
    BY <1>3, <1>4, <1>5, <1>6, <2>1, <2>3, WorkKept
  <2> QED
    BY <2>2, <2>3
<1>9. OfficeTypeOK'
  <2>1. waitingTicketCreationWorkers' \in Seq(Workers)
    BY <1>4, <1>6
  <2> QED
    BY <1>1, <1>2, <1>5, <1>7, <1>8, <2>1 DEF OfficeInv, OfficeTypeOK, sharedVars
<1>10. Fits(mailbox, request)'
  BY <1>1, <1>2, <1>3, <1>5, FitsTaken DEF OfficeInv
<1>11. CurrentCounted'
  BY <1>1, <1>3, <1>5, MovedFacts DEF OfficeInv, CurrentCounted, Counting
<1>12. Counts(creationRequests, request)'
  BY <1>1, <1>3, <1>5, CountKept DEF OfficeInv, CountedStages, Stages, sharedVars
<1>13. AcknowledgedWhenIdle'
  BY <1>1, <1>3, <1>5, EarlyKept DEF OfficeInv, Early, sharedVars
<1> QED
  BY <1>1, <1>7, <1>8, <1>9, <1>10, <1>11, <1>12, <1>13 DEF OfficeInv, RacesByStaleReads

\* A worker asks for a request and is given the first that waits.
LEMMA ReceiveRequestAsynchTaskInv ==
    ASSUME OfficeInv, ReceiveRequestAsynchTask PROVE OfficeInv'
<1> DEFINE w == Head(mailbox).of
<1> DEFINE r == Head(asyncTasks)
<1>1. /\ mailbox # <<>> /\ Head(mailbox).kind = "RequestAsynchTask"
      /\ mailbox' = Tail(mailbox)
      /\ UNCHANGED <<actor, current, yami, sharedVars, queue, worker, nodesAddresses,
                     nameServer, acks, race>>
  BY DEF ReceiveRequestAsynchTask, Receive
<1>2. /\ mailbox \in Seq(Messages) /\ Head(mailbox) \in Messages
      /\ Tail(mailbox) \in Seq(Messages)
  BY <1>1, TailFacts DEF OfficeInv, OfficeTypeOK
<1>3. w \in Workers
  BY <1>1, <1>2 DEF Messages
<1>4. Fits(Tail(mailbox), request)
  BY <1>1, <1>2, FitsTail DEF OfficeInv
<1>5. CASE /\ asyncTasks # <<>> /\ task' = [task EXCEPT ![w] = r] /\ MoveTo(r, "working")
           /\ asyncTasks' = Tail(asyncTasks) /\ UNCHANGED waitingTicketCreationWorkers
  <2>1. asyncTasks \in Seq(Requests) /\ r \in Requests /\ Tail(asyncTasks) \in Seq(Requests)
    BY <1>5, TailFacts DEF OfficeInv, OfficeTypeOK
  <2>2. Moved(request, r, "working", request') /\ request' \in [Requests -> Stages]
    BY <1>5, <2>1, Moves DEF OfficeInv, Stages
  <2>3. request[r] = "queued" /\ Waiting(asyncTasks, request)'
    BY <1>5, <2>1, <2>2, WaitingLeft DEF OfficeInv
  <2>4. task \in [Workers -> Requests \cup {None}] /\ AtWork(task, worker, request)
    BY DEF OfficeInv, OfficeTypeOK
  <2>5. AtWork(task, worker, request)'
    <3>1. worker' = worker /\ task' = [task EXCEPT ![w] = r] /\ request[r] # "working"
      BY <1>1, <1>5, <2>3
    <3> HIDE DEF r, w
    <3>2. AtWork(task', worker, request')
      BY <1>3, <2>2, <2>4, <3>1, WorkGiven
    <3> QED
      BY <3>1, <3>2
  <2>6. OfficeTypeOK'
    BY <1>1, <1>2, <1>3, <1>5, <2>1, <2>2 DEF OfficeInv, OfficeTypeOK, sharedVars
  <2>7. Fits(mailbox, request)'
    BY <1>1, <1>2, <1>4, <2>2, <2>3, FitsKept DEF MailStages
  <2>8. CurrentCounted'
    BY <1>1, <2>2, <2>3, MovedFacts DEF OfficeInv, CurrentCounted, Counting
  <2>9. Counts(creationRequests, request)'
    BY <1>1, <2>2, <2>3, CountKept DEF OfficeInv, CountedStages, Stages, sharedVars
  <2>10. AcknowledgedWhenIdle'
    BY <1>1, <2>2, <2>3, EarlyKept DEF OfficeInv, Early, sharedVars
  <2> QED
    BY <1>1, <2>3, <2>5, <2>6, <2>7, <2>8, <2>9, <2>10 DEF OfficeInv, RacesByStaleReads
<1>6. CASE /\ waitingTicketCreationWorkers' = Append(waitingTicketCreationWorkers, w)
           /\ UNCHANGED <<task, asyncTasks, request>>
  <2>1. waitingTicketCreationWorkers' \in Seq(Workers)
    BY <1>3, <1>6, AppendFacts DEF OfficeInv, OfficeTypeOK
  <2>2. OfficeTypeOK'
    BY <1>1, <1>2, <1>6, <2>1 DEF OfficeInv, OfficeTypeOK, sharedVars
  <2>3. /\ Waiting(asyncTasks, request)' /\ AtWork(task, worker, request)'
        /\ Counts(creationRequests, request)'
    BY <1>1, <1>6, RequestsKept DEF sharedVars
  <2>4. Fits(mailbox, request)' /\ CurrentCounted' /\ AcknowledgedWhenIdle'
    BY <1>1, <1>4, <1>6 DEF OfficeInv, CurrentCounted, Counting, AcknowledgedWhenIdle, sharedVars
  <2> QED
    BY <1>1, <2>2, <2>3, <2>4 DEF OfficeInv, RacesByStaleReads
<1> QED
  BY <1>5, <1>6 DEF ReceiveRequestAsynchTask

LEMMA ReceiveCreationRequestResolvedInv ==
    ASSUME OfficeInv, ReceiveCreationRequestResolved PROVE OfficeInv'
<1> DEFINE r == Head(mailbox).of
<1>1. /\ mailbox # <<>> /\ Head(mailbox).kind = "CreationRequestResolved"
      /\ actor' = "resolving" /\ MoveTo(r, "done") /\ mailbox' = Tail(mailbox)
      /\ creationRequests' = creationRequests - 1
      /\ UNCHANGED <<current, yami, markerReceived, queue, dispatchVars, workerVars,
                     nameServer, acks, race>>
  BY DEF ReceiveCreationRequestResolved, Receive, RequestResolved
<1>2. /\ mailbox \in Seq(Messages) /\ Head(mailbox) \in Messages
      /\ Head(mailbox) = mailbox[1] /\ 1 \in 1..Len(mailbox) /\ Tail(mailbox) \in Seq(Messages)
  BY <1>1, TailFacts DEF OfficeInv, OfficeTypeOK
<1>3. Carries(Head(mailbox)) /\ r \in Requests /\ request[r] = "answered"
  BY <1>1, <1>2, Carriers DEF OfficeInv, Fits, Carries, StageOf
<1>4. Moved(request, r, "done", request') /\ request' \in [Requests -> Stages]
  BY <1>1, <1>3, Moves DEF OfficeInv, Stages
<1>5. Counts(creationRequests, request)' /\ creationRequests' \in Nat
  BY <1>1, <1>3, <1>4, CountDown DEF OfficeInv, CountedStages, Stages
<1>6. OfficeTypeOK'
  BY <1>1, <1>2, <1>4, <1>5 DEF OfficeInv, OfficeTypeOK, dispatchVars, workerVars
<1>7. Fits(mailbox, request)'
  BY <1>1, <1>2, <1>3, <1>4, FitsTaken DEF OfficeInv
<1>8. Waiting(asyncTasks, request)' /\ AtWork(task, worker, request)'
  BY <1>1, <1>3, <1>4, WaitingKept, WorkKept
     DEF OfficeInv, OfficeTypeOK, dispatchVars, workerVars
<1>9. CurrentCounted' /\ AcknowledgedWhenIdle'
  BY <1>1, <1>4, EarlyKept DEF OfficeInv, CurrentCounted, Counting, Early
<1> QED
  BY <1>1, <1>5, <1>6, <1>7, <1>8, <1>9 DEF OfficeInv, RacesByStaleReads

LEMMA AckWhenLastInv ==
    ASSUME OfficeInv, AckWhenLast PROVE OfficeInv'
<1>1. /\ actor' = "react"
      /\ acks' = IF actor = "acknowledging" /\ creationRequests = 0 THEN acks + 1 ELSE acks
      /\ UNCHANGED <<request, mailbox, current, yami, sharedVars, queue, dispatchVars,
                     workerVars, nameServer, race>>
  BY DEF AckWhenLast, NonePending
<1>2. OfficeTypeOK'
  BY <1>1 DEF OfficeInv, OfficeTypeOK, sharedVars, dispatchVars, workerVars
<1>3. Fits(mailbox, request)' /\ CurrentCounted'
  BY <1>1 DEF OfficeInv, Fits, CurrentCounted, Counting
<1>4. /\ Waiting(asyncTasks, request)' /\ AtWork(task, worker, request)'
      /\ Counts(creationRequests, request)'
  BY <1>1, RequestsKept DEF sharedVars, dispatchVars, workerVars
<1>5. AcknowledgedWhenIdle'
  BY <1>1, AcknowledgedAtZero DEF OfficeInv, AcknowledgedWhenIdle, sharedVars
<1> QED
  BY <1>1, <1>2, <1>3, <1>4, <1>5 DEF OfficeInv, RacesByStaleReads

LEMMA ReceiveStopInv ==
    ASSUME OfficeInv, ReceiveStop PROVE OfficeInv'
<1>1. /\ mailbox # <<>> /\ actor' = "stopped" /\ mailbox' = Tail(mailbox)
      /\ UNCHANGED <<request, current, yami, sharedVars, queue, dispatchVars, workerVars,
                     nameServer, acks, race>>
  BY DEF ReceiveStop, Receive
<1>2. Tail(mailbox) \in Seq(Messages) /\ Fits(Tail(mailbox), request)
  BY <1>1, TailFacts, FitsTail DEF OfficeInv, OfficeTypeOK
<1>3. OfficeTypeOK'
  BY <1>1, <1>2 DEF OfficeInv, OfficeTypeOK, sharedVars, dispatchVars, workerVars
<1>4. /\ Waiting(asyncTasks, request)' /\ AtWork(task, worker, request)'
      /\ Counts(creationRequests, request)'
  BY <1>1, RequestsKept DEF sharedVars, dispatchVars, workerVars
<1>5. Fits(mailbox, request)' /\ CurrentCounted' /\ AcknowledgedWhenIdle'
  BY <1>1, <1>2 DEF OfficeInv, CurrentCounted, Counting, AcknowledgedWhenIdle, sharedVars
<1> QED
  BY <1>1, <1>3, <1>4, <1>5 DEF OfficeInv, RacesByStaleReads
-----------------------------------------------------------------------------
(* The steps of the workers.                                                 *)

LEMMA GetNodesAddressListInv ==
    ASSUME OfficeInv, NEW w \in Workers, GetNodesAddressList(w) PROVE OfficeInv'
<1>1. /\ nodesAddresses' = nodesAddresses \cup {w}
      /\ UNCHANGED <<request, mailbox, actor, current, yami, sharedVars, queue,
                     dispatchVars, task, worker, nameServer, acks, race>>
  BY DEF GetNodesAddressList
<1>2. OfficeTypeOK'
  BY <1>1 DEF OfficeInv, OfficeTypeOK, sharedVars, dispatchVars
<1>3. /\ Waiting(asyncTasks, request)' /\ AtWork(task, worker, request)'
      /\ Counts(creationRequests, request)'
  BY <1>1, RequestsKept DEF sharedVars, dispatchVars
<1>4. Fits(mailbox, request)' /\ CurrentCounted' /\ AcknowledgedWhenIdle'
  BY <1>1 DEF OfficeInv, CurrentCounted, Counting, AcknowledgedWhenIdle, sharedVars
<1> QED
  BY <1>1, <1>2, <1>3, <1>4 DEF OfficeInv, RacesByStaleReads

\* A worker without the list of the nodes loses its request, which stays counted.
LEMMA NoAddressListInv ==
    ASSUME OfficeInv, NEW w \in Workers, NoAddressList(w) PROVE OfficeInv'
<1> DEFINE r == task[w]
<1>1. /\ r # None /\ worker[w] = "react" /\ MoveTo(r, "lost")
      /\ worker' = [worker EXCEPT ![w] = "dead"]
      /\ UNCHANGED <<mailbox, actor, current, yami, sharedVars, queue, dispatchVars, task,
                     nodesAddresses, nameServer, acks, race>>
  BY DEF NoAddressList
<1>2. /\ r \in Requests /\ task \in [Workers -> Requests \cup {None}]
      /\ worker \in [Workers -> {"react", "answered", "dead"}]
  BY <1>1 DEF OfficeInv, OfficeTypeOK
<1>3. Moved(request, r, "lost", request') /\ request' \in [Requests -> Stages]
  BY <1>1, <1>2, Moves DEF OfficeInv, Stages
<1>4. request[r] = "working" /\ AtWork(task, worker, request)'
  <2>1. AtWork(task, worker, request) /\ task' = task
    BY <1>1 DEF OfficeInv
  <2>2. Rests(w, worker, worker')
    BY <1>1, <1>2 DEF Rests
  <2>3. Moved(request, task[w], "lost", request')
    BY <1>3
  <2>4. request[r] = "working" /\ AtWork(task, worker', request')
    <3>1. task \in [Workers -> Requests \cup {None}] /\ worker[w] = "react" /\ task[w] # None
      BY <1>1, <1>2
    <3>2. AtWork(task, worker', request')
      BY <2>1, <2>2, <2>3, <3>1, WorkDone
    <3>3. request[task[w]] = "working"
      BY <2>1, <2>2, <2>3, <3>1, WorkDone
    <3> QED
      BY <3>2, <3>3
  <2> QED
    BY <2>1, <2>4
<1>5. OfficeTypeOK'
  BY <1>1, <1>2, <1>3 DEF OfficeInv, OfficeTypeOK, sharedVars, dispatchVars
<1>6. Fits(mailbox, request)' /\ Waiting(asyncTasks, request)'
  BY <1>1, <1>3, <1>4, FitsKept, WaitingKept
     DEF OfficeInv, OfficeTypeOK, MailStages, dispatchVars
<1>7. CurrentCounted'
  BY <1>1, <1>3, <1>4, MovedFacts DEF OfficeInv, CurrentCounted, Counting
<1>8. Counts(creationRequests, request)'
  BY <1>1, <1>3, <1>4, CountKept DEF OfficeInv, CountedStages, Stages, sharedVars
<1>9. AcknowledgedWhenIdle'
  BY <1>1, <1>3, <1>4, EarlyKept DEF OfficeInv, Early, sharedVars
<1> QED
  BY <1>1, <1>4, <1>5, <1>6, <1>7, <1>8, <1>9 DEF OfficeInv, RacesByStaleReads

LEMMA AnswerInv ==
    ASSUME OfficeInv, NEW w \in Workers, Answer(w) PROVE OfficeInv'
<1> DEFINE r == task[w]
<1> DEFINE m == Message("CreationRequestResolved", r)
<1>1. /\ r # None /\ worker[w] = "react" /\ MoveTo(r, "answered")
      /\ worker' = [worker EXCEPT ![w] = "answered"]
      /\ mailbox' = Append(mailbox, m)
      /\ UNCHANGED <<actor, current, yami, sharedVars, queue, dispatchVars, task,
                     nodesAddresses, nameServer, acks, race>>
  BY DEF Answer
<1>2. /\ r \in Requests /\ task \in [Workers -> Requests \cup {None}]
      /\ worker \in [Workers -> {"react", "answered", "dead"}]
  BY <1>1 DEF OfficeInv, OfficeTypeOK
<1>3. Moved(request, r, "answered", request') /\ request' \in [Requests -> Stages]
  BY <1>1, <1>2, Moves DEF OfficeInv, Stages
<1>4. request[r] = "working" /\ AtWork(task, worker, request)'
  <2>1. AtWork(task, worker, request) /\ task' = task
    BY <1>1 DEF OfficeInv
  <2>2. Rests(w, worker, worker')
    BY <1>1, <1>2 DEF Rests
  <2>3. Moved(request, task[w], "answered", request')
    BY <1>3
  <2>4. request[r] = "working" /\ AtWork(task, worker', request')
    <3>1. task \in [Workers -> Requests \cup {None}] /\ worker[w] = "react" /\ task[w] # None
      BY <1>1, <1>2
    <3>2. AtWork(task, worker', request')
      BY <2>1, <2>2, <2>3, <3>1, WorkDone
    <3>3. request[task[w]] = "working"
      BY <2>1, <2>2, <2>3, <3>1, WorkDone
    <3> QED
      BY <3>2, <3>3
  <2> QED
    BY <2>1, <2>4
<1>5. m \in Messages /\ Carries(m) /\ m.of = r /\ StageOf[m.kind] = "answered"
  BY <1>2 DEF Message, Messages, Carries, StageOf
<1>6. mailbox \in Seq(Messages) /\ Append(mailbox, m) \in Seq(Messages)
  BY <1>5, AppendFacts DEF OfficeInv, OfficeTypeOK
<1>7. OfficeTypeOK'
  BY <1>1, <1>2, <1>3, <1>6 DEF OfficeInv, OfficeTypeOK, sharedVars, dispatchVars
<1>8. Fits(mailbox, request)'
  BY <1>1, <1>3, <1>4, <1>5, <1>6, FitsSent DEF OfficeInv, MailStages
<1>9. Waiting(asyncTasks, request)'
  BY <1>1, <1>3, <1>4, WaitingKept DEF OfficeInv, OfficeTypeOK, dispatchVars
<1>10. CurrentCounted'
  BY <1>1, <1>3, <1>4, MovedFacts DEF OfficeInv, CurrentCounted, Counting
<1>11. Counts(creationRequests, request)'
  BY <1>1, <1>3, <1>4, CountKept DEF OfficeInv, CountedStages, Stages, sharedVars
<1>12. AcknowledgedWhenIdle'
  BY <1>1, <1>3, <1>4, EarlyKept DEF OfficeInv, Early, sharedVars
<1> QED
  BY <1>1, <1>4, <1>7, <1>8, <1>9, <1>10, <1>11, <1>12 DEF OfficeInv, RacesByStaleReads

LEMMA RequestTaskInv ==
    ASSUME OfficeInv, NEW w \in Workers, RequestTask(w) PROVE OfficeInv'
<1> DEFINE m == Message("RequestAsynchTask", w)
<1>1. /\ worker' = [worker EXCEPT ![w] = "react"] /\ task' = [task EXCEPT ![w] = None]
      /\ mailbox' = Append(mailbox, m)
      /\ UNCHANGED <<request, actor, current, yami, sharedVars, queue, dispatchVars,
                     nodesAddresses, nameServer, acks, race>>
  BY DEF RequestTask
<1>2. m \in Messages /\ ~Carries(m)
  BY DEF Message, Messages, Carries
<1>3. mailbox' \in Seq(Messages) /\ Fits(mailbox, request)'
  BY <1>1, <1>2, AppendFacts, FitsOther DEF OfficeInv, OfficeTypeOK
<1>4. OfficeTypeOK'
  BY <1>1, <1>3 DEF OfficeInv, OfficeTypeOK, sharedVars, dispatchVars
<1>5. AtWork(task, worker, request)'
  BY <1>1, WorkAskedFor DEF OfficeInv, OfficeTypeOK
<1>6. Waiting(asyncTasks, request)' /\ Counts(creationRequests, request)'
  BY <1>1 DEF OfficeInv, Waiting, Counts, Counted, sharedVars, dispatchVars
<1>7. CurrentCounted' /\ AcknowledgedWhenIdle'
  BY <1>1 DEF OfficeInv, CurrentCounted, Counting, AcknowledgedWhenIdle, sharedVars
<1> QED
  BY <1>1, <1>3, <1>4, <1>5, <1>6, <1>7 DEF OfficeInv, RacesByStaleReads

\* The office alone.
LEMMA OfficeSteps ==
    ASSUME OfficeInv,
           TestPending \/ ActorStep \/ \E w \in Workers : WorkerStep(w)
    PROVE  OfficeInv'
<1>1. CASE ActorStep
  BY <1>1, ReceiveResolveInv, TestMarkerInv, BufferOrDispatchInv, ReceiveDispatchInv,
     ReceiveRequestAsynchTaskInv, ReceiveCreationRequestResolvedInv, AckWhenLastInv,
     ReceiveStopInv DEF ActorStep
<1>2. ASSUME NEW w \in Workers, WorkerStep(w) PROVE OfficeInv'
  BY <1>2, GetNodesAddressListInv, NoAddressListInv, AnswerInv, RequestTaskInv DEF WorkerStep
<1> QED
  BY <1>1, <1>2, TestPendingInv

LEMMA OfficeStays ==
    ASSUME OfficeInv, UNCHANGED requestVars, nameServer' \in BOOLEAN PROVE OfficeInv'
<1> USE DEF requestVars, sharedVars, dispatchVars, workerVars
<1>1. OfficeTypeOK'
  BY DEF OfficeInv, OfficeTypeOK
<1>2. /\ Waiting(asyncTasks, request)' /\ AtWork(task, worker, request)'
      /\ Counts(creationRequests, request)'
  BY RequestsKept
<1>3. Fits(mailbox, request)' /\ CurrentCounted' /\ AcknowledgedWhenIdle' /\ RacesByStaleReads'
  BY DEF OfficeInv, CurrentCounted, Counting, AcknowledgedWhenIdle, RacesByStaleReads
<1> QED
  BY <1>1, <1>2, <1>3 DEF OfficeInv

LEMMA OfficeStart == OfficeInit => OfficeInv
<1> SUFFICES ASSUME OfficeInit PROVE OfficeInv
  OBVIOUS
<1>1. OfficeTypeOK
  <2>1. Cardinality(Workers) \in Nat
    BY FS_CardinalityType, OfficeAssumption
  <2>2. waitingTicketCreationWorkers \in Seq(Workers)
    BY <2>1 DEF OfficeInit
  <2> QED
    <3>1. /\ request \in [Requests -> Stages] /\ mailbox \in Seq(Messages)
          /\ queue \in Seq(Requests) /\ asyncTasks \in Seq(Requests)
      BY DEF OfficeInit, Stages
    <3>2. /\ task \in [Workers -> Requests \cup {None}]
          /\ worker \in [Workers -> {"react", "answered", "dead"}] /\ nodesAddresses \subseteq Workers
      BY DEF OfficeInit
    <3> QED
      BY <2>2, <3>1, <3>2 DEF OfficeInit, OfficeTypeOK
<1>2. Counts(creationRequests, request)
  <2>1. Counted(request) = {}
    BY DEF OfficeInit, Counted, CountedStages, Stages
  <2> QED
    BY <2>1, FS_EmptySet DEF OfficeInit, Counts
<1>3. /\ Fits(mailbox, request) /\ Waiting(asyncTasks, request) /\ AtWork(task, worker, request)
      /\ CurrentCounted /\ AcknowledgedWhenIdle /\ RacesByStaleReads
  BY DEF OfficeInit, Fits, Waiting, AtWork, CurrentCounted, Counting, AcknowledgedWhenIdle,
     RacesByStaleReads
<1> QED
  BY <1>1, <1>2, <1>3 DEF OfficeInv
-----------------------------------------------------------------------------
(* The inductive invariant of the shutdown.                                  *)

Boxed == {"DistributedStop", "Continue", "Stop"} \cup Nodes
Holds(q, x) == \E i \in 1..Len(q) : q[i] = x
Once(q, x) == \A i, j \in 1..Len(q) : q[i] = x /\ q[j] = x => i = j

\* The office has been asked to stop.
StopAsked == actor = "stopped" \/ \E i \in DOMAIN mailbox : mailbox[i].kind = "Stop"

\* The controller goes on, and asks nodes to terminate, when the office has
\* acknowledged the first marker.
AskedAfterAck ==
    Holds(controllerBox, "Continue") \/ controller = "asking" \/ stopped # {} => acks > 0

\* Nodes stop when asked, and are unbound last; the name server is there for them.
NodesFollow ==
    /\ \A n \in Nodes : node[n] # "running" => stopped # {}
    /\ \A n \in Nodes : Holds(controllerBox, n) => node[n] \in {"notified", "closed"}
    /\ \A n \in Nodes \ addresses : node[n] = "closed"
    /\ ~crashed /\ controller # "ended" => nameServer

\* No node is forgotten: one that still runs is, or will be, asked, and its
\* confirmation is awaited.
NoneForgotten ==
    \A n \in Nodes : node[n] \in {"running", "stopping"} =>
        /\ controller = "asking" => n \in askedNodes \cup toAsk
        /\ controller # "asking" /\ stopped # {} => n \in askedNodes

\* A single press of Stop sends a single first marker.
OneMarker ==
    /\ presses = 0 => ~markerReceived /\ ~Holds(controllerBox, "DistributedStop")
    /\ presses <= 1 /\ Holds(controllerBox, "DistributedStop") => ~markerReceived
    /\ presses <= 1 => Once(controllerBox, "DistributedStop")

OfficeAskedLast ==
    presses <= 1 /\ ~crashed /\ StopAsked => \A n \in Nodes : node[n] \in {"notified", "closed"}

ControllerTypes ==
    /\ controller \in {"react", "asking", "ended"}
    /\ toAsk \subseteq Nodes /\ askedNodes \subseteq Nodes
    /\ controllerBox \in Seq(Boxed)
    /\ addresses \subseteq Nodes
    /\ node \in [Nodes -> {"running", "stopping", "notified", "closed"}]
    /\ presses \in 0..MaxPresses /\ crashed \in BOOLEAN /\ stopped \subseteq Nodes

ControllerInv ==
    /\ ControllerTypes
    /\ AskedAfterAck /\ NodesFollow /\ NoneForgotten /\ OneMarker /\ OfficeAskedLast

ShutdownInv == OfficeInv /\ ControllerInv
-----------------------------------------------------------------------------
(* What the steps of the office mean for the controller.                     *)

\* A mailbox that loses its first message, or gets one that is no Stop, holds no
\* new Stop.
LEMMA NoNewStop ==
    ASSUME OfficeTypeOK, NEW m \in Messages,
           \/ mailbox' = mailbox
           \/ mailbox # <<>> /\ mailbox' = Tail(mailbox)
           \/ mailbox' = Append(mailbox, m) /\ m.kind # "Stop",
           actor' = "stopped" => actor = "stopped" \/ (mailbox # <<>> /\ Head(mailbox).kind = "Stop")
    PROVE  StopAsked' => StopAsked
<1>1. mailbox \in Seq(Messages) /\ DOMAIN mailbox = 1..Len(mailbox)
  BY LenProperties DEF OfficeTypeOK
<1>2. mailbox # <<>> => Head(mailbox) = mailbox[1] /\ 1 \in DOMAIN mailbox
  BY <1>1, TailFacts
<1>3. ASSUME NEW i \in DOMAIN mailbox', mailbox'[i].kind = "Stop"
      PROVE  \E j \in DOMAIN mailbox : mailbox[j].kind = "Stop"
  <2>1. CASE mailbox' = mailbox
    BY <1>3, <2>1
  <2>2. CASE mailbox # <<>> /\ mailbox' = Tail(mailbox)
    <3>1. Tail(mailbox) \in Seq(Messages) /\ DOMAIN Tail(mailbox) = 1..Len(Tail(mailbox))
      BY <1>1, <2>2, TailFacts, LenProperties
    <3>2. i + 1 \in DOMAIN mailbox /\ mailbox'[i] = mailbox[i + 1]
      BY <1>1, <1>3, <2>2, <3>1, TailFacts
    <3> QED
      BY <1>3, <3>2
  <2>3. CASE mailbox' = Append(mailbox, m) /\ m.kind # "Stop"
    <3>1. /\ DOMAIN mailbox' = 1..(Len(mailbox) + 1) /\ Len(mailbox) \in Nat
          /\ mailbox'[Len(mailbox) + 1] = m
          /\ \A j \in 1..Len(mailbox) : mailbox'[j] = mailbox[j]
      <4>1. /\ Append(mailbox, m) \in Seq(Messages) /\ Len(mailbox) \in Nat
            /\ Len(Append(mailbox, m)) = Len(mailbox) + 1
            /\ Append(mailbox, m)[Len(mailbox) + 1] = m
            /\ \A j \in 1..Len(mailbox) : Append(mailbox, m)[j] = mailbox[j]
        BY <1>1, AppendFacts
      <4>2. DOMAIN Append(mailbox, m) = 1..Len(Append(mailbox, m))
        BY <4>1, LenProperties
      <4> QED
        BY <2>3, <4>1, <4>2
    <3>2. i \in DOMAIN mailbox
      <4>1. i # Len(mailbox) + 1
        BY <1>3, <2>3, <3>1
      <4>2. i \in 1..(Len(mailbox) + 1) /\ Len(mailbox) \in Nat
        BY <1>3, <3>1
      <4>3. i \in 1..Len(mailbox)
        BY <4>1, <4>2
      <4> QED
        BY <1>1, <4>3
    <3> QED
      BY <1>1, <1>3, <3>1, <3>2
  <2> QED
    BY <2>1, <2>2, <2>3
<1>4. CASE actor' = "stopped"
  BY <1>2, <1>4 DEF StopAsked
<1> QED
  BY <1>3, <1>4 DEF StopAsked

\* Resolving a request concerns neither markers nor acknowledgements.
LEMMA ResolveCallEffect ==
    ASSUME OfficeInv, NEW r \in Requests, ResolveCall(r)
    PROVE  /\ UNCHANGED <<markerReceived, acks, nameServer>> /\ (StopAsked' => StopAsked)
<1>1. Message("resolve", r) \in Messages /\ Message("resolve", r).kind # "Stop"
  BY DEF Message, Messages
<1> QED
  BY <1>1, NoNewStop DEF ResolveCall, OfficeInv, sharedVars

\* The office acknowledges, but is not stopped unless asked to.
LEMMA OfficeEffect ==
    ASSUME OfficeInv, TestPending \/ ActorStep \/ \E w \in Workers : WorkerStep(w)
    PROVE  /\ UNCHANGED <<markerReceived, nameServer>> /\ (acks' = acks \/ acks' = acks + 1)
           /\ (StopAsked' => StopAsked)
<1>0. OfficeTypeOK /\ mailbox \in Seq(Messages)
  BY DEF OfficeInv, OfficeTypeOK
<1>1. ASSUME UNCHANGED mailbox, actor' # "stopped" \/ actor' = actor PROVE StopAsked' => StopAsked
  BY <1>1 DEF StopAsked
<1>2. ASSUME mailbox # <<>>, mailbox' = Tail(mailbox),
             actor' = "stopped" => actor = "stopped" \/ Head(mailbox).kind = "Stop"
      PROVE  StopAsked' => StopAsked
  <2>1. Head(mailbox) \in Messages
    BY <1>0, <1>2, TailFacts
  <2> QED
    BY <1>0, <1>2, <2>1, NoNewStop
<1>3. ASSUME NEW m \in Messages, mailbox' = Append(mailbox, m), m.kind # "Stop",
             actor' # "stopped" \/ actor' = actor
      PROVE  StopAsked' => StopAsked
  BY <1>0, <1>3, NoNewStop
<1>4. CASE TestPending
  BY <1>1, <1>4 DEF TestPending, sharedVars
<1>5. CASE ReceiveResolve \/ ReceiveCreationRequestResolved \/ ReceiveStop
  BY <1>2, <1>5 DEF ReceiveResolve, ReceiveCreationRequestResolved, ReceiveStop, Receive, sharedVars
<1>11. CASE TestMarker
  BY <1>1, <1>11 DEF TestMarker, sharedVars
<1>6. CASE BufferOrDispatch
  <2>1. current \in Requests
    BY <1>6 DEF BufferOrDispatch, OfficeInv, CurrentCounted, Counting
  <2>2. Message("Dispatch", current) \in Messages /\ Message("Dispatch", current).kind # "Stop"
    BY <2>1 DEF Message, Messages
  <2>3. StopAsked' => StopAsked
    BY <1>1, <1>3, <1>6, <2>2 DEF BufferOrDispatch
  <2> QED
    BY <1>6, <2>3 DEF BufferOrDispatch, sharedVars
<1>7. CASE ReceiveDispatch \/ ReceiveRequestAsynchTask
  BY <1>2, <1>7 DEF ReceiveDispatch, ReceiveRequestAsynchTask, Receive, sharedVars
<1>8. CASE AckWhenLast
  BY <1>1, <1>8 DEF AckWhenLast, sharedVars
<1>9. ASSUME NEW w \in Workers, GetNodesAddressList(w) \/ NoAddressList(w)
      PROVE  /\ UNCHANGED <<markerReceived, nameServer>> /\ acks' = acks
             /\ (StopAsked' => StopAsked)
  BY <1>1, <1>9 DEF GetNodesAddressList, NoAddressList, sharedVars
<1>10. ASSUME NEW w \in Workers, Answer(w) \/ RequestTask(w)
       PROVE  /\ UNCHANGED <<markerReceived, nameServer>> /\ acks' = acks
              /\ (StopAsked' => StopAsked)
  <2>1. PICK m \in Messages : mailbox' = Append(mailbox, m) /\ m.kind # "Stop"
    <3>1. CASE Answer(w)
      <4>1. task[w] \in Requests
        BY <1>0, <3>1 DEF Answer, OfficeTypeOK
      <4> QED
        BY <3>1, <4>1 DEF Answer, Message, Messages
    <3>2. CASE RequestTask(w)
      BY <3>2 DEF RequestTask, Message, Messages
    <3> QED
      BY <1>10, <3>1, <3>2
  <2>2. actor' = actor /\ UNCHANGED <<markerReceived, nameServer, acks, race>>
    BY <1>10 DEF Answer, RequestTask, sharedVars
  <2> QED
    BY <1>3, <2>1, <2>2
<1> QED
  BY <1>4, <1>5, <1>6, <1>7, <1>8, <1>9, <1>10, <1>11 DEF ActorStep, WorkerStep

-----------------------------------------------------------------------------
(* The mailbox of the controller.                                            *)

LEMMA HoldsAppend ==
    ASSUME NEW q \in Seq(Boxed), NEW m \in Boxed
    PROVE  /\ Append(q, m) \in Seq(Boxed)
           /\ \A x : Holds(Append(q, m), x) <=> Holds(q, x) \/ x = m
<1>1. /\ Len(q) \in Nat /\ Len(Append(q, m)) = Len(q) + 1 /\ Append(q, m)[Len(q) + 1] = m
      /\ Append(q, m) \in Seq(Boxed)
      /\ \A i \in 1..Len(q) : Append(q, m)[i] = q[i]
  BY AppendFacts
<1>2. 1..Len(Append(q, m)) = 1..Len(q) \cup {Len(q) + 1}
  BY <1>1
<1> QED
  BY <1>1, <1>2 DEF Holds

LEMMA HoldsTail ==
    ASSUME NEW q \in Seq(Boxed), q # <<>>
    PROVE  /\ Tail(q) \in Seq(Boxed) /\ Head(q) \in Boxed /\ Holds(q, Head(q))
           /\ \A x : Holds(Tail(q), x) => Holds(q, x)
<1>1. /\ Head(q) = q[1] /\ 1 \in 1..Len(q) /\ Tail(q) \in Seq(Boxed)
      /\ \A i \in 1..Len(Tail(q)) : i + 1 \in 1..Len(q) /\ Tail(q)[i] = q[i + 1]
      /\ Head(q) \in Boxed
  BY TailFacts
<1> QED
  BY <1>1 DEF Holds

LEMMA OnceAppend ==
    ASSUME NEW q \in Seq(Boxed), NEW m \in Boxed, NEW x, Once(q, x), m # x \/ ~Holds(q, x)
    PROVE  Once(Append(q, m), x)
<1>1. /\ Len(q) \in Nat /\ Len(Append(q, m)) = Len(q) + 1 /\ Append(q, m)[Len(q) + 1] = m
      /\ \A i \in 1..Len(q) : Append(q, m)[i] = q[i]
  BY AppendFacts
<1>2. 1..Len(Append(q, m)) = 1..Len(q) \cup {Len(q) + 1}
  BY <1>1
<1> QED
  BY <1>1, <1>2 DEF Once, Holds

LEMMA OnceTail ==
    ASSUME NEW q \in Seq(Boxed), q # <<>>, NEW x, Once(q, x)
    PROVE  Once(Tail(q), x) /\ (Head(q) = x => ~Holds(Tail(q), x))
<1>1. /\ Head(q) = q[1] /\ 1 \in 1..Len(q) /\ Len(Tail(q)) \in Nat
      /\ \A i \in 1..Len(Tail(q)) : i + 1 \in 1..Len(q) /\ Tail(q)[i] = q[i + 1]
  BY TailFacts
<1> QED
  BY <1>1 DEF Once, Holds
-----------------------------------------------------------------------------
(* The steps of the shutdown.                                                *)

LEMMA OfficeSame ==
    ASSUME OfficeInv, UNCHANGED officeVars
    PROVE  /\ OfficeInv' /\ UNCHANGED <<markerReceived, acks, nameServer>>
           /\ StopAsked' = StopAsked
BY OfficeStays DEF officeVars, requestVars, sharedVars, StopAsked, OfficeInv, OfficeTypeOK

\* A step of the office: what it acknowledges is passed on.
LEMMA OfficeKeeps ==
    ASSUME OfficeInv, ControllerInv, UNCHANGED <<markerReceived, nameServer>>,
           \/ acks' = acks /\ controllerBox' = controllerBox
           \/ acks' = acks + 1 /\ controllerBox' = Append(controllerBox, "Continue"),
           StopAsked' => StopAsked,
           UNCHANGED <<controllerVars, addresses, nodeVars, user>>
    PROVE  ControllerInv'
<1> USE DEF controllerVars, nodeVars, user
<1>0. acks \in Nat /\ controllerBox \in Seq(Boxed) /\ "Continue" \in Boxed /\ "Continue" \notin Nodes
  BY TerminationAssumption DEF OfficeInv, OfficeTypeOK, ControllerInv, ControllerTypes, Boxed
<1>1. /\ controllerBox' \in Seq(Boxed)
      /\ \A x : Holds(controllerBox', x) => Holds(controllerBox, x) \/ (x = "Continue" /\ acks' > 0)
      /\ Once(controllerBox, "DistributedStop") => Once(controllerBox', "DistributedStop")
  <2>1. CASE controllerBox' = controllerBox
    BY <1>0, <2>1
  <2>2. CASE acks' = acks + 1 /\ controllerBox' = Append(controllerBox, "Continue")
    <3>1. acks' > 0 /\ "Continue" # "DistributedStop"
      BY <1>0, <2>2
    <3> QED
      BY <1>0, <2>2, <3>1, HoldsAppend, OnceAppend
  <2> QED
    BY <2>1, <2>2
<1>2. ControllerTypes' /\ AskedAfterAck'
  BY <1>0, <1>1 DEF ControllerInv, ControllerTypes, AskedAfterAck, Boxed
<1>3. NodesFollow' /\ NoneForgotten'
  BY <1>0, <1>1 DEF ControllerInv, NodesFollow, NoneForgotten
<1>4. OneMarker' /\ OfficeAskedLast'
  BY <1>1 DEF ControllerInv, OneMarker, OfficeAskedLast
<1> QED
  BY <1>2, <1>3, <1>4 DEF ControllerInv

LEMMA OfficeStepInv ==
    ASSUME ShutdownInv,
           \/ OfficeStep(TestPending) \/ OfficeStep(ActorStep)
           \/ \E w \in Workers : OfficeStep(WorkerStep(w))
    PROVE  ShutdownInv'
<1>1. /\ TestPending \/ ActorStep \/ \E w \in Workers : WorkerStep(w)
      /\ PassAck /\ UNCHANGED <<controllerVars, addresses, nodeVars, user>>
  BY DEF OfficeStep
<1>2. OfficeInv'
  BY <1>1, OfficeSteps DEF ShutdownInv
<1>3. acks \in Nat
  BY DEF ShutdownInv, OfficeInv, OfficeTypeOK
<1>4. /\ UNCHANGED <<markerReceived, nameServer>> /\ (StopAsked' => StopAsked)
      /\ acks' = acks \/ acks' = acks + 1
  BY <1>1, OfficeEffect DEF ShutdownInv
<1>5. \/ acks' = acks /\ controllerBox' = controllerBox
      \/ acks' = acks + 1 /\ controllerBox' = Append(controllerBox, "Continue")
  BY <1>1, <1>3, <1>4 DEF PassAck
<1>6. ControllerInv'
  BY <1>1, <1>4, <1>5, OfficeKeeps DEF ShutdownInv
<1> QED
  BY <1>2, <1>6 DEF ShutdownInv

LEMMA AskForTicketInv ==
    ASSUME ShutdownInv, NEW r \in Requests, Ask_For_Ticket(r) PROVE ShutdownInv'
<1>1. ResolveCall(r) /\ UNCHANGED <<controllerVars, controllerBox, addresses, nodeVars, user>>
  BY DEF Ask_For_Ticket
<1>2. OfficeInv'
  BY <1>1, ResolveCallInv DEF ShutdownInv
<1>3. ControllerInv'
  BY <1>1, ResolveCallEffect, OfficeKeeps DEF ShutdownInv
<1> QED
  BY <1>2, <1>3 DEF ShutdownInv

\* The first press is the first marker to come.
LEMMA PressInv ==
    ASSUME ShutdownInv, Press PROVE ShutdownInv'
<1>1. /\ presses < MaxPresses /\ presses' = presses + 1 /\ UNCHANGED crashed
      /\ controllerBox' = Append(controllerBox, "DistributedStop")
      /\ UNCHANGED <<officeVars, controllerVars, addresses, nodeVars>>
  BY DEF Press, Post
<1> USE DEF controllerVars, nodeVars
<1>2. OfficeInv' /\ UNCHANGED <<markerReceived, acks, nameServer>> /\ StopAsked' = StopAsked
  BY <1>1, OfficeSame DEF ShutdownInv
<1>3. /\ controllerBox \in Seq(Boxed) /\ "DistributedStop" \in Boxed
      /\ "DistributedStop" \notin Nodes /\ presses \in Nat /\ MaxPresses \in Nat
  BY TerminationAssumption DEF ShutdownInv, ControllerInv, ControllerTypes, Boxed
<1>4. /\ controllerBox' \in Seq(Boxed)
      /\ \A x : Holds(controllerBox', x) => Holds(controllerBox, x) \/ x = "DistributedStop"
  BY <1>1, <1>3, HoldsAppend
<1>5. ControllerTypes' /\ AskedAfterAck'
  BY <1>1, <1>2, <1>3, <1>4 DEF ShutdownInv, ControllerInv, ControllerTypes, AskedAfterAck, Boxed
<1>6. NodesFollow' /\ NoneForgotten'
  BY <1>1, <1>2, <1>3, <1>4 DEF ShutdownInv, ControllerInv, NodesFollow, NoneForgotten
<1>7. presses' <= 1 => presses = 0 /\ ~Holds(controllerBox, "DistributedStop") /\ ~markerReceived
  BY <1>1, <1>3 DEF ShutdownInv, ControllerInv, OneMarker
<1>8. ~Holds(controllerBox, "DistributedStop") =>
          Once(controllerBox, "DistributedStop") /\ Once(controllerBox', "DistributedStop")
  <2>1. ASSUME ~Holds(controllerBox, "DistributedStop") PROVE Once(controllerBox, "DistributedStop")
    BY <2>1 DEF Holds, Once
  <2> QED
    BY <1>1, <1>3, <2>1, OnceAppend
<1>9. OneMarker'
  BY <1>1, <1>2, <1>3, <1>7, <1>8 DEF OneMarker
<1>10. OfficeAskedLast'
  BY <1>1, <1>2, <1>3 DEF ShutdownInv, ControllerInv, OfficeAskedLast
<1> QED
  BY <1>2, <1>5, <1>6, <1>9, <1>10 DEF ShutdownInv, ControllerInv

LEMMA NameServerCrashInv ==
    ASSUME ShutdownInv, NameServerCrash PROVE ShutdownInv'
<1>1. /\ nameServer' = FALSE /\ crashed' = TRUE
      /\ UNCHANGED <<requestVars, controllerVars, controllerBox, addresses, nodeVars, presses>>
  BY DEF NameServerCrash
<1>2. OfficeInv'
  BY <1>1, OfficeStays DEF ShutdownInv
<1> USE DEF controllerVars, nodeVars, requestVars, sharedVars
<1>3. ControllerTypes' /\ AskedAfterAck'
  BY <1>1 DEF ShutdownInv, ControllerInv, ControllerTypes, AskedAfterAck
<1>4. NodesFollow' /\ NoneForgotten'
  BY <1>1 DEF ShutdownInv, ControllerInv, NodesFollow, NoneForgotten
<1>5. OneMarker' /\ OfficeAskedLast'
  BY <1>1 DEF ShutdownInv, ControllerInv, OneMarker, OfficeAskedLast
<1> QED
  BY <1>2, <1>3, <1>4, <1>5 DEF ShutdownInv, ControllerInv

\* A node that has been asked confirms its end.
LEMMA NotifyTerminationInv ==
    ASSUME ShutdownInv, NEW n \in Nodes, Notify_Termination(n) PROVE ShutdownInv'
<1>1. /\ node[n] = "stopping" /\ node' = [node EXCEPT ![n] = "notified"]
      /\ controllerBox' = Append(controllerBox, n)
      /\ UNCHANGED <<officeVars, controllerVars, addresses, user, stopped>>
  BY DEF Notify_Termination, Post
<1> USE DEF controllerVars, user
<1>2. OfficeInv' /\ UNCHANGED <<markerReceived, acks, nameServer>> /\ StopAsked' = StopAsked
  BY <1>1, OfficeSame DEF ShutdownInv
<1>3. /\ controllerBox \in Seq(Boxed) /\ n \in Boxed
      /\ n # "DistributedStop" /\ n # "Continue"
      /\ node \in [Nodes -> {"running", "stopping", "notified", "closed"}]
  BY TerminationAssumption DEF ShutdownInv, ControllerInv, ControllerTypes, Boxed
<1>4. /\ controllerBox' \in Seq(Boxed)
      /\ \A x : Holds(controllerBox', x) => Holds(controllerBox, x) \/ x = n
      /\ Once(controllerBox, "DistributedStop") => Once(controllerBox', "DistributedStop")
  BY <1>1, <1>3, HoldsAppend, OnceAppend
<1>5. /\ node' \in [Nodes -> {"running", "stopping", "notified", "closed"}]
      /\ node'[n] = "notified" /\ \A k \in Nodes : k # n => node'[k] = node[k]
  BY <1>1, <1>3
<1>6. ControllerTypes' /\ AskedAfterAck'
  BY <1>1, <1>2, <1>3, <1>4, <1>5 DEF ShutdownInv, ControllerInv, ControllerTypes, AskedAfterAck, Boxed
<1>7. NodesFollow' /\ NoneForgotten'
  BY <1>1, <1>2, <1>3, <1>4, <1>5 DEF ShutdownInv, ControllerInv, NodesFollow, NoneForgotten
<1>8. OneMarker'
  BY <1>1, <1>2, <1>3, <1>4 DEF ShutdownInv, ControllerInv, OneMarker
<1>9. OfficeAskedLast'
  BY <1>1, <1>2, <1>5 DEF ShutdownInv, ControllerInv, OfficeAskedLast
<1> QED
  BY <1>2, <1>6, <1>7, <1>8, <1>9 DEF ShutdownInv, ControllerInv

LEMMA RemoveInv ==
    ASSUME ShutdownInv, NEW n \in Nodes, Remove(n) PROVE ShutdownInv'
<1>1. /\ node[n] = "notified" /\ node' = [node EXCEPT ![n] = "closed"]
      /\ addresses' = IF nameServer THEN addresses \ {n} ELSE addresses
      /\ UNCHANGED <<officeVars, controllerVars, controllerBox, user, stopped>>
  BY DEF Remove
<1> USE DEF controllerVars, user
<1>2. OfficeInv' /\ UNCHANGED <<markerReceived, acks, nameServer>> /\ StopAsked' = StopAsked
  BY <1>1, OfficeSame DEF ShutdownInv
<1>3. /\ node' \in [Nodes -> {"running", "stopping", "notified", "closed"}]
      /\ node'[n] = "closed" /\ \A k \in Nodes : k # n => node'[k] = node[k]
  BY <1>1 DEF ShutdownInv, ControllerInv, ControllerTypes
<1>4. ControllerTypes' /\ AskedAfterAck'
  BY <1>1, <1>2, <1>3 DEF ShutdownInv, ControllerInv, ControllerTypes, AskedAfterAck
<1>5. NodesFollow' /\ NoneForgotten'
  BY <1>1, <1>2, <1>3 DEF ShutdownInv, ControllerInv, NodesFollow, NoneForgotten
<1>6. OneMarker' /\ OfficeAskedLast'
  BY <1>1, <1>2, <1>3 DEF ShutdownInv, ControllerInv, OneMarker, OfficeAskedLast
<1> QED
  BY <1>2, <1>4, <1>5, <1>6 DEF ShutdownInv, ControllerInv
-----------------------------------------------------------------------------
(* The steps of the controller.                                              *)

\* The controller takes the first message of its mailbox.
LEMMA Handled ==
    ASSUME ControllerInv, NEW m, Handle(m)
    PROVE  /\ controller = "react" /\ m \in Boxed /\ Holds(controllerBox, m)
           /\ Tail(controllerBox) \in Seq(Boxed)
           /\ \A x : Holds(Tail(controllerBox), x) => Holds(controllerBox, x)
           /\ Once(controllerBox, "DistributedStop") =>
                 /\ Once(Tail(controllerBox), "DistributedStop")
                 /\ m = "DistributedStop" => ~Holds(Tail(controllerBox), m)
BY HoldsTail, OnceTail DEF Handle, ControllerInv, ControllerTypes

\* A marker stops the office if it has had one.
LEMMA MarkerEffect ==
    ASSUME OfficeInv, MarkerCall
    PROVE  /\ acks' = acks /\ markerReceived' = TRUE
           /\ StopAsked' => StopAsked \/ markerReceived
<1>1. CASE ~markerReceived
  BY <1>1 DEF MarkerCall, StopAsked
<1>2. CASE markerReceived
  BY <1>2 DEF MarkerCall, OfficeInv, OfficeTypeOK
<1> QED
  BY <1>1, <1>2

LEMMA DistributedStopInv ==
    ASSUME ShutdownInv, DistributedStop PROVE ShutdownInv'
<1>1. /\ Handle("DistributedStop") /\ MarkerCall /\ controllerBox' = Tail(controllerBox)
      /\ UNCHANGED <<controllerVars, addresses, nodeVars, user, nameServer>>
  BY DEF DistributedStop
<1> USE DEF controllerVars, nodeVars, user
<1>2. OfficeInv'
  BY <1>1, MarkerCallInv DEF ShutdownInv, OfficeInv, OfficeTypeOK
<1>3. /\ acks' = acks /\ markerReceived' = TRUE
      /\ StopAsked' => StopAsked \/ markerReceived
  BY <1>1, MarkerEffect DEF ShutdownInv
<1>4. /\ Holds(controllerBox, "DistributedStop") /\ controllerBox' \in Seq(Boxed)
      /\ \A x : Holds(controllerBox', x) => Holds(controllerBox, x)
      /\ Once(controllerBox, "DistributedStop") =>
            Once(controllerBox', "DistributedStop") /\ ~Holds(controllerBox', "DistributedStop")
  BY <1>1, Handled DEF ShutdownInv
<1>5. ControllerTypes' /\ AskedAfterAck'
  BY <1>1, <1>3, <1>4 DEF ShutdownInv, ControllerInv, ControllerTypes, AskedAfterAck, Boxed
<1>6. NodesFollow' /\ NoneForgotten'
  BY <1>1, <1>4 DEF ShutdownInv, ControllerInv, NodesFollow, NoneForgotten
<1>7. OneMarker'
  BY <1>1, <1>4 DEF ShutdownInv, ControllerInv, ControllerTypes, OneMarker
<1>8. OfficeAskedLast'
  BY <1>1, <1>3, <1>4 DEF ShutdownInv, ControllerInv, OneMarker, OfficeAskedLast
<1> QED
  BY <1>2, <1>5, <1>6, <1>7, <1>8 DEF ShutdownInv, ControllerInv

\* Every node that is still bound will be asked.
LEMMA ContinueAsksInv ==
    ASSUME ShutdownInv, ContinueAsks PROVE ShutdownInv'
<1>1. /\ Handle("Continue") /\ controller' = "asking" /\ toAsk' = addresses
      /\ controllerBox' = Tail(controllerBox)
      /\ UNCHANGED <<officeVars, askedNodes, addresses, nodeVars, user>>
  BY DEF ContinueAsks
<1> USE DEF nodeVars, user
<1>2. OfficeInv' /\ UNCHANGED <<markerReceived, acks, nameServer>> /\ StopAsked' = StopAsked
  BY <1>1, OfficeSame DEF ShutdownInv
<1>3. /\ Holds(controllerBox, "Continue") /\ controllerBox' \in Seq(Boxed)
      /\ controller = "react"
      /\ \A x : Holds(controllerBox', x) => Holds(controllerBox, x)
      /\ Once(controllerBox, "DistributedStop") => Once(controllerBox', "DistributedStop")
  BY <1>1, Handled DEF ShutdownInv
<1>4. ControllerTypes' /\ AskedAfterAck'
  BY <1>1, <1>2, <1>3 DEF ShutdownInv, ControllerInv, ControllerTypes, AskedAfterAck, Boxed
<1>5. NodesFollow' /\ NoneForgotten'
  BY <1>1, <1>2, <1>3 DEF ShutdownInv, ControllerInv, NodesFollow, NoneForgotten
<1>6. OneMarker' /\ OfficeAskedLast'
  BY <1>1, <1>2, <1>3 DEF ShutdownInv, ControllerInv, OneMarker, OfficeAskedLast
<1> QED
  BY <1>2, <1>4, <1>5, <1>6 DEF ShutdownInv, ControllerInv

\* No node is bound any more: if the name server did not crash, all have ended.
LEMMA ContinueEmptyInv ==
    ASSUME ShutdownInv, ContinueEmpty PROVE ShutdownInv'
<1>1. /\ Handle("Continue") /\ MarkerCall
      /\ nameServer => addresses = {}
      /\ controllerBox' = Append(Tail(controllerBox), "Stop")
      /\ UNCHANGED <<controllerVars, addresses, nodeVars, user, nameServer>>
  BY DEF ContinueEmpty
<1> USE DEF controllerVars, nodeVars, user
<1>2. OfficeInv'
  BY <1>1, MarkerCallInv DEF ShutdownInv, OfficeInv, OfficeTypeOK
<1>3. acks' = acks /\ markerReceived' = TRUE
  BY <1>1, MarkerEffect DEF ShutdownInv
<1>4. /\ Holds(controllerBox, "Continue") /\ controller = "react"
      /\ Tail(controllerBox) \in Seq(Boxed)
      /\ \A x : Holds(Tail(controllerBox), x) => Holds(controllerBox, x)
      /\ Once(controllerBox, "DistributedStop") => Once(Tail(controllerBox), "DistributedStop")
  <2>1. ControllerInv /\ Handle("Continue")
    BY <1>1 DEF ShutdownInv
  <2> QED
    BY <2>1, Handled
<1>5. "Stop" \in Boxed /\ "Stop" \notin Nodes
  BY TerminationAssumption DEF Boxed
<1>6. /\ controllerBox' \in Seq(Boxed)
      /\ \A x : Holds(controllerBox', x) => Holds(controllerBox, x) \/ x = "Stop"
      /\ Once(controllerBox, "DistributedStop") => Once(controllerBox', "DistributedStop")
  BY <1>1, <1>4, <1>5, HoldsAppend, OnceAppend
<1>7. markerReceived
  BY <1>4 DEF ShutdownInv, ControllerInv, AskedAfterAck, OfficeInv, AcknowledgedWhenIdle
<1>8. ControllerTypes' /\ AskedAfterAck'
  BY <1>1, <1>3, <1>6 DEF ShutdownInv, ControllerInv, ControllerTypes, AskedAfterAck, Boxed
<1>9. NodesFollow' /\ NoneForgotten'
  BY <1>1, <1>5, <1>6 DEF ShutdownInv, ControllerInv, NodesFollow, NoneForgotten
<1>10. OneMarker'
  BY <1>1, <1>3, <1>6, <1>7 DEF ShutdownInv, ControllerInv, OneMarker
<1>11. OfficeAskedLast'
  <2>1. ~crashed => addresses = {}
    BY <1>1, <1>4 DEF ShutdownInv, ControllerInv, NodesFollow
  <2>2. ~crashed => \A n \in Nodes : node[n] = "closed"
    BY <2>1 DEF ShutdownInv, ControllerInv, NodesFollow
  <2> QED
    BY <1>1, <2>2 DEF OfficeAskedLast
<1> QED
  BY <1>2, <1>8, <1>9, <1>10, <1>11 DEF ShutdownInv, ControllerInv

LEMMA AskNodeInv ==
    ASSUME ShutdownInv, NEW n \in Nodes, AskNode(n) PROVE ShutdownInv'
<1>1. /\ controller = "asking" /\ toAsk' = toAsk \ {n} /\ askedNodes' = askedNodes \cup {n}
      /\ node' = [node EXCEPT ![n] = IF @ = "running" THEN "stopping" ELSE @]
      /\ stopped' = stopped \cup {n}
      /\ UNCHANGED <<officeVars, controller, controllerBox, addresses, user>>
  BY DEF AskNode
<1> USE DEF user
<1>2. OfficeInv' /\ UNCHANGED <<markerReceived, acks, nameServer>> /\ StopAsked' = StopAsked
  BY <1>1, OfficeSame DEF ShutdownInv
<1>3. /\ node' \in [Nodes -> {"running", "stopping", "notified", "closed"}]
      /\ \A k \in Nodes : node[k] # "running" => node'[k] = node[k]
      /\ \A k \in Nodes : node'[k] \in {"running", "stopping"} => node[k] \in {"running", "stopping"}
  BY <1>1 DEF ShutdownInv, ControllerInv, ControllerTypes
<1>4. ControllerTypes' /\ AskedAfterAck'
  BY <1>1, <1>2, <1>3 DEF ShutdownInv, ControllerInv, ControllerTypes, AskedAfterAck
<1>5. NodesFollow' /\ NoneForgotten'
  BY <1>1, <1>2, <1>3 DEF ShutdownInv, ControllerInv, NodesFollow, NoneForgotten
<1>6. OneMarker' /\ OfficeAskedLast'
  BY <1>1, <1>2, <1>3 DEF ShutdownInv, ControllerInv, OneMarker, OfficeAskedLast
<1> QED
  BY <1>2, <1>4, <1>5, <1>6 DEF ShutdownInv, ControllerInv

LEMMA AskNodeFailsInv ==
    ASSUME ShutdownInv, NEW n \in Nodes, AskNodeFails(n) PROVE ShutdownInv'
<1>1. /\ controller = "asking" /\ node[n] = "closed" /\ toAsk' = toAsk \ {n}
      /\ UNCHANGED <<officeVars, controller, askedNodes, controllerBox, addresses, nodeVars, user>>
  BY DEF AskNodeFails
<1> USE DEF nodeVars, user
<1>2. OfficeInv' /\ UNCHANGED <<markerReceived, acks, nameServer>> /\ StopAsked' = StopAsked
  BY <1>1, OfficeSame DEF ShutdownInv
<1>3. ControllerTypes' /\ AskedAfterAck'
  BY <1>1, <1>2 DEF ShutdownInv, ControllerInv, ControllerTypes, AskedAfterAck
<1>4. NodesFollow' /\ NoneForgotten'
  BY <1>1, <1>2 DEF ShutdownInv, ControllerInv, NodesFollow, NoneForgotten
<1>5. OneMarker' /\ OfficeAskedLast'
  BY <1>1, <1>2 DEF ShutdownInv, ControllerInv, OneMarker, OfficeAskedLast
<1> QED
  BY <1>2, <1>3, <1>4, <1>5 DEF ShutdownInv, ControllerInv

LEMMA AllAskedInv ==
    ASSUME ShutdownInv, AllAsked PROVE ShutdownInv'
<1>1. /\ controller = "asking" /\ toAsk = {} /\ controller' = "react"
      /\ UNCHANGED <<officeVars, toAsk, askedNodes, controllerBox, addresses, nodeVars, user>>
  BY DEF AllAsked
<1> USE DEF nodeVars, user
<1>2. OfficeInv' /\ UNCHANGED <<markerReceived, acks, nameServer>> /\ StopAsked' = StopAsked
  BY <1>1, OfficeSame DEF ShutdownInv
<1>3. ControllerTypes' /\ AskedAfterAck'
  BY <1>1, <1>2 DEF ShutdownInv, ControllerInv, ControllerTypes, AskedAfterAck
<1>4. NodesFollow' /\ NoneForgotten'
  BY <1>1, <1>2 DEF ShutdownInv, ControllerInv, NodesFollow, NoneForgotten
<1>5. OneMarker' /\ OfficeAskedLast'
  BY <1>1, <1>2 DEF ShutdownInv, ControllerInv, OneMarker, OfficeAskedLast
<1> QED
  BY <1>2, <1>3, <1>4, <1>5 DEF ShutdownInv, ControllerInv

\* A node that has confirmed runs no more, and need not be awaited.
LEMMA NodeTerminatedInv ==
    ASSUME ShutdownInv, NEW n \in Nodes, NodeTerminated(n) PROVE ShutdownInv'
<1>1. /\ Handle(n) /\ askedNodes' = askedNodes \ {n} /\ controllerBox' = Tail(controllerBox)
      /\ UNCHANGED <<officeVars, controller, toAsk, addresses, nodeVars, user>>
  BY DEF NodeTerminated
<1> USE DEF nodeVars, user
<1>2. OfficeInv' /\ UNCHANGED <<markerReceived, acks, nameServer>> /\ StopAsked' = StopAsked
  BY <1>1, OfficeSame DEF ShutdownInv
<1>3. /\ Holds(controllerBox, n) /\ controller = "react" /\ controllerBox' \in Seq(Boxed)
      /\ \A x : Holds(controllerBox', x) => Holds(controllerBox, x)
      /\ Once(controllerBox, "DistributedStop") => Once(controllerBox', "DistributedStop")
  BY <1>1, Handled DEF ShutdownInv
<1>4. ControllerTypes' /\ AskedAfterAck'
  BY <1>1, <1>2, <1>3 DEF ShutdownInv, ControllerInv, ControllerTypes, AskedAfterAck, Boxed
<1>5. NodesFollow' /\ NoneForgotten'
  BY <1>1, <1>2, <1>3 DEF ShutdownInv, ControllerInv, NodesFollow, NoneForgotten
<1>6. OneMarker' /\ OfficeAskedLast'
  BY <1>1, <1>2, <1>3 DEF ShutdownInv, ControllerInv, OneMarker, OfficeAskedLast
<1> QED
  BY <1>2, <1>4, <1>5, <1>6 DEF ShutdownInv, ControllerInv

\* When the last confirmation comes every node has ended.
LEMMA LastNodeTerminatedInv ==
    ASSUME ShutdownInv, NEW n \in Nodes, LastNodeTerminated(n) PROVE ShutdownInv'
<1>1. /\ Handle(n) /\ askedNodes \ {n} = {} /\ MarkerCall
      /\ askedNodes' = askedNodes \ {n} /\ nameServer' = FALSE /\ controller' = "ended"
      /\ controllerBox' = Append(Tail(controllerBox), "Stop")
      /\ UNCHANGED <<toAsk, addresses, nodeVars, user>>
  BY DEF LastNodeTerminated, AllConfirmed
<1> USE DEF nodeVars, user
<1>2. OfficeInv'
  BY <1>1, MarkerCallInv DEF ShutdownInv
<1>3. acks' = acks /\ markerReceived' = TRUE
  BY <1>1, MarkerEffect DEF ShutdownInv
<1>4. /\ Holds(controllerBox, n) /\ controller = "react"
      /\ Tail(controllerBox) \in Seq(Boxed)
      /\ \A x : Holds(Tail(controllerBox), x) => Holds(controllerBox, x)
      /\ Once(controllerBox, "DistributedStop") => Once(Tail(controllerBox), "DistributedStop")
  BY <1>1, Handled DEF ShutdownInv
<1>5. "Stop" \in Boxed /\ "Stop" \notin Nodes
  BY TerminationAssumption DEF Boxed
<1>6. /\ controllerBox' \in Seq(Boxed)
      /\ \A x : Holds(controllerBox', x) => Holds(controllerBox, x) \/ x = "Stop"
      /\ Once(controllerBox, "DistributedStop") => Once(controllerBox', "DistributedStop")
  BY <1>1, <1>4, <1>5, HoldsAppend, OnceAppend
<1>7. node[n] \in {"notified", "closed"} /\ stopped # {}
  BY <1>4 DEF ShutdownInv, ControllerInv, NodesFollow
<1>8. markerReceived
  BY <1>7 DEF ShutdownInv, ControllerInv, AskedAfterAck, OfficeInv, AcknowledgedWhenIdle
<1>9. \A k \in Nodes : node[k] \in {"notified", "closed"}
  BY <1>1, <1>4, <1>7 DEF ShutdownInv, ControllerInv, ControllerTypes, NoneForgotten
<1>10. ControllerTypes' /\ AskedAfterAck'
  BY <1>1, <1>3, <1>6 DEF ShutdownInv, ControllerInv, ControllerTypes, AskedAfterAck, Boxed
<1>11. NodesFollow' /\ NoneForgotten' /\ OfficeAskedLast'
  BY <1>1, <1>5, <1>6, <1>9 DEF ShutdownInv, ControllerInv, NodesFollow, NoneForgotten, OfficeAskedLast
<1>12. OneMarker'
  BY <1>1, <1>3, <1>6, <1>8 DEF ShutdownInv, ControllerInv, OneMarker
<1> QED
  BY <1>2, <1>10, <1>11, <1>12 DEF ShutdownInv, ControllerInv

LEMMA StopInv ==
    ASSUME ShutdownInv, Stop PROVE ShutdownInv'
<1>1. /\ Handle("Stop") /\ controller' = "ended" /\ controllerBox' = Tail(controllerBox)
      /\ UNCHANGED <<officeVars, toAsk, askedNodes, addresses, nodeVars, user>>
  BY DEF Stop
<1> USE DEF nodeVars, user
<1>2. OfficeInv' /\ UNCHANGED <<markerReceived, acks, nameServer>> /\ StopAsked' = StopAsked
  BY <1>1, OfficeSame DEF ShutdownInv
<1>3. /\ controller = "react" /\ controllerBox' \in Seq(Boxed)
      /\ \A x : Holds(controllerBox', x) => Holds(controllerBox, x)
      /\ Once(controllerBox, "DistributedStop") => Once(controllerBox', "DistributedStop")
  BY <1>1, Handled DEF ShutdownInv
<1>4. ControllerTypes' /\ AskedAfterAck'
  BY <1>1, <1>2, <1>3 DEF ShutdownInv, ControllerInv, ControllerTypes, AskedAfterAck, Boxed
<1>5. NodesFollow' /\ NoneForgotten'
  BY <1>1, <1>2, <1>3 DEF ShutdownInv, ControllerInv, NodesFollow, NoneForgotten
<1>6. OneMarker' /\ OfficeAskedLast'
  BY <1>1, <1>2, <1>3 DEF ShutdownInv, ControllerInv, OneMarker, OfficeAskedLast
<1> QED
  BY <1>2, <1>4, <1>5, <1>6 DEF ShutdownInv, ControllerInv
-----------------------------------------------------------------------------
LEMMA ShutdownStart == Init => ShutdownInv
<1> SUFFICES ASSUME Init PROVE ShutdownInv
  OBVIOUS
<1>1. OfficeInv /\ ~markerReceived /\ nameServer = TRUE /\ acks = 0 /\ ~StopAsked
  BY OfficeStart DEF Init, OfficeInit, StopAsked
<1>2. controllerBox = <<>> /\ controllerBox \in Seq(Boxed) /\ \A x : ~Holds(controllerBox, x)
  BY DEF Init, Holds
<1>3. ControllerTypes
  <2>1. /\ node \in [Nodes -> {"running", "stopping", "notified", "closed"}]
        /\ presses \in 0..MaxPresses
    BY TerminationAssumption DEF Init
  <2> QED
    BY <1>2, <2>1 DEF Init, ControllerTypes
<1>4. AskedAfterAck
  BY <1>2 DEF Init, AskedAfterAck
<1>5. NodesFollow /\ NoneForgotten
  BY <1>1, <1>2 DEF Init, NodesFollow, NoneForgotten
<1>6. OneMarker /\ OfficeAskedLast
  BY <1>1, <1>2 DEF Init, OneMarker, OfficeAskedLast, Once
<1> QED
  BY <1>1, <1>3, <1>4, <1>5, <1>6 DEF ShutdownInv, ControllerInv

LEMMA ShutdownStep ==
    ASSUME ShutdownInv, [Next]_vars PROVE ShutdownInv'
<1>1. CASE Press \/ NameServerCrash
  BY <1>1, PressInv, NameServerCrashInv
<1>2. ASSUME NEW r \in Requests, Ask_For_Ticket(r) PROVE ShutdownInv'
  BY <1>2, AskForTicketInv
<1>3. CASE \/ OfficeStep(TestPending) \/ OfficeStep(ActorStep)
           \/ \E w \in Workers : OfficeStep(WorkerStep(w))
  BY <1>3, OfficeStepInv
<1>4. CASE ControllerStep
  BY <1>4, DistributedStopInv, ContinueAsksInv, ContinueEmptyInv, AllAskedInv, StopInv,
     AskNodeInv, AskNodeFailsInv, NodeTerminatedInv, LastNodeTerminatedInv DEF ControllerStep
<1>5. ASSUME NEW n \in Nodes, Notify_Termination(n) \/ Remove(n) PROVE ShutdownInv'
  BY <1>5, NotifyTerminationInv, RemoveInv
<1>6. CASE UNCHANGED vars
  <2> USE <1>6 DEF vars, controllerVars, nodeVars, user
  <2>1. OfficeInv' /\ UNCHANGED <<markerReceived, acks, nameServer>> /\ StopAsked' = StopAsked
    BY OfficeSame DEF ShutdownInv
  <2>2. ControllerTypes' /\ AskedAfterAck' /\ NodesFollow' /\ NoneForgotten'
    BY <2>1 DEF ShutdownInv, ControllerInv, ControllerTypes, AskedAfterAck, NodesFollow, NoneForgotten
  <2>3. OneMarker' /\ OfficeAskedLast'
    BY <2>1 DEF ShutdownInv, ControllerInv, OneMarker, OfficeAskedLast
  <2> QED
    BY <2>1, <2>2, <2>3 DEF ShutdownInv, ControllerInv
<1> QED
  BY <1>1, <1>2, <1>3, <1>4, <1>5, <1>6 DEF Next

\* The invariant holds for every number of requests, workers and nodes, with any number
\* of presses and a crash of the name server, and however outdated the reads are.
LEMMA ShutdownAlways == Spec => []ShutdownInv
<1>1. ShutdownInv /\ [Next]_vars => ShutdownInv'
  BY ShutdownStep
<1> QED
  BY ShutdownStart, <1>1, PTL DEF Spec

\* The variables of the office, the controller and the nodes keep their types; the
\* Int creationRequests is never negative (MessagesReceiver.scala:98, 239).
THEOREM TerminationTypes == Spec => []TypeOK
<1>1. ShutdownInv => TypeOK
  BY DEF ShutdownInv, OfficeInv, ControllerInv, ControllerTypes, TypeOK, Boxed
<1> QED
  BY ShutdownAlways, <1>1, PTL

\* The count of requests is right whatever the actor, its workers and the thread
\* of the agent do in turn, and although each may read what the other has written too
\* late; once a node has been asked to terminate no ticket is in progress, so that its
\* travellers are answered, unless the thread acknowledged on an outdated count while
\* the actor, which had found no marker, dispatched the request; and unless the user
\* presses Stop again or the name server crashes, the office is stopped after every
\* node has confirmed its end (MessagesReceiver.scala, CentralController.scala).
THEOREM ShutdownIsOrdered == Spec => []ShutdownInOrder
<1>1. ASSUME ShutdownInv PROVE ShutdownInOrder
  <2>1. RequestsCounted
    BY <1>1 DEF ShutdownInv, OfficeInv, Counts, Counted, CountedStages, RequestsCounted
  <2>2. NoTicketInProgress
    BY <1>1 DEF ShutdownInv, OfficeInv, OfficeTypeOK, ControllerInv, AskedAfterAck,
       AcknowledgedWhenIdle, Early, NoTicketInProgress, InProgress
  <2>3. OfficeStopsLast
    BY <1>1 DEF ShutdownInv, ControllerInv, OfficeAskedLast, StopAsked, OfficeStopsLast
  <2> QED
    BY <2>1, <2>2, <2>3 DEF ShutdownInOrder
<1> QED
  BY ShutdownAlways, <1>1, PTL

\* Where every read returns the last value written, actor and thread never pass each
\* other unseen: then no ticket at all is in progress once a node was asked to terminate.
THEOREM FreshReadsDoNotRace ==
    ASSUME ~StaleReads
    PROVE  Spec => [](race = "none" /\ (stopped # {} => \A r \in Requests : ~InProgress(r)))
<1>1. ASSUME ShutdownInv
      PROVE  race = "none" /\ (stopped # {} => \A r \in Requests : ~InProgress(r))
  BY <1>1 DEF ShutdownInv, OfficeInv, OfficeTypeOK, RacesByStaleReads, ControllerInv,
     AskedAfterAck, AcknowledgedWhenIdle, Early, InProgress
<1> QED
  BY ShutdownAlways, <1>1, PTL

-----------------------------------------------------------------------------
(* The booking.  It shares only the requests with the end of the simulation.  *)

(* The inductive invariant of the runs.                                      *)

Domains ==
    /\ DOMAIN current_run = Routes /\ DOMAIN current_run_id = Routes /\ DOMAIN table = Routes
    /\ DOMAIN bookingSits = Routes /\ DOMAIN Current_Run = Routes
    /\ DOMAIN Current_Run_Id = Routes /\ DOMAIN Current_Run_Cursor = Routes
    /\ DOMAIN Table = Routes /\ DOMAIN train = Routes /\ DOMAIN call = Routes
    /\ DOMAIN asked = Requests /\ DOMAIN ticket = Requests

\* There is a row behind the current one, for the tickets of the next run, and the
\* rows of the table are those of subsequent rounds.
OfficeRight(r) ==
    /\ current_run[r] \in Nat /\ current_run[r] < Booked!LastRow(r)
    /\ current_run_id[r] \in Nat
    /\ table[r][0] \in Nat \ {0}
    /\ \A i \in Booked!Rows(r) : table[r][i] = table[r][0] + i

\* The train waits while its call is on its way, at the first stage of its run.
TrainRight(r) ==
    /\ Current_Run_Cursor[r] \in 1..Booked!Entries(r)
    /\ train[r] = "calling" <=> call[r].kind # "none"
    /\ train[r] = "calling" => Current_Run_Cursor[r] = 1

\* How train and office differ while no call has failed: the train is ahead until
\* its call is handled, and behind until it has the reply.
Agree(r) ==
    /\ train[r] # "dropped"
    /\ call[r].kind \in {"none", "update_run", "OK", "UPDATED"}
    /\ current_run_id[r] + 1 = table[r][current_run[r]]
    /\ call[r].kind # "UPDATED" => Table[r] = table[r]
    /\ call[r].kind \in {"none", "OK"} => Current_Run[r] = current_run[r] + 1
    /\ call[r].kind = "none" => Current_Run_Id[r] = current_run_id[r] + 1
    /\ call[r].kind = "update_run" =>
          Current_Run[r] = current_run[r] + 2 /\ call[r].run = Current_Run[r]
    /\ call[r].kind \in {"OK", "UPDATED"} => call[r].run_id = current_run_id[r] + 1
    /\ call[r].kind = "UPDATED" =>
          /\ current_run[r] = 0 /\ call[r].new_time_table = table[r]
          /\ Current_Run[r] = Runs[r] /\ Table[r][Booked!LastRow(r)] = table[r][0]

RouteRight(r) == OfficeRight(r) /\ TrainRight(r) /\ (r \notin failed => Agree(r))

\* No ticket is for a round behind the last row, and its number is that of its round.
TicketsRight(r) ==
    \A q \in Booked!Granted(r) :
        /\ ticket[q].seats[r].round \in Nat
        /\ ticket[q].seats[r].round <= table[r][Booked!LastRow(r)]
        /\ r \notin failed => ticket[q].seats[r].run_number = ticket[q].seats[r].round

Sold == {q \in Requests : ticket[q].kind = "granted"}

BookInv ==
    /\ Domains /\ IsFiniteSet(Sold)
    /\ \A r \in Routes : RouteRight(r) /\ TicketsRight(r)

-----------------------------------------------------------------------------
LEMMA Tables ==
  ASSUME Booked!BookingAssumption, NEW r \in Routes
  PROVE  /\ Runs[r] \in Nat /\ Runs[r] > 1 /\ Booked!LastRow(r) \in Nat /\ Booked!LastRow(r) > 0
         /\ Booked!Rows(r) = 0..Booked!LastRow(r) /\ Booked!Entries(r) \in Nat /\ Booked!Entries(r) > 0
BY DEF Booked!BookingAssumption, Booked!LastRow, Booked!Rows, Booked!Entries

\* A step of one route.
Same(s) ==
    /\ current_run'[s] = current_run[s] /\ current_run_id'[s] = current_run_id[s]
    /\ table'[s] = table[s]
    /\ Current_Run'[s] = Current_Run[s] /\ Current_Run_Id'[s] = Current_Run_Id[s]
    /\ Current_Run_Cursor'[s] = Current_Run_Cursor[s] /\ Table'[s] = Table[s]
    /\ train'[s] = train[s] /\ call'[s] = call[s]
    /\ s \in failed' <=> s \in failed

LEMMA SameRight ==
  ASSUME NEW s \in Routes, Same(s), RouteRight(s)
  PROVE  RouteRight(s)'
<1>1. Booked!Rows(s)' = Booked!Rows(s) /\ Booked!LastRow(s)' = Booked!LastRow(s) /\ Booked!Entries(s)' = Booked!Entries(s)
  BY DEF Booked!Rows, Booked!LastRow, Booked!Entries
<1>2. OfficeRight(s)'
  BY <1>1 DEF Same, RouteRight, OfficeRight
<1>3. TrainRight(s)'
  BY <1>1 DEF Same, RouteRight, TrainRight
<1>4. (s \notin failed => Agree(s))'
  BY <1>1 DEF Same, RouteRight, Agree
<1> QED
  BY <1>2, <1>3, <1>4 DEF RouteRight

LEMMA OneRoute ==
  ASSUME NEW r \in Routes, \A s \in Routes : RouteRight(s),
         \A s \in Routes : s # r => Same(s), RouteRight(r)'
  PROVE  \A s \in Routes : RouteRight(s)'
BY SameRight

\* A step that sells nothing leaves the tickets right.
LEMMA TicketsStay ==
  ASSUME Booked!BookingAssumption, NEW r \in Routes, TicketsRight(r), ticket' = ticket,
         r \in failed => r \in failed', OfficeRight(r), OfficeRight(r)',
         table'[r][Booked!LastRow(r)] >= table[r][Booked!LastRow(r)]
  PROVE  TicketsRight(r)'
<1>1. Booked!LastRow(r)' = Booked!LastRow(r) /\ Booked!Granted(r)' = Booked!Granted(r) /\ Booked!LastRow(r) \in Booked!Rows(r)
  BY Tables DEF Booked!LastRow, Booked!Granted
<1>2. table[r][Booked!LastRow(r)] \in Nat
  BY <1>1, Tables DEF OfficeRight
<1>3. Booked!Rows(r)' = Booked!Rows(r)
  BY DEF Booked!Rows
<1>4. table'[r][Booked!LastRow(r)] \in Nat
  BY <1>1, <1>3, Tables DEF OfficeRight
<1> QED
  BY <1>1, <1>2, <1>4 DEF TicketsRight

-----------------------------------------------------------------------------
(* The steps of the trains.                                                  *)

\* What the step of a route keeps of all.
Kept(r) ==
    /\ Domains' /\ RouteRight(r)'
    /\ \A s \in Routes : s # r => Same(s)

LEMMA TrainSteps ==
  ASSUME Booked!BookingAssumption, Domains, NEW r \in Routes, RouteRight(r),
         Booked!Tick(r) \/ Booked!Depart(r) \/ Booked!Drop(r)
  PROVE  Kept(r)
<1>1. CASE Booked!Tick(r)
  <2>1. \A s \in Routes : Same(s)
    BY <1>1 DEF Booked!Tick, Same, Booked!officeVars, Booked!trainVars, Booked!tableVars
  <2>2. Domains'
    BY <1>1 DEF Booked!Tick, Domains, Booked!officeVars, Booked!trainVars, Booked!tableVars,
                Booked!ticketVars
  <2> QED
    BY <2>1, <2>2, SameRight DEF Kept
<1>2. CASE Booked!Depart(r)
  <2>1. \A s \in Routes : s # r => Same(s)
    BY <1>2 DEF Booked!Depart, Same, Booked!officeVars, Domains
  <2>2. Domains'
    BY <1>2 DEF Booked!Depart, Domains, Booked!officeVars, Booked!ticketVars
  <2>3. Booked!Rows(r)' = Booked!Rows(r) /\ Booked!LastRow(r)' = Booked!LastRow(r) /\ Booked!Entries(r)' = Booked!Entries(r)
    BY DEF Booked!Rows, Booked!LastRow, Booked!Entries
  <2>4. OfficeRight(r)'
    BY <1>2, <2>3 DEF Booked!Depart, Booked!officeVars, OfficeRight, RouteRight
  <2>5. Current_Run_Cursor'[r] = Current_Run_Cursor[r] + 1 /\ Current_Run_Cursor[r] < Booked!Entries(r)
    BY <1>2 DEF Booked!Depart, Domains
  <2>6. TrainRight(r)'
    BY <1>2, <2>3, <2>5, Tables DEF Booked!Depart, TrainRight, RouteRight
  <2>7. (r \notin failed => Agree(r))'
    BY <1>2, <2>3 DEF Booked!Depart, Booked!officeVars, Agree, RouteRight
  <2> QED
    BY <2>1, <2>2, <2>4, <2>6, <2>7 DEF Kept, RouteRight
<1>3. CASE Booked!Drop(r)
  <2>1. \A s \in Routes : s # r => Same(s)
    BY <1>3 DEF Booked!Drop, Same, Booked!officeVars, Booked!tableVars, Domains
  <2>2. Domains'
    BY <1>3 DEF Booked!Drop, Domains, Booked!officeVars, Booked!tableVars, Booked!ticketVars
  <2>3. Booked!Rows(r)' = Booked!Rows(r) /\ Booked!LastRow(r)' = Booked!LastRow(r) /\ Booked!Entries(r)' = Booked!Entries(r)
    BY DEF Booked!Rows, Booked!LastRow, Booked!Entries
  <2>4. OfficeRight(r)'
    BY <1>3, <2>3 DEF Booked!Drop, Booked!officeVars, OfficeRight, RouteRight
  <2>5. train'[r] = "dropped" /\ train[r] = "running" /\ call' = call
    BY <1>3 DEF Booked!Drop, Domains
  <2>6. TrainRight(r)'
    BY <1>3, <2>3, <2>5 DEF Booked!Drop, Booked!tableVars, TrainRight, RouteRight
  <2>7. r \in failed
    <3>1. ASSUME r \notin failed PROVE FALSE
      <4>1. call[r].kind = "none" /\ Agree(r) /\ OfficeRight(r)
        BY <2>5, <3>1 DEF RouteRight, TrainRight
      <4>2. Current_Run[r] = current_run[r] + 1 /\ current_run[r] \in Nat /\ current_run[r] < Booked!LastRow(r)
        BY <4>1 DEF Agree, OfficeRight
      <4>3. Booked!HasRow(r)
        BY <4>2, Tables DEF Booked!HasRow
      <4> QED
        BY <1>3, <4>3 DEF Booked!Drop
    <3> QED
      BY <3>1
  <2>8. failed' = failed
    BY <1>3 DEF Booked!Drop
  <2> QED
    BY <2>1, <2>2, <2>4, <2>6, <2>7, <2>8 DEF Kept, RouteRight
<1> QED
  BY <1>1, <1>2, <1>3

LEMMA EndRunRight ==
  ASSUME Booked!BookingAssumption, Domains, NEW r \in Routes, RouteRight(r), Booked!EndRun(r)
  PROVE  Kept(r)
<1>1. \A s \in Routes : s # r => Same(s)
  BY DEF Booked!EndRun, Same, Booked!officeVars, Domains
<1>2. Domains'
  BY DEF Booked!EndRun, Domains, Booked!officeVars, Booked!ticketVars
<1>3. Booked!Rows(r)' = Booked!Rows(r) /\ Booked!LastRow(r)' = Booked!LastRow(r) /\ Booked!Entries(r)' = Booked!Entries(r)
  BY DEF Booked!Rows, Booked!LastRow, Booked!Entries
<1>4. OfficeRight(r)'
  BY <1>3 DEF Booked!EndRun, Booked!officeVars, OfficeRight, RouteRight
<1>5. /\ Current_Run_Cursor'[r] = 1 /\ Current_Run'[r] = Current_Run[r] + 1
      /\ train'[r] = "calling" /\ call'[r] = [kind |-> "update_run", run |-> Current_Run[r] + 1]
      /\ train[r] = "running" /\ failed' = failed
  BY DEF Booked!EndRun, Domains
<1>6. call'[r].kind = "update_run" /\ call'[r].run = Current_Run[r] + 1
  BY <1>5
<1>7. TrainRight(r)'
  BY <1>3, <1>5, <1>6, Tables DEF TrainRight
<1>8. ASSUME r \notin failed PROVE Agree(r)'
  <2>1. call[r].kind = "none" /\ Agree(r) /\ OfficeRight(r)
    BY <1>5, <1>8 DEF RouteRight, TrainRight
  <2>2. Current_Run[r] = current_run[r] + 1 /\ Table[r] = table[r] /\ current_run[r] \in Nat
    BY <2>1 DEF Agree, OfficeRight
  <2>3. Current_Run'[r] = current_run[r] + 2 /\ call'[r].run = Current_Run'[r]
    BY <1>5, <1>6, <2>2
  <2> QED
    BY <1>3, <1>5, <1>6, <2>1, <2>2, <2>3 DEF Booked!EndRun, Booked!officeVars, Agree
<1> QED
  BY <1>1, <1>2, <1>4, <1>5, <1>7, <1>8 DEF Kept, RouteRight

LEMMA TakeReplyRight ==
  ASSUME Booked!BookingAssumption, Domains, NEW r \in Routes, RouteRight(r), Booked!TakeReply(r)
  PROVE  Kept(r)
<1>1. \A s \in Routes : s # r => Same(s)
  BY DEF Booked!TakeReply, Same, Booked!officeVars, Domains
<1>2. Domains'
  BY DEF Booked!TakeReply, Domains, Booked!officeVars, Booked!ticketVars
<1>3. Booked!Rows(r)' = Booked!Rows(r) /\ Booked!LastRow(r)' = Booked!LastRow(r) /\ Booked!Entries(r)' = Booked!Entries(r)
  BY DEF Booked!Rows, Booked!LastRow, Booked!Entries
<1>4. OfficeRight(r)'
  BY <1>3 DEF Booked!TakeReply, Booked!officeVars, OfficeRight, RouteRight
<1>5. /\ train'[r] = "running" /\ call'[r] = Booked!Nothing /\ call'[r].kind = "none"
      /\ failed' = failed /\ Current_Run_Cursor' = Current_Run_Cursor
  BY DEF Booked!TakeReply, Domains, Booked!Nothing
<1>6. TrainRight(r)'
  BY <1>3, <1>5 DEF TrainRight, RouteRight
<1>7. ASSUME r \notin failed PROVE Agree(r)'
  <2>1. Agree(r) /\ OfficeRight(r)
    BY <1>7 DEF RouteRight
  <2>2. current_run' = current_run /\ current_run_id' = current_run_id /\ table' = table
    BY DEF Booked!TakeReply, Booked!officeVars
  <2>3. CASE call[r].kind = "UPDATED"
    <3>1. /\ Current_Run'[r] = 1 /\ Current_Run_Id'[r] = call[r].run_id
          /\ Table'[r] = call[r].new_time_table
      BY <2>3 DEF Booked!TakeReply, Domains, Booked!RunAfterUpdate
    <3> QED
      BY <1>3, <1>5, <2>1, <2>2, <2>3, <3>1 DEF Agree
  <2>4. CASE call[r].kind = "OK"
    <3>1. /\ Current_Run' = Current_Run /\ Current_Run_Id'[r] = call[r].run_id
          /\ Table' = Table
      BY <2>4 DEF Booked!TakeReply, Domains
    <3> QED
      BY <1>3, <1>5, <2>1, <2>2, <2>4, <3>1 DEF Agree
  <2> QED
    BY <2>1, <2>3, <2>4 DEF Booked!TakeReply, Agree
<1> QED
  BY <1>1, <1>2, <1>4, <1>5, <1>6, <1>7 DEF Kept, RouteRight

LEMMA CallFailsRight ==
  ASSUME Booked!BookingAssumption, Domains, NEW r \in Routes, RouteRight(r), Booked!CallFails(r)
  PROVE  Kept(r)
<1>1. \A s \in Routes : s # r => Same(s)
  BY DEF Booked!CallFails, Same, Booked!officeVars, Booked!tableVars, Domains
<1>2. Domains'
  BY DEF Booked!CallFails, Domains, Booked!officeVars, Booked!tableVars, Booked!ticketVars
<1>3. Booked!Rows(r)' = Booked!Rows(r) /\ Booked!LastRow(r)' = Booked!LastRow(r) /\ Booked!Entries(r)' = Booked!Entries(r)
  BY DEF Booked!Rows, Booked!LastRow, Booked!Entries
<1>4. OfficeRight(r)'
  BY <1>3 DEF Booked!CallFails, Booked!officeVars, OfficeRight, RouteRight
<1>5. /\ train'[r] = "running" /\ call'[r] = Booked!Nothing /\ call'[r].kind = "none"
      /\ r \in failed' /\ Current_Run_Cursor' = Current_Run_Cursor
  BY DEF Booked!CallFails, Domains, Booked!Nothing, Booked!tableVars
<1>6. TrainRight(r)'
  BY <1>3, <1>5 DEF TrainRight, RouteRight
<1> QED
  BY <1>1, <1>2, <1>4, <1>5, <1>6 DEF Kept, RouteRight

-----------------------------------------------------------------------------
(* The steps of the office.                                                  *)

LEMMA ErrorRight ==
  ASSUME Booked!BookingAssumption, Domains, NEW r \in Routes, RouteRight(r),
         Booked!UpdateRunError(r)
  PROVE  Kept(r)
<1>1. \A s \in Routes : s # r => Same(s)
  BY DEF Booked!UpdateRunError, Booked!Answer, Same, Booked!officeVars, Booked!tableVars, Domains
<1>2. Domains'
  BY DEF Booked!UpdateRunError, Booked!Answer, Domains, Booked!officeVars, Booked!tableVars,
         Booked!ticketVars
<1>3. Booked!Rows(r)' = Booked!Rows(r) /\ Booked!LastRow(r)' = Booked!LastRow(r) /\ Booked!Entries(r)' = Booked!Entries(r)
  BY DEF Booked!Rows, Booked!LastRow, Booked!Entries
<1>4. OfficeRight(r)'
  BY <1>3 DEF Booked!UpdateRunError, Booked!officeVars, OfficeRight, RouteRight
<1>5. /\ train' = train /\ call'[r].kind = "ERROR" /\ call[r].kind = "update_run"
      /\ failed' = failed /\ Current_Run_Cursor' = Current_Run_Cursor
  BY DEF Booked!UpdateRunError, Booked!Answer, Domains, Booked!tableVars
<1>6. TrainRight(r)'
  BY <1>3, <1>5 DEF TrainRight, RouteRight
<1>7. ASSUME r \notin failed PROVE FALSE
  <2>1. /\ call[r].run = current_run[r] + 2 /\ current_run[r] \in Nat /\ current_run[r] < Booked!LastRow(r)
    BY <1>5, <1>7 DEF RouteRight, Agree, OfficeRight
  <2>2. call[r].run - 1 \in Booked!Rows(r)
    BY <2>1, Tables
  <2> QED
    BY <2>2 DEF Booked!UpdateRunError
<1> QED
  BY <1>1, <1>2, <1>4, <1>5, <1>6, <1>7 DEF Kept, RouteRight

\* The rows of the table that UpdateRun makes.
NewTable(r) == [i \in Booked!Rows(r) |-> table[r][Booked!LastRow(r)] + i]

LEMMA UpdateRunRight ==
  ASSUME Booked!BookingAssumption, Domains, NEW r \in Routes, RouteRight(r), Booked!UpdateRun(r)
  PROVE  /\ Kept(r) /\ table'[r][Booked!LastRow(r)] >= table[r][Booked!LastRow(r)]
<1>1. \A s \in Routes : s # r => Same(s)
  BY DEF Booked!UpdateRun, Booked!Answer, Same, Booked!tableVars, Domains
<1>2. Domains'
  BY DEF Booked!UpdateRun, Booked!Answer, Domains, Booked!tableVars, Booked!ticketVars
<1>3. Booked!Rows(r)' = Booked!Rows(r) /\ Booked!LastRow(r)' = Booked!LastRow(r) /\ Booked!Entries(r)' = Booked!Entries(r)
  BY DEF Booked!Rows, Booked!LastRow, Booked!Entries
<1> DEFINE run == call[r].run - 1
<1>4. /\ run \in Booked!Rows(r) /\ call[r].kind = "update_run"
      /\ UNCHANGED <<Current_Run, Current_Run_Id, Current_Run_Cursor, Table, train, failed>>
  BY DEF Booked!UpdateRun, Booked!tableVars
<1>5. /\ Runs[r] \in Nat /\ Runs[r] > 1 /\ Booked!LastRow(r) \in Nat /\ Booked!LastRow(r) > 0
      /\ Booked!Rows(r) = 0..Booked!LastRow(r) /\ Booked!LastRow(r) = Runs[r] - 1
  BY Tables DEF Booked!LastRow
<1>6. /\ current_run_id'[r] = current_run_id[r] + 1
      /\ current_run'[r] = IF run = Booked!LastRow(r) THEN 0 ELSE run
  BY DEF Booked!UpdateRun, Domains, Booked!IdAfter, Booked!RowAfter
<1>7. /\ run = Booked!LastRow(r) =>
           /\ table'[r] = NewTable(r)
           /\ call'[r] = [kind |-> "UPDATED", run_id |-> current_run_id[r] + 2,
                          new_time_table |-> NewTable(r)]
      /\ run # Booked!LastRow(r) =>
           /\ table' = table
           /\ call'[r] = [kind |-> "OK", run_id |-> current_run_id[r] + 2]
  <2>1. OfficeRight(r)
    BY DEF RouteRight
  <2>2. Booked!IdAfter(r, run) + 1 = current_run_id[r] + 2
    BY <2>1 DEF Booked!IdAfter, OfficeRight
  <2> QED
    BY <2>2 DEF Booked!UpdateRun, Domains, Booked!Answer, NewTable
<1>8. /\ current_run[r] \in Nat /\ current_run[r] < Booked!LastRow(r) /\ current_run_id[r] \in Nat
      /\ table[r][0] \in Nat \ {0} /\ \A i \in Booked!Rows(r) : table[r][i] = table[r][0] + i
  BY DEF RouteRight, OfficeRight
<1>9. /\ table[r][Booked!LastRow(r)] = table[r][0] + Booked!LastRow(r)
      /\ \A i \in Booked!Rows(r) : NewTable(r)[i] = table[r][Booked!LastRow(r)] + i
  BY <1>5, <1>8 DEF NewTable
<1>10. NewTable(r)[0] = table[r][Booked!LastRow(r)]
  BY <1>5, <1>8, <1>9
<1> HIDE DEF run
<1>11. /\ OfficeRight(r)' /\ table'[r][Booked!LastRow(r)] >= table[r][Booked!LastRow(r)]
  <2>1. CASE run = Booked!LastRow(r)
    <3>1. \A i \in Booked!Rows(r) : table'[r][i] = table'[r][0] + i
      BY <1>7, <1>9, <1>10, <2>1
    <3>2. table'[r][0] \in Nat \ {0} /\ table'[r][Booked!LastRow(r)] >= table[r][Booked!LastRow(r)]
      <4>1. Booked!LastRow(r) \in Booked!Rows(r)
        BY <1>5
      <4>2. table'[r] = NewTable(r) /\ NewTable(r)[Booked!LastRow(r)] = table[r][Booked!LastRow(r)] + Booked!LastRow(r)
        BY <1>7, <1>9, <2>1, <4>1
      <4>3. /\ table'[r][0] = table[r][Booked!LastRow(r)]
            /\ table'[r][Booked!LastRow(r)]
                 = table[r][Booked!LastRow(r)] + Booked!LastRow(r)
        BY <1>10, <4>2
      <4>4. ASSUME NEW first \in Nat \ {0}, NEW last \in Nat
            PROVE  /\ first + last \in Nat \ {0}
                   /\ (first + last) + last >= first + last
        OBVIOUS
      <4>5. /\ table[r][Booked!LastRow(r)] \in Nat \ {0}
            /\ table[r][Booked!LastRow(r)] + Booked!LastRow(r)
                 >= table[r][Booked!LastRow(r)]
        BY <1>5, <1>8, <1>9, <4>4
      <4> QED
        BY <4>3, <4>5
    <3> QED
      BY <1>3, <1>5, <1>6, <1>8, <2>1, <3>1, <3>2 DEF OfficeRight
  <2>2. CASE run # Booked!LastRow(r)
    <3>1. run \in Nat /\ run < Booked!LastRow(r)
      BY <1>4, <1>5, <2>2
    <3>2. table'[r][Booked!LastRow(r)] >= table[r][Booked!LastRow(r)]
      BY <1>5, <1>7, <1>8, <1>9, <2>2
    <3> QED
      BY <1>3, <1>6, <1>7, <1>8, <2>2, <3>1, <3>2 DEF OfficeRight
  <2> QED
    BY <2>1, <2>2
<1>12. call'[r].kind \in {"OK", "UPDATED"}
  BY <1>7
<1>13. TrainRight(r)'
  BY <1>3, <1>4, <1>12 DEF TrainRight, RouteRight
<1>14. ASSUME r \notin failed PROVE Agree(r)'
  <2>1. /\ Agree(r) /\ call[r].run = current_run[r] + 2 /\ Current_Run[r] = current_run[r] + 2
        /\ Table[r] = table[r] /\ current_run_id[r] + 1 = table[r][current_run[r]]
    BY <1>4, <1>14 DEF RouteRight, Agree
  <2>2. run = current_run[r] + 1 /\ current_run[r] \in Booked!Rows(r) /\ run \in Booked!Rows(r)
    BY <1>4, <1>5, <1>8, <2>1 DEF run
  <2>3. table[r][run] = current_run_id[r] + 2
    <3>1. table[r][run] = table[r][0] + run /\ table[r][current_run[r]] = table[r][0] + current_run[r]
      BY <1>8, <2>2
    <3> QED
      BY <1>8, <2>1, <2>2, <3>1
  <2>4. CASE run = Booked!LastRow(r)
    <3>1. /\ current_run'[r] = 0 /\ table'[r] = NewTable(r) /\ table'[r][0] = current_run_id[r] + 2
          /\ Table'[r][Booked!LastRow(r)] = table'[r][0]
      BY <1>4, <1>6, <1>7, <1>10, <2>1, <2>3, <2>4
    <3>2. Current_Run'[r] = Runs[r]
      BY SMTT(20), <1>4, <1>5, <1>8, <2>1, <2>2, <2>4
    <3>3. /\ call'[r].kind = "UPDATED" /\ call'[r].run_id = current_run_id[r] + 2
          /\ call'[r].new_time_table = table'[r]
      BY <1>7, <2>4
    <3>4. /\ current_run_id'[r] + 1 = table'[r][current_run'[r]]
          /\ call'[r].run_id = current_run_id'[r] + 1
      BY <1>6, <1>8, <3>1, <3>3
    <3>5. train'[r] # "dropped"
      BY <1>4, <2>1 DEF Agree
    <3> QED
      BY <1>3, <3>1, <3>2, <3>3, <3>4, <3>5 DEF Agree
  <2>5. CASE run # Booked!LastRow(r)
    <3>1. /\ current_run'[r] = run /\ table' = table /\ Table'[r] = table'[r]
      BY <1>4, <1>6, <1>7, <2>1, <2>5
    <3>2. Current_Run'[r] = current_run'[r] + 1
      BY <1>4, <1>8, <2>1, <2>2, <3>1
    <3>3. call'[r].kind = "OK" /\ call'[r].run_id = current_run_id[r] + 2
      BY <1>7, <2>5
    <3>4. /\ current_run_id'[r] + 1 = table'[r][current_run'[r]]
          /\ call'[r].run_id = current_run_id'[r] + 1
      BY <1>6, <1>8, <2>3, <3>1, <3>3
    <3>5. train'[r] # "dropped"
      BY <1>4, <2>1 DEF Agree
    <3> QED
      BY <1>3, <3>1, <3>2, <3>3, <3>4, <3>5 DEF Agree
  <2> QED
    BY <2>4, <2>5
<1> QED
  BY <1>1, <1>2, <1>4, <1>11, <1>13, <1>14 DEF Kept, RouteRight

-----------------------------------------------------------------------------
(* Tickets.                                                                  *)

LEMMA AskRight ==
  ASSUME BookInv, NEW q \in Requests, Booked!Ask(q) \/ Booked!Refuse(q)
  PROVE  /\ BookInv' /\ bookingSits' = bookingSits /\ table' = table
         /\ Sold' = Sold /\ (\A r \in Routes : Booked!Granted(r)' = Booked!Granted(r))
         /\ \A p \in Sold : ticket'[p] = ticket[p]
<1>1. /\ UNCHANGED <<Booked!officeVars, bookingSits, Booked!trainVars>>
      /\ \E k \in {"asked", "refused"} : ticket' = [ticket EXCEPT ![q] = [kind |-> k]]
      /\ ticket[q].kind # "granted" /\ DOMAIN asked' = DOMAIN asked
  BY DEF Booked!Ask, Booked!Refuse
<1>2. DOMAIN ticket = Requests
  BY DEF BookInv, Domains
<1>3. \A p \in Requests : p # q => ticket'[p] = ticket[p]
  BY <1>1, <1>2
<1>4. ticket'[q].kind # "granted"
  BY <1>1, <1>2
<1>5. Sold' = Sold /\ (\A r \in Routes : Booked!Granted(r)' = Booked!Granted(r))
  BY <1>1, <1>3, <1>4 DEF Sold, Booked!Granted
<1>6. \A p \in Sold : ticket'[p] = ticket[p]
  BY <1>1, <1>3 DEF Sold
<1>7. Domains'
  BY <1>1, <1>2 DEF BookInv, Domains, Booked!officeVars, Booked!trainVars, Booked!tableVars
<1>8. \A r \in Routes : Same(r)
  BY <1>1 DEF Same, Booked!officeVars, Booked!trainVars, Booked!tableVars
<1>9. ASSUME NEW r \in Routes PROVE RouteRight(r)' /\ TicketsRight(r)'
  <2>1. RouteRight(r)'
    BY <1>8, SameRight DEF BookInv
  <2>2. Booked!LastRow(r)' = Booked!LastRow(r) /\ Booked!Granted(r)' = Booked!Granted(r) /\ Booked!Granted(r) \subseteq Sold
    BY <1>5 DEF Booked!LastRow, Booked!Granted, Sold
  <2>3. table' = table /\ failed' = failed
    BY <1>1 DEF Booked!officeVars, Booked!trainVars
  <2>4. TicketsRight(r)
    BY DEF BookInv
  <2>5. TicketsRight(r)'
    BY <1>6, <2>2, <2>3, <2>4 DEF TicketsRight
  <2> QED
    BY <2>1, <2>5
<1> QED
  BY <1>1, <1>5, <1>6, <1>7, <1>9 DEF BookInv, Booked!officeVars

\* What a new ticket holds: its row, and the stages of which it takes a seat.
Row(q, r) == current_run[r] + Booked!Selected(asked[q], r)

LEMMA RowOfTicket ==
  ASSUME Booked!BookingAssumption, NEW r \in Routes, OfficeRight(r), NEW q
  PROVE  /\ Booked!Selected(asked[q], r) \in {0, 1} /\ Row(q, r) \in Booked!Rows(r)
         /\ table[r][Row(q, r)] = table[r][0] + Row(q, r) /\ Row(q, r) \in Nat
         /\ Row(q, r) <= Booked!LastRow(r) /\ table[r][Booked!LastRow(r)] = table[r][0] + Booked!LastRow(r)
<1>1. Booked!Selected(asked[q], r) \in {0, 1}
  BY DEF Booked!Selected, Booked!SelectedRun
<1>2. Booked!LastRow(r) \in Nat /\ Booked!Rows(r) = 0..Booked!LastRow(r)
  BY Tables
<1>3. Row(q, r) \in 0..Booked!LastRow(r)
  BY <1>1, <1>2 DEF Row, OfficeRight
<1> QED
  BY <1>1, <1>2, <1>3 DEF OfficeRight

LEMMA GrantFacts ==
  ASSUME Domains, NEW q \in Requests, Booked!Grant(q)
  PROVE  /\ ticket[q].kind = "asked" /\ ticket'[q].kind = "granted"
         /\ DOMAIN ticket'[q].seats = Booked!RoutesOf(asked[q].stages)
         /\ \A r \in Booked!RoutesOf(asked[q].stages) :
              ticket'[q].seats[r] =
                [round |-> table[r][Row(q, r)],
                 run_number |-> current_run_id[r] + Booked!Selected(asked[q], r) + 1,
                 first |-> Booked!Indexes(asked[q].stages[Booked!FirstOn(asked[q].stages, r)])[1],
                 last |-> Booked!Indexes(asked[q].stages[Booked!LastOn(asked[q].stages, r)])[2]]
         /\ \A p \in Requests : p # q => ticket'[p] = ticket[p]
         /\ DOMAIN ticket' = Requests
BY DEF Booked!Grant, Row, Domains

LEMMA GrantRight ==
  ASSUME Booked!BookingAssumption, BookInv, NEW q \in Requests, Booked!Grant(q)
  PROVE  BookInv'
<1>1. Domains /\ IsFiniteSet(Sold) /\ \A r \in Routes : RouteRight(r) /\ TicketsRight(r)
  BY DEF BookInv
<1>2. /\ ticket[q].kind = "asked" /\ ticket'[q].kind = "granted"
      /\ \A p \in Requests : p # q => ticket'[p] = ticket[p]
      /\ DOMAIN ticket' = Requests
  BY <1>1, GrantFacts
<1>3. UNCHANGED <<Booked!officeVars, Booked!trainVars, asked>> /\ DOMAIN bookingSits' = Routes
  BY DEF Booked!Grant
<1>4. Sold' = Sold \cup {q}
  BY <1>2 DEF Sold
<1>5. IsFiniteSet(Sold')
  BY <1>1, <1>4, FS_AddElement
<1>6. Domains'
  BY <1>1, <1>2, <1>3 DEF Domains, Booked!officeVars, Booked!trainVars, Booked!tableVars
<1>7. \A r \in Routes : RouteRight(r)'
  BY <1>1, <1>3, SameRight DEF Same, Booked!officeVars, Booked!trainVars, Booked!tableVars
<1>8. ASSUME NEW r \in Routes PROVE TicketsRight(r)'
  <2>1. Booked!LastRow(r)' = Booked!LastRow(r) /\ table' = table /\ failed' = failed
    BY <1>3 DEF Booked!LastRow, Booked!officeVars, Booked!trainVars
  <2>2. OfficeRight(r) /\ TicketsRight(r) /\ (r \notin failed => Agree(r))
    BY <1>1 DEF RouteRight
  <2>3. ASSUME NEW p \in Booked!Granted(r)', p # q
        PROVE  p \in Booked!Granted(r) /\ ticket'[p] = ticket[p]
    BY <1>2, <2>3 DEF Booked!Granted
  <2>4. ASSUME q \in Booked!Granted(r)'
        PROVE  /\ ticket'[q].seats[r].round \in Nat
               /\ ticket'[q].seats[r].round <= table[r][Booked!LastRow(r)]
               /\ r \notin failed => ticket'[q].seats[r].run_number = ticket'[q].seats[r].round
    <3>1. r \in Booked!RoutesOf(asked[q].stages)
      BY <1>1, <2>4, GrantFacts DEF Booked!Granted
    <3>2. /\ ticket'[q].seats[r].round = table[r][Row(q, r)]
          /\ ticket'[q].seats[r].run_number = current_run_id[r] + Booked!Selected(asked[q], r) + 1
      <4>1. ticket'[q].seats[r] =
               [round |-> table[r][Row(q, r)],
                run_number |-> current_run_id[r] + Booked!Selected(asked[q], r) + 1,
                first |-> Booked!Indexes(asked[q].stages[Booked!FirstOn(asked[q].stages, r)])[1],
                last |-> Booked!Indexes(asked[q].stages[Booked!LastOn(asked[q].stages, r)])[2]]
        BY <1>1, <3>1, GrantFacts
      <4> QED
        BY <4>1
    <3>3. /\ Booked!Selected(asked[q], r) \in {0, 1} /\ Row(q, r) \in Nat
          /\ table[r][Row(q, r)] = table[r][0] + Row(q, r) /\ Row(q, r) <= Booked!LastRow(r)
          /\ table[r][Booked!LastRow(r)] = table[r][0] + Booked!LastRow(r) /\ Booked!LastRow(r) \in Nat
      BY <2>2, RowOfTicket, Tables
    <3>4. /\ current_run[r] \in Nat /\ current_run[r] < Booked!LastRow(r) /\ current_run_id[r] \in Nat
          /\ table[r][0] \in Nat
      BY <2>2 DEF OfficeRight
    <3>5. ASSUME r \notin failed
          PROVE  current_run_id[r] + Booked!Selected(asked[q], r) + 1 = table[r][Row(q, r)]
      <4>1. current_run_id[r] + 1 = table[r][current_run[r]]
        BY <2>2, <3>5 DEF Agree
      <4>2. table[r][current_run[r]] = table[r][0] + current_run[r]
        BY <2>2, <3>4, Tables DEF OfficeRight
      <4> QED
        BY <3>3, <3>4, <4>1, <4>2 DEF Row
    <3> QED
      BY <3>2, <3>3, <3>4, <3>5
  <2> QED
    BY <2>1, <2>2, <2>3, <2>4 DEF TicketsRight
<1> QED
  BY <1>5, <1>6, <1>7, <1>8 DEF BookInv

-----------------------------------------------------------------------------
(* The runs of train, office and tickets.                                    *)

\* The steps in which nobody asks the office for a ticket.
RouteStep(r) ==
    \/ Booked!Tick(r) \/ Booked!Depart(r) \/ Booked!EndRun(r) \/ Booked!TakeReply(r) \/ Booked!CallFails(r) \/ Booked!Drop(r)
    \/ Booked!UpdateRun(r) \/ Booked!UpdateRunError(r)

LEMMA RouteStepRight ==
  ASSUME Booked!BookingAssumption, BookInv, NEW r \in Routes, RouteStep(r)
  PROVE  BookInv' /\ ticket' = ticket
<1>1. Domains /\ IsFiniteSet(Sold) /\ \A s \in Routes : RouteRight(s) /\ TicketsRight(s)
  BY DEF BookInv
<1>2. Kept(r)
  BY <1>1, TrainSteps, EndRunRight, TakeReplyRight, CallFailsRight, ErrorRight, UpdateRunRight
     DEF RouteStep
<1>3. ticket' = ticket /\ Sold' = Sold
  BY DEF RouteStep, Booked!Tick, Booked!Depart, Booked!EndRun, Booked!TakeReply, Booked!CallFails,
         Booked!Drop, Booked!UpdateRun, Booked!UpdateRunError,
         Booked!ticketVars, Sold
<1>4. \A s \in Routes : RouteRight(s)'
  BY <1>1, <1>2, OneRoute DEF Kept
<1>5. \A s \in failed : s \in failed'
  BY DEF RouteStep, Booked!Tick, Booked!Depart, Booked!EndRun, Booked!TakeReply, Booked!CallFails,
         Booked!Drop, Booked!UpdateRun, Booked!UpdateRunError,
         Booked!trainVars
<1>6. ASSUME NEW s \in Routes PROVE table'[s][Booked!LastRow(s)] >= table[s][Booked!LastRow(s)]
  <2>1. CASE s = r /\ Booked!UpdateRun(r)
    BY <1>1, <2>1, UpdateRunRight
  <2>2. CASE ~(s = r /\ Booked!UpdateRun(r))
    <3>1. table'[s] = table[s]
      BY <1>2, <2>2 DEF Kept, Same, RouteStep, Booked!Tick, Booked!Depart, Booked!EndRun,
                        Booked!TakeReply, Booked!CallFails, Booked!Drop,
                        Booked!UpdateRunError, Booked!officeVars
    <3>2. table[s][Booked!LastRow(s)] \in Nat
      <4>1. Booked!LastRow(s) \in Booked!Rows(s) /\ Booked!LastRow(s) \in Nat
        BY Tables
      <4> QED
        BY <1>1, <4>1 DEF RouteRight, OfficeRight
    <3> QED
      BY <3>1, <3>2
  <2> QED
    BY <2>1, <2>2
<1>7. \A s \in Routes : TicketsRight(s)'
  BY <1>1, <1>3, <1>4, <1>5, <1>6, TicketsStay DEF RouteRight
<1> QED
  BY <1>1, <1>2, <1>3, <1>4, <1>7 DEF BookInv, Kept

LEMMA BookInit == Booked!BookingAssumption /\ Booked!Init => BookInv
<1> SUFFICES ASSUME Booked!BookingAssumption, Booked!Init PROVE BookInv
  OBVIOUS
<1>1. Domains
  BY DEF Booked!Init, Domains
<1>2. Sold = {} /\ \A r \in Routes : Booked!Granted(r) = {}
  BY DEF Booked!Init, Sold, Booked!Granted, Booked!Nothing
<1>3. ASSUME NEW r \in Routes PROVE RouteRight(r) /\ TicketsRight(r)
  <2>1. Booked!LastRow(r) \in Nat /\ Booked!LastRow(r) > 0 /\ Booked!Rows(r) = 0..Booked!LastRow(r)
    BY Tables
  <2>2. \A i \in Booked!Rows(r) : table[r][i] = i + 1
    BY DEF Booked!Init
  <2>3. table[r][0] = 1
    BY <2>1, <2>2
  <2>4. OfficeRight(r)
    BY <2>1, <2>2, <2>3 DEF Booked!Init, OfficeRight
  <2>5. TrainRight(r)
    BY Tables DEF Booked!Init, TrainRight, Booked!Nothing
  <2>6. Agree(r)
    BY <2>3 DEF Booked!Init, Agree, Booked!Nothing
  <2> QED
    BY <1>2, <2>4, <2>5, <2>6 DEF RouteRight, TicketsRight
<1> QED
  BY <1>1, <1>2, <1>3, FS_EmptySet DEF BookInv

LEMMA BookStep == Booked!BookingAssumption /\ BookInv /\ [Booked!Next]_(Booked!vars) => BookInv'
<1> SUFFICES ASSUME Booked!BookingAssumption, BookInv, [Booked!Next]_(Booked!vars) PROVE BookInv'
  OBVIOUS
<1>1. CASE Booked!Next
  BY <1>1, RouteStepRight, AskRight, GrantRight DEF Booked!Next, RouteStep
<1>2. CASE UNCHANGED Booked!vars
  <2>1. \A r \in Routes : RouteRight(r)'
    BY <1>2, SameRight DEF Same, Booked!vars, Booked!officeVars, Booked!trainVars,
                           Booked!tableVars, BookInv
  <2>2. ASSUME NEW r \in Routes PROVE TicketsRight(r)'
    <3>1. Booked!LastRow(r)' = Booked!LastRow(r) /\ Booked!Granted(r)' = Booked!Granted(r)
      BY <1>2 DEF Booked!LastRow, Booked!Granted, Booked!vars, Booked!ticketVars
    <3> QED
      BY <1>2, <3>1 DEF BookInv, TicketsRight, Booked!vars, Booked!ticketVars, Booked!officeVars,
                        Booked!trainVars
  <2>3. Domains' /\ Sold' = Sold
    BY <1>2 DEF BookInv, Domains, Sold, Booked!vars, Booked!ticketVars, Booked!officeVars,
                Booked!trainVars, Booked!tableVars
  <2> QED
    BY <2>1, <2>2, <2>3 DEF BookInv
<1> QED
  BY <1>1, <1>2

\* Office, train and tickets speak of the same runs.
LEMMA RunsRight ==
  ASSUME Booked!BookingAssumption, BookInv
  PROVE  Booked!RunsAgree /\ Booked!NumberOfRound
<1>1. ASSUME NEW r \in Routes \ failed
      PROVE  /\ train[r] # "dropped"
             /\ \A q \in Booked!Granted(r) : ticket[q].seats[r].run_number = ticket[q].seats[r].round
             /\ train[r] = "running" =>
                  /\ Current_Run[r] = current_run[r] + 1
                  /\ Current_Run_Id[r] = current_run_id[r] + 1
                  /\ Table[r] = table[r]
                  /\ Current_Run_Id[r] = Table[r][Current_Run[r] - 1]
  <2>1. OfficeRight(r) /\ TrainRight(r) /\ Agree(r) /\ TicketsRight(r)
    BY DEF BookInv, RouteRight
  <2>2. train[r] # "dropped"
    BY <2>1 DEF Agree
  <2>3. \A q \in Booked!Granted(r) : ticket[q].seats[r].run_number = ticket[q].seats[r].round
    BY <2>1 DEF TicketsRight
  <2>4. ASSUME train[r] = "running"
        PROVE  /\ Current_Run[r] = current_run[r] + 1
               /\ Current_Run_Id[r] = current_run_id[r] + 1
               /\ Table[r] = table[r]
               /\ Current_Run_Id[r] = Table[r][Current_Run[r] - 1]
    <3>1. call[r].kind = "none"
      BY <2>1, <2>4 DEF TrainRight
    <3>2. /\ Current_Run[r] = current_run[r] + 1 /\ Current_Run_Id[r] = current_run_id[r] + 1
          /\ Table[r] = table[r] /\ current_run_id[r] + 1 = table[r][current_run[r]]
      BY <2>1, <3>1 DEF Agree
    <3>3. Current_Run[r] - 1 = current_run[r]
      BY <2>1, <3>2 DEF OfficeRight
    <3> QED
      BY <3>2, <3>3
  <2> QED
    BY <2>2, <2>3, <2>4
<1> QED
  BY <1>1 DEF Booked!RunsAgree, Booked!NumberOfRound

-----------------------------------------------------------------------------
(* Seats.                                                                    *)

\* The tickets for stage j of a round.
Holders(r, round, j) ==
    {q \in Booked!Granted(r) : ticket[q].seats[r].round = round
                        /\ j \in ticket[q].seats[r].first..ticket[q].seats[r].last}

SeatsRight(r) ==
    \A i \in Booked!Rows(r), j \in 1..Booked!Entries(r) :
        /\ bookingSits[r][i][j] \in Int
        /\ bookingSits[r][i][j] + Cardinality(Holders(r, table[r][i], j)) = Sits

LEMMA HoldersFinite ==
  ASSUME BookInv, NEW r, NEW round, NEW j
  PROVE  IsFiniteSet(Holders(r, round, j)) /\ Cardinality(Holders(r, round, j)) \in Nat
<1>1. Holders(r, round, j) \subseteq Sold /\ IsFiniteSet(Sold)
  BY DEF Holders, Booked!Granted, Sold, BookInv
<1> QED
  BY <1>1, FS_Subset, FS_CardinalityType

LEMMA SeatsInit ==
  ASSUME Booked!BookingAssumption, Booked!Init, NEW r \in Routes
  PROVE  SeatsRight(r)
<1>1. \A i \in Booked!Rows(r), j \in 1..Booked!Entries(r) : bookingSits[r][i][j] = Sits
  BY DEF Booked!Init
<1>2. Sits \in Nat
  BY DEF Booked!BookingAssumption
<1>3. ASSUME NEW i, NEW j PROVE Cardinality(Holders(r, table[r][i], j)) = 0
  <2>1. Booked!Granted(r) = {}
    BY DEF Booked!Init, Booked!Granted, Booked!Nothing
  <2>2. Holders(r, table[r][i], j) = {}
    BY <2>1 DEF Holders
  <2> QED
    BY <2>2, FS_EmptySet
<1>4. ASSUME NEW i \in Booked!Rows(r), NEW j \in 1..Booked!Entries(r)
      PROVE  /\ bookingSits[r][i][j] \in Int
             /\ bookingSits[r][i][j] + Cardinality(Holders(r, table[r][i], j)) = Sits
  BY <1>1, <1>2, <1>3, <1>4
<1> QED
  BY <1>4 DEF SeatsRight

\* Where nothing changes that the seats of a route depend on.
LEMMA SeatsSame ==
  ASSUME NEW r, SeatsRight(r), bookingSits'[r] = bookingSits[r], table'[r] = table[r],
         Booked!Granted(r)' = Booked!Granted(r), \A q \in Booked!Granted(r) : ticket'[q] = ticket[q]
  PROVE  SeatsRight(r)'
<1>1. Booked!Rows(r)' = Booked!Rows(r) /\ Booked!Entries(r)' = Booked!Entries(r)
  BY DEF Booked!Rows, Booked!Entries
<1>2. ASSUME NEW i, NEW j PROVE Holders(r, table[r][i], j)' = Holders(r, table[r][i], j)
  BY DEF Holders
<1> QED
  BY <1>1, <1>2 DEF SeatsRight

\* Nobody has a ticket for the rounds of the new rows.
LEMMA SeatsRollOver ==
  ASSUME Booked!BookingAssumption, Refill = Sits, BookInv, NEW r \in Routes, SeatsRight(r),
         Booked!UpdateRun(r),
         call[r].run - 1 = Booked!LastRow(r)
  PROVE  SeatsRight(r)'
<1>1. Booked!Rows(r)' = Booked!Rows(r) /\ Booked!Entries(r)' = Booked!Entries(r)
  BY DEF Booked!Rows, Booked!Entries
<1>2. /\ bookingSits'[r] = Booked!SeatsCarried(r) /\ table'[r] = NewTable(r) /\ ticket' = ticket
  BY DEF Booked!UpdateRun, NewTable, Booked!ticketVars, BookInv, Domains
<1>3. /\ Booked!LastRow(r) \in Nat /\ Booked!LastRow(r) > 0 /\ Booked!Rows(r) = 0..Booked!LastRow(r)
  BY Tables
<1>4. /\ table[r][Booked!LastRow(r)] \in Nat /\ TicketsRight(r)
      /\ \A i \in Booked!Rows(r) : table'[r][i] = table[r][Booked!LastRow(r)] + i
  BY <1>2, <1>3 DEF BookInv, RouteRight, OfficeRight, NewTable
<1>5. ASSUME NEW n, NEW j PROVE Holders(r, n, j)' = Holders(r, n, j)
  BY <1>2 DEF Holders, Booked!Granted
<1>6. ASSUME NEW i \in Booked!Rows(r), NEW j \in 1..Booked!Entries(r)
      PROVE  /\ bookingSits'[r][i][j] \in Int
             /\ bookingSits'[r][i][j] + Cardinality(Holders(r, table'[r][i], j)) = Sits
  <2>1. CASE i = 0
    <3>1. bookingSits'[r][i] = bookingSits[r][Booked!LastRow(r)] /\ table'[r][i] = table[r][Booked!LastRow(r)]
      BY <1>2, <1>3, <1>4, <2>1 DEF Booked!SeatsCarried
    <3> QED
      BY <1>3, <3>1 DEF SeatsRight
  <2>2. CASE i # 0
    <3>1. bookingSits'[r][i][j] = Sits /\ Sits \in Nat
      BY <1>2, <2>2 DEF Booked!SeatsCarried, Booked!BookingAssumption
    <3>2. table'[r][i] > table[r][Booked!LastRow(r)]
      BY <1>3, <1>4, <2>2
    <3>3. Holders(r, table'[r][i], j) = {}
      BY <1>4, <3>2 DEF TicketsRight, Holders
    <3>4. Cardinality(Holders(r, table'[r][i], j)) = 0
      BY <3>3, FS_EmptySet
    <3> QED
      BY <3>1, <3>4
  <2> QED
    BY <2>1, <2>2
<1>7. ASSUME NEW i \in Booked!Rows(r), NEW j \in 1..Booked!Entries(r)
      PROVE  Holders(r, table[r][i], j)' = Holders(r, table'[r][i], j)
  BY <1>5
<1> QED
  BY <1>1, <1>6, <1>7 DEF SeatsRight

\* A ticket takes one seat of each stage of its run, and no other.
LEMMA SeatsGranted ==
  ASSUME Booked!BookingAssumption, BookInv, NEW r \in Routes, SeatsRight(r), NEW q \in Requests,
         Booked!Grant(q)
  PROVE  SeatsRight(r)'
<1>1. Booked!Rows(r)' = Booked!Rows(r) /\ Booked!Entries(r)' = Booked!Entries(r) /\ table' = table
  BY DEF Booked!Rows, Booked!Entries, Booked!Grant, Booked!officeVars
<1>2. OfficeRight(r) /\ Domains
  BY DEF BookInv, RouteRight
<1>3. /\ ticket[q].kind = "asked" /\ ticket'[q].kind = "granted"
      /\ DOMAIN ticket'[q].seats = Booked!RoutesOf(asked[q].stages)
      /\ \A p \in Requests : p # q => ticket'[p] = ticket[p]
  BY <1>2, GrantFacts
<1> DEFINE Seated(i, j) == r \in Booked!RoutesOf(asked[q].stages) /\ i = Row(q, r) /\ j \in Booked!Taken(asked[q], r)
<1>4. ASSUME NEW i \in Booked!Rows(r), NEW j \in 1..Booked!Entries(r)
      PROVE  bookingSits'[r][i][j] = IF Seated(i, j) THEN bookingSits[r][i][j] - 1
                                                     ELSE bookingSits[r][i][j]
  BY <1>4 DEF Booked!Grant, Row
<1>5. ASSUME NEW i \in Booked!Rows(r), NEW j \in 1..Booked!Entries(r)
      PROVE  Holders(r, table[r][i], j)' =
               IF Seated(i, j) THEN Holders(r, table[r][i], j) \cup {q} ELSE Holders(r, table[r][i], j)
  <2>1. q \notin Holders(r, table[r][i], j)
    BY <1>3 DEF Holders, Booked!Granted
  <2>2. \A p \in Requests : p # q =>
          (p \in Holders(r, table[r][i], j)' <=> p \in Holders(r, table[r][i], j))
    BY <1>1, <1>3 DEF Holders, Booked!Granted
  <2>3. q \in Holders(r, table[r][i], j)' <=> Seated(i, j)
    <3>1. CASE r \in Booked!RoutesOf(asked[q].stages)
      <4>1. ticket'[q].seats[r] =
               [round |-> table[r][Row(q, r)],
                run_number |-> current_run_id[r] + Booked!Selected(asked[q], r) + 1,
                first |-> Booked!Indexes(asked[q].stages[Booked!FirstOn(asked[q].stages, r)])[1],
                last |-> Booked!Indexes(asked[q].stages[Booked!LastOn(asked[q].stages, r)])[2]]
        BY <1>2, <3>1, GrantFacts
      <4>2. /\ ticket'[q].seats[r].round = table[r][Row(q, r)]
            /\ ticket'[q].seats[r].first..ticket'[q].seats[r].last = Booked!Taken(asked[q], r)
        BY <4>1 DEF Booked!Taken
      <4>3. table[r][Row(q, r)] = table[r][i] <=> i = Row(q, r)
        <5>1. /\ Row(q, r) \in Nat /\ table[r][Row(q, r)] = table[r][0] + Row(q, r)
              /\ table[r][i] = table[r][0] + i /\ table[r][0] \in Nat /\ i \in Nat
          BY <1>2, RowOfTicket, Tables DEF OfficeRight
        <5> QED
          BY <5>1
      <4>4. q \in Booked!Granted(r)'
        BY <1>3, <3>1 DEF Booked!Granted
      <4> QED
        BY <1>1, <3>1, <4>2, <4>3, <4>4 DEF Holders
    <3>2. CASE r \notin Booked!RoutesOf(asked[q].stages)
      BY <1>3, <3>2 DEF Holders, Booked!Granted
    <3> QED
      BY <3>1, <3>2
  <2>4. Holders(r, table[r][i], j) \subseteq Requests /\ Holders(r, table[r][i], j)' \subseteq Requests
    BY DEF Holders, Booked!Granted
  <2> QED
    BY SMTT(20), <2>1, <2>2, <2>3, <2>4
<1>6. ASSUME NEW i \in Booked!Rows(r), NEW j \in 1..Booked!Entries(r)
      PROVE  /\ bookingSits'[r][i][j] \in Int
             /\ bookingSits'[r][i][j] + Cardinality(Holders(r, table[r][i], j)') = Sits
  <2>1. /\ bookingSits[r][i][j] \in Int
        /\ bookingSits[r][i][j] + Cardinality(Holders(r, table[r][i], j)) = Sits
    BY DEF SeatsRight
  <2>2. q \notin Holders(r, table[r][i], j)
    BY <1>3 DEF Holders, Booked!Granted
  <2>3. IsFiniteSet(Holders(r, table[r][i], j)) /\ Cardinality(Holders(r, table[r][i], j)) \in Nat
    BY HoldersFinite
  <2>4. Cardinality(Holders(r, table[r][i], j) \cup {q}) = Cardinality(Holders(r, table[r][i], j)) + 1
    BY <2>2, <2>3, FS_AddElement
  <2> HIDE DEF Seated
  <2>5. CASE Seated(i, j)
    <3>1. bookingSits'[r][i][j] = bookingSits[r][i][j] - 1
      BY <1>4, <2>5
    <3>2. Cardinality(Holders(r, table[r][i], j)') = Cardinality(Holders(r, table[r][i], j)) + 1
      BY <1>5, <2>4, <2>5
    <3> QED
      BY <2>1, <2>3, <3>1, <3>2
  <2>6. CASE ~Seated(i, j)
    BY <1>4, <1>5, <2>1, <2>6
  <2> QED
    BY <2>5, <2>6
<1> QED
  BY <1>1, <1>6 DEF SeatsRight

LEMMA SeatsStep ==
  ASSUME Booked!BookingAssumption, Refill = Sits, BookInv, NEW r \in Routes, SeatsRight(r),
         [Booked!Next]_(Booked!vars)
  PROVE  SeatsRight(r)'
<1>1. ASSUME NEW s \in Routes, RouteStep(s) PROVE SeatsRight(r)'
  <2>1. ticket' = ticket /\ Booked!Granted(r)' = Booked!Granted(r)
    BY <1>1, RouteStepRight DEF Booked!Granted
  <2>2. CASE s = r /\ Booked!UpdateRun(s) /\ call[s].run - 1 = Booked!LastRow(s)
    BY <2>2, SeatsRollOver
  <2>3. CASE ~(s = r /\ Booked!UpdateRun(s) /\ call[s].run - 1 = Booked!LastRow(s))
    <3>1. bookingSits'[r] = bookingSits[r] /\ table'[r] = table[r]
      <4>1. CASE Booked!UpdateRun(s)
        BY <2>3, <4>1 DEF Booked!UpdateRun, BookInv, Domains
      <4>2. CASE ~Booked!UpdateRun(s)
        BY <1>1, <4>2 DEF RouteStep, Booked!Tick, Booked!Depart, Booked!EndRun, Booked!TakeReply,
                          Booked!CallFails, Booked!Drop, Booked!UpdateRunError,
                          Booked!officeVars
      <4> QED
        BY <4>1, <4>2
    <3> QED
      BY <2>1, <3>1, SeatsSame
  <2> QED
    BY <2>2, <2>3
<1>2. ASSUME NEW q \in Requests, Booked!Ask(q) \/ Booked!Refuse(q) PROVE SeatsRight(r)'
  <2>1. /\ bookingSits' = bookingSits /\ table' = table /\ Booked!Granted(r)' = Booked!Granted(r)
        /\ \A p \in Sold : ticket'[p] = ticket[p]
    BY <1>2, AskRight
  <2>2. Booked!Granted(r) \subseteq Sold
    BY DEF Booked!Granted, Sold
  <2> QED
    BY <2>1, <2>2, SeatsSame
<1>3. CASE UNCHANGED Booked!vars
  BY <1>3, SeatsSame DEF Booked!vars, Booked!officeVars, Booked!ticketVars, Booked!Granted
<1> QED
  BY <1>1, <1>2, <1>3, SeatsGranted DEF Booked!Next, RouteStep

LEMMA SameCardinality == ASSUME NEW S PROVE Booked!Cardinality(S) = Cardinality(S)
BY DEF Booked!Cardinality, Cardinality

LEMMA AllSeats == BookInv /\ (\A r \in Routes : SeatsRight(r)) => Booked!SeatsAccounted
BY SameCardinality DEF SeatsRight, Booked!SeatsAccounted, Holders

-----------------------------------------------------------------------------
(* Tickets are for departures to come.                                       *)

\* A set of one element has a last one.
LEMMA LastOfOne ==
  ASSUME NEW S, NEW none, NEW i \in S, i \in Nat, \A j \in S : j = i
  PROVE  Booked!LastOf(S, none) = i
<1>1. \A j \in S : j <= i
  OBVIOUS
<1>2. S # {}
  OBVIOUS
<1>3. Booked!LastOf(S, none) \in S
  BY <1>1, <1>2 DEF Booked!LastOf
<1> QED
  BY <1>3

\* The search finds where a ticket stage begins and ends.
LEMMA IndexesFound ==
  ASSUME Booked!BookingAssumption, Booked!OffersFit, NEW s, s.route \in Routes,
         \E half \in Booked!Halves(s.route) :
            \E i \in Booked!Begins(s, half), j \in Booked!Finishes(s, half) : i <= j
  PROVE  /\ Booked!Indexes(s)[1] \in Nat /\ Booked!Indexes(s)[1] > 0
         /\ Legs[s.route][Booked!Indexes(s)[1]].from = s.from
         /\ Legs[s.route][Booked!Indexes(s)[2]].to = s.to
<1> DEFINE r == s.route
           half == Booked!SearchHalf(r)
           rest == (1..Booked!Entries(r)) \ half
           first == Booked!LastOf(Booked!Begins(s, half), 0)
           second == Booked!LastOf(Booked!Finishes(s, half), 0)
<1>1. Booked!Entries(r) \in Nat /\ r \in Routes
  BY Tables
<1>2. rest \subseteq Nat \ {0}
  BY <1>1
<1>3. half \subseteq Nat \ {0}
  BY <1>1 DEF Booked!SearchHalf
<1>4. Booked!Halves(r) = {half, rest}
  BY DEF Booked!Halves
<1> HIDE DEF half, rest
<1>5. ASSUME NEW h \in {half, rest}, NEW i \in Booked!Begins(s, h), NEW none
      PROVE  Booked!LastOf(Booked!Begins(s, h), none) = i /\ i \in h /\ i \in Nat /\ i > 0 /\ Legs[r][i].from = s.from
  <2>1. i \in h /\ i \in Nat /\ i > 0 /\ Legs[r][i].from = s.from
    BY <1>2, <1>3, <1>5 DEF Booked!Begins
  <2>2. ASSUME NEW j \in Booked!Begins(s, h) PROVE j = i
    <3>1. /\ i \in h /\ j \in h
          /\ Legs[r][i].node = Legs[r][j].node /\ Legs[r][i].from = Legs[r][j].from
      BY <1>5, <2>2 DEF Booked!Begins
    <3>2. h \in Booked!Halves(r) /\ r \in Routes
      BY <1>4
    <3> QED
      BY <3>1, <3>2 DEF Booked!OffersFit
  <2> QED
    BY <2>1, <2>2, LastOfOne
<1>6. ASSUME NEW h \in {half, rest}, NEW i \in Booked!Finishes(s, h), NEW none
      PROVE  Booked!LastOf(Booked!Finishes(s, h), none) = i /\ i \in h /\ i \in Nat /\ i > 0 /\ Legs[r][i].to = s.to
  <2>1. i \in h /\ i \in Nat /\ i > 0 /\ Legs[r][i].to = s.to
    BY <1>2, <1>3, <1>6 DEF Booked!Finishes
  <2>2. ASSUME NEW j \in Booked!Finishes(s, h) PROVE j = i
    <3>1. /\ i \in h /\ j \in h
          /\ Legs[r][i].node = Legs[r][j].node /\ Legs[r][i].to = Legs[r][j].to
      BY <1>6, <2>2 DEF Booked!Finishes
    <3>2. h \in Booked!Halves(r) /\ r \in Routes
      BY <1>4
    <3> QED
      BY <3>1, <3>2 DEF Booked!OffersFit
  <2> QED
    BY <2>1, <2>2, LastOfOne
<1>7. Booked!Indexes(s) = IF first > second \/ first = 0 \/ second = 0
                   THEN <<Booked!LastOf(Booked!Begins(s, rest), first),
                   Booked!LastOf(Booked!Finishes(s, rest), second)>>
                   ELSE <<first, second>>
  BY DEF Booked!Indexes, half, rest
<1>8. CASE \E i \in Booked!Begins(s, half), j \in Booked!Finishes(s, half) : i <= j
  <2>1. PICK i \in Booked!Begins(s, half), j \in Booked!Finishes(s, half) : i <= j
    BY <1>8
  <2>2. first = i /\ second = j /\ i \in Nat /\ j \in Nat /\ i > 0 /\ j > 0
        /\ Legs[r][i].from = s.from /\ Legs[r][j].to = s.to
    BY <1>5, <1>6
  <2>3. Booked!Indexes(s) = <<i, j>>
    BY <1>7, <2>1, <2>2
  <2> QED
    BY <2>2, <2>3
<1>9. CASE ~\E i \in Booked!Begins(s, half), j \in Booked!Finishes(s, half) : i <= j
  <2>1. PICK i \in Booked!Begins(s, rest), j \in Booked!Finishes(s, rest) : i <= j
    BY <1>4, <1>9
  <2>2. /\ Booked!LastOf(Booked!Begins(s, rest), first) = i /\ Booked!LastOf(Booked!Finishes(s, rest), second) = j
        /\ i \in Nat /\ i > 0 /\ Legs[r][i].from = s.from /\ Legs[r][j].to = s.to
    BY <1>5, <1>6
  <2>3. first > second \/ first = 0 \/ second = 0
    <3>1. CASE Booked!Begins(s, half) = {} \/ Booked!Finishes(s, half) = {}
      BY <3>1 DEF Booked!LastOf
    <3>2. CASE Booked!Begins(s, half) # {} /\ Booked!Finishes(s, half) # {}
      <4>1. PICK k \in Booked!Begins(s, half), l \in Booked!Finishes(s, half) : TRUE
        BY <3>2
      <4>2. first = k /\ second = l /\ k \in Nat /\ l \in Nat
        BY <1>5, <1>6
      <4> QED
        BY <1>9, <4>2
    <3> QED
      BY <3>1, <3>2
  <2>4. Booked!Indexes(s) = <<i, j>>
    BY <1>7, <2>2, <2>3
  <2> QED
    BY <2>2, <2>4
<1> QED
  BY <1>8, <1>9

LEMMA Least ==
  ASSUME NEW S, S \subseteq Nat, S # {}
  PROVE  \E i \in S : \A j \in S : i <= j
<1>1. IsWellFoundedOn(OpToRel(<, Nat), Nat)
  BY NatLessThanWellFounded
<1>2. PICK i \in S : \A j \in S : ~ (<<j, i>> \in OpToRel(<, Nat))
  BY <1>1, WFMin
<1>3. \A j \in S : ~(j < i)
  BY <1>2 DEF OpToRel
<1> QED
  BY <1>3

LEMMA FirstAndLast ==
  ASSUME NEW o, Len(o) \in Nat, DOMAIN o = 1..Len(o), NEW r \in Booked!RoutesOf(o)
  PROVE  /\ Booked!FirstOn(o, r) \in DOMAIN o /\ o[Booked!FirstOn(o, r)].route = r
         /\ Booked!LastOn(o, r) \in DOMAIN o /\ o[Booked!LastOn(o, r)].route = r
         /\ Booked!FirstOn(o, r) <= Booked!LastOn(o, r)
<1> DEFINE S == {i \in DOMAIN o : o[i].route = r}
           R == {n \in Nat : \E i \in S : n = Len(o) - i}
<1>1. S # {} /\ S \subseteq Nat /\ \A i \in S : Len(o) - i \in R
  BY DEF Booked!RoutesOf
<1> DEFINE IsFirst(i) == o[i].route = r /\ \A k \in 1..(i - 1) : o[k].route # r
           IsLast(i) == o[i].route = r /\ \A k \in (i + 1)..Len(o) : o[k].route # r
<1>2. \E i \in DOMAIN o : IsFirst(i)
  <2>1. PICK i \in S : \A j \in S : i <= j
    BY <1>1, Least
  <2> QED
    BY <2>1
<1>3. \E i \in DOMAIN o : IsLast(i)
  <2>1. R # {} /\ R \subseteq Nat
    BY <1>1
  <2>2. PICK n \in R : \A m \in R : n <= m
    BY <2>1, Least
  <2>3. PICK i \in S : n = Len(o) - i
    OBVIOUS
  <2>4. ASSUME NEW j \in S PROVE j <= i
    <3>1. n <= Len(o) - j /\ i \in Nat /\ j \in Nat
      BY <1>1, <2>2
    <3> QED
      BY <2>3, <3>1
  <2> QED
    BY <2>3, <2>4
<1>4. Booked!FirstOn(o, r) \in DOMAIN o /\ IsFirst(Booked!FirstOn(o, r))
  BY <1>2 DEF Booked!FirstOn
<1>5. Booked!LastOn(o, r) \in DOMAIN o /\ IsLast(Booked!LastOn(o, r))
  BY <1>3 DEF Booked!LastOn
<1> QED
  BY <1>4, <1>5

LEMMA DateNext ==
  ASSUME NEW e \in Nat, NEW t \in Nat
  PROVE  (t + 1 - 1) * e = (t - 1) * e + e /\ (t - 1) * e \in Int
OBVIOUS

\* The departures of the next run are those the train has not made.
LEMMA NextRunAhead ==
  ASSUME Booked!BookingAssumption, NEW r \in Routes, r \notin failed, RouteRight(r),
         NEW j \in Nat, j > 0
  PROVE  Booked!Date(r, table[r][current_run[r] + 1], j) > Booked!Made(r)
<1> DEFINE t == table[r][current_run[r]]
           e == Booked!Entries(r)
           row == Current_Run[r] - 1
<1>1. /\ current_run[r] \in Nat /\ current_run[r] < Booked!LastRow(r) /\ Booked!LastRow(r) \in Nat
      /\ Booked!Rows(r) = 0..Booked!LastRow(r) /\ e \in Nat /\ e > 0
  BY Tables DEF RouteRight, OfficeRight
<1>2. t \in Nat /\ t > 0 /\ table[r][current_run[r] + 1] = t + 1
  <2>1. /\ t = table[r][0] + current_run[r] /\ table[r][0] \in Nat \ {0}
        /\ table[r][current_run[r] + 1] = table[r][0] + (current_run[r] + 1)
    BY SMTT(20), <1>1 DEF RouteRight, OfficeRight
  <2> QED
    BY <1>1, <2>1
<1>3. Agree(r) /\ Current_Run_Cursor[r] \in 1..e
      /\ (call[r].kind # "none" => Current_Run_Cursor[r] = 1)
  BY DEF RouteRight, TrainRight
<1>4. /\ row \in Booked!Rows(r)
      /\ call[r].kind \in {"none", "OK", "UPDATED"} => Table[r][row] = t
      /\ call[r].kind = "update_run" => Table[r][row] = t + 1
  <2>1. CASE call[r].kind \in {"none", "OK"}
    BY <1>1, <1>3, <2>1 DEF Agree
  <2>2. CASE call[r].kind = "UPDATED"
    <3>1. row = Booked!LastRow(r) /\ Booked!LastRow(r) \in Booked!Rows(r)
      BY <1>1, <1>3, <2>2 DEF Agree, Booked!LastRow
    <3> QED
      BY <1>3, <2>2, <3>1 DEF Agree
  <2>3. CASE call[r].kind = "update_run"
    <3>1. row = current_run[r] + 1
      BY <1>1, <1>3, <2>3 DEF Agree
    <3> QED
      BY <1>1, <1>2, <1>3, <2>3, <3>1 DEF Agree
  <2> QED
    BY <1>3, <2>1, <2>2, <2>3 DEF Agree
<1>5. Booked!Made(r) = Booked!Date(r, Table[r][row], Current_Run_Cursor[r]) - 1
  BY <1>4 DEF Booked!Made, Booked!HasRow
<1>6. ASSUME NEW n \in Nat, NEW k \in Nat PROVE Booked!Date(r, n, k) = (n - 1) * e + k
  BY DEF Booked!Date
<1> HIDE DEF t, e, row
<1>7. (t + 1 - 1) * e = (t - 1) * e + e /\ (t - 1) * e \in Int
  BY <1>1, <1>2, DateNext
<1>8. CASE call[r].kind = "update_run"
  <2>1. Booked!Made(r) = Booked!Date(r, t + 1, 1) - 1
    BY <1>3, <1>4, <1>5, <1>8
  <2>2. /\ Booked!Date(r, t + 1, 1) = (t + 1 - 1) * e + 1 /\ Booked!Date(r, t + 1, j) = (t + 1 - 1) * e + j
    BY <1>2, <1>6
  <2> QED
    BY <1>1, <1>2, <1>7, <2>1, <2>2
<1>9. CASE call[r].kind # "update_run"
  <2>1. Table[r][row] = t
    BY <1>3, <1>4, <1>9 DEF Agree
  <2>2. /\ Booked!Made(r) = Booked!Date(r, t, Current_Run_Cursor[r]) - 1
        /\ Current_Run_Cursor[r] \in Nat /\ Current_Run_Cursor[r] <= e
    BY <1>1, <1>3, <1>5, <2>1
  <2>3. /\ Booked!Date(r, t, Current_Run_Cursor[r]) = (t - 1) * e + Current_Run_Cursor[r]
        /\ Booked!Date(r, t + 1, j) = (t + 1 - 1) * e + j
    BY <1>2, <1>6, <2>2
  <2> QED
    BY <1>1, <1>2, <1>7, <2>2, <2>3
<1> QED
  BY <1>8, <1>9

\* Whoever has asked wants one of the offers.
AskedRight == \A q \in Requests : ticket[q].kind = "asked" => asked[q].stages \in Offers

LEMMA AskedStep ==
  ASSUME BookInv, AskedRight, [Booked!Next]_(Booked!vars)
  PROVE  AskedRight'
<1>1. ASSUME NEW r \in Routes, RouteStep(r) PROVE AskedRight'
  BY <1>1 DEF AskedRight, RouteStep, Booked!Tick, Booked!Depart, Booked!EndRun, Booked!TakeReply,
              Booked!CallFails, Booked!Drop, Booked!UpdateRun,
              Booked!UpdateRunError, Booked!ticketVars
<1>2. ASSUME NEW q \in Requests, Booked!Ask(q) PROVE AskedRight'
  <2>1. PICK o \in Offers : asked' = [asked EXCEPT ![q] = [stages |-> o, at |-> due]]
    BY <1>2 DEF Booked!Ask
  <2>2. DOMAIN asked = Requests /\ DOMAIN ticket = Requests
    BY DEF BookInv, Domains
  <2>3. asked'[q].stages = o
    BY <2>1, <2>2
  <2>4. \A p \in Requests : p # q => asked'[p] = asked[p] /\ ticket'[p] = ticket[p]
    BY <1>2, <2>1, <2>2 DEF Booked!Ask
  <2> QED
    BY <2>3, <2>4 DEF AskedRight
<1>3. ASSUME NEW q \in Requests, Booked!Refuse(q) \/ Booked!Grant(q) PROVE AskedRight'
  <2>1. asked' = asked /\ Domains
    BY <1>3 DEF Booked!Refuse, Booked!Grant, BookInv
  <2>2. (\A p \in Requests : p # q => ticket'[p] = ticket[p]) /\ ticket'[q].kind # "asked"
    <3>1. CASE Booked!Refuse(q)
      BY <2>1, <3>1 DEF Booked!Refuse, Domains
    <3>2. CASE Booked!Grant(q)
      BY <2>1, <3>2, GrantFacts
    <3> QED
      BY <1>3, <3>1, <3>2
  <2> QED
    BY <2>1, <2>2 DEF AskedRight
<1>4. CASE UNCHANGED Booked!vars
  BY <1>4 DEF AskedRight, Booked!vars, Booked!ticketVars
<1> QED
  BY <1>1, <1>2, <1>3, <1>4 DEF Booked!Next, RouteStep

Ahead(q, r) ==
    LET seat == ticket'[q].seats[r]
        stages == asked[q].stages
    IN /\ Legs[r][seat.first].from = stages[Booked!FirstOn(stages, r)].from
       /\ Legs[r][seat.last].to = stages[Booked!LastOn(stages, r)].to
       /\ seat.first <= seat.last
       /\ \/ Booked!Date(r, seat.round, seat.first) > asked[q].at[r]
          \/ Booked!Date(r, seat.round, seat.first) > Booked!Made(r)

LEMMA GrantAhead ==
  ASSUME Booked!BookingAssumption, Booked!OffersFit, BookInv, AskedRight, NEW q \in Requests,
         NEW r \in Routes \ failed, Booked!Grant(q), q \in Booked!Granted(r)'
  PROVE  Ahead(q, r)
<1> DEFINE stages == asked[q].stages
           first == Booked!Indexes(stages[Booked!FirstOn(stages, r)])[1]
           last == Booked!Indexes(stages[Booked!LastOn(stages, r)])[2]
           round == table[r][Row(q, r)]
<1>1. Domains /\ RouteRight(r)
  BY DEF BookInv
<1>2. stages \in Offers
  BY <1>1, GrantFacts DEF AskedRight
<1>3. r \in Booked!RoutesOf(stages)
  BY <1>1, GrantFacts DEF Booked!Granted
<1>4. ticket'[q].seats[r] = [round |-> round,
                             run_number |-> current_run_id[r] + Booked!Selected(asked[q], r) + 1,
                             first |-> first, last |-> last]
  BY <1>1, <1>3, GrantFacts
<1>5. Len(stages) \in Nat /\ DOMAIN stages = 1..Len(stages)
  BY <1>2 DEF Booked!OffersFit
<1>6. /\ Booked!FirstOn(stages, r) \in DOMAIN stages /\ stages[Booked!FirstOn(stages, r)].route = r
      /\ Booked!LastOn(stages, r) \in DOMAIN stages /\ stages[Booked!LastOn(stages, r)].route = r
      /\ Booked!FirstOn(stages, r) <= Booked!LastOn(stages, r)
  BY <1>3, <1>5, FirstAndLast
<1>7. first <= last
  BY <1>2, <1>6 DEF Booked!OffersFit
<1>8. /\ first \in Nat /\ first > 0
      /\ Legs[r][first].from = stages[Booked!FirstOn(stages, r)].from
      /\ Legs[r][last].to = stages[Booked!LastOn(stages, r)].to
  <2>1. ASSUME NEW k \in DOMAIN stages, stages[k].route = r
        PROVE  /\ Booked!Indexes(stages[k])[1] \in Nat /\ Booked!Indexes(stages[k])[1] > 0
               /\ Legs[r][Booked!Indexes(stages[k])[1]].from = stages[k].from
               /\ Legs[r][Booked!Indexes(stages[k])[2]].to = stages[k].to
    <3>1. \E half \in Booked!Halves(stages[k].route) :
            \E i \in Booked!Begins(stages[k], half), j \in Booked!Finishes(stages[k], half) : i <= j
      BY <1>2 DEF Booked!OffersFit
    <3> QED
      BY <2>1, <3>1, IndexesFound
  <2> QED
    BY <1>6, <2>1
<1>9. Booked!Date(r, round, first) > asked[q].at[r] \/ Booked!Date(r, round, first) > Booked!Made(r)
  <2>1. Booked!Selected(asked[q], r) = IF Booked!LeavesAfter(r, first, asked[q].at[r]) THEN 0 ELSE 1
    BY <1>6 DEF Booked!Selected, Booked!SelectedRun
  <2>2. current_run[r] \in Nat
    BY <1>1 DEF RouteRight, OfficeRight
  <2>3. CASE Booked!LeavesAfter(r, first, asked[q].at[r])
    <3>1. Row(q, r) = current_run[r]
      BY <2>1, <2>2, <2>3 DEF Row
    <3> QED
      BY <2>3, <3>1 DEF Booked!LeavesAfter
  <2>4. CASE ~Booked!LeavesAfter(r, first, asked[q].at[r])
    <3>1. Row(q, r) = current_run[r] + 1
      BY <2>1, <2>4 DEF Row
    <3>2. Booked!Date(r, table[r][current_run[r] + 1], first) > Booked!Made(r)
      BY <1>1, <1>8, NextRunAhead
    <3> QED
      BY <3>1, <3>2
  <2> QED
    BY <2>3, <2>4
<1> HIDE DEF stages, first, last, round
<1>10. /\ ticket'[q].seats[r].first = first /\ ticket'[q].seats[r].last = last
       /\ ticket'[q].seats[r].round = round
  BY <1>4
<1> QED
  BY <1>7, <1>8, <1>9, <1>10 DEF Ahead, stages

LEMMA AheadStep ==
  ASSUME Booked!BookingAssumption, Booked!OffersFit, BookInv, AskedRight,
         [Booked!Next]_(Booked!vars),
         NEW q \in Requests, NEW r \in Routes \ failed, q \notin Booked!Granted(r),
         q \in Booked!Granted(r)'
  PROVE  Ahead(q, r)
<1>1. ASSUME NEW s \in Routes, RouteStep(s) PROVE FALSE
  BY <1>1, RouteStepRight DEF Booked!Granted
<1>2. ASSUME NEW p \in Requests, Booked!Ask(p) \/ Booked!Refuse(p) PROVE FALSE
  BY <1>2, AskRight
<1>3. ASSUME NEW p \in Requests, Booked!Grant(p) PROVE Ahead(q, r)
  <2>1. p = q
    BY <1>3, GrantFacts DEF Booked!Granted, BookInv
  <2> QED
    BY <1>3, <2>1, GrantAhead
<1>4. CASE UNCHANGED Booked!vars
  BY <1>4 DEF Booked!vars, Booked!ticketVars, Booked!Granted
<1> QED
  BY <1>1, <1>2, <1>3, <1>4 DEF Booked!Next, RouteStep

-----------------------------------------------------------------------------
(* The theorems.                                                             *)

LEMMA BookAlways == Booked!Spec => []BookInv
<1>1. Booked!Init => BookInv
  BY BookedAssumption, BookInit
<1>2. BookInv /\ [Booked!Next]_(Booked!vars) => BookInv'
  BY BookedAssumption, BookStep
<1> QED
  BY <1>1, <1>2, PTL DEF Booked!Spec

\* Train and office agree on the run, its number and the table whenever no call is
\* under way, until a call fails, and the tickets for one round of a train carry the
\* number the train has in it, over any number of roll-overs (BookingManager.scala,
\* UpdateRun; time_table.adb, Update_Time_Table).
THEOREM OfficeAndTrainsAgree ==
  Booked!Spec => [](Booked!RunsAgree /\ Booked!NumberOfRound)
<1>1. BookInv => Booked!RunsAgree /\ Booked!NumberOfRound
  BY BookedAssumption, RunsRight
<1>2. Booked!Spec => []BookInv
  BY BookAlways
<1> QED
  BY <1>1, <1>2, PTL

\* As many seats are left on each stage of each row as are not sold for the round
\* of the row, and office, trains and tickets agree, where the trains have the number
\* of seats that UpdateRun writes into new rows (BookingManager.scala).
THEOREM SeatsAndTablesAgree ==
  ASSUME Refill = Sits PROVE Booked!Spec => []TablesAgree
<1> DEFINE AllRight == \A r \in Routes : SeatsRight(r)
<1>1. Booked!Init => AllRight
  BY BookedAssumption, SeatsInit
<1>2. BookInv /\ AllRight /\ [Booked!Next]_(Booked!vars) => AllRight'
  BY BookedAssumption, SeatsStep
<1>3. BookInv /\ AllRight => TablesAgree
  BY BookedAssumption, AllSeats, RunsRight DEF TablesAgree, Booked!TablesAgree
<1>4. Booked!Spec => []BookInv
  BY BookAlways
<1> QED
  BY <1>1, <1>2, <1>3, <1>4, PTL DEF Booked!Spec

\* A ticket is granted only for departures the train has not made, or that leave
\* after the traveller asked, and begins and ends where the traveller wants to, for
\* any offers that fit the routes (BookingManager.scala, Validate).
THEOREM TicketsAreAhead ==
  ASSUME Booked!OffersFit PROVE Booked!Spec => BookedAhead
<1>1. Booked!Init => AskedRight
  BY DEF Booked!Init, AskedRight, Booked!Nothing
<1>2. BookInv /\ AskedRight /\ [Booked!Next]_(Booked!vars) => AskedRight'
  BY AskedStep
<1> DEFINE Fine ==
      \A q \in Requests : \A r \in Routes \ failed :
          q \notin Booked!Granted(r) /\ q \in Booked!Granted(r)' => Ahead(q, r)
<1>3. BookInv /\ AskedRight /\ [Booked!Next]_(Booked!vars) => [Fine]_(Booked!vars)
  BY BookedAssumption, AheadStep
<1>4. Booked!Spec => []BookInv
  BY BookAlways
<1>5. Booked!Spec => [][Fine]_(Booked!vars)
  BY <1>1, <1>2, <1>3, <1>4, PTL DEF Booked!Spec
<1> QED
  BY <1>5 DEF BookedAhead, Booked!BookedAhead, Ahead
=============================================================================
