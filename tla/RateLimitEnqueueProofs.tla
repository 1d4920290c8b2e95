----------------------- MODULE RateLimitEnqueueProofs -----------------------
(***************************************************************************)
(* Proofs about RateLimitEnqueue, for every set of objects, requests,      *)
(* workers and every map function.                                         *)
(***************************************************************************)
EXTENDS RateLimitEnqueue, SequenceTheorems, TLAPS

\* The requests of a non-empty list are its head and those of its tail.
LEMMA RangeHeadTail ==
    ASSUME NEW S, NEW s \in Seq(S), s # <<>>
    PROVE  Range(s) = {Head(s)} \cup Range(Tail(s))
<1>1. Len(s) >= 1
  OBVIOUS
<1>2. Range(s) \subseteq {Head(s)} \cup Range(Tail(s))
  <2> SUFFICES ASSUME NEW i \in 1..Len(s), s[i] # Head(s)
               PROVE  s[i] \in Range(Tail(s))
    BY DEF Range
  <2>1. i > 1 /\ Tail(s)[i - 1] = s[i] /\ i - 1 \in DOMAIN Tail(s)
    BY <1>1
  <2>2. QED
    BY <2>1 DEF Range
<1>3. {Head(s)} \cup Range(Tail(s)) \subseteq Range(s)
  BY <1>1 DEF Range
<1>4. QED
  BY <1>2, <1>3

\* The requests of a list of requests are requests.
LEMMA RangeType ==
    ASSUME NEW S, NEW s \in Seq(S)
    PROVE  Range(s) \subseteq S
BY DEF Range

\* The list an event walks is a list of requests.
LEMMA EventListType ==
    ASSUME QueueAssumption, NEW old \in Objects, NEW new \in Objects
    PROVE  /\ MapFunc[old] \in Seq(Requests)
           /\ MapFunc[old] \o MapFunc[new] \in Seq(Requests)
BY ConcatProperties

\* The requests of two lists walked one after the other are those of both.
LEMMA RangeConcat ==
    ASSUME NEW S, NEW a \in Seq(S), NEW b \in Seq(S)
    PROVE  Range(a \o b) = Range(a) \cup Range(b)
<1>1. ASSUME NEW i \in 1..Len(a) PROVE a[i] \in Range(a \o b)
  <2>1. (a \o b)[i] = a[i] /\ i \in DOMAIN (a \o b)
    BY ConcatProperties
  <2>2. QED
    BY <2>1 DEF Range
<1>2. ASSUME NEW i \in 1..Len(b) PROVE b[i] \in Range(a \o b)
  <2>1. (a \o b)[Len(a) + i] = b[i] /\ Len(a) + i \in DOMAIN (a \o b)
    BY ConcatProperties
  <2>2. QED
    BY <2>1 DEF Range
<1>3. ASSUME NEW x \in Range(a) \cup Range(b) PROVE x \in Range(a \o b)
  <2>1. CASE x \in Range(a)
    <3>1. PICK i \in 1..Len(a) : x = a[i]
      BY <2>1 DEF Range
    <3>2. QED
      BY <1>1, <3>1
  <2>2. CASE x \in Range(b)
    <3>1. PICK i \in 1..Len(b) : x = b[i]
      BY <2>2 DEF Range
    <3>2. QED
      BY <1>2, <3>1
  <2>3. QED
    BY <2>1, <2>2
<1>4. ASSUME NEW i \in DOMAIN (a \o b) PROVE (a \o b)[i] \in Range(a) \cup Range(b)
  <2>1. CASE i <= Len(a)
    <3>1. i \in 1..Len(a) /\ (a \o b)[i] = a[i]
      BY <2>1, ConcatProperties
    <3>2. QED
      BY <3>1 DEF Range
  <2>2. CASE i > Len(a)
    <3>1. i - Len(a) \in 1..Len(b) /\ (a \o b)[i] = b[i - Len(a)]
      BY <2>2, ConcatProperties
    <3>2. QED
      BY <3>1 DEF Range
  <2>3. QED
    BY <2>1, <2>2, ConcatProperties
<1>5. QED
  BY <1>3, <1>4 DEF Range

\* What an event owes is a set of requests.
LEMMA OwedType ==
    ASSUME QueueAssumption, NEW objs \in SUBSET Objects
    PROVE  UNION {Range(MapFunc[o]) : o \in objs} \subseteq Requests
BY DEF Range

\* The event-start step keeps the types.
LEMMA StartEventType ==
    ASSUME QueueAssumption, TypeOK,
           NEW rs \in Seq(Requests), NEW objs \in SUBSET Objects,
           StartEvent(rs, objs)
    PROVE  TypeOK'
BY OwedType DEF StartEvent, TypeOK

\* Every step keeps the types.
LEMMA TypeStep == TypeOK /\ [Next]_vars => TypeOK'
<1> USE QueueAssumption
<1> SUFFICES ASSUME TypeOK, [Next]_vars PROVE TypeOK'
  OBVIOUS
<1>1. ASSUME NEW o \in Objects, Create(o) \/ Delete(o) \/ Generic(o)
      PROVE  TypeOK'
  BY <1>1, EventListType, StartEventType DEF Create, Delete, Generic
<1>2. ASSUME NEW old \in Objects, NEW new \in Objects, Update(old, new)
      PROVE  TypeOK'
  BY <1>2, EventListType, StartEventType DEF Update
<1>3. CASE MapAndEnqueue
  <2>1. pending' \in Seq(Requests) /\ Head(pending) \in Requests
    BY <1>3 DEF MapAndEnqueue, TypeOK
  <2>2. CASE Head(pending) \in reqs
    BY <1>3, <2>1, <2>2 DEF MapAndEnqueue, TypeOK
  <2>3. CASE Head(pending) \notin reqs
    <3> DEFINE h == Head(pending)
    <3>1. /\ waiting' = waiting \cup {h} /\ reqs' = reqs \cup {h}
          /\ failures' = [failures EXCEPT ![h] = @ + 1]
          /\ added' = [added EXCEPT ![h] = @ + 1]
      BY <1>3, <2>3 DEF MapAndEnqueue, AddRateLimited
    <3>2. failures' \in [Requests -> Nat] /\ added' \in [Requests -> Nat]
      BY <2>1, <3>1 DEF TypeOK
    <3>3. UNCHANGED <<queue, dirty, processing, busy, owed, events, errors>>
      BY <1>3 DEF MapAndEnqueue
    <3>4. QED
      BY <2>1, <3>1, <3>2, <3>3 DEF TypeOK
  <2>4. QED
    BY <2>2, <2>3
<1>4. ASSUME NEW r \in Requests, Ready(r) PROVE TypeOK'
  <2>1. CASE r \in dirty
    BY <1>4, <2>1 DEF Ready, Add, TypeOK
  <2>2. CASE r \notin dirty /\ r \in processing
    BY <1>4, <2>2 DEF Ready, Add, TypeOK
  <2>3. CASE r \notin dirty /\ r \notin processing
    <3>1. queue' = Append(queue, r) /\ dirty' = dirty \cup {r}
      BY <1>4, <2>3 DEF Ready, Add
    <3>2. queue' \in Seq(Requests)
      BY <3>1, AppendProperties DEF TypeOK
    <3>3. QED
      BY <1>4, <3>1, <3>2 DEF Ready, TypeOK
  <2>4. QED
    BY <2>1, <2>2, <2>3
<1>5. ASSUME NEW w \in Workers, Get(w) PROVE TypeOK'
  BY <1>5 DEF Get, TypeOK
<1>6. ASSUME NEW w \in Workers, ReconcileOk(w) \/ ReconcileErr(w)
      PROVE  TypeOK'
  <2>1. busy[w] \in Requests
    BY <1>6 DEF ReconcileOk, ReconcileErr, TypeOK
  <2>2. /\ processing' \subseteq Requests
        /\ queue' \in Seq(Requests)
        /\ busy' \in [Workers -> Requests \cup {None}]
    <3>1. CASE busy[w] \in dirty
      <4>1. queue' = Append(queue, busy[w])
        BY <1>6, <3>1 DEF ReconcileOk, ReconcileErr, Done
      <4>2. queue' \in Seq(Requests)
        BY <2>1, <4>1, AppendProperties DEF TypeOK
      <4>3. QED
        BY <1>6, <2>1, <4>2 DEF ReconcileOk, ReconcileErr, Done, TypeOK
    <3>2. CASE busy[w] \notin dirty
      BY <1>6, <2>1, <3>2 DEF ReconcileOk, ReconcileErr, Done, TypeOK
    <3>3. QED
      BY <3>1, <3>2
  <2>3. CASE ReconcileOk(w)
    BY <2>1, <2>2, <2>3 DEF ReconcileOk, TypeOK
  <2>4. CASE ReconcileErr(w)
    BY <2>1, <2>2, <2>4 DEF ReconcileErr, AddRateLimited, TypeOK
  <2>5. QED
    BY <1>6, <2>3, <2>4
<1>7. CASE UNCHANGED vars
  BY <1>7 DEF vars, TypeOK
<1>8. QED
  BY <1>1, <1>2, <1>3, <1>4, <1>5, <1>6, <1>7 DEF Next, Handler

\* The type invariant.
THEOREM TypeCorrect == Spec => []TypeOK
<1>1. Init => TypeOK
  BY QueueAssumption DEF Init, TypeOK
<1>2. QED
  BY <1>1, TypeStep, PTL DEF Spec

\* The inductive strengthening of OwedIsQueued: a request still owed only
\* through the handler's list has not been added for this event yet.
QInv ==
    \A r \in owed : r \in waiting \cup dirty \/ (r \in Range(pending) /\ r \notin reqs)

\* No event is lost (OwedIsQueued), for every instance.
THEOREM NoLostEvent == Spec => []OwedIsQueued
<1> USE QueueAssumption
<1>1. Init => QInv
  BY DEF Init, QInv
<1>2. TypeOK /\ QInv /\ [Next]_vars => QInv'
  <2> SUFFICES ASSUME TypeOK, QInv, [Next]_vars PROVE QInv'
    OBVIOUS
  <2>1. ASSUME NEW rs \in Seq(Requests), NEW objs \in SUBSET Objects,
               StartEvent(rs, objs),
               UNION {Range(MapFunc[o]) : o \in objs} \subseteq Range(rs)
        PROVE  QInv'
    <3>1. Range(pending) = {}
      BY <2>1 DEF StartEvent, Range
    <3>2. QED
      BY <2>1, <3>1 DEF StartEvent, QInv
  <2>2. ASSUME NEW o \in Objects, Create(o) \/ Delete(o) \/ Generic(o)
        PROVE  QInv'
    <3>1. MapFunc[o] \in Seq(Requests)
      BY EventListType
    <3>2. QED
      BY <2>2, <3>1, <2>1 DEF Create, Delete, Generic
  <2>3. ASSUME NEW old \in Objects, NEW new \in Objects, Update(old, new)
        PROVE  QInv'
    <3>1. MapFunc[old] \in Seq(Requests) /\ MapFunc[new] \in Seq(Requests)
      BY EventListType
    <3>2. Range(MapFunc[old]) \cup Range(MapFunc[new])
            \subseteq Range(MapFunc[old] \o MapFunc[new])
      BY <3>1, RangeConcat
    <3>3. UNION {Range(MapFunc[o]) : o \in {old, new}}
            = Range(MapFunc[old]) \cup Range(MapFunc[new])
      OBVIOUS
    <3>4. MapFunc[old] \o MapFunc[new] \in Seq(Requests) /\ {old, new} \in SUBSET Objects
      BY EventListType
    <3>5. StartEvent(MapFunc[old] \o MapFunc[new], {old, new})
      BY <2>3 DEF Update
    <3>6. QED
      BY <3>2, <3>3, <3>4, <3>5, <2>1
  <2>4. CASE MapAndEnqueue
    <3> DEFINE h == Head(pending)
    <3>1. Range(pending) = {h} \cup Range(Tail(pending))
      BY <2>4, RangeHeadTail DEF MapAndEnqueue, TypeOK
    <3>2. pending' = Tail(pending) /\ UNCHANGED <<owed, dirty>>
      BY <2>4 DEF MapAndEnqueue
    <3>3. CASE h \in reqs
      <4>1. UNCHANGED <<reqs, waiting>>
        BY <2>4, <3>3 DEF MapAndEnqueue
      <4>2. QED
        BY <3>1, <3>2, <3>3, <4>1 DEF QInv
    <3>4. CASE h \notin reqs
      <4>1. waiting' = waiting \cup {h} /\ reqs' = reqs \cup {h}
        BY <2>4, <3>4 DEF MapAndEnqueue, AddRateLimited
      <4>2. QED
        BY <3>1, <3>2, <3>4, <4>1 DEF QInv
    <3>5. QED
      BY <3>3, <3>4
  <2>5. ASSUME NEW r \in Requests, Ready(r) PROVE QInv'
    <3>1. r \in dirty'
      BY <2>5 DEF Ready, Add
    <3>2. dirty \subseteq dirty' /\ waiting' = waiting \ {r}
      BY <2>5 DEF Ready, Add
    <3>3. UNCHANGED <<owed, pending, reqs>>
      BY <2>5 DEF Ready
    <3>4. QED
      BY <3>1, <3>2, <3>3 DEF QInv
  <2>6. ASSUME NEW w \in Workers, Get(w) PROVE QInv'
    BY <2>6 DEF Get, QInv
  <2>7. ASSUME NEW w \in Workers, ReconcileOk(w) PROVE QInv'
    BY <2>7 DEF ReconcileOk, QInv
  <2>8. ASSUME NEW w \in Workers, ReconcileErr(w) PROVE QInv'
    BY <2>8 DEF ReconcileErr, AddRateLimited, QInv
  <2>9. CASE UNCHANGED vars
    BY <2>9 DEF vars, QInv
  <2>10. QED
    BY <2>2, <2>3, <2>4, <2>5, <2>6, <2>7, <2>8, <2>9 DEF Next, Handler
<1>3. QInv => OwedIsQueued
  BY DEF QInv, OwedIsQueued
<1>4. QED
  BY TypeCorrect, <1>1, <1>2, <1>3, PTL DEF Spec

-----------------------------------------------------------------------------
(* The queue's own invariant, and one worker per request.                  *)

\* Appending a request the queue does not hold keeps it free of duplicates.
LEMMA AppendFresh ==
    ASSUME NEW S, NEW s \in Seq(S), NEW x \in S, x \notin Range(s), IsInjective(s)
    PROVE  /\ Range(Append(s, x)) = Range(s) \cup {x}
           /\ IsInjective(Append(s, x))
<1> DEFINE t == Append(s, x)
<1>1. /\ t \in Seq(S) /\ Len(t) = Len(s) + 1
      /\ \A i \in 1..Len(s) : t[i] = s[i]
      /\ t[Len(s) + 1] = x
  BY AppendProperties
<1>2. DOMAIN t = 1..Len(s) + 1 /\ DOMAIN s = 1..Len(s)
  BY <1>1
<1>3. Range(t) = Range(s) \cup {x}
  BY <1>1, <1>2 DEF Range
<1>4. ASSUME NEW i \in 1..Len(s) PROVE t[i] # x
  BY <1>1, <1>2 DEF Range
<1>5. IsInjective(t)
  BY <1>1, <1>2, <1>4 DEF IsInjective
<1>6. QED
  BY <1>3, <1>5

\* Taking the head of a queue free of duplicates leaves the head out.
LEMMA TailFresh ==
    ASSUME NEW S, NEW s \in Seq(S), s # <<>>, IsInjective(s)
    PROVE  /\ Range(Tail(s)) = Range(s) \ {Head(s)}
           /\ IsInjective(Tail(s))
<1>1. Range(s) = {Head(s)} \cup Range(Tail(s))
  BY RangeHeadTail
<1>2. /\ Len(Tail(s)) = Len(s) - 1 /\ DOMAIN Tail(s) = 1..Len(s) - 1
      /\ \A i \in 1..Len(s) - 1 : Tail(s)[i] = s[i + 1]
      /\ DOMAIN s = 1..Len(s) /\ Len(s) >= 1
  BY HeadTailProperties
<1>3. Head(s) \notin Range(Tail(s))
  BY <1>2 DEF IsInjective, Range
<1>4. IsInjective(Tail(s))
  BY <1>2 DEF IsInjective
<1>5. QED
  BY <1>1, <1>3, <1>4

\* The requests the workers hold.
Held == {busy[w] : w \in {v \in Workers : busy[v] # None}}

\* No two workers hold the same request.
OneHolder ==
    \A v, w \in Workers : (v # w /\ busy[v] # None) => busy[v] # busy[w]

\* The inductive invariant of the queue: the queue holds dirty requests
\* that no worker holds, each once, and processing is what the workers
\* hold, each request by one worker.
QueueInv ==
    /\ Range(queue) \subseteq dirty
    /\ Range(queue) \cap processing = {}
    /\ IsInjective(queue)
    /\ processing = Held
    /\ OneHolder

\* A step that leaves the queue and the workers alone keeps the invariant.
LEMMA QueueInvFrame ==
    ASSUME QueueInv, UNCHANGED <<queue, dirty, processing, busy>>
    PROVE  QueueInv'
BY DEF QueueInv, Held, OneHolder, Range, IsInjective

\* Ready(r): Add(r) queues r only when no worker holds it and it is not dirty.
LEMMA QueueInvReady ==
    ASSUME TypeOK, QueueInv, NEW r \in Requests, Ready(r)
    PROVE  QueueInv'
<1>1. UNCHANGED <<processing, busy>>
  BY DEF Ready
<1>2. CASE r \in dirty
  BY <1>1, <1>2, QueueInvFrame DEF Ready, Add
<1>3. CASE r \notin dirty /\ r \in processing
  <2>1. dirty' = dirty \cup {r} /\ queue' = queue
    BY <1>3 DEF Ready, Add
  <2>2. QED
    BY <1>1, <2>1 DEF QueueInv, Held, OneHolder, Range, IsInjective
<1>4. CASE r \notin dirty /\ r \notin processing
  <2>1. dirty' = dirty \cup {r} /\ queue' = Append(queue, r)
    BY <1>4 DEF Ready, Add
  <2>2. r \notin Range(queue)
    BY <1>4 DEF QueueInv
  <2>3. Range(queue') = Range(queue) \cup {r} /\ IsInjective(queue')
    BY <2>1, <2>2, AppendFresh DEF QueueInv, TypeOK
  <2>4. QED
    BY <1>1, <1>4, <2>1, <2>3 DEF QueueInv, Held, OneHolder
<1>5. QED
  BY <1>2, <1>3, <1>4

\* Get(w): the head of the queue is held by no worker, and leaves the queue.
LEMMA QueueInvGet ==
    ASSUME TypeOK, QueueInv, NEW w \in Workers, Get(w)
    PROVE  QueueInv'
<1> DEFINE r == Head(queue)
<1>1. /\ busy[w] = None /\ queue # <<>>
      /\ queue' = Tail(queue) /\ dirty' = dirty \ {r}
      /\ processing' = processing \cup {r}
      /\ busy' = [busy EXCEPT ![w] = r]
  BY DEF Get
<1>2. r \in Range(queue) /\ r \in Requests
  BY <1>1, RangeHeadTail DEF TypeOK
<1>3. Range(queue') = Range(queue) \ {r} /\ IsInjective(queue')
  BY <1>1, TailFresh DEF QueueInv, TypeOK
<1>4. r \notin Held
  BY <1>2 DEF QueueInv
<1>5. Held' = Held \cup {r}
  <2>1. r # None /\ busy'[w] = r
    BY <1>1, <1>2, QueueAssumption DEF TypeOK
  <2>2. \A v \in Workers \ {w} : busy'[v] = busy[v]
    BY <1>1 DEF TypeOK
  <2>3. Held' \subseteq Held \cup {r}
    BY <2>1, <2>2 DEF Held
  <2>4. Held \cup {r} \subseteq Held'
    BY <1>1, <2>1, <2>2 DEF Held
  <2>5. QED
    BY <2>3, <2>4
<1>6. OneHolder'
  <2> SUFFICES ASSUME NEW u \in Workers, NEW v \in Workers, u # v, busy'[u] # None
               PROVE  busy'[u] # busy'[v]
    BY DEF OneHolder
  <2>1. CASE u = w
    BY <1>1, <1>4, <2>1 DEF Held, TypeOK
  <2>2. CASE v = w
    BY <1>1, <1>4, <2>2 DEF Held, TypeOK
  <2>3. CASE u # w /\ v # w
    BY <1>1, <2>3 DEF QueueInv, OneHolder, TypeOK
  <2>4. QED
    BY <2>1, <2>2, <2>3
<1>7. QED
  BY <1>1, <1>3, <1>5, <1>6 DEF QueueInv

\* Done(w): the request is released, and queued again only if dirty.
LEMMA QueueInvDone ==
    ASSUME TypeOK, QueueInv, NEW w \in Workers, busy[w] # None, Done(w),
           UNCHANGED dirty
    PROVE  QueueInv'
<1> DEFINE r == busy[w]
<1>1. /\ processing' = processing \ {r}
      /\ busy' = [busy EXCEPT ![w] = None]
      /\ r \in Requests /\ r \in processing
  BY DEF Done, QueueInv, Held, TypeOK
<1>2. \A v \in Workers : v # w => busy[v] # r
  BY DEF QueueInv, OneHolder
<1>3. Held' = Held \ {r}
  BY <1>1, <1>2 DEF Held, TypeOK
<1>4. OneHolder'
  BY <1>1 DEF QueueInv, OneHolder, TypeOK
<1>5. r \notin Range(queue)
  BY <1>1 DEF QueueInv
<1>6. /\ Range(queue') \subseteq Range(queue) \cup ({r} \cap dirty)
      /\ IsInjective(queue')
  <2>1. CASE r \in dirty
    <3>1. queue' = Append(queue, r)
      BY <2>1 DEF Done
    <3>2. QED
      BY <1>1, <1>5, <2>1, <3>1, AppendFresh DEF QueueInv, TypeOK
  <2>2. CASE r \notin dirty
    BY <2>2 DEF Done, QueueInv
  <2>3. QED
    BY <2>1, <2>2
<1>7. QED
  BY <1>1, <1>3, <1>4, <1>6 DEF QueueInv

\* Every step keeps the queue's invariant.
LEMMA QueueInvStep == TypeOK /\ QueueInv /\ [Next]_vars => QueueInv'
<1> SUFFICES ASSUME TypeOK, QueueInv, [Next]_vars PROVE QueueInv'
  OBVIOUS
<1>1. CASE Handler
  <2>1. UNCHANGED <<queue, dirty, processing, busy>>
    BY <1>1 DEF Handler, Create, Update, Delete, Generic, StartEvent, MapAndEnqueue
  <2>2. QED
    BY <2>1, QueueInvFrame
<1>2. ASSUME NEW r \in Requests, Ready(r) PROVE QueueInv'
  BY <1>2, QueueInvReady
<1>3. ASSUME NEW w \in Workers, Get(w) PROVE QueueInv'
  BY <1>3, QueueInvGet
<1>4. ASSUME NEW w \in Workers, ReconcileOk(w) \/ ReconcileErr(w)
      PROVE  QueueInv'
  BY <1>4, QueueInvDone DEF ReconcileOk, ReconcileErr
<1>5. CASE UNCHANGED vars
  BY <1>5, QueueInvFrame DEF vars
<1>6. QED
  BY <1>1, <1>2, <1>3, <1>4, <1>5 DEF Next

-----------------------------------------------------------------------------
(* Refinement of the work set.                                             *)

\* An event step is the work set's Event for the event's objects.
LEMMA StartEventIsEvent ==
    ASSUME TypeOK, NEW rs \in Seq(Requests), NEW objs \in SUBSET Objects,
           StartEvent(rs, objs),
           Range(rs) = UNION {Range(MapFunc[o]) : o \in objs}
    PROVE  WS!Event(objs)
<1>1. Range(pending) = {} /\ Range(pending') = Range(rs) /\ reqs' = {}
  BY DEF StartEvent, Range
<1>2. Due' = Due \cup Range(rs)
  BY <1>1 DEF StartEvent, Due
<1>3. UNCHANGED busy
  BY DEF StartEvent
<1>4. QED
  BY <1>2, <1>3 DEF WS!Event, WS!Range, Range

\* Every step of the handler and the queue is a step of the work set, or
\* leaves the due requests and the workers alone.
LEMMA RefinementStep ==
    TypeOK /\ QueueInv /\ [Next]_vars => [WS!Next]_<<Due, busy>>
<1> USE QueueAssumption
<1> SUFFICES ASSUME TypeOK, QueueInv, [Next]_vars PROVE [WS!Next]_<<Due, busy>>
  OBVIOUS
<1>1. ASSUME NEW o \in Objects, Create(o) \/ Delete(o) \/ Generic(o)
      PROVE  WS!Event({o})
  <2>1. MapFunc[o] \in Seq(Requests) /\ StartEvent(MapFunc[o], {o})
    BY <1>1 DEF Create, Delete, Generic
  <2>2. Range(MapFunc[o]) = UNION {Range(MapFunc[x]) : x \in {o}}
    OBVIOUS
  <2>3. QED
    BY <2>1, <2>2, StartEventIsEvent
<1>2. ASSUME NEW old \in Objects, NEW new \in Objects, Update(old, new)
      PROVE  WS!Event({old, new})
  <2>1. MapFunc[old] \in Seq(Requests) /\ MapFunc[new] \in Seq(Requests)
    OBVIOUS
  <2>2. MapFunc[old] \o MapFunc[new] \in Seq(Requests)
    BY EventListType
  <2>3. Range(MapFunc[old] \o MapFunc[new])
          = UNION {Range(MapFunc[x]) : x \in {old, new}}
    BY <2>1, RangeConcat
  <2>4. StartEvent(MapFunc[old] \o MapFunc[new], {old, new})
    BY <1>2 DEF Update
  <2>5. QED
    BY <2>2, <2>3, <2>4, StartEventIsEvent
<1>3. CASE MapAndEnqueue
  <2> DEFINE h == Head(pending)
  <2>1. Range(pending) = {h} \cup Range(Tail(pending))
    BY <1>3, RangeHeadTail DEF MapAndEnqueue, TypeOK
  <2>2. pending' = Tail(pending) /\ UNCHANGED <<dirty, busy>>
    BY <1>3 DEF MapAndEnqueue
  <2>3. CASE h \in reqs
    <3>1. UNCHANGED <<reqs, waiting>>
      BY <1>3, <2>3 DEF MapAndEnqueue
    <3>2. QED
      BY <2>1, <2>2, <2>3, <3>1 DEF Due
  <2>4. CASE h \notin reqs
    <3>1. waiting' = waiting \cup {h} /\ reqs' = reqs \cup {h}
      BY <1>3, <2>4 DEF MapAndEnqueue, AddRateLimited
    <3>2. QED
      BY <2>1, <2>2, <2>4, <3>1 DEF Due
  <2>5. QED
    BY <2>3, <2>4
<1>4. ASSUME NEW r \in Requests, Ready(r) PROVE UNCHANGED <<Due, busy>>
  <2>1. r \in dirty' /\ dirty' \subseteq dirty \cup {r} /\ dirty \subseteq dirty'
    BY <1>4 DEF Ready, Add
  <2>2. waiting' = waiting \ {r} /\ r \in waiting /\ UNCHANGED <<pending, reqs, busy>>
    BY <1>4 DEF Ready
  <2>3. QED
    BY <2>1, <2>2 DEF Due
<1>5. ASSUME NEW w \in Workers, Get(w) PROVE WS!Take(w, Head(queue))
  <2> DEFINE r == Head(queue)
  <2>1. /\ busy[w] = None /\ queue # <<>>
        /\ dirty' = dirty \ {r} /\ busy' = [busy EXCEPT ![w] = r]
        /\ UNCHANGED <<pending, reqs, waiting>>
    BY <1>5 DEF Get
  <2>2. r \in Range(queue)
    BY <2>1, RangeHeadTail DEF TypeOK
  <2>3. r \in Due
    BY <2>2 DEF QueueInv, Due
  <2>4. \A v \in Workers : busy[v] # r
    <3>1. r \in Requests /\ r # None
      BY <2>1, HeadTailProperties DEF TypeOK
    <3>2. r \notin Held
      BY <2>2 DEF QueueInv
    <3>3. QED
      BY <3>1, <3>2 DEF Held
  <2>5. Due' \in {Due, Due \ {r}}
    BY <2>1 DEF Due
  <2>6. QED
    BY <2>1, <2>3, <2>4, <2>5 DEF WS!Take
<1>6. ASSUME NEW w \in Workers, ReconcileOk(w) PROVE WS!Finish(w)
  BY <1>6 DEF ReconcileOk, Done, Due, WS!Finish
<1>7. ASSUME NEW w \in Workers, ReconcileErr(w) PROVE WS!Retry(w)
  BY <1>7 DEF ReconcileErr, AddRateLimited, Done, Due, WS!Retry
<1>8. CASE UNCHANGED vars
  BY <1>8 DEF vars, Due
<1>9. ASSUME NEW o \in Objects, Create(o) \/ Delete(o) \/ Generic(o)
      PROVE  WS!Next
  <2>1. {o} \in SUBSET Objects
    OBVIOUS
  <2>2. QED
    BY <1>1, <1>9, <2>1 DEF WS!Next
<1>10. ASSUME NEW old \in Objects, NEW new \in Objects, Update(old, new)
       PROVE  WS!Next
  <2>1. {old, new} \in SUBSET Objects
    OBVIOUS
  <2>2. QED
    BY <1>2, <1>10, <2>1 DEF WS!Next
<1>11. ASSUME NEW w \in Workers, Get(w) PROVE WS!Next
  <2>1. Head(queue) \in Requests
    BY <1>11, HeadTailProperties DEF Get, TypeOK
  <2>2. QED
    BY <1>5, <1>11, <2>1 DEF WS!Next
<1>12. ASSUME NEW w \in Workers, ReconcileOk(w) \/ ReconcileErr(w) PROVE WS!Next
  BY <1>6, <1>7, <1>12 DEF WS!Next
<1>13. QED
  BY <1>3, <1>4, <1>8, <1>9, <1>10, <1>11, <1>12 DEF Next, Handler

\* The handler and the queue implement the work set (ImplementsWorkSet),
\* for every map function, set of objects, requests and workers.
THEOREM Refinement == Spec => ImplementsWorkSet
<1>1. Init => WS!Init
  BY DEF Init, WS!Init, Due, Range
<1>2. Init => QueueInv
  BY DEF Init, QueueInv, Held, OneHolder, Range, IsInjective
<1>3. QED
  BY <1>1, <1>2, TypeCorrect, QueueInvStep, RefinementStep, PTL
     DEF Spec, ImplementsWorkSet, WS!Spec
-----------------------------------------------------------------------------
(* One backoff step per event.                                             *)

\* The inductive strengthening of OneBackoffStepPerEvent: the running event
\* has called AddRateLimited exactly once for each request in its
\* de-duplication map and never for any other.
BackoffInv ==
    \A r \in Requests : added[r] = IF r \in reqs THEN 1 ELSE 0

\* Every step keeps the count of AddRateLimited calls equal to the
\* membership of the de-duplication map.
LEMMA BackoffStep == TypeOK /\ BackoffInv /\ [Next]_vars => BackoffInv'
<1> SUFFICES ASSUME TypeOK, BackoffInv, [Next]_vars PROVE BackoffInv'
  OBVIOUS
<1>1. ASSUME NEW rs, NEW objs, StartEvent(rs, objs) PROVE BackoffInv'
  BY <1>1 DEF StartEvent, BackoffInv
<1>2. ASSUME NEW o \in Objects, Create(o) \/ Delete(o) \/ Generic(o)
      PROVE  BackoffInv'
  BY <1>1, <1>2 DEF Create, Delete, Generic
<1>3. ASSUME NEW old \in Objects, NEW new \in Objects, Update(old, new)
      PROVE  BackoffInv'
  BY <1>1, <1>3 DEF Update
<1>4. CASE MapAndEnqueue
  <2>1. Head(pending) \in Requests
    BY <1>4, HeadTailProperties DEF MapAndEnqueue, TypeOK
  <2>2. CASE Head(pending) \in reqs
    BY <1>4, <2>2 DEF MapAndEnqueue, BackoffInv
  <2>3. CASE Head(pending) \notin reqs
    <3> DEFINE h == Head(pending)
    <3>1. reqs' = reqs \cup {h} /\ added' = [added EXCEPT ![h] = @ + 1]
      BY <1>4, <2>3 DEF MapAndEnqueue
    <3>2. added[h] = 0
      BY <2>1, <2>3 DEF BackoffInv
    <3>3. QED
      BY <2>1, <3>1, <3>2 DEF BackoffInv, TypeOK
  <2>4. QED
    BY <2>2, <2>3
<1>5. CASE \E r \in Requests : Ready(r)
  BY <1>5 DEF Ready, BackoffInv
<1>6. CASE \E w \in Workers : Get(w) \/ ReconcileOk(w) \/ ReconcileErr(w)
  BY <1>6 DEF Get, ReconcileOk, ReconcileErr, BackoffInv
<1>7. CASE UNCHANGED vars
  BY <1>7 DEF vars, BackoffInv
<1>8. QED
  BY <1>2, <1>3, <1>4, <1>5, <1>6, <1>7 DEF Next, Handler

\* One event raises a request's backoff by at most one step
\* (OneBackoffStepPerEvent), for every map function: the de-duplication map
\* of enqueue_mapped.go is shared by the old and the new object of an Update.
THEOREM OneBackoffPerEvent == Spec => []OneBackoffStepPerEvent
<1>1. Init => BackoffInv
  BY DEF Init, BackoffInv
<1>2. BackoffInv => OneBackoffStepPerEvent
  BY DEF BackoffInv, OneBackoffStepPerEvent
<1>3. QED
  BY <1>1, <1>2, TypeCorrect, BackoffStep, PTL DEF Spec
=============================================================================
