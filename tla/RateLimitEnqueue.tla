-------------------------- MODULE RateLimitEnqueue --------------------------
(***************************************************************************)
(* The event handler of pkg/ratelimit/enqueue_mapped.go feeding the        *)
(* rate-limited work queue of a controller, and the controller's workers   *)
(* taking requests from it.                                                *)
(*                                                                         *)
(* Each watch event maps its object(s) through the map function to a list  *)
(* of requests and adds each one with AddRateLimited, skipping a request   *)
(* already added for the same event (lines 72-81); Update maps the old and *)
(* then the new object with one shared de-duplication map (lines 54-58).   *)
(* The handler walks the list one request at a time while the workers run. *)
(*                                                                         *)
(* The queue is client-go's rate-limiting work queue, modelled from its    *)
(* documented behaviour: AddRateLimited raises the request's failure count *)
(* and hands it to a delaying stage; when the delay expires the request is *)
(* added unless it is already queued (dirty); a request being processed is *)
(* queued again only when its worker calls Done.  A worker's reconcile     *)
(* ends with Forget and Done, or on error with AddRateLimited and Done.    *)
(***************************************************************************)
EXTENDS Naturals, Sequences, Functions

CONSTANTS
    Objects,    \* the watched objects
    Requests,   \* the reconcile requests the map function can produce
    MapFunc,    \* toRequests: the requests of each object, in order
    Workers,    \* the controller's workers
    None,       \* a worker with no request
    MaxEvents,  \* bound on watch events
    MaxErrors   \* bound on failing reconciles

ASSUME QueueAssumption ==
    /\ MapFunc \in [Objects -> Seq(Requests)]
    /\ None \notin Requests
    /\ MaxEvents \in Nat /\ MaxErrors \in Nat

VARIABLES
    pending,     \* the requests the running event has still to walk
    reqs,        \* the event's de-duplication map (a set of requests)
    waiting,     \* requests added rate-limited whose delay has not expired
    queue,       \* the queue proper
    dirty,       \* requests queued or to be queued again
    processing,  \* requests some worker holds
    failures,    \* the rate limiter's per-request failure count
    busy,        \* the request each worker holds, or None
    owed,        \* history: requests an event mapped that no worker has
                 \*          taken since
    added,       \* history: AddRateLimited calls of the running event
    events, errors

vars == <<pending, reqs, waiting, queue, dirty, processing, failures, busy,
          owed, added, events, errors>>

-----------------------------------------------------------------------------
(* The work queue (client-go), from its documentation.                     *)

\* AddRateLimited(r): AddAfter(r, limiter.When(r)); When counts a failure.
AddRateLimited(r) ==
    /\ waiting' = waiting \cup {r}
    /\ failures' = [failures EXCEPT ![r] = @ + 1]

\* Add(r): nothing if already dirty; queued now unless being processed.
Add(r) ==
    IF r \in dirty
    THEN UNCHANGED <<dirty, queue>>
    ELSE /\ dirty' = dirty \cup {r}
         /\ queue' = IF r \in processing THEN queue ELSE Append(queue, r)

\* The delay of a request added rate-limited expires.
Ready(r) ==
    /\ r \in waiting
    /\ waiting' = waiting \ {r}
    /\ Add(r)
    /\ UNCHANGED <<pending, reqs, processing, failures, busy, owed, added, events, errors>>

\* A worker takes the head of the queue and starts a reconcile.
Get(w) ==
    /\ busy[w] = None
    /\ queue # <<>>
    /\ LET r == Head(queue) IN
         /\ queue' = Tail(queue)
         /\ processing' = processing \cup {r}
         /\ dirty' = dirty \ {r}
         /\ busy' = [busy EXCEPT ![w] = r]
         /\ owed' = owed \ {r}
    /\ UNCHANGED <<pending, reqs, waiting, failures, added, events, errors>>

\* Done(r): released, and queued again if it was added meanwhile.
Done(w) ==
    LET r == busy[w] IN
      /\ processing' = processing \ {r}
      /\ queue' = IF r \in dirty THEN Append(queue, r) ELSE queue
      /\ busy' = [busy EXCEPT ![w] = None]

\* The reconcile succeeds: Forget resets the failure count, then Done.
ReconcileOk(w) ==
    /\ busy[w] # None
    /\ failures' = [failures EXCEPT ![busy[w]] = 0]
    /\ Done(w)
    /\ UNCHANGED <<pending, reqs, waiting, dirty, owed, added, events, errors>>

\* The reconcile fails: AddRateLimited, then Done.
ReconcileErr(w) ==
    /\ busy[w] # None
    /\ errors < MaxErrors
    /\ errors' = errors + 1
    /\ AddRateLimited(busy[w])
    /\ Done(w)
    /\ UNCHANGED <<pending, reqs, dirty, owed, added, events>>

-----------------------------------------------------------------------------
(* The event handler.                                                      *)

\* The informer hands the handler one event at a time: a new one starts
\* with a fresh de-duplication map once the last one has been walked.
\* rs is the list the handler walks; objs are the objects of the event,
\* whose requests the event owes.
StartEvent(rs, objs) ==
    /\ pending = <<>>
    /\ events < MaxEvents
    /\ events' = events + 1
    /\ pending' = rs
    /\ reqs' = {}
    /\ added' = [r \in Requests |-> 0]
    /\ owed' = owed \cup UNION {Range(MapFunc[o]) : o \in objs}
    /\ UNCHANGED <<waiting, queue, dirty, processing, failures, busy, errors>>

\* Lines 48-51.
Create(o) == StartEvent(MapFunc[o], {o})

\* Mutant: Update maps only the new object.
UpdateNewOnly(old, new) == StartEvent(MapFunc[new], {old, new})

\* Lines 54-58: the old object, then the new one, one map for both.
Update(old, new) == StartEvent(MapFunc[old] \o MapFunc[new], {old, new})

\* Lines 61-64.
Delete(o) == StartEvent(MapFunc[o], {o})

\* Lines 67-70.
Generic(o) == StartEvent(MapFunc[o], {o})

\* Mutant: the loop stops at the first request already added.
MapAndEnqueueStopAtDuplicate ==
    /\ pending # <<>>
    /\ LET r == Head(pending) IN
         IF r \in reqs
         THEN /\ pending' = <<>>
              /\ UNCHANGED <<reqs, waiting, failures, added>>
         ELSE /\ pending' = Tail(pending)
              /\ AddRateLimited(r)
              /\ reqs' = reqs \cup {r}
              /\ added' = [added EXCEPT ![r] = @ + 1]
    /\ UNCHANGED <<queue, dirty, processing, busy, owed, events, errors>>

\* Mutant: the de-duplication check left out.
MapAndEnqueueNoDedup ==
    /\ pending # <<>>
    /\ LET r == Head(pending) IN
         /\ pending' = Tail(pending)
         /\ AddRateLimited(r)
         /\ reqs' = reqs \cup {r}
         /\ added' = [added EXCEPT ![r] = @ + 1]
    /\ UNCHANGED <<queue, dirty, processing, busy, owed, events, errors>>

\* Lines 72-81, one iteration: a request not yet in the map is added
\* rate-limited and recorded.
MapAndEnqueue ==
    /\ pending # <<>>
    /\ LET r == Head(pending) IN
         /\ pending' = Tail(pending)
         /\ IF r \in reqs
            THEN UNCHANGED <<reqs, waiting, failures, added>>
            ELSE /\ AddRateLimited(r)
                 /\ reqs' = reqs \cup {r}
                 /\ added' = [added EXCEPT ![r] = @ + 1]
    /\ UNCHANGED <<queue, dirty, processing, busy, owed, events, errors>>

-----------------------------------------------------------------------------
Init ==
    /\ pending = <<>> /\ reqs = {}
    /\ waiting = {} /\ queue = <<>> /\ dirty = {} /\ processing = {}
    /\ failures = [r \in Requests |-> 0]
    /\ busy = [w \in Workers |-> None]
    /\ owed = {}
    /\ added = [r \in Requests |-> 0]
    /\ events = 0 /\ errors = 0

Handler ==
    \/ \E o \in Objects : Create(o) \/ Delete(o) \/ Generic(o)
    \/ \E old, new \in Objects : Update(old, new)
    \/ MapAndEnqueue

Next ==
    \/ Handler
    \/ \E r \in Requests : Ready(r)
    \/ \E w \in Workers : Get(w) \/ ReconcileOk(w) \/ ReconcileErr(w)

\* The handler finishes the event it started, delays expire, idle workers
\* take queued requests and a reconcile ends.
Fairness ==
    /\ WF_vars(MapAndEnqueue)
    /\ \A r \in Requests : WF_vars(Ready(r))
    /\ \A w \in Workers : WF_vars(Get(w)) /\ WF_vars(ReconcileOk(w))

Spec == Init /\ [][Next]_vars /\ Fairness

-----------------------------------------------------------------------------
(* Properties.                                                             *)

TypeOK ==
    /\ pending \in Seq(Requests)
    /\ reqs \subseteq Requests
    /\ waiting \subseteq Requests /\ dirty \subseteq Requests
    /\ processing \subseteq Requests
    /\ queue \in Seq(Requests)
    /\ failures \in [Requests -> Nat]
    /\ busy \in [Workers -> Requests \cup {None}]
    /\ owed \subseteq Requests
    /\ added \in [Requests -> Nat]
    /\ events \in 0..MaxEvents /\ errors \in 0..MaxErrors

\* No event is lost: every request an event mapped and no worker has taken
\* since is still on its way, in the handler's list, in the delaying stage
\* or marked dirty, whatever the workers did in between.
OwedIsQueued ==
    \A r \in owed : r \in Range(pending) \cup waiting \cup dirty

\* Every request an event maps is eventually reconciled after the event,
\* also when the event arrives while a worker holds that request.
EventuallyReconciled ==
    \A r \in Requests : (r \in owed) ~> (r \notin owed)

\* One event raises a request's backoff by at most one step: however often
\* the old and the new object map to it, it is added rate-limited once.
OneBackoffStepPerEvent ==
    \A r \in Requests : added[r] <= 1

-----------------------------------------------------------------------------
(* Refinement: the handler and the queue implement the work set.  A        *)
(* request is due while it is in the handler's list and not yet added for  *)
(* this event, in the delaying stage, or dirty.                            *)

Due == waiting \cup dirty \cup (Range(pending) \ reqs)

WS == INSTANCE WorkSet WITH due <- Due, held <- busy

\* The handler and the queue implement the work set: an event makes the
\* requests of all its objects due and no step drops a due request, a worker
\* only starts a request that is due and that no other worker holds, and a
\* failed reconcile makes its request due again.
ImplementsWorkSet == WS!Spec

=============================================================================
