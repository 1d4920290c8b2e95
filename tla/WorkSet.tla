------------------------------ MODULE WorkSet ------------------------------
(***************************************************************************)
(* What the map-func event handler and the controller's work queue promise *)
(* together, stated without the queue's internals: a watch event makes the *)
(* requests of its objects due; a worker takes a due request that no other *)
(* worker holds; a reconcile ends, and on error its request is due again.  *)
(*                                                                         *)
(* A request that became due again after it was last taken may stay due   *)
(* when it is taken: the queue then hands it out once more later.          *)
(***************************************************************************)
EXTENDS Functions

CONSTANTS Objects, Requests, MapFunc, Workers, None

VARIABLES
    due,    \* the requests some reconcile is owed for
    held    \* the request each worker reconciles, or None

\* A watch event about the objects objs.
Event(objs) ==
    /\ due' = due \cup UNION {Range(MapFunc[o]) : o \in objs}
    /\ UNCHANGED held

\* Worker w starts reconciling the due request r.
Take(w, r) ==
    /\ held[w] = None
    /\ r \in due
    /\ \A v \in Workers : held[v] # r
    /\ held' = [held EXCEPT ![w] = r]
    /\ due' \in {due, due \ {r}}

\* The reconcile of worker w succeeds.
Finish(w) ==
    /\ held[w] # None
    /\ held' = [held EXCEPT ![w] = None]
    /\ UNCHANGED due

\* The reconcile of worker w fails: its request is due again.
Retry(w) ==
    /\ held[w] # None
    /\ due' = due \cup {held[w]}
    /\ held' = [held EXCEPT ![w] = None]

Init ==
    /\ due = {}
    /\ held = [w \in Workers |-> None]

Next ==
    \/ \E objs \in SUBSET Objects : Event(objs)
    \/ \E w \in Workers : Finish(w) \/ Retry(w) \/ \E r \in Requests : Take(w, r)

Spec == Init /\ [][Next]_<<due, held>>

=============================================================================
