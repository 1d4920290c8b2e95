--------------------------- MODULE GatedReconcile ---------------------------
(***************************************************************************)
(* The shape both reconcilers promise for a pass (spec.md sections 4.1     *)
(* steps 1-5, 4.2, 4.4 and 5), stated without payloads: a pass takes a     *)
(* snapshot of the remote resource and issues at most one mutating call,   *)
(* a create when the snapshot showed no resource, or an update when it     *)
(* showed a mutable (terminal) phase and the normalised payload differs    *)
(* from it.  The remote API accepts a mutation only while no operation is  *)
(* in flight.  Delete is not gated.  Whether the payload differs is left   *)
(* open: it is whatever the pass's diff found on its snapshot.             *)
(***************************************************************************)

VARIABLES
    pc,        \* "idle", "got" (snapshot taken), "put" (waiting on its
               \* mutation) or "deleting"
    phase,     \* the remote resource's phase, or "Absent"
    observed,  \* the phase in the running pass's snapshot
    differs    \* the pass's normalised payload differs from its snapshot

absvars == <<pc, phase, observed, differs>>

Absent == "Absent"

Phases == {"Creating", "Updating", "Deleting", "Succeeded", "Failed", "Canceled"}

\* Section 4.4: the phases an update may be issued on.
Mutable == {"Succeeded", "Failed", "Canceled"}

\* An operation of the remote service is running on the resource.
Running == Phases \ Mutable

\* Steps 1 and 5: fetch the resource; the diff is computed on this snapshot.
Fetch ==
    /\ pc = "idle"
    /\ pc' = "got"
    /\ observed' = phase
    /\ differs' \in BOOLEAN
    /\ UNCHANGED phase

\* Steps 4 and 5: the one mutating call of the pass, accepted by the API.
Start ==
    /\ pc = "got"
    /\ \/ observed = Absent
       \/ observed \in Mutable /\ differs
    /\ phase \notin Running
    /\ phase' = IF phase = Absent THEN "Creating" ELSE "Updating"
    /\ pc' = "put"
    /\ UNCHANGED <<observed, differs>>

\* The pass ends without a mutation: the gate refused, there was no diff,
\* the payload could not be built, or the call was refused or lost.
Abandon ==
    /\ pc = "got"
    /\ pc' = "idle"
    /\ UNCHANGED <<phase, observed, differs>>

\* The mutating call returns, or the caller's context expires.
Return ==
    /\ pc = "put"
    /\ pc' = "idle"
    /\ UNCHANGED <<phase, observed, differs>>

\* Step 8: Delete of an existing resource, on whatever phase it is in.
DeleteStart ==
    /\ pc = "idle"
    /\ phase # Absent
    /\ phase' = "Deleting"
    /\ pc' = "deleting"
    /\ UNCHANGED <<observed, differs>>

DeleteEnd ==
    /\ pc = "deleting"
    /\ pc' = "idle"
    /\ UNCHANGED <<phase, observed, differs>>

\* The remote service ends a create or update, successfully or not.
OpEnd ==
    /\ phase \in {"Creating", "Updating"}
    /\ phase' \in Mutable
    /\ UNCHANGED <<pc, observed, differs>>

\* The remote service finishes a deletion.
Gone ==
    /\ phase = "Deleting"
    /\ phase' = Absent
    /\ UNCHANGED <<pc, observed, differs>>

\* Section 5: another writer starts an operation on a mutable resource.
OtherStart ==
    /\ phase \in Mutable
    /\ phase' = "Updating"
    /\ UNCHANGED <<pc, observed, differs>>

Init ==
    /\ pc = "idle"
    /\ phase = Absent
    /\ observed = Absent
    /\ differs \in BOOLEAN

Next ==
    \/ Fetch \/ Start \/ Abandon \/ Return \/ DeleteStart \/ DeleteEnd
    \/ OpEnd \/ Gone \/ OtherStart

Spec == Init /\ [][Next]_absvars

=============================================================================
