---------------------------- MODULE Provisioning ----------------------------
(***************************************************************************)
(* Provisioning phases of a remote (AKS) resource and the lifecycle gate   *)
(* both reconcilers apply before an update: managedclusters.go:292-297 and *)
(* agentpools.go:145-150 refuse to update a resource whose phase is not    *)
(* Canceled, Failed or Succeeded.  Absent stands for the Get returning     *)
(* "not found" (azure.ResourceNotFound), which is the create path.         *)
(***************************************************************************)

Absent == "Absent"

\* An unset pointer or nil map in a payload or a response.
NilPtr == "nil"

\* The phases the remote API reports (infrav1alpha4 provisioning states).
Phases == {"Creating", "Updating", "Deleting", "Succeeded", "Failed", "Canceled"}

\* The phases the gate lets an update through: the three terminal ones.
TerminalPhases == {"Canceled", "Failed", "Succeeded"}

\* Mutant: Failed left out of the terminal phases.
IsTerminalNoFailed(ps) == ps \in {"Canceled", "Succeeded"}

\* ps != Canceled && ps != Failed && ps != Succeeded  =>  error, no update.
IsTerminal(ps) == ps \in TerminalPhases

\* An operation of the remote service is in flight on the resource.
InFlight(ps) == ps \in Phases \ TerminalPhases

=============================================================================
