----------------------------- MODULE AgentPools -----------------------------
(***************************************************************************)
(* The node-pool reconciler of azure/services/agentpools/agentpools.go     *)
(* driving one remote AKS agent pool, together with the environment that   *)
(* races it: the user editing the desired spec, the cluster autoscaler     *)
(* changing the pool's node count, another writer (portal, CLI, a          *)
(* cluster-level operation) starting its own operation on the pool, and    *)
(* the remote operations completing, failing or timing out.                *)
(*                                                                         *)
(* A pass of Service.Reconcile has two suspension points: the Get (line    *)
(* 129) and the CreateOrUpdate (lines 140 / 194), which waits for the      *)
(* long-running operation unless the caller's context expires first.       *)
(* Everything between them (lines 138-193: gate, tag fix, normalisation,   *)
(* diff) runs on the snapshot the Get returned.                            *)
(*                                                                         *)
(* A payload is abstracted to the fields the diff compares (lines 159-183) *)
(* with autoscale standing for MinCount/MaxCount/EnableAutoScaling: TRUE  *)
(* for the three set, FALSE for EnableAutoScaling explicitly false, a      *)
(* present field the service applies (a spec leaving all three unset on a  *)
(* pool that autoscales is not modelled).  The fields the diff ignores     *)
(* (VM size, disk, subnet, ...) are immutable after creation, left out.    *)
(***************************************************************************)
EXTENDS Naturals, Provisioning

CONSTANTS
    Counts,          \* node counts (Replicas / Count)
    Versions,        \* orchestrator versions
    DesiredVersions, \* versions the spec provider may hand out (NilPtr = unset)
    ClusterVersion,  \* version AKS fills in when the payload leaves it unset
    LabelVals,       \* non-empty node-label maps
    DesiredLabels,   \* label maps the spec provider may hand out (NilPtr = unset)
    TagVals,         \* non-empty tag maps
    MaxEnv,          \* bound on environment steps (spec edits, autoscaler, other writers)
    MaxFail,         \* bound on failed remote operations and lost requests
    MaxDel           \* bound on Delete calls of the outer loop

\* An explicitly empty map.
EmptyMap == "{}"

ASSUME ConstAssumption ==
    /\ Counts # {} /\ Versions # {}
    /\ ClusterVersion \in Versions
    /\ DesiredVersions \subseteq Versions \cup {NilPtr}
    /\ DesiredVersions # {}
    /\ DesiredLabels \subseteq LabelVals \cup {NilPtr}
    /\ DesiredLabels # {}
    /\ NilPtr \notin Versions \cup LabelVals \cup TagVals
    /\ EmptyMap \notin Versions \cup LabelVals \cup TagVals
    /\ MaxEnv \in Nat /\ MaxFail \in Nat /\ MaxDel \in Nat

VARIABLES
    desired,   \* the spec provider's AgentPoolSpec
    remote,    \* the remote pool: phase, properties, and the running operation
    rpc,       \* where the reconciler is: "idle", "got", "put", "deleting"
    want,      \* the payload built from the spec at the start of the pass
    obs,       \* the snapshot the Get returned
    result,    \* what the last Reconcile/Delete call returned
    putDone,   \* the outcome of the reconciler's running remote operation
    lastPut,   \* history: the payload of the reconciler's last accepted PUT
    quiet,     \* history: that PUT succeeded on a fresh snapshot and nobody
               \*          has touched the pool since
    fresh,     \* history: the last PUT was sent on an up-to-date snapshot
    env, fails, dels

vars == <<desired, remote, rpc, want, obs, result, putDone, lastPut, quiet,
          fresh, env, fails, dels>>

-----------------------------------------------------------------------------
(* Payloads and what the diff compares.                                    *)

Profiles == [count : Counts, version : Versions \cup {NilPtr},
             autoscale : BOOLEAN, labels : LabelVals \cup {NilPtr},
             tags : TagVals \cup {NilPtr, EmptyMap}]

\* What the spec provider can hand out: tags are a nil map when unset.
DesiredProfiles == {p \in Profiles : /\ p.version \in DesiredVersions
                                      /\ p.labels \in DesiredLabels
                                      /\ p.tags # EmptyMap}

\* What the remote reports for an existing pool: the version is always set.
RemoteProps == {p \in Profiles : p.version \in Versions /\ p.tags # EmptyMap}

NoProps == [count |-> CHOOSE c \in Counts : TRUE, version |-> ClusterVersion,
            autoscale |-> FALSE, labels |-> NilPtr, tags |-> NilPtr]

Snapshot(r) == [phase |-> r.phase, props |-> r.props]

\* Mutant: an unset AdditionalTags copied as an empty map.
BuildProfileEmptyTags(spec) == [spec EXCEPT !.tags = IF spec.tags = NilPtr THEN EmptyMap ELSE spec.tags]

\* The profile of lines 66-127: every compared field copied from the spec.
BuildProfile(spec) == spec

\* Mutant: the tag-removal fix of lines 152-156 left out.
TagFixMissing(p, e) == p

\* Lines 152-156: removed tags must be sent as an explicit empty map.
TagFix(p, e) ==
    IF e.tags \notin {NilPtr, EmptyMap} /\ p.tags = NilPtr
    THEN [p EXCEPT !.tags = EmptyMap]
    ELSE p

\* Lines 159-170: the existing pool reduced to the compared fields.
ExistingNormalized(e) ==
    [count |-> e.count, version |-> e.version, autoscale |-> e.autoscale,
     labels |-> e.labels, tags |-> e.tags]

\* Lines 172-188: the same for the payload; with min and max set the
\* autoscaler owns the count and the existing one is taken.
DesiredNormalized(p, e) ==
    [count |-> IF p.autoscale THEN e.count ELSE p.count, version |-> p.version,
     autoscale |-> p.autoscale, labels |-> p.labels, tags |-> p.tags]

\* Line 191-192: cmp.Diff(existing, normalized) != "".
NeedsUpdate(p, e) == DesiredNormalized(p, e) # ExistingNormalized(e)

\* The remote service applying a PUT (spec section 3): a field the payload
\* sets is replaced; an unset one (nil version, labels or tags) is left
\* unchanged, or defaulted on create; an explicitly empty tag map clears
\* the tags.  Count and autoscale are always set by the payload.
Apply(p, cur, creating) ==
    [count |-> p.count,
     version |-> IF p.version # NilPtr THEN p.version
                 ELSE IF creating THEN ClusterVersion ELSE cur.version,
     autoscale |-> p.autoscale,
     labels |-> IF p.labels # NilPtr THEN p.labels
                ELSE IF creating THEN NilPtr ELSE cur.labels,
     tags |-> CASE p.tags = EmptyMap -> NilPtr
              []   p.tags = NilPtr   -> IF creating THEN NilPtr ELSE cur.tags
              []   OTHER             -> p.tags]

-----------------------------------------------------------------------------
Init ==
    /\ desired \in DesiredProfiles
    /\ remote = [phase |-> Absent, props |-> NoProps, target |-> NoProps, by |-> "rec"]
    /\ rpc = "idle"
    /\ want = desired
    /\ obs = [phase |-> Absent, props |-> NoProps, quiet |-> FALSE]
    /\ result = "none"
    /\ putDone = "ok"
    /\ lastPut = desired
    /\ quiet = FALSE
    /\ fresh = FALSE
    /\ env = 0 /\ fails = 0 /\ dels = 0

-----------------------------------------------------------------------------
(* The reconciler: Service.Reconcile and Service.Delete.                   *)

\* Lines 64-132: read the spec, build the payload, fetch the pool.
GetOk ==
    /\ rpc = "idle"
    /\ want' = BuildProfile(desired)
    /\ obs' = [phase |-> remote.phase, props |-> remote.props, quiet |-> quiet]
    /\ rpc' = "got"
    /\ UNCHANGED <<desired, remote, result, putDone, lastPut, quiet, fresh, env, fails, dels>>

\* Lines 130-132: a Get failing for another reason than 404.
GetErr ==
    /\ rpc = "idle"
    /\ result' = "err"
    /\ UNCHANGED <<desired, remote, rpc, want, obs, putDone, lastPut, quiet, fresh, env, fails, dels>>

\* CreateOrUpdate(p) reaching the remote and being accepted: an operation
\* starts, and the call waits for it.
SendAccepted(p) ==
    /\ ~InFlight(remote.phase)
    /\ remote' = [phase |-> IF remote.phase = Absent THEN "Creating" ELSE "Updating",
                  props |-> remote.props,
                  target |-> Apply(p, remote.props, remote.phase = Absent),
                  by |-> "rec"]
    /\ rpc' = "put"
    /\ putDone' = "pending"
    /\ lastPut' = want
    /\ quiet' = FALSE
    /\ fresh' = (Snapshot(remote) = [phase |-> obs.phase, props |-> obs.props])
    /\ UNCHANGED <<result, fails>>

\* The pool is busy with another operation: the API answers 409.
SendConflict ==
    /\ InFlight(remote.phase)
    /\ rpc' = "idle"
    /\ result' = "err"
    /\ UNCHANGED <<remote, putDone, lastPut, quiet, fresh, fails>>

\* The request fails in transport and never reaches the API.
SendLost ==
    /\ fails < MaxFail
    /\ fails' = fails + 1
    /\ rpc' = "idle"
    /\ result' = "err"
    /\ UNCHANGED <<remote, putDone, lastPut, quiet, fresh>>

Send(p) == SendAccepted(p) \/ SendConflict \/ SendLost

\* Lines 138-143: not found, so create with the payload as built.
CreatePath ==
    /\ rpc = "got"
    /\ obs.phase = Absent
    /\ Send(want)
    /\ UNCHANGED <<desired, want, obs, env, dels>>

\* Lines 145-150: the lifecycle gate.
GateReject ==
    /\ rpc = "got"
    /\ obs.phase # Absent
    /\ ~IsTerminal(obs.phase)
    /\ rpc' = "idle"
    /\ result' = "err"
    /\ UNCHANGED <<desired, remote, want, obs, putDone, lastPut, quiet, fresh, env, fails, dels>>

\* Mutant: the lifecycle gate's check left out of the update path.
UpdatePutNoGate ==
    /\ rpc = "got"
    /\ NeedsUpdate(TagFix(want, obs.props), obs.props)
    /\ Send(TagFix(want, obs.props))
    /\ UNCHANGED <<desired, want, obs, env, dels>>

\* Lines 152-197: tag fix, normalise, diff, and PUT the full payload.
UpdatePut ==
    /\ rpc = "got"
    /\ IsTerminal(obs.phase)
    /\ NeedsUpdate(TagFix(want, obs.props), obs.props)
    /\ Send(TagFix(want, obs.props))
    /\ UNCHANGED <<desired, want, obs, env, dels>>

\* Lines 198-203: normalised and desired matched, nothing to do.
UpdateNoop ==
    /\ rpc = "got"
    /\ IsTerminal(obs.phase)
    /\ ~NeedsUpdate(TagFix(want, obs.props), obs.props)
    /\ rpc' = "idle"
    /\ result' = "ok"
    /\ UNCHANGED <<desired, remote, want, obs, putDone, lastPut, quiet, fresh, env, fails, dels>>

\* Lines 140-143 / 194-197: the operation the call waits on has ended.
PutReturn ==
    /\ rpc = "put"
    /\ putDone # "pending"
    /\ rpc' = "idle"
    /\ result' = putDone
    /\ UNCHANGED <<desired, remote, want, obs, putDone, lastPut, quiet, fresh, env, fails, dels>>

\* The caller's context expires while waiting: the call returns an error
\* and the operation goes on remotely.
PutTimeout ==
    /\ rpc = "put"
    /\ putDone = "pending"
    /\ rpc' = "idle"
    /\ result' = "err"
    /\ UNCHANGED <<desired, remote, want, obs, putDone, lastPut, quiet, fresh, env, fails, dels>>

\* Lines 207-224: Delete; "not found" is success.
DeleteCall ==
    /\ rpc = "idle"
    /\ dels < MaxDel
    /\ dels' = dels + 1
    /\ \/ /\ remote.phase = Absent
          /\ result' = "ok"
          /\ UNCHANGED <<remote, rpc, quiet>>
       \/ /\ remote.phase # Absent
          /\ remote' = [remote EXCEPT !.phase = "Deleting", !.by = "rec"]
          /\ rpc' = "deleting"
          /\ quiet' = FALSE
          /\ UNCHANGED result
    /\ UNCHANGED <<desired, want, obs, putDone, lastPut, fresh, env, fails>>

\* The deletion the call waits on has finished, or the context expired.
DeleteReturn ==
    /\ rpc = "deleting"
    /\ \/ remote.phase = Absent /\ result' = "ok"
       \/ remote.phase # Absent /\ result' = "err"
    /\ rpc' = "idle"
    /\ UNCHANGED <<desired, remote, want, obs, putDone, lastPut, quiet, fresh, env, fails, dels>>

-----------------------------------------------------------------------------
(* The remote service and the other actors.                                *)

\* An operation in progress completes.
RemoteComplete ==
    /\ remote.phase \in {"Creating", "Updating"}
    /\ remote' = [remote EXCEPT !.phase = "Succeeded", !.props = remote.target]
    /\ putDone' = IF remote.by = "rec" THEN "ok" ELSE putDone
    /\ quiet' = (remote.by = "rec" /\ fresh)
    /\ UNCHANGED <<desired, rpc, want, obs, result, lastPut, fresh, env, fails, dels>>

\* An operation in progress ends Failed or Canceled, applied or not.
RemoteFail ==
    /\ remote.phase \in {"Creating", "Updating"}
    /\ fails < MaxFail
    /\ fails' = fails + 1
    /\ \E ph \in {"Failed", "Canceled"}, pr \in {remote.props, remote.target} :
          remote' = [remote EXCEPT !.phase = ph, !.props = pr]
    /\ putDone' = IF remote.by = "rec" THEN "err" ELSE putDone
    /\ quiet' = FALSE
    /\ UNCHANGED <<desired, rpc, want, obs, result, lastPut, fresh, env, dels>>

RemoteDeleted ==
    /\ remote.phase = "Deleting"
    /\ remote' = [phase |-> Absent, props |-> NoProps, target |-> NoProps, by |-> "rec"]
    /\ UNCHANGED <<desired, rpc, want, obs, result, putDone, lastPut, quiet, fresh, env, fails, dels>>

\* The user edits the AzureManagedMachinePool spec.
SpecChange ==
    /\ env < MaxEnv
    /\ env' = env + 1
    /\ desired' \in DesiredProfiles \ {desired}
    /\ UNCHANGED <<remote, rpc, want, obs, result, putDone, lastPut, quiet, fresh, fails, dels>>

\* The cluster autoscaler resizes a pool that has autoscaling on.
Autoscale ==
    /\ env < MaxEnv
    /\ env' = env + 1
    /\ IsTerminal(remote.phase)
    /\ remote.props.autoscale
    /\ \E c \in Counts \ {remote.props.count} :
          remote' = [remote EXCEPT !.props.count = c]
    /\ quiet' = FALSE
    /\ UNCHANGED <<desired, rpc, want, obs, result, putDone, lastPut, fresh, fails, dels>>

\* Another writer starts an operation on the existing pool.
OtherUpdate ==
    /\ env < MaxEnv
    /\ env' = env + 1
    /\ IsTerminal(remote.phase)
    /\ \E t \in RemoteProps :
          remote' = [remote EXCEPT !.phase = "Updating", !.target = t, !.by = "other"]
    /\ quiet' = FALSE
    /\ UNCHANGED <<desired, rpc, want, obs, result, putDone, lastPut, fresh, fails, dels>>

-----------------------------------------------------------------------------
Decide == CreatePath \/ GateReject \/ UpdatePut \/ UpdateNoop

Reconciler == GetOk \/ GetErr \/ Decide \/ PutReturn \/ PutTimeout
              \/ DeleteCall \/ DeleteReturn

Remote == RemoteComplete \/ RemoteFail \/ RemoteDeleted

Environment == SpecChange \/ Autoscale \/ OtherUpdate

Next == Reconciler \/ Remote \/ Environment

\* The outer loop re-runs Reconcile (requeue on error, periodic resync) and
\* the remote service finishes what it starts.
Fairness ==
    /\ WF_vars(GetOk) /\ WF_vars(Decide) /\ WF_vars(PutReturn)
    /\ WF_vars(DeleteReturn)
    /\ WF_vars(RemoteComplete) /\ WF_vars(RemoteDeleted)

Spec == Init /\ [][Next]_vars /\ Fairness

-----------------------------------------------------------------------------
(* Properties.                                                             *)

TypeOK ==
    /\ desired \in DesiredProfiles
    /\ remote \in [phase : Phases \cup {Absent}, props : RemoteProps,
                   target : RemoteProps, by : {"rec", "other"}]
    /\ rpc \in {"idle", "got", "put", "deleting"}
    /\ want \in DesiredProfiles
    /\ obs \in [phase : Phases \cup {Absent}, props : RemoteProps, quiet : BOOLEAN]
    /\ result \in {"none", "ok", "err"}
    /\ putDone \in {"pending", "ok", "err"}
    /\ lastPut \in DesiredProfiles
    /\ quiet \in BOOLEAN /\ fresh \in BOOLEAN
    /\ env \in 0..MaxEnv /\ fails \in 0..MaxFail /\ dels \in 0..MaxDel

\* Idempotence (spec section 8): when the reconciler's last PUT of this very
\* payload succeeded on an up-to-date snapshot and nobody has touched the
\* pool since, the next pass passes the gate and finds nothing to update.
\* Breaks if the tag fix, the normalisation or the diff disagree with what
\* the remote service stores for the payload.
SecondPassIsNoop ==
    (rpc = "got" /\ obs.quiet /\ want = lastPut)
        => /\ IsTerminal(obs.phase)
           /\ ~NeedsUpdate(TagFix(want, obs.props), obs.props)

\* The reconciler's idea of done: the pool is in a terminal phase and its
\* diff against the current spec is empty.
Converged ==
    /\ IsTerminal(remote.phase)
    /\ ~NeedsUpdate(TagFix(desired, remote.props), remote.props)

\* Eventual convergence (spec section 5): once the user, the autoscaler and
\* other writers stop, repeated passes bring the pool to the spec and keep
\* it there, despite failed, timed-out and rejected calls on the way.
EventuallyConverged == <>[]Converged

\* Spec section 1: no mutating call is issued while a remote operation is
\* in flight on the pool (the gate reads the phase once, before the PUT).
NoMutationInFlight ==
    [][(CreatePath \/ UpdatePut) => ~InFlight(remote.phase)]_vars

\* Spec section 3: once autoscaling is on, the autoscaler owns the node
\* count; an update PUT must not move the count it chose.
AutoscalerOwnsCount ==
    [][(UpdatePut /\ rpc' = "put" /\ want.autoscale /\ remote.props.autoscale)
         => remote'.target.count = remote.props.count]_vars

-----------------------------------------------------------------------------
(* Refinement: every pass has the shape of GatedReconcile.                 *)

GR == INSTANCE GatedReconcile
        WITH pc <- rpc, phase <- remote.phase, observed <- obs.phase,
             differs <- NeedsUpdate(TagFix(want, obs.props), obs.props)

\* Spec sections 4.2, 4.4 and 5: a pass issues at most one mutating call,
\* a create only when its snapshot showed no pool, an update only when the
\* snapshot passed the lifecycle gate and its diff is non-empty; Delete is
\* not gated.
ImplementsGatedReconcile == GR!Spec

=============================================================================
