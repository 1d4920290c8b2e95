--------------------------- MODULE ManagedClusters ---------------------------
(***************************************************************************)
(* The cluster reconciler of azure/services/managedclusters/               *)
(* managedclusters.go driving one remote AKS managed cluster, with the     *)
(* environment that races it: spec edits, credential rotation, other       *)
(* writers, and remote operations that complete, fail or outlive the       *)
(* caller's context.                                                       *)
(*                                                                         *)
(* A pass of Service.Reconcile suspends at the Get (line 89), the          *)
(* CreateOrUpdate (lines 287 / 382, which waits for the operation) and     *)
(* GetCredentials (line 408).  Building the payload, the gate, the         *)
(* normalisation and the diff (lines 99-381), and the endpoint check       *)
(* (lines 394-404) run on what the previous call returned.                 *)
(*                                                                         *)
(* A payload is abstracted to the fields the diff compares (lines 305-377: *)
(* version, DisableLocalAccounts, the AAD profile, the load-balancer       *)
(* profile, the authorized IP ranges, the SKU), to the AAD tenant AKS      *)
(* fills into a stored AAD profile and the normaliser must drop, and to    *)
(* the inputs that change the control flow: whether the service CIDR       *)
(* parses (lines 136-142) and whether the API server is private without a  *)
(* public FQDN, in which case AKS reports none (lines 277-284, 395-404).   *)
(* Each section is one value: "nil" when unset.                            *)
(***************************************************************************)
EXTENDS Integers, Provisioning

CONSTANTS
    Versions,     \* Kubernetes versions
    SkuTiers,     \* tier strings the spec may name (NilPtr = no SKU section)
    LBProfiles,   \* load-balancer profiles the spec may name (NilPtr = none)
    DefaultLB,    \* the load-balancer profile AKS fills in when none is sent
    DLAs,         \* DisableLocalAccounts values the spec may give ("true", "false", NilPtr)
    AADs,         \* AAD profiles the spec may name (NilPtr = none)
    Accesses,     \* API-server access profiles: authorized ranges (NilPtr = no
                  \* section), EnablePrivateCluster, EnablePrivateClusterPublicFQDN
    MaxEnv,       \* bound on environment steps (spec edits, rotations, other writers)
    MaxFail,      \* bound on failed remote operations and failing calls
    MaxDel        \* bound on Delete calls of the outer loop

ASSUME ConstAssumption ==
    /\ Versions # {} /\ SkuTiers # {} /\ LBProfiles # {}
    /\ DLAs # {} /\ AADs # {} /\ Accesses # {}
    /\ DefaultLB # NilPtr
    /\ NilPtr \notin Versions
    /\ DLAs \subseteq {"true", "false", NilPtr}
    /\ Accesses \subseteq [ranges : STRING, private : BOOLEAN, publicFqdn : BOOLEAN]
    /\ MaxEnv \in Nat /\ MaxFail \in Nat /\ MaxDel \in Nat

VARIABLES
    desired,     \* the spec provider's ManagedClusterSpec
    remote,      \* the remote cluster: phase, properties, FQDN, credentials
    cpc,         \* where the reconciler is: "idle", "got", "put", "creds", "deleting"
    want,        \* the spec read at the start of the pass
    obs,         \* the snapshot the Get returned
    result,      \* what the last Reconcile/Delete call returned
    putDone,     \* outcome of the reconciler's running remote operation
    endpoint,    \* the control-plane endpoint published through the scope
    kubeconfig,  \* the kubeconfig data published through the scope
    lastPut, quiet, fresh,  \* history, as in AgentPools
    env, fails, dels

vars == <<desired, remote, cpc, want, obs, result, putDone, endpoint,
          kubeconfig, lastPut, quiet, fresh, env, fails, dels>>

-----------------------------------------------------------------------------
Specs == [version : Versions, sku : SkuTiers, lb : LBProfiles, dla : DLAs,
          aad : AADs, access : Accesses, cidr : {"none", "ok", "bad"}]

\* The tenant AKS records in every AAD profile it stores.
AKSTenant == "tenant"

\* What the remote reports: AKS always fills in a SKU, a load balancer and
\* DisableLocalAccounts, and a tenant exactly when it holds an AAD profile.
Props == {p \in [version : Versions, sku : {"Free", "Paid"},
                 lb : (LBProfiles \cup {DefaultLB}) \ {NilPtr},
                 dla : {IF d = NilPtr THEN "false" ELSE d : d \in DLAs},
                 aad : AADs, tenant : {NilPtr, AKSTenant},
                 ranges : {a.ranges : a \in Accesses}] :
             p.tenant = IF p.aad = NilPtr THEN NilPtr ELSE AKSTenant}

NoProps == CHOOSE p \in Props : TRUE

\* Mutant: the spec's tier string cast to the API's tier unchecked.
SkuTierRaw(t) == t

\* Lines 231-242: "Paid" maps to the paid tier, anything else to free.
SkuTier(t) == IF t = NilPtr THEN NilPtr ELSE IF t = "Paid" THEN "Paid" ELSE "Free"

\* Mutant: EnablePrivateClusterPublicFQDN ignored.
HasPublicFqdnNoFlag(a) == ~a.private

\* Lines 277-284 and 394-404: AKS gives the cluster a public FQDN unless
\* its API server is private without EnablePrivateClusterPublicFQDN.
HasPublicFqdn(a) == ~a.private \/ a.publicFqdn

\* Lines 108-284 restricted to the compared fields: each optional section
\* is copied from the spec when set; the payload carries no tenant.
BuildCluster(s) ==
    [version |-> s.version, sku |-> SkuTier(s.sku), lb |-> s.lb, dla |-> s.dla,
     aad |-> s.aad, tenant |-> NilPtr, ranges |-> s.access.ranges]

\* Mutant: the AAD profile compared whole, the tenant AKS filled in included.
NormalizedWithTenant(c) ==
    [version |-> c.version, sku |-> c.sku, lb |-> c.lb, dla |-> c.dla,
     aad |-> c.aad, tenant |-> c.tenant, ranges |-> c.ranges]

\* Lines 305-377: both sides reduced to the compared fields: the AAD
\* profile to Managed, EnableAzureRBAC and AdminGroupObjectIDs (the tenant
\* dropped), the access profile to its authorized IP ranges.
Normalized(c) ==
    [version |-> c.version, sku |-> c.sku, lb |-> c.lb, dla |-> c.dla,
     aad |-> c.aad, ranges |-> c.ranges]

\* Lines 379-380: cmp.Diff(existing, desired) != "".
NeedsUpdate(c, e) == Normalized(c) # Normalized(e)

\* A field of a PUT as AKS stores it (spec section 3): replaced when set,
\* left as it is when unset, or defaulted on create.
Applied(x, old, default, creating) ==
    IF x # NilPtr THEN x ELSE IF creating THEN default ELSE old

\* The remote service applying a PUT; it records its tenant in an AAD
\* profile.
Apply(c, cur, creating) ==
    LET aad == Applied(c.aad, cur.aad, NilPtr, creating)
    IN  [version |-> c.version,
         sku |-> Applied(c.sku, cur.sku, "Free", creating),
         lb |-> Applied(c.lb, cur.lb, DefaultLB, creating),
         dla |-> Applied(c.dla, cur.dla, "false", creating),
         aad |-> aad,
         tenant |-> IF aad = NilPtr THEN NilPtr ELSE AKSTenant,
         ranges |-> Applied(c.ranges, cur.ranges, NilPtr, creating)]

-----------------------------------------------------------------------------
Init ==
    /\ desired \in Specs
    /\ remote = [phase |-> Absent, props |-> NoProps, target |-> NoProps,
                 by |-> "rec", fqdn |-> FALSE, creds |-> 0]
    /\ cpc = "idle"
    /\ want = desired
    /\ obs = [phase |-> Absent, props |-> NoProps, fqdn |-> FALSE, quiet |-> FALSE]
    /\ result = "none"
    /\ putDone = "ok"
    /\ endpoint = FALSE
    /\ kubeconfig = -1
    /\ lastPut = desired
    /\ quiet = FALSE /\ fresh = FALSE
    /\ env = 0 /\ fails = 0 /\ dels = 0

Ghost == <<lastPut, quiet, fresh>>
Bounds == <<env, fails, dels>>

-----------------------------------------------------------------------------
(* The reconciler: Service.Reconcile and Service.Delete.                   *)

\* Lines 83-86 and 89-93: the scope cannot build the spec, or the Get fails
\* for another reason than 404.
GetErr ==
    /\ cpc = "idle"
    /\ result' = "err"
    /\ UNCHANGED <<desired, remote, cpc, want, obs, putDone, endpoint, kubeconfig, Ghost, Bounds>>

\* Lines 83-93: read the spec and fetch the cluster.
GetOk ==
    /\ cpc = "idle"
    /\ want' = desired
    /\ obs' = [phase |-> remote.phase, props |-> remote.props,
               fqdn |-> remote.fqdn, quiet |-> quiet]
    /\ cpc' = "got"
    /\ UNCHANGED <<desired, remote, result, putDone, endpoint, kubeconfig, Ghost, Bounds>>

\* Lines 99-106 and 136-142: on the create path the agent-pool specs cannot
\* be listed, or (on either path) the service CIDR does not parse.
BuildErr ==
    /\ cpc = "got"
    /\ \/ /\ obs.phase = Absent
          /\ fails < MaxFail
          /\ fails' = fails + 1
       \/ /\ want.cidr = "bad"
          /\ UNCHANGED fails
    /\ cpc' = "idle"
    /\ result' = "err"
    /\ UNCHANGED <<desired, remote, want, obs, putDone, endpoint, kubeconfig, Ghost, env, dels>>

\* CreateOrUpdate reaching the remote and being accepted.
SendAccepted(c) ==
    /\ ~InFlight(remote.phase)
    /\ remote' = [remote EXCEPT
                    !.phase = IF remote.phase = Absent THEN "Creating" ELSE "Updating",
                    !.target = Apply(c, remote.props, remote.phase = Absent),
                    !.by = "rec",
                    !.fqdn = IF remote.phase = Absent THEN HasPublicFqdn(want.access) ELSE @]
    /\ cpc' = "put"
    /\ putDone' = "pending"
    /\ lastPut' = want
    /\ quiet' = FALSE
    /\ fresh' = (remote.phase = obs.phase /\ remote.props = obs.props)
    /\ UNCHANGED <<result, fails>>

\* The cluster is busy with another operation: the API answers 409.
SendConflict ==
    /\ InFlight(remote.phase)
    /\ cpc' = "idle"
    /\ result' = "err"
    /\ UNCHANGED <<remote, putDone, Ghost, fails>>

\* The request fails in transport.
SendLost ==
    /\ fails < MaxFail
    /\ fails' = fails + 1
    /\ cpc' = "idle"
    /\ result' = "err"
    /\ UNCHANGED <<remote, putDone, Ghost>>

Send(c) == SendAccepted(c) \/ SendConflict \/ SendLost

\* Lines 286-290: create with the payload as built.
CreatePath ==
    /\ cpc = "got"
    /\ obs.phase = Absent
    /\ want.cidr # "bad"
    /\ Send(BuildCluster(want))
    /\ UNCHANGED <<desired, want, obs, endpoint, kubeconfig, env, dels>>

\* Lines 292-297: the lifecycle gate.
GateReject ==
    /\ cpc = "got"
    /\ want.cidr # "bad"
    /\ obs.phase # Absent
    /\ ~IsTerminal(obs.phase)
    /\ cpc' = "idle"
    /\ result' = "err"
    /\ UNCHANGED <<desired, remote, want, obs, putDone, endpoint, kubeconfig, Ghost, Bounds>>

\* Mutant: the lifecycle gate's check left out of the update path.
UpdatePutNoGate ==
    /\ cpc = "got"
    /\ want.cidr # "bad"
    /\ NeedsUpdate(BuildCluster(want), obs.props)
    /\ Send(BuildCluster(want))
    /\ UNCHANGED <<desired, want, obs, endpoint, kubeconfig, env, dels>>

\* Lines 299-385: normalise, diff, and PUT the full payload.
UpdatePut ==
    /\ cpc = "got"
    /\ want.cidr # "bad"
    /\ IsTerminal(obs.phase)
    /\ NeedsUpdate(BuildCluster(want), obs.props)
    /\ Send(BuildCluster(want))
    /\ UNCHANGED <<desired, want, obs, endpoint, kubeconfig, env, dels>>

\* Lines 394-404 on the cluster a call returned: publish its FQDN as the
\* endpoint and go on to the credentials, or fail without one.
PublishEndpoint(hasFqdn) ==
    \/ /\ hasFqdn
       /\ endpoint' = TRUE
       /\ cpc' = "creds"
       /\ UNCHANGED result
    \/ /\ ~hasFqdn
       /\ cpc' = "idle"
       /\ result' = "err"
       /\ UNCHANGED endpoint

\* Mutant: the no-update branch keeps the built payload, which has no FQDN.
UpdateNoopNoRefresh ==
    /\ cpc = "got"
    /\ want.cidr # "bad"
    /\ IsTerminal(obs.phase)
    /\ ~NeedsUpdate(BuildCluster(want), obs.props)
    /\ PublishEndpoint(FALSE)
    /\ UNCHANGED <<desired, remote, want, obs, putDone, kubeconfig, Ghost, Bounds>>

\* Lines 386-391 then 394-404: no update, the fetched cluster is used.
UpdateNoop ==
    /\ cpc = "got"
    /\ want.cidr # "bad"
    /\ IsTerminal(obs.phase)
    /\ ~NeedsUpdate(BuildCluster(want), obs.props)
    /\ PublishEndpoint(obs.fqdn)
    /\ UNCHANGED <<desired, remote, want, obs, putDone, kubeconfig, Ghost, Bounds>>

\* Lines 287-290 / 382-385 then 394-404: the operation ended; on success
\* the cluster it returned is used.
PutReturn ==
    /\ cpc = "put"
    /\ putDone # "pending"
    /\ \/ /\ putDone = "ok"
          /\ PublishEndpoint(remote.fqdn)
       \/ /\ putDone = "err"
          /\ cpc' = "idle"
          /\ result' = "err"
          /\ UNCHANGED endpoint
    /\ UNCHANGED <<desired, remote, want, obs, putDone, kubeconfig, Ghost, Bounds>>

\* The caller's context expires while the operation runs.
PutTimeout ==
    /\ cpc = "put"
    /\ putDone = "pending"
    /\ cpc' = "idle"
    /\ result' = "err"
    /\ UNCHANGED <<desired, remote, want, obs, putDone, endpoint, kubeconfig, Ghost, Bounds>>

\* Lines 406-414: always fetch the credentials, in case they rotated.
FetchCredentials ==
    /\ cpc = "creds"
    /\ cpc' = "idle"
    /\ kubeconfig' = remote.creds
    /\ result' = "ok"
    /\ UNCHANGED <<desired, remote, want, obs, putDone, endpoint, Ghost, Bounds>>

\* Lines 408-411: the credentials call fails.
CredentialsErr ==
    /\ cpc = "creds"
    /\ fails < MaxFail
    /\ fails' = fails + 1
    /\ cpc' = "idle"
    /\ result' = "err"
    /\ UNCHANGED <<desired, remote, want, obs, putDone, endpoint, kubeconfig, Ghost, env, dels>>

\* Lines 418-434: Delete; "not found" is success.
DeleteCall ==
    /\ cpc = "idle"
    /\ dels < MaxDel
    /\ dels' = dels + 1
    /\ \/ /\ remote.phase = Absent
          /\ result' = "ok"
          /\ UNCHANGED <<remote, cpc, quiet>>
       \/ /\ remote.phase # Absent
          /\ remote' = [remote EXCEPT !.phase = "Deleting", !.by = "rec"]
          /\ cpc' = "deleting"
          /\ quiet' = FALSE
          /\ UNCHANGED result
    /\ UNCHANGED <<desired, want, obs, putDone, endpoint, kubeconfig, lastPut, fresh, env, fails>>

\* The deletion the call waits on has finished, or the context expired.
DeleteReturn ==
    /\ cpc = "deleting"
    /\ \/ remote.phase = Absent /\ result' = "ok"
       \/ remote.phase # Absent /\ result' = "err"
    /\ cpc' = "idle"
    /\ UNCHANGED <<desired, remote, want, obs, putDone, endpoint, kubeconfig, Ghost, Bounds>>

-----------------------------------------------------------------------------
(* The remote service and the other actors.                                *)

RemoteComplete ==
    /\ remote.phase \in {"Creating", "Updating"}
    /\ remote' = [remote EXCEPT !.phase = "Succeeded", !.props = remote.target]
    /\ putDone' = IF remote.by = "rec" THEN "ok" ELSE putDone
    /\ quiet' = (remote.by = "rec" /\ fresh)
    /\ UNCHANGED <<desired, cpc, want, obs, result, endpoint, kubeconfig, lastPut, fresh, Bounds>>

RemoteFail ==
    /\ remote.phase \in {"Creating", "Updating"}
    /\ fails < MaxFail
    /\ fails' = fails + 1
    /\ \E ph \in {"Failed", "Canceled"}, pr \in {remote.props, remote.target} :
          remote' = [remote EXCEPT !.phase = ph, !.props = pr]
    /\ putDone' = IF remote.by = "rec" THEN "err" ELSE putDone
    /\ quiet' = FALSE
    /\ UNCHANGED <<desired, cpc, want, obs, result, endpoint, kubeconfig, lastPut, fresh, env, dels>>

RemoteDeleted ==
    /\ remote.phase = "Deleting"
    /\ remote' = [remote EXCEPT !.phase = Absent, !.props = NoProps,
                                !.target = NoProps, !.fqdn = FALSE]
    /\ UNCHANGED <<desired, cpc, want, obs, result, putDone, endpoint, kubeconfig, Ghost, Bounds>>

\* The user edits the AzureManagedControlPlane spec.
SpecChange ==
    /\ env < MaxEnv
    /\ env' = env + 1
    /\ desired' \in Specs \ {desired}
    /\ UNCHANGED <<remote, cpc, want, obs, result, putDone, endpoint, kubeconfig, Ghost, fails, dels>>

\* AKS rotates the cluster's credentials.
RotateCredentials ==
    /\ env < MaxEnv
    /\ env' = env + 1
    /\ remote.phase # Absent
    /\ remote' = [remote EXCEPT !.creds = @ + 1]
    /\ UNCHANGED <<desired, cpc, want, obs, result, putDone, endpoint, kubeconfig, Ghost, fails, dels>>

\* Another writer starts an operation on the existing cluster.
OtherUpdate ==
    /\ env < MaxEnv
    /\ env' = env + 1
    /\ IsTerminal(remote.phase)
    /\ \E t \in Props :
          remote' = [remote EXCEPT !.phase = "Updating", !.target = t, !.by = "other"]
    /\ quiet' = FALSE
    /\ UNCHANGED <<desired, cpc, want, obs, result, putDone, endpoint, kubeconfig, lastPut, fresh, fails, dels>>

-----------------------------------------------------------------------------
Decide == BuildErr \/ CreatePath \/ GateReject \/ UpdatePut \/ UpdateNoop

Reconciler == GetErr \/ GetOk \/ Decide \/ PutReturn \/ PutTimeout
              \/ FetchCredentials \/ CredentialsErr \/ DeleteCall \/ DeleteReturn

Remote == RemoteComplete \/ RemoteFail \/ RemoteDeleted

Environment == SpecChange \/ RotateCredentials \/ OtherUpdate

Next == Reconciler \/ Remote \/ Environment

\* The outer loop re-runs Reconcile (requeue on error, periodic resync) and
\* the remote service finishes what it starts.
Fairness ==
    /\ WF_vars(GetOk) /\ WF_vars(Decide) /\ WF_vars(PutReturn)
    /\ WF_vars(FetchCredentials) /\ WF_vars(DeleteReturn)
    /\ WF_vars(RemoteComplete) /\ WF_vars(RemoteDeleted)

Spec == Init /\ [][Next]_vars /\ Fairness

-----------------------------------------------------------------------------
(* Properties.                                                             *)

TypeOK ==
    /\ desired \in Specs
    /\ remote \in [phase : Phases \cup {Absent}, props : Props, target : Props,
                   by : {"rec", "other"}, fqdn : BOOLEAN, creds : 0..MaxEnv]
    /\ cpc \in {"idle", "got", "put", "creds", "deleting"}
    /\ want \in Specs
    /\ obs \in [phase : Phases \cup {Absent}, props : Props, fqdn : BOOLEAN, quiet : BOOLEAN]
    /\ result \in {"none", "ok", "err"}
    /\ putDone \in {"pending", "ok", "err"}
    /\ endpoint \in BOOLEAN
    /\ kubeconfig \in -1..MaxEnv
    /\ lastPut \in Specs
    /\ quiet \in BOOLEAN /\ fresh \in BOOLEAN
    /\ env \in 0..MaxEnv /\ fails \in 0..MaxFail /\ dels \in 0..MaxDel

\* Idempotence (spec section 8): after the reconciler's own PUT of this
\* spec succeeded on an up-to-date snapshot, with nobody touching the
\* cluster since, the next pass passes the gate and finds no difference.
\* Breaks when AKS stores something the normalised payload does not match.
SecondPassIsNoop ==
    (cpc = "got" /\ obs.quiet /\ want = lastPut)
        => /\ IsTerminal(obs.phase)
           /\ ~NeedsUpdate(BuildCluster(want), obs.props)

\* The reconciler's idea of done for the current spec.
Converged ==
    /\ IsTerminal(remote.phase)
    /\ ~NeedsUpdate(BuildCluster(desired), remote.props)

\* Eventual convergence (spec sections 4.1 and 5): unless the spec's service
\* CIDR does not parse or its API server is private without a public FQDN
\* (an InvariantViolation on every pass, spec section 4.1 step 6), once the
\* environment stops the cluster reaches the spec, the endpoint is
\* published and the published kubeconfig is the cluster's current one,
\* and this stays so; credential rotation is picked up even when no update
\* is needed (line 407).
EventuallyPublished ==
    <>[](\/ desired.cidr = "bad"
         \/ desired.access.private /\ ~desired.access.publicFqdn
         \/ Converged /\ endpoint /\ kubeconfig = remote.creds)

-----------------------------------------------------------------------------
(* Refinement: every pass has the shape of GatedReconcile.                 *)

GR == INSTANCE GatedReconcile
        WITH pc <- IF cpc = "creds" THEN "idle" ELSE cpc,
             phase <- remote.phase, observed <- obs.phase,
             differs <- NeedsUpdate(BuildCluster(want), obs.props)

\* Spec sections 4.1, 4.4 and 5: a pass issues at most one mutating call,
\* a create only when its snapshot showed no cluster, an update only when the
\* snapshot passed the lifecycle gate and its diff is non-empty; Delete is
\* not gated.
ImplementsGatedReconcile == GR!Spec

=============================================================================
