# TLA+ models of the AKS reconcilers

This directory holds TLA+ models of the AKS (Azure Kubernetes Service)
reconcilers in this repository. It also holds TLC configurations that
model-check the models on small instances, and TLAPS proofs that cover
every instance.

## The system

There are three parts.

- **Cluster reconciler.** `azure/services/managedclusters/managedclusters.go`
  holds `Service.Reconcile` and `Service.Delete`. A reconcile pass runs in
  this order:
  1. Read the spec.
  2. `Get` the remote cluster.
  3. On 404, list the agent-pool specs, because AKS only accepts pools in
     the create request.
  4. Build the payload. This includes the DNS service IP derived from the
     service CIDR.
  5. On 404, create the cluster. Otherwise:
     - pass the lifecycle gate, which requires the phase to be Canceled,
       Failed or Succeeded;
     - normalise both sides and run `cmp.Diff`;
     - PUT on a difference, or else reuse the fetched cluster.
  6. Publish the FQDN as the control-plane endpoint. With no FQDN the pass
     fails.
  7. Always fetch the credentials and publish the kubeconfig.
- **Node-pool reconciler.** `azure/services/agentpools/agentpools.go` has
  the same shape for one agent pool, with two differences:
  - On update, removed tags are sent as an explicit empty map (lines
    152-156).
  - With min and max set, the diff ignores the node count (lines 185-188).
- **Rate-limited event handler.** `pkg/ratelimit/enqueue_mapped.go` maps
  watch events to requests and adds them to the queue rate-limited. Each
  event's requests are de-duplicated.

The reconcilers interact with three other parties:

- **AKS.** Operations are long-running. The client waits for them unless
  the context expires first. AKS answers 409 to a PUT while another
  operation is in flight.
- **Other writers.** The portal, the CLI and the cluster autoscaler also
  change the resources.
- **The outer controller loop.** It re-runs `Reconcile` on an error and on
  resync.

The token client (`azure/services/token`) and the PEM parser
(`util/crypto`) are stateless I/O helpers.

## Modules

| Module | Models | State | Actions |
|---|---|---|---|
| `Provisioning` | the phases and the lifecycle gate shared by both reconcilers (agentpools.go:145-150, managedclusters.go:292-297) | none | none: it defines `IsTerminal`, `InFlight` |
| `AgentPools` | node-pool `Reconcile` and `Delete` against one remote pool | see below | see below |
| `ManagedClusters` | cluster `Reconcile` and `Delete` against one remote cluster | see below | see below |
| `ServiceCIDR` | the DNS service IP derivation (managedclusters.go:136-149) | `cidr`, the parsed input | none: one state per input |
| `RateLimitEnqueue` | the map-func event handler (enqueue_mapped.go) with client-go's rate-limiting work queue and the controller's workers | see below | see below |
| `WorkSet` | the abstract promise of handler plus queue | `due`, `held` | `Event`, `Take`, `Finish`, `Retry` |
| `GatedReconcile` | the shape of a pass both reconcilers promise (spec sections 4.1 steps 1-5, 4.2, 4.4, 5) | `pc`, `phase`, `observed`, `differs` | `Fetch`, `Start`, `Abandon`, `Return`, `DeleteStart`, `DeleteEnd`, `OpEnd`, `Gone`, `OtherStart` |
| `AgentPoolsProofs`, `ManagedClustersProofs`, `ServiceCIDRProofs`, `RateLimitEnqueueProofs` | TLAPS proofs | | |
| `MC_*` | TLC instances | | |

### `AgentPools`

The state is:

- `desired`: the spec.
- `remote`: the remote pool's `phase`, its stored `props`, the `target`
  of the running operation and who started it (`by`).
- `rpc`: where the reconcile pass is: idle, got, put or deleting.
- `want`: the payload built at the start of the pass.
- `obs`: the snapshot the `Get` returned.
- `result` and `putDone`.
- Bound counters.
- History variables for the properties:
  - `lastPut`: the reconciler's last accepted payload;
  - `fresh`: that payload was sent on a snapshot still current at PUT
    time;
  - `quiet`: it succeeded and nobody touched the pool since.

The payload is abstracted to the fields the diff compares: count,
version, autoscale (min, max and enable together), labels and tags. The
fields the diff ignores cannot be changed after creation.

The spec provider hands out payloads from `DesiredVersions` and
`DesiredLabels`. Either may contain `NilPtr`, which stands for an unset
field. Autoscale `TRUE` means min, max and enable are all set. `FALSE`
means `EnableAutoScaling` is explicitly false, which is a present field
that the service applies. A spec with all three unset is not modelled.

The actions follow the code line by line:

- `GetOk` / `GetErr` (129-132).
- `CreatePath` (138-143).
- `GateReject` (145-150).
- `UpdatePut` / `UpdateNoop` (152-203). These include `TagFix`,
  `ExistingNormalized`, `DesiredNormalized` and `NeedsUpdate`.
- `PutReturn` / `PutTimeout`, the two ways the waiting `CreateOrUpdate`
  ends.
- `DeleteCall` / `DeleteReturn` (207-224).

The remote side is modelled from the spec:

- A PUT is accepted (`SendAccepted`), answered 409 (`SendConflict`) or
  lost in transport (`SendLost`).
- `Apply` gives AKS's PUT semantics:
  - an unset field (version, labels or tags) is left unchanged on update
    and defaulted on create;
  - an empty tag map clears the tags;
  - count and autoscale are always set by the payload.
- Operations end in `RemoteComplete`, `RemoteFail` (Failed or Canceled,
  applied or not) or `RemoteDeleted`.
- The environment acts through `SpecChange`, `Autoscale` and
  `OtherUpdate`.

### `ManagedClusters`

The state is the same as in `AgentPools`, plus:

- `endpoint` and `kubeconfig`, which the scope publishes;
- the remote's `fqdn` and credential generation `creds`.

The payload holds the fields the normaliser compares (lines 299-377):

- the version;
- the SKU tier (`SkuTier`, lines 231-242);
- the load-balancer profile;
- `DisableLocalAccounts`;
- the AAD profile;
- the authorized IP ranges.

Each section is a string, and `"nil"` marks an unset section. `Apply`
gives AKS's PUT semantics through `Applied`. A set field replaces the
stored one. An unset field is left unchanged on update. On create it
takes AKS's default: Free for the SKU, `DefaultLB`, and false for
`DisableLocalAccounts`.

AKS also stores an AAD tenant whenever an AAD profile exists, and the
payload never carries one. `Normalized` copies only the fields the code
copies, so the tenant is dropped. The mutant `NormalizedWithTenant`
shows that copying it would make every pass PUT.

The spec also carries two control inputs:

- whether the service CIDR parses (`BuildErr`, lines 136-142);
- the API server access profile (`Accesses`). AKS reports a public FQDN
  unless the server is private and `EnablePrivateClusterPublicFQDN` is
  unset (`HasPublicFqdn`, lines 277-284). A private cluster without that
  flag has no FQDN. Line 403 then fails every pass, which is the error
  spec section 4.1 step 6 requires.

The actions are:

- `BuildErr`, which also stands for the pool-listing error on the create
  path (lines 99-106).
- `PublishEndpoint` (394-404). It is part of `UpdateNoop` and
  `PutReturn`, as in the code.
- `FetchCredentials` / `CredentialsErr` (406-414).
- `RotateCredentials`, on the environment side.

### `GatedReconcile`

This abstract module states the shape of a pass without payloads. A pass
takes a snapshot (`Fetch`). It then ends without a mutation (`Abandon`),
or makes its one mutating call (`Start`), which later returns (`Return`).
`Start` is allowed only if the snapshot showed no resource, or showed a
mutable phase (Succeeded, Failed, Canceled) and the diff is non-empty.
The API accepts it only while no operation is in flight. `DeleteStart` is
not gated. `OpEnd`, `Gone` and `OtherStart` are the remote service and
other writers. Whether the diff is non-empty (`differs`) is left open at
`Fetch`. The module keeps its own copy of the mutable phases, so a change
to the code's gate shows up as a difference.

Both reconcilers refine it (`ImplementsGatedReconcile == GR!Spec`). The
mapping sends:

- `pc` to `rpc` (for clusters, `cpc`, with the credential step `"creds"`
  counted as idle);
- `phase` to `remote.phase` and `observed` to `obs.phase`;
- `differs` to the pass's own diff: `NeedsUpdate(TagFix(want, obs.props),
  obs.props)` for pools and `NeedsUpdate(BuildCluster(want), obs.props)`
  for clusters.

Under the mapping, `GetOk` is `Fetch`. An accepted `Send` is `Start`.
`GateReject`, `UpdateNoop`, `BuildErr` and a refused or lost `Send` are
`Abandon`. `PutReturn` and `PutTimeout` are `Return`. The credential
steps, spec edits, the autoscaler and credential rotation are stutters.

### `RateLimitEnqueue`

The handler's state is:

- `pending`, the mapped list the running event still has to walk;
- `reqs`, the event's de-duplication map.

The queue's state is:

- `waiting`, the delaying stage;
- `queue`, `dirty` and `processing`;
- `failures`, the rate limiter's per-request count.

The workers' state is `busy`, the request each worker holds. History
variables:

- `owed`: the requests an event mapped that no worker has taken since;
- `added`: the `AddRateLimited` calls of the running event.

The actions:

- `Create`, `Delete` and `Generic` (lines 47-70) start an event with a
  fresh map.
- `Update` (53-58) walks the old object's list and then the new one's with
  one map.
- `MapAndEnqueue` (72-81) is one loop iteration. The handler walks its list
  step by step while the workers run.

The queue is client-go's, modelled from its documentation because it is not
in this repository:

- `AddRateLimited` puts the request in the delaying stage and counts a
  failure.
- `Ready` ends the delay with `Add`. `Add` does nothing for a dirty
  request, and queues a request only if no worker holds it.
- `Get` pops the head.
- `Done` re-queues a request that was added during its reconcile.
- `ReconcileOk` is Forget then Done; `ReconcileErr` is AddRateLimited then
  Done.

`WorkSet` states what handler and queue promise, without the queue's
internals:

- an event makes the requests of its objects due;
- a worker takes a due request no other worker holds;
- a failed reconcile makes its request due again.

`RateLimitEnqueue` refines it (`ImplementsWorkSet == WS!Spec`). The mapping
is `due <- waiting \cup dirty \cup (Range(pending) \ reqs)` and
`held <- busy`. Under it:

- a handler step is an `Event`, or a stutter while the list is walked;
- `Ready` is a stutter;
- `Get` is a `Take`;
- `ReconcileOk` is a `Finish`;
- `ReconcileErr` is a `Retry`.

## Runs

| Run | Expect | Properties | What it shows |
|---|---|---|---|
| `ap_converge` | pass | `TypeOK`, `SecondPassIsNoop`, `EventuallyConverged`, `ImplementsGatedReconcile` | With the version and the labels set, a pass after the reconciler's own successful PUT is a no-op. The pool converges once the environment stops. Every pass has the shape of `GatedReconcile`. |
| `ap_mutation_in_flight` | violation | `NoMutationInFlight` | The gate reads the phase once, so a PUT can hit another writer's operation. |
| `ap_autoscaler_count` | violation | `AutoscalerOwnsCount` | An update PUT sends the spec's Replicas on an autoscaled pool. |
| `ap_unset_version` | violation | `SecondPassIsNoop` | With an unset version, every pass PUTs. |
| `ap_label_removal` | violation | `SecondPassIsNoop` | When the spec drops its labels, the payload leaves `NodeLabels` unset and AKS keeps the old ones. The diff never clears, so every pass PUTs. Unlike tags, labels have no explicit empty map. |
| `mc_publish` | pass | `TypeOK`, `SecondPassIsNoop`, `EventuallyPublished`, `ImplementsGatedReconcile` | A public cluster with a SKU, `DisableLocalAccounts`, an AAD profile and IP ranges converges. The second pass is a no-op, although AKS stores an AAD tenant. The cluster ends with the endpoint and its current kubeconfig published, including after credential rotation. Every pass has the shape of `GatedReconcile`. |
| `mc_unset_sku` | violation | `SecondPassIsNoop` | With no SKU in the spec, every pass PUTs. |
| `mc_private_public_fqdn` | pass | `EventuallyPublished` | A private cluster with `EnablePrivateClusterPublicFQDN` gets a public FQDN, and its endpoint and current kubeconfig are published. |
| `dns_short_prefix` | pass | `DNSIPInServiceCIDR` | For /0 to /24, the derived DNS IP is in the CIDR. |
| `rl_no_lost_event` | pass | `OwedIsQueued`, `OneBackoffStepPerEvent`, `EventuallyReconciled`, `ImplementsWorkSet` | No mapped request is lost, including one only the old object of an update maps to. Each event adds a request rate-limited at most once. Every mapped request is eventually reconciled, including one re-added during its reconcile. Handler and queue implement `WorkSet`. |
| `dns_long_prefix` | violation | `DNSIPInServiceCIDR` | For longer prefixes it may not be. 10.0.0.0/29 gives 10.0.0.10. |

The findings in `PROJECT.json` describe each violation against the spec
and the code comments.

**Bounds.**

- `MaxEnv = 2` environment steps are enough for two interleavings:
  - a spec edit or autoscaler step followed by another writer's
    operation;
  - a rotation after convergence.
- `MaxFail = 1` gives one failed operation or lost call.
- `MaxDel = 1` gives one `Delete` call, with its 404 and its
  wait-then-timeout paths.
- Two counts and one tag map exercise the autoscaler branch, the count
  diff and tag removal.
- Two versions and two SKU strings exercise version upgrades and the
  tier mapping. "Standard" is a free-form tier that the code maps to
  Free.

- For the rate-limited handler:
  - `o1` maps to `<<r1>>` and `o2` to `<<r1, r2>>`. An update from
    `o2` to `o1` therefore has a request only the old object maps to, and
    a request both map to.
  - Two workers can race for one request.
  - `MaxEvents = 3` lets an event arrive while its request is held.
  - `MaxErrors = 1` gives a retry.

Every mutant in `PROJECT.json` is caught within these bounds.

**Fairness.**

- Weak fairness on `GetOk`, `Decide`, `PutReturn`, `FetchCredentials` and
  `DeleteReturn` models the controller loop. It requeues every object on
  error and on resync, and a pass that started runs on.
- Weak fairness on `RemoteComplete` and `RemoteDeleted` is the assumption
  that AKS finishes what it starts.
- In `RateLimitEnqueue`, weak fairness is assumed on:
  - `MapAndEnqueue`: the handler's loop runs to its end;
  - `Ready`: a delay expires;
  - `Get` and `ReconcileOk`: the workers loop on the queue, and a
    reconcile ends.

  There is no fairness on `ReconcileErr` and none on new events. The run
  disables the deadlock check, because the controller idles once every
  event is handled and the queue is empty.
- There is no fairness on failures, timeouts or environment steps. These
  may happen, but the model never forces them.

## Proofs

- **`AgentPoolsProofs!TypeCorrect`** proves `Spec => []TypeOK`. The lemmas
  `ApplyType` and `TagFixType` show that AKS's stored properties and the
  tag-fixed payload stay in their domains.
- **`AgentPoolsProofs!Idempotence`** proves `Spec => []SecondPassIsNoop`,
  assuming `DesiredVersions \subseteq Versions` (the version is always
  set) and that labels are always set or no label map exists
  (`NilPtr \notin DesiredLabels \/ LabelVals = {}`). The runs
  `ap_unset_version` and `ap_label_removal` show that the property fails
  without each assumption. `SecondPassIsNoop` is not inductive as it stands. The
  inductive invariant is `TypeOK /\ IInv`, which says:
  - (a) an operation the reconciler started on a fresh snapshot targets a
    fixed point of its own diff;
  - (b) while `quiet`, the pool is Succeeded at that fixed point;
  - (c) a snapshot taken while quiet shows it.

  The key lemma is `PutReachesFixedPoint`. Whatever AKS stores for a
  create payload, and for a tag-fixed update payload on any existing
  pool, the diff against the same spec is empty. The tag fix is needed
  for this: without it, removed tags stay.
- **`ManagedClustersProofs!TypeCorrect`** proves `Spec => []TypeOK` for the
  cluster model. `TypeOK` alone is not inductive: `RotateCredentials`
  raises the credential generation under the bound on environment steps.
  The inductive form adds `remote.creds <= env`.
- **`ManagedClustersProofs!Idempotence`** proves `Spec => []SecondPassIsNoop`
  for clusters. It assumes `SectionsPinned`:
  - the spec always names every section AKS would default: SKU, load
    balancer and `DisableLocalAccounts`;
  - it names its AAD profile always or never, and likewise its IP
    ranges.

  The `mc_unset_sku` run shows that the property fails without the SKU
  part. The strengthening has the same three parts (a)-(c) as for pools.
  The key lemma `PutReachesFixedPoint` is proved field by field. AKS
  stores each named section as sent. The only field it adds is the AAD
  tenant, and `Normalized` drops it. So the diff against the same spec is
  empty.
- **`AgentPoolsProofs!GatedRefinement`** and
  **`ManagedClustersProofs!GatedRefinement`** prove
  `Spec => ImplementsGatedReconcile`. `Init` maps to `GR!Init`. The lemma
  `GatedStep` shows that every step maps to a `GatedReconcile` step or a
  stutter. It uses only `TypeOK`, to read the phase out of the remote
  record after an `EXCEPT`. `SendStep` handles the accepted, refused and
  lost call in one place. `GateSets` says the code's gate and in-flight
  sets are the abstract ones.
- **`AgentPoolsProofs!AutoscaleIgnoresCount`, `LabelDiffUpdates` and
  `TagClearing`** prove three of spec section 8's testable properties of
  the diff normaliser and the tag fix. They hold for every payload and
  every pool, not only the few a unit test builds.
- **`ServiceCIDRProofs!ShortPrefixDNSIPInCIDR`** proves that for prefixes
  of at most 24 bits every bit of the prefix lies in octets 1-3. The code
  does not touch those octets.

- **`RateLimitEnqueueProofs`** proves three theorems.
  - `NoLostEvent` is `Spec => []OwedIsQueued`. It holds through the
    inductive `QInv`: a request owed only through the handler's list has
    not been added for this event yet.
  - `Refinement` is `Spec => ImplementsWorkSet`. Each step maps to a
    `WorkSet` step or a stutter. This rests on the inductive `QueueInv`:
    - the queue holds dirty requests that no worker holds, each once;
    - `processing` is exactly what the workers hold;
    - no two workers hold one request (`OneHolder`). `WorkSet`'s `Take`
      needs this.
  - `OneBackoffPerEvent` is `Spec => []OneBackoffStepPerEvent`. The bound
    `added[r] <= 1` is not inductive: a second `MapAndEnqueue` of the same
    request would break it unless the map already records the request. The
    inductive `BackoffInv` says the event's call count of a request is 1
    when the request is in the de-duplication map and 0 otherwise. TLC
    checked `BackoffInv` on the `rl_no_lost_event` instance first.

  They rest on lemmas about `Range` of `Append`, `Tail` and `\o`.

Only TLC checks the following:

- the liveness properties (`EventuallyConverged`, `EventuallyPublished`,
  `EventuallyReconciled`),
  because the prover does not handle fairness and ENABLED;
- the violations.

## Not modelled

- **`InjectFunc`** (enqueue_mapped.go:85-91) only forwards the map
  function to the injector.
- **The rate limiter's delay** is not modelled. Only the failure count is
  kept, and any delay may expire in any order.
- **The token client and PEM parsing** are pure I/O and decoding.
- **The gomock mock** is generated test code.
- **Cluster tags are not modelled.** The diff ignores them.
- **Removing a cluster section is not checked.** This means dropping
  `DisableLocalAccounts`, the AAD profile or the IP ranges from the spec.
  It is the same class of problem as `ap_label_removal`, and
  `SectionsPinned` excludes it from the proof.
- **A nil `ProvisioningState` is not modelled.** The code dereferences it
  at agentpools.go:145 and managedclusters.go:292, but the remote model
  always reports a phase.

## Plan for later work

- Compose the cluster and pool reconcilers. Pools are embedded at create
  and owned by the pool reconciler afterwards.
- Extend `GatedReconcile` with the pass's result (the error taxonomy of
  spec section 7). Then a gate that refuses a mutable phase would show up
  as a difference, and not only a gate that lets an in-flight phase
  through. Today both a gate refusal and a refused call are `Abandon`.
