------------------------- MODULE ManagedClustersProofs -------------------------
(***************************************************************************)
(* Proofs about ManagedClusters, for every value of the constants.         *)
(***************************************************************************)
EXTENDS ManagedClusters, TLAPS

\* What AKS stores for a payload built from a spec is a remote cluster again.
LEMMA ApplyType ==
    ASSUME ConstAssumption,
           NEW s \in Specs, NEW e \in Props, NEW creating \in BOOLEAN
    PROVE  Apply(BuildCluster(s), e, creating) \in Props
<1> DEFINE c == BuildCluster(s)
           aad == Applied(c.aad, e.aad, NilPtr, creating)
           a == Apply(c, e, creating)
<1>1. /\ c.version = s.version /\ c.sku = SkuTier(s.sku) /\ c.lb = s.lb
      /\ c.dla = s.dla /\ c.aad = s.aad /\ c.ranges = s.access.ranges
  BY DEF BuildCluster
<1>2. a = [version |-> c.version,
           sku |-> Applied(c.sku, e.sku, "Free", creating),
           lb |-> Applied(c.lb, e.lb, DefaultLB, creating),
           dla |-> Applied(c.dla, e.dla, "false", creating),
           aad |-> aad,
           tenant |-> IF aad = NilPtr THEN NilPtr ELSE AKSTenant,
           ranges |-> Applied(c.ranges, e.ranges, NilPtr, creating)]
  BY DEF Apply
<1>3. Applied(c.sku, e.sku, "Free", creating) \in {"Free", "Paid"}
  BY <1>1 DEF Applied, SkuTier, Props, NilPtr
<1>4. Applied(c.lb, e.lb, DefaultLB, creating) \in (LBProfiles \cup {DefaultLB}) \ {NilPtr}
  BY <1>1 DEF Applied, Specs, Props
<1>5. Applied(c.dla, e.dla, "false", creating) \in {IF d = NilPtr THEN "false" ELSE d : d \in DLAs}
  <2> DEFINE D == {IF d = NilPtr THEN "false" ELSE d : d \in DLAs}
  <2>1. s.dla \in DLAs /\ e.dla \in D
    BY DEF Specs, Props
  <2>2. CASE s.dla # NilPtr
    <3>1. s.dla = IF s.dla = NilPtr THEN "false" ELSE s.dla
      BY <2>2
    <3>2. QED
      BY <1>1, <2>1, <2>2, <3>1 DEF Applied
  <2>3. CASE s.dla = NilPtr /\ creating
    <3>1. "false" = IF s.dla = NilPtr THEN "false" ELSE s.dla
      BY <2>3
    <3>2. QED
      BY <1>1, <2>1, <2>3, <3>1 DEF Applied
  <2>4. CASE s.dla = NilPtr /\ ~creating
    BY <1>1, <2>1, <2>4 DEF Applied
  <2>5. QED
    BY <2>2, <2>3, <2>4
<1>6. aad \in AADs
  <2>1. s.aad \in AADs /\ e.aad \in AADs
    BY DEF Specs, Props
  <2>2. QED
    BY <1>1, <2>1 DEF Applied
<1>7. Applied(c.ranges, e.ranges, NilPtr, creating) \in {x.ranges : x \in Accesses}
  <2>1. s.access \in Accesses /\ e.ranges \in {x.ranges : x \in Accesses}
    BY DEF Specs, Props
  <2>2. QED
    BY <1>1, <2>1 DEF Applied
<1>8. a \in [version : Versions, sku : {"Free", "Paid"},
              lb : (LBProfiles \cup {DefaultLB}) \ {NilPtr},
              dla : {IF d = NilPtr THEN "false" ELSE d : d \in DLAs},
              aad : AADs, tenant : {NilPtr, AKSTenant},
              ranges : {x.ranges : x \in Accesses}]
  <2>1. c.version \in Versions
    BY <1>1 DEF Specs
  <2>2. QED
    BY <1>2, <1>3, <1>4, <1>5, <1>6, <1>7, <2>1
<1>9. a.tenant = IF a.aad = NilPtr THEN NilPtr ELSE AKSTenant
  BY <1>2
<1>10. QED
  BY <1>8, <1>9 DEF Props

LEMMA NoPropsType == ConstAssumption => NoProps \in Props
<1> SUFFICES ASSUME ConstAssumption PROVE \E p \in Props : TRUE
  BY DEF NoProps
<1>1. PICK v \in Versions : TRUE
  OBVIOUS
<1>2. PICK d \in DLAs : TRUE
  OBVIOUS
<1>3. PICK x \in AADs : TRUE
  OBVIOUS
<1>4. PICK y \in Accesses : TRUE
  OBVIOUS
<1>5. [version |-> v, sku |-> "Free", lb |-> DefaultLB,
       dla |-> IF d = NilPtr THEN "false" ELSE d, aad |-> x,
       tenant |-> IF x = NilPtr THEN NilPtr ELSE AKSTenant,
       ranges |-> y.ranges] \in Props
  BY <1>1, <1>2, <1>3, <1>4 DEF Props
<1>6. QED
  BY <1>5

\* The strengthening TypeOK needs: credentials rotate only on environment
\* steps, so their generation never passes the environment's count.
TypeInv == TypeOK /\ remote.creds <= env

\* The remote cluster and the snapshot, as TypeOK states them.
RemoteT == [phase : Phases \cup {Absent}, props : Props, target : Props,
            by : {"rec", "other"}, fqdn : BOOLEAN, creds : 0..MaxEnv]
ObsT == [phase : Phases \cup {Absent}, props : Props, fqdn : BOOLEAN, quiet : BOOLEAN]

\* Every step keeps the types.
LEMMA TypeStep == TypeInv /\ [Next]_vars => TypeInv'
<1> USE ConstAssumption DEF RemoteT, ObsT
<1> SUFFICES ASSUME TypeInv, [Next]_vars PROVE TypeInv'
  OBVIOUS
<1>1. ASSUME NEW c, c = BuildCluster(want), SendAccepted(c),
             UNCHANGED <<desired, want, obs, endpoint, kubeconfig, env, dels>>
      PROVE  TypeInv'
  <2>0. Apply(c, remote.props, remote.phase = Absent) \in Props
    BY <1>1, ApplyType DEF TypeInv, TypeOK
  <2>1. remote' \in RemoteT /\ remote'.creds <= env'
        /\ cpc' \in {"idle", "got", "put", "creds", "deleting"}
        /\ putDone' \in {"pending", "ok", "err"}
        /\ lastPut' \in Specs
        /\ quiet' \in BOOLEAN
        /\ fresh' \in BOOLEAN
    BY <1>1, <2>0 DEF SendAccepted, HasPublicFqdn, Phases, TypeInv, TypeOK
  <2>2. UNCHANGED <<desired, want, obs, result, endpoint, kubeconfig, env, fails, dels>>
    BY <1>1 DEF SendAccepted, Phases
  <2>3. QED
    BY <2>1, <2>2 DEF TypeInv, TypeOK
<1>2. ASSUME SendConflict,
             UNCHANGED <<desired, want, obs, endpoint, kubeconfig, env, dels>>
      PROVE  TypeInv'
  <2>1. cpc' \in {"idle", "got", "put", "creds", "deleting"}
        /\ result' \in {"none", "ok", "err"}
    BY <1>2 DEF SendConflict, Ghost, TypeInv, TypeOK
  <2>2. UNCHANGED <<desired, remote, want, obs, putDone, endpoint, kubeconfig, lastPut, quiet, fresh, env, fails, dels>>
    BY <1>2 DEF SendConflict, Ghost
  <2>3. QED
    BY <2>1, <2>2 DEF TypeInv, TypeOK
<1>3. ASSUME SendLost,
             UNCHANGED <<desired, want, obs, endpoint, kubeconfig, env, dels>>
      PROVE  TypeInv'
  <2>1. cpc' \in {"idle", "got", "put", "creds", "deleting"}
        /\ result' \in {"none", "ok", "err"}
        /\ fails' \in 0..MaxFail
    BY <1>3 DEF SendLost, Ghost, TypeInv, TypeOK
  <2>2. UNCHANGED <<desired, remote, want, obs, putDone, endpoint, kubeconfig, lastPut, quiet, fresh, env, dels>>
    BY <1>3 DEF SendLost, Ghost
  <2>3. QED
    BY <2>1, <2>2 DEF TypeInv, TypeOK
<1>4. CASE CreatePath \/ UpdatePut
  BY <1>4, <1>1, <1>2, <1>3 DEF CreatePath, UpdatePut, Send
<1>5. CASE GetErr
  <2>1. result' \in {"none", "ok", "err"}
    BY <1>5 DEF GetErr, Ghost, Bounds, TypeInv, TypeOK
  <2>2. UNCHANGED <<desired, remote, cpc, want, obs, putDone, endpoint, kubeconfig, lastPut, quiet, fresh, env, fails, dels>>
    BY <1>5 DEF GetErr, Ghost, Bounds
  <2>3. QED
    BY <2>1, <2>2 DEF TypeInv, TypeOK
<1>6. CASE GetOk
  <2>1. cpc' \in {"idle", "got", "put", "creds", "deleting"}
        /\ want' \in Specs
        /\ obs' \in ObsT
    BY <1>6 DEF GetOk, Ghost, Bounds, TypeInv, TypeOK
  <2>2. UNCHANGED <<desired, remote, result, putDone, endpoint, kubeconfig, lastPut, quiet, fresh, env, fails, dels>>
    BY <1>6 DEF GetOk, Ghost, Bounds
  <2>3. QED
    BY <2>1, <2>2 DEF TypeInv, TypeOK
<1>7. CASE BuildErr
  <2>1. cpc' \in {"idle", "got", "put", "creds", "deleting"}
        /\ result' \in {"none", "ok", "err"}
        /\ fails' \in 0..MaxFail
    BY <1>7 DEF BuildErr, Ghost, TypeInv, TypeOK
  <2>2. UNCHANGED <<desired, remote, want, obs, putDone, endpoint, kubeconfig, lastPut, quiet, fresh, env, dels>>
    BY <1>7 DEF BuildErr, Ghost
  <2>3. QED
    BY <2>1, <2>2 DEF TypeInv, TypeOK
<1>8. CASE GateReject \/ PutTimeout \/ DeleteReturn
  <2>1. cpc' \in {"idle", "got", "put", "creds", "deleting"}
        /\ result' \in {"none", "ok", "err"}
    BY <1>8 DEF GateReject, PutTimeout, DeleteReturn, Ghost, Bounds, TypeInv, TypeOK
  <2>2. UNCHANGED <<desired, remote, want, obs, putDone, endpoint, kubeconfig, lastPut, quiet, fresh, env, fails, dels>>
    BY <1>8 DEF GateReject, PutTimeout, DeleteReturn, Ghost, Bounds
  <2>3. QED
    BY <2>1, <2>2 DEF TypeInv, TypeOK
<1>9. CASE UpdateNoop \/ PutReturn
  <2>1. cpc' \in {"idle", "got", "put", "creds", "deleting"}
        /\ result' \in {"none", "ok", "err"}
        /\ endpoint' \in BOOLEAN
    BY <1>9 DEF UpdateNoop, PutReturn, PublishEndpoint, Ghost, Bounds, TypeInv, TypeOK
  <2>2. UNCHANGED <<desired, remote, want, obs, putDone, kubeconfig, lastPut, quiet, fresh, env, fails, dels>>
    BY <1>9 DEF UpdateNoop, PutReturn, PublishEndpoint, Ghost, Bounds
  <2>3. QED
    BY <2>1, <2>2 DEF TypeInv, TypeOK
<1>10. CASE FetchCredentials
  <2>1. cpc' \in {"idle", "got", "put", "creds", "deleting"}
        /\ result' \in {"none", "ok", "err"}
        /\ kubeconfig' \in -1..MaxEnv
    BY <1>10 DEF FetchCredentials, Ghost, Bounds, TypeInv, TypeOK
  <2>2. UNCHANGED <<desired, remote, want, obs, putDone, endpoint, lastPut, quiet, fresh, env, fails, dels>>
    BY <1>10 DEF FetchCredentials, Ghost, Bounds
  <2>3. QED
    BY <2>1, <2>2 DEF TypeInv, TypeOK
<1>11. CASE CredentialsErr
  <2>1. cpc' \in {"idle", "got", "put", "creds", "deleting"}
        /\ result' \in {"none", "ok", "err"}
        /\ fails' \in 0..MaxFail
    BY <1>11 DEF CredentialsErr, Ghost, TypeInv, TypeOK
  <2>2. UNCHANGED <<desired, remote, want, obs, putDone, endpoint, kubeconfig, lastPut, quiet, fresh, env, dels>>
    BY <1>11 DEF CredentialsErr, Ghost
  <2>3. QED
    BY <2>1, <2>2 DEF TypeInv, TypeOK
<1>12. CASE DeleteCall
  <2>1. remote' \in RemoteT /\ remote'.creds <= env'
        /\ cpc' \in {"idle", "got", "put", "creds", "deleting"}
        /\ result' \in {"none", "ok", "err"}
        /\ quiet' \in BOOLEAN
        /\ dels' \in 0..MaxDel
    <3>1. dels < MaxDel /\ dels' = dels + 1 /\ UNCHANGED env
      BY <1>12 DEF DeleteCall
    <3>2. CASE remote.phase = Absent
      BY <1>12, <3>1, <3>2 DEF DeleteCall, TypeInv, TypeOK
    <3>3. CASE remote.phase # Absent
      <4>0. remote' = [remote EXCEPT !.phase = "Deleting", !.by = "rec"]
        BY <1>12, <3>3 DEF DeleteCall
      <4>1. cpc' = "deleting" /\ quiet' = FALSE /\ result' = result
        BY <1>12, <3>3 DEF DeleteCall
      <4>2. remote' \in RemoteT /\ remote'.creds = remote.creds
        <5>1. remote \in RemoteT /\ "Deleting" \in Phases \cup {Absent}
          BY DEF TypeInv, TypeOK, Phases
        <5>2. QED
          BY <4>0, <5>1
      <4>3. remote.creds <= env /\ dels \in 0..MaxDel /\ result \in {"none", "ok", "err"}
        BY DEF TypeInv, TypeOK
      <4>4. remote'.creds <= env'
        BY <3>1, <4>2, <4>3
      <4>5. cpc' \in {"idle", "got", "put", "creds", "deleting"}
            /\ result' \in {"none", "ok", "err"} /\ quiet' \in BOOLEAN
        BY <4>1, <4>3
      <4>6. dels' \in 0..MaxDel
        BY <3>1, <4>3
      <4>7. QED
        BY <4>2, <4>4, <4>5, <4>6
    <3>4. QED
      BY <3>2, <3>3
  <2>2. UNCHANGED <<desired, want, obs, putDone, endpoint, kubeconfig, lastPut, fresh, env, fails>>
    BY <1>12 DEF DeleteCall, Phases
  <2>3. QED
    BY <2>1, <2>2 DEF TypeInv, TypeOK
<1>13. CASE RemoteComplete
  <2>1. remote' \in RemoteT /\ remote'.creds <= env'
        /\ putDone' \in {"pending", "ok", "err"}
        /\ quiet' \in BOOLEAN
    BY <1>13 DEF RemoteComplete, Bounds, Phases, TypeInv, TypeOK
  <2>2. UNCHANGED <<desired, cpc, want, obs, result, endpoint, kubeconfig, lastPut, fresh, env, fails, dels>>
    BY <1>13 DEF RemoteComplete, Bounds, Phases
  <2>3. QED
    BY <2>1, <2>2 DEF TypeInv, TypeOK
<1>14. CASE RemoteFail
  <2>1. remote' \in RemoteT /\ remote'.creds <= env'
        /\ putDone' \in {"pending", "ok", "err"}
        /\ quiet' \in BOOLEAN
        /\ fails' \in 0..MaxFail
    <3>1. PICK ph \in {"Failed", "Canceled"}, pr \in {remote.props, remote.target} :
            remote' = [remote EXCEPT !.phase = ph, !.props = pr]
      BY <1>14 DEF RemoteFail
    <3>2. remote' \in RemoteT /\ remote'.creds = remote.creds
      <4>1. remote \in RemoteT
        BY DEF TypeInv, TypeOK
      <4>2. ph \in Phases \cup {Absent} /\ pr \in Props
        BY <4>1 DEF Phases
      <4>3. QED
        BY <3>1, <4>1, <4>2
    <3>3. env' = env
      BY <1>14 DEF RemoteFail
    <3>4. remote.creds <= env /\ fails \in 0..MaxFail
      BY DEF TypeInv, TypeOK
    <3>5. /\ fails < MaxFail /\ fails' = fails + 1 /\ quiet' = FALSE
          /\ putDone' = IF remote.by = "rec" THEN "err" ELSE putDone
      BY <1>14 DEF RemoteFail
    <3>6. putDone \in {"pending", "ok", "err"}
      BY DEF TypeInv, TypeOK
    <3>7. remote'.creds <= env'
      BY <3>2, <3>3, <3>4
    <3>8. putDone' \in {"pending", "ok", "err"} /\ quiet' \in BOOLEAN
      BY <3>5, <3>6
    <3>10. fails' \in 0..MaxFail
      BY <3>4, <3>5
    <3>9. QED
      BY <3>2, <3>7, <3>8, <3>10
  <2>2. UNCHANGED <<desired, cpc, want, obs, result, endpoint, kubeconfig, lastPut, fresh, env, dels>>
    BY <1>14 DEF RemoteFail, Phases
  <2>3. QED
    BY <2>1, <2>2 DEF TypeInv, TypeOK
<1>15. CASE RemoteDeleted
  <2>1. remote' \in RemoteT /\ remote'.creds <= env'
    BY <1>15, NoPropsType DEF RemoteDeleted, Ghost, Bounds, TypeInv, TypeOK
  <2>2. UNCHANGED <<desired, cpc, want, obs, result, putDone, endpoint, kubeconfig, lastPut, quiet, fresh, env, fails, dels>>
    BY <1>15 DEF RemoteDeleted, Ghost, Bounds
  <2>3. QED
    BY <2>1, <2>2 DEF TypeInv, TypeOK
<1>16. CASE SpecChange
  <2>1. desired' \in Specs
        /\ env' \in 0..MaxEnv
        /\ remote.creds <= env'
    BY <1>16 DEF SpecChange, Ghost, TypeInv, TypeOK
  <2>2. UNCHANGED <<remote, cpc, want, obs, result, putDone, endpoint, kubeconfig, lastPut, quiet, fresh, fails, dels>>
    BY <1>16 DEF SpecChange, Ghost
  <2>3. QED
    BY <2>1, <2>2 DEF TypeInv, TypeOK
<1>17. CASE RotateCredentials
  <2>1. remote' \in RemoteT /\ remote'.creds <= env'
        /\ env' \in 0..MaxEnv
    BY <1>17 DEF RotateCredentials, Ghost, TypeInv, TypeOK
  <2>2. UNCHANGED <<desired, cpc, want, obs, result, putDone, endpoint, kubeconfig, lastPut, quiet, fresh, fails, dels>>
    BY <1>17 DEF RotateCredentials, Ghost
  <2>3. QED
    BY <2>1, <2>2 DEF TypeInv, TypeOK
<1>18. CASE OtherUpdate
  <2>1. remote' \in RemoteT /\ remote'.creds <= env'
        /\ quiet' \in BOOLEAN
        /\ env' \in 0..MaxEnv
    <3>1. PICK t \in Props :
            remote' = [remote EXCEPT !.phase = "Updating", !.target = t, !.by = "other"]
      BY <1>18 DEF OtherUpdate
    <3>2. remote' \in RemoteT /\ remote'.creds = remote.creds
      <4>1. remote \in RemoteT /\ "Updating" \in Phases \cup {Absent}
        BY DEF TypeInv, TypeOK, Phases
      <4>2. QED
        BY <3>1, <4>1
    <3>3. env < MaxEnv /\ env' = env + 1
      BY <1>18 DEF OtherUpdate
    <3>4. remote.creds <= env /\ env \in 0..MaxEnv
      BY DEF TypeInv, TypeOK
    <3>5. quiet' = FALSE
      BY <1>18 DEF OtherUpdate
    <3>6. remote'.creds <= env' /\ env' \in 0..MaxEnv
      BY <3>2, <3>3, <3>4
    <3>7. QED
      BY <3>2, <3>5, <3>6
  <2>2. UNCHANGED <<desired, cpc, want, obs, result, putDone, endpoint, kubeconfig, lastPut, fresh, fails, dels>>
    BY <1>18 DEF OtherUpdate, Phases
  <2>3. QED
    BY <2>1, <2>2 DEF TypeInv, TypeOK
<1>19. CASE UNCHANGED vars
  BY <1>19 DEF vars, TypeInv, TypeOK
<1>20. QED
  BY <1>4, <1>5, <1>6, <1>7, <1>8, <1>9, <1>10, <1>11, <1>12, <1>13, <1>14,
     <1>15, <1>16, <1>17, <1>18, <1>19
     DEF Next, Reconciler, Decide, Remote, Environment

\* The type invariant of the cluster model.
THEOREM TypeCorrect == Spec => []TypeOK
<1>1. Init => TypeInv
  <2> SUFFICES ASSUME Init PROVE TypeInv
    OBVIOUS
  <2>1. NoProps \in Props
    BY NoPropsType, ConstAssumption
  <2>2. remote \in RemoteT /\ remote.creds = 0
    BY <2>1, ConstAssumption DEF Init, RemoteT
  <2>3. obs \in ObsT
    BY <2>1, ConstAssumption DEF Init, ObsT
  <2>4. /\ desired \in Specs /\ want \in Specs /\ lastPut \in Specs
        /\ kubeconfig \in -1..MaxEnv /\ env = 0
        /\ env \in 0..MaxEnv /\ fails \in 0..MaxFail /\ dels \in 0..MaxDel
        /\ cpc = "idle" /\ result = "none" /\ putDone = "ok"
        /\ endpoint = FALSE /\ quiet = FALSE /\ fresh = FALSE
    BY ConstAssumption DEF Init
  <2>5. TypeOK
    BY <2>2, <2>3, <2>4, Zenon DEF TypeOK, RemoteT, ObsT
  <2>6. QED
    BY <2>2, <2>4, <2>5 DEF TypeInv
<1>2. QED
  BY <1>1, TypeStep, PTL DEF Spec, TypeInv

-----------------------------------------------------------------------------
(* Idempotence.                                                            *)

\* The diff of the spec p against remote properties e finds nothing.
FixedPoint(p, e) == ~NeedsUpdate(BuildCluster(p), e)

\* What the idempotence of the cluster reconciler rests on: the spec names
\* every section AKS would otherwise default (SKU, load balancer,
\* DisableLocalAccounts), and names the AAD profile and the authorized IP
\* ranges always or never; AKS keeps a section a PUT leaves unset.
SectionsPinned ==
    /\ NilPtr \notin SkuTiers /\ NilPtr \notin LBProfiles /\ NilPtr \notin DLAs
    /\ NilPtr \notin AADs \/ AADs = {NilPtr}
    /\ \/ \A a \in Accesses : a.ranges # NilPtr
       \/ \A a \in Accesses : a.ranges = NilPtr

\* Key lemma: under SectionsPinned, what AKS stores for the payload built
\* from a spec, on create or on update, is a fixed point of the
\* reconciler's own diff: the tenant AKS adds is what the normaliser drops.
LEMMA PutReachesFixedPoint ==
    ASSUME SectionsPinned, NEW p \in Specs, NEW e \in Props, NEW creating \in BOOLEAN
    PROVE  FixedPoint(p, Apply(BuildCluster(p), e, creating))
<1> DEFINE c == BuildCluster(p)
           a == Apply(c, e, creating)
<1>1. /\ c.version = p.version /\ c.sku = SkuTier(p.sku) /\ c.lb = p.lb
      /\ c.dla = p.dla /\ c.aad = p.aad /\ c.ranges = p.access.ranges
  BY DEF BuildCluster
<1>2. /\ a.version = c.version
      /\ a.sku = Applied(c.sku, e.sku, "Free", creating)
      /\ a.lb = Applied(c.lb, e.lb, DefaultLB, creating)
      /\ a.dla = Applied(c.dla, e.dla, "false", creating)
      /\ a.aad = Applied(c.aad, e.aad, NilPtr, creating)
      /\ a.ranges = Applied(c.ranges, e.ranges, NilPtr, creating)
  BY DEF Apply
<1>3. c.sku # NilPtr /\ c.lb # NilPtr /\ c.dla # NilPtr
  BY <1>1 DEF SectionsPinned, Specs, SkuTier, NilPtr
<1>4. a.aad = c.aad
  <2>1. p.aad \in AADs /\ e.aad \in AADs
    BY DEF Specs, Props
  <2>2. QED
    BY <1>1, <1>2, <2>1 DEF SectionsPinned, Applied
<1>5. a.ranges = c.ranges
  <2>1. p.access \in Accesses /\ e.ranges \in {x.ranges : x \in Accesses}
    BY DEF Specs, Props
  <2>2. QED
    BY <1>1, <1>2, <2>1 DEF SectionsPinned, Applied
<1>6. Normalized(a) = Normalized(c)
  BY <1>2, <1>3, <1>4, <1>5 DEF Normalized, Applied
<1>7. QED
  BY <1>6 DEF FixedPoint, NeedsUpdate

\* The inductive strengthening of SecondPassIsNoop, on top of TypeOK.
\* (a) the reconciler's own operation, sent on a fresh snapshot, targets a
\*     fixed point of its last payload;
IInvA == (remote.phase \in {"Creating", "Updating"} /\ remote.by = "rec" /\ fresh)
             => FixedPoint(lastPut, remote.target)
\* (b) while quiet, the cluster sits at that fixed point;
IInvB == quiet => (remote.phase = "Succeeded" /\ FixedPoint(lastPut, remote.props))
\* (c) and a snapshot taken while quiet shows it.
IInvC == (cpc = "got" /\ obs.quiet)
             => (obs.phase = "Succeeded" /\ FixedPoint(lastPut, obs.props))
IInv == IInvA /\ IInvB /\ IInvC

\* The steps that leave every variable IInv reads unchanged and move the
\* reconciler to no "got" it was not in already.
LEMMA IInvFrame ==
    ASSUME IInv,
           UNCHANGED <<obs, lastPut, quiet, fresh>>,
           remote'.phase = remote.phase, remote'.props = remote.props,
           remote'.target = remote.target, remote'.by = remote.by,
           cpc' = cpc \/ cpc' # "got"
    PROVE  IInv'
BY DEF IInv, IInvA, IInvB, IInvC

\* Idempotence (SecondPassIsNoop) for every instance satisfying
\* SectionsPinned: a pass after the reconciler's own successful PUT, on a
\* snapshot nobody changed since, passes the gate (line 292) and finds no
\* diff (line 380), although AKS stored an AAD tenant the payload lacks.
THEOREM Idempotence ==
    ASSUME SectionsPinned
    PROVE  Spec => []SecondPassIsNoop
<1>1. Init => IInv
  BY DEF Init, IInv, IInvA, IInvB, IInvC, Absent
<1>2. TypeOK /\ IInv /\ [Next]_vars => IInv'
  <2> SUFFICES ASSUME TypeOK, IInv, [Next]_vars PROVE IInv'
    OBVIOUS
  <2>1. CASE GetOk
    BY <2>1 DEF GetOk, Ghost, IInv, IInvA, IInvB, IInvC
  <2>2. CASE GetErr \/ BuildErr \/ GateReject \/ UpdateNoop \/ PutReturn
             \/ PutTimeout \/ FetchCredentials \/ CredentialsErr \/ DeleteReturn
             \/ SpecChange \/ UNCHANGED vars
    BY <2>2, IInvFrame DEF GetErr, BuildErr, GateReject, UpdateNoop, PutReturn,
                           PublishEndpoint, PutTimeout, FetchCredentials,
                           CredentialsErr, DeleteReturn, SpecChange, vars, Ghost
  <2>3. ASSUME SendConflict \/ SendLost, UNCHANGED obs
        PROVE  IInv'
    BY <2>3, IInvFrame DEF SendConflict, SendLost, Ghost
  <2>4. ASSUME NEW c, SendAccepted(c)
        PROVE  IInvB' /\ IInvC'
    BY <2>4 DEF SendAccepted, IInvB, IInvC
  <2>5. ASSUME SendAccepted(BuildCluster(want)) PROVE IInvA'
    <3> SUFFICES ASSUME fresh' PROVE FixedPoint(lastPut', remote'.target)
      BY DEF IInvA
    <3>1. remote'.target = Apply(BuildCluster(want), remote.props, remote.phase = Absent)
          /\ lastPut' = want
      BY <2>5 DEF SendAccepted, TypeOK
    <3>2. want \in Specs /\ remote.props \in Props
      BY DEF TypeOK
    <3>3. QED
      BY <3>1, <3>2, PutReachesFixedPoint
  <2>6. CASE CreatePath \/ UpdatePut
    <3>1. CASE SendAccepted(BuildCluster(want))
      BY <2>4, <2>5, <3>1 DEF IInv
    <3>2. CASE SendConflict \/ SendLost
      BY <2>6, <3>2, <2>3 DEF CreatePath, UpdatePut
    <3>3. QED
      BY <2>6, <3>1, <3>2 DEF CreatePath, UpdatePut, Send
  <2>7. CASE DeleteCall
    <3>1. CASE remote.phase = Absent
      BY <2>7, <3>1, IInvFrame DEF DeleteCall
    <3>2. CASE remote.phase # Absent
      <4>1. remote' = [remote EXCEPT !.phase = "Deleting", !.by = "rec"]
            /\ cpc' = "deleting" /\ quiet' = FALSE
        BY <2>7, <3>2 DEF DeleteCall
      <4>2. remote'.phase = "Deleting"
        BY <4>1 DEF TypeOK
      <4>3. QED
        BY <4>1, <4>2, <2>7 DEF DeleteCall, IInv, IInvA, IInvB, IInvC
    <3>3. QED
      BY <3>1, <3>2
  <2>8. CASE RemoteComplete
    <3>1. remote'.phase = "Succeeded" /\ remote'.props = remote.target
      BY <2>8 DEF RemoteComplete, TypeOK
    <3>2. quiet' => (remote.phase \in {"Creating", "Updating"} /\ remote.by = "rec" /\ fresh)
      BY <2>8 DEF RemoteComplete
    <3>3. UNCHANGED <<cpc, obs, lastPut, fresh>>
      BY <2>8 DEF RemoteComplete
    <3>4. IInvB'
      BY <3>1, <3>2, <3>3 DEF IInv, IInvA, IInvB
    <3>5. QED
      BY <3>1, <3>3, <3>4 DEF IInv, IInvA, IInvC
  <2>9. CASE RemoteFail
    <3>1. PICK ph \in {"Failed", "Canceled"}, pr \in {remote.props, remote.target} :
            remote' = [remote EXCEPT !.phase = ph, !.props = pr]
      BY <2>9 DEF RemoteFail
    <3>2. remote'.phase \in {"Failed", "Canceled"}
      BY <3>1 DEF TypeOK
    <3>3. quiet' = FALSE /\ UNCHANGED <<cpc, obs, lastPut, fresh>>
      BY <2>9 DEF RemoteFail
    <3>4. QED
      BY <3>2, <3>3 DEF IInv, IInvA, IInvB, IInvC
  <2>10. CASE RemoteDeleted
    <3>1. remote.phase = "Deleting" /\ remote'.phase = Absent
      BY <2>10 DEF RemoteDeleted, TypeOK
    <3>2. ~quiet /\ UNCHANGED <<quiet, cpc, obs, lastPut, fresh>>
      BY <2>10, <3>1 DEF RemoteDeleted, IInv, IInvB, Ghost
    <3>3. QED
      BY <3>1, <3>2 DEF IInv, IInvA, IInvB, IInvC, Absent
  <2>11. CASE RotateCredentials
    <3>1. remote' = [remote EXCEPT !.creds = @ + 1]
      BY <2>11 DEF RotateCredentials
    <3>2. /\ remote'.phase = remote.phase /\ remote'.props = remote.props
          /\ remote'.target = remote.target /\ remote'.by = remote.by
      BY <3>1 DEF TypeOK
    <3>3. QED
      BY <2>11, <3>2, IInvFrame DEF RotateCredentials, Ghost
  <2>12. CASE OtherUpdate
    <3>1. PICK t \in Props :
            remote' = [remote EXCEPT !.phase = "Updating", !.target = t, !.by = "other"]
      BY <2>12 DEF OtherUpdate
    <3>2. remote'.by = "other"
      BY <3>1 DEF TypeOK
    <3>3. quiet' = FALSE /\ UNCHANGED <<cpc, obs, lastPut, fresh>>
      BY <2>12 DEF OtherUpdate
    <3>4. QED
      BY <3>2, <3>3 DEF IInv, IInvA, IInvB, IInvC
  <2>13. QED
    BY <2>1, <2>2, <2>6, <2>7, <2>8, <2>9, <2>10, <2>11, <2>12
       DEF Next, Reconciler, Decide, Remote, Environment
<1>3. IInv => SecondPassIsNoop
  BY DEF IInv, IInvC, SecondPassIsNoop, FixedPoint, IsTerminal, TerminalPhases
<1>4. QED
  BY TypeCorrect, <1>1, <1>2, <1>3, PTL DEF Spec

-----------------------------------------------------------------------------
(* Refinement of GatedReconcile.                                           *)

\* The remote phases a mutation is accepted on, and the gate, are the
\* abstract ones.
LEMMA GateSets ==
    /\ \A ps : InFlight(ps) <=> ps \in GR!Running
    /\ \A ps : IsTerminal(ps) <=> ps \in GR!Mutable
    /\ Absent = GR!Absent
BY DEF InFlight, IsTerminal, Phases, TerminalPhases, Absent,
       GR!Running, GR!Phases, GR!Mutable, GR!Absent

LEMMA RemoteType == TypeOK => remote \in RemoteT
BY DEF TypeOK, RemoteT

\* The one mutating call of a pass whose snapshot showed no cluster, or
\* passed the gate with a diff: accepted it starts an operation, otherwise
\* the pass ends.
LEMMA SendStep ==
    ASSUME remote \in RemoteT, NEW c, cpc = "got", Send(c), UNCHANGED <<want, obs>>,
           \/ obs.phase = Absent
           \/ IsTerminal(obs.phase) /\ NeedsUpdate(BuildCluster(want), obs.props)
    PROVE  GR!Start \/ GR!Abandon
<1>1. CASE SendAccepted(c)
  <2>1. remote'.phase = IF remote.phase = Absent THEN "Creating" ELSE "Updating"
    BY <1>1 DEF SendAccepted, RemoteT
  <2>2. cpc' = "put" /\ ~InFlight(remote.phase)
    BY <1>1 DEF SendAccepted
  <2>3. QED
    BY <2>1, <2>2, GateSets DEF GR!Start
<1>2. CASE SendConflict \/ SendLost
  BY <1>2 DEF SendConflict, SendLost, GR!Abandon
<1>3. QED
  BY <1>1, <1>2 DEF Send

\* Every step of the reconciler, the remote service and the environment is
\* a step of GatedReconcile or leaves its variables alone; fetching the
\* credentials is part of the ended pass.
LEMMA GatedStep == TypeOK /\ [Next]_vars => [GR!Next]_(GR!absvars)
<1> SUFFICES ASSUME TypeOK, [Next]_vars PROVE [GR!Next]_(GR!absvars)
  OBVIOUS
<1>0. remote \in RemoteT
  BY RemoteType
<1>1. CASE GetOk
  BY <1>1 DEF GetOk, GR!Next, GR!Fetch, NeedsUpdate
<1>2. CASE GetErr
  BY <1>2 DEF GetErr, GR!absvars
<1>3. CASE BuildErr
  BY <1>3 DEF BuildErr, GR!Next, GR!Abandon
<1>4. CASE CreatePath
  BY <1>0, <1>4, SendStep DEF CreatePath, GR!Next
<1>5. CASE GateReject
  BY <1>5 DEF GateReject, GR!Next, GR!Abandon
<1>6. CASE UpdatePut
  BY <1>0, <1>6, SendStep DEF UpdatePut, GR!Next
<1>7. CASE UpdateNoop
  <2>1. cpc = "got" /\ cpc' \in {"creds", "idle"}
        /\ UNCHANGED <<remote, want, obs>>
    BY <1>7 DEF UpdateNoop, PublishEndpoint
  <2>2. QED
    BY <2>1 DEF GR!Next, GR!Abandon
<1>8. CASE PutReturn \/ PutTimeout
  <2>1. cpc = "put" /\ cpc' \in {"creds", "idle"}
        /\ UNCHANGED <<remote, want, obs>>
    BY <1>8 DEF PutReturn, PutTimeout, PublishEndpoint
  <2>2. QED
    BY <2>1 DEF GR!Next, GR!Return
<1>9. CASE FetchCredentials \/ CredentialsErr
  BY <1>9 DEF FetchCredentials, CredentialsErr, GR!absvars
<1>10. CASE DeleteCall
  <2>1. CASE remote.phase = Absent
    BY <1>10, <2>1 DEF DeleteCall, GR!absvars
  <2>2. CASE remote.phase # Absent
    <3>1. remote'.phase = "Deleting"
      BY <1>0, <1>10, <2>2 DEF DeleteCall, RemoteT
    <3>2. cpc = "idle" /\ cpc' = "deleting" /\ UNCHANGED <<want, obs>>
      BY <1>10, <2>2 DEF DeleteCall
    <3>3. QED
      BY <2>2, <3>1, <3>2, GateSets DEF GR!Next, GR!DeleteStart
  <2>3. QED
    BY <2>1, <2>2
<1>11. CASE DeleteReturn
  BY <1>11 DEF DeleteReturn, GR!Next, GR!DeleteEnd
<1>12. CASE RemoteComplete
  <2>1. remote'.phase = "Succeeded"
    BY <1>0, <1>12 DEF RemoteComplete, RemoteT
  <2>2. remote.phase \in {"Creating", "Updating"} /\ UNCHANGED <<cpc, want, obs>>
    BY <1>12 DEF RemoteComplete
  <2>3. QED
    BY <2>1, <2>2 DEF GR!Next, GR!OpEnd, GR!Mutable
<1>13. CASE RemoteFail
  <2>1. PICK ph \in {"Failed", "Canceled"}, pr \in {remote.props, remote.target} :
          remote' = [remote EXCEPT !.phase = ph, !.props = pr]
    BY <1>13 DEF RemoteFail
  <2>2. remote'.phase \in {"Failed", "Canceled"}
    BY <1>0, <2>1 DEF RemoteT
  <2>3. remote.phase \in {"Creating", "Updating"} /\ UNCHANGED <<cpc, want, obs>>
    BY <1>13 DEF RemoteFail
  <2>4. QED
    BY <2>2, <2>3 DEF GR!Next, GR!OpEnd, GR!Mutable
<1>14. CASE RemoteDeleted
  <2>1. remote'.phase = Absent
    BY <1>0, <1>14 DEF RemoteDeleted, RemoteT
  <2>2. remote.phase = "Deleting" /\ UNCHANGED <<cpc, want, obs>>
    BY <1>14 DEF RemoteDeleted
  <2>3. QED
    BY <2>1, <2>2, GateSets DEF GR!Next, GR!Gone
<1>15. CASE SpecChange
  BY <1>15 DEF SpecChange, GR!absvars
<1>16. CASE RotateCredentials
  <2>1. remote'.phase = remote.phase
    BY <1>0, <1>16 DEF RotateCredentials, RemoteT
  <2>2. UNCHANGED <<cpc, want, obs>>
    BY <1>16 DEF RotateCredentials
  <2>3. QED
    BY <2>1, <2>2 DEF GR!absvars
<1>17. CASE OtherUpdate
  <2>1. PICK t \in Props :
          remote' = [remote EXCEPT !.phase = "Updating", !.target = t, !.by = "other"]
    BY <1>17 DEF OtherUpdate
  <2>2. remote'.phase = "Updating"
    BY <1>0, <2>1 DEF RemoteT
  <2>3. IsTerminal(remote.phase) /\ UNCHANGED <<cpc, want, obs>>
    BY <1>17 DEF OtherUpdate
  <2>4. QED
    BY <2>2, <2>3, GateSets DEF GR!Next, GR!OtherStart
<1>18. CASE UNCHANGED vars
  BY <1>18 DEF vars, GR!absvars
<1>19. QED
  BY <1>1, <1>2, <1>3, <1>4, <1>5, <1>6, <1>7, <1>8, <1>9, <1>10, <1>11,
     <1>12, <1>13, <1>14, <1>15, <1>16, <1>17, <1>18
     DEF Next, Reconciler, Decide, Remote, Environment

\* Every pass of the cluster reconciler has the shape of GatedReconcile
\* (ImplementsGatedReconcile), for every value of the constants: at most one
\* mutating call, a create only on a snapshot without the cluster, an
\* update only past the lifecycle gate with a non-empty diff.
THEOREM GatedRefinement == Spec => ImplementsGatedReconcile
<1>1. Init => GR!Init
  BY DEF Init, GR!Init, Absent, GR!Absent, NeedsUpdate
<1>2. QED
  BY <1>1, TypeCorrect, GatedStep, PTL DEF Spec, ImplementsGatedReconcile, GR!Spec
=============================================================================
