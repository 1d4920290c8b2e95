-------------------------- MODULE AgentPoolsProofs --------------------------
(***************************************************************************)
(* Proofs about AgentPools, for every value of the constants.              *)
(***************************************************************************)
EXTENDS AgentPools, TLAPS

\* What the remote stores for a payload is a remote pool again.
LEMMA ApplyType ==
    ASSUME ConstAssumption,
           NEW p \in Profiles, NEW e \in RemoteProps, NEW creating \in BOOLEAN
    PROVE  Apply(p, e, creating) \in RemoteProps
BY DEF Apply, RemoteProps, Profiles, NilPtr, EmptyMap

\* The tag fix keeps a payload a payload.
LEMMA TagFixType ==
    ASSUME NEW p \in Profiles, NEW e \in RemoteProps
    PROVE  TagFix(p, e) \in Profiles
BY DEF TagFix, Profiles, RemoteProps, NilPtr, EmptyMap

LEMMA NoPropsType == ConstAssumption => NoProps \in RemoteProps
BY DEF NoProps, RemoteProps, Profiles, NilPtr, EmptyMap

\* The type invariant.
THEOREM TypeCorrect == Spec => []TypeOK
<1> USE ConstAssumption
<1>1. Init => TypeOK
  <2> SUFFICES ASSUME Init PROVE TypeOK
    OBVIOUS
  <2>1. NoProps \in RemoteProps
    BY NoPropsType
  <2>2. remote \in [phase : Phases \cup {Absent}, props : RemoteProps,
                   target : RemoteProps, by : {"rec", "other"}]
    BY <2>1 DEF Init
  <2>3. obs \in [phase : Phases \cup {Absent}, props : RemoteProps, quiet : BOOLEAN]
    BY <2>1 DEF Init
  <2>4. env \in 0..MaxEnv /\ fails \in 0..MaxFail /\ dels \in 0..MaxDel
    BY DEF Init
  <2>5. desired \in DesiredProfiles /\ want \in DesiredProfiles /\ lastPut \in DesiredProfiles
    BY DEF Init
  <2>6. QED
    BY <2>2, <2>3, <2>4, <2>5, Zenon DEF Init, TypeOK
<1>2. TypeOK /\ [Next]_vars => TypeOK'
  <2> SUFFICES ASSUME TypeOK, [Next]_vars PROVE TypeOK'
    OBVIOUS
  <2> USE DEF Phases
  <2>. DesiredProfiles \subseteq Profiles
    BY DEF DesiredProfiles
  <2>1. CASE GetOk
    BY <2>1 DEF GetOk, TypeOK, BuildProfile
  <2>2. CASE GetErr
    BY <2>2 DEF GetErr, TypeOK
  <2>3. ASSUME NEW p \in Profiles, SendAccepted(p),
               UNCHANGED <<desired, want, obs, env, dels>>
        PROVE  TypeOK'
    <3>1. Apply(p, remote.props, remote.phase = Absent) \in RemoteProps
      BY ApplyType DEF TypeOK
    <3>2. QED
      BY <2>3, <3>1 DEF SendAccepted, TypeOK
  <2>4. CASE CreatePath
    <3>1. CASE SendAccepted(want)
      BY <2>4, <3>1, <2>3 DEF CreatePath, TypeOK
    <3>2. CASE SendConflict \/ SendLost
      BY <2>4, <3>2 DEF CreatePath, SendConflict, SendLost, TypeOK
    <3>3. QED
      BY <2>4, <3>1, <3>2 DEF CreatePath, Send
  <2>5. CASE UpdatePut
    <3>1. TagFix(want, obs.props) \in Profiles
      BY TagFixType DEF TypeOK
    <3>2. CASE SendAccepted(TagFix(want, obs.props))
      BY <2>5, <3>1, <3>2, <2>3 DEF UpdatePut
    <3>3. CASE SendConflict \/ SendLost
      BY <2>5, <3>3 DEF UpdatePut, SendConflict, SendLost, TypeOK
    <3>4. QED
      BY <2>5, <3>2, <3>3 DEF UpdatePut, Send
  <2>6. CASE GateReject \/ UpdateNoop
    BY <2>6 DEF GateReject, UpdateNoop, TypeOK
  <2>7. CASE PutReturn \/ PutTimeout
    BY <2>7 DEF PutReturn, PutTimeout, TypeOK
  <2>8. CASE DeleteCall \/ DeleteReturn
    <3>1. CASE DeleteCall /\ remote.phase = Absent
      BY <3>1 DEF DeleteCall, TypeOK
    <3>2. CASE DeleteCall /\ remote.phase # Absent
      <4>0. remote' = [remote EXCEPT !.phase = "Deleting", !.by = "rec"]
        BY <3>2 DEF DeleteCall
      <4>1. remote' \in [phase : Phases \cup {Absent}, props : RemoteProps,
                         target : RemoteProps, by : {"rec", "other"}]
        BY <4>0 DEF TypeOK
      <4>2. /\ rpc' = "deleting" /\ quiet' = FALSE /\ result' = result
            /\ dels < MaxDel /\ dels' = dels + 1
            /\ UNCHANGED <<desired, want, obs, putDone, lastPut, fresh, env, fails>>
        BY <3>2 DEF DeleteCall
      <4>3. dels' \in 0..MaxDel
        BY <4>2 DEF TypeOK
      <4>4. QED
        BY <4>1, <4>2, <4>3, Zenon DEF TypeOK
    <3>3. CASE DeleteReturn
      BY <3>3 DEF DeleteReturn, TypeOK
    <3>4. QED
      BY <2>8, <3>1, <3>2, <3>3
  <2>9. CASE RemoteComplete
    <3>1. remote' \in [phase : Phases \cup {Absent}, props : RemoteProps,
                       target : RemoteProps, by : {"rec", "other"}]
      BY <2>9 DEF RemoteComplete, TypeOK
    <3>2. putDone' \in {"pending", "ok", "err"} /\ quiet' \in BOOLEAN
      BY <2>9 DEF RemoteComplete, TypeOK
    <3>3. QED
      BY <2>9, <3>1, <3>2 DEF RemoteComplete, TypeOK
  <2>10. CASE RemoteFail
    <3>1. remote' \in [phase : Phases \cup {Absent}, props : RemoteProps,
                       target : RemoteProps, by : {"rec", "other"}]
      BY <2>10 DEF RemoteFail, TypeOK
    <3>2. fails' \in 0..MaxFail
      BY <2>10 DEF RemoteFail, TypeOK
    <3>3. QED
      BY <2>10, <3>1, <3>2 DEF RemoteFail, TypeOK
  <2>11. CASE RemoteDeleted
    BY <2>11, NoPropsType DEF RemoteDeleted, TypeOK
  <2>12. CASE SpecChange
    BY <2>12 DEF SpecChange, TypeOK
  <2>13. CASE Autoscale
    <3>1. remote' \in [phase : Phases \cup {Absent}, props : RemoteProps,
                       target : RemoteProps, by : {"rec", "other"}]
      BY <2>13 DEF Autoscale, TypeOK, RemoteProps, Profiles
    <3>2. env' \in 0..MaxEnv
      BY <2>13 DEF Autoscale, TypeOK
    <3>3. QED
      BY <2>13, <3>1, <3>2 DEF Autoscale, TypeOK
  <2>14. CASE OtherUpdate
    <3>1. remote' \in [phase : Phases \cup {Absent}, props : RemoteProps,
                       target : RemoteProps, by : {"rec", "other"}]
      BY <2>14 DEF OtherUpdate, TypeOK
    <3>2. env' \in 0..MaxEnv
      BY <2>14 DEF OtherUpdate, TypeOK
    <3>3. QED
      BY <2>14, <3>1, <3>2 DEF OtherUpdate, TypeOK
  <2>15. CASE UNCHANGED vars
    BY <2>15 DEF vars, TypeOK
  <2>16. QED
    BY <2>1, <2>2, <2>4, <2>5, <2>6, <2>7, <2>8, <2>9, <2>10, <2>11, <2>12,
       <2>13, <2>14, <2>15
    DEF Next, Reconciler, Decide, Remote, Environment
<1>3. QED
  BY <1>1, <1>2, PTL DEF Spec

-----------------------------------------------------------------------------
(* Idempotence.                                                            *)

\* The diff of the spec p against remote properties e finds nothing.
FixedPoint(p, e) == ~NeedsUpdate(TagFix(p, e), e)

\* Key lemma: when the spec sets the version, and sets the labels or no
\* pool has any, what AKS stores for the reconciler's PUT (the payload as
\* built on create, the tag-fixed payload on update) is a fixed point of
\* the reconciler's own diff.
LEMMA PutReachesFixedPoint ==
    ASSUME ConstAssumption, DesiredVersions \subseteq Versions,
           NilPtr \notin DesiredLabels \/ LabelVals = {},
           NEW p \in DesiredProfiles, NEW e \in RemoteProps
    PROVE  /\ FixedPoint(p, Apply(p, e, TRUE))
           /\ FixedPoint(p, Apply(TagFix(p, e), e, FALSE))
<1> USE DEF FixedPoint, NeedsUpdate, DesiredNormalized, ExistingNormalized,
            TagFix, Apply, NilPtr, EmptyMap, DesiredProfiles, Profiles, RemoteProps
<1>1. FixedPoint(p, Apply(p, e, TRUE))
  OBVIOUS
<1>2. CASE p.tags = NilPtr /\ e.tags \notin {NilPtr, EmptyMap}
  <2>1. TagFix(p, e) = [p EXCEPT !.tags = EmptyMap]
    BY <1>2
  <2>2. QED
    BY <1>2, <2>1
<1>3. CASE ~(p.tags = NilPtr /\ e.tags \notin {NilPtr, EmptyMap})
  <2>1. TagFix(p, e) = p
    BY <1>3
  <2>2. QED
    BY <1>3, <2>1
<1>4. QED
  BY <1>1, <1>2, <1>3

\* The inductive strengthening of SecondPassIsNoop, on top of TypeOK.
\* (a) the reconciler's own operation, sent on a fresh snapshot, targets a
\*     fixed point of its last payload;
IInvA == (remote.phase \in {"Creating", "Updating"} /\ remote.by = "rec" /\ fresh)
             => FixedPoint(lastPut, remote.target)
\* (b) while quiet, the pool sits at that fixed point;
IInvB == quiet => (remote.phase = "Succeeded" /\ FixedPoint(lastPut, remote.props))
\* (c) and a snapshot taken while quiet shows it.
IInvC == (rpc = "got" /\ obs.quiet)
             => (obs.phase = "Succeeded" /\ FixedPoint(lastPut, obs.props))
IInv == IInvA /\ IInvB /\ IInvC

\* The steps that leave every variable IInv reads unchanged and move the
\* reconciler to no "got" it was not in already.
LEMMA IInvFrame ==
    ASSUME IInv,
           UNCHANGED <<remote, obs, lastPut, quiet, fresh>>,
           rpc' = rpc \/ rpc' # "got"
    PROVE  IInv'
BY DEF IInv, IInvA, IInvB, IInvC

\* Idempotence (SecondPassIsNoop) for every instance in which the spec
\* provider always sets the version, and either always sets the node
\* labels or no label map exists: an unset field is left unchanged by AKS
\* (spec section 3), so a spec dropping its labels keeps the diff of lines
\* 159-192 non-empty for ever (run ap_label_removal).
THEOREM Idempotence ==
    ASSUME DesiredVersions \subseteq Versions,
           NilPtr \notin DesiredLabels \/ LabelVals = {}
    PROVE  Spec => []SecondPassIsNoop
<1> USE ConstAssumption
<1>1. Init => IInv
  BY DEF Init, IInv, IInvA, IInvB, IInvC, Absent
<1>2. TypeOK /\ IInv /\ [Next]_vars => IInv'
  <2> SUFFICES ASSUME TypeOK, IInv, [Next]_vars PROVE IInv'
    OBVIOUS
  <2>1. CASE GetOk
    BY <2>1 DEF GetOk, IInv, IInvA, IInvB, IInvC
  <2>2. CASE GetErr \/ GateReject \/ UpdateNoop \/ PutReturn \/ PutTimeout
                \/ DeleteReturn \/ SpecChange \/ UNCHANGED vars
    BY <2>2, IInvFrame DEF GetErr, GateReject, UpdateNoop, PutReturn, PutTimeout,
                           DeleteReturn, SpecChange, vars
  <2>3. ASSUME NEW p, SendConflict \/ SendLost,
               UNCHANGED <<obs>>
        PROVE  IInv'
    BY <2>3, IInvFrame DEF SendConflict, SendLost
  <2>4. ASSUME NEW p, SendAccepted(p)
        PROVE  IInvB' /\ IInvC'
    BY <2>4 DEF SendAccepted, IInvB, IInvC
  <2>5. CASE CreatePath
    <3>1. CASE SendAccepted(want)
      <4>1. IInvA'
        <5> SUFFICES ASSUME fresh' PROVE FixedPoint(lastPut', remote'.target)
          BY DEF IInvA
        <5>1. remote.phase = Absent
          BY <2>5, <3>1 DEF CreatePath, SendAccepted, Snapshot
        <5>2. remote'.target = Apply(want, remote.props, TRUE) /\ lastPut' = want
          BY <3>1, <5>1 DEF SendAccepted
        <5>3. want \in DesiredProfiles /\ remote.props \in RemoteProps
          BY DEF TypeOK
        <5>4. QED
          BY <5>2, <5>3, PutReachesFixedPoint
      <4>2. QED
        BY <4>1, <3>1, <2>4 DEF IInv
    <3>2. QED
      BY <2>5, <3>1, <2>3 DEF CreatePath, Send
  <2>6. CASE UpdatePut
    <3> DEFINE q == TagFix(want, obs.props)
    <3>1. CASE SendAccepted(q)
      <4>1. IInvA'
        <5> SUFFICES ASSUME fresh' PROVE FixedPoint(lastPut', remote'.target)
          BY DEF IInvA
        <5>1. remote.phase = obs.phase /\ remote.props = obs.props
          BY <3>1 DEF SendAccepted, Snapshot
        <5>2. remote.phase # Absent
          BY <2>6, <5>1 DEF UpdatePut, IsTerminal, TerminalPhases, Absent
        <5>3. remote'.target = Apply(TagFix(want, remote.props), remote.props, FALSE)
              /\ lastPut' = want
          BY <3>1, <5>1, <5>2 DEF SendAccepted
        <5>4. want \in DesiredProfiles /\ remote.props \in RemoteProps
          BY DEF TypeOK
        <5>5. QED
          BY <5>3, <5>4, PutReachesFixedPoint
      <4>2. QED
        BY <4>1, <3>1, <2>4 DEF IInv
    <3>2. QED
      BY <2>6, <3>1, <2>3 DEF UpdatePut, Send
  <2>7. CASE DeleteCall
    <3>1. CASE remote.phase = Absent
      BY <2>7, <3>1, IInvFrame DEF DeleteCall
    <3>2. CASE remote.phase # Absent
      <4>1. remote' = [remote EXCEPT !.phase = "Deleting", !.by = "rec"]
            /\ rpc' = "deleting" /\ quiet' = FALSE
        BY <2>7, <3>2 DEF DeleteCall
      <4>2. remote'.phase = "Deleting"
        BY <4>1 DEF TypeOK
      <4>3. QED
        BY <4>1, <4>2, <2>7 DEF DeleteCall, IInv, IInvA, IInvB, IInvC
    <3>3. QED
      BY <3>1, <3>2
  <2>8. CASE RemoteComplete
    <3>1. remote'.phase = "Succeeded" /\ remote'.props = remote.target
      BY <2>8 DEF RemoteComplete, TypeOK
    <3>2. quiet' => (remote.phase \in {"Creating", "Updating"} /\ remote.by = "rec" /\ fresh)
      BY <2>8 DEF RemoteComplete
    <3>3. UNCHANGED <<rpc, obs, lastPut, fresh>>
      BY <2>8 DEF RemoteComplete
    <3>4. IInvB'
      BY <3>1, <3>2, <3>3 DEF IInv, IInvA, IInvB
    <3>5. QED
      BY <3>1, <3>3, <3>4 DEF IInv, IInvA, IInvC
  <2>9. CASE RemoteFail
    BY <2>9 DEF RemoteFail, IInv, IInvA, IInvB, IInvC
  <2>10. CASE RemoteDeleted
    BY <2>10 DEF RemoteDeleted, IInv, IInvA, IInvB, IInvC, Absent
  <2>11. CASE Autoscale
    BY <2>11 DEF Autoscale, IInv, IInvA, IInvB, IInvC, IsTerminal, TerminalPhases
  <2>12. CASE OtherUpdate
    BY <2>12 DEF OtherUpdate, IInv, IInvA, IInvB, IInvC
  <2>13. QED
    BY <2>1, <2>2, <2>5, <2>6, <2>7, <2>8, <2>9, <2>10, <2>11, <2>12
       DEF Next, Reconciler, Decide, Remote, Environment
<1>3. IInv => SecondPassIsNoop
  BY DEF IInv, IInvC, SecondPassIsNoop, FixedPoint, IsTerminal, TerminalPhases
<1>4. QED
  BY TypeCorrect, <1>1, <1>2, <1>3, PTL DEF Spec

-----------------------------------------------------------------------------
(* Refinement of GatedReconcile.                                           *)

\* The remote phases a mutation is accepted on, and the gate, are the
\* abstract ones.
LEMMA GateSets ==
    /\ \A ps : InFlight(ps) <=> ps \in GR!Running
    /\ \A ps : IsTerminal(ps) <=> ps \in GR!Mutable
    /\ Absent = GR!Absent
BY DEF InFlight, IsTerminal, Phases, TerminalPhases, Absent,
       GR!Running, GR!Phases, GR!Mutable, GR!Absent

\* The one mutating call of a pass whose snapshot showed no pool, or passed
\* the gate with a diff: accepted it starts an operation, otherwise the pass
\* ends.
LEMMA SendStep ==
    ASSUME NEW p, rpc = "got", Send(p), UNCHANGED <<want, obs>>,
           \/ obs.phase = Absent
           \/ IsTerminal(obs.phase) /\ NeedsUpdate(TagFix(want, obs.props), obs.props)
    PROVE  GR!Start \/ GR!Abandon
<1>1. CASE SendAccepted(p)
  <2>1. /\ rpc' = "put"
        /\ remote'.phase = IF remote.phase = Absent THEN "Creating" ELSE "Updating"
        /\ ~InFlight(remote.phase)
    BY <1>1 DEF SendAccepted
  <2>2. QED
    BY <2>1, GateSets DEF GR!Start
<1>2. CASE SendConflict \/ SendLost
  BY <1>2 DEF SendConflict, SendLost, GR!Abandon
<1>3. QED
  BY <1>1, <1>2 DEF Send

\* Every step of the reconciler, the remote service and the environment is
\* a step of GatedReconcile or leaves its variables alone.
LEMMA GatedStep == TypeOK /\ [Next]_vars => [GR!Next]_(GR!absvars)
<1> SUFFICES ASSUME TypeOK, [Next]_vars PROVE [GR!Next]_(GR!absvars)
  OBVIOUS
<1>1. CASE GetOk
  BY <1>1 DEF GetOk, GR!Next, GR!Fetch, NeedsUpdate
<1>2. CASE GetErr
  BY <1>2 DEF GetErr, GR!absvars
<1>3. CASE CreatePath
  BY <1>3, SendStep DEF CreatePath, GR!Next
<1>4. CASE GateReject
  BY <1>4 DEF GateReject, GR!Next, GR!Abandon
<1>5. CASE UpdatePut
  BY <1>5, SendStep DEF UpdatePut, GR!Next
<1>6. CASE UpdateNoop
  BY <1>6 DEF UpdateNoop, GR!Next, GR!Abandon
<1>7. CASE PutReturn \/ PutTimeout
  BY <1>7 DEF PutReturn, PutTimeout, GR!Next, GR!Return
<1>8. CASE DeleteCall
  <2>1. CASE remote.phase = Absent
    BY <1>8, <2>1 DEF DeleteCall, GR!absvars
  <2>2. CASE remote.phase # Absent
    <3>1. rpc' = "deleting" /\ remote'.phase = "Deleting" /\ UNCHANGED <<want, obs>>
      BY <1>8, <2>2 DEF DeleteCall, TypeOK
    <3>2. QED
      BY <1>8, <2>2, <3>1, GateSets DEF DeleteCall, GR!Next, GR!DeleteStart
  <2>3. QED
    BY <2>1, <2>2
<1>9. CASE DeleteReturn
  BY <1>9 DEF DeleteReturn, GR!Next, GR!DeleteEnd
<1>10. CASE RemoteComplete
  <2>1. remote'.phase = "Succeeded" /\ UNCHANGED <<rpc, want, obs>>
    BY <1>10 DEF RemoteComplete, TypeOK
  <2>2. QED
    BY <1>10, <2>1 DEF RemoteComplete, GR!Next, GR!OpEnd, GR!Mutable
<1>11. CASE RemoteFail
  <2>1. remote'.phase \in {"Failed", "Canceled"} /\ UNCHANGED <<rpc, want, obs>>
    BY <1>11 DEF RemoteFail, TypeOK
  <2>2. QED
    BY <1>11, <2>1 DEF RemoteFail, GR!Next, GR!OpEnd, GR!Mutable
<1>12. CASE RemoteDeleted
  BY <1>12, GateSets DEF RemoteDeleted, GR!Next, GR!Gone
<1>13. CASE SpecChange
  BY <1>13 DEF SpecChange, GR!absvars
<1>14. CASE Autoscale
  <2>1. remote'.phase = remote.phase /\ UNCHANGED <<rpc, want, obs>>
    BY <1>14 DEF Autoscale, TypeOK
  <2>2. QED
    BY <2>1 DEF GR!absvars
<1>15. CASE OtherUpdate
  <2>1. remote'.phase = "Updating" /\ IsTerminal(remote.phase)
        /\ UNCHANGED <<rpc, want, obs>>
    BY <1>15 DEF OtherUpdate, TypeOK
  <2>2. QED
    BY <2>1, GateSets DEF GR!Next, GR!OtherStart
<1>16. CASE UNCHANGED vars
  BY <1>16 DEF vars, GR!absvars
<1>17. QED
  BY <1>1, <1>2, <1>3, <1>4, <1>5, <1>6, <1>7, <1>8, <1>9, <1>10, <1>11,
     <1>12, <1>13, <1>14, <1>15, <1>16
     DEF Next, Reconciler, Decide, Remote, Environment

\* Every pass of the node-pool reconciler has the shape of GatedReconcile
\* (ImplementsGatedReconcile), for every value of the constants: at most one
\* mutating call, a create only on a snapshot without the pool, an update
\* only past the lifecycle gate with a non-empty diff.
THEOREM GatedRefinement == Spec => ImplementsGatedReconcile
<1>1. Init => GR!Init
  BY DEF Init, GR!Init, Absent, GR!Absent, NeedsUpdate
<1>2. QED
  BY <1>1, TypeCorrect, GatedStep, PTL DEF Spec, ImplementsGatedReconcile, GR!Spec
-----------------------------------------------------------------------------
(* The diff normaliser and the tag fix, for every payload and pool.        *)

\* Spec section 8, "Autoscaling overrides replica comparison": with
\* autoscaling set in the payload, the diff of lines 172-192 ignores the
\* node count, whatever the spec's and the pool's counts are.
THEOREM AutoscaleIgnoresCount ==
    ASSUME NEW p \in Profiles, NEW e \in RemoteProps, p.autoscale,
           e.autoscale, p.version = e.version, p.labels = e.labels,
           p.tags = e.tags
    PROVE  ~NeedsUpdate(p, e)
BY DEF NeedsUpdate, DesiredNormalized, ExistingNormalized, Profiles, RemoteProps

\* Spec section 8, "Create-then-diverge-then-converge": a pool whose label
\* map differs from the payload's is updated, whatever else matches.
THEOREM LabelDiffUpdates ==
    ASSUME NEW p \in Profiles, NEW e \in RemoteProps, p.labels # e.labels
    PROVE  NeedsUpdate(TagFix(p, e), e)
<1>1. TagFix(p, e).labels = p.labels
  BY DEF TagFix, Profiles
<1>2. QED
  BY <1>1 DEF NeedsUpdate, DesiredNormalized, ExistingNormalized

\* Spec section 8, "Tag clearing": when the spec has no tags and the pool
\* has some, the payload of lines 152-156 carries an explicit empty map,
\* the diff sees the change, and AKS clears the tags.
THEOREM TagClearing ==
    ASSUME NEW p \in Profiles, NEW e \in RemoteProps,
           p.tags = NilPtr, e.tags \notin {NilPtr, EmptyMap}
    PROVE  /\ TagFix(p, e).tags = EmptyMap
           /\ NeedsUpdate(TagFix(p, e), e)
           /\ Apply(TagFix(p, e), e, FALSE).tags = NilPtr
<1>1. TagFix(p, e) = [p EXCEPT !.tags = EmptyMap]
  BY DEF TagFix
<1>2. TagFix(p, e).tags = EmptyMap
  BY <1>1 DEF Profiles
<1>3. NeedsUpdate(TagFix(p, e), e)
  BY <1>2 DEF NeedsUpdate, DesiredNormalized, ExistingNormalized
<1>4. Apply(TagFix(p, e), e, FALSE).tags = NilPtr
  BY <1>2 DEF Apply, EmptyMap, NilPtr
<1>5. QED
  BY <1>2, <1>3, <1>4
=============================================================================
