--------------------------- MODULE MC_AgentPools ---------------------------
(* Small instance of AgentPools for TLC.                                   *)
EXTENDS AgentPools

MC_Counts == {1, 2}
MC_Versions == {"v1"}
\* The spec provider always sets the version.
MC_DesiredVersions == {"v1"}
\* The MachinePool may leave the version unset.
MC_DesiredVersionsUnset == {"v1", "nil"}
MC_LabelVals == {"l1"}
\* The spec provider always sets the labels.
MC_DesiredLabels == {"l1"}
\* The spec may drop its labels.
MC_DesiredLabelsUnset == {"l1", "nil"}
MC_TagVals == {"t1"}
=============================================================================
