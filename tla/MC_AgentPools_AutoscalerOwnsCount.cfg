CONSTANTS
    Counts <- MC_Counts
    Versions <- MC_Versions
    DesiredVersions <- MC_DesiredVersions
    ClusterVersion = "v1"
    LabelVals <- MC_LabelVals
    DesiredLabels <- MC_DesiredLabels
    TagVals <- MC_TagVals
    MaxEnv = 2
    MaxFail = 1
    MaxDel = 1
SPECIFICATION Spec
PROPERTIES AutoscalerOwnsCount
