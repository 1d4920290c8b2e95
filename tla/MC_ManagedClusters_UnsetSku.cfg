CONSTANTS
    Versions <- MC_Versions
    SkuTiers <- MC_SkuTiersUnset
    LBProfiles <- MC_LBProfiles
    DefaultLB = "lbdefault"
    DLAs <- MC_DLAs
    AADs <- MC_AADs
    Accesses <- MC_Public
    MaxEnv = 2
    MaxFail = 1
    MaxDel = 1
SPECIFICATION Spec
INVARIANTS SecondPassIsNoop
