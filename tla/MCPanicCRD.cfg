\* CRD revision: a restore whose artifact was deleted after the VolumeSnapshotData was read.
CONSTANTS
    Version = "crd"
    CloudProvider = "aws"
    IdFlagSet = TRUE
    Identities = {me1}
    Other = other
    None = none
    Claims = {c1}
    ClaimSnapshot <- MCClaimSnapshot
    ClaimSelector = {}
    SnapNames = {s1}
    DataNames = {d1}
    UserPVs = {u1}
    VolIds = {v1, v2, v3, v4}
    ArtIds = {a1, a2}
    InitPV <- MCInitPV
    InitVol <- MCInitVol
    TarMayFail = FALSE
    SaveMayFail = FALSE
    DeleteMayCrash = FALSE
    MaxCrashes = 0
    me1 = me1  me2 = me2  other = other  none = none  c1 = c1  c2 = c2  s1 = s1  s2 = s2
    d1 = d1  d2 = d2  u1 = u1  u2 = u2  v1 = v1  v2 = v2  v3 = v3  v4 = v4  v5 = v5  a1 = a1  a2 = a2
SPECIFICATION Spec
INVARIANT RestoreFailureReported
