\* CRD revision, hostPath and aws registered (aws only if its init succeeds),
\* one process crash (possibly between Delete and the PV's removal), tar may fail.
CONSTANTS
    Version = "crd"
    CloudProvider = "aws"
    IdFlagSet = TRUE
    Identities = {me1}
    Other = other
    None = none
    Claims = {c1}
    ClaimSnapshot <- MCClaimSnapshot
    ClaimSelector = {}
    SnapNames = {s1}
    DataNames = {d1}
    UserPVs = {u1, u2}
    VolIds = {v1, v2, v3, v4}
    ArtIds = {a1, a2}
    InitPV <- MCInitPV
    InitVol <- MCInitVol
    TarMayFail = TRUE
    SaveMayFail = TRUE
    DeleteMayCrash = TRUE
    MaxCrashes = 1
    me1 = me1  me2 = me2  other = other  none = none  c1 = c1  c2 = c2  s1 = s1  s2 = s2
    d1 = d1  d2 = d2  u1 = u1  u2 = u2  v1 = v1  v2 = v2  v3 = v3  v4 = v4  v5 = v5  a1 = a1  a2 = a2
SPECIFICATION Spec
SYMMETRY MCSymmetry
INVARIANTS OwnershipSafety BoundPVLive
