------------------ MODULE SnapshotProvisionerBindingProofs ------------------
(***************************************************************************)
(* Proof that the provisioner and its controller implement ClaimBinding   *)
(* (ClaimBindingSpec), in both revisions and for every value of the        *)
(* constants.  The argument: ClaimsInv ties each claim's phase to its PV   *)
(* object and to its Provision call; then the controller's save of the PV  *)
(* is a Bind, whose volume no PV names by VolumesExclusive, the user's     *)
(* deletion of the claim is a Release, the controller's successful Delete  *)
(* of a released PV is a Reclaim, and every other step leaves the claims   *)
(* and their PVs alone.                                                    *)
(***************************************************************************)
EXTENDS SnapshotProvisionerVolumeProofs

(* Every step either leaves the PV objects alone or is one of the four     *)
(* actions that write them.                                                *)
LEMMA PVsWriters ==
    ASSUME [Next]_vars
    PROVE  \/ pvs' = pvs
           \/ \E c \in Claims : CtrlSavePV(c)
           \/ \E p \in PVNames : CtrlDeletePV(p)
           \/ \E p \in UserPVs : DeleteUserPV(p)
           \/ \E p \in UserPVs, v \in VolIds : CreateUserPV(p, v)
<1>1. CASE \E c \in Claims : \/ ProvGetSnapshot(c) \/ ProvGetData(c)
                             \/ ProvResolve(c) \/ ProvRestore(c)
  BY <1>1 DEF ProvGetSnapshot, ProvGetData, ProvResolve, ProvRestore
<1>2. CASE Crash \/ Restart \/ \E p \in PVNames : CrashInDelete(p)
  BY <1>2 DEF Crash, Restart, CrashInDelete
<1>3. CASE Controller
  BY <1>3 DEF Controller, CtrlSaveFailed, ReleaseClaim
<1>4. CASE Environment
  BY <1>4 DEF Environment, CreateSnapshot, DeleteSnapshot, CreateEmptyData,
              TakeSnapshot, DeleteSnapshotData
<1>5. CASE UNCHANGED vars
  BY <1>5 DEF vars
<1>6. QED
  BY <1>1, <1>2, <1>3, <1>4, <1>5 DEF Next, Provisioner

(* A pending claim has no PV and a bound claim has one; a Provision call   *)
(* is in progress only for a pending claim.                                *)
ClaimsInv ==
    \A c \in Claims : /\ claims[c] = "pending" => ~pvs[c].ex
                      /\ claims[c] = "bound" => pvs[c].ex
                      /\ prov[c].pc # "idle" => claims[c] = "pending"

(* A step that keeps every claim, the PV of every claim, and leaves a     *)
(* claim's call idle or keeps the claim pending, preserves ClaimsInv.     *)
LEMMA ClaimsFrame ==
    ASSUME ClaimsInv, claims' = claims, \A c \in Claims : pvs'[c] = pvs[c],
           \A c \in Claims : prov'[c].pc # "idle" => prov[c].pc # "idle"
    PROVE  ClaimsInv'
BY DEF ClaimsInv

LEMMA InitClaims == Init => ClaimsInv
<1> SUFFICES ASSUME Init PROVE ClaimsInv
  OBVIOUS
<1>1. \A c \in Claims : pvs[c] = NoPV /\ prov[c] = IdleProv /\ claims[c] = "pending"
  BY ClaimAssumption DEF Init, PVNames
<1>2. QED  BY <1>1 DEF ClaimsInv, NoPV, IdleProv

(* ClaimsInv is preserved by every step.                                  *)
LEMMA NextClaims == IInv /\ ClaimsInv /\ [Next]_vars => ClaimsInv'
<1> SUFFICES ASSUME IInv, ClaimsInv, [Next]_vars PROVE ClaimsInv'
  OBVIOUS
<1>1. pvs \in [PVNames -> PVRec] /\ prov \in [Claims -> ProvRec]
      /\ claims \in [Claims -> {"pending", "bound", "deleted"}]
  BY DEF IInv, TypeOK
<1>2. CASE \E c \in Claims : \/ ProvGetSnapshot(c) \/ ProvGetData(c)
                             \/ ProvResolve(c) \/ ProvRestore(c)
  <2>1. PICK c \in Claims : \/ ProvGetSnapshot(c) \/ ProvGetData(c)
                            \/ ProvResolve(c) \/ ProvRestore(c)
    BY <1>2
  <2>2. claims' = claims /\ pvs' = pvs
    BY <2>1 DEF ProvGetSnapshot, ProvGetData, ProvResolve, ProvRestore
  <2>3. \A d \in Claims \ {c} : prov'[d].pc # "idle" => prov[d].pc # "idle"
    <3>1. CASE ProvGetSnapshot(c) \/ ProvGetData(c) \/ ProvResolve(c)
      <4>1. \A d \in Claims \ {c} : prov'[d] = prov[d]
        BY <3>1, <1>1 DEF ProvGetSnapshot, ProvGetData, ProvResolve, ResolveTPR,
           ResolveCRD, Fail
      <4>2. QED  BY <4>1
    <3>2. CASE ProvRestore(c)
      <4>1. \A d \in Claims \ {c} : prov'[d] = prov[d] \/ prov'[d] = IdleProv
        BY <3>2, <1>1 DEF ProvRestore, RestoreErrorTPR, RestoreErrorCRD, Fail
      <4>2. QED  BY <4>1, IdleTyped
    <3>3. QED  BY <2>1, <3>1, <3>2
  <2>4. prov'[c].pc # "idle" => claims[c] = "pending"
    <3>1. CASE ProvGetSnapshot(c)  BY <3>1 DEF ProvGetSnapshot
    <3>2. CASE ProvGetData(c) \/ ProvResolve(c) \/ ProvRestore(c)
      <4>1. prov[c].pc # "idle"  BY <3>2 DEF ProvGetData, ProvResolve, ProvRestore
      <4>2. QED  BY <4>1 DEF ClaimsInv
    <3>3. QED  BY <2>1, <3>1, <3>2
  <2>5. QED  BY <2>2, <2>3, <2>4 DEF ClaimsInv
<1>3. CASE Crash \/ Restart \/ \E p \in PVNames : CrashInDelete(p)
  <2>1. claims' = claims /\ pvs' = pvs
        /\ \A c \in Claims : prov'[c].pc # "idle" => prov[c].pc # "idle"
    BY <1>3, IdleTyped DEF Crash, Restart, CrashInDelete
  <2>2. QED  BY <2>1, ClaimsFrame
<1>4. CASE Controller
  <2>1. PICK c \in Claims, p \in PVNames :
          CtrlSavePV(c) \/ CtrlSaveFailed(c) \/ ReleaseClaim(c) \/ CtrlDeletePV(p)
    BY <1>4 DEF Controller
  <2>2. CASE CtrlSavePV(c)
    <3>1. /\ claims' = [claims EXCEPT ![c] = "bound"]
          /\ pvs' = [pvs EXCEPT ![c] = ProvisionedPV(c)]
          /\ prov' = [prov EXCEPT ![c] = IdleProv]
      BY <2>2 DEF CtrlSavePV
    <3>2. QED  BY <1>1, <3>1, IdleTyped DEF ClaimsInv, ProvisionedPV, PVNames
  <2>3. CASE CtrlSaveFailed(c)
    <3>1. claims' = claims /\ pvs' = pvs /\ prov' = [prov EXCEPT ![c] = IdleProv]
      BY <2>3 DEF CtrlSaveFailed
    <3>2. QED  BY <1>1, <3>1, IdleTyped DEF ClaimsInv
  <2>4. CASE ReleaseClaim(c)
    <3>1. claims' = [claims EXCEPT ![c] = "deleted"] /\ pvs' = pvs /\ prov' = prov
          /\ claims[c] = "bound"
      BY <2>4 DEF ReleaseClaim
    <3>2. prov[c].pc = "idle"  BY <3>1 DEF ClaimsInv
    <3>3. QED  BY <1>1, <3>1, <3>2 DEF ClaimsInv
  <2>5. CASE CtrlDeletePV(p)
    <3>1. claims' = claims /\ prov' = prov /\ (p \in UserPVs \/ Released(p))
          /\ (pvs' = pvs \/ pvs' = [pvs EXCEPT ![p] = NoPV])
      BY <2>5 DEF CtrlDeletePV
    <3>2. ASSUME NEW d \in Claims, pvs'[d] # pvs[d] PROVE claims[d] = "deleted"
      <4>0. pvs' = [pvs EXCEPT ![p] = NoPV]  BY <3>1, <3>2
      <4>1. d = p  BY <1>1, <3>2, <4>0
      <4>2. p \notin UserPVs  BY <4>1, ClaimAssumption
      <4>3. QED  BY <3>1, <4>1, <4>2 DEF Released
    <3>3. QED  BY <3>1, <3>2 DEF ClaimsInv
  <2>6. QED  BY <2>1, <2>2, <2>3, <2>4, <2>5
<1>5. CASE Environment
  <2>1. claims' = claims /\ prov' = prov
    BY <1>5 DEF Environment, CreateSnapshot, DeleteSnapshot, CreateEmptyData,
       TakeSnapshot, DeleteSnapshotData, DeleteUserPV, CreateUserPV
  <2>2. \A c \in Claims : pvs'[c] = pvs[c]
    <3>1. CASE \E p \in UserPVs : DeleteUserPV(p)
      <4>1. PICK p \in UserPVs : DeleteUserPV(p)  BY <3>1
      <4>2. pvs' = [pvs EXCEPT ![p] = NoPV]  BY <4>1 DEF DeleteUserPV
      <4>3. QED  BY <1>1, <4>2, ClaimAssumption
    <3>2. CASE \E p \in UserPVs, v \in VolIds : CreateUserPV(p, v)
      <4>1. PICK p \in UserPVs, v \in VolIds : CreateUserPV(p, v)  BY <3>2
      <4>2. \E r : pvs' = [pvs EXCEPT ![p] = r]  BY <4>1 DEF CreateUserPV
      <4>3. QED  BY <1>1, <4>2, ClaimAssumption
    <3>3. CASE ~(\E p \in UserPVs : DeleteUserPV(p))
               /\ ~(\E p \in UserPVs, v \in VolIds : CreateUserPV(p, v))
      BY <1>5, <3>3 DEF Environment, CreateSnapshot, DeleteSnapshot, CreateEmptyData,
         TakeSnapshot, DeleteSnapshotData
    <3>4. QED  BY <3>1, <3>2, <3>3
  <2>3. QED  BY <2>1, <2>2, ClaimsFrame
<1>6. CASE UNCHANGED vars
  BY <1>6 DEF vars, ClaimsInv
<1>7. QED
  BY <1>2, <1>3, <1>4, <1>5, <1>6 DEF Next, Provisioner

(* Only the controller's save and the user's deletion of a claim change   *)
(* the phase of a claim.                                                   *)
LEMMA ClaimsWriters ==
    ASSUME [Next]_vars
    PROVE  \/ claims' = claims
           \/ \E c \in Claims : CtrlSavePV(c)
           \/ \E c \in Claims : ReleaseClaim(c)
<1>1. CASE Provisioner
  BY <1>1 DEF Provisioner, ProvGetSnapshot, ProvGetData, ProvResolve, ProvRestore,
     Crash, Restart, CrashInDelete
<1>2. CASE Controller
  BY <1>2 DEF Controller, CtrlSaveFailed, CtrlDeletePV
<1>3. CASE Environment
  BY <1>3 DEF Environment, CreateSnapshot, DeleteSnapshot, CreateEmptyData,
     TakeSnapshot, DeleteSnapshotData, DeleteUserPV, CreateUserPV
<1>4. CASE UNCHANGED vars
  BY <1>4 DEF vars
<1>5. QED  BY <1>1, <1>2, <1>3, <1>4 DEF Next

(* A step that keeps the claims and their PVs is a stutter of ClaimBinding. *)
LEMMA BindingStutter ==
    ASSUME claims' = claims, \A c \in Claims : pvs'[c] = pvs[c]
    PROVE  UNCHANGED Binding!cvars
BY DEF Binding!cvars

LEMMA InitBinding == Init => Binding!Init
<1> SUFFICES ASSUME Init PROVE Binding!Init
  OBVIOUS
<1>1. \A c \in Claims : pvs[c] = NoPV /\ claims[c] = "pending"
  BY ClaimAssumption DEF Init, PVNames
<1>2. QED  BY <1>1 DEF Binding!Init, NoPV

(* The controller's save of the PV of a restored call binds the claim to   *)
(* the restored volume, which no PV of a bound or released claim names.    *)
LEMMA SaveIsBind ==
    ASSUME IInv, LiveInv, ClaimsInv, NEW c \in Claims, CtrlSavePV(c),
           NEW v, v = prov[c].vol
    PROVE  Binding!Bind(c, v)
<1>1. pvs \in [PVNames -> PVRec] /\ claims \in [Claims -> {"pending", "bound", "deleted"}]
  BY DEF IInv, TypeOK
<1>2. prov[c].pc = "restored" /\ v \in VolIds
  BY DEF CtrlSavePV, IInv, VolumesInUse
<1>3. claims[c] = "pending" /\ ~pvs[c].ex
  BY <1>2 DEF ClaimsInv
<1>4. \A d \in Claims : claims[d] = "bound" \/ (claims[d] = "deleted" /\ pvs[d].ex)
                        => pvs[d].ex /\ pvs[d].vol # v
  BY <1>2 DEF ClaimsInv, LiveInv, VolumesExclusive, PVNames
<1>5. /\ claims' = [claims EXCEPT ![c] = "bound"]
      /\ pvs' = [pvs EXCEPT ![c] = ProvisionedPV(c)]
      /\ ProvisionedPV(c).ex /\ ProvisionedPV(c).vol = v
  BY DEF CtrlSavePV, ProvisionedPV
<1>6. v \notin Binding!Held
  BY <1>1, <1>4 DEF Binding!Held
<1>7. QED
  BY <1>1, <1>3, <1>5, <1>6 DEF Binding!Bind, PVNames

(* The user's deletion of a bound claim releases it; its PV stays.         *)
LEMMA DeleteClaimIsRelease ==
    ASSUME IInv, ClaimsInv, NEW c \in Claims, ReleaseClaim(c)
    PROVE  Binding!Release(c)
<1>1. claims \in [Claims -> {"pending", "bound", "deleted"}]
  BY DEF IInv, TypeOK
<1>2. claims[c] = "bound" /\ pvs[c].ex
      /\ claims' = [claims EXCEPT ![c] = "deleted"] /\ pvs' = pvs
  BY DEF ReleaseClaim, ClaimsInv
<1>3. QED  BY <1>1, <1>2 DEF Binding!Release

(* A successful Delete of the PV of a released claim reclaims the claim.   *)
LEMMA DeleteIsReclaim ==
    ASSUME IInv, NEW p \in Claims, CtrlDeletePV(p), DeleteResult(pvs[p]) = "ok"
    PROVE  Binding!Reclaim(p)
<1>1. pvs \in [PVNames -> PVRec] /\ claims \in [Claims -> {"pending", "bound", "deleted"}]
  BY DEF IInv, TypeOK
<1>2. p \notin UserPVs  BY ClaimAssumption
<1>3. /\ claims[p] = "deleted" /\ pvs[p].ex /\ claims' = claims
      /\ pvs' = [pvs EXCEPT ![p] = NoPV]
  BY <1>2 DEF CtrlDeletePV, Released
<1>4. QED  BY <1>1, <1>3 DEF Binding!Reclaim, NoPV, PVNames

(* Every step of the provisioner, the controller and the environment is a  *)
(* step of ClaimBinding or leaves the claims and their volumes alone.       *)
LEMMA NextBinding ==
    IInv /\ LiveInv /\ ClaimsInv /\ [Next]_vars => [Binding!Next]_Binding!cvars
<1> SUFFICES ASSUME IInv, LiveInv, ClaimsInv, [Next]_vars
             PROVE  [Binding!Next]_Binding!cvars
  OBVIOUS
<1>1. pvs \in [PVNames -> PVRec]
  BY DEF IInv, TypeOK
<1>2. CASE \E c \in Claims : CtrlSavePV(c)
  <2>1. PICK c \in Claims : CtrlSavePV(c)  BY <1>2
  <2>2. PICK v \in VolIds : v = prov[c].vol
    BY <2>1 DEF CtrlSavePV, IInv, VolumesInUse
  <2>3. Binding!Bind(c, v)  BY <2>1, <2>2, SaveIsBind
  <2>4. \E w \in VolIds : Binding!Bind(c, w)  BY <2>2, <2>3
  <2>5. QED  BY <2>4 DEF Binding!Next
<1>3. CASE \E c \in Claims : ReleaseClaim(c)
  BY <1>3, DeleteClaimIsRelease DEF Binding!Next
<1>4. CASE \E p \in Claims : CtrlDeletePV(p) /\ DeleteResult(pvs[p]) = "ok"
  BY <1>4, DeleteIsReclaim DEF Binding!Next
<1>5. CASE ~(\E c \in Claims : CtrlSavePV(c)) /\ ~(\E c \in Claims : ReleaseClaim(c))
           /\ ~(\E p \in Claims : CtrlDeletePV(p) /\ DeleteResult(pvs[p]) = "ok")
  <2>1. claims' = claims  BY <1>5, ClaimsWriters
  <2>2. \A c \in Claims : pvs'[c] = pvs[c]
    <3>1. CASE \E p \in PVNames : CtrlDeletePV(p)
      <4>1. PICK p \in PVNames : CtrlDeletePV(p)  BY <3>1
      <4>2. CASE p \in Claims
        <5>1. DeleteResult(pvs[p]) # "ok"  BY <1>5, <4>1, <4>2
        <5>2. QED  BY <4>1, <5>1 DEF CtrlDeletePV
      <4>3. CASE p \notin Claims
        <5>1. pvs' = pvs \/ pvs' = [pvs EXCEPT ![p] = NoPV]  BY <4>1 DEF CtrlDeletePV
        <5>2. QED  BY <1>1, <4>3, <5>1 DEF PVNames
      <4>4. QED  BY <4>2, <4>3
    <3>2. CASE \E p \in UserPVs : DeleteUserPV(p)
      <4>1. PICK p \in UserPVs : DeleteUserPV(p)  BY <3>2
      <4>2. pvs' = [pvs EXCEPT ![p] = NoPV]  BY <4>1 DEF DeleteUserPV
      <4>3. QED  BY <1>1, <4>2, ClaimAssumption
    <3>3. CASE \E p \in UserPVs, v \in VolIds : CreateUserPV(p, v)
      <4>1. PICK p \in UserPVs, v \in VolIds : CreateUserPV(p, v)  BY <3>3
      <4>2. \E r : pvs' = [pvs EXCEPT ![p] = r]  BY <4>1 DEF CreateUserPV
      <4>3. QED  BY <1>1, <4>2, ClaimAssumption
    <3>4. QED  BY <1>5, <3>1, <3>2, <3>3, PVsWriters
  <2>3. QED  BY <2>1, <2>2, BindingStutter
<1>6. QED  BY <1>2, <1>3, <1>4, <1>5

(* The provisioner and its controller implement ClaimBinding, in both      *)
(* revisions: a claim is bound once, by the controller's save of the PV of *)
(* its restored volume, to a volume no PV of another bound or released     *)
(* claim names (Provision retries, failed saves and crashes included); it  *)
(* keeps that volume until the user deletes it, and its PV goes only by a  *)
(* successful Delete after that.                                           *)
THEOREM ClaimBindingRefinement == Spec => ClaimBindingSpec
<1>1. Init => IInv /\ LiveInv /\ ClaimsInv /\ Binding!Init
  BY InitIInv, InitLiveInv, InitClaims, InitBinding
<1>2. IInv /\ LiveInv /\ ClaimsInv /\ [Next]_vars => (IInv /\ LiveInv /\ ClaimsInv)'
  BY NextIInv, NextLiveInv, NextClaims
<1>3. IInv /\ LiveInv /\ ClaimsInv /\ [Next]_vars => [Binding!Next]_Binding!cvars
  BY NextBinding
<1>4. QED  BY <1>1, <1>2, <1>3, PTL DEF Spec, ClaimBindingSpec, Binding!Spec
=============================================================================
