----------------- MODULE SnapshotProvisionerRefinementProofs -----------------
(***************************************************************************)
(* Proof that SnapshotProvisioner implements the abstract VolumeLifecycle  *)
(* under the mapping Lifecycle of SnapshotProvisioner, for every value of  *)
(* the constants.  Every step of the system either leaves the volumes'     *)
(* state, creator and destroyer alone, or is a restore into a free name    *)
(* under the running identity (Create), or is a VolumeDelete of a live     *)
(* volume by the identity that created it (Destroy).  The last needs IInv: *)
(* Delete returns nil only for a PV annotated with the running identity,   *)
(* and AnnotationsTruthful says that identity created the PV's volume.     *)
(***************************************************************************)
EXTENDS SnapshotProvisionerProofs

(* A volume that has a destroyer is gone: free, live and junk volumes were *)
(* never destroyed.                                                        *)
DestroyedGone ==
    \A v \in VolIds : vols[v].delBy # None => vols[v].st = "gone"

(* A step that leaves the backend volumes alone is a stutter of the        *)
(* lifecycle.                                                              *)
LEMMA VolsStutter ==
    ASSUME vols' = vols PROVE UNCHANGED Lifecycle!lvars
BY DEF Lifecycle!lvars

(* A restore that writes the volume nv, made by the running identity, into *)
(* the free name v is the lifecycle's Create.                             *)
LEMMA CreateStep ==
    ASSUME IInv, DestroyedGone, NEW v \in VolIds, vols[v].st = "free",
           NEW nv \in VolRec, nv.st \in {"live", "junk"}, nv.by = self,
           nv.delBy = None, vols' = [vols EXCEPT ![v] = nv]
    PROVE  Lifecycle!Next
<1>1. vols \in [VolIds -> VolRec] /\ self \in Identities /\ vols[v].delBy = None
  BY DEF IInv, TypeOK, DestroyedGone
<1>2. /\ [x \in VolIds |-> vols'[x].st] = [[x \in VolIds |-> vols[x].st] EXCEPT ![v] = nv.st]
      /\ [x \in VolIds |-> vols'[x].by] = [[x \in VolIds |-> vols[x].by] EXCEPT ![v] = self]
      /\ [x \in VolIds |-> vols'[x].delBy] = [x \in VolIds |-> vols[x].delBy]
  BY <1>1
<1>3. \E i \in Identities : Lifecycle!Create(v, i)
  BY <1>1, <1>2 DEF Lifecycle!Create
<1>4. QED  BY <1>3 DEF Lifecycle!Next

(* Delete(pv) of a PV whose annotation, if it is one of our identities,    *)
(* names its volume's creator is a Destroy of that volume or a stutter.    *)
LEMMA DestroyStep ==
    ASSUME IInv, NEW pv, pv.vol \in VolIds,
           pv.owner \in Identities => vols[pv.vol].by = pv.owner,
           vols' = VolsAfterDelete(pv)
    PROVE  [Lifecycle!Next]_Lifecycle!lvars
<1> DEFINE w == pv.vol
<1>1. vols \in [VolIds -> VolRec] /\ self \in Identities
  BY DEF IInv, TypeOK
<1>2. CASE Version = "crd" /\ DeleteResult(pv) = "ok"
  <2>1. pv.owner = self  BY <1>2, DeleteOwned
  <2>2. vols[w].st = "live" /\ vols[w].by = self
    BY <1>1, <1>2, <2>1 DEF DeleteResult, DeleteResultCRD
  <2>3. vols' = [vols EXCEPT ![w].st = "gone", ![w].delBy = self]
    BY <1>2 DEF VolsAfterDelete
  <2>4. /\ [x \in VolIds |-> vols'[x].st] = [[x \in VolIds |-> vols[x].st] EXCEPT ![w] = "gone"]
        /\ [x \in VolIds |-> vols'[x].by] = [x \in VolIds |-> vols[x].by]
        /\ [x \in VolIds |-> vols'[x].delBy] =
              [[x \in VolIds |-> vols[x].delBy] EXCEPT ![w] = vols[w].by]
    <3>1. vols[w] \in VolRec
      BY <1>1
    <3>2. /\ vols'[w] = [vols[w] EXCEPT !.st = "gone", !.delBy = self]
          /\ \A x \in VolIds \ {w} : vols'[x] = vols[x]
      BY <1>1, <2>3
    <3>3. vols'[w].st = "gone" /\ vols'[w].by = vols[w].by /\ vols'[w].delBy = self
      BY <3>1, <3>2 DEF VolRec
    <3>4. QED  BY <1>1, <2>2, <3>2, <3>3
  <2>5. Lifecycle!Destroy(w)
    BY <1>1, <2>2, <2>4 DEF Lifecycle!Destroy
  <2>6. QED  BY <2>5 DEF Lifecycle!Next
<1>3. CASE ~(Version = "crd" /\ DeleteResult(pv) = "ok")
  BY <1>3, VolsStutter DEF VolsAfterDelete
<1>4. QED  BY <1>2, <1>3

(* The plugin's SnapshotRestore and the rest of Provision: a successful    *)
(* restore, and a failed hostPath restore that leaves its directory, are   *)
(* Creates of a free name; every other failure leaves the volumes alone.   *)
LEMMA RestoreRefines ==
    ASSUME IInv, DestroyedGone, NEW c \in Claims, ProvRestore(c)
    PROVE  [Lifecycle!Next]_Lifecycle!lvars
<1> DEFINE rec == prov[c].rec
<1>1. /\ prov[c] \in ProvRec /\ self \in Identities
      /\ rec.loc \in ArtIds \cup {None} /\ prov[c].type \in VolTypes \cup {None}
  <2>1. prov[c] \in ProvRec /\ self \in Identities
    BY DEF ProvRestore, IInv, TypeOK
  <2>2. rec \in DataRec  BY <2>1 DEF ProvRec
  <2>3. QED  BY <2>1, <2>2 DEF DataRec, ProvRec, VolTypes
<1>2. PICK v \in VolIds :
        \/ /\ IF prov[c].type = "hostPath" THEN HostPathRestoreOK(c, v)
                                           ELSE CloudRestoreOK(c, v)
           /\ prov' = [prov EXCEPT ![c].pc = "restored", ![c].vol = v]
        \/ /\ IF prov[c].type = "hostPath" THEN HostPathRestoreFail(c, v)
                                           ELSE CloudRestoreFail(c, v)
           /\ IF Version = "tpr" THEN RestoreErrorTPR(c) ELSE RestoreErrorCRD(c)
  BY DEF ProvRestore
<1>3. CASE IF prov[c].type = "hostPath" THEN HostPathRestoreOK(c, v)
                                        ELSE CloudRestoreOK(c, v)
  <2>1. PICK t \in VolTypes \cup {None} :
          vols[v].st = "free" /\ vols' = [vols EXCEPT ![v] = RestoredVol(t, rec.loc)]
    BY <1>1, <1>3 DEF HostPathRestoreOK, CloudRestoreOK, VolTypes, PluginTags
  <2>2. /\ RestoredVol(t, rec.loc) \in VolRec
        /\ RestoredVol(t, rec.loc).st \in {"live", "junk"}
        /\ RestoredVol(t, rec.loc).by = self /\ RestoredVol(t, rec.loc).delBy = None
    BY <1>1 DEF RestoredVol, VolRec, VolStates, Ids
  <2>3. QED  BY <2>1, <2>2, CreateStep
<1>4. CASE IF prov[c].type = "hostPath" THEN HostPathRestoreFail(c, v)
                                        ELSE CloudRestoreFail(c, v)
  <2>1. CASE vols' = vols
    BY <2>1, VolsStutter
  <2>2. CASE vols' # vols
    <3> DEFINE jv == [RestoredVol("hostPath", rec.loc) EXCEPT !.st = "junk"]
    <3>1. vols[v].st = "free" /\ vols' = [vols EXCEPT ![v] = jv]
      BY <1>4, <2>2 DEF HostPathRestoreFail, CloudRestoreFail
    <3>2. jv \in VolRec /\ jv.st = "junk" /\ jv.by = self /\ jv.delBy = None
      BY <1>1 DEF RestoredVol, VolRec, VolStates, Ids, VolTypes, PluginTags
    <3>3. QED  BY <3>1, <3>2, CreateStep
  <2>3. QED  BY <2>1, <2>2
<1>5. QED  BY <1>2, <1>3, <1>4

(* Every step of the system is a step of the lifecycle or leaves the      *)
(* volumes' state, creator and destroyer unchanged.                        *)
LEMMA NextRefines ==
    IInv /\ DestroyedGone /\ [Next]_vars => [Lifecycle!Next]_Lifecycle!lvars
<1> SUFFICES ASSUME IInv, DestroyedGone, [Next]_vars
             PROVE  [Lifecycle!Next]_Lifecycle!lvars
  OBVIOUS
<1>1. CASE \E c \in Claims : ProvGetSnapshot(c) \/ ProvGetData(c) \/ ProvResolve(c)
  BY <1>1, VolsStutter DEF ProvGetSnapshot, ProvGetData, ProvResolve
<1>2. CASE \E c \in Claims : ProvRestore(c)
  BY <1>2, RestoreRefines
<1>3. CASE Crash \/ Restart
  BY <1>3, VolsStutter DEF Crash, Restart
<1>4. CASE Controller
  <2>1. PICK c \in Claims, p \in PVNames :
          CtrlSavePV(c) \/ CtrlSaveFailed(c) \/ ReleaseClaim(c) \/ CtrlDeletePV(p)
    BY <1>4 DEF Controller
  <2>2. CASE CtrlSavePV(c) \/ ReleaseClaim(c)
    BY <2>2, VolsStutter DEF CtrlSavePV, ReleaseClaim
  <2>3. CASE CtrlSaveFailed(c)
    <3>1. /\ ProvisionedPV(c).vol \in VolIds /\ ProvisionedPV(c).owner = self
          /\ vols[ProvisionedPV(c).vol].by = self
      BY <2>3, RestoredFacts DEF CtrlSaveFailed
    <3>2. QED  BY <2>3, <3>1, DestroyStep DEF CtrlSaveFailed
  <2>4. CASE CtrlDeletePV(p)
    <3>1. /\ pvs[p].vol \in VolIds
          /\ pvs[p].owner \in Identities => vols[pvs[p].vol].by = pvs[p].owner
      BY <2>4 DEF CtrlDeletePV, IInv, VolumesInUse, AnnotationsTruthful
    <3>2. QED  BY <2>4, <3>1, DestroyStep DEF CtrlDeletePV
  <2>5. QED  BY <2>1, <2>2, <2>3, <2>4
<1>5. CASE Environment
  BY <1>5, VolsStutter DEF Environment, CreateSnapshot, DeleteSnapshot,
     CreateEmptyData, TakeSnapshot, DeleteSnapshotData, DeleteUserPV, CreateUserPV
<1>6. CASE UNCHANGED vars
  BY <1>6, VolsStutter DEF vars
<1>7. CASE \E p \in PVNames : CrashInDelete(p)
  <2>1. PICK p \in PVNames : CrashInDelete(p)
    BY <1>7
  <2>2. /\ pvs[p].vol \in VolIds
        /\ pvs[p].owner \in Identities => vols[pvs[p].vol].by = pvs[p].owner
    BY <2>1 DEF CrashInDelete, IInv, VolumesInUse, AnnotationsTruthful
  <2>3. QED  BY <2>1, <2>2, DestroyStep DEF CrashInDelete
<1>8. QED
  BY <1>1, <1>2, <1>3, <1>4, <1>5, <1>6, <1>7 DEF Next, Provisioner

(* DestroyedGone holds after any step of the lifecycle: Create writes only *)
(* a free name, which has no destroyer, and Destroy makes its volume gone. *)
LEMMA NextDestroyedGone ==
    ASSUME IInv, IInv', DestroyedGone, [Lifecycle!Next]_Lifecycle!lvars
    PROVE  DestroyedGone'
<1>1. vols \in [VolIds -> VolRec] /\ vols' \in [VolIds -> VolRec]
  BY DEF IInv, TypeOK
<1>2. CASE \E v \in VolIds : Lifecycle!Destroy(v)
  <2>1. PICK v \in VolIds : Lifecycle!Destroy(v)
    BY <1>2
  <2>2. vols'[v].st = "gone"
        /\ \A x \in VolIds \ {v} : vols'[x].st = vols[x].st /\ vols'[x].delBy = vols[x].delBy
    <3>1. [x \in VolIds |-> vols'[x].st] = [[x \in VolIds |-> vols[x].st] EXCEPT ![v] = "gone"]
          /\ [x \in VolIds |-> vols'[x].delBy] =
               [[x \in VolIds |-> vols[x].delBy] EXCEPT ![v] = vols[v].by]
      BY <2>1 DEF Lifecycle!Destroy
    <3>2. QED  BY <3>1
  <2>3. QED  BY <2>2 DEF DestroyedGone
<1>3. CASE \E v \in VolIds, i \in Identities : Lifecycle!Create(v, i)
  <2>1. PICK v \in VolIds, i \in Identities : Lifecycle!Create(v, i)
    BY <1>3
  <2>2. vols[v].st = "free" /\ \A x \in VolIds : vols'[x].delBy = vols[x].delBy
    <3>1. vols[v].st = "free"
          /\ [x \in VolIds |-> vols'[x].delBy] = [x \in VolIds |-> vols[x].delBy]
          /\ \E s \in {"live", "junk"} :
               [x \in VolIds |-> vols'[x].st] = [[x \in VolIds |-> vols[x].st] EXCEPT ![v] = s]
      BY <2>1 DEF Lifecycle!Create
    <3>2. QED  BY <3>1
  <2>3. \A x \in VolIds \ {v} : vols'[x].st = vols[x].st
    <3>1. \E s \in {"live", "junk"} :
            [x \in VolIds |-> vols'[x].st] = [[x \in VolIds |-> vols[x].st] EXCEPT ![v] = s]
      BY <2>1 DEF Lifecycle!Create
    <3>2. QED  BY <3>1
  <2>4. QED  BY <2>2, <2>3 DEF DestroyedGone
<1>4. CASE UNCHANGED Lifecycle!lvars
  <2>1. \A x \in VolIds : vols'[x].st = vols[x].st /\ vols'[x].delBy = vols[x].delBy
    <3>1. [x \in VolIds |-> vols'[x].st] = [x \in VolIds |-> vols[x].st]
          /\ [x \in VolIds |-> vols'[x].delBy] = [x \in VolIds |-> vols[x].delBy]
      BY <1>4 DEF Lifecycle!lvars
    <3>2. QED  BY <3>1
  <2>2. QED  BY <2>1 DEF DestroyedGone
<1>5. QED  BY <1>2, <1>3, <1>4 DEF Lifecycle!Next

(* The initial volumes are a start state of the lifecycle, and none has a  *)
(* destroyer.                                                              *)
LEMMA InitRefines == Init => Lifecycle!Init /\ DestroyedGone
<1> SUFFICES ASSUME Init PROVE Lifecycle!Init /\ DestroyedGone
  OBVIOUS
<1>1. vols = InitVol /\ InitVol \in [VolIds -> VolRec]
  BY InitAssumption DEF Init
<1>2. \A v \in VolIds : /\ InitVol[v].st \in {"free", "live"}
                        /\ InitVol[v].by \notin Identities
                        /\ InitVol[v].delBy = None
  BY InitAssumption, IdAssumption, NoneAssumption DEF Ids
<1>3. Lifecycle!Init
  BY <1>1, <1>2 DEF Lifecycle!Init
<1>4. DestroyedGone
  BY <1>1, <1>2 DEF DestroyedGone
<1>5. QED  BY <1>3, <1>4

(* The provisioner implements the volume lifecycle: through restarts with  *)
(* new identities, failed restores that leave junk, failed PV saves and    *)
(* Deletes of every PV, no backend volume is written unless its name was   *)
(* free, and none is destroyed unless it is live and the deleting identity *)
(* created it.                                                             *)
THEOREM Refinement == Spec => VolumeLifecycleSpec
<1>1. Init => IInv /\ DestroyedGone /\ Lifecycle!Init
  BY InitIInv, InitRefines
<1>2. IInv /\ DestroyedGone /\ [Next]_vars => [Lifecycle!Next]_Lifecycle!lvars
  BY NextRefines
<1>3. IInv /\ DestroyedGone /\ [Next]_vars => IInv' /\ DestroyedGone'
  BY NextIInv, NextRefines, NextDestroyedGone
<1>4. QED
  BY <1>1, <1>2, <1>3, PTL DEF Spec, VolumeLifecycleSpec, Lifecycle!Spec
=============================================================================
