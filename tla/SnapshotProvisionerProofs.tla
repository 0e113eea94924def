--------------------- MODULE SnapshotProvisionerProofs ---------------------
(***************************************************************************)
(* Proofs about SnapshotProvisioner for every value of its constants:      *)
(* type correctness, and that Delete destroys only volumes restored by     *)
(* the identity that deletes them (OwnershipSafety), in both revisions.    *)
(* The argument: IInv is inductive.  Its parts beyond OwnershipSafety say  *)
(* that a PV's identity annotation names the identity that restored its    *)
(* volume (AnnotationsTruthful), that a volume a PV or a restore in        *)
(* progress uses is not free and so is never picked by another restore     *)
(* (VolumesInUse), and that a process that is down, and may come back      *)
(* with a new identity, has no restore in progress (DownIdle).             *)
(***************************************************************************)
EXTENDS SnapshotProvisioner, TLAPS

(* The plugin map buildVolumePlugins builds holds only plugin tags.        *)
LEMMA BuildTyped ==
    ASSUME NEW ok \in BOOLEAN
    PROVE  BuildVolumePlugins(ok) \subseteq PluginTags
<1>1. CloudProvider # None => CloudTag[CloudProvider] \in PluginTags
  <2>1. CASE CloudProvider = "aws"        BY <2>1 DEF CloudTag, PluginTags
  <2>2. CASE CloudProvider = "gce"        BY <2>2 DEF CloudTag, PluginTags
  <2>3. CASE CloudProvider = "openstack"  BY <2>3 DEF CloudTag, PluginTags
  <2>4. QED  BY <2>1, <2>2, <2>3, CloudAssumption
<1>2. QED
  BY <1>1 DEF BuildVolumePlugins, BuildVolumePluginsTPR, BuildVolumePluginsCRD,
              PluginTags

LEMMA InitIInv == Init => IInv
<1> SUFFICES ASSUME Init PROVE IInv
  OBVIOUS
<1>1. pvs \in [PVNames -> PVRec]
  <2>1. NoPV \in PVRec  BY DEF NoPV, PVRec
  <2>2. QED  BY <2>1, InitAssumption DEF Init
<1>2. plugins \subseteq PluginTags
  BY BuildTyped DEF Init
<1>3. prov \in [Claims -> ProvRec]
  <2>1. NoData \in DataRec  BY DEF NoData, DataRec
  <2>2. IdleProv \in ProvRec  BY <2>1 DEF IdleProv, ProvRec
  <2>3. QED  BY <2>2 DEF Init
<1>4. /\ snapshots \in [SnapNames -> SnapRec]
      /\ snapshotData \in [DataNames -> DataRec]
      /\ vols \in [VolIds -> VolRec]
      /\ arts \in [ArtIds -> ArtStates]
  BY InitAssumption DEF Init, NoSnap, SnapRec, NoData, DataRec, ArtStates
<1>5. /\ claims \in [Claims -> {"pending", "bound", "deleted"}]
      /\ self \in Identities /\ up \in BOOLEAN
      /\ outcome \in [Claims -> Outcomes]
      /\ idsUsed \subseteq Identities
      /\ crashes \in 0..MaxCrashes
      /\ boundTo \in [SnapNames -> SUBSET ArtIds]
  BY BoundAssumption DEF Init, Outcomes
<1>6. TypeOK
  BY <1>1, <1>2, <1>3, <1>4, <1>5 DEF TypeOK
<1>7. VolumesInUse
  BY InitAssumption DEF Init, VolumesInUse, NoPV, IdleProv
<1>8. AnnotationsTruthful
  BY InitAssumption, IdAssumption, NoneAssumption
     DEF Init, AnnotationsTruthful, NoPV, IdleProv, Ids
<1>9. DownIdle /\ ProvWellFormed /\ OwnershipSafety
  BY InitAssumption DEF Init, DownIdle, ProvWellFormed, OwnershipSafety, IdleProv
<1>10. QED
  BY <1>6, <1>7, <1>8, <1>9 DEF IInv

(* Replacing one value of a function keeps it in its function set.        *)
LEMMA UpdateTyped ==
    ASSUME NEW S, NEW T, NEW f \in [S -> T], NEW x \in S, NEW y \in T
    PROVE  [f EXCEPT ![x] = y] \in [S -> T]
OBVIOUS

(* A function all of whose values lie in T is in the function set.       *)
LEMMA FunTyped ==
    ASSUME NEW S, NEW T, NEW f, f = [x \in S |-> f[x]], \A x \in S : f[x] \in T
    PROVE  f \in [S -> T]
OBVIOUS

(* A step that changes only the Provision calls in progress and their     *)
(* outcomes, while the process is up, and that starts no new "restored"    *)
(* call, preserves IInv.                                                   *)
LEMMA ProvOnlyStep ==
    ASSUME IInv, up,
           UNCHANGED <<snapshots, snapshotData, pvs, claims, vols, arts, plugins,
                       self, up, idsUsed, crashes, boundTo>>,
           prov' \in [Claims -> ProvRec], outcome' \in [Claims -> Outcomes],
           \A d \in Claims : prov'[d].pc = "restored" => prov'[d] = prov[d],
           \A d \in Claims : prov'[d].pc # "idle" => prov'[d].data \in DataNames
    PROVE  IInv'
<1>1. TypeOK'
  BY DEF IInv, TypeOK
<1>2. VolumesInUse'
  BY DEF IInv, VolumesInUse
<1>3. AnnotationsTruthful'
  BY DEF IInv, AnnotationsTruthful
<1>4. DownIdle' /\ ProvWellFormed' /\ OwnershipSafety'
  BY DEF IInv, DownIdle, ProvWellFormed, OwnershipSafety
<1>5. QED
  BY <1>1, <1>2, <1>3, <1>4 DEF IInv

(* The idle call record is a call record.                                  *)
LEMMA IdleTyped == IdleProv \in ProvRec /\ IdleProv.pc = "idle"
<1>1. NoData \in DataRec  BY DEF NoData, DataRec
<1>2. QED  BY <1>1 DEF IdleProv, ProvRec

(* Changing the call of one claim c to a call record that is not          *)
(* "restored" keeps the calls typed, well formed, and every "restored"     *)
(* call as it was.                                                         *)
LEMMA ProvUpdate ==
    ASSUME IInv, NEW c \in Claims,
           prov' = [d \in Claims |-> prov'[d]],
           \A d \in Claims \ {c} : prov'[d] = prov[d],
           prov'[c] \in ProvRec, prov'[c].pc # "restored",
           prov'[c].pc # "idle" => prov'[c].data \in DataNames
    PROVE  /\ prov' \in [Claims -> ProvRec]
           /\ \A d \in Claims : prov'[d].pc = "restored" => prov'[d] = prov[d]
           /\ \A d \in Claims : prov'[d].pc # "idle" => prov'[d].data \in DataNames
<1>1. prov \in [Claims -> ProvRec]
  BY DEF IInv, TypeOK
<1>2. \A d \in Claims : /\ prov'[d] \in ProvRec
                        /\ prov'[d].pc = "restored" => prov'[d] = prov[d]
                        /\ prov'[d].pc # "idle" => prov'[d].data \in DataNames
  <2> TAKE d \in Claims
  <2>1. CASE d = c
    BY <2>1
  <2>2. CASE d # c
    BY <2>2, <1>1 DEF IInv, ProvWellFormed
  <2>3. QED  BY <2>1, <2>2
<1>3. QED
  BY <1>2, FunTyped

(* Fail resets the call of c to idle and records an outcome.              *)
LEMMA FailStep ==
    ASSUME IInv, up, NEW c \in Claims, NEW k \in Outcomes, Fail(c, k),
           UNCHANGED <<snapshots, snapshotData, pvs, claims, vols, arts, plugins,
                       self, up, idsUsed, crashes, boundTo>>
    PROVE  IInv'
<1>1. outcome' \in [Claims -> Outcomes]
  BY UpdateTyped DEF IInv, TypeOK, Fail
<1>2. prov \in [Claims -> ProvRec]
  BY DEF IInv, TypeOK
<1>3. /\ prov' = [d \in Claims |-> prov'[d]]
      /\ \A d \in Claims \ {c} : prov'[d] = prov[d]
      /\ prov'[c] = IdleProv
  BY <1>2 DEF Fail
<1>4. QED
  BY <1>1, <1>3, IdleTyped, ProvUpdate, ProvOnlyStep

(* The checks on the claim and the Get of the VolumeSnapshot.              *)
LEMMA GetSnapshotStep ==
    ASSUME IInv, NEW c \in Claims, ProvGetSnapshot(c) PROVE IInv'
<1> DEFINE sn == ClaimSnapshot[c]
<1>1. UNCHANGED <<snapshots, snapshotData, pvs, claims, vols, arts, plugins,
                  self, up, idsUsed, crashes, boundTo>> /\ up
  BY DEF ProvGetSnapshot, recordVars, processVars
<1>2. CASE \/ c \in ClaimSelector \/ sn = None \/ ~snapshots[sn].ex
           \/ snapshots[sn].data = None
  <2>1. \E k \in Outcomes : Fail(c, k)
    BY <1>2 DEF ProvGetSnapshot, Outcomes
  <2>2. QED
    BY <1>1, <2>1, FailStep
<1>3. CASE c \notin ClaimSelector /\ sn # None /\ snapshots[sn].ex
           /\ snapshots[sn].data # None
  <2>1. sn \in SnapNames /\ snapshots[sn].data \in DataNames
    BY <1>3, ClaimAssumption DEF IInv, TypeOK, SnapRec
  <2>2. prov' = [prov EXCEPT ![c].pc = "gotSnap", ![c].data = snapshots[sn].data]
        /\ outcome' = outcome
    BY <1>3 DEF ProvGetSnapshot
  <2>3. prov \in [Claims -> ProvRec]
    BY DEF IInv, TypeOK
  <2>4. /\ prov' = [d \in Claims |-> prov'[d]]
        /\ \A d \in Claims \ {c} : prov'[d] = prov[d]
        /\ prov'[c] = [prov[c] EXCEPT !.pc = "gotSnap", !.data = snapshots[sn].data]
    BY <2>2, <2>3
  <2>5. prov'[c] \in ProvRec /\ prov'[c].pc = "gotSnap"
        /\ prov'[c].data \in DataNames
    <3>1. prov[c] \in ProvRec
      BY <2>3
    <3>2. [prov[c] EXCEPT !.pc = "gotSnap", !.data = snapshots[sn].data] \in ProvRec
      BY <2>1, <3>1 DEF ProvRec
    <3>3. QED  BY <2>1, <2>4, <3>2
  <2>6. QED
    BY <1>1, <2>2, <2>4, <2>5, ProvUpdate, ProvOnlyStep DEF IInv, TypeOK
<1>4. QED
  BY <1>2, <1>3
(* The Get of the VolumeSnapshotData.                                      *)
LEMMA GetDataStep ==
    ASSUME IInv, NEW c \in Claims, ProvGetData(c) PROVE IInv'
<1> DEFINE dn == prov[c].data
<1>1. UNCHANGED <<snapshots, snapshotData, pvs, claims, vols, arts, plugins,
                  self, up, idsUsed, crashes, boundTo>> /\ up
  BY DEF ProvGetData, recordVars, processVars
<1>2. CASE ~snapshotData[dn].ex
  <2>1. Fail(c, "DataNotFound") /\ "DataNotFound" \in Outcomes
    BY <1>2 DEF ProvGetData, Outcomes
  <2>2. QED
    BY <1>1, <2>1, FailStep
<1>3. CASE snapshotData[dn].ex
  <2>1. prov \in [Claims -> ProvRec] /\ dn \in DataNames
    BY DEF ProvGetData, IInv, TypeOK, ProvWellFormed
  <2>2. snapshotData[dn] \in DataRec
    BY <2>1 DEF IInv, TypeOK
  <2>3. prov' = [prov EXCEPT ![c].pc = "gotData", ![c].rec = snapshotData[dn]]
        /\ outcome' = outcome
    BY <1>3 DEF ProvGetData
  <2>4. /\ prov' = [d \in Claims |-> prov'[d]]
        /\ \A d \in Claims \ {c} : prov'[d] = prov[d]
        /\ prov'[c] = [prov[c] EXCEPT !.pc = "gotData", !.rec = snapshotData[dn]]
    BY <2>1, <2>3
  <2>5. prov'[c] \in ProvRec /\ prov'[c].pc = "gotData" /\ prov'[c].data \in DataNames
    <3>1. prov[c] \in ProvRec
      BY <2>1
    <3>2. [prov[c] EXCEPT !.pc = "gotData", !.rec = snapshotData[dn]] \in ProvRec
      BY <2>2, <3>1 DEF ProvRec
    <3>3. QED  BY <2>1, <2>4, <3>2
  <2>6. QED
    BY <1>1, <2>3, <2>4, <2>5, ProvUpdate, ProvOnlyStep DEF IInv, TypeOK
<1>4. QED
  BY <1>2, <1>3

(* snapshotRestore's choice of volume type, in either revision.           *)
LEMMA ResolveStep ==
    ASSUME IInv, NEW c \in Claims, ProvResolve(c) PROVE IInv'
<1>1. UNCHANGED <<snapshots, snapshotData, pvs, claims, vols, arts, plugins,
                  self, up, idsUsed, crashes, boundTo>> /\ up
  BY DEF ProvResolve, recordVars, processVars
<1>2. prov \in [Claims -> ProvRec] /\ prov[c] \in ProvRec /\ prov[c].pc = "gotData"
      /\ prov[c].data \in DataNames /\ plugins \subseteq PluginTags
  BY DEF ProvResolve, IInv, TypeOK, ProvWellFormed
(* The success branch of either revision sets the type to a plugin tag.   *)
<1>3. ASSUME NEW t \in PluginTags,
             prov' = [prov EXCEPT ![c].pc = "resolved", ![c].type = t],
             outcome' = outcome
      PROVE  IInv'
  <2>1. /\ prov' = [d \in Claims |-> prov'[d]]
        /\ \A d \in Claims \ {c} : prov'[d] = prov[d]
        /\ prov'[c] = [prov[c] EXCEPT !.pc = "resolved", !.type = t]
    BY <1>2, <1>3
  <2>2. [prov[c] EXCEPT !.pc = "resolved", !.type = t] \in ProvRec
    BY <1>2 DEF ProvRec
  <2>3. prov'[c] \in ProvRec /\ prov'[c].pc = "resolved" /\ prov'[c].data \in DataNames
    BY <1>2, <2>1, <2>2
  <2>4. QED
    BY <1>1, <1>3, <2>1, <2>3, ProvUpdate, ProvOnlyStep DEF IInv, TypeOK
<1>4. CASE Version = "tpr"
  <2> DEFINE kind == prov[c].rec.kind
  <2>1. ResolveTPR(c)
    BY <1>4 DEF ProvResolve
  <2>2. CASE kind = None \/ kind \notin plugins
    BY <1>1, <2>1, <2>2, FailStep DEF ResolveTPR, Outcomes
  <2>3. CASE kind # None /\ kind \in plugins
    BY <1>2, <2>1, <2>3, <1>3 DEF ResolveTPR
  <2>4. QED  BY <2>2, <2>3
<1>5. CASE Version # "tpr"
  <2> DEFINE ref == prov[c].rec.pvRef
  <2>1. ResolveCRD(c)
    BY <1>5 DEF ProvResolve
  <2>2. CASE ref = None \/ ~pvs[ref].ex \/ pvs[ref].type \notin plugins
    <3>1. \E k \in Outcomes : Fail(c, k)
      BY <2>1, <2>2 DEF ResolveCRD, Outcomes
    <3>2. QED  BY <1>1, <3>1, FailStep
  <2>3. CASE ref # None /\ pvs[ref].ex /\ pvs[ref].type \in plugins
    BY <1>2, <2>1, <2>3, <1>3 DEF ResolveCRD
  <2>4. QED  BY <2>2, <2>3
<1>6. QED  BY <1>4, <1>5
(* A Provision step that may also create one backend volume: volumes in  *)
(* use keep their record, and every "restored" call names a volume in use  *)
(* that the running identity created.                                      *)
LEMMA ProvVolStep ==
    ASSUME IInv,
           UNCHANGED <<snapshots, snapshotData, pvs, claims, arts, plugins,
                       self, idsUsed, crashes, boundTo>>,
           vols' \in [VolIds -> VolRec],
           \A x \in VolIds : vols[x].st # "free" => vols'[x] = vols[x],
           OwnershipSafety',
           up' \in BOOLEAN, ~up' => \A d \in Claims : prov'[d].pc = "idle",
           prov' \in [Claims -> ProvRec], outcome' \in [Claims -> Outcomes],
           \A d \in Claims : prov'[d].pc = "restored" =>
                /\ prov'[d].vol \in VolIds /\ vols'[prov'[d].vol].st # "free"
                /\ vols'[prov'[d].vol].by = self,
           \A d \in Claims : prov'[d].pc # "idle" => prov'[d].data \in DataNames
    PROVE  IInv'
<1>1. TypeOK'
  BY DEF IInv, TypeOK
<1>2. \A p \in PVNames : pvs[p].ex => vols'[pvs[p].vol] = vols[pvs[p].vol]
  BY DEF IInv, VolumesInUse
<1>3. VolumesInUse'
  BY <1>2 DEF IInv, VolumesInUse
<1>4. AnnotationsTruthful'
  BY <1>2 DEF IInv, AnnotationsTruthful
<1>5. DownIdle' /\ ProvWellFormed'
  BY DEF DownIdle, ProvWellFormed
<1>6. QED
  BY <1>1, <1>3, <1>4, <1>5 DEF IInv

(* The backend volumes after a restore that picks the free volume v and    *)
(* leaves nv there.                                                        *)
LEMMA FreshVolume ==
    ASSUME IInv, NEW v \in VolIds, vols[v].st = "free", NEW nv \in VolRec,
           nv.st \in {"live", "junk"}, vols' = [vols EXCEPT ![v] = nv]
    PROVE  /\ vols' \in [VolIds -> VolRec]
           /\ \A x \in VolIds : vols[x].st # "free" => vols'[x] = vols[x]
           /\ OwnershipSafety'
BY DEF IInv, TypeOK, OwnershipSafety
(* The plugin's SnapshotRestore and the rest of Provision.  A successful *)
(* restore takes a free volume, so it never overwrites a volume a PV or    *)
(* another call uses; a failed one leaves at most a junk volume, and in    *)
(* CRD takes the process down with every call in progress.                 *)
LEMMA RestoreStep ==
    ASSUME IInv, NEW c \in Claims, ProvRestore(c) PROVE IInv'
<1> DEFINE rec == prov[c].rec
<1>1. /\ UNCHANGED <<snapshots, snapshotData, pvs, claims, arts, plugins,
                     self, idsUsed, crashes, boundTo>>
      /\ up /\ prov[c].pc = "resolved"
  BY DEF ProvRestore, recordVars
<1>2. /\ prov \in [Claims -> ProvRec] /\ prov[c] \in ProvRec
      /\ prov[c].data \in DataNames /\ self \in Identities
      /\ outcome \in [Claims -> Outcomes]
  BY <1>1 DEF IInv, TypeOK, ProvWellFormed
<1>3. rec.loc \in ArtIds \cup {None} /\ prov[c].type \in VolTypes \cup {None}
  <2>1. rec \in DataRec  BY <1>2 DEF ProvRec
  <2>2. QED  BY <1>2, <2>1 DEF DataRec, ProvRec, VolTypes
<1>4. PICK v \in VolIds :
        \/ /\ IF prov[c].type = "hostPath" THEN HostPathRestoreOK(c, v)
                                           ELSE CloudRestoreOK(c, v)
           /\ prov' = [prov EXCEPT ![c].pc = "restored", ![c].vol = v]
           /\ UNCHANGED <<outcome, up>>
        \/ /\ IF prov[c].type = "hostPath" THEN HostPathRestoreFail(c, v)
                                           ELSE CloudRestoreFail(c, v)
           /\ IF Version = "tpr" THEN RestoreErrorTPR(c) ELSE RestoreErrorCRD(c)
  BY DEF ProvRestore
<1>5. CASE /\ IF prov[c].type = "hostPath" THEN HostPathRestoreOK(c, v)
                                            ELSE CloudRestoreOK(c, v)
           /\ prov' = [prov EXCEPT ![c].pc = "restored", ![c].vol = v]
           /\ UNCHANGED <<outcome, up>>
  <2>1. PICK t \in VolTypes \cup {None} :
          vols[v].st = "free" /\ vols' = [vols EXCEPT ![v] = RestoredVol(t, rec.loc)]
    BY <1>3, <1>5 DEF HostPathRestoreOK, CloudRestoreOK, VolTypes, PluginTags
  <2>2. RestoredVol(t, rec.loc) \in VolRec /\ RestoredVol(t, rec.loc).st = "live"
        /\ RestoredVol(t, rec.loc).by = self
    BY <1>2, <1>3 DEF RestoredVol, VolRec, VolStates, Ids
  <2>3. /\ vols' \in [VolIds -> VolRec]
        /\ \A x \in VolIds : vols[x].st # "free" => vols'[x] = vols[x]
        /\ OwnershipSafety'
        /\ vols'[v] = RestoredVol(t, rec.loc)
    BY <2>1, <2>2, FreshVolume DEF IInv, TypeOK
  <2>4. /\ prov' = [d \in Claims |-> prov'[d]]
        /\ \A d \in Claims \ {c} : prov'[d] = prov[d]
        /\ prov'[c] = [prov[c] EXCEPT !.pc = "restored", !.vol = v]
    BY <1>2, <1>5
  <2>5. [prov[c] EXCEPT !.pc = "restored", !.vol = v] \in ProvRec
    BY <1>2 DEF ProvRec
  <2>6. \A d \in Claims :
          /\ prov'[d] \in ProvRec
          /\ prov'[d].pc # "idle" => prov'[d].data \in DataNames
          /\ prov'[d].pc = "restored" =>
                /\ prov'[d].vol \in VolIds /\ vols'[prov'[d].vol].st # "free"
                /\ vols'[prov'[d].vol].by = self
    <3> TAKE d \in Claims
    <3>1. CASE d = c
      BY <3>1, <1>2, <2>2, <2>3, <2>4, <2>5
    <3>2. CASE d # c
      <4>1. prov'[d] = prov[d]  BY <3>2, <2>4
      <4>2. prov[d].pc = "restored" =>
              /\ prov[d].vol \in VolIds /\ vols[prov[d].vol].st # "free"
              /\ vols[prov[d].vol].by = self
        BY DEF IInv, VolumesInUse, AnnotationsTruthful
      <4>3. QED  BY <4>1, <4>2, <1>2, <2>3 DEF IInv, ProvWellFormed
    <3>3. QED  BY <3>1, <3>2
  <2>7. prov' \in [Claims -> ProvRec]
    BY <2>4, <2>6, FunTyped
  <2>8. QED
    BY <1>1, <1>2, <1>5, <2>3, <2>6, <2>7, ProvVolStep
<1>6. CASE /\ IF prov[c].type = "hostPath" THEN HostPathRestoreFail(c, v)
                                            ELSE CloudRestoreFail(c, v)
           /\ IF Version = "tpr" THEN RestoreErrorTPR(c) ELSE RestoreErrorCRD(c)
  <2>1. /\ vols' \in [VolIds -> VolRec]
        /\ \A x \in VolIds : vols[x].st # "free" => vols'[x] = vols[x]
        /\ OwnershipSafety'
    <3>1. CASE vols' = vols
      BY <3>1 DEF IInv, TypeOK, OwnershipSafety
    <3>2. CASE vols' # vols
      <4> DEFINE jv == [RestoredVol("hostPath", rec.loc) EXCEPT !.st = "junk"]
      <4>1. vols[v].st = "free" /\ vols' = [vols EXCEPT ![v] = jv]
        BY <1>6, <3>2 DEF HostPathRestoreFail, CloudRestoreFail
      <4>2. jv \in VolRec /\ jv.st = "junk"
        BY <1>2, <1>3 DEF RestoredVol, VolRec, VolStates, Ids, VolTypes, PluginTags
      <4>3. QED  BY <4>1, <4>2, FreshVolume
    <3>3. QED  BY <3>1, <3>2
  <2>2. CASE Version = "tpr"
    <3>1. Fail(c, "RestoreFailed") /\ up' = up /\ "RestoreFailed" \in Outcomes
      BY <1>6, <2>2 DEF RestoreErrorTPR, Outcomes
    <3>2. /\ prov' = [d \in Claims |-> prov'[d]]
          /\ \A d \in Claims \ {c} : prov'[d] = prov[d]
          /\ prov'[c] = IdleProv
          /\ outcome' \in [Claims -> Outcomes]
      BY <1>2, <3>1 DEF Fail
    <3>3. /\ prov' \in [Claims -> ProvRec]
          /\ \A d \in Claims : prov'[d].pc = "restored" => prov'[d] = prov[d]
          /\ \A d \in Claims : prov'[d].pc # "idle" => prov'[d].data \in DataNames
      BY <3>2, IdleTyped, ProvUpdate
    <3>4. \A d \in Claims : prov'[d].pc = "restored" =>
                /\ prov'[d].vol \in VolIds /\ vols'[prov'[d].vol].st # "free"
                /\ vols'[prov'[d].vol].by = self
      BY <2>1, <3>3 DEF IInv, VolumesInUse, AnnotationsTruthful
    <3>5. QED
      BY <1>1, <2>1, <3>1, <3>2, <3>3, <3>4, ProvVolStep
  <2>3. CASE Version # "tpr"
    <3>1. up' = FALSE /\ prov' = [d \in Claims |-> IdleProv]
          /\ outcome' \in [Claims -> Outcomes]
      BY <1>2, <1>6, <2>3 DEF RestoreErrorCRD, Outcomes
    <3>2. prov' \in [Claims -> ProvRec] /\ \A d \in Claims : prov'[d].pc = "idle"
      BY <3>1, IdleTyped
    <3>3. QED
      BY <1>1, <2>1, <3>1, <3>2, ProvVolStep
  <2>4. QED  BY <2>2, <2>3
<1>7. QED  BY <1>4, <1>5, <1>6
(* A step of the controller or of an administrator: volumes keep their   *)
(* creator and are never freed, and every PV names a volume in use whose   *)
(* creator its identity annotation names.                                  *)
LEMMA CtrlFrame ==
    ASSUME IInv,
           UNCHANGED <<snapshots, snapshotData, arts, plugins, self, up,
                       idsUsed, crashes, boundTo>>,
           vols' \in [VolIds -> VolRec],
           \A x \in VolIds : /\ vols'[x].by = vols[x].by
                             /\ vols[x].st # "free" => vols'[x].st # "free",
           OwnershipSafety',
           pvs' \in [PVNames -> PVRec],
           \A p \in PVNames : pvs'[p].ex =>
                /\ pvs'[p].vol \in VolIds /\ vols'[pvs'[p].vol].st # "free"
                /\ pvs'[p].owner \in Identities => vols'[pvs'[p].vol].by = pvs'[p].owner,
           claims' \in [Claims -> {"pending", "bound", "deleted"}],
           prov' \in [Claims -> ProvRec], outcome' \in [Claims -> Outcomes],
           up \/ prov' = prov,
           \A d \in Claims : prov'[d].pc = "restored" => prov'[d] = prov[d],
           \A d \in Claims : prov'[d].pc # "idle" => prov'[d].data \in DataNames
    PROVE  IInv'
<1>1. TypeOK'
  BY DEF IInv, TypeOK
<1>2. VolumesInUse' /\ AnnotationsTruthful'
  BY DEF IInv, VolumesInUse, AnnotationsTruthful
<1>3. DownIdle'
  <2>1. up' = up
    OBVIOUS
  <2>2. CASE up
    BY <2>1, <2>2 DEF DownIdle
  <2>3. CASE prov' = prov
    BY <2>1, <2>3 DEF IInv, DownIdle
  <2>4. QED  BY <2>2, <2>3
<1>4. QED
  BY <1>1, <1>2, <1>3 DEF IInv, ProvWellFormed

(* Delete returns nil only for a PV whose annotation is this identity.     *)
LEMMA DeleteOwned ==
    ASSUME NEW pv, DeleteResult(pv) = "ok"
    PROVE  pv.owner = self
BY DEF DeleteResult, DeleteResultTPR, DeleteResultCRD

(* The volumes after Delete(pv) for a PV whose annotation, if it names     *)
(* one of our identities, names its volume's creator.                      *)
LEMMA AfterDelete ==
    ASSUME IInv, NEW pv, pv.vol \in VolIds, self \in Identities,
           pv.owner \in Identities => vols[pv.vol].by = pv.owner,
           vols' = VolsAfterDelete(pv)
    PROVE  /\ vols' \in [VolIds -> VolRec]
           /\ \A x \in VolIds : /\ vols'[x].by = vols[x].by
                                /\ vols[x].st # "free" => vols'[x].st # "free"
           /\ OwnershipSafety'
<1>1. vols \in [VolIds -> VolRec]
  BY DEF IInv, TypeOK
<1>2. CASE Version = "crd" /\ DeleteResult(pv) = "ok"
  <2>1. pv.owner = self  BY <1>2, DeleteOwned
  <2>2. vols[pv.vol].by = self  BY <2>1
  <2>3. vols' = [vols EXCEPT ![pv.vol].st = "gone", ![pv.vol].delBy = self]
    BY <1>2 DEF VolsAfterDelete
  <2>4. [vols[pv.vol] EXCEPT !.st = "gone", !.delBy = self] \in VolRec
    BY <1>1 DEF VolRec, VolStates, Ids
  <2>5. vols'[pv.vol] = [vols[pv.vol] EXCEPT !.st = "gone", !.delBy = self]
        /\ \A x \in VolIds \ {pv.vol} : vols'[x] = vols[x]
    BY <1>1, <2>3
  <2>7. vols' \in [VolIds -> VolRec]
    BY <1>1, <2>3, <2>4
  <2>11. vols'[pv.vol].by = vols[pv.vol].by /\ vols'[pv.vol].st = "gone"
         /\ vols'[pv.vol].delBy = self
    <3>1. vols[pv.vol] \in VolRec  BY <1>1
    <3>2. QED  BY <3>1, <2>5 DEF VolRec
  <2>8. \A x \in VolIds : /\ vols'[x].by = vols[x].by
                          /\ vols[x].st # "free" => vols'[x].st # "free"
    BY <2>5, <2>11
  <2>9. OwnershipSafety'
    <3>1. OwnershipSafety  BY DEF IInv
    <3>2. \A x \in VolIds : vols'[x].st = "gone" => vols'[x].delBy = vols'[x].by
      <4> TAKE x \in VolIds
      <4>1. CASE x = pv.vol  BY <4>1, <2>2, <2>11
      <4>2. CASE x # pv.vol  BY <4>2, <2>5, <3>1 DEF OwnershipSafety
      <4>3. QED  BY <4>1, <4>2
    <3>3. QED  BY <3>2 DEF OwnershipSafety
  <2>10. QED
    BY <2>7, <2>8, <2>9
<1>3. CASE ~(Version = "crd" /\ DeleteResult(pv) = "ok")
  <2>1. vols' = vols
    BY <1>3 DEF VolsAfterDelete
  <2>2. OwnershipSafety'
    BY <2>1 DEF IInv, OwnershipSafety
  <2>3. QED
    BY <1>1, <2>1, <2>2
<1>4. QED  BY <1>2, <1>3
(* Facts about the call of a claim that has restored a volume.             *)
LEMMA RestoredFacts ==
    ASSUME IInv, NEW c \in Claims, prov[c].pc = "restored"
    PROVE  /\ prov \in [Claims -> ProvRec] /\ pvs \in [PVNames -> PVRec]
           /\ vols \in [VolIds -> VolRec] /\ self \in Identities
           /\ prov[c].vol \in VolIds /\ vols[prov[c].vol].st # "free"
           /\ vols[prov[c].vol].by = self
           /\ ProvisionedPV(c) \in PVRec
           /\ ProvisionedPV(c).vol = prov[c].vol /\ ProvisionedPV(c).owner = self
           /\ ProvisionedPV(c).ex
<1>1. /\ prov \in [Claims -> ProvRec] /\ pvs \in [PVNames -> PVRec]
      /\ vols \in [VolIds -> VolRec] /\ self \in Identities
      /\ prov[c].vol \in VolIds /\ vols[prov[c].vol].st # "free"
      /\ vols[prov[c].vol].by = self
  BY DEF IInv, TypeOK, VolumesInUse, AnnotationsTruthful
<1>2. vols[prov[c].vol].type \in VolTypes \cup {None}
  BY <1>1 DEF VolRec
<1>3. QED
  BY <1>1, <1>2 DEF ProvisionedPV, PVRec, Ids

(* The controller saves the PV that Provision returned.                   *)
LEMMA SavePVStep ==
    ASSUME IInv, NEW c \in Claims, CtrlSavePV(c) PROVE IInv'
<1>1. /\ UNCHANGED <<snapshots, snapshotData, arts, plugins, self, up,
                     idsUsed, crashes, boundTo, vols>>
      /\ prov[c].pc = "restored" /\ up
  BY DEF CtrlSavePV, recordVars, processVars
<1>2. c \in PVNames  BY DEF PVNames
<1>3. /\ prov' = [d \in Claims |-> prov'[d]]
      /\ \A d \in Claims \ {c} : prov'[d] = prov[d]
      /\ prov'[c] = IdleProv
      /\ pvs' = [pvs EXCEPT ![c] = ProvisionedPV(c)]
  BY <1>1, RestoredFacts DEF CtrlSavePV
<1>4. /\ prov' \in [Claims -> ProvRec]
      /\ \A d \in Claims : prov'[d].pc = "restored" => prov'[d] = prov[d]
      /\ \A d \in Claims : prov'[d].pc # "idle" => prov'[d].data \in DataNames
  BY <1>3, IdleTyped, ProvUpdate
<1>5. claims' \in [Claims -> {"pending", "bound", "deleted"}]
      /\ outcome' \in [Claims -> Outcomes]
  BY DEF CtrlSavePV, IInv, TypeOK, Outcomes
<1>6. pvs' \in [PVNames -> PVRec]
  BY <1>1, <1>2, <1>3, RestoredFacts
<1>7. \A p \in PVNames : pvs'[p].ex =>
          /\ pvs'[p].vol \in VolIds /\ vols'[pvs'[p].vol].st # "free"
          /\ pvs'[p].owner \in Identities => vols'[pvs'[p].vol].by = pvs'[p].owner
  BY <1>1, <1>2, <1>3, RestoredFacts DEF IInv, VolumesInUse, AnnotationsTruthful
<1>8. QED
  BY <1>1, <1>4, <1>5, <1>6, <1>7, CtrlFrame DEF IInv, TypeOK, OwnershipSafety

(* The controller fails to save the PV and calls Delete on it.            *)
LEMMA SaveFailedStep ==
    ASSUME IInv, NEW c \in Claims, CtrlSaveFailed(c) PROVE IInv'
<1>1. /\ UNCHANGED <<snapshots, snapshotData, arts, plugins, self, up,
                     idsUsed, crashes, boundTo, pvs, claims, outcome>>
      /\ prov[c].pc = "restored" /\ up
  BY DEF CtrlSaveFailed, recordVars, processVars
<1>2. /\ prov' = [d \in Claims |-> prov'[d]]
      /\ \A d \in Claims \ {c} : prov'[d] = prov[d]
      /\ prov'[c] = IdleProv
  BY <1>1, RestoredFacts DEF CtrlSaveFailed
<1>3. /\ prov' \in [Claims -> ProvRec]
      /\ \A d \in Claims : prov'[d].pc = "restored" => prov'[d] = prov[d]
      /\ \A d \in Claims : prov'[d].pc # "idle" => prov'[d].data \in DataNames
  BY <1>2, IdleTyped, ProvUpdate
<1>4. /\ vols' \in [VolIds -> VolRec]
      /\ \A x \in VolIds : /\ vols'[x].by = vols[x].by
                           /\ vols[x].st # "free" => vols'[x].st # "free"
      /\ OwnershipSafety'
  <2>1. vols' = VolsAfterDelete(ProvisionedPV(c))  BY DEF CtrlSaveFailed
  <2>2. QED  BY <1>1, <2>1, RestoredFacts, AfterDelete
<1>5. QED
  BY <1>1, <1>3, <1>4, CtrlFrame DEF IInv, TypeOK, VolumesInUse, AnnotationsTruthful

(* The user deletes a bound claim.                                         *)
LEMMA ReleaseStep ==
    ASSUME IInv, NEW c \in Claims, ReleaseClaim(c) PROVE IInv'
<1>1. UNCHANGED <<snapshots, snapshotData, arts, plugins, self, up,
                  idsUsed, crashes, boundTo, pvs, vols, prov, outcome>>
  BY DEF ReleaseClaim, recordVars, processVars
<1>2. claims' \in [Claims -> {"pending", "bound", "deleted"}]
  BY DEF ReleaseClaim, IInv, TypeOK
<1>3. QED
  BY <1>1, <1>2 DEF IInv, TypeOK, VolumesInUse, AnnotationsTruthful, DownIdle,
                   ProvWellFormed, OwnershipSafety

(* PVs that are kept, over volumes that keep their creator and are not    *)
(* freed, still name a volume in use whose creator their annotation names. *)
LEMMA PVsKept ==
    ASSUME IInv,
           \A x \in VolIds : /\ vols'[x].by = vols[x].by
                             /\ vols[x].st # "free" => vols'[x].st # "free",
           \A q \in PVNames : pvs'[q].ex => pvs'[q] = pvs[q]
    PROVE  \A q \in PVNames : pvs'[q].ex =>
                /\ pvs'[q].vol \in VolIds /\ vols'[pvs'[q].vol].st # "free"
                /\ pvs'[q].owner \in Identities => vols'[pvs'[q].vol].by = pvs'[q].owner
BY DEF IInv, VolumesInUse, AnnotationsTruthful

(* The controller calls Delete on a released PV and removes the object    *)
(* when it returns nil.                                                    *)
LEMMA DeletePVStep ==
    ASSUME IInv, NEW p \in PVNames, CtrlDeletePV(p) PROVE IInv'
<1>1. UNCHANGED <<snapshots, snapshotData, arts, plugins, self, up,
                  idsUsed, crashes, boundTo, claims, prov, outcome>> /\ pvs[p].ex
  BY DEF CtrlDeletePV, recordVars, processVars
<1>2. /\ pvs \in [PVNames -> PVRec] /\ self \in Identities
      /\ pvs[p].vol \in VolIds
      /\ pvs[p].owner \in Identities => vols[pvs[p].vol].by = pvs[p].owner
  BY <1>1 DEF IInv, TypeOK, VolumesInUse, AnnotationsTruthful
<1>3. /\ vols' \in [VolIds -> VolRec]
      /\ \A x \in VolIds : /\ vols'[x].by = vols[x].by
                           /\ vols[x].st # "free" => vols'[x].st # "free"
      /\ OwnershipSafety'
  <2>1. vols' = VolsAfterDelete(pvs[p])  BY DEF CtrlDeletePV
  <2>2. QED  BY <1>2, <2>1, AfterDelete
<1>4. pvs' = pvs \/ pvs' = [pvs EXCEPT ![p] = NoPV]
  BY DEF CtrlDeletePV
<1>5. pvs' \in [PVNames -> PVRec]
  <2>1. NoPV \in PVRec  BY DEF NoPV, PVRec
  <2>2. QED  BY <1>2, <1>4, <2>1, UpdateTyped
<1>6. \A q \in PVNames : pvs'[q].ex => pvs'[q] = pvs[q]
  BY <1>2, <1>4 DEF NoPV
<1>7. \A q \in PVNames : pvs'[q].ex =>
          /\ pvs'[q].vol \in VolIds /\ vols'[pvs'[q].vol].st # "free"
          /\ pvs'[q].owner \in Identities => vols'[pvs'[q].vol].by = pvs'[q].owner
  BY <1>3, <1>6, PVsKept
<1>8. /\ claims' \in [Claims -> {"pending", "bound", "deleted"}]
      /\ prov' \in [Claims -> ProvRec] /\ outcome' \in [Claims -> Outcomes]
      /\ \A d \in Claims : prov'[d].pc # "idle" => prov'[d].data \in DataNames
  BY <1>1 DEF IInv, TypeOK, ProvWellFormed
<1>9. QED
  BY <1>1, <1>3, <1>5, <1>7, <1>8, CtrlFrame
(* A crash loses every Provision in progress.                            *)
LEMMA CrashStep ==
    ASSUME IInv, Crash PROVE IInv'
<1>1. UNCHANGED <<snapshots, snapshotData, arts, boundTo, plugins, self, idsUsed,
                  pvs, claims, vols, outcome>>
      /\ up' = FALSE /\ prov' = [d \in Claims |-> IdleProv]
      /\ crashes' \in 0..MaxCrashes
  BY BoundAssumption DEF Crash, recordVars, IInv, TypeOK
<1>2. prov' \in [Claims -> ProvRec] /\ \A d \in Claims : prov'[d].pc = "idle"
  BY <1>1, IdleTyped
<1>3. QED
  BY <1>1, <1>2 DEF IInv, TypeOK, VolumesInUse, AnnotationsTruthful, DownIdle,
                   ProvWellFormed, OwnershipSafety

(* A crash after VolumeDelete and before the PV object is removed: the   *)
(* volumes change as in Delete, the PVs do not, and every call is lost.   *)
LEMMA CrashInDeleteStep ==
    ASSUME IInv, NEW p \in PVNames, CrashInDelete(p) PROVE IInv'
<1>1. UNCHANGED <<snapshots, snapshotData, arts, boundTo, plugins, self, idsUsed,
                  pvs, claims, outcome>>
      /\ up' = FALSE /\ prov' = [d \in Claims |-> IdleProv]
      /\ crashes' \in 0..MaxCrashes /\ pvs[p].ex
  BY BoundAssumption DEF CrashInDelete, recordVars, IInv, TypeOK
<1>2. /\ self \in Identities /\ pvs[p].vol \in VolIds
      /\ pvs[p].owner \in Identities => vols[pvs[p].vol].by = pvs[p].owner
  BY <1>1 DEF IInv, TypeOK, VolumesInUse, AnnotationsTruthful
<1>3. /\ vols' \in [VolIds -> VolRec]
      /\ \A x \in VolIds : /\ vols'[x].by = vols[x].by
                           /\ vols[x].st # "free" => vols'[x].st # "free"
      /\ OwnershipSafety'
  <2>1. vols' = VolsAfterDelete(pvs[p])  BY DEF CrashInDelete
  <2>2. QED  BY <1>2, <2>1, AfterDelete
<1>4. \A q \in PVNames : pvs'[q].ex =>
          /\ pvs'[q].vol \in VolIds /\ vols'[pvs'[q].vol].st # "free"
          /\ pvs'[q].owner \in Identities => vols'[pvs'[q].vol].by = pvs'[q].owner
  BY <1>1, <1>3, PVsKept
<1>5. prov' \in [Claims -> ProvRec] /\ \A d \in Claims : prov'[d].pc = "idle"
  BY <1>1, IdleTyped
<1>6. TypeOK'
  BY <1>1, <1>3, <1>5 DEF IInv, TypeOK
<1>7. QED
  BY <1>1, <1>3, <1>4, <1>5, <1>6 DEF IInv, VolumesInUse, AnnotationsTruthful,
                                     DownIdle, ProvWellFormed

(* main runs again: a new plugin map and, without -id, a new identity.    *)
(* No call is in progress, so no restored volume's creator is stale.       *)
LEMMA RestartStep ==
    ASSUME IInv, Restart PROVE IInv'
<1>1. UNCHANGED <<snapshots, snapshotData, arts, boundTo, crashes, pvs, claims,
                  vols, prov, outcome>> /\ ~up /\ up' = TRUE
  BY DEF Restart, recordVars
<1>2. plugins' \subseteq PluginTags
  BY BuildTyped DEF Restart
<1>3. self' \in Identities /\ idsUsed' \subseteq Identities
  <2>1. CASE IdFlagSet  BY <2>1 DEF Restart, IInv, TypeOK
  <2>2. CASE ~IdFlagSet  BY <2>2 DEF Restart, IInv, TypeOK
  <2>3. QED  BY <2>1, <2>2
<1>4. \A d \in Claims : prov[d].pc = "idle"
  BY <1>1 DEF IInv, DownIdle
<1>5. QED
  BY <1>1, <1>2, <1>3, <1>4 DEF IInv, TypeOK, VolumesInUse, AnnotationsTruthful,
                               DownIdle, ProvWellFormed, OwnershipSafety

(* A step that writes only the snapshot records and artifacts.            *)
LEMMA RecordsStep ==
    ASSUME IInv,
           UNCHANGED <<pvs, claims, vols, plugins, self, up, prov, outcome,
                       idsUsed, crashes>>,
           snapshots' \in [SnapNames -> SnapRec],
           snapshotData' \in [DataNames -> DataRec],
           arts' \in [ArtIds -> ArtStates],
           boundTo' \in [SnapNames -> SUBSET ArtIds]
    PROVE  IInv'
BY DEF IInv, TypeOK, VolumesInUse, AnnotationsTruthful, DownIdle,
       ProvWellFormed, OwnershipSafety
(* The users and the snapshot controller writing the records.            *)
LEMMA EnvRecordsStep ==
    ASSUME IInv,
           \/ \E s \in SnapNames : CreateSnapshot(s) \/ DeleteSnapshot(s)
           \/ \E s \in SnapNames, d \in DataNames : CreateEmptyData(s, d)
           \/ \E s \in SnapNames, p \in PVNames, a \in ArtIds, d \in DataNames :
                 TakeSnapshot(s, p, a, d)
           \/ \E d \in DataNames : DeleteSnapshotData(d)
    PROVE  IInv'
<1>1. /\ snapshots \in [SnapNames -> SnapRec]
      /\ snapshotData \in [DataNames -> DataRec]
      /\ arts \in [ArtIds -> ArtStates]
      /\ boundTo \in [SnapNames -> SUBSET ArtIds]
      /\ pvs \in [PVNames -> PVRec]
  BY DEF IInv, TypeOK
<1>2. CASE \E s \in SnapNames : CreateSnapshot(s) \/ DeleteSnapshot(s)
  <2>1. PICK s \in SnapNames : CreateSnapshot(s) \/ DeleteSnapshot(s)
    BY <1>2
  <2>2. [ex |-> TRUE, data |-> None] \in SnapRec /\ NoSnap \in SnapRec
    BY DEF SnapRec, NoSnap
  <2>3. QED
    BY <1>1, <2>1, <2>2, RecordsStep DEF CreateSnapshot, DeleteSnapshot, processVars
<1>3. CASE \E s \in SnapNames, d \in DataNames : CreateEmptyData(s, d)
  <2>1. PICK s \in SnapNames, d \in DataNames : CreateEmptyData(s, d)
    BY <1>3
  <2>2. [NoData EXCEPT !.ex = TRUE] \in DataRec
    BY DEF NoData, DataRec
  <2>3. [snapshots[s] EXCEPT !.data = d] \in SnapRec
    BY <1>1 DEF SnapRec
  <2>4. QED
    BY <1>1, <2>1, <2>2, <2>3, RecordsStep DEF CreateEmptyData, processVars
<1>4. CASE \E s \in SnapNames, p \in PVNames, a \in ArtIds, d \in DataNames :
             TakeSnapshot(s, p, a, d)
  <2>1. PICK s \in SnapNames, p \in PVNames, a \in ArtIds, d \in DataNames :
              TakeSnapshot(s, p, a, d)
    BY <1>4
  <2>2. arts' \in [ArtIds -> ArtStates]
    BY <1>1, <2>1 DEF TakeSnapshot, HostPathSnapshotCreate, ArtStates
  <2>3. pvs[p].type \in PluginTags
    BY <2>1 DEF TakeSnapshot
  <2>4. [ex |-> TRUE, kind |-> pvs[p].type, loc |-> a, pvRef |-> p] \in DataRec
    BY <2>3 DEF DataRec
  <2>5. [snapshots[s] EXCEPT !.data = d] \in SnapRec
    BY <1>1 DEF SnapRec
  <2>6. /\ snapshotData' \in [DataNames -> DataRec]
        /\ snapshots' \in [SnapNames -> SnapRec]
        /\ boundTo' \in [SnapNames -> SUBSET ArtIds]
    <3>1. CASE arts'[a] = "live"
      <4>1. /\ snapshotData' = [snapshotData EXCEPT ![d] =
                  [ex |-> TRUE, kind |-> pvs[p].type, loc |-> a, pvRef |-> p]]
            /\ snapshots' = [snapshots EXCEPT ![s].data = d]
            /\ boundTo' = [boundTo EXCEPT ![s] = @ \cup {a}]
        BY <2>1, <3>1 DEF TakeSnapshot
      <4>2. snapshotData' \in [DataNames -> DataRec]
        BY <1>1, <2>4, <4>1
      <4>3. snapshots' \in [SnapNames -> SnapRec]
        BY <1>1, <2>5, <4>1
      <4>4. boundTo' \in [SnapNames -> SUBSET ArtIds]
        BY <1>1, <4>1
      <4>5. QED  BY <4>2, <4>3, <4>4
    <3>2. CASE arts'[a] # "live"
      BY <1>1, <2>1, <3>2 DEF TakeSnapshot
    <3>3. QED  BY <3>1, <3>2
  <2>7. QED
    BY <2>1, <2>2, <2>6, RecordsStep DEF TakeSnapshot, processVars
<1>5. CASE \E d \in DataNames : DeleteSnapshotData(d)
  <2>1. PICK d \in DataNames : DeleteSnapshotData(d)
    BY <1>5
  <2>2. snapshotData[d].loc \in ArtIds \cup {None}
    BY <1>1 DEF DataRec
  <2>3. arts' \in [ArtIds -> ArtStates]
    BY <1>1, <2>1, <2>2 DEF DeleteSnapshotData, HostPathSnapshotDelete, ArtStates
  <2>4. NoData \in DataRec
    BY DEF NoData, DataRec
  <2>5. QED
    BY <1>1, <2>1, <2>3, <2>4, RecordsStep DEF DeleteSnapshotData, processVars
<1>6. QED
  BY <1>2, <1>3, <1>4, <1>5

(* An administrator deletes or creates a PV this provisioner does not own.*)
LEMMA UserPVStep ==
    ASSUME IInv,
           \/ \E p \in UserPVs : DeleteUserPV(p)
           \/ \E p \in UserPVs, v \in VolIds : CreateUserPV(p, v)
    PROVE  IInv'
<1>1. pvs \in [PVNames -> PVRec] /\ vols \in [VolIds -> VolRec]
  BY DEF IInv, TypeOK
<1>2. \A q \in UserPVs : q \in PVNames
  BY DEF PVNames
<1>3. CASE \E p \in UserPVs : DeleteUserPV(p)
  <2>1. PICK p \in UserPVs : DeleteUserPV(p)
    BY <1>3
  <2>2. pvs' \in [PVNames -> PVRec] /\ \A q \in PVNames : pvs'[q].ex => pvs'[q] = pvs[q]
    BY <1>1, <1>2, <2>1 DEF DeleteUserPV, NoPV, PVRec
  <2>3. UNCHANGED <<snapshots, snapshotData, arts, plugins, self, up, idsUsed,
                     crashes, boundTo, vols, claims, prov, outcome>>
    BY <2>1 DEF DeleteUserPV, recordVars, processVars
  <2>4. \A q \in PVNames : pvs'[q].ex =>
          /\ pvs'[q].vol \in VolIds /\ vols'[pvs'[q].vol].st # "free"
          /\ pvs'[q].owner \in Identities => vols'[pvs'[q].vol].by = pvs'[q].owner
    BY <2>2, <2>3, PVsKept
  <2>5. QED
    BY <2>2, <2>3, <2>4, CtrlFrame DEF IInv, TypeOK, ProvWellFormed, OwnershipSafety
<1>4. CASE \E p \in UserPVs, v \in VolIds : CreateUserPV(p, v)
  <2>1. PICK p \in UserPVs, v \in VolIds : CreateUserPV(p, v)
    BY <1>4
  <2> DEFINE np == [ex |-> TRUE, vol |-> v, type |-> vols[v].type, owner |-> None]
  <2>2. np \in PVRec
    BY <1>1 DEF PVRec, VolRec
  <2>3. pvs' = [pvs EXCEPT ![p] = np] /\ vols[v].st = "live" /\ np.owner \notin Identities
    BY <2>1, NoneAssumption DEF CreateUserPV, Ids
  <2>4. pvs' \in [PVNames -> PVRec]
    BY <1>1, <1>2, <2>2, <2>3
  <2>5. \A q \in PVNames : pvs'[q].ex =>
          /\ pvs'[q].vol \in VolIds /\ vols[pvs'[q].vol].st # "free"
          /\ pvs'[q].owner \in Identities => vols[pvs'[q].vol].by = pvs'[q].owner
    BY <1>1, <1>2, <2>3 DEF IInv, VolumesInUse, AnnotationsTruthful
  <2>6. QED
    BY <2>1, <2>4, <2>5, CtrlFrame DEF CreateUserPV, recordVars, processVars,
       IInv, TypeOK, ProvWellFormed, OwnershipSafety
<1>5. QED
  BY <1>3, <1>4
(* IInv is preserved by every step of the system and by stuttering.      *)
LEMMA NextIInv == IInv /\ [Next]_vars => IInv'
<1> SUFFICES ASSUME IInv, [Next]_vars PROVE IInv'
  OBVIOUS
<1>1. CASE \E c \in Claims : \/ ProvGetSnapshot(c) \/ ProvGetData(c)
                             \/ ProvResolve(c) \/ ProvRestore(c)
  BY <1>1, GetSnapshotStep, GetDataStep, ResolveStep, RestoreStep
<1>2. CASE Crash
  BY <1>2, CrashStep
<1>3. CASE Restart
  BY <1>3, RestartStep
<1>4. CASE Controller
  <2>1. PICK c \in Claims, p \in PVNames :
          CtrlSavePV(c) \/ CtrlSaveFailed(c) \/ ReleaseClaim(c) \/ CtrlDeletePV(p)
    BY <1>4 DEF Controller
  <2>2. QED
    BY <2>1, SavePVStep, SaveFailedStep, ReleaseStep, DeletePVStep
<1>5. CASE Environment
  BY <1>5, EnvRecordsStep, UserPVStep DEF Environment
<1>6. CASE UNCHANGED vars
  BY <1>6 DEF vars, IInv, TypeOK, VolumesInUse, AnnotationsTruthful, DownIdle,
              ProvWellFormed, OwnershipSafety
<1>7. CASE \E p \in PVNames : CrashInDelete(p)
  BY <1>7, CrashInDeleteStep
<1>8. QED
  BY <1>1, <1>2, <1>3, <1>4, <1>5, <1>6, <1>7 DEF Next, Provisioner

(* Every reachable state is typed: the records, PV objects, volumes and    *)
(* calls in progress keep the shapes the code's types give them, through   *)
(* failed restores, panics, crashes and restarts.                          *)
THEOREM TypeCorrect == Spec => []TypeOK
<1>1. Init => IInv  BY InitIInv
<1>2. IInv /\ [Next]_vars => IInv'  BY NextIInv
<1>3. IInv => TypeOK  BY DEF IInv
<1>4. QED  BY <1>1, <1>2, <1>3, PTL DEF Spec

(* Delete destroys only volumes restored by the identity that deletes      *)
(* them, whatever the number of restarts, identity changes, failed saves   *)
(* and PV names reused by administrators.                                  *)
THEOREM Ownership == Spec => []OwnershipSafety
<1>1. Init => IInv  BY InitIInv
<1>2. IInv /\ [Next]_vars => IInv'  BY NextIInv
<1>3. IInv => OwnershipSafety  BY DEF IInv
<1>4. QED  BY <1>1, <1>2, <1>3, PTL DEF Spec
=============================================================================
