------------------- MODULE SnapshotProvisionerVolumeProofs -------------------
(***************************************************************************)
(* Proof that a PV that is not released names a live backend volume        *)
(* (BoundPVLive), in both revisions and for every value of the constants. *)
(* The argument: LiveInv is inductive relative to IInv.  A volume one of   *)
(* our identities restored is named by at most one PV or "restored" call   *)
(* (VolumesExclusive), PVs not annotated with our identities sit on        *)
(* volumes we did not create (UserVolumesForeign), so the one volume a     *)
(* Delete or a failed save removes is named by nothing that stays; and a   *)
(* restore takes a free volume, which nothing names (VolumesInUse).        *)
(***************************************************************************)
EXTENDS SnapshotProvisionerProofs

(* A step that keeps every PV it does not remove and every "restored"     *)
(* call it does not end, and the volumes they name, preserves LiveInv.     *)
LEMMA LiveFrame ==
    ASSUME LiveInv,
           \A q \in PVNames : pvs'[q].ex => /\ pvs'[q] = pvs[q]
                                            /\ vols'[pvs[q].vol] = vols[pvs[q].vol],
           \A d \in Claims : prov'[d].pc = "restored" =>
                /\ prov'[d] = prov[d] /\ vols'[prov[d].vol] = vols[prov[d].vol],
           \A d \in Claims : claims[d] = "deleted" => claims'[d] = "deleted"
    PROVE  LiveInv'
<1>1. UserVolumesForeign'
  BY DEF LiveInv, UserVolumesForeign
<1>2. VolumesExclusive'
  BY DEF LiveInv, VolumesExclusive
<1>3. RestoredVolumesLive'
  BY DEF LiveInv, RestoredVolumesLive
<1>4. BoundPVLive'
  BY DEF LiveInv, BoundPVLive, Released
<1>5. QED  BY <1>1, <1>2, <1>3, <1>4 DEF LiveInv

(* A step that leaves the PVs alone, changes no volume in use and starts   *)
(* no "restored" call preserves LiveInv.                                    *)
LEMMA NonFreeFrame ==
    ASSUME IInv, LiveInv, pvs' = pvs,
           \A x \in VolIds : vols[x].st # "free" => vols'[x] = vols[x],
           \A d \in Claims : prov'[d].pc = "restored" => prov'[d] = prov[d],
           \A d \in Claims : claims[d] = "deleted" => claims'[d] = "deleted"
    PROVE  LiveInv'
<1>1. \A q \in PVNames : pvs'[q].ex => vols'[pvs[q].vol] = vols[pvs[q].vol]
  BY DEF IInv, VolumesInUse
<1>2. \A d \in Claims : prov'[d].pc = "restored" => vols'[prov[d].vol] = vols[prov[d].vol]
  BY DEF IInv, VolumesInUse
<1>3. QED  BY <1>1, <1>2, LiveFrame

(* At start no PV carries one of our identities and no call is restored.  *)
LEMMA InitLiveInv == Init => LiveInv
<1> SUFFICES ASSUME Init PROVE LiveInv
  OBVIOUS
<1>1. \A p \in PVNames : pvs[p].ex =>
         /\ p \in UserPVs /\ pvs[p].owner \in {None, Other}
         /\ vols[pvs[p].vol].by \in {None, Other} /\ vols[pvs[p].vol].st = "live"
  BY InitAssumption DEF Init, NoPV, PVNames
<1>2. None \notin Identities /\ Other \notin Identities
  BY IdAssumption, NoneAssumption DEF Ids
<1>3. \A c \in Claims : prov[c].pc = "idle"
  BY DEF Init, IdleProv
<1>4. UserVolumesForeign /\ VolumesExclusive /\ RestoredVolumesLive
  BY <1>1, <1>2, <1>3 DEF UserVolumesForeign, VolumesExclusive, RestoredVolumesLive
<1>5. BoundPVLive
  BY <1>1 DEF BoundPVLive
<1>6. QED  BY <1>4, <1>5 DEF LiveInv

(* A Fail ends only the call of c, which was not "restored".               *)
LEMMA FailKeeps ==
    ASSUME IInv, NEW c \in Claims, NEW k, Fail(c, k)
    PROVE  \A d \in Claims : prov'[d].pc = "restored" => prov'[d] = prov[d]
BY IdleTyped DEF Fail, IInv, TypeOK

(* The reads of Provision and the choice of volume type leave the PVs,     *)
(* the claims and the volumes alone and end or start no "restored" call.   *)
LEMMA ProvReadKeep ==
    ASSUME IInv, NEW c \in Claims,
           ProvGetSnapshot(c) \/ ProvGetData(c) \/ ProvResolve(c)
    PROVE  /\ pvs' = pvs /\ vols' = vols /\ claims' = claims
           /\ \A d \in Claims : prov'[d].pc = "restored" => prov'[d] = prov[d]
<1>1. prov \in [Claims -> ProvRec]
  BY DEF IInv, TypeOK
<1>2. pvs' = pvs /\ vols' = vols /\ claims' = claims
  BY DEF ProvGetSnapshot, ProvGetData, ProvResolve
(* A step that sets the pc of c to a value other than "restored".         *)
<1>3. ASSUME NEW pc, pc # "restored", NEW x,
             \/ prov' = [prov EXCEPT ![c].pc = pc, ![c].data = x]
             \/ prov' = [prov EXCEPT ![c].pc = pc, ![c].rec = x]
             \/ prov' = [prov EXCEPT ![c].pc = pc, ![c].type = x]
      PROVE  \A d \in Claims : prov'[d].pc = "restored" => prov'[d] = prov[d]
  BY <1>1, <1>3 DEF ProvRec
<1>4. CASE ProvGetSnapshot(c)
  <2> DEFINE sn == ClaimSnapshot[c]
  <2>1. CASE \/ c \in ClaimSelector \/ sn = None \/ ~snapshots[sn].ex
             \/ snapshots[sn].data = None
    BY <1>4, <2>1, FailKeeps DEF ProvGetSnapshot
  <2>2. CASE c \notin ClaimSelector /\ sn # None /\ snapshots[sn].ex
             /\ snapshots[sn].data # None
    BY <1>4, <2>2, <1>3 DEF ProvGetSnapshot
  <2>3. QED  BY <2>1, <2>2
<1>5. CASE ProvGetData(c)
  <2>1. CASE ~snapshotData[prov[c].data].ex
    BY <1>5, <2>1, FailKeeps DEF ProvGetData
  <2>2. CASE snapshotData[prov[c].data].ex
    BY <1>5, <2>2, <1>3 DEF ProvGetData
  <2>3. QED  BY <2>1, <2>2
<1>6. CASE ProvResolve(c) /\ Version = "tpr"
  <2> DEFINE kind == prov[c].rec.kind
  <2>1. CASE kind = None \/ kind \notin plugins
    BY <1>6, <2>1, FailKeeps DEF ProvResolve, ResolveTPR
  <2>2. CASE kind # None /\ kind \in plugins
    <3>1. prov' = [prov EXCEPT ![c].pc = "resolved", ![c].type = kind]
      BY <1>6, <2>2 DEF ProvResolve, ResolveTPR
    <3>2. QED  BY <3>1, <1>1, <1>2 DEF ProvRec
  <2>3. QED  BY <2>1, <2>2
<1>7. CASE ProvResolve(c) /\ Version # "tpr"
  <2> DEFINE ref == prov[c].rec.pvRef
  <2>1. CASE ref = None \/ ~pvs[ref].ex \/ pvs[ref].type \notin plugins
    BY <1>7, <2>1, FailKeeps DEF ProvResolve, ResolveCRD
  <2>2. CASE ref # None /\ pvs[ref].ex /\ pvs[ref].type \in plugins
    BY <1>7, <2>2, <1>3 DEF ProvResolve, ResolveCRD
  <2>3. QED  BY <2>1, <2>2
<1>8. QED  BY <1>2, <1>4, <1>5, <1>6, <1>7

(* A restore that makes the free volume v live and names it in the call   *)
(* of c: nothing else named v, so no PV or other call shares it.           *)
LEMMA TakeFreeLive ==
    ASSUME IInv, LiveInv, NEW c \in Claims, NEW v \in VolIds,
           vols[v].st = "free", prov[c].pc # "restored",
           pvs' = pvs, claims' = claims,
           \A x \in VolIds \ {v} : vols'[x] = vols[x], vols'[v].st = "live",
           prov'[c].pc = "restored", prov'[c].vol = v,
           \A d \in Claims \ {c} : prov'[d] = prov[d]
    PROVE  LiveInv'
<1>1. /\ \A p \in PVNames : pvs[p].ex => pvs[p].vol \in VolIds \ {v}
      /\ \A d \in Claims : prov[d].pc = "restored" => prov[d].vol \in VolIds \ {v}
  BY DEF IInv, VolumesInUse
<1>2. UserVolumesForeign'
  BY <1>1 DEF LiveInv, UserVolumesForeign
<1>3. VolumesExclusive'
  <2>1. \A p, q \in PVNames :
          p # q /\ pvs'[p].ex /\ pvs'[q].ex /\ pvs'[p].owner \in Identities =>
              pvs'[p].vol # pvs'[q].vol
    BY DEF LiveInv, VolumesExclusive
  <2>2. \A d \in Claims, p \in PVNames :
          prov'[d].pc = "restored" /\ pvs'[p].ex => pvs'[p].vol # prov'[d].vol
    BY <1>1 DEF LiveInv, VolumesExclusive
  <2>3. \A d, e \in Claims :
          d # e /\ prov'[d].pc = "restored" /\ prov'[e].pc = "restored" =>
              prov'[d].vol # prov'[e].vol
    BY <1>1 DEF LiveInv, VolumesExclusive
  <2>4. QED  BY <2>1, <2>2, <2>3 DEF VolumesExclusive
<1>4. RestoredVolumesLive'
  BY <1>1 DEF LiveInv, RestoredVolumesLive
<1>5. BoundPVLive'
  BY <1>1 DEF LiveInv, BoundPVLive, Released
<1>6. QED  BY <1>2, <1>3, <1>4, <1>5 DEF LiveInv

(* The plugin's SnapshotRestore and the rest of Provision.                 *)
LEMMA RestoreLive ==
    ASSUME IInv, LiveInv, NEW c \in Claims, ProvRestore(c) PROVE LiveInv'
<1> DEFINE rec == prov[c].rec
<1>1. /\ pvs' = pvs /\ claims' = claims /\ prov[c].pc = "resolved"
      /\ prov \in [Claims -> ProvRec] /\ vols \in [VolIds -> VolRec]
  BY DEF ProvRestore, IInv, TypeOK
<1>2. PICK v \in VolIds :
        \/ /\ IF prov[c].type = "hostPath" THEN HostPathRestoreOK(c, v)
                                           ELSE CloudRestoreOK(c, v)
           /\ prov' = [prov EXCEPT ![c].pc = "restored", ![c].vol = v]
        \/ /\ IF prov[c].type = "hostPath" THEN HostPathRestoreFail(c, v)
                                           ELSE CloudRestoreFail(c, v)
           /\ IF Version = "tpr" THEN RestoreErrorTPR(c) ELSE RestoreErrorCRD(c)
  BY DEF ProvRestore
<1>3. CASE /\ IF prov[c].type = "hostPath" THEN HostPathRestoreOK(c, v)
                                            ELSE CloudRestoreOK(c, v)
           /\ prov' = [prov EXCEPT ![c].pc = "restored", ![c].vol = v]
  <2>1. PICK t : vols[v].st = "free" /\ vols' = [vols EXCEPT ![v] = RestoredVol(t, rec.loc)]
    BY <1>3 DEF HostPathRestoreOK, CloudRestoreOK
  <2>2. \A x \in VolIds \ {v} : vols'[x] = vols[x]
    BY <1>1, <2>1
  <2>3. vols'[v].st = "live"
    BY <1>1, <2>1 DEF RestoredVol
  <2>4. prov'[c].pc = "restored" /\ prov'[c].vol = v
        /\ \A d \in Claims \ {c} : prov'[d] = prov[d]
    BY <1>1, <1>3 DEF ProvRec
  <2>5. QED  BY <1>1, <2>1, <2>2, <2>3, <2>4, TakeFreeLive
<1>4. CASE /\ IF prov[c].type = "hostPath" THEN HostPathRestoreFail(c, v)
                                            ELSE CloudRestoreFail(c, v)
           /\ IF Version = "tpr" THEN RestoreErrorTPR(c) ELSE RestoreErrorCRD(c)
  <2>1. \A x \in VolIds : vols[x].st # "free" => vols'[x] = vols[x]
    BY <1>1, <1>4 DEF HostPathRestoreFail, CloudRestoreFail
  <2>2. \A d \in Claims : prov'[d].pc = "restored" => prov'[d] = prov[d]
    <3>1. CASE Version = "tpr"
      BY <1>4, <3>1, FailKeeps DEF RestoreErrorTPR
    <3>2. CASE Version # "tpr"
      BY <1>4, <3>2, IdleTyped DEF RestoreErrorCRD
    <3>3. QED  BY <3>1, <3>2
  <2>3. QED  BY <1>1, <2>1, <2>2, NonFreeFrame
<1>5. QED  BY <1>2, <1>3, <1>4

(* The controller saves the PV that Provision returned: the PV takes over *)
(* the call's volume, which is live and named by nothing else.            *)
LEMMA SavePVLive ==
    ASSUME IInv, LiveInv, NEW c \in Claims, CtrlSavePV(c) PROVE LiveInv'
<1> DEFINE w == prov[c].vol
<1>1. /\ vols' = vols /\ prov[c].pc = "restored" /\ c \in PVNames
      /\ w \in VolIds /\ self \in Identities
      /\ prov \in [Claims -> ProvRec] /\ pvs \in [PVNames -> PVRec]
      /\ claims \in [Claims -> {"pending", "bound", "deleted"}]
  BY RestoredFacts DEF CtrlSavePV, processVars, PVNames, IInv, TypeOK
<1>2. /\ pvs'[c].ex /\ pvs'[c].vol = w /\ pvs'[c].owner = self
      /\ \A q \in PVNames \ {c} : pvs'[q] = pvs[q]
  BY <1>1 DEF CtrlSavePV, ProvisionedPV
<1>3. prov'[c].pc = "idle" /\ \A d \in Claims \ {c} : prov'[d] = prov[d]
  BY <1>1, IdleTyped DEF CtrlSavePV
<1>4. \A d \in Claims \ {c} : claims'[d] = claims[d]
  BY <1>1 DEF CtrlSavePV
<1>5. /\ vols[w].st = "live"
      /\ \A q \in PVNames : pvs[q].ex => pvs[q].vol # w
      /\ \A d \in Claims \ {c} : prov[d].pc = "restored" => prov[d].vol # w
  BY <1>1 DEF LiveInv, RestoredVolumesLive, VolumesExclusive
<1>6. UserVolumesForeign'
  BY <1>1, <1>2 DEF LiveInv, UserVolumesForeign
<1>7. VolumesExclusive'
  <2>1. \A p, q \in PVNames :
          p # q /\ pvs'[p].ex /\ pvs'[q].ex /\ pvs'[p].owner \in Identities =>
              pvs'[p].vol # pvs'[q].vol
    BY <1>2, <1>5 DEF LiveInv, VolumesExclusive
  <2>2. \A d \in Claims, p \in PVNames :
          prov'[d].pc = "restored" /\ pvs'[p].ex => pvs'[p].vol # prov'[d].vol
    BY <1>2, <1>3, <1>5 DEF LiveInv, VolumesExclusive
  <2>3. \A d, e \in Claims :
          d # e /\ prov'[d].pc = "restored" /\ prov'[e].pc = "restored" =>
              prov'[d].vol # prov'[e].vol
    BY <1>3 DEF LiveInv, VolumesExclusive
  <2>4. QED  BY <2>1, <2>2, <2>3 DEF VolumesExclusive
<1>8. RestoredVolumesLive'
  BY <1>1, <1>3 DEF LiveInv, RestoredVolumesLive
<1>9. BoundPVLive'
  BY <1>1, <1>2, <1>4, <1>5 DEF LiveInv, BoundPVLive, Released
<1>10. QED  BY <1>6, <1>7, <1>8, <1>9 DEF LiveInv

(* Delete(pv) changes at most the volume pv names.                         *)
LEMMA DeleteElsewhere ==
    ASSUME IInv, NEW pv, pv.vol \in VolIds
    PROVE  \A x \in VolIds \ {pv.vol} : VolsAfterDelete(pv)[x] = vols[x]
BY DEF VolsAfterDelete, IInv, TypeOK

(* The controller fails to save the PV and calls Delete on it: the volume *)
(* Delete may remove is named by no PV and by no other call.               *)
LEMMA SaveFailedLive ==
    ASSUME IInv, LiveInv, NEW c \in Claims, CtrlSaveFailed(c) PROVE LiveInv'
<1> DEFINE w == prov[c].vol
<1>1. /\ pvs' = pvs /\ claims' = claims /\ prov[c].pc = "restored"
      /\ ProvisionedPV(c).vol = w /\ w \in VolIds
      /\ vols' = VolsAfterDelete(ProvisionedPV(c))
  BY RestoredFacts DEF CtrlSaveFailed, processVars
<1>2. \A x \in VolIds \ {w} : vols'[x] = vols[x]
  BY <1>1, DeleteElsewhere
<1>3. prov'[c].pc = "idle" /\ \A d \in Claims \ {c} : prov'[d] = prov[d]
  BY <1>1, IdleTyped, RestoredFacts DEF CtrlSaveFailed
<1>4. /\ \A q \in PVNames : pvs[q].ex => pvs[q].vol \in VolIds \ {w}
      /\ \A d \in Claims \ {c} : prov[d].pc = "restored" => prov[d].vol \in VolIds \ {w}
  BY <1>1 DEF LiveInv, VolumesExclusive, IInv, VolumesInUse
<1>5. QED  BY <1>1, <1>2, <1>3, <1>4, LiveFrame

(* The controller calls Delete on a PV: when Delete returns nil the PV is *)
(* annotated with this identity, so no other PV and no call names its      *)
(* volume; otherwise nothing changes.                                      *)
LEMMA DeletePVLive ==
    ASSUME IInv, LiveInv, NEW p \in PVNames, CtrlDeletePV(p) PROVE LiveInv'
<1> DEFINE w == pvs[p].vol
<1>1. /\ claims' = claims /\ prov' = prov /\ pvs[p].ex /\ w \in VolIds
      /\ vols' = VolsAfterDelete(pvs[p]) /\ pvs \in [PVNames -> PVRec]
  BY DEF CtrlDeletePV, processVars, IInv, VolumesInUse, TypeOK
<1>2. CASE DeleteResult(pvs[p]) = "ok"
  <2>1. pvs[p].owner \in Identities
    BY <1>2, DeleteOwned DEF IInv, TypeOK
  <2>2. \A q \in PVNames : pvs'[q].ex => q # p /\ pvs'[q] = pvs[q]
    BY <1>1, <1>2 DEF CtrlDeletePV, NoPV
  <2>3. /\ \A q \in PVNames \ {p} : pvs[q].ex => pvs[q].vol \in VolIds \ {w}
        /\ \A d \in Claims : prov[d].pc = "restored" => prov[d].vol \in VolIds \ {w}
    BY <1>1, <2>1 DEF LiveInv, VolumesExclusive, IInv, VolumesInUse
  <2>4. \A x \in VolIds \ {w} : vols'[x] = vols[x]
    BY <1>1, DeleteElsewhere
  <2>5. QED  BY <1>1, <2>2, <2>3, <2>4, LiveFrame
<1>3. CASE DeleteResult(pvs[p]) # "ok"
  <2>1. pvs' = pvs /\ vols' = vols
    BY <1>1, <1>3 DEF CtrlDeletePV, VolsAfterDelete
  <2>2. QED  BY <1>1, <2>1, LiveFrame
<1>4. QED  BY <1>2, <1>3

(* A crash after Delete of a released PV: the PV stays but is released,   *)
(* and the volume Delete removed is named by no other PV and by no call.  *)
LEMMA CrashInDeleteLive ==
    ASSUME IInv, LiveInv, NEW p \in PVNames, CrashInDelete(p) PROVE LiveInv'
<1> DEFINE w == pvs[p].vol
<1>1. /\ pvs' = pvs /\ claims' = claims /\ \A d \in Claims : prov'[d].pc = "idle"
      /\ vols' = VolsAfterDelete(pvs[p]) /\ pvs[p].ex /\ Released(p)
      /\ \A x \in VolIds : vols'[x].by = vols[x].by
  <2>1. /\ pvs' = pvs /\ claims' = claims /\ \A d \in Claims : prov'[d].pc = "idle"
        /\ vols' = VolsAfterDelete(pvs[p]) /\ pvs[p].ex /\ Released(p)
    BY IdleTyped DEF CrashInDelete
  <2>2. vols \in [VolIds -> VolRec] /\ w \in VolIds
    BY <2>1 DEF IInv, TypeOK, VolumesInUse
  <2>3. QED  BY <2>1, <2>2 DEF VolsAfterDelete
<1>2. \A q \in PVNames : pvs[q].ex /\ ~Released(q) => vols'[pvs[q].vol] = vols[pvs[q].vol]
  <2>1. CASE DeleteResult(pvs[p]) = "ok"
    <3>1. pvs[p].owner \in Identities /\ w \in VolIds
      BY <1>1, <2>1, DeleteOwned DEF IInv, TypeOK, VolumesInUse
    <3>2. \A q \in PVNames \ {p} : pvs[q].ex => pvs[q].vol \in VolIds \ {w}
      BY <1>1, <3>1 DEF LiveInv, VolumesExclusive, IInv, VolumesInUse
    <3>3. \A x \in VolIds \ {w} : vols'[x] = vols[x]
      BY <1>1, <3>1, DeleteElsewhere
    <3>4. QED  BY <1>1, <3>2, <3>3
  <2>2. CASE DeleteResult(pvs[p]) # "ok"
    BY <1>1, <2>2 DEF VolsAfterDelete
  <2>3. QED  BY <2>1, <2>2
<1>3. UserVolumesForeign'
  BY <1>1 DEF LiveInv, UserVolumesForeign, IInv, VolumesInUse
<1>4. VolumesExclusive' /\ RestoredVolumesLive'
  BY <1>1 DEF LiveInv, VolumesExclusive, RestoredVolumesLive
<1>5. BoundPVLive'
  <2>1. \A q \in PVNames : Released(q)' = Released(q)
    BY <1>1 DEF Released
  <2>2. QED  BY <1>1, <1>2, <2>1 DEF LiveInv, BoundPVLive
<1>6. QED  BY <1>3, <1>4, <1>5 DEF LiveInv

(* An administrator creates PV p on a live volume that no PV names and    *)
(* that none of our identities created, so no "restored" call names it.   *)
LEMMA CreateUserPVLive ==
    ASSUME IInv, LiveInv, NEW p \in UserPVs, NEW v \in VolIds, CreateUserPV(p, v)
    PROVE  LiveInv'
<1>1. /\ p \in PVNames /\ pvs \in [PVNames -> PVRec]
      /\ vols' = vols /\ prov' = prov /\ claims' = claims
  BY DEF CreateUserPV, processVars, PVNames, IInv, TypeOK
<1>2. /\ pvs'[p].ex /\ pvs'[p].vol = v /\ pvs'[p].owner \notin Identities
      /\ \A q \in PVNames \ {p} : pvs'[q] = pvs[q]
  BY <1>1, NoneAssumption DEF CreateUserPV, Ids
<1>3. /\ vols[v].st = "live" /\ vols[v].by \notin Identities
      /\ \A q \in PVNames : pvs[q].ex => pvs[q].vol # v
  BY IdAssumption, NoneAssumption DEF CreateUserPV, Ids
<1>4. \A d \in Claims : prov[d].pc = "restored" => prov[d].vol # v
  BY <1>3 DEF IInv, AnnotationsTruthful, TypeOK
<1>5. UserVolumesForeign'
  BY <1>1, <1>2, <1>3 DEF LiveInv, UserVolumesForeign
<1>6. VolumesExclusive'
  <2>1. \A r, q \in PVNames :
          r # q /\ pvs'[r].ex /\ pvs'[q].ex /\ pvs'[r].owner \in Identities =>
              pvs'[r].vol # pvs'[q].vol
    BY <1>2, <1>3 DEF LiveInv, VolumesExclusive
  <2>2. \A d \in Claims, q \in PVNames :
          prov'[d].pc = "restored" /\ pvs'[q].ex => pvs'[q].vol # prov'[d].vol
    BY <1>1, <1>2, <1>4 DEF LiveInv, VolumesExclusive
  <2>3. \A d, e \in Claims :
          d # e /\ prov'[d].pc = "restored" /\ prov'[e].pc = "restored" =>
              prov'[d].vol # prov'[e].vol
    BY <1>1 DEF LiveInv, VolumesExclusive
  <2>4. QED  BY <2>1, <2>2, <2>3 DEF VolumesExclusive
<1>7. RestoredVolumesLive'
  BY <1>1 DEF LiveInv, RestoredVolumesLive
<1>8. BoundPVLive'
  BY <1>1, <1>2, <1>3 DEF LiveInv, BoundPVLive, Released
<1>9. QED  BY <1>5, <1>6, <1>7, <1>8 DEF LiveInv

(* LiveInv is preserved by every step, given IInv in the state it leaves. *)
LEMMA NextLiveInv == IInv /\ LiveInv /\ [Next]_vars => LiveInv'
<1> SUFFICES ASSUME IInv, LiveInv, [Next]_vars PROVE LiveInv'
  OBVIOUS
<1>1. claims \in [Claims -> {"pending", "bound", "deleted"}]
  BY DEF IInv, TypeOK
<1>2. CASE \E c \in Claims : ProvGetSnapshot(c) \/ ProvGetData(c) \/ ProvResolve(c)
  BY <1>2, ProvReadKeep, LiveFrame
<1>3. CASE \E c \in Claims : ProvRestore(c)
  BY <1>3, RestoreLive
<1>4. CASE Crash
  <2>1. pvs' = pvs /\ vols' = vols /\ claims' = claims
        /\ \A d \in Claims : prov'[d].pc = "idle"
    BY <1>4, IdleTyped DEF Crash
  <2>2. QED  BY <2>1, LiveFrame
<1>5. CASE Restart
  BY <1>5, LiveFrame DEF Restart
<1>6. CASE Controller
  <2>1. PICK c \in Claims, p \in PVNames :
          CtrlSavePV(c) \/ CtrlSaveFailed(c) \/ ReleaseClaim(c) \/ CtrlDeletePV(p)
    BY <1>6 DEF Controller
  <2>2. CASE ReleaseClaim(c)
    <3>1. pvs' = pvs /\ vols' = vols /\ prov' = prov
          /\ \A d \in Claims : claims[d] = "deleted" => claims'[d] = "deleted"
      BY <1>1, <2>2 DEF ReleaseClaim, processVars
    <3>2. QED  BY <3>1, LiveFrame
  <2>3. QED
    BY <2>1, <2>2, SavePVLive, SaveFailedLive, DeletePVLive
<1>7. CASE \E p \in UserPVs : DeleteUserPV(p)
  <2>1. PICK p \in UserPVs : DeleteUserPV(p)
    BY <1>7
  <2>2. \A q \in PVNames : pvs'[q].ex => pvs'[q] = pvs[q]
    BY <2>1 DEF DeleteUserPV, NoPV, IInv, TypeOK
  <2>3. QED  BY <2>1, <2>2, LiveFrame DEF DeleteUserPV, processVars
<1>8. CASE \E p \in UserPVs, v \in VolIds : CreateUserPV(p, v)
  BY <1>8, CreateUserPVLive
<1>9. CASE \/ \E s \in SnapNames : CreateSnapshot(s) \/ DeleteSnapshot(s)
           \/ \E s \in SnapNames, d \in DataNames : CreateEmptyData(s, d)
           \/ \E s \in SnapNames, p \in PVNames, a \in ArtIds, d \in DataNames :
                 TakeSnapshot(s, p, a, d)
           \/ \E d \in DataNames : DeleteSnapshotData(d)
  <2>1. pvs' = pvs /\ vols' = vols /\ claims' = claims /\ prov' = prov
    BY <1>9 DEF CreateSnapshot, DeleteSnapshot, CreateEmptyData, TakeSnapshot,
                DeleteSnapshotData
  <2>2. QED  BY <2>1, LiveFrame
<1>10. CASE UNCHANGED vars
  BY <1>10, LiveFrame DEF vars
<1>11. CASE \E p \in PVNames : CrashInDelete(p)
  BY <1>11, CrashInDeleteLive
<1>12. QED
  BY <1>2, <1>3, <1>4, <1>5, <1>6, <1>7, <1>8, <1>9, <1>10, <1>11
     DEF Next, Provisioner, Environment

(* A PV that is not released always names a live backend volume: no       *)
(* restore reuses a volume in use, and neither Delete of a released PV nor *)
(* the cleanup after a failed PV save removes a volume another PV or call  *)
(* names, through restarts, identity changes and PV names reused by        *)
(* administrators.                                                         *)
THEOREM BoundVolumes == Spec => []BoundPVLive
<1>1. Init => IInv /\ LiveInv  BY InitIInv, InitLiveInv
<1>2. IInv /\ LiveInv /\ [Next]_vars => IInv' /\ LiveInv'  BY NextIInv, NextLiveInv
<1>3. IInv /\ LiveInv => BoundPVLive  BY DEF LiveInv
<1>4. QED  BY <1>1, <1>2, <1>3, PTL DEF Spec
=============================================================================
