------------------------- MODULE SnapshotProvisioner -------------------------
(***************************************************************************)
(* The snapshot-promoter provisioner of src/cmd/snapshot-pv-provisioner    *)
(* together with the hostPath volume plugin of src/unnamed/part_000.       *)
(*                                                                         *)
(* The source file holds two revisions of the provisioner: the TPR one     *)
(* (lines 17-256) and the CRD one (lines 273-557).  Version selects which  *)
(* of them the model follows; where they differ, the definition has one    *)
(* operator per revision.                                                  *)
(*                                                                         *)
(* Provision is split at every API read (Get VolumeSnapshot, Get           *)
(* VolumeSnapshotData, Get PersistentVolume) and at the plugin's restore,  *)
(* because the records it reads are written by other actors in between.   *)
(* The external controller loop (lib/controller), the users and the        *)
(* snapshot controller that writes the records are not in src/ and are     *)
(* modelled from spec.md sections 1, 5 and 6.                              *)
(***************************************************************************)
EXTENDS Naturals, FiniteSets

CONSTANTS
    Version,        \* "tpr" or "crd": which revision of the provisioner
    CloudProvider,  \* value of the -cloudprovider flag: "aws", "gce", "openstack", None if empty
    IdFlagSet,      \* TRUE iff the -id flag is given
    Identities,     \* identities this provisioner process may have
    Other,          \* identity of another provisioner instance
    None,           \* the absent value of an optional field
    Claims,         \* PersistentVolumeClaims; the PV provisioned for claim c is named c
    ClaimSnapshot,  \* [Claims -> SnapNames \cup {None}]: the snapshot annotation
    ClaimSelector,  \* claims that carry a label selector
    SnapNames,      \* VolumeSnapshot names (one namespace)
    DataNames,      \* VolumeSnapshotData names
    UserPVs,        \* names of PVs not provisioned from a claim
    VolIds,         \* backend volumes (hostPath directories, cloud disks)
    ArtIds,         \* snapshot artifacts (hostPath .tgz files, cloud snapshots)
    InitPV,         \* [UserPVs -> PV records]: the PVs present at start
    InitVol,        \* [VolIds -> volume records]: the backend volumes present at start
    TarMayFail,     \* TRUE iff the tar process may fail on a present artifact
    SaveMayFail,    \* TRUE iff the controller may fail to save a provisioned PV
    DeleteMayCrash, \* TRUE iff the process may crash between Delete and the PV's removal
    MaxCrashes      \* bound on process crashes that are not panics

PluginTags == {"hostPath", "aws", "gce", "cinder"}
VolTypes == PluginTags \cup {"nfs"}      \* "nfs": a PV source no plugin supports
Ids == Identities \cup {Other}
PVNames == UserPVs \cup Claims

VolStates == {"free", "live", "junk", "gone"}
ArtStates == {"free", "live", "junk", "gone"}

SnapRec == [ex: BOOLEAN, data: DataNames \cup {None}]
DataRec == [ex: BOOLEAN, kind: PluginTags \cup {None},
            loc: ArtIds \cup {None}, pvRef: PVNames \cup {None}]
PVRec == [ex: BOOLEAN, vol: VolIds \cup {None}, type: VolTypes \cup {None},
          owner: Ids \cup {None}]
VolRec == [st: VolStates, type: VolTypes \cup {None}, by: Ids \cup {None},
           from: ArtIds \cup {None}, delBy: Ids \cup {None}]
ProvRec == [pc: {"idle", "gotSnap", "gotData", "resolved", "restored"},
            data: DataNames \cup {None}, rec: DataRec,
            type: PluginTags \cup {None}, vol: VolIds \cup {None}]
Outcomes == {"none", "ok", "Selector", "NoAnnotation", "SnapNotFound",
             "Unbound", "DataNotFound", "PVNotBound", "PVNotFound",
             "UnsupportedType", "RestoreFailed", "panic"}

NoSnap == [ex |-> FALSE, data |-> None]
NoData == [ex |-> FALSE, kind |-> None, loc |-> None, pvRef |-> None]
NoPV == [ex |-> FALSE, vol |-> None, type |-> None, owner |-> None]
IdleProv == [pc |-> "idle", data |-> None, rec |-> NoData, type |-> None, vol |-> None]

ASSUME VersionAssumption == Version \in {"tpr", "crd"}
ASSUME CloudAssumption == CloudProvider \in {None, "aws", "gce", "openstack"}
ASSUME IdAssumption == /\ IdFlagSet \in BOOLEAN
                       /\ Identities # {} /\ Other \notin Identities
ASSUME NoneAssumption ==
    None \notin Ids \cup SnapNames \cup DataNames \cup PVNames \cup VolIds
                \cup ArtIds \cup VolTypes
ASSUME ClaimAssumption == /\ ClaimSnapshot \in [Claims -> SnapNames \cup {None}]
                          /\ ClaimSelector \subseteq Claims
                          /\ UserPVs \cap Claims = {}
ASSUME InitAssumption ==
    /\ InitPV \in [UserPVs -> PVRec]
    /\ InitVol \in [VolIds -> VolRec]
    /\ \A p \in UserPVs : InitPV[p].ex =>
          /\ InitPV[p].owner \in {None, Other}
          /\ InitPV[p].vol \in VolIds
          /\ InitVol[InitPV[p].vol].st = "live"
          /\ InitVol[InitPV[p].vol].type = InitPV[p].type
    /\ \A v \in VolIds : /\ InitVol[v].st \in {"free", "live"}
                         /\ InitVol[v].by \in {None, Other}
    /\ \A v \in VolIds : InitVol[v].delBy = None
ASSUME BoundAssumption ==
    TarMayFail \in BOOLEAN /\ SaveMayFail \in BOOLEAN /\ DeleteMayCrash \in BOOLEAN
    /\ MaxCrashes \in Nat

VARIABLES
    snapshots,     \* VolumeSnapshot records
    snapshotData,  \* VolumeSnapshotData records
    pvs,           \* PersistentVolume objects
    claims,        \* phase of each claim: "pending", "bound", "deleted"
    vols,          \* backend volumes and who created and destroyed them
    arts,          \* snapshot artifacts
    plugins,       \* the keys of the volumePlugins map
    self,          \* p.identity of the running process
    up,            \* the process is running
    prov,          \* the Provision call in progress for each claim
    outcome,       \* the last result of Provision for each claim
    idsUsed,       \* identities the process has had
    crashes,       \* crashes that were not panics
    boundTo        \* history: the artifacts each snapshot name was ever bound to

vars == <<snapshots, snapshotData, pvs, claims, vols, arts, plugins, self, up,
          prov, outcome, idsUsed, crashes, boundTo>>

-----------------------------------------------------------------------------
(* The plugin registry: buildVolumePlugins.  The cloud plugin for the      *)
(* configured provider is registered only if its client initialised; the  *)
(* TPR revision knows only aws, the CRD revision also gce and openstack.   *)
CloudTag == [aws |-> "aws", gce |-> "gce", openstack |-> "cinder"]

(* Mutant: hostPath registered only when no cloud plugin is.               *)
BuildVolumePluginsTPRElse(initOK) ==
    IF CloudProvider = "aws" /\ initOK THEN {"aws"} ELSE {"hostPath"}

BuildVolumePluginsTPR(initOK) ==
    IF CloudProvider = "aws" /\ initOK THEN {"aws", "hostPath"} ELSE {"hostPath"}

BuildVolumePluginsCRD(initOK) ==
    IF CloudProvider # None /\ initOK THEN {CloudTag[CloudProvider], "hostPath"}
    ELSE {"hostPath"}

BuildVolumePlugins(initOK) ==
    IF Version = "tpr" THEN BuildVolumePluginsTPR(initOK)
    ELSE BuildVolumePluginsCRD(initOK)

Init ==
    /\ snapshots = [s \in SnapNames |-> NoSnap]
    /\ snapshotData = [d \in DataNames |-> NoData]
    /\ pvs = [p \in PVNames |-> IF p \in UserPVs THEN InitPV[p] ELSE NoPV]
    /\ claims = [c \in Claims |-> "pending"]
    /\ vols = InitVol
    /\ arts = [a \in ArtIds |-> "free"]
    /\ \E ok \in BOOLEAN : plugins = BuildVolumePlugins(ok)
    /\ self \in Identities
    /\ up = TRUE
    /\ prov = [c \in Claims |-> IdleProv]
    /\ outcome = [c \in Claims |-> "none"]
    /\ idsUsed = {self}
    /\ crashes = 0
    /\ boundTo = [s \in SnapNames |-> {}]

recordVars == <<snapshots, snapshotData, arts, boundTo>>
processVars == <<plugins, self, up, idsUsed, crashes>>

-----------------------------------------------------------------------------
(* Provision(options), one action per API read or plugin call.            *)

(* An early return of Provision: the claim stays pending and the external *)
(* controller will call Provision again.                                   *)
Fail(c, kind) ==
    /\ prov' = [prov EXCEPT ![c] = IdleProv]
    /\ outcome' = [outcome EXCEPT ![c] = kind]

(* The checks on the claim and the Get of the VolumeSnapshot.              *)
ProvGetSnapshot(c) ==
    LET sn == ClaimSnapshot[c] IN
    /\ up /\ claims[c] = "pending" /\ prov[c].pc = "idle"
    /\ CASE c \in ClaimSelector         -> Fail(c, "Selector")
         [] sn = None                   -> Fail(c, "NoAnnotation")
         [] ~snapshots[sn].ex           -> Fail(c, "SnapNotFound")
         [] snapshots[sn].data = None   -> Fail(c, "Unbound")
         [] OTHER -> /\ prov' = [prov EXCEPT ![c].pc = "gotSnap",
                                             ![c].data = snapshots[sn].data]
                     /\ UNCHANGED outcome
    /\ UNCHANGED <<recordVars, processVars, pvs, claims, vols>>

(* The Get of the VolumeSnapshotData the snapshot named when it was read.  *)
ProvGetData(c) ==
    /\ up /\ prov[c].pc = "gotSnap"
    /\ IF ~snapshotData[prov[c].data].ex
         THEN Fail(c, "DataNotFound")
         ELSE /\ prov' = [prov EXCEPT ![c].pc = "gotData",
                                      ![c].rec = snapshotData[prov[c].data]]
              /\ UNCHANGED outcome
    /\ UNCHANGED <<recordVars, processVars, pvs, claims, vols>>

(* TPR snapshotRestore: the volume type is the populated source of the     *)
(* VolumeSnapshotData, the plugin is looked up in volumePlugins.           *)
ResolveTPR(c) ==
    LET kind == prov[c].rec.kind IN
    CASE kind = None \/ kind \notin plugins -> Fail(c, "UnsupportedType")
      [] OTHER -> /\ prov' = [prov EXCEPT ![c].pc = "resolved", ![c].type = kind]
                  /\ UNCHANGED outcome

(* CRD snapshotRestore: getPVFromVolumeSnapshotDataSpec reads the PV the   *)
(* snapshot was taken from, and the volume type is that PV's source.       *)
ResolveCRD(c) ==
    LET ref == prov[c].rec.pvRef IN
    CASE ref = None                    -> Fail(c, "PVNotBound")
      [] ~pvs[ref].ex                  -> Fail(c, "PVNotFound")
      [] pvs[ref].type \notin plugins  -> Fail(c, "UnsupportedType")
      [] OTHER -> /\ prov' = [prov EXCEPT ![c].pc = "resolved",
                                          ![c].type = pvs[ref].type]
                  /\ UNCHANGED outcome

ProvResolve(c) ==
    /\ up /\ prov[c].pc = "gotData"
    /\ IF Version = "tpr" THEN ResolveTPR(c) ELSE ResolveCRD(c)
    /\ UNCHANGED <<recordVars, processVars, pvs, claims, vols>>

(* A volume made by a plugin restore, created by the running identity.     *)
RestoredVol(type, a) ==
    [st |-> "live", type |-> type, by |-> self, from |-> a, delBy |-> None]

(* Mutant: the restore directory is not a fresh name; MkdirAll accepts an  *)
(* existing directory and tar extracts into it.                            *)
HostPathRestoreOKReusedDir(c, v) ==
    LET rec == prov[c].rec IN
    /\ rec.kind = "hostPath"
    /\ vols[v].st \in {"free", "live"}
    /\ arts[rec.loc] = "live"
    /\ vols' = [vols EXCEPT ![v] = RestoredVol("hostPath", rec.loc)]

(* hostPath SnapshotRestore succeeding: a fresh uuid directory under       *)
(* /restore/ is created and the artifact is extracted into it.             *)
HostPathRestoreOK(c, v) ==
    LET rec == prov[c].rec IN
    /\ rec.kind = "hostPath"
    /\ vols[v].st = "free"
    /\ arts[rec.loc] = "live"
    /\ vols' = [vols EXCEPT ![v] = RestoredVol("hostPath", rec.loc)]

(* hostPath SnapshotRestore failing: on a data record of another kind      *)
(* nothing happens; when tar fails the directory made by MkdirAll stays.   *)
HostPathRestoreFail(c, v) ==
    LET rec == prov[c].rec IN
    \/ /\ rec.kind # "hostPath"
       /\ UNCHANGED vols
    \/ /\ rec.kind = "hostPath"
       /\ vols[v].st = "free"
       /\ arts[rec.loc] # "live" \/ TarMayFail
       /\ vols' = [vols EXCEPT ![v] = [RestoredVol("hostPath", rec.loc) EXCEPT !.st = "junk"]]

(* The aws, gce and cinder plugins' SnapshotRestore (not in src/).         *)
CloudRestoreOK(c, v) ==
    LET rec == prov[c].rec IN
    /\ rec.kind = prov[c].type
    /\ vols[v].st = "free"
    /\ arts[rec.loc] = "live"
    /\ vols' = [vols EXCEPT ![v] = RestoredVol(prov[c].type, rec.loc)]

CloudRestoreFail(c, v) ==
    LET rec == prov[c].rec IN
    /\ rec.kind # prov[c].type \/ arts[rec.loc] # "live"
    /\ UNCHANGED vols

(* TPR: a failed restore makes snapshotRestore return nil, nil, nil and    *)
(* Provision then fails on the nil volume source.                          *)
RestoreErrorTPR(c) ==
    /\ Fail(c, "RestoreFailed")
    /\ UNCHANGED up

(* CRD: the test err != nil && pv == nil is false since pv is non-nil, so  *)
(* the else branch dereferences the nil pvSrc: the process panics and      *)
(* every Provision in progress is lost.                                    *)
RestoreErrorCRD(c) ==
    /\ up' = FALSE
    /\ prov' = [d \in Claims |-> IdleProv]
    /\ outcome' = [outcome EXCEPT ![c] = "panic"]

(* The plugin's SnapshotRestore and the rest of Provision: on success the  *)
(* PV is assembled in memory with this process's identity annotation.     *)
ProvRestore(c) ==
    /\ up /\ prov[c].pc = "resolved"
    /\ \E v \in VolIds :
         \/ /\ IF prov[c].type = "hostPath" THEN HostPathRestoreOK(c, v)
                                            ELSE CloudRestoreOK(c, v)
            /\ prov' = [prov EXCEPT ![c].pc = "restored", ![c].vol = v]
            /\ UNCHANGED <<outcome, up>>
         \/ /\ IF prov[c].type = "hostPath" THEN HostPathRestoreFail(c, v)
                                            ELSE CloudRestoreFail(c, v)
            /\ IF Version = "tpr" THEN RestoreErrorTPR(c) ELSE RestoreErrorCRD(c)
    /\ UNCHANGED <<recordVars, plugins, self, idsUsed, crashes, pvs, claims>>

-----------------------------------------------------------------------------
(* Delete(volume).                                                         *)

(* TPR Delete: the identity annotation is checked and nothing is deleted.  *)
DeleteResultTPR(pv) ==
    CASE pv.owner = None  -> "NotOwned"
      [] pv.owner # self  -> "Ignored"
      [] OTHER            -> "ok"

(* Mutant: the comparison of the annotation with p.identity is dropped.    *)
DeleteResultCRDNoIdentity(pv) ==
    CASE pv.owner = None              -> "NotOwned"
      [] pv.type \notin plugins       -> "UnsupportedType"
      [] vols[pv.vol].st # "live"     -> "VolumeDeleteFailed"
      [] OTHER                        -> "ok"

(* Mutant: the annotation comparison inverted, so Delete skips exactly the *)
(* PVs this identity provisioned.                                           *)
DeleteResultCRDInverted(pv) ==
    CASE pv.owner = None              -> "NotOwned"
      [] pv.owner = self              -> "Ignored"
      [] pv.type \notin plugins       -> "UnsupportedType"
      [] vols[pv.vol].st # "live"     -> "VolumeDeleteFailed"
      [] OTHER                        -> "ok"

(* CRD Delete: after the identity check the plugin of the PV's source type *)
(* is looked up and its VolumeDelete called.  The VolumeDelete of the CRD  *)
(* revision's plugins is not under src/, and spec.md 4.1 does not say what *)
(* it returns for a volume that is already gone.  The model assumes that   *)
(* it fails: an assumption, on which the delete_crash_crd finding rests.   *)
DeleteResultCRD(pv) ==
    CASE pv.owner = None              -> "NotOwned"
      [] pv.owner # self              -> "Ignored"
      [] pv.type \notin plugins       -> "UnsupportedType"
      [] vols[pv.vol].st # "live"     -> "VolumeDeleteFailed"
      [] OTHER                        -> "ok"

DeleteResult(pv) ==
    IF Version = "tpr" THEN DeleteResultTPR(pv) ELSE DeleteResultCRD(pv)

(* The backend volumes after Delete(pv): only CRD's VolumeDelete removes   *)
(* anything.                                                               *)
VolsAfterDelete(pv) ==
    IF Version = "crd" /\ DeleteResult(pv) = "ok"
      THEN [vols EXCEPT ![pv.vol].st = "gone", ![pv.vol].delBy = self]
      ELSE vols

-----------------------------------------------------------------------------
(* The external controller (lib/controller, not in src/).                 *)

(* The PV that Provision returned for claim c.                              *)
ProvisionedPV(c) ==
    [ex |-> TRUE, vol |-> prov[c].vol, type |-> vols[prov[c].vol].type, owner |-> self]

(* The controller saves the PV that Provision returned; the claim is bound. *)
CtrlSavePV(c) ==
    /\ up /\ prov[c].pc = "restored"
    /\ prov' = [prov EXCEPT ![c] = IdleProv]
    /\ pvs' = [pvs EXCEPT ![c] = ProvisionedPV(c)]
    /\ claims' = [claims EXCEPT ![c] = "bound"]
    /\ outcome' = [outcome EXCEPT ![c] = "ok"]
    /\ UNCHANGED <<recordVars, processVars, vols>>

(* The controller cannot save the PV: it calls Delete on it and the claim   *)
(* stays pending.                                                          *)
CtrlSaveFailed(c) ==
    /\ up /\ prov[c].pc = "restored" /\ SaveMayFail
    /\ prov' = [prov EXCEPT ![c] = IdleProv]
    /\ vols' = VolsAfterDelete(ProvisionedPV(c))
    /\ UNCHANGED <<recordVars, processVars, pvs, claims, outcome>>

(* The user deletes a bound claim; its PV is released.                     *)
ReleaseClaim(c) ==
    /\ claims[c] = "bound"
    /\ claims' = [claims EXCEPT ![c] = "deleted"]
    /\ UNCHANGED <<recordVars, processVars, pvs, vols, prov, outcome>>

(* The PV of claim p, after the claim was deleted.                         *)
Released(p) == p \in Claims /\ claims[p] = "deleted"

(* The controller calls Delete on a released PV that names this           *)
(* provisioner, and removes the PV object when Delete returns nil.         *)
CtrlDeletePV(p) ==
    /\ up /\ pvs[p].ex
    /\ p \in UserPVs \/ Released(p)
    /\ vols' = VolsAfterDelete(pvs[p])
    /\ pvs' = IF DeleteResult(pvs[p]) = "ok" THEN [pvs EXCEPT ![p] = NoPV] ELSE pvs
    /\ UNCHANGED <<recordVars, processVars, claims, prov, outcome>>

-----------------------------------------------------------------------------
(* The process: crashes and restarts run main again, which rebuilds the    *)
(* plugin map and, without -id, draws a new identity.                      *)
Crash ==
    /\ up /\ crashes < MaxCrashes
    /\ up' = FALSE
    /\ crashes' = crashes + 1
    /\ prov' = [c \in Claims |-> IdleProv]
    /\ UNCHANGED <<recordVars, plugins, self, idsUsed, pvs, claims, vols, outcome>>

Restart ==
    /\ ~up
    /\ up' = TRUE
    /\ \E ok \in BOOLEAN : plugins' = BuildVolumePlugins(ok)
    /\ IF IdFlagSet THEN UNCHANGED self
       ELSE \E i \in Identities \ idsUsed : self' = i
    /\ idsUsed' = idsUsed \cup {self'}
    /\ UNCHANGED <<recordVars, crashes, pvs, claims, vols, prov, outcome>>

(* The process crashes after the controller's call of Delete on PV p has  *)
(* returned and before the controller removed the PV object: VolumeDelete *)
(* has run, the PV is still there, and the controller will call Delete on  *)
(* it again after the restart.  On an administrator's PV Delete changes   *)
(* nothing, and a crash there is Crash.                                    *)
CrashInDelete(p) ==
    /\ DeleteMayCrash
    /\ up /\ crashes < MaxCrashes /\ pvs[p].ex /\ Released(p)
    /\ vols' = VolsAfterDelete(pvs[p])
    /\ up' = FALSE
    /\ crashes' = crashes + 1
    /\ prov' = [c \in Claims |-> IdleProv]
    /\ UNCHANGED <<recordVars, plugins, self, idsUsed, pvs, claims, outcome>>

-----------------------------------------------------------------------------
(* Users and the snapshot controller (not in src/), writing the records.   *)

CreateSnapshot(s) ==
    /\ ~snapshots[s].ex
    /\ snapshots' = [snapshots EXCEPT ![s] = [ex |-> TRUE, data |-> None]]
    /\ UNCHANGED <<snapshotData, arts, boundTo, processVars, pvs, claims, vols, prov, outcome>>

(* hostPath SnapshotCreate: tar of the PV's path into a fresh uuid file in *)
(* /tmp/; the file is left behind when tar fails.                          *)
HostPathSnapshotCreate(p, a) ==
    \/ /\ vols[pvs[p].vol].st = "live"
       /\ arts' = [arts EXCEPT ![a] = "live"]
    \/ /\ vols[pvs[p].vol].st # "live" \/ TarMayFail
       /\ arts' = [arts EXCEPT ![a] = "junk"]

(* The snapshot controller snapshots PV p for the unbound snapshot s, and  *)
(* on success records the artifact as VolumeSnapshotData d bound to s.     *)
TakeSnapshot(s, p, a, d) ==
    /\ snapshots[s].ex /\ snapshots[s].data = None
    /\ pvs[p].ex /\ pvs[p].type \in PluginTags
    /\ arts[a] = "free" /\ ~snapshotData[d].ex
    /\ IF pvs[p].type = "hostPath" THEN HostPathSnapshotCreate(p, a)
       ELSE arts' = [arts EXCEPT ![a] = IF vols[pvs[p].vol].st = "live" THEN "live" ELSE "junk"]
    /\ IF arts'[a] = "live"
         THEN /\ snapshotData' = [snapshotData EXCEPT ![d] =
                   [ex |-> TRUE, kind |-> pvs[p].type, loc |-> a, pvRef |-> p]]
              /\ snapshots' = [snapshots EXCEPT ![s].data = d]
              /\ boundTo' = [boundTo EXCEPT ![s] = @ \cup {a}]
         ELSE UNCHANGED <<snapshotData, snapshots, boundTo>>
    /\ UNCHANGED <<processVars, pvs, claims, vols, prov, outcome>>

(* A user binds s to a VolumeSnapshotData with no populated source.        *)
CreateEmptyData(s, d) ==
    /\ snapshots[s].ex /\ snapshots[s].data = None /\ ~snapshotData[d].ex
    /\ snapshotData' = [snapshotData EXCEPT ![d] = [NoData EXCEPT !.ex = TRUE]]
    /\ snapshots' = [snapshots EXCEPT ![s].data = d]
    /\ UNCHANGED <<arts, boundTo, processVars, pvs, claims, vols, prov, outcome>>

DeleteSnapshot(s) ==
    /\ snapshots[s].ex
    /\ snapshots' = [snapshots EXCEPT ![s] = NoSnap]
    /\ UNCHANGED <<snapshotData, arts, boundTo, processVars, pvs, claims, vols, prov, outcome>>

(* hostPath SnapshotDelete: os.Remove of the artifact file.                *)
HostPathSnapshotDelete(a) ==
    arts' = [arts EXCEPT ![a] = "gone"]

(* The snapshot controller deletes VolumeSnapshotData d and its artifact,  *)
(* whether or not a snapshot still names d.                                *)
DeleteSnapshotData(d) ==
    /\ snapshotData[d].ex
    /\ snapshotData' = [snapshotData EXCEPT ![d] = NoData]
    /\ IF snapshotData[d].loc # None THEN HostPathSnapshotDelete(snapshotData[d].loc)
                                     ELSE UNCHANGED arts
    /\ UNCHANGED <<snapshots, boundTo, processVars, pvs, claims, vols, prov, outcome>>

(* An administrator deletes a PV that this provisioner does not own; the   *)
(* backend volume is retained.                                             *)
DeleteUserPV(p) ==
    /\ pvs[p].ex /\ pvs[p].owner \in {None, Other}
    /\ pvs' = [pvs EXCEPT ![p] = NoPV]
    /\ UNCHANGED <<recordVars, processVars, claims, vols, prov, outcome>>

(* An administrator creates PV p, possibly reusing a deleted PV's name,    *)
(* for an unclaimed volume that this provisioner did not create.           *)
CreateUserPV(p, v) ==
    /\ ~pvs[p].ex
    /\ vols[v].st = "live" /\ vols[v].by \in {None, Other}
    /\ \A q \in PVNames : pvs[q].ex => pvs[q].vol # v
    /\ pvs' = [pvs EXCEPT ![p] = [ex |-> TRUE, vol |-> v, type |-> vols[v].type, owner |-> None]]
    /\ UNCHANGED <<recordVars, processVars, claims, vols, prov, outcome>>

-----------------------------------------------------------------------------
Provisioner ==
    \/ \E c \in Claims : \/ ProvGetSnapshot(c) \/ ProvGetData(c)
                         \/ ProvResolve(c) \/ ProvRestore(c)
    \/ Crash \/ Restart
    \/ \E p \in PVNames : CrashInDelete(p)

Controller ==
    \E c \in Claims, p \in PVNames :
        CtrlSavePV(c) \/ CtrlSaveFailed(c) \/ ReleaseClaim(c) \/ CtrlDeletePV(p)

Environment ==
    \/ \E s \in SnapNames : CreateSnapshot(s) \/ DeleteSnapshot(s)
    \/ \E s \in SnapNames, d \in DataNames : CreateEmptyData(s, d)
    \/ \E s \in SnapNames, p \in PVNames, a \in ArtIds, d \in DataNames :
          TakeSnapshot(s, p, a, d)
    \/ \E d \in DataNames : DeleteSnapshotData(d)
    \/ \E p \in UserPVs : DeleteUserPV(p)
    \/ \E p \in UserPVs, v \in VolIds : CreateUserPV(p, v)

Next == Provisioner \/ Controller \/ Environment

Spec == Init /\ [][Next]_vars

(* lib/controller keeps calling Provision for a pending claim and saves     *)
(* what it returns, keeps calling Delete for a released PV until it        *)
(* succeeds, and the process is restarted after a crash.                   *)
Fairness ==
    /\ \A c \in Claims : /\ WF_vars(ProvGetSnapshot(c)) /\ WF_vars(ProvGetData(c))
                         /\ WF_vars(ProvResolve(c)) /\ WF_vars(ProvRestore(c))
                         /\ WF_vars(CtrlSavePV(c))
    /\ \A p \in PVNames : WF_vars(CtrlDeletePV(p))
    /\ WF_vars(Restart)

FairSpec == Spec /\ Fairness

-----------------------------------------------------------------------------
(* Properties.                                                             *)

TypeOK ==
    /\ snapshots \in [SnapNames -> SnapRec]
    /\ snapshotData \in [DataNames -> DataRec]
    /\ pvs \in [PVNames -> PVRec]
    /\ claims \in [Claims -> {"pending", "bound", "deleted"}]
    /\ vols \in [VolIds -> VolRec]
    /\ arts \in [ArtIds -> ArtStates]
    /\ plugins \subseteq PluginTags
    /\ self \in Identities
    /\ up \in BOOLEAN
    /\ prov \in [Claims -> ProvRec]
    /\ outcome \in [Claims -> Outcomes]
    /\ idsUsed \subseteq Identities
    /\ crashes \in 0..MaxCrashes
    /\ boundTo \in [SnapNames -> SUBSET ArtIds]

(* Delete only ever destroys a backend volume that the same provisioner    *)
(* identity restored: the identity annotation check of Delete, together    *)
(* with restarts, failed PV saves and PV name reuse, never lets this       *)
(* process delete a volume another instance or an administrator owns.      *)
OwnershipSafety ==
    \A v \in VolIds : vols[v].st = "gone" => vols[v].delBy = vols[v].by

(* A PV that is not released always points at a live backend volume: no   *)
(* restore reuses a directory or disk another PV uses, and no Delete or    *)
(* cleanup after a failed PV save removes a volume a bound PV still uses.  *)
BoundPVLive ==
    \A p \in PVNames :
        pvs[p].ex /\ ~Released(p)
            => vols[pvs[p].vol].st = "live"

(* spec.md 4.3 step 8: a failed SnapshotRestore makes Provision fail with  *)
(* RestoreFailed; it never takes the provisioner process down.             *)
RestoreFailureReported ==
    \A c \in Claims : outcome[c] # "panic"

(* spec.md 3 and 4.3: Delete removes the backend volume of a PV this       *)
(* provisioner created, so every volume it restored is in use by a PV or   *)
(* by a Provision in progress.                                             *)
NoOrphanedVolume ==
    \A v \in VolIds :
        vols[v].st = "live" /\ vols[v].by \in Identities =>
            \/ \E p \in PVNames : pvs[p].ex /\ pvs[p].vol = v
            \/ \E c \in Claims : prov[c].pc = "restored" /\ prov[c].vol = v

(* spec.md 4.3 steps 5-7: the volume type comes from the                    *)
(* VolumeSnapshotData's source, so Provision never fails because the PV    *)
(* the snapshot was taken from has since been deleted.                     *)
RestoreIndependentOfSourcePV ==
    \A c \in Claims : outcome[c] # "PVNotFound"

(* The claim's snapshot is bound to a VolumeSnapshotData with a populated  *)
(* hostPath source whose artifact is present.                              *)
SnapshotReady(c) ==
    LET sn == ClaimSnapshot[c]
        d == snapshots[sn].data
    IN  /\ sn # None /\ c \notin ClaimSelector
        /\ snapshots[sn].ex /\ d # None /\ snapshotData[d].ex
        /\ snapshotData[d].kind = "hostPath" /\ arts[snapshotData[d].loc] = "live"

(* A pending claim whose snapshot stays restorable from the hostPath       *)
(* backend, which buildVolumePlugins always registers, is eventually       *)
(* provisioned, whatever crashes, restarts and cloud initialisation do.    *)
ClaimProgress ==
    \A c \in Claims : <>[]SnapshotReady(c) => <>(claims[c] # "pending")

(* The FIXME of Provision: the PV of a claim holds the content of an       *)
(* artifact that was bound to the snapshot the claim names.                *)
RestoreFromClaimedSnapshot ==
    \A c \in Claims :
        claims[c] = "bound" => vols[pvs[c].vol].from \in boundTo[ClaimSnapshot[c]]

-----------------------------------------------------------------------------
(* The strengthening of OwnershipSafety that the proofs use.              *)

(* A PV object and a restore in progress name a volume that is not free:  *)
(* no restore can pick that volume and overwrite who created it.          *)
VolumesInUse ==
    /\ \A p \in PVNames : pvs[p].ex => pvs[p].vol \in VolIds /\ vols[pvs[p].vol].st # "free"
    /\ \A c \in Claims : prov[c].pc = "restored" =>
          prov[c].vol \in VolIds /\ vols[prov[c].vol].st # "free"

(* The identity annotation of a PV names the identity that restored its   *)
(* volume, and a restore in progress was made by the running identity.    *)
AnnotationsTruthful ==
    /\ \A p \in PVNames : pvs[p].ex /\ pvs[p].owner \in Identities =>
          vols[pvs[p].vol].by = pvs[p].owner
    /\ \A c \in Claims : prov[c].pc = "restored" => vols[prov[c].vol].by = self

(* A process that is down has no Provision in progress.                   *)
DownIdle ==
    ~up => \A c \in Claims : prov[c].pc = "idle"

(* A Provision call past its first Get names a VolumeSnapshotData.         *)
ProvWellFormed ==
    \A c \in Claims : prov[c].pc # "idle" => prov[c].data \in DataNames

IInv == /\ TypeOK /\ VolumesInUse /\ AnnotationsTruthful /\ DownIdle
        /\ ProvWellFormed /\ OwnershipSafety
-----------------------------------------------------------------------------
(* The strengthening of BoundPVLive that the proofs use.                   *)

(* A PV that does not carry one of our identities names a volume that no   *)
(* identity of ours created: administrators' PVs stay on foreign volumes.  *)
UserVolumesForeign ==
    \A p \in PVNames : pvs[p].ex /\ pvs[p].owner \notin Identities =>
        vols[pvs[p].vol].by \notin Identities

(* A volume restored by one of our identities is named by at most one PV   *)
(* or "restored" call: Delete of one never removes another's volume.       *)
VolumesExclusive ==
    /\ \A p, q \in PVNames :
          p # q /\ pvs[p].ex /\ pvs[q].ex /\ pvs[p].owner \in Identities =>
              pvs[p].vol # pvs[q].vol
    /\ \A c \in Claims, p \in PVNames :
          prov[c].pc = "restored" /\ pvs[p].ex => pvs[p].vol # prov[c].vol
    /\ \A c, d \in Claims :
          c # d /\ prov[c].pc = "restored" /\ prov[d].pc = "restored" =>
              prov[c].vol # prov[d].vol

(* The volume of a "restored" call is live.                                *)
RestoredVolumesLive ==
    \A c \in Claims : prov[c].pc = "restored" => vols[prov[c].vol].st = "live"

LiveInv == /\ UserVolumesForeign /\ VolumesExclusive /\ RestoredVolumesLive
           /\ BoundPVLive
-----------------------------------------------------------------------------
(* The backend volumes seen through the abstract lifecycle: a volume's     *)
(* state, its creator and its destroyer, with the type and the artifact it *)
(* came from hidden.                                                       *)
Lifecycle == INSTANCE VolumeLifecycle WITH
                 Creators <- Identities,
                 vst <- [v \in VolIds |-> vols[v].st],
                 vby <- [v \in VolIds |-> vols[v].by],
                 vdel <- [v \in VolIds |-> vols[v].delBy]

(* The provisioner, the controller and every other actor together change  *)
(* backend volumes only as the lifecycle allows: a restore writes only a  *)
(* free name, under the running identity; Delete and the cleanup after a  *)
(* failed save destroy only a live volume, and only one the deleting      *)
(* identity created.                                                       *)
VolumeLifecycleSpec == Lifecycle!Spec

(* A released PV that this provisioner owns is eventually removed: Delete  *)
(* is retried by lib/controller until it returns nil, so after any crash   *)
(* and restart the PV's Delete still succeeds and the PV object goes.      *)
ReleasedPVReclaimed ==
    \A p \in Claims :
        (pvs[p].ex /\ Released(p) /\ pvs[p].owner = self) ~> ~pvs[p].ex


(* The claims seen through ClaimBinding: a deleted claim is released while *)
(* its PV is there and reclaimed once it is gone, and a claim holds the    *)
(* volume its PV names.                                                    *)
Binding == INSTANCE ClaimBinding WITH
               cst <- [c \in Claims |->
                         IF claims[c] = "deleted"
                           THEN IF pvs[c].ex THEN "released" ELSE "reclaimed"
                           ELSE claims[c]],
               cvol <- [c \in Claims |-> IF pvs[c].ex THEN pvs[c].vol ELSE None]

(* Every behaviour binds each claim at most once, to a volume that no     *)
(* other claim's PV names, keeps that volume while the claim is bound, and *)
(* removes the claim's PV only after the user released it: Provision      *)
(* retries, crashes, failed saves and crashes inside Delete included.     *)
ClaimBindingSpec == Binding!Spec
=============================================================================
