# Verification of the snapshot PV provisioner

TLA+ models, TLC runs and TLAPS proofs for the snapshot-promoter provisioner of
`src/cmd/snapshot-pv-provisioner/snapshot-pv-provisioner.go` and the hostPath
volume plugin of `src/unnamed/part_000`.

## The system

* **Provisioner.** Kubernetes' external provisioning controller calls
  `Provision` for each pending claim. Provision then does the following, in order:
  1. Gets the `VolumeSnapshot` named by the claim's annotation.
  2. Gets the `VolumeSnapshotData` that snapshot is bound to.
  3. Picks a volume plugin (`snapshotRestore`).
  4. Calls the plugin's `SnapshotRestore`.
  5. Returns a PV annotated with the process identity.

  `Delete` is called by the controller on released PVs and on PVs it failed to
  save. The source file holds two revisions:
  * TPR, lines 17-256. It takes the volume type from the data record, and its
    `Delete` deletes nothing.
  * CRD, lines 273-557. It takes the type from the PV the snapshot was taken from,
    and its `Delete` calls `VolumeDelete`.
* **Plugin registry** (`buildVolumePlugins`). It is built once per process start.
  * The cloud plugin is registered only if the cloud client initialises. TPR
    knows only aws; CRD also knows gce and openstack (cinder).
  * hostPath is always registered.
* **hostPath plugin.** `SnapshotCreate` tars a PV's path into a fresh
  `/tmp/<uuid>.tgz`, and returns the path even when tar fails. `SnapshotDelete`
  removes the file. `SnapshotRestore` runs `MkdirAll /restore/<uuid>` and then
  untars into it; when tar fails, the directory stays.
* **Identity.** `main` uses `-id` if it is given, or else draws a fresh uuid at
  every start. `Delete` acts only on PVs whose annotation equals the current
  identity.
* **Environment** (not under `src/`, modelled from spec.md 1, 4.1, 5, 6):
  * lib/controller, which saves PVs, retries and deletes;
  * the snapshot controller, which writes snapshot records and artifacts;
  * users and administrators, who create and delete PVs and claims;
  * the cloud plugins.

## Modules

| Module | Contents |
|---|---|
| `SnapshotProvisioner` | The whole system. `Version` selects the revision. |
| `MCSnapshotProvisioner` | Model values and the small initial PVs and volumes for TLC. |
| `SnapshotProvisionerProofs` | TLAPS proofs of type correctness and of `OwnershipSafety`. |
| `SnapshotProvisionerVolumeProofs` | TLAPS proof of `BoundPVLive`, on top of the invariant of `SnapshotProvisionerProofs`. |
| `VolumeLifecycle` | The abstract specification of what the provisioner promises about backend volumes (spec.md 3, 4.3, 4.4). |
| `SnapshotProvisionerRefinementProofs` | TLAPS proof that `SnapshotProvisioner` implements `VolumeLifecycle`. |
| `ClaimBinding` | The abstract specification of what the provisioner and its controller promise about claims (spec.md 3, 4.3): a pending claim is bound once, to a volume no other claim holds, keeps it until released, and only then loses its PV. |
| `SnapshotProvisionerBindingProofs` | TLAPS proof that `SnapshotProvisioner` implements `ClaimBinding`. |

### State of `SnapshotProvisioner`

* `snapshots` and `snapshotData` hold the API records.
* `pvs` holds the PV objects:
  * `vol` is the backend volume;
  * `type` is the source type;
  * `owner` is the identity annotation.
* `claims` holds each claim's phase.
* `vols` holds the backend volumes:
  * `st` is one of free, live, junk (a directory left by a failed tar) or gone;
  * `by` is the creating identity;
  * `from` is the artifact;
  * `delBy` is the deleting identity.
* `arts` holds the artifacts.
* `plugins` holds the keys of `volumePlugins`.
* `self` and `up` are the process's identity and whether it is running.
* `prov` holds the Provision call in progress per claim, with a program counter
  and the values read so far. `outcome` is its last result.
* `idsUsed` and `crashes` are bookkeeping for restarts.
* `boundTo` is a history variable: the artifacts each snapshot name was ever
  bound to.

Paths and uuids are abstracted to ids. A fresh uuid is a volume or artifact id
in state "free".

### Actions

Provision is split at every point where another actor can interleave:

| Action | Code | What it models |
|---|---|---|
| `ProvGetSnapshot` | lines 93-115 / 372-394 | The selector and annotation checks and the first Get. |
| `ProvGetData` | 116-125 / 395-405 | The second Get. |
| `ProvResolve` (`ResolveTPR`, `ResolveCRD`) | 68-78 / 328-357 | The type and plugin lookup. |
| `ProvRestore` | — | The plugin restore and the rest of Provision. |

* Every early return is `Fail`: the call returns to idle and records its outcome.
* The CRD error path `RestoreErrorCRD` is the nil dereference of line 364. The
  process goes down and every call in progress is lost. Whether the panic
  really ends the process depends on lib/controller, which is not under
  `src/`: if its worker recovered panics, only the one call would end. The
  model takes the reading in which the panic reaches the process.
* `Crash` and `Restart` model the process:
  * `Restart` re-runs `main`: a new plugin map, and a new identity unless
    `IdFlagSet`.
  * `Crash` is bounded by `MaxCrashes`.
* The controller actions are:
  * `CtrlSavePV`;
  * `CtrlSaveFailed`, which calls Delete;
  * `ReleaseClaim`;
  * `CtrlDeletePV`, which calls Delete and removes the PV on nil;
  * `CrashInDelete`, the fault in between: Delete of a released PV has run
    `VolumeDelete`, and the process crashes before the controller removes the
    PV. It is enabled by `DeleteMayCrash` and counts against `MaxCrashes`.

  Delete is modelled as the pure function `DeleteResult`, and its effect on the
  volumes as `VolsAfterDelete`.
* The environment actions write snapshot records and artifacts, and
  create and delete administrator PVs (`CreateUserPV` may reuse a PV name).

## Runs

Every run uses `MCSnapshotProvisioner` with one VolumeSnapshotData name and one
claim, except binding_crd, which has two. The DataNames and VolIds pools stay
small enough for the runs to finish.
Even so, the cases the properties are about all happen:
* name reuse;
* a volume pool with both free and used volumes;
* two artifacts;
* an administrator PV and one owned by another instance.

| Run | cfg | Expect | What it shows |
|---|---|---|---|
| safety_crd | `MCSafetyCRD.cfg` | pass | See below. |
| liveness_tpr | `MCLivenessTPR.cfg` | pass | See below. |
| panic_crd | `MCPanicCRD.cfg` | violation of `RestoreFailureReported` | The data record and its artifact are deleted between GetData and Restore. The restore fails and the CRD code panics (line 361 tests `pv == nil`, which is never true). |
| leak_tpr | `MCLeakTPR.cfg` | violation of `NoOrphanedVolume` | TPR `Delete` returns nil without deleting the volume. |
| source_pv_crd | `MCSourcePVCRD.cfg` | violation of `RestoreIndependentOfSourcePV` | CRD fails the restore once the source PV is deleted. |
| lifecycle_crd | `MCLifecycleCRD.cfg` | pass | See below. |
| binding_crd | `MCBindingCRD.cfg` | pass | See below. |
| reclaim_crd | `MCReclaimCRD.cfg` | pass | See below. |
| delete_crash_crd | `MCDeleteCrashCRD.cfg` | violation of `ReleasedPVReclaimed` | A claim is restored, saved and released. Delete removes the volume and the process crashes before the PV is removed. After the restart every retried Delete calls `VolumeDelete` on a volume that is gone, fails, and the PV stays forever. The VolumeDelete of the CRD plugins is not under `src/`, and spec.md 4.1 does not say what it returns for a missing volume; the model assumes it fails (`DeleteResultCRD`), and spec.md 7 says the Reconciler must be safe to retry. |
| cross_snapshot_tpr | `MCCrossSnapshotTPR.cfg` | violation of `RestoreFromClaimedSnapshot` | The FIXME at line 112: a data name is deleted and rebound to snapshot s2 between the two Gets, and the claim for s1 is restored from s2's artifact. |

**safety_crd** uses the CRD revision with aws and hostPath. It allows one crash,
tar failures, failed PV saves, and two administrator PVs (one owned by another
instance). It checks two invariants:
* `OwnershipSafety`: every destroyed volume was destroyed by its creator;
* `BoundPVLive`: every PV that is not released names a live volume.

`TypeOK` is not a run property: `TypeCorrect` proves it for every value of the
constants.

The crash may fall between `VolumeDelete` and the PV's removal
(`DeleteMayCrash`). It reaches about 1.36 million states. Symmetry over the initially free volumes
and the artifacts is sound, because they are interchangeable uuids.

**liveness_tpr** uses the TPR revision with no `-id`, two identities, one crash
and a cloud init that may fail. It checks `ClaimProgress` under `FairSpec`:
a claim whose hostPath snapshot stays restorable is eventually provisioned.

**lifecycle_crd** checks `VolumeLifecycleSpec`, the abstract lifecycle under the
refinement mapping (`Lifecycle == INSTANCE VolumeLifecycle WITH ...`, which
keeps each volume's state, creator and destroyer). It uses no `-id` and two
identities. It has no crash and no tar failure, so that the run stays under five
minutes: crashes and new identities are covered by the proof, and junk by
safety_crd.

**binding_crd** checks `ClaimBindingSpec`, the abstract `ClaimBinding` under
the mapping `Binding == INSTANCE ClaimBinding WITH ...`. A claim's abstract
phase is its phase, with a deleted claim "released" while its PV exists and
"reclaimed" after; its volume is the volume its PV names. The run has two claims
and four volume names, two of them free, so that both claims compete for the
same free names. It uses the CRD revision with `-id`, one crash (possibly
inside Delete) and no cloud provider. Tar and save failures are left out to
keep it under five minutes; they are covered by the proof.

**reclaim_crd** checks `ReleasedPVReclaimed` under `FairSpec`: a released PV
that this provisioner owns is eventually removed. It uses the CRD revision with
`-id`, one crash (outside Delete) and failed saves. No cloud provider is set,
because a PV whose cloud plugin failed to initialise is never deletable; that is
a separate hazard. delete_crash_crd is the same question with the crash allowed
inside Delete.

Every property of the passing runs has a mutant in `PROJECT.json` that TLC
kills:
* hostPath registered only when aws is not;
* Delete without the identity comparison;
* a restore that reuses a directory;
* Delete with the identity comparison inverted.

### Fairness

`Fairness` assumes the following:
* weak fairness of each Provision step and of `CtrlSavePV` per claim;
* weak fairness of `CtrlDeletePV` per PV;
* weak fairness of `Restart`.

lib/controller re-queues a pending claim and calls Provision again until it
succeeds, and keeps calling Delete for a released PV until it returns nil.
A Provision call, once started, runs to its end unless the process
dies. The process is restarted by its supervisor (the Deployment).

Environment actions get no fairness: users may do nothing.

## Proofs (all checked by tlapm)

* `TypeCorrect`: `Spec => []TypeOK`.
* `Ownership`: `Spec => []OwnershipSafety`.
* `BoundVolumes` (in `SnapshotProvisionerVolumeProofs`): `Spec => []BoundPVLive`.

* `Refinement` (in `SnapshotProvisionerRefinementProofs`):
  `Spec => VolumeLifecycleSpec`.
* `ClaimBindingRefinement` (in `SnapshotProvisionerBindingProofs`):
  `Spec => ClaimBindingSpec`.

All five hold for every value of the constants that satisfies the module's ASSUMEs.

`OwnershipSafety` is not inductive. The proof uses
`IInv == TypeOK /\ VolumesInUse /\ AnnotationsTruthful /\ DownIdle /\ ProvWellFormed /\ OwnershipSafety`:
* **AnnotationsTruthful.** A PV annotated with one of our identities names a
  volume created by that identity, and a restored call's volume was created by
  the running identity. Delete (`DeleteOwned`: it returns nil only when the
  annotation equals `self`) therefore destroys only volumes that `self` created.
* **VolumesInUse.** Volumes named by PVs or by restored calls are never free, so
  a restore, which takes a free volume, never changes their creator.
* **DownIdle.** No call is in progress while the process is down, so a restart
  that changes `self` leaves no restored call to a stale identity.
* **ProvWellFormed.** A call past its first Get names a data record.

No run checks `IInv` itself; the proof shows it inductive, which covers every
reachable state for every value of the constants. The proof has:
* `InitIInv`;
* one step lemma per action, on top of three frame lemmas (`ProvVolStep`,
  `CtrlFrame`, `RecordsStep`);
* `NextIInv`;
* the PTL combination.

`BoundPVLive` is not inductive either: a Delete could, as far as the
invariant alone says, remove a volume another PV still names. The proof shows
`LiveInv` inductive relative to `IInv` (`NextLiveInv` assumes `IInv` and
`LiveInv` and a step, and proves `LiveInv'`). Its parts are:
* **VolumesExclusive.** A volume named by a PV that carries one of our
  identities, or by a "restored" call, is named by nothing else. Delete
  returns nil only for a PV annotated with `self`, and the failed-save cleanup
  deletes the call's own volume, so what they remove is named by no PV that
  stays and by no other call.
* **UserVolumesForeign.** An administrator's PV names a volume none of our
  identities created. So `CreateUserPV`, which takes such a volume, never
  shares a volume with a "restored" call (whose volume `self` created, by
  `AnnotationsTruthful`).
* **RestoredVolumesLive.** The volume of a "restored" call is live, so the PV
  `CtrlSavePV` writes names a live volume.
* A restore takes a free volume, which by `VolumesInUse` no PV or call names.

The refinement proof follows the usual three steps:
* The initial state maps to a lifecycle initial state (`InitRefines`).
* Under `IInv` and `DestroyedGone` (a volume with a destroyer is gone), every
  step maps to a lifecycle step or a stutter (`NextRefines`):
  * Restores map to `Create`. A restore writes only a volume id that is free
    (a fresh uuid), a failed tar leaves junk, and `DestroyedGone` shows a free
    volume has no destroyer.
  * The Deletes of `CtrlDeletePV`, `CtrlSaveFailed` and `CrashInDelete` map to
    `Destroy`. `AnnotationsTruthful` makes `self` the creator, and
    `DeleteResultCRD` destroys only a live volume.
  * Every other action leaves `vols` alone.
* `DestroyedGone` is preserved by every lifecycle step (`NextDestroyedGone`).
  It is needed because `Create` keeps the destroyer.

Likewise no run checks `LiveInv`; `NextLiveInv` proves it inductive relative
to `IInv`.

`ClaimBindingRefinement` rests on `IInv`, `LiveInv` and one more inductive
invariant, `ClaimsInv`:
* a pending claim has no PV;
* a bound claim has one;
* a Provision call is in progress only for a pending claim.

`ClaimsInv` is needed because the mapping reads the claim's PV. `NextClaims`
proves it is preserved. The hard case is the CRD panic, which idles every call
at once; it only ever makes calls idle, so the third conjunct survives.

The refinement steps are:
* `InitBinding`: every claim starts pending with no PV.
* `SaveIsBind`: `CtrlSavePV(c)` is `Bind(c, v)` for the restored volume `v`.
  `ClaimsInv` makes the claim pending. `VolumesExclusive` shows that no PV of a
  bound or released claim names `v`.
* `DeleteClaimIsRelease`: the user's deletion of a bound claim is `Release`.
  By `ClaimsInv` its PV exists, so the claim's volume is kept.
* `DeleteIsReclaim`: a successful Delete of a released claim's PV is `Reclaim`.
* Every other step keeps the claims and their PVs (`ClaimsWriters`,
  `PVsWriters`: only the controller's save and Delete and an administrator's
  creation and deletion of a PV write `pvs`; `BindingStutter`). Administrators touch only `UserPVs`, which
  are disjoint from the claims.

Only model-checked, out of the prover's reach:
* Liveness (`ClaimProgress`, `ReleasedPVReclaimed`), which needs fairness and ENABLED.
* The violations.

## Not modelled

* Client and config construction and flag parsing. They either succeed or end
  the process with `glog.Fatalf`; that outcome is covered by Crash/Restart.
* Logging, labels, capacity and access modes of the PV, which no property
  distinguishes.
* The cloud plugins' internals, which are not under `src/`.
* Failures of API writes other than the PV save.
