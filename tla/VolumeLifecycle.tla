--------------------------- MODULE VolumeLifecycle ---------------------------
(***************************************************************************)
(* What the snapshot provisioner promises about the backend volumes        *)
(* (spec.md sections 3, 4.3 and 4.4), with PVs, claims, snapshots and the  *)
(* process left out.  A volume name is fresh until one identity of the     *)
(* provisioner creates a volume there by a restore: a live volume, or the  *)
(* junk a failed restore leaves.  A volume is destroyed only when it is    *)
(* live, only if the provisioner created it, and then by the identity that *)
(* created it.  Nothing else ever happens to a volume.                     *)
(***************************************************************************)
CONSTANTS
    VolIds,     \* backend volume names
    Creators,   \* identities the provisioner process may have
    None        \* no identity

VARIABLES
    vst,        \* state of each volume: "free", "live", "junk" or "gone"
    vby,        \* identity that created it, or an identity outside Creators
    vdel        \* identity that destroyed it, or None

lvars == <<vst, vby, vdel>>

(* At start the volumes are either unused names or volumes the            *)
(* provisioner did not create, none of them destroyed.                     *)
Init ==
    /\ vst \in [VolIds -> {"free", "live"}]
    /\ \A v \in VolIds : vby[v] \notin Creators
    /\ vdel = [v \in VolIds |-> None]

(* Identity i restores into the unused name v, successfully or not.       *)
Create(v, i) ==
    /\ vst[v] = "free"
    /\ \E s \in {"live", "junk"} : vst' = [vst EXCEPT ![v] = s]
    /\ vby' = [vby EXCEPT ![v] = i]
    /\ UNCHANGED vdel

(* The identity that created the live volume v destroys it.               *)
Destroy(v) ==
    /\ vst[v] = "live" /\ vby[v] \in Creators
    /\ vst' = [vst EXCEPT ![v] = "gone"]
    /\ vdel' = [vdel EXCEPT ![v] = vby[v]]
    /\ UNCHANGED vby

Next == \E v \in VolIds : Destroy(v) \/ \E i \in Creators : Create(v, i)

Spec == Init /\ [][Next]_lvars
=============================================================================
