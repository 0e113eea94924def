----------------------- MODULE MCSnapshotProvisioner -----------------------
(* Small instances of SnapshotProvisioner for TLC.                         *)
EXTENDS SnapshotProvisioner, TLC

CONSTANTS me1, me2, other, none, c1, c2, s1, s2, d1, d2, u1, u2, v1, v2, v3, v4, v5, a1, a2

(* Every claim names snapshot s1.                                           *)
MCClaimSnapshot == [c \in Claims |-> s1]

(* u1: an administrator's hostPath PV; u2: an aws PV of another instance.  *)
MCInitPV ==
    [p \in UserPVs |->
        IF p = u1 THEN [ex |-> TRUE, vol |-> v1, type |-> "hostPath", owner |-> none]
                  ELSE [ex |-> TRUE, vol |-> v2, type |-> "aws", owner |-> other]]

MCFreeVol == [st |-> "free", type |-> none, by |-> none, from |-> none, delBy |-> none]

MCInitVol ==
    (v1 :> [MCFreeVol EXCEPT !.st = "live", !.type = "hostPath"])
    @@ (v2 :> [MCFreeVol EXCEPT !.st = "live", !.type = "aws", !.by = other])
    @@ [v \in VolIds \ {v1, v2} |-> MCFreeVol]

(* Artifacts and the volumes free at start are interchangeable uuids.      *)
MCSymmetry == Permutations({a1, a2}) \cup Permutations({v3, v4})
=============================================================================
