----------------------------- MODULE ClaimBinding -----------------------------
(***************************************************************************)
(* What the provisioner and its controller promise about the claims that   *)
(* name a snapshot (spec.md sections 3 and 4.3), with snapshots, records,  *)
(* identities and the process left out.  A pending claim is bound at most  *)
(* once, to a volume no other claim holds; it keeps that volume until the  *)
(* user releases it; only then may its PV be reclaimed, and a reclaimed    *)
(* claim is done.                                                          *)
(***************************************************************************)
CONSTANTS
    Claims,     \* the claims
    VolIds,     \* backend volume names
    None        \* no volume

VARIABLES
    cst,        \* "pending", "bound", "released" or "reclaimed"
    cvol        \* the volume the claim holds, or None

cvars == <<cst, cvol>>

(* The volumes held by a bound or released claim.                         *)
Held == {cvol[d] : d \in {e \in Claims : cst[e] \in {"bound", "released"}}}

Init ==
    /\ cst = [c \in Claims |-> "pending"]
    /\ cvol = [c \in Claims |-> None]

(* The pending claim c is bound to the volume v, which no claim holds.    *)
Bind(c, v) ==
    /\ cst[c] = "pending" /\ v \notin Held
    /\ cst' = [cst EXCEPT ![c] = "bound"]
    /\ cvol' = [cvol EXCEPT ![c] = v]

(* The user deletes the bound claim c; it keeps its volume.               *)
Release(c) ==
    /\ cst[c] = "bound"
    /\ cst' = [cst EXCEPT ![c] = "released"]
    /\ UNCHANGED cvol

(* The PV of the released claim c is removed.                             *)
Reclaim(c) ==
    /\ cst[c] = "released"
    /\ cst' = [cst EXCEPT ![c] = "reclaimed"]
    /\ cvol' = [cvol EXCEPT ![c] = None]

Next == \E c \in Claims : Release(c) \/ Reclaim(c) \/ \E v \in VolIds : Bind(c, v)

Spec == Init /\ [][Next]_cvars
=============================================================================
