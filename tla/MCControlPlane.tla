-------------------------- MODULE MCControlPlane --------------------------
(* Two incarnations p1 and p2 of one username; l2 is p2's default launcher *)
(* and l1 a launcher of p1, whose default launcher was deleted.            *)
EXTENDS ControlPlane, TLC

CONSTANTS r1, r2, p1, p2, l1, l2, c1, c2, k1, s1

MCUserOf == (p1 :> "alice") @@ (p2 :> "alice")
MCOwnerOf == (l1 :> p1) @@ (l2 :> p2)
MCHolderOf == (c1 :> p1) @@ (c2 :> p2) @@ (k1 :> l1)
MCInitialRows == {p1, c1}
MCSymmetry == Permutations(Requests)
=============================================================================
