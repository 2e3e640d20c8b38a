------------------------ MODULE MCOwnershipLifecycle ------------------------
(***************************************************************************)
(* One principal with two launchers (the second may be created later), a   *)
(* session and a request below each.                                       *)
(***************************************************************************)
EXTENDS OwnershipLifecycle

CONSTANTS p1, l1, l2, s1, s2, r1, r2

MCPrincipalOf == [l \in Launchers |-> p1]
MCOwnerOf == [s \in Sessions |-> IF s = s1 THEN l1 ELSE l2]
MCSessionOf == [r \in Requests |-> IF r = r1 THEN s1 ELSE s2]
=============================================================================
