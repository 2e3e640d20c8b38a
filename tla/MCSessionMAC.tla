---------------------------- MODULE MCSessionMAC ----------------------------
(* A small tree: w with children x and y, and h elsewhere, below /home.    *)
EXTENDS SessionMAC, TLC

CONSTANTS w, x, y, h, s1, s2, o1

MCPaths == {w, x, y, h}
MCWithin == {<<p, p>> : p \in MCPaths} \cup {<<w, x>>, <<w, y>>}
MCSessions == {s1, s2}
MCOps == {o1}
MCSessionOf == o1 :> s1
AppArmorHost ==
    [operator |-> {}, home |-> {}, discovers |-> TRUE, crashes |-> 1,
     issued |-> (s1 :> {x, y}) @@ (s2 :> {w})]
SELinuxHost ==
    [operator |-> {x}, home |-> {h}, discovers |-> FALSE, crashes |-> 2,
     issued |-> (s1 :> {x, y}) @@ (s2 :> {w, h})]
DisjointHost ==
    [operator |-> {}, home |-> {}, discovers |-> TRUE, crashes |-> 1,
     issued |-> (s1 :> {x}) @@ (s2 :> {y, h})]
MCHosts == {AppArmorHost, DisjointHost, SELinuxHost}
=============================================================================
