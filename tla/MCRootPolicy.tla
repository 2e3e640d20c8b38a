---------------------------- MODULE MCRootPolicy ----------------------------
(* The tree r with children a and b, and c below a; the home directory is  *)
(* a.  The global policies: everything, and the disjoint trees b and c     *)
(* alone, c read-only.  In byte order the subtree of a is contiguous       *)
(* (r, a, c, b) unless the name of b sorts in between:                     *)
(* /r/a < /r/a-b < /r/a/c.                                                 *)
EXTENDS RootPolicy, TLC

CONSTANTS r, a, b, c

MCPaths == {r, a, b, c}
MCWithin == {<<p, p>> : p \in MCPaths}
                \cup {<<r, a>>, <<r, b>>, <<r, c>>, <<a, c>>}
MCRank == r :> 0 @@ a :> 1 @@ c :> 2 @@ b :> 3
SiblingRank == r :> 0 @@ a :> 1 @@ b :> 2 @@ c :> 3
MCGlobals == {r :> "read_write", b :> "read_write" @@ c :> "read_only"}
=============================================================================
