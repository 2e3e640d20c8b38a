------------------------- MODULE MCDaemonLifecycle -------------------------
(* The databases the released formats left on disk, one with a mixed        *)
(* schema and one with damaged snapshots among them, and the changes the    *)
(* config commands ask for.                                                 *)
EXTENDS DaemonLifecycle, TLC

CONSTANTS p1, p2, s1, s2

Rows(a, b) == [s \in Sessions |-> IF s = s1 THEN a ELSE b]
Named(p) == <<p, "agent">>

\* A stored root, path-only or with an access, and both roots for one owner.
Bare(o, path) == [owner |-> o, path |-> path, access |-> "none"]
With(o, path, access) == [Bare(o, path) EXCEPT !.access = access]
Both(o) == {Bare(o, "inner"), Bare(o, "outer")}

LegacyDoc == [schema |-> "legacy", inner |-> "read_write", outer |-> "absent",
              ca |-> "unset", http |-> "unset"]
RichDoc == [schema |-> "rich", inner |-> "read_write", outer |-> "read_write",
            ca |-> "auto", http |-> "unset"]

OldDatabases ==
    {Release1(Rows(NoOwner, Gone)),
     Release20(Rows(p1, NoOwner), Principals, Both(p1) \cup {Bare(p2, "outer")}),
     Release20(Rows(p1, p2), {p1}, {Bare(p1, "inner")})}

\* p1 keeps its launchers' "inner" when "outer" goes, p2 does not.
NewDatabases ==
    {Release21(Rows(Named(p2), DefaultLauncher(p1)), Principals, {p1},
               Both(p1) \cup {Bare(p2, "outer")},
               {Bare(Named(p1), "inner"), Bare(Named(p2), "inner")}),
     Release22(Rows(Named(p1), DefaultLauncher(p1)), Principals,
               {With(p1, "inner", "read_only"), With(p1, "outer", "read_write"),
                With(p2, "outer", "read_only")},
               {With(Named(p1), "inner", "read_write"), With(Named(p1), "outer", "read_only"),
                With(Named(p2), "inner", "read_only")}),
     [Release21(Rows(Named(p2), Gone), Principals, {p1},
                {Bare(p2, "inner")}, {Bare(Named(p2), "inner")})
        EXCEPT !.columns["sessions"] = {"principal_id", "launcher_id"}],
     [Release22(Rows(Named(p1), Gone), {p1}, {}, {}) EXCEPT !.malformed = {"snapshots"}]}

MCInitialDisks == [db : OldDatabases, doc : {LegacyDoc}] \cup [db : NewDatabases, doc : {RichDoc}]

MCMutations == {[op |-> "remove", field |-> "outer", value |-> "absent"],
                [op |-> "add", field |-> "outer", value |-> "read_only"],
                [op |-> "set-access", field |-> "outer", value |-> "read_only"],
                [op |-> "set", field |-> "ca", value |-> "unreadable"],
                [op |-> "unset", field |-> "ca", value |-> "unset"],
                [op |-> "set", field |-> "http", value |-> "moved"]}

MCSymmetry == Permutations(Commands) \cup Permutations(Rotations)
=============================================================================
