SPECIFICATION Spec
CONSTANTS
  p1 = p1
  p2 = p2
  s1 = s1
  s2 = s2
  Principals = {p1, p2}
  Sessions = {s1, s2}
  Expired = {s2}
  LauncherNames = {"default", "agent"}
  NoOwner = NoOwner
  Gone = Gone
  None = None
  InitialDisks <- MCInitialDisks
  Mutations <- MCMutations
  Commands = {c1, c2}
  Rotations = {r1, r2}
  FirstToken = t0
  MaxFaults = 2
INVARIANTS
  MigrationsPreserve
  ServesProvenState
  SnapshotsNeverInvented
  AdminTokenCustody
  ConfigReportsTruthful
PROPERTY RefusedOnlyForCause
SYMMETRY MCSymmetry
