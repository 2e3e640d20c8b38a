SPECIFICATION Spec
CONSTANTS
  r1 = r1  r2 = r2  p1 = p1  p2 = p2  l1 = l1  l2 = l2
  c1 = c1  c2 = c2  k1 = k1  s1 = s1  None = None
  Requests = {r1, r2}
  Principals = {p1, p2}
  Launchers = {l1, l2}
  Credentials = {c1, c2, k1}
  Sessions = {s1}
  UserOf <- MCUserOf
  OwnerOf <- MCOwnerOf
  HolderOf <- MCHolderOf
  InitialRows <- MCInitialRows
  MaxTokens = 3
SYMMETRY MCSymmetry
PROPERTIES OwnScopeOnly OneWinnerPerBearer SessionFromLiveAuthority BearerKept
