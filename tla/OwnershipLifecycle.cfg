SPECIFICATION Spec
CONSTANTS
    p1 = p1
    l1 = l1
    l2 = l2
    s1 = s1
    s2 = s2
    r1 = r1
    r2 = r2
    Principals = {p1}
    Launchers = {l1, l2}
    Sessions = {s1, s2}
    Requests = {r1, r2}
    InitialLaunchers = {l1}
    PrincipalOf <- MCPrincipalOf
    OwnerOf <- MCOwnerOf
    SessionOf <- MCSessionOf
INVARIANTS OwnerNeverLost SessionsBelowEnabledOwners AdmissionMirrorsAuthorities
PROPERTIES NoAdmissionWhileDisabled DeleteOnlyQuiescent
CHECK_DEADLOCK FALSE
