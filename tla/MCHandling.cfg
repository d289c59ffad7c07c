SPECIFICATION MCSpec
CONSTANTS
    r1 = r1
    r2 = r2
    Routers = {r1, r2}
    PrefixChoices <- MCPrefixes
    Literals = {"x", "", "{}"}
    Declarations <- MCDeclarations
    Mounts <- MCMounts
    Outers <- MCOuters
    MaxChildren = 2
    MaxRoutes = 1
    MaxOwn = 1
    MaxIncludes = 2
    a = a
    b = b
    Absent = Absent
    pool = pool
    tx = tx
    audit = audit
    loop = loop
    Scopes = {"read", "write"}
    Roles = {"admin"}
    p1 = p1
    tester = tester
    s1 = s1
    s2 = s2
    s3 = s3
INVARIANTS RegistrationSafety GateSafety SignatureSafety PipelineSafety WireSafety
CHECK_DEADLOCK FALSE
