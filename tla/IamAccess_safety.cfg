CONSTANTS
    b1 = b1
    b2 = b2
    f1 = f1
    m1 = m1
    p1 = p1
    s1 = s1
    viewer = viewer
    editor = editor
    cloudMember = cloudMember
    u1 = u1
    u2 = u2
    RolesOf <- MCRolesOf
    RoleOf <- MCRoleOf
    PrincipalOf <- MCPrincipalOf
    Foreign <- MCForeign
    PolicyGrants <- MCPolicyGrants
    NoRes = NoRes
    NoReq = NoReq
    NoRole = NoRole
    NoChange = NoChange
    Principal = {u1, u2}
    IamBinding = {b1, b2, f1}
    Framework = {f1}
    IamMember = {m1}
    IamPolicy = {p1}
    ServiceAccount = {s1}
    Together = {{b1, b2}, {f1}, {b1, m1}, {b1, s1}, {m1, p1}}
    Role = {viewer, editor, cloudMember}
    Timeouts = FALSE
SPECIFICATION Spec
INVARIANTS TypeOK OneSetAtATime
PROPERTIES ImplementsAccessPolicy SuccessMeansApplied
