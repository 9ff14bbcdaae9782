CONSTANTS
    b1 = b1
    b2 = b2
    f1 = f1
    m1 = m1
    p1 = p1
    s1 = s1
    viewer = viewer
    editor = editor
    cloudMember = cloudMember
    u1 = u1
    u2 = u2
    RolesOf <- MCRolesOf
    RoleOf <- MCRoleOf
    PrincipalOf <- MCPrincipalOf
    Foreign <- MCForeign
    PolicyGrants <- MCPolicyGrants
    NoRes = NoRes
    NoReq = NoReq
    NoRole = NoRole
    NoChange = NoChange
    Principal = {u1, u2}
    IamBinding = {b1, b2}
    Framework = {}
    IamMember = {}
    IamPolicy = {}
    ServiceAccount = {}
    Together = {{b1, b2}}
    Role = {viewer, editor}
    Timeouts = TRUE
SPECIFICATION Spec
PROPERTIES
    OtherRolesPreserved
