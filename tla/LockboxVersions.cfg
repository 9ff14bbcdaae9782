CONSTANTS
    v1 = v1
    v2 = v2
    k1 = k1
    k2 = k2
    e3 = e3
    sa = sa
    sb = sb
    e1 = e1
    e2 = e2
    w = w
    Version = {v1, v2}
    Key = {k1, k2}
    Secret = {sa, sb}
    EntryKey = {e1, e2, e3}
    Text = {w}
    SecretOf <- MCSecretOf
    EntriesOf <- MCEntriesOf
    Given <- MCGiven
    Output <- MCOutput
    Together = {{v1, v2}, {v1, k1}, {k2}}
    MaxVersions = 3
    None = None
SPECIFICATION Spec
INVARIANTS TypeOK ValueSurvives NoVersionLeft
PROPERTIES VersionAsConfigured OutputHolds
