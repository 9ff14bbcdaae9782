CONSTANTS
    a = a
    b = b
    c = c
    sn1 = sn1
    sn2 = sn2
    s1 = s1
    s2 = s2
    lo = lo
    hi = hi
    f1 = f1
    f2 = f2
    f3 = f3
    f4 = f4
    f5 = f5
    Unknown = Unknown
    Null = Null
    Label = {a, b, c}
    Fqdn = {f1, f2, f3, f4}
    Subnet = {sn1, sn2}
    Shard = {s1}
    Pub = {FALSE}
    Tune = {lo}
    Configs <- MCPlaceConfigs
    AutoSubnets = {sn1, sn2}
    MaxFailures = 0
SPECIFICATION Spec
SYMMETRY FqdnSymmetry
INVARIANTS
    ReadBackFindsAll
