CONSTANTS
    a = a
    b = b
    c = c
    sn1 = sn1
    sn2 = sn2
    s1 = s1
    s2 = s2
    lo = lo
    hi = hi
    f1 = f1
    f2 = f2
    f3 = f3
    f4 = f4
    f5 = f5
    Unknown = Unknown
    Null = Null
    Label = {a, b, c}
    Fqdn = {f1, f2, f3, f4}
    Subnet = {sn1}
    Shard = {s1}
    Pub = {FALSE, TRUE}
    Tune = {lo, hi}
    Configs <- MCTuneConfigs
    AutoSubnets = {sn1}
    MaxFailures = 2
SPECIFICATION Spec
SYMMETRY FqdnSymmetry
PROPERTIES
    SuccessRealises
