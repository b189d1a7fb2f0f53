SPECIFICATION Spec
CONSTANTS
    r1 = r1
    r2 = r2
    v1 = v1
    a = a
    b = b
    None = None
    Run = {r1, r2}
    Version = {v1}
    Pkg = {a, b}
    WantVersion <- MCWantVersion
    WantPkgs <- MCWantPkgs
    Verbose = {r2}
    SysVersion = v1
    OpamVarStrict = {TRUE, FALSE}
    MaxKills = 1
    MaxFaults = 1
INVARIANTS
    NoOrphans
    DoneHasPackages
PROPERTIES
    NoUpdateWhenProvisioned
    RetryConverges
    Provisions
