SPECIFICATION Spec
CONSTANTS
    v1 = v1
    v2 = v2
    None = None
    Version = {v1, v2}
    Pkg <- MCPkg
    OBAZL_PKGS = {"unix", "str"}
    NoDir = {"f"}
    Requires <- MCRequires
    Default = v2
    SysVersion = v1
    Had <- MCHad
    Project <- MCProject
    MaxEvals = 2
INVARIANTS
    RegistersInstalled
    VersionOfSwitch
    AcceptedUnlessMistaken
PROPERTIES
    GuardedUntouched
    NoUpdateWhenConfigured
    Provisions
CHECK_DEADLOCK FALSE
