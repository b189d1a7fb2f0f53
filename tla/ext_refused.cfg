SPECIFICATION Spec
CONSTANTS
    v1 = v1
    v2 = v2
    None = None
    Version = {v1, v2}
    Pkg <- MCPkg
    OBAZL_PKGS = {"unix", "str"}
    NoDir = {"f"}
    Requires <- MCRequires
    Default = v2
    SysVersion = v1
    Had <- MCHad
    Project <- Refused
    MaxEvals = 1
INVARIANTS
    RefusedOnlyMistaken
CHECK_DEADLOCK FALSE
