SPECIFICATION BindirSpec
CONSTANTS
    File = {"a", "b", "c"}
    DunePackages <- MCThree
    Missing = Missing
    MayFail = FALSE
    MaxChanges = 0
INVARIANT
    AllValuesRead
CHECK_DEADLOCK FALSE
