SPECIFICATION FairSpec
CONSTANTS
    File <- MCFile
    Archive <- MCArchive
    StartsWith <- MCStartsWith
    Installations <- MCInstallations
    MayFail = TRUE
    MaxChanges = 2
INVARIANTS
    LinksExist
    Executables
    ArchivesLinked
    DependentsResolve
    ToolchainResolves
PROPERTIES
    LinksKept
    Ends
CHECK_DEADLOCK FALSE
