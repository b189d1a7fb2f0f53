SPECIFICATION FairSpec
CONSTANTS
    Name = {"m", "a", "b", "configurator"}
    Metas <- MCMetas
    Ocaml = {}
    CompilerLibs = {}
    Configurator = {"configurator"}
    Findlib = {}
    Distrib = {}
    Sdk = "opam.ocamlsdk"
    GlobAborts = TRUE
    File = {"a", "b", "c"}
    DunePackages <- MCDunePackages
    Missing = Missing
    SdkFile <- MCSdkFile
    Archive <- MCArchive
    StartsWith <- MCStartsWith
    Installations <- MCInstallations
    MayFail = TRUE
    MaxChanges = 1
INVARIANTS
    WholeRepository
    OneVersionLinked
    ToolchainAccepted
    LinkedAsExported
    OneVersion
PROPERTY
    RuleEnds
CHECK_DEADLOCK FALSE
