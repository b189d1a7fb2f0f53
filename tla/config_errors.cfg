SPECIFICATION FairSpec
CONSTANTS
    Name = {"m", "a", "b", "configurator"}
    Metas <- MCMetas
    Ocaml = {}
    CompilerLibs = {}
    Configurator = {"configurator"}
    Findlib = {}
    Distrib = {}
    Sdk = "opam.ocamlsdk"
    GlobAborts = TRUE
    File = {"a", "b", "c"}
    DunePackages <- MCDunePackages
    Missing = Missing
    SdkFile <- MCSdkFile
    Archive <- MCArchive
    StartsWith <- MCStartsWith
    Installations <- MCInstallations
    MayFail = FALSE
    MaxChanges = 0
INVARIANT
    ErrorsFail
CHECK_DEADLOCK FALSE
