SPECIFICATION Spec
CONSTANTS
    Name = {"m", "lib", "a", "b", "x", "str", "ffi", "bigarray", "runtime_events",
            "dynlink", "threads", "posix", "compiler-libs", "toplevel"}
    CompilerLibs = {"compiler-libs"}
    Sdk = "opam.ocamlsdk"
    DependentMetas <- MCDependentMetas
    BuiltIn = {"str", "threads", "compiler-libs", "unix", "dynlink", "ocamldoc"}
    SdkModule = "ocamlsdk"
    Fixme = "FIXME"
    Metas <- MCMetas
    Ocaml = {}
    Configurator = {}
    Findlib = {}
    DistribNames = {"str"}
    GlobAborts = TRUE
    File <- MCFile
    Archive <- MCArchive
    StartsWith <- MCStartsWith
    Installations <- MCInstallations
    MayFail = TRUE
    MaxChanges = 2
INVARIANT
    LabelsResolve
CHECK_DEADLOCK FALSE
