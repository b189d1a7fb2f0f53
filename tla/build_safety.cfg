SPECIFICATION Spec
CONSTANTS
    Name = {"m", "a", "b", "c", "lib", "str", "cstubs", "findlib",
            "compiler-libs", "configurator", "dune", "ocamlm"}
    Metas <- MCMetas
    Ocaml = {"ocamlm"}
    CompilerLibs = {"compiler-libs"}
    Configurator = {"configurator"}
    Findlib = {"findlib"}
    Distrib = {"str"}
    Sdk = "opam.ocamlsdk"
    GlobAborts = TRUE
INVARIANTS
    SharedStateOK
    WrittenInPlace
    MappingScheme
    TargetsDistinct
    StubsDeclared
    LinksFromPackageDir
CHECK_DEADLOCK FALSE
