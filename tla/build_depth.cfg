SPECIFICATION Spec
CONSTANTS
    Name = {"m", "a", "b", "c", "lib", "str", "cstubs", "findlib",
            "compiler-libs", "configurator", "dune", "ocamlm"}
    Metas <- MCOneDeep
    Ocaml = {"ocamlm"}
    CompilerLibs = {"compiler-libs"}
    Configurator = {"configurator"}
    Findlib = {"findlib"}
    Distrib = {"str"}
    Sdk = "opam.ocamlsdk"
    GlobAborts = TRUE
INVARIANTS
    MappingSchemeAnyDepth
CHECK_DEADLOCK FALSE
