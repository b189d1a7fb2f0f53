SPECIFICATION Spec
CONSTANTS
    Name = {"m", "a", "b", "c", "uchar", "str", "stringext", "bigarray",
            "threads", "posix", "compiler-libs", "common", "unix"}
    Metas <- MCMetas
    BuiltIn = {"str", "stringext", "threads", "compiler-libs", "unix",
               "dynlink", "ocamldoc"}
    CompilerLibs = {"compiler-libs"}
    Sdk = "opam.ocamlsdk"
    SdkModule = "ocamlsdk"
    Fixme = "FIXME"
INVARIANTS
    ArchivesParse
    LabelsDeclared
    NothingLost
    LabelsDistinct
CHECK_DEADLOCK FALSE
