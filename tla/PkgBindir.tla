----------------------------- MODULE PkgBindir -----------------------------
(***************************************************************************)
(* emit_pkg_bindir of lib/emit_pkg_bindir.c with the reader it uses,       *)
(* lib/dune-package.c: the executables and the stub libraries that the     *)
(* file dune-package of a package lists are symlinked into the             *)
(* directories bin and stublibs of its repository, each with a BUILD file  *)
(* that exports them.                                                      *)
(*                                                                         *)
(* The switch is shared: while this runs, opam may remove the package for  *)
(* another project, or write its files anew.  A dune-package that is still *)
(* being written has no complete "files" expression, and reads like one    *)
(* without executables and stub libraries.                                 *)
(*                                                                         *)
(* What ends the process from outside is in ConfigTool.  Symbolic links    *)
(* point to the place of a file in the switch, the same for every version. *)
(***************************************************************************)
EXTENDS Naturals, Sequences, SequencesExt

CONSTANTS
    File,          (* names of executables and stub libraries              *)
    DunePackages,  (* what a dune-package may list                         *)
    Missing,       (* there is no such file                                *)
    MayFail,       (* fopen and symlink may fail                           *)
    MaxChanges     (* bound on the changes of the file by others           *)

Section == {"bin", "stublibs"}

ASSUME BindirAssumptions ==
    /\ DunePackages \subseteq [Section -> Seq(File)]
    /\ Missing \notin DunePackages
    /\ MayFail \in BOOLEAN
    /\ MaxChanges \in Nat

VARIABLES
    dune,      (* the package's file dune-package in the switch            *)
    changes,   (* how often it has changed                                 *)
    seen,      (* what it has been since emit_pkg_bindir began             *)
    bindir_pc, (* "access", "open", "field", "links", "done" or "exit1"    *)
    inbuf,     (* what dune_package_open has read of it                    *)
    section,   (* the field that is worked on                              *)
    left,      (* its values that are still to be linked                   *)
    out        (* the directory of each section: its BUILD file and links  *)

pkg_bindir_vars == <<dune, changes, seen, bindir_pc, inbuf, section, left, out>>

Absent == [file |-> "none", exports |-> <<>>, links |-> {}]

BindirInit ==
    /\ dune \in DunePackages \cup {Missing}
    /\ changes = 0 /\ seen = {dune}
    /\ bindir_pc = "access"
    /\ inbuf = Missing /\ section = "bin" /\ left = <<>>
    /\ out = [s \in Section |-> Absent]

-----------------------------------------------------------------------------
(* The reader.                                                             *)

(* The loop of dune_package_files_fld starts at the list of the values and *)
(* pushes its head; it goes on at the second value, which is not a list,   *)
(* pushes it too, and stops there.                                         *)
dune_package_files_fld(values) ==
    SubSeq(values, 1, IF Len(values) < 2 THEN Len(values) ELSE 2)

(* The result of open is not looked at.                                    *)
Open_any ==
    /\ bindir_pc = "open"
    /\ inbuf' = dune
    /\ bindir_pc' = "field"
    /\ UNCHANGED <<dune, changes, seen, section, left, out>>

(* dune_package_open; the descriptor is closed before anything fails.      *)
Open ==
    /\ bindir_pc = "open" /\ dune # Missing
    /\ inbuf' = dune
    /\ bindir_pc' = "field"
    /\ UNCHANGED <<dune, changes, seen, section, left, out>>

(* The file was there when emit_pkg_bindir looked: exit(1).                *)
OpenFails ==
    /\ bindir_pc = "open" /\ dune = Missing
    /\ bindir_pc' = "exit1"
    /\ UNCHANGED <<dune, changes, seen, inbuf, section, left, out>>

-----------------------------------------------------------------------------
(* emit_pkg_bindir.                                                        *)

Access ==
    /\ bindir_pc = "access"
    /\ bindir_pc' = IF dune = Missing THEN "done" ELSE "open"
    /\ UNCHANGED <<dune, changes, seen, inbuf, section, left, out>>

Values == dune_package_files_fld(inbuf[section])

(* From bin to stublibs, from stublibs to the end.                         *)
NextSection ==
    IF section = "bin"
    THEN section' = "stublibs" /\ bindir_pc' = "field"
    ELSE UNCHANGED section /\ bindir_pc' = "done"

NoValues ==
    /\ bindir_pc = "field" /\ Values = <<>>
    /\ NextSection
    /\ UNCHANGED <<dune, changes, seen, inbuf, left, out>>

(* The dune-package is read anew for each field.                           *)
OpenSection_reread ==
    LET values == dune_package_files_fld(
                      IF dune = Missing THEN <<>> ELSE dune[section])
    IN  /\ bindir_pc = "field" /\ Values # <<>>
        /\ left' = values
        /\ out' = [out EXCEPT ![section].file = "open"]
        /\ bindir_pc' = "links"
        /\ UNCHANGED <<dune, changes, seen, inbuf, section>>

(* mkdir_r and fopen of the BUILD file.                                    *)
OpenSection ==
    /\ bindir_pc = "field" /\ Values # <<>>
    /\ left' = Values
    /\ out' = [out EXCEPT ![section].file = "open"]
    /\ bindir_pc' = "links"
    /\ UNCHANGED <<dune, changes, seen, inbuf, section>>

OpenSectionFails ==
    /\ MayFail
    /\ bindir_pc = "field" /\ Values # <<>>
    /\ bindir_pc' = "exit1"
    /\ UNCHANGED <<dune, changes, seen, inbuf, section, left, out>>

(* A link goes to the directory of the executables, whatever the section.  *)
Link_bin ==
    /\ bindir_pc = "links" /\ left # <<>>
    /\ out' = [out EXCEPT ![section].exports = Append(@, Head(left)),
                          !["bin"].links = @ \cup {Head(left)}]
    /\ left' = Tail(left)
    /\ UNCHANGED <<dune, changes, seen, bindir_pc, inbuf, section>>

(* One round: the name is printed and linked; a link that is there is left *)
(* as it is.                                                               *)
Link ==
    /\ bindir_pc = "links" /\ left # <<>>
    /\ out' = [out EXCEPT ![section].exports = Append(@, Head(left)),
                          ![section].links = @ \cup {Head(left)}]
    /\ left' = Tail(left)
    /\ UNCHANGED <<dune, changes, seen, bindir_pc, inbuf, section>>

(* exit(1): what has been printed is in the file, which ends in a comma.   *)
LinkFails ==
    /\ MayFail
    /\ bindir_pc = "links" /\ left # <<>>
    /\ Head(left) \notin out[section].links
    /\ out' = [out EXCEPT ![section].exports = Append(@, Head(left))]
    /\ bindir_pc' = "exit1"
    /\ UNCHANGED <<dune, changes, seen, inbuf, section, left>>

CloseSection ==
    /\ bindir_pc = "links" /\ left = <<>>
    /\ out' = [out EXCEPT ![section].file = "closed"]
    /\ NextSection
    /\ UNCHANGED <<dune, changes, seen, inbuf, left>>

emit_pkg_bindir ==
    \/ Access \/ Open \/ OpenFails
    \/ NoValues \/ OpenSection \/ OpenSectionFails
    \/ Link \/ LinkFails \/ CloseSection

(* opam removes, writes or replaces the file for another project.          *)
OpamChanges ==
    /\ changes < MaxChanges
    /\ dune' \in (DunePackages \cup {Missing}) \ {dune}
    /\ changes' = changes + 1
    /\ seen' = seen \cup {dune'}
    /\ UNCHANGED <<bindir_pc, inbuf, section, left, out>>

BindirNext == emit_pkg_bindir \/ OpamChanges

BindirSpec == BindirInit /\ [][BindirNext]_pkg_bindir_vars

-----------------------------------------------------------------------------
(* Properties.                                                             *)

Directory == [file : {"none", "open", "closed"}, exports : Seq(File),
              links : SUBSET File]

BindirTypeOK ==
    /\ dune \in DunePackages \cup {Missing}
    /\ changes \in 0..MaxChanges
    /\ seen \subseteq DunePackages \cup {Missing}
    /\ bindir_pc \in {"access", "open", "field", "links", "done", "exit1"}
    /\ inbuf \in DunePackages \cup {Missing}
    /\ bindir_pc \in {"field", "links"} => inbuf # Missing
    /\ section \in Section
    /\ left \in Seq(File)
    /\ out \in [Section -> Directory]

(* At every moment before a failure, in both directories, the files that a *)
(* BUILD file exports are those that are linked next to it.                *)
LinkedAsExported ==
    bindir_pc # "exit1" =>
        \A s \in Section : out[s].links = ToSet(out[s].exports)

(* What a finished run exports are executables and stub libraries of one   *)
(* and the same version of the package, one that was installed at some     *)
(* moment of the run, however often opam changed it meanwhile; a directory *)
(* is made, and its BUILD file complete, exactly if it has something in it.*)
OneVersion ==
    bindir_pc = "done" =>
        \E d \in seen :
            IF d = Missing
            THEN out = [s \in Section |-> Absent]
            ELSE \A s \in Section :
                    /\ out[s].exports = dune_package_files_fld(d[s])
                    /\ out[s].file = IF d[s] = <<>> THEN "none" ELSE "closed"

(* emit_pkg_bindir.c: "write bin/BUILD.bazel with a rule for each".        *)
AllValuesRead ==
    bindir_pc = "done" /\ inbuf # Missing =>
        \A s \in Section : out[s].exports = inbuf[s]
=============================================================================
