---------------------------- MODULE Provisioning ----------------------------
(***************************************************************************)
(* What a toolchain function of extensions/opam promises of the switches,  *)
(* whichever function it is, however many evaluations run it, fail or are  *)
(* killed: a switch is made once and then keeps its version, packages are  *)
(* only ever added, and only to a switch that is complete.  How far a      *)
(* switch is made, and which directories are there, is not seen here.      *)
(*                                                                         *)
(* XdgToolchain implements it with evaluations that race, OpamExt with     *)
(* those of all four toolchains one after the other.                       *)
(***************************************************************************)
CONSTANTS
    Switch,     (* the names of switches                                   *)
    Version,    (* OCaml versions                                          *)
    Pkg,        (* opam packages                                           *)
    None        (* the version of a switch that is not complete            *)

VARIABLES
    version,    (* version[s]: the version of switch s                     *)
    have        (* have[s]: the packages installed in it                   *)

vars == <<version, have>>

TypeOK ==
    /\ version \in [Switch -> Version \cup {None}]
    /\ have \in [Switch -> SUBSET Pkg]

(* The user may have made switches before.                                 *)
Init ==
    /\ TypeOK
    /\ \A s \in Switch : version[s] = None => have[s] = {}

(* opam switch create, which may install packages right away.              *)
Create(s) ==
    /\ version[s] = None
    /\ \E v \in Version : version' = [version EXCEPT ![s] = v]
    /\ \E some \in SUBSET Pkg : have' = [have EXCEPT ![s] = some]

(* opam install: a package and what it requires, or, when it fails, part   *)
(* of that.                                                                *)
Install(s) ==
    /\ version[s] # None
    /\ \E more \in SUBSET Pkg : have' = [have EXCEPT ![s] = @ \cup more]
    /\ UNCHANGED version

Next == \E s \in Switch : Create(s) \/ Install(s)

Spec == Init /\ [][Next]_vars
=============================================================================
