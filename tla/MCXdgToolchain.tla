-------------------------- MODULE MCXdgToolchain --------------------------
(* Two projects share the directory.  The first names its OCaml version    *)
(* and wants two packages, the second takes the system's version, which is *)
(* the same switch, and wants one of them; it is the verbose one.          *)
EXTENDS XdgToolchain

CONSTANTS r1, r2, v1, a, b

MCWantVersion == [r \in Run |-> IF r = r1 THEN v1 ELSE None]
MCWantPkgs    == [r \in Run |-> IF r = r1 THEN <<a, b>> ELSE <<b>>]
=============================================================================
