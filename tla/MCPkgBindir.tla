---------------------------- MODULE MCPkgBindir ----------------------------
(* Dune-packages with two and three executables, and none; "none" in a section  *)
(* is also a file half written.                                            *)
EXTENDS PkgBindir

MCThree == {[s \in Section |-> IF s = "bin" THEN <<"a", "b", "c">> ELSE <<>>]}
             \cup {[s \in Section |-> <<>>], [s \in Section |-> <<"a", "b">>]}
=============================================================================
