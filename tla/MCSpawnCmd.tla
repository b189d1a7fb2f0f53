----------------------------- MODULE MCSpawnCmd -----------------------------
(* Pipes of two lines, commands that write up to three to each stream, and *)
(* a descriptor limit that one leaking call brings into reach.             *)
EXTENDS SpawnCmd

MCPipeCap  == 2
MCMaxLines == 3
MCFdRoom   == 5
MCMaxCalls == 2
=============================================================================
