------------------------------- MODULE MCMCP --------------------------------
(* Two goroutines and two definitions, which are interchangeable.          *)
EXTENDS MCPProxy, TLC

Interchangeable == Permutations(Reqs) \cup Permutations(Defs)
=============================================================================
