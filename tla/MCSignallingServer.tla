-------------------------- MODULE MCSignallingServer --------------------------
(* Instances of SignallingServer for TLC.  The ids are interchangeable, and *)
(* so are the connections, in every run that checks safety only.            *)
EXTENDS SignallingServer

Symmetry == Permutations(Ids) \cup Permutations(Conns)
=============================================================================
