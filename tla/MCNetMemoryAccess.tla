------------------------- MODULE MCNetMemoryAccess -------------------------
(* Small instances of the command server for TLC.                          *)
EXTENDS NetMemoryAccess, TLC

MCPackets == Packets

Symmetry == Permutations(Conns) \cup Permutations(Fds)
=============================================================================
