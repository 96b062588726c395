----------------------------- MODULE MCTcpPcbs -----------------------------
(* Instances of TcpPcbs for TLC.                                           *)
EXTENDS TcpPcbs, TLC

CONSTANTS p1, p2, p3, l1, l2, a, b

Symmetry == Permutations(Pcbs) \cup Permutations(LPcbs) \cup Permutations(Peers)
=============================================================================
