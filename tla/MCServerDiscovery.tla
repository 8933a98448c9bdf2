-------------------------- MODULE MCServerDiscovery --------------------------
(* ServerDiscovery for TLC: model values, and the symmetry of the callers    *)
(* and the servers, which the specification never tells apart.               *)
EXTENDS ServerDiscovery, TLC

CONSTANTS c1, c2, s1, s2, s3

Symmetric == Permutations(Callers) \cup Permutations(Servers)
=============================================================================
