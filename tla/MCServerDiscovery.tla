--------------------------- MODULE MCServerDiscovery ---------------------------
(* ServerDiscovery with two interchangeable callers. *)
EXTENDS ServerDiscovery, TLC

CONSTANTS c1, c2

CallerSymmetry == Permutations({c1, c2})
=============================================================================
