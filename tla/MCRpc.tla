-------------------------------- MODULE MCRpc --------------------------------
(***************************************************************************)
(* Small instances of Rpc.                                                 *)
(***************************************************************************)
EXTENDS Rpc, TLC

CONSTANTS t1, t2, t3, c1, e1, k1, k2, o1, o2

Symmetry == Permutations({t1, t2, t3}) \cup Permutations({k1, k2})
              \cup Permutations({o1, o2})
=============================================================================
