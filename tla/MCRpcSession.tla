---------------------------- MODULE MCRpcSession ----------------------------
(***************************************************************************)
(* Small instances of RpcSession.                                          *)
(***************************************************************************)
EXTENDS RpcSession, TLC

CONSTANTS t1, t2, t3, c1, e1, k1, k2

SymmetryServers == Permutations({t2, t3}) \cup Permutations({k1, k2})
=============================================================================
