--------------------------- MODULE MCNotifications ---------------------------
(***************************************************************************)
(* Small instances of Notifications: which threads share a core.           *)
(***************************************************************************)
EXTENDS Notifications, TLC

CONSTANTS t1, t2, t3, r1, r2

TwoAndOne == (t1 :> 0) @@ (t2 :> 0) @@ (t3 :> 1)
Symmetry == Permutations({t1, t2}) \cup Permutations({r1, r2})
=============================================================================
