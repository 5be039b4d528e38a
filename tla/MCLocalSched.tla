---------------------------- MODULE MCLocalSched ----------------------------
(***************************************************************************)
(* Small instances of LocalSched.  A core reaches another one only through *)
(* the wake-up, which here the environment performs at any time, so that   *)
(* one core and its tasks show all there is to one core's queue.           *)
(***************************************************************************)
EXTENDS LocalSched, TLC

CONSTANTS c1, a, b, d

OneCore == (a :> c1) @@ (b :> c1) @@ (d :> c1)
=============================================================================
