----------------------------- MODULE MCStoreLock -----------------------------
(* StoreLock for TLC: two servers on one host, one on another. *)
EXTENDS StoreLock, TLC

CONSTANTS p, q, r, here, there

TwoHosts == p :> here @@ q :> here @@ r :> there
=============================================================================
