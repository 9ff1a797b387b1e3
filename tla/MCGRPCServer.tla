---------------------------- MODULE MCGRPCServer ----------------------------
(***************************************************************************)
(* GRPCServer on small instances: two connections that compete for three   *)
(* Stream objects, one handler and one name without a handler.             *)
(***************************************************************************)
EXTENDS GRPCServer, TLC

CONSTANTS c1, c2, a1, a2, a3, h1, echo, other

MCNameOf == h1 :> echo
MCSymmetry == Permutations({c1, c2}) \cup Permutations({a1, a2, a3})
=============================================================================
