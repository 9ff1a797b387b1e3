---------------------------- MODULE MCUnaryClient ----------------------------
(***************************************************************************)
(* UnaryClient on small instances.                                         *)
(***************************************************************************)
EXTENDS UnaryClient, TLC

CONSTANTS c1, c2, a1, a2, a3, a4, h1, echo, other, m

MCNameOf == h1 :> echo

MCSymmetry == Permutations({a1, a2, a3, a4}) \cup Permutations({c1, c2})

(* The request in one DATA frame, *)
Whole == {<<7>>}
(* and cut into two: in the middle, or with END_STREAM on an empty one. *)
Halves == {<<6, 6>>, <<7, 0>>}
=============================================================================
