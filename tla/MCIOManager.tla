---------------------------- MODULE MCIOManager ----------------------------
(***************************************************************************)
(* Which client is which makes no difference.                              *)
(***************************************************************************)
EXTENDS IOManager, TLC

Symmetry == Permutations(Clients)
=============================================================================
