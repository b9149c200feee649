----------------------------- MODULE MCRuruLoop -----------------------------
(* RuruLoop for TLC: the clients are interchangeable.  The addresses are    *)
(* not, because LoopInit chooses one of them.                              *)
EXTENDS RuruLoop, TLC

ClientSymmetry == Permutations(Clients)
=============================================================================
