--------------------------- MODULE MCCoresPurchase ---------------------------
(* Model-checking instances of CoresPurchase.                              *)
EXTENDS CoresPurchase, TLC

HandlerSymmetry == Permutations(Handlers)
=============================================================================
