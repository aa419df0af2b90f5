----------------------------- MODULE MCModelSwap -----------------------------
(* Small instances of ModelSwap: threads and objects are model values that  *)
(* the configurations name.                                                 *)
EXTENDS ModelSwap
=============================================================================
