------------------------------ MODULE MCRWMutex ------------------------------
(* Small instances of RWMutex; threads are model values. *)
EXTENDS RWMutex
=============================================================================
