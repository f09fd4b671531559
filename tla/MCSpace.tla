------------------------------- MODULE MCSpace -------------------------------
(* The free list alone, called in every order its contract allows. *)
EXTENDS Space
=============================================================================
