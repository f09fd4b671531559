------------------------------ MODULE MCExtKey -------------------------------
(* Three ids and a window of two: the window fills and is filled again. *)
EXTENDS ExtKey
=============================================================================
