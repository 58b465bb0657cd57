------------------------------ MODULE MCTimer ------------------------------
(* Instances of Timer for TLC; the constants are given in the .cfg files. *)
EXTENDS Timer
=============================================================================
