---------------------------- MODULE MCPageTable ----------------------------
(* An instance of FlatTable, and with it of PageTable, for TLC. *)
EXTENDS FlatTable

MCSpan == <<4, 2, 1>>
=============================================================================
