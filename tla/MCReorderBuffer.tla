---------------------------- MODULE MCReorderBuffer ----------------------------
(* A small instance of ReorderBuffer: the sequence space has 10 numbers (8 in the   *)
(* run that looks for a violation), the buffer holds 3 packets (2), and numbering   *)
(* starts two below the wrap (at it).                                               *)
EXTENDS ReorderBuffer

MCStartIndexes == {8}
=============================================================================
