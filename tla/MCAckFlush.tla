------------------------------ MODULE MCAckFlush -------------------------------
(* A small instance of AckFlush: lists of two, so that a list fills, is overtaken by the *)
(* flush thread and fills again, and a session that is left twice.                       *)
EXTENDS AckFlush
================================================================================
