---------------------------- MODULE MCStreamControl ----------------------------
(* A small instance of StreamControl: two media pipelines, a few grace windows.     *)
EXTENDS StreamControl
=============================================================================
