------------------------------- MODULE MCSession -------------------------------
(* A small instance of Session: two camera sessions, two rendezvous servers and a   *)
(* reconnect that sends one command.                                                *)
EXTENDS Session
=============================================================================
