----------------------------- MODULE MCSupervisor -----------------------------
(* A small instance of Supervisor: two cameras, and SIGTERM followed by SIGINT.     *)
EXTENDS Supervisor
=============================================================================
