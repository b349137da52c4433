------------------------------ MODULE MCThread ------------------------------
(* Instances of Thread for TLC; each configuration gives agents to some roles. *)
EXTENDS Thread
=============================================================================
