------------------------------ MODULE MCServer ------------------------------
(***************************************************************************)
(* A small instance of the server's life, for safety and liveness: every   *)
(* method of the generated clients, on a few connections.                  *)
(***************************************************************************)
EXTENDS Server

AllMethods == {s.method : s \in Client}
=============================================================================
