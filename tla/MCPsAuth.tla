------------------------------ MODULE MCPsAuth ------------------------------
(* A challenge of two parts and a signature of two, given up once; the     *)
(* queue has room for one report, so that the reports of others fill it.   *)
EXTENDS PsAuth
=============================================================================
