------------------------------ MODULE MCConnect ------------------------------
(***************************************************************************)
(* Connect with up to three bytes in each direction of a tunnel and up to  *)
(* two requests on an intercepted connection.                              *)
(***************************************************************************)
EXTENDS Connect
=============================================================================
