------------------------------ MODULE MCRootCA ------------------------------
(***************************************************************************)
(* RootCA with two concurrent generators and three roots: one that is cut  *)
(* short, one that races it and one that repairs.                          *)
(***************************************************************************)
EXTENDS RootCA
=============================================================================
