----------------------------- MODULE MCLeafStore -----------------------------
(***************************************************************************)
(* LeafStore with two handshakes at a time, three hosts, one of them also  *)
(* spelled in upper case with a port, and a cache of two.                  *)
(***************************************************************************)
EXTENDS LeafStore

MCnormalizeHost(name) == IF name = "A:443" THEN "a" ELSE name
=============================================================================
