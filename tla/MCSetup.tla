------------------------------ MODULE MCSetup ------------------------------
(* Two containers: ASH and one of another name.                            *)
EXTENDS Setup
=============================================================================
