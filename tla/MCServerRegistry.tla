-------------------------- MODULE MCServerRegistry --------------------------
(* An instance of ServerRegistry for TLC. *)
EXTENDS ServerRegistry, TLC

CONSTANTS s1, s2
=============================================================================
