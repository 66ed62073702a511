--------------------------- MODULE MCJobLifecycle ---------------------------
(* An instance of JobLifecycle for TLC. *)
EXTENDS JobLifecycle, TLC

CONSTANTS w1, w2, c1, c2, j1
=============================================================================
