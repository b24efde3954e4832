-------------------------- MODULE MCResponseCache ---------------------------
(***************************************************************************)
(* The instance of module ResponseCache for TLC.                           *)
(***************************************************************************)
EXTENDS ResponseCache

CONSTANTS r1, r2, i1, i2
=============================================================================
