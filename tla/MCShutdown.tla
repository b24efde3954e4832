----------------------------- MODULE MCShutdown -----------------------------
(***************************************************************************)
(* Instance of module Shutdown for TLC.                                    *)
(***************************************************************************)
EXTENDS Shutdown

CONSTANTS r1, r2, r3
=============================================================================
