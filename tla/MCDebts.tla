------------------------------- MODULE MCDebts -------------------------------
(***************************************************************************)
(* The instance of module Debts for TLC.                                   *)
(***************************************************************************)
EXTENDS Debts, TLC

CONSTANTS d1, c1, c2, c3

(* Repayments below, at and above what may remain. *)
MCPayments == {-1, 0, 1, 2, 4}

Alike == Permutations({c1, c2, c3})
=============================================================================
