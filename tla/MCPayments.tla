----------------------------- MODULE MCPayments -----------------------------
(* An instance of Payments for TLC. *)
EXTENDS Payments

CONSTANTS q1, q2
=============================================================================
