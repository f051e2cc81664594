-------------------------- MODULE MCStripePayments --------------------------
(* Instances of the plan and credit payments for TLC.                      *)
EXTENDS StripePayments
=============================================================================
