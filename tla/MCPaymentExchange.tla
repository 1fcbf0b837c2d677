-------------------------- MODULE MCPaymentExchange --------------------------
(***************************************************************************)
(* Model values for PaymentExchange: a founder and two members.            *)
(***************************************************************************)
EXTENDS PaymentExchange

CONSTANTS f, a, b,    \* the founder and two members
          g           \* the one value of the parents and timestamp
=============================================================================
