--------------------------- MODULE MCPaymentLedger ---------------------------
(* Instances of PaymentLedger for TLC. *)
EXTENDS PaymentLedger, TLC

CONSTANTS p1, p2, h1, h2

OnePayment  == {p1}
TwoPayments == {p1, p2}
TwoHandlers == {h1, h2}

TwoParts == {1, 2}
=============================================================================
