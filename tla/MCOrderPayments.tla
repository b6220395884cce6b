--------------------------- MODULE MCOrderPayments ---------------------------
(* Two sessions one after the other, a payment and a reversal by the shop,  *)
(* an order of two units that is paid whole or by a deposit of one.         *)
EXTENDS OrderPayments
CONSTANTS w1

MCRefs == {1, 2}
MCThresholds == {1, 2}
=============================================================================
