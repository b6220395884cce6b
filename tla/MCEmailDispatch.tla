--------------------------- MODULE MCEmailDispatch ---------------------------
(* An instance of EmailDispatch for TLC: one message, two passes that may    *)
(* overtake each other.                                                      *)
EXTENDS EmailDispatch, TLC
CONSTANTS m1, m2, w1, w2
=============================================================================
