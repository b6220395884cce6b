------------------------- MODULE MCInventoryLedger -------------------------
(* Two locations, two items, and documents that meet on all four balances:  *)
(* an opening of both items, a transfer of both, one back, a write-off,     *)
(* another document that claims the write-off's identity, and its reversal. *)
EXTENDS InventoryLedger, TLC
CONSTANTS w1, w2

MCRequests == {"open", "there", "back", "off", "clash", "undo"}
MCSources == MCRequests
MCSource == [r \in Requests |-> IF r = "clash" THEN "off" ELSE r]
MCKind == [r \in Requests |-> CASE r = "open" -> "opening" [] r = "undo" -> "reversal" [] OTHER -> "movement"]
MCTarget == [r \in Requests |-> IF r = "undo" THEN "off" ELSE r]

Leg(r, l, i) ==
    CASE r = "open" -> IF l = 1 THEN 1 ELSE 0
      [] r = "there" -> IF l = 1 THEN -1 ELSE 1
      [] r = "back" -> IF i = 2 THEN 0 ELSE IF l = 1 THEN 1 ELSE -1
      [] r = "off" -> IF l = 1 /\ i = 1 THEN -1 ELSE 0
      [] r = "clash" -> IF l = 1 /\ i = 1 THEN 1 ELSE 0
      [] r = "undo" -> IF l = 1 /\ i = 1 THEN 1 ELSE 0
MCDelta == [r \in Requests |-> [k \in Keys |-> Leg(r, k[1], k[2])]]
MCThresholds == {0}
MCWatched == {<<1, 1>>}

MCSymmetry == Permutations({w1, w2})
=============================================================================
