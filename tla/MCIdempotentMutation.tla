------------------------- MODULE MCIdempotentMutation -------------------------
(* Instances of IdempotentMutation for TLC.  r1 and r2 are one creation sent  *)
(* twice by ann; r3 is a decision of hers under the same key; r4 is bob's     *)
(* decision of the same resource, under a key of the same name.  The key has  *)
(* a legacy row, which counts in half of the initial states.                  *)
EXTENDS IdempotentMutation, TLC
CONSTANTS r1, r2, r3, r4, ann, bob, key, h1, h2, h3, invoice

Twice == {r1, r2}
ByAnnAndBob == [r \in Requests |-> IF r = r4 THEN bob ELSE ann]
OneKey == [r \in Requests |-> key]
Payloads == [r \in Requests |-> IF r \in Twice THEN h1 ELSE IF r = r3 THEN h2 ELSE h3]
TwoDecisions == [r \in Requests |-> IF r \in Twice THEN None ELSE invoice]
=============================================================================
