---------------------------- MODULE MCDatabaseGate ----------------------------
(* Instances of DatabaseGate for TLC: one or two slots per class, so that a   *)
(* handful of calls fills slots and queues.                                   *)
EXTENDS DatabaseGate, TLC
CONSTANTS a1, a2, a3, a4, interactive, maintenance

OneSlotEach == [k \in Classes |-> 1]
TwoInteractiveSlots == [k \in Classes |-> IF k = interactive THEN 2 ELSE 1]
=============================================================================
