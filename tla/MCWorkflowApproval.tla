------------------------- MODULE MCWorkflowApproval -------------------------
(* Instances of WorkflowApproval for TLC.  "fork" fans out into "a" and "b",  *)
(* which escalates to u2, who must then approve as well; the condition before *)
(* it may skip the fork and go on to "c".                                     *)
EXTENDS WorkflowApproval
CONSTANTS u1, u2

Approval(assignees, rule, threshold, escalateTo, onApprove) ==
    [type |-> "approval", assignees |-> assignees, rule |-> rule, threshold |-> threshold,
     escalateTo |-> escalateTo, maxEscalations |-> 1, onApprove |-> onApprove, onReject |-> "no"]
End(outcome) == [type |-> "end", outcome |-> outcome]

ForkJoin ==
    [facts |-> [type |-> "condition", onTrue |-> "fork", onFalse |-> "c"],
     fork |-> [type |-> "parallel", branches |-> <<"a", "b">>],
     a |-> Approval({u1}, "any", 0, None, "j"),
     b |-> Approval({u1}, "all", 0, u2, "j"),
     j |-> [type |-> "join", awaits |-> {"a", "b"}, next |-> "tell"],
     tell |-> [type |-> "notify", next |-> "c"],
     c |-> Approval({u1}, "quorum", 1, None, "yes"),
     yes |-> End("approved"), no |-> End("rejected")]

(* The graph is one of those that the proofs are about (Funnelled).           *)
ForkJoinShape ==
    [rank |-> [facts |-> 0, fork |-> 1, a |-> 2, b |-> 2, j |-> 3, tell |-> 4, c |-> 5,
               yes |-> 6, no |-> 6],
     home |-> [n \in Nodes |-> IF n \in {"a", "b"} THEN "fork" ELSE None],
     meet |-> [n \in OfType("parallel") |-> "j"]]
ASSUME ShapeAssumption == Funnelled(ForkJoinShape)
=============================================================================
