-------------------------- MODULE WorkflowApproval --------------------------
(***************************************************************************)
(* One instance of a published approval workflow                           *)
(* (modules/workflow-approval/application).  The graph is walked by the    *)
(* transactions that start the instance or complete a task; approvers      *)
(* decide, administrators force, reassign and cancel, and the escalation   *)
(* job adds approvers to tasks that are late.  Every one of them is a READ *)
(* COMMITTED transaction: a statement sees what was committed before it    *)
(* and what its own transaction wrote, and waits for the rows another      *)
(* transaction has written.  A statement that waits for a row looks at its *)
(* committed version again, but does not see rows inserted meanwhile.      *)
(***************************************************************************)
EXTENDS Integers, FiniteSets, Sequences

CONSTANTS
    Callers,  \* transactions that may be open at once
    Workers,  \* passes of the escalation job
    Users,
    TaskIds,  \* bound on the tasks of the instance
    Graph,    \* the pinned definition: a record for each node id
    StartNode,
    None

Nodes == DOMAIN Graph
OfType(type) == {n \in Nodes : Graph[n].type = type}

ASSUME NoneAssumption == None \notin Nodes /\ None \notin Users /\ None \notin TaskIds
ASSUME GraphAssumption ==
    /\ StartNode \in Nodes
    /\ \A n \in OfType("approval") :
        /\ Graph[n].assignees \subseteq Users /\ Graph[n].escalateTo \in Users \cup {None}
        /\ Graph[n].maxEscalations \in Nat \ {0}
        /\ {Graph[n].onApprove, Graph[n].onReject} \subseteq Nodes
        /\ Graph[n].rule \in {"all", "any", "quorum"} /\ Graph[n].threshold \in Nat
    /\ \A n \in OfType("condition") : {Graph[n].onTrue, Graph[n].onFalse} \subseteq Nodes
    /\ \A n \in OfType("parallel") : Graph[n].branches \in Seq(Nodes)
    /\ \A n \in OfType("join") : Graph[n].awaits \subseteq Nodes /\ Graph[n].next \in Nodes
    /\ \A n \in OfType("notify") : Graph[n].next \in Nodes
    /\ \A n \in OfType("end") : Graph[n].outcome \in {"approved", "rejected"}

VARIABLES
    instance,   \* status of the instance; "none" before it is started
    task,       \* node, branch and status of each task
    seat,       \* live assignments: who may decide, and who has, in each task
    overridden, \* tasks with an administrative decision
    arrived,    \* awcms_workflow_join_arrivals: <<join, branch>>
    late,       \* escalation_step, due_at, and history: times due, times escalated
    tx,         \* open transactions: what they have read, locked and written
    noted       \* the task and the step an escalation pass has read

db == <<instance, task, seat, overridden, arrived, late>>
vars == <<db, tx, noted>>

Final == {"approved", "rejected", "cancelled"}
ASSUME NoVerdictAssumption == None \notin Final
Verdicts == {"approved", "rejected"}
Branches == Nodes \cup {None}

NoTask == [node |-> None, branch |-> None, status |-> "unused"]
NotLate == [step |-> 0, due |-> FALSE, armed |-> FALSE, overdue |-> 0, escalated |-> 0]
Idle == [phase |-> "idle", starts |-> FALSE, completes |-> None, by |-> None, outcome |-> None,
         queue |-> <<>>, creates |-> {}, arrives |-> {}, verdict |-> None,
         sweep |-> {}, cancels |-> {}]
NewTask == [id : TaskIds, node : OfType("approval"), branch : Branches]

TypeOK ==
    /\ instance \in {"none", "pending"} \cup Final
    /\ task \in [TaskIds -> [node : Nodes \cup {None}, branch : Branches,
                             status : {"unused", "pending", "completed", "cancelled"}]]
    /\ seat \in [TaskIds -> [Users -> {"none", "pending"} \cup Verdicts]]
    /\ overridden \subseteq TaskIds
    /\ arrived \subseteq OfType("join") \X Nodes
    /\ late \in [TaskIds -> [step : Nat, due : BOOLEAN, armed : BOOLEAN,
                             overdue : Nat, escalated : Nat]]
    /\ \A t \in TaskIds :
        late[t].step > 0 => late[t].step <= Graph[task[t].node].maxEscalations
    /\ tx \in [Callers ->
                [phase : {"idle", "walk", "close", "sweep"}, starts : BOOLEAN,
                 completes : TaskIds \cup {None}, by : Users \cup {None},
                 outcome : Verdicts \cup {None}, queue : Seq(Nodes \X Branches),
                 creates : SUBSET NewTask, arrives : SUBSET (OfType("join") \X Nodes),
                 verdict : Final \cup {None}, sweep : SUBSET TaskIds, cancels : SUBSET TaskIds]]
    /\ noted \in [Workers -> {None} \cup (TaskIds \X Nat)]

Init ==
    /\ instance = "none"
    /\ task = [t \in TaskIds |-> NoTask] /\ late = [t \in TaskIds |-> NotLate]
    /\ seat = [t \in TaskIds |-> [u \in Users |-> "none"]]
    /\ overridden = {} /\ arrived = {}
    /\ tx = [c \in Callers |-> Idle] /\ noted = [w \in Workers |-> None]

-----------------------------------------------------------------------------
(* Row locks.  A transaction keeps what it has locked until it ends.        *)

Locks(c) == tx[c].cancels \cup IF tx[c].completes = None THEN {} ELSE {tx[c].completes}
(* Mutant: escalation, votes and reassignment do not wait for the task's row. *)
FreeAnyway(t) == TRUE
Free(t) == \A c \in Callers : t \notin Locks(c)
FreeFor(c, t) == \A d \in Callers \ {c} : t \notin Locks(d)
InstanceFree == \A c \in Callers : tx[c].verdict = None

(* Quorum of a task whose live seats are s: evaluateQuorumOutcome *)
Having(s, v) == {u \in Users : s[u] = v}
Needed(t, s) ==
    LET node == Graph[task[t].node]
    IN  CASE node.rule = "any" -> 1
          [] node.rule = "all" -> Cardinality({u \in Users : s[u] # "none"})
          [] node.rule = "quorum" -> node.threshold
Approved(t, s) ==
    /\ Having(s, "approved") # {}
    /\ Cardinality(Having(s, "approved")) >= Needed(t, s)

-----------------------------------------------------------------------------
(* Decisions on a task.  The holder of a pending seat decides, or a         *)
(* delegate for the holder.                                                 *)

Open(t) == task[t].status = "pending" /\ instance = "pending"

Voted(t, u, v) == [seat[t] EXCEPT ![u] = v]

(* An approval that does not complete the task: the whole transaction.      *)
Vote(t, u) ==
    /\ Free(t) /\ Open(t) /\ seat[t][u] = "pending"
    /\ ~Approved(t, Voted(t, u, "approved"))
    /\ seat' = [seat EXCEPT ![t] = Voted(t, u, "approved")]
    /\ UNCHANGED <<instance, task, overridden, arrived, late, tx, noted>>

Complete(c, t, u, v) ==
    LET node == Graph[task[t].node]
        next == IF v = "approved" THEN node.onApprove ELSE node.onReject
    IN  tx' = [tx EXCEPT ![c] = [Idle EXCEPT !.phase = "walk", !.completes = t, !.by = u,
                                    !.outcome = v, !.queue = <<<<next, task[t].branch>>>>]]

(* Mutant: the task is read without FOR UPDATE.                             *)
DecideUnlocked(c, t, u, v) ==
    /\ tx[c] = Idle /\ Open(t) /\ seat[t][u] = "pending"
    /\ v = "rejected" \/ Approved(t, Voted(t, u, "approved"))
    /\ Complete(c, t, u, v)
    /\ UNCHANGED <<db, noted>>
Decide(c, t, u, v) ==
    /\ tx[c] = Idle /\ Free(t) /\ Open(t) /\ seat[t][u] = "pending"
    /\ v = "rejected" \/ Approved(t, Voted(t, u, "approved"))
    /\ Complete(c, t, u, v)
    /\ UNCHANGED <<db, noted>>

ForceDecision(c, t, v) ==
    /\ tx[c] = Idle /\ Free(t) /\ Open(t)
    /\ Complete(c, t, None, v)
    /\ UNCHANGED <<db, noted>>

(* All seats still pending go to u.                                         *)
Reassign(t, u) ==
    /\ Free(t) /\ task[t].status = "pending"
    /\ seat[t][u] \notin Verdicts
    /\ seat' = [seat EXCEPT ![t] = [x \in Users |->
                    IF x = u THEN "pending"
                    ELSE IF seat[t][x] = "pending" THEN "none" ELSE seat[t][x]]]
    /\ UNCHANGED <<instance, task, overridden, arrived, late, tx, noted>>

(* Mutant: an instance that has its verdict may be cancelled.               *)
CancelAnyTime(c) ==
    /\ tx[c] = Idle /\ InstanceFree /\ instance # "none"
    /\ tx' = [tx EXCEPT ![c] = [Idle EXCEPT !.phase = "close", !.verdict = "cancelled"]]
    /\ UNCHANGED <<db, noted>>
Cancel(c) ==
    /\ tx[c] = Idle /\ InstanceFree /\ instance = "pending"
    /\ tx' = [tx EXCEPT ![c] = [Idle EXCEPT !.phase = "close", !.verdict = "cancelled"]]
    /\ UNCHANGED <<db, noted>>

Start(c) ==
    /\ instance = "none" /\ \A d \in Callers : tx[d] = Idle
    /\ tx' = [tx EXCEPT ![c] = [Idle EXCEPT !.phase = "walk", !.starts = TRUE,
                                    !.queue = <<<<StartNode, None>>>>]]
    /\ UNCHANGED <<db, noted>>

-----------------------------------------------------------------------------
(* activateNode: the transaction takes one node after the other from its    *)
(* queue.                                                                   *)

AtNode(c, type) ==
    /\ tx[c].phase = "walk" /\ tx[c].queue # <<>>
    /\ Graph[Head(tx[c].queue)[1]].type = type
Here(c) == Head(tx[c].queue)[1]
Branch(c) == Head(tx[c].queue)[2]
Walk(c, entries) == [tx[c] EXCEPT !.queue = Tail(@) \o entries]

Unused == {t \in TaskIds : /\ task[t].status = "unused"
                           /\ \A c \in Callers : \A n \in tx[c].creates : n.id # t}

CreateTask(c) ==
    /\ AtNode(c, "approval")
    /\ Unused # {}
    /\ LET id == CHOOSE t \in Unused : TRUE
       IN  tx' = [tx EXCEPT ![c] = [Walk(c, <<>>) EXCEPT !.creates = @ \cup
                    {[id |-> id, node |-> Here(c), branch |-> Branch(c)]}]]
    /\ UNCHANGED <<db, noted>>

(* A condition reads facts frozen at the start: either way, but no one      *)
(* else has a say.                                                          *)
EvaluateCondition(c) ==
    /\ AtNode(c, "condition")
    /\ \E next \in {Graph[Here(c)].onTrue, Graph[Here(c)].onFalse} :
        tx' = [tx EXCEPT ![c] = Walk(c, <<<<next, Branch(c)>>>>)]
    /\ UNCHANGED <<db, noted>>

FanOut(c) ==
    /\ AtNode(c, "parallel")
    /\ LET branches == Graph[Here(c)].branches
       IN  tx' = [tx EXCEPT ![c] =
                    Walk(c, [i \in DOMAIN branches |-> <<branches[i], branches[i]>>])]
    /\ UNCHANGED <<db, noted>>

Notify(c) ==
    /\ AtNode(c, "notify")
    /\ tx' = [tx EXCEPT ![c] = Walk(c, <<<<Graph[Here(c)].next, Branch(c)>>>>)]
    /\ UNCHANGED <<db, noted>>

(* The arrivals the transaction sees: what is committed and its own.        *)
Arrivals(c) == (arrived \cup tx[c].arrives) \cup
               IF Branch(c) = None THEN {} ELSE {<<Here(c), Branch(c)>>}
AllArrived(j, arrivals) ==
    Cardinality({a \in arrivals : a[1] = j}) >= Cardinality(Graph[j].awaits)

(* Mutant: the arrival is only recorded when it completes the join.         *)
JoinCountedFirst(c) ==
    /\ AtNode(c, "join")
    /\ \A d \in Callers \ {c} : <<Here(c), Branch(c)>> \notin tx[d].arrives
    /\ tx' = [tx EXCEPT ![c] =
                IF AllArrived(Here(c), Arrivals(c))
                THEN [Walk(c, <<<<Graph[Here(c)].next, None>>>>) EXCEPT !.arrives = Arrivals(c) \ arrived]
                ELSE Walk(c, <<>>)]
    /\ UNCHANGED <<db, noted>>
Join(c) ==
    /\ AtNode(c, "join")
    /\ \A d \in Callers \ {c} : <<Here(c), Branch(c)>> \notin tx[d].arrives
    /\ tx' = [tx EXCEPT ![c] = [Walk(c, IF AllArrived(Here(c), Arrivals(c))
                                        THEN <<<<Graph[Here(c)].next, None>>>> ELSE <<>>)
                                EXCEPT !.arrives = Arrivals(c) \ arrived]]
    /\ UNCHANGED <<db, noted>>

(* Pending tasks as the transaction sees them.                              *)
Created(c) == {n.id : n \in tx[c].creates}
SeenPending(c) == (({t \in TaskIds : task[t].status = "pending"} \cup Created(c)) \ Locks(c))

(* The UPDATE of the instance waits for its row and refuses to overwrite a  *)
(* verdict, and the trigger refuses an approval with a task still pending:  *)
(* both roll the transaction back.                                          *)
Finish(c) ==
    /\ AtNode(c, "end") /\ InstanceFree
    /\ LET outcome == Graph[Here(c)].outcome
           allowed == /\ instance = "pending" \/ tx[c].starts
                      /\ outcome = "approved" => SeenPending(c) = {}
       IN  tx' = [tx EXCEPT ![c] =
                    IF allowed THEN [@ EXCEPT !.phase = "close", !.queue = <<>>, !.verdict = outcome]
                    ELSE Idle]
    /\ UNCHANGED <<db, noted>>

-----------------------------------------------------------------------------
(* The UPDATE that cancels the pending tasks of an instance that ends: it   *)
(* goes through the rows it saw when it began.                              *)

BeginSweep(c) ==
    /\ tx[c].phase = "close"
    /\ tx' = [tx EXCEPT ![c].phase = "sweep", ![c].sweep = SeenPending(c)]
    /\ UNCHANGED <<db, noted>>

SweepTask(c, t) ==
    /\ tx[c].phase = "sweep" /\ t \in tx[c].sweep /\ FreeFor(c, t)
    /\ tx' = [tx EXCEPT ![c].sweep = @ \ {t},
                        ![c].cancels = IF task[t].status = "pending" \/ t \in Created(c)
                                       THEN @ \cup {t} ELSE @]
    /\ UNCHANGED <<db, noted>>

(* The seats and the escalation of a new task of a node *)
Assigned(n) == [u \in Users |-> IF u \in Graph[n].assignees THEN "pending" ELSE "none"]
Timed(n) == [NotLate EXCEPT !.armed = Graph[n].escalateTo # None]

Commit(c) ==
    /\ \/ tx[c].phase = "walk" /\ tx[c].queue = <<>>
       \/ tx[c].phase = "sweep" /\ tx[c].sweep = {}
    /\ LET x == tx[c]
           Made(t) == CHOOSE n \in x.creates : n.id = t
           Status(t) == IF t \in x.cancels THEN "cancelled"
                        ELSE IF t = x.completes THEN "completed"
                        ELSE IF t \in Created(c) THEN "pending" ELSE task[t].status
       IN  /\ instance' = IF x.verdict # None THEN x.verdict
                          ELSE IF x.starts THEN "pending" ELSE instance
           /\ task' = [t \in TaskIds |->
                        IF t \in Created(c)
                        THEN [node |-> Made(t).node, branch |-> Made(t).branch, status |-> Status(t)]
                        ELSE [task[t] EXCEPT !.status = Status(t)]]
           /\ seat' = [t \in TaskIds |->
                        IF t \in Created(c) THEN Assigned(Made(t).node)
                        ELSE IF t = x.completes /\ x.by # None THEN Voted(t, x.by, x.outcome)
                        ELSE seat[t]]
           /\ late' = [t \in TaskIds |->
                        IF t \in Created(c) THEN Timed(Made(t).node) ELSE late[t]]
           /\ overridden' = IF x.completes # None /\ x.by = None
                            THEN overridden \cup {x.completes} ELSE overridden
           /\ arrived' = arrived \cup x.arrives
           /\ tx' = [tx EXCEPT ![c] = Idle]
    /\ UNCHANGED noted

(* Who holds what c waits for; the server aborts a member of a cycle.       *)
Blockers(c) ==
    {d \in Callers \ {c} :
        \/ AtNode(c, "end") /\ tx[d].verdict # None
        \/ AtNode(c, "join") /\ <<Here(c), Branch(c)>> \in tx[d].arrives
        \/ /\ tx[c].phase = "sweep" /\ tx[c].sweep # {}
           /\ \A t \in tx[c].sweep : ~FreeFor(c, t)
           /\ tx[c].sweep \cap Locks(d) # {}}
Deadlocked(c) ==
    \E S \in SUBSET Callers :
        /\ c \in S
        /\ \A d \in S : Blockers(d) \cap S # {} /\ \E e \in S : d \in Blockers(e)

(* Mutant: nobody looks for deadlocks.                                      *)
WaitForever(c) == FALSE /\ UNCHANGED vars
BreakDeadlock(c) ==
    /\ Deadlocked(c)
    /\ tx' = [tx EXCEPT ![c] = Idle]
    /\ UNCHANGED <<db, noted>>

-----------------------------------------------------------------------------
(* Escalation: escalateDueTasksForTenant.  A pass reads the task, and later *)
(* updates it if it is pending and at the step the pass has read.  The code *)
(* takes up to 25 tasks in one transaction; here each is one of its own.    *)

FallDue(t) ==
    /\ task[t].status = "pending" /\ late[t].armed /\ ~late[t].due
    /\ late' = [late EXCEPT ![t].due = TRUE, ![t].overdue = @ + 1]
    /\ UNCHANGED <<instance, task, seat, overridden, arrived, tx, noted>>

ReadLate(w, t) ==
    /\ noted[w] = None /\ task[t].status = "pending" /\ late[t].due
    /\ noted' = [noted EXCEPT ![w] = <<t, late[t].step>>]
    /\ UNCHANGED <<db, tx>>

MoreToCome(node, step) == step + 1 < node.maxEscalations

(* Mutant: the step the pass has read is not compared.                      *)
UnchangedSinceAnyStep(t, step) == task[t].status = "pending"
UnchangedSince(t, step) == task[t].status = "pending" /\ late[t].step = step

Escalated(l, step, node) ==
    [l EXCEPT !.step = step + 1, !.due = FALSE, !.armed = MoreToCome(node, step),
              !.escalated = @ + 1]

Escalate(w) ==
    /\ noted[w] # None
    /\ LET t == noted[w][1]
           step == noted[w][2]
           node == Graph[task[t].node]
       IN  /\ Free(t)
           /\ IF UnchangedSince(t, step)
              THEN /\ late' = [late EXCEPT ![t] = Escalated(@, step, node)]
                   /\ seat' = [seat EXCEPT ![t][node.escalateTo] =
                        IF @ = "none" THEN "pending" ELSE @]
              ELSE UNCHANGED <<late, seat>>
    /\ noted' = [noted EXCEPT ![w] = None]
    /\ UNCHANGED <<instance, task, overridden, arrived, tx>>

-----------------------------------------------------------------------------
Statement(c) ==
    \/ CreateTask(c) \/ EvaluateCondition(c) \/ FanOut(c) \/ Notify(c)
    \/ Join(c) \/ Finish(c) \/ BeginSweep(c) \/ Commit(c)
    \/ \E t \in TaskIds : SweepTask(c, t)

Next ==
    \/ \E c \in Callers : Start(c) \/ Cancel(c) \/ Statement(c) \/ BreakDeadlock(c)
    \/ \E c \in Callers, t \in TaskIds, v \in Verdicts :
        ForceDecision(c, t, v) \/ \E u \in Users : Decide(c, t, u, v)
    \/ \E t \in TaskIds : FallDue(t) \/ \E u \in Users : Vote(t, u) \/ Reassign(t, u)
    \/ \E w \in Workers : Escalate(w) \/ \E t \in TaskIds : ReadLate(w, t)

Spec == Init /\ [][Next]_vars

(* An open transaction runs on, and the server's deadlock check fires.  A   *)
(* lock goes to the one that has waited longest: strong fairness.           *)
FairSpec == Spec /\ \A c \in Callers : SF_vars(Statement(c)) /\ WF_vars(BreakDeadlock(c))
-----------------------------------------------------------------------------
(* The graphs the module is built for: those of the engine's design, where  *)
(* a parallel node's branches all funnel into its join (workflow-graph.ts), *)
(* without cycles, which the validator refuses, and without a parallel node *)
(* in a branch, which is not supported.  A shape ranks the nodes along the  *)
(* edges, and names the parallel node each is inside of, and its join.      *)
Inside(shape, n, p) ==
    Graph[n].type = "end" \/ (Graph[n].type # "join" /\ shape.home[n] = p)
Leads(shape, n, next) ==
    /\ shape.rank[n] < shape.rank[next]
    /\ \/ Inside(shape, next, shape.home[n])
       \/ shape.home[n] # None /\ next = shape.meet[shape.home[n]]
Fan(p) == {Graph[p].branches[i] : i \in DOMAIN Graph[p].branches}

Funnelled(shape) ==
    /\ shape.rank \in [Nodes -> Nat]
    /\ shape.home \in [Nodes -> OfType("parallel") \cup {None}]
    /\ shape.meet \in [OfType("parallel") -> OfType("join")]
    /\ Inside(shape, StartNode, None)
    /\ \A n \in OfType("approval") :
        Leads(shape, n, Graph[n].onApprove) /\ Leads(shape, n, Graph[n].onReject)
    /\ \A n \in OfType("condition") :
        Leads(shape, n, Graph[n].onTrue) /\ Leads(shape, n, Graph[n].onFalse)
    /\ \A n \in OfType("notify") : Leads(shape, n, Graph[n].next)
    /\ \A p \in OfType("parallel") :
        /\ shape.home[p] = None
        /\ Graph[p].branches # <<>>
        /\ \A i, k \in DOMAIN Graph[p].branches :
            Graph[p].branches[i] = Graph[p].branches[k] => i = k
        /\ \A b \in Fan(p) : Graph[b].type # "join" /\ shape.home[b] = p
        /\ Graph[shape.meet[p]].awaits = Fan(p)
        /\ \A n \in Nodes : shape.home[n] = p =>
            shape.rank[p] < shape.rank[n] /\ shape.rank[n] < shape.rank[shape.meet[p]]
    /\ \A j \in OfType("join") :
        shape.rank[j] < shape.rank[Graph[j].next] /\ Inside(shape, Graph[j].next, None)

-----------------------------------------------------------------------------
(* Two approvers of one task, or an approver and an administrator, never    *)
(* both walk on from it: no node is activated twice in a branch (the lock   *)
(* of fetchTaskWithInstanceForDecision).                                    *)
ActivatedOnce ==
    \A s \in TaskIds, t \in TaskIds :
        /\ task[s].status # "unused"
        /\ task[s].node = task[t].node /\ task[s].branch = task[t].branch
        => s = t

(* A task that no administrator decided was completed by a rejection or by  *)
(* as many approvals as its seats ask for, whatever was reassigned or       *)
(* escalated while the decision was in flight (recordWorkflowTaskDecision). *)
QuorumHonoured ==
    \A t \in TaskIds \ overridden :
        task[t].status = "completed" =>
            Having(seat[t], "rejected") # {} \/ Approved(t, seat[t])

(* A verdict stands: neither a decision in flight nor a cancellation        *)
(* overwrites it, and an approval leaves no task of the instance pending    *)
(* (the end node and cancelWorkflowInstance).                               *)
VerdictStands ==
    [][/\ instance \in Final => instance' = instance
       /\ instance' = "approved" =>
            \A t \in TaskIds : task'[t].status \notin {"pending", "cancelled"}]_vars

(* A task is escalated at most once each time it falls due                  *)
(* (escalateDueTasksForTenant).                                             *)
EscalatedOncePerDue ==
    \A t \in TaskIds : late[t].escalated <= late[t].overdue

AtRest == \A c \in Callers : tx[c] = Idle
SomePending == \E t \in TaskIds : task[t].status = "pending"
Joined(j) == {b \in Graph[j].awaits : <<j, b>> \in arrived} = Graph[j].awaits

(* When no transaction is open, a pending instance waits for a decision, or *)
(* it has stopped at a join whose branches have all arrived (activateNode). *)
StrandedOnlyAtJoin ==
    AtRest /\ instance = "pending" => SomePending \/ \E j \in OfType("join") : Joined(j)

(* Decisions and cancellations lock tasks and the instance in opposite      *)
(* orders; every transaction ends all the same.                             *)
EveryTransactionEnds == \A c \in Callers : tx[c] # Idle ~> tx[c] = Idle

(* What the code's comments promise and the runs refute.                    *)

(* The instance goes on past a join once every branch has arrived           *)
(* (workflow-graph-engine.ts:13-18).                                        *)
FullJoinContinues ==
    AtRest /\ instance = "pending" /\ (\E j \in OfType("join") : Joined(j)) => SomePending
=============================================================================
