----------------------- MODULE WorkflowApprovalProofs -----------------------
(***************************************************************************)
(* Safety of one approval instance for any graph, users, tasks, callers    *)
(* and escalation passes: types, the quorum, the verdict, escalation.      *)
(* The invariant says what an open transaction x may look like: which rows *)
(* it has locked, that these locks are exclusive, and that an approval in  *)
(* flight is alone.  The second part is about the walk, for any graph whose*)
(* branches funnel into their joins: the nodes where a transaction walks,  *)
(* or leaves a task, are behind all that was visited before, so no node is *)
(* activated twice, and each branch is live or has arrived, so none is lost*)
(***************************************************************************)
EXTENDS WorkflowApproval, FiniteSetTheorems, SequenceTheorems, TLAPS

TxType ==
    [phase : {"idle", "walk", "close", "sweep"}, starts : BOOLEAN,
     completes : TaskIds \cup {None}, by : Users \cup {None},
     outcome : Verdicts \cup {None}, queue : Seq(Nodes \X Branches),
     creates : SUBSET NewTask, arrives : SUBSET (OfType("join") \X Nodes),
     verdict : Final \cup {None}, sweep : SUBSET TaskIds, cancels : SUBSET TaskIds]

(* A task that exists belongs to an approval node; what arms its escalation *)
(* is that node's, with steps left; it is escalated only once due.          *)
TaskInv(t) ==
    /\ task[t].status # "unused" => task[t].node \in OfType("approval")
    /\ late[t].armed =>
        /\ task[t].status # "unused"
        /\ Graph[task[t].node].escalateTo \in Users
        /\ late[t].step < Graph[task[t].node].maxEscalations
    /\ late[t].due => late[t].armed
    /\ late[t].escalated + (IF late[t].due THEN 1 ELSE 0) <= late[t].overdue
    /\ late[t].step > 0 => task[t].status # "unused"
    /\ task[t].status = "cancelled" => instance \in Final
    /\ instance = "none" => task[t].status = "unused"

(* What an escalation pass has noted is the present step of a task that is  *)
(* due, or an earlier step.                                                 *)
Noticed(t, step) ==
    /\ task[t].status # "unused"
    /\ step <= late[t].step
    /\ task[t].status = "pending" /\ step = late[t].step => late[t].due
PassInv(w) == noted[w] # None => Noticed(noted[w][1], noted[w][2])

(* The shape of a transaction by its phase *)
Shape(x) ==
    /\ x.phase = "idle" => x = Idle
    /\ x.phase = "walk" =>
        /\ x.verdict = None /\ x.sweep = {} /\ x.cancels = {}
        /\ x.starts \/ x.completes # None
    /\ x.phase \in {"close", "sweep"} => x.verdict # None
    /\ x.phase = "close" => x.sweep = {} /\ x.cancels = {}
    /\ x.starts => x.completes = None
    /\ \A n, m \in x.creates : n.id = m.id => n = m

(* ... and by the rows it has read *)
Backed(x) ==
    /\ x.starts => instance = "none"
    /\ x.verdict # None => instance = "pending" \/ x.starts
    /\ \A n \in x.creates : task[n.id].status = "unused"
    /\ \A t \in x.cancels : task[t].status # "unused" \/ \E n \in x.creates : n.id = t
    /\ instance = "approved" => x = Idle

(* A decision in flight: its task and its seat are pending, and the votes   *)
(* suffice.                                                                 *)
Supported(x) ==
    x.completes # None =>
        /\ task[x.completes].status = "pending"
        /\ x.completes \notin x.sweep \cup x.cancels
        /\ x.outcome \in Verdicts
        /\ x.by # None =>
            /\ seat[x.completes][x.by] = "pending"
            /\ \/ x.outcome = "rejected"
               \/ x.outcome = "approved"
                  /\ Approved(x.completes, Voted(x.completes, x.by, "approved"))

(* An approval in flight: the only task still pending is the one its        *)
(* transaction completes.                                                   *)
LastTask(x) ==
    x.verdict = "approved" =>
        /\ x.creates = {} /\ x.sweep = {} /\ x.cancels = {}
        /\ \A t \in TaskIds : task[t].status = "pending" => t = x.completes

(* Row locks are exclusive: on tasks, on the instance, on new ids; and who  *)
(* starts or approves is alone.                                             *)
LocksOf(x) == x.cancels \cup IF x.completes = None THEN {} ELSE {x.completes}
Solo(x) == x.starts \/ x.verdict = "approved"
Exclusive(x, y) ==
    /\ LocksOf(x) \cap LocksOf(y) = {}
    /\ x.verdict = None \/ y.verdict = None
    /\ \A n \in x.creates, m \in y.creates : n.id # m.id
    /\ Solo(x) => y = Idle
    /\ Solo(y) => x = Idle

TxInv(x) == Shape(x) /\ Backed(x) /\ Supported(x) /\ LastTask(x)

EndInv ==
    instance = "approved" => \A t \in TaskIds : task[t].status \notin {"pending", "cancelled"}

DbInv == /\ \A t \in TaskIds : TaskInv(t)
         /\ \A w \in Workers : PassInv(w)
         /\ QuorumHonoured /\ EndInv
AllTx == /\ \A c \in Callers : TxInv(tx[c])
         /\ \A c, d \in Callers : c # d => Exclusive(tx[c], tx[d])
IInv == TypeOK /\ DbInv /\ AllTx

-----------------------------------------------------------------------------
LEMMA TypeFacts ==
    TypeOK => \A c \in Callers : tx[c] \in TxType
BY DEF TypeOK, TxType

(* Nothing is known of a transaction that is idle, and it is in nobody's way. *)
LEMMA IdleFacts ==
    ASSUME IInv, NEW c \in Callers
    PROVE  /\ Idle \in TxType /\ TxInv(Idle)
           /\ \A d \in Callers : Exclusive(Idle, tx[d]) /\ Exclusive(tx[d], Idle)
<1>1. Idle \in TxType
  BY DEF Idle, TxType
<1>2. TxInv(Idle)
  BY NoVerdictAssumption DEF TxInv, Shape, Backed, Supported, LastTask, Idle, Final
<1>3. ASSUME NEW d \in Callers PROVE Exclusive(Idle, tx[d]) /\ Exclusive(tx[d], Idle)
  <2>1. ~Solo(Idle) /\ LocksOf(Idle) = {} /\ Idle.verdict = None /\ Idle.creates = {}
    BY NoVerdictAssumption DEF Solo, LocksOf, Idle, Final
  <2>2. QED
    BY <2>1 DEF Exclusive
<1>4. QED
  BY <1>1, <1>2, <1>3

LEMMA ApprovedSame ==
    ASSUME NEW t, NEW s, task'[t].node = task[t].node
    PROVE  Approved(t, s)' <=> Approved(t, s)
BY DEF Approved, Needed, Having

(* A step that only changes one transaction, to x.                          *)
LEMMA TxStep ==
    ASSUME IInv, NEW c \in Callers, NEW x \in TxType,
           tx' = [tx EXCEPT ![c] = x], UNCHANGED <<db, noted>>,
           TxInv(x), \A d \in Callers \ {c} : Exclusive(x, tx[d])
    PROVE  IInv'
<1>1. /\ tx'[c] = x
      /\ \A d \in Callers \ {c} : tx'[d] = tx[d]
  BY DEF IInv, TypeOK
<1>2. TypeOK'
  <2>1. tx' \in [Callers -> TxType]
    BY <1>1, TypeFacts DEF IInv, TypeOK, TxType
  <2>2. QED
    BY <2>1 DEF IInv, TypeOK, TxType, db
<1>3. DbInv'
  <2>1. \A t \in TaskIds : TaskInv(t)'
    BY DEF IInv, DbInv, TaskInv, db
  <2>2. \A w \in Workers : PassInv(w)'
    BY DEF IInv, DbInv, PassInv, Noticed, db
  <2>3. QuorumHonoured' /\ EndInv'
    BY DEF IInv, DbInv, QuorumHonoured, EndInv, Approved, Needed, Having, db
  <2>4. QED
    BY <2>1, <2>2, <2>3 DEF DbInv
<1>4. ASSUME NEW d \in Callers PROVE TxInv(tx[d])'
  <2>1. PICK y : y = tx'[d]
    OBVIOUS
  <2>2. TxInv(y)
    BY <1>1, <2>1 DEF IInv, AllTx
  <2>3. TxInv(y)'
    <3>1. Shape(y)' /\ Backed(y)' /\ LastTask(y)'
      BY <2>2 DEF TxInv, Shape, Backed, LastTask, db
    <3>2. Supported(y)'
      BY <2>2 DEF TxInv, Supported, Approved, Needed, Having, Voted, db
    <3>3. QED
      BY <3>1, <3>2 DEF TxInv
  <2>4. QED
    BY <2>1, <2>3
<1>5. ASSUME NEW d \in Callers, NEW e \in Callers, d # e PROVE Exclusive(tx[d], tx[e])'
  <2>1. Exclusive(tx'[d], tx'[e])
    BY <1>1, <1>5 DEF IInv, AllTx, Exclusive
  <2>2. QED
    BY <2>1 DEF Exclusive, LocksOf, Solo
<1>6. QED
  BY <1>2, <1>3, <1>4, <1>5 DEF IInv, AllTx

-----------------------------------------------------------------------------
(* Beginnings and ends of transactions *)

LEMMA BreakDeadlockKeeps ==
    ASSUME IInv, NEW c \in Callers, tx' = [tx EXCEPT ![c] = Idle], UNCHANGED <<db, noted>>
    PROVE  IInv'
BY IdleFacts, TxStep

(* What a transaction that begins must not meet: one that starts the        *)
(* instance or approves it.                                                 *)
LEMMA NobodySolo ==
    ASSUME IInv, NEW d \in Callers, instance = "pending"
    PROVE  /\ ~tx[d].starts
           /\ tx[d].verdict = "approved" =>
                \A t \in TaskIds : task[t].status = "pending" => t \in LocksOf(tx[d])
<1>1. ~tx[d].starts
  BY DEF IInv, AllTx, TxInv, Backed
<1>2. ASSUME tx[d].verdict = "approved", NEW t \in TaskIds, task[t].status = "pending"
      PROVE  t \in LocksOf(tx[d])
  BY <1>2, NoneAssumption DEF IInv, AllTx, TxInv, LastTask, LocksOf
<1>3. QED
  BY <1>1, <1>2

LEMMA CompleteKeeps ==
    ASSUME IInv, NEW c \in Callers, NEW t \in TaskIds, NEW u \in Users \cup {None},
           NEW v \in Verdicts, tx[c] = Idle, Free(t), Open(t), Complete(c, t, u, v),
           u # None => /\ seat[t][u] = "pending"
                       /\ v = "rejected" \/ Approved(t, Voted(t, u, "approved")),
           UNCHANGED <<db, noted>>
    PROVE  IInv'
<1> DEFINE node == Graph[task[t].node]
           next == IF v = "approved" THEN node.onApprove ELSE node.onReject
           x == [Idle EXCEPT !.phase = "walk", !.completes = t, !.by = u,
                             !.outcome = v, !.queue = <<<<next, task[t].branch>>>>]
<1>1. tx' = [tx EXCEPT ![c] = x]
  BY DEF Complete
<1>2. x \in TxType
  <2>1. task[t].node \in OfType("approval")
    BY DEF IInv, DbInv, TaskInv, Open
  <2>2. next \in Nodes
    BY <2>1, GraphAssumption
  <2>3. task[t].branch \in Branches
    BY DEF IInv, TypeOK
  <2>4. <<<<next, task[t].branch>>>> \in Seq(Nodes \X Branches)
    BY <2>2, <2>3
  <2>5. QED
    BY <2>4 DEF TxType, Idle
<1>3. TxInv(x)
  <2>1. Shape(x) /\ Backed(x)
    BY NoneAssumption DEF Shape, Backed, Idle, Open
  <2>2. Supported(x)
    BY DEF Supported, Idle, Open, Verdicts
  <2>3. LastTask(x)
    BY NoVerdictAssumption DEF LastTask, Idle, Final
  <2>4. QED
    BY <2>1, <2>2, <2>3 DEF TxInv
<1>4. ASSUME NEW d \in Callers \ {c} PROVE Exclusive(x, tx[d])
  <2>1. LocksOf(x) = {t} /\ t \notin LocksOf(tx[d])
    BY NoneAssumption DEF LocksOf, Idle, Free, Locks
  <2>2. ~Solo(x) /\ ~Solo(tx[d])
    BY <2>1, NobodySolo, NoVerdictAssumption DEF Solo, Idle, Open, Final
  <2>3. QED
    BY <2>1, <2>2 DEF Exclusive, Idle
<1> HIDE DEF x
<1>5. QED
  BY <1>1, <1>2, <1>3, <1>4, TxStep

LEMMA CancelKeeps ==
    ASSUME IInv, NEW c \in Callers, Cancel(c)
    PROVE  IInv'
<1> DEFINE x == [Idle EXCEPT !.phase = "close", !.verdict = "cancelled"]
<1>1. tx' = [tx EXCEPT ![c] = x] /\ UNCHANGED <<db, noted>> /\ instance = "pending"
  BY DEF Cancel
<1>2. x \in TxType
  BY IdleFacts DEF TxType, Final
<1>3. TxInv(x)
  BY <1>1, NoVerdictAssumption
     DEF TxInv, Shape, Backed, Supported, LastTask, Idle, Final
<1>4. ASSUME NEW d \in Callers \ {c} PROVE Exclusive(x, tx[d])
  <2>1. tx[d].verdict = None /\ LocksOf(x) = {} /\ ~Solo(x) /\ x.creates = {}
    BY DEF Cancel, InstanceFree, LocksOf, Solo, Idle
  <2>2. ~Solo(tx[d])
    BY <1>1, <2>1, NobodySolo, NoVerdictAssumption DEF Solo, Final
  <2>3. QED
    BY <2>1, <2>2 DEF Exclusive
<1> HIDE DEF x
<1>5. QED
  BY <1>1, <1>2, <1>3, <1>4, TxStep

LEMMA StartKeeps ==
    ASSUME IInv, NEW c \in Callers, Start(c)
    PROVE  IInv'
<1> DEFINE x == [Idle EXCEPT !.phase = "walk", !.starts = TRUE,
                             !.queue = <<<<StartNode, None>>>>]
<1>1. /\ tx' = [tx EXCEPT ![c] = x] /\ UNCHANGED <<db, noted>>
      /\ instance = "none" /\ \A d \in Callers : tx[d] = Idle
  BY DEF Start
<1>2. x \in TxType
  <2>1. <<<<StartNode, None>>>> \in Seq(Nodes \X Branches)
    BY GraphAssumption DEF Branches
  <2>2. QED
    BY <2>1, IdleFacts DEF TxType
<1>3. TxInv(x)
  BY <1>1, NoVerdictAssumption
     DEF TxInv, Shape, Backed, Supported, LastTask, Idle, Final
<1>4. ASSUME NEW d \in Callers \ {c} PROVE Exclusive(x, tx[d])
  <2>1. tx[d] = Idle /\ ~Solo(Idle)
    BY <1>1, NoVerdictAssumption DEF Solo, Idle, Final
  <2>2. LocksOf(x) = {} /\ x.verdict = None /\ x.creates = {}
    BY DEF LocksOf, Idle
  <2>3. QED
    BY <2>1, <2>2 DEF Exclusive
<1> HIDE DEF x
<1>5. QED
  BY <1>1, <1>2, <1>3, <1>4, TxStep

-----------------------------------------------------------------------------
(* The walk *)

LEMMA Walking ==
    ASSUME IInv, NEW c \in Callers, NEW type, AtNode(c, type)
    PROVE  /\ tx[c] \in TxType /\ tx[c].phase = "walk" /\ TxInv(tx[c]) /\ tx[c] # Idle
           /\ tx[c].verdict = None /\ tx[c].sweep = {} /\ tx[c].cancels = {}
           /\ Here(c) \in OfType(type) /\ Here(c) \in Nodes /\ Branch(c) \in Branches
           /\ \A entries \in Seq(Nodes \X Branches) :
                Tail(tx[c].queue) \o entries \in Seq(Nodes \X Branches)
           /\ \A d \in Callers \ {c} : Exclusive(tx[c], tx[d])
           /\ \A d \in Callers \ {c} : ~Solo(tx[d])
<1>1. tx[c] \in TxType /\ TxInv(tx[c]) /\ \A d \in Callers \ {c} : Exclusive(tx[c], tx[d])
  BY TypeFacts DEF IInv, AllTx
<1>2. tx[c].phase = "walk" /\ tx[c].queue # <<>> /\ Graph[Here(c)].type = type
  BY DEF AtNode, Here
<1>3. tx[c] # Idle
  BY <1>2 DEF Idle
<1>4. tx[c].queue \in Seq(Nodes \X Branches)
  BY <1>1 DEF TxType
<1>5. /\ Head(tx[c].queue) \in Nodes \X Branches
      /\ Tail(tx[c].queue) \in Seq(Nodes \X Branches)
  BY <1>2, <1>4
<1>6. Here(c) \in Nodes /\ Branch(c) \in Branches
  BY <1>5 DEF Here, Branch
<1>7. QED
  BY <1>1, <1>2, <1>3, <1>5, <1>6 DEF TxInv, Shape, Exclusive, OfType

LEMMA WalkTypes ==
    ASSUME NEW y \in TxType, NEW q \in Seq(Nodes \X Branches),
           NEW a \in SUBSET (OfType("join") \X Nodes)
    PROVE  /\ [y EXCEPT !.queue = q] \in TxType
           /\ [y EXCEPT !.queue = q, !.arrives = a] \in TxType
BY DEF TxType

(* A step of the walk that touches nothing but the queue and the arrivals.  *)
LEMMA WalkOn ==
    ASSUME IInv, NEW c \in Callers, NEW type, AtNode(c, type), NEW x \in TxType,
           x.phase = "walk", x.starts = tx[c].starts, x.completes = tx[c].completes,
           x.by = tx[c].by, x.outcome = tx[c].outcome, x.creates = tx[c].creates,
           x.verdict = None, x.sweep = {}, x.cancels = {},
           tx' = [tx EXCEPT ![c] = x], UNCHANGED <<db, noted>>
    PROVE  IInv'
<1>1. Shape(x) /\ Backed(x)
  BY Walking DEF TxInv, Shape, Backed
<1>2. Supported(x)
  BY Walking DEF TxInv, Supported
<1>3. LastTask(x)
  BY NoVerdictAssumption DEF LastTask, Final
<1>4. ASSUME NEW d \in Callers \ {c} PROVE Exclusive(x, tx[d])
  <2>1. LocksOf(x) = LocksOf(tx[c]) /\ (Solo(x) <=> Solo(tx[c])) /\ ~Solo(tx[d])
    BY Walking DEF LocksOf, Solo
  <2>2. QED
    BY <2>1, Walking DEF Exclusive
<1>5. QED
  BY <1>1, <1>2, <1>3, <1>4, TxStep DEF TxInv

LEMMA RoutingKeeps ==
    ASSUME IInv, NEW c \in Callers, NEW type, AtNode(c, type),
           NEW entries \in Seq(Nodes \X Branches),
           tx' = [tx EXCEPT ![c] = Walk(c, entries)], UNCHANGED <<db, noted>>
    PROVE  IInv'
<1>1. Walk(c, entries) = [tx[c] EXCEPT !.queue = Tail(tx[c].queue) \o entries]
  BY DEF Walk
<1>2. Walk(c, entries) \in TxType
  <2>1. Tail(tx[c].queue) \o entries \in Seq(Nodes \X Branches) /\ tx[c] \in TxType
    BY Walking
  <2>2. {} \in SUBSET (OfType("join") \X Nodes)
    OBVIOUS
  <2>3. QED
    BY <1>1, <2>1, <2>2, WalkTypes
<1>3. QED
  BY <1>1, <1>2, Walking, WalkOn DEF TxType

LEMMA EvaluateConditionKeeps ==
    ASSUME IInv, NEW c \in Callers, EvaluateCondition(c)
    PROVE  IInv'
<1>1. PICK next \in {Graph[Here(c)].onTrue, Graph[Here(c)].onFalse} :
          tx' = [tx EXCEPT ![c] = Walk(c, <<<<next, Branch(c)>>>>)]
  BY DEF EvaluateCondition
<1>2. AtNode(c, "condition") /\ UNCHANGED <<db, noted>>
  BY DEF EvaluateCondition
<1>3. next \in Nodes /\ Branch(c) \in Branches
  BY <1>2, Walking, GraphAssumption
<1>4. <<<<next, Branch(c)>>>> \in Seq(Nodes \X Branches)
  BY <1>3
<1>5. QED
  BY <1>1, <1>2, <1>4, RoutingKeeps

LEMMA FanOutKeeps ==
    ASSUME IInv, NEW c \in Callers, FanOut(c)
    PROVE  IInv'
<1> DEFINE branches == Graph[Here(c)].branches
           entries == [i \in DOMAIN branches |-> <<branches[i], branches[i]>>]
<1>1. /\ AtNode(c, "parallel") /\ UNCHANGED <<db, noted>>
      /\ tx' = [tx EXCEPT ![c] = Walk(c, entries)]
  BY DEF FanOut
<1>2. branches \in Seq(Nodes)
  BY <1>1, Walking, GraphAssumption
<1>3. entries \in Seq(Nodes \X Branches)
  BY <1>2 DEF Branches
<1> HIDE DEF entries
<1>4. QED
  BY <1>1, <1>3, RoutingKeeps

LEMMA NotifyKeeps ==
    ASSUME IInv, NEW c \in Callers, Notify(c)
    PROVE  IInv'
<1>1. /\ AtNode(c, "notify") /\ UNCHANGED <<db, noted>>
      /\ tx' = [tx EXCEPT ![c] = Walk(c, <<<<Graph[Here(c)].next, Branch(c)>>>>)]
  BY DEF Notify
<1>2. Graph[Here(c)].next \in Nodes /\ Branch(c) \in Branches
  BY <1>1, Walking, GraphAssumption
<1>3. <<<<Graph[Here(c)].next, Branch(c)>>>> \in Seq(Nodes \X Branches)
  BY <1>2
<1>4. QED
  BY <1>1, <1>3, RoutingKeeps

LEMMA JoinKeeps ==
    ASSUME IInv, NEW c \in Callers, Join(c)
    PROVE  IInv'
<1> DEFINE entries == IF AllArrived(Here(c), Arrivals(c))
                      THEN <<<<Graph[Here(c)].next, None>>>> ELSE <<>>
           x == [Walk(c, entries) EXCEPT !.arrives = Arrivals(c) \ arrived]
<1>1. AtNode(c, "join") /\ UNCHANGED <<db, noted>> /\ tx' = [tx EXCEPT ![c] = x]
  BY DEF Join
<1>2. entries \in Seq(Nodes \X Branches)
  <2>1. <<Graph[Here(c)].next, None>> \in Nodes \X Branches
    BY <1>1, Walking, GraphAssumption DEF Branches
  <2>2. <<<<Graph[Here(c)].next, None>>>> \in Seq(Nodes \X Branches)
    BY <2>1
  <2>3. <<>> \in Seq(Nodes \X Branches)
    OBVIOUS
  <2>4. CASE AllArrived(Here(c), Arrivals(c))
    BY <2>2, <2>4
  <2>5. CASE ~AllArrived(Here(c), Arrivals(c))
    BY <2>3, <2>5
  <2>6. QED
    BY <2>4, <2>5
<1>3. Arrivals(c) \ arrived \in SUBSET (OfType("join") \X Nodes)
  BY <1>1, Walking DEF Arrivals, TxType, Branches
<1> HIDE DEF entries
<1>4. x = [tx[c] EXCEPT !.queue = Tail(tx[c].queue) \o entries, !.arrives = Arrivals(c) \ arrived]
  BY DEF Walk
<1>5. x \in TxType
  <2>1. Tail(tx[c].queue) \o entries \in Seq(Nodes \X Branches) /\ tx[c] \in TxType
    BY <1>1, <1>2, Walking
  <2>2. QED
    BY <1>3, <1>4, <2>1, WalkTypes
<1>6. /\ x.phase = "walk" /\ x.starts = tx[c].starts /\ x.completes = tx[c].completes
      /\ x.by = tx[c].by /\ x.outcome = tx[c].outcome /\ x.creates = tx[c].creates
      /\ x.verdict = None /\ x.sweep = {} /\ x.cancels = {}
  BY <1>1, <1>4, Walking DEF TxType
<1> HIDE DEF x
<1>7. QED
  BY <1>1, <1>5, <1>6, WalkOn

LEMMA CreateTaskKeeps ==
    ASSUME IInv, NEW c \in Callers, CreateTask(c)
    PROVE  IInv'
<1> DEFINE id == CHOOSE t \in Unused : TRUE
           new == [id |-> id, node |-> Here(c), branch |-> Branch(c)]
           x == [Walk(c, <<>>) EXCEPT !.creates = @ \cup {new}]
<1>1. AtNode(c, "approval") /\ UNCHANGED <<db, noted>> /\ tx' = [tx EXCEPT ![c] = x]
  BY DEF CreateTask
<1>2. id \in Unused
  BY DEF CreateTask
<1>3. /\ id \in TaskIds /\ task[id].status = "unused"
      /\ \A d \in Callers : \A n \in tx[d].creates : n.id # id
  BY <1>2 DEF Unused
<1> HIDE DEF id
<1>4. new \in NewTask /\ new.id = id
  BY <1>1, <1>3, Walking DEF NewTask
<1> HIDE DEF new
<1>5. x = [tx[c] EXCEPT !.queue = Tail(tx[c].queue) \o <<>>, !.creates = tx[c].creates \cup {new}]
  BY <1>1, Walking DEF Walk, TxType
<1>6. Tail(tx[c].queue) \o <<>> \in Seq(Nodes \X Branches)
  <2>1. <<>> \in Seq(Nodes \X Branches)
    OBVIOUS
  <2>2. QED
    BY <1>1, <2>1, Walking
<1>7. x \in TxType
  <2>1. PICK q \in Seq(Nodes \X Branches) : q = Tail(tx[c].queue) \o <<>>
    BY <1>6
  <2>2. [tx[c] EXCEPT !.queue = q, !.creates = tx[c].creates \cup {new}] \in TxType
    BY <1>1, <1>4, Walking DEF TxType
  <2>3. QED
    BY <1>5, <2>1, <2>2
<1>8. /\ x.phase = "walk" /\ x.starts = tx[c].starts /\ x.completes = tx[c].completes
      /\ x.by = tx[c].by /\ x.outcome = tx[c].outcome /\ x.creates = tx[c].creates \cup {new}
      /\ x.verdict = None /\ x.sweep = {} /\ x.cancels = {}
  BY <1>1, <1>5, Walking DEF TxType
<1> HIDE DEF x
<1>9. Shape(x) /\ Backed(x)
  BY <1>1, <1>3, <1>4, <1>8, Walking DEF TxInv, Shape, Backed
<1>10. Supported(x) /\ LastTask(x)
  BY <1>1, <1>8, Walking, NoVerdictAssumption DEF TxInv, Supported, LastTask, Final
<1>11. ASSUME NEW d \in Callers \ {c} PROVE Exclusive(x, tx[d])
  <2>1. LocksOf(x) = LocksOf(tx[c]) /\ (Solo(x) <=> Solo(tx[c])) /\ ~Solo(tx[d])
    BY <1>1, <1>8, Walking DEF LocksOf, Solo
  <2>2. QED
    BY <1>1, <1>3, <1>4, <1>8, <2>1, Walking DEF Exclusive
<1>12. QED
  BY <1>1, <1>7, <1>9, <1>10, <1>11, TxStep DEF TxInv

LEMMA FinishKeeps ==
    ASSUME IInv, NEW c \in Callers, Finish(c)
    PROVE  IInv'
<1> DEFINE outcome == Graph[Here(c)].outcome
           allowed == /\ instance = "pending" \/ tx[c].starts
                      /\ outcome = "approved" => SeenPending(c) = {}
           x == [tx[c] EXCEPT !.phase = "close", !.queue = <<>>, !.verdict = outcome]
<1>1. /\ AtNode(c, "end") /\ InstanceFree /\ UNCHANGED <<db, noted>>
      /\ tx' = [tx EXCEPT ![c] = IF allowed THEN x ELSE Idle]
  BY DEF Finish
<1>2. CASE ~allowed
  BY <1>1, <1>2, BreakDeadlockKeeps
<1>3. CASE allowed
  <2>1. outcome \in {"approved", "rejected"}
    BY <1>1, Walking, GraphAssumption
  <2>2. x \in TxType
    <3>1. <<>> \in Seq(Nodes \X Branches)
      OBVIOUS
    <3>2. QED
      BY <1>1, <2>1, <3>1, Walking DEF TxType, Final
  <2>3. /\ x.phase = "close" /\ x.starts = tx[c].starts /\ x.completes = tx[c].completes
        /\ x.by = tx[c].by /\ x.outcome = tx[c].outcome /\ x.creates = tx[c].creates
        /\ x.verdict = outcome /\ x.sweep = {} /\ x.cancels = {}
    BY <1>1, Walking DEF TxType
  <2>4. outcome # None
    BY <2>1, NoVerdictAssumption DEF Final
  <2>5. outcome = "approved" =>
          /\ tx[c].creates = {}
          /\ \A t \in TaskIds : task[t].status = "pending" => t = tx[c].completes
    <3>1. SUFFICES ASSUME outcome = "approved"
                   PROVE  /\ tx[c].creates = {}
                          /\ \A t \in TaskIds : task[t].status = "pending" => t = tx[c].completes
      OBVIOUS
    <3>2. SeenPending(c) = {} /\ tx[c].cancels = {}
      BY <1>1, <1>3, <3>1, Walking
    <3>3. \A t \in TaskIds : task[t].status = "pending" => t = tx[c].completes
      BY <3>2 DEF SeenPending, Locks
    <3>4. ASSUME NEW n \in tx[c].creates PROVE FALSE
      <4>1. task[n.id].status = "unused"
        BY <1>1, Walking DEF TxInv, Backed
      <4>2. tx[c].completes # None /\ n.id = tx[c].completes
        BY <3>2 DEF SeenPending, Created, Locks
      <4>3. task[tx[c].completes].status = "pending"
        BY <1>1, <4>2, Walking DEF TxInv, Supported
      <4>4. QED
        BY <4>1, <4>2, <4>3
    <3>5. QED
      BY <3>3, <3>4
  <2>6. outcome = "approved" => \A d \in Callers \ {c} : tx[d] = Idle
    <3>1. SUFFICES ASSUME outcome = "approved", NEW d \in Callers \ {c}
                   PROVE  tx[d] = Idle
      OBVIOUS
    <3>2. /\ tx[d] \in TxType /\ TxInv(tx[d]) /\ tx[d].verdict = None /\ ~Solo(tx[d])
          /\ Exclusive(tx[c], tx[d])
      BY <1>1, TypeFacts, Walking DEF IInv, AllTx, InstanceFree
    <3>3. tx[d].completes = None
      <4>1. SUFFICES ASSUME tx[d].completes # None PROVE FALSE
        OBVIOUS
      <4>2. tx[d].completes \in TaskIds /\ task[tx[d].completes].status = "pending"
        BY <3>2, <4>1 DEF TxInv, Supported, TxType
      <4>3. tx[d].completes = tx[c].completes
        BY <2>5, <3>1, <4>2
      <4>4. tx[d].completes \in LocksOf(tx[c]) \cap LocksOf(tx[d])
        BY <4>1, <4>3 DEF LocksOf
      <4>5. QED
        BY <3>2, <4>4 DEF Exclusive
    <3>4. QED
      BY <3>2, <3>3 DEF TxInv, Shape, Solo, TxType
  <2> HIDE DEF x, outcome
  <2>7. Shape(x) /\ Backed(x)
    <3>1. instance # "approved"
      BY <1>1, Walking DEF TxInv, Backed
    <3>2. QED
      BY <1>1, <1>3, <2>3, <2>4, <3>1, Walking DEF TxInv, Shape, Backed
  <2>8. Supported(x)
    BY <1>1, <2>3, Walking DEF TxInv, Supported
  <2>9. LastTask(x)
    BY <2>3, <2>5 DEF LastTask
  <2>10. ASSUME NEW d \in Callers \ {c} PROVE Exclusive(x, tx[d])
    <3>1. LocksOf(x) = LocksOf(tx[c]) /\ ~Solo(tx[d]) /\ tx[d].verdict = None
      BY <1>1, <2>3, Walking DEF LocksOf, InstanceFree
    <3>2. Solo(x) => tx[d] = Idle
      BY <1>1, <2>3, <2>6, Walking DEF Solo, Exclusive
    <3>3. QED
      BY <1>1, <2>3, <3>1, <3>2, Walking DEF Exclusive
  <2>11. tx' = [tx EXCEPT ![c] = x]
    BY <1>1, <1>3
  <2>12. QED
    BY <1>1, <2>2, <2>7, <2>8, <2>9, <2>10, <2>11, TxStep DEF TxInv
<1>4. QED
  BY <1>2, <1>3

-----------------------------------------------------------------------------
(* The cancellation of an ending instance's tasks *)

LEMMA Closing ==
    ASSUME IInv, NEW c \in Callers, tx[c].phase \in {"close", "sweep"}
    PROVE  /\ tx[c] \in TxType /\ TxInv(tx[c]) /\ tx[c] # Idle /\ tx[c].verdict # None
           /\ instance # "approved"
           /\ \A d \in Callers \ {c} : Exclusive(tx[c], tx[d])
           /\ \A d \in Callers \ {c} : ~Solo(tx[d]) /\ tx[d].verdict = None
<1>1. tx[c] \in TxType /\ TxInv(tx[c]) /\ \A d \in Callers \ {c} : Exclusive(tx[c], tx[d])
  BY TypeFacts DEF IInv, AllTx
<1>2. tx[c] # Idle
  BY DEF Idle
<1>3. QED
  BY <1>1, <1>2 DEF TxInv, Shape, Backed, Exclusive

LEMMA BeginSweepKeeps ==
    ASSUME IInv, NEW c \in Callers, BeginSweep(c)
    PROVE  IInv'
<1> DEFINE x == [tx[c] EXCEPT !.phase = "sweep", !.sweep = SeenPending(c)]
<1>1. tx[c].phase = "close" /\ UNCHANGED <<db, noted>>
  BY DEF BeginSweep
<1>2. tx' = [tx EXCEPT ![c] = x]
  BY DEF BeginSweep, IInv, TypeOK
<1>3. SeenPending(c) \subseteq TaskIds
  BY <1>1, Closing DEF SeenPending, Created, TxType, NewTask
<1>4. x \in TxType
  BY <1>1, <1>3, Closing DEF TxType
<1>5. /\ x.phase = "sweep" /\ x.starts = tx[c].starts /\ x.completes = tx[c].completes
      /\ x.by = tx[c].by /\ x.outcome = tx[c].outcome /\ x.creates = tx[c].creates
      /\ x.verdict = tx[c].verdict /\ x.sweep = SeenPending(c) /\ x.cancels = tx[c].cancels
  BY <1>1, Closing DEF TxType
<1> HIDE DEF x
<1>6. Shape(x) /\ Backed(x)
  BY <1>1, <1>5, Closing DEF TxInv, Shape, Backed
<1>7. Supported(x)
  BY <1>1, <1>5, Closing DEF TxInv, Supported, SeenPending, Locks
<1>8. LastTask(x)
  <2>1. SUFFICES ASSUME tx[c].verdict = "approved" PROVE SeenPending(c) = {}
    BY <1>1, <1>5, Closing DEF TxInv, LastTask
  <2>2. /\ tx[c].creates = {}
        /\ \A t \in TaskIds : task[t].status = "pending" => t = tx[c].completes
    BY <1>1, <2>1, Closing DEF TxInv, LastTask
  <2>3. Created(c) = {}
    BY <2>2 DEF Created
  <2>4. QED
    BY <2>2, <2>3, NoneAssumption DEF SeenPending, Locks
<1>9. ASSUME NEW d \in Callers \ {c} PROVE Exclusive(x, tx[d])
  <2>1. LocksOf(x) = LocksOf(tx[c]) /\ (Solo(x) <=> Solo(tx[c])) /\ ~Solo(tx[d])
    BY <1>1, <1>5, Closing DEF LocksOf, Solo
  <2>2. QED
    BY <1>1, <1>5, <2>1, Closing DEF Exclusive
<1>10. QED
  BY <1>1, <1>2, <1>4, <1>6, <1>7, <1>8, <1>9, TxStep DEF TxInv

LEMMA SweepTypes ==
    ASSUME NEW y \in TxType, NEW S \in SUBSET TaskIds, NEW C \in SUBSET TaskIds
    PROVE  [y EXCEPT !.sweep = S, !.cancels = C] \in TxType
BY DEF TxType

LEMMA SweepTaskKeeps ==
    ASSUME IInv, NEW c \in Callers, NEW t \in TaskIds, SweepTask(c, t)
    PROVE  IInv'
<1> DEFINE more == IF task[t].status = "pending" \/ t \in Created(c)
                   THEN tx[c].cancels \cup {t} ELSE tx[c].cancels
           x == [tx[c] EXCEPT !.sweep = tx[c].sweep \ {t}, !.cancels = more]
<1>1. tx[c].phase = "sweep" /\ t \in tx[c].sweep /\ FreeFor(c, t) /\ UNCHANGED <<db, noted>>
  BY DEF SweepTask
<1>2. tx' = [tx EXCEPT ![c] = x]
  BY DEF SweepTask, IInv, TypeOK
<1>3. /\ more \subseteq tx[c].cancels \cup {t} /\ more \subseteq TaskIds
      /\ \A s \in more \ tx[c].cancels : task[s].status = "pending" \/ s \in Created(c)
  BY <1>1, Closing DEF TxType
<1> HIDE DEF more
<1>4. x \in TxType
  <2>1. tx[c].sweep \ {t} \in SUBSET TaskIds
    BY <1>1, Closing DEF TxType
  <2>2. QED
    BY <1>1, <1>3, <2>1, Closing, SweepTypes
<1>5. /\ x.phase = "sweep" /\ x.starts = tx[c].starts /\ x.completes = tx[c].completes
      /\ x.by = tx[c].by /\ x.outcome = tx[c].outcome /\ x.creates = tx[c].creates
      /\ x.verdict = tx[c].verdict /\ x.sweep = tx[c].sweep \ {t} /\ x.cancels = more
  BY <1>1, Closing DEF TxType
<1> HIDE DEF x
<1>6. Shape(x) /\ Backed(x)
  BY <1>1, <1>3, <1>5, Closing DEF TxInv, Shape, Backed, Created
<1>7. Supported(x)
  BY <1>1, <1>3, <1>5, Closing DEF TxInv, Supported
<1>8. LastTask(x)
  BY <1>1, <1>5, Closing DEF TxInv, LastTask
<1>9. ASSUME NEW d \in Callers \ {c} PROVE Exclusive(x, tx[d])
  <2>1. t \notin LocksOf(tx[d])
    BY <1>1 DEF FreeFor, LocksOf, Locks
  <2>2. LocksOf(x) \cap LocksOf(tx[d]) = {}
    BY <1>1, <1>3, <1>5, <2>1, Closing DEF LocksOf, Exclusive
  <2>3. (Solo(x) <=> Solo(tx[c])) /\ ~Solo(tx[d])
    BY <1>1, <1>5, Closing DEF Solo
  <2>4. QED
    BY <1>1, <1>5, <2>2, <2>3, Closing DEF Exclusive
<1>10. QED
  BY <1>1, <1>2, <1>4, <1>6, <1>7, <1>8, <1>9, TxStep DEF TxInv

-----------------------------------------------------------------------------
(* Votes, reassignment and escalation: no transaction changes, and the seats *)
(* of a task somebody has locked stay as they are.                           *)

Honoured(t) == Having(seat[t], "rejected") # {} \/ Approved(t, seat[t])

LEMMA SeatStep ==
    ASSUME IInv, UNCHANGED <<instance, task, overridden, arrived, tx>>,
           \A c \in Callers : tx[c].completes # None =>
               seat'[tx[c].completes] = seat[tx[c].completes],
           \A t \in TaskIds : task[t].status = "completed" => seat'[t] = seat[t]
    PROVE  AllTx' /\ QuorumHonoured' /\ EndInv'
<1>1. ASSUME NEW c \in Callers PROVE TxInv(tx[c])'
  <2>1. PICK y : y = tx[c]
    OBVIOUS
  <2>2. TxInv(y) /\ (y.completes # None => seat'[y.completes] = seat[y.completes])
    BY <2>1 DEF IInv, AllTx
  <2>3. Shape(y)' /\ Backed(y)' /\ LastTask(y)'
    BY <2>2 DEF TxInv, Shape, Backed, LastTask
  <2>4. Supported(y)'
    BY <2>2 DEF TxInv, Supported, Approved, Needed, Having, Voted
  <2>5. QED
    BY <2>1, <2>3, <2>4 DEF TxInv
<1>2. AllTx'
  BY <1>1 DEF IInv, AllTx, Exclusive, Solo, LocksOf
<1>3. QuorumHonoured'
  <2>1. ASSUME NEW t \in TaskIds, t \notin overridden, task[t].status = "completed"
        PROVE  Honoured(t)'
    <3>1. PICK s : s = seat[t]
      OBVIOUS
    <3>2. Having(s, "rejected") # {} \/ Approved(t, s)
      BY <2>1, <3>1 DEF IInv, DbInv, QuorumHonoured
    <3>3. s = seat'[t] /\ (Approved(t, s)' <=> Approved(t, s))
      BY <2>1, <3>1, ApprovedSame
    <3>4. QED
      BY <3>2, <3>3 DEF Honoured, Having
  <2>2. QED
    BY <2>1 DEF QuorumHonoured, Honoured
<1>4. EndInv'
  BY DEF IInv, DbInv, EndInv
<1>5. QED
  BY <1>2, <1>3, <1>4

LEMMA FreeFacts ==
    ASSUME IInv, NEW t, Free(t), NEW c \in Callers, tx[c].completes # None
    PROVE  tx[c].completes # t
BY DEF Free, Locks

LEMMA VoteKeeps ==
    ASSUME IInv, NEW t \in TaskIds, NEW u \in Users, Vote(t, u)
    PROVE  IInv'
<1>1. /\ Free(t) /\ task[t].status = "pending"
      /\ seat' = [seat EXCEPT ![t] = Voted(t, u, "approved")]
      /\ UNCHANGED <<instance, task, overridden, arrived, late, tx, noted>>
  BY DEF Vote, Open
<1>2. TypeOK'
  BY <1>1 DEF IInv, TypeOK, Voted, Verdicts
<1>3. AllTx' /\ QuorumHonoured' /\ EndInv'
  BY <1>1, FreeFacts, SeatStep DEF IInv, TypeOK
<1>4. (\A s \in TaskIds : TaskInv(s)') /\ (\A w \in Workers : PassInv(w)')
  BY <1>1 DEF IInv, DbInv, TaskInv, PassInv, Noticed
<1>5. QED
  BY <1>2, <1>3, <1>4 DEF IInv, DbInv

LEMMA ReassignKeeps ==
    ASSUME IInv, NEW t \in TaskIds, NEW u \in Users, Reassign(t, u)
    PROVE  IInv'
<1> DEFINE new == [x \in Users |-> IF x = u THEN "pending"
                     ELSE IF seat[t][x] = "pending" THEN "none" ELSE seat[t][x]]
<1>1. /\ Free(t) /\ task[t].status = "pending" /\ seat' = [seat EXCEPT ![t] = new]
      /\ UNCHANGED <<instance, task, overridden, arrived, late, tx, noted>>
  BY DEF Reassign
<1>2. new \in [Users -> {"none", "pending"} \cup Verdicts]
  BY DEF IInv, TypeOK
<1> HIDE DEF new
<1>3. TypeOK'
  BY <1>1, <1>2 DEF IInv, TypeOK
<1>4. AllTx' /\ QuorumHonoured' /\ EndInv'
  BY <1>1, FreeFacts, SeatStep DEF IInv, TypeOK
<1>5. (\A s \in TaskIds : TaskInv(s)') /\ (\A w \in Workers : PassInv(w)')
  BY <1>1 DEF IInv, DbInv, TaskInv, PassInv, Noticed
<1>6. QED
  BY <1>3, <1>4, <1>5 DEF IInv, DbInv

LateType == [step : Nat, due : BOOLEAN, armed : BOOLEAN, overdue : Nat, escalated : Nat]

LEMMA LateFields ==
    ASSUME NEW l \in LateType
    PROVE  /\ l.step \in Nat /\ l.overdue \in Nat /\ l.escalated \in Nat
           /\ l.due \in BOOLEAN /\ l.armed \in BOOLEAN
BY DEF LateType

LEMMA LateTypes ==
    ASSUME NEW l \in LateType, NEW step \in Nat, NEW due \in BOOLEAN, NEW armed \in BOOLEAN,
           NEW overdue \in Nat, NEW escalated \in Nat
    PROVE  /\ [l EXCEPT !.due = due, !.overdue = overdue] \in LateType
           /\ [l EXCEPT !.step = step, !.due = due, !.armed = armed, !.escalated = escalated]
                \in LateType
BY DEF LateType

LEMMA DueFacts ==
    ASSUME NEW l \in LateType, NEW m, m = [l EXCEPT !.due = TRUE, !.overdue = l.overdue + 1]
    PROVE  /\ m \in LateType
           /\ m.due /\ m.armed = l.armed /\ m.step = l.step
           /\ m.overdue = l.overdue + 1 /\ m.escalated = l.escalated
<1>1. l.overdue + 1 \in Nat
  BY LateFields
<1>2. m \in LateType
  BY <1>1, LateTypes
<1>3. /\ m.due /\ m.armed = l.armed /\ m.step = l.step
      /\ m.overdue = l.overdue + 1 /\ m.escalated = l.escalated
  BY DEF LateType
<1>4. QED
  BY <1>2, <1>3

(* TaskInv of one task, its escalation record being m.                      *)
LEMMA LateStep ==
    ASSUME IInv, NEW t \in TaskIds, NEW m \in LateType, late'[t] = m,
           UNCHANGED <<instance, task>>, task[t].status = "pending",
           m.armed => /\ Graph[task[t].node].escalateTo \in Users
                      /\ m.step < Graph[task[t].node].maxEscalations,
           m.due => m.armed,
           m.escalated + (IF m.due THEN 1 ELSE 0) <= m.overdue
    PROVE  TaskInv(t)'
BY DEF IInv, DbInv, TaskInv

LEMMA FallDueKeeps ==
    ASSUME IInv, NEW t \in TaskIds, FallDue(t)
    PROVE  IInv'
<1>1. /\ task[t].status = "pending" /\ late[t].armed /\ ~late[t].due
      /\ UNCHANGED <<instance, task, seat, overridden, arrived, tx, noted>>
  BY DEF FallDue
<1>2. PICK l : l = late[t]
  OBVIOUS
<1>3. PICK m : m = [l EXCEPT !.due = TRUE, !.overdue = l.overdue + 1]
  OBVIOUS
<1>4. late' = [late EXCEPT ![t] = m]
  BY <1>2, <1>3 DEF FallDue
<1>5. l \in LateType
  BY <1>2 DEF IInv, TypeOK, LateType
<1>6. /\ m \in LateType /\ m.due /\ m.armed = l.armed /\ m.step = l.step
      /\ m.overdue = l.overdue + 1 /\ m.escalated = l.escalated
  BY <1>3, <1>5, DueFacts
<1>7. TypeOK'
  BY <1>1, <1>2, <1>4, <1>6 DEF IInv, TypeOK, LateType
<1>8. AllTx' /\ QuorumHonoured' /\ EndInv'
  BY <1>1, SeatStep
<1>9. TaskInv(t)'
  <2>1. late'[t] = m
    BY <1>4 DEF IInv, TypeOK
  <2>2. /\ Graph[task[t].node].escalateTo \in Users
        /\ l.step < Graph[task[t].node].maxEscalations
    BY <1>1, <1>2 DEF IInv, DbInv, TaskInv
  <2>3. m.escalated + 1 <= m.overdue
    <3>1. l.escalated + (IF l.due THEN 1 ELSE 0) <= l.overdue
      BY <1>2 DEF IInv, DbInv, TaskInv
    <3>2. l.escalated + 0 <= l.overdue
      BY <1>1, <1>2, <3>1
    <3>3. QED
      BY <1>5, <1>6, <3>2, LateFields
  <2>4. QED
    BY <1>1, <1>2, <1>6, <2>1, <2>2, <2>3, LateStep
<1>10. ASSUME NEW s \in TaskIds, s # t PROVE TaskInv(s)'
  BY <1>1, <1>4, <1>10 DEF IInv, DbInv, TaskInv, TypeOK
<1>11. ASSUME NEW w \in Workers PROVE PassInv(w)'
  BY <1>1, <1>2, <1>4, <1>6 DEF IInv, DbInv, PassInv, Noticed, TypeOK
<1>12. QED
  BY <1>7, <1>8, <1>9, <1>10, <1>11 DEF IInv, DbInv

LEMMA ReadLateKeeps ==
    ASSUME IInv, NEW w \in Workers, NEW t \in TaskIds, ReadLate(w, t)
    PROVE  IInv'
<1>1. /\ task[t].status = "pending" /\ late[t].due
      /\ noted' = [noted EXCEPT ![w] = <<t, late[t].step>>]
      /\ UNCHANGED <<instance, task, seat, overridden, arrived, late, tx>>
  BY DEF ReadLate, db
<1>2. late[t].step \in Nat
  BY DEF IInv, TypeOK
<1>3. TypeOK'
  BY <1>1, <1>2 DEF IInv, TypeOK
<1>4. AllTx' /\ QuorumHonoured' /\ EndInv'
  BY <1>1, SeatStep
<1>5. \A s \in TaskIds : TaskInv(s)'
  BY <1>1 DEF IInv, DbInv, TaskInv
<1>6. ASSUME NEW v \in Workers PROVE PassInv(v)'
  <2>1. CASE v = w
    BY <1>1, <1>2, <2>1 DEF IInv, PassInv, Noticed, TypeOK
  <2>2. CASE v # w
    BY <1>1, <2>2 DEF IInv, DbInv, PassInv, Noticed, TypeOK
  <2>3. QED
    BY <2>1, <2>2
<1>7. QED
  BY <1>3, <1>4, <1>5, <1>6 DEF IInv, DbInv

LEMMA EscalateKeeps ==
    ASSUME IInv, NEW w \in Workers, Escalate(w)
    PROVE  IInv'
<1>1. PICK t \in TaskIds, step \in Nat : noted[w] = <<t, step>>
  <2>1. noted[w] \in TaskIds \X Nat
    BY DEF Escalate, IInv, TypeOK
  <2>2. QED
    BY <2>1
<1> DEFINE node == Graph[task[t].node]
<1>2. /\ Free(t) /\ Noticed(t, step)
      /\ noted' = [noted EXCEPT ![w] = None]
      /\ UNCHANGED <<instance, task, overridden, arrived, tx>>
  BY <1>1 DEF Escalate, IInv, DbInv, PassInv
<1>3. ASSUME NEW v \in Workers, noted'[v] # None PROVE noted'[v] = noted[v]
  BY <1>2, <1>3 DEF IInv, TypeOK
<1>4. noted' \in [Workers -> {None} \cup (TaskIds \X Nat)]
  BY <1>2 DEF IInv, TypeOK
<1>5. CASE ~UnchangedSince(t, step)
  <2>1. UNCHANGED <<late, seat>>
    BY <1>1, <1>5 DEF Escalate
  <2>2. TypeOK'
    BY <1>2, <1>4, <2>1 DEF IInv, TypeOK
  <2>3. AllTx' /\ QuorumHonoured' /\ EndInv'
    BY <1>2, <2>1, SeatStep
  <2>4. \A s \in TaskIds : TaskInv(s)'
    BY <1>2, <2>1 DEF IInv, DbInv, TaskInv
  <2>5. ASSUME NEW v \in Workers PROVE PassInv(v)'
    BY <1>2, <1>3, <2>1 DEF IInv, DbInv, PassInv, Noticed
  <2>6. QED
    BY <2>2, <2>3, <2>4, <2>5 DEF IInv, DbInv
<1>6. CASE UnchangedSince(t, step)
  <2>1. /\ task[t].status = "pending" /\ late[t].step = step /\ late[t].due /\ late[t].armed
        /\ task[t].node \in OfType("approval") /\ node.escalateTo \in Users
        /\ step < node.maxEscalations /\ node.maxEscalations \in Nat
    BY <1>2, <1>6, GraphAssumption DEF UnchangedSince, Noticed, IInv, DbInv, TaskInv
  <2>2. PICK l : l = late[t]
    OBVIOUS
  <2>3. l \in LateType
    BY <2>2 DEF IInv, TypeOK, LateType
  <2>4. PICK new : new = Escalated(l, step, node)
    OBVIOUS
  <2>5. late' = [late EXCEPT ![t] = new]
    BY <1>1, <1>6, <2>2, <2>4 DEF Escalate
  <2>6. seat' = [seat EXCEPT ![t][node.escalateTo] = IF @ = "none" THEN "pending" ELSE @]
    BY <1>1, <1>6 DEF Escalate
  <2>7. /\ new \in LateType /\ ~new.due /\ new.step = step + 1
        /\ new.armed => step + 1 < node.maxEscalations
        /\ new.overdue = l.overdue /\ new.escalated = l.escalated + 1
    <3>1. l.escalated + 1 \in Nat /\ step + 1 \in Nat
      BY <2>3, LateFields
    <3>2. MoreToCome(node, step) \in BOOLEAN
      BY SMT DEF MoreToCome
    <3>3. new \in LateType
      BY <2>3, <2>4, <3>1, <3>2, LateTypes, Zenon DEF Escalated
    <3>4. ~new.due /\ new.step = step + 1
      BY <2>3, <2>4 DEF LateType, Escalated
    <3>5. new.armed => step + 1 < node.maxEscalations
      <4>1. new.armed = MoreToCome(node, step)
        BY <2>3, <2>4, Zenon DEF LateType, Escalated
      <4>2. QED
        BY <4>1 DEF MoreToCome
    <3>6. new.overdue = l.overdue /\ new.escalated = l.escalated + 1
      BY <2>3, <2>4 DEF LateType, Escalated
    <3>7. QED
      BY <3>3, <3>4, <3>5, <3>6
  <2>8. /\ new.step <= node.maxEscalations
        /\ new.armed => new.step < node.maxEscalations
    BY <2>1, <2>7
  <2>9. /\ late'[t] = new
        /\ \A s \in TaskIds \ {t} : late'[s] = late[s] /\ seat'[s] = seat[s]
    BY <2>6, <2>5 DEF IInv, TypeOK
  <2>10. TypeOK'
    <3>1. late' \in [TaskIds -> LateType]
      BY <2>5, <2>7 DEF IInv, TypeOK, LateType
    <3>2. seat' \in [TaskIds -> [Users -> {"none", "pending"} \cup Verdicts]]
      BY <2>1, <2>6 DEF IInv, TypeOK
    <3>3. \A s \in TaskIds :
            late'[s].step > 0 => late'[s].step <= Graph[task[s].node].maxEscalations
      BY <2>8, <2>9 DEF IInv, TypeOK
    <3>4. QED
      BY <1>2, <1>4, <3>1, <3>2, <3>3 DEF IInv, TypeOK, LateType
  <2>11. AllTx' /\ QuorumHonoured' /\ EndInv'
    <3>1. \A c \in Callers : tx[c].completes # None =>
              tx[c].completes \in TaskIds /\ tx[c].completes # t
      BY <1>2, FreeFacts DEF IInv, TypeOK
    <3>2. QED
      BY <1>2, <2>1, <2>9, <3>1, SeatStep
  <2>12. ASSUME NEW s \in TaskIds PROVE TaskInv(s)'
    <3>1. CASE s = t
      <4>1. l.escalated + 1 <= l.overdue
        BY <2>1, <2>2 DEF IInv, DbInv, TaskInv
      <4>2. new.escalated <= new.overdue
        BY <2>7, <4>1
      <4>3. QED
        BY <1>2, <2>1, <2>8, <2>9, <2>3, <2>7, <3>1, <4>2, LateFields, LateStep
    <3>2. CASE s # t
      BY <1>2, <2>9, <3>2 DEF IInv, DbInv, TaskInv
    <3>3. QED
      BY <3>1, <3>2
  <2>13. ASSUME NEW v \in Workers PROVE PassInv(v)'
    <3>1. SUFFICES ASSUME noted'[v] # None PROVE Noticed(noted[v][1], noted[v][2])'
      BY DEF PassInv
    <3>2. PICK p \in TaskIds \X Nat : noted'[v] = p
      BY <1>4, <3>1
    <3>3. Noticed(p[1], p[2])
      BY <1>3, <3>1, <3>2 DEF IInv, DbInv, PassInv
    <3>4. Noticed(p[1], p[2])'
      <4>1. CASE p[1] = t
        <5>1. p[2] \in Nat /\ p[2] <= step /\ p[2] # new.step
          BY <2>1, <2>7, <3>3, <4>1 DEF Noticed
        <5>2. QED
          BY <1>2, <2>1, <2>7, <2>9, <4>1, <5>1 DEF Noticed
      <4>2. CASE p[1] # t
        BY <1>2, <2>9, <3>3, <4>2 DEF Noticed
      <4>3. QED
        BY <4>1, <4>2
    <3>5. QED
      BY <3>2, <3>4
  <2>14. QED
    BY <2>10, <2>11, <2>12, <2>13 DEF IInv, DbInv
<1>7. QED
  BY <1>5, <1>6
-----------------------------------------------------------------------------
(* The commit of a transaction x.  What it does to one task: the task is    *)
(* new, or it keeps its node and its escalation.                            *)

IsNew(x, t) == \E n \in x.creates : n.id = t

Opened(t) ==
    /\ task[t].status = "unused"
    /\ task'[t].node \in OfType("approval") /\ task'[t].branch \in Branches
    /\ task'[t].status \in {"pending", "cancelled"}
    /\ seat'[t] = Assigned(task'[t].node)
    /\ late'[t] = Timed(task'[t].node)

Kept(x, t) ==
    /\ task'[t].node = task[t].node /\ task'[t].branch = task[t].branch
    /\ late'[t] = late[t]
    /\ t \in x.cancels => task[t].status # "unused" /\ task'[t].status = "cancelled"
    /\ t \notin x.cancels /\ t = x.completes => task'[t].status = "completed"
    /\ t \notin x.cancels /\ t # x.completes => task'[t].status = task[t].status
    /\ seat'[t] = IF t = x.completes /\ x.by # None THEN Voted(t, x.by, x.outcome) ELSE seat[t]

LEMMA Ending ==
    ASSUME IInv, NEW c \in Callers, Commit(c)
    PROVE  /\ tx[c] \in TxType /\ TxInv(tx[c]) /\ tx[c] # Idle
           /\ instance # "approved" /\ instance' # "none"
           /\ tx[c].verdict # None => instance' = tx[c].verdict /\ instance' \in Final
           /\ tx[c].verdict = None =>
                /\ tx[c].cancels = {}
                /\ instance' = IF tx[c].starts THEN "pending" ELSE instance
           /\ \A d \in Callers \ {c} : Exclusive(tx[c], tx[d]) /\ ~Solo(tx[d])
<1>1. tx[c] \in TxType /\ TxInv(tx[c]) /\ \A d \in Callers \ {c} : Exclusive(tx[c], tx[d])
  BY TypeFacts DEF IInv, AllTx
<1>2. tx[c].phase \in {"walk", "sweep"} /\ tx[c] # Idle
  BY DEF Commit, Idle
<1>3. /\ tx[c].verdict # None => instance' = tx[c].verdict
      /\ tx[c].verdict = None => instance' = IF tx[c].starts THEN "pending" ELSE instance
  BY DEF Commit
<1>4. tx[c].verdict # None => tx[c].verdict \in Final
  BY <1>1 DEF TxType
<1>5. instance # "approved" /\ \A d \in Callers \ {c} : ~Solo(tx[d])
  BY <1>1, <1>2 DEF TxInv, Backed, Exclusive
<1>6. tx[c].verdict = None => tx[c].cancels = {} /\ (tx[c].starts \/ tx[c].completes # None)
  BY <1>1, <1>2 DEF TxInv, Shape
<1>7. instance' # "none"
  <2>1. CASE tx[c].verdict # None
    BY <1>3, <1>4, <2>1 DEF Final
  <2>2. CASE tx[c].verdict = None
    <3>1. tx[c].completes # None => instance # "none"
      BY <1>1 DEF TxInv, Supported, TxType, IInv, DbInv, TaskInv
    <3>2. QED
      BY <1>3, <1>6, <2>2, <3>1
  <2>3. QED
    BY <2>1, <2>2
<1>8. QED
  BY <1>1, <1>2, <1>3, <1>4, <1>5, <1>6, <1>7

LEMMA CommitTask ==
    ASSUME IInv, NEW c \in Callers, Commit(c), NEW x, x = tx[c], NEW t \in TaskIds
    PROVE  IF IsNew(x, t) THEN Opened(t) ELSE Kept(x, t)
<1> DEFINE Made == CHOOSE n \in x.creates : n.id = t
           Status == IF t \in x.cancels THEN "cancelled"
                     ELSE IF t = x.completes THEN "completed"
                     ELSE IF t \in Created(c) THEN "pending" ELSE task[t].status
<1>1. x \in TxType /\ TxInv(x)
  BY Ending
<1>2. t \in Created(c) <=> IsNew(x, t)
  BY DEF Created, IsNew
<1>3. /\ task'[t] = IF t \in Created(c)
                    THEN [node |-> Made.node, branch |-> Made.branch, status |-> Status]
                    ELSE [task[t] EXCEPT !.status = Status]
      /\ seat'[t] = IF t \in Created(c) THEN Assigned(Made.node)
                    ELSE IF t = x.completes /\ x.by # None THEN Voted(t, x.by, x.outcome)
                    ELSE seat[t]
      /\ late'[t] = IF t \in Created(c) THEN Timed(Made.node) ELSE late[t]
  BY DEF Commit
<1>4. CASE IsNew(x, t)
  <2>1. PICK n \in x.creates : n = Made /\ n.id = t
    BY <1>4 DEF IsNew
  <2>2. n.node \in OfType("approval") /\ n.branch \in Branches /\ task[t].status = "unused"
    BY <1>1, <2>1 DEF TxType, NewTask, TxInv, Backed
  <2>3. Status \in {"pending", "cancelled"}
    BY <1>1, <1>2, <1>4, <2>2, NoneAssumption DEF TxInv, Supported
  <2> HIDE DEF Made, Status
  <2>4. QED
    BY <1>2, <1>3, <1>4, <2>1, <2>2, <2>3 DEF Opened
<1>5. CASE ~IsNew(x, t)
  <2>1. t \in x.cancels => task[t].status # "unused"
    BY <1>1, <1>5 DEF TxInv, Backed, IsNew
  <2>2. task[t] \in [node : Nodes \cup {None}, branch : Branches,
                     status : {"unused", "pending", "completed", "cancelled"}]
    BY DEF IInv, TypeOK
  <2>3. task'[t].node = task[t].node /\ task'[t].branch = task[t].branch
        /\ task'[t].status = Status
    BY <1>2, <1>3, <1>5, <2>2
  <2>4. QED
    BY <1>2, <1>3, <1>5, <2>1, <2>3 DEF Kept
<1>6. QED
  BY <1>4, <1>5

LEMMA NewTaskFacts ==
    ASSUME NEW n \in OfType("approval")
    PROVE  /\ Assigned(n) \in [Users -> {"none", "pending"} \cup Verdicts]
           /\ Timed(n) \in LateType /\ ~Timed(n).due
           /\ Timed(n).step = 0 /\ Timed(n).overdue = 0 /\ Timed(n).escalated = 0
           /\ Timed(n).armed => Graph[n].escalateTo \in Users
<1>1. Assigned(n) \in [Users -> {"none", "pending"} \cup Verdicts]
  BY DEF Assigned
<1>2. (Graph[n].escalateTo # None) \in BOOLEAN /\ NotLate \in LateType
  BY DEF NotLate, LateType
<1>3. Timed(n) \in LateType
  <2>1. ASSUME NEW armed \in BOOLEAN PROVE [NotLate EXCEPT !.armed = armed] \in LateType
    BY DEF NotLate, LateType
  <2>2. QED
    BY <1>2, <2>1, Zenon DEF Timed
<1>4. ~Timed(n).due /\ Timed(n).step = 0 /\ Timed(n).overdue = 0 /\ Timed(n).escalated = 0
  BY DEF Timed, NotLate
<1>5. Timed(n).armed => Graph[n].escalateTo \in Users
  <2>1. Timed(n).armed <=> Graph[n].escalateTo # None
    BY DEF Timed, NotLate
  <2>2. QED
    BY <2>1, GraphAssumption
<1>6. QED
  BY <1>1, <1>3, <1>4, <1>5

(* What the other transactions and the passes need to know: tasks that      *)
(* exist keep existing, and x only touches the rows it has locked or made.  *)
LEMMA CommitFrame ==
    ASSUME IInv, NEW c \in Callers, Commit(c), NEW x, x = tx[c], NEW t \in TaskIds
    PROVE  /\ task[t].status # "unused" => Kept(x, t) /\ task'[t].status # "unused"
           /\ task[t].status = "unused" /\ ~IsNew(x, t) => task'[t].status = "unused"
           /\ task'[t].status = "cancelled" => instance' \in Final
           /\ t # x.completes /\ task'[t].status = "completed" =>
                task[t].status = "completed" /\ Kept(x, t)
           /\ ~IsNew(x, t) /\ task'[t].status = "pending" =>
                task[t].status = "pending" /\ t # x.completes /\ t \notin x.cancels
<1>1. /\ x \in TxType /\ TxInv(x)
      /\ x.verdict = None => x.cancels = {} /\ instance' = IF x.starts THEN "pending" ELSE instance
      /\ x.verdict # None => instance' \in Final
  BY Ending
<1>2. x.completes = t => task[t].status = "pending"
  BY <1>1, NoneAssumption DEF TxInv, Supported
<1>3. x.starts => instance = "none"
  BY <1>1 DEF TxInv, Backed
<1>4. CASE IsNew(x, t)
  <2>1. Opened(t)
    BY <1>4, CommitTask
  <2>2. task'[t].status = "cancelled" => t \in x.cancels
    BY <1>4 DEF Commit, Created, IsNew
  <2>3. QED
    BY <1>1, <1>2, <1>4, <2>1, <2>2 DEF Opened
<1>5. CASE ~IsNew(x, t)
  <2>1. Kept(x, t)
    BY <1>5, CommitTask
  <2>2. task[t].status = "cancelled" => instance \in Final
    BY DEF IInv, DbInv, TaskInv
  <2>3. instance \in Final => instance' \in Final
    BY <1>1, <1>3 DEF Final
  <2>4. task'[t].status = "cancelled" => instance' \in Final
    BY <1>1, <1>2, <2>1, <2>2, <2>3 DEF Kept
  <2>5. QED
    BY <1>1, <1>2, <1>5, <2>1, <2>4 DEF Kept
<1>6. QED
  BY <1>4, <1>5

LEMMA CommitTypes ==
    ASSUME IInv, NEW c \in Callers, Commit(c)
    PROVE  TypeOK'
<1> DEFINE TaskType == [node : Nodes \cup {None}, branch : Branches,
                        status : {"unused", "pending", "completed", "cancelled"}]
           SeatType == [Users -> {"none", "pending"} \cup Verdicts]
<1>1. PICK x : x = tx[c]
  OBVIOUS
<1>2. x \in TxType /\ TxInv(x) /\ instance' \in {"none", "pending"} \cup Final
  BY <1>1, Ending DEF IInv, TypeOK
<1>3. ASSUME NEW t \in TaskIds
      PROVE  /\ task'[t].node \in Nodes \cup {None} /\ task'[t].branch \in Branches
             /\ task'[t].status \in {"unused", "pending", "completed", "cancelled"}
             /\ seat'[t] \in SeatType /\ late'[t] \in LateType
             /\ late'[t].step > 0 => late'[t].step <= Graph[task'[t].node].maxEscalations
  <2>1. /\ task[t] \in TaskType /\ seat[t] \in SeatType /\ late[t] \in LateType
        /\ late[t].step > 0 => late[t].step <= Graph[task[t].node].maxEscalations
    BY DEF IInv, TypeOK, LateType
  <2>2. CASE IsNew(x, t)
    <3>1. Opened(t)
      BY <1>1, <2>2, CommitTask
    <3>2. PICK n \in OfType("approval") : n = task'[t].node
      BY <3>1 DEF Opened
    <3>3. seat'[t] \in SeatType /\ late'[t] \in LateType /\ late'[t].step = 0
      BY <3>1, <3>2, NewTaskFacts DEF Opened
    <3>4. QED
      BY <3>1, <3>2, <3>3 DEF Opened, OfType
  <2>3. CASE ~IsNew(x, t)
    <3>1. Kept(x, t)
      BY <1>1, <2>3, CommitTask
    <3>2. task'[t].status \in {"unused", "pending", "completed", "cancelled"}
      BY <2>1, <3>1 DEF Kept
    <3>3. seat'[t] \in SeatType
      BY <1>2, <2>1, <3>1, NoneAssumption DEF Kept, TxInv, Supported, Voted, TxType
    <3>4. QED
      BY <2>1, <3>1, <3>2, <3>3 DEF Kept
  <2>4. QED
    BY <2>2, <2>3
<1>4. task' \in [TaskIds -> TaskType]
  <2>1. ASSUME NEW t \in TaskIds PROVE task'[t] \in TaskType
    <3>1. \/ task'[t] = [node |-> task'[t].node, branch |-> task'[t].branch,
                         status |-> task'[t].status]
          \/ \E s : task'[t] = [task[t] EXCEPT !.status = s]
      BY DEF Commit
    <3>2. task[t] \in TaskType
      BY DEF IInv, TypeOK
    <3>3. QED
      BY <1>3, <3>1, <3>2
  <2>2. QED
    BY <2>1 DEF Commit
<1>5. seat' \in [TaskIds -> SeatType]
  BY <1>3 DEF Commit
<1>6. late' \in [TaskIds -> LateType]
  BY <1>3 DEF Commit
<1>7. overridden' \subseteq TaskIds /\ arrived' \subseteq OfType("join") \X Nodes
  BY <1>1, <1>2 DEF Commit, TxType, IInv, TypeOK
<1>8. tx' \in [Callers -> TxType] /\ noted' = noted
  BY TypeFacts, IdleFacts DEF Commit, IInv, TypeOK
<1>9. QED
  BY <1>2, <1>3, <1>4, <1>5, <1>6, <1>7, <1>8 DEF TypeOK, IInv, LateType, TxType

LEMMA CommitDb ==
    ASSUME IInv, NEW c \in Callers, Commit(c)
    PROVE  DbInv'
<1>1. PICK x : x = tx[c]
  OBVIOUS
<1>2. x \in TxType /\ TxInv(x) /\ instance' # "none"
  BY <1>1, Ending
<1>3. ASSUME NEW t \in TaskIds PROVE TaskInv(t)'
  <2>1. task'[t].status = "cancelled" => instance' \in Final
    BY <1>1, CommitFrame
  <2>2. CASE IsNew(x, t)
    <3>1. Opened(t)
      BY <1>1, <2>2, CommitTask
    <3>2. PICK n \in OfType("approval") : n = task'[t].node
      BY <3>1 DEF Opened
    <3>3. PICK l : l = late'[t]
      OBVIOUS
    <3>4. /\ ~l.due /\ l.step = 0 /\ l.overdue = 0 /\ l.escalated = 0
          /\ l.armed => Graph[n].escalateTo \in Users
      BY <3>1, <3>2, <3>3, NewTaskFacts DEF Opened
    <3>5. 0 < Graph[n].maxEscalations
      BY GraphAssumption
    <3>6. task'[t].status \in {"pending", "cancelled"}
      BY <3>1 DEF Opened
    <3>7. QED
      BY <1>2, <2>1, <3>2, <3>3, <3>4, <3>5, <3>6 DEF TaskInv
  <2>3. CASE ~IsNew(x, t)
    <3>1. Kept(x, t)
      BY <1>1, <2>3, CommitTask
    <3>2. task'[t].status # "unused" <=> task[t].status # "unused"
      BY <1>1, <2>3, CommitFrame
    <3>3. TaskInv(t)
      BY DEF IInv, DbInv
    <3>4. QED
      BY <1>2, <2>1, <3>1, <3>2, <3>3 DEF Kept, TaskInv
  <2>4. QED
    BY <2>2, <2>3
<1>4. ASSUME NEW w \in Workers PROVE PassInv(w)'
  <2>1. noted' = noted
    BY DEF Commit
  <2>2. SUFFICES ASSUME noted[w] # None PROVE Noticed(noted[w][1], noted[w][2])'
    BY <2>1 DEF PassInv
  <2>3. PICK p \in TaskIds \X Nat : noted[w] = p
    BY <2>2 DEF IInv, TypeOK
  <2>4. Noticed(p[1], p[2])
    BY <2>2, <2>3 DEF IInv, DbInv, PassInv
  <2>5. PICK t \in TaskIds : t = p[1]
    OBVIOUS
  <2>6. Kept(x, t) /\ task'[t].status # "unused" /\ ~IsNew(x, t)
    BY <1>1, <1>2, <2>4, <2>5, CommitFrame DEF Noticed, TxInv, Backed, IsNew
  <2>7. task'[t].status = "pending" => task[t].status = "pending"
    BY <1>1, <2>6, CommitFrame
  <2>8. QED
    BY <2>1, <2>3, <2>4, <2>5, <2>6, <2>7 DEF Noticed, Kept
<1>5. QuorumHonoured'
  <2>1. ASSUME NEW t \in TaskIds, t \notin overridden', task'[t].status = "completed"
        PROVE  Honoured(t)'
    <3>1. PICK s : s = seat'[t]
      OBVIOUS
    <3>2. CASE t = x.completes
      <4>1. x.by # None
        BY <1>1, <2>1, <3>2, NoneAssumption DEF Commit
      <4>2. task[t].status = "pending" /\ x.by \in Users
        BY <1>2, <3>2, <4>1, NoneAssumption DEF TxInv, Supported, TxType
      <4>3. Kept(x, t)
        BY <1>1, <4>2, CommitFrame
      <4>4. s = Voted(t, x.by, x.outcome)
        BY <3>1, <3>2, <4>1, <4>3 DEF Kept
      <4>5. CASE x.outcome = "rejected"
        <5>1. s[x.by] = "rejected"
          BY <4>2, <4>4, <4>5 DEF Voted, IInv, TypeOK
        <5>2. QED
          BY <3>1, <4>2, <5>1 DEF Honoured, Having
      <4>6. CASE x.outcome = "approved"
        <5>1. Approved(t, s)
          BY <1>2, <3>2, <4>1, <4>4, <4>6, NoneAssumption DEF TxInv, Supported
        <5>2. QED
          BY <3>1, <4>3, <5>1, ApprovedSame DEF Honoured, Kept
      <4>7. QED
        BY <1>2, <3>2, <4>5, <4>6, NoneAssumption DEF TxInv, Supported, Verdicts
    <3>3. CASE t # x.completes
      <4>1. task[t].status = "completed" /\ Kept(x, t) /\ t \notin overridden
        BY <1>1, <2>1, <3>3, CommitFrame DEF Commit
      <4>2. s = seat[t] /\ task'[t].node = task[t].node
        BY <3>1, <3>3, <4>1 DEF Kept
      <4>3. Having(s, "rejected") # {} \/ Approved(t, s)
        BY <4>1, <4>2 DEF IInv, DbInv, QuorumHonoured
      <4>4. QED
        BY <3>1, <4>2, <4>3, ApprovedSame DEF Honoured, Having
    <3>4. QED
      BY <3>2, <3>3
  <2>2. QED
    BY <2>1 DEF QuorumHonoured, Honoured
<1>6. EndInv'
  <2>1. SUFFICES ASSUME instance' = "approved", NEW t \in TaskIds
                 PROVE  task'[t].status \notin {"pending", "cancelled"}
    BY DEF EndInv
  <2>2. x.verdict = "approved" /\ instance \notin Final
    BY <1>1, <1>2, <2>1, Ending DEF TxInv, Backed, Final
  <2>3. /\ x.creates = {} /\ x.cancels = {} /\ task[t].status # "cancelled"
        /\ task[t].status = "pending" => t = x.completes
    BY <1>2, <2>2 DEF TxInv, LastTask, IInv, DbInv, TaskInv
  <2>4. Kept(x, t)
    BY <1>1, <2>3, CommitTask DEF IsNew
  <2>5. QED
    BY <2>3, <2>4 DEF Kept
<1>7. QED
  BY <1>3, <1>4, <1>5, <1>6 DEF DbInv

LEMMA CommitAllTx ==
    ASSUME IInv, NEW c \in Callers, Commit(c)
    PROVE  AllTx'
<1>1. PICK x : x = tx[c]
  OBVIOUS
<1>2. /\ x \in TxType /\ TxInv(x) /\ x # Idle /\ instance # "approved"
      /\ x.verdict # None => instance' = x.verdict
      /\ x.verdict = None => instance' = IF x.starts THEN "pending" ELSE instance
      /\ \A d \in Callers \ {c} : Exclusive(x, tx[d]) /\ ~Solo(tx[d])
  BY <1>1, Ending
<1>3. tx'[c] = Idle /\ \A d \in Callers \ {c} : tx'[d] = tx[d]
  BY DEF Commit, IInv, TypeOK
<1>4. TxInv(Idle)'
  BY NoVerdictAssumption DEF TxInv, Shape, Backed, Supported, LastTask, Idle, Final
<1>5. ASSUME NEW d \in Callers \ {c} PROVE TxInv(tx[d])'
  <2>1. PICK y : y = tx[d]
    OBVIOUS
  <2>2. y \in TxType /\ TxInv(y) /\ Exclusive(x, y) /\ ~Solo(y)
    BY <1>2, <2>1, TypeFacts DEF IInv, AllTx
  <2>3. Shape(y)' /\ LastTask(y)'
    BY <2>2 DEF TxInv, Shape, LastTask, Solo
  <2>4. Backed(y)'
    <3>1. y.verdict # None => instance' = "pending"
      BY <1>2, <2>2 DEF TxInv, Backed, Exclusive, Solo
    <3>2. ASSUME NEW n \in y.creates PROVE task'[n.id].status = "unused"
      BY <1>1, <2>2, CommitFrame DEF TxInv, Backed, Exclusive, IsNew, TxType, NewTask
    <3>3. ASSUME NEW t \in y.cancels
          PROVE  task'[t].status # "unused" \/ \E n \in y.creates : n.id = t
      BY <1>1, <2>2, CommitFrame DEF TxInv, Backed, TxType
    <3>4. instance' = "approved" => y = Idle
      <4>1. instance' = "approved" => Solo(x)
        BY <1>2 DEF Solo
      <4>2. QED
        BY <2>2, <4>1 DEF Exclusive
    <3>5. QED
      BY <2>2, <3>1, <3>2, <3>3, <3>4 DEF Backed, Solo
  <2>5. Supported(y)'
    <3>1. SUFFICES ASSUME y.completes # None PROVE Supported(y)'
      BY DEF Supported
    <3>2. PICK t \in TaskIds : t = y.completes
      BY <2>2, <3>1 DEF TxType
    <3>3. task[t].status = "pending" /\ t \notin x.cancels /\ t # x.completes
      BY <2>2, <3>1, <3>2 DEF TxInv, Supported, Exclusive, LocksOf
    <3>4. Kept(x, t)
      BY <1>1, <3>3, CommitFrame
    <3>5. /\ task'[t].status = "pending" /\ task'[t].node = task[t].node
          /\ seat'[t] = seat[t]
      BY <3>3, <3>4 DEF Kept
    <3>6. PICK s : s = Voted(t, y.by, "approved")
      OBVIOUS
    <3>7. Voted(t, y.by, "approved")' = s
      BY <3>5, <3>6 DEF Voted
    <3>8. Approved(t, s) => Approved(t, s)'
      BY <3>5, ApprovedSame
    <3>9. QED
      BY <2>2, <3>1, <3>2, <3>5, <3>6, <3>7, <3>8 DEF TxInv, Supported
  <2>6. QED
    BY <1>3, <2>1, <2>3, <2>4, <2>5 DEF TxInv
<1>6. ASSUME NEW d \in Callers, NEW e \in Callers, d # e PROVE Exclusive(tx[d], tx[e])'
  <2>1. Exclusive(tx'[d], tx'[e])
    BY <1>3, <1>6, IdleFacts DEF IInv, AllTx
  <2>2. QED
    BY <2>1 DEF Exclusive, LocksOf, Solo
<1>7. QED
  BY <1>3, <1>4, <1>5, <1>6 DEF AllTx

LEMMA CommitKeeps ==
    ASSUME IInv, NEW c \in Callers, Commit(c)
    PROVE  IInv'
BY CommitTypes, CommitDb, CommitAllTx DEF IInv

-----------------------------------------------------------------------------
(* The invariant *)

LEMMA InitInv == Init => IInv
<1> SUFFICES ASSUME Init PROVE IInv
  OBVIOUS
<1>1. TypeOK
  <2>1. \A c \in Callers : tx[c] = Idle
    BY DEF Init
  <2>2. Idle \in TxType
    BY DEF Idle, TxType
  <2>3. \A t \in TaskIds : task[t] = NoTask /\ late[t] = NotLate /\ late[t].step = 0
    BY DEF Init, NotLate
  <2>4. NotLate \in LateType
    BY DEF NotLate, LateType
  <2>5. NoTask \in [node : Nodes \cup {None}, branch : Branches,
                    status : {"unused", "pending", "completed", "cancelled"}]
    BY DEF NoTask, Branches
  <2>6. QED
    BY <2>1, <2>2, <2>3, <2>4, <2>5 DEF Init, TypeOK, LateType, TxType
<1>2. DbInv
  <2>1. ASSUME NEW t \in TaskIds PROVE TaskInv(t)
    <3>1. task[t].status = "unused" /\ late[t] = NotLate /\ instance = "none"
      BY DEF Init, NoTask
    <3>2. ~NotLate.armed /\ ~NotLate.due /\ NotLate.step = 0
          /\ NotLate.escalated = 0 /\ NotLate.overdue = 0
      BY DEF NotLate
    <3>3. QED
      BY <3>1, <3>2 DEF TaskInv
  <2>2. \A w \in Workers : PassInv(w)
    BY DEF Init, PassInv
  <2>3. QuorumHonoured /\ EndInv
    BY DEF Init, QuorumHonoured, EndInv, NoTask
  <2>4. QED
    BY <2>1, <2>2, <2>3 DEF DbInv
<1>3. AllTx
  <2>1. \A c \in Callers : tx[c] = Idle
    BY DEF Init
  <2>2. TxInv(Idle)
    BY NoVerdictAssumption
       DEF Init, TxInv, Shape, Backed, Supported, LastTask, Idle, Final
  <2>3. Exclusive(Idle, Idle)
    BY NoVerdictAssumption DEF Exclusive, LocksOf, Solo, Idle, Final
  <2>4. QED
    BY <2>1, <2>2, <2>3 DEF AllTx
<1>4. QED
  BY <1>1, <1>2, <1>3 DEF IInv

LEMMA StutterKeeps == IInv /\ UNCHANGED vars => IInv'
<1> SUFFICES ASSUME IInv, UNCHANGED vars PROVE IInv'
  OBVIOUS
<1>1. UNCHANGED <<instance, task, seat, overridden, arrived, late, tx, noted>>
  BY DEF vars, db
<1>2. TypeOK'
  BY <1>1 DEF IInv, TypeOK
<1>3. (\A t \in TaskIds : TaskInv(t)') /\ (\A w \in Workers : PassInv(w)')
  BY <1>1 DEF IInv, DbInv, TaskInv, PassInv, Noticed
<1>4. AllTx' /\ QuorumHonoured' /\ EndInv'
  BY <1>1, SeatStep
<1>5. QED
  BY <1>2, <1>3, <1>4 DEF IInv, DbInv

LEMMA NextInv == IInv /\ [Next]_vars => IInv'
<1> SUFFICES ASSUME IInv, [Next]_vars PROVE IInv'
  OBVIOUS
<1>1. ASSUME NEW c \in Callers, Start(c) \/ Cancel(c) \/ BreakDeadlock(c) PROVE IInv'
  BY <1>1, StartKeeps, CancelKeeps, BreakDeadlockKeeps DEF BreakDeadlock
<1>2. ASSUME NEW c \in Callers, Statement(c) PROVE IInv'
  <2>1. CASE CreateTask(c)
    BY <2>1, CreateTaskKeeps
  <2>2. CASE EvaluateCondition(c) \/ FanOut(c) \/ Notify(c) \/ Join(c)
    BY <2>2, EvaluateConditionKeeps, FanOutKeeps, NotifyKeeps, JoinKeeps
  <2>3. CASE Finish(c) \/ BeginSweep(c) \/ Commit(c)
    BY <2>3, FinishKeeps, BeginSweepKeeps, CommitKeeps
  <2>4. CASE \E t \in TaskIds : SweepTask(c, t)
    BY <2>4, SweepTaskKeeps
  <2>5. QED
    BY <1>2, <2>1, <2>2, <2>3, <2>4 DEF Statement
<1>3. ASSUME NEW c \in Callers, NEW t \in TaskIds, NEW v \in Verdicts, ForceDecision(c, t, v)
      PROVE  IInv'
  BY <1>3, CompleteKeeps DEF ForceDecision
<1>4. ASSUME NEW c \in Callers, NEW t \in TaskIds, NEW v \in Verdicts, NEW u \in Users,
             Decide(c, t, u, v)
      PROVE  IInv'
  BY <1>4, CompleteKeeps DEF Decide
<1>5. ASSUME NEW t \in TaskIds, FallDue(t) \/ \E u \in Users : Vote(t, u) \/ Reassign(t, u)
      PROVE  IInv'
  BY <1>5, FallDueKeeps, VoteKeeps, ReassignKeeps
<1>6. ASSUME NEW w \in Workers, Escalate(w) \/ \E t \in TaskIds : ReadLate(w, t)
      PROVE  IInv'
  BY <1>6, EscalateKeeps, ReadLateKeeps
<1>7. CASE UNCHANGED vars
  BY <1>7, StutterKeeps
<1>8. QED
  BY <1>1, <1>2, <1>3, <1>4, <1>5, <1>6, <1>7 DEF Next

LEMMA Inductive == Spec => []IInv
BY InitInv, NextInv, PTL DEF Spec

-----------------------------------------------------------------------------
(* Every record and row keeps its type, and no task is escalated more often *)
(* than its node allows.                                                    *)
THEOREM TypeCorrect == Spec => []TypeOK
<1>1. IInv => TypeOK
  BY DEF IInv
<1>2. QED
  BY <1>1, Inductive, PTL

(* A task that no administrator decided was completed by a rejection or by  *)
(* as many approvals as its seats ask for, for any graph and any number of  *)
(* callers, approvers and escalation passes (recordWorkflowTaskDecision).   *)
THEOREM QuorumCorrect == Spec => []QuorumHonoured
<1>1. IInv => QuorumHonoured
  BY DEF IInv, DbInv
<1>2. QED
  BY <1>1, Inductive, PTL

(* A task is escalated at most once each time it falls due, however many    *)
(* passes have read it (escalateDueTasksForTenant).                         *)
THEOREM EscalationCorrect == Spec => []EscalatedOncePerDue
<1>1. IInv => EscalatedOncePerDue
  <2>1. ASSUME IInv, NEW t \in TaskIds PROVE late[t].escalated <= late[t].overdue
    <3>1. PICK l : l = late[t]
      OBVIOUS
    <3>2. l \in LateType /\ l.escalated + (IF l.due THEN 1 ELSE 0) <= l.overdue
      BY <2>1, <3>1 DEF IInv, DbInv, TaskInv, TypeOK, LateType
    <3>3. l.escalated <= l.overdue
      BY <3>2, LateFields
    <3>4. QED
      BY <3>1, <3>3
  <2>2. QED
    BY <2>1 DEF EscalatedOncePerDue
<1>2. QED
  BY <1>1, Inductive, PTL

(* A verdict is never overwritten, neither by a decision in flight nor by a *)
(* cancellation, and when an instance is approved none of its tasks is      *)
(* pending or cancelled (the end node and cancelWorkflowInstance).          *)
THEOREM VerdictCorrect == Spec => VerdictStands
<1>1. IInv /\ IInv' /\ [Next]_vars =>
        [/\ instance \in Final => instance' = instance
         /\ instance' = "approved" =>
              \A t \in TaskIds : task'[t].status \notin {"pending", "cancelled"}]_vars
  <2>1. SUFFICES ASSUME IInv, IInv', Next, instance \in Final PROVE instance' = instance
    BY DEF IInv, DbInv, EndInv
  <2>2. ASSUME NEW c \in Callers, Commit(c) PROVE instance' = instance
    <3>1. tx[c].verdict = None /\ ~tx[c].starts
      BY <2>1, <2>2, Ending DEF TxInv, Backed, Final
    <3>2. QED
      BY <2>1, <2>2, <3>1, Ending
  <2>3. ASSUME UNCHANGED instance PROVE instance' = instance
    BY <2>3
  <2>4. CASE \E c \in Callers : Start(c) \/ Cancel(c) \/ Statement(c) \/ BreakDeadlock(c)
    BY <2>2, <2>4 DEF Start, Cancel, Statement, BreakDeadlock, CreateTask, EvaluateCondition,
                      FanOut, Notify, Join, Finish, BeginSweep, SweepTask, db
  <2>5. CASE \E c \in Callers, t \in TaskIds, v \in Verdicts :
                ForceDecision(c, t, v) \/ \E u \in Users : Decide(c, t, u, v)
    BY <2>5 DEF ForceDecision, Decide, db
  <2>6. CASE \/ \E t \in TaskIds : FallDue(t) \/ \E u \in Users : Vote(t, u) \/ Reassign(t, u)
             \/ \E w \in Workers : Escalate(w) \/ \E t \in TaskIds : ReadLate(w, t)
    BY <2>6 DEF FallDue, Vote, Reassign, Escalate, ReadLate, db
  <2>7. QED
    BY <2>1, <2>4, <2>5, <2>6 DEF Next
<1>2. QED
  BY <1>1, Inductive, PTL DEF Spec, VerdictStands

-----------------------------------------------------------------------------
(* The place of a token of the walk: its node, and the branch it is in.     *)
Home(f, b) == IF b = None THEN None ELSE f.home[b]
IsBranch(f, b) == b \in Nodes /\ f.home[b] \in OfType("parallel") /\ b \in Fan(f.home[b])
Placed(f, e) ==
    /\ e \in Nodes \X Branches
    /\ e[2] # None => IsBranch(f, e[2])
    /\ \/ Inside(f, e[1], Home(f, e[2]))
       \/ e[2] # None /\ e[1] = f.meet[f.home[e[2]]]

(* A live token is behind every place where there has been a task, and      *)
(* behind every arrival, but for those of its sibling branches.             *)
After(f, e, d) ==
    IF e[2] = None THEN f.rank[d[1]] < f.rank[e[1]]
    ELSE /\ d[2] = e[2] => f.rank[d[1]] < f.rank[e[1]]
         /\ Home(f, d[2]) # f.home[e[2]] => f.rank[d[1]] < f.rank[f.home[e[2]]]
AfterArrival(f, e, a) ==
    \/ e[2] = None /\ f.rank[a[1]] < f.rank[e[1]]
    \/ e[2] # None /\ f.rank[a[1]] < f.rank[f.home[e[2]]]
    \/ e[2] # None /\ a[2] # e[2] /\ f.home[a[2]] = f.home[e[2]]
Siblings(f, e, d) == e[2] # d[2] /\ e[2] # None /\ d[2] # None /\ f.home[e[2]] = f.home[d[2]]

(* past: where there has been a task; standing: where one is pending;       *)
(* walking: where the walk is; arrivals: of branches at their joins.        *)
Good(f, past, standing, walking, arrivals) ==
    /\ \A e \in past : Placed(f, e) /\ Graph[e[1]].type = "approval"
    /\ \A e \in walking : Placed(f, e)
    /\ standing \subseteq past
    /\ \A a \in arrivals : IsBranch(f, a[2]) /\ a[1] = f.meet[f.home[a[2]]]
    /\ \A e, d \in standing \cup walking : e # d => Siblings(f, e, d)
    /\ \A e \in standing, d \in past : e # d => After(f, e, d)
    /\ \A e \in walking, d \in past : After(f, e, d)
    /\ \A e \in standing \cup walking, a \in arrivals : AfterArrival(f, e, a)

(* Nothing is lost: a branch is live or has arrived, and if nothing is live *)
(* the arrivals are complete.                                               *)
Whole(f, live, arrivals) ==
    /\ live = {} => \E j \in OfType("join") : \A b \in Graph[j].awaits : <<j, b>> \in arrivals
    /\ \A e \in live : e[2] # None =>
        \A b \in Fan(f.home[e[2]]) :
            <<f.meet[f.home[e[2]]], b>> \in arrivals \/ \E d \in live : d[2] = b

(* A queue's entries, and whether they are of different branches.           *)
EntriesOf(q) == {q[i] : i \in DOMAIN q}
Distinct(q) == \A i, k \in DOMAIN q : q[i][2] = q[k][2] => i = k

(* What a transaction x sees                                                *)
EntryOf(t) == <<task[t].node, task[t].branch>>
Made(x) == {<<n.node, n.branch>> : n \in x.creates}
Past(x) == {EntryOf(t) : t \in {s \in TaskIds : task[s].status # "unused"}} \cup Made(x)
Standing(x) ==
    {EntryOf(t) : t \in {s \in TaskIds : task[s].status = "pending" /\ s # x.completes}} \cup Made(x)
Walks(x) == EntriesOf(x.queue)
Seen(x) == arrived \cup x.arrives

Once(x) ==
    /\ \A n, m \in x.creates : n.node = m.node /\ n.branch = m.branch => n = m
    /\ \A n \in x.creates, t \in TaskIds :
        task[t].status # "unused" => EntryOf(t) # <<n.node, n.branch>>
    /\ Distinct(x.queue)

(* A transaction keeps to its task's branch, unless no other task is pending. *)
Keeps(x, b) ==
    /\ b # None
    /\ \A e \in Walks(x) \cup Made(x) \cup x.arrives : e[2] = b
Narrow(x) ==
    x.completes # None =>
        \/ \A t \in TaskIds : task[t].status = "pending" => t = x.completes
        \/ Keeps(x, task[x.completes].branch)

WalkInv(f, x) ==
    /\ x.completes = None /\ ~x.starts => x.queue = <<>> /\ x.creates = {} /\ x.arrives = {}
    /\ Good(f, Past(x), Standing(x), Walks(x), Seen(x))
    /\ Once(x) /\ Narrow(x)
    /\ (instance = "pending" \/ x.starts) /\ x.verdict = None =>
        Whole(f, Standing(x) \cup Walks(x), Seen(x))
WalksInv(f) ==
    /\ instance = "none" => arrived = {}
    /\ \A t \in TaskIds : task[t].status = "unused" => task[t].node = None
    /\ ActivatedOnce
    /\ WalkInv(f, Idle)
    /\ \A c \in Callers : WalkInv(f, tx[c])

(* What Funnelled gives, spelled out for the provers.                       *)
LEMMA ShapeFacts ==
    ASSUME NEW f, Funnelled(f)
    PROVE  /\ \A n \in Nodes : f.rank[n] \in Nat /\ f.home[n] \in OfType("parallel") \cup {None}
           /\ \A p \in OfType("parallel") :
                /\ p \in Nodes /\ p # None /\ f.home[p] = None
                /\ f.meet[p] \in Nodes /\ Graph[f.meet[p]].type = "join"
                /\ f.rank[p] < f.rank[f.meet[p]]
                /\ \A n \in Nodes : f.home[n] = p =>
                    f.rank[p] < f.rank[n] /\ f.rank[n] < f.rank[f.meet[p]]
<1>1. \A n \in Nodes : f.rank[n] \in Nat /\ f.home[n] \in OfType("parallel") \cup {None}
  BY DEF Funnelled
<1>2. ASSUME NEW p \in OfType("parallel")
      PROVE  /\ p \in Nodes /\ p # None /\ f.home[p] = None
             /\ f.meet[p] \in Nodes /\ Graph[f.meet[p]].type = "join"
             /\ f.rank[p] < f.rank[f.meet[p]]
             /\ \A n \in Nodes : f.home[n] = p =>
                    f.rank[p] < f.rank[n] /\ f.rank[n] < f.rank[f.meet[p]]
  <2>1. p \in Nodes /\ p # None /\ f.home[p] = None
    BY NoneAssumption DEF OfType, Funnelled
  <2>2. f.meet[p] \in Nodes /\ Graph[f.meet[p]].type = "join"
    BY DEF OfType, Funnelled
  <2>3. \A n \in Nodes : f.home[n] = p => f.rank[p] < f.rank[n] /\ f.rank[n] < f.rank[f.meet[p]]
    BY DEF Funnelled
  <2>4. PICK b \in Nodes : b \in Fan(p) /\ f.home[b] = p
    <3>1. Graph[p].branches \in Seq(Nodes) /\ Graph[p].branches # <<>>
      BY GraphAssumption DEF Funnelled
    <3>2. 1 \in DOMAIN Graph[p].branches
      BY <3>1
    <3>3. Graph[p].branches[1] \in Nodes /\ Graph[p].branches[1] \in Fan(p)
      BY <3>1, <3>2 DEF Fan
    <3>4. \A b \in Fan(p) : f.home[b] = p
      BY DEF Funnelled
    <3>5. QED
      BY <3>3, <3>4
  <2>5. f.rank[p] < f.rank[f.meet[p]]
    BY <1>1, <2>1, <2>2, <2>3, <2>4
  <2>6. QED
    BY <2>1, <2>2, <2>3, <2>5
<1>3. QED
  BY <1>1, <1>2

(* Nobody walks where there has been a task: the walk is behind it.         *)
LEMMA WalkingIsNew ==
    ASSUME NEW f, Funnelled(f), NEW P, NEW S, NEW W, NEW A, Good(f, P, S, W, A)
    PROVE  \A e \in W : e \notin P /\ e \notin S
<1>1. SUFFICES ASSUME NEW e \in W, e \in P PROVE FALSE
  BY DEF Good
<1>2. After(f, e, e) /\ Placed(f, e)
  BY <1>1 DEF Good
<1>3. f.rank[e[1]] \in Nat
  BY <1>2, ShapeFacts DEF Placed
<1>4. QED
  BY <1>2, <1>3 DEF After

(* A token that goes on to a node that follows its own.                     *)
LEMMA PlacedNext ==
    ASSUME NEW f, Funnelled(f), NEW h, Placed(f, h),
           Graph[h[1]].type \notin {"join", "end"},
           NEW s \in Nodes, Leads(f, h[1], s)
    PROVE  Placed(f, <<s, h[2]>>)
<1>1. h[1] \in Nodes /\ h[2] \in Branches
  BY DEF Placed
<1>2. f.home[h[1]] = Home(f, h[2])
  BY ShapeFacts DEF Placed, Inside, IsBranch
<1>3. h[2] = None => Inside(f, s, None)
  BY <1>2 DEF Leads, Home
<1>4. h[2] # None => Inside(f, s, Home(f, h[2])) \/ s = f.meet[f.home[h[2]]]
  BY <1>2 DEF Leads, Home
<1>5. QED
  BY <1>1, <1>3, <1>4 DEF Placed, Home

(* A token of the walk goes on to a node that follows its own.              *)
LEMMA GoodMove ==
    ASSUME NEW f, Funnelled(f), NEW P, NEW S, NEW W, NEW A, Good(f, P, S, W, A),
           NEW h \in S \cup W, Graph[h[1]].type \notin {"join", "end"},
           NEW s \in Nodes, Leads(f, h[1], s)
    PROVE  Good(f, P, S \ {h}, (W \ {h}) \cup {<<s, h[2]>>}, A)
<1> DEFINE e == <<s, h[2]>>
<1>1. Placed(f, h) /\ Placed(f, e)
  <2>1. Placed(f, h)
    BY DEF Good
  <2>2. QED
    BY <2>1, PlacedNext
<1>2. e[1] = s /\ e[2] = h[2] /\ h[1] \in Nodes /\ f.rank[h[1]] < f.rank[s]
  BY <1>1 DEF Placed, Leads
<1>3. f.rank[h[1]] \in Nat /\ f.rank[s] \in Nat
  BY <1>2, ShapeFacts
<1> HIDE DEF e
<1>4. ASSUME NEW d \in (S \cup W) \ {h} PROVE Siblings(f, e, d) /\ Siblings(f, d, e)
  BY <1>2 DEF Good, Siblings
<1>5. ASSUME NEW d \in P PROVE After(f, e, d)
  <2>1. f.rank[d[1]] \in Nat
    BY ShapeFacts DEF Good, Placed
  <2>2. CASE d = h
    <3>1. h[2] # None => Home(f, d[2]) = f.home[e[2]]
      BY <1>2, <2>2 DEF Home
    <3>2. QED
      BY <1>2, <2>2, <3>1 DEF After
  <2>3. CASE d # h
    <3>1. After(f, h, d)
      BY <2>3 DEF Good
    <3>2. QED
      BY <1>2, <1>3, <2>1, <3>1 DEF After
  <2>4. QED
    BY <2>2, <2>3
<1>6. ASSUME NEW a \in A PROVE AfterArrival(f, e, a)
  <2>1. AfterArrival(f, h, a)
    BY DEF Good
  <2>2. f.rank[a[1]] \in Nat
    BY ShapeFacts DEF Good, IsBranch
  <2>3. QED
    BY <1>2, <1>3, <2>1, <2>2 DEF AfterArrival
<1>7. \A d, k \in (S \ {h}) \cup (W \ {h}) \cup {e} : d # k => Siblings(f, d, k)
  BY <1>4 DEF Good
<1>8. QED
  BY <1>1, <1>5, <1>6, <1>7 DEF Good, e

(* Fewer live tokens are as good.                                           *)
LEMMA GoodLess ==
    ASSUME NEW f, NEW P, NEW S, NEW W, NEW A, Good(f, P, S, W, A),
           NEW T, T \subseteq S, NEW V, V \subseteq W
    PROVE  Good(f, P, T, V, A)
BY DEF Good

(* The walk makes a task where it is.                                       *)
LEMMA GoodCreate ==
    ASSUME NEW f, Funnelled(f), NEW P, NEW S, NEW W, NEW A, Good(f, P, S, W, A),
           NEW h \in W, Graph[h[1]].type = "approval"
    PROVE  Good(f, P \cup {h}, S \cup {h}, W \ {h}, A)
<1>1. ASSUME NEW e \in (S \cup W) \ {h} PROVE After(f, e, h)
  <2>1. Siblings(f, e, h)
    BY DEF Good
  <2>2. QED
    BY <2>1 DEF Siblings, After, Home
<1>2. \A e \in P \cup {h} : Placed(f, e) /\ Graph[e[1]].type = "approval"
  BY DEF Good
<1>3. \A e \in S \cup {h}, d \in P \cup {h} : e # d => After(f, e, d)
  BY <1>1 DEF Good
<1>4. \A e \in W \ {h}, d \in P \cup {h} : After(f, e, d)
  BY <1>1 DEF Good
<1>5. QED
  BY <1>2, <1>3, <1>4 DEF Good

(* A token of no branch is the only one.                                    *)
LEMMA AloneIfMain ==
    ASSUME NEW f, Funnelled(f), NEW P, NEW S, NEW W, NEW A, Good(f, P, S, W, A),
           NEW h \in W, h[2] = None
    PROVE  S = {} /\ W = {h}
<1>1. \A e \in S \cup W : e = h
  BY DEF Good, Siblings
<1>2. h \notin S
  BY WalkingIsNew
<1>3. QED
  BY <1>1, <1>2

(* The walk fans out.                                                       *)
LEMMA GoodFork ==
    ASSUME NEW f, Funnelled(f), NEW P, NEW S, NEW W, NEW A, Good(f, P, S, W, A),
           NEW h \in W, Graph[h[1]].type = "parallel"
    PROVE  /\ h[2] = None /\ S = {} /\ W = {h} /\ h[1] \in OfType("parallel")
           /\ Good(f, P, {}, {<<b, b>> : b \in Fan(h[1])}, A)
<1> DEFINE p == h[1]
           B == {<<b, b>> : b \in Fan(p)}
<1>1. Placed(f, h) /\ p \in OfType("parallel")
  BY DEF Good, Placed, OfType
<1>2. f.home[p] = None /\ p # None /\ f.rank[p] \in Nat
        /\ f.meet[p] \in Nodes /\ Graph[f.meet[p]].type = "join"
  BY <1>1, ShapeFacts
<1>3. h[2] = None
  BY <1>1, <1>2, ShapeFacts DEF Placed, Inside, Home, IsBranch
<1>4. S = {} /\ W = {h}
  BY <1>3, AloneIfMain
<1>5. \A b \in Fan(p) : /\ b \in Nodes /\ f.home[b] = p /\ Graph[b].type # "join"
                        /\ b # None /\ IsBranch(f, b)
  <2>1. Graph[p].branches \in Seq(Nodes)
    BY <1>1, GraphAssumption
  <2>2. Fan(p) \subseteq Nodes
    BY <2>1 DEF Fan
  <2>3. \A b \in Fan(p) : f.home[b] = p /\ Graph[b].type # "join"
    BY <1>1 DEF Funnelled
  <2>4. QED
    BY <1>1, <2>2, <2>3, NoneAssumption DEF IsBranch
<1>6. ASSUME NEW e \in B
      PROVE  /\ e \in Nodes \X Branches /\ e[1] = e[2] /\ e[2] # None /\ IsBranch(f, e[2])
             /\ f.home[e[2]] = p /\ Placed(f, e)
  BY <1>2, <1>5 DEF Placed, Inside, Home, Branches
<1> HIDE DEF B
<1>7. ASSUME NEW e \in B, NEW d \in P PROVE After(f, e, d)
  <2>1. After(f, h, d) /\ Placed(f, d) /\ Graph[d[1]].type = "approval"
    BY <1>4 DEF Good
  <2>2. f.rank[d[1]] < f.rank[p] /\ f.rank[d[1]] \in Nat /\ d[1] \in Nodes
    BY <1>3, <2>1, ShapeFacts DEF After, Placed
  <2>3. Home(f, d[2]) # p
    <3>1. SUFFICES ASSUME Home(f, d[2]) = p PROVE FALSE
      OBVIOUS
    <3>2. d[2] # None /\ f.home[d[2]] = p
      BY <1>2, <3>1 DEF Home
    <3>3. f.home[d[1]] = p
      BY <1>2, <2>1, <3>1, <3>2 DEF Placed, Inside
    <3>4. QED
      BY <1>1, <1>2, <2>2, <3>3, ShapeFacts
  <2>4. d[2] # e[2]
    <3>1. SUFFICES ASSUME d[2] = e[2] PROVE FALSE
      OBVIOUS
    <3>2. Home(f, d[2]) = p
      BY <1>6, <3>1 DEF Home
    <3>3. QED
      BY <2>3, <3>2
  <2>5. QED
    BY <1>6, <2>2, <2>4 DEF After
<1>8. ASSUME NEW e \in B, NEW a \in A PROVE AfterArrival(f, e, a)
  <2>1. AfterArrival(f, h, a)
    BY DEF Good
  <2>2. QED
    BY <1>3, <1>6, <2>1 DEF AfterArrival
<1>9. \A e, d \in B : e # d => Siblings(f, e, d)
  <2>1. ASSUME NEW e \in B, NEW d \in B, e # d PROVE Siblings(f, e, d)
    BY <1>6, <2>1 DEF Siblings
  <2>2. QED
    BY <2>1
<1>10. Good(f, P, {}, B, A)
  BY <1>6, <1>7, <1>8, <1>9 DEF Good
<1>11. QED
  BY <1>1, <1>3, <1>4, <1>10 DEF B

(* A branch arrives at its join.                                            *)
LEMMA AtItsJoin ==
    ASSUME NEW f, Funnelled(f), NEW h, Placed(f, h), Graph[h[1]].type = "join"
    PROVE  /\ h[2] # None /\ IsBranch(f, h[2]) /\ h[1] = f.meet[f.home[h[2]]]
           /\ f.home[h[2]] \in OfType("parallel") /\ h[1] \in OfType("join")
           /\ Graph[h[1]].awaits = Fan(f.home[h[2]])
<1>1. h[2] # None /\ IsBranch(f, h[2]) /\ h[1] = f.meet[f.home[h[2]]]
  BY DEF Placed, Inside
<1>2. f.home[h[2]] \in OfType("parallel") /\ h[1] \in OfType("join")
  BY <1>1 DEF IsBranch, Placed, OfType
<1>3. QED
  BY <1>1, <1>2 DEF Funnelled

(* A branch arrives at its join, and waits there.                           *)
LEMMA GoodArrive ==
    ASSUME NEW f, Funnelled(f), NEW P, NEW S, NEW W, NEW A, Good(f, P, S, W, A),
           NEW h \in W, Graph[h[1]].type = "join"
    PROVE  Good(f, P, S, W \ {h}, A \cup {<<h[1], h[2]>>})
<1> DEFINE a == <<h[1], h[2]>>
<1>1. h[2] # None /\ IsBranch(f, h[2]) /\ h[1] = f.meet[f.home[h[2]]]
  BY AtItsJoin DEF Good
<1>2. a[1] = h[1] /\ a[2] = h[2]
  OBVIOUS
<1> HIDE DEF a
<1>3. \A e \in S \cup (W \ {h}) : AfterArrival(f, e, a)
  <2>1. ASSUME NEW e \in S \cup (W \ {h}) PROVE AfterArrival(f, e, a)
    <3>1. e # h
      BY WalkingIsNew
    <3>2. Siblings(f, e, h)
      BY <3>1 DEF Good
    <3>3. QED
      BY <1>2, <3>2 DEF Siblings, AfterArrival
  <2>2. QED
    BY <2>1
<1>4. QED
  BY <1>1, <1>2, <1>3 DEF Good, a

(* The last branch to arrive goes on behind the join.                       *)
LEMMA GoodJoin ==
    ASSUME NEW f, Funnelled(f), NEW P, NEW S, NEW W, NEW A, Good(f, P, S, W, A),
           NEW h \in W, Graph[h[1]].type = "join",
           \A b \in Fan(f.home[h[2]]) : <<h[1], b>> \in A \cup {<<h[1], h[2]>>}
    PROVE  /\ S = {} /\ W = {h}
           /\ Good(f, P, {}, {<<Graph[h[1]].next, None>>}, A \cup {<<h[1], h[2]>>})
<1> DEFINE p == f.home[h[2]]
           j == h[1]
           next == Graph[j].next
           e == <<next, None>>
           B == A \cup {<<h[1], h[2]>>}
<1>1. /\ Placed(f, h) /\ h[2] # None /\ IsBranch(f, h[2]) /\ j = f.meet[p]
      /\ p \in OfType("parallel") /\ j \in OfType("join")
  BY AtItsJoin DEF Good
<1>2. /\ p # None /\ f.rank[p] \in Nat /\ f.rank[j] \in Nat /\ f.rank[p] < f.rank[j]
      /\ \A n \in Nodes : f.home[n] = p => f.rank[n] < f.rank[j]
  BY <1>1, ShapeFacts
<1>3. next \in Nodes /\ f.rank[next] \in Nat /\ f.rank[j] < f.rank[next] /\ Inside(f, next, None)
  BY <1>1, ShapeFacts, GraphAssumption DEF Funnelled
<1>4. ASSUME NEW d \in S \cup W, d # h PROVE FALSE
  <2>1. Siblings(f, d, h)
    BY <1>4 DEF Good
  <2>2. Placed(f, d)
    BY DEF Good
  <2>3. d[2] \in Fan(p) /\ f.home[d[2]] = p /\ d[2] # h[2]
    BY <2>1, <2>2 DEF Placed, IsBranch, Siblings
  <2>4. <<j, d[2]>> \in A
    BY <2>3
  <2>5. AfterArrival(f, d, <<j, d[2]>>)
    BY <2>4 DEF Good
  <2>6. QED
    BY <1>2, <2>1, <2>3, <2>5 DEF AfterArrival, Siblings
<1>5. S = {} /\ W = {h}
  BY <1>4, WalkingIsNew
<1>6. Placed(f, e) /\ e[1] = next /\ e[2] = None
  BY <1>3 DEF Placed, Home, Branches
<1>7. ASSUME NEW d \in P PROVE f.rank[d[1]] < f.rank[next]
  <2>1. After(f, h, d) /\ Placed(f, d) /\ Graph[d[1]].type = "approval"
    BY DEF Good
  <2>2. f.rank[d[1]] \in Nat /\ d[1] \in Nodes
    BY <2>1, ShapeFacts DEF Placed
  <2>3. CASE Home(f, d[2]) # p
    <3>1. f.rank[d[1]] < f.rank[p]
      BY <1>1, <2>1, <2>3 DEF After
    <3> HIDE DEF p, j, next
    <3>2. QED
      BY <1>2, <1>3, <2>2, <3>1
  <2>4. CASE Home(f, d[2]) = p
    <3>1. f.home[d[1]] = p
      BY <1>1, <1>2, <2>1, <2>4, ShapeFacts DEF Placed, Inside, Home
    <3>2. QED
      BY <1>2, <1>3, <2>2, <3>1
  <2>5. QED
    BY <2>3, <2>4
<1>8. ASSUME NEW a \in B PROVE f.rank[a[1]] < f.rank[next] /\ IsBranch(f, a[2])
                               /\ a[1] = f.meet[f.home[a[2]]]
  <2>1. CASE a \in A
    <3>1. AfterArrival(f, h, a) /\ IsBranch(f, a[2]) /\ a[1] = f.meet[f.home[a[2]]]
      BY <2>1 DEF Good
    <3>2. f.rank[a[1]] \in Nat
      BY <3>1, ShapeFacts DEF IsBranch
    <3>3. CASE f.rank[a[1]] < f.rank[p]
      <4> HIDE DEF p, j, next
      <4>1. QED
        BY <1>2, <1>3, <3>1, <3>2, <3>3
    <3>4. CASE f.home[a[2]] = p
      BY <1>1, <1>3, <3>1, <3>4
    <3>5. QED
      BY <1>1, <3>1, <3>3, <3>4 DEF AfterArrival
  <2>2. CASE a = <<h[1], h[2]>>
    BY <1>1, <1>3, <2>2
  <2>3. QED
    BY <2>1, <2>2
<1>9. Good(f, P, {}, {e}, B)
  <2> HIDE DEF e, B, j, next, p
  <2>1. \A d \in P : After(f, e, d)
    BY <1>6, <1>7 DEF After
  <2>2. \A a \in B : AfterArrival(f, e, a)
    BY <1>6, <1>8 DEF AfterArrival
  <2>3. \A d \in P : Placed(f, d) /\ Graph[d[1]].type = "approval"
    BY DEF Good
  <2>4. QED
    BY <1>6, <1>8, <2>1, <2>2, <2>3 DEF Good
<1>10. QED
  BY <1>5, <1>9

(* A walk that starts where there has been nothing.                         *)
LEMMA GoodStart ==
    ASSUME NEW f, Funnelled(f)
    PROVE  Good(f, {}, {}, {<<StartNode, None>>}, {})
<1>1. StartNode \in Nodes /\ Inside(f, StartNode, None)
  BY GraphAssumption DEF Funnelled
<1>2. Placed(f, <<StartNode, None>>)
  BY <1>1 DEF Placed, Home, Branches
<1>3. QED
  BY <1>2 DEF Good

(* A branch of a live token's parallel node is live, or has arrived.        *)
Accounted(f, p, live, arrivals) ==
    \A b \in Fan(p) : <<f.meet[p], b>> \in arrivals \/ \E d \in live : d[2] = b

(* Where every branch of a fan is accounted for, none is lost.              *)
LEMMA WholeIfAccounted ==
    ASSUME NEW f, Funnelled(f), NEW p \in OfType("parallel"), NEW L, NEW A,
           Accounted(f, p, L, A), \A e \in L : e[2] # None /\ f.home[e[2]] = p
    PROVE  Whole(f, L, A)
<1>1. ASSUME L = {} PROVE \E j \in OfType("join") : \A b \in Graph[j].awaits : <<j, b>> \in A
  <2>1. f.meet[p] \in OfType("join") /\ Graph[f.meet[p]].awaits = Fan(p)
    BY DEF Funnelled
  <2>2. QED
    BY <1>1, <2>1 DEF Accounted
<1>2. QED
  BY <1>1 DEF Whole, Accounted

(* A move loses no branch.                                                  *)
LEMMA WholeMove ==
    ASSUME NEW f, NEW L, NEW A, Whole(f, L, A), NEW h \in L, NEW s
    PROVE  Whole(f, (L \ {h}) \cup {<<s, h[2]>>}, A)
<1> DEFINE e == <<s, h[2]>>
           M == (L \ {h}) \cup {e}
<1>1. e[2] = h[2] /\ e \in M /\ M # {}
  OBVIOUS
<1>2. \A d \in L : \E k \in M : k[2] = d[2]
  BY <1>1
<1>3. \A k \in M : \E d \in L : d[2] = k[2]
  BY <1>1
<1> HIDE DEF e, M
<1>4. ASSUME NEW k \in M, k[2] # None, NEW b \in Fan(f.home[k[2]])
      PROVE  <<f.meet[f.home[k[2]]], b>> \in A \/ \E d \in M : d[2] = b
  BY <1>2, <1>3, <1>4 DEF Whole
<1>5. Whole(f, M, A)
  BY <1>1, <1>4 DEF Whole
<1>6. QED
  BY <1>5 DEF M, e

(* A fan-out makes every branch of its fan live.                            *)
LEMMA WholeFork ==
    ASSUME NEW f, Funnelled(f), NEW p \in OfType("parallel"), NEW A
    PROVE  Whole(f, {<<b, b>> : b \in Fan(p)}, A)
<1> DEFINE L == {<<b, b>> : b \in Fan(p)}
<1>1. \A b \in Fan(p) : f.home[b] = p /\ b # None
  <2>1. Graph[p].branches \in Seq(Nodes)
    BY GraphAssumption
  <2>2. Fan(p) \subseteq Nodes
    BY <2>1 DEF Fan
  <2>3. QED
    BY <2>2, NoneAssumption DEF Funnelled
<1>2. \A e \in L : e[2] # None /\ f.home[e[2]] = p
  BY <1>1
<1>3. Accounted(f, p, L, A)
  <2>1. ASSUME NEW b \in Fan(p) PROVE \E d \in L : d[2] = b
    <3>1. <<b, b>> \in L /\ <<b, b>>[2] = b
      OBVIOUS
    <3>2. QED
      BY <3>1
  <2>2. QED
    BY <2>1 DEF Accounted
<1> HIDE DEF L
<1>4. Whole(f, L, A)
  BY <1>2, <1>3, WholeIfAccounted
<1>5. QED
  BY <1>4 DEF L

(* An arrival accounts for its branch.                                      *)
LEMMA WholeArrive ==
    ASSUME NEW f, Funnelled(f), NEW P, NEW S, NEW W, NEW A, Good(f, P, S, W, A),
           Whole(f, S \cup W, A), NEW h \in W, Graph[h[1]].type = "join"
    PROVE  Whole(f, S \cup (W \ {h}), A \cup {<<h[1], h[2]>>})
<1> DEFINE p == f.home[h[2]]
           L == S \cup (W \ {h})
           B == A \cup {<<h[1], h[2]>>}
<1>1. h[2] # None /\ h[1] = f.meet[p] /\ p \in OfType("parallel")
  BY AtItsJoin DEF Good
<1>2. Accounted(f, p, L, B)
  <2>1. ASSUME NEW b \in Fan(p) PROVE <<f.meet[p], b>> \in B \/ \E d \in L : d[2] = b
    <3>1. <<f.meet[p], b>> \in A \/ \E d \in S \cup W : d[2] = b
      BY <1>1 DEF Whole
    <3>2. QED
      BY <1>1, <3>1
  <2>2. QED
    BY <2>1 DEF Accounted
<1>3. \A e \in L : e[2] # None /\ f.home[e[2]] = p
  <2>1. ASSUME NEW e \in L PROVE e[2] # None /\ f.home[e[2]] = p
    <3>1. e # h /\ Siblings(f, e, h)
      BY WalkingIsNew DEF Good
    <3>2. QED
      BY <3>1 DEF Siblings
  <2>2. QED
    BY <2>1
<1> HIDE DEF L, B, p
<1>4. Whole(f, L, B)
  BY <1>1, <1>2, <1>3, WholeIfAccounted
<1>5. QED
  BY <1>4 DEF L, B

(* A token of no branch has no siblings to account for.                     *)
LEMMA WholeMain ==
    ASSUME NEW f, NEW n, NEW A
    PROVE  Whole(f, {<<n, None>>}, A)
<1> DEFINE L == {<<n, None>>}
<1>1. L # {} /\ \A e \in L : e[2] = None
  OBVIOUS
<1> HIDE DEF L
<1>2. Whole(f, L, A)
  BY <1>1 DEF Whole
<1>3. QED
  BY <1>2 DEF L

(* The join counts the arrivals; all of them are of awaited branches.       *)
LEMMA CountIsAll ==
    ASSUME NEW f, Funnelled(f), NEW p \in OfType("parallel"), NEW A,
           \A a \in A : a \in OfType("join") \X Nodes,
           \A a \in A : a[1] = f.meet[p] => a[2] \in Fan(p),
           AllArrived(f.meet[p], A)
    PROVE  \A b \in Fan(p) : <<f.meet[p], b>> \in A
<1> DEFINE j == f.meet[p]
           here == {a \in A : a[1] = j}
           all == {<<j, b>> : b \in Fan(p)}
           F == [b \in Fan(p) |-> <<j, b>>]
<1>1. IsFiniteSet(Fan(p))
  <2>1. Graph[p].branches \in Seq(Nodes)
    BY GraphAssumption
  <2>2. PICK n \in Nat : DOMAIN Graph[p].branches = 1 .. n
    BY <2>1
  <2>3. IsFiniteSet(1 .. n)
    BY <2>2, FS_Interval
  <2> DEFINE G == [i \in 1 .. n |-> Graph[p].branches[i]]
  <2>4. \A i \in 1 .. n : G[i] \in Fan(p)
    BY <2>2 DEF Fan
  <2>5. \A b \in Fan(p) : \E i \in 1 .. n : G[i] = b
    BY <2>2 DEF Fan
  <2>6. G \in [1 .. n -> Fan(p)]
    BY <2>4
  <2> HIDE DEF G
  <2>7. G \in Surjection(1 .. n, Fan(p))
    BY <2>5, <2>6 DEF Surjection
  <2>8. QED
    BY <2>3, <2>7, FS_Surjection
<1>2. IsFiniteSet(all) /\ Cardinality(all) = Cardinality(Fan(p))
  <2>1. \A b \in Fan(p) : F[b] = <<j, b>> /\ F[b] \in all
    OBVIOUS
  <2>2. F \in [Fan(p) -> all] /\ DOMAIN F = Fan(p)
    BY <2>1
  <2>3. \A e \in all : \E b \in Fan(p) : F[b] = e
    BY <2>1
  <2>4. \A a, b \in Fan(p) : F[a] = F[b] => a = b
    BY <2>1
  <2> HIDE DEF F, all
  <2>5. F \in Injection(Fan(p), all)
    BY <2>2, <2>4 DEF Injection, IsInjective
  <2>6. F \in Surjection(Fan(p), all)
    BY <2>2, <2>3 DEF Surjection
  <2>7. F \in Bijection(Fan(p), all)
    BY <2>5, <2>6 DEF Bijection
  <2>8. ExistsBijection(Fan(p), all)
    BY <2>7 DEF ExistsBijection
  <2>9. QED
    BY <1>1, <2>8, FS_Bijection
<1>3. here \subseteq all
  <2>1. ASSUME NEW a \in here PROVE a \in all
    <3>1. a = <<j, a[2]>> /\ a[2] \in Fan(p)
      OBVIOUS
    <3>2. QED
      BY <3>1
  <2>2. QED
    BY <2>1
<1>4. Cardinality(here) >= Cardinality(Fan(p))
  BY DEF AllArrived, Funnelled
<1>5. here = all
  <2>1. Cardinality(here) <= Cardinality(all) /\ (Cardinality(all) = Cardinality(here) => here = all)
    BY <1>2, <1>3, FS_Subset
  <2>2. IsFiniteSet(here) /\ Cardinality(here) \in Nat /\ Cardinality(all) \in Nat
    BY <1>2, <1>3, FS_Subset, FS_CardinalityType
  <2> HIDE DEF here, all
  <2>3. QED
    BY <1>2, <1>4, <2>1, <2>2
<1>6. QED
  BY <1>5

(* Another transaction ends, which has walked in a sibling branch k of b.   *)
LEMMA GoodOther ==
    ASSUME NEW f, Funnelled(f), NEW P, NEW S, NEW A, Good(f, P, S, {}, A),
           NEW h \in S, NEW g \in S, h # g, h[2] # None,
           NEW M, NEW R, Good(f, P \cup M, (S \ {h}) \cup M, {}, A \cup R),
           NEW N, NEW W, NEW Q, Good(f, P \cup N, (S \ {g}) \cup N, W, A \cup Q),
           \A e \in M \cup R : e[2] = h[2], \A e \in N \cup W \cup Q : e[2] = g[2]
    PROVE  Good(f, P \cup M \cup N, (S \ {h, g}) \cup M \cup N, W, A \cup R \cup Q)
<1> DEFINE PP == P \cup M \cup N
           SS == (S \ {h, g}) \cup M \cup N
           AA == A \cup R \cup Q
<1>1. Siblings(f, h, g)
  BY DEF Good
<1>2. h[2] # g[2] /\ h[2] # None /\ g[2] # None /\ f.home[h[2]] = f.home[g[2]]
  BY <1>1 DEF Siblings
<1>3. /\ \A e \in PP : Placed(f, e) /\ Graph[e[1]].type = "approval"
      /\ \A e \in W : Placed(f, e)
      /\ SS \subseteq PP
      /\ \A a \in AA : IsBranch(f, a[2]) /\ a[1] = f.meet[f.home[a[2]]]
  BY DEF Good
<1>4. ASSUME NEW e, NEW d, e[2] = h[2], d[2] = g[2]
      PROVE  /\ Siblings(f, e, d) /\ Siblings(f, d, e)
             /\ After(f, e, d) /\ After(f, d, e)
             /\ AfterArrival(f, e, d) /\ AfterArrival(f, d, e)
  BY <1>2, <1>4 DEF Siblings, After, AfterArrival, Home
<1>5. ASSUME NEW e \in SS \cup W, NEW d \in SS \cup W, e # d PROVE Siblings(f, e, d)
  <2>1. CASE e \in (S \ {h}) \cup M /\ d \in (S \ {h}) \cup M
    BY <1>5, <2>1 DEF Good
  <2>2. CASE e \in (S \ {g}) \cup N \cup W /\ d \in (S \ {g}) \cup N \cup W
    BY <1>5, <2>2 DEF Good
  <2>3. CASE e \in M /\ d \in N \cup W
    BY <1>4, <2>3
  <2>4. CASE d \in M /\ e \in N \cup W
    BY <1>4, <2>4
  <2>5. QED
    BY <2>1, <2>2, <2>3, <2>4
<1>6. ASSUME NEW e \in SS, NEW d \in PP, e # d PROVE After(f, e, d)
  <2>1. CASE e \in (S \ {h}) \cup M /\ d \in P \cup M
    BY <1>6, <2>1 DEF Good
  <2>2. CASE e \in (S \ {g}) \cup N /\ d \in P \cup N
    BY <1>6, <2>2 DEF Good
  <2>3. CASE e \in M /\ d \in N
    BY <1>4, <2>3
  <2>4. CASE d \in M /\ e \in N
    BY <1>4, <2>4
  <2>5. QED
    BY <2>1, <2>2, <2>3, <2>4
<1>7. ASSUME NEW e \in W, NEW d \in PP PROVE After(f, e, d)
  <2>1. CASE d \in P \cup N
    BY <2>1 DEF Good
  <2>2. CASE d \in M
    BY <1>4, <2>2
  <2>3. QED
    BY <2>1, <2>2
<1>8. ASSUME NEW e \in SS \cup W, NEW a \in AA PROVE AfterArrival(f, e, a)
  <2>1. CASE e \in (S \ {h}) \cup M /\ a \in A \cup R
    BY <2>1 DEF Good
  <2>2. CASE e \in (S \ {g}) \cup N \cup W /\ a \in A \cup Q
    BY <2>2 DEF Good
  <2>3. CASE e \in M /\ a \in Q
    BY <1>4, <2>3
  <2>4. CASE e \in N \cup W /\ a \in R
    BY <1>4, <2>4
  <2>5. QED
    BY <2>1, <2>2, <2>3, <2>4
<1> HIDE DEF PP, SS, AA
<1>9. Good(f, PP, SS, W, AA)
  BY <1>3, <1>5, <1>6, <1>7, <1>8 DEF Good
<1>10. QED
  BY <1>9 DEF PP, SS, AA

(* Transactions that keep to two sibling branches lose none together.       *)
LEMMA WholeOther ==
    ASSUME NEW f, Funnelled(f), NEW P, NEW S, NEW A, Good(f, P, S, {}, A),
           NEW h \in S, NEW g \in S, h # g, h[2] # None,
           NEW M, NEW R, Whole(f, (S \ {h}) \cup M, A \cup R),
           NEW L, NEW Q, Whole(f, (S \ {g}) \cup L, A \cup Q),
           \A e \in M : e[2] = h[2], \A e \in L : e[2] = g[2]
    PROVE  Whole(f, (S \ {h, g}) \cup M \cup L, A \cup R \cup Q)
<1> DEFINE p == f.home[h[2]]
           LL == (S \ {h, g}) \cup M \cup L
           AA == A \cup R \cup Q
<1>1. Siblings(f, h, g) /\ Placed(f, h)
  BY DEF Good
<1>2. h[2] # g[2] /\ g[2] # None /\ f.home[g[2]] = p /\ p \in OfType("parallel")
  BY <1>1 DEF Siblings, Placed, IsBranch
<1>3. \A e \in LL : e[2] # None /\ f.home[e[2]] = p
  <2>1. ASSUME NEW e \in LL PROVE e[2] # None /\ f.home[e[2]] = p
    <3>1. CASE e \in S \ {h, g}
      <4>1. Siblings(f, e, h)
        BY <3>1 DEF Good
      <4>2. QED
        BY <4>1 DEF Siblings
    <3>2. CASE e \in M \cup L
      BY <1>2, <3>2
    <3>3. QED
      BY <3>1, <3>2
  <2>2. QED
    BY <2>1
<1>4. ASSUME NEW b \in Fan(p) PROVE <<f.meet[p], b>> \in AA \/ \E d \in LL : d[2] = b
  <2>1. \/ <<f.meet[p], b>> \in A \cup R
        \/ \E d \in (S \ {h}) \cup M : d[2] = b
    <3>1. g \in (S \ {h}) \cup M
      OBVIOUS
    <3>2. QED
      BY <1>2, <3>1 DEF Whole
  <2>2. \/ <<f.meet[p], b>> \in A \cup Q
        \/ \E d \in (S \ {g}) \cup L : d[2] = b
    <3>1. h \in (S \ {g}) \cup L
      OBVIOUS
    <3>2. QED
      BY <3>1 DEF Whole
  <2>3. CASE b # g[2]
    BY <2>1, <2>3
  <2>4. CASE b = g[2]
    <3>1. \A d \in S \ {g} : d[2] # b
      BY <2>4 DEF Good, Siblings
    <3>2. QED
      BY <2>2, <3>1
  <2>5. QED
    BY <2>3, <2>4
<1>5. Accounted(f, p, LL, AA)
  BY <1>4 DEF Accounted
<1> HIDE DEF LL, AA, p
<1>6. Whole(f, LL, AA)
  BY <1>2, <1>3, <1>5, WholeIfAccounted
<1>7. QED
  BY <1>6 DEF LL, AA
-----------------------------------------------------------------------------
(* Queues whose entries are of different branches.                          *)

(* A queue's entries are its head and those of its tail.                    *)
LEMMA TailEntries ==
    ASSUME NEW q \in Seq(Nodes \X Branches), q # <<>>, Distinct(q)
    PROVE  /\ Head(q) \in EntriesOf(q) /\ Head(q) \in Nodes \X Branches
           /\ Tail(q) \in Seq(Nodes \X Branches)
           /\ EntriesOf(Tail(q)) = EntriesOf(q) \ {Head(q)}
           /\ Distinct(Tail(q))
           /\ \A i \in DOMAIN Tail(q) : Tail(q)[i][2] # Head(q)[2]
<1>1. PICK n \in Nat : DOMAIN q = 1 .. n /\ Len(q) = n
  OBVIOUS
<1>2. n >= 1 /\ Head(q) = q[1] /\ Tail(q) \in Seq(Nodes \X Branches)
      /\ DOMAIN Tail(q) = 1 .. n - 1 /\ \A i \in 1 .. n - 1 : Tail(q)[i] = q[i + 1]
  BY <1>1
<1>3. 1 \in DOMAIN q /\ q[1] \in Nodes \X Branches
  BY <1>1, <1>2
<1>4. \A i \in 1 .. n - 1 : i + 1 \in DOMAIN q /\ i + 1 # 1
  BY <1>1
<1>5. \A i \in DOMAIN Tail(q) : Tail(q)[i][2] # Head(q)[2] /\ Tail(q)[i] \in EntriesOf(q)
  BY <1>2, <1>3, <1>4 DEF Distinct, EntriesOf
<1>6. ASSUME NEW i \in DOMAIN q, i # 1 PROVE q[i] \in EntriesOf(Tail(q))
  <2>1. i - 1 \in 1 .. n - 1 /\ (i - 1) + 1 = i
    BY <1>1, <1>6
  <2>2. Tail(q)[i - 1] = q[i]
    BY <1>2, <2>1
  <2>3. QED
    BY <1>2, <2>1, <2>2 DEF EntriesOf
<1>7. EntriesOf(Tail(q)) = EntriesOf(q) \ {Head(q)}
  <2>1. EntriesOf(Tail(q)) \subseteq EntriesOf(q) \ {Head(q)}
    BY <1>5 DEF EntriesOf
  <2>2. EntriesOf(q) \ {Head(q)} \subseteq EntriesOf(Tail(q))
    BY <1>2, <1>6 DEF EntriesOf
  <2>3. QED
    BY <2>1, <2>2
<1>8. Distinct(Tail(q))
  <2>1. ASSUME NEW i \in 1 .. n - 1, NEW k \in 1 .. n - 1, Tail(q)[i][2] = Tail(q)[k][2]
        PROVE  i = k
    <3>1. q[i + 1][2] = q[k + 1][2]
      BY <1>2, <2>1
    <3>2. i + 1 = k + 1
      BY <1>4, <3>1 DEF Distinct
    <3>3. QED
      BY <3>2
  <2>2. QED
    BY <1>2, <2>1 DEF Distinct
<1>9. QED
  BY <1>2, <1>3, <1>5, <1>7, <1>8 DEF EntriesOf

(* One entry of the head's branch takes the head's place.                   *)
LEMMA NextEntry ==
    ASSUME NEW q \in Seq(Nodes \X Branches), q # <<>>, Distinct(q),
           NEW e \in Nodes \X Branches, e[2] = Head(q)[2]
    PROVE  /\ EntriesOf(Tail(q) \o <<e>>) = (EntriesOf(q) \ {Head(q)}) \cup {e}
           /\ Distinct(Tail(q) \o <<e>>)
<1> DEFINE r == Tail(q)
           s == r \o <<e>>
<1>1. /\ r \in Seq(Nodes \X Branches) /\ EntriesOf(r) = EntriesOf(q) \ {Head(q)}
      /\ Distinct(r) /\ \A i \in DOMAIN r : r[i][2] # e[2]
  BY TailEntries
<1> HIDE DEF r
<1>2. PICK n \in Nat : DOMAIN r = 1 .. n /\ Len(r) = n
  BY <1>1
<1>3. DOMAIN s = 1 .. n + 1 /\ s[n + 1] = e /\ \A i \in 1 .. n : s[i] = r[i]
  BY <1>1, <1>2
<1> HIDE DEF s
<1>4. \A i \in 1 .. n + 1 : i = n + 1 \/ i \in 1 .. n
  BY <1>2
<1>5. EntriesOf(s) = EntriesOf(r) \cup {e}
  <2>1. EntriesOf(s) \subseteq EntriesOf(r) \cup {e}
    BY <1>2, <1>3, <1>4 DEF EntriesOf
  <2>2. n + 1 \in 1 .. n + 1 /\ \A i \in 1 .. n : i \in 1 .. n + 1
    BY <1>2
  <2>3. EntriesOf(r) \cup {e} \subseteq EntriesOf(s)
    BY <1>2, <1>3, <2>2 DEF EntriesOf
  <2>4. QED
    BY <2>1, <2>3
<1>6. Distinct(s)
  <2>1. ASSUME NEW i \in 1 .. n + 1, NEW k \in 1 .. n + 1, s[i][2] = s[k][2] PROVE i = k
    <3>1. CASE i \in 1 .. n /\ k \in 1 .. n
      <4>1. Distinct(r)
        BY <1>1
      <4>2. \A a, b \in 1 .. n : r[a][2] = r[b][2] => a = b
        BY <1>2, <4>1, Zenon DEF Distinct
      <4>3. s[i] = r[i] /\ s[k] = r[k]
        BY <1>3, <3>1
      <4>4. QED
        BY <2>1, <3>1, <4>2, <4>3
    <3>2. \A m \in 1 .. n : s[m][2] # s[n + 1][2]
      BY <1>1, <1>2, <1>3
    <3>3. ~(i = n + 1 /\ k \in 1 .. n) /\ ~(k = n + 1 /\ i \in 1 .. n)
      BY <2>1, <3>2
    <3>4. QED
      BY <1>4, <3>1, <3>2, <3>3
  <2>2. QED
    BY <1>3, <2>1 DEF Distinct
<1>7. QED
  BY <1>1, <1>5, <1>6 DEF s, r

(* The head was alone.                                                      *)
LEMMA AloneInQueue ==
    ASSUME NEW q \in Seq(Nodes \X Branches), q # <<>>, Distinct(q),
           EntriesOf(q) = {Head(q)}, NEW r \in Seq(Nodes \X Branches)
    PROVE  Tail(q) \o r = r
<1>1. EntriesOf(Tail(q)) = {} /\ Tail(q) \in Seq(Nodes \X Branches)
  BY TailEntries
<1>2. Tail(q) = <<>>
  <2>1. SUFFICES ASSUME Tail(q) # <<>> PROVE FALSE
    OBVIOUS
  <2>2. 1 \in DOMAIN Tail(q)
    BY <1>1, <2>1
  <2>3. QED
    BY <1>1, <2>2 DEF EntriesOf
<1>3. QED
  BY <1>2, ConcatEmptySeq

-----------------------------------------------------------------------------
(* What a transaction sees, and steps that only change one transaction.     *)

(* A transaction's part holds on where no committed row changes.            *)
LEMMA SameRows ==
    ASSUME NEW f, NEW x, UNCHANGED <<task, instance, arrived>>, WalkInv(f, x)
    PROVE  WalkInv(f, x)'
<1>1. /\ Past(x)' = Past(x) /\ Standing(x)' = Standing(x) /\ Seen(x)' = Seen(x)
      /\ Made(x)' = Made(x) /\ Walks(x)' = Walks(x)
  BY DEF Past, Standing, Seen, Made, Walks, EntryOf
<1>2. Once(x)'
  BY DEF WalkInv, Once, EntryOf
<1>3. Narrow(x)'
  BY <1>1 DEF WalkInv, Narrow, Keeps
<1>4. QED
  BY <1>1, <1>2, <1>3 DEF WalkInv

(* It does not depend on the phase, nor on what gets cancelled.             *)
LEMMA SameView ==
    ASSUME NEW f, NEW x, NEW y, WalkInv(f, x),
           y.completes = x.completes, y.starts = x.starts, y.queue = x.queue,
           y.creates = x.creates, y.arrives = x.arrives,
           y.verdict = x.verdict \/ y.verdict # None
    PROVE  WalkInv(f, y)
<1>1. /\ Past(y) = Past(x) /\ Standing(y) = Standing(x) /\ Seen(y) = Seen(x)
      /\ Made(y) = Made(x) /\ Walks(y) = Walks(x)
  BY DEF Past, Standing, Seen, Made, Walks, EntryOf
<1>2. Once(y)
  BY DEF WalkInv, Once, EntryOf
<1>3. Narrow(y)
  BY <1>1 DEF WalkInv, Narrow, Keeps
<1>4. QED
  BY <1>1, <1>2, <1>3 DEF WalkInv

(* A step that changes one transaction's record and no committed row.       *)
LEMMA StepOf ==
    ASSUME NEW f, IInv, WalksInv(f), NEW c \in Callers, NEW x,
           tx' = [tx EXCEPT ![c] = x], UNCHANGED <<task, instance, arrived>>, WalkInv(f, x)
    PROVE  WalksInv(f)'
<1>1. tx'[c] = x /\ \A d \in Callers \ {c} : tx'[d] = tx[d]
  BY DEF IInv, TypeOK
<1>2. ASSUME NEW d \in Callers PROVE WalkInv(f, tx[d])'
  <2>1. PICK y : y = tx'[d]
    OBVIOUS
  <2>2. WalkInv(f, y)
    BY <1>1, <2>1 DEF WalksInv
  <2>3. WalkInv(f, y)'
    BY <2>2, SameRows
  <2>4. QED
    BY <2>1, <2>3
<1>3. WalkInv(f, Idle)'
  BY SameRows DEF WalksInv
<1>4. ActivatedOnce'
  BY DEF WalksInv, ActivatedOnce
<1>5. QED
  BY <1>2, <1>3, <1>4 DEF WalksInv

(* A step that changes neither rows nor transactions.                       *)
LEMMA NoStep ==
    ASSUME NEW f, WalksInv(f), UNCHANGED <<task, instance, arrived, tx>>
    PROVE  WalksInv(f)'
<1>1. ASSUME NEW d \in Callers PROVE WalkInv(f, tx[d])'
  <2>1. PICK y : y = tx[d]
    OBVIOUS
  <2>2. WalkInv(f, y)'
    BY <2>1, SameRows DEF WalksInv
  <2>3. QED
    BY <2>1, <2>2
<1>2. WalkInv(f, Idle)'
  BY SameRows DEF WalksInv
<1>3. ActivatedOnce'
  BY DEF WalksInv, ActivatedOnce
<1>4. QED
  BY <1>1, <1>2, <1>3 DEF WalksInv

(* The head h of the queue of a transaction x that walks.                   *)
AtTheHead(f, c, type, x, h) ==
    /\ x.queue \in Seq(Nodes \X Branches) /\ x.queue # <<>> /\ Distinct(x.queue)
    /\ h \in Nodes \X Branches /\ h[1] = Here(c) /\ h[2] = Branch(c)
    /\ Graph[h[1]].type = type /\ h[1] \in OfType(type)
    /\ h \in Walks(x) /\ h \notin Standing(x) /\ h \notin Past(x)
    /\ Placed(f, h) /\ x.verdict = None /\ (x.starts \/ x.completes # None)
    /\ WalkInv(f, x) /\ Once(x) /\ Narrow(x)
    /\ Good(f, Past(x), Standing(x), Walks(x), Seen(x))
    /\ instance = "pending" \/ x.starts => Whole(f, Standing(x) \cup Walks(x), Seen(x))

(* What is known of the entry at the head of the walk.                      *)
LEMMA AtHead ==
    ASSUME NEW f, Funnelled(f), IInv, WalksInv(f), NEW c \in Callers,
           NEW type, AtNode(c, type), NEW x, x = tx[c], NEW h, h = Head(x.queue)
    PROVE  AtTheHead(f, c, type, x, h)
<1>1. WalkInv(f, x)
  BY DEF WalksInv
<1>2. /\ Once(x) /\ Narrow(x)
      /\ Good(f, Past(x), Standing(x), Walks(x), Seen(x))
  BY <1>1 DEF WalkInv
<1>3. x.verdict = None /\ (x.starts \/ x.completes # None) /\ h[1] \in OfType(type)
  BY Walking DEF TxInv, Shape, Here
<1>4. x.queue \in Seq(Nodes \X Branches) /\ x.queue # <<>> /\ Distinct(x.queue)
  BY <1>2, Walking DEF TxType, AtNode, Once
<1>5. h \in Walks(x) /\ h \in Nodes \X Branches
  BY <1>4, TailEntries DEF Walks
<1>6. h \notin Standing(x) /\ h \notin Past(x) /\ Placed(f, h)
  <2>1. h \notin Standing(x) /\ h \notin Past(x)
    BY <1>2, <1>5, WalkingIsNew
  <2>2. Placed(f, h)
    BY <1>2, <1>5 DEF Good
  <2>3. QED
    BY <2>1, <2>2
<1>7. QED
  BY <1>1, <1>2, <1>3, <1>4, <1>5, <1>6 DEF AtTheHead, WalkInv, Here, Branch, OfType

(* A transaction goes on with another queue, in the same branch.            *)
LEMMA RoutingWalks ==
    ASSUME NEW f, Funnelled(f), IInv, WalksInv(f), NEW c \in Callers,
           NEW type \in {"condition", "notify"}, AtNode(c, type),
           NEW s \in Nodes, Leads(f, Here(c), s),
           tx' = [tx EXCEPT ![c] = Walk(c, <<<<s, Branch(c)>>>>)], UNCHANGED <<db, noted>>
    PROVE  WalksInv(f)'
<1>1. PICK x : x = tx[c]
  OBVIOUS
<1>2. PICK h : h = Head(x.queue)
  OBVIOUS
<1> DEFINE e == <<s, h[2]>>
           y == Walk(c, <<<<s, Branch(c)>>>>)
<1>3. AtTheHead(f, c, type, x, h)
  BY <1>1, <1>2, AtHead
<1>4. e \in Nodes \X Branches /\ e[2] = h[2]
  BY <1>3 DEF AtTheHead
<1>5. /\ y.completes = x.completes /\ y.starts = x.starts /\ y.creates = x.creates
      /\ y.arrives = x.arrives /\ y.verdict = x.verdict /\ y.queue = Tail(x.queue) \o <<e>>
  <2>1. x \in TxType
    BY <1>1, TypeFacts DEF IInv
  <2>2. QED
    BY <1>1, <1>3, <2>1 DEF AtTheHead, Walk, TxType
<1> HIDE DEF y, e
<1>6. Walks(y) = (Walks(x) \ {h}) \cup {e} /\ Distinct(y.queue)
  BY <1>2, <1>3, <1>4, <1>5, NextEntry DEF AtTheHead, Walks
<1>7. /\ Past(y) = Past(x) /\ Standing(y) = Standing(x) /\ Seen(y) = Seen(x)
      /\ Made(y) = Made(x)
  BY <1>5 DEF Past, Standing, Seen, Made
<1>8. Good(f, Past(y), Standing(y), Walks(y), Seen(y))
  <2>1. Good(f, Past(x), Standing(x) \ {h}, (Walks(x) \ {h}) \cup {<<s, h[2]>>}, Seen(x))
    BY <1>3, GoodMove DEF AtTheHead
  <2>2. Standing(x) \ {h} = Standing(x)
    BY <1>3 DEF AtTheHead
  <2>3. QED
    BY <1>6, <1>7, <2>1, <2>2 DEF e
<1>9. Once(y)
  BY <1>3, <1>5, <1>6 DEF AtTheHead, Once
<1>10. Narrow(y)
  BY <1>3, <1>4, <1>5, <1>6, <1>7 DEF AtTheHead, Narrow, Keeps
<1>11. ASSUME instance = "pending" \/ x.starts
       PROVE  Whole(f, Standing(y) \cup Walks(y), Seen(y))
  <2>1. Whole(f, ((Standing(x) \cup Walks(x)) \ {h}) \cup {<<s, h[2]>>}, Seen(x))
    BY <1>3, <1>11, WholeMove DEF AtTheHead
  <2>2. ((Standing(x) \cup Walks(x)) \ {h}) \cup {<<s, h[2]>>} = Standing(y) \cup Walks(y)
    BY <1>3, <1>6, <1>7 DEF AtTheHead, e
  <2>3. QED
    BY <1>7, <2>1, <2>2
<1>12. WalkInv(f, y)
  BY <1>3, <1>5, <1>8, <1>9, <1>10, <1>11 DEF AtTheHead, WalkInv
<1>13. QED
  BY <1>12, StepOf DEF y, db

(* A condition moves the walk on (activateNode).                            *)
LEMMA EvaluateConditionWalks ==
    ASSUME NEW f, Funnelled(f), IInv, WalksInv(f), NEW c \in Callers, EvaluateCondition(c)
    PROVE  WalksInv(f)'
<1>1. Here(c) \in OfType("condition")
  BY Walking DEF EvaluateCondition
<1>2. PICK next \in {Graph[Here(c)].onTrue, Graph[Here(c)].onFalse} :
        tx' = [tx EXCEPT ![c] = Walk(c, <<<<next, Branch(c)>>>>)]
  BY DEF EvaluateCondition
<1>3. next \in Nodes /\ Leads(f, Here(c), next)
  BY <1>1, <1>2, GraphAssumption DEF Funnelled
<1>4. QED
  BY <1>2, <1>3, RoutingWalks DEF EvaluateCondition

(* A notification moves the walk on (activateNode).                         *)
LEMMA NotifyWalks ==
    ASSUME NEW f, Funnelled(f), IInv, WalksInv(f), NEW c \in Callers, Notify(c)
    PROVE  WalksInv(f)'
<1>1. Here(c) \in OfType("notify")
  BY Walking DEF Notify
<1>2. Graph[Here(c)].next \in Nodes /\ Leads(f, Here(c), Graph[Here(c)].next)
  BY <1>1, GraphAssumption DEF Funnelled
<1>3. QED
  BY <1>2, RoutingWalks DEF Notify

(* A parallel node queues its branches (activateNode).                      *)
LEMMA FanOutWalks ==
    ASSUME NEW f, Funnelled(f), IInv, WalksInv(f), NEW c \in Callers, FanOut(c)
    PROVE  WalksInv(f)'
<1>1. PICK x : x = tx[c]
  OBVIOUS
<1>2. PICK h : h = Head(x.queue)
  OBVIOUS
<1> DEFINE p == h[1]
           branches == Graph[p].branches
           q == [i \in DOMAIN branches |-> <<branches[i], branches[i]>>]
           y == [x EXCEPT !.queue = Tail(@) \o q]
<1>3. AtNode(c, "parallel") /\ AtTheHead(f, c, "parallel", x, h)
  BY <1>1, <1>2, AtHead DEF FanOut
<1>4. /\ h[2] = None /\ Standing(x) = {} /\ Walks(x) = {h} /\ p \in OfType("parallel")
      /\ Good(f, Past(x), {}, {<<b, b>> : b \in Fan(p)}, Seen(x))
  BY <1>3, GoodFork DEF AtTheHead
<1>5. branches \in Seq(Nodes) /\ \A i, k \in DOMAIN branches : branches[i] = branches[k] => i = k
  BY <1>4, GraphAssumption DEF Funnelled
<1>6. /\ q \in Seq(Nodes \X Branches) /\ Distinct(q)
      /\ EntriesOf(q) = {<<b, b>> : b \in Fan(p)}
  <2>1. q \in Seq(Nodes \X Branches)
    <3>1. PICK n \in Nat : branches \in [1 .. n -> Nodes]
      BY <1>5
    <3> HIDE DEF branches
    <3>2. q \in [1 .. n -> Nodes \X Branches]
      BY <3>1 DEF Branches
    <3> HIDE DEF q
    <3>3. QED
      BY <3>2
  <2> HIDE DEF branches
  <2>2. DOMAIN q = DOMAIN branches /\ \A i \in DOMAIN branches : q[i] = <<branches[i], branches[i]>>
    OBVIOUS
  <2>3. Fan(p) = {branches[i] : i \in DOMAIN branches}
    BY DEF Fan, branches
  <2> HIDE DEF q
  <2>4. Distinct(q)
    BY <1>5, <2>2 DEF Distinct
  <2>5. EntriesOf(q) = {<<b, b>> : b \in Fan(p)}
    BY <2>2, <2>3 DEF EntriesOf
  <2>6. QED
    BY <2>1, <2>4, <2>5
<1>7. /\ tx' = [tx EXCEPT ![c] = y] /\ UNCHANGED <<db, noted>>
      /\ y.completes = x.completes /\ y.starts = x.starts /\ y.creates = x.creates
      /\ y.arrives = x.arrives /\ y.verdict = x.verdict /\ y.queue = Tail(x.queue) \o q
  <2>1. x \in TxType
    BY <1>1, TypeFacts DEF IInv
  <2>2. h[1] = Here(c)
    BY <1>3 DEF AtTheHead
  <2>3. tx' = [tx EXCEPT ![c] = y] /\ UNCHANGED <<db, noted>>
    BY <1>1, <2>2 DEF FanOut, Walk
  <2> HIDE DEF q
  <2>4. QED
    BY <2>1, <2>3 DEF TxType
<1> HIDE DEF y, q, branches, p
<1>8. y.queue = q
  <2>1. EntriesOf(x.queue) = {Head(x.queue)}
    BY <1>2, <1>4 DEF Walks
  <2>2. QED
    BY <1>3, <1>6, <1>7, <2>1, AloneInQueue DEF AtTheHead
<1>9. /\ Walks(y) = {<<b, b>> : b \in Fan(p)} /\ Past(y) = Past(x) /\ Standing(y) = {}
      /\ Seen(y) = Seen(x)
  <2>1. Standing(y) = Standing(x) /\ Past(y) = Past(x) /\ Seen(y) = Seen(x)
    BY <1>7 DEF Past, Standing, Seen, Made
  <2>2. QED
    BY <1>4, <1>6, <1>8, <2>1 DEF Walks
<1>10. Once(y)
  BY <1>3, <1>6, <1>7, <1>8 DEF AtTheHead, Once
<1>11. Narrow(y)
  BY <1>9 DEF Narrow, Standing
<1>12. Whole(f, Standing(y) \cup Walks(y), Seen(y))
  <2>1. Whole(f, {<<b, b>> : b \in Fan(p)}, Seen(y))
    BY <1>4, WholeFork
  <2>2. QED
    BY <1>9, <2>1
<1>13. WalkInv(f, y)
  <2>1. Good(f, Past(y), Standing(y), Walks(y), Seen(y))
    BY <1>4, <1>9
  <2>2. QED
    BY <1>3, <1>7, <1>10, <1>11, <1>12, <2>1 DEF AtTheHead, WalkInv
<1>14. QED
  BY <1>7, <1>13, StepOf DEF db

(* An approval node makes its task (createApprovalTask).                    *)
LEMMA CreateTaskWalks ==
    ASSUME NEW f, Funnelled(f), IInv, WalksInv(f), NEW c \in Callers, CreateTask(c)
    PROVE  WalksInv(f)'
<1>1. PICK x : x = tx[c]
  OBVIOUS
<1>2. PICK h : h = Head(x.queue)
  OBVIOUS
<1>3. AtNode(c, "approval") /\ AtTheHead(f, c, "approval", x, h)
  BY <1>1, <1>2, AtHead DEF CreateTask
<1>4. PICK id : id = CHOOSE t \in Unused : TRUE
  OBVIOUS
<1> DEFINE n == [id |-> id, node |-> Here(c), branch |-> Branch(c)]
           y == [Walk(c, <<>>) EXCEPT !.creates = @ \cup {n}]
<1>5. tx' = [tx EXCEPT ![c] = y] /\ UNCHANGED <<db, noted>>
  BY <1>4 DEF CreateTask
<1>6. /\ y.completes = x.completes /\ y.starts = x.starts /\ y.creates = x.creates \cup {n}
      /\ y.arrives = x.arrives /\ y.verdict = x.verdict /\ y.queue = Tail(x.queue) \o <<>>
  <2>1. x \in TxType
    BY <1>1, TypeFacts DEF IInv
  <2> HIDE DEF n
  <2>2. QED
    BY <1>1, <2>1 DEF Walk, TxType
<1>7. <<n.node, n.branch>> = h
  BY <1>3 DEF AtTheHead
<1> HIDE DEF y, n
<1>8. Walks(y) = Walks(x) \ {h} /\ Distinct(y.queue)
  <2>1. /\ Tail(x.queue) \in Seq(Nodes \X Branches) /\ Distinct(Tail(x.queue))
        /\ EntriesOf(Tail(x.queue)) = EntriesOf(x.queue) \ {h}
    BY <1>2, <1>3, TailEntries DEF AtTheHead
  <2>2. y.queue = Tail(x.queue)
    BY <1>6, <2>1, ConcatEmptySeq
  <2>3. QED
    BY <2>1, <2>2 DEF Walks
<1>9. Made(y) = Made(x) \cup {h}
  BY <1>6, <1>7 DEF Made
<1>10. /\ Past(y) = Past(x) \cup {h} /\ Standing(y) = Standing(x) \cup {h}
       /\ Seen(y) = Seen(x)
  BY <1>6, <1>9 DEF Past, Standing, Seen
<1>11. Good(f, Past(y), Standing(y), Walks(y), Seen(y))
  <2>1. Good(f, Past(x) \cup {h}, Standing(x) \cup {h}, Walks(x) \ {h}, Seen(x))
    BY <1>3, GoodCreate DEF AtTheHead
  <2>2. QED
    BY <1>8, <1>10, <2>1
<1>12. Once(y)
  <2>1. \A m \in x.creates : <<m.node, m.branch>> # h
    BY <1>3 DEF AtTheHead, Past, Made
  <2>2. \A t \in TaskIds : task[t].status # "unused" => EntryOf(t) # h
    BY <1>3 DEF AtTheHead, Past
  <2>3. Once(x)
    BY <1>3 DEF AtTheHead
  <2>4. \A m, k \in y.creates : m.node = k.node /\ m.branch = k.branch => m = k
    BY <1>6, <1>7, <2>1, <2>3 DEF Once
  <2>5. \A m \in y.creates, t \in TaskIds :
            task[t].status # "unused" => EntryOf(t) # <<m.node, m.branch>>
    BY <1>6, <1>7, <2>2, <2>3 DEF Once
  <2>6. QED
    BY <1>8, <2>4, <2>5 DEF Once
<1>13. Narrow(y)
  <2>1. Walks(y) \cup Made(y) \cup y.arrives = Walks(x) \cup Made(x) \cup x.arrives
    BY <1>3, <1>6, <1>8, <1>9 DEF AtTheHead
  <2>2. QED
    BY <1>3, <1>6, <2>1 DEF AtTheHead, Narrow, Keeps
<1>14. ASSUME instance = "pending" \/ x.starts
       PROVE  Whole(f, Standing(y) \cup Walks(y), Seen(y))
  <2>1. Standing(y) \cup Walks(y) = Standing(x) \cup Walks(x)
    BY <1>3, <1>8, <1>10 DEF AtTheHead
  <2>2. QED
    BY <1>3, <1>10, <1>14, <2>1 DEF AtTheHead
<1>15. WalkInv(f, y)
  BY <1>3, <1>6, <1>11, <1>12, <1>13, <1>14 DEF AtTheHead, WalkInv
<1>16. QED
  BY <1>5, <1>15, StepOf DEF db

(* The arrivals at a join are of the branches it awaits.                    *)
LEMMA ArrivalsAwaited ==
    ASSUME NEW f, Funnelled(f), NEW P, NEW S, NEW W, NEW A, Good(f, P, S, W, A),
           NEW h \in W, Graph[h[1]].type = "join",
           NEW a \in A \cup {<<h[1], h[2]>>}, a[1] = h[1]
    PROVE  a[2] \in Fan(f.home[h[2]])
<1>1. /\ IsBranch(f, h[2]) /\ h[1] = f.meet[f.home[h[2]]]
      /\ Graph[h[1]].awaits = Fan(f.home[h[2]])
  BY AtItsJoin DEF Good
<1>2. IsBranch(f, a[2]) /\ a[1] = f.meet[f.home[a[2]]]
  BY <1>1 DEF Good
<1>3. Graph[a[1]].awaits = Fan(f.home[a[2]]) /\ a[2] \in Fan(f.home[a[2]])
  BY <1>2 DEF Funnelled, IsBranch
<1>4. QED
  BY <1>1, <1>3

(* A join records the arrival, and goes on if it sees all (activateNode).   *)
LEMMA JoinWalks ==
    ASSUME NEW f, Funnelled(f), IInv, WalksInv(f), NEW c \in Callers, Join(c)
    PROVE  WalksInv(f)'
<1>1. PICK x : x = tx[c]
  OBVIOUS
<1>2. PICK h : h = Head(x.queue)
  OBVIOUS
<1> DEFINE a == <<h[1], h[2]>>
           full == AllArrived(Here(c), Arrivals(c))
           q == IF full THEN <<<<Graph[Here(c)].next, None>>>> ELSE <<>>
           y == [Walk(c, q) EXCEPT !.arrives = Arrivals(c) \ arrived]
<1>3. AtNode(c, "join") /\ AtTheHead(f, c, "join", x, h)
  BY <1>1, <1>2, AtHead DEF Join
<1>4. tx' = [tx EXCEPT ![c] = y] /\ UNCHANGED <<db, noted>>
  BY DEF Join
<1>5. /\ y.completes = x.completes /\ y.starts = x.starts /\ y.creates = x.creates
      /\ y.arrives = Arrivals(c) \ arrived /\ y.verdict = x.verdict
      /\ y.queue = Tail(x.queue) \o q
  <2>1. x \in TxType
    BY <1>1, TypeFacts DEF IInv
  <2> HIDE DEF q
  <2>2. QED
    BY <1>1, <2>1 DEF Walk, TxType
<1>6. /\ h[2] # None /\ IsBranch(f, h[2]) /\ h[1] = f.meet[f.home[h[2]]]
      /\ f.home[h[2]] \in OfType("parallel") /\ h[1] \in OfType("join")
  BY <1>3, AtItsJoin DEF AtTheHead
<1>7. Arrivals(c) = Seen(x) \cup {a}
  BY <1>1, <1>3, <1>6 DEF AtTheHead, Arrivals, Seen
<1>8. /\ Seen(y) = Seen(x) \cup {a} /\ y.arrives \subseteq x.arrives \cup {a}
      /\ Past(y) = Past(x) /\ Standing(y) = Standing(x) /\ Made(y) = Made(x)
  BY <1>5, <1>7 DEF Seen, Past, Standing, Made
<1>9. Tail(x.queue) \in Seq(Nodes \X Branches) /\ Distinct(Tail(x.queue))
      /\ EntriesOf(Tail(x.queue)) = Walks(x) \ {h}
  BY <1>2, <1>3, TailEntries DEF AtTheHead, Walks
<1>10. CASE ~full
  <2>1. y.queue = Tail(x.queue)
    BY <1>5, <1>9, <1>10, ConcatEmptySeq
  <2> HIDE DEF y, a, full, q
  <2>2. Walks(y) = Walks(x) \ {h} /\ Distinct(y.queue)
    BY <1>9, <2>1 DEF Walks
  <2>3. Good(f, Past(y), Standing(y), Walks(y), Seen(y))
    <3>1. Good(f, Past(x), Standing(x), Walks(x) \ {h}, Seen(x) \cup {<<h[1], h[2]>>})
      BY <1>3, GoodArrive DEF AtTheHead
    <3>2. QED
      BY <1>8, <2>2, <3>1 DEF a
  <2>4. ASSUME instance = "pending" \/ x.starts
        PROVE  Whole(f, Standing(y) \cup Walks(y), Seen(y))
    <3>1. Whole(f, Standing(x) \cup (Walks(x) \ {h}), Seen(x) \cup {<<h[1], h[2]>>})
      BY <1>3, <2>4, WholeArrive DEF AtTheHead
    <3>2. QED
      BY <1>8, <2>2, <3>1 DEF a
  <2>5. Once(y)
    BY <1>3, <1>5, <2>2 DEF AtTheHead, Once
  <2>6. Narrow(y)
    <3>1. \A b : Keeps(x, b) => Keeps(y, b)
      <4>1. ASSUME NEW b, Keeps(x, b) PROVE Keeps(y, b)
        <5>1. h[2] = b
          BY <1>3, <4>1 DEF AtTheHead, Keeps
        <5>2. a[2] = b
          BY <5>1 DEF a
        <5>3. QED
          BY <1>8, <2>2, <4>1, <5>2 DEF Keeps
      <4>2. QED
        BY <4>1
    <3>2. QED
      BY <1>3, <1>5, <3>1 DEF AtTheHead, Narrow
  <2>7. WalkInv(f, y)
    BY <1>3, <1>5, <2>3, <2>4, <2>5, <2>6 DEF AtTheHead, WalkInv
  <2>8. QED
    BY <1>4, <2>7, StepOf DEF db
<1>11. CASE full
  <2> DEFINE p == f.home[h[2]]
             next == Graph[h[1]].next
  <2>1. \A b \in Fan(p) : <<h[1], b>> \in Seen(x) \cup {a}
    <3>1. Arrivals(c) \subseteq OfType("join") \X Nodes
      <4>1. Seen(x) \subseteq OfType("join") \X Nodes
        BY <1>1 DEF IInv, TypeOK, Seen
      <4>2. a \in OfType("join") \X Nodes
        BY <1>6 DEF IsBranch
      <4> HIDE DEF a
      <4>3. QED
        BY <1>7, <4>1, <4>2
    <3>2. \A e \in Arrivals(c) : e[1] = f.meet[p] => e[2] \in Fan(p)
      BY <1>3, <1>6, <1>7, ArrivalsAwaited DEF AtTheHead
    <3>3. AllArrived(f.meet[p], Arrivals(c))
      BY <1>3, <1>6, <1>11 DEF AtTheHead
    <3> HIDE DEF a, full, q, y, p
    <3>4. \A b \in Fan(p) : <<f.meet[p], b>> \in Arrivals(c)
      BY <1>6, <3>1, <3>2, <3>3, CountIsAll DEF p
    <3>5. QED
      BY <1>6, <1>7, <3>4 DEF p
  <2>2. /\ Standing(x) = {} /\ Walks(x) = {h}
        /\ Good(f, Past(x), {}, {<<next, None>>}, Seen(x) \cup {<<h[1], h[2]>>})
    BY <1>3, <2>1, GoodJoin DEF AtTheHead
  <2>3. <<<<next, None>>>> \in Seq(Nodes \X Branches)
    <3>1. next \in Nodes
      BY <1>6, GraphAssumption
    <3>2. <<next, None>> \in Nodes \X Branches
      BY <3>1 DEF Branches
    <3>3. QED
      BY <3>2
  <2>4. y.queue = <<<<next, None>>>>
    <3>1. q = <<<<next, None>>>>
      BY <1>3, <1>11 DEF AtTheHead
    <3>2. EntriesOf(x.queue) = {Head(x.queue)}
      BY <1>2, <2>2 DEF Walks
    <3> HIDE DEF q, y, next
    <3>3. QED
      BY <1>3, <1>5, <2>3, <3>1, <3>2, AloneInQueue DEF AtTheHead
  <2> HIDE DEF y, full, q
  <2>5. Walks(y) = {<<next, None>>} /\ Distinct(y.queue)
    BY <2>4 DEF Walks, EntriesOf, Distinct
  <2> HIDE DEF a, next, p
  <2>6. Good(f, Past(y), Standing(y), Walks(y), Seen(y))
    BY <1>8, <2>2, <2>5 DEF a
  <2>7. Whole(f, Standing(y) \cup Walks(y), Seen(y))
    <3>1. Whole(f, {<<next, None>>}, Seen(y))
      BY WholeMain
    <3>2. QED
      BY <1>8, <2>2, <2>5, <3>1
  <2>8. Once(y)
    BY <1>3, <1>5, <2>5 DEF AtTheHead, Once
  <2>9. Narrow(y)
    BY <1>8, <2>2 DEF Narrow, Standing
  <2>10. WalkInv(f, y)
    BY <1>3, <1>5, <2>6, <2>7, <2>8, <2>9 DEF AtTheHead, WalkInv
  <2>11. QED
    BY <1>4, <2>10, StepOf DEF db
<1>12. QED
  BY <1>10, <1>11

(* A step that changes one record, in terms of the model's UNCHANGED.       *)
LEMMA IdleWalks ==
    ASSUME NEW f, IInv, WalksInv(f), NEW c \in Callers, NEW x,
           WalkInv(f, x), tx' = [tx EXCEPT ![c] = x], UNCHANGED <<db, noted>>
    PROVE  WalksInv(f)'
BY StepOf DEF db

(* An end node sets the verdict and ends the walk (activateNode).           *)
LEMMA FinishWalks ==
    ASSUME NEW f, Funnelled(f), IInv, WalksInv(f), NEW c \in Callers, Finish(c)
    PROVE  WalksInv(f)'
<1>1. PICK x : x = tx[c]
  OBVIOUS
<1>2. AtNode(c, "end") /\ AtTheHead(f, c, "end", x, Head(x.queue))
  BY <1>1, AtHead DEF Finish
<1> DEFINE outcome == Graph[Here(c)].outcome
           y == [x EXCEPT !.phase = "close", !.queue = <<>>, !.verdict = outcome]
<1>3. UNCHANGED <<db, noted>> /\ (tx' = [tx EXCEPT ![c] = y] \/ tx' = [tx EXCEPT ![c] = Idle])
  BY <1>1 DEF Finish
<1>4. outcome # None
  <2>1. outcome \in {"approved", "rejected"}
    BY <1>2, Walking, GraphAssumption
  <2>2. QED
    BY <2>1, NoVerdictAssumption DEF Final
<1>5. /\ y.completes = x.completes /\ y.starts = x.starts /\ y.creates = x.creates
      /\ y.arrives = x.arrives /\ y.verdict # None /\ y.queue = <<>>
  <2>1. x \in TxType
    BY <1>1, TypeFacts DEF IInv
  <2> HIDE DEF outcome
  <2>2. QED
    BY <1>4, <2>1 DEF TxType
<1> HIDE DEF y, outcome
<1>6. /\ Past(y) = Past(x) /\ Standing(y) = Standing(x) /\ Seen(y) = Seen(x)
      /\ Made(y) = Made(x) /\ Walks(y) = {} /\ Distinct(y.queue)
  <2>1. EntriesOf(<<>>) = {} /\ Distinct(<<>>)
    BY DEF EntriesOf, Distinct
  <2>2. QED
    BY <1>5, <2>1 DEF Past, Standing, Seen, Made, Walks
<1>7. Good(f, Past(y), Standing(y), Walks(y), Seen(y))
  BY <1>2, <1>6, GoodLess DEF AtTheHead
<1>8. Once(y)
  BY <1>2, <1>5, <1>6 DEF AtTheHead, Once
<1>9. Narrow(y)
  BY <1>2, <1>5, <1>6 DEF AtTheHead, Narrow, Keeps
<1>10. WalkInv(f, y)
  BY <1>2, <1>5, <1>7, <1>8, <1>9 DEF AtTheHead, WalkInv
<1>11. WalkInv(f, Idle)
  BY DEF WalksInv
<1>12. QED
  BY <1>3, <1>10, <1>11, IdleWalks

(* A closing transaction walks no more.                                     *)
LEMMA ClosingWalks ==
    ASSUME NEW f, Funnelled(f), IInv, WalksInv(f), NEW c \in Callers,
           BeginSweep(c) \/ \E t \in TaskIds : SweepTask(c, t)
    PROVE  WalksInv(f)'
<1>1. PICK x : x = tx[c]
  OBVIOUS
<1>2. x \in TxType /\ WalkInv(f, x)
  BY <1>1, TypeFacts DEF IInv, WalksInv
<1>3. PICK phase, sweep, cancels :
        tx' = [tx EXCEPT ![c] = [x EXCEPT !.phase = phase, !.sweep = sweep, !.cancels = cancels]]
  <2>1. tx = [d \in Callers |-> tx[d]]
    BY DEF IInv, TypeOK
  <2>2. CASE BeginSweep(c)
    <3>1. tx' = [tx EXCEPT ![c] = [x EXCEPT !.phase = "sweep", !.sweep = SeenPending(c),
                                            !.cancels = x.cancels]]
      BY <1>1, <1>2, <2>1, <2>2 DEF BeginSweep, TxType
    <3>2. QED
      BY <3>1
  <2>3. CASE \E t \in TaskIds : SweepTask(c, t)
    <3>1. PICK t \in TaskIds : SweepTask(c, t)
      BY <2>3
    <3>2. PICK s, r : s = x.sweep \ {t} /\ r = IF task[t].status = "pending" \/ t \in Created(c)
                                               THEN x.cancels \cup {t} ELSE x.cancels
      OBVIOUS
    <3>3. tx' = [tx EXCEPT ![c] = [x EXCEPT !.phase = x.phase, !.sweep = s, !.cancels = r]]
      <4>1. tx' = [tx EXCEPT ![c].sweep = s, ![c].cancels = r]
        BY <1>1, <3>1, <3>2 DEF SweepTask
      <4>2. tx' = [tx EXCEPT ![c] = [x EXCEPT !.sweep = s, !.cancels = r]]
        BY <1>1, <2>1, <4>1
      <4>3. [x EXCEPT !.sweep = s, !.cancels = r]
              = [x EXCEPT !.phase = x.phase, !.sweep = s, !.cancels = r]
        BY <1>2 DEF TxType
      <4>4. QED
        BY <4>2, <4>3
    <3>4. QED
      BY <3>3
  <2>4. QED
    BY <2>2, <2>3
<1> DEFINE y == [x EXCEPT !.phase = phase, !.sweep = sweep, !.cancels = cancels]
<1>4. WalkInv(f, y)
  <2>1. /\ y.completes = x.completes /\ y.starts = x.starts /\ y.queue = x.queue
        /\ y.creates = x.creates /\ y.arrives = x.arrives /\ y.verdict = x.verdict
    BY <1>2 DEF TxType
  <2> HIDE DEF y
  <2>2. QED
    BY <1>2, <2>1, SameView
<1>5. UNCHANGED <<db, noted>>
  BY DEF BeginSweep, SweepTask
<1> HIDE DEF y
<1>6. QED
  BY <1>3, <1>4, <1>5, IdleWalks DEF y

(* A cancellation walks nothing (cancelWorkflowInstance).                   *)
LEMMA CancelWalks ==
    ASSUME NEW f, IInv, WalksInv(f), NEW c \in Callers, Cancel(c)
    PROVE  WalksInv(f)'
<1> DEFINE y == [Idle EXCEPT !.phase = "close", !.verdict = "cancelled"]
<1>1. tx' = [tx EXCEPT ![c] = y] /\ UNCHANGED <<db, noted>>
  BY DEF Cancel
<1>2. /\ y.completes = Idle.completes /\ y.starts = Idle.starts /\ y.queue = Idle.queue
      /\ y.creates = Idle.creates /\ y.arrives = Idle.arrives /\ y.verdict = "cancelled"
  BY DEF Idle
<1>3. "cancelled" # None
  BY NoVerdictAssumption DEF Final
<1> HIDE DEF y
<1>4. WalkInv(f, y)
  BY <1>2, <1>3, SameView DEF WalksInv
<1>5. QED
  BY <1>1, <1>4, IdleWalks

(* The view of a transaction that has made nothing yet.                     *)
LEMMA FreshView ==
    ASSUME NEW x, x.creates = {}, x.arrives = {}
    PROVE  /\ Made(x) = {} /\ Seen(x) = arrived
           /\ Past(x) = {EntryOf(t) : t \in {s \in TaskIds : task[s].status # "unused"}}
           /\ Standing(x) =
                {EntryOf(t) : t \in {s \in TaskIds : task[s].status = "pending" /\ s # x.completes}}
BY DEF Made, Seen, Past, Standing

(* A walk of one entry.                                                     *)
LEMMA OneEntry ==
    ASSUME NEW e
    PROVE  EntriesOf(<<e>>) = {e} /\ Distinct(<<e>>)
BY DEF EntriesOf, Distinct

(* An instance's walk starts at its start node (startWorkflowInstance).     *)
LEMMA StartWalks ==
    ASSUME NEW f, Funnelled(f), IInv, WalksInv(f), NEW c \in Callers, Start(c)
    PROVE  WalksInv(f)'
<1> DEFINE e == <<StartNode, None>>
           y == [Idle EXCEPT !.phase = "walk", !.starts = TRUE, !.queue = <<e>>]
<1>1. tx' = [tx EXCEPT ![c] = y] /\ UNCHANGED <<db, noted>> /\ instance = "none"
  BY DEF Start
<1>2. /\ y.completes = None /\ y.starts = TRUE /\ y.queue = <<e>> /\ y.creates = {}
      /\ y.arrives = {} /\ y.verdict = None
  BY DEF Idle
<1>3. (\A t \in TaskIds : task[t].status = "unused") /\ arrived = {}
  BY <1>1 DEF IInv, DbInv, TaskInv, WalksInv
<1> HIDE DEF y
<1>4. /\ Past(y) = {} /\ Standing(y) = {} /\ Seen(y) = {} /\ Walks(y) = {e}
      /\ Distinct(y.queue)
  BY <1>2, <1>3, FreshView, OneEntry DEF Walks
<1>5. Good(f, Past(y), Standing(y), Walks(y), Seen(y))
  BY <1>4, GoodStart
<1>6. Whole(f, Standing(y) \cup Walks(y), Seen(y))
  BY <1>4, WholeMain
<1>7. Once(y) /\ Narrow(y)
  BY <1>2, <1>4 DEF Once, Narrow
<1>8. WalkInv(f, y)
  BY <1>2, <1>5, <1>6, <1>7 DEF WalkInv
<1>9. QED
  BY <1>1, <1>8, IdleWalks

(* A completed task walks on (completeApprovalTaskAndAdvance).              *)
LEMMA CompleteWalks ==
    ASSUME NEW f, Funnelled(f), IInv, WalksInv(f), NEW c \in Callers, NEW t \in TaskIds,
           NEW u, NEW v \in Verdicts, Open(t), Complete(c, t, u, v), UNCHANGED <<db, noted>>
    PROVE  WalksInv(f)'
<1> DEFINE node == Graph[task[t].node]
           next == IF v = "approved" THEN node.onApprove ELSE node.onReject
           h == EntryOf(t)
           e == <<next, task[t].branch>>
           y == [Idle EXCEPT !.phase = "walk", !.completes = t, !.by = u,
                             !.outcome = v, !.queue = <<e>>]
<1>1. tx' = [tx EXCEPT ![c] = y]
  BY DEF Complete
<1>2. /\ y.completes = t /\ y.starts = FALSE /\ y.queue = <<e>> /\ y.creates = {}
      /\ y.arrives = {} /\ y.verdict = None
  BY DEF Idle
<1>3. h[1] = task[t].node /\ h[2] = task[t].branch /\ h[1] \in OfType("approval")
  BY DEF IInv, DbInv, TaskInv, Open, EntryOf
<1>4. next \in Nodes /\ Leads(f, h[1], next)
  BY <1>3, GraphAssumption DEF Funnelled
<1>5. e = <<next, h[2]>> /\ e[2] = h[2]
  BY <1>3
<1> HIDE DEF y, e, next, node, h
<1>6. /\ Good(f, Past(Idle), Standing(Idle), {}, arrived)
      /\ Whole(f, Standing(Idle), arrived)
      /\ Past(Idle) = {EntryOf(s) : s \in {r \in TaskIds : task[r].status # "unused"}}
      /\ Standing(Idle) = {EntryOf(s) : s \in {r \in TaskIds : task[r].status = "pending"}}
  <2>1. /\ Idle.completes = None /\ Idle.creates = {} /\ Idle.arrives = {}
        /\ Idle.verdict = None /\ Idle.queue = <<>>
    BY DEF Idle
  <2>2. /\ Seen(Idle) = arrived
        /\ Past(Idle) = {EntryOf(s) : s \in {r \in TaskIds : task[r].status # "unused"}}
        /\ Standing(Idle) = {EntryOf(s) : s \in {r \in TaskIds : task[r].status = "pending"}}
    BY <2>1, FreshView, NoneAssumption
  <2>3. Walks(Idle) = {}
    BY <2>1 DEF Walks, EntriesOf
  <2>4. QED
    BY <2>1, <2>2, <2>3 DEF WalksInv, WalkInv, Open
<1>7. h \in Standing(Idle)
  BY <1>6 DEF Open, h
<1>8. \A s \in TaskIds : task[s].status = "pending" /\ s # t => EntryOf(s) # h
  BY DEF WalksInv, ActivatedOnce, EntryOf, h
<1>9. /\ Past(y) = Past(Idle) /\ Standing(y) = Standing(Idle) \ {h} /\ Seen(y) = arrived
      /\ Walks(y) = {e} /\ Made(y) = {} /\ Distinct(y.queue)
  <2>1. Standing(y) = {EntryOf(s) : s \in {r \in TaskIds : task[r].status = "pending" /\ r # t}}
    BY <1>2, FreshView
  <2>2. Standing(y) = Standing(Idle) \ {h}
    BY <1>6, <1>8, <2>1 DEF h
  <2>3. QED
    BY <1>2, <1>6, <2>2, FreshView, OneEntry DEF Walks
<1>10. Good(f, Past(y), Standing(y), Walks(y), Seen(y))
  <2>1. Good(f, Past(Idle), Standing(Idle) \ {h}, ({} \ {h}) \cup {<<next, h[2]>>}, arrived)
    BY <1>3, <1>4, <1>6, <1>7, GoodMove DEF OfType
  <2>2. ({} \ {h}) \cup {<<next, h[2]>>} = Walks(y)
    BY <1>5, <1>9
  <2>3. QED
    BY <1>9, <2>1, <2>2
<1>11. Whole(f, Standing(y) \cup Walks(y), Seen(y))
  <2>1. Whole(f, (Standing(Idle) \ {h}) \cup {<<next, h[2]>>}, arrived)
    BY <1>6, <1>7, WholeMove
  <2>2. QED
    BY <1>5, <1>9, <2>1
<1>12. Narrow(y)
  <2>1. CASE h[2] = None
    <3>1. ASSUME NEW s \in TaskIds, task[s].status = "pending", s # t PROVE FALSE
      <4>1. EntryOf(s) \in Standing(Idle) /\ EntryOf(s) # h
        BY <1>6, <1>8, <3>1
      <4>2. Siblings(f, h, EntryOf(s))
        BY <1>6, <1>7, <4>1 DEF Good
      <4>3. QED
        BY <2>1, <4>2 DEF Siblings
    <3>2. QED
      BY <1>2, <3>1 DEF Narrow
  <2>2. CASE h[2] # None
    <3>1. Keeps(y, task[t].branch)
      BY <1>2, <1>3, <1>5, <1>9, <2>2 DEF Keeps
    <3>2. QED
      BY <1>2, <3>1 DEF Narrow
  <2>3. QED
    BY <2>1, <2>2
<1>13. Once(y)
  BY <1>2, <1>9 DEF Once
<1>14. WalkInv(f, y)
  BY <1>2, <1>10, <1>11, <1>12, <1>13, NoneAssumption DEF WalkInv
<1>15. QED
  BY <1>1, <1>14, IdleWalks

-----------------------------------------------------------------------------
(* Commits.  The committed state becomes what the transaction x saw, but    *)
(* for the tasks it has cancelled.                                          *)

(* What a commit makes of the tasks.                                        *)
LEMMA MadeTask ==
    ASSUME IInv, NEW c \in Callers, Commit(c), NEW x, x = tx[c], NEW n \in x.creates
    PROVE  /\ n.id \in TaskIds /\ IsNew(x, n.id) /\ task[n.id].status = "unused"
           /\ EntryOf(n.id)' = <<n.node, n.branch>>
           /\ task'[n.id].status # "unused"
           /\ n.id \notin x.cancels => task'[n.id].status = "pending"
<1>1. x \in TxType /\ TxInv(x)
  BY Ending
<1>2. n.id \in TaskIds /\ n.id \in Created(c) /\ IsNew(x, n.id) /\ task[n.id].status = "unused"
  BY <1>1 DEF TxType, NewTask, Created, IsNew, TxInv, Backed
<1>3. (CHOOSE m \in x.creates : m.id = n.id) = n
  BY <1>1 DEF TxInv, Shape
<1>4. n.id # x.completes
  BY <1>1, <1>2, NoneAssumption DEF TxInv, Supported
<1>5. task'[n.id] = [node |-> n.node, branch |-> n.branch,
                     status |-> IF n.id \in x.cancels THEN "cancelled" ELSE "pending"]
  BY <1>2, <1>3, <1>4 DEF Commit
<1>6. QED
  BY <1>2, <1>5 DEF EntryOf

(* What a commit makes of the tasks that exist.                             *)
LEMMA OldTask ==
    ASSUME IInv, NEW c \in Callers, Commit(c), NEW x, x = tx[c], NEW t \in TaskIds
    PROVE  /\ task[t].status # "unused" => task'[t].status # "unused" /\ EntryOf(t)' = EntryOf(t)
           /\ task'[t].status # "unused" => task[t].status # "unused" \/ IsNew(x, t)
           /\ ~IsNew(x, t) /\ task'[t].status = "pending" =>
                task[t].status = "pending" /\ t # x.completes
           /\ task[t].status = "pending" /\ t # x.completes /\ x.verdict = None =>
                task'[t].status = "pending"
<1>1. x.verdict = None => x.cancels = {}
  BY Ending
<1>2. task[t].status # "unused" => Kept(x, t) /\ task'[t].status # "unused"
  BY CommitFrame
<1>3. QED
  BY <1>1, <1>2, CommitFrame DEF Kept, EntryOf

(* What is standing and past after a commit is what its transaction saw.    *)
LEMMA CommittedView ==
    ASSUME IInv, NEW c \in Callers, Commit(c), NEW x, x = tx[c]
    PROVE  /\ Past(Idle)' = Past(x) /\ Seen(Idle)' = Seen(x)
           /\ Standing(Idle)' \subseteq Standing(x)
           /\ x.verdict = None => Standing(Idle)' = Standing(x)
<1> DEFINE New == {n.id : n \in x.creates}
<1>1. Idle.completes = None /\ Idle.creates = {} /\ Idle.arrives = {}
  BY DEF Idle
<1>2. /\ Past(Idle)' = {EntryOf(t)' : t \in {s \in TaskIds : task'[s].status # "unused"}}
      /\ Standing(Idle)' =
            {EntryOf(t)' : t \in {s \in TaskIds : task'[s].status = "pending"}}
      /\ Seen(Idle)' = arrived'
  BY <1>1, NoneAssumption DEF Past, Standing, Seen, Made
<1>3. Seen(Idle)' = Seen(x)
  BY <1>2 DEF Commit, Seen
<1>4. ASSUME NEW t \in TaskIds, IsNew(x, t) PROVE EntryOf(t)' \in Made(x)
  <2>1. PICK n \in x.creates : n.id = t
    BY <1>4 DEF IsNew
  <2>2. EntryOf(t)' = <<n.node, n.branch>>
    BY <2>1, MadeTask
  <2>3. QED
    BY <2>2 DEF Made
<1>5. ASSUME NEW e \in Made(x)
      PROVE  \E t \in TaskIds : /\ task'[t].status # "unused" /\ EntryOf(t)' = e
                                /\ x.verdict = None => task'[t].status = "pending"
  <2>1. PICK n \in x.creates : e = <<n.node, n.branch>>
    BY DEF Made
  <2>2. x.verdict = None => x.cancels = {}
    BY Ending
  <2>3. QED
    BY <2>1, <2>2, MadeTask
<1>6. ASSUME NEW t \in TaskIds, task'[t].status # "unused" PROVE EntryOf(t)' \in Past(x)
  <2>1. CASE IsNew(x, t)
    BY <1>4, <2>1 DEF Past
  <2>2. CASE ~IsNew(x, t)
    <3>1. task[t].status # "unused" /\ EntryOf(t)' = EntryOf(t)
      BY <1>6, <2>2, OldTask
    <3>2. QED
      BY <3>1 DEF Past
  <2>3. QED
    BY <2>1, <2>2
<1>7. ASSUME NEW t \in TaskIds, task[t].status # "unused" PROVE EntryOf(t) \in Past(Idle)'
  <2>1. task'[t].status # "unused" /\ EntryOf(t)' = EntryOf(t)
    BY <1>7, OldTask
  <2>2. QED
    BY <1>2, <2>1
<1>8. Past(Idle)' = Past(x)
  <2>1. Past(Idle)' \subseteq Past(x)
    BY <1>2, <1>6
  <2>2. Past(x) \subseteq Past(Idle)'
    BY <1>2, <1>5, <1>7 DEF Past
  <2>3. QED
    BY <2>1, <2>2
<1>9. ASSUME NEW t \in TaskIds, task'[t].status = "pending" PROVE EntryOf(t)' \in Standing(x)
  <2>1. CASE IsNew(x, t)
    BY <1>4, <2>1 DEF Standing
  <2>2. CASE ~IsNew(x, t)
    <3>1. task[t].status = "pending" /\ t # x.completes /\ EntryOf(t)' = EntryOf(t)
      BY <1>9, <2>2, OldTask
    <3>2. QED
      BY <3>1 DEF Standing
  <2>3. QED
    BY <2>1, <2>2
<1>10. ASSUME x.verdict = None PROVE Standing(x) \subseteq Standing(Idle)'
  <2>1. ASSUME NEW t \in TaskIds, task[t].status = "pending", t # x.completes
        PROVE  EntryOf(t) \in Standing(Idle)'
    <3>1. task'[t].status = "pending" /\ EntryOf(t)' = EntryOf(t)
      BY <1>10, <2>1, OldTask
    <3>2. QED
      BY <1>2, <3>1
  <2>2. Made(x) \subseteq Standing(Idle)'
    BY <1>2, <1>5, <1>10
  <2>3. QED
    BY <2>1, <2>2 DEF Standing
<1>11. Standing(Idle)' \subseteq Standing(x)
  BY <1>2, <1>9
<1>12. QED
  BY <1>3, <1>8, <1>10, <1>11

(* A transaction that only closes has walked nowhere.                       *)
Walked(x) == x.starts \/ x.completes # None

(* Where a transaction ends.                                                *)
LEMMA AtItsEnd ==
    ASSUME NEW f, IInv, WalksInv(f), NEW c \in Callers, Commit(c), NEW x, x = tx[c]
    PROVE  /\ WalkInv(f, x) /\ x \in TxType /\ TxInv(x)
           /\ Good(f, Past(x), Standing(x), {}, Seen(x))
           /\ x.verdict = None => Walks(x) = {} /\ Walked(x)
           /\ instance' = "pending" =>
                /\ x.verdict = None
                /\ instance = "pending" \/ x.starts
                /\ Whole(f, Standing(x), Seen(x))
<1>1. WalkInv(f, x) /\ x \in TxType /\ TxInv(x)
  BY Ending DEF WalksInv
<1>2. Good(f, Past(x), Standing(x), {}, Seen(x))
  BY <1>1, GoodLess DEF WalkInv
<1>3. x.verdict = None => Walks(x) = {} /\ Walked(x)
  <2>1. SUFFICES ASSUME x.verdict = None PROVE Walks(x) = {} /\ Walked(x)
    OBVIOUS
  <2>2. x.phase = "walk" /\ x.queue = <<>>
    BY <1>1, <2>1 DEF Commit, TxInv, Shape
  <2>3. QED
    BY <1>1, <2>2 DEF Walks, EntriesOf, TxInv, Shape, Walked
<1>4. ASSUME instance' = "pending"
      PROVE  x.verdict = None /\ (instance = "pending" \/ x.starts)
  <2>1. "pending" \notin Final
    BY DEF Final
  <2>2. QED
    BY <1>4, <2>1, Ending
<1>5. instance' = "pending" => Whole(f, Standing(x), Seen(x))
  BY <1>1, <1>3, <1>4 DEF WalkInv
<1>6. QED
  BY <1>1, <1>2, <1>3, <1>4, <1>5

(* After its commit a transaction's own view is the committed one.          *)
LEMMA CommittedOwn ==
    ASSUME NEW f, IInv, WalksInv(f), NEW c \in Callers, Commit(c)
    PROVE  WalkInv(f, Idle)'
<1>1. PICK x : x = tx[c]
  OBVIOUS
<1>2. /\ Idle.completes = None /\ Idle.starts = FALSE /\ Idle.queue = <<>>
      /\ Idle.creates = {} /\ Idle.arrives = {} /\ Idle.verdict = None
  BY DEF Idle
<1>3. Walks(Idle) = {} /\ Walks(Idle)' = {} /\ Distinct(Idle.queue)
  BY <1>2 DEF Walks, EntriesOf, Distinct
<1>4. /\ Past(Idle)' = Past(x) /\ Seen(Idle)' = Seen(x)
      /\ Standing(Idle)' \subseteq Standing(x)
      /\ x.verdict = None => Standing(Idle)' = Standing(x)
  BY <1>1, CommittedView
<1>5. Good(f, Past(x), Standing(x), {}, Seen(x))
      /\ (instance' = "pending" => x.verdict = None /\ Whole(f, Standing(x), Seen(x)))
  BY <1>1, AtItsEnd
<1>6. Good(f, Past(Idle)', Standing(Idle)', Walks(Idle)', Seen(Idle)')
  <2>1. Good(f, Past(x), Standing(Idle)', {}, Seen(x))
    BY <1>4, <1>5, GoodLess
  <2>2. QED
    BY <1>3, <1>4, <2>1
<1>7. instance' = "pending" => Whole(f, Standing(Idle)' \cup Walks(Idle)', Seen(Idle)')
  BY <1>3, <1>4, <1>5
<1>8. Once(Idle)' /\ Narrow(Idle)'
  BY <1>2, <1>3 DEF Once, Narrow
<1>9. QED
  BY <1>2, <1>6, <1>7, <1>8 DEF WalkInv

(* Two tasks of one node are still of different branches.                   *)
LEMMA CommittedOnce ==
    ASSUME NEW f, IInv, WalksInv(f), NEW c \in Callers, Commit(c)
    PROVE  ActivatedOnce' /\ \A t \in TaskIds : task'[t].status = "unused" => task'[t].node = None
<1>1. PICK x : x = tx[c]
  OBVIOUS
<1>2. Once(x) /\ ActivatedOnce
      /\ \A t \in TaskIds : task[t].status = "unused" => task[t].node = None
  BY <1>1, AtItsEnd DEF WalkInv, WalksInv
<1>3. ASSUME NEW t \in TaskIds, task'[t].status = "unused" PROVE task'[t].node = None
  <2>1. ~IsNew(x, t)
    BY <1>1, <1>3, MadeTask DEF IsNew
  <2>2. task[t].status = "unused" /\ Kept(x, t)
    BY <1>1, <1>3, <2>1, CommitFrame, CommitTask
  <2>3. QED
    BY <1>2, <2>2 DEF Kept
<1>4. ASSUME NEW t \in TaskIds, task'[t].status # "unused" PROVE task'[t].node # None
  <2>1. TaskInv(t)'
    BY CommitKeeps DEF IInv, DbInv
  <2>2. QED
    BY <1>4, <2>1, NoneAssumption DEF TaskInv, OfType
<1>5. ASSUME NEW s \in TaskIds, NEW t \in TaskIds, task'[s].status # "unused",
             task'[t].status # "unused", EntryOf(s)' = EntryOf(t)'
      PROVE  s = t
  <2>1. CASE IsNew(x, s) /\ IsNew(x, t)
    <3>1. PICK n \in x.creates, m \in x.creates : n.id = s /\ m.id = t
      BY <2>1 DEF IsNew
    <3>2. <<n.node, n.branch>> = <<m.node, m.branch>>
      BY <1>1, <1>5, <3>1, MadeTask
    <3>3. n = m
      BY <1>2, <3>2 DEF Once
    <3>4. QED
      BY <3>1, <3>3
  <2>2. ASSUME NEW p \in TaskIds, NEW q \in TaskIds, IsNew(x, p), ~IsNew(x, q),
               task'[q].status # "unused", EntryOf(p)' = EntryOf(q)'
        PROVE  FALSE
    <3>1. PICK n \in x.creates : n.id = p
      BY <2>2 DEF IsNew
    <3>2. task[q].status # "unused" /\ EntryOf(q)' = EntryOf(q)
      BY <1>1, <2>2, OldTask
    <3>3. EntryOf(q) = <<n.node, n.branch>>
      BY <1>1, <2>2, <3>1, <3>2, MadeTask
    <3>4. QED
      BY <1>2, <3>2, <3>3 DEF Once
  <2>3. CASE ~IsNew(x, s) /\ ~IsNew(x, t)
    <3>1. /\ task[s].status # "unused" /\ task[t].status # "unused"
          /\ EntryOf(s) = EntryOf(t)
      BY <1>1, <1>5, <2>3, OldTask
    <3>2. QED
      BY <1>2, <3>1 DEF ActivatedOnce, EntryOf
  <2>4. QED
    BY <1>5, <2>1, <2>2, <2>3
<1>6. ActivatedOnce'
  <2>1. ASSUME NEW s \in TaskIds, NEW t \in TaskIds, task'[s].status # "unused",
               task'[s].node = task'[t].node, task'[s].branch = task'[t].branch
        PROVE  s = t
    <3>1. task'[t].status # "unused"
      BY <1>3, <1>4, <2>1
    <3>2. EntryOf(s)' = EntryOf(t)'
      BY <2>1 DEF EntryOf
    <3>3. QED
      BY <1>5, <2>1, <3>1, <3>2
  <2>2. QED
    BY <2>1 DEF ActivatedOnce
<1>7. QED
  BY <1>3, <1>6

(* Another transaction y, where x has only closed: some tasks are gone.     *)
LEMMA OtherOfClosing ==
    ASSUME NEW f, IInv, WalksInv(f), NEW c \in Callers, Commit(c), NEW x, x = tx[c], ~Walked(x),
           NEW d \in Callers \ {c}, NEW y, y = tx[d]
    PROVE  WalkInv(f, y)'
<1>1. /\ x.completes = None /\ x.creates = {} /\ x.arrives = {} /\ instance' # "pending"
      /\ WalkInv(f, x) /\ WalkInv(f, y) /\ ~y.starts
  <2>1. WalkInv(f, x) /\ WalkInv(f, y)
    BY DEF WalksInv
  <2>2. instance' # "pending"
    BY AtItsEnd
  <2>3. ~y.starts
    BY Ending DEF Solo
  <2>4. QED
    BY <2>1, <2>2, <2>3 DEF WalkInv, Walked
<1>2. \A t \in TaskIds : ~IsNew(x, t)
  BY <1>1 DEF IsNew
<1>3. \A t \in TaskIds : /\ task'[t].status # "unused" <=> task[t].status # "unused"
                         /\ task[t].status # "unused" => EntryOf(t)' = EntryOf(t)
                         /\ task'[t].status = "pending" => task[t].status = "pending"
  BY <1>2, OldTask
<1>4. arrived' = arrived
  BY <1>1 DEF Commit
<1>5. /\ Past(y)' = Past(y) /\ Seen(y)' = Seen(y) /\ Walks(y)' = Walks(y) /\ Made(y)' = Made(y)
  <2>1. Seen(y)' = Seen(y) /\ Walks(y)' = Walks(y) /\ Made(y)' = Made(y)
    BY <1>4 DEF Seen, Walks, Made
  <2>2. {EntryOf(t)' : t \in {s \in TaskIds : task'[s].status # "unused"}}
          = {EntryOf(t) : t \in {s \in TaskIds : task[s].status # "unused"}}
    BY <1>3
  <2>3. QED
    BY <2>1, <2>2 DEF Past
<1>6. Standing(y)' \subseteq Standing(y)
  <2>1. ASSUME NEW e \in Standing(y)' PROVE e \in Standing(y)
    <3>1. CASE e \in Made(y)
      BY <3>1 DEF Standing
    <3>2. CASE e \notin Made(y)
      <4>1. PICK t \in TaskIds : /\ task'[t].status = "pending" /\ t # y.completes
                                 /\ e = EntryOf(t)'
        BY <1>5, <3>2 DEF Standing
      <4>2. task[t].status = "pending" /\ e = EntryOf(t)
        BY <1>3, <4>1
      <4>3. QED
        BY <4>1, <4>2 DEF Standing
    <3>3. QED
      BY <3>1, <3>2
  <2>2. QED
    BY <2>1
<1>7. Good(f, Past(y)', Standing(y)', Walks(y)', Seen(y)')
  <2>1. Good(f, Past(y), Standing(y), Walks(y), Seen(y))
    BY <1>1 DEF WalkInv
  <2>2. Good(f, Past(y), Standing(y)', Walks(y), Seen(y))
    BY <1>6, <2>1, GoodLess
  <2>3. QED
    BY <1>5, <2>2
<1>8. Once(y)'
  <2>1. Once(y)
    BY <1>1 DEF WalkInv
  <2>2. QED
    BY <1>3, <2>1 DEF Once
<1>9. Narrow(y)'
  <2>0. SUFFICES ASSUME y.completes # None PROVE Narrow(y)'
    BY DEF Narrow
  <2>1. PICK b : b = task[y.completes].branch
    OBVIOUS
  <2>2. y.completes \in TaskIds /\ task[y.completes].status = "pending"
    BY <2>0, TypeFacts DEF IInv, AllTx, TxInv, Supported, TxType
  <2>3. task'[y.completes].branch = task[y.completes].branch
    <3>1. Kept(x, y.completes)
      BY <1>2, <2>2, CommitTask
    <3>2. QED
      BY <3>1 DEF Kept
  <2>4. Narrow(y)
    BY <1>1 DEF WalkInv
  <2>5. CASE \A t \in TaskIds : task[t].status = "pending" => t = y.completes
    BY <1>3, <2>5 DEF Narrow
  <2>6. CASE Keeps(y, b)
    <3>1. Keeps(y, b)'
      BY <1>5, <2>6 DEF Keeps
    <3>2. QED
      BY <2>1, <2>3, <3>1 DEF Narrow
  <2>7. QED
    BY <2>0, <2>1, <2>4, <2>5, <2>6 DEF Narrow
<1>10. QED
  BY <1>1, <1>7, <1>8, <1>9 DEF WalkInv

(* Another transaction that has not walked sees what is committed.          *)
LEMMA OtherThatCloses ==
    ASSUME NEW f, IInv, WalksInv(f), NEW c \in Callers, Commit(c),
           NEW d \in Callers \ {c}, NEW y, y = tx[d], y.completes = None
    PROVE  WalkInv(f, y)'
<1>1. WalkInv(f, y) /\ ~y.starts
  BY Ending DEF WalksInv, Solo
<1>2. y.creates = {} /\ y.arrives = {} /\ y.queue = <<>>
  BY <1>1 DEF WalkInv
<1>3. /\ Idle.completes = None /\ Idle.starts = FALSE /\ Idle.queue = <<>>
      /\ Idle.creates = {} /\ Idle.arrives = {} /\ Idle.verdict = None
  BY DEF Idle
<1>4. WalkInv(f, Idle)'
  BY CommittedOwn
<1>5. /\ Past(y)' = Past(Idle)' /\ Standing(y)' = Standing(Idle)' /\ Seen(y)' = Seen(Idle)'
      /\ Walks(y)' = Walks(Idle)'
  BY <1>2, <1>3 DEF Past, Standing, Seen, Walks, Made
<1>6. Once(y)' /\ Narrow(y)'
  BY <1>1, <1>2 DEF Once, Narrow, WalkInv
<1>7. QED
  BY <1>1, <1>2, <1>3, <1>4, <1>5, <1>6 DEF WalkInv

(* What is standing, once a transaction completes a task.                   *)
LEMMA CompletingView ==
    ASSUME NEW f, IInv, WalksInv(f), NEW c \in Callers, NEW x, x = tx[c], x.completes # None
    PROVE  /\ x.completes \in TaskIds /\ task[x.completes].status = "pending" /\ ~x.starts
           /\ EntryOf(x.completes) \in Standing(Idle)
           /\ EntryOf(x.completes)[2] = task[x.completes].branch
           /\ Past(x) = Past(Idle) \cup Made(x) /\ Seen(x) = Seen(Idle) \cup x.arrives
           /\ Standing(x) = (Standing(Idle) \ {EntryOf(x.completes)}) \cup Made(x)
           /\ Standing(Idle) = {EntryOf(t) : t \in {s \in TaskIds : task[s].status = "pending"}}
<1>1. /\ x.completes \in TaskIds /\ task[x.completes].status = "pending" /\ ~x.starts
  BY TypeFacts DEF IInv, AllTx, TxInv, Supported, Shape, TxType
<1>2. Idle.completes = None /\ Idle.creates = {} /\ Idle.arrives = {}
  BY DEF Idle
<1>3. Standing(Idle) = {EntryOf(t) : t \in {s \in TaskIds : task[s].status = "pending"}}
  BY <1>2, NoneAssumption DEF Standing, Made
<1>4. \A t \in TaskIds : task[t].status = "pending" /\ t # x.completes =>
          EntryOf(t) # EntryOf(x.completes)
  BY <1>1 DEF WalksInv, ActivatedOnce, EntryOf
<1>5. Standing(x) = (Standing(Idle) \ {EntryOf(x.completes)}) \cup Made(x)
  <2>1. {EntryOf(t) : t \in {s \in TaskIds : task[s].status = "pending" /\ s # x.completes}}
          = Standing(Idle) \ {EntryOf(x.completes)}
    BY <1>3, <1>4
  <2>2. QED
    BY <2>1 DEF Standing
<1>6. Past(x) = Past(Idle) \cup Made(x) /\ Seen(x) = Seen(Idle) \cup x.arrives
  BY <1>2 DEF Past, Seen, Made
<1>7. QED
  BY <1>1, <1>3, <1>5, <1>6 DEF EntryOf

(* Two transactions that complete tasks are in sibling branches.            *)
LEMMA InSiblings ==
    ASSUME NEW f, IInv, WalksInv(f), NEW c \in Callers, NEW x, x = tx[c], x.completes # None,
           NEW d \in Callers \ {c}, NEW y, y = tx[d], y.completes # None
    PROVE  /\ EntryOf(x.completes) # EntryOf(y.completes)
           /\ EntryOf(x.completes)[2] # EntryOf(y.completes)[2]
           /\ EntryOf(x.completes)[2] # None
           /\ \A e \in Walks(x) \cup Made(x) \cup x.arrives : e[2] = EntryOf(x.completes)[2]
           /\ \A e \in Walks(y) \cup Made(y) \cup y.arrives : e[2] = EntryOf(y.completes)[2]
<1>1. /\ x.completes \in TaskIds /\ task[x.completes].status = "pending"
      /\ y.completes \in TaskIds /\ task[y.completes].status = "pending"
      /\ EntryOf(x.completes) \in Standing(Idle) /\ EntryOf(y.completes) \in Standing(Idle)
      /\ EntryOf(x.completes)[2] = task[x.completes].branch
      /\ EntryOf(y.completes)[2] = task[y.completes].branch
  BY CompletingView
<1>2. x.completes # y.completes
  <2>1. Exclusive(x, y)
    BY DEF IInv, AllTx
  <2>2. QED
    BY <2>1 DEF Exclusive, LocksOf
<1>3. EntryOf(x.completes) # EntryOf(y.completes)
  BY <1>1, <1>2 DEF WalksInv, ActivatedOnce, EntryOf
<1>4. Siblings(f, EntryOf(x.completes), EntryOf(y.completes))
  BY <1>1, <1>3 DEF WalksInv, WalkInv, Good
<1>5. Narrow(x) /\ Narrow(y)
  BY DEF WalksInv, WalkInv
<1>6. Keeps(x, task[x.completes].branch) /\ Keeps(y, task[y.completes].branch)
  BY <1>1, <1>2, <1>5 DEF Narrow
<1>7. QED
  BY <1>1, <1>3, <1>4, <1>6 DEF Siblings, Keeps

(* Another transaction that walks, when one commits.                        *)
LEMMA OtherThatWalks ==
    ASSUME NEW f, Funnelled(f), IInv, WalksInv(f), NEW c \in Callers, Commit(c),
           NEW x, x = tx[c], x.completes # None,
           NEW d \in Callers \ {c}, NEW y, y = tx[d], y.completes # None
    PROVE  WalkInv(f, y)'
<1> DEFINE h == EntryOf(x.completes)
           g == EntryOf(y.completes)
           B == Standing(Idle)
<1>1. /\ h \in B /\ g \in B /\ h # g /\ h[2] # g[2] /\ h[2] # None
      /\ \A e \in Walks(x) \cup Made(x) \cup x.arrives : e[2] = h[2]
      /\ \A e \in Walks(y) \cup Made(y) \cup y.arrives : e[2] = g[2]
  BY CompletingView, InSiblings
<1>2. /\ y.completes \in TaskIds /\ task[y.completes].status = "pending" /\ ~y.starts
      /\ g[2] = task[y.completes].branch
      /\ Past(y) = Past(Idle) \cup Made(y) /\ Seen(y) = Seen(Idle) \cup y.arrives
      /\ Standing(y) = (B \ {g}) \cup Made(y)
  BY CompletingView
<1>3. /\ ~x.starts
      /\ Past(x) = Past(Idle) \cup Made(x) /\ Seen(x) = Seen(Idle) \cup x.arrives
      /\ Standing(x) = (B \ {h}) \cup Made(x)
      /\ B = {EntryOf(t) : t \in {s \in TaskIds : task[s].status = "pending"}}
  BY CompletingView
<1>4. /\ WalkInv(f, y) /\ Once(y) /\ Good(f, Past(y), Standing(y), Walks(y), Seen(y))
      /\ WalkInv(f, Idle) /\ Good(f, Past(Idle), B, {}, Seen(Idle))
  <2>1. WalkInv(f, y) /\ WalkInv(f, Idle)
    BY DEF WalksInv
  <2>2. QED
    BY <2>1, GoodLess DEF WalkInv
<1>5. /\ Good(f, Past(x), Standing(x), {}, Seen(x))
      /\ instance' = "pending" =>
            x.verdict = None /\ instance = "pending" /\ Whole(f, Standing(x), Seen(x))
  BY <1>3, AtItsEnd
<1> HIDE DEF h, g, B
<1>6. /\ Past(y)' = Past(Idle) \cup Made(x) \cup Made(y)
      /\ Seen(y)' = Seen(Idle) \cup x.arrives \cup y.arrives
      /\ Walks(y)' = Walks(y) /\ Made(y)' = Made(y)
  <2>1. Past(Idle)' = Past(x) /\ Seen(Idle)' = Seen(x)
    BY CommittedView
  <2>2. Past(y)' = Past(Idle)' \cup Made(y)' /\ Seen(y)' = Seen(Idle)' \cup y.arrives
    BY DEF Past, Seen, Made, Idle
  <2>3. Walks(y)' = Walks(y) /\ Made(y)' = Made(y)
    BY DEF Walks, Made
  <2>4. QED
    BY <1>3, <2>1, <2>2, <2>3
<1>7. Standing(y)' \subseteq (B \ {h, g}) \cup Made(x) \cup Made(y)
  <2>1. ASSUME NEW t \in TaskIds, task'[t].status = "pending", t # y.completes
        PROVE  EntryOf(t)' \in (B \ {h, g}) \cup Made(x)
    <3>1. CASE IsNew(x, t)
      <4>1. PICK n \in x.creates : n.id = t
        BY <3>1 DEF IsNew
      <4>2. EntryOf(t)' = <<n.node, n.branch>>
        BY <4>1, MadeTask
      <4>3. QED
        BY <4>2 DEF Made
    <3>2. CASE ~IsNew(x, t)
      <4>1. task[t].status = "pending" /\ t # x.completes /\ EntryOf(t)' = EntryOf(t)
        BY <2>1, <3>2, OldTask
      <4>2. EntryOf(t) # h /\ EntryOf(t) # g
        BY <2>1, <4>1, CompletingView DEF WalksInv, ActivatedOnce, EntryOf, h, g
      <4>3. QED
        BY <1>3, <4>1, <4>2
    <3>3. QED
      BY <3>1, <3>2
  <2>2. Standing(y)' =
          {EntryOf(t)' : t \in {s \in TaskIds : task'[s].status = "pending" /\ s # y.completes}}
             \cup Made(y)
    BY <1>6 DEF Standing
  <2>3. QED
    BY <2>1, <2>2
<1>8. Good(f, Past(y)', Standing(y)', Walks(y)', Seen(y)')
  <2>1. Good(f, Past(Idle) \cup Made(x), (B \ {h}) \cup Made(x), {}, Seen(Idle) \cup x.arrives)
    BY <1>3, <1>5
  <2>2. Good(f, Past(Idle) \cup Made(y), (B \ {g}) \cup Made(y), Walks(y),
                Seen(Idle) \cup y.arrives)
    BY <1>2, <1>4
  <2>3. /\ \A e \in Made(x) \cup x.arrives : e[2] = h[2]
        /\ \A e \in Made(y) \cup Walks(y) \cup y.arrives : e[2] = g[2]
    BY <1>1
  <2>4. Good(f, Past(Idle) \cup Made(x) \cup Made(y), (B \ {h, g}) \cup Made(x) \cup Made(y),
                Walks(y), Seen(Idle) \cup x.arrives \cup y.arrives)
    BY <1>1, <1>4, <2>1, <2>2, <2>3, GoodOther
  <2>5. Good(f, Past(Idle) \cup Made(x) \cup Made(y), Standing(y)',
                Walks(y), Seen(Idle) \cup x.arrives \cup y.arrives)
    BY <1>7, <2>4, GoodLess
  <2>6. QED
    BY <1>6, <2>5
<1>9. ASSUME instance' = "pending", y.verdict = None
      PROVE  Whole(f, Standing(y)' \cup Walks(y)', Seen(y)')
  <2>1. x.verdict = None
    BY <1>5, <1>9
  <2>2. Standing(y)' = (B \ {h, g}) \cup Made(x) \cup Made(y)
    <3>1. Made(x) \subseteq Standing(y)'
      <4>1. ASSUME NEW n \in x.creates PROVE <<n.node, n.branch>> \in Standing(y)'
        <5>1. /\ n.id \in TaskIds /\ EntryOf(n.id)' = <<n.node, n.branch>>
              /\ task[n.id].status = "unused"
              /\ n.id \notin x.cancels => task'[n.id].status = "pending"
          BY MadeTask
        <5>2. x.cancels = {}
          BY <2>1, Ending
        <5>3. n.id # y.completes
          BY <1>2, <5>1
        <5>4. QED
          BY <5>1, <5>2, <5>3 DEF Standing
      <4>2. QED
        BY <4>1 DEF Made
    <3>2. B \ {h, g} \subseteq Standing(y)'
      <4>1. ASSUME NEW t \in TaskIds, task[t].status = "pending", EntryOf(t) \notin {h, g}
            PROVE  EntryOf(t) \in Standing(y)'
        <5>1. t # x.completes /\ t # y.completes
          BY <4>1 DEF h, g
        <5>2. task'[t].status = "pending" /\ EntryOf(t)' = EntryOf(t)
          BY <2>1, <4>1, <5>1, OldTask
        <5>3. QED
          BY <5>1, <5>2 DEF Standing
      <4>2. QED
        BY <1>3, <4>1
    <3>3. Made(y) \subseteq Standing(y)'
      BY <1>6 DEF Standing
    <3>4. QED
      BY <1>7, <3>1, <3>2, <3>3
  <2>3. Whole(f, (B \ {h}) \cup Made(x), Seen(Idle) \cup x.arrives)
    BY <1>3, <1>5, <1>9
  <2>4. Whole(f, (B \ {g}) \cup (Made(y) \cup Walks(y)), Seen(Idle) \cup y.arrives)
    <3>1. Whole(f, Standing(y) \cup Walks(y), Seen(y))
      BY <1>4, <1>5, <1>9 DEF WalkInv
    <3>2. Standing(y) \cup Walks(y) = (B \ {g}) \cup (Made(y) \cup Walks(y))
      BY <1>2
    <3>3. QED
      BY <1>2, <3>1, <3>2
  <2>5. Whole(f, (B \ {h, g}) \cup Made(x) \cup (Made(y) \cup Walks(y)),
                 Seen(Idle) \cup x.arrives \cup y.arrives)
    <3>1. (\A e \in Made(x) : e[2] = h[2]) /\ (\A e \in Made(y) \cup Walks(y) : e[2] = g[2])
      BY <1>1
    <3>2. QED
      BY <1>1, <1>4, <2>3, <2>4, <3>1, WholeOther
  <2>6. (B \ {h, g}) \cup Made(x) \cup (Made(y) \cup Walks(y)) = Standing(y)' \cup Walks(y)'
    BY <1>6, <2>2
  <2>7. QED
    BY <1>6, <2>5, <2>6
<1>10. Once(y)'
  <2>1. ASSUME NEW n \in y.creates, NEW t \in TaskIds, task'[t].status # "unused"
        PROVE  EntryOf(t)' # <<n.node, n.branch>>
    <3>1. <<n.node, n.branch>> \in Made(y)
      BY DEF Made
    <3>2. CASE IsNew(x, t)
      <4>1. PICK m \in x.creates : m.id = t
        BY <3>2 DEF IsNew
      <4>2. EntryOf(t)' = <<m.node, m.branch>>
        BY <4>1, MadeTask
      <4>3. EntryOf(t)' \in Made(x)
        BY <4>2 DEF Made
      <4>4. QED
        BY <1>1, <3>1, <4>3
    <3>3. CASE ~IsNew(x, t)
      <4>1. task[t].status # "unused" /\ EntryOf(t)' = EntryOf(t)
        BY <2>1, <3>3, OldTask
      <4>2. QED
        BY <1>4, <4>1 DEF Once
    <3>4. QED
      BY <3>2, <3>3
  <2>2. QED
    BY <1>4, <2>1 DEF Once
<1>11. Narrow(y)'
  <2>1. task'[y.completes].branch = g[2]
    <3>1. EntryOf(y.completes)' = EntryOf(y.completes)
      BY <1>2, OldTask
    <3>2. QED
      BY <1>2, <3>1 DEF EntryOf
  <2>2. g[2] # None
    <3>1. Siblings(f, h, g)
      BY <1>1, <1>4 DEF Good
    <3>2. QED
      BY <3>1 DEF Siblings
  <2>3. PICK b : b = g[2]
    OBVIOUS
  <2>4. Keeps(y, b)'
    BY <1>1, <1>6, <2>2, <2>3 DEF Keeps
  <2>5. QED
    BY <2>1, <2>3, <2>4 DEF Narrow
<1>12. QED
  BY <1>2, <1>8, <1>9, <1>10, <1>11, <1>4 DEF WalkInv

(* A commit keeps the invariant of every transaction.                       *)
LEMMA CommitWalks ==
    ASSUME NEW f, Funnelled(f), IInv, WalksInv(f), NEW c \in Callers, Commit(c)
    PROVE  WalksInv(f)'
<1>1. tx'[c] = Idle /\ \A d \in Callers \ {c} : tx'[d] = tx[d]
  BY DEF Commit, IInv, TypeOK
<1>2. ASSUME NEW d \in Callers \ {c} PROVE WalkInv(f, tx[d])'
  <2>1. PICK x, y : x = tx[c] /\ y = tx[d]
    OBVIOUS
  <2>2. CASE y = Idle
    BY <1>1, <2>1, <2>2, CommittedOwn
  <2>3. CASE ~Walked(x)
    <3>1. WalkInv(f, y)'
      BY <2>1, <2>3, OtherOfClosing
    <3>2. QED
      BY <1>1, <2>1, <3>1
  <2>4. CASE y # Idle /\ x.completes # None /\ y.completes = None
    <3>1. WalkInv(f, y)'
      BY <2>1, <2>4, OtherThatCloses
    <3>2. QED
      BY <1>1, <2>1, <3>1
  <2>5. CASE y # Idle /\ x.completes # None /\ y.completes # None
    <3>1. WalkInv(f, y)'
      BY <2>1, <2>5, OtherThatWalks
    <3>2. QED
      BY <1>1, <2>1, <3>1
  <2>6. x.starts => y = Idle
    BY <2>1, Ending DEF Exclusive, Solo
  <2>7. QED
    BY <2>2, <2>3, <2>4, <2>5, <2>6 DEF Walked
<1>3. WalkInv(f, Idle)' /\ WalkInv(f, tx[c])'
  BY <1>1, CommittedOwn
<1>4. instance' # "none"
  BY Ending
<1>5. QED
  BY <1>2, <1>3, <1>4, CommittedOnce DEF WalksInv

(* The initial state.                                                       *)
LEMMA InitWalks ==
    ASSUME NEW f, Init
    PROVE  WalksInv(f)
<1>1. \A t \in TaskIds : task[t] = NoTask /\ NoTask.status = "unused" /\ NoTask.node = None
  BY DEF Init, NoTask
<1>2. instance = "none" /\ arrived = {} /\ \A c \in Callers : tx[c] = Idle
  BY DEF Init
<1>3. /\ Idle.completes = None /\ Idle.starts = FALSE /\ Idle.queue = <<>>
      /\ Idle.creates = {} /\ Idle.arrives = {} /\ Idle.verdict = None
  BY DEF Idle
<1>4. Past(Idle) = {} /\ Standing(Idle) = {} /\ Seen(Idle) = {}
  BY <1>1, <1>2, <1>3, FreshView
<1>5. Walks(Idle) = {} /\ Distinct(Idle.queue)
  BY <1>3 DEF Walks, EntriesOf, Distinct
<1>6. Good(f, {}, {}, {}, {})
  BY DEF Good
<1>7. Once(Idle) /\ Narrow(Idle)
  BY <1>3, <1>5 DEF Once, Narrow
<1>8. WalkInv(f, Idle)
  BY <1>2, <1>3, <1>4, <1>5, <1>6, <1>7 DEF WalkInv
<1>9. ActivatedOnce
  BY <1>1 DEF ActivatedOnce
<1>10. QED
  BY <1>1, <1>2, <1>8, <1>9 DEF WalksInv

(* Every step keeps the invariant.                                          *)
LEMMA NextWalks ==
    ASSUME NEW f, Funnelled(f), IInv, WalksInv(f), [Next]_vars
    PROVE  WalksInv(f)'
<1>1. ASSUME NEW c \in Callers, Start(c) \/ Cancel(c) PROVE WalksInv(f)'
  BY <1>1, StartWalks, CancelWalks
<1>2. ASSUME NEW c \in Callers, BreakDeadlock(c) PROVE WalksInv(f)'
  BY <1>2, IdleWalks DEF BreakDeadlock, WalksInv
<1>3. ASSUME NEW c \in Callers, Statement(c) PROVE WalksInv(f)'
  <2>1. CASE CreateTask(c)
    BY <2>1, CreateTaskWalks
  <2>2. CASE EvaluateCondition(c) \/ Notify(c)
    BY <2>2, EvaluateConditionWalks, NotifyWalks
  <2>3. CASE FanOut(c) \/ Join(c)
    BY <2>3, FanOutWalks, JoinWalks
  <2>4. CASE Finish(c) \/ Commit(c)
    BY <2>4, FinishWalks, CommitWalks
  <2>5. CASE BeginSweep(c) \/ \E t \in TaskIds : SweepTask(c, t)
    BY <2>5, ClosingWalks
  <2>6. QED
    BY <1>3, <2>1, <2>2, <2>3, <2>4, <2>5 DEF Statement
<1>4. ASSUME NEW c \in Callers, NEW t \in TaskIds, NEW v \in Verdicts,
             ForceDecision(c, t, v) \/ \E u \in Users : Decide(c, t, u, v)
      PROVE  WalksInv(f)'
  BY <1>4, CompleteWalks DEF ForceDecision, Decide
<1>5. ASSUME UNCHANGED <<task, instance, arrived, tx>> PROVE WalksInv(f)'
  BY <1>5, NoStep
<1>6. ASSUME NEW t \in TaskIds, FallDue(t) \/ \E u \in Users : Vote(t, u) \/ Reassign(t, u)
      PROVE  WalksInv(f)'
  BY <1>5, <1>6 DEF FallDue, Vote, Reassign
<1>7. ASSUME NEW w \in Workers, Escalate(w) \/ \E t \in TaskIds : ReadLate(w, t)
      PROVE  WalksInv(f)'
  BY <1>5, <1>7 DEF Escalate, ReadLate, db
<1>8. CASE UNCHANGED vars
  BY <1>5, <1>8 DEF vars, db
<1>9. QED
  BY <1>1, <1>2, <1>3, <1>4, <1>6, <1>7, <1>8 DEF Next

(* No node is activated twice in a branch, for any graph whose branches     *)
(* funnel into their joins, and any number of callers, approvers and tasks  *)
(* (the lock of fetchTaskWithInstanceForDecision, activateNode).            *)
THEOREM ActivatedOnceCorrect ==
    ASSUME NEW CONSTANT shape, Funnelled(shape)
    PROVE  Spec => []ActivatedOnce
<1>1. WalksInv(shape) => ActivatedOnce
  BY DEF WalksInv
<1>2. Init => WalksInv(shape)
  BY InitWalks
<1>3. IInv /\ WalksInv(shape) /\ [Next]_vars => WalksInv(shape)'
  BY NextWalks
<1>4. QED
  BY <1>1, <1>2, <1>3, Inductive, PTL DEF Spec

(* In the same graphs, a pending instance with no transaction open has a    *)
(* task to decide, or every branch of one of its joins has arrived: nothing *)
(* else strands it (activateNode, evaluateJoin).                            *)
THEOREM StrandedCorrect ==
    ASSUME NEW CONSTANT shape, Funnelled(shape)
    PROVE  Spec => []StrandedOnlyAtJoin
<1>1. WalksInv(shape) => StrandedOnlyAtJoin
  <2>1. SUFFICES ASSUME WalksInv(shape), instance = "pending", ~SomePending
                 PROVE  \E j \in OfType("join") : Joined(j)
    BY DEF StrandedOnlyAtJoin
  <2>2. /\ Idle.creates = {} /\ Idle.arrives = {} /\ Idle.queue = <<>>
        /\ Idle.verdict = None
    BY DEF Idle
  <2>3. Standing(Idle) = {} /\ Seen(Idle) = arrived /\ Walks(Idle) = {}
    BY <2>1, <2>2, FreshView DEF SomePending, Walks, EntriesOf
  <2>4. Whole(shape, {}, arrived)
    BY <2>1, <2>2, <2>3 DEF WalksInv, WalkInv
  <2>5. PICK j \in OfType("join") : \A b \in Graph[j].awaits : <<j, b>> \in arrived
    BY <2>4 DEF Whole
  <2>6. QED
    BY <2>5 DEF Joined
<1>2. Init => WalksInv(shape)
  BY InitWalks
<1>3. IInv /\ WalksInv(shape) /\ [Next]_vars => WalksInv(shape)'
  BY NextWalks
<1>4. QED
  BY <1>1, <1>2, <1>3, Inductive, PTL DEF Spec
=============================================================================
