-------------------------- MODULE BookingHoldsProofs --------------------------
(***************************************************************************)
(* Safety of the claims on one booking resource, for any requests, units,  *)
(* nights, sessions and bounds: types, whole and exclusive claims, verdicts*)
(* that stand, the cap on live holds, the lineage of a reschedule, and what*)
(* a refused claim may say.                                                *)
(*                                                                         *)
(* The argument is about transactions. What a transaction has written it   *)
(* has locked, or is its own new row; what it has locked nobody else       *)
(* changes; so what it judged when it wrote is still true when it commits. *)
(***************************************************************************)
EXTENDS BookingHolds, FiniteSetTheorems, TLAPS

(* The changes of a row that existed before. *)
Settling == {c \in LegalChanges : c[1] # "none"}

Placing(t) == t.at # "idle" /\ t.verb = "place"
(* It has written its new row, and the savepoint was not rolled back. *)
Claiming(t) == Placing(t) /\ t.writes[t.id] # "none"
Moving(t) == Claiming(t) /\ Kind[t.id] = "move"
(* The row it locks first. *)
RowOf(t) == IF t.verb = "place" THEN Replaces[t.id] ELSE t.id
Early == {"lock", "update", "reclaim", "expire", "write"}

(* Where a transaction is, and what it has done by then. *)
Shape(t) ==
    /\ t.at = "idle" => t = NoTx
    /\ t.at \in {"reclaim", "expire", "write", "read", "claim", "cap"} => t.verb = "place"
    /\ t.at \in {"lock", "update"} => t.writes = NoWrites /\ t.after = 0
    /\ t.at = "lock" /\ t.verb = "place" => Kind[t.id] = "move"
    /\ t.at = "update" => t.rows = {RowOf(t)}
    /\ t.at = "update" /\ t.verb = "place" => Kind[t.id] = "move"
    /\ t.at \in {"read", "claim", "cap"} => t.writes[t.id] # "none"
    /\ t.at \in Early => t.writes[t.id] = "none"
    /\ t.at = "expire" => t.after \in t.rows
    /\ t.cap => t.at = "commit"

(* What it has written is settled by its row lock, or is its new row. *)
Backed(t) ==
    /\ \A q \in t.rows : status[q] # "none"
    /\ t.at = "lock" => status[RowOf(t)] # "none"
    /\ Placing(t) => status[t.id] = "none"
    /\ \A q \in Ids : t.writes[q] # "none" =>
        \/ Placing(t) /\ q = t.id /\ t.writes[q] = Born(q)
        \/ /\ q \in t.rows /\ <<status[q], t.writes[q]>> \in Settling
           /\ t.writes[q] = "expired" => expires[q] <= clock

(* A reschedule keeps the row it replaces, and supersedes it with its claim. *)
Superseding(t) ==
    /\ Placing(t) /\ Kind[t.id] = "move" /\ t.at \notin {"lock", "update"} =>
        Replaces[t.id] \in t.rows /\ status[Replaces[t.id]] = "confirmed"
    /\ \A q \in Ids : t.writes[q] = "rescheduled" <=> Moving(t) /\ q = Replaces[t.id]

(* The units it has won are enough when it ends, and free of committed rows *)
(* it does not release itself.                                              *)
Winning(t) ==
    /\ ~Claiming(t) => t.won = {}
    /\ t.cand \subseteq Target[t.id]
    /\ t.at \in {"read", "claim"} => Cardinality(t.won) < Quantity[t.id]
    /\ Claiming(t) /\ t.at \in {"cap", "commit"} => Cardinality(t.won) = Quantity[t.id]
    /\ \A q \in Ids : Overlap(q, t.id) /\ t.won \cap alloc[q] # {} => t.writes[q] \in Releasing

(* The holds that had elapsed: those in the way are expired on the way. *)
InTheWayOf(t, q) == alloc[q] \cap Target[t.id] # {} /\ Overlap(q, t.id)
Reclaimed(t) ==
    \A q \in t.due :
        /\ status[q] # "none"
        /\ status[q] = "held" => expires[q] <= clock
        /\ /\ status[q] = "held" /\ InTheWayOf(t, q)
           /\ \/ t.at \in {"write", "read", "claim", "cap"}
              \/ t.at \in {"reclaim", "expire"} /\ q <= t.after
           => t.writes[q] = "expired" \/ (t.at = "expire" /\ q = t.after)

(* A hold is committed by the transaction that has counted it. *)
One(t) == IF clock < t.expiry THEN 1 ELSE 0
Capped(t) ==
    /\ Claiming(t) /\ Kind[t.id] = "hold" /\ t.at = "commit" => t.cap
    /\ t.cap => Cardinality(LiveHolds) + One(t) <= HoldCap

TxInv(t) ==
    Shape(t) /\ Backed(t) /\ Superseding(t) /\ Winning(t) /\ Reclaimed(t) /\ Capped(t)

(* What two transactions do not share. *)
Apart(s, t) ==
    /\ s.rows \cap t.rows = {}
    /\ Overlap(s.id, t.id) => s.won \cap t.won = {}
    /\ Placing(s) /\ Placing(t) => s.id # t.id
    /\ ~(s.cap /\ t.cap)

(* A request is asked for once, and is a row only then. *)
AskedOnce ==
    /\ \A r \in Ids : status[r] # "none" => r \in asked
    /\ \A w \in Sessions : Placing(tx[w]) => tx[w].id \in asked

Lineage ==
    /\ \A r \in Ids : Kind[r] = "move" /\ status[r] # "none" => status[Replaces[r]] = "rescheduled"
    /\ \A q, r \in Ids :
        /\ Kind[q] = "move" /\ Kind[r] = "move" /\ Replaces[q] = Replaces[r]
        /\ status[q] # "none" /\ status[r] # "none"
        => q = r
    /\ \A old \in Ids : status[old] = "rescheduled" =>
        \E r \in Ids : Kind[r] = "move" /\ Replaces[r] = old /\ status[r] # "none"

IInv ==
    /\ TypeOK
    /\ \A w \in Sessions : TxInv(tx[w])
    /\ \A v, w \in Sessions : v # w => Apart(tx[v], tx[w])
    /\ AskedOnce /\ WholeOrNothing /\ Lineage /\ CapHonoured

----------------------------------------------------------------------------
(* Least elements, and the waits of a session in a circle. *)

(* A finite set of integers has a least element. *)
LEMMA LeastOf ==
    ASSUME NEW S, S \subseteq Int, IsFiniteSet(S), S # {}
    PROVE  Least(S) \in S /\ \A n \in S : Least(S) <= n
<1> DEFINE Below(m) == {n \in S : n <= m}
          R == StrictSubsetOrdering(S)
          T == {Below(m) : m \in S}
<1>1. IsWellFoundedOn(R, FiniteSubsetsOf(S))
  BY FS_StrictSubsetOrderingWellFounded
<1>2. FiniteSubsetsOf(S) = SUBSET S  BY FS_FiniteSubsetsOfFinite
<1>3. T \subseteq SUBSET S /\ T # {}  OBVIOUS
<1>4. PICK X \in T : \A Y \in T : ~(<<Y, X>> \in R)
  <2>1. T \subseteq FiniteSubsetsOf(S)  BY <1>2, <1>3
  <2> HIDE DEF T, R
  <2> QED BY <2>1, <1>1, <1>3, WFMin, Zenon
<1>5. PICK m \in S : X = Below(m)  BY <1>4
<1>6. ASSUME NEW n \in S, ~(m <= n) PROVE FALSE
  <2>1. n < m /\ n \in Int /\ m \in Int  BY <1>6
  <2>2. \A k \in Below(n) : k \in Below(m)
    <3> TAKE k \in Below(n)
    <3>1. k \in Int /\ k \in S /\ k <= n  OBVIOUS
    <3> QED BY <3>1, <2>1
  <2>3. m \in Below(m) /\ m \notin Below(n)  BY <2>1
  <2>4. Below(n) \in T  OBVIOUS
  <2>5. <<Below(n), Below(m)>> \in (SUBSET S) \X (SUBSET S)  OBVIOUS
  <2>6. <<Below(n), Below(m)>> \in R
    <3> HIDE DEF Below
    <3> QED BY <2>2, <2>3, <2>5 DEF StrictSubsetOrdering
  <2> QED BY <2>4, <2>6, <1>4, <1>5
<1>7. \E l \in S : \A n \in S : l <= n  BY <1>6
<1> QED BY <1>7 DEF Least

(* The sets the code orders are finite sets of numbers. *)
LEMMA LeastIn ==
    ASSUME NEW S, S # {}, S \subseteq Ids \/ S \subseteq Units
    PROVE  Least(S) \in S /\ \A n \in S : Least(S) <= n
<1>1. Ids \subseteq Int  BY IdAssumption
<1>3. S \subseteq Int /\ (IsFiniteSet(Ids) /\ IsFiniteSet(Units) => IsFiniteSet(S))
  BY <1>1, FS_Subset, IdAssumption
<1> QED BY <1>3, LeastOf, IdAssumption

(* A session in a circle of waits is waiting. *)
LEMMA DeadlockedWaits ==
    ASSUME NEW w \in Sessions, Deadlocked(w)
    PROVE  tx[w].at \in {"lock", "reclaim", "claim", "cap"}
<1>1. ~\A u \in Sessions : ~(w # u /\ Waits(w, u))
  <2> SUFFICES ASSUME \A u \in Sessions : ~(w # u /\ Waits(w, u)) PROVE FALSE  OBVIOUS
  <2>1. \A v \in {} \cup {w} : \A u \in Sessions : v # u /\ Waits(v, u) => u \in {}  OBVIOUS
  <2>2. w \in {}  BY <2>1 DEF Deadlocked
  <2> QED BY <2>2
<1>2. PICK u \in Sessions : Waits(w, u)  BY <1>1
<1> QED BY <1>2 DEF Waits

----------------------------------------------------------------------------
(* The statuses and their changes. *)

LEMMA RuleChanges ==
    ASSUME NEW verb \in DOMAIN Rules, NEW s \in Rules[verb].from
    PROVE  /\ <<s, Rules[verb].to>> \in Settling
           /\ Rules[verb].to \in Statuses \ {"none", "expired", "rescheduled"}
<1>1. verb \in {"confirm", "cancel", "check_in", "complete", "no_show", "release"}
  BY DEF Rules
<1>2. <<s, Rules[verb].to>> \in LegalChanges
  <2>1. Rules[verb].from \X {Rules[verb].to} \in
            {Rules[v].from \X {Rules[v].to} : v \in DOMAIN Rules}
    OBVIOUS
  <2>2. <<s, Rules[verb].to>> \in Rules[verb].from \X {Rules[verb].to}  OBVIOUS
  <2> HIDE DEF Rules
  <2> QED BY <2>1, <2>2 DEF LegalChanges
<1>3. s # "none" /\ Rules[verb].to \in Statuses \ {"none", "expired", "rescheduled"}
  BY <1>1 DEF Rules, Statuses, Releasing, Occupying
<1> QED BY <1>2, <1>3 DEF Settling

LEMMA SettlingIs ==
    ASSUME NEW a, NEW b, <<a, b>> \in Settling
    PROVE  /\ a \in Occupying /\ a # "none" /\ a \notin Releasing
           /\ b \in Releasing \cup Occupying /\ b \notin {"none", "held"}
           /\ b = "expired" => a = "held"
           /\ b = "rescheduled" => a = "confirmed"
           /\ b = "confirmed" => a = "held"
<1>1. <<a, b>> \in LegalChanges /\ a # "none"  BY DEF Settling
<1>2. CASE <<a, b>> \in UNION {Rules[v].from \X {Rules[v].to} : v \in DOMAIN Rules}
  <2>1. PICK v \in DOMAIN Rules : a \in Rules[v].from /\ b = Rules[v].to  BY <1>2
  <2>2. v \in {"confirm", "cancel", "check_in", "complete", "no_show", "release"}
    BY DEF Rules
  <2> QED BY <2>1, <2>2 DEF Rules, Releasing, Occupying
<1>3. CASE <<a, b>> \in {<<"none", "held">>, <<"none", "confirmed">>, <<"none", "blocked">>,
                        <<"held", "expired">>, <<"confirmed", "rescheduled">>}
  BY <1>1, <1>3 DEF Releasing, Occupying
<1> QED BY <1>1, <1>2, <1>3 DEF LegalChanges

LEMMA LockedChanges ==
    <<"held", "expired">> \in Settling /\ <<"confirmed", "rescheduled">> \in Settling
BY DEF Settling, LegalChanges

LEMMA BornIs ==
    ASSUME NEW r \in Ids
    PROVE  /\ Born(r) \in {"held", "confirmed", "blocked"}
           /\ Born(r) \in Statuses /\ Born(r) \in Occupying /\ Born(r) \notin Releasing
           /\ Born(r) = "held" => Kind[r] = "hold"
           /\ <<"none", Born(r)>> \in LegalChanges
<1>1. Kind[r] \in {"hold", "immediate", "move", "block"}  BY RequestAssumption
<1>2. CASE Kind[r] = "hold"
  BY <1>2 DEF Born, Statuses, Releasing, Occupying, LegalChanges
<1>3. CASE Kind[r] = "block"
  BY <1>3 DEF Born, Statuses, Releasing, Occupying, LegalChanges
<1>4. CASE Kind[r] \notin {"hold", "block"}
  BY <1>4 DEF Born, Statuses, Releasing, Occupying, LegalChanges
<1> QED BY <1>2, <1>3, <1>4

LEMMA StatusesApart ==
    /\ Releasing \cap Occupying = {}
    /\ "none" \notin Releasing /\ "none" \notin Occupying
    /\ Statuses = {"none"} \cup Releasing \cup Occupying
    /\ "held" \in Occupying /\ "rescheduled" \in Releasing /\ "expired" \in Releasing
BY DEF Statuses, Releasing, Occupying

----------------------------------------------------------------------------
(* What an action has to show of the transaction it changes. *)

(* No two of them share anything is said once for both. *)
LEMMA ApartBoth ==
    ASSUME NEW s, NEW t, Apart(s, t)
    PROVE  Apart(t, s)
BY DEF Apart, Overlap

LEMMA TxType ==
    ASSUME TypeOK, NEW w \in Sessions
    PROVE  tx[w] \in TxRecords
BY DEF TypeOK

LEMMA NoTxIs ==
    /\ NoTx \in TxRecords
    /\ NoTx.at = "idle" /\ NoTx.verb = "place" /\ NoTx.id \in Ids /\ NoTx.rows = {}
    /\ NoTx.writes = NoWrites /\ NoTx.after = 0 /\ NoTx.due = {} /\ NoTx.expiry = 0
    /\ NoTx.won = {} /\ NoTx.cand = {} /\ NoTx.cap = FALSE /\ NoTx.says = ""
    /\ NoTx.rounds = 0 /\ NoTx.tries = 0
    /\ \A q \in Ids : NoTx.writes[q] = "none"
<1>1. (CHOOSE r \in Ids : TRUE) \in Ids  BY IdAssumption
<1>2. NoWrites \in [Ids -> Statuses] /\ \A q \in Ids : NoWrites[q] = "none"
  BY DEF NoWrites, Statuses
<1> HIDE DEF NoWrites
<1>3. NoTx \in TxRecords  BY <1>1, <1>2 DEF NoTx, TxRecords, Answers
<1> QED BY <1>1, <1>2, <1>3 DEF NoTx

LEMMA NoTxFits ==
    TxInv(NoTx) /\ \A t \in TxRecords : Apart(NoTx, t)
<1>1. ~Placing(NoTx) /\ ~Claiming(NoTx) /\ ~Moving(NoTx)
  BY NoTxIs DEF Placing, Claiming, Moving
<1>2. Shape(NoTx)  BY NoTxIs DEF Shape, Early
<1>3. Backed(NoTx)  BY NoTxIs, <1>1 DEF Backed
<1>4. Superseding(NoTx)  BY NoTxIs, <1>1 DEF Superseding
<1>5. Winning(NoTx)  BY NoTxIs, <1>1 DEF Winning
<1>6. Reclaimed(NoTx)  BY NoTxIs DEF Reclaimed
<1>7. Capped(NoTx)  BY NoTxIs, <1>1 DEF Capped
<1>8. \A t \in TxRecords : Apart(NoTx, t)  BY NoTxIs, <1>1 DEF Apart
<1> QED BY <1>2, <1>3, <1>4, <1>5, <1>6, <1>7, <1>8 DEF TxInv

(* A step that leaves the tables, and the clock, as they are. *)
LEMMA OnlyOneMoves ==
    ASSUME IInv, NEW w \in Sessions, NEW o \in TxRecords,
           tx' = [tx EXCEPT ![w] = o], UNCHANGED <<clock, rows>>,
           asked' \subseteq Ids, asked \subseteq asked', verbs' \in Nat, faults' \in Nat,
           TxInv(o), \A v \in Others(w) : Apart(o, tx[v]),
           Placing(o) => o.id \in asked'
    PROVE  IInv'
<1> USE DEF IInv
<1>1. tx' \in [Sessions -> TxRecords] /\ tx'[w] = o /\ \A v \in Others(w) : tx'[v] = tx[v]
  BY DEF TypeOK, Others
<1>2. TypeOK'  BY <1>1 DEF TypeOK, rows
<1>3. ASSUME NEW v \in Sessions PROVE TxInv(tx[v])'
  <2>1. TxInv(tx'[v])
    <3>1. CASE v = w  BY <1>1, <3>1
    <3>2. CASE v # w  BY <1>1, <3>2 DEF Others
    <3> QED BY <3>1, <3>2
  <2>2. LiveHolds' = LiveHolds  BY DEF LiveHolds, rows
  <2> QED BY <2>1, <2>2 DEF TxInv, Shape, Backed, Superseding, Winning, Reclaimed, Capped,
        InTheWayOf, One, rows, Claiming, Moving, Placing
<1>4. ASSUME NEW u \in Sessions, NEW v \in Sessions, u # v PROVE Apart(tx[u], tx[v])'
  <2>1. Apart(tx'[u], tx'[v])
    <3>1. CASE u = w  BY <1>1, <1>4, <3>1 DEF Others
    <3>2. CASE v = w
      <4>1. Apart(o, tx[u])  BY <1>4, <3>2 DEF Others
      <4> QED BY <1>1, <1>4, <3>2, <4>1, ApartBoth DEF Others
    <3>3. CASE u # w /\ v # w  BY <1>1, <1>4, <3>3 DEF Others
    <3> QED BY <3>1, <3>2, <3>3
  <2> QED BY <2>1 DEF Apart, Placing
<1>5. AskedOnce'
  <2>1. \A r \in Ids : status[r] # "none" => r \in asked'  BY DEF AskedOnce
  <2>2. ASSUME NEW v \in Sessions, Placing(tx'[v]) PROVE tx'[v].id \in asked'
    <3>1. CASE v = w  BY <1>1, <2>2, <3>1
    <3>2. CASE v # w  BY <1>1, <2>2, <3>2 DEF AskedOnce, Others
    <3> QED BY <3>1, <3>2
  <2> QED BY <2>1, <2>2 DEF AskedOnce, rows, Placing
<1>6. WholeOrNothing'  BY DEF WholeOrNothing, rows
<1>7. Lineage'  BY DEF Lineage, rows
<1>8. CapHonoured'  BY DEF CapHonoured, LiveHolds, rows
<1> QED BY <1>2, <1>3, <1>4, <1>5, <1>6, <1>7, <1>8

(* A transaction that fails is forgotten. *)
LEMMA EndedInv ==
    ASSUME IInv, NEW w \in Sessions, tx' = Ended(w), UNCHANGED <<clock, rows, asked>>,
           verbs' \in Nat, faults' \in Nat
    PROVE  IInv'
<1>1. ~Placing(NoTx)  BY NoTxIs DEF Placing
<1>2. \A v \in Others(w) : Apart(NoTx, tx[v])  BY NoTxFits, TxType DEF IInv, Others
<1>3. asked \subseteq Ids  BY DEF IInv, TypeOK
<1> QED BY <1>1, <1>2, <1>3, NoTxIs, NoTxFits, OnlyOneMoves DEF Ended

(* It stays apart when it takes nothing more. *)
LEMMA StaysApart ==
    ASSUME NEW s, NEW t, NEW o, Apart(t, s), o.id = t.id, o.rows \subseteq t.rows,
           o.won \subseteq t.won, Placing(o) => Placing(t), o.cap => t.cap
    PROVE  Apart(o, s)
BY DEF Apart

LEMMA AskedId ==
    ASSUME IInv, NEW w \in Sessions, Placing(tx[w])
    PROVE  tx[w].id \in asked
BY DEF IInv, AskedOnce

(* The parts of the invariant that speak of one transaction. *)
LEMMA Parts ==
    ASSUME IInv, NEW w \in Sessions
    PROVE  /\ tx[w] \in TxRecords /\ Shape(tx[w]) /\ Backed(tx[w]) /\ Superseding(tx[w])
           /\ Winning(tx[w]) /\ Reclaimed(tx[w]) /\ Capped(tx[w])
           /\ \A v \in Others(w) : Apart(tx[w], tx[v])
BY TxType DEF IInv, TxInv, Others

LEMMA Types ==
    ASSUME IInv
    PROVE  /\ clock \in Nat /\ status \in [Ids -> Statuses] /\ expires \in [Ids -> Nat]
           /\ alloc \in [Ids -> SUBSET Units] /\ tx \in [Sessions -> TxRecords]
           /\ asked \subseteq Ids /\ verbs \in Nat /\ faults \in Nat
BY DEF IInv, TypeOK

----------------------------------------------------------------------------
(* Each action keeps the invariant. *)

LEMMA HoldsAreFew ==
    /\ IsFiniteSet(LiveHolds) /\ Cardinality(LiveHolds) \in Nat
    /\ IsFiniteSet(LiveHolds') /\ Cardinality(LiveHolds') \in Nat
<1>1. IsFiniteSet(Ids) /\ LiveHolds \subseteq Ids /\ LiveHolds' \subseteq Ids
  BY IdAssumption DEF LiveHolds
<1> QED BY <1>1, FS_Subset, FS_CardinalityType

LEMMA FewerHolds ==
    ASSUME LiveHolds' \subseteq LiveHolds
    PROVE  Cardinality(LiveHolds') <= Cardinality(LiveHolds)
BY HoldsAreFew, FS_Subset

(* Time elapses holds, and frees places under the cap. *)
LEMMA TickInv == ASSUME IInv, Tick PROVE IInv'
<1> USE DEF IInv
<1>1. clock \in Nat /\ clock' = clock + 1 /\ UNCHANGED <<status, expires, alloc, tx, asked, verbs, faults>>
  BY DEF Tick, TypeOK, rows
<1>2. TypeOK'  BY <1>1 DEF TypeOK
<1>3. LiveHolds' \subseteq LiveHolds  BY <1>1, Types DEF LiveHolds
<1>4. Cardinality(LiveHolds') <= Cardinality(LiveHolds)  BY <1>3, FewerHolds
<1>5. HoldCap \in Nat  BY BoundAssumption
<1>6. CapHonoured'  BY <1>4, <1>5, HoldsAreFew DEF CapHonoured
<1>7. ASSUME NEW w \in Sessions PROVE TxInv(tx[w])'
  <2> DEFINE t == tx[w]
  <2>1. t \in TxRecords /\ t' = t  BY <1>1, Parts
  <2>2. TxInv(t)  OBVIOUS
  <2>3. t.due \subseteq Ids /\ t.expiry \in Nat  BY <2>1 DEF TxRecords
  <2>4. Shape(t)'  BY <1>1, <2>1, <2>2 DEF TxInv, Shape
  <2>5. Backed(t)'
    <3>1. \A q \in Ids : expires[q] <= clock => expires[q] <= clock'  BY <1>1, Types
    <3> QED BY <1>1, <2>2, <3>1 DEF TxInv, Backed, Placing
  <2>6. Superseding(t)' /\ Winning(t)'
    BY <1>1, <2>1, <2>2 DEF TxInv, Superseding, Winning, Moving, Claiming, Placing
  <2>7. Reclaimed(t)'
    <3>1. \A q \in Ids : expires[q] <= clock => expires[q] <= clock'  BY <1>1, Types
    <3> QED BY <1>1, <2>2, <2>3, <3>1 DEF TxInv, Reclaimed, InTheWayOf
  <2>8. Capped(t)'
    <3>1. One(t)' <= One(t)  BY <1>1, <2>3 DEF One
    <3>2. One(t) \in Nat /\ One(t)' \in Nat  BY DEF One
    <3>3. ASSUME t.cap PROVE Cardinality(LiveHolds') + One(t)' <= HoldCap
      <4>1. Cardinality(LiveHolds) + One(t) <= HoldCap  BY <2>2, <3>3 DEF TxInv, Capped
      <4> QED BY <3>1, <3>2, <4>1, <1>4, <1>5, HoldsAreFew
    <3> HIDE DEF t
    <3> QED BY <2>1, <2>2, <3>3 DEF TxInv, Capped, Claiming, Placing
  <2> QED BY <2>4, <2>5, <2>6, <2>7, <2>8 DEF TxInv
<1>8. \A v, w \in Sessions : v # w => Apart(tx'[v], tx'[w])  BY <1>1
<1>9. AskedOnce' /\ WholeOrNothing' /\ Lineage'
  BY <1>1 DEF AskedOnce, WholeOrNothing, Lineage, Placing
<1> QED BY <1>2, <1>6, <1>7, <1>8, <1>9 DEF Apart, Placing

LEMMA AskVerbInv ==
    ASSUME IInv, NEW w \in Sessions, NEW verb \in Verbs, NEW r \in Ids, AskVerb(w, verb, r)
    PROVE  IInv'
<1> DEFINE o == [NoTx EXCEPT !.at = "lock", !.verb = verb, !.id = r]
<1>1. tx' = [tx EXCEPT ![w] = o] /\ verbs' = verbs + 1
      /\ UNCHANGED <<clock, rows, asked, faults>>
  BY DEF AskVerb
<1>2. verb \in DOMAIN Rules /\ verb # "place"  BY VerbAssumption DEF Rules
<1>3. /\ o \in TxRecords
      /\ o.at = "lock" /\ o.verb = verb /\ o.id = r /\ o.rows = {} /\ o.writes = NoWrites
      /\ o.after = 0 /\ o.due = {} /\ o.won = {} /\ o.cand = {} /\ o.cap = FALSE
      /\ \A q \in Ids : o.writes[q] = "none"
  BY <1>2, NoTxIs DEF TxRecords
<1> HIDE DEF o
<1>4. ~Placing(o) /\ ~Claiming(o) /\ ~Moving(o)
  BY <1>2, <1>3 DEF Placing, Claiming, Moving
<1>5. TxInv(o)
  <2>1. Shape(o)  BY <1>2, <1>3 DEF Shape, Early
  <2>2. Backed(o)
    <3>1. status[r] # "none"  BY DEF AskVerb
    <3> QED BY <1>2, <1>3, <1>4, <3>1 DEF Backed, RowOf
  <2>3. Superseding(o)  BY <1>3, <1>4 DEF Superseding
  <2>4. Winning(o)  BY <1>3, <1>4 DEF Winning
  <2>5. Reclaimed(o)  BY <1>3 DEF Reclaimed
  <2>6. Capped(o)  BY <1>3, <1>4 DEF Capped
  <2> QED BY <2>1, <2>2, <2>3, <2>4, <2>5, <2>6 DEF TxInv
<1>6. \A v \in Others(w) : Apart(o, tx[v])  BY <1>3, <1>4 DEF Apart
<1>7. asked \subseteq Ids /\ verbs' \in Nat /\ faults' \in Nat  BY <1>1, Types
<1> QED BY <1>1, <1>3, <1>4, <1>5, <1>6, <1>7, OnlyOneMoves

LEMMA LockReservationInv ==
    ASSUME IInv, NEW w \in Sessions, LockReservation(w)
    PROVE  IInv'
<1> DEFINE t == tx[w]
          o == [t EXCEPT !.rows = {Row(w)}, !.at = "update"]
<1>0. /\ t \in TxRecords /\ t.at = "lock" /\ RowFree(w, Row(w))
      /\ UNCHANGED <<clock, rows, asked, verbs, faults>>
      /\ tx' = [tx EXCEPT ![w] = o]
  BY Parts, Types DEF LockReservation
<1>1. Shape(t) /\ Backed(t) /\ Superseding(t) /\ Winning(t) /\ Reclaimed(t) /\ Capped(t)
  BY Parts
<1>2. Row(w) \in Ids  BY <1>0, RequestAssumption DEF Row, TxRecords
<1>3. /\ o \in TxRecords /\ o.at = "update" /\ o.verb = t.verb /\ o.id = t.id
      /\ o.rows = {Row(w)} /\ o.writes = t.writes /\ o.after = t.after /\ o.due = t.due
      /\ o.won = t.won /\ o.cand = t.cand /\ o.cap = t.cap /\ o.expiry = t.expiry
  BY <1>0, <1>2 DEF TxRecords
<1>4. Row(w) = RowOf(t)  BY DEF Row, RowOf
<1> HIDE DEF o, t
<1>5. t.writes = NoWrites /\ \A q \in Ids : t.writes[q] = "none"
  BY <1>0, <1>1, NoTxIs DEF Shape
<1>6. t.id \in Ids  BY <1>0 DEF TxRecords
<1>7. ~Claiming(o) /\ ~Claiming(t) /\ ~Moving(o)  BY <1>3, <1>5, <1>6 DEF Claiming, Moving
<1>8. Placing(o) <=> Placing(t)  BY <1>0, <1>3 DEF Placing
<1>9. status[Row(w)] # "none"  BY <1>0, <1>1, <1>4 DEF Backed
<1>10. TxInv(o)
  <2>1. Shape(o)  BY <1>0, <1>1, <1>3, <1>4, <1>5 DEF Shape, Early, RowOf
  <2>2. Backed(o)  BY <1>0, <1>1, <1>3, <1>5, <1>8, <1>9 DEF Backed
  <2>3. Superseding(o)  BY <1>1, <1>3, <1>5, <1>7 DEF Superseding
  <2>4. Winning(o)  BY <1>1, <1>3, <1>7 DEF Winning
  <2>5. Reclaimed(o)  BY <1>1, <1>3 DEF Reclaimed
  <2>6. Capped(o)  BY <1>1, <1>3, <1>7 DEF Capped, One
  <2> QED BY <2>1, <2>2, <2>3, <2>4, <2>5, <2>6 DEF TxInv
<1>11. ASSUME NEW v \in Others(w) PROVE Apart(o, tx[v])
  <2>1. Apart(t, tx[v])  BY Parts DEF t
  <2>2. Row(w) \notin tx[v].rows  BY <1>0 DEF RowFree
  <2> QED BY <1>3, <1>8, <2>1, <2>2 DEF Apart
<1>12. asked \subseteq Ids /\ verbs' \in Nat /\ faults' \in Nat /\ UNCHANGED asked
  BY <1>0, Types
<1>13. Placing(o) => o.id \in asked
  <2>1. Placing(t) => t.id \in asked  BY AskedId DEF t
  <2> QED BY <1>3, <1>8, <2>1
<1> QED BY <1>0, <1>3, <1>10, <1>11, <1>12, <1>13, OnlyOneMoves

LEMMA TransitionReservationInv ==
    ASSUME IInv, NEW w \in Sessions, TransitionReservation(w)
    PROVE  IInv'
<1> DEFINE t == tx[w]
          to == Rules[t.verb].to
          o == [t EXCEPT !.writes = [@ EXCEPT ![t.id] = to], !.at = "commit"]
<1>0. /\ t \in TxRecords /\ t.at = "update" /\ t.verb \in DOMAIN Rules
      /\ UNCHANGED <<clock, rows, asked, verbs, faults>>
      /\ tx' = IF Legal(t.verb, t.id) THEN [tx EXCEPT ![w] = o] ELSE Ended(w)
  BY Parts, Types DEF TransitionReservation
<1>1. CASE ~Legal(t.verb, t.id)
  <2>1. tx' = Ended(w)  BY <1>0, <1>1
  <2> QED BY <1>0, <2>1, EndedInv, Types
<1>2. CASE Legal(t.verb, t.id)
  <2>1. Shape(t) /\ Backed(t) /\ Superseding(t) /\ Winning(t) /\ Reclaimed(t) /\ Capped(t)
    BY Parts
  <2>2. status[t.id] \in Rules[t.verb].from  BY <1>2 DEF Legal
  <2>3. to \in Statuses \ {"none", "expired", "rescheduled"} /\ <<status[t.id], to>> \in Settling
    BY <1>0, <2>2, RuleChanges
  <2>4. t.verb # "place"  BY <1>0 DEF Rules
  <2> HIDE DEF to
  <2>5. t.id \in Ids /\ t.writes \in [Ids -> Statuses]  BY <1>0 DEF TxRecords
  <2>6. /\ o \in TxRecords /\ o.at = "commit" /\ o.verb = t.verb /\ o.id = t.id
        /\ o.rows = t.rows /\ o.after = t.after /\ o.due = t.due /\ o.won = t.won
        /\ o.cand = t.cand /\ o.cap = t.cap /\ o.expiry = t.expiry
        /\ o.writes = [t.writes EXCEPT ![t.id] = to]
    BY <1>0, <2>3, <2>5 DEF TxRecords
  <2>7. tx' = [tx EXCEPT ![w] = o]  BY <1>0, <1>2
  <2> HIDE DEF o, t
  <2>8. t.rows = {t.id} /\ \A q \in Ids : t.writes[q] = "none"
    BY <1>0, <2>1, <2>4, NoTxIs DEF Shape, RowOf
  <2>9. o.writes[t.id] = to /\ \A q \in Ids : q # t.id => o.writes[q] = "none"
    BY <2>5, <2>6, <2>8
  <2>10. ~Placing(o) /\ ~Placing(t) /\ ~Claiming(o) /\ ~Claiming(t) /\ ~Moving(o)
    BY <2>4, <2>6 DEF Placing, Claiming, Moving
  <2>11. TxInv(o)
    <3>1. Shape(o)  BY <1>0, <2>1, <2>4, <2>6 DEF Shape, Early
    <3>2. Backed(o)  BY <2>1, <2>3, <2>6, <2>8, <2>9, <2>10 DEF Backed
    <3>3. Superseding(o)  BY <2>3, <2>5, <2>9, <2>10 DEF Superseding
    <3>4. Winning(o)
      <4>1. o.won = {} /\ o.cand \subseteq Target[o.id]  BY <2>1, <2>6, <2>10 DEF Winning
      <4> QED BY <4>1, <2>6, <2>10 DEF Winning
    <3>5. Reclaimed(o)
      <4>1. o.at \notin {"write", "read", "claim", "cap", "reclaim", "expire"}  BY <2>6
      <4> QED BY <4>1, <2>1, <2>6 DEF Reclaimed
    <3>6. Capped(o)  BY <2>1, <2>6, <2>10 DEF Capped, One
    <3> QED BY <3>1, <3>2, <3>3, <3>4, <3>5, <3>6 DEF TxInv
  <2>12. ASSUME NEW v \in Others(w) PROVE Apart(o, tx[v])
    <3>1. Apart(t, tx[v])  BY Parts DEF t
    <3> QED BY <2>6, <2>10, <3>1, StaysApart
  <2>13. asked \subseteq Ids /\ verbs' \in Nat /\ faults' \in Nat /\ UNCHANGED asked
    BY <1>0, Types
  <2> QED BY <1>0, <2>6, <2>7, <2>10, <2>11, <2>12, <2>13, OnlyOneMoves
<1> QED BY <1>1, <1>2

LEMMA RescheduleReservationInv ==
    ASSUME IInv, NEW w \in Sessions, RescheduleReservation(w)
    PROVE  IInv'
<1> DEFINE t == tx[w]
          o == [t EXCEPT !.at = "reclaim", !.due = ElapsedHolds]
<1>0. /\ t \in TxRecords /\ t.at = "update" /\ t.verb = "place"
      /\ UNCHANGED <<clock, rows, asked, verbs, faults>>
      /\ tx' = IF status[Row(w)] = "confirmed" THEN [tx EXCEPT ![w] = o] ELSE Ended(w)
  BY Parts, Types DEF RescheduleReservation
<1>1. CASE status[Row(w)] # "confirmed"
  <2>1. tx' = Ended(w)  BY <1>0, <1>1
  <2> QED BY <1>0, <2>1, EndedInv, Types
<1>2. CASE status[Row(w)] = "confirmed"
  <2>1. Shape(t) /\ Backed(t) /\ Superseding(t) /\ Winning(t) /\ Reclaimed(t) /\ Capped(t)
    BY Parts
  <2>2. ElapsedHolds \subseteq Ids /\ \A q \in ElapsedHolds : status[q] = "held" /\ expires[q] <= clock
    BY DEF ElapsedHolds, Elapsed
  <2>3. Row(w) = Replaces[t.id]  BY <1>0 DEF Row
  <2>4. /\ o \in TxRecords /\ o.at = "reclaim" /\ o.verb = t.verb /\ o.id = t.id
        /\ o.rows = t.rows /\ o.after = t.after /\ o.due = ElapsedHolds /\ o.won = t.won
        /\ o.cand = t.cand /\ o.cap = t.cap /\ o.expiry = t.expiry /\ o.writes = t.writes
    BY <1>0, <2>2 DEF TxRecords
  <2>5. tx' = [tx EXCEPT ![w] = o]  BY <1>0, <1>2
  <2> HIDE DEF o, t
  <2>6. t.rows = {Replaces[t.id]} /\ t.after = 0 /\ t.id \in Ids /\ \A q \in Ids : t.writes[q] = "none"
    <3>1. t.id \in Ids  BY <1>0 DEF TxRecords
    <3>2. t.rows = {Replaces[t.id]} /\ t.after = 0 /\ t.writes = NoWrites
      BY <1>0, <2>1 DEF Shape, RowOf
    <3> QED BY <3>1, <3>2, NoTxIs
  <2>7. Placing(o) /\ Placing(t) /\ ~Claiming(o) /\ ~Claiming(t) /\ ~Moving(o)
    BY <1>0, <2>4, <2>6 DEF Placing, Claiming, Moving
  <2>8. TxInv(o)
    <3>1. Shape(o)  BY <1>0, <2>1, <2>4, <2>6 DEF Shape, Early
    <3>2. Backed(o)  BY <2>1, <2>4, <2>6, <2>7 DEF Backed
    <3>3. Superseding(o)  BY <1>2, <2>3, <2>4, <2>6, <2>7 DEF Superseding
    <3>4. Winning(o)
      <4>1. o.won = {} /\ o.cand \subseteq Target[o.id]  BY <2>1, <2>4, <2>7 DEF Winning
      <4> QED BY <4>1, <2>4, <2>7 DEF Winning
    <3>5. Reclaimed(o)
      <4>1. \A q \in Ids : ~(q <= 0)  BY IdAssumption
      <4> QED BY <4>1, <2>2, <2>4, <2>6 DEF Reclaimed
    <3>6. Capped(o)  BY <2>1, <2>4, <2>7 DEF Capped, One
    <3> QED BY <3>1, <3>2, <3>3, <3>4, <3>5, <3>6 DEF TxInv
  <2>9. ASSUME NEW v \in Others(w) PROVE Apart(o, tx[v])
    <3>1. Apart(t, tx[v])  BY Parts DEF t
    <3> QED BY <2>4, <2>7, <3>1, StaysApart
  <2>10. asked \subseteq Ids /\ verbs' \in Nat /\ faults' \in Nat /\ UNCHANGED asked
    BY <1>0, Types
  <2>11. o.id \in asked
    <3>1. t.id \in asked  BY AskedId, <2>7 DEF t
    <3> QED BY <2>4, <3>1
  <2> QED BY <1>0, <2>4, <2>5, <2>8, <2>9, <2>10, <2>11, OnlyOneMoves
<1> QED BY <1>1, <1>2

LEMMA PlaceInv ==
    ASSUME IInv, NEW w \in Sessions, NEW r \in Ids, Place(w, r)
    PROVE  IInv'
<1> DEFINE o == [NoTx EXCEPT !.id = r, !.due = ElapsedHolds,
                            !.at = IF Kind[r] = "move" THEN "lock" ELSE "reclaim"]
<1>0. /\ r \notin asked /\ asked' = asked \cup {r} /\ tx' = [tx EXCEPT ![w] = o]
      /\ Kind[r] = "move" => status[Replaces[r]] # "none"
      /\ UNCHANGED <<clock, rows, verbs, faults>>
  BY DEF Place
<1>2. ElapsedHolds \subseteq Ids /\ \A q \in ElapsedHolds : status[q] = "held" /\ expires[q] <= clock
  BY DEF ElapsedHolds, Elapsed
<1>3. /\ o \in TxRecords
      /\ o.at = (IF Kind[r] = "move" THEN "lock" ELSE "reclaim") /\ o.verb = "place"
      /\ o.id = r /\ o.rows = {} /\ o.writes = NoWrites
      /\ o.after = 0 /\ o.due = ElapsedHolds /\ o.won = {} /\ o.cand = {} /\ o.cap = FALSE
      /\ \A q \in Ids : o.writes[q] = "none"
  BY <1>2, NoTxIs DEF TxRecords
<1> HIDE DEF o
<1>4. Placing(o) /\ ~Claiming(o) /\ ~Moving(o)  BY <1>3 DEF Placing, Claiming, Moving
<1>5. TxInv(o)
  <2>1. Shape(o)  BY <1>3 DEF Shape, Early
  <2>2. Backed(o)
    <3>1. status[r] = "none"  BY <1>0 DEF IInv, AskedOnce
    <3> QED BY <1>0, <1>3, <1>4, <3>1 DEF Backed, RowOf
  <2>3. Superseding(o)  BY <1>3, <1>4 DEF Superseding
  <2>4. Winning(o)  BY <1>3, <1>4 DEF Winning
  <2>5. Reclaimed(o)
    <3>1. \A q \in Ids : ~(q <= 0)  BY IdAssumption
    <3> QED BY <3>1, <1>2, <1>3 DEF Reclaimed
  <2>6. Capped(o)  BY <1>3, <1>4 DEF Capped
  <2> QED BY <2>1, <2>2, <2>3, <2>4, <2>5, <2>6 DEF TxInv
<1>6. ASSUME NEW v \in Others(w) PROVE Apart(o, tx[v])
  <2>1. Placing(tx[v]) => tx[v].id \in asked  BY AskedId DEF Others
  <2> QED BY <1>0, <1>3, <2>1 DEF Apart
<1>7. asked' \subseteq Ids /\ asked \subseteq asked' /\ verbs' \in Nat /\ faults' \in Nat
  BY <1>0, Types
<1> QED BY <1>0, <1>3, <1>4, <1>5, <1>6, <1>7, OnlyOneMoves

LEMMA WayIs ==
    ASSUME NEW w \in Sessions, tx[w] \in TxRecords, InTheWay(w) # {}
    PROVE  LET q == Least(InTheWay(w)) IN
           /\ q \in Ids /\ Elapsed(q) /\ q > tx[w].after
           /\ \A p \in Ids : /\ Elapsed(p) /\ InTheWayOf(tx[w], p) /\ p <= q
                             => p <= tx[w].after \/ p = q
<1> DEFINE q == Least(InTheWay(w))
<1>1. InTheWay(w) \subseteq Ids  BY DEF InTheWay
<1>2. q \in InTheWay(w) /\ \A p \in InTheWay(w) : q <= p  BY <1>1, LeastIn
<1>3. q \in Ids /\ Elapsed(q) /\ q > tx[w].after  BY <1>2 DEF InTheWay
<1> HIDE DEF q
<1>4. ASSUME NEW p \in Ids, Elapsed(p), InTheWayOf(tx[w], p), p <= q, ~(p <= tx[w].after)
      PROVE  p = q
  <2>1. p \in Int /\ q \in Int /\ tx[w].after \in Int  BY <1>3, IdAssumption DEF TxRecords
  <2>2. p > tx[w].after  BY <1>4, <2>1
  <2>3. p \in InTheWay(w)  BY <1>4, <2>2 DEF InTheWay, InTheWayOf
  <2>4. q <= p  BY <1>2, <2>3 DEF q
  <2> QED BY <1>4, <2>1, <2>4
<1> QED BY <1>3, <1>4 DEF q

LEMMA LockElapsedHoldInv ==
    ASSUME IInv, NEW w \in Sessions, LockElapsedHold(w)
    PROVE  IInv'
<1> DEFINE t == tx[w]
          q == Least(InTheWay(w))
          o == [t EXCEPT !.rows = @ \cup {q}, !.after = q, !.at = "expire"]
<1>0. /\ t \in TxRecords /\ t.at = "reclaim" /\ InTheWay(w) # {} /\ RowFree(w, q)
      /\ UNCHANGED <<clock, rows, asked, verbs, faults>>
      /\ tx' = [tx EXCEPT ![w] = o]
  BY Parts, Types DEF LockElapsedHold
<1>1. Shape(t) /\ Backed(t) /\ Superseding(t) /\ Winning(t) /\ Reclaimed(t) /\ Capped(t)
  BY Parts
<1>2. /\ q \in Ids /\ Elapsed(q) /\ q > t.after
      /\ \A p \in Ids : /\ Elapsed(p) /\ InTheWayOf(t, p) /\ p <= q
                        => p <= t.after \/ p = q
  BY <1>0, WayIs
<1>3. q \in Nat  BY <1>2, IdAssumption
<1> HIDE DEF q
<1>4. /\ o \in TxRecords /\ o.at = "expire" /\ o.verb = t.verb /\ o.id = t.id
      /\ o.rows = t.rows \cup {q} /\ o.after = q /\ o.due = t.due /\ o.won = t.won
      /\ o.cand = t.cand /\ o.cap = t.cap /\ o.expiry = t.expiry /\ o.writes = t.writes
  BY <1>0, <1>2, <1>3 DEF TxRecords
<1> HIDE DEF o, t
<1>5. /\ t.id \in Ids /\ t.due \subseteq Ids /\ t.verb = "place" /\ t.writes[t.id] = "none"
      /\ t.after \in Nat
  BY <1>0, <1>1 DEF Shape, Early, TxRecords
<1>6. /\ Placing(o) /\ Placing(t) /\ ~Claiming(o) /\ ~Claiming(t) /\ ~Moving(o) /\ ~Moving(t)
  BY <1>0, <1>4, <1>5 DEF Placing, Claiming, Moving
<1>7. status[q] # "none"  BY <1>2 DEF Elapsed
<1>8. TxInv(o)
  <2>1. Shape(o)  BY <1>0, <1>1, <1>4, <1>5 DEF Shape, Early
  <2>2. Backed(o)  BY <1>1, <1>4, <1>6, <1>7 DEF Backed
  <2>3. Superseding(o)  BY <1>0, <1>1, <1>4, <1>6 DEF Superseding
  <2>4. Winning(o)
    <3>1. o.won = {} /\ o.cand \subseteq Target[o.id]  BY <1>1, <1>4, <1>6 DEF Winning
    <3> QED BY <3>1, <1>4, <1>6 DEF Winning
  <2>5. Reclaimed(o)
    <3>1. ASSUME NEW p \in t.due, status[p] = "held", InTheWayOf(o, p), p <= q
          PROVE  o.writes[p] = "expired" \/ p = q
      <4>1. expires[p] <= clock  BY <1>1, <3>1 DEF Reclaimed
      <4>2. Elapsed(p) /\ InTheWayOf(t, p)  BY <3>1, <4>1, <1>4 DEF Elapsed, InTheWayOf
      <4>3. p <= t.after \/ p = q  BY <1>2, <1>5, <3>1, <4>2
      <4> QED BY <4>2, <4>3, <3>1, <1>0, <1>1, <1>4 DEF Reclaimed
    <3> QED BY <3>1, <1>1, <1>4 DEF Reclaimed
  <2>6. Capped(o)  BY <1>1, <1>4, <1>6 DEF Capped, One
  <2> QED BY <2>1, <2>2, <2>3, <2>4, <2>5, <2>6 DEF TxInv
<1>9. ASSUME NEW v \in Others(w) PROVE Apart(o, tx[v])
  <2>1. Apart(t, tx[v])  BY Parts DEF t
  <2>2. q \notin tx[v].rows  BY <1>0 DEF RowFree
  <2> QED BY <1>4, <1>6, <2>1, <2>2 DEF Apart
<1>10. asked \subseteq Ids /\ verbs' \in Nat /\ faults' \in Nat /\ UNCHANGED asked
  BY <1>0, Types
<1>11. o.id \in asked
  <2>1. t.id \in asked  BY AskedId, <1>6 DEF t
  <2> QED BY <1>4, <2>1
<1> QED BY <1>0, <1>4, <1>8, <1>9, <1>10, <1>11, OnlyOneMoves

LEMMA ApplyExpiryInv ==
    ASSUME IInv, NEW w \in Sessions, ApplyExpiry(w)
    PROVE  IInv'
<1> DEFINE t == tx[w]
          q == t.after
          ws == [t.writes EXCEPT ![q] = IF Elapsed(q) THEN "expired" ELSE @]
          o == [t EXCEPT !.at = "reclaim", !.writes = ws]
<1>0. /\ t \in TxRecords /\ t.at = "expire"
      /\ UNCHANGED <<clock, rows, asked, verbs, faults>>
      /\ tx' = [tx EXCEPT ![w] = o]
  BY Parts, Types DEF ApplyExpiry
<1>1. Shape(t) /\ Backed(t) /\ Superseding(t) /\ Winning(t) /\ Reclaimed(t) /\ Capped(t)
  BY Parts
<1>2. /\ t.id \in Ids /\ t.due \subseteq Ids /\ t.verb = "place" /\ t.writes[t.id] = "none"
      /\ q \in Nat /\ q \in t.rows /\ t.rows \subseteq Ids /\ t.writes \in [Ids -> Statuses]
  BY <1>0, <1>1 DEF Shape, Early, TxRecords
<1>3. /\ ws \in [Ids -> Statuses] /\ \A p \in Ids : p # q => ws[p] = t.writes[p]
      /\ Elapsed(q) => ws[q] = "expired"
      /\ ~Elapsed(q) => ws[q] = t.writes[q]
  BY <1>2 DEF Statuses, Releasing
<1> HIDE DEF ws
<1>4. /\ o \in TxRecords /\ o.at = "reclaim" /\ o.verb = t.verb /\ o.id = t.id
      /\ o.rows = t.rows /\ o.after = q /\ o.due = t.due /\ o.won = t.won
      /\ o.cand = t.cand /\ o.cap = t.cap /\ o.expiry = t.expiry /\ o.writes = ws
  BY <1>0, <1>3 DEF TxRecords
<1> HIDE DEF o, t
<1>5. q # t.id
  <2>1. Placing(t)  BY <1>0, <1>2 DEF Placing
  <2> QED BY <2>1, <1>1, <1>2 DEF Backed
<1>6. ws[t.id] = "none"  BY <1>2, <1>3, <1>5
<1>7. /\ Placing(o) /\ Placing(t) /\ ~Claiming(o) /\ ~Claiming(t) /\ ~Moving(o) /\ ~Moving(t)
  BY <1>0, <1>2, <1>4, <1>6 DEF Placing, Claiming, Moving
<1>8. Elapsed(q) => status[q] = "held" /\ expires[q] <= clock  BY DEF Elapsed
<1>9. TxInv(o)
  <2>1. Shape(o)  BY <1>0, <1>1, <1>2, <1>4, <1>6 DEF Shape, Early
  <2>2. Backed(o)
    <3>1. ASSUME NEW p \in Ids, ws[p] # "none"
          PROVE  /\ p \in t.rows /\ <<status[p], ws[p]>> \in Settling
                 /\ ws[p] = "expired" => expires[p] <= clock
      <4>1. CASE p = q /\ Elapsed(q)  BY <4>1, <1>2, <1>3, <1>8, LockedChanges
      <4>2. CASE ~(p = q /\ Elapsed(q))
        <5>1. ws[p] = t.writes[p] /\ p # t.id  BY <4>2, <3>1, <1>3, <1>6
        <5> QED BY <5>1, <3>1, <1>1 DEF Backed
      <4> QED BY <4>1, <4>2
    <3> QED BY <3>1, <1>1, <1>4, <1>7 DEF Backed
  <2>3. Superseding(o)
    <3>1. \A p \in Ids : ws[p] # "rescheduled"
      <4>1. \A p \in Ids : t.writes[p] # "rescheduled"  BY <1>1, <1>7 DEF Superseding
      <4> QED BY <4>1, <1>2, <1>3
    <3>2. Kind[t.id] = "move" => Replaces[t.id] \in t.rows /\ status[Replaces[t.id]] = "confirmed"
      BY <1>0, <1>1, <1>7 DEF Superseding
    <3> QED BY <3>1, <3>2, <1>4, <1>7 DEF Superseding
  <2>4. Winning(o)
    <3>1. o.won = {} /\ o.cand \subseteq Target[o.id]  BY <1>1, <1>4, <1>7 DEF Winning
    <3> QED BY <3>1, <1>4, <1>7 DEF Winning
  <2>5. Reclaimed(o)
    <3>1. ASSUME NEW p \in t.due, status[p] = "held", InTheWayOf(o, p), p <= q
          PROVE  ws[p] = "expired"
      <4>1. expires[p] <= clock  BY <1>1, <3>1 DEF Reclaimed
      <4>2. Elapsed(p) /\ InTheWayOf(t, p) /\ p \in Ids
        BY <3>1, <4>1, <1>2, <1>4 DEF Elapsed, InTheWayOf
      <4>3. CASE p = q  BY <4>2, <4>3, <1>3
      <4>4. CASE p # q
        <5>1. t.writes[p] = "expired"  BY <3>1, <4>2, <4>4, <1>0, <1>1 DEF Reclaimed
        <5> QED BY <5>1, <4>2, <4>4, <1>3
      <4> QED BY <4>3, <4>4
    <3> QED BY <3>1, <1>1, <1>4 DEF Reclaimed
  <2>6. Capped(o)  BY <1>1, <1>4, <1>7 DEF Capped, One
  <2> QED BY <2>1, <2>2, <2>3, <2>4, <2>5, <2>6 DEF TxInv
<1>10. ASSUME NEW v \in Others(w) PROVE Apart(o, tx[v])
  <2>1. Apart(t, tx[v])  BY Parts DEF t
  <2> QED BY <1>4, <1>7, <2>1, StaysApart
<1>11. asked \subseteq Ids /\ verbs' \in Nat /\ faults' \in Nat /\ UNCHANGED asked
  BY <1>0, Types
<1>12. o.id \in asked
  <2>1. t.id \in asked  BY AskedId, <1>7 DEF t
  <2> QED BY <1>4, <2>1
<1> QED BY <1>0, <1>4, <1>9, <1>10, <1>11, <1>12, OnlyOneMoves

LEMMA ReclaimEndsInv ==
    ASSUME IInv, NEW w \in Sessions, ReclaimEnds(w)
    PROVE  IInv'
<1> DEFINE t == tx[w]
          o == [t EXCEPT !.at = "write"]
<1>0. /\ t \in TxRecords /\ t.at = "reclaim" /\ InTheWay(w) = {}
      /\ UNCHANGED <<clock, rows, asked, verbs, faults>>
      /\ tx' = [tx EXCEPT ![w] = o]
  BY Parts, Types DEF ReclaimEnds, Step
<1>1. Shape(t) /\ Backed(t) /\ Superseding(t) /\ Winning(t) /\ Reclaimed(t) /\ Capped(t)
  BY Parts
<1>2. /\ o \in TxRecords /\ o.at = "write" /\ o.verb = t.verb /\ o.id = t.id
      /\ o.rows = t.rows /\ o.after = t.after /\ o.due = t.due /\ o.won = t.won
      /\ o.cand = t.cand /\ o.cap = t.cap /\ o.expiry = t.expiry /\ o.writes = t.writes
  BY <1>0 DEF TxRecords
<1>3. \A p \in Ids : Elapsed(p) /\ InTheWayOf(t, p) => ~(p > t.after)
  BY <1>0 DEF InTheWay, InTheWayOf
<1> HIDE DEF o, t
<1>4. /\ t.id \in Ids /\ t.due \subseteq Ids /\ t.verb = "place" /\ t.writes[t.id] = "none"
      /\ t.after \in Nat
  BY <1>0, <1>1 DEF Shape, Early, TxRecords
<1>5. /\ Placing(o) /\ Placing(t) /\ ~Claiming(o) /\ ~Claiming(t) /\ ~Moving(o) /\ ~Moving(t)
  BY <1>0, <1>2, <1>4 DEF Placing, Claiming, Moving
<1>6. TxInv(o)
  <2>1. Shape(o)  BY <1>0, <1>1, <1>2, <1>4 DEF Shape, Early
  <2>2. Backed(o)  BY <1>1, <1>2, <1>5 DEF Backed
  <2>3. Superseding(o)  BY <1>0, <1>1, <1>2, <1>5 DEF Superseding
  <2>4. Winning(o)
    <3>1. o.won = {} /\ o.cand \subseteq Target[o.id]  BY <1>1, <1>2, <1>5 DEF Winning
    <3> QED BY <3>1, <1>2, <1>5 DEF Winning
  <2>5. Reclaimed(o)
    <3>1. ASSUME NEW p \in t.due, status[p] = "held", InTheWayOf(o, p)
          PROVE  t.writes[p] = "expired"
      <4>1. expires[p] <= clock  BY <1>1, <3>1 DEF Reclaimed
      <4>2. Elapsed(p) /\ InTheWayOf(t, p) /\ p \in Ids
        BY <3>1, <4>1, <1>2, <1>4 DEF Elapsed, InTheWayOf
      <4>3. p \in Nat  BY <4>2, IdAssumption
      <4>4. p <= t.after  BY <4>2, <4>3, <1>3, <1>4
      <4> QED BY <4>2, <4>4, <3>1, <1>0, <1>1 DEF Reclaimed
    <3> QED BY <3>1, <1>1, <1>2 DEF Reclaimed
  <2>6. Capped(o)  BY <1>1, <1>2, <1>5 DEF Capped, One
  <2> QED BY <2>1, <2>2, <2>3, <2>4, <2>5, <2>6 DEF TxInv
<1>7. ASSUME NEW v \in Others(w) PROVE Apart(o, tx[v])
  <2>1. Apart(t, tx[v])  BY Parts DEF t
  <2> QED BY <1>2, <1>5, <2>1, StaysApart
<1>8. asked \subseteq Ids /\ verbs' \in Nat /\ faults' \in Nat /\ UNCHANGED asked
  BY <1>0, Types
<1>9. o.id \in asked
  <2>1. t.id \in asked  BY AskedId, <1>5 DEF t
  <2> QED BY <1>2, <2>1
<1> QED BY <1>0, <1>2, <1>6, <1>7, <1>8, <1>9, OnlyOneMoves

LEMMA WriteClaimInv ==
    ASSUME IInv, NEW w \in Sessions, WriteClaim(w)
    PROVE  IInv'
<1> DEFINE t == tx[w]
          r == t.id
          old == IF Kind[r] = "move" THEN {Replaces[r]} ELSE {}
          ws == [q \in Ids |-> IF q = r THEN Born(r)
                               ELSE IF q \in old THEN "rescheduled" ELSE t.writes[q]]
          o == [t EXCEPT !.writes = ws, !.expiry = clock + HoldTime,
                         !.cand = IF Kind[r] = "block" THEN Target[r] ELSE {},
                         !.at = IF Kind[r] = "block" THEN "claim" ELSE "read"]
<1>0. /\ t \in TxRecords /\ t.at = "write"
      /\ UNCHANGED <<clock, rows, asked, verbs, faults>>
      /\ tx' = [tx EXCEPT ![w] = o]
  BY Parts, Types DEF WriteClaim
<1>1. Shape(t) /\ Backed(t) /\ Superseding(t) /\ Winning(t) /\ Reclaimed(t) /\ Capped(t)
  BY Parts
<1>2. /\ r \in Ids /\ t.due \subseteq Ids /\ t.verb = "place" /\ t.writes[r] = "none"
      /\ t.writes \in [Ids -> Statuses] /\ t.rows \subseteq Ids
  BY <1>0, <1>1 DEF Shape, Early, TxRecords
<1>3. Placing(t) /\ ~Claiming(t) /\ ~Moving(t)
  BY <1>0, <1>2 DEF Placing, Claiming, Moving
<1>4. /\ Kind[r] = "move" => Replaces[r] \in Ids /\ Replaces[r] # r
      /\ Target[r] \subseteq Units /\ Quantity[r] \in Nat \ {0} /\ HoldTime \in Nat
  BY <1>2, RequestAssumption, BoundAssumption
<1>5. /\ ws \in [Ids -> Statuses] /\ ws[r] = Born(r)
      /\ Kind[r] = "move" => ws[Replaces[r]] = "rescheduled"
      /\ \A q \in Ids : /\ q # r /\ ~(Kind[r] = "move" /\ q = Replaces[r]) => ws[q] = t.writes[q]
                        /\ ws[q] = t.writes[q] \/ q = r \/ (Kind[r] = "move" /\ q = Replaces[r])
  BY <1>2, <1>4, BornIs DEF Statuses, Releasing
<1> HIDE DEF ws
<1>6. clock + HoldTime \in Nat  BY <1>4, Types
<1>7. /\ o \in TxRecords /\ o.verb = t.verb /\ o.id = r
      /\ o.at = IF Kind[r] = "block" THEN "claim" ELSE "read"
      /\ o.rows = t.rows /\ o.after = t.after /\ o.due = t.due /\ o.won = t.won
      /\ o.cand = (IF Kind[r] = "block" THEN Target[r] ELSE {}) /\ o.cap = t.cap /\ o.writes = ws
  BY <1>0, <1>4, <1>5, <1>6 DEF TxRecords
<1>8. tx' = [tx EXCEPT ![w] = o]  BY <1>0
<1> HIDE DEF o, t
<1>9. ws[r] \in {"held", "confirmed", "blocked"}  BY <1>2, <1>5, BornIs
<1>10. Placing(o) /\ Claiming(o) /\ (Moving(o) <=> Kind[r] = "move")
  BY <1>2, <1>7, <1>9 DEF Placing, Claiming, Moving
<1>11. t.won = {}  BY <1>1, <1>3 DEF Winning
<1>12. \A q \in Ids : t.writes[q] # "rescheduled"  BY <1>1, <1>3 DEF Superseding
<1>13. Kind[r] = "move" => Replaces[r] \in t.rows /\ status[Replaces[r]] = "confirmed"
  BY <1>0, <1>1, <1>3 DEF Superseding
<1>14. TxInv(o)
  <2>1. Shape(o)  BY <1>0, <1>1, <1>2, <1>7, <1>9 DEF Shape, Early
  <2>2. Backed(o)
    <3>1. ASSUME NEW p \in Ids, ws[p] # "none"
          PROVE  \/ p = r /\ ws[p] = Born(p)
                 \/ /\ p \in t.rows /\ <<status[p], ws[p]>> \in Settling
                    /\ ws[p] = "expired" => expires[p] <= clock
      <4>1. CASE p = r  BY <4>1, <1>5
      <4>2. CASE p # r /\ Kind[r] = "move" /\ p = Replaces[r]
        BY <4>2, <1>5, <1>13, LockedChanges
      <4>3. CASE p # r /\ ~(Kind[r] = "move" /\ p = Replaces[r])
        <5>1. ws[p] = t.writes[p]  BY <4>3, <1>5
        <5> QED BY <5>1, <4>3, <3>1, <1>1 DEF Backed
      <4> QED BY <4>1, <4>2, <4>3
    <3> QED BY <3>1, <1>1, <1>3, <1>7, <1>10 DEF Backed
  <2>3. Superseding(o)
    <3>1. \A p \in Ids : ws[p] = "rescheduled" <=> Kind[r] = "move" /\ p = Replaces[r]
      BY <1>4, <1>5, <1>9, <1>12
    <3> QED BY <3>1, <1>7, <1>10, <1>13 DEF Superseding
  <2>4. Winning(o)
    <3>1. Cardinality(o.won) = 0 /\ o.won = {}  BY <1>7, <1>11, FS_EmptySet
    <3>2. o.cand \subseteq Target[o.id]  BY <1>7
    <3> QED BY <3>1, <3>2, <1>4, <1>7 DEF Winning
  <2>5. Reclaimed(o)
    <3>1. ASSUME NEW p \in t.due, status[p] = "held", InTheWayOf(o, p)
          PROVE  ws[p] = "expired"
      <4>1. t.writes[p] = "expired"
        BY <3>1, <1>0, <1>1, <1>7 DEF Reclaimed, InTheWayOf
      <4>2. p # r /\ ~(Kind[r] = "move" /\ p = Replaces[r])  BY <3>1, <4>1, <1>2, <1>13
      <4> QED BY <4>1, <4>2, <1>2, <1>5
    <3> QED BY <3>1, <1>1, <1>7 DEF Reclaimed
  <2>6. Capped(o)
    <3>1. o.at # "commit" /\ ~t.cap  BY <1>0, <1>1, <1>7 DEF Shape
    <3> QED BY <3>1, <1>7 DEF Capped
  <2> QED BY <2>1, <2>2, <2>3, <2>4, <2>5, <2>6 DEF TxInv
<1>15. ASSUME NEW v \in Others(w) PROVE Apart(o, tx[v])
  <2>1. Apart(t, tx[v])  BY Parts DEF t
  <2> QED BY <1>3, <1>7, <2>1, StaysApart
<1>16. asked \subseteq Ids /\ verbs' \in Nat /\ faults' \in Nat /\ UNCHANGED asked
  BY <1>0, Types
<1>17. o.id \in asked
  <2>1. t.id \in asked  BY AskedId, <1>3 DEF t
  <2> QED BY <1>7, <2>1
<1> QED BY <1>0, <1>7, <1>8, <1>14, <1>15, <1>16, <1>17, OnlyOneMoves

(* The savepoint's rollback undoes the claim, and nothing else. *)
LEMMA RolledBackIs ==
    ASSUME IInv, NEW w \in Sessions, Claiming(tx[w]), tx[w].at \in {"read", "claim", "cap"},
           NEW o \in TxRecords, o.at \in {"write", "commit"},
           o.verb = tx[w].verb, o.id = tx[w].id, o.rows = tx[w].rows, o.due = tx[w].due,
           o.writes = RolledBack(w).writes, o.won = {}, o.cand = {}, o.cap = FALSE
    PROVE  TxInv(o) /\ (\A v \in Others(w) : Apart(o, tx[v])) /\ o.id \in asked
<1> DEFINE t == tx[w]
          r == t.id
          ws == [q \in Ids |-> IF q = r \/ t.writes[q] = "rescheduled" THEN "none" ELSE t.writes[q]]
<1>1. /\ t \in TxRecords
      /\ Shape(t) /\ Backed(t) /\ Superseding(t) /\ Winning(t) /\ Reclaimed(t) /\ Capped(t)
  BY Parts
<1>2. /\ r \in Ids /\ t.due \subseteq Ids /\ t.verb = "place"
      /\ t.writes \in [Ids -> Statuses] /\ t.rows \subseteq Ids
  BY <1>1 DEF Shape, TxRecords
<1>3. o.writes = ws  BY <1>1 DEF RolledBack, TxRecords
<1>4. /\ ws[r] = "none"
      /\ \A q \in Ids : ws[q] = "none" \/ (ws[q] = t.writes[q] /\ q # r /\ ws[q] # "rescheduled")
      /\ \A q \in Ids : q # r /\ t.writes[q] # "rescheduled" => ws[q] = t.writes[q]
  BY <1>2
<1> HIDE DEF ws, t
<1>5. Placing(o) /\ Placing(t) /\ ~Claiming(o) /\ ~Moving(o)
  BY <1>2, <1>3, <1>4 DEF t, Placing, Claiming, Moving
<1>6. TxInv(o)
  <2>1. Shape(o)  BY <1>2, <1>3, <1>4 DEF Shape, Early, t
  <2>2. Backed(o)
    <3>1. ASSUME NEW p \in Ids, ws[p] # "none"
          PROVE  /\ p \in t.rows /\ <<status[p], ws[p]>> \in Settling
                 /\ ws[p] = "expired" => expires[p] <= clock
      <4>1. ws[p] = t.writes[p] /\ p # r  BY <3>1, <1>4
      <4> QED BY <4>1, <3>1, <1>1 DEF Backed
    <3> QED BY <3>1, <1>1, <1>3, <1>5 DEF Backed, t
  <2>3. Superseding(o)
    <3>1. \A p \in Ids : ws[p] # "rescheduled"  BY <1>4
    <3>2. Kind[r] = "move" => Replaces[r] \in t.rows /\ status[Replaces[r]] = "confirmed"
      BY <1>1, <1>5 DEF Superseding, t
    <3> QED BY <3>1, <3>2, <1>3, <1>5 DEF Superseding, t
  <2>4. Winning(o)  BY <1>5 DEF Winning
  <2>5. Reclaimed(o)
    <3>1. ASSUME NEW p \in t.due, status[p] = "held", InTheWayOf(o, p)
          PROVE  ws[p] = "expired"
      <4>1. t.writes[p] = "expired"  BY <3>1, <1>1 DEF Reclaimed, InTheWayOf, t
      <4>2. p # r  BY <3>1, <1>1, <1>5 DEF Backed
      <4> QED BY <4>1, <4>2, <1>2, <1>4
    <3> QED BY <3>1, <1>1, <1>3 DEF Reclaimed, t
  <2>6. Capped(o)  BY <1>5 DEF Capped
  <2> QED BY <2>1, <2>2, <2>3, <2>4, <2>5, <2>6 DEF TxInv
<1>7. ASSUME NEW v \in Others(w) PROVE Apart(o, tx[v])
  <2>1. Apart(t, tx[v])  BY Parts DEF t
  <2> QED BY <1>5, <2>1, StaysApart DEF t
<1>8. o.id \in asked  BY AskedId, <1>5 DEF t
<1> QED BY <1>6, <1>7, <1>8

LEMMA RefusedInv ==
    ASSUME IInv, NEW w \in Sessions, NEW code \in Answers,
           Claiming(tx[w]), tx[w].at \in {"read", "claim", "cap"},
           tx' = Refused(w, code), UNCHANGED <<clock, rows, asked, verbs, faults>>
    PROVE  IInv'
<1> DEFINE o == [RolledBack(w) EXCEPT !.at = "commit", !.says = code]
<1>1. tx[w] \in TxRecords  BY Parts
<1>2. tx[w].writes \in [Ids -> Statuses]  BY <1>1 DEF TxRecords
<1>3. RolledBack(w).writes \in [Ids -> Statuses]
  BY <1>1, <1>2 DEF RolledBack, TxRecords, Statuses
<1>4. /\ RolledBack(w) \in TxRecords
      /\ RolledBack(w).verb = tx[w].verb /\ RolledBack(w).id = tx[w].id
      /\ RolledBack(w).rows = tx[w].rows /\ RolledBack(w).due = tx[w].due
      /\ RolledBack(w).won = {} /\ RolledBack(w).cand = {} /\ RolledBack(w).cap = FALSE
  BY <1>1, <1>3 DEF RolledBack, TxRecords
<1>5. /\ o \in TxRecords /\ o.at = "commit" /\ o.verb = tx[w].verb /\ o.id = tx[w].id
      /\ o.rows = tx[w].rows /\ o.due = tx[w].due /\ o.writes = RolledBack(w).writes
      /\ o.won = {} /\ o.cand = {} /\ o.cap = FALSE
  BY <1>4 DEF TxRecords
<1>6. tx' = [tx EXCEPT ![w] = o]  BY DEF Refused
<1> HIDE DEF o
<1>7. TxInv(o) /\ (\A v \in Others(w) : Apart(o, tx[v])) /\ o.id \in asked
  BY <1>5, RolledBackIs
<1>8. asked \subseteq Ids /\ verbs' \in Nat /\ faults' \in Nat  BY Types
<1> QED BY <1>5, <1>6, <1>7, <1>8, OnlyOneMoves

(* A session that claims has written its row. *)
LEMMA AtClaim ==
    ASSUME NEW t \in TxRecords, Shape(t), t.at \in {"read", "claim", "cap"}
    PROVE  Claiming(t) /\ Placing(t) /\ t.verb = "place" /\ t.id \in Ids
BY DEF Shape, Claiming, Placing, TxRecords

(* It goes on without touching rows, writes or units. *)
LEMMA GoesOnInv ==
    ASSUME IInv, NEW w \in Sessions, tx[w].at \in {"read", "claim", "cap"},
           NEW o \in TxRecords, tx' = [tx EXCEPT ![w] = o],
           UNCHANGED <<clock, rows, asked, verbs, faults>>,
           o.verb = tx[w].verb, o.id = tx[w].id, o.rows = tx[w].rows, o.due = tx[w].due,
           o.writes = tx[w].writes, o.won = tx[w].won, o.expiry = tx[w].expiry,
           o.cand \subseteq Target[tx[w].id],
           \/ tx[w].at \in {"read", "claim"} /\ o.at \in {"read", "claim"} /\ o.cap = tx[w].cap
           \/ /\ tx[w].at = "cap" /\ o.at = "commit" /\ o.cap = TRUE
              /\ Cardinality(LiveHolds) + One(tx[w]) <= HoldCap
              /\ \A v \in Others(w) : ~tx[v].cap
    PROVE  IInv'
<1> DEFINE t == tx[w]
<1>1. /\ t \in TxRecords
      /\ Shape(t) /\ Backed(t) /\ Superseding(t) /\ Winning(t) /\ Reclaimed(t) /\ Capped(t)
  BY Parts
<1>2. Claiming(t) /\ Placing(t) /\ t.verb = "place" /\ t.id \in Ids  BY <1>1, AtClaim
<1>3. Claiming(o) /\ Placing(o) /\ (Moving(o) <=> Moving(t))
  BY <1>2 DEF Claiming, Placing, Moving
<1>4. t.writes[t.id] # "none"  BY <1>2 DEF Claiming
<1>5. TxInv(o)
  <2>1. Shape(o)  BY <1>1, <1>2, <1>4 DEF Shape, Early
  <2>2. Backed(o)  BY <1>1, <1>2, <1>3 DEF Backed
  <2>3. Superseding(o)  BY <1>1, <1>2, <1>3 DEF Superseding
  <2>4. Winning(o)  BY <1>1, <1>2, <1>3 DEF Winning
  <2>5. Reclaimed(o)  BY <1>1 DEF Reclaimed, InTheWayOf
  <2>6. Capped(o)
    <3>1. o.at # "commit" => ~o.cap  BY <1>1 DEF Shape
    <3> QED BY <3>1, <1>1 DEF Capped, One
  <2> QED BY <2>1, <2>2, <2>3, <2>4, <2>5, <2>6 DEF TxInv
<1>6. ASSUME NEW v \in Others(w) PROVE Apart(o, tx[v])
  <2>1. Apart(t, tx[v])  BY Parts
  <2> QED BY <2>1, <1>2 DEF Apart
<1>7. asked \subseteq Ids /\ verbs' \in Nat /\ faults' \in Nat  BY Types
<1>8. o.id \in asked  BY <1>2, AskedId
<1> QED BY <1>5, <1>6, <1>7, <1>8, OnlyOneMoves

LEMMA ReadFreeUnitsInv ==
    ASSUME IInv, NEW w \in Sessions, ReadFreeUnits(w)
    PROVE  IInv'
<1> DEFINE t == tx[w]
          F == FreeUnits(w)
          o == [t EXCEPT !.cand = F, !.rounds = @ + 1, !.at = "claim"]
<1>0. /\ t \in TxRecords /\ Shape(t) /\ t.at = "read"
      /\ UNCHANGED <<clock, rows, asked, verbs, faults>>
      /\ tx' = IF FreeUnits(w) = {} THEN Refused(w, "unavailable") ELSE [tx EXCEPT ![w] = o]
  BY Parts DEF ReadFreeUnits
<1>1. Claiming(t) /\ t.id \in Ids  BY <1>0, AtClaim
<1>2. CASE FreeUnits(w) = {}
  <2>1. tx' = Refused(w, "unavailable") /\ "unavailable" \in Answers  BY <1>0, <1>2 DEF Answers
  <2> QED BY <1>0, <1>1, <2>1, RefusedInv
<1>3. CASE FreeUnits(w) # {}
  <2>1. FreeUnits(w) \subseteq Target[t.id] /\ Target[t.id] \subseteq Units
    BY <1>1, RequestAssumption DEF FreeUnits
  <2>2. /\ o \in TxRecords /\ o.at = "claim" /\ o.verb = t.verb /\ o.id = t.id
        /\ o.rows = t.rows /\ o.due = t.due /\ o.won = t.won /\ o.expiry = t.expiry
        /\ o.cand = F /\ o.cap = t.cap /\ o.writes = t.writes
    <3>1. t.rounds + 1 \in Nat /\ F \subseteq Units  BY <1>0, <2>1 DEF TxRecords
    <3> HIDE DEF F
    <3> QED BY <1>0, <3>1 DEF TxRecords
  <2>3. tx' = [tx EXCEPT ![w] = o]  BY <1>0, <1>3
  <2> HIDE DEF o
  <2> QED BY <1>0, <2>1, <2>2, <2>3, GoesOnInv
<1> QED BY <1>2, <1>3

LEMMA LoseUnitInv ==
    ASSUME IInv, NEW w \in Sessions, LoseUnit(w)
    PROVE  IInv'
<1> DEFINE t == tx[w]
          o == [t EXCEPT !.cand = @ \ {Try(w)}]
<1>0. /\ t \in TxRecords /\ Shape(t) /\ Winning(t) /\ t.at = "claim"
      /\ UNCHANGED <<clock, rows, asked, verbs, faults>>
      /\ tx' = IF Kind[t.id] = "block" THEN Refused(w, "conflict") ELSE [tx EXCEPT ![w] = o]
  BY Parts DEF LoseUnit
<1>1. Claiming(t) /\ t.id \in Ids  BY <1>0, AtClaim
<1>2. CASE Kind[t.id] = "block"
  <2>1. tx' = Refused(w, "conflict") /\ "conflict" \in Answers  BY <1>0, <1>2 DEF Answers
  <2> QED BY <1>0, <1>1, <2>1, RefusedInv
<1>3. CASE Kind[t.id] # "block"
  <2>1. t.cand \subseteq Target[t.id]  BY <1>0 DEF Winning
  <2>2. /\ o \in TxRecords /\ o.at = "claim" /\ o.verb = t.verb /\ o.id = t.id
        /\ o.rows = t.rows /\ o.due = t.due /\ o.won = t.won /\ o.expiry = t.expiry
        /\ o.cand \subseteq Target[t.id] /\ o.cap = t.cap /\ o.writes = t.writes
    BY <1>0, <2>1 DEF TxRecords
  <2>3. tx' = [tx EXCEPT ![w] = o]  BY <1>0, <1>3
  <2> HIDE DEF o
  <2> QED BY <1>0, <2>2, <2>3, GoesOnInv
<1> QED BY <1>2, <1>3

LEMMA NextRoundInv ==
    ASSUME IInv, NEW w \in Sessions, NextRound(w)
    PROVE  IInv'
<1> DEFINE t == tx[w]
          o == [t EXCEPT !.at = "read"]
<1>0. /\ t \in TxRecords /\ Shape(t) /\ Winning(t) /\ t.at = "claim"
      /\ UNCHANGED <<clock, rows, asked, verbs, faults>>
      /\ tx' = IF t.rounds < MaxRounds THEN [tx EXCEPT ![w] = o] ELSE Refused(w, "contention")
  BY Parts, Types DEF NextRound, Step
<1>1. Claiming(t) /\ t.id \in Ids  BY <1>0, AtClaim
<1>2. CASE ~(t.rounds < MaxRounds)
  <2>1. tx' = Refused(w, "contention") /\ "contention" \in Answers  BY <1>0, <1>2 DEF Answers
  <2> QED BY <1>0, <1>1, <2>1, RefusedInv
<1>3. CASE t.rounds < MaxRounds
  <2>1. t.cand \subseteq Target[t.id]  BY <1>0 DEF Winning
  <2>2. /\ o \in TxRecords /\ o.at = "read" /\ o.verb = t.verb /\ o.id = t.id
        /\ o.rows = t.rows /\ o.due = t.due /\ o.won = t.won /\ o.expiry = t.expiry
        /\ o.cand = t.cand /\ o.cap = t.cap /\ o.writes = t.writes
    BY <1>0 DEF TxRecords
  <2>3. tx' = [tx EXCEPT ![w] = o]  BY <1>0, <1>3
  <2> HIDE DEF o
  <2> QED BY <1>0, <2>1, <2>2, <2>3, GoesOnInv
<1> QED BY <1>2, <1>3

LEMMA EnforceHoldCapsInv ==
    ASSUME IInv, NEW w \in Sessions, EnforceHoldCaps(w)
    PROVE  IInv'
<1> DEFINE t == tx[w]
          o == [t EXCEPT !.cap = TRUE, !.at = "commit"]
<1>0. /\ t \in TxRecords /\ Shape(t) /\ Winning(t) /\ t.at = "cap"
      /\ \A v \in Others(w) : ~tx[v].cap
      /\ UNCHANGED <<clock, rows, asked, verbs, faults>>
      /\ tx' = IF Cardinality(LiveHolds) + One(t) > HoldCap THEN Refused(w, "limit")
               ELSE [tx EXCEPT ![w] = o]
  BY Parts DEF EnforceHoldCaps, One
<1>1. Claiming(t) /\ t.id \in Ids  BY <1>0, AtClaim
<1>2. CASE Cardinality(LiveHolds) + One(t) > HoldCap
  <2>1. tx' = Refused(w, "limit") /\ "limit" \in Answers  BY <1>0, <1>2 DEF Answers
  <2> QED BY <1>0, <1>1, <2>1, RefusedInv
<1>3. CASE ~(Cardinality(LiveHolds) + One(t) > HoldCap)
  <2>1. t.cand \subseteq Target[t.id]  BY <1>0 DEF Winning
  <2>2. /\ o \in TxRecords /\ o.at = "commit" /\ o.verb = t.verb /\ o.id = t.id
        /\ o.rows = t.rows /\ o.due = t.due /\ o.won = t.won /\ o.expiry = t.expiry
        /\ o.cand = t.cand /\ o.cap = TRUE /\ o.writes = t.writes
    BY <1>0 DEF TxRecords
  <2>3. tx' = [tx EXCEPT ![w] = o]  BY <1>0, <1>3
  <2>4. One(t) \in Nat /\ HoldCap \in Nat  BY BoundAssumption DEF One
  <2>5. Cardinality(LiveHolds) + One(t) <= HoldCap  BY <1>3, <2>4, HoldsAreFew
  <2> HIDE DEF o
  <2> QED BY <1>0, <2>1, <2>2, <2>3, <2>5, GoesOnInv
<1> QED BY <1>2, <1>3

LEMMA BreakDeadlockInv ==
    ASSUME IInv, NEW w \in Sessions, BreakDeadlock(w)
    PROVE  IInv'
<1> DEFINE t == tx[w]
          o == [RolledBack(w) EXCEPT !.at = "write", !.tries = @ + 1]
<1>0. /\ t \in TxRecords /\ Shape(t) /\ t.at \in {"lock", "reclaim", "claim", "cap"}
      /\ UNCHANGED <<clock, rows, asked, verbs, faults>>
      /\ tx' = IF t.at \in {"lock", "reclaim"} THEN Ended(w)
               ELSE IF t.tries = MaxRetries THEN Refused(w, "contention")
               ELSE [tx EXCEPT ![w] = o]
  BY Parts, DeadlockedWaits DEF BreakDeadlock
<1>1. CASE t.at \in {"lock", "reclaim"}
  <2>1. tx' = Ended(w)  BY <1>0, <1>1
  <2> QED BY <1>0, <2>1, EndedInv, Types
<1>2. CASE t.at \in {"claim", "cap"} /\ t.tries = MaxRetries
  <2>1. tx' = Refused(w, "contention") /\ "contention" \in Answers  BY <1>0, <1>2 DEF Answers
  <2>2. Claiming(t)  BY <1>0, <1>2, AtClaim
  <2> QED BY <1>0, <1>2, <2>1, <2>2, RefusedInv
<1>3. CASE t.at \in {"claim", "cap"} /\ t.tries # MaxRetries
  <2>1. Claiming(t)  BY <1>0, <1>3, AtClaim
  <2>2. t.writes \in [Ids -> Statuses]  BY <1>0 DEF TxRecords
  <2>3. RolledBack(w).writes \in [Ids -> Statuses]
    BY <1>0, <2>2 DEF RolledBack, TxRecords, Statuses
  <2>4. /\ RolledBack(w) \in TxRecords
        /\ RolledBack(w).verb = t.verb /\ RolledBack(w).id = t.id
        /\ RolledBack(w).rows = t.rows /\ RolledBack(w).due = t.due
        /\ RolledBack(w).won = {} /\ RolledBack(w).cand = {} /\ RolledBack(w).cap = FALSE
    BY <1>0, <2>3 DEF RolledBack, TxRecords
  <2>5. /\ o \in TxRecords /\ o.at = "write" /\ o.verb = t.verb /\ o.id = t.id
        /\ o.rows = t.rows /\ o.due = t.due /\ o.writes = RolledBack(w).writes
        /\ o.won = {} /\ o.cand = {} /\ o.cap = FALSE
    <3> DEFINE b == RolledBack(w)
    <3>1. b \in TxRecords /\ b.tries + 1 \in Nat  BY <2>4 DEF TxRecords
    <3> HIDE DEF b
    <3>2. /\ [b EXCEPT !.at = "write", !.tries = @ + 1] \in TxRecords
          /\ LET c == [b EXCEPT !.at = "write", !.tries = @ + 1] IN
             /\ c.at = "write" /\ c.verb = b.verb /\ c.id = b.id
             /\ c.rows = b.rows /\ c.due = b.due /\ c.writes = b.writes
             /\ c.won = b.won /\ c.cand = b.cand /\ c.cap = b.cap
      BY <3>1 DEF TxRecords
    <3> QED BY <2>4, <3>2 DEF b
  <2>6. tx' = [tx EXCEPT ![w] = o]  BY <1>0, <1>3
  <2> HIDE DEF o
  <2>7. TxInv(o) /\ (\A v \in Others(w) : Apart(o, tx[v])) /\ o.id \in asked
    BY <1>3, <2>1, <2>5, RolledBackIs
  <2>8. asked \subseteq Ids /\ verbs' \in Nat /\ faults' \in Nat  BY <1>0, Types
  <2> QED BY <1>0, <2>5, <2>6, <2>7, <2>8, OnlyOneMoves
<1> QED BY <1>0, <1>1, <1>2, <1>3

(* A unit is won where no row blocks it that is not released by the winner, *)
(* and no other transaction has won it for the same night.                  *)
LEMMA WinUnitInv ==
    ASSUME IInv, NEW w \in Sessions, WinUnit(w)
    PROVE  IInv'
<1> DEFINE t == tx[w]
          u == Try(w)
          r == t.id
          won == t.won \cup {u}
          cand == IF Cardinality(won) = Quantity[r] THEN {} ELSE t.cand \ {u}
          at == IF Cardinality(won) # Quantity[r] THEN "claim"
                ELSE IF Kind[r] = "hold" THEN "cap" ELSE "commit"
          o == [t EXCEPT !.won = won, !.cand = cand, !.at = at]
<1>0. /\ t \in TxRecords /\ t.at = "claim" /\ t.cand # {}
      /\ ~Taken(w, u) /\ \A v \in Others(w) : ~InDoubt(w, v, u)
      /\ UNCHANGED <<clock, rows, asked, verbs, faults>>
      /\ tx' = [tx EXCEPT ![w] = o]
  BY Parts, Types DEF WinUnit
<1>1. Shape(t) /\ Backed(t) /\ Superseding(t) /\ Winning(t) /\ Reclaimed(t) /\ Capped(t)
  BY Parts
<1>2. Claiming(t) /\ Placing(t) /\ t.verb = "place" /\ r \in Ids  BY <1>0, <1>1, AtClaim
<1>3. u \in t.cand /\ t.cand \subseteq Units /\ t.won \subseteq Units
  <2>1. t.cand \subseteq Units /\ t.won \subseteq Units  BY <1>0 DEF TxRecords
  <2> QED BY <2>1, <1>0, LeastIn DEF Try
<1>4. /\ Cardinality(won) \in Nat /\ Cardinality(t.won) \in Nat
      /\ Cardinality(won) <= Cardinality(t.won) + 1
  <2>1. IsFiniteSet(t.won)  BY <1>3, FS_Subset, IdAssumption
  <2>2. Cardinality(t.won) \in Nat  BY <2>1, FS_CardinalityType
  <2>3. Cardinality(won) = IF u \in t.won THEN Cardinality(t.won) ELSE Cardinality(t.won) + 1
    BY <2>1, FS_AddElement
  <2> HIDE DEF won
  <2> QED BY <2>2, <2>3
<1>5. Quantity[r] \in Nat  BY <1>2, RequestAssumption
<1>6. Cardinality(t.won) < Quantity[r]  BY <1>0, <1>1 DEF Winning
<1>7. /\ at \in {"claim", "cap", "commit"}
      /\ at = "claim" => Cardinality(won) < Quantity[r]
      /\ at # "claim" => Cardinality(won) = Quantity[r]
      /\ at = "commit" => Kind[r] # "hold"
  <2> HIDE DEF won
  <2> QED BY <1>4, <1>5, <1>6
<1>8. cand \subseteq t.cand /\ won \subseteq Units  BY <1>3
<1>9. \A q \in Ids : Overlap(q, r) /\ u \in alloc[q] => t.writes[q] \in Releasing
  <2> SUFFICES ASSUME NEW q \in Ids, Overlap(q, r), u \in alloc[q]
               PROVE  t.writes[q] \in Releasing
    OBVIOUS
  <2>1. q \in Blocking(r, u)  BY DEF Blocking
  <2>2. Released(q)  BY <2>1, <1>0 DEF Taken
  <2>3. PICK v \in Sessions : tx[v].writes[q] \in Releasing  BY <2>2 DEF Released
  <2>4. v = w
    <3>1. ASSUME v # w PROVE FALSE
      <4>1. v \in Others(w)  BY <3>1 DEF Others
      <4>2. ~InDoubt(w, v, u)  BY <4>1, <1>0
      <4> QED BY <4>2, <2>1, <2>3 DEF InDoubt
    <3> QED BY <3>1
  <2> QED BY <2>3, <2>4
<1>10. ASSUME NEW v \in Others(w), Overlap(r, tx[v].id) PROVE u \notin tx[v].won
  <2>1. ~InDoubt(w, v, u)  BY <1>0
  <2> QED BY <1>10, <2>1 DEF InDoubt, Overlap
<1> HIDE DEF won, cand, at, u
<1>11. /\ o \in TxRecords /\ o.at = at /\ o.verb = t.verb /\ o.id = t.id
       /\ o.rows = t.rows /\ o.after = t.after /\ o.due = t.due /\ o.won = won
       /\ o.cand = cand /\ o.cap = t.cap /\ o.expiry = t.expiry /\ o.writes = t.writes
  BY <1>0, <1>3, <1>7, <1>8 DEF TxRecords
<1> HIDE DEF o, t
<1>12. Claiming(o) /\ Placing(o) /\ (Moving(o) <=> Moving(t))
  BY <1>2, <1>7, <1>11 DEF Claiming, Placing, Moving
<1>13. t.writes[r] # "none" /\ ~t.cap  BY <1>0, <1>1 DEF Shape
<1>14. TxInv(o)
  <2>1. Shape(o)  BY <1>1, <1>2, <1>7, <1>11, <1>13 DEF Shape, Early
  <2>2. Backed(o)  BY <1>1, <1>2, <1>7, <1>11, <1>12 DEF Backed
  <2>3. Superseding(o)  BY <1>0, <1>1, <1>2, <1>7, <1>11, <1>12 DEF Superseding
  <2>4. Winning(o)
    <3>1. o.cand \subseteq Target[o.id]  BY <1>1, <1>8, <1>11 DEF Winning
    <3>2. ASSUME NEW q \in Ids, Overlap(q, r), won \cap alloc[q] # {}
          PROVE  t.writes[q] \in Releasing
      <4>1. CASE u \in alloc[q]  BY <4>1, <3>2, <1>9
      <4>2. CASE u \notin alloc[q]
        <5>1. t.won \cap alloc[q] # {}  BY <4>2, <3>2 DEF won
        <5> QED BY <5>1, <3>2, <1>1 DEF Winning
      <4> QED BY <4>1, <4>2
    <3> QED BY <3>1, <3>2, <1>7, <1>11, <1>12 DEF Winning
  <2>5. Reclaimed(o)  BY <1>0, <1>1, <1>7, <1>11 DEF Reclaimed, InTheWayOf
  <2>6. Capped(o)  BY <1>7, <1>11, <1>13 DEF Capped
  <2> QED BY <2>1, <2>2, <2>3, <2>4, <2>5, <2>6 DEF TxInv
<1>15. ASSUME NEW v \in Others(w) PROVE Apart(o, tx[v])
  <2>1. Apart(t, tx[v])  BY Parts DEF t
  <2>2. Overlap(r, tx[v].id) => won \cap tx[v].won = {}
    BY <2>1, <1>10 DEF Apart, won
  <2> QED BY <2>1, <2>2, <1>2, <1>11 DEF Apart
<1>16. asked \subseteq Ids /\ verbs' \in Nat /\ faults' \in Nat /\ UNCHANGED asked
  BY <1>0, Types
<1>17. o.id \in asked
  <2>1. t.id \in asked  BY <1>2, AskedId DEF t
  <2> QED BY <2>1, <1>11
<1> QED BY <1>0, <1>11, <1>14, <1>15, <1>16, <1>17, OnlyOneMoves

(* The reaper takes what has elapsed and nobody has locked. *)
LEMMA ReapInv ==
    ASSUME IInv, NEW w \in Sessions, Reap(w)
    PROVE  IInv'
<1> DEFINE due == {q \in Ids : Elapsed(q) /\ \A v \in Sessions : q \notin tx[v].rows}
          ws == [q \in Ids |-> IF q \in due THEN "expired" ELSE "none"]
          o == [NoTx EXCEPT !.at = "commit", !.verb = "reap", !.rows = due, !.writes = ws]
<1>0. /\ UNCHANGED <<clock, rows, asked, verbs, faults>>
      /\ tx' = [tx EXCEPT ![w] = o]
  BY DEF Reap
<1>1. due \subseteq Ids /\ \A q \in due : /\ status[q] = "held" /\ expires[q] <= clock
                                         /\ \A v \in Sessions : q \notin tx[v].rows
  BY DEF Elapsed
<1> HIDE DEF due
<1>2. /\ ws \in [Ids -> Statuses]
      /\ \A q \in Ids : ws[q] = IF q \in due THEN "expired" ELSE "none"
  BY DEF Statuses, Releasing
<1> HIDE DEF ws
<1>3. /\ o \in TxRecords /\ o.at = "commit" /\ o.verb = "reap" /\ o.id \in Ids
      /\ o.rows = due /\ o.writes = ws /\ o.due = {} /\ o.won = {} /\ o.cand = {} /\ o.cap = FALSE
  BY <1>1, <1>2, NoTxIs DEF TxRecords
<1> HIDE DEF o
<1>4. ~Placing(o) /\ ~Claiming(o) /\ ~Moving(o)  BY <1>3 DEF Placing, Claiming, Moving
<1>5. TxInv(o)
  <2>1. Shape(o)  BY <1>3 DEF Shape, Early
  <2>2. Backed(o)
    <3>1. \A q \in Ids : ws[q] # "none" =>
            /\ q \in due /\ <<status[q], ws[q]>> \in Settling
            /\ ws[q] = "expired" => expires[q] <= clock
      BY <1>1, <1>2, LockedChanges
    <3> QED BY <1>1, <1>3, <1>4, <3>1 DEF Backed
  <2>3. Superseding(o)  BY <1>2, <1>3, <1>4 DEF Superseding
  <2>4. Winning(o)  BY <1>3, <1>4 DEF Winning
  <2>5. Reclaimed(o)  BY <1>3 DEF Reclaimed
  <2>6. Capped(o)  BY <1>3, <1>4 DEF Capped
  <2> QED BY <2>1, <2>2, <2>3, <2>4, <2>5, <2>6 DEF TxInv
<1>6. \A v \in Others(w) : Apart(o, tx[v])  BY <1>1, <1>3, <1>4 DEF Apart, Others
<1>7. asked \subseteq Ids /\ verbs' \in Nat /\ faults' \in Nat /\ UNCHANGED asked
  BY <1>0, Types
<1> QED BY <1>0, <1>3, <1>4, <1>5, <1>6, <1>7, OnlyOneMoves

----------------------------------------------------------------------------
(* A commit: what its writes do to the tables, and to the others. *)

(* Each row is the new one, or settled by its lock, or as it was. *)
LEMMA CommitRows ==
    ASSUME IInv, NEW w \in Sessions, Commit(w), NEW q \in Ids
    PROVE  \/ /\ Claiming(tx[w]) /\ q = tx[w].id
              /\ status[q] = "none" /\ status'[q] = Born(q) /\ tx[w].writes[q] = Born(q)
              /\ alloc[q] = {} /\ alloc'[q] = tx[w].won /\ expires'[q] = tx[w].expiry
           \/ /\ ~(Claiming(tx[w]) /\ q = tx[w].id) /\ tx[w].writes[q] # "none"
              /\ q \in tx[w].rows /\ <<status[q], status'[q]>> \in Settling
              /\ status'[q] = tx[w].writes[q] /\ expires'[q] = expires[q]
              /\ status'[q] = "expired" => expires[q] <= clock
              /\ alloc'[q] = IF tx[w].writes[q] \in Releasing THEN {} ELSE alloc[q]
           \/ /\ ~(Claiming(tx[w]) /\ q = tx[w].id) /\ tx[w].writes[q] = "none"
              /\ status'[q] = status[q] /\ expires'[q] = expires[q] /\ alloc'[q] = alloc[q]
<1> DEFINE t == tx[w]
          new == IF t.verb = "place" /\ t.writes[t.id] # "none" THEN {t.id} ELSE {}
<1>1. t \in TxRecords /\ Backed(t) /\ t.at = "commit"  BY Parts DEF Commit
<1>2. /\ status'[q] = (IF t.writes[q] # "none" THEN t.writes[q] ELSE status[q])
      /\ expires'[q] = (IF q \in new THEN t.expiry ELSE expires[q])
      /\ alloc'[q] = (IF q \in new THEN t.won
                      ELSE IF t.writes[q] \in Releasing THEN {} ELSE alloc[q])
  BY DEF Commit
<1>3. q \in new <=> Claiming(t) /\ q = t.id  BY <1>1 DEF Claiming, Placing
<1> HIDE DEF new, t
<1>4. CASE Claiming(t) /\ q = t.id
  <2>1. Placing(t) /\ t.writes[q] # "none"  BY <1>4 DEF Claiming
  <2>2. status[q] = "none"  BY <2>1, <1>1, <1>4 DEF Backed
  <2>3. t.writes[q] = Born(q)
    <3>1. q \notin t.rows  BY <2>2, <1>1 DEF Backed
    <3> QED BY <2>1, <3>1, <1>1, <1>4 DEF Backed
  <2>4. alloc[q] = {}  BY <2>2, StatusesApart DEF IInv, WholeOrNothing
  <2> QED BY <1>2, <1>3, <1>4, <2>1, <2>2, <2>3, <2>4 DEF t
<1>5. CASE ~(Claiming(t) /\ q = t.id) /\ t.writes[q] # "none"
  <2>1. ~(Placing(t) /\ q = t.id)  BY <1>5 DEF Claiming
  <2> QED BY <1>1, <1>2, <1>3, <1>5, <2>1 DEF Backed, t
<1>6. CASE ~(Claiming(t) /\ q = t.id) /\ t.writes[q] = "none"
  BY <1>2, <1>3, <1>6, StatusesApart DEF t
<1> QED BY <1>4, <1>5, <1>6

(* What no row lock and no new row stands for does not change. *)
LEMMA CommitKeeps ==
    ASSUME IInv, NEW w \in Sessions, Commit(w), NEW q \in Ids
    PROVE  /\ status[q] # "none" => status'[q] # "none" /\ ~(Claiming(tx[w]) /\ q = tx[w].id)
           /\ status'[q] = "none" <=> status[q] = "none" /\ ~(Claiming(tx[w]) /\ q = tx[w].id)
           /\ status[q] # "none" /\ status'[q] = "held" =>
                status[q] = "held" /\ expires'[q] = expires[q] /\ alloc'[q] = alloc[q]
           /\ status[q] # "none" /\ q \notin tx[w].rows =>
                status'[q] = status[q] /\ expires'[q] = expires[q] /\ alloc'[q] = alloc[q]
           /\ status[q] = "none" /\ ~(Claiming(tx[w]) /\ q = tx[w].id) =>
                status'[q] = status[q] /\ expires'[q] = expires[q] /\ alloc'[q] = alloc[q]
BY CommitRows, SettlingIs, BornIs

LEMMA CommitType ==
    ASSUME IInv, NEW w \in Sessions, Commit(w)
    PROVE  TypeOK'
<1> DEFINE t == tx[w]
<1>1. t \in TxRecords /\ TypeOK  BY Parts DEF IInv
<1>2. t.writes \in [Ids -> Statuses] /\ t.won \subseteq Units /\ t.expiry \in Nat
  BY <1>1 DEF TxRecords
<1>3. status' \in [Ids -> Statuses] /\ expires' \in [Ids -> Nat] /\ alloc' \in [Ids -> SUBSET Units]
  BY <1>1, <1>2 DEF Commit, TypeOK
<1>4. tx' \in [Sessions -> TxRecords]  BY <1>1, NoTxIs DEF Commit, Ended, TypeOK
<1> QED BY <1>1, <1>3, <1>4 DEF Commit, TypeOK

LEMMA NoTxFitsThen == TxInv(NoTx)'
<1>1. ~Placing(NoTx)' /\ ~Claiming(NoTx)' /\ ~Moving(NoTx)'
  BY NoTxIs DEF Placing, Claiming, Moving
<1>2. Shape(NoTx)'  BY NoTxIs DEF Shape, Early
<1>3. Backed(NoTx)'  BY NoTxIs, <1>1 DEF Backed
<1>4. Superseding(NoTx)'  BY NoTxIs, <1>1 DEF Superseding
<1>5. Winning(NoTx)'  BY NoTxIs, <1>1 DEF Winning
<1>6. Reclaimed(NoTx)'  BY NoTxIs DEF Reclaimed
<1>7. Capped(NoTx)'  BY NoTxIs, <1>1 DEF Capped
<1> QED BY <1>2, <1>3, <1>4, <1>5, <1>6, <1>7 DEF TxInv

LEMMA CommitHolds ==
    ASSUME IInv, NEW w \in Sessions, Commit(w)
    PROVE  /\ ~tx[w].cap => LiveHolds' \subseteq LiveHolds
           /\ Cardinality(LiveHolds') <= HoldCap
<1> DEFINE t == tx[w]
<1>1. t \in TxRecords /\ Capped(t) /\ t.at = "commit" /\ UNCHANGED clock
  BY Parts DEF Commit
<1>2. ASSUME NEW q \in LiveHolds'
      PROVE  \/ q \in LiveHolds
             \/ Claiming(t) /\ q = t.id /\ Kind[q] = "hold" /\ clock < t.expiry
  <2>1. q \in Ids /\ status'[q] = "held" /\ clock < expires'[q]  BY <1>1 DEF LiveHolds
  <2>2. CASE status[q] # "none"
    <3>1. status[q] = "held" /\ expires'[q] = expires[q]  BY <2>1, <2>2, CommitKeeps
    <3> QED BY <2>1, <3>1 DEF LiveHolds
  <2>3. CASE status[q] = "none"
    <3>1. Claiming(t) /\ q = t.id /\ status'[q] = Born(q) /\ expires'[q] = t.expiry
      BY <2>1, <2>3, CommitRows, SettlingIs
    <3> QED BY <2>1, <3>1, BornIs
  <2> QED BY <2>2, <2>3
<1>3. ASSUME ~t.cap PROVE LiveHolds' \subseteq LiveHolds
  BY <1>1, <1>2, <1>3 DEF Capped
<1>4. Cardinality(LiveHolds) <= HoldCap  BY DEF IInv, CapHonoured
<1>5. HoldCap \in Nat  BY BoundAssumption
<1>6. CASE ~t.cap
  <2>1. Cardinality(LiveHolds') <= Cardinality(LiveHolds)  BY <1>3, <1>6, FewerHolds
  <2> QED BY <2>1, <1>3, <1>4, <1>5, <1>6, HoldsAreFew
<1>7. CASE t.cap /\ ~(clock < t.expiry)
  <2>1. LiveHolds' \subseteq LiveHolds  BY <1>2, <1>7
  <2>2. Cardinality(LiveHolds') <= Cardinality(LiveHolds)  BY <2>1, FewerHolds
  <2> QED BY <2>1, <2>2, <1>4, <1>5, HoldsAreFew
<1>8. CASE t.cap /\ clock < t.expiry
  <2>1. LiveHolds' \subseteq LiveHolds \cup {t.id}  BY <1>2
  <2>2. /\ IsFiniteSet(LiveHolds \cup {t.id})
        /\ Cardinality(LiveHolds \cup {t.id}) <= Cardinality(LiveHolds) + 1
    <3>1. Cardinality(LiveHolds \cup {t.id}) =
            IF t.id \in LiveHolds THEN Cardinality(LiveHolds) ELSE Cardinality(LiveHolds) + 1
      BY HoldsAreFew, FS_AddElement
    <3>2. IsFiniteSet(LiveHolds \cup {t.id})  BY HoldsAreFew, FS_AddElement
    <3> QED BY <3>1, <3>2, HoldsAreFew
  <2>3. Cardinality(LiveHolds') <= Cardinality(LiveHolds \cup {t.id})
    BY <2>1, <2>2, FS_Subset
  <2>4. Cardinality(LiveHolds) + 1 <= HoldCap  BY <1>1, <1>8 DEF Capped, One
  <2>5. Cardinality(LiveHolds \cup {t.id}) \in Nat  BY <2>2, FS_CardinalityType
  <2> QED BY <2>2, <2>3, <2>4, <2>5, <1>5, <1>8, HoldsAreFew
<1> QED BY <1>3, <1>6, <1>7, <1>8

(* The other transactions find their rows as they left them. *)
LEMMA CommitOthers ==
    ASSUME IInv, NEW w \in Sessions, Commit(w), NEW v \in Others(w)
    PROVE  TxInv(tx[v])'
<1> DEFINE t == tx[w]
          s == tx[v]
<1>1. /\ s \in TxRecords /\ t \in TxRecords /\ Apart(t, s)
      /\ Backed(t) /\ t.at = "commit" /\ UNCHANGED clock
      /\ Shape(s) /\ Backed(s) /\ Superseding(s) /\ Winning(s) /\ Reclaimed(s) /\ Capped(s)
  BY Parts DEF Commit, Others
<1>2. s' = s
  <2>1. tx' = [tx EXCEPT ![w] = NoTx]  BY DEF Commit, Ended
  <2> QED BY <2>1, Types DEF Others
<1>3. s.id \in Ids /\ s.rows \subseteq Ids /\ s.due \subseteq Ids /\ t.id \in Ids
  BY <1>1 DEF TxRecords
<1>4. Claiming(t) => Placing(t) /\ status[t.id] = "none"  BY <1>1 DEF Claiming, Backed
<1>5. \A q \in s.rows : status'[q] = status[q] /\ expires'[q] = expires[q] /\ alloc'[q] = alloc[q]
  <2>1. \A q \in s.rows : status[q] # "none" /\ q \notin t.rows  BY <1>1 DEF Backed, Apart
  <2> QED BY <2>1, <1>3, CommitKeeps
<1>6. Placing(s) => status'[s.id] = "none"
  <2>1. Placing(s) => status[s.id] = "none" /\ ~(Claiming(t) /\ s.id = t.id)
    BY <1>1, <1>4 DEF Backed, Apart
  <2> QED BY <2>1, <1>3, CommitKeeps
<1> HIDE DEF t, s
<1>7. /\ (Placing(s))' = Placing(s) /\ (Claiming(s))' = Claiming(s) /\ (Moving(s))' = Moving(s)
      /\ One(s)' = One(s)
  BY <1>1, <1>2 DEF Placing, Claiming, Moving, One
<1>8. Shape(s)'  BY <1>1, <1>2 DEF Shape
<1>9. Backed(s)'
  <2>1. s.at = "lock" => status'[RowOf(s)] # "none"
    <3>1. RowOf(s) \in Ids  BY <1>3, RequestAssumption DEF RowOf
    <3> QED BY <3>1, <1>1, CommitKeeps DEF Backed
  <2>2. \A q \in s.rows : status'[q] # "none"  BY <1>1, <1>5 DEF Backed
  <2>3. ASSUME NEW q \in Ids, s.writes[q] # "none"
        PROVE  \/ Placing(s) /\ q = s.id /\ s.writes[q] = Born(q)
               \/ /\ q \in s.rows /\ <<status'[q], s.writes[q]>> \in Settling
                  /\ s.writes[q] = "expired" => expires'[q] <= clock
    BY <2>3, <1>1, <1>5 DEF Backed
  <2>4. RowOf(s)' = RowOf(s)  BY <1>2 DEF RowOf
  <2> QED BY <1>1, <1>2, <1>6, <1>7, <2>1, <2>2, <2>3, <2>4 DEF Backed
<1>10. Superseding(s)'
  <2>1. Placing(s) /\ Kind[s.id] = "move" /\ s.at \notin {"lock", "update"} =>
            Replaces[s.id] \in s.rows /\ status'[Replaces[s.id]] = "confirmed"
    BY <1>1, <1>5 DEF Superseding
  <2> QED BY <1>1, <1>2, <1>7, <2>1 DEF Superseding
<1>11. Winning(s)'
  <2>1. ASSUME NEW q \in Ids, Overlap(q, s.id), s.won \cap alloc'[q] # {}
        PROVE  s.writes[q] \in Releasing
    <3>1. CASE alloc'[q] = alloc[q]  BY <2>1, <3>1, <1>1 DEF Winning
    <3>2. CASE alloc'[q] # alloc[q]
      <4>1. alloc'[q] # {}  BY <2>1
      <4>2. Claiming(t) /\ q = t.id /\ alloc'[q] = t.won
        BY <3>2, <4>1, CommitRows DEF t
      <4>3. t.won \cap s.won = {}  BY <2>1, <4>2, <1>1 DEF Apart
      <4> QED BY <2>1, <4>2, <4>3
    <3> QED BY <3>1, <3>2
  <2> QED BY <1>1, <1>2, <1>7, <2>1 DEF Winning
<1>12. Reclaimed(s)'
  <2> SUFFICES ASSUME NEW q \in s.due
               PROVE  /\ status'[q] # "none"
                      /\ status'[q] = "held" =>
                            status[q] = "held" /\ expires'[q] = expires[q] /\ alloc'[q] = alloc[q]
    <3>1. ASSUME NEW q \in s.due
          PROVE  /\ status'[q] # "none"
                 /\ status'[q] = "held" => expires'[q] <= clock
                 /\ /\ status'[q] = "held" /\ InTheWayOf(s, q)'
                    /\ \/ s.at \in {"write", "read", "claim", "cap"}
                       \/ s.at \in {"reclaim", "expire"} /\ q <= s.after
                    => s.writes[q] = "expired" \/ (s.at = "expire" /\ q = s.after)
      <4>1. status'[q] = "held" => status[q] = "held" /\ expires'[q] = expires[q] /\ alloc'[q] = alloc[q]
        OBVIOUS
      <4>2. alloc'[q] = alloc[q] => InTheWayOf(s, q)' = InTheWayOf(s, q)
        BY <1>2 DEF InTheWayOf
      <4> QED BY <4>1, <4>2, <1>1 DEF Reclaimed
    <3> QED BY <3>1, <1>1, <1>2 DEF Reclaimed
  <2>1. status[q] # "none" /\ q \in Ids  BY <1>1, <1>3 DEF Reclaimed
  <2> QED BY <2>1, CommitKeeps
<1>13. Capped(s)'
  <2>1. ASSUME s.cap PROVE Cardinality(LiveHolds') + One(s) <= HoldCap
    <3>1. ~t.cap  BY <1>1, <2>1 DEF Apart
    <3>2. LiveHolds' \subseteq LiveHolds  BY <3>1, CommitHolds DEF t
    <3>3. Cardinality(LiveHolds') <= Cardinality(LiveHolds)  BY <3>2, FewerHolds
    <3>4. Cardinality(LiveHolds) + One(s) <= HoldCap  BY <1>1, <2>1 DEF Capped
    <3>5. One(s) \in Nat /\ HoldCap \in Nat  BY BoundAssumption DEF One
    <3> QED BY <3>3, <3>4, <3>5, HoldsAreFew
  <2> QED BY <1>1, <1>2, <1>7, <2>1 DEF Capped
<1>14. TxInv(s)'  BY <1>8, <1>9, <1>10, <1>11, <1>12, <1>13 DEF TxInv
<1> QED BY <1>14 DEF s

(* What is claimed is committed whole, and alone. *)
LEMMA CommitWhole ==
    ASSUME IInv, NEW w \in Sessions, Commit(w)
    PROVE  WholeOrNothing'
<1> DEFINE t == tx[w]
<1>1. t \in TxRecords /\ Winning(t) /\ t.at = "commit" /\ WholeOrNothing  BY Parts DEF Commit, IInv
<1>2. ASSUME NEW q \in Ids
      PROVE  IF status'[q] \in Occupying THEN Cardinality(alloc'[q]) = Quantity[q]
             ELSE alloc'[q] = {}
  <2>1. CASE Claiming(t) /\ q = t.id
    <3>1. status'[q] = Born(q) /\ alloc'[q] = t.won  BY <2>1, CommitRows
    <3>2. Cardinality(t.won) = Quantity[q]  BY <1>1, <2>1 DEF Winning
    <3> QED BY <3>1, <3>2, BornIs
  <2>2. CASE ~(Claiming(t) /\ q = t.id) /\ t.writes[q] # "none"
    <3>1. /\ <<status[q], status'[q]>> \in Settling
          /\ alloc'[q] = IF status'[q] \in Releasing THEN {} ELSE alloc[q]
      BY <2>2, CommitRows
    <3>2. status[q] \in Occupying /\ status'[q] \in Releasing \cup Occupying
      BY <3>1, SettlingIs
    <3> QED BY <3>1, <3>2, <1>1, StatusesApart DEF WholeOrNothing
  <2>3. CASE ~(Claiming(t) /\ q = t.id) /\ t.writes[q] = "none"
    <3>1. status'[q] = status[q] /\ alloc'[q] = alloc[q]  BY <2>3, CommitRows
    <3> QED BY <3>1, <1>1 DEF WholeOrNothing
  <2> QED BY <2>1, <2>2, <2>3
<1>3. ASSUME NEW q \in Ids
      PROVE  \/ Claiming(t) /\ q = t.id /\ alloc'[q] = t.won
             \/ alloc'[q] = {}
             \/ alloc'[q] = alloc[q] /\ t.writes[q] \notin Releasing
  BY CommitRows, StatusesApart
<1>4. ASSUME NEW q \in Ids, Overlap(q, t.id), t.writes[q] \notin Releasing
      PROVE  t.won \cap alloc[q] = {}
  BY <1>1, <1>4 DEF Winning
<1>5. ASSUME NEW q \in Ids, NEW r \in Ids, q # r, Overlap(q, r)
      PROVE  alloc'[q] \cap alloc'[r] = {}
  <2>1. Overlap(r, q)  BY <1>5 DEF Overlap
  <2>2. alloc[q] \cap alloc[r] = {}  BY <1>1, <1>5 DEF WholeOrNothing
  <2>3. CASE Claiming(t) /\ q = t.id /\ alloc'[q] = t.won
    <3>1. ~(Claiming(t) /\ r = t.id)  BY <1>5, <2>3
    <3> QED BY <2>1, <2>3, <3>1, <1>3, <1>4
  <2>4. CASE Claiming(t) /\ r = t.id /\ alloc'[r] = t.won
    <3>1. ~(Claiming(t) /\ q = t.id)  BY <1>5, <2>4
    <3> QED BY <1>5, <2>4, <3>1, <1>3, <1>4
  <2>5. CASE ~(Claiming(t) /\ q = t.id /\ alloc'[q] = t.won)
             /\ ~(Claiming(t) /\ r = t.id /\ alloc'[r] = t.won)
    BY <2>2, <2>5, <1>3
  <2> QED BY <2>3, <2>4, <2>5
<1>6. \A q, r \in Ids : Overlap(q, r)' = Overlap(q, r)  BY DEF Overlap
<1> QED BY <1>2, <1>5, <1>6 DEF WholeOrNothing

(* A replacement and what it supersedes are committed together. *)
LEMMA CommitLineage ==
    ASSUME IInv, NEW w \in Sessions, Commit(w)
    PROVE  Lineage'
<1> DEFINE t == tx[w]
          New(r) == Claiming(t) /\ r = t.id
<1>1. t \in TxRecords /\ Superseding(t) /\ t.at = "commit" /\ Lineage  BY Parts DEF Commit, IInv
<1>2. \A r \in Ids : Kind[r] = "move" => Replaces[r] \in Ids  BY RequestAssumption
<1>3. \A r \in Ids : status'[r] # "none" <=> status[r] # "none" \/ New(r)
  BY CommitKeeps
<1>4. Claiming(t) => t.id \in Ids  BY <1>1 DEF TxRecords
<1> HIDE DEF New
<1>5. ASSUME NEW q \in Ids
      PROVE  status'[q] = "rescheduled" <=>
                status[q] = "rescheduled" \/ (Moving(t) /\ q = Replaces[t.id])
  <2>1. t.writes[q] = "rescheduled" <=> Moving(t) /\ q = Replaces[t.id]  BY <1>1 DEF Superseding
  <2>2. CASE Claiming(t) /\ q = t.id
    <3>1. status[q] = "none" /\ status'[q] = Born(q) /\ t.writes[q] = Born(q)
      BY <2>2, CommitRows
    <3> QED BY <3>1, <2>1, BornIs
  <2>3. CASE ~(Claiming(t) /\ q = t.id) /\ t.writes[q] # "none"
    <3>1. <<status[q], status'[q]>> \in Settling /\ status'[q] = t.writes[q]
      BY <2>3, CommitRows
    <3>2. status[q] # "rescheduled"  BY <3>1, SettlingIs, StatusesApart
    <3> QED BY <3>1, <3>2, <2>1
  <2>4. CASE ~(Claiming(t) /\ q = t.id) /\ t.writes[q] = "none"
    <3>1. status'[q] = status[q]  BY <2>4, CommitRows
    <3> QED BY <3>1, <2>1, <2>4
  <2> QED BY <2>2, <2>3, <2>4
<1>6. Moving(t) <=> Claiming(t) /\ Kind[t.id] = "move"  BY DEF Moving
<1>7. Moving(t) => status[Replaces[t.id]] = "confirmed"
  BY <1>1, <1>6 DEF Superseding, Claiming
<1>8. ASSUME NEW r \in Ids, Kind[r] = "move", status'[r] # "none"
      PROVE  status'[Replaces[r]] = "rescheduled"
  <2>1. CASE status[r] # "none"  BY <1>8, <2>1, <1>1, <1>2, <1>5 DEF Lineage
  <2>2. CASE New(r)  BY <1>8, <2>2, <1>2, <1>5, <1>6 DEF New
  <2> QED BY <1>8, <2>1, <2>2, <1>3
<1>9. ASSUME NEW q \in Ids, NEW r \in Ids, Kind[q] = "move", Kind[r] = "move",
             Replaces[q] = Replaces[r], status'[q] # "none", status'[r] # "none"
      PROVE  q = r
  <2>1. CASE New(q) /\ New(r)  BY <2>1 DEF New
  <2>2. CASE New(q) /\ status[r] # "none"
    <3>1. status[Replaces[r]] = "rescheduled"  BY <1>1, <1>9, <2>2 DEF Lineage
    <3> QED BY <3>1, <2>2, <1>6, <1>7, <1>9 DEF New
  <2>3. CASE New(r) /\ status[q] # "none"
    <3>1. status[Replaces[q]] = "rescheduled"  BY <1>1, <1>9, <2>3 DEF Lineage
    <3> QED BY <3>1, <2>3, <1>6, <1>7, <1>9 DEF New
  <2>4. CASE status[q] # "none" /\ status[r] # "none"  BY <1>1, <1>9, <2>4 DEF Lineage
  <2> QED BY <1>3, <1>9, <2>1, <2>2, <2>3, <2>4
<1>10. ASSUME NEW old \in Ids, status'[old] = "rescheduled"
       PROVE  \E r \in Ids : Kind[r] = "move" /\ Replaces[r] = old /\ status'[r] # "none"
  <2>1. CASE status[old] = "rescheduled"
    <3>1. PICK r \in Ids : Kind[r] = "move" /\ Replaces[r] = old /\ status[r] # "none"
      BY <1>1, <2>1 DEF Lineage
    <3> QED BY <3>1, <1>3
  <2>2. CASE Moving(t) /\ old = Replaces[t.id]  BY <2>2, <1>3, <1>4, <1>6 DEF New
  <2> QED BY <1>5, <1>10, <2>1, <2>2
<1> QED BY <1>8, <1>9, <1>10 DEF Lineage

LEMMA CommitInv ==
    ASSUME IInv, NEW w \in Sessions, Commit(w)
    PROVE  IInv'
<1>1. tx' = [tx EXCEPT ![w] = NoTx] /\ UNCHANGED <<clock, asked>>  BY DEF Commit, Ended
<1>2. tx'[w] = NoTx /\ \A v \in Others(w) : tx'[v] = tx[v]  BY <1>1, Types DEF Others
<1>3. ASSUME NEW v \in Sessions PROVE TxInv(tx[v])'
  <2>1. CASE v = w  BY <2>1, <1>2, NoTxFitsThen DEF TxInv, Shape, Backed, Superseding, Winning,
          Reclaimed, Capped, InTheWayOf, One, Claiming, Moving, Placing, RowOf
  <2>2. CASE v # w  BY <2>2, CommitOthers DEF Others
  <2> QED BY <2>1, <2>2
<1>4. ASSUME NEW u \in Sessions, NEW v \in Sessions, u # v PROVE Apart(tx[u], tx[v])'
  <2>1. Apart(tx'[u], tx'[v])
    <3>1. CASE u = w  BY <1>2, <1>4, <3>1, NoTxFits, TxType DEF IInv, Others
    <3>2. CASE v = w
      <4>1. Apart(NoTx, tx[u])  BY NoTxFits, TxType DEF IInv
      <4> QED BY <1>2, <1>4, <3>2, <4>1, ApartBoth DEF Others
    <3>3. CASE u # w /\ v # w  BY <1>2, <1>4, <3>3 DEF Others, IInv
    <3> QED BY <3>1, <3>2, <3>3
  <2> QED BY <2>1 DEF Apart, Placing
<1>5. AskedOnce'
  <2>1. ASSUME NEW r \in Ids, status'[r] # "none" PROVE r \in asked
    <3>1. status[r] # "none" \/ (Claiming(tx[w]) /\ r = tx[w].id)  BY <2>1, CommitKeeps
    <3>2. Claiming(tx[w]) => tx[w].id \in asked  BY AskedId DEF Claiming
    <3> QED BY <3>1, <3>2 DEF IInv, AskedOnce
  <2>2. ASSUME NEW v \in Sessions, Placing(tx'[v]) PROVE tx'[v].id \in asked
    <3>1. v # w  BY <1>2, <2>2, NoTxIs DEF Placing
    <3>2. tx'[v] = tx[v]  BY <1>2, <3>1 DEF Others
    <3> QED BY <2>2, <3>2, AskedId
  <2> QED BY <1>1, <2>1, <2>2 DEF AskedOnce, Placing
<1>6. CapHonoured'  BY CommitHolds DEF CapHonoured
<1> QED BY <1>3, <1>4, <1>5, <1>6, CommitType, CommitWhole, CommitLineage DEF IInv

LEMMA AbandonInv ==
    ASSUME IInv, NEW w \in Sessions, Abandon(w)
    PROVE  IInv'
<1>1. faults' = faults + 1 /\ tx' = Ended(w) /\ UNCHANGED <<clock, rows, asked, verbs>>
  BY DEF Abandon
<1>2. faults' \in Nat /\ verbs' \in Nat  BY <1>1, Types
<1> QED BY <1>1, <1>2, EndedInv

----------------------------------------------------------------------------
LEMMA InitInv == Init => IInv
<1> SUFFICES ASSUME Init PROVE IInv  OBVIOUS
<1>1. /\ clock = 0 /\ asked = {} /\ verbs = 0 /\ faults = 0
      /\ status = [r \in Ids |-> "none"] /\ expires = [r \in Ids |-> 0]
      /\ alloc = [r \in Ids |-> {}] /\ tx = [w \in Sessions |-> NoTx]
  BY DEF Init
<1>2. TypeOK
  <2>1. status \in [Ids -> Statuses]  BY <1>1 DEF Statuses
  <2>2. tx \in [Sessions -> TxRecords]  BY <1>1, NoTxIs
  <2> QED BY <1>1, <2>1, <2>2 DEF TypeOK
<1>3. \A w \in Sessions : TxInv(tx[w])  BY <1>1, NoTxFits
<1>4. \A v, w \in Sessions : Apart(tx[v], tx[w])  BY <1>1, NoTxFits, NoTxIs
<1>5. AskedOnce  BY <1>1, NoTxIs DEF AskedOnce, Placing
<1>6. WholeOrNothing  BY <1>1 DEF WholeOrNothing, Occupying
<1>7. Lineage
  <2>1. \A r \in Ids : status[r] = "none"  BY <1>1
  <2> QED BY <2>1 DEF Lineage
<1>8. CapHonoured
  <2>1. LiveHolds = {}  BY <1>1 DEF LiveHolds
  <2> QED BY <2>1, FS_EmptySet, BoundAssumption DEF CapHonoured
<1> QED BY <1>2, <1>3, <1>4, <1>5, <1>6, <1>7, <1>8 DEF IInv

LEMMA StutterInv == IInv /\ UNCHANGED vars => IInv'
BY DEF vars, IInv, TypeOK, TxInv, Shape, Backed, Superseding, Winning, Reclaimed, Capped, RowOf,
   InTheWayOf, One, LiveHolds, Claiming, Moving, Placing, Apart, AskedOnce, WholeOrNothing,
   Lineage, CapHonoured

LEMMA NextInv == IInv /\ [Next]_vars => IInv'
<1> SUFFICES ASSUME IInv, [Next]_vars PROVE IInv'  OBVIOUS
<1>1. CASE Tick  BY <1>1, TickInv
<1>2. ASSUME NEW w \in Sessions, NEW r \in Ids, Place(w, r) PROVE IInv'  BY <1>2, PlaceInv
<1>3. ASSUME NEW w \in Sessions, NEW r \in Ids, NEW verb \in Verbs, AskVerb(w, verb, r)
      PROVE  IInv'
  BY <1>3, AskVerbInv
<1>4. ASSUME NEW w \in Sessions, Transition(w) PROVE IInv'
  BY <1>4, LockReservationInv, TransitionReservationInv, RescheduleReservationInv DEF Transition
<1>5. ASSUME NEW w \in Sessions, Reclaim(w) PROVE IInv'
  BY <1>5, LockElapsedHoldInv, ApplyExpiryInv, ReclaimEndsInv DEF Reclaim
<1>6. ASSUME NEW w \in Sessions, Claim(w) PROVE IInv'
  BY <1>6, WriteClaimInv, ReadFreeUnitsInv, WinUnitInv, LoseUnitInv, NextRoundInv,
     EnforceHoldCapsInv DEF Claim
<1>7. ASSUME NEW w \in Sessions, Work(w) PROVE IInv'
  BY <1>4, <1>5, <1>6, <1>7, CommitInv, BreakDeadlockInv DEF Work
<1>8. ASSUME NEW w \in Sessions, Reap(w) PROVE IInv'  BY <1>8, ReapInv
<1>9. ASSUME NEW w \in Sessions, Abandon(w) PROVE IInv'  BY <1>9, AbandonInv
<1>10. CASE UNCHANGED vars  BY <1>10, StutterInv
<1> QED BY <1>1, <1>2, <1>3, <1>7, <1>8, <1>9, <1>10 DEF Next

(* Sessions, reservations and counters keep their types. *)
THEOREM TypeCorrect == Spec => []TypeOK
<1>1. IInv => TypeOK  BY DEF IInv
<1> QED BY <1>1, InitInv, NextInv, PTL DEF Spec

(* What a transaction has judged under its row locks is true until it ends: *)
(* the invariant of the module.                                             *)
THEOREM Invariant == Spec => []IInv
BY InitInv, NextInv, PTL DEF Spec

(* Whatever occupies the resource holds all the units it asked for, alone,  *)
(* for every set of requests, units and nights, whichever sessions claim,   *)
(* confirm, reschedule, expire, fail or back out of a deadlock meanwhile.   *)
THEOREM ClaimsAreWhole == Spec => []WholeOrNothing
<1>1. IInv => WholeOrNothing  BY DEF IInv
<1> QED BY <1>1, Invariant, PTL

(* The live holds never exceed the cap: a hold commits only under the lock  *)
(* under which it was counted.                                              *)
THEOREM CapCorrect == Spec => []CapHonoured
<1>1. IInv => CapHonoured  BY DEF IInv
<1> QED BY <1>1, Invariant, PTL

(* A reservation is superseded if and only if exactly one replacement of it *)
(* was committed.                                                           *)
LEMMA LineageIsOne == IInv => OneOfLineage
<1> SUFFICES ASSUME IInv, NEW old \in Ids
             PROVE  status[old] = "rescheduled" <=>
                    Cardinality({r \in Ids : Kind[r] = "move" /\ Replaces[r] = old /\ status[r] # "none"}) = 1
  BY DEF OneOfLineage
<1> DEFINE S == {r \in Ids : Kind[r] = "move" /\ Replaces[r] = old /\ status[r] # "none"}
<1>1. Lineage  BY DEF IInv
<1>2. IsFiniteSet(S)  BY IdAssumption, FS_Subset
<1>3. ASSUME status[old] = "rescheduled" PROVE Cardinality(S) = 1
  <2>1. PICK r \in Ids : Kind[r] = "move" /\ Replaces[r] = old /\ status[r] # "none"
    BY <1>1, <1>3 DEF Lineage
  <2>2. S = {r}  BY <1>1, <2>1 DEF Lineage
  <2> HIDE DEF S
  <2> QED BY <2>2, FS_Singleton
<1>4. ASSUME Cardinality(S) = 1 PROVE status[old] = "rescheduled"
  <2>1. PICK r : S = {r}
    <3> HIDE DEF S
    <3> QED BY <1>2, <1>4, FS_Singleton
  <2>2. r \in S  BY <2>1
  <2>3. r \in Ids /\ Kind[r] = "move" /\ Replaces[r] = old /\ status[r] # "none"  BY <2>2
  <2> QED BY <2>3, <1>1 DEF Lineage
<1> QED BY <1>3, <1>4

THEOREM LineageCorrect == Spec => []OneOfLineage
BY LineageIsOne, Invariant, PTL

(* A row is settled once: only a commit changes it, and the commit found it *)
(* as the transaction had judged it.                                        *)
LEMMA SettledByCommit ==
    ASSUME IInv, [Next]_vars, NEW r \in Ids, status'[r] # status[r]
    PROVE  /\ <<status[r], status'[r]>> \in LegalChanges
           /\ status'[r] = "expired" => expires[r] <= clock
<1>1. \E w \in Sessions : Commit(w)
  <2>1. CASE Tick  BY <2>1 DEF Tick, rows
  <2>2. ASSUME NEW w \in Sessions, NEW q \in Ids, Place(w, q) PROVE FALSE
    BY <2>2 DEF Place, rows
  <2>3. ASSUME NEW w \in Sessions, NEW q \in Ids, NEW verb \in Verbs, AskVerb(w, verb, q)
        PROVE  FALSE
    BY <2>3 DEF AskVerb, rows
  <2>4. ASSUME NEW w \in Sessions, Work(w), ~Commit(w) PROVE FALSE
    <3>1. CASE Transition(w)
      BY <3>1 DEF Transition, LockReservation, TransitionReservation, RescheduleReservation, rows
    <3>2. CASE Reclaim(w)  BY <3>2 DEF Reclaim, LockElapsedHold, ApplyExpiry, ReclaimEnds, rows
    <3>3. CASE Claim(w)
      BY <3>3 DEF Claim, WriteClaim, ReadFreeUnits, WinUnit, LoseUnit, NextRound,
                  EnforceHoldCaps, rows
    <3>4. CASE BreakDeadlock(w)  BY <3>4 DEF BreakDeadlock, rows
    <3> QED BY <2>4, <3>1, <3>2, <3>3, <3>4 DEF Work
  <2>5. ASSUME NEW w \in Sessions, Reap(w) PROVE FALSE  BY <2>5 DEF Reap, rows
  <2>6. ASSUME NEW w \in Sessions, Abandon(w) PROVE FALSE  BY <2>6 DEF Abandon, rows
  <2>7. CASE UNCHANGED vars  BY <2>7 DEF vars
  <2> QED BY <2>1, <2>2, <2>3, <2>4, <2>5, <2>6, <2>7 DEF Next
<1>2. PICK w \in Sessions : Commit(w)  BY <1>1
<1>3. CASE Claiming(tx[w]) /\ r = tx[w].id
  <2>1. status[r] = "none" /\ status'[r] = Born(r)  BY <1>2, <1>3, CommitRows
  <2> QED BY <2>1, BornIs
<1>4. CASE ~(Claiming(tx[w]) /\ r = tx[w].id)
  <2>1. /\ <<status[r], status'[r]>> \in Settling
        /\ status'[r] = "expired" => expires[r] <= clock
    BY <1>2, <1>4, CommitRows
  <2> QED BY <2>1 DEF Settling
<1> QED BY <1>3, <1>4

THEOREM VerdictCorrect == Spec => VerdictStands
<1> DEFINE Stands == \A r \in Ids : status'[r] # status[r] =>
                        /\ <<status[r], status'[r]>> \in LegalChanges
                        /\ status'[r] = "expired" => expires[r] <= clock
<1>1. IInv /\ [Next]_vars => [Stands]_vars  BY SettledByCommit
<1>2. Spec => [][Stands]_vars
  <2> HIDE DEF Stands
  <2> QED BY <1>1, Invariant, PTL DEF Spec
<1> QED BY <1>2 DEF VerdictStands


----------------------------------------------------------------------------
(* What a refused claim may say. *)

(* No transaction is told now that nothing is free. *)
Silent == \A v \in Sessions : tx'[v].says \in {tx[v].says, "", "contention", "limit"}

LEMMA OneSilent ==
    ASSUME IInv, NEW w \in Sessions, NEW o, tx' = [tx EXCEPT ![w] = o],
           o.says \in {tx[w].says, "", "contention", "limit"}
    PROVE  Silent
BY Types DEF Silent

LEMMA EndedSilent ==
    ASSUME IInv, NEW w \in Sessions, tx' = Ended(w)
    PROVE  Silent
BY NoTxIs, OneSilent DEF Ended

LEMMA RefusedSays ==
    ASSUME IInv, NEW w \in Sessions, NEW code, tx' = Refused(w, code)
    PROVE  \A v \in Sessions : tx'[v].says = IF v = w THEN code ELSE tx[v].says
<1> DEFINE o == [RolledBack(w) EXCEPT !.at = "commit", !.says = code]
<1>1. o.says = code
  <2>1. tx[w] \in TxRecords  BY Types
  <2> QED BY <2>1 DEF RolledBack, TxRecords
<1>2. tx' = [tx EXCEPT ![w] = o]  BY DEF Refused
<1> HIDE DEF o
<1> QED BY <1>1, <1>2, Types

(* Steps that leave the answers alone. *)
LEMMA KeepsSilent ==
    ASSUME IInv, \A v \in Sessions : tx'[v].says = tx[v].says
    PROVE  Silent
BY DEF Silent

(* A hold that had elapsed and is not being confirmed is expired by the     *)
(* claim that finds it in its way.                                          *)
Ownable(w, u) == \A q \in Blocking(tx[w].id, u) :
                    (q \in tx[w].due /\ status[q] = "held") \/ tx[w].writes[q] \in Releasing
LEMMA OwnableIsFree ==
    ASSUME IInv, NEW w \in Sessions, tx[w].at \in {"read", "claim"},
           NEW u \in Target[tx[w].id], Ownable(w, u)
    PROVE  \A q \in Blocking(tx[w].id, u) : tx[w].writes[q] \in Releasing
<1> TAKE q \in Blocking(tx[w].id, u)
<1>1. q \in Ids /\ u \in alloc[q] /\ Overlap(q, tx[w].id)  BY DEF Blocking
<1>2. CASE q \in tx[w].due /\ status[q] = "held"
  <2>1. InTheWayOf(tx[w], q)  BY <1>1 DEF InTheWayOf
  <2>2. tx[w].writes[q] = "expired"  BY <1>2, <2>1, Parts DEF Reclaimed
  <2> QED BY <2>2, StatusesApart
<1> QED BY <1>2 DEF Ownable

(* The units it can own are too few when it is refused. *)
LEMMA TooFewFree ==
    ASSUME IInv, NEW w \in Sessions,
           \/ tx[w].at = "read" /\ FreeUnits(w) = {}
           \/ /\ tx[w].at = "claim" /\ tx[w].cand # {} /\ Kind[tx[w].id] = "block"
              /\ Taken(w, Try(w))
    PROVE  Cardinality({u \in Target[tx[w].id] : Ownable(w, u)}) < Quantity[tx[w].id]
<1> DEFINE t == tx[w]
          S == {u \in Target[t.id] : Ownable(w, u)}
<1>1. t \in TxRecords /\ Winning(t)  BY Parts
<1>2. t.id \in Ids /\ t.won \subseteq Units /\ t.cand \subseteq Units  BY <1>1 DEF TxRecords
<1>3. Target[t.id] \subseteq Units  BY <1>2, RequestAssumption
<1>4. IsFiniteSet(Target[t.id]) /\ IsFiniteSet(t.won)
  BY <1>2, <1>3, IdAssumption, FS_Subset
<1>5. Quantity[t.id] \in Nat  BY <1>2, RequestAssumption
<1>6. CASE t.at = "read" /\ FreeUnits(w) = {}
  <2>1. S \subseteq t.won
    <3> SUFFICES ASSUME NEW u \in Target[t.id], Ownable(w, u), u \notin t.won PROVE FALSE
      OBVIOUS
    <3>1. u \in FreeUnits(w)  BY <1>6, OwnableIsFree DEF FreeUnits
    <3> QED BY <3>1, <1>6
  <2>2. Cardinality(t.won) < Quantity[t.id]  BY <1>1, <1>6 DEF Winning
  <2>3. IsFiniteSet(S) /\ Cardinality(S) <= Cardinality(t.won)
    <3> HIDE DEF S
    <3> QED BY <2>1, <1>4, FS_Subset
  <2>4. Cardinality(S) \in Nat /\ Cardinality(t.won) \in Nat
    BY <2>3, <1>4, FS_CardinalityType
  <2> HIDE DEF S
  <2>5. Cardinality(S) < Quantity[t.id]  BY <2>2, <2>3, <2>4, <1>5
  <2> QED BY <2>5 DEF S
<1>7. CASE t.at = "claim" /\ t.cand # {} /\ Kind[t.id] = "block" /\ Taken(w, Try(w))
  <2>1. Try(w) \in t.cand  BY <1>2, <1>7, LeastIn DEF Try
  <2>2. Try(w) \in Target[t.id]  BY <2>1, <1>1 DEF Winning
  <2>3. PICK q \in Blocking(t.id, Try(w)) : ~Released(q)  BY <1>7 DEF Taken
  <2>4. ~(t.writes[q] \in Releasing)  BY <2>3 DEF Released
  <2>5. ~Ownable(w, Try(w))  BY <1>7, <2>2, <2>3, <2>4, OwnableIsFree
  <2>6. S \subseteq Target[t.id] \ {Try(w)}  BY <2>5
  <2>7. Quantity[t.id] = Cardinality(Target[t.id])  BY <1>2, <1>7, RequestAssumption
  <2>8. IsFiniteSet(S) /\ S # Target[t.id] /\ S \subseteq Target[t.id]
    BY <1>4, <2>2, <2>6, FS_Subset
  <2>9. Cardinality(S) <= Cardinality(Target[t.id])
        /\ (Cardinality(S) = Cardinality(Target[t.id]) => S = Target[t.id])
    <3> HIDE DEF S
    <3> QED BY <2>8, <1>4, FS_Subset
  <2>10. Cardinality(S) \in Nat  BY <2>8, FS_CardinalityType
  <2> HIDE DEF S
  <2>11. Cardinality(S) < Quantity[t.id]  BY <2>7, <2>8, <2>9, <2>10, <1>5
  <2> QED BY <2>11 DEF S
<1> QED BY <1>6, <1>7

(* Only two refusals say it; every other step is silent. *)
LEMMA FirstSilent ==
    ASSUME IInv, NEW w \in Sessions, Transition(w) \/ Reclaim(w)
    PROVE  Silent
<1>0. tx[w] \in TxRecords /\ tx \in [Sessions -> TxRecords]  BY Types
<1>1. CASE LockReservation(w)  BY <1>0, <1>1 DEF LockReservation, TxRecords, Silent
<1>2. CASE TransitionReservation(w)
  <2> DEFINE o == [tx[w] EXCEPT !.writes = [@ EXCEPT ![tx[w].id] = Rules[tx[w].verb].to],
                                !.at = "commit"]
  <2>1. tx' = [tx EXCEPT ![w] = o] \/ tx' = Ended(w)
    BY <1>0, <1>2 DEF TransitionReservation
  <2>2. o.says = tx[w].says  BY <1>0 DEF TxRecords
  <2> HIDE DEF o
  <2> QED BY <2>1, <2>2, EndedSilent, OneSilent
<1>3. CASE RescheduleReservation(w)
  <2> DEFINE due == ElapsedHolds
            o == [tx[w] EXCEPT !.at = "reclaim", !.due = due]
  <2>1. tx' = [tx EXCEPT ![w] = o] \/ tx' = Ended(w)
    BY <1>0, <1>3 DEF RescheduleReservation
  <2> HIDE DEF due
  <2>2. o.says = tx[w].says  BY <1>0 DEF TxRecords
  <2> HIDE DEF o
  <2> QED BY <2>1, <2>2, EndedSilent, OneSilent
<1>4. CASE LockElapsedHold(w)
  <2> DEFINE q == Least(InTheWay(w))
            o == [tx[w] EXCEPT !.rows = @ \cup {q}, !.after = q, !.at = "expire"]
  <2>1. tx' = [tx EXCEPT ![w] = o]  BY <1>0, <1>4 DEF LockElapsedHold
  <2> HIDE DEF q
  <2>2. o.says = tx[w].says  BY <1>0 DEF TxRecords
  <2> HIDE DEF o
  <2> QED BY <2>1, <2>2, OneSilent
<1>5. CASE ApplyExpiry(w)
  <2> DEFINE q == tx[w].after
            ws == [tx[w].writes EXCEPT ![q] = IF Elapsed(q) THEN "expired" ELSE @]
            o == [tx[w] EXCEPT !.at = "reclaim", !.writes = ws]
  <2>1. tx' = [tx EXCEPT ![w] = o]  BY <1>0, <1>5 DEF ApplyExpiry
  <2> HIDE DEF ws
  <2>2. o.says = tx[w].says  BY <1>0 DEF TxRecords
  <2> HIDE DEF o
  <2> QED BY <2>1, <2>2, OneSilent
<1>6. CASE ReclaimEnds(w)  BY <1>0, <1>6 DEF ReclaimEnds, Step, TxRecords, Silent
<1> QED BY <1>1, <1>2, <1>3, <1>4, <1>5, <1>6 DEF Transition, Reclaim

LEMMA ClaimSilent ==
    ASSUME IInv, NEW w \in Sessions, WriteClaim(w) \/ WinUnit(w) \/ NextRound(w) \/ EnforceHoldCaps(w)
    PROVE  Silent
<1>0. tx[w] \in TxRecords /\ tx \in [Sessions -> TxRecords]  BY Types
<1>1. CASE WriteClaim(w)
  <2>1. PICK ws, n, c, a :
            tx' = [tx EXCEPT ![w].writes = ws, ![w].expiry = n, ![w].cand = c, ![w].at = a]
    BY <1>1 DEF WriteClaim
  <2> DEFINE o == [tx[w] EXCEPT !.writes = ws, !.expiry = n, !.cand = c, !.at = a]
  <2>2. tx' = [tx EXCEPT ![w] = o]  BY <1>0, <2>1
  <2>3. o.says = tx[w].says  BY <1>0 DEF TxRecords
  <2> HIDE DEF o
  <2> QED BY <2>2, <2>3, OneSilent
<1>2. CASE WinUnit(w)
  <2> DEFINE won == tx[w].won \cup {Try(w)}
            cand == IF Cardinality(won) = Quantity[tx[w].id] THEN {} ELSE tx[w].cand \ {Try(w)}
            at == IF Cardinality(won) # Quantity[tx[w].id] THEN "claim"
                  ELSE IF Kind[tx[w].id] = "hold" THEN "cap" ELSE "commit"
            o == [tx[w] EXCEPT !.won = won, !.cand = cand, !.at = at]
  <2>2. tx' = [tx EXCEPT ![w] = o]  BY <1>0, <1>2 DEF WinUnit
  <2> HIDE DEF won, cand, at
  <2>3. o.says = tx[w].says  BY <1>0 DEF TxRecords
  <2> HIDE DEF o
  <2> QED BY <2>2, <2>3, OneSilent
<1>3. CASE NextRound(w)
  <2>1. CASE tx' = Step(w, "read")  BY <1>0, <2>1 DEF Step, TxRecords, Silent
  <2>2. CASE tx' = Refused(w, "contention")  BY <2>2, RefusedSays DEF Silent
  <2> QED BY <1>3, <2>1, <2>2 DEF NextRound
<1>4. CASE EnforceHoldCaps(w)
  <2>1. CASE tx' = [tx EXCEPT ![w].cap = TRUE, ![w].at = "commit"]
    BY <1>0, <2>1 DEF TxRecords, Silent
  <2>2. CASE tx' = Refused(w, "limit")  BY <2>2, RefusedSays DEF Silent
  <2> QED BY <1>4, <2>1, <2>2 DEF EnforceHoldCaps
<1> QED BY <1>1, <1>2, <1>3, <1>4

LEMMA OtherSilent ==
    ASSUME IInv, NEW w \in Sessions, Commit(w) \/ BreakDeadlock(w) \/ Reap(w) \/ Abandon(w)
    PROVE  Silent
<1>0. tx[w] \in TxRecords /\ tx \in [Sessions -> TxRecords]  BY Types
<1>1. CASE Commit(w)  BY <1>1, EndedSilent DEF Commit
<1>2. CASE Abandon(w)  BY <1>2, EndedSilent DEF Abandon
<1>3. CASE Reap(w)
  <2>1. PICK d, ws : tx' = [tx EXCEPT ![w] = [NoTx EXCEPT !.at = "commit", !.verb = "reap", !.rows = d,
                                              !.writes = ws]]
    BY <1>3 DEF Reap
  <2> DEFINE o == [NoTx EXCEPT !.at = "commit", !.verb = "reap", !.rows = d, !.writes = ws]
  <2>2. o.says = ""  BY NoTxIs DEF TxRecords
  <2> HIDE DEF o
  <2> QED BY <2>1, <2>2, OneSilent DEF o
<1>4. CASE BreakDeadlock(w)
  <2> DEFINE o == [RolledBack(w) EXCEPT !.at = "write", !.tries = @ + 1]
  <2>1. o.says = tx[w].says  BY <1>0 DEF RolledBack, TxRecords
  <2>2. tx' = [tx EXCEPT ![w] = o] \/ tx' = Ended(w) \/ tx' = Refused(w, "contention")
    BY <1>4 DEF BreakDeadlock
  <2>3. CASE tx' = Refused(w, "contention")  BY <2>3, RefusedSays DEF Silent
  <2> HIDE DEF o
  <2> QED BY <2>1, <2>2, <2>3, EndedSilent, OneSilent
<1> QED BY <1>1, <1>2, <1>3, <1>4

LEMMA SomeRefusal ==
    ASSUME IInv, NEW w \in Sessions, ReadFreeUnits(w) \/ LoseUnit(w), ~Silent
    PROVE  /\ \A v \in Sessions : v # w => tx'[v].says = tx[v].says
           /\ \/ tx[w].at = "read" /\ FreeUnits(w) = {}
              \/ /\ tx[w].at = "claim" /\ tx[w].cand # {} /\ Kind[tx[w].id] = "block"
                 /\ Taken(w, Try(w))
<1>0. tx[w] \in TxRecords /\ tx \in [Sessions -> TxRecords]  BY Types
<1>1. CASE ReadFreeUnits(w)
  <2> DEFINE F == FreeUnits(w)
            o == [tx[w] EXCEPT !.cand = F, !.rounds = @ + 1, !.at = "claim"]
  <2>1. tx[w].at = "read"  BY <1>1 DEF ReadFreeUnits
  <2>2. CASE F # {}
    <3>1. tx' = [tx EXCEPT ![w] = o]  BY <1>0, <1>1, <2>2 DEF ReadFreeUnits
    <3> HIDE DEF F
    <3>2. o.says = tx[w].says  BY <1>0 DEF TxRecords
    <3> HIDE DEF o
    <3> QED BY <3>1, <3>2, OneSilent
  <2>3. CASE F = {}
    <3>1. tx' = Refused(w, "unavailable")  BY <1>1, <2>3 DEF ReadFreeUnits
    <3> QED BY <2>1, <2>3, <3>1, RefusedSays
  <2> QED BY <2>2, <2>3
<1>2. CASE LoseUnit(w)
  <2> DEFINE o == [tx[w] EXCEPT !.cand = @ \ {Try(w)}]
  <2>1. tx[w].at = "claim" /\ tx[w].cand # {} /\ Taken(w, Try(w))  BY <1>2 DEF LoseUnit
  <2>2. CASE Kind[tx[w].id] # "block"
    <3>1. tx' = [tx EXCEPT ![w] = o]  BY <1>0, <1>2, <2>2 DEF LoseUnit
    <3>2. o.says = tx[w].says  BY <1>0 DEF TxRecords
    <3> HIDE DEF o
    <3> QED BY <3>1, <3>2, OneSilent
  <2>3. CASE Kind[tx[w].id] = "block"
    <3>1. tx' = Refused(w, "conflict")  BY <1>2, <2>3 DEF LoseUnit
    <3> QED BY <2>1, <2>3, <3>1, RefusedSays
  <2> QED BY <2>2, <2>3
<1> QED BY <1>1, <1>2

(* A claim is told that nothing is free only when too few of its units are  *)
(* free of live rows that it could not release itself.                      *)
LEMMA RefusalIsJust ==
    ASSUME IInv, [Next]_vars, NEW w \in Sessions,
           tx[w].says = "", tx'[w].says \in {"unavailable", "conflict"}
    PROVE  Cardinality({u \in Target[tx[w].id] : Ownable(w, u)}) < Quantity[tx[w].id]
<1>1. ~Silent  BY DEF Silent
<1>2. ~Tick /\ ~UNCHANGED vars  BY DEF Tick, vars
<1>3. ASSUME NEW v \in Sessions, NEW r \in Ids, Place(v, r) PROVE Silent
  <2> DEFINE d == ElapsedHolds
            a == IF Kind[r] = "move" THEN "lock" ELSE "reclaim"
            o == [NoTx EXCEPT !.id = r, !.due = d, !.at = a]
  <2>1. tx' = [tx EXCEPT ![v] = o]  BY <1>3 DEF Place
  <2> HIDE DEF d, a
  <2>2. o.says = ""  BY NoTxIs DEF TxRecords
  <2> HIDE DEF o
  <2> QED BY <2>1, <2>2, OneSilent
<1>4. ASSUME NEW v \in Sessions, NEW r \in Ids, NEW verb \in Verbs, AskVerb(v, verb, r)
      PROVE  Silent
  <2> DEFINE o == [NoTx EXCEPT !.at = "lock", !.verb = verb, !.id = r]
  <2>1. tx' = [tx EXCEPT ![v] = o]  BY <1>4 DEF AskVerb
  <2>2. o.says = ""  BY NoTxIs DEF TxRecords
  <2> HIDE DEF o
  <2> QED BY <2>1, <2>2, OneSilent
<1>5. PICK v \in Sessions : ReadFreeUnits(v) \/ LoseUnit(v)
  BY <1>1, <1>2, <1>3, <1>4, FirstSilent, ClaimSilent, OtherSilent DEF Next, Work, Claim
<1>6. v = w  BY <1>1, <1>5, SomeRefusal
<1>7. \/ tx[w].at = "read" /\ FreeUnits(w) = {}
      \/ /\ tx[w].at = "claim" /\ tx[w].cand # {} /\ Kind[tx[w].id] = "block"
         /\ Taken(w, Try(w))
  BY <1>1, <1>5, <1>6, SomeRefusal
<1> QED BY <1>7, TooFewFree

(* An elapsed hold refuses nobody, with the reaper or without it.           *)
THEOREM RefusalCorrect == Spec => ElapsedRefusesNobody
<1> DEFINE Just == \A w \in Sessions : tx[w].says = "" /\ tx'[w].says \in {"unavailable", "conflict"} =>
                      Cardinality({u \in Target[tx[w].id] :
                          \A q \in Blocking(tx[w].id, u) :
                              (q \in tx[w].due /\ status[q] = "held") \/ tx[w].writes[q] \in Releasing})
                          < Quantity[tx[w].id]
<1>1. IInv /\ [Next]_vars => [Just]_vars  BY RefusalIsJust DEF Ownable
<1>2. Spec => [][Just]_vars
  <2> HIDE DEF Just
  <2> QED BY <1>1, Invariant, PTL DEF Spec
<1> QED BY <1>2, PTL DEF ElapsedRefusesNobody
=============================================================================
