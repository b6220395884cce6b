----------------------------- MODULE BookingHolds -----------------------------
(***************************************************************************)
(* Holds, reservations and blocks on the units of one booking resource:    *)
(* the claim of units with its lazy reclaim of elapsed holds, the cap on   *)
(* live holds, the transitions of a reservation, and the reaper.           *)
(*                                                                         *)
(* Every request is one transaction. It takes its row locks and inserts    *)
(* its allocation rows one at a time; PostgreSQL's exclusion constraint    *)
(* makes an insert wait for a conflicting row whose fate is undecided, and *)
(* what it writes is applied at its commit. Reservation ids and units are  *)
(* numbers, in the order the code locks and inserts them.                  *)
(***************************************************************************)
EXTENDS Integers, FiniteSets

CONSTANTS Ids,         \* reservations and blocks; each is asked for once
          Kind,        \* [Ids -> {"hold", "immediate", "move", "block"}]
          Replaces,    \* the reservation that a "move" reschedules
          Units,
          Target,      \* [Ids -> SUBSET Units]: the units asked for
          Nights, Window,  \* [Ids -> SUBSET Nights]
          Quantity,    \* [Ids -> Nat]: how many units it takes
          Verbs,       \* the transitions that are asked for
          Sessions,    \* transactions at work
          HoldTime,    \* the lifetime of a hold
          HoldCap,     \* max_active_holds_per_tenant
          MaxRounds,   \* rounds of one claim
          MaxRetries,  \* maxDeadlockRetries
          MaxTime, MaxVerbs, MaxFaults   \* bounds of the clock, transitions, failures

ASSUME IdAssumption ==
    /\ Ids \subseteq Nat \ {0} /\ IsFiniteSet(Ids) /\ Ids # {}
    /\ Units \subseteq Int /\ IsFiniteSet(Units)
ASSUME RequestAssumption ==
    /\ Kind \in [Ids -> {"hold", "immediate", "move", "block"}]
    /\ Replaces \in [Ids -> Ids]
    /\ \A r \in Ids : Kind[r] = "move" =>
        Replaces[r] # r /\ Kind[Replaces[r]] # "block" /\ Quantity[r] = Quantity[Replaces[r]]
    /\ Target \in [Ids -> SUBSET Units] /\ Window \in [Ids -> SUBSET Nights]
    /\ Quantity \in [Ids -> Nat \ {0}]
    /\ \A r \in Ids : Kind[r] = "block" => Quantity[r] = Cardinality(Target[r])
ASSUME BoundAssumption ==
    /\ HoldTime \in Nat \ {0} /\ HoldCap \in Nat
    /\ MaxRounds \in Nat \ {0} /\ MaxRetries \in Nat
    /\ MaxTime \in Nat /\ MaxVerbs \in Nat /\ MaxFaults \in Nat

VARIABLES clock,    \* the database's clock
          status,   \* of each reservation, as committed
          expires,  \* hold_expires_at
          alloc,    \* its live allocations: units, each for all its nights
          tx,       \* what each session is doing
          asked,    \* the requests made
          verbs, faults

vars == <<clock, status, expires, alloc, tx, asked, verbs, faults>>
rows == <<status, expires, alloc>>

(* RESERVATION_TRANSITIONS of the verbs on one reservation, and the release *)
(* of a block.                                                              *)
Rules ==
    [confirm  |-> [from |-> {"held"}, to |-> "confirmed"],
     cancel   |-> [from |-> {"held", "confirmed"}, to |-> "cancelled"],
     check_in |-> [from |-> {"confirmed"}, to |-> "checked_in"],
     complete |-> [from |-> {"checked_in"}, to |-> "completed"],
     no_show  |-> [from |-> {"confirmed"}, to |-> "no_show"],
     release  |-> [from |-> {"blocked"}, to |-> "released"]]
ASSUME VerbAssumption == Verbs \subseteq DOMAIN Rules
Releasing == {"cancelled", "rescheduled", "expired", "released"}
Occupying == {"held", "confirmed", "blocked", "checked_in", "completed", "no_show"}
Statuses == {"none"} \cup Releasing \cup Occupying

Answers == {"", "unavailable", "conflict", "contention", "limit"}
TxRecords == [at : {"idle", "lock", "update", "reclaim", "expire", "write", "read", "claim",
                    "cap", "commit"},
              verb : DOMAIN Rules \cup {"place", "reap"}, id : Ids,
              rows : SUBSET Ids,               \* row locks
              writes : [Ids -> Statuses],      \* statuses written; "none" for none
              after : Nat,                     \* the reclaim's keyset cursor
              due : SUBSET Ids,                \* the holds that had elapsed when it began
              expiry : Nat, won : SUBSET Units, cand : SUBSET Units,
              cap : BOOLEAN, rounds : Nat, tries : Nat, says : Answers]

(* The records keep their types. *)
TypeOK ==
    /\ clock \in Nat
    /\ status \in [Ids -> Statuses] /\ expires \in [Ids -> Nat]
    /\ alloc \in [Ids -> SUBSET Units]
    /\ tx \in [Sessions -> TxRecords]
    /\ asked \subseteq Ids /\ verbs \in Nat /\ faults \in Nat

NoWrites == [r \in Ids |-> "none"]
NoTx == [at |-> "idle", verb |-> "place", id |-> CHOOSE r \in Ids : TRUE, rows |-> {},
         writes |-> NoWrites, after |-> 0, due |-> {}, expiry |-> 0, won |-> {}, cand |-> {},
         cap |-> FALSE, rounds |-> 0, tries |-> 0, says |-> ""]

Init ==
    /\ clock = 0
    /\ status = [r \in Ids |-> "none"] /\ expires = [r \in Ids |-> 0]
    /\ alloc = [r \in Ids |-> {}]
    /\ tx = [w \in Sessions |-> NoTx]
    /\ asked = {} /\ verbs = 0 /\ faults = 0

----------------------------------------------------------------------------
Others(w) == Sessions \ {w}
RowFree(w, r) == \A v \in Others(w) : r \notin tx[v].rows
Overlap(q, r) == Window[q] \cap Window[r] # {}
Elapsed(r) == status[r] = "held" /\ expires[r] <= clock
ElapsedHolds == {r \in Ids : Elapsed(r)}
Least(S) == CHOOSE n \in S : \A m \in S : n <= m

Step(w, at) == [tx EXCEPT ![w].at = at]
Ended(w) == [tx EXCEPT ![w] = NoTx]

(* The row a transaction locks first: the one it transitions, or the one it *)
(* reschedules.                                                             *)
Row(w) == IF tx[w].verb = "place" THEN Replaces[tx[w].id] ELSE tx[w].id

(* Mutant: the old reservation was superseded before the savepoint. *)
RolledBackPartly(w) ==
    [tx[w] EXCEPT !.writes = [@ EXCEPT ![tx[w].id] = "none"],
                  !.won = {}, !.cand = {}, !.cap = FALSE, !.rounds = 0]
(* ROLLBACK TO SAVEPOINT: the claim is undone, the reclaim before it stays. *)
RolledBack(w) ==
    [tx[w] EXCEPT !.writes = [r \in Ids |-> IF r = tx[w].id \/ @[r] = "rescheduled" THEN "none"
                                            ELSE @[r]],
                  !.won = {}, !.cand = {}, !.cap = FALSE, !.rounds = 0]
Refused(w, code) == [tx EXCEPT ![w] = [RolledBack(w) EXCEPT !.at = "commit", !.says = code]]

Tick ==
    /\ clock < MaxTime
    /\ clock' = clock + 1
    /\ UNCHANGED <<rows, tx, asked, verbs, faults>>

----------------------------------------------------------------------------
(* Transitions. *)

(* A transition, or a reschedule, begins by locking its reservation. *)
AskVerb(w, verb, r) ==
    /\ tx[w].at = "idle" /\ verbs < MaxVerbs /\ status[r] # "none"
    /\ verb = "release" <=> Kind[r] = "block"
    /\ tx' = [tx EXCEPT ![w] = [NoTx EXCEPT !.at = "lock", !.verb = verb, !.id = r]]
    /\ verbs' = verbs + 1
    /\ UNCHANGED <<clock, rows, asked, faults>>

LockReservation(w) ==
    /\ tx[w].at = "lock"
    /\ RowFree(w, Row(w))
    /\ tx' = [tx EXCEPT ![w].rows = {Row(w)}, ![w].at = "update"]
    /\ UNCHANGED <<clock, rows, asked, verbs, faults>>

(* The clock is read after the lock and judged again by the trigger: what   *)
(* the status or the clock forbids is refused, what is done is replayed.    *)
Legal(verb, r) ==
    /\ status[r] \in Rules[verb].from
    /\ verb = "confirm" => ~Elapsed(r)
TransitionReservation(w) ==
    LET t == tx[w] IN
    /\ t.at = "update" /\ t.verb \in DOMAIN Rules
    /\ tx' = IF Legal(t.verb, t.id)
             THEN [tx EXCEPT ![w].writes[t.id] = Rules[t.verb].to, ![w].at = "commit"]
             ELSE Ended(w)
    /\ UNCHANGED <<clock, rows, asked, verbs, faults>>

(* rescheduleReservation goes on to place the replacement. *)
RescheduleReservation(w) ==
    /\ tx[w].at = "update" /\ tx[w].verb = "place"
    /\ tx' = IF status[Row(w)] = "confirmed"
             THEN [tx EXCEPT ![w].at = "reclaim", ![w].due = ElapsedHolds] ELSE Ended(w)
    /\ UNCHANGED <<clock, rows, asked, verbs, faults>>

----------------------------------------------------------------------------
(* Placing a hold, a confirmed reservation, a replacement or a block. *)

Place(w, r) ==
    /\ tx[w].at = "idle" /\ r \notin asked
    /\ Kind[r] = "move" => status[Replaces[r]] # "none"
    /\ asked' = asked \cup {r}
    /\ tx' = [tx EXCEPT ![w] = [NoTx EXCEPT !.id = r, !.due = ElapsedHolds,
                                    !.at = IF Kind[r] = "move" THEN "lock" ELSE "reclaim"]]
    /\ UNCHANGED <<clock, rows, verbs, faults>>

(* Lazy reclaim: the elapsed holds in the way, in the order of their ids,   *)
(* each locked (a wait re-checks it) and then expired; until there is none. *)
(* Mutant: without the cursor a claim meets again what it has expired and   *)
(* not yet committed.                                                       *)
InTheWayAgain(w) ==
    {q \in Ids : Elapsed(q) /\ alloc[q] \cap Target[tx[w].id] # {} /\ Overlap(q, tx[w].id)}
InTheWay(w) ==
    {q \in Ids : /\ Elapsed(q) /\ q > tx[w].after
                 /\ alloc[q] \cap Target[tx[w].id] # {} /\ Overlap(q, tx[w].id)}
(* Mutants: the hold is expired without its row lock; a locked one is skipped. *)
ExpireUnlocked(w) ==
    /\ tx[w].at = "reclaim" /\ InTheWay(w) # {}
    /\ tx' = [tx EXCEPT ![w].writes[Least(InTheWay(w))] = "expired",
                        ![w].after = Least(InTheWay(w))]
    /\ UNCHANGED <<clock, rows, asked, verbs, faults>>
SkipLockedHold(w) ==
    LET q == Least(InTheWay(w)) IN
    /\ tx[w].at = "reclaim" /\ InTheWay(w) # {}
    /\ tx' = IF RowFree(w, q)
             THEN [tx EXCEPT ![w].rows = @ \cup {q}, ![w].after = q, ![w].at = "expire"]
             ELSE [tx EXCEPT ![w].after = q]
    /\ UNCHANGED <<clock, rows, asked, verbs, faults>>
LockElapsedHold(w) ==
    LET q == Least(InTheWay(w)) IN
    /\ tx[w].at = "reclaim" /\ InTheWay(w) # {}
    /\ RowFree(w, q)
    /\ tx' = [tx EXCEPT ![w].rows = @ \cup {q}, ![w].after = q, ![w].at = "expire"]
    /\ UNCHANGED <<clock, rows, asked, verbs, faults>>
ApplyExpiry(w) ==
    LET q == tx[w].after IN
    /\ tx[w].at = "expire"
    /\ tx' = [tx EXCEPT ![w].at = "reclaim",
                        ![w].writes[q] = IF Elapsed(q) THEN "expired" ELSE @]
    /\ UNCHANGED <<clock, rows, asked, verbs, faults>>
ReclaimEnds(w) ==
    /\ tx[w].at = "reclaim" /\ InTheWay(w) = {}
    /\ tx' = Step(w, "write")
    /\ UNCHANGED <<clock, rows, asked, verbs, faults>>

(* writeClaim, in a savepoint: the old reservation gives its units back     *)
(* first, then the new row. A block tries every unit it covers.             *)
Born(r) == CASE Kind[r] = "hold" -> "held" [] Kind[r] = "block" -> "blocked" [] OTHER -> "confirmed"
WriteClaim(w) ==
    LET r == tx[w].id
        old == IF Kind[r] = "move" THEN {Replaces[r]} ELSE {} IN
    /\ tx[w].at = "write"
    /\ tx' = [tx EXCEPT ![w].writes = [q \in Ids |-> IF q = r THEN Born(r)
                                                     ELSE IF q \in old THEN "rescheduled" ELSE @[q]],
                        ![w].expiry = clock + HoldTime,
                        ![w].cand = IF Kind[r] = "block" THEN Target[r] ELSE {},
                        ![w].at = IF Kind[r] = "block" THEN "claim" ELSE "read"]
    /\ UNCHANGED <<clock, rows, asked, verbs, faults>>

(* The free units of the committed state and of its own writes. *)
Blocking(r, u) == {q \in Ids : u \in alloc[q] /\ Overlap(q, r)}
FreeUnits(w) ==
    {u \in Target[tx[w].id] \ tx[w].won :
        \A q \in Blocking(tx[w].id, u) : tx[w].writes[q] \in Releasing}
ReadFreeUnits(w) ==
    /\ tx[w].at = "read"
    /\ tx' = IF FreeUnits(w) = {} THEN Refused(w, "unavailable")
             ELSE [tx EXCEPT ![w].cand = FreeUnits(w), ![w].rounds = @ + 1, ![w].at = "claim"]
    /\ UNCHANGED <<clock, rows, asked, verbs, faults>>

(* One INSERT ... ON CONFLICT DO NOTHING. A live row it conflicts with      *)
(* refuses it; one that another transaction has written or released must    *)
(* first be decided.                                                        *)
Try(w) == Least(tx[w].cand)
Released(q) == \E v \in Sessions : tx[v].writes[q] \in Releasing
Taken(w, u) == \E q \in Blocking(tx[w].id, u) : ~Released(q)
InDoubt(w, v, u) ==
    \/ u \in tx[v].won /\ Overlap(tx[v].id, tx[w].id)
    \/ \E q \in Blocking(tx[w].id, u) : tx[v].writes[q] \in Releasing
WinUnit(w) ==
    LET u == Try(w)
        r == tx[w].id
        won == tx[w].won \cup {u} IN
    /\ tx[w].at = "claim" /\ tx[w].cand # {}
    /\ ~Taken(w, u) /\ \A v \in Others(w) : ~InDoubt(w, v, u)
    /\ tx' = [tx EXCEPT ![w].won = won,
                        ![w].cand = IF Cardinality(won) = Quantity[r] THEN {} ELSE @ \ {u},
                        ![w].at = IF Cardinality(won) # Quantity[r] THEN "claim"
                                  ELSE IF Kind[r] = "hold" THEN "cap" ELSE "commit"]
    /\ UNCHANGED <<clock, rows, asked, verbs, faults>>
LoseUnit(w) ==
    /\ tx[w].at = "claim" /\ tx[w].cand # {}
    /\ Taken(w, Try(w))
    /\ tx' = IF Kind[tx[w].id] = "block" THEN Refused(w, "conflict")
             ELSE [tx EXCEPT ![w].cand = @ \ {Try(w)}]
    /\ UNCHANGED <<clock, rows, asked, verbs, faults>>

(* Mutant: a claim settles for the units it has won. *)
NextRoundSettles(w) ==
    /\ tx[w].at = "claim" /\ tx[w].cand = {}
    /\ tx' = IF tx[w].won # {} THEN Step(w, "commit") ELSE Step(w, "read")
    /\ UNCHANGED <<clock, rows, asked, verbs, faults>>
(* The candidates are used up: another round, or ContentionError. *)
NextRound(w) ==
    /\ tx[w].at = "claim" /\ tx[w].cand = {}
    /\ tx' = IF tx[w].rounds < MaxRounds THEN Step(w, "read") ELSE Refused(w, "contention")
    /\ UNCHANGED <<clock, rows, asked, verbs, faults>>

(* The tenant's advisory lock, and under it the count of live holds, this   *)
(* one included.                                                            *)
LiveHolds == {q \in Ids : status[q] = "held" /\ clock < expires[q]}
(* Mutant: the count is read without the lock. *)
CountHolds(w) ==
    LET mine == IF clock < tx[w].expiry THEN 1 ELSE 0 IN
    /\ tx[w].at = "cap"
    /\ tx' = IF Cardinality(LiveHolds) + mine > HoldCap THEN Refused(w, "limit")
             ELSE Step(w, "commit")
    /\ UNCHANGED <<clock, rows, asked, verbs, faults>>
EnforceHoldCaps(w) ==
    LET mine == IF clock < tx[w].expiry THEN 1 ELSE 0 IN
    /\ tx[w].at = "cap"
    /\ \A v \in Others(w) : ~tx[v].cap
    /\ tx' = IF Cardinality(LiveHolds) + mine > HoldCap THEN Refused(w, "limit")
             ELSE [tx EXCEPT ![w].cap = TRUE, ![w].at = "commit"]
    /\ UNCHANGED <<clock, rows, asked, verbs, faults>>

----------------------------------------------------------------------------
(* The reaper: one statement, SKIP LOCKED. *)
Reap(w) ==
    LET due == {q \in Ids : Elapsed(q) /\ \A v \in Sessions : q \notin tx[v].rows} IN
    /\ tx[w].at = "idle" /\ due # {}
    /\ tx' = [tx EXCEPT ![w] = [NoTx EXCEPT !.at = "commit", !.verb = "reap", !.rows = due,
                                    !.writes = [q \in Ids |-> IF q \in due THEN "expired" ELSE "none"]]]
    /\ UNCHANGED <<clock, rows, asked, verbs, faults>>

(* A transaction commits: a refused claim too, with what it reclaimed. *)
Commit(w) ==
    LET t == tx[w]
        new == IF t.verb = "place" /\ t.writes[t.id] # "none" THEN {t.id} ELSE {} IN
    /\ t.at = "commit"
    /\ status' = [q \in Ids |-> IF t.writes[q] # "none" THEN t.writes[q] ELSE status[q]]
    /\ expires' = [q \in Ids |-> IF q \in new THEN t.expiry ELSE expires[q]]
    /\ alloc' = [q \in Ids |-> IF q \in new THEN t.won
                               ELSE IF t.writes[q] \in Releasing THEN {} ELSE alloc[q]]
    /\ tx' = Ended(w)
    /\ UNCHANGED <<clock, asked, verbs, faults>>

(* It fails, and rolls back. *)
Abandon(w) ==
    /\ tx[w].at # "idle" /\ faults < MaxFaults
    /\ faults' = faults + 1
    /\ tx' = Ended(w)
    /\ UNCHANGED <<clock, rows, asked, verbs>>

(* Who waits for whom, and PostgreSQL's choice of a victim. A claim backs   *)
(* out to its savepoint and tries again, a bounded number of times; in a    *)
(* reclaim, or at a first lock, the transaction fails.                      *)
Waits(v, w) ==
    \/ tx[v].at = "lock" /\ Row(v) \in tx[w].rows
    \/ tx[v].at = "reclaim" /\ InTheWay(v) # {} /\ Least(InTheWay(v)) \in tx[w].rows
    \/ /\ tx[v].at = "claim" /\ tx[v].cand # {}
       /\ ~Taken(v, Try(v)) /\ InDoubt(v, w, Try(v))
    \/ tx[v].at = "cap" /\ tx[w].cap
Deadlocked(w) ==   \* it is among those it waits for, and those they wait for, and so on
    \A S \in SUBSET Sessions :
        (\A v \in S \cup {w} : \A u \in Sessions : v # u /\ Waits(v, u) => u \in S) => w \in S
BreakDeadlock(w) ==
    /\ Deadlocked(w)
    /\ tx' = IF tx[w].at \in {"lock", "reclaim"} THEN Ended(w)
             ELSE IF tx[w].tries = MaxRetries THEN Refused(w, "contention")
             ELSE [tx EXCEPT ![w] = [RolledBack(w) EXCEPT !.at = "write", !.tries = @ + 1]]
    /\ UNCHANGED <<clock, rows, asked, verbs, faults>>

----------------------------------------------------------------------------
Transition(w) == LockReservation(w) \/ TransitionReservation(w) \/ RescheduleReservation(w)
Reclaim(w) == LockElapsedHold(w) \/ ApplyExpiry(w) \/ ReclaimEnds(w)
Claim(w) ==
    \/ WriteClaim(w) \/ ReadFreeUnits(w) \/ WinUnit(w) \/ LoseUnit(w) \/ NextRound(w)
    \/ EnforceHoldCaps(w)
Work(w) == Transition(w) \/ Reclaim(w) \/ Claim(w) \/ Commit(w) \/ BreakDeadlock(w)

Next ==
    \/ Tick
    \/ \E w \in Sessions :
        \/ \E r \in Ids : Place(w, r) \/ \E verb \in Verbs : AskVerb(w, verb, r)
        \/ Work(w) \/ Reap(w) \/ Abandon(w)

(* A transaction goes on unless it must wait. *)
Fairness == \A w \in Sessions : WF_vars(Work(w))

Spec == Init /\ [][Next]_vars
FairSpec == Spec /\ Fairness

----------------------------------------------------------------------------
(* Properties. *)

(* What occupies the resource holds all the units it asked for, for all its *)
(* nights and alone; what has ended, or was refused, holds none.            *)
WholeOrNothing ==
    /\ \A r \in Ids : IF status[r] \in Occupying THEN Cardinality(alloc[r]) = Quantity[r]
                      ELSE alloc[r] = {}
    /\ \A q, r \in Ids : q # r /\ Overlap(q, r) => alloc[q] \cap alloc[r] = {}

(* Of a confirm, a cancel, the reaper and the reclaims of two claims, one   *)
(* settles a hold and the others find it settled; only an elapsed hold      *)
(* expires, and what is settled stays.                                      *)
LegalChanges ==
    {<<"none", "held">>, <<"none", "confirmed">>, <<"none", "blocked">>,
     <<"held", "expired">>, <<"confirmed", "rescheduled">>}
        \cup UNION {Rules[v].from \X {Rules[v].to} : v \in DOMAIN Rules}
VerdictStands ==
    [][\A r \in Ids : status'[r] # status[r] =>
        /\ <<status[r], status'[r]>> \in LegalChanges
        /\ status'[r] = "expired" => expires[r] <= clock]_vars

(* The tenant never has more live holds than its cap. *)
CapHonoured == Cardinality(LiveHolds) <= HoldCap

(* A reservation is rescheduled if and only if one replacement stands in    *)
(* its place: a refused move leaves the original as it was.                 *)
OneOfLineage ==
    \A old \in Ids : status[old] = "rescheduled" <=>
        Cardinality({r \in Ids : Kind[r] = "move" /\ Replaces[r] = old /\ status[r] # "none"}) = 1

(* A claim is told that nothing is free only when too few units are free of *)
(* what is live: a hold that had elapsed when the reclaim began, and was    *)
(* not just being confirmed, does not refuse it, reaper or no reaper.       *)
ElapsedRefusesNobody ==
    [][\A w \in Sessions : tx[w].says = "" /\ tx'[w].says \in {"unavailable", "conflict"} =>
        Cardinality({u \in Target[tx[w].id] :
            \A q \in Blocking(tx[w].id, u) :
                (q \in tx[w].due /\ status[q] = "held") \/ tx[w].writes[q] \in Releasing})
            < Quantity[tx[w].id]]_vars

(* Every transaction ends: a claim in a deadlock is retried, and at last    *)
(* refused.                                                                 *)
EveryTransactionEnds == \A w \in Sessions : tx[w].at # "idle" ~> tx[w].at = "idle"
=============================================================================
