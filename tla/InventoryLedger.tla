--------------------------- MODULE InventoryLedger ---------------------------
(***************************************************************************)
(* The stock ledger of the inventory module: transactions that post the    *)
(* lines of a document (a movement of one leg, a transfer of two), and the *)
(* rebuild that repairs balances from the movements.                       *)
(*                                                                         *)
(* A transaction takes its locks one at a time: the advisory lock of each  *)
(* line's source identity, the locations FOR SHARE, the balance rows FOR   *)
(* UPDATE; it keeps them to its end, and what it writes is applied there.  *)
(* Location and item ids are numbers, in the order the code compares them. *)
(***************************************************************************)
EXTENDS Integers, FiniteSets

CONSTANTS Locations, Items,
          Requests,     \* the documents a client may post
          Sources,      \* the source identities they name
          Source,       \* [Requests -> Sources]
          Kind,         \* [Requests -> {"opening", "movement", "reversal"}]
          Target,       \* the request a reversal compensates
          Delta,        \* [Requests -> [Keys -> Int]]: the legs; 0 is no leg
          Workers,      \* transactions at work
          Limit,        \* numeric(20,6)'s limit
          Thresholds,   \* thresholds an operator may set
          Watched,      \* the balances they are set on
          NoThreshold,
          MaxOutside    \* bound on changes of settings and drifts together

Keys == Locations \X Items

ASSUME IdAssumption ==
    /\ Locations \subseteq Int /\ Items \subseteq Int
    /\ IsFiniteSet(Locations) /\ IsFiniteSet(Items) /\ IsFiniteSet(Requests)
    /\ Items # {} /\ Requests # {}
ASSUME RequestAssumption ==
    /\ Source \in [Requests -> Sources]
    /\ Kind \in [Requests -> {"opening", "movement", "reversal"}]
    /\ Target \in [Requests -> Requests]
    /\ Delta \in [Requests -> [Keys -> Int]]
ASSUME LimitAssumption ==
    /\ Limit \in Nat \ {0} /\ Thresholds \subseteq Nat /\ Watched \subseteq Keys
    /\ NoThreshold \notin Nat /\ MaxOutside \in Nat

VARIABLES balance,    \* on_hand of each balance
          moves,      \* its movement_count
          ledger,     \* the lines posted: <<request, item>>
          threshold,  \* low_stock_threshold
          lows,       \* "below" signals less "recovered" signals
          location,   \* status and negative_stock_policy of each location
          tenant,     \* the tenant's default policy; "lenient" once it was allow
          tx,         \* the transactions
          drift,      \* what was added to a balance behind the ledger's back
          changes, drifts  \* how many changes of settings, and drifts, so far

stock == <<balance, moves, ledger, lows, drift>>
settings == <<threshold, location, tenant, changes>>
vars == <<balance, moves, ledger, threshold, lows, location, tenant, tx, drift, changes, drifts>>

ItemsOf(r) == {i \in Items : \E l \in Locations : Delta[r][<<l, i>>] # 0}
Legs(r, i) == {k \in Keys : k[2] = i /\ Delta[r][k] # 0}
Ids == Sources \X Items

TxRecords == [at : {"idle", "source", "locations", "balances", "write", "commit", "rebuild"},
              req : Requests, item : Items,
              ids : SUBSET Ids, shares : SUBSET Locations, held : SUBSET Keys,
              allow : SUBSET Locations, wasLow : SUBSET Keys, written : SUBSET Items,
              todo : SUBSET Keys, sum : [Keys -> Int]]

(* The records keep their types. *)
TypeOK ==
    /\ balance \in [Keys -> Int] /\ moves \in [Keys -> Nat] /\ drift \in [Keys -> Int]
    /\ ledger \subseteq Requests \X Items
    /\ threshold \in [Keys -> Thresholds \cup {NoThreshold}]
    /\ lows \in [Keys -> Int]
    /\ location \in [Locations -> [status : {"active", "inactive"},
                                   policy : {"forbid", "allow", "inherit"}]]
    /\ tenant \in [policy : {"forbid", "allow"}, lenient : BOOLEAN]
    /\ tx \in [Workers -> TxRecords]
    /\ changes \in Nat /\ drifts \in Nat

NoTx == [at |-> "idle", req |-> CHOOSE r \in Requests : TRUE, item |-> CHOOSE i \in Items : TRUE,
         ids |-> {}, shares |-> {}, held |-> {}, allow |-> {}, wasLow |-> {}, written |-> {},
         todo |-> {}, sum |-> [k \in Keys |-> 0]]

Init ==
    /\ balance = [k \in Keys |-> 0] /\ moves = [k \in Keys |-> 0]
    /\ drift = [k \in Keys |-> 0]
    /\ ledger = {}
    /\ threshold = [k \in Keys |-> NoThreshold] /\ lows = [k \in Keys |-> 0]
    /\ location = [l \in Locations |-> [status |-> "active", policy |-> "inherit"]]
    /\ \E p \in {"forbid", "allow"} : tenant = [policy |-> p, lenient |-> p = "allow"]
    /\ tx = [w \in Workers |-> NoTx]
    /\ changes = 0 /\ drifts = 0

----------------------------------------------------------------------------
Others(w) == Workers \ {w}
IdFree(w, id) == \A v \in Others(w) : id \notin tx[v].ids
RowFree(w, k) == \A v \in Others(w) : k \notin tx[v].held
Unlocked(k) == \A v \in Workers : k \notin tx[v].held

IsLow(k, b) == threshold[k] # NoThreshold /\ b[k] <= threshold[k]

(* The movements of a balance, and their sum. *)
Posted(k) == {r \in Requests : <<r, k[2]>> \in ledger /\ Delta[r][k] # 0}
Pick(R) == CHOOSE r \in R : TRUE
Sums(k) ==
    LET sum[R \in SUBSET Requests] ==
            IF R = {} THEN 0 ELSE Delta[Pick(R)][k] + sum[R \ {Pick(R)}]
    IN sum
LedgerSum(k) == Sums(k)[Posted(k)]

Least(S) == CHOOSE n \in S : \A m \in S : n <= m

(* The transaction ends and lets its locks go. *)
Ended(w) == [tx EXCEPT ![w] = NoTx]

(* The lines are posted in item order; after the last one it commits. *)
ItemsLeft(w) == {i \in ItemsOf(tx[w].req) : i > tx[w].item}
NextLine(w) ==
    IF ItemsLeft(w) = {} THEN [tx[w] EXCEPT !.at = "commit"]
    ELSE [tx[w] EXCEPT !.at = "source", !.item = Least(ItemsLeft(w))]

(* Of the signals between a balance as it was locked and as it is left. *)
Signalled(w, k, b) ==
    (IF IsLow(k, b) THEN 1 ELSE 0) - (IF k \in tx[w].wasLow THEN 1 ELSE 0)

----------------------------------------------------------------------------
(* Posting a document. *)

(* A reversal is refused until its target is in the ledger. *)
Begin(w, r) ==
    /\ tx[w].at = "idle"
    /\ ItemsOf(r) # {}
    /\ Kind[r] = "reversal" => \A i \in ItemsOf(Target[r]) : <<Target[r], i>> \in ledger
    /\ tx' = [tx EXCEPT ![w].at = "source", ![w].req = r, ![w].item = Least(ItemsOf(r))]
    /\ UNCHANGED <<stock, settings, drifts>>

(* The advisory lock of the source identity, and under it the lookup: the   *)
(* line is new, or replayed, or another request holds the identity.         *)
LockSource(w) ==
    LET r == tx[w].req
        id == <<Source[r], tx[w].item>>
        same == {q \in Requests : Source[q] = Source[r] /\ <<q, tx[w].item>> \in ledger} IN
    /\ tx[w].at = "source"
    /\ IdFree(w, id)
    /\ \/ /\ same = {}
          /\ tx' = [tx EXCEPT ![w].at = "locations", ![w].ids = @ \cup {id}]
       \/ same = {r} /\ tx' = [tx EXCEPT ![w] = [NextLine(w) EXCEPT !.ids = @ \cup {id}]]
       \/ same \notin {{}, {r}} /\ tx' = Ended(w)
    /\ UNCHANGED <<stock, settings, drifts>>

(* The locations FOR SHARE, their policies and the tenant's. No setting of  *)
(* a location changes while it is shared; the tenant's row is only read. An *)
(* early refusal is one more Abandon.                                       *)
AllowsNegative(l) ==
    \/ location[l].policy = "allow"
    \/ location[l].policy = "inherit" /\ tenant.policy = "allow"
(* Mutant: the locations are read without FOR SHARE. *)
ReadLocationsUnshared(w) ==
    LET ls == {k[1] : k \in Legs(tx[w].req, tx[w].item)} IN
    /\ tx[w].at = "locations"
    /\ \A l \in ls : location[l].status = "active"
    /\ tx' = [tx EXCEPT ![w].at = "balances",
                        ![w].allow = (@ \ ls) \cup {l \in ls : AllowsNegative(l)}]
    /\ UNCHANGED <<stock, settings, drifts>>
ReadLocations(w) ==
    LET ls == {k[1] : k \in Legs(tx[w].req, tx[w].item)} IN
    /\ tx[w].at = "locations"
    /\ \/ /\ \A l \in ls : location[l].status = "active"
          /\ tx' = [tx EXCEPT ![w].at = "balances", ![w].shares = @ \cup ls,
                              ![w].allow = (@ \ ls) \cup {l \in ls : AllowsNegative(l)}]
       \/ /\ \E l \in ls : location[l].status = "inactive"
          /\ tx' = Ended(w)
    /\ UNCHANGED <<stock, settings, drifts>>

(* The balance rows of the line FOR UPDATE, in the order of their locations. *)
RowsLeft(w) == Legs(tx[w].req, tx[w].item) \ tx[w].held
(* Mutant: the rows of a transfer are locked as its legs are given: from, to. *)
NextLeg(w) ==
    IF tx[w].at = "balances"
    THEN IF \E k \in RowsLeft(w) : Delta[tx[w].req][k] < 0
         THEN CHOOSE k \in RowsLeft(w) : Delta[tx[w].req][k] < 0
         ELSE CHOOSE k \in RowsLeft(w) : TRUE
    ELSE CHOOSE k \in tx[w].todo : TRUE
NextRow(w) ==
    IF tx[w].at = "balances" THEN <<Least({k[1] : k \in RowsLeft(w)}), tx[w].item>>
    ELSE LET l == Least({k[1] : k \in tx[w].todo}) IN
         <<l, Least({k[2] : k \in {j \in tx[w].todo : j[1] = l}})>>
LockBalance(w) ==
    LET k == NextRow(w) IN
    /\ tx[w].at = "balances"
    /\ RowFree(w, k)
    /\ tx' = [tx EXCEPT ![w].held = @ \cup {k},
                        ![w].wasLow = IF IsLow(k, balance) THEN @ \cup {k} ELSE @ \ {k},
                        ![w].at = IF RowsLeft(w) = {k} THEN "write" ELSE "balances"]
    /\ UNCHANGED <<stock, settings, drifts>>

(* Every leg is checked against the locked rows before any is written. A    *)
(* refusal rolls back to the savepoint around the document's lines.         *)
Accepts(w, k) ==
    LET after == balance[k] + Delta[tx[w].req][k] IN
    /\ Kind[tx[w].req] = "opening" => moves[k] = 0
    /\ after < Limit /\ after > -Limit
    /\ Delta[tx[w].req][k] < 0 /\ k[1] \notin tx[w].allow => after >= 0
Post(w) ==
    /\ tx[w].at = "write"
    /\ \A k \in Legs(tx[w].req, tx[w].item) : Accepts(w, k)
    /\ tx' = [tx EXCEPT ![w] = [NextLine(w) EXCEPT !.written = @ \cup {tx[w].item}]]
    /\ UNCHANGED <<stock, settings, drifts>>
(* Mutant: the refusal is answered, and what was posted before it commits. *)
RefuseLine(w) ==
    /\ tx[w].at = "write"
    /\ \E k \in Legs(tx[w].req, tx[w].item) : ~Accepts(w, k)
    /\ tx' = [tx EXCEPT ![w].at = "commit"]
    /\ UNCHANGED <<stock, settings, drifts>>
Refuse(w) ==
    /\ tx[w].at = "write"
    /\ \E k \in Legs(tx[w].req, tx[w].item) : ~Accepts(w, k)
    /\ tx' = Ended(w)
    /\ UNCHANGED <<stock, settings, drifts>>

(* The UPDATEs of the balances, the movements and the signals. *)
WrittenLegs(w) == UNION {Legs(tx[w].req, i) : i \in tx[w].written}
Commit(w) ==
    LET r == tx[w].req
        after == [k \in Keys |-> balance[k] + IF k \in WrittenLegs(w) THEN Delta[r][k] ELSE 0] IN
    /\ tx[w].at = "commit"
    /\ balance' = after
    /\ moves' = [k \in Keys |-> moves[k] + IF k \in WrittenLegs(w) THEN 1 ELSE 0]
    /\ ledger' = ledger \cup {<<r, i>> : i \in tx[w].written}
    /\ lows' = [k \in Keys |-> lows[k] + IF k \in WrittenLegs(w) THEN Signalled(w, k, after) ELSE 0]
    /\ tx' = Ended(w)
    /\ UNCHANGED <<settings, drift, drifts>>

(* The transaction fails, is refused early, or is a deadlock's victim. *)
Abandon(w) ==
    /\ tx[w].at # "idle"
    /\ tx' = Ended(w)
    /\ UNCHANGED <<stock, settings, drifts>>

----------------------------------------------------------------------------
(* Rebuilding balances. *)

Drifted == {k \in Keys : balance[k] # LedgerSum(k) \/ moves[k] # Cardinality(Posted(k))}

(* findDrift: one statement, one snapshot. *)
StartRebuild(w) ==
    /\ tx[w].at = "idle" /\ Drifted # {}
    /\ tx' = [tx EXCEPT ![w].at = "rebuild", ![w].todo = Drifted]
    /\ UNCHANGED <<stock, settings, drifts>>

(* Each drifted row is locked, in the order of location and then item, and  *)
(* only then is its sum computed.                                           *)
(* Mutant: the sum is computed without waiting for the row. *)
RebuildRowFirst(w) ==
    LET k == NextRow(w) IN
    /\ tx[w].at = "rebuild" /\ tx[w].todo # {}
    /\ tx' = [tx EXCEPT ![w].held = @ \cup {k}, ![w].todo = @ \ {k},
                        ![w].wasLow = IF IsLow(k, balance) THEN @ \cup {k} ELSE @,
                        ![w].sum[k] = LedgerSum(k)]
    /\ UNCHANGED <<stock, settings, drifts>>
RebuildRow(w) ==
    LET k == NextRow(w) IN
    /\ tx[w].at = "rebuild" /\ tx[w].todo # {}
    /\ RowFree(w, k)
    /\ tx' = [tx EXCEPT ![w].held = @ \cup {k}, ![w].todo = @ \ {k},
                        ![w].wasLow = IF IsLow(k, balance) THEN @ \cup {k} ELSE @,
                        ![w].sum[k] = LedgerSum(k)]
    /\ UNCHANGED <<stock, settings, drifts>>

CommitRebuild(w) ==
    LET after == [k \in Keys |-> IF k \in tx[w].held THEN tx[w].sum[k] ELSE balance[k]] IN
    /\ tx[w].at = "rebuild" /\ tx[w].todo = {}
    /\ balance' = after
    /\ moves' = [k \in Keys |-> IF k \in tx[w].held THEN Cardinality(Posted(k)) ELSE moves[k]]
    /\ lows' = [k \in Keys |-> lows[k] + IF k \in tx[w].held THEN Signalled(w, k, after) ELSE 0]
    /\ drift' = [k \in Keys |-> IF k \in tx[w].held THEN 0 ELSE drift[k]]
    /\ tx' = Ended(w)
    /\ UNCHANGED <<ledger, settings, drifts>>

(* Something outside the code changes a balance. *)
Drift(k) ==
    /\ changes + drifts < MaxOutside
    /\ Unlocked(k)
    /\ balance' = [balance EXCEPT ![k] = @ + 1]
    /\ drift' = [drift EXCEPT ![k] = @ + 1]
    /\ drifts' = drifts + 1
    /\ UNCHANGED <<moves, ledger, lows, tx, settings>>

----------------------------------------------------------------------------
(* The settings, each a transaction of one row. *)

Changed == changes + drifts < MaxOutside /\ changes' = changes + 1

(* updateLocation waits for the postings that share the location. A patch   *)
(* without a status writes back the one it read earlier: either is written. *)
SetStatus(l, s) ==
    /\ Changed
    /\ \A v \in Workers : l \notin tx[v].shares
    /\ location' = [location EXCEPT ![l].status = s]
    /\ UNCHANGED <<stock, threshold, tenant, tx, drifts>>
SetLocationPolicy(l, p) ==
    /\ Changed
    /\ \A v \in Workers : l \notin tx[v].shares
    /\ location' = [location EXCEPT ![l].policy = p]
    /\ UNCHANGED <<stock, threshold, tenant, tx, drifts>>

SetTenantPolicy(p) ==
    /\ Changed
    /\ tenant' = [policy |-> p, lenient |-> tenant.lenient \/ p = "allow"]
    /\ UNCHANGED <<stock, threshold, location, tx, drifts>>

(* Mutant: the balance and its threshold are read without FOR UPDATE. *)
SetThresholdUnlocked(k, t) ==
    /\ Changed
    /\ threshold' = [threshold EXCEPT ![k] = t]
    /\ lows' = [lows EXCEPT ![k] = @ + (IF t # NoThreshold /\ balance[k] <= t THEN 1 ELSE 0)
                                     - (IF IsLow(k, balance) THEN 1 ELSE 0)]
    /\ UNCHANGED <<balance, moves, ledger, drift, location, tenant, tx, drifts>>
(* setLowStockThreshold locks the row and signals the crossing. *)
SetThreshold(k, t) ==
    /\ Changed
    /\ Unlocked(k)
    /\ threshold' = [threshold EXCEPT ![k] = t]
    /\ lows' = [lows EXCEPT ![k] = @ + (IF t # NoThreshold /\ balance[k] <= t THEN 1 ELSE 0)
                                     - (IF IsLow(k, balance) THEN 1 ELSE 0)]
    /\ UNCHANGED <<balance, moves, ledger, drift, location, tenant, tx, drifts>>

----------------------------------------------------------------------------
Posting(w) ==
    \/ LockSource(w) \/ ReadLocations(w) \/ LockBalance(w) \/ Post(w) \/ Refuse(w) \/ Commit(w)
Rebuilding(w) == StartRebuild(w) \/ RebuildRow(w) \/ CommitRebuild(w)
Settings ==
    \/ \E l \in Locations :
        \/ \E s \in {"active", "inactive"} : SetStatus(l, s)
        \/ \E p \in {"forbid", "allow", "inherit"} : SetLocationPolicy(l, p)
    \/ \E p \in {"forbid", "allow"} : SetTenantPolicy(p)
    \/ \E k \in Watched, t \in Thresholds \cup {NoThreshold} : SetThreshold(k, t)

Next ==
    \/ \E w \in Workers :
        \/ \E r \in Requests : Begin(w, r)
        \/ Posting(w) \/ Rebuilding(w) \/ Abandon(w)
    \/ Settings \/ \E k \in Keys : Drift(k)

Spec == Init /\ [][Next]_vars

----------------------------------------------------------------------------
(* Properties. *)

(* A balance is the sum of its movements, and counts them, but for what was *)
(* added behind the ledger's back and not rebuilt: no posting is lost under *)
(* a rebuild, and none is applied twice.                                    *)
BalanceFollowsLedger ==
    \A k \in Keys : /\ balance[k] = LedgerSum(k) + drift[k]
                    /\ moves[k] = Cardinality(Posted(k))

(* A document is in the ledger with all its lines or with none. *)
AllLinesOrNone ==
    \A r \in Requests : \A i, j \in ItemsOf(r) : <<r, i>> \in ledger => <<r, j>> \in ledger

(* A posting commits only at locations that are active at that moment, and  *)
(* leaves a withdrawal's balance below zero only where the location's own   *)
(* policy allows it at that moment, or the tenant's has allowed it once:    *)
(* the tenant's row is read without a lock.                                 *)
MayGoNegative(l) ==
    \/ location[l].policy = "allow"
    \/ location[l].policy = "inherit" /\ tenant.lenient
SettingsBindPostings ==
    [][\A k \in Keys : Posted(k)' # Posted(k) =>
        /\ location[k[1]].status = "active"
        /\ balance'[k] < balance[k] /\ balance'[k] < 0 => MayGoNegative(k[1])]_vars

(* "below" less "recovered" signals is what the low-stock projection counts *)
(* as low: it agrees with the balances that were never touched by drift.    *)
LowCountersAgree ==
    drifts = 0 => \A k \in Keys : lows[k] = IF IsLow(k, balance) THEN 1 ELSE 0

(* Who waits for a lock that another holds. *)
Waits(v, w) ==
    \/ /\ tx[v].at = "source"
       /\ <<Source[tx[v].req], tx[v].item>> \in tx[w].ids
    \/ tx[v].at = "balances" /\ NextRow(v) \in tx[w].held
    \/ tx[v].at = "rebuild" /\ tx[v].todo # {} /\ NextRow(v) \in tx[w].held
(* Each transaction of D waits for another one of D. *)
Deadlocked(D) == D # {} /\ \A v \in D : \E w \in D \ {v} : Waits(v, w)

(* Documents never wait for each other in a circle, whatever lines and legs *)
(* they share: the order of items, and of locations within an item, is one. *)
PostingsNeverDeadlock ==
    \A D \in SUBSET {w \in Workers : tx[w].at # "rebuild"} : ~Deadlocked(D)
=============================================================================
