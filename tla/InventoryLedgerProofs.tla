----------------------- MODULE InventoryLedgerProofs -----------------------
(***************************************************************************)
(* Safety of the stock ledger for any locations, items, documents, legs    *)
(* and workers: types, whole documents, settings, low-stock signals, and   *)
(* the absence of deadlocks among documents.  The invariant says what a    *)
(* transaction x that is under way may look like: what it has locked, in   *)
(* which order, and what it may rely on while it holds these locks.        *)
(***************************************************************************)
EXTENDS InventoryLedger, FiniteSetTheorems, TLAPS

Posts(x) == x.at \notin {"idle", "rebuild"}
Rows(x) == Legs(x.req, x.item)
WLegs(x) == UNION {Legs(x.req, i) : i \in x.written}

(* What is written is locked, and its locations are shared. *)
Shape(x) ==
    /\ x.at = "idle" => x = NoTx
    /\ x.at = "rebuild" => x.written = {} /\ x.shares = {}
    /\ Posts(x) => x.item \in ItemsOf(x.req) /\ x.written \subseteq ItemsOf(x.req)
    /\ x.at = "write" => Rows(x) \subseteq x.held
    /\ x.at \in {"balances", "write"} => \A k \in Rows(x) : k[1] \in x.shares
    /\ \A k \in WLegs(x) : k \in x.held /\ k[1] \in x.shares

(* Locks are taken in the order of items, and of locations within an item. *)
LockOrder(x) ==
    /\ Posts(x) => /\ \A id \in x.ids : id[2] <= x.item
                   /\ \A k \in x.held : k[2] <= x.item
    /\ x.at = "source" => \A id \in x.ids : id[2] < x.item
    /\ x.at \in {"source", "locations"} => \A k \in x.held : k[2] < x.item
    /\ x.at = "balances" =>
        /\ Rows(x) \ x.held # {}
        /\ \A k \in x.held, j \in Rows(x) \ x.held : k[2] = x.item => k[1] < j[1]

(* The lines behind the present one are written, or were before. *)
Whole(x) ==
    Posts(x) => \A j \in ItemsOf(x.req) :
                    j < x.item \/ x.at = "commit" => j \in x.written \/ <<x.req, j>> \in ledger

(* What was checked under a lock still holds. *)
Backed(x) ==
    /\ \A l \in x.shares : location[l].status = "active"
    /\ x.at \in {"balances", "write"} =>
        \A k \in Rows(x) : k[1] \in x.allow => MayGoNegative(k[1])
    /\ \A k \in WLegs(x) : Delta[x.req][k] < 0 =>
        balance[k] + Delta[x.req][k] >= 0 \/ MayGoNegative(k[1])
    /\ x.wasLow = {k \in x.held : IsLow(k, balance)}

(* A line that is not in the ledger yet is posted under its identity's lock. *)
Claimed(x) ==
    /\ \A i \in x.written : <<Source[x.req], i>> \in x.ids /\ <<x.req, i>> \notin ledger
    /\ x.at \in {"locations", "balances", "write"} =>
        <<Source[x.req], x.item>> \in x.ids /\ <<x.req, x.item>> \notin ledger

(* The sum of a row that a rebuild has locked stays true. *)
Summed(x) == x.at = "rebuild" => \A k \in x.held : x.sum[k] = LedgerSum(k)

TxInv(x) == Shape(x) /\ LockOrder(x) /\ Whole(x) /\ Backed(x) /\ Claimed(x) /\ Summed(x)
Exclusive ==
    \A v, w \in Workers :
        v # w => tx[v].held \cap tx[w].held = {} /\ tx[v].ids \cap tx[w].ids = {}
Lenient == tenant.policy = "allow" => tenant.lenient

IInv ==
    /\ TypeOK
    /\ \A w \in Workers : TxInv(tx[w])
    /\ Exclusive /\ Lenient /\ BalanceFollowsLedger /\ LowCountersAgree /\ AllLinesOrNone

----------------------------------------------------------------------------
(* A finite set of integers has a least element. *)
LEMMA HasLeast ==
    ASSUME NEW S, S \subseteq Int, IsFiniteSet(S), S # {}
    PROVE  \E m \in S : \A n \in S : m <= n
<1> DEFINE Upto(m) == {n \in S : n <= m}
          R == StrictSubsetOrdering(S)
          T == {Upto(m) : m \in S}
<1>1. IsWellFoundedOn(R, FiniteSubsetsOf(S))
  BY FS_StrictSubsetOrderingWellFounded
<1>2. FiniteSubsetsOf(S) = SUBSET S  BY FS_FiniteSubsetsOfFinite
<1>3. T \subseteq SUBSET S /\ T # {}  OBVIOUS
<1>4. PICK X \in T : \A Y \in T : ~(<<Y, X>> \in R)
  <2>1. T \subseteq FiniteSubsetsOf(S)  BY <1>2, <1>3
  <2> HIDE DEF T, R
  <2> QED BY <2>1, <1>1, <1>3, WFMin, Zenon
<1>5. PICK m \in S : X = Upto(m)  BY <1>4
<1>6. ASSUME NEW n \in S, ~(m <= n) PROVE FALSE
  <2>1. n < m /\ n \in Int /\ m \in Int  BY <1>6
  <2>2. ASSUME NEW k \in Upto(n) PROVE k \in Upto(m)
    <3>1. k \in Int /\ k \in S /\ k <= n  OBVIOUS
    <3> QED BY <3>1, <2>1
  <2>3. m \in Upto(m) /\ m \notin Upto(n)  BY <2>1
  <2>4. Upto(n) \in T OBVIOUS
  <2>5. <<Upto(n), Upto(m)>> \in (SUBSET S) \X (SUBSET S) OBVIOUS
  <2>6. <<Upto(n), Upto(m)>> \in R  
    <3> HIDE DEF Upto
    <3> QED BY <2>2, <2>3, <2>5 DEF StrictSubsetOrdering
  <2> QED BY <2>4, <2>6, <1>4, <1>5
<1> QED BY <1>6

(* ... so the code's order of items, and of locations, is one of its own.   *)
LEMMA LeastIn ==
    ASSUME NEW S, S # {}, S \subseteq Items \/ S \subseteq Locations
    PROVE  Least(S) \in S /\ \A n \in S : Least(S) <= n
<1>1. S \subseteq Int /\ IsFiniteSet(S)  BY IdAssumption, FS_Subset
<1>2. \E m \in S : \A n \in S : m <= n  BY <1>1, HasLeast
<1> QED BY <1>2 DEF Least

LEMMA LegFacts ==
    ASSUME NEW r \in Requests, NEW i \in Items
    PROVE  /\ Legs(r, i) \subseteq Keys
           /\ \A k \in Legs(r, i) :
                /\ k[1] \in Locations /\ k[2] = i /\ k = <<k[1], i>>
                /\ Delta[r][k] \in Int /\ Delta[r][k] # 0
           /\ i \in ItemsOf(r) => Legs(r, i) # {}
<1>1. Legs(r, i) \subseteq Keys  BY DEF Legs
<1>2. ASSUME NEW k \in Legs(r, i)
      PROVE  /\ k[1] \in Locations /\ k[2] = i /\ k = <<k[1], i>>
             /\ Delta[r][k] \in Int /\ Delta[r][k] # 0
  <2>1. k \in Locations \X Items /\ k[2] = i /\ Delta[r][k] # 0  BY <1>2 DEF Legs, Keys
  <2>2. Delta[r] \in [Keys -> Int]  BY RequestAssumption
  <2> QED BY <2>1, <2>2 DEF Keys
<1>3. ASSUME i \in ItemsOf(r) PROVE Legs(r, i) # {}
  <2>1. PICK l \in Locations : Delta[r][<<l, i>>] # 0  BY <1>3 DEF ItemsOf
  <2>2. <<l, i>> \in Legs(r, i)  BY <2>1 DEF Legs, Keys
  <2> QED BY <2>2
<1> QED BY <1>1, <1>2, <1>3

(* The next row of a posting is one it lacks, the first by location. *)
LEMMA NextRowOfPosting ==
    ASSUME NEW w \in Workers, tx[w].at = "balances", tx[w].req \in Requests,
           tx[w].item \in Items, RowsLeft(w) # {}
    PROVE  NextRow(w) \in RowsLeft(w) /\ \A k \in RowsLeft(w) : NextRow(w)[1] <= k[1]
<1> DEFINE L == {k[1] : k \in RowsLeft(w)}
<1>1. \A k \in RowsLeft(w) : k[1] \in Locations /\ k = <<k[1], tx[w].item>>
  BY LegFacts DEF RowsLeft
<1>2. L \subseteq Locations /\ L # {}  BY <1>1
<1>3. Least(L) \in L /\ \A n \in L : Least(L) <= n
  <2> HIDE DEF L
  <2> QED BY <1>2, LeastIn
<1>4. NextRow(w) = <<Least(L), tx[w].item>>  BY DEF NextRow
<1>5. PICK k \in RowsLeft(w) : k[1] = Least(L)  BY <1>3
<1>6. NextRow(w) = k  BY <1>1, <1>4, <1>5
<1> QED BY <1>3, <1>5, <1>6

LEMMA NextRowOfRebuild ==
    ASSUME NEW w \in Workers, tx[w].at = "rebuild", tx[w].todo \subseteq Keys, tx[w].todo # {}
    PROVE  NextRow(w) \in tx[w].todo
<1> DEFINE L == {k[1] : k \in tx[w].todo}
           l == Least(L)
           I == {k[2] : k \in {j \in tx[w].todo : j[1] = l}}
<1>1. L \subseteq Locations /\ L # {}  BY DEF Keys
<1>2. l \in L
  <2> HIDE DEF L
  <2> QED BY <1>1, LeastIn
<1> HIDE DEF l
<1>3. I \subseteq Items /\ I # {}  BY <1>2 DEF Keys
<1>4. Least(I) \in I
  <2> HIDE DEF I
  <2> QED BY <1>3, LeastIn
<1>5. PICK k \in tx[w].todo : k[1] = l /\ k[2] = Least(I)  BY <1>4
<1>6. NextRow(w) = <<l, Least(I)>>  BY DEF NextRow, l
<1>7. k \in Locations \X Items  BY DEF Keys
<1> QED BY <1>5, <1>6, <1>7

----------------------------------------------------------------------------
(* Sums of movements: g is the recursive sum over the subsets of D. *)
Fits(k, D, g) ==
    /\ g \in [SUBSET D -> Int]
    /\ \A R \in SUBSET D : g[R] = IF R = {} THEN 0 ELSE Delta[Pick(R)][k] + g[R \ {Pick(R)}]

(* A non-empty set of subsets of a finite set has a minimal one. *)
LEMMA MinimalSubset ==
    ASSUME NEW T, T \subseteq SUBSET Requests, T # {}
    PROVE  \E X \in T : \A Y \in T : Y \subseteq X => Y = X
<1> DEFINE R == StrictSubsetOrdering(Requests)
<1>1. IsWellFoundedOn(R, FiniteSubsetsOf(Requests))  BY FS_StrictSubsetOrderingWellFounded
<1>2. T \subseteq FiniteSubsetsOf(Requests)  BY IdAssumption, FS_FiniteSubsetsOfFinite
<1>3. PICK X \in T : \A Y \in T : ~(<<Y, X>> \in R)
  <2> HIDE DEF R
  <2> QED BY <1>1, <1>2, WFMin, Zenon
<1>4. ASSUME NEW Y \in T, Y \subseteq X, Y # X PROVE FALSE
  <2>1. <<Y, X>> \in (SUBSET Requests) \X (SUBSET Requests)  OBVIOUS
  <2>2. <<Y, X>> \in R  BY <1>4, <2>1 DEF StrictSubsetOrdering
  <2> QED BY <2>2, <1>3
<1> QED BY <1>4

LEMMA Picked ==
    ASSUME NEW R, R # {}
    PROVE  Pick(R) \in R
BY DEF Pick

(* There is one such function ... *)
LEMMA FitsUnique ==
    ASSUME NEW k \in Keys, NEW D \in SUBSET Requests, NEW E \in SUBSET Requests, NEW g, NEW h,
           Fits(k, D, g), Fits(k, E, h), E \subseteq D
    PROVE  g[E] = h[E]
<1> DEFINE T == {R \in SUBSET E : g[R] # h[R]}
<1>1. ASSUME T # {} PROVE FALSE
  <2>0. T \subseteq SUBSET Requests OBVIOUS
  <2>1. PICK X \in T : \A Y \in T : Y \subseteq X => Y = X
    <3> HIDE DEF T
    <3> QED BY <1>1, <2>0, MinimalSubset
  <2>2. X # {}  BY DEF Fits
  <2>3. Pick(X) \in X  BY <2>2, Picked
  <2>4. X \ {Pick(X)} \notin T  BY <2>1, <2>3
  <2>5. g[X \ {Pick(X)}] = h[X \ {Pick(X)}]  BY <2>4
  <2>6. g[X] = Delta[Pick(X)][k] + g[X \ {Pick(X)}]  BY <2>2 DEF Fits
  <2>7. h[X] = Delta[Pick(X)][k] + h[X \ {Pick(X)}]  BY <2>2 DEF Fits
  <2> QED BY <2>5, <2>6, <2>7
<1> QED BY <1>1

(* ... there is one for every set of documents ... *)
LEMMA FitsExists ==
    ASSUME NEW k \in Keys
    PROVE  \E g : Fits(k, Requests, g)
<1> DEFINE T == {D \in SUBSET Requests : ~\E g : Fits(k, D, g)}
           G(D) == (CHOOSE g : Fits(k, D, g))[D]
           Body(R) == IF R = {} THEN 0 ELSE Delta[Pick(R)][k] + G(R \ {Pick(R)})
<1>1. ASSUME T # {} PROVE FALSE
  <2>0. T \subseteq SUBSET Requests OBVIOUS
  <2>1. PICK X \in T : \A Y \in T : Y \subseteq X => Y = X
    <3> HIDE DEF T
    <3> QED BY <1>1, <2>0, MinimalSubset
  <2>2. \A R \in SUBSET X : R # X => Fits(k, R, CHOOSE g : Fits(k, R, g))
    <3> TAKE R \in SUBSET X
    <3> HAVE R # X
    <3>1. R \notin T /\ R \in SUBSET Requests BY <2>1
    <3>2. \E g : Fits(k, R, g)  BY <3>1
    <3> HIDE DEF T, G
    <3> QED BY <3>2
  <2>3. \A R \in SUBSET X : R # X => G(R) = Body(R) /\ G(R) \in Int
    <3> TAKE R \in SUBSET X
    <3> HAVE R # X
    <3> DEFINE g == CHOOSE g : Fits(k, R, g)
               S == R \ {Pick(R)}
               h == CHOOSE h : Fits(k, S, h)
    <3>1. Fits(k, R, g)  BY <2>2
    <3>2. G(R) = g[R] /\ G(S) = h[S]  OBVIOUS
    <3>3. Fits(k, S, h)
      <4>1. S \in SUBSET X /\ S # X  OBVIOUS
      <4> HIDE DEF S
      <4> QED BY <2>2, <4>1
    <3>4. S \in SUBSET Requests /\ R \in SUBSET Requests /\ S \subseteq R  BY <2>1
    <3> HIDE DEF g, h, S, G
    <3>5. g[S] = h[S]  BY <3>1, <3>3, <3>4, FitsUnique
    <3>6. g[R] = IF R = {} THEN 0 ELSE Delta[Pick(R)][k] + g[S]  BY <3>1 DEF Fits, S
    <3>7. g[R] \in Int  BY <3>1 DEF Fits
    <3> QED BY <3>2, <3>5, <3>6, <3>7 DEF S
  <2> DEFINE f == [R \in SUBSET X |-> Body(R)]
  <2>4. \A R \in SUBSET X : R # {} => R \ {Pick(R)} \in SUBSET X /\ R \ {Pick(R)} # X
    BY Picked
  <2>5. \A R \in SUBSET X : Body(R) \in Int
    <3> TAKE R \in SUBSET X
    <3>1. CASE R = {}  BY <3>1
    <3>2. CASE R # {}
      <4>1. G(R \ {Pick(R)}) \in Int  BY <2>3, <2>4, <3>2
      <4>2. Pick(R) \in Requests  BY <3>2, Picked, <2>1
      <4>3. Delta[Pick(R)][k] \in Int  BY <4>2, RequestAssumption
      <4> HIDE DEF G
      <4> QED BY <4>1, <4>3, <3>2
    <3> QED BY <3>1, <3>2
  <2>6. f \in [SUBSET X -> Int]
    <3> HIDE DEF Body
    <3> QED BY <2>5
  <2>7. \A R \in SUBSET X : f[R] = IF R = {} THEN 0 ELSE Delta[Pick(R)][k] + f[R \ {Pick(R)}]
    <3> TAKE R \in SUBSET X
    <3>1. f[R] = Body(R)  OBVIOUS
    <3>2. CASE R # {}
      <4>1. f[R \ {Pick(R)}] = Body(R \ {Pick(R)})  BY <2>4, <3>2
      <4>2. G(R \ {Pick(R)}) = Body(R \ {Pick(R)})  BY <2>3, <2>4, <3>2
      <4>3. Body(R) = Delta[Pick(R)][k] + G(R \ {Pick(R)})  BY <3>2
      <4> HIDE DEF Body, G, f
      <4> QED BY <3>1, <3>2, <4>1, <4>2, <4>3
    <3> QED BY <3>1, <3>2
  <2> HIDE DEF f
  <2>8. Fits(k, X, f)  BY <2>6, <2>7 DEF Fits
  <2> QED BY <2>8
<1>2. Requests \notin T  BY <1>1
<1> QED BY <1>2

(* ... and Sums is it. *)
LEMMA SumsFit ==
    ASSUME NEW k \in Keys
    PROVE  Fits(k, Requests, Sums(k))
<1> DEFINE body(g) == [R \in SUBSET Requests |->
                        IF R = {} THEN 0 ELSE Delta[Pick(R)][k] + g[R \ {Pick(R)}]]
<1>1. PICK g : Fits(k, Requests, g)  BY FitsExists
<1>2. g = body(g)  BY <1>1 DEF Fits
<1>3. Sums(k) = CHOOSE h : h = body(h)  BY DEF Sums
<1> HIDE DEF body
<1>4. Sums(k) = body(Sums(k))  BY <1>2, <1>3
<1> DEFINE s == Sums(k)
<1>5. \A R \in SUBSET Requests :
        s[R] = IF R = {} THEN 0 ELSE Delta[Pick(R)][k] + s[R \ {Pick(R)}]
  <2> HIDE DEF s
  <2>1. s = body(s)  BY <1>4 DEF s
  <2> QED BY <2>1 DEF body
<1>6. s = [R \in SUBSET Requests |-> s[R]]
  <2> HIDE DEF s
  <2>1. s = body(s)  BY <1>4 DEF s
  <2> QED BY <2>1 DEF body
<1> HIDE DEF s
<1> DEFINE T == {R \in SUBSET Requests : s[R] # g[R]}
<1>7. ASSUME T # {} PROVE FALSE
  <2>0. T \subseteq SUBSET Requests  OBVIOUS
  <2>1. PICK X \in T : \A Y \in T : Y \subseteq X => Y = X
    <3> HIDE DEF T
    <3> QED BY <1>7, <2>0, MinimalSubset
  <2>2. X # {}  BY <1>1, <1>5 DEF Fits
  <2>3. Pick(X) \in X  BY <2>2, Picked
  <2>4. X \ {Pick(X)} \notin T  BY <2>1, <2>3
  <2>5. s[X \ {Pick(X)}] = g[X \ {Pick(X)}]  BY <2>4
  <2>6. g[X] = Delta[Pick(X)][k] + g[X \ {Pick(X)}]  BY <1>1, <2>2 DEF Fits
  <2>7. s[X] = Delta[Pick(X)][k] + s[X \ {Pick(X)}]  BY <1>5, <2>2
  <2> QED BY <2>5, <2>6, <2>7
<1>8. \A R \in SUBSET Requests : s[R] = g[R]  BY <1>7
<1>9. \A R \in SUBSET Requests : s[R] \in Int  BY <1>1, <1>8 DEF Fits
<1>10. s \in [SUBSET Requests -> Int]  BY <1>6, <1>9
<1> QED BY <1>5, <1>10 DEF Fits, s

(* The sum does not depend on the order in which Pick takes the documents. *)
LEMMA SumsRemove ==
    ASSUME NEW k \in Keys, NEW R0 \in SUBSET Requests, NEW x0 \in R0
    PROVE  Sums(k)[R0] = Delta[x0][k] + Sums(k)[R0 \ {x0}]
<1> DEFINE s == Sums(k)
           T == {R \in SUBSET Requests : \E x \in R : s[R] # Delta[x][k] + s[R \ {x}]}
<1>1. Fits(k, Requests, s)  BY SumsFit
<1> HIDE DEF s
<1>2. ASSUME T # {} PROVE FALSE
  <2>0. T \subseteq SUBSET Requests  OBVIOUS
  <2>1. PICK X \in T : \A Y \in T : Y \subseteq X => Y = X
    <3> HIDE DEF T
    <3> QED BY <1>2, <2>0, MinimalSubset
  <2>2. PICK x \in X : s[X] # Delta[x][k] + s[X \ {x}]  OBVIOUS
  <2>3. PICK p \in X : s[X] = Delta[p][k] + s[X \ {p}]  BY <1>1, <2>2, Picked DEF Fits
  <2>4. p # x  BY <2>2, <2>3
  <2>5. X \ {p} \notin T /\ X \ {x} \notin T  BY <2>1
  <2>6. s[X \ {p}] = Delta[x][k] + s[(X \ {p}) \ {x}]  BY <2>4, <2>5
  <2>7. s[X \ {x}] = Delta[p][k] + s[(X \ {x}) \ {p}]  BY <2>4, <2>5
  <2>8. (X \ {p}) \ {x} = (X \ {x}) \ {p} /\ (X \ {p}) \ {x} \in SUBSET Requests  OBVIOUS
  <2>9. s[(X \ {p}) \ {x}] \in Int  BY <1>1, <2>8 DEF Fits
  <2>10. Delta[p][k] \in Int /\ Delta[x][k] \in Int  BY RequestAssumption
  <2> DEFINE c == s[(X \ {p}) \ {x}]
             dp == Delta[p][k]
             dx == Delta[x][k]
  <2>11. s[X] = dp + (dx + c) /\ s[X \ {x}] = dp + c  BY <2>3, <2>6, <2>7, <2>8
  <2>12. c \in Int /\ dp \in Int /\ dx \in Int  BY <2>9, <2>10
  <2>13. s[X] # dx + s[X \ {x}]  BY <2>2
  <2> HIDE DEF c, dp, dx
  <2> QED BY <2>11, <2>12, <2>13
<1> QED BY <1>2 DEF s

LEMMA SumType ==
    ASSUME NEW k \in Keys
    PROVE  LedgerSum(k) \in Int
<1>1. Posted(k) \in SUBSET Requests  BY DEF Posted
<1> QED BY <1>1, SumsFit DEF Fits, LedgerSum

LEMMA PostedFinite ==
    ASSUME NEW k \in Keys
    PROVE  IsFiniteSet(Posted(k)) /\ Cardinality(Posted(k)) \in Nat
<1>1. Posted(k) \subseteq Requests  BY DEF Posted
<1>2. IsFiniteSet(Posted(k))  BY <1>1, IdAssumption, FS_Subset
<1> QED BY <1>2, FS_CardinalityType

----------------------------------------------------------------------------
(* Steps that change one transaction and nothing else. *)
shared == <<balance, moves, ledger, threshold, lows, location, tenant, drift, changes, drifts>>

LEMMA SameShape ==
    ASSUME NEW v \in Workers, NEW x, tx'[v] = x, TxInv(x),
           UNCHANGED <<balance, ledger, threshold, location, tenant>>
    PROVE  TxInv(tx[v])'
<1>1. Shape(tx[v])'  BY DEF TxInv, Shape, Posts, Rows, WLegs
<1>2. LockOrder(tx[v])'  BY DEF TxInv, LockOrder, Posts, Rows
<1>3. Whole(tx[v])'  BY DEF TxInv, Whole, Posts
<1>4. Backed(tx[v])'
  BY DEF TxInv, Backed, Posts, Rows, WLegs, IsLow, MayGoNegative
<1>5. Claimed(tx[v])'  BY DEF TxInv, Claimed
<1>6. Summed(tx[v])'
  <2>1. \A k \in x.held : LedgerSum(k)' = LedgerSum(k)  BY DEF LedgerSum, Posted
  <2> QED BY <2>1 DEF TxInv, Summed
<1> QED BY <1>1, <1>2, <1>3, <1>4, <1>5, <1>6 DEF TxInv

LEMMA TxStep ==
    ASSUME IInv, NEW w \in Workers, NEW y \in TxRecords, tx' = [tx EXCEPT ![w] = y],
           TxInv(y), UNCHANGED shared,
           \A v \in Workers \ {w} : tx[v].held \cap y.held = {} /\ tx[v].ids \cap y.ids = {}
    PROVE  IInv'
<1> USE DEF shared
<1>1. tx \in [Workers -> TxRecords]  BY DEF IInv, TypeOK
<1>2. tx'[w] = y /\ \A v \in Workers \ {w} : tx'[v] = tx[v]  BY <1>1
<1>3. TypeOK'
  <2>1. tx' \in [Workers -> TxRecords]  BY <1>1
  <2> QED BY <2>1 DEF IInv, TypeOK
<1>4. \A v \in Workers : TxInv(tx[v])'
  <2> TAKE v \in Workers
  <2>1. CASE v = w  BY <2>1, <1>2, SameShape
  <2>2. CASE v # w
    <3>1. TxInv(tx[v]) /\ tx'[v] = tx[v]  BY <1>2, <2>2 DEF IInv
    <3> QED BY <3>1, SameShape
  <2> QED BY <2>1, <2>2
<1>5. Exclusive'
  <2> SUFFICES ASSUME NEW v \in Workers, NEW u \in Workers, v # u
               PROVE  tx'[v].held \cap tx'[u].held = {} /\ tx'[v].ids \cap tx'[u].ids = {}
    BY DEF Exclusive
  <2>1. tx[v].held \cap tx[u].held = {} /\ tx[v].ids \cap tx[u].ids = {}
    BY DEF IInv, Exclusive
  <2> QED BY <2>1, <1>2
<1>6. Lenient' /\ AllLinesOrNone'  BY DEF IInv, Lenient, AllLinesOrNone
<1>7. LowCountersAgree'  BY DEF IInv, LowCountersAgree, IsLow
<1>8. BalanceFollowsLedger'  BY DEF IInv, BalanceFollowsLedger, LedgerSum, Posted
<1> QED BY <1>3, <1>4, <1>5, <1>6, <1>7, <1>8 DEF IInv

(* The idle record, which no transaction is ended without. *)
LEMMA NoTxFacts == NoTx \in TxRecords /\ TxInv(NoTx)
<1>1. NoTx \in TxRecords
  <2>1. (CHOOSE r \in Requests : TRUE) \in Requests /\ (CHOOSE i \in Items : TRUE) \in Items
    BY IdAssumption
  <2> QED BY <2>1 DEF NoTx, TxRecords
<1>2. NoTx.at = "idle" /\ NoTx.ids = {} /\ NoTx.shares = {} /\ NoTx.held = {}
      /\ NoTx.wasLow = {} /\ NoTx.written = {} /\ NoTx.todo = {}
  BY DEF NoTx
<1>3. ~Posts(NoTx) /\ WLegs(NoTx) = {}  BY <1>2 DEF Posts, WLegs
<1>4. Shape(NoTx)  BY <1>2, <1>3 DEF Shape
<1>5. LockOrder(NoTx)  BY <1>2, <1>3 DEF LockOrder
<1>6. Whole(NoTx)  BY <1>2, <1>3 DEF Whole
<1>7. Backed(NoTx)  BY <1>2, <1>3 DEF Backed
<1>8. Claimed(NoTx) /\ Summed(NoTx)  BY <1>2 DEF Claimed, Summed
<1> QED BY <1>1, <1>4, <1>5, <1>6, <1>7, <1>8 DEF TxInv

LEMMA EndedStep ==
    ASSUME IInv, NEW w \in Workers, tx' = Ended(w), UNCHANGED shared
    PROVE  IInv'
<1>1. NoTx.held = {} /\ NoTx.ids = {}  BY DEF NoTx
<1> QED BY <1>1, NoTxFacts, TxStep DEF Ended

----------------------------------------------------------------------------
(* The transitions of a posting. *)
LEMMA Here ==
    ASSUME IInv, NEW w \in Workers
    PROVE  /\ tx[w] \in TxRecords /\ TxInv(tx[w])
           /\ tx[w].req \in Requests /\ tx[w].item \in Items /\ tx[w].item \in Int
           /\ tx[w].held \subseteq Keys /\ tx[w].written \subseteq Items
           /\ tx \in [Workers -> TxRecords]
<1>1. tx[w] \in TxRecords /\ TxInv(tx[w]) /\ tx \in [Workers -> TxRecords]
  BY DEF IInv, TypeOK
<1>2. tx[w].item \in Items  BY <1>1 DEF TxRecords
<1> QED BY <1>1, <1>2, IdAssumption DEF TxRecords

LEMMA HeldApart ==
    ASSUME IInv, NEW w \in Workers, NEW v \in Workers \ {w}
    PROVE  tx[v].held \cap tx[w].held = {} /\ tx[v].ids \cap tx[w].ids = {}
BY DEF IInv, Exclusive

LEMMA BeginStep ==
    ASSUME IInv, NEW w \in Workers, NEW r \in Requests, Begin(w, r)
    PROVE  IInv'
<1> DEFINE i == Least(ItemsOf(r))
           y == [tx[w] EXCEPT !.at = "source", !.req = r, !.item = i]
<1>0. i \in ItemsOf(r) /\ i \in Items /\ \A j \in ItemsOf(r) : i <= j
  <2>1. ItemsOf(r) \subseteq Items /\ ItemsOf(r) # {}  BY DEF Begin, ItemsOf
  <2> QED BY <2>1, LeastIn
<1> HIDE DEF i
<1>1. tx[w] = NoTx
  <2>1. Shape(tx[w]) /\ tx[w].at = "idle"  BY Here DEF TxInv, Begin
  <2> QED BY <2>1 DEF Shape
<1>2. tx' = [tx EXCEPT ![w] = y] /\ y \in TxRecords
  BY Here, <1>0 DEF Begin, TxRecords, i
<1>3. /\ y.at = "source" /\ y.req = r /\ y.item = i /\ y.ids = {} /\ y.shares = {}
      /\ y.held = {} /\ y.wasLow = {} /\ y.written = {} /\ y.todo = {}
  BY <1>1 DEF NoTx
<1> HIDE DEF y
<1>4. Shape(y)  BY <1>3, <1>0 DEF Shape, Posts, WLegs
<1>5. LockOrder(y)  BY <1>3 DEF LockOrder
<1>6. Whole(y)
  <2>1. \A j \in ItemsOf(r) : j \in Int /\ i \in Int  BY IdAssumption, <1>0 DEF ItemsOf
  <2> QED BY <1>3, <1>0, <2>1 DEF Whole
<1>7. Backed(y)  BY <1>3 DEF Backed, WLegs
<1>8. Claimed(y) /\ Summed(y)  BY <1>3 DEF Claimed, Summed
<1>9. UNCHANGED shared  BY DEF Begin, shared, stock, settings
<1> QED BY <1>2, <1>3, <1>4, <1>5, <1>6, <1>7, <1>8, <1>9, TxStep DEF TxInv

(* What NextLine leaves alone. *)
LEMMA NextLineFacts ==
    ASSUME IInv, NEW w \in Workers
    PROVE  LET n == NextLine(w) x == tx[w] IN
           /\ n \in TxRecords
           /\ n.req = x.req /\ n.ids = x.ids /\ n.shares = x.shares /\ n.held = x.held
           /\ n.wasLow = x.wasLow /\ n.written = x.written /\ n.todo = x.todo
<1>1. CASE ItemsLeft(w) = {}
  <2>1. NextLine(w) = [tx[w] EXCEPT !.at = "commit"]  BY <1>1 DEF NextLine
  <2> QED BY <2>1, Here DEF TxRecords
<1>2. CASE ItemsLeft(w) # {}
  <2>1. NextLine(w) = [tx[w] EXCEPT !.at = "source", !.item = Least(ItemsLeft(w))]
    BY <1>2 DEF NextLine
  <2>2. ItemsLeft(w) \subseteq Items  BY DEF ItemsLeft, ItemsOf
  <2>3. Least(ItemsLeft(w)) \in Items  BY <1>2, <2>2, LeastIn
  <2> QED BY <2>1, <2>3, Here DEF TxRecords
<1> QED BY <1>1, <1>2

(* The present line is done: the next one begins, or the commit. *)
LEMMA LineDone ==
    ASSUME IInv, NEW w \in Workers, tx[w].at \in {"source", "write"}, NEW y \in TxRecords,
           y.req = tx[w].req, y.shares = tx[w].shares, y.held = tx[w].held,
           y.wasLow = tx[w].wasLow,
           y.at = NextLine(w).at, y.item = NextLine(w).item,
           tx[w].ids \subseteq y.ids,
           y.ids \subseteq tx[w].ids \cup {<<Source[tx[w].req], tx[w].item>>},
           \/ y.written = tx[w].written /\ <<tx[w].req, tx[w].item>> \in ledger
           \/ /\ y.written = tx[w].written \cup {tx[w].item} /\ tx[w].at = "write"
              /\ \A k \in Rows(tx[w]) : Delta[y.req][k] < 0 =>
                    balance[k] + Delta[y.req][k] >= 0 \/ MayGoNegative(k[1])
    PROVE  TxInv(y)
<1> DEFINE x == tx[w]
<1>1. TxInv(x) /\ Posts(x) /\ x.item \in ItemsOf(x.req) /\ x.item \in Int
      /\ x.written \subseteq ItemsOf(x.req)
  BY Here DEF TxInv, Shape, Posts
<1>2. \/ y.at = "commit" /\ y.item = x.item /\ ItemsLeft(w) = {}
      \/ y.at = "source" /\ y.item \in ItemsLeft(w) /\ \A j \in ItemsLeft(w) : y.item <= j
  <2>1. CASE ItemsLeft(w) = {}
    <3>1. NextLine(w) = [tx[w] EXCEPT !.at = "commit"]  BY <2>1 DEF NextLine
    <3>2. NextLine(w).at = "commit" /\ NextLine(w).item = x.item  BY <3>1, Here DEF TxRecords
    <3> QED BY <3>2, <2>1
  <2>2. CASE ItemsLeft(w) # {}
    <3>1. NextLine(w) = [tx[w] EXCEPT !.at = "source", !.item = Least(ItemsLeft(w))]
      BY <2>2 DEF NextLine
    <3>2. NextLine(w).at = "source" /\ NextLine(w).item = Least(ItemsLeft(w))
      BY <3>1, Here DEF TxRecords
    <3>3. ItemsLeft(w) \subseteq Items  BY DEF ItemsLeft, ItemsOf
    <3>4. Least(ItemsLeft(w)) \in ItemsLeft(w)
          /\ \A n \in ItemsLeft(w) : Least(ItemsLeft(w)) <= n
      BY <2>2, <3>3, LeastIn
    <3> QED BY <3>2, <3>4
  <2> QED BY <2>1, <2>2
<1>3. y.item \in ItemsOf(y.req) /\ y.item \in Int /\ x.item <= y.item
      /\ (y.at = "source" => x.item < y.item)
  <2>1. \A j \in ItemsLeft(w) : j \in ItemsOf(x.req) /\ j \in Int /\ x.item < j
    BY IdAssumption, <1>1 DEF ItemsLeft, ItemsOf
  <2> QED BY <1>1, <1>2, <2>1
<1>4. Posts(y) /\ y.at \in {"commit", "source"}  BY <1>2 DEF Posts
<1>5. Shape(x) /\ LockOrder(x) /\ Whole(x) /\ Backed(x) /\ Claimed(x)  BY <1>1 DEF TxInv
<1>6. \A k \in WLegs(y) :
        \/ k \in WLegs(x)
        \/ k \in Rows(x) /\ x.at = "write" /\ y.written # x.written
  BY DEF WLegs, Rows
<1> HIDE DEF x
<1>7. Shape(y)
  <2>1. \A k \in WLegs(y) : k \in y.held /\ k[1] \in y.shares  BY <1>5, <1>6 DEF Shape, x
  <2>2. y.written \subseteq ItemsOf(y.req)  BY <1>1 DEF x
  <2> QED BY <2>1, <2>2, <1>3, <1>4 DEF Shape
<1>8. LockOrder(y)
  <2>1. \A id \in y.ids : id[2] <= x.item /\ id[2] \in Int
    <3>1. \A id \in y.ids : id \in Sources \X Items  BY DEF TxRecords, Ids
    <3>2. \A id \in y.ids : id[2] \in Int  BY <3>1, IdAssumption
    <3>3. \A id \in y.ids : id \in x.ids \/ id[2] = x.item  BY DEF x
    <3> QED BY <3>2, <3>3, <1>1, <1>5 DEF LockOrder
  <2>2. \A k \in y.held : k[2] <= x.item /\ k[2] \in Int
    <3>0. \A k \in y.held : k \in Locations \X Items  BY Here DEF Keys
    <3>1. \A k \in y.held : k[2] \in Int  BY <3>0, IdAssumption
    <3> QED BY <3>1, <1>1, <1>5 DEF LockOrder, x
  <2> QED BY <2>1, <2>2, <1>1, <1>3, <1>4 DEF LockOrder
<1>9. Whole(y)
  <2> SUFFICES ASSUME NEW j \in ItemsOf(y.req), j < y.item \/ y.at = "commit"
               PROVE  j \in y.written \/ <<y.req, j>> \in ledger
    BY DEF Whole
  <2>0. j \in Int /\ j \in ItemsOf(x.req)  BY IdAssumption DEF ItemsOf, x
  <2>1. CASE j < x.item
    <3>1. j \in x.written \/ <<x.req, j>> \in ledger  BY <1>1, <1>5, <2>0, <2>1 DEF Whole
    <3> QED BY <3>1 DEF x
  <2>2. CASE j = x.item  BY <2>2 DEF x
  <2>3. CASE j > x.item
    <3>1. j \in ItemsLeft(w)  BY <2>0, <2>3 DEF ItemsLeft, x
    <3>2. FALSE  BY <3>1, <1>2, <1>3, <2>0
    <3> QED BY <3>2
  <2> QED BY <2>0, <2>1, <2>2, <2>3, <1>1
<1>10. Backed(y)
  <2>1. \A k \in WLegs(y) : Delta[y.req][k] < 0 =>
          balance[k] + Delta[y.req][k] >= 0 \/ MayGoNegative(k[1])
    BY <1>5, <1>6 DEF Backed, x
  <2>2. (\A l \in y.shares : location[l].status = "active")
        /\ y.wasLow = {k \in y.held : IsLow(k, balance)}
    BY <1>5 DEF Backed, x
  <2> QED BY <2>1, <2>2, <1>4 DEF Backed
<1>11. Claimed(y) /\ Summed(y)
  <2>1. \A i \in y.written : i \in x.written \/ (i = x.item /\ x.at = "write")  BY DEF x
  <2>2. \A i \in y.written : <<Source[y.req], i>> \in y.ids /\ <<y.req, i>> \notin ledger
    BY <1>5, <2>1 DEF Claimed, x
  <2> QED BY <2>2, <1>4 DEF Claimed, Summed
<1> QED BY <1>7, <1>8, <1>9, <1>10, <1>11 DEF TxInv

LEMMA LockSourceStep ==
    ASSUME IInv, NEW w \in Workers, LockSource(w)
    PROVE  IInv'
<1> DEFINE x == tx[w]
           id == <<Source[x.req], x.item>>
           same == {q \in Requests : Source[q] = Source[x.req] /\ <<q, x.item>> \in ledger}
<1>1. x.at = "source" /\ UNCHANGED shared
  BY DEF LockSource, shared, stock, settings
<1>2. id \in Ids  BY Here, RequestAssumption DEF Ids
<1>3. Shape(x) /\ LockOrder(x) /\ Whole(x) /\ Backed(x) /\ Claimed(x) /\ Posts(x)
      /\ x \in TxRecords
  BY Here, <1>1 DEF TxInv, Posts
<1>7. \A v \in Workers \ {w} : id \notin tx[v].ids  BY DEF LockSource, IdFree, Others
<1>4. CASE same = {} /\ tx' = [tx EXCEPT ![w].at = "locations", ![w].ids = @ \cup {id}]
  <2> DEFINE y == [x EXCEPT !.at = "locations", !.ids = @ \cup {id}]
  <2>1. tx' = [tx EXCEPT ![w] = y] /\ y \in TxRecords
    BY Here, <1>2, <1>4 DEF TxRecords
  <2>2. /\ y.at = "locations" /\ y.ids = x.ids \cup {id} /\ y.req = x.req /\ y.item = x.item
        /\ y.shares = x.shares /\ y.held = x.held /\ y.wasLow = x.wasLow
        /\ y.written = x.written
    BY <1>3 DEF TxRecords
  <2> HIDE DEF y, x
  <2>3. Shape(y)  BY <1>1, <1>3, <2>2 DEF Shape, Posts, WLegs
  <2>4. LockOrder(y)
    <3>1. x.item <= x.item /\ id[2] = x.item  BY Here DEF x
    <3> QED BY <1>1, <1>3, <2>2, <3>1 DEF LockOrder, Posts
  <2>5. Whole(y)  BY <1>1, <1>3, <2>2 DEF Whole, Posts
  <2>6. Backed(y)  BY <1>1, <1>3, <2>2 DEF Backed, WLegs
  <2>7. Claimed(y) /\ Summed(y)
    <3>1. <<x.req, x.item>> \notin ledger  BY <1>4, Here DEF x
    <3>2. \A i \in y.written : <<Source[y.req], i>> \in y.ids /\ <<y.req, i>> \notin ledger
      BY <1>3, <2>2 DEF Claimed
    <3> QED BY <2>2, <3>1, <3>2 DEF Claimed, Summed
  <2>8. \A v \in Workers \ {w} : tx[v].held \cap y.held = {} /\ tx[v].ids \cap y.ids = {}
    BY <1>7, <2>2, HeldApart DEF x
  <2> QED BY <1>1, <2>1, <2>3, <2>4, <2>5, <2>6, <2>7, <2>8, TxStep DEF TxInv
<1>5. CASE same = {x.req} /\ tx' = [tx EXCEPT ![w] = [NextLine(w) EXCEPT !.ids = @ \cup {id}]]
  <2> DEFINE y == [NextLine(w) EXCEPT !.ids = @ \cup {id}]
  <2>1. NextLine(w) \in TxRecords /\ NextLine(w).ids = x.ids /\ NextLine(w).req = x.req
        /\ NextLine(w).shares = x.shares /\ NextLine(w).held = x.held
        /\ NextLine(w).wasLow = x.wasLow /\ NextLine(w).written = x.written
    BY NextLineFacts
  <2>2. /\ y \in TxRecords
        /\ y.at = NextLine(w).at /\ y.item = NextLine(w).item
        /\ y.ids = x.ids \cup {id} /\ y.req = x.req
        /\ y.shares = x.shares /\ y.held = x.held /\ y.wasLow = x.wasLow
        /\ y.written = x.written
    <3> HIDE DEF id
    <3> QED BY <1>2, <2>1 DEF TxRecords
  <2>3. <<x.req, x.item>> \in ledger  BY <1>5
  <2> HIDE DEF y
  <2>4. TxInv(y)  BY <1>1, <2>2, <2>3, LineDone
  <2>5. \A v \in Workers \ {w} : tx[v].held \cap y.held = {} /\ tx[v].ids \cap y.ids = {}
    BY <1>7, <2>2, HeldApart DEF x
  <2>6. tx' = [tx EXCEPT ![w] = y]  BY <1>5 DEF y
  <2> QED BY <1>1, <2>2, <2>4, <2>5, <2>6, TxStep
<1>6. CASE tx' = Ended(w)  BY <1>1, <1>6, EndedStep
<1> QED BY <1>4, <1>5, <1>6 DEF LockSource

LEMMA ReadLocationsStep ==
    ASSUME IInv, NEW w \in Workers, ReadLocations(w)
    PROVE  IInv'
<1> DEFINE x == tx[w]
           ls == {k[1] : k \in Rows(x)}
           allowed == {l \in ls : AllowsNegative(l)}
           y == [x EXCEPT !.at = "balances", !.shares = @ \cup ls,
                          !.allow = (@ \ ls) \cup allowed]
<1>1. x.at = "locations" /\ UNCHANGED shared
  BY DEF ReadLocations, shared, stock, settings
<1>2. Shape(x) /\ LockOrder(x) /\ Whole(x) /\ Backed(x) /\ Claimed(x) /\ Posts(x)
      /\ x \in TxRecords
  BY Here, <1>1 DEF TxInv, Posts
<1>3. CASE tx' = Ended(w)  BY <1>1, <1>3, EndedStep
<1>4. CASE /\ \A l \in ls : location[l].status = "active"
           /\ tx' = [tx EXCEPT ![w].at = "balances", ![w].shares = @ \cup ls,
                               ![w].allow = (@ \ ls) \cup allowed]
  <2>1. ls \subseteq Locations /\ allowed \subseteq ls
    <3>1. \A k \in Rows(x) : k[1] \in Locations  BY Here, LegFacts DEF Rows
    <3> QED BY <3>1
  <2> HIDE DEF allowed
  <2>2. tx' = [tx EXCEPT ![w] = y]  BY Here, <1>4 DEF TxRecords
  <2>3. y \in TxRecords
    <3> HIDE DEF ls
    <3> QED BY <1>2, <2>1 DEF TxRecords
  <2>4. /\ y.at = "balances" /\ y.ids = x.ids /\ y.req = x.req /\ y.item = x.item
        /\ y.shares = x.shares \cup ls /\ y.held = x.held /\ y.wasLow = x.wasLow
        /\ y.written = x.written /\ y.allow = (x.allow \ ls) \cup allowed
    BY <1>2 DEF TxRecords
  <2> HIDE DEF y
  <2>5. Shape(y)
    <3>1. \A k \in Rows(y) : k[1] \in y.shares  BY <2>4 DEF Rows
    <3>2. \A k \in WLegs(y) : k \in y.held /\ k[1] \in y.shares
      BY <1>2, <2>4 DEF Shape, WLegs
    <3> QED BY <1>2, <2>4, <3>1, <3>2 DEF Shape, Posts
  <2>6. LockOrder(y)
    <3>1. \A k \in x.held : k[2] < x.item /\ k[2] \in Int
      <4>1. \A k \in x.held : k \in Locations \X Items  BY Here DEF Keys
      <4> QED BY <4>1, <1>1, <1>2, IdAssumption DEF LockOrder
    <3>2. Rows(x) # {} /\ \A k \in Rows(x) : k[2] = x.item
      BY <1>2, Here, LegFacts DEF Rows, Shape
    <3>3. x.item \in Int  BY Here
    <3>4. \A k \in x.held : k[2] # x.item /\ k \notin Rows(x)  BY <3>1, <3>2, <3>3
    <3>5. Rows(y) = Rows(x)  BY <2>4 DEF Rows
    <3>6. \A i \in y.ids : i[2] <= y.item  BY <1>2, <2>4 DEF LockOrder
    <3>7. \A k \in y.held : k[2] <= y.item  BY <1>2, <2>4 DEF LockOrder
    <3>8. Rows(y) \ y.held # {}  BY <3>2, <3>4, <3>5, <2>4
    <3> QED BY <2>4, <3>4, <3>6, <3>7, <3>8 DEF LockOrder
  <2>7. Whole(y)  BY <1>1, <1>2, <2>4 DEF Whole, Posts
  <2>8. Backed(y)
    <3>1. \A l \in y.shares : location[l].status = "active"  BY <1>2, <1>4, <2>4 DEF Backed
    <3>2. \A k \in Rows(y) : k[1] \in y.allow => MayGoNegative(k[1])
      <4> SUFFICES ASSUME NEW k \in Rows(x), k[1] \in y.allow PROVE MayGoNegative(k[1])
        BY <2>4 DEF Rows
      <4>1. k[1] \in ls  OBVIOUS
      <4>2. AllowsNegative(k[1])  BY <4>1, <2>4 DEF allowed
      <4> QED BY <4>2 DEF AllowsNegative, MayGoNegative, IInv, Lenient
    <3>3. \A k \in WLegs(y) : Delta[y.req][k] < 0 =>
            balance[k] + Delta[y.req][k] >= 0 \/ MayGoNegative(k[1])
      BY <1>2, <2>4 DEF Backed, WLegs
    <3>4. y.wasLow = {k \in y.held : IsLow(k, balance)}  BY <1>2, <2>4 DEF Backed
    <3> QED BY <3>1, <3>2, <3>3, <3>4 DEF Backed
  <2>9. Claimed(y) /\ Summed(y)  BY <1>1, <1>2, <2>4 DEF Claimed, Summed
  <2>10. \A v \in Workers \ {w} : tx[v].held \cap y.held = {} /\ tx[v].ids \cap y.ids = {}
    BY <2>4, HeldApart
  <2> QED BY <1>1, <2>2, <2>3, <2>5, <2>6, <2>7, <2>8, <2>9, <2>10, TxStep DEF TxInv
<1> QED BY <1>3, <1>4 DEF ReadLocations, Rows

LEMMA LockBalanceStep ==
    ASSUME IInv, NEW w \in Workers, LockBalance(w)
    PROVE  IInv'
<1> DEFINE x == tx[w]
           k == NextRow(w)
           low == IF IsLow(k, balance) THEN x.wasLow \cup {k} ELSE x.wasLow \ {k}
           at == IF RowsLeft(w) = {k} THEN "write" ELSE "balances"
           y == [x EXCEPT !.held = @ \cup {k}, !.wasLow = low, !.at = at]
<1>1. x.at = "balances" /\ UNCHANGED shared
  BY DEF LockBalance, shared, stock, settings
<1>2. Shape(x) /\ LockOrder(x) /\ Whole(x) /\ Backed(x) /\ Claimed(x) /\ Posts(x)
      /\ x \in TxRecords
  BY Here, <1>1 DEF TxInv, Posts
<1>3. RowsLeft(w) = Rows(x) \ x.held /\ RowsLeft(w) # {}
  BY <1>1, <1>2 DEF RowsLeft, Rows, LockOrder
<1>4. k \in RowsLeft(w) /\ \A j \in RowsLeft(w) : k[1] <= j[1]
  BY <1>1, <1>3, Here, NextRowOfPosting
<1>5. \A j \in Rows(x) : j \in Keys /\ j[1] \in Locations /\ j[2] = x.item
                           /\ j = <<j[1], x.item>>
  BY Here, LegFacts DEF Rows
<1>6. tx' = [tx EXCEPT ![w].held = @ \cup {k}, ![w].wasLow = low, ![w].at = at]
      /\ RowFree(w, k)
  BY DEF LockBalance
<1> HIDE DEF k
<1>7. low \subseteq Keys /\ at \in {"write", "balances"}  BY <1>2, <1>3, <1>4, <1>5 DEF TxRecords
<1>8. low = {j \in x.held \cup {k} : IsLow(j, balance)}  BY <1>2, <1>4, <1>3 DEF Backed
<1>9. at = "write" => Rows(x) \subseteq x.held \cup {k}  BY <1>3
<1>10. at = "balances" => RowsLeft(w) \ {k} # {}  BY <1>3
<1> HIDE DEF low, at
<1>11. tx' = [tx EXCEPT ![w] = y]  BY <1>6, Here
<1>12. y \in TxRecords  BY <1>2, <1>3, <1>4, <1>5, <1>7 DEF TxRecords
<1>13. /\ y.at = at /\ y.ids = x.ids /\ y.req = x.req /\ y.item = x.item
       /\ y.shares = x.shares /\ y.held = x.held \cup {k} /\ y.wasLow = low
       /\ y.written = x.written /\ y.allow = x.allow
  BY <1>2 DEF TxRecords
<1> HIDE DEF y
<1>14. Rows(y) = Rows(x) /\ WLegs(y) = WLegs(x) /\ Posts(y)
  BY <1>7, <1>13 DEF Rows, WLegs, Posts
<1>15. Shape(y)  BY <1>1, <1>2, <1>7, <1>9, <1>13, <1>14 DEF Shape
<1>16. LockOrder(y)
  <2>1. \A i \in y.ids : i[2] <= y.item  BY <1>2, <1>13 DEF LockOrder
  <2>2. k[2] = x.item /\ x.item \in Int  BY <1>3, <1>4, <1>5, Here
  <2>3. \A j \in y.held : j[2] <= y.item
    <3>1. x.item <= x.item  BY <2>2
    <3> QED BY <1>2, <1>13, <2>2, <3>1 DEF LockOrder
  <2>4. ASSUME at = "balances" PROVE Rows(y) \ y.held # {}
    BY <2>4, <1>3, <1>10, <1>13, <1>14
  <2>5. ASSUME at = "balances", NEW h \in y.held, NEW j \in Rows(y) \ y.held, h[2] = y.item
        PROVE  h[1] < j[1]
    <3>1. j \in RowsLeft(w) /\ j # k  BY <1>3, <1>13, <1>14
    <3>2. CASE h = k
      <4>1. k[1] <= j[1]  BY <1>4, <3>1
      <4>2. k[1] # j[1]  BY <1>3, <1>4, <1>5, <3>1
      <4>3. k[1] \in Int /\ j[1] \in Int  BY <1>3, <1>4, <1>5, <3>1, IdAssumption
      <4> QED BY <3>2, <4>1, <4>2, <4>3
    <3>3. CASE h # k  BY <1>1, <1>2, <1>3, <1>13, <2>5, <3>1, <3>3 DEF LockOrder
    <3> QED BY <3>2, <3>3
  <2> QED BY <1>7, <1>13, <2>1, <2>3, <2>4, <2>5 DEF LockOrder
<1>17. Whole(y)  BY <1>1, <1>2, <1>7, <1>13, <1>14 DEF Whole
<1>18. Backed(y)  BY <1>1, <1>2, <1>8, <1>13, <1>14 DEF Backed
<1>20. Claimed(y) /\ Summed(y)  BY <1>1, <1>2, <1>7, <1>13 DEF Claimed, Summed
<1>19. \A v \in Workers \ {w} : tx[v].held \cap y.held = {} /\ tx[v].ids \cap y.ids = {}
  <2>1. \A v \in Workers \ {w} : k \notin tx[v].held  BY <1>6 DEF RowFree, Others
  <2> QED BY <1>13, <2>1, HeldApart
<1> QED BY <1>1, <1>11, <1>12, <1>15, <1>16, <1>17, <1>18, <1>19, <1>20, TxStep
    DEF TxInv

LEMMA PostStep ==
    ASSUME IInv, NEW w \in Workers, Post(w)
    PROVE  IInv'
<1> DEFINE x == tx[w]
           y == [NextLine(w) EXCEPT !.written = @ \cup {x.item}]
<1>1. x.at = "write" /\ UNCHANGED shared /\ tx' = [tx EXCEPT ![w] = y]
  BY DEF Post, shared, stock, settings
<1>2. NextLine(w) \in TxRecords /\ NextLine(w).ids = x.ids /\ NextLine(w).req = x.req
      /\ NextLine(w).shares = x.shares /\ NextLine(w).held = x.held
      /\ NextLine(w).wasLow = x.wasLow /\ NextLine(w).written = x.written
  BY NextLineFacts
<1>3. /\ y \in TxRecords
      /\ y.at = NextLine(w).at /\ y.item = NextLine(w).item
      /\ y.ids = x.ids /\ y.req = x.req
      /\ y.shares = x.shares /\ y.held = x.held /\ y.wasLow = x.wasLow
      /\ y.written = x.written \cup {x.item}
  <2> DEFINE n == NextLine(w)
             more == x.written \cup {x.item}
  <2>1. n \in TxRecords /\ n.ids = x.ids /\ n.req = x.req /\ n.shares = x.shares
        /\ n.held = x.held /\ n.wasLow = x.wasLow /\ n.written = x.written
    BY <1>2
  <2>2. more \subseteq Items  BY Here
  <2>3. y = [n EXCEPT !.written = more]  BY <2>1
  <2> HIDE DEF n, more, x, y
  <2>4. y \in TxRecords /\ y.at = n.at /\ y.item = n.item
    BY <2>1, <2>2, <2>3 DEF TxRecords
  <2>5. y.ids = n.ids /\ y.req = n.req /\ y.shares = n.shares
    BY <2>1, <2>3 DEF TxRecords
  <2>6. y.held = n.held /\ y.wasLow = n.wasLow /\ y.written = more
    BY <2>1, <2>3 DEF TxRecords
  <2> QED BY <2>1, <2>4, <2>5, <2>6 DEF n, more
<1> HIDE DEF y
<1>4. \A k \in Rows(x) : Delta[x.req][k] < 0 =>
        balance[k] + Delta[x.req][k] >= 0 \/ MayGoNegative(k[1])
  <2>1. Backed(x)  BY Here DEF TxInv
  <2>2. \A k \in Rows(x) : Accepts(w, k)  BY DEF Post, Rows
  <2> QED BY <1>1, <2>1, <2>2 DEF Accepts, Backed
<1>5. TxInv(y)  BY <1>1, <1>3, <1>4, LineDone
<1>6. \A v \in Workers \ {w} : tx[v].held \cap y.held = {} /\ tx[v].ids \cap y.ids = {}
  BY <1>3, HeldApart
<1> QED BY <1>1, <1>3, <1>5, <1>6, TxStep

----------------------------------------------------------------------------
(* The transitions of a rebuild. *)
LEMMA StartRebuildStep ==
    ASSUME IInv, NEW w \in Workers, StartRebuild(w)
    PROVE  IInv'
<1> DEFINE y == [tx[w] EXCEPT !.at = "rebuild", !.todo = Drifted]
<1>1. tx[w] = NoTx
  <2>1. Shape(tx[w]) /\ tx[w].at = "idle"  BY Here DEF TxInv, StartRebuild
  <2> QED BY <2>1 DEF Shape
<1>2. Drifted \subseteq Keys  BY DEF Drifted
<1>3. tx' = [tx EXCEPT ![w] = y] /\ y \in TxRecords
  BY Here, <1>2 DEF StartRebuild, TxRecords
<1>4. /\ y.at = "rebuild" /\ y.ids = {} /\ y.shares = {}
      /\ y.held = {} /\ y.wasLow = {} /\ y.written = {}
  BY <1>1 DEF NoTx
<1> HIDE DEF y
<1>5. ~Posts(y) /\ WLegs(y) = {}  BY <1>4 DEF Posts, WLegs
<1>6. Shape(y) /\ LockOrder(y) /\ Whole(y) /\ Backed(y) /\ Claimed(y) /\ Summed(y)
  BY <1>4, <1>5 DEF Shape, LockOrder, Whole, Backed, Claimed, Summed
<1>7. UNCHANGED shared  BY DEF StartRebuild, shared, stock, settings
<1> QED BY <1>3, <1>4, <1>6, <1>7, TxStep DEF TxInv

LEMMA RebuildRowStep ==
    ASSUME IInv, NEW w \in Workers, RebuildRow(w)
    PROVE  IInv'
<1> DEFINE x == tx[w]
           k == NextRow(w)
           low == IF IsLow(k, balance) THEN x.wasLow \cup {k} ELSE x.wasLow
           sum == [x.sum EXCEPT ![k] = LedgerSum(k)]
           y == [x EXCEPT !.held = @ \cup {k}, !.todo = @ \ {k}, !.wasLow = low, !.sum = sum]
<1>1. x.at = "rebuild" /\ UNCHANGED shared
  BY DEF RebuildRow, shared, stock, settings
<1>2. Shape(x) /\ Backed(x) /\ Summed(x) /\ x \in TxRecords  BY Here DEF TxInv
<1>3. k \in x.todo /\ k \in Keys /\ x.todo \subseteq Keys
  <2>1. x.todo # {} /\ x.todo \subseteq Keys  BY <1>2 DEF RebuildRow, TxRecords
  <2> QED BY <1>1, <2>1, NextRowOfRebuild
<1>4. tx' = [tx EXCEPT ![w].held = @ \cup {k}, ![w].todo = @ \ {k},
                       ![w].wasLow = IF IsLow(k, balance) THEN @ \cup {k} ELSE @,
                       ![w].sum[k] = LedgerSum(k)]
      /\ \A v \in Workers \ {w} : k \notin tx[v].held
  BY DEF RebuildRow, RowFree, Others
<1> HIDE DEF k
<1>5. LedgerSum(k) \in Int  BY <1>3, SumType
<1>6. low = {j \in x.held \cup {k} : IsLow(j, balance)} /\ low \subseteq Keys
  <2>1. x.wasLow = {j \in x.held : IsLow(j, balance)}  BY <1>2 DEF Backed
  <2>2. x.held \subseteq Keys  BY Here
  <2> QED BY <1>3, <2>1, <2>2
<1>7. tx' = [tx EXCEPT ![w] = y]
  <2> HIDE DEF k
  <2> QED BY <1>4, Here
<1>8. sum \in [Keys -> Int] /\ sum[k] = LedgerSum(k) /\ \A j \in Keys \ {k} : sum[j] = x.sum[j]
  BY <1>2, <1>3, <1>5 DEF TxRecords
<1> HIDE DEF low, sum
<1>9. y \in TxRecords  BY <1>2, <1>3, <1>6, <1>8 DEF TxRecords
<1>10. /\ y.at = "rebuild" /\ y.ids = x.ids /\ y.shares = x.shares
       /\ y.held = x.held \cup {k} /\ y.wasLow = low /\ y.written = x.written /\ y.sum = sum
  BY <1>1, <1>2 DEF TxRecords
<1> HIDE DEF y
<1>11. ~Posts(y) /\ WLegs(y) = {} /\ y.written = {} /\ y.shares = {}
  BY <1>1, <1>2, <1>10 DEF Posts, WLegs, Shape
<1>12. Shape(y) /\ LockOrder(y) /\ Whole(y) /\ Claimed(y)
  BY <1>10, <1>11 DEF Shape, LockOrder, Whole, Claimed
<1>13. Backed(y)  BY <1>6, <1>10, <1>11 DEF Backed
<1>14. Summed(y)
  <2>1. \A j \in y.held : j \in Keys /\ (j = k \/ j \in x.held)  BY <1>3, <1>10, Here
  <2> QED BY <1>1, <1>2, <1>8, <1>10, <2>1 DEF Summed
<1>15. \A v \in Workers \ {w} : tx[v].held \cap y.held = {} /\ tx[v].ids \cap y.ids = {}
  BY <1>4, <1>10, HeldApart
<1> QED BY <1>1, <1>7, <1>9, <1>12, <1>13, <1>14, <1>15, TxStep DEF TxInv

----------------------------------------------------------------------------
(* Steps that change balances, the ledger or a setting. What a transaction  *)
(* relies on is behind its locks.                                           *)
LEMMA Kept ==
    ASSUME NEW v \in Workers, NEW x \in TxRecords, tx'[v] = x, TxInv(x),
           \A k \in x.held : /\ balance'[k] = balance[k] /\ threshold'[k] = threshold[k]
                             /\ Posted(k)' = Posted(k),
           \A l \in x.shares : location'[l] = location[l],
           tenant.lenient => tenant'.lenient,
           ledger \subseteq ledger',
           \A r \in Requests, i \in Items :
               <<r, i>> \in ledger' /\ <<r, i>> \notin ledger => <<Source[r], i>> \notin x.ids
    PROVE  TxInv(tx[v])'
<1>1. Shape(x) /\ LockOrder(x) /\ Whole(x) /\ Backed(x) /\ Claimed(x) /\ Summed(x)
  BY DEF TxInv
<1>2. Shape(tx[v])'  BY <1>1 DEF Shape, Posts, Rows, WLegs
<1>3. LockOrder(tx[v])'  BY <1>1 DEF LockOrder, Posts, Rows
<1>4. Whole(tx[v])'  BY <1>1 DEF Whole, Posts
<1>5. Backed(tx[v])'
  <2>1. \A l \in x.shares : MayGoNegative(l) => MayGoNegative(l)'  BY DEF MayGoNegative
  <2>2. \A k \in x.held : IsLow(k, balance)' <=> IsLow(k, balance)  BY DEF IsLow
  <2>3. \A k \in WLegs(x) : k \in x.held /\ k[1] \in x.shares  BY <1>1 DEF Shape
  <2>4. x.at \in {"balances", "write"} => \A k \in Rows(x) : k[1] \in x.shares
    BY <1>1 DEF Shape
  <2>5. \A l \in x.shares : location'[l].status = "active"  BY <1>1 DEF Backed
  <2>6. x.at \in {"balances", "write"} =>
          \A k \in Rows(x) : k[1] \in x.allow => MayGoNegative(k[1])'
    BY <1>1, <2>1, <2>4 DEF Backed
  <2>7. \A k \in WLegs(x) : Delta[x.req][k] < 0 =>
          balance'[k] + Delta[x.req][k] >= 0 \/ MayGoNegative(k[1])'
    BY <1>1, <2>1, <2>3 DEF Backed
  <2>8. x.wasLow = {k \in x.held : IsLow(k, balance)'}  BY <1>1, <2>2 DEF Backed
  <2> QED BY <2>5, <2>6, <2>7, <2>8 DEF Backed, Rows, WLegs
<1>6. Claimed(tx[v])'
  <2>1. x.req \in Requests /\ x.item \in Items /\ x.written \subseteq Items  BY DEF TxRecords
  <2>2. \A i \in x.written : <<Source[x.req], i>> \in x.ids /\ <<x.req, i>> \notin ledger'
    BY <1>1, <2>1 DEF Claimed
  <2>3. x.at \in {"locations", "balances", "write"} =>
          <<Source[x.req], x.item>> \in x.ids /\ <<x.req, x.item>> \notin ledger'
    BY <1>1, <2>1 DEF Claimed
  <2> QED BY <2>2, <2>3 DEF Claimed
<1>7. Summed(tx[v])'
  <2>1. \A k \in x.held : LedgerSum(k)' = LedgerSum(k)  BY DEF LedgerSum
  <2> QED BY <1>1, <2>1 DEF Summed
<1> QED BY <1>2, <1>3, <1>4, <1>5, <1>6, <1>7 DEF TxInv

(* What the commit of a document posts: its written legs, once. *)
LEMMA CommitPosts ==
    ASSUME IInv, NEW w \in Workers, Commit(w), NEW k \in Keys
    PROVE  LET r == tx[w].req W == WLegs(tx[w]) IN
           /\ k \in W => /\ r \notin Posted(k) /\ Posted(k)' = Posted(k) \cup {r}
                         /\ k \in tx[w].held /\ Delta[r][k] \in Int
                         /\ balance'[k] = balance[k] + Delta[r][k] /\ moves'[k] = moves[k] + 1
           /\ k \notin W => /\ Posted(k)' = Posted(k)
                            /\ balance'[k] = balance[k] + 0 /\ moves'[k] = moves[k] + 0
<1> DEFINE r == tx[w].req
           W == WLegs(tx[w])
<1>1. Shape(tx[w]) /\ Claimed(tx[w])  BY Here DEF TxInv
<1>2. ledger' = ledger \cup {<<r, i>> : i \in tx[w].written}  BY DEF Commit
<1>3. /\ balance'[k] = balance[k] + IF k \in W THEN Delta[r][k] ELSE 0
      /\ moves'[k] = moves[k] + IF k \in W THEN 1 ELSE 0
  BY DEF Commit, WrittenLegs, WLegs
<1>4. ASSUME k \in W
      PROVE  /\ r \notin Posted(k) /\ Posted(k)' = Posted(k) \cup {r}
             /\ k \in tx[w].held /\ Delta[r][k] \in Int
  <2>1. PICK i \in tx[w].written : k \in Legs(r, i)  BY <1>4 DEF WLegs
  <2>2. i \in Items /\ r \in Requests  BY Here
  <2>3. k[2] = i /\ Delta[r][k] # 0 /\ Delta[r][k] \in Int  BY <2>1, <2>2, LegFacts
  <2>4. <<r, i>> \notin ledger /\ <<r, i>> \in ledger'  BY <1>1, <1>2, <2>1 DEF Claimed
  <2>5. \A q \in Requests : <<q, i>> \in ledger' <=> <<q, i>> \in ledger \/ q = r
    BY <1>2, <2>1
  <2>6. r \notin Posted(k)  BY <2>3, <2>4 DEF Posted
  <2>7. Posted(k)' = Posted(k) \cup {r}  BY <2>2, <2>3, <2>5 DEF Posted
  <2> QED BY <1>1, <1>4, <2>3, <2>6, <2>7 DEF Shape
<1>5. ASSUME k \notin W PROVE Posted(k)' = Posted(k)
  <2>1. ASSUME NEW q \in Requests, <<q, k[2]>> \in ledger', <<q, k[2]>> \notin ledger
        PROVE  Delta[q][k] = 0
    <3>1. q = r /\ k[2] \in tx[w].written  BY <1>2, <2>1
    <3>2. k \notin Legs(r, k[2])  BY <1>5, <3>1 DEF WLegs
    <3> QED BY <3>1, <3>2 DEF Legs
  <2>2. ledger \subseteq ledger'  BY <1>2
  <2> QED BY <2>1, <2>2 DEF Posted
<1> QED BY <1>3, <1>4, <1>5

LEMMA CommitStep ==
    ASSUME IInv, NEW w \in Workers, Commit(w)
    PROVE  IInv'
<1> DEFINE x == tx[w]
           r == x.req
           W == WLegs(x)
<1>1. Shape(x) /\ Whole(x) /\ Backed(x) /\ Claimed(x) /\ x \in TxRecords
      /\ x.at = "commit" /\ Posts(x) /\ r \in Requests
  BY Here DEF TxInv, Commit, Posts
<1>2. /\ ledger' = ledger \cup {<<r, i>> : i \in x.written}
      /\ tx' = Ended(w) /\ UNCHANGED <<settings, drift, drifts>>
  BY DEF Commit
<1>3. tx'[w] = NoTx /\ \A v \in Workers \ {w} : tx'[v] = tx[v]
  BY <1>2, Here DEF Ended
<1>4. \A k \in Keys : balance[k] \in Int /\ moves[k] \in Nat /\ lows[k] \in Int /\ drift[k] \in Int
  BY DEF IInv, TypeOK
<1>5. W \subseteq x.held  BY <1>1 DEF Shape
<1>6. \A k \in Keys \ W : /\ balance'[k] = balance[k] /\ moves'[k] = moves[k]
                          /\ Posted(k)' = Posted(k)
  BY <1>4, CommitPosts
<1>7. \A v \in Workers \ {w} : TxInv(tx[v])'
  <2> TAKE v \in Workers \ {w}
  <2>1. tx[v] \in TxRecords /\ TxInv(tx[v]) /\ tx[v].held \subseteq Keys  BY Here
  <2>2. \A k \in tx[v].held : k \in Keys \ W  BY <1>5, <2>1, HeldApart
  <2>3. ASSUME NEW q \in Requests, NEW i \in Items, <<q, i>> \in ledger', <<q, i>> \notin ledger
        PROVE  <<Source[q], i>> \notin tx[v].ids
    <3>1. q = r /\ i \in x.written  BY <1>2, <2>3
    <3>2. <<Source[r], i>> \in x.ids  BY <1>1, <3>1 DEF Claimed
    <3> QED BY <3>1, <3>2, HeldApart
  <2>4. UNCHANGED <<threshold, location, tenant>> /\ ledger \subseteq ledger'
    BY <1>2 DEF settings
  <2>5. \A k \in tx[v].held : /\ balance'[k] = balance[k] /\ threshold'[k] = threshold[k]
                               /\ Posted(k)' = Posted(k)
    BY <1>6, <2>2, <2>4
  <2> HIDE DEF x, W
  <2> QED BY <1>3, <2>1, <2>3, <2>4, <2>5, Kept
<1>8. TxInv(tx[w])'
  <2>1. NoTx.held = {} /\ NoTx.ids = {} /\ NoTx.shares = {}  BY DEF NoTx
  <2> QED BY <1>2, <1>3, <2>1, NoTxFacts, Kept DEF settings
<1>9. TypeOK'
  <2>1. balance' \in [Keys -> Int]
    <3>1. \A k \in Keys : balance'[k] \in Int  BY <1>4, CommitPosts
    <3>2. balance' = [k \in Keys |-> balance'[k]]  BY DEF Commit
    <3> QED BY <3>1, <3>2
  <2>2. moves' \in [Keys -> Nat]
    <3>1. \A k \in Keys : moves'[k] \in Nat  BY <1>4, CommitPosts
    <3>2. moves' = [k \in Keys |-> moves'[k]]  BY DEF Commit
    <3> QED BY <3>1, <3>2
  <2>3. lows' \in [Keys -> Int]  BY <1>4 DEF Commit, Signalled
  <2>4. ledger' \subseteq Requests \X Items  BY <1>1, <1>2, Here DEF IInv, TypeOK
  <2>5. tx' \in [Workers -> TxRecords]  BY <1>2, Here, NoTxFacts DEF Ended
  <2> QED BY <1>2, <2>1, <2>2, <2>3, <2>4, <2>5 DEF IInv, TypeOK, settings
<1>10. Exclusive'
  <2>1. NoTx.held = {} /\ NoTx.ids = {}  BY DEF NoTx
  <2>2. \A v, u \in Workers : v # u => tx[v].held \cap tx[u].held = {} /\ tx[v].ids \cap tx[u].ids = {}
    BY DEF IInv, Exclusive
  <2> QED BY <1>3, <2>1, <2>2 DEF Exclusive
<1>11. Lenient'  BY <1>2 DEF IInv, Lenient, settings
<1>12. BalanceFollowsLedger'
  <2> SUFFICES ASSUME NEW k \in Keys
               PROVE  /\ balance'[k] = LedgerSum(k)' + drift'[k]
                      /\ moves'[k] = Cardinality(Posted(k)')
    BY DEF BalanceFollowsLedger
  <2>1. balance[k] = LedgerSum(k) + drift[k] /\ moves[k] = Cardinality(Posted(k))
    BY DEF IInv, BalanceFollowsLedger
  <2>2. CASE k \notin W  BY <1>2, <1>6, <2>1, <2>2 DEF LedgerSum
  <2>3. CASE k \in W
    <3>1. /\ r \notin Posted(k) /\ Posted(k)' = Posted(k) \cup {r} /\ Delta[r][k] \in Int
          /\ balance'[k] = balance[k] + Delta[r][k] /\ moves'[k] = moves[k] + 1
      BY <2>3, CommitPosts
    <3>2. (Posted(k) \cup {r}) \ {r} = Posted(k) /\ Posted(k) \cup {r} \in SUBSET Requests
      BY <1>1, <3>1 DEF Posted
    <3>3. Sums(k)[Posted(k) \cup {r}] = Delta[r][k] + Sums(k)[Posted(k)]
      BY <3>2, SumsRemove
    <3>4. LedgerSum(k)' = Delta[r][k] + LedgerSum(k)  BY <3>1, <3>3 DEF LedgerSum
    <3>5. Cardinality(Posted(k) \cup {r}) = Cardinality(Posted(k)) + 1
      BY <3>1, PostedFinite, FS_AddElement
    <3>6. LedgerSum(k) \in Int /\ drift'[k] = drift[k]  BY SumType, <1>2
    <3> QED BY <1>4, <2>1, <3>1, <3>4, <3>5, <3>6
  <2> QED BY <2>2, <2>3
<1>13. LowCountersAgree'
  <2> SUFFICES ASSUME drifts = 0, NEW k \in Keys
               PROVE  lows'[k] = IF IsLow(k, balance)' THEN 1 ELSE 0
    BY <1>2 DEF LowCountersAgree
  <2>1. lows[k] = IF IsLow(k, balance) THEN 1 ELSE 0  BY DEF IInv, LowCountersAgree
  <2>2. threshold' = threshold  BY <1>2 DEF settings
  <2>3. lows'[k] = lows[k] + IF k \in W THEN Signalled(w, k, balance') ELSE 0
    BY DEF Commit, WrittenLegs, WLegs
  <2>4. CASE k \notin W  BY <1>4, <1>6, <2>1, <2>2, <2>3, <2>4 DEF IsLow
  <2>5. CASE k \in W
    <3>1. k \in x.wasLow <=> IsLow(k, balance)  BY <1>1, <1>5, <2>5 DEF Backed
    <3>2. IsLow(k, balance)' <=> IsLow(k, balance')  BY <2>2 DEF IsLow
    <3>3. Signalled(w, k, balance') = (IF IsLow(k, balance') THEN 1 ELSE 0) - lows[k]
      BY <2>1, <3>1 DEF Signalled
    <3>4. (IF IsLow(k, balance') THEN 1 ELSE 0) \in Int  OBVIOUS
    <3> QED BY <1>4, <2>3, <2>5, <3>2, <3>3, <3>4
  <2> QED BY <2>4, <2>5
<1>14. AllLinesOrNone'
  <2> SUFFICES ASSUME NEW q \in Requests, NEW i \in ItemsOf(q), NEW j \in ItemsOf(q),
                      <<q, i>> \in ledger'
               PROVE  <<q, j>> \in ledger'
    BY DEF AllLinesOrNone
  <2>1. CASE <<q, i>> \in ledger  BY <1>2, <2>1 DEF IInv, AllLinesOrNone
  <2>2. CASE <<q, i>> \notin ledger
    <3>1. q = r  BY <1>2, <2>2
    <3>2. j \in x.written \/ <<r, j>> \in ledger  BY <1>1, <3>1 DEF Whole
    <3> QED BY <1>2, <3>1, <3>2
  <2> QED BY <2>1, <2>2
<1>15. \A v \in Workers : TxInv(tx[v])'
  <2> TAKE v \in Workers
  <2>1. v = w \/ v \in Workers \ {w}  OBVIOUS
  <2> QED BY <1>7, <1>8, <2>1
<1> QED BY <1>9, <1>10, <1>11, <1>12, <1>13, <1>14, <1>15 DEF IInv

LEMMA CommitRebuildStep ==
    ASSUME IInv, NEW w \in Workers, CommitRebuild(w)
    PROVE  IInv'
<1> DEFINE x == tx[w]
<1>1. Shape(x) /\ Backed(x) /\ Summed(x) /\ x \in TxRecords /\ x.at = "rebuild"
      /\ x.held \subseteq Keys
  BY Here DEF TxInv, CommitRebuild
<1>2. tx' = Ended(w) /\ UNCHANGED <<ledger, settings, drifts>>  BY DEF CommitRebuild
<1>3. tx'[w] = NoTx /\ \A v \in Workers \ {w} : tx'[v] = tx[v]
  BY <1>2, Here DEF Ended
<1>4. \A k \in Keys : balance[k] \in Int /\ moves[k] \in Nat /\ lows[k] \in Int /\ drift[k] \in Int
  BY DEF IInv, TypeOK
<1>5. \A k \in Keys : Posted(k)' = Posted(k) /\ LedgerSum(k)' = LedgerSum(k)
  BY <1>2 DEF Posted, LedgerSum
<1>6. \A k \in x.held : /\ balance'[k] = LedgerSum(k) /\ moves'[k] = Cardinality(Posted(k))
                        /\ drift'[k] = 0
                        /\ lows'[k] = lows[k] + Signalled(w, k, balance')
  BY <1>1 DEF CommitRebuild, Summed
<1>7. \A k \in Keys \ x.held : /\ balance'[k] = balance[k] /\ moves'[k] = moves[k]
                               /\ drift'[k] = drift[k] /\ lows'[k] = lows[k]
  BY <1>4 DEF CommitRebuild
<1>8. \A v \in Workers \ {w} : TxInv(tx[v])'
  <2> TAKE v \in Workers \ {w}
  <2>1. tx[v] \in TxRecords /\ TxInv(tx[v]) /\ tx[v].held \subseteq Keys  BY Here
  <2>2. \A k \in tx[v].held : k \in Keys \ x.held  BY <2>1, HeldApart
  <2>3. UNCHANGED <<threshold, location, tenant, ledger>>  BY <1>2 DEF settings
  <2>4. \A k \in tx[v].held : /\ balance'[k] = balance[k] /\ threshold'[k] = threshold[k]
                               /\ Posted(k)' = Posted(k)
    BY <1>5, <1>7, <2>2, <2>3
  <2> HIDE DEF x
  <2> QED BY <1>3, <2>1, <2>3, <2>4, Kept
<1>9. TxInv(tx[w])'
  <2>1. NoTx.held = {} /\ NoTx.ids = {} /\ NoTx.shares = {}  BY DEF NoTx
  <2> QED BY <1>2, <1>3, <2>1, NoTxFacts, Kept DEF settings
<1>10. TypeOK'
  <2>1. balance' \in [Keys -> Int]
    <3>1. \A k \in Keys : balance'[k] \in Int  BY <1>4, <1>6, <1>7, SumType
    <3>2. balance' = [k \in Keys |-> balance'[k]]  BY DEF CommitRebuild
    <3> QED BY <3>1, <3>2
  <2>2. moves' \in [Keys -> Nat]
    <3>1. \A k \in Keys : moves'[k] \in Nat  BY <1>4, <1>6, <1>7, PostedFinite
    <3>2. moves' = [k \in Keys |-> moves'[k]]  BY DEF CommitRebuild
    <3> QED BY <3>1, <3>2
  <2>3. lows' \in [Keys -> Int]  BY <1>4 DEF CommitRebuild, Signalled
  <2>4. drift' \in [Keys -> Int]  BY <1>4 DEF CommitRebuild
  <2>5. tx' \in [Workers -> TxRecords]  BY <1>2, Here, NoTxFacts DEF Ended
  <2> QED BY <1>2, <2>1, <2>2, <2>3, <2>4, <2>5 DEF IInv, TypeOK, settings
<1>11. Exclusive'
  <2>1. NoTx.held = {} /\ NoTx.ids = {}  BY DEF NoTx
  <2>2. \A v, u \in Workers : v # u => tx[v].held \cap tx[u].held = {} /\ tx[v].ids \cap tx[u].ids = {}
    BY DEF IInv, Exclusive
  <2> QED BY <1>3, <2>1, <2>2 DEF Exclusive
<1>12. Lenient' /\ AllLinesOrNone'  BY <1>2 DEF IInv, Lenient, AllLinesOrNone, settings
<1>13. BalanceFollowsLedger'
  <2> SUFFICES ASSUME NEW k \in Keys
               PROVE  /\ balance'[k] = LedgerSum(k)' + drift'[k]
                      /\ moves'[k] = Cardinality(Posted(k)')
    BY DEF BalanceFollowsLedger
  <2>1. balance[k] = LedgerSum(k) + drift[k] /\ moves[k] = Cardinality(Posted(k))
        /\ LedgerSum(k) \in Int
    BY SumType DEF IInv, BalanceFollowsLedger
  <2>2. CASE k \in x.held  BY <1>5, <1>6, <2>1, <2>2
  <2>3. CASE k \notin x.held  BY <1>5, <1>7, <2>1, <2>3
  <2> QED BY <2>2, <2>3
<1>14. LowCountersAgree'
  <2> SUFFICES ASSUME drifts = 0, NEW k \in Keys
               PROVE  lows'[k] = IF IsLow(k, balance)' THEN 1 ELSE 0
    BY <1>2 DEF LowCountersAgree
  <2>1. lows[k] = IF IsLow(k, balance) THEN 1 ELSE 0  BY DEF IInv, LowCountersAgree
  <2>2. threshold' = threshold  BY <1>2 DEF settings
  <2>4. CASE k \notin x.held  BY <1>4, <1>7, <2>1, <2>2, <2>4 DEF IsLow
  <2>5. CASE k \in x.held
    <3>1. k \in x.wasLow <=> IsLow(k, balance)  BY <1>1, <2>5 DEF Backed
    <3>2. IsLow(k, balance)' <=> IsLow(k, balance')  BY <2>2 DEF IsLow
    <3>3. Signalled(w, k, balance') = (IF IsLow(k, balance') THEN 1 ELSE 0) - lows[k]
      BY <2>1, <3>1 DEF Signalled
    <3>4. (IF IsLow(k, balance') THEN 1 ELSE 0) \in Int  OBVIOUS
    <3> QED BY <1>4, <1>6, <2>5, <3>2, <3>3, <3>4
  <2> QED BY <2>4, <2>5
<1>15. \A v \in Workers : TxInv(tx[v])'
  <2> TAKE v \in Workers
  <2>1. v = w \/ v \in Workers \ {w}  OBVIOUS
  <2> QED BY <1>8, <1>9, <2>1
<1> QED BY <1>10, <1>11, <1>12, <1>13, <1>14, <1>15 DEF IInv

(* A step outside all transactions keeps what each of them relies on. *)
LEMMA OutsideStep ==
    ASSUME IInv, UNCHANGED <<tx, ledger>>,
           \A v \in Workers, k \in Keys : k \in tx[v].held =>
               balance'[k] = balance[k] /\ threshold'[k] = threshold[k],
           \A v \in Workers : \A l \in tx[v].shares : location'[l] = location[l],
           tenant.lenient => tenant'.lenient
    PROVE  /\ \A v \in Workers : TxInv(tx[v])'
           /\ Exclusive' /\ AllLinesOrNone'
<1>1. ASSUME NEW v \in Workers PROVE TxInv(tx[v])'
  <2>1. tx[v] \in TxRecords /\ TxInv(tx[v]) /\ tx[v].held \subseteq Keys  BY Here
  <2>2. \A k \in tx[v].held : /\ balance'[k] = balance[k] /\ threshold'[k] = threshold[k]
                               /\ Posted(k)' = Posted(k)
    BY <2>1 DEF Posted
  <2> QED BY <2>1, <2>2, Kept
<1>2. Exclusive' /\ AllLinesOrNone'  BY DEF IInv, Exclusive, AllLinesOrNone
<1> QED BY <1>1, <1>2

LEMMA DriftStep ==
    ASSUME IInv, NEW k \in Keys, Drift(k)
    PROVE  IInv'
<1>1. /\ balance' = [balance EXCEPT ![k] = @ + 1] /\ drift' = [drift EXCEPT ![k] = @ + 1]
      /\ drifts' = drifts + 1 /\ UNCHANGED <<moves, ledger, lows, tx, settings>> /\ Unlocked(k)
  BY DEF Drift
<1>2. balance \in [Keys -> Int] /\ drift \in [Keys -> Int] /\ drifts \in Nat  BY DEF IInv, TypeOK
<1>3. \A v \in Workers, j \in Keys : j \in tx[v].held =>
        balance'[j] = balance[j] /\ threshold'[j] = threshold[j]
  BY <1>1, <1>2 DEF Unlocked, settings
<1>4. (\A v \in Workers : TxInv(tx[v])') /\ Exclusive' /\ AllLinesOrNone'
  BY <1>1, <1>3, OutsideStep DEF settings
<1>5. TypeOK'  BY <1>1, <1>2 DEF IInv, TypeOK, settings
<1>6. Lenient' /\ LowCountersAgree'
  BY <1>1, <1>2 DEF IInv, Lenient, LowCountersAgree, settings
<1>7. BalanceFollowsLedger'
  <2> SUFFICES ASSUME NEW j \in Keys
               PROVE  /\ balance'[j] = LedgerSum(j)' + drift'[j]
                      /\ moves'[j] = Cardinality(Posted(j)')
    BY DEF BalanceFollowsLedger
  <2>1. balance[j] = LedgerSum(j) + drift[j] /\ moves[j] = Cardinality(Posted(j))
        /\ LedgerSum(j) \in Int
    BY SumType DEF IInv, BalanceFollowsLedger
  <2>2. Posted(j)' = Posted(j) /\ LedgerSum(j)' = LedgerSum(j)  BY <1>1 DEF Posted, LedgerSum
  <2> QED BY <1>1, <1>2, <2>1, <2>2
<1> QED BY <1>4, <1>5, <1>6, <1>7 DEF IInv

LEMMA SettingsStep ==
    ASSUME IInv, Settings
    PROVE  IInv'
<1>1. balance \in [Keys -> Int] /\ lows \in [Keys -> Int] /\ changes \in Nat
      /\ threshold \in [Keys -> Thresholds \cup {NoThreshold}]
      /\ location \in [Locations -> [status : {"active", "inactive"},
                                      policy : {"forbid", "allow", "inherit"}]]
      /\ tenant \in [policy : {"forbid", "allow"}, lenient : BOOLEAN]
  BY DEF IInv, TypeOK
<1>2. \A v \in Workers : tx[v].shares \subseteq Locations  BY Here DEF TxRecords
<1>3. ASSUME NEW l \in Locations, NEW s \in {"active", "inactive"}, SetStatus(l, s)
      PROVE  IInv'
  <2>1. /\ location' = [location EXCEPT ![l].status = s] /\ changes' = changes + 1
        /\ UNCHANGED <<stock, threshold, tenant, tx, drifts>>
        /\ \A v \in Workers : l \notin tx[v].shares
    BY <1>3 DEF SetStatus, Changed
  <2>2. \A v \in Workers : \A m \in tx[v].shares : location'[m] = location[m]
    BY <1>1, <1>2, <2>1
  <2>3. (\A v \in Workers : TxInv(tx[v])') /\ Exclusive' /\ AllLinesOrNone'
    BY <2>1, <2>2, OutsideStep DEF stock
  <2>4. TypeOK'  BY <1>1, <2>1 DEF IInv, TypeOK, stock
  <2>5. Lenient' /\ LowCountersAgree' /\ BalanceFollowsLedger'
    BY <2>1 DEF IInv, Lenient, LowCountersAgree, IsLow, BalanceFollowsLedger, LedgerSum, Posted, stock
  <2> QED BY <2>3, <2>4, <2>5 DEF IInv
<1>4. ASSUME NEW l \in Locations, NEW p \in {"forbid", "allow", "inherit"}, SetLocationPolicy(l, p)
      PROVE  IInv'
  <2>1. /\ location' = [location EXCEPT ![l].policy = p] /\ changes' = changes + 1
        /\ UNCHANGED <<stock, threshold, tenant, tx, drifts>>
        /\ \A v \in Workers : l \notin tx[v].shares
    BY <1>4 DEF SetLocationPolicy, Changed
  <2>2. \A v \in Workers : \A m \in tx[v].shares : location'[m] = location[m]
    BY <1>1, <1>2, <2>1
  <2>3. (\A v \in Workers : TxInv(tx[v])') /\ Exclusive' /\ AllLinesOrNone'
    BY <2>1, <2>2, OutsideStep DEF stock
  <2>4. TypeOK'  BY <1>1, <2>1 DEF IInv, TypeOK, stock
  <2>5. Lenient' /\ LowCountersAgree' /\ BalanceFollowsLedger'
    BY <2>1 DEF IInv, Lenient, LowCountersAgree, IsLow, BalanceFollowsLedger, LedgerSum, Posted, stock
  <2> QED BY <2>3, <2>4, <2>5 DEF IInv
<1>5. ASSUME NEW p \in {"forbid", "allow"}, SetTenantPolicy(p)
      PROVE  IInv'
  <2>1. /\ tenant' = [policy |-> p, lenient |-> tenant.lenient \/ p = "allow"]
        /\ changes' = changes + 1
        /\ UNCHANGED <<stock, threshold, location, tx, drifts>>
    BY <1>5 DEF SetTenantPolicy, Changed
  <2>2. tenant.lenient => tenant'.lenient  BY <2>1
  <2>3. (\A v \in Workers : TxInv(tx[v])') /\ Exclusive' /\ AllLinesOrNone'
    BY <2>1, <2>2, OutsideStep DEF stock
  <2>4. tenant' \in [policy : {"forbid", "allow"}, lenient : BOOLEAN]
    <3>1. (tenant.lenient \/ p = "allow") \in BOOLEAN  OBVIOUS
    <3> QED BY <2>1, <3>1
  <2>5. TypeOK'  BY <1>1, <2>1, <2>4 DEF IInv, TypeOK, stock
  <2>6. Lenient' /\ LowCountersAgree' /\ BalanceFollowsLedger'
    BY <2>1 DEF IInv, Lenient, LowCountersAgree, IsLow, BalanceFollowsLedger, LedgerSum, Posted, stock
  <2> QED BY <2>3, <2>5, <2>6 DEF IInv
<1>6. ASSUME NEW k \in Watched, NEW t \in Thresholds \cup {NoThreshold}, SetThreshold(k, t)
      PROVE  IInv'
  <2>0. k \in Keys  BY LimitAssumption
  <2>1. /\ threshold' = [threshold EXCEPT ![k] = t] /\ changes' = changes + 1
        /\ UNCHANGED <<balance, moves, ledger, drift, location, tenant, tx, drifts>>
        /\ \A v \in Workers : k \notin tx[v].held
    BY <1>6 DEF SetThreshold, Changed, Unlocked
  <2>2. lows' = [lows EXCEPT ![k] = @ + (IF t # NoThreshold /\ balance[k] <= t THEN 1 ELSE 0)
                                      - (IF IsLow(k, balance) THEN 1 ELSE 0)]
    BY <1>6 DEF SetThreshold
  <2>3. (\A v \in Workers : TxInv(tx[v])') /\ Exclusive' /\ AllLinesOrNone'
    BY <1>1, <2>1, OutsideStep
  <2>4. TypeOK'
    <3>1. lows' \in [Keys -> Int]  BY <1>1, <2>0, <2>2
    <3>2. threshold' \in [Keys -> Thresholds \cup {NoThreshold}]  BY <1>1, <2>1
    <3> QED BY <1>1, <2>1, <3>1, <3>2 DEF IInv, TypeOK
  <2>5. Lenient' /\ BalanceFollowsLedger'
    BY <2>1 DEF IInv, Lenient, BalanceFollowsLedger, LedgerSum, Posted
  <2>6. LowCountersAgree'
    <3> SUFFICES ASSUME drifts = 0, NEW j \in Keys
                 PROVE  lows'[j] = IF IsLow(j, balance)' THEN 1 ELSE 0
      BY <2>1 DEF LowCountersAgree
    <3>1. lows[j] = IF IsLow(j, balance) THEN 1 ELSE 0  BY DEF IInv, LowCountersAgree
    <3>2. CASE j # k
      <4>1. IsLow(j, balance)' <=> IsLow(j, balance)  BY <1>1, <2>1, <3>2 DEF IsLow
      <4> QED BY <1>1, <2>2, <3>1, <3>2, <4>1
    <3>3. CASE j = k
      <4>1. IsLow(k, balance)' <=> t # NoThreshold /\ balance[k] <= t
        BY <1>1, <2>0, <2>1 DEF IsLow
      <4>2. lows'[k] = lows[k] + (IF t # NoThreshold /\ balance[k] <= t THEN 1 ELSE 0)
                               - (IF IsLow(k, balance) THEN 1 ELSE 0)
        BY <1>1, <2>0, <2>2
      <4> QED BY <3>1, <3>3, <4>1, <4>2
    <3> QED BY <3>2, <3>3
  <2> QED BY <2>3, <2>4, <2>5, <2>6 DEF IInv
<1> QED BY <1>3, <1>4, <1>5, <1>6 DEF Settings

----------------------------------------------------------------------------
(* The invariant holds in every reachable state. *)
LEMMA InitInv == Init => IInv
<1> SUFFICES ASSUME Init PROVE IInv  OBVIOUS
<1>1. TypeOK
  <2>1. tenant \in [policy : {"forbid", "allow"}, lenient : BOOLEAN]  BY DEF Init
  <2>2. tx \in [Workers -> TxRecords]  BY NoTxFacts DEF Init
  <2>3. ledger \subseteq Requests \X Items  BY DEF Init
  <2> QED BY <2>1, <2>2, <2>3 DEF Init, TypeOK
<1>2. \A w \in Workers : tx[w] = NoTx  BY DEF Init
<1>3. \A w \in Workers : TxInv(tx[w])  BY <1>2, NoTxFacts
<1>4. Exclusive
  <2>1. NoTx.held = {} /\ NoTx.ids = {}  BY DEF NoTx
  <2> QED BY <1>2, <2>1 DEF Exclusive
<1>5. Lenient /\ AllLinesOrNone
  <2>1. PICK p \in {"forbid", "allow"} : tenant = [policy |-> p, lenient |-> p = "allow"]
    BY DEF Init
  <2>2. tenant.policy = "allow" => tenant.lenient  BY <2>1
  <2> QED BY <2>2 DEF Init, Lenient, AllLinesOrNone
<1>6. LowCountersAgree  BY DEF Init, LowCountersAgree, IsLow
<1>7. BalanceFollowsLedger
  <2> SUFFICES ASSUME NEW k \in Keys
               PROVE  balance[k] = LedgerSum(k) + drift[k] /\ moves[k] = Cardinality(Posted(k))
    BY DEF BalanceFollowsLedger
  <2>1. Posted(k) = {}  BY DEF Posted, Init
  <2>2. LedgerSum(k) = 0  BY <2>1, SumsFit DEF LedgerSum, Fits
  <2>3. Cardinality({}) = 0  BY FS_EmptySet
  <2> QED BY <2>1, <2>2, <2>3 DEF Init
<1> QED BY <1>1, <1>3, <1>4, <1>5, <1>6, <1>7 DEF IInv

(* Nothing changes. *)
LEMMA StutterStep ==
    ASSUME IInv, UNCHANGED vars
    PROVE  IInv'
<1> USE DEF vars
<1>1. (\A v \in Workers : TxInv(tx[v])') /\ Exclusive' /\ AllLinesOrNone'  BY OutsideStep
<1>2. TypeOK'  BY DEF IInv, TypeOK
<1>3. Lenient' /\ LowCountersAgree' /\ BalanceFollowsLedger'
  BY DEF IInv, Lenient, LowCountersAgree, IsLow, BalanceFollowsLedger, LedgerSum, Posted
<1> QED BY <1>1, <1>2, <1>3 DEF IInv

LEMMA NextInv ==
    ASSUME IInv, [Next]_vars
    PROVE  IInv'
<1>1. ASSUME NEW w \in Workers, NEW r \in Requests, Begin(w, r) PROVE IInv'
  BY <1>1, BeginStep
<1>2. ASSUME NEW w \in Workers, Posting(w) PROVE IInv'
  <2>1. ASSUME Refuse(w) PROVE IInv'
    BY <2>1, EndedStep DEF Refuse, shared, stock, settings
  <2> QED BY <1>2, <2>1, LockSourceStep, ReadLocationsStep, LockBalanceStep, PostStep, CommitStep
          DEF Posting
<1>3. ASSUME NEW w \in Workers, Rebuilding(w) PROVE IInv'
  BY <1>3, StartRebuildStep, RebuildRowStep, CommitRebuildStep DEF Rebuilding
<1>4. ASSUME NEW w \in Workers, Abandon(w) PROVE IInv'
  BY <1>4, EndedStep DEF Abandon, shared, stock, settings
<1>5. ASSUME Settings PROVE IInv'  BY <1>5, SettingsStep
<1>6. ASSUME NEW k \in Keys, Drift(k) PROVE IInv'  BY <1>6, DriftStep
<1>7. ASSUME UNCHANGED vars PROVE IInv'  BY <1>7, StutterStep
<1> QED BY <1>1, <1>2, <1>3, <1>4, <1>5, <1>6, <1>7 DEF Next

(* What holds of every transaction and every balance in every reachable     *)
(* state: locks exclude each other, and what was read under one stays true. *)
THEOREM Invariant == Spec => []IInv
<1>1. Init => IInv  BY InitInv
<1>2. IInv /\ [Next]_vars => IInv'  BY NextInv
<1> QED BY <1>1, <1>2, PTL DEF Spec

(* The records keep their types. *)
THEOREM TypeCorrect == Spec => []TypeOK
<1>1. IInv => TypeOK  BY DEF IInv
<1> QED BY <1>1, Invariant, PTL

(* Whatever documents, withdrawals and rebuilds interleave, a balance is    *)
(* the sum of its movements plus what was added behind the ledger's back.   *)
THEOREM BalanceCorrect == Spec => []BalanceFollowsLedger
<1>1. IInv => BalanceFollowsLedger  BY DEF IInv
<1> QED BY <1>1, Invariant, PTL

(* A document is posted with all its lines or with none: a replay commits   *)
(* with the lines posted before it, a refusal takes back those of its own.  *)
THEOREM WholeDocuments == Spec => []AllLinesOrNone
<1>1. IInv => AllLinesOrNone  BY DEF IInv
<1> QED BY <1>1, Invariant, PTL

(* Below signals less recovered signals count the balances that are low,    *)
(* however thresholds, postings and rebuilds interleave.                    *)
THEOREM LowCorrect == Spec => []LowCountersAgree
<1>1. IInv => LowCountersAgree  BY DEF IInv
<1> QED BY <1>1, Invariant, PTL

----------------------------------------------------------------------------
(* Settings bind the postings that commit. *)
LEMMA SettingsBind ==
    ASSUME IInv, [Next]_vars, NEW k \in Keys, Posted(k)' # Posted(k)
    PROVE  /\ location[k[1]].status = "active"
           /\ balance'[k] < balance[k] /\ balance'[k] < 0 => MayGoNegative(k[1])
<1>1. ledger' # ledger  BY DEF Posted
<1>2. PICK w \in Workers : Commit(w)
  <2>1. UNCHANGED vars => ledger' = ledger  BY DEF vars
  <2>2. Settings => ledger' = ledger
    BY DEF Settings, SetStatus, SetLocationPolicy, SetTenantPolicy, SetThreshold, stock
  <2>3. \A j \in Keys : Drift(j) => ledger' = ledger  BY DEF Drift
  <2>4. \A w \in Workers : Rebuilding(w) \/ Abandon(w) => ledger' = ledger
    BY DEF Rebuilding, StartRebuild, RebuildRow, CommitRebuild, Abandon, stock
  <2>5. \A w \in Workers, r \in Requests : Begin(w, r) => ledger' = ledger  BY DEF Begin, stock
  <2>6. \A w \in Workers : Posting(w) => Commit(w) \/ ledger' = ledger
    BY DEF Posting, LockSource, ReadLocations, LockBalance, Post, Refuse, stock
  <2> QED BY <1>1, <2>1, <2>2, <2>3, <2>4, <2>5, <2>6 DEF Next
<1> DEFINE r == tx[w].req
<1>3. k \in WLegs(tx[w])  BY <1>2, CommitPosts
<1>4. Delta[r][k] \in Int /\ balance'[k] = balance[k] + Delta[r][k] /\ balance[k] \in Int
  <2>1. balance[k] \in Int  BY DEF IInv, TypeOK
  <2> QED BY <1>2, <1>3, <2>1, CommitPosts
<1>5. Shape(tx[w]) /\ Backed(tx[w])  BY Here DEF TxInv
<1>6. k[1] \in tx[w].shares  BY <1>3, <1>5 DEF Shape
<1>7. location[k[1]].status = "active"  BY <1>5, <1>6 DEF Backed
<1>8. Delta[r][k] < 0 => balance[k] + Delta[r][k] >= 0 \/ MayGoNegative(k[1])
  BY <1>3, <1>5 DEF Backed
<1> QED BY <1>4, <1>7, <1>8

(* A posting commits at locations that are active at that moment, and       *)
(* leaves a balance below zero only where a policy allows it.               *)
THEOREM SettingsCorrect == Spec => SettingsBindPostings
<1>1. IInv /\ [Next]_vars =>
        \A k \in Keys : Posted(k)' # Posted(k) =>
            /\ location[k[1]].status = "active"
            /\ balance'[k] < balance[k] /\ balance'[k] < 0 => MayGoNegative(k[1])
  BY SettingsBind
<1> QED BY <1>1, Invariant, PTL DEF Spec, SettingsBindPostings

----------------------------------------------------------------------------
(* No deadlock among documents. *)
LEMMA HasGreatest ==
    ASSUME NEW S, S \subseteq Items \/ S \subseteq Locations, S # {}
    PROVE  \E m \in S : \A n \in S : n <= m
<1> DEFINE T == {0 - n : n \in S}
           f == [n \in S |-> 0 - n]
<1>1. S \subseteq Int /\ IsFiniteSet(S)  BY IdAssumption, FS_Subset
<1>2. f \in Surjection(S, T)  BY DEF Surjection
<1>3. IsFiniteSet(T)
  <2> HIDE DEF f, T
  <2> QED BY <1>1, <1>2, FS_Surjection, Zenon
<1>4. T \subseteq Int /\ T # {}
  <2>1. \A n \in S : 0 - n \in Int  BY <1>1
  <2>2. PICK n \in S : TRUE  OBVIOUS
  <2>3. 0 - n \in T  OBVIOUS
  <2> QED BY <2>1, <2>3
<1>5. PICK t \in T : \A u \in T : t <= u
  <2> HIDE DEF T
  <2> QED BY <1>3, <1>4, HasLeast
<1>6. PICK m \in S : t = 0 - m  BY <1>5
<1>7. ASSUME NEW n \in S PROVE n <= m
  <2>1. 0 - n \in T  OBVIOUS
  <2>2. 0 - m <= 0 - n  BY <1>5, <1>6, <2>1
  <2> QED BY <1>1, <2>2
<1> QED BY <1>7

(* Who waits for a transaction of a document is not ahead of it; of two at  *)
(* the same item, the other one waits for a balance further on.             *)
LEMMA WaitsForward ==
    ASSUME IInv, NEW v \in Workers, NEW w \in Workers, Waits(v, w),
           tx[v].at \in {"source", "balances"}, tx[w].at \in {"source", "balances"}
    PROVE  /\ tx[v].item <= tx[w].item
           /\ tx[v].item = tx[w].item => tx[w].at = "balances"
           /\ tx[v].item = tx[w].item /\ tx[v].at = "balances" =>
                NextRow(v)[1] < NextRow(w)[1]
<1>1. /\ LockOrder(tx[v]) /\ LockOrder(tx[w]) /\ Posts(tx[w])
      /\ tx[v].item \in Items /\ tx[w].item \in Items /\ tx[v].req \in Requests
      /\ tx[w].req \in Requests /\ tx[v].item \in Int /\ tx[w].item \in Int
  BY Here DEF TxInv, Posts
<1>2. CASE tx[v].at = "source"
  <2>1. <<Source[tx[v].req], tx[v].item>> \in tx[w].ids  BY <1>2 DEF Waits
  <2> QED BY <1>1, <1>2, <2>1 DEF LockOrder
<1>3. CASE tx[v].at = "balances"
  <2> DEFINE j == NextRow(v)
  <2>1. j \in tx[w].held  BY <1>3 DEF Waits
  <2>2. RowsLeft(v) # {}  BY <1>1, <1>3 DEF LockOrder, Rows, RowsLeft
  <2>3. j \in RowsLeft(v)  BY <1>1, <1>3, <2>2, NextRowOfPosting
  <2> HIDE DEF j
  <2>4. j[2] = tx[v].item  BY <1>1, <2>3, LegFacts DEF RowsLeft
  <2>5. tx[v].item <= tx[w].item  BY <1>1, <2>1, <2>4 DEF LockOrder
  <2>6. tx[w].at = "source" => tx[v].item < tx[w].item  BY <1>1, <2>1, <2>4 DEF LockOrder
  <2>7. ASSUME tx[v].item = tx[w].item PROVE tx[w].at = "balances" /\ j[1] < NextRow(w)[1]
    <3>1. tx[w].at = "balances"  BY <1>1, <2>6, <2>7
    <3>2. RowsLeft(w) # {}  BY <1>1, <3>1 DEF LockOrder, Rows, RowsLeft
    <3>3. NextRow(w) \in Rows(tx[w]) \ tx[w].held
      BY <1>1, <3>1, <3>2, NextRowOfPosting DEF Rows, RowsLeft
    <3> QED BY <1>1, <2>1, <2>4, <2>7, <3>1, <3>3 DEF LockOrder
  <2> QED BY <2>5, <2>7 DEF j
<1> QED BY <1>2, <1>3

LEMMA NoCircle ==
    ASSUME IInv, NEW D \in SUBSET {w \in Workers : tx[w].at # "rebuild"}, Deadlocked(D)
    PROVE  FALSE
<1>1. D # {} /\ D \subseteq Workers /\ \A v \in D : \E w \in D : Waits(v, w)
  BY DEF Deadlocked
<1>2. \A v \in D : tx[v].at \in {"source", "balances"}  BY <1>1 DEF Waits
<1>3. \A v \in D : tx[v].item \in Items /\ tx[v].item \in Int  BY <1>1, Here
<1> DEFINE I == {tx[v].item : v \in D}
<1>4. PICK m \in I : \A n \in I : n <= m
  <2>1. I \subseteq Items /\ I # {}  BY <1>1, <1>3
  <2> HIDE DEF I
  <2> QED BY <2>1, HasGreatest
<1> DEFINE E == {v \in D : tx[v].item = m /\ tx[v].at = "balances"}
           L == {NextRow(v)[1] : v \in E}
<1>5. \A v \in D : tx[v].item = m =>
        \E w \in E : Waits(v, w) /\ (tx[v].at = "balances" => NextRow(v)[1] < NextRow(w)[1])
  <2> TAKE v \in D
  <2> HAVE tx[v].item = m
  <2>1. PICK w \in D : Waits(v, w)  BY <1>1
  <2>2. tx[v].item <= tx[w].item /\ (tx[v].item = tx[w].item => tx[w].at = "balances")
        /\ (tx[v].item = tx[w].item /\ tx[v].at = "balances" => NextRow(v)[1] < NextRow(w)[1])
    BY <1>1, <1>2, <2>1, WaitsForward
  <2>3. tx[w].item <= m  BY <1>4
  <2>4. tx[w].item = m  BY <1>3, <2>2, <2>3
  <2> QED BY <2>1, <2>2, <2>4
<1>6. E # {}
  <2>1. PICK v \in D : tx[v].item = m  BY <1>4
  <2> QED BY <1>5, <2>1
<1>7. \A v \in E : NextRow(v)[1] \in Locations
  <2> TAKE v \in E
  <2>1. tx[v].at = "balances" /\ v \in Workers  BY <1>1
  <2>2. tx[v].req \in Requests /\ tx[v].item \in Items /\ LockOrder(tx[v])
    BY <2>1, Here DEF TxInv
  <2>3. RowsLeft(v) # {}  BY <2>1, <2>2 DEF LockOrder, Rows, RowsLeft
  <2>4. NextRow(v) \in RowsLeft(v)  BY <2>1, <2>2, <2>3, NextRowOfPosting
  <2> QED BY <2>2, <2>4, LegFacts DEF RowsLeft
<1>8. PICK l \in L : \A n \in L : n <= l
  <2>1. L \subseteq Locations /\ L # {}  BY <1>6, <1>7
  <2> HIDE DEF L
  <2> QED BY <2>1, HasGreatest
<1>9. PICK v \in E : NextRow(v)[1] = l  BY <1>8
<1>10. PICK w \in E : NextRow(v)[1] < NextRow(w)[1]  BY <1>5
<1>11. NextRow(w)[1] <= l  BY <1>8
<1>12. l \in Int /\ NextRow(w)[1] \in Int  BY <1>7, <1>9, IdAssumption
<1> QED BY <1>9, <1>10, <1>11, <1>12

(* Documents never wait for each other in a circle: items come in one       *)
(* order, locations within an item in one order.                            *)
THEOREM NoDeadlock == Spec => []PostingsNeverDeadlock
<1>1. IInv => PostingsNeverDeadlock  BY NoCircle DEF PostingsNeverDeadlock
<1> QED BY <1>1, Invariant, PTL
=============================================================================
