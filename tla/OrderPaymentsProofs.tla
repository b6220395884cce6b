-------------------------- MODULE OrderPaymentsProofs --------------------------
(***************************************************************************)
(* Safety of the payments of one order, for any attempts, keys, totals,    *)
(* thresholds and requests: types, captures recorded once, the order       *)
(* following its ledger, no overpayment by operators, and sessions that    *)
(* ask only for what is owed.  The first part is about sums over finite    *)
(* sets, the second about the money, the third about attempts and the      *)
(* requests and jobs at work on them.                                      *)
(***************************************************************************)
EXTENDS OrderPayments, FiniteSetTheorems, TLAPS

Sum(f, S) == SumFunctionOnSet(f, S)
Pick(S) == CHOOSE x \in S : TRUE
(* g adds up f over every subset of D. *)
Adds(f, D, g) ==
    /\ g \in [SUBSET D -> Int]
    /\ \A R \in SUBSET D : g[R] = IF R = {} THEN 0 ELSE f[Pick(R)] + g[R \ {Pick(R)}]

(* A set of subsets of a finite set has a member that holds no other.       *)
LEMMA MinimalSubset ==
    ASSUME NEW A, IsFiniteSet(A), NEW T, T \subseteq SUBSET A, T # {}
    PROVE  \E X \in T : \A Y \in T : Y \subseteq X => Y = X
<1> DEFINE R == StrictSubsetOrdering(A)
<1>1. IsWellFoundedOn(R, FiniteSubsetsOf(A))  BY FS_StrictSubsetOrderingWellFounded
<1>2. T \subseteq FiniteSubsetsOf(A)  BY FS_FiniteSubsetsOfFinite
<1>3. PICK X \in T : \A Y \in T : ~(<<Y, X>> \in R)
  <2> HIDE DEF R
  <2> QED BY <1>1, <1>2, WFMin, Zenon
<1>4. ASSUME NEW Y \in T, Y \subseteq X, Y # X PROVE FALSE
  <2>1. <<Y, X>> \in (SUBSET A) \X (SUBSET A)  OBVIOUS
  <2>2. <<Y, X>> \in R  BY <1>4, <2>1 DEF StrictSubsetOrdering
  <2> QED BY <2>2, <1>3
<1> QED BY <1>4

LEMMA Picked == ASSUME NEW S, S # {} PROVE Pick(S) \in S
BY DEF Pick

LEMMA AddsUnique ==
    ASSUME NEW A, IsFiniteSet(A), NEW f, NEW D \in SUBSET A, NEW E \in SUBSET D,
           NEW g, NEW h, Adds(f, D, g), Adds(f, E, h)
    PROVE  g[E] = h[E]
<1> DEFINE T == {R \in SUBSET E : g[R] # h[R]}
<1>1. ASSUME T # {} PROVE FALSE
  <2>0. T \subseteq SUBSET A OBVIOUS
  <2>1. PICK X \in T : \A Y \in T : Y \subseteq X => Y = X
    <3> HIDE DEF T
    <3> QED BY <1>1, <2>0, MinimalSubset
  <2>2. X # {}  BY DEF Adds
  <2>3. Pick(X) \in X  BY <2>2, Picked
  <2>4. X \ {Pick(X)} \notin T  BY <2>1, <2>3
  <2>5. g[X \ {Pick(X)}] = h[X \ {Pick(X)}]  BY <2>4
  <2>6. g[X] = f[Pick(X)] + g[X \ {Pick(X)}]  BY <2>2 DEF Adds
  <2>7. h[X] = f[Pick(X)] + h[X \ {Pick(X)}]  BY <2>2 DEF Adds
  <2> QED BY <2>5, <2>6, <2>7
<1> QED BY <1>1

LEMMA AddsExists ==
    ASSUME NEW A, IsFiniteSet(A), NEW f, \A x \in A : f[x] \in Int, NEW D \in SUBSET A
    PROVE  \E g : Adds(f, D, g)
<1> DEFINE T == {E \in SUBSET A : ~\E g : Adds(f, E, g)}
           G(E) == (CHOOSE g : Adds(f, E, g))[E]
           Body(R) == IF R = {} THEN 0 ELSE f[Pick(R)] + G(R \ {Pick(R)})
<1>1. ASSUME T # {} PROVE FALSE
  <2>0. T \subseteq SUBSET A OBVIOUS
  <2>1. PICK X \in T : \A Y \in T : Y \subseteq X => Y = X
    <3> HIDE DEF T
    <3> QED BY <1>1, <2>0, MinimalSubset
  <2>2. \A R \in SUBSET X : R # X => Adds(f, R, CHOOSE g : Adds(f, R, g))
    <3> TAKE R \in SUBSET X
    <3> HAVE R # X
    <3>1. R \notin T /\ R \in SUBSET A BY <2>1
    <3>2. \E g : Adds(f, R, g)  BY <3>1
    <3> HIDE DEF T, G
    <3> QED BY <3>2
  <2>3. \A R \in SUBSET X : R # X => G(R) = Body(R) /\ G(R) \in Int
    <3> TAKE R \in SUBSET X
    <3> HAVE R # X
    <3> DEFINE g == CHOOSE g : Adds(f, R, g)
               S == R \ {Pick(R)}
               h == CHOOSE h : Adds(f, S, h)
    <3>1. Adds(f, R, g)  BY <2>2
    <3>2. G(R) = g[R] /\ G(S) = h[S]  OBVIOUS
    <3>3. Adds(f, S, h)
      <4>1. S \in SUBSET X /\ S # X  OBVIOUS
      <4> HIDE DEF S
      <4> QED BY <2>2, <4>1
    <3>4. S \in SUBSET R /\ R \in SUBSET A  BY <2>1
    <3> HIDE DEF g, h, S, G
    <3>5. g[S] = h[S]  BY <3>1, <3>3, <3>4, AddsUnique
    <3>6. g[R] = IF R = {} THEN 0 ELSE f[Pick(R)] + g[S]  BY <3>1 DEF Adds, S
    <3>7. g[R] \in Int  BY <3>1 DEF Adds
    <3> QED BY <3>2, <3>5, <3>6, <3>7 DEF S
  <2> DEFINE F == [R \in SUBSET X |-> Body(R)]
  <2>4. \A R \in SUBSET X : R # {} => R \ {Pick(R)} \in SUBSET X /\ R \ {Pick(R)} # X
    BY Picked
  <2>5. \A R \in SUBSET X : Body(R) \in Int
    <3> TAKE R \in SUBSET X
    <3>1. CASE R = {}  BY <3>1
    <3>2. CASE R # {}
      <4>1. G(R \ {Pick(R)}) \in Int  BY <2>3, <2>4, <3>2
      <4>2. Pick(R) \in A  BY <3>2, Picked, <2>1
      <4> HIDE DEF G
      <4> QED BY <4>1, <4>2, <3>2
    <3> QED BY <3>1, <3>2
  <2>6. F \in [SUBSET X -> Int]
    <3> HIDE DEF Body
    <3> QED BY <2>5
  <2>7. \A R \in SUBSET X : F[R] = IF R = {} THEN 0 ELSE f[Pick(R)] + F[R \ {Pick(R)}]
    <3> TAKE R \in SUBSET X
    <3>1. F[R] = Body(R)  OBVIOUS
    <3>2. CASE R # {}
      <4>1. F[R \ {Pick(R)}] = Body(R \ {Pick(R)})  BY <2>4, <3>2
      <4>2. G(R \ {Pick(R)}) = Body(R \ {Pick(R)})  BY <2>3, <2>4, <3>2
      <4>3. Body(R) = f[Pick(R)] + G(R \ {Pick(R)})  BY <3>2
      <4> HIDE DEF Body, G, F
      <4> QED BY <3>1, <3>2, <4>1, <4>2, <4>3
    <3>3. CASE R = {}  BY <3>3
    <3> QED BY <3>2, <3>3
  <2> HIDE DEF F
  <2>8. Adds(f, X, F)  BY <2>6, <2>7 DEF Adds
  <2> QED BY <2>8
<1>2. D \notin T  BY <1>1
<1> QED BY <1>2

(* The community module's fold is such a function. *)
LEMMA SumAdds ==
    ASSUME NEW A, IsFiniteSet(A), NEW f, \A x \in A : f[x] \in Int, NEW D \in SUBSET A
    PROVE  \E g : Adds(f, D, g) /\ Sum(f, D) = g[D]
<1> DEFINE body(g) == [R \in SUBSET D |-> IF R = {} THEN 0 ELSE f[Pick(R)] + g[R \ {Pick(R)}]]
           s == CHOOSE h : h = body(h)
<1>1. PICK g : Adds(f, D, g)  BY AddsExists
<1>2. g = body(g)  BY <1>1 DEF Adds
<1>3. Sum(f, D) = s[D]
  BY DEF Sum, Pick, SumFunctionOnSet, FoldFunctionOnSet, MapThenFoldSet
<1>4. s = body(s)
  <2> HIDE DEF body
  <2> QED BY <1>2
<1> HIDE DEF s
<1>5. \A R \in SUBSET D : s[R] = IF R = {} THEN 0 ELSE f[Pick(R)] + s[R \ {Pick(R)}]
  BY <1>4
<1>6. s = [R \in SUBSET D |-> s[R]]  BY <1>4
<1> DEFINE T == {R \in SUBSET D : s[R] # g[R]}
<1>8. ASSUME T # {} PROVE FALSE
  <2>0. T \subseteq SUBSET A  OBVIOUS
  <2>1. PICK X \in T : \A Y \in T : Y \subseteq X => Y = X
    <3> HIDE DEF T
    <3> QED BY <1>8, <2>0, MinimalSubset
  <2>2. X # {}  BY <1>1, <1>5 DEF Adds
  <2>3. Pick(X) \in X  BY <2>2, Picked
  <2>4. X \ {Pick(X)} \notin T  BY <2>1, <2>3
  <2>5. s[X \ {Pick(X)}] = g[X \ {Pick(X)}]  BY <2>4
  <2>6. g[X] = f[Pick(X)] + g[X \ {Pick(X)}]  BY <1>1, <2>2 DEF Adds
  <2>7. s[X] = f[Pick(X)] + s[X \ {Pick(X)}]  BY <1>5, <2>2
  <2> QED BY <2>5, <2>6, <2>7
<1>9. s[D] = g[D]  BY <1>8
<1> QED BY <1>1, <1>3, <1>9

LEMMA SumPicks ==
    ASSUME NEW A, IsFiniteSet(A), NEW f, \A x \in A : f[x] \in Int, NEW D \in SUBSET A
    PROVE  /\ Sum(f, D) \in Int
           /\ Sum(f, {}) = 0
           /\ D # {} => Sum(f, D) = f[Pick(D)] + Sum(f, D \ {Pick(D)})
<1>1. PICK g : Adds(f, D, g) /\ Sum(f, D) = g[D]  BY SumAdds
<1>2. PICK e : Adds(f, {}, e) /\ Sum(f, {}) = e[{}]  BY SumAdds
<1>3. ASSUME D # {} PROVE Sum(f, D) = f[Pick(D)] + Sum(f, D \ {Pick(D)})
  <2> DEFINE E == D \ {Pick(D)}
  <2>1. E \in SUBSET A /\ E \in SUBSET D OBVIOUS
  <2> HIDE DEF E
  <2>2. PICK h : Adds(f, E, h) /\ Sum(f, E) = h[E]  BY <2>1, SumAdds
  <2>3. g[E] = h[E]  BY <1>1, <2>1, <2>2, AddsUnique
  <2>4. g[D] = f[Pick(D)] + g[E]  BY <1>1, <1>3 DEF Adds, E
  <2> QED BY <1>1, <2>2, <2>3, <2>4 DEF E
<1>4. Sum(f, D) \in Int
  <2>1. D \in SUBSET D  OBVIOUS
  <2> QED BY <1>1, <2>1 DEF Adds
<1>5. Sum(f, {}) = 0
  <2>1. {} \in SUBSET {}  OBVIOUS
  <2> QED BY <1>2, <2>1 DEF Adds
<1> QED BY <1>3, <1>4, <1>5

LEMMA SumEmpty == ASSUME NEW f PROVE Sum(f, {}) = 0
<1>1. IsFiniteSet({})  BY FS_EmptySet
<1>2. \A x \in {} : f[x] \in Int  OBVIOUS
<1>3. {} \in SUBSET {}  OBVIOUS
<1> QED BY <1>1, <1>2, <1>3, SumPicks

(* The sum does not depend on the order in which it is taken. *)
LEMMA SumRemove ==
    ASSUME NEW A, IsFiniteSet(A), NEW f, \A x \in A : f[x] \in Int, NEW D \in SUBSET A, NEW d \in D
    PROVE  Sum(f, D) = f[d] + Sum(f, D \ {d})
<1> DEFINE T == {R \in SUBSET A : \E x \in R : Sum(f, R) # f[x] + Sum(f, R \ {x})}
<1>1. ASSUME T # {} PROVE FALSE
  <2>0. T \subseteq SUBSET A  OBVIOUS
  <2>1. PICK X \in T : \A Y \in T : Y \subseteq X => Y = X
    <3> HIDE DEF T
    <3> QED BY <1>1, <2>0, MinimalSubset
  <2>2. PICK x \in X : Sum(f, X) # f[x] + Sum(f, X \ {x})  OBVIOUS
  <2>3. PICK p \in X : Sum(f, X) = f[p] + Sum(f, X \ {p})
    <3>1. X \in SUBSET A /\ X # {}  OBVIOUS
    <3>2. Pick(X) \in X  BY <3>1, Picked
    <3> HIDE DEF T
    <3>3. Sum(f, X) = f[Pick(X)] + Sum(f, X \ {Pick(X)})  BY <3>1, SumPicks
    <3> QED BY <3>2, <3>3
  <2>4. p # x  BY <2>2, <2>3
  <2>5. X \ {p} \notin T /\ X \ {x} \notin T  BY <2>1
  <2>6. Sum(f, X \ {p}) = f[x] + Sum(f, (X \ {p}) \ {x})  BY <2>4, <2>5
  <2>7. Sum(f, X \ {x}) = f[p] + Sum(f, (X \ {x}) \ {p})  BY <2>4, <2>5
  <2>8. (X \ {p}) \ {x} = (X \ {x}) \ {p} /\ (X \ {p}) \ {x} \in SUBSET A  OBVIOUS
  <2> DEFINE c == Sum(f, (X \ {p}) \ {x})
  <2>9. c \in Int  BY <2>8, SumPicks
  <2>10. f[p] \in Int /\ f[x] \in Int  OBVIOUS
  <2>11. Sum(f, X) = f[p] + (f[x] + c) /\ Sum(f, X \ {x}) = f[p] + c  BY <2>3, <2>6, <2>7, <2>8
  <2> HIDE DEF c
  <2> QED BY <2>2, <2>9, <2>10, <2>11
<1> QED BY <1>1

(* What counts is the values on the set. *)
LEMMA SumSame ==
    ASSUME NEW A, IsFiniteSet(A), NEW f, \A x \in A : f[x] \in Int, NEW D \in SUBSET A,
           NEW g, \A x \in A : g[x] \in Int, \A x \in D : f[x] = g[x]
    PROVE  Sum(f, D) = Sum(g, D)
<1> DEFINE T == {R \in SUBSET D : Sum(f, R) # Sum(g, R)}
<1>1. ASSUME T # {} PROVE FALSE
  <2>0. T \subseteq SUBSET A  OBVIOUS
  <2>1. PICK X \in T : \A Y \in T : Y \subseteq X => Y = X
    <3> HIDE DEF T
    <3> QED BY <1>1, <2>0, MinimalSubset
  <2>2. X # {}  BY SumPicks
  <2>3. Pick(X) \in X  BY <2>2, Picked
  <2>4. X \ {Pick(X)} \notin T  BY <2>1, <2>3
  <2>5. Sum(f, X \ {Pick(X)}) = Sum(g, X \ {Pick(X)})  BY <2>4
  <2>6. Sum(f, X) = f[Pick(X)] + Sum(f, X \ {Pick(X)})  BY <2>2, SumPicks
  <2>7. Sum(g, X) = g[Pick(X)] + Sum(g, X \ {Pick(X)})  BY <2>2, SumPicks
  <2> QED BY <2>3, <2>5, <2>6, <2>7
<1> QED BY <1>1

LEMMA SumSplit ==
    ASSUME NEW A, IsFiniteSet(A), NEW x \in A, NEW f, \A y \in A : f[y] \in Int, NEW D \in SUBSET A
    PROVE  /\ Sum(f, D \ {x}) \in Int
           /\ Sum(f, D) = (IF x \in D THEN f[x] ELSE 0) + Sum(f, D \ {x})
<1>1. D \ {x} \in SUBSET A  OBVIOUS
<1>2. Sum(f, D \ {x}) \in Int  BY <1>1, SumPicks
<1>3. CASE x \in D  BY <1>2, <1>3, SumRemove
<1>4. CASE x \notin D
  <2> DEFINE E == D \ {x}
  <2>1. E = D  BY <1>4
  <2>2. Sum(f, E) \in Int  BY <1>2
  <2> HIDE DEF E
  <2>3. Sum(f, D) = 0 + Sum(f, E)  BY <2>1, <2>2
  <2> QED BY <2>2, <2>3, <1>4 DEF E
<1> QED BY <1>2, <1>3, <1>4

(* One element enters, leaves or changes its value. *)
LEMMA SumChange ==
    ASSUME NEW A, IsFiniteSet(A), NEW x \in A,
           NEW f, \A y \in A : f[y] \in Int, NEW D \in SUBSET A,
           NEW g, \A y \in A : g[y] \in Int, NEW E \in SUBSET A,
           D \ {x} = E \ {x}, \A y \in D \ {x} : f[y] = g[y]
    PROVE  Sum(g, E) = Sum(f, D) - (IF x \in D THEN f[x] ELSE 0) + (IF x \in E THEN g[x] ELSE 0)
<1> DEFINE F == D \ {x}
<1>1. F \in SUBSET A /\ F = E \ {x} /\ \A y \in F : f[y] = g[y]  OBVIOUS
<1>2. Sum(f, D) = (IF x \in D THEN f[x] ELSE 0) + Sum(f, F) /\ Sum(f, F) \in Int  BY SumSplit
<1>3. Sum(g, E) = (IF x \in E THEN g[x] ELSE 0) + Sum(g, E \ {x})  BY SumSplit
<1>4. f[x] \in Int /\ g[x] \in Int  OBVIOUS
<1> HIDE DEF F
<1>5. Sum(f, F) = Sum(g, F)  BY <1>1, SumSame
<1> QED BY <1>1, <1>2, <1>3, <1>4, <1>5

LEMMA SumDisjoint ==
    ASSUME NEW A, IsFiniteSet(A), NEW f, \A y \in A : f[y] \in Int,
           NEW D \in SUBSET A, NEW E \in SUBSET A, D \cap E = {}
    PROVE  Sum(f, D \cup E) = Sum(f, D) + Sum(f, E)
<1> DEFINE T == {R \in SUBSET E : Sum(f, D \cup R) # Sum(f, D) + Sum(f, R)}
<1>1. ASSUME T # {} PROVE FALSE
  <2>0. T \subseteq SUBSET A  OBVIOUS
  <2>1. PICK X \in T : \A Y \in T : Y \subseteq X => Y = X
    <3> HIDE DEF T
    <3> QED BY <1>1, <2>0, MinimalSubset
  <2>2. X # {}
    <3>1. D \cup {} = D OBVIOUS
    <3>2. Sum(f, {}) = 0 /\ Sum(f, D) \in Int  BY SumPicks, SumEmpty
    <3>3. {} \notin T  BY <3>1, <3>2
    <3> QED BY <3>3
  <2>3. PICK x \in X : TRUE  BY <2>2
  <2>4. X \ {x} \notin T  BY <2>1
  <2>5. Sum(f, D \cup (X \ {x})) = Sum(f, D) + Sum(f, X \ {x})  BY <2>4
  <2>6. Sum(f, X) = f[x] + Sum(f, X \ {x})  BY SumRemove
  <2>7. (D \cup X) \ {x} = D \cup (X \ {x}) /\ D \cup X \in SUBSET A /\ x \in D \cup X  OBVIOUS
  <2>8. Sum(f, D \cup X) = f[x] + Sum(f, D \cup (X \ {x}))
    <3>1. Sum(f, D \cup X) = f[x] + Sum(f, (D \cup X) \ {x})  BY <2>7, SumRemove
    <3> QED BY <3>1, <2>7
  <2>9. f[x] \in Int /\ Sum(f, D) \in Int /\ Sum(f, X \ {x}) \in Int
    <3>1. X \ {x} \in SUBSET A  OBVIOUS
    <3> QED BY <3>1, SumPicks
  <2> QED BY <2>5, <2>6, <2>8, <2>9
<1> QED BY <1>1

LEMMA SumNat ==
    ASSUME NEW A, IsFiniteSet(A), NEW f, \A y \in A : f[y] \in Nat, NEW D \in SUBSET A
    PROVE  Sum(f, D) \in Nat
<1> DEFINE T == {R \in SUBSET D : Sum(f, R) \notin Nat}
<1>1. ASSUME T # {} PROVE FALSE
  <2>0. T \subseteq SUBSET A  OBVIOUS
  <2>1. PICK X \in T : \A Y \in T : Y \subseteq X => Y = X
    <3> HIDE DEF T
    <3> QED BY <1>1, <2>0, MinimalSubset
  <2>2. X # {}  BY SumEmpty
  <2>3. Pick(X) \in X  BY <2>2, Picked
  <2>4. X \ {Pick(X)} \notin T  BY <2>1, <2>3
  <2>5. Sum(f, X \ {Pick(X)}) \in Nat  BY <2>4
  <2>6. Sum(f, X) = f[Pick(X)] + Sum(f, X \ {Pick(X)})  BY <2>2, SumPicks
  <2> QED BY <2>3, <2>5, <2>6
<1> QED BY <1>1

(* What is taken from each of P is covered by it: so is the whole. *)
LEMMA SumCovered ==
    ASSUME NEW A, IsFiniteSet(A), NEW f, \A y \in A : f[y] \in Nat,
           NEW K, IsFiniteSet(K), NEW v, \A k \in K : v[k] \in Nat, NEW o, 
           NEW P \in SUBSET A, \A p \in P : Sum(v, {k \in K : o[k] = p}) <= f[p]
    PROVE  Sum(v, {k \in K : o[k] \in P}) <= Sum(f, P)
<1> DEFINE From(R) == {k \in K : o[k] \in R}
           T == {R \in SUBSET P : ~(Sum(v, From(R)) <= Sum(f, R))}
<1>1. ASSUME T # {} PROVE FALSE
  <2>0. T \subseteq SUBSET A  OBVIOUS
  <2>1. PICK X \in T : \A Y \in T : Y \subseteq X => Y = X
    <3> HIDE DEF T
    <3> QED BY <1>1, <2>0, MinimalSubset
  <2>2. X # {}
    <3>1. From({}) = {}  OBVIOUS
    <3>2. Sum(f, {}) = 0 /\ Sum(v, {}) = 0  BY SumEmpty
    <3> QED BY <3>1, <3>2
  <2>3. PICK x \in X : TRUE  BY <2>2
  <2> DEFINE Of == {k \in K : o[k] = x}
             Y == X \ {x}
  <2>4. Y \notin T /\ Y \in SUBSET P /\ Y \in SUBSET A BY <2>1
  <2>5. Sum(v, From(Y)) <= Sum(f, Y)  BY <2>4
  <2>6. Sum(f, X) = f[x] + Sum(f, Y)  BY SumRemove
  <2>7. From(X) = From(Y) \cup Of /\ From(Y) \cap Of = {}  OBVIOUS
  <2>8. From(Y) \in SUBSET K /\ Of \in SUBSET K  OBVIOUS
  <2>9. Sum(v, Of) <= f[x]  OBVIOUS
  <2>10. f[x] \in Nat  OBVIOUS
  <2> HIDE DEF From, Of, Y
  <2>11. Sum(v, From(X)) = Sum(v, From(Y)) + Sum(v, Of)  BY <2>7, <2>8, SumDisjoint
  <2>12. Sum(v, From(Y)) \in Int /\ Sum(v, Of) \in Int
    <3>1. \A k \in K : v[k] \in Int  OBVIOUS
    <3> QED BY <2>8, <3>1, SumPicks
  <2>14. Sum(f, Y) \in Int
    <3>1. \A y \in A : f[y] \in Int  OBVIOUS
    <3> QED BY <2>4, <3>1, SumPicks
  <2>13. ~(Sum(v, From(X)) <= Sum(f, X))  BY <2>1 DEF T
  <2> QED BY <2>5, <2>6, <2>9, <2>10, <2>11, <2>12, <2>13, <2>14
<1>2. P \notin T  BY <1>1
<1> QED BY <1>2

(* Nothing adds up to nothing. *)
LEMMA SumZero ==
    ASSUME NEW A, IsFiniteSet(A), NEW f, NEW D \in SUBSET A, \A y \in A : f[y] \in Int,
           \A y \in D : f[y] = 0
    PROVE  Sum(f, D) = 0
<1> DEFINE T == {R \in SUBSET D : Sum(f, R) # 0}
<1>1. ASSUME T # {} PROVE FALSE
  <2>0. T \subseteq SUBSET A  OBVIOUS
  <2>1. PICK X \in T : \A Y \in T : Y \subseteq X => Y = X
    <3> HIDE DEF T
    <3> QED BY <1>1, <2>0, MinimalSubset
  <2>2. X # {}  BY SumEmpty
  <2>3. Pick(X) \in X  BY <2>2, Picked
  <2>4. X \ {Pick(X)} \notin T  BY <2>1, <2>3
  <2>5. Sum(f, X \ {Pick(X)}) = 0  BY <2>4
  <2>6. Sum(f, X) = f[Pick(X)] + Sum(f, X \ {Pick(X)})  BY <2>2, SumPicks
  <2> QED BY <2>3, <2>5, <2>6
<1> QED BY <1>1

----------------------------------------------------------------------------
(* The money: the sums of the model in terms of Sum. *)
Given == [k \in ReversalKeys |-> back[k].sum]
StaffBack == {k \in ReversalKeys : back[k].of \in Staff}
BackOf(p) == {k \in ReversalKeys : back[k].of = p}

(* A reversal is of a payment that has succeeded. *)
ReversalInv ==
    \A k \in ReversalKeys :
        IF back[k].sum = 0 THEN back[k].of = Manual ELSE leg[back[k].of] = "succeeded"

Books == ReversalInv /\ OrderFollowsLedger /\ OverpaidOnlyByProvider

LEMMA PaymentFacts ==
    /\ IsFiniteSet(Payments) /\ IsFiniteSet(ReversalKeys)
    /\ Manual \in Staff /\ Staff \subseteq Payments
    /\ \A k \in StaffKeys : <<"staff", k>> \in Staff
    /\ \A a \in Refs : Gateway(a) \in Payments \ Staff /\ Late(a) \in Payments \ Staff
    /\ \A a, b \in Refs : Gateway(a) # Late(b)
    /\ \A a, b \in Refs : a # b => Gateway(a) # Gateway(b) /\ Late(a) # Late(b)
<1>1. IsFiniteSet({"gateway", "late"}) /\ IsFiniteSet({"staff"}) /\ IsFiniteSet({Manual})
  <2>1. {"gateway", "late"} = {"gateway"} \cup {"late"}  OBVIOUS
  <2>2. \A x : IsFiniteSet({x})  BY FS_Singleton
  <2>3. IsFiniteSet({"gateway"} \cup {"late"})  BY <2>2, FS_Union
  <2> QED BY <2>1, <2>2, <2>3
<1>2. IsFiniteSet({"gateway", "late"} \X Refs)  BY <1>1, RefAssumption, FS_Product
<1>3. IsFiniteSet({"staff"} \X StaffKeys)  BY <1>1, KeyAssumption, FS_Product
<1>4. IsFiniteSet(Staff)  BY <1>1, <1>3, FS_Union DEF Staff
<1>5. IsFiniteSet(Payments)  BY <1>2, <1>4, FS_Union DEF Payments
<1>6. Manual \in Staff /\ Staff \subseteq Payments  BY DEF Staff, Payments
<1>7. \A k \in StaffKeys : <<"staff", k>> \in Staff  BY DEF Staff
<1>8. \A a \in Refs : Gateway(a) \in Payments \ Staff /\ Late(a) \in Payments \ Staff
  BY DEF Payments, Staff, Manual, Gateway, Late
<1>9. \A a, b \in Refs : Gateway(a) # Late(b)  BY DEF Gateway, Late
<1>10. \A a, b \in Refs : a # b => Gateway(a) # Gateway(b) /\ Late(a) # Late(b)
  BY DEF Gateway, Late
<1> QED BY <1>5, <1>6, <1>7, <1>8, <1>9, <1>10, KeyAssumption

LEMMA AsSums ==
    /\ Paid = Sum(amount, Succeeded)
    /\ Reversed = Sum(Given, ReversalKeys)
    /\ StaffNet = Sum(amount, Succeeded \cap Staff) - Sum(Given, StaffBack)
    /\ \A p : ReversedOf(p) = Sum(Given, BackOf(p))
BY DEF Sum, Paid, Reversed, StaffNet, ReversedOf, Given, StaffBack, BackOf, SumFunction

LEMMA AsSumsNext ==
    /\ Paid' = Sum(amount', Succeeded')
    /\ Reversed' = Sum(Given', ReversalKeys)
    /\ StaffNet' = Sum(amount', Succeeded' \cap Staff) - Sum(Given', StaffBack')
    /\ \A p : ReversedOf(p)' = Sum(Given', BackOf(p)')
BY DEF Sum, Paid, Reversed, StaffNet, ReversedOf, Given, StaffBack, BackOf, SumFunction

LedgerTypes ==
    /\ leg \in [Payments -> {"none", "pending", "failed", "succeeded"}]
    /\ amount \in [Payments -> Nat]
    /\ back \in [ReversalKeys -> [of : Payments, sum : Nat]]

LEMMA SumTypes ==
    ASSUME LedgerTypes
    PROVE  /\ Paid \in Nat /\ Reversed \in Nat /\ Net \in Int /\ StaffNet \in Int
           /\ \A p : ReversedOf(p) \in Nat
           /\ \A k \in ReversalKeys : Given[k] \in Nat
           /\ \A p \in Payments : amount[p] \in Nat
           /\ Succeeded \subseteq Payments /\ Succeeded \cap Staff \subseteq Payments
           /\ StaffBack \subseteq ReversalKeys /\ \A p : BackOf(p) \subseteq ReversalKeys
<1>1. \A k \in ReversalKeys : Given[k] \in Nat  BY DEF Given, LedgerTypes
<1>2. \A p \in Payments : amount[p] \in Nat  BY DEF LedgerTypes
<1>3. Succeeded \subseteq Payments /\ Succeeded \cap Staff \subseteq Payments
      /\ StaffBack \subseteq ReversalKeys /\ \A p : BackOf(p) \subseteq ReversalKeys
  BY DEF Succeeded, StaffBack, BackOf
<1>4. Paid \in Nat /\ Sum(amount, Succeeded \cap Staff) \in Nat
  BY <1>2, <1>3, SumNat, PaymentFacts, AsSums
<1>5. Reversed \in Nat /\ Sum(Given, StaffBack) \in Nat
  BY <1>1, <1>3, SumNat, PaymentFacts, AsSums
<1>6. \A p : ReversedOf(p) \in Nat
  <2> SUFFICES ASSUME NEW p PROVE ReversedOf(p) \in Nat  OBVIOUS
  <2>1. BackOf(p) \in SUBSET ReversalKeys  BY <1>3
  <2>2. Sum(Given, BackOf(p)) \in Nat  BY <1>1, <2>1, SumNat, PaymentFacts
  <2> QED BY <2>2, AsSums
<1>7. Net \in Int  BY <1>4, <1>5 DEF Net
<1>8. StaffNet \in Int  BY <1>4, <1>5, AsSums
<1> QED BY <1>1, <1>2, <1>3, <1>4, <1>5, <1>6, <1>7, <1>8

(* What operators took is covered by what the order holds: the provider's   *)
(* payments are never given back beyond their amounts.                      *)
LEMMA NetCoversStaff ==
    ASSUME LedgerTypes, ReversalInv, \A p \in Payments : ReversedOf(p) <= amount[p]
    PROVE  StaffNet <= Net
<1> DEFINE mine == Succeeded \cap Staff
           theirs == Succeeded \ Staff
           rest == {k \in ReversalKeys : back[k].of \in theirs}
<1>1. Succeeded = mine \cup theirs /\ mine \cap theirs = {} /\ mine \subseteq Payments
      /\ theirs \subseteq Payments
  BY DEF Succeeded
<1>2. ReversalKeys = StaffBack \cup rest /\ StaffBack \cap rest = {} /\ rest \subseteq ReversalKeys
      /\ StaffBack \subseteq ReversalKeys
  <2>1. ASSUME NEW k \in ReversalKeys, back[k].of \notin Staff PROVE back[k].of \in theirs
    <3>1. back[k].of # Manual  BY <2>1, PaymentFacts
    <3>2. leg[back[k].of] = "succeeded"  BY <3>1 DEF ReversalInv
    <3>3. back[k].of \in Payments  BY DEF LedgerTypes
    <3> QED BY <2>1, <3>2, <3>3 DEF Succeeded
  <2> HIDE DEF theirs
  <2>2. theirs \cap Staff = {}  BY DEF theirs
  <2> QED BY <2>1, <2>2 DEF StaffBack
<1>3. \A k \in ReversalKeys : Given[k] \in Nat  BY SumTypes
<1>4. \A p \in Payments : amount[p] \in Nat  BY SumTypes
<1>5. \A p \in theirs : Sum(Given, {k \in ReversalKeys : back[k].of = p}) <= amount[p]
  <2> SUFFICES ASSUME NEW p \in theirs
               PROVE  Sum(Given, {k \in ReversalKeys : back[k].of = p}) <= amount[p]
    OBVIOUS
  <2>1. ReversedOf(p) = Sum(Given, BackOf(p))  BY AsSums
  <2>2. p \in Payments  BY <1>1
  <2> QED BY <2>1, <2>2 DEF BackOf
<1>6. Sum(Given, rest) <= Sum(amount, theirs)
  <2> DEFINE o == [k \in ReversalKeys |-> back[k].of]
  <2>1. rest = {k \in ReversalKeys : o[k] \in theirs}  OBVIOUS
  <2>2. \A p \in theirs : Sum(Given, {k \in ReversalKeys : o[k] = p}) <= amount[p]
    <3> TAKE p \in theirs
    <3>1. {k \in ReversalKeys : o[k] = p} = {k \in ReversalKeys : back[k].of = p}  OBVIOUS
    <3> HIDE DEF o
    <3> QED BY <1>5, <3>1
  <2> HIDE DEF o, theirs, rest
  <2> QED BY <1>1, <1>3, <1>4, <2>1, <2>2, SumCovered, PaymentFacts
<1> HIDE DEF mine, theirs, rest
<1>7. Sum(amount, Succeeded) = Sum(amount, mine) + Sum(amount, theirs)
  <2>1. \A p \in Payments : amount[p] \in Int  BY <1>4
  <2> QED BY <1>1, <2>1, SumDisjoint, PaymentFacts
<1>8. Sum(Given, ReversalKeys) = Sum(Given, StaffBack) + Sum(Given, rest)
  <2>1. \A k \in ReversalKeys : Given[k] \in Int  BY <1>3
  <2> QED BY <1>2, <2>1, SumDisjoint, PaymentFacts
<1>9. Sum(amount, mine) \in Nat /\ Sum(amount, theirs) \in Nat
  BY <1>1, <1>4, SumNat, PaymentFacts
<1>10. Sum(Given, StaffBack) \in Nat /\ Sum(Given, rest) \in Nat
  BY <1>2, <1>3, SumNat, PaymentFacts
<1>11. StaffNet = Sum(amount, mine) - Sum(Given, StaffBack)  BY AsSums DEF mine
<1>12. Net = (Sum(amount, mine) + Sum(amount, theirs)) - (Sum(Given, StaffBack) + Sum(Given, rest))
  BY <1>7, <1>8, AsSums DEF Net
<1> QED BY <1>6, <1>9, <1>10, <1>11, <1>12

(* Nothing was given back of a payment that has not succeeded. *)
LEMMA NothingBack ==
    ASSUME LedgerTypes, ReversalInv, NEW p \in Payments, leg[p] # "succeeded"
    PROVE  ReversedOf(p) = 0
<1>1. \A k \in BackOf(p) : Given[k] = 0  BY DEF ReversalInv, BackOf, Given
<1>2. \A k \in ReversalKeys : Given[k] \in Int  BY SumTypes
<1>3. BackOf(p) \in SUBSET ReversalKeys  BY DEF BackOf
<1> QED BY <1>1, <1>2, <1>3, SumZero, PaymentFacts, AsSums

(* A step that leaves the succeeded legs and the reversals alone. *)
LEMMA SameSums ==
    ASSUME LedgerTypes, LedgerTypes',
           Succeeded' = Succeeded, \A p \in Succeeded : amount'[p] = amount[p], back' = back
    PROVE  /\ Net' = Net /\ Reversed' = Reversed /\ StaffNet' = StaffNet
           /\ \A p : ReversedOf(p)' = ReversedOf(p)
<1>1. Given' = Given /\ StaffBack' = StaffBack /\ \A p : BackOf(p)' = BackOf(p)
  BY DEF Given, StaffBack, BackOf
<1>2. \A p \in Payments : amount[p] \in Int /\ amount'[p] \in Int  BY DEF LedgerTypes
<1>3. Sum(amount', Succeeded) = Sum(amount, Succeeded)
  <2>1. Succeeded \in SUBSET Payments  BY DEF Succeeded
  <2> QED BY <1>2, <2>1, SumSame, PaymentFacts
<1>4. Sum(amount', Succeeded \cap Staff) = Sum(amount, Succeeded \cap Staff)
  <2> DEFINE S == Succeeded \cap Staff
  <2>1. S \in SUBSET Payments /\ \A p \in S : amount'[p] = amount[p]  BY DEF Succeeded
  <2> HIDE DEF S
  <2>2. Sum(amount', S) = Sum(amount, S)  BY <1>2, <2>1, SumSame, PaymentFacts
  <2> QED BY <2>2 DEF S
<1>5. Paid' = Paid /\ Reversed' = Reversed /\ StaffNet' = StaffNet
      /\ \A p : ReversedOf(p)' = ReversedOf(p)
  BY <1>1, <1>3, <1>4, AsSums, AsSumsNext
<1>6. Net' = Net  BY <1>5 DEF Net
<1> QED BY <1>5, <1>6

LEMMA SameBooks ==
    ASSUME LedgerTypes, LedgerTypes', threshold \in Thresholds, Books,
           Succeeded' = Succeeded, \A p \in Succeeded : amount'[p] = amount[p], back' = back,
           UNCHANGED <<threshold, paymentStatus>>,
           status' = "pending_payment" => status = "pending_payment"
    PROVE  Books'
<1>6. /\ Net' = Net /\ Reversed' = Reversed /\ StaffNet' = StaffNet
      /\ \A p : ReversedOf(p)' = ReversedOf(p)
  BY SameSums
<1>7. ReversalInv'
  <2> SUFFICES ASSUME NEW k \in ReversalKeys
               PROVE IF back[k].sum = 0 THEN back[k].of = Manual ELSE leg'[back[k].of] = "succeeded"
    BY DEF ReversalInv
  <2>1. CASE back[k].sum = 0  BY <2>1 DEF Books, ReversalInv
  <2>2. CASE back[k].sum # 0
    <3>1. leg[back[k].of] = "succeeded" /\ back[k].of \in Payments
      BY <2>2 DEF Books, ReversalInv, LedgerTypes
    <3>2. back[k].of \in Succeeded'  BY <3>1 DEF Succeeded
    <3> QED BY <2>2, <3>2 DEF Succeeded
  <2> QED BY <2>1, <2>2
<1>8. OrderFollowsLedger'
  <2>1. LedgerStatus' = LedgerStatus  BY <1>6 DEF LedgerStatus, DerivedStatus
  <2> QED BY <1>6, <2>1 DEF Books, OrderFollowsLedger
<1>9. OverpaidOnlyByProvider'
  <2>1. \A p \in Payments : ReversedOf(p)' <= amount'[p]
    <3> TAKE p \in Payments
    <3>1. CASE p \in Succeeded  BY <1>6, <3>1 DEF Books, OverpaidOnlyByProvider
    <3>2. CASE p \notin Succeeded
      <4>1. ReversedOf(p) = 0  BY <3>2, NothingBack DEF Succeeded, Books
      <4>2. amount'[p] \in Nat  BY DEF LedgerTypes
      <4> QED BY <1>6, <4>1, <4>2
    <3> QED BY <3>1, <3>2
  <2>2. (StaffNet <= Total)'  BY <1>6 DEF Books, OverpaidOnlyByProvider
  <2> QED BY <2>1, <2>2 DEF OverpaidOnlyByProvider
<1> QED BY <1>7, <1>8, <1>9 DEF Books

(* An order finalised from the ledger as it becomes, at once or from a draft. *)
FinalizedBy(release) ==
    /\ threshold' = threshold /\ paymentStatus' = LedgerStatus'
    /\ status' = IF release /\ status = "pending_payment" /\ Net' >= threshold
                 THEN "paid" ELSE status

LEMMA FinalizedNow == Finalize => FinalizedBy(TRUE)
BY DEF Finalize, FinalizedBy, Releases

(* What that leaves behind, whatever the ledger has become. *)
LEMMA Finalized ==
    ASSUME LedgerTypes', threshold \in Thresholds, NEW release \in BOOLEAN, FinalizedBy(release),
           release \/ (status = "pending_payment" => Net' < threshold)
    PROVE  /\ OrderFollowsLedger' /\ threshold' = threshold
           /\ status' \in {status, "paid"}
           /\ paymentStatus' \in PaymentStatuses
<1>1. Net' \in Int
  <2>1. \A k \in ReversalKeys : Given'[k] \in Nat  BY DEF Given, LedgerTypes
  <2>2. \A p \in Payments : amount'[p] \in Nat  BY DEF LedgerTypes
  <2>3. Succeeded' \in SUBSET Payments  BY DEF Succeeded
  <2>4. Paid' \in Nat  BY <2>2, <2>3, SumNat, PaymentFacts, AsSumsNext
  <2>5. Reversed' \in Nat  BY <2>1, SumNat, PaymentFacts, AsSumsNext
  <2> QED BY <2>4, <2>5 DEF Net
<1>2. threshold \in Int  BY MoneyAssumption
<1>3. threshold' = threshold /\ paymentStatus' = LedgerStatus'
      /\ status' = IF release /\ status = "pending_payment" /\ Net' >= threshold
                   THEN "paid" ELSE status
  BY DEF FinalizedBy
<1>4. status' \in {status, "paid"}  BY <1>3
<1>5. status' = "pending_payment" => Net' < threshold'
  <2> DEFINE n == Net'
  <2> HIDE DEF n
  <2>1. n \in Int  BY <1>1 DEF n
  <2>2. status' = IF release /\ status = "pending_payment" /\ n >= threshold
                  THEN "paid" ELSE status
    BY <1>3 DEF n
  <2>3. release \/ (status = "pending_payment" => n < threshold)  BY DEF n
  <2>4. status' = "pending_payment" => n < threshold  BY <1>2, <2>1, <2>2, <2>3
  <2> QED BY <1>3, <2>4 DEF n
<1>6. LedgerStatus' \in PaymentStatuses
  BY DEF LedgerStatus, DerivedStatus, PaymentStatuses
<1> QED BY <1>3, <1>4, <1>5, <1>6 DEF OrderFollowsLedger

(* What a payment, and a reversal, adds to the sums. *)
LEMMA CreditSums ==
    ASSUME LedgerTypes, NEW p \in Payments, NEW sum \in Nat, leg[p] # "succeeded", Credit(p, sum)
    PROVE  LedgerTypes' /\ Net' = Net + sum /\ Reversed' = Reversed
<1>1. leg' = [leg EXCEPT ![p] = "succeeded"] /\ amount' = [amount EXCEPT ![p] = sum] /\ back' = back
  BY DEF Credit
<1>2. LedgerTypes'  BY <1>1 DEF LedgerTypes
<1>3. Succeeded' = Succeeded \cup {p} /\ p \notin Succeeded
  BY <1>1 DEF Succeeded, LedgerTypes
<1>4. Given' = Given  BY <1>1 DEF Given
<1>5. amount'[p] = sum /\ \A q \in Payments \ {p} : amount'[q] = amount[q]
  BY <1>1 DEF LedgerTypes
<1>6. \A q \in Payments : amount[q] \in Int /\ amount'[q] \in Int
  BY <1>2 DEF LedgerTypes
<1> DEFINE D == Succeeded
           E == Succeeded'
<1>7. D \in SUBSET Payments /\ E \in SUBSET Payments /\ D \ {p} = E \ {p} /\ p \notin D /\ p \in E
      /\ \A q \in D \ {p} : amount[q] = amount'[q]
  BY <1>3, <1>5 DEF Succeeded
<1>8. Paid = Sum(amount, D) /\ Paid' = Sum(amount', E)  BY AsSums, AsSumsNext
<1>9. Paid \in Nat /\ Reversed \in Nat  BY SumTypes
<1> HIDE DEF D, E
<1>10. Sum(amount', E) = Sum(amount, D) - (IF p \in D THEN amount[p] ELSE 0)
                         + (IF p \in E THEN amount'[p] ELSE 0)
  BY <1>6, <1>7, SumChange, PaymentFacts
<1>11. Paid' = Paid + sum  BY <1>5, <1>7, <1>8, <1>9, <1>10
<1>12. Reversed' = Reversed  BY <1>4, AsSums, AsSumsNext
<1> QED BY <1>2, <1>9, <1>11, <1>12 DEF Net

LEMMA ReverseSums ==
    ASSUME LedgerTypes, NEW k \in ReversalKeys, NEW p \in Payments, NEW sum \in Nat,
           back[k].sum = 0, back' = [back EXCEPT ![k] = [of |-> p, sum |-> sum]],
           UNCHANGED <<leg, amount>>
    PROVE  LedgerTypes' /\ Net' = Net - sum /\ Reversed' = Reversed + sum
<1>1. back' \in [ReversalKeys -> [of : Payments, sum : Nat]]
      /\ back'[k].sum = sum /\ \A j \in ReversalKeys \ {k} : back'[j] = back[j]
  BY DEF LedgerTypes
<1>2. LedgerTypes'  BY <1>1 DEF LedgerTypes
<1>3. Succeeded' = Succeeded  BY DEF Succeeded
<1>7. Paid' = Paid /\ Paid \in Nat
  BY <1>3, AsSums, AsSumsNext, SumTypes
<1> DEFINE F == Given
           G == Given'
<1>4. F[k] = 0 /\ G[k] = sum /\ \A j \in ReversalKeys \ {k} : F[j] = G[j]
  BY <1>1 DEF Given
<1>5. \A j \in ReversalKeys : F[j] \in Int /\ G[j] \in Int
  BY <1>1 DEF Given, LedgerTypes
<1>6. Reversed = Sum(F, ReversalKeys) /\ Reversed' = Sum(G, ReversalKeys)  BY AsSums, AsSumsNext
<1>8. ReversalKeys \in SUBSET ReversalKeys  OBVIOUS
<1> HIDE DEF F, G
<1>9. Sum(G, ReversalKeys) = Sum(F, ReversalKeys) - F[k] + G[k]
  BY <1>4, <1>5, <1>8, SumChange, PaymentFacts
<1>10. Sum(F, ReversalKeys) \in Int  BY <1>5, <1>8, SumPicks, PaymentFacts
<1>11. Reversed' = Reversed + sum  BY <1>4, <1>6, <1>9, <1>10
<1>12. Reversed \in Nat  BY SumTypes
<1> QED BY <1>2, <1>7, <1>11, <1>12 DEF Net

LEMMA CreditStep ==
    ASSUME LedgerTypes, threshold \in Thresholds, Books, NEW p \in Payments, NEW sum \in Nat,
           leg[p] # "succeeded", Credit(p, sum), FinalizedBy(TRUE),
           p \in Staff => StaffNet + sum <= Total
    PROVE  /\ Books' /\ LedgerTypes' /\ threshold' = threshold
           /\ status' \in {status, "paid"}
           /\ paymentStatus' \in PaymentStatuses
<1>1. leg' = [leg EXCEPT ![p] = "succeeded"] /\ amount' = [amount EXCEPT ![p] = sum] /\ back' = back
  BY DEF Credit
<1>2. LedgerTypes'  BY <1>1 DEF LedgerTypes
<1>3. Succeeded' = Succeeded \cup {p} /\ p \notin Succeeded
  BY <1>1 DEF Succeeded, LedgerTypes
<1>4. Given' = Given /\ StaffBack' = StaffBack /\ \A q : BackOf(q)' = BackOf(q)
  BY <1>1 DEF Given, StaffBack, BackOf
<1>5. amount'[p] = sum /\ \A q \in Payments \ {p} : amount'[q] = amount[q]
  BY <1>1 DEF LedgerTypes
<1>6. \A q \in Payments : amount[q] \in Int /\ amount'[q] \in Int
  BY <1>2 DEF LedgerTypes
<1>7. StaffNet' = StaffNet + (IF p \in Staff THEN sum ELSE 0)
  <2> DEFINE D == Succeeded \cap Staff
             E == Succeeded' \cap Staff
  <2>1. D \in SUBSET Payments /\ E \in SUBSET Payments /\ D \ {p} = E \ {p}
        /\ (p \notin D) /\ (p \in E <=> p \in Staff) /\ \A q \in D \ {p} : amount[q] = amount'[q]
    BY <1>3, <1>5 DEF Succeeded
  <2> HIDE DEF D, E
  <2>2. Sum(amount', E) = Sum(amount, D) - (IF p \in D THEN amount[p] ELSE 0)
                          + (IF p \in E THEN amount'[p] ELSE 0)
    BY <1>6, <2>1, SumChange, PaymentFacts
  <2>3. Sum(amount, D) \in Int /\ Sum(Given, StaffBack) \in Int
    <3>1. \A k \in ReversalKeys : Given[k] \in Int  BY SumTypes
    <3>2. StaffBack \in SUBSET ReversalKeys  BY DEF StaffBack
    <3>3. Sum(Given, StaffBack) \in Int  BY <3>1, <3>2, SumPicks, PaymentFacts
    <3> QED BY <3>3, <1>6, <2>1, SumPicks, PaymentFacts
  <2>4. Sum(amount', E) = Sum(amount, D) + (IF p \in Staff THEN sum ELSE 0)
    BY <1>5, <2>1, <2>2, <2>3
  <2>5. StaffNet = Sum(amount, D) - Sum(Given, StaffBack)  BY AsSums DEF D
  <2>6. StaffNet' = Sum(amount', E) - Sum(Given, StaffBack)  BY <1>4, AsSumsNext DEF E
  <2> QED BY <2>3, <2>4, <2>5, <2>6
<1>8. ReversalInv'
  <2> SUFFICES ASSUME NEW k \in ReversalKeys
               PROVE IF back[k].sum = 0 THEN back[k].of = Manual ELSE leg'[back[k].of] = "succeeded"
    BY <1>1 DEF ReversalInv
  <2>1. CASE back[k].sum = 0  BY <2>1 DEF Books, ReversalInv
  <2>2. CASE back[k].sum # 0
    <3>1. leg[back[k].of] = "succeeded" /\ back[k].of \in Payments
      BY <2>2 DEF Books, ReversalInv, LedgerTypes
    <3>2. leg'[back[k].of] = "succeeded"  BY <1>1, <3>1 DEF LedgerTypes
    <3> QED BY <2>2, <3>2
  <2> QED BY <2>1, <2>2
<1>9. OverpaidOnlyByProvider'
  <2>1. \A q \in Payments : ReversedOf(q)' <= amount'[q]
    <3> TAKE q \in Payments
    <3>1. ReversedOf(q)' = ReversedOf(q)  BY <1>4, AsSums, AsSumsNext
    <3>2. CASE q = p
      <4>1. ReversedOf(p) = 0  BY NothingBack DEF Books
      <4> QED BY <1>5, <3>1, <3>2, <4>1
    <3>3. CASE q # p  BY <1>5, <3>1, <3>3 DEF Books, OverpaidOnlyByProvider
    <3> QED BY <3>2, <3>3
  <2>2. (StaffNet <= Total)'
    <3>1. StaffNet <= Total  BY DEF Books, OverpaidOnlyByProvider
    <3>2. StaffNet \in Int  BY SumTypes
    <3> QED BY <1>7, <3>1, <3>2
  <2> QED BY <2>1, <2>2 DEF OverpaidOnlyByProvider
<1>10. /\ OrderFollowsLedger' /\ threshold' = threshold /\ status' \in {status, "paid"}
       /\ paymentStatus' \in PaymentStatuses
  BY <1>2, Finalized
<1> QED BY <1>2, <1>8, <1>9, <1>10 DEF Books

LEMMA ReverseStep ==
    ASSUME LedgerTypes, threshold \in Thresholds, Books, NEW k \in ReversalKeys,
           NEW p \in Payments, NEW sum \in Nat \ {0},
           back[k].sum = 0, leg[p] = "succeeded", sum <= amount[p] - ReversedOf(p),
           back' = [back EXCEPT ![k] = [of |-> p, sum |-> sum]], UNCHANGED <<leg, amount>>,
           FinalizedBy(FALSE)
    PROVE  /\ Books' /\ LedgerTypes' /\ threshold' = threshold
           /\ status' \in {status, "paid"}
           /\ paymentStatus' \in PaymentStatuses
<1>1. back' \in [ReversalKeys -> [of : Payments, sum : Nat]]
      /\ back'[k].of = p /\ back'[k].sum = sum /\ \A j \in ReversalKeys \ {k} : back'[j] = back[j]
  BY DEF LedgerTypes
<1>2. LedgerTypes'  BY <1>1 DEF LedgerTypes
<1>3. Succeeded' = Succeeded  BY DEF Succeeded
<1>4. Given[k] = 0 /\ Given'[k] = sum /\ \A j \in ReversalKeys \ {k} : Given'[j] = Given[j]
  BY <1>1 DEF Given
<1>5. \A j \in ReversalKeys : Given[j] \in Int /\ Given'[j] \in Int
  BY <1>1 DEF Given, LedgerTypes
<1>6. back[k].of = Manual  BY DEF Books, ReversalInv
<1>9. Net' = Net - sum  BY ReverseSums
<1>10. \A q \in Payments : ReversedOf(q)' = ReversedOf(q) + (IF q = p THEN sum ELSE 0)
  <2> TAKE q \in Payments
  <2> DEFINE F == Given
             G == Given'
             D == BackOf(q)
             E == BackOf(q)'
  <2>1. \A j \in ReversalKeys : F[j] \in Int /\ G[j] \in Int  BY <1>5
  <2>2. F[k] = 0 /\ G[k] = sum /\ \A j \in ReversalKeys \ {k} : F[j] = G[j]  BY <1>4
  <2>3. D \in SUBSET ReversalKeys /\ E \in SUBSET ReversalKeys /\ D \ {k} = E \ {k}
        /\ (k \in E <=> q = p)
    BY <1>1 DEF BackOf
  <2>4. ReversedOf(q) = Sum(F, D) /\ ReversedOf(q)' = Sum(G, E)  BY AsSums, AsSumsNext
  <2> HIDE DEF F, G, D, E
  <2>5. Sum(G, E) = Sum(F, D) - (IF k \in D THEN F[k] ELSE 0) + (IF k \in E THEN G[k] ELSE 0)
    BY <2>1, <2>2, <2>3, SumChange, PaymentFacts
  <2>6. Sum(F, D) \in Int  BY <2>1, <2>3, SumPicks, PaymentFacts
  <2>7. Sum(G, E) = Sum(F, D) + (IF q = p THEN sum ELSE 0)  BY <2>2, <2>3, <2>5, <2>6
  <2> QED BY <2>4, <2>7
<1>11. StaffNet' <= StaffNet
  <2> DEFINE F == Given
             G == Given'
             D == StaffBack
             E == StaffBack'
  <2>1. \A j \in ReversalKeys : F[j] \in Int /\ G[j] \in Int  BY <1>5
  <2>2. F[k] = 0 /\ G[k] = sum /\ \A j \in ReversalKeys \ {k} : F[j] = G[j]  BY <1>4
  <2>3. D \in SUBSET ReversalKeys /\ E \in SUBSET ReversalKeys /\ D \ {k} = E \ {k}
    BY <1>1 DEF StaffBack
  <2>4. StaffNet = Sum(amount, Succeeded \cap Staff) - Sum(F, D)
        /\ StaffNet' = Sum(amount, Succeeded \cap Staff) - Sum(G, E)
    BY <1>3, AsSums, AsSumsNext
  <2> HIDE DEF F, G, D, E
  <2>5. Sum(G, E) = Sum(F, D) - (IF k \in D THEN F[k] ELSE 0) + (IF k \in E THEN G[k] ELSE 0)
    BY <2>1, <2>2, <2>3, SumChange, PaymentFacts
  <2>6. Sum(F, D) \in Int  BY <2>1, <2>3, SumPicks, PaymentFacts
  <2>7. Sum(G, E) \in Int /\ Sum(G, E) >= Sum(F, D)  BY <2>2, <2>5, <2>6
  <2>8. Sum(amount, Succeeded \cap Staff) \in Nat
    BY SumTypes, SumNat, PaymentFacts
  <2> QED BY <2>4, <2>6, <2>7, <2>8
<1>12. ReversalInv'
  <2> SUFFICES ASSUME NEW j \in ReversalKeys
               PROVE IF back'[j].sum = 0 THEN back'[j].of = Manual ELSE leg[back'[j].of] = "succeeded"
    BY DEF ReversalInv
  <2>1. CASE j = k  BY <1>1, <2>1
  <2>2. CASE j # k  BY <1>1, <2>2 DEF Books, ReversalInv
  <2> QED BY <2>1, <2>2
<1>13. OverpaidOnlyByProvider'
  <2>1. \A q \in Payments : ReversedOf(q)' <= amount'[q]
    <3> TAKE q \in Payments
    <3>1. ReversedOf(q) \in Nat /\ amount[q] \in Nat  BY SumTypes
    <3>2. ReversedOf(q) <= amount[q]  BY DEF Books, OverpaidOnlyByProvider
    <3>3. CASE q = p
      <4>1. ReversedOf(q)' = ReversedOf(q) + sum  BY <1>10, <3>3
      <4> QED BY <3>1, <3>3, <4>1
    <3>4. CASE q # p
      <4>1. ReversedOf(q)' = ReversedOf(q) + 0  BY <1>10, <3>4
      <4> QED BY <3>1, <3>2, <4>1
    <3> QED BY <3>3, <3>4
  <2>2. (StaffNet <= Total)'
    <3>1. StaffNet <= Total /\ StaffNet \in Int  BY SumTypes DEF Books, OverpaidOnlyByProvider
    <3>2. StaffNet' \in Int
      <4>1. Sum(amount, Succeeded \cap Staff) \in Nat  BY SumTypes, SumNat, PaymentFacts
      <4>2. StaffBack' \in SUBSET ReversalKeys  BY DEF StaffBack
      <4>3. Sum(Given', StaffBack') \in Int  BY <1>5, <4>2, SumPicks, PaymentFacts
      <4> QED BY <1>3, <4>1, <4>3, AsSumsNext
    <3> QED BY <1>11, <3>1, <3>2, MoneyAssumption
  <2> QED BY <2>1, <2>2 DEF OverpaidOnlyByProvider
<1>14. status = "pending_payment" => Net' < threshold
  <2>1. Net \in Int /\ threshold \in Int  BY SumTypes, MoneyAssumption
  <2>2. status = "pending_payment" => Net < threshold  BY DEF Books, OrderFollowsLedger
  <2> QED BY <1>9, <2>1, <2>2
<1>15. /\ OrderFollowsLedger' /\ threshold' = threshold /\ status' \in {status, "paid"}
       /\ paymentStatus' \in PaymentStatuses
  BY <1>2, <1>14, Finalized
<1> QED BY <1>2, <1>12, <1>13, <1>15 DEF Books

----------------------------------------------------------------------------
(* What an open transaction has looked at and derived still holds.          *)
PaymentHolds(d) ==
    /\ d.entry \in Staff \ Succeeded /\ d.sum \in Nat /\ StaffNet + d.sum <= Total
    /\ d.pays <=> Releases(Net + d.sum)
    /\ d.paymentStatus = DerivedStatus(Net + d.sum, Reversed)
ReversalHolds(d) ==
    /\ \E k \in ReversalKeys : d.entry = Reversal(k) /\ back[k].sum = 0
    /\ d.of \in Succeeded /\ d.sum \in Nat \ {0} /\ d.sum <= amount[d.of] - ReversedOf(d.of)
    /\ d.pays = FALSE
    /\ d.paymentStatus = DerivedStatus(Net - d.sum, Reversed + d.sum)
Drafting ==
    /\ draft \subseteq Drafts
    /\ \A d, e \in draft : d = e
    /\ \A d \in draft : PaymentHolds(d) \/ ReversalHolds(d)

LEMMA HoldsKept ==
    ASSUME LedgerTypes, LedgerTypes', NEW d, PaymentHolds(d) \/ ReversalHolds(d),
           Succeeded' = Succeeded, \A p \in Succeeded : amount'[p] = amount[p], back' = back,
           UNCHANGED <<threshold, status>>
    PROVE  PaymentHolds(d)' \/ ReversalHolds(d)'
<1>1. /\ Net' = Net /\ Reversed' = Reversed /\ StaffNet' = StaffNet
      /\ \A p : ReversedOf(p)' = ReversedOf(p)
  BY SameSums
<1>2. \A n, m : DerivedStatus(n, m)' = DerivedStatus(n, m) /\ (Releases(n)' <=> Releases(n))
  BY DEF DerivedStatus, Releases
<1>3. CASE PaymentHolds(d)
  <2>1. DerivedStatus(Net + d.sum, Reversed)' = DerivedStatus(Net + d.sum, Reversed)
        /\ (Releases(Net + d.sum)' <=> Releases(Net + d.sum))
    BY <1>1 DEF DerivedStatus, Releases
  <2> QED BY <1>1, <1>3, <2>1 DEF PaymentHolds
<1>4. CASE ReversalHolds(d)
  <2>1. DerivedStatus(Net - d.sum, Reversed + d.sum)' = DerivedStatus(Net - d.sum, Reversed + d.sum)
    BY <1>1 DEF DerivedStatus
  <2>2. d.of \in Succeeded  BY <1>4 DEF ReversalHolds
  <2>3. amount'[d.of] = amount[d.of] /\ ReversedOf(d.of)' = ReversedOf(d.of)  BY <1>1, <2>2
  <2> QED BY <1>1, <1>4, <2>1, <2>3 DEF ReversalHolds
<1> QED BY <1>3, <1>4

(* With no transaction open, or in a step that leaves its books alone.      *)
LEMMA DraftsKept ==
    ASSUME LedgerTypes, LedgerTypes', Drafting, draft' = draft,
           draft = {} \/ /\ Succeeded' = Succeeded
                         /\ \A p \in Succeeded : amount'[p] = amount[p]
                         /\ UNCHANGED <<back, threshold, status>>
    PROVE  Drafting'
<1>1. CASE draft = {}  BY <1>1 DEF Drafting
<1>2. CASE draft # {}
  <2>1. \A d \in draft : PaymentHolds(d)' \/ ReversalHolds(d)'
    <3> TAKE d \in draft
    <3>1. PaymentHolds(d) \/ ReversalHolds(d)  BY DEF Drafting
    <3> QED BY <1>2, <3>1, HoldsKept
  <2> QED BY <2>1 DEF Drafting
<1> QED BY <1>1, <1>2

----------------------------------------------------------------------------
(* Attempts: what the session, the ledger and the provider say of one.      *)
AttemptInv(a) ==
    /\ session[a] = "absent" => leg[Gateway(a)] = "none" /\ leg[Late(a)] = "none"
                                /\ provider[a] \in {"none", "open"}
    /\ session[a] # "absent" => leg[Gateway(a)] # "none" /\ provider[a] # "none"
    /\ leg[Late(a)] # "none" => leg[Late(a)] = "succeeded" /\ leg[Gateway(a)] = "failed"
    /\ leg[Gateway(a)] = "succeeded" \/ leg[Late(a)] = "succeeded" => provider[a] = "paid"

Count == Cardinality(Stored)

(* What a request carries still holds when it is used: the next attempt is  *)
(* its own, and a fetched payment is one.                                   *)
RequestInv(o) ==
    /\ o.at = "write" => o.status \in Statuses \ {"pending_payment"}
    /\ o.at \in {"call", "persist"} => /\ o.ref \in Refs /\ o.ref <= Count + 1
                                       /\ o.purpose = "full" => o.sum = Total
    /\ o.at = "persist" => o.ref = Count + 1 /\ provider[o.ref] = "open"
    /\ o.at = "apply" => /\ o.ref \in Stored /\ o.status \in {"paid", "failed", "expired"}
                         /\ o.status = "paid" => provider[o.ref] = "paid"
OnePersists == \A v, w \in Workers : op[v].at = "persist" /\ op[w].at = "persist" => v = w
JobInv ==
    /\ job.todo \subseteq Stored
    /\ job.got # "none" => job.got \in {"paid", "failed", "expired"}
    /\ job.got = "paid" => \A a \in Refs : First(a) => provider[a] = "paid"

Attempts == Stored = 1 .. Count /\ Count \in Nat /\ \A a \in Refs : AttemptInv(a)
Works == (\A w \in Workers : RequestInv(op[w])) /\ OnePersists /\ JobInv
IInv == TypeOK /\ Books /\ Drafting /\ Attempts /\ Works

LEMMA TypesOf == TypeOK => LedgerTypes /\ threshold \in Thresholds
BY DEF TypeOK, LedgerTypes

(* The types, by the part of the state they are about. *)
OrderTypes ==
    /\ status \in Statuses /\ threshold \in Thresholds
    /\ paymentStatus \in PaymentStatuses
WorldTypes ==
    /\ session \in [Refs -> {"absent", "pending", "paid", "failed", "expired"}]
    /\ past \subseteq Refs /\ denied \subseteq Refs
    /\ provider \in [Refs -> ProviderStates]
WorkTypes ==
    /\ seen \subseteq Refs \X {"pending", "paid", "failed", "expired"}
    /\ op \in [Workers -> OpRecords] /\ job \in JobRecords
    /\ asked \in Nat /\ faults \in Nat

LEMMA TypeParts ==
    TypeOK <=> OrderTypes /\ LedgerTypes /\ WorldTypes /\ WorkTypes /\ draft \subseteq Drafts
BY DEF TypeOK, OrderTypes, LedgerTypes, WorldTypes, WorkTypes

(* A provider's status is applied to a stored session. *)
LEMMA ApplyStep ==
    ASSUME IInv, NEW a \in Stored, NEW s \in {"pending", "paid", "failed", "expired"},
           s = "paid" => provider[a] = "paid", ApplyStatus(a, s)
    PROVE  /\ OrderTypes' /\ LedgerTypes' /\ WorldTypes' /\ Books' /\ Drafting' /\ Attempts'
           /\ Stored' = Stored /\ provider' = provider
           /\ \A b \in Refs : session[b] = "absent" => session'[b] = "absent"
<1>1. LedgerTypes /\ OrderTypes /\ WorldTypes /\ threshold \in Thresholds /\ Books /\ Drafting
  BY TypeParts DEF IInv, OrderTypes
<1>2. a \in Refs /\ session[a] # "absent"  BY DEF Stored
<1>3. session' = [session EXCEPT ![a] = s] /\ UNCHANGED <<past, provider, denied>>
  BY DEF ApplyStatus, world
<1>4. WorldTypes'  BY <1>1, <1>2, <1>3 DEF WorldTypes
<1>5. \A b \in Refs : session'[b] = "absent" <=> session[b] = "absent"
  BY <1>1, <1>2, <1>3 DEF WorldTypes
<1>6. Stored' = Stored  BY <1>5 DEF Stored
<1>7. ASSUME OrderTypes', LedgerTypes', Books', Drafting', \A b \in Refs : AttemptInv(b)'
      PROVE  /\ OrderTypes' /\ LedgerTypes' /\ WorldTypes' /\ Books' /\ Drafting' /\ Attempts'
             /\ Stored' = Stored /\ provider' = provider
             /\ \A b \in Refs : session[b] = "absent" => session'[b] = "absent"
  BY <1>3, <1>4, <1>5, <1>6, <1>7 DEF IInv, Attempts, Count
<1>8. ASSUME UNCHANGED <<leg, amount, back, draft, order>>
      PROVE  OrderTypes' /\ LedgerTypes' /\ Books' /\ Drafting' /\ \A b \in Refs : AttemptInv(b)'
  <2>1. UNCHANGED <<leg, amount, back, draft, status, paymentStatus, threshold>>
    BY <1>8 DEF order
  <2>2. OrderTypes' /\ LedgerTypes'  BY <1>1, <2>1 DEF OrderTypes, LedgerTypes
  <2>3. Succeeded' = Succeeded  BY <2>1 DEF Succeeded
  <2>4. Books'  BY <1>1, <2>1, <2>2, <2>3, SameBooks
  <2>6. Drafting'  BY <1>1, <2>1, <2>2, <2>3, DraftsKept
  <2>5. \A b \in Refs : AttemptInv(b)'
    BY <1>3, <1>5, <2>1 DEF IInv, Attempts, AttemptInv
  <2> QED BY <2>2, <2>4, <2>5, <2>6
<1>9. ASSUME FailPendingLeg(a), ExpireIfUnpaid \/ UNCHANGED order, s # "paid"
      PROVE  OrderTypes' /\ LedgerTypes' /\ Books' /\ Drafting' /\ \A b \in Refs : AttemptInv(b)'
  <2>1. Gateway(a) \in Payments /\ Late(a) \in Payments  BY <1>2, PaymentFacts
  <2>2. leg' = [leg EXCEPT ![Gateway(a)] = IF @ = "pending" THEN "failed" ELSE @]
        /\ UNCHANGED <<amount, back, draft>>
    BY <1>9 DEF FailPendingLeg
  <2>3. /\ \A p \in Payments : p # Gateway(a) => leg'[p] = leg[p]
        /\ leg'[Gateway(a)] = IF leg[Gateway(a)] = "pending" THEN "failed" ELSE leg[Gateway(a)]
    BY <1>1, <2>1, <2>2 DEF LedgerTypes
  <2>4. LedgerTypes'  BY <1>1, <2>1, <2>2 DEF LedgerTypes
  <2>5. Succeeded' = Succeeded
    <3>1. \A p \in Payments : leg'[p] = "succeeded" <=> leg[p] = "succeeded"  BY <2>3
    <3> QED BY <3>1 DEF Succeeded
  <2>6. UNCHANGED <<paymentStatus, threshold>> /\ status' \in {status, "expired"}
    BY <1>9 DEF ExpireIfUnpaid, order
  <2>10. draft = {} \/ status' = status  BY <1>9 DEF ExpireIfUnpaid, OrderFree, order
  <2>11. Drafting'  BY <1>1, <2>2, <2>4, <2>5, <2>6, <2>10, DraftsKept
  <2>7. OrderTypes'  BY <1>1, <2>6 DEF OrderTypes, Statuses
  <2>8. Books'  BY <1>1, <2>2, <2>4, <2>5, <2>6, SameBooks
  <2>9. \A b \in Refs : AttemptInv(b)'
    <3> TAKE b \in Refs
    <3>1. AttemptInv(b)  BY DEF IInv, Attempts
    <3>2. Late(b) # Gateway(a) /\ Late(b) \in Payments /\ Gateway(b) \in Payments
      BY <1>2, PaymentFacts
    <3>3. leg'[Late(b)] = leg[Late(b)]  BY <2>3, <3>2
    <3>4. CASE b # a
      <4>1. Gateway(b) # Gateway(a)  BY <1>2, <3>4, PaymentFacts
      <4>2. leg'[Gateway(b)] = leg[Gateway(b)]  BY <2>3, <3>2, <4>1
      <4> QED BY <1>3, <1>5, <3>1, <3>3, <4>2 DEF AttemptInv
    <3>5. CASE b = a  BY <1>2, <1>3, <1>5, <2>3, <3>1, <3>3, <3>5 DEF AttemptInv
    <3> QED BY <3>4, <3>5
  <2> QED BY <2>4, <2>7, <2>8, <2>9, <2>11
<1>10. ASSUME NEW p \in Captured(a), Credit(p, amount[Gateway(a)]), Finalize,
              OrderFree, UNCHANGED draft, provider[a] = "paid"
       PROVE  OrderTypes' /\ LedgerTypes' /\ Books' /\ Drafting' /\ \A b \in Refs : AttemptInv(b)'
  <2>1. AttemptInv(a)  BY <1>2 DEF IInv, Attempts
  <2>2. Gateway(a) \in Payments \ Staff /\ Late(a) \in Payments \ Staff /\ Gateway(a) # Late(a)
    BY <1>2, PaymentFacts
  <2>3. \/ p = Gateway(a) /\ leg[Gateway(a)] = "pending"
        \/ p = Late(a) /\ leg[Gateway(a)] = "failed" /\ leg[Late(a)] # "succeeded"
    <3>1. leg[Gateway(a)] \in {"pending", "failed", "succeeded"}
      BY <1>1, <1>2, <2>1, <2>2 DEF AttemptInv, LedgerTypes
    <3>2. CASE leg[Gateway(a)] = "succeeded"  BY <1>10, <3>2 DEF Captured
    <3>3. CASE leg[Gateway(a)] = "pending"  BY <1>10, <3>3 DEF Captured
    <3>4. CASE leg[Gateway(a)] = "failed"
      BY <1>10, <2>2, <3>4 DEF Captured, Succeeded
    <3> QED BY <3>1, <3>2, <3>3, <3>4
  <2>4. p \in Payments \ Staff /\ leg[p] # "succeeded"  BY <2>2, <2>3
  <2>5. amount[Gateway(a)] \in Nat  BY <1>1, <2>2 DEF LedgerTypes
  <2>6. /\ Books' /\ LedgerTypes' /\ threshold' = threshold /\ status' \in {status, "paid"}
        /\ paymentStatus' \in PaymentStatuses
    BY <1>1, <1>10, <2>4, <2>5, CreditStep, FinalizedNow
  <2>10. Drafting'  BY <1>1, <1>10, <2>6, DraftsKept DEF OrderFree
  <2>7. OrderTypes'  BY <1>1, <2>6 DEF OrderTypes, Statuses
  <2>8. leg'[p] = "succeeded" /\ \A q \in Payments : q # p => leg'[q] = leg[q]
    BY <1>1, <1>10, <2>4 DEF Credit, LedgerTypes
  <2>9. \A b \in Refs : AttemptInv(b)'
    <3> TAKE b \in Refs
    <3>1. AttemptInv(b)  BY DEF IInv, Attempts
    <3>2. Late(b) \in Payments /\ Gateway(b) \in Payments  BY PaymentFacts
    <3>3. CASE b # a
      <4>1. Gateway(b) # p /\ Late(b) # p  BY <1>2, <2>3, <3>3, PaymentFacts
      <4>2. leg'[Gateway(b)] = leg[Gateway(b)] /\ leg'[Late(b)] = leg[Late(b)]
        BY <2>8, <3>2, <4>1
      <4> QED BY <1>3, <1>5, <3>1, <4>2 DEF AttemptInv
    <3>4. CASE b = a /\ p = Gateway(a)
      <4>1. leg'[Gateway(a)] = "succeeded" /\ leg'[Late(a)] = leg[Late(a)]
        BY <2>2, <2>8, <3>4
      <4>2. leg[Late(a)] = "none"  BY <2>1, <2>2, <2>3, <3>4 DEF AttemptInv
      <4> QED BY <1>2, <1>3, <1>5, <1>10, <2>1, <3>4, <4>1, <4>2 DEF AttemptInv
    <3>5. CASE b = a /\ p = Late(a)
      <4>1. leg'[Late(a)] = "succeeded" /\ leg'[Gateway(a)] = leg[Gateway(a)]
        BY <2>2, <2>8, <3>5
      <4>2. leg[Gateway(a)] = "failed"  BY <2>2, <2>3, <3>5
      <4> QED BY <1>2, <1>3, <1>5, <1>10, <2>1, <3>5, <4>1, <4>2 DEF AttemptInv
    <3> QED BY <2>3, <3>3, <3>4, <3>5
  <2> QED BY <2>6, <2>7, <2>9, <2>10
<1>11. CASE s = "paid" /\ Settle(a)
  <2>0. OrderFree /\ UNCHANGED draft  BY <1>11 DEF Settle
  <2>1. CASE UNCHANGED <<leg, amount, back, order>>  BY <1>7, <1>8, <2>0, <2>1
  <2>2. CASE \E p \in Captured(a) : Credit(p, amount[Gateway(a)]) /\ Finalize
    BY <1>7, <1>10, <1>11, <2>0, <2>2
  <2> QED BY <1>11, <2>1, <2>2 DEF Settle
<1>12. CASE s = "expired" /\ FailPendingLeg(a) /\ ExpireIfUnpaid  BY <1>7, <1>9, <1>12
<1>13. CASE s = "failed" /\ FailPendingLeg(a) /\ UNCHANGED order  BY <1>7, <1>9, <1>13
<1>14. CASE s = "pending" /\ UNCHANGED <<ledger, order>>  BY <1>7, <1>8, <1>14 DEF ledger
<1> QED BY <1>11, <1>12, <1>13, <1>14 DEF ApplyStatus

----------------------------------------------------------------------------
(* The requests and the job at work, across the steps of others.            *)
LEMMA RequestsKept ==
    ASSUME IInv, Stored' = Stored,
           \A a \in Refs : provider[a] = "paid" => provider'[a] = "paid",
           \A a \in Refs \ Stored : provider'[a] = provider[a],
           \A w \in Workers : op'[w] = op[w] \/ (op'[w].at # "persist" /\ RequestInv(op[w])')
    PROVE  (\A w \in Workers : RequestInv(op[w]))' /\ OnePersists'
<1>1. Count' = Count /\ Count \in Nat /\ Stored = 1 .. Count
  BY DEF Count, IInv, Attempts
<1>2. ASSUME NEW w \in Workers, op'[w] = op[w] PROVE RequestInv(op[w])'
  <2> DEFINE o == op[w]
  <2>1. RequestInv(o)  BY DEF IInv, Works
  <2>2. op'[w] = o  BY <1>2
  <2>3. o.at = "write" => o.status \in Statuses \ {"pending_payment"}  BY <2>1 DEF RequestInv
  <2>4. o.at \in {"call", "persist"} => /\ o.ref \in Refs /\ o.ref <= Count' + 1
                                        /\ o.purpose = "full" => o.sum = Total
    BY <1>1, <2>1 DEF RequestInv
  <2>5. o.at = "persist" => o.ref = Count' + 1 /\ provider'[o.ref] = "open"
    <3>1. SUFFICES ASSUME o.at = "persist" PROVE o.ref = Count' + 1 /\ provider'[o.ref] = "open"
      OBVIOUS
    <3>2. o.ref = Count + 1 /\ provider[o.ref] = "open" /\ o.ref \in Refs
      BY <2>1, <3>1 DEF RequestInv
    <3>3. o.ref \notin Stored  BY <1>1, <3>2
    <3> QED BY <1>1, <3>2, <3>3
  <2>6. o.at = "apply" => /\ o.ref \in Stored' /\ o.status \in {"paid", "failed", "expired"}
                          /\ o.status = "paid" => provider'[o.ref] = "paid"
    <3>1. Stored \subseteq Refs  BY DEF Stored
    <3> QED BY <2>1, <3>1 DEF RequestInv
  <2> HIDE DEF o
  <2> QED BY <2>2, <2>3, <2>4, <2>5, <2>6 DEF RequestInv
<1>3. \A w \in Workers : RequestInv(op[w])'  BY <1>2
<1>4. \A v, w \in Workers : op'[v].at = "persist" /\ op'[w].at = "persist" => v = w
  BY DEF IInv, Works, OnePersists
<1> QED BY <1>3, <1>4 DEF OnePersists

LEMMA JobKept ==
    ASSUME IInv, Stored \subseteq Stored', job' = job,
           \A a \in Refs : provider[a] = "paid" => provider'[a] = "paid"
    PROVE  JobInv'
<1>1. \A a \in Refs : First(a)' <=> First(a)  BY DEF First
<1> QED BY <1>1 DEF IInv, Works, JobInv

(* What rests is of the right kind. *)
LEMMA IdleRecord == Idle \in OpRecords /\ Resting \in JobRecords
BY DEF Idle, Resting, OpRecords, JobRecords, ProviderStates

(* The job has done with the first on its list. *)
LEMMA JobMovesOn ==
    ASSUME IInv, Stored \subseteq Stored', NEW a \in Refs, job' = After(a)
    PROVE  JobInv' /\ job' \in JobRecords
<1>1. job \in JobRecords  BY TypeParts DEF IInv, WorkTypes
<1>2. job' = Resting \/ job' = [job EXCEPT !.todo = @ \ {a}, !.got = "none"]  BY DEF After
<1>3. job'.todo \subseteq job.todo /\ job'.got = "none" /\ job' \in JobRecords
  <2>1. CASE job' = Resting
    <3>1. Resting.todo = {} /\ Resting.got = "none"  BY DEF Resting
    <3> QED BY <2>1, <3>1, IdleRecord
  <2>2. CASE job' = [job EXCEPT !.todo = @ \ {a}, !.got = "none"]
    BY <1>1, <2>2 DEF JobRecords, ProviderStates
  <2> QED BY <1>2, <2>1, <2>2
<1>4. job.todo \subseteq Stored  BY DEF IInv, Works, JobInv
<1>5. job'.todo \subseteq Stored'  BY <1>3, <1>4
<1> QED BY <1>3, <1>5 DEF JobInv

LEMMA IdleInv ==
    ASSUME NEW w \in Workers, op'[w] = Idle
    PROVE  op'[w].at # "persist" /\ RequestInv(op[w])'
BY DEF Idle, RequestInv

(* The parts of the invariant put together. *)
LEMMA Together ==
    ASSUME OrderTypes', LedgerTypes', WorldTypes', WorkTypes', Books', Drafting', Attempts', Works'
    PROVE  IInv'
<1>1. TypeOK'  BY DEF TypeOK, OrderTypes, LedgerTypes, WorldTypes, WorkTypes, Drafting
<1> QED BY <1>1 DEF IInv

LEMMA AskTypes == ASSUME asked \in Nat, Ask PROVE asked' \in Nat
BY DEF Ask

(* A step in which only the money moves, at no attempt. *)
LEMMA MoneyStep ==
    ASSUME IInv, OrderTypes', LedgerTypes', Books', Drafting',
           \A a \in Refs : leg'[Gateway(a)] = leg[Gateway(a)] /\ leg'[Late(a)] = leg[Late(a)],
           UNCHANGED <<session, past, world, seen, op, job>>, asked' \in Nat, faults' \in Nat
    PROVE  IInv'
<1>0. UNCHANGED <<session, past, provider, denied, seen, op, job>>  BY DEF world
<1>1. WorldTypes' /\ WorkTypes'
  BY <1>0, TypeParts DEF IInv, WorldTypes, WorkTypes
<1>2. Stored' = Stored  BY <1>0 DEF Stored
<1>3. \A a \in Refs : AttemptInv(a)'  BY <1>0 DEF IInv, Attempts, AttemptInv
<1>4. Attempts'  BY <1>2, <1>3 DEF IInv, Attempts, Count
<1>5. Works'
  <2>1. (\A w \in Workers : RequestInv(op[w]))' /\ OnePersists'  BY <1>0, <1>2, RequestsKept
  <2>2. JobInv'  BY <1>0, <1>2, JobKept
  <2> QED BY <2>1, <2>2 DEF Works
<1> QED BY <1>1, <1>4, <1>5, Together

(* A step in which nothing of the order and its ledger moves, but perhaps   *)
(* the status, away from waiting for payment.                               *)
LEMMA OutsideStep ==
    ASSUME IInv, UNCHANGED <<ledger, paymentStatus, threshold>>,
           status' \in Statuses, status' = "pending_payment" => status = "pending_payment",
           draft = {} \/ status' = status
    PROVE  OrderTypes' /\ LedgerTypes' /\ Books' /\ Drafting'
<1>1. OrderTypes /\ LedgerTypes /\ Books /\ Drafting  BY TypeParts DEF IInv
<1>2. UNCHANGED <<leg, amount, back, draft, paymentStatus, threshold>>  BY DEF ledger
<1>3. OrderTypes' /\ LedgerTypes'  BY <1>1, <1>2 DEF OrderTypes, LedgerTypes
<1>4. Succeeded' = Succeeded  BY <1>2 DEF Succeeded
<1>5. threshold \in Thresholds  BY <1>1 DEF OrderTypes
<1>6. Books'  BY <1>1, <1>2, <1>3, <1>4, <1>5, SameBooks
<1>7. Drafting'  BY <1>1, <1>2, <1>3, <1>4, DraftsKept
<1> QED BY <1>3, <1>6, <1>7

(* And nothing of the attempts either. *)
LEMMA SameAttempts ==
    ASSUME IInv, UNCHANGED <<ledger, session, provider>>
    PROVE  Attempts' /\ Stored' = Stored
<1>1. UNCHANGED <<leg, session, provider>>  BY DEF ledger
<1>2. Stored' = Stored  BY <1>1 DEF Stored
<1>3. \A a \in Refs : AttemptInv(a)'  BY <1>1 DEF IInv, Attempts, AttemptInv
<1> QED BY <1>2, <1>3 DEF IInv, Attempts, Count

(* A step of a request or of the job that changes its own state only.       *)
LEMMA OwnStep ==
    ASSUME IInv, UNCHANGED <<ledger, paymentStatus, threshold, session, world>>,
           status' \in Statuses, status' = "pending_payment" => status = "pending_payment",
           draft = {} \/ status' = status, past' \subseteq Refs, seen' \subseteq Refs \X {"pending", "paid", "failed", "expired"},
           op' \in [Workers -> OpRecords], job' \in JobRecords, asked' \in Nat, faults' \in Nat,
           \A w \in Workers : op'[w] = op[w] \/ (op'[w].at # "persist" /\ RequestInv(op[w])'),
           JobInv'
    PROVE  IInv'
<1>0. UNCHANGED <<provider, denied>>  BY DEF world
<1>1. OrderTypes' /\ LedgerTypes' /\ Books' /\ Drafting'  BY OutsideStep
<1>2. WorldTypes'  BY <1>0, TypeParts DEF IInv, WorldTypes
<1>3. WorkTypes'  BY DEF WorkTypes
<1>4. Attempts' /\ Stored' = Stored  BY <1>0, SameAttempts
<1>5. (\A w \in Workers : RequestInv(op[w]))' /\ OnePersists'  BY <1>0, <1>4, RequestsKept
<1>6. Works'  BY <1>5 DEF Works
<1> QED BY <1>1, <1>2, <1>3, <1>4, <1>6, Together

(* A provider's status is applied by someone who then goes on.              *)
LEMMA AppliedStep ==
    ASSUME IInv, NEW a \in Stored, NEW s \in {"pending", "paid", "failed", "expired"},
           s = "paid" => provider[a] = "paid", ApplyStatus(a, s),
           seen' \subseteq Refs \X {"pending", "paid", "failed", "expired"},
           op' \in [Workers -> OpRecords], job' \in JobRecords, asked' \in Nat, faults' \in Nat,
           \A w \in Workers : op'[w] = op[w] \/ (op'[w].at # "persist" /\ RequestInv(op[w])'),
           Stored' = Stored /\ provider' = provider => JobInv'
    PROVE  IInv'
<1>1. /\ OrderTypes' /\ LedgerTypes' /\ WorldTypes' /\ Books' /\ Drafting' /\ Attempts'
      /\ Stored' = Stored /\ provider' = provider
  BY ApplyStep
<1>2. WorkTypes'  BY DEF WorkTypes
<1>3. (\A w \in Workers : RequestInv(op[w]))' /\ OnePersists'  BY <1>1, RequestsKept
<1>4. Works'  BY <1>1, <1>3 DEF Works
<1> QED BY <1>1, <1>2, <1>4, Together

(* The committed rows stay, and with them what open transactions rely on.   *)
LEMMA RowsKept ==
    ASSUME IInv, UNCHANGED <<order, leg, amount, back>>
    PROVE  /\ OrderTypes' /\ LedgerTypes' /\ Books'
           /\ \A d : PaymentHolds(d) \/ ReversalHolds(d) => PaymentHolds(d)' \/ ReversalHolds(d)'
<1>1. OrderTypes /\ LedgerTypes /\ Books  BY TypeParts DEF IInv
<1>2. UNCHANGED <<leg, amount, back, status, paymentStatus, threshold>>  BY DEF order
<1>3. OrderTypes' /\ LedgerTypes'  BY <1>1, <1>2 DEF OrderTypes, LedgerTypes
<1>4. Succeeded' = Succeeded  BY <1>2 DEF Succeeded
<1>5. threshold \in Thresholds  BY <1>1 DEF OrderTypes
<1>6. Books'  BY <1>1, <1>2, <1>3, <1>4, <1>5, SameBooks
<1>7. \A d : PaymentHolds(d) \/ ReversalHolds(d) => PaymentHolds(d)' \/ ReversalHolds(d)'
  <2> TAKE d
  <2> HAVE PaymentHolds(d) \/ ReversalHolds(d)
  <2> QED BY <1>1, <1>2, <1>3, <1>4, HoldsKept
<1> QED BY <1>3, <1>6, <1>7

(* A transaction opens. *)
LEMMA DraftStep ==
    ASSUME IInv, NEW d \in Drafts, PaymentHolds(d) \/ ReversalHolds(d), OrderFree,
           draft' = draft \cup {d}, Ask,
           UNCHANGED <<order, leg, amount, back, session, past, world, seen, op, job, faults>>
    PROVE  IInv'
<1>1. OrderTypes' /\ LedgerTypes' /\ Books' /\ (PaymentHolds(d)' \/ ReversalHolds(d)')
  BY RowsKept
<1>2. draft' = {d}  BY DEF OrderFree
<1>3. Drafting'  BY <1>1, <1>2 DEF Drafting
<1>4. WorkTypes  BY TypeParts DEF IInv
<1>5. asked' \in Nat /\ faults' \in Nat  BY <1>4, AskTypes DEF WorkTypes
<1> QED BY <1>1, <1>3, <1>5, MoneyStep

----------------------------------------------------------------------------
(* The actions, one by one. *)
LEMMA DraftPaymentInv ==
    ASSUME IInv, NEW p \in Staff, NEW sum \in Nat, leg[p] # "succeeded", StaffNet + sum <= Total,
           DraftPayment(p, sum), OrderFree, Ask,
           UNCHANGED <<order, leg, amount, back, session, past, world, seen, op, job, faults>>
    PROVE  IInv'
<1> DEFINE d == [entry |-> p, of |-> p, sum |-> sum, pays |-> Releases(Net + sum),
                 paymentStatus |-> DerivedStatus(Net + sum, Reversed)]
<1>1. Releases(Net + sum) \in BOOLEAN /\ DerivedStatus(Net + sum, Reversed) \in PaymentStatuses
  BY DEF Releases, DerivedStatus, PaymentStatuses
<1>2. p \in Payments /\ p \notin Succeeded  BY PaymentFacts DEF Succeeded
<1>3. d \in Drafts  BY <1>1, <1>2 DEF Drafts
<1>4. PaymentHolds(d)  BY <1>2 DEF PaymentHolds
<1>5. draft' = draft \cup {d}  BY DEF DraftPayment
<1> HIDE DEF d
<1>6. PICK e : e = d  OBVIOUS
<1>7. e \in Drafts /\ PaymentHolds(e) /\ draft' = draft \cup {e}  BY <1>3, <1>4, <1>5, <1>6
<1> QED BY <1>7, DraftStep

LEMMA RecordPaymentInv ==
    ASSUME IInv, NEW k \in StaffKeys, NEW sum \in 1 .. Total, RecordPayment(k, sum) PROVE IInv'
<1> DEFINE p == <<"staff", k>>
<1>1. OrderTypes /\ LedgerTypes /\ Books  BY TypeParts DEF IInv
<1>2. p \in Staff  BY PaymentFacts
<1>3. leg[p] # "succeeded"  BY DEF RecordPayment
<1>4. sum \in Nat  BY MoneyAssumption
<1>5. StaffNet + sum <= Total
  <2>1. StaffNet <= Net  BY <1>1, NetCoversStaff DEF Books, OverpaidOnlyByProvider
  <2>2. StaffNet \in Int /\ Net \in Int  BY <1>1, SumTypes
  <2>3. sum \in 1 .. Outstanding  BY DEF RecordPayment
  <2>4. Net < Total /\ sum <= Total - Net
    BY <2>2, <2>3, MoneyAssumption DEF Outstanding
  <2> QED BY <1>4, <2>1, <2>2, <2>4, MoneyAssumption
<1>6. /\ DraftPayment(p, sum) /\ OrderFree /\ Ask
      /\ UNCHANGED <<order, leg, amount, back, session, past, world, seen, op, job, faults>>
  BY DEF RecordPayment
<1> HIDE DEF p
<1> QED BY <1>2, <1>3, <1>4, <1>5, <1>6, DraftPaymentInv

LEMMA AdminPaidInv == ASSUME IInv, AdminPaid PROVE IInv'
<1>1. LedgerTypes  BY TypeParts DEF IInv
<1>2. Manual \in Staff /\ Manual \in Payments  BY PaymentFacts
<1>3. leg[Manual] # "succeeded" /\ Succeeded = {}  BY <1>2 DEF AdminPaid, Succeeded
<1>4. Total \in Nat  BY MoneyAssumption
<1>5. StaffNet + Total <= Total
  <2>1. Sum(amount, Succeeded \cap Staff) = 0
    <3>1. Succeeded \cap Staff = {}  BY <1>3
    <3> QED BY <3>1, SumEmpty
  <2>2. Sum(Given, StaffBack) \in Nat
    <3>1. StaffBack \in SUBSET ReversalKeys  BY DEF StaffBack
    <3> QED BY <1>1, <3>1, SumTypes, SumNat, PaymentFacts
  <2>3. StaffNet = 0 - Sum(Given, StaffBack)  BY <2>1, AsSums
  <2> QED BY <1>4, <2>2, <2>3
<1>6. /\ DraftPayment(Manual, Total) /\ OrderFree /\ Ask
      /\ UNCHANGED <<order, leg, amount, back, session, past, world, seen, op, job, faults>>
  BY DEF AdminPaid
<1> QED BY <1>2, <1>3, <1>4, <1>5, <1>6, DraftPaymentInv

LEMMA ReverseInv ==
    ASSUME IInv, NEW k \in ReversalKeys, NEW p \in Payments, NEW sum \in 1 .. Total,
           Reverse(k, p, sum)
    PROVE  IInv'
<1>1. LedgerTypes  BY TypeParts DEF IInv
<1>2. sum \in Nat \ {0}  BY MoneyAssumption
<1>3. sum <= amount[p] - ReversedOf(p)
  <2>1. sum \in 1 .. (amount[p] - ReversedOf(p))  BY DEF Reverse
  <2>2. amount[p] \in Nat /\ ReversedOf(p) \in Nat  BY <1>1, SumTypes
  <2> QED BY <2>1, <2>2
<1> DEFINE d == [entry |-> Reversal(k), of |-> p, sum |-> sum, pays |-> FALSE,
                 paymentStatus |-> DerivedStatus(Net - sum, Reversed + sum)]
<1>4. /\ back[k].sum = 0 /\ leg[p] = "succeeded" /\ OrderFree /\ Ask /\ draft' = draft \cup {d}
      /\ UNCHANGED <<order, leg, amount, back, session, past, world, seen, op, job, faults>>
  BY DEF Reverse
<1>5. DerivedStatus(Net - sum, Reversed + sum) \in PaymentStatuses
  BY DEF DerivedStatus, PaymentStatuses
<1>6. d \in Drafts  BY <1>2, <1>5 DEF Drafts
<1>7. p \in Succeeded  BY <1>4 DEF Succeeded
<1>8. ReversalHolds(d)  BY <1>2, <1>3, <1>4, <1>7 DEF ReversalHolds
<1> HIDE DEF d
<1>9. PICK e : e = d  OBVIOUS
<1>10. e \in Drafts /\ ReversalHolds(e) /\ draft' = draft \cup {e}  BY <1>4, <1>6, <1>8, <1>9
<1> QED BY <1>4, <1>10, DraftStep

(* What was drafted is what the ledger now makes of the order.              *)
LEMMA CommitInv == ASSUME IInv, NEW d \in draft, Commit(d) PROVE IInv'
<1>1. OrderTypes /\ LedgerTypes /\ Books /\ Drafting /\ WorkTypes /\ threshold \in Thresholds
  BY TypeParts DEF IInv, OrderTypes
<1>2. draft' = {} /\ (PaymentHolds(d) \/ ReversalHolds(d))  BY <1>1 DEF Commit, Drafting
<1>3. d \in Drafts  BY <1>1 DEF Drafting
<1>4. /\ status' = IF d.pays THEN "paid" ELSE status
      /\ paymentStatus' = d.paymentStatus
      /\ UNCHANGED <<threshold, session, past, world, seen, op, job, asked, faults>>
  BY DEF Commit
<1>5. \A a \in Refs : Gateway(a) \in Payments \ Staff /\ Late(a) \in Payments \ Staff
  BY PaymentFacts
<1>6. /\ Books' /\ LedgerTypes' /\ status' \in {status, "paid"} /\ paymentStatus' \in PaymentStatuses
      /\ \A a \in Refs : leg'[Gateway(a)] = leg[Gateway(a)] /\ leg'[Late(a)] = leg[Late(a)]
  <2>1. CASE PaymentHolds(d)
    <3> DEFINE p == d.entry
               sum == d.sum
    <3>1. /\ p \in Staff /\ p \in Payments /\ leg[p] # "succeeded" /\ sum \in Nat
          /\ StaffNet + sum <= Total
          /\ d.pays <=> Releases(Net + sum)
          /\ d.paymentStatus = DerivedStatus(Net + sum, Reversed)
      BY <2>1, PaymentFacts DEF PaymentHolds, Succeeded
    <3>2. \A k \in ReversalKeys : d.entry # Reversal(k)
      BY <3>1 DEF Reversal, Staff, Manual
    <3>3. Credit(p, sum)  BY <3>2 DEF Commit
    <3> HIDE DEF p, sum
    <3>4. Net' = Net + sum /\ Reversed' = Reversed  BY <1>1, <3>1, <3>3, CreditSums
    <3>5. LedgerStatus' = DerivedStatus(Net + sum, Reversed)
      BY <1>4, <3>4 DEF LedgerStatus, DerivedStatus
    <3>6. FinalizedBy(TRUE)  BY <1>4, <3>1, <3>4, <3>5 DEF FinalizedBy, Releases
    <3>7. /\ Books' /\ LedgerTypes' /\ status' \in {status, "paid"}
          /\ paymentStatus' \in PaymentStatuses
      BY <1>1, <3>1, <3>3, <3>6, CreditStep
    <3>8. \A q \in Payments \ Staff : leg'[q] = leg[q]  BY <1>1, <3>1, <3>3 DEF Credit, LedgerTypes
    <3> QED BY <1>5, <3>7, <3>8
  <2>2. CASE ReversalHolds(d)
    <3> DEFINE p == d.of
               sum == d.sum
    <3>1. /\ p \in Payments /\ leg[p] = "succeeded" /\ sum \in Nat \ {0}
          /\ sum <= amount[p] - ReversedOf(p) /\ d.pays = FALSE
          /\ d.paymentStatus = DerivedStatus(Net - sum, Reversed + sum)
      BY <2>2 DEF ReversalHolds, Succeeded
    <3>2. PICK k \in ReversalKeys : d.entry = Reversal(k) /\ back[k].sum = 0
      BY <2>2 DEF ReversalHolds
    <3>3. d.entry \notin Staff  BY <3>2 DEF Reversal, Staff, Manual
    <3>4. \A j \in ReversalKeys : d.entry = Reversal(j) => j = k  BY <3>2 DEF Reversal
    <3>5. back' = [back EXCEPT ![k] = [of |-> p, sum |-> sum]] /\ UNCHANGED <<leg, amount>>
      BY <3>3, <3>4 DEF Commit
    <3> HIDE DEF p, sum
    <3>6. Net' = Net - sum /\ Reversed' = Reversed + sum
      BY <1>1, <3>1, <3>2, <3>5, ReverseSums
    <3>7. LedgerStatus' = DerivedStatus(Net - sum, Reversed + sum)
      BY <1>4, <3>6 DEF LedgerStatus, DerivedStatus
    <3>8. FinalizedBy(FALSE)  BY <1>4, <3>1, <3>7 DEF FinalizedBy
    <3>9. /\ Books' /\ LedgerTypes' /\ status' \in {status, "paid"}
          /\ paymentStatus' \in PaymentStatuses
      BY <1>1, <3>1, <3>2, <3>5, <3>8, ReverseStep
    <3> QED BY <3>5, <3>9
  <2> QED BY <1>2, <2>1, <2>2
<1>7. OrderTypes'  BY <1>1, <1>4, <1>6 DEF OrderTypes, Statuses
<1>8. Drafting'  BY <1>2 DEF Drafting
<1>9. asked' \in Nat /\ faults' \in Nat  BY <1>1, <1>4 DEF WorkTypes
<1> QED BY <1>4, <1>6, <1>7, <1>8, <1>9, MoneyStep

LEMMA ReceiveCallbackInv ==
    ASSUME IInv, NEW a \in Refs, NEW s \in {"pending", "paid", "failed", "expired"},
           ReceiveCallback(a, s)
    PROVE  IInv'
<1>1. WorkTypes  BY TypeParts DEF IInv
<1>2. a \in Stored /\ (s = "paid" => provider[a] = "paid") /\ ApplyStatus(a, s)
  BY DEF ReceiveCallback, Stored, Told
<1>3. /\ seen' = seen \cup {<<a, s>>} /\ UNCHANGED <<op, job, asked, faults>>
  BY DEF ReceiveCallback
<1>4. WorkTypes'  BY <1>1, <1>3 DEF WorkTypes
<1>5. Stored' = Stored /\ provider' = provider => JobInv'  BY <1>3, JobKept
<1> QED BY <1>2, <1>3, <1>4, <1>5, AppliedStep DEF WorkTypes

LEMMA ReadStatusInv ==
    ASSUME IInv, NEW w \in Workers, NEW to \in Statuses, ReadStatus(w, to) PROVE IInv'
<1>1. OrderTypes /\ WorldTypes /\ WorkTypes  BY TypeParts DEF IInv
<1>2. to # "pending_payment"
  <2>1. to \in Legal[status] /\ status \in Statuses  BY <1>1 DEF ReadStatus, OrderTypes
  <2> QED BY <2>1 DEF Legal, Statuses
<1> DEFINE o == [Idle EXCEPT !.at = "write", !.status = to]
<1>3. o.at = "write" /\ o.status = to /\ o \in OpRecords
  BY DEF Idle, OpRecords
<1>4. op' = [op EXCEPT ![w] = o] /\ Ask
      /\ UNCHANGED <<order, ledger, session, past, world, seen, job, faults>>
  BY DEF ReadStatus
<1> HIDE DEF o
<1>5. op'[w] = o /\ op' \in [Workers -> OpRecords] /\ \A v \in Workers \ {w} : op'[v] = op[v]
  BY <1>1, <1>3, <1>4 DEF WorkTypes
<1>6. op'[w].at # "persist" /\ RequestInv(op[w])'  BY <1>2, <1>3, <1>5 DEF RequestInv
<1>7. Stored' = Stored /\ provider' = provider  BY <1>4 DEF Stored, world
<1>8. JobInv'  BY <1>4, <1>7, JobKept
<1>9. asked' \in Nat  BY <1>1, <1>4, AskTypes DEF WorkTypes
<1> QED BY <1>1, <1>4, <1>5, <1>6, <1>8, <1>9, OwnStep DEF order, OrderTypes, WorldTypes, WorkTypes

LEMMA WriteStatusInv == ASSUME IInv, NEW w \in Workers, WriteStatus(w) PROVE IInv'
<1>1. OrderTypes /\ WorldTypes /\ WorkTypes  BY TypeParts DEF IInv
<1>2. RequestInv(op[w])  BY DEF IInv, Works
<1>3. status' \in Statuses \ {"pending_payment"}  BY <1>2 DEF WriteStatus, RequestInv
<1>4. op' = [op EXCEPT ![w] = Idle]
      /\ UNCHANGED <<paymentStatus, threshold, ledger, session, past, world, seen, job, asked, faults>>
  BY DEF WriteStatus
<1>5. op'[w] = Idle /\ op' \in [Workers -> OpRecords] /\ \A v \in Workers \ {w} : op'[v] = op[v]
  BY <1>1, <1>4, IdleRecord DEF WorkTypes
<1>6. op'[w].at # "persist" /\ RequestInv(op[w])'  BY <1>5, IdleInv
<1>7. Stored' = Stored /\ provider' = provider  BY <1>4 DEF Stored, world
<1>8. JobInv'  BY <1>4, <1>7, JobKept
<1>9. draft = {}  BY DEF WriteStatus, OrderFree
<1> QED BY <1>1, <1>3, <1>4, <1>5, <1>6, <1>8, <1>9, OwnStep DEF WorldTypes, WorkTypes

LEMMA ValidateSessionInv ==
    ASSUME IInv, NEW w \in Workers, NEW purpose \in {"full", "deposit", "balance"},
           ValidateSession(w, purpose)
    PROVE  IInv'
<1>1. OrderTypes /\ LedgerTypes /\ WorldTypes /\ WorkTypes  BY TypeParts DEF IInv
<1>2. Count \in Nat /\ Count + 1 \in Refs  BY DEF ValidateSession, IInv, Attempts, Count
<1> DEFINE o == [at |-> "call", ref |-> Count + 1, sum |-> Expected(purpose),
                 purpose |-> purpose, status |-> "none"]
<1>3. op' = [op EXCEPT ![w] = o] /\ Ask
      /\ UNCHANGED <<order, ledger, session, past, world, seen, job, faults>>
  BY DEF ValidateSession, Count
<1>4. Expected(purpose) \in Nat /\ (purpose = "full" => Expected(purpose) = Total)
  <2>1. Net \in Int /\ threshold \in Nat /\ Total \in Nat
    BY <1>1, SumTypes, MoneyAssumption DEF OrderTypes
  <2>2. Allowed(purpose)  BY DEF ValidateSession
  <2>3. CASE purpose = "full"  BY <2>1, <2>3 DEF Expected
  <2>4. CASE purpose = "deposit"
    <3>1. Net < threshold /\ Expected(purpose) = threshold - Net
      BY <2>2, <2>4 DEF Expected, Allowed
    <3> QED BY <2>1, <2>4, <3>1
  <2>5. CASE purpose = "balance"
    <3>1. Net < Total /\ Expected(purpose) = Total - Net
      BY <2>2, <2>5 DEF Expected, Allowed
    <3> QED BY <2>1, <2>5, <3>1
  <2> QED BY <2>3, <2>4, <2>5
<1>5. o \in OpRecords  BY <1>2, <1>4 DEF OpRecords, ProviderStates
<1>6. /\ o.at = "call" /\ o.ref = Count + 1 /\ o.purpose = purpose
      /\ o.purpose = "full" => o.sum = Total
  BY <1>4
<1> HIDE DEF o
<1>7. op'[w] = o /\ op' \in [Workers -> OpRecords] /\ \A v \in Workers \ {w} : op'[v] = op[v]
  BY <1>1, <1>3, <1>5 DEF WorkTypes
<1>8. Stored' = Stored /\ provider' = provider /\ Count' = Count  BY <1>3 DEF Stored, world, Count
<1>9. op'[w].at # "persist" /\ RequestInv(op[w])'
  BY <1>2, <1>6, <1>7, <1>8 DEF RequestInv
<1>10. JobInv'  BY <1>3, <1>8, JobKept
<1>11. asked' \in Nat  BY <1>1, <1>3, AskTypes DEF WorkTypes
<1> QED BY <1>1, <1>3, <1>7, <1>9, <1>10, <1>11, OwnStep DEF order, OrderTypes, WorldTypes, WorkTypes

LEMMA CallProviderInv == ASSUME IInv, NEW w \in Workers, CallProvider(w) PROVE IInv'
<1> DEFINE a == op[w].ref
<1>1. OrderTypes /\ WorldTypes /\ WorkTypes  BY TypeParts DEF IInv
<1>2. op[w].at = "call" /\ UNCHANGED <<order, ledger, session, past, denied, seen, job, asked, faults>>
  BY DEF CallProvider
<1>3. a \in Refs /\ a <= Count + 1 /\ (op[w].purpose = "full" => op[w].sum = Total)
  BY <1>2 DEF IInv, Works, RequestInv
<1>4. UNCHANGED <<status, paymentStatus, threshold>>  BY <1>2 DEF order
<1>5. CASE provider[a] = "none" /\ provider' = [provider EXCEPT ![a] = "open"]
           /\ op' = [op EXCEPT ![w].at = "persist"]
  <2>1. Count \in Nat /\ Stored = 1 .. Count /\ Stored' = Stored /\ Count' = Count
    BY <1>2 DEF IInv, Attempts, Count, Stored
  <2>2. session[a] = "absent"  BY <1>3, <1>5 DEF IInv, Attempts, AttemptInv
  <2>3. a = Count + 1
    <3>1. a \notin Stored  BY <2>2 DEF Stored
    <3>2. a \in Nat \ {0}  BY <1>3, RefAssumption
    <3> QED BY <1>3, <2>1, <3>1, <3>2
  <2>4. \A b \in Refs \ {a} : provider'[b] = provider[b]  BY <1>1, <1>5 DEF WorldTypes
  <2>5. provider'[a] = "open"  BY <1>1, <1>3, <1>5 DEF WorldTypes
  <2>6. op[w] \in OpRecords  BY <1>1 DEF WorkTypes
  <2>7. op' = [op EXCEPT ![w] = [op[w] EXCEPT !.at = "persist"]]  BY <1>5
  <2> DEFINE o == [op[w] EXCEPT !.at = "persist"]
  <2>8. /\ o \in OpRecords /\ o.at = "persist" /\ o.ref = a /\ o.purpose = op[w].purpose
        /\ o.sum = op[w].sum
    BY <2>6 DEF OpRecords
  <2> HIDE DEF o, a
  <2>9. op'[w] = o /\ op' \in [Workers -> OpRecords] /\ \A v \in Workers \ {w} : op'[v] = op[v]
    BY <1>1, <2>7, <2>8 DEF WorkTypes, o
  <2>10. WorkTypes'  BY <1>1, <1>2, <2>9 DEF WorkTypes
  <2>11. WorldTypes'  BY <1>1, <1>2, <1>3, <1>5 DEF WorldTypes, ProviderStates
  <2>12. OrderTypes' /\ LedgerTypes' /\ Books' /\ Drafting'
    BY <1>1, <1>2, <1>4, OutsideStep DEF OrderTypes
  <2>13. Attempts'
    <3>1. \A b \in Refs : AttemptInv(b)'
      <4> TAKE b \in Refs
      <4>1. AttemptInv(b) /\ leg' = leg /\ session' = session
        BY <1>2 DEF IInv, Attempts, ledger
      <4>2. CASE b # a  BY <2>4, <4>1, <4>2 DEF AttemptInv
      <4>3. CASE b = a  BY <1>5, <2>2, <2>5, <4>1, <4>3 DEF AttemptInv
      <4> QED BY <4>2, <4>3
    <3> QED BY <2>1, <3>1 DEF Attempts
  <2>14. \A v \in Workers : op[v].at # "persist"
    <3>1. SUFFICES ASSUME NEW v \in Workers, op[v].at = "persist" PROVE FALSE  OBVIOUS
    <3>2. op[v].ref = Count + 1 /\ provider[op[v].ref] = "open"
      BY <3>1 DEF IInv, Works, RequestInv
    <3> QED BY <1>5, <2>3, <3>2
  <2>15. \A v \in Workers : RequestInv(op[v])'
    <3> TAKE v \in Workers
    <3>1. CASE v = w
      <4>1. o.ref \in Refs /\ o.ref = Count' + 1 /\ provider'[o.ref] = "open"
            /\ (o.purpose = "full" => o.sum = Total)
        BY <1>3, <2>1, <2>3, <2>5, <2>8
      <4>2. op'[v] = o  BY <2>9, <3>1
      <4> QED BY <2>1, <2>8, <4>1, <4>2 DEF RequestInv
    <3>2. CASE v # w
      <4>1. op'[v] = op[v] /\ op[v].at # "persist"  BY <2>9, <2>14, <3>2
      <4>2. RequestInv(op[v])  BY DEF IInv, Works
      <4>3. op[v].at = "apply" => provider'[op[v].ref] = provider[op[v].ref]
        <5>1. SUFFICES ASSUME op[v].at = "apply" PROVE provider'[op[v].ref] = provider[op[v].ref]
          OBVIOUS
        <5>2. op[v].ref \in Stored  BY <4>2, <5>1 DEF RequestInv
        <5>3. op[v].ref \in Refs \ {a}  BY <2>2, <5>2 DEF Stored
        <5> QED BY <2>4, <5>3
      <4> QED BY <2>1, <4>1, <4>2, <4>3 DEF RequestInv
    <3> QED BY <3>1, <3>2
  <2>16. OnePersists'
    <3>1. \A v \in Workers : op'[v].at = "persist" => v = w  BY <2>9, <2>14
    <3> QED BY <3>1 DEF OnePersists
  <2>17. \A b \in Refs : provider[b] = "paid" => provider'[b] = "paid"
    BY <1>5, <2>4
  <2>18. JobInv'  BY <1>2, <2>1, <2>17, JobKept
  <2> QED BY <2>10, <2>11, <2>12, <2>13, <2>15, <2>16, <2>18, Together DEF Works
<1>6. CASE op' = [op EXCEPT ![w] = Idle] /\ UNCHANGED provider
  <2>1. op'[w] = Idle /\ op' \in [Workers -> OpRecords] /\ \A v \in Workers \ {w} : op'[v] = op[v]
    BY <1>1, <1>6, IdleRecord DEF WorkTypes
  <2>2. op'[w].at # "persist" /\ RequestInv(op[w])'  BY <2>1, IdleInv
  <2>3. Stored' = Stored /\ provider' = provider  BY <1>2, <1>6 DEF Stored
  <2>4. JobInv'  BY <1>2, <2>3, JobKept
  <2> QED BY <1>1, <1>2, <1>4, <1>6, <2>1, <2>2, <2>4, OwnStep
          DEF world, OrderTypes, WorldTypes, WorkTypes
<1> QED BY <1>5, <1>6 DEF CallProvider

LEMMA PersistSessionInv == ASSUME IInv, NEW w \in Workers, PersistSession(w) PROVE IInv'
<1> DEFINE a == op[w].ref
<1>1. OrderTypes /\ LedgerTypes /\ WorldTypes /\ WorkTypes  BY TypeParts DEF IInv
<1>2. op[w].at = "persist" /\ op' = [op EXCEPT ![w] = Idle]
      /\ UNCHANGED <<order, back, draft, past, world, seen, job, asked, faults>>
  BY DEF PersistSession
<1>3. a \in Refs /\ a = Count + 1 /\ provider[a] = "open"  BY <1>2 DEF IInv, Works, RequestInv
<1>4. op'[w] = Idle /\ op' \in [Workers -> OpRecords] /\ \A v \in Workers \ {w} : op'[v] = op[v]
  BY <1>1, <1>2, IdleRecord DEF WorkTypes
<1>5. op'[w].at # "persist" /\ RequestInv(op[w])'  BY <1>4, IdleInv
<1>6. UNCHANGED <<status, paymentStatus, threshold, provider, denied>>  BY <1>2 DEF order, world
<1>7. CASE UNCHANGED <<session, leg, amount>>
  <2>1. Stored' = Stored  BY <1>7 DEF Stored
  <2>2. JobInv'  BY <1>2, <1>6, <2>1, JobKept
  <2> QED BY <1>1, <1>2, <1>4, <1>5, <1>6, <1>7, <2>2, OwnStep
          DEF ledger, OrderTypes, WorldTypes, WorkTypes
<1>8. CASE /\ session' = [session EXCEPT ![a] = "pending"]
           /\ leg' = [leg EXCEPT ![Gateway(a)] = "pending"]
           /\ amount' = [amount EXCEPT ![Gateway(a)] = op[w].sum]
  <2>1. Count \in Nat /\ Stored = 1 .. Count  BY DEF IInv, Attempts
  <2>2. a \notin Stored /\ session[a] = "absent"  BY <1>3, <2>1 DEF Stored
  <2>3. op[w].sum \in Nat  BY <1>1 DEF WorkTypes, OpRecords
  <2>4. Gateway(a) \in Payments /\ Late(a) \in Payments /\ Gateway(a) # Late(a)
    BY <1>3, PaymentFacts
  <2>5. leg[Gateway(a)] = "none" /\ leg[Late(a)] = "none"
    BY <1>3, <2>2 DEF IInv, Attempts, AttemptInv
  <2> DEFINE sum == op[w].sum
             p == Gateway(a)
  <2>6. session' = [session EXCEPT ![a] = "pending"] /\ leg' = [leg EXCEPT ![p] = "pending"]
        /\ amount' = [amount EXCEPT ![p] = sum] /\ p \in Payments /\ sum \in Nat
    BY <1>8, <2>3, <2>4
  <2>7. p = Gateway(a)  OBVIOUS
  <2> HIDE DEF sum, p, a
  <2>8. LedgerTypes'  BY <1>1, <1>2, <2>6 DEF LedgerTypes
  <2>9. /\ leg'[p] = "pending" /\ \A q \in Payments \ {p} : leg'[q] = leg[q]
        /\ \A q \in Payments \ {p} : amount'[q] = amount[q]
    BY <1>1, <2>6 DEF LedgerTypes
  <2>10. Succeeded' = Succeeded /\ p \notin Succeeded
    <3>1. \A q \in Payments : leg'[q] = "succeeded" <=> leg[q] = "succeeded"
      BY <2>5, <2>7, <2>9
    <3> QED BY <2>5, <2>7, <3>1 DEF Succeeded
  <2>11. \A q \in Succeeded : amount'[q] = amount[q]  BY <2>9, <2>10 DEF Succeeded
  <2>12. OrderTypes'  BY <1>1, <1>6 DEF OrderTypes
  <2>13. Books'
    <3>1. threshold \in Thresholds /\ Books  BY <1>1 DEF OrderTypes, IInv
    <3> QED BY <1>1, <1>2, <1>6, <2>8, <2>10, <2>11, <3>1, SameBooks
  <2>26. Drafting'
    <3>1. Drafting /\ draft = {}  BY DEF IInv, PersistSession, OrderFree
    <3> QED BY <1>1, <1>2, <2>8, <3>1, DraftsKept
  <2>14. WorldTypes'  BY <1>1, <1>2, <1>3, <1>6, <2>6 DEF WorldTypes
  <2>15. WorkTypes'  BY <1>1, <1>2, <1>4 DEF WorkTypes
  <2>16. session'[a] = "pending" /\ \A b \in Refs \ {a} : session'[b] = session[b]
    BY <1>1, <1>3, <2>6 DEF WorldTypes
  <2>17. Stored' = Stored \cup {a}  BY <1>3, <2>16 DEF Stored
  <2>18. Count' = Count + 1
    <3>1. IsFiniteSet(Stored)
      <4>1. Stored \subseteq Refs  BY DEF Stored
      <4> QED BY <4>1, FS_Subset, RefAssumption
    <3> QED BY <2>2, <2>17, <3>1, FS_AddElement DEF Count
  <2>19. Stored' = 1 .. Count' /\ Count' \in Nat
    <3>1. 1 .. (Count + 1) = (1 .. Count) \cup {Count + 1}  BY <2>1
    <3> QED BY <1>3, <2>1, <2>17, <2>18, <3>1 DEF a
  <2>20. \A b \in Refs : AttemptInv(b)'
    <3> TAKE b \in Refs
    <3>1. AttemptInv(b)  BY DEF IInv, Attempts
    <3>2. Gateway(b) \in Payments /\ Late(b) \in Payments /\ Late(b) # p
      BY <1>3, <2>7, PaymentFacts DEF a
    <3>3. leg'[Late(b)] = leg[Late(b)]  BY <2>9, <3>2
    <3>4. CASE b # a
      <4>1. Gateway(b) # p  BY <1>3, <2>7, <3>4, PaymentFacts DEF a
      <4>2. leg'[Gateway(b)] = leg[Gateway(b)] /\ session'[b] = session[b]
        BY <2>9, <2>16, <3>2, <3>4, <4>1
      <4> QED BY <1>6, <3>1, <3>3, <4>2 DEF AttemptInv
    <3>5. CASE b = a
      <4>1. leg'[Gateway(a)] = "pending" /\ leg'[Late(a)] = "none"
        BY <2>5, <2>7, <2>9, <3>3, <3>5
      <4>2. provider[a] = "open"  BY <1>3 DEF a
      <4> QED BY <1>6, <2>16, <3>5, <4>1, <4>2 DEF AttemptInv
    <3> QED BY <3>4, <3>5
  <2>21. Attempts'  BY <2>19, <2>20 DEF Attempts
  <2>22. \A v \in Workers \ {w} : op[v].at # "persist"
    BY <1>2 DEF IInv, Works, OnePersists
  <2>23. \A v \in Workers : RequestInv(op[v])'
    <3> TAKE v \in Workers
    <3>1. CASE v = w  BY <1>5, <3>1
    <3>2. CASE v # w
      <4>1. op'[v] = op[v] /\ op[v].at # "persist"  BY <1>4, <2>22, <3>2
      <4>2. RequestInv(op[v])  BY DEF IInv, Works
      <4>3. op[v].at = "call" => op[v].ref \in Nat /\ op[v].ref <= Count' + 1
        <5>1. SUFFICES ASSUME op[v].at = "call" PROVE op[v].ref \in Nat /\ op[v].ref <= Count' + 1
          OBVIOUS
        <5>2. op[v].ref \in Refs /\ op[v].ref <= Count + 1  BY <4>2, <5>1 DEF RequestInv
        <5> QED BY <2>1, <2>18, <5>2, RefAssumption
      <4> QED BY <1>6, <2>17, <4>1, <4>2, <4>3 DEF RequestInv
    <3> QED BY <3>1, <3>2
  <2>24. OnePersists'  BY <1>4, <1>5, <2>22 DEF OnePersists
  <2>25. JobInv'  BY <1>2, <1>6, <2>17, JobKept
  <2> QED BY <2>8, <2>12, <2>13, <2>14, <2>15, <2>21, <2>23, <2>24, <2>25, <2>26, Together DEF Works
<1> QED BY <1>7, <1>8 DEF PersistSession

LEMMA CheckStatusInv == ASSUME IInv, NEW w \in Workers, CheckStatus(w) PROVE IInv'
<1> DEFINE a == Count
<1>1. OrderTypes /\ WorldTypes /\ WorkTypes  BY TypeParts DEF IInv
<1>2. a \in Stored
  <2>1. Stored = 1 .. Count /\ Count \in Nat /\ Stored # {}  BY DEF CheckStatus, IInv, Attempts
  <2> QED BY <2>1
<1>3. a \in Refs /\ provider[a] \in ProviderStates \ {"none"}
  BY <1>1, <1>2 DEF Stored, IInv, Attempts, AttemptInv, WorldTypes
<1>4. Ask /\ UNCHANGED <<seen, job, faults>>  BY DEF CheckStatus
<1>5. asked' \in Nat  BY <1>1, <1>4, AskTypes DEF WorkTypes
<1>6. \/ ApplyStatus(a, "expired") /\ UNCHANGED op
      \/ /\ provider[a] # "open"
         /\ op' = [op EXCEPT ![w] = [Idle EXCEPT !.at = "apply", !.ref = a, !.status = provider[a]]]
         /\ UNCHANGED <<order, ledger, session, past, world>>
  BY DEF CheckStatus, Count
<1> HIDE DEF a
<1>7. CASE ApplyStatus(a, "expired") /\ UNCHANGED op
  <2>1. Stored' = Stored /\ provider' = provider => JobInv'  BY <1>4, JobKept
  <2> QED BY <1>1, <1>2, <1>4, <1>5, <1>7, <2>1, AppliedStep DEF WorkTypes
<1>8. CASE /\ provider[a] # "open"
           /\ op' = [op EXCEPT ![w] = [Idle EXCEPT !.at = "apply", !.ref = a, !.status = provider[a]]]
           /\ UNCHANGED <<order, ledger, session, past, world>>
  <2> DEFINE o == [Idle EXCEPT !.at = "apply", !.ref = a, !.status = provider[a]]
  <2>1. /\ o \in OpRecords /\ o.at = "apply" /\ o.ref = a /\ o.status = provider[a]
    BY <1>3 DEF Idle, OpRecords, ProviderStates
  <2>2. op' = [op EXCEPT ![w] = o]  BY <1>8
  <2> HIDE DEF o
  <2>3. op'[w] = o /\ op' \in [Workers -> OpRecords] /\ \A v \in Workers \ {w} : op'[v] = op[v]
    BY <1>1, <2>1, <2>2 DEF WorkTypes
  <2>4. Stored' = Stored /\ provider' = provider  BY <1>8 DEF Stored, world
  <2>5. op'[w].at # "persist" /\ RequestInv(op[w])'
    BY <1>2, <1>3, <1>8, <2>1, <2>3, <2>4 DEF RequestInv, ProviderStates
  <2>6. JobInv'  BY <1>4, <2>4, JobKept
  <2> QED BY <1>1, <1>4, <1>5, <1>8, <2>3, <2>5, <2>6, OwnStep
          DEF order, OrderTypes, WorldTypes, WorkTypes
<1> QED BY <1>6, <1>7, <1>8

LEMMA ApplyCheckedInv == ASSUME IInv, NEW w \in Workers, ApplyChecked(w) PROVE IInv'
<1> DEFINE a == op[w].ref
           s == op[w].status
<1>1. WorkTypes  BY TypeParts DEF IInv
<1>2. ApplyStatus(a, s) /\ op' = [op EXCEPT ![w] = Idle] /\ UNCHANGED <<seen, job, asked, faults>>
  BY DEF ApplyChecked
<1>3. a \in Stored /\ s \in {"paid", "failed", "expired"} /\ (s = "paid" => provider[a] = "paid")
  BY DEF ApplyChecked, IInv, Works, RequestInv
<1> HIDE DEF a, s
<1>4. op'[w] = Idle /\ op' \in [Workers -> OpRecords] /\ \A v \in Workers \ {w} : op'[v] = op[v]
  BY <1>1, <1>2, IdleRecord DEF WorkTypes
<1>5. op'[w].at # "persist" /\ RequestInv(op[w])'  BY <1>4, IdleInv
<1>6. Stored' = Stored /\ provider' = provider => JobInv'  BY <1>2, JobKept
<1> QED BY <1>1, <1>2, <1>3, <1>4, <1>5, <1>6, AppliedStep DEF WorkTypes

LEMMA ExpireOrderInv == ASSUME IInv, ExpireOrder PROVE IInv'
<1>1. OrderTypes /\ WorldTypes /\ WorkTypes  BY TypeParts DEF IInv
<1>2. /\ status' = "expired"
      /\ UNCHANGED <<paymentStatus, threshold, ledger, session, past, world, seen, op, job, asked, faults>>
  BY DEF ExpireOrder
<1>3. Stored' = Stored /\ provider' = provider  BY <1>2 DEF Stored, world
<1>4. JobInv'  BY <1>2, <1>3, JobKept
<1>5. draft = {}  BY DEF ExpireOrder, OrderFree
<1> QED BY <1>1, <1>2, <1>4, <1>5, OwnStep DEF Statuses, WorldTypes, WorkTypes

(* The steps of the job that touch nothing but its own state. *)
LEMMA JobAlone ==
    ASSUME IInv, UNCHANGED <<order, ledger, session, past, world, seen, op, asked, faults>>,
           job' \in JobRecords, JobInv'
    PROVE  IInv'
<1>1. OrderTypes /\ WorldTypes /\ WorkTypes  BY TypeParts DEF IInv
<1> QED BY <1>1, OwnStep DEF order, OrderTypes, WorldTypes, WorkTypes

LEMMA ListExpiredInv == ASSUME IInv, ListExpired PROVE IInv'
<1>1. WorldTypes  BY TypeParts DEF IInv
<1> DEFINE j == [at |-> "lapse", todo |-> Live \cap past, got |-> "none"]
<1>2. job' = j /\ UNCHANGED <<order, ledger, session, past, world, seen, op, asked, faults>>
  BY DEF ListExpired
<1>3. Live \cap past \in SUBSET Refs /\ Live \cap past \subseteq Stored  BY DEF Live, Stored
<1>4. j \in JobRecords /\ j.got = "none" /\ j.todo = Live \cap past
  BY <1>3 DEF JobRecords, ProviderStates
<1> HIDE DEF j
<1>5. Stored' = Stored  BY <1>2 DEF Stored
<1>6. JobInv'  BY <1>2, <1>3, <1>4, <1>5 DEF JobInv
<1> QED BY <1>2, <1>4, <1>6, JobAlone

LEMMA ListPendingInv == ASSUME IInv, ListPending PROVE IInv'
<1> DEFINE j == [at |-> "poll", todo |-> Live, got |-> "none"]
<1>2. (job' = j \/ job' = Resting)
      /\ UNCHANGED <<order, ledger, session, past, world, seen, op, asked, faults>>
  BY DEF ListPending
<1>3. Live \in SUBSET Refs /\ Live \subseteq Stored  BY DEF Live, Stored
<1>4. j \in JobRecords /\ j.got = "none" /\ j.todo = Live
  BY <1>3 DEF JobRecords, ProviderStates
<1>5. Resting.got = "none" /\ Resting.todo = {}  BY DEF Resting
<1> HIDE DEF j
<1>6. Stored' = Stored  BY <1>2 DEF Stored
<1>7. job' \in JobRecords  BY <1>2, <1>4, IdleRecord
<1>8. JobInv'
  <2>1. job'.got = "none" /\ job'.todo \subseteq Stored'
    <3>1. CASE job' = j  BY <1>3, <1>4, <1>6, <3>1
    <3>2. CASE job' = Resting  BY <1>5, <3>2
    <3> QED BY <1>2, <3>1, <3>2
  <2> QED BY <2>1 DEF JobInv
<1> QED BY <1>2, <1>7, <1>8, JobAlone

(* Only one reference can be the first of the list. *)
LEMMA OneFirst == ASSUME NEW a \in Refs, NEW b \in Refs, First(a), First(b) PROVE a = b
<1>1. a <= b /\ b <= a  BY DEF First
<1>2. a \in Nat /\ b \in Nat  BY RefAssumption
<1> QED BY <1>1, <1>2

LEMMA LapseSessionInv == ASSUME IInv, NEW a \in Refs, LapseSession(a) PROVE IInv'
<1>1. WorkTypes  BY TypeParts DEF IInv
<1>2. ApplyStatus(a, "expired") /\ job' = After(a) /\ UNCHANGED <<seen, op, asked, faults>>
  BY DEF LapseSession
<1>3. a \in Stored  BY DEF LapseSession, First, IInv, Works, JobInv
<1>4. Stored' = Stored
  BY <1>2, <1>3, ApplyStep
<1>5. JobInv' /\ job' \in JobRecords  BY <1>2, <1>4, JobMovesOn
<1> QED BY <1>1, <1>2, <1>3, <1>5, AppliedStep DEF WorkTypes

LEMMA FetchStatusInv == ASSUME IInv, NEW a \in Refs, FetchStatus(a) PROVE IInv'
<1>1. WorkTypes /\ WorldTypes  BY TypeParts DEF IInv
<1>2. UNCHANGED <<order, ledger, session, past, world, seen, op, asked, faults>> /\ First(a)
  BY DEF FetchStatus
<1>3. a \in Stored  BY <1>2 DEF First, IInv, Works, JobInv
<1>4. Stored' = Stored /\ provider' = provider  BY <1>2 DEF Stored, world
<1>5. provider[a] \in ProviderStates \ {"none"}
  BY <1>1, <1>3 DEF Stored, IInv, Attempts, AttemptInv, WorldTypes
<1>6. CASE provider[a] = "open"
  <2>1. job' = After(a)  BY <1>6 DEF FetchStatus
  <2> QED BY <1>2, <1>4, <2>1, JobMovesOn, JobAlone
<1>7. CASE provider[a] # "open"
  <2>1. job' = [job EXCEPT !.got = provider[a]]  BY <1>7 DEF FetchStatus
  <2>2. job' \in JobRecords /\ job'.todo = job.todo /\ job'.got = provider[a]
    BY <1>1, <1>5, <2>1 DEF WorkTypes, JobRecords
  <2>3. \A b \in Refs : First(b)' => b = a
    <3>1. \A b \in Refs : First(b)' => First(b)  BY <2>2 DEF First
    <3> QED BY <1>2, <3>1, OneFirst
  <2>4. job.todo \subseteq Stored  BY DEF IInv, Works, JobInv
  <2>5. JobInv'  BY <1>4, <1>5, <1>7, <2>2, <2>3, <2>4 DEF JobInv, ProviderStates
  <2> QED BY <1>2, <2>2, <2>5, JobAlone
<1> QED BY <1>6, <1>7

LEMMA ApplyFetchedInv == ASSUME IInv, NEW a \in Refs, ApplyFetched(a) PROVE IInv'
<1>1. WorkTypes  BY TypeParts DEF IInv
<1> DEFINE s == job.got
<1>2. ApplyStatus(a, s) /\ job' = After(a) /\ UNCHANGED <<seen, op, asked, faults>> /\ First(a)
      /\ s # "none"
  BY DEF ApplyFetched
<1>3. a \in Stored /\ s \in {"paid", "failed", "expired"} /\ (s = "paid" => provider[a] = "paid")
  BY <1>2 DEF First, IInv, Works, JobInv
<1> HIDE DEF s
<1>4. Stored' = Stored  BY <1>2, <1>3, ApplyStep
<1>5. JobInv' /\ job' \in JobRecords  BY <1>2, <1>4, JobMovesOn
<1> QED BY <1>1, <1>2, <1>3, <1>5, AppliedStep DEF WorkTypes

LEMMA ProviderMovesInv ==
    ASSUME IInv, NEW a \in Refs, NEW s \in {"pending", "paid", "failed", "expired"},
           ProviderMoves(a, s)
    PROVE  IInv'
<1>1. OrderTypes /\ WorldTypes /\ WorkTypes  BY TypeParts DEF IInv
<1>2. /\ session[a] # "absent" /\ provider' = [provider EXCEPT ![a] = s]
      /\ UNCHANGED <<order, ledger, session, past, seen, op, job, asked, faults>>
  BY DEF ProviderMoves
<1>3. /\ s \in {"paid", "failed", "expired"} /\ provider[a] \in {"open", "failed"}
      /\ denied' \subseteq Refs
  BY <1>1 DEF ProviderMoves, WorldTypes
<1>4. provider'[a] = s /\ \A b \in Refs \ {a} : provider'[b] = provider[b]
  BY <1>1, <1>2 DEF WorldTypes
<1>5. Stored' = Stored /\ a \in Stored  BY <1>2 DEF Stored
<1>6. \A b \in Refs : provider[b] = "paid" => provider'[b] = "paid"  BY <1>3, <1>4
<1>7. OrderTypes' /\ LedgerTypes' /\ Books' /\ Drafting'
  BY <1>1, <1>2, OutsideStep DEF order, OrderTypes
<1>8. WorldTypes' /\ WorkTypes'
  BY <1>1, <1>2, <1>3 DEF WorldTypes, WorkTypes, ProviderStates
<1>9. Attempts'
  <2>1. leg' = leg /\ session' = session  BY <1>2 DEF ledger
  <2>2. \A b \in Refs : AttemptInv(b)'
    <3> TAKE b \in Refs
    <3>1. AttemptInv(b)  BY DEF IInv, Attempts
    <3>2. CASE b = a  BY <1>2, <1>3, <1>4, <2>1, <3>1, <3>2 DEF AttemptInv
    <3>3. CASE b # a  BY <1>4, <2>1, <3>1, <3>3 DEF AttemptInv
    <3> QED BY <3>2, <3>3
  <2> QED BY <1>5, <2>2 DEF IInv, Attempts, Count
<1>10. (\A w \in Workers : RequestInv(op[w]))' /\ OnePersists'
  BY <1>2, <1>4, <1>5, <1>6, RequestsKept
<1>11. JobInv'  BY <1>2, <1>5, <1>6, JobKept
<1> QED BY <1>7, <1>8, <1>9, <1>10, <1>11, Together DEF Works

LEMMA PassTimeInv == ASSUME IInv, NEW a \in Refs, PassTime(a) PROVE IInv'
<1>1. OrderTypes /\ WorldTypes /\ WorkTypes  BY TypeParts DEF IInv
<1>2. /\ past' = past \cup {a}
      /\ UNCHANGED <<order, ledger, session, world, seen, op, job, asked, faults>>
  BY DEF PassTime
<1>3. Stored' = Stored /\ provider' = provider  BY <1>2 DEF Stored, world
<1>4. JobInv'  BY <1>2, <1>3, JobKept
<1> QED BY <1>1, <1>2, <1>4, OwnStep DEF order, OrderTypes, WorldTypes, WorkTypes

LEMMA FailInv == ASSUME IInv, Fail PROVE IInv'
<1>1. OrderTypes /\ WorldTypes /\ WorkTypes  BY TypeParts DEF IInv
<1>2. faults' = faults + 1 /\ UNCHANGED <<order, leg, amount, back, session, past, world, seen, asked>>
  BY DEF Fail
<1>3. faults' \in Nat  BY <1>1, <1>2 DEF WorkTypes
<1>4. Stored' = Stored /\ provider' = provider  BY <1>2 DEF Stored, world
<1>5. CASE (\E w \in Workers : op[w] # Idle /\ op' = [op EXCEPT ![w] = Idle]) /\ UNCHANGED <<job, draft>>
  <2>1. PICK w \in Workers : op' = [op EXCEPT ![w] = Idle] /\ job' = job /\ draft' = draft
    BY <1>5
  <2>2. op'[w] = Idle /\ op' \in [Workers -> OpRecords] /\ \A v \in Workers \ {w} : op'[v] = op[v]
    BY <1>1, <2>1, IdleRecord DEF WorkTypes
  <2>3. op'[w].at # "persist" /\ RequestInv(op[w])'  BY <2>2, IdleInv
  <2>4. JobInv'  BY <1>4, <2>1, JobKept
  <2> QED BY <1>1, <1>2, <1>3, <2>1, <2>2, <2>3, <2>4, OwnStep
          DEF order, ledger, OrderTypes, WorldTypes, WorkTypes
<1>6. CASE op' = op /\ draft' = draft /\ (job' = Resting \/ \E a \in Refs : job' = After(a))
  <2>1. JobInv' /\ job' \in JobRecords
    <3>1. CASE job' = Resting
      <4>1. job'.got = "none" /\ job'.todo = {}  BY <3>1 DEF Resting
      <4> QED BY <3>1, <4>1, IdleRecord DEF JobInv
    <3>2. CASE \E a \in Refs : job' = After(a)  BY <1>4, <3>2, JobMovesOn
    <3> QED BY <1>6, <3>1, <3>2
  <2> QED BY <1>1, <1>2, <1>3, <1>6, <2>1, OwnStep
          DEF order, ledger, OrderTypes, WorldTypes, WorkTypes
<1>7. CASE (\E d \in draft : draft' = draft \ {d}) /\ UNCHANGED <<op, job>>
  <2>1. LedgerTypes /\ Books /\ Drafting  BY TypeParts DEF IInv
  <2>2. draft' \subseteq draft  BY <1>7
  <2>3. UNCHANGED <<status, paymentStatus, threshold, leg, amount, back>>  BY <1>2 DEF order
  <2>4. OrderTypes' /\ LedgerTypes' /\ Books' /\ \A d \in draft : PaymentHolds(d)' \/ ReversalHolds(d)'
    BY <1>2, <2>1, RowsKept DEF Drafting
  <2>5. Drafting'  BY <2>1, <2>2, <2>4 DEF Drafting
  <2>6. asked' \in Nat  BY <1>1, <1>2 DEF WorkTypes
  <2> QED BY <1>2, <1>3, <1>7, <2>3, <2>4, <2>5, <2>6, MoneyStep
<1> QED BY <1>5, <1>6, <1>7 DEF Fail

----------------------------------------------------------------------------
LEMMA InitInv == Init => IInv
<1> SUFFICES ASSUME Init PROVE IInv  OBVIOUS
<1>1. /\ status = "pending_payment" /\ paymentStatus = "unpaid" /\ threshold \in Thresholds
      /\ leg = [p \in Payments |-> "none"] /\ amount = [p \in Payments |-> 0]
      /\ back = [k \in ReversalKeys |-> [of |-> Manual, sum |-> 0]] /\ draft = {}
      /\ session = [a \in Refs |-> "absent"] /\ past = {} /\ denied = {} /\ seen = {}
      /\ provider = [a \in Refs |-> "none"] /\ op = [w \in Workers |-> Idle] /\ job = Resting
      /\ asked = 0 /\ faults = 0
  BY DEF Init
<1>2. OrderTypes  BY <1>1 DEF OrderTypes, Statuses, PaymentStatuses
<1>3. LedgerTypes  BY <1>1, PaymentFacts DEF LedgerTypes
<1>4. WorldTypes  BY <1>1 DEF WorldTypes, ProviderStates
<1>5. WorkTypes  BY <1>1, IdleRecord DEF WorkTypes
<1>6. TypeOK /\ Drafting  BY <1>1, <1>2, <1>3, <1>4, <1>5, TypeParts DEF Drafting
<1>7. Succeeded = {}  BY <1>1 DEF Succeeded
<1>8. \A k \in ReversalKeys : Given[k] = 0  BY <1>1 DEF Given
<1>9. Sum(amount, Succeeded) = 0 /\ Sum(amount, Succeeded \cap Staff) = 0
  <2>1. Succeeded \cap Staff = {}  BY <1>7
  <2> QED BY <1>7, <2>1, SumEmpty
<1>10. \A S \in SUBSET ReversalKeys : Sum(Given, S) = 0
  <2> TAKE S \in SUBSET ReversalKeys
  <2>1. \A k \in ReversalKeys : Given[k] \in Int  BY <1>8
  <2>2. \A k \in S : Given[k] = 0  BY <1>8
  <2> QED BY <2>1, <2>2, SumZero, PaymentFacts
<1>11. Paid = 0 /\ Reversed = 0 /\ StaffNet = 0 /\ \A p : ReversedOf(p) = 0
  <2>1. StaffBack \in SUBSET ReversalKeys /\ \A p : BackOf(p) \in SUBSET ReversalKeys
    BY DEF StaffBack, BackOf
  <2>2. ReversalKeys \in SUBSET ReversalKeys  OBVIOUS
  <2> QED BY <1>9, <1>10, <2>1, <2>2, AsSums
<1>12. Net = 0  BY <1>11 DEF Net
<1>13. ReversalInv  BY <1>1 DEF ReversalInv
<1>14. OrderFollowsLedger
  <2>1. LedgerStatus = "unpaid"  BY <1>11, <1>12 DEF LedgerStatus, DerivedStatus
  <2>2. Net < threshold  BY <1>1, <1>12, MoneyAssumption
  <2> QED BY <1>1, <2>1, <2>2 DEF OrderFollowsLedger
<1>15. OverpaidOnlyByProvider
  <2>1. \A p \in Payments : ReversedOf(p) <= amount[p]  BY <1>1, <1>11
  <2> QED BY <1>11, <2>1, MoneyAssumption DEF OverpaidOnlyByProvider
<1>16. Stored = {}  BY <1>1 DEF Stored
<1>17. Count = 0  BY <1>16, FS_EmptySet DEF Count
<1>18. Attempts
  <2>1. \A a \in Refs : AttemptInv(a)  BY <1>1, PaymentFacts DEF AttemptInv
  <2>2. Stored = 1 .. Count  BY <1>16, <1>17
  <2> QED BY <1>17, <2>1, <2>2 DEF Attempts
<1>19. Works
  <2>1. \A w \in Workers : op[w].at = "idle"  BY <1>1 DEF Idle
  <2>2. job.todo = {} /\ job.got = "none"  BY <1>1 DEF Resting
  <2>3. JobInv  BY <2>2 DEF JobInv
  <2> QED BY <2>1, <2>3 DEF Works, RequestInv, OnePersists
<1> QED BY <1>6, <1>13, <1>14, <1>15, <1>18, <1>19 DEF IInv, Books

LEMMA StutterInv == ASSUME IInv, UNCHANGED vars PROVE IInv'
<1>1. OrderTypes /\ WorldTypes /\ WorkTypes  BY TypeParts DEF IInv
<1>2. UNCHANGED <<order, ledger, session, past, world, seen, op, job, asked, faults>>  BY DEF vars
<1>3. Stored' = Stored /\ provider' = provider  BY <1>2 DEF Stored, world
<1>4. JobInv'  BY <1>2, <1>3, JobKept
<1> QED BY <1>1, <1>2, <1>4, OwnStep DEF order, OrderTypes, WorldTypes, WorkTypes

LEMMA NextInv == IInv /\ [Next]_vars => IInv'
<1> SUFFICES ASSUME IInv, [Next]_vars PROVE IInv'  OBVIOUS
<1>1. ASSUME NEW k \in StaffKeys, NEW sum \in 1 .. Total, RecordPayment(k, sum) PROVE IInv'
  BY <1>1, RecordPaymentInv
<1>2. CASE AdminPaid  BY <1>2, AdminPaidInv
<1>3. ASSUME NEW k \in ReversalKeys, NEW p \in Payments, NEW sum \in 1 .. Total, Reverse(k, p, sum)
      PROVE IInv'
  BY <1>3, ReverseInv
<1>4. ASSUME NEW a \in Refs, NEW s \in {"pending", "paid", "failed", "expired"},
             ReceiveCallback(a, s) \/ ProviderMoves(a, s)
      PROVE IInv'
  BY <1>4, ReceiveCallbackInv, ProviderMovesInv
<1>5. ASSUME NEW w \in Workers, NEW to \in Statuses, ReadStatus(w, to) PROVE IInv'
  BY <1>5, ReadStatusInv
<1>6. ASSUME NEW w \in Workers, NEW purpose \in {"full", "deposit", "balance"},
             ValidateSession(w, purpose)
      PROVE IInv'
  BY <1>6, ValidateSessionInv
<1>7. ASSUME NEW w \in Workers,
             \/ WriteStatus(w) \/ CallProvider(w) \/ PersistSession(w)
             \/ CheckStatus(w) \/ ApplyChecked(w)
      PROVE IInv'
  BY <1>7, WriteStatusInv, CallProviderInv, PersistSessionInv, CheckStatusInv, ApplyCheckedInv
<1>8. CASE ExpireOrder  BY <1>8, ExpireOrderInv
<1>13. ASSUME NEW d \in draft, Commit(d) PROVE IInv'  BY <1>13, CommitInv
<1>9. CASE JobStep
  BY <1>9, ListExpiredInv, ListPendingInv, LapseSessionInv, FetchStatusInv, ApplyFetchedInv
     DEF JobStep
<1>10. ASSUME NEW a \in Refs, PassTime(a) PROVE IInv'  BY <1>10, PassTimeInv
<1>11. CASE Fail  BY <1>11, FailInv
<1>12. CASE UNCHANGED vars  BY <1>12, StutterInv
<1> QED
  BY <1>1, <1>2, <1>3, <1>4, <1>5, <1>6, <1>7, <1>8, <1>9, <1>10, <1>11, <1>12, <1>13
     DEF Next, Commits

(* The money, the attempts and the requests at work on them agree at all    *)
(* times, whatever operators, shoppers, callbacks and jobs do.              *)
THEOREM Invariant == Spec => []IInv
BY InitInv, NextInv, PTL DEF Spec

(* The rows of the order, its ledger and its sessions keep their types.     *)
THEOREM TypeCorrect == Spec => []TypeOK
<1>1. IInv => TypeOK  BY DEF IInv
<1> QED BY <1>1, Invariant, PTL

(* A capture enters the ledger at most once, whichever of callback, job and *)
(* operator brings it, and nothing enters that was not captured.            *)
THEOREM RecordedOnceCorrect == Spec => []RecordedOnce
<1>1. IInv => RecordedOnce  BY DEF IInv, Attempts, AttemptInv, RecordedOnce, Recorded
<1> QED BY <1>1, Invariant, PTL

(* The cached payment status is what the ledger derives, and an order whose *)
(* release threshold has been reached waits no longer for payment.          *)
THEOREM FollowsCorrect == Spec => []OrderFollowsLedger
<1>1. IInv => OrderFollowsLedger  BY DEF IInv, Books
<1> QED BY <1>1, Invariant, PTL

(* Operators never take more than the total, and give back of a payment no  *)
(* more than it was.                                                        *)
THEOREM OverpaidCorrect == Spec => []OverpaidOnlyByProvider
<1>1. IInv => OverpaidOnlyByProvider  BY DEF IInv, Books
<1> QED BY <1>1, Invariant, PTL

(* A session is stored only for what the order owes when it is stored.      *)
Owed == \A a \in Refs :
            session[a] = "absent" /\ session'[a] # "absent" => amount'[Gateway(a)] <= Outstanding

LEMMA StoredByPersist == ASSUME IInv, Next PROVE Owed
<1>1. ASSUME UNCHANGED session PROVE Owed  BY <1>1 DEF Owed
<1>2. ASSUME NEW a \in Stored, NEW s, ApplyStatus(a, s) PROVE Owed
  <2>1. session' = [session EXCEPT ![a] = s]  BY <1>2 DEF ApplyStatus
  <2>2. session[a] # "absent" /\ WorldTypes  BY TypeParts DEF Stored, IInv
  <2> QED BY <2>1, <2>2 DEF Owed, WorldTypes
<1>3. ASSUME NEW w \in Workers, PersistSession(w) PROVE Owed
  <2> DEFINE a == op[w].ref
  <2>1. OrderTypes /\ LedgerTypes /\ WorldTypes  BY TypeParts DEF IInv
  <2>2. op[w].at = "persist" /\ RequestInv(op[w])  BY <1>3 DEF PersistSession, IInv, Works
  <2>3. a \in Refs /\ (op[w].purpose = "full" => op[w].sum = Total)  BY <2>2 DEF RequestInv
  <2>4. CASE UNCHANGED session  BY <1>1, <2>4
  <2>5. CASE /\ StillAllowed(op[w]) /\ session' = [session EXCEPT ![a] = "pending"]
             /\ amount' = [amount EXCEPT ![Gateway(a)] = op[w].sum]
    <3>1. Net \in Int /\ Total \in Nat \ {0} /\ threshold \in Nat /\ threshold <= Total
      BY <2>1, SumTypes, MoneyAssumption DEF OrderTypes
    <3>2. op[w].sum <= Outstanding
      <4>1. CASE op[w].purpose = "full"
        <5>1. Net <= 0 /\ op[w].sum = Total  BY <2>3, <2>5, <4>1 DEF StillAllowed
        <5> QED BY <3>1, <5>1 DEF Outstanding
      <4>2. CASE op[w].purpose = "deposit"
        <5>1. Net < threshold /\ op[w].sum = threshold - Net
          BY <2>5, <4>2 DEF StillAllowed, Allowed, Expected
        <5> QED BY <3>1, <5>1 DEF Outstanding
      <4>3. CASE op[w].purpose = "balance"
        <5>1. Net < Total /\ op[w].sum = Total - Net
          BY <2>5, <4>3 DEF StillAllowed, Allowed, Expected
        <5> QED BY <3>1, <5>1 DEF Outstanding
      <4>4. op[w].purpose \in {"full", "deposit", "balance"}
        BY TypeParts DEF IInv, WorkTypes, OpRecords
      <4> QED BY <4>1, <4>2, <4>3, <4>4
    <3>3. Gateway(a) \in Payments  BY <2>3, PaymentFacts
    <3>4. amount'[Gateway(a)] = op[w].sum  BY <2>1, <2>5, <3>3 DEF LedgerTypes
    <3>5. \A b \in Refs \ {a} : session'[b] = session[b]  BY <2>1, <2>5 DEF WorldTypes
    <3> HIDE DEF a
    <3> QED BY <3>2, <3>4, <3>5 DEF Owed
  <2> QED BY <1>3, <2>4, <2>5 DEF PersistSession
<1>4. ASSUME NEW k \in StaffKeys, NEW sum \in 1 .. Total, RecordPayment(k, sum) PROVE Owed
  BY <1>1, <1>4 DEF RecordPayment
<1>5. CASE AdminPaid  BY <1>1, <1>5 DEF AdminPaid
<1>6. ASSUME NEW k \in ReversalKeys, NEW p \in Payments, NEW sum \in 1 .. Total, Reverse(k, p, sum)
      PROVE Owed
  BY <1>1, <1>6 DEF Reverse
<1>7. ASSUME NEW a \in Refs, NEW s \in {"pending", "paid", "failed", "expired"},
             ReceiveCallback(a, s) \/ ProviderMoves(a, s)
      PROVE Owed
  <2>1. CASE ReceiveCallback(a, s)
    <3>1. a \in Stored /\ ApplyStatus(a, s)  BY <2>1 DEF ReceiveCallback, Stored
    <3> QED BY <1>2, <3>1
  <2>2. CASE ProviderMoves(a, s)  BY <1>1, <2>2 DEF ProviderMoves
  <2> QED BY <1>7, <2>1, <2>2
<1>8. ASSUME NEW w \in Workers, NEW to \in Statuses, ReadStatus(w, to) PROVE Owed
  BY <1>1, <1>8 DEF ReadStatus
<1>9. ASSUME NEW w \in Workers, NEW purpose \in {"full", "deposit", "balance"},
             ValidateSession(w, purpose)
      PROVE Owed
  BY <1>1, <1>9 DEF ValidateSession
<1>10. ASSUME NEW w \in Workers, WriteStatus(w) \/ CallProvider(w) PROVE Owed
  BY <1>1, <1>10 DEF WriteStatus, CallProvider
<1>11. ASSUME NEW w \in Workers, CheckStatus(w) PROVE Owed
  <2>1. Count \in Stored
    <3>1. Stored = 1 .. Count /\ Count \in Nat /\ Stored # {}
      BY <1>11 DEF CheckStatus, IInv, Attempts
    <3> QED BY <3>1
  <2>2. CASE ApplyStatus(Count, "expired")  BY <1>2, <2>1, <2>2
  <2>3. CASE UNCHANGED session  BY <1>1, <2>3
  <2> QED BY <1>11, <2>2, <2>3 DEF CheckStatus, Count
<1>12. ASSUME NEW w \in Workers, ApplyChecked(w) PROVE Owed
  <2>1. op[w].ref \in Stored  BY <1>12 DEF ApplyChecked, IInv, Works, RequestInv
  <2> QED BY <1>2, <1>12, <2>1 DEF ApplyChecked
<1>13. CASE ExpireOrder  BY <1>1, <1>13 DEF ExpireOrder
<1>14. CASE JobStep
  <2>1. CASE ListExpired \/ ListPending  BY <1>1, <2>1 DEF ListExpired, ListPending
  <2>2. ASSUME NEW a \in Refs, LapseSession(a) \/ FetchStatus(a) \/ ApplyFetched(a) PROVE Owed
    <3>1. CASE FetchStatus(a)  BY <1>1, <3>1 DEF FetchStatus
    <3>2. ASSUME First(a) PROVE a \in Stored  BY <3>2 DEF First, IInv, Works, JobInv
    <3>3. CASE LapseSession(a)  BY <1>2, <3>2, <3>3 DEF LapseSession
    <3>4. CASE ApplyFetched(a)  BY <1>2, <3>2, <3>4 DEF ApplyFetched
    <3> QED BY <2>2, <3>1, <3>3, <3>4
  <2> QED BY <1>14, <2>1, <2>2 DEF JobStep
<1>15. ASSUME NEW a \in Refs, PassTime(a) PROVE Owed  BY <1>1, <1>15 DEF PassTime
<1>16. CASE Fail  BY <1>1, <1>16 DEF Fail
<1>17. ASSUME NEW d \in draft, Commit(d) PROVE Owed  BY <1>1, <1>17 DEF Commit
<1> QED
  BY <1>3, <1>4, <1>5, <1>6, <1>7, <1>8, <1>9, <1>10, <1>11, <1>12, <1>13, <1>14, <1>15, <1>16, <1>17
     DEF Next, Commits

(* Whatever was paid or reversed while the provider was asked, the session  *)
(* that is stored collects no more than is owed.                            *)
THEOREM AskedCorrect == Spec => AskedIsOwed
<1>1. IInv /\ [Next]_vars => [Owed]_vars  BY StoredByPersist
<1>2. Spec => [][Owed]_vars  BY <1>1, Invariant, PTL DEF Spec
<1> QED BY <1>2 DEF AskedIsOwed, Owed
=============================================================================
