--------------------------- MODULE RequestPathProofs ---------------------------
(***************************************************************************)
(* Proofs about the two layers every mutating request passes, each for     *)
(* every value of its constants: the gate before its transaction           *)
(* (DatabaseGate: any number of calls and classes, any maximum, queue      *)
(* multiplier and failure threshold) and the idempotency key inside it     *)
(* (IdempotentMutation: any requests, actors, keys and resources, and any  *)
(* assignment of one to the other).                                        *)
(*                                                                         *)
(* SlotsAccounted is not inductive: that a hand-over gives the slot to a   *)
(* call that is still waiting needs the queue to hold exactly the waiting  *)
(* calls, each once, and each in the queue of its own class.  GateInv adds *)
(* that, and the bookkeeping of the breaker's window.                      *)
(*                                                                         *)
(* OncePerKey is not inductive: that a commit does not add a second        *)
(* mutation to its key needs the open insert to have excluded every other  *)
(* one and every committed record.  Held says so, and the same of the row  *)
(* locks; Cleared says that what got past the look has no legacy row.      *)
(***************************************************************************)
EXTENDS DatabaseGate, IdempotentMutation, FiniteSetTheorems, SequenceTheorems, TLAPS

-----------------------------------------------------------------------------
(* The gate *)

Filed ==
    /\ \A c \in Calls : place[c] # "out" <=> class[c] \in Classes
    /\ \A k \in Classes : \A i \in DOMAIN queue[k] :
         place[queue[k][i]] = "waiting" /\ class[queue[k][i]] = k
Windowed == elapsed => breaker.kind = "open"

SlotsInv == Filed /\ SlotsAccounted /\ NobodyWaitsForAFreeSlot
GateInv == GateTypeOK /\ SlotsInv /\ Windowed /\ OpenLetsNobodyIn

-----------------------------------------------------------------------------
(* Taking one entry out of a queue without repetitions removes that entry   *)
(* and nothing else.                                                        *)
LEMMA RemoveAtFacts ==
    ASSUME NEW s \in Seq(Calls), NEW i \in DOMAIN s, IsInjective(s)
    PROVE  /\ RemoveAt(s, i) \in Seq(Calls)
           /\ Len(RemoveAt(s, i)) = Len(s) - 1
           /\ ToSet(RemoveAt(s, i)) = ToSet(s) \ {s[i]}
           /\ IsInjective(RemoveAt(s, i))
<1> DEFINE t == RemoveAt(s, i)
<1>1. /\ t \in Seq(Calls) /\ Len(t) = Len(s) - 1
      /\ \A j \in 1 .. Len(s) - 1 : t[j] = IF j < i THEN s[j] ELSE s[j + 1]
  <2> DEFINE a == SubSeq(s, 1, i - 1) b == SubSeq(s, i + 1, Len(s))
  <2>1. i \in 1 .. Len(s) /\ Len(s) \in Nat
    OBVIOUS
  <2>2. /\ a \in Seq(Calls) /\ Len(a) = i - 1
        /\ \A j \in 1 .. i - 1 : a[j] = s[j]
    BY <2>1, SubSeqProperties, ElementOfSeq
  <2>3. /\ b \in Seq(Calls) /\ Len(b) = Len(s) - i
        /\ \A j \in 1 .. Len(s) - i : b[j] = s[i + j]
    <3>1. \A j \in i + 1 .. Len(s) : s[j] \in Calls
      BY <2>1, ElementOfSeq
    <3>2. /\ b \in Seq(Calls)
          /\ Len(b) = IF i + 1 <= Len(s) THEN Len(s) - (i + 1) + 1 ELSE 0
          /\ \A j \in 1 .. Len(s) - (i + 1) + 1 : b[j] = s[(i + 1) + j - 1]
      BY <2>1, <3>1, SubSeqProperties
    <3> HIDE DEF b
    <3>3. QED
      BY <2>1, <3>2
  <2>4. t = a \o b
    BY DEF RemoveAt
  <2> HIDE DEF a, b, t
  <2>5. /\ t \in Seq(Calls) /\ Len(t) = Len(a) + Len(b)
        /\ \A j \in 1 .. Len(a) + Len(b) :
             t[j] = IF j <= Len(a) THEN a[j] ELSE b[j - Len(a)]
    <3>1. a \in Seq(Calls) /\ b \in Seq(Calls)
      BY <2>2, <2>3
    <3>2. QED
      BY <2>4, <3>1, ConcatProperties
  <2>6. Len(a) = i - 1 /\ Len(a) + Len(b) = Len(s) - 1
    BY <2>1, <2>2, <2>3
  <2>7. ASSUME NEW j \in 1 .. Len(s) - 1
        PROVE  t[j] = IF j < i THEN s[j] ELSE s[j + 1]
    <3>1. j \in 1 .. Len(a) + Len(b) /\ (j <= Len(a) <=> j < i)
      BY <2>1, <2>6
    <3>2. t[j] = IF j < i THEN a[j] ELSE b[j - Len(a)]
      BY <2>5, <3>1
    <3>3. CASE j < i
      <4>1. j \in 1 .. i - 1
        BY <2>1, <3>3
      <4>2. QED
        BY <2>2, <3>2, <3>3, <4>1
    <3>4. CASE ~(j < i)
      <4>1. j - Len(a) \in 1 .. Len(s) - i /\ i + (j - Len(a)) = j + 1
        BY <2>1, <2>6, <3>4
      <4>2. b[j - Len(a)] = s[i + (j - Len(a))]
        BY <2>3, <4>1
      <4>3. QED
        BY <3>2, <3>4, <4>1, <4>2
    <3>5. QED
      BY <3>3, <3>4
  <2>8. Len(t) = Len(s) - 1
    BY <2>5, <2>6
  <2>9. QED
    BY <2>5, <2>7, <2>8
<1> HIDE DEF t
<1>2. DOMAIN t = 1 .. Len(s) - 1 /\ DOMAIN s = 1 .. Len(s) /\ Len(s) \in Nat
  BY <1>1, LenProperties
<1>3. IsInjective(t)
  <2> SUFFICES ASSUME NEW j \in 1 .. Len(s) - 1, NEW k \in 1 .. Len(s) - 1, t[j] = t[k]
               PROVE  j = k
    BY <1>2 DEF IsInjective
  <2> DEFINE source(n) == IF n < i THEN n ELSE n + 1
  <2>1. source(j) \in DOMAIN s /\ source(k) \in DOMAIN s
    BY <1>2
  <2>2. t[j] = s[source(j)] /\ t[k] = s[source(k)]
    BY <1>1
  <2>3. source(j) = source(k)
    BY <2>1, <2>2 DEF IsInjective
  <2>4. QED
    BY <1>2, <2>3
<1>4. ToSet(t) = ToSet(s) \ {s[i]}
  <2>1. \A j \in DOMAIN t : t[j] \in ToSet(s) \ {s[i]}
    BY <1>1, <1>2 DEF IsInjective, ToSet
  <2>2. ASSUME NEW j \in DOMAIN s, j # i
        PROVE  s[j] \in ToSet(t)
    <3>1. CASE j < i
      BY <2>2, <3>1, <1>1, <1>2 DEF ToSet
    <3>2. CASE j > i
      <4>1. j - 1 \in DOMAIN t /\ t[j - 1] = s[j]
        BY <2>2, <3>2, <1>1, <1>2
      <4>2. QED
        BY <4>1 DEF ToSet
    <3>3. QED
      BY <2>2, <3>1, <3>2
  <2>3. QED
    BY <2>1, <2>2 DEF ToSet
<1>5. QED
  BY <1>1, <1>3, <1>4 DEF t

LEMMA AppendFacts ==
    ASSUME NEW s \in Seq(Calls), NEW c \in Calls, IsInjective(s), c \notin ToSet(s)
    PROVE  /\ Append(s, c) \in Seq(Calls)
           /\ Len(Append(s, c)) = Len(s) + 1
           /\ ToSet(Append(s, c)) = ToSet(s) \cup {c}
           /\ IsInjective(Append(s, c))
<1> DEFINE t == Append(s, c)
<1>1. /\ t \in Seq(Calls) /\ Len(t) = Len(s) + 1 /\ DOMAIN t = 1 .. Len(s) + 1
      /\ \A j \in 1 .. Len(s) : t[j] = s[j]
      /\ t[Len(s) + 1] = c
      /\ Len(s) \in Nat /\ DOMAIN s = 1 .. Len(s)
  BY AppendProperties, LenProperties
<1> HIDE DEF t
<1>2. IsInjective(t)
  BY <1>1 DEF IsInjective, ToSet
<1>3. ToSet(t) = ToSet(s) \cup {c}
  BY <1>1 DEF ToSet
<1>4. QED
  BY <1>1, <1>2, <1>3 DEF t

LEMMA TailFacts ==
    ASSUME NEW s \in Seq(Calls), s # << >>, IsInjective(s)
    PROVE  /\ Tail(s) \in Seq(Calls) /\ Head(s) \in Calls
           /\ Len(Tail(s)) = Len(s) - 1
           /\ Head(s) \in ToSet(s)
           /\ ToSet(Tail(s)) = ToSet(s) \ {Head(s)}
           /\ IsInjective(Tail(s))
<1> DEFINE t == Tail(s)
<1>1. /\ t \in Seq(Calls) /\ Len(t) = Len(s) - 1 /\ DOMAIN t = 1 .. Len(s) - 1
      /\ \A j \in 1 .. Len(s) - 1 : t[j] = s[j + 1]
      /\ Head(s) = s[1] /\ Len(s) \in Nat /\ Len(s) > 0 /\ DOMAIN s = 1 .. Len(s)
  BY HeadTailProperties, LenProperties, EmptySeq
<1> HIDE DEF t
<1>2. IsInjective(t)
  BY <1>1 DEF IsInjective
<1>3. ToSet(t) = ToSet(s) \ {s[1]}
  <2>1. \A j \in DOMAIN t : t[j] \in ToSet(s) \ {s[1]}
    BY <1>1 DEF IsInjective, ToSet
  <2>2. ASSUME NEW j \in DOMAIN s, j # 1
        PROVE  s[j] \in ToSet(t)
    <3>1. j - 1 \in DOMAIN t /\ t[j - 1] = s[j]
      BY <2>2, <1>1
    <3>2. QED
      BY <3>1 DEF ToSet
  <2>3. QED
    BY <2>1, <2>2 DEF ToSet
<1>4. Head(s) \in Calls /\ Head(s) \in ToSet(s)
  BY <1>1, HeadTailProperties DEF ToSet
<1>5. QED
  BY <1>1, <1>2, <1>3, <1>4 DEF t

-----------------------------------------------------------------------------
LEMMA CountFacts ==
    ASSUME NEW A \in SUBSET Calls, NEW c \in Calls
    PROVE  /\ Cardinality(A) \in Nat
           /\ c \notin A => Cardinality(A \cup {c}) = Cardinality(A) + 1
           /\ c \in A => Cardinality(A \ {c}) = Cardinality(A) - 1 /\ Cardinality(A) > 0
<1>1. IsFiniteSet(A)
  BY CallsAssumption, FS_Subset
<1>2. IsFiniteSet(A \ {c}) /\ Cardinality(A \ {c}) \in Nat /\ Cardinality(A) \in Nat
  BY <1>1, FS_RemoveElement, FS_CardinalityType
<1>3. c \notin A => Cardinality(A \cup {c}) = Cardinality(A) + 1
  BY <1>1, FS_AddElement
<1>4. c \in A => Cardinality(A \ {c}) = Cardinality(A) - 1
  BY <1>1, FS_RemoveElement
<1>5. QED
  BY <1>2, <1>3, <1>4

LEMMA GateStarted == GateInit => GateInv
<1> SUFFICES ASSUME GateInit PROVE GateInv
  OBVIOUS
<1> USE DEF GateInit
<1>1. GateTypeOK
  <2>1. breaker \in BreakerStates
    BY ThresholdAssumption, 0 \in 0 .. FailureThreshold - 1 DEF BreakerStates
  <2>2. queue \in [Classes -> Seq(Calls)]
    BY EmptySeq
  <2>3. QED
    BY <2>1, <2>2 DEF GateTypeOK
<1>2. \A k \in Classes : Running(k) = {} /\ Waiting(k) = {} /\ ToSet(queue[k]) = {}
  BY DEF Running, Waiting, ToSet
<1>3. SlotsAccounted
  <2>1. \A k \in Classes : IsInjective(queue[k])
    BY DEF IsInjective
  <2>2. Cardinality({}) = 0
    BY FS_EmptySet
  <2>3. \A k \in Classes : active[k] = Cardinality(Running(k)) /\ active[k] <= ClassMax[k]
    <3> SUFFICES ASSUME NEW k \in Classes
                 PROVE  active[k] = Cardinality(Running(k)) /\ active[k] <= ClassMax[k]
      OBVIOUS
    <3>1. active[k] = 0 /\ ClassMax[k] \in Nat
      BY MaxAssumption
    <3>2. Cardinality(Running(k)) = 0
      BY <1>2, <2>2
    <3>3. QED
      BY <3>1, <3>2
  <2>4. QED
    BY <1>2, <2>1, <2>3 DEF SlotsAccounted
<1>4. Filed
  BY NoClassAssumption DEF Filed
<1>5. NobodyWaitsForAFreeSlot
  BY MaxAssumption, MultiplierAssumption DEF NobodyWaitsForAFreeSlot, MaxQueueDepth
<1>6. QED
  BY <1>1, <1>3, <1>4, <1>5 DEF GateInv, SlotsInv, Windowed, OpenLetsNobodyIn, Closed

(* What SlotsInv needs when the gate itself does not move. *)
LEMMA GateUntouched ==
    ASSUME SlotsInv, UNCHANGED <<active, queue, place, class>>
    PROVE  SlotsInv'
<1>1. \A k \in Classes : Running(k)' = Running(k) /\ Waiting(k)' = Waiting(k)
  BY DEF Running, Waiting
<1>2. SlotsAccounted'
  BY <1>1 DEF SlotsInv, SlotsAccounted
<1>3. Filed' /\ NobodyWaitsForAFreeSlot'
  BY DEF SlotsInv, Filed, NobodyWaitsForAFreeSlot, MaxQueueDepth
<1>4. QED
  BY <1>2, <1>3 DEF SlotsInv

LEMMA BreakerTypes ==
    ASSUME GateTypeOK
    PROVE  Settled \in BreakerStates /\ AfterFailure \in BreakerStates
           /\ \A outcome \in Outcomes : Report(outcome) \in BreakerStates
<1>1. breaker \in BreakerStates
  BY DEF GateTypeOK
<1>2. Settled \in BreakerStates
  BY <1>1 DEF Settled, BreakerStates
<1>3. Closed(0) \in BreakerStates
  BY ThresholdAssumption, 0 \in 0 .. FailureThreshold - 1 DEF BreakerStates
<1>4. AfterFailure \in BreakerStates
  <2>1. CASE Settled.kind \in {"half_open", "open"}
    BY <2>1 DEF AfterFailure, BreakerStates
  <2>2. CASE Settled.kind = "closed"
    <3>1. PICK n \in 0 .. FailureThreshold - 1 : Settled = Closed(n)
      BY <1>2, <2>2 DEF BreakerStates, Open, HalfOpen
    <3>2. Settled.failures = n
      BY <3>1 DEF Closed
    <3>3. AfterFailure = IF n + 1 >= FailureThreshold THEN Open ELSE Closed(n + 1)
      BY <2>2, <3>2 DEF AfterFailure
    <3>4. n + 1 < FailureThreshold => n + 1 \in 0 .. FailureThreshold - 1
      BY <3>1, ThresholdAssumption
    <3>5. QED
      BY <3>1, <3>3, <3>4, ThresholdAssumption DEF BreakerStates
  <2>3. QED
    BY <1>2, <2>1, <2>2 DEF BreakerStates, Closed, Open, HalfOpen
<1>5. QED
  BY <1>1, <1>2, <1>3, <1>4 DEF Report, Outcomes

LEMMA AcquireGate ==
    ASSUME GateInv, NEW c \in Calls, NEW k \in Classes, AcquireNow(c, k)
    PROVE  SlotsInv' /\ GateTypeOK'
<1> USE DEF AcquireNow, Attempt
<1>1. GateTypeOK'
  <2>1. breaker' \in BreakerStates
    BY BreakerTypes DEF GateInv
  <2>2. active' \in [Classes -> Nat]
    BY DEF GateInv, GateTypeOK
  <2>3. QED
    BY <2>1, <2>2 DEF GateInv, GateTypeOK
<1>2. /\ c \notin Running(k) /\ Running(k)' = Running(k) \cup {c}
      /\ \A j \in Classes : Waiting(j)' = Waiting(j) /\ (j # k => Running(j)' = Running(j))
  BY NoClassAssumption DEF GateInv, SlotsInv, Filed, GateTypeOK, Running, Waiting
<1>3. Cardinality(Running(k)') = Cardinality(Running(k)) + 1
  BY <1>2, CountFacts DEF Running
<1>4. queue[k] = << >>
  BY MaxAssumption DEF GateInv, SlotsInv, GateTypeOK, NobodyWaitsForAFreeSlot
<1>5. SlotsAccounted'
  <2> SUFFICES ASSUME NEW j \in Classes
               PROVE  /\ active'[j] = Cardinality(Running(j)')
                      /\ active'[j] <= ClassMax[j]
                      /\ Waiting(j)' = ToSet(queue'[j]) /\ IsInjective(queue'[j])
    BY DEF SlotsAccounted, Running, Waiting
  <2>1. Waiting(j)' = ToSet(queue'[j]) /\ IsInjective(queue'[j])
    BY <1>2 DEF GateInv, SlotsInv, SlotsAccounted
  <2>2. active'[j] = Cardinality(Running(j)') /\ active'[j] <= ClassMax[j]
    <3>1. active[k] \in Nat /\ active'[k] = active[k] + 1 /\ ClassMax[k] \in Nat
      BY MaxAssumption DEF GateInv, GateTypeOK
    <3>2. CASE j = k
      BY <1>3, <3>1, <3>2 DEF GateInv, SlotsInv, SlotsAccounted
    <3>3. CASE j # k
      BY <1>2, <3>3 DEF GateInv, SlotsInv, SlotsAccounted, GateTypeOK
    <3>4. QED
      BY <3>2, <3>3
  <2>3. QED
    BY <2>1, <2>2
<1>6. NobodyWaitsForAFreeSlot'
  BY <1>4 DEF GateInv, SlotsInv, NobodyWaitsForAFreeSlot, GateTypeOK, MaxQueueDepth
<1>7. Filed'
  BY NoClassAssumption DEF GateInv, SlotsInv, Filed, GateTypeOK
<1>8. QED
  BY <1>1, <1>5, <1>6, <1>7 DEF SlotsInv

LEMMA EnqueueGate ==
    ASSUME GateInv, NEW c \in Calls, NEW k \in Classes, Enqueue(c, k)
    PROVE  SlotsInv' /\ GateTypeOK'
<1> USE DEF Enqueue, Attempt
<1>1. queue[k] \in Seq(Calls) /\ IsInjective(queue[k]) /\ c \notin ToSet(queue[k])
  BY NoClassAssumption DEF GateInv, GateTypeOK, SlotsInv, Filed, SlotsAccounted, Waiting
<1>2. /\ queue'[k] \in Seq(Calls) /\ Len(queue'[k]) = Len(queue[k]) + 1
      /\ ToSet(queue'[k]) = ToSet(queue[k]) \cup {c} /\ IsInjective(queue'[k])
      /\ \A j \in Classes : j # k => queue'[j] = queue[j]
  BY <1>1, AppendFacts DEF GateInv, GateTypeOK
<1>3. GateTypeOK'
  <2>1. breaker' \in BreakerStates /\ queue' \in [Classes -> Seq(Calls)]
    BY <1>2, BreakerTypes DEF GateInv, GateTypeOK
  <2>2. QED
    BY <2>1 DEF GateInv, GateTypeOK
<1>4. /\ Waiting(k)' = Waiting(k) \cup {c}
      /\ \A j \in Classes : Running(j)' = Running(j) /\ (j # k => Waiting(j)' = Waiting(j))
  BY NoClassAssumption DEF GateInv, SlotsInv, Filed, GateTypeOK, Running, Waiting
<1>5. SlotsAccounted'
  BY <1>2, <1>4 DEF GateInv, SlotsInv, SlotsAccounted
<1>6. active[k] = ClassMax[k] /\ Len(queue'[k]) <= MaxQueueDepth(k)
  <2>1. active[k] >= ClassMax[k] /\ Len(queue[k]) < MaxQueueDepth(k)
    OBVIOUS
  <2>2. /\ active[k] \in Nat /\ active[k] <= ClassMax[k] /\ ClassMax[k] \in Nat
        /\ Len(queue[k]) \in Nat
    BY <1>1, LenProperties, MaxAssumption DEF GateInv, SlotsInv, SlotsAccounted, GateTypeOK
  <2>3. MaxQueueDepth(k) \in Nat
    BY <2>2, MultiplierAssumption DEF MaxQueueDepth
  <2>4. QED
    BY <1>2, <2>1, <2>2, <2>3
<1>7. NobodyWaitsForAFreeSlot'
  BY <1>2, <1>6 DEF GateInv, SlotsInv, NobodyWaitsForAFreeSlot, GateTypeOK, MaxQueueDepth
<1>8. Filed'
  <2>1. \A d \in Calls : place'[d] # "out" <=> class'[d] \in Classes
    BY NoClassAssumption DEF GateInv, SlotsInv, Filed, GateTypeOK
  <2>2. ASSUME NEW j \in Classes, NEW i \in DOMAIN queue'[j]
        PROVE  place'[queue'[j][i]] = "waiting" /\ class'[queue'[j][i]] = j
    <3>1. queue'[j][i] \in Waiting(j)'
      BY <1>5, <2>2 DEF SlotsAccounted, ToSet
    <3>2. QED
      BY <3>1 DEF Waiting
  <2>3. QED
    BY <2>1, <2>2 DEF Filed
<1>9. QED
  BY <1>3, <1>5, <1>7, <1>8 DEF SlotsInv

LEMMA TimeOutGate ==
    ASSUME GateInv, NEW c \in Calls, TimeOut(c)
    PROVE  SlotsInv' /\ GateTypeOK'
<1> USE DEF TimeOut
<1>0. PICK k \in Classes : k = class[c]
  BY DEF GateInv, SlotsInv, Filed
<1>1. k = class[c] /\ queue[k] \in Seq(Calls) /\ IsInjective(queue[k])
  BY <1>0 DEF GateInv, GateTypeOK, SlotsInv, SlotsAccounted
<1>2. PICK i \in DOMAIN queue[k] :
        queue[k][i] = c /\ queue' = [queue EXCEPT ![k] = RemoveAt(@, i)]
  BY <1>0
<1>3. /\ queue'[k] \in Seq(Calls) /\ Len(queue'[k]) = Len(queue[k]) - 1
      /\ ToSet(queue'[k]) = ToSet(queue[k]) \ {c} /\ IsInjective(queue'[k])
      /\ \A j \in Classes : j # k => queue'[j] = queue[j]
  BY <1>1, <1>2, RemoveAtFacts DEF GateInv, GateTypeOK
<1>4. GateTypeOK'
  BY <1>2, <1>3 DEF GateInv, GateTypeOK, Leave
<1>5. /\ Waiting(k)' = Waiting(k) \ {c}
      /\ \A j \in Classes : Running(j)' = Running(j) /\ (j # k => Waiting(j)' = Waiting(j))
  BY <1>1, NoClassAssumption DEF GateInv, GateTypeOK, Running, Waiting
<1>6. SlotsAccounted'
  BY <1>1, <1>3, <1>5 DEF GateInv, SlotsInv, SlotsAccounted
<1>7. queue[k] # << >> /\ Len(queue[k]) \in Nat
  BY <1>1, <1>2, LenProperties
<1>8. NobodyWaitsForAFreeSlot'
  BY <1>1, <1>3, <1>7, MaxAssumption, MultiplierAssumption
     DEF GateInv, SlotsInv, NobodyWaitsForAFreeSlot, GateTypeOK, MaxQueueDepth
<1>9. Filed'
  <2>1. \A d \in Calls : place'[d] # "out" <=> class'[d] \in Classes
    BY NoClassAssumption DEF GateInv, SlotsInv, Filed, GateTypeOK
  <2>2. ASSUME NEW j \in Classes, NEW n \in DOMAIN queue'[j]
        PROVE  place'[queue'[j][n]] = "waiting" /\ class'[queue'[j][n]] = j
    <3>1. queue'[j][n] \in Waiting(j)'
      BY <1>6, <2>2 DEF SlotsAccounted, ToSet
    <3>2. QED
      BY <3>1 DEF Waiting
  <2>3. QED
    BY <2>1, <2>2 DEF Filed
<1>10. QED
  BY <1>4, <1>6, <1>8, <1>9 DEF SlotsInv
(* A transaction ends with nobody waiting: its slot becomes free. *)
LEMMA FreeSlotGate ==
    ASSUME GateInv, NEW c \in Calls, NEW k \in Classes, k = class[c],
           place[c] = "running", Release(c), queue[k] = << >>,
           class' = [class EXCEPT ![c] = NoClass]
    PROVE  SlotsInv' /\ active' \in [Classes -> Nat] /\ queue' = queue
           /\ place' \in [Calls -> {"out", "waiting", "running"}]
<1>1. /\ queue' = queue /\ place' = [place EXCEPT ![c] = "out"]
      /\ active' = [active EXCEPT ![k] = IF active[k] > 0 THEN active[k] - 1 ELSE 0]
  BY DEF Release
<1>2. /\ c \in Running(k) /\ Running(k)' = Running(k) \ {c}
      /\ \A j \in Classes : Waiting(j)' = Waiting(j) /\ (j # k => Running(j)' = Running(j))
  BY <1>1, NoClassAssumption DEF GateInv, GateTypeOK, Running, Waiting
<1>3. active[k] > 0 /\ Cardinality(Running(k)') = active[k] - 1 /\ active[k] \in Nat
  <2>1. active[k] = Cardinality(Running(k)) /\ Running(k) \in SUBSET Calls
    BY DEF Running, GateInv, SlotsInv, SlotsAccounted
  <2>2. QED
    BY <1>2, <2>1, CountFacts
<1>4. active' = [active EXCEPT ![k] = active[k] - 1] /\ active' \in [Classes -> Nat]
  BY <1>1, <1>3 DEF GateInv, GateTypeOK
<1>5. SlotsAccounted'
  <2> SUFFICES ASSUME NEW j \in Classes
               PROVE  /\ active'[j] = Cardinality(Running(j)')
                      /\ active'[j] <= ClassMax[j]
                      /\ Waiting(j)' = ToSet(queue'[j]) /\ IsInjective(queue'[j])
    BY DEF SlotsAccounted, Running, Waiting
  <2>1. Waiting(j)' = ToSet(queue'[j]) /\ IsInjective(queue'[j])
    BY <1>1, <1>2 DEF GateInv, SlotsInv, SlotsAccounted
  <2>2. ClassMax[j] \in Nat /\ active[j] <= ClassMax[j] /\ active[j] \in Nat
    BY MaxAssumption DEF GateInv, SlotsInv, SlotsAccounted, GateTypeOK
  <2>3. CASE j = k
    BY <1>3, <1>4, <2>1, <2>2, <2>3 DEF GateInv, GateTypeOK
  <2>4. CASE j # k
    BY <1>2, <1>4, <2>1, <2>2, <2>4 DEF GateInv, GateTypeOK, SlotsInv, SlotsAccounted
  <2>5. QED
    BY <2>3, <2>4
<1>6. NobodyWaitsForAFreeSlot'
  BY <1>1, <1>4 DEF GateInv, SlotsInv, NobodyWaitsForAFreeSlot, GateTypeOK, MaxQueueDepth
<1>7. Filed'
  <2>1. \A d \in Calls : place'[d] # "out" <=> class'[d] \in Classes
    BY <1>1, NoClassAssumption DEF GateInv, SlotsInv, Filed, GateTypeOK
  <2>2. ASSUME NEW j \in Classes, NEW n \in DOMAIN queue'[j]
        PROVE  place'[queue'[j][n]] = "waiting" /\ class'[queue'[j][n]] = j
    <3>1. queue'[j][n] \in Waiting(j)'
      BY <1>5, <2>2 DEF SlotsAccounted, ToSet
    <3>2. QED
      BY <3>1 DEF Waiting
  <2>3. QED
    BY <2>1, <2>2 DEF Filed
<1>8. QED
  BY <1>1, <1>4, <1>5, <1>6, <1>7 DEF SlotsInv, GateInv, GateTypeOK

(* ... or goes to the head of the queue, which is waiting, and of the class. *)
LEMMA HandOverGate ==
    ASSUME GateInv, NEW c \in Calls, NEW k \in Classes, k = class[c],
           place[c] = "running", Release(c), queue[k] # << >>,
           class' = [class EXCEPT ![c] = NoClass]
    PROVE  SlotsInv' /\ active' = active /\ queue' \in [Classes -> Seq(Calls)]
           /\ place' \in [Calls -> {"out", "waiting", "running"}]
           /\ Head(queue[k]) \in Waiting(k)
           /\ place' = [place EXCEPT ![c] = "out", ![Head(queue[k])] = "running"]
<1> DEFINE h == Head(queue[k])
<1>0. PICK head \in Calls : head = h
  <2>1. queue[k] \in Seq(Calls)
    BY DEF GateInv, GateTypeOK
  <2>2. QED
    BY <2>1, HeadTailProperties
<1>1. /\ queue' = [queue EXCEPT ![k] = Tail(queue[k])] /\ active' = active
      /\ place' = [place EXCEPT ![c] = "out", ![head] = "running"]
  BY <1>0 DEF Release
<1>2. /\ queue[k] \in Seq(Calls) /\ IsInjective(queue[k])
      /\ Waiting(k) = ToSet(queue[k])
  BY DEF GateInv, GateTypeOK, SlotsInv, SlotsAccounted
<1>3. /\ queue'[k] \in Seq(Calls) /\ Len(queue'[k]) = Len(queue[k]) - 1
      /\ ToSet(queue'[k]) = ToSet(queue[k]) \ {head} /\ IsInjective(queue'[k])
      /\ head \in Waiting(k)
      /\ \A j \in Classes : j # k => queue'[j] = queue[j]
  BY <1>0, <1>1, <1>2, TailFacts DEF GateInv, GateTypeOK
<1>4. queue' \in [Classes -> Seq(Calls)]
  BY <1>1, <1>3 DEF GateInv, GateTypeOK
<1>5. head # c /\ place[head] = "waiting" /\ class[head] = k
  BY <1>3 DEF Waiting
<1>6. /\ c \in Running(k) /\ head \notin Running(k)
      /\ Running(k)' = (Running(k) \ {c}) \cup {head}
      /\ Waiting(k)' = Waiting(k) \ {head}
      /\ \A j \in Classes : j # k => Waiting(j)' = Waiting(j) /\ Running(j)' = Running(j)
  BY <1>1, <1>5, NoClassAssumption DEF GateInv, GateTypeOK, Running, Waiting
<1>7. Cardinality(Running(k)') = Cardinality(Running(k))
  <2>1. Cardinality(Running(k) \ {c}) = Cardinality(Running(k)) - 1
        /\ Cardinality(Running(k)) \in Nat
    BY <1>6, CountFacts DEF Running
  <2>2. Cardinality((Running(k) \ {c}) \cup {head}) = Cardinality(Running(k) \ {c}) + 1
    <3>1. Running(k) \ {c} \in SUBSET Calls /\ head \notin Running(k) \ {c}
      BY <1>6 DEF Running
    <3>2. QED
      BY <3>1, CountFacts
  <2>3. QED
    BY <1>6, <2>1, <2>2
<1>8. SlotsAccounted'
  BY <1>1, <1>2, <1>3, <1>6, <1>7 DEF GateInv, SlotsInv, SlotsAccounted
<1>9. NobodyWaitsForAFreeSlot'
  <2>1. Len(queue[k]) \in Nat /\ MaxQueueDepth(k) \in Nat
        /\ Len(queue[k]) <= MaxQueueDepth(k) /\ active[k] = ClassMax[k]
    BY <1>2, LenProperties, MaxAssumption, MultiplierAssumption
       DEF GateInv, SlotsInv, NobodyWaitsForAFreeSlot, MaxQueueDepth
  <2>2. Len(queue'[k]) <= MaxQueueDepth(k)
    BY <1>3, <2>1
  <2>3. QED
    BY <1>1, <1>3, <2>1, <2>2 DEF GateInv, SlotsInv, NobodyWaitsForAFreeSlot, MaxQueueDepth
<1>10. Filed'
  <2>1. \A d \in Calls : place'[d] # "out" <=> class'[d] \in Classes
    BY <1>1, <1>5, NoClassAssumption DEF GateInv, SlotsInv, Filed, GateTypeOK
  <2>2. ASSUME NEW j \in Classes, NEW n \in DOMAIN queue'[j]
        PROVE  place'[queue'[j][n]] = "waiting" /\ class'[queue'[j][n]] = j
    <3>1. queue'[j][n] \in Waiting(j)'
      BY <1>8, <2>2 DEF SlotsAccounted, ToSet
    <3>2. QED
      BY <3>1 DEF Waiting
  <2>3. QED
    BY <2>1, <2>2 DEF Filed
<1>11. QED
  BY <1>0, <1>1, <1>3, <1>4, <1>8, <1>9, <1>10 DEF SlotsInv, GateInv, GateTypeOK
LEMMA FinishGate ==
    ASSUME GateInv, NEW c \in Calls, NEW outcome \in Outcomes, Finish(c, outcome)
    PROVE  SlotsInv' /\ GateTypeOK' /\ InFlight' = InFlight \ {c}
<1>1. PICK k \in Classes : k = class[c]
  BY DEF Finish, GateInv, SlotsInv, Filed
<1>2. /\ SlotsInv' /\ active' \in [Classes -> Nat] /\ queue' \in [Classes -> Seq(Calls)]
      /\ place' \in [Calls -> {"out", "waiting", "running"}]
      /\ InFlight' = InFlight \ {c}
  <2>1. CASE queue[k] = << >>
    <3>1. place' = [place EXCEPT ![c] = "out"]
      BY <1>1, <2>1 DEF Finish, Release
    <3>2. QED
      BY <1>1, <2>1, <3>1, FreeSlotGate DEF Finish, GateInv, GateTypeOK, InFlight
  <2>2. CASE queue[k] # << >>
    <3>1. /\ SlotsInv' /\ active' = active /\ queue' \in [Classes -> Seq(Calls)]
          /\ place' \in [Calls -> {"out", "waiting", "running"}]
          /\ Head(queue[k]) \in Waiting(k)
          /\ place' = [place EXCEPT ![c] = "out", ![Head(queue[k])] = "running"]
      BY <1>1, <2>2, HandOverGate DEF Finish
    <3>2. InFlight' = InFlight \ {c}
      BY <3>1 DEF Finish, GateInv, GateTypeOK, InFlight, Waiting
    <3>3. QED
      BY <3>1, <3>2 DEF GateInv, GateTypeOK
  <2>3. QED
    BY <2>1, <2>2
<1>3. breaker' \in BreakerStates
  BY BreakerTypes DEF GateInv, Finish
<1>4. QED
  BY <1>2, <1>3 DEF GateInv, GateTypeOK, Finish, Leave, InFlight

LEMMA GatePreserved == GateInv /\ [GateNext]_gateVars => GateInv'
<1> SUFFICES ASSUME GateInv, [GateNext]_gateVars PROVE GateInv'
  OBVIOUS
<1>1. ASSUME NEW c \in Calls, NEW k \in Classes, AcquireNow(c, k) \/ Enqueue(c, k)
      PROVE  GateInv'
  <2>1. SlotsInv' /\ GateTypeOK'
    BY <1>1, AcquireGate, EnqueueGate
  <2>2. Windowed' /\ OpenLetsNobodyIn'
    BY <1>1 DEF AcquireNow, Enqueue, Attempt, CanAttempt, Windowed, OpenLetsNobodyIn
  <2>3. QED
    BY <2>1, <2>2 DEF GateInv
<1>2. ASSUME NEW c \in Calls, NEW k \in Classes, RefuseFull(c, k)
      PROVE  GateInv'
  <2>1. SlotsInv'
    BY <1>2, GateUntouched DEF RefuseFull, GateInv
  <2>2. GateTypeOK'
    BY <1>2, BreakerTypes DEF GateInv, GateTypeOK, RefuseFull, Attempt
  <2>3. Windowed' /\ OpenLetsNobodyIn'
    BY <1>2 DEF RefuseFull, Attempt, CanAttempt, Windowed, OpenLetsNobodyIn
  <2>4. QED
    BY <2>1, <2>2, <2>3 DEF GateInv
<1>3. ASSUME NEW c \in Calls, TimeOut(c)
      PROVE  GateInv'
  <2>1. SlotsInv' /\ GateTypeOK'
    BY <1>3, TimeOutGate
  <2>2. InFlight' = InFlight \ {c} /\ early' = early \ {c} /\ breaker' = breaker
        /\ elapsed' = elapsed
    BY <1>3 DEF TimeOut, Leave, InFlight, GateInv, GateTypeOK
  <2>3. Windowed' /\ OpenLetsNobodyIn'
    BY <2>2 DEF GateInv, Windowed, OpenLetsNobodyIn
  <2>4. QED
    BY <2>1, <2>3 DEF GateInv
<1>4. ASSUME NEW c \in Calls, NEW outcome \in Outcomes, Finish(c, outcome)
      PROVE  GateInv'
  <2>1. SlotsInv' /\ GateTypeOK' /\ InFlight' = InFlight \ {c}
    BY <1>4, FinishGate
  <2>2. Windowed'
    BY <1>4 DEF Finish, Report, Windowed, GateInv, Outcomes
  <2>3. OpenLetsNobodyIn'
    <3>1. CASE Opens(outcome)
      BY <1>4, <2>1, <3>1 DEF Finish, OpenLetsNobodyIn
    <3>2. CASE ~Opens(outcome)
      <4>1. early' = early \ {c}
        BY <1>4, <3>2 DEF Finish, Leave
      <4>2. breaker'.kind = "open" => breaker.kind = "open"
        <5>1. CASE outcome = "ok"
          BY <1>4, <5>1 DEF Finish, Report, Closed
        <5>2. CASE outcome = "failure"
          <6>1. breaker' = AfterFailure
            BY <1>4, <5>2 DEF Finish, Report
          <6>2. Settled.kind = "open" => breaker.kind = "open"
            BY DEF Settled, HalfOpen
          <6>3. AfterFailure = Open \/ AfterFailure.kind = "closed"
            <7>1. Settled.kind \in {"closed", "open", "half_open"}
              BY BreakerTypes DEF GateInv, BreakerStates, Closed, Open, HalfOpen
            <7>2. QED
              BY <7>1 DEF AfterFailure, Closed
          <6>4. QED
            BY <3>2, <5>2, <6>1, <6>2, <6>3 DEF Opens
        <5>3. CASE outcome \in {"race_lost", "client_error"}
          BY <1>4, <5>3 DEF Finish, Report
        <5>4. QED
          BY <5>1, <5>2, <5>3 DEF Outcomes
      <4>3. QED
        BY <2>1, <4>1, <4>2 DEF GateInv, OpenLetsNobodyIn
    <3>3. QED
      BY <3>1, <3>2
  <2>4. QED
    BY <2>1, <2>2, <2>3 DEF GateInv
<1>5. CASE Environment
  <2>1. UNCHANGED <<active, queue, place, class, early>>
    BY <1>5 DEF Environment, Observe, WindowElapses, Sicken, Heal
  <2>2. SlotsInv'
    BY <2>1, GateUntouched DEF GateInv
  <2>3. GateTypeOK'
    BY <1>5, <2>1, BreakerTypes
       DEF GateInv, GateTypeOK, Environment, Observe, WindowElapses, Sicken, Heal
  <2>4. Windowed' /\ (breaker'.kind = "open" => breaker.kind = "open")
    BY <1>5 DEF GateInv, Windowed, Environment, Observe, WindowElapses, Sicken, Heal,
                Settled, HalfOpen
  <2>5. OpenLetsNobodyIn'
    BY <2>1, <2>4 DEF GateInv, OpenLetsNobodyIn, InFlight
  <2>6. QED
    BY <2>2, <2>3, <2>4, <2>5 DEF GateInv
<1>6. CASE UNCHANGED gateVars
  <2>1. SlotsInv'
    BY <1>6, GateUntouched DEF GateInv, gateVars
  <2>2. QED
    BY <1>6, <2>1 DEF GateInv, gateVars, GateTypeOK, Windowed, OpenLetsNobodyIn, InFlight
<1>7. QED
  BY <1>1, <1>2, <1>3, <1>4, <1>5, <1>6 DEF GateNext, Arrive, Complete

LEMMA GateInvariance == GateSpec => []GateInv
BY GateStarted, GatePreserved, PTL DEF GateSpec

-----------------------------------------------------------------------------
(* Every reachable state of the gate and the breaker is well typed; the    *)
(* failure counter stays below the threshold.                              *)
THEOREM GateTypeCorrect == GateSpec => []GateTypeOK
BY GateInvariance, PTL DEF GateInv

(* No slot is leaked or invented by any sequence of acquisitions,          *)
(* hand-overs, timeouts and releases (acquireWorkClassSlot, releaseSlot).  *)
THEOREM SlotsCorrect == GateSpec => []SlotsAccounted
BY GateInvariance, PTL DEF GateInv, SlotsInv

(* No call waits while a slot of its class is free, and the queue of a     *)
(* class never exceeds its bound (acquireWorkClassSlot).                   *)
THEOREM WorkConserving == GateSpec => []NobodyWaitsForAFreeSlot
BY GateInvariance, PTL DEF GateInv, SlotsInv

(* Whatever is in flight under an open breaker was let in before it opened *)
(* (canAttempt, recordFailure).                                            *)
THEOREM OpenCorrect == GateSpec => []OpenLetsNobodyIn
BY GateInvariance, PTL DEF GateInv

(* Slots are handed over in the order in which the calls queued            *)
(* (releaseSlot).                                                          *)
THEOREM FifoCorrect == GateSpec => FirstComeFirstServed
<1>1. ASSUME GateInv, [GateNext]_gateVars
      PROVE  FifoStep
  <2> SUFFICES ASSUME NEW k \in Classes, NEW w \in Waiting(k), place'[w] = "running"
               PROVE  /\ w = Head(queue[k])
                      /\ \A d \in Calls : d # w /\ class'[d] = k /\ place'[d] = "running"
                                            => place[d] = "running"
    BY DEF FifoStep
  <2>1. w \in Calls /\ place[w] = "waiting" /\ class[w] = k
    BY DEF Waiting
  <2>2. ~UNCHANGED place
    BY <2>1
  <2>3. ~Environment /\ ~UNCHANGED gateVars
    BY <2>2 DEF Environment, Observe, WindowElapses, Sicken, Heal, gateVars
  <2>4. \A c \in Calls : ~Arrive(c)
    BY <1>1, <2>1, <2>2 DEF Arrive, AcquireNow, Enqueue, RefuseFull, Attempt, GateInv, GateTypeOK
  <2>5. \A c \in Calls : ~TimeOut(c)
    BY <1>1, <2>1 DEF TimeOut, GateInv, GateTypeOK
  <2>6. PICK c \in Calls, outcome \in Outcomes : Finish(c, outcome)
    BY <1>1, <2>3, <2>4, <2>5 DEF GateNext, Complete
  <2>7. PICK j \in Classes : j = class[c]
    BY <1>1, <2>6 DEF Finish, GateInv, SlotsInv, Filed
  <2>8. place[c] = "running" /\ class' = [class EXCEPT ![c] = NoClass] /\ Release(c)
    BY <2>6 DEF Finish
  <2>9. queue[j] # << >>
    BY <1>1, <2>1, <2>7, <2>8 DEF Release, GateInv, GateTypeOK
  <2>10. /\ Head(queue[j]) \in Waiting(j)
         /\ place' = [place EXCEPT ![c] = "out", ![Head(queue[j])] = "running"]
    BY <1>1, <2>7, <2>8, <2>9, HandOverGate
  <2>11. w = Head(queue[j]) /\ j = k
    BY <1>1, <2>1, <2>10 DEF Waiting, GateInv, GateTypeOK
  <2>12. QED
    BY <1>1, <2>10, <2>11 DEF GateInv, GateTypeOK
<1>2. QED
  BY <1>1, GateInvariance, PTL DEF GateSpec, FirstComeFirstServed

-----------------------------------------------------------------------------
(* The key *)

Writing(r) == pc[r] \in {"applied", "saved"}

Held ==
    /\ \A r \in Requests : pc[r] = "saved" => records[SlotOf(r)] = None
    /\ \A r, s \in Requests :
         pc[r] = "saved" /\ pc[s] = "saved" /\ SlotOf(r) = SlotOf(s) => r = s
    /\ \A r \in Requests : Writing(r) => ~Decided(r)
    /\ \A r, s \in Requests : Writing(r) /\ Writing(s) /\ SameTarget(r, s) => r = s

Cleared ==
    /\ \A r \in Requests : pc[r] = "new" => r \notin guarded
    /\ \A r \in Requests : pc[r] \in {"looked", "checked", "applied", "saved"} => ~Straddles(r)

Inv == /\ TypeOK /\ Held /\ Cleared
       /\ OncePerKey /\ AnswersAreTrue /\ LegacyNotRunAgain /\ DecidedOnce

-----------------------------------------------------------------------------
(* Two requests share a slot exactly when they share actor and key. *)
LEMMA SlotFacts ==
    /\ \A r \in Requests : SlotOf(r) \in Slots
    /\ \A r, s \in Requests :
         SlotOf(r) = SlotOf(s) <=> ActorOf[r] = ActorOf[s] /\ KeyOf[r] = KeyOf[s]
BY DEF SlotOf, Slots

(* Answers of different kinds differ. *)
LEMMA AnswerFacts ==
    ASSUME NEW k \in {"ok", "lost", "replay", "conflict", "refused", "error"},
           NEW of \in Requests \cup {None}
    PROVE  /\ Answer(k, of) \in Answers /\ Answer(k, of) # Nothing
           /\ Answer(k, of).kind = k /\ Answer(k, of).of = of
<1>1. Answer(k, of).kind = k /\ Answer(k, of).of = of /\ Nothing.kind = "nothing"
  BY DEF Answer, Nothing
<1>2. Answer(k, of) \in Answers
  BY DEF Answer, Answers
<1> QED
  BY <1>1, <1>2

(* What findIdempotencyRecord says is true, and it lets through only what   *)
(* has neither a record nor a legacy row.                                   *)
LEMMA ExistingFacts ==
    ASSUME TypeOK, OncePerKey, NEW r \in Requests
    PROVE  /\ Existing(r) = Nothing => records[SlotOf(r)] = None /\ ~Straddles(r)
           /\ Existing(r) # Nothing =>
                /\ Existing(r) \in Answers /\ Explained(r, Existing(r))
                /\ Existing(r).kind \in {"replay", "conflict"}
<1> DEFINE w == records[SlotOf(r)]
<1>1. SlotOf(r) \in Slots /\ w \in Requests \cup {None}
  BY SlotFacts DEF TypeOK
<1>2. CASE w = None
  <2>1. Existing(r) = IF Straddles(r) THEN Answer("conflict", None) ELSE Nothing
    BY <1>2 DEF Existing
  <2>2. QED
    BY <1>2, <2>1, AnswerFacts DEF Explained
<1>3. CASE w # None
  <2>1. w \in Requests /\ w \in committed /\ SlotOf(w) = SlotOf(r)
    BY <1>1, <1>3 DEF OncePerKey
  <2>2. ActorOf[w] = ActorOf[r] /\ KeyOf[w] = KeyOf[r]
    BY <2>1, SlotFacts
  <2>3. Existing(r) = IF HashOf[w] = HashOf[r] THEN Answer("replay", w) ELSE Answer("conflict", None)
    BY <1>3 DEF Existing
  <2> HIDE DEF w
  <2>4. CASE HashOf[w] = HashOf[r]
    BY <2>1, <2>2, <2>3, <2>4, AnswerFacts DEF Explained
  <2>5. CASE HashOf[w] # HashOf[r]
    BY <2>1, <2>2, <2>3, <2>5, AnswerFacts DEF Explained
  <2>6. QED
    BY <2>4, <2>5
<1> QED
  BY <1>2, <1>3

-----------------------------------------------------------------------------
THEOREM InitInv == Init => Inv
<1> SUFFICES ASSUME Init PROVE Inv
  OBVIOUS
<1>1. \A r \in Requests : pc[r] = "new" /\ answer[r] = Nothing /\ answer[r].kind = "nothing"
  BY DEF Init, Nothing, Answer
<1>2. TypeOK
  <2>1. Nothing \in Answers
    BY DEF Nothing, Answer, Answers
  <2>2. QED
    BY <1>1, <2>1 DEF Init, TypeOK, Steps
<1>3. Held /\ Cleared
  BY <1>1 DEF Init, Held, Cleared, Writing
<1>4. OncePerKey
  BY SlotFacts DEF Init, OncePerKey
<1>5. AnswersAreTrue
  BY <1>1 DEF Init, AnswersAreTrue, Explained
<1> QED
  BY <1>2, <1>3, <1>4, <1>5 DEF Inv, Init, LegacyNotRunAgain, DecidedOnce

(* A transaction that goes one step on keeps the invariant if what it now   *)
(* holds, nobody else does.                                                 *)
LEMMA Advances ==
    ASSUME Inv, NEW r \in Requests, NEW step \in Steps \ {"new", "done"},
           pc[r] # "done", Go(r, step),
           UNCHANGED <<answer, records, committed, straddle, guarded>>,
           step = "begun" \/ ~Straddles(r),
           step = "saved" => /\ records[SlotOf(r)] = None
                             /\ \A s \in Requests : pc[s] = "saved" => SlotOf(s) # SlotOf(r),
           step \in {"applied", "saved"} =>
               /\ ~Decided(r)
               /\ \A s \in Requests : Writing(s) /\ SameTarget(r, s) => s = r
    PROVE  Inv'
<1>1. pc \in [Requests -> Steps] /\ pc' = [pc EXCEPT ![r] = step]
  BY DEF Inv, TypeOK, Go
<1>2. /\ pc'[r] = step
      /\ \A s \in Requests : s # r => pc'[s] = pc[s]
  BY <1>1
<1>3. TypeOK'
  BY <1>1, <1>2 DEF Inv, TypeOK
<1>4. Held'
  <2>1. \A s \in Requests : pc'[s] = "saved" => records'[SlotOf(s)] = None
    BY <1>2 DEF Inv, Held
  <2>2. ASSUME NEW s \in Requests, NEW t \in Requests,
               pc'[s] = "saved", pc'[t] = "saved", SlotOf(s) = SlotOf(t)
        PROVE  s = t
    BY <1>2, <2>2 DEF Inv, Held
  <2>3. ASSUME NEW s \in Requests, Writing(s)'
        PROVE  ~Decided(s)'
    <3>1. Decided(s)' <=> Decided(s)
      BY DEF Decided, SameTarget
    <3>2. QED
      BY <1>2, <2>3, <3>1 DEF Inv, Held, Writing
  <2>4. ASSUME NEW s \in Requests, NEW t \in Requests,
               Writing(s)', Writing(t)', SameTarget(s, t)
        PROVE  s = t
    <3>1. SameTarget(t, s)
      BY <2>4 DEF SameTarget
    <3>2. QED
      BY <1>2, <2>4, <3>1 DEF Inv, Held, Writing
  <2>5. QED
    BY <2>1, <2>2, <2>3, <2>4 DEF Held, SameTarget
<1>5. Cleared'
  BY <1>2 DEF Inv, Cleared, Straddles
<1>6. (OncePerKey /\ AnswersAreTrue /\ LegacyNotRunAgain /\ DecidedOnce)'
  BY DEF Inv, OncePerKey, AnswersAreTrue, Explained, LegacyNotRunAgain, DecidedOnce, Straddles, SameTarget
<1> QED
  BY <1>3, <1>4, <1>5, <1>6 DEF Inv

(* A transaction that ends without its mutation keeps the invariant if its  *)
(* answer is true.                                                          *)
LEMMA EndsWithoutEffect ==
    ASSUME Inv, NEW r \in Requests, NEW a \in Answers, pc[r] # "done", End(r, a),
           a # Nothing, a.kind \notin {"ok", "lost"}, Explained(r, a),
           UNCHANGED <<records, committed, straddle, guarded>>
    PROVE  Inv'
<1>1. /\ pc \in [Requests -> Steps] /\ pc' = [pc EXCEPT ![r] = "done"]
      /\ answer \in [Requests -> Answers] /\ answer' = [answer EXCEPT ![r] = a]
  BY DEF Inv, TypeOK, End, Go
<1>2. /\ pc'[r] = "done" /\ answer'[r] = a
      /\ \A s \in Requests : s # r => pc'[s] = pc[s] /\ answer'[s] = answer[s]
  BY <1>1
<1>3. r \notin committed
  BY DEF Inv, TypeOK, AnswersAreTrue, Nothing, Answer
<1>4. TypeOK'
  BY <1>1, <1>2 DEF Inv, TypeOK, Steps
<1>5. Held' /\ Cleared'
  BY <1>2 DEF Inv, Held, Cleared, Writing, Straddles, Decided, SameTarget
<1>6. AnswersAreTrue'
  <2>1. \A s \in Requests, b \in Answers : Explained(s, b)' <=> Explained(s, b)
    BY DEF Explained, Straddles
  <2>2. ASSUME NEW s \in Requests
        PROVE  (s \in committed <=> answer'[s].kind \in {"ok", "lost"}) /\ Explained(s, answer'[s])
    BY <1>2, <1>3 DEF Inv, AnswersAreTrue
  <2>3. QED
    BY <1>1, <2>1, <2>2 DEF AnswersAreTrue, Explained, Straddles
<1>7. (OncePerKey /\ LegacyNotRunAgain /\ DecidedOnce)'
  BY DEF Inv, OncePerKey, LegacyNotRunAgain, DecidedOnce, Straddles, SameTarget
<1> QED
  BY <1>4, <1>5, <1>6, <1>7 DEF Inv

(* A commit adds its mutation and its record at once. *)
LEMMA CommitKeeps ==
    ASSUME Inv, NEW r \in Requests, Commit(r)
    PROVE  Inv'
<1>1. PICK kind \in {"ok", "lost"} : End(r, Answer(kind, r))
  BY DEF Commit
<1>2. /\ Answer(kind, r) \in Answers /\ Answer(kind, r) # Nothing
      /\ Answer(kind, r).kind = kind /\ Answer(kind, r).of = r
  BY AnswerFacts
<1> DEFINE a == Answer(kind, r)
<1>3. /\ pc[r] = "saved" /\ records' = [records EXCEPT ![SlotOf(r)] = r]
      /\ committed' = committed \cup {r} /\ UNCHANGED <<straddle, guarded>>
      /\ pc' = [pc EXCEPT ![r] = "done"] /\ answer' = [answer EXCEPT ![r] = a]
  BY <1>1 DEF Commit, End, Go
<1> HIDE DEF a
<1>4. /\ pc \in [Requests -> Steps] /\ answer \in [Requests -> Answers]
      /\ records \in [Slots -> Requests \cup {None}] /\ SlotOf(r) \in Slots
  BY SlotFacts DEF Inv, TypeOK
<1>5. /\ pc'[r] = "done" /\ answer'[r] = a /\ records'[SlotOf(r)] = r
      /\ \A s \in Requests : s # r => pc'[s] = pc[s] /\ answer'[s] = answer[s]
      /\ \A slot \in Slots : slot # SlotOf(r) => records'[slot] = records[slot]
  BY <1>3, <1>4
<1>6. r \notin committed /\ records[SlotOf(r)] = None
  BY <1>3 DEF Inv, Held, TypeOK, AnswersAreTrue, Nothing, Answer
<1>7. TypeOK'
  BY <1>2, <1>3, <1>4, <1>5 DEF Inv, TypeOK, Steps, a
<1>8. Held'
  <2>1. \A s \in Requests : pc'[s] = "saved" => records'[SlotOf(s)] = None
    BY <1>3, <1>5, SlotFacts DEF Inv, Held
  <2>2. \A s, t \in Requests :
          pc'[s] = "saved" /\ pc'[t] = "saved" /\ SlotOf(s) = SlotOf(t) => s = t
    BY <1>5 DEF Inv, Held
  <2>3. ASSUME NEW s \in Requests, Writing(s)'
        PROVE  ~Decided(s)'
    <3>1. s # r /\ Writing(s) /\ Writing(r)
      BY <1>3, <1>5, <2>3 DEF Writing
    <3>2. ~Decided(s) /\ ~SameTarget(s, r)
      BY <3>1 DEF Inv, Held
    <3>3. QED
      BY <1>3, <3>2 DEF Decided, SameTarget
  <2>4. \A s, t \in Requests : Writing(s)' /\ Writing(t)' /\ SameTarget(s, t) => s = t
    BY <1>5 DEF Inv, Held, Writing
  <2>5. QED
    BY <2>1, <2>2, <2>3, <2>4 DEF Held, SameTarget
<1>9. Cleared'
  BY <1>3, <1>5 DEF Inv, Cleared, Straddles
<1>10. OncePerKey'
  <2>1. ASSUME NEW slot \in Slots
        PROVE  {s \in committed' : SlotOf(s) = slot} = {records'[slot]} \ {None}
    <3>1. {s \in committed : SlotOf(s) = slot} = {records[slot]} \ {None}
      BY DEF Inv, OncePerKey
    <3>2. CASE slot = SlotOf(r)
      BY <1>3, <1>5, <1>6, <3>1, <3>2, NoneAssumption
    <3>3. CASE slot # SlotOf(r)
      BY <1>3, <1>5, <3>1, <3>3
    <3>4. QED
      BY <3>2, <3>3
  <2>2. QED
    BY <2>1 DEF OncePerKey, SlotOf
<1>11. AnswersAreTrue'
  <2>1. ASSUME NEW s \in Requests
        PROVE  (s \in committed' <=> answer'[s].kind \in {"ok", "lost"})
    BY <1>2, <1>3, <1>5 DEF Inv, AnswersAreTrue, a
  <2>2. ASSUME NEW s \in Requests
        PROVE  Explained(s, answer[s])'
    <3>1. CASE s = r
      BY <1>2, <1>5, <3>1 DEF Explained, a
    <3>2. CASE s # r
      <4>1. Explained(s, answer[s]) /\ answer'[s] = answer[s]
        BY <1>5, <3>2 DEF Inv, AnswersAreTrue
      <4>2. QED
        BY <1>3, <4>1 DEF Explained, Straddles
    <3>3. QED
      BY <3>1, <3>2
  <2>3. QED
    BY <2>1, <2>2 DEF AnswersAreTrue, Explained, Straddles
<1>12. LegacyNotRunAgain'
  BY <1>3 DEF Inv, LegacyNotRunAgain, Cleared, Straddles
<1>13. DecidedOnce'
  <2>1. \A s \in committed : ~SameTarget(r, s) /\ ~SameTarget(s, r)
    BY <1>3 DEF Inv, Held, Writing, Decided, SameTarget
  <2>2. QED
    BY <1>3, <2>1 DEF Inv, DecidedOnce, SameTarget
<1> QED
  BY <1>7, <1>8, <1>9, <1>10, <1>11, <1>12, <1>13 DEF Inv

LEMMA BeginKeeps ==
    ASSUME Inv, NEW r \in Requests, Begin(r)
    PROVE  Inv'
<1>1. /\ pc[r] = "new" /\ pc' = [pc EXCEPT ![r] = "begun"] /\ pc \in [Requests -> Steps]
      /\ UNCHANGED <<answer, records, committed, straddle>>
      /\ guarded \subseteq guarded' /\ guarded' \subseteq guarded \cup {r}
  BY DEF Begin, Go, Inv, TypeOK
<1>2. /\ pc'[r] = "begun"
      /\ \A s \in Requests : s # r => /\ pc'[s] = pc[s]
                                     /\ Straddles(s)' <=> Straddles(s)
  BY <1>1 DEF Straddles
<1>3. r \notin committed /\ answer[r].kind = "nothing"
  BY <1>1 DEF Inv, TypeOK, AnswersAreTrue, Nothing, Answer
<1>4. TypeOK'
  BY <1>1, <1>2 DEF Inv, TypeOK, Steps
<1>5. Held'
  BY <1>1, <1>2 DEF Inv, Held, Writing, Decided, SameTarget
<1>6. Cleared'
  BY <1>1, <1>2 DEF Inv, Cleared
<1>7. AnswersAreTrue'
  <2>1. ASSUME NEW s \in Requests
        PROVE  Explained(s, answer[s])'
    <3>1. Explained(s, answer[s]) /\ answer' = answer
      BY <1>1 DEF Inv, AnswersAreTrue
    <3>2. QED
      BY <1>1, <3>1 DEF Explained, Straddles
  <2>2. QED
    BY <1>1, <2>1 DEF Inv, AnswersAreTrue
<1>8. LegacyNotRunAgain'
  BY <1>1, <1>2, <1>3 DEF Inv, TypeOK, LegacyNotRunAgain
<1>9. OncePerKey' /\ DecidedOnce'
  BY <1>1 DEF Inv, OncePerKey, DecidedOnce, SameTarget
<1> QED
  BY <1>4, <1>5, <1>6, <1>7, <1>8, <1>9 DEF Inv

(* Every step of a transaction keeps the invariant. *)
LEMMA StepKeeps ==
    ASSUME Inv, NEW r \in Requests, Step(r) \/ Fail(r)
    PROVE  Inv'
<1>1. CASE Look(r)
  <2>1. CASE Existing(r) = Nothing
    <3>1. ~Straddles(r)
      BY <2>1, ExistingFacts DEF Inv
    <3>2. QED
      BY <1>1, <2>1, <3>1, Advances DEF Look, Steps
  <2>2. CASE Existing(r) # Nothing
    <3>1. Existing(r) \in Answers /\ Explained(r, Existing(r)) /\ Existing(r).kind \in {"replay", "conflict"}
      BY <2>2, ExistingFacts DEF Inv
    <3>2. QED
      BY <1>1, <2>2, <3>1, EndsWithoutEffect DEF Look
  <2>3. QED
    BY <2>1, <2>2
<1>2. ASSUME End(r, Answer("refused", None)), pc[r] # "done",
             UNCHANGED <<records, committed, straddle, guarded>>
      PROVE  Inv'
  BY <1>2, AnswerFacts, EndsWithoutEffect DEF Explained
<1>3. CASE Check(r)
  <2>1. ~Straddles(r)
    BY <1>3 DEF Check, Inv, Cleared
  <2>2. CASE Decided(r)
    BY <1>2, <1>3, <2>2 DEF Check
  <2>3. CASE ~Decided(r)
    BY <1>3, <2>1, <2>3, Advances DEF Check, Steps
  <2>4. QED
    BY <2>2, <2>3
<1>4. CASE Apply(r)
  <2>1. ~Straddles(r)
    BY <1>4 DEF Apply, Inv, Cleared
  <2>2. CASE Decided(r)
    BY <1>2, <1>4, <2>2 DEF Apply
  <2>3. CASE ~Decided(r)
    <3>1. \A s \in Requests : Writing(s) => ~SameTarget(r, s) /\ ~SameTarget(s, r)
      BY <1>4 DEF Apply, RowLocked, Writing, SameTarget
    <3>2. QED
      BY <1>4, <2>1, <2>3, <3>1, Advances DEF Apply, Steps
  <2>4. QED
    BY <2>2, <2>3
<1>5. CASE Save(r)
  <2>1. Writing(r) /\ ~Straddles(r)
    BY <1>5 DEF Save, Inv, Cleared, Writing
  <2>2. /\ ~Decided(r)
        /\ \A s \in Requests : Writing(s) /\ SameTarget(r, s) => s = r
    BY <2>1 DEF Inv, Held
  <2>3. \A s \in Requests : pc[s] = "saved" => SlotOf(s) # SlotOf(r)
    BY <1>5 DEF Save, Inserting
  <2>4. QED
    BY <1>5, <2>1, <2>2, <2>3, Advances DEF Save, Steps
<1>6. CASE LoseRace(r)
  <2>1. Existing(r) # Nothing
    BY <1>6, ExistingFacts DEF LoseRace, Inv
  <2>2. Existing(r) \in Answers /\ Explained(r, Existing(r)) /\ Existing(r).kind \in {"replay", "conflict"}
    BY <2>1, ExistingFacts DEF Inv
  <2>3. QED
    BY <1>6, <2>1, <2>2, EndsWithoutEffect DEF LoseRace
<1>7. CASE Commit(r)
  BY <1>7, CommitKeeps
<1>8. CASE Fail(r)
  BY <1>8, AnswerFacts, EndsWithoutEffect DEF Fail, Explained
<1> QED
  BY <1>1, <1>3, <1>4, <1>5, <1>6, <1>7, <1>8 DEF Step

THEOREM NextInv == Inv /\ [Next]_vars => Inv'
<1> SUFFICES ASSUME Inv, [Next]_vars PROVE Inv'
  OBVIOUS
<1>1. ASSUME NEW r \in Requests, Begin(r) \/ Step(r) \/ Fail(r)
      PROVE  Inv'
  BY <1>1, BeginKeeps, StepKeeps
<1>2. CASE WindowPasses \/ UNCHANGED vars
  <2>1. UNCHANGED <<pc, answer, records, committed, guarded>> /\ straddle' \in BOOLEAN
    BY <1>2 DEF WindowPasses, vars, Inv, TypeOK
  <2>2. (TypeOK /\ Held /\ Cleared)'
    BY <2>1 DEF Inv, TypeOK, Held, Cleared, Writing, Decided, SameTarget, Straddles
  <2>3. (OncePerKey /\ AnswersAreTrue /\ LegacyNotRunAgain /\ DecidedOnce)'
    BY <2>1 DEF Inv, OncePerKey, AnswersAreTrue, Explained, LegacyNotRunAgain, DecidedOnce,
                SameTarget, Straddles
  <2>4. QED
    BY <2>2, <2>3 DEF Inv
<1> QED
  BY <1>1, <1>2 DEF Next

THEOREM SpecInv == Spec => []Inv
BY InitInv, NextInv, PTL DEF Spec

-----------------------------------------------------------------------------
(* Every reachable state is well typed, and a request has its answer        *)
(* exactly when its transaction has ended.                                  *)
THEOREM TypeCorrect == Spec => []TypeOK
<1>1. Inv => TypeOK
  BY DEF Inv
<1> QED
  BY <1>1, SpecInv, PTL

(* At most one mutation per actor and key commits, with its record. *)
THEOREM OncePerKeyCorrect == Spec => []OncePerKey
<1>1. Inv => OncePerKey
  BY DEF Inv
<1> QED
  BY <1>1, SpecInv, PTL

(* Every answer tells what happened. *)
THEOREM AnswersCorrect == Spec => []AnswersAreTrue
<1>1. Inv => AnswersAreTrue
  BY DEF Inv
<1> QED
  BY <1>1, SpecInv, PTL

(* No retry across the deploy of actor scoping runs its mutation again. *)
THEOREM LegacyCorrect == Spec => []LegacyNotRunAgain
<1>1. Inv => LegacyNotRunAgain
  BY DEF Inv
<1> QED
  BY <1>1, SpecInv, PTL

(* A pending resource is decided once, whoever decides under which key. *)
THEOREM DecidedOnceCorrect == Spec => []DecidedOnce
<1>1. Inv => DecidedOnce
  BY DEF Inv
<1> QED
  BY <1>1, SpecInv, PTL

(* Twins that create something and do not fail are told of one response. *)
THEOREM TwinsCorrect == Spec => []TwinsToldTheSame
<1>1. ASSUME Inv PROVE TwinsToldTheSame
  <2> DEFINE Told == {"ok", "lost", "replay", "conflict"}
  <2>1. ASSUME NEW r \in Requests, NEW s \in Requests, Twins(r, s),
               ~Straddles(r), ~Straddles(s),
               answer[r].kind \in Told, answer[s].kind \in Told
        PROVE  answer[r].of = answer[s].of
    <3> DEFINE w == records[SlotOf(r)]
    <3>1. /\ SlotOf(r) \in Slots /\ SlotOf(s) = SlotOf(r) /\ HashOf[s] = HashOf[r]
          /\ ActorOf[s] = ActorOf[r] /\ KeyOf[s] = KeyOf[r]
      BY <2>1, SlotFacts DEF Twins
    <3>2. \A v \in committed : ActorOf[v] = ActorOf[r] /\ KeyOf[v] = KeyOf[r] => v = w
      BY <1>1, <3>1, SlotFacts DEF Inv, TypeOK, OncePerKey
    <3> HIDE DEF w
    <3>3. ASSUME NEW q \in {r, s}, NEW p \in {r, s}, answer[q].kind = "conflict",
                 answer[p].kind \in {"ok", "lost", "replay"}
          PROVE  FALSE
      <4>1. PICK v \in committed : ActorOf[v] = ActorOf[q] /\ KeyOf[v] = KeyOf[q] /\ HashOf[v] # HashOf[q]
        BY <1>1, <2>1, <3>3 DEF Inv, AnswersAreTrue, Explained
      <4>2. v = w /\ HashOf[w] # HashOf[r]
        BY <3>1, <3>2, <4>1
      <4>3. \E u \in committed : ActorOf[u] = ActorOf[p] /\ KeyOf[u] = KeyOf[p] /\ HashOf[u] = HashOf[p]
        BY <1>1, <3>3 DEF Inv, AnswersAreTrue, Explained
      <4>4. QED
        BY <3>1, <3>2, <4>2, <4>3
    <3>4. \A q \in {r, s} : answer[q].kind \in {"ok", "lost", "replay"} => answer[q].of = w
      BY <1>1, <3>1, <3>2 DEF Inv, AnswersAreTrue, Explained
    <3>5. \A q \in {r, s} : answer[q].kind = "conflict" => answer[q].of = None
      BY <1>1 DEF Inv, AnswersAreTrue, Explained
    <3>6. QED
      BY <2>1, <3>3, <3>4, <3>5
  <2>2. QED
    BY <2>1 DEF TwinsToldTheSame
<1> QED
  BY <1>1, SpecInv, PTL

-----------------------------------------------------------------------------
LEMMA InitPromise == Init => Promise!Init
BY DEF Init, Promise!Init, Promise!Nothing, Promise!Told, Nothing, Answer, Slots

(* A request that ends is told something KeyedMutation allows; everything   *)
(* else a transaction does is a stutter.                                    *)
LEMMA StepPromise ==
    ASSUME Inv, [Next]_vars
    PROVE  [Promise!Next]_<<records, answer>>
<1>1. Promise!Nothing = Nothing /\ \A kind, of : Promise!Told(kind, of) = Answer(kind, of)
  BY DEF Promise!Nothing, Promise!Told, Nothing, Answer
<1>2. ASSUME NEW r \in Requests, pc[r] # "done",
             \/ Promise!TakeEffect(r) \/ Promise!TellOwners(r)
             \/ Promise!TellConflict(r) \/ Promise!TellFailure(r)
      PROVE  Promise!Next
  BY <1>1, <1>2 DEF Inv, TypeOK, Promise!Next
<1>3. ASSUME NEW r \in Requests, pc[r] # "done", Existing(r) # Nothing,
             End(r, Existing(r)), records' = records
      PROVE  Promise!Next
  <2> DEFINE w == records[SlotOf(r)]
  <2>1. CASE w # None /\ HashOf[w] = HashOf[r]
    <3>1. Existing(r) = Answer("replay", w)
      BY <2>1 DEF Existing
    <3>2. Promise!TellOwners(r)
      BY <1>1, <1>3, <2>1, <3>1 DEF Promise!TellOwners, End
    <3>3. QED
      BY <1>2, <1>3, <3>2
  <2>2. CASE ~(w # None /\ HashOf[w] = HashOf[r])
    <3>1. Existing(r) = Answer("conflict", None)
      BY <1>3, <2>2 DEF Existing
    <3>2. (w # None /\ HashOf[w] # HashOf[r]) \/ KeyOf[r] \in LegacyKeys
      BY <1>3, <2>2 DEF Existing, Straddles
    <3>3. Promise!TellConflict(r)
      BY <1>1, <1>3, <3>1, <3>2 DEF Promise!TellConflict, End
    <3>4. QED
      BY <1>2, <1>3, <3>3
  <2>3. QED
    BY <2>1, <2>2
<1>4. ASSUME NEW r \in Requests, pc[r] # "done", NEW kind \in {"refused", "error"},
             End(r, Answer(kind, None)), records' = records
      PROVE  Promise!Next
  <2>1. Promise!TellFailure(r)
    BY <1>1, <1>4 DEF Promise!TellFailure, End
  <2>2. QED
    BY <1>2, <1>4, <2>1
<1>5. ASSUME NEW r \in Requests, Begin(r) \/ Step(r) \/ Fail(r)
      PROVE  [Promise!Next]_<<records, answer>>
  <2>1. CASE Commit(r)
    <3>1. records[SlotOf(r)] = None /\ pc[r] # "done"
      BY <2>1 DEF Commit, Inv, Held
    <3>2. Promise!TakeEffect(r)
      BY <1>1, <2>1, <3>1 DEF Commit, End, Promise!TakeEffect
    <3>3. QED
      BY <1>2, <3>1, <3>2
  <2>2. CASE Look(r)
    BY <1>3, <2>2 DEF Look
  <2>3. CASE LoseRace(r)
    <3>1. Existing(r) # Nothing
      BY <2>3, ExistingFacts DEF LoseRace, Inv
    <3>2. QED
      BY <1>3, <2>3, <3>1 DEF LoseRace
  <2>4. CASE Check(r) \/ Apply(r)
    BY <1>4, <2>4 DEF Check, Apply
  <2>5. CASE Fail(r)
    BY <1>4, <2>5 DEF Fail
  <2>6. CASE Begin(r) \/ Save(r)
    BY <2>6 DEF Begin, Save
  <2>7. QED
    BY <1>5, <2>1, <2>2, <2>3, <2>4, <2>5, <2>6 DEF Step
<1>6. CASE WindowPasses \/ UNCHANGED vars
  BY <1>6 DEF WindowPasses, vars
<1> QED
  BY <1>5, <1>6 DEF Next

(* Transactions, locks, lost races and rollbacks implement the promise of   *)
(* an idempotency key: an atomic claim of the key by the one request that   *)
(* takes effect.                                                            *)
THEOREM Implements == Spec => KeepsPromise
<1>1. Spec => Promise!Init /\ [][Promise!Next]_<<records, answer>>
  BY SpecInv, InitPromise, StepPromise, PTL DEF Spec
<1> QED
  BY <1>1 DEF KeepsPromise, Promise!Spec
=============================================================================
