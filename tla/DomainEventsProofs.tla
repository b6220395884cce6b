------------------------- MODULE DomainEventsProofs -------------------------
(* Proofs about DomainEvents, for any number of events, consumers, passes, *)
(* attempts, replays, crashes and deployments.                             *)
EXTENDS DomainEvents, TLAPS

PairOf(d) == <<Ev(d), Co(d)>>

(* What the delivery rows say of their event and of their attempt budget. *)
RowInv ==
    \A d \in Delivery :
      /\ event[Ev(d)] = "none" => status[d] = "none"
      /\ status[d] \notin {"none", "uncommitted"} => event[Ev(d)] = "committed"
      /\ status[d] \in {"none", "uncommitted"} => attempts[d] = 0
      /\ status[d] = "pending" => attempts[d] < MaxAttempts
      /\ status[d] = "uncommitted" => event[Ev(d)] = "open" /\ IsOriginal(d)

(* A row inside an open transaction is locked by that pass alone and still *)
(* pending: every other statement that would settle it waits.              *)
LockInv ==
    /\ \A w \in Workers :
         /\ pc[w] \in {"claimed", "handled", "failed"} => cur[w] \in Delivery
         /\ InTransaction(w) => status[cur[w]] = "pending"
    /\ \A v, w \in Workers :
         v # w /\ InTransaction(v) /\ InTransaction(w) => cur[v] # cur[w]

(* The effect markers, durable and not yet committed. *)
MarkerInv ==
    /\ \A w \in Workers :
         /\ inserted[w] => pc[w] = "handled" /\ PairOf(cur[w]) \notin effects
         /\ pc[w] = "handled" /\ ~inserted[w] => PairOf(cur[w]) \in effects
    /\ \A v, w \in Workers :
         v # w /\ inserted[v] /\ inserted[w] => PairOf(cur[v]) # PairOf(cur[w])

(* The side effects committed so far are the durable markers. *)
AppliedInv ==
    /\ \A p \in Events \X Consumers : applied[p] = IF p \in effects THEN 1 ELSE 0
    /\ \A d \in Delivery : status[d] = "delivered" => PairOf(d) \in effects
    /\ \A p \in effects : \E d \in Delivery :
         p = PairOf(d) /\ status[d] \in {"delivered", "purged"}

Inv == TypeOK /\ RowInv /\ LockInv /\ MarkerInv /\ AppliedInv

LEMMA PairInPairs ==
  ASSUME NEW d \in Delivery
  PROVE  /\ Ev(d) \in Events /\ Co(d) \in Consumers
         /\ PairOf(d) \in Events \X Consumers
  BY DEF Delivery, Ev, Co, PairOf

LEMMA InitInv == Init => Inv
  <1> SUFFICES ASSUME Init PROVE Inv
    OBVIOUS
  <1> USE DEF Init
  <1>1. TypeOK
    BY BoundsAssumption, AttemptsAssumption
       DEF TypeOK, Statuses, Phases, Declarations
  <1>2. RowInv
    BY AttemptsAssumption, PairInPairs DEF RowInv
  <1>3. LockInv /\ MarkerInv
    BY DEF LockInv, MarkerInv, InTransaction
  <1>4. AppliedInv
    BY PairInPairs DEF AppliedInv
  <1>5. QED
    BY <1>1, <1>2, <1>3, <1>4 DEF Inv

(* Actions of producers, operators, releases, the clock and the purge: they *)
(* leave every pass and the effect ledger alone.                            *)
LEMMA AppendInv ==
  ASSUME Inv, NEW e \in Events, Append(e)
  PROVE  Inv'
  <1> USE DEF Inv, Append, control, passes, ledger
  <1>1. TypeOK'
    BY DEF TypeOK, Statuses
  <1>2. RowInv'
    BY PairInPairs DEF RowInv, TypeOK
  <1>3. \A d \in Delivery : status'[d] # status[d] =>
           status[d] = "none" /\ status'[d] = "uncommitted"
    BY PairInPairs DEF RowInv, TypeOK
  <1>4. LockInv'
    BY <1>3 DEF LockInv, InTransaction
  <1>5. MarkerInv'
    BY DEF MarkerInv
  <1>6. AppliedInv'
    BY <1>3 DEF AppliedInv
  <1>7. QED
    BY <1>1, <1>2, <1>4, <1>5, <1>6

LEMMA EndTransactionInv ==
  ASSUME Inv, NEW e \in Events, NEW outcome, NEW rowStatus,
         \/ outcome = "committed" /\ rowStatus = "pending"
         \/ outcome = "rolled_back" /\ rowStatus = "none",
         EndTransaction(e, outcome, rowStatus)
  PROVE  Inv'
  <1> USE DEF Inv, EndTransaction, control, passes, ledger
  <1>1. TypeOK'
    BY DEF TypeOK, Statuses
  <1>2. RowInv'
    BY PairInPairs, AttemptsAssumption DEF RowInv, TypeOK
  <1>3. \A d \in Delivery : status'[d] # status[d] =>
           status[d] = "uncommitted" /\ status'[d] \in {"pending", "none"}
    BY DEF TypeOK
  <1>4. LockInv'
    BY <1>3 DEF LockInv, InTransaction
  <1>5. MarkerInv'
    BY DEF MarkerInv
  <1>6. AppliedInv'
    BY <1>3 DEF AppliedInv
  <1>7. QED
    BY <1>1, <1>2, <1>4, <1>5, <1>6

LEMMA ControlInv ==
  ASSUME Inv,
         NEW c \in Consumers, NEW r \in Declarations,
         PauseConsumer(c) \/ ResumeConsumer(c) \/ Deploy(c, r)
  PROVE  Inv'
  <1> USE DEF Inv, PauseConsumer, ResumeConsumer, Deploy, outbox, rows, passes, ledger
  <1>1. TypeOK'
    BY BoundsAssumption DEF TypeOK
  <1>2. RowInv' /\ LockInv' /\ MarkerInv' /\ AppliedInv'
    BY DEF RowInv, LockInv, MarkerInv, AppliedInv, InTransaction
  <1>3. QED
    BY <1>1, <1>2

LEMMA BackoffElapsesInv ==
  ASSUME Inv, NEW d \in Delivery, BackoffElapses(d)
  PROVE  Inv'
  <1> USE DEF Inv, BackoffElapses, outbox, control, passes, ledger
  <1>1. TypeOK'
    BY DEF TypeOK
  <1>2. RowInv' /\ LockInv' /\ MarkerInv' /\ AppliedInv'
    BY DEF RowInv, LockInv, MarkerInv, AppliedInv, InTransaction
  <1>3. QED
    BY <1>1, <1>2

LEMMA ReplayInv ==
  ASSUME Inv, NEW d \in Delivery, Replay(d)
  PROVE  Inv'
  <1> USE DEF Inv, outbox, control, passes, ledger
  <1>1. PICK r \in Delivery :
          /\ Ev(r) = Ev(d) /\ status[r] = "none"
          /\ status' = [status EXCEPT ![r] = "pending"]
          /\ replayOf' = [replayOf EXCEPT ![r] = d]
    BY DEF Replay, FreshReplay, SamePair
  <1>2. /\ status[d] = "dead_letter"
        /\ UNCHANGED <<outbox, attempts, backoff, ledger, control, passes>>
    BY DEF Replay
  <1>3. TypeOK'
    BY <1>1, <1>2 DEF TypeOK, Statuses
  <1>4. RowInv'
    BY <1>1, <1>2, AttemptsAssumption DEF RowInv, TypeOK
  <1>5. LockInv' /\ MarkerInv' /\ AppliedInv'
    BY <1>1, <1>2 DEF LockInv, MarkerInv, AppliedInv, InTransaction, TypeOK
  <1>6. QED
    BY <1>3, <1>4, <1>5

LEMMA PurgeInv ==
  ASSUME Inv, NEW D \in SUBSET Delivery, Purge(D)
  PROVE  Inv'
  <1> USE DEF Inv, Purge, Purgeable, Settled, outbox, control, passes, ledger
  <1>1. TypeOK'
    BY DEF TypeOK, Statuses
  <1>2. \A d \in Delivery : status'[d] # status[d] =>
           status[d] \in {"delivered", "skipped"} /\ status'[d] = "purged"
    BY DEF TypeOK
  <1>3. RowInv'
    BY <1>2 DEF RowInv
  <1>4. LockInv' /\ MarkerInv'
    BY <1>2 DEF LockInv, MarkerInv, InTransaction
  <1>5. AppliedInv'
    BY <1>2 DEF AppliedInv
  <1>6. QED
    BY <1>1, <1>3, <1>4, <1>5

-----------------------------------------------------------------------------
(* Actions of a dispatcher pass. *)
LEMMA CheckPausedInv ==
  ASSUME Inv, NEW w \in Workers, NEW c \in Consumers, CheckPaused(w, c)
  PROVE  Inv'
  <1> USE DEF Inv, CheckPaused, outbox, rows, control, ledger
  <1>1. TypeOK'
    BY DEF TypeOK, Phases
  <1>2. RowInv' /\ LockInv' /\ MarkerInv' /\ AppliedInv'
    BY DEF RowInv, LockInv, MarkerInv, AppliedInv, InTransaction, TypeOK
  <1>3. QED
    BY <1>1, <1>2

LEMMA SelectInv ==
  ASSUME Inv, NEW w \in Workers, SelectSome(w)
  PROVE  Inv'
  <1> USE DEF Inv, Select, outbox, rows, control, ledger
  <1>1. PICK H \in SUBSET Heads(serving[w]) :
          \E D \in SUBSET (H \ backoff) : Select(w, H, D)
    BY DEF SelectSome
  <1>2. PICK D \in SUBSET (H \ backoff) : Select(w, H, D)
    BY <1>1
  <1>3. D \subseteq Delivery
    BY DEF Heads, Pending
  <1>4. TypeOK'
    <2>1. {[id |-> d, attemptCount |-> attempts[d]] : d \in D}
             \in SUBSET [id : Delivery, attemptCount : 0 .. MaxAttempts]
      BY <1>3 DEF TypeOK
    <2>2. batch' \in [Workers -> SUBSET [id : Delivery, attemptCount : 0 .. MaxAttempts]]
      BY <1>2, <2>1 DEF TypeOK
    <2>3. QED
      BY <1>2, <2>2 DEF TypeOK, Phases
  <1>5. RowInv' /\ LockInv' /\ MarkerInv' /\ AppliedInv'
    BY <1>2 DEF RowInv, LockInv, MarkerInv, AppliedInv, InTransaction, TypeOK
  <1>6. QED
    BY <1>4, <1>5

LEMMA BatchInv ==
  ASSUME Inv, NEW w \in Workers, NEW x \in batch[w],
         Claim(w, x) \/ NotClaimed(w, x) \/ Skip(w, x)
  PROVE  Inv'
  <1> USE DEF Inv, outbox, rows, control, ledger, Drop
  <1>1. x.id \in Delivery /\ pc[w] = "batch" /\ ~Locked(x.id)
    BY DEF TypeOK, Claim, NotClaimed, Skip
  <1>2. batch' \in [Workers -> SUBSET [id : Delivery, attemptCount : 0 .. MaxAttempts]]
    BY DEF TypeOK, Claim, NotClaimed, Skip
  <1>3. CASE Claim(w, x)
    <2> USE <1>1, <1>3 DEF Claim, Claimable
    <2>1. TypeOK'
      BY <1>2 DEF TypeOK, Phases
    <2>2. RowInv' /\ AppliedInv'
      BY DEF RowInv, AppliedInv
    <2>3. LockInv'
      BY DEF LockInv, InTransaction, Locked, TypeOK
    <2>4. MarkerInv'
      BY DEF MarkerInv, TypeOK
    <2>5. QED
      BY <2>1, <2>2, <2>3, <2>4
  <1>4. CASE NotClaimed(w, x)
    <2> USE <1>1, <1>4 DEF NotClaimed
    <2>1. TypeOK'
      BY <1>2 DEF TypeOK
    <2>2. RowInv' /\ LockInv' /\ MarkerInv' /\ AppliedInv'
      BY DEF RowInv, LockInv, MarkerInv, AppliedInv, InTransaction
    <2>3. QED
      BY <2>1, <2>2
  <1>5. CASE Skip(w, x)
    <2> USE <1>1, <1>5 DEF Skip, Claimable
    <2>1. TypeOK'
      BY <1>2 DEF TypeOK, Statuses
    <2>2. RowInv' /\ AppliedInv'
      BY DEF RowInv, AppliedInv, TypeOK
    <2>3. LockInv' /\ MarkerInv'
      BY DEF LockInv, MarkerInv, InTransaction, Locked, TypeOK
    <2>4. QED
      BY <2>1, <2>2, <2>3
  <1>6. QED
    BY <1>3, <1>4, <1>5

LEMMA HandleInv ==
  ASSUME Inv, NEW w \in Workers, Handle(w)
  PROVE  Inv'
  <1> USE DEF Inv, Handle, outbox, rows, control, ledger
  <1>1. cur[w] \in Delivery /\ InTransaction(w)
    BY DEF LockInv, InTransaction
  <1>2. TypeOK'
    BY DEF TypeOK, Phases
  <1>3. RowInv' /\ AppliedInv'
    BY DEF RowInv, AppliedInv
  <1>4. LockInv'
    BY <1>1 DEF LockInv, InTransaction, TypeOK
  <1>5. MarkerInv'
    BY <1>1 DEF MarkerInv, MarkerPending, SamePair, PairOf, TypeOK
  <1>6. QED
    BY <1>2, <1>3, <1>4, <1>5

LEMMA DeliverInv ==
  ASSUME Inv, NEW w \in Workers, Deliver(w)
  PROVE  Inv'
  <1> DEFINE d == cur[w]
  <1> USE DEF Inv, outbox, control
  <1>1. /\ d \in Delivery /\ InTransaction(w) /\ status[d] = "pending"
        /\ PairOf(d) \in Events \X Consumers
    BY PairInPairs DEF LockInv, InTransaction, Deliver
  <1>2. /\ pc[w] = "handled"
        /\ status' = [status EXCEPT ![d] = "delivered"]
        /\ pc' = [pc EXCEPT ![w] = "batch"]
        /\ cur' = [cur EXCEPT ![w] = None]
        /\ inserted' = [inserted EXCEPT ![w] = FALSE]
        /\ UNCHANGED <<outbox, attempts, backoff, replayOf, control,
                       serving, code, batch, crashes>>
    BY DEF Deliver
  <1>3. \/ /\ inserted[w]
           /\ effects' = effects \cup {PairOf(d)}
           /\ applied' = [applied EXCEPT ![PairOf(d)] = @ + 1]
        \/ ~inserted[w] /\ effects' = effects /\ applied' = applied
    BY DEF Deliver, PairOf, ledger
  <1>4. effects' = effects \cup {PairOf(d)}
    BY <1>2, <1>3 DEF MarkerInv
  <1>5. TypeOK'
    <2>1. applied' \in [Events \X Consumers -> Nat]
      BY <1>1, <1>3 DEF TypeOK
    <2>2. effects' \subseteq Events \X Consumers
      BY <1>1, <1>4 DEF TypeOK
    <2>3. QED
      BY <1>1, <1>2, <2>1, <2>2 DEF TypeOK, Statuses, Phases
  <1>6. RowInv'
    BY <1>1, <1>2 DEF RowInv, TypeOK
  <1>7. LockInv'
    BY <1>1, <1>2 DEF LockInv, InTransaction, TypeOK
  <1>8. MarkerInv'
    <2>1. \A v \in Workers \ {w} : inserted[v] => PairOf(cur[v]) # PairOf(d)
      BY <1>2, <1>3 DEF MarkerInv
    <2>2. QED
      BY <1>2, <1>4, <2>1 DEF MarkerInv, TypeOK
  <1>9. AppliedInv'
    <2>1. \A p \in Events \X Consumers : applied'[p] = IF p \in effects' THEN 1 ELSE 0
      BY <1>1, <1>2, <1>3, <1>4 DEF AppliedInv, MarkerInv, TypeOK
    <2>2. \A f \in Delivery : status'[f] = "delivered" => PairOf(f) \in effects'
      BY <1>1, <1>2, <1>4 DEF AppliedInv, TypeOK
    <2>3. \A p \in effects' : \E f \in Delivery :
            p = PairOf(f) /\ status'[f] \in {"delivered", "purged"}
      BY <1>1, <1>2, <1>4 DEF AppliedInv, TypeOK
    <2>4. QED
      BY <2>1, <2>2, <2>3 DEF AppliedInv
  <1>10. QED
    BY <1>5, <1>6, <1>7, <1>8, <1>9

LEMMA ThrowInv ==
  ASSUME Inv, NEW w \in Workers, Throw(w)
  PROVE  Inv'
  <1> USE DEF Inv, Throw, outbox, rows, control, ledger
  <1>1. TypeOK'
    BY DEF TypeOK, Phases
  <1>2. RowInv' /\ AppliedInv'
    BY DEF RowInv, AppliedInv
  <1>3. LockInv' /\ MarkerInv'
    BY DEF LockInv, MarkerInv, InTransaction, TypeOK
  <1>4. QED
    BY <1>1, <1>2, <1>3

LEMMA RecordFailureInv ==
  ASSUME Inv, NEW w \in Workers, NEW r \in BOOLEAN, RecordFailure(w, r)
  PROVE  Inv'
  <1> DEFINE d == cur[w]
  <1> USE DEF Inv, outbox, control, ledger
  <1>1. /\ pc[w] = "failed" /\ ~Locked(d) /\ d \in Delivery
        /\ pc' = [pc EXCEPT ![w] = "batch"]
        /\ cur' = [cur EXCEPT ![w] = None]
        /\ UNCHANGED <<outbox, replayOf, ledger, control, serving, code, batch,
                       inserted, crashes>>
    BY DEF RecordFailure, LockInv
  <1>2. \/ UNCHANGED <<status, attempts, backoff>>
        \/ /\ status[d] = "pending" /\ attempts[d] + 1 < MaxAttempts
           /\ attempts' = [attempts EXCEPT ![d] = @ + 1]
           /\ backoff' = backoff \cup {d} /\ UNCHANGED status
        \/ /\ status[d] = "pending"
           /\ attempts' = [attempts EXCEPT ![d] = @ + 1]
           /\ status' = [status EXCEPT ![d] = "dead_letter"]
           /\ backoff' = backoff \ {d}
    BY DEF RecordFailure, RetryEligible
  <1>3. TypeOK'
    <2>1. attempts' \in [Delivery -> 0 .. MaxAttempts]
      BY <1>1, <1>2, AttemptsAssumption DEF TypeOK, RowInv
    <2>2. QED
      BY <1>1, <1>2, <2>1 DEF TypeOK, Statuses, Phases
  <1>4. RowInv'
    BY <1>1, <1>2, AttemptsAssumption DEF RowInv, TypeOK
  <1>5. LockInv' /\ MarkerInv'
    BY <1>1, <1>2 DEF LockInv, MarkerInv, InTransaction, Locked, TypeOK
  <1>6. AppliedInv'
    BY <1>1, <1>2 DEF AppliedInv, TypeOK
  <1>7. QED
    BY <1>3, <1>4, <1>5, <1>6

LEMMA ResetInv ==
  ASSUME Inv, NEW w \in Workers, FinishBatch(w) \/ Crash(w)
  PROVE  Inv'
  <1>1. /\ pc' = [pc EXCEPT ![w] = "idle"]
        /\ serving' = [serving EXCEPT ![w] = None]
        /\ code' = [code EXCEPT ![w] = "removed"]
        /\ batch' = [batch EXCEPT ![w] = {}]
        /\ cur' = [cur EXCEPT ![w] = None]
        /\ inserted' = [inserted EXCEPT ![w] = FALSE]
        /\ UNCHANGED <<outbox, rows, ledger, control>>
    BY DEF FinishBatch, Crash, Reset
  <1>2. crashes' \in 0 .. MaxCrashes
    BY BoundsAssumption DEF Inv, TypeOK, FinishBatch, Crash
  <1> USE DEF Inv, outbox, rows, control, ledger
  <1>3. TypeOK'
    BY <1>1, <1>2 DEF TypeOK, Phases, Declarations
  <1>4. RowInv' /\ AppliedInv'
    BY <1>1 DEF RowInv, AppliedInv
  <1>5. LockInv'
    BY <1>1 DEF LockInv, InTransaction, TypeOK
  <1>6. MarkerInv'
    BY <1>1 DEF MarkerInv, TypeOK
  <1>7. QED
    BY <1>3, <1>4, <1>5, <1>6

LEMMA NextInv == Inv /\ [Next]_vars => Inv'
  <1> SUFFICES ASSUME Inv, [Next]_vars PROVE Inv'
    OBVIOUS
  <1>1. CASE Produce
    BY <1>1, AppendInv, EndTransactionInv DEF Produce, Commit, Rollback
  <1>2. CASE Operate
    BY <1>2, ControlInv, ReplayInv DEF Operate, Declarations
  <1>3. CASE Release
    BY <1>3, ControlInv DEF Release
  <1>4. CASE Retain
    BY <1>4, PurgeInv DEF Retain
  <1>5. CASE Tick
    BY <1>5, BackoffElapsesInv DEF Tick
  <1>6. ASSUME NEW w \in Workers, Pass(w) PROVE Inv'
    BY <1>6, CheckPausedInv, SelectInv, BatchInv, HandleInv, DeliverInv,
       ThrowInv, RecordFailureInv, ResetInv DEF Pass, Attempt, Fail
  <1>7. CASE UNCHANGED vars
    BY <1>7 DEF Inv, TypeOK, RowInv, LockInv, MarkerInv, AppliedInv, InTransaction,
         vars, outbox, rows, ledger, control, passes
  <1>8. QED
    BY <1>1, <1>2, <1>3, <1>4, <1>5, <1>6, <1>7 DEF Next

LEMMA Invariance == Spec => []Inv
  BY InitInv, NextInv, PTL DEF Spec

(* Every variable stays in its type; in particular no row is ever attempted *)
(* more often than max_attempts, however many passes race for it.           *)
THEOREM TypeCorrect == Spec => []TypeOK
  <1>1. Inv => TypeOK
    BY DEF Inv
  <1>2. QED
    BY Invariance, <1>1, PTL

(* The side effect of an (event, consumer) pair is committed at most once,  *)
(* and exactly once when a row of the pair reads 'delivered', for any number*)
(* of racing passes, retries, replays, crashes and deployments.             *)
THEOREM EffectCorrect == Spec => []EffectExactlyOnce
  <1>1. Inv => EffectExactlyOnce
    BY PairInPairs DEF Inv, AppliedInv, EffectExactlyOnce, PairOf
  <1>2. QED
    BY Invariance, <1>1, PTL

-----------------------------------------------------------------------------
(* How one step may change the rows and the outbox. *)
LEMMA StepFacts ==
  ASSUME Inv, [Next]_vars
  PROVE  /\ \A d \in Delivery :
              \/ status'[d] = status[d]
              \/ status[d] = "none" /\ status'[d] = "uncommitted"
              \/ status[d] = "none" /\ status'[d] = "pending" /\ ~IsOriginal(d)
              \/ status[d] = "uncommitted" /\ status'[d] \in {"pending", "none"}
              \/ status[d] = "pending" /\ status'[d] \in {"delivered", "skipped", "dead_letter"}
              \/ status[d] \in Settled /\ status'[d] = "purged"
         /\ \A e \in Events : event[e] # "none" => seq'[e] = seq[e]
         /\ \A e \in Events : event[e] = "committed" => event'[e] = "committed"
  <1> DEFINE Facts == /\ \A d \in Delivery :
                           \/ status'[d] = status[d]
                           \/ status[d] = "none" /\ status'[d] = "uncommitted"
                           \/ status[d] = "none" /\ status'[d] = "pending" /\ ~IsOriginal(d)
                           \/ status[d] = "uncommitted" /\ status'[d] \in {"pending", "none"}
                           \/ status[d] = "pending" /\ status'[d] \in {"delivered", "skipped", "dead_letter"}
                           \/ status[d] \in Settled /\ status'[d] = "purged"
                      /\ \A e \in Events : event[e] # "none" => seq'[e] = seq[e]
                      /\ \A e \in Events : event[e] = "committed" => event'[e] = "committed"
  <1> SUFFICES Facts
    OBVIOUS
  <1> USE DEF Inv
  <1>1. ASSUME UNCHANGED <<outbox, status>> PROVE Facts
    BY <1>1 DEF outbox
  <1>2. ASSUME NEW e \in Events, Append(e) PROVE Facts
    BY <1>2, PairInPairs DEF Append, RowInv, TypeOK
  <1>3. ASSUME NEW e \in Events, Commit(e) \/ Rollback(e) PROVE Facts
    BY <1>3 DEF Commit, Rollback, EndTransaction, TypeOK
  <1>4. ASSUME NEW c \in Consumers, NEW r \in Declarations,
               PauseConsumer(c) \/ ResumeConsumer(c) \/ Deploy(c, r)
        PROVE  Facts
    BY <1>1, <1>4 DEF PauseConsumer, ResumeConsumer, Deploy, rows
  <1>5. ASSUME NEW d \in Delivery, Replay(d) PROVE Facts
    BY <1>5 DEF Replay, FreshReplay, TypeOK, outbox
  <1>6. ASSUME NEW D \in SUBSET Delivery, Purge(D) PROVE Facts
    BY <1>6 DEF Purge, Purgeable, TypeOK, outbox
  <1>7. ASSUME NEW d \in Delivery, BackoffElapses(d) PROVE Facts
    BY <1>1, <1>7 DEF BackoffElapses
  <1>8. ASSUME NEW w \in Workers, Pass(w) PROVE Facts
    <2>1. CASE \E c \in Consumers : CheckPaused(w, c)
      BY <1>1, <2>1 DEF CheckPaused, rows
    <2>2. CASE SelectSome(w)
      BY <1>1, <2>2 DEF SelectSome, Select, rows
    <2>3. ASSUME NEW x \in batch[w], Claim(w, x) \/ NotClaimed(w, x) PROVE Facts
      BY <1>1, <2>3 DEF Claim, NotClaimed, rows
    <2>4. ASSUME NEW x \in batch[w], Skip(w, x) PROVE Facts
      BY <2>4 DEF Skip, Claimable, TypeOK, outbox
    <2>5. CASE Handle(w) \/ Throw(w) \/ FinishBatch(w) \/ Crash(w)
      BY <1>1, <2>5 DEF Handle, Throw, FinishBatch, Crash, rows
    <2>6. CASE Deliver(w)
      BY <2>6 DEF Deliver, LockInv, InTransaction, TypeOK, outbox
    <2>7. ASSUME NEW r \in BOOLEAN, RecordFailure(w, r) PROVE Facts
      BY <2>7 DEF RecordFailure, LockInv, TypeOK, outbox
    <2>8. QED
      BY <1>8, <2>1, <2>2, <2>3, <2>4, <2>5, <2>6, <2>7 DEF Pass, Attempt, Fail
  <1>9. CASE UNCHANGED vars
    BY <1>1, <1>9 DEF vars, rows
  <1>10. QED
    BY <1>2, <1>3, <1>4, <1>5, <1>6, <1>7, <1>8, <1>9
       DEF Next, Produce, Operate, Release, Retain, Tick, Declarations

(* Final statuses are final: no late failure report, stale candidate or     *)
(* purge re-opens a settled row or loses a dead letter.                     *)
THEOREM FinalStatusCorrect == Spec => FinalStatusKept
  <1>1. Inv /\ [Next]_vars => [FinalStatusStep]_vars
    BY StepFacts DEF FinalStatusStep, Settled
  <1>2. QED
    BY Invariance, <1>1, PTL DEF Spec, FinalStatusKept

-----------------------------------------------------------------------------
(* What a pass knows of its candidates: attempt_count only grows, and a row *)
(* whose count is still the one the pass read has not failed since.         *)
CandidateInv ==
    /\ \A w \in Workers : \A x \in batch[w] :
         /\ x.attemptCount <= attempts[x.id]
         /\ x.attemptCount = attempts[x.id] => x.id \notin backoff
    /\ BackoffRespected

LEMMA CandidateStep == Inv /\ CandidateInv /\ [Next]_vars => CandidateInv'
  <1> SUFFICES ASSUME Inv, CandidateInv, [Next]_vars PROVE CandidateInv'
    OBVIOUS
  <1> USE DEF Inv, CandidateInv, BackoffRespected
  <1>0. \A w \in Workers : \A x \in batch[w] :
           x.id \in Delivery /\ x.attemptCount \in Nat /\ attempts[x.id] \in Nat
    BY DEF TypeOK
  <1>1. ASSUME UNCHANGED <<attempts, backoff, batch, pc, cur>> PROVE CandidateInv'
    BY <1>1 DEF InTransaction
  <1>2. CASE Produce
    BY <1>1, <1>2 DEF Produce, Append, Commit, Rollback, EndTransaction, passes
  <1>3. CASE Operate \/ Release \/ Retain
    BY <1>1, <1>3 DEF Operate, PauseConsumer, ResumeConsumer, Replay, Release, Deploy,
       Retain, Purge, passes, rows
  <1>4. ASSUME NEW d \in Delivery, BackoffElapses(d) PROVE CandidateInv'
    BY <1>4 DEF BackoffElapses, passes, InTransaction
  <1>5. ASSUME NEW w \in Workers, Pass(w) PROVE CandidateInv'
    <2>1. CASE \E c \in Consumers : CheckPaused(w, c)
      BY <2>1 DEF CheckPaused, rows, InTransaction, TypeOK
    <2>2. CASE SelectSome(w)
      <3>1. PICK D \in SUBSET (Delivery \ backoff) :
              /\ batch' = [batch EXCEPT ![w] =
                              {[id |-> d, attemptCount |-> attempts[d]] : d \in D}]
              /\ pc' = [pc EXCEPT ![w] = "batch"]
              /\ UNCHANGED <<rows, cur>>
        BY <2>2 DEF SelectSome, Select, Heads, Pending
      <3>2. \A x \in batch'[w] :
              x.attemptCount = attempts[x.id] /\ attempts[x.id] \in Nat /\ x.id \notin backoff
        BY <3>1 DEF TypeOK
      <3>3. \A v \in Workers \ {w} : batch'[v] = batch[v]
        BY <3>1 DEF TypeOK
      <3>4. \A v \in Workers : InTransaction(v)' => InTransaction(v)
        BY <3>1 DEF InTransaction, TypeOK
      <3>5. QED
        BY <1>0, <3>1, <3>2, <3>3, <3>4 DEF rows
    <2>3. ASSUME NEW x \in batch[w], Claim(w, x) \/ NotClaimed(w, x) \/ Skip(w, x)
          PROVE  CandidateInv'
      <3>1. /\ UNCHANGED <<attempts, backoff>>
            /\ \A v \in Workers : batch'[v] \subseteq batch[v]
        BY <2>3 DEF Claim, NotClaimed, Skip, Drop, rows, TypeOK
      <3>2. \A v \in Workers : InTransaction(v)' => cur'[v] \notin backoff
        BY <1>0, <2>3 DEF Claim, Claimable, NotClaimed, Skip, InTransaction, TypeOK
      <3>3. QED
        BY <3>1, <3>2
    <2>4. CASE Handle(w) \/ Deliver(w) \/ Throw(w)
      BY <2>4 DEF Handle, Deliver, Throw, rows, InTransaction, TypeOK
    <2>5. CASE FinishBatch(w) \/ Crash(w)
      <3>1. /\ pc' = [pc EXCEPT ![w] = "idle"]
            /\ batch' = [batch EXCEPT ![w] = {}]
            /\ cur' = [cur EXCEPT ![w] = None]
            /\ UNCHANGED rows
        BY <2>5 DEF FinishBatch, Crash, Reset
      <3>2. /\ \A v \in Workers : batch'[v] \subseteq batch[v]
            /\ \A v \in Workers :
                 InTransaction(v)' => InTransaction(v) /\ cur'[v] = cur[v]
        BY <3>1 DEF InTransaction, TypeOK
      <3>3. QED
        BY <3>1, <3>2 DEF rows
    <2>6. ASSUME NEW r \in BOOLEAN, RecordFailure(w, r) PROVE CandidateInv'
      <3> DEFINE d == cur[w]
      <3>1. /\ d \in Delivery /\ ~Locked(d) /\ UNCHANGED batch
            /\ \A v \in Workers : InTransaction(v)' =>
                 InTransaction(v) /\ cur'[v] = cur[v] /\ cur[v] # d
        BY <2>6 DEF RecordFailure, Locked, LockInv, InTransaction, TypeOK
      <3>2. /\ backoff' \subseteq backoff \cup {d}
            /\ d \in backoff' => d \in backoff \/ attempts'[d] = attempts[d] + 1
            /\ attempts'[d] \in {attempts[d], attempts[d] + 1}
            /\ \A f \in Delivery \ {d} : attempts'[f] = attempts[f]
        BY <2>6, <3>1 DEF RecordFailure, TypeOK
      <3>3. attempts'[d] = attempts[d] => backoff' \subseteq backoff
        BY <2>6, <3>1 DEF RecordFailure, TypeOK
      <3>4. ASSUME NEW v \in Workers, NEW x \in batch'[v]
            PROVE  /\ x.attemptCount <= attempts'[x.id]
                   /\ x.attemptCount = attempts'[x.id] => x.id \notin backoff'
        <4>1. x \in batch[v] /\ x.id \in Delivery /\ x.attemptCount \in Nat
              /\ attempts[x.id] \in Nat
          BY <1>0, <3>1, <3>4
        <4>2. CASE x.id # d
          BY <3>2, <4>1, <4>2
        <4>3. CASE x.id = d
          BY <3>2, <3>3, <4>1, <4>3
        <4>4. QED
          BY <4>2, <4>3
      <3>5. BackoffRespected'
        BY <3>1, <3>2
      <3>6. QED
        BY <3>4, <3>5
    <2>7. QED
      BY <1>5, <2>1, <2>2, <2>3, <2>4, <2>5, <2>6 DEF Pass, Attempt, Fail
  <1>6. CASE UNCHANGED vars
    BY <1>1, <1>6 DEF vars, rows, passes
  <1>7. QED
    BY <1>2, <1>3, <1>4, <1>5, <1>6 DEF Next, Tick

(* No handler runs for a row that is backing off, however stale the         *)
(* candidates a pass works from.                                            *)
THEOREM BackoffCorrect == Spec => []BackoffRespected
  <1>1. Init => CandidateInv
    BY DEF Init, CandidateInv, BackoffRespected, InTransaction
  <1>2. CandidateInv => BackoffRespected
    BY DEF CandidateInv
  <1>3. QED
    BY Invariance, CandidateStep, <1>1, <1>2, PTL DEF Spec

-----------------------------------------------------------------------------
(* A pass settles one pending row, or none. *)
SettlesOne ==
    \E d \in Delivery :
      /\ status[d] = "pending"
      /\ \E s \in {"skipped", "delivered", "dead_letter"} :
           status' = [status EXCEPT ![d] = s]

LEMMA PassRows ==
  ASSUME Inv, NEW w \in Workers, Pass(w)
  PROVE  UNCHANGED status \/ SettlesOne
  <1>1. ASSUME NEW x \in batch[w], Skip(w, x) PROVE SettlesOne
    <2>1. x.id \in Delivery
      BY DEF Inv, TypeOK
    <2>2. status[x.id] = "pending" /\ status' = [status EXCEPT ![x.id] = "skipped"]
      BY <1>1 DEF Skip, Claimable
    <2>3. QED
      BY <2>1, <2>2 DEF SettlesOne
  <1>2. ASSUME Deliver(w) PROVE SettlesOne
    BY <1>2 DEF Deliver, Inv, LockInv, InTransaction, SettlesOne
  <1>3. ASSUME NEW r \in BOOLEAN, RecordFailure(w, r) PROVE UNCHANGED status \/ SettlesOne
    BY <1>3 DEF RecordFailure, Inv, LockInv, SettlesOne
  <1>4. ASSUME NEW x \in batch[w], Claim(w, x) \/ NotClaimed(w, x) PROVE UNCHANGED status
    BY <1>4 DEF Claim, NotClaimed, rows
  <1>5. ASSUME \/ \E c \in Consumers : CheckPaused(w, c)
               \/ SelectSome(w) \/ Handle(w) \/ Throw(w) \/ FinishBatch(w) \/ Crash(w)
        PROVE  UNCHANGED status
    BY <1>5 DEF CheckPaused, SelectSome, Select, Handle, Throw, FinishBatch, Crash, rows
  <1>6. ASSUME Attempt(w) PROVE UNCHANGED status \/ SettlesOne
    BY <1>1, <1>2, <1>4, <1>5, <1>6 DEF Attempt
  <1>7. ASSUME Fail(w) PROVE UNCHANGED status \/ SettlesOne
    BY <1>3, <1>5, <1>7 DEF Fail
  <1>8. QED
    BY <1>5, <1>6, <1>7 DEF Pass

LEMMA LineageStep == Inv /\ ReplayLineage /\ [Next]_vars => ReplayLineage'
  <1> SUFFICES ASSUME Inv, ReplayLineage, [Next]_vars PROVE ReplayLineage'
    OBVIOUS
  <1>1. \A d \in Delivery : status[d] = "dead_letter" => status'[d] = "dead_letter"
    BY StepFacts DEF Settled
  <1>2. ASSUME NEW d \in Delivery, Replay(d) PROVE ReplayLineage'
    <2>1. PICK r \in Delivery :
            /\ SamePair(r, d) /\ ~IsOriginal(r) /\ status[r] = "none"
            /\ status' = [status EXCEPT ![r] = "pending"]
            /\ replayOf' = [replayOf EXCEPT ![r] = d]
      BY <1>2 DEF Replay, FreshReplay
    <2>2. status[d] = "dead_letter"
      BY <1>2 DEF Replay
    <2>3. QED
      BY <2>1, <2>2 DEF ReplayLineage, SamePair, Inv, TypeOK
  <1>3. ASSUME NEW D \in SUBSET Delivery, Purge(D) PROVE ReplayLineage'
    BY <1>1, <1>3 DEF Purge, Purgeable, ReplayLineage, Inv, TypeOK
  <1>4. ASSUME UNCHANGED replayOf,
               \A d \in Delivery : ~IsOriginal(d) =>
                 /\ status[d] = "none" => status'[d] = "none"
                 /\ status[d] # "purged" => status'[d] # "purged"
        PROVE  ReplayLineage'
    BY <1>1, <1>4 DEF ReplayLineage, Inv, TypeOK
  <1>5. CASE Produce
    BY <1>4, <1>5 DEF Produce, Append, Commit, Rollback, EndTransaction, Inv, RowInv, TypeOK
  <1>6. ASSUME NEW c \in Consumers, NEW r \in Declarations,
               PauseConsumer(c) \/ ResumeConsumer(c) \/ Deploy(c, r)
        PROVE  ReplayLineage'
    BY <1>4, <1>6 DEF PauseConsumer, ResumeConsumer, Deploy, rows
  <1>7. ASSUME NEW d \in Delivery, BackoffElapses(d) PROVE ReplayLineage'
    BY <1>4, <1>7 DEF BackoffElapses
  <1>8. ASSUME NEW w \in Workers, Pass(w) PROVE ReplayLineage'
    <2>1. UNCHANGED replayOf
      BY <1>8 DEF Pass, Attempt, Fail, CheckPaused, SelectSome, Select, Claim, NotClaimed,
         Skip, Handle, Deliver, Throw, RecordFailure, FinishBatch, Crash, rows
    <2>2. \/ UNCHANGED status
          \/ \E d \in Delivery : /\ status[d] = "pending"
                                 /\ \E s \in {"skipped", "delivered", "dead_letter"} :
                                      status' = [status EXCEPT ![d] = s]
      BY <1>8, PassRows DEF SettlesOne
    <2>3. QED
      BY <1>4, <2>1, <2>2 DEF Inv, TypeOK
  <1>9. CASE UNCHANGED vars
    BY <1>4, <1>9 DEF vars, rows
  <1>10. QED
    BY <1>2, <1>3, <1>5, <1>6, <1>7, <1>8, <1>9
       DEF Next, Operate, Release, Retain, Tick, Declarations

(* A replay record never loses either of the rows it references: the purge  *)
(* and every late report leave the dead letter and its replays in place.    *)
THEOREM LineageCorrect == Spec => []ReplayLineage
  <1>1. Init => ReplayLineage
    BY DEF Init, ReplayLineage
  <1>2. QED
    BY Invariance, LineageStep, <1>1, PTL DEF Spec

-----------------------------------------------------------------------------
(* Order.  With one open producer per order key, an open event is the       *)
(* latest of its key: what it will publish can only queue behind the rest.  *)
SequenceInv ==
    /\ \A e \in Events : event[e] # "none" => seq[e] <= lastSeq
    /\ \A e, f \in Events :
         /\ event[e] = "open" /\ event[f] # "none"
         /\ e # f /\ KeyOf[e] = KeyOf[f]
         => seq[f] < seq[e]

NoneAhead(d) ==
    /\ event[Ev(d)] = "committed"
    /\ \A f \in Delivery :
         IsOriginal(f) /\ Co(f) = Co(d) /\ Key(f) = Key(d) /\ seq[Ev(f)] < seq[Ev(d)]
           => status[f] # "pending"

OrderInv ==
    /\ \A w \in Workers : \A x \in batch[w] : NoneAhead(x.id)
    /\ \A w \in Workers : InTransaction(w) => NoneAhead(cur[w])
    /\ \A d \in Delivery : status[d] = "delivered" => NoneAhead(d)

LEMMA SequenceStep ==
  ASSUME Inv, SequenceInv, SerialProducers, [Next]_vars
  PROVE  SequenceInv'
  <1> USE DEF Inv, SequenceInv
  <1>1. ASSUME NEW e \in Events, Append(e) PROVE SequenceInv'
    <2>1. \A f \in Events \ {e} : event'[f] = event[f] /\ seq'[f] = seq[f] /\ seq[f] \in Nat
      BY <1>1 DEF Append, TypeOK
    <2>2. event'[e] = "open" /\ seq'[e] = lastSeq + 1 /\ lastSeq' = lastSeq + 1 /\ lastSeq \in Nat
      BY <1>1 DEF Append, TypeOK
    <2>3. \A f \in Events : KeyOf[f] = KeyOf[e] => event[f] # "open"
      BY <1>1 DEF Append
    <2>4. QED
      BY <2>1, <2>2, <2>3
  <1>2. ASSUME NEW e \in Events, Commit(e) \/ Rollback(e) PROVE SequenceInv'
    BY <1>2 DEF Commit, Rollback, EndTransaction, TypeOK
  <1>3. ASSUME UNCHANGED outbox PROVE SequenceInv'
    BY <1>3 DEF outbox
  <1>4. CASE Operate \/ Release \/ Retain \/ Tick
    BY <1>3, <1>4 DEF Operate, PauseConsumer, ResumeConsumer, Replay, Release, Deploy,
       Retain, Purge, Tick, BackoffElapses
  <1>5. ASSUME NEW w \in Workers, Pass(w) PROVE UNCHANGED outbox
    BY <1>5 DEF Pass, Attempt, Fail, CheckPaused, SelectSome, Select, Claim, NotClaimed,
       Skip, Handle, Deliver, Throw, RecordFailure, FinishBatch, Crash
  <1>6. CASE UNCHANGED vars
    BY <1>3, <1>6 DEF vars
  <1>7. QED
    BY <1>1, <1>2, <1>3, <1>4, <1>5, <1>6 DEF Next, Produce

(* Nothing gets ahead of a row that had nothing ahead of it. *)
LEMMA NoneAheadKept ==
  ASSUME Inv, SequenceInv, [Next]_vars, NEW d \in Delivery, NoneAhead(d)
  PROVE  NoneAhead(d)'
  <1>1. event'[Ev(d)] = "committed" /\ seq'[Ev(d)] = seq[Ev(d)] /\ Ev(d) \in Events
    BY StepFacts, PairInPairs DEF NoneAhead
  <1>2. SUFFICES ASSUME NEW f \in Delivery,
                        IsOriginal(f), Co(f) = Co(d), Key(f) = Key(d),
                        seq'[Ev(f)] < seq'[Ev(d)], status'[f] = "pending"
                 PROVE  FALSE
    BY <1>1 DEF NoneAhead, Key
  <1>3. status[f] = "pending" \/ status[f] = "uncommitted"
    BY <1>2, StepFacts
  <1>4. Ev(f) \in Events /\ event[Ev(f)] # "none"
    BY <1>3, PairInPairs DEF Inv, RowInv
  <1>5. seq'[Ev(f)] = seq[Ev(f)]
    BY <1>4, StepFacts
  <1>6. status[f] = "uncommitted" /\ event[Ev(f)] = "open"
    BY <1>1, <1>2, <1>3, <1>5 DEF NoneAhead, Inv, RowInv
  <1>7. Ev(f) # Ev(d) /\ KeyOf[Ev(f)] = KeyOf[Ev(d)] /\ event[Ev(d)] = "committed"
    BY <1>2, <1>6 DEF NoneAhead, Key
  <1>8. seq[Ev(d)] < seq[Ev(f)]
    BY <1>1, <1>4, <1>6, <1>7 DEF SequenceInv
  <1>9. QED
    BY <1>1, <1>2, <1>4, <1>5, <1>8 DEF Inv, TypeOK

(* What a step adds to the batches, the open transactions and the delivered *)
(* rows comes from the previous stage; a selection takes heads of line.     *)
LEMMA OrderStep ==
  ASSUME Inv, SequenceInv, OrderInv, [Next]_vars
  PROVE  OrderInv'
  <1> USE DEF Inv
  <1>0. \A w \in Workers : \A x \in batch[w] : x.id \in Delivery
    BY DEF TypeOK
  <1>1. ASSUME \A w \in Workers : batch'[w] \subseteq batch[w],
               \A w \in Workers : InTransaction(w)' =>
                 \/ InTransaction(w) /\ cur'[w] = cur[w]
                 \/ \E x \in batch[w] : cur'[w] = x.id,
               \A d \in Delivery : status'[d] = "delivered" =>
                 \/ status[d] = "delivered"
                 \/ \E w \in Workers : InTransaction(w) /\ cur[w] = d
        PROVE  OrderInv'
    <2>1. \A w \in Workers : \A x \in batch'[w] : NoneAhead(x.id)'
      BY <1>0, <1>1, NoneAheadKept DEF OrderInv
    <2>2. \A w \in Workers : InTransaction(w)' =>
             cur'[w] \in Delivery /\ NoneAhead(cur'[w])
      BY <1>0, <1>1 DEF OrderInv, LockInv, InTransaction
    <2>3. \A w \in Workers : InTransaction(w)' => NoneAhead(cur[w])'
      <3>1. SUFFICES ASSUME NEW w \in Workers, InTransaction(w)' PROVE NoneAhead(cur[w])'
        OBVIOUS
      <3>2. PICK d \in Delivery : d = cur'[w] /\ NoneAhead(d)
        BY <2>2, <3>1
      <3>3. NoneAhead(d)'
        BY <3>2, NoneAheadKept
      <3>4. QED
        BY <3>2, <3>3 DEF NoneAhead
    <2>4. \A d \in Delivery : status'[d] = "delivered" => NoneAhead(d)'
      BY <1>1, NoneAheadKept DEF OrderInv
    <2>5. QED
      BY <2>1, <2>3, <2>4 DEF OrderInv
  <1>2. CASE Produce
    BY <1>1, <1>2 DEF Produce, Append, Commit, Rollback, EndTransaction, passes,
       InTransaction, TypeOK
  <1>3. CASE Operate \/ Release \/ Retain \/ Tick
    BY <1>1, <1>3 DEF Operate, PauseConsumer, ResumeConsumer, Replay, Release, Deploy,
       Retain, Purge, Tick, BackoffElapses, passes, rows, InTransaction, TypeOK
  <1>4. ASSUME NEW w \in Workers, Pass(w) PROVE OrderInv'
    <2>1. CASE SelectSome(w)
      <3>1. PICK D \in SUBSET Heads(serving[w]) :
              /\ batch' = [batch EXCEPT ![w] =
                              {[id |-> d, attemptCount |-> attempts[d]] : d \in D}]
              /\ pc' = [pc EXCEPT ![w] = "batch"]
              /\ UNCHANGED <<outbox, rows, cur>>
        BY <2>1 DEF SelectSome, Select
      <3>2. \A d \in D : d \in Delivery /\ NoneAhead(d)
        BY PairInPairs DEF Heads, Pending, NoneAhead, RowInv, Key, TypeOK
      <3>3. \A d \in D : NoneAhead(d)'
        BY <3>2, NoneAheadKept
      <3>4. \A x \in batch'[w] : NoneAhead(x.id)'
        BY <3>1, <3>3 DEF TypeOK
      <3>5. \A v \in Workers \ {w} : \A x \in batch'[v] : NoneAhead(x.id)'
        BY <1>0, <3>1, NoneAheadKept DEF OrderInv, TypeOK
      <3>6. \A v \in Workers : InTransaction(v)' => NoneAhead(cur[v])'
        BY <3>1 DEF OrderInv, NoneAhead, InTransaction, TypeOK, rows, outbox
      <3>7. \A d \in Delivery : status'[d] = "delivered" => NoneAhead(d)'
        BY <3>1, NoneAheadKept DEF OrderInv, rows
      <3>8. QED
        BY <3>4, <3>5, <3>6, <3>7 DEF OrderInv
    <2>2. CASE \E c \in Consumers : CheckPaused(w, c)
      BY <1>1, <2>2 DEF CheckPaused, rows, InTransaction, TypeOK
    <2>3. ASSUME NEW x \in batch[w], Claim(w, x) \/ NotClaimed(w, x) \/ Skip(w, x)
          PROVE  OrderInv'
      <3>1. \A v \in Workers : batch'[v] \subseteq batch[v]
        BY <2>3 DEF Claim, NotClaimed, Skip, Drop, TypeOK
      <3>2. \A v \in Workers : InTransaction(v)' =>
              \/ InTransaction(v) /\ cur'[v] = cur[v]
              \/ \E y \in batch[v] : cur'[v] = y.id
        BY <2>3 DEF Claim, NotClaimed, Skip, InTransaction, TypeOK
      <3>3. \A d \in Delivery : status'[d] = "delivered" => status[d] = "delivered"
        BY <2>3 DEF Claim, NotClaimed, Skip, rows, TypeOK
      <3>4. QED
        BY <1>1, <3>1, <3>2, <3>3
    <2>4. CASE Handle(w) \/ Throw(w)
      BY <1>1, <2>4 DEF Handle, Throw, rows, InTransaction, TypeOK
    <2>5. CASE Deliver(w)
      BY <1>1, <2>5 DEF Deliver, InTransaction, TypeOK
    <2>6. CASE FinishBatch(w) \/ Crash(w)
      <3>1. /\ pc' = [pc EXCEPT ![w] = "idle"]
            /\ batch' = [batch EXCEPT ![w] = {}]
            /\ cur' = [cur EXCEPT ![w] = None]
            /\ UNCHANGED rows
        BY <2>6 DEF FinishBatch, Crash, Reset
      <3>2. QED
        BY <1>1, <3>1 DEF InTransaction, TypeOK, rows
    <2>7. ASSUME NEW r \in BOOLEAN, RecordFailure(w, r) PROVE OrderInv'
      BY <1>1, <2>7 DEF RecordFailure, InTransaction, TypeOK
    <2>8. QED
      BY <1>4, <2>1, <2>2, <2>3, <2>4, <2>5, <2>6, <2>7 DEF Pass, Attempt, Fail
  <1>5. CASE UNCHANGED vars
    BY <1>1, <1>5 DEF vars, rows, passes, InTransaction
  <1>6. QED
    BY <1>2, <1>3, <1>4, <1>5 DEF Next

(* When the producers of an order key are serialised by a common row lock,  *)
(* no event is delivered to a consumer while an earlier one of its key is   *)
(* still pending for it.                                                    *)
THEOREM OrderCorrect ==
  ASSUME SerialProducers
  PROVE  Spec => []OrderPerKey
  <1>1. Init => SequenceInv /\ OrderInv
    BY DEF Init, SequenceInv, OrderInv, InTransaction
  <1>2. Inv /\ SequenceInv /\ OrderInv /\ [Next]_vars => (SequenceInv /\ OrderInv)'
    BY SequenceStep, OrderStep
  <1>3. OrderInv => OrderPerKey
    BY DEF OrderInv, OrderPerKey, NoneAhead
  <1>4. QED
    BY Invariance, <1>1, <1>2, <1>3, PTL DEF Spec

-----------------------------------------------------------------------------
(* The runtime implements EffectOnce: Commit publishes, Deliver applies (or *)
(* stutters when the marker was already there), all else stutters.          *)
THEOREM Refinement == Spec => ImplementsEffectOnce
  <1>1. Init => Promise!Init
    BY DEF Init, Promise!Init, Published
  <1>2. Inv /\ [Next]_vars => [Promise!Next]_<<Published, applied>>
    <2> SUFFICES ASSUME Inv, [Next]_vars
                 PROVE  Promise!Next \/ UNCHANGED <<Published, applied>>
      OBVIOUS
    <2> USE DEF Inv
    <2>1. ASSUME UNCHANGED <<event, applied>> PROVE UNCHANGED <<Published, applied>>
      BY <2>1 DEF Published
    <2>2. ASSUME NEW e \in Events, Append(e) \/ Rollback(e)
          PROVE  UNCHANGED <<Published, applied>>
      BY <2>2 DEF Append, Rollback, EndTransaction, Published, ledger, TypeOK
    <2>3. ASSUME NEW e \in Events, Commit(e) PROVE Promise!Publish(e)
      BY <2>3 DEF Commit, EndTransaction, Published, ledger, TypeOK, Promise!Publish
    <2>4. CASE Operate \/ Release \/ Retain \/ Tick
      BY <2>1, <2>4 DEF Operate, PauseConsumer, ResumeConsumer, Replay, Release, Deploy,
         Retain, Purge, Tick, BackoffElapses, outbox, ledger
    <2>5. ASSUME NEW w \in Workers, Deliver(w)
          PROVE  \/ Promise!Apply(Ev(cur[w]), Co(cur[w]))
                 \/ UNCHANGED <<Published, applied>>
      <3> DEFINE d == cur[w]
      <3>1. /\ d \in Delivery /\ event[Ev(d)] = "committed"
            /\ PairOf(d) \in Events \X Consumers
        BY <2>5, PairInPairs DEF Deliver, LockInv, RowInv, InTransaction
      <3>2. UNCHANGED Published
        BY <2>5 DEF Deliver, Published, outbox
      <3>3. CASE ~inserted[w]
        BY <2>5, <3>2, <3>3 DEF Deliver, ledger
      <3>4. CASE inserted[w]
        <4>1. applied[PairOf(d)] = 0
          BY <3>1, <3>4 DEF MarkerInv, AppliedInv
        <4>2. applied' = [applied EXCEPT ![PairOf(d)] = 1]
          BY <2>5, <3>1, <3>4, <4>1 DEF Deliver, PairOf, TypeOK
        <4>3. Ev(d) \in Published
          BY <3>1, PairInPairs DEF Published
        <4>4. QED
          BY <3>2, <4>1, <4>2, <4>3 DEF Promise!Apply, PairOf
      <3>5. QED
        BY <3>3, <3>4
    <2>6. ASSUME NEW w \in Workers, Pass(w), ~Deliver(w)
          PROVE  UNCHANGED <<Published, applied>>
      BY <2>1, <2>6 DEF Pass, Attempt, Fail, CheckPaused, SelectSome, Select, Claim,
         NotClaimed, Skip, Handle, Throw, RecordFailure, FinishBatch, Crash, outbox, ledger
    <2>7. CASE UNCHANGED vars
      BY <2>1, <2>7 DEF vars, outbox, ledger
    <2>8. ASSUME NEW w \in Workers, Deliver(w)
          PROVE  Promise!Next \/ UNCHANGED <<Published, applied>>
      <3>1. cur[w] \in Delivery
        BY <2>8 DEF Deliver, LockInv
      <3>2. QED
        BY <2>5, <2>8, <3>1, PairInPairs DEF Promise!Next
    <2>9. QED
      BY <2>2, <2>3, <2>4, <2>6, <2>7, <2>8 DEF Next, Produce, Promise!Next
  <1>3. QED
    BY Invariance, <1>1, <1>2, PTL DEF Spec, ImplementsEffectOnce, Promise!Spec
=============================================================================
