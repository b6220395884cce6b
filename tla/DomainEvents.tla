---------------------------- MODULE DomainEvents ----------------------------
(***************************************************************************)
(* The domain-event runtime: a transactional outbox and its dispatcher     *)
(* (apps/cms/src/modules/domain-event-runtime).                            *)
(*                                                                         *)
(* Producers append an event and one delivery row per subscribed consumer  *)
(* inside their own business transaction.  Dispatcher passes (Workers)     *)
(* then claim, execute and finalize one delivery at a time, each in one    *)
(* transaction; a failure is recorded in a second transaction after the    *)
(* first has rolled back.  Operators pause consumers and replay dead       *)
(* letters; a retention purge removes settled rows.                        *)
(*                                                                         *)
(* One tenant: every statement carries the tenant id and row-level         *)
(* security isolates tenants, so no statement reads another tenant's rows. *)
(***************************************************************************)
EXTENDS Integers, FiniteSets

CONSTANTS
    Events,        \* the events producers may publish
    Keys,          \* order keys
    KeyOf,         \* the order key of each event
    Consumers,     \* consumers subscribed to the events' type
    Workers,       \* dispatcher passes that may run at the same time
    MaxAttempts,   \* max_attempts of a delivery row
    Limit,         \* deliveries one pass selects per consumer
    None,          \* no row, no consumer
    MaxReplays,    \* bound: replays per (event, consumer)
    MaxCrashes,    \* bound: dispatcher crashes
    MaxPauses,     \* bound: times an operator pauses a consumer
    MaxDeploys,    \* bound: deployments that change a consumer's declaration
    SerialProducers \* TRUE: producers of one order key hold a common row lock until they commit

Delivery == Events \X Consumers \X (0 .. MaxReplays)
Declarations == {"supports", "other_version", "removed"}

ASSUME KeysAssumption == KeyOf \in [Events -> Keys]
ASSUME AttemptsAssumption == MaxAttempts \in Nat \ {0}
ASSUME LimitAssumption == Limit \in Nat \ {0}
ASSUME BoundsAssumption ==
    /\ MaxReplays \in Nat /\ MaxCrashes \in Nat
    /\ MaxPauses \in Nat /\ MaxDeploys \in Nat
ASSUME SerialAssumption == SerialProducers \in BOOLEAN
ASSUME NoneAssumption == None \notin Delivery \cup Consumers

Ev(d) == d[1]
Co(d) == d[2]
IsOriginal(d) == d[3] = 0      \* replay_of_delivery_id IS NULL
SamePair(d, f) == Ev(d) = Ev(f) /\ Co(d) = Co(f)

VARIABLES
    event,      \* none | open (inserted, not committed) | committed | rolled_back
    seq,        \* event_sequence, assigned when the row is inserted
    lastSeq,    \* the identity column's counter
    status,     \* the delivery rows; "uncommitted" rows are invisible to others
    attempts,   \* attempt_count
    backoff,    \* pending rows whose next_attempt_at lies in the future
    replayOf,   \* replay_of_delivery_id
    effects,    \* awcms_domain_event_consumer_effects: (event, consumer) pairs
    applied,    \* how often the side effect of (event, consumer) has been committed
    paused,     \* consumers paused by an operator
    declared,   \* what the deployed code declares about each consumer
    pc,         \* where each dispatcher pass is
    serving,    \* the consumer the pass is working on
    code,       \* the declaration that pass runs with
    batch,      \* its candidates: [id, attemptCount], read in an earlier transaction
    cur,        \* the row its open transaction has locked, or whose failure it owes
    inserted,   \* its open transaction inserted the effect marker
    crashes, pauses, deploys   \* counters of the bounded environment

outbox  == <<event, seq, lastSeq>>
rows    == <<status, attempts, backoff, replayOf>>
ledger  == <<effects, applied>>
control == <<paused, declared, pauses, deploys>>
passes  == <<pc, serving, code, batch, cur, inserted, crashes>>
vars    == <<outbox, rows, ledger, control, passes>>

Statuses == {"none", "uncommitted", "pending", "delivered", "skipped",
             "dead_letter", "purged"}
Settled  == {"delivered", "skipped"}
Phases   == {"idle", "checked", "batch", "claimed", "handled", "failed"}

TypeOK ==
    /\ event \in [Events -> {"none", "open", "committed", "rolled_back"}]
    /\ seq \in [Events -> Nat] /\ lastSeq \in Nat
    /\ status \in [Delivery -> Statuses]
    /\ attempts \in [Delivery -> 0 .. MaxAttempts]
    /\ backoff \subseteq Delivery
    /\ replayOf \in [Delivery -> Delivery \cup {None}]
    /\ effects \subseteq Events \X Consumers
    /\ applied \in [Events \X Consumers -> Nat]
    /\ paused \subseteq Consumers
    /\ declared \in [Consumers -> Declarations]
    /\ pc \in [Workers -> Phases]
    /\ serving \in [Workers -> Consumers \cup {None}]
    /\ code \in [Workers -> Declarations]
    /\ batch \in [Workers -> SUBSET [id : Delivery, attemptCount : 0 .. MaxAttempts]]
    /\ cur \in [Workers -> Delivery \cup {None}]
    /\ inserted \in [Workers -> BOOLEAN]
    /\ crashes \in 0 .. MaxCrashes /\ pauses \in 0 .. MaxPauses
    /\ deploys \in 0 .. MaxDeploys

Init ==
    /\ event = [e \in Events |-> "none"]
    /\ seq = [e \in Events |-> 0] /\ lastSeq = 0
    /\ status = [d \in Delivery |-> "none"]
    /\ attempts = [d \in Delivery |-> 0]
    /\ backoff = {}
    /\ replayOf = [d \in Delivery |-> None]
    /\ effects = {} /\ applied = [p \in Events \X Consumers |-> 0]
    /\ paused = {} /\ declared = [c \in Consumers |-> "supports"]
    /\ pc = [w \in Workers |-> "idle"]
    /\ serving = [w \in Workers |-> None] /\ code = [w \in Workers |-> "removed"]
    /\ batch = [w \in Workers |-> {}] /\ cur = [w \in Workers |-> None]
    /\ inserted = [w \in Workers |-> FALSE]
    /\ crashes = 0 /\ pauses = 0 /\ deploys = 0

-----------------------------------------------------------------------------
(* Producers *)

(* appendDomainEvent inside the producer's transaction: the event takes its *)
(* sequence number now, its rows become visible only at commit.  A consumer *)
(* whose declaration does not support the version gets no row.              *)
Append(e) ==
    /\ event[e] = "none"
    /\ SerialProducers =>
         \A f \in Events : KeyOf[f] = KeyOf[e] => event[f] # "open"
    /\ event' = [event EXCEPT ![e] = "open"]
    /\ lastSeq' = lastSeq + 1
    /\ seq' = [seq EXCEPT ![e] = lastSeq + 1]
    /\ status' = [d \in Delivery |->
                    IF Ev(d) = e /\ IsOriginal(d) /\ declared[Co(d)] = "supports"
                    THEN "uncommitted" ELSE status[d]]
    /\ UNCHANGED <<attempts, backoff, replayOf, ledger, control, passes>>

(* The producer's transaction ends: all its rows appear, or none does. *)
EndTransaction(e, outcome, rowStatus) ==
    /\ event[e] = "open"
    /\ event' = [event EXCEPT ![e] = outcome]
    /\ status' = [d \in Delivery |->
                    IF Ev(d) = e /\ status[d] = "uncommitted"
                    THEN rowStatus ELSE status[d]]
    /\ UNCHANGED <<seq, lastSeq, attempts, backoff, replayOf, ledger, control, passes>>

Commit(e)   == EndTransaction(e, "committed", "pending")
Rollback(e) == EndTransaction(e, "rolled_back", "none")

-----------------------------------------------------------------------------
(* Operators, deployments, time *)

PauseConsumer(c) ==
    /\ declared[c] # "removed" /\ c \notin paused /\ pauses < MaxPauses
    /\ paused' = paused \cup {c} /\ pauses' = pauses + 1
    /\ UNCHANGED <<outbox, rows, ledger, declared, deploys, passes>>

ResumeConsumer(c) ==
    /\ declared[c] # "removed" /\ c \in paused
    /\ paused' = paused \ {c}
    /\ UNCHANGED <<outbox, rows, ledger, declared, pauses, deploys, passes>>

(* A release changes what the code declares for a consumer; passes already *)
(* running keep the code they started with.                                *)
Deploy(c, declaration) ==
    /\ declaration # declared[c] /\ deploys < MaxDeploys
    /\ declared' = [declared EXCEPT ![c] = declaration]
    /\ deploys' = deploys + 1
    /\ UNCHANGED <<outbox, rows, ledger, paused, pauses, passes>>

(* The clock passes next_attempt_at. *)
BackoffElapses(d) ==
    /\ d \in backoff
    /\ backoff' = backoff \ {d}
    /\ UNCHANGED <<outbox, status, attempts, replayOf, ledger, control, passes>>

(* The highest replay row of the pair is not taken yet. *)
FreshReplay(d, r) ==
    /\ SamePair(r, d) /\ ~IsOriginal(r) /\ status[r] = "none"
    /\ \A f \in Delivery : SamePair(f, d) /\ ~IsOriginal(f) /\ f[3] < r[3]
                             => status[f] # "none"

(* replayDomainEventDelivery: a new pending row next to the dead letter, *)
(* which itself stays as it is.                                          *)
Replay(d) ==
    /\ status[d] = "dead_letter"
    /\ declared[Co(d)] = "supports"
    /\ \E r \in Delivery :
         /\ FreshReplay(d, r)
         /\ status' = [status EXCEPT ![r] = "pending"]
         /\ replayOf' = [replayOf EXCEPT ![r] = d]
    /\ UNCHANGED <<outbox, attempts, backoff, ledger, control, passes>>

(* Rows the purge may delete: settled, in no replay record, nobody's parent. *)
Purgeable(d) ==
    /\ status[d] \in Settled
    /\ IsOriginal(d)
    /\ \A f \in Delivery : replayOf[f] # d

(* purgeSettledDeliveries: one DELETE of the purgeable rows older than the *)
(* cutoff, up to the batch limit (age and limit leave any subset open; a   *)
(* legal hold leaves all of them).                                         *)
Purge(D) ==
    /\ D # {} /\ \A d \in D : Purgeable(d)
    /\ status' = [d \in Delivery |-> IF d \in D THEN "purged" ELSE status[d]]
    /\ UNCHANGED <<outbox, attempts, backoff, replayOf, ledger, control, passes>>

-----------------------------------------------------------------------------
(* A dispatcher pass *)

InTransaction(w) == pc[w] \in {"claimed", "handled"}
Locked(d) == \E w \in Workers : InTransaction(w) /\ cur[w] = d

(* dispatchDomainEventsForTenant reaches consumer c: the pause flag is read *)
(* here, once, in a transaction of its own.                                 *)
CheckPaused(w, c) ==
    /\ pc[w] = "idle"
    /\ declared[c] # "removed" /\ c \notin paused
    /\ pc' = [pc EXCEPT ![w] = "checked"]
    /\ serving' = [serving EXCEPT ![w] = c]
    /\ code' = [code EXCEPT ![w] = declared[c]]
    /\ UNCHANGED <<outbox, rows, ledger, control, batch, cur, inserted, crashes>>

Key(d) == KeyOf[Ev(d)]
Pending(c) == {d \in Delivery : Co(d) = c /\ status[d] = "pending"}

(* Mutant of Heads: rows that back off are filtered before the head is taken. *)
HeadsOfDue(c) ==
    {d \in Pending(c) \ backoff :
       \A f \in Pending(c) \ backoff : Key(f) = Key(d) => seq[Ev(d)] <= seq[Ev(f)]}

(* DISTINCT ON (order_key) ... ORDER BY order_key, event_sequence: one row *)
(* per key, of the lowest sequence (an original and its replays share it). *)
Heads(c) ==
    {d \in Pending(c) :
       \A f \in Pending(c) : Key(f) = Key(d) => seq[Ev(d)] <= seq[Ev(f)]}
OnePerKey(H, c) ==
    /\ \A d, f \in H : Key(d) = Key(f) => d = f
    /\ \A f \in Heads(c) : \E d \in H : Key(d) = Key(f)

(* Mutant of IsSelection: only rows whose next_attempt_at is NULL. *)
FreshSelection(D, due) == D = {d \in due : attempts[d] = 0}

(* WHERE due ORDER BY next_attempt_at NULLS FIRST LIMIT: only now are the *)
(* heads that back off left out, so nothing behind them is selected.      *)
IsSelection(D, due) ==
    /\ Cardinality(D) = IF Cardinality(due) < Limit
                        THEN Cardinality(due) ELSE Limit
    /\ \A d \in D, f \in due \ D : attempts[f] = 0 => attempts[d] = 0

Select(w, H, D) ==
    /\ pc[w] = "checked"
    /\ OnePerKey(H, serving[w])
    /\ IsSelection(D, H \ backoff)
    /\ batch' = [batch EXCEPT ![w] = {[id |-> d, attemptCount |-> attempts[d]] : d \in D}]
    /\ pc' = [pc EXCEPT ![w] = "batch"]
    /\ UNCHANGED <<outbox, rows, ledger, control, serving, code, cur, inserted, crashes>>

SelectSome(w) ==
    \E H \in SUBSET Heads(serving[w]) : \E D \in SUBSET (H \ backoff) : Select(w, H, D)

Drop(w, x) == batch' = [batch EXCEPT ![w] = @ \ {x}]

Claimable(x) == status[x.id] = "pending" /\ attempts[x.id] = x.attemptCount

(* SELECT ... FOR UPDATE of the candidate: it waits for a row another     *)
(* transaction has locked, then looks at the row again.                   *)
Claim(w, x) ==
    /\ pc[w] = "batch" /\ x \in batch[w] /\ ~Locked(x.id)
    /\ Claimable(x) /\ code[w] = "supports"
    /\ pc' = [pc EXCEPT ![w] = "claimed"]
    /\ cur' = [cur EXCEPT ![w] = x.id]
    /\ Drop(w, x)
    /\ UNCHANGED <<outbox, rows, ledger, control, serving, code, inserted, crashes>>

NotClaimed(w, x) ==
    /\ pc[w] = "batch" /\ x \in batch[w] /\ ~Locked(x.id)
    /\ ~Claimable(x)
    /\ Drop(w, x)
    /\ UNCHANGED <<outbox, rows, ledger, control, pc, serving, code, cur, inserted, crashes>>

Skip(w, x) ==
    /\ pc[w] = "batch" /\ x \in batch[w] /\ ~Locked(x.id)
    /\ Claimable(x) /\ code[w] # "supports"
    /\ status' = [status EXCEPT ![x.id] = "skipped"]
    /\ Drop(w, x)
    /\ UNCHANGED <<outbox, attempts, backoff, replayOf, ledger, control,
                   pc, serving, code, cur, inserted, crashes>>

(* Mutant of MarkerPending: the marker is looked up, not inserted under a   *)
(* unique index, so nobody waits.                                           *)
NobodyWaits(w, d) == FALSE

(* Another open transaction has inserted the effect marker of d's pair: *)
(* INSERT ... ON CONFLICT waits for it to end.                          *)
MarkerPending(w, d) ==
    \E v \in Workers \ {w} : inserted[v] /\ SamePair(cur[v], d)

(* Mutant of Handle: the side effect runs whether or not the marker was new. *)
HandleUnguarded(w) ==
    /\ pc[w] = "claimed"
    /\ ~MarkerPending(w, cur[w])
    /\ pc' = [pc EXCEPT ![w] = "handled"]
    /\ inserted' = [inserted EXCEPT ![w] = TRUE]
    /\ UNCHANGED <<outbox, rows, ledger, control, serving, code, batch, cur, crashes>>

(* The consumer's handler, wrapped in applyConsumerEffectOnce. *)
Handle(w) ==
    /\ pc[w] = "claimed"
    /\ ~MarkerPending(w, cur[w])
    /\ pc' = [pc EXCEPT ![w] = "handled"]
    /\ inserted' = [inserted EXCEPT
                      ![w] = <<Ev(cur[w]), Co(cur[w])>> \notin effects]
    /\ UNCHANGED <<outbox, rows, ledger, control, serving, code, batch, cur, crashes>>

(* status = 'delivered' and COMMIT: the marker, the side effect and the *)
(* row's status become durable together.                                *)
Deliver(w) ==
    /\ pc[w] = "handled"
    /\ status' = [status EXCEPT ![cur[w]] = "delivered"]
    /\ LET p == <<Ev(cur[w]), Co(cur[w])>> IN
       IF inserted[w]
       THEN /\ effects' = effects \cup {p}
            /\ applied' = [applied EXCEPT ![p] = @ + 1]
       ELSE UNCHANGED ledger
    /\ pc' = [pc EXCEPT ![w] = "batch"]
    /\ cur' = [cur EXCEPT ![w] = None]
    /\ inserted' = [inserted EXCEPT ![w] = FALSE]
    /\ UNCHANGED <<outbox, attempts, backoff, replayOf, control, serving, code, batch, crashes>>

(* The handler, or the finalizing UPDATE or COMMIT, throws: everything the *)
(* transaction did is rolled back and its locks are gone.                  *)
Throw(w) ==
    /\ InTransaction(w)
    /\ pc' = [pc EXCEPT ![w] = "failed"]
    /\ inserted' = [inserted EXCEPT ![w] = FALSE]
    /\ UNCHANGED <<outbox, rows, ledger, control, serving, code, batch, cur, crashes>>

(* evaluateDomainEventDeliveryRetry *)
RetryEligible(retryable, attemptCount) == retryable /\ attemptCount < MaxAttempts

(* recordDeliveryFailure, a transaction of its own: only a row that is still *)
(* pending is touched, whatever its attempt_count is by now.                 *)
RecordFailure(w, retryable) ==
    /\ pc[w] = "failed" /\ ~Locked(cur[w])
    /\ LET d == cur[w] IN
       IF status[d] = "pending"
       THEN /\ attempts' = [attempts EXCEPT ![d] = @ + 1]
            /\ IF RetryEligible(retryable, attempts[d] + 1)
               THEN /\ backoff' = backoff \cup {d} /\ UNCHANGED status
               ELSE /\ status' = [status EXCEPT ![d] = "dead_letter"]
                    /\ backoff' = backoff \ {d}
       ELSE UNCHANGED <<status, attempts, backoff>>
    /\ pc' = [pc EXCEPT ![w] = "batch"]
    /\ cur' = [cur EXCEPT ![w] = None]
    /\ UNCHANGED <<outbox, replayOf, ledger, control, serving, code, batch, inserted, crashes>>

Reset(w) ==
    /\ pc' = [pc EXCEPT ![w] = "idle"]
    /\ serving' = [serving EXCEPT ![w] = None]
    /\ code' = [code EXCEPT ![w] = "removed"]
    /\ batch' = [batch EXCEPT ![w] = {}]
    /\ cur' = [cur EXCEPT ![w] = None]
    /\ inserted' = [inserted EXCEPT ![w] = FALSE]

(* The batch is empty: on to the next consumer, or the next pass. *)
FinishBatch(w) ==
    /\ pc[w] = "batch" /\ batch[w] = {}
    /\ Reset(w)
    /\ UNCHANGED <<outbox, rows, ledger, control, crashes>>

(* The process dies, or the database connection does, between or inside  *)
(* transactions: an open one rolls back, a failure it owed is forgotten. *)
Crash(w) ==
    /\ pc[w] # "idle" /\ crashes < MaxCrashes
    /\ Reset(w)
    /\ crashes' = crashes + 1
    /\ UNCHANGED <<outbox, rows, ledger, control>>

-----------------------------------------------------------------------------
(* Properties *)

(* At-least-once dispatch must not become at-least-once effect: however     *)
(* often a row is retried, replayed, raced for by two passes or cut off by  *)
(* a crash, the side effect of an (event, consumer) pair is committed at    *)
(* most once; it has been when some row of the pair reads 'delivered', and  *)
(* only then (consumer-effect.ts, processOneDelivery).                      *)
EffectExactlyOnce ==
    /\ \A p \in Events \X Consumers : applied[p] <= 1
    /\ \A d \in Delivery :
         status[d] = "delivered" => applied[<<Ev(d), Co(d)>>] = 1
    /\ \A p \in Events \X Consumers :
         applied[p] = 1 => \E d \in Delivery :
           p = <<Ev(d), Co(d)>> /\ status[d] \in {"delivered", "purged"}

(* No handler runs for a row that is backing off, although a pass acts on   *)
(* candidates it read in an earlier transaction and another pass may have   *)
(* failed on the same row since (the attempt_count guard of                 *)
(* processOneDelivery and the row lock of recordDeliveryFailure).           *)
BackoffRespected ==
    \A w \in Workers : InTransaction(w) => cur[w] \notin backoff

(* "Ordering per declared aggregate/order key": an event is not delivered   *)
(* to a consumer while an earlier event of its key is still pending for     *)
(* that consumer (selectHeadOfLineDeliveries).                              *)
OrderPerKey ==
    \A d, f \in Delivery :
      /\ IsOriginal(d) /\ IsOriginal(f) /\ Co(d) = Co(f) /\ Key(d) = Key(f)
      /\ seq[Ev(f)] < seq[Ev(d)] /\ status[d] = "delivered"
      => status[f] # "pending"

(* A replay record never loses either side: the rows awcms_domain_event_    *)
(* replays references exist as long as the record does, and a replay's      *)
(* original is a dead letter of the same event and consumer.                *)
ReplayLineage ==
    \A r \in Delivery : ~IsOriginal(r) =>
      /\ status[r] # "purged"
      /\ status[r] # "none" =>
           /\ replayOf[r] \in Delivery
           /\ SamePair(replayOf[r], r) /\ status[replayOf[r]] = "dead_letter"

(* Nothing leaves a final status: a late failure report, a stale candidate  *)
(* or the purge never re-opens a settled row, and a dead letter stays for   *)
(* the operator to find (recordDeliveryFailure, purgeSettledDeliveries).    *)
FinalStatusStep ==
    \A d \in Delivery :
      /\ status[d] = "dead_letter" => status'[d] = "dead_letter"
      /\ status[d] \in Settled => status'[d] \in {status[d], "purged"}
      /\ status[d] = "purged" => status'[d] = "purged"
FinalStatusKept == [][FinalStatusStep]_vars

(* Every delivery the runtime owes comes to an end: it is delivered,        *)
(* skipped or dead-lettered unless its consumer is paused or gone from the  *)
(* registry, whatever the row locks, back-offs and crashes in between.      *)
EveryDeliverySettles ==
    \A d \in Delivery :
      status[d] = "pending"
        ~> \/ status[d] # "pending"
           \/ Co(d) \in paused \/ declared[Co(d)] = "removed"

-----------------------------------------------------------------------------
Produce  == \E e \in Events : Append(e) \/ Commit(e) \/ Rollback(e)
Operate  == \/ \E c \in Consumers : PauseConsumer(c) \/ ResumeConsumer(c)
            \/ \E d \in Delivery : Replay(d)
Release  == \E c \in Consumers, r \in Declarations : Deploy(c, r)
Retain   == \E D \in SUBSET {d \in Delivery : Purgeable(d)} : Purge(D)
Tick     == \E d \in Delivery : BackoffElapses(d)

Attempt(w) == \/ \E x \in batch[w] : Claim(w, x) \/ NotClaimed(w, x) \/ Skip(w, x)
              \/ Handle(w) \/ Deliver(w) \/ FinishBatch(w)
Fail(w)    == Throw(w) \/ \E r \in BOOLEAN : RecordFailure(w, r)
Pass(w)    == \/ \E c \in Consumers : CheckPaused(w, c)
              \/ SelectSome(w)
              \/ Attempt(w) \/ Fail(w) \/ Crash(w)

Next == Produce \/ Operate \/ Release \/ Retain \/ Tick \/ \E w \in Workers : Pass(w)

Spec == Init /\ [][Next]_vars

(* The scheduler starts a pass again and again, and a pass visits every     *)
(* consumer in registry order: strong fairness of CheckPaused for each.     *)
(* Inside a pass nothing but a row lock held by another pass makes it wait. *)
Fairness ==
    /\ \A e \in Events : WF_vars(Commit(e) \/ Rollback(e))
    /\ \A d \in Delivery : WF_vars(BackoffElapses(d))
    /\ \A w \in Workers :
         /\ \A c \in Consumers : SF_vars(CheckPaused(w, c))
         /\ WF_vars(SelectSome(w))
         /\ SF_vars(Attempt(w))
         /\ SF_vars(\E r \in BOOLEAN : RecordFailure(w, r))

LiveSpec == Spec /\ Fairness

-----------------------------------------------------------------------------
(* The outbox, its rows, its passes, its retries and replays implement the *)
(* promise of EffectOnce: an effect only ever follows the commit of its    *)
(* event, one commit of one dispatcher transaction at a time.              *)
Published == {e \in Events : event[e] = "committed"}
Promise == INSTANCE EffectOnce WITH published <- Published
ImplementsEffectOnce == Promise!Spec
=============================================================================
