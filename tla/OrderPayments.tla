---------------------------- MODULE OrderPayments ----------------------------
(***************************************************************************)
(* The payments of one order: the ledger of payment allocations, the       *)
(* hosted gateway sessions that are opened for it, the provider's          *)
(* callbacks, the job and the operator that poll the provider, and the     *)
(* transitions of the order's status.                                      *)
(*                                                                         *)
(* An operator's ledger write is two steps: under the order row's lock it   *)
(* reads the ledger and drafts its row and what becomes of the order, and  *)
(* later it commits. Nobody sees a draft; who needs the lock waits for its *)
(* end. The others who take that lock do so in one step. Steps of their    *)
(* own are what reads outside the lock: a status transition reads the      *)
(* status and writes another later, a session is validated, asked of the   *)
(* provider and stored in three parts, and a provider's answer is applied  *)
(* after it was fetched. A transaction that ends a session reads the       *)
(* order's status before it locks the order; if the status moves in        *)
(* between it fails and leaves nothing, so the two are one step here.      *)
(* Restock, tax, points and events follow a transition in its transaction  *)
(* and are left out.                                                       *)
(***************************************************************************)
EXTENDS Integers, FiniteSets, Functions

CONSTANTS Refs,          \* 1..n, the attempts: provider references of sessions
          StaffKeys, ReversalKeys,   \* idempotency keys of the operators' requests
          Total,         \* the order's total, in units of money
          Thresholds,    \* release thresholds: Total, or a deposit below it
          Workers,       \* requests at work
          MaxRequests, MaxCallbacks, MaxFaults   \* bounds of what the shopper and
                         \* the shop ask, of callbacks received, of failures

ASSUME RefAssumption ==
    IsFiniteSet(Refs) /\ Refs \subseteq Nat \ {0} /\ \A a \in Refs : 1 .. a \subseteq Refs
ASSUME KeyAssumption == IsFiniteSet(StaffKeys) /\ IsFiniteSet(ReversalKeys) /\ 0 \notin StaffKeys
ASSUME MoneyAssumption ==
    Total \in Nat \ {0} /\ Thresholds \subseteq 1 .. Total /\ Thresholds # {}
ASSUME BoundAssumption == MaxRequests \in Nat /\ MaxCallbacks \in Nat /\ MaxFaults \in Nat

VARIABLES status,         \* of the order
          paymentStatus,  \* cached on the order
          threshold,      \* releaseThresholdCents of the order
          leg,            \* the allocations, by source key
          amount,         \* of each allocation
          back,           \* reversals: the payment and the amount
          draft,          \* what operators' open transactions have written
          session,        \* the gateway sessions
          past,           \* sessions past their expires_at
          provider,       \* the provider's side of each attempt
          denied,         \* attempts the provider denied before it captured them
          seen,           \* the event keys of callbacks, as stored
          op, job,        \* what each request and the job are doing
          asked, faults   \* requests made and failures so far

ledger == <<leg, amount, back, draft>>
order == <<status, paymentStatus, threshold>>
world == <<provider, denied>>
vars == <<order, ledger, session, past, world, seen, op, job, asked, faults>>

Statuses == {"pending_payment", "paid", "processing", "shipped", "completed", "cancelled", "expired"}
Open == Statuses \ {"cancelled", "expired"}
Legal == [s \in Statuses |->
            CASE s = "pending_payment" -> {"paid", "cancelled", "expired"}
              [] s = "paid" -> {"processing", "cancelled"}
              [] s = "processing" -> {"shipped", "cancelled"}
              [] s = "shipped" -> {"completed"}
              [] OTHER -> {}]

(* A gateway session's allocation, the one that takes its place when the    *)
(* first had failed, the operators' payments, and the override's.           *)
Gateway(a) == <<"gateway", a>>
Late(a) == <<"late", a>>
Manual == <<"manual", 0>>
Staff == ({"staff"} \X StaffKeys) \cup {Manual}
Payments == ({"gateway", "late"} \X Refs) \cup Staff

Succeeded == {p \in Payments : leg[p] = "succeeded"}
Paid == SumFunctionOnSet(amount, Succeeded)
Reversed == SumFunction([k \in ReversalKeys |-> back[k].sum])
Net == Paid - Reversed
Outstanding == IF Net >= Total THEN 0 ELSE Total - Net
ReversedOf(p) == SumFunctionOnSet([k \in ReversalKeys |-> back[k].sum],
                                  {k \in ReversalKeys : back[k].of = p})
PaymentStatuses == {"unpaid", "partially_paid", "dp_paid", "paid", "refunded"}
DerivedStatus(net, reversed) ==
    IF net <= 0 THEN IF reversed > 0 THEN "refunded" ELSE "unpaid"
    ELSE IF net >= Total THEN "paid"
    ELSE IF net >= threshold THEN "dp_paid"
    ELSE "partially_paid"
LedgerStatus == DerivedStatus(Net, Reversed)
(* A pending order whose threshold is reached is released.                  *)
Releases(net) == status = "pending_payment" /\ net >= threshold

ProviderStates == {"none", "open", "paid", "failed", "expired"}
OpRecords == [at : {"idle", "write", "call", "persist", "apply"}, ref : Refs \cup {0}, sum : Nat,
              purpose : {"full", "deposit", "balance"}, status : Statuses \cup ProviderStates]
Reversal(k) == <<"reversal", k>>
Drafts == [entry : Staff \cup {Reversal(k) : k \in ReversalKeys}, of : Payments, sum : Nat,
           pays : BOOLEAN, paymentStatus : PaymentStatuses]
JobRecords == [at : {"idle", "lapse", "poll"}, todo : SUBSET Refs, got : ProviderStates]

(* The rows of the order, its ledger and its sessions keep their types. *)
TypeOK ==
    /\ status \in Statuses /\ threshold \in Thresholds
    /\ paymentStatus \in PaymentStatuses
    /\ leg \in [Payments -> {"none", "pending", "failed", "succeeded"}]
    /\ amount \in [Payments -> Nat]
    /\ back \in [ReversalKeys -> [of : Payments, sum : Nat]] /\ draft \subseteq Drafts
    /\ session \in [Refs -> {"absent", "pending", "paid", "failed", "expired"}]
    /\ past \subseteq Refs /\ denied \subseteq Refs
    /\ provider \in [Refs -> ProviderStates]
    /\ seen \subseteq Refs \X {"pending", "paid", "failed", "expired"}
    /\ op \in [Workers -> OpRecords] /\ job \in JobRecords
    /\ asked \in Nat /\ faults \in Nat

Idle == [at |-> "idle", ref |-> 0, sum |-> 0, purpose |-> "full", status |-> "none"]
Resting == [at |-> "idle", todo |-> {}, got |-> "none"]

Init ==
    /\ status = "pending_payment" /\ paymentStatus = "unpaid"
    /\ threshold \in Thresholds
    /\ leg = [p \in Payments |-> "none"] /\ amount = [p \in Payments |-> 0]
    /\ back = [k \in ReversalKeys |-> [of |-> Manual, sum |-> 0]] /\ draft = {}
    /\ session = [a \in Refs |-> "absent"] /\ past = {}
    /\ provider = [a \in Refs |-> "none"] /\ denied = {} /\ seen = {}
    /\ op = [w \in Workers |-> Idle] /\ job = Resting
    /\ asked = 0 /\ faults = 0

(***************************************************************************)
(* The ledger, under the order row's lock.                                 *)
(***************************************************************************)
(* Mutant: the order is read without FOR NO KEY UPDATE. *)
Unlocked == TRUE
(* lockOrderForSettlement, and every statement that writes the order's row, *)
(* waits for the transaction that has the row.                              *)
OrderFree == draft = {}

(* finalizeSettlement, from the ledger as it now is. *)
Finalize ==
    /\ UNCHANGED threshold
    /\ status' = IF Releases(Net') THEN "paid" ELSE status
    /\ paymentStatus' = LedgerStatus'

Ask == asked < MaxRequests /\ asked' = asked + 1

Credit(p, sum) ==
    /\ leg' = [leg EXCEPT ![p] = "succeeded"]
    /\ amount' = [amount EXCEPT ![p] = sum]
    /\ UNCHANGED back

DraftPayment(p, sum) ==
    draft' = draft \cup {[entry |-> p, of |-> p, sum |-> sum, pays |-> Releases(Net + sum),
                          paymentStatus |-> DerivedStatus(Net + sum, Reversed)]}

(* A payment recorded by an operator, or a confirmation accepted: cash and  *)
(* confirmations are cut to what is owed, anything else above it is refused. *)
RecordPayment(k, sum) ==
    /\ Ask /\ OrderFree
    /\ status \in Open
    /\ leg[<<"staff", k>>] = "none"
    /\ sum \in 1 .. Outstanding
    /\ DraftPayment(<<"staff", k>>, sum)
    /\ UNCHANGED <<order, leg, amount, back, session, past, world, seen, op, job, faults>>

(* PATCH status -> paid: the whole total, if the ledger has no leg at all.  *)
AdminPaid ==
    /\ Ask /\ OrderFree
    /\ status = "pending_payment"
    /\ \A p \in Payments : leg[p] = "none"
    /\ DraftPayment(Manual, Total)
    /\ UNCHANGED <<order, leg, amount, back, session, past, world, seen, op, job, faults>>

(* A reversal never releases the order. *)
Reverse(k, p, sum) ==
    /\ Ask /\ OrderFree
    /\ back[k].sum = 0
    /\ leg[p] = "succeeded"
    /\ sum \in 1 .. amount[p] - ReversedOf(p)
    /\ draft' = draft \cup {[entry |-> Reversal(k), of |-> p, sum |-> sum, pays |-> FALSE,
                             paymentStatus |-> DerivedStatus(Net - sum, Reversed + sum)]}
    /\ UNCHANGED <<order, leg, amount, back, session, past, world, seen, op, job, faults>>

(* The rows as they were drafted, whatever others have committed since.     *)
Commit(d) ==
    /\ draft' = draft \ {d}
    /\ \/ d.entry \in Staff /\ Credit(d.entry, d.sum)
       \/ \E k \in ReversalKeys :
           /\ d.entry = Reversal(k)
           /\ back' = [back EXCEPT ![k] = [of |-> d.of, sum |-> d.sum]]
           /\ UNCHANGED <<leg, amount>>
    /\ status' = IF d.pays THEN "paid" ELSE status
    /\ paymentStatus' = d.paymentStatus
    /\ UNCHANGED <<threshold, session, past, world, seen, op, job, asked, faults>>
Commits == \E d \in draft : Commit(d)

(***************************************************************************)
(* What a provider's status does to a session and to the order.            *)
(***************************************************************************)
(* Mutant: only the pending leg is told apart. *)
CapturedAgain(a) ==
    IF leg[Gateway(a)] = "pending" THEN {Gateway(a)} ELSE {Late(a)} \ Succeeded
(* A captured payment: the pending leg succeeds, a failed one is left and a *)
(* late one stands in for it, and what was recorded before is not again.    *)
Captured(a) ==
    IF leg[Gateway(a)] = "succeeded" THEN {}
    ELSE IF leg[Gateway(a)] = "pending" THEN {Gateway(a)}
    ELSE {Late(a)} \ Succeeded

(* Mutant: money for an order that is no longer payable is not recorded. *)
SettlePayable(a) ==
    /\ OrderFree /\ UNCHANGED draft
    /\ \/ /\ Captured(a) = {} \/ status # "pending_payment"
          /\ UNCHANGED <<leg, amount, back, order>>
       \/ /\ status = "pending_payment"
          /\ \E p \in Captured(a) : Credit(p, amount[Gateway(a)]) /\ Finalize
(* Mutant: the capture does not wait for the order. *)
SettleUnlocked(a) ==
    /\ UNCHANGED draft
    /\ \/ Captured(a) = {} /\ UNCHANGED <<leg, amount, back, order>>
       \/ \E p \in Captured(a) : Credit(p, amount[Gateway(a)]) /\ Finalize
(* Under the order's lock, whether or not there is anything to record.      *)
Settle(a) ==
    /\ OrderFree /\ UNCHANGED draft
    /\ \/ /\ Captured(a) = {}
          /\ UNCHANGED <<leg, amount, back, order>>
       \/ \E p \in Captured(a) : Credit(p, amount[Gateway(a)]) /\ Finalize

(* expireOrderBySystem locks an order that waits; one that holds money stays. *)
ExpireIfUnpaid ==
    /\ status = "pending_payment" => OrderFree
    /\ status' = IF status = "pending_payment" /\ Net <= 0 THEN "expired" ELSE status
    /\ UNCHANGED <<paymentStatus, threshold>>

FailPendingLeg(a) ==
    /\ leg' = [leg EXCEPT ![Gateway(a)] = IF @ = "pending" THEN "failed" ELSE @]
    /\ UNCHANGED <<amount, back, draft>>

(* The session takes the status whatever it was before; a leg is failed     *)
(* without the order's lock.                                                *)
ApplyStatus(a, s) ==
    /\ session' = [session EXCEPT ![a] = s]
    /\ \/ s = "paid" /\ Settle(a)
       \/ s = "expired" /\ FailPendingLeg(a) /\ ExpireIfUnpaid
       \/ s = "failed" /\ FailPendingLeg(a) /\ UNCHANGED order
       \/ s = "pending" /\ UNCHANGED <<ledger, order>>
    /\ UNCHANGED <<past, world>>

(* Each change at the provider is told by a callback, which may come late,  *)
(* out of order, again, or never.                                           *)
Told(a) == {"pending"} \cup ({provider[a]} \ {"open"}) \cup (IF a \in denied THEN {"failed"} ELSE {})

ReceiveCallback(a, s) ==
    /\ session[a] # "absent" /\ s \in Told(a)
    /\ <<a, s>> \notin seen /\ Cardinality(seen) < MaxCallbacks
    /\ seen' = seen \cup {<<a, s>>}
    /\ ApplyStatus(a, s)
    /\ UNCHANGED <<op, job, asked, faults>>

(***************************************************************************)
(* Requests that read before they lock.                                    *)
(***************************************************************************)
(* A transition by the customer (cancel) or an operator: the status it      *)
(* leaves is read without a lock, the one it enters is written whatever the *)
(* status has become.                                                       *)
ReadStatus(w, to) ==
    /\ Ask
    /\ op[w].at = "idle"
    /\ to \in Legal[status] \ {"paid"}
    /\ op' = [op EXCEPT ![w] = [Idle EXCEPT !.at = "write", !.status = to]]
    /\ UNCHANGED <<order, ledger, session, past, world, seen, job, faults>>

WriteStatus(w) ==
    /\ op[w].at = "write" /\ OrderFree
    /\ status' = op[w].status
    /\ op' = [op EXCEPT ![w] = Idle]
    /\ UNCHANGED <<paymentStatus, threshold, ledger, session, past, world, seen, job, asked, faults>>

(* The purposes the order admits, and the amount each collects. *)
Allowed(purpose) ==
    CASE purpose = "full" -> threshold = Total /\ status = "pending_payment" /\ Net <= 0
      [] purpose = "deposit" -> threshold < Total /\ status = "pending_payment" /\ Net < threshold
      [] purpose = "balance" -> threshold < Total /\ status \in Open
                                    /\ Net >= threshold /\ Net < Total
Expected(purpose) ==
    CASE purpose = "full" -> Total
      [] purpose = "deposit" -> threshold - Net
      [] purpose = "balance" -> Total - Net
Stored == {a \in Refs : session[a] # "absent"}
Live == {a \in Refs : session[a] = "pending"}

ValidateSession(w, purpose) ==
    /\ Ask
    /\ op[w].at = "idle"
    /\ Allowed(purpose) /\ Live = {}
    /\ Cardinality(Stored) + 1 \in Refs
    /\ op' = [op EXCEPT ![w] = [at |-> "call", ref |-> Cardinality(Stored) + 1,
                                sum |-> Expected(purpose), purpose |-> purpose, status |-> "none"]]
    /\ UNCHANGED <<order, ledger, session, past, world, seen, job, faults>>

(* The provider refuses a reference that it knows. *)
CallProvider(w) ==
    LET a == op[w].ref IN
    /\ op[w].at = "call"
    /\ IF provider[a] = "none"
       THEN /\ provider' = [provider EXCEPT ![a] = "open"]
            /\ op' = [op EXCEPT ![w].at = "persist"]
       ELSE /\ op' = [op EXCEPT ![w] = Idle]
            /\ UNCHANGED provider
    /\ UNCHANGED <<order, ledger, session, past, denied, seen, job, asked, faults>>

(* The check is repeated under the lock; of a whole-total session only the  *)
(* money is looked at again, not the order's status.                        *)
NotAskedAgain(o) == TRUE   \* mutant: the first check is trusted
StillAllowed(o) ==
    IF o.purpose = "full" THEN Net <= 0
    ELSE Allowed(o.purpose) /\ Expected(o.purpose) = o.sum

PersistSession(w) ==
    LET a == op[w].ref IN
    /\ op[w].at = "persist" /\ OrderFree
    /\ op' = [op EXCEPT ![w] = Idle]
    /\ IF StillAllowed(op[w]) /\ Live = {}
       THEN /\ session' = [session EXCEPT ![a] = "pending"]
            /\ leg' = [leg EXCEPT ![Gateway(a)] = "pending"]
            /\ amount' = [amount EXCEPT ![Gateway(a)] = op[w].sum]
       ELSE UNCHANGED <<session, leg, amount>>
    /\ UNCHANGED <<order, back, draft, past, world, seen, job, asked, faults>>

(* The operator's check of the latest session, whatever its status: past    *)
(* its time it is expired unasked, else the provider's answer is applied.   *)
CheckStatus(w) ==
    LET a == Cardinality(Stored) IN
    /\ Ask
    /\ op[w].at = "idle" /\ Stored # {}
    /\ \/ /\ a \in past
          /\ ApplyStatus(a, "expired")
          /\ UNCHANGED op
       \/ /\ a \notin past /\ provider[a] # "open"
          /\ op' = [op EXCEPT ![w] = [Idle EXCEPT !.at = "apply", !.ref = a, !.status = provider[a]]]
          /\ UNCHANGED <<order, ledger, session, past, world>>
    /\ UNCHANGED <<seen, job, faults>>

ApplyChecked(w) ==
    /\ op[w].at = "apply"
    /\ ApplyStatus(op[w].ref, op[w].status)
    /\ op' = [op EXCEPT ![w] = Idle]
    /\ UNCHANGED <<seen, job, asked, faults>>

(***************************************************************************)
(* The jobs. What the reconcile job lists stays on its list while others   *)
(* change it: the list's row locks end with the listing's transaction.     *)
(***************************************************************************)
ExpireOrder ==
    /\ OrderFree   \* SKIP LOCKED
    /\ status = "pending_payment" /\ Net <= 0
    /\ status' = "expired"
    /\ UNCHANGED <<paymentStatus, threshold, ledger, session, past, world, seen, op, job, asked, faults>>

First(a) == a \in job.todo /\ \A b \in job.todo : a <= b
After(a) == IF job.at = "poll" /\ job.todo = {a} THEN Resting
            ELSE [job EXCEPT !.todo = @ \ {a}, !.got = "none"]

ListExpired ==
    /\ job.at = "idle"
    /\ job' = [at |-> "lapse", todo |-> Live \cap past, got |-> "none"]
    /\ UNCHANGED <<order, ledger, session, past, world, seen, op, asked, faults>>

LapseSession(a) ==
    /\ job.at = "lapse" /\ First(a)
    /\ ApplyStatus(a, "expired")
    /\ job' = After(a)
    /\ UNCHANGED <<seen, op, asked, faults>>

ListPending ==
    /\ job.at = "lapse" /\ job.todo = {}
    /\ job' = IF Live = {} THEN Resting ELSE [at |-> "poll", todo |-> Live, got |-> "none"]
    /\ UNCHANGED <<order, ledger, session, past, world, seen, op, asked, faults>>

FetchStatus(a) ==
    /\ job.at = "poll" /\ job.got = "none" /\ First(a)
    /\ job' = IF provider[a] = "open" THEN After(a) ELSE [job EXCEPT !.got = provider[a]]
    /\ UNCHANGED <<order, ledger, session, past, world, seen, op, asked, faults>>

ApplyFetched(a) ==
    /\ job.at = "poll" /\ job.got # "none" /\ First(a)
    /\ ApplyStatus(a, job.got)
    /\ job' = After(a)
    /\ UNCHANGED <<seen, op, asked, faults>>

JobStep ==
    \/ ListExpired \/ ListPending
    \/ \E a \in Refs : LapseSession(a) \/ FetchStatus(a) \/ ApplyFetched(a)

(***************************************************************************)
(* The provider, time and failures.                                        *)
(***************************************************************************)
(* The shopper sees the payment page once the session is stored; a denied   *)
(* attempt can be repeated on the same page.                                *)
ProviderMoves(a, s) ==
    /\ session[a] # "absent"
    /\ \/ provider[a] = "open" /\ s \in {"paid", "failed", "expired"} /\ UNCHANGED denied
       \/ provider[a] = "failed" /\ s = "paid" /\ denied' = denied \cup {a}
    /\ provider' = [provider EXCEPT ![a] = s]
    /\ UNCHANGED <<order, ledger, session, past, seen, op, job, asked, faults>>

PassTime(a) ==
    /\ session[a] # "absent" /\ a \notin past
    /\ past' = past \cup {a}
    /\ UNCHANGED <<order, ledger, session, world, seen, op, job, asked, faults>>

(* A request dies or its call fails; the job dies, or a poll fails; a       *)
(* transaction rolls back.                                                  *)
Fail ==
    /\ faults < MaxFaults /\ faults' = faults + 1
    /\ \/ /\ \E w \in Workers : op[w] # Idle /\ op' = [op EXCEPT ![w] = Idle]
          /\ UNCHANGED <<job, draft>>
       \/ /\ \E d \in draft : draft' = draft \ {d}
          /\ UNCHANGED <<op, job>>
       \/ /\ job # Resting /\ UNCHANGED <<op, draft>>
          /\ \/ job' = Resting
             \/ job.at = "poll" /\ job.got = "none" /\ \E a \in Refs : First(a) /\ job' = After(a)
    /\ UNCHANGED <<order, leg, amount, back, session, past, world, seen, asked>>

Next ==
    \/ \E k \in StaffKeys, sum \in 1 .. Total : RecordPayment(k, sum)
    \/ AdminPaid
    \/ \E k \in ReversalKeys, p \in Payments, sum \in 1 .. Total : Reverse(k, p, sum)
    \/ Commits
    \/ \E a \in Refs, s \in {"pending", "paid", "failed", "expired"} :
        ReceiveCallback(a, s) \/ ProviderMoves(a, s)
    \/ \E w \in Workers :
        \/ \E to \in Statuses : ReadStatus(w, to)
        \/ \E purpose \in {"full", "deposit", "balance"} : ValidateSession(w, purpose)
        \/ WriteStatus(w) \/ CallProvider(w) \/ PersistSession(w)
        \/ CheckStatus(w) \/ ApplyChecked(w)
    \/ ExpireOrder \/ JobStep
    \/ \E a \in Refs : PassTime(a)
    \/ Fail

Spec == Init /\ [][Next]_vars
(* The scheduler starts the job again and again, and an open transaction    *)
(* ends; nothing else is owed.                                              *)
FairSpec == Spec /\ WF_vars(JobStep) /\ WF_vars(Commits)

(***************************************************************************)
(* Properties.                                                             *)
(***************************************************************************)
Recorded(a) == leg[Gateway(a)] = "succeeded" \/ leg[Late(a)] = "succeeded"

(* What the provider captured enters the ledger once, whichever of webhook, *)
(* job and operator brings it, in whatever order with a failure before it;  *)
(* and nothing enters that was not captured (resolveGatewayAllocation).     *)
RecordedOnce ==
    \A a \in Refs :
        /\ ~ (leg[Gateway(a)] = "succeeded" /\ leg[Late(a)] = "succeeded")
        /\ Recorded(a) => provider[a] = "paid"

(* The cached payment status is the one the ledger derives, and an order    *)
(* whose threshold has been reached does not wait for payment any more,     *)
(* whoever wrote last: what a writer derived before its commit is still so  *)
(* when it commits (finalizeSettlement, lockOrderForSettlement).            *)
OrderFollowsLedger ==
    /\ paymentStatus = LedgerStatus
    /\ status = "pending_payment" => Net < threshold

(* The shop's own people never take more than the order is worth, with      *)
(* reversals and captures in between, and give back no more of a payment    *)
(* than it was, although each looked at the ledger before it committed: an  *)
(* order is overpaid by the provider alone (recordPaymentAllocation,        *)
(* settleOrderForManualPaid, recordPaymentReversal).                        *)
StaffNet == SumFunctionOnSet(amount, Succeeded \cap Staff)
            - SumFunctionOnSet([k \in ReversalKeys |-> back[k].sum],
                               {k \in ReversalKeys : back[k].of \in Staff})
OverpaidOnlyByProvider ==
    /\ StaffNet <= Total
    /\ \A p \in Payments : ReversedOf(p) <= amount[p]

(* A session is stored only for what the order still owes at that moment,   *)
(* whatever was paid while the provider was asked (createGatewaySession).   *)
AskedIsOwed ==
    [][\A a \in Refs :
        session[a] = "absent" /\ session'[a] # "absent" => amount'[Gateway(a)] <= Outstanding]_vars

(* A capture is recorded although every callback may be lost, unless the    *)
(* session has ended for the shop first, by its time or by an earlier       *)
(* denial (reconcilePendingSessionsForTenant).                              *)
CapturedIsRecorded ==
    \A a \in Refs :
        provider[a] = "paid" /\ session[a] = "pending"
            ~> Recorded(a) \/ session[a] \in {"failed", "expired"}

(* The order's last statuses are final (domain/order-status.ts). The code   *)
(* does not keep this: a transition writes over what it did not read.       *)
TerminalStays ==
    [][~ (status \in {"completed", "cancelled", "expired"} /\ status' # status)]_vars
=============================================================================
