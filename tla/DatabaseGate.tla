----------------------------- MODULE DatabaseGate -----------------------------
(***************************************************************************)
(* What every tenant transaction goes through (runTenantWork in            *)
(* apps/cms/src/lib/database/tenant-context.ts): the database circuit      *)
(* breaker (circuit-breaker.ts), then the bounded FIFO gate of its work    *)
(* class (work-class.ts), then one transaction, whose outcome is reported  *)
(* to the breaker and whose slot is handed to the next waiter.             *)
(*                                                                         *)
(* All of it is in-process state of one single-threaded event loop, so     *)
(* each synchronous stretch of code is one action; calls interleave at     *)
(* their awaits (the wait for a slot, the transaction).                    *)
(***************************************************************************)
EXTENDS Integers, FiniteSets, SequencesExt

CONSTANTS
    Calls,             \* calls of withTenant, each repeated any number of times
    Classes,           \* work classes
    ClassMax,               \* WORK_CLASS_MAX
    Multiplier,        \* QUEUE_DEPTH_MULTIPLIER
    FailureThreshold,  \* failureThreshold of the database breaker
    NoClass            \* no work class

ASSUME CallsAssumption == IsFiniteSet(Calls)
ASSUME MaxAssumption == ClassMax \in [Classes -> Nat \ {0}]
ASSUME MultiplierAssumption == Multiplier \in Nat \ {0}
ASSUME ThresholdAssumption == FailureThreshold \in Nat \ {0}
ASSUME NoClassAssumption == NoClass \notin Classes

VARIABLES
    breaker,   \* [kind, failures]; failures is consecutiveFailures while closed
    elapsed,   \* openDurationMs have passed since the open breaker's openedAt
    active,    \* gate.active of each class
    queue,     \* gate.queue of each class
    place,     \* where each call is: out, waiting or running
    class,     \* the work class it asked for
    early,     \* history: calls in flight since before the breaker last opened
    healthy    \* FALSE: transactions may fail (the database, or an exception of the handler)

gateVars == <<breaker, elapsed, active, queue, place, class, early, healthy>>

Closed(n) == [kind |-> "closed", failures |-> n]
Open      == [kind |-> "open", failures |-> 0]
HalfOpen  == [kind |-> "half_open", failures |-> 0]
BreakerStates == {Closed(n) : n \in 0 .. FailureThreshold - 1} \cup {Open, HalfOpen}

Outcomes == {"ok", "race_lost", "client_error", "failure"}

InFlight == {c \in Calls : place[c] # "out"}
Waiting(k) == {c \in Calls : place[c] = "waiting" /\ class[c] = k}
Running(k) == {c \in Calls : place[c] = "running" /\ class[c] = k}
MaxQueueDepth(k) == ClassMax[k] * Multiplier

GateTypeOK ==
    /\ breaker \in BreakerStates
    /\ elapsed \in BOOLEAN
    /\ active \in [Classes -> Nat]
    /\ queue \in [Classes -> Seq(Calls)]
    /\ place \in [Calls -> {"out", "waiting", "running"}]
    /\ class \in [Calls -> Classes \cup {NoClass}]
    /\ early \subseteq Calls
    /\ healthy \in BOOLEAN

GateInit ==
    /\ breaker = Closed(0) /\ elapsed = FALSE
    /\ active = [k \in Classes |-> 0] /\ queue = [k \in Classes |-> << >>]
    /\ place = [c \in Calls |-> "out"] /\ class = [c \in Calls |-> NoClass]
    /\ early = {} /\ healthy = TRUE

-----------------------------------------------------------------------------
(* The circuit breaker *)

(* transitionIfOpenElapsed, the first thing every method does *)
Settled == IF breaker.kind = "open" /\ elapsed THEN HalfOpen ELSE breaker

(* Mutant of CanAttempt: it looks before the elapsed window is looked at. *)
CanAttemptUnsettled == breaker.kind # "open"

CanAttempt == Settled.kind # "open"

(* recordFailure *)
AfterFailure ==
    CASE Settled.kind \in {"half_open", "open"} -> Open
      [] Settled.kind = "closed" ->
           IF Settled.failures + 1 >= FailureThreshold
           THEN Open ELSE Closed(Settled.failures + 1)

(* What a finished transaction reports.  A lost idempotency race and an     *)
(* error of SQLSTATE class 22, 23 or 54 say nothing about the database and  *)
(* report nothing, not even the transition.                                 *)
Report(outcome) ==
    CASE outcome = "ok"      -> Closed(0)
      [] outcome = "failure" -> AfterFailure
      [] OTHER               -> breaker

Opens(outcome) == outcome = "failure" /\ Settled.kind # "open" /\ AfterFailure = Open

(* getState, called by the health endpoints, may move open to half_open. *)
Observe ==
    /\ breaker' = Settled
    /\ elapsed' = FALSE
    /\ UNCHANGED <<active, queue, place, class, early, healthy>>

(* openDurationMs after the breaker opened *)
WindowElapses ==
    /\ breaker.kind = "open" /\ ~elapsed
    /\ elapsed' = TRUE
    /\ UNCHANGED <<breaker, active, queue, place, class, early, healthy>>

-----------------------------------------------------------------------------
(* The gate and the calls *)

(* canAttempt lets the call pass, and moves the breaker on if its window has *)
(* elapsed.  A call it refuses (503) leaves everything as it was.            *)
Attempt(c) ==
    /\ place[c] = "out" /\ CanAttempt
    /\ breaker' = Settled
    /\ elapsed' = FALSE
    /\ UNCHANGED <<early, healthy>>

(* acquireWorkClassSlot: under the maximum *)
AcquireNow(c, k) ==
    /\ Attempt(c)
    /\ active[k] < ClassMax[k]
    /\ active' = [active EXCEPT ![k] = @ + 1]
    /\ place' = [place EXCEPT ![c] = "running"]
    /\ class' = [class EXCEPT ![c] = k]
    /\ UNCHANGED queue

(* ... at the maximum with room in the queue *)
Enqueue(c, k) ==
    /\ Attempt(c)
    /\ active[k] >= ClassMax[k] /\ Len(queue[k]) < MaxQueueDepth(k)
    /\ queue' = [queue EXCEPT ![k] = Append(@, c)]
    /\ place' = [place EXCEPT ![c] = "waiting"]
    /\ class' = [class EXCEPT ![c] = k]
    /\ UNCHANGED active

(* ... WorkClassQueueFullError, 503 *)
RefuseFull(c, k) ==
    /\ Attempt(c)
    /\ active[k] >= ClassMax[k] /\ Len(queue[k]) >= MaxQueueDepth(k)
    /\ UNCHANGED <<active, queue, place, class>>

Leave(c) == early' = early \ {c}

(* Mutant of TimeOut: the waiter that gives up stays in the queue. *)
TimeOutInQueue(c) ==
    /\ place[c] = "waiting"
    /\ place' = [place EXCEPT ![c] = "out"]
    /\ class' = [class EXCEPT ![c] = NoClass]
    /\ Leave(c)
    /\ UNCHANGED <<breaker, elapsed, active, queue, healthy>>

(* Mutant of TimeOut: the waiter is taken out of the queue but never told. *)
TimeOutSilently(c) ==
    /\ place[c] = "waiting"
    /\ \E i \in DOMAIN queue[class[c]] :
         /\ queue[class[c]][i] = c
         /\ queue' = [queue EXCEPT ![class[c]] = RemoveAt(@, i)]
    /\ UNCHANGED <<breaker, elapsed, active, place, class, early, healthy>>

(* The waiter's timer fires: WorkClassTimeoutError, 503. *)
TimeOut(c) ==
    /\ place[c] = "waiting"
    /\ \E i \in DOMAIN queue[class[c]] :
         /\ queue[class[c]][i] = c
         /\ queue' = [queue EXCEPT ![class[c]] = RemoveAt(@, i)]
    /\ place' = [place EXCEPT ![c] = "out"]
    /\ class' = [class EXCEPT ![c] = NoClass]
    /\ Leave(c)
    /\ UNCHANGED <<breaker, elapsed, active, healthy>>

(* Mutant of Release: the freed slot is given up instead of handed over. *)
ReleaseToNobody(c) ==
    LET k == class[c] IN
    /\ active' = [active EXCEPT ![k] = @ - 1]
    /\ place' = [place EXCEPT ![c] = "out"]
    /\ UNCHANGED queue

(* releaseSlot: the slot goes to the head of the queue, if there is one. *)
Release(c) ==
    LET k == class[c] IN
    IF queue[k] # << >>
    THEN /\ queue' = [queue EXCEPT ![k] = Tail(@)]
         /\ place' = [place EXCEPT ![c] = "out", ![Head(queue[k])] = "running"]
         /\ UNCHANGED active
    ELSE /\ active' = [active EXCEPT ![k] = IF @ > 0 THEN @ - 1 ELSE 0]
         /\ place' = [place EXCEPT ![c] = "out"]
         /\ UNCHANGED queue

(* The transaction ends: its outcome is reported, then the slot released. *)
Finish(c, outcome) ==
    /\ place[c] = "running"
    /\ healthy => outcome # "failure"
    /\ breaker' = Report(outcome)
    /\ elapsed' = (elapsed /\ outcome \notin {"ok", "failure"})
    /\ Release(c)
    /\ class' = [class EXCEPT ![c] = NoClass]
    /\ IF Opens(outcome) THEN early' = InFlight \ {c} ELSE Leave(c)
    /\ UNCHANGED healthy

(* The database starts or stops failing. *)
Sicken == healthy /\ healthy' = FALSE
          /\ UNCHANGED <<breaker, elapsed, active, queue, place, class, early>>
Heal   == ~healthy /\ healthy' = TRUE
          /\ UNCHANGED <<breaker, elapsed, active, queue, place, class, early>>

-----------------------------------------------------------------------------
(* Properties *)

(* No slot leaks and none is invented: gate.active of a class is the number *)
(* of its calls that run, never above its maximum, and its queue holds each *)
(* of its waiting calls once, whatever the order of releases, hand-overs    *)
(* and timeouts (acquireWorkClassSlot, releaseSlot).                        *)
SlotsAccounted ==
    \A k \in Classes :
      /\ active[k] = Cardinality(Running(k))
      /\ active[k] <= ClassMax[k]
      /\ Waiting(k) = ToSet(queue[k]) /\ IsInjective(queue[k])

(* The gate is work-conserving: no call waits while a slot of its class is *)
(* free (the direct hand-over of releaseSlot), and the queue is bounded.   *)
NobodyWaitsForAFreeSlot ==
    \A k \in Classes :
      /\ queue[k] # << >> => active[k] = ClassMax[k]
      /\ Len(queue[k]) <= MaxQueueDepth(k)

(* Fail fast: a call in flight under an open breaker was let in before it  *)
(* opened; it may have been waiting for a slot ever since (canAttempt is   *)
(* asked before the wait, not after it).                                   *)
OpenLetsNobodyIn ==
    breaker.kind = "open" => InFlight \subseteq early

(* First come, first served: a hand-over goes to the call that waited      *)
(* longest; nobody else of the class starts running in that step.          *)
FifoStep ==
    \A k \in Classes : \A c \in Waiting(k) :
      place'[c] = "running" =>
        /\ c = Head(queue[k])
        /\ \A d \in Calls : d # c /\ class'[d] = k /\ place'[d] = "running"
                              => place[d] = "running"
FirstComeFirstServed == [][FifoStep]_gateVars

(* Once the database is well for good, the breaker ends up not refusing    *)
(* anybody: no combination of late results, of outcomes that report        *)
(* nothing, and of refused calls keeps it open.                            *)
Recovers == <>[]healthy => <>[](breaker.kind # "open")

(* Every waiting call is answered: it gets a slot or a refusal. *)
EveryWaiterAnswered == \A c \in Calls : place[c] = "waiting" ~> place[c] # "waiting"

-----------------------------------------------------------------------------
Arrive(c) == \E k \in Classes : AcquireNow(c, k) \/ Enqueue(c, k) \/ RefuseFull(c, k)
Complete(c) == \E outcome \in Outcomes : Finish(c, outcome)
Environment == Observe \/ WindowElapses \/ Sicken \/ Heal

GateNext == Environment \/ \E c \in Calls : Arrive(c) \/ TimeOut(c) \/ Complete(c)

GateSpec == GateInit /\ [][GateNext]_gateVars

(* Timers fire, transactions end, the open window passes, and requests     *)
(* keep coming.                                                            *)
Fairness ==
    /\ WF_gateVars(WindowElapses)
    /\ \A c \in Calls : WF_gateVars(TimeOut(c)) /\ WF_gateVars(Complete(c)) /\ WF_gateVars(Arrive(c))

GateLiveSpec == GateSpec /\ Fairness
=============================================================================
