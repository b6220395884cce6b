------------------------ MODULE ReportingProjections ------------------------
(***************************************************************************)
(* The counters of one (tenant, projection) of the reporting module: the   *)
(* incremental passes over its source table, the rebuild that resets and   *)
(* re-derives the same counters, and the consumer of a projection that is  *)
(* fed by domain events.                                                   *)
(*                                                                         *)
(* Time is counted in ticks finer than a millisecond: a row's timestamp is *)
(* the tick its writer's transaction began (PostgreSQL's now()), it        *)
(* becomes visible at a later commit, and a cursor, read back as a         *)
(* JavaScript Date, keeps only the millisecond. A transaction of a pass is *)
(* three steps: it takes the advisory lock, reads (the rebuild runs, the   *)
(* cursor, a page), and at its commit adds the page and moves the cursor.  *)
(***************************************************************************)
EXTENDS Integers, FiniteSets

CONSTANTS Rows,       \* rows of the source table, each written once
          Workers,    \* processes that may run passes
          Nobody,     \* the advisory lock is free
          MsTicks,    \* ticks in a millisecond
          Lag,        \* how far the incremental scan stays behind, in ticks
          Limit,      \* batchLimit
          MaxPasses,  \* passes of one invocation
          MaxTime,    \* bound of the clock
          MaxRuns,    \* bound on rebuilds started
          MaxFaults   \* bound on failed transactions and dead processes

ASSUME TimeAssumption ==
    /\ MsTicks \in Nat \ {0} /\ MaxTime \in Nat
    /\ Lag \in Nat /\ Lag >= MsTicks
ASSUME BoundAssumption ==
    /\ Limit \in Nat \ {0} /\ MaxPasses \in Nat \ {0}
    /\ MaxRuns \in Nat /\ MaxFaults \in Nat
ASSUME WorkerAssumption == Nobody \notin Workers
ASSUME RowsAssumption == IsFiniteSet(Rows)

VARIABLES strategy,   \* "cursor_table" or "domain_event": fixed per projection
          clock,      \* the database's clock
          row,        \* the source rows
          counted,    \* how often each row is in the counters (their sum is the metric)
          cursor,     \* the stream's cursor, a millisecond; 0 for NULL
          runs,       \* the rebuild runs, in the order they were started
          lock,       \* pg_advisory_xact_lock of the (tenant, projection)
          worker,     \* what each process is doing
          delivered,  \* events whose effect marker is committed
          faults      \* failures so far

tables == <<cursor, runs, delivered>>
vars == <<strategy, clock, row, counted, cursor, runs, lock, worker, delivered, faults>>

NoCursor == 0
RunIds == 1..MaxRuns
Ms(t) == t \div MsTicks

(* What has become of a row that is not counted: who moved the cursor past  *)
(* it ("split" is an incremental pass whose upper bound fell inside the     *)
(* row's millisecond), or that its event was settled when a rebuild reset   *)
(* the counters. It only records, nothing reads it.                         *)
PastValues == {"nobody", "incremental", "split", "rebuild", "reset"}

RowRecords == [state : {"none", "open", "committed"}, ts : Nat,
               late : BOOLEAN, past : PastValues]
RunRecords == [status : {"none", "running", "completed", "failed", "cancelled"},
               cancel : BOOLEAN, processed : Nat]
WorkerRecords == [at : {"idle", "lock", "read", "apply", "end", "fail"},
                  kind : {"incremental", "rebuild"}, run : 0..MaxRuns,
                  began : Nat, page : SUBSET Rows, upto : Nat, passes : Nat]

(* Each record keeps its type. *)
TypeOK ==
    /\ strategy \in {"cursor_table", "domain_event"}
    /\ clock \in Nat /\ cursor \in Nat /\ faults \in Nat
    /\ row \in [Rows -> RowRecords]
    /\ counted \in [Rows -> Nat]
    /\ runs \in [RunIds -> RunRecords]
    /\ lock \in Workers \cup {Nobody}
    /\ worker \in [Workers -> WorkerRecords]
    /\ delivered \in SUBSET Rows

Idle == [at |-> "idle", kind |-> "incremental", run |-> 0, began |-> 0,
         page |-> {}, upto |-> 0, passes |-> 0]

Init ==
    /\ strategy \in {"cursor_table", "domain_event"}
    /\ clock = MsTicks
    /\ row = [r \in Rows |-> [state |-> "none", ts |-> 0, late |-> FALSE, past |-> "nobody"]]
    /\ counted = [r \in Rows |-> 0]
    /\ cursor = NoCursor
    /\ runs = [i \in RunIds |-> [status |-> "none", cancel |-> FALSE, processed |-> 0]]
    /\ lock = Nobody
    /\ worker = [w \in Workers |-> Idle]
    /\ delivered = {}
    /\ faults = 0

----------------------------------------------------------------------------
(* The writers of the source table. *)

Committed(r) == row[r].state = "committed"

(* A writer's transaction begins: its rows will carry this instant. Of *)
(* the event stream, where the application's clock stamps each row, this    *)
(* is the insert; that the two clocks may differ is left out.               *)
WriteRow(r) ==
    /\ row[r].state = "none"
    /\ row' = [row EXCEPT ![r] = [state |-> "open", ts |-> clock, late |-> FALSE,
                                  past |-> IF Ms(clock) <= cursor THEN "rebuild" ELSE "nobody"]]
    /\ UNCHANGED <<strategy, clock, counted, lock, worker, faults, tables>>

(* It commits; one that never does stands for one that rolled back. *)
CommitRow(r) ==
    /\ row[r].state = "open"
    /\ row' = [row EXCEPT ![r].state = "committed", ![r].late = (clock - row[r].ts >= Lag)]
    /\ UNCHANGED <<strategy, clock, counted, lock, worker, faults, tables>>

Tick ==
    /\ clock < MaxTime
    /\ clock' = clock + 1
    /\ UNCHANGED <<strategy, row, counted, lock, worker, faults, tables>>

----------------------------------------------------------------------------
(* Reading a page. *)

Running(i) == runs[i].status = "running"
FindRunningRebuild == \E i \in RunIds : Running(i)

(* The rows after the cursor; the incremental scan stops Lag before the     *)
(* instant its transaction began, the rebuild's scan has no upper bound.    *)
Ahead(r) == Committed(r) /\ Ms(row[r].ts) > cursor
(* Mutant: the scan reaches up to its transaction's own now(). *)
WithinNow(w, r) == row[r].ts <= worker[w].began
WithinLag(w, r) == row[r].ts + Lag <= worker[w].began
Eligible(w) ==
    {r \in Rows : Ahead(r) /\ (worker[w].kind = "incremental" => WithinLag(w, r))}

(* The first Limit rows, without those of the millisecond in which the      *)
(* lookahead row lies: a page never ends inside a millisecond at its limit. *)
UpTo(S, m) == {r \in S : Ms(row[r].ts) <= m}
Fits(S, m) == Cardinality(UpTo(S, m)) <= Limit
TrimIncompleteTail(S) == {r \in S : Fits(S, Ms(row[r].ts))}

----------------------------------------------------------------------------
(* The passes. *)

Free(w) == IF lock = w THEN Nobody ELSE lock
Step(w, at) == [worker EXCEPT ![w].at = at]

(* runIncrementalUpdateForTenant: only a cursor_table projection is scanned. *)
(* The transaction of its first pass begins, and with it that pass's now().  *)
StartUpdate(w) ==
    /\ worker[w].at = "idle"
    /\ strategy = "cursor_table"
    /\ worker' = [worker EXCEPT ![w] = [Idle EXCEPT !.at = "lock", !.began = clock]]
    /\ UNCHANGED <<strategy, clock, row, counted, lock, faults, tables>>

(* continueAllRunningRebuilds finds the running run and continues it. *)
StartRebuild(w) ==
    /\ worker[w].at = "idle"
    /\ \E i \in RunIds :
        /\ Running(i)
        /\ worker' = [worker EXCEPT ![w] = [Idle EXCEPT !.at = "lock", !.kind = "rebuild",
                                                        !.run = i]]
    /\ UNCHANGED <<strategy, clock, row, counted, lock, faults, tables>>

(* Mutant: the pass begins without waiting for the projection's lock. *)
LockNothing(w) ==
    /\ worker[w].at = "lock"
    /\ worker' = Step(w, "read")
    /\ UNCHANGED <<strategy, clock, row, counted, lock, faults, tables>>

(* lockProjectionForWrite waits for the lock. *)
LockProjection(w) ==
    /\ worker[w].at = "lock"
    /\ lock = Nobody
    /\ lock' = w
    /\ worker' = Step(w, "read")
    /\ UNCHANGED <<strategy, clock, row, counted, faults, tables>>

(* An incremental pass gives up while a rebuild owns the projection. *)
SkipForRebuild(w) ==
    /\ worker[w].at = "read" /\ worker[w].kind = "incremental"
    /\ FindRunningRebuild
    /\ lock' = Free(w)
    /\ worker' = [worker EXCEPT ![w] = Idle]
    /\ UNCHANGED <<strategy, clock, row, counted, faults, tables>>

(* A rebuild pass whose run has ended counts nothing, as if it were drained. *)
RunHasEnded(w) ==
    /\ worker[w].at = "read" /\ worker[w].kind = "rebuild"
    /\ ~Running(worker[w].run)
    /\ lock' = Free(w)
    /\ worker' = Step(w, "end")
    /\ UNCHANGED <<strategy, clock, row, counted, faults, tables>>

(* A cancellation that was asked for ends the run at its next pass. *)
MarkCancelled(w) ==
    LET i == worker[w].run IN
    /\ worker[w].at = "read" /\ worker[w].kind = "rebuild"
    /\ Running(i) /\ runs[i].cancel
    /\ runs' = [runs EXCEPT ![i].status = "cancelled"]
    /\ lock' = Free(w)
    /\ worker' = [worker EXCEPT ![w] = Idle]
    /\ UNCHANGED <<strategy, clock, row, counted, cursor, delivered, faults>>

(* The pass may scan: the check of both kinds, done under the lock. *)
MayScan(w) ==
    LET i == worker[w].run IN
    IF worker[w].kind = "incremental" THEN ~FindRunningRebuild
    ELSE Running(i) /\ ~runs[i].cancel

(* The cursor and the page are read. Nothing left ends the loop of passes; *)
(* a first millisecond with more than Limit rows is thrown upon.           *)
ReadPage(w) ==
    LET S == Eligible(w)
        P == TrimIncompleteTail(S) IN
    /\ worker[w].at = "read" /\ MayScan(w)
    /\ \/ /\ S = {}
          /\ lock' = Free(w)
          /\ worker' = Step(w, "end")
       \/ /\ S # {} /\ P = {}
          /\ lock' = Free(w)
          /\ worker' = Step(w, "fail")
       \/ /\ \E last \in P :
              /\ \A r \in P : Ms(row[r].ts) <= Ms(row[last].ts)
              /\ worker' = [worker EXCEPT ![w].at = "apply", ![w].page = P,
                                          ![w].upto = Ms(row[last].ts)]
          /\ UNCHANGED lock
    /\ UNCHANGED <<strategy, clock, row, counted, faults, tables>>

(* Who leaves row r uncounted behind a cursor moved to millisecond m. *)
PassedBy(w, r, m) ==
    IF worker[w].kind = "rebuild" THEN "rebuild"
    ELSE IF Ms(row[r].ts) = m /\ ~WithinLag(w, r) THEN "split"
    ELSE "incremental"
Overtaken(w, r, m) ==
    /\ row[r].state # "none" /\ Ms(row[r].ts) <= m
    /\ counted[r] = 0 /\ r \notin worker[w].page
    /\ row[r].past = "nobody"

(* The deltas, the cursor and the run's progress are committed together.    *)
(* After MaxPasses passes the invocation ends with its backlog undrained.   *)
CommitPage(w) ==
    LET P == worker[w].page
        m == worker[w].upto
        i == worker[w].run IN
    /\ worker[w].at = "apply"
    /\ counted' = [r \in Rows |-> counted[r] + IF r \in P THEN 1 ELSE 0]
    /\ cursor' = m
    /\ runs' = IF worker[w].kind = "rebuild"
               THEN [runs EXCEPT ![i].processed = @ + Cardinality(P)] ELSE runs
    /\ row' = [r \in Rows |-> IF Overtaken(w, r, m)
                              THEN [row[r] EXCEPT !.past = PassedBy(w, r, m)] ELSE row[r]]
    /\ lock' = Free(w)
    /\ worker' = [worker EXCEPT ![w] =
                    IF worker[w].passes + 1 = MaxPasses THEN Idle
                    ELSE [worker[w] EXCEPT !.at = "lock", !.page = {}, !.upto = 0, !.passes = @ + 1,
                             !.began = IF worker[w].kind = "incremental" THEN clock ELSE 0]]
    /\ UNCHANGED <<strategy, clock, delivered, faults>>

(* Every stream is drained: a rebuild's run is completed, unless it has     *)
(* ended meanwhile.                                                         *)
FinishDrained(w) ==
    LET i == worker[w].run IN
    /\ worker[w].at = "end"
    /\ runs' = IF worker[w].kind = "rebuild" /\ Running(i)
               THEN [runs EXCEPT ![i].status = "completed"] ELSE runs
    /\ worker' = [worker EXCEPT ![w] = Idle]
    /\ UNCHANGED <<strategy, clock, row, counted, cursor, lock, delivered, faults>>

(* A statement of the pass fails: the transaction rolls back. *)
PassFails(w) ==
    /\ faults < MaxFaults
    /\ worker[w].at \in {"lock", "read", "apply"}
    /\ faults' = faults + 1
    /\ lock' = Free(w)
    /\ worker' = [worker EXCEPT ![w].at = "fail", ![w].page = {}, ![w].upto = 0]
    /\ UNCHANGED <<strategy, clock, row, counted, tables>>

(* The error is caught: a rebuild's run is failed in a transaction of its own. *)
RecordFailure(w) ==
    LET i == worker[w].run IN
    /\ worker[w].at = "fail"
    /\ runs' = IF worker[w].kind = "rebuild" /\ Running(i)
               THEN [runs EXCEPT ![i].status = "failed"] ELSE runs
    /\ worker' = [worker EXCEPT ![w] = Idle]
    /\ UNCHANGED <<strategy, clock, row, counted, cursor, lock, delivered, faults>>

(* The process dies: its transaction is rolled back and nothing is recorded. *)
WorkerDies(w) ==
    /\ faults < MaxFaults
    /\ worker[w].at # "idle"
    /\ faults' = faults + 1
    /\ lock' = Free(w)
    /\ worker' = [worker EXCEPT ![w] = Idle]
    /\ UNCHANGED <<strategy, clock, row, counted, tables>>

----------------------------------------------------------------------------
(* The requests and the event consumer. *)

(* triggerOrResumeRebuild: the only reset. It holds the lock, and a running *)
(* rebuild is returned instead of being started over.                       *)
TriggerRebuild(i) ==
    /\ lock = Nobody
    /\ ~FindRunningRebuild
    /\ runs[i].status = "none"
    /\ \A j \in RunIds : j < i => runs[j].status # "none"
    /\ runs' = [runs EXCEPT ![i].status = "running"]
    /\ cursor' = NoCursor
    /\ counted' = [r \in Rows |-> 0]
    /\ row' = [r \in Rows |-> [row[r] EXCEPT !.past =
                                  IF r \in delivered THEN "reset" ELSE "nobody"]]
    /\ UNCHANGED <<strategy, clock, lock, worker, delivered, faults>>

(* requestRebuildCancellation only sets the flag, without the lock. *)
RequestCancellation(i) ==
    /\ Running(i) /\ ~runs[i].cancel
    /\ runs' = [runs EXCEPT ![i].cancel = TRUE]
    /\ UNCHANGED <<strategy, clock, row, counted, cursor, lock, worker, delivered, faults>>

(* Mutant: during a rebuild the delivery is settled without being counted. *)
DeliverOrDrop(r) ==
    /\ strategy = "domain_event"
    /\ Committed(r) /\ r \notin delivered
    /\ lock = Nobody
    /\ delivered' = delivered \cup {r}
    /\ counted' = IF FindRunningRebuild \/ Ms(row[r].ts) <= cursor THEN counted
                  ELSE [counted EXCEPT ![r] = @ + 1]
    /\ UNCHANGED <<strategy, clock, row, cursor, runs, lock, worker, faults>>

(* applyEventActivityProjectionIncrement, inside the delivery's             *)
(* transaction: it throws while a rebuild runs (the delivery is retried),   *)
(* and adds nothing for an event behind the rebuild's cursor.               *)
DeliverEvent(r) ==
    /\ strategy = "domain_event"
    /\ Committed(r) /\ r \notin delivered
    /\ lock = Nobody
    /\ ~FindRunningRebuild
    /\ delivered' = delivered \cup {r}
    /\ counted' = IF Ms(row[r].ts) <= cursor THEN counted
                  ELSE [counted EXCEPT ![r] = @ + 1]
    /\ UNCHANGED <<strategy, clock, row, cursor, runs, lock, worker, faults>>

----------------------------------------------------------------------------
PassStep(w) ==
    \/ LockProjection(w) \/ SkipForRebuild(w) \/ RunHasEnded(w) \/ MarkCancelled(w)
    \/ ReadPage(w) \/ CommitPage(w) \/ FinishDrained(w) \/ RecordFailure(w)
Requests == \E i \in RunIds : TriggerRebuild(i) \/ RequestCancellation(i)
Source == Tick \/ \E r \in Rows : WriteRow(r) \/ CommitRow(r) \/ DeliverEvent(r)
WorkerFault(w) == PassFails(w) \/ WorkerDies(w)

Next ==
    \/ Source \/ Requests
    \/ \E w \in Workers : StartUpdate(w) \/ StartRebuild(w) \/ PassStep(w) \/ WorkerFault(w)

Spec == Init /\ [][Next]_vars

----------------------------------------------------------------------------
(* Properties. *)

Behind(r) == Ms(row[r].ts) <= cursor

(* No row is in the counters twice, whatever passes, resets, deliveries and *)
(* failures overlap; what a rebuild says it has processed is what it added. *)
CountedOnce ==
    /\ \A r \in Rows : counted[r] <= 1
    /\ \A i \in RunIds : Running(i) =>
        runs[i].processed = Cardinality({r \in Rows : counted[r] = 1})

(* A committed row that the cursor has passed uncounted was written by a    *)
(* transaction that stayed open for the lag or longer, or a rebuild (which  *)
(* has no upper bound) or a bound inside its millisecond passed it: the     *)
(* guarantee of cursor-boundary.ts with its two exceptions.                 *)
SkippedOnlyIf(r, excuse) ==
    strategy = "cursor_table" /\ Committed(r) /\ Behind(r) /\ counted[r] = 0 => excuse
NothingElseSkipped ==
    \A r \in Rows : SkippedOnlyIf(r, row[r].late \/ row[r].past \in {"rebuild", "split"})

(* An event whose delivery is settled is in the counters, unless a rebuild  *)
(* passed it before it was visible, or the latest rebuild took it out and   *)
(* has not reached it again: none that completed leaves one out.            *)
Latest(i) == runs[i].status # "none" /\ \A j \in RunIds : j > i => runs[j].status = "none"
DeliveredIsCounted ==
    \A r \in delivered : counted[r] = 0 =>
        \/ row[r].past = "rebuild"
        \/ /\ row[r].past = "reset" /\ ~Behind(r)
           /\ \E i \in RunIds : Latest(i) /\ runs[i].status # "completed"

(* What cursor-boundary.ts promises of the incremental scan: a row whose    *)
(* writer committed within the lag is counted once the cursor is past it.   *)
(* The bound of the scan, finer than the cursor, breaks it.                 *)
CountedIfOnTime ==
    \A r \in Rows : SkippedOnlyIf(r, row[r].late \/ row[r].past = "rebuild")
=============================================================================
