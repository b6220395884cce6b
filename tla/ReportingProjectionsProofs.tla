---------------------- MODULE ReportingProjectionsProofs ----------------------
(***************************************************************************)
(* Safety of the counters of one projection, for any source table, number  *)
(* of workers, lag, page limit and number of rebuilds: types, no row       *)
(* counted twice, none skipped but for the known reasons, and no settled   *)
(* event left out.                                                         *)
(*                                                                         *)
(* The argument is about the advisory lock. What was read under it stays   *)
(* so until it is released, but for rows that commit and for runs that     *)
(* end: neither puts a row into the page, or takes one out.                *)
(***************************************************************************)
EXTENDS ReportingProjections, FiniteSetTheorems, TLAPS

Counted == {r \in Rows : counted[r] = 1}

(* Where a row that is counted lies. *)
RowInv(r) ==
    /\ row[r].state # "none" => MsTicks <= row[r].ts /\ row[r].ts <= clock
    /\ counted[r] # 0 \/ r \in delivered => Committed(r)
    /\ counted[r] <= 1
    /\ counted[r] = 1 => Behind(r) \/ r \in delivered
    /\ counted[r] = 1 /\ (strategy = "cursor_table" \/ FindRunningRebuild) => Behind(r)

(* What the history of a row says. *)
PastInv(r) ==
    /\ row[r].past = "reset" => r \in delivered
    /\ row[r].past \in {"incremental", "split"} => strategy = "cursor_table"
    /\ row[r].past = "incremental" =>
        /\ row[r].state # "none" /\ row[r].ts + Lag <= clock
        /\ Committed(r) => row[r].late
    /\ row[r].state # "none" /\ Behind(r) /\ counted[r] = 0 => row[r].past \notin {"nobody", "reset"}
    /\ r \in delivered /\ counted[r] = 0 => row[r].past \in {"rebuild", "reset"}
    /\ row[r].past = "reset" /\ counted[r] = 0 =>
        \E i \in RunIds : Latest(i) /\ runs[i].status # "completed"

(* One rebuild runs at a time, and knows what it has added. *)
RunInv ==
    /\ \A i, j \in RunIds : Running(i) /\ Running(j) => i = j
    /\ \A i, j \in RunIds : i < j /\ runs[i].status = "none" => runs[j].status = "none"
    /\ \A i \in RunIds : runs[i].status = "none" => runs[i].processed = 0
    /\ \A i \in RunIds : Running(i) => runs[i].processed = Cardinality(Counted)

(* The page about to be added: uncounted, ahead of the cursor, and without  *)
(* a gap but for rows that have committed since, or are still open.         *)
PageInv(w) ==
    LET t == worker[w] IN
    /\ \A r \in t.page : /\ Committed(r) /\ counted[r] = 0
                         /\ cursor < Ms(row[r].ts) /\ Ms(row[r].ts) <= t.upto
    /\ \E last \in t.page : /\ Ms(row[last].ts) = t.upto
                            /\ t.kind = "incremental" => WithinLag(w, last)
    /\ \A i \in RunIds : Running(i) => t.kind = "rebuild" /\ i = t.run
    /\ t.kind = "incremental" =>
        \A r \in Rows : /\ Committed(r) /\ WithinLag(w, r) /\ r \notin t.page
                        /\ cursor < Ms(row[r].ts) /\ Ms(row[r].ts) <= t.upto
                        => row[r].late
    /\ t.kind = "rebuild" =>
        \A r \in delivered : cursor < Ms(row[r].ts) /\ Ms(row[r].ts) <= t.upto => r \in t.page

(* What a worker carries from step to step. *)
WorkerInv(w) ==
    LET t == worker[w] IN
    /\ lock = w <=> t.at \in {"read", "apply"}
    /\ t.at # "idle" /\ t.kind = "incremental" => strategy = "cursor_table" /\ t.began <= clock
    /\ t.at # "idle" /\ t.kind = "rebuild" => t.run \in RunIds /\ runs[t.run].status # "none"
    /\ t.at = "apply" => PageInv(w)
    /\ t.at = "end" /\ t.kind = "rebuild" /\ Running(t.run) =>
        \A r \in delivered : counted[r] = 0 => row[r].past = "rebuild"

IInv ==
    /\ TypeOK
    /\ clock >= MsTicks
    /\ delivered # {} => strategy = "domain_event"
    /\ \A r \in Rows : RowInv(r) /\ PastInv(r)
    /\ RunInv
    /\ \A w \in Workers : WorkerInv(w)

----------------------------------------------------------------------------
(* Milliseconds. *)

LEMMA MsFacts ==
    /\ \A a \in Nat : Ms(a) \in Nat
    /\ \A a, b \in Nat : a <= b => Ms(a) <= Ms(b)
    /\ \A a \in Nat : MsTicks <= a => Ms(a) >= 1
<1>1. MsTicks \in Nat /\ MsTicks >= 1  BY TimeAssumption
<1>2. ASSUME NEW a \in Nat
      PROVE  /\ Ms(a) \in Nat
             /\ MsTicks * Ms(a) <= a /\ a < MsTicks * (Ms(a) + 1)
  BY <1>1 DEF Ms
<1>3. ASSUME NEW a \in Nat, NEW b \in Nat, a <= b PROVE Ms(a) <= Ms(b)
  <2>1. SUFFICES ASSUME Ms(b) + 1 <= Ms(a) PROVE FALSE  BY <1>2
  <2>2. MsTicks * (Ms(b) + 1) <= MsTicks * Ms(a)  BY <1>1, <1>2, <2>1
  <2> QED BY <1>1, <1>2, <1>3, <2>2
<1>4. ASSUME NEW a \in Nat, MsTicks <= a PROVE Ms(a) >= 1
  <2>1. SUFFICES ASSUME Ms(a) = 0 PROVE FALSE  BY <1>2
  <2>2. a < MsTicks  BY <1>1, <1>2, <2>1
  <2> QED BY <1>1, <1>4, <2>2
<1> QED BY <1>2, <1>3, <1>4

----------------------------------------------------------------------------
(* Types, and steps of one worker. *)

LEMMA Types ==
    ASSUME IInv
    PROVE  /\ strategy \in {"cursor_table", "domain_event"}
           /\ clock \in Nat /\ cursor \in Nat /\ faults \in Nat
           /\ row \in [Rows -> RowRecords] /\ counted \in [Rows -> Nat]
           /\ runs \in [RunIds -> RunRecords] /\ lock \in Workers \cup {Nobody}
           /\ worker \in [Workers -> WorkerRecords] /\ delivered \subseteq Rows
BY DEF IInv, TypeOK

(* The millisecond of a row. *)
LEMMA RowMs ==
    ASSUME IInv, NEW r \in Rows
    PROVE  /\ row[r] \in RowRecords /\ row[r].ts \in Nat /\ Ms(row[r].ts) \in Nat
           /\ row[r].state # "none" => Ms(row[r].ts) >= 1
<1>1. row[r] \in RowRecords  BY Types
<1>2. row[r].ts \in Nat  BY <1>1 DEF RowRecords
<1>3. row[r].state # "none" => MsTicks <= row[r].ts  BY DEF IInv, RowInv
<1> QED BY <1>1, <1>2, <1>3, MsFacts

(* What a worker is doing, and the pages of finite source tables. *)
LEMMA WorkerType ==
    ASSUME IInv, NEW w \in Workers
    PROVE  /\ worker[w] \in WorkerRecords /\ worker[w].page \subseteq Rows
           /\ worker[w].upto \in Nat /\ worker[w].began \in Nat /\ worker[w].passes \in Nat
           /\ IsFiniteSet(worker[w].page) /\ Cardinality(worker[w].page) \in Nat
<1>1. worker[w] \in WorkerRecords  BY Types
<1>2. worker[w].page \subseteq Rows  BY <1>1 DEF WorkerRecords
<1>3. IsFiniteSet(worker[w].page)  BY <1>2, RowsAssumption, FS_Subset
<1> QED BY <1>1, <1>2, <1>3, FS_CardinalityType DEF WorkerRecords

LEMMA RunType ==
    ASSUME IInv, NEW i \in RunIds
    PROVE  /\ runs[i] \in RunRecords /\ runs[i].processed \in Nat
           /\ runs[i].status \in {"none", "running", "completed", "failed", "cancelled"}
BY Types DEF RunRecords

LEMMA IdleIs ==
    /\ Idle \in WorkerRecords /\ Idle.at = "idle" /\ Idle.kind = "incremental"
    /\ Idle.run = 0 /\ Idle.began = 0 /\ Idle.page = {} /\ Idle.upto = 0 /\ Idle.passes = 0
<1>1. 0 \in 0..MaxRuns  BY BoundAssumption
<1> QED BY <1>1 DEF Idle, WorkerRecords

(* Who gives the lock back does not hold it. *)
LEMMA FreeIs ==
    ASSUME IInv, NEW w \in Workers
    PROVE  /\ Free(w) # w /\ Free(w) \in Workers \cup {Nobody}
           /\ \A v \in Workers : v # w => (Free(w) = v <=> lock = v)
BY Types, WorkerAssumption DEF Free

(* No settled event waits for a rebuild to reach it. *)
Drained == \A r \in delivered : counted[r] = 0 => row[r].past = "rebuild"

(* A step of one worker that adds no page: it takes or frees the lock, and  *)
(* may end a run.                                                           *)
LEMMA WorkerMoves ==
    ASSUME IInv, NEW w \in Workers, NEW o \in WorkerRecords,
           worker' = [worker EXCEPT ![w] = o],
           UNCHANGED <<strategy, clock, row, counted, cursor, delivered>>,
           faults' \in Nat,
           lock' = lock \/ lock' = Free(w) \/ (lock = Nobody /\ lock' = w),
           runs' \in [RunIds -> RunRecords],
           \A i \in RunIds :
                /\ runs'[i].processed = runs[i].processed
                /\ runs'[i].status = "none" <=> runs[i].status = "none"
                /\ runs'[i].status = "running" => Running(i)
                /\ runs'[i].status = "completed" => runs[i].status = "completed" \/ Drained,
           lock' = w <=> o.at \in {"read", "apply"},
           o.at # "idle" /\ o.kind = "incremental" =>
                strategy = "cursor_table" /\ o.began <= clock,
           o.at # "idle" /\ o.kind = "rebuild" => o.run \in RunIds /\ runs'[o.run].status # "none",
           o.at = "apply" => PageInv(w)',
           o.at = "end" /\ o.kind = "rebuild" /\ runs'[o.run].status = "running" => Drained
    PROVE  IInv'
<1>1. TypeOK'
  <2>1. worker' \in [Workers -> WorkerRecords]  BY Types
  <2>2. lock' \in Workers \cup {Nobody}  BY Types, FreeIs
  <2> QED BY <2>1, <2>2, Types DEF TypeOK
<1>2. FindRunningRebuild' => FindRunningRebuild  BY DEF FindRunningRebuild, Running
<1>3. ASSUME NEW r \in Rows PROVE RowInv(r)'
  <2>1. RowInv(r)  BY DEF IInv
  <2> QED BY <2>1, <1>2 DEF RowInv, Committed, Behind
<1>4. ASSUME NEW r \in Rows PROVE PastInv(r)'
  <2>1. PastInv(r)  BY DEF IInv
  <2>2. ASSUME row[r].past = "reset", counted[r] = 0
        PROVE  \E i \in RunIds : Latest(i)' /\ runs'[i].status # "completed"
    <3>1. PICK i \in RunIds : Latest(i) /\ runs[i].status # "completed"
      BY <2>1, <2>2 DEF PastInv
    <3>2. ~Drained  BY <2>1, <2>2 DEF Drained, PastInv
    <3>3. Latest(i)'  BY <3>1 DEF Latest
    <3> QED BY <3>1, <3>2, <3>3
  <2> QED BY <2>1, <2>2 DEF PastInv, Committed, Behind
<1>5. RunInv'
  <2>1. RunInv  BY DEF IInv
  <2>2. Counted' = Counted  BY DEF Counted
  <2> QED BY <2>1, <2>2 DEF RunInv, Running
<1>6. ASSUME NEW v \in Workers PROVE WorkerInv(v)'
  <2>1. CASE v = w
    <3>1. worker'[w] = o  BY Types
    <3> QED BY <2>1, <3>1 DEF WorkerInv, Running, Drained
  <2>2. CASE v # w
    <3>1. worker'[v] = worker[v]  BY <2>2, Types
    <3>2. lock' = v <=> lock = v  BY <2>2, FreeIs, WorkerAssumption
    <3>3. WorkerInv(v)  BY DEF IInv
    <3>4. worker[v].at = "apply" => PageInv(v)'
      BY <3>1, <3>3 DEF WorkerInv, PageInv, Running, Committed, WithinLag
    <3>5. worker[v].at # "idle" /\ worker[v].kind = "rebuild" =>
            worker[v].run \in RunIds /\ runs'[worker[v].run].status # "none"
      BY <3>3 DEF WorkerInv
    <3>6. /\ worker[v].at = "end" /\ worker[v].kind = "rebuild"
          /\ runs'[worker[v].run].status = "running"
          => \A r \in delivered : counted[r] = 0 => row[r].past = "rebuild"
      BY <3>3 DEF WorkerInv, Running
    <3> QED BY <3>1, <3>2, <3>3, <3>4, <3>5, <3>6 DEF WorkerInv, Running
  <2> QED BY <2>1, <2>2
<1> QED BY <1>1, <1>3, <1>4, <1>5, <1>6 DEF IInv

(* ... that leaves the runs alone, and is not about to add a page. *)
LEMMA WorkerWalks ==
    ASSUME IInv, NEW w \in Workers, NEW o \in WorkerRecords,
           worker' = [worker EXCEPT ![w] = o],
           UNCHANGED <<strategy, clock, row, counted, cursor, runs, delivered>>,
           faults' \in Nat,
           lock' = lock \/ lock' = Free(w) \/ (lock = Nobody /\ lock' = w),
           o.at # "apply",
           lock' = w <=> o.at = "read",
           o.at # "idle" /\ o.kind = "incremental" =>
                strategy = "cursor_table" /\ o.began <= clock,
           o.at # "idle" /\ o.kind = "rebuild" => o.run \in RunIds /\ runs[o.run].status # "none",
           o.at = "end" /\ o.kind = "rebuild" /\ runs[o.run].status = "running" => Drained
    PROVE  IInv'
BY Types, WorkerMoves DEF Running

(* A worker that goes on with what it carries. *)
LEMMA WorkerOn ==
    ASSUME IInv, NEW w \in Workers, NEW o, worker[w].at # "idle",
           o.kind = worker[w].kind, o.run = worker[w].run, o.began = worker[w].began
    PROVE  /\ o.kind = "incremental" => strategy = "cursor_table" /\ o.began <= clock
           /\ o.kind = "rebuild" => o.run \in RunIds /\ runs[o.run].status # "none"
<1>1. WorkerInv(w)  BY DEF IInv
<1> QED BY <1>1 DEF WorkerInv

----------------------------------------------------------------------------
(* The steps of a worker. *)

LEMMA StartUpdateInv == ASSUME IInv, NEW w \in Workers, StartUpdate(w) PROVE IInv'
<1> DEFINE o == [Idle EXCEPT !.at = "lock", !.began = clock]
<1>1. /\ worker[w].at = "idle" /\ strategy = "cursor_table"
      /\ worker' = [worker EXCEPT ![w] = o]
      /\ UNCHANGED <<strategy, clock, row, counted, lock, faults, tables>>
  BY DEF StartUpdate
<1>2. o \in WorkerRecords /\ o.at = "lock" /\ o.kind = "incremental" /\ o.began = clock
  BY IdleIs, Types DEF WorkerRecords
<1> HIDE DEF o
<1>3. lock # w  BY <1>1 DEF IInv, WorkerInv
<1>4. /\ UNCHANGED <<strategy, clock, row, counted, cursor, runs, delivered>>
      /\ faults' \in Nat /\ lock' = lock
  BY <1>1, Types DEF tables
<1>5. o.began <= clock  BY <1>2, Types
<1> QED BY <1>1, <1>2, <1>3, <1>4, <1>5, WorkerWalks

LEMMA StartRebuildInv == ASSUME IInv, NEW w \in Workers, StartRebuild(w) PROVE IInv'
<1>1. PICK i \in RunIds :
        /\ Running(i)
        /\ worker' = [worker EXCEPT ![w] = [Idle EXCEPT !.at = "lock", !.kind = "rebuild", !.run = i]]
  BY DEF StartRebuild
<1> DEFINE o == [Idle EXCEPT !.at = "lock", !.kind = "rebuild", !.run = i]
<1>2. /\ worker[w].at = "idle" /\ worker' = [worker EXCEPT ![w] = o]
      /\ UNCHANGED <<strategy, clock, row, counted, lock, faults, tables>>
  BY <1>1 DEF StartRebuild
<1>3. o \in WorkerRecords /\ o.at = "lock" /\ o.kind = "rebuild" /\ o.run = i
  <2>1. i \in 0..MaxRuns  BY BoundAssumption DEF RunIds
  <2> QED BY <2>1, IdleIs DEF WorkerRecords
<1> HIDE DEF o
<1>4. lock # w  BY <1>2 DEF IInv, WorkerInv
<1>5. runs[i].status # "none"  BY <1>1 DEF Running
<1> QED BY <1>2, <1>3, <1>4, <1>5, Types, WorkerWalks DEF tables

LEMMA LockProjectionInv == ASSUME IInv, NEW w \in Workers, LockProjection(w) PROVE IInv'
<1> DEFINE o == [worker[w] EXCEPT !.at = "read"]
<1>1. /\ worker[w].at = "lock" /\ lock = Nobody /\ lock' = w
      /\ worker' = [worker EXCEPT ![w] = o]
      /\ UNCHANGED <<strategy, clock, row, counted, faults, tables>>
  BY Types DEF LockProjection, Step
<1>2. /\ o \in WorkerRecords /\ o.at = "read" /\ o.kind = worker[w].kind
      /\ o.run = worker[w].run /\ o.began = worker[w].began
  BY WorkerType DEF WorkerRecords
<1> HIDE DEF o
<1> QED BY <1>1, <1>2, Types, WorkerOn, WorkerWalks DEF tables

LEMMA SkipForRebuildInv == ASSUME IInv, NEW w \in Workers, SkipForRebuild(w) PROVE IInv'
<1>1. /\ lock' = Free(w) /\ worker' = [worker EXCEPT ![w] = Idle]
      /\ UNCHANGED <<strategy, clock, row, counted, faults, tables>>
  BY DEF SkipForRebuild
<1> QED BY <1>1, IdleIs, Types, FreeIs, WorkerWalks DEF tables

LEMMA WorkerDiesInv == ASSUME IInv, NEW w \in Workers, WorkerDies(w) PROVE IInv'
<1>1. /\ lock' = Free(w) /\ worker' = [worker EXCEPT ![w] = Idle] /\ faults' = faults + 1
      /\ UNCHANGED <<strategy, clock, row, counted, tables>>
  BY DEF WorkerDies
<1>2. /\ UNCHANGED <<strategy, clock, row, counted, cursor, runs, delivered>>
      /\ faults' \in Nat
  BY <1>1, Types DEF tables
<1> QED BY <1>1, <1>2, IdleIs, FreeIs, WorkerWalks

LEMMA PassFailsInv == ASSUME IInv, NEW w \in Workers, PassFails(w) PROVE IInv'
<1> DEFINE o == [worker[w] EXCEPT !.at = "fail", !.page = {}, !.upto = 0]
<1>1. /\ worker[w].at # "idle" /\ lock' = Free(w) /\ faults' = faults + 1
      /\ worker' = [worker EXCEPT ![w] = o]
      /\ UNCHANGED <<strategy, clock, row, counted, tables>>
  BY Types DEF PassFails
<1>2. /\ o \in WorkerRecords /\ o.at = "fail" /\ o.kind = worker[w].kind
      /\ o.run = worker[w].run /\ o.began = worker[w].began
  BY WorkerType DEF WorkerRecords
<1> HIDE DEF o
<1>3. /\ UNCHANGED <<strategy, clock, row, counted, cursor, runs, delivered>>
      /\ faults' \in Nat
  BY <1>1, Types DEF tables
<1> QED BY <1>1, <1>2, <1>3, FreeIs, WorkerOn, WorkerWalks

LEMMA RunHasEndedInv == ASSUME IInv, NEW w \in Workers, RunHasEnded(w) PROVE IInv'
<1> DEFINE o == [worker[w] EXCEPT !.at = "end"]
<1>1. /\ worker[w].at = "read" /\ ~Running(worker[w].run) /\ lock' = Free(w)
      /\ worker' = [worker EXCEPT ![w] = o]
      /\ UNCHANGED <<strategy, clock, row, counted, faults, tables>>
  BY Types DEF RunHasEnded, Step
<1>2. /\ o \in WorkerRecords /\ o.at = "end" /\ o.kind = worker[w].kind
      /\ o.run = worker[w].run /\ o.began = worker[w].began
  BY WorkerType DEF WorkerRecords
<1> HIDE DEF o
<1>3. runs[o.run].status # "running"  BY <1>1, <1>2 DEF Running
<1> QED BY <1>1, <1>2, <1>3, Types, FreeIs, WorkerOn, WorkerWalks DEF tables

(* A run that ends is none before and none running after; a completed one   *)
(* has reached every settled event.                                         *)
LEMMA RunEnds ==
    ASSUME IInv, NEW w \in Workers, NEW i \in RunIds, Running(i),
           NEW s \in {"completed", "failed", "cancelled"}, s = "completed" => Drained,
           runs' = [runs EXCEPT ![i].status = s], worker' = [worker EXCEPT ![w] = Idle],
           lock' = lock \/ lock' = Free(w), lock' # w,
           UNCHANGED <<strategy, clock, row, counted, cursor, delivered, faults>>
    PROVE  IInv'
<1> DEFINE n == [runs[i] EXCEPT !.status = s]
<1>1. runs' = [runs EXCEPT ![i] = n]  BY Types
<1>2. n \in RunRecords /\ n.status = s /\ n.processed = runs[i].processed
  BY RunType DEF RunRecords
<1> HIDE DEF n
<1>3. runs' \in [RunIds -> RunRecords]  BY <1>1, <1>2, Types
<1>4. \A j \in RunIds : runs'[j] = IF j = i THEN n ELSE runs[j]  BY <1>1, Types
<1>5. runs[i].status = "running"  BY DEF Running
<1>6. ASSUME NEW j \in RunIds
      PROVE  /\ runs'[j].processed = runs[j].processed
             /\ runs'[j].status = "none" <=> runs[j].status = "none"
             /\ runs'[j].status = "running" => Running(j)
             /\ runs'[j].status = "completed" => runs[j].status = "completed" \/ Drained
  BY <1>2, <1>4, <1>5 DEF Running
<1> QED BY <1>3, <1>6, IdleIs, Types, WorkerMoves

LEMMA MarkCancelledInv == ASSUME IInv, NEW w \in Workers, MarkCancelled(w) PROVE IInv'
<1>1. /\ worker[w].at = "read" /\ worker[w].kind = "rebuild" /\ Running(worker[w].run)
      /\ runs' = [runs EXCEPT ![worker[w].run].status = "cancelled"]
      /\ lock' = Free(w) /\ worker' = [worker EXCEPT ![w] = Idle]
      /\ UNCHANGED <<strategy, clock, row, counted, cursor, delivered, faults>>
  BY DEF MarkCancelled
<1>2. worker[w].run \in RunIds  BY <1>1 DEF IInv, WorkerInv
<1> QED BY <1>1, <1>2, FreeIs, RunEnds

(* A run is completed or failed, or has ended before. *)
LEMMA InvocationEnds ==
    ASSUME IInv, NEW w \in Workers, worker[w].at \in {"end", "fail"},
           NEW s \in {"completed", "failed"}, s = "completed" => worker[w].at = "end",
           runs' = IF worker[w].kind = "rebuild" /\ Running(worker[w].run)
                   THEN [runs EXCEPT ![worker[w].run].status = s] ELSE runs,
           worker' = [worker EXCEPT ![w] = Idle],
           UNCHANGED <<strategy, clock, row, counted, cursor, lock, delivered, faults>>
    PROVE  IInv'
<1>1. lock # w  BY DEF IInv, WorkerInv
<1>2. CASE worker[w].kind = "rebuild" /\ Running(worker[w].run)
  <2>1. worker[w].run \in RunIds  BY <1>2 DEF IInv, WorkerInv
  <2>2. s = "completed" => Drained  BY <1>2 DEF IInv, WorkerInv, Drained
  <2> QED BY <1>1, <1>2, <2>1, <2>2, RunEnds
<1>3. CASE ~(worker[w].kind = "rebuild" /\ Running(worker[w].run))
  <2>1. runs' = runs  BY <1>3
  <2> QED BY <1>1, <2>1, IdleIs, Types, WorkerWalks
<1> QED BY <1>2, <1>3

LEMMA FinishDrainedInv == ASSUME IInv, NEW w \in Workers, FinishDrained(w) PROVE IInv'
BY InvocationEnds DEF FinishDrained

LEMMA RecordFailureInv == ASSUME IInv, NEW w \in Workers, RecordFailure(w) PROVE IInv'
BY InvocationEnds DEF RecordFailure

----------------------------------------------------------------------------
(* The source table, its events, and the requests. *)

LEMMA TickInv == ASSUME IInv, Tick PROVE IInv'
<1>1. /\ clock \in Nat /\ clock' = clock + 1
      /\ UNCHANGED <<strategy, row, counted, cursor, runs, delivered, lock, worker, faults>>
  BY Types DEF Tick, tables
<1>2. TypeOK' /\ clock' >= MsTicks  BY <1>1, TimeAssumption DEF IInv, TypeOK
<1>3. ASSUME NEW r \in Rows PROVE RowInv(r)' /\ PastInv(r)'
  <2>1. RowInv(r) /\ PastInv(r)  BY DEF IInv
  <2>2. row[r].ts \in Nat /\ Lag \in Nat /\ MsTicks \in Nat  BY RowMs, TimeAssumption
  <2>3. RowInv(r)'
    BY <1>1, <2>1, <2>2 DEF RowInv, Committed, Behind, FindRunningRebuild, Running
  <2>4. PastInv(r)'  BY <1>1, <2>1, <2>2 DEF PastInv, Committed, Behind, Latest
  <2> QED BY <2>3, <2>4
<1>4. RunInv'  BY <1>1 DEF IInv, RunInv, Running, Counted
<1>5. ASSUME NEW w \in Workers PROVE WorkerInv(w)'
  <2>1. WorkerInv(w) /\ worker[w].began \in Nat  BY WorkerType DEF IInv
  <2>2. worker[w].at = "apply" => PageInv(w)'
    BY <1>1, <2>1 DEF WorkerInv, PageInv, Running, Committed, WithinLag
  <2> QED BY <1>1, <2>1, <2>2 DEF WorkerInv, Running
<1> QED BY <1>1, <1>2, <1>3, <1>4, <1>5 DEF IInv

(* A row changes that is not counted and whose event is not settled: those  *)
(* that are in a page, counted or settled stay as they are.                 *)
LEMMA RowChanges ==
    ASSUME IInv, NEW r \in Rows, NEW o \in RowRecords, row' = [row EXCEPT ![r] = o],
           UNCHANGED <<strategy, clock, counted, cursor, runs, lock, worker, delivered, faults>>,
           ~Committed(r), o.state # "none", MsTicks <= o.ts, o.ts <= clock,
           row[r].state # "none" => o.ts = row[r].ts /\ o.past = row[r].past,
           row[r].state = "none" => o.past = IF Ms(o.ts) <= cursor THEN "rebuild" ELSE "nobody",
           o.state = "committed" /\ o.ts + Lag <= clock => o.late,
           o.state = "committed" => row[r].state # "none"
    PROVE  IInv'
<1>1. counted[r] = 0 /\ r \notin delivered
  BY Types DEF IInv, RowInv
<1>2. row' \in [Rows -> RowRecords] /\ row'[r] = o /\ \A q \in Rows : q # r => row'[q] = row[q]
  BY Types
<1>3. TypeOK' /\ clock' >= MsTicks  BY <1>2 DEF IInv, TypeOK
<1>4. ASSUME NEW q \in Rows PROVE RowInv(q)' /\ PastInv(q)'
  <2>1. RowInv(q) /\ PastInv(q)  BY DEF IInv
  <2>2. CASE q # r
    <3>1. RowInv(q)'
      BY <1>2, <2>1, <2>2 DEF RowInv, Committed, Behind, FindRunningRebuild, Running
    <3>2. PastInv(q)'  BY <1>2, <2>1, <2>2 DEF PastInv, Committed, Behind, Latest
    <3> QED BY <3>1, <3>2
  <2>3. CASE q = r
    <3>1. RowInv(q)'  BY <1>1, <1>2, <2>1, <2>3 DEF RowInv
    <3>4. /\ row'[q] = o /\ counted'[q] = 0 /\ q \notin delivered' /\ cursor' = cursor
          /\ strategy' = strategy /\ clock' = clock
      BY <1>1, <1>2, <2>3
    <3>2. CASE row[r].state = "none"
      <4>1. o.past \in {"rebuild", "nobody"} /\ (Ms(o.ts) <= cursor => o.past = "rebuild")
        BY <3>2
      <4> QED BY <3>1, <3>4, <4>1 DEF PastInv, Behind
    <3>3. CASE row[r].state # "none"
      <4>1. o.ts = row[r].ts /\ o.past = row[r].past  BY <3>3
      <4>2. o.past # "reset"  BY <1>1, <2>1, <2>3, <4>1 DEF PastInv
      <4>3. o.past \in {"incremental", "split"} => strategy = "cursor_table"
        BY <2>1, <2>3, <4>1 DEF PastInv
      <4>4. o.past = "incremental" => o.ts + Lag <= clock  BY <2>1, <2>3, <4>1 DEF PastInv
      <4>5. Ms(o.ts) <= cursor => o.past # "nobody"
        BY <1>1, <2>1, <2>3, <3>3, <4>1 DEF PastInv, Behind
      <4>6. o.state = "committed" /\ o.past = "incremental" => o.late  BY <4>4
      <4> QED BY <3>1, <3>4, <4>2, <4>3, <4>4, <4>5, <4>6 DEF PastInv, Behind, Committed
    <3> QED BY <3>1, <3>2, <3>3
  <2> QED BY <2>2, <2>3
<1>5. RunInv'  BY DEF IInv, RunInv, Running, Counted
<1>6. ASSUME NEW w \in Workers PROVE WorkerInv(w)'
  <2>1. WorkerInv(w) /\ worker[w].began \in Nat /\ worker[w].page \subseteq Rows
    BY WorkerType DEF IInv
  <2>2. ASSUME worker[w].at = "apply" PROVE PageInv(w)'
    <3>1. PageInv(w)  BY <2>1, <2>2 DEF WorkerInv
    <3>2. r \notin worker[w].page  BY <3>1 DEF PageInv
    <3>3. \A q \in worker[w].page : row'[q] = row[q]  BY <1>2, <2>1, <3>2
    <3>4. \A q \in delivered : row'[q] = row[q]  BY <1>1, <1>2, Types
    <3>5. worker[w].kind = "incremental" =>
            /\ worker[w].began <= clock
            /\ o.state = "committed" /\ o.ts + Lag <= worker[w].began => o.late
      <4>1. o.ts \in Nat /\ Lag \in Nat /\ clock \in Nat
        BY TimeAssumption, Types DEF RowRecords
      <4> QED BY <2>1, <2>2, <4>1 DEF WorkerInv
    <3>6. /\ \A q \in worker[w].page : /\ Committed(q)' /\ counted[q] = 0
                                       /\ cursor < Ms(row'[q].ts) /\ Ms(row'[q].ts) <= worker[w].upto
          /\ \E last \in worker[w].page :
                /\ Ms(row'[last].ts) = worker[w].upto
                /\ worker[w].kind = "incremental" => row'[last].ts + Lag <= worker[w].began
      BY <3>1, <3>3 DEF PageInv, Committed, WithinLag
    <3>7. worker[w].kind = "incremental" =>
            \A q \in Rows : /\ row'[q].state = "committed" /\ row'[q].ts + Lag <= worker[w].began
                            /\ q \notin worker[w].page
                            /\ cursor < Ms(row'[q].ts) /\ Ms(row'[q].ts) <= worker[w].upto
                            => row'[q].late
      BY <1>2, <3>1, <3>5 DEF PageInv, Committed, WithinLag
    <3>8. worker[w].kind = "rebuild" =>
            \A q \in delivered : cursor < Ms(row'[q].ts) /\ Ms(row'[q].ts) <= worker[w].upto
                                 => q \in worker[w].page
      BY <3>1, <3>4 DEF PageInv
    <3>9. \A i \in RunIds : Running(i) => worker[w].kind = "rebuild" /\ i = worker[w].run
      BY <3>1 DEF PageInv
    <3> QED BY <3>6, <3>7, <3>8, <3>9 DEF PageInv, Committed, WithinLag, Running
  <2>3. \A q \in delivered : row'[q] = row[q]  BY <1>1, <1>2, Types
  <2> QED BY <2>1, <2>2, <2>3 DEF WorkerInv, Running
<1> QED BY <1>3, <1>4, <1>5, <1>6 DEF IInv

LEMMA WriteRowInv == ASSUME IInv, NEW r \in Rows, WriteRow(r) PROVE IInv'
<1> DEFINE past == IF Ms(clock) <= cursor THEN "rebuild" ELSE "nobody"
          o == [state |-> "open", ts |-> clock, late |-> FALSE, past |-> past]
<1>1. /\ row[r].state = "none" /\ row' = [row EXCEPT ![r] = o]
      /\ UNCHANGED <<strategy, clock, counted, cursor, runs, lock, worker, delivered, faults>>
  BY DEF WriteRow, tables
<1>2. /\ o \in RowRecords /\ o.state = "open" /\ o.ts = clock
      /\ o.past = IF Ms(o.ts) <= cursor THEN "rebuild" ELSE "nobody"
  BY Types DEF RowRecords, PastValues
<1> HIDE DEF o
<1>3. MsTicks <= clock /\ clock <= clock  BY Types, TimeAssumption DEF IInv
<1>4. ~Committed(r)  BY <1>1 DEF Committed
<1> QED BY <1>1, <1>2, <1>3, <1>4, RowChanges

LEMMA CommitRowInv == ASSUME IInv, NEW r \in Rows, CommitRow(r) PROVE IInv'
<1>9. (clock - row[r].ts >= Lag) \in BOOLEAN  OBVIOUS
<1>0. PICK late \in BOOLEAN : late = (clock - row[r].ts >= Lag)  BY <1>9, Zenon
<1> DEFINE o == [row[r] EXCEPT !.state = "committed", !.late = late]
<1>1. /\ row[r].state = "open" /\ row' = [row EXCEPT ![r] = o]
      /\ UNCHANGED <<strategy, clock, counted, cursor, runs, lock, worker, delivered, faults>>
  <2>1. row' = [row EXCEPT ![r].state = "committed", ![r].late = (clock - row[r].ts >= Lag)]
    BY DEF CommitRow
  <2>2. row' = [row EXCEPT ![r].state = "committed", ![r].late = late]  BY <1>0, <2>1, Types
  <2> QED BY <2>2, Types DEF CommitRow, tables
<1>2. row[r] \in RowRecords /\ row[r].ts \in Nat /\ clock \in Nat /\ Lag \in Nat
  BY RowMs, Types, TimeAssumption
<1>4. /\ o \in RowRecords /\ o.state = "committed" /\ o.ts = row[r].ts /\ o.past = row[r].past
      /\ o.late <=> late
  BY <1>2 DEF RowRecords
<1> HIDE DEF o
<1>5. MsTicks <= row[r].ts /\ row[r].ts <= clock  BY <1>1 DEF IInv, RowInv
<1>6. ~Committed(r)  BY <1>1 DEF Committed
<1>7. o.ts + Lag <= clock => o.late
  <2>1. o.ts + Lag <= clock => clock - row[r].ts >= Lag  BY <1>2, <1>4
  <2> QED BY <2>1, <1>0, <1>4, Zenon
<1> QED BY <1>1, <1>4, <1>5, <1>6, <1>7, RowChanges

(* Nobody is reading or adding a page while the lock is free. *)
LEMMA LockFree ==
    ASSUME IInv, lock = Nobody, NEW w \in Workers
    PROVE  worker[w].at \notin {"read", "apply"}
BY WorkerAssumption DEF IInv, WorkerInv

LEMMA RequestCancellationInv == ASSUME IInv, NEW i \in RunIds, RequestCancellation(i) PROVE IInv'
<1> DEFINE n == [runs[i] EXCEPT !.cancel = TRUE]
<1>1. /\ runs' = [runs EXCEPT ![i] = n]
      /\ UNCHANGED <<strategy, clock, row, counted, cursor, lock, worker, delivered, faults>>
  BY Types DEF RequestCancellation
<1>2. n \in RunRecords /\ n.status = runs[i].status /\ n.processed = runs[i].processed
  BY RunType DEF RunRecords
<1> HIDE DEF n
<1>3. /\ runs' \in [RunIds -> RunRecords]
      /\ \A j \in RunIds : /\ runs'[j].status = runs[j].status
                           /\ runs'[j].processed = runs[j].processed
  BY <1>1, <1>2, Types
<1>4. TypeOK' /\ clock' >= MsTicks  BY <1>1, <1>3 DEF IInv, TypeOK
<1>5. FindRunningRebuild' <=> FindRunningRebuild  BY <1>3 DEF FindRunningRebuild, Running
<1>6. ASSUME NEW r \in Rows PROVE RowInv(r)' /\ PastInv(r)'
  <2>1. RowInv(r) /\ PastInv(r)  BY DEF IInv
  <2>2. RowInv(r)'  BY <1>1, <1>5, <2>1 DEF RowInv, Committed, Behind
  <2>3. \A j \in RunIds : Latest(j) => Latest(j)'  BY <1>3 DEF Latest
  <2>4. PastInv(r)'  BY <1>1, <1>3, <2>1, <2>3 DEF PastInv, Committed, Behind
  <2> QED BY <2>2, <2>4
<1>7. RunInv'
  <2>1. RunInv  BY DEF IInv
  <2>2. Counted' = Counted  BY <1>1 DEF Counted
  <2> QED BY <1>3, <2>1, <2>2 DEF RunInv, Running
<1>8. ASSUME NEW w \in Workers PROVE WorkerInv(w)'
  <2>1. WorkerInv(w)  BY DEF IInv
  <2>2. worker[w].at = "apply" => PageInv(w)'
    BY <1>1, <1>3, <2>1 DEF WorkerInv, PageInv, Running, Committed, WithinLag
  <2> QED BY <1>1, <1>3, <2>1, <2>2 DEF WorkerInv, Running
<1> QED BY <1>1, <1>4, <1>6, <1>7, <1>8 DEF IInv

(* An event is settled once: it is counted, unless the cursor has passed it. *)
LEMMA DeliverEventInv == ASSUME IInv, NEW r \in Rows, DeliverEvent(r) PROVE IInv'
<1>1. /\ strategy = "domain_event" /\ Committed(r) /\ r \notin delivered /\ lock = Nobody
      /\ ~FindRunningRebuild /\ delivered' = delivered \cup {r}
      /\ UNCHANGED <<strategy, clock, row, cursor, runs, lock, worker, faults>>
  BY DEF DeliverEvent
<1>2. RowInv(r) /\ PastInv(r)  BY DEF IInv
<1>3. counted[r] = 0 \/ counted[r] = 1  BY <1>2, Types DEF RowInv
<1>4. /\ counted' \in [Rows -> Nat]
      /\ \A q \in Rows : q # r => counted'[q] = counted[q]
      /\ ~Behind(r) => counted'[r] = 1
      /\ Behind(r) => counted'[r] = counted[r]
  <2>1. CASE Behind(r)  BY <2>1, Types DEF DeliverEvent, Behind
  <2>2. CASE ~Behind(r)
    <3>1. counted' = [counted EXCEPT ![r] = @ + 1]  BY <2>2 DEF DeliverEvent, Behind
    <3>2. counted[r] = 0  BY <1>1, <1>2, <1>3, <2>2 DEF RowInv
    <3> QED BY <2>2, <3>1, <3>2, Types
  <2> QED BY <2>1, <2>2
<1>5. TypeOK' /\ clock' >= MsTicks  BY <1>1, <1>4 DEF IInv, TypeOK
<1>6. \A i \in RunIds : ~Running(i)  BY <1>1 DEF FindRunningRebuild
<1>7. ~FindRunningRebuild'  BY <1>1, <1>6 DEF FindRunningRebuild, Running
<1>8. ASSUME NEW q \in Rows PROVE RowInv(q)' /\ PastInv(q)'
  <2>1. RowInv(q) /\ PastInv(q)  BY DEF IInv
  <2>2. CASE q # r
    <3>1. RowInv(q)'  BY <1>1, <1>4, <1>7, <2>1, <2>2 DEF RowInv, Committed, Behind
    <3>2. PastInv(q)'  BY <1>1, <1>4, <2>1, <2>2 DEF PastInv, Committed, Behind, Latest
    <3> QED BY <3>1, <3>2
  <2>3. CASE q = r
    <3>1. RowInv(q)'
      BY <1>1, <1>2, <1>3, <1>4, <1>7, <2>3 DEF RowInv, Committed, Behind
    <3>2. row[r].past \notin {"reset", "incremental", "split"}
      BY <1>1, <1>2 DEF PastInv
    <3>3. row[r].past \in PastValues  BY RowMs DEF RowRecords
    <3>4. counted'[r] = 0 => Behind(r) /\ row[r].past = "rebuild"
      BY <1>1, <1>2, <1>4, <3>2, <3>3 DEF PastInv, PastValues, Committed
    <3>5. PastInv(q)'  BY <1>1, <2>3, <3>2, <3>4 DEF PastInv
    <3> QED BY <3>1, <3>5
  <2> QED BY <2>2, <2>3
<1>9. RunInv'  BY <1>1, <1>6 DEF IInv, RunInv, Running
<1>10. ASSUME NEW w \in Workers PROVE WorkerInv(w)'
  <2>1. WorkerInv(w) /\ worker[w].at \notin {"read", "apply"}  BY <1>1, LockFree DEF IInv
  <2>2. worker[w].at = "end" /\ worker[w].kind = "rebuild" => ~Running(worker[w].run)
    BY <1>6, <2>1 DEF WorkerInv
  <2> QED BY <1>1, <2>1, <2>2 DEF WorkerInv, Running
<1> QED BY <1>1, <1>5, <1>8, <1>9, <1>10 DEF IInv

(* A rebuild begins with nothing counted. *)
LEMMA TriggerRebuildInv == ASSUME IInv, NEW i \in RunIds, TriggerRebuild(i) PROVE IInv'
<1> DEFINE n == [runs[i] EXCEPT !.status = "running"]
<1>1. /\ lock = Nobody /\ ~FindRunningRebuild /\ runs[i].status = "none"
      /\ \A j \in RunIds : j < i => runs[j].status # "none"
      /\ runs' = [runs EXCEPT ![i] = n] /\ cursor' = 0 /\ counted' = [r \in Rows |-> 0]
      /\ UNCHANGED <<strategy, clock, lock, worker, delivered, faults>>
  BY Types DEF TriggerRebuild, NoCursor
<1>2. n \in RunRecords /\ n.status = "running" /\ n.processed = runs[i].processed
  BY RunType DEF RunRecords
<1> HIDE DEF n
<1>3. /\ runs' \in [RunIds -> RunRecords]
      /\ \A j \in RunIds : runs'[j] = IF j = i THEN n ELSE runs[j]
  BY <1>1, <1>2, Types
<1>4. row' = [r \in Rows |-> [row[r] EXCEPT !.past = IF r \in delivered THEN "reset" ELSE "nobody"]]
  BY DEF TriggerRebuild
<1>5. ASSUME NEW r \in Rows
      PROVE  /\ row'[r] \in RowRecords /\ row'[r].state = row[r].state /\ row'[r].ts = row[r].ts
             /\ row'[r].past = IF r \in delivered THEN "reset" ELSE "nobody"
  BY <1>4, RowMs DEF RowRecords, PastValues
<1>6. row' \in [Rows -> RowRecords]  BY <1>4, <1>5
<1>7. TypeOK' /\ clock' >= MsTicks  BY <1>1, <1>3, <1>6 DEF IInv, TypeOK
<1>8. \A j \in RunIds : ~Running(j)  BY <1>1 DEF FindRunningRebuild
<1>9. RunInv /\ i \in Int /\ \A j \in RunIds : j \in Int  BY DEF IInv, RunIds
<1>10. Latest(i)' /\ runs'[i].status # "completed"
  BY <1>1, <1>2, <1>3, <1>9 DEF Latest, RunInv
<1>11. ASSUME NEW r \in Rows PROVE RowInv(r)' /\ PastInv(r)'
  <2>1. RowInv(r)  BY DEF IInv
  <2>2. RowInv(r)'  BY <1>1, <1>5, <2>1 DEF RowInv, Committed
  <2>3. ~(row'[r].state # "none" /\ Behind(r)')  BY <1>1, <1>5, RowMs DEF Behind
  <2>4. PastInv(r)'  BY <1>1, <1>5, <1>10, <2>3 DEF PastInv
  <2> QED BY <2>2, <2>4
<1>12. RunInv'
  <2>1. Counted' = {}  BY <1>1 DEF Counted
  <2>2. Cardinality(Counted') = 0  BY <2>1, FS_EmptySet
  <2>3. \A j \in RunIds : runs'[j].status = "running" <=> j = i
    BY <1>2, <1>3, <1>8 DEF Running
  <2>4. runs'[i].processed = 0  BY <1>1, <1>2, <1>3, <1>9 DEF RunInv
  <2>5. ASSUME NEW j \in RunIds, NEW k \in RunIds, j < k, runs'[j].status = "none"
        PROVE  runs'[k].status = "none"
    <3>1. j # i /\ runs[j].status = "none"  BY <1>2, <1>3, <2>5
    <3>2. ~(j < i)  BY <1>1, <3>1
    <3>5. i \in Int /\ j \in Int /\ k \in Int  BY DEF RunIds
    <3>3. i < j  BY <3>1, <3>2, <3>5
    <3>4. k # i  BY <2>5, <3>3, <3>5
    <3> QED BY <1>3, <1>9, <2>5, <3>1, <3>4 DEF RunInv
  <2>6. \A j \in RunIds : runs'[j].status = "none" => runs'[j].processed = 0
    BY <1>2, <1>3, <1>9 DEF RunInv
  <2> QED BY <2>2, <2>3, <2>4, <2>5, <2>6 DEF RunInv, Running
<1>13. ASSUME NEW w \in Workers PROVE WorkerInv(w)'
  <2>1. WorkerInv(w) /\ worker[w].at \notin {"read", "apply"}  BY <1>1, LockFree DEF IInv
  <2>2. worker[w].at # "idle" /\ worker[w].kind = "rebuild" =>
            /\ worker[w].run \in RunIds /\ worker[w].run # i
            /\ runs'[worker[w].run] = runs[worker[w].run]
    BY <1>1, <1>3, <2>1 DEF WorkerInv
  <2> QED BY <1>1, <1>8, <2>1, <2>2 DEF WorkerInv, Running
<1>14. delivered' # {} => strategy' = "domain_event"  BY <1>1 DEF IInv
<1> QED BY <1>7, <1>11, <1>12, <1>13, <1>14 DEF IInv

----------------------------------------------------------------------------
(* Reading a page. *)

(* A page has no gap: with the last of its rows it has all before it. *)
LEMMA PageIsWhole ==
    ASSUME IInv, NEW S, S \subseteq Rows, NEW last \in TrimIncompleteTail(S),
           NEW r \in S, Ms(row[r].ts) <= Ms(row[last].ts)
    PROVE  r \in TrimIncompleteTail(S)
<1> DEFINE A == UpTo(S, Ms(row[r].ts))
          B == UpTo(S, Ms(row[last].ts))
<1>1. last \in S /\ Cardinality(B) <= Limit  BY DEF TrimIncompleteTail, Fits
<1>2. \A q \in Rows : Ms(row[q].ts) \in Nat  BY RowMs
<1>3. A \subseteq B /\ B \subseteq Rows  BY <1>1, <1>2 DEF UpTo
<1> HIDE DEF A, B
<1>4. IsFiniteSet(B)  BY <1>3, RowsAssumption, FS_Subset
<1>5. IsFiniteSet(A) /\ Cardinality(A) <= Cardinality(B)  BY <1>3, <1>4, FS_Subset
<1>6. Cardinality(A) \in Nat /\ Cardinality(B) \in Nat  BY <1>4, <1>5, FS_CardinalityType
<1>7. Cardinality(A) <= Limit  BY <1>1, <1>5, <1>6, BoundAssumption
<1> QED BY <1>7 DEF TrimIncompleteTail, Fits, A

(* What the pass was allowed to scan under: no other run, and no row that   *)
(* is counted ahead of the cursor.                                          *)
LEMMA MayScanIs ==
    ASSUME IInv, NEW w \in Workers, worker[w].at = "read", MayScan(w)
    PROVE  /\ \A i \in RunIds : Running(i) => worker[w].kind = "rebuild" /\ i = worker[w].run
           /\ \A r \in Rows : Ahead(r) => counted[r] = 0
<1>1. WorkerInv(w) /\ RunInv  BY DEF IInv
<1>2. worker[w].kind \in {"incremental", "rebuild"}  BY WorkerType DEF WorkerRecords
<1>3. \A i \in RunIds : Running(i) => worker[w].kind = "rebuild" /\ i = worker[w].run
  BY <1>1, <1>2 DEF MayScan, FindRunningRebuild, WorkerInv, RunInv
<1>4. strategy = "cursor_table" \/ FindRunningRebuild
  BY <1>1, <1>2 DEF MayScan, FindRunningRebuild, WorkerInv
<1>5. ASSUME NEW r \in Rows, Ahead(r) PROVE counted[r] = 0
  <2>1. RowInv(r) /\ counted[r] \in Nat /\ cursor \in Nat  BY Types DEF IInv
  <2>2. ~Behind(r)  BY <1>5, <2>1, RowMs DEF Ahead, Behind
  <2> QED BY <1>4, <2>1, <2>2 DEF RowInv
<1> QED BY <1>3, <1>5

(* Everything settled is in the counters, or was passed, when nothing is    *)
(* ahead of a rebuild.                                                      *)
LEMMA NothingAhead ==
    ASSUME IInv, \A r \in Rows : ~Ahead(r)
    PROVE  Drained
<1> SUFFICES ASSUME NEW r \in delivered, counted[r] = 0 PROVE row[r].past = "rebuild"
  BY DEF Drained
<1>1. r \in Rows /\ RowInv(r) /\ PastInv(r) /\ cursor \in Nat  BY Types DEF IInv
<1>2. Committed(r) /\ row[r].state # "none"  BY <1>1 DEF RowInv, Committed
<1>3. Behind(r)  BY <1>1, <1>2, RowMs DEF Ahead, Behind
<1> QED BY <1>1, <1>2, <1>3 DEF PastInv

LEMMA ReadPageInv == ASSUME IInv, NEW w \in Workers, ReadPage(w) PROVE IInv'
<1> DEFINE t == worker[w]
          S == Eligible(w)
          P == TrimIncompleteTail(S)
<1>1. /\ t.at = "read" /\ MayScan(w) /\ t \in WorkerRecords
      /\ UNCHANGED <<strategy, clock, row, counted, cursor, runs, delivered, faults>>
  BY WorkerType DEF ReadPage, tables
<1>2. /\ t.kind = "incremental" => strategy = "cursor_table" /\ t.began <= clock
      /\ t.kind = "rebuild" => t.run \in RunIds /\ runs[t.run].status # "none"
      /\ t.kind \in {"incremental", "rebuild"} /\ lock = w
  <2>1. WorkerInv(w)  BY DEF IInv
  <2> QED BY <1>1, <2>1 DEF WorkerInv, WorkerRecords
<1>3. P \subseteq S /\ S \subseteq Rows  BY DEF TrimIncompleteTail, Eligible
<1>4. CASE S = {} /\ lock' = Free(w) /\ worker' = Step(w, "end")
  <2> DEFINE o == [t EXCEPT !.at = "end"]
  <2>1. worker' = [worker EXCEPT ![w] = o]  BY <1>4, Types DEF Step
  <2>2. o \in WorkerRecords /\ o.at = "end" /\ o.kind = t.kind /\ o.run = t.run /\ o.began = t.began
    BY <1>1 DEF WorkerRecords
  <2>3. t.kind = "rebuild" => Drained  BY <1>4, NothingAhead DEF Eligible
  <2> HIDE DEF o
  <2>4. faults' \in Nat  BY <1>1, Types
  <2> QED BY <1>1, <1>2, <1>4, <2>1, <2>2, <2>3, <2>4, FreeIs, WorkerWalks
<1>5. CASE lock' = Free(w) /\ worker' = Step(w, "fail")
  <2> DEFINE o == [t EXCEPT !.at = "fail"]
  <2>1. worker' = [worker EXCEPT ![w] = o]  BY <1>5, Types DEF Step
  <2>2. o \in WorkerRecords /\ o.at = "fail" /\ o.kind = t.kind /\ o.run = t.run /\ o.began = t.began
    BY <1>1 DEF WorkerRecords
  <2> HIDE DEF o
  <2>4. faults' \in Nat  BY <1>1, Types
  <2> QED BY <1>1, <1>2, <1>5, <2>1, <2>2, <2>4, FreeIs, WorkerWalks
<1>6. ASSUME NEW last \in P, \A r \in P : Ms(row[r].ts) <= Ms(row[last].ts),
             worker' = [worker EXCEPT ![w].at = "apply", ![w].page = P,
                                      ![w].upto = Ms(row[last].ts)],
             lock' = lock
      PROVE  IInv'
  <2> DEFINE m == Ms(row[last].ts)
            o == [t EXCEPT !.at = "apply", !.page = P, !.upto = m]
  <2>1. worker' = [worker EXCEPT ![w] = o]  BY <1>6, Types
  <2>2. m \in Nat /\ P \subseteq Rows  BY <1>3, RowMs
  <2>3. /\ \A r \in P : Ahead(r) /\ counted[r] = 0
        /\ \A i \in RunIds : Running(i) => t.kind = "rebuild" /\ i = t.run
    BY <1>1, <1>3, MayScanIs DEF Eligible
  <2>4. t.kind = "incremental" => WithinLag(w, last)  BY <1>3 DEF Eligible
  <2>5. ASSUME NEW r \in Rows, Ahead(r), Ms(row[r].ts) <= m, t.kind = "incremental" => WithinLag(w, r)
        PROVE  r \in P
    <3>1. r \in S  BY <2>5 DEF Eligible
    <3> QED BY <2>5, <3>1, <1>3, PageIsWhole
  <2>6. \A r \in delivered : r \in Rows /\ Committed(r)  BY Types DEF IInv, RowInv
  <2> HIDE DEF P, S, m
  <2>7. /\ o \in WorkerRecords /\ o.at = "apply" /\ o.kind = t.kind /\ o.run = t.run
        /\ o.began = t.began /\ o.page = P /\ o.upto = m
    BY <1>1, <2>2 DEF WorkerRecords
  <2> HIDE DEF o
  <2>8. worker'[w] = o  BY <2>1, Types
  <2>9. \A r \in Rows : WithinLag(w, r)' <=> WithinLag(w, r)
    BY <1>1, <2>7, <2>8 DEF WithinLag
  <2>10. PageInv(w)'
    <3>1. \A r \in P : /\ Committed(r) /\ counted[r] = 0
                       /\ cursor < Ms(row[r].ts) /\ Ms(row[r].ts) <= m
      BY <1>6, <2>2, <2>3, Types, RowMs DEF Ahead, m
    <3>2. \E l \in P : Ms(row[l].ts) = m /\ (t.kind = "incremental" => row[l].ts + Lag <= t.began)
      BY <1>6, <2>4 DEF m, WithinLag
    <3>3. t.kind = "incremental" =>
            \A r \in Rows : /\ Committed(r) /\ row[r].ts + Lag <= t.began /\ r \notin P
                            /\ cursor < Ms(row[r].ts) /\ Ms(row[r].ts) <= m
                            => row[r].late
      BY <2>5, Types, RowMs DEF Ahead, WithinLag
    <3>4. t.kind = "rebuild" =>
            \A r \in delivered : cursor < Ms(row[r].ts) /\ Ms(row[r].ts) <= m => r \in P
      BY <2>5, <2>6, Types, RowMs DEF Ahead
    <3> QED BY <1>1, <2>3, <2>7, <2>8, <3>1, <3>2, <3>3, <3>4
            DEF PageInv, Committed, WithinLag, Running
  <2>11. /\ faults' \in Nat /\ runs' \in [RunIds -> RunRecords]
         /\ \A i \in RunIds : runs'[i].status = "running" => Running(i)
    BY <1>1, Types DEF Running
  <2> QED BY <1>1, <1>2, <1>6, <2>1, <2>7, <2>10, <2>11, WorkerMoves
<1> QED BY <1>4, <1>5, <1>6 DEF ReadPage

----------------------------------------------------------------------------
(* Adding a page. *)

(* What a commit leaves behind its cursor, and why. *)
LEMMA PassedRow ==
    ASSUME IInv, NEW w \in Workers, worker[w].at = "apply", NEW r \in Rows,
           Overtaken(w, r, worker[w].upto)
    PROVE  /\ PassedBy(w, r, worker[w].upto) \in {"rebuild", "split", "incremental"}
           /\ PassedBy(w, r, worker[w].upto) \in {"incremental", "split"} => strategy = "cursor_table"
           /\ PassedBy(w, r, worker[w].upto) = "incremental" =>
                row[r].ts + Lag <= clock /\ (Committed(r) => row[r].late)
<1> DEFINE t == worker[w]
          m == t.upto
<1>1. WorkerInv(w) /\ PageInv(w) /\ PastInv(r)  BY DEF IInv, WorkerInv
<1>2. /\ t.kind \in {"incremental", "rebuild"} /\ m \in Nat /\ t.began \in Nat /\ t.page \subseteq Rows
      /\ clock \in Nat /\ cursor \in Nat /\ Lag \in Nat /\ row[r].ts \in Nat /\ Ms(row[r].ts) \in Nat
  BY WorkerType, Types, RowMs, TimeAssumption DEF WorkerRecords
<1>3. /\ row[r].state # "none" /\ Ms(row[r].ts) <= m /\ counted[r] = 0 /\ r \notin t.page
      /\ row[r].past = "nobody"
  BY DEF Overtaken
<1>4. t.kind = "incremental" => strategy = "cursor_table" /\ t.began <= clock
  BY <1>1 DEF WorkerInv
<1>5. ASSUME PassedBy(w, r, m) = "incremental"
      PROVE  row[r].ts + Lag <= clock /\ (Committed(r) => row[r].late)
  <2>1. t.kind = "incremental" /\ (Ms(row[r].ts) = m => WithinLag(w, r))
    BY <1>2, <1>5 DEF PassedBy
  <2>2. WithinLag(w, r)
    <3>1. PICK last \in t.page : Ms(row[last].ts) = m /\ WithinLag(w, last)
      BY <1>1, <2>1 DEF PageInv
    <3>2. row[last].ts \in Nat  BY <1>2, <3>1, RowMs
    <3>3. CASE Ms(row[r].ts) < m
      <4>1. row[r].ts <= row[last].ts  BY <1>2, <3>1, <3>2, <3>3, MsFacts
      <4> QED BY <1>2, <3>1, <3>2, <4>1 DEF WithinLag
    <3> QED BY <1>2, <1>3, <2>1, <3>3
  <2>3. row[r].ts + Lag <= clock  BY <1>2, <1>4, <2>1, <2>2 DEF WithinLag
  <2>4. cursor < Ms(row[r].ts)  BY <1>1, <1>2, <1>3 DEF PastInv, Behind
  <2>5. Committed(r) => row[r].late  BY <1>1, <1>3, <2>1, <2>2, <2>4 DEF PageInv
  <2> QED BY <2>3, <2>5
<1>6. PassedBy(w, r, m) \in {"rebuild", "split", "incremental"}
      /\ (PassedBy(w, r, m) # "rebuild" => t.kind = "incremental")
  BY <1>2 DEF PassedBy
<1> QED BY <1>4, <1>5, <1>6

(* The rows after a page has been added. *)
LEMMA CommitRows ==
    ASSUME IInv, NEW w \in Workers, CommitPage(w)
    PROVE  /\ row' \in [Rows -> RowRecords]
           /\ \A r \in Rows :
                /\ row'[r].state = row[r].state /\ row'[r].ts = row[r].ts /\ row'[r].late = row[r].late
                /\ row'[r].past = IF Overtaken(w, r, worker[w].upto)
                                  THEN PassedBy(w, r, worker[w].upto) ELSE row[r].past
<1> DEFINE m == worker[w].upto
<1>1. row' = [r \in Rows |-> IF Overtaken(w, r, m)
                             THEN [row[r] EXCEPT !.past = PassedBy(w, r, m)] ELSE row[r]]
  BY DEF CommitPage
<1>2. ASSUME NEW r \in Rows
      PROVE  /\ row'[r] \in RowRecords
             /\ row'[r].state = row[r].state /\ row'[r].ts = row[r].ts /\ row'[r].late = row[r].late
             /\ row'[r].past = IF Overtaken(w, r, m) THEN PassedBy(w, r, m) ELSE row[r].past
  <2>1. row[r] \in RowRecords  BY RowMs
  <2>2. CASE ~Overtaken(w, r, m)  BY <1>1, <2>1, <2>2
  <2>3. CASE Overtaken(w, r, m)
    <3>1. PICK p \in PastValues : p = PassedBy(w, r, m)
      BY <2>3, PassedRow DEF CommitPage, PastValues
    <3>2. row'[r] = [row[r] EXCEPT !.past = p]  BY <1>1, <2>3, <3>1
    <3> QED BY <2>1, <2>3, <3>1, <3>2 DEF RowRecords
  <2> QED BY <2>2, <2>3
<1>3. row' \in [Rows -> RowRecords]  BY <1>1, <1>2
<1> QED BY <1>2, <1>3

LEMMA CommitPageInv == ASSUME IInv, NEW w \in Workers, CommitPage(w) PROVE IInv'
<1> DEFINE t == worker[w]
          P == t.page
          m == t.upto
          i == t.run
<1>1. /\ t.at = "apply" /\ counted' = [r \in Rows |-> counted[r] + IF r \in P THEN 1 ELSE 0]
      /\ cursor' = m /\ lock' = Free(w)
      /\ UNCHANGED <<strategy, clock, delivered, faults>>
  BY DEF CommitPage
<1>2. WorkerInv(w) /\ PageInv(w) /\ RunInv  BY <1>1 DEF IInv, WorkerInv
<1>3. /\ t \in WorkerRecords /\ P \subseteq Rows /\ m \in Nat /\ t.passes \in Nat
      /\ IsFiniteSet(P) /\ Cardinality(P) \in Nat
      /\ t.kind \in {"incremental", "rebuild"} /\ cursor \in Nat /\ clock \in Nat
  BY WorkerType, Types DEF WorkerRecords
<1>4. /\ t.kind = "incremental" => strategy = "cursor_table"
      /\ t.kind = "rebuild" => i \in RunIds /\ runs[i].status # "none"
      /\ lock = w
  BY <1>1, <1>2 DEF WorkerInv
<1>5. cursor < m
  <2>1. PICK last \in P : Ms(row[last].ts) = m  BY <1>2 DEF PageInv
  <2> QED BY <1>2, <2>1 DEF PageInv
<1>6. /\ counted' \in [Rows -> Nat]
      /\ \A r \in Rows : counted'[r] = IF r \in P THEN 1 ELSE counted[r]
  <2>1. \A r \in P : counted[r] = 0  BY <1>2 DEF PageInv
  <2> QED BY <1>1, <2>1, Types
<1>7. /\ row' \in [Rows -> RowRecords]
      /\ \A r \in Rows :
            /\ row'[r].state = row[r].state /\ row'[r].ts = row[r].ts /\ row'[r].late = row[r].late
            /\ row'[r].past = IF Overtaken(w, r, m) THEN PassedBy(w, r, m) ELSE row[r].past
  BY CommitRows
<1>8. /\ runs' \in [RunIds -> RunRecords]
      /\ \A j \in RunIds :
            /\ runs'[j].status = runs[j].status
            /\ runs'[j].processed = IF t.kind = "rebuild" /\ j = i
                                    THEN runs[j].processed + Cardinality(P) ELSE runs[j].processed
  <2>1. CASE t.kind = "rebuild"
    <3> DEFINE n == [runs[i] EXCEPT !.processed = @ + Cardinality(P)]
    <3>1. runs' = [runs EXCEPT ![i] = n]  BY <2>1, Types, <1>4 DEF CommitPage
    <3>2. n \in RunRecords /\ n.status = runs[i].status
          /\ n.processed = runs[i].processed + Cardinality(P)
      <4> DEFINE c == Cardinality(P)
      <4>1. c \in Nat  BY <1>3
      <4> HIDE DEF c
      <4>2. runs[i].processed + c \in Nat  BY <4>1, <1>4, <2>1, RunType
      <4> QED BY <4>2, <1>4, <2>1, RunType DEF RunRecords, c
    <3> HIDE DEF n
    <3> QED BY <2>1, <3>1, <3>2, <1>4, Types
  <2>2. CASE t.kind # "rebuild"
    <3>1. runs' = runs  BY <2>2 DEF CommitPage
    <3> QED BY <2>2, <3>1, Types
  <2> QED BY <2>1, <2>2
<1>9. PICK o \in WorkerRecords :
        /\ worker' = [worker EXCEPT ![w] = o] /\ o.at \in {"idle", "lock"}
        /\ o.at = "lock" => o.kind = t.kind /\ o.run = i
        /\ o.at = "lock" /\ o.kind = "incremental" => o.began = clock
  <2>1. CASE t.passes + 1 = MaxPasses  BY <2>1, IdleIs DEF CommitPage
  <2>2. CASE t.passes + 1 # MaxPasses
    <3> DEFINE b == IF t.kind = "incremental" THEN clock ELSE 0
              o == [t EXCEPT !.at = "lock", !.page = {}, !.upto = 0, !.passes = @ + 1, !.began = b]
    <3>1. worker' = [worker EXCEPT ![w] = o]  BY <2>2, Types DEF CommitPage
    <3>2. b \in Nat /\ (t.kind = "incremental" => b = clock) /\ t.passes + 1 \in Nat  BY <1>3
    <3> HIDE DEF b
    <3>3. o \in WorkerRecords /\ o.at = "lock" /\ o.kind = t.kind /\ o.run = i /\ o.began = b
      BY <1>3, <3>2 DEF WorkerRecords
    <3> HIDE DEF o
    <3> QED BY <3>1, <3>2, <3>3
  <2> QED BY <2>1, <2>2
<1>10. TypeOK' /\ clock' >= MsTicks
  <2>1. worker' \in [Workers -> WorkerRecords]  BY <1>9, Types
  <2>2. lock' \in Workers \cup {Nobody}  BY <1>1, FreeIs
  <2> QED BY <1>1, <1>3, <1>6, <1>7, <1>8, <2>1, <2>2, Types DEF IInv, TypeOK
<1>11. \A j \in RunIds : Running(j)' <=> Running(j)  BY <1>8 DEF Running
<1>12. FindRunningRebuild' => FindRunningRebuild  BY <1>11 DEF FindRunningRebuild
<1>13. ASSUME NEW r \in Rows PROVE RowInv(r)'
  <2>1. RowInv(r)  BY DEF IInv
  <2>2. Behind(r) => Behind(r)'  BY <1>1, <1>3, <1>5, <1>7, RowMs DEF Behind
  <2>3. r \in P => Behind(r)' /\ Committed(r)  BY <1>1, <1>2, <1>7 DEF PageInv, Behind
  <2>4. Committed(r)' <=> Committed(r)  BY <1>7 DEF Committed
  <2> QED BY <1>1, <1>6, <1>7, <1>12, <2>1, <2>2, <2>3, <2>4, Types DEF RowInv
<1>14. ASSUME NEW r \in Rows PROVE PastInv(r)'
  <2>1. PastInv(r)  BY DEF IInv
  <2>2. Committed(r)' <=> Committed(r)  BY <1>7 DEF Committed
  <2>3. Behind(r)' <=> Ms(row[r].ts) <= m  BY <1>1, <1>7 DEF Behind
  <2>4. \A j \in RunIds : Latest(j) /\ runs[j].status # "completed" =>
            Latest(j)' /\ runs'[j].status # "completed"
    BY <1>8 DEF Latest
  <2>5. CASE Overtaken(w, r, m)
    <3>1. /\ row[r].state # "none" /\ counted[r] = 0 /\ r \notin P /\ row[r].past = "nobody"
      BY <2>5 DEF Overtaken
    <3>2. counted'[r] = 0 /\ row'[r].past = PassedBy(w, r, m)  BY <1>6, <1>7, <2>5, <3>1
    <3>3. r \notin delivered  BY <2>1, <3>1 DEF PastInv
    <3>4. /\ row'[r].past \in {"rebuild", "split", "incremental"}
          /\ row'[r].past \in {"incremental", "split"} => strategy = "cursor_table"
          /\ row'[r].past = "incremental" => row[r].ts + Lag <= clock /\ (Committed(r) => row[r].late)
      BY <1>1, <2>5, <3>2, PassedRow
    <3> QED BY <1>1, <1>7, <2>2, <3>1, <3>2, <3>3, <3>4 DEF PastInv
  <2>6. CASE ~Overtaken(w, r, m)
    <3>1. row'[r].past = row[r].past  BY <1>7, <2>6
    <3>2. counted'[r] = 0 => counted[r] = 0 /\ r \notin P  BY <1>6
    <3>3. ASSUME row[r].state # "none", Ms(row[r].ts) <= m, counted'[r] = 0
          PROVE  row[r].past \notin {"nobody", "reset"}
      <4>1. row[r].past # "nobody"  BY <2>6, <3>2, <3>3 DEF Overtaken
      <4>2. ASSUME row[r].past = "reset" PROVE FALSE
        <5>1. r \in delivered /\ strategy = "domain_event"  BY <2>1, <4>2 DEF PastInv, IInv
        <5>2. t.kind = "rebuild"  BY <1>3, <1>4, <5>1
        <5>3. ~(cursor < Ms(row[r].ts))  BY <1>2, <3>2, <3>3, <5>1, <5>2 DEF PageInv
        <5>4. Behind(r)  BY <1>3, <5>3, RowMs DEF Behind
        <5> QED BY <2>1, <3>2, <3>3, <4>2, <5>4 DEF PastInv
      <4> QED BY <4>1, <4>2
    <3> QED BY <1>1, <1>7, <2>1, <2>2, <2>3, <2>4, <3>1, <3>2, <3>3 DEF PastInv
  <2> QED BY <2>5, <2>6
<1>15. RunInv'
  <2>1. Counted' = Counted \cup P /\ Counted \cap P = {}
    <3>1. \A r \in P : counted[r] = 0  BY <1>2 DEF PageInv
    <3> QED BY <1>3, <1>6, <3>1 DEF Counted
  <2>2. IsFiniteSet(Counted) /\ Cardinality(Counted) \in Nat
    BY RowsAssumption, FS_Subset, FS_CardinalityType DEF Counted
  <2>3. Cardinality(Counted') = Cardinality(Counted) + Cardinality(P)
    <3>1. Cardinality(Counted \cup P) =
            Cardinality(Counted) + Cardinality(P) - Cardinality(Counted \cap P)
      BY <1>3, <2>2, FS_Union
    <3>2. Cardinality(Counted \cap P) = 0  BY <2>1, FS_EmptySet
    <3> QED BY <1>3, <2>1, <2>2, <3>1, <3>2
  <2>4. ASSUME NEW j \in RunIds, Running(j) PROVE runs'[j].processed = Cardinality(Counted')
    <3>1. t.kind = "rebuild" /\ j = i  BY <1>2, <2>4 DEF PageInv
    <3>2. runs[j].processed = Cardinality(Counted)  BY <1>2, <2>4 DEF RunInv
    <3>3. runs'[j].processed = runs[j].processed + Cardinality(P)  BY <1>8, <3>1
    <3> QED BY <2>3, <3>2, <3>3
  <2>5. \A j \in RunIds : runs'[j].status = "none" => runs'[j].processed = 0
    BY <1>2, <1>4, <1>8 DEF RunInv
  <2> QED BY <1>2, <1>8, <1>11, <2>4, <2>5 DEF RunInv
<1>16. ASSUME NEW v \in Workers PROVE WorkerInv(v)'
  <2>1. CASE v = w
    <3>1. worker'[w] = o  BY <1>9, Types
    <3>2. lock' # w  BY <1>1, FreeIs
    <3> QED BY <1>1, <1>3, <1>4, <1>8, <1>9, <2>1, <3>1, <3>2 DEF WorkerInv
  <2>2. CASE v # w
    <3>1. worker'[v] = worker[v]  BY <1>9, <2>2, Types
    <3>2. WorkerInv(v)  BY DEF IInv
    <3>3. worker[v].at \notin {"read", "apply"}  BY <1>4, <2>2, <3>2 DEF WorkerInv
    <3>4. lock' # v  BY <1>1, <1>4, <2>2, FreeIs
    <3>5. \A r \in delivered : r \in Rows  BY Types
    <3>6. \A r \in Rows : counted'[r] = 0 => counted[r] = 0  BY <1>6
    <3>7. \A r \in Rows : row[r].past = "rebuild" => row'[r].past = "rebuild"
      BY <1>7 DEF Overtaken
    <3> QED BY <1>1, <1>8, <3>1, <3>2, <3>3, <3>4, <3>5, <3>6, <3>7 DEF WorkerInv, Running
  <2> QED BY <2>1, <2>2
<1>17. delivered' # {} => strategy' = "domain_event"  BY <1>1 DEF IInv
<1> QED BY <1>10, <1>13, <1>14, <1>15, <1>16, <1>17 DEF IInv

----------------------------------------------------------------------------
(* The theorems. *)

LEMMA InitInv == Init => IInv
<1> SUFFICES ASSUME Init PROVE IInv  OBVIOUS
<1>1. /\ strategy \in {"cursor_table", "domain_event"} /\ clock = MsTicks /\ cursor = 0
      /\ lock = Nobody /\ worker = [w \in Workers |-> Idle] /\ delivered = {} /\ faults = 0
      /\ counted = [r \in Rows |-> 0]
      /\ row = [r \in Rows |-> [state |-> "none", ts |-> 0, late |-> FALSE, past |-> "nobody"]]
      /\ runs = [i \in RunIds |-> [status |-> "none", cancel |-> FALSE, processed |-> 0]]
  BY DEF Init, NoCursor
<1>2. MsTicks \in Nat  BY TimeAssumption
<1>3. TypeOK
  <2>1. row \in [Rows -> RowRecords]  BY <1>1 DEF RowRecords, PastValues
  <2>2. runs \in [RunIds -> RunRecords]  BY <1>1 DEF RunRecords
  <2>3. worker \in [Workers -> WorkerRecords]  BY <1>1, IdleIs
  <2> QED BY <1>1, <1>2, <2>1, <2>2, <2>3 DEF TypeOK
<1>4. \A r \in Rows : RowInv(r) /\ PastInv(r)  BY <1>1 DEF RowInv, PastInv
<1>5. RunInv  BY <1>1 DEF RunInv, Running
<1>6. \A w \in Workers : WorkerInv(w)  BY <1>1, IdleIs, WorkerAssumption DEF WorkerInv
<1> QED BY <1>1, <1>2, <1>3, <1>4, <1>5, <1>6 DEF IInv

LEMMA StutterInv == IInv /\ UNCHANGED vars => IInv'
BY DEF vars, tables, IInv, TypeOK, RowInv, PastInv, RunInv, WorkerInv, PageInv, Counted, Committed, Behind,
   FindRunningRebuild, Running, Latest, WithinLag

LEMMA NextInv == IInv /\ [Next]_vars => IInv'
<1> SUFFICES ASSUME IInv, [Next]_vars PROVE IInv'  OBVIOUS
<1>1. CASE Source
  BY <1>1, TickInv, WriteRowInv, CommitRowInv, DeliverEventInv DEF Source
<1>2. CASE Requests  BY <1>2, TriggerRebuildInv, RequestCancellationInv DEF Requests
<1>3. ASSUME NEW w \in Workers, StartUpdate(w) \/ StartRebuild(w) PROVE IInv'
  BY <1>3, StartUpdateInv, StartRebuildInv
<1>4. ASSUME NEW w \in Workers, PassStep(w) PROVE IInv'
  BY <1>4, LockProjectionInv, SkipForRebuildInv, RunHasEndedInv, MarkCancelledInv, ReadPageInv,
     CommitPageInv, FinishDrainedInv, RecordFailureInv DEF PassStep
<1>5. ASSUME NEW w \in Workers, WorkerFault(w) PROVE IInv'
  BY <1>5, PassFailsInv, WorkerDiesInv DEF WorkerFault
<1>6. CASE UNCHANGED vars  BY <1>6, StutterInv
<1> QED BY <1>1, <1>2, <1>3, <1>4, <1>5, <1>6 DEF Next

(* The records keep their types. *)
THEOREM TypeCorrect == Spec => []TypeOK
<1>1. IInv => TypeOK  BY DEF IInv
<1> QED BY <1>1, InitInv, NextInv, PTL DEF Spec

(* What a pass has read under the lock stays so until it gives the lock     *)
(* back: the invariant of the module.                                       *)
THEOREM Invariant == Spec => []IInv
BY InitInv, NextInv, PTL DEF Spec

(* No row is in the counters twice, whatever passes, resets, deliveries and *)
(* failures overlap, and a rebuild's progress is what it has added.         *)
THEOREM CountedOnceCorrect == Spec => []CountedOnce
<1>1. IInv => CountedOnce  BY DEF IInv, RowInv, RunInv, CountedOnce, Counted
<1> QED BY <1>1, Invariant, PTL

(* The cursor leaves a committed row uncounted only if its writer stayed    *)
(* open for the lag, or a rebuild or a bound inside its millisecond has     *)
(* passed it.                                                               *)
LEMMA NothingElse == IInv => NothingElseSkipped
<1> SUFFICES ASSUME IInv, NEW r \in Rows, strategy = "cursor_table", Committed(r), Behind(r),
                    counted[r] = 0, ~row[r].late
             PROVE  row[r].past \in {"rebuild", "split"}
  BY DEF NothingElseSkipped, SkippedOnlyIf
<1>1. PastInv(r) /\ row[r].past \in PastValues  BY RowMs DEF IInv, RowRecords
<1>2. row[r].state # "none"  BY DEF Committed
<1> QED BY <1>1, <1>2 DEF PastInv, PastValues

THEOREM SkipsCorrect == Spec => []NothingElseSkipped
BY NothingElse, Invariant, PTL

(* A settled event is in the counters, unless a rebuild passed it before it *)
(* was visible or has taken it out and not completed since.                 *)
LEMMA SettledIsCounted == IInv => DeliveredIsCounted
<1> SUFFICES ASSUME IInv, NEW r \in delivered, counted[r] = 0, row[r].past # "rebuild"
             PROVE  /\ row[r].past = "reset" /\ ~Behind(r)
                    /\ \E i \in RunIds : Latest(i) /\ runs[i].status # "completed"
  BY DEF DeliveredIsCounted
<1>1. r \in Rows /\ RowInv(r) /\ PastInv(r)  BY Types DEF IInv
<1>2. row[r].state # "none"  BY <1>1 DEF RowInv, Committed
<1> QED BY <1>1, <1>2 DEF PastInv

THEOREM DeliveredCorrect == Spec => []DeliveredIsCounted
BY SettledIsCounted, Invariant, PTL
=============================================================================
