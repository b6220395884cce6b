---------------------------- MODULE EmailDispatch ----------------------------
(***************************************************************************)
(* The e-mail outbox of a tenant: dispatchEmailQueue                       *)
(* (modules/email/application/email-dispatch.ts) claims due rows for a     *)
(* lease, asks the provider outside any transaction, records the attempt   *)
(* and finalizes the row, each in a transaction of its own.  Cron starts a *)
(* pass every minute and nothing keeps passes apart: a pass of a full      *)
(* batch may outlast its lease, and another one then claims its rows.      *)
(* Messages are enqueued, cancelled, and their recipients suppressed, at   *)
(* any time.                                                               *)
(***************************************************************************)
EXTENDS Integers, FiniteSets

CONSTANTS
    Messages,    \* one recipient each
    Workers,     \* dispatcher processes, each running one pass after another
    Limit,       \* EMAIL_DISPATCH_DEFAULT_LIMIT
    MaxRetries,  \* EMAIL_SEND_MAX_RETRIES
    MaxMishaps,  \* bound on crashes, skipped sends and answers not heard
    None

ASSUME MaxRetriesAssumption == MaxRetries \in Nat
ASSUME BoundsAssumption == Limit \in Nat \ {0} /\ MaxMishaps \in Nat

VARIABLES
    status,     \* status of each row; "none" before it is enqueued
    due,        \* next_attempt_at is null or has passed
    retries,    \* retry_count
    ledger,     \* awcms_email_delivery_attempts: outcome by message and attempt_no
    suppressed, \* messages whose recipient is on the suppression list
    pc,         \* each worker's place in its pass
    skip,       \* the suppression list as the pass read it
    claim,      \* retry_count of each row the pass has claimed and not finalized
    cur,        \* the message in the provider's hands, or being finalized
    result,     \* what the provider answered
    told,       \* history: how often the provider accepted each message
    excused,    \* history: acceptances whose pass died or never heard of them
    overtaken,  \* history: messages whose lease ran out while their pass went on
    mishaps

rows == <<status, due, retries>>
pass == <<pc, skip, claim, cur, result>>
history == <<told, excused, overtaken>>
vars == <<rows, ledger, suppressed, pass, history, mishaps>>

Terminal == {"sent", "failed", "suppressed", "cancelled"}
Statuses == {"none", "queued", "retry_wait", "sending"} \cup Terminal
Results == {"accepted", "unheard", "retryable", "permanent", "skipped"}
Attempts == 1 .. MaxRetries + 1
ASSUME NoneAssumption == None \notin Messages /\ None \notin Nat /\ None \notin Results

Holds(w, m) == claim[w][m] # None
Held(w) == {m \in Messages : Holds(w, m)}

TypeOK ==
    /\ status \in [Messages -> Statuses]
    /\ due \in [Messages -> BOOLEAN]
    /\ retries \in [Messages -> 0 .. MaxRetries + 1]
    /\ ledger \in [Messages -> [Attempts -> {"none", "success", "failure"}]]
    /\ suppressed \subseteq Messages
    /\ pc \in [Workers -> {"idle", "claimed", "loop", "record", "finalize"}]
    /\ skip \in [Workers -> SUBSET Messages]
    /\ claim \in [Workers -> [Messages -> 0 .. MaxRetries \cup {None}]]
    /\ cur \in [Workers -> Messages \cup {None}]
    /\ result \in [Workers -> Results \cup {None}]
    /\ told \in [Messages -> Nat] /\ excused \in [Messages -> Nat]
    /\ overtaken \subseteq Messages
    /\ mishaps \in 0 .. MaxMishaps

Init ==
    /\ status = [m \in Messages |-> "none"] /\ due = [m \in Messages |-> TRUE]
    /\ retries = [m \in Messages |-> 0]
    /\ ledger = [m \in Messages |-> [n \in Attempts |-> "none"]]
    /\ suppressed = {}
    /\ pc = [w \in Workers |-> "idle"] /\ skip = [w \in Workers |-> {}]
    /\ claim = [w \in Workers |-> [m \in Messages |-> None]]
    /\ cur = [w \in Workers |-> None] /\ result = [w \in Workers |-> None]
    /\ told = [m \in Messages |-> 0] /\ excused = [m \in Messages |-> 0]
    /\ overtaken = {} /\ mishaps = 0

-----------------------------------------------------------------------------
(* The rest of the program and time *)

Enqueue(m) ==
    /\ status[m] = "none" /\ m \notin suppressed
    /\ status' = [status EXCEPT ![m] = "queued"]
    /\ UNCHANGED <<due, retries, ledger, suppressed, pass, history, mishaps>>

Cancel(m) ==
    /\ status[m] \in {"queued", "retry_wait"}
    /\ status' = [status EXCEPT ![m] = "cancelled"] /\ due' = [due EXCEPT ![m] = TRUE]
    /\ UNCHANGED <<retries, ledger, suppressed, pass, history, mishaps>>

Suppress(m) ==
    /\ \/ m \notin suppressed /\ suppressed' = suppressed \cup {m}
       \/ m \in suppressed /\ suppressed' = suppressed \ {m}
    /\ UNCHANGED <<rows, ledger, pass, history, mishaps>>

(* A lease or a back-off runs out *)
Elapse(m) ==
    /\ ~due[m] /\ due' = [due EXCEPT ![m] = TRUE]
    /\ UNCHANGED <<status, retries, ledger, suppressed, pass, history, mishaps>>

-----------------------------------------------------------------------------
(* Claim.  Mutants: a row that is being sent is never claimed again; the    *)
(* lease is written and not read.                                           *)
EligibleUnlessSending(m) == status[m] \in {"queued", "retry_wait"} /\ due[m]
EligibleLeasedOrNot(m) ==
    \/ status[m] = "sending"
    \/ status[m] \in {"queued", "retry_wait"} /\ due[m]
Eligible(m) == status[m] \in {"queued", "retry_wait", "sending"} /\ due[m]

(* Any of the eligible rows: the order of the query, by priority and age,   *)
(* and the rows it skips because they are locked are left open.             *)
Claim(w, S) ==
    /\ pc[w] = "idle" /\ S # {} /\ Cardinality(S) <= Limit
    /\ \A m \in S : Eligible(m)
    /\ status' = [m \in Messages |-> IF m \in S THEN "sending" ELSE status[m]]
    /\ due' = [m \in Messages |-> due[m] /\ m \notin S]
    /\ claim' = [claim EXCEPT ![w] = [m \in Messages |-> IF m \in S THEN retries[m] ELSE None]]
    /\ pc' = [pc EXCEPT ![w] = "claimed"]
    /\ overtaken' = overtaken \cup
           {m \in S : status[m] = "sending" /\ due[m] /\ \E v \in Workers : Holds(v, m)}
    /\ UNCHANGED <<retries, ledger, suppressed, skip, cur, result, told, excused, mishaps>>

LoadSuppressed(w) ==
    /\ pc[w] = "claimed"
    /\ pc' = [pc EXCEPT ![w] = "loop"] /\ skip' = [skip EXCEPT ![w] = suppressed]
    /\ UNCHANGED <<rows, ledger, suppressed, claim, cur, result, history, mishaps>>

(* The row leaves the pass; after the last one, the pass is over. *)
Leave(w, m) ==
    /\ claim' = [claim EXCEPT ![w][m] = None]
    /\ pc' = [pc EXCEPT ![w] = IF Held(w) = {m} THEN "idle" ELSE "loop"]
    /\ skip' = [skip EXCEPT ![w] = IF Held(w) = {m} THEN {} ELSE @]
    /\ cur' = [cur EXCEPT ![w] = None] /\ result' = [result EXCEPT ![w] = None]

Write(m, st, n, d) ==
    IF status[m] = "sending"
    THEN /\ status' = [status EXCEPT ![m] = st] /\ retries' = [retries EXCEPT ![m] = n]
         /\ due' = [due EXCEPT ![m] = d]
    ELSE UNCHANGED rows

PassOver(w, m) ==
    /\ pc[w] = "loop" /\ Holds(w, m) /\ m \in skip[w]
    /\ Write(m, "suppressed", retries[m], TRUE)
    /\ Leave(w, m)
    /\ UNCHANGED <<ledger, suppressed, history, mishaps>>

(* The provider accepts, refuses for now or for good (so does a missing     *)
(* template, without the provider), is not asked at all because the breaker *)
(* has opened, or accepts and is not heard in time.                         *)
Answer(w, m, r) ==
    /\ pc[w] = "loop" /\ Holds(w, m) /\ m \notin skip[w]
    /\ cur' = [cur EXCEPT ![w] = m] /\ result' = [result EXCEPT ![w] = r]
    /\ told' = IF r \in {"accepted", "unheard"} THEN [told EXCEPT ![m] = @ + 1] ELSE told
    /\ excused' = IF r = "unheard" THEN [excused EXCEPT ![m] = @ + 1] ELSE excused
    /\ IF r \in {"skipped", "unheard"}
       THEN mishaps < MaxMishaps /\ mishaps' = mishaps + 1
       ELSE UNCHANGED mishaps
    /\ UNCHANGED <<rows, ledger, suppressed, skip, claim, overtaken>>

(* Mutant: only a success is recorded. *)
SendRecordingSuccess(w, m) == \E r \in Results :
    /\ Answer(w, m, r)
    /\ pc' = [pc EXCEPT ![w] = IF r = "accepted" THEN "record" ELSE "finalize"]
Send(w, m) == \E r \in Results :
    /\ Answer(w, m, r)
    /\ pc' = [pc EXCEPT ![w] = IF r = "skipped" THEN "finalize" ELSE "record"]

(* INSERT ... ON CONFLICT DO NOTHING *)
Record(w) ==
    LET m == cur[w]
        n == claim[w][m] + 1 IN
    /\ pc[w] = "record" /\ pc' = [pc EXCEPT ![w] = "finalize"]
    /\ ledger' = IF ledger[m][n] # "none" THEN ledger
                 ELSE [ledger EXCEPT ![m][n] =
                           IF result[w] = "accepted" THEN "success" ELSE "failure"]
    /\ UNCHANGED <<rows, suppressed, skip, claim, cur, result, history, mishaps>>

RetryEligible(n) == n < MaxRetries

Finalize(w) ==
    LET m == cur[w]
        n == claim[w][m] IN
    /\ pc[w] = "finalize"
    /\ \/ result[w] = "accepted" /\ Write(m, "sent", retries[m], TRUE)
       \/ result[w] = "skipped" /\ Write(m, "queued", retries[m], TRUE)
       \/ /\ result[w] \in {"unheard", "retryable"} /\ RetryEligible(n)
          /\ Write(m, "retry_wait", n + 1, FALSE)
       \/ /\ \/ result[w] = "permanent"
             \/ result[w] \in {"unheard", "retryable"} /\ ~RetryEligible(n)
          /\ Write(m, "failed", n + 1, TRUE)
    /\ Leave(w, m)
    /\ UNCHANGED <<ledger, suppressed, history, mishaps>>

(* The process dies, or a transaction fails and its exception ends the pass *)
Crash(w) ==
    /\ pc[w] # "idle" /\ mishaps < MaxMishaps /\ mishaps' = mishaps + 1
    /\ pc' = [pc EXCEPT ![w] = "idle"] /\ skip' = [skip EXCEPT ![w] = {}]
    /\ claim' = [claim EXCEPT ![w] = [m \in Messages |-> None]]
    /\ cur' = [cur EXCEPT ![w] = None] /\ result' = [result EXCEPT ![w] = None]
    /\ excused' = IF result[w] = "accepted" THEN [excused EXCEPT ![cur[w]] = @ + 1] ELSE excused
    /\ UNCHANGED <<rows, ledger, suppressed, told, overtaken>>

-----------------------------------------------------------------------------
Work(w) ==
    \/ LoadSuppressed(w) \/ Record(w) \/ Finalize(w)
    \/ \E m \in Messages : PassOver(w, m) \/ Send(w, m)

Next ==
    \/ \E m \in Messages : Enqueue(m) \/ Cancel(m) \/ Suppress(m) \/ Elapse(m)
    \/ \E w \in Workers : Work(w) \/ Crash(w) \/ \E S \in SUBSET Messages : Claim(w, S)

Spec == Init /\ [][Next]_vars

(* A pass goes on, time passes, and the query's order by age gives every    *)
(* due row its turn in one of the passes cron starts every minute.          *)
ClaimOf(m) == \E w \in Workers, S \in SUBSET Messages : m \in S /\ Claim(w, S)
Fairness ==
    /\ \A w \in Workers : WF_vars(Work(w))
    /\ \A m \in Messages : WF_vars(Elapse(m)) /\ SF_vars(ClaimOf(m))
LiveSpec == Spec /\ Fairness

-----------------------------------------------------------------------------
(* What is sent, failed, suppressed or cancelled stays so, whatever a pass  *)
(* whose claim was taken over still writes.                                 *)
TerminalKept ==
    [][\A m \in Messages : status[m] \in Terminal => status'[m] = status[m]]_vars

(* The row and the ledger agree: every attempt retry_count stands for has   *)
(* its record, although it is written in another transaction; a recorded    *)
(* success and the status "sent" mean that the provider did accept.         *)
RowAndLedgerAgree ==
    \A m \in Messages :
        /\ \A n \in 1 .. retries[m] : ledger[m][n] # "none"
        /\ status[m] = "sent" \/ (\E n \in Attempts : ledger[m][n] = "success") => told[m] > 0

InHand(m) == \E w \in Workers : cur[w] = m /\ result[w] = "accepted"

(* The trade-off claimEligibleEntries names, and no more: unless a lease    *)
(* ran out under a pass that was still going on, the provider has accepted  *)
(* a message once for the row's "sent" (or a pass about to write it) and    *)
(* once for every acceptance that was not heard of or died with its pass.   *)
OneSendUnlessExcused ==
    \A m \in Messages \ overtaken :
        told[m] = excused[m] + IF status[m] = "sent" \/ InHand(m) THEN 1 ELSE 0

(* The provider is never given a message whose row is not being sent: above *)
(* all, none that has been cancelled.                                       *)
SentOnlyWhileClaimed ==
    [][\A m \in Messages \ overtaken : told'[m] > told[m] => status[m] = "sending"]_vars

(* Every message is sent, fails, is suppressed or cancelled in the end,     *)
(* whatever passes die or overtake each other in between.                   *)
EveryMessageSettles ==
    \A m \in Messages : status[m] # "none" ~> status[m] \in Terminal

=============================================================================
