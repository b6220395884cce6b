------------------------- MODULE EmailDispatchProofs -------------------------
(***************************************************************************)
(* Proofs about EmailDispatch for every set of messages and of concurrent  *)
(* passes, every batch limit, retry limit and number of mishaps.           *)
(*                                                                         *)
(* Neither property is inductive.  That a retry_count is backed by records *)
(* needs the same of the counts the passes have claimed and may yet write  *)
(* (Backed), in the order record, then finalize (Coherent).  That sends    *)
(* are explained needs a claim nobody overtook to be alone, on a row that  *)
(* is being sent (Alone).                                                  *)
(***************************************************************************)
EXTENDS EmailDispatch, TLAPS

CoherentAt(w) ==
    /\ pc[w] = "idle" => \A m \in Messages : ~Holds(w, m)
    /\ pc[w] \in {"record", "finalize"} <=> cur[w] # None
    /\ cur[w] # None => cur[w] \in Messages /\ Holds(w, cur[w]) /\ result[w] \in Results
    /\ cur[w] = None => result[w] = None
    /\ pc[w] = "record" => result[w] # "skipped"
    /\ pc[w] = "finalize" /\ result[w] # "skipped" =>
           ledger[cur[w]][claim[w][cur[w]] + 1] # "none"
    /\ result[w] = "accepted" => told[cur[w]] > 0
Coherent == \A w \in Workers : CoherentAt(w)

Backed == \A w \in Workers, m \in Messages :
    Holds(w, m) => \A n \in 1 .. claim[w][m] : ledger[m][n] # "none"

Alone == \A m \in Messages \ overtaken :
    /\ \A w \in Workers : Holds(w, m) => status[m] = "sending"
    /\ \A v, w \in Workers : Holds(v, m) /\ Holds(w, m) => v = w

Pending == \A m \in Messages :
    status[m] \in {"none", "queued", "retry_wait", "sending"} => retries[m] \in 0 .. MaxRetries

Inv == /\ TypeOK /\ Coherent /\ Backed /\ Alone /\ Pending
       /\ RowAndLedgerAgree /\ OneSendUnlessExcused

-----------------------------------------------------------------------------
LEMMA InitInv == Init => Inv
<1> SUFFICES ASSUME Init PROVE Inv
  OBVIOUS
<1>1. TypeOK
  BY MaxRetriesAssumption, BoundsAssumption DEF Init, TypeOK, Statuses, Attempts
<1>2. \A w \in Workers, m \in Messages : ~Holds(w, m)
  BY DEF Init, Holds
<1>3. \A w \in Workers : pc[w] = "idle" /\ cur[w] = None /\ result[w] = None
  BY DEF Init
<1>4. Coherent
  BY <1>2, <1>3, NoneAssumption DEF Coherent, CoherentAt, Results
<1>5. Backed /\ Alone
  BY <1>2 DEF Backed, Alone
<1>6. Pending
  BY MaxRetriesAssumption DEF Init, Pending
<1>7. RowAndLedgerAgree
  BY DEF Init, RowAndLedgerAgree
<1>8. OneSendUnlessExcused
  BY <1>3, NoneAssumption DEF Init, OneSendUnlessExcused, InHand
<1> QED
  BY <1>1, <1>4, <1>5, <1>6, <1>7, <1>8 DEF Inv

LEMMA StutterKeeps == Inv /\ UNCHANGED vars => Inv'
<1> SUFFICES ASSUME Inv, UNCHANGED vars PROVE Inv'
  OBVIOUS
<1>1. /\ status' = status /\ due' = due /\ retries' = retries /\ ledger' = ledger
      /\ suppressed' = suppressed /\ pc' = pc /\ skip' = skip /\ claim' = claim
      /\ cur' = cur /\ result' = result /\ told' = told /\ excused' = excused
      /\ overtaken' = overtaken /\ mishaps' = mishaps
  BY DEF vars, rows, pass, history
<1>2. TypeOK' /\ Pending'
  BY <1>1 DEF Inv, TypeOK, Pending
<1>3. Coherent' /\ Backed' /\ Alone'
  BY <1>1 DEF Inv, Coherent, CoherentAt, Backed, Alone, Holds
<1>4. RowAndLedgerAgree' /\ OneSendUnlessExcused'
  BY <1>1 DEF Inv, RowAndLedgerAgree, OneSendUnlessExcused, InHand
<1> QED
  BY <1>2, <1>3, <1>4 DEF Inv

(* What the rest of the program and time do to a row leaves claims alone. *)
LEMMA RowsKeep ==
    ASSUME Inv, UNCHANGED <<retries, ledger, pass, history, mishaps>>,
           status' \in [Messages -> Statuses], due' \in [Messages -> BOOLEAN],
           suppressed' \subseteq Messages,
           \A o \in Messages : status'[o] = status[o] \/
               /\ status[o] \in {"none", "queued", "retry_wait"}
               /\ status'[o] \in {"queued", "cancelled"}
    PROVE  Inv'
<1>1. /\ retries' = retries /\ ledger' = ledger /\ pc' = pc /\ skip' = skip /\ claim' = claim
      /\ cur' = cur /\ result' = result /\ told' = told /\ excused' = excused
      /\ overtaken' = overtaken /\ mishaps' = mishaps
  BY DEF pass, history
<1>2. TypeOK' /\ Pending'
  BY <1>1 DEF Inv, TypeOK, Pending
<1>3. Coherent' /\ Backed'
  BY <1>1 DEF Inv, Coherent, CoherentAt, Backed, Holds
<1>4. Alone'
  BY <1>1 DEF Inv, Alone, Holds
<1>5. RowAndLedgerAgree'
  BY <1>1 DEF Inv, RowAndLedgerAgree
<1>6. OneSendUnlessExcused'
  BY <1>1 DEF Inv, OneSendUnlessExcused, InHand
<1> QED
  BY <1>2, <1>3, <1>4, <1>5, <1>6 DEF Inv

LEMMA EnvironmentKeeps ==
    ASSUME Inv, NEW m \in Messages, Enqueue(m) \/ Cancel(m) \/ Suppress(m) \/ Elapse(m)
    PROVE  Inv'
<1>1. /\ status \in [Messages -> Statuses] /\ due \in [Messages -> BOOLEAN]
      /\ suppressed \subseteq Messages
  BY DEF Inv, TypeOK
<1>2. CASE Enqueue(m)
  <2>1. /\ UNCHANGED <<retries, ledger, pass, history, mishaps>>
        /\ status[m] = "none" /\ status' = [status EXCEPT ![m] = "queued"]
        /\ due' = due /\ suppressed' = suppressed
    BY <1>2 DEF Enqueue
  <2>2. status' \in [Messages -> Statuses]
    BY <1>1, <2>1 DEF Statuses
  <2>3. \A o \in Messages : status'[o] = status[o] \/
               /\ status[o] \in {"none", "queued", "retry_wait"}
               /\ status'[o] \in {"queued", "cancelled"}
    BY <1>1, <2>1
  <2> QED
    BY <1>1, <2>1, <2>2, <2>3, RowsKeep
<1>3. CASE Cancel(m)
  <2>1. /\ UNCHANGED <<retries, ledger, pass, history, mishaps>>
        /\ status[m] \in {"queued", "retry_wait"}
        /\ status' = [status EXCEPT ![m] = "cancelled"]
        /\ due' = [due EXCEPT ![m] = TRUE] /\ suppressed' = suppressed
    BY <1>3 DEF Cancel
  <2>2. status' \in [Messages -> Statuses] /\ due' \in [Messages -> BOOLEAN]
    BY <1>1, <2>1 DEF Statuses, Terminal
  <2>3. \A o \in Messages : status'[o] = status[o] \/
               /\ status[o] \in {"none", "queued", "retry_wait"}
               /\ status'[o] \in {"queued", "cancelled"}
    BY <1>1, <2>1
  <2> QED
    BY <1>1, <2>1, <2>2, <2>3, RowsKeep
<1>4. CASE Suppress(m)
  <2>1. /\ UNCHANGED <<retries, ledger, pass, history, mishaps>>
        /\ status' = status /\ due' = due /\ suppressed' \subseteq Messages
    BY <1>1, <1>4 DEF Suppress, rows
  <2> QED
    BY <1>1, <2>1, RowsKeep
<1>5. CASE Elapse(m)
  <2>1. /\ UNCHANGED <<retries, ledger, pass, history, mishaps>>
        /\ status' = status /\ suppressed' = suppressed /\ due' \in [Messages -> BOOLEAN]
    BY <1>1, <1>5 DEF Elapse
  <2> QED
    BY <1>1, <2>1, RowsKeep
<1> QED
  BY <1>2, <1>3, <1>4, <1>5

(* A claim is alone unless it takes over one whose lease ran out. *)
LEMMA ClaimKeeps ==
    ASSUME Inv, NEW w \in Workers, NEW S \in SUBSET Messages, Claim(w, S)
    PROVE  Inv'
<1>1. /\ pc[w] = "idle" /\ \A m \in S : Eligible(m)
      /\ retries' = retries /\ ledger' = ledger /\ suppressed' = suppressed /\ skip' = skip
      /\ cur' = cur /\ result' = result /\ told' = told /\ excused' = excused
      /\ mishaps' = mishaps
      /\ pc' = [pc EXCEPT ![w] = "claimed"]
      /\ status' = [m \in Messages |-> IF m \in S THEN "sending" ELSE status[m]]
      /\ due' = [m \in Messages |-> due[m] /\ m \notin S]
      /\ claim' = [claim EXCEPT ![w] = [m \in Messages |-> IF m \in S THEN retries[m] ELSE None]]
      /\ overtaken' = overtaken \cup
            {m \in S : status[m] = "sending" /\ due[m] /\ \E v \in Workers : Holds(v, m)}
  BY DEF Claim
<1>2. TypeOK
  BY DEF Inv
<1>3. /\ \A m \in Messages : claim'[w][m] = IF m \in S THEN retries[m] ELSE None
      /\ \A v \in Workers : v # w => claim'[v] = claim[v] /\ pc'[v] = pc[v]
      /\ pc'[w] = "claimed"
  BY <1>1, <1>2 DEF TypeOK
<1>4. \A m \in S : status[m] \in {"queued", "retry_wait", "sending"} /\ due[m]
  BY <1>1 DEF Eligible
<1>5. \A m \in S : retries[m] \in 0 .. MaxRetries /\ retries[m] # None
  BY <1>4, NoneAssumption, MaxRetriesAssumption DEF Inv, Pending
<1>6. \A m \in Messages : ~Holds(w, m)
  BY <1>1 DEF Inv, Coherent, CoherentAt
<1>7. /\ \A m \in Messages : Holds(w, m)' <=> m \in S
      /\ \A v \in Workers, m \in Messages : v # w => (Holds(v, m)' <=> Holds(v, m))
  BY <1>3, <1>5 DEF Holds
<1>8. cur[w] = None /\ result[w] = None
  BY <1>1 DEF Inv, Coherent, CoherentAt
<1>9. TypeOK'
  <2>1. claim' \in [Workers -> [Messages -> 0 .. MaxRetries \cup {None}]]
    BY <1>1, <1>2, <1>5 DEF TypeOK
  <2>2. status' \in [Messages -> Statuses] /\ due' \in [Messages -> BOOLEAN]
    BY <1>1, <1>2 DEF TypeOK, Statuses
  <2>3. pc' \in [Workers -> {"idle", "claimed", "loop", "record", "finalize"}]
    BY <1>1, <1>2 DEF TypeOK
  <2>4. overtaken' \subseteq Messages
    BY <1>1, <1>2 DEF TypeOK
  <2> QED
    BY <1>1, <1>2, <2>1, <2>2, <2>3, <2>4 DEF TypeOK
<1>10. Coherent'
  <2> SUFFICES ASSUME NEW v \in Workers PROVE CoherentAt(v)'
    BY DEF Coherent
  <2>1. CASE v = w
    BY <1>1, <1>3, <1>8, <2>1, NoneAssumption DEF CoherentAt, Results
  <2>2. CASE v # w
    BY <1>1, <1>3, <1>7, <2>2 DEF Inv, Coherent, CoherentAt
  <2> QED
    BY <2>1, <2>2
<1>11. Backed'
  <2> SUFFICES ASSUME NEW v \in Workers, NEW m \in Messages, Holds(v, m)'
               PROVE  (\A n \in 1 .. claim[v][m] : ledger[m][n] # "none")'
    BY DEF Backed
  <2>1. CASE v = w
    BY <1>1, <1>3, <1>7, <2>1 DEF Inv, RowAndLedgerAgree
  <2>2. CASE v # w
    BY <1>1, <1>3, <1>7, <2>2 DEF Inv, Backed
  <2> QED
    BY <2>1, <2>2
<1>12. Alone'
  <2> SUFFICES ASSUME NEW m \in Messages, m \notin overtaken'
               PROVE  (/\ \A v \in Workers : Holds(v, m) => status[m] = "sending"
                       /\ \A u, v \in Workers : Holds(u, m) /\ Holds(v, m) => u = v)'
    BY DEF Alone
  <2>1. /\ m \notin overtaken /\ \A v \in Workers : Holds(v, m) => status[m] = "sending"
        /\ \A u, v \in Workers : Holds(u, m) /\ Holds(v, m) => u = v
    BY <1>1 DEF Inv, Alone
  <2>2. CASE m \in S
    <3>1. \A v \in Workers : ~Holds(v, m)
      BY <1>1, <1>4, <2>1, <2>2
    <3> QED
      BY <1>1, <1>7, <2>2, <3>1
  <2>3. CASE m \notin S
    BY <1>1, <1>7, <2>1, <2>3
  <2> QED
    BY <2>2, <2>3
<1>13. Pending'
  BY <1>1, <1>5 DEF Inv, Pending
<1>14. \A m \in Messages : status'[m] = "sent" <=> status[m] = "sent"
  BY <1>1, <1>4
<1>15. RowAndLedgerAgree'
  BY <1>1, <1>14 DEF Inv, RowAndLedgerAgree
<1>16. OneSendUnlessExcused'
  BY <1>1, <1>14 DEF Inv, OneSendUnlessExcused, InHand
<1> QED
  BY <1>9, <1>10, <1>11, <1>12, <1>13, <1>15, <1>16 DEF Inv

-----------------------------------------------------------------------------
(* A pass that only moves on, its own row in hand or not, changes no row. *)
LEMMA LoadKeeps ==
    ASSUME Inv, NEW w \in Workers, LoadSuppressed(w)
    PROVE  Inv'
<1>1. /\ pc[w] = "claimed" /\ pc' = [pc EXCEPT ![w] = "loop"]
      /\ skip' = [skip EXCEPT ![w] = suppressed]
      /\ status' = status /\ due' = due /\ retries' = retries /\ ledger' = ledger
      /\ suppressed' = suppressed /\ claim' = claim /\ cur' = cur /\ result' = result
      /\ told' = told /\ excused' = excused /\ overtaken' = overtaken /\ mishaps' = mishaps
  BY DEF LoadSuppressed, rows, history
<1>2. TypeOK' /\ Pending'
  BY <1>1 DEF Inv, TypeOK, Pending
<1>3. \A v \in Workers : \/ pc'[v] = pc[v]
                         \/ pc[v] = "claimed" /\ pc'[v] = "loop"
  BY <1>1 DEF Inv, TypeOK
<1>4. Coherent'
  BY <1>1, <1>3 DEF Inv, Coherent, CoherentAt, Holds
<1>5. Backed' /\ Alone'
  BY <1>1 DEF Inv, Backed, Alone, Holds
<1>6. RowAndLedgerAgree' /\ OneSendUnlessExcused'
  BY <1>1 DEF Inv, RowAndLedgerAgree, OneSendUnlessExcused, InHand
<1> QED
  BY <1>2, <1>4, <1>5, <1>6 DEF Inv

LEMMA SendKeeps ==
    ASSUME Inv, NEW w \in Workers, NEW m \in Messages, Send(w, m)
    PROVE  Inv'
<1>1. PICK r \in Results : Answer(w, m, r) /\
          pc' = [pc EXCEPT ![w] = IF r = "skipped" THEN "finalize" ELSE "record"]
  BY DEF Send
<1>2. /\ pc[w] = "loop" /\ Holds(w, m)
      /\ cur' = [cur EXCEPT ![w] = m] /\ result' = [result EXCEPT ![w] = r]
      /\ told' = IF r \in {"accepted", "unheard"} THEN [told EXCEPT ![m] = @ + 1] ELSE told
      /\ excused' = IF r = "unheard" THEN [excused EXCEPT ![m] = @ + 1] ELSE excused
      /\ mishaps' \in 0 .. MaxMishaps
      /\ status' = status /\ due' = due /\ retries' = retries /\ ledger' = ledger
      /\ suppressed' = suppressed /\ skip' = skip /\ claim' = claim /\ overtaken' = overtaken
  BY <1>1, BoundsAssumption DEF Inv, TypeOK, Answer, rows
<1>3. TypeOK
  BY DEF Inv
<1>4. /\ cur[w] = None /\ result[w] = None /\ m # None /\ r # None
  BY <1>2, NoneAssumption DEF Inv, Coherent, CoherentAt
<1>5. /\ cur'[w] = m /\ result'[w] = r
      /\ pc'[w] = IF r = "skipped" THEN "finalize" ELSE "record"
      /\ \A v \in Workers : v # w => pc'[v] = pc[v] /\ cur'[v] = cur[v] /\ result'[v] = result[v]
  BY <1>1, <1>2, <1>3 DEF TypeOK
<1>6. /\ told'[m] = told[m] + IF r \in {"accepted", "unheard"} THEN 1 ELSE 0
      /\ excused'[m] = excused[m] + IF r = "unheard" THEN 1 ELSE 0
      /\ \A o \in Messages : o # m => told'[o] = told[o] /\ excused'[o] = excused[o]
      /\ \A o \in Messages : told'[o] >= told[o]
      /\ \A o \in Messages : told[o] \in Nat /\ excused[o] \in Nat
  BY <1>2, <1>3 DEF TypeOK
<1>7. TypeOK'
  <2>1. told' \in [Messages -> Nat] /\ excused' \in [Messages -> Nat]
    BY <1>2, <1>3 DEF TypeOK
  <2>2. /\ pc' \in [Workers -> {"idle", "claimed", "loop", "record", "finalize"}]
        /\ cur' \in [Workers -> Messages \cup {None}]
        /\ result' \in [Workers -> Results \cup {None}]
    BY <1>1, <1>2, <1>3 DEF TypeOK
  <2> QED
    BY <1>2, <1>3, <2>1, <2>2 DEF TypeOK
<1>8. Coherent'
  <2> SUFFICES ASSUME NEW v \in Workers PROVE CoherentAt(v)'
    BY DEF Coherent
  <2>1. CASE v = w
    BY <1>2, <1>4, <1>5, <1>6, <2>1 DEF CoherentAt, Holds
  <2>2. CASE v # w
    <3>1. CoherentAt(v)
      BY DEF Inv, Coherent
    <3>2. result[v] = "accepted" => cur[v] \in Messages
      BY <3>1, NoneAssumption DEF CoherentAt, Results
    <3> QED
      BY <1>2, <1>5, <1>6, <2>2, <3>1, <3>2 DEF CoherentAt, Holds
  <2> QED
    BY <2>1, <2>2
<1>9. Backed' /\ Alone' /\ Pending'
  BY <1>2 DEF Inv, Backed, Alone, Pending, Holds
<1>10. RowAndLedgerAgree'
  BY <1>2, <1>6 DEF Inv, RowAndLedgerAgree
<1>11. OneSendUnlessExcused'
  <2> SUFFICES ASSUME NEW o \in Messages, o \notin overtaken
               PROVE  (told[o] = excused[o] + IF status[o] = "sent" \/ InHand(o) THEN 1 ELSE 0)'
    BY <1>2 DEF OneSendUnlessExcused
  <2>1. told[o] = excused[o] + IF status[o] = "sent" \/ InHand(o) THEN 1 ELSE 0
    BY DEF Inv, OneSendUnlessExcused
  <2>2. CASE o = m
    <3>1. status[m] = "sending" /\ \A v \in Workers : Holds(v, m) => v = w
      BY <1>2, <2>2 DEF Inv, Alone
    <3>2. ~InHand(m)
      BY <1>4, <3>1 DEF Inv, Coherent, CoherentAt, InHand
    <3>3. InHand(m)' <=> r = "accepted"
      BY <1>4, <1>5, <3>2 DEF InHand
    <3> QED
      BY <1>2, <1>6, <2>1, <2>2, <3>1, <3>2, <3>3
  <2>3. CASE o # m
    <3>1. InHand(o)' <=> InHand(o)
      BY <1>4, <1>5, <2>3, NoneAssumption DEF InHand
    <3> QED
      BY <1>2, <1>6, <2>1, <2>3, <3>1
  <2> QED
    BY <2>2, <2>3
<1> QED
  BY <1>7, <1>8, <1>9, <1>10, <1>11 DEF Inv

(* A record is added for the claimed attempt, never changed. *)
LEMMA RecordKeeps ==
    ASSUME Inv, NEW w \in Workers, Record(w)
    PROVE  Inv'
<1> DEFINE m == cur[w]
           n == claim[w][m] + 1
<1>1. /\ pc[w] = "record" /\ pc' = [pc EXCEPT ![w] = "finalize"]
      /\ ledger' = IF ledger[m][n] # "none" THEN ledger
                   ELSE [ledger EXCEPT ![m][n] =
                             IF result[w] = "accepted" THEN "success" ELSE "failure"]
      /\ status' = status /\ due' = due /\ retries' = retries
      /\ suppressed' = suppressed /\ skip' = skip /\ claim' = claim /\ cur' = cur
      /\ result' = result /\ told' = told /\ excused' = excused
      /\ overtaken' = overtaken /\ mishaps' = mishaps
  BY DEF Record, rows, history
<1>2. TypeOK
  BY DEF Inv
<1>3. m \in Messages /\ Holds(w, m) /\ result[w] \in Results /\ cur[w] # None
  BY <1>1 DEF Inv, Coherent, CoherentAt
<1>4. claim[w][m] \in 0 .. MaxRetries /\ n \in Attempts
  BY <1>2, <1>3, MaxRetriesAssumption DEF TypeOK, Holds, Attempts
<1>5. ledger' \in [Messages -> [Attempts -> {"none", "success", "failure"}]]
  BY <1>1, <1>2, <1>3, <1>4 DEF TypeOK
<1>6. /\ ledger'[m][n] # "none"
      /\ \A o \in Messages, k \in Attempts :
             /\ ledger[o][k] # "none" => ledger'[o][k] # "none"
             /\ ledger'[o][k] = "success" => \/ ledger[o][k] = "success"
                                             \/ o = m /\ result[w] = "accepted"
  <2>1. CASE ledger[m][n] # "none"
    BY <1>1, <2>1
  <2>2. CASE ledger[m][n] = "none"
    BY <1>1, <1>2, <1>3, <1>4, <2>2 DEF TypeOK
  <2> QED
    BY <2>1, <2>2
<1>7. TypeOK' /\ Pending' /\ Alone'
  BY <1>1, <1>2, <1>5 DEF Inv, TypeOK, Pending, Alone, Holds
<1>8. Coherent'
  <2> SUFFICES ASSUME NEW v \in Workers PROVE CoherentAt(v)'
    BY DEF Coherent
  <2>1. CoherentAt(v)
    BY DEF Inv, Coherent
  <2>2. CASE v = w
    <3>1. pc'[v] = "finalize"
      BY <1>1, <1>2, <2>2 DEF TypeOK
    <3> QED
      BY <1>1, <1>6, <2>1, <2>2, <3>1 DEF CoherentAt, Holds
  <2>3. CASE v # w
    <3>1. pc'[v] = pc[v]
      BY <1>1, <1>2, <2>3 DEF TypeOK
    <3>2. cur[v] # None => claim[v][cur[v]] + 1 \in Attempts
      BY <1>2, <2>1, MaxRetriesAssumption DEF CoherentAt, TypeOK, Holds, Attempts
    <3> QED
      BY <1>1, <1>6, <2>1, <3>1, <3>2 DEF CoherentAt, Holds
  <2> QED
    BY <2>2, <2>3
<1>9. Backed'
  <2> SUFFICES ASSUME NEW v \in Workers, NEW o \in Messages, Holds(v, o)', NEW k \in 1 .. claim[v][o]
               PROVE  ledger'[o][k] # "none"
    BY <1>1 DEF Backed
  <2>1. claim[v][o] \in 0 .. MaxRetries /\ Holds(v, o)
    BY <1>1, <1>2 DEF TypeOK, Holds
  <2>2. k \in Attempts
    BY <2>1, MaxRetriesAssumption DEF Attempts
  <2> QED
    BY <1>6, <2>1, <2>2 DEF Inv, Backed
<1>10. RowAndLedgerAgree'
  <2> SUFFICES ASSUME NEW o \in Messages
               PROVE  (/\ \A k \in 1 .. retries[o] : ledger[o][k] # "none"
                       /\ status[o] = "sent" \/ (\E k \in Attempts : ledger[o][k] = "success") => told[o] > 0)'
    BY DEF RowAndLedgerAgree
  <2>1. /\ \A k \in 1 .. retries[o] : ledger[o][k] # "none"
        /\ status[o] = "sent" \/ (\E k \in Attempts : ledger[o][k] = "success") => told[o] > 0
    BY DEF Inv, RowAndLedgerAgree
  <2>2. \A k \in 1 .. retries[o] : k \in Attempts
    BY <1>2, MaxRetriesAssumption DEF TypeOK, Attempts
  <2>3. result[w] = "accepted" => told[m] > 0
    BY DEF Inv, Coherent, CoherentAt
  <2> QED
    BY <1>1, <1>6, <2>1, <2>2, <2>3
<1>11. OneSendUnlessExcused'
  BY <1>1 DEF Inv, OneSendUnlessExcused, InHand
<1> QED
  BY <1>7, <1>8, <1>9, <1>10, <1>11 DEF Inv

-----------------------------------------------------------------------------
LEMMA WriteFacts ==
    ASSUME TypeOK, NEW m \in Messages, NEW st \in Statuses, NEW n \in 0 .. MaxRetries + 1,
           NEW d \in BOOLEAN, Write(m, st, n, d)
    PROVE  /\ status' \in [Messages -> Statuses] /\ due' \in [Messages -> BOOLEAN]
           /\ retries' \in [Messages -> 0 .. MaxRetries + 1]
           /\ \A o \in Messages : o # m => status'[o] = status[o] /\ retries'[o] = retries[o]
           /\ status[m] # "sending" => status'[m] = status[m] /\ retries'[m] = retries[m]
           /\ status[m] = "sending" => status'[m] = st /\ retries'[m] = n
<1>1. CASE status[m] = "sending"
  BY <1>1 DEF TypeOK, Write
<1>2. CASE status[m] # "sending"
  BY <1>2 DEF TypeOK, Write, rows
<1> QED
  BY <1>1, <1>2

LEMMA LeaveFacts ==
    ASSUME TypeOK, NEW w \in Workers, NEW m \in Messages, Leave(w, m)
    PROVE  /\ claim' \in [Workers -> [Messages -> 0 .. MaxRetries \cup {None}]]
           /\ pc' \in [Workers -> {"idle", "claimed", "loop", "record", "finalize"}]
           /\ skip' \in [Workers -> SUBSET Messages]
           /\ cur' \in [Workers -> Messages \cup {None}]
           /\ result' \in [Workers -> Results \cup {None}]
           /\ \A v \in Workers : v # w => /\ pc'[v] = pc[v] /\ claim'[v] = claim[v]
                                          /\ cur'[v] = cur[v] /\ result'[v] = result[v]
           /\ cur'[w] = None /\ result'[w] = None /\ pc'[w] \in {"idle", "loop"}
           /\ claim'[w][m] = None /\ \A o \in Messages : o # m => claim'[w][o] = claim[w][o]
           /\ pc'[w] = "idle" => \A o \in Messages : claim'[w][o] = None
<1>1. /\ claim' = [claim EXCEPT ![w][m] = None]
      /\ pc' = [pc EXCEPT ![w] = IF Held(w) = {m} THEN "idle" ELSE "loop"]
      /\ skip' = [skip EXCEPT ![w] = IF Held(w) = {m} THEN {} ELSE @]
      /\ cur' = [cur EXCEPT ![w] = None] /\ result' = [result EXCEPT ![w] = None]
  BY DEF Leave
<1>2. /\ claim' \in [Workers -> [Messages -> 0 .. MaxRetries \cup {None}]]
      /\ skip' \in [Workers -> SUBSET Messages]
  BY <1>1 DEF TypeOK
<1>3. /\ claim'[w][m] = None /\ \A o \in Messages : o # m => claim'[w][o] = claim[w][o]
      /\ \A v \in Workers : v # w => claim'[v] = claim[v]
  BY <1>1 DEF TypeOK
<1>4. /\ pc' \in [Workers -> {"idle", "claimed", "loop", "record", "finalize"}]
      /\ pc'[w] = (IF Held(w) = {m} THEN "idle" ELSE "loop")
      /\ \A v \in Workers : v # w => pc'[v] = pc[v]
  BY <1>1 DEF TypeOK
<1>5. pc'[w] = "idle" => \A o \in Messages : claim'[w][o] = None
  BY <1>3, <1>4 DEF Held, Holds
<1>6. /\ cur' \in [Workers -> Messages \cup {None}]
      /\ result' \in [Workers -> Results \cup {None}]
      /\ \A v \in Workers : v # w => cur'[v] = cur[v] /\ result'[v] = result[v]
      /\ cur'[w] = None /\ result'[w] = None
  BY <1>1 DEF TypeOK
<1> QED
  BY <1>2, <1>3, <1>4, <1>5, <1>6

(* A pass finalizes a row and lets go of it. *)
LEMMA LeaveKeeps ==
    ASSUME Inv, NEW w \in Workers, NEW m \in Messages, NEW d \in BOOLEAN,
           NEW st \in {"suppressed", "sent", "queued", "retry_wait", "failed"},
           NEW n \in 0 .. MaxRetries + 1,
           Holds(w, m), cur[w] \in {None, m}, st = "sent" <=> result[w] = "accepted",
           st \in {"queued", "retry_wait"} /\ status[m] = "sending" => n <= MaxRetries,
           \A k \in 1 .. n : ledger[m][k] # "none",
           Write(m, st, n, d), Leave(w, m),
           UNCHANGED <<ledger, suppressed, history, mishaps>>
    PROVE  Inv'
<1>1. TypeOK
  BY DEF Inv
<1>2. st \in Statuses
  BY DEF Statuses, Terminal
<1>3. /\ status' \in [Messages -> Statuses] /\ due' \in [Messages -> BOOLEAN]
      /\ retries' \in [Messages -> 0 .. MaxRetries + 1]
      /\ \A o \in Messages : o # m => status'[o] = status[o] /\ retries'[o] = retries[o]
      /\ status[m] # "sending" => status'[m] = status[m] /\ retries'[m] = retries[m]
      /\ status[m] = "sending" => status'[m] = st /\ retries'[m] = n
  BY <1>1, <1>2, WriteFacts
<1>4. /\ claim' \in [Workers -> [Messages -> 0 .. MaxRetries \cup {None}]]
      /\ pc' \in [Workers -> {"idle", "claimed", "loop", "record", "finalize"}]
      /\ skip' \in [Workers -> SUBSET Messages]
      /\ cur' \in [Workers -> Messages \cup {None}]
      /\ result' \in [Workers -> Results \cup {None}]
      /\ \A v \in Workers : v # w => /\ pc'[v] = pc[v] /\ claim'[v] = claim[v]
                                     /\ cur'[v] = cur[v] /\ result'[v] = result[v]
      /\ cur'[w] = None /\ result'[w] = None /\ pc'[w] \in {"idle", "loop"}
      /\ claim'[w][m] = None /\ \A o \in Messages : o # m => claim'[w][o] = claim[w][o]
      /\ pc'[w] = "idle" => \A o \in Messages : claim'[w][o] = None
  BY <1>1, LeaveFacts
<1>5. /\ ledger' = ledger /\ suppressed' = suppressed /\ told' = told /\ excused' = excused
      /\ overtaken' = overtaken /\ mishaps' = mishaps
  BY DEF history
<1>6. \A v \in Workers, o \in Messages :
          Holds(v, o)' <=> Holds(v, o) /\ ~(v = w /\ o = m)
  BY <1>4 DEF Holds
<1>7. TypeOK'
  BY <1>1, <1>3, <1>4, <1>5 DEF TypeOK
<1>8. Coherent'
  <2> SUFFICES ASSUME NEW v \in Workers PROVE CoherentAt(v)'
    BY DEF Coherent
  <2>1. CASE v = w
    BY <1>4, <2>1, NoneAssumption DEF CoherentAt, Holds, Results
  <2>2. CASE v # w
    <3>1. CoherentAt(v)
      BY DEF Inv, Coherent
    <3> QED
      BY <1>4, <1>5, <2>2, <3>1 DEF CoherentAt, Holds
  <2> QED
    BY <2>1, <2>2
<1>9. Backed'
  <2> SUFFICES ASSUME NEW v \in Workers, NEW o \in Messages, Holds(v, o)',
                      NEW k \in (1 .. claim[v][o])'
               PROVE  ledger'[o][k] # "none"
    BY DEF Backed
  <2>1. Holds(v, o) /\ claim'[v][o] = claim[v][o]
    BY <1>4, <1>6
  <2> QED
    BY <1>5, <2>1 DEF Inv, Backed
<1>10. Alone'
  BY <1>3, <1>5, <1>6 DEF Inv, Alone
<1>11. Pending'
  <2> SUFFICES ASSUME NEW o \in Messages,
                      status'[o] \in {"none", "queued", "retry_wait", "sending"}
               PROVE  retries'[o] \in 0 .. MaxRetries
    BY DEF Pending
  <2>1. CASE o = m /\ status[m] = "sending"
    BY <1>3, <2>1, MaxRetriesAssumption
  <2>2. CASE ~(o = m /\ status[m] = "sending")
    BY <1>3, <2>2 DEF Inv, Pending
  <2> QED
    BY <2>1, <2>2
<1>12. result[w] = "accepted" => told[m] > 0
  BY NoneAssumption DEF Inv, Coherent, CoherentAt, Results
<1>13. RowAndLedgerAgree'
  <2> SUFFICES ASSUME NEW o \in Messages
               PROVE  (/\ \A k \in 1 .. retries[o] : ledger[o][k] # "none"
                       /\ status[o] = "sent" \/ (\E k \in Attempts : ledger[o][k] = "success") => told[o] > 0)'
    BY DEF RowAndLedgerAgree
  <2>1. /\ \A k \in 1 .. retries[o] : ledger[o][k] # "none"
        /\ status[o] = "sent" \/ (\E k \in Attempts : ledger[o][k] = "success") => told[o] > 0
    BY DEF Inv, RowAndLedgerAgree
  <2>2. CASE o = m /\ status[m] = "sending"
    BY <1>3, <1>5, <1>12, <2>1, <2>2
  <2>3. CASE ~(o = m /\ status[m] = "sending")
    BY <1>3, <1>5, <2>1, <2>3
  <2> QED
    BY <2>2, <2>3
<1>14. OneSendUnlessExcused'
  <2> SUFFICES ASSUME NEW o \in Messages, o \notin overtaken
               PROVE  (told[o] = excused[o] + IF status[o] = "sent" \/ InHand(o) THEN 1 ELSE 0)'
    BY <1>5 DEF OneSendUnlessExcused
  <2>1. told[o] = excused[o] + IF status[o] = "sent" \/ InHand(o) THEN 1 ELSE 0
    BY DEF Inv, OneSendUnlessExcused
  <2>2. CASE o = m
    <3>1. status[m] = "sending" /\ \A v \in Workers : Holds(v, m) => v = w
      BY <2>2 DEF Inv, Alone
    <3>2. \A v \in Workers : cur[v] = m => v = w
      BY <3>1, NoneAssumption DEF Inv, Coherent, CoherentAt
    <3>3. InHand(m) <=> result[w] = "accepted"
      <4>1. result[w] = "accepted" => cur[w] = m
        BY NoneAssumption DEF Inv, Coherent, CoherentAt, Results
      <4> QED
        BY <3>2, <4>1 DEF InHand
    <3>4. ~InHand(m)'
      BY <1>4, <3>2, NoneAssumption DEF InHand
    <3> QED
      BY <1>3, <1>5, <2>1, <2>2, <3>1, <3>3, <3>4
  <2>3. CASE o # m
    <3>1. /\ \A v \in Workers : v # w => cur'[v] = cur[v] /\ result'[v] = result[v]
          /\ cur'[w] # o /\ cur[w] # o
      BY <1>4, <2>3, NoneAssumption
    <3>2. InHand(o)' <=> InHand(o)
      BY <3>1 DEF InHand
    <3> QED
      BY <1>3, <1>5, <2>1, <2>3, <3>2
  <2> QED
    BY <2>2, <2>3
<1> QED
  BY <1>7, <1>8, <1>9, <1>10, <1>11, <1>13, <1>14 DEF Inv
LEMMA PassOverKeeps ==
    ASSUME Inv, NEW w \in Workers, NEW m \in Messages, PassOver(w, m)
    PROVE  Inv'
<1>1. /\ pc[w] = "loop" /\ Holds(w, m) /\ Write(m, "suppressed", retries[m], TRUE)
      /\ Leave(w, m) /\ UNCHANGED <<ledger, suppressed, history, mishaps>>
  BY DEF PassOver
<1>2. cur[w] = None /\ result[w] = None
  BY <1>1 DEF Inv, Coherent, CoherentAt
<1>3. /\ retries[m] \in 0 .. MaxRetries + 1 /\ \A k \in 1 .. retries[m] : ledger[m][k] # "none"
      /\ result[w] # "accepted"
  BY <1>2, NoneAssumption DEF Inv, TypeOK, RowAndLedgerAgree, Results
<1> QED
  BY <1>1, <1>2, <1>3, LeaveKeeps

LEMMA FinalizeKeeps ==
    ASSUME Inv, NEW w \in Workers, Finalize(w)
    PROVE  Inv'
<1> DEFINE m == cur[w]
           n == claim[w][m]
<1>1. /\ pc[w] = "finalize" /\ Leave(w, m)
      /\ UNCHANGED <<ledger, suppressed, history, mishaps>>
      /\ \/ result[w] = "accepted" /\ Write(m, "sent", retries[m], TRUE)
         \/ result[w] = "skipped" /\ Write(m, "queued", retries[m], TRUE)
         \/ /\ result[w] \in {"unheard", "retryable"} /\ RetryEligible(n)
            /\ Write(m, "retry_wait", n + 1, FALSE)
         \/ /\ \/ result[w] = "permanent"
               \/ result[w] \in {"unheard", "retryable"} /\ ~RetryEligible(n)
            /\ Write(m, "failed", n + 1, TRUE)
  BY DEF Finalize
<1>2. m \in Messages /\ Holds(w, m) /\ result[w] \in Results
  BY <1>1 DEF Inv, Coherent, CoherentAt
<1>3. n \in 0 .. MaxRetries /\ n + 1 \in 0 .. MaxRetries + 1 /\ retries[m] \in 0 .. MaxRetries + 1
  BY <1>2, MaxRetriesAssumption DEF Inv, TypeOK, Holds
<1>4. /\ \A k \in 1 .. retries[m] : ledger[m][k] # "none"
      /\ status[m] = "sending" => retries[m] <= MaxRetries
  BY <1>2, MaxRetriesAssumption DEF Inv, RowAndLedgerAgree, Pending
<1>5. result[w] # "skipped" => \A k \in 1 .. n + 1 : ledger[m][k] # "none"
  <2>1. \A k \in 1 .. n : ledger[m][k] # "none"
    BY <1>2 DEF Inv, Backed
  <2>2. result[w] # "skipped" => ledger[m][n + 1] # "none"
    BY <1>1 DEF Inv, Coherent, CoherentAt
  <2>3. \A k \in 1 .. n + 1 : k \in 1 .. n \/ k = n + 1
    BY <1>3
  <2> QED
    BY <2>1, <2>2, <2>3
<1>6. CASE result[w] = "accepted" /\ Write(m, "sent", retries[m], TRUE)
  BY <1>1, <1>2, <1>3, <1>4, <1>6, LeaveKeeps
<1>7. CASE result[w] = "skipped" /\ Write(m, "queued", retries[m], TRUE)
  BY <1>1, <1>2, <1>3, <1>4, <1>7, LeaveKeeps
<1>8. CASE /\ result[w] \in {"unheard", "retryable"} /\ RetryEligible(n)
           /\ Write(m, "retry_wait", n + 1, FALSE)
  <2>1. n + 1 <= MaxRetries
    BY <1>3, <1>8, MaxRetriesAssumption DEF RetryEligible
  <2> QED
    BY <1>1, <1>2, <1>3, <1>5, <1>8, <2>1, LeaveKeeps
<1>9. CASE /\ \/ result[w] = "permanent"
              \/ result[w] \in {"unheard", "retryable"} /\ ~RetryEligible(n)
           /\ Write(m, "failed", n + 1, TRUE)
  BY <1>1, <1>2, <1>3, <1>5, <1>9, LeaveKeeps
<1> QED
  BY <1>1, <1>6, <1>7, <1>8, <1>9

(* A pass that dies with an acceptance in hand leaves it excused. *)
LEMMA CrashKeeps ==
    ASSUME Inv, NEW w \in Workers, Crash(w)
    PROVE  Inv'
<1>1. /\ mishaps' \in 0 .. MaxMishaps
      /\ pc' = [pc EXCEPT ![w] = "idle"] /\ skip' = [skip EXCEPT ![w] = {}]
      /\ claim' = [claim EXCEPT ![w] = [m \in Messages |-> None]]
      /\ cur' = [cur EXCEPT ![w] = None] /\ result' = [result EXCEPT ![w] = None]
      /\ excused' = IF result[w] = "accepted" THEN [excused EXCEPT ![cur[w]] = @ + 1] ELSE excused
      /\ status' = status /\ due' = due /\ retries' = retries /\ ledger' = ledger
      /\ suppressed' = suppressed /\ told' = told /\ overtaken' = overtaken
  BY BoundsAssumption DEF Inv, TypeOK, Crash, rows
<1>2. TypeOK
  BY DEF Inv
<1>3. /\ \A v \in Workers : v # w => /\ pc'[v] = pc[v] /\ claim'[v] = claim[v]
                                     /\ cur'[v] = cur[v] /\ result'[v] = result[v]
      /\ cur'[w] = None /\ result'[w] = None /\ pc'[w] = "idle"
      /\ \A o \in Messages : claim'[w][o] = None
  BY <1>1, <1>2 DEF TypeOK
<1>4. /\ \A o \in Messages : ~Holds(w, o)'
      /\ \A v \in Workers, o \in Messages : v # w => (Holds(v, o)' <=> Holds(v, o))
  BY <1>3 DEF Holds
<1>5. result[w] = "accepted" => cur[w] \in Messages
  BY NoneAssumption DEF Inv, Coherent, CoherentAt, Results
<1>6. TypeOK'
  <2>1. excused' \in [Messages -> Nat]
    BY <1>1, <1>2, <1>5 DEF TypeOK
  <2>2. /\ claim' \in [Workers -> [Messages -> 0 .. MaxRetries \cup {None}]]
        /\ pc' \in [Workers -> {"idle", "claimed", "loop", "record", "finalize"}]
        /\ skip' \in [Workers -> SUBSET Messages]
        /\ cur' \in [Workers -> Messages \cup {None}]
        /\ result' \in [Workers -> Results \cup {None}]
    BY <1>1, <1>2 DEF TypeOK
  <2> QED
    BY <1>1, <1>2, <2>1, <2>2 DEF TypeOK
<1>7. Coherent'
  <2> SUFFICES ASSUME NEW v \in Workers PROVE CoherentAt(v)'
    BY DEF Coherent
  <2>1. CASE v = w
    BY <1>3, <1>4, <2>1, NoneAssumption DEF CoherentAt, Results
  <2>2. CASE v # w
    <3>1. CoherentAt(v)
      BY DEF Inv, Coherent
    <3> QED
      BY <1>1, <1>3, <2>2, <3>1 DEF CoherentAt, Holds
  <2> QED
    BY <2>1, <2>2
<1>8. Backed'
  <2> SUFFICES ASSUME NEW v \in Workers, NEW o \in Messages, Holds(v, o)',
                      NEW k \in (1 .. claim[v][o])'
               PROVE  ledger'[o][k] # "none"
    BY DEF Backed
  <2>1. Holds(v, o) /\ claim'[v][o] = claim[v][o]
    BY <1>3, <1>4
  <2> QED
    BY <1>1, <2>1 DEF Inv, Backed
<1>9. Alone' /\ Pending' /\ RowAndLedgerAgree'
  BY <1>1, <1>4 DEF Inv, Alone, Pending, RowAndLedgerAgree
<1>10. OneSendUnlessExcused'
  <2> SUFFICES ASSUME NEW o \in Messages, o \notin overtaken
               PROVE  (told[o] = excused[o] + IF status[o] = "sent" \/ InHand(o) THEN 1 ELSE 0)'
    BY <1>1 DEF OneSendUnlessExcused
  <2>1. /\ told[o] = excused[o] + IF status[o] = "sent" \/ InHand(o) THEN 1 ELSE 0
        /\ excused[o] \in Nat
    BY <1>2 DEF Inv, OneSendUnlessExcused, TypeOK
  <2>2. CASE o = cur[w] /\ result[w] = "accepted"
    <3>1. Holds(w, o)
      BY <2>2, NoneAssumption DEF Inv, Coherent, CoherentAt
    <3>2. status[o] = "sending" /\ \A v \in Workers : Holds(v, o) => v = w
      BY <3>1 DEF Inv, Alone
    <3>3. \A v \in Workers : cur[v] = o => v = w
      BY <3>2, NoneAssumption DEF Inv, Coherent, CoherentAt
    <3>4. InHand(o) /\ ~InHand(o)'
      BY <1>3, <2>2, <3>3, NoneAssumption DEF InHand
    <3>5. excused'[o] = excused[o] + 1
      BY <1>1, <1>2, <2>2 DEF TypeOK
    <3> QED
      BY <1>1, <2>1, <3>2, <3>4, <3>5
  <2>3. CASE ~(o = cur[w] /\ result[w] = "accepted")
    <3>1. InHand(o)' <=> InHand(o)
      BY <1>3, <2>3, NoneAssumption DEF InHand
    <3>2. excused'[o] = excused[o]
      BY <1>1, <1>2, <2>3 DEF TypeOK
    <3> QED
      BY <1>1, <2>1, <3>1, <3>2
  <2> QED
    BY <2>2, <2>3
<1> QED
  BY <1>6, <1>7, <1>8, <1>9, <1>10 DEF Inv

-----------------------------------------------------------------------------
LEMMA NextKeeps == Inv /\ [Next]_vars => Inv'
<1> SUFFICES ASSUME Inv, [Next]_vars PROVE Inv'
  OBVIOUS
<1>1. CASE UNCHANGED vars
  BY <1>1, StutterKeeps
<1>2. ASSUME NEW m \in Messages, Enqueue(m) \/ Cancel(m) \/ Suppress(m) \/ Elapse(m)
      PROVE  Inv'
  BY <1>2, EnvironmentKeeps
<1>3. ASSUME NEW w \in Workers, Work(w) PROVE Inv'
  BY <1>3, LoadKeeps, RecordKeeps, FinalizeKeeps, PassOverKeeps, SendKeeps DEF Work
<1>4. ASSUME NEW w \in Workers, Crash(w) PROVE Inv'
  BY <1>4, CrashKeeps
<1>5. ASSUME NEW w \in Workers, NEW S \in SUBSET Messages, Claim(w, S) PROVE Inv'
  BY <1>5, ClaimKeeps
<1> QED
  BY <1>1, <1>2, <1>3, <1>4, <1>5 DEF Next

(* The inductive invariant, for every set of messages and passes. *)
THEOREM Invariant == Spec => []Inv
<1> QED
  BY InitInv, NextKeeps, PTL DEF Spec

(* Every variable keeps its type: above all, no pass ever writes a          *)
(* retry_count beyond the attempt that fails the message.                   *)
THEOREM TypeCorrect == Spec => []TypeOK
<1>1. Inv => TypeOK
  BY DEF Inv
<1> QED
  BY <1>1, Invariant, PTL

(* The row and the ledger agree, although they are written in different     *)
(* transactions and a pass that was overtaken may set retry_count back.     *)
THEOREM LedgerCorrect == Spec => []RowAndLedgerAgree
<1>1. Inv => RowAndLedgerAgree
  BY DEF Inv
<1> QED
  BY <1>1, Invariant, PTL

(* A second e-mail has one of the known causes: an answer that was not      *)
(* heard, a pass that died, or a lease that ran out under a pass.           *)
THEOREM SendsCorrect == Spec => []OneSendUnlessExcused
<1>1. Inv => OneSendUnlessExcused
  BY DEF Inv
<1> QED
  BY <1>1, Invariant, PTL
-----------------------------------------------------------------------------
(* A message that is sent, failed, suppressed or cancelled stays so: a pass *)
(* that was overtaken still writes, but only to a row that is being sent.   *)
THEOREM TerminalCorrect == Spec => TerminalKept
<1>1. ASSUME Inv, Next, NEW m \in Messages, status[m] \in Terminal
      PROVE  status'[m] = status[m]
  <2>1. status \in [Messages -> Statuses] /\ retries \in [Messages -> 0 .. MaxRetries + 1]
    BY <1>1 DEF Inv, TypeOK
  <2>2. status[m] \notin {"none", "queued", "retry_wait", "sending"}
    BY <1>1 DEF Terminal
  <2>3. \A o \in Messages, st \in Statuses : \A n, d :
              Write(o, st, n, d) => status'[m] = status[m]
    BY <2>1, <2>2 DEF Write, rows
  <2>4. CASE \E o \in Messages : Enqueue(o) \/ Cancel(o) \/ Suppress(o) \/ Elapse(o)
    BY <2>1, <2>2, <2>4 DEF Enqueue, Cancel, Suppress, Elapse, rows
  <2>5. ASSUME NEW w \in Workers, Work(w) PROVE status'[m] = status[m]
    <3>1. CASE LoadSuppressed(w) \/ Record(w)
      BY <3>1 DEF LoadSuppressed, Record, rows
    <3>2. CASE Finalize(w)
      <4>1. cur[w] \in Messages
        BY <1>1, <3>2 DEF Inv, Coherent, CoherentAt, Finalize
      <4>2. {"sent", "queued", "retry_wait", "failed"} \subseteq Statuses
        BY DEF Statuses, Terminal
      <4> QED
        BY <2>3, <3>2, <4>1, <4>2 DEF Finalize
    <3>3. CASE \E o \in Messages : PassOver(w, o)
      BY <2>3, <3>3 DEF PassOver, Statuses, Terminal
    <3>4. CASE \E o \in Messages : Send(w, o)
      BY <3>4 DEF Send, Answer, rows
    <3> QED
      BY <2>5, <3>1, <3>2, <3>3, <3>4 DEF Work
  <2>6. CASE \E w \in Workers : Crash(w)
    BY <2>6 DEF Crash, rows
  <2>7. CASE \E w \in Workers, S \in SUBSET Messages : Claim(w, S)
    BY <2>2, <2>7 DEF Claim, Eligible
  <2> QED
    BY <1>1, <2>4, <2>5, <2>6, <2>7 DEF Next
<1>2. UNCHANGED vars => status' = status
  BY DEF vars, rows
<1>3. Inv /\ [Next]_vars =>
          [\A m \in Messages : status[m] \in Terminal => status'[m] = status[m]]_vars
  BY <1>1, <1>2
<1> QED
  BY <1>3, Invariant, PTL DEF Spec, TerminalKept

(* The provider is given no message whose row is not being sent, so none    *)
(* that is cancelled, unless a lease ran out under its pass.                *)
THEOREM SentWhileClaimed == Spec => SentOnlyWhileClaimed
<1>1. ASSUME Inv, Next, NEW m \in Messages \ overtaken, told'[m] > told[m]
      PROVE  status[m] = "sending"
  <2>1. told \in [Messages -> Nat]
    BY <1>1 DEF Inv, TypeOK
  <2>2. ~(told' = told)
    BY <1>1, <2>1
  <2>3. \E w \in Workers, o \in Messages : Send(w, o)
    BY <1>1, <2>2 DEF Next, Work, Enqueue, Cancel, Suppress, Elapse, LoadSuppressed, Record,
                      Finalize, PassOver, Crash, Claim, history
  <2>4. PICK w \in Workers, o \in Messages : Send(w, o)
    BY <2>3
  <2>5. Holds(w, o) /\ (told' = told \/ told' = [told EXCEPT ![o] = @ + 1])
    BY <2>4 DEF Send, Answer
  <2>6. o = m
    BY <1>1, <2>1, <2>5
  <2> QED
    BY <1>1, <2>5, <2>6 DEF Inv, Alone
<1>2. UNCHANGED vars => \A m \in Messages \ overtaken : told'[m] = told[m]
  BY DEF vars, history
<1>3. Inv /\ [Next]_vars =>
          [\A m \in Messages \ overtaken : told'[m] > told[m] => status[m] = "sending"]_vars
  BY <1>1, <1>2
<1> QED
  BY <1>3, Invariant, PTL DEF Spec, SentOnlyWhileClaimed
=============================================================================
