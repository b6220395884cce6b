-------------------------- MODULE IdempotentMutation --------------------------
(***************************************************************************)
(* A high-risk mutation under an Idempotency-Key: findIdempotencyRecord,   *)
(* the mutation and saveIdempotencyRecord (modules/_shared/idempotency.ts) *)
(* in one READ COMMITTED transaction of withTenant, which rolls back and   *)
(* answers for a request that lost the race for its key.                   *)
(*                                                                         *)
(* A request is one HTTP request; a client's retry is another request with *)
(* the same actor, key and hash.  A mutation either creates something      *)
(* (TargetOf = None: it always applies) or moves a resource out of its     *)
(* pending status with the compare-and-swap of approveSoDConflictException *)
(* (SELECT status, then UPDATE ... WHERE status = 'pending').  A record of *)
(* the table is named by the request that wrote it.                        *)
(***************************************************************************)
EXTENDS FiniteSets

CONSTANTS
    Requests, Actors, Keys, Hashes, Targets,
    ActorOf, KeyOf, HashOf, TargetOf,  \* functions of Requests
    LegacyKeys,  \* keys with a row written before actors were part of the key
    None

ASSUME RequestsAssumption ==
    /\ ActorOf \in [Requests -> Actors] /\ KeyOf \in [Requests -> Keys]
    /\ HashOf \in [Requests -> Hashes] /\ TargetOf \in [Requests -> Targets \cup {None}]
    /\ LegacyKeys \subseteq Keys
ASSUME HashAssumption ==  \* the hash is of the body, the id and the action
    \A r, s \in Requests : HashOf[r] = HashOf[s] => TargetOf[r] = TargetOf[s]
ASSUME NoneAssumption == None \notin Requests /\ None \notin Targets

VARIABLES
    pc,        \* how far each request's transaction has come
    answer,    \* what each request was answered: a kind and whose response it is
    records,   \* awcms_idempotency_keys: the committed record of each slot
    committed, \* requests whose mutation has committed
    straddle,  \* LEGACY_STRADDLE_WINDOW_HOURS have not passed since the migration
    guarded    \* requests whose transaction began in that window

vars == <<pc, answer, records, committed, straddle, guarded>>

Steps == {"new", "begun", "looked", "checked", "applied", "saved", "done"}

SlotOf(r) == <<ActorOf[r], KeyOf[r]>>
Slots == {SlotOf(r) : r \in Requests}

Answer(kind, of) == [kind |-> kind, of |-> of]
Nothing == Answer("nothing", None)
Answers == [kind : {"nothing", "ok", "lost", "replay", "conflict", "refused", "error"},
            of : Requests \cup {None}]

TypeOK ==
    /\ pc \in [Requests -> Steps]
    /\ answer \in [Requests -> Answers]
    /\ \A r \in Requests : pc[r] = "done" <=> answer[r] # Nothing
    /\ records \in [Slots -> Requests \cup {None}]
    /\ committed \subseteq Requests
    /\ straddle \in BOOLEAN
    /\ guarded \subseteq Requests

Init ==
    /\ pc = [r \in Requests |-> "new"] /\ answer = [r \in Requests |-> Nothing]
    /\ records = [s \in Slots |-> None] /\ committed = {}
    /\ straddle \in BOOLEAN /\ guarded = {}

Go(r, step) == pc' = [pc EXCEPT ![r] = step]
End(r, a) == Go(r, "done") /\ answer' = [answer EXCEPT ![r] = a]

(* What others see of a request's resource: that a decision has committed,  *)
(* that a transaction in progress holds its row lock                        *)
SameTarget(r, s) == TargetOf[r] # None /\ TargetOf[s] = TargetOf[r]
Decided(r) == \E s \in committed : SameTarget(r, s)
RowLocked(r) == \E s \in Requests : SameTarget(r, s) /\ pc[s] \in {"applied", "saved"}
(* Transactions with an uncommitted record in a slot *)
Inserting(slot) == {s \in Requests : SlotOf(s) = slot /\ pc[s] = "saved"}

-----------------------------------------------------------------------------
(* now() is the time the transaction began *)
Begin(r) ==
    /\ pc[r] = "new" /\ Go(r, "begun")
    /\ guarded' = IF straddle THEN guarded \cup {r} ELSE guarded
    /\ UNCHANGED <<answer, records, committed, straddle>>

Straddles(r) == KeyOf[r] \in LegacyKeys /\ r \in guarded

(* Mutant: the hash is not compared. *)
ExistingUnhashed(r) ==
    IF records[SlotOf(r)] # None THEN Answer("replay", records[SlotOf(r)])
    ELSE IF Straddles(r) THEN Answer("conflict", None) ELSE Nothing

(* What findIdempotencyRecord and its caller's comparison of the hashes say *)
Existing(r) ==
    LET w == records[SlotOf(r)] IN
    IF w # None
    THEN IF HashOf[w] = HashOf[r] THEN Answer("replay", w) ELSE Answer("conflict", None)
    ELSE IF Straddles(r) THEN Answer("conflict", None) ELSE Nothing

Look(r) ==
    /\ pc[r] = "begun"
    /\ IF Existing(r) # Nothing
       THEN End(r, Existing(r))
       ELSE Go(r, "looked") /\ UNCHANGED answer
    /\ UNCHANGED <<records, committed, straddle, guarded>>

(* The mutation reads the row's status; a creation has nothing to read.  A  *)
(* refusal returns from the handler, so its transaction commits, empty.     *)
(* (Refusals that no other request can change, of an unknown row or of      *)
(* one's own request, are left out.)                                        *)
Check(r) ==
    /\ pc[r] = "looked"
    /\ IF Decided(r)
       THEN End(r, Answer("refused", None))
       ELSE Go(r, "checked") /\ UNCHANGED answer
    /\ UNCHANGED <<records, committed, straddle, guarded>>

(* UPDATE ... WHERE status = 'pending' waits for the row's lock, then looks *)
(* at the row again.  Mutant: without the status in the WHERE clause.       *)
ApplyBlindly(r) ==
    /\ pc[r] = "checked" /\ ~RowLocked(r)
    /\ Go(r, "applied")
    /\ UNCHANGED <<answer, records, committed, straddle, guarded>>
Apply(r) ==
    /\ pc[r] = "checked" /\ ~RowLocked(r)
    /\ IF Decided(r)
       THEN End(r, Answer("refused", None))
       ELSE Go(r, "applied") /\ UNCHANGED answer
    /\ UNCHANGED <<records, committed, straddle, guarded>>

-----------------------------------------------------------------------------
(* INSERT ... ON CONFLICT DO NOTHING waits for another's uncommitted record *)
(* of the slot.  If none is left committed, the record is inserted.         *)
Save(r) ==
    /\ pc[r] = "applied" /\ Inserting(SlotOf(r)) = {} /\ records[SlotOf(r)] = None
    /\ Go(r, "saved")
    /\ UNCHANGED <<answer, records, committed, straddle, guarded>>

ConflictForLoser(r) ==
    /\ pc[r] = "applied" /\ Inserting(SlotOf(r)) = {} /\ records[SlotOf(r)] # None
    /\ End(r, Answer("conflict", None))
    /\ UNCHANGED <<records, committed, straddle, guarded>>
RetryInsert(r) ==
    /\ pc[r] = "applied" /\ Inserting(SlotOf(r)) = {} /\ records[SlotOf(r)] # None
    /\ UNCHANGED vars

(* Otherwise IdempotencyRaceLostError rolls the mutation back, and          *)
(* withTenant answers with what the winner's record says.                   *)
LoseRace(r) ==
    /\ pc[r] = "applied" /\ Inserting(SlotOf(r)) = {} /\ records[SlotOf(r)] # None
    /\ End(r, Existing(r))
    /\ UNCHANGED <<records, committed, straddle, guarded>>

(* The answer may be lost on its way: then only the client does not know *)
Commit(r) ==
    /\ pc[r] = "saved"
    /\ \E kind \in {"ok", "lost"} : End(r, Answer(kind, r))
    /\ records' = [records EXCEPT ![SlotOf(r)] = r]
    /\ committed' = committed \cup {r}
    /\ UNCHANGED <<straddle, guarded>>

(* Any statement or the COMMIT may fail, or the server stop: rolled back *)
Fail(r) ==
    /\ pc[r] \notin {"new", "done"} /\ End(r, Answer("error", None))
    /\ UNCHANGED <<records, committed, straddle, guarded>>

WindowPasses ==
    /\ straddle /\ straddle' = FALSE
    /\ UNCHANGED <<pc, answer, records, committed, guarded>>

Step(r) == Look(r) \/ Check(r) \/ Apply(r) \/ Save(r) \/ LoseRace(r) \/ Commit(r)

(* Requests come once each and the window passes once: the system may stop *)
Next == WindowPasses \/ \E r \in Requests : Begin(r) \/ Step(r) \/ Fail(r)

Spec == Init /\ [][Next]_vars

(* PostgreSQL carries out a statement whose locks are free; the event loop  *)
(* continues a handler whose statement is done.                             *)
FairSpec == Spec /\ \A r \in Requests : WF_vars(Step(r))

-----------------------------------------------------------------------------
(* Twins: the same request, sent twice *)
Twins(r, s) == SlotOf(r) = SlotOf(s) /\ HashOf[r] = HashOf[s]

(* However many requests of an actor's key overlap, fail or lose their      *)
(* answer, at most one of their mutations ever commits, and it is the one   *)
(* the key's record stands for: never a mutation without its record, nor a  *)
(* record whose mutation was rolled back.                                   *)
OncePerKey ==
    \A slot \in Slots :
        {r \in committed : SlotOf(r) = slot} = {records[slot]} \ {None}

Explained(r, a) ==
    /\ a.kind \in {"ok", "lost"} => a.of = r
    /\ a.kind = "replay" => /\ a.of \in committed
                            /\ ActorOf[a.of] = ActorOf[r] /\ KeyOf[a.of] = KeyOf[r]
                            /\ HashOf[a.of] = HashOf[r]
    /\ a.kind = "conflict" => a.of = None
    /\ a.kind = "conflict" =>
         \/ Straddles(r)
         \/ \E w \in committed : /\ ActorOf[w] = ActorOf[r] /\ KeyOf[w] = KeyOf[r]
                                 /\ HashOf[w] # HashOf[r]

(* An answer tells what happened: a success, known or lost, committed; a    *)
(* replay is the response of the request that did commit for this actor,    *)
(* key and hash; every other answer leaves nothing behind, and a conflict   *)
(* is only ever with the actor's own different request, or a legacy row.    *)
AnswersAreTrue ==
    \A r \in Requests :
        /\ r \in committed <=> answer[r].kind \in {"ok", "lost"}
        /\ Explained(r, answer[r])

(* A retry across the deploy of actor scoping never runs a mutation again   *)
(* that a legacy row may stand for: what commits under such a key began     *)
(* after the window.                                                        *)
LegacyNotRunAgain == \A r \in committed : ~Straddles(r)

(* Whatever keys and actors ask for it, a pending resource is decided once: *)
(* the compare-and-swap lets one of all concurrent deciders through.        *)
DecidedOnce == \A r, s \in committed : SameTarget(r, s) => r = s

(* A request that creates something, sent twice, gets one response: when    *)
(* both are answered and neither failed, the response is the same one, even *)
(* if they raced.                                                           *)
TwinsToldTheSame ==
    \A r, s \in Requests :
        /\ Twins(r, s) /\ TargetOf[r] = None /\ ~Straddles(r) /\ ~Straddles(s)
        /\ answer[r].kind \in {"ok", "lost", "replay", "conflict"}
        /\ answer[s].kind \in {"ok", "lost", "replay", "conflict"}
        => answer[r].of = answer[s].of

(* Every request that has begun is answered: no circle of requests waits    *)
(* for each other's row locks and records.                                  *)
EveryRequestAnswered == \A r \in Requests : pc[r] # "new" ~> pc[r] = "done"

Promise == INSTANCE KeyedMutation WITH
    owner <- records, told <- answer, Blocked <- {r \in Requests : KeyOf[r] \in LegacyKeys}

(* All of this is what an idempotency key promises, with every lock, lost   *)
(* race and rollback left out.                                              *)
KeepsPromise == Promise!Spec
=============================================================================
