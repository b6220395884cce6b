---------------------------- MODULE KeyedMutation ----------------------------
(***************************************************************************)
(* What an Idempotency-Key promises its callers, without transactions,     *)
(* locks or a table: the first request of a key to succeed owns the key    *)
(* and is the only one to take effect; the same request sent again is told *)
(* what the owner was told, and a different one under that key is told of  *)
(* the conflict.                                                           *)
(***************************************************************************)
CONSTANTS Requests, SlotOf(_), HashOf, Blocked, None

VARIABLES owner,  \* the request that took effect under each key
          told    \* what each request was told

Told(kind, of) == [kind |-> kind, of |-> of]
Nothing == Told("nothing", None)

Init == /\ owner = [s \in {SlotOf(r) : r \in Requests} |-> None]
        /\ told = [r \in Requests |-> Nothing]

TakeEffect(r) ==
    /\ owner[SlotOf(r)] = None
    /\ owner' = [owner EXCEPT ![SlotOf(r)] = r]
    /\ \E kind \in {"ok", "lost"} : told' = [told EXCEPT ![r] = Told(kind, r)]

TellOwners(r) ==
    LET w == owner[SlotOf(r)] IN
    /\ w # None /\ HashOf[w] = HashOf[r]
    /\ told' = [told EXCEPT ![r] = Told("replay", w)]
    /\ UNCHANGED owner

TellConflict(r) ==
    /\ \/ owner[SlotOf(r)] # None /\ HashOf[owner[SlotOf(r)]] # HashOf[r]
       \/ r \in Blocked
    /\ told' = [told EXCEPT ![r] = Told("conflict", None)]
    /\ UNCHANGED owner

TellFailure(r) ==
    /\ \E kind \in {"refused", "error"} : told' = [told EXCEPT ![r] = Told(kind, None)]
    /\ UNCHANGED owner

Next == \E r \in Requests :
    /\ told[r] = Nothing
    /\ TakeEffect(r) \/ TellOwners(r) \/ TellConflict(r) \/ TellFailure(r)

Spec == Init /\ [][Next]_<<owner, told>>
=============================================================================
