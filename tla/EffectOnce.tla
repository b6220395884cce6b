----------------------------- MODULE EffectOnce -----------------------------
(***************************************************************************)
(* What the domain-event runtime promises its consumers, without rows,     *)
(* passes, retries or replays: an event is published once, atomically with *)
(* the transaction that produced it, and the side effect each consumer     *)
(* derives from a published event happens at most once.                    *)
(***************************************************************************)
EXTENDS Naturals

CONSTANTS Events, Consumers

VARIABLES published,  \* events whose producer committed
          applied     \* side effects committed per (event, consumer)

Init == published = {} /\ applied = [p \in Events \X Consumers |-> 0]

Publish(e) ==
    /\ e \notin published
    /\ published' = published \cup {e}
    /\ UNCHANGED applied

Apply(e, c) ==
    /\ e \in published /\ applied[<<e, c>>] = 0
    /\ applied' = [applied EXCEPT ![<<e, c>>] = 1]
    /\ UNCHANGED published

Next == \E e \in Events : Publish(e) \/ \E c \in Consumers : Apply(e, c)

Spec == Init /\ [][Next]_<<published, applied>>
=============================================================================
