------------------------------ MODULE Delivery ------------------------------
(***************************************************************************)
(* What the event backbone promises to a consumer group: the effect of an  *)
(* event committed with a business write is applied once, or an operator   *)
(* finds the event in the dead-letter queue (docs/03-event-storming.md,    *)
(* 2.3).  How it gets there is EventDelivery's matter.                     *)
(***************************************************************************)
CONSTANT Events

VARIABLES
    committed,  \* the events whose business write committed
    applied,    \* the events whose effect the consumer holds
    reported    \* the events in the dead-letter queue

vars == <<committed, applied, reported>>

Init ==
    /\ committed = {}
    /\ applied = {}
    /\ reported = {}

Commit(e) ==
    /\ committed' = committed \cup {e}
    /\ UNCHANGED <<applied, reported>>

Apply(e) ==
    /\ e \in committed \ applied
    /\ applied' = applied \cup {e}
    /\ UNCHANGED <<committed, reported>>

Report(e) ==
    /\ e \in committed \ reported
    /\ reported' = reported \cup {e}
    /\ UNCHANGED <<committed, applied>>

Next == \E e \in Events : Commit(e) \/ Apply(e) \/ Report(e)

\* Nothing committed is left alone for ever.
Settle(e) == e \notin applied \cup reported /\ (Apply(e) \/ Report(e))

Safety == Init /\ [][Next]_vars
Spec == Safety /\ \A e \in Events : WF_vars(Settle(e))
=============================================================================
