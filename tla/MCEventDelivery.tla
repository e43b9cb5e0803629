-------------------------- MODULE MCEventDelivery --------------------------
(* A small event backbone for TLC.  The second consumer group, that of the   *)
(* notifications, sees the stream as entries delivered again and again; it   *)
(* shares no row with the ledger's group, so that the initial state says     *)
(* which of the two works.                                                   *)
EXTENDS EventDelivery

CONSTANT NotifyDeliveries

VARIABLES group, entry, worker, smsOn, log, handed, notified, buried, crashes

notifyVars == <<entry, worker, smsOn, log, handed, notified, buried, crashes>>

Notify == INSTANCE NotificationSend
    WITH Workers <- Consumers, MaxDeliveries <- NotifyDeliveries,
         processed <- notified, dead <- buried, faults <- crashes

GroupsInit ==
    /\ group \in {"ledger", "notification"}
    /\ Init /\ Notify!Init

GroupsNext ==
    \/ group = "ledger" /\ Next /\ UNCHANGED <<group, notifyVars>>
    \/ group = "notification" /\ Notify!Next /\ UNCHANGED <<group, vars>>

GroupsSpec == GroupsInit /\ [][GroupsNext]_<<group, vars, notifyVars>> /\ Fairness

SentWasHanded == Notify!SentWasHanded
=============================================================================
