--------------------------- MODULE ConfigRegister ---------------------------
(***************************************************************************)
(* What the configuration store promises: one register that changes to a   *)
(* container only when that container has been offered completely, and     *)
(* that a reboot at any moment leaves with its old or its new value.       *)
(***************************************************************************)
CONSTANTS
    Containers,   \* valid configuration containers
    Default,      \* the built-in configuration
    Nothing       \* no complete container on offer

VARIABLES
    visible,   \* what od_config_get returns
    durable,   \* what it would return after a reboot
    offered    \* the container the open transaction has completed, if any

vars == <<visible, durable, offered>>

Config == Containers \cup {Default}

TypeOK ==
    /\ visible \in Config
    /\ durable \in Config
    /\ offered \in Config \cup {Nothing}

Init ==
    /\ visible = Default
    /\ durable = Default
    /\ offered = Nothing

(* The peer opens, feeds, completes or loses a transaction.                *)
Offer ==
    /\ offered' \in Config \cup {Nothing}
    /\ UNCHANGED <<visible, durable>>

(* The offered container is accepted: at once and for good.                *)
Commit ==
    /\ offered # Nothing
    /\ visible' = offered
    /\ durable' = offered
    /\ offered' = Nothing

(* Accepting it failed at the last moment: the old one stays visible, and  *)
(* which of the two survives a reboot is open.                             *)
CommitInDoubt ==
    /\ offered # Nothing
    /\ durable' = offered
    /\ offered' = Nothing
    /\ UNCHANGED visible

(* The doubt is settled for the old value by a new transaction, which may  *)
(* be lost in the same step ...                                            *)
Retract ==
    /\ durable' = visible
    /\ offered' \in {offered, Nothing}
    /\ UNCHANGED visible

(* ... or by a reboot for whichever survived; it may cut a commit short.   *)
Reboot ==
    /\ \/ UNCHANGED durable
       \/ durable' = visible
       \/ offered # Nothing /\ durable' = offered
    /\ visible' = durable'
    /\ offered' = Nothing

Next == Offer \/ Commit \/ CommitInDoubt \/ Retract \/ Reboot

Spec == Init /\ [][Next]_vars

=============================================================================
