--------------------------- MODULE PartitionRecord ---------------------------
(***************************************************************************)
(* What the zone master promises about a partition record, whatever the    *)
(* heartbeats, failed writes and restarts underneath: the record changes  *)
(* group only to the group of a reported leader, at a ConfVersion that is  *)
(* newer, or equal while no leader is known; a known leader is replaced   *)
(* only by one of the recorded replicas; a restart forgets the leader.     *)
(* PartitionMeta, driven by ControlPlane, is checked to implement it.      *)
(***************************************************************************)
EXTENDS Naturals

CONSTANTS
    Replicas,   \* the replicas a record can list
    MaxConf,    \* bound on ConfVersion
    Nil

VARIABLES conf, replicas, leader
vars == <<conf, replicas, leader>>

\* A new partition: no replicas, ConfVersion 0, no leader.
Init == conf = 0 /\ replicas = {} /\ leader = Nil

\* The group a leader reports replaces the record's.
Regroup ==
    /\ conf' \in 0..MaxConf /\ replicas' \in SUBSET Replicas
    /\ conf' > conf \/ (conf' = conf /\ leader = Nil)
    /\ leader' \in replicas'

\* A known leader gives way to another recorded replica.
ChangeLeader ==
    /\ leader # Nil
    /\ leader' \in replicas
    /\ UNCHANGED <<conf, replicas>>

\* The process holding the record restarts and forgets the leader.
Forget == leader' = Nil /\ UNCHANGED <<conf, replicas>>

Next == Regroup \/ ChangeLeader \/ Forget

Spec == Init /\ [][Next]_vars
=============================================================================
