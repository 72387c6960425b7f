--------------------------- MODULE PartitionMeta ---------------------------
(***************************************************************************)
(* The zone master's record of one partition (src/master/partition.go):    *)
(* the persisted part (Epoch.ConfVersion, Replicas) and the in-memory part *)
(* (Leader, the change-member task latch).  Every operation runs under the *)
(* partition's propertyLock, so each is one atomic step here.  An         *)
(* operation's Go return values are parameters of the action: the caller   *)
(* binds them with \E and branches on them, as the Go caller does.         *)
(***************************************************************************)
EXTENDS Naturals, FiniteSets

CONSTANTS
    Nodes,        \* PS node ids (model values)
    ReplicaIds,   \* replica ids the id generator can hand out
    MaxConf,      \* bound on Epoch.ConfVersion
    Nil           \* no leader / no record

\* A metapb.Replica: its id and the PS it lives on.
Replicas == [id : ReplicaIds, node : Nodes]

\* The part of a masterpb.PartitionInfo that the record operations read:
\* Epoch.ConfVersion, IsLeader, RaftStatus.Replica and the set of
\* RaftStatus.Followers' replicas (their order is the PS's, so a pick of
\* "the first" follower is a choice among them).
\* hasStatus is FALSE when RaftStatus is nil.
Infos == [conf : 0..MaxConf, isLeader : BOOLEAN, replica : Replicas,
          hasStatus : BOOLEAN, followers : SUBSET Replicas]

VARIABLES
    mConf,        \* p.Epoch.ConfVersion of the cached record
    mReplicas,    \* p.Replicas of the cached record (a set of Replicas)
    mLeader,      \* p.Leader, in memory only
    taskFlag,     \* p.taskFlag
    taskExpired,  \* time.Now().Sub(p.taskTimeout) >= 30s
    stored        \* the value under "schema partition <ID>" in the store

metaVars == <<mConf, mReplicas, mLeader, taskFlag, taskExpired, stored>>

Ids(rs) == {r.id : r \in rs}

Record(conf, rs) == [conf |-> conf, replicas |-> rs]

MetaTypeOK ==
    /\ mConf \in 0..MaxConf
    /\ mReplicas \subseteq Replicas
    /\ mLeader \in Replicas \cup {Nil}
    /\ taskFlag \in BOOLEAN
    /\ taskExpired \in BOOLEAN
    /\ stored \in [conf : 0..MaxConf, replicas : SUBSET Replicas]

\* NewPartition: READONLY, no replicas, zero epoch, persisted by the caller.
MetaInit ==
    /\ mConf = 0
    /\ mReplicas = {}
    /\ mLeader = Nil
    /\ taskFlag = FALSE
    /\ taskExpired = FALSE
    /\ stored = Record(0, {})

(***************************************************************************)
(* UpdateReplicaGroupByCond: rejected as expired when the heartbeat's      *)
(* ConfVersion is older, or equal while a leader is known; otherwise the   *)
(* copy takes the reported epoch and {RaftStatus.Replica} \cup followers,  *)
(* is persisted, and only when store.Put succeeds is it swapped in, the    *)
(* latch cleared and Leader set.                                           *)
(***************************************************************************)
\* Mutant: the older-ConfVersion rejection dropped.
UpdateVerExpiredSameOnly(info) == info.conf = mConf /\ mLeader # Nil

UpdateVerExpired(info) ==
    \/ info.conf < mConf
    \/ info.conf = mConf /\ mLeader # Nil

InfoReplicas(info) == {info.replica} \cup info.followers

\* Mutant: the cache swapped before (and whatever the result of) store.Put.
UpdateReplicaGroupSwapFirst(info, leader, verExpired, updateOk) ==
    \/ /\ UpdateVerExpired(info)
       /\ verExpired /\ ~updateOk
       /\ UNCHANGED metaVars
    \/ /\ ~UpdateVerExpired(info)
       /\ ~verExpired
       /\ stored' = IF updateOk THEN Record(info.conf, InfoReplicas(info))
                                ELSE stored
       /\ mConf' = info.conf
       /\ mReplicas' = InfoReplicas(info)
       /\ taskFlag' = FALSE
       /\ taskExpired' = FALSE
       /\ mLeader' = leader

UpdateReplicaGroupByCond(info, leader, verExpired, updateOk) ==
    \/ /\ UpdateVerExpired(info)
       /\ verExpired /\ ~updateOk
       /\ UNCHANGED metaVars
    \/ /\ ~UpdateVerExpired(info)         \* doMetaMarshal or store.Put failed
       /\ ~verExpired /\ ~updateOk
       /\ UNCHANGED metaVars
    \/ /\ ~UpdateVerExpired(info)
       /\ ~verExpired /\ updateOk
       /\ stored' = Record(info.conf, InfoReplicas(info))
       /\ mConf' = info.conf
       /\ mReplicas' = InfoReplicas(info)
       /\ taskFlag' = FALSE
       /\ taskExpired' = FALSE
       /\ mLeader' = leader

(***************************************************************************)
(* ValidateAndUpdateLeaderByCond: expired iff the ConfVersions differ; no  *)
(* update while no leader is known; illegal iff the reported leader's id   *)
(* is not in Replicas; otherwise Leader is replaced (nothing persisted).   *)
(***************************************************************************)
\* Mutant: the reported leader accepted without the membership check.
ValidateLeaderUnchecked(info, leader, verExpired, illegal, updateOk) ==
    \/ /\ info.conf # mConf
       /\ verExpired /\ ~illegal /\ ~updateOk
       /\ UNCHANGED metaVars
    \/ /\ info.conf = mConf /\ mLeader = Nil
       /\ ~verExpired /\ ~illegal /\ ~updateOk
       /\ UNCHANGED metaVars
    \/ /\ info.conf = mConf /\ mLeader # Nil
       /\ ~verExpired /\ ~illegal /\ updateOk
       /\ mLeader' = leader
       /\ UNCHANGED <<mConf, mReplicas, taskFlag, taskExpired, stored>>

ValidateAndUpdateLeaderByCond(info, leader, verExpired, illegal, updateOk) ==
    \/ /\ info.conf # mConf
       /\ verExpired /\ ~illegal /\ ~updateOk
       /\ UNCHANGED metaVars
    \/ /\ info.conf = mConf /\ mLeader = Nil
       /\ ~verExpired /\ ~illegal /\ ~updateOk
       /\ UNCHANGED metaVars
    \/ /\ info.conf = mConf /\ mLeader # Nil
       /\ leader.id \notin Ids(mReplicas)
       /\ ~verExpired /\ illegal /\ ~updateOk
       /\ UNCHANGED metaVars
    \/ /\ info.conf = mConf /\ mLeader # Nil
       /\ leader.id \in Ids(mReplicas)
       /\ ~verExpired /\ ~illegal /\ updateOk
       /\ mLeader' = leader
       /\ UNCHANGED <<mConf, mReplicas, taskFlag, taskExpired, stored>>

\* takeChangeMemberTask: free, or held for 30s or more, is taken afresh.
\* Mutant: the latch without its 30s timeout.
TakeChangeMemberTaskNoTimeout(taken) ==
    \/ /\ ~taskFlag
       /\ taken
       /\ taskFlag' = TRUE
       /\ taskExpired' = FALSE
       /\ UNCHANGED <<mConf, mReplicas, mLeader, stored>>
    \/ /\ taskFlag
       /\ ~taken
       /\ UNCHANGED metaVars

TakeChangeMemberTask(taken) ==
    \/ /\ ~taskFlag \/ taskExpired
       /\ taken
       /\ taskFlag' = TRUE
       /\ taskExpired' = FALSE
       /\ UNCHANGED <<mConf, mReplicas, mLeader, stored>>
    \/ /\ taskFlag /\ ~taskExpired
       /\ ~taken
       /\ UNCHANGED metaVars

\* Wall-clock time passing 30s beyond taskTimeout.
LatchExpires ==
    /\ taskFlag /\ ~taskExpired
    /\ taskExpired' = TRUE
    /\ UNCHANGED <<mConf, mReplicas, mLeader, taskFlag, stored>>

\* addReplica / deleteReplica: copy, change Replicas, persist, swap on success.
AddReplica(rs) ==
    \/ UNCHANGED metaVars                 \* store.Put failed
    \/ /\ stored' = Record(mConf, mReplicas \cup rs)
       /\ mReplicas' = mReplicas \cup rs
       /\ UNCHANGED <<mConf, mLeader, taskFlag, taskExpired>>

DeleteReplica(rs) ==
    \/ UNCHANGED metaVars                 \* store.Put failed
    \/ /\ stored' = Record(mConf, {r \in mReplicas : r.id \notin Ids(rs)})
       /\ mReplicas' = {r \in mReplicas : r.id \notin Ids(rs)}
       /\ UNCHANGED <<mConf, mLeader, taskFlag, taskExpired>>

\* countReplicas, pickLeaderNodeId: reads under the read lock.
CountReplicas == Cardinality(mReplicas)

PickLeaderNodeId == IF mLeader = Nil THEN Nil ELSE mLeader.node

\* PartitionCache.Recovery after a master restart: the record is decoded from
\* the store; Leader and the latch start from their zero values.
Recovery ==
    /\ mConf' = stored.conf
    /\ mReplicas' = stored.replicas
    /\ mLeader' = Nil
    /\ taskFlag' = FALSE
    /\ taskExpired' = FALSE
    /\ UNCHANGED stored
=============================================================================
