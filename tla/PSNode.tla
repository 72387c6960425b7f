------------------------------- MODULE PSNode -------------------------------
(***************************************************************************)
(* The partition servers' side of one partition (src/ps/server):          *)
(* the admin RPC handlers, the single-threaded admin event handler, and   *)
(* the consensus group the partition store joins on Start.                *)
(*                                                                         *)
(* The replicated log is an external collaborator; it is abstracted to     *)
(* what the control plane observes of it: each store's configuration     *)
(* (ConfVersion and member replicas) and whether it is leader.  A leader  *)
(* applies ChangeMember at once; a store that is still a member learns   *)
(* the leader's newer configuration and follows it (a stale leader steps  *)
(* down); a removed follower never learns it.  A                          *)
(* group without a leader elects one of its members that a majority of   *)
(* the members' stores, no newer than it, would vote for.                *)
(***************************************************************************)
EXTENDS Naturals, FiniteSets, Sequences

CONSTANTS
    Nodes, ReplicaIds, MaxConf, Nil,
    AdminCap      \* capacity of adminEventCh (64 in NewServer)

Replicas == [id : ReplicaIds, node : Nodes]

\* The metapb.Partition a CreatePartition request carries (the fields the
\* store keeps): its ConfVersion and replicas.
Metas == [conf : 0..MaxConf, replicas : SUBSET Replicas]

AdminMsgs == [typ : {"create"}, meta : Metas] \cup [typ : {"delete"}]

Stores == [rep : Replicas, conf : 0..MaxConf, members : SUBSET Replicas,
           leader : BOOLEAN]

VARIABLES
    store,        \* s.partitions: node -> its PartitionStore, or Nil
    adminCh,      \* s.adminEventCh: node -> queued admin requests
    psUp          \* node -> the PS process is serving

psVars == <<store, adminCh, psUp>>

PSTypeOK ==
    /\ store \in [Nodes -> Stores \cup {Nil}]
    /\ adminCh \in [Nodes -> Seq(AdminMsgs)]
    /\ \A n \in Nodes : Len(adminCh[n]) <= AdminCap
    /\ psUp \in [Nodes -> BOOLEAN]

PSInit ==
    /\ store = [n \in Nodes |-> Nil]
    /\ adminCh = [n \in Nodes |-> << >>]
    /\ psUp = [n \in Nodes |-> TRUE]

(***************************************************************************)
(* CreatePartition / DeletePartition RPC handlers: enqueue the request    *)
(* (blocking while the channel is full) and answer OK.                    *)
(***************************************************************************)
Enqueue(n, msg) ==
    /\ psUp[n] /\ Len(adminCh[n]) < AdminCap
    /\ adminCh' = [adminCh EXCEPT ![n] = Append(@, msg)]
    /\ UNCHANGED <<store, psUp>>

CreatePartition(n, meta) == Enqueue(n, [typ |-> "create", meta |-> meta])

DeletePartition(n) == Enqueue(n, [typ |-> "delete"])

\* The replica a node's store serves: the newest replica of the meta on it.
OwnReplica(n, meta) ==
    CHOOSE r \in meta.replicas :
        /\ r.node = n
        /\ \A q \in meta.replicas : q.node = n => q.id <= r.id

\* doPartitionCreate: the store built from the meta and started; it joins
\* the group as a follower.
NewStore(n, meta) ==
    [rep |-> OwnReplica(n, meta), conf |-> meta.conf,
     members |-> meta.replicas, leader |-> FALSE]

(***************************************************************************)
(* doAdminEvent.  Create: a live store (status never INVALID here) makes   *)
(* the event a no-op; otherwise doPartitionCreate builds and starts the    *)
(* store from the meta.  Delete: doPartitionDelete closes and drops the    *)
(* store if there is one.  MasterHeartbeat.Trigger only advances timing.   *)
(***************************************************************************)
DoAdminEvent(n) ==
    /\ adminCh[n] # << >>
    /\ LET msg == Head(adminCh[n]) IN
         store' = [store EXCEPT ![n] =
             CASE msg.typ = "delete" -> Nil
               [] store[n] # Nil -> @
               [] OTHER -> NewStore(n, msg.meta)]
    /\ adminCh' = [adminCh EXCEPT ![n] = Tail(@)]
    /\ UNCHANGED psUp

\* Stores of nodes whose replica is a member of the group store[n] sees.
GroupOf(n) == {m \in Nodes : store[m] # Nil /\ store[m].rep \in store[n].members}

(***************************************************************************)
(* ChangeReplica RPC handler: NO_PARTITION without a store, NOT_LEADER     *)
(* unless leader, else it calls RaftServer.ChangeMember, ignores what that *)
(* returns and answers OK.  ok is TRUE iff the answer is OK.  The proposal *)
(* is applied at once, or refused or lost (leadership lost, the proposal   *)
(* dropped), which the answer does not tell.  Past MaxConf (model bound)   *)
(* only the refused outcome is taken.                                      *)
(***************************************************************************)
ChangeMember(n, typ, r) ==
    LET mem == IF typ = "add" THEN store[n].members \cup {r}
                              ELSE store[n].members \ {r}
    IN store' = [store EXCEPT ![n].conf = @ + 1,
                              ![n].members = mem,
                              ![n].leader = store[n].rep \in mem]

IsLeader(n) == store[n] # Nil /\ store[n].leader

ChangeReplica(n, typ, r, ok) ==
    \/ /\ ok /\ IsLeader(n)
       /\ \/ /\ store[n].conf < MaxConf
             /\ ChangeMember(n, typ, r)
             /\ UNCHANGED <<adminCh, psUp>>
          \/ UNCHANGED psVars
    \/ /\ ~ok /\ ~IsLeader(n)
       /\ UNCHANGED psVars

(***************************************************************************)
(* The consensus group.                                                    *)
(***************************************************************************)
RaftElect(n) ==
    /\ store[n] # Nil /\ ~store[n].leader
    /\ store[n].rep \in store[n].members
    /\ \A m \in GroupOf(n) : ~store[m].leader
    /\ LET voters == {m \in GroupOf(n) : store[m].conf <= store[n].conf}
       IN 2 * Cardinality({store[m].rep : m \in voters})
            > Cardinality(store[n].members)
    /\ store' = [store EXCEPT ![n].leader = TRUE]
    /\ UNCHANGED <<adminCh, psUp>>

RaftApply(n) ==
    \E l \in Nodes :
        /\ store[l] # Nil /\ store[l].leader /\ store[n] # Nil
        /\ store[n].rep \in store[l].members
        /\ store[l].conf > store[n].conf
        /\ store' = [store EXCEPT ![n].conf = store[l].conf,
                                  ![n].members = store[l].members,
                                  ![n].leader = FALSE]
        /\ UNCHANGED <<adminCh, psUp>>

(***************************************************************************)
(* The PS process.  Close (or a crash) stops the heartbeat and the admin   *)
(* server and closes every store (closeAllRange); queued admin requests   *)
(* are lost.  Start (doStart) registers with the master, which answers    *)
(* with the partition meta it assigns the node, or none; with none,       *)
(* reset clears the persisted meta, otherwise destroyExcludePartition      *)
(* keeps it; recoverPartitions then runs doPartitionCreate for the         *)
(* assigned meta, and the admin handler and heartbeats start.             *)
(***************************************************************************)
PSStop(n) ==
    /\ psUp[n]
    /\ psUp' = [psUp EXCEPT ![n] = FALSE]
    /\ store' = [store EXCEPT ![n] = Nil]
    /\ adminCh' = [adminCh EXCEPT ![n] = << >>]

PSStart(n, assigned) ==
    /\ ~psUp[n]
    /\ psUp' = [psUp EXCEPT ![n] = TRUE]
    /\ store' = [store EXCEPT ![n] =
                    IF assigned = Nil THEN Nil ELSE NewStore(n, assigned)]
    /\ UNCHANGED adminCh

\* What a PS heartbeat reports for the partition.  A leader's RaftStatus
\* lists the other members as Followers; what a non-leader reports is up to
\* the PS heartbeat builder: nil ("nil"), no followers ("none") or the
\* other members it knows ("peers").
HeartbeatInfo(n, followerReport) ==
    [conf |-> store[n].conf,
     isLeader |-> store[n].leader,
     replica |-> store[n].rep,
     hasStatus |-> store[n].leader \/ followerReport # "nil",
     followers |-> IF store[n].leader \/ followerReport = "peers"
                   THEN store[n].members \ {store[n].rep}
                   ELSE {}]
=============================================================================
