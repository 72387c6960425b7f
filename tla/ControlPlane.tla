------------------------------ MODULE ControlPlane ------------------------------
(***************************************************************************)
(* The zone master's control plane for one partition, composed with the   *)
(* partition servers:                                                     *)
(*  - PSHeartbeat (src/zm/rpc_server.go): one concurrent handler per PS    *)
(*    heartbeat, split at every lock release of the partition record;     *)
(*  - the partition processor (src/master/processor.go): the bounded event *)
(*    channel, the Run loop, and one goroutine per event doing PS RPCs;   *)
(*  - the admin RPCs CreatePartition, DeletePartition, ChangeReplica;      *)
(*  - the master crashing (a panic in a handler, or any crash) and         *)
(*    recovering the record from the store.                                *)
(* The record is PartitionMeta, the PS side PSNode.  Every RPC to a PS may *)
(* fail, which the caller logs and drops.                                  *)
(***************************************************************************)
EXTENDS Naturals, FiniteSets, Sequences, SequencesExt, Bags, BagsExt

CONSTANTS
    Nodes, MaxReplicaId, MaxConf, Nil, AdminCap,
    ReplicaNum,      \* FIXED_REPLICA_NUM
    ChanLimit,       \* PARTITION_CHANNEL_LIMIT
    FollowerReport,  \* what a non-leader PS reports as RaftStatus (PSNode)
    MaxAdminOps,     \* bound on admin RPCs issued
    MaxCrashes,      \* bound on master crashes other than panics
    MaxExpiries,     \* bound on the latch's 30s timeout firing ...
    ExpiriesBounded, \* ... when TRUE; FALSE lets time pass without bound
    MaxTasks,        \* bound on processor goroutines in flight
    MaxPSStops       \* bound on PS processes stopping (Close or a crash)

ReplicaIds == 1..MaxReplicaId

ASSUME FollowerReport \in {"nil", "none", "peers"}

VARIABLES
    mConf, mReplicas, mLeader, taskFlag, taskExpired, stored,   \* PartitionMeta
    store, adminCh, psUp,                                       \* PSNode
    hb,          \* node -> the master's PSHeartbeat handler for that PS
    eventCh,     \* pm.pp.eventCh
    tasks,       \* bag of processor goroutines in flight
    nextId,      \* the id generator's next id
    zmUp,        \* the master process is running
    panicked,    \* history: a heartbeat handler has panicked
    adminOps, crashes, expiries, psStops                        \* bounds

Meta == INSTANCE PartitionMeta WITH ReplicaIds <- 1..MaxReplicaId
PS == INSTANCE PSNode WITH ReplicaIds <- 1..MaxReplicaId

Replicas == Meta!Replicas
metaVars == <<mConf, mReplicas, mLeader, taskFlag, taskExpired, stored>>
psVars == <<store, adminCh, psUp>>
boundVars == <<adminOps, crashes, expiries, psStops>>
vars == <<metaVars, psVars, hb, eventCh, tasks, nextId, zmUp, panicked,
          boundVars>>

HbPcs == {"idle", "recv", "stale", "update", "validate", "illegal",
          "count", "over", "under"}
Idle == [pc |-> "idle", info |-> Nil]

Events == [typ : {"create"}]
          \cup [typ : {"delete"}, leaderNode : Nodes \cup {Nil}, rep : Replicas]
Tasks == [typ : {"create"}, pc : {"start"}]
         \cup [typ : {"create"}, pc : {"gen"}, leaderNode : Nodes \cup {Nil},
               target : Nodes]
         \cup [typ : {"create"}, pc : {"add"}, leaderNode : Nodes, rep : Replicas]
         \cup [typ : {"delete"}, pc : {"remove", "drop"},
               leaderNode : Nodes \cup {Nil}, rep : Replicas]

TypeOK ==
    /\ Meta!MetaTypeOK
    /\ PS!PSTypeOK
    /\ hb \in [Nodes -> {Idle} \cup [pc : HbPcs \ {"idle"}, info : Meta!Infos]]
    /\ eventCh \in Seq(Events) /\ Len(eventCh) <= ChanLimit
    /\ IsABag(tasks) /\ BagToSet(tasks) \subseteq Tasks
    /\ nextId \in 1..MaxReplicaId + 1
    /\ zmUp \in BOOLEAN /\ panicked \in BOOLEAN

Init ==
    /\ Meta!MetaInit
    /\ PS!PSInit
    /\ hb = [n \in Nodes |-> Idle]
    /\ eventCh = << >>
    /\ tasks = EmptyBag
    /\ nextId = 1
    /\ zmUp = TRUE
    /\ panicked = FALSE
    /\ adminOps = 0 /\ crashes = 0 /\ expiries = 0 /\ psStops = 0

-----------------------------------------------------------------------------
(* Helpers of the heartbeat handler and the processor.                     *)

\* pickLeaderReplica: RaftStatus.Replica when the PS reports it leads.
PickLeaderReplica(info) == IF info.isLeader THEN info.replica ELSE Nil

\* pickReplicaToDelete: nil without a RaftStatus; followers[0] for a
\* non-leader; else the first follower other than the leader, or the leader.
PickReplicaToDelete(info) ==
    LET others == {f \in info.followers : f.id # info.replica.id} IN
    CASE ~info.hasStatus -> {Nil}
      [] ~info.isLeader -> info.followers
      [] others # {} -> others
      [] OTHER -> {info.replica}

\* followers[0] of an empty slice: an index-out-of-range panic.
PickPanics(info) == info.hasStatus /\ ~info.isLeader /\ info.followers = {}

\* Mutant: no SYS_BUSY rejection.
PushEventUnbounded(ev) == eventCh' = Append(eventCh, ev)

\* PushEvent: rejected with SYS_BUSY at 90% of the channel's capacity.
PushEvent(ev) ==
    IF Len(eventCh) * 10 >= ChanLimit * 9
    THEN UNCHANGED eventCh
    ELSE eventCh' = Append(eventCh, ev)

DeleteEvent(leaderNode, r) == [typ |-> "delete", leaderNode |-> leaderNode, rep |-> r]

Finish(n) == hb' = [hb EXCEPT ![n] = Idle]
Goto(n, pc) == hb' = [hb EXCEPT ![n].pc = pc]

\* A panic in a heartbeat handler kills the master process.
Panic ==
    /\ zmUp' = FALSE /\ panicked' = TRUE
    /\ hb' = [n \in Nodes |-> Idle]
    /\ eventCh' = << >> /\ tasks' = EmptyBag

(***************************************************************************)
(* Take the change-member latch and, when taken, push the event a pick of   *)
(* pickReplicaToDelete makes (lines 407-415, 445-452, 476-483).            *)
(***************************************************************************)
TakeAndPushDelete(n, leaderNode) ==
    LET info == hb[n].info IN
    \E taken \in BOOLEAN :
        /\ Meta!TakeChangeMemberTask(taken)
        /\ \/ /\ ~taken
              /\ Finish(n) /\ UNCHANGED <<eventCh, tasks, zmUp, panicked>>
           \/ /\ taken /\ PickPanics(info)
              /\ Panic
           \/ /\ taken /\ ~PickPanics(info)
              /\ \E r \in PickReplicaToDelete(info) :
                    IF r = Nil THEN UNCHANGED eventCh
                    ELSE PushEvent(DeleteEvent(leaderNode, r))
              /\ Finish(n) /\ UNCHANGED <<tasks, zmUp, panicked>>

-----------------------------------------------------------------------------
(* PSHeartbeat, for the partition, at each step between lock sections.     *)

\* The PS sends a heartbeat carrying the partition's PartitionInfo.
HbSend(n) ==
    /\ zmUp /\ hb[n].pc = "idle" /\ store[n] # Nil
    /\ hb' = [hb EXCEPT ![n] = [pc |-> "recv",
                                info |-> PS!HeartbeatInfo(n, FollowerReport)]]
    /\ UNCHANGED <<metaVars, psVars, eventCh, tasks, nextId, zmUp, panicked,
                   boundVars>>

\* Lines 401-437: the unlocked read of confVerMS chooses the branch.
HbRecv(n) ==
    LET info == hb[n].info IN
    /\ zmUp /\ hb[n].pc = "recv"
    /\ CASE info.conf < mConf -> Goto(n, "stale")
         [] PickLeaderReplica(info) = Nil -> Finish(n)
         [] info.conf > mConf -> Goto(n, "update")
         [] OTHER -> Goto(n, "validate")
    /\ UNCHANGED <<metaVars, psVars, eventCh, tasks, nextId, zmUp, panicked,
                   boundVars>>

\* Lines 405-415: an older ConfVersion; delete via the master's leader.
HbStale(n) ==
    /\ zmUp /\ hb[n].pc = "stale"
    /\ TakeAndPushDelete(n, Meta!PickLeaderNodeId)
    /\ UNCHANGED <<psVars, nextId, boundVars>>

\* Lines 424-430 and 457-461: UpdateReplicaGroupByCond.
HbUpdate(n) ==
    LET info == hb[n].info IN
    /\ zmUp /\ hb[n].pc = "update"
    /\ \E verExpired, updateOk \in BOOLEAN :
          /\ Meta!UpdateReplicaGroupByCond(info, PickLeaderReplica(info),
                                           verExpired, updateOk)
          /\ IF verExpired \/ ~updateOk THEN Finish(n) ELSE Goto(n, "count")
    /\ UNCHANGED <<psVars, eventCh, tasks, nextId, zmUp, panicked, boundVars>>

\* Lines 439-465: ValidateAndUpdateLeaderByCond.
HbValidate(n) ==
    LET info == hb[n].info IN
    /\ zmUp /\ hb[n].pc = "validate"
    /\ \E verExpired, illegal, updateOk \in BOOLEAN :
          /\ Meta!ValidateAndUpdateLeaderByCond(info, PickLeaderReplica(info),
                                                verExpired, illegal, updateOk)
          /\ CASE verExpired -> Finish(n)
               [] illegal -> Goto(n, "illegal")
               [] ~updateOk -> Goto(n, "update")
               [] OTHER -> Goto(n, "count")
    /\ UNCHANGED <<psVars, eventCh, tasks, nextId, zmUp, panicked, boundVars>>

\* Lines 444-453: the reported leader is not a known replica; delete via it.
HbIllegal(n) ==
    /\ zmUp /\ hb[n].pc = "illegal"
    /\ TakeAndPushDelete(n, hb[n].info.replica.node)
    /\ UNCHANGED <<psVars, nextId, boundVars>>

\* Mutant: "too many" tested with >= (off by one).
HbCountAtLimit(n) ==
    /\ zmUp /\ hb[n].pc = "count"
    /\ CASE Meta!CountReplicas >= ReplicaNum -> Goto(n, "over")
         [] OTHER -> Goto(n, "under")
    /\ UNCHANGED <<metaVars, psVars, eventCh, tasks, nextId, zmUp, panicked,
                   boundVars>>

\* Line 470: countReplicas.
HbCount(n) ==
    /\ zmUp /\ hb[n].pc = "count"
    /\ CASE Meta!CountReplicas > ReplicaNum -> Goto(n, "over")
         [] Meta!CountReplicas < ReplicaNum -> Goto(n, "under")
         [] OTHER -> Finish(n)
    /\ UNCHANGED <<metaVars, psVars, eventCh, tasks, nextId, zmUp, panicked,
                   boundVars>>

\* Lines 471-483: too many replicas.
HbOver(n) ==
    /\ zmUp /\ hb[n].pc = "over"
    /\ TakeAndPushDelete(n, Meta!PickLeaderNodeId)
    /\ UNCHANGED <<psVars, nextId, boundVars>>

\* Lines 485-492: too few replicas.
HbUnder(n) ==
    /\ zmUp /\ hb[n].pc = "under"
    /\ \E taken \in BOOLEAN :
          /\ Meta!TakeChangeMemberTask(taken)
          /\ IF taken THEN PushEvent([typ |-> "create"]) ELSE UNCHANGED eventCh
    /\ Finish(n)
    /\ UNCHANGED <<psVars, tasks, nextId, zmUp, panicked, boundVars>>

-----------------------------------------------------------------------------
(* The partition processor.                                                *)

\* Run: take an event off the channel and start its goroutine.  Go bounds
\* the goroutines by memory only; the model by MaxTasks.
Dispatch ==
    /\ zmUp /\ eventCh # << >> /\ BagCardinality(tasks) < MaxTasks
    /\ LET ev == Head(eventCh) IN
         tasks' = BagAdd(tasks,
                    IF ev.typ = "create" THEN [typ |-> "create", pc |-> "start"]
                    ELSE [typ |-> "delete", pc |-> "remove",
                          leaderNode |-> ev.leaderNode, rep |-> ev.rep])
    /\ eventCh' = Tail(eventCh)
    /\ UNCHANGED <<metaVars, psVars, hb, nextId, zmUp, panicked, boundVars>>

\* GenID, then CreatePartition on the selected PS with a copy of the record
\* as it is now plus the new replica; the leader PS was read a step earlier.
NewReplicaOn(n, leaderNode, t) ==
    LET r == [id |-> nextId, node |-> n] IN
    /\ nextId <= MaxReplicaId
    /\ nextId' = nextId + 1
    /\ \/ /\ UNCHANGED psVars                                   \* RPC failed
          /\ tasks' = BagRemove(tasks, t)
       \/ /\ PS!CreatePartition(n, [conf |-> mConf,
                                    replicas |-> mReplicas \cup {r}])
          /\ tasks' = IF leaderNode = Nil THEN BagRemove(tasks, t)
                      ELSE BagAdd(BagRemove(tasks, t),
                             [typ |-> "create", pc |-> "add",
                              leaderNode |-> leaderNode, rep |-> r])

\* The create goroutine: serverSelector picks the PS, and createPartition
\* reads the leader PS under the record's read lock (processor.go lines
\* 226-241, 277-278).
CreateStart(t) ==
    /\ zmUp /\ t.typ = "create" /\ t.pc = "start"
    /\ \E n \in Nodes :
          tasks' = BagAdd(BagRemove(tasks, t),
                          [typ |-> "create", pc |-> "gen", target |-> n,
                           leaderNode |-> Meta!PickLeaderNodeId])
    /\ UNCHANGED <<metaVars, psVars, hb, eventCh, nextId, zmUp, panicked,
                   boundVars>>

\* createPartition from GenID to the CreatePartition RPC (lines 280-301):
\* the deep copy of the record is taken now, without the lock.
CreateGen(t) ==
    /\ zmUp /\ t.typ = "create" /\ t.pc = "gen"
    /\ \/ NewReplicaOn(t.target, t.leaderNode, t)
       \/ /\ nextId > MaxReplicaId                       \* GenID failed
          /\ tasks' = BagRemove(tasks, t)
          /\ UNCHANGED <<psVars, nextId>>
    /\ UNCHANGED <<metaVars, hb, eventCh, zmUp, panicked, boundVars>>

\* createPartition, AddReplica RPC to the leader PS (lines 303-309).
CreateAdd(t) ==
    /\ zmUp /\ t.typ = "create" /\ t.pc = "add"
    /\ \/ UNCHANGED psVars
       \/ \E ok \in BOOLEAN : PS!ChangeReplica(t.leaderNode, "add", t.rep, ok)
    /\ tasks' = BagRemove(tasks, t)
    /\ UNCHANGED <<metaVars, hb, eventCh, nextId, zmUp, panicked, boundVars>>

\* deletePartition: RemoveReplica RPC on the leader PS (lines 314-329).
DeleteRemove(t) ==
    /\ zmUp /\ t.typ = "delete" /\ t.pc = "remove"
    /\ \/ /\ t.leaderNode = Nil                     \* leader PS not found
          /\ tasks' = BagRemove(tasks, t) /\ UNCHANGED psVars
       \/ /\ t.leaderNode # Nil
          /\ tasks' = BagRemove(tasks, t) /\ UNCHANGED psVars  \* RPC failed
       \/ /\ t.leaderNode # Nil
          /\ \E ok \in BOOLEAN :
                /\ PS!ChangeReplica(t.leaderNode, "remove", t.rep, ok)
                /\ tasks' = IF ok THEN BagAdd(BagRemove(tasks, t),
                                                [t EXCEPT !.pc = "drop"])
                            ELSE BagRemove(tasks, t)
    /\ UNCHANGED <<metaVars, hb, eventCh, nextId, zmUp, panicked, boundVars>>

\* deletePartition: DeletePartition RPC on the replica's PS (lines 331-335).
DeleteDrop(t) ==
    /\ zmUp /\ t.typ = "delete" /\ t.pc = "drop"
    /\ \/ UNCHANGED psVars                                     \* RPC failed
       \/ PS!DeletePartition(t.rep.node)
    /\ tasks' = BagRemove(tasks, t)
    /\ UNCHANGED <<metaVars, hb, eventCh, nextId, zmUp, panicked, boundVars>>

-----------------------------------------------------------------------------
(* Admin RPCs of the master (rpc_server.go), and the master's lifecycle.   *)

AdminStep ==
    /\ zmUp /\ adminOps < MaxAdminOps
    /\ adminOps' = adminOps + 1
    /\ UNCHANGED <<metaVars, hb, eventCh, tasks, zmUp, panicked, crashes, expiries,
                   psStops>>

\* CreatePartition (lines 71-116) for the partition as the master holds it.
ZmCreatePartition ==
    /\ AdminStep
    /\ nextId <= MaxReplicaId
    /\ nextId' = nextId + 1
    /\ \E n \in Nodes :
          \/ UNCHANGED psVars
          \/ PS!CreatePartition(n, [conf |-> mConf,
                                    replicas |-> mReplicas \cup
                                                 {[id |-> nextId, node |-> n]}])

\* ChangeReplica (lines 160-212) of an allocated replica via the leader PS.
ZmChangeReplica ==
    /\ AdminStep
    /\ Meta!PickLeaderNodeId # Nil
    /\ \E typ \in {"add", "remove"}, r \in Replicas, ok \in BOOLEAN :
          /\ r.id < nextId
          /\ \/ UNCHANGED psVars
             \/ PS!ChangeReplica(Meta!PickLeaderNodeId, typ, r, ok)
    /\ UNCHANGED nextId

\* DeletePartition (lines 118-158): DeletePartition RPC to the leader PS.
ZmDeletePartition ==
    /\ AdminStep
    /\ Meta!PickLeaderNodeId # Nil
    /\ \/ UNCHANGED psVars
       \/ PS!DeletePartition(Meta!PickLeaderNodeId)
    /\ UNCHANGED nextId

\* The latch's 30s timeout passes.
LatchExpires ==
    /\ zmUp /\ (ExpiriesBounded => expiries < MaxExpiries)
    /\ Meta!LatchExpires
    /\ expiries' = IF ExpiriesBounded THEN expiries + 1 ELSE expiries
    /\ UNCHANGED <<psVars, hb, eventCh, tasks, nextId, zmUp, panicked,
                   adminOps, crashes, psStops>>

\* The master process dies; in-flight handlers, the channel and the
\* processor's goroutines are lost.
ZmCrash ==
    /\ zmUp /\ crashes < MaxCrashes
    /\ crashes' = crashes + 1
    /\ zmUp' = FALSE
    /\ hb' = [n \in Nodes |-> Idle] /\ eventCh' = << >> /\ tasks' = EmptyBag
    /\ UNCHANGED <<metaVars, psVars, nextId, panicked, adminOps, expiries,
                   psStops>>

\* The master restarts and PartitionCache.Recovery reloads the record.
ZmRestart ==
    /\ ~zmUp
    /\ zmUp' = TRUE
    /\ Meta!Recovery
    /\ UNCHANGED <<psVars, hb, eventCh, tasks, nextId, panicked, boundVars>>

\* PS n's adminEventHandler takes the next admin request.
PSAdmin(n) ==
    /\ PS!DoAdminEvent(n)
    /\ UNCHANGED <<metaVars, hb, eventCh, tasks, nextId, zmUp, panicked,
                   boundVars>>

\* The consensus group, as PS n's store sees it.
PSRaft(n) ==
    /\ PS!RaftElect(n) \/ PS!RaftApply(n)
    /\ UNCHANGED <<metaVars, hb, eventCh, tasks, nextId, zmUp, panicked,
                   boundVars>>

\* PS n's process stops: Close, or a crash.
PSStop(n) ==
    /\ psStops < MaxPSStops
    /\ psStops' = psStops + 1
    /\ PS!PSStop(n)
    /\ UNCHANGED <<metaVars, hb, eventCh, tasks, nextId, zmUp, panicked,
                   adminOps, crashes, expiries>>

\* PSRegister (rpc_server.go lines 301-355): the master answers a
\* registering PS with the meta of the partitions whose record it keeps for
\* that PS; for this partition, the record as cached when it lists a
\* replica on n.
Assignment(n) ==
    IF \E r \in mReplicas : r.node = n
    THEN [conf |-> mConf, replicas |-> mReplicas]
    ELSE Nil

\* PS n starts again (doStart): register needs the master, and the rest of
\* the boot follows its answer.
PSStart(n) ==
    /\ zmUp
    /\ PS!PSStart(n, Assignment(n))
    /\ UNCHANGED <<metaVars, hb, eventCh, tasks, nextId, zmUp, panicked,
                   boundVars>>

HbStep(n) ==
    \/ HbSend(n) \/ HbRecv(n) \/ HbStale(n) \/ HbUpdate(n) \/ HbValidate(n)
    \/ HbIllegal(n) \/ HbCount(n) \/ HbOver(n) \/ HbUnder(n)

TaskStep(t) ==
    CreateStart(t) \/ CreateGen(t) \/ CreateAdd(t) \/ DeleteRemove(t) \/ DeleteDrop(t)

Next ==
    \/ \E n \in Nodes : HbStep(n)
    \/ Dispatch
    \/ \E t \in BagToSet(tasks) : TaskStep(t)
    \/ ZmCreatePartition \/ ZmChangeReplica \/ ZmDeletePartition
    \/ LatchExpires \/ ZmCrash \/ ZmRestart
    \/ \E n \in Nodes : PSAdmin(n) \/ PSRaft(n) \/ PSStop(n) \/ PSStart(n)

Spec == Init /\ [][Next]_vars

(***************************************************************************)
(* Fairness the code's scheduling justifies: every PS heartbeats its       *)
(* partitions on a ticker and each heartbeat's handler runs to its end;   *)
(* the processor's Run loop keeps draining eventCh and its goroutines run; *)
(* each PS's admin handler keeps draining adminEventCh and the consensus  *)
(* group keeps electing and replicating; wall-clock time passes, so a held *)
(* latch's 30s expire; a dead master or PS is restarted.  An RPC to a PS can    *)
(* fail any number of times, but a request the processor keeps re-issuing *)
(* (each new event re-sends it) is not lost forever: strong fairness on a  *)
(* goroutine's RPC taking effect.  The admin RPCs, the crashes and the     *)
(* master's store writes are the environment and get no fairness.          *)
(***************************************************************************)
RpcTakesEffect == \E t \in BagToSet(tasks) : TaskStep(t) /\ psVars' # psVars

Fairness ==
    /\ \A n \in Nodes : WF_vars(HbStep(n)) /\ WF_vars(PSAdmin(n)) /\ WF_vars(PSRaft(n))
                        /\ WF_vars(PSStart(n))
    /\ WF_vars(Dispatch)
    /\ WF_vars(\E t \in BagToSet(tasks) : TaskStep(t))
    /\ SF_vars(RpcTakesEffect)
    /\ WF_vars(LatchExpires)
    /\ WF_vars(ZmRestart)

LiveSpec == Spec /\ Fairness

-----------------------------------------------------------------------------
(* Properties.                                                             *)

\* Spec invariant 2: the leader the master records is one of the replicas it
\* records, whatever order concurrent heartbeat handlers update them in
\* (ValidateAndUpdateLeaderByCond, UpdateReplicaGroupByCond).
LeaderInReplicas ==
    zmUp /\ mLeader # Nil => mLeader.id \in Meta!Ids(mReplicas)

\* The persisted record, with the leader the running master holds, behaves
\* as PartitionRecord allows: UpdateReplicaGroupByCond, ValidateAndUpdate-
\* LeaderByCond, failed store writes, crashes and Recovery never lower the
\* ConfVersion, never regroup at an equal ConfVersion while a leader is
\* known, and never record a leader outside the recorded replicas.
Rec == INSTANCE PartitionRecord
           WITH conf <- stored.conf, replicas <- stored.replicas,
                leader <- IF zmUp THEN mLeader ELSE Nil
RecordRefined == Rec!Spec

\* Copy-persist-swap: while the master runs, the cached record equals the
\* persisted one, so a restart recovers exactly what was being served.
CacheMatchesStore ==
    zmUp => /\ mConf = stored.conf
            /\ mReplicas = stored.replicas

\* A Delete event the heartbeat handler pushes names a replica the master
\* records only when the master records more than FIXED_REPLICA_NUM of them:
\* the reconciler never asks to remove a replica the partition still needs.
\* This is about pickReplicaToDelete's choice in the stale-epoch, illegal-
\* leader and over-count branches, made from the heartbeat's RaftStatus
\* after the latch was taken and possibly after the record changed.
PushedDelete == Len(eventCh') = Len(eventCh) + 1 /\ Last(eventCh').typ = "delete"

DeleteOnlyWhenOverReplicated ==
    [][PushedDelete =>
         (Last(eventCh').rep.id \in Meta!Ids(mReplicas)
            => Meta!CountReplicas > ReplicaNum)]_eventCh

\* A heartbeat never brings the master down: pickReplicaToDelete (rpc_server.go
\* lines 516-527) indexes followers[0] of a non-leader's RaftStatus without
\* checking the slice is non-empty, once the stale-epoch branch has taken
\* the latch.
NoHandlerPanic == ~panicked

\* The master has fewer replicas than FIXED_REPLICA_NUM while the store of
\* the leader it records leads at the recorded ConfVersion, so that
\* store's heartbeats reach the under-count branch.
UnderTarget ==
    /\ zmUp /\ mLeader # Nil /\ Meta!CountReplicas < ReplicaNum
    /\ LET s == store[mLeader.node] IN
         s # Nil /\ s.rep = mLeader /\ s.leader /\ s.conf = mConf

CreateInFlight ==
    \/ \E i \in 1..Len(eventCh) : eventCh[i].typ = "create"
    \/ \E t \in BagToSet(tasks) : t.typ = "create"

\* Spec property 5 and the lost-event path of PushEvent (processor.go line
\* 124): a replica deficit is always acted on.  A Create event pushed and
\* then rejected, or whose RPCs fail, leaves the change-member latch held;
\* after its 30s timeout a later heartbeat of the leader must take the
\* latch again and push a new Create, unless the deficit has gone.
DeficitRetried == UnderTarget ~> (~UnderTarget \/ CreateInFlight)

\* The master records a replica on a running PS that hosts no store of the
\* partition.
LostReplica ==
    zmUp /\ \E r \in mReplicas : psUp[r.node] /\ store[r.node] = Nil

\* Spec 4.C (the heartbeat re-drives convergence) and the PS boot sequence
\* (server.go doStart): a replica the master records but no running PS
\* hosts is eventually dropped from the record or hosted again.  About
\* doStart trusting PSRegister's answer, built from the master's record,
\* to decide which partitions a restarted PS recovers.
LostReplicaRepaired == LostReplica ~> ~LostReplica
=============================================================================
