--------------------------- MODULE ProcessorManager ---------------------------
(***************************************************************************)
(* The process-wide ProcessorManager of src/master/processor.go: the       *)
(* singleton GetPMSingle creates with double-checked locking, the          *)
(* PartitionProcessor's Run loop, PushEvent, and Close.  Pushers are the   *)
(* goroutines that call GetPMSingle(...).PushEvent(e) (the heartbeat       *)
(* handlers); closers are callers of Close on the manager they obtained.   *)
(* Each manager gets a new id; its event channel, context and WaitGroups   *)
(* are functions of that id.  What a create or delete goroutine does is    *)
(* modelled in ControlPlane; here it is only started and finished.  A     *)
(* Go panic that nothing recovers (a nil dereference, a send on or a close *)
(* of a closed channel) ends the process: panicked, and every action is   *)
(* guarded by ~panicked.                                                   *)
(***************************************************************************)
EXTENDS Naturals, Sequences, FiniteSets

CONSTANTS
    Pushers,    \* goroutines pushing events
    Closers,    \* goroutines calling Close
    EventTypes, \* CREATE, DELETE, FORCE_DELETE
    Limit,      \* PARTITION_CHANNEL_LIMIT * 0.9: PushEvent rejects from here
    Cap,        \* PARTITION_CHANNEL_LIMIT: the channel's capacity
    MaxPushes,  \* bound on the events each pusher pushes
    Nil

ASSUME Limit < Cap

\* A manager is created only while done = 0, i.e. at first and after each
\* completed Close, so there are at most 1 + |Closers| of them.
Managers == 1..(1 + Cardinality(Closers))

VARIABLES
    single,    \* processorManagerSingle
    done,      \* processorManagerSingleDone
    lock,      \* processorManagerSingleLock: its holder or Nil
    made,      \* managers created so far
    started,   \* per manager: isStarted
    cancelled, \* per manager: its context is cancelled
    run,       \* per manager: its Run goroutine, "none", "running", "exited"
    ch,        \* per manager: pp.eventCh
    closed,    \* per manager: pp.eventCh is closed
    tasks,     \* per manager: create/delete goroutines in flight (pp.wg)
    pc,        \* per pusher or closer: where it is
    pm,        \* per pusher or closer: the manager it holds, or Nil
    ev,        \* per pusher: the event it is pushing
    pushes,    \* per pusher: events pushed so far
    accepted,  \* ghost: events PushEvent put on a channel, with the manager
    handled,   \* ghost: events a create or delete goroutine was started for
    panicked   \* the process has panicked

vars == <<single, done, lock, made, started, cancelled, run, ch, closed, tasks,
          pc, pm, ev, pushes, accepted, handled, panicked>>
mgrVars == <<started, cancelled, run, ch, closed, tasks>>

Threads == Pushers \cup Closers
Events == [from : Pushers, n : 1..MaxPushes, typ : EventTypes]

TypeOK ==
    /\ single \in Managers \cup {Nil} /\ done \in {0, 1}
    /\ lock \in Threads \cup {Nil} /\ made \in 0..Cardinality(Managers)
    /\ started \in [Managers -> BOOLEAN] /\ cancelled \in [Managers -> BOOLEAN]
    /\ run \in [Managers -> {"none", "running", "exited"}]
    /\ ch \in [Managers -> Seq(Events)] /\ \A m \in Managers : Len(ch[m]) <= Cap
    /\ closed \in [Managers -> BOOLEAN] /\ tasks \in [Managers -> Nat]
    /\ pm \in [Threads -> Managers \cup {Nil}]
    /\ ev \in [Pushers -> Events \cup {Nil}]
    /\ pushes \in [Pushers -> 0..MaxPushes]
    /\ accepted \subseteq Events \X Managers /\ handled \subseteq Events
    /\ panicked \in BOOLEAN

Init ==
    /\ single = Nil /\ done = 0 /\ lock = Nil /\ made = 0
    /\ started = [m \in Managers |-> FALSE] /\ cancelled = [m \in Managers |-> FALSE]
    /\ run = [m \in Managers |-> "none"] /\ ch = [m \in Managers |-> << >>]
    /\ closed = [m \in Managers |-> FALSE] /\ tasks = [m \in Managers |-> 0]
    /\ pc = [t \in Threads |-> "idle"] /\ pm = [t \in Threads |-> Nil]
    /\ ev = [t \in Pushers |-> Nil] /\ pushes = [t \in Pushers |-> 0]
    /\ accepted = {} /\ handled = {} /\ panicked = FALSE

Goto(t, l) == pc' = [pc EXCEPT ![t] = l]
Hold(t, m) == pm' = [pm EXCEPT ![t] = m]
Panic == panicked' = TRUE

-----------------------------------------------------------------------------
(* GetPMSingle (lines 40-69), called by a pusher with a new event          *)
(* (NewPartitionCreateEvent and the delete constructors, lines 144-181).   *)

\* Line 41: the unlocked read of the singleton.
GetFast(t) ==
    /\ ~panicked
    /\ pc[t] = "idle" /\ pushes[t] < MaxPushes
    /\ \E typ \in EventTypes :
          ev' = [ev EXCEPT ![t] = [from |-> t, n |-> pushes[t] + 1, typ |-> typ]]
    /\ pushes' = [pushes EXCEPT ![t] = @ + 1]
    /\ IF single # Nil THEN Goto(t, "push") /\ Hold(t, single)
                       ELSE Goto(t, "done?") /\ UNCHANGED pm
    /\ UNCHANGED <<single, done, lock, made, mgrVars, accepted, handled, panicked>>

\* Lines 44-45: done already set, return the singleton, read again.
GetDone(t) ==
    /\ ~panicked
    /\ pc[t] = "done?"
    /\ IF done = 1 THEN Goto(t, "push") /\ Hold(t, single)
                   ELSE Goto(t, "lock") /\ UNCHANGED pm
    /\ UNCHANGED <<single, done, lock, made, mgrVars, ev, pushes, accepted, handled, panicked>>

\* Line 48.
GetLock(t) ==
    /\ ~panicked
    /\ pc[t] = "lock" /\ lock = Nil
    /\ lock' = t /\ Goto(t, "locked")
    /\ UNCHANGED <<single, done, made, mgrVars, pm, ev, pushes, accepted, handled, panicked>>

\* Mutant: no second check of done under the lock.
GetLockedNoRecheck(t) ==
    /\ ~panicked
    /\ pc[t] = "locked"
    /\ single' = made + 1 /\ made' = made + 1 /\ Goto(t, "start")
    /\ UNCHANGED <<done, lock, mgrVars, pm, ev, pushes, accepted, handled, panicked>>

\* Lines 51-60 and 68: under the lock, either another caller has created
\* the manager (return it and unlock), or create one and publish it in
\* processorManagerSingle before it is started.
GetLocked(t) ==
    /\ ~panicked
    /\ pc[t] = "locked"
    /\ IF done = 0
       THEN /\ single' = made + 1 /\ made' = made + 1 /\ Goto(t, "start")
            /\ UNCHANGED <<lock, pm>>
       ELSE /\ Hold(t, single) /\ lock' = Nil /\ Goto(t, "push")
            /\ UNCHANGED <<single, made>>
    /\ UNCHANGED <<done, mgrVars, ev, pushes, accepted, handled, panicked>>

\* Lines 61-68 with start (lines 91-107): the Run goroutine is spawned,
\* isStarted set, done stored, and the singleton returned under the lock.
GetStart(t) ==
    /\ ~panicked
    /\ pc[t] = "start"
    /\ run' = [run EXCEPT ![single] = "running"]
    /\ started' = [started EXCEPT ![single] = TRUE]
    /\ done' = 1 /\ Hold(t, single) /\ lock' = Nil /\ Goto(t, "push")
    /\ UNCHANGED <<single, made, cancelled, ch, closed, tasks, ev, pushes,
                   accepted, handled, panicked>>

-----------------------------------------------------------------------------
(* PushEvent (lines 109-137).                                              *)

\* Lines 110-127: a nil manager is dereferenced; a manager not started, or
\* a channel at the limit, rejects the event.
PushCheck(t) ==
    /\ ~panicked
    /\ pc[t] = "push"
    /\ IF pm[t] = Nil THEN Panic /\ Goto(t, "idle")
       ELSE IF ~started[pm[t]] \/ Len(ch[pm[t]]) >= Limit
            THEN Goto(t, "idle") /\ UNCHANGED panicked
            ELSE Goto(t, "send") /\ UNCHANGED panicked
    /\ UNCHANGED <<single, done, lock, made, mgrVars, pm, ev, pushes, accepted, handled>>

\* Line 129: the send, blocking while the channel is full, panicking on a
\* closed channel.
PushSend(t) ==
    LET m == pm[t] IN
    /\ ~panicked
    /\ pc[t] = "send"
    /\ IF closed[m]
       THEN Panic /\ UNCHANGED <<ch, accepted>>
       ELSE /\ Len(ch[m]) < Cap
            /\ ch' = [ch EXCEPT ![m] = Append(@, ev[t])]
            /\ accepted' = accepted \cup {<<ev[t], m>>}
            /\ UNCHANGED panicked
    /\ Goto(t, "idle")
    /\ UNCHANGED <<single, done, lock, made, started, cancelled, run, closed, tasks,
                   pm, ev, pushes, handled>>

-----------------------------------------------------------------------------
(* The Run loop (lines 213-267) and its goroutines.                        *)

\* Lines 218-226: ctx.Done, or a receive from the closed, drained channel.
RunExit(m) ==
    /\ ~panicked
    /\ run[m] = "running"
    /\ cancelled[m] \/ (closed[m] /\ ch[m] = << >>)
    /\ run' = [run EXCEPT ![m] = "exited"]
    /\ UNCHANGED <<single, done, lock, made, started, cancelled, ch, closed, tasks,
                   pc, pm, ev, pushes, accepted, handled, panicked>>

\* Mutant: the FORCE_DELETE branch left out.
SpawnedNoForce == EventTypes \ {"force"}

\* The event types Run spawns a goroutine for.
Spawned == EventTypes

\* Lines 221-264: an event is received and a goroutine started for it.
RunReceive(m) ==
    /\ ~panicked
    /\ run[m] = "running" /\ ch[m] # << >>
    /\ ch' = [ch EXCEPT ![m] = Tail(@)]
    /\ IF Head(ch[m]).typ \in Spawned
       THEN tasks' = [tasks EXCEPT ![m] = @ + 1] /\ handled' = handled \cup {Head(ch[m])}
       ELSE UNCHANGED <<tasks, handled>>
    /\ UNCHANGED <<single, done, lock, made, started, cancelled, run, closed,
                   pc, pm, ev, pushes, accepted, panicked>>

\* Mutant: p.wg.Done() without a matching Add.
TaskDoneUnmatched(m) ==
    /\ ~panicked
    /\ tasks' = [tasks EXCEPT ![m] = @ - 1]
    /\ UNCHANGED <<single, done, lock, made, started, cancelled, run, ch, closed,
                   pc, pm, ev, pushes, accepted, handled, panicked>>

\* A create, delete or force-delete goroutine returns (defer p.wg.Done()).
TaskDone(m) ==
    /\ ~panicked
    /\ tasks[m] > 0
    /\ tasks' = [tasks EXCEPT ![m] = @ - 1]
    /\ UNCHANGED <<single, done, lock, made, started, cancelled, run, ch, closed,
                   pc, pm, ev, pushes, accepted, handled, panicked>>

-----------------------------------------------------------------------------
(* Close (lines 71-89) with PartitionProcessor.Close (lines 269-275).      *)

\* The closer holds the manager it obtained.
CloseBegin(c) ==
    /\ ~panicked
    /\ pc[c] = "idle" /\ single # Nil
    /\ Hold(c, single) /\ Goto(c, "started?")
    /\ UNCHANGED <<single, done, lock, made, mgrVars, ev, pushes, accepted, handled, panicked>>

\* Line 72: the unlocked check of isStarted.
CloseCheck(c) ==
    /\ ~panicked
    /\ pc[c] = "started?"
    /\ Goto(c, IF started[pm[c]] THEN "cancel" ELSE "end")
    /\ UNCHANGED <<single, done, lock, made, mgrVars, pm, ev, pushes, accepted, handled, panicked>>

\* Lines 75-77.
CloseCancel(c) ==
    /\ ~panicked
    /\ pc[c] = "cancel"
    /\ started' = [started EXCEPT ![pm[c]] = FALSE]
    /\ cancelled' = [cancelled EXCEPT ![pm[c]] = TRUE]
    /\ Goto(c, "waitRun")
    /\ UNCHANGED <<single, done, lock, made, run, ch, closed, tasks, pm, ev, pushes,
                   accepted, handled, panicked>>

\* Line 78 then lines 270-272: wait for Run, then close the channel.
CloseChannel(c) ==
    /\ ~panicked
    /\ pc[c] = "waitRun" /\ run[pm[c]] = "exited"
    /\ IF closed[pm[c]] THEN Panic /\ UNCHANGED closed
       ELSE closed' = [closed EXCEPT ![pm[c]] = TRUE] /\ UNCHANGED panicked
    /\ Goto(c, "waitTasks")
    /\ UNCHANGED <<single, done, lock, made, started, cancelled, run, ch, tasks, pm, ev,
                   pushes, accepted, handled>>

\* Line 274 then lines 82-85: wait for the goroutines, lock, clear the
\* singleton.
CloseClear(c) ==
    /\ ~panicked
    /\ pc[c] = "waitTasks" /\ tasks[pm[c]] = 0 /\ lock = Nil
    /\ lock' = c /\ single' = Nil /\ Goto(c, "reset")
    /\ UNCHANGED <<done, made, mgrVars, pm, ev, pushes, accepted, handled, panicked>>

\* Line 86 and the deferred unlock.
CloseReset(c) ==
    /\ ~panicked
    /\ pc[c] = "reset"
    /\ done' = 0 /\ lock' = Nil /\ Goto(c, "end")
    /\ UNCHANGED <<single, made, mgrVars, pm, ev, pushes, accepted, handled, panicked>>

-----------------------------------------------------------------------------
Next ==
    \/ \E t \in Pushers : \/ GetFast(t) \/ GetDone(t) \/ GetLock(t) \/ GetLocked(t)
                          \/ GetStart(t) \/ PushCheck(t) \/ PushSend(t)
    \/ \E m \in Managers : RunExit(m) \/ RunReceive(m) \/ TaskDone(m)
    \/ \E c \in Closers : \/ CloseBegin(c) \/ CloseCheck(c) \/ CloseCancel(c)
                          \/ CloseChannel(c) \/ CloseClear(c) \/ CloseReset(c)

\* The Run goroutines and the create/delete goroutines are scheduled;
\* pushers and closers are callers and get no fairness.
Spec == Init /\ [][Next]_vars
            /\ \A m \in Managers : WF_vars(RunReceive(m)) /\ WF_vars(RunExit(m))
                                   /\ WF_vars(TaskDone(m))

-----------------------------------------------------------------------------
(* Properties.                                                             *)

\* GetPMSingle's double-checked locking: however pushers race each other
\* and Close, at most one manager's Run loop is running, and it is the
\* published singleton's.  About the unlocked reads at lines 41 and 44 and
\* the re-check of done under the lock at line 51.
OneRunLoop ==
    \A m \in Managers : run[m] = "running" =>
        /\ single = m
        /\ \A m2 \in Managers \ {m} : run[m2] # "running"

\* Every event PushEvent accepted is eventually handed to a create or
\* delete goroutine, unless its manager was cancelled by Close or the
\* process panicked.  About Run's select over ctx.Done and eventCh and its
\* per-type branches.
AcceptedEventHandled ==
    \A e \in Events, m \in Managers :
        <<e, m>> \in accepted ~> (e \in handled \/ cancelled[m] \/ panicked)

\* A Go panic nothing recovers: a nil manager dereferenced, a send on the
\* closed channel, or the channel closed twice.  Not kept by a run: it
\* needs a Close racing PushEvent, and Close has no caller in src.
NoPanic == ~panicked
=============================================================================
