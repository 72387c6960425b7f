------------------------------ MODULE EtcdWatch ------------------------------
(***************************************************************************)
(* The watch streams of the etcd topology server (src/topo/etcd3topo):     *)
(* Server.Watch on one file, and ListDir then WatchDir on the directory   *)
(* that holds it, both open at once on the same store.  The etcd store is  *)
(* its revision history: every write, to a key of the directory or to a   *)
(* key outside it, is one revision, and a Put carries its key's Version   *)
(* (1 on creation, +1 per Put) besides its ModRevision (the revision).    *)
(* Each call starts an etcd watcher and a goroutine that turns the        *)
(* watcher's events into items on a channel of capacity NotifCap,         *)
(* blocking while it is full, until a final item; the caller drains the   *)
(* channel and may call the returned CancelFunc.  Each item also records  *)
(* the revision of the write it reports (rev), which the code does not    *)
(* send.                                                                   *)
(***************************************************************************)
EXTENDS Naturals, Sequences

CONSTANTS
    Keys,       \* the directory's keys
    WatchKey,   \* the file Watch is called on, one of Keys
    Vals,       \* contents
    MaxWrites,  \* bound on writes to the store
    NotifCap,   \* capacity of a notifications channel (10 in the code)
    Nil

ASSUME WatchKey \in Keys

Seqs == INSTANCE SequencesExt

\* The two calls: Watch(WatchKey) and WatchDir on the directory.
Streams == {"file", "dir"}

VARIABLES
    hist,      \* the store's writes; hist[i] is the write at revision i + 1,
               \* to a key of Keys or (key Nil) to a key outside the directory
    kv,        \* each key as a Get reads it, or Nil
    listing,   \* the caller's last successful ListDir: names and version
    phase,     \* per stream: "idle", "watching", "ended" (goroutine
               \* returned), "failed" (the call returned an error)
    start,     \* per stream: the watcher's start revision
    next,      \* per stream: the next revision the watcher delivers
    cancelled, \* per stream: the CancelFunc was called
    notif,     \* per stream: the notifications channel
    got        \* per stream: what the caller has received, in order

vars == <<hist, kv, listing, phase, start, next, cancelled, notif, got>>

\* The store's current revision: etcd starts at 1 and each write adds one.
Rev == Len(hist) + 1

Errs == {"none", "ErrNoNode", "Canceled", "Error"}
Items == [val : Vals \cup Keys \cup {Nil}, ver : Nat, err : Errs, rev : Nat]
Item(val, ver, err, r) == [val |-> val, ver |-> ver, err |-> err, rev |-> r]

TypeOK ==
    /\ hist \in Seq([type : {"put", "delete", "other"}, key : Keys \cup {Nil},
                     val : Vals \cup {Nil}, ver : Nat])
    /\ kv \in [Keys -> [val : Vals, modRev : Nat, ver : Nat] \cup {Nil}]
    /\ listing \in [names : SUBSET Keys, ver : Nat] \cup {Nil}
    /\ phase \in [Streams -> {"idle", "watching", "ended", "failed"}]
    /\ start \in [Streams -> Nat] /\ next \in [Streams -> Nat]
    /\ cancelled \in [Streams -> BOOLEAN]
    /\ notif \in [Streams -> Seq(Items)]
    /\ \A s \in Streams : Len(notif[s]) <= NotifCap
    /\ got \in [Streams -> Seq(Items)]

Init ==
    /\ hist = << >> /\ kv = [k \in Keys |-> Nil] /\ listing = Nil
    /\ phase = [s \in Streams |-> "idle"]
    /\ start = [s \in Streams |-> 0] /\ next = [s \in Streams |-> 0]
    /\ cancelled = [s \in Streams |-> FALSE]
    /\ notif = [s \in Streams |-> << >>] /\ got = [s \in Streams |-> << >>]

-----------------------------------------------------------------------------
(* The store, written by other clients.                                    *)

Put(k, v) ==
    /\ Len(hist) < MaxWrites
    /\ LET ver == IF kv[k] = Nil THEN 1 ELSE kv[k].ver + 1 IN
       /\ hist' = Append(hist, [type |-> "put", key |-> k, val |-> v, ver |-> ver])
       /\ kv' = [kv EXCEPT ![k] = [val |-> v, modRev |-> Rev + 1, ver |-> ver]]
    /\ UNCHANGED <<listing, phase, start, next, cancelled, notif, got>>

Delete(k) ==
    /\ Len(hist) < MaxWrites /\ kv[k] # Nil
    /\ hist' = Append(hist, [type |-> "delete", key |-> k, val |-> Nil, ver |-> 0])
    /\ kv' = [kv EXCEPT ![k] = Nil]
    /\ UNCHANGED <<listing, phase, start, next, cancelled, notif, got>>

\* A write to a key outside the directory: only the revision moves.
OtherWrite ==
    /\ Len(hist) < MaxWrites
    /\ hist' = Append(hist, [type |-> "other", key |-> Nil, val |-> Nil, ver |-> 0])
    /\ UNCHANGED <<kv, listing, phase, start, next, cancelled, notif, got>>

-----------------------------------------------------------------------------
(* Watch (watch.go lines 19-99).                                           *)

\* The cell's client cannot be had, the Get fails, or it finds no node:
\* Watch returns only an error.
WatchFails ==
    /\ phase["file"] = "idle"
    /\ phase' = [phase EXCEPT !["file"] = "failed"]
    /\ \E err \in {"Error"} \cup IF kv[WatchKey] = Nil THEN {"ErrNoNode"} ELSE {} :
          got' = [got EXCEPT !["file"] = <<Item(Nil, 0, err, 0)>>]
    /\ UNCHANGED <<hist, kv, listing, start, next, cancelled, notif>>

\* The node exists: the initial WatchData carries its ModRevision as the
\* Version, and the watcher starts WithRev(initial.Header.Revision).
Watch ==
    LET n == kv[WatchKey] IN
    /\ phase["file"] = "idle" /\ n # Nil
    /\ phase' = [phase EXCEPT !["file"] = "watching"]
    /\ start' = [start EXCEPT !["file"] = Rev]
    /\ next' = [next EXCEPT !["file"] = Rev]
    /\ got' = [got EXCEPT !["file"] = <<Item(n.val, n.modRev, "none", n.modRev)>>]
    /\ UNCHANGED <<hist, kv, listing, cancelled, notif>>

-----------------------------------------------------------------------------
(* ListDir (directory.go) and WatchDir (watch.go lines 101-174).          *)

\* ListDir reads the directory's keys at the current revision and returns
\* them with resp.Header.Revision as the version; an error, or ErrNoNode
\* when no key is present, leaves the caller with no listing.
ListDir ==
    LET present == {k \in Keys : kv[k] # Nil} IN
    /\ phase["dir"] = "idle"
    /\ listing' \in {Nil} \cup IF present = {} THEN {}
                               ELSE {[names |-> present, ver |-> Rev]}
    /\ UNCHANGED <<hist, kv, phase, start, next, cancelled, notif, got>>

\* The cell's client cannot be had: WatchDir returns only an error.
WatchDirFails ==
    /\ phase["dir"] = "idle"
    /\ phase' = [phase EXCEPT !["dir"] = "failed"]
    /\ UNCHANGED <<hist, kv, listing, start, next, cancelled, notif, got>>

\* WatchDir(version) watches the directory's prefix WithRev(version), or
\* WithRev(0), from the next revision on, when version is nil.  The caller
\* passes nil or the version of its listing.
WatchDir ==
    /\ phase["dir"] = "idle"
    /\ \E version \in {Nil} \cup IF listing = Nil THEN {} ELSE {listing.ver} :
          LET from == IF version = Nil THEN Rev + 1 ELSE version IN
          /\ start' = [start EXCEPT !["dir"] = from]
          /\ next' = [next EXCEPT !["dir"] = from]
    /\ phase' = [phase EXCEPT !["dir"] = "watching"]
    /\ UNCHANGED <<hist, kv, listing, cancelled, notif, got>>

-----------------------------------------------------------------------------
(* The goroutines.  etcd delivers a watcher's events from its start        *)
(* revision on, in revision order; writes to keys it does not watch are    *)
(* passed over.                                                            *)

\* Mutant: a send that never blocks.
SendUnbounded(s, item) == notif' = [notif EXCEPT ![s] = Append(@, item)]

\* Mutant: a send that drops the item when the channel is full.
SendOrDrop(s, item) ==
    IF Len(notif[s]) < NotifCap THEN notif' = [notif EXCEPT ![s] = Append(@, item)]
    ELSE UNCHANGED notif

\* A send on a notifications channel blocks while it is full.
Send(s, item) ==
    /\ Len(notif[s]) < NotifCap
    /\ notif' = [notif EXCEPT ![s] = Append(@, item)]

Event(s) == hist[next[s] - 1]
Pending(s) == phase[s] = "watching" /\ 2 <= next[s] /\ next[s] <= Len(hist) + 1
Advance(s) == next' = [next EXCEPT ![s] = @ + 1]
Finish(s) == phase' = [phase EXCEPT ![s] = "ended"]

\* Watch's goroutine takes the next event (lines 65-93): a Put is sent
\* with the event's Kv.Version, a Delete ends the stream with ErrNoNode.
Deliver ==
    LET e == Event("file") IN
    /\ Pending("file")
    /\ CASE e.key # WatchKey -> Advance("file") /\ UNCHANGED <<phase, notif>>
         [] e.type = "put" -> /\ Send("file", Item(e.val, e.ver, "none", next["file"]))
                              /\ Advance("file") /\ UNCHANGED phase
         [] OTHER -> /\ Send("file", Item(Nil, 0, "ErrNoNode", next["file"]))
                     /\ Finish("file") /\ UNCHANGED next
    /\ UNCHANGED <<hist, kv, listing, start, cancelled, got>>

\* Mutant: WatchDir's Put sent with the key's Version, as Watch does.
DeliverDirKvVersion ==
    LET e == Event("dir") IN
    /\ Pending("dir")
    /\ CASE e.key = Nil -> UNCHANGED notif
         [] e.type = "put" -> Send("dir", Item(e.val, e.ver, "none", next["dir"]))
         [] OTHER -> Send("dir", Item(e.key, next["dir"], "ErrNoNode", next["dir"]))
    /\ Advance("dir")
    /\ UNCHANGED <<hist, kv, listing, phase, start, cancelled, got>>

\* WatchDir's goroutine takes the next event (lines 135-168): a Put is
\* sent with its ModRevision, a Delete with the key, its ModRevision and
\* ErrNoNode, and the stream goes on.
DeliverDir ==
    LET e == Event("dir") IN
    /\ Pending("dir")
    /\ CASE e.key = Nil -> UNCHANGED notif
         [] e.type = "put" -> Send("dir", Item(e.val, next["dir"], "none", next["dir"]))
         [] OTHER -> Send("dir", Item(e.key, next["dir"], "ErrNoNode", next["dir"]))
    /\ Advance("dir")
    /\ UNCHANGED <<hist, kv, listing, phase, start, cancelled, got>>

\* etcd cancels the watcher (wresp.Canceled, e.g. after a compaction):
\* the final notification, then return.
ServerCancel(s) ==
    /\ phase[s] = "watching"
    /\ Send(s, Item(Nil, 0, "Canceled", 0))
    /\ Finish(s)
    /\ UNCHANGED <<hist, kv, listing, start, next, cancelled, got>>

\* Mutant: the Done branch returns without its final notification.
CtxDoneSilent(s) ==
    /\ phase[s] = "watching" /\ cancelled[s]
    /\ Finish(s)
    /\ UNCHANGED <<hist, kv, listing, start, next, cancelled, notif, got>>

\* The watchCtx.Done() branch (lines 59-64 and 129-134): the final error,
\* then return.
CtxDone(s) ==
    /\ phase[s] = "watching" /\ cancelled[s]
    /\ Send(s, Item(Nil, 0, "Canceled", 0))
    /\ Finish(s)
    /\ UNCHANGED <<hist, kv, listing, start, next, cancelled, got>>

-----------------------------------------------------------------------------
(* The caller.                                                              *)

\* The returned CancelFunc.
Cancel(s) ==
    /\ phase[s] \in {"watching", "ended"} /\ ~cancelled[s]
    /\ cancelled' = [cancelled EXCEPT ![s] = TRUE]
    /\ UNCHANGED <<hist, kv, listing, phase, start, next, notif, got>>

Receive(s) ==
    /\ notif[s] # << >>
    /\ got' = [got EXCEPT ![s] = Append(@, Head(notif[s]))]
    /\ notif' = [notif EXCEPT ![s] = Tail(@)]
    /\ UNCHANGED <<hist, kv, listing, phase, start, next, cancelled>>

Next ==
    \/ \E k \in Keys : Delete(k) \/ \E v \in Vals : Put(k, v)
    \/ OtherWrite
    \/ WatchFails \/ Watch \/ ListDir \/ WatchDirFails \/ WatchDir
    \/ Deliver \/ DeliverDir
    \/ \E s \in Streams : ServerCancel(s) \/ CtxDone(s) \/ Cancel(s) \/ Receive(s)

Spec == Init /\ [][Next]_vars

\* Each goroutine runs whenever it can send (Go's select picks among ready
\* cases at random, so a ready case is not passed over forever) and the
\* caller keeps draining both channels.
LiveSpec ==
    /\ Spec /\ SF_vars(Deliver) /\ SF_vars(DeliverDir)
    /\ \A s \in Streams : SF_vars(CtxDone(s)) /\ WF_vars(Receive(s))
-----------------------------------------------------------------------------
(* Properties.                                                             *)

Received(s, m) == \E i \in 1..Len(got[s]) : got[s][i].rev = m

Watches(s, m) ==
    IF s = "file" THEN hist[m - 1].key = WatchKey ELSE hist[m - 1].key \in Keys

\* Every write a stream watches, from after Watch's read or from WatchDir's
\* start revision on, reaches the caller, in the stream, unless the
\* goroutine has returned first: the blocking sends on the bounded channel
\* lose nothing.
StreamDeliversWrites ==
    \A s \in Streams, m \in 2..MaxWrites + 1 :
        (/\ phase[s] = "watching" /\ start[s] <= m /\ m <= Len(hist) + 1
         /\ (s = "file" => start[s] < m) /\ Watches(s, m)
         /\ (s = "file" => hist[m - 1].type = "put"))
            ~> (Received(s, m) \/ phase[s] = "ended")

\* After the caller's CancelFunc each stream ends with a final error item
\* and nothing after it (spec: a cancellable sequence terminated by
\* ErrNoNode or by cancellation).  About the watchCtx.Done() branches.
CancelEndsStream ==
    \A s \in Streams :
        cancelled[s] ~> /\ phase[s] = "ended" /\ notif[s] = << >>
                        /\ Len(got[s]) > 0 /\ got[s][Len(got[s])].err # "none"

\* What WatchDir must report for the write at revision r: a Put's
\* contents, or a Delete's key with ErrNoNode, with r as the Version.
DirItem(r) ==
    IF hist[r - 1].type = "put" THEN Item(hist[r - 1].val, r, "none", r)
    ELSE Item(hist[r - 1].key, r, "ErrNoNode", r)

DirWritesFrom(r) ==
    LET rs == SelectSeq([i \in 1..Len(hist) + 2 - r |-> r + i - 1],
                        LAMBDA x : hist[x - 1].key \in Keys)
    IN  [i \in 1..Len(rs) |-> DirItem(rs[i])]

\* The directory stream, apart from its final item, is exactly the
\* directory's writes from the start revision on, each once, in revision
\* order, with its ModRevision as the Version and a Delete naming its key.
\* About WatchDir's event loop and the Version it sends (lines 144-161).
DirStreamExact ==
    phase["dir"] \in {"watching", "ended"} =>
        Seqs!IsPrefix(SelectSeq(got["dir"], LAMBDA i : i.err \in {"none", "ErrNoNode"}),
                      DirWritesFrom(start["dir"]))

\* The Versions the caller sees on the file stream, the initial one first,
\* strictly increase: each item reports a newer state of the node than the
\* one before.  About the watcher's start revision (line 47) and the
\* Version a Put notification carries (line 79).
VersionsIncrease ==
    LET g == got["file"] IN
    \A i \in 2..Len(g) : g[i].err = "none" => g[i].ver > g[i - 1].ver
=============================================================================
