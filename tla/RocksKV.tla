------------------------------- MODULE RocksKV -------------------------------
(***************************************************************************)
(* The bleve KV store on rocksdb (src/engine/bleve/rocksdb): the Writer's  *)
(* ExecuteBatch, the Reader's snapshot, and the Iterator a Reader opens    *)
(* over a prefix or a [start, end) range, with Seek and Next.  rocksdb is  *)
(* the database as a function from keys to values, a snapshot as the copy  *)
(* of it a reader holds, and its iterator as a position on the snapshot's  *)
(* keys.  Keys are byte strings; values are numbers, 0 standing for the    *)
(* empty byte slice, so that a merge can add to them.                      *)
(***************************************************************************)
EXTENDS Naturals, Sequences, FiniteSets

CONSTANTS
    Keys,        \* the keys written, byte strings
    Probes,      \* the byte strings passed as prefix, start, end or seek key
    SetVals,     \* values a batch Sets
    Readers,     \* readers (each with at most one open iterator)
    MaxBatches,  \* bound on executed batches
    MaxOps,      \* bound on the Ops of one batch
    MaxMerges,   \* bound on the keys one batch merges
    Nil

Seqs == INSTANCE SequencesExt

\* bytes.Compare(a, b) < 0.
RECURSIVE KeyLess(_, _)
KeyLess(a, b) ==
    IF b = << >> THEN FALSE
    ELSE IF a = << >> THEN TRUE
    ELSE IF a[1] # b[1] THEN a[1] < b[1]
    ELSE KeyLess(Tail(a), Tail(b))

HasPrefix(k, p) == Seqs!IsPrefix(p, k)

\* The least key of a set in byte order, or Nil.
Least(S) == IF S = {} THEN Nil ELSE CHOOSE x \in S : \A y \in S : ~KeyLess(y, x)

VARIABLES
    db,       \* rocksdb: Keys -> value or Nil
    batch,    \* the caller's EmulatedBatch: Ops in order, merge operands per key
    executed, \* batches executed so far
    exec,     \* the ExecuteBatch in progress: its _batch, err and the merge
              \* keys done, or Nil
    snap,     \* per reader: the snapshot it reads through r.ops, or Nil (closed)
    it        \* per reader: its Iterator, or Nil

vars == <<db, batch, executed, exec, snap, it>>

Ops == [k : Keys, v : SetVals \cup {Nil}]     \* v = Nil: a Delete
NoBatch == [ops |-> << >>, merges |-> [k \in Keys |-> 0]]

Iters == [prefix : Probes \cup {Nil}, start : Probes \cup {Nil}, end : Probes \cup {Nil},
          pos : Keys \cup {Nil}, key : Keys \cup {Nil}, val : Nat \cup {Nil},
          valid : BOOLEAN, want : Keys \cup {Nil}]

TypeOK ==
    /\ db \in [Keys -> Nat \cup {Nil}]
    /\ batch.ops \in Seq(Ops) /\ batch.merges \in [Keys -> Nat]
    /\ executed \in 0..MaxBatches
    /\ exec \in [pc : {"merge", "commit"}, wb : Seq(Ops), err : BOOLEAN,
                 done : SUBSET Keys] \cup {Nil}
    /\ snap \in [Readers -> [Keys -> Nat \cup {Nil}] \cup {Nil}]
    /\ it \in [Readers -> Iters \cup {Nil}]

Init ==
    /\ db = [k \in Keys |-> Nil] /\ batch = NoBatch /\ executed = 0 /\ exec = Nil
    /\ snap = [r \in Readers |-> Nil] /\ it = [r \in Readers |-> Nil]

-----------------------------------------------------------------------------
(* Writer (writer.go).                                                     *)

\* The caller fills its batch, outside an ExecuteBatch: Set, Delete, and
\* Merge with one operand on a key.
BatchSet(k, v) ==
    /\ exec = Nil /\ Len(batch.ops) < MaxOps
    /\ batch' = [batch EXCEPT !.ops = Append(@, [k |-> k, v |-> v])]
    /\ UNCHANGED <<db, executed, exec, snap, it>>

MergeKeys == {k \in Keys : batch.merges[k] > 0}

BatchMerge(k) ==
    /\ exec = Nil /\ batch.merges[k] = 0 /\ Cardinality(MergeKeys) < MaxMerges
    /\ batch' = [batch EXCEPT !.merges[k] = 1]
    /\ UNCHANGED <<db, executed, exec, snap, it>>

\* Writer.get: a missing key and an empty value both read as nil.
WriterGet(k) == IF db[k] = Nil \/ db[k] = 0 THEN Nil ELSE db[k]

\* The merge operator: the operands added to the existing value.
FullMerge(existing, n) == (IF existing = Nil THEN 0 ELSE existing) + n

RECURSIVE ApplyWB(_, _)
ApplyWB(d, wb) ==
    IF wb = << >> THEN d
    ELSE ApplyWB([d EXCEPT ![Head(wb).k] = Head(wb).v], Tail(wb))

(***************************************************************************)
(* ExecuteBatch (lines 32-73), one step per iteration.  It creates _batch  *)
(* and defers the commit; the merge loop visits the merge keys in Go's map *)
(* order, reads each one's value from the db, merges and Puts it into      *)
(* _batch, and returns at once with err set when the get or FullMerge      *)
(* fails; the Ops are then appended.  The deferred function writes _batch  *)
(* only when err is nil, and db.Write, atomic in rocksdb, may itself fail. *)
(***************************************************************************)
ExecStart ==
    /\ exec = Nil /\ executed < MaxBatches
    /\ exec' = [pc |-> "merge", wb |-> << >>, err |-> FALSE, done |-> {}]
    /\ UNCHANGED <<db, batch, executed, snap, it>>

ExecMerge(k) ==
    /\ exec # Nil /\ exec.pc = "merge" /\ k \in MergeKeys \ exec.done
    /\ \/ exec' = [exec EXCEPT !.pc = "commit", !.err = TRUE]  \* get or FullMerge failed
       \/ exec' = [exec EXCEPT !.done = @ \cup {k},
                      !.wb = Append(@, [k |-> k, v |-> FullMerge(WriterGet(k),
                                                                 batch.merges[k])])]
    /\ UNCHANGED <<db, batch, executed, snap, it>>

ExecOps ==
    /\ exec # Nil /\ exec.pc = "merge" /\ exec.done = MergeKeys
    /\ exec' = [exec EXCEPT !.pc = "commit", !.wb = @ \o batch.ops]
    /\ UNCHANGED <<db, batch, executed, snap, it>>

\* Mutant: the deferred function writes _batch whatever err is.
ExecCommitUnchecked ==
    /\ exec # Nil /\ exec.pc = "commit"
    /\ \/ db' = ApplyWB(db, exec.wb)
       \/ UNCHANGED db
    /\ exec' = Nil /\ batch' = NoBatch /\ executed' = executed + 1
    /\ UNCHANGED <<snap, it>>

\* The deferred function: Write when err is nil (the Write may fail), then
\* Destroy; the caller's batch is spent.
ExecCommit ==
    /\ exec # Nil /\ exec.pc = "commit"
    /\ \/ ~exec.err /\ db' = ApplyWB(db, exec.wb)
       \/ UNCHANGED db                        \* err set, or the Write failed
    /\ exec' = Nil /\ batch' = NoBatch /\ executed' = executed + 1
    /\ UNCHANGED <<snap, it>>

-----------------------------------------------------------------------------
(* Reader (reader.go).                                                     *)

\* NewReader: a snapshot set on the read options.
NewReader(r) ==
    /\ snap[r] = Nil
    /\ snap' = [snap EXCEPT ![r] = db]
    /\ UNCHANGED <<db, batch, executed, exec, it>>

\* What r.ops reads.
View(r) == snap[r]

\* Close: release the snapshot (after the reader's iterator is closed).
CloseReader(r) ==
    /\ snap[r] # Nil /\ it[r] = Nil
    /\ snap' = [snap EXCEPT ![r] = Nil]
    /\ UNCHANGED <<db, batch, executed, exec, it>>

-----------------------------------------------------------------------------
(* Iterator (iterator.go).                                                 *)

\* rocksdb's iterator: Seek to the least present key >= k, Next to the
\* least present key after the current one.
RSeek(r, k) == Least({x \in Keys : View(r)[x] # Nil /\ ~KeyLess(x, k)})
RNext(r, p) == Least({x \in Keys : View(r)[x] # Nil /\ KeyLess(p, x)})

\* updateValid: a key, with the prefix if there is one, else below end.
UpdateValid(i, key) ==
    /\ key # Nil
    /\ IF i.prefix # Nil THEN HasPrefix(key, i.prefix)
       ELSE i.end = Nil \/ KeyLess(key, i.end)

\* Move the rocksdb iterator and take its key and value.
MoveTo(r, i, p) ==
    [i EXCEPT !.pos = p, !.key = p, !.val = IF p = Nil THEN Nil ELSE View(r)[p],
              !.valid = UpdateValid(i, p)]

\* The range the iterator was opened on, and the key its contract says it
\* is at after a Seek(k) or a Next: the least such key of the reader's
\* snapshot from k on, or after the current key.
InRange(i, x) ==
    /\ i.prefix # Nil => HasPrefix(x, i.prefix)
    /\ i.start # Nil => ~KeyLess(x, i.start)
    /\ i.end # Nil => KeyLess(x, i.end)
Wanted(r, i, from, strict) ==
    Least({x \in Keys : /\ snap[r][x] # Nil /\ InRange(i, x)
                        /\ IF strict THEN KeyLess(from, x) ELSE ~KeyLess(x, from)})

\* Mutant: Seek without the clamp to start.
SeekNoClamp(r, i, k) ==
    IF i.prefix # Nil /\ ~HasPrefix(k, i.prefix)
    THEN IF KeyLess(k, i.prefix) THEN MoveTo(r, i, RSeek(r, i.prefix))
         ELSE [i EXCEPT !.valid = FALSE]
    ELSE MoveTo(r, i, RSeek(r, k))

\* Seek (lines 35-59): k is raised to start; a k without the prefix is
\* raised to the prefix when below it, and makes the iterator invalid,
\* unmoved, when above it.
SeekTo(r, i, k) ==
    LET k1 == IF i.start # Nil /\ KeyLess(k, i.start) THEN i.start ELSE k IN
    IF i.prefix # Nil /\ ~HasPrefix(k1, i.prefix)
    THEN IF KeyLess(k1, i.prefix) THEN MoveTo(r, i, RSeek(r, i.prefix))
         ELSE [i EXCEPT !.valid = FALSE]
    ELSE MoveTo(r, i, RSeek(r, k1))

\* A seek key as the code passes it: nil seeks from the first key.
AsKey(k) == IF k = Nil THEN << >> ELSE k

Opened(r, i, from) == [SeekTo(r, i, from) EXCEPT !.want = Wanted(r, i, from, FALSE)]

\* PrefixIterator and RangeIterator (reader.go 50-73): a new rocksdb
\* iterator on r.ops, then Seek(prefix) or Seek(start).
PrefixIterator(r, p) ==
    LET i == [prefix |-> p, start |-> Nil, end |-> Nil, pos |-> Nil, key |-> Nil,
              val |-> Nil, valid |-> FALSE, want |-> Nil]
    IN  /\ snap[r] # Nil /\ it[r] = Nil
        /\ it' = [it EXCEPT ![r] = Opened(r, i, p)]
        /\ UNCHANGED <<db, batch, executed, exec, snap>>

RangeIterator(r, s, e) ==
    LET i == [prefix |-> Nil, start |-> s, end |-> e, pos |-> Nil, key |-> Nil,
              val |-> Nil, valid |-> FALSE, want |-> Nil]
    IN  /\ snap[r] # Nil /\ it[r] = Nil
        /\ it' = [it EXCEPT ![r] = Opened(r, i, AsKey(s))]
        /\ UNCHANGED <<db, batch, executed, exec, snap>>

Seek(r, k) ==
    /\ it[r] # Nil
    /\ it' = [it EXCEPT ![r] = [SeekTo(r, @, k) EXCEPT !.want = Wanted(r, it[r], k, FALSE)]]
    /\ UNCHANGED <<db, batch, executed, exec, snap>>

\* Next (lines 61-74), called while the iterator is valid, as a
\* KVIterator's users loop on Valid().
Next(r) ==
    /\ it[r] # Nil /\ it[r].valid
    /\ it' = [it EXCEPT ![r] = [MoveTo(r, @, RNext(r, @.pos))
                                   EXCEPT !.want = Wanted(r, it[r], it[r].key, TRUE)]]
    /\ UNCHANGED <<db, batch, executed, exec, snap>>

CloseIter(r) ==
    /\ it[r] # Nil
    /\ it' = [it EXCEPT ![r] = Nil]
    /\ UNCHANGED <<db, batch, executed, exec, snap>>

-----------------------------------------------------------------------------
NextStep ==
    \/ \E k \in Keys : BatchMerge(k) \/ \E v \in SetVals \cup {Nil} : BatchSet(k, v)
    \/ ExecStart \/ ExecOps \/ ExecCommit \/ \E k \in Keys : ExecMerge(k)
    \/ \E r \in Readers :
          \/ NewReader(r) \/ CloseReader(r) \/ Next(r) \/ CloseIter(r)
          \/ \E p \in Probes : PrefixIterator(r, p) \/ Seek(r, p)
          \/ \E s, e \in Probes \cup {Nil} : RangeIterator(r, s, e)

Spec == Init /\ [][NextStep]_vars
-----------------------------------------------------------------------------
(* Properties.                                                             *)

\* An open iterator is where the KVIterator contract puts it: valid exactly
\* when the reader's snapshot has a key in the iterator's prefix or range
\* at or after the last Seek's key (or after the key Next left), and then
\* at the least such key, with its value, however batches have changed the
\* store since the reader was opened.  About Seek's clamps, updateValid
\* and the reader's snapshot.
IteratorExact ==
    \A r \in Readers : it[r] # Nil =>
        /\ it[r].valid <=> it[r].want # Nil
        /\ it[r].valid => /\ it[r].key = it[r].want
                          /\ it[r].val = snap[r][it[r].want]

\* What a batch promises: every key merged takes its old value plus its
\* operands, and every key Set or Deleted takes the last Op's value.
Promised(d, b) ==
    [k \in Keys |->
        LET last == {i \in 1..Len(b.ops) : b.ops[i].k = k /\
                        \A j \in i + 1..Len(b.ops) : b.ops[j].k # k}
        IN  IF last # {} THEN b.ops[CHOOSE i \in last : TRUE].v
            ELSE IF b.merges[k] > 0 THEN FullMerge(d[k], b.merges[k])
            ELSE d[k]]

\* Batch execution is atomic: the store changes only by a whole batch,
\* never by the merged keys _batch already holds when a later key's get
\* or FullMerge fails.  About ExecuteBatch's early return, its deferred
\* err-guarded Write, and the Ops loop running only after every merge key.
BatchAllOrNothing ==
    [][db' = db \/ db' = Promised(db, batch)]_db
=============================================================================
