------------------------------ MODULE SlotUtil ------------------------------
(***************************************************************************)
(* The two algorithms of src/util/common.go the master relies on:          *)
(*   SlotSplit(start, end, n)  boundaries that split a slot range into     *)
(*                             n - 1 partitions (uint32 arithmetic);       *)
(*   BytesPrefix(prefix)       the [prefix, limit) key range Recovery      *)
(*                             scans the store with.                       *)
(* Each is an operator; the state is just the input, so TLC checks the     *)
(* operator's contract over every input of the bounded domain.             *)
(***************************************************************************)
EXTENDS Naturals, Sequences

CONSTANTS
    W,              \* bits of uint32 in the model
    MaxN,           \* largest n passed to SlotSplit
    Reversed,       \* whether start > end is among the inputs
    ByteMax,        \* the value 0xff: bytes are 0..ByteMax
    MaxLen          \* longest prefix and key

Seqs == INSTANCE SequencesExt

Word == 2^W
U32(x) == x % Word          \* a uint32 result
Nil == << >>                \* a nil slice; SlotSplit never returns << >> otherwise

(***************************************************************************)
(* SlotSplit (common.go 35-70).  end - start, max - min, uint32(n - 1) and  *)
(* min + uint32(i) * step are uint32 operations.                           *)
(***************************************************************************)
SplitBody(start, end, n) ==
    LET min  == IF start <= end THEN start ELSE end
        max  == IF start <= end THEN end ELSE start
        step == U32(max - min) \div U32(n - 1)
    IN CASE n = 1 -> <<min>>
         [] n = 2 -> <<min, max>>
         [] OTHER -> [i \in 1..n |-> IF i = n THEN max
                                     ELSE U32(min + U32((i - 1) * step))]

\* Mutant: the length guard without its + 1.
SlotSplitNoPlusOne(start, end, n) ==
    IF n = 0 \/ U32(end - start) < n THEN Nil ELSE SplitBody(start, end, n)

SlotSplit(start, end, n) ==
    IF n = 0 \/ U32(end - start) + 1 < n THEN Nil ELSE SplitBody(start, end, n)

(***************************************************************************)
(* BytesPrefix (common.go 21-33): the limit is the prefix cut after its    *)
(* last byte below 0xff, with that byte incremented; nil when every byte   *)
(* is 0xff.                                                                *)
(***************************************************************************)
RECURSIVE LastBelowMax(_, _)
LastBelowMax(p, i) ==
    IF i = 0 THEN 0 ELSE IF p[i] < ByteMax THEN i ELSE LastBelowMax(p, i - 1)

\* Mutant: the limit keeps the bytes after the incremented one.
BytesPrefixNoCut(p) ==
    LET i == LastBelowMax(p, Len(p)) IN
    IF i = 0 THEN Nil ELSE [p EXCEPT ![i] = @ + 1]

BytesPrefix(p) ==
    LET i == LastBelowMax(p, Len(p)) IN
    IF i = 0 THEN Nil ELSE [SubSeq(p, 1, i) EXCEPT ![i] = @ + 1]

\* bytes.Compare(a, b) < 0: the byte-wise order, a proper prefix first.
RECURSIVE LexLess(_, _)
LexLess(a, b) ==
    IF b = << >> THEN FALSE
    ELSE IF a = << >> THEN TRUE
    ELSE IF a[1] # b[1] THEN a[1] < b[1]
    ELSE LexLess(Tail(a), Tail(b))

-----------------------------------------------------------------------------
Bytes == 0..ByteMax
Keys == UNION {[1..k -> Bytes] : k \in 0..MaxLen}
SplitInputs == {r \in [start : 0..Word - 1, end : 0..Word - 1, n : 0..MaxN] :
                    Reversed \/ r.start <= r.end}

VARIABLES split, prefix
vars == <<split, prefix>>

Init == split \in SplitInputs /\ prefix \in Keys
Next == UNCHANGED vars
Spec == Init /\ [][Next]_vars

TypeOK == split \in SplitInputs /\ prefix \in Keys

\* SlotSplit's contract, for a caller splitting a space's slot range: no
\* boundaries when n = 0 or the range has fewer than n slots; otherwise n
\* strictly increasing boundaries from the smaller end (to the larger end
\* when n >= 2), evenly spaced up to the last gap.  About SlotSplit's
\* uint32 length guard and step.
SlotSplitSound ==
    LET s == split.start  e == split.end  n == split.n
        lo == IF s <= e THEN s ELSE e
        hi == IF s <= e THEN e ELSE s
        r == SlotSplit(s, e, n)
    IN  IF n = 0 \/ hi - lo + 1 < n THEN r = Nil
        ELSE /\ Len(r) = n
             /\ r[1] = lo
             /\ n >= 2 => r[n] = hi
             /\ \A i \in 1..n - 1 : r[i] < r[i + 1]
             /\ \A i \in 1..n - 2 : r[i + 1] - r[i] = r[2] - r[1]

\* BytesPrefix's contract, on which Recovery's scan of the partition
\* prefix relies: a key has the prefix iff it lies in [prefix, limit),
\* with a nil limit meaning no upper bound.
BytesPrefixRange ==
    \A k \in Keys :
        Seqs!IsPrefix(prefix, k) <=>
            /\ ~LexLess(k, prefix)
            /\ BytesPrefix(prefix) = Nil \/ LexLess(k, BytesPrefix(prefix))
=============================================================================
