---------------------------- MODULE PartitionTree ----------------------------
(***************************************************************************)
(* A space's slot -> partition index (PartitionTree, src/master/           *)
(* partition.go).  The btree keys its items by StartSlot, ordered          *)
(* descending (PartitionItem.Less is left > right), so one item per start  *)
(* and the tree is the set of its items.  Slots are SlotIDs of width W.    *)
(* The tree changes by update and remove; search and multipleSearch are    *)
(* the reads GetRoute makes.                                               *)
(***************************************************************************)
EXTENDS Naturals, FiniteSets, Sequences

CONSTANTS
    W,        \* bits of a SlotID (uint32 in the code)
    Ids,      \* partition ids
    MaxNum,   \* largest num passed to multipleSearch
    Nil

Seqs == INSTANCE SequencesExt

MaxSlot == 2^W - 1
Slots == 0..MaxSlot

\* A partition as the tree sees it.  A space's partitions are half-open
\* ranges [StartSlot, EndSlot) with StartSlot < EndSlot.
Parts == {p \in [id : Ids, start : Slots, end : Slots] : p.start < p.end}

VARIABLE tree

\* PartitionItem.Contains.
Contains(p, slot) == p.start <= slot /\ slot < p.end

\* find: AscendGreaterOrEqual from a probe at slot visits the items with
\* StartSlot <= slot, largest first; the first one is the answer if it
\* contains slot.
FindNoContains(slot) ==
    LET below == {p \in tree : p.start <= slot} IN
    IF below = {} THEN Nil
    ELSE CHOOSE p \in below : \A q \in below : q.start <= p.start

Find(slot) ==
    LET r == FindNoContains(slot) IN
    IF r # Nil /\ Contains(r, slot) THEN r ELSE Nil

\* DescendLessOrEqual(pivot) visits the items with StartSlot >= pivot's,
\* smallest start first.
FromStart(s) == Seqs!SetToSortSeq({p \in tree : p.start >= s},
                                  LAMBDA a, b : a.start < b.start)

(***************************************************************************)
(* update: the pivot is the item containing rng's start, else rng itself;  *)
(* from it, every item starting before rng's end is an overlap and is     *)
(* deleted; then ReplaceOrInsert puts rng in (replacing an item with the   *)
(* same start).                                                            *)
(***************************************************************************)
\* Mutant: the scan starts at rng's own start, not at the containing item.
PivotOwnStart(rng) == rng.start

PivotStart(rng) == IF Find(rng.start) = Nil THEN rng.start ELSE Find(rng.start).start

\* Mutant: the scan also takes the item that starts exactly at rng's end.
Overlaps2(rng) == {p \in tree : p.start >= PivotStart(rng) /\ p.start <= rng.end}

Overlaps(rng) == {p \in tree : p.start >= PivotStart(rng) /\ p.start < rng.end}

Update(rng) ==
    tree' = {q \in tree \ Overlaps(rng) : q.start # rng.start} \cup {rng}

\* remove: only the found item, and only if it has rng's id.
Remove(rng) ==
    LET r == Find(rng.start) IN
    tree' = IF r = Nil \/ r.id # rng.id THEN tree ELSE tree \ {r}

\* search.
Search(slot) == Find(slot)

\* ascendScan: up to num items from the found one on (all when num = 0).
\* Mutant: one item more than num.
AscendScanPlusOne(slot, num) ==
    LET r == Find(slot) IN
    IF r = Nil THEN << >>
    ELSE LET s == FromStart(r.start) IN
         IF num = 0 \/ num + 1 >= Len(s) THEN s ELSE SubSeq(s, 1, num + 1)

AscendScan(slot, num) ==
    LET r == Find(slot) IN
    IF r = Nil THEN << >>
    ELSE LET s == FromStart(r.start) IN
         IF num = 0 \/ num >= Len(s) THEN s ELSE SubSeq(s, 1, num)

\* multipleSearch: the scanned items up to the first whose start is not the
\* previous one's end.
RECURSIVE Contiguous(_)
Contiguous(s) ==
    IF Len(s) <= 1 THEN s
    ELSE IF s[2].start # s[1].end THEN <<s[1]>>
    ELSE <<s[1]>> \o Contiguous(Tail(s))

MultipleSearch(slot, num) == Contiguous(AscendScan(slot, num))

\* GetRoute (src/zm/rpc_server.go): up to RouteNum contiguous partitions
\* from the requested slot on, or ErrRouteNotFound when there are none.
\* The leader and node lookups of each route read other caches.
RouteNum == 10
ErrRouteNotFound == "ErrRouteNotFound"
GetRoute(slot) ==
    LET ps == MultipleSearch(slot, RouteNum) IN
    IF ps = << >> THEN ErrRouteNotFound ELSE ps

-----------------------------------------------------------------------------
Init == tree = {}

Next == \E rng \in Parts : Update(rng) \/ Remove(rng)

Spec == Init /\ [][Next]_tree

TypeOK == tree \subseteq Parts

Overlap(p, q) == p.start < q.end /\ q.start < p.end

\* Spec invariant 3, first half: whatever sequence of update and remove
\* calls the space makes, the partitions in the tree are pairwise disjoint.
Disjoint == \A p, q \in tree : p # q => ~Overlap(p, q)

\* update's contract (spec 4.A): the tree afterwards is the old tree less
\* every partition overlapping the new one, plus the new one; remove takes
\* out at most one partition.  About the pivot and stop test of update.
UpdateReplacesOverlaps ==
    [][\/ \E rng \in tree' : tree' = {q \in tree : ~Overlap(q, rng)} \cup {rng}
       \/ \E r \in tree : tree' = tree \ {r}]_tree

\* Spec invariant 3, second half: search(q) returns a partition iff one in
\* the tree contains q, and then one that contains q; GetRoute answers
\* ErrRouteNotFound exactly when no partition contains q.
SearchCorrect ==
    \A q \in Slots :
        /\ Search(q) # Nil <=> \E p \in tree : Contains(p, q)
        /\ Search(q) # Nil => Contains(Search(q), q)
        /\ GetRoute(q) = ErrRouteNotFound <=> Search(q) = Nil

\* Spec invariant 4: multipleSearch(q, n) starts at the partition holding q,
\* returns at most n partitions, each starting where the previous ends, and
\* stops short of n only where the next slot has no partition starting.
MultipleSearchCorrect ==
    \A q \in Slots, n \in 1..MaxNum \cup {RouteNum} :
        LET r == MultipleSearch(q, n) IN
        /\ r = << >> <=> Search(q) = Nil
        /\ Len(r) <= n
        /\ r # << >> => Contains(r[1], q)
        /\ \A i \in 1..Len(r) - 1 : r[i + 1].start = r[i].end
        /\ r # << >> /\ Len(r) < n =>
              ~\E p \in tree : p.start = r[Len(r)].end
=============================================================================
