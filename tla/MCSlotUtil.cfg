\* 3-bit slots, n up to 9 (past the 8 slots), bytes 0..2 with 2 as 0xff,
\* prefixes and keys up to 3 bytes.  start <= end, as CreateSpace would pass.
CONSTANTS
    W = 3
    MaxN = 9
    Reversed = FALSE
    ByteMax = 2
    MaxLen = 3
SPECIFICATION Spec
INVARIANTS
    SlotSplitSound
    BytesPrefixRange
