\* One reader (opened before, between, during or after batches), two
\* batches of one Op and merges on up to two keys, so a merge adds to a
\* value an earlier batch Set and a second merge key can fail after the
\* first was put into _batch.
\* A Set value of 0 (the empty slice) reads as a missing key to the merge
\* and to FullMerge alike, so SetVals holds 1 only.
CONSTANTS
    Keys <- MCKeys
    Probes <- MCProbes
    SetVals = {1}
    Readers = {r1}
    MaxBatches = 2
    MaxOps = 1
    MaxMerges = 2
    Nil = Nil
SPECIFICATION Spec
INVARIANTS
    IteratorExact
PROPERTIES
    BatchAllOrNothing
