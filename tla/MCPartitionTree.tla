--------------------------- MODULE MCPartitionTree ---------------------------
EXTENDS PartitionTree, TLC

\* Partition ids are interchangeable: no definition names one.
IdSymmetry == Permutations(Ids)
=============================================================================
