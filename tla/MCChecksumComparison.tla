------------------------ MODULE MCChecksumComparison ------------------------
(* Small instances of ChecksumComparison for TLC. *)
EXTENDS ChecksumComparison, TLC

\* Objects that both buckets hold at first are alike, and so are the others.
Symmetry == Permutations(InPlace) \union Permutations(Objects \ InPlace)
=============================================================================
