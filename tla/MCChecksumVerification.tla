----------------------- MODULE MCChecksumVerification -----------------------
(* Instances of ChecksumVerification for TLC. *)
EXTENDS ChecksumVerification, TLC

CONSTANTS b1, r1, r2, none

\* All runs are of the one pair: what they share is its keys.
SamePair == [r \in Runs |-> b1]

InternalError == "InternalError"

\* A failed job is either empty or broken.
OneCodeEach == {{EMPTY_MANIFEST_CODE}, {InternalError}}

\* Runs that start in any order are interchangeable.
RunSymmetry == Permutations(Runs)
=============================================================================
