------------------------- MODULE MCChecksumDispatch -------------------------
(* A small instance of ChecksumDispatch for TLC: one pair is there, another *)
(* is requested while the stack is swept or checksums are dispatched.       *)
EXTENDS ChecksumDispatch

MCLines == {"a", "p"}
MCCanonical == [l \in MCLines |-> l]
PublicPair == [r \in Requests |-> <<"p">>]
=============================================================================
