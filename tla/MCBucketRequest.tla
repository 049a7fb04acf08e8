-------------------------- MODULE MCBucketRequest --------------------------
(* Small instances of BucketRequest for TLC. *)
EXTENDS BucketRequest

\* Lines stand for names: "P" is "p" in capitals, "bad" is not a name.
MCLines == {"p", "P", "old", "bad"}
MCCanonical == [l \in MCLines |-> IF l = "bad" THEN Rejected
                                  ELSE IF l = "P" THEN "p" ELSE l]

\* A new pair and one that is there, with a bad line beyond the limit; the
\* same new pair in capitals; a bad line within the limit.
Overlapping == [r \in Requests |-> CASE r = "r1" -> <<"p", "old", "bad">>
                                     [] r = "r2" -> <<"P">>
                                     [] OTHER -> <<"bad">>]
=============================================================================
