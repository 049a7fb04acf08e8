---------------------------- MODULE MCSyncUsers ----------------------------
(* Small instances of SyncUsers for TLC. *)
EXTENDS SyncUsers

\* Ann and Bob are sanitised alike.
SharedKeyOf == [u \in Users |-> IF u \in {"ann", "bob"} THEN "ann_bob" ELSE u]
MCKeyOf == [u \in Users |-> <<"key", u>>]
MCStackOf == [b \in Buckets |-> IF b = "c" THEN "beta" ELSE "alpha"]

\* Ann is in both stacks, Bob in one of them and in a group that is no stack,
\* and Carl, who has no account, is in no group yet.
TwoStacks == [u \in Users |-> CASE u = "ann" -> {"alpha", "beta"}
                              [] u = "bob" -> {"beta", "staff"}
                              [] OTHER -> {}]
=============================================================================
