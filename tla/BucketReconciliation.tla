------------------------ MODULE BucketReconciliation ------------------------
(***************************************************************************)
(* bucket-reconciliation: the CLI lists the buckets of a stack, reads their *)
(* tags, and compares the configuration of every bucket with what bucket   *)
(* creation would have given it, one read of S3 at a time, while requests  *)
(* are being processed.  It only reads.                                    *)
(***************************************************************************)
EXTENDS BucketRequest, SequencesExt

\* A stack that is listed has finitely many buckets.
ASSUME StackAssumption == IsFiniteSet(Existing)

VARIABLES
    sweep,      \* how far the one sweep of the model has come
    untagged,   \* the buckets of the listing whose tags are still to be read
    listed,     \* the buckets whose tags named them as the stack's
    todo,       \* the checks still to be made, in order
    results,    \* the checks made, as <<bucket, check, status>>
    disturbed   \* history: a request took a step since the listing

sweepVars == <<sweep, untagged, listed, todo, results, disturbed>>
allVars == <<vars, sweepVars>>

-----------------------------------------------------------------------------
(* Expected configuration *)

ReconcileReplication == <<"transition_tag", "versioning", "lifecycle">>
ReconcileStandard == ReconcileReplication
                     \o <<"replication", "notifications", "logging", "inventory">>
ReconcilePublic == ReconcileStandard \o <<"public_access", "bucket_policy">>

\* Mutant: the checks of a standard bucket are made for a public one as well, twice.
ChecksTwice(b) == IF b[2] = "replica" THEN ReconcileReplication
                  ELSE IF b[1] \in PublicNames
                  THEN ReconcileStandard \o ReconcilePublic ELSE ReconcileStandard

Checks(b) == IF b[2] = "replica" THEN ReconcileReplication
             ELSE IF b[1] \in PublicNames THEN ReconcilePublic
             ELSE ReconcileStandard

ChecksOf(b) == LET c == Checks(b) IN [k \in 1..Len(c) |-> <<b, c[k]>>]

\* reconcile_stack: every source bucket, then every replication bucket.
Plans(found) ==
    LET Of(side) == SetToSeq({b \in found : b[2] = side})
    IN  FlattenSeq([k \in 1..Len(Of("primary")) |-> ChecksOf(Of("primary")[k])])
        \o FlattenSeq([k \in 1..Len(Of("replica")) |-> ChecksOf(Of("replica")[k])])

\* Whether a check finds what creation configures.  The tags are written by
\* the call that creates the bucket; standard buckets' policies are not read.
AsExpected(b, check) ==
    \/ check = "transition_tag"
    \/ check = "bucket_policy" /\ policy[b] = "public"
    \/ check \in applied[b]

\* Mutant: the replication check is content with a replication bucket of that name.
StatusByPairing(b, check) ==
    IF check = "replication" /\ <<b[1], "replica">> \notin listed THEN "error"
    ELSE IF b \notin exists THEN "error"
    ELSE IF check = "replication" \/ AsExpected(b, check) THEN "ok" ELSE "drift"

\* What one check makes of the configuration it reads.
Status(b, check) ==
    IF check = "replication" /\ <<b[1], "replica">> \notin listed THEN "error"
    ELSE IF b \notin exists THEN "error"
    ELSE IF AsExpected(b, check) THEN "ok" ELSE "drift"

-----------------------------------------------------------------------------
(* The sweep *)

ReconcileInit ==
    /\ Init
    /\ sweep = "idle"
    /\ untagged = {}
    /\ listed = {}
    /\ todo = <<>>
    /\ results = {}
    /\ disturbed = FALSE

\* The tag reads overlap; when the last one is back the checks begin.
Tagged(b, found) ==
    /\ untagged' = untagged \ {b}
    /\ listed' = found
    /\ sweep' = IF untagged' # {} THEN "tags"
                ELSE IF found = {} THEN "done" ELSE "check"
    /\ todo' = IF untagged' = {} THEN Plans(found) ELSE todo

ListBuckets ==
    /\ sweep = "idle"
    /\ untagged' = exists
    /\ sweep' = IF exists = {} THEN "done" ELSE "tags"
    /\ UNCHANGED <<vars, listed, todo, results, disturbed>>

\* list_for_stack passes over a bucket whose tags it cannot read.
ReadTags(b) ==
    /\ sweep = "tags"
    /\ b \in untagged
    /\ \/ b \in exists /\ Tagged(b, listed \cup {b}) /\ UNCHANGED faults
       \/ b \notin exists /\ Tagged(b, listed) /\ UNCHANGED faults
       \/ Fault("refused") /\ Tagged(b, listed)
    /\ UNCHANGED <<files, uploaded, s3Vars, content, feedback, triggers,
                   callVars, results, disturbed>>

MakeCheck ==
    LET b == Head(todo)[1]
        check == Head(todo)[2]
    IN  /\ sweep = "check"
        /\ \/ /\ results' = results \cup {<<b, check, Status(b, check)>>}
              /\ UNCHANGED faults
           \/ Fault("refused") /\ results' = results \cup {<<b, check, "error">>}
        /\ todo' = Tail(todo)
        /\ sweep' = IF Len(todo) > 1 THEN "check" ELSE "done"
        /\ UNCHANGED <<files, uploaded, s3Vars, content, feedback, triggers,
                       callVars, untagged, listed, disturbed>>

ReconcileNext ==
    \/ /\ Next
       /\ disturbed' = (sweep # "idle")
       /\ UNCHANGED <<sweep, untagged, listed, todo, results>>
    \/ ListBuckets
    \/ \E b \in Buckets : ReadTags(b)
    \/ MakeCheck

ReconcileSpec == ReconcileInit /\ [][ReconcileNext]_allVars

\* has_errors and has_drift of a bucket's report.
Verdict(b) ==
    LET seen == {x[3] : x \in {y \in results : y[1] = b}}
    IN  IF "error" \in seen THEN "error"
        ELSE IF "drift" \in seen THEN "drift" ELSE "ok"

-----------------------------------------------------------------------------
(* Properties *)

\* What the sweep holds belongs together: the checks left and the checks made
\* are those of listed buckets, and nothing is checked twice.
SweepTypeOK ==
    /\ sweep \in {"idle", "tags", "check", "done"}
    /\ untagged \subseteq Buckets /\ listed \subseteq Buckets
    /\ untagged \cap listed = {}
    /\ sweep = "tags" <=> untagged # {}
    /\ sweep = "check" <=> todo # <<>>
    /\ \A x \in results : x[1] \in listed
    /\ \A k \in 1..Len(todo) :
          todo[k][1] \in listed /\ ~\E x \in results : <<x[1], x[2]>> = todo[k]

\* Creation configures replication last, so a replication check that passes
\* has read a primary bucket that is complete, and a pair that is whole unless
\* a rollback deleted the replication bucket after it was listed.
ReplicationCheckIsConclusive ==
    [][\A n \in Names :
          <<<<n, "primary">>, "replication", "ok">> \in results' \ results
              => /\ Complete(n, "primary")
                 /\ <<n, "replica">> \in exists => Complete(n, "replica")]_allVars

\* A sweep that nothing disturbed calls a primary bucket ok only if its pair
\* is whole, and, if no call has failed, calls a whole pair ok.
UndisturbedVerdictsAreRight ==
    sweep = "done" /\ ~disturbed =>
        \A b \in listed : b[2] = "primary" =>
            /\ Verdict(b) = "ok" => Whole(b[1])
            /\ Whole(b[1]) /\ Faults = 0 => Verdict(b) = "ok"

=============================================================================
