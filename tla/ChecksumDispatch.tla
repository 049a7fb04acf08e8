-------------------------- MODULE ChecksumDispatch --------------------------
(***************************************************************************)
(* compute-checksums: once a month (or by the CLI) the buckets of a stack  *)
(* are listed and their tags read, every source bucket is paired with its  *)
(* replication bucket, and the checksum jobs of one pair after the other   *)
(* are created, while bucket requests are being processed.  What one pair  *)
(* gets, job by job and receipt by receipt, is in ChecksumVerification;    *)
(* here it has its jobs and receipts, or an issue.  Sweep and dispatch do  *)
(* not touch what the other reads, so a behaviour has one of them.         *)
(***************************************************************************)
EXTENDS BucketReconciliation

CONSTANT DispatchAttempts   \* attempts of the scheduled Lambda invocation

ASSUME DispatchAssumption == DispatchAttempts \in Nat \ {0}

VARIABLES
    dispatch,   \* how far the one dispatch of the model has come
    attempts,   \* the attempts it has left, with the one under way
    untaggedD,  \* the buckets of the listing whose tags are still to be read
    listedD,    \* the buckets whose tags named them as the stack's
    refused,    \* history: those of them whose tags could not be read
    due,        \* history: the pairs requests had answered for at the listing
    pairs,      \* the names of the pairs still to be triggered, in order
    receipts,   \* the pairs whose jobs and receipts this attempt has made
    pairIssues  \* the pairs it could not make them for

dispatchVars == <<dispatch, attempts, untaggedD, listedD, refused, due, pairs,
                  receipts, pairIssues>>
listingVars == <<untaggedD, listedD, refused, due>>
stackVars == <<files, uploaded, s3Vars, content, feedback, triggers, callVars,
               sweepVars>>

-----------------------------------------------------------------------------
(* perform *)

DispatchInit ==
    /\ ReconcileInit
    /\ dispatch = "idle"
    /\ attempts = 0
    /\ untaggedD = {} /\ listedD = {} /\ refused = {} /\ due = {}
    /\ pairs = <<>>
    /\ receipts = {} /\ pairIssues = {}

Answered(n) ==
    n \in Existing \/ \E i \in Invocations : pc[i] = "ok" /\ n \in Requested(i[1])

\* Nobody repeats a call of the CLI; Lambda repeats a scheduled one.
StartDispatch ==
    /\ dispatch = "idle" /\ sweep = "idle"
    /\ attempts' \in {1, DispatchAttempts}
    /\ dispatch' = "list"
    /\ UNCHANGED <<stackVars, faults, listingVars, pairs, receipts, pairIssues>>

\* The CLI with --bucket asks for the tags of the source bucket only, and takes
\* the replication bucket of that name for granted.
DispatchOne(n) ==
    /\ dispatch = "idle" /\ sweep = "idle"
    /\ attempts' = 1
    /\ \/ /\ <<n, "primary">> \in exists
          /\ dispatch' = "jobs"
          /\ pairs' = <<n>>
          /\ UNCHANGED faults
       \/ /\ \/ <<n, "primary">> \notin exists /\ UNCHANGED faults
             \/ Fault("refused")
          /\ dispatch' = "dropped"
          /\ UNCHANGED pairs
    /\ UNCHANGED <<stackVars, listingVars, receipts, pairIssues>>

\* What an attempt has collected is gone with it, except what it has made.
AttemptFails ==
    /\ attempts' = attempts - 1
    /\ dispatch' = IF attempts > 1 THEN "list" ELSE "dropped"
    /\ untaggedD' = {} /\ listedD' = {} /\ refused' = {} /\ due' = {}
    /\ pairs' = <<>>
    /\ receipts' = {} /\ pairIssues' = {}

ListForDispatch ==
    /\ dispatch = "list"
    /\ dispatch' = "tags"
    /\ untaggedD' = exists
    /\ due' = {n \in Names : Answered(n)}
    /\ UNCHANGED <<stackVars, faults, attempts, listedD, refused, pairs,
                   receipts, pairIssues>>

\* list_for_stack passes over a bucket whose tags it cannot read.
ReadTagsForDispatch(b) ==
    /\ dispatch = "tags"
    /\ b \in untaggedD
    /\ untaggedD' = untaggedD \ {b}
    /\ \/ /\ b \in exists
          /\ listedD' = listedD \cup {b}
          /\ UNCHANGED <<refused, faults>>
       \/ b \notin exists /\ UNCHANGED <<listedD, refused, faults>>
       \/ /\ Fault("refused")
          /\ refused' = refused \cup {b}
          /\ UNCHANGED listedD
    /\ UNCHANGED <<stackVars, dispatch, attempts, due, pairs, receipts, pairIssues>>

Sources == {n \in Names : <<n, "primary">> \in listedD}
Paired == {n \in Sources : <<n, "replica">> \in listedD}

\* Mutant: a source bucket without a replication bucket is left out.
PairTheOthers ==
    /\ dispatch = "tags" /\ untaggedD = {}
    /\ dispatch' = "jobs"
    /\ pairs' = SetToSeq(Paired)
    /\ UNCHANGED <<stackVars, faults, attempts, listingVars, receipts, pairIssues>>

\* make_pairs: one source bucket without a replication bucket refuses them all.
MakePairs ==
    /\ dispatch = "tags" /\ untaggedD = {}
    /\ \/ /\ Paired = Sources
          /\ dispatch' = "jobs"
          /\ pairs' = SetToSeq(Paired)
          /\ UNCHANGED <<attempts, listingVars, receipts, pairIssues>>
       \/ Paired # Sources /\ AttemptFails
    /\ UNCHANGED <<stackVars, faults>>

\* dispatch_bucket_pair_jobs: an issue with one pair does not stop the next.
TriggerPair ==
    /\ dispatch = "jobs"
    /\ pairs # <<>>
    /\ pairs' = Tail(pairs)
    /\ \/ /\ receipts' = receipts \cup {Head(pairs)}
          /\ UNCHANGED <<pairIssues, faults>>
       \/ /\ Fault("refused") \/ Fault("lost")
          /\ pairIssues' = pairIssues \cup {Head(pairs)}
          /\ UNCHANGED receipts
    /\ UNCHANGED <<stackVars, dispatch, attempts, listingVars>>

FinishDispatch ==
    /\ dispatch = "jobs" /\ pairs = <<>>
    /\ \/ /\ pairIssues = {}
          /\ dispatch' = "ok"
          /\ UNCHANGED <<attempts, listingVars, pairs, receipts, pairIssues>>
       \/ pairIssues # {} /\ AttemptFails
    /\ UNCHANGED <<stackVars, faults>>

\* ListBuckets is refused, or the process times out or dies.
DispatchFails ==
    /\ dispatch \in {"list", "tags", "jobs"}
    /\ Fault("crash") \/ (dispatch = "list" /\ Fault("refused"))
    /\ AttemptFails
    /\ UNCHANGED stackVars

DispatchNext ==
    \/ dispatch = "idle" /\ ReconcileNext /\ UNCHANGED dispatchVars
    \/ dispatch # "idle" /\ Next /\ UNCHANGED <<sweepVars, dispatchVars>>
    \/ StartDispatch
    \/ \E n \in Names : DispatchOne(n)
    \/ ListForDispatch
    \/ \E b \in Buckets : ReadTagsForDispatch(b)
    \/ MakePairs
    \/ TriggerPair
    \/ FinishDispatch
    \/ DispatchFails

DispatchSpec == DispatchInit /\ [][DispatchNext]_<<allVars, dispatchVars>>

-----------------------------------------------------------------------------
(* Properties *)

\* What sweep and dispatch hold belongs together: a dispatch has pairs only
\* while it triggers them, each once, and an outcome for none it has left.
DispatchTypeOK ==
    /\ SweepTypeOK
    /\ dispatch \in {"idle", "list", "tags", "jobs", "ok", "dropped"}
    /\ attempts \in 0..DispatchAttempts
    /\ untaggedD \cup listedD \cup refused \subseteq Buckets
    /\ untaggedD # {} => dispatch = "tags"
    /\ due \subseteq Names
    /\ pairs # <<>> => dispatch = "jobs"
    /\ IsInjective(pairs)
    /\ ToSet(pairs) \cap (receipts \cup pairIssues) = {}
    /\ receipts \cap pairIssues = {}

\* A dispatch that has gone through its pairs has made the jobs of every pair
\* a request had answered for when the stack was listed, or counts it as an
\* issue and fails: neither a request under way, nor a bucket whose tags S3
\* refused, takes another pair out of the verification.  Only a source bucket
\* whose own tags were refused is left out
\* (docs/src/technical/compute-checksums.md: jobs for all buckets of a stack).
NoPairIsForgotten ==
    dispatch \in {"jobs", "ok"} /\ pairs = <<>> =>
        /\ \A n \in due : \/ <<n, "primary">> \in refused
                          \/ n \in receipts \cup pairIssues
        /\ dispatch = "ok" => pairIssues = {}
=============================================================================
