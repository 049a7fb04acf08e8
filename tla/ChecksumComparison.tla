------------------------- MODULE ChecksumComparison -------------------------
(***************************************************************************)
(* What a checksum report says of the objects of one bucket pair, and what *)
(* that is worth.  ChecksumVerification takes the outcome of a comparison  *)
(* as given; here it comes about: two S3 Batch jobs list their buckets,    *)
(* each at a moment of its own, and compute a checksum per object version, *)
(* while versions are uploaded, replicated, deleted and damaged; then the  *)
(* two job reports are joined into categories and counted.                 *)
(***************************************************************************)
EXTENDS Naturals, FiniteSets

CONSTANTS
    Objects,       \* object versions, a key and a version id each
    InPlace,       \* those both buckets hold at first
    MaxFaults      \* bound: damaged copies, failing tasks, unreadable results

ASSUME ComparisonAssumption ==
    /\ IsFiniteSet(Objects)
    /\ InPlace \subseteq Objects
    /\ MaxFaults \in Nat

Sides == {"source", "replication"}
Other(side) == IF side = "source" THEN "replication" ELSE "source"

\* A copy is what a checksum is of: what was uploaded, or what damage left,
\* and no two damaged copies are alike.
Harmed(side) == IF side = "source" THEN "harmed_here" ELSE "harmed_there"
Copies == {"uploaded"} \union {Harmed(d) : d \in Sides}

\* The results of a task: a checksum, or none because it failed, or because
\* result_message has no checksum_base64 although it succeeded.
Results == Copies \union {"failed", "unreadable"}

VARIABLES
    bucket,   \* the copy of each object on each side, or "absent"
    phase,    \* of the jobs: "before", "created" or "reported"
    listed,   \* whether the manifest of each side has been generated
    rows,     \* the job reports: a result per object, "pending" or "none"
    apart,    \* whether failed tasks have a result file of their own
    report,   \* the objects in each category of the report
    faults,   \* damaged copies, failing tasks and unreadable results so far
    differed, \* objects whose copies differed when the jobs were created
    deleted,  \* objects that were deleted from a bucket
    late      \* objects uploaded after the source manifest was generated

vars == <<bucket, phase, listed, rows, apart, report, faults, differed, deleted, late>>

NoReport == <<>>

Init ==
    /\ bucket = [d \in Sides |->
                    [o \in Objects |-> IF o \in InPlace THEN "uploaded" ELSE "absent"]]
    /\ phase = "before"
    /\ listed = [d \in Sides |-> FALSE]
    /\ rows = [d \in Sides |-> [o \in Objects |-> "none"]]
    /\ apart \in BOOLEAN
    /\ report = NoReport
    /\ faults = 0
    /\ differed = {}
    /\ deleted = {}
    /\ late = {}

-----------------------------------------------------------------------------
(* The buckets.  Replication copies a version once, in its own time, and   *)
(* never carries a deletion over.                                          *)

BucketsOnly == UNCHANGED <<phase, listed, rows, apart, report, differed>>

Upload(o) ==
    /\ \A d \in Sides : bucket[d][o] = "absent"
    /\ o \notin deleted
    /\ bucket' = [bucket EXCEPT !["source"][o] = "uploaded"]
    /\ late' = IF listed["source"] THEN late \union {o} ELSE late
    /\ BucketsOnly /\ UNCHANGED <<faults, deleted>>

Replicate(o) ==
    /\ bucket["source"][o] = "uploaded" /\ bucket["replication"][o] = "absent"
    /\ o \notin deleted
    /\ bucket' = [bucket EXCEPT !["replication"][o] = "uploaded"]
    /\ BucketsOnly /\ UNCHANGED <<faults, deleted, late>>

Delete(d, o) ==
    /\ bucket[d][o] # "absent"
    /\ bucket' = [bucket EXCEPT ![d][o] = "absent"]
    /\ deleted' = deleted \union {o}
    /\ BucketsOnly /\ UNCHANGED <<faults, late>>

Damage(d, o) ==
    /\ faults < MaxFaults
    /\ bucket[d][o] = "uploaded"
    /\ bucket' = [bucket EXCEPT ![d][o] = Harmed(d)]
    /\ faults' = faults + 1
    /\ BucketsOnly /\ UNCHANGED <<deleted, late>>

-----------------------------------------------------------------------------
(* The jobs: trigger_checksum_job creates both, with generated manifests   *)
(* and reports of all tasks.                                               *)

InBoth(o) == \A d \in Sides : bucket[d][o] # "absent"

CreateJobs ==
    /\ phase = "before"
    /\ phase' = "created"
    /\ differed' = {o \in Objects : InBoth(o)
                        /\ bucket["source"][o] # bucket["replication"][o]}
    /\ UNCHANGED <<bucket, listed, rows, apart, report, faults, deleted, late>>

\* An empty manifest fails its job, and then nothing is compared.
GenerateManifest(d) ==
    /\ phase = "created" /\ ~listed[d]
    /\ \E o \in Objects : bucket[d][o] # "absent"
    /\ listed' = [listed EXCEPT ![d] = TRUE]
    /\ rows' = [rows EXCEPT ![d] = [o \in Objects |->
                    IF bucket[d][o] = "absent" THEN "none" ELSE "pending"]]
    /\ UNCHANGED <<bucket, phase, apart, report, faults, differed, deleted, late>>

\* A task whose object is gone by now fails.
TaskResult(d, o) == IF bucket[d][o] = "absent" THEN "failed" ELSE bucket[d][o]

RunTask(d, o) ==
    /\ rows[d][o] = "pending"
    /\ rows' = [rows EXCEPT ![d][o] = TaskResult(d, o)]
    /\ UNCHANGED <<bucket, phase, listed, apart, report, faults, differed, deleted, late>>

SpoilTask(d, o) ==
    /\ rows[d][o] = "pending"
    /\ faults < MaxFaults
    /\ \E result \in {"failed", "unreadable"} :
           rows' = [rows EXCEPT ![d][o] = result]
    /\ faults' = faults + 1
    /\ UNCHANGED <<bucket, phase, listed, apart, report, differed, deleted, late>>

-----------------------------------------------------------------------------
(* The comparison: the results view and the counts.                        *)

\* What is read of the reports: download_manifest_files passes over a result
\* file of failed tasks, and then these tasks have no row.
Row(d, o) == IF apart /\ rows[d][o] = "failed" THEN "none" ELSE rows[d][o]

Succeeded(d, o) == Row(d, o) \in Copies \union {"unreadable"}
Failed(d) == {o \in Objects : Row(d, o) = "failed"}

\* Verified on both sides, with a checksum on both.
Compared == {o \in Objects : \A d \in Sides : Row(d, o) \in Copies}
Agreeing == {o \in Compared : Row("source", o) = Row("replication", o)}

\* Mutant: a failed row on the other side is taken for none.
MissingUnlessVerified(d) ==
    {o \in Objects : Succeeded(Other(d), o) /\ ~Succeeded(d, o)}

\* Verified on one side, without a row on the other, not even a failed one.
MissingFrom(d) ==
    {o \in Objects : Succeeded(Other(d), o) /\ Row(d, o) = "none"}

\* Mutant: the branches of the view for failed tasks are left out.
ViewWithoutFailures ==
    [ok              |-> Agreeing,
     mismatch        |-> Compared \ Agreeing,
     missing_replica |-> MissingFrom("replication"),
     missing_source  |-> MissingFrom("source")]

ResultsView ==
    [ok                 |-> Agreeing,
     mismatch           |-> Compared \ Agreeing,
     missing_replica    |-> MissingFrom("replication"),
     missing_source     |-> MissingFrom("source"),
     failed_source      |-> Failed("source"),
     failed_replication |-> Failed("replication")]

\* Without a file to read on a side, read_csv and so every attempt fails.
Report ==
    /\ phase = "created"
    /\ \A d \in Sides : listed[d]
    /\ \A d \in Sides, o \in Objects : rows[d][o] # "pending"
    /\ \A d \in Sides : \E o \in Objects : Row(d, o) # "none"
    /\ report' = ResultsView
    /\ phase' = "reported"
    /\ UNCHANGED <<bucket, listed, rows, apart, faults, differed, deleted, late>>

Count(category) == Cardinality(report[category])

total_objects ==
    Count("ok") + Count("mismatch") + Count("missing_replica")
    + Count("missing_source") + Count("failed_source") + Count("failed_replication")

\* Mutants: a missing replica is an error; a failed task is none.
LagIsAnError ==
    \A c \in {"mismatch", "missing_replica", "missing_source", "failed_source",
              "failed_replication"} : Count(c) = 0
FailuresAreNoError ==
    \A c \in {"mismatch", "missing_source"} : Count(c) = 0
is_ok ==
    \A c \in {"mismatch", "missing_source", "failed_source", "failed_replication"} :
        Count(c) = 0

-----------------------------------------------------------------------------
Next ==
    \/ \E o \in Objects : Upload(o)
    \/ \E o \in Objects : Replicate(o)
    \/ \E d \in Sides, o \in Objects : Delete(d, o)
    \/ \E d \in Sides, o \in Objects : Damage(d, o)
    \/ CreateJobs
    \/ \E d \in Sides : GenerateManifest(d)
    \/ \E d \in Sides, o \in Objects : RunTask(d, o)
    \/ \E d \in Sides, o \in Objects : SpoilTask(d, o)
    \/ Report

Spec == Init /\ [][Next]_vars

-----------------------------------------------------------------------------
Reported == phase = "reported"

(* Type correctness of the buckets, the job reports and the report.        *)
TypeOK ==
    /\ bucket \in [Sides -> [Objects -> Copies \union {"absent"}]]
    /\ phase \in {"before", "created", "reported"}
    /\ listed \in [Sides -> BOOLEAN]
    /\ rows \in [Sides -> [Objects -> Results \union {"none", "pending"}]]
    /\ apart \in BOOLEAN
    /\ Reported => report \in [{"ok", "mismatch", "missing_replica", "missing_source",
                                "failed_source", "failed_replication"} -> SUBSET Objects]
    /\ ~Reported => report = NoReport
    /\ faults \in 0 .. MaxFaults
    /\ differed \subseteq Objects /\ deleted \subseteq Objects /\ late \subseteq Objects

Unreadable == {o \in Objects : /\ \A d \in Sides : Succeeded(d, o)
                               /\ \E d \in Sides : Row(d, o) = "unreadable"}

Unseen == {o \in Objects : apart /\ rows["replication"][o] = "failed"}

(* Copies that differed before the jobs were created, and that both        *)
(* buckets held to the end, are never reported as ok, whatever was         *)
(* deleted, uploaded or failed meanwhile: except when both tasks           *)
(* succeeded and a result had no checksum, which no category counts, and   *)
(* when the replication task failed and its result file is passed over,    *)
(* which makes the object one whose replication lags.                      *)
DamageIsRaised ==
    Reported /\ differed \ (deleted \union Unreadable \union Unseen) # {} => ~is_ok

(* A report that is not ok has a cause: a copy was damaged or a task       *)
(* failed, an object was deleted on a side, or one was uploaded between    *)
(* the two manifests.  Replication that lags is none.                      *)
AlarmsNameACause ==
    Reported /\ ~is_ok => faults > 0 \/ deleted # {} \/ late # {}

HasRow(o) == \E d \in Sides : Row(d, o) # "none"

(* total_objects counts every version that has a row on either side once,  *)
(* except that one both of whose tasks failed counts twice, or not at all  *)
(* if failed tasks have a result file of their own, and one that has a     *)
(* checksum missing from a successful result does not count.  (The manual  *)
(* calls it the number of source objects evaluated.)                       *)
TotalsAddUp ==
    Reported =>
        total_objects + Cardinality(Unreadable)
            = Cardinality({o \in Objects : HasRow(o)})
              + Cardinality(Failed("source") \intersect Failed("replication"))
=============================================================================
