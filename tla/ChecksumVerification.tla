------------------------ MODULE ChecksumVerification ------------------------
(***************************************************************************)
(* Checksum verification of bucket pairs: compute-checksums creates two S3 *)
(* Batch jobs per pair and writes receipts; every finished job raises an   *)
(* event; checksum-report, one Lambda invocation per delivered event,      *)
(* looks the receipt up, reports only when both jobs are complete, and     *)
(* writes a CSV and a stats object, each under a date and under LATEST.    *)
(*                                                                         *)
(* The S3 keys are the only shared state of the invocations.  One action   *)
(* is one call of S3 or S3 Control with the local code that follows it.    *)
(***************************************************************************)
EXTENDS Naturals, FiniteSets

CONSTANTS
    Pairs,        \* source buckets, each standing for its bucket pair
    Runs,         \* calls of trigger_checksum_job, one pair of jobs each
    PairOf,       \* the bucket pair of each run
    Deliveries,   \* numbers of the deliveries of one event (at least once)
    CliCalls,     \* numbers of the `checksum-report` CLI calls for one pair
    FailureSets,  \* the failure codes a failed job may carry
    LastDay,      \* bound: the calendar of the model is 1..LastDay
    MaxAttempts,  \* attempts of an asynchronous Lambda invocation
    MaxFaults,    \* bound: failing AWS calls, timeouts and crashes
    NoRun         \* the content of a key that holds no object

Days == 1..LastDay
LATEST == 0
Slots == Days \cup {LATEST}
Sides == {"source", "replication"}
Jobs == Runs \X Sides
EMPTY_MANIFEST_CODE == "InvalidManifestContent"

\* The invocations: one per delivery of a job's event, and the CLI's calls.
EventCalls == Runs \X Sides \X Deliveries
CliRuns == Pairs \X {"cli"} \X CliCalls
Calls == EventCalls \cup CliRuns

\* put_bytes writes the receipt to these keys; no code reads the dated one.
ReceiptKeys == {"source", "replication", "bucket", "dated"}

ASSUME ConstantsAssumption ==
    /\ PairOf \in [Runs -> Pairs]
    /\ NoRun \notin Runs
    /\ LastDay \in Nat \ {0}
    /\ MaxAttempts \in Nat \ {0}
    /\ MaxFaults \in Nat

VARIABLES
    day,       \* the current UTC date
    faults,    \* how many calls have failed so far
    trigger,   \* where trigger_checksum_job is, per run
    unsent,    \* the receipt keys a run still has to write
    status,    \* the status of each batch job
    codes,     \* the failure codes of each failed job
    matches,   \* whether the results of the run's two jobs compare as ok
    receipts,  \* the jobs with a receipt under LATEST/{job_id}
    current,   \* the run in the receipt under LATEST/{source bucket}
    pc,        \* the next call of each invocation, or how it ended
    failures,  \* the failed attempts of each invocation
    receipt,   \* the run in the receipt an invocation has downloaded
    target,    \* the date in the key an invocation is writing to
    csv,       \* reports/{date}/checksums/{bucket}_checksum-report.csv
    stats,     \* metadata/{date}/checksums/stats/{bucket}_checksum-report.json
    raised     \* the errors invocations returned, as <<run, reason>>

jobVars == <<status, codes, matches>>
triggerVars == <<trigger, unsent, receipts, current>>
callVars == <<pc, failures, receipt, target>>
storeVars == <<csv, stats>>
vars == <<day, faults, trigger, unsent, status, codes, matches, receipts,
          current, pc, failures, receipt, target, csv, stats, raised>>

-----------------------------------------------------------------------------
(* Batch jobs *)

Active(j) == status[j] = "active"
Finished(j) == status[j] \in {"complete", "failed"}

\* is_empty_manifest, of the job descriptor and of the event alike: one of the
\* failure codes says that the generated manifest has no entries.
EmptyManifest(j) == status[j] = "failed" /\ EMPTY_MANIFEST_CODE \in codes[j]
Broken(j) == status[j] = "failed" /\ ~EmptyManifest(j)

Ready(r) == \A s \in Sides : status[<<r, s>>] = "complete"

\* S3 Batch finishes a job in its own time.
FinishJob(j) ==
    /\ Active(j)
    /\ \/ /\ status' = [status EXCEPT ![j] = "complete"]
          /\ UNCHANGED codes
       \/ /\ status' = [status EXCEPT ![j] = "failed"]
          /\ \E c \in FailureSets : codes' = [codes EXCEPT ![j] = c]
    /\ UNCHANGED <<day, faults, matches, triggerVars, callVars, storeVars,
                   raised>>

MidnightPasses ==
    /\ day < LastDay
    /\ day' = day + 1
    /\ UNCHANGED <<faults, jobVars, triggerVars, callVars, storeVars, raised>>

-----------------------------------------------------------------------------
(* compute-checksums: trigger_checksum_job *)

\* Jobs start by themselves: confirmation_required(false).
CreateSourceJob(r) ==
    /\ trigger[r] = "idle"
    /\ trigger' = [trigger EXCEPT ![r] = "source"]
    /\ status' = [status EXCEPT ![<<r, "source">>] = "active"]
    /\ UNCHANGED <<day, faults, unsent, codes, matches, receipts, current,
                   callVars, storeVars, raised>>

CreateReplicationJob(r) ==
    /\ trigger[r] = "source"
    /\ trigger' = [trigger EXCEPT ![r] = "both"]
    /\ status' = [status EXCEPT ![<<r, "replication">>] = "active"]
    /\ unsent' = [unsent EXCEPT ![r] = ReceiptKeys]
    /\ UNCHANGED <<day, faults, codes, matches, receipts, current, callVars,
                   storeVars, raised>>

\* The four puts run concurrently, so they land in any order.
PutReceipt(r, k) ==
    /\ k \in unsent[r]
    /\ unsent' = [unsent EXCEPT ![r] = @ \ {k}]
    /\ trigger' = IF unsent[r] = {k}
                  THEN [trigger EXCEPT ![r] = "done"] ELSE trigger
    /\ receipts' = IF k \in Sides THEN receipts \cup {<<r, k>>} ELSE receipts
    /\ current' = IF k = "bucket"
                  THEN [current EXCEPT ![PairOf[r]] = r] ELSE current
    /\ UNCHANGED <<day, faults, jobVars, callVars, storeVars, raised>>

\* A call fails or the process dies: what was created stays, and try_join_all
\* drops the puts that have not landed.
TriggerFails(r) ==
    /\ trigger[r] \in {"idle", "source", "both"}
    /\ faults < MaxFaults
    /\ faults' = faults + 1
    /\ trigger' = [trigger EXCEPT ![r] = "failed"]
    /\ unsent' = [unsent EXCEPT ![r] = {}]
    /\ UNCHANGED <<day, jobVars, receipts, current, callVars, storeVars,
                   raised>>

Trigger(r) ==
    \/ CreateSourceJob(r)
    \/ CreateReplicationJob(r)
    \/ \E k \in ReceiptKeys : PutReceipt(r, k)

-----------------------------------------------------------------------------
(* checksum-report: function_handler, resolve_ready_manifests and perform *)

Goto(h, l) == pc' = [pc EXCEPT ![h] = l]

RunOf(h) == receipt[h]
PairOfCall(h) == PairOf[receipt[h]]

\* Mutant: an unfinished job is taken for a finished one.
EagerManifestOutcome(j) ==
    CASE status[j] \in {"complete", "active", "absent"} -> "ready"
      [] EmptyManifest(j) -> "empty"
      [] OTHER -> "failed"

\* Mutant: a job without entries is taken for one still running.
BlindManifestOutcome(j) ==
    CASE status[j] = "complete" -> "ready"
      [] Broken(j) -> "failed"
      [] OTHER -> "not_ready"

\* get_manifest: what one job of a receipt contributes to the report.
ManifestOutcome(j) ==
    CASE status[j] = "complete" -> "ready"
      [] EmptyManifest(j) -> "empty"
      [] Broken(j) -> "failed"
      [] OTHER -> "not_ready"

\* Mutant: the receipt is looked up before the status is.
ReceiptFirstOutcome(j) ==
    CASE j \notin receipts -> "foreign"
      [] j \in receipts /\ Broken(j) -> "failed"
      [] OTHER -> "resolve"

\* What function_handler makes of the event of a finished job: a broken job is
\* an error, and a job without a receipt is taken for another stack's.
EventOutcome(j) ==
    CASE Broken(j) -> "failed"
      [] ~Broken(j) /\ j \notin receipts -> "foreign"
      [] OTHER -> "resolve"

\* Lambda runs an asynchronous invocation again until MaxAttempts attempts
\* have failed, then drops the event.  Nobody retries the CLI.
Retried(h) == h \in EventCalls /\ failures[h] + 1 < MaxAttempts

\* An invocation returns Ok, going no further.
ReturnOk(h, l) == Goto(h, l) /\ UNCHANGED <<failures, raised>>

\* Mutant: an invocation handles its error by starting over itself.
LoopOnErr(h, r, why) ==
    /\ failures' = [failures EXCEPT ![h] = @ + 1]
    /\ Goto(h, "start")
    /\ raised' = raised \cup {<<r, why>>}

\* An invocation returns Err.
ReturnErr(h, r, why) ==
    /\ failures' = [failures EXCEPT ![h] = @ + 1]
    /\ Goto(h, IF Retried(h) THEN "start" ELSE "dropped")
    /\ raised' = raised \cup {<<r, why>>}

HandleEvent(h) ==
    LET j == <<h[1], h[2]>> IN
    /\ h \in EventCalls
    /\ pc[h] = "start"
    /\ Finished(j)
    /\ \/ /\ EventOutcome(j) = "failed"
          /\ ReturnErr(h, h[1], "job_failed")
          /\ UNCHANGED receipt
       \/ /\ EventOutcome(j) = "foreign"
          /\ ReturnOk(h, "ignored")
          /\ UNCHANGED receipt
       \/ /\ EventOutcome(j) = "resolve"
          /\ Goto(h, "source")
          /\ receipt' = [receipt EXCEPT ![h] = h[1]]
          /\ UNCHANGED <<failures, raised>>
    /\ UNCHANGED <<day, faults, jobVars, triggerVars, target, storeVars>>

\* The CLI starts from the receipt of the bucket, whichever run wrote it last.
StartCli(h) ==
    /\ h \in CliRuns
    /\ pc[h] = "start"
    /\ current[h[1]] # NoRun
    /\ receipt' = [receipt EXCEPT ![h] = current[h[1]]]
    /\ Goto(h, "source")
    /\ UNCHANGED <<day, faults, jobVars, triggerVars, failures, target,
                   storeVars, raised>>

\* Mutant: the replication job is looked at even if the source is empty.
UngatedResolveSource(h) ==
    LET outcome == ManifestOutcome(<<RunOf(h), "source">>) IN
    /\ pc[h] = "source"
    /\ \/ /\ outcome \in {"ready", "empty"}
          /\ Goto(h, "replication")
          /\ UNCHANGED <<failures, raised>>
       \/ outcome = "failed" /\ ReturnErr(h, RunOf(h), "job_failed")
       \/ outcome = "not_ready" /\ ReturnOk(h, "waiting")
    /\ UNCHANGED <<day, faults, jobVars, triggerVars, receipt, target,
                   storeVars>>

\* The source job is the gate: an empty source bucket is nothing to report.
ResolveSource(h) ==
    LET outcome == ManifestOutcome(<<RunOf(h), "source">>) IN
    /\ pc[h] = "source"
    /\ \/ /\ outcome = "ready"
          /\ Goto(h, "replication")
          /\ UNCHANGED <<failures, raised>>
       \/ outcome = "empty" /\ ReturnOk(h, "noop")
       \/ outcome = "failed" /\ ReturnErr(h, RunOf(h), "job_failed")
       \/ outcome = "not_ready" /\ ReturnOk(h, "waiting")
    /\ UNCHANGED <<day, faults, jobVars, triggerVars, receipt, target,
                   storeVars>>

\* With objects in the source bucket, an empty replication bucket is an error.
ResolveReplication(h) ==
    LET outcome == ManifestOutcome(<<RunOf(h), "replication">>) IN
    /\ pc[h] = "replication"
    /\ \/ /\ outcome = "ready"
          /\ Goto(h, "compare")
          /\ UNCHANGED <<failures, raised>>
       \/ outcome = "empty" /\ ReturnErr(h, RunOf(h), "empty_replication")
       \/ outcome = "failed" /\ ReturnErr(h, RunOf(h), "job_failed")
       \/ outcome = "not_ready" /\ ReturnOk(h, "waiting")
    /\ UNCHANGED <<day, faults, jobVars, triggerVars, receipt, target,
                   storeVars>>

\* The results are downloaded and compared; then the dated key is computed.
Compare(h) ==
    /\ pc[h] = "compare"
    /\ Goto(h, "csv_dated")
    /\ target' = [target EXCEPT ![h] = day]
    /\ UNCHANGED <<day, faults, jobVars, triggerVars, failures, receipt,
                   storeVars, raised>>

\* put_versioned_file and put_versioned_bytes: the report is put under its
\* date; then copy_to_latest copies what the dated key holds by that time.
PutDated(store, h) ==
    [store EXCEPT ![PairOfCall(h)][target[h]] = RunOf(h)]

\* Mutant: the invocation's own report is put under LATEST instead.
PutLatest(store, h) ==
    [store EXCEPT ![PairOfCall(h)][LATEST] = RunOf(h)]

CopyToLatest(store, h) ==
    [store EXCEPT ![PairOfCall(h)][LATEST] = store[PairOfCall(h)][target[h]]]

PutCsv(h) ==
    /\ pc[h] = "csv_dated"
    /\ csv' = PutDated(csv, h)
    /\ Goto(h, "csv_latest")
    /\ UNCHANGED <<day, faults, jobVars, triggerVars, failures, receipt,
                   target, stats, raised>>

\* The dated key of the stats is computed next, from the date of that moment.
CopyCsvToLatest(h) ==
    /\ pc[h] = "csv_latest"
    /\ csv' = CopyToLatest(csv, h)
    /\ target' = [target EXCEPT ![h] = day]
    /\ Goto(h, "stats_dated")
    /\ UNCHANGED <<day, faults, jobVars, triggerVars, failures, receipt,
                   stats, raised>>

PutStats(h) ==
    /\ pc[h] = "stats_dated"
    /\ stats' = PutDated(stats, h)
    /\ Goto(h, "stats_latest")
    /\ UNCHANGED <<day, faults, jobVars, triggerVars, failures, receipt,
                   target, csv, raised>>

\* The handler returns Err for stats that are not ok, so Lambda retries; the
\* CLI prints them.
CopyStatsToLatest(h) ==
    /\ pc[h] = "stats_latest"
    /\ stats' = CopyToLatest(stats, h)
    /\ IF matches[RunOf(h)] \/ h \in CliRuns
       THEN ReturnOk(h, "reported")
       ELSE ReturnErr(h, RunOf(h), "divergence")
    /\ UNCHANGED <<day, faults, jobVars, triggerVars, receipt, target, csv>>

Working == {"source", "replication", "compare", "csv_dated", "csv_latest",
            "stats_dated", "stats_latest"}

\* An AWS call of an invocation fails, or the invocation times out or dies.
CallFails(h) ==
    /\ faults < MaxFaults
    /\ \/ pc[h] \in Working
       \/ /\ h \in EventCalls
          /\ pc[h] = "start"
          /\ Finished(<<h[1], h[2]>>)
    /\ faults' = faults + 1
    /\ ReturnErr(h, IF pc[h] \in Working THEN RunOf(h) ELSE h[1], "fault")
    /\ UNCHANGED <<day, jobVars, triggerVars, receipt, target, storeVars>>

CallStep(h) ==
    \/ HandleEvent(h)
    \/ StartCli(h)
    \/ ResolveSource(h)
    \/ ResolveReplication(h)
    \/ Compare(h)
    \/ PutCsv(h)
    \/ CopyCsvToLatest(h)
    \/ PutStats(h)
    \/ CopyStatsToLatest(h)

-----------------------------------------------------------------------------
(* The specification *)

Init ==
    /\ day = 1
    /\ faults = 0
    /\ trigger = [r \in Runs |-> "idle"]
    /\ unsent = [r \in Runs |-> {}]
    /\ status = [j \in Jobs |-> "absent"]
    /\ codes = [j \in Jobs |-> {}]
    /\ matches \in [Runs -> BOOLEAN]
    /\ receipts = {}
    /\ current = [p \in Pairs |-> NoRun]
    /\ pc = [h \in Calls |-> "start"]
    /\ failures = [h \in Calls |-> 0]
    /\ receipt = [h \in Calls |-> NoRun]
    /\ target = [h \in Calls |-> LATEST]
    /\ csv = [p \in Pairs |-> [s \in Slots |-> NoRun]]
    /\ stats = [p \in Pairs |-> [s \in Slots |-> NoRun]]
    /\ raised = {}

Next ==
    \/ MidnightPasses
    \/ \E j \in Jobs : FinishJob(j)
    \/ \E r \in Runs : Trigger(r) \/ TriggerFails(r)
    \/ \E h \in Calls : CallStep(h) \/ CallFails(h)

Spec == Init /\ [][Next]_vars

\* S3 Batch finishes every job, EventBridge delivers every event at least
\* once (delivery 1), and Lambda runs and retries what was delivered.  Calls
\* of the CLI and duplicate deliveries are nobody's obligation.
FirstDeliveries == {h \in EventCalls : h[3] = 1}

Fairness ==
    /\ \A j \in Jobs : WF_vars(FinishJob(j))
    /\ \A r \in Runs : WF_vars(Trigger(r))
    /\ \A h \in FirstDeliveries : WF_vars(CallStep(h))

FairSpec == Spec /\ Fairness

-----------------------------------------------------------------------------
(* Properties *)

Endings == {"ignored", "noop", "waiting", "reported", "dropped"}
Reasons == {"job_failed", "empty_replication", "divergence", "fault"}
RunOrNone == Runs \cup {NoRun}

\* Every variable holds a value of its type; in particular no event is tried
\* more than MaxAttempts times.
TypeOK ==
    /\ day \in Days
    /\ faults \in 0..MaxFaults
    /\ trigger \in [Runs -> {"idle", "source", "both", "done", "failed"}]
    /\ unsent \in [Runs -> SUBSET ReceiptKeys]
    /\ status \in [Jobs -> {"absent", "active", "complete", "failed"}]
    /\ codes \in [Jobs -> FailureSets \cup {{}}]
    /\ matches \in [Runs -> BOOLEAN]
    /\ receipts \subseteq Jobs
    /\ current \in [Pairs -> RunOrNone]
    /\ pc \in [Calls -> {"start"} \cup Working \cup Endings]
    /\ failures \in [Calls -> 0..MaxAttempts]
    /\ receipt \in [Calls -> RunOrNone]
    /\ target \in [Calls -> Slots]
    /\ csv \in [Pairs -> [Slots -> RunOrNone]]
    /\ stats \in [Pairs -> [Slots -> RunOrNone]]
    /\ raised \subseteq Runs \X Reasons

\* An object of run r may lie in the keys of pair p: both jobs of the run have
\* completed, and it is a run of that pair.
Sound(p, r) == r # NoRun => PairOf[r] = p /\ Ready(r)

\* No report, under any date or LATEST, comes from a run with a job unfinished,
\* failed or empty, whatever the order of events, retries and CLI calls
\* (resolve_ready_manifests; docs: "requires both jobs to be complete").
StoredReportsAreSound ==
    \A p \in Pairs, s \in Slots : Sound(p, csv[p][s]) /\ Sound(p, stats[p][s])

Acknowledged(h) == pc[h] \in {"waiting", "noop", "reported"}

\* The hand-off between the two events of a run loses nothing: when both were
\* acknowledged with Ok as the stack's own, then the source bucket was empty,
\* or the run was reported by one of the two invocations and found ok.  An
\* invocation that leaves a run to the other event is never let down by it.
HandoffIsNeverLost ==
    \A r \in Runs, m, n \in Deliveries :
        LET h == <<r, "source", m>>
            g == <<r, "replication", n>>
        IN  Acknowledged(h) /\ Acknowledged(g) =>
                \/ EmptyManifest(<<r, "source">>)
                \/ /\ Ready(r) /\ matches[r]
                   /\ "reported" \in {pc[h], pc[g]}

\* An error an invocation returns names what is true of its run: a pair of two
\* empty buckets, or a run still in progress, never raises an alarm.
AlarmsAreJustified ==
    \A r \in Runs :
        /\ <<r, "job_failed">> \in raised => \E s \in Sides : Broken(<<r, s>>)
        /\ <<r, "empty_replication">> \in raised =>
               /\ status[<<r, "source">>] = "complete"
               /\ EmptyManifest(<<r, "replication">>)
        /\ <<r, "divergence">> \in raised => Ready(r) /\ ~matches[r]

ArchivedDays(p) == {d \in Days : csv[p][d] # NoRun}
Newest(D) == CHOOSE d \in D : \A e \in D : e <= d

\* With no copy in flight, LATEST holds what the newest date holds, whatever
\* the order in which two runs of a day put and copy their reports
\* (docs/src/user/reports.md:13, "most recent report").  Two runs on both sides
\* of a midnight may leave the older report under LATEST.
LatestIsNewest ==
    \A p \in Pairs :
        /\ ArchivedDays(p) # {}
        /\ \A h \in Calls : ~(pc[h] = "csv_latest" /\ PairOfCall(h) = p)
        => csv[p][LATEST] = csv[p][Newest(ArchivedDays(p))]

\* A run was answered for: reported, found empty, or reported as an error of
\* its own (a fault of an AWS call is not one).
Settled(r) ==
    \/ \E h \in Calls : receipt[h] = r /\ pc[h] \in {"reported", "noop"}
    \/ \E why \in Reasons \ {"fault"} : <<r, why>> \in raised

Ignored(r) == \E h \in EventCalls : h[1] = r /\ pc[h] = "ignored"

BothFinished(r) == \A s \in Sides : Finished(<<r, s>>)

\* Once both jobs of a run are finished it is settled, in spite of fewer faults
\* than Lambda makes attempts, unless an event came before its receipt.
FinishedRunsSettle ==
    \A r \in Runs : BothFinished(r) ~> Settled(r) \/ Ignored(r)

\* A failed job is always raised as an error, with or without a receipt.
FailedJobsAreRaised ==
    \A j \in Jobs : Broken(j) ~> <<j[1], "job_failed">> \in raised

\* docs/src/technical/checksum-report.md: "When a compute checksum job
\* completes, it automatically triggers checksum report generation".
CompletedRunsAreReported ==
    \A r \in Runs : Ready(r) ~> Settled(r)

CsvReports ==
    INSTANCE VersionedReports WITH
        today <- day,
        evidence <- {r \in Runs : Ready(r)},
        archive <- [p \in Pairs |-> [d \in Days |-> csv[p][d]]],
        latest <- [p \in Pairs |-> csv[p][LATEST]]

StatsReports ==
    INSTANCE VersionedReports WITH
        today <- day,
        evidence <- {r \in Runs : Ready(r)},
        archive <- [p \in Pairs |-> [d \in Days |-> stats[p][d]]],
        latest <- [p \in Pairs |-> stats[p][LATEST]]

\* The CSVs keep what the readers of reports are promised: only complete runs
\* are published, and LATEST is at every moment a copy of an archived report.
CsvKeepsPromise == CsvReports!Spec

\* And so do the stats.
StatsKeepPromise == StatsReports!Spec
=============================================================================
