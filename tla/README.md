# Formal models of DuraCloud Preserve

TLA+ modules for the parts of DuraCloud Preserve where several processes meet
in S3, the TLC configurations that check them on small instances, and TLAPS
proofs of safety properties for every value of the constants. `PROJECT.json`
is the index: components, runs, what every definition models (file and lines),
hazards, theorems.

    tlc -workers 2 -config Verification_overlap.cfg MCChecksumVerification
    tlapm StackReports_proofs.tla

## 1. The system

A *stack* is a set of S3 buckets of one institution, a managed bucket for
reports and metadata, a request bucket, an SFTPGo server for its users and,
where wanted, an Archive-It backup. Seven Lambda functions and a CLI share the
library crates under `src/shared/`; three ECS tasks do the Archive-It backup.
No process talks to another: they meet in S3 keys and in the events that S3
and S3 Batch raise. Every event is delivered at least once; an invocation that
returns an error or times out is started again by Lambda. No lock and no
conditional write keeps two processes apart.

| Component | State it keeps | Operations | What is hard | What makes it correct |
|---|---|---|---|---|
| compute-checksums (`perform/compute_checksums.rs`, `app/src/batch.rs`) | a receipt per batch job and one per source bucket, in the managed bucket | list buckets, read tags, pair them; for every pair create two S3 Batch jobs, put four receipts | the jobs run before their receipts exist; a bucket without a partner refuses all pairs, a failing pair fails the dispatch, and the retry makes new jobs for all | a job that ends is answered for, and no pair is forgotten |
| checksum-report (`functions/checksum-report`, `perform/checksum_report.rs`) | CSV and stats per pair, under a date and under `0000-00-00-LATEST` | on each job's event: find the receipt, look at both jobs, compare, store, raise | the two events of a run are handled at the same time; duplicates; retries after the report is stored; midnight | only finished runs are reported, no run falls between its two events, errors are true |
| comparison (`base/src/checksum.rs`, `stats.rs`) | none of its own | join two job reports into categories, count, decide ok | the two manifests are made at different moments while objects come and go | damage is raised, alarms have causes, counts add up |
| bucket-request (`perform/bucket_request.rs`, `bucket.rs`, `bucket_creator.rs`) | request files, feedback files, buckets and their configuration | read and review names; 12 to 14 S3 calls per pair, with rollback; delete the file; ask for a user sync | no call is idempotent, attempts overlap, any call fails or loses its answer, users upload meanwhile | no half pair, no rollback of another's pair, feedback covers all that is missing |
| bucket-reconciliation (`bucket_reconciliator/`, `reconcile.rs`) | none | list, read tags, compare 3 to 9 settings per bucket | reads race creation | a verdict is right when nothing moved, and one check is conclusive always |
| sync-users (`perform/sync_users.rs`, `app/src/sftpgo.rs`, `sftpgo/`) | SFTPGo folders and accounts | list IAM users, find buckets per group, upsert folders side by side with retries, replace the mounts | overlapping syncs, lost answers, stale listings, failures half way | nobody mounts what his groups never gave him; an undisturbed sync is exact |
| Archive-It (`archive_it/`, `cli/.../archive_it/`) | live and dated inventory CSV, live sync CSV, WARC objects and tags | inventory: resume, skip, page; audit: HEAD every row; sync: claim by delete, fetch | listings shift while paged; counts stand for contents; a claim lost with its task | no row twice, the record first, nothing overlooked, the backup catches up |
| inventory-report (`functions/inventory-report`, `perform/inventory_report.rs`) | CSV and stats per bucket, under a date and under LATEST | on each manifest of S3 Inventory: read it, put and copy CSV, put and copy stats, raise failed replications; the CLI looks for the manifest | four writes with two dates; Err after everything is stored, and again; duplicates, the CLI beside them | CSV and stats are of one inventory, every inventory is reported and its failures raised |
| checksum-request (`functions/checksum-request`, `perform/checksum_request.rs`, `app/src/checksum.rs`) | trigger and feedback files in the request bucket, a checksum inventory per bucket | on each upload: look for the inventory report, HEAD every object it lists, store the list, delete the trigger | uploads over a trigger that is being worked on; deletions and failing HEADs meanwhile; the report replaced between check and use | a request is answered or still there, the list is complete and accuses nothing wrongly |
| storage-report (`perform/storage_report.rs`, `app/src/bucket.rs`) | HTML page and JSON object of the stack, under a date and under LATEST | list buckets, collect the stats of each, ask Cost Explorer, put and copy both | stats are replaced or unreadable while they are collected; runs overlap | no bucket with stats is missing, page and JSON agree |
| reset, transfer, cost and metric queries, single checksum, task list and run | none | wrappers of AWS calls run by hand | - | not modelled |
| Terraform, build, tests | - | - | gives the environment: which events, which retries, which schedules | assumptions of the modules |

The components meet as follows. bucket-request uploads `sync-users/TRIGGER`,
which starts sync-users; both list buckets by tags, as do reconciliation,
compute-checksums and storage-report. compute-checksums creates the jobs whose
events start checksum-report. inventory-report writes the CSV that
checksum-request reads and the stats that storage-report adds up. The archive_it
audit reads what inventory uploads and writes what sync deletes; the CLI starts most of the same code by
hand, beside whatever runs.

## 2. Modules and code

One action is one call of a service together with the local code up to the
next call, so that processes interleave at every `await`. Files, objects and
names are elements of small sets; formatting is left out. Wherever the code
can fail, time out or die there is an action for it, bounded by a constant
(`MaxFaults`, `MaxEvents`). A definition commented *Mutant* is a plausible bug
of the operator below it; nothing of a specification uses it, and it shows
that a property can be violated.

**ChecksumVerification** - compute-checksums for one pair at a time, S3 Batch,
and checksum-report. `CreateSourceJob`, `CreateReplicationJob`, `PutReceipt`
(four concurrent puts, in any order) and `TriggerFails` are
`trigger_checksum_job`; `FinishJob` is S3 Batch. `HandleEvent` is
`function_handler` up to the receipt; `ResolveSource` and `ResolveReplication`
are `resolve_ready_manifests`, the first being a gate; `Compare`, `PutCsv`,
`CopyCsvToLatest`, `PutStats`, `CopyStatsToLatest` are `perform` and the
uploads; `StartCli` is the CLI, which starts from the receipt of the bucket;
`CallFails` any failure. `pc` is where an invocation is, `receipt` what it has
downloaded, `target` the date in the key it is writing, `csv` and `stats` the
keys, `raised` the errors returned. Dates advance by `MidnightPasses`, because
the code formats the date anew for each key.

**ChecksumDispatch** - what compute-checksums does around one pair, beside
bucket creation (it extends BucketReconciliation): `StartDispatch` (schedule or
CLI) or `DispatchOne` (the CLI with `--bucket`), `ListForDispatch`,
`ReadTagsForDispatch`, `MakePairs`, which refuses every pair when one source
bucket has no partner, `TriggerPair`, `FinishDispatch`, `DispatchFails`; an
attempt that fails is made again as a whole. `due` is history: the pairs that
requests had answered for when the stack was listed; `refused` the buckets
whose tags S3 refused.

**VersionedReports** - what readers of reports may rely on, without saying how
many writers there are: only what really happened is published, under a date
not in the future, and LATEST only ever receives a copy of an archived report.
ChecksumVerification refines it twice, for the CSVs (`CsvReports`) and for the
stats (`StatsReports`): `day` is `today`, the runs with both jobs complete are
`evidence`, slot 0 of a pair is `latest`. InventoryReports refines it in the
same way with buckets for pairs and the inventories that S3 has made for
`evidence`.

**InventoryReports** - `GenerateInventory` is S3 Inventory, `DeleteObject` a
user or an expiry. `Deliver` is an event, `StartCli` the CLI, whose `FindToday`
and `FindYesterday` are `get_manifest`; `PutCsv`, `CopyCsvToLatest`,
`PutStats`, `CopyStatsToLatest` are the uploads of `perform`, each put under
the date of that moment (`target`), and `Return` is the handler, which answers
Err when the stats count failed replications, after all is stored; `CallFails`
any failure. The manifest and its Parquet files never change, so reading them
is part of `PutCsv`; `ReadNothing` is an inventory that lists no object, whose
manifest may name no Parquet file. History: `reported`, the inventories written
from beginning to end; `alone`, a report that no report on another inventory came
in between of; `torn`, the buckets where a report was begun and none finished
alone since.

**ChecksumRequests** - extends InventoryReports. `StatusesOf` is what one HEAD
may make of a row. `UploadTrigger` is a user, the
trigger file may be put over one still there; `LookForReport` is the handler's
check and `DownloadReport` the second look of `perform`, `HeadRow` one of the
HEADs in flight, `PutAnswer`, `CopyAnswer`, `DeleteTrigger` the end,
`RequestFails` and `PutRequestFeedback` its failures. `began` is the number of
uploads when an attempt began, and `answered`, history, that of the newest one
that was finished.

**StorageReports** - extends InventoryReports. `ListStorage` lists and reads
tags, passing over what S3 refuses; `ReadStats` reads one bucket after
another, `PutHtml` (with `QueryCosts`), `CopyHtml`, `PutJson`, `CopyJson`
store. `owed`, `sole`, `split` are history: the buckets that had stats when
they were listed, and the counterparts of `alone` and `torn`.

**StackReports** - the three together: each reads what inventory-report writes
at that moment.

**ChecksumComparison** - refines what the previous module takes as given,
`matches`. Two manifests are generated at moments of their own
(`GenerateManifest`), each task reads its object later (`RunTask`,
`SpoilTask`), and meanwhile versions are uploaded, replicated, deleted and
damaged. `Report` is the results view, the counts and `is_ok`; `Row` is what
`download_manifest_files` reads of a job report: it passes over result files
whose status is not succeeded, and `apart` leaves open whether S3 lists failed
tasks in a file of their own. `differed`, `deleted` and `late` are history.

**BucketRequest** - one invocation per delivery, a CLI call that uploads and
processes its own file. `Plan(n)` is the sequence of calls that `create_pair`
makes for a name, `EveryBucket`, `StandardBucket` and `Configurations` what its
calls configure, `RollbackOf` what a failure at each of them undoes;
`MakeCall`, `FailCall` (refused by S3, refused by a fault, or landed with the
answer lost), `Rollback`, `PutFeedback`, `DeleteRequest`, `TriggerSync`,
`Crash`. `UserUploads` is a user who is quicker.

**BucketReconciliation** - extends BucketRequest: the sweep (`ListBuckets`,
`ReadTags`, `MakeCheck`) interleaves with every action of bucket creation.
`Checks`, `AsExpected` and `Status` are the expected configuration and its
comparison. It is checked as a part of ChecksumDispatch.

**SyncUsers** - `Ask` and `Start` are the upload of TRIGGER and its event (or
the CLI), which takes the users in whatever order IAM lists them (`Listings`),
`ListNames` and `FetchStack` the cached listings, `SkipUser`,
`ReadKeys` and `ReadAccount` one user's preparation, `ProbeFolder`,
`WriteFolder`, `RetryFolder`, `FailFolder` the folder tasks that run side by
side, `UpdateUser` the replacement of the mounts. `ChangeGroups`,
`ChangeBuckets` and `RotateKeys` change IAM, S3 and SSM meanwhile. Folders are
named by `KeyOf`, which need not tell users apart: `Namesakes` share them.
`fresh` and
`alone` are history: nothing changed, nobody interfered since the attempt
began.

**ArchiveIt** - `StartInventory`, `SkipCollection`, `FirstPage`, `NextPage`,
`NothingNew`, `SnapshotInventory`, `PublishInventory`; `StartAudit`,
`AuditRow`, `AuditRowErrs`, `PublishAudit`; `FindList`, `DownloadList`,
`ClaimList`, `SyncRow`, `SyncRowFails`, `FinishSync`; `Appear` and `Disappear`
are the remote service, whose listings shift while they are paged. `Undated`
files have a `store_time` that does not parse, and no audit looks at them
(`Dated`); `Retagged` is the tag on what has expired.

`MC*` modules give the constants their values for TLC; `*_proofs` modules hold
the theorems about the module they are named after.

## 3. Runs

| Run | Instance | What it shows |
|---|---|---|
| `duplicates` | one run, each event delivered twice, one CLI call, one fault, both kinds of failed job | `StoredReportsAreSound`: nothing is stored for a run with an unfinished, failed or empty job. `HandoffIsNeverLost`: two acknowledged events of a run mean an empty source or a report found ok. `AlarmsAreJustified`: errors name what is true |
| `overlap` | two runs of one pair on one day, no faults, runs symmetric | `LatestIsNewest` within the day, and the refinement of VersionedReports by CSVs and stats |
| `settles` | one run, two days, three attempts, two faults, fairness | `FinishedRunsSettle`, `FailedJobsAreRaised`: something is always answered |
| `early_events` (violation) | one run, no faults, fairness | a job that ends before its receipt is written is never reported |
| `comparison` | two objects alike in both buckets and a new one, two faults, failed tasks in a result file of their own or not | `DamageIsRaised`, `AlarmsNameACause`, `TotalsAddUp` |
| `requests` | a Lambda request delivered twice with two attempts, beside two CLI requests; a new public pair, an existing pair, a bad line, a limit of two names; one fault | `AcknowledgedPairsAreWhole`, `FeedbackNamesEveryGap`, `OneFailureIsUndone`, `RequestsAreAnswered` |
| `uploads_mirrored` (violation) | one request for a public pair, no fault | an upload before replication is configured is never mirrored |
| `dispatch` | a sweep, or a dispatch with two attempts, beside the creation of a public pair, an existing pair, one fault | `ReplicationCheckIsConclusive`, `UndisturbedVerdictsAreRight`; `NoPairIsForgotten`: a dispatch that has gone through its pairs made the jobs of every pair answered for, or fails |
| `reports` | StackReports: bucket `a` with two inventories, bucket `b`, which is empty, with one or none; an object with and one without a checksum, a directory; any three of inventories, duplicates, uploads, deletions, CLI calls, storage reports and one fault | `ReportsAgree`, `InventoriesAreReported`, `ReportsKeepPromise` for inventory-report; `ChecksumRequestsAreAnswered`, `ChecksumInventoriesAreTrue` for checksum-request; `NothingIsLeftOut`, `StoragePagesAgree` for storage-report |
| `sync_overlap` | a Lambda sync with two attempts and a CLI sync, three users, two of them with one key, two stacks, one change, two faults | `MountsAreEntitled`, `UndisturbedSyncsAreExact`, `FailuresHaveACause` |
| `sync_stale` (violation) | two Lambda syncs, one change, no fault | the sync with the older listing takes away a new bucket |
| `archive_it` | files `a` and `odd` (undated) at first, `old` (expired) in an earlier inventory only, `b` to come, two syncs, two events in all, fairness | `NoRowIsRepeated`, `RecordedBeforeLive`, `UndisturbedInventoriesAreComplete`, `AuditsMissNothing`, `BackupsCatchUp` |

The passing runs fire every action and every disjunct of the next-state
relations, and every property of a passing run has a mutant of mapped code
that breaks it (`PROJECT.json`, "mutants").

**Bounds.** Pairs share no key, so one pair stands for all, and what can go
wrong between runs of a pair takes two of them. Three deliveries of an event
add nothing to two that overlap. The hazards of a single run (outcomes,
duplicates, faults) and of two runs (the order of puts and copies) are checked
in separate instances, because together they leave TLC's reach; the theorems
of section 4 cover the combination for the safety of reports. `LastDay` is 1
in the first two instances: `LatestIsNewest` does not hold across a midnight
(section 5). `settles` has a midnight, and two faults against three attempts:
with as many faults as attempts nothing can be promised. `MaxNames` is 2
instead of 5, so that the limit is met; two names per request are what it
takes for one to fail after another. `MAX_FOLDER_ATTEMPTS` is 2 instead of 3,
met by the two faults. In `archive_it`, remote changes, failures and syncs by
hand share the budget `MaxEvents` of 2: losing a claimed list takes one fault,
and hiding a new file behind a lost one takes one change, because `old` is
lost from the start (`Lost`); one is left to meet them. `PageSize` is 1, so
that every listing has several pages.

In `reports`, `MaxStarts` of 3 is a joint budget of everything that begins
(inventories, uploads, deletions, duplicates, CLI calls, storage reports) and
of the fault, which may be any call of any invocation. Three is what a
property takes to be violated: two reports and a fault that interrupts one, or
a request, a second one and a fault. An inventory's and an upload's first
delivery cost nothing. Bucket `b` is empty: an inventory of it cannot be
reported, and a storage report and a request find nothing of it. Two days give a midnight between any two
keys, a manifest of yesterday for the CLI and, with `NewYear` the first, a day
without and one with costs to ask for. The theorems of section 4 drop every
bound of this run. In `dispatch`, the sweep and the dispatch are not mixed in
one behaviour, because neither writes what the other reads; `DispatchAttempts`
is 2, so that the retry starts from a listing of its own. The larger instances
are `comparison` (7.3 million states), `sync_overlap` (4.2), `reports` (3.0)
and `requests` (1.1); the check of each ends within minutes.

**Fairness.** `FairSpec` of ChecksumVerification asks for weak fairness of
`FinishJob` (S3 Batch ends every job), of `Trigger` (the invocation goes on)
and of the calls of the first delivery of each event (EventBridge delivers at
least once, and Lambda runs what is delivered and retries it). Duplicate
deliveries and the CLI are owed nothing, and failures are never fair.
`FairSpec` of ArchiveIt has weak fairness of the inventory and the audit task
and of the scheduled sync, which the Archive-It terraform module schedules
every day; nothing is assumed of syncs by hand. No strong fairness is used.
The other specifications state no fairness. What must eventually happen there
is stated as an invariant of rest: `InventoriesAreReported`,
`ChecksumRequestsAreAnswered` and `RequestsAreAnswered` speak of states in
which no invocation that was started, or must be started, has a step left.

**Deadlock.** `CHECK_DEADLOCK FALSE` everywhere: the instances have a finite
number of requests, runs, changes and faults, and when all are used up the
system rests. That it does not rest too early is what the liveness properties
and the invariants of rest say.

## 4. Proofs

`tlapm` checks the theorems of the `*_proofs` modules for every value of the
constants that the module's ASSUME admits, so for any number of pairs, runs,
objects, files, deliveries, attempts and faults. TLC found each formula to
hold in an instance before it was proved.

**ChecksumVerification_proofs.** `Types`, `ReportsAreSound`, `AlarmsAreTrue`
and `HandoffIsSafe` say `Spec => []P` for the type invariant and the three
safety invariants of the run `duplicates`. None of these is inductive: that a
stored report is sound follows from what the invocation that stores it had
learnt of the two jobs, a call or several calls earlier. `IInv` adds what is
learnt at each program counter: `EvidenceInv` (behind the source gate the
source job is complete, behind the second both are, a no-op saw an empty
manifest), `EventInv` (an event's job is finished), `ReceiptInv` (an event's
invocation works on the event's own run), `CreationInv` (a job is created
once). The argument is that a finished job stays as it is (`JobsSettle`), so
what an invocation has learnt stays true while others go on (`EvidenceStays`,
`EventKept`), and a step changes the program counter of one invocation only
(`StepKinds`, `StepsAreLocal`). `HandoffIsNeverLost` needs
`NobodyWaitsInVain`: no two invocations leave the same run to each other. It
holds because the event of a job is handled after the job has finished: an
invocation for one side that leaves the run to the other side has seen the
other job unfinished, and an invocation for the other side begins only after
that job has finished, when both are (`WaitsForTheOther`).
`CsvPromiseIsKept` and `StatsPromiseIsKept` are the two refinements of
VersionedReports, step by step: a put publishes, because behind both gates the
run is complete and the date is not in the future (`TargetInv`), a copy
promotes, because what was put under the date may be replaced but not go
(`ReportsStay`), and a run becomes complete by the end of one job and by
nothing else (`FinishReadiesOne`, `CreationReadiesNone`).
`LatestIsNewestWithinADay` is `LatestIsNewest` as far as the code keeps it:
while nothing has failed, and of pairs whose reports bear one date. The
invariant behind it, `LatestInv`, is that LATEST and the one date agree unless
somebody is between put and copy. Without these conditions the property is
false: a run of yesterday copies its report over today's, and after a put whose
copy failed the date is ahead of LATEST.

**BucketRequest_proofs.** `AcknowledgedPairsHold`, `FeedbackIsComplete`,
`RequestsHaveAnswers` and `TypesHold` are `Spec => []AcknowledgedPairsAreWhole`,
`[]FeedbackNamesEveryGap`, `[]RequestsAreAnswered` and `[]TypeOK`, for any
number of requests, names, deliveries and failing calls. An attempt owns a
bucket (`Owns`) from its create, which S3 accepts for one attempt only, until
it has gone on to the next pair or rolled the bucket back. `OwnerInv` says that
what is owned exists and has one owner; `StepOf` that a step of an attempt
changes what it owns or creates and nothing else (`Contained`). So a pair that
is whole and owned by nobody stays so (`SettledStay`). That a pair becomes whole
is `ProgressInv`: the buckets in the making carry what the calls of the plan
so far have configured (`PlanTable`, `AppliedGrows`, `PolicyMoves`), and at the
last call that is all but the replication (`PlanEnds`). `PairsInv` ties this to
what was told: the pairs that were there, that an attempt has `Passed` without
an issue, or that a feedback file passes over, are settled. A crash leaves
buckets nobody owns any more, which nobody can complete or roll back, and no
attempt has passed them. `AnswerInv` counts: an attempt fails only by a failing
call or after a feedback file.
`HalvesAreUndone` is `Spec => []OneFailureIsUndone`. `UndoInv` has the two
halves of the argument. While no call has failed, nobody undoes anything and
every bucket is `Kept`: of a settled pair, or owned by the attempt that makes
it. So the create of a replica finds its name free, since whoever owned the
replica would own the primary as well, and no rollback is begun for a name that
was taken. After the one refused call the attempt undoes what it has created
(`RollbackCovers`), and a bucket could stay behind only by a delete that is
refused: a second refusal, or a user's object in it.

**ChecksumComparison_proofs.** `TypeCorrect`, `DamageRaised`,
`AlarmsAreCaused`, `TotalsExplained`. `DamageInv` is the core of `DamageRaised`:
of an object whose copies differed when the jobs were created, and that nobody
deletes, one side was harmed before any task read it, so no task can report an
undamaged checksum there. A failed source task that is passed over is still a
replica without a source; the failed replication task that is passed over is
what the property excepts. `CleanInv` and `LateInv` are the core of
`AlarmsAreCaused`:
without damage, deletion or failure there are only undamaged rows, and an
object missing from one report came after that report's manifest. The counts
are cardinalities of the categories, which overlap: `TotalsExplained` takes
apart their sum with the library's theorems on finite sets.

**ArchiveIt_proofs.** `Types`, `RowsAreUnique`, `RecordIsAhead`,
`AuditsAreThorough`. `RowsInv` says that the files of all rows are among those
seen, which a page consults before it adds rows; `RecordInv` that a run only
adds to what it resumed from and has written under a date what it is about to
make live; `AuditInv` is the promise of an audit at every row, and needs that
no step of another task makes a right object wrong (`AuditRests`).
`InventoriesAreComplete` is `Spec => []UndisturbedInventoriesAreComplete`, for
listings of any length and pages of any size. `RemoteInv` says that the service
lists each file once, in its collection, so that `Total` is a cardinality;
`SeenInv` that whatever has been seen has a row; `PagesInv` follows a run that
nothing disturbs: of a collection still to be read only the cached files have
been seen, of the one being paged the cached ones and those of the pages so
far, with `written` the number of the new among them, and all others are
`Complete`. The early ends are justified by counting: with K the cached and R
the listed files, |K| + |R \ K| = |R| + |K \ R| (`CountsTell`). If no cached
file is gone, the counts promise exactly the new files, and a run that has
written as many has written all; if some are gone, as many new ones may stay
hidden, which is what the property grants (`CountsComplete`).

**StackReports_proofs.** About inventory-report, in the composition of the
three pipelines. `LatestReportsAgree` is `Spec => []ReportsAgree`. That CSV and
stats under LATEST are of one inventory follows at the last of four writes
from what the first three left in place: `WrittenInv` says that nobody has
touched what an invocation alone has written, and holds because whoever writes
at the same time is alone too and writes the same (`AloneInv`); `WholeInv`
says that what still writes after a finished report writes what is there.
`PromiseIsKept` is the refinement of VersionedReports by both stores, step by
step (`CsvRefines`, `StatsRefines`). `AllAreReported` is
`Spec => []InventoriesAreReported`: `EventInv` charges every failed attempt of
an event to a failed call (`FaultsGrow`), or to a report that was completed and
raised, unless the inventory lists nothing (`Void`).

**ChecksumRequests_proofs.** `RequestsAreAnswered` is
`Spec => []ChecksumRequestsAreAnswered`. The difficulty is the attempt that
deletes the trigger of a later upload. `ExcuseInv` says of every upload that
as many calls have failed as attempts of its event, or that it is `Covered`:
whoever may still delete the trigger has begun after the upload, and the
trigger is there or the upload answered. An attempt that fails without a
failed call has found no report; then nobody has got so far as to delete
(`UploadInv`, `AttemptInv`), and it is covered. `ListsAreTrue` is
`Spec => []ChecksumInventoriesAreTrue`: an inventory stays as it was made
(`InventoriesStay`), what was deleted stays deleted, so a row that was true
stays true (`OldRowsAreTrue`); a row per object is an injection from rows to
objects (`RowsAreCounted`). `StackTypesHold` is `Spec => []StackTypeOK`, the
types of all three pipelines side by side. That attempts do not exceed what
Lambda makes of them needs more than types: who may still fail has an attempt
left; and that stats, sources and lists are of inventories that were made needs
the invariants of each of the pipelines. `BoundsInv` adds the former, on top of
the other invariants of this module and of StackReports_proofs (`StackInv`),
and each step is credited to the pipeline it belongs to (`WhoseStep`).

**StackReports_proofs, part two: storage-report.** `NothingStaysOut` and
`PagesAgree` are
`Spec => []NothingIsLeftOut` and `Spec => []StoragePagesAgree`. The first rests
on stats that are replaced but never go (`StatsStay`, `OwedInv`), the second on
`SoleInv`, what a run alone has written is still its own report, and
`QuietInv`, between a finished report and the next page nobody writes.

**ChecksumDispatch_proofs.** `DispatchTypesHold`, `PairsAreRemembered`,
`VerdictsAreRight` and `ReplicationIsConclusive` are the type invariant, the
two invariants and the action property of the run `dispatch`, for any number of
requests and pairs beside one sweep or dispatch. `DInv` puts on top of
BucketRequest's `IInv` what the readers know. `DueInv`, for the dispatch: every
pair that was due at the listing is still to be read, to be paired or to be
triggered, or has its jobs, or S3 refused its tags; it uses that a settled pair
stays, so both halves are in the listing. `ReplicatedInv`: replication is
configured last, so a primary that has it has all its other settings too, and a
replica that is complete or has been deleted; that is why one passed check is
conclusive even while requests go on. `SweepInv` accounts for
every bucket of a sweep, and `FreshInv` says that what an undisturbed sweep
has listed and checked is what there is. A dispatch and a sweep are never both
under way (`OneOfBoth`). The code turns sets into sequences and flattens them;
what `SetToSeq` and `FlattenSeq` yield is shown for sequences of any length by
looking at a least counterexample (`Least`), because the induction theorems of
the library take the formula as a parameter.

**SyncUsers_proofs.** `TypesHold`, `MountsStayEntitled`, `SyncsAreExact` and
`FailuresAreJustified` are the type invariant, the two invariants and the
action property of the run `sync_overlap`, for any number of syncs, users and
changes, and whichever users share a key. A step of a sync changes only its own
locals (`Only`), and of the services the folder or the account of the user it
is at (`StepOf`). `OwnInv` says that what a sync takes for a user's buckets was
granted to him (`EverInv`), and that what it has upserted is there. A folder
never goes, and holds the keys of some user of its name who has been in the
stack of its bucket (`FoldersInv`): whoever writes it is one. So the
replacement of the mounts keeps `MountsAreEntitled`. `FreshInv` and `AloneInv`
speak of a sync that nothing overtakes: what it has cached is what IAM and S3 hold, the folders of
its finished tasks are as wanted, and so are the users behind it (`SyncedInv`),
whatever was there before. Alone, the post of a folder that was probed as
missing meets no conflict and a put meets the folder, so every task that is
tried again pays with a transient fault (`TriesInv`), and an attempt that fails
has a cause.

**Assumptions.** `ConstantsAssumption`, `ComparisonAssumption`,
`ArchiveAssumption`, `InventoryAssumption`, `RequestAssumption`,
`StorageAssumption`, `StackAssumption`, `DispatchAssumption` and
`SyncAssumption` type the constants; beyond types they ask that there is an
attempt and a day, that a page has room for a file, that the sets of objects,
of buckets, of files, of users and of the pairs there were at first are finite,
that an event delivered a second time was delivered a first time, that the
marker of an empty key is no report and that of an unknown listing no set, that
Archive-It lists each file once, in its collection, and that no file is both
expired and without a date. TLC evaluates them in every run.

**Only model-checked.** The liveness properties (`FinishedRunsSettle`,
`FailedJobsAreRaised`, `BackupsCatchUp`): fairness needs ENABLED, which is out
of the prover's reach. `LatestIsNewest` is proved in the form given above, and
checked as it stands in `overlap`, where its conditions hold. Every other
property of a passing run is a theorem.

## 5. Where code and words differ

Three runs end in a violation of what a document promises:

- `early_events`: a job that finishes before its receipt is put is taken for
  another stack's (`event_handler.rs:48`); its event is acknowledged, and if
  the other job's event met the same, or left the run to this one, the run is
  never reported.
- `uploads_mirrored`: the deny-all policy is lifted before replication is
  configured (`bucket_creator.rs:181`), and is absent right after create. An
  upload in either window is never mirrored.
- `sync_stale`: of two overlapping syncs, the one with the older listing may
  write last, and takes a new bucket out of the user's mounts
  (`sftpgo.rs:59`).

The following were met by reading; the models follow the code.

- *Reports.* LATEST may hold the older report when two runs report on both
  sides of a midnight (`upload.rs:94`); `user/reports.md:13` calls it the most recent
  one. TLC shows it with `LastDay = 2` in `Verification_overlap.cfg`. A failed
  job with several failure codes counts as an empty one when any of them is
  `EmptyManifest`, where the comment says "only failure" (`batch.rs:107`).
- *Comparison.* `missing_source` is also reported for a version uploaded and
  replicated between the two manifests. The total counts an object twice when
  both its tasks failed, and not at all when its result cannot be read. Result
  files of a status other than succeeded are passed over (`batch.rs:244`). If S3
  lists failed tasks in a file of their own, `Failed source` and
  `Failed replication` (`checksum-report.md:71`) stay zero: an object whose
  replication task failed is reported as a missing replica, which is no error,
  one whose source task failed as a missing source, and one that failed twice
  nowhere; and where no task of a side succeeded, no report is made at all.
- *Inventory reports.* A retry or a late duplicate for an older manifest is
  stored under today's date and LATEST, over a newer inventory's report:
  nothing compares the dates of manifests. `inventory-report.md:45` names the
  stats `$bucket.csv`, the code writes `.json` (`stack.rs:220`). The location
  in the log line (`inventory_report.rs:87`) is formatted with the date of the
  logging, which may be the day after the report's. A failed replication is
  raised by every delivery and every attempt, and the reports made anew. If
  the manifest of an empty bucket names no Parquet file, `read_parquet` has
  nothing to read (`base/src/inventory.rs:44`) and every attempt fails.
- *Checksum requests.* A request for a bucket without an inventory report is
  an error of the function only: the feedback file is written for errors of
  `perform`, and the check before it (`event_handler.rs:48`) returns without
  one. An attempt deletes the trigger of an upload made meanwhile; the list it
  made may be older than that upload, and the upload's own attempts make
  another. The function has `GetObject` but no `ListBucket` on the source
  buckets, so S3 may answer the HEAD of an object that is gone with 403, and its
  row is an `error`, where `user/reports.md:46` promises `not_found`; the model
  allows both (`StatusesOf`).
- *Checksum dispatch.* `compute-checksums.md:45` promises jobs for all buckets
  of a stack. One source bucket without a listed partner, also one that a
  request is just creating, refuses all of them, and only the retries of the
  invocation, minutes later, can make up for it before the next schedule; a
  source bucket whose tags cannot be read is left out, and the dispatch
  succeeds.
- *Bucket requests.* `creating-buckets.md:80` says that one bad name stops
  all; each name is processed on its own. Line 73 promises a results file; a
  success leaves none. `bucket-request.md:23` passes over existing buckets; in
  the code a name that exists fails, so a retried request fails for every pair
  the first attempt made, and asks for no user sync: of a request for a new and
  an existing name the new pair stays, mounted by nobody until another sync.
  Lines beyond the fifth are dropped silently. In us-east-1, where creating
  one's own bucket again succeeds, a repeated request would set up a live bucket
  again, and undo it if it failed; the model follows the other regions.
- *Listings.* A bucket whose tags cannot be read is left out silently
  (`bucket.rs:277`), of reconciliation too.
- *Users.* A missing SFTPGo account fails the whole sync, where
  `sync-users.md:74` says that it is skipped. A user left without a bucket, or
  taken out of his last group, is skipped and keeps his mounts
  (`sync_users.rs:42`, `users.rs:86`), where `sync-users.md:77` says that they
  change. `--username` of the CLI is not used yet (a TODO in `perform`). User
  names that differ in punctuation only share a key (`sftpgo/src/lib.rs:223`):
  such users share one folder per bucket, with the credentials of whoever was
  synced last, where the comment at line 401 gives each user "their own folder
  record (with their own credentials)". `MountsAreEntitled` and
  `UndisturbedSyncsAreExact` say what still holds for them.
- *Archive-It.* A collection is skipped or paging ends when counts agree, so a
  new file hides behind a lost one until the counts differ. The sync deletes
  whatever list is live by then, which may be a newer one. "durable even if
  the next page errors out" (`inventory.rs:142`) is true of the local file,
  which the task has in a temporary directory and uploads only at the end. Two
  collections with a file of one name share its object. `store_time` is carried
  as the service gives it; where it is not a date by RFC 3339, the audit skips
  the row for good (`classify.rs:40`), and the file is never backed up. The
  task policies
  grant `ListBucket` on the source bucket only, without which S3 answers a
  HEAD of a missing object in the managed bucket with 403 rather than 404.

## 6. Not modelled

Left out: what cost explorer and CloudWatch metrics answer (reads that are
formatted; whether the costs are there is in StorageReports), reset and
transfer (run by hand, followed up by nothing), the task and single-checksum
commands (one call each), Terraform (it is the environment: events, retries,
schedules), build scripts and test support.

Within the modelled parts: the character rules of bucket names (a line is
valid or not), the text of CSV, JSON and HTML, DuckDB's reading of the job
reports, SDK retries and streaming, the fields of an SFTPGo account and folder
beside mounts and keys, the sums, sizes, prefixes and percentages of inventory
and storage reports, the Parquet format, the dry run of an audit, drift that an administrator
makes while a sweep runs, and the tasks' exit codes. S3 is taken as strongly
consistent, as it is.

The lifecycle rule `expire-all` (`buckets.tf:30`) deletes what has been in the
managed and request buckets for 90 days; no model has this expiry. What lies
under a LATEST key is written anew every day by the schedules, and so are the
stats a storage report reads. A bucket whose inventory stops for 90 days would
lose both, and `perform` of a checksum request would then meet a missing
report (`checksum_request.rs:26`, with a feedback file), which the model has
only as the handler's own check; a trigger file nobody managed to answer goes
in the same way, and so do the archived reports that VersionedReports keeps.

Further limits: every IAM user is taken to have an SFTPGo account (an e-mail
address) of his own; one inventory task of Archive-It runs at a time;
ChecksumVerification takes every comparison of two finished, non-empty jobs to
come to an end, also where no task of a side succeeded. What LATEST holds when
reports on two inventories, or two storage reports, overlapped is not promised:
`ReportsAgree` and `StoragePagesAgree` begin again with the next report that
nothing overlaps (`torn`, `split`), and the mixed outcomes in between are
within the model.

## 7. Plan

1. Proofs: every safety property of a passing run is a theorem; liveness stays
   with TLC. What would bring it nearer is a theorem for each step of the
   argument that needs no ENABLED: that an action of an unfinished call, once
   taken, brings it closer to its end.
2. Model: reset and emptying of a bucket beside users and requests, once it is
   more than a command run by hand; what an administrator changes of an
   account while a sync has it in hand.
