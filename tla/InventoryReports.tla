-------------------------- MODULE InventoryReports --------------------------
(***************************************************************************)
(* S3 writes an inventory of every source bucket once a day into the       *)
(* managed bucket.  Its manifest.json raises an event; inventory-report,   *)
(* one Lambda invocation per delivered event, turns it into a CSV and a    *)
(* stats object, each put under the date of that moment and copied to      *)
(* LATEST, and returns Err only then if replications have failed: Lambda   *)
(* makes the whole report again.  The CLI does the same for one bucket.    *)
(***************************************************************************)
EXTENDS Naturals, FiniteSets

CONSTANTS
    Buckets,      \* the source buckets of the stack, all of them there
    Objects,      \* the object names a bucket may hold
    Directories,  \* those that end in a slash
    Missing,      \* those not in a bucket at first, as <<bucket, object>>
    LastDay,      \* bound: the calendar of the model is 1..LastDay
    EventCalls,   \* the deliveries of events, as <<bucket, day, number>>
    CliRuns,      \* the calls of the CLI, as <<bucket, CLI, number>>
    MaxAttempts,  \* attempts of an asynchronous Lambda invocation
    MaxFaults,    \* bound: failing AWS calls, timeouts and crashes
    MaxStarts,    \* bound: what users, S3, schedules and duplicates begin
    None          \* the content of a key that holds no object

Days == 1..LastDay
LATEST == 0
Slots == Days \cup {LATEST}

\* The inventory of a bucket and a day, as its key in the managed bucket says.
Inventories == {<<h[1], h[2]>> : h \in EventCalls}
InventoryOrNone == Inventories \cup {None}

\* A call of the CLI has CLI where an event's invocation has a day.
CLI == 0
Calls == EventCalls \cup CliRuns

ASSUME InventoryAssumption ==
    /\ IsFiniteSet(Buckets) /\ IsFiniteSet(Objects)
    /\ Directories \subseteq Objects
    /\ Missing \subseteq Buckets \X Objects
    /\ LastDay \in Nat \ {0}
    /\ EventCalls \subseteq Buckets \X Days \X (Nat \ {0})
    /\ \A h \in EventCalls : <<h[1], h[2], 1>> \in EventCalls
    /\ CliRuns \subseteq Buckets \X {CLI} \X Nat
    /\ MaxAttempts \in Nat \ {0}
    /\ MaxFaults \in Nat /\ MaxStarts \in Nat
    /\ None \notin Inventories

VARIABLES
    day,       \* the current UTC date
    faults,    \* how many calls have failed so far
    starts,    \* how much of the bound MaxStarts is used
    gone,      \* the objects not there by now, as <<bucket, object>>
    made,      \* the inventories whose manifest is in the managed bucket
    listing,   \* the objects each of them lists
    broken,    \* those with an object whose replication status is FAILED
    pc,        \* the next call of each invocation, or how it ended
    failures,  \* the failed attempts of each invocation
    work,      \* the inventory an invocation is reporting on
    target,    \* the date in the key an invocation is writing to
    csv,       \* reports/{date}/manifests/{bucket}.csv
    stats,     \* metadata/{date}/manifests/stats/{bucket}.json
    raised,    \* the inventories Lambda reported replication failures of
    reported,  \* history: those reported once from beginning to end
    alone,     \* history: no other inventory of the bucket was in the way
    torn       \* history: a report of the bucket was begun, and none finished alone

boundVars == <<faults, starts>>
s3Vars == <<gone, made, listing, broken>>
callVars == <<pc, failures, work, target>>
storeVars == <<csv, stats>>
history == <<reported, alone, torn>>
inventoryVars == <<day, boundVars, s3Vars, callVars, storeVars, raised, history>>

-----------------------------------------------------------------------------
(* The environment *)

Begin == starts + faults < MaxStarts /\ starts' = starts + 1

Fault == faults < MaxFaults /\ starts + faults < MaxStarts /\ faults' = faults + 1

MidnightPasses ==
    /\ day < LastDay
    /\ day' = day + 1
    /\ UNCHANGED <<boundVars, s3Vars, callVars, storeVars, raised, history>>

\* An object is deleted by a user, or expires.
DeleteObject(b, o) ==
    /\ <<b, o>> \notin gone
    /\ Begin
    /\ gone' = gone \cup {<<b, o>>}
    /\ UNCHANGED <<day, faults, made, listing, broken, callVars, storeVars,
                   raised, history>>

\* What inventory-report makes a row of in the CSV, and counts in the stats.
RowsOf(objects) == objects \ Directories

\* The inventory of the day; replication has failed for some object or for none.
GenerateInventory(b) ==
    LET m == <<b, day>> IN
    /\ m \in Inventories \ made
    /\ Begin
    /\ made' = made \cup {m}
    /\ listing' = [listing EXCEPT ![m] = {o \in Objects : <<b, o>> \notin gone}]
    /\ \/ UNCHANGED broken
       \/ RowsOf(listing'[m]) # {} /\ broken' = broken \cup {m}
    /\ UNCHANGED <<day, faults, gone, callVars, storeVars, raised, history>>

-----------------------------------------------------------------------------
(* inventory-report: function_handler, get_manifest and perform *)

Goto(h, l) == pc' = [pc EXCEPT ![h] = l]

\* Mutant: the first attempt is not counted.
RetriedOnceMore(h) == h \in EventCalls /\ failures[h] < MaxAttempts

Retried(h) == h \in EventCalls /\ failures[h] + 1 < MaxAttempts

ReturnOk(h) == Goto(h, "ok") /\ UNCHANGED <<failures, target, alone>>

\* Lambda runs an invocation that failed again, nobody runs the CLI again.
ReturnErr(h) ==
    /\ failures' = [failures EXCEPT ![h] = @ + 1]
    /\ Goto(h, IF Retried(h) THEN "fetch" ELSE "dropped")
    /\ target' = [target EXCEPT ![h] = LATEST]
    /\ alone' = [alone EXCEPT ![h] = FALSE]

\* The event of a manifest reaches a function; a duplicate is one more start.
Deliver(h) ==
    /\ h \in EventCalls
    /\ pc[h] = "idle"
    /\ <<h[1], h[2]>> \in made
    /\ IF h[3] = 1 THEN UNCHANGED starts ELSE Begin
    /\ work' = [work EXCEPT ![h] = <<h[1], h[2]>>]
    /\ Goto(h, "fetch")
    /\ UNCHANGED <<day, faults, s3Vars, failures, target, storeVars, raised,
                   history>>

StartCli(h) ==
    /\ h \in CliRuns
    /\ pc[h] = "idle"
    /\ Begin
    /\ Goto(h, "today")
    /\ UNCHANGED <<day, faults, s3Vars, failures, work, target, storeVars,
                   raised, history>>

\* get_manifest looks for today's manifest, then for yesterday's; each date is
\* formatted for its own call, and a midnight may pass in between.
FindManifest(h, here, date, otherwise) ==
    /\ pc[h] = here
    /\ \/ /\ <<h[1], date>> \in made
          /\ work' = [work EXCEPT ![h] = <<h[1], date>>]
          /\ Goto(h, "fetch")
       \/ /\ <<h[1], date>> \notin made
          /\ Goto(h, otherwise)
          /\ UNCHANGED work
    /\ UNCHANGED <<day, boundVars, s3Vars, failures, target, storeVars,
                   raised, history>>

FindToday(h) == FindManifest(h, "today", day, "yesterday")
FindYesterday(h) == FindManifest(h, "yesterday", day - 1, "dropped")

BucketOf(h) == h[1]

\* An invocation has put its first object and not yet copied its last.
Halfway(h) == pc[h] \in {"csv_latest", "stats_dated", "stats_latest"}

\* g may still copy another inventory than h's to LATEST.
InTheWay(g, h) ==
    /\ BucketOf(g) = BucketOf(h)
    /\ Halfway(g)
    /\ work[g] # work[h] \/ ~alone[g]

\* The date in the key is formatted for the put, and used again by the copy.
PutDated(store, h) == [store EXCEPT ![BucketOf(h)][day] = work[h]]

\* Mutant: the invocation's own report is put under LATEST instead.
PutLatest(store, h) == [store EXCEPT ![BucketOf(h)][LATEST] = work[h]]

\* copy_to_latest copies what the dated key holds by that time.
CopyToLatest(store, h) ==
    [store EXCEPT ![BucketOf(h)][LATEST] = store[BucketOf(h)][target[h]]]

\* The manifest and its Parquet files are fetched and read, which never change,
\* and the CSV is put.
PutCsv(h) ==
    LET others == {g \in Calls : InTheWay(g, h)} IN
    /\ pc[h] = "fetch"
    /\ target' = [target EXCEPT ![h] = day]
    /\ csv' = PutDated(csv, h)
    /\ Goto(h, "csv_latest")
    /\ alone' = [g \in Calls |-> IF g = h THEN others = {}
                                 ELSE alone[g] /\ g \notin others]
    /\ torn' = torn \cup {BucketOf(h)}
    /\ UNCHANGED <<day, boundVars, s3Vars, failures, work, stats, raised,
                   reported>>

CopyCsvToLatest(h) ==
    /\ pc[h] = "csv_latest"
    /\ csv' = CopyToLatest(csv, h)
    /\ Goto(h, "stats_dated")
    /\ UNCHANGED <<day, boundVars, s3Vars, failures, work, target, stats,
                   raised, history>>

\* The stats get a key of their own date.
PutStats(h) ==
    /\ pc[h] = "stats_dated"
    /\ target' = [target EXCEPT ![h] = day]
    /\ stats' = PutDated(stats, h)
    /\ Goto(h, "stats_latest")
    /\ UNCHANGED <<day, boundVars, s3Vars, failures, work, csv, raised, history>>

\* Mutant: the stats are copied from the day's key of the moment of the copy.
CopyTodaysStats(h) ==
    /\ pc[h] = "stats_latest"
    /\ stats' = [stats EXCEPT ![BucketOf(h)][LATEST] = stats[BucketOf(h)][day]]
    /\ Goto(h, "return")
    /\ torn' = IF alone[h] THEN torn \ {BucketOf(h)} ELSE torn
    /\ reported' = reported \cup {work[h]}
    /\ alone' = [alone EXCEPT ![h] = FALSE]
    /\ target' = [target EXCEPT ![h] = LATEST]
    /\ UNCHANGED <<day, boundVars, s3Vars, failures, work, csv, raised>>

CopyStatsToLatest(h) ==
    /\ pc[h] = "stats_latest"
    /\ stats' = CopyToLatest(stats, h)
    /\ Goto(h, "return")
    /\ torn' = IF alone[h] THEN torn \ {BucketOf(h)} ELSE torn
    /\ reported' = reported \cup {work[h]}
    /\ alone' = [alone EXCEPT ![h] = FALSE]
    /\ target' = [target EXCEPT ![h] = LATEST]
    /\ UNCHANGED <<day, boundVars, s3Vars, failures, work, csv, raised>>

\* The stats count the rows whose replication has failed.
ReplicationErrors(h) == work[h] \in broken

\* The handler turns failed replications into an Err; the CLI prints counts.
Return(h) ==
    /\ pc[h] = "return"
    /\ IF h \in EventCalls /\ ReplicationErrors(h)
       THEN ReturnErr(h) /\ raised' = raised \cup {work[h]}
       ELSE ReturnOk(h) /\ UNCHANGED raised
    /\ UNCHANGED <<day, boundVars, s3Vars, work, storeVars, reported, torn>>

Working == {"today", "yesterday", "fetch", "csv_latest", "stats_dated",
            "stats_latest", "return"}

\* Mutant: the handler logs the failure and answers Ok.
SwallowFailure(h) ==
    /\ pc[h] \in Working
    /\ Fault
    /\ ReturnOk(h)
    /\ UNCHANGED <<day, starts, s3Vars, work, storeVars, raised, reported,
                   torn>>

\* A call fails, or its answer is lost, or the invocation times out or dies.
CallFails(h) ==
    /\ pc[h] \in Working
    /\ Fault
    /\ ReturnErr(h)
    /\ UNCHANGED <<day, starts, s3Vars, work, storeVars, raised, reported, torn>>

\* The manifest of an inventory that lists nothing may name no Parquet file, and
\* read_parquet of no file is an error, in every attempt.
ReadNothing(h) ==
    /\ pc[h] = "fetch"
    /\ listing[work[h]] = {}
    /\ ReturnErr(h)
    /\ UNCHANGED <<day, boundVars, s3Vars, work, storeVars, raised, reported, torn>>

\* What an invocation does once it has been started.
CallStep(h) ==
    \/ FindToday(h)
    \/ FindYesterday(h)
    \/ ReadNothing(h)
    \/ PutCsv(h)
    \/ CopyCsvToLatest(h)
    \/ PutStats(h)
    \/ CopyStatsToLatest(h)
    \/ Return(h)

-----------------------------------------------------------------------------
(* The specification *)

InventoryInit ==
    /\ day = 1
    /\ faults = 0
    /\ starts = 0
    /\ gone = Missing
    /\ made = {}
    /\ listing = [m \in Inventories |-> {}]
    /\ broken = {}
    /\ pc = [h \in Calls |-> "idle"]
    /\ failures = [h \in Calls |-> 0]
    /\ work = [h \in Calls |-> None]
    /\ target = [h \in Calls |-> LATEST]
    /\ csv = [b \in Buckets |-> [s \in Slots |-> None]]
    /\ stats = [b \in Buckets |-> [s \in Slots |-> None]]
    /\ raised = {}
    /\ reported = {}
    /\ alone = [h \in Calls |-> FALSE]
    /\ torn = {}

InventoryNext ==
    \/ MidnightPasses
    \/ \E b \in Buckets : GenerateInventory(b)
    \/ \E b \in Buckets, o \in Objects : DeleteObject(b, o)
    \/ \E h \in Calls : Deliver(h) \/ StartCli(h) \/ CallStep(h) \/ CallFails(h)

InventorySpec == InventoryInit /\ [][InventoryNext]_inventoryVars

-----------------------------------------------------------------------------
(* Properties *)

\* Every variable holds a value of its type; in particular an event is tried
\* MaxAttempts times at most, and an invocation reports on its own bucket.
TypeOK ==
    /\ day \in Days
    /\ faults \in 0..MaxFaults /\ starts \in 0..MaxStarts
    /\ gone \subseteq Buckets \X Objects
    /\ made \subseteq Inventories /\ broken \subseteq made
    /\ listing \in [Inventories -> SUBSET Objects]
    /\ pc \in [Calls -> {"idle", "ok", "dropped"} \cup Working]
    /\ failures \in [Calls -> 0..MaxAttempts]
    /\ work \in [Calls -> InventoryOrNone]
    /\ \A h \in Calls : work[h] # None => work[h] \in made /\ work[h][1] = h[1]
    /\ target \in [Calls -> Slots]
    /\ csv \in [Buckets -> [Slots -> InventoryOrNone]]
    /\ stats \in [Buckets -> [Slots -> InventoryOrNone]]
    /\ raised \subseteq broken /\ reported \subseteq made
    /\ alone \in [Calls -> BOOLEAN]
    /\ torn \subseteq Buckets

\* The CSV and the stats under LATEST come from the same inventory whenever
\* the last report to be begun was finished with no report on another
\* inventory in between, in spite of duplicates, retries of a half-made
\* report, CLI calls and midnights between any two keys.
ReportsAgree ==
    \A b \in Buckets \ torn : csv[b][LATEST] = stats[b][LATEST]

\* Nothing is left to do for the inventories of a bucket.
AtRest(b) ==
    \A h \in {g \in Calls : BucketOf(g) = b} :
        /\ pc[h] \in {"idle", "ok", "dropped"}
        /\ <<b, h[2]>> \in made /\ h[3] = 1 => pc[h] # "idle"

\* Every inventory that lists an object is reported from beginning to end, and
\* failed replications reach the operators as an error of the function, if fewer
\* calls fail than Lambda makes attempts (docs/src/technical/inventory-report.md).
InventoriesAreReported ==
    \A b \in Buckets :
        AtRest(b) /\ faults < MaxAttempts =>
            \A m \in {x \in made : x[1] = b /\ listing[x] # {}} :
                m \in reported /\ (m \in broken => m \in raised)

CsvReports ==
    INSTANCE VersionedReports WITH
        Pairs <- Buckets, Runs <- Inventories,
        PairOf <- [m \in Inventories |-> m[1]], NoRun <- None,
        today <- day, evidence <- made,
        archive <- [b \in Buckets |-> [d \in Days |-> csv[b][d]]],
        latest <- [b \in Buckets |-> csv[b][LATEST]]

StatsReports ==
    INSTANCE VersionedReports WITH
        Pairs <- Buckets, Runs <- Inventories,
        PairOf <- [m \in Inventories |-> m[1]], NoRun <- None,
        today <- day, evidence <- made,
        archive <- [b \in Buckets |-> [d \in Days |-> stats[b][d]]],
        latest <- [b \in Buckets |-> stats[b][LATEST]]

\* CSVs and stats alike keep what readers of reports are promised: what is
\* published stands for an inventory S3 has made, and LATEST is at every
\* moment a copy of an archived report.
ReportsKeepPromise == CsvReports!Spec /\ StatsReports!Spec
=============================================================================
