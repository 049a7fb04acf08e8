--------------------------- MODULE StorageReports ---------------------------
(***************************************************************************)
(* storage-report: once a week (or by the CLI) the stats of every source   *)
(* bucket are collected from their LATEST keys, one bucket after another,  *)
(* while inventory-report replaces them; the sums go into an HTML page and *)
(* a JSON object, each put under its date and copied to LATEST.            *)
(***************************************************************************)
EXTENDS InventoryReports

CONSTANTS
    StorageRuns,    \* the starts of a storage report, by schedule or by hand
    CliStorageRuns, \* those by hand, which nobody retries
    NewYear         \* the days a year begins with

ASSUME StorageAssumption ==
    /\ CliStorageRuns \subseteq StorageRuns
    /\ NewYear \subseteq Days
    /\ None \notin [of : [Buckets -> InventoryOrNone], egress : BOOLEAN]

VARIABLES
    spc,        \* the next call of each run, or how it ended
    sfailures,  \* its failed attempts
    unread,     \* the buckets whose stats are still to be read
    sreport,    \* the inventory each bucket's stats were read of
    egress,     \* whether Cost Explorer has answered
    starget,    \* the date in the key a run is writing to
    html,       \* reports/{date}/storage/{stack}.html
    json,       \* metadata/{date}/storage/stats/{stack}.json
    owed,       \* history: the listed buckets that had stats by then
    sole,       \* history: no other run wrote during this one's writes
    split       \* history: a page was begun, and none finished alone

storageStores == <<html, json>>
storageCalls == <<spc, sfailures, unread, sreport, egress, starget>>
storageVars == <<storageStores, storageCalls, owed, sole, split>>

-----------------------------------------------------------------------------
(* perform *)

SGoto(c, l) == spc' = [spc EXCEPT ![c] = l]

NoStats == [b \in Buckets |-> None]

\* What a run has collected dies with its attempt.
Forget(c) ==
    /\ unread' = [unread EXCEPT ![c] = {}]
    /\ sreport' = [sreport EXCEPT ![c] = NoStats]
    /\ egress' = [egress EXCEPT ![c] = FALSE]
    /\ starget' = [starget EXCEPT ![c] = LATEST]
    /\ owed' = [owed EXCEPT ![c] = {}]
    /\ sole' = [sole EXCEPT ![c] = FALSE]

StartStorage(c) ==
    /\ spc[c] = "idle"
    /\ Begin
    /\ SGoto(c, "list")
    /\ UNCHANGED <<faults, storageStores, sfailures, unread, sreport,
                   egress, starget, owed, sole, split>>

\* list_for_stack_by_type: the source buckets, except those passed over.
Listed(passed) == Buckets \ passed

\* The account's name, the names of the stack's buckets, and their tags.  A
\* bucket whose tags cannot be read is passed over without a word.
ListStorage(c) ==
    /\ spc[c] = "list"
    /\ SGoto(c, "stats")
    /\ \E passed \in SUBSET Buckets :
          /\ faults + Cardinality(passed) <= MaxFaults
          /\ faults' = faults + Cardinality(passed)
          /\ unread' = [unread EXCEPT ![c] = Listed(passed)]
          /\ owed' = [owed EXCEPT ![c] =
                         {b \in unread'[c] : stats[b][LATEST] # None}]
    /\ UNCHANGED <<starts, storageStores, sfailures, sreport, egress, starget,
                   sole, split>>

\* One bucket after the other, in the order of the listing.
NextOf(c) == CHOOSE b \in Buckets : unread[c] # {} => b \in unread[c]

\* Mutant: stats that cannot be read are taken for stats that are not there.
ReadStatsOrSkip(c, b) ==
    /\ spc[c] = "stats"
    /\ b \in unread[c] /\ b = NextOf(c)
    /\ unread' = [unread EXCEPT ![c] = @ \ {b}]
    /\ \/ sreport' = [sreport EXCEPT ![c][b] = stats[b][LATEST]] /\ UNCHANGED faults
       \/ Fault /\ UNCHANGED sreport
    /\ UNCHANGED <<starts, storageStores, spc, sfailures, egress,
                   starget, owed, sole, split>>

\* fetch_latest_inventory_stats: a bucket without stats is left out.  The HEAD
\* and the download are one step, since a LATEST key is not deleted (the expiry
\* after 90 days does not reach a key that is written every day).
ReadStats(c, b) ==
    /\ spc[c] = "stats"
    /\ b \in unread[c] /\ b = NextOf(c)
    /\ unread' = [unread EXCEPT ![c] = @ \ {b}]
    /\ sreport' = [sreport EXCEPT ![c][b] = stats[b][LATEST]]
    /\ UNCHANGED <<boundVars, storageStores, spc, sfailures, egress,
                   starget, owed, sole, split>>

\* StorageReport: the stats of the buckets that have some, and the costs.
Assemble(c, costs) == [of |-> sreport[c], egress |-> costs]

\* to_html: one row for each of those buckets, and the metric if it is there.
Page(report) ==
    [rows |-> {<<b, report.of[b]>> : b \in {x \in Buckets : report.of[x] # None}},
     metrics |-> IF report.egress THEN {"egress"} ELSE {}]

\* s3_data_transfer_out_ytd: the bytes of this year up to yesterday.  On the
\* first day of a year there is nothing to ask for; on another there may be no
\* usage to report, and an error looks the same.
QueryCosts(c) ==
    \E known \in {FALSE, day \notin NewYear} :
        /\ egress' = [egress EXCEPT ![c] = known]
        /\ UNCHANGED faults

Publishing(c) == spc[c] \in {"html_latest", "json_dated", "json_latest"}

PutHtml(c) ==
    LET others == {d \in StorageRuns : Publishing(d)} IN
    /\ spc[c] = "stats"
    /\ unread[c] = {}
    /\ QueryCosts(c)
    /\ starget' = [starget EXCEPT ![c] = day]
    /\ html' = [html EXCEPT ![day] = Page(Assemble(c, egress'[c]))]
    /\ SGoto(c, "html_latest")
    /\ sole' = [d \in StorageRuns |-> IF d = c THEN others = {}
                                      ELSE sole[d] /\ d \notin others]
    /\ split' = TRUE
    /\ UNCHANGED <<starts, json, sfailures, unread, sreport, owed>>

CopyHtml(c) ==
    /\ spc[c] = "html_latest"
    /\ html' = [html EXCEPT ![LATEST] = html[starget[c]]]
    /\ SGoto(c, "json_dated")
    /\ UNCHANGED <<boundVars, json, sfailures, unread, sreport, egress,
                   starget, owed, sole, split>>

PutJson(c) ==
    /\ spc[c] = "json_dated"
    /\ starget' = [starget EXCEPT ![c] = day]
    /\ json' = [json EXCEPT ![day] = Assemble(c, egress[c])]
    /\ SGoto(c, "json_latest")
    /\ UNCHANGED <<boundVars, html, sfailures, unread, sreport, egress,
                   owed, sole, split>>

\* Mutant: the date in the key is formatted once more for the copy.
CopyTodaysJson(c) ==
    /\ spc[c] = "json_latest"
    /\ json' = [json EXCEPT ![LATEST] = json[day]]
    /\ split' = IF sole[c] THEN FALSE ELSE split
    /\ SGoto(c, "ok")
    /\ Forget(c)
    /\ UNCHANGED <<boundVars, html, sfailures>>

CopyJson(c) ==
    /\ spc[c] = "json_latest"
    /\ json' = [json EXCEPT ![LATEST] = json[starget[c]]]
    /\ split' = IF sole[c] THEN FALSE ELSE split
    /\ SGoto(c, "ok")
    /\ Forget(c)
    /\ UNCHANGED <<boundVars, html, sfailures>>

Collecting == {"list", "stats"}
Storing == {"html_latest", "json_dated", "json_latest"}

\* Lambda runs a scheduled report again, nobody one that was made by hand.
SRetried(c) == c \notin CliStorageRuns /\ sfailures[c] + 1 < MaxAttempts

\* A call fails or the process dies.
StorageFails(c) ==
    /\ spc[c] \in Collecting \cup Storing
    /\ Fault
    /\ sfailures' = [sfailures EXCEPT ![c] = @ + 1]
    /\ SGoto(c, IF SRetried(c) THEN "list" ELSE "dropped")
    /\ Forget(c)
    /\ UNCHANGED <<starts, storageStores, split>>

-----------------------------------------------------------------------------
(* The specification, beside inventory-report *)

StorageInit ==
    /\ spc = [c \in StorageRuns |-> "idle"]
    /\ sfailures = [c \in StorageRuns |-> 0]
    /\ unread = [c \in StorageRuns |-> {}]
    /\ sreport = [c \in StorageRuns |-> NoStats]
    /\ egress = [c \in StorageRuns |-> FALSE]
    /\ starget = [c \in StorageRuns |-> LATEST]
    /\ html = [s \in Slots |-> None]
    /\ json = [s \in Slots |-> None]
    /\ owed = [c \in StorageRuns |-> {}]
    /\ sole = [c \in StorageRuns |-> FALSE]
    /\ split = FALSE

StorageStep(c) ==
    \/ StartStorage(c)
    \/ ListStorage(c)
    \/ \E b \in Buckets : ReadStats(c, b)
    \/ PutHtml(c)
    \/ CopyHtml(c)
    \/ PutJson(c)
    \/ CopyJson(c)
    \/ StorageFails(c)

StorageNext ==
    /\ \E c \in StorageRuns : StorageStep(c)
    /\ UNCHANGED <<day, s3Vars, callVars, storeVars, raised, history>>

-----------------------------------------------------------------------------
(* Properties *)

StorageTypeOK ==
    /\ spc \in [StorageRuns ->
                   {"idle", "ok", "dropped"} \cup Collecting \cup Storing]
    /\ sfailures \in [StorageRuns -> 0..MaxAttempts]
    /\ \A c \in StorageRuns :
          /\ owed[c] \subseteq Buckets
          /\ \A b \in Buckets : sreport[c][b] \in {m \in made : m[1] = b} \cup {None}
    /\ egress \in [StorageRuns -> BOOLEAN]
    /\ starget \in [StorageRuns -> Slots]

\* A storage report that is written out counts every bucket whose stats were
\* there when the stack was listed, unless S3 refused the bucket's tags: a
\* failing read of stats fails the report, and never makes it smaller.
NothingIsLeftOut ==
    \A c \in StorageRuns :
        spc[c] \in Storing => \A b \in owed[c] : sreport[c][b] # None

\* The page and the JSON object under LATEST hold the same stats whenever the
\* last report to be begun was finished with no other in between, in spite of
\* retries, calls of the CLI and midnights between any two keys.
StoragePagesAgree ==
    ~split => html[LATEST] = (IF json[LATEST] = None THEN None
                              ELSE Page(json[LATEST]))
=============================================================================
