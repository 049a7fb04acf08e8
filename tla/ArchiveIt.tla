----------------------------- MODULE ArchiveIt -----------------------------
(***************************************************************************)
(* The three Archive-It tasks, each run once a day whatever the others do: *)
(*   inventory  lists the WARC files of every collection and adds those    *)
(*              it has not seen before to the live inventory CSV;          *)
(*   audit      looks every row of the inventory up in the archive bucket  *)
(*              and uploads the rows to be fetched as the sync CSV;        *)
(*   sync       claims the sync CSV by deleting it and fetches its rows.   *)
(*                                                                         *)
(* An action is one call of a service with what the task does before its   *)
(* next.  Files stands for WARC files; the service is asked for no other.  *)
(***************************************************************************)
EXTENDS Naturals, Integers, Sequences, FiniteSets

CONSTANTS
    Files,         \* names of WARC files, each a name of one content
    Collections,   \* the collections of the account
    CollectionOf,  \* the collection of each file
    Expired,       \* files stored before the expiration policy's limit
    Undated,       \* files whose store_time is not a date by RFC 3339
    InitialRemote, \* what Archive-It lists at first
    Lost,          \* what it listed once, and an earlier inventory has
    Damaged,       \* files whose object in the bucket differs at first
    Syncs,         \* the sync tasks, the scheduled one and those by hand
    Scheduled,     \* the scheduled one
    PageSize,      \* files in a page of a listing
    None,          \* no such object in S3; no collection
    MaxEvents      \* bound: remote changes, failing calls, tasks that die,
                   \* and syncs started by hand, together

ASSUME ArchiveAssumption ==
    /\ IsFiniteSet(Files)
    /\ CollectionOf \in [Files -> Collections]
    /\ Expired \subseteq Files /\ Undated \subseteq Files \ Expired
    /\ Lost \subseteq Files /\ Damaged \subseteq Files
    /\ InitialRemote \in [Collections -> Seq(Files)]
    /\ \A c \in Collections : \A i, j \in DOMAIN InitialRemote[c] :
          /\ CollectionOf[InitialRemote[c][i]] = c
          /\ InitialRemote[c][i] = InitialRemote[c][j] => i = j
    /\ Scheduled \in Syncs
    /\ PageSize \in Nat \ {0}
    /\ None \notin [Files -> Nat]
    /\ MaxEvents \in Nat

VARIABLES
    remote,    \* Archive-It: the files of each collection in listed order
    store,     \* S3: what the archive bucket has under each file's name
    tagged,    \* S3: the objects that carry the expiration tag
    inventory, \* S3: the live inventory CSV, the copies of each file's row
    dated,     \* S3: the latest dated snapshot of it
    syncList,  \* S3: the live sync CSV, the files of its rows
    inv,       \* the inventory task
    audit,     \* the audit task
    sync,      \* the sync tasks
    events     \* remote changes, faults and syncs by hand so far

vars == <<remote, store, tagged, inventory, dated, syncList,
          inv, audit, sync, events>>

Elems(s) == {s[i] : i \in DOMAIN s}
FilesOf(c) == {f \in Files : CollectionOf[f] = c}
Remote == UNION {Elems(remote[c]) : c \in Collections}

\* The files that have a row in an inventory CSV.
Listed(csv) == IF csv = None THEN {} ELSE {f \in Files : csv[f] > 0}

NoInventory == [pc |-> "idle", rows |-> [f \in Files |-> 0], seen |-> {},
                todo |-> {}, coll |-> None, offset |-> 0, expected |-> 0,
                written |-> 0, warcs |-> 0, calm |-> TRUE]
NoAudit == [pc |-> "idle", rows |-> {}, todo |-> {}, list |-> {},
            errored |-> {}]
NoSync == [pc |-> "idle", todo |-> {}]

Init ==
    /\ remote = InitialRemote
    /\ store = [f \in Files |-> IF f \in Damaged THEN "differs" ELSE "absent"]
    /\ tagged = {}
    /\ inventory \in {None, [f \in Files |-> IF f \in Remote \union Lost THEN 1 ELSE 0]}
    /\ dated = inventory
    /\ syncList = None
    /\ inv = NoInventory
    /\ audit = NoAudit
    /\ sync = [s \in Syncs |-> NoSync]
    /\ events = 0

-----------------------------------------------------------------------------
\* What is bounded: see MaxEvents.
Spend ==
    /\ events < MaxEvents
    /\ events' = events + 1

(* Archive-It: crawls add files, at either end of a listing; some go.      *)

Appear(f) ==
    LET c == CollectionOf[f] IN
    /\ Spend
    /\ f \notin Remote
    /\ \/ remote' = [remote EXCEPT ![c] = Append(@, f)]
       \/ remote' = [remote EXCEPT ![c] = <<f>> \o @]
    /\ inv' = [inv EXCEPT !.calm = (inv.pc = "idle")]
    /\ UNCHANGED <<store, tagged, inventory, dated, syncList, audit, sync>>

Disappear(c, i) ==
    /\ Spend
    /\ remote' = [remote EXCEPT ![c] = SubSeq(@, 1, i - 1) \o SubSeq(@, i + 1, Len(@))]
    /\ inv' = [inv EXCEPT !.calm = (inv.pc = "idle")]
    /\ UNCHANGED <<store, tagged, inventory, dated, syncList, audit, sync>>

-----------------------------------------------------------------------------
(* The inventory task.                                                     *)

InventoryOnly == UNCHANGED <<remote, store, tagged, syncList, audit, sync>>

\* Mutant: nothing is remembered of the CSV the task resumes from.
SeenForgotten(csv) == {}

\* read_cache_state: the files of the CSV the task resumes from.
CacheState(csv) == Listed(csv)

StartInventory ==
    /\ inv.pc = "idle"
    /\ inv' = [NoInventory EXCEPT
                  !.pc = "listing",
                  !.rows = IF inventory = None THEN @ ELSE inventory,
                  !.seen = CacheState(inventory),
                  !.todo = Collections]
    /\ InventoryOnly
    /\ UNCHANGED <<inventory, dated, events>>

Cached(c) == Cardinality(inv.seen \intersect FilesOf(c))
Total(c) == Len(remote[c])

\* Mutants: also with more files cached than counted; with any file cached.
SkippedWhenMoreCached(c) == Total(c) > 0 /\ Cached(c) >= Total(c)
SkippedOnceCached(c) == Total(c) > 0 /\ Cached(c) > 0

\* The short-circuit: as many files are cached as the service counts.
FullyCached(c) == Total(c) > 0 /\ Cached(c) = Total(c)

\* Mutant: the difference does not stop at zero.
PlainDifference(c) == Total(c) - Cached(c)

\* saturating_sub: the rows the counts promise, past which paging stops.
ExpectedNew(c) == IF Cached(c) < Total(c) THEN Total(c) - Cached(c) ELSE 0

SkipCollection(c) ==
    /\ inv.pc = "listing" /\ c \in inv.todo
    /\ FullyCached(c)
    /\ inv' = [inv EXCEPT !.todo = @ \ {c}]
    /\ InventoryOnly
    /\ UNCHANGED <<inventory, dated, events>>

\* A page is read from the listing as it is now.  Files not seen before get a
\* row.  Paging ends with the last page, or as soon as it has written as many
\* rows as the counts told it to expect.
TakePage(c, offset, expected, before) ==
    LET page == {remote[c][i] : i \in DOMAIN remote[c] \intersect
                                      (offset + 1) .. (offset + PageSize)}
        new == page \ inv.seen
        written == before + Cardinality(new)
        last == offset + PageSize >= Len(remote[c])
        stop == last \/ (expected > 0 /\ written >= expected)
    IN
    /\ inv' = [inv EXCEPT
                  !.pc = IF stop THEN "listing" ELSE "paging",
                  !.rows = [f \in Files |-> IF f \in new THEN @[f] + 1 ELSE @[f]],
                  !.seen = @ \union new,
                  !.warcs = @ + Cardinality(new),
                  !.todo = IF stop THEN @ \ {c} ELSE @,
                  !.coll = IF stop THEN None ELSE c,
                  !.offset = IF stop THEN 0 ELSE offset + PageSize,
                  !.expected = IF stop THEN 0 ELSE expected,
                  !.written = IF stop THEN 0 ELSE written]
    /\ InventoryOnly
    /\ UNCHANGED <<inventory, dated, events>>

FirstPage(c) ==
    /\ inv.pc = "listing" /\ c \in inv.todo
    /\ ~FullyCached(c)
    /\ TakePage(c, 0, ExpectedNew(c), 0)

NextPage ==
    /\ inv.pc = "paging"
    /\ TakePage(inv.coll, inv.offset, inv.expected, inv.written)

InventoryBuilt == inv.pc = "listing" /\ inv.todo = {}

\* Nothing is uploaded when no row is new.
NothingNew ==
    /\ InventoryBuilt /\ inv.warcs = 0
    /\ inv' = NoInventory
    /\ InventoryOnly
    /\ UNCHANGED <<inventory, dated, events>>

\* Mutant: the two uploads in the other order.
LiveInventoryFirst ==
    /\ InventoryBuilt /\ inv.warcs > 0
    /\ inventory' = inv.rows
    /\ inv' = [inv EXCEPT !.pc = "publish"]
    /\ InventoryOnly
    /\ UNCHANGED <<dated, events>>

\* The dated snapshot is uploaded before the live CSV.
SnapshotInventory ==
    /\ InventoryBuilt /\ inv.warcs > 0
    /\ dated' = inv.rows
    /\ inv' = [inv EXCEPT !.pc = "publish"]
    /\ InventoryOnly
    /\ UNCHANGED <<inventory, events>>

PublishInventory ==
    /\ inv.pc = "publish"
    /\ inventory' = inv.rows
    /\ inv' = NoInventory
    /\ InventoryOnly
    /\ UNCHANGED <<dated, events>>

\* Any call fails, or the task dies: the local file is lost with it.
InventoryFails ==
    /\ inv.pc # "idle"
    /\ Spend
    /\ inv' = NoInventory
    /\ InventoryOnly
    /\ UNCHANGED <<inventory, dated>>

-----------------------------------------------------------------------------
(* The audit task.                                                         *)

AuditOnly == UNCHANGED <<remote, store, inventory, dated, inv, sync>>

\* A row without a readable date is skipped before its object is looked at.
Dated(csv) == Listed(csv) \ Undated

StartAudit ==
    /\ audit.pc = "idle"
    /\ inventory # None
    /\ audit' = [NoAudit EXCEPT !.pc = "heading", !.rows = Listed(inventory),
                                !.todo = Dated(inventory)]
    /\ AuditOnly
    /\ UNCHANGED <<tagged, syncList, events>>

\* Mutant: an object that differs is taken for the file.
OnlyMissing(f) == f \notin Expired /\ store[f] = "absent"

\* audit_row: an expired file is never fetched; any other one is, unless the
\* object under its name has its sha1, or without a sha1 its size.
NeedsSync(f) == f \notin Expired /\ store[f] # "matches"

\* tag_expired: whatever object is under an expired file's name is tagged.
Retagged(f) ==
    IF f \in Expired /\ store[f] # "absent" THEN tagged \union {f} ELSE tagged

AuditRow(f) ==
    /\ audit.pc = "heading" /\ f \in audit.todo
    /\ audit' = [audit EXCEPT !.todo = @ \ {f},
                              !.list = IF NeedsSync(f) THEN @ \union {f} ELSE @]
    /\ tagged' = Retagged(f)
    /\ AuditOnly
    /\ UNCHANGED <<syncList, events>>

\* HEAD fails, or tagging does: the row is counted and left out.
AuditRowErrs(f) ==
    /\ audit.pc = "heading" /\ f \in audit.todo
    /\ Spend
    /\ audit' = [audit EXCEPT !.todo = @ \ {f}, !.errored = @ \union {f}]
    /\ AuditOnly
    /\ UNCHANGED <<tagged, syncList>>

AuditBuilt == audit.pc = "heading" /\ audit.todo = {}

\* The dated snapshot of the sync CSV goes first, and nothing reads it.
PublishAudit ==
    /\ AuditBuilt
    /\ syncList' = audit.list
    /\ audit' = NoAudit
    /\ AuditOnly
    /\ UNCHANGED <<tagged, events>>

AuditFails ==
    /\ audit.pc # "idle"
    /\ Spend
    /\ audit' = NoAudit
    /\ AuditOnly
    /\ UNCHANGED <<tagged, syncList>>

-----------------------------------------------------------------------------
(* The sync tasks.                                                         *)

SyncOnly == UNCHANGED <<remote, tagged, inventory, dated, inv, audit>>

FindList(s) ==
    /\ sync[s].pc = "idle"
    /\ syncList # None
    /\ IF s = Scheduled THEN UNCHANGED events ELSE Spend
    /\ sync' = [sync EXCEPT ![s].pc = "found"]
    /\ SyncOnly
    /\ UNCHANGED <<store, syncList>>

\* Another sync may have claimed the list since it was found: then this fails.
DownloadList(s) ==
    /\ sync[s].pc = "found"
    /\ sync' = [sync EXCEPT ![s] = IF syncList = None THEN NoSync
                                   ELSE [pc |-> "held", todo |-> syncList]]
    /\ SyncOnly
    /\ UNCHANGED <<store, syncList, events>>

\* The live sync CSV is deleted, whichever it is by now.
ClaimList(s) ==
    /\ sync[s].pc = "held"
    /\ sync' = [sync EXCEPT ![s].pc = "syncing"]
    /\ syncList' = None
    /\ SyncOnly
    /\ UNCHANGED <<store, events>>

\* sync_one_row: fetched, or there already, or gone from Archive-It.
SyncRow(s, f) ==
    /\ sync[s].pc = "syncing" /\ f \in sync[s].todo
    /\ store' = IF f \in Remote THEN [store EXCEPT ![f] = "matches"] ELSE store
    /\ sync' = [sync EXCEPT ![s].todo = @ \ {f}]
    /\ SyncOnly
    /\ UNCHANGED <<syncList, events>>

SyncRowFails(s, f) ==
    /\ sync[s].pc = "syncing" /\ f \in sync[s].todo
    /\ Spend
    /\ sync' = [sync EXCEPT ![s].todo = @ \ {f}]
    /\ SyncOnly
    /\ UNCHANGED <<store, syncList>>

FinishSync(s) ==
    /\ sync[s].pc = "syncing" /\ sync[s].todo = {}
    /\ sync' = [sync EXCEPT ![s] = NoSync]
    /\ SyncOnly
    /\ UNCHANGED <<store, syncList, events>>

SyncFails(s) ==
    /\ sync[s].pc # "idle"
    /\ Spend
    /\ sync' = [sync EXCEPT ![s] = NoSync]
    /\ SyncOnly
    /\ UNCHANGED <<store, syncList>>

-----------------------------------------------------------------------------
InventoryStep ==
    \/ StartInventory
    \/ \E c \in Collections : SkipCollection(c)
    \/ \E c \in Collections : FirstPage(c)
    \/ NextPage
    \/ NothingNew
    \/ SnapshotInventory
    \/ PublishInventory

AuditStep ==
    \/ StartAudit
    \/ \E f \in Files : AuditRow(f)
    \/ PublishAudit

SyncStep(s) ==
    \/ FindList(s)
    \/ DownloadList(s)
    \/ ClaimList(s)
    \/ \E f \in Files : SyncRow(s, f)
    \/ FinishSync(s)

Faulty ==
    \/ InventoryFails
    \/ \E f \in Files : AuditRowErrs(f)
    \/ AuditFails
    \/ \E s \in Syncs, f \in Files : SyncRowFails(s, f)
    \/ \E s \in Syncs : SyncFails(s)

Next ==
    \/ \E f \in Files : Appear(f)
    \/ \E c \in Collections : \E i \in DOMAIN remote[c] : Disappear(c, i)
    \/ InventoryStep
    \/ AuditStep
    \/ \E s \in Syncs : SyncStep(s)
    \/ Faulty

Spec == Init /\ [][Next]_vars

\* The schedule starts each task every day, and a task goes on until it ends.
FairSpec ==
    /\ Spec
    /\ WF_vars(InventoryStep)
    /\ WF_vars(AuditStep)
    /\ WF_vars(SyncStep(Scheduled))

-----------------------------------------------------------------------------
InventoryTasks ==
    [pc : {"idle", "listing", "paging", "publish"}, rows : [Files -> Nat],
     seen : SUBSET Files, todo : SUBSET Collections,
     coll : Collections \union {None}, offset : Nat, expected : Nat,
     written : Nat, warcs : Nat, calm : BOOLEAN]
AuditTasks ==
    [pc : {"idle", "heading"}, rows : SUBSET Files, todo : SUBSET Files,
     list : SUBSET Files, errored : SUBSET Files]
SyncTasks == [pc : {"idle", "found", "held", "syncing"}, todo : SUBSET Files]

(* Type correctness of the tasks and of what they keep in S3.              *)
TypeOK ==
    /\ remote \in [Collections -> Seq(Files)]
    /\ store \in [Files -> {"absent", "differs", "matches"}]
    /\ tagged \subseteq Files
    /\ inventory = None \/ inventory \in [Files -> Nat]
    /\ dated = None \/ dated \in [Files -> Nat]
    /\ syncList = None \/ syncList \subseteq Files
    /\ inv \in InventoryTasks
    /\ audit \in AuditTasks
    /\ sync \in [Syncs -> SyncTasks]
    /\ events \in 0 .. MaxEvents

(* No file has two rows in an inventory CSV, however often runs resumed,   *)
(* failed and paged through listings that moved under them.                *)
NoRowIsRepeated ==
    \A csv \in {inventory, dated, inv.rows} \ {None} :
        \A f \in Files : csv[f] <= 1

(* Every row of the live inventory is in the latest dated snapshot, the    *)
(* permanent record: a run that fails between its two uploads leaves the   *)
(* live one behind, never ahead.                                           *)
RecordedBeforeLive ==
    Listed(inventory) \subseteq Listed(dated)

(* What a collection lost and gained since the inventory the run resumed   *)
(* from, in a run during which nothing changes remotely.                   *)
Gone(c) == (Listed(inventory) \intersect FilesOf(c)) \ Elems(remote[c])
Missing(c) == Elems(remote[c]) \ Listed(inventory)

(* A run during which nothing changes remotely has every file of a         *)
(* collection, if none of its cached files is gone, or more are gone than  *)
(* new ones came.  (When as many or more came than went, the counts hide   *)
(* new files: the collection is skipped, or paging stops early.)           *)
UndisturbedInventoriesAreComplete ==
    (InventoryBuilt /\ inv.calm) =>
        \A c \in Collections :
            \/ Gone(c) # {} /\ Cardinality(Missing(c)) >= Cardinality(Gone(c))
            \/ Elems(remote[c]) \subseteq Listed(inv.rows)

(* A finished audit leaves out an inventory row only if the file expired,  *)
(* nobody can say whether it did, its HEAD failed, or the object is right, *)
(* also when syncs fetched files while it ran; it never asks for a file    *)
(* that expired or may have.                                               *)
AuditsMissNothing ==
    AuditBuilt =>
        /\ audit.list \intersect (Expired \union Undated) = {}
        /\ \A f \in audit.rows \
                   (audit.list \union Expired \union Undated \union audit.errored) :
              store[f] = "matches"

(* A file that stays at Archive-It, in a collection that lost none of its  *)
(* inventoried files, has a date and does not expire, is backed up in the  *)
(* end, past failed runs, failed HEADs and a sync list claimed and lost.   *)
BackupsCatchUp ==
    \A f \in Files \ (Expired \union Undated) :
        <>[](f \in Remote /\ Gone(CollectionOf[f]) = {})
            => <>[](store[f] = "matches")
=============================================================================
