-------------------------- MODULE ChecksumRequests --------------------------
(***************************************************************************)
(* checksum-request: a user uploads checksums/{bucket}.txt to the request  *)
(* bucket; an invocation per delivered event reads the bucket's latest     *)
(* inventory report, asks S3 for the checksum of every object it lists,    *)
(* uploads the list, and deletes the trigger file.  The trigger may be     *)
(* uploaded again at any time, and inventory-report writes meanwhile.      *)
(***************************************************************************)
EXTENDS InventoryReports

CONSTANTS
    RequestEvents, \* deliveries of uploads, as <<bucket, upload, number>>
    Unsummed       \* the objects S3 keeps without a checksum

ASSUME RequestAssumption ==
    /\ RequestEvents \subseteq Buckets \X (Nat \ {0}) \X (Nat \ {0})
    /\ \A c \in RequestEvents : <<c[1], c[2], 1>> \in RequestEvents
    /\ Unsummed \subseteq Objects

RequestCalls == RequestEvents \cup CliRuns

VARIABLES
    asked,     \* how often the trigger file of a bucket was uploaded
    trigger,   \* the buckets whose trigger file is there
    feedback,  \* the buckets with a feedback file
    answered,  \* history: the uploads a finished attempt had before it
    answers,   \* reports/{date}/checksums/{bucket}_checksum-inventory.csv
    rpc,       \* the next call of each invocation, or how it ended
    rfailures, \* the failed attempts of each invocation
    began,     \* the number of uploads when the attempt began
    source,    \* the inventory whose CSV an invocation has downloaded
    rows,      \* the rows an invocation has so far, as <<object, status>>
    rtarget    \* the date in the key an invocation is writing to

requestStores == <<asked, trigger, feedback, answered, answers>>
requestCalls == <<rpc, rfailures, began, source, rows, rtarget>>
requestVars == <<requestStores, requestCalls>>

-----------------------------------------------------------------------------
(* function_handler and perform *)

RGoto(c, l) == rpc' = [rpc EXCEPT ![c] = l]

RReturnErr(c) ==
    /\ rfailures' = [rfailures EXCEPT ![c] = @ + 1]
    /\ RGoto(c, IF c \in RequestEvents /\ rfailures[c] + 1 < MaxAttempts
                THEN "look" ELSE "dropped")
    /\ source' = [source EXCEPT ![c] = None]
    /\ rows' = [rows EXCEPT ![c] = {}]
    /\ rtarget' = [rtarget EXCEPT ![c] = LATEST]

\* A user uploads the trigger file, or puts it over one that is still there.
UploadTrigger(b) ==
    /\ <<b, asked[b] + 1, 1>> \in RequestEvents
    /\ Begin
    /\ asked' = [asked EXCEPT ![b] = @ + 1]
    /\ trigger' = trigger \cup {b}
    /\ UNCHANGED <<faults, feedback, answered, answers, requestCalls>>

\* The event of an upload reaches a function, or the CLI is called.
StartRequest(c) ==
    /\ rpc[c] = "idle"
    /\ c \in RequestEvents => c[2] <= asked[c[1]]
    /\ IF c \in RequestEvents /\ c[3] = 1 THEN UNCHANGED starts ELSE Begin
    /\ RGoto(c, "look")
    /\ UNCHANGED <<faults, requestStores, rfailures, began, source, rows, rtarget>>

\* Without an inventory report the attempt fails; only the logs say so.
LookForReport(c) ==
    /\ rpc[c] = "look"
    /\ \/ /\ csv[c[1]][LATEST] # None
          /\ RGoto(c, "download")
          /\ UNCHANGED <<rfailures, source, rows, rtarget>>
       \/ csv[c[1]][LATEST] = None /\ RReturnErr(c)
    /\ began' = [began EXCEPT ![c] = asked[c[1]]]
    /\ UNCHANGED <<boundVars, requestStores>>

\* perform looks again and downloads whichever report is under LATEST by now:
\* one step, since a LATEST key is replaced but not deleted (the expiry after
\* 90 days does not reach a key that is written every day).
DownloadReport(c) ==
    /\ rpc[c] = "download"
    /\ source' = [source EXCEPT ![c] = csv[c[1]][LATEST]]
    /\ RGoto(c, "rows")
    /\ UNCHANGED <<boundVars, requestStores, rfailures, began, rows, rtarget>>

\* The keys of the CSV without a row so far.
Unread(c) == RowsOf(listing[source[c]]) \ {x[1] : x \in rows[c]}

\* Mutant: a HEAD that fails in any way stands for an object that is not there.
StatusesByFailure(b, o, fails) ==
    IF fails \/ <<b, o>> \in gone THEN {"not_found"}
    ELSE IF o \in Unsummed THEN {"missing_checksum"} ELSE {"ok"}

\* What a row may say of the object it is about; a failing HEAD is a row, too.
\* The function may not list the source buckets, and without that permission
\* S3 is free to refuse a HEAD of an object that is gone, like any failure.
StatusesOf(b, o, fails) ==
    CASE fails -> {"error"}
      [] ~fails /\ <<b, o>> \in gone -> {"not_found", "error"}
      [] ~fails /\ <<b, o>> \notin gone /\ o \in Unsummed -> {"missing_checksum"}
      [] OTHER -> {"ok"}

\* The HEADs are in flight side by side, so rows come in any order.
HeadRow(c, o) ==
    /\ rpc[c] = "rows"
    /\ o \in Unread(c)
    /\ \E fails \in BOOLEAN, t \in {"ok", "missing_checksum", "not_found", "error"} :
          /\ IF fails THEN Fault ELSE UNCHANGED faults
          /\ t \in StatusesOf(c[1], o, fails)
          /\ rows' = [rows EXCEPT ![c] = @ \cup {<<o, t>>}]
    /\ UNCHANGED <<starts, requestStores, rpc, rfailures, began, source, rtarget>>

\* The list is complete, and is put under the date of that moment.
PutAnswer(c) ==
    /\ rpc[c] = "rows"
    /\ Unread(c) = {}
    /\ rtarget' = [rtarget EXCEPT ![c] = day]
    /\ answers' = [answers EXCEPT ![c[1]][day] =
                      [of |-> source[c], rows |-> rows[c]]]
    /\ RGoto(c, "copy")
    /\ UNCHANGED <<boundVars, asked, trigger, feedback, answered, rfailures,
                   began, source, rows>>

CopyAnswer(c) ==
    /\ rpc[c] = "copy"
    /\ answers' = [answers EXCEPT ![c[1]][LATEST] = answers[c[1]][rtarget[c]]]
    /\ answered' = [answered EXCEPT ![c[1]] = IF began[c] > @ THEN began[c] ELSE @]
    /\ RGoto(c, IF c \in RequestEvents THEN "delete" ELSE "ok")
    /\ source' = [source EXCEPT ![c] = None]
    /\ rows' = [rows EXCEPT ![c] = {}]
    /\ rtarget' = [rtarget EXCEPT ![c] = LATEST]
    /\ UNCHANGED <<boundVars, asked, trigger, feedback, rfailures, began>>

\* A trigger file that cannot be deleted is a warning; the answer is Ok.
DeleteTrigger(c) ==
    /\ rpc[c] = "delete"
    /\ \/ trigger' = trigger \ {c[1]} /\ UNCHANGED faults
       \/ Fault /\ UNCHANGED trigger
    /\ RGoto(c, "ok")
    /\ UNCHANGED <<starts, asked, feedback, answered, answers, rfailures, began,
                   source, rows, rtarget>>

Performing == {"download", "rows", "copy"}

\* Mutant: the trigger file of a request that failed is deleted all the same.
FailAndDelete(c) ==
    /\ rpc[c] \in {"look", "delete"} \cup Performing
    /\ Fault
    /\ IF rpc[c] \in Performing
       THEN RGoto(c, "delete") /\ UNCHANGED <<rfailures, source, rows, rtarget>>
       ELSE RReturnErr(c)
    /\ UNCHANGED <<starts, requestStores, began>>

\* A call fails or the process dies.  An error of perform gets a feedback
\* file if the process lives to write it; the CLI prints it.
RequestFails(c) ==
    /\ rpc[c] \in {"look", "delete"} \cup Performing
    /\ Fault
    /\ \/ RReturnErr(c)
       \/ /\ c \in RequestEvents /\ rpc[c] \in Performing
          /\ RGoto(c, "feedback")
          /\ UNCHANGED <<rfailures, source, rows, rtarget>>
    /\ UNCHANGED <<starts, requestStores, began>>

\* put_feedback swallows its own failure, which is RequestFails' first case.
PutRequestFeedback(c) ==
    /\ rpc[c] = "feedback"
    /\ feedback' = feedback \cup {c[1]}
    /\ RReturnErr(c)
    /\ UNCHANGED <<boundVars, asked, trigger, answered, answers, began>>

-----------------------------------------------------------------------------
(* The specification, beside inventory-report *)

RequestInit ==
    /\ asked = [b \in Buckets |-> 0]
    /\ trigger = {}
    /\ feedback = {}
    /\ answered = [b \in Buckets |-> 0]
    /\ answers = [b \in Buckets |-> [s \in Slots |-> None]]
    /\ rpc = [c \in RequestCalls |-> "idle"]
    /\ rfailures = [c \in RequestCalls |-> 0]
    /\ began = [c \in RequestCalls |-> 0]
    /\ source = [c \in RequestCalls |-> None]
    /\ rows = [c \in RequestCalls |-> {}]
    /\ rtarget = [c \in RequestCalls |-> LATEST]

RequestStep(c) ==
    \/ StartRequest(c)
    \/ LookForReport(c)
    \/ DownloadReport(c)
    \/ \E o \in Objects : HeadRow(c, o)
    \/ PutAnswer(c)
    \/ CopyAnswer(c)
    \/ DeleteTrigger(c)
    \/ RequestFails(c)
    \/ PutRequestFeedback(c)

RequestNext ==
    /\ \/ \E b \in Buckets : UploadTrigger(b)
       \/ \E c \in RequestCalls : RequestStep(c)
    /\ UNCHANGED <<day, s3Vars, callVars, storeVars, raised, history>>

-----------------------------------------------------------------------------
(* Properties *)

RequestTypeOK ==
    /\ \A b \in Buckets : asked[b] = 0 \/ <<b, asked[b], 1>> \in RequestEvents
    /\ trigger \subseteq Buckets /\ feedback \subseteq Buckets
    /\ \A b \in Buckets : answered[b] \in 0..asked[b]
    /\ rpc \in [RequestCalls -> {"idle", "look", "delete", "feedback", "ok",
                                 "dropped"} \cup Performing]
    /\ rfailures \in [RequestCalls -> 0..MaxAttempts]
    /\ \A c \in RequestCalls : began[c] \in 0..asked[c[1]]
    /\ source \in [RequestCalls -> made \cup {None}]
    /\ rtarget \in [RequestCalls -> Slots]

RequestAtRest(b) ==
    \A c \in {x \in RequestCalls : x[1] = b} :
        /\ rpc[c] \in {"idle", "ok", "dropped"}
        /\ c[2] \in 1..asked[b] /\ c[3] = 1 => rpc[c] # "idle"

\* No request is lost while fewer calls fail than Lambda makes attempts: when
\* nothing is left to do for a bucket, its trigger file is still there, or a
\* checksum inventory was made from beginning to end after the last upload,
\* although an earlier attempt may delete the file of a later upload.
ChecksumRequestsAreAnswered ==
    \A b \in Buckets :
        RequestAtRest(b) /\ faults < MaxAttempts =>
            b \in trigger \/ answered[b] = asked[b]

\* Every checksum inventory that was published has one row for each object of
\* the inventory it was made from, and the row does not accuse the object: it
\* is reported as not found only if it was deleted, as in error only if it was
\* deleted or a call failed (docs/src/user/reports.md, "Checksum inventory").
ChecksumInventoriesAreTrue ==
    \A b \in Buckets, s \in Slots :
        answers[b][s] # None =>
            LET a == answers[b][s] IN
            /\ {x[1] : x \in a.rows} = RowsOf(listing[a.of])
            /\ Cardinality(a.rows) = Cardinality(RowsOf(listing[a.of]))
            /\ \A x \in a.rows :
                  /\ x[2] = "not_found" => <<b, x[1]>> \in gone
                  /\ x[2] = "missing_checksum" => x[1] \in Unsummed
                  /\ x[2] = "error" => faults > 0 \/ <<b, x[1]>> \in gone
=============================================================================
