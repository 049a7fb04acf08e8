--------------------------- MODULE BucketRequest ---------------------------
(***************************************************************************)
(* Bucket creation: a user uploads a file of names to the request bucket;  *)
(* one Lambda invocation per delivered event reads and reviews it, makes a *)
(* bucket pair for every name, deletes the file and asks for a user sync.  *)
(* The CLI uploads and processes a file of its own, once, in its process.  *)
(*                                                                         *)
(* One action is one call of S3 with the local code that follows it, so    *)
(* the invocations interleave at every await.                              *)
(***************************************************************************)
EXTENDS Naturals, Sequences

CONSTANTS
    Requests,      \* request files, each uploaded at most once
    CliRequests,   \* those the `bucket-request` CLI uploads and processes
    Unreadable,    \* files of the wrong content type, or too large
    Names,         \* canonical (lower-case) bucket names without the stack
    PublicNames,   \* those with the -public suffix
    Lines,         \* the lines a request file may hold
    LinesOf,       \* the lines of each request file
    Canonical,     \* the name a line stands for, or Rejected
    Rejected,      \* what review_request_names makes of an invalid line
    Existing,      \* the names whose pair was there before
    MaxNames,      \* MAX_BUCKETS_PER_REQUEST
    Deliveries,    \* numbers of the deliveries of one event (at least once)
    MaxAttempts,   \* attempts of an asynchronous Lambda invocation
    MaxFaults      \* bound: failing AWS calls, timeouts and crashes

ASSUME RequestAssumption ==
    /\ CliRequests \subseteq Requests
    /\ LinesOf \in [Requests -> Seq(Lines)]
    /\ Canonical \in [Lines -> Names \cup {Rejected}]
    /\ Rejected \notin Names
    /\ {"file", "line"} \cap Names = {}
    /\ Existing \subseteq Names
    /\ MaxNames \in Nat /\ MaxFaults \in Nat
    /\ MaxAttempts \in Nat \ {0}

Sides == {"primary", "replica"}
FaultKinds == {"refused", "lost", "crash"}
Buckets == Names \X Sides
Invocations == ((Requests \ CliRequests) \X Deliveries) \cup (CliRequests \X {1})

VARIABLES
    files,     \* the request files that are in S3
    uploaded,  \* the requests that have been made
    exists,    \* the buckets of the stack
    applied,   \* the configurations each bucket carries
    policy,    \* the bucket policy of each bucket
    content,   \* what users have put into each bucket
    feedback,  \* what feedback/{request file} reports: nothing, or issues
    triggers,  \* the requests that have asked for a user sync
    pc,        \* the next call of each invocation, or how it ended
    failures,  \* the failed attempts of each invocation
    pos,       \* the position in the request of the pair being made
    step,      \* the position in the pair's plan of the next call
    undo,      \* the buckets an invocation still has to roll back
    issues,    \* the issues an attempt has met so far
    faults     \* how many calls were refused or lost, and how many crashes

s3Vars == <<exists, applied, policy>>
callVars == <<pc, failures, pos, step, undo, issues>>
vars == <<files, uploaded, s3Vars, content, feedback, triggers, callVars,
          faults>>

-----------------------------------------------------------------------------
(* The names of a request, and the calls that make one pair of buckets *)

\* parse_request_names: the lines beyond the limit are dropped silently.
LinesRead(r) == SubSeq(LinesOf[r], 1, IF Len(LinesOf[r]) < MaxNames
                                      THEN Len(LinesOf[r]) ELSE MaxNames)

\* review_request_names: one bad line and the whole request is refused.
Reviewed(r) == [k \in 1..Len(LinesRead(r)) |-> Canonical[LinesRead(r)[k]]]
Valid(r) == \A k \in 1..Len(Reviewed(r)) : Reviewed(r)[k] \in Names
Requested(r) == {Reviewed(r)[k] : k \in 1..Len(Reviewed(r))}

On(side, calls) == [k \in 1..Len(calls) |-> <<side, calls[k]>>]

SetupStandard == <<"deny_uploads", "versioning", "lifecycle", "notifications",
                   "logging", "inventory", "remove_policy">>
SetupPublic == SetupStandard \o <<"public_access", "public_policy">>
SetupReplication == <<"versioning", "lifecycle">>
Setup(n) == IF n \in PublicNames THEN SetupPublic ELSE SetupStandard

\* create_pair: the primary bucket, its replication bucket, then replication.
Plan(n) == On("primary", <<"create">> \o Setup(n))
           \o On("replica", <<"create">> \o SetupReplication)
           \o On("primary", <<"replication">>)

\* Mutant: create rolls back when the bucket could not be created, too.
RollbackAlways(side, call) ==
    IF side = "primary" THEN <<"primary">> ELSE <<"replica", "primary">>

\* Mutant: the primary bucket survives a replication bucket that was not created.
RollbackNoPrimary(side, call) ==
    CASE call = "create" -> <<>>
      [] side = "replica" -> <<"replica", "primary">>
      [] call = "replication" -> <<"primary", "replica">>
      [] OTHER -> <<"primary">>

\* What a failing call makes create and create_pair roll back, in order.
RollbackOf(side, call) ==
    CASE side = "primary" /\ call = "create" -> <<>>
      [] side = "replica" /\ call = "create" -> <<"primary">>
      [] side = "replica" /\ call # "create" -> <<"replica", "primary">>
      [] side = "primary" /\ call = "replication" -> <<"primary", "replica">>
      [] OTHER -> <<"primary">>

Policies == {"none", "deny", "public"}
PolicyCalls == {"deny_uploads", "remove_policy", "public_policy"}

\* Configurations of every bucket, of a primary one, and of those that are
\* public or are replicated.
EveryBucket == {"versioning", "lifecycle"}
StandardBucket == {"notifications", "logging", "inventory"}
Configurations == EveryBucket \cup StandardBucket \cup {"public_access", "replication"}

\* The configurations a bucket of a finished pair carries.
Expected(n, side) ==
    IF side = "replica" THEN EveryBucket
    ELSE IF n \in PublicNames THEN Configurations
    ELSE Configurations \ {"public_access"}

Complete(n, side) ==
    /\ <<n, side>> \in exists
    /\ applied[<<n, side>>] = Expected(n, side)
    /\ policy[<<n, side>>] = IF side = "primary" /\ n \in PublicNames
                             THEN "public" ELSE "none"

Whole(n) == \A s \in Sides : Complete(n, s)
Absent(n) == \A s \in Sides : <<n, s>> \notin exists

Init ==
    /\ files = {}
    /\ uploaded = {}
    /\ exists = Existing \X Sides
    /\ applied = [b \in Buckets |->
                     IF b[1] \in Existing THEN Expected(b[1], b[2]) ELSE {}]
    /\ policy = [b \in Buckets |->
                    IF b[1] \in Existing \cap PublicNames /\ b[2] = "primary"
                    THEN "public" ELSE "none"]
    /\ content = [b \in Buckets |-> "empty"]
    /\ feedback = [r \in Requests |-> {}]
    /\ triggers = {}
    /\ pc = [i \in Invocations |-> "idle"]
    /\ failures = [i \in Invocations |-> 0]
    /\ pos = [i \in Invocations |-> 1]
    /\ step = [i \in Invocations |-> 1]
    /\ undo = [i \in Invocations |-> <<>>]
    /\ issues = [i \in Invocations |-> {}]
    /\ faults = [k \in FaultKinds |-> 0]

-----------------------------------------------------------------------------
(* Invocations *)

Faults == faults["refused"] + faults["lost"] + faults["crash"]

Fault(kind) ==
    /\ Faults < MaxFaults
    /\ faults' = [faults EXCEPT ![kind] = @ + 1]

Attempts(i) == IF i[1] \in CliRequests THEN 1 ELSE MaxAttempts

\* The attempt fails: Lambda retries an asynchronous event, the CLI does not.
ReturnErr(i) ==
    /\ failures' = [failures EXCEPT ![i] = @ + 1]
    /\ pc' = [pc EXCEPT ![i] =
                 IF failures[i] + 1 < Attempts(i) THEN "read" ELSE "dropped"]
    /\ pos' = [pos EXCEPT ![i] = 1]
    /\ step' = [step EXCEPT ![i] = 1]
    /\ undo' = [undo EXCEPT ![i] = <<>>]
    /\ issues' = [issues EXCEPT ![i] = {}]

\* Mutant: a request that cannot be read or reviewed fails without feedback.
RefuseSilently(i, issue) == ReturnErr(i)

\* The message goes to the feedback file, and the attempt fails after that.
RefuseRequest(i, issue) ==
    /\ issues' = [issues EXCEPT ![i] = {issue}]
    /\ pc' = [pc EXCEPT ![i] = "feedback"]
    /\ UNCHANGED <<failures, pos, step, undo>>

\* Mutant: the end of the request is noticed one pair too late.
NextPairTooFar(i, found) ==
    LET last == pos[i] > Len(Reviewed(i[1])) IN
    /\ issues' = [issues EXCEPT ![i] = found]
    /\ pos' = [pos EXCEPT ![i] = IF last THEN @ ELSE @ + 1]
    /\ step' = [step EXCEPT ![i] = 1]
    /\ pc' = [pc EXCEPT ![i] = IF ~last THEN "create"
                               ELSE IF found = {} THEN "delete" ELSE "feedback"]

\* Mutant: the issues of a pair are forgotten when the next pair begins.
NextPairForgets(i, found) ==
    LET last == pos[i] = Len(Reviewed(i[1])) IN
    /\ issues' = [issues EXCEPT ![i] = IF last THEN found ELSE {}]
    /\ pos' = [pos EXCEPT ![i] = IF last THEN @ ELSE @ + 1]
    /\ step' = [step EXCEPT ![i] = 1]
    /\ pc' = [pc EXCEPT ![i] = IF ~last THEN "create"
                               ELSE IF found = {} THEN "delete" ELSE "feedback"]

\* create_pairs goes to the next pair, with `found` as its issues so far.
NextPair(i, found) ==
    LET last == pos[i] = Len(Reviewed(i[1])) IN
    /\ issues' = [issues EXCEPT ![i] = found]
    /\ pos' = [pos EXCEPT ![i] = IF last THEN @ ELSE @ + 1]
    /\ step' = [step EXCEPT ![i] = 1]
    /\ pc' = [pc EXCEPT ![i] = IF ~last THEN "create"
                               ELSE IF found = {} THEN "delete" ELSE "feedback"]

UploadRequest(r) ==
    /\ r \notin uploaded
    /\ uploaded' = uploaded \cup {r}
    /\ files' = files \cup {r}
    /\ UNCHANGED <<s3Vars, content, feedback, triggers, callVars, faults>>

\* The event of the upload reaches a function, or the CLI goes on.
Deliver(i) ==
    /\ pc[i] = "idle"
    /\ i[1] \in uploaded
    /\ pc' = [pc EXCEPT ![i] = "read"]
    /\ UNCHANGED <<files, uploaded, s3Vars, content, feedback, triggers,
                   failures, pos, step, undo, issues, faults>>

\* read_request_names and review_request_names.
ReadRequest(i) ==
    /\ pc[i] = "read"
    /\ \/ /\ i[1] \in files \ Unreadable
          /\ \/ /\ ~Valid(i[1])
                /\ RefuseRequest(i, "line")
             \/ /\ Valid(i[1])
                /\ pc' = [pc EXCEPT ![i] =
                             IF Reviewed(i[1]) = <<>> THEN "delete" ELSE "create"]
                /\ UNCHANGED <<failures, pos, step, undo, issues>>
          /\ UNCHANGED faults
       \/ /\ i[1] \notin files \ Unreadable
          /\ RefuseRequest(i, "file")
          /\ UNCHANGED faults
       \/ Fault("refused") /\ RefuseRequest(i, "file")
    /\ UNCHANGED <<files, uploaded, s3Vars, content, feedback, triggers>>

NameOf(i) == Reviewed(i[1])[pos[i]]
CallOf(i) == Plan(NameOf(i))[step[i]][2]
BucketOf(i) == <<NameOf(i), Plan(NameOf(i))[step[i]][1]>>

\* What S3 asks of a call: a name that is free, a bucket that exists; the two
\* versioned buckets for replication; a bucket that may have a public policy.
Accepted(call, b) ==
    CASE call = "create" -> b \notin exists
      [] call = "replication" ->
            \A s \in Sides : /\ <<b[1], s>> \in exists
                             /\ "versioning" \in applied[<<b[1], s>>]
      [] call = "public_policy" -> b \in exists /\ "public_access" \in applied[b]
      [] OTHER -> b \in exists

PolicyAfter(call, before) ==
    CASE call = "deny_uploads" -> "deny"
      [] call = "remove_policy" -> "none"
      [] call = "public_policy" -> "public"
      [] OTHER -> before

Landed(call, b) ==
    /\ exists' = IF call = "create" THEN exists \cup {b} ELSE exists
    /\ applied' = [applied EXCEPT ![b] =
                      @ \cup ({call} \cap Configurations)]
    /\ policy' = [policy EXCEPT ![b] = PolicyAfter(call, @)]

\* The call returns Ok: the next one of the pair, or the next pair.
MakeCall(i) ==
    /\ pc[i] = "create"
    /\ Accepted(CallOf(i), BucketOf(i))
    /\ Landed(CallOf(i), BucketOf(i))
    /\ \/ /\ step[i] < Len(Plan(NameOf(i)))
          /\ step' = [step EXCEPT ![i] = @ + 1]
          /\ UNCHANGED <<pc, pos, issues>>
       \/ /\ step[i] = Len(Plan(NameOf(i)))
          /\ NextPair(i, issues[i])
    /\ UNCHANGED <<files, uploaded, content, feedback, triggers, failures,
                   undo, faults>>

\* The call returns Err: it was refused, or its answer was lost.
FailCall(i) ==
    LET rollback == RollbackOf(Plan(NameOf(i))[step[i]][1], CallOf(i)) IN
    /\ pc[i] = "create"
    /\ \/ /\ ~Accepted(CallOf(i), BucketOf(i))
          /\ UNCHANGED <<s3Vars, faults>>
       \/ Fault("refused") /\ UNCHANGED s3Vars
       \/ /\ Accepted(CallOf(i), BucketOf(i))
          /\ Fault("lost")
          /\ Landed(CallOf(i), BucketOf(i))
    /\ \/ /\ rollback = <<>>
          /\ NextPair(i, issues[i] \cup {NameOf(i)})
          /\ UNCHANGED undo
       \/ /\ rollback # <<>>
          /\ undo' = [undo EXCEPT ![i] = rollback]
          /\ pc' = [pc EXCEPT ![i] = "undo"]
          /\ UNCHANGED <<pos, step, issues>>
    /\ UNCHANGED <<files, uploaded, content, feedback, triggers, failures>>

\* S3 deletes a bucket only when it is empty.
Deleted(b) ==
    /\ b \in exists
    /\ content[b] = "empty"
    /\ exists' = exists \ {b}
    /\ applied' = [applied EXCEPT ![b] = {}]
    /\ policy' = [policy EXCEPT ![b] = "none"]

\* BucketCreator::rollback, whose failure is only logged.
Rollback(i) ==
    LET b == <<NameOf(i), Head(undo[i])>> IN
    /\ pc[i] = "undo"
    /\ \/ Deleted(b) /\ (UNCHANGED faults \/ Fault("lost"))
       \/ /\ b \notin exists \/ content[b] # "empty"
          /\ UNCHANGED <<s3Vars, faults>>
       \/ Fault("refused") /\ UNCHANGED s3Vars
    /\ undo' = [undo EXCEPT ![i] = Tail(@)]
    /\ \/ /\ Len(undo[i]) > 1
          /\ UNCHANGED <<pc, pos, step, issues>>
       \/ /\ Len(undo[i]) = 1
          /\ NextPair(i, issues[i] \cup {NameOf(i)})
    /\ UNCHANGED <<files, uploaded, content, feedback, triggers, failures>>

\* put_feedback swallows its own failure; perform then returns the error.
PutFeedback(i) ==
    /\ pc[i] = "feedback"
    /\ \/ /\ feedback' = [feedback EXCEPT ![i[1]] = issues[i]]
          /\ UNCHANGED faults \/ Fault("lost")
       \/ Fault("refused") /\ UNCHANGED feedback
    /\ ReturnErr(i)
    /\ UNCHANGED <<files, uploaded, s3Vars, content, triggers>>

\* Deleting a key that is gone already succeeds.
DeleteRequest(i) ==
    /\ pc[i] = "delete"
    /\ \/ /\ files' = files \ {i[1]}
          /\ pc' = [pc EXCEPT ![i] = "trigger"]
          /\ UNCHANGED <<failures, pos, step, undo, issues, faults>>
       \/ /\ ReturnErr(i)
          /\ \/ Fault("refused") /\ UNCHANGED files
             \/ Fault("lost") /\ files' = files \ {i[1]}
    /\ UNCHANGED <<uploaded, s3Vars, content, feedback, triggers>>

\* trigger_sync_users is set by the Lambda and by the CLI alike.
TriggerSync(i) ==
    /\ pc[i] = "trigger"
    /\ \/ /\ triggers' = triggers \cup {i[1]}
          /\ pc' = [pc EXCEPT ![i] = "ok"]
          /\ UNCHANGED <<failures, pos, step, undo, issues, faults>>
       \/ /\ ReturnErr(i)
          /\ \/ Fault("refused") /\ UNCHANGED triggers
             \/ Fault("lost") /\ triggers' = triggers \cup {i[1]}
    /\ UNCHANGED <<files, uploaded, s3Vars, content, feedback>>

Running == {"read", "create", "undo", "feedback", "delete", "trigger"}

\* The process times out or dies between two calls: nothing is rolled back.
Crash(i) ==
    /\ pc[i] \in Running
    /\ Fault("crash")
    /\ ReturnErr(i)
    /\ UNCHANGED <<files, uploaded, s3Vars, content, feedback, triggers>>

\* A user who sees the bucket puts an object into it.
UserUploads(n) ==
    /\ <<n, "primary">> \in exists
    /\ policy[<<n, "primary">>] # "deny"
    /\ content' =
         IF "replication" \in applied[<<n, "primary">>] /\ <<n, "replica">> \in exists
         THEN [b \in Buckets |-> IF b[1] = n /\ content[b] = "empty"
                                 THEN "mirrored" ELSE content[b]]
         ELSE [content EXCEPT ![<<n, "primary">>] = "unmirrored"]
    /\ UNCHANGED <<files, uploaded, s3Vars, feedback, triggers, callVars, faults>>

Perform(i) ==
    \/ ReadRequest(i)
    \/ MakeCall(i)
    \/ FailCall(i)
    \/ Rollback(i)
    \/ PutFeedback(i)
    \/ DeleteRequest(i)
    \/ TriggerSync(i)

Next ==
    \/ \E r \in Requests : UploadRequest(r)
    \/ \E i \in Invocations : Deliver(i) \/ Perform(i) \/ Crash(i)
    \/ \E n \in Names : UserUploads(n)

Spec == Init /\ [][Next]_vars

-----------------------------------------------------------------------------
(* Properties *)

Ended(i) == pc[i] \in {"idle", "ok", "dropped"}
WorksOn(i, n) == pc[i] \in {"create", "undo"} /\ NameOf(i) = n

\* Every position an invocation holds is one of its request and of its plan.
TypeOK ==
    /\ files \subseteq uploaded /\ uploaded \subseteq Requests
    /\ exists \subseteq Buckets
    /\ applied \in [Buckets -> SUBSET Configurations]
    /\ policy \in [Buckets -> Policies]
    /\ content \in [Buckets -> {"empty", "mirrored", "unmirrored"}]
    /\ feedback \in [Requests -> SUBSET (Names \cup {"file", "line"})]
    /\ triggers \subseteq uploaded
    /\ pc \in [Invocations -> Running \cup {"idle", "ok", "dropped"}]
    /\ failures \in [Invocations -> 0..MaxAttempts]
    /\ \A i \in Invocations :
          /\ issues[i] \subseteq Names \cup {"file", "line"}
          /\ pc[i] \in {"create", "undo"} =>
                /\ pos[i] \in 1..Len(Reviewed(i[1]))
                /\ step[i] \in 1..Len(Plan(NameOf(i)))
          /\ pc[i] = "undo" <=> undo[i] # <<>>
    /\ faults \in [FaultKinds -> 0..MaxFaults]

\* A pair that was there, or that a successful request made, is never rolled
\* back or left half configured by any other attempt at the same name.
AcknowledgedPairsAreWhole ==
    \A n \in Names :
        \/ n \in Existing
        \/ \E i \in Invocations : pc[i] = "ok" /\ n \in Requested(i[1])
        => Whole(n)

\* A feedback file that lists issues of pairs lists every pair of the request
\* that is missing or incomplete, whichever attempt wrote it last.
FeedbackNamesEveryGap ==
    \A r \in Requests :
        feedback[r] # {} /\ feedback[r] \subseteq Names =>
            \A n \in Requested(r) \ feedback[r] : Whole(n)

\* Where one call at most is refused, and no user was quicker than the
\* rollback, no half of a pair is left behind: no primary bucket without its
\* replica, no bucket without its configuration.
OneFailureIsUndone ==
    faults["refused"] <= 1 /\ faults["lost"] + faults["crash"] = 0 =>
        \A n \in Names :
            \/ \E i \in Invocations : WorksOn(i, n)
            \/ content[<<n, "primary">>] # "empty"
            \/ Whole(n) \/ Absent(n)

\* A request whose attempts outnumber the failing calls is answered: it ends
\* with whole pairs and no request file, or with a feedback file.
RequestsAreAnswered ==
    \A i \in Invocations :
        /\ pc[i] = "ok" => i[1] \notin files
        /\ pc[i] = "dropped" /\ Faults < Attempts(i) => feedback[i[1]] # {}

\* docs/src/user/uploading-files.md: what is uploaded is mirrored in -repl.
UploadsAreMirrored == \A b \in Buckets : content[b] # "unmirrored"

=============================================================================
