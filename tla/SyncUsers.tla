----------------------------- MODULE SyncUsers -----------------------------
(***************************************************************************)
(* sync-users: an upload of sync-users/TRIGGER starts an invocation that   *)
(* lists the IAM users, finds the buckets of the stacks their groups name, *)
(* and makes every user's SFTPGo account mount a folder per bucket, with   *)
(* the user's AWS keys in it.  Nothing keeps two invocations apart, nor    *)
(* the folders of two users apart whose names are sanitised alike.         *)
(*                                                                         *)
(* An action is one call of a service; the upserts of one user's folders   *)
(* are tasks that run side by side.  Permissions go with the mounts.       *)
(***************************************************************************)
EXTENDS Naturals, Sequences, FiniteSets

CONSTANTS
    Users,          \* the IAM users with an Email tag
    Accounts,       \* the users who have an SFTPGo account
    KeyOf,          \* User::key, the sanitised name of each user's account
    Groups,         \* IAM groups
    Stacks,         \* those that are named for a stack
    Buckets,        \* names of internal, public and standard buckets
    StackOf,        \* the stack each bucket is tagged with
    InitialGroups,  \* the groups of each user at first
    InitialBuckets, \* the buckets there are at first
    Syncs,          \* the syncs that are asked for, each with its own upload
    CliSyncs,       \* those the `sync-users` CLI makes, once, without upload
    None,           \* no folder; nothing cached
    MAX_FOLDER_ATTEMPTS, \* tries of one folder in an attempt (three)
    MaxAttempts,    \* attempts of an asynchronous Lambda invocation
    MaxChanges,     \* bound: changes of groups, buckets and keys
    MaxFaults       \* bound: failing calls and crashes

ASSUME SyncAssumption ==
    /\ IsFiniteSet(Users) /\ Accounts \subseteq Users
    /\ Stacks \subseteq Groups
    /\ StackOf \in [Buckets -> Stacks]
    /\ InitialGroups \in [Users -> SUBSET Groups]
    /\ InitialBuckets \subseteq Buckets
    /\ CliSyncs \subseteq Syncs
    /\ MAX_FOLDER_ATTEMPTS \in Nat \ {0}
    /\ MaxAttempts \in Nat \ {0}
    /\ MaxChanges \in Nat /\ MaxFaults \in Nat
    /\ \A found \in SUBSET Buckets : found # None
    /\ None \notin [user : Users, key : Nat]

FaultKinds == {"transient", "fatal", "untagged", "crash"}

\* folder_name: folders are global in SFTPGo, one per key and bucket, and
\* a@b.org and a.b@org have the same key.
Folder(u, b) == <<KeyOf[u], b>>
FolderNames == {Folder(u, b) : u \in Users, b \in Buckets}
Namesakes(u) == {v \in Users : KeyOf[v] = KeyOf[u]}

VARIABLES
    groups,    \* IAM: the groups of each user
    buckets,   \* S3: the buckets that exist
    keys,      \* SSM: the number of each user's current pair of AWS keys
    trigger,   \* S3: whether the TRIGGER file is there
    folders,   \* SFTPGo: whose keys each folder holds, and which
    mounts,    \* SFTPGo: the folders each account mounts
    pc,        \* the stage of each sync
    failures,  \* the failed attempts of each sync
    local,     \* what the attempt in progress holds
    fresh,     \* history: nothing the attempt reads changed since it began
    alone,     \* history: no other sync took a step since it began
    ever,      \* history: the stacks each user has been in
    changes,   \* how many changes there were
    faults     \* how many faults there were, by kind

world == <<groups, buckets, keys, ever, changes>>
sftpgo == <<folders, mounts>>
vars == <<world, trigger, sftpgo, pc, failures, local, fresh, alone, faults>>

\* Before an attempt has listed anything.
Blank == [roster |-> <<>>, granted |-> [u \in Users |-> {}], names |-> None,
          cache |-> [s \in Stacks |-> None], key |-> 0,
          task |-> [b \in Buckets |-> "none"], tries |-> [b \in Buckets |-> 1]]

Init ==
    /\ groups = InitialGroups
    /\ buckets = InitialBuckets
    /\ keys = [u \in Users |-> 1]
    /\ trigger = FALSE
    /\ folders = [f \in FolderNames |-> None]
    /\ mounts = [u \in Users |-> {}]
    /\ pc = [i \in Syncs |-> "idle"]
    /\ failures = [i \in Syncs |-> 0]
    /\ local = [i \in Syncs |-> Blank]
    /\ fresh = [i \in Syncs |-> FALSE]
    /\ alone = [i \in Syncs |-> FALSE]
    /\ ever = [u \in Users |-> InitialGroups[u] \cap Stacks]
    /\ changes = 0
    /\ faults = [k \in FaultKinds |-> 0]

-----------------------------------------------------------------------------
(* What other people do *)

Changes ==
    /\ changes < MaxChanges
    /\ changes' = changes + 1
    /\ fresh' = [i \in Syncs |-> FALSE]
    /\ UNCHANGED <<trigger, sftpgo, pc, failures, local, alone, faults>>

\* An administrator puts a user into a group or takes him out of it.
ChangeGroups(u, g) ==
    /\ Changes
    /\ groups' = [groups EXCEPT ![u] = IF g \in @ THEN @ \ {g} ELSE @ \cup {g}]
    /\ ever' = [ever EXCEPT ![u] = @ \cup (groups'[u] \cap Stacks)]
    /\ UNCHANGED <<buckets, keys>>

\* Bucket creation makes a bucket or rolls it back.
ChangeBuckets(b) ==
    /\ Changes
    /\ buckets' = IF b \in buckets THEN buckets \ {b} ELSE buckets \cup {b}
    /\ UNCHANGED <<groups, keys, ever>>

RotateKeys(u) ==
    /\ Changes
    /\ keys' = [keys EXCEPT ![u] = @ + 1]
    /\ UNCHANGED <<groups, buckets, ever>>

-----------------------------------------------------------------------------
(* One attempt of a sync *)

Faults == faults["transient"] + faults["fatal"] + faults["untagged"] + faults["crash"]

Fault(kind) ==
    /\ Faults < MaxFaults
    /\ faults' = [faults EXCEPT ![kind] = @ + 1]

Steps(i) == alone' = [j \in Syncs |-> alone[j] /\ j = i]

Goto(i, stage, l) ==
    /\ pc' = [pc EXCEPT ![i] = stage]
    /\ local' = [local EXCEPT ![i] = l]

Stay(i, l) == Goto(i, pc[i], l)

\* Mutant: what an attempt has listed is kept for the next one.
ReturnErrKeeping(i) ==
    /\ failures' = [failures EXCEPT ![i] = @ + 1]
    /\ Goto(i, IF i \in CliSyncs \/ failures[i] + 1 = MaxAttempts
               THEN "dropped" ELSE "start", local[i])

\* Lambda retries the event, with nothing kept; the CLI gives up.
ReturnErr(i) ==
    /\ failures' = [failures EXCEPT ![i] = @ + 1]
    /\ Goto(i, IF i \in CliSyncs \/ failures[i] + 1 = MaxAttempts
               THEN "dropped" ELSE "start", Blank)

\* The upload of TRIGGER, or the start of the CLI.
Ask(i) ==
    /\ pc[i] = "idle"
    /\ trigger' = (trigger \/ i \notin CliSyncs)
    /\ Goto(i, "start", Blank)
    /\ UNCHANGED <<world, sftpgo, failures, fresh, alone, faults>>

\* IAM lists users in an order of its own.
Listings(found) ==
    {r \in [1..Cardinality(found) -> found] :
        \A u \in found : \E k \in DOMAIN r : r[k] = u}

\* connect, and list_users_with_email_and_groups; no user is an error.
Start(i) ==
    LET eligible == {u \in Users : groups[u] # {}} IN
    /\ pc[i] = "start"
    /\ fresh' = [fresh EXCEPT ![i] = TRUE]
    /\ alone' = [j \in Syncs |-> j = i]
    /\ \/ eligible = {} /\ ReturnErr(i)
       \/ /\ eligible # {}
          /\ \E roster \in Listings(eligible) :
                Goto(i, "user", [Blank EXCEPT !.roster = roster, !.granted = groups])
          /\ UNCHANGED failures
    /\ UNCHANGED <<world, trigger, sftpgo, faults>>

UserOf(i) == Head(local[i].roster)
StacksOf(i) == local[i].granted[UserOf(i)] \cap Stacks
Uncached(i) == {s \in StacksOf(i) : local[i].cache[s] = None}
AtUser(i) == pc[i] = "user" /\ local[i].roster # <<>>

\* The buckets of the stacks of the user at hand.
Wanted(i) == UNION {local[i].cache[s] : s \in StacksOf(i)}

\* The names of all buckets are listed once in an attempt.
ListNames(i) ==
    /\ AtUser(i)
    /\ Uncached(i) # {}
    /\ local[i].names = None
    /\ Stay(i, [local[i] EXCEPT !.names = buckets])
    /\ Steps(i)
    /\ UNCHANGED <<world, trigger, sftpgo, failures, fresh, faults>>

\* A stack's buckets are found by their tags once in an attempt; a bucket
\* whose tags cannot be read is passed over.
FetchStack(i, s) ==
    LET found == {b \in local[i].names \cap buckets : StackOf[b] = s} IN
    /\ AtUser(i)
    /\ s \in Uncached(i)
    /\ local[i].names # None
    /\ \/ /\ Stay(i, [local[i] EXCEPT !.cache[s] = found])
          /\ UNCHANGED <<fresh, faults>>
       \/ \E b \in found :
             /\ Fault("untagged")
             /\ Stay(i, [local[i] EXCEPT !.cache[s] = found \ {b}])
             /\ fresh' = [fresh EXCEPT ![i] = FALSE]
    /\ Steps(i)
    /\ UNCHANGED <<world, trigger, sftpgo, failures>>

\* A user without buckets is left alone, whatever the account mounts.
SkipUser(i) ==
    /\ AtUser(i)
    /\ Uncached(i) = {}
    /\ Wanted(i) = {}
    /\ Stay(i, [local[i] EXCEPT !.roster = Tail(@)])
    /\ Steps(i)
    /\ UNCHANGED <<world, trigger, sftpgo, failures, fresh, faults>>

ReadKeys(i) ==
    /\ AtUser(i)
    /\ Uncached(i) = {}
    /\ Wanted(i) # {}
    /\ Goto(i, "account", [local[i] EXCEPT !.key = keys[UserOf(i)]])
    /\ Steps(i)
    /\ UNCHANGED <<world, trigger, sftpgo, failures, fresh, faults>>

\* get_user: SFTPGo's answer about a missing account is not an account, and
\* the whole sync fails on it.
ReadAccount(i) ==
    /\ pc[i] = "account"
    /\ IF UserOf(i) \in Accounts
       THEN /\ Goto(i, "folders",
                    [local[i] EXCEPT
                        !.task = [b \in Buckets |-> IF b \in Wanted(i) THEN "probe"
                                                    ELSE "none"],
                        !.tries = Blank.tries])
            /\ UNCHANGED failures
       ELSE ReturnErr(i)
    /\ Steps(i)
    /\ UNCHANGED <<world, trigger, sftpgo, fresh, faults>>

-----------------------------------------------------------------------------
(* The upserts of one user's folders *)

NameFor(i, b) == Folder(UserOf(i), b)
Desired(i) == [user |-> UserOf(i), key |-> local[i].key]
Doing(i, b, what) == pc[i] = "folders" /\ local[i].task[b] = what

TaskTo(i, b, what) == Stay(i, [local[i] EXCEPT !.task[b] = what])

\* Mutant: a folder that is there is left as it is.
NeverMismatched(i, b) == FALSE

\* BaseVirtualFolder::mismatch: another access key means another pair of keys.
Mismatch(i, b) == folders[NameFor(i, b)] # Desired(i)

ProbeFolder(i, b) ==
    /\ Doing(i, b, "probe")
    /\ TaskTo(i, b, CASE folders[NameFor(i, b)] = None -> "post"
                      [] folders[NameFor(i, b)] # None /\ Mismatch(i, b) -> "put"
                      [] OTHER -> "done")
    /\ Steps(i)
    /\ UNCHANGED <<world, trigger, sftpgo, failures, fresh, faults>>

\* A PUT replaces a folder; a POST of one that is there is refused.
Accepted(i, b) == local[i].task[b] = "put" \/ folders[NameFor(i, b)] = None

Written(i, written) ==
    [f \in FolderNames |->
        IF \E b \in written : f = NameFor(i, b) THEN Desired(i) ELSE folders[f]]

WriteFolder(i, b) ==
    /\ Doing(i, b, "post") \/ Doing(i, b, "put")
    /\ Accepted(i, b)
    /\ folders' = Written(i, {b})
    /\ TaskTo(i, b, "done")
    /\ Steps(i)
    /\ UNCHANGED <<world, trigger, mounts, failures, fresh, faults>>

\* What may have been written of the calls in flight when nobody listens.
InFlight(i) == {b \in Buckets : /\ local[i].task[b] \in {"post", "put"}
                                /\ Accepted(i, b)}

\* Mutant: a retry repeats the call that failed.
RetrySameCall(i, b) == TaskTo(i, b, local[i].task[b])

\* A retry begins with a fresh look at the folder.
RetryTask(i, b) == Stay(i, [local[i] EXCEPT !.task[b] = "probe", !.tries[b] = @ + 1])

\* A connection failure, timeout, 429 or 5xx: the call may have worked.
RetryFolder(i, b) ==
    /\ pc[i] = "folders"
    /\ local[i].task[b] \in {"probe", "post", "put"}
    /\ local[i].tries[b] < MAX_FOLDER_ATTEMPTS
    /\ Fault("transient")
    /\ RetryTask(i, b)
    /\ \E landed \in SUBSET ({b} \cap InFlight(i)) : folders' = Written(i, landed)
    /\ Steps(i)
    /\ UNCHANGED <<world, trigger, mounts, failures, fresh>>

\* The first folder that fails for good ends the attempt and cancels the
\* others, which may have been served already.
FailFolder(i, b) ==
    /\ pc[i] = "folders"
    /\ \/ /\ local[i].task[b] \in {"probe", "post", "put"}
          /\ \/ Fault("fatal")
             \/ local[i].tries[b] = MAX_FOLDER_ATTEMPTS /\ Fault("transient")
       \/ /\ Doing(i, b, "post")
          /\ ~Accepted(i, b)
          /\ UNCHANGED faults
    /\ \E landed \in SUBSET InFlight(i) : folders' = Written(i, landed)
    /\ ReturnErr(i)
    /\ Steps(i)
    /\ UNCHANGED <<world, trigger, mounts, fresh>>

-----------------------------------------------------------------------------
(* The account, and the end of an attempt *)

\* Mutant: the account is updated while folders are still being made.
AnyFolderDone(i) == \E b \in Buckets : local[i].task[b] = "done"

\* try_collect: every folder has been upserted.
FoldersDone(i) == \A b \in Buckets : local[i].task[b] \in {"none", "done"}

Mounted(i) == [mounts EXCEPT ![UserOf(i)] = {NameFor(i, b) : b \in Wanted(i)}]

UpdateUser(i) ==
    /\ pc[i] = "folders"
    /\ FoldersDone(i)
    /\ mounts' = Mounted(i)
    /\ Goto(i, "user", [local[i] EXCEPT !.roster = Tail(@), !.key = 0,
                                        !.task = Blank.task, !.tries = Blank.tries])
    /\ Steps(i)
    /\ UNCHANGED <<world, trigger, folders, failures, fresh, faults>>

\* The Lambda deletes TRIGGER, which may be another upload's; the CLI does not.
Finish(i) ==
    /\ pc[i] = "user"
    /\ local[i].roster = <<>>
    /\ trigger' = (trigger /\ i \in CliSyncs)
    /\ Goto(i, "ok", Blank)
    /\ Steps(i)
    /\ UNCHANGED <<world, sftpgo, failures, fresh, faults>>

\* A call that is not retried on the spot fails, and may have worked.
CallFails(i) ==
    /\ pc[i] \in {"start", "user", "account", "folders"}
    /\ pc[i] = "folders" => FoldersDone(i)
    /\ Fault("fatal")
    /\ \/ UNCHANGED <<mounts, trigger>>
       \/ pc[i] = "folders" /\ mounts' = Mounted(i) /\ UNCHANGED trigger
       \/ /\ pc[i] = "user" /\ local[i].roster = <<>> /\ i \notin CliSyncs
          /\ trigger' = FALSE
          /\ UNCHANGED mounts
    /\ ReturnErr(i)
    /\ Steps(i)
    /\ UNCHANGED <<world, folders, fresh>>

\* The function times out, or the process dies.
Crash(i) ==
    /\ pc[i] \in {"start", "user", "account", "folders"}
    /\ Fault("crash")
    /\ \E landed \in SUBSET InFlight(i) : folders' = Written(i, landed)
    /\ ReturnErr(i)
    /\ Steps(i)
    /\ UNCHANGED <<world, trigger, mounts, fresh>>

SyncUserAccess(i, b) ==
    ProbeFolder(i, b) \/ WriteFolder(i, b) \/ RetryFolder(i, b) \/ FailFolder(i, b)

Perform(i) ==
    \/ Start(i)
    \/ ListNames(i)
    \/ \E s \in Stacks : FetchStack(i, s)
    \/ SkipUser(i)
    \/ ReadKeys(i)
    \/ ReadAccount(i)
    \/ \E b \in Buckets : SyncUserAccess(i, b)
    \/ UpdateUser(i)
    \/ Finish(i)

Next ==
    \/ \E u \in Users, g \in Groups : ChangeGroups(u, g)
    \/ \E b \in Buckets : ChangeBuckets(b)
    \/ \E u \in Users : RotateKeys(u)
    \/ \E i \in Syncs : Ask(i) \/ Perform(i) \/ CallFails(i) \/ Crash(i)

Spec == Init /\ [][Next]_vars

-----------------------------------------------------------------------------
(* Properties *)

Stages == {"idle", "start", "user", "account", "folders", "ok", "dropped"}

\* What an attempt holds belongs to its stage, and nothing of a failed attempt
\* or of the previous user is left over.
TypeOK ==
    /\ groups \in [Users -> SUBSET Groups] /\ buckets \subseteq Buckets
    /\ trigger \in BOOLEAN
    /\ \A f \in FolderNames :
          folders[f] # None => folders[f].user \in Users /\ folders[f].key \in Nat \ {0}
    /\ mounts \in [Users -> SUBSET FolderNames]
    /\ pc \in [Syncs -> Stages] /\ failures \in [Syncs -> 0..MaxAttempts]
    /\ \A i \in Syncs :
          /\ local[i].task \in [Buckets -> {"none", "probe", "post", "put", "done"}]
          /\ local[i].tries \in [Buckets -> 1..MAX_FOLDER_ATTEMPTS]
          /\ pc[i] \notin {"user", "account", "folders"} => local[i] = Blank
          /\ pc[i] \in {"account", "folders"} => local[i].roster # <<>> /\ Wanted(i) # {}
          /\ pc[i] # "folders" => local[i].task = Blank.task
          /\ pc[i] = "folders" => \A b \in Buckets : local[i].task[b] # "none" <=> b \in Wanted(i)
    /\ faults \in [FaultKinds -> 0..MaxFaults] /\ changes \in 0..MaxChanges

\* Whatever fails or overlaps, what an account mounts are folders that are
\* there, of buckets of stacks the user has been in, with keys of somebody who
\* has been in that stack too: his own, unless a namesake shares the folder.
MountsAreEntitled ==
    \A u \in Users : \A f \in mounts[u] :
        /\ folders[f] # None
        /\ \E b \in Buckets :
              /\ f = Folder(u, b) /\ StackOf[b] \in ever[u]
              /\ \E v \in Namesakes(u) :
                    folders[f].user = v /\ StackOf[b] \in ever[v]

EligibleBuckets(u) == {b \in buckets : StackOf[b] \in groups[u]}

\* The user's mounts are those of his buckets, and each holds the current
\* keys of a user who has the bucket.
InSync(u) ==
    /\ mounts[u] = {Folder(u, b) : b \in EligibleBuckets(u)}
    /\ \A b \in EligibleBuckets(u) : \E v \in Namesakes(u) :
          /\ b \in EligibleBuckets(v)
          /\ folders[Folder(u, b)] = [user |-> v, key |-> keys[v]]

\* After a sync that nothing overtook, every user with a bucket has mounts and
\* keys exactly as IAM, S3 and SSM have them, whatever failed attempts, lost
\* answers and earlier syncs left behind; of namesakes with the same bucket,
\* one has his keys in their folder.
UndisturbedSyncsAreExact ==
    \A i \in Syncs : pc[i] = "ok" /\ fresh[i] /\ alone[i] =>
        \A u \in Users : EligibleBuckets(u) # {} => InSync(u)

\* An attempt that nothing overtakes fails only for a cause: a failure that is
\* not transient, MAX_FOLDER_ATTEMPTS transient ones, a user without an
\* account, or nobody to sync.  No lost answer turns into a conflict.
FailuresHaveACause ==
    [][\A i \in Syncs :
          failures'[i] > failures[i] /\ fresh[i] /\ alone[i] =>
              \/ faults'["fatal"] + faults'["crash"] > faults["fatal"] + faults["crash"]
              \/ faults'["transient"] >= MAX_FOLDER_ATTEMPTS
              \/ \E u \in Users \ Accounts : groups[u] # {}
              \/ \A u \in Users : groups[u] = {}]_vars

\* docs/src/features.md: accounts are kept in sync as buckets are created.
\* Once every sync has ended well, and one of them began after the last
\* change, every user with an account mounts all of his buckets.
NewBucketsAreMounted ==
    (\A i \in Syncs : pc[i] = "ok") /\ (\E i \in Syncs : fresh[i]) =>
        \A u \in Accounts : \A b \in EligibleBuckets(u) : Folder(u, b) \in mounts[u]
=============================================================================
