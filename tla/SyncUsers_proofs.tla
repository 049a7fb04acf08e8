-------------------------- MODULE SyncUsers_proofs --------------------------
(***************************************************************************)
(* Proofs about user synchronisation, for any number of users, stacks,     *)
(* buckets, overlapping syncs, attempts, changes and faults: whose folders *)
(* an account mounts, what a sync that nothing overtakes leaves, and what  *)
(* makes an attempt fail.                                                  *)
(***************************************************************************)
EXTENDS SyncUsers, FiniteSetTheorems, SequenceTheorems, TLAPS

-----------------------------------------------------------------------------
(* The invariant *)

Working == {"user", "account", "folders"}
Tasks == {"none", "probe", "post", "put", "done"}
FolderKeys == [user : Users, key : Nat \ {0}]

Locals == [roster : Seq(Users), granted : [Users -> SUBSET Groups],
           names : (SUBSET Buckets) \cup {None},
           cache : [Stacks -> (SUBSET Buckets) \cup {None}], key : Nat,
           task : [Buckets -> Tasks],
           tries : [Buckets -> 1..MAX_FOLDER_ATTEMPTS]]

\* What the world and the attempts are made of.
Shapes ==
    /\ groups \in [Users -> SUBSET Groups] /\ buckets \subseteq Buckets
    /\ keys \in [Users -> Nat \ {0}] /\ trigger \in BOOLEAN
    /\ folders \in [FolderNames -> FolderKeys \cup {None}]
    /\ mounts \in [Users -> SUBSET FolderNames]
    /\ pc \in [Syncs -> Stages] /\ failures \in [Syncs -> 0..MaxAttempts]
    /\ local \in [Syncs -> Locals]
    /\ fresh \in [Syncs -> BOOLEAN] /\ alone \in [Syncs -> BOOLEAN]
    /\ ever \in [Users -> SUBSET Stacks]
    /\ changes \in 0..MaxChanges /\ faults \in [FaultKinds -> 0..MaxFaults]

\* What an attempt holds belongs to its stage.
StageInv(i) ==
    /\ pc[i] \notin {"ok", "dropped"} => failures[i] < MaxAttempts
    /\ pc[i] \notin Working => local[i] = Blank
    /\ pc[i] # "folders" => local[i].task = Blank.task
    /\ pc[i] \in {"account", "folders"} =>
          /\ local[i].roster # <<>> /\ Wanted(i) # {} /\ Uncached(i) = {}
          /\ local[i].key > 0
    /\ pc[i] = "folders" =>
          \A b \in Buckets : local[i].task[b] # "none" <=> b \in Wanted(i)

\* What an attempt takes for a user's buckets are buckets of stacks he is or
\* was in, and what it has upserted is there.
OwnInv(i) ==
    /\ \A u \in Users : local[i].granted[u] \cap Stacks \subseteq ever[u]
    /\ \A s \in Stacks : local[i].cache[s] # None =>
          \A b \in local[i].cache[s] : StackOf[b] = s
    /\ pc[i] = "folders" =>
          \A b \in Buckets : local[i].task[b] = "done" => folders[NameFor(i, b)] # None

\* A folder holds keys of one of the users of its name, and of one who is or
\* was in the stack of its bucket.
FoldersInv ==
    \A u \in Users, b \in Buckets : folders[Folder(u, b)] # None =>
        \E v \in Namesakes(u) :
           folders[Folder(u, b)].user = v /\ StackOf[b] \in ever[v]

\* What an account mounts is there, and of stacks its user is or was in.
MountsInv ==
    \A u \in Users : \A f \in mounts[u] :
        /\ folders[f] # None
        /\ \E b \in Buckets : f = Folder(u, b) /\ StackOf[b] \in ever[u]

EverInv == \A u \in Users : groups[u] \cap Stacks \subseteq ever[u]

\* What an attempt holds is what is there, if nothing has changed since.
FreshInv(i) ==
    pc[i] \in Working /\ fresh[i] =>
        /\ local[i].granted = groups
        /\ local[i].names # None => local[i].names = buckets
        /\ \A s \in Stacks : local[i].cache[s] # None =>
              local[i].cache[s] = {b \in buckets : StackOf[b] = s}
        /\ pc[i] \in {"account", "folders"} => local[i].key = keys[UserOf(i)]
        /\ \A k \in 1..Len(local[i].roster) : groups[local[i].roster[k]] # {}

\* What an attempt has done stays done, if no other sync is at work.
AloneInv(i) ==
    pc[i] = "folders" /\ alone[i] =>
        \A b \in Buckets :
            /\ local[i].task[b] = "done" => folders[NameFor(i, b)] = Desired(i)
            /\ local[i].task[b] = "post" => folders[NameFor(i, b)] = None

\* The users an undisturbed sync has behind it are in sync.
SyncedInv(i) ==
    fresh[i] /\ alone[i] =>
        /\ pc[i] \in Working =>
              \A u \in Users : \/ EligibleBuckets(u) = {} \/ InSync(u)
                               \/ \E k \in 1..Len(local[i].roster) :
                                     local[i].roster[k] = u
        /\ pc[i] = "ok" => \A u \in Users : EligibleBuckets(u) = {} \/ InSync(u)

\* Every try of a folder but the first follows a transient failure.
TriesInv(i) == \A b \in Buckets : local[i].tries[b] <= 1 + faults["transient"]

SyncInv(i) == /\ StageInv(i) /\ OwnInv(i) /\ FreshInv(i) /\ AloneInv(i)
              /\ SyncedInv(i) /\ TriesInv(i)

IInv == /\ Shapes /\ FoldersInv /\ EverInv /\ MountsInv
        /\ \A i \in Syncs : SyncInv(i)

-----------------------------------------------------------------------------
(* Names and empty hands *)

\* A folder tells its bucket, and its user up to namesakes.
LEMMA FolderFacts ==
    /\ \A u \in Users, b \in Buckets : Folder(u, b) \in FolderNames
    /\ \A u, v \in Users, b, c \in Buckets :
          Folder(u, b) = Folder(v, c) => u \in Namesakes(v) /\ v \in Namesakes(u) /\ b = c
    /\ \A f \in FolderNames : \E u \in Users, b \in Buckets : f = Folder(u, b)
BY DEF Folder, FolderNames, Namesakes

\* What an attempt holds before it has listed anything.
LEMMA BlankFacts ==
    /\ Blank \in Locals
    /\ Blank.roster = <<>> /\ Blank.names = None /\ Blank.key = 0
    /\ \A u \in Users : Blank.granted[u] = {}
    /\ \A s \in Stacks : Blank.cache[s] = None
    /\ \A b \in Buckets : Blank.task[b] = "none" /\ Blank.tries[b] = 1
<1>1. Blank.roster \in Seq(Users)
  BY DEF Blank
<1>2. Blank.granted \in [Users -> SUBSET Groups]
  BY DEF Blank
<1>3. Blank.tries \in [Buckets -> 1..MAX_FOLDER_ATTEMPTS]
  BY SyncAssumption DEF Blank
<1>4. /\ Blank.task \in [Buckets -> Tasks] /\ Blank.names = None
      /\ Blank.cache \in [Stacks -> (SUBSET Buckets) \cup {None}] /\ Blank.key = 0
  BY DEF Blank, Tasks
<1>5. Blank = [roster |-> Blank.roster, granted |-> Blank.granted,
               names |-> Blank.names, cache |-> Blank.cache, key |-> Blank.key,
               task |-> Blank.task, tries |-> Blank.tries]
  BY DEF Blank
<1>6. Blank \in Locals
  BY <1>1, <1>2, <1>3, <1>4, <1>5 DEF Locals
<1> QED BY <1>6 DEF Blank

\* An attempt with users left has one at hand, and his stacks.
LEMMA UserFacts ==
    ASSUME Shapes, NEW i \in Syncs, local[i].roster # <<>>
    PROVE  /\ local[i] \in Locals /\ UserOf(i) \in Users
           /\ UserOf(i) = local[i].roster[1] /\ 1 \in 1..Len(local[i].roster)
           /\ Tail(local[i].roster) \in Seq(Users)
           /\ \A k \in 1..Len(Tail(local[i].roster)) :
                 /\ k + 1 \in 1..Len(local[i].roster)
                 /\ Tail(local[i].roster)[k] = local[i].roster[k + 1]
           /\ \A k \in 1..Len(local[i].roster) :
                 \/ k = 1
                 \/ /\ k - 1 \in 1..Len(Tail(local[i].roster))
                    /\ Tail(local[i].roster)[k - 1] = local[i].roster[k]
           /\ StacksOf(i) \subseteq Stacks
           /\ \A s \in StacksOf(i) : s \in local[i].granted[UserOf(i)]
<1>1. local[i] \in Locals
  BY DEF Shapes
<1>2. local[i].roster \in Seq(Users)
  BY <1>1 DEF Locals
<1> DEFINE r == local[i].roster
<1>3. r \in Seq(Users) /\ r # <<>>
  BY <1>2
<1> HIDE DEF r
<1>4. /\ Len(r) \in Nat /\ 1 \in 1..Len(r) /\ Head(r) = r[1] /\ r[1] \in Users
      /\ Tail(r) \in Seq(Users) /\ Len(Tail(r)) = Len(r) - 1
      /\ \A k \in 1..Len(Tail(r)) : Tail(r)[k] = r[k + 1]
  BY <1>3
<1>5. \A k \in 1..Len(Tail(r)) : k + 1 \in 1..Len(r)
  BY <1>4
<1>6. \A k \in 1..Len(r) : k = 1 \/ (/\ k - 1 \in 1..Len(Tail(r))
                                     /\ Tail(r)[k - 1] = r[k])
  BY <1>4
<1> QED BY <1>1, <1>4, <1>5, <1>6 DEF r, UserOf, StacksOf

\* The buckets of a user whose stacks are all cached.
LEMMA WantedFacts ==
    ASSUME IInv, NEW i \in Syncs, local[i].roster # <<>>, Uncached(i) = {}
    PROVE  /\ Wanted(i) \subseteq Buckets
           /\ \A b \in Wanted(i) : StackOf[b] \in ever[UserOf(i)]
           /\ pc[i] \in Working /\ fresh[i] => Wanted(i) = EligibleBuckets(UserOf(i))
<1>1. /\ UserOf(i) \in Users /\ StacksOf(i) \subseteq Stacks
      /\ local[i].cache \in [Stacks -> (SUBSET Buckets) \cup {None}]
  BY UserFacts DEF IInv, Locals
<1>2. \A s \in StacksOf(i) : /\ local[i].cache[s] # None
                             /\ local[i].cache[s] \in SUBSET Buckets
  BY <1>1 DEF Uncached
<1>3. ASSUME NEW b \in Wanted(i)
      PROVE  b \in Buckets /\ StackOf[b] \in StacksOf(i)
  <2>1. PICK s \in StacksOf(i) : b \in local[i].cache[s]
    BY <1>3 DEF Wanted
  <2>2. StackOf[b] = s
    BY <1>1, <1>2, <2>1 DEF IInv, SyncInv, OwnInv
  <2> QED BY <1>2, <2>1, <2>2
<1>4. StacksOf(i) \subseteq ever[UserOf(i)]
  BY <1>1 DEF StacksOf, IInv, SyncInv, OwnInv
<1>5. ASSUME pc[i] \in Working, fresh[i]
      PROVE  Wanted(i) = EligibleBuckets(UserOf(i))
  <2>1. /\ local[i].granted = groups
        /\ \A s \in StacksOf(i) : local[i].cache[s] = {b \in buckets : StackOf[b] = s}
    BY <1>1, <1>2, <1>5 DEF IInv, SyncInv, FreshInv
  <2>2. \A b \in buckets : StackOf[b] \in Stacks
    BY SyncAssumption DEF IInv, Shapes
  <2> QED BY <2>1, <2>2 DEF Wanted, EligibleBuckets, StacksOf
<1> QED BY <1>3, <1>4, <1>5

-----------------------------------------------------------------------------
(* One sync at a time *)

\* A step of one sync: nobody else's attempt moves, and no folder goes.
Only(i) ==
    /\ UNCHANGED world
    /\ \A j \in Syncs \ {i} :
          /\ pc'[j] = pc[j] /\ local'[j] = local[j]
          /\ failures'[j] = failures[j] /\ fresh'[j] = fresh[j]
          /\ alone'[j] => alone[j] /\ UNCHANGED sftpgo
    /\ \A f \in FolderNames : folders[f] # None => folders'[f] # None
    /\ faults["transient"] <= faults'["transient"]

StepOf(i) ==
    Only(i) /\ Shapes' /\ FoldersInv' /\ MountsInv' /\ SyncInv(i)'

\* The others keep what they have.
LEMMA OtherSyncs ==
    ASSUME IInv, NEW i \in Syncs, Only(i), Shapes', NEW j \in Syncs \ {i}
    PROVE  SyncInv(j)'
<1>1. /\ pc'[j] = pc[j] /\ local'[j] = local[j]
      /\ failures'[j] = failures[j] /\ fresh'[j] = fresh[j]
      /\ alone'[j] => alone[j] /\ UNCHANGED <<folders, mounts>>
      /\ UNCHANGED <<groups, buckets, keys, ever>>
  BY DEF Only, world, sftpgo
<1>2. /\ UserOf(j)' = UserOf(j) /\ StacksOf(j)' = StacksOf(j)
      /\ Uncached(j)' = Uncached(j) /\ Wanted(j)' = Wanted(j)
      /\ Desired(j)' = Desired(j) /\ \A b : NameFor(j, b)' = NameFor(j, b)
  BY <1>1 DEF UserOf, StacksOf, Uncached, Wanted, Desired, NameFor, Folder
<1>3. StageInv(j) /\ OwnInv(j) /\ FreshInv(j) /\ AloneInv(j) /\ SyncedInv(j) /\ TriesInv(j)
  BY DEF IInv, SyncInv
<1>4. StageInv(j)'
  BY <1>1, <1>2, <1>3 DEF StageInv
<1>5. OwnInv(j)'
  <2>1. ASSUME pc[j] = "folders", NEW b \in Buckets
        PROVE  NameFor(j, b) \in FolderNames
    <3>1. UserOf(j) \in Users
      BY <1>3, <2>1, UserFacts DEF StageInv, IInv
    <3> QED BY <3>1, FolderFacts DEF NameFor
  <2>2. \A f \in FolderNames : folders[f] # None => folders'[f] # None
    BY DEF Only
  <2> QED BY <1>1, <1>2, <1>3, <2>1, <2>2 DEF OwnInv
<1>6. FreshInv(j)'
  BY <1>1, <1>2, <1>3 DEF FreshInv
<1>7. AloneInv(j)'
  BY <1>1, <1>2, <1>3 DEF AloneInv
<1>8. SyncedInv(j)'
  <2>1. ASSUME alone'[j], NEW u \in Users
        PROVE  /\ EligibleBuckets(u)' = EligibleBuckets(u)
               /\ InSync(u)' <=> InSync(u)
    BY <1>1, <2>1 DEF EligibleBuckets, InSync, Folder, Namesakes
  <2> QED BY <1>1, <1>3, <2>1 DEF SyncedInv
<1>9. TriesInv(j)'
  <2>1. local[j].tries \in [Buckets -> 1..MAX_FOLDER_ATTEMPTS]
    BY DEF IInv, Shapes, Locals
  <2>2. faults["transient"] \in Nat /\ faults'["transient"] \in Nat
        /\ faults["transient"] <= faults'["transient"]
    BY SyncAssumption DEF IInv, Shapes, FaultKinds, Only
  <2> QED BY <1>1, <1>3, <2>1, <2>2, SyncAssumption DEF TriesInv
<1> QED BY <1>4, <1>5, <1>6, <1>7, <1>8, <1>9 DEF SyncInv

\* So a step of one sync keeps the invariant if it does so at home.
LEMMA StepKeepsInv ==
    ASSUME IInv, NEW i \in Syncs, StepOf(i)
    PROVE  IInv'
<1>1. EverInv'
  BY DEF IInv, EverInv, StepOf, Only, world
<1>2. \A j \in Syncs \ {i} : SyncInv(j)'
  BY OtherSyncs DEF StepOf
<1> QED BY <1>1, <1>2 DEF IInv, StepOf

-----------------------------------------------------------------------------
(* What every step is made of *)

\* A fault is counted once, under its kind.
LEMMA FaultFacts ==
    ASSUME Shapes, NEW kind \in FaultKinds, Fault(kind)
    PROVE  /\ faults' \in [FaultKinds -> 0..MaxFaults]
           /\ faults'[kind] = faults[kind] + 1
           /\ \A k \in FaultKinds \ {kind} : faults'[k] = faults[k]
           /\ \A k \in FaultKinds : faults[k] \in Nat /\ faults[k] <= faults'[k]
<1>1. /\ faults \in [FaultKinds -> 0..MaxFaults] /\ MaxFaults \in Nat
      /\ \A k \in FaultKinds : faults[k] \in Nat
  BY SyncAssumption DEF Shapes
<1>2. Faults < MaxFaults /\ faults' = [faults EXCEPT ![kind] = @ + 1]
  BY DEF Fault
<1>3. faults[kind] < MaxFaults
  BY <1>1, <1>2 DEF Faults, FaultKinds
<1> QED BY <1>1, <1>2, <1>3

\* The step of a sync disturbs every other.
LEMMA StepsFacts ==
    ASSUME Shapes, NEW i \in Syncs, Steps(i)
    PROVE  /\ alone' \in [Syncs -> BOOLEAN] /\ alone'[i] = alone[i]
           /\ \A j \in Syncs \ {i} : ~alone'[j]
BY DEF Shapes, Steps

\* Where the sync goes, nobody else does.
LEMMA Frame ==
    ASSUME IInv, NEW i \in Syncs, NEW stage \in Stages, NEW l \in Locals,
           Goto(i, stage, l), UNCHANGED world, trigger' \in BOOLEAN,
           folders' \in [FolderNames -> FolderKeys \cup {None}],
           mounts' \in [Users -> SUBSET FolderNames],
           failures' \in [Syncs -> 0..MaxAttempts],
           faults' \in [FaultKinds -> 0..MaxFaults],
           fresh' \in [Syncs -> BOOLEAN], alone' \in [Syncs -> BOOLEAN],
           faults["transient"] <= faults'["transient"],
           \A f \in FolderNames : folders[f] # None => folders'[f] # None,
           \A j \in Syncs \ {i} : /\ failures'[j] = failures[j]
                                  /\ fresh'[j] = fresh[j]
                                  /\ alone'[j] => alone[j] /\ UNCHANGED sftpgo
    PROVE  Only(i) /\ Shapes' /\ pc'[i] = stage /\ local'[i] = l
<1>1. pc \in [Syncs -> Stages] /\ local \in [Syncs -> Locals]
  BY DEF IInv, Shapes
<1>2. /\ pc' \in [Syncs -> Stages] /\ local' \in [Syncs -> Locals]
      /\ pc'[i] = stage /\ local'[i] = l
      /\ \A j \in Syncs \ {i} : pc'[j] = pc[j] /\ local'[j] = local[j]
  BY <1>1 DEF Goto
<1>3. UNCHANGED <<groups, buckets, keys, ever, changes>>
  BY DEF world
<1>4. Shapes'
  BY <1>2, <1>3 DEF IInv, Shapes
<1> QED BY <1>2, <1>4 DEF Only

\* A step that writes neither folders nor mounts.
LEMMA QuietStep ==
    ASSUME IInv, NEW i \in Syncs, NEW stage \in Stages, NEW l \in Locals,
           Goto(i, stage, l), UNCHANGED world, trigger' \in BOOLEAN,
           UNCHANGED sftpgo,
           failures' \in [Syncs -> 0..MaxAttempts],
           faults' \in [FaultKinds -> 0..MaxFaults],
           fresh' \in [Syncs -> BOOLEAN], alone' \in [Syncs -> BOOLEAN],
           faults["transient"] <= faults'["transient"],
           \A j \in Syncs \ {i} : /\ failures'[j] = failures[j]
                                  /\ fresh'[j] = fresh[j]
                                  /\ alone'[j] => alone[j]
    PROVE  /\ Only(i) /\ Shapes' /\ pc'[i] = stage /\ local'[i] = l
           /\ FoldersInv' /\ MountsInv'
           /\ UNCHANGED <<groups, buckets, keys, ever, folders, mounts>>
           /\ \A u \in Users : EligibleBuckets(u)' = EligibleBuckets(u)
                               /\ InSync(u)' = InSync(u)
<1>1. UNCHANGED <<groups, buckets, keys, ever, folders, mounts>>
  BY DEF world, sftpgo
<1>2. /\ folders' \in [FolderNames -> FolderKeys \cup {None}]
      /\ mounts' \in [Users -> SUBSET FolderNames]
  BY <1>1 DEF IInv, Shapes
<1>3. Only(i) /\ Shapes' /\ pc'[i] = stage /\ local'[i] = l
  BY <1>1, <1>2, Frame
<1>4. FoldersInv' /\ MountsInv'
  BY <1>1 DEF IInv, FoldersInv, MountsInv, Folder, Namesakes
<1>5. \A u \in Users : EligibleBuckets(u)' = EligibleBuckets(u)
  BY <1>1 DEF EligibleBuckets
<1>6. \A u \in Users : InSync(u)' = InSync(u)
  BY <1>1, <1>5 DEF InSync, Folder, Namesakes
<1> QED BY <1>1, <1>3, <1>4, <1>5, <1>6

\* An attempt that holds nothing owes nothing.
LEMMA EmptyHands ==
    ASSUME Shapes', NEW i \in Syncs, local'[i] = Blank,
           pc'[i] \notin Working \cup {"ok"},
           pc'[i] # "dropped" => failures'[i] < MaxAttempts
    PROVE  SyncInv(i)'
<1>1. StageInv(i)'
  BY DEF StageInv, Working
<1>2. OwnInv(i)'
  BY BlankFacts DEF OwnInv, Working
<1>3. FreshInv(i)' /\ AloneInv(i)' /\ SyncedInv(i)'
  BY DEF FreshInv, AloneInv, SyncedInv, Working
<1>4. TriesInv(i)'
  <2>1. faults'["transient"] \in 0..MaxFaults
    BY DEF Shapes, FaultKinds
  <2> QED BY <2>1, BlankFacts DEF TriesInv
<1> QED BY <1>1, <1>2, <1>3, <1>4 DEF SyncInv

\* An attempt that fails begins anew, with empty hands, or is given up.
LEMMA ReturnErrFacts ==
    ASSUME Shapes, NEW i \in Syncs, failures[i] < MaxAttempts, ReturnErr(i)
    PROVE  /\ failures' \in [Syncs -> 0..MaxAttempts]
           /\ \A j \in Syncs \ {i} : failures'[j] = failures[j]
           /\ \E stage \in {"start", "dropped"} :
                 /\ Goto(i, stage, Blank)
                 /\ stage # "dropped" => failures'[i] < MaxAttempts
<1> DEFINE stage == IF i \in CliSyncs \/ failures[i] + 1 = MaxAttempts
                    THEN "dropped" ELSE "start"
<1>1. /\ failures' = [failures EXCEPT ![i] = @ + 1]
      /\ Goto(i, stage, Blank) /\ stage \in {"start", "dropped"}
  BY DEF ReturnErr
<1>2. failures \in [Syncs -> 0..MaxAttempts] /\ MaxAttempts \in Nat
  BY SyncAssumption DEF Shapes
<1>3. failures[i] + 1 \in 0..MaxAttempts
  BY <1>2
<1>4. /\ failures' \in [Syncs -> 0..MaxAttempts]
      /\ failures'[i] = failures[i] + 1
      /\ \A j \in Syncs \ {i} : failures'[j] = failures[j]
  BY <1>1, <1>2, <1>3
<1>5. stage # "dropped" => failures'[i] < MaxAttempts
  BY <1>2, <1>3, <1>4
<1> QED BY <1>1, <1>4, <1>5

\* Whatever an attempt that fails has written of folders and mounts.
LEMMA FailedStep ==
    ASSUME IInv, NEW i \in Syncs, ReturnErr(i),
           pc[i] \in {"start", "user", "account", "folders"},
           UNCHANGED world, trigger' \in BOOLEAN,
           folders' \in [FolderNames -> FolderKeys \cup {None}],
           mounts' \in [Users -> SUBSET FolderNames],
           FoldersInv', MountsInv',
           faults' \in [FaultKinds -> 0..MaxFaults],
           faults["transient"] <= faults'["transient"],
           fresh' \in [Syncs -> BOOLEAN], alone' \in [Syncs -> BOOLEAN],
           \A f \in FolderNames : folders[f] # None => folders'[f] # None,
           \A j \in Syncs \ {i} : fresh'[j] = fresh[j] /\ ~alone'[j]
    PROVE  StepOf(i)
<1>1. failures[i] < MaxAttempts /\ Shapes
  BY DEF IInv, SyncInv, StageInv
<1>2. PICK stage \in {"start", "dropped"} :
         Goto(i, stage, Blank) /\ (stage # "dropped" => failures'[i] < MaxAttempts)
  BY <1>1, ReturnErrFacts
<1>3. /\ failures' \in [Syncs -> 0..MaxAttempts]
      /\ \A j \in Syncs \ {i} : failures'[j] = failures[j]
  BY <1>1, ReturnErrFacts
<1>4. Only(i) /\ Shapes' /\ pc'[i] = stage /\ local'[i] = Blank
  <2>1. stage \in Stages /\ Blank \in Locals /\ Goto(i, stage, Blank)
    BY <1>2, BlankFacts DEF Stages
  <2>2. \A j \in Syncs \ {i} : /\ failures'[j] = failures[j]
                               /\ fresh'[j] = fresh[j]
                               /\ alone'[j] => alone[j] /\ UNCHANGED sftpgo
    BY <1>3
  <2> QED BY <1>3, <2>1, <2>2, Frame
<1>5. SyncInv(i)'
  BY <1>2, <1>4, EmptyHands DEF Working
<1> QED BY <1>4, <1>5 DEF StepOf

\* One that writes nothing.
LEMMA FailedQuietly ==
    ASSUME IInv, NEW i \in Syncs, ReturnErr(i),
           pc[i] \in {"start", "user", "account", "folders"},
           UNCHANGED world, trigger' \in BOOLEAN, UNCHANGED sftpgo,
           faults' \in [FaultKinds -> 0..MaxFaults],
           faults["transient"] <= faults'["transient"],
           fresh' \in [Syncs -> BOOLEAN], alone' \in [Syncs -> BOOLEAN],
           \A j \in Syncs \ {i} : fresh'[j] = fresh[j] /\ ~alone'[j]
    PROVE  StepOf(i)
<1>1. UNCHANGED <<folders, mounts, ever>>
  BY DEF world, sftpgo
<1>2. FoldersInv' /\ MountsInv'
  BY <1>1 DEF IInv, FoldersInv, MountsInv, Folder, Namesakes
<1>3. /\ folders' \in [FolderNames -> FolderKeys \cup {None}]
      /\ mounts' \in [Users -> SUBSET FolderNames]
  BY <1>1 DEF IInv, Shapes
<1> QED BY <1>1, <1>2, <1>3, FailedStep

-----------------------------------------------------------------------------
(* The steps up to an account *)

\* A change of groups, buckets or keys is known to no attempt under way.
LEMMA WorldStep ==
    ASSUME IInv,
           \/ \E u \in Users, g \in Groups : ChangeGroups(u, g)
           \/ \E b \in Buckets : ChangeBuckets(b)
           \/ \E u \in Users : RotateKeys(u)
    PROVE  IInv'
<1>1. /\ changes' \in 0..MaxChanges /\ fresh' = [i \in Syncs |-> FALSE]
      /\ UNCHANGED <<trigger, folders, mounts, pc, failures, local, alone, faults>>
  <2>1. changes \in 0..MaxChanges /\ MaxChanges \in Nat
    BY SyncAssumption DEF IInv, Shapes
  <2> QED BY <2>1 DEF ChangeGroups, ChangeBuckets, RotateKeys, Changes, sftpgo
<1>2. /\ groups' \in [Users -> SUBSET Groups] /\ buckets' \subseteq Buckets
      /\ keys' \in [Users -> Nat \ {0}] /\ ever' \in [Users -> SUBSET Stacks]
      /\ \A u \in Users : /\ ever[u] \subseteq ever'[u]
                          /\ groups'[u] \cap Stacks \subseteq ever'[u]
  <2>1. /\ groups \in [Users -> SUBSET Groups] /\ buckets \subseteq Buckets
        /\ keys \in [Users -> Nat \ {0}] /\ ever \in [Users -> SUBSET Stacks]
        /\ \A u \in Users : groups[u] \cap Stacks \subseteq ever[u]
    BY DEF IInv, Shapes, EverInv
  <2>2. CASE \E u \in Users, g \in Groups : ChangeGroups(u, g)
    <3>1. PICK u \in Users, g \in Groups : ChangeGroups(u, g)
      BY <2>2
    <3>2. /\ groups' = [groups EXCEPT ![u] = IF g \in groups[u] THEN groups[u] \ {g}
                                             ELSE groups[u] \cup {g}]
          /\ ever' = [ever EXCEPT ![u] = ever[u] \cup (groups'[u] \cap Stacks)]
          /\ UNCHANGED <<buckets, keys>>
      BY <3>1 DEF ChangeGroups
    <3>3. groups' \in [Users -> SUBSET Groups]
      BY <2>1, <3>2
    <3>4. /\ ever' \in [Users -> SUBSET Stacks]
          /\ ever'[u] = ever[u] \cup (groups'[u] \cap Stacks)
      BY <2>1, <3>2, <3>3
    <3>5. \A v \in Users \ {u} : ever'[v] = ever[v] /\ groups'[v] = groups[v]
      BY <2>1, <3>2
    <3> QED BY <2>1, <3>2, <3>3, <3>4, <3>5
  <2>3. CASE \E b \in Buckets : ChangeBuckets(b)
    BY <2>1, <2>3 DEF ChangeBuckets
  <2>4. CASE \E u \in Users : RotateKeys(u)
    BY <2>1, <2>4 DEF RotateKeys
  <2> QED BY <2>2, <2>3, <2>4
<1>3. Shapes'
  BY <1>1, <1>2 DEF IInv, Shapes
<1>4. EverInv' /\ FoldersInv' /\ MountsInv'
  <2>1. FoldersInv'
    BY <1>1, <1>2 DEF IInv, FoldersInv, Folder, Namesakes
  <2>2. EverInv'
    BY <1>2 DEF EverInv
  <2>3. MountsInv'
    BY <1>1, <1>2 DEF IInv, MountsInv, Folder
  <2> QED BY <2>1, <2>2, <2>3
<1>5. ASSUME NEW i \in Syncs
      PROVE  SyncInv(i)'
  <2>1. StageInv(i) /\ OwnInv(i) /\ AloneInv(i) /\ TriesInv(i)
    BY DEF IInv, SyncInv
  <2>2. /\ UserOf(i)' = UserOf(i) /\ StacksOf(i)' = StacksOf(i)
        /\ Uncached(i)' = Uncached(i) /\ Wanted(i)' = Wanted(i)
        /\ Desired(i)' = Desired(i) /\ \A b : NameFor(i, b)' = NameFor(i, b)
    BY <1>1 DEF UserOf, StacksOf, Uncached, Wanted, Desired, NameFor, Folder
  <2>3. StageInv(i)' /\ AloneInv(i)' /\ TriesInv(i)'
    BY <1>1, <2>1, <2>2 DEF StageInv, AloneInv, TriesInv
  <2>4. OwnInv(i)'
    BY <1>1, <1>2, <2>1, <2>2 DEF OwnInv
  <2>5. FreshInv(i)' /\ SyncedInv(i)'
    BY <1>1 DEF FreshInv, SyncedInv
  <2> QED BY <2>3, <2>4, <2>5 DEF SyncInv
<1> QED BY <1>3, <1>4, <1>5 DEF IInv

\* Who asks for a sync disturbs nobody yet.
LEMMA AskStep ==
    ASSUME IInv, NEW i \in Syncs, Ask(i)
    PROVE  StepOf(i)
<1>1. /\ pc[i] = "idle" /\ Goto(i, "start", Blank)
      /\ trigger' = (trigger \/ i \notin CliSyncs)
      /\ UNCHANGED <<failures, fresh, alone, faults>>
      /\ UNCHANGED world /\ UNCHANGED sftpgo
  BY DEF Ask
<1>2. /\ Shapes /\ failures[i] < MaxAttempts
      /\ faults["transient"] \in 0..MaxFaults
  BY <1>1 DEF IInv, SyncInv, StageInv, Shapes, FaultKinds
<1>3. /\ failures' \in [Syncs -> 0..MaxAttempts] /\ trigger' \in BOOLEAN
      /\ faults' \in [FaultKinds -> 0..MaxFaults]
      /\ fresh' \in [Syncs -> BOOLEAN] /\ alone' \in [Syncs -> BOOLEAN]
      /\ faults["transient"] <= faults'["transient"]
  BY <1>1, <1>2, SyncAssumption DEF Shapes
<1>4. "start" \in Stages /\ Blank \in Locals
  BY BlankFacts DEF Stages
<1>5. /\ Only(i) /\ Shapes' /\ pc'[i] = "start" /\ local'[i] = Blank
      /\ FoldersInv' /\ MountsInv'
  BY <1>1, <1>3, <1>4, QuietStep
<1>6. SyncInv(i)'
  BY <1>1, <1>2, <1>5, EmptyHands DEF Working
<1> QED BY <1>5, <1>6 DEF StepOf

\* A function from the first numbers is a sequence.
LEMMA ArrayFacts ==
    ASSUME NEW S, NEW n \in Nat, NEW r \in [1..n -> S]
    PROVE  r \in Seq(S) /\ Len(r) = n
OBVIOUS

\* Every user with a group is listed, in whatever order.
LEMMA StartStep ==
    ASSUME IInv, NEW i \in Syncs, Start(i)
    PROVE  StepOf(i)
<1> DEFINE eligible == {u \in Users : groups[u] # {}}
<1>1. /\ pc[i] = "start"
      /\ fresh' = [fresh EXCEPT ![i] = TRUE]
      /\ alone' = [j \in Syncs |-> j = i]
      /\ UNCHANGED <<trigger, faults>> /\ UNCHANGED world /\ UNCHANGED sftpgo
  BY DEF Start
<1>2. /\ Shapes /\ failures[i] < MaxAttempts
      /\ faults["transient"] \in 0..MaxFaults
  BY <1>1 DEF IInv, SyncInv, StageInv, Shapes, FaultKinds
<1>3. /\ trigger' \in BOOLEAN /\ faults' \in [FaultKinds -> 0..MaxFaults]
      /\ fresh' \in [Syncs -> BOOLEAN] /\ alone' \in [Syncs -> BOOLEAN]
      /\ faults["transient"] <= faults'["transient"]
      /\ \A j \in Syncs \ {i} : fresh'[j] = fresh[j] /\ ~alone'[j]
  <2>1. /\ fresh \in [Syncs -> BOOLEAN] /\ trigger \in BOOLEAN
        /\ faults \in [FaultKinds -> 0..MaxFaults]
    BY <1>2 DEF Shapes
  <2>2. fresh' \in [Syncs -> BOOLEAN] /\ alone' \in [Syncs -> BOOLEAN]
    BY <1>1, <2>1
  <2>3. \A j \in Syncs \ {i} : fresh'[j] = fresh[j] /\ ~alone'[j]
    BY <1>1, <2>1
  <2>4. faults["transient"] <= faults'["transient"]
    BY <1>1, <1>2, SyncAssumption
  <2> QED BY <1>1, <2>1, <2>2, <2>3, <2>4
<1>4. CASE ReturnErr(i)
  BY <1>1, <1>3, <1>4, FailedQuietly
<1>5. ASSUME NEW roster \in Listings(eligible), UNCHANGED failures,
             Goto(i, "user", [Blank EXCEPT !.roster = roster, !.granted = groups])
      PROVE  StepOf(i)
  <2> DEFINE l == [Blank EXCEPT !.roster = roster, !.granted = groups]
  <2>1. /\ roster \in Seq(Users)
        /\ \A k \in 1..Len(roster) : groups[roster[k]] # {}
        /\ \A u \in eligible : \E k \in 1..Len(roster) : roster[k] = u
    <3>1. IsFiniteSet(eligible)
      BY SyncAssumption, FS_Subset
    <3>2. Cardinality(eligible) \in Nat
      BY <3>1, FS_CardinalityType
    <3>3. /\ roster \in [1..Cardinality(eligible) -> eligible]
          /\ \A u \in eligible : \E k \in DOMAIN roster : roster[k] = u
      BY DEF Listings
    <3>4. roster \in Seq(eligible) /\ Len(roster) = Cardinality(eligible)
      BY <3>2, <3>3, ArrayFacts
    <3>5. DOMAIN roster = 1..Len(roster)
      BY <3>4
    <3>6. \A k \in 1..Len(roster) : roster[k] \in eligible
      BY <3>4
    <3>7. eligible \subseteq Users
      OBVIOUS
    <3> HIDE DEF eligible
    <3>8. roster \in Seq(Users)
      BY <3>4, <3>7
    <3> QED BY <3>3, <3>5, <3>6, <3>8 DEF eligible
  <2>2. /\ l \in Locals /\ l.roster = roster /\ l.granted = groups
        /\ l.names = None /\ l.cache = Blank.cache /\ l.task = Blank.task
        /\ l.tries = Blank.tries
    BY <1>2, <2>1, BlankFacts DEF Locals, Shapes
  <2> HIDE DEF l, eligible
  <2>3. "user" \in Stages /\ Goto(i, "user", l)
    BY <1>5 DEF Stages, l
  <2>4. failures' \in [Syncs -> 0..MaxAttempts] /\ failures' = failures
    BY <1>2, <1>5 DEF Shapes
  <2>5. /\ Only(i) /\ Shapes' /\ pc'[i] = "user" /\ local'[i] = l
        /\ FoldersInv' /\ MountsInv'
        /\ UNCHANGED <<groups, buckets, keys, ever, folders, mounts>>
        /\ \A u \in Users : EligibleBuckets(u)' = EligibleBuckets(u)
    BY <1>1, <1>3, <2>2, <2>3, <2>4, QuietStep
  <2>6. StageInv(i)'
    BY <1>2, <2>2, <2>4, <2>5 DEF StageInv, Working
  <2>7. OwnInv(i)'
    BY <2>2, <2>5, BlankFacts DEF OwnInv, IInv, EverInv
  <2>8. FreshInv(i)' /\ AloneInv(i)'
    BY <2>1, <2>2, <2>5, BlankFacts DEF FreshInv, AloneInv
  <2>9. SyncedInv(i)'
    <3>1. \A u \in Users : EligibleBuckets(u) # {} => u \in eligible
      BY DEF EligibleBuckets, eligible
    <3> QED BY <2>1, <2>2, <2>5, <3>1 DEF SyncedInv
  <2>10. TriesInv(i)'
    BY <1>2, <1>3, <2>2, <2>5, BlankFacts, SyncAssumption DEF TriesInv, Shapes, FaultKinds
  <2>11. SyncInv(i)'
    BY <2>6, <2>7, <2>8, <2>9, <2>10 DEF SyncInv
  <2> QED BY <2>5, <2>11 DEF StepOf
<1> QED BY <1>4, <1>5 DEF Start

\* A step of an attempt at one of its users that only reads.
LEMMA ReadingStep ==
    ASSUME IInv, NEW i \in Syncs, NEW stage \in Working, NEW l \in Locals,
           pc[i] \in Working, Goto(i, stage, l), Steps(i),
           UNCHANGED <<trigger, failures>>, UNCHANGED world, UNCHANGED sftpgo,
           faults' \in [FaultKinds -> 0..MaxFaults],
           faults["transient"] <= faults'["transient"],
           fresh' \in [Syncs -> BOOLEAN],
           fresh'[i] => fresh[i], \A j \in Syncs \ {i} : fresh'[j] = fresh[j]
    PROVE  /\ Only(i) /\ Shapes' /\ pc'[i] = stage /\ local'[i] = l
           /\ FoldersInv' /\ MountsInv'
           /\ UNCHANGED <<groups, buckets, keys, ever, folders, mounts>>
           /\ failures'[i] < MaxAttempts /\ alone'[i] = alone[i]
           /\ faults["transient"] \in Nat /\ faults'["transient"] \in Nat
           /\ (fresh[i] => \A u \in Users :
                 \/ EligibleBuckets(u) = {}
                 \/ \E k \in 1..Len(l.roster) : l.roster[k] = u
                 \/ \A k \in 1..Len(local[i].roster) : local[i].roster[k] # u)
              => SyncedInv(i)'
<1>1. /\ Shapes /\ failures[i] < MaxAttempts /\ stage \in Stages
      /\ faults["transient"] \in Nat /\ faults'["transient"] \in Nat
  <2>1. Shapes /\ StageInv(i)
    BY DEF IInv, SyncInv
  <2>2. failures[i] < MaxAttempts /\ stage \in Stages
    BY <2>1 DEF StageInv, Working, Stages
  <2>3. faults["transient"] \in 0..MaxFaults /\ faults'["transient"] \in 0..MaxFaults
    BY <2>1 DEF Shapes, FaultKinds
  <2> QED BY <2>1, <2>2, <2>3
<1>2. /\ alone' \in [Syncs -> BOOLEAN] /\ alone'[i] = alone[i]
      /\ \A j \in Syncs \ {i} : ~alone'[j]
  BY <1>1, StepsFacts
<1>3. failures' \in [Syncs -> 0..MaxAttempts] /\ trigger' \in BOOLEAN
  BY <1>1 DEF Shapes
<1>4. \A j \in Syncs \ {i} : /\ failures'[j] = failures[j]
                             /\ fresh'[j] = fresh[j]
                             /\ alone'[j] => alone[j]
  BY <1>2
<1>5. /\ Only(i) /\ Shapes' /\ pc'[i] = stage /\ local'[i] = l
      /\ FoldersInv' /\ MountsInv'
      /\ UNCHANGED <<groups, buckets, keys, ever, folders, mounts>>
      /\ \A u \in Users : EligibleBuckets(u)' = EligibleBuckets(u)
                          /\ InSync(u)' = InSync(u)
  BY <1>1, <1>2, <1>3, <1>4, QuietStep
<1>6. ASSUME fresh[i] => \A u \in Users :
                \/ EligibleBuckets(u) = {}
                \/ \E k \in 1..Len(l.roster) : l.roster[k] = u
                \/ \A k \in 1..Len(local[i].roster) : local[i].roster[k] # u
      PROVE  SyncedInv(i)'
  <2>1. SyncedInv(i)
    BY DEF IInv, SyncInv
  <2>2. ASSUME fresh'[i], alone'[i], NEW u \in Users
        PROVE  \/ EligibleBuckets(u)' = {} \/ InSync(u)'
               \/ \E k \in 1..Len(l.roster) : l.roster[k] = u
    <3>1. fresh[i] /\ alone[i]
      BY <1>2, <2>2
    <3>2. \/ EligibleBuckets(u) = {} \/ InSync(u)
          \/ \E k \in 1..Len(local[i].roster) : local[i].roster[k] = u
      BY <2>1, <3>1 DEF SyncedInv
    <3> QED BY <1>5, <1>6, <3>1, <3>2
  <2>3. pc'[i] # "ok"
    BY <1>5 DEF Working
  <2> QED BY <1>5, <2>2, <2>3 DEF SyncedInv
<1> QED BY <1>1, <1>2, <1>5, <1>6

\* The names of the buckets are those that are there.
LEMMA ListNamesStep ==
    ASSUME IInv, NEW i \in Syncs, ListNames(i)
    PROVE  StepOf(i)
<1> DEFINE l == [local[i] EXCEPT !.names = buckets]
<1>1. /\ pc[i] = "user" /\ local[i].roster # <<>> /\ Steps(i)
      /\ UNCHANGED <<trigger, failures, fresh, faults>>
      /\ UNCHANGED world /\ UNCHANGED sftpgo
      /\ Goto(i, "user", l)
  BY DEF ListNames, AtUser, Stay
<1>2. /\ Shapes /\ local[i] \in Locals /\ buckets \subseteq Buckets
      /\ faults["transient"] \in 0..MaxFaults /\ SyncInv(i)
      /\ fresh \in [Syncs -> BOOLEAN] /\ faults \in [FaultKinds -> 0..MaxFaults]
  BY DEF IInv, Shapes, FaultKinds
<1>3. /\ l \in Locals /\ l.names = buckets /\ l.granted = local[i].granted
      /\ l.cache = local[i].cache /\ l.task = local[i].task
      /\ l.tries = local[i].tries /\ l.roster = local[i].roster
  BY <1>2 DEF Locals
<1> HIDE DEF l
<1>4. /\ Only(i) /\ Shapes' /\ pc'[i] = "user" /\ local'[i] = l
      /\ FoldersInv' /\ MountsInv' /\ SyncedInv(i)'
      /\ UNCHANGED <<groups, buckets, keys, ever, folders, mounts>>
      /\ failures'[i] < MaxAttempts
  <2>1. "user" \in Working /\ pc[i] \in Working
    BY <1>1 DEF Working
  <2>2. \A u \in Users : \/ \E k \in 1..Len(l.roster) : l.roster[k] = u
                         \/ \A k \in 1..Len(local[i].roster) : local[i].roster[k] # u
    BY <1>3
  <2>3. faults["transient"] <= faults["transient"]
    BY <1>2, SyncAssumption
  <2> QED BY <1>1, <1>2, <1>3, <2>1, <2>2, <2>3, ReadingStep
<1>5. StageInv(i)' /\ OwnInv(i)' /\ FreshInv(i)' /\ AloneInv(i)' /\ TriesInv(i)'
  <2>1. StageInv(i)'
    BY <1>1, <1>2, <1>3, <1>4 DEF SyncInv, StageInv, Working
  <2>2. OwnInv(i)'
    BY <1>1, <1>2, <1>3, <1>4 DEF SyncInv, OwnInv
  <2>3. FreshInv(i)'
    BY <1>1, <1>2, <1>3, <1>4 DEF SyncInv, FreshInv, Working
  <2>4. AloneInv(i)' /\ TriesInv(i)'
    BY <1>1, <1>2, <1>3, <1>4 DEF SyncInv, AloneInv, TriesInv
  <2> QED BY <2>1, <2>2, <2>3, <2>4
<1> QED BY <1>4, <1>5 DEF StepOf, SyncInv

\* A stack's buckets are those that are there, unless one's tags were refused.
LEMMA FetchStackStep ==
    ASSUME IInv, NEW i \in Syncs, NEW s \in Stacks, FetchStack(i, s)
    PROVE  StepOf(i)
<1> DEFINE found == {b \in local[i].names \cap buckets : StackOf[b] = s}
<1>1. /\ pc[i] = "user" /\ local[i].roster # <<>> /\ Steps(i)
      /\ local[i].names # None
      /\ UNCHANGED <<trigger, failures>>
      /\ UNCHANGED world /\ UNCHANGED sftpgo
  BY DEF FetchStack, AtUser
<1>2. /\ Shapes /\ local[i] \in Locals /\ buckets \subseteq Buckets
      /\ faults["transient"] \in 0..MaxFaults /\ SyncInv(i)
      /\ fresh \in [Syncs -> BOOLEAN] /\ faults \in [FaultKinds -> 0..MaxFaults]
  BY DEF IInv, Shapes, FaultKinds
<1>3. PICK kept \in SUBSET found :
         /\ Goto(i, "user", [local[i] EXCEPT !.cache[s] = kept])
         /\ \/ kept = found /\ UNCHANGED <<fresh, faults>>
            \/ Fault("untagged") /\ fresh' = [fresh EXCEPT ![i] = FALSE]
  <2>1. ASSUME Stay(i, [local[i] EXCEPT !.cache[s] = found]), UNCHANGED <<fresh, faults>>
        PROVE  \E kept \in SUBSET found :
                 /\ Goto(i, "user", [local[i] EXCEPT !.cache[s] = kept])
                 /\ kept = found /\ UNCHANGED <<fresh, faults>>
    BY <1>1, <2>1 DEF Stay
  <2>2. ASSUME NEW b \in found, Fault("untagged"),
               Stay(i, [local[i] EXCEPT !.cache[s] = found \ {b}]),
               fresh' = [fresh EXCEPT ![i] = FALSE]
        PROVE  \E kept \in SUBSET found :
                 /\ Goto(i, "user", [local[i] EXCEPT !.cache[s] = kept])
                 /\ Fault("untagged") /\ fresh' = [fresh EXCEPT ![i] = FALSE]
    <3>1. found \ {b} \in SUBSET found
      OBVIOUS
    <3>2. Goto(i, "user", [local[i] EXCEPT !.cache[s] = found \ {b}])
      BY <1>1, <2>2 DEF Stay
    <3> QED BY <2>2, <3>1, <3>2
  <2> QED BY <2>1, <2>2 DEF FetchStack
<1>4. kept \subseteq Buckets /\ \A b \in kept : StackOf[b] = s
  BY <1>2
<1> DEFINE l == [local[i] EXCEPT !.cache[s] = kept]
<1>5. /\ l \in Locals /\ l.names = local[i].names /\ l.granted = local[i].granted
      /\ l.cache = [local[i].cache EXCEPT ![s] = kept] /\ l.task = local[i].task
      /\ l.tries = local[i].tries /\ l.roster = local[i].roster
  BY <1>2, <1>4 DEF Locals
<1>6. /\ l.cache[s] = kept
      /\ \A t \in Stacks \ {s} : l.cache[t] = local[i].cache[t]
  <2>1. local[i].cache \in [Stacks -> (SUBSET Buckets) \cup {None}]
    BY <1>2 DEF Locals
  <2> QED BY <1>5, <2>1
<1>7. Goto(i, "user", l)
  BY <1>3
<1> HIDE DEF l
<1>8. /\ faults' \in [FaultKinds -> 0..MaxFaults] /\ fresh' \in [Syncs -> BOOLEAN]
      /\ faults["transient"] <= faults'["transient"]
      /\ fresh'[i] => fresh[i] /\ kept = found
      /\ \A j \in Syncs \ {i} : fresh'[j] = fresh[j]
  <2>1. CASE kept = found /\ UNCHANGED <<fresh, faults>>
    BY <1>2, <2>1, SyncAssumption
  <2>2. CASE Fault("untagged") /\ fresh' = [fresh EXCEPT ![i] = FALSE]
    <3>1. /\ faults' \in [FaultKinds -> 0..MaxFaults]
          /\ faults["transient"] <= faults'["transient"]
      BY <1>2, <2>2, FaultFacts DEF FaultKinds
    <3> QED BY <1>2, <2>2, <3>1
  <2> QED BY <1>3, <2>1, <2>2
<1>9. /\ Only(i) /\ Shapes' /\ pc'[i] = "user" /\ local'[i] = l
      /\ FoldersInv' /\ MountsInv' /\ SyncedInv(i)'
      /\ UNCHANGED <<groups, buckets, keys, ever, folders, mounts>>
      /\ failures'[i] < MaxAttempts
      /\ faults["transient"] \in Nat /\ faults'["transient"] \in Nat
  <2>1. "user" \in Working /\ pc[i] \in Working
    BY <1>1 DEF Working
  <2>2. \A u \in Users : \/ \E k \in 1..Len(l.roster) : l.roster[k] = u
                         \/ \A k \in 1..Len(local[i].roster) : local[i].roster[k] # u
    BY <1>5
  <2>3. (fresh[i] => \A u \in Users :
            \/ EligibleBuckets(u) = {}
            \/ \E k \in 1..Len(l.roster) : l.roster[k] = u
            \/ \A k \in 1..Len(local[i].roster) : local[i].roster[k] # u)
        => SyncedInv(i)'
    BY <1>1, <1>2, <1>5, <1>7, <1>8, <2>1, ReadingStep
  <2>4. /\ Only(i) /\ Shapes' /\ pc'[i] = "user" /\ local'[i] = l
        /\ FoldersInv' /\ MountsInv'
        /\ UNCHANGED <<groups, buckets, keys, ever, folders, mounts>>
        /\ failures'[i] < MaxAttempts
        /\ faults["transient"] \in Nat /\ faults'["transient"] \in Nat
    BY <1>1, <1>2, <1>5, <1>7, <1>8, <2>1, ReadingStep
  <2> QED BY <2>2, <2>3, <2>4
<1>10. StageInv(i)' /\ AloneInv(i)'
  BY <1>1, <1>2, <1>5, <1>9 DEF SyncInv, StageInv, AloneInv, Working
<1>11. OwnInv(i)'
  BY <1>1, <1>2, <1>4, <1>5, <1>6, <1>9 DEF SyncInv, OwnInv
<1>12. FreshInv(i)'
  <2> SUFFICES ASSUME fresh'[i]
               PROVE  /\ l.granted = groups
                      /\ l.names # None => l.names = buckets
                      /\ \A t \in Stacks : l.cache[t] # None =>
                            l.cache[t] = {b \in buckets : StackOf[b] = t}
                      /\ \A k \in 1..Len(l.roster) : groups[l.roster[k]] # {}
    BY <1>9 DEF FreshInv
  <2>1. fresh[i] /\ kept = found
    BY <1>8
  <2>2. /\ local[i].granted = groups /\ local[i].names = buckets
        /\ \A t \in Stacks : local[i].cache[t] # None =>
              local[i].cache[t] = {b \in buckets : StackOf[b] = t}
        /\ \A k \in 1..Len(local[i].roster) : groups[local[i].roster[k]] # {}
    BY <1>1, <1>2, <2>1 DEF SyncInv, FreshInv, Working
  <2>3. kept = {b \in buckets : StackOf[b] = s}
    BY <2>1, <2>2
  <2> QED BY <1>5, <1>6, <2>2, <2>3
<1>13. TriesInv(i)'
  <2>1. local[i].tries \in [Buckets -> 1..MAX_FOLDER_ATTEMPTS]
    BY <1>2 DEF Locals
  <2> QED BY <1>2, <1>5, <1>8, <1>9, <2>1, SyncAssumption DEF SyncInv, TriesInv
<1> QED BY <1>9, <1>10, <1>11, <1>12, <1>13 DEF StepOf, SyncInv

\* A user is passed over who has no buckets.
LEMMA SkipUserStep ==
    ASSUME IInv, NEW i \in Syncs, SkipUser(i)
    PROVE  StepOf(i)
<1> DEFINE l == [local[i] EXCEPT !.roster = Tail(local[i].roster)]
<1>1. /\ pc[i] = "user" /\ local[i].roster # <<>> /\ Steps(i)
      /\ Uncached(i) = {} /\ Wanted(i) = {}
      /\ UNCHANGED <<trigger, failures, fresh, faults>>
      /\ UNCHANGED world /\ UNCHANGED sftpgo
      /\ Goto(i, "user", l)
  BY DEF SkipUser, AtUser, Stay
<1>2. /\ Shapes /\ faults["transient"] \in 0..MaxFaults /\ SyncInv(i)
      /\ fresh \in [Syncs -> BOOLEAN] /\ faults \in [FaultKinds -> 0..MaxFaults]
  BY DEF IInv, Shapes, FaultKinds
<1>3. /\ local[i] \in Locals /\ UserOf(i) \in Users
      /\ UserOf(i) = local[i].roster[1]
      /\ Tail(local[i].roster) \in Seq(Users)
      /\ \A k \in 1..Len(Tail(local[i].roster)) :
            /\ k + 1 \in 1..Len(local[i].roster)
            /\ Tail(local[i].roster)[k] = local[i].roster[k + 1]
      /\ \A k \in 1..Len(local[i].roster) :
            \/ k = 1
            \/ /\ k - 1 \in 1..Len(Tail(local[i].roster))
               /\ Tail(local[i].roster)[k - 1] = local[i].roster[k]
  BY <1>1, <1>2, UserFacts
<1>4. /\ l \in Locals /\ l.names = local[i].names /\ l.granted = local[i].granted
      /\ l.cache = local[i].cache /\ l.task = local[i].task
      /\ l.tries = local[i].tries /\ l.roster = Tail(local[i].roster)
  BY <1>3 DEF Locals
<1> HIDE DEF l
<1>5. /\ Only(i) /\ Shapes' /\ pc'[i] = "user" /\ local'[i] = l
      /\ FoldersInv' /\ MountsInv' /\ SyncedInv(i)'
      /\ UNCHANGED <<groups, buckets, keys, ever, folders, mounts>>
      /\ failures'[i] < MaxAttempts
  <2>1. "user" \in Working /\ pc[i] \in Working
    BY <1>1 DEF Working
  <2>2. fresh[i] => EligibleBuckets(UserOf(i)) = {}
    BY <1>1, <2>1, WantedFacts
  <2>3. fresh[i] => \A u \in Users :
           \/ EligibleBuckets(u) = {}
           \/ \E k \in 1..Len(l.roster) : l.roster[k] = u
           \/ \A k \in 1..Len(local[i].roster) : local[i].roster[k] # u
    BY <1>3, <1>4, <2>2
  <2>4. faults["transient"] <= faults["transient"]
    BY <1>2, SyncAssumption
  <2>5. (fresh[i] => \A u \in Users :
            \/ EligibleBuckets(u) = {}
            \/ \E k \in 1..Len(l.roster) : l.roster[k] = u
            \/ \A k \in 1..Len(local[i].roster) : local[i].roster[k] # u)
        => SyncedInv(i)'
    BY <1>1, <1>2, <1>4, <2>1, <2>4, ReadingStep
  <2>6. /\ Only(i) /\ Shapes' /\ pc'[i] = "user" /\ local'[i] = l
        /\ FoldersInv' /\ MountsInv'
        /\ UNCHANGED <<groups, buckets, keys, ever, folders, mounts>>
        /\ failures'[i] < MaxAttempts
    BY <1>1, <1>2, <1>4, <2>1, <2>4, ReadingStep
  <2> QED BY <2>3, <2>5, <2>6
<1>6. StageInv(i)' /\ AloneInv(i)' /\ OwnInv(i)' /\ TriesInv(i)'
  BY <1>1, <1>2, <1>4, <1>5 DEF SyncInv, StageInv, AloneInv, OwnInv, TriesInv, Working
<1>7. FreshInv(i)'
  <2>1. fresh[i] => \A k \in 1..Len(l.roster) : groups[l.roster[k]] # {}
    <3> SUFFICES ASSUME fresh[i], NEW k \in 1..Len(l.roster)
                 PROVE  groups[l.roster[k]] # {}
      OBVIOUS
    <3>1. k + 1 \in 1..Len(local[i].roster) /\ l.roster[k] = local[i].roster[k + 1]
      BY <1>3, <1>4
    <3>2. \A m \in 1..Len(local[i].roster) : groups[local[i].roster[m]] # {}
      BY <1>1, <1>2 DEF SyncInv, FreshInv, Working
    <3> QED BY <3>1, <3>2
  <2> QED BY <1>1, <1>2, <1>4, <1>5, <2>1 DEF SyncInv, FreshInv, Working
<1> QED BY <1>5, <1>6, <1>7 DEF StepOf, SyncInv

\* The keys are the user's own of this moment.
LEMMA ReadKeysStep ==
    ASSUME IInv, NEW i \in Syncs, ReadKeys(i)
    PROVE  StepOf(i)
<1> DEFINE l == [local[i] EXCEPT !.key = keys[UserOf(i)]]
<1>1. /\ pc[i] = "user" /\ local[i].roster # <<>> /\ Steps(i)
      /\ Uncached(i) = {} /\ Wanted(i) # {}
      /\ UNCHANGED <<trigger, failures, fresh, faults>>
      /\ UNCHANGED world /\ UNCHANGED sftpgo
      /\ Goto(i, "account", l)
  BY DEF ReadKeys, AtUser
<1>2. /\ Shapes /\ faults["transient"] \in 0..MaxFaults /\ SyncInv(i)
      /\ fresh \in [Syncs -> BOOLEAN] /\ faults \in [FaultKinds -> 0..MaxFaults]
      /\ keys \in [Users -> Nat \ {0}]
  BY DEF IInv, Shapes, FaultKinds
<1>3. local[i] \in Locals /\ UserOf(i) \in Users
  BY <1>1, <1>2, UserFacts
<1>4. /\ l \in Locals /\ l.names = local[i].names /\ l.granted = local[i].granted
      /\ l.cache = local[i].cache /\ l.task = local[i].task
      /\ l.tries = local[i].tries /\ l.roster = local[i].roster
      /\ l.key = keys[UserOf(i)] /\ l.key > 0
  <2>1. keys[UserOf(i)] \in Nat \ {0}
    BY <1>2, <1>3
  <2> DEFINE key == keys[UserOf(i)]
  <2>2. key \in Nat /\ key > 0
    BY <2>1
  <2> HIDE DEF key
  <2>3. l = [local[i] EXCEPT !.key = key]
    BY DEF key
  <2> QED BY <1>3, <2>2, <2>3 DEF Locals, key
<1> HIDE DEF l
<1>5. /\ Only(i) /\ Shapes' /\ pc'[i] = "account" /\ local'[i] = l
      /\ FoldersInv' /\ MountsInv' /\ SyncedInv(i)'
      /\ UNCHANGED <<groups, buckets, keys, ever, folders, mounts>>
      /\ failures'[i] < MaxAttempts
  <2>1. "account" \in Working /\ pc[i] \in Working
    BY <1>1 DEF Working
  <2>2. \A u \in Users : \/ \E k \in 1..Len(l.roster) : l.roster[k] = u
                         \/ \A k \in 1..Len(local[i].roster) : local[i].roster[k] # u
    BY <1>4
  <2>3. faults["transient"] <= faults["transient"]
    BY <1>2, SyncAssumption
  <2>4. (fresh[i] => \A u \in Users :
            \/ EligibleBuckets(u) = {}
            \/ \E k \in 1..Len(l.roster) : l.roster[k] = u
            \/ \A k \in 1..Len(local[i].roster) : local[i].roster[k] # u)
        => SyncedInv(i)'
    BY <1>1, <1>2, <1>4, <2>1, <2>3, ReadingStep
  <2>5. /\ Only(i) /\ Shapes' /\ pc'[i] = "account" /\ local'[i] = l
        /\ FoldersInv' /\ MountsInv'
        /\ UNCHANGED <<groups, buckets, keys, ever, folders, mounts>>
        /\ failures'[i] < MaxAttempts
    BY <1>1, <1>2, <1>4, <2>1, <2>3, ReadingStep
  <2> QED BY <2>2, <2>4, <2>5
<1>6. /\ UserOf(i)' = UserOf(i) /\ StacksOf(i)' = StacksOf(i)
      /\ Uncached(i)' = Uncached(i) /\ Wanted(i)' = Wanted(i)
  BY <1>4, <1>5 DEF UserOf, StacksOf, Uncached, Wanted
<1>7. StageInv(i)'
  BY <1>1, <1>2, <1>4, <1>5, <1>6 DEF SyncInv, StageInv, Working
<1>8. AloneInv(i)' /\ OwnInv(i)' /\ TriesInv(i)'
  BY <1>1, <1>2, <1>4, <1>5 DEF SyncInv, AloneInv, OwnInv, TriesInv
<1>9. FreshInv(i)'
  BY <1>1, <1>2, <1>4, <1>5, <1>6 DEF SyncInv, FreshInv, Working
<1> QED BY <1>5, <1>7, <1>8, <1>9 DEF StepOf, SyncInv

\* A user with an account gets a task for each of his buckets.
LEMMA ReadAccountStep ==
    ASSUME IInv, NEW i \in Syncs, ReadAccount(i)
    PROVE  StepOf(i)
<1> DEFINE t == [b \in Buckets |-> IF b \in Wanted(i) THEN "probe" ELSE "none"]
           l == [local[i] EXCEPT !.task = t, !.tries = Blank.tries]
<1>1. /\ pc[i] = "account" /\ Steps(i)
      /\ UNCHANGED <<trigger, fresh, faults>>
      /\ UNCHANGED world /\ UNCHANGED sftpgo
      /\ \/ Goto(i, "folders", l) /\ UNCHANGED failures
         \/ ReturnErr(i)
  BY DEF ReadAccount
<1>2. /\ Shapes /\ faults["transient"] \in 0..MaxFaults /\ SyncInv(i)
      /\ fresh \in [Syncs -> BOOLEAN] /\ faults \in [FaultKinds -> 0..MaxFaults]
      /\ trigger \in BOOLEAN
  BY DEF IInv, Shapes, FaultKinds
<1>3. faults["transient"] <= faults'["transient"]
  BY <1>1, <1>2, SyncAssumption
<1>4. CASE ReturnErr(i)
  <2>1. /\ alone' \in [Syncs -> BOOLEAN]
        /\ \A j \in Syncs \ {i} : fresh'[j] = fresh[j] /\ ~alone'[j]
    BY <1>1, <1>2, StepsFacts
  <2> QED BY <1>1, <1>2, <1>3, <1>4, <2>1, FailedQuietly
<1>5. CASE Goto(i, "folders", l) /\ UNCHANGED failures
  <2>1. /\ local[i] \in Locals /\ local[i].roster # <<>> /\ Uncached(i) = {}
        /\ Wanted(i) # {} /\ local[i].key > 0
    BY <1>1, <1>2, UserFacts DEF SyncInv, StageInv
  <2>2. Wanted(i) \subseteq Buckets
    BY <2>1, WantedFacts
  <2>3. /\ t \in [Buckets -> Tasks]
        /\ \A b \in Buckets : (t[b] = "probe" <=> b \in Wanted(i))
                              /\ (t[b] = "none" <=> b \notin Wanted(i))
    BY DEF Tasks
  <2> HIDE DEF t
  <2>4. /\ l \in Locals /\ l.names = local[i].names /\ l.granted = local[i].granted
        /\ l.cache = local[i].cache /\ l.task = t /\ l.key = local[i].key
        /\ l.tries = Blank.tries /\ l.roster = local[i].roster
    BY <2>1, <2>3, BlankFacts DEF Locals
  <2> HIDE DEF l
  <2>5. /\ Only(i) /\ Shapes' /\ pc'[i] = "folders" /\ local'[i] = l
        /\ FoldersInv' /\ MountsInv' /\ SyncedInv(i)'
        /\ UNCHANGED <<groups, buckets, keys, ever, folders, mounts>>
        /\ failures'[i] < MaxAttempts
    <3>1. "folders" \in Working /\ pc[i] \in Working
      BY <1>1 DEF Working
    <3>2. \A u \in Users :
             \/ \E k \in 1..Len(l.roster) : l.roster[k] = u
             \/ \A k \in 1..Len(local[i].roster) : local[i].roster[k] # u
      BY <2>4
    <3>3. (fresh[i] => \A u \in Users :
              \/ EligibleBuckets(u) = {}
              \/ \E k \in 1..Len(l.roster) : l.roster[k] = u
              \/ \A k \in 1..Len(local[i].roster) : local[i].roster[k] # u)
          => SyncedInv(i)'
      BY <1>1, <1>2, <1>3, <1>5, <2>4, <3>1, ReadingStep
    <3>4. /\ Only(i) /\ Shapes' /\ pc'[i] = "folders" /\ local'[i] = l
          /\ FoldersInv' /\ MountsInv'
          /\ UNCHANGED <<groups, buckets, keys, ever, folders, mounts>>
          /\ failures'[i] < MaxAttempts
      BY <1>1, <1>2, <1>3, <1>5, <2>4, <3>1, ReadingStep
    <3> QED BY <3>2, <3>3, <3>4
  <2>6. /\ UserOf(i)' = UserOf(i) /\ StacksOf(i)' = StacksOf(i)
        /\ Uncached(i)' = Uncached(i) /\ Wanted(i)' = Wanted(i)
    BY <2>4, <2>5 DEF UserOf, StacksOf, Uncached, Wanted
  <2>7. StageInv(i)'
    BY <2>1, <2>3, <2>4, <2>5, <2>6 DEF StageInv, Working
  <2>8. OwnInv(i)' /\ AloneInv(i)'
    <3>1. \A b \in Buckets : t[b] # "done" /\ t[b] # "post"
      BY <2>3
    <3> QED BY <1>2, <2>4, <2>5, <3>1 DEF SyncInv, OwnInv, AloneInv
  <2>9. TriesInv(i)'
    BY <1>1, <1>2, <2>4, <2>5, BlankFacts, SyncAssumption DEF TriesInv
  <2>10. FreshInv(i)'
    BY <1>1, <1>2, <2>4, <2>5, <2>6 DEF SyncInv, FreshInv, Working
  <2> QED BY <2>5, <2>7, <2>8, <2>9, <2>10 DEF StepOf, SyncInv
<1> QED BY <1>1, <1>4, <1>5

-----------------------------------------------------------------------------
(* The upserts of folders *)

\* What is written are folders of the user's stacks, with his keys of the time.
LEMMA WrittenFacts ==
    ASSUME IInv, NEW i \in Syncs, pc[i] = "folders",
           NEW W \in SUBSET Wanted(i), folders' = Written(i, W),
           UNCHANGED <<mounts, ever>>
    PROVE  /\ folders' \in [FolderNames -> FolderKeys \cup {None}]
           /\ UserOf(i) \in Users /\ Desired(i) \in FolderKeys /\ Desired(i) # None
           /\ \A f \in FolderNames : folders[f] # None => folders'[f] # None
           /\ \A b \in W : folders'[NameFor(i, b)] = Desired(i)
           /\ \A b \in Buckets \ W : folders'[NameFor(i, b)] = folders[NameFor(i, b)]
           /\ \A u \in Users, b \in Buckets :
                 \/ folders'[Folder(u, b)] = folders[Folder(u, b)]
                 \/ /\ UserOf(i) \in Namesakes(u) /\ b \in W
                    /\ folders'[Folder(u, b)] = Desired(i)
           /\ FoldersInv' /\ MountsInv'
<1>1. /\ local[i].roster # <<>> /\ local[i].key > 0 /\ Shapes
      /\ local[i].key \in Nat /\ Uncached(i) = {}
  BY DEF IInv, SyncInv, StageInv, Shapes, Locals
<1>2. /\ UserOf(i) \in Users /\ W \subseteq Buckets
      /\ \A b \in W : StackOf[b] \in ever[UserOf(i)]
  BY <1>1, UserFacts, WantedFacts
<1>3. Desired(i) \in FolderKeys /\ Desired(i) # None /\ Desired(i).user = UserOf(i)
  <2>1. local[i].key \in Nat \ {0}
    BY <1>1
  <2>2. Desired(i) \in [user : Users, key : Nat] /\ Desired(i).user = UserOf(i)
    BY <1>2, <2>1 DEF Desired
  <2>3. Desired(i) \in FolderKeys
    BY <1>2, <2>1 DEF Desired, FolderKeys
  <2> QED BY <2>2, <2>3, SyncAssumption
<1>4. \A b \in Buckets : NameFor(i, b) \in FolderNames
  BY <1>2, FolderFacts DEF NameFor
<1>5. \A f \in FolderNames :
         folders'[f] = IF \E b \in W : f = NameFor(i, b) THEN Desired(i) ELSE folders[f]
  BY DEF Written
<1>6. folders' \in [FolderNames -> FolderKeys \cup {None}]
  BY <1>1, <1>3 DEF Written, Shapes
<1>7. \A f \in FolderNames : folders[f] # None => folders'[f] # None
  BY <1>3, <1>5
<1>8. \A u \in Users, b \in Buckets :
         \/ folders'[Folder(u, b)] = folders[Folder(u, b)]
         \/ /\ UserOf(i) \in Namesakes(u) /\ b \in W
            /\ folders'[Folder(u, b)] = Desired(i)
  BY <1>2, <1>5, FolderFacts DEF NameFor
<1>9. /\ \A b \in W : folders'[NameFor(i, b)] = Desired(i)
      /\ \A b \in Buckets \ W : folders'[NameFor(i, b)] = folders[NameFor(i, b)]
  BY <1>2, <1>4, <1>5, FolderFacts DEF NameFor
<1>10. FoldersInv'
  <2> SUFFICES ASSUME NEW u \in Users, NEW b \in Buckets,
                      folders'[Folder(u, b)] # None
               PROVE  \E v \in Namesakes(u) :
                         folders'[Folder(u, b)].user = v /\ StackOf[b] \in ever[v]
    BY DEF FoldersInv, Folder, Namesakes
  <2>1. CASE folders'[Folder(u, b)] = folders[Folder(u, b)]
    BY <2>1 DEF IInv, FoldersInv
  <2>2. CASE UserOf(i) \in Namesakes(u) /\ b \in W /\ folders'[Folder(u, b)] = Desired(i)
    BY <1>2, <1>3, <2>2
  <2> QED BY <1>8, <2>1, <2>2
<1>11. MountsInv'
  <2> SUFFICES ASSUME NEW u \in Users, NEW f \in mounts[u]
               PROVE  /\ folders'[f] # None
                      /\ \E b \in Buckets : f = Folder(u, b) /\ StackOf[b] \in ever[u]
    BY DEF MountsInv, Folder
  <2>1. /\ folders[f] # None
        /\ \E b \in Buckets : f = Folder(u, b) /\ StackOf[b] \in ever[u]
    BY DEF IInv, MountsInv
  <2>2. f \in FolderNames
    BY <2>1, FolderFacts
  <2> QED BY <1>7, <2>1, <2>2
<1> QED BY <1>2, <1>3, <1>6, <1>7, <1>8, <1>9, <1>10, <1>11

\* Nothing is in flight but the calls of folder tasks.
LEMMA LandedFacts ==
    ASSUME IInv, NEW i \in Syncs, NEW W \in SUBSET InFlight(i),
           folders' = Written(i, W), UNCHANGED <<mounts, ever>>
    PROVE  /\ folders' \in [FolderNames -> FolderKeys \cup {None}]
           /\ \A f \in FolderNames : folders[f] # None => folders'[f] # None
           /\ FoldersInv' /\ MountsInv'
<1>1. CASE pc[i] = "folders"
  <2>1. W \in SUBSET Wanted(i)
    BY <1>1 DEF InFlight, IInv, SyncInv, StageInv
  <2> QED BY <1>1, <2>1, WrittenFacts
<1>2. CASE pc[i] # "folders"
  <2>1. local[i].task = Blank.task
    BY <1>2 DEF IInv, SyncInv, StageInv
  <2>2. W = {}
    BY <2>1, BlankFacts DEF InFlight
  <2>3. folders \in [FolderNames -> FolderKeys \cup {None}]
    BY DEF IInv, Shapes
  <2>4. folders' = folders
    BY <2>2, <2>3 DEF Written
  <2>5. FoldersInv' /\ MountsInv'
    BY <2>4 DEF IInv, FoldersInv, MountsInv, Folder, Namesakes
  <2> QED BY <2>3, <2>4, <2>5
<1> QED BY <1>1, <1>2

\* A step of the task of one folder.
LEMMA FolderStep ==
    ASSUME IInv, NEW i \in Syncs, pc[i] = "folders", Steps(i),
           UNCHANGED <<trigger, mounts, failures, fresh>>, UNCHANGED world,
           faults' \in [FaultKinds -> 0..MaxFaults],
           faults["transient"] <= faults'["transient"],
           NEW b \in Buckets, NEW W \in SUBSET {b}, folders' = Written(i, W),
           NEW what \in Tasks \ {"none"}, NEW tries \in 1..MAX_FOLDER_ATTEMPTS,
           Goto(i, "folders", [local[i] EXCEPT !.task[b] = what, !.tries[b] = tries]),
           local[i].task[b] # "none",
           what = "done" => folders'[NameFor(i, b)] = Desired(i),
           what = "post" => folders'[NameFor(i, b)] = None,
           tries <= 1 + faults'["transient"]
    PROVE  StepOf(i)
<1> DEFINE l == [local[i] EXCEPT !.task[b] = what, !.tries[b] = tries]
<1>1. /\ Shapes /\ SyncInv(i) /\ local[i] \in Locals
      /\ failures \in [Syncs -> 0..MaxAttempts] /\ trigger \in BOOLEAN
      /\ fresh \in [Syncs -> BOOLEAN] /\ mounts \in [Users -> SUBSET FolderNames]
  BY DEF IInv, Shapes
<1>2. /\ local[i].task \in [Buckets -> Tasks]
      /\ local[i].tries \in [Buckets -> 1..MAX_FOLDER_ATTEMPTS]
      /\ local[i].roster \in Seq(Users)
  BY <1>1 DEF Locals
<1>3. /\ l \in Locals /\ l.names = local[i].names /\ l.granted = local[i].granted
      /\ l.cache = local[i].cache /\ l.key = local[i].key
      /\ l.roster = local[i].roster
      /\ l.task = [local[i].task EXCEPT ![b] = what]
      /\ l.tries = [local[i].tries EXCEPT ![b] = tries]
  BY <1>1 DEF Locals
<1>4. /\ l.task[b] = what /\ l.tries[b] = tries
      /\ \A c \in Buckets \ {b} : /\ l.task[c] = local[i].task[c]
                                  /\ l.tries[c] = local[i].tries[c]
  BY <1>2, <1>3
<1>5. Goto(i, "folders", l)
  OBVIOUS
<1> HIDE DEF l
<1>6. W \in SUBSET Wanted(i) /\ UNCHANGED <<groups, buckets, keys, ever, mounts>>
  BY <1>1 DEF world, SyncInv, StageInv
<1>7. /\ folders' \in [FolderNames -> FolderKeys \cup {None}]
      /\ UserOf(i) \in Users /\ Desired(i) # None
      /\ \A f \in FolderNames : folders[f] # None => folders'[f] # None
      /\ \A c \in Buckets \ W : folders'[NameFor(i, c)] = folders[NameFor(i, c)]
      /\ \A u \in Users, c \in Buckets :
            \/ folders'[Folder(u, c)] = folders[Folder(u, c)]
            \/ /\ UserOf(i) \in Namesakes(u) /\ c \in W
               /\ folders'[Folder(u, c)] = Desired(i)
      /\ FoldersInv' /\ MountsInv'
  BY <1>6, WrittenFacts
<1>8. /\ alone' \in [Syncs -> BOOLEAN] /\ alone'[i] = alone[i]
      /\ \A j \in Syncs \ {i} : ~alone'[j]
  BY <1>1, StepsFacts
<1>9. Only(i) /\ Shapes' /\ pc'[i] = "folders" /\ local'[i] = l
  <2>1. "folders" \in Stages
    BY DEF Stages
  <2>2. \A j \in Syncs \ {i} : /\ failures'[j] = failures[j]
                               /\ fresh'[j] = fresh[j]
                               /\ alone'[j] => alone[j] /\ UNCHANGED sftpgo
    BY <1>8
  <2>3. /\ mounts' \in [Users -> SUBSET FolderNames] /\ trigger' \in BOOLEAN
        /\ failures' \in [Syncs -> 0..MaxAttempts] /\ fresh' \in [Syncs -> BOOLEAN]
    BY <1>1
  <2> QED BY <1>3, <1>5, <1>7, <1>8, <2>1, <2>2, <2>3, Frame
<1>10. /\ UserOf(i)' = UserOf(i) /\ StacksOf(i)' = StacksOf(i)
       /\ Uncached(i)' = Uncached(i) /\ Wanted(i)' = Wanted(i)
       /\ Desired(i)' = Desired(i) /\ \A c : NameFor(i, c)' = NameFor(i, c)
  BY <1>3, <1>9 DEF UserOf, StacksOf, Uncached, Wanted, Desired, NameFor, Folder
<1>11. \A c \in Buckets : NameFor(i, c) \in FolderNames
  BY <1>7, FolderFacts DEF NameFor
<1>12. StageInv(i)'
  BY <1>1, <1>3, <1>4, <1>9, <1>10 DEF SyncInv, StageInv, Working
<1>13. OwnInv(i)'
  <2>1. \A c \in Buckets : l.task[c] = "done" => folders'[NameFor(i, c)] # None
    BY <1>1, <1>4, <1>7, <1>11 DEF SyncInv, OwnInv
  <2>2. OwnInv(i) /\ ever' = ever
    BY <1>1, <1>6 DEF SyncInv
  <2>3. \A u \in Users : l.granted[u] \cap Stacks \subseteq ever'[u]
    BY <1>3, <2>2 DEF OwnInv
  <2>4. \A s \in Stacks : l.cache[s] # None =>
           \A c \in l.cache[s] : StackOf[c] = s
    BY <1>3, <2>2 DEF OwnInv
  <2> QED BY <1>9, <1>10, <2>1, <2>3, <2>4 DEF OwnInv
<1>14. FreshInv(i)'
  <2>1. FreshInv(i) /\ fresh'[i] = fresh[i] /\ pc[i] \in Working
    BY <1>1 DEF SyncInv, Working
  <2>2. groups' = groups /\ buckets' = buckets /\ keys' = keys
    BY <1>6
  <2> QED BY <1>3, <1>9, <1>10, <2>1, <2>2 DEF FreshInv
<1>15. AloneInv(i)'
  <2>1. \A c \in Buckets \ {b} : folders'[NameFor(i, c)] = folders[NameFor(i, c)]
    BY <1>7
  <2> QED BY <1>1, <1>4, <1>8, <1>9, <1>10, <2>1 DEF SyncInv, AloneInv
<1>16. SyncedInv(i)'
  <2>1. ASSUME fresh[i], NEW u \in Users
        PROVE  EligibleBuckets(u)' = EligibleBuckets(u) /\ (InSync(u) => InSync(u)')
    <3>1. \A v \in Users : EligibleBuckets(v)' = EligibleBuckets(v)
      BY <1>6 DEF EligibleBuckets
    <3>2. /\ Wanted(i) = EligibleBuckets(UserOf(i))
          /\ Desired(i) = [user |-> UserOf(i), key |-> keys[UserOf(i)]]
      BY <1>1, <2>1, WantedFacts DEF SyncInv, StageInv, FreshInv, Working, Desired
    <3>3. ASSUME InSync(u), NEW c \in EligibleBuckets(u)
          PROVE  \E v \in Namesakes(u) :
                    /\ c \in EligibleBuckets(v)
                    /\ folders'[Folder(u, c)] = [user |-> v, key |-> keys[v]]
      <4>1. c \in Buckets
        BY <1>1 DEF EligibleBuckets, Shapes
      <4>2. CASE folders'[Folder(u, c)] = folders[Folder(u, c)]
        BY <3>3, <4>2 DEF InSync
      <4>3. CASE /\ UserOf(i) \in Namesakes(u) /\ c \in W
                 /\ folders'[Folder(u, c)] = Desired(i)
        BY <1>6, <3>2, <4>3
      <4> QED BY <1>7, <4>1, <4>2, <4>3
    <3>4. Namesakes(u) \subseteq Users
      BY DEF Namesakes
    <3> QED BY <1>6, <3>1, <3>3, <3>4 DEF InSync, Folder, Namesakes
  <2>2. 1 \in 1..Len(l.roster) /\ l.roster[1] = UserOf(i)
    BY <1>1, <1>3, UserFacts DEF SyncInv, StageInv
  <2>3. SyncedInv(i) /\ fresh'[i] = fresh[i] /\ pc[i] \in Working /\ pc[i] # "ok"
    BY <1>1 DEF SyncInv, Working
  <2>4. ASSUME fresh[i], alone[i], NEW u \in Users
        PROVE  \/ EligibleBuckets(u)' = {} \/ InSync(u)'
               \/ \E k \in 1..Len(l.roster) : l.roster[k] = u
    <3>1. CASE u = UserOf(i)
      BY <2>2, <3>1
    <3>2. CASE u # UserOf(i)
      BY <1>3, <2>1, <2>3, <2>4, <3>2 DEF SyncedInv
    <3> QED BY <3>1, <3>2
  <2> QED BY <1>8, <1>9, <2>3, <2>4 DEF SyncedInv
<1>17. TriesInv(i)'
  <2>1. faults["transient"] \in Nat /\ faults'["transient"] \in Nat
    BY <1>1, SyncAssumption DEF Shapes, FaultKinds
  <2> QED BY <1>1, <1>2, <1>4, <1>9, <2>1, SyncAssumption DEF SyncInv, TriesInv
<1> QED BY <1>7, <1>9, <1>12, <1>13, <1>14, <1>15, <1>16, <1>17 DEF StepOf, SyncInv

\* A probe, a write and a retry are such steps.
LEMMA TaskSteps ==
    ASSUME IInv, NEW i \in Syncs, NEW b \in Buckets,
           ProbeFolder(i, b) \/ WriteFolder(i, b) \/ RetryFolder(i, b)
    PROVE  StepOf(i)
<1>1. /\ pc[i] = "folders" /\ Steps(i) /\ local[i].task[b] \in {"probe", "post", "put"}
      /\ UNCHANGED <<trigger, mounts, failures, fresh>> /\ UNCHANGED world
      /\ UNCHANGED ever
  BY DEF ProbeFolder, WriteFolder, RetryFolder, Doing, sftpgo, world
<1>2. /\ Shapes /\ local[i] \in Locals /\ TriesInv(i)
      /\ faults \in [FaultKinds -> 0..MaxFaults]
      /\ faults["transient"] \in 0..MaxFaults
      /\ folders \in [FolderNames -> FolderKeys \cup {None}]
  BY DEF IInv, SyncInv, Shapes, FaultKinds
<1>3. /\ local[i].task \in [Buckets -> Tasks]
      /\ local[i].tries \in [Buckets -> 1..MAX_FOLDER_ATTEMPTS]
      /\ local[i].tries[b] \in 1..MAX_FOLDER_ATTEMPTS
      /\ local[i].tries[b] <= 1 + faults["transient"]
  BY <1>2 DEF Locals, TriesInv
<1>4. ASSUME NEW what
      PROVE  TaskTo(i, b, what) =>
                Goto(i, "folders", [local[i] EXCEPT !.task[b] = what,
                                                    !.tries[b] = local[i].tries[b]])
  <2>1. [local[i].tries EXCEPT ![b] = local[i].tries[b]] = local[i].tries
    BY <1>3
  <2>2. [local[i] EXCEPT !.task[b] = what, !.tries[b] = local[i].tries[b]]
        = [local[i] EXCEPT !.task[b] = what]
    BY <1>2, <2>1 DEF Locals
  <2> QED BY <1>1, <2>2 DEF TaskTo, Stay
<1>5. CASE ProbeFolder(i, b)
  <2> DEFINE n == NameFor(i, b)
  <2>1. \E what \in {"post", "put", "done"} :
           /\ TaskTo(i, b, what)
           /\ what = "post" => folders[n] = None
           /\ what = "done" => folders[n] = Desired(i)
    <3>1. CASE folders[n] = None
      <4>1. TaskTo(i, b, "post")
        BY <1>5, <3>1, Zenon DEF ProbeFolder
      <4> QED BY <3>1, <4>1
    <3>2. CASE folders[n] # None /\ Mismatch(i, b)
      <4>1. TaskTo(i, b, "put")
        BY <1>5, <3>2, Zenon DEF ProbeFolder
      <4> QED BY <4>1
    <3>3. CASE folders[n] # None /\ ~Mismatch(i, b)
      <4>1. TaskTo(i, b, "done")
        BY <1>5, <3>3, Zenon DEF ProbeFolder
      <4>2. folders[n] = Desired(i)
        BY <3>3 DEF Mismatch
      <4> QED BY <4>1, <4>2
    <3> QED BY <3>1, <3>2, <3>3
  <2>2. PICK what \in {"post", "put", "done"} :
           /\ TaskTo(i, b, what)
           /\ what = "post" => folders[n] = None
           /\ what = "done" => folders[n] = Desired(i)
    BY <2>1
  <2>3. UNCHANGED folders /\ UNCHANGED faults
    BY <1>5 DEF ProbeFolder, sftpgo
  <2>4. folders' = Written(i, {})
    BY <1>2, <2>3 DEF Written
  <2>5. /\ what \in Tasks \ {"none"} /\ {} \in SUBSET {b}
        /\ faults["transient"] <= faults'["transient"]
        /\ local[i].tries[b] <= 1 + faults'["transient"]
        /\ faults' \in [FaultKinds -> 0..MaxFaults]
        /\ local[i].task[b] # "none"
    BY <1>1, <1>2, <1>3, <2>3, SyncAssumption DEF Tasks
  <2>6. /\ what = "done" => folders'[NameFor(i, b)] = Desired(i)
        /\ what = "post" => folders'[NameFor(i, b)] = None
    BY <2>2, <2>3
  <2>7. Goto(i, "folders", [local[i] EXCEPT !.task[b] = what,
                                            !.tries[b] = local[i].tries[b]])
    BY <1>4, <2>2
  <2> QED BY <1>1, <1>3, <2>4, <2>5, <2>6, <2>7, FolderStep
<1>6. CASE WriteFolder(i, b)
  <2>1. /\ folders' = Written(i, {b}) /\ TaskTo(i, b, "done") /\ UNCHANGED faults
    BY <1>6 DEF WriteFolder
  <2>2. folders'[NameFor(i, b)] = Desired(i)
    <3>1. {b} \in SUBSET Wanted(i)
      BY <1>1 DEF IInv, SyncInv, StageInv
    <3> QED BY <1>1, <2>1, <3>1, WrittenFacts
  <2>3. /\ "done" \in Tasks \ {"none"} /\ {b} \in SUBSET {b}
        /\ faults["transient"] <= faults'["transient"]
        /\ local[i].tries[b] <= 1 + faults'["transient"]
        /\ faults' \in [FaultKinds -> 0..MaxFaults]
        /\ local[i].task[b] # "none"
    BY <1>1, <1>2, <1>3, <2>1, SyncAssumption DEF Tasks
  <2>4. Goto(i, "folders", [local[i] EXCEPT !.task[b] = "done",
                                            !.tries[b] = local[i].tries[b]])
    BY <1>4, <2>1
  <2> QED BY <1>1, <1>3, <2>1, <2>2, <2>3, <2>4, FolderStep
<1>7. CASE RetryFolder(i, b)
  <2>1. /\ local[i].tries[b] < MAX_FOLDER_ATTEMPTS /\ Fault("transient")
        /\ Goto(i, "folders", [local[i] EXCEPT !.task[b] = "probe",
                                               !.tries[b] = local[i].tries[b] + 1])
    BY <1>1, <1>7 DEF RetryFolder, RetryTask, Stay
  <2>2. PICK landed \in SUBSET ({b} \cap InFlight(i)) : folders' = Written(i, landed)
    BY <1>7 DEF RetryFolder
  <2>3. /\ faults' \in [FaultKinds -> 0..MaxFaults]
        /\ faults'["transient"] = faults["transient"] + 1
    BY <1>2, <2>1, FaultFacts DEF FaultKinds
  <2>4. /\ "probe" \in Tasks \ {"none"} /\ landed \in SUBSET {b}
        /\ faults["transient"] <= faults'["transient"]
        /\ local[i].tries[b] + 1 \in 1..MAX_FOLDER_ATTEMPTS
        /\ local[i].tries[b] + 1 <= 1 + faults'["transient"]
        /\ local[i].task[b] # "none"
    BY <1>1, <1>2, <1>3, <2>1, <2>3, SyncAssumption DEF Tasks
  <2> QED BY <1>1, <2>1, <2>2, <2>3, <2>4, FolderStep
<1> QED BY <1>5, <1>6, <1>7

-----------------------------------------------------------------------------
(* The account, and the end of an attempt *)

\* What an account is to mount is there, and of the user's stacks.
LEMMA MountFacts ==
    ASSUME IInv, NEW i \in Syncs, pc[i] = "folders", FoldersDone(i),
           mounts' = Mounted(i), UNCHANGED <<folders, ever>>
    PROVE  /\ mounts' \in [Users -> SUBSET FolderNames]
           /\ MountsInv' /\ FoldersInv'
           /\ UserOf(i) \in Users
           /\ mounts'[UserOf(i)] = {Folder(UserOf(i), b) : b \in Wanted(i)}
           /\ \A u \in Users \ {UserOf(i)} : mounts'[u] = mounts[u]
           /\ Wanted(i) \subseteq Buckets
           /\ \A b \in Wanted(i) : local[i].task[b] = "done"
<1>1. /\ local[i].roster # <<>> /\ Uncached(i) = {} /\ Shapes
      /\ \A b \in Buckets : local[i].task[b] # "none" <=> b \in Wanted(i)
  BY DEF IInv, SyncInv, StageInv
<1>2. UserOf(i) \in Users /\ Wanted(i) \subseteq Buckets
      /\ \A b \in Wanted(i) : StackOf[b] \in ever[UserOf(i)]
  BY <1>1, UserFacts, WantedFacts
<1>3. \A b \in Wanted(i) : local[i].task[b] = "done"
  BY <1>1, <1>2 DEF FoldersDone
<1>4. \A b \in Wanted(i) : folders[Folder(UserOf(i), b)] # None
  BY <1>2, <1>3 DEF IInv, SyncInv, OwnInv, NameFor
<1> DEFINE M == {Folder(UserOf(i), b) : b \in Wanted(i)}
<1>5. M \subseteq FolderNames
  BY <1>2, FolderFacts
<1>6. mounts \in [Users -> SUBSET FolderNames]
  BY <1>1 DEF Shapes
<1>7. mounts' = [mounts EXCEPT ![UserOf(i)] = M]
  BY DEF Mounted, NameFor
<1>8. \A f \in M : \E b \in Wanted(i) : f = Folder(UserOf(i), b)
  OBVIOUS
<1> HIDE DEF M
<1>9. /\ mounts' \in [Users -> SUBSET FolderNames] /\ mounts'[UserOf(i)] = M
      /\ \A u \in Users \ {UserOf(i)} : mounts'[u] = mounts[u]
  BY <1>2, <1>5, <1>6, <1>7
<1>10. FoldersInv'
  BY DEF IInv, FoldersInv, Folder, Namesakes
<1>11. MountsInv'
  <2> SUFFICES ASSUME NEW u \in Users, NEW f \in mounts'[u]
               PROVE  /\ folders[f] # None
                      /\ \E b \in Buckets : f = Folder(u, b) /\ StackOf[b] \in ever[u]
    BY DEF MountsInv, Folder
  <2>1. CASE u = UserOf(i)
    <3>1. PICK b \in Wanted(i) : f = Folder(u, b)
      BY <1>8, <1>9, <2>1
    <3>2. folders[f] # None
      BY <1>4, <2>1, <3>1
    <3> QED BY <1>2, <2>1, <3>1, <3>2
  <2>2. CASE u # UserOf(i)
    BY <1>9, <2>2 DEF IInv, MountsInv
  <2> QED BY <2>1, <2>2
<1> QED BY <1>2, <1>3, <1>9, <1>10, <1>11 DEF M

\* The account mounts what the user is to have, and the next user is at hand.
LEMMA UpdateUserStep ==
    ASSUME IInv, NEW i \in Syncs, UpdateUser(i)
    PROVE  StepOf(i)
<1> DEFINE l == [local[i] EXCEPT !.roster = Tail(local[i].roster), !.key = 0,
                                 !.task = Blank.task, !.tries = Blank.tries]
<1>1. /\ pc[i] = "folders" /\ FoldersDone(i) /\ mounts' = Mounted(i)
      /\ Goto(i, "user", l) /\ Steps(i)
      /\ UNCHANGED world
      /\ UNCHANGED trigger /\ UNCHANGED folders /\ UNCHANGED failures
      /\ UNCHANGED fresh /\ UNCHANGED faults
  BY DEF UpdateUser
<1>2. UNCHANGED groups /\ UNCHANGED buckets /\ UNCHANGED keys /\ UNCHANGED ever
  BY <1>1 DEF world
<1>3. /\ Shapes /\ SyncInv(i) /\ local[i].roster # <<>> /\ Uncached(i) = {}
      /\ failures[i] < MaxAttempts /\ pc[i] \in Working
  BY <1>1 DEF IInv, SyncInv, StageInv, Working
<1>4. /\ trigger \in BOOLEAN /\ failures \in [Syncs -> 0..MaxAttempts]
      /\ fresh \in [Syncs -> BOOLEAN] /\ faults \in [FaultKinds -> 0..MaxFaults]
      /\ folders \in [FolderNames -> FolderKeys \cup {None}]
      /\ faults["transient"] \in 0..MaxFaults
  BY <1>3 DEF Shapes, FaultKinds
<1>5. /\ local[i] \in Locals /\ UserOf(i) \in Users
      /\ UserOf(i) = local[i].roster[1]
      /\ Tail(local[i].roster) \in Seq(Users)
      /\ \A k \in 1..Len(Tail(local[i].roster)) :
            /\ k + 1 \in 1..Len(local[i].roster)
            /\ Tail(local[i].roster)[k] = local[i].roster[k + 1]
      /\ \A k \in 1..Len(local[i].roster) :
            \/ k = 1
            \/ /\ k - 1 \in 1..Len(Tail(local[i].roster))
               /\ Tail(local[i].roster)[k - 1] = local[i].roster[k]
  BY <1>3, UserFacts
<1>6. /\ l \in Locals /\ l.names = local[i].names /\ l.granted = local[i].granted
      /\ l.cache = local[i].cache /\ l.task = Blank.task
      /\ l.tries = Blank.tries /\ l.roster = Tail(local[i].roster)
  BY <1>5, BlankFacts DEF Locals
<1> HIDE DEF l
<1>7. /\ mounts' \in [Users -> SUBSET FolderNames]
      /\ MountsInv' /\ FoldersInv'
      /\ mounts'[UserOf(i)] = {Folder(UserOf(i), b) : b \in Wanted(i)}
      /\ \A u \in Users \ {UserOf(i)} : mounts'[u] = mounts[u]
      /\ Wanted(i) \subseteq Buckets
      /\ \A b \in Wanted(i) : local[i].task[b] = "done"
  BY <1>1, <1>2, MountFacts
<1>8. /\ alone' \in [Syncs -> BOOLEAN] /\ alone'[i] = alone[i]
      /\ \A j \in Syncs \ {i} : ~alone'[j]
  BY <1>1, <1>3, StepsFacts
<1>9. Only(i) /\ Shapes' /\ pc'[i] = "user" /\ local'[i] = l
  <2>1. "user" \in Stages
    BY DEF Stages
  <2>2. \A j \in Syncs \ {i} : /\ failures'[j] = failures[j]
                               /\ fresh'[j] = fresh[j]
                               /\ alone'[j] => alone[j] /\ UNCHANGED sftpgo
    BY <1>1, <1>8
  <2>3. /\ folders' \in [FolderNames -> FolderKeys \cup {None}] /\ trigger' \in BOOLEAN
        /\ failures' \in [Syncs -> 0..MaxAttempts] /\ fresh' \in [Syncs -> BOOLEAN]
        /\ faults' \in [FaultKinds -> 0..MaxFaults]
        /\ faults["transient"] <= faults'["transient"]
        /\ \A f \in FolderNames : folders[f] # None => folders'[f] # None
    BY <1>1, <1>4, SyncAssumption
  <2> QED BY <1>1, <1>6, <1>7, <1>8, <2>1, <2>2, <2>3, Frame
<1>10. StageInv(i)'
  BY <1>1, <1>3, <1>6, <1>9 DEF StageInv, Working
<1>11. OwnInv(i)'
  BY <1>2, <1>3, <1>6, <1>9 DEF SyncInv, OwnInv
<1>12. FreshInv(i)'
  <2>1. FreshInv(i) /\ fresh'[i] = fresh[i]
    BY <1>1, <1>3 DEF SyncInv
  <2>2. ASSUME fresh[i], NEW k \in 1..Len(l.roster)
        PROVE  groups[l.roster[k]] # {}
    <3>1. k + 1 \in 1..Len(local[i].roster) /\ l.roster[k] = local[i].roster[k + 1]
      BY <1>5, <1>6
    <3>2. \A m \in 1..Len(local[i].roster) : groups[local[i].roster[m]] # {}
      BY <1>3, <2>1, <2>2 DEF FreshInv
    <3> QED BY <3>1, <3>2
  <2> QED BY <1>2, <1>3, <1>6, <1>9, <2>1, <2>2 DEF FreshInv
<1>13. AloneInv(i)' /\ TriesInv(i)'
  <2>1. AloneInv(i)'
    BY <1>9 DEF AloneInv
  <2>2. TriesInv(i)'
    BY <1>1, <1>4, <1>6, <1>9, BlankFacts, SyncAssumption DEF TriesInv
  <2> QED BY <2>1, <2>2
<1>14. SyncedInv(i)'
  <2>1. SyncedInv(i) /\ fresh'[i] = fresh[i]
    BY <1>1, <1>3 DEF SyncInv
  <2>2. ASSUME fresh[i], alone[i], NEW u \in Users, u = UserOf(i)
        PROVE  InSync(u)'
    <3>1. Wanted(i) = EligibleBuckets(u) /\ local[i].key = keys[u]
      BY <1>1, <1>3, <2>2, WantedFacts DEF SyncInv, FreshInv
    <3>2. \A b \in Wanted(i) : folders[Folder(u, b)] = Desired(i)
      BY <1>1, <1>3, <1>7, <2>2 DEF SyncInv, AloneInv, NameFor
    <3>3. Desired(i) = [user |-> u, key |-> keys[u]]
      BY <2>2, <3>1 DEF Desired
    <3>4. mounts'[u] = {Folder(u, b) : b \in EligibleBuckets(u)}
      BY <1>7, <2>2, <3>1
    <3>5. \A b \in EligibleBuckets(u) :
             folders[Folder(u, b)] = [user |-> u, key |-> keys[u]]
      BY <3>1, <3>2, <3>3
    <3>6. u \in Namesakes(u) /\ Namesakes(u) \subseteq Users
      BY DEF Namesakes
    <3>7. \A v \in Users : EligibleBuckets(v)' = EligibleBuckets(v)
      BY <1>2 DEF EligibleBuckets
    <3> QED BY <1>1, <1>2, <3>4, <3>5, <3>6, <3>7 DEF InSync, Folder, Namesakes
  <2>3. ASSUME NEW u \in Users, u # UserOf(i)
        PROVE  EligibleBuckets(u)' = EligibleBuckets(u) /\ (InSync(u) => InSync(u)')
    <3>1. \A v \in Users : EligibleBuckets(v)' = EligibleBuckets(v)
      BY <1>2 DEF EligibleBuckets
    <3>2. mounts'[u] = mounts[u] /\ Namesakes(u) \subseteq Users
      BY <1>7, <2>3 DEF Namesakes
    <3> QED BY <1>1, <1>2, <3>1, <3>2 DEF InSync, Folder, Namesakes
  <2>4. ASSUME fresh[i], alone[i], NEW u \in Users
        PROVE  \/ EligibleBuckets(u)' = {} \/ InSync(u)'
               \/ \E k \in 1..Len(l.roster) : l.roster[k] = u
    <3>1. CASE u = UserOf(i)
      BY <2>2, <2>4, <3>1
    <3>2. CASE u # UserOf(i)
      <4>1. \/ EligibleBuckets(u) = {} \/ InSync(u)
            \/ \E k \in 1..Len(local[i].roster) : local[i].roster[k] = u
        BY <1>3, <2>1, <2>4 DEF SyncedInv
      <4> QED BY <1>5, <1>6, <2>3, <3>2, <4>1
    <3> QED BY <3>1, <3>2
  <2> QED BY <1>8, <1>9, <2>1, <2>4 DEF SyncedInv
<1> QED BY <1>7, <1>9, <1>10, <1>11, <1>12, <1>13, <1>14 DEF StepOf, SyncInv

\* A sync that has no user left has everybody in sync.
LEMMA FinishStep ==
    ASSUME IInv, NEW i \in Syncs, Finish(i)
    PROVE  StepOf(i)
<1>1. /\ pc[i] = "user" /\ local[i].roster = <<>> /\ Steps(i)
      /\ trigger' = (trigger /\ i \in CliSyncs)
      /\ Goto(i, "ok", Blank) /\ UNCHANGED world /\ UNCHANGED sftpgo
      /\ UNCHANGED failures /\ UNCHANGED fresh /\ UNCHANGED faults
  BY DEF Finish
<1>2. /\ Shapes /\ SyncInv(i) /\ pc[i] \in Working
      /\ failures \in [Syncs -> 0..MaxAttempts]
      /\ fresh \in [Syncs -> BOOLEAN] /\ faults \in [FaultKinds -> 0..MaxFaults]
      /\ faults["transient"] \in 0..MaxFaults
  BY <1>1 DEF IInv, Shapes, FaultKinds, Working
<1>3. /\ alone' \in [Syncs -> BOOLEAN] /\ alone'[i] = alone[i]
      /\ \A j \in Syncs \ {i} : ~alone'[j]
  BY <1>1, <1>2, StepsFacts
<1>4. /\ Only(i) /\ Shapes' /\ pc'[i] = "ok" /\ local'[i] = Blank
      /\ FoldersInv' /\ MountsInv'
      /\ \A u \in Users : EligibleBuckets(u)' = EligibleBuckets(u)
                          /\ InSync(u)' = InSync(u)
  <2>1. "ok" \in Stages /\ Blank \in Locals
    BY BlankFacts DEF Stages
  <2>2. /\ trigger' \in BOOLEAN /\ failures' \in [Syncs -> 0..MaxAttempts]
        /\ faults' \in [FaultKinds -> 0..MaxFaults] /\ fresh' \in [Syncs -> BOOLEAN]
        /\ faults["transient"] <= faults'["transient"]
    BY <1>1, <1>2, SyncAssumption DEF Shapes
  <2>3. \A j \in Syncs \ {i} : /\ failures'[j] = failures[j]
                               /\ fresh'[j] = fresh[j]
                               /\ alone'[j] => alone[j]
    BY <1>1, <1>3
  <2> QED BY <1>1, <1>3, <2>1, <2>2, <2>3, QuietStep
<1>5. StageInv(i)'
  BY <1>4 DEF StageInv, Working
<1>6. OwnInv(i)'
  BY <1>4, BlankFacts DEF OwnInv
<1>7. FreshInv(i)' /\ AloneInv(i)'
  BY <1>4 DEF FreshInv, AloneInv, Working
<1>8. TriesInv(i)'
  BY <1>1, <1>2, <1>4, BlankFacts, SyncAssumption DEF TriesInv
<1>9. SyncedInv(i)'
  <2>1. 1..Len(local[i].roster) = {}
    BY <1>1
  <2>2. SyncedInv(i) /\ fresh'[i] = fresh[i]
    BY <1>1, <1>2 DEF SyncInv
  <2> QED BY <1>2, <1>3, <1>4, <2>1, <2>2 DEF SyncedInv, Working
<1> QED BY <1>4, <1>5, <1>6, <1>7, <1>8, <1>9 DEF StepOf, SyncInv

\* However an attempt fails, what it leaves is sound.
LEMMA FailureSteps ==
    ASSUME IInv, NEW i \in Syncs,
           \/ \E b \in Buckets : FailFolder(i, b)
           \/ CallFails(i) \/ Crash(i)
    PROVE  StepOf(i)
<1>1. /\ ReturnErr(i) /\ Steps(i) /\ UNCHANGED world /\ UNCHANGED fresh
      /\ pc[i] \in {"start", "user", "account", "folders"}
  BY DEF FailFolder, CallFails, Crash
<1>2. /\ Shapes /\ fresh \in [Syncs -> BOOLEAN] /\ trigger \in BOOLEAN
      /\ mounts \in [Users -> SUBSET FolderNames]
      /\ folders \in [FolderNames -> FolderKeys \cup {None}]
      /\ faults \in [FaultKinds -> 0..MaxFaults] /\ faults["transient"] \in Nat
      /\ ever' = ever
  BY <1>1, SyncAssumption DEF IInv, Shapes, FaultKinds, world
<1>3. /\ alone' \in [Syncs -> BOOLEAN] /\ fresh' \in [Syncs -> BOOLEAN]
      /\ \A j \in Syncs \ {i} : fresh'[j] = fresh[j] /\ ~alone'[j]
  BY <1>1, <1>2, StepsFacts
<1>4. /\ faults' \in [FaultKinds -> 0..MaxFaults]
      /\ faults["transient"] <= faults'["transient"]
  <2>1. UNCHANGED faults \/ \E kind \in FaultKinds : Fault(kind)
    BY DEF FailFolder, CallFails, Crash, FaultKinds
  <2>2. CASE UNCHANGED faults
    BY <1>2, <2>2
  <2>3. CASE \E kind \in FaultKinds : Fault(kind)
    BY <1>2, <2>3, FaultFacts DEF FaultKinds
  <2> QED BY <2>1, <2>2, <2>3
<1>5. /\ trigger' \in BOOLEAN
      /\ folders' \in [FolderNames -> FolderKeys \cup {None}]
      /\ mounts' \in [Users -> SUBSET FolderNames]
      /\ FoldersInv' /\ MountsInv'
      /\ \A f \in FolderNames : folders[f] # None => folders'[f] # None
  <2>1. CASE (\E b \in Buckets : FailFolder(i, b)) \/ Crash(i)
    <3>1. /\ UNCHANGED trigger /\ UNCHANGED mounts
          /\ \E landed \in SUBSET InFlight(i) : folders' = Written(i, landed)
      BY <2>1 DEF FailFolder, Crash
    <3> QED BY <1>2, <3>1, LandedFacts
  <2>2. CASE CallFails(i)
    <3>1. /\ UNCHANGED folders /\ trigger' \in BOOLEAN
          /\ \/ UNCHANGED mounts
             \/ pc[i] = "folders" /\ FoldersDone(i) /\ mounts' = Mounted(i)
      BY <1>2, <2>2 DEF CallFails
    <3>2. CASE UNCHANGED mounts
      <4>1. FoldersInv' /\ MountsInv'
        BY <1>2, <3>1, <3>2 DEF IInv, FoldersInv, MountsInv, Folder, Namesakes
      <4> QED BY <1>2, <3>1, <3>2, <4>1
    <3>3. CASE pc[i] = "folders" /\ FoldersDone(i) /\ mounts' = Mounted(i)
      BY <1>2, <3>1, <3>3, MountFacts
    <3> QED BY <3>1, <3>2, <3>3
  <2> QED BY <2>1, <2>2
<1> QED BY <1>1, <1>3, <1>4, <1>5, FailedStep

\* Before anything happens, nothing is mounted.
LEMMA InitInv == Init => IInv
<1> SUFFICES ASSUME Init
             PROVE  IInv
  OBVIOUS
<1>1. /\ groups = InitialGroups /\ buckets = InitialBuckets
      /\ keys = [u \in Users |-> 1] /\ trigger = FALSE
      /\ folders = [f \in FolderNames |-> None] /\ mounts = [u \in Users |-> {}]
      /\ pc = [i \in Syncs |-> "idle"] /\ failures = [i \in Syncs |-> 0]
      /\ local = [i \in Syncs |-> Blank] /\ fresh = [i \in Syncs |-> FALSE]
      /\ alone = [i \in Syncs |-> FALSE]
      /\ ever = [u \in Users |-> InitialGroups[u] \cap Stacks]
      /\ changes = 0 /\ faults = [k \in FaultKinds |-> 0]
  BY DEF Init
<1>2. Shapes
  <2>1. /\ groups \in [Users -> SUBSET Groups] /\ buckets \subseteq Buckets
        /\ keys \in [Users -> Nat \ {0}] /\ trigger \in BOOLEAN
        /\ folders \in [FolderNames -> FolderKeys \cup {None}]
        /\ mounts \in [Users -> SUBSET FolderNames]
        /\ ever \in [Users -> SUBSET Stacks]
    <3>1. groups \in [Users -> SUBSET Groups] /\ buckets \subseteq Buckets
      BY <1>1, SyncAssumption
    <3>2. ever \in [Users -> SUBSET Stacks]
      BY <1>1
    <3>3. keys \in [Users -> Nat \ {0}] /\ trigger \in BOOLEAN
      <4>1. 1 \in Nat \ {0}
        OBVIOUS
      <4> QED BY <1>1, <4>1
    <3>4. /\ folders \in [FolderNames -> FolderKeys \cup {None}]
          /\ mounts \in [Users -> SUBSET FolderNames]
      BY <1>1
    <3> QED BY <3>1, <3>2, <3>3, <3>4
  <2>2. /\ pc \in [Syncs -> Stages] /\ failures \in [Syncs -> 0..MaxAttempts]
        /\ local \in [Syncs -> Locals]
        /\ fresh \in [Syncs -> BOOLEAN] /\ alone \in [Syncs -> BOOLEAN]
    BY <1>1, SyncAssumption, BlankFacts DEF Stages
  <2>3. changes \in 0..MaxChanges /\ faults \in [FaultKinds -> 0..MaxFaults]
    BY <1>1, SyncAssumption
  <2> QED BY <2>1, <2>2, <2>3 DEF Shapes
<1>3. FoldersInv /\ MountsInv
  BY <1>1, FolderFacts DEF FoldersInv, MountsInv
<1>4. EverInv
  BY <1>1 DEF EverInv
<1>5. ASSUME NEW i \in Syncs
      PROVE  SyncInv(i)
  <2>1. /\ pc[i] = "idle" /\ failures[i] = 0 /\ local[i] = Blank /\ fresh[i] = FALSE
        /\ faults["transient"] = 0
    BY <1>1 DEF FaultKinds
  <2>2. StageInv(i)
    BY <2>1, SyncAssumption DEF StageInv
  <2>3. OwnInv(i) /\ TriesInv(i)
    BY <2>1, BlankFacts DEF OwnInv, TriesInv
  <2>4. FreshInv(i) /\ AloneInv(i) /\ SyncedInv(i)
    BY <2>1 DEF FreshInv, AloneInv, SyncedInv
  <2> QED BY <2>2, <2>3, <2>4 DEF SyncInv
<1> QED BY <1>2, <1>3, <1>4, <1>5 DEF IInv

\* Every step keeps the invariant.
LEMMA NextInv == IInv /\ [Next]_vars => IInv'
<1> SUFFICES ASSUME IInv, [Next]_vars
             PROVE  IInv'
  OBVIOUS
<1>1. CASE \/ \E u \in Users, g \in Groups : ChangeGroups(u, g)
           \/ \E b \in Buckets : ChangeBuckets(b)
           \/ \E u \in Users : RotateKeys(u)
  BY <1>1, WorldStep
<1>2. ASSUME NEW i \in Syncs, Ask(i) \/ Perform(i) \/ CallFails(i) \/ Crash(i)
      PROVE  IInv'
  <2>1. CASE Ask(i) \/ Start(i) \/ ListNames(i) \/ SkipUser(i) \/ ReadKeys(i)
    BY <2>1, AskStep, StartStep, ListNamesStep, SkipUserStep, ReadKeysStep,
       StepKeepsInv
  <2>2. CASE \E s \in Stacks : FetchStack(i, s)
    BY <2>2, FetchStackStep, StepKeepsInv
  <2>3. CASE ReadAccount(i) \/ UpdateUser(i) \/ Finish(i)
    BY <2>3, ReadAccountStep, UpdateUserStep, FinishStep, StepKeepsInv
  <2>4. CASE \E b \in Buckets :
                ProbeFolder(i, b) \/ WriteFolder(i, b) \/ RetryFolder(i, b)
    BY <2>4, TaskSteps, StepKeepsInv
  <2>5. CASE \/ \E b \in Buckets : FailFolder(i, b)
             \/ CallFails(i) \/ Crash(i)
    BY <2>5, FailureSteps, StepKeepsInv
  <2> QED BY <1>2, <2>1, <2>2, <2>3, <2>4, <2>5 DEF Perform, SyncUserAccess
<1>3. CASE UNCHANGED vars
  <2>1. /\ UNCHANGED <<groups, buckets, keys, ever, changes, trigger>>
        /\ UNCHANGED <<folders, mounts, pc, failures, local, fresh, alone, faults>>
    BY <1>3 DEF vars, world, sftpgo
  <2>2. Shapes' /\ FoldersInv' /\ EverInv' /\ MountsInv'
    BY <2>1 DEF IInv, Shapes, FoldersInv, EverInv, MountsInv, Folder
  <2>3. ASSUME NEW i \in Syncs
        PROVE  SyncInv(i)'
    <3>1. /\ UserOf(i)' = UserOf(i) /\ StacksOf(i)' = StacksOf(i)
          /\ Uncached(i)' = Uncached(i) /\ Wanted(i)' = Wanted(i)
          /\ Desired(i)' = Desired(i) /\ \A b : NameFor(i, b)' = NameFor(i, b)
      BY <2>1 DEF UserOf, StacksOf, Uncached, Wanted, Desired, NameFor, Folder
    <3>2. \A u \in Users : EligibleBuckets(u)' = EligibleBuckets(u)
                           /\ InSync(u)' = InSync(u)
      BY <2>1 DEF EligibleBuckets, InSync, Folder, Namesakes
    <3>3. SyncInv(i)
      BY DEF IInv
    <3>4. StageInv(i)' /\ OwnInv(i)' /\ FreshInv(i)'
      BY <2>1, <3>1, <3>3 DEF SyncInv, StageInv, OwnInv, FreshInv
    <3>5. AloneInv(i)' /\ SyncedInv(i)' /\ TriesInv(i)'
      BY <2>1, <3>1, <3>2, <3>3 DEF SyncInv, AloneInv, SyncedInv, TriesInv
    <3> QED BY <3>4, <3>5 DEF SyncInv
  <2> QED BY <2>2, <2>3 DEF IInv
<1> QED BY <1>1, <1>2, <1>3 DEF Next

\* The invariant holds of every behaviour.
LEMMA InvHolds == Spec => []IInv
<1> QED BY InitInv, NextInv, PTL DEF Spec

-----------------------------------------------------------------------------
(* What follows from it *)

\* What an attempt holds belongs to its stage, and nothing of a failed attempt
\* or of the previous user is left over.
THEOREM TypesHold == Spec => []TypeOK
<1>1. IInv => TypeOK
  <2> SUFFICES ASSUME IInv
               PROVE  TypeOK
    OBVIOUS
  <2>1. Shapes
    BY DEF IInv
  <2>2. \A f \in FolderNames :
           folders[f] # None => folders[f].user \in Users /\ folders[f].key \in Nat \ {0}
    BY <2>1 DEF Shapes, FolderKeys
  <2>3. ASSUME NEW i \in Syncs
        PROVE  /\ local[i].task \in [Buckets -> {"none", "probe", "post", "put", "done"}]
               /\ local[i].tries \in [Buckets -> 1..MAX_FOLDER_ATTEMPTS]
               /\ pc[i] \notin {"user", "account", "folders"} => local[i] = Blank
               /\ pc[i] \in {"account", "folders"} =>
                     local[i].roster # <<>> /\ Wanted(i) # {}
               /\ pc[i] # "folders" => local[i].task = Blank.task
               /\ pc[i] = "folders" =>
                     \A b \in Buckets : local[i].task[b] # "none" <=> b \in Wanted(i)
    <3>1. local[i] \in Locals /\ StageInv(i)
      BY <2>1 DEF Shapes, IInv, SyncInv
    <3> QED BY <3>1 DEF StageInv, Locals, Tasks, Working
  <2> QED BY <2>1, <2>2, <2>3 DEF TypeOK, Shapes
<1> QED BY <1>1, InvHolds, PTL

\* Whatever fails or overlaps, nobody mounts a folder that is not there, or of
\* a stack he was never in, or one with keys of somebody who was never in that
\* stack; and the keys are his own unless a namesake shares the folder.
THEOREM MountsStayEntitled == Spec => []MountsAreEntitled
<1>1. IInv => MountsAreEntitled
  <2> SUFFICES ASSUME IInv, NEW u \in Users, NEW f \in mounts[u]
               PROVE  /\ folders[f] # None
                      /\ \E b \in Buckets :
                            /\ f = Folder(u, b) /\ StackOf[b] \in ever[u]
                            /\ \E v \in Namesakes(u) :
                                  folders[f].user = v /\ StackOf[b] \in ever[v]
    BY DEF MountsAreEntitled
  <2>1. PICK b \in Buckets : f = Folder(u, b) /\ StackOf[b] \in ever[u]
    BY DEF IInv, MountsInv
  <2>2. folders[f] # None
    BY DEF IInv, MountsInv
  <2>3. \E v \in Namesakes(u) : folders[f].user = v /\ StackOf[b] \in ever[v]
    BY <2>1, <2>2 DEF IInv, FoldersInv
  <2> QED BY <2>1, <2>2, <2>3
<1> QED BY <1>1, InvHolds, PTL

\* A sync that nothing overtakes leaves mounts and keys as the services have
\* them, whatever went before.
THEOREM SyncsAreExact == Spec => []UndisturbedSyncsAreExact
<1>1. IInv => UndisturbedSyncsAreExact
  BY DEF IInv, SyncInv, SyncedInv, UndisturbedSyncsAreExact
<1> QED BY <1>1, InvHolds, PTL

\* Why an attempt fails.
Cause == \/ faults'["fatal"] + faults'["crash"] > faults["fatal"] + faults["crash"]
         \/ faults'["transient"] >= MAX_FOLDER_ATTEMPTS
         \/ \E u \in Users \ Accounts : groups[u] # {}
         \/ \A u \in Users : groups[u] = {}

\* A fatal fault and a crash are causes.
LEMMA FaultIsCause ==
    ASSUME Shapes, Fault("fatal") \/ Fault("crash")
    PROVE  Cause
<1>1. /\ "fatal" \in FaultKinds /\ "crash" \in FaultKinds /\ "fatal" # "crash"
  BY DEF FaultKinds
<1>2. faults["fatal"] \in Nat /\ faults["crash"] \in Nat
  BY <1>1, SyncAssumption DEF Shapes
<1>3. CASE Fault("fatal")
  <2>1. faults'["fatal"] = faults["fatal"] + 1 /\ faults'["crash"] = faults["crash"]
    BY <1>1, <1>3, FaultFacts
  <2> QED BY <1>2, <2>1 DEF Cause
<1>4. CASE Fault("crash")
  <2>1. faults'["crash"] = faults["crash"] + 1 /\ faults'["fatal"] = faults["fatal"]
    BY <1>1, <1>4, FaultFacts
  <2> QED BY <1>2, <2>1 DEF Cause
<1> QED BY <1>3, <1>4

\* An attempt that nothing overtakes fails for a cause: no folder it has found
\* missing is there when it posts it, and a folder is given up after as many
\* transient failures as it has tries.
LEMMA FailuresAreCaused ==
    ASSUME IInv, NEW i \in Syncs, fresh[i], alone[i], ReturnErr(i),
           Perform(i) \/ CallFails(i) \/ Crash(i)
    PROVE  Cause
<1>1. Shapes /\ SyncInv(i)
  BY DEF IInv
<1>2. failures'[i] # failures[i]
  <2>1. failures \in [Syncs -> 0..MaxAttempts] /\ failures[i] \in Nat
    BY <1>1, SyncAssumption DEF Shapes
  <2>2. failures'[i] = failures[i] + 1
    BY <2>1 DEF ReturnErr
  <2> QED BY <2>1, <2>2
<1>3. CASE Start(i)
  <2>1. {u \in Users : groups[u] # {}} = {}
    BY <1>2, <1>3 DEF Start
  <2> QED BY <2>1 DEF Cause
<1>4. CASE ReadAccount(i)
  <2>1. pc[i] = "account" /\ UserOf(i) \notin Accounts
    BY <1>2, <1>4 DEF ReadAccount
  <2>2. /\ local[i].roster # <<>>
        /\ \A k \in 1..Len(local[i].roster) : groups[local[i].roster[k]] # {}
    BY <1>1, <2>1 DEF SyncInv, StageInv, FreshInv, Working
  <2>3. UserOf(i) \in Users /\ groups[UserOf(i)] # {}
    BY <1>1, <2>2, UserFacts
  <2> QED BY <2>1, <2>3 DEF Cause
<1>5. CASE CallFails(i) \/ Crash(i)
  BY <1>1, <1>5, FaultIsCause DEF CallFails, Crash
<1>6. ASSUME NEW b \in Buckets, FailFolder(i, b)
      PROVE  Cause
  <2>1. CASE Fault("fatal")
    BY <1>1, <2>1, FaultIsCause
  <2>2. CASE local[i].tries[b] = MAX_FOLDER_ATTEMPTS /\ Fault("transient")
    <3>1. /\ faults'["transient"] = faults["transient"] + 1
          /\ faults["transient"] \in Nat
      BY <1>1, <2>2, FaultFacts DEF FaultKinds
    <3>2. MAX_FOLDER_ATTEMPTS <= 1 + faults["transient"]
      BY <1>1, <2>2 DEF SyncInv, TriesInv
    <3> QED BY <3>1, <3>2, SyncAssumption DEF Cause
  <2>3. CASE Doing(i, b, "post") /\ ~Accepted(i, b)
    <3>1. folders[NameFor(i, b)] = None
      BY <1>1, <2>3 DEF SyncInv, AloneInv, Doing
    <3> QED BY <2>3, <3>1 DEF Accepted
  <2> QED BY <1>6, <2>1, <2>2, <2>3 DEF FailFolder
<1>7. CASE \/ ListNames(i) \/ SkipUser(i) \/ ReadKeys(i) \/ UpdateUser(i) \/ Finish(i)
           \/ \E s \in Stacks : FetchStack(i, s)
           \/ \E b \in Buckets : ProbeFolder(i, b) \/ WriteFolder(i, b)
                                 \/ RetryFolder(i, b)
  <2>1. UNCHANGED failures
    BY <1>7 DEF ListNames, SkipUser, ReadKeys, UpdateUser, Finish, FetchStack,
                ProbeFolder, WriteFolder, RetryFolder
  <2> QED BY <1>2, <2>1
<1> QED BY <1>3, <1>4, <1>5, <1>6, <1>7 DEF Perform, SyncUserAccess

\* Of a sync that nothing overtakes, no lost answer, and nothing an earlier
\* attempt has left behind, makes an attempt fail.
THEOREM FailuresAreJustified == Spec => FailuresHaveACause
<1> DEFINE A == \A i \in Syncs :
                   failures'[i] > failures[i] /\ fresh[i] /\ alone[i] => Cause
<1>1. ASSUME IInv, [Next]_vars
      PROVE  A
  <2> SUFFICES ASSUME NEW i \in Syncs,
                      failures'[i] > failures[i], fresh[i], alone[i]
               PROVE  Cause
    OBVIOUS
  <2>1. Shapes /\ failures[i] \in Nat
    BY <1>1, SyncAssumption DEF IInv, Shapes
  <2>2. failures' # failures /\ failures'[i] # failures[i]
    BY <2>1
  <2>3. PICK j \in Syncs : Perform(j) \/ CallFails(j) \/ Crash(j)
    BY <1>1, <2>2 DEF Next, vars, ChangeGroups, ChangeBuckets, RotateKeys, Changes, Ask
  <2>4. ReturnErr(j)
    <3>1. \/ Start(j) /\ ReturnErr(j)
          \/ ReadAccount(j) /\ ReturnErr(j)
          \/ (\E b \in Buckets : FailFolder(j, b))
          \/ CallFails(j) \/ Crash(j)
      BY <2>2, <2>3 DEF Perform, SyncUserAccess, Start, ReadAccount, ListNames,
         SkipUser, ReadKeys, UpdateUser, Finish, FetchStack, ProbeFolder,
         WriteFolder, RetryFolder
    <3> QED BY <3>1 DEF FailFolder, CallFails, Crash
  <2>5. j = i
    BY <2>1, <2>2, <2>4 DEF ReturnErr, Shapes
  <2> QED BY <1>1, <2>3, <2>4, <2>5, FailuresAreCaused
<1>2. IInv /\ [Next]_vars => [A]_vars
  BY <1>1
<1> QED BY <1>2, InvHolds, PTL DEF Spec, FailuresHaveACause, Cause

=============================================================================
