-------------------- MODULE ChecksumVerification_proofs ---------------------
(***************************************************************************)
(* Proofs about ChecksumVerification, for any number of pairs, runs,       *)
(* deliveries, CLI calls, days, attempts and faults.                       *)
(***************************************************************************)
EXTENDS ChecksumVerification, TLAPS

AfterSource == {"replication", "compare", "csv_dated", "csv_latest",
                "stats_dated", "stats_latest"}
AfterBoth == AfterSource \ {"replication"}
HasReceipt == Working \cup {"noop", "waiting", "reported"}

\* An invocation past its first call has downloaded the receipt of a run, and
\* the invocation of an event that of the event's own run.
ReceiptInv ==
    \A h \in Calls :
        pc[h] \in HasReceipt =>
            /\ receipt[h] \in Runs
            /\ h \in EventCalls => receipt[h] = h[1]

\* An event is only handled once its job is finished.
EventInv ==
    \A h \in EventCalls : pc[h] # "start" => Finished(<<h[1], h[2]>>)

\* What an invocation has learnt of the two jobs is true of them.
EvidenceOf(h) ==
    /\ pc[h] \in AfterSource => status[<<receipt[h], "source">>] = "complete"
    /\ pc[h] \in AfterBoth \cup {"reported"} => Ready(receipt[h])
    /\ pc[h] = "noop" => EmptyManifest(<<receipt[h], "source">>)
    /\ pc[h] = "reported" /\ h \in EventCalls => matches[receipt[h]]

EvidenceInv == \A h \in Calls : EvidenceOf(h)

\* A job is created once: before its creation it is absent.
CreationInv ==
    \A r \in Runs :
        /\ trigger[r] = "idle" => status[<<r, "source">>] = "absent"
        /\ trigger[r] \in {"idle", "source"} =>
               status[<<r, "replication">>] = "absent"

\* No two invocations leave the same run to each other.
NobodyWaitsInVain ==
    \A r \in Runs, m, n \in Deliveries :
        ~(pc[<<r, "source", m>>] = "waiting" /\ pc[<<r, "replication", n>>] = "waiting")

\* A live invocation has an attempt left to fail.
AttemptsInv == \A h \in Calls : pc[h] # "dropped" => failures[h] < MaxAttempts

TypeInv == TypeOK /\ ReceiptInv /\ AttemptsInv

IInv ==
    /\ TypeInv
    /\ CreationInv
    /\ EventInv
    /\ EvidenceInv
    /\ NobodyWaitsInVain
    /\ StoredReportsAreSound
    /\ AlarmsAreJustified
-----------------------------------------------------------------------------
(* Type correctness *)

\* The call of an event names a run, a side and so a job of the model.
LEMMA EventCallShape ==
    ASSUME NEW h \in EventCalls
    PROVE  /\ h \in Calls
           /\ h[1] \in Runs
           /\ <<h[1], h[2]>> \in Jobs
BY DEF EventCalls, Calls, Jobs

\* An invocation that returns Err keeps the types and its receipt in order.
LEMMA ReturnErrType ==
    ASSUME TypeInv, NEW h \in Calls, NEW r \in Runs, NEW why \in Reasons,
           pc[h] # "dropped", ReturnErr(h, r, why)
    PROVE  /\ failures' \in [Calls -> 0..MaxAttempts]
           /\ pc' \in [Calls -> {"start"} \cup Working \cup Endings]
           /\ raised' \subseteq Runs \X Reasons
           /\ AttemptsInv'
           /\ receipt' = receipt => ReceiptInv'
<1>1. failures[h] < MaxAttempts /\ failures[h] \in Nat
  BY ConstantsAssumption DEF TypeInv, TypeOK, AttemptsInv
<1>2. failures' \in [Calls -> 0..MaxAttempts]
  BY <1>1, ConstantsAssumption DEF TypeInv, TypeOK, ReturnErr
<1>3. pc' \in [Calls -> {"start"} \cup Working \cup Endings]
  BY DEF TypeInv, TypeOK, ReturnErr, Goto, Endings
<1>4. raised' \subseteq Runs \X Reasons
  BY DEF TypeInv, TypeOK, ReturnErr
<1>5. AttemptsInv'
  BY <1>1, ConstantsAssumption
     DEF TypeInv, TypeOK, AttemptsInv, ReturnErr, Goto, Retried
<1>6. receipt' = receipt => ReceiptInv'
  BY DEF TypeInv, TypeOK, ReceiptInv, ReturnErr, Goto, HasReceipt, Working
<1> QED
  BY <1>2, <1>3, <1>4, <1>5, <1>6

\* Going on to another call, or ending with Ok, keeps them too.
LEMMA GotoType ==
    ASSUME TypeInv, NEW h \in Calls, NEW l \in Working \cup Endings,
           pc[h] # "dropped", pc[h] \in HasReceipt \/ l = "ignored",
           Goto(h, l), failures' = failures, receipt' = receipt
    PROVE  /\ pc' \in [Calls -> {"start"} \cup Working \cup Endings]
           /\ AttemptsInv'
           /\ ReceiptInv'
BY DEF TypeInv, TypeOK, ReceiptInv, AttemptsInv, Goto, HasReceipt, Working

\* Every step keeps the types, one case per action.
LEMMA TypeKept ==
    ASSUME TypeInv, [Next]_vars
    PROVE  TypeInv'
<1> USE ConstantsAssumption
<1>1. CASE MidnightPasses
  BY <1>1 DEF MidnightPasses, TypeInv, TypeOK, ReceiptInv, AttemptsInv, Days,
              jobVars, triggerVars, callVars, storeVars
<1>2. ASSUME NEW j \in Jobs, FinishJob(j)
      PROVE  TypeInv'
  <2>1. codes' \in [Jobs -> FailureSets \cup {{}}]
    BY <1>2 DEF FinishJob, TypeInv, TypeOK
  <2>2. status' \in [Jobs -> {"absent", "active", "complete", "failed"}]
    BY <1>2 DEF FinishJob, TypeInv, TypeOK
  <2> QED
    BY <1>2, <2>1, <2>2
       DEF FinishJob, TypeInv, TypeOK, ReceiptInv, AttemptsInv, triggerVars,
           callVars, storeVars
<1>3. ASSUME NEW r \in Runs, Trigger(r)
      PROVE  TypeInv'
  <2>1. CASE CreateSourceJob(r)
    BY <2>1 DEF CreateSourceJob, TypeInv, TypeOK, ReceiptInv, AttemptsInv,
                callVars, storeVars
  <2>2. CASE CreateReplicationJob(r)
    BY <2>2 DEF CreateReplicationJob, TypeInv, TypeOK, ReceiptInv,
                AttemptsInv, callVars, storeVars
  <2>3. ASSUME NEW k \in ReceiptKeys, PutReceipt(r, k)
        PROVE  TypeInv'
    BY <2>3 DEF PutReceipt, TypeInv, TypeOK, ReceiptInv, AttemptsInv, Jobs,
                RunOrNone, jobVars, callVars, storeVars
  <2> QED
    BY <1>3, <2>1, <2>2, <2>3 DEF Trigger
<1>4. ASSUME NEW r \in Runs, TriggerFails(r)
      PROVE  TypeInv'
  BY <1>4 DEF TriggerFails, TypeInv, TypeOK, ReceiptInv, AttemptsInv,
              jobVars, callVars, storeVars
<1>5. ASSUME NEW h \in Calls, CallStep(h)
      PROVE  TypeInv'
  <2> USE DEF storeVars
  <2>1. CASE HandleEvent(h)
    <3> USE <2>1 DEF HandleEvent, jobVars, triggerVars
    <3>1. CASE ReturnErr(h, h[1], "job_failed") /\ UNCHANGED receipt
      BY <3>1, EventCallShape, ReturnErrType DEF TypeInv, TypeOK, Reasons
    <3>2. CASE ReturnOk(h, "ignored") /\ UNCHANGED receipt
      BY <3>2, GotoType DEF TypeInv, TypeOK, ReturnOk, Endings
    <3>3. CASE /\ Goto(h, "source")
               /\ receipt' = [receipt EXCEPT ![h] = h[1]]
               /\ UNCHANGED <<failures, raised>>
      BY <3>3, EventCallShape
         DEF TypeInv, TypeOK, ReceiptInv, AttemptsInv, Goto, Working,
             RunOrNone, HasReceipt
    <3> QED
      BY <3>1, <3>2, <3>3
  <2>2. CASE StartCli(h)
    <3>1. current[h[1]] \in Runs
      BY <2>2 DEF StartCli, CliRuns, TypeInv, TypeOK, RunOrNone
    <3>2. h \notin EventCalls
      BY <2>2 DEF StartCli, CliRuns, EventCalls, Sides
    <3> QED
      BY <2>2, <3>1, <3>2
         DEF StartCli, TypeInv, TypeOK, ReceiptInv, AttemptsInv, Goto,
             Working, RunOrNone, HasReceipt, jobVars, triggerVars
  <2>3. CASE ResolveSource(h)
    <3> USE <2>3 DEF ResolveSource, jobVars, triggerVars
    <3>1. pc[h] \in HasReceipt /\ pc[h] # "dropped" /\ RunOf(h) \in Runs
      BY DEF TypeInv, ReceiptInv, HasReceipt, Working, RunOf
    <3>2. CASE Goto(h, "replication") /\ UNCHANGED <<failures, raised>>
      BY <3>1, <3>2, GotoType DEF TypeInv, TypeOK, Working
    <3>3. CASE ReturnOk(h, "noop") \/ ReturnOk(h, "waiting")
      BY <3>1, <3>3, GotoType DEF TypeInv, TypeOK, Endings, ReturnOk
    <3>4. CASE ReturnErr(h, RunOf(h), "job_failed")
      BY <3>1, <3>4, ReturnErrType DEF TypeInv, TypeOK, Reasons
    <3> QED
      BY <3>2, <3>3, <3>4
  <2>4. CASE ResolveReplication(h)
    <3> USE <2>4 DEF ResolveReplication, jobVars, triggerVars
    <3>1. pc[h] \in HasReceipt /\ pc[h] # "dropped" /\ RunOf(h) \in Runs
      BY DEF TypeInv, ReceiptInv, HasReceipt, Working, RunOf
    <3>2. CASE Goto(h, "compare") /\ UNCHANGED <<failures, raised>>
      BY <3>1, <3>2, GotoType DEF TypeInv, TypeOK, Working
    <3>3. CASE ReturnOk(h, "waiting")
      BY <3>1, <3>3, GotoType DEF TypeInv, TypeOK, Endings, ReturnOk
    <3>4. CASE \/ ReturnErr(h, RunOf(h), "job_failed")
               \/ ReturnErr(h, RunOf(h), "empty_replication")
      BY <3>1, <3>4, ReturnErrType DEF TypeInv, TypeOK, Reasons
    <3> QED
      BY <3>2, <3>3, <3>4
  <2>5. CASE Compare(h)
    <3>1. pc[h] \in HasReceipt /\ pc[h] # "dropped"
      BY <2>5 DEF Compare, HasReceipt, Working
    <3> QED
      BY <2>5, <3>1, GotoType
         DEF Compare, TypeInv, TypeOK, Working, Slots, jobVars, triggerVars
  <2>6. CASE PutCsv(h)
    <3>1. pc[h] \in HasReceipt /\ pc[h] # "dropped"
      BY <2>6 DEF PutCsv, HasReceipt, Working
    <3>2. csv' \in [Pairs -> [Slots -> RunOrNone]]
      BY <2>6 DEF PutCsv, PutDated, RunOf, TypeInv, TypeOK
    <3> QED
      BY <2>6, <3>1, <3>2, GotoType
         DEF PutCsv, TypeInv, TypeOK, Working, jobVars, triggerVars
  <2>7. CASE CopyCsvToLatest(h)
    <3>1. pc[h] \in HasReceipt /\ pc[h] # "dropped" /\ PairOfCall(h) \in Pairs
      BY <2>7 DEF CopyCsvToLatest, HasReceipt, Working, TypeInv, ReceiptInv,
                  PairOfCall
    <3>2. csv' \in [Pairs -> [Slots -> RunOrNone]]
      BY <2>7, <3>1 DEF CopyCsvToLatest, CopyToLatest, TypeInv, TypeOK
    <3> QED
      BY <2>7, <3>1, <3>2, GotoType
         DEF CopyCsvToLatest, TypeInv, TypeOK, Working, Slots, jobVars,
             triggerVars
  <2>8. CASE PutStats(h)
    <3>1. pc[h] \in HasReceipt /\ pc[h] # "dropped"
      BY <2>8 DEF PutStats, HasReceipt, Working
    <3>2. stats' \in [Pairs -> [Slots -> RunOrNone]]
      BY <2>8 DEF PutStats, PutDated, RunOf, TypeInv, TypeOK
    <3> QED
      BY <2>8, <3>1, <3>2, GotoType
         DEF PutStats, TypeInv, TypeOK, Working, jobVars, triggerVars
  <2>9. CASE CopyStatsToLatest(h)
    <3> USE <2>9 DEF CopyStatsToLatest, jobVars, triggerVars
    <3>1. /\ pc[h] \in HasReceipt /\ pc[h] # "dropped"
          /\ RunOf(h) \in Runs /\ PairOfCall(h) \in Pairs
      BY DEF HasReceipt, Working, TypeInv, ReceiptInv, PairOfCall, RunOf
    <3>2. stats' \in [Pairs -> [Slots -> RunOrNone]]
      BY <3>1 DEF CopyToLatest, TypeInv, TypeOK
    <3>3. CASE ReturnOk(h, "reported")
      BY <3>1, <3>2, <3>3, GotoType DEF TypeInv, TypeOK, Endings, ReturnOk
    <3>4. CASE ReturnErr(h, RunOf(h), "divergence")
      BY <3>1, <3>2, <3>4, ReturnErrType DEF TypeInv, TypeOK, Reasons
    <3> QED
      BY <3>3, <3>4
  <2> QED
    BY <1>5, <2>1, <2>2, <2>3, <2>4, <2>5, <2>6, <2>7, <2>8, <2>9
       DEF CallStep
<1>6. ASSUME NEW h \in Calls, CallFails(h)
      PROVE  TypeInv'
  <2> DEFINE r == IF pc[h] \in Working THEN RunOf(h) ELSE h[1]
  <2>1. r \in Runs
    BY <1>6, EventCallShape
       DEF CallFails, TypeInv, ReceiptInv, HasReceipt, RunOf
  <2>2. pc[h] # "dropped" /\ ReturnErr(h, r, "fault")
    BY <1>6 DEF CallFails, Working
  <2> HIDE DEF r
  <2>3. faults' \in 0..MaxFaults
    BY <1>6 DEF CallFails, TypeInv, TypeOK
  <2> QED
    BY <1>6, <2>1, <2>2, <2>3, ReturnErrType
       DEF CallFails, TypeInv, TypeOK, Reasons, jobVars, triggerVars,
           storeVars
<1>7. CASE UNCHANGED vars
  BY <1>7 DEF vars, TypeInv, TypeOK, ReceiptInv, AttemptsInv
<1> QED
  BY <1>1, <1>2, <1>3, <1>4, <1>5, <1>6, <1>7 DEF Next

\* So does the initial state.
LEMMA InitType == Init => TypeInv
BY ConstantsAssumption
   DEF Init, TypeInv, TypeOK, ReceiptInv, AttemptsInv, Days, Slots, Jobs,
       RunOrNone, HasReceipt, Working, LATEST

\* Every variable has its type; a live invocation has an attempt left, and
\* holds the receipt of the run it works on.
THEOREM TypeCorrect == Spec => []TypeInv
BY InitType, TypeKept, PTL DEF Spec

-----------------------------------------------------------------------------
(* The hand-off between the events, the stored reports and the alarms *)

\* What a step leaves alone of the jobs.
Settles ==
    /\ matches' = matches
    /\ \A j \in Jobs : Finished(j) => status'[j] = status[j] /\ codes'[j] = codes[j]

\* A finished job stays as it is, whatever the step.
LEMMA JobsSettle ==
    ASSUME TypeInv, CreationInv, [Next]_vars
    PROVE  Settles
<1> USE DEF Settles, Finished
<1>1. ASSUME NEW j \in Jobs, FinishJob(j)
      PROVE  Settles
  BY <1>1 DEF FinishJob, Active, TypeInv, TypeOK
<1>2. ASSUME NEW r \in Runs, Trigger(r) \/ TriggerFails(r)
      PROVE  Settles
  BY <1>2 DEF Trigger, TriggerFails, CreateSourceJob, CreateReplicationJob,
              PutReceipt, CreationInv, TypeInv, TypeOK, jobVars
<1>3. ASSUME NEW h \in Calls, CallStep(h) \/ CallFails(h)
      PROVE  Settles
  BY <1>3 DEF CallStep, CallFails, HandleEvent, StartCli, ResolveSource,
              ResolveReplication, Compare, PutCsv, CopyCsvToLatest, PutStats,
              CopyStatsToLatest, jobVars
<1>4. CASE MidnightPasses
  BY <1>4 DEF MidnightPasses, jobVars
<1>5. CASE UNCHANGED vars
  BY <1>5 DEF vars
<1> QED
  BY <1>1, <1>2, <1>3, <1>4, <1>5 DEF Next

\* Nothing but its creation makes a job appear.
LEMMA CreationKept ==
    ASSUME TypeInv, CreationInv, [Next]_vars
    PROVE  CreationInv'
<1> USE DEF CreationInv
<1>0. \A r \in Runs, s \in Sides : <<r, s>> \in Jobs
  BY DEF Jobs
<1>1. ASSUME NEW j \in Jobs, FinishJob(j)
      PROVE  CreationInv'
  BY <1>0, <1>1 DEF FinishJob, Active, TypeInv, TypeOK, triggerVars, Sides
<1>2. ASSUME NEW r \in Runs, Trigger(r) \/ TriggerFails(r)
      PROVE  CreationInv'
  <2>1. CASE CreateSourceJob(r)
    BY <1>0, <2>1 DEF CreateSourceJob, TypeInv, TypeOK, Sides
  <2>2. CASE CreateReplicationJob(r)
    BY <1>0, <2>2 DEF CreateReplicationJob, TypeInv, TypeOK, Sides
  <2>3. ASSUME NEW k \in ReceiptKeys, PutReceipt(r, k)
        PROVE  CreationInv'
    BY <2>3 DEF PutReceipt, TypeInv, TypeOK, jobVars
  <2>4. CASE TriggerFails(r)
    BY <2>4 DEF TriggerFails, TypeInv, TypeOK, jobVars
  <2> QED
    BY <1>2, <2>1, <2>2, <2>3, <2>4 DEF Trigger
<1>3. ASSUME NEW h \in Calls, CallStep(h) \/ CallFails(h)
      PROVE  CreationInv'
  BY <1>3 DEF CallStep, CallFails, HandleEvent, StartCli, ResolveSource,
              ResolveReplication, Compare, PutCsv, CopyCsvToLatest, PutStats,
              CopyStatsToLatest, jobVars, triggerVars
<1>4. CASE MidnightPasses
  BY <1>4 DEF MidnightPasses, jobVars, triggerVars
<1>5. CASE UNCHANGED vars
  BY <1>5 DEF vars
<1> QED
  BY <1>1, <1>2, <1>3, <1>4, <1>5 DEF Next

\* What an invocation comes to know by its step is true, and it only leaves a
\* run to the other event while the job it asked about is unfinished.
LearnsTheTruth(h) ==
    /\ EvidenceOf(h)'
    /\ pc'[h] = "waiting" =>
           /\ receipt'[h] = receipt[h]
           /\ \/ pc[h] = "source" /\ ~Finished(<<receipt[h], "source">>)
              \/ pc[h] = "replication" /\ ~Finished(<<receipt[h], "replication">>)

\* The jobs and the other invocations stay as they are.
Others(h) ==
    /\ UNCHANGED jobVars
    /\ \A g \in Calls \ {h} : pc'[g] = pc[g] /\ receipt'[g] = receipt[g]

\* A step keeps the other invocations and the jobs as they are.
LEMMA StepsAreLocal ==
    ASSUME TypeInv, NEW h \in Calls, CallStep(h) \/ CallFails(h)
    PROVE  Others(h)
BY DEF Others, TypeInv, TypeOK, CallStep, CallFails, HandleEvent, StartCli,
       ResolveSource, ResolveReplication, Compare, PutCsv, CopyCsvToLatest,
       PutStats, CopyStatsToLatest, ReturnOk, ReturnErr, Goto, jobVars

\* An invocation only ever goes on from what the jobs really say.
LEMMA StepsAreHonest ==
    ASSUME TypeInv, EvidenceInv, NEW h \in Calls, CallStep(h) \/ CallFails(h)
    PROVE  LearnsTheTruth(h)
<1>0. pc \in [Calls -> {"start"} \cup Working \cup Endings]
  BY DEF TypeInv, TypeOK
<1>1. Others(h)
  BY StepsAreLocal
<1>2. ASSUME NEW l, pc'[h] = l, l \in {"start", "source", "dropped", "ignored"}
      PROVE  LearnsTheTruth(h)
  BY <1>2 DEF LearnsTheTruth, EvidenceOf, AfterSource, AfterBoth
<1>3. ASSUME NEW l, Goto(h, l)
      PROVE  pc'[h] = l
  BY <1>0, <1>3 DEF Goto
<1>4. ASSUME NEW r, NEW why, ReturnErr(h, r, why)
      PROVE  LearnsTheTruth(h)
  BY <1>0, <1>2, <1>4 DEF ReturnErr, Goto
<1>5. EvidenceOf(h)
  BY DEF EvidenceInv
<1>6. CASE HandleEvent(h)
  BY <1>6, <1>2, <1>3, <1>4 DEF HandleEvent, ReturnOk
<1>7. CASE StartCli(h)
  BY <1>7, <1>2, <1>3 DEF StartCli
<1>8. CASE ResolveSource(h)
  <2> DEFINE j == <<receipt[h], "source">>
  <2> USE <1>8 DEF ResolveSource, RunOf
  <2>1. CASE ManifestOutcome(j) = "ready" /\ Goto(h, "replication")
    <3>1. status[j] = "complete"
      BY <2>1 DEF ManifestOutcome
    <3> QED
      BY <1>0, <2>1, <3>1, <1>1 DEF Others, LearnsTheTruth, EvidenceOf,
             AfterSource, AfterBoth, Goto, jobVars
  <2>2. CASE ManifestOutcome(j) = "empty" /\ ReturnOk(h, "noop")
    <3>1. EmptyManifest(j)
      BY <2>2 DEF ManifestOutcome, EmptyManifest, Broken
    <3> QED
      BY <1>0, <2>2, <3>1, <1>1 DEF Others, LearnsTheTruth, EvidenceOf,
             AfterSource, AfterBoth, Goto, ReturnOk, jobVars, EmptyManifest
  <2>3. CASE ManifestOutcome(j) = "not_ready" /\ ReturnOk(h, "waiting")
    <3>1. ~Finished(j)
      BY <2>3 DEF ManifestOutcome, EmptyManifest, Broken, Finished
    <3> QED
      BY <1>0, <2>3, <3>1, <1>1 DEF Others, LearnsTheTruth, EvidenceOf,
             AfterSource, AfterBoth, Goto, ReturnOk, jobVars
  <2> QED
    BY <2>1, <2>2, <2>3, <1>4
<1>9. CASE ResolveReplication(h)
  <2> DEFINE j == <<receipt[h], "replication">>
  <2> USE <1>9 DEF ResolveReplication, RunOf
  <2>1. CASE ManifestOutcome(j) = "ready" /\ Goto(h, "compare")
    <3>1. status[j] = "complete"
      BY <2>1 DEF ManifestOutcome
    <3>2. Ready(receipt[h])
      BY <3>1, <1>5 DEF Ready, Sides, EvidenceOf, AfterSource
    <3>3. Ready(receipt[h])'
      BY <3>2, <1>1 DEF Others, LearnsTheTruth, EvidenceOf,
             AfterSource, AfterBoth, Ready, jobVars
    <3> QED
      BY <1>0, <2>1, <3>1, <3>3, <1>1, <1>5
         DEF Others, LearnsTheTruth, EvidenceOf, AfterSource, AfterBoth, Goto,
             jobVars
  <2>2. CASE ManifestOutcome(j) = "not_ready" /\ ReturnOk(h, "waiting")
    <3>1. ~Finished(j)
      BY <2>2 DEF ManifestOutcome, EmptyManifest, Broken, Finished
    <3> QED
      BY <1>0, <2>2, <3>1, <1>1 DEF Others, LearnsTheTruth, EvidenceOf,
             AfterSource, AfterBoth, Goto, ReturnOk, jobVars
  <2> QED
    BY <2>1, <2>2, <1>4
<1>10. CASE Compare(h) \/ PutCsv(h) \/ CopyCsvToLatest(h) \/ PutStats(h)
  <2>1. Ready(receipt[h]) /\ status[<<receipt[h], "source">>] = "complete"
    BY <1>10, <1>5 DEF EvidenceOf, AfterSource, AfterBoth, Compare, PutCsv, CopyCsvToLatest, PutStats
  <2>2. pc'[h] \in {"csv_dated", "csv_latest", "stats_dated", "stats_latest"}
    BY <1>0, <1>10 DEF Compare, PutCsv, CopyCsvToLatest, PutStats, Goto
  <2>3. receipt'[h] = receipt[h]
    BY <1>10 DEF Compare, PutCsv, CopyCsvToLatest, PutStats
  <2> QED
    BY <2>1, <2>2, <2>3, <1>1 DEF Others, LearnsTheTruth, EvidenceOf,
             AfterSource, AfterBoth, Ready, jobVars
<1>11. CASE CopyStatsToLatest(h)
  <2>1. h \in EventCalls => h \notin CliRuns
    BY DEF CliRuns, EventCalls, Sides
  <2>2. Ready(receipt[h])
    BY <1>11, <1>5 DEF EvidenceOf, AfterSource, AfterBoth, CopyStatsToLatest
  <2>3. CASE /\ matches[receipt[h]] \/ h \in CliRuns
             /\ ReturnOk(h, "reported")
    BY <1>0, <1>1, <1>11, <2>1, <2>2, <2>3
       DEF Others, LearnsTheTruth, EvidenceOf, AfterSource, AfterBoth, RunOf, CopyStatsToLatest, ReturnOk, Goto, Ready, jobVars
  <2> QED
    BY <1>11, <2>3, <1>4 DEF CopyStatsToLatest, RunOf
<1>12. CASE CallFails(h)
  BY <1>12, <1>4 DEF CallFails
<1> QED
  BY <1>6, <1>7, <1>8, <1>9, <1>10, <1>11, <1>12 DEF CallStep

\* An event's invocation has left its first call only if the job is finished.
LEMMA EventKept ==
    ASSUME TypeInv, EventInv, NEW h \in EventCalls, CallStep(h) \/ CallFails(h)
    PROVE  pc'[h] # "start" => Finished(<<h[1], h[2]>>)
<1>1. CASE HandleEvent(h) \/ CallFails(h)
  BY <1>1 DEF HandleEvent, CallFails, EventInv, Working
<1>2. CASE StartCli(h)
  BY <1>2 DEF StartCli, CliRuns, EventCalls, Sides
<1>3. CASE pc[h] # "start"
  BY <1>3 DEF EventInv
<1> QED
  BY <1>1, <1>2, <1>3
     DEF CallStep, ResolveSource, ResolveReplication, Compare, PutCsv,
         CopyCsvToLatest, PutStats, CopyStatsToLatest

\* What an invocation knows stays true while the jobs settle.
LEMMA EvidenceStays ==
    ASSUME TypeInv, Settles, NEW h \in Calls, EvidenceOf(h),
           pc'[h] = pc[h], receipt'[h] = receipt[h]
    PROVE  EvidenceOf(h)'
<1>1. pc[h] \in HasReceipt => \A s \in Sides : <<receipt[h], s>> \in Jobs
  BY DEF TypeInv, ReceiptInv, Jobs
<1> QED
  BY <1>1 DEF Settles, EvidenceOf, HasReceipt, Working, AfterSource, AfterBoth,
              Ready, EmptyManifest, Finished, Sides

\* A complete run stays complete.
LEMMA ReadyStays ==
    ASSUME Settles, NEW r \in Runs, Ready(r)
    PROVE  Ready(r)'
<1>1. \A s \in Sides : <<r, s>> \in Jobs
  BY DEF Jobs
<1> QED
  BY <1>1 DEF Settles, Ready, Finished

\* A step is one of an invocation, or leaves all of them and what they wrote.
CallsRest == UNCHANGED <<pc, receipt, csv, stats, raised>>

\* A step keeps what CallsRest names, or is a call, or the failure, of some
\* invocation.
LEMMA StepKinds ==
    ASSUME [Next]_vars
    PROVE  CallsRest \/ \E h \in Calls : CallStep(h) \/ CallFails(h)
<1> USE DEF CallsRest, callVars, storeVars
<1>1. ASSUME NEW j \in Jobs, FinishJob(j)
      PROVE  CallsRest
  BY <1>1 DEF FinishJob
<1>2. ASSUME NEW r \in Runs, Trigger(r) \/ TriggerFails(r)
      PROVE  CallsRest
  BY <1>2 DEF Trigger, TriggerFails, CreateSourceJob, CreateReplicationJob,
              PutReceipt
<1>3. MidnightPasses \/ UNCHANGED vars => CallsRest
  BY DEF MidnightPasses, vars
<1> QED
  BY <1>1, <1>2, <1>3 DEF Next

\* Every step keeps it that an invocation past its first call serves the event
\* of a finished job.
LEMMA EventInvKept ==
    ASSUME TypeInv, Settles, EventInv, [Next]_vars
    PROVE  EventInv'
<1> SUFFICES ASSUME NEW g \in EventCalls, pc'[g] # "start"
             PROVE  Finished(<<g[1], g[2]>>)'
  BY DEF EventInv
<1>1. Finished(<<g[1], g[2]>>)
  <2>1. CASE CallsRest
    BY <2>1 DEF CallsRest, EventInv
  <2>2. ASSUME NEW h \in Calls, CallStep(h) \/ CallFails(h)
        PROVE  Finished(<<g[1], g[2]>>)
    <3>1. CASE g = h
      BY <2>2, <3>1, EventKept
    <3>2. CASE g # h
      BY <2>2, <3>2, StepsAreLocal, EventCallShape DEF Others, EventInv
    <3> QED
      BY <3>1, <3>2
  <2> QED
    BY <2>1, <2>2, StepKinds
<1> QED
  BY <1>1, EventCallShape DEF Settles, Finished

\* Every step keeps what the invocations know about the jobs of their runs.
LEMMA EvidenceKept ==
    ASSUME TypeInv, Settles, EvidenceInv, [Next]_vars
    PROVE  EvidenceInv'
<1> SUFFICES ASSUME NEW g \in Calls
             PROVE  EvidenceOf(g)'
  BY DEF EvidenceInv
<1>1. EvidenceOf(g)
  BY DEF EvidenceInv
<1>2. CASE CallsRest
  BY <1>1, <1>2, EvidenceStays DEF CallsRest
<1>3. ASSUME NEW h \in Calls, CallStep(h) \/ CallFails(h)
      PROVE  EvidenceOf(g)'
  <2>1. CASE g = h
    BY <1>3, <2>1, StepsAreHonest DEF LearnsTheTruth
  <2>2. CASE g # h
    BY <1>1, <1>3, <2>2, StepsAreLocal, EvidenceStays DEF Others
  <2> QED
    BY <2>1, <2>2
<1> QED
  BY <1>2, <1>3, StepKinds

\* An event's invocation that leaves its run to the other event has seen the
\* other job unfinished: its own job is finished, or there were no event.
LEMMA WaitsForTheOther ==
    ASSUME TypeInv, EventInv, EvidenceInv,
           NEW h \in EventCalls, CallStep(h) \/ CallFails(h),
           pc[h] # "waiting", pc'[h] = "waiting"
    PROVE  \E s \in Sides : s # h[2] /\ ~Finished(<<h[1], s>>)
<1>1. h \in Calls /\ LearnsTheTruth(h)
  BY EventCallShape, StepsAreHonest
<1>2. \E s \in Sides : pc[h] = s /\ ~Finished(<<receipt[h], s>>)
  BY <1>1 DEF LearnsTheTruth, Sides
<1>3. receipt[h] = h[1] /\ Finished(<<h[1], h[2]>>)
  BY <1>1, <1>2 DEF TypeInv, ReceiptInv, EventInv, HasReceipt, Working, Sides
<1> QED
  BY <1>2, <1>3

\* Every step keeps it that the two events of a run never both leave the run
\* to the other.
LEMMA WaitingKept ==
    ASSUME TypeInv, EventInv, EvidenceInv, NobodyWaitsInVain, [Next]_vars
    PROVE  NobodyWaitsInVain'
<1> SUFFICES ASSUME NEW r \in Runs, NEW m \in Deliveries, NEW n \in Deliveries,
                    pc'[<<r, "source", m>>] = "waiting",
                    pc'[<<r, "replication", n>>] = "waiting"
             PROVE  FALSE
  BY DEF NobodyWaitsInVain
<1> DEFINE a == <<r, "source", m>>
           b == <<r, "replication", n>>
<1>1. a \in EventCalls /\ b \in EventCalls /\ a \in Calls /\ b \in Calls
  BY DEF EventCalls, Calls, Sides
<1>2. ~(pc[a] = "waiting" /\ pc[b] = "waiting")
  BY DEF NobodyWaitsInVain
<1>3. PICK h \in Calls : CallStep(h) \/ CallFails(h)
  BY <1>2, StepKinds DEF CallsRest
<1>4. \A g \in Calls : g # h => pc'[g] = pc[g]
  BY <1>3, StepsAreLocal DEF Others
<1>5. CASE pc[a] # "waiting"
  <2>1. h = a /\ pc[b] = "waiting"
    BY <1>1, <1>4, <1>5
  <2>2. ~Finished(<<r, "replication">>)
    BY <1>1, <1>3, <1>5, <2>1, WaitsForTheOther DEF Sides
  <2>3. Finished(<<r, "replication">>)
    BY <1>1, <2>1 DEF EventInv
  <2> QED
    BY <2>2, <2>3
<1>6. CASE pc[b] # "waiting"
  <2>1. h = b /\ pc[a] = "waiting"
    BY <1>1, <1>4, <1>6
  <2>2. ~Finished(<<r, "source">>)
    BY <1>1, <1>3, <1>6, <2>1, WaitsForTheOther DEF Sides
  <2>3. Finished(<<r, "source">>)
    BY <1>1, <2>1 DEF EventInv
  <2> QED
    BY <2>2, <2>3
<1> QED
  BY <1>2, <1>5, <1>6

\* One kind of report, in one store: what a step may make of it.
SoundStore(store) == \A p \in Pairs, s \in Slots : Sound(p, store[p][s])

\* Putting the report of a complete run, or copying a sound one, is sound.
LEMMA PutsAreSound ==
    ASSUME NEW store, SoundStore(store), TypeInv,
           store \in [Pairs -> [Slots -> RunOrNone]],
           NEW h \in Calls, receipt[h] \in Runs, Ready(receipt[h])
    PROVE  SoundStore(PutDated(store, h)) /\ SoundStore(CopyToLatest(store, h))
<1>1. target[h] \in Slots /\ LATEST \in Slots /\ PairOfCall(h) \in Pairs
  BY ConstantsAssumption DEF TypeInv, TypeOK, PairOfCall, Slots
<1>2. Sound(PairOfCall(h), RunOf(h))
  BY DEF Sound, PairOfCall, RunOf
<1>3. Sound(PairOfCall(h), store[PairOfCall(h)][target[h]])
  BY <1>1 DEF SoundStore
<1>4. SoundStore(PutDated(store, h))
  BY <1>1, <1>2 DEF SoundStore, PutDated
<1>5. SoundStore(CopyToLatest(store, h))
  BY <1>1, <1>3 DEF SoundStore, CopyToLatest
<1> QED
  BY <1>4, <1>5

\* Every step keeps the stored reports sound.
LEMMA ReportsKept ==
    ASSUME TypeInv, Settles, EvidenceInv, StoredReportsAreSound, [Next]_vars
    PROVE  StoredReportsAreSound'
<1>1. SoundStore(csv) /\ SoundStore(stats)
  BY DEF StoredReportsAreSound, SoundStore
<1>2. /\ csv' = csv \/ SoundStore(csv')
      /\ stats' = stats \/ SoundStore(stats')
  <2>1. CASE CallsRest
    BY <2>1 DEF CallsRest
  <2>2. ASSUME NEW h \in Calls, CallStep(h) \/ CallFails(h)
        PROVE  /\ csv' = csv \/ SoundStore(csv')
               /\ stats' = stats \/ SoundStore(stats')
    <3> USE DEF storeVars
    <3>1. pc[h] \in AfterBoth => receipt[h] \in Runs /\ Ready(receipt[h])
      BY DEF TypeInv, ReceiptInv, EvidenceInv, EvidenceOf, HasReceipt, Working,
             AfterSource, AfterBoth
    <3>2. CASE PutCsv(h) \/ CopyCsvToLatest(h)
      <4>1. csv' = PutDated(csv, h) \/ csv' = CopyToLatest(csv, h)
        BY <3>2 DEF PutCsv, CopyCsvToLatest
      <4>2. stats' = stats /\ pc[h] \in AfterBoth
        BY <3>2 DEF PutCsv, CopyCsvToLatest, AfterBoth, AfterSource
      <4> QED
        BY <1>1, <3>1, <4>1, <4>2, PutsAreSound DEF TypeInv, TypeOK
    <3>3. CASE PutStats(h) \/ CopyStatsToLatest(h)
      <4>1. stats' = PutDated(stats, h) \/ stats' = CopyToLatest(stats, h)
        BY <3>3 DEF PutStats, CopyStatsToLatest
      <4>2. csv' = csv /\ pc[h] \in AfterBoth
        BY <3>3 DEF PutStats, CopyStatsToLatest, AfterBoth, AfterSource
      <4> QED
        BY <1>1, <3>1, <4>1, <4>2, PutsAreSound DEF TypeInv, TypeOK
    <3> QED
      BY <2>2, <3>2, <3>3
         DEF CallStep, CallFails, HandleEvent, StartCli, ResolveSource,
             ResolveReplication, Compare
  <2> QED
    BY <2>1, <2>2, StepKinds
<1>3. SoundStore(csv') /\ SoundStore(stats')
  BY <1>1, <1>2
<1> SUFFICES ASSUME NEW p \in Pairs, NEW s \in Slots
             PROVE  Sound(p, csv[p][s])' /\ Sound(p, stats[p][s])'
  BY DEF StoredReportsAreSound
<1>4. ASSUME NEW r \in RunOrNone, Sound(p, r)
      PROVE  Sound(p, r)'
  BY <1>4, ReadyStays DEF Sound, RunOrNone
<1> QED
  BY <1>3, <1>4, TypeKept DEF SoundStore, Sound, TypeInv, TypeOK

\* What an error says of the run it names.
Justified(r, why) ==
    CASE why = "job_failed" -> \E s \in Sides : Broken(<<r, s>>)
      [] why = "empty_replication" ->
             /\ status[<<r, "source">>] = "complete"
             /\ EmptyManifest(<<r, "replication">>)
      [] why = "divergence" -> Ready(r) /\ ~matches[r]
      [] OTHER -> TRUE

\* The property of the errors, said of one error at a time.
LEMMA AlarmsAsJustified ==
    ASSUME TypeOK
    PROVE  AlarmsAreJustified <=> \A e \in raised : Justified(e[1], e[2])
<1>1. ASSUME AlarmsAreJustified, NEW e \in raised
      PROVE  Justified(e[1], e[2])
  <2>1. PICK r \in Runs, why \in Reasons : e = <<r, why>>
    BY DEF TypeOK
  <2> QED
    BY <1>1, <2>1 DEF AlarmsAreJustified, Justified, Reasons
<1>2. ASSUME \A e \in raised : Justified(e[1], e[2]), NEW r \in Runs
      PROVE  \A why \in Reasons : <<r, why>> \in raised => Justified(r, why)
  BY <1>2
<1>3. (\A e \in raised : Justified(e[1], e[2])) => AlarmsAreJustified
  BY <1>2 DEF AlarmsAreJustified, Justified, Reasons
<1> QED
  BY <1>1, <1>3

\* The truth of an error does not change while the jobs settle.
LEMMA JustifiedStays ==
    ASSUME TypeOK, Settles, NEW r \in Runs, NEW why \in Reasons, Justified(r, why)
    PROVE  Justified(r, why)'
<1>1. \A s \in Sides : <<r, s>> \in Jobs
  BY DEF Jobs
<1> QED
  BY <1>1 DEF Settles, Justified, Broken, EmptyManifest, Finished, Ready, Sides,
              Reasons

\* An invocation only returns an error that is true at that moment.
LEMMA RaisedIsJustified ==
    ASSUME TypeInv, EvidenceInv, NEW h \in Calls, CallStep(h) \/ CallFails(h),
           NEW e \in raised' \ raised
    PROVE  Justified(e[1], e[2])
<1> USE DEF ReturnErr, Justified
<1>1. CASE HandleEvent(h)
  <2>1. Broken(<<h[1], h[2]>>) /\ e = <<h[1], "job_failed">> /\ h \in EventCalls
    BY <1>1 DEF HandleEvent, EventOutcome, ReturnOk
  <2> QED
    BY <2>1 DEF EventCalls
<1>2. CASE ResolveSource(h)
  <2>1. ManifestOutcome(<<RunOf(h), "source">>) = "failed"
        /\ e = <<RunOf(h), "job_failed">>
    BY <1>2 DEF ResolveSource, ReturnOk
  <2>2. Broken(<<RunOf(h), "source">>)
    BY <2>1 DEF ManifestOutcome
  <2> QED
    BY <2>1, <2>2 DEF Sides
<1>3. CASE ResolveReplication(h)
  <2> DEFINE j == <<RunOf(h), "replication">>
  <2>1. CASE ManifestOutcome(j) = "failed" /\ e = <<RunOf(h), "job_failed">>
    <3>1. Broken(j)
      BY <2>1 DEF ManifestOutcome
    <3> QED
      BY <2>1, <3>1 DEF Sides
  <2>2. CASE ManifestOutcome(j) = "empty" /\ e = <<RunOf(h), "empty_replication">>
    <3>1. EmptyManifest(j)
      BY <2>2 DEF ManifestOutcome
    <3>2. status[<<RunOf(h), "source">>] = "complete"
      BY <1>3 DEF ResolveReplication, EvidenceInv, EvidenceOf, AfterSource, RunOf
    <3> QED
      BY <2>2, <3>1, <3>2
  <2> QED
    BY <1>3, <2>1, <2>2 DEF ResolveReplication, ReturnOk
<1>4. CASE CopyStatsToLatest(h)
  <2>1. e = <<RunOf(h), "divergence">> /\ ~matches[RunOf(h)]
    BY <1>4 DEF CopyStatsToLatest, ReturnOk
  <2>2. Ready(RunOf(h))
    BY <1>4 DEF CopyStatsToLatest, EvidenceInv, EvidenceOf, AfterBoth,
                AfterSource, RunOf
  <2> QED
    BY <2>1, <2>2
<1>5. CASE CallFails(h)
  <2>1. e[2] = "fault"
    BY <1>5 DEF CallFails
  <2> QED
    BY <2>1
<1> QED
  BY <1>1, <1>2, <1>3, <1>4, <1>5
     DEF CallStep, StartCli, Compare, PutCsv, CopyCsvToLatest, PutStats

\* Errors returned before stay true, and so is one that is returned now.
LEMMA AlarmsKept ==
    ASSUME TypeInv, TypeInv', Settles, EvidenceInv, AlarmsAreJustified,
           [Next]_vars
    PROVE  AlarmsAreJustified'
<1>1. \A e \in raised' : Justified(e[1], e[2])
  <2>1. \A e \in raised : Justified(e[1], e[2])
    BY AlarmsAsJustified DEF TypeInv
  <2>2. CASE CallsRest
    BY <2>1, <2>2 DEF CallsRest
  <2>3. ASSUME NEW h \in Calls, CallStep(h) \/ CallFails(h)
        PROVE  \A e \in raised' : Justified(e[1], e[2])
    BY <2>1, <2>3, RaisedIsJustified
  <2> QED
    BY <2>2, <2>3, StepKinds
<1>2. \A e \in raised' : Justified(e[1], e[2])'
  <2>1. \A e \in raised' : e[1] \in Runs /\ e[2] \in Reasons
    BY DEF TypeInv, TypeOK
  <2> QED
    BY <1>1, <2>1, JustifiedStays DEF TypeInv
<1>3. TypeOK' => (AlarmsAreJustified <=> \A e \in raised : Justified(e[1], e[2]))'
  BY AlarmsAsJustified, PTL
<1> QED
  BY <1>2, <1>3 DEF TypeInv

-----------------------------------------------------------------------------
(* The theorems *)

\* The strengthening of the safety properties is an invariant.
THEOREM IInvHolds == Spec => []IInv
<1>1. Init => IInv
  <2> SUFFICES ASSUME Init
               PROVE  IInv
    OBVIOUS
  <2>1. \A r \in Runs, s \in Sides : <<r, s>> \in Jobs
    BY DEF Jobs
  <2>2. CreationInv
    BY <2>1 DEF Init, CreationInv, Sides
  <2>3. EventInv /\ EvidenceInv /\ NobodyWaitsInVain
    BY EventCallShape
       DEF Init, EventInv, EvidenceInv, EvidenceOf, NobodyWaitsInVain,
           AfterSource, AfterBoth, EventCalls, Calls, Sides
  <2>4. StoredReportsAreSound /\ AlarmsAreJustified
    BY DEF Init, StoredReportsAreSound, Sound, AlarmsAreJustified
  <2> QED
    BY <2>2, <2>3, <2>4, InitType DEF IInv
<1>2. IInv /\ [Next]_vars => IInv'
  BY TypeKept, JobsSettle, CreationKept, EventInvKept, EvidenceKept,
     WaitingKept, ReportsKept, AlarmsKept DEF IInv
<1> QED
  BY <1>1, <1>2, PTL DEF Spec

\* Every variable has its type.
THEOREM Types == Spec => []TypeOK
<1>1. TypeInv => TypeOK
  BY DEF TypeInv
<1> QED
  BY <1>1, TypeCorrect, PTL

\* No report comes from a run whose jobs have not both completed.
THEOREM ReportsAreSound == Spec => []StoredReportsAreSound
<1>1. IInv => StoredReportsAreSound
  BY DEF IInv
<1> QED
  BY <1>1, IInvHolds, PTL

\* No error is returned about a run of which it is not true.
THEOREM AlarmsAreTrue == Spec => []AlarmsAreJustified
<1>1. IInv => AlarmsAreJustified
  BY DEF IInv
<1> QED
  BY <1>1, IInvHolds, PTL

\* The two events of a run never both leave it to the other: when both were
\* acknowledged, the run was empty, or found ok by one of them.
THEOREM HandoffIsSafe == Spec => []HandoffIsNeverLost
<1>1. IInv => HandoffIsNeverLost
  <2> SUFFICES ASSUME IInv, NEW r \in Runs, NEW m \in Deliveries,
                      NEW n \in Deliveries,
                      Acknowledged(<<r, "source", m>>),
                      Acknowledged(<<r, "replication", n>>),
                      ~EmptyManifest(<<r, "source">>)
               PROVE  /\ Ready(r) /\ matches[r]
                      /\ "reported" \in {pc[<<r, "source", m>>],
                                        pc[<<r, "replication", n>>]}
    BY DEF HandoffIsNeverLost
  <2> DEFINE h == <<r, "source", m>>
             g == <<r, "replication", n>>
  <2>1. h \in EventCalls /\ g \in EventCalls /\ h \in Calls /\ g \in Calls
    BY DEF EventCalls, Calls, Sides
  <2>2. \A f \in {h, g} : Acknowledged(f) /\ receipt[f] = r /\ EvidenceOf(f)
    BY <2>1 DEF IInv, TypeInv, ReceiptInv, EvidenceInv, Acknowledged, HasReceipt
  <2>3. \A f \in {h, g} : pc[f] \in {"waiting", "reported"}
    BY <2>2 DEF Acknowledged, EvidenceOf
  <2>4. PICK f \in {h, g} : pc[f] = "reported"
    BY <2>3 DEF IInv, NobodyWaitsInVain
  <2> QED
    BY <2>1, <2>2, <2>4 DEF EvidenceOf
<1> QED
  BY <1>1, IInvHolds, PTL

-----------------------------------------------------------------------------
(* Refinement of VersionedReports, by the CSVs and by the stats *)

\* What an invocation puts has a date that is not in the future, and what it
\* is about to copy to LATEST is there under its date.
TargetInv ==
    \A h \in Calls :
        /\ pc[h] \in {"csv_dated", "csv_latest", "stats_dated", "stats_latest"} =>
              target[h] \in Days /\ target[h] <= day
        /\ pc[h] = "csv_latest" => csv[PairOfCall(h)][target[h]] # NoRun
        /\ pc[h] = "stats_latest" => stats[PairOfCall(h)][target[h]] # NoRun

\* A report is replaced by another one and never goes.
LEMMA ReportsStay ==
    ASSUME TypeInv, [Next]_vars, NEW p \in Pairs, NEW d \in Days
    PROVE  /\ csv[p][d] # NoRun => csv'[p][d] # NoRun
           /\ stats[p][d] # NoRun => stats'[p][d] # NoRun
<1>0. d \in Slots /\ d # LATEST /\ NoRun \notin Runs
  BY ConstantsAssumption DEF Slots, Days, LATEST
<1>1. ASSUME NEW h \in Calls, PutCsv(h) \/ PutStats(h)
      PROVE  /\ csv[p][d] # NoRun => csv'[p][d] # NoRun
             /\ stats[p][d] # NoRun => stats'[p][d] # NoRun
  <2>1. /\ receipt[h] \in Runs /\ PairOfCall(h) \in Pairs
        /\ target[h] \in Slots
    BY <1>1, ConstantsAssumption
       DEF PutCsv, PutStats, TypeInv, TypeOK, ReceiptInv, HasReceipt, Working, PairOfCall
  <2>2. CASE PutCsv(h)
    <3>1. csv' = [csv EXCEPT ![PairOfCall(h)][target[h]] = receipt[h]] /\ stats' = stats
      BY <2>2 DEF PutCsv, PutDated, RunOf
    <3>2. csv \in [Pairs -> [Slots -> RunOrNone]]
      BY DEF TypeInv, TypeOK
    <3> QED BY <1>0, <2>1, <3>1, <3>2
  <2>3. CASE PutStats(h)
    <3>1. stats' = [stats EXCEPT ![PairOfCall(h)][target[h]] = receipt[h]] /\ csv' = csv
      BY <2>3 DEF PutStats, PutDated, RunOf
    <3>2. stats \in [Pairs -> [Slots -> RunOrNone]]
      BY DEF TypeInv, TypeOK
    <3> QED BY <1>0, <2>1, <3>1, <3>2
  <2> QED BY <1>1, <2>2, <2>3
<1>2. ASSUME NEW h \in Calls, CopyCsvToLatest(h) \/ CopyStatsToLatest(h)
      PROVE  csv'[p][d] = csv[p][d] /\ stats'[p][d] = stats[p][d]
  BY <1>0, <1>2 DEF CopyCsvToLatest, CopyStatsToLatest, CopyToLatest, TypeInv, TypeOK
<1>3. ASSUME NEW h \in Calls,
             \/ HandleEvent(h) \/ StartCli(h) \/ ResolveSource(h)
             \/ ResolveReplication(h) \/ Compare(h) \/ CallFails(h)
      PROVE  UNCHANGED <<csv, stats>>
  BY <1>3 DEF HandleEvent, StartCli, ResolveSource, ResolveReplication, Compare,
              CallFails, storeVars
<1>4. CASE \/ MidnightPasses
           \/ \E j \in Jobs : FinishJob(j)
           \/ \E r \in Runs : Trigger(r) \/ TriggerFails(r)
           \/ UNCHANGED vars
  BY <1>4 DEF MidnightPasses, FinishJob, Trigger, CreateSourceJob,
              CreateReplicationJob, PutReceipt, TriggerFails, storeVars, vars
<1> QED BY <1>1, <1>2, <1>3, <1>4 DEF Next, CallStep

\* An invocation computes its date, puts, and copies what it has put.
LEMMA TargetKept ==
    ASSUME TypeInv, TypeInv', TargetInv, [Next]_vars
    PROVE  TargetInv'
<1> DEFINE Targets(h) ==
        /\ pc[h] \in {"csv_dated", "csv_latest", "stats_dated", "stats_latest"} =>
              target[h] \in Days /\ target[h] <= day
        /\ pc[h] = "csv_latest" => csv[PairOfCall(h)][target[h]] # NoRun
        /\ pc[h] = "stats_latest" => stats[PairOfCall(h)][target[h]] # NoRun
<1>0. day' >= day /\ day \in Nat /\ day' \in Nat
  <2>1. day' = day \/ day' = day + 1
    BY DEF Next, MidnightPasses, FinishJob, Trigger, CreateSourceJob,
           CreateReplicationJob, PutReceipt, TriggerFails, CallStep, CallFails,
           HandleEvent, StartCli, ResolveSource, ResolveReplication, Compare, PutCsv,
           CopyCsvToLatest, PutStats, CopyStatsToLatest, vars
  <2> QED BY <2>1 DEF TypeInv, TypeOK, Days
<1>1. ASSUME NEW h \in Calls,
             pc'[h] = pc[h], receipt'[h] = receipt[h], target'[h] = target[h]
      PROVE  Targets(h)'
  <2>1. CASE pc[h] \in {"csv_dated", "csv_latest", "stats_dated", "stats_latest"}
    <3>1. receipt[h] \in Runs /\ PairOf[receipt[h]] \in Pairs
      BY <2>1, ConstantsAssumption DEF TypeInv, ReceiptInv, HasReceipt, Working
    <3>2. Targets(h)
      BY DEF TargetInv
    <3>3. target[h] \in Days /\ target[h] <= day'
      BY <1>0, <2>1, <3>2 DEF Days
    <3> QED BY <1>1, <2>1, <3>1, <3>2, <3>3, ReportsStay DEF PairOfCall
  <2> QED BY <1>1, <2>1
<1>2. ASSUME NEW g \in Calls, CallStep(g) \/ CallFails(g)
      PROVE  TargetInv'
  <2>1. \A h \in Calls \ {g} :
           pc'[h] = pc[h] /\ receipt'[h] = receipt[h] /\ target'[h] = target[h]
    BY <1>2 DEF TypeInv, TypeOK, CallStep, CallFails, HandleEvent, StartCli,
         ResolveSource, ResolveReplication, Compare, PutCsv, CopyCsvToLatest,
         PutStats, CopyStatsToLatest, ReturnOk, ReturnErr, Goto
  <2>2. ASSUME Compare(g) \/ CopyCsvToLatest(g)
        PROVE  Targets(g)'
    BY <2>2 DEF Compare, CopyCsvToLatest, Goto, TypeInv, TypeOK, Days
  <2>3. ASSUME PutCsv(g)
        PROVE  Targets(g)'
    <3>1. target[g] \in Days /\ target[g] <= day /\ target' = target /\ day' = day
      BY <2>3 DEF PutCsv, TargetInv
    <3>2. receipt[g] \in Runs /\ receipt' = receipt /\ PairOfCall(g) \in Pairs
      BY <2>3, ConstantsAssumption
         DEF PutCsv, TypeInv, ReceiptInv, HasReceipt, Working, PairOfCall
    <3>3. csv'[PairOfCall(g)][target[g]] = receipt[g] /\ NoRun \notin Runs
      BY <2>3, <3>1, <3>2, ConstantsAssumption
         DEF PutCsv, PutDated, RunOf, TypeInv, TypeOK, Slots
    <3>4. pc'[g] = "csv_latest"
      BY <2>3 DEF PutCsv, Goto, TypeInv, TypeOK
    <3> QED BY <3>1, <3>2, <3>3, <3>4 DEF PairOfCall
  <2>4. ASSUME PutStats(g)
        PROVE  Targets(g)'
    <3>1. target[g] \in Days /\ target[g] <= day /\ target' = target /\ day' = day
      BY <2>4 DEF PutStats, TargetInv
    <3>2. receipt[g] \in Runs /\ receipt' = receipt /\ PairOfCall(g) \in Pairs
      BY <2>4, ConstantsAssumption
         DEF PutStats, TypeInv, ReceiptInv, HasReceipt, Working, PairOfCall
    <3>3. stats'[PairOfCall(g)][target[g]] = receipt[g] /\ NoRun \notin Runs
      BY <2>4, <3>1, <3>2, ConstantsAssumption
         DEF PutStats, PutDated, RunOf, TypeInv, TypeOK, Slots
    <3>4. pc'[g] = "stats_latest"
      BY <2>4 DEF PutStats, Goto, TypeInv, TypeOK
    <3> QED BY <3>1, <3>2, <3>3, <3>4 DEF PairOfCall
  <2>5. ASSUME \/ HandleEvent(g) \/ StartCli(g) \/ ResolveSource(g)
               \/ ResolveReplication(g) \/ CopyStatsToLatest(g) \/ CallFails(g)
        PROVE  Targets(g)'
    <3>1. pc'[g] \notin {"csv_dated", "csv_latest", "stats_dated", "stats_latest"}
      BY <2>5 DEF HandleEvent, StartCli, ResolveSource, ResolveReplication,
           CopyStatsToLatest, CallFails, ReturnOk, ReturnErr, Goto, TypeInv, TypeOK
    <3> QED BY <3>1
  <2>6. Targets(g)'
    BY <1>2, <2>2, <2>3, <2>4, <2>5 DEF CallStep
  <2> QED BY <1>1, <2>1, <2>6 DEF TargetInv
<1>3. CASE \/ MidnightPasses
           \/ \E j \in Jobs : FinishJob(j)
           \/ \E r \in Runs : Trigger(r) \/ TriggerFails(r)
           \/ UNCHANGED vars
  <2>1. UNCHANGED <<pc, receipt, target>>
    BY <1>3 DEF MidnightPasses, FinishJob, Trigger, CreateSourceJob,
         CreateReplicationJob, PutReceipt, TriggerFails, callVars, vars
  <2> QED BY <1>1, <2>1 DEF TargetInv
<1> QED BY <1>2, <1>3 DEF Next

ReadyRuns == {r \in Runs : Ready(r)}

\* A job that is created was absent, and no run is ready by it.
LEMMA CreationReadiesNone ==
    ASSUME TypeInv, CreationInv, NEW r \in Runs, Trigger(r) \/ TriggerFails(r)
    PROVE  ReadyRuns' = ReadyRuns
<1>0. \A q \in Runs, s \in Sides : <<q, s>> \in Jobs
  BY DEF Jobs
<1>1. CASE CreateSourceJob(r)
  <2>1. /\ status[<<r, "source">>] = "absent" /\ "source" \in Sides
        /\ status' = [status EXCEPT ![<<r, "source">>] = "active"]
    BY <1>1 DEF CreateSourceJob, CreationInv, Sides
  <2>2. \A q \in Runs : Ready(q)' <=> Ready(q)
    BY <1>0, <2>1 DEF Ready, TypeInv, TypeOK
  <2> QED BY <2>2 DEF ReadyRuns
<1>2. CASE CreateReplicationJob(r)
  <2>1. /\ status[<<r, "replication">>] = "absent" /\ "replication" \in Sides
        /\ status' = [status EXCEPT ![<<r, "replication">>] = "active"]
    BY <1>2 DEF CreateReplicationJob, CreationInv, Sides
  <2>2. \A q \in Runs : Ready(q)' <=> Ready(q)
    BY <1>0, <2>1 DEF Ready, TypeInv, TypeOK
  <2> QED BY <2>2 DEF ReadyRuns
<1>3. CASE TriggerFails(r) \/ \E k \in ReceiptKeys : PutReceipt(r, k)
  BY <1>3 DEF TriggerFails, PutReceipt, jobVars, ReadyRuns, Ready
<1> QED BY <1>1, <1>2, <1>3 DEF Trigger

\* A job that finishes makes its run ready, or none.
LEMMA FinishReadiesOne ==
    ASSUME TypeInv, NEW j \in Jobs, FinishJob(j)
    PROVE  \/ ReadyRuns' = ReadyRuns
           \/ \E r \in Runs : ReadyRuns' = ReadyRuns \cup {r}
<1>0. \A q \in Runs, s \in Sides : <<q, s>> \in Jobs
  BY DEF Jobs
<1>1. PICK r \in Runs, s \in Sides : j = <<r, s>>
  BY DEF Jobs
<1>2. /\ status[j] = "active"
      /\ \A i \in Jobs \ {j} : status'[i] = status[i]
  BY DEF FinishJob, Active, TypeInv, TypeOK
<1>3. \A q \in Runs \ {r} : Ready(q)' <=> Ready(q)
  BY <1>0, <1>1, <1>2 DEF Ready
<1>4. ~Ready(r)
  BY <1>1, <1>2 DEF Ready
<1>5. CASE Ready(r)'
  BY <1>3, <1>5 DEF ReadyRuns
<1>6. CASE ~Ready(r)'
  BY <1>3, <1>4, <1>6 DEF ReadyRuns
<1> QED BY <1>5, <1>6

\* The steps that concern readers: time passes, a job finishes, a report is put
\* or copied.  Every other step leaves reports, date and complete runs.
LEMMA ReaderSteps ==
    ASSUME IInv, [Next]_vars
    PROVE  \/ MidnightPasses
           \/ \E j \in Jobs : FinishJob(j)
           \/ \E h \in Calls : PutCsv(h) \/ CopyCsvToLatest(h)
           \/ \E h \in Calls : PutStats(h) \/ CopyStatsToLatest(h)
           \/ UNCHANGED <<day, ReadyRuns, csv, stats>>
<1>1. ASSUME NEW h \in Calls,
             \/ HandleEvent(h) \/ StartCli(h) \/ ResolveSource(h)
             \/ ResolveReplication(h) \/ Compare(h) \/ CallFails(h)
      PROVE  UNCHANGED <<day, ReadyRuns, csv, stats>>
  BY <1>1 DEF HandleEvent, StartCli, ResolveSource, ResolveReplication, Compare,
              CallFails, jobVars, storeVars, ReadyRuns, Ready
<1>2. ASSUME NEW r \in Runs, Trigger(r) \/ TriggerFails(r)
      PROVE  UNCHANGED <<day, ReadyRuns, csv, stats>>
  <2>1. UNCHANGED <<day, csv, stats>>
    BY <1>2 DEF Trigger, CreateSourceJob, CreateReplicationJob, PutReceipt,
         TriggerFails, storeVars
  <2> QED BY <1>2, <2>1, CreationReadiesNone DEF IInv
<1>3. CASE UNCHANGED vars
  BY <1>3 DEF vars, ReadyRuns, Ready
<1> QED BY <1>1, <1>2, <1>3 DEF Next, CallStep

\* What a put and a copy do to one store, as readers see it.
Archive(store) == [q \in Pairs |-> [e \in Days |-> store[q][e]]]
Latest(store) == [q \in Pairs |-> store[q][LATEST]]

SeenPut(store, h, r, d, p) ==
    /\ p = PairOf[r] /\ Ready(r) /\ d <= day
    /\ Archive(PutDated(store, h)) = [Archive(store) EXCEPT ![p][d] = r]
    /\ Latest(PutDated(store, h)) = Latest(store)

SeenCopy(store, h, d, p) ==
    /\ d = target[h] /\ p = PairOfCall(h)
    /\ Archive(CopyToLatest(store, h)) = Archive(store)
    /\ Latest(CopyToLatest(store, h)) = [Latest(store) EXCEPT ![p] = store[p][d]]
    /\ Archive(store)[p][d] = store[p][d]

\* A put of an invocation publishes the complete run it is about, and a copy
\* takes what is under its date.
LEMMA StoreSteps ==
    ASSUME TypeInv, TargetInv, EvidenceInv, NEW h \in Calls,
           NEW store, store \in [Pairs -> [Slots -> RunOrNone]],
           pc[h] \in {"csv_dated", "csv_latest", "stats_dated", "stats_latest"}
    PROVE  \E r \in Runs, d \in Days, p \in Pairs :
              SeenPut(store, h, r, d, p) /\ SeenCopy(store, h, d, p)
<1>1. receipt[h] \in Runs /\ PairOf[receipt[h]] \in Pairs
  BY ConstantsAssumption DEF TypeInv, ReceiptInv, HasReceipt, Working
<1>2. target[h] \in Days /\ target[h] <= day
  BY DEF TargetInv
<1>3. Ready(receipt[h])
  BY DEF EvidenceInv, EvidenceOf, AfterBoth, AfterSource
<1>4. PICK r \in Runs, d \in Days, p \in Pairs :
         r = receipt[h] /\ d = target[h] /\ p = PairOf[r] /\ p = PairOfCall(h)
  BY <1>1, <1>2 DEF PairOfCall
<1>5. d \in Slots /\ LATEST \in Slots /\ LATEST \notin Days
  BY DEF Slots, Days, LATEST
<1>6. /\ Archive(PutDated(store, h)) = [Archive(store) EXCEPT ![p][d] = r]
      /\ Latest(PutDated(store, h)) = Latest(store)
  BY <1>4, <1>5 DEF PutDated, RunOf, Slots, Archive, Latest
<1>7. /\ Archive(CopyToLatest(store, h)) = Archive(store)
      /\ Latest(CopyToLatest(store, h)) = [Latest(store) EXCEPT ![p] = store[p][d]]
  BY <1>4, <1>5 DEF CopyToLatest, Slots, Archive, Latest
<1>8. Archive(store)[p][d] = store[p][d]
  BY <1>4 DEF Archive
<1>9. Ready(r) /\ d <= day
  BY <1>2, <1>3, <1>4
<1>10. SeenPut(store, h, r, d, p)
  BY <1>4, <1>6, <1>9 DEF SeenPut
<1>11. SeenCopy(store, h, d, p)
  BY <1>4, <1>7, <1>8 DEF SeenCopy
<1> QED BY <1>10, <1>11

\* A put under a date publishes, a copy promotes; nothing else is seen by readers.
LEMMA CsvRefines ==
    ASSUME IInv, TargetInv, [Next]_vars
    PROVE  [CsvReports!Next]_(CsvReports!vars)
<1>0. TypeInv /\ EvidenceInv /\ csv \in [Pairs -> [Slots -> RunOrNone]]
  BY DEF IInv, TypeInv, TypeOK
<1>1. CASE MidnightPasses
  <2>1. CsvReports!Tick
    BY <1>0, <1>1, ConstantsAssumption
       DEF MidnightPasses, CsvReports!Tick, CsvReports!Days, Days, TypeInv, TypeOK,
           jobVars, storeVars, Ready
  <2> QED BY <2>1 DEF CsvReports!Next
<1>2. ASSUME NEW j \in Jobs, FinishJob(j)
      PROVE  CsvReports!Next \/ UNCHANGED CsvReports!vars
  <2>1. UNCHANGED <<day, csv, stats>>
    BY <1>2 DEF FinishJob, storeVars
  <2>2. CASE ReadyRuns' = ReadyRuns
    BY <2>1, <2>2 DEF ReadyRuns, CsvReports!vars
  <2>3. ASSUME NEW r \in Runs, ReadyRuns' = ReadyRuns \cup {r}
        PROVE  CsvReports!Next
    <3>1. CsvReports!Complete(r)
      BY <2>1, <2>3 DEF ReadyRuns, CsvReports!Complete
    <3> QED BY <3>1 DEF CsvReports!Next
  <2> QED BY <1>0, <1>2, <2>2, <2>3, FinishReadiesOne
<1>3. ASSUME NEW h \in Calls, PutCsv(h)
      PROVE  CsvReports!Next
  <2>1. /\ pc[h] \in {"csv_dated", "stats_dated"}
        /\ csv' = PutDated(csv, h)
        /\ day' = day /\ ReadyRuns' = ReadyRuns
    BY <1>3 DEF PutCsv, jobVars, ReadyRuns, Ready
  <2>2. PICK r \in Runs, d \in Days, p \in Pairs : SeenPut(csv, h, r, d, p)
    BY <1>0, <2>1, StoreSteps
  <2>3. CsvReports!Publish(r, d)
    BY <2>1, <2>2 DEF CsvReports!Publish, ReadyRuns, SeenPut, Archive, Latest
  <2>4. d \in CsvReports!Days
    BY DEF CsvReports!Days, Days
  <2> QED BY <2>3, <2>4 DEF CsvReports!Next
<1>4. ASSUME NEW h \in Calls, CopyCsvToLatest(h)
      PROVE  CsvReports!Next
  <2>1. /\ pc[h] = "csv_latest"
        /\ csv' = CopyToLatest(csv, h)
        /\ day' = day /\ ReadyRuns' = ReadyRuns
    BY <1>4 DEF CopyCsvToLatest, jobVars, ReadyRuns, Ready
  <2>2. csv[PairOfCall(h)][target[h]] # NoRun
    BY <2>1 DEF TargetInv
  <2>3. PICK d \in Days, p \in Pairs : SeenCopy(csv, h, d, p)
    BY <1>0, <2>1, StoreSteps
  <2>4. CsvReports!Promote(p, d)
    BY <2>1, <2>2, <2>3 DEF CsvReports!Promote, ReadyRuns, SeenCopy, Archive, Latest
  <2>5. d \in CsvReports!Days
    BY DEF CsvReports!Days, Days
  <2> QED BY <2>4, <2>5 DEF CsvReports!Next
<1>5. CASE UNCHANGED <<day, ReadyRuns, csv>>
  BY <1>5 DEF ReadyRuns, CsvReports!vars
<1>6. ASSUME NEW h \in Calls, PutStats(h) \/ CopyStatsToLatest(h)
      PROVE  UNCHANGED <<day, ReadyRuns, csv>>
  BY <1>6 DEF PutStats, CopyStatsToLatest, jobVars, ReadyRuns, Ready
<1> QED BY <1>1, <1>2, <1>3, <1>4, <1>5, <1>6, ReaderSteps

\* The same for the stats.
LEMMA StatsRefines ==
    ASSUME IInv, TargetInv, [Next]_vars
    PROVE  [StatsReports!Next]_(StatsReports!vars)
<1>0. TypeInv /\ EvidenceInv /\ stats \in [Pairs -> [Slots -> RunOrNone]]
  BY DEF IInv, TypeInv, TypeOK
<1>1. CASE MidnightPasses
  <2>1. StatsReports!Tick
    BY <1>0, <1>1, ConstantsAssumption
       DEF MidnightPasses, StatsReports!Tick, StatsReports!Days, Days, TypeInv, TypeOK,
           jobVars, storeVars, Ready
  <2> QED BY <2>1 DEF StatsReports!Next
<1>2. ASSUME NEW j \in Jobs, FinishJob(j)
      PROVE  StatsReports!Next \/ UNCHANGED StatsReports!vars
  <2>1. UNCHANGED <<day, csv, stats>>
    BY <1>2 DEF FinishJob, storeVars
  <2>2. CASE ReadyRuns' = ReadyRuns
    BY <2>1, <2>2 DEF ReadyRuns, StatsReports!vars
  <2>3. ASSUME NEW r \in Runs, ReadyRuns' = ReadyRuns \cup {r}
        PROVE  StatsReports!Next
    <3>1. StatsReports!Complete(r)
      BY <2>1, <2>3 DEF ReadyRuns, StatsReports!Complete
    <3> QED BY <3>1 DEF StatsReports!Next
  <2> QED BY <1>0, <1>2, <2>2, <2>3, FinishReadiesOne
<1>3. ASSUME NEW h \in Calls, PutStats(h)
      PROVE  StatsReports!Next
  <2>1. /\ pc[h] \in {"csv_dated", "stats_dated"}
        /\ stats' = PutDated(stats, h)
        /\ day' = day /\ ReadyRuns' = ReadyRuns
    BY <1>3 DEF PutStats, jobVars, ReadyRuns, Ready
  <2>2. PICK r \in Runs, d \in Days, p \in Pairs : SeenPut(stats, h, r, d, p)
    BY <1>0, <2>1, StoreSteps
  <2>3. StatsReports!Publish(r, d)
    BY <2>1, <2>2 DEF StatsReports!Publish, ReadyRuns, SeenPut, Archive, Latest
  <2>4. d \in StatsReports!Days
    BY DEF StatsReports!Days, Days
  <2> QED BY <2>3, <2>4 DEF StatsReports!Next
<1>4. ASSUME NEW h \in Calls, CopyStatsToLatest(h)
      PROVE  StatsReports!Next
  <2>1. /\ pc[h] = "stats_latest"
        /\ stats' = CopyToLatest(stats, h)
        /\ day' = day /\ ReadyRuns' = ReadyRuns
    BY <1>4 DEF CopyStatsToLatest, jobVars, ReadyRuns, Ready
  <2>2. stats[PairOfCall(h)][target[h]] # NoRun
    BY <2>1 DEF TargetInv
  <2>3. PICK d \in Days, p \in Pairs : SeenCopy(stats, h, d, p)
    BY <1>0, <2>1, StoreSteps
  <2>4. StatsReports!Promote(p, d)
    BY <2>1, <2>2, <2>3 DEF StatsReports!Promote, ReadyRuns, SeenCopy, Archive, Latest
  <2>5. d \in StatsReports!Days
    BY DEF StatsReports!Days, Days
  <2> QED BY <2>4, <2>5 DEF StatsReports!Next
<1>5. CASE UNCHANGED <<day, ReadyRuns, stats>>
  BY <1>5 DEF ReadyRuns, StatsReports!vars
<1>6. ASSUME NEW h \in Calls, PutCsv(h) \/ CopyCsvToLatest(h)
      PROVE  UNCHANGED <<day, ReadyRuns, stats>>
  BY <1>6 DEF PutCsv, CopyCsvToLatest, jobVars, ReadyRuns, Ready
<1> QED BY <1>1, <1>2, <1>3, <1>4, <1>5, <1>6, ReaderSteps

\* Dates and copies are in order in every reachable state.
LEMMA TargetsHold == Spec => []TargetInv
<1>1. Init => TargetInv
  BY DEF Init, TargetInv
<1>2. IInv /\ IInv' /\ TargetInv /\ [Next]_vars => TargetInv'
  BY TargetKept DEF IInv
<1> QED BY <1>1, <1>2, IInvHolds, PTL DEF Spec

\* The CSVs keep what readers of reports are promised: only complete runs are
\* published, and LATEST only ever receives a copy of a report under a date.
THEOREM CsvPromiseIsKept == Spec => CsvKeepsPromise
<1>1. Init => CsvReports!Init
  BY ConstantsAssumption DEF Init, Ready, Jobs, Sides, Days, Slots, LATEST,
     CsvReports!Init, CsvReports!Days
<1> QED
  BY <1>1, IInvHolds, TargetsHold, CsvRefines, PTL DEF Spec, CsvKeepsPromise, CsvReports!Spec

\* And so do the stats.
THEOREM StatsPromiseIsKept == Spec => StatsKeepPromise
<1>1. Init => StatsReports!Init
  BY ConstantsAssumption DEF Init, Ready, Jobs, Sides, Days, Slots, LATEST,
     StatsReports!Init, StatsReports!Days
<1> QED
  BY <1>1, IInvHolds, TargetsHold, StatsRefines, PTL
     DEF Spec, StatsKeepPromise, StatsReports!Spec

-----------------------------------------------------------------------------
(* LATEST within a day *)

\* A copy of the pair's report is under way; the pair has reports of one date.
CopyAhead(p) == \E h \in Calls : pc[h] = "csv_latest" /\ PairOfCall(h) = p
OnlyDay(p, d) == ArchivedDays(p) = {d}

\* Before the first fault, every put is followed by its copy.
LatestInv ==
    faults = 0 =>
        \A p \in Pairs, d \in Days :
            OnlyDay(p, d) /\ ~CopyAhead(p) => csv[p][LATEST] = csv[p][d]

\* Faults are not taken back.
LEMMA FaultsStay ==
    ASSUME TypeInv, [Next]_vars
    PROVE  faults' = 0 => faults = 0 /\ \A h \in Calls : ~CallFails(h)
<1>1. faults \in Nat
  BY ConstantsAssumption DEF TypeInv, TypeOK
<1>2. ASSUME NEW h \in Calls, CallFails(h)
      PROVE  faults' = faults + 1
  BY <1>2 DEF CallFails
<1>3. faults' = faults \/ faults' = faults + 1
  BY DEF Next, MidnightPasses, FinishJob, Trigger, CreateSourceJob,
         CreateReplicationJob, PutReceipt, TriggerFails, CallStep, CallFails,
         HandleEvent, StartCli, ResolveSource, ResolveReplication, Compare, PutCsv,
         CopyCsvToLatest, PutStats, CopyStatsToLatest, vars
<1> QED BY <1>1, <1>2, <1>3

\* A step that leaves the CSVs alone begins no copy and ends none.
LEMMA CopiesRest ==
    ASSUME TypeInv, NEW h \in Calls,
           \/ HandleEvent(h) \/ StartCli(h) \/ ResolveSource(h)
           \/ ResolveReplication(h) \/ Compare(h) \/ PutStats(h)
           \/ CopyStatsToLatest(h)
    PROVE  csv' = csv /\ \A p : CopyAhead(p)' <=> CopyAhead(p)
<1>1. csv' = csv
  BY DEF HandleEvent, StartCli, ResolveSource, ResolveReplication, Compare,
         PutStats, CopyStatsToLatest, storeVars
<1>2. pc[h] # "csv_latest" /\ pc'[h] # "csv_latest"
  BY DEF HandleEvent, StartCli, ResolveSource, ResolveReplication, Compare,
         PutStats, CopyStatsToLatest, ReturnOk, ReturnErr, Goto, TypeInv, TypeOK
<1>3. \A g \in Calls \ {h} : pc'[g] = pc[g] /\ receipt'[g] = receipt[g]
  BY StepsAreLocal DEF Others, CallStep
<1> QED BY <1>1, <1>2, <1>3 DEF CopyAhead, PairOfCall

\* A put announces a copy, and a copy takes the only date there is.
LEMMA LatestKept ==
    ASSUME TypeInv, TypeInv', TargetInv, LatestInv, [Next]_vars
    PROVE  LatestInv'
<1> SUFFICES ASSUME faults' = 0, NEW p \in Pairs, NEW d \in Days,
                    OnlyDay(p, d)', ~CopyAhead(p)'
             PROVE  csv'[p][LATEST] = csv'[p][d]
  BY DEF LatestInv
<1>1. faults = 0 /\ \A h \in Calls : ~CallFails(h)
  BY FaultsStay
<1>2. ASSUME csv' = csv, CopyAhead(p)' <=> CopyAhead(p)
      PROVE  csv'[p][LATEST] = csv'[p][d]
  <2>1. OnlyDay(p, d) /\ ~CopyAhead(p)
    BY <1>2 DEF OnlyDay, ArchivedDays
  <2> QED BY <1>1, <1>2, <2>1 DEF LatestInv
<1>3. CASE CallsRest /\ receipt' = receipt
  <2>1. csv' = csv /\ (CopyAhead(p)' <=> CopyAhead(p))
    BY <1>3 DEF CallsRest, CopyAhead, PairOfCall
  <2> QED BY <1>2, <2>1
<1>4. ASSUME NEW h \in Calls, PutCsv(h)
      PROVE  csv'[p][LATEST] = csv'[p][d]
  <2>1. /\ receipt[h] \in Runs /\ PairOfCall(h) \in Pairs /\ target[h] \in Days
        /\ pc[h] = "csv_dated" /\ receipt' = receipt
        /\ csv' = [csv EXCEPT ![PairOfCall(h)][target[h]] = receipt[h]]
    BY <1>4, ConstantsAssumption
       DEF PutCsv, PutDated, RunOf, TypeInv, ReceiptInv, TargetInv, HasReceipt,
           Working, PairOfCall
  <2>2. /\ pc'[h] = "csv_latest"
        /\ \A g \in Calls \ {h} : pc'[g] = pc[g]
    BY <1>4 DEF PutCsv, Goto, TypeInv, TypeOK
  <2>3. p # PairOfCall(h)
    BY <2>1, <2>2 DEF CopyAhead, PairOfCall
  <2>4. csv'[p] = csv[p]
    BY <2>1, <2>3 DEF TypeInv, TypeOK
  <2>5. OnlyDay(p, d) /\ ~CopyAhead(p)
    <3>1. OnlyDay(p, d)
      BY <2>4 DEF OnlyDay, ArchivedDays
    <3>2. ~CopyAhead(p)
      BY <2>1, <2>2, <2>3 DEF CopyAhead, PairOfCall
    <3> QED BY <3>1, <3>2
  <2> QED BY <1>1, <2>4, <2>5 DEF LatestInv
<1>5. ASSUME NEW h \in Calls, CopyCsvToLatest(h)
      PROVE  csv'[p][LATEST] = csv'[p][d]
  <2> DEFINE q == PairOfCall(h)
             t == target[h]
  <2>1. /\ q \in Pairs /\ t \in Days /\ csv[q][t] # NoRun
        /\ pc[h] = "csv_latest" /\ receipt' = receipt
        /\ csv' = [csv EXCEPT ![q][LATEST] = csv[q][t]]
    BY <1>5, ConstantsAssumption
       DEF CopyCsvToLatest, CopyToLatest, TypeInv, ReceiptInv, TargetInv,
           HasReceipt, Working, PairOfCall
  <2>2. /\ pc'[h] = "stats_dated"
        /\ \A g \in Calls \ {h} : pc'[g] = pc[g]
    BY <1>5 DEF CopyCsvToLatest, Goto, TypeInv, TypeOK
  <2>3. /\ csv \in [Pairs -> [Slots -> RunOrNone]]
        /\ LATEST \in Slots /\ Days \subseteq Slots /\ LATEST \notin Days
    <3>1. csv \in [Pairs -> [Slots -> RunOrNone]]
      BY DEF TypeInv, TypeOK
    <3>2. LATEST \in Slots /\ Days \subseteq Slots /\ LATEST \notin Days
      BY ConstantsAssumption DEF Slots, Days, LATEST
    <3> QED BY <3>1, <3>2
  <2>4. \A e \in Days : csv'[p][e] = csv[p][e]
    BY <2>1, <2>3
  <2>5. OnlyDay(p, d)
    BY <2>4 DEF OnlyDay, ArchivedDays
  <2>6. CASE p = q
    <3>1. t = d
      BY <2>1, <2>5, <2>6 DEF OnlyDay, ArchivedDays
    <3>2. csv'[p][LATEST] = csv[p][t]
      BY <2>1, <2>3, <2>6
    <3> QED BY <2>4, <3>1, <3>2
  <2>7. CASE p # q
    <3>1. csv'[p] = csv[p]
      BY <2>1, <2>3, <2>7
    <3>2. ~CopyAhead(p)
      BY <2>1, <2>2, <2>7 DEF CopyAhead, PairOfCall
    <3> QED BY <1>1, <2>5, <3>1, <3>2 DEF LatestInv
  <2> QED BY <2>6, <2>7
<1>6. ASSUME NEW h \in Calls,
             \/ HandleEvent(h) \/ StartCli(h) \/ ResolveSource(h)
             \/ ResolveReplication(h) \/ Compare(h) \/ PutStats(h)
             \/ CopyStatsToLatest(h)
      PROVE  csv'[p][LATEST] = csv'[p][d]
  BY <1>2, <1>6, CopiesRest
<1>7. CASE \/ MidnightPasses
           \/ \E j \in Jobs : FinishJob(j)
           \/ \E r \in Runs : Trigger(r) \/ TriggerFails(r)
           \/ UNCHANGED vars
  <2>1. CallsRest /\ receipt' = receipt
    BY <1>7 DEF CallsRest, MidnightPasses, FinishJob, Trigger, CreateSourceJob,
         CreateReplicationJob, PutReceipt, TriggerFails, callVars, storeVars, vars
  <2> QED BY <1>3, <2>1
<1> QED BY <1>1, <1>4, <1>5, <1>6, <1>7 DEF Next, CallStep

\* As long as nothing fails and every pair has reports of one date only,
\* LATEST holds the newest report, however many runs and events overlap.  Across a
\* midnight, or after a put whose copy failed, it may hold an older one.
THEOREM LatestIsNewestWithinADay ==
    Spec => [](/\ faults = 0
               /\ \A p \in Pairs : \A d, e \in ArchivedDays(p) : d = e
               => LatestIsNewest)
<1>1. Init => LatestInv
  BY ConstantsAssumption DEF Init, LatestInv, OnlyDay, ArchivedDays, Days, Slots, LATEST
<1>2. TypeInv /\ TypeInv' /\ TargetInv /\ LatestInv /\ [Next]_vars => LatestInv'
  BY LatestKept
<1>3. Spec => []LatestInv
  BY <1>1, <1>2, TypeCorrect, TargetsHold, PTL DEF Spec
<1>4. LatestInv /\ faults = 0
      /\ (\A p \in Pairs : \A d, e \in ArchivedDays(p) : d = e) => LatestIsNewest
  <2> SUFFICES ASSUME LatestInv, faults = 0, NEW p \in Pairs,
                      \A d, e \in ArchivedDays(p) : d = e,
                      ArchivedDays(p) # {}, ~CopyAhead(p)
               PROVE  csv[p][LATEST] = csv[p][Newest(ArchivedDays(p))]
    BY DEF LatestIsNewest, CopyAhead
  <2>1. PICK d \in Days : ArchivedDays(p) = {d}
    BY DEF ArchivedDays
  <2>2. d \in Nat
    BY DEF Days
  <2>3. Newest({d}) = d
    <3>1. \E x \in {d} : \A e \in {d} : e <= x
      BY <2>2
    <3> QED BY <3>1 DEF Newest
  <2> QED BY <2>1, <2>3 DEF LatestInv, OnlyDay
<1> QED BY <1>3, <1>4, PTL
=============================================================================
