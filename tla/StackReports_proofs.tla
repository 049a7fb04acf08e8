------------------------ MODULE StackReports_proofs ------------------------
(***************************************************************************)
(* Proofs about inventory-report beside the other report pipelines, for    *)
(* any number of buckets, days, invocations, duplicates, attempts and      *)
(* faults: the two reports under LATEST agree, and both kinds keep what    *)
(* VersionedReports promises.  Part two is about storage-report.           *)
(***************************************************************************)
EXTENDS StackReports, FiniteSetTheorems, TLAPS

States == {"idle", "ok", "dropped"} \cup Working

\* An invocation knows which manifest it reports on.
HasManifest(h) == pc[h] \in {"fetch", "csv_latest", "stats_dated",
                             "stats_latest", "return"}

\* What the proofs need of the types.
CallTypes ==
    /\ day \in Days
    /\ made \subseteq Inventories
    /\ pc \in [Calls -> States]
    /\ work \in [Calls -> InventoryOrNone]
    /\ target \in [Calls -> Slots]
    /\ csv \in [Buckets -> [Slots -> InventoryOrNone]]
    /\ stats \in [Buckets -> [Slots -> InventoryOrNone]]
    /\ alone \in [Calls -> BOOLEAN]
    /\ torn \subseteq Buckets

\* An invocation reports on an inventory of its own bucket that S3 has made;
\* only the CLI has to look for one.
WorkInv ==
    \A h \in Calls :
        /\ HasManifest(h) => work[h] \in made /\ work[h][1] = BucketOf(h)
        /\ pc[h] \in {"today", "yesterday"} => h \notin EventCalls

\* What is about to be copied to LATEST is there, under a date.
TargetInv ==
    \A h \in Calls :
        /\ pc[h] = "csv_latest" =>
              target[h] \in Days /\ csv[BucketOf(h)][target[h]] # None
        /\ pc[h] = "stats_latest" =>
              target[h] \in Days /\ stats[BucketOf(h)][target[h]] # None

\* Invocations that write at the same time as one that is alone work on the
\* same inventory, and are alone in the same sense.
AloneInv ==
    \A h \in Calls :
        alone[h] =>
            /\ Halfway(h)
            /\ \A g \in Calls :
                  BucketOf(g) = BucketOf(h) /\ Halfway(g) =>
                      work[g] = work[h] /\ alone[g]

\* What an invocation that is alone has written is still its own inventory.
WrittenInv ==
    \A h \in Calls :
        alone[h] =>
            /\ pc[h] = "csv_latest" => csv[BucketOf(h)][target[h]] = work[h]
            /\ pc[h] \in {"stats_dated", "stats_latest"} =>
                  csv[BucketOf(h)][LATEST] = work[h]
            /\ pc[h] = "stats_latest" => stats[BucketOf(h)][target[h]] = work[h]

\* Once a report of a bucket was finished alone, whoever still writes there
\* writes what is under LATEST already.
WholeInv ==
    \A h \in Calls :
        Halfway(h) /\ BucketOf(h) \notin torn =>
            alone[h] /\ work[h] = csv[BucketOf(h)][LATEST]

IInv ==
    /\ CallTypes
    /\ WorkInv
    /\ TargetInv
    /\ AloneInv
    /\ WrittenInv
    /\ WholeInv
    /\ ReportsAgree

-----------------------------------------------------------------------------
(* The constants *)

\* Calls and inventories belong to buckets; no date is LATEST, no inventory None.
LEMMA ConstantFacts ==
    /\ \A h \in Calls : BucketOf(h) \in Buckets /\ h[1] = BucketOf(h)
    /\ \A h \in EventCalls : <<h[1], h[2]>> \in Inventories /\ h \in Calls
    /\ \A h \in CliRuns : h \notin EventCalls /\ h \in Calls
    /\ \A m \in Inventories : m[1] \in Buckets /\ m # None
    /\ \A d \in Days : d \in Slots /\ d # LATEST /\ d \in Nat
    /\ LATEST \in Slots
    /\ 1 \in Days
BY InventoryAssumption
   DEF InventoryAssumption, Calls, Inventories, BucketOf, Days, Slots, LATEST, CLI

-----------------------------------------------------------------------------
(* Steps that leave the reports and their writers alone *)

\* Time passes, an inventory is made, or another pipeline takes a step: writers
\* and reports rest.
LEMMA EnvironmentSteps ==
    ASSUME IInv, UNCHANGED <<callVars, storeVars, history>>,
           day' \in Days, made \subseteq made', made' \subseteq Inventories
    PROVE  IInv'
<1> USE DEF callVars, storeVars, history
<1>1. CallTypes'
  BY DEF IInv, CallTypes
<1>2. WorkInv'
  BY DEF IInv, WorkInv, HasManifest
<1>3. TargetInv'
  BY DEF IInv, TargetInv
<1>4. AloneInv'
  BY DEF IInv, AloneInv, Halfway
<1>5. WrittenInv'
  BY DEF IInv, WrittenInv
<1>6. WholeInv'
  BY DEF IInv, WholeInv, Halfway
<1>7. ReportsAgree'
  BY DEF IInv, ReportsAgree
<1> QED BY <1>1, <1>2, <1>3, <1>4, <1>5, <1>6, <1>7 DEF IInv

\* An invocation that has written nothing it may still copy starts, looks for
\* its manifest, returns or is run again, and is alone no longer if it was.
LEMMA QuietSteps ==
    ASSUME IInv, NEW h \in Calls, NEW l \in States, NEW w \in InventoryOrNone,
           NEW t \in Slots,
           pc' = [pc EXCEPT ![h] = l],
           work' = [work EXCEPT ![h] = w],
           target' = [target EXCEPT ![h] = t],
           alone' = [alone EXCEPT ![h] = FALSE],
           UNCHANGED <<day, made, storeVars, torn>>,
           l \notin {"csv_latest", "stats_dated", "stats_latest"},
           l \in {"fetch", "return"} => w \in made /\ w[1] = BucketOf(h),
           l \in {"today", "yesterday"} => h \notin EventCalls
    PROVE  IInv'
<1> USE DEF storeVars
<1>1. CallTypes'
  BY DEF IInv, CallTypes
<1>2. WorkInv'
  BY DEF IInv, CallTypes, WorkInv, HasManifest
<1>3. TargetInv'
  BY DEF IInv, CallTypes, TargetInv
<1>4. AloneInv'
  BY DEF IInv, CallTypes, AloneInv, Halfway
<1>5. WrittenInv'
  BY DEF IInv, CallTypes, WrittenInv
<1>6. WholeInv'
  BY DEF IInv, CallTypes, WholeInv, Halfway
<1>7. ReportsAgree'
  BY DEF IInv, ReportsAgree
<1> QED BY <1>1, <1>2, <1>3, <1>4, <1>5, <1>6, <1>7 DEF IInv

-----------------------------------------------------------------------------
(* The steps that write *)

\* The put of the CSV decides who is alone from now on.
LEMMA PutCsvStep ==
    ASSUME IInv, NEW h \in Calls, PutCsv(h) PROVE IInv'
<1> USE ConstantFacts
<1> DEFINE others == {g \in Calls : InTheWay(g, h)}
<1> DEFINE b == BucketOf(h)
<1>0. /\ CallTypes
      /\ pc[h] = "fetch" /\ pc' = [pc EXCEPT ![h] = "csv_latest"]
      /\ target' = [target EXCEPT ![h] = day]
      /\ csv' = [csv EXCEPT ![b][day] = work[h]]
      /\ alone' = [g \in Calls |-> IF g = h THEN others = {}
                                   ELSE alone[g] /\ g \notin others]
      /\ torn' = torn \cup {b}
      /\ UNCHANGED <<day, made, work, stats>>
  BY DEF PutCsv, PutDated, Goto, IInv, s3Vars
<1>1. work[h] \in made /\ work[h][1] = b /\ work[h] \in Inventories
  BY <1>0 DEF IInv, WorkInv, HasManifest, CallTypes
<1>2. CallTypes'
  BY <1>0, <1>1 DEF CallTypes, InventoryOrNone, States, Working
<1>3. WorkInv'
  BY <1>0, <1>1 DEF IInv, WorkInv, HasManifest, CallTypes
<1>4. /\ \A x \in Buckets, s \in Slots :
            csv'[x][s] = IF x = b /\ s = day THEN work[h] ELSE csv[x][s]
      /\ b \in Buckets /\ day \in Days
  BY <1>0 DEF CallTypes
<1>5. TargetInv'
  <2> SUFFICES ASSUME NEW g \in Calls
               PROVE  /\ pc'[g] = "csv_latest" =>
                           target'[g] \in Days /\ csv'[BucketOf(g)][target'[g]] # None
                      /\ pc'[g] = "stats_latest" =>
                           target'[g] \in Days /\ stats'[BucketOf(g)][target'[g]] # None
    BY DEF TargetInv
  <2>1. CASE g = h
    BY <2>1, <1>0, <1>1, <1>4 DEF CallTypes
  <2>2. CASE g # h
    BY <2>2, <1>0, <1>1, <1>4 DEF CallTypes, IInv, TargetInv
  <2> QED BY <2>1, <2>2
<1>6. ASSUME NEW g \in Calls, alone'[g]
      PROVE  /\ Halfway(g)'
             /\ \A f \in Calls :
                   BucketOf(f) = BucketOf(g) /\ Halfway(f)' =>
                      work'[f] = work'[g] /\ alone'[f]
  <2>1. Halfway(g)'
    BY <1>0, <1>6 DEF CallTypes, Halfway, IInv, AloneInv
  <2>2. CASE BucketOf(g) # b
    <3>1. ASSUME NEW f \in Calls, BucketOf(f) = BucketOf(g)
          PROVE  f # h /\ alone'[f] = alone[f] /\ (Halfway(f)' <=> Halfway(f))
      BY <2>2, <3>1, <1>0 DEF CallTypes, InTheWay, Halfway
    <3> QED BY <1>0, <1>6, <2>1, <2>2, <3>1 DEF CallTypes, IInv, AloneInv
  <2>3. CASE BucketOf(g) = b
    <3>1. ASSUME NEW f \in Calls, f # h, BucketOf(f) = b, Halfway(f)
          PROVE  work[f] = work[h] /\ alone[f]
      <4>1. CASE g = h
        BY <4>1, <3>1, <1>0, <1>6 DEF InTheWay
      <4>2. CASE g # h
        <5>1. alone[g] /\ Halfway(g) /\ ~InTheWay(g, h)
          BY <4>2, <1>0, <1>6 DEF IInv, AloneInv
        <5>2. work[g] = work[h]
          BY <5>1, <2>3 DEF InTheWay
        <5> QED BY <5>1, <5>2, <3>1, <2>3 DEF IInv, AloneInv
      <4> QED BY <4>1, <4>2
    <3>2. others = {}
      BY <3>1, <1>0 DEF InTheWay, Halfway
    <3>3. ASSUME NEW f \in Calls, BucketOf(f) = b, Halfway(f)'
          PROVE  work'[f] = work[h] /\ alone'[f]
      BY <3>1, <3>2, <3>3, <1>0 DEF CallTypes, Halfway
    <3> QED BY <2>1, <2>3, <3>3
  <2> QED BY <2>2, <2>3
<1>7. AloneInv'
  BY <1>6 DEF AloneInv, BucketOf
<1>8. WrittenInv'
  <2> SUFFICES ASSUME NEW g \in Calls, alone'[g]
               PROVE  /\ pc'[g] = "csv_latest" =>
                            csv'[BucketOf(g)][target'[g]] = work'[g]
                      /\ pc'[g] \in {"stats_dated", "stats_latest"} =>
                            csv'[BucketOf(g)][LATEST] = work'[g]
                      /\ pc'[g] = "stats_latest" =>
                            stats'[BucketOf(g)][target'[g]] = work'[g]
    BY DEF WrittenInv
  <2>1. CASE g = h
    BY <2>1, <1>0, <1>4 DEF CallTypes
  <2>2. CASE g # h
    <3>1. alone[g] /\ pc'[g] = pc[g] /\ target'[g] = target[g] /\ target[g] \in Slots
      BY <2>2, <1>0 DEF CallTypes
    <3>2. BucketOf(g) = b => work[g] = work[h]
      BY <1>6, <1>0, <2>2 DEF Halfway, CallTypes
    <3> QED BY <3>1, <3>2, <1>0, <1>4 DEF IInv, WrittenInv
  <2> QED BY <2>1, <2>2
<1>9. WholeInv'
  <2> SUFFICES ASSUME NEW g \in Calls, Halfway(g)', BucketOf(g) \notin torn'
               PROVE  alone'[g] /\ work'[g] = csv'[BucketOf(g)][LATEST]
    BY DEF WholeInv, BucketOf
  <2>1. BucketOf(g) # b /\ g # h /\ BucketOf(g) \notin torn /\ Halfway(g)
    BY <1>0 DEF CallTypes, Halfway
  <2>2. alone'[g] = alone[g]
    BY <2>1, <1>0 DEF InTheWay, CallTypes
  <2> QED BY <2>1, <2>2, <1>0, <1>4 DEF IInv, WholeInv
<1>10. ReportsAgree'
  BY <1>0, <1>4 DEF IInv, ReportsAgree, CallTypes
<1> QED BY <1>2, <1>3, <1>5, <1>7, <1>8, <1>9, <1>10 DEF IInv

\* An invocation that moves on between its writes keeps company and history.
LEMMA CompanyStays ==
    ASSUME IInv, NEW h \in Calls, NEW l \in {"stats_dated", "stats_latest"},
           Halfway(h), pc' = [pc EXCEPT ![h] = l],
           UNCHANGED <<work, alone, torn>>
    PROVE  /\ AloneInv'
           /\ \A g \in Calls : Halfway(g)' <=> Halfway(g)
<1>1. \A g \in Calls : Halfway(g)' <=> Halfway(g)
  BY DEF IInv, CallTypes, Halfway
<1>2. AloneInv'
  BY <1>1 DEF IInv, AloneInv, BucketOf
<1> QED BY <1>1, <1>2

\* Copying the dated CSV to LATEST.
LEMMA CopyCsvStep ==
    ASSUME IInv, NEW h \in Calls, CopyCsvToLatest(h) PROVE IInv'
<1> USE ConstantFacts
<1> DEFINE b == BucketOf(h)
<1>0. /\ CallTypes /\ TargetInv
      /\ pc[h] = "csv_latest" /\ pc' = [pc EXCEPT ![h] = "stats_dated"]
      /\ csv' = [csv EXCEPT ![b][LATEST] = csv[b][target[h]]]
      /\ UNCHANGED <<day, made, work, target, stats, alone, torn>>
  BY DEF CopyCsvToLatest, CopyToLatest, Goto, IInv, s3Vars, history
<1>1. /\ b \in Buckets /\ target[h] \in Days
      /\ csv[b][target[h]] \in InventoryOrNone
  BY <1>0 DEF CallTypes, TargetInv
<1>2. \A x \in Buckets, s \in Slots :
         csv'[x][s] = IF x = b /\ s = LATEST THEN csv[b][target[h]] ELSE csv[x][s]
  BY <1>0, <1>1 DEF CallTypes
<1>3. CallTypes'
  BY <1>0, <1>1 DEF CallTypes, States, Working
<1>4. WorkInv'
  BY <1>0 DEF IInv, WorkInv, HasManifest, CallTypes
<1>5. TargetInv'
  BY <1>0, <1>1, <1>2 DEF TargetInv, CallTypes
<1>6. AloneInv' /\ \A g \in Calls : Halfway(g)' <=> Halfway(g)
  BY <1>0, CompanyStays DEF Halfway
<1>7. ASSUME NEW g \in Calls, alone[g], BucketOf(g) = b
      PROVE  work[h] = work[g] /\ csv[b][target[h]] = work[g]
  BY <1>0, <1>7 DEF IInv, AloneInv, WrittenInv, Halfway
<1>8. WrittenInv'
  <2> SUFFICES ASSUME NEW g \in Calls, alone[g]
               PROVE  /\ pc'[g] = "csv_latest" => csv'[BucketOf(g)][target[g]] = work[g]
                      /\ pc'[g] \in {"stats_dated", "stats_latest"} =>
                            csv'[BucketOf(g)][LATEST] = work[g]
                      /\ pc'[g] = "stats_latest" =>
                            stats[BucketOf(g)][target[g]] = work[g]
    BY <1>0 DEF WrittenInv, BucketOf
  <2>1. CASE g = h
    BY <2>1, <1>0, <1>1, <1>2, <1>7 DEF CallTypes
  <2>2. CASE g # h
    BY <2>2, <1>0, <1>1, <1>2, <1>7 DEF CallTypes, IInv, WrittenInv
  <2> QED BY <2>1, <2>2
<1>9. b \notin torn => csv[b][target[h]] = csv[b][LATEST]
  BY <1>0, <1>7 DEF IInv, WholeInv, Halfway
<1>10. WholeInv'
  BY <1>0, <1>1, <1>2, <1>6, <1>9 DEF IInv, WholeInv, BucketOf
<1>11. ReportsAgree'
  BY <1>0, <1>1, <1>2, <1>9 DEF IInv, ReportsAgree
<1> QED BY <1>3, <1>4, <1>5, <1>6, <1>8, <1>10, <1>11 DEF IInv

\* The put of the stats under their date.
LEMMA PutStatsStep ==
    ASSUME IInv, NEW h \in Calls, PutStats(h) PROVE IInv'
<1> USE ConstantFacts
<1> DEFINE b == BucketOf(h)
<1>0. /\ CallTypes /\ TargetInv
      /\ pc[h] = "stats_dated" /\ pc' = [pc EXCEPT ![h] = "stats_latest"]
      /\ target' = [target EXCEPT ![h] = day]
      /\ stats' = [stats EXCEPT ![b][day] = work[h]]
      /\ UNCHANGED <<day, made, work, csv, alone, torn>>
  BY DEF PutStats, PutDated, Goto, IInv, s3Vars, history
<1>1. /\ b \in Buckets /\ day \in Days /\ work[h] \in Inventories
  BY <1>0 DEF CallTypes, IInv, WorkInv, HasManifest
<1>2. \A x \in Buckets, s \in Slots :
         stats'[x][s] = IF x = b /\ s = day THEN work[h] ELSE stats[x][s]
  BY <1>0, <1>1 DEF CallTypes
<1>3. CallTypes'
  BY <1>0, <1>1 DEF CallTypes, InventoryOrNone, States, Working
<1>4. WorkInv'
  BY <1>0 DEF IInv, WorkInv, HasManifest, CallTypes
<1>5. TargetInv'
  <2> SUFFICES ASSUME NEW g \in Calls
               PROVE  /\ pc'[g] = "csv_latest" =>
                           target'[g] \in Days /\ csv[BucketOf(g)][target'[g]] # None
                      /\ pc'[g] = "stats_latest" =>
                           target'[g] \in Days /\ stats'[BucketOf(g)][target'[g]] # None
    BY <1>0 DEF TargetInv
  <2>1. CASE g = h
    BY <2>1, <1>0, <1>1, <1>2 DEF CallTypes
  <2>2. CASE g # h
    BY <2>2, <1>0, <1>1, <1>2 DEF CallTypes, TargetInv
  <2> QED BY <2>1, <2>2
<1>6. AloneInv' /\ \A g \in Calls : Halfway(g)' <=> Halfway(g)
  BY <1>0, CompanyStays DEF Halfway
<1>7. ASSUME NEW g \in Calls, alone[g], BucketOf(g) = b
      PROVE  work[h] = work[g]
  BY <1>0, <1>7 DEF IInv, AloneInv, Halfway
<1>8. WrittenInv'
  <2> SUFFICES ASSUME NEW g \in Calls, alone[g]
               PROVE  /\ pc'[g] = "csv_latest" => csv[BucketOf(g)][target'[g]] = work[g]
                      /\ pc'[g] \in {"stats_dated", "stats_latest"} =>
                            csv[BucketOf(g)][LATEST] = work[g]
                      /\ pc'[g] = "stats_latest" =>
                            stats'[BucketOf(g)][target'[g]] = work[g]
    BY <1>0 DEF WrittenInv, BucketOf
  <2>1. CASE g = h
    BY <2>1, <1>0, <1>1, <1>2 DEF CallTypes, IInv, WrittenInv
  <2>2. CASE g # h
    <3>1. target'[g] = target[g] /\ target[g] \in Slots /\ pc'[g] = pc[g]
      BY <2>2, <1>0 DEF CallTypes
    <3> QED BY <3>1, <1>0, <1>1, <1>2, <1>7 DEF IInv, WrittenInv
  <2> QED BY <2>1, <2>2
<1>9. WholeInv'
  BY <1>0, <1>6 DEF IInv, WholeInv, BucketOf
<1>10. ReportsAgree'
  BY <1>0, <1>1, <1>2 DEF IInv, ReportsAgree
<1> QED BY <1>3, <1>4, <1>5, <1>6, <1>8, <1>9, <1>10 DEF IInv

\* The last write.  Whoever made it alone leaves the bucket whole.
LEMMA CopyStatsStep ==
    ASSUME IInv, NEW h \in Calls, CopyStatsToLatest(h) PROVE IInv'
<1> USE ConstantFacts
<1> DEFINE b == BucketOf(h)
<1>0. /\ CallTypes /\ TargetInv
      /\ pc[h] = "stats_latest" /\ pc' = [pc EXCEPT ![h] = "return"]
      /\ stats' = [stats EXCEPT ![b][LATEST] = stats[b][target[h]]]
      /\ torn' = IF alone[h] THEN torn \ {b} ELSE torn
      /\ alone' = [alone EXCEPT ![h] = FALSE]
      /\ target' = [target EXCEPT ![h] = LATEST]
      /\ UNCHANGED <<day, made, work, csv>>
  BY DEF CopyStatsToLatest, CopyToLatest, Goto, IInv, s3Vars
<1>1. /\ b \in Buckets /\ target[h] \in Days
      /\ stats[b][target[h]] \in InventoryOrNone
  BY <1>0 DEF CallTypes, TargetInv
<1>2. \A x \in Buckets, s \in Slots :
         stats'[x][s] = IF x = b /\ s = LATEST THEN stats[b][target[h]] ELSE stats[x][s]
  BY <1>0, <1>1 DEF CallTypes
<1>3. CallTypes'
  BY <1>0, <1>1 DEF CallTypes, States, Working
<1>4. WorkInv'
  BY <1>0 DEF IInv, WorkInv, HasManifest, CallTypes
<1>5. TargetInv'
  BY <1>0, <1>1, <1>2 DEF TargetInv, CallTypes
<1>6. AloneInv'
  BY <1>0 DEF IInv, AloneInv, Halfway, CallTypes
<1>7. WrittenInv'
  BY <1>0, <1>1, <1>2 DEF IInv, WrittenInv, TargetInv, CallTypes
<1>8. alone[h] => /\ csv[b][LATEST] = work[h] /\ stats[b][target[h]] = work[h]
                  /\ \A g \in Calls : BucketOf(g) = b /\ Halfway(g) =>
                                         work[g] = work[h] /\ alone[g]
  BY <1>0 DEF IInv, WrittenInv, AloneInv
<1>9. ~alone[h] => b \in torn
  BY <1>0, <1>1 DEF IInv, WholeInv, Halfway
<1>10. WholeInv'
  <2> SUFFICES ASSUME NEW g \in Calls, Halfway(g)', BucketOf(g) \notin torn'
               PROVE  alone'[g] /\ work[g] = csv[BucketOf(g)][LATEST]
    BY <1>0 DEF WholeInv, BucketOf
  <2>1. g # h /\ Halfway(g) /\ alone'[g] = alone[g]
    BY <1>0 DEF CallTypes, Halfway
  <2> QED BY <2>1, <1>0, <1>8, <1>9 DEF IInv, WholeInv
<1>11. ReportsAgree'
  BY <1>0, <1>1, <1>2, <1>8, <1>9 DEF IInv, ReportsAgree
<1> QED BY <1>3, <1>4, <1>5, <1>6, <1>7, <1>10, <1>11 DEF IInv

-----------------------------------------------------------------------------
(* The other steps of an invocation *)

\* Its event arrives or the CLI is called, it looks for a manifest, it returns,
\* or a call of it fails.
LEMMA OtherSteps ==
    ASSUME IInv, NEW h \in Calls,
           \/ Deliver(h) \/ StartCli(h) \/ FindToday(h) \/ FindYesterday(h)
           \/ ReadNothing(h) \/ Return(h) \/ CallFails(h)
    PROVE  IInv'
<1> USE ConstantFacts
<1> DEFINE Idle == pc[h] \notin {"csv_latest", "stats_dated", "stats_latest"}
<1>0. CallTypes /\ WorkInv
  BY DEF IInv
<1>1. Idle => alone = [alone EXCEPT ![h] = FALSE]
  BY <1>0 DEF IInv, AloneInv, Halfway, CallTypes
<1>2. /\ work = [work EXCEPT ![h] = work[h]] /\ work[h] \in InventoryOrNone
      /\ target = [target EXCEPT ![h] = target[h]] /\ target[h] \in Slots
  BY <1>0 DEF CallTypes
<1>3. CASE Deliver(h)
  <2> DEFINE m == <<h[1], h[2]>>
  <2>1. /\ Idle /\ pc' = [pc EXCEPT ![h] = "fetch"]
        /\ work' = [work EXCEPT ![h] = m]
        /\ m \in made /\ m[1] = BucketOf(h) /\ m \in InventoryOrNone
        /\ UNCHANGED <<day, made, target, storeVars, alone, torn>>
    BY <1>3, <1>0 DEF Deliver, Goto, s3Vars, history, InventoryOrNone, CallTypes
  <2> QED BY <2>1, <1>1, <1>2, QuietSteps DEF States, Working
<1>4. CASE StartCli(h)
  <2>1. /\ Idle /\ h \notin EventCalls /\ pc' = [pc EXCEPT ![h] = "today"]
        /\ UNCHANGED <<day, made, work, target, storeVars, alone, torn>>
    BY <1>4 DEF StartCli, Goto, s3Vars, history
  <2> QED BY <2>1, <1>1, <1>2, QuietSteps DEF States, Working
<1>5. ASSUME NEW here \in {"today", "yesterday"}, NEW date,
             NEW otherwise \in {"yesterday", "dropped"}, pc[h] = here,
             FindManifest(h, here, date, otherwise)
      PROVE  IInv'
  <2> DEFINE m == <<h[1], date>>
  <2>1. /\ Idle /\ h \notin EventCalls
        /\ UNCHANGED <<day, made, target, storeVars, alone, torn>>
    BY <1>0, <1>5 DEF WorkInv, FindManifest, s3Vars, history
  <2>2. CASE m \in made
    <3>1. /\ pc' = [pc EXCEPT ![h] = "fetch"] /\ work' = [work EXCEPT ![h] = m]
          /\ m[1] = BucketOf(h) /\ m \in InventoryOrNone
      BY <1>5, <2>2, <1>0 DEF FindManifest, Goto, InventoryOrNone, CallTypes
    <3> QED BY <3>1, <2>1, <2>2, <1>1, <1>2, QuietSteps DEF States, Working
  <2>3. CASE m \notin made
    <3>1. pc' = [pc EXCEPT ![h] = otherwise] /\ UNCHANGED work
      BY <1>5, <2>3 DEF FindManifest, Goto
    <3> QED BY <3>1, <2>1, <1>1, <1>2, QuietSteps DEF States, Working
  <2> QED BY <2>2, <2>3
<1>6. CASE ReturnErr(h) /\ UNCHANGED <<day, made, work, storeVars, torn>>
           /\ pc[h] \in Working
  <2> DEFINE l == IF Retried(h) THEN "fetch" ELSE "dropped"
  <2>1. /\ pc' = [pc EXCEPT ![h] = l]
        /\ target' = [target EXCEPT ![h] = LATEST]
        /\ alone' = [alone EXCEPT ![h] = FALSE]
    BY <1>6 DEF ReturnErr, Goto
  <2>2. l = "fetch" => work[h] \in made /\ work[h][1] = BucketOf(h)
    BY <1>6, <1>0 DEF Retried, WorkInv, HasManifest, Working
  <2> QED BY <2>1, <2>2, <1>2, <1>6, QuietSteps DEF States, Working
<1>7. CASE Return(h)
  <2>1. pc[h] = "return" /\ UNCHANGED <<day, made, work, storeVars, torn>>
    BY <1>7 DEF Return, s3Vars
  <2>2. CASE ReturnErr(h)
    BY <2>1, <2>2, <1>6 DEF Working
  <2>3. CASE ReturnOk(h)
    <3>1. pc' = [pc EXCEPT ![h] = "ok"] /\ UNCHANGED <<target, alone>>
      BY <2>3 DEF ReturnOk, Goto
    <3> QED BY <3>1, <2>1, <1>1, <1>2, QuietSteps DEF States, Working
  <2> QED BY <1>7, <2>2, <2>3 DEF Return
<1>8. CASE CallFails(h)
  BY <1>8, <1>6 DEF CallFails, s3Vars
<1>9. CASE FindToday(h) \/ FindYesterday(h)
  BY <1>9, <1>5 DEF FindToday, FindYesterday, FindManifest
<1>10. CASE ReadNothing(h)
  BY <1>10, <1>6 DEF ReadNothing, s3Vars, Working
<1> QED BY <1>3, <1>4, <1>7, <1>8, <1>9, <1>10

-----------------------------------------------------------------------------
(* The invariant *)

\* Before the first inventory, nothing is written.
LEMMA IInvInit == Init => IInv
<1> SUFFICES ASSUME Init PROVE IInv
  OBVIOUS
<1> USE ConstantFacts DEF Init, InventoryInit
<1>1. CallTypes
  BY DEF CallTypes, InventoryOrNone, States
<1>2. WorkInv /\ TargetInv /\ AloneInv /\ WrittenInv /\ WholeInv /\ ReportsAgree
  BY DEF WorkInv, HasManifest, TargetInv, AloneInv, WrittenInv, WholeInv,
         Halfway, ReportsAgree
<1> QED BY <1>1, <1>2 DEF IInv

\* Every step of the stack keeps it.
LEMMA IInvStep == IInv /\ [Next]_allVars => IInv'
<1> SUFFICES ASSUME IInv, [Next]_allVars PROVE IInv'
  OBVIOUS
<1>0. CallTypes
  BY DEF IInv
<1>1. CASE InventoryNext
  <2>1. CASE MidnightPasses
    BY <2>1, <1>0, EnvironmentSteps, InventoryAssumption
       DEF MidnightPasses, s3Vars, CallTypes, Days, InventoryAssumption
  <2>2. ASSUME NEW b \in Buckets, GenerateInventory(b) PROVE IInv'
    BY <2>2, <1>0, EnvironmentSteps DEF GenerateInventory, CallTypes
  <2>3. ASSUME NEW b \in Buckets, NEW o \in Objects, DeleteObject(b, o) PROVE IInv'
    BY <2>3, <1>0, EnvironmentSteps DEF DeleteObject, CallTypes
  <2>4. ASSUME NEW h \in Calls, CallStep(h) PROVE IInv'
    BY <2>4, OtherSteps, PutCsvStep, CopyCsvStep, PutStatsStep, CopyStatsStep
       DEF CallStep
  <2>5. ASSUME NEW h \in Calls, Deliver(h) \/ StartCli(h) \/ CallFails(h) PROVE IInv'
    BY <2>5, OtherSteps
  <2> QED BY <1>1, <2>1, <2>2, <2>3, <2>4, <2>5 DEF InventoryNext
<1>2. CASE RequestNext \/ StorageNext \/ UNCHANGED allVars
  <2>1. UNCHANGED <<day, made, callVars, storeVars, history>>
    BY <1>2 DEF RequestNext, StorageNext, allVars, inventoryVars, s3Vars
  <2> QED BY <2>1, <1>0, EnvironmentSteps DEF CallTypes
<1> QED BY <1>1, <1>2 DEF Next

\* So it holds in every reachable state.
LEMMA Invariance == Spec => []IInv
BY IInvInit, IInvStep, PTL DEF Spec

\* Whatever is retried, duplicated or started by hand, and whenever midnight
\* passes: unless a report was broken off or mixed with that of another
\* inventory, CSV and stats under LATEST come from the same inventory.
THEOREM LatestReportsAgree == Spec => []ReportsAgree
BY Invariance, PTL DEF IInv

-----------------------------------------------------------------------------
(* Refinement of VersionedReports, by the CSVs and by the stats *)

\* The steps that concern readers: time passes, an inventory is made, a CSV is
\* put, a CSV is copied.  Every other step leaves CSVs, date and inventories.
LEMMA CsvSteps ==
    ASSUME IInv, [Next]_allVars
    PROVE  \/ MidnightPasses
           \/ \E b \in Buckets : GenerateInventory(b)
           \/ \E h \in Calls : PutCsv(h) \/ CopyCsvToLatest(h)
           \/ UNCHANGED <<day, made, csv>>
<1>1. CASE InventoryNext
  <2>1. ASSUME NEW b \in Buckets, NEW o \in Objects, DeleteObject(b, o)
        PROVE  UNCHANGED <<day, made, csv>>
    BY <2>1 DEF DeleteObject, storeVars
  <2>2. ASSUME NEW h \in Calls,
               \/ Deliver(h) \/ StartCli(h) \/ CallFails(h) \/ FindToday(h)
               \/ FindYesterday(h) \/ ReadNothing(h) \/ PutStats(h)
               \/ CopyStatsToLatest(h) \/ Return(h)
        PROVE  UNCHANGED <<day, made, csv>>
    BY <2>2 DEF Deliver, StartCli, CallFails, FindToday, FindYesterday, FindManifest,
                ReadNothing, PutStats, CopyStatsToLatest, Return, s3Vars, storeVars
  <2> QED BY <1>1, <2>1, <2>2 DEF InventoryNext, CallStep
<1>2. CASE RequestNext \/ StorageNext \/ UNCHANGED allVars
  BY <1>2 DEF RequestNext, StorageNext, allVars, inventoryVars, s3Vars, storeVars
<1> QED BY <1>1, <1>2 DEF Next

\* The same for the stats.
LEMMA StatsSteps ==
    ASSUME IInv, [Next]_allVars
    PROVE  \/ MidnightPasses
           \/ \E b \in Buckets : GenerateInventory(b)
           \/ \E h \in Calls : PutStats(h) \/ CopyStatsToLatest(h)
           \/ UNCHANGED <<day, made, stats>>
<1>1. CASE InventoryNext
  <2>1. ASSUME NEW b \in Buckets, NEW o \in Objects, DeleteObject(b, o)
        PROVE  UNCHANGED <<day, made, stats>>
    BY <2>1 DEF DeleteObject, storeVars
  <2>2. ASSUME NEW h \in Calls,
               \/ Deliver(h) \/ StartCli(h) \/ CallFails(h) \/ FindToday(h)
               \/ FindYesterday(h) \/ ReadNothing(h) \/ PutCsv(h)
               \/ CopyCsvToLatest(h) \/ Return(h)
        PROVE  UNCHANGED <<day, made, stats>>
    BY <2>2 DEF Deliver, StartCli, CallFails, FindToday, FindYesterday, FindManifest,
                ReadNothing, PutCsv, CopyCsvToLatest, Return, s3Vars, storeVars
  <2> QED BY <1>1, <2>1, <2>2 DEF InventoryNext, CallStep
<1>2. CASE RequestNext \/ StorageNext \/ UNCHANGED allVars
  BY <1>2 DEF RequestNext, StorageNext, allVars, inventoryVars, s3Vars, storeVars
<1> QED BY <1>1, <1>2 DEF Next

\* A put under a date publishes, a copy promotes; nothing else is seen by readers.
LEMMA CsvRefines == IInv /\ [Next]_allVars => [CsvReports!Next]_(CsvReports!vars)
<1> SUFFICES ASSUME IInv, [Next]_allVars
             PROVE  CsvReports!Next \/ UNCHANGED CsvReports!vars
  OBVIOUS
<1> USE ConstantFacts
<1>0. CallTypes /\ WorkInv /\ TargetInv
  BY DEF IInv
<1>1. CASE MidnightPasses
  <2>1. CsvReports!Tick
    BY <1>0, <1>1, InventoryAssumption
       DEF MidnightPasses, CsvReports!Tick, CsvReports!Days, Days, CallTypes,
           s3Vars, storeVars, InventoryAssumption
  <2> QED BY <2>1 DEF CsvReports!Next
<1>2. ASSUME NEW b \in Buckets, GenerateInventory(b)
      PROVE  CsvReports!Next
  <2>1. CsvReports!Complete(<<b, day>>) /\ <<b, day>> \in Inventories
    BY <1>2 DEF GenerateInventory, CsvReports!Complete, storeVars
  <2> QED BY <2>1 DEF CsvReports!Next
<1>3. ASSUME NEW h \in Calls, PutCsv(h)
      PROVE  CsvReports!Next
  <2>1. /\ work[h] \in made /\ work[h] \in Inventories /\ work[h][1] = BucketOf(h)
        /\ csv' = [csv EXCEPT ![BucketOf(h)][day] = work[h]]
        /\ csv \in [Buckets -> [Slots -> InventoryOrNone]]
        /\ day \in Days /\ BucketOf(h) \in Buckets
        /\ UNCHANGED <<day, made>>
    BY <1>0, <1>3 DEF PutCsv, PutDated, WorkInv, HasManifest, CallTypes, s3Vars
  <2>2. PICK r \in Inventories, d \in Days, b \in Buckets :
           r = work[h] /\ d = day /\ b = BucketOf(h)
    BY <2>1
  <2>3. /\ [x \in Buckets |-> [e \in Days |-> csv'[x][e]]]
             = [[x \in Buckets |-> [e \in Days |-> csv[x][e]]] EXCEPT ![b][d] = r]
        /\ [x \in Buckets |-> csv'[x][LATEST]] = [x \in Buckets |-> csv[x][LATEST]]
    BY <2>1, <2>2
  <2>4. [m \in Inventories |-> m[1]][r] = b
    BY <2>1, <2>2
  <2>5. CsvReports!Publish(r, d)
    <3>1. r \in made /\ d <= day /\ UNCHANGED <<day, made>>
      BY <2>1, <2>2 DEF Days
    <3>2. [x \in Buckets |-> [e \in Days |-> csv'[x][e]]]
             = [[x \in Buckets |-> [e \in Days |-> csv[x][e]]]
                   EXCEPT ![[m \in Inventories |-> m[1]][r]][d] = r]
      BY <2>3, <2>4, Zenon
    <3> QED BY <2>3, <3>1, <3>2 DEF CsvReports!Publish
  <2>6. d \in CsvReports!Days
    BY <2>2 DEF CsvReports!Days, Days
  <2> QED BY <2>2, <2>5, <2>6 DEF CsvReports!Next
<1>4. ASSUME NEW h \in Calls, CopyCsvToLatest(h)
      PROVE  CsvReports!Next
  <2>1. /\ target[h] \in Days /\ csv[BucketOf(h)][target[h]] # None
        /\ csv' = [csv EXCEPT ![BucketOf(h)][LATEST] = csv[BucketOf(h)][target[h]]]
        /\ csv \in [Buckets -> [Slots -> InventoryOrNone]]
        /\ BucketOf(h) \in Buckets
        /\ UNCHANGED <<day, made>>
    BY <1>0, <1>4 DEF CallTypes, CopyCsvToLatest, CopyToLatest, TargetInv, s3Vars
  <2>2. PICK d \in Days, b \in Buckets : d = target[h] /\ b = BucketOf(h)
    BY <2>1
  <2>3. /\ [x \in Buckets |-> [e \in Days |-> csv'[x][e]]]
             = [x \in Buckets |-> [e \in Days |-> csv[x][e]]]
        /\ [x \in Buckets |-> csv'[x][LATEST]]
             = [[x \in Buckets |-> csv[x][LATEST]] EXCEPT ![b] = csv[b][d]]
    BY <2>1, <2>2
  <2>4. [x \in Buckets |-> [e \in Days |-> csv[x][e]]][b][d] = csv[b][d]
    BY <2>2
  <2>5. CsvReports!Promote(b, d)
    BY <2>1, <2>2, <2>3, <2>4 DEF CsvReports!Promote, Days
  <2>6. d \in CsvReports!Days
    BY <2>2 DEF CsvReports!Days, Days
  <2> QED BY <2>2, <2>5, <2>6 DEF CsvReports!Next
<1>5. CASE UNCHANGED <<day, made, csv>>
  BY <1>5 DEF CsvReports!vars
<1> QED BY <1>1, <1>2, <1>3, <1>4, <1>5, CsvSteps

\* The same for the stats.
LEMMA StatsRefines == IInv /\ [Next]_allVars => [StatsReports!Next]_(StatsReports!vars)
<1> SUFFICES ASSUME IInv, [Next]_allVars
             PROVE  StatsReports!Next \/ UNCHANGED StatsReports!vars
  OBVIOUS
<1> USE ConstantFacts
<1>0. CallTypes /\ WorkInv /\ TargetInv
  BY DEF IInv
<1>1. CASE MidnightPasses
  <2>1. StatsReports!Tick
    BY <1>0, <1>1, InventoryAssumption
       DEF MidnightPasses, StatsReports!Tick, StatsReports!Days, Days, CallTypes,
           s3Vars, storeVars, InventoryAssumption
  <2> QED BY <2>1 DEF StatsReports!Next
<1>2. ASSUME NEW b \in Buckets, GenerateInventory(b)
      PROVE  StatsReports!Next
  <2>1. StatsReports!Complete(<<b, day>>) /\ <<b, day>> \in Inventories
    BY <1>2 DEF GenerateInventory, StatsReports!Complete, storeVars
  <2> QED BY <2>1 DEF StatsReports!Next
<1>3. ASSUME NEW h \in Calls, PutStats(h)
      PROVE  StatsReports!Next
  <2>1. /\ work[h] \in made /\ work[h] \in Inventories /\ work[h][1] = BucketOf(h)
        /\ stats' = [stats EXCEPT ![BucketOf(h)][day] = work[h]]
        /\ stats \in [Buckets -> [Slots -> InventoryOrNone]]
        /\ day \in Days /\ BucketOf(h) \in Buckets
        /\ UNCHANGED <<day, made>>
    BY <1>0, <1>3 DEF PutStats, PutDated, WorkInv, HasManifest, CallTypes, s3Vars
  <2>2. PICK r \in Inventories, d \in Days, b \in Buckets :
           r = work[h] /\ d = day /\ b = BucketOf(h)
    BY <2>1
  <2>3. /\ [x \in Buckets |-> [e \in Days |-> stats'[x][e]]]
             = [[x \in Buckets |-> [e \in Days |-> stats[x][e]]] EXCEPT ![b][d] = r]
        /\ [x \in Buckets |-> stats'[x][LATEST]] = [x \in Buckets |-> stats[x][LATEST]]
    BY <2>1, <2>2
  <2>4. [m \in Inventories |-> m[1]][r] = b
    BY <2>1, <2>2
  <2>5. StatsReports!Publish(r, d)
    <3>1. r \in made /\ d <= day /\ UNCHANGED <<day, made>>
      BY <2>1, <2>2 DEF Days
    <3>2. [x \in Buckets |-> [e \in Days |-> stats'[x][e]]]
             = [[x \in Buckets |-> [e \in Days |-> stats[x][e]]]
                   EXCEPT ![[m \in Inventories |-> m[1]][r]][d] = r]
      BY <2>3, <2>4, Zenon
    <3> QED BY <2>3, <3>1, <3>2 DEF StatsReports!Publish
  <2>6. d \in StatsReports!Days
    BY <2>2 DEF StatsReports!Days, Days
  <2> QED BY <2>2, <2>5, <2>6 DEF StatsReports!Next
<1>4. ASSUME NEW h \in Calls, CopyStatsToLatest(h)
      PROVE  StatsReports!Next
  <2>1. /\ target[h] \in Days /\ stats[BucketOf(h)][target[h]] # None
        /\ stats' = [stats EXCEPT ![BucketOf(h)][LATEST] = stats[BucketOf(h)][target[h]]]
        /\ stats \in [Buckets -> [Slots -> InventoryOrNone]]
        /\ BucketOf(h) \in Buckets
        /\ UNCHANGED <<day, made>>
    BY <1>0, <1>4 DEF CallTypes, CopyStatsToLatest, CopyToLatest, TargetInv, s3Vars
  <2>2. PICK d \in Days, b \in Buckets : d = target[h] /\ b = BucketOf(h)
    BY <2>1
  <2>3. /\ [x \in Buckets |-> [e \in Days |-> stats'[x][e]]]
             = [x \in Buckets |-> [e \in Days |-> stats[x][e]]]
        /\ [x \in Buckets |-> stats'[x][LATEST]]
             = [[x \in Buckets |-> stats[x][LATEST]] EXCEPT ![b] = stats[b][d]]
    BY <2>1, <2>2
  <2>4. [x \in Buckets |-> [e \in Days |-> stats[x][e]]][b][d] = stats[b][d]
    BY <2>2
  <2>5. StatsReports!Promote(b, d)
    BY <2>1, <2>2, <2>3, <2>4 DEF StatsReports!Promote, Days
  <2>6. d \in StatsReports!Days
    BY <2>2 DEF StatsReports!Days, Days
  <2> QED BY <2>2, <2>5, <2>6 DEF StatsReports!Next
<1>5. CASE UNCHANGED <<day, made, stats>>
  BY <1>5 DEF StatsReports!vars
<1> QED BY <1>1, <1>2, <1>3, <1>4, <1>5, StatsSteps

\* inventory-report keeps what readers of reports are promised, of its CSVs and
\* of its stats: nothing is published that S3 has not made, and LATEST only ever
\* receives a copy of a report under a date.
THEOREM PromiseIsKept == Spec => ReportsKeepPromise
<1>1. Init => CsvReports!Init /\ StatsReports!Init
  BY ConstantFacts DEF Init, InventoryInit, CsvReports!Init, StatsReports!Init,
     CsvReports!Days, StatsReports!Days, Days
<1> QED
  BY <1>1, Invariance, CsvRefines, StatsRefines, PTL
     DEF Spec, ReportsKeepPromise, CsvReports!Spec, StatsReports!Spec

-----------------------------------------------------------------------------
(* Every inventory is reported *)

\* An inventory that lists nothing.
Void(m) == m \in made /\ listing[m] = {}

\* What the event's invocations have achieved for the inventory of their event.
EventInv ==
    \A h \in EventCalls :
        LET m == <<h[1], h[2]>> IN
        /\ pc[h] = "idle" => failures[h] = 0
        /\ pc[h] # "idle" => work[h] = m
        /\ pc[h] = "return" => m \in reported
        /\ pc[h] = "ok" => m \in reported /\ m \notin broken
        /\ pc[h] = "dropped" => failures[h] >= MaxAttempts
        \* An attempt failed because a call did, or to report replications, or
        \* for want of a file to read.
        /\ failures[h] <= faults \/ m \in reported \cap raised \/ Void(m)

CountsInv ==
    /\ faults \in Nat
    /\ failures \in [Calls -> Nat]
    /\ reported \subseteq made
    /\ broken \subseteq made
    /\ DOMAIN listing = Inventories

\* Failed calls are counted, whoever made them.
LEMMA FaultsGrow ==
    ASSUME faults \in Nat, [Next]_allVars
    PROVE  faults' \in Nat /\ faults' >= faults
<1>1. \/ UNCHANGED faults
      \/ faults' = faults + 1
      \/ \E passed \in SUBSET Buckets : faults' = faults + Cardinality(passed)
  <2>1. CASE InventoryNext
    BY <2>1 DEF InventoryNext, MidnightPasses, GenerateInventory, DeleteObject, Deliver,
         StartCli, CallStep, CallFails, FindToday, FindYesterday, FindManifest,
         ReadNothing, PutCsv, CopyCsvToLatest, PutStats, CopyStatsToLatest, Return, boundVars,
         Fault, Begin
  <2>2. CASE RequestNext
    BY <2>2 DEF RequestNext, RequestStep, UploadTrigger, StartRequest, LookForReport,
         DownloadReport, HeadRow, PutAnswer, CopyAnswer, DeleteTrigger, RequestFails,
         PutRequestFeedback, boundVars, Fault, Begin
  <2>3. CASE StorageNext
    BY <2>3 DEF StorageNext, StorageStep, StartStorage, ListStorage, ReadStats, PutHtml,
         QueryCosts, CopyHtml, PutJson, CopyJson, StorageFails, boundVars, Fault, Begin
  <2>4. CASE UNCHANGED allVars
    BY <2>4 DEF allVars, inventoryVars, boundVars
  <2> QED BY <2>1, <2>2, <2>3, <2>4 DEF Next
<1>2. \A passed \in SUBSET Buckets : Cardinality(passed) \in Nat
  BY FS_Subset, FS_CardinalityType, InventoryAssumption DEF InventoryAssumption
<1> QED BY <1>1, <1>2

ReportedInv == CountsInv /\ EventInv

\* Before the first event, nothing has failed.
LEMMA ReportedInit == Init => ReportedInv
<1> SUFFICES ASSUME Init PROVE ReportedInv
  OBVIOUS
<1> USE DEF Init, InventoryInit
<1>1. CountsInv
  BY DEF CountsInv
<1>2. \A h \in EventCalls : pc[h] = "idle" /\ failures[h] = 0 /\ faults = 0
  BY ConstantFacts
<1>3. EventInv
  BY <1>2 DEF EventInv
<1> QED BY <1>1, <1>3 DEF ReportedInv

\* Every step of the stack keeps it.
LEMMA ReportedStep == IInv /\ ReportedInv /\ [Next]_allVars => ReportedInv'
<1> SUFFICES ASSUME IInv, ReportedInv, [Next]_allVars PROVE ReportedInv'
  OBVIOUS
<1> USE ConstantFacts
<1>0. CallTypes /\ WorkInv /\ CountsInv /\ EventInv /\ faults' \in Nat /\ faults' >= faults
  BY FaultsGrow DEF IInv, ReportedInv, CountsInv
\* Nobody's invocation moves.
<1>1. ASSUME UNCHANGED <<pc, failures, work, raised, reported>>,
             made \subseteq made', broken' \subseteq made',
             \A m \in made : m \in broken' => m \in broken,
             DOMAIN listing' = Inventories, \A m \in made : listing'[m] = listing[m]
      PROVE  ReportedInv'
  BY <1>0, <1>1 DEF ReportedInv, CountsInv, EventInv, Void
\* One invocation moves, and has what it then is said to have.
<1>2. ASSUME NEW h \in Calls, NEW l \in States, NEW n \in Nat,
             pc' = [pc EXCEPT ![h] = l], failures' = [failures EXCEPT ![h] = n],
             reported \subseteq reported', reported' \subseteq made, raised \subseteq raised',
             \A g \in Calls : g # h => work'[g] = work[g],
             UNCHANGED <<made, broken, listing>>,
             h \in EventCalls =>
                LET m == <<h[1], h[2]>> IN
                /\ l # "idle" /\ work'[h] = m
                /\ l = "return" => m \in reported'
                /\ l = "ok" => m \in reported' /\ m \notin broken
                /\ l = "dropped" => n >= MaxAttempts
                /\ n <= faults' \/ m \in reported' \cap raised' \/ Void(m)
      PROVE  ReportedInv'
  <2>1. CountsInv'
    BY <1>0, <1>2 DEF CountsInv
  <2>2. ASSUME NEW g \in EventCalls, g # h
        PROVE  /\ pc'[g] = pc[g] /\ work'[g] = work[g]
               /\ failures'[g] = failures[g] /\ failures[g] \in Nat
    BY <1>0, <1>2, <2>2 DEF CallTypes, CountsInv
  <2>3. h \in EventCalls => pc'[h] = l /\ failures'[h] = n
    BY <1>0, <1>2 DEF CallTypes, CountsInv
  <2>4. ASSUME NEW g \in EventCalls
        PROVE  LET m == <<g[1], g[2]>> IN
               /\ pc'[g] = "idle" => failures'[g] = 0
               /\ pc'[g] # "idle" => work'[g] = m
               /\ pc'[g] = "return" => m \in reported'
               /\ pc'[g] = "ok" => m \in reported' /\ m \notin broken'
               /\ pc'[g] = "dropped" => failures'[g] >= MaxAttempts
               /\ failures'[g] <= faults' \/ m \in reported' \cap raised' \/ Void(m)'
    <3>1. CASE g = h
      BY <1>2, <2>3, <3>1 DEF Void
    <3>2. CASE g # h
      <4> DEFINE m == <<g[1], g[2]>>
      <4>1. failures[g] <= faults => failures[g] <= faults'
        BY <1>0, <2>2, <3>2 DEF CountsInv
      <4> QED BY <1>0, <1>2, <2>2, <3>2, <4>1 DEF EventInv, Void
    <3> QED BY <3>1, <3>2
  <2> QED BY <2>1, <2>4 DEF ReportedInv, EventInv
<1>3. CASE InventoryNext
  <2>1. CASE MidnightPasses
    <3>1. UNCHANGED <<pc, failures, work, raised, reported, made, broken, listing>>
      BY <2>1 DEF MidnightPasses, s3Vars, callVars, history
    <3> QED BY <3>1, <1>0, <1>1 DEF CountsInv
  <2>2. ASSUME NEW b \in Buckets, GenerateInventory(b) PROVE ReportedInv'
    <3>1. /\ UNCHANGED <<pc, failures, work, raised, reported>>
          /\ <<b, day>> \notin made /\ made' = made \cup {<<b, day>>}
          /\ broken' \subseteq broken \cup {<<b, day>>}
          /\ listing' = [listing EXCEPT ![<<b, day>>] =
                            {o \in Objects : <<b, o>> \notin gone}]
      BY <2>2 DEF GenerateInventory, callVars, history
    <3>2. DOMAIN listing' = Inventories /\ \A m \in made : listing'[m] = listing[m]
      BY <3>1, <1>0 DEF CountsInv, CallTypes
    <3> QED BY <3>1, <3>2, <1>0, <1>1 DEF CountsInv
  <2>3. ASSUME NEW b \in Buckets, NEW o \in Objects, DeleteObject(b, o)
        PROVE  ReportedInv'
    <3>1. UNCHANGED <<pc, failures, work, raised, reported, made, broken, listing>>
      BY <2>3 DEF DeleteObject, callVars, history
    <3> QED BY <3>1, <1>0, <1>1 DEF CountsInv
  <2>4. ASSUME NEW h \in Calls, Deliver(h) PROVE ReportedInv'
    <3>1. /\ pc[h] = "idle" /\ pc' = [pc EXCEPT ![h] = "fetch"]
          /\ work' = [work EXCEPT ![h] = <<h[1], h[2]>>]
          /\ UNCHANGED <<failures, made, broken, listing, raised, reported>>
      BY <2>4 DEF Deliver, Goto, s3Vars, history
    <3>2. /\ failures' = [failures EXCEPT ![h] = failures[h]] /\ failures[h] \in Nat
          /\ h \in EventCalls => failures[h] = 0 /\ work'[h] = <<h[1], h[2]>>
          /\ \A g \in Calls : g # h => work'[g] = work[g]
      BY <3>1, <1>0 DEF CountsInv, EventInv, CallTypes
    <3>3. failures[h] <= faults' \/ h \notin EventCalls
      BY <3>2, <1>0
    <3>4. /\ reported \subseteq reported' /\ reported' \subseteq made
          /\ raised \subseteq raised' /\ "fetch" \in States
      BY <3>1, <1>0 DEF CountsInv, States, Working
    <3> QED BY <3>1, <3>2, <3>3, <3>4, <1>2
  <2>5. ASSUME NEW h \in Calls, h \notin EventCalls,
               StartCli(h) \/ FindToday(h) \/ FindYesterday(h)
        PROVE  ReportedInv'
    <3>1. /\ UNCHANGED <<failures, made, broken, listing, raised, reported>>
          /\ \E l \in States : pc' = [pc EXCEPT ![h] = l]
          /\ \A g \in Calls : g # h => work'[g] = work[g]
      BY <2>5, <1>0 DEF StartCli, FindToday, FindYesterday, FindManifest, Goto,
         s3Vars, history, States, Working, CallTypes
    <3>2. failures' = [failures EXCEPT ![h] = failures[h]] /\ failures[h] \in Nat
      BY <3>1, <1>0 DEF CountsInv
    <3> QED BY <2>5, <3>1, <3>2, <1>0, <1>2 DEF CountsInv
  <2>6. ASSUME NEW h \in Calls,
               PutCsv(h) \/ CopyCsvToLatest(h) \/ PutStats(h) \/ CopyStatsToLatest(h)
        PROVE  ReportedInv'
    <3>1. /\ UNCHANGED <<failures, work, made, broken, listing, raised>>
          /\ reported \subseteq reported' /\ reported' \subseteq reported \cup {work[h]}
          /\ HasManifest(h)
          /\ \E l \in {"csv_latest", "stats_dated", "stats_latest", "return"} :
                pc' = [pc EXCEPT ![h] = l] /\ (l = "return" => work[h] \in reported')
      BY <2>6 DEF PutCsv, CopyCsvToLatest, PutStats, CopyStatsToLatest, Goto, s3Vars,
         history, HasManifest
    <3>2. /\ failures' = [failures EXCEPT ![h] = failures[h]] /\ failures[h] \in Nat
          /\ reported' \subseteq made
      BY <3>1, <1>0 DEF CountsInv, WorkInv
    <3>3. h \in EventCalls =>
             /\ work'[h] = <<h[1], h[2]>>
             /\ \/ failures[h] <= faults
                \/ <<h[1], h[2]>> \in reported \cap raised \/ Void(<<h[1], h[2]>>)
      BY <3>1, <1>0 DEF EventInv, HasManifest
    <3>4. failures[h] <= faults => failures[h] <= faults'
      BY <3>2, <1>0 DEF CountsInv
    <3> QED BY <3>1, <3>2, <3>3, <3>4, <1>0, <1>2 DEF States, Working
  <2>7. ASSUME NEW h \in Calls, Return(h) PROVE ReportedInv'
    <3>1. /\ UNCHANGED <<work, made, broken, listing, reported>> /\ pc[h] = "return"
          /\ raised \subseteq raised'
      BY <2>7 DEF Return, s3Vars
    <3>2. /\ failures[h] \in Nat /\ failures = [failures EXCEPT ![h] = failures[h]]
          /\ MaxAttempts \in Nat /\ reported \subseteq made
      BY <1>0, InventoryAssumption DEF CountsInv, InventoryAssumption
    <3>3. h \in EventCalls =>
             /\ work[h] = <<h[1], h[2]>> /\ work[h] \in reported
             /\ failures[h] <= faults' \/ work[h] \in reported \cap raised \/ Void(work[h])
      <4>1. h \in EventCalls =>
               /\ work[h] = <<h[1], h[2]>> /\ work[h] \in reported
               /\ failures[h] <= faults \/ work[h] \in reported \cap raised \/ Void(work[h])
        BY <3>1, <1>0 DEF EventInv
      <4>2. failures[h] <= faults => failures[h] <= faults'
        BY <3>2, <1>0 DEF CountsInv
      <4> QED BY <4>1, <4>2
    <3>4. CASE h \in EventCalls /\ ReplicationErrors(h)
      <4> DEFINE l == IF Retried(h) THEN "fetch" ELSE "dropped"
      <4>1. /\ pc' = [pc EXCEPT ![h] = l]
            /\ failures' = [failures EXCEPT ![h] = failures[h] + 1]
            /\ raised' = raised \cup {work[h]}
        BY <2>7, <3>4 DEF Return, ReturnErr, Goto
      <4>2. l \in States /\ (l = "dropped" => failures[h] + 1 >= MaxAttempts)
        BY <3>2, <3>4 DEF Retried, States, Working
      <4> HIDE DEF l
      <4>3. l \in {"fetch", "dropped"} /\ failures[h] + 1 \in Nat
        BY <3>2 DEF l
      <4>4. /\ raised' \subseteq raised' /\ work' = work /\ reported' = reported
            /\ work[h] \in raised' /\ l # "idle" /\ l # "return" /\ l # "ok"
        BY <3>1, <4>1, <4>3
      <4>5. /\ work'[h] = <<h[1], h[2]>>
            /\ <<h[1], h[2]>> \in reported' \cap raised'
        BY <3>3, <3>4, <4>4
      <4> QED BY <3>1, <3>2, <4>1, <4>2, <4>3, <4>4, <4>5, <1>2
    <3>5. CASE ~(h \in EventCalls /\ ReplicationErrors(h))
      <4>1. /\ pc' = [pc EXCEPT ![h] = "ok"] /\ UNCHANGED <<failures, raised>>
            /\ "ok" \in States
        BY <2>7, <3>5 DEF Return, ReturnOk, Goto, States
      <4>2. h \in EventCalls => work[h] \notin broken
        BY <3>5 DEF ReplicationErrors
      <4> QED BY <3>1, <3>2, <3>3, <4>1, <4>2, <1>2
    <3> QED BY <3>4, <3>5
  <2>8. ASSUME NEW h \in Calls, CallFails(h) PROVE ReportedInv'
    <3> DEFINE l == IF Retried(h) THEN "fetch" ELSE "dropped"
    <3>1. /\ UNCHANGED <<work, made, broken, listing, reported, raised>>
          /\ pc[h] \in Working
          /\ pc' = [pc EXCEPT ![h] = l]
          /\ failures' = [failures EXCEPT ![h] = failures[h] + 1]
          /\ faults' = faults + 1
      BY <2>8 DEF CallFails, s3Vars, Fault, ReturnErr, Goto
    <3>2. /\ failures[h] \in Nat /\ MaxAttempts \in Nat /\ reported \subseteq made
          /\ faults \in Nat
      BY <1>0, InventoryAssumption DEF CountsInv, InventoryAssumption
    <3>3. h \in EventCalls =>
             /\ work[h] = <<h[1], h[2]>>
             /\ failures[h] + 1 <= faults' \/ work[h] \in reported \cap raised \/ Void(work[h])
      <4>1. h \in EventCalls =>
               /\ work[h] = <<h[1], h[2]>>
               /\ failures[h] <= faults \/ work[h] \in reported \cap raised \/ Void(work[h])
        BY <3>1, <1>0 DEF EventInv, Working
      <4>2. failures[h] <= faults => failures[h] + 1 <= faults'
        BY <3>1, <3>2
      <4> QED BY <4>1, <4>2
    <3>4. l \in States /\ (l = "dropped" /\ h \in EventCalls => failures[h] + 1 >= MaxAttempts)
      BY <3>2 DEF Retried, States, Working
    <3> HIDE DEF l
    <3>5. l \in {"fetch", "dropped"} /\ failures[h] + 1 \in Nat
      BY <3>2 DEF l
    <3>6. h \in EventCalls =>
             /\ l # "idle" /\ l # "return" /\ l # "ok" /\ work'[h] = <<h[1], h[2]>>
             /\ \/ failures[h] + 1 <= faults'
                \/ <<h[1], h[2]>> \in reported' \cap raised' \/ Void(<<h[1], h[2]>>)
      BY <3>1, <3>3, <3>5
    <3> QED BY <3>1, <3>2, <3>4, <3>5, <3>6, <1>2
  <2>9. ASSUME NEW h \in Calls, ReadNothing(h) PROVE ReportedInv'
    <3> DEFINE l == IF Retried(h) THEN "fetch" ELSE "dropped"
    <3>1. /\ UNCHANGED <<work, made, broken, listing, reported, raised>>
          /\ pc[h] = "fetch" /\ listing[work[h]] = {}
          /\ pc' = [pc EXCEPT ![h] = l]
          /\ failures' = [failures EXCEPT ![h] = failures[h] + 1]
      BY <2>9 DEF ReadNothing, s3Vars, ReturnErr, Goto
    <3>2. /\ failures[h] \in Nat /\ MaxAttempts \in Nat /\ reported \subseteq made
      BY <1>0, InventoryAssumption DEF CountsInv, InventoryAssumption
    <3>3. h \in EventCalls => work[h] = <<h[1], h[2]>> /\ Void(work[h])
      BY <3>1, <1>0 DEF EventInv, WorkInv, HasManifest, Void
    <3>4. l \in States /\ (l = "dropped" /\ h \in EventCalls => failures[h] + 1 >= MaxAttempts)
      BY <3>2 DEF Retried, States, Working
    <3> HIDE DEF l
    <3>5. l \in {"fetch", "dropped"} /\ failures[h] + 1 \in Nat
      BY <3>2 DEF l
    <3>6. h \in EventCalls =>
             /\ l # "idle" /\ l # "return" /\ l # "ok" /\ work'[h] = <<h[1], h[2]>>
             /\ Void(<<h[1], h[2]>>)
      BY <3>1, <3>3, <3>5
    <3> QED BY <3>1, <3>2, <3>4, <3>5, <3>6, <1>2
  <2>10. ASSUME NEW h \in EventCalls
        PROVE  ~StartCli(h) /\ ~FindToday(h) /\ ~FindYesterday(h)
    BY <1>0 DEF WorkInv, StartCli, FindToday, FindYesterday, FindManifest
  <2> QED BY <1>3, <2>1, <2>2, <2>3, <2>4, <2>5, <2>6, <2>7, <2>8, <2>9,
             <2>10
          DEF InventoryNext, CallStep
<1>4. CASE RequestNext \/ StorageNext \/ UNCHANGED allVars
  <2>1. UNCHANGED <<pc, failures, work, raised, reported, made, broken, listing>>
    BY <1>4 DEF RequestNext, StorageNext, allVars, inventoryVars, s3Vars, callVars, history
  <2> QED BY <2>1, <1>0, <1>1 DEF CountsInv
<1> QED BY <1>3, <1>4 DEF Next

\* So it holds in every reachable state.
LEMMA ReportedInvariance == Spec => []ReportedInv
BY ReportedInit, ReportedStep, Invariance, PTL DEF Spec

\* When nothing is left to do, every inventory that lists an object has been
\* reported, and failed replications have been raised, unless as many calls failed as there are attempts.
THEOREM AllAreReported == Spec => []InventoriesAreReported
<1>1. IInv /\ ReportedInv => InventoriesAreReported
  <2> SUFFICES ASSUME IInv, ReportedInv, NEW b \in Buckets, AtRest(b),
                      faults < MaxAttempts, NEW m \in made, m[1] = b, listing[m] # {}
               PROVE  m \in reported /\ (m \in broken => m \in raised)
    BY DEF InventoriesAreReported
  <2>1. PICK h \in EventCalls : m = <<h[1], h[2]>> /\ h[3] = 1
    <3>1. m \in Inventories
      BY DEF IInv, CallTypes
    <3>2. PICK g \in EventCalls : m = <<g[1], g[2]>>
      BY <3>1 DEF Inventories
    <3> QED BY <3>2, InventoryAssumption DEF InventoryAssumption
  <2>2. pc[h] \in {"ok", "dropped"}
    BY <2>1, ConstantFacts DEF AtRest, BucketOf
  <2>3. /\ pc[h] = "ok" => m \in reported /\ m \notin broken
        /\ pc[h] = "dropped" => failures[h] >= MaxAttempts
        /\ failures[h] <= faults \/ m \in reported \cap raised \/ Void(m)
        /\ failures[h] \in Nat /\ faults \in Nat /\ MaxAttempts \in Nat
    BY <2>1, ConstantFacts, InventoryAssumption
       DEF ReportedInv, EventInv, CountsInv, InventoryAssumption
  <2> QED BY <2>2, <2>3 DEF Void
<1> QED BY <1>1, Invariance, ReportedInvariance, PTL
-----------------------------------------------------------------------------
(* Part two: storage-report, beside the others.  No bucket is left out of a   *)
(* report by accident, and its page and JSON object agree.                    *)

SStates == {"idle", "ok", "dropped"} \cup Collecting \cup Storing

StorageTypes ==
    /\ spc \in [StorageRuns -> SStates]
    /\ unread \in [StorageRuns -> SUBSET Buckets]
    /\ sreport \in [StorageRuns -> [Buckets -> InventoryOrNone]]
    /\ egress \in [StorageRuns -> BOOLEAN]
    /\ starget \in [StorageRuns -> Slots]
    /\ owed \in [StorageRuns -> SUBSET Buckets]
    /\ sole \in [StorageRuns -> BOOLEAN]
    /\ DOMAIN html = Slots /\ DOMAIN json = Slots

\* A bucket that is owed has stats, which are still to be read or were.
OwedInv ==
    \A c \in StorageRuns, b \in Buckets :
        b \in owed[c] =>
            /\ stats[b][LATEST] # None
            /\ spc[c] = "stats" => b \in unread[c] \/ sreport[c][b] # None
            /\ spc[c] \in Storing => sreport[c][b] # None

\* The report a run is writing.
Report(c) == Assemble(c, egress[c])

\* A run that is alone is the only one that writes, and what it has written is
\* still its own report.
SoleInv ==
    \A c \in StorageRuns :
        sole[c] =>
            /\ \A d \in StorageRuns : Publishing(d) => d = c
            /\ spc[c] \in Storing
            /\ spc[c] = "html_latest" => html[starget[c]] = Page(Report(c))
            /\ spc[c] \in {"json_dated", "json_latest"} =>
                  html[LATEST] = Page(Report(c))
            /\ spc[c] = "json_latest" => json[starget[c]] = Report(c)

\* Once a run has finished alone, nobody writes until the next page is begun.
QuietInv == ~split => \A c \in StorageRuns : ~Publishing(c)

\* What is written next has a date in its key.
DateInv ==
    \A c \in StorageRuns :
        spc[c] \in {"html_latest", "json_latest"} => starget[c] \in Days

StorageInv ==
    StorageTypes /\ OwedInv /\ SoleInv /\ QuietInv /\ DateInv /\ StoragePagesAgree

-----------------------------------------------------------------------------
(* The stats reports are made of *)

\* Stats under LATEST are replaced and never go.
LEMMA StatsStay ==
    ASSUME IInv, [Next]_allVars, NEW b \in Buckets, stats[b][LATEST] # None
    PROVE  stats'[b][LATEST] # None
<1> USE ConstantFacts
<1>0. CallTypes /\ TargetInv /\ WorkInv
  BY DEF IInv
<1>1. ASSUME NEW h \in Calls, PutStats(h) PROVE stats'[b][LATEST] # None
  <2>1. stats' = [stats EXCEPT ![BucketOf(h)][day] = work[h]] /\ day # LATEST
    BY <1>0, <1>1 DEF PutStats, PutDated, CallTypes
  <2>2. BucketOf(h) \in Buckets /\ day \in Slots
    BY <1>0 DEF CallTypes
  <2>3. stats'[b][LATEST] = stats[b][LATEST]
    BY <1>0, <2>1, <2>2 DEF CallTypes
  <2> QED BY <2>3
<1>2. ASSUME NEW h \in Calls, CopyStatsToLatest(h) PROVE stats'[b][LATEST] # None
  <2>1. /\ stats' = [stats EXCEPT ![BucketOf(h)][LATEST] = stats[BucketOf(h)][target[h]]]
        /\ stats[BucketOf(h)][target[h]] # None
    BY <1>0, <1>2 DEF CopyStatsToLatest, CopyToLatest, TargetInv
  <2>2. BucketOf(h) \in Buckets
    BY DEF CallTypes
  <2>3. stats'[b][LATEST] = IF b = BucketOf(h) THEN stats[BucketOf(h)][target[h]]
                            ELSE stats[b][LATEST]
    BY <1>0, <2>1, <2>2 DEF CallTypes
  <2> QED BY <2>1, <2>3
<1>3. ASSUME MidnightPasses \/ \E x \in Buckets : GenerateInventory(x)
      PROVE  UNCHANGED stats
  BY <1>3 DEF MidnightPasses, GenerateInventory, storeVars
<1> QED BY <1>1, <1>2, <1>3, StatsSteps

-----------------------------------------------------------------------------
(* Steps that write nothing *)

\* Before the first report, nothing is owed.
LEMMA StorageInvInit == Init => StorageInv
<1> SUFFICES ASSUME Init PROVE StorageInv
  OBVIOUS
<1> USE ConstantFacts DEF Init, StorageInit, Storing, Collecting
<1>1. StorageTypes
  BY DEF StorageTypes, SStates, NoStats, InventoryOrNone
<1>2. OwedInv
  BY DEF OwedInv
<1>3. SoleInv
  BY DEF SoleInv
<1>4. QuietInv /\ DateInv
  BY DEF QuietInv, DateInv, Publishing
<1>5. StoragePagesAgree
  BY DEF StoragePagesAgree
<1> QED BY <1>1, <1>2, <1>3, <1>4, <1>5 DEF StorageInv

\* Reports rest, while others work and new stats appear.
LEMMA StorageRests ==
    ASSUME IInv, StorageInv, [Next]_allVars, UNCHANGED storageVars
    PROVE  StorageInv'
<1> USE DEF storageVars, storageStores, storageCalls
<1>1. \A b \in Buckets : stats[b][LATEST] # None => stats'[b][LATEST] # None
  BY StatsStay
<1>2. StorageTypes'
  BY DEF StorageInv, StorageTypes
<1>3. OwedInv'
  BY <1>1 DEF StorageInv, OwedInv
<1>4. SoleInv'
  BY DEF StorageInv, SoleInv, Publishing, Report, Assemble
<1>5. QuietInv' /\ DateInv'
  BY DEF StorageInv, QuietInv, DateInv, Publishing
<1>6. StoragePagesAgree'
  BY DEF StorageInv, StoragePagesAgree
<1> QED BY <1>2, <1>3, <1>4, <1>5, <1>6 DEF StorageInv

\* A run that writes nothing leaves the others alone, and is not alone itself.
OthersRest(c) ==
    \A d \in StorageRuns : d # c =>
        /\ spc'[d] = spc[d] /\ unread'[d] = unread[d] /\ owed'[d] = owed[d]
        /\ sreport'[d] = sreport[d] /\ egress'[d] = egress[d]
        /\ starget'[d] = starget[d] /\ sole'[d] = sole[d]

\* A run is started, fails, or goes on collecting.
LEMMA CollectStep ==
    ASSUME StorageInv, StorageTypes', NEW c \in StorageRuns, OthersRest(c),
           spc'[c] \notin Storing, sole'[c] = FALSE,
           UNCHANGED <<stats, html, json, split>>,
           \A b \in owed'[c] :
              /\ stats[b][LATEST] # None
              /\ spc'[c] = "stats" => b \in unread'[c] \/ sreport'[c][b] # None
    PROVE  StorageInv'
<1>0. StorageTypes /\ OwedInv /\ SoleInv /\ QuietInv /\ DateInv /\ StoragePagesAgree
  BY DEF StorageInv
<1>1. OwedInv'
  <2> SUFFICES ASSUME NEW d \in StorageRuns, NEW b \in Buckets, b \in owed'[d]
               PROVE  /\ stats[b][LATEST] # None
                      /\ spc'[d] = "stats" => b \in unread'[d] \/ sreport'[d][b] # None
                      /\ spc'[d] \in Storing => sreport'[d][b] # None
    BY DEF OwedInv
  <2>1. CASE d = c
    BY <2>1
  <2>2. CASE d # c
    BY <1>0, <2>2 DEF OwedInv, OthersRest
  <2> QED BY <2>1, <2>2
<1>2. \A d \in StorageRuns : Publishing(d)' => Publishing(d) /\ d # c
  BY DEF Publishing, Storing, OthersRest
<1>3. SoleInv'
  <2> SUFFICES ASSUME NEW d \in StorageRuns, sole'[d]
               PROVE  /\ \A g \in StorageRuns : Publishing(g)' => g = d
                      /\ spc'[d] \in Storing
                      /\ spc'[d] = "html_latest" => html[starget'[d]] = Page(Report(d)')
                      /\ spc'[d] \in {"json_dated", "json_latest"} =>
                            html[LATEST] = Page(Report(d)')
                      /\ spc'[d] = "json_latest" => json[starget'[d]] = Report(d)'
    BY DEF SoleInv, Page
  <2>1. d # c
    OBVIOUS
  <2>2. Report(d)' = Report(d)
    BY <2>1 DEF Report, Assemble, OthersRest
  <2> QED BY <1>0, <1>2, <2>1, <2>2 DEF SoleInv, OthersRest
<1>4. QuietInv' /\ DateInv'
  BY <1>0, <1>2 DEF QuietInv, DateInv, Storing, OthersRest
<1>5. StoragePagesAgree'
  BY <1>0 DEF StoragePagesAgree, Page
<1> QED BY <1>1, <1>3, <1>4, <1>5 DEF StorageInv

\* The steps that write nothing.
LEMMA CollectSteps ==
    ASSUME IInv, StorageInv, NEW c \in StorageRuns, UNCHANGED stats,
           \/ StartStorage(c) \/ ListStorage(c) \/ StorageFails(c)
           \/ \E b \in Buckets : ReadStats(c, b)
    PROVE  StorageInv'
<1>0. /\ StorageTypes /\ OwedInv
      /\ spc[c] \notin Storing => sole[c] = FALSE
  BY DEF StorageInv, SoleInv, StorageTypes
<1>1. \A b \in owed[c] : b \in Buckets /\ stats[b][LATEST] # None
  BY <1>0 DEF OwedInv, StorageTypes
<1> USE DEF SStates, Storing, Collecting
<1>2. CASE StartStorage(c)
  <2>1. /\ spc[c] = "idle" /\ spc' = [spc EXCEPT ![c] = "list"]
        /\ UNCHANGED <<unread, owed, sreport, egress, starget, sole, html, json, split>>
    BY <1>2 DEF StartStorage, SGoto, storageStores
  <2>2. StorageTypes' /\ OthersRest(c) /\ spc'[c] = "list"
    BY <1>0, <2>1 DEF StorageTypes, OthersRest
  <2> QED BY <1>0, <1>1, <2>1, <2>2, CollectStep
<1>3. CASE ListStorage(c)
  <2>1. PICK passed \in SUBSET Buckets :
           /\ unread' = [unread EXCEPT ![c] = Buckets \ passed]
           /\ owed' = [owed EXCEPT ![c] = {b \in unread'[c] : stats[b][LATEST] # None}]
    BY <1>3 DEF ListStorage, Listed
  <2>2. /\ spc[c] = "list" /\ spc' = [spc EXCEPT ![c] = "stats"]
        /\ UNCHANGED <<sreport, egress, starget, sole, html, json, split>>
    BY <1>3 DEF ListStorage, SGoto, storageStores
  <2>3. StorageTypes' /\ OthersRest(c) /\ spc'[c] = "stats"
    BY <1>0, <2>1, <2>2 DEF StorageTypes, OthersRest
  <2>4. \A b \in owed'[c] : b \in unread'[c] /\ stats[b][LATEST] # None
    BY <1>0, <2>1 DEF StorageTypes
  <2> QED BY <1>0, <2>2, <2>3, <2>4, CollectStep
<1>4. ASSUME NEW b \in Buckets, ReadStats(c, b) PROVE StorageInv'
  <2>1. /\ spc[c] = "stats"
        /\ unread' = [unread EXCEPT ![c] = unread[c] \ {b}]
        /\ sreport' = [sreport EXCEPT ![c][b] = stats[b][LATEST]]
        /\ UNCHANGED <<spc, owed, egress, starget, sole, html, json, split>>
    BY <1>4 DEF ReadStats, storageStores
  <2>2. stats[b][LATEST] \in InventoryOrNone
    BY ConstantFacts DEF IInv, CallTypes
  <2>3. StorageTypes' /\ OthersRest(c)
    BY <1>0, <2>1, <2>2 DEF StorageTypes, OthersRest
  <2>4. \A x \in owed[c] : x \in unread'[c] \/ sreport'[c][x] # None
    <3> SUFFICES ASSUME NEW x \in owed[c]
                 PROVE  x \in unread'[c] \/ sreport'[c][x] # None
      OBVIOUS
    <3>1. x \in Buckets /\ stats[x][LATEST] # None
      BY <1>1
    <3>2. x \in unread[c] \/ sreport[c][x] # None
      BY <1>0, <2>1, <3>1 DEF OwedInv
    <3> QED BY <1>0, <2>1, <3>1, <3>2 DEF StorageTypes
  <2> QED BY <1>0, <1>1, <2>1, <2>3, <2>4, CollectStep
<1>5. CASE StorageFails(c)
  <2>1. /\ \/ spc' = [spc EXCEPT ![c] = "list"]
           \/ spc' = [spc EXCEPT ![c] = "dropped"]
        /\ unread' = [unread EXCEPT ![c] = {}]
        /\ owed' = [owed EXCEPT ![c] = {}]
        /\ sreport' = [sreport EXCEPT ![c] = NoStats]
        /\ egress' = [egress EXCEPT ![c] = FALSE]
        /\ starget' = [starget EXCEPT ![c] = LATEST]
        /\ sole' = [sole EXCEPT ![c] = FALSE]
        /\ UNCHANGED <<html, json, split>>
    BY <1>5 DEF StorageFails, SGoto, Forget, storageStores
  <2>2. NoStats \in [Buckets -> InventoryOrNone]
    BY DEF NoStats, InventoryOrNone
  <2>3. /\ StorageTypes' /\ OthersRest(c) /\ spc'[c] \in {"list", "dropped"}
        /\ owed'[c] = {} /\ sole'[c] = FALSE
    BY <1>0, <2>1, <2>2, ConstantFacts DEF StorageTypes, OthersRest
  <2> QED BY <2>1, <2>3, CollectStep
<1> QED BY <1>2, <1>3, <1>4, <1>5

-----------------------------------------------------------------------------
(* Steps that write *)

\* While a run writes, no other is alone, and a page is begun.
LEMMA WriterFacts ==
    ASSUME StorageInv, NEW c \in StorageRuns, Publishing(c)
    PROVE  /\ \A d \in StorageRuns : sole[d] => d = c
           /\ split
           /\ spc[c] \in Storing
BY DEF StorageInv, SoleInv, QuietInv, Publishing, Storing

\* The put of the page decides whether the run is alone.
LEMMA PutHtmlStep ==
    ASSUME StorageInv, CallTypes, NEW c \in StorageRuns, PutHtml(c), UNCHANGED stats
    PROVE  StorageInv'
<1> USE ConstantFacts DEF SStates, Storing, Collecting
<1> DEFINE others == {d \in StorageRuns : Publishing(d)}
<1>0. /\ StorageTypes /\ OwedInv /\ SoleInv /\ DateInv /\ day \in Days
      /\ spc[c] = "stats" /\ unread[c] = {}
      /\ \/ egress' = [egress EXCEPT ![c] = day \notin NewYear]
         \/ egress' = [egress EXCEPT ![c] = FALSE]
      /\ starget' = [starget EXCEPT ![c] = day]
      /\ html' = [html EXCEPT ![day] = Page(Assemble(c, egress'[c]))]
      /\ spc' = [spc EXCEPT ![c] = "html_latest"]
      /\ sole' = [d \in StorageRuns |-> IF d = c THEN others = {}
                                        ELSE sole[d] /\ d \notin others]
      /\ split' = TRUE
      /\ UNCHANGED <<json, unread, sreport, owed>>
  BY DEF PutHtml, QueryCosts, SGoto, StorageInv, CallTypes
<1>1. egress' \in [StorageRuns -> BOOLEAN]
  BY <1>0 DEF StorageTypes
<1>2. StorageTypes'
  BY <1>0, <1>1 DEF StorageTypes
<1>3. \A d \in StorageRuns : spc'[d] = IF d = c THEN "html_latest" ELSE spc[d]
  BY <1>0 DEF StorageTypes
<1>4. OwedInv'
  BY <1>0, <1>3 DEF OwedInv
<1>5. SoleInv'
  <2>1. ASSUME NEW d \in StorageRuns, sole'[d] PROVE d = c /\ others = {}
    BY <1>0, <2>1 DEF SoleInv, Publishing
  <2>2. html'[starget'[c]] = Page(Report(c))'
    <3>1. starget'[c] = day /\ html'[day] = Page(Assemble(c, egress'[c]))
      BY <1>0 DEF StorageTypes
    <3>2. Page(Assemble(c, egress'[c])) = Page(Report(c))'
      BY <1>0 DEF Page, Report, Assemble
    <3> QED BY <3>1, <3>2
  <2>3. others = {} => \A d \in StorageRuns : Publishing(d)' => d = c
    BY <1>3 DEF Publishing
  <2>4. spc'[c] = "html_latest"
    BY <1>3
  <2> QED BY <2>1, <2>2, <2>3, <2>4 DEF SoleInv
<1>6. QuietInv' /\ StoragePagesAgree'
  BY <1>0 DEF QuietInv, StoragePagesAgree
<1>7. DateInv'
  BY <1>0, <1>3 DEF DateInv, StorageTypes
<1> QED BY <1>2, <1>4, <1>5, <1>6, <1>7 DEF StorageInv

\* The page is copied, and the JSON object put: only an invocation that is
\* alone has anything to keep.
LEMMA MiddleSteps ==
    ASSUME StorageInv, CallTypes, NEW c \in StorageRuns, CopyHtml(c) \/ PutJson(c),
           UNCHANGED stats
    PROVE  StorageInv'
<1> USE ConstantFacts DEF SStates, Storing, Collecting
<1>0. /\ StorageTypes /\ OwedInv /\ SoleInv /\ DateInv /\ QuietInv /\ day \in Days
      /\ Publishing(c)
      /\ UNCHANGED <<unread, sreport, egress, owed, sole, split>>
  BY DEF CopyHtml, PutJson, StorageInv, CallTypes, Publishing
<1>1. /\ \A d \in StorageRuns : sole[d] => d = c
      /\ split
  BY <1>0, WriterFacts
<1>2. CASE CopyHtml(c)
  <2>1. /\ spc[c] = "html_latest" /\ spc' = [spc EXCEPT ![c] = "json_dated"]
        /\ html' = [html EXCEPT ![LATEST] = html[starget[c]]]
        /\ UNCHANGED <<json, starget>>
    BY <1>2 DEF CopyHtml, SGoto
  <2>2. \A d \in StorageRuns : spc'[d] = IF d = c THEN "json_dated" ELSE spc[d]
    BY <1>0, <2>1 DEF StorageTypes
  <2>3. StorageTypes'
    BY <1>0, <2>1 DEF StorageTypes
  <2>4. OwedInv'
    BY <1>0, <2>1, <2>2 DEF OwedInv
  <2>5. SoleInv'
    <3>1. sole[c] => html'[LATEST] = Page(Report(c))
      BY <1>0, <2>1 DEF SoleInv, StorageTypes
    <3>2. Page(Report(c))' = Page(Report(c))
      BY <1>0 DEF Page, Report, Assemble
    <3>3. \A d \in StorageRuns : Publishing(d)' <=> Publishing(d)
      BY <2>1, <2>2 DEF Publishing
    <3> QED BY <1>0, <1>1, <2>2, <3>1, <3>2, <3>3 DEF SoleInv
  <2>6. QuietInv' /\ StoragePagesAgree'
    BY <1>0, <1>1 DEF QuietInv, StoragePagesAgree
  <2>7. DateInv'
    BY <1>0, <2>1, <2>2 DEF DateInv
  <2> QED BY <2>3, <2>4, <2>5, <2>6, <2>7 DEF StorageInv
<1>3. CASE PutJson(c)
  <2>1. /\ spc[c] = "json_dated" /\ spc' = [spc EXCEPT ![c] = "json_latest"]
        /\ starget' = [starget EXCEPT ![c] = day]
        /\ json' = [json EXCEPT ![day] = Report(c)]
        /\ UNCHANGED html
    BY <1>3 DEF PutJson, SGoto, Report
  <2>2. \A d \in StorageRuns : spc'[d] = IF d = c THEN "json_latest" ELSE spc[d]
    BY <1>0, <2>1 DEF StorageTypes
  <2>3. StorageTypes'
    BY <1>0, <2>1 DEF StorageTypes
  <2>4. OwedInv'
    BY <1>0, <2>1, <2>2 DEF OwedInv
  <2>5. SoleInv'
    <3>1. /\ starget'[c] = day /\ json'[day] = Report(c)
          /\ sole[c] => html[LATEST] = Page(Report(c))
      BY <1>0, <2>1 DEF SoleInv, StorageTypes
    <3>2. Page(Report(c))' = Page(Report(c)) /\ Report(c)' = Report(c)
      BY <1>0 DEF Page, Report, Assemble
    <3>3. \A d \in StorageRuns : Publishing(d)' <=> Publishing(d)
      BY <2>1, <2>2 DEF Publishing
    <3> QED BY <1>0, <1>1, <2>1, <2>2, <3>1, <3>2, <3>3 DEF SoleInv
  <2>6. QuietInv' /\ StoragePagesAgree'
    BY <1>0, <1>1 DEF QuietInv, StoragePagesAgree
  <2>7. DateInv'
    BY <1>0, <2>1, <2>2 DEF DateInv, StorageTypes
  <2> QED BY <2>3, <2>4, <2>5, <2>6, <2>7 DEF StorageInv
<1> QED BY <1>2, <1>3

\* The last write.  Whoever made it alone leaves page and object in step.
LEMMA CopyJsonStep ==
    ASSUME StorageInv, CallTypes, NEW c \in StorageRuns, CopyJson(c), UNCHANGED stats
    PROVE  StorageInv'
<1> USE ConstantFacts DEF SStates, Storing, Collecting
<1>0. /\ StorageTypes /\ OwedInv /\ SoleInv /\ DateInv /\ QuietInv
      /\ spc[c] = "json_latest" /\ spc' = [spc EXCEPT ![c] = "ok"]
      /\ json' = [json EXCEPT ![LATEST] = json[starget[c]]]
      /\ split' = IF sole[c] THEN FALSE ELSE split
      /\ unread' = [unread EXCEPT ![c] = {}]
      /\ owed' = [owed EXCEPT ![c] = {}]
      /\ sreport' = [sreport EXCEPT ![c] = NoStats]
      /\ egress' = [egress EXCEPT ![c] = FALSE]
      /\ starget' = [starget EXCEPT ![c] = LATEST]
      /\ sole' = [sole EXCEPT ![c] = FALSE]
      /\ UNCHANGED html
  BY DEF CopyJson, SGoto, Forget, StorageInv
<1>1. /\ \A d \in StorageRuns : sole[d] => d = c
      /\ split /\ Publishing(c)
  BY <1>0, WriterFacts DEF Publishing
<1>2. NoStats \in [Buckets -> InventoryOrNone]
  BY DEF NoStats, InventoryOrNone
<1>3. StorageTypes'
  BY <1>0, <1>2 DEF StorageTypes
<1>4. \A d \in StorageRuns : /\ spc'[d] = IF d = c THEN "ok" ELSE spc[d]
                             /\ d # c => owed'[d] = owed[d] /\ sreport'[d] = sreport[d]
                             /\ d # c => starget'[d] = starget[d]
                             /\ d = c => owed'[d] = {}
  BY <1>0 DEF StorageTypes
<1>5. OwedInv'
  BY <1>0, <1>4 DEF OwedInv
<1>6. \A d \in StorageRuns : sole'[d] = FALSE
  BY <1>0, <1>1 DEF StorageTypes
<1>7. SoleInv'
  BY <1>6 DEF SoleInv
<1>8. sole[c] => \A d \in StorageRuns : Publishing(d) => d = c
  BY <1>0 DEF SoleInv
<1>9. QuietInv'
  BY <1>0, <1>1, <1>4, <1>8 DEF QuietInv, Publishing
<1>10. DateInv'
  BY <1>0, <1>4 DEF DateInv
<1>11. StoragePagesAgree'
  <2>1. CASE sole[c]
    <3>1. Report(c) # None
      <4>1. Report(c) \in [of : [Buckets -> InventoryOrNone], egress : BOOLEAN]
        BY <1>0 DEF Report, Assemble, StorageTypes
      <4> QED BY <4>1, StorageAssumption DEF StorageAssumption
    <3>2. html[LATEST] = Page(Report(c)) /\ json[starget[c]] = Report(c)
      BY <1>0, <2>1 DEF SoleInv
    <3>3. json'[LATEST] = Report(c)
      BY <1>0, <3>2 DEF StorageTypes
    <3>4. html'[LATEST] = Page(json'[LATEST]) /\ json'[LATEST] # None
      BY <1>0, <3>1, <3>2, <3>3
    <3> QED BY <3>4 DEF StoragePagesAgree, Page
  <2>2. CASE ~sole[c]
    BY <1>0, <1>1, <2>2 DEF StoragePagesAgree
  <2> QED BY <2>1, <2>2
<1> QED BY <1>3, <1>5, <1>7, <1>9, <1>10, <1>11 DEF StorageInv

-----------------------------------------------------------------------------
(* The invariant *)

\* Every step of the stack keeps it.
LEMMA StorageInvStep == IInv /\ StorageInv /\ [Next]_allVars => StorageInv'
<1> SUFFICES ASSUME IInv, StorageInv, [Next]_allVars PROVE StorageInv'
  OBVIOUS
<1>1. CASE StorageNext
  <2>1. UNCHANGED stats /\ CallTypes
    BY <1>1 DEF StorageNext, storeVars, IInv
  <2> QED BY <1>1, <2>1, CollectSteps, PutHtmlStep, MiddleSteps, CopyJsonStep
          DEF StorageNext, StorageStep
<1>2. CASE UNCHANGED storageVars
  BY <1>2, StorageRests
<1> QED BY <1>1, <1>2 DEF Next, allVars

\* So it holds in every reachable state.
LEMMA StorageInvariance == Spec => []StorageInv
BY StorageInvInit, StorageInvStep, Invariance, PTL DEF Spec

\* A report that is written out counts every listed bucket whose stats were there
\* at the listing, whatever inventory-report replaces meanwhile.
THEOREM NothingStaysOut == Spec => []NothingIsLeftOut
<1>1. StorageInv => NothingIsLeftOut
  BY DEF StorageInv, StorageTypes, OwedInv, NothingIsLeftOut
<1> QED BY <1>1, StorageInvariance, PTL

\* Whatever is retried or started by hand, and whenever midnight passes: unless a
\* report was broken off or mixed with another, page and JSON object under LATEST
\* hold the same stats.
THEOREM PagesAgree == Spec => []StoragePagesAgree
BY StorageInvariance, PTL DEF StorageInv
=============================================================================
