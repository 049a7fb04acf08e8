----------------------- MODULE ChecksumRequests_proofs -----------------------
(***************************************************************************)
(* Proofs about checksum-request beside the other report pipelines, for    *)
(* any number of buckets, uploads, deliveries, attempts and faults: no     *)
(* request is lost, and the lists that are published are true.             *)
(***************************************************************************)
EXTENDS StackReports_proofs

\* An attempt has seen an inventory report, and may come to delete the trigger.
Past == Performing \cup {"delete", "feedback"}
RStates == {"idle", "look", "ok", "dropped"} \cup Past

RequestTypes ==
    /\ asked \in [Buckets -> Nat]
    /\ answered \in [Buckets -> Nat]
    /\ began \in [RequestCalls -> Nat]
    /\ rfailures \in [RequestCalls -> Nat]
    /\ rpc \in [RequestCalls -> RStates]

UploadInv ==
    \A b \in Buckets :
        /\ asked[b] = 0 \/ <<b, asked[b], 1>> \in RequestEvents
        /\ answered[b] <= asked[b]
        \* Without a report nobody deletes the trigger of a request.
        /\ csv[b][LATEST] = None /\ asked[b] > 0 => b \in trigger

\* What an attempt has seen: uploads at its beginning, and a report later on.
AttemptInv ==
    \A c \in RequestCalls :
        /\ began[c] <= asked[c[1]]
        /\ rpc[c] = "idle" => rfailures[c] = 0
        /\ c \in RequestEvents /\ rpc[c] # "idle" => c[2] <= asked[c[1]]
        /\ c \in RequestEvents /\ rpc[c] \in Past \cup {"ok"} => c[2] <= began[c]
        /\ rpc[c] \in {"delete", "ok"} => began[c] <= answered[c[1]]
        /\ c \in RequestEvents /\ rpc[c] = "dropped" => rfailures[c] >= MaxAttempts
        /\ csv[c[1]][LATEST] = None => rpc[c] \notin Past

\* The attempts of an invocation that have failed, or are about to.
Failed(c) == rfailures[c] + (IF rpc[c] = "feedback" THEN 1 ELSE 0)

\* Whoever may still delete the trigger has begun after the upload of c, and
\* the upload is answered, or its trigger file is there.
Covered(c) ==
    /\ \A d \in RequestCalls :
          d[1] = c[1] /\ rpc[d] \in Past => c[2] <= began[d]
    /\ c[1] \in trigger \/ c[2] <= answered[c[1]]

\* An attempt fails with a call, or because there is no report, in which case
\* nobody could have deleted the trigger.
ExcuseInv == \A c \in RequestEvents : Failed(c) <= faults \/ Covered(c)

RequestInv == RequestTypes /\ UploadInv /\ AttemptInv /\ ExcuseInv

-----------------------------------------------------------------------------
(* The constants, and the reports requests read *)

\* Requests are for buckets, and count deliveries from one.
LEMMA RequestFacts ==
    /\ \A c \in RequestCalls : c[1] \in Buckets /\ c[2] \in Nat
    /\ \A c \in RequestEvents : c \in RequestCalls /\ c[2] \in Nat \ {0}
    /\ \A c \in RequestEvents : <<c[1], c[2], 1>> \in RequestEvents
    /\ \A c \in RequestCalls : c \notin RequestEvents => c[2] = 0
    /\ MaxAttempts \in Nat \ {0}
BY InventoryAssumption, RequestAssumption
   DEF InventoryAssumption, RequestAssumption, RequestCalls, CLI

\* A report under LATEST is replaced and never goes.
LEMMA CsvStays ==
    ASSUME IInv, [Next]_allVars, NEW b \in Buckets, csv[b][LATEST] # None
    PROVE  csv'[b][LATEST] # None
<1> USE ConstantFacts
<1>0. CallTypes /\ TargetInv /\ WorkInv
  BY DEF IInv
<1>1. ASSUME NEW h \in Calls, PutCsv(h) PROVE csv'[b][LATEST] # None
  <2>1. csv' = [csv EXCEPT ![BucketOf(h)][day] = work[h]] /\ day # LATEST
    BY <1>0, <1>1 DEF PutCsv, PutDated, CallTypes
  <2>2. BucketOf(h) \in Buckets /\ day \in Slots
    BY <1>0 DEF CallTypes
  <2>3. csv'[b][LATEST] = csv[b][LATEST]
    BY <1>0, <2>1, <2>2 DEF CallTypes
  <2> QED BY <2>3
<1>2. ASSUME NEW h \in Calls, CopyCsvToLatest(h) PROVE csv'[b][LATEST] # None
  <2>1. /\ csv' = [csv EXCEPT ![BucketOf(h)][LATEST] = csv[BucketOf(h)][target[h]]]
        /\ csv[BucketOf(h)][target[h]] # None
    BY <1>0, <1>2 DEF CopyCsvToLatest, CopyToLatest, TargetInv
  <2>2. BucketOf(h) \in Buckets
    BY DEF CallTypes
  <2>3. csv'[b][LATEST] = IF b = BucketOf(h) THEN csv[BucketOf(h)][target[h]]
                          ELSE csv[b][LATEST]
    BY <1>0, <2>1, <2>2 DEF CallTypes
  <2> QED BY <2>1, <2>3
<1>3. ASSUME MidnightPasses \/ \E x \in Buckets : GenerateInventory(x)
      PROVE  UNCHANGED csv
  BY <1>3 DEF MidnightPasses, GenerateInventory, storeVars
<1> QED BY <1>1, <1>2, <1>3, CsvSteps

-----------------------------------------------------------------------------
(* The steps *)

\* Before anybody has asked, nothing is owed.
LEMMA RequestInvInit == Init => RequestInv
<1> SUFFICES ASSUME Init PROVE RequestInv
  OBVIOUS
<1> USE RequestFacts DEF Init, InventoryInit, RequestInit
<1>1. RequestTypes
  BY DEF RequestTypes, RStates
<1>2. UploadInv
  BY DEF UploadInv
<1>3. AttemptInv
  BY DEF AttemptInv, Past, Performing
<1>4. \A c \in RequestEvents : Failed(c) = 0
  BY DEF Failed
<1>5. ExcuseInv
  BY <1>4 DEF ExcuseInv
<1> QED BY <1>1, <1>2, <1>3, <1>5 DEF RequestInv

\* Requests rest, while others work and reports appear.
LEMMA RequestsRest ==
    ASSUME IInv, CountsInv, RequestInv, [Next]_allVars, UNCHANGED requestVars
    PROVE  RequestInv'
<1> USE RequestFacts DEF requestVars, requestStores, requestCalls
<1>1. faults \in Nat /\ faults' \in Nat /\ faults' >= faults
  BY FaultsGrow DEF CountsInv
<1>2. \A b \in Buckets : csv'[b][LATEST] = None => csv[b][LATEST] = None
  BY CsvStays
<1>3. RequestTypes'
  BY DEF RequestInv, RequestTypes
<1>4. UploadInv'
  BY <1>2 DEF RequestInv, UploadInv
<1>5. AttemptInv'
  BY <1>2 DEF RequestInv, AttemptInv
<1>6. ExcuseInv'
  <2> SUFFICES ASSUME NEW c \in RequestEvents PROVE Failed(c)' <= faults' \/ Covered(c)'
    BY DEF ExcuseInv
  <2>1. Failed(c)' = Failed(c) /\ (Covered(c)' <=> Covered(c))
    BY DEF Failed, Covered
  <2>2. Failed(c) \in Nat
    BY DEF Failed, RequestInv, RequestTypes
  <2>3. Failed(c) <= faults \/ Covered(c)
    BY DEF RequestInv, ExcuseInv
  <2> QED BY <1>1, <2>1, <2>2, <2>3
<1> QED BY <1>3, <1>4, <1>5, <1>6 DEF RequestInv

\* One invocation moves to l, having failed n times and seen e uploads.
LEMMA OneRequestMoves ==
    ASSUME RequestInv, CountsInv, NEW d \in RequestCalls,
           NEW l \in RStates \ {"idle"}, NEW n \in Nat, NEW e \in Nat,
           rpc' = [rpc EXCEPT ![d] = l],
           rfailures' = [rfailures EXCEPT ![d] = n],
           began' = [began EXCEPT ![d] = e],
           UNCHANGED <<asked, csv>>,
           faults' \in Nat, faults' >= faults,
           answered' \in [Buckets -> Nat],
           \A b \in Buckets : answered[b] <= answered'[b] /\ answered'[b] <= asked[b],
           \* Only an invocation that is there to do so deletes a trigger.
           \A b \in trigger :
              b \in trigger' \/ (b = d[1] /\ rpc[d] = "delete"),
           e <= asked[d[1]],
           d \in RequestEvents => d[2] <= asked[d[1]],
           d \in RequestEvents /\ l \in Past \cup {"ok"} => d[2] <= e,
           l \in {"delete", "ok"} => e <= answered'[d[1]],
           d \in RequestEvents /\ l = "dropped" => n >= MaxAttempts,
           csv[d[1]][LATEST] = None => l \notin Past,
           l \in Past => e = asked[d[1]] \/ (e = began[d] /\ rpc[d] \in Past),
           d \in RequestEvents =>
              \/ n + (IF l = "feedback" THEN 1 ELSE 0) <= faults'
              \/ Covered(d)
    PROVE  RequestInv'
<1> USE RequestFacts
<1>0. RequestTypes /\ UploadInv /\ AttemptInv /\ ExcuseInv /\ faults \in Nat
  BY DEF RequestInv, CountsInv
<1>1. RequestTypes'
  BY <1>0 DEF RequestTypes
<1>2. \A b \in Buckets : csv[b][LATEST] = None /\ asked[b] > 0 => b \in trigger'
  <2> SUFFICES ASSUME NEW b \in Buckets, csv[b][LATEST] = None, asked[b] > 0,
                      b \notin trigger'
               PROVE  FALSE
    OBVIOUS
  <2>1. b \in trigger
    BY <1>0 DEF UploadInv
  <2>2. b = d[1] /\ rpc[d] \in Past
    BY <2>1 DEF Past
  <2> QED BY <2>2, <1>0 DEF AttemptInv
<1>3. UploadInv'
  BY <1>0, <1>2 DEF UploadInv
<1>4. \A c \in RequestCalls : c # d =>
         rpc'[c] = rpc[c] /\ rfailures'[c] = rfailures[c] /\ began'[c] = began[c]
  BY <1>0 DEF RequestTypes
<1>5. rpc'[d] = l /\ rfailures'[d] = n /\ began'[d] = e
  BY <1>0 DEF RequestTypes
<1>6. AttemptInv'
  <2> SUFFICES ASSUME NEW c \in RequestCalls
        PROVE  /\ began'[c] <= asked[c[1]]
               /\ rpc'[c] = "idle" => rfailures'[c] = 0
               /\ c \in RequestEvents /\ rpc'[c] # "idle" => c[2] <= asked[c[1]]
               /\ c \in RequestEvents /\ rpc'[c] \in Past \cup {"ok"} => c[2] <= began'[c]
               /\ rpc'[c] \in {"delete", "ok"} => began'[c] <= answered'[c[1]]
               /\ c \in RequestEvents /\ rpc'[c] = "dropped" => rfailures'[c] >= MaxAttempts
               /\ csv[c[1]][LATEST] = None => rpc'[c] \notin Past
    BY DEF AttemptInv
  <2>1. CASE c = d
    BY <1>5, <2>1
  <2>2. CASE c # d
    <3>1. /\ began[c] \in Nat /\ answered[c[1]] \in Nat /\ answered'[c[1]] \in Nat
          /\ answered[c[1]] <= answered'[c[1]]
      BY <1>0 DEF RequestTypes
    <3> QED BY <1>0, <1>4, <2>2, <3>1 DEF AttemptInv
  <2> QED BY <2>1, <2>2
\* Nobody who has not begun by now deletes a trigger before looking again.
<1>7. ASSUME NEW c \in RequestEvents, c[2] <= asked[c[1]], Covered(c)
      PROVE  Covered(c)'
  <2>1. ASSUME NEW g \in RequestCalls, g[1] = c[1], rpc'[g] \in Past
        PROVE  c[2] <= began'[g]
    <3>1. CASE g # d
      BY <1>4, <1>7, <2>1, <3>1 DEF Covered
    <3>2. CASE g = d
      BY <1>5, <1>7, <2>1, <3>2 DEF Covered
    <3> QED BY <3>1, <3>2
  <2>2. c[1] \in trigger' \/ c[2] <= answered'[c[1]]
    <3>1. /\ c[1] \in Buckets /\ answered[c[1]] \in Nat /\ answered'[c[1]] \in Nat
          /\ answered[c[1]] <= answered'[c[1]] /\ began[d] \in Nat
      BY <1>0 DEF RequestTypes
    <3>2. CASE c[2] <= answered[c[1]]
      BY <3>1, <3>2
    <3>3. CASE c[1] \in trigger
      <4>1. CASE c[1] \in trigger'
        BY <4>1
      <4>2. CASE c[1] = d[1] /\ rpc[d] = "delete"
        <5>1. c[2] <= began[d]
          BY <1>7, <4>2 DEF Covered, Past
        <5>2. began[d] <= answered[d[1]]
          BY <1>0, <4>2 DEF AttemptInv
        <5> QED BY <3>1, <4>2, <5>1, <5>2
      <4> QED BY <3>3, <4>1, <4>2
    <3> QED BY <1>7, <3>2, <3>3 DEF Covered
  <2> QED BY <2>1, <2>2 DEF Covered
<1>8. ExcuseInv'
  <2> SUFFICES ASSUME NEW c \in RequestEvents PROVE Failed(c)' <= faults' \/ Covered(c)'
    BY DEF ExcuseInv
  <2>1. CASE c = d
    <3>1. Failed(c)' = n + (IF l = "feedback" THEN 1 ELSE 0)
      BY <1>5, <2>1 DEF Failed
    <3> QED BY <1>7, <2>1, <3>1
  <2>2. CASE c # d
    <3>1. Failed(c)' = Failed(c) /\ Failed(c) \in Nat
      BY <1>0, <1>4, <2>2 DEF Failed, RequestTypes
    <3>2. CASE rpc[c] = "idle"
      <4>1. Failed(c) = 0
        BY <1>0, <3>2 DEF Failed, AttemptInv
      <4> QED BY <3>1, <4>1
    <3>3. CASE rpc[c] # "idle"
      <4>1. c[2] <= asked[c[1]]
        BY <1>0, <3>3 DEF AttemptInv
      <4>2. Failed(c) <= faults \/ Covered(c)
        BY <1>0 DEF ExcuseInv
      <4> QED BY <1>0, <1>7, <3>1, <4>1, <4>2
    <3> QED BY <3>2, <3>3
  <2> QED BY <2>1, <2>2
<1> QED BY <1>1, <1>3, <1>6, <1>8 DEF RequestInv

\* An upload, of a trigger or over one.
LEMMA UploadStep ==
    ASSUME RequestInv, NEW u \in Buckets, UploadTrigger(u), UNCHANGED csv
    PROVE  RequestInv'
<1> USE RequestFacts
<1>0. /\ RequestTypes /\ UploadInv /\ AttemptInv /\ ExcuseInv
      /\ <<u, asked[u] + 1, 1>> \in RequestEvents
      /\ asked' = [asked EXCEPT ![u] = asked[u] + 1]
      /\ trigger' = trigger \cup {u}
      /\ UNCHANGED <<faults, answered, rpc, rfailures, began, csv>>
  BY DEF RequestInv, UploadTrigger, requestCalls
<1>1. RequestTypes'
  BY <1>0 DEF RequestTypes
<1>2. \A b \in Buckets : /\ asked[b] \in Nat /\ asked'[b] \in Nat /\ answered[b] \in Nat
                         /\ asked[b] <= asked'[b]
                         /\ b # u => asked'[b] = asked[b]
                         /\ b = u => asked'[b] = asked[u] + 1
  BY <1>0 DEF RequestTypes
<1>3. UploadInv'
  <2> SUFFICES ASSUME NEW b \in Buckets
               PROVE  /\ asked'[b] = 0 \/ <<b, asked'[b], 1>> \in RequestEvents
                      /\ answered[b] <= asked'[b]
                      /\ csv[b][LATEST] = None /\ asked'[b] > 0 => b \in trigger'
    BY <1>0 DEF UploadInv
  <2>1. asked[b] = 0 \/ <<b, asked[b], 1>> \in RequestEvents
    BY <1>0 DEF UploadInv
  <2>2. answered[b] <= asked[b]
    BY <1>0 DEF UploadInv
  <2>3. csv[b][LATEST] = None /\ asked[b] > 0 => b \in trigger'
    BY <1>0 DEF UploadInv
  <2>4. asked'[b] = 0 \/ <<b, asked'[b], 1>> \in RequestEvents
    BY <1>0, <1>2, <2>1
  <2>5. answered[b] <= asked'[b]
    BY <1>2, <2>2
  <2>6. csv[b][LATEST] = None /\ asked'[b] > 0 => b \in trigger'
    BY <1>0, <1>2, <2>3
  <2> QED BY <2>4, <2>5, <2>6
<1>4. AttemptInv'
  <2> SUFFICES ASSUME NEW c \in RequestCalls
               PROVE  /\ began[c] <= asked'[c[1]]
                      /\ c \in RequestEvents /\ rpc[c] # "idle" => c[2] <= asked'[c[1]]
    BY <1>0 DEF AttemptInv
  <2>1. c[1] \in Buckets /\ c[2] \in Nat /\ began[c] \in Nat
    BY <1>0 DEF RequestTypes
  <2> QED BY <1>0, <1>2, <2>1 DEF AttemptInv
<1>5. ExcuseInv'
  BY <1>0 DEF ExcuseInv, Failed, Covered
<1> QED BY <1>1, <1>3, <1>4, <1>5 DEF RequestInv

\* An attempt fails with a call, or without a report to read.
LEMMA AttemptFails ==
    ASSUME RequestInv, CountsInv, NEW d \in RequestCalls, RReturnErr(d),
           NEW e \in Nat, e <= asked[d[1]], rpc[d] # "idle",
           began' = [began EXCEPT ![d] = e],
           UNCHANGED <<asked, csv, answered>>, trigger' = trigger,
           faults' \in Nat, faults' >= faults,
           \/ faults' = faults + 1
           \/ rpc[d] = "feedback"
           \/ csv[d[1]][LATEST] = None
    PROVE  RequestInv'
<1> USE RequestFacts
<1> DEFINE l == IF d \in RequestEvents /\ rfailures[d] + 1 < MaxAttempts
                THEN "look" ELSE "dropped"
<1>0. RequestTypes /\ UploadInv /\ AttemptInv /\ ExcuseInv /\ faults \in Nat
  BY DEF RequestInv, CountsInv
<1>1. /\ rpc' = [rpc EXCEPT ![d] = l]
      /\ rfailures' = [rfailures EXCEPT ![d] = rfailures[d] + 1]
  BY DEF RReturnErr, RGoto
<1>2. rfailures[d] \in Nat /\ rfailures[d] + 1 \in Nat
  BY <1>0 DEF RequestTypes
<1>3. d \in RequestEvents => d[2] <= asked[d[1]]
  BY <1>0 DEF AttemptInv
<1>4. d \in RequestEvents => rfailures[d] + 1 <= faults' \/ Covered(d)
  <2> SUFFICES ASSUME d \in RequestEvents
               PROVE  rfailures[d] + 1 <= faults' \/ Covered(d)
    OBVIOUS
  <2>1. Failed(d) <= faults \/ Covered(d)
    BY <1>0 DEF ExcuseInv
  <2>2. rpc[d] = "feedback" => Failed(d) = rfailures[d] + 1
    BY DEF Failed
  <2>3. Failed(d) >= rfailures[d] /\ Failed(d) \in Nat
    BY <1>2 DEF Failed
  <2>4. csv[d[1]][LATEST] = None => Covered(d)
    <3> SUFFICES ASSUME csv[d[1]][LATEST] = None PROVE Covered(d)
      OBVIOUS
    <3>1. d[1] \in trigger
      <4>1. asked[d[1]] > 0
        BY <1>0, <1>3 DEF RequestTypes
      <4> QED BY <1>0, <4>1 DEF UploadInv
    <3>2. \A g \in RequestCalls : g[1] = d[1] => rpc[g] \notin Past
      BY <1>0 DEF AttemptInv
    <3> QED BY <3>1, <3>2 DEF Covered
  <2> QED BY <1>0, <1>2, <2>1, <2>2, <2>3, <2>4
<1>5. /\ l \in RStates \ {"idle"} /\ l \notin Past \cup {"ok", "feedback", "delete"}
      /\ l = "dropped" /\ d \in RequestEvents => rfailures[d] + 1 >= MaxAttempts
  BY <1>2 DEF RStates, Past, Performing
<1>6. /\ answered' = answered /\ answered \in [Buckets -> Nat]
      /\ \A b \in Buckets : answered[b] \in Nat /\ answered[b] <= asked[b]
  BY <1>0 DEF RequestTypes, UploadInv
<1> HIDE DEF l
<1>7. l # "feedback" /\ l # "delete" /\ l # "ok" /\ l \notin Past
  BY <1>5
<1>8. d \in RequestEvents =>
         rfailures[d] + 1 + (IF l = "feedback" THEN 1 ELSE 0) <= faults' \/ Covered(d)
  BY <1>2, <1>4, <1>7
<1>9. PICK n \in Nat : n = rfailures[d] + 1
  BY <1>2
<1>10. /\ rfailures' = [rfailures EXCEPT ![d] = n]
       /\ l = "dropped" /\ d \in RequestEvents => n >= MaxAttempts
       /\ d \in RequestEvents =>
             n + (IF l = "feedback" THEN 1 ELSE 0) <= faults' \/ Covered(d)
  BY <1>1, <1>5, <1>8, <1>9
<1>11. answered' \in [Buckets -> Nat]
  BY <1>6
<1>12. \A b \in Buckets : answered[b] <= answered'[b] /\ answered'[b] <= asked[b]
  BY <1>6
<1>13. \A b \in trigger : b \in trigger' \/ (b = d[1] /\ rpc[d] = "delete")
  OBVIOUS
<1>14. PICK k \in RStates \ {"idle"} : k = l
  BY <1>5
<1>15. /\ rpc' = [rpc EXCEPT ![d] = k]
       /\ k = "dropped" /\ d \in RequestEvents => n >= MaxAttempts
       /\ d \in RequestEvents =>
             n + (IF k = "feedback" THEN 1 ELSE 0) <= faults' \/ Covered(d)
       /\ k # "feedback" /\ k # "delete" /\ k # "ok" /\ k \notin Past
  BY <1>1, <1>7, <1>10, <1>14
<1> QED BY <1>3, <1>10, <1>11, <1>12, <1>13, <1>15, OneRequestMoves

\* The steps that go on.
LEMMA AttemptGoesOn ==
    ASSUME RequestInv, CountsInv, NEW d \in RequestCalls,
           NEW l \in RStates \ {"idle", "dropped"}, NEW e \in Nat,
           rpc' = [rpc EXCEPT ![d] = l], UNCHANGED <<asked, csv, rfailures>>,
           began' = [began EXCEPT ![d] = e],
           faults' \in Nat, faults' >= faults,
           answered' \in [Buckets -> Nat],
           \A b \in Buckets : answered[b] <= answered'[b] /\ answered'[b] <= asked[b],
           \A b \in trigger : b \in trigger' \/ (b = d[1] /\ rpc[d] = "delete"),
           e <= asked[d[1]],
           d \in RequestEvents => d[2] <= asked[d[1]],
           d \in RequestEvents /\ l \in Past \cup {"ok"} => d[2] <= e,
           l \in {"delete", "ok"} => e <= answered'[d[1]],
           csv[d[1]][LATEST] = None => l \notin Past,
           l \in Past => e = asked[d[1]] \/ (e = began[d] /\ rpc[d] \in Past),
           l = "feedback" => faults' = faults + 1
    PROVE  RequestInv'
<1> USE RequestFacts
<1>0. RequestTypes /\ ExcuseInv /\ faults \in Nat
  BY DEF RequestInv, CountsInv
<1>1. rfailures[d] \in Nat /\ rfailures' = [rfailures EXCEPT ![d] = rfailures[d]]
  BY <1>0 DEF RequestTypes
<1>2. d \in RequestEvents =>
         \/ rfailures[d] + (IF l = "feedback" THEN 1 ELSE 0) <= faults'
         \/ Covered(d)
  <2> SUFFICES ASSUME d \in RequestEvents, ~Covered(d)
               PROVE  rfailures[d] + (IF l = "feedback" THEN 1 ELSE 0) <= faults'
    OBVIOUS
  <2>1. Failed(d) <= faults
    BY <1>0 DEF ExcuseInv
  <2>2. Failed(d) >= rfailures[d] /\ Failed(d) \in Nat
    BY <1>1 DEF Failed
  <2> QED BY <1>0, <1>1, <2>1, <2>2
<1>3. l # "dropped" /\ l \in RStates \ {"idle"}
  OBVIOUS
<1> QED BY <1>1, <1>2, <1>3, OneRequestMoves

-----------------------------------------------------------------------------
(* The invariant *)

\* Every step of an invocation is one of these.
LEMMA RequestStepKeeps ==
    ASSUME IInv, CountsInv, RequestInv, NEW d \in RequestCalls, RequestStep(d),
           UNCHANGED csv, faults' \in Nat, faults' >= faults
    PROVE  RequestInv'
<1> USE RequestFacts
<1>0. RequestTypes /\ UploadInv /\ AttemptInv
  BY DEF RequestInv
<1>1. /\ d[1] \in Buckets /\ asked[d[1]] \in Nat /\ began[d] \in Nat
      /\ answered[d[1]] \in Nat /\ began[d] <= asked[d[1]]
      /\ rpc[d] # "idle" /\ d \in RequestEvents => d[2] <= asked[d[1]]
      /\ rpc[d] \in Past /\ d \in RequestEvents => d[2] <= began[d]
      /\ rpc[d] = "delete" => began[d] <= answered[d[1]]
      /\ csv[d[1]][LATEST] = None => rpc[d] \notin Past
      /\ began = [began EXCEPT ![d] = began[d]]
      /\ rpc = [rpc EXCEPT ![d] = rpc[d]]
  BY <1>0 DEF RequestTypes, AttemptInv
<1>2. /\ answered \in [Buckets -> Nat]
      /\ \A b \in Buckets : answered[b] <= answered[b] /\ answered[b] <= asked[b]
  <2>1. \A b \in Buckets : answered[b] \in Nat /\ answered[b] <= asked[b]
    BY <1>0 DEF RequestTypes, UploadInv
  <2> QED BY <1>0, <2>1 DEF RequestTypes
<1>3. CASE StartRequest(d)
  <2>1. /\ d \in RequestEvents => d[2] <= asked[d[1]]
        /\ rpc' = [rpc EXCEPT ![d] = "look"]
        /\ UNCHANGED <<asked, trigger, answered, rfailures, began>>
    BY <1>3 DEF StartRequest, RGoto, requestStores
  <2> QED BY <1>1, <1>2, <2>1, AttemptGoesOn DEF RStates, Past, Performing
<1>4. CASE LookForReport(d)
  <2>1. /\ rpc[d] = "look" /\ began' = [began EXCEPT ![d] = asked[d[1]]]
        /\ UNCHANGED <<faults, asked, trigger, answered>>
    BY <1>4 DEF LookForReport, boundVars, requestStores
  <2>2. PICK e \in Nat : e = asked[d[1]]
    BY <1>1
  <2>3. began' = [began EXCEPT ![d] = e] /\ e <= asked[d[1]]
    BY <1>1, <2>1, <2>2
  <2>4. CASE csv[d[1]][LATEST] = None /\ RReturnErr(d)
    BY <1>1, <2>1, <2>3, <2>4, AttemptFails
  <2>5. CASE csv[d[1]][LATEST] # None /\ RGoto(d, "download") /\ UNCHANGED rfailures
    <3>1. rpc' = [rpc EXCEPT ![d] = "download"]
      BY <2>5 DEF RGoto
    <3> QED BY <1>1, <1>2, <2>1, <2>2, <2>3, <2>5, <3>1, AttemptGoesOn
            DEF RStates, Past, Performing
  <2> QED BY <1>4, <2>4, <2>5 DEF LookForReport
<1>5. CASE \/ DownloadReport(d) \/ PutAnswer(d) \/ \E o \in Objects : HeadRow(d, o)
  <2>1. /\ rpc[d] \in Performing
        /\ rpc' = [rpc EXCEPT ![d] = "rows"] \/ rpc' = [rpc EXCEPT ![d] = "copy"]
        /\ UNCHANGED <<asked, trigger, answered, rfailures, began>>
    BY <1>1, <1>5 DEF DownloadReport, PutAnswer, HeadRow, RGoto, requestStores, Performing
  <2>2. PICK l \in {"rows", "copy"} : rpc' = [rpc EXCEPT ![d] = l]
    BY <2>1
  <2>3. /\ l \in RStates \ {"idle", "dropped"} /\ l # "feedback"
        /\ l \notin {"delete", "ok"} /\ rpc[d] \in Past /\ rpc[d] # "idle"
    BY <2>1 DEF RStates, Past, Performing
  <2> QED BY <1>1, <1>2, <2>1, <2>2, <2>3, AttemptGoesOn
<1>6. CASE CopyAnswer(d)
  <2>1. /\ rpc[d] = "copy"
        /\ answered' = [answered EXCEPT ![d[1]] = IF began[d] > answered[d[1]]
                                                  THEN began[d] ELSE answered[d[1]]]
        /\ rpc' = [rpc EXCEPT ![d] = IF d \in RequestEvents THEN "delete" ELSE "ok"]
        /\ UNCHANGED <<asked, trigger, rfailures, began>>
    BY <1>6 DEF CopyAnswer, RGoto
  <2>2. PICK l \in {"delete", "ok"} :
           rpc' = [rpc EXCEPT ![d] = l]
    BY <2>1
  <2>3. \A b \in Buckets : /\ answered[b] \in Nat /\ asked[b] \in Nat
                           /\ answered'[b] = IF b = d[1] /\ began[d] > answered[b]
                                             THEN began[d] ELSE answered[b]
    BY <1>0, <1>1, <2>1 DEF RequestTypes
  <2>4. /\ answered' \in [Buckets -> Nat]
        /\ \A b \in Buckets : answered[b] <= answered'[b] /\ answered'[b] <= asked[b]
        /\ began[d] <= answered'[d[1]]
    BY <1>1, <1>2, <2>1, <2>3
  <2>5. /\ l \in RStates \ {"idle", "dropped"} /\ l # "feedback" /\ rpc[d] \in Past
        /\ rpc[d] # "idle"
    BY <2>1 DEF RStates, Past, Performing
  <2>6. PICK e \in Nat : e = began[d]
    BY <1>1
  <2>7. /\ began' = [began EXCEPT ![d] = e] /\ e <= asked[d[1]]
        /\ d \in RequestEvents => d[2] <= asked[d[1]] /\ d[2] <= e
        /\ e <= answered'[d[1]] /\ csv[d[1]][LATEST] # None
        /\ e = began[d]
    BY <1>1, <2>1, <2>4, <2>5, <2>6
  <2>8. /\ UNCHANGED <<asked, csv, rfailures>>
        /\ \A b \in trigger : b \in trigger' \/ (b = d[1] /\ rpc[d] = "delete")
    BY <2>1
  <2>9. /\ l \in Past => e = asked[d[1]] \/ (e = began[d] /\ rpc[d] \in Past)
        /\ csv[d[1]][LATEST] = None => l \notin Past
        /\ l = "feedback" => faults' = faults + 1
        /\ l \in {"delete", "ok"} => e <= answered'[d[1]]
    BY <2>5, <2>7
  <2> QED BY <2>2, <2>4, <2>5, <2>7, <2>8, <2>9, AttemptGoesOn
<1>7. CASE DeleteTrigger(d)
  <2>1. /\ rpc[d] = "delete" /\ rpc' = [rpc EXCEPT ![d] = "ok"]
        /\ \A b \in trigger : b \in trigger' \/ b = d[1]
        /\ UNCHANGED <<asked, answered, rfailures, began>>
    BY <1>7 DEF DeleteTrigger, RGoto
  <2> QED BY <1>1, <1>2, <2>1, AttemptGoesOn DEF RStates, Past, Performing
<1>8. CASE RequestFails(d)
  <2>1. /\ faults' = faults + 1 /\ rpc[d] # "idle"
        /\ UNCHANGED <<asked, trigger, answered, began>>
    BY <1>8 DEF RequestFails, Fault, requestStores, Performing
  <2>2. CASE RReturnErr(d)
    BY <1>1, <2>1, <2>2, AttemptFails
  <2>3. CASE rpc[d] \in Performing /\ RGoto(d, "feedback") /\ UNCHANGED rfailures
    <3>1. rpc' = [rpc EXCEPT ![d] = "feedback"] /\ rpc[d] \in Past
      BY <2>3 DEF RGoto, Past
    <3> QED BY <1>1, <1>2, <2>1, <2>3, <3>1, AttemptGoesOn DEF RStates, Past
  <2> QED BY <1>8, <2>2, <2>3 DEF RequestFails
<1>9. CASE PutRequestFeedback(d)
  <2>1. /\ rpc[d] = "feedback" /\ RReturnErr(d)
        /\ UNCHANGED <<asked, trigger, answered, began>>
    BY <1>9 DEF PutRequestFeedback
  <2> QED BY <1>1, <2>1, AttemptFails
<1> QED BY <1>3, <1>4, <1>5, <1>6, <1>7, <1>8, <1>9 DEF RequestStep

\* Every step of the stack keeps it.
LEMMA RequestInvStep == IInv /\ CountsInv /\ RequestInv /\ [Next]_allVars => RequestInv'
<1> SUFFICES ASSUME IInv, CountsInv, RequestInv, [Next]_allVars PROVE RequestInv'
  OBVIOUS
<1>1. faults' \in Nat /\ faults' >= faults
  BY FaultsGrow DEF CountsInv
<1>2. CASE RequestNext
  <2>1. UNCHANGED csv
    BY <1>2 DEF RequestNext, storeVars
  <2> QED BY <1>1, <1>2, <2>1, UploadStep, RequestStepKeeps DEF RequestNext
<1>3. CASE UNCHANGED requestVars
  BY <1>3, RequestsRest
<1> QED BY <1>2, <1>3 DEF Next, allVars

\* So it holds in every reachable state.
LEMMA RequestInvariance == Spec => []RequestInv
BY RequestInvInit, RequestInvStep, Invariance, ReportedInvariance, PTL
   DEF Spec, ReportedInv

\* With fewer failing calls than an invocation has attempts, no upload is lost:
\* at rest its trigger is still there, or a list was made from beginning to end
\* after the last upload, in whatever order invocations delete triggers.
THEOREM RequestsAreAnswered == Spec => []ChecksumRequestsAreAnswered
<1>1. RequestInv /\ CountsInv => ChecksumRequestsAreAnswered
  <2> SUFFICES ASSUME RequestInv, CountsInv, NEW b \in Buckets, RequestAtRest(b),
                      faults < MaxAttempts
               PROVE  b \in trigger \/ answered[b] = asked[b]
    BY DEF ChecksumRequestsAreAnswered
  <2> USE RequestFacts
  <2>0. /\ asked[b] \in Nat /\ answered[b] \in Nat /\ answered[b] <= asked[b]
        /\ asked[b] = 0 \/ <<b, asked[b], 1>> \in RequestEvents
    BY DEF RequestInv, RequestTypes, UploadInv
  <2>1. CASE asked[b] = 0
    BY <2>0, <2>1
  <2>2. CASE asked[b] # 0
    <3>1. PICK c \in RequestEvents : c = <<b, asked[b], 1>>
      BY <2>0, <2>2
    <3>2. c \in RequestCalls /\ c[1] = b /\ c[2] = asked[b] /\ c[3] = 1
      BY <3>1
    <3>3. rpc[c] \in {"ok", "dropped"}
      BY <2>0, <2>2, <3>2 DEF RequestAtRest
    <3>4. CASE rpc[c] = "ok"
      <4>1. began[c] <= answered[b] /\ asked[b] <= began[c] /\ began[c] \in Nat
        BY <3>2, <3>4 DEF RequestInv, RequestTypes, AttemptInv
      <4> QED BY <2>0, <4>1
    <3>5. CASE rpc[c] = "dropped"
      <4>1. /\ Failed(c) = rfailures[c] /\ rfailures[c] \in Nat
            /\ rfailures[c] >= MaxAttempts
        BY <3>2, <3>5 DEF Failed, RequestInv, RequestTypes, AttemptInv
      <4>2. Failed(c) <= faults \/ Covered(c)
        BY DEF RequestInv, ExcuseInv
      <4>3. faults \in Nat
        BY DEF CountsInv
      <4>4. Covered(c)
        BY <4>1, <4>2, <4>3
      <4> QED BY <2>0, <3>2, <4>4 DEF Covered
    <3> QED BY <3>3, <3>4, <3>5
  <2> QED BY <2>1, <2>2
<1> QED BY <1>1, RequestInvariance, ReportedInvariance, PTL DEF ReportedInv

-----------------------------------------------------------------------------
(* Published lists are true *)

Statuses == {"ok", "missing_checksum", "not_found", "error"}

\* One row at most for each object, and none that accuses it.
RowsAreTrue(b, s) ==
    /\ s \subseteq Objects \X Statuses
    /\ \A x, y \in s : x[1] = y[1] => x = y
    /\ \A x \in s :
          /\ x[2] = "not_found" => <<b, x[1]>> \in gone
          /\ x[2] = "missing_checksum" => x[1] \in Unsummed
          /\ x[2] = "error" => faults > 0 \/ <<b, x[1]>> \in gone

ListTypes ==
    /\ rtarget \in [RequestCalls -> Slots]
    /\ DOMAIN rows = RequestCalls /\ DOMAIN source = RequestCalls
    /\ DOMAIN answers = Buckets /\ \A b \in Buckets : DOMAIN answers[b] = Slots
    /\ listing \in [Inventories -> SUBSET Objects]

\* Reports stand for inventories that were made.
PublishedInv ==
    \A b \in Buckets, s \in Slots : csv[b][s] # None => csv[b][s] \in made

\* The rows of an invocation are about the inventory it has downloaded.
ListInv ==
    \A c \in RequestCalls :
        /\ RowsAreTrue(c[1], rows[c])
        /\ rpc[c] \in {"idle", "look", "download"} => rows[c] = {}
        /\ rpc[c] = "rows" =>
              /\ source[c] \in made
              /\ \A x \in rows[c] : x[1] \in RowsOf(listing[source[c]])

AnswersInv ==
    \A b \in Buckets, s \in Slots :
        answers[b][s] # None =>
            /\ answers[b][s].of \in made
            /\ RowsAreTrue(b, answers[b][s].rows)
            /\ {x[1] : x \in answers[b][s].rows} = RowsOf(listing[answers[b][s].of])

TrueInv == ListTypes /\ PublishedInv /\ ListInv /\ AnswersInv

\* An inventory that was made never changes, and nobody undeletes or unfails.
LEMMA InventoriesStay ==
    ASSUME IInv, CountsInv, listing \in [Inventories -> SUBSET Objects], [Next]_allVars
    PROVE  /\ made \subseteq made' /\ made' \subseteq Inventories
           /\ gone \subseteq gone'
           /\ listing' \in [Inventories -> SUBSET Objects]
           /\ \A m \in made : listing'[m] = listing[m]
           /\ faults \in Nat /\ faults' \in Nat /\ faults' >= faults
<1>0. faults \in Nat /\ faults' \in Nat /\ faults' >= faults
  BY FaultsGrow DEF CountsInv
<1>1. made \subseteq Inventories
  BY DEF IInv, CallTypes
<1>2. CASE \E b \in Buckets : GenerateInventory(b)
  <2>1. PICK b \in Buckets : GenerateInventory(b)
    BY <1>2
  <2>2. PICK m \in Inventories \ made :
           /\ made' = made \cup {m} /\ gone' = gone
           /\ listing' = [listing EXCEPT ![m] = {o \in Objects : <<b, o>> \notin gone}]
    BY <2>1 DEF GenerateInventory
  <2> QED BY <1>0, <1>1, <2>2
<1>3. CASE \E b \in Buckets, o \in Objects : DeleteObject(b, o)
  BY <1>0, <1>1, <1>3 DEF DeleteObject
<1>4. CASE UNCHANGED <<gone, made, listing>>
  BY <1>0, <1>1, <1>4
<1>5. \/ \E b \in Buckets : GenerateInventory(b)
      \/ \E b \in Buckets, o \in Objects : DeleteObject(b, o)
      \/ UNCHANGED <<gone, made, listing>>
  <2>1. CASE InventoryNext
    BY <2>1 DEF InventoryNext, MidnightPasses, Deliver, StartCli, CallStep, CallFails,
       FindToday, FindYesterday, FindManifest, ReadNothing, PutCsv, CopyCsvToLatest,
       PutStats, CopyStatsToLatest, Return, s3Vars
  <2>2. CASE RequestNext \/ StorageNext \/ UNCHANGED allVars
    BY <2>2 DEF RequestNext, StorageNext, allVars, inventoryVars, s3Vars
  <2> QED BY <2>1, <2>2 DEF Next
<1> QED BY <1>2, <1>3, <1>4, <1>5

\* A report stands for an inventory that was made, after every step.
LEMMA ReportsStayPublished ==
    ASSUME IInv, CountsInv, TrueInv, [Next]_allVars PROVE PublishedInv'
<1> USE ConstantFacts
<1>0. CallTypes /\ WorkInv /\ TargetInv /\ PublishedInv
  BY DEF IInv, TrueInv
<1>1. made \subseteq made'
  BY InventoriesStay DEF TrueInv, ListTypes
<1>2. ASSUME NEW h \in Calls, PutCsv(h) PROVE PublishedInv'
  <2>1. /\ work[h] \in made /\ BucketOf(h) \in Buckets /\ day \in Slots
        /\ csv' = [csv EXCEPT ![BucketOf(h)][day] = work[h]]
    BY <1>0, <1>2 DEF PutCsv, PutDated, WorkInv, HasManifest, CallTypes
  <2>2. \A b \in Buckets, s \in Slots :
           csv'[b][s] = IF b = BucketOf(h) /\ s = day THEN work[h] ELSE csv[b][s]
    BY <1>0, <2>1 DEF CallTypes
  <2> QED BY <1>0, <1>1, <2>1, <2>2 DEF PublishedInv
<1>3. ASSUME NEW h \in Calls, CopyCsvToLatest(h) PROVE PublishedInv'
  <2>1. /\ BucketOf(h) \in Buckets /\ target[h] \in Slots
        /\ csv' = [csv EXCEPT ![BucketOf(h)][LATEST] = csv[BucketOf(h)][target[h]]]
    BY <1>0, <1>3 DEF CopyCsvToLatest, CopyToLatest, CallTypes
  <2>2. \A b \in Buckets, s \in Slots :
           csv'[b][s] = IF b = BucketOf(h) /\ s = LATEST
                        THEN csv[BucketOf(h)][target[h]] ELSE csv[b][s]
    BY <1>0, <2>1 DEF CallTypes
  <2> QED BY <1>0, <1>1, <2>1, <2>2 DEF PublishedInv
<1>4. CASE UNCHANGED csv
  BY <1>0, <1>1, <1>4 DEF PublishedInv
<1>5. ASSUME MidnightPasses \/ \E b \in Buckets : GenerateInventory(b)
      PROVE  UNCHANGED csv
  BY <1>5 DEF MidnightPasses, GenerateInventory, storeVars
<1> QED BY <1>2, <1>3, <1>4, <1>5, CsvSteps

\* Published lists stay true as long as nobody writes one.
LEMMA AnswersRest ==
    ASSUME IInv, CountsInv, TrueInv, [Next]_allVars, UNCHANGED answers
    PROVE  AnswersInv'
<1>1. /\ made \subseteq made' /\ gone \subseteq gone'
      /\ \A m \in made : listing'[m] = listing[m]
      /\ faults > 0 => faults' > 0
  BY InventoriesStay DEF TrueInv, ListTypes
<1> SUFFICES ASSUME NEW b \in Buckets, NEW s \in Slots, answers[b][s] # None
             PROVE  /\ answers[b][s].of \in made'
                    /\ RowsAreTrue(b, answers[b][s].rows)'
                    /\ {x[1] : x \in answers[b][s].rows}
                          = RowsOf(listing'[answers[b][s].of])
  BY DEF AnswersInv, RowsAreTrue, RowsOf
<1>2. PICK a : a = answers[b][s]
  OBVIOUS
<1>3. /\ a.of \in made /\ RowsAreTrue(b, a.rows)
      /\ {x[1] : x \in a.rows} = RowsOf(listing[a.of])
  BY <1>2 DEF TrueInv, AnswersInv
<1>4. RowsAreTrue(b, a.rows)'
  BY <1>1, <1>3 DEF RowsAreTrue
<1>5. RowsAreTrue(b, answers[b][s].rows)'
  BY <1>2, <1>4 DEF RowsAreTrue
<1>6. listing'[a.of] = listing[a.of] /\ a.of \in made'
  BY <1>1, <1>3
<1> QED BY <1>2, <1>3, <1>5, <1>6

\* An invocation that does not move keeps its rows true.
LEMMA ListRests ==
    ASSUME IInv, CountsInv, TrueInv, [Next]_allVars, NEW c \in RequestCalls,
           rpc'[c] = rpc[c], rows'[c] = rows[c], source'[c] = source[c]
    PROVE  /\ RowsAreTrue(c[1], rows[c])'
           /\ rpc'[c] \in {"idle", "look", "download"} => rows'[c] = {}
           /\ rpc'[c] = "rows" =>
                 /\ source'[c] \in made'
                 /\ \A x \in rows'[c] : x[1] \in RowsOf(listing'[source'[c]])
<1>1. /\ made \subseteq made' /\ gone \subseteq gone'
      /\ \A m \in made : listing'[m] = listing[m]
      /\ faults > 0 => faults' > 0
  BY InventoriesStay DEF TrueInv, ListTypes
<1>2. /\ RowsAreTrue(c[1], rows[c])
      /\ rpc[c] \in {"idle", "look", "download"} => rows[c] = {}
      /\ rpc[c] = "rows" =>
            /\ source[c] \in made
            /\ \A x \in rows[c] : x[1] \in RowsOf(listing[source[c]])
  BY DEF TrueInv, ListInv
<1>3. RowsAreTrue(c[1], rows[c])'
  BY <1>1, <1>2 DEF RowsAreTrue
<1>4. rpc'[c] = "rows" =>
         source'[c] \in made' /\ listing'[source'[c]] = listing[source[c]]
  BY <1>1, <1>2
<1> QED BY <1>2, <1>3, <1>4

\* An invocation moves, and has what ListInv says of it.
LEMMA OneListMoves ==
    ASSUME IInv, CountsInv, TrueInv, [Next]_allVars, NEW d \in RequestCalls,
           \A c \in RequestCalls : c # d =>
              rpc'[c] = rpc[c] /\ rows'[c] = rows[c] /\ source'[c] = source[c],
           RowsAreTrue(d[1], rows[d])',
           rpc'[d] \in {"idle", "look", "download"} => rows'[d] = {},
           rpc'[d] = "rows" =>
              /\ source'[d] \in made'
              /\ \A x \in rows'[d] : x[1] \in RowsOf(listing'[source'[d]])
    PROVE  ListInv'
<1>1. ASSUME NEW c \in RequestCalls
      PROVE  /\ RowsAreTrue(c[1], rows[c])'
             /\ rpc'[c] \in {"idle", "look", "download"} => rows'[c] = {}
             /\ rpc'[c] = "rows" =>
                   /\ source'[c] \in made'
                   /\ \A x \in rows'[c] : x[1] \in RowsOf(listing'[source'[c]])
  <2>1. CASE c = d
    BY <2>1
  <2>2. CASE c # d
    BY <2>2, ListRests
  <2> QED BY <2>1, <2>2
<1> QED BY <1>1 DEF ListInv, RowsOf

\* Rows that were true are, when none is added.
LEMMA OldRowsAreTrue ==
    ASSUME IInv, CountsInv, TrueInv, [Next]_allVars, NEW d \in RequestCalls,
           rows'[d] \subseteq rows[d]
    PROVE  RowsAreTrue(d[1], rows[d])'
<1>1. gone \subseteq gone' /\ (faults > 0 => faults' > 0)
  BY InventoriesStay DEF TrueInv, ListTypes
<1>2. RowsAreTrue(d[1], rows[d])
  BY DEF TrueInv, ListInv
<1> QED BY <1>1, <1>2 DEF RowsAreTrue

\* A HEAD adds one row, for an object without one.
LEMMA HeadStep ==
    ASSUME IInv, CountsInv, RequestInv, TrueInv, [Next]_allVars, NEW d \in RequestCalls,
           NEW o \in Objects, HeadRow(d, o), UNCHANGED <<gone, made, listing>>
    PROVE  ListInv' /\ DOMAIN rows' = RequestCalls
<1>0. /\ DOMAIN rows = RequestCalls /\ faults \in Nat
      /\ rpc[d] = "rows" /\ o \in Unread(d)
      /\ UNCHANGED <<rpc, source>>
  BY DEF TrueInv, ListTypes, CountsInv, HeadRow
<1>1. /\ RowsAreTrue(d[1], rows[d]) /\ source[d] \in made
      /\ \A x \in rows[d] : x[1] \in RowsOf(listing[source[d]])
  BY <1>0 DEF TrueInv, ListInv
<1>2. o \in RowsOf(listing[source[d]]) /\ \A x \in rows[d] : x[1] # o
  BY <1>0 DEF Unread
<1>3. PICK t \in Statuses :
         /\ rows' = [rows EXCEPT ![d] = rows[d] \cup {<<o, t>>}]
         /\ t = "not_found" => <<d[1], o>> \in gone
         /\ t = "missing_checksum" => o \in Unsummed
         /\ t = "error" => faults' > 0 \/ <<d[1], o>> \in gone
  <2>1. PICK fails \in BOOLEAN, t \in Statuses :
           /\ IF fails THEN Fault ELSE UNCHANGED faults
           /\ t \in StatusesOf(d[1], o, fails)
           /\ rows' = [rows EXCEPT ![d] = rows[d] \cup {<<o, t>>}]
    BY DEF HeadRow, Statuses
  <2>2. /\ t = "not_found" => <<d[1], o>> \in gone
        /\ t = "missing_checksum" => o \in Unsummed
        /\ t = "error" => fails \/ <<d[1], o>> \in gone
    <3>1. CASE fails
      <4>1. t \in {"error"}
        BY <2>1, <3>1 DEF StatusesOf
      <4> QED BY <3>1, <4>1
    <3>2. CASE ~fails /\ <<d[1], o>> \in gone
      <4>1. t \in {"not_found", "error"}
        BY <2>1, <3>2 DEF StatusesOf
      <4> QED BY <3>2, <4>1
    <3>3. CASE ~fails /\ <<d[1], o>> \notin gone
      <4>1. (t \in {"missing_checksum"} /\ o \in Unsummed) \/ t \in {"ok"}
        BY <2>1, <3>3 DEF StatusesOf
      <4> QED BY <4>1
    <3> QED BY <3>1, <3>2, <3>3
  <2>3. fails => faults' > 0
    BY <1>0, <2>1 DEF Fault
  <2> QED BY <2>1, <2>2, <2>3
<1>4. /\ rows'[d] = rows[d] \cup {<<o, t>>} /\ <<o, t>>[1] = o /\ <<o, t>>[2] = t
      /\ \A c \in RequestCalls : c # d => rows'[c] = rows[c]
      /\ DOMAIN rows' = RequestCalls
  BY <1>0, <1>3
<1>5. RowsAreTrue(d[1], rows[d])'
  <2>1. rows'[d] \subseteq Objects \X Statuses
    BY <1>1, <1>4 DEF RowsAreTrue
  <2>2. \A x, y \in rows'[d] : x[1] = y[1] => x = y
    BY <1>1, <1>2, <1>4 DEF RowsAreTrue
  <2>3. ASSUME NEW x \in rows'[d]
        PROVE  /\ x[2] = "not_found" => <<d[1], x[1]>> \in gone
               /\ x[2] = "missing_checksum" => x[1] \in Unsummed
               /\ x[2] = "error" => faults' > 0 \/ <<d[1], x[1]>> \in gone
    <3>1. CASE x \in rows[d]
      <4>1. faults > 0 => faults' > 0
        BY InventoriesStay DEF TrueInv, ListTypes
      <4>2. /\ x[2] = "not_found" => <<d[1], x[1]>> \in gone
            /\ x[2] = "missing_checksum" => x[1] \in Unsummed
            /\ x[2] = "error" => faults > 0 \/ <<d[1], x[1]>> \in gone
        BY <1>1, <3>1 DEF RowsAreTrue
      <4> QED BY <4>1, <4>2
    <3>2. CASE x = <<o, t>>
      BY <1>3, <1>4, <3>2
    <3> QED BY <1>4, <3>1, <3>2
  <2> QED BY <2>1, <2>2, <2>3 DEF RowsAreTrue
<1>6. \A x \in rows'[d] : x[1] \in RowsOf(listing[source[d]])
  BY <1>1, <1>2, <1>4
<1> QED BY <1>0, <1>1, <1>4, <1>5, <1>6, OneListMoves

\* A complete list is put under its date.
LEMMA PutAnswerStep ==
    ASSUME IInv, CountsInv, RequestInv, TrueInv, [Next]_allVars, NEW d \in RequestCalls,
           PutAnswer(d), UNCHANGED <<gone, made, listing>>
    PROVE  AnswersInv' /\ DOMAIN answers' = Buckets /\
           \A b \in Buckets : DOMAIN answers'[b] = Slots
<1> USE RequestFacts
<1> DEFINE a == [of |-> source[d], rows |-> rows[d]]
<1>0. /\ ListTypes /\ AnswersInv /\ day \in Slots
      /\ rpc[d] = "rows" /\ Unread(d) = {} /\ UNCHANGED faults
      /\ answers' = [answers EXCEPT ![d[1]][day] = a]
  BY ConstantFacts DEF TrueInv, PutAnswer, IInv, CallTypes, boundVars
<1>1. /\ RowsAreTrue(d[1], rows[d]) /\ source[d] \in made
      /\ \A x \in rows[d] : x[1] \in RowsOf(listing[source[d]])
  BY <1>0 DEF TrueInv, ListInv
<1>2. {x[1] : x \in rows[d]} = RowsOf(listing[source[d]])
  BY <1>0, <1>1 DEF Unread
<1>3. /\ DOMAIN answers' = Buckets /\ \A b \in Buckets : DOMAIN answers'[b] = Slots
      /\ \A b \in Buckets, s \in Slots :
            answers'[b][s] = IF b = d[1] /\ s = day THEN a ELSE answers[b][s]
  BY <1>0 DEF ListTypes
<1>4. AnswersInv'
  <2> SUFFICES ASSUME NEW b \in Buckets, NEW s \in Slots, answers'[b][s] # None
               PROVE  /\ answers'[b][s].of \in made
                      /\ RowsAreTrue(b, answers[b][s].rows)'
                      /\ {x[1] : x \in answers'[b][s].rows}
                            = RowsOf(listing[answers'[b][s].of])
    BY DEF AnswersInv, RowsAreTrue, RowsOf
  <2>1. CASE b = d[1] /\ s = day
    <3>1. answers'[b][s].of = source[d] /\ answers'[b][s].rows = rows[d]
      BY <1>3, <2>1
    <3>2. RowsAreTrue(b, answers[b][s].rows)'
      BY <1>0, <1>1, <2>1, <3>1 DEF RowsAreTrue
    <3> QED BY <1>1, <1>2, <3>1, <3>2
  <2>2. CASE ~(b = d[1] /\ s = day)
    <3>1. answers'[b][s] = answers[b][s]
      BY <1>3, <2>2
    <3>2. RowsAreTrue(b, answers[b][s].rows)'
      BY <1>0, <3>1 DEF RowsAreTrue, AnswersInv
    <3> QED BY <1>0, <3>1, <3>2 DEF AnswersInv
  <2> QED BY <2>1, <2>2
<1> QED BY <1>3, <1>4

\* The copy to LATEST publishes nothing else.
LEMMA CopyAnswerStep ==
    ASSUME IInv, CountsInv, RequestInv, TrueInv, [Next]_allVars, NEW d \in RequestCalls,
           CopyAnswer(d), UNCHANGED <<gone, made, listing>>
    PROVE  AnswersInv' /\ DOMAIN answers' = Buckets /\
           \A b \in Buckets : DOMAIN answers'[b] = Slots
<1> USE RequestFacts
<1>0. /\ ListTypes /\ AnswersInv /\ LATEST \in Slots
      /\ UNCHANGED faults
      /\ answers' = [answers EXCEPT ![d[1]][LATEST] = answers[d[1]][rtarget[d]]]
  BY ConstantFacts DEF TrueInv, CopyAnswer, boundVars
<1>1. /\ DOMAIN answers' = Buckets /\ \A b \in Buckets : DOMAIN answers'[b] = Slots
      /\ rtarget[d] \in Slots
      /\ \A b \in Buckets, s \in Slots :
            answers'[b][s] = IF b = d[1] /\ s = LATEST
                             THEN answers[b][rtarget[d]] ELSE answers[b][s]
  BY <1>0 DEF ListTypes
<1>2. AnswersInv'
  <2> SUFFICES ASSUME NEW b \in Buckets, NEW s \in Slots, answers'[b][s] # None
               PROVE  /\ answers'[b][s].of \in made
                      /\ RowsAreTrue(b, answers[b][s].rows)'
                      /\ {x[1] : x \in answers'[b][s].rows}
                            = RowsOf(listing[answers'[b][s].of])
    BY DEF AnswersInv, RowsAreTrue, RowsOf
  <2>1. PICK r \in Slots : answers'[b][s] = answers[b][r]
    BY <1>1
  <2>2. RowsAreTrue(b, answers[b][s].rows)'
    BY <1>0, <2>1 DEF RowsAreTrue, AnswersInv
  <2> QED BY <1>0, <2>1, <2>2 DEF AnswersInv
<1> QED BY <1>1, <1>2

-----------------------------------------------------------------------------
(* The invariant of published lists *)

\* Before the first list, there is nothing to be true.
LEMMA TrueInvInit == Init => TrueInv
<1> SUFFICES ASSUME Init PROVE TrueInv
  OBVIOUS
<1> USE DEF Init, InventoryInit, RequestInit
<1>1. ListTypes
  BY ConstantFacts DEF ListTypes
<1>2. PublishedInv
  BY DEF PublishedInv
<1>3. ListInv
  BY DEF ListInv, RowsAreTrue
<1>4. AnswersInv
  BY DEF AnswersInv
<1> QED BY <1>1, <1>2, <1>3, <1>4 DEF TrueInv

\* The steps of an invocation keep it.
LEMMA TrueRequestStep ==
    ASSUME IInv, CountsInv, RequestInv, TrueInv, [Next]_allVars, NEW d \in RequestCalls,
           RequestStep(d), UNCHANGED <<gone, made, listing, csv>>, day \in Days
    PROVE  TrueInv'
<1> USE RequestFacts
<1>0. /\ ListTypes /\ ListInv /\ DOMAIN rpc = RequestCalls /\ PublishedInv'
      /\ listing' \in [Inventories -> SUBSET Objects]
  BY ReportsStayPublished DEF TrueInv, RequestInv, RequestTypes, ListTypes
\* An attempt ends, or begins again, with no rows.
<1>1. ASSUME NEW l \in {"look", "dropped", "delete", "ok"}, rpc' = [rpc EXCEPT ![d] = l],
             source' = [source EXCEPT ![d] = None], rows' = [rows EXCEPT ![d] = {}],
             rtarget' = [rtarget EXCEPT ![d] = LATEST]
      PROVE  ListInv' /\ (AnswersInv' /\ DOMAIN answers' = Buckets /\
                          (\A b \in Buckets : DOMAIN answers'[b] = Slots) => TrueInv')
  <2>1. /\ \A c \in RequestCalls : c # d =>
              rpc'[c] = rpc[c] /\ rows'[c] = rows[c] /\ source'[c] = source[c]
        /\ rpc'[d] = l /\ rows'[d] = {}
        /\ DOMAIN rows' = RequestCalls /\ DOMAIN source' = RequestCalls
        /\ rtarget' \in [RequestCalls -> Slots]
    BY <1>0, <1>1, ConstantFacts DEF ListTypes
  <2>2. RowsAreTrue(d[1], rows[d])'
    BY <2>1, OldRowsAreTrue
  <2>3. ListInv'
    BY <2>1, <2>2, OneListMoves
  <2> QED BY <1>0, <2>1, <2>3 DEF TrueInv, ListTypes
\* An attempt moves on with its rows.
<1>2. ASSUME NEW l \in RStates \ {"rows"}, rpc' = [rpc EXCEPT ![d] = l],
             l \in {"idle", "look", "download"} => rows[d] = {},
             UNCHANGED <<source, rows, answers>>, rtarget' \in [RequestCalls -> Slots]
      PROVE  TrueInv'
  <2>1. /\ \A c \in RequestCalls : c # d =>
              rpc'[c] = rpc[c] /\ rows'[c] = rows[c] /\ source'[c] = source[c]
        /\ rpc'[d] = l /\ rows'[d] = rows[d]
    BY <1>0, <1>2
  <2>2. RowsAreTrue(d[1], rows[d])'
    BY <2>1, OldRowsAreTrue
  <2>3. ListInv'
    BY <1>2, <2>1, <2>2, OneListMoves
  <2>4. AnswersInv'
    BY <1>2, AnswersRest
  <2> QED BY <1>0, <1>2, <2>3, <2>4 DEF TrueInv, ListTypes
<1>3. rpc[d] \in {"idle", "look", "download"} => rows[d] = {}
  BY <1>0 DEF ListInv
<1>4. CASE RReturnErr(d) /\ UNCHANGED answers
  <2>1. PICK l \in {"look", "dropped"} : rpc' = [rpc EXCEPT ![d] = l]
    BY <1>4 DEF RReturnErr, RGoto
  <2>2. AnswersInv' /\ DOMAIN answers' = Buckets
        /\ \A b \in Buckets : DOMAIN answers'[b] = Slots
    BY <1>0, <1>4, AnswersRest DEF ListTypes
  <2> QED BY <1>1, <1>4, <2>1, <2>2 DEF RReturnErr
<1>5. CASE StartRequest(d)
  <2>1. /\ rpc[d] = "idle" /\ rpc' = [rpc EXCEPT ![d] = "look"]
        /\ UNCHANGED <<source, rows, answers, rtarget>>
    BY <1>5 DEF StartRequest, RGoto, requestStores
  <2> QED BY <1>0, <1>2, <1>3, <2>1 DEF RStates, ListTypes
<1>6. CASE LookForReport(d)
  <2>1. CASE RReturnErr(d)
    BY <1>4, <1>6, <2>1 DEF LookForReport, requestStores
  <2>2. CASE RGoto(d, "download") /\ UNCHANGED <<source, rows, rtarget>>
    <3>1. /\ rpc[d] = "look" /\ rpc' = [rpc EXCEPT ![d] = "download"] /\ UNCHANGED answers
      BY <1>6, <2>2 DEF LookForReport, RGoto, requestStores
    <3> QED BY <1>0, <1>2, <1>3, <2>2, <3>1 DEF RStates, Past, Performing, ListTypes
  <2> QED BY <1>6, <2>1, <2>2 DEF LookForReport
<1>7. CASE DownloadReport(d)
  <2>1. /\ rpc[d] = "download" /\ rpc' = [rpc EXCEPT ![d] = "rows"]
        /\ source' = [source EXCEPT ![d] = csv[d[1]][LATEST]]
        /\ UNCHANGED <<rows, answers, rtarget>>
    BY <1>7 DEF DownloadReport, RGoto, requestStores
  <2>2. csv[d[1]][LATEST] \in made
    <3>1. csv[d[1]][LATEST] # None
      BY <2>1 DEF RequestInv, AttemptInv, Past, Performing
    <3> QED BY <3>1, ConstantFacts DEF TrueInv, PublishedInv
  <2>3. /\ \A c \in RequestCalls : c # d =>
              rpc'[c] = rpc[c] /\ rows'[c] = rows[c] /\ source'[c] = source[c]
        /\ rpc'[d] = "rows" /\ rows'[d] = {} /\ source'[d] = csv[d[1]][LATEST]
        /\ DOMAIN source' = RequestCalls
    BY <1>0, <1>3, <2>1 DEF ListTypes
  <2>4. RowsAreTrue(d[1], rows[d])'
    BY <2>1, OldRowsAreTrue
  <2>5. ListInv'
    BY <2>2, <2>3, <2>4, OneListMoves
  <2>6. AnswersInv'
    BY <2>1, AnswersRest
  <2> QED BY <1>0, <2>1, <2>3, <2>5, <2>6 DEF TrueInv, ListTypes
<1>8. ASSUME NEW o \in Objects, HeadRow(d, o) PROVE TrueInv'
  <2>1. UNCHANGED <<source, answers, rtarget>>
    BY <1>8 DEF HeadRow, requestStores
  <2>2. ListInv' /\ DOMAIN rows' = RequestCalls
    BY <1>8, HeadStep
  <2>3. AnswersInv'
    BY <2>1, AnswersRest
  <2> QED BY <1>0, <2>1, <2>2, <2>3 DEF TrueInv, ListTypes
<1>9. CASE PutAnswer(d)
  <2>1. /\ rpc' = [rpc EXCEPT ![d] = "copy"] /\ rtarget' = [rtarget EXCEPT ![d] = day]
        /\ UNCHANGED <<source, rows>>
    BY <1>9 DEF PutAnswer, RGoto
  <2>2. /\ \A c \in RequestCalls : c # d =>
              rpc'[c] = rpc[c] /\ rows'[c] = rows[c] /\ source'[c] = source[c]
        /\ rpc'[d] = "copy" /\ rows'[d] = rows[d]
        /\ rtarget' \in [RequestCalls -> Slots]
    BY <1>0, <2>1, ConstantFacts DEF ListTypes
  <2>3. RowsAreTrue(d[1], rows[d])'
    BY <2>2, OldRowsAreTrue
  <2>4. ListInv'
    BY <2>2, <2>3, OneListMoves
  <2>5. AnswersInv' /\ DOMAIN answers' = Buckets
        /\ \A b \in Buckets : DOMAIN answers'[b] = Slots
    BY <1>9, PutAnswerStep
  <2> QED BY <1>0, <2>1, <2>2, <2>4, <2>5 DEF TrueInv, ListTypes
<1>10. CASE CopyAnswer(d)
  <2>1. PICK l \in {"delete", "ok"} : rpc' = [rpc EXCEPT ![d] = l]
    BY <1>10 DEF CopyAnswer, RGoto
  <2>2. AnswersInv' /\ DOMAIN answers' = Buckets
        /\ \A b \in Buckets : DOMAIN answers'[b] = Slots
    BY <1>10, CopyAnswerStep
  <2> QED BY <1>1, <1>10, <2>1, <2>2 DEF CopyAnswer
<1>11. CASE DeleteTrigger(d)
  <2>1. /\ rpc' = [rpc EXCEPT ![d] = "ok"] /\ UNCHANGED <<source, rows, answers, rtarget>>
    BY <1>11 DEF DeleteTrigger, RGoto
  <2> QED BY <1>0, <1>2, <2>1 DEF RStates, ListTypes
<1>12. CASE RequestFails(d)
  <2>1. CASE RReturnErr(d)
    BY <1>4, <1>12, <2>1 DEF RequestFails, requestStores
  <2>2. CASE RGoto(d, "feedback") /\ UNCHANGED <<source, rows, rtarget>>
    <3>1. rpc' = [rpc EXCEPT ![d] = "feedback"] /\ UNCHANGED answers
      BY <1>12, <2>2 DEF RequestFails, RGoto, requestStores
    <3> QED BY <1>0, <1>2, <2>2, <3>1 DEF RStates, Past, ListTypes
  <2> QED BY <1>12, <2>1, <2>2 DEF RequestFails
<1>13. CASE PutRequestFeedback(d)
  BY <1>4, <1>13 DEF PutRequestFeedback
<1> QED BY <1>5, <1>6, <1>7, <1>8, <1>9, <1>10, <1>11, <1>12, <1>13 DEF RequestStep

\* So do the steps of everybody else.
LEMMA TrueInvStep ==
    IInv /\ CountsInv /\ RequestInv /\ TrueInv /\ [Next]_allVars => TrueInv'
<1> SUFFICES ASSUME IInv, CountsInv, RequestInv, TrueInv, [Next]_allVars PROVE TrueInv'
  OBVIOUS
<1>1. CASE \E d \in RequestCalls : RequestNext /\ RequestStep(d)
  BY <1>1, TrueRequestStep DEF RequestNext, s3Vars, storeVars, IInv, CallTypes
<1>2. CASE UNCHANGED <<rpc, rows, source, answers, rtarget>>
  <2>1. PublishedInv' /\ listing' \in [Inventories -> SUBSET Objects]
    BY ReportsStayPublished, InventoriesStay DEF TrueInv, ListTypes
  <2>2. ListInv'
    BY <1>2, ListRests DEF ListInv, RowsOf
  <2>3. AnswersInv'
    BY <1>2, AnswersRest
  <2> QED BY <1>2, <2>1, <2>2, <2>3 DEF TrueInv, ListTypes
<1>3. CASE RequestNext
  BY <1>1, <1>2, <1>3 DEF RequestNext, UploadTrigger, requestCalls
<1>4. CASE UNCHANGED requestVars
  BY <1>2, <1>4 DEF requestVars, requestStores, requestCalls
<1> QED BY <1>3, <1>4 DEF Next, allVars

\* So it holds in every reachable state.
LEMMA TrueInvariance == Spec => []TrueInv
BY TrueInvInit, TrueInvStep, Invariance, ReportedInvariance, RequestInvariance, PTL
   DEF Spec, ReportedInv

\* As many rows as objects, when there is one for each and one at most.
LEMMA RowsAreCounted ==
    ASSUME NEW s, NEW objects, IsFiniteSet(objects),
           \A x, y \in s : x[1] = y[1] => x = y, {x[1] : x \in s} = objects
    PROVE  Cardinality(s) = Cardinality(objects)
<1> DEFINE f == [x \in s |-> x[1]]
<1>1. f \in Injection(s, objects) /\ f \in Surjection(s, objects)
  BY DEF Injection, IsInjective, Surjection
<1> QED BY <1>1, FS_Injection

\* Every published list has one row for each object of the inventory it was made
\* from, and no row accuses an object without reason, whatever is deleted,
\* replaced or failing while the rows come in.
THEOREM ListsAreTrue == Spec => []ChecksumInventoriesAreTrue
<1>1. TrueInv /\ IInv => ChecksumInventoriesAreTrue
  <2> SUFFICES ASSUME TrueInv, IInv, NEW b \in Buckets, NEW s \in Slots,
                      answers[b][s] # None
               PROVE  LET a == answers[b][s] IN
                      /\ {x[1] : x \in a.rows} = RowsOf(listing[a.of])
                      /\ Cardinality(a.rows) = Cardinality(RowsOf(listing[a.of]))
                      /\ \A x \in a.rows :
                            /\ x[2] = "not_found" => <<b, x[1]>> \in gone
                            /\ x[2] = "missing_checksum" => x[1] \in Unsummed
                            /\ x[2] = "error" => faults > 0 \/ <<b, x[1]>> \in gone
    BY DEF ChecksumInventoriesAreTrue
  <2> DEFINE a == answers[b][s]
  <2>1. /\ a.of \in made /\ RowsAreTrue(b, a.rows)
        /\ {x[1] : x \in a.rows} = RowsOf(listing[a.of])
    BY DEF TrueInv, AnswersInv
  <2>2. IsFiniteSet(RowsOf(listing[a.of]))
    <3>1. RowsOf(listing[a.of]) \subseteq Objects
      BY <2>1 DEF TrueInv, ListTypes, IInv, CallTypes, RowsOf
    <3> QED BY <3>1, FS_Subset, InventoryAssumption DEF InventoryAssumption
  <2>3. Cardinality(a.rows) = Cardinality(RowsOf(listing[a.of]))
    BY <2>1, <2>2, RowsAreCounted DEF RowsAreTrue
  <2> QED BY <2>1, <2>3 DEF RowsAreTrue
<1> QED BY <1>1, TrueInvariance, Invariance, PTL

-----------------------------------------------------------------------------
(* Types *)

\* Failing calls and starts stay within their bounds, and what is deleted,
\* reported as failed, asked for or answered is about the stack's buckets.
StoreBounds ==
    /\ faults <= MaxFaults
    /\ starts \in 0..MaxStarts
    /\ gone \subseteq Buckets \X Objects
    /\ raised \subseteq broken
    /\ trigger \subseteq Buckets /\ feedback \subseteq Buckets

\* Stats stand for inventories of their bucket that were made.
StatsInv ==
    \A b \in Buckets, s \in Slots :
        stats[b][s] # None => stats[b][s] \in made /\ stats[b][s][1] = b

\* Who may still fail has an attempt left.
CallBounds ==
    \A h \in Calls :
        /\ failures[h] <= MaxAttempts
        /\ pc[h] \notin {"ok", "dropped"} => failures[h] < MaxAttempts
        /\ work[h] # None => work[h] \in made /\ work[h][1] = h[1]

RequestBounds ==
    /\ source \in [RequestCalls -> made \cup {None}]
    /\ \A c \in RequestCalls :
          /\ rfailures[c] <= MaxAttempts
          /\ rpc[c] \notin {"ok", "dropped"} => rfailures[c] < MaxAttempts

StorageBounds ==
    /\ sfailures \in [StorageRuns -> Nat]
    /\ \A c \in StorageRuns :
          /\ sfailures[c] <= MaxAttempts
          /\ spc[c] \notin {"ok", "dropped"} => sfailures[c] < MaxAttempts
          /\ \A b \in Buckets :
                sreport[c][b] # None => sreport[c][b] \in made /\ sreport[c][b][1] = b

BoundsInv == StoreBounds /\ StatsInv /\ CallBounds /\ RequestBounds /\ StorageBounds

\* What the other invariants say, which hold of the stack already.
StackInv == IInv /\ ReportedInv /\ RequestInv /\ TrueInv /\ StorageInv

LEMMA StackInvariance == Spec => []StackInv
BY Invariance, ReportedInvariance, RequestInvariance, TrueInvariance,
   StorageInvariance, PTL DEF StackInv

\* What a step keeps in every case.
LEMMA StackFacts ==
    ASSUME StackInv, [Next]_allVars
    PROVE  /\ made \subseteq made' /\ made' \subseteq Inventories
           /\ faults \in Nat /\ faults' \in Nat
           /\ MaxAttempts \in Nat \ {0} /\ MaxFaults \in Nat /\ MaxStarts \in Nat
           /\ failures \in [Calls -> Nat] /\ rfailures \in [RequestCalls -> Nat]
<1>1. made \subseteq made' /\ made' \subseteq Inventories /\ faults \in Nat /\ faults' \in Nat
  BY InventoriesStay DEF StackInv, TrueInv, ListTypes, ReportedInv
<1> QED BY <1>1, InventoryAssumption
        DEF InventoryAssumption, StackInv, ReportedInv, CountsInv, RequestInv, RequestTypes

\* At first nothing has failed and nothing is there.
LEMMA BoundsInit == Init => BoundsInv
<1> SUFFICES ASSUME Init PROVE BoundsInv
  OBVIOUS
<1> USE InventoryAssumption DEF Init, InventoryInit, RequestInit, StorageInit,
        InventoryAssumption
<1>1. StoreBounds /\ StatsInv
  BY DEF StoreBounds, StatsInv
<1>2. CallBounds /\ RequestBounds
  BY DEF CallBounds, RequestBounds
<1>3. StorageBounds
  BY DEF StorageBounds, NoStats
<1> QED BY <1>1, <1>2, <1>3 DEF BoundsInv

\* The components' steps, each with the others at rest.
LEMMA WhoseStep ==
    ASSUME [Next]_allVars
    PROVE  \/ InventoryNext /\ UNCHANGED <<requestVars, storageVars>>
           \/ RequestNext /\ UNCHANGED <<storageVars, day, s3Vars, callVars, storeVars, raised>>
           \/ StorageNext /\ UNCHANGED <<requestVars, day, s3Vars, callVars, storeVars, raised>>
           \/ UNCHANGED allVars
BY DEF Next, RequestNext, StorageNext

\* Every start and every failure asks for its bound first.
LEMMA BoundsAreAsked ==
    ASSUME faults \in Nat, faults <= MaxFaults, starts \in 0..MaxStarts,
           MaxFaults \in Nat, MaxStarts \in Nat, [Next]_allVars
    PROVE  faults' <= MaxFaults /\ starts' \in 0..MaxStarts
<1>1. /\ \/ faults' = faults \/ (faults < MaxFaults /\ faults' = faults + 1)
         \/ \E passed \in SUBSET Buckets :
               /\ faults + Cardinality(passed) <= MaxFaults
               /\ faults' = faults + Cardinality(passed)
      /\ starts' = starts \/ (starts + faults < MaxStarts /\ starts' = starts + 1)
  <2> USE DEF Begin, Fault, boundVars
  <2>1. CASE InventoryNext
    BY <2>1 DEF InventoryNext, MidnightPasses, GenerateInventory, DeleteObject, Deliver,
       StartCli, CallStep, CallFails, FindToday, FindYesterday, FindManifest,
       ReadNothing, PutCsv, CopyCsvToLatest, PutStats, CopyStatsToLatest, Return
  <2>2. CASE RequestNext
    BY <2>2 DEF RequestNext, RequestStep, UploadTrigger, StartRequest, LookForReport,
       DownloadReport, HeadRow, PutAnswer, CopyAnswer, DeleteTrigger, RequestFails,
       PutRequestFeedback
  <2>3. CASE StorageNext
    BY <2>3 DEF StorageNext, StorageStep, StartStorage, ListStorage, ReadStats, PutHtml,
       QueryCosts, CopyHtml, PutJson, CopyJson, StorageFails
  <2>4. CASE UNCHANGED allVars
    BY <2>4 DEF allVars, inventoryVars
  <2> QED BY <2>1, <2>2, <2>3, <2>4 DEF Next
<1> QED BY <1>1

\* What is deleted or raised is there, and what is asked for is a bucket's.
LEMMA StoresStep ==
    ASSUME StackInv, BoundsInv, [Next]_allVars PROVE StoreBounds'
<1>0. StoreBounds /\ CountsInv
  BY DEF BoundsInv, StackInv, ReportedInv
<1>1. faults' <= MaxFaults /\ starts' \in 0..MaxStarts
  BY <1>0, StackFacts, BoundsAreAsked DEF StoreBounds
<1>2. gone' \subseteq Buckets \X Objects /\ raised' \subseteq broken'
  <2>1. CASE InventoryNext
    <3>1. ASSUME NEW b \in Buckets, NEW o \in Objects, DeleteObject(b, o)
          PROVE  gone' = gone \cup {<<b, o>>} /\ UNCHANGED <<raised, broken>>
      BY <3>1 DEF DeleteObject
    <3>2. ASSUME NEW b \in Buckets, GenerateInventory(b)
          PROVE  UNCHANGED <<gone, raised>> /\ broken \subseteq broken'
      BY <3>2 DEF GenerateInventory
    <3>3. ASSUME NEW h \in Calls, Return(h)
          PROVE  /\ UNCHANGED <<gone, broken>>
                 /\ raised' = raised \/ (raised' = raised \cup {work[h]} /\ work[h] \in broken)
      BY <3>3 DEF Return, s3Vars, ReplicationErrors
    <3>4. ASSUME MidnightPasses \/ \E h \in Calls :
                    \/ Deliver(h) \/ StartCli(h) \/ CallFails(h) \/ FindToday(h)
                    \/ FindYesterday(h) \/ ReadNothing(h) \/ PutCsv(h)
                    \/ CopyCsvToLatest(h) \/ PutStats(h) \/ CopyStatsToLatest(h)
          PROVE  UNCHANGED <<gone, broken, raised>>
      BY <3>4 DEF MidnightPasses, Deliver, StartCli, CallFails, FindToday, FindYesterday,
         FindManifest, ReadNothing, PutCsv, CopyCsvToLatest, PutStats, CopyStatsToLatest, s3Vars
    <3> QED BY <1>0, <2>1, <3>1, <3>2, <3>3, <3>4
            DEF InventoryNext, CallStep, StoreBounds
  <2>2. CASE UNCHANGED <<s3Vars, raised>>
    BY <1>0, <2>2 DEF StoreBounds, s3Vars
  <2> QED BY <2>1, <2>2, WhoseStep DEF allVars, inventoryVars
<1>3. trigger' \subseteq Buckets /\ feedback' \subseteq Buckets
  <2>1. CASE RequestNext
    <3>1. ASSUME NEW b \in Buckets, UploadTrigger(b)
          PROVE  trigger' = trigger \cup {b} /\ UNCHANGED feedback
      BY <3>1 DEF UploadTrigger
    <3>2. ASSUME NEW c \in RequestCalls, RequestStep(c)
          PROVE  trigger' \subseteq trigger /\ feedback' \subseteq feedback \cup {c[1]}
      BY <3>2 DEF RequestStep, StartRequest, LookForReport, DownloadReport, HeadRow,
         PutAnswer, CopyAnswer, DeleteTrigger, RequestFails, PutRequestFeedback,
         requestStores
    <3> QED BY <1>0, <2>1, <3>1, <3>2, RequestFacts DEF RequestNext, StoreBounds
  <2>2. CASE UNCHANGED requestVars
    BY <1>0, <2>2 DEF StoreBounds, requestVars, requestStores
  <2> QED BY <2>1, <2>2, WhoseStep DEF allVars
<1> QED BY <1>1, <1>2, <1>3 DEF StoreBounds

\* Stats stand for an inventory of their bucket, after every step.
LEMMA StatsStayPublished ==
    ASSUME StackInv, BoundsInv, [Next]_allVars PROVE StatsInv'
<1> USE ConstantFacts
<1>0. IInv /\ CallTypes /\ WorkInv /\ TargetInv /\ StatsInv /\ made \subseteq made'
  BY StackFacts DEF IInv, StackInv, BoundsInv
<1>1. ASSUME NEW h \in Calls, PutStats(h) PROVE StatsInv'
  <2>1. /\ work[h] \in made /\ work[h][1] = BucketOf(h)
        /\ BucketOf(h) \in Buckets /\ day \in Slots
        /\ stats' = [stats EXCEPT ![BucketOf(h)][day] = work[h]]
    BY <1>0, <1>1 DEF PutStats, PutDated, WorkInv, HasManifest, CallTypes
  <2>2. \A b \in Buckets, s \in Slots :
           stats'[b][s] = IF b = BucketOf(h) /\ s = day THEN work[h] ELSE stats[b][s]
    BY <1>0, <2>1 DEF CallTypes
  <2> QED BY <1>0, <2>1, <2>2 DEF StatsInv
<1>2. ASSUME NEW h \in Calls, CopyStatsToLatest(h) PROVE StatsInv'
  <2>1. /\ BucketOf(h) \in Buckets /\ target[h] \in Slots
        /\ stats' = [stats EXCEPT ![BucketOf(h)][LATEST] = stats[BucketOf(h)][target[h]]]
    BY <1>0, <1>2 DEF CopyStatsToLatest, CopyToLatest, CallTypes
  <2>2. \A b \in Buckets, s \in Slots :
           stats'[b][s] = IF b = BucketOf(h) /\ s = LATEST
                          THEN stats[BucketOf(h)][target[h]] ELSE stats[b][s]
    BY <1>0, <2>1 DEF CallTypes
  <2> QED BY <1>0, <2>1, <2>2 DEF StatsInv
<1>3. CASE UNCHANGED stats
  BY <1>0, <1>3 DEF StatsInv
<1>4. ASSUME MidnightPasses \/ \E b \in Buckets : GenerateInventory(b)
      PROVE  UNCHANGED stats
  BY <1>4 DEF MidnightPasses, GenerateInventory, storeVars
<1> QED BY <1>0, <1>1, <1>2, <1>3, <1>4, StatsSteps

\* An invocation of inventory-report fails only with an attempt left.
LEMMA CallsStep ==
    ASSUME StackInv, BoundsInv, [Next]_allVars PROVE CallBounds'
<1> USE ConstantFacts
<1>0. /\ CallTypes /\ WorkInv /\ CallBounds
      /\ made \subseteq made' /\ failures \in [Calls -> Nat] /\ MaxAttempts \in Nat
  BY StackFacts DEF IInv, StackInv, BoundsInv
\* One invocation moves, and nobody else.
<1>1. ASSUME NEW h \in Calls, NEW l \in States, NEW n \in Nat, NEW w,
             pc' = [pc EXCEPT ![h] = l], failures' = [failures EXCEPT ![h] = n],
             work' = [work EXCEPT ![h] = w],
             n <= MaxAttempts, l \notin {"ok", "dropped"} => n < MaxAttempts,
             w # None => w \in made /\ w[1] = h[1]
      PROVE  CallBounds'
  <2>1. \A g \in Calls :
           /\ g = h => pc'[g] = l /\ failures'[g] = n /\ work'[g] = w
           /\ g # h => /\ pc'[g] = pc[g] /\ failures'[g] = failures[g]
                       /\ work'[g] = work[g]
    BY <1>0, <1>1 DEF CallTypes
  <2>2. ASSUME NEW g \in Calls
        PROVE  /\ failures'[g] <= MaxAttempts
               /\ pc'[g] \notin {"ok", "dropped"} => failures'[g] < MaxAttempts
               /\ work'[g] # None => work'[g] \in made' /\ work'[g][1] = g[1]
    <3>1. CASE g = h
      BY <1>0, <1>1, <2>1, <3>1
    <3>2. CASE g # h
      BY <1>0, <2>1, <3>2 DEF CallBounds
    <3> QED BY <3>1, <3>2
  <2> QED BY <2>2 DEF CallBounds
<1>2. CASE UNCHANGED <<pc, failures, work>>
  BY <1>0, <1>2 DEF CallBounds
\* Those that go on or return.
<1>3. ASSUME NEW h \in Calls, pc[h] \notin {"ok", "dropped"}, NEW l \in States,
             pc' = [pc EXCEPT ![h] = l], UNCHANGED failures,
             \/ UNCHANGED work
             \/ \E m \in made : work' = [work EXCEPT ![h] = m] /\ m[1] = h[1]
      PROVE  CallBounds'
  <2>1. PICK n \in Nat : /\ n < MaxAttempts /\ n <= MaxAttempts
                         /\ failures' = [failures EXCEPT ![h] = n]
    <3>1. /\ failures[h] \in Nat /\ failures[h] < MaxAttempts
          /\ failures' = [failures EXCEPT ![h] = failures[h]]
      BY <1>0, <1>3 DEF CallBounds
    <3>2. PICK n \in Nat : n = failures[h]
      BY <3>1
    <3>3. n < MaxAttempts /\ n <= MaxAttempts
      BY <1>0, <3>1, <3>2
    <3>4. failures' = [failures EXCEPT ![h] = n]
      BY <3>1, <3>2
    <3> QED BY <3>3, <3>4
  <2>2. \E w : work' = [work EXCEPT ![h] = w] /\ (w # None => w \in made /\ w[1] = h[1])
    <3>1. CASE UNCHANGED work
      <4>1. work' = [work EXCEPT ![h] = work[h]]
        BY <1>0, <3>1 DEF CallTypes
      <4> QED BY <1>0, <4>1 DEF CallBounds
    <3> QED BY <1>3, <3>1
  <2>3. PICK w : work' = [work EXCEPT ![h] = w] /\ (w # None => w \in made /\ w[1] = h[1])
    BY <2>2
  <2> QED BY <1>1, <1>3, <2>1, <2>3
<1>4. ASSUME NEW h \in Calls, ReturnErr(h), pc[h] \in Working, UNCHANGED work
      PROVE  CallBounds'
  <2>1. PICK n \in Nat : n = failures[h] + 1
    BY <1>0
  <2>2. PICK l \in States : l = IF Retried(h) THEN "fetch" ELSE "dropped"
    BY DEF States, Working
  <2>3. PICK w : w = work[h]
    OBVIOUS
  <2>4. failures[h] \in Nat /\ failures[h] < MaxAttempts
    BY <1>0, <1>4 DEF CallBounds, Working
  <2>5. n <= MaxAttempts /\ (l \notin {"ok", "dropped"} => n < MaxAttempts)
    BY <1>0, <2>1, <2>2, <2>4 DEF Retried
  <2>6. /\ pc' = [pc EXCEPT ![h] = l] /\ failures' = [failures EXCEPT ![h] = n]
        /\ work' = [work EXCEPT ![h] = w]
    BY <1>0, <1>4, <2>1, <2>2, <2>3 DEF ReturnErr, Goto, CallTypes
  <2>7. w # None => w \in made /\ w[1] = h[1]
    BY <1>0, <2>3 DEF CallBounds
  <2> QED BY <1>1, <2>5, <2>6, <2>7
<1>5. CASE InventoryNext
  <2> USE DEF Goto, States, Working
  <2>1. ASSUME NEW h \in Calls, Deliver(h) PROVE CallBounds'
    <3>1. /\ pc[h] = "idle" /\ pc' = [pc EXCEPT ![h] = "fetch"] /\ UNCHANGED failures
          /\ <<h[1], h[2]>> \in made /\ work' = [work EXCEPT ![h] = <<h[1], h[2]>>]
      BY <2>1 DEF Deliver
    <3> QED BY <1>3, <3>1
  <2>2. ASSUME NEW h \in Calls, StartCli(h) PROVE CallBounds'
    BY <1>3, <2>2 DEF StartCli
  <2>3. ASSUME NEW h \in Calls, FindToday(h) \/ FindYesterday(h) PROVE CallBounds'
    <3>1. /\ pc[h] \in {"today", "yesterday"} /\ UNCHANGED failures
          /\ \E l \in States : pc' = [pc EXCEPT ![h] = l]
          /\ \/ UNCHANGED work
             \/ \E m \in made : work' = [work EXCEPT ![h] = m] /\ m[1] = h[1]
      BY <2>3 DEF FindToday, FindYesterday, FindManifest
    <3> QED BY <1>3, <3>1
  <2>4. ASSUME NEW h \in Calls,
               PutCsv(h) \/ CopyCsvToLatest(h) \/ PutStats(h) \/ CopyStatsToLatest(h)
        PROVE  CallBounds'
    <3>1. /\ pc[h] \in Working /\ UNCHANGED <<failures, work>>
          /\ \E l \in States : pc' = [pc EXCEPT ![h] = l]
      BY <2>4 DEF PutCsv, CopyCsvToLatest, PutStats, CopyStatsToLatest
    <3> QED BY <1>3, <3>1
  <2>5. ASSUME NEW h \in Calls, Return(h) PROVE CallBounds'
    <3>1. pc[h] = "return" /\ UNCHANGED work
      BY <2>5 DEF Return
    <3>2. CASE ReturnErr(h)
      BY <1>4, <3>1, <3>2
    <3>3. CASE ReturnOk(h)
      BY <1>3, <3>1, <3>3 DEF ReturnOk
    <3> QED BY <2>5, <3>2, <3>3 DEF Return
  <2>6. ASSUME NEW h \in Calls, CallFails(h) \/ ReadNothing(h) PROVE CallBounds'
    BY <1>4, <2>6 DEF CallFails, ReadNothing
  <2>7. ASSUME MidnightPasses \/ (\E b \in Buckets : GenerateInventory(b))
               \/ \E b \in Buckets, o \in Objects : DeleteObject(b, o)
        PROVE  UNCHANGED <<pc, failures, work>>
    BY <2>7 DEF MidnightPasses, GenerateInventory, DeleteObject, callVars
  <2> QED BY <1>2, <1>5, <2>1, <2>2, <2>3, <2>4, <2>5, <2>6, <2>7
          DEF InventoryNext, CallStep
<1> QED BY <1>2, <1>5, WhoseStep DEF allVars, inventoryVars, callVars

\* So does an invocation of checksum-request, whose list is of a report it read.
LEMMA RequestsStep ==
    ASSUME StackInv, BoundsInv, [Next]_allVars PROVE RequestBounds'
<1> USE RequestFacts, ConstantFacts
<1>0. /\ RequestTypes /\ ListTypes /\ PublishedInv /\ RequestBounds
      /\ made \subseteq made' /\ rfailures \in [RequestCalls -> Nat]
  BY StackFacts DEF StackInv, BoundsInv, RequestInv, TrueInv
\* One invocation moves, and nobody else.
<1>1. ASSUME NEW c \in RequestCalls, NEW l, NEW n \in Nat, NEW m,
             rpc' = [rpc EXCEPT ![c] = l], rfailures' = [rfailures EXCEPT ![c] = n],
             source' = [source EXCEPT ![c] = m],
             n <= MaxAttempts, l \notin {"ok", "dropped"} => n < MaxAttempts,
             m \in made \cup {None}
      PROVE  RequestBounds'
  <2>1. \A d \in RequestCalls :
           /\ d = c => rpc'[d] = l /\ rfailures'[d] = n
           /\ d # c => rpc'[d] = rpc[d] /\ rfailures'[d] = rfailures[d]
    BY <1>0, <1>1 DEF RequestTypes
  <2>2. ASSUME NEW d \in RequestCalls
        PROVE  /\ rfailures'[d] <= MaxAttempts
               /\ rpc'[d] \notin {"ok", "dropped"} => rfailures'[d] < MaxAttempts
    <3>1. CASE d = c
      BY <1>0, <1>1, <2>1, <3>1
    <3>2. CASE d # c
      BY <1>0, <2>1, <3>2 DEF RequestBounds
    <3> QED BY <3>1, <3>2
  <2>3. source' \in [RequestCalls -> made' \cup {None}]
    BY <1>0, <1>1 DEF RequestBounds
  <2> QED BY <2>2, <2>3 DEF RequestBounds
<1>2. CASE UNCHANGED <<rpc, rfailures, source>>
  BY <1>0, <1>2 DEF RequestBounds
\* Those that go on or return.
<1>3. ASSUME NEW c \in RequestCalls, rpc[c] \notin {"ok", "dropped"}, NEW l,
             rpc' = [rpc EXCEPT ![c] = l], UNCHANGED rfailures,
             NEW m \in made \cup {None}, source' = [source EXCEPT ![c] = m]
      PROVE  RequestBounds'
  <2>1. PICK n \in Nat : /\ n < MaxAttempts /\ n <= MaxAttempts
                         /\ rfailures' = [rfailures EXCEPT ![c] = n]
    <3>1. /\ rfailures[c] \in Nat /\ rfailures[c] < MaxAttempts
          /\ rfailures' = [rfailures EXCEPT ![c] = rfailures[c]]
      BY <1>0, <1>3 DEF RequestBounds
    <3>2. PICK n \in Nat : n = rfailures[c]
      BY <3>1
    <3>3. n < MaxAttempts /\ n <= MaxAttempts
      BY <1>0, <3>1, <3>2
    <3>4. rfailures' = [rfailures EXCEPT ![c] = n]
      BY <3>1, <3>2
    <3> QED BY <3>3, <3>4
  <2> QED BY <1>1, <1>3, <2>1
<1>4. ASSUME NEW c \in RequestCalls, RReturnErr(c), rpc[c] \notin {"ok", "dropped"}
      PROVE  RequestBounds'
  <2>1. PICK n \in Nat : n = rfailures[c] + 1
    BY <1>0
  <2>2. PICK l : l = IF c \in RequestEvents /\ n < MaxAttempts THEN "look" ELSE "dropped"
    OBVIOUS
  <2>3. rfailures[c] \in Nat /\ rfailures[c] < MaxAttempts
    BY <1>0, <1>4 DEF RequestBounds
  <2>4. n <= MaxAttempts /\ (l \notin {"ok", "dropped"} => n < MaxAttempts)
    BY <2>1, <2>2, <2>3
  <2>5. /\ rpc' = [rpc EXCEPT ![c] = l] /\ source' = [source EXCEPT ![c] = None]
        /\ rfailures' = [rfailures EXCEPT ![c] = n]
    BY <1>4, <2>1, <2>2 DEF RReturnErr, RGoto
  <2>6. None \in made \cup {None}
    OBVIOUS
  <2> QED BY <1>1, <2>4, <2>5, <2>6
<1>5. ASSUME NEW c \in RequestCalls, rpc[c] \notin {"ok", "dropped"}, NEW l,
             rpc' = [rpc EXCEPT ![c] = l], UNCHANGED <<rfailures, source>>
      PROVE  RequestBounds'
  <2>1. PICK m \in made \cup {None} : source' = [source EXCEPT ![c] = m]
    <3>1. source' = [source EXCEPT ![c] = source[c]] /\ source[c] \in made \cup {None}
      BY <1>0, <1>5 DEF RequestBounds
    <3> QED BY <3>1
  <2> QED BY <1>3, <1>5, <2>1
<1>6. ASSUME NEW c \in RequestCalls, RequestStep(c) PROVE RequestBounds'
  <2> USE DEF RGoto, Performing
  <2>1. CASE StartRequest(c)
    BY <1>5, <2>1 DEF StartRequest
  <2>2. CASE LookForReport(c)
    <3>1. CASE RReturnErr(c)
      BY <1>4, <2>2, <3>1 DEF LookForReport
    <3>2. CASE RGoto(c, "download") /\ UNCHANGED <<rfailures, source>>
      BY <1>5, <2>2, <3>2 DEF LookForReport
    <3> QED BY <2>2, <3>1, <3>2 DEF LookForReport
  <2>3. CASE DownloadReport(c)
    <3>1. csv[c[1]][LATEST] \in made \cup {None}
      BY <1>0 DEF PublishedInv
    <3>2. /\ rpc[c] = "download" /\ rpc' = [rpc EXCEPT ![c] = "rows"]
          /\ source' = [source EXCEPT ![c] = csv[c[1]][LATEST]] /\ UNCHANGED rfailures
      BY <2>3 DEF DownloadReport
    <3> QED BY <1>3, <3>1, <3>2
  <2>4. CASE \E o \in Objects : HeadRow(c, o)
    BY <1>2, <2>4 DEF HeadRow
  <2>5. CASE PutAnswer(c)
    BY <1>5, <2>5 DEF PutAnswer
  <2>6. CASE CopyAnswer(c)
    <3>1. PICK l : rpc' = [rpc EXCEPT ![c] = l]
      BY <2>6 DEF CopyAnswer
    <3> QED BY <1>3, <2>6, <3>1 DEF CopyAnswer
  <2>7. CASE DeleteTrigger(c)
    BY <1>5, <2>7 DEF DeleteTrigger
  <2>8. CASE RequestFails(c)
    <3>1. CASE RReturnErr(c)
      BY <1>4, <2>8, <3>1 DEF RequestFails
    <3>2. CASE RGoto(c, "feedback") /\ UNCHANGED <<rfailures, source>>
      BY <1>5, <2>8, <3>2 DEF RequestFails
    <3> QED BY <2>8, <3>1, <3>2 DEF RequestFails
  <2>9. CASE PutRequestFeedback(c)
    BY <1>4, <2>9 DEF PutRequestFeedback
  <2> QED BY <1>6, <2>1, <2>2, <2>3, <2>4, <2>5, <2>6, <2>7, <2>8, <2>9 DEF RequestStep
<1>7. CASE RequestNext
  <2>1. ASSUME NEW b \in Buckets, UploadTrigger(b) PROVE UNCHANGED <<rpc, rfailures, source>>
    BY <2>1 DEF UploadTrigger, requestCalls
  <2> QED BY <1>2, <1>6, <1>7, <2>1 DEF RequestNext
<1>8. CASE UNCHANGED requestVars
  BY <1>2, <1>8 DEF requestVars, requestCalls
<1> QED BY <1>7, <1>8, WhoseStep DEF allVars

\* A run of storage-report has read stats of the bucket they are kept for.
LEMMA RunsStep ==
    ASSUME StackInv, BoundsInv, [Next]_allVars PROVE StorageBounds'
<1> USE ConstantFacts
<1>0. /\ StorageTypes /\ StatsInv /\ StorageBounds /\ made \subseteq made'
      /\ MaxAttempts \in Nat \ {0}
  BY StackFacts DEF StackInv, BoundsInv, StorageInv
\* One run moves, and nobody else.
<1>1. ASSUME NEW c \in StorageRuns, NEW l, NEW n \in Nat, NEW r,
             spc' = [spc EXCEPT ![c] = l], sfailures' = [sfailures EXCEPT ![c] = n],
             sreport' = [sreport EXCEPT ![c] = r],
             n <= MaxAttempts, l \notin {"ok", "dropped"} => n < MaxAttempts,
             \A b \in Buckets : r[b] # None => r[b] \in made /\ r[b][1] = b
      PROVE  StorageBounds'
  <2>1. /\ sfailures' \in [StorageRuns -> Nat]
        /\ \A d \in StorageRuns :
              /\ d = c => spc'[d] = l /\ sfailures'[d] = n /\ sreport'[d] = r
              /\ d # c => /\ spc'[d] = spc[d] /\ sfailures'[d] = sfailures[d]
                          /\ sreport'[d] = sreport[d]
    BY <1>0, <1>1 DEF StorageTypes, StorageBounds
  <2>2. ASSUME NEW d \in StorageRuns
        PROVE  /\ sfailures'[d] <= MaxAttempts
               /\ spc'[d] \notin {"ok", "dropped"} => sfailures'[d] < MaxAttempts
               /\ \A b \in Buckets :
                     sreport'[d][b] # None =>
                        sreport'[d][b] \in made' /\ sreport'[d][b][1] = b
    <3>1. CASE d = c
      BY <1>0, <1>1, <2>1, <3>1
    <3>2. CASE d # c
      BY <1>0, <2>1, <3>2 DEF StorageBounds
    <3> QED BY <3>1, <3>2
  <2> QED BY <2>1, <2>2 DEF StorageBounds
<1>2. CASE UNCHANGED <<spc, sfailures, sreport>>
  BY <1>0, <1>2 DEF StorageBounds
\* Those that go on or are finished.
<1>3. ASSUME NEW c \in StorageRuns, spc[c] \notin {"ok", "dropped"}, NEW l,
             spc' = [spc EXCEPT ![c] = l], UNCHANGED sfailures,
             NEW r, sreport' = [sreport EXCEPT ![c] = r],
             \A b \in Buckets : r[b] # None => r[b] \in made /\ r[b][1] = b
      PROVE  StorageBounds'
  <2>1. PICK n \in Nat : /\ n < MaxAttempts /\ n <= MaxAttempts
                         /\ sfailures' = [sfailures EXCEPT ![c] = n]
    <3>1. /\ sfailures[c] \in Nat /\ sfailures[c] < MaxAttempts
          /\ sfailures' = [sfailures EXCEPT ![c] = sfailures[c]]
      BY <1>0, <1>3 DEF StorageBounds
    <3>2. PICK n \in Nat : n = sfailures[c]
      BY <3>1
    <3>3. n < MaxAttempts /\ n <= MaxAttempts
      BY <1>0, <3>1, <3>2
    <3>4. sfailures' = [sfailures EXCEPT ![c] = n]
      BY <3>1, <3>2
    <3> QED BY <3>3, <3>4
  <2> QED BY <1>1, <1>3, <2>1
<1>4. ASSUME NEW c \in StorageRuns, spc[c] \notin {"ok", "dropped"}, NEW l,
             spc' = [spc EXCEPT ![c] = l], UNCHANGED <<sfailures, sreport>>
      PROVE  StorageBounds'
  <2>1. PICK r : /\ sreport' = [sreport EXCEPT ![c] = r]
                 /\ \A b \in Buckets : r[b] # None => r[b] \in made /\ r[b][1] = b
    <3>1. /\ sreport' = [sreport EXCEPT ![c] = sreport[c]]
          /\ \A b \in Buckets :
                sreport[c][b] # None => sreport[c][b] \in made /\ sreport[c][b][1] = b
      BY <1>0, <1>4 DEF StorageBounds, StorageTypes
    <3> QED BY <3>1
  <2> QED BY <1>3, <1>4, <2>1
<1>5. \A b \in Buckets : NoStats[b] = None
  BY DEF NoStats
<1>6. ASSUME NEW c \in StorageRuns, StorageStep(c) PROVE StorageBounds'
  <2> USE DEF SGoto, Forget, Collecting, Storing
  <2>1. CASE StartStorage(c)
    BY <1>4, <2>1 DEF StartStorage
  <2>2. CASE ListStorage(c)
    BY <1>4, <2>2 DEF ListStorage
  <2>3. ASSUME NEW b \in Buckets, ReadStats(c, b) PROVE StorageBounds'
    <3>1. /\ spc[c] = "stats" /\ UNCHANGED <<spc, sfailures>>
          /\ sreport' = [sreport EXCEPT ![c][b] = stats[b][LATEST]]
      BY <2>3 DEF ReadStats
    <3>2. PICK r : r = [sreport[c] EXCEPT ![b] = stats[b][LATEST]]
      OBVIOUS
    <3>3. /\ sreport' = [sreport EXCEPT ![c] = r]
          /\ spc' = [spc EXCEPT ![c] = "stats"]
      BY <1>0, <3>1, <3>2 DEF StorageTypes
    <3>4. \A x \in Buckets : r[x] # None => r[x] \in made /\ r[x][1] = x
      BY <1>0, <3>2 DEF StorageTypes, StorageBounds, StatsInv
    <3> QED BY <1>3, <3>1, <3>3, <3>4
  <2>4. CASE PutHtml(c)
    BY <1>4, <2>4 DEF PutHtml
  <2>5. CASE CopyHtml(c)
    BY <1>4, <2>5 DEF CopyHtml
  <2>6. CASE PutJson(c)
    BY <1>4, <2>6 DEF PutJson
  <2>7. CASE CopyJson(c)
    BY <1>3, <1>5, <2>7 DEF CopyJson
  <2>8. CASE StorageFails(c)
    <3>1. PICK l : l = IF SRetried(c) THEN "list" ELSE "dropped"
      OBVIOUS
    <3>2. PICK n \in Nat : n = sfailures[c] + 1
      BY <1>0 DEF StorageBounds
    <3>3. /\ spc' = [spc EXCEPT ![c] = l] /\ sreport' = [sreport EXCEPT ![c] = NoStats]
          /\ sfailures' = [sfailures EXCEPT ![c] = n]
          /\ spc[c] \notin {"ok", "dropped"}
      BY <2>8, <3>1, <3>2 DEF StorageFails
    <3>4. sfailures[c] \in Nat /\ sfailures[c] < MaxAttempts
      BY <1>0, <3>3 DEF StorageBounds
    <3>5. n <= MaxAttempts /\ (l \notin {"ok", "dropped"} => n < MaxAttempts)
      BY <1>0, <3>1, <3>2, <3>4 DEF SRetried
    <3> QED BY <1>1, <1>5, <3>3, <3>5
  <2> QED BY <1>6, <2>1, <2>2, <2>3, <2>4, <2>5, <2>6, <2>7, <2>8 DEF StorageStep
<1>7. CASE StorageNext
  BY <1>6, <1>7 DEF StorageNext
<1>8. CASE UNCHANGED storageVars
  BY <1>2, <1>8 DEF storageVars, storageCalls
<1> QED BY <1>7, <1>8, WhoseStep DEF allVars

\* So the bounds hold in every reachable state.
LEMMA BoundsInvariance == Spec => []BoundsInv
<1>1. StackInv /\ BoundsInv /\ [Next]_allVars => BoundsInv'
  <2> SUFFICES ASSUME StackInv, BoundsInv, [Next]_allVars PROVE BoundsInv'
    OBVIOUS
  <2> QED BY StoresStep, StatsStayPublished, CallsStep, RequestsStep, RunsStep DEF BoundsInv
<1> QED BY <1>1, BoundsInit, StackInvariance, PTL DEF Spec

\* Every variable of the three components keeps its type beside the others:
\* nothing is tried more often than Lambda tries it, every invocation, list and
\* report is about inventories S3 has made, and about those of its bucket.
THEOREM StackTypesHold == Spec => []StackTypeOK
<1>1. StackInv /\ BoundsInv => StackTypeOK
  <2> SUFFICES ASSUME StackInv, BoundsInv PROVE StackTypeOK
    OBVIOUS
  <2>0. /\ CallTypes /\ CountsInv /\ RequestTypes /\ UploadInv /\ AttemptInv
        /\ ListTypes /\ StorageTypes
        /\ StoreBounds /\ CallBounds /\ RequestBounds /\ StorageBounds
        /\ MaxAttempts \in Nat /\ MaxFaults \in Nat
    BY InventoryAssumption DEF InventoryAssumption, StackInv, BoundsInv, IInv,
       ReportedInv, RequestInv, TrueInv, StorageInv
  <2>1. TypeOK
    <3>1. failures \in [Calls -> 0..MaxAttempts]
      BY <2>0 DEF CountsInv, CallBounds
    <3>2. faults \in 0..MaxFaults
      BY <2>0 DEF CountsInv, StoreBounds
    <3> QED BY <2>0, <3>1, <3>2
            DEF TypeOK, CallTypes, CountsInv, StoreBounds, CallBounds, ListTypes, States
  <2>2. RequestTypeOK
    <3>1. rfailures \in [RequestCalls -> 0..MaxAttempts]
      BY <2>0 DEF RequestTypes, RequestBounds
    <3>2. source \in [RequestCalls -> made \cup {None}]
      BY <2>0 DEF RequestBounds
    <3>3. ASSUME NEW b \in Buckets PROVE answered[b] \in 0..asked[b]
      <4>1. answered[b] \in Nat /\ asked[b] \in Nat
        BY <2>0 DEF RequestTypes
      <4>2. answered[b] <= asked[b]
        BY <2>0 DEF UploadInv
      <4> QED BY <4>1, <4>2
    <3>4. \A c \in RequestCalls : began[c] \in 0..asked[c[1]]
      BY <2>0, RequestFacts DEF RequestTypes, AttemptInv
    <3>5. rpc \in [RequestCalls -> {"idle", "look", "delete", "feedback", "ok",
                                    "dropped"} \cup Performing]
      BY <2>0 DEF RequestTypes, RStates, Past
    <3> QED BY <2>0, <3>1, <3>2, <3>3, <3>4, <3>5
            DEF RequestTypeOK, StoreBounds, ListTypes, UploadInv
  <2>3. StorageTypeOK
    <3>1. sfailures \in [StorageRuns -> 0..MaxAttempts]
      BY <2>0 DEF StorageBounds
    <3> QED BY <2>0, <3>1 DEF StorageTypeOK, StorageTypes, StorageBounds, SStates
  <2> QED BY <2>1, <2>2, <2>3 DEF StackTypeOK
<1> QED BY <1>1, StackInvariance, BoundsInvariance, PTL
=============================================================================
