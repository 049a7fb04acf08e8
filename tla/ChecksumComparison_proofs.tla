--------------------- MODULE ChecksumComparison_proofs ----------------------
(***************************************************************************)
(* Proofs about ChecksumComparison, for any number of objects and faults.  *)
(***************************************************************************)
EXTENDS ChecksumComparison, FiniteSetTheorems, TLAPS

\* What one side can hold of an object: damage is of its own kind there.
Holdings(d) == {"uploaded", Harmed(d), "absent"}
ResultsOf(d) == {"uploaded", Harmed(d), "failed", "unreadable", "none", "pending"}

\* A side only holds, and its tasks only report, what can come about there;
\* before the jobs are created, or a manifest generated, there are no rows.
SidesInv ==
    \A d \in Sides : \A o \in Objects :
        /\ bucket[d][o] \in Holdings(d)
        /\ rows[d][o] \in ResultsOf(d)
        /\ ~listed[d] => rows[d][o] = "none"

\* Nothing is listed, and nothing counts as differing, before the jobs are.
StartInv == phase = "before" => differed = {} /\ \A d \in Sides : ~listed[d]

\* A report is the view of job reports that are complete and stay as they are.
ReportInv ==
    Reported =>
        /\ report = ResultsView
        /\ \A d \in Sides : listed[d]
        /\ \A d \in Sides : \A o \in Objects : rows[d][o] # "pending"

\* Of an object whose copies differed and that nobody deletes, one side was
\* harmed before any task, so that no task finds an undamaged copy there.
HarmedFirst(o, d) == bucket[d][o] = Harmed(d) /\ rows[d][o] # "uploaded"

DamageInv ==
    \A o \in differed \ deleted :
        /\ \E d \in Sides : HarmedFirst(o, d)
        /\ \A d \in Sides : /\ bucket[d][o] # "absent"
                            /\ listed[d] => rows[d][o] # "none"

\* Without damage and failures there are but undamaged copies and rows.
CleanInv ==
    faults = 0 /\ deleted = {} =>
        \A d \in Sides : \A o \in Objects :
            /\ bucket[d][o] \in {"uploaded", "absent"}
            /\ rows[d][o] \in {"none", "pending", "uploaded"}

\* Without deletions a replica has its source, what has a row is there, and
\* what is in the source bucket without a row came after the source manifest.
LateInv ==
    deleted = {} =>
        \A o \in Objects :
            /\ bucket["replication"][o] # "absent" => bucket["source"][o] # "absent"
            /\ \A d \in Sides : rows[d][o] # "none" => bucket[d][o] # "absent"
            /\ listed["source"] /\ bucket["source"][o] # "absent"
                   /\ rows["source"][o] = "none" => o \in late

IInv ==
    /\ TypeOK
    /\ SidesInv
    /\ StartInv
    /\ ReportInv
    /\ DamageInv
    /\ CleanInv
    /\ LateInv

-----------------------------------------------------------------------------
(* Type correctness                                                        *)

\* The view names sets of objects, one for each category.
LEMMA ViewType ==
    ResultsView \in [{"ok", "mismatch", "missing_replica", "missing_source",
                      "failed_source", "failed_replication"} -> SUBSET Objects]
BY DEF ResultsView, Agreeing, Compared, MissingFrom, Failed

\* Every step keeps the types, one case per action.
LEMMA TypeKept == TypeOK /\ [Next]_vars => TypeOK'
<1> SUFFICES ASSUME TypeOK, [Next]_vars
             PROVE  TypeOK'
  OBVIOUS
<1> USE ComparisonAssumption DEF TypeOK, Reported, Copies, Results, Sides, Harmed
<1>1. CASE \E o \in Objects : Upload(o)
  BY <1>1 DEF Upload, BucketsOnly
<1>2. CASE \E o \in Objects : Replicate(o)
  BY <1>2 DEF Replicate, BucketsOnly
<1>3. CASE \E d \in Sides, o \in Objects : Delete(d, o)
  BY <1>3 DEF Delete, BucketsOnly
<1>4. CASE \E d \in Sides, o \in Objects : Damage(d, o)
  BY <1>4 DEF Damage, BucketsOnly
<1>5. CASE CreateJobs
  BY <1>5 DEF CreateJobs
<1>6. CASE \E d \in Sides : GenerateManifest(d)
  BY <1>6 DEF GenerateManifest
<1>7. CASE \E d \in Sides, o \in Objects : RunTask(d, o)
  BY <1>7 DEF RunTask, TaskResult
<1>8. CASE \E d \in Sides, o \in Objects : SpoilTask(d, o)
  BY <1>8 DEF SpoilTask
<1>9. CASE Report
  BY <1>9, ViewType DEF Report
<1>10. CASE UNCHANGED vars
  BY <1>10 DEF vars
<1> QED
  BY <1>1, <1>2, <1>3, <1>4, <1>5, <1>6, <1>7, <1>8, <1>9, <1>10 DEF Next
-----------------------------------------------------------------------------
(* The inductive invariant                                                 *)

\* Every step keeps what a side holds and reports.
LEMMA SidesKept == TypeOK /\ SidesInv /\ [Next]_vars => SidesInv'
<1> SUFFICES ASSUME TypeOK, SidesInv, [Next]_vars
             PROVE  SidesInv'
  OBVIOUS
<1> USE DEF TypeOK, SidesInv, Holdings, ResultsOf, Sides, Harmed, Copies, Results
<1>1. CASE \E o \in Objects : Upload(o)
  BY <1>1 DEF Upload, BucketsOnly
<1>2. CASE \E o \in Objects : Replicate(o)
  BY <1>2 DEF Replicate, BucketsOnly
<1>3. CASE \E d \in Sides, o \in Objects : Delete(d, o)
  BY <1>3 DEF Delete, BucketsOnly
<1>4. CASE \E d \in Sides, o \in Objects : Damage(d, o)
  BY <1>4 DEF Damage, BucketsOnly
<1>5. CASE CreateJobs
  BY <1>5 DEF CreateJobs
<1>6. CASE \E d \in Sides : GenerateManifest(d)
  BY <1>6 DEF GenerateManifest
<1>7. CASE \E d \in Sides, o \in Objects : RunTask(d, o)
  BY <1>7 DEF RunTask, TaskResult
<1>8. CASE \E d \in Sides, o \in Objects : SpoilTask(d, o)
  BY <1>8 DEF SpoilTask
<1>9. CASE Report
  BY <1>9 DEF Report
<1>10. CASE UNCHANGED vars
  BY <1>10 DEF vars
<1> QED
  BY <1>1, <1>2, <1>3, <1>4, <1>5, <1>6, <1>7, <1>8, <1>9, <1>10 DEF Next

\* Every step keeps the order of creation and manifests.
LEMMA StartKept == TypeOK /\ StartInv /\ [Next]_vars => StartInv'
<1> SUFFICES ASSUME TypeOK, StartInv, [Next]_vars
             PROVE  StartInv'
  OBVIOUS
<1> USE DEF TypeOK, StartInv
<1>1. CASE \E o \in Objects : Upload(o)
  BY <1>1 DEF Upload, BucketsOnly
<1>2. CASE \E o \in Objects : Replicate(o)
  BY <1>2 DEF Replicate, BucketsOnly
<1>3. CASE \E d \in Sides, o \in Objects : Delete(d, o)
  BY <1>3 DEF Delete, BucketsOnly
<1>4. CASE \E d \in Sides, o \in Objects : Damage(d, o)
  BY <1>4 DEF Damage, BucketsOnly
<1>5. CASE CreateJobs
  BY <1>5 DEF CreateJobs
<1>6. CASE \E d \in Sides : GenerateManifest(d)
  BY <1>6 DEF GenerateManifest
<1>7. CASE \E d \in Sides, o \in Objects : RunTask(d, o)
  BY <1>7 DEF RunTask, TaskResult
<1>8. CASE \E d \in Sides, o \in Objects : SpoilTask(d, o)
  BY <1>8 DEF SpoilTask
<1>9. CASE Report
  BY <1>9 DEF Report
<1>10. CASE UNCHANGED vars
  BY <1>10 DEF vars
<1> QED
  BY <1>1, <1>2, <1>3, <1>4, <1>5, <1>6, <1>7, <1>8, <1>9, <1>10 DEF Next

\* Every step keeps a report the view of settled job reports.
LEMMA ReportKept == TypeOK /\ ReportInv /\ [Next]_vars => ReportInv'
<1> SUFFICES ASSUME TypeOK, ReportInv, [Next]_vars
             PROVE  ReportInv'
  OBVIOUS
<1> USE DEF TypeOK, ReportInv, Reported, ResultsView, Agreeing, Compared, MissingFrom, Failed, Succeeded, Row, Other, Sides
<1>1. CASE \E o \in Objects : Upload(o)
  BY <1>1 DEF Upload, BucketsOnly
<1>2. CASE \E o \in Objects : Replicate(o)
  BY <1>2 DEF Replicate, BucketsOnly
<1>3. CASE \E d \in Sides, o \in Objects : Delete(d, o)
  BY <1>3 DEF Delete, BucketsOnly
<1>4. CASE \E d \in Sides, o \in Objects : Damage(d, o)
  BY <1>4 DEF Damage, BucketsOnly
<1>5. CASE CreateJobs
  BY <1>5 DEF CreateJobs
<1>6. CASE \E d \in Sides : GenerateManifest(d)
  BY <1>6 DEF GenerateManifest
<1>7. CASE \E d \in Sides, o \in Objects : RunTask(d, o)
  BY <1>7 DEF RunTask, TaskResult
<1>8. CASE \E d \in Sides, o \in Objects : SpoilTask(d, o)
  BY <1>8 DEF SpoilTask
<1>9. CASE Report
  BY <1>9 DEF Report
<1>10. CASE UNCHANGED vars
  BY <1>10 DEF vars
<1> QED
  BY <1>1, <1>2, <1>3, <1>4, <1>5, <1>6, <1>7, <1>8, <1>9, <1>10 DEF Next

\* Every step keeps it that damage done before the jobs is seen by its task.
LEMMA DamageKept == TypeOK /\ SidesInv /\ StartInv /\ DamageInv /\ [Next]_vars => DamageInv'
<1> SUFFICES ASSUME TypeOK, SidesInv, StartInv, DamageInv, [Next]_vars
             PROVE  DamageInv'
  OBVIOUS
<1> USE DEF TypeOK, SidesInv, StartInv, DamageInv, HarmedFirst, Holdings, ResultsOf, Sides, Harmed
<1>1. CASE \E o \in Objects : Upload(o)
  BY <1>1 DEF Upload, BucketsOnly
<1>2. CASE \E o \in Objects : Replicate(o)
  BY <1>2 DEF Replicate, BucketsOnly
<1>3. CASE \E d \in Sides, o \in Objects : Delete(d, o)
  BY <1>3 DEF Delete, BucketsOnly
<1>4. CASE \E d \in Sides, o \in Objects : Damage(d, o)
  BY <1>4 DEF Damage, BucketsOnly
<1>5. CASE CreateJobs
  BY <1>5 DEF CreateJobs, InBoth
<1>6. CASE \E d \in Sides : GenerateManifest(d)
  BY <1>6 DEF GenerateManifest
<1>7. CASE \E d \in Sides, o \in Objects : RunTask(d, o)
  BY <1>7 DEF RunTask, TaskResult
<1>8. CASE \E d \in Sides, o \in Objects : SpoilTask(d, o)
  BY <1>8 DEF SpoilTask
<1>9. CASE Report
  BY <1>9 DEF Report
<1>10. CASE UNCHANGED vars
  BY <1>10 DEF vars
<1> QED
  BY <1>1, <1>2, <1>3, <1>4, <1>5, <1>6, <1>7, <1>8, <1>9, <1>10 DEF Next

\* Every step without a fault or a deletion keeps copies and rows clean.
LEMMA CleanKept == TypeOK /\ LateInv /\ CleanInv /\ [Next]_vars => CleanInv'
<1> SUFFICES ASSUME TypeOK, LateInv, CleanInv, [Next]_vars
             PROVE  CleanInv'
  OBVIOUS
<1> USE DEF TypeOK, LateInv, CleanInv, Sides
<1>1. CASE \E o \in Objects : Upload(o)
  BY <1>1 DEF Upload, BucketsOnly
<1>2. CASE \E o \in Objects : Replicate(o)
  BY <1>2 DEF Replicate, BucketsOnly
<1>3. CASE \E d \in Sides, o \in Objects : Delete(d, o)
  BY <1>3 DEF Delete, BucketsOnly
<1>4. CASE \E d \in Sides, o \in Objects : Damage(d, o)
  BY <1>4 DEF Damage, BucketsOnly
<1>5. CASE CreateJobs
  BY <1>5 DEF CreateJobs
<1>6. CASE \E d \in Sides : GenerateManifest(d)
  BY <1>6 DEF GenerateManifest
<1>7. CASE \E d \in Sides, o \in Objects : RunTask(d, o)
  BY <1>7 DEF RunTask, TaskResult
<1>8. CASE \E d \in Sides, o \in Objects : SpoilTask(d, o)
  BY <1>8 DEF SpoilTask
<1>9. CASE Report
  BY <1>9 DEF Report
<1>10. CASE UNCHANGED vars
  BY <1>10 DEF vars
<1> QED
  BY <1>1, <1>2, <1>3, <1>4, <1>5, <1>6, <1>7, <1>8, <1>9, <1>10 DEF Next

\* Every step without a deletion keeps replicas behind their sources.
LEMMA LateKept == TypeOK /\ SidesInv /\ LateInv /\ [Next]_vars => LateInv'
<1> SUFFICES ASSUME TypeOK, SidesInv, LateInv, [Next]_vars
             PROVE  LateInv'
  OBVIOUS
<1> USE DEF TypeOK, SidesInv, LateInv, Holdings, Sides, Harmed
<1>1. CASE \E o \in Objects : Upload(o)
  BY <1>1 DEF Upload, BucketsOnly
<1>2. CASE \E o \in Objects : Replicate(o)
  BY <1>2 DEF Replicate, BucketsOnly
<1>3. CASE \E d \in Sides, o \in Objects : Delete(d, o)
  BY <1>3 DEF Delete, BucketsOnly
<1>4. CASE \E d \in Sides, o \in Objects : Damage(d, o)
  BY <1>4 DEF Damage, BucketsOnly
<1>5. CASE CreateJobs
  BY <1>5 DEF CreateJobs
<1>6. CASE \E d \in Sides : GenerateManifest(d)
  BY <1>6 DEF GenerateManifest
<1>7. CASE \E d \in Sides, o \in Objects : RunTask(d, o)
  BY <1>7 DEF RunTask, TaskResult
<1>8. CASE \E d \in Sides, o \in Objects : SpoilTask(d, o)
  BY <1>8 DEF SpoilTask
<1>9. CASE Report
  BY <1>9 DEF Report
<1>10. CASE UNCHANGED vars
  BY <1>10 DEF vars
<1> QED
  BY <1>1, <1>2, <1>3, <1>4, <1>5, <1>6, <1>7, <1>8, <1>9, <1>10 DEF Next

\* The initial state satisfies all of it.
LEMMA InitIInv == Init => IInv
<1> SUFFICES ASSUME Init
             PROVE  IInv
  OBVIOUS
<1>1. TypeOK
  BY ComparisonAssumption DEF Init, TypeOK, Reported, Copies, Sides, Results
<1>2. SidesInv /\ StartInv /\ ReportInv
  BY DEF Init, SidesInv, StartInv, ReportInv, Reported, Holdings, ResultsOf, Sides
<1>3. DamageInv /\ CleanInv /\ LateInv
  BY DEF Init, DamageInv, CleanInv, LateInv, Sides
<1> QED
  BY <1>1, <1>2, <1>3 DEF IInv

\* Every variable has its type, and the rest of the invariant holds.
THEOREM IInvHolds == Spec => []IInv
<1>1. Init => IInv
  BY InitIInv
<1>2. IInv /\ [Next]_vars => IInv'
  BY TypeKept, SidesKept, StartKept, ReportKept, DamageKept, CleanKept, LateKept
     DEF IInv
<1> QED
  BY <1>1, <1>2, PTL DEF Spec

-----------------------------------------------------------------------------
(* What a report is worth                                                  *)

\* Every variable has its type.
THEOREM TypeCorrect == Spec => []TypeOK
<1>1. IInv => TypeOK
  BY DEF IInv
<1> QED
  BY <1>1, IInvHolds, PTL

\* A category counts zero exactly if it names no object.
LEMMA CountIsZero ==
    ASSUME TypeOK, ReportInv, Reported,
           NEW c \in {"ok", "mismatch", "missing_replica", "missing_source",
                      "failed_source", "failed_replication"}
    PROVE  Count(c) = 0 <=> ResultsView[c] = {}
<1>1. report[c] \in SUBSET Objects
  BY DEF TypeOK
<1>2. IsFiniteSet(report[c])
  BY <1>1, ComparisonAssumption, FS_Subset
<1>3. Cardinality(report[c]) = 0 <=> report[c] = {}
  BY <1>2, FS_EmptySet
<1> QED
  BY <1>3 DEF Count, ReportInv

\* So a report is ok exactly if the four categories it looks at are empty.
LEMMA OkMeansEmpty ==
    ASSUME TypeOK, ReportInv, Reported
    PROVE  is_ok <=> /\ Compared \ Agreeing = {}
                     /\ MissingFrom("source") = {}
                     /\ Failed("source") = {}
                     /\ Failed("replication") = {}
<1>1. /\ ResultsView["mismatch"] = Compared \ Agreeing
      /\ ResultsView["missing_source"] = MissingFrom("source")
      /\ ResultsView["failed_source"] = Failed("source")
      /\ ResultsView["failed_replication"] = Failed("replication")
  BY DEF ResultsView
<1>2. /\ Count("mismatch") = 0 <=> ResultsView["mismatch"] = {}
      /\ Count("missing_source") = 0 <=> ResultsView["missing_source"] = {}
      /\ Count("failed_source") = 0 <=> ResultsView["failed_source"] = {}
      /\ Count("failed_replication") = 0 <=> ResultsView["failed_replication"] = {}
  BY CountIsZero
<1>3. is_ok <=> /\ Count("mismatch") = 0 /\ Count("missing_source") = 0
                /\ Count("failed_source") = 0 /\ Count("failed_replication") = 0
  BY DEF is_ok
<1> QED
  BY <1>1, <1>2, <1>3

\* Damage that was there before the jobs is raised (perform and is_ok): the
\* harmed side reports its damaged copy or a failure, the other a copy that
\* differs or a failure.  A failed source task whose row is passed over makes
\* a replica without a source.
THEOREM DamageRaised == Spec => []DamageIsRaised
<1>1. IInv => DamageIsRaised
  <2> SUFFICES ASSUME IInv, Reported, is_ok,
                      NEW o \in differed \ (deleted \union Unreadable \union Unseen)
               PROVE  FALSE
    BY DEF DamageIsRaised
  <2> USE DEF IInv
  <2>1. /\ o \in Objects /\ o \in differed \ deleted
        /\ o \notin Unreadable /\ o \notin Unseen
    BY DEF TypeOK
  <2>2. PICK d \in Sides : HarmedFirst(o, d)
    BY <2>1 DEF DamageInv
  <2>3. \A e \in Sides : rows[e][o] \in {"uploaded", Harmed(e), "failed", "unreadable"}
    BY <2>1 DEF DamageInv, ReportInv, SidesInv, ResultsOf
  <2>4. rows["replication"][o] # "failed"
    BY <2>1, OkMeansEmpty DEF Failed, Row, Unseen
  <2>5. rows["source"][o] # "failed"
    <3> SUFFICES ASSUME rows["source"][o] = "failed"
                 PROVE  FALSE
      OBVIOUS
    <3>1. Row("source", o) = "none"
      BY <2>1, OkMeansEmpty DEF Failed, Row
    <3>2. Succeeded("replication", o)
      BY <2>3, <2>4 DEF Succeeded, Row, Copies, Sides, Harmed
    <3> QED
      BY <2>1, <3>1, <3>2, OkMeansEmpty DEF MissingFrom, Other
  <2>6. \A e \in Sides : Row(e, o) = rows[e][o] /\ rows[e][o] # "failed"
    BY <2>4, <2>5 DEF Row, Sides
  <2>7. \A e \in Sides : rows[e][o] # "unreadable"
    BY <2>1, <2>3, <2>6 DEF Unreadable, Succeeded, Copies, Sides, Harmed
  <2>8. rows[d][o] = Harmed(d) /\ rows[Other(d)][o] # Harmed(d)
    BY <2>2, <2>3, <2>6, <2>7 DEF HarmedFirst, Sides, Other, Harmed
  <2>9. o \in Compared \ Agreeing
    BY <2>1, <2>3, <2>6, <2>7, <2>8 DEF Compared, Agreeing, Copies, Sides, Other, Harmed
  <2> QED
    BY <2>9, OkMeansEmpty
<1> QED
  BY <1>1, IInvHolds, PTL

\* A report that is not ok names damage, a failed task, a deletion, or an
\* upload between the two manifests; lagging replication raises nothing.
THEOREM AlarmsAreCaused == Spec => []AlarmsNameACause
<1>1. IInv => AlarmsNameACause
  <2> SUFFICES ASSUME IInv, Reported, faults = 0, deleted = {}, late = {}
               PROVE  is_ok
    BY DEF AlarmsNameACause, IInv, TypeOK
  <2> USE DEF IInv
  <2>1. \A d \in Sides : \A o \in Objects :
            rows[d][o] \in {"none", "uploaded"} /\ Row(d, o) = rows[d][o]
    BY DEF CleanInv, ReportInv, Row
  <2>2. Compared \ Agreeing = {}
    BY <2>1 DEF Compared, Agreeing, Copies, Sides, Harmed
  <2>3. Failed("source") = {} /\ Failed("replication") = {}
    BY <2>1 DEF Failed, Sides
  <2>4. MissingFrom("source") = {}
    BY <2>1 DEF LateInv, ReportInv, MissingFrom, Succeeded, Other, Copies, Sides, Harmed
  <2> QED
    BY <2>2, <2>3, <2>4, OkMeansEmpty
<1> QED
  BY <1>1, IInvHolds, PTL

\* The size of a union of two finite sets without a common element.
LEMMA DisjointUnion ==
    ASSUME NEW S, NEW T, IsFiniteSet(S), IsFiniteSet(T), S \intersect T = {}
    PROVE  /\ IsFiniteSet(S \union T)
           /\ Cardinality(S \union T) = Cardinality(S) + Cardinality(T)
<1>1. Cardinality(S) \in Nat /\ Cardinality(T) \in Nat
  BY FS_CardinalityType
<1>2. Cardinality(S \intersect T) = 0
  BY FS_EmptySet
<1>3. /\ IsFiniteSet(S \union T)
      /\ Cardinality(S \union T)
             = Cardinality(S) + Cardinality(T) - Cardinality(S \intersect T)
  BY FS_Union, Zenon
<1> QED
  BY <1>1, <1>2, <1>3

\* The six counts (total_objects) are those of the versions with a row, but for
\* what fails twice and for what succeeds without a checksum.
THEOREM TotalsExplained == Spec => []TotalsAddUp
<1>1. IInv => TotalsAddUp
  <2> SUFFICES ASSUME IInv, Reported
               PROVE  total_objects + Cardinality(Unreadable)
                          = Cardinality({o \in Objects : HasRow(o)})
                            + Cardinality(Failed("source") \intersect Failed("replication"))
    BY DEF TotalsAddUp
  <2> DEFINE ok == Agreeing
             mismatch == Compared \ Agreeing
             lag == MissingFrom("replication")
             extra == MissingFrom("source")
             fs == Failed("source")
             fr == Failed("replication")
             A1 == ok \union mismatch
             A2 == A1 \union lag
             A3 == A2 \union extra
             A4 == A3 \union Unreadable
             F == fs \union fr
             All == {o \in Objects : HasRow(o)}
  <2>1. \A S \in SUBSET Objects : IsFiniteSet(S) /\ Cardinality(S) \in Nat
    BY ComparisonAssumption, FS_Subset, FS_CardinalityType
  <2>2. /\ ok \subseteq Objects /\ mismatch \subseteq Objects
        /\ lag \subseteq Objects /\ extra \subseteq Objects
        /\ fs \subseteq Objects /\ fr \subseteq Objects
        /\ Unreadable \subseteq Objects
    BY DEF Agreeing, Compared, MissingFrom, Failed, Unreadable
  <2>3. \A d \in Sides : \A o \in Objects :
            Row(d, o) \in Copies \union {"unreadable", "failed", "none"}
    BY DEF IInv, SidesInv, ReportInv, ResultsOf, Row, Copies, Sides, Harmed
  <2>4. /\ ok \intersect mismatch = {} /\ A1 \intersect lag = {}
        /\ A2 \intersect extra = {} /\ A3 \intersect Unreadable = {}
        /\ A4 \intersect F = {}
    BY DEF Agreeing, Compared, MissingFrom, Failed, Unreadable, Succeeded,
           Other, Copies, Sides, Harmed
  <2>5. All = A4 \union F
    BY <2>3 DEF HasRow, Agreeing, Compared, MissingFrom, Failed, Unreadable,
                Succeeded, Other, Copies, Sides, Harmed
  <2>6. Cardinality(A1) = Cardinality(ok) + Cardinality(mismatch)
    BY <2>1, <2>2, <2>4, DisjointUnion
  <2>7. Cardinality(A2) = Cardinality(A1) + Cardinality(lag)
    BY <2>1, <2>2, <2>4, DisjointUnion
  <2>8. Cardinality(A3) = Cardinality(A2) + Cardinality(extra)
    BY <2>1, <2>2, <2>4, DisjointUnion
  <2>9. Cardinality(A4) = Cardinality(A3) + Cardinality(Unreadable)
    BY <2>1, <2>2, <2>4, DisjointUnion
  <2>10. Cardinality(F) = Cardinality(fs) + Cardinality(fr) - Cardinality(fs \intersect fr)
    BY <2>1, <2>2, FS_Union
  <2>11. Cardinality(All) = Cardinality(A4) + Cardinality(F)
    BY <2>1, <2>2, <2>4, <2>5, DisjointUnion
  <2>12. total_objects = Cardinality(ok) + Cardinality(mismatch) + Cardinality(lag)
                         + Cardinality(extra) + Cardinality(fs) + Cardinality(fr)
    BY DEF total_objects, Count, IInv, ReportInv, ResultsView
  <2>13. /\ Cardinality(ok) \in Nat /\ Cardinality(mismatch) \in Nat
         /\ Cardinality(lag) \in Nat /\ Cardinality(extra) \in Nat
         /\ Cardinality(fs) \in Nat /\ Cardinality(fr) \in Nat
         /\ Cardinality(Unreadable) \in Nat /\ Cardinality(fs \intersect fr) \in Nat
    BY <2>1, <2>2
  <2> HIDE DEF ok, mismatch, lag, extra, fs, fr, A1, A2, A3, A4, F, All
  <2>14. total_objects + Cardinality(Unreadable)
             = Cardinality(All) + Cardinality(fs \intersect fr)
    BY <2>6, <2>7, <2>8, <2>9, <2>10, <2>11, <2>12, <2>13
  <2> QED
    BY <2>14 DEF All, fs, fr
<1> QED
  BY <1>1, IInvHolds, PTL
=============================================================================
