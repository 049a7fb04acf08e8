----------------------- MODULE ChecksumDispatch_proofs -----------------------
(***************************************************************************)
(* Proofs about the sweep of bucket-reconciliation and the dispatch of     *)
(* compute-checksums beside requests under way, for any number of buckets, *)
(* requests, attempts and faults: no pair is forgotten, no check is made   *)
(* twice, and a verdict on a stack that is left alone is right.            *)
(***************************************************************************)
EXTENDS ChecksumDispatch, BucketRequest_proofs, FiniteSetTheorems

-----------------------------------------------------------------------------
(* Sequences made from sets *)

\* A set of naturals has a least element: induction, without an operator.
LEMMA Least ==
    ASSUME NEW T \in SUBSET Nat, T # {}
    PROVE  \E x \in T : \A y \in T : x <= y
<1>1. \E R : /\ IsWellFoundedOn(R, Nat)
             /\ \A x, y \in Nat : y < x => <<y, x>> \in R
  <2>1. \A x, y \in Nat : y < x => <<y, x>> \in OpToRel(<, Nat)
    BY DEF OpToRel
  <2> QED BY <2>1, NatLessThanWellFounded
<1>2. PICK R : /\ IsWellFoundedOn(R, Nat)
               /\ \A x, y \in Nat : y < x => <<y, x>> \in R
  BY <1>1
<1>3. PICK x \in T : \A y \in T : ~(<<y, x>> \in R)
  BY <1>2, WFMin
<1>4. \A y \in T : ~(y < x)
  BY <1>2, <1>3
<1>5. x \in Nat /\ \A y \in T : y \in Nat
  OBVIOUS
<1> QED BY <1>4, <1>5

\* What FlattenSeq computes, up to m.
Joins(f, s, m) == f = [i \in 1..m |-> IF i = 1 THEN s[i] ELSE f[i - 1] \o s[i]]

\* There is such a function.
LEMMA JoinExists ==
    ASSUME NEW s, NEW m \in Nat
    PROVE  \E f : Joins(f, s, m)
<1> DEFINE T == {k \in Nat : ~\E f : Joins(f, s, k)}
<1> SUFFICES ASSUME T # {} PROVE FALSE
  OBVIOUS
<1>1. PICK k \in T : \A y \in T : k <= y
  BY Least
<1>2. k # 0
  <2> SUFFICES ASSUME k = 0 PROVE \E f : Joins(f, s, 0)
    OBVIOUS
  <2>1. Joins(<<>>, s, 0)
    BY DEF Joins
  <2> QED BY <2>1
<1>3. PICK g : Joins(g, s, k - 1)
  BY <1>1, <1>2
<1> DEFINE next == IF k = 1 THEN s[k] ELSE g[k - 1] \o s[k]
           f == [i \in 1..k |-> IF i = k THEN next ELSE g[i]]
<1>4. Joins(f, s, k)
  <2>1. g = [i \in 1..(k - 1) |-> IF i = 1 THEN s[i] ELSE g[i - 1] \o s[i]]
    BY <1>3 DEF Joins
  <2> HIDE DEF next
  <2>2. \A i \in 1..k : f[i] = IF i = 1 THEN s[i] ELSE f[i - 1] \o s[i]
    <3> SUFFICES ASSUME NEW i \in 1..k
                 PROVE  f[i] = IF i = 1 THEN s[i] ELSE f[i - 1] \o s[i]
      OBVIOUS
    <3>1. CASE i = k
      BY <3>1 DEF next
    <3>2. CASE i # k
      <4>1. i \in 1..(k - 1) /\ (i # 1 => i - 1 \in 1..k /\ i - 1 # k)
        BY <3>2
      <4>2. g[i] = IF i = 1 THEN s[i] ELSE g[i - 1] \o s[i]
        BY <2>1, <4>1
      <4> QED BY <3>2, <4>1, <4>2
    <3> QED BY <3>1, <3>2
  <2>3. f = [i \in 1..k |-> f[i]]
    OBVIOUS
  <2> HIDE DEF f
  <2> QED BY <2>2, <2>3 DEF Joins
<1> QED BY <1>1, <1>4

\* FlattenSeq is its last value.
LEMMA FlattenJoins ==
    ASSUME NEW s, Len(s) \in Nat, Len(s) # 0
    PROVE  \E f : Joins(f, s, Len(s)) /\ FlattenSeq(s) = f[Len(s)]
<1>1. \E f : f = [i \in 1..Len(s) |-> IF i = 1 THEN s[i] ELSE f[i - 1] \o s[i]]
  BY JoinExists DEF Joins
<1> DEFINE F == CHOOSE f : f = [i \in 1..Len(s) |-> IF i = 1 THEN s[i] ELSE f[i - 1] \o s[i]]
<1>2. F = [i \in 1..Len(s) |-> IF i = 1 THEN s[i] ELSE F[i - 1] \o s[i]]
  BY <1>1
<1>3. FlattenSeq(s) = F[Len(s)]
  BY Zenon DEF FlattenSeq
<1> HIDE DEF F
<1> QED BY <1>2, <1>3 DEF Joins
\* Two sequences joined hold what both hold.
LEMMA JoinFacts ==
    ASSUME NEW S, NEW a \in Seq(S), NEW b \in Seq(S)
    PROVE  /\ a \o b \in Seq(S)
           /\ ToSet(a \o b) = ToSet(a) \cup ToSet(b)
           /\ IsInjective(a) /\ IsInjective(b) /\ ToSet(a) \cap ToSet(b) = {}
                 => IsInjective(a \o b)
<1> DEFINE c == a \o b
<1>1. /\ c \in Seq(S) /\ Len(c) = Len(a) + Len(b)
      /\ \A k \in 1..(Len(a) + Len(b)) :
            c[k] = IF k <= Len(a) THEN a[k] ELSE b[k - Len(a)]
  BY ConcatProperties
<1>2. /\ DOMAIN a = 1..Len(a) /\ DOMAIN b = 1..Len(b) /\ DOMAIN c = 1..Len(c)
      /\ Len(a) \in Nat /\ Len(b) \in Nat
  BY <1>1
<1> HIDE DEF c
<1>3. \A k \in DOMAIN c : \/ k \in DOMAIN a /\ c[k] = a[k]
                          \/ /\ k \notin DOMAIN a
                             /\ k - Len(a) \in DOMAIN b /\ c[k] = b[k - Len(a)]
  BY <1>1, <1>2
<1>4. /\ \A k \in DOMAIN a : k \in DOMAIN c /\ c[k] = a[k]
      /\ \A k \in DOMAIN b : k + Len(a) \in DOMAIN c /\ c[k + Len(a)] = b[k]
  <2>1. \A k \in DOMAIN a : k \in DOMAIN c /\ c[k] = a[k]
    BY <1>1, <1>2
  <2>2. \A k \in DOMAIN b : /\ k + Len(a) \in 1..(Len(a) + Len(b))
                            /\ ~(k + Len(a) <= Len(a))
                            /\ (k + Len(a)) - Len(a) = k
    BY <1>2
  <2>3. \A k \in DOMAIN b : c[k + Len(a)] = b[(k + Len(a)) - Len(a)]
    BY <1>1, <2>2
  <2> QED BY <1>1, <1>2, <2>1, <2>2, <2>3
<1>5. ToSet(c) = ToSet(a) \cup ToSet(b)
  BY <1>3, <1>4 DEF ToSet
<1>6. ASSUME IsInjective(a), IsInjective(b), ToSet(a) \cap ToSet(b) = {}
      PROVE  IsInjective(c)
  <2> SUFFICES ASSUME NEW k \in DOMAIN c, NEW l \in DOMAIN c, c[k] = c[l]
               PROVE  k = l
    BY DEF IsInjective
  <2>1. CASE k \in DOMAIN a /\ l \in DOMAIN a
    BY <1>3, <1>6, <2>1 DEF IsInjective
  <2>2. CASE k \notin DOMAIN a /\ l \notin DOMAIN a
    <3>1. k - Len(a) = l - Len(a)
      BY <1>3, <1>6, <2>2 DEF IsInjective
    <3> QED BY <1>2, <3>1
  <2>3. CASE k \in DOMAIN a <=> l \notin DOMAIN a
    BY <1>3, <1>6, <2>3 DEF ToSet
  <2> QED BY <2>1, <2>2, <2>3
<1> QED BY <1>1, <1>5, <1>6 DEF c

\* The sequences of s hold nothing twice, within one or among them.
Apart(s) ==
    \A i \in 1..Len(s) :
        /\ IsInjective(s[i])
        /\ \A j \in 1..Len(s) : i # j => ToSet(s[i]) \cap ToSet(s[j]) = {}

\* Flattening keeps what the sequences hold, and no more often.
LEMMA FlattenFacts ==
    ASSUME NEW S, NEW s \in Seq(Seq(S))
    PROVE  /\ FlattenSeq(s) \in Seq(S)
           /\ \A x : x \in ToSet(FlattenSeq(s)) <=>
                        \E i \in 1..Len(s) : x \in ToSet(s[i])
           /\ Apart(s) => IsInjective(FlattenSeq(s))
<1>1. CASE Len(s) = 0
  <2>1. s = <<>> /\ FlattenSeq(s) = s
    BY <1>1 DEF FlattenSeq
  <2> DEFINE e == <<>>
  <2>2. DOMAIN e = {} /\ e \in Seq(S) /\ FlattenSeq(s) = e
    BY <2>1
  <2> HIDE DEF e
  <2> QED BY <1>1, <2>2 DEF ToSet, IsInjective
<1>2. CASE Len(s) # 0
  <2> DEFINE m == Len(s)
  <2>1. m \in Nat /\ \A i \in 1..m : s[i] \in Seq(S)
    OBVIOUS
  <2>2. PICK f : Joins(f, s, m) /\ FlattenSeq(s) = f[m]
    BY <1>2, <2>1, FlattenJoins
  <2> HIDE DEF m
  <2>3. \A i \in 1..m : f[i] = IF i = 1 THEN s[i] ELSE f[i - 1] \o s[i]
    BY <2>1, <2>2 DEF Joins
  <2> DEFINE Good(i) == /\ f[i] \in Seq(S)
                        /\ \A x : x \in ToSet(f[i]) <=>
                                     \E j \in 1..i : x \in ToSet(s[j])
                        /\ Apart(s) => IsInjective(f[i])
             T == {i \in 1..m : ~Good(i)}
  <2>4. T = {}
    <3> SUFFICES ASSUME T # {} PROVE FALSE
      OBVIOUS
    <3>0. T \subseteq Nat
      OBVIOUS
    <3>1. PICK i \in T : \A y \in T : i <= y
      BY <3>0, Least
    <3>2. i \in 1..m /\ ~Good(i)
      BY <3>1
    <3>3. i # 1
      <4> SUFFICES ASSUME i = 1 PROVE Good(1)
        BY <3>2
      <4>1. f[1] = s[1] /\ s[1] \in Seq(S) /\ 1 \in 1..m
        BY <2>1, <2>3, <3>2
      <4>2. \A j : j \in 1..1 <=> j = 1
        OBVIOUS
      <4> QED BY <4>1, <4>2 DEF Apart, m
    <3> DEFINE p == i - 1
    <3>4. /\ p \in 1..m /\ ~(i <= p)
          /\ \A j : j \in 1..i <=> j \in 1..p \/ j = i
      BY <2>1, <3>2, <3>3
    <3>5. Good(p)
      BY <3>1, <3>4
    <3>6. f[i] = f[p] \o s[i] /\ s[i] \in Seq(S)
      BY <2>1, <2>3, <3>2, <3>3
    <3> HIDE DEF p
    <3>7. /\ f[i] \in Seq(S)
          /\ ToSet(f[i]) = ToSet(f[p]) \cup ToSet(s[i])
          /\ IsInjective(f[p]) /\ IsInjective(s[i])
                /\ ToSet(f[p]) \cap ToSet(s[i]) = {} => IsInjective(f[i])
      BY <3>5, <3>6, JoinFacts
    <3>8. ASSUME Apart(s)
          PROVE  IsInjective(s[i]) /\ ToSet(f[p]) \cap ToSet(s[i]) = {}
      <4>1. \A j \in 1..p : j \in 1..m /\ j # i
        BY <2>1, <3>2 DEF p
      <4> QED BY <3>2, <3>5, <3>8, <4>1 DEF Apart, m
    <3>9. \A x : x \in ToSet(f[i]) <=> \E j \in 1..i : x \in ToSet(s[j])
      BY <3>4, <3>5, <3>7
    <3>10. Good(i)
      BY <3>5, <3>7, <3>8, <3>9
    <3> QED BY <3>2, <3>10
  <2>5. m \in 1..m
    BY <1>2, <2>1 DEF m
  <2>6. Good(m)
    BY <2>4, <2>5
  <2> QED BY <2>2, <2>6 DEF m
<1> QED BY <1>1, <1>2

\* A finite set as a sequence: each of its elements, once.
LEMMA SetSequence ==
    ASSUME NEW S, IsFiniteSet(S)
    PROVE  /\ SetToSeq(S) \in Seq(S)
           /\ ToSet(SetToSeq(S)) = S
           /\ IsInjective(SetToSeq(S))
           /\ SetToSeq(S) = <<>> <=> S = {}
<1> DEFINE n == Cardinality(S)
           q == SetToSeq(S)
<1>1. n \in Nat /\ \E f : f \in Bijection(1..n, S)
  BY FS_CardinalityType, FS_NatBijection DEF ExistsBijection
<1>2. PICK f : f \in Bijection(1..n, S)
  BY <1>1
<1>3. f \in [1..n -> S] /\ IsInjective(f)
  BY <1>2 DEF Bijection, Injection, IsInjective
<1>4. q \in [1..n -> S] /\ IsInjective(q)
  BY <1>3 DEF SetToSeq
<1> HIDE DEF n, q
<1>5. q \in Injection(1..n, S)
  BY <1>4 DEF Injection, IsInjective
<1>6. ToSet(q) = S
  <2>1. Cardinality(1..n) = n
    BY <1>1, FS_Interval
  <2>2. Cardinality(1..n) = Cardinality(S)
    BY <2>1 DEF n
  <2>3. q \in Surjection(1..n, S)
    BY <1>5, <2>2, FS_Injection
  <2> QED BY <1>4, <2>3 DEF ToSet, Surjection
<1>7. q \in Seq(S) /\ Len(q) = n
  BY <1>1, <1>4
<1>8. q = <<>> <=> S = {}
  BY <1>1, <1>6, <1>7 DEF ToSet
<1> QED BY <1>4, <1>6, <1>7, <1>8 DEF q
-----------------------------------------------------------------------------
(* The checks of a sweep *)

CheckNames == Configurations \cup {"transition_tag", "bucket_policy"}
ReplicaChecks == {"transition_tag", "versioning", "lifecycle"}
StandardChecks == ReplicaChecks
                  \cup {"replication", "notifications", "logging", "inventory"}
PublicChecks == StandardChecks \cup {"public_access", "bucket_policy"}

\* The checks a bucket gets, as a set.
ChecksFor(b) == IF b[2] = "replica" THEN ReplicaChecks
                ELSE IF b[1] \in PublicNames THEN PublicChecks
                ELSE StandardChecks

\* A bucket gets each of its checks once.
LEMMA CheckFacts ==
    ASSUME NEW b
    PROVE  /\ Checks(b) \in Seq(CheckNames)
           /\ ToSet(Checks(b)) = ChecksFor(b)
           /\ IsInjective(Checks(b))
<1>1. /\ ReconcileReplication \in Seq(CheckNames)
      /\ ToSet(ReconcileReplication) = ReplicaChecks
      /\ IsInjective(ReconcileReplication)
  <2> DEFINE q == ReconcileReplication
  <2>1. /\ DOMAIN q = {1, 2, 3}
        /\ q[1] = "transition_tag" /\ q[2] = "versioning" /\ q[3] = "lifecycle"
    BY DEF ReconcileReplication
  <2>2. q \in Seq(CheckNames)
    BY DEF ReconcileReplication, CheckNames, Configurations, EveryBucket, StandardBucket
  <2> HIDE DEF q
  <2> QED BY <2>1, <2>2 DEF ToSet, IsInjective, ReplicaChecks, q
<1>2. /\ ReconcileStandard \in Seq(CheckNames)
      /\ ToSet(ReconcileStandard) = StandardChecks
      /\ IsInjective(ReconcileStandard)
  <2> DEFINE q == <<"replication", "notifications", "logging", "inventory">>
  <2>1. /\ DOMAIN q = {1, 2, 3, 4}
        /\ q[1] = "replication" /\ q[2] = "notifications"
        /\ q[3] = "logging" /\ q[4] = "inventory"
    OBVIOUS
  <2>2. q \in Seq(CheckNames)
    BY DEF CheckNames, Configurations, EveryBucket, StandardBucket
  <2>3. ReconcileStandard = ReconcileReplication \o q
    BY DEF ReconcileStandard
  <2> HIDE DEF q
  <2>4. /\ ToSet(q) = {"replication", "notifications", "logging", "inventory"}
        /\ IsInjective(q)
    BY <2>1 DEF ToSet, IsInjective
  <2>5. ToSet(ReconcileReplication) \cap ToSet(q) = {}
    BY <1>1, <2>4 DEF ReplicaChecks
  <2> QED BY <1>1, <2>2, <2>3, <2>4, <2>5, JoinFacts DEF StandardChecks
<1>3. /\ ReconcilePublic \in Seq(CheckNames)
      /\ ToSet(ReconcilePublic) = PublicChecks
      /\ IsInjective(ReconcilePublic)
  <2> DEFINE q == <<"public_access", "bucket_policy">>
  <2>1. DOMAIN q = {1, 2} /\ q[1] = "public_access" /\ q[2] = "bucket_policy"
    OBVIOUS
  <2>2. q \in Seq(CheckNames)
    BY DEF CheckNames, Configurations, EveryBucket, StandardBucket
  <2>3. ReconcilePublic = ReconcileStandard \o q
    BY DEF ReconcilePublic
  <2> HIDE DEF q
  <2>4. ToSet(q) = {"public_access", "bucket_policy"} /\ IsInjective(q)
    BY <2>1 DEF ToSet, IsInjective
  <2>5. ToSet(ReconcileStandard) \cap ToSet(q) = {}
    BY <1>2, <2>4 DEF StandardChecks, ReplicaChecks
  <2> QED BY <1>2, <2>2, <2>3, <2>4, <2>5, JoinFacts DEF PublicChecks
<1> QED BY <1>1, <1>2, <1>3 DEF Checks, ChecksFor

Tasks == Buckets \X CheckNames

\* So do the tasks made of them.
LEMMA TaskFacts ==
    ASSUME NEW b \in Buckets
    PROVE  /\ ChecksOf(b) \in Seq(Tasks)
           /\ \A x : x \in ToSet(ChecksOf(b)) <=>
                        \E c \in ChecksFor(b) : x = <<b, c>>
           /\ IsInjective(ChecksOf(b))
           /\ ChecksOf(b) # <<>>
<1> DEFINE c == Checks(b)
           q == ChecksOf(b)
<1>1. /\ c \in Seq(CheckNames) /\ ToSet(c) = ChecksFor(b) /\ IsInjective(c)
      /\ Len(c) \in Nat /\ DOMAIN c = 1..Len(c)
  BY CheckFacts
<1>2. q = [k \in 1..Len(c) |-> <<b, c[k]>>]
  BY DEF ChecksOf
<1> HIDE DEF c, q
<1>3. DOMAIN q = DOMAIN c /\ \A k \in DOMAIN c : q[k] = <<b, c[k]>>
  BY <1>1, <1>2
<1>4. \A x : x \in ToSet(q) <=> \E d \in ChecksFor(b) : x = <<b, d>>
  BY <1>1, <1>3 DEF ToSet
<1>5. IsInjective(q)
  BY <1>1, <1>3 DEF IsInjective
<1>6. q \in Seq(Tasks)
  <2>1. \A k \in 1..Len(c) : <<b, c[k]>> \in Tasks
    BY <1>1 DEF Tasks
  <2> QED BY <1>1, <1>2, <2>1
<1>7. q # <<>>
  <2>1. "versioning" \in ToSet(c)
    BY <1>1 DEF ChecksFor, ReplicaChecks, StandardChecks, PublicChecks
  <2> QED BY <1>3, <2>1 DEF ToSet
<1> QED BY <1>4, <1>5, <1>6, <1>7 DEF q

\* The tasks of one side.
TasksOf(found) ==
    LET q == SetToSeq(found) IN FlattenSeq([k \in 1..Len(q) |-> ChecksOf(q[k])])

\* Each bucket of a set gets each of its checks once.
LEMMA SideFacts ==
    ASSUME NEW found \in SUBSET Buckets, IsFiniteSet(found)
    PROVE  /\ TasksOf(found) \in Seq(Tasks)
           /\ \A x : x \in ToSet(TasksOf(found)) <=>
                        \E b \in found : \E c \in ChecksFor(b) : x = <<b, c>>
           /\ IsInjective(TasksOf(found))
<1> DEFINE q == SetToSeq(found)
           s == [k \in 1..Len(q) |-> ChecksOf(q[k])]
<1>1. /\ q \in Seq(found) /\ ToSet(q) = found /\ IsInjective(q)
      /\ Len(q) \in Nat /\ DOMAIN q = 1..Len(q)
  BY SetSequence
<1>2. TasksOf(found) = FlattenSeq(s)
  BY DEF TasksOf
<1> HIDE DEF q
<1>3. \A k \in 1..Len(q) : q[k] \in found /\ q[k] \in Buckets
  BY <1>1
<1>4. /\ s \in Seq(Seq(Tasks)) /\ Len(s) = Len(q)
      /\ \A k \in 1..Len(s) : s[k] = ChecksOf(q[k])
  <2>1. \A k \in 1..Len(q) : ChecksOf(q[k]) \in Seq(Tasks)
    BY <1>3, TaskFacts
  <2> QED BY <1>1, <2>1
<1> HIDE DEF s
<1>5. Apart(s)
  <2> SUFFICES ASSUME NEW i \in 1..Len(s)
               PROVE  /\ IsInjective(s[i])
                      /\ \A j \in 1..Len(s) :
                            i # j => ToSet(s[i]) \cap ToSet(s[j]) = {}
    BY DEF Apart
  <2>1. IsInjective(s[i])
    BY <1>3, <1>4, TaskFacts
  <2>2. ASSUME NEW j \in 1..Len(s), i # j
        PROVE  ToSet(s[i]) \cap ToSet(s[j]) = {}
    <3>1. q[i] # q[j]
      BY <1>1, <1>4, <2>2 DEF IsInjective
    <3>2. /\ \A x : x \in ToSet(s[i]) <=> \E c \in ChecksFor(q[i]) : x = <<q[i], c>>
          /\ \A x : x \in ToSet(s[j]) <=> \E c \in ChecksFor(q[j]) : x = <<q[j], c>>
      BY <1>3, <1>4, TaskFacts
    <3> QED BY <3>1, <3>2
  <2> QED BY <2>1, <2>2
<1>6. /\ FlattenSeq(s) \in Seq(Tasks)
      /\ \A x : x \in ToSet(FlattenSeq(s)) <=>
                   \E i \in 1..Len(s) : x \in ToSet(s[i])
      /\ IsInjective(FlattenSeq(s))
  BY <1>4, <1>5, FlattenFacts
<1>7. ASSUME NEW x
      PROVE  (\E i \in 1..Len(s) : x \in ToSet(s[i])) <=>
                \E b \in found : \E c \in ChecksFor(b) : x = <<b, c>>
  <2>1. \A i \in 1..Len(s) :
           x \in ToSet(s[i]) <=> \E c \in ChecksFor(q[i]) : x = <<q[i], c>>
    BY <1>3, <1>4, TaskFacts
  <2>2. \A b \in found : \E i \in 1..Len(s) : q[i] = b
    BY <1>1, <1>4 DEF ToSet
  <2> QED BY <1>3, <1>4, <2>1, <2>2
<1> QED BY <1>2, <1>6, <1>7

\* The plan of a sweep: all checks of all listed buckets, each once.
LEMMA PlansFacts ==
    ASSUME NEW found \in SUBSET Buckets, IsFiniteSet(found)
    PROVE  /\ Plans(found) \in Seq(Tasks)
           /\ \A x : x \in ToSet(Plans(found)) <=>
                        \E b \in found : \E c \in ChecksFor(b) : x = <<b, c>>
           /\ IsInjective(Plans(found))
           /\ Plans(found) = <<>> <=> found = {}
<1> DEFINE Of(side) == {b \in found : b[2] = side}
           p == TasksOf(Of("primary"))
           r == TasksOf(Of("replica"))
<1>1. \A side : IsFiniteSet(Of(side)) /\ Of(side) \in SUBSET Buckets
  BY FS_Subset
<1>2. found = Of("primary") \cup Of("replica")
  BY DEF Buckets, Sides
<1>3. Plans(found) = p \o r
  BY Zenon DEF Plans, TasksOf
<1>4. /\ p \in Seq(Tasks) /\ IsInjective(p)
      /\ \A x : x \in ToSet(p) <=>
                   \E b \in Of("primary") : \E c \in ChecksFor(b) : x = <<b, c>>
  BY <1>1, SideFacts
<1>5. /\ r \in Seq(Tasks) /\ IsInjective(r)
      /\ \A x : x \in ToSet(r) <=>
                   \E b \in Of("replica") : \E c \in ChecksFor(b) : x = <<b, c>>
  BY <1>1, SideFacts
<1> HIDE DEF p, r
<1>6. ToSet(p) \cap ToSet(r) = {}
  <2> SUFFICES ASSUME NEW x \in ToSet(p), x \in ToSet(r)
               PROVE  FALSE
    OBVIOUS
  <2>1. PICK b \in Of("primary") : \E c : x = <<b, c>>
    BY <1>4
  <2>2. PICK d \in Of("replica") : \E e : x = <<d, e>>
    BY <1>5
  <2> QED BY <2>1, <2>2
<1>7. /\ p \o r \in Seq(Tasks) /\ ToSet(p \o r) = ToSet(p) \cup ToSet(r)
      /\ IsInjective(p \o r)
  BY <1>4, <1>5, <1>6, JoinFacts
<1>8. \A x : x \in ToSet(p \o r) <=>
                \E b \in found : \E c \in ChecksFor(b) : x = <<b, c>>
  BY <1>2, <1>4, <1>5, <1>7
<1>9. p \o r = <<>> <=> found = {}
  <2> DEFINE t == p \o r
  <2>1. \A b \in found : <<b, "versioning">> \in ToSet(t)
    BY <1>8 DEF ChecksFor, ReplicaChecks, StandardChecks, PublicChecks
  <2>2. t \in Seq(Tasks) /\ \A x : x \in ToSet(t) => \E b \in found : TRUE
    BY <1>7, <1>8
  <2> HIDE DEF t
  <2>3. t = <<>> => ToSet(t) = {}
    BY DEF ToSet
  <2>4. t # <<>> => t[1] \in ToSet(t)
    BY <2>2 DEF ToSet
  <2> QED BY <2>1, <2>2, <2>3, <2>4 DEF t
<1> QED BY <1>3, <1>7, <1>8, <1>9
-----------------------------------------------------------------------------
(* What requests under way leave behind *)

\* Replication is configured last: whatever a rollback or a crash leaves, the
\* primary bucket that carries it is complete, and so is its replica, unless
\* that has been deleted.
ReplicatedInv ==
    \A n \in Names :
        "replication" \in applied[<<n, "primary">>] =>
            /\ Complete(n, "primary")
            /\ <<n, "replica">> \in exists => Complete(n, "replica")

\* A stack has finitely many buckets at any time.
StackInv == ReplicatedInv /\ IsFiniteSet(exists)

\* A call that lands configures replication only where all else is.
LEMMA LandedReplicates ==
    ASSUME IInv, ReplicatedInv, NEW i \in Invocations, pc[i] = "create",
           Accepted(CallOf(i), BucketOf(i)), Landed(CallOf(i), BucketOf(i))
    PROVE  ReplicatedInv'
<1> DEFINE m == NameOf(i)
           k == step[i]
           B == BucketOf(i)
           call == CallOf(i)
           P == <<m, "primary">>
           R == <<m, "replica">>
<1>1. StoreTypes /\ OwnerInv /\ ProgressOf(i) /\ CleanInv
  BY DEF IInv, ProgressInv
<1>2. /\ m \in Names /\ k \in 1..Len(Plan(m)) /\ Len(Plan(m)) \in Nat
      /\ B = <<m, Plan(m)[k][1]>> /\ B \in Buckets /\ B[2] \in Sides
      /\ Plan(m)[k] = <<B[2], call>>
      /\ call = "create" <=> k = CreateAt(m, B[2])
      /\ call # "create" => Owns(i, B)
  BY AtWork
<1>3. /\ \A b \in Buckets : b # B =>
            /\ b \in exists' <=> b \in exists
            /\ applied'[b] = applied[b] /\ policy'[b] = policy[b]
      /\ B \in exists'
      /\ exists \subseteq exists'
  BY LandedFacts
<1>4. P \in Buckets /\ R \in Buckets /\ P # R /\ (B = P \/ B = R)
  BY <1>2 DEF Buckets, Sides
<1>5. k > CreateAt(m, B[2]) \/ call = "create"
  <2>1. B[2] \in Sides /\ Plan(m)[k][1] = B[2]
    BY <1>2
  <2>2. k >= CreateAt(m, B[2])
    BY <1>2, <2>1, PlanOrder
  <2>3. CreateAt(m, B[2]) \in Nat
    BY PlanFacts DEF CreateAt
  <2> QED BY <1>2, <2>2, <2>3
<1>6. CreateAt(m, "primary") = 1 /\ CreateAt(m, "replica") > 1
      /\ CreateAt(m, "replica") \in Nat
  BY PlanFacts DEF CreateAt
<1>7. k > 1 => Owns(i, P) /\ "replication" \notin applied[P]
  <2> SUFFICES ASSUME k > 1
               PROVE  Owns(i, P) /\ "replication" \notin applied[P]
    OBVIOUS
  <2>1. Owns(i, P)
    BY <1>6 DEF Owns, Busy
  <2>2. applied[P] = AppliedBy(m, "primary", k)
    BY <1>1, <2>1 DEF ProgressOf, Sides
  <2>3. ASSUME NEW j \in 1..(k - 1), Plan(m)[j] = <<"primary", "replication">>
        PROVE  FALSE
    <3>1. j \in 1..Len(Plan(m)) /\ j # Len(Plan(m))
      BY <1>2
    <3> QED BY <2>3, <3>1, PlanReplicates
  <2> QED BY <2>1, <2>2, <2>3 DEF AppliedBy
<1>8. /\ applied'[B] = applied[B] \cup ({call} \cap Configurations)
      /\ call = "replication" => policy'[B] = policy[B]
  <2> HIDE DEF B, call
  <2>1. Landed(call, B) /\ B \in Buckets
    BY <1>2 DEF B, call
  <2>2. applied \in [Buckets -> SUBSET Configurations]
        /\ policy \in [Buckets -> Policies]
    BY <1>1 DEF StoreTypes
  <2> QED BY <2>1, <2>2 DEF Landed, PolicyAfter
<1> SUFFICES ASSUME NEW n \in Names,
                    "replication" \in applied'[<<n, "primary">>]
             PROVE  /\ Complete(n, "primary")'
                    /\ <<n, "replica">> \in exists' => Complete(n, "replica")'
  BY DEF ReplicatedInv
<1>9. CASE n # m
  <2>1. /\ <<n, "primary">> \in Buckets /\ <<n, "replica">> \in Buckets
        /\ <<n, "primary">> # B /\ <<n, "replica">> # B
    BY <1>2, <1>9 DEF Buckets, Sides
  <2>2. "replication" \in applied[<<n, "primary">>]
    BY <1>3, <2>1
  <2>3. /\ Complete(n, "primary")
        /\ <<n, "replica">> \in exists => Complete(n, "replica")
    BY <2>2 DEF ReplicatedInv
  <2> QED BY <1>3, <2>1, <2>3 DEF Complete
<1>10. CASE n = m /\ call = "create"
  <2>1. CASE B = P
    <3>1. B \notin exists
      BY <1>10 DEF Accepted
    <3>2. applied[B] = {}
      BY <1>1, <1>2, <3>1 DEF CleanInv
    <3>3. applied'[P] = {}
      BY <1>8, <1>10, <2>1, <3>2 DEF Configurations, EveryBucket, StandardBucket
    <3> QED BY <1>10, <3>3
  <2>2. CASE B = R
    <3>1. k > 1
      BY <1>2, <1>6, <1>10, <2>2
    <3>2. applied'[P] = applied[P]
      BY <1>3, <1>4, <2>2
    <3> QED BY <1>7, <1>10, <3>1, <3>2
  <2> QED BY <1>4, <2>1, <2>2
<1>11. CASE n = m /\ call # "create"
  <2>1. k > 1
    BY <1>2, <1>4, <1>5, <1>6, <1>11
  <2>2. "replication" \notin applied[P]
    BY <1>7, <2>1
  <2>3. B = P /\ call = "replication"
    BY <1>3, <1>4, <1>8, <1>11, <2>2
  <2>4. k = Len(Plan(m))
    <3>1. Plan(m)[k] = <<"primary", "replication">>
      BY <1>2, <2>3
    <3> QED BY <1>2, <3>1, PlanReplicates
  <2>5. Owns(i, P) /\ Owns(i, R)
    <3>1. "replica" \in Sides
      BY DEF Sides
    <3>2. CreateAt(m, "replica") < k
      BY <1>2, <2>4, <3>1, PlanOrder
    <3> QED BY <1>7, <2>1, <3>2 DEF Owns, Busy
  <2>6. /\ applied[P] = AppliedBy(m, "primary", k)
        /\ policy[P] = PolicyBy(m, "primary", k)
        /\ applied[R] = AppliedBy(m, "replica", k)
        /\ policy[R] = PolicyBy(m, "replica", k)
    BY <1>1, <2>5 DEF ProgressOf, Sides
  <2>7. /\ applied[P] \cup {"replication"} = Expected(m, "primary")
        /\ applied[R] = Expected(m, "replica")
        /\ policy[P] = IF m \in PublicNames THEN "public" ELSE "none"
        /\ policy[R] = "none"
    BY <2>4, <2>6, PlanEnds
  <2>8. P \in exists' /\ R \in exists'
    BY <1>1, <1>3, <1>4, <2>5 DEF OwnerInv
  <2>9. /\ applied'[P] = applied[P] \cup {"replication"} /\ policy'[P] = policy[P]
        /\ applied'[R] = applied[R] /\ policy'[R] = policy[R]
    BY <1>3, <1>4, <1>8, <2>3 DEF Configurations, EveryBucket, StandardBucket
  <2>10. Complete(n, "primary")'
    BY <1>11, <2>7, <2>8, <2>9 DEF Complete, Expected
  <2>11. Complete(n, "replica")'
    BY <1>11, <2>7, <2>8, <2>9 DEF Complete, Expected
  <2> QED BY <2>10, <2>11
<1> QED BY <1>9, <1>10, <1>11

\* A rollback deletes a bucket with its configuration.
LEMMA DeletedReplicates ==
    ASSUME StoreTypes, ReplicatedInv, NEW B \in Buckets, Deleted(B)
    PROVE  ReplicatedInv'
<1>1. /\ exists' = exists \ {B}
      /\ \A b \in Buckets : b # B =>
            applied'[b] = applied[b] /\ policy'[b] = policy[b]
      /\ applied'[B] = {}
  BY DEF Deleted, StoreTypes
<1> SUFFICES ASSUME NEW n \in Names,
                    "replication" \in applied'[<<n, "primary">>]
             PROVE  /\ Complete(n, "primary")'
                    /\ <<n, "replica">> \in exists' => Complete(n, "replica")'
  BY DEF ReplicatedInv
<1>2. <<n, "primary">> \in Buckets /\ <<n, "replica">> \in Buckets
  BY DEF Buckets, Sides
<1>3. <<n, "primary">> # B
  BY <1>1
<1>4. /\ Complete(n, "primary")
      /\ <<n, "replica">> \in exists => Complete(n, "replica")
  BY <1>1, <1>2, <1>3 DEF ReplicatedInv
<1> QED BY <1>1, <1>2, <1>3, <1>4 DEF Complete

\* What a step of a request does to the buckets.
LEMMA RequestMoves ==
    ASSUME IInv, Next
    PROVE  \/ UNCHANGED s3Vars
           \/ \E i \in Invocations : /\ pc[i] = "create"
                                     /\ Accepted(CallOf(i), BucketOf(i))
                                     /\ Landed(CallOf(i), BucketOf(i))
           \/ \E b \in Buckets : Deleted(b)
<1>1. ASSUME NEW i \in Invocations, Rollback(i)
      PROVE  UNCHANGED s3Vars \/ \E b \in Buckets : Deleted(b)
  <2>1. LocalOf(i) /\ pc[i] = "undo"
    BY <1>1 DEF IInv, LocalInv, Rollback
  <2>2. undo[i] \in Rollbacks /\ NameOf(i) \in Names
    BY <2>1 DEF LocalOf, Busy, NameOf, Valid
  <2>3. \A u \in Rollbacks : Head(u) \in Sides
    BY DEF Rollbacks, Sides
  <2>4. <<NameOf(i), Head(undo[i])>> \in Buckets
    BY <2>2, <2>3 DEF Buckets
  <2> QED BY <1>1, <2>4 DEF Rollback
<1>2. ASSUME NEW i \in Invocations,
             Deliver(i) \/ ReadRequest(i) \/ PutFeedback(i)
             \/ DeleteRequest(i) \/ TriggerSync(i) \/ Crash(i)
      PROVE  UNCHANGED s3Vars
  BY <1>2 DEF Deliver, ReadRequest, PutFeedback, DeleteRequest, TriggerSync,
              Crash, s3Vars
<1>3. ASSUME NEW i \in Invocations, MakeCall(i) \/ FailCall(i)
      PROVE  \/ UNCHANGED s3Vars
             \/ /\ pc[i] = "create"
                /\ Accepted(CallOf(i), BucketOf(i))
                /\ Landed(CallOf(i), BucketOf(i))
  BY <1>3 DEF MakeCall, FailCall
<1>4. \/ \E r \in Requests : UploadRequest(r)
      \/ \E i \in Invocations : Deliver(i) \/ Perform(i) \/ Crash(i)
      \/ \E n \in Names : UserUploads(n)
  BY DEF Next
<1>5. (\E r \in Requests : UploadRequest(r)) \/ (\E n \in Names : UserUploads(n))
        => UNCHANGED s3Vars
  BY DEF UploadRequest, UserUploads
<1> QED BY <1>1, <1>2, <1>3, <1>4, <1>5 DEF Perform

\* Requests keep what the sweep relies on.
LEMMA RequestsKeepStack ==
    ASSUME IInv, StackInv, Next
    PROVE  StackInv'
<1>0. StoreTypes
  BY DEF IInv
<1>1. CASE UNCHANGED s3Vars
  <2>1. exists' = exists /\ applied' = applied /\ policy' = policy
    BY <1>1 DEF s3Vars
  <2> QED BY <2>1 DEF StackInv, ReplicatedInv, Complete
<1>2. ASSUME NEW i \in Invocations, pc[i] = "create",
             Accepted(CallOf(i), BucketOf(i)), Landed(CallOf(i), BucketOf(i))
      PROVE  StackInv'
  <2>1. exists' = exists \/ exists' = exists \cup {BucketOf(i)}
    BY <1>2 DEF Landed, PolicyAfter
  <2>2. IsFiniteSet(exists')
    BY <2>1, FS_AddElement DEF StackInv
  <2> QED BY <1>2, <2>2, LandedReplicates DEF StackInv
<1>3. ASSUME NEW b \in Buckets, Deleted(b)
      PROVE  StackInv'
  <2>1. exists' = exists \ {b}
    BY <1>3 DEF Deleted
  <2>2. IsFiniteSet(exists')
    BY <2>1, FS_RemoveElement DEF StackInv
  <2> QED BY <1>0, <1>3, <2>2, DeletedReplicates DEF StackInv
<1> QED BY <1>1, <1>2, <1>3, RequestMoves

\* An attempt that has ended well stays so.
LEMMA OkStays ==
    ASSUME IInv, Next, NEW i \in Invocations, pc[i] = "ok"
    PROVE  pc'[i] = "ok"
<1>1. ASSUME NEW j \in Invocations, Deliver(j) \/ Perform(j) \/ Crash(j)
      PROVE  pc'[i] = "ok"
  <2>1. StepOf(j)
    BY <1>1, DeliverStep, ReadStep, MakeStep, FailStep, RollbackStep,
       FeedbackStep, TailSteps, CrashStep DEF Perform
  <2>2. pc[j] # "ok"
    BY <1>1 DEF Deliver, Perform, Crash, ReadRequest, MakeCall, FailCall,
                Rollback, PutFeedback, DeleteRequest, TriggerSync, Running
  <2> QED BY <2>1, <2>2 DEF StepOf, Alone
<1>2. ASSUME \/ \E r \in Requests : UploadRequest(r)
             \/ \E n \in Names : UserUploads(n)
      PROVE  pc'[i] = "ok"
  BY <1>2 DEF UploadRequest, UserUploads, callVars
<1> QED BY <1>1, <1>2 DEF Next
-----------------------------------------------------------------------------
(* The invariant *)

Statuses == {"ok", "drift", "error"}
FaultTypes == faults \in [FaultKinds -> 0..MaxFaults]

\* A check is still to be made, or made.
Accounted(b, c) ==
    <<b, c>> \in ToSet(todo) \/ \E x \in results : x[1] = b /\ x[2] = c

\* What a sweep holds at each of its steps; each check of each listed bucket
\* is to be made once, and then has been.
SweepInv ==
    /\ SweepTypeOK
    /\ IsFiniteSet(untagged) /\ IsFiniteSet(listed)
    /\ todo \in Seq(Tasks) /\ IsInjective(todo)
    /\ results \subseteq Buckets \X CheckNames \X Statuses
    /\ \A k \in 1..Len(todo) : todo[k][2] \in ChecksFor(todo[k][1])
    /\ \A x \in results : x[2] \in ChecksFor(x[1])
    /\ sweep = "idle" => listed = {}
    /\ sweep \in {"idle", "tags"} => results = {}
    /\ sweep \in {"check", "done"} =>
          \A b \in listed : \A c \in ChecksFor(b) : Accounted(b, c)

\* While nothing disturbs it, a sweep has the stack as it is.
FreshInv ==
    sweep # "idle" /\ ~disturbed =>
        /\ untagged \cup listed \subseteq exists
        /\ \A b \in exists : b \in untagged \cup listed \/ Faults > 0
        /\ \A x \in results : \/ x[3] = Status(x[1], x[2])
                              \/ x[3] = "error" /\ Faults > 0

\* What a dispatch holds at each of its steps.
DispatchTypes ==
    /\ dispatch \in {"idle", "list", "tags", "jobs", "ok", "dropped"}
    /\ attempts \in 0..DispatchAttempts
    /\ dispatch \in {"list", "tags", "jobs"} => attempts > 0
    /\ untaggedD \cup listedD \cup refused \subseteq Buckets
    /\ IsFiniteSet(untaggedD) /\ IsFiniteSet(listedD)
    /\ untaggedD # {} => dispatch = "tags"
    /\ due \subseteq Names
    /\ pairs \in Seq(Names) /\ IsInjective(pairs)
    /\ pairs # <<>> => dispatch = "jobs"
    /\ ToSet(pairs) \cap (receipts \cup pairIssues) = {}
    /\ receipts \cap pairIssues = {}
    /\ dispatch \notin {"jobs", "ok"} => receipts \cup pairIssues = {}
    /\ dispatch \in {"idle", "list", "dropped"} => due = {}

\* A pair that was due is on its way from listing to receipt.
DueInv ==
    /\ \A n \in due : Answered(n)
    /\ dispatch = "tags" =>
          \A n \in due, s \in Sides : <<n, s>> \in untaggedD \cup listedD \cup refused
    /\ dispatch \in {"jobs", "ok"} =>
          \A n \in due : \/ <<n, "primary">> \in refused
                         \/ n \in ToSet(pairs) \cup receipts \cup pairIssues
    /\ dispatch = "ok" => pairIssues = {}

DInv == /\ IInv /\ StackInv /\ FaultTypes /\ SweepInv /\ FreshInv
        /\ DispatchTypes /\ DueInv

-----------------------------------------------------------------------------
(* What one of the three actors does to the others *)

\* A sweep or a dispatch only reads the stack, and may use up a fault.
Reads ==
    /\ UNCHANGED <<files, uploaded, s3Vars, content, feedback, triggers, callVars>>
    /\ UNCHANGED faults \/ \E kind \in FaultKinds : Fault(kind)

StackKept ==
    /\ IInv' /\ StackInv' /\ FaultTypes'
    /\ UNCHANGED <<exists, applied, policy, pc>>
    /\ Faults \in Nat /\ Faults' \in Nat /\ Faults' >= Faults
    /\ (\E kind \in FaultKinds : Fault(kind)) => Faults' > 0

\* Reading keeps what requests hold.
LEMMA ReadsKeepStack ==
    ASSUME IInv, StackInv, FaultTypes, Reads
    PROVE  StackKept
<1>1. /\ UNCHANGED <<exists, applied, policy, pc>>
      /\ UNCHANGED <<files, uploaded, s3Vars, feedback, callVars>>
  BY DEF Reads, s3Vars, callVars
<1>2. StoreTypes'
  BY <1>1 DEF IInv, StoreTypes, s3Vars, callVars
<1>3. IInv'
  BY <1>1, <1>2, UserStep
<1>4. StackInv'
  BY <1>1 DEF StackInv, ReplicatedInv, Complete
<1>5. /\ FaultTypes' /\ Faults \in Nat /\ Faults' \in Nat /\ Faults' >= Faults
      /\ (\E kind \in FaultKinds : Fault(kind)) => Faults' > 0
  <2>1. Faults \in Nat
    BY FaultCounts DEF FaultTypes
  <2>2. ASSUME NEW kind \in FaultKinds, Fault(kind)
        PROVE  Faults' = Faults + 1 /\ faults' \in [FaultKinds -> 0..MaxFaults]
    BY <2>2, FaultCounts DEF FaultTypes
  <2>3. UNCHANGED faults => /\ Faults' = Faults
                            /\ faults' \in [FaultKinds -> 0..MaxFaults]
    BY FaultCounts DEF FaultTypes
  <2> QED BY <2>1, <2>2, <2>3 DEF Reads, FaultTypes
<1> QED BY <1>1, <1>3, <1>4, <1>5 DEF StackKept

\* So do the steps of requests; and a pair that is answered for stays so.
LEMMA RequestsKeep ==
    ASSUME IInv, StackInv, FaultTypes, Next
    PROVE  IInv' /\ StackInv' /\ FaultTypes' /\ \A n : Answered(n) => Answered(n)'
<1>1. IInv' /\ StackInv'
  BY NextInv, RequestsKeepStack
<1>2. UNCHANGED faults \/ \E kind \in FaultKinds : Fault(kind)
  <2>1. ASSUME NEW i \in Invocations,
               Deliver(i) \/ ReadRequest(i) \/ MakeCall(i) \/ FailCall(i)
               \/ Rollback(i)
        PROVE  UNCHANGED faults \/ \E kind \in FaultKinds : Fault(kind)
    BY <2>1 DEF Deliver, ReadRequest, MakeCall, FailCall, Rollback, FaultKinds
  <2>2. ASSUME NEW i \in Invocations,
               PutFeedback(i) \/ DeleteRequest(i) \/ TriggerSync(i) \/ Crash(i)
        PROVE  UNCHANGED faults \/ \E kind \in FaultKinds : Fault(kind)
    BY <2>2 DEF PutFeedback, DeleteRequest, TriggerSync, Crash, FaultKinds
  <2>3. ASSUME \/ \E r \in Requests : UploadRequest(r)
               \/ \E n \in Names : UserUploads(n)
        PROVE  UNCHANGED faults
    BY <2>3 DEF UploadRequest, UserUploads
  <2> QED BY <2>1, <2>2, <2>3 DEF Next, Perform
<1>3. FaultTypes'
  BY <1>2, FaultCounts DEF FaultTypes
<1>4. \A n : Answered(n) => Answered(n)'
  BY OkStays DEF Answered
<1> QED BY <1>1, <1>3, <1>4

\* A pair that has been answered for is there, on both sides.
LEMMA AnsweredIsThere ==
    ASSUME IInv, NEW n \in Names, Answered(n), NEW s \in Sides
    PROVE  <<n, s>> \in exists
<1>1. SettledPair(n)
  <2>1. ASSUME NEW i \in Invocations, pc[i] = "ok", n \in Requested(i[1])
        PROVE  Passed(i, n)
    <3>1. issues[i] = {}
      BY <2>1 DEF IInv, LocalInv, LocalOf
    <3> QED BY <2>1, <3>1 DEF Passed
  <2> QED BY <2>1 DEF Answered, IInv, PairsInv
<1> QED BY <1>1 DEF SettledPair, Whole, Complete

\* A step that leaves the sweep alone keeps its part of the invariant.
LEMMA SweepFrame ==
    ASSUME SweepInv, UNCHANGED <<sweep, untagged, listed, todo, results>>
    PROVE  SweepInv'
BY DEF SweepInv, SweepTypeOK, Accounted

\* So does one that leaves the stack alone, too.
LEMMA FreshFrame ==
    ASSUME FreshInv, StackKept, UNCHANGED sweepVars
    PROVE  FreshInv'
<1>1. \A b, check : Status(b, check)' = Status(b, check)
  BY DEF StackKept, sweepVars, Status, AsExpected
<1>2. Faults > 0 => Faults' > 0
  BY DEF StackKept
<1> QED BY <1>1, <1>2 DEF FreshInv, StackKept, sweepVars

\* A step that leaves the dispatch alone keeps what it holds.
LEMMA DispatchFrame ==
    ASSUME DispatchTypes, DueInv, UNCHANGED dispatchVars,
           \A n : Answered(n) => Answered(n)'
    PROVE  DispatchTypes' /\ DueInv'
BY DEF DispatchTypes, DueInv, dispatchVars

-----------------------------------------------------------------------------
(* The sweep *)

\* What the listing finds is the stack.
LEMMA ListStep ==
    ASSUME IInv, StackInv, SweepInv, ListBuckets
    PROVE  SweepInv' /\ FreshInv'
<1>1. /\ sweep = "idle" /\ untagged' = exists
      /\ sweep' = IF exists = {} THEN "done" ELSE "tags"
      /\ UNCHANGED <<listed, todo, results, disturbed, exists>>
  BY DEF ListBuckets, vars, s3Vars
<1>2. listed = {} /\ results = {} /\ todo = <<>>
  BY <1>1 DEF SweepInv, SweepTypeOK
<1>3. exists \subseteq Buckets /\ IsFiniteSet(exists)
  BY DEF IInv, StoreTypes, StackInv
<1>4. SweepTypeOK'
  BY <1>1, <1>2, <1>3 DEF SweepTypeOK
<1>5. SweepInv'
  <2>1. \A k \in 1..Len(todo') : todo'[k][2] \in ChecksFor(todo'[k][1])
    BY <1>1 DEF SweepInv
  <2> QED BY <1>1, <1>2, <1>3, <1>4, <2>1 DEF SweepInv, Accounted
<1>6. FreshInv'
  BY <1>1, <1>2 DEF FreshInv
<1> QED BY <1>5, <1>6

\* Another bucket's tags are back: the last one makes the plan.
LEMMA TaggedStep ==
    ASSUME SweepInv, NEW b \in untagged, NEW found, sweep = "tags",
           found = listed \/ found = listed \cup {b},
           Tagged(b, found), UNCHANGED <<results, disturbed>>
    PROVE  SweepInv'
<1>1. /\ untagged' = untagged \ {b} /\ listed' = found
      /\ sweep' = IF untagged' # {} THEN "tags"
                  ELSE IF found = {} THEN "done" ELSE "check"
      /\ todo' = IF untagged' = {} THEN Plans(found) ELSE todo
  BY DEF Tagged
<1>2. /\ untagged \subseteq Buckets /\ listed \subseteq Buckets
      /\ untagged \cap listed = {}
      /\ IsFiniteSet(untagged) /\ IsFiniteSet(listed)
      /\ results = {} /\ todo = <<>>
  BY DEF SweepInv, SweepTypeOK
<1>3. /\ untagged' \subseteq Buckets /\ found \in SUBSET Buckets
      /\ untagged' \cap found = {}
      /\ IsFiniteSet(untagged') /\ IsFiniteSet(found)
  <2>1. IsFiniteSet(untagged') /\ IsFiniteSet(found)
    BY <1>1, <1>2, FS_RemoveElement, FS_AddElement
  <2> QED BY <1>1, <1>2, <2>1
<1>4. /\ Plans(found) \in Seq(Tasks)
      /\ \A x : x \in ToSet(Plans(found)) <=>
                   \E d \in found : \E c \in ChecksFor(d) : x = <<d, c>>
      /\ IsInjective(Plans(found))
      /\ Plans(found) = <<>> <=> found = {}
  BY <1>3, PlansFacts
<1>5. todo' \in Seq(Tasks) /\ IsInjective(todo')
  BY <1>1, <1>2, <1>4 DEF SweepInv
<1>6. (sweep' = "tags" <=> untagged' # {}) /\ (sweep' = "check" <=> todo' # <<>>)
  BY <1>1, <1>2, <1>4
<1>7. \A k \in 1..Len(todo') : /\ todo'[k][1] \in found
                                /\ todo'[k][2] \in ChecksFor(todo'[k][1])
  <2>1. CASE untagged' # {}
    <3>1. todo' = <<>>
      BY <1>1, <1>2, <2>1
    <3>2. 1..Len(todo') = {}
      BY <3>1
    <3> QED BY <3>2
  <2>2. CASE untagged' = {}
    <3>1. todo' = Plans(found)
      BY <1>1, <2>2
    <3>2. \A k \in 1..Len(todo') : todo'[k] \in ToSet(todo')
      BY <1>5 DEF ToSet
    <3> SUFFICES ASSUME NEW k \in 1..Len(todo')
                 PROVE  /\ todo'[k][1] \in found
                        /\ todo'[k][2] \in ChecksFor(todo'[k][1])
      OBVIOUS
    <3>3. PICK d \in found : \E c \in ChecksFor(d) : todo'[k] = <<d, c>>
      BY <1>4, <3>1, <3>2
    <3>4. PICK c \in ChecksFor(d) : todo'[k] = <<d, c>>
      BY <3>3
    <3>5. todo'[k][1] = d /\ todo'[k][2] = c
      BY <3>4
    <3> QED BY <3>5
  <2> QED BY <2>1, <2>2
<1>8. SweepTypeOK'
  BY <1>1, <1>2, <1>3, <1>6, <1>7 DEF SweepTypeOK
<1>9. sweep' \in {"check", "done"} =>
         \A d \in listed' : \A c \in ChecksFor(d) : Accounted(d, c)'
  <2>1. sweep' \in {"check", "done"} => todo' = Plans(found)
    BY <1>1
  <2> QED BY <1>1, <1>4, <2>1 DEF Accounted
<1> QED BY <1>1, <1>2, <1>3, <1>5, <1>7, <1>8, <1>9 DEF SweepInv

\* A bucket whose tags are read is there; one that is passed over was refused.
LEMMA ReadTagsStep ==
    ASSUME SweepInv, FreshInv, StackKept, NEW b \in Buckets, ReadTags(b)
    PROVE  SweepInv' /\ FreshInv'
<1>1. /\ sweep = "tags" /\ b \in untagged
      /\ \/ b \in exists /\ Tagged(b, listed \cup {b})
         \/ b \notin exists /\ Tagged(b, listed)
         \/ Fault("refused") /\ Tagged(b, listed)
      /\ UNCHANGED <<results, disturbed>>
  BY DEF ReadTags
<1>2. SweepInv'
  BY <1>1, TaggedStep
<1>3. results = {} /\ sweep' # "idle"
  BY <1>1 DEF SweepInv, Tagged
<1>4. ASSUME ~disturbed
      PROVE  /\ untagged' \cup listed' \subseteq exists
             /\ \A d \in exists : d \in untagged' \cup listed' \/ Faults' > 0
  <2>1. /\ untagged \cup listed \subseteq exists
        /\ \A d \in exists : d \in untagged \cup listed \/ Faults > 0
    BY <1>1, <1>4 DEF FreshInv
  <2>2. CASE b \in exists /\ Tagged(b, listed \cup {b})
    BY <2>1, <2>2 DEF Tagged, StackKept
  <2>3. CASE b \notin exists
    BY <1>1, <2>1, <2>3
  <2>4. CASE Fault("refused") /\ Tagged(b, listed)
    <3>1. Faults' > 0
      BY <2>4 DEF StackKept, FaultKinds
    <3> QED BY <2>1, <2>4, <3>1 DEF Tagged
  <2> QED BY <1>1, <2>2, <2>3, <2>4
<1>5. FreshInv'
  BY <1>1, <1>3, <1>4 DEF FreshInv, StackKept
<1> QED BY <1>2, <1>5

\* A check leaves the plan, and enters the results.
LEMMA CheckStep ==
    ASSUME SweepInv, FreshInv, StackKept, MakeCheck
    PROVE  SweepInv' /\ FreshInv'
<1> DEFINE b == Head(todo)[1]
           check == Head(todo)[2]
<1>1. /\ sweep = "check"
      /\ todo' = Tail(todo)
      /\ sweep' = IF Len(todo) > 1 THEN "check" ELSE "done"
      /\ UNCHANGED <<untagged, listed, disturbed>>
  BY DEF MakeCheck
<1>2. PICK status : /\ results' = results \cup {<<b, check, status>>}
                    /\ \/ status = Status(b, check)
                       \/ status = "error" /\ Fault("refused")
  BY DEF MakeCheck
<1>3. /\ todo \in Seq(Tasks) /\ todo # <<>> /\ IsInjective(todo)
      /\ SweepTypeOK
  BY <1>1 DEF SweepInv, SweepTypeOK
<1>4. /\ Head(todo) = todo[1] /\ 1 \in 1..Len(todo) /\ Len(todo) \in Nat
      /\ Tail(todo) \in Seq(Tasks) /\ Len(Tail(todo)) = Len(todo) - 1
      /\ \A k \in 1..Len(Tail(todo)) : /\ k + 1 \in 1..Len(todo)
                                       /\ Tail(todo)[k] = todo[k + 1]
      /\ \A k \in 1..Len(todo) :
            k = 1 \/ (k - 1 \in 1..Len(Tail(todo)) /\ Tail(todo)[k - 1] = todo[k])
  BY <1>3
<1>5. /\ Head(todo) = <<b, check>> /\ b \in Buckets /\ check \in CheckNames
      /\ b \in listed /\ check \in ChecksFor(b)
  BY <1>3, <1>4 DEF Tasks, SweepTypeOK, SweepInv
<1> HIDE DEF b, check
<1>6. status \in Statuses
  BY <1>2 DEF Status, AsExpected, Statuses
<1> DEFINE rest == Tail(todo)
<1>7. \A k \in 1..Len(rest) : /\ rest[k] # <<b, check>>
                              /\ rest[k][1] \in listed
                              /\ ~\E x \in results : <<x[1], x[2]>> = rest[k]
  <2> SUFFICES ASSUME NEW k \in 1..Len(rest)
               PROVE  /\ rest[k] # <<b, check>>
                      /\ rest[k][1] \in listed
                      /\ ~\E x \in results : <<x[1], x[2]>> = rest[k]
    OBVIOUS
  <2>1. k + 1 \in 1..Len(todo) /\ rest[k] = todo[k + 1] /\ k + 1 # 1
    BY <1>4
  <2>2. rest[k] # todo[1]
    BY <1>3, <1>4, <2>1 DEF IsInjective
  <2> QED BY <1>3, <1>4, <1>5, <2>1, <2>2 DEF SweepTypeOK
<1>8. IsInjective(rest)
  <2> SUFFICES ASSUME NEW k \in DOMAIN rest, NEW l \in DOMAIN rest, rest[k] = rest[l]
               PROVE  k = l
    BY DEF IsInjective
  <2>1. k \in 1..Len(rest) /\ l \in 1..Len(rest)
    BY <1>4
  <2>2. /\ k + 1 \in 1..Len(todo) /\ rest[k] = todo[k + 1]
        /\ l + 1 \in 1..Len(todo) /\ rest[l] = todo[l + 1]
    BY <1>4, <2>1
  <2>3. k + 1 = l + 1
    BY <1>3, <2>2 DEF IsInjective
  <2> QED BY <1>4, <2>1, <2>3
<1>9. sweep' = "check" <=> rest # <<>>
  <2>1. rest \in Seq(Tasks) /\ Len(rest) = Len(todo) - 1
    BY <1>4
  <2> HIDE DEF rest
  <2>2. rest = <<>> <=> Len(rest) = 0
    BY <2>1, EmptySeq
  <2>3. Len(todo) > 1 <=> Len(rest) # 0
    BY <1>4, <2>1
  <2> QED BY <1>1, <2>2, <2>3
<1>10. SweepTypeOK'
  <2>1. \A x \in results' : x[1] \in listed
    BY <1>2, <1>3, <1>5 DEF SweepTypeOK
  <2> DEFINE y == <<b, check, status>>
  <2>2. \A k \in 1..Len(rest) : ~\E x \in results' : <<x[1], x[2]>> = rest[k]
    <3>1. y[1] = b /\ y[2] = check /\ results' = results \cup {y}
      BY <1>2
    <3> HIDE DEF y, rest
    <3> QED BY <1>7, <3>1
  <2> QED BY <1>1, <1>3, <1>7, <1>9, <2>1, <2>2 DEF SweepTypeOK
<1>11. ASSUME NEW d \in listed, NEW c \in ChecksFor(d)
       PROVE  Accounted(d, c)'
  <2>1. Accounted(d, c)
    BY <1>1 DEF SweepInv
  <2>2. ASSUME NEW x \in results, x[1] = d, x[2] = c
        PROVE  Accounted(d, c)'
    BY <1>2, <2>2 DEF Accounted
  <2>3. ASSUME <<d, c>> \in ToSet(todo)
        PROVE  Accounted(d, c)'
    <3>1. PICK k \in 1..Len(todo) : todo[k] = <<d, c>>
      BY <1>3, <2>3 DEF ToSet
    <3>2. CASE k = 1
      <4> DEFINE y == <<b, check, status>>
      <4>1. b = d /\ check = c
        BY <1>4, <1>5, <3>1, <3>2
      <4>2. y \in results' /\ y[1] = d /\ y[2] = c
        BY <1>2, <4>1
      <4> QED BY <4>2 DEF Accounted
    <3>3. CASE k # 1
      <4>1. k - 1 \in 1..Len(rest) /\ rest[k - 1] = <<d, c>>
        BY <1>4, <3>1, <3>3
      <4>2. k - 1 \in DOMAIN rest
        BY <1>4, <4>1
      <4>3. <<d, c>> \in ToSet(rest)
        BY <4>1, <4>2 DEF ToSet
      <4> QED BY <1>1, <4>3 DEF Accounted
    <3> QED BY <3>2, <3>3
  <2> QED BY <2>1, <2>2, <2>3 DEF Accounted
<1>12. results' \subseteq Buckets \X CheckNames \X Statuses
  BY <1>2, <1>5, <1>6 DEF SweepInv
<1>13. SweepInv'
  <2>2. \A k \in 1..Len(rest) : rest[k][2] \in ChecksFor(rest[k][1])
    BY <1>4 DEF SweepInv
  <2>3. \A x \in results' : x[2] \in ChecksFor(x[1])
    <3> DEFINE y == <<b, check, status>>
    <3>1. y[1] = b /\ y[2] = check /\ results' = results \cup {y}
      BY <1>2
    <3> HIDE DEF y
    <3> QED BY <1>5, <3>1 DEF SweepInv
  <2>1. /\ IsFiniteSet(untagged') /\ IsFiniteSet(listed')
        /\ todo' \in Seq(Tasks) /\ IsInjective(todo')
        /\ sweep' \in {"check", "done"}
    BY <1>1, <1>4, <1>8 DEF SweepInv
  <2> QED BY <1>1, <1>10, <1>11, <1>12, <2>1, <2>2, <2>3 DEF SweepInv
<1>14. FreshInv'
  <2> SUFFICES ASSUME ~disturbed
               PROVE  /\ untagged \cup listed \subseteq exists'
                      /\ \A d \in exists' : d \in untagged \cup listed \/ Faults' > 0
                      /\ \A x \in results' : \/ x[3] = Status(x[1], x[2])'
                                             \/ x[3] = "error" /\ Faults' > 0
    BY <1>1 DEF FreshInv
  <2>1. /\ untagged \cup listed \subseteq exists
        /\ \A d \in exists : d \in untagged \cup listed \/ Faults > 0
        /\ \A x \in results : \/ x[3] = Status(x[1], x[2])
                              \/ x[3] = "error" /\ Faults > 0
    BY <1>1 DEF FreshInv
  <2>2. /\ exists' = exists /\ applied' = applied /\ policy' = policy
        /\ Faults > 0 => Faults' > 0
        /\ Fault("refused") => Faults' > 0
    BY DEF StackKept, FaultKinds
  <2>3. \A d, c : Status(d, c)' = Status(d, c)
    BY <1>1, <2>2 DEF Status, AsExpected
  <2>4. ASSUME NEW x \in results'
        PROVE  x[3] = Status(x[1], x[2])' \/ (x[3] = "error" /\ Faults' > 0)
    <3>1. CASE x \in results
      BY <2>1, <2>2, <2>3, <3>1
    <3>2. CASE x = <<b, check, status>>
      BY <1>2, <2>2, <2>3, <3>2
    <3> QED BY <1>2, <2>4, <3>1, <3>2
  <2> QED BY <2>1, <2>2, <2>4
<1> QED BY <1>13, <1>14

-----------------------------------------------------------------------------
(* The dispatch *)

\* A dispatch that takes a step, whatever happens to the pairs, keeps what the
\* others hold.
LEMMA Beside ==
    ASSUME DInv, Reads, UNCHANGED sweepVars
    PROVE  /\ IInv' /\ StackInv' /\ FaultTypes' /\ SweepInv' /\ FreshInv'
           /\ \A n : Answered(n)' <=> Answered(n)
           /\ exists' = exists
<1>1. StackKept
  BY ReadsKeepStack DEF DInv
<1>2. SweepInv'
  BY SweepFrame DEF DInv, sweepVars
<1>3. FreshInv'
  BY <1>1, FreshFrame DEF DInv
<1>4. \A n : Answered(n)' <=> Answered(n)
  BY <1>1 DEF StackKept, Answered
<1> QED BY <1>1, <1>2, <1>3, <1>4 DEF StackKept

\* The pairs of a listing are finitely many.
LEMMA PairedFacts ==
    ASSUME DispatchTypes
    PROVE  /\ IsFiniteSet(Paired) /\ Paired \subseteq Names
           /\ SetToSeq(Paired) \in Seq(Names)
           /\ ToSet(SetToSeq(Paired)) = Paired
           /\ IsInjective(SetToSeq(Paired))
<1>1. Paired \subseteq Names /\ \A n \in Paired : <<n, "primary">> \in listedD
  BY DEF Paired, Sources
<1> DEFINE f == [n \in Paired |-> <<n, "primary">>]
<1>2. f \in Injection(Paired, listedD)
  BY <1>1 DEF Injection, IsInjective
<1>3. IsFiniteSet(Paired)
  BY <1>2, FS_Injection DEF DispatchTypes
<1>4. /\ SetToSeq(Paired) \in Seq(Paired)
      /\ ToSet(SetToSeq(Paired)) = Paired
      /\ IsInjective(SetToSeq(Paired))
  BY <1>3, SetSequence
<1>5. SetToSeq(Paired) \in Seq(Names)
  <2> DEFINE q == SetToSeq(Paired)
  <2>1. q \in Seq(Paired)
    BY <1>4
  <2> HIDE DEF q
  <2>2. q \in Seq(Names)
    BY <1>1, <2>1
  <2> QED BY <2>2 DEF q
<1> QED BY <1>1, <1>3, <1>4, <1>5

\* An empty plan of pairs.
LEMMA NoPairs == <<>> \in Seq(Names) /\ ToSet(<<>>) = {} /\ IsInjective(<<>>)
<1> DEFINE e == <<>>
<1>1. e \in Seq(Names) /\ DOMAIN e = {}
  OBVIOUS
<1> HIDE DEF e
<1>2. e \in Seq(Names) /\ ToSet(e) = {} /\ IsInjective(e)
  BY <1>1 DEF ToSet, IsInjective
<1> QED BY <1>2 DEF e

\* A failed attempt leaves nothing but its number.
LEMMA FailedAttempt ==
    ASSUME DispatchTypes, DueInv, AttemptFails, dispatch \in {"list", "tags", "jobs"}
    PROVE  DispatchTypes' /\ DueInv'
<1>1. /\ attempts' = attempts - 1
      /\ dispatch' = IF attempts > 1 THEN "list" ELSE "dropped"
      /\ untaggedD' = {} /\ listedD' = {} /\ refused' = {} /\ due' = {}
      /\ pairs' = <<>> /\ receipts' = {} /\ pairIssues' = {}
  BY DEF AttemptFails
<1>2. /\ attempts' \in 0..DispatchAttempts
      /\ dispatch' = "list" => attempts' > 0
  BY <1>1, DispatchAssumption DEF DispatchTypes
<1>3. IsFiniteSet(untaggedD') /\ IsFiniteSet(listedD')
  BY <1>1, FS_EmptySet
<1>4. pairs' \in Seq(Names) /\ IsInjective(pairs') /\ ToSet(pairs') = {}
  BY <1>1, NoPairs
<1>5. DispatchTypes'
  BY <1>1, <1>2, <1>3, <1>4 DEF DispatchTypes
<1>6. DueInv'
  BY <1>1 DEF DueInv
<1> QED BY <1>5, <1>6

\* A dispatch begins: with the listing, or, for one bucket, with its pair.
LEMMA StartSteps ==
    ASSUME DInv, StartDispatch \/ \E n \in Names : DispatchOne(n)
    PROVE  DInv'
<1>1. DispatchTypes /\ DueInv /\ DispatchAttempts \in Nat \ {0}
  BY DispatchAssumption DEF DInv
<1>2. /\ Reads /\ UNCHANGED sweepVars
      /\ dispatch = "idle"
      /\ UNCHANGED <<untaggedD, listedD, refused, due, receipts, pairIssues>>
  BY DEF StartDispatch, DispatchOne, stackVars, listingVars, Reads, FaultKinds
<1>3. /\ IInv' /\ StackInv' /\ FaultTypes' /\ SweepInv' /\ FreshInv'
      /\ \A n : Answered(n)' <=> Answered(n)
  BY <1>2, Beside
<1>4. /\ attempts' \in {1, DispatchAttempts}
      /\ \/ dispatch' \in {"list", "dropped"} /\ pairs' = pairs
         \/ \E n \in Names : dispatch' = "jobs" /\ pairs' = <<n>>
  BY DEF StartDispatch, DispatchOne
<1>5. attempts' \in 0..DispatchAttempts /\ attempts' > 0
  BY <1>1, <1>4
<1>6. due = {} /\ receipts = {} /\ pairIssues = {} /\ pairs = <<>>
  BY <1>1, <1>2 DEF DispatchTypes
<1>7. pairs' \in Seq(Names) /\ IsInjective(pairs')
  <2>1. ASSUME NEW n \in Names
        PROVE  <<n>> \in Seq(Names) /\ IsInjective(<<n>>)
    <3> DEFINE q == <<n>>
    <3>1. q \in Seq(Names) /\ DOMAIN q = {1}
      OBVIOUS
    <3> HIDE DEF q
    <3>2. IsInjective(q)
      BY <3>1 DEF IsInjective
    <3> QED BY <3>1, <3>2 DEF q
  <2> QED BY <1>4, <1>6, <2>1, NoPairs
<1>8. DispatchTypes'
  BY <1>1, <1>2, <1>4, <1>5, <1>6, <1>7 DEF DispatchTypes
<1>9. DueInv'
  BY <1>2, <1>4, <1>6 DEF DueInv
<1> QED BY <1>3, <1>8, <1>9 DEF DInv

\* Whoever has been answered for by then is in the listing.
LEMMA ListForStep ==
    ASSUME DInv, ListForDispatch
    PROVE  DInv'
<1>1. DispatchTypes /\ DueInv /\ IInv
  BY DEF DInv
<1>2. /\ Reads /\ UNCHANGED sweepVars
      /\ dispatch = "list" /\ dispatch' = "tags" /\ untaggedD' = exists
      /\ due' = {n \in Names : Answered(n)}
      /\ UNCHANGED <<attempts, listedD, refused, pairs, receipts, pairIssues>>
  BY DEF ListForDispatch, stackVars, Reads
<1>3. /\ IInv' /\ StackInv' /\ FaultTypes' /\ SweepInv' /\ FreshInv'
      /\ \A n : Answered(n)' <=> Answered(n)
  BY <1>2, Beside
<1>4. exists \subseteq Buckets /\ IsFiniteSet(exists)
  BY DEF DInv, IInv, StoreTypes, StackInv
<1>5. DispatchTypes'
  BY <1>1, <1>2, <1>4 DEF DispatchTypes
<1>6. \A n \in due', s \in Sides : <<n, s>> \in exists
  BY <1>1, <1>2, AnsweredIsThere
<1>7. DueInv'
  BY <1>2, <1>3, <1>6 DEF DueInv
<1> QED BY <1>3, <1>5, <1>7 DEF DInv

\* Only a bucket that is gone, or refused, is passed over; and a bucket of a
\* pair that has been answered for is never gone.
LEMMA ReadTagsForStep ==
    ASSUME DInv, NEW b \in Buckets, ReadTagsForDispatch(b)
    PROVE  DInv'
<1>1. DispatchTypes /\ DueInv /\ IInv
  BY DEF DInv
<1>2. /\ Reads /\ UNCHANGED sweepVars
      /\ dispatch = "tags" /\ dispatch' = "tags"
      /\ b \in untaggedD /\ untaggedD' = untaggedD \ {b}
      /\ UNCHANGED <<attempts, due, pairs, receipts, pairIssues>>
      /\ \/ listedD' = listedD \cup {b} /\ refused' = refused
         \/ b \notin exists /\ listedD' = listedD /\ refused' = refused
         \/ listedD' = listedD /\ refused' = refused \cup {b}
  BY DEF ReadTagsForDispatch, stackVars, Reads, FaultKinds
<1>3. /\ IInv' /\ StackInv' /\ FaultTypes' /\ SweepInv' /\ FreshInv'
      /\ \A n : Answered(n)' <=> Answered(n)
  BY <1>2, Beside
<1>4. IsFiniteSet(untaggedD') /\ IsFiniteSet(listedD')
  BY <1>1, <1>2, FS_RemoveElement, FS_AddElement DEF DispatchTypes
<1>5. DispatchTypes'
  BY <1>1, <1>2, <1>4 DEF DispatchTypes
<1>6. ASSUME NEW n \in due, NEW s \in Sides
      PROVE  <<n, s>> \in untaggedD' \cup listedD' \cup refused'
  <2>1. <<n, s>> \in untaggedD \cup listedD \cup refused
    BY <1>1, <1>2 DEF DueInv
  <2>2. <<n, s>> \in exists
    BY <1>1, AnsweredIsThere DEF DueInv, DispatchTypes
  <2> QED BY <1>2, <2>1, <2>2
<1>7. DueInv'
  BY <1>1, <1>2, <1>3, <1>6 DEF DueInv
<1> QED BY <1>3, <1>5, <1>7 DEF DInv

\* Every source bucket that is listed has its replica beside it, or there is
\* no dispatch at all.
LEMMA MakePairsStep ==
    ASSUME DInv, MakePairs
    PROVE  DInv'
<1>1. DispatchTypes /\ DueInv
  BY DEF DInv
<1>2. /\ Reads /\ UNCHANGED sweepVars
      /\ dispatch = "tags" /\ untaggedD = {}
  BY DEF MakePairs, stackVars, Reads
<1>3. /\ IInv' /\ StackInv' /\ FaultTypes' /\ SweepInv' /\ FreshInv'
      /\ \A n : Answered(n)' <=> Answered(n)
  BY <1>2, Beside
<1>4. CASE AttemptFails
  BY <1>1, <1>2, <1>3, <1>4, FailedAttempt DEF DInv
<1>5. CASE /\ Paired = Sources
           /\ dispatch' = "jobs"
           /\ pairs' = SetToSeq(Paired)
           /\ UNCHANGED <<attempts, listingVars, receipts, pairIssues>>
  <2>1. UNCHANGED <<attempts, untaggedD, listedD, refused, due, receipts, pairIssues>>
    BY <1>5 DEF listingVars
  <2>2. pairs' \in Seq(Names) /\ ToSet(pairs') = Sources /\ IsInjective(pairs')
    BY <1>1, <1>5, PairedFacts
  <2>3. receipts = {} /\ pairIssues = {}
    BY <1>1, <1>2 DEF DispatchTypes
  <2>4. DispatchTypes'
    BY <1>1, <1>2, <1>5, <2>1, <2>2, <2>3 DEF DispatchTypes
  <2>5. ASSUME NEW n \in due
        PROVE  <<n, "primary">> \in refused \/ n \in Sources
    <3>1. <<n, "primary">> \in listedD \cup refused
      BY <1>1, <1>2 DEF DueInv, Sides
    <3>2. n \in Names
      BY <1>1 DEF DispatchTypes
    <3> QED BY <3>1, <3>2 DEF Sources
  <2>6. DueInv'
    BY <1>1, <1>3, <1>5, <2>1, <2>2, <2>5 DEF DueInv
  <2> QED BY <1>3, <2>4, <2>6 DEF DInv
<1> QED BY <1>4, <1>5 DEF MakePairs

\* A pair leaves the plan with its receipts, or as an issue.
LEMMA TriggerStep ==
    ASSUME DInv, TriggerPair
    PROVE  DInv'
<1> DEFINE h == Head(pairs)
           rest == Tail(pairs)
<1>1. DispatchTypes /\ DueInv
  BY DEF DInv
<1>2. /\ Reads /\ UNCHANGED sweepVars
      /\ dispatch = "jobs" /\ pairs # <<>> /\ pairs' = rest
      /\ \/ receipts' = receipts \cup {h} /\ pairIssues' = pairIssues
         \/ receipts' = receipts /\ pairIssues' = pairIssues \cup {h}
      /\ UNCHANGED <<dispatch, attempts, untaggedD, listedD, refused, due>>
  BY DEF TriggerPair, stackVars, listingVars, Reads, FaultKinds
<1>3. /\ IInv' /\ StackInv' /\ FaultTypes' /\ SweepInv' /\ FreshInv'
      /\ \A n : Answered(n)' <=> Answered(n)
  BY <1>2, Beside
<1>4. /\ pairs \in Seq(Names) /\ IsInjective(pairs) /\ Len(pairs) \in Nat
      /\ DOMAIN pairs = 1..Len(pairs) /\ 1 \in DOMAIN pairs /\ h = pairs[1]
      /\ rest \in Seq(Names) /\ Len(rest) = Len(pairs) - 1
      /\ DOMAIN rest = 1..Len(rest)
      /\ \A k \in DOMAIN rest : rest[k] = pairs[k + 1]
  BY <1>1, <1>2 DEF DispatchTypes
<1> HIDE DEF h, rest
<1>5. /\ \A k \in DOMAIN rest : k + 1 \in DOMAIN pairs /\ k + 1 # 1
      /\ \A k \in DOMAIN pairs :
            k = 1 \/ (k - 1 \in DOMAIN rest /\ rest[k - 1] = pairs[k])
  BY <1>4
<1>6. ToSet(pairs) = ToSet(rest) \cup {h}
  BY <1>4, <1>5 DEF ToSet
<1>7. h \notin ToSet(rest)
  BY <1>4, <1>5 DEF ToSet, IsInjective
<1>8. IsInjective(rest)
  <2> SUFFICES ASSUME NEW k \in DOMAIN rest, NEW l \in DOMAIN rest, rest[k] = rest[l]
               PROVE  k = l
    BY DEF IsInjective
  <2>1. pairs[k + 1] = pairs[l + 1] /\ k + 1 \in DOMAIN pairs /\ l + 1 \in DOMAIN pairs
    BY <1>4, <1>5
  <2>2. k + 1 = l + 1
    BY <1>4, <2>1 DEF IsInjective
  <2> QED BY <1>4, <2>2
<1>9. DispatchTypes'
  BY <1>1, <1>2, <1>4, <1>6, <1>7, <1>8 DEF DispatchTypes
<1>10. DueInv'
  BY <1>1, <1>2, <1>3, <1>6 DEF DueInv
<1> QED BY <1>3, <1>9, <1>10 DEF DInv

\* A dispatch ends well only without an issue.
LEMMA EndSteps ==
    ASSUME DInv, FinishDispatch \/ DispatchFails
    PROVE  DInv'
<1>1. DispatchTypes /\ DueInv
  BY DEF DInv
<1>2. /\ Reads /\ UNCHANGED sweepVars
      /\ dispatch \in {"list", "tags", "jobs"}
      /\ \/ AttemptFails
         \/ /\ dispatch = "jobs" /\ pairs = <<>> /\ pairIssues = {}
            /\ dispatch' = "ok"
            /\ UNCHANGED <<attempts, untaggedD, listedD, refused, due, pairs,
                           receipts, pairIssues>>
  BY DEF FinishDispatch, DispatchFails, stackVars, listingVars, Reads, FaultKinds
<1>3. /\ IInv' /\ StackInv' /\ FaultTypes' /\ SweepInv' /\ FreshInv'
      /\ \A n : Answered(n)' <=> Answered(n)
  BY <1>2, Beside
<1>4. CASE AttemptFails
  BY <1>1, <1>2, <1>3, <1>4, FailedAttempt DEF DInv
<1>5. CASE ~AttemptFails
  <2>1. DispatchTypes'
    BY <1>1, <1>2, <1>5 DEF DispatchTypes
  <2>2. DueInv'
    BY <1>1, <1>2, <1>3, <1>5 DEF DueInv
  <2> QED BY <1>3, <2>1, <2>2 DEF DInv
<1> QED BY <1>4, <1>5

-----------------------------------------------------------------------------
(* The invariant holds *)

\* A sweep that goes on, while no dispatch has begun.
LEMMA SweepSteps ==
    ASSUME DInv, UNCHANGED dispatchVars,
           ListBuckets \/ MakeCheck \/ \E b \in Buckets : ReadTags(b)
    PROVE  DInv'
<1>1. Reads
  BY DEF ListBuckets, MakeCheck, ReadTags, vars, Reads, FaultKinds
<1>2. StackKept
  BY <1>1, ReadsKeepStack DEF DInv
<1>3. SweepInv' /\ FreshInv'
  BY <1>2, ListStep, ReadTagsStep, CheckStep DEF DInv
<1>4. \A n : Answered(n) => Answered(n)'
  BY <1>2 DEF StackKept, Answered
<1>5. DispatchTypes' /\ DueInv'
  BY <1>4, DispatchFrame DEF DInv
<1> QED BY <1>2, <1>3, <1>5 DEF DInv, StackKept

\* A request that goes on, beside the two.
LEMMA RequestSteps ==
    ASSUME DInv, Next, UNCHANGED dispatchVars,
           UNCHANGED <<sweep, untagged, listed, todo, results>>,
           disturbed' = (sweep # "idle") \/ (sweep = "idle" /\ disturbed' = disturbed)
    PROVE  DInv'
<1>1. IInv' /\ StackInv' /\ FaultTypes' /\ \A n : Answered(n) => Answered(n)'
  BY RequestsKeep DEF DInv
<1>2. SweepInv'
  BY SweepFrame DEF DInv
<1>3. FreshInv'
  BY DEF FreshInv
<1>4. DispatchTypes' /\ DueInv'
  BY <1>1, DispatchFrame DEF DInv
<1> QED BY <1>1, <1>2, <1>3, <1>4 DEF DInv

\* A dispatch begins only where no sweep has, and the other way round.
OneOfBoth == dispatch = "idle" \/ sweep = "idle"

dvars == <<allVars, dispatchVars>>

\* The two actors of the model stay apart.
LEMMA StaysOneOfBoth == OneOfBoth /\ [DispatchNext]_dvars => OneOfBoth'
<1> SUFFICES ASSUME OneOfBoth, [DispatchNext]_dvars
             PROVE  OneOfBoth'
  OBVIOUS
<1>1. CASE dispatch = "idle" /\ ReconcileNext /\ UNCHANGED dispatchVars
  BY <1>1 DEF OneOfBoth, dispatchVars
<1>2. CASE dispatch # "idle" /\ Next /\ UNCHANGED <<sweepVars, dispatchVars>>
  BY <1>2 DEF OneOfBoth, dispatchVars, sweepVars
<1>3. CASE StartDispatch \/ \E n \in Names : DispatchOne(n)
  BY <1>3 DEF OneOfBoth, StartDispatch, DispatchOne, stackVars, sweepVars
<1>4. CASE \/ ListForDispatch \/ \E b \in Buckets : ReadTagsForDispatch(b)
           \/ MakePairs \/ TriggerPair \/ FinishDispatch \/ DispatchFails
  BY <1>4 DEF OneOfBoth, ListForDispatch, ReadTagsForDispatch, MakePairs,
              TriggerPair, FinishDispatch, DispatchFails, stackVars, sweepVars
<1>5. CASE UNCHANGED dvars
  BY <1>5 DEF OneOfBoth, dvars, allVars, sweepVars, dispatchVars
<1> QED BY <1>1, <1>2, <1>3, <1>4, <1>5 DEF DispatchNext

\* Before anything happens, the pairs that exist are whole.
LEMMA DispatchInitInv == DispatchInit => DInv /\ OneOfBoth
<1> SUFFICES ASSUME DispatchInit
             PROVE  DInv /\ OneOfBoth
  OBVIOUS
<1>1. Init /\ ReconcileInit
  BY DEF DispatchInit, ReconcileInit
<1>2. IInv
  BY <1>1, InitInv
<1>3. ReplicatedInv
  <2> SUFFICES ASSUME NEW n \in Names, "replication" \in applied[<<n, "primary">>]
               PROVE  Complete(n, "primary") /\ Complete(n, "replica")
    BY DEF ReplicatedInv
  <2>1. <<n, "primary">> \in Buckets
    BY DEF Buckets, Sides
  <2>2. n \in Existing
    BY <1>1, <2>1 DEF Init
  <2>3. SettledPair(n)
    BY <1>2, <2>2 DEF IInv, PairsInv
  <2> QED BY <2>3 DEF SettledPair, Whole, Sides
<1>4. IsFiniteSet(exists)
  <2> DEFINE of(s) == {<<n, s>> : n \in Existing}
  <2>1. ASSUME NEW s
        PROVE  IsFiniteSet(of(s))
    <3> DEFINE f == [n \in Existing |-> <<n, s>>]
    <3>1. f \in [Existing -> of(s)]
      OBVIOUS
    <3>2. \A x \in of(s) : \E n \in Existing : f[n] = x
      OBVIOUS
    <3> HIDE DEF f, of
    <3>3. f \in Surjection(Existing, of(s))
      BY <3>1, <3>2 DEF Surjection
    <3> QED BY <3>3, StackAssumption, FS_Surjection
  <2>2. exists = of("primary") \cup of("replica")
    BY <1>1 DEF Init, Sides
  <2>3. IsFiniteSet(of("primary")) /\ IsFiniteSet(of("replica"))
    BY <2>1
  <2> HIDE DEF of
  <2> QED BY <2>2, <2>3, FS_Union
<1>5. FaultTypes
  BY <1>1, RequestAssumption DEF Init, FaultTypes
<1>6. SweepInv
  <2>1. IsFiniteSet({}) /\ <<>> \in Seq(Tasks)
    BY FS_EmptySet
  <2>2. IsInjective(<<>>)
    BY NoPairs
  <2>3. /\ sweep = "idle" /\ untagged = {} /\ listed = {} /\ todo = <<>>
        /\ results = {}
    BY <1>1 DEF ReconcileInit
  <2>4. 1..Len(todo) = {}
    BY <2>3
  <2> QED BY <2>1, <2>2, <2>3, <2>4 DEF SweepInv, SweepTypeOK
<1>7. FreshInv
  BY <1>1 DEF ReconcileInit, FreshInv
<1>8. /\ dispatch = "idle" /\ attempts = 0 /\ untaggedD = {} /\ listedD = {}
      /\ refused = {} /\ due = {} /\ pairs = <<>> /\ receipts = {}
      /\ pairIssues = {}
  BY DEF DispatchInit
<1>9. DispatchTypes
  BY <1>8, NoPairs, FS_EmptySet, DispatchAssumption DEF DispatchTypes
<1>10. DueInv
  BY <1>8 DEF DueInv
<1> QED BY <1>2, <1>3, <1>4, <1>5, <1>6, <1>7, <1>8, <1>9, <1>10
        DEF DInv, StackInv, OneOfBoth

\* Every step keeps it.
LEMMA DispatchNextInv == DInv /\ OneOfBoth /\ [DispatchNext]_dvars => DInv'
<1> SUFFICES ASSUME DInv, OneOfBoth, [DispatchNext]_dvars
             PROVE  DInv'
  OBVIOUS
<1>1. CASE dispatch = "idle" /\ ReconcileNext /\ UNCHANGED dispatchVars
  <2>1. CASE /\ Next
             /\ disturbed' = (sweep # "idle")
             /\ UNCHANGED <<sweep, untagged, listed, todo, results>>
    BY <1>1, <2>1, RequestSteps
  <2>2. CASE ListBuckets \/ MakeCheck \/ \E b \in Buckets : ReadTags(b)
    BY <1>1, <2>2, SweepSteps
  <2> QED BY <1>1, <2>1, <2>2 DEF ReconcileNext
<1>2. CASE dispatch # "idle" /\ Next /\ UNCHANGED <<sweepVars, dispatchVars>>
  <2>1. sweep = "idle"
    BY <1>2 DEF OneOfBoth
  <2>2. UNCHANGED <<sweep, untagged, listed, todo, results, disturbed>>
    BY <1>2 DEF sweepVars
  <2> QED BY <1>2, <2>1, <2>2, RequestSteps
<1>3. CASE UNCHANGED dvars
  <2>1. Reads /\ UNCHANGED sweepVars /\ UNCHANGED dispatchVars
    BY <1>3 DEF dvars, allVars, vars, callVars, Reads
  <2>2. /\ IInv' /\ StackInv' /\ FaultTypes' /\ SweepInv' /\ FreshInv'
        /\ \A n : Answered(n)' <=> Answered(n)
    BY <2>1, Beside
  <2>3. DispatchTypes' /\ DueInv'
    BY <2>1, <2>2, DispatchFrame DEF DInv
  <2> QED BY <2>2, <2>3 DEF DInv
<1> QED BY <1>1, <1>2, <1>3, StartSteps, ListForStep, ReadTagsForStep,
           MakePairsStep, TriggerStep, EndSteps DEF DispatchNext

\* The invariant holds of every behaviour.
LEMMA DispatchInvHolds == DispatchSpec => [](DInv /\ OneOfBoth)
<1>1. DInv /\ OneOfBoth /\ [DispatchNext]_dvars => (DInv /\ OneOfBoth)'
  BY DispatchNextInv, StaysOneOfBoth
<1> QED BY <1>1, DispatchInitInv, PTL DEF DispatchSpec, dvars

-----------------------------------------------------------------------------
(* What follows from it *)

\* What sweep and dispatch hold belongs together at every step of either.
THEOREM DispatchTypesHold == DispatchSpec => []DispatchTypeOK
<1>1. DInv => DispatchTypeOK
  BY DEF DInv, SweepInv, DispatchTypes, DispatchTypeOK
<1> QED BY <1>1, DispatchInvHolds, PTL

\* However requests go on between the listing, the reads of the tags and the
\* jobs, and whatever fails, no pair that a request had answered for drops out
\* of the verification without an issue.
THEOREM PairsAreRemembered == DispatchSpec => []NoPairIsForgotten
<1>1. DInv => NoPairIsForgotten
  <2> SUFFICES ASSUME DInv, dispatch \in {"jobs", "ok"}, pairs = <<>>
               PROVE  /\ \A n \in due : \/ <<n, "primary">> \in refused
                                        \/ n \in receipts \cup pairIssues
                      /\ dispatch = "ok" => pairIssues = {}
    BY DEF NoPairIsForgotten
  <2>1. ToSet(pairs) = {}
    BY NoPairs
  <2> QED BY <2>1 DEF DInv, DueInv
<1> QED BY <1>1, DispatchInvHolds, PTL

\* A replication check that passes has read a primary bucket that is complete.
THEOREM ReplicationIsConclusive == DispatchSpec => ReplicationCheckIsConclusive
<1> DEFINE A == \A n \in Names :
                   <<<<n, "primary">>, "replication", "ok">> \in results' \ results
                      => /\ Complete(n, "primary")
                         /\ <<n, "replica">> \in exists => Complete(n, "replica")
<1>1. ASSUME DInv, [DispatchNext]_dvars
      PROVE  A \/ UNCHANGED allVars
  <2>1. CASE MakeCheck
    <3> SUFFICES ASSUME NEW n \in Names,
                        <<<<n, "primary">>, "replication", "ok">> \in results' \ results
                 PROVE  /\ Complete(n, "primary")
                        /\ <<n, "replica">> \in exists => Complete(n, "replica")
      OBVIOUS
    <3>1. PICK status : /\ results' = results \cup {<<Head(todo)[1], Head(todo)[2], status>>}
                        /\ \/ status = Status(Head(todo)[1], Head(todo)[2])
                           \/ status = "error"
      BY <2>1 DEF MakeCheck
    <3>2. /\ Head(todo)[1] = <<n, "primary">> /\ Head(todo)[2] = "replication"
          /\ status = "ok"
      BY <3>1
    <3>3. Status(<<n, "primary">>, "replication") = "ok"
      BY <3>1, <3>2
    <3>4. "replication" \in applied[<<n, "primary">>]
      BY <3>3 DEF Status, AsExpected
    <3> QED BY <1>1, <3>4 DEF DInv, StackInv, ReplicatedInv
  <2>2. CASE UNCHANGED results
    BY <2>2
  <2>3. ASSUME ReconcileNext, ~MakeCheck
        PROVE  UNCHANGED results
    BY <2>3 DEF ReconcileNext, ListBuckets, ReadTags
  <2>4. ASSUME \/ StartDispatch \/ \E n \in Names : DispatchOne(n)
               \/ ListForDispatch \/ \E b \in Buckets : ReadTagsForDispatch(b)
               \/ MakePairs \/ TriggerPair \/ FinishDispatch \/ DispatchFails
        PROVE  UNCHANGED results
    BY <2>4 DEF StartDispatch, DispatchOne, ListForDispatch, MakePairs,
                ReadTagsForDispatch, TriggerPair, FinishDispatch, DispatchFails,
                stackVars, sweepVars
  <2>5. CASE UNCHANGED <<sweepVars, dispatchVars>>
    BY <2>2, <2>5 DEF sweepVars
  <2>6. CASE UNCHANGED dvars
    BY <2>2, <2>6 DEF dvars, allVars, sweepVars
  <2> QED BY <1>1, <2>1, <2>2, <2>3, <2>4, <2>5, <2>6 DEF DispatchNext
<1>2. DInv /\ [DispatchNext]_dvars => [A]_allVars
  BY <1>1
<1> QED BY <1>2, DispatchInvHolds, PTL
        DEF DispatchSpec, dvars, ReplicationCheckIsConclusive

\* The checks of a primary bucket that all pass leave nothing to be configured.
LEMMA OkMeansWhole ==
    ASSUME DInv, sweep = "done", ~disturbed,
           NEW b \in listed, b[2] = "primary", Verdict(b) = "ok"
    PROVE  Whole(b[1])
<1>1. /\ b \in Buckets /\ b = <<b[1], "primary">> /\ b[1] \in Names
      /\ todo = <<>> /\ results \subseteq Buckets \X CheckNames \X Statuses
  BY DEF DInv, SweepInv, SweepTypeOK, Buckets
<1>2. PICK x \in results : x[1] = b /\ x[2] = "replication"
  <2>1. "replication" \in ChecksFor(b)
    BY DEF ChecksFor, PublicChecks, StandardChecks
  <2>2. Accounted(b, "replication") /\ ToSet(todo) = {}
    BY <1>1, <2>1, NoPairs DEF DInv, SweepInv
  <2> QED BY <2>2 DEF Accounted
<1>3. x[3] = "ok"
  <2>1. x[3] \in {y[3] : y \in {z \in results : z[1] = b}}
    BY <1>2
  <2>2. x[3] \in Statuses
    BY <1>1
  <2> QED BY <2>1, <2>2 DEF Verdict, Statuses
<1>4. Status(b, "replication") = "ok"
  BY <1>2, <1>3 DEF DInv, FreshInv
<1>5. /\ <<b[1], "replica">> \in listed /\ "replication" \in applied[b]
  BY <1>4 DEF Status, AsExpected
<1>6. <<b[1], "replica">> \in exists
  BY <1>5 DEF DInv, FreshInv
<1>7. Complete(b[1], "primary") /\ Complete(b[1], "replica")
  BY <1>1, <1>5, <1>6 DEF DInv, StackInv, ReplicatedInv
<1> QED BY <1>7 DEF Whole, Sides

\* Where no call has failed, nothing is held against a pair that is whole.
LEMMA WholeMeansOk ==
    ASSUME DInv, sweep = "done", ~disturbed, Faults = 0,
           NEW b \in listed, b[2] = "primary", Whole(b[1])
    PROVE  Verdict(b) = "ok"
<1>1. /\ b \in Buckets /\ b = <<b[1], "primary">> /\ b[1] \in Names
      /\ todo = <<>> /\ results \subseteq Buckets \X CheckNames \X Statuses
      /\ untagged = {}
  BY DEF DInv, SweepInv, SweepTypeOK, Buckets
<1>2. Complete(b[1], "primary") /\ Complete(b[1], "replica")
  BY DEF Whole, Sides
<1>3. <<b[1], "replica">> \in listed
  BY <1>1, <1>2 DEF DInv, FreshInv, Complete
<1>4. ASSUME NEW x \in results, x[1] = b
      PROVE  x[3] = "ok"
  <2>1. x[3] = Status(b, x[2])
    BY <1>4 DEF DInv, FreshInv
  <2>2. x[2] \in ChecksFor(b)
    BY <1>4 DEF DInv, SweepInv
  <2>3. /\ b \in exists /\ applied[b] = Expected(b[1], "primary")
        /\ policy[b] = IF b[1] \in PublicNames THEN "public" ELSE "none"
    BY <1>1, <1>2 DEF Complete
  <2>4. x[2] = "transition_tag" \/ x[2] \in applied[b]
        \/ (x[2] = "bucket_policy" /\ policy[b] = "public")
    BY <1>1, <2>2, <2>3 DEF ChecksFor, PublicChecks, StandardChecks,
       ReplicaChecks, Expected, EveryBucket, StandardBucket, Configurations
  <2> QED BY <1>3, <2>1, <2>3, <2>4 DEF Status, AsExpected
<1>5. {x[3] : x \in {y \in results : y[1] = b}} \subseteq {"ok"}
  BY <1>4
<1> QED BY <1>5 DEF Verdict

\* A sweep that is left alone finds out which pairs are whole.
THEOREM VerdictsAreRight == DispatchSpec => []UndisturbedVerdictsAreRight
<1>1. DInv => UndisturbedVerdictsAreRight
  BY OkMeansWhole, WholeMeansOk DEF UndisturbedVerdictsAreRight
<1> QED BY <1>1, DispatchInvHolds, PTL
=============================================================================
