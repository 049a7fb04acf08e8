------------------------ MODULE BucketRequest_proofs ------------------------
(***************************************************************************)
(* Proofs about BucketRequest, for any number of requests, names,          *)
(* deliveries, attempts and faults: who owns a bucket, and why nobody      *)
(* touches a pair that is whole.                                           *)
(***************************************************************************)
EXTENDS BucketRequest, SequenceTheorems, TLAPS

-----------------------------------------------------------------------------
(* The calls of a plan *)

\* What a plan may call, and on which side.
CallNames == Configurations \cup PolicyCalls \cup {"create"}
PlanCalls == Sides \X CallNames

\* The calls that set up a standard bucket, one by one.
LEMMA StandardCalls ==
    /\ SetupStandard \in Seq(CallNames)
    /\ Len(SetupStandard) = 7
    /\ SetupStandard[1] = "deny_uploads" /\ SetupStandard[2] = "versioning"
    /\ SetupStandard[3] = "lifecycle" /\ SetupStandard[4] = "notifications"
    /\ SetupStandard[5] = "logging" /\ SetupStandard[6] = "inventory"
    /\ SetupStandard[7] = "remove_policy"
<1>1. SetupStandard \in Seq(CallNames)
  BY DEF SetupStandard, CallNames, Configurations, EveryBucket, StandardBucket, PolicyCalls
<1>2. Len(SetupStandard) = 7
  BY DEF SetupStandard
<1>3. /\ SetupStandard[1] = "deny_uploads" /\ SetupStandard[2] = "versioning"
      /\ SetupStandard[3] = "lifecycle" /\ SetupStandard[4] = "notifications"
      /\ SetupStandard[5] = "logging" /\ SetupStandard[6] = "inventory"
      /\ SetupStandard[7] = "remove_policy"
  BY DEF SetupStandard
<1> QED BY <1>1, <1>2, <1>3

\* A public bucket is a standard one, made public at the end.
LEMMA PublicCalls ==
    /\ SetupPublic \in Seq(CallNames)
    /\ Len(SetupPublic) = 9
    /\ \A k \in 1..7 : SetupPublic[k] = SetupStandard[k]
    /\ SetupPublic[8] = "public_access" /\ SetupPublic[9] = "public_policy"
<1> DEFINE last == <<"public_access", "public_policy">>
<1>1. last \in Seq(CallNames)
  BY DEF CallNames, Configurations, EveryBucket, StandardBucket, PolicyCalls
<1>2. Len(last) = 2 /\ last[1] = "public_access" /\ last[2] = "public_policy"
  OBVIOUS
<1>3. SetupPublic = SetupStandard \o last
  BY DEF SetupPublic
<1> HIDE DEF last
<1>4. /\ SetupPublic \in Seq(CallNames)
      /\ Len(SetupPublic) = Len(SetupStandard) + Len(last)
      /\ \A k \in 1..(Len(SetupStandard) + Len(last)) :
            SetupPublic[k] = IF k <= Len(SetupStandard) THEN SetupStandard[k]
                             ELSE last[k - Len(SetupStandard)]
  BY <1>1, <1>3, StandardCalls, ConcatProperties
<1>5. \A k \in 1..9 :
         SetupPublic[k] = IF k <= 7 THEN SetupStandard[k] ELSE last[k - 7]
  BY <1>2, <1>4, StandardCalls
<1> QED BY <1>2, <1>4, <1>5, StandardCalls

\* The same calls on one side of a pair.
LEMMA CallsOn ==
    ASSUME NEW side \in Sides, NEW calls \in Seq(CallNames)
    PROVE  /\ On(side, calls) \in Seq(PlanCalls)
           /\ Len(On(side, calls)) = Len(calls)
           /\ \A k \in 1..Len(calls) : On(side, calls)[k] = <<side, calls[k]>>
<1>1. \A k \in 1..Len(calls) : <<side, calls[k]>> \in PlanCalls
  BY DEF PlanCalls
<1> QED BY <1>1 DEF On

\* The calls that make a primary bucket.
Width(n) == 1 + Len(Setup(n))

\* What a pair's plan says at each position.
LEMMA PlanFacts ==
    ASSUME NEW n
    PROVE  /\ Width(n) = IF n \in PublicNames THEN 10 ELSE 8
           /\ Len(Plan(n)) = Width(n) + 4
           /\ Plan(n)[1] = <<"primary", "create">>
           /\ \A k \in 2..Width(n) : Plan(n)[k] = <<"primary", Setup(n)[k - 1]>>
           /\ Plan(n)[Width(n) + 1] = <<"replica", "create">>
           /\ Plan(n)[Width(n) + 2] = <<"replica", "versioning">>
           /\ Plan(n)[Width(n) + 3] = <<"replica", "lifecycle">>
           /\ Plan(n)[Width(n) + 4] = <<"primary", "replication">>
<1> DEFINE create == <<"create">>
           replica == SetupReplication
           last == <<"replication">>
           S == PlanCalls
<1>1. /\ create \in Seq(CallNames) /\ last \in Seq(CallNames)
      /\ replica \in Seq(CallNames)
  BY DEF CallNames, Configurations, EveryBucket, StandardBucket, PolicyCalls, SetupReplication
<1>2. /\ Len(create) = 1 /\ create[1] = "create"
      /\ Len(last) = 1 /\ last[1] = "replication"
      /\ Len(replica) = 2
      /\ replica[1] = "versioning" /\ replica[2] = "lifecycle"
  BY DEF SetupReplication
<1>3. /\ Setup(n) \in Seq(CallNames)
      /\ Len(Setup(n)) = IF n \in PublicNames THEN 9 ELSE 7
  BY StandardCalls, PublicCalls DEF Setup
<1> DEFINE a == create \o Setup(n)
           b == create \o replica
           A == On("primary", a)
           B == On("replica", b)
           C == On("primary", last)
<1>4. Plan(n) = (A \o B) \o C
  BY DEF Plan
<1> HIDE DEF create, replica, last
<1>0. "primary" \in Sides /\ "replica" \in Sides
  BY DEF Sides
<1>5. /\ a \in Seq(CallNames) /\ Len(a) = Width(n)
      /\ a[1] = "create" /\ \A k \in 2..Width(n) : a[k] = Setup(n)[k - 1]
  <2>1. /\ a \in Seq(CallNames)
        /\ Len(a) = Len(create) + Len(Setup(n))
        /\ \A k \in 1..(Len(create) + Len(Setup(n))) :
              a[k] = IF k <= Len(create) THEN create[k]
                     ELSE Setup(n)[k - Len(create)]
    BY <1>1, <1>3, ConcatProperties
  <2> HIDE DEF a
  <2> QED BY <1>2, <1>3, <2>1 DEF Width
<1>6. /\ b \in Seq(CallNames) /\ Len(b) = 3
      /\ b[1] = "create" /\ b[2] = "versioning" /\ b[3] = "lifecycle"
  <2>1. /\ b \in Seq(CallNames)
        /\ Len(b) = Len(create) + Len(replica)
        /\ \A k \in 1..(Len(create) + Len(replica)) :
              b[k] = IF k <= Len(create) THEN create[k]
                     ELSE replica[k - Len(create)]
    BY <1>1, ConcatProperties
  <2> HIDE DEF b
  <2> QED BY <1>2, <2>1
<1> HIDE DEF a, b
<1>7. /\ A \in Seq(S) /\ Len(A) = Width(n)
      /\ A[1] = <<"primary", "create">>
      /\ \A k \in 2..Width(n) : A[k] = <<"primary", Setup(n)[k - 1]>>
  <2>1. /\ A \in Seq(S) /\ Len(A) = Len(a)
        /\ \A k \in 1..Len(a) : A[k] = <<"primary", a[k]>>
    BY <1>0, <1>5, CallsOn
  <2> HIDE DEF A
  <2> QED BY <1>3, <1>5, <2>1 DEF Width
<1>8. /\ B \in Seq(S) /\ Len(B) = 3
      /\ B[1] = <<"replica", "create">> /\ B[2] = <<"replica", "versioning">>
      /\ B[3] = <<"replica", "lifecycle">>
  <2>1. /\ B \in Seq(S) /\ Len(B) = Len(b)
        /\ \A k \in 1..Len(b) : B[k] = <<"replica", b[k]>>
    BY <1>0, <1>6, CallsOn
  <2> HIDE DEF B
  <2> QED BY <1>6, <2>1
<1>9. C \in Seq(S) /\ Len(C) = 1 /\ C[1] = <<"primary", "replication">>
  <2>1. /\ C \in Seq(S) /\ Len(C) = Len(last)
        /\ \A k \in 1..Len(last) : C[k] = <<"primary", last[k]>>
    BY <1>0, <1>1, CallsOn
  <2> HIDE DEF C
  <2> QED BY <1>2, <2>1
<1> HIDE DEF A, B, C, S
<1>10. /\ A \o B \in Seq(S) /\ Len(A \o B) = Width(n) + 3
       /\ \A k \in 1..(Width(n) + 3) :
             (A \o B)[k] = IF k <= Width(n) THEN A[k] ELSE B[k - Width(n)]
  <2>1. /\ A \o B \in Seq(S) /\ Len(A \o B) = Len(A) + Len(B)
        /\ \A k \in 1..(Len(A) + Len(B)) :
              (A \o B)[k] = IF k <= Len(A) THEN A[k] ELSE B[k - Len(A)]
    BY <1>7, <1>8, ConcatProperties
  <2> QED BY <1>7, <1>8, <2>1
<1>11. /\ Len(Plan(n)) = Width(n) + 4
       /\ \A k \in 1..(Width(n) + 4) :
             Plan(n)[k] = IF k <= Width(n) + 3 THEN (A \o B)[k]
                          ELSE C[k - (Width(n) + 3)]
  <2> DEFINE D == A \o B
  <2>1. D \in Seq(S) /\ Len(D) = Width(n) + 3
    BY <1>10
  <2>2. Plan(n) = D \o C
    BY <1>4
  <2> HIDE DEF D
  <2>5. Plan(n) \in Seq(S) /\ Len(Plan(n)) = Len(D) + Len(C)
    BY <1>9, <2>1, <2>2, ConcatProperties
  <2>6. \A k \in 1..(Len(D) + Len(C)) :
              (D \o C)[k] = IF k <= Len(D) THEN D[k] ELSE C[k - Len(D)]
    BY <1>9, <2>1, ConcatProperties
  <2>3. /\ Len(Plan(n)) = Len(D) + Len(C)
        /\ \A k \in 1..(Len(D) + Len(C)) :
              Plan(n)[k] = IF k <= Len(D) THEN D[k] ELSE C[k - Len(D)]
    BY <2>2, <2>5, <2>6
  <2>4. /\ Len(Plan(n)) = Width(n) + 4
        /\ \A k \in 1..(Width(n) + 4) :
              Plan(n)[k] = IF k <= Width(n) + 3 THEN D[k]
                           ELSE C[k - (Width(n) + 3)]
    BY <1>3, <1>9, <2>1, <2>3 DEF Width
  <2> QED BY <2>4 DEF D
<1>12. Width(n) \in Nat \ {0}
  BY <1>3 DEF Width
<1>13. Width(n) = IF n \in PublicNames THEN 10 ELSE 8
  BY <1>3 DEF Width
<1>14. /\ Plan(n)[1] = <<"primary", "create">>
       /\ \A k \in 2..Width(n) : Plan(n)[k] = <<"primary", Setup(n)[k - 1]>>
  BY <1>7, <1>10, <1>11, <1>12
<1> DEFINE w == Width(n)
           AB == A \o B
           P == Plan(n)
<1>15. \A k \in 1..3 : P[w + k] = B[k]
  <2> SUFFICES ASSUME NEW k \in 1..3
               PROVE  P[w + k] = B[k]
    OBVIOUS
  <2>1. /\ w + k \in 1..(w + 3) /\ w + k \in 1..(w + 4)
        /\ ~(w + k <= w) /\ w + k <= w + 3 /\ (w + k) - w = k
    BY <1>12
  <2>2. P[w + k] = AB[w + k]
    BY <1>11, <2>1
  <2>3. AB[w + k] = B[(w + k) - w]
    BY <1>10, <2>1
  <2> QED BY <2>1, <2>2, <2>3
<1>16. P[w + 4] = C[1]
  <2>1. w + 4 \in 1..(w + 4) /\ ~(w + 4 <= w + 3) /\ (w + 4) - (w + 3) = 1
    BY <1>12
  <2> QED BY <1>11, <2>1
<1>17. /\ Plan(n)[Width(n) + 1] = <<"replica", "create">>
       /\ Plan(n)[Width(n) + 2] = <<"replica", "versioning">>
       /\ Plan(n)[Width(n) + 3] = <<"replica", "lifecycle">>
       /\ Plan(n)[Width(n) + 4] = <<"primary", "replication">>
  BY <1>8, <1>9, <1>15, <1>16
<1> QED BY <1>11, <1>13, <1>14, <1>17

-----------------------------------------------------------------------------
(* The invariant *)

Busy == {"create", "undo"}
CreateAt(n, side) == IF side = "primary" THEN 1 ELSE Width(n) + 1

\* The attempt of i has created the bucket, and still works on its pair.
Owns(i, b) ==
    /\ pc[i] \in Busy
    /\ b[1] = NameOf(i)
    /\ pc[i] = "create" => step[i] > CreateAt(b[1], b[2])
    /\ pc[i] = "undo" => \E k \in 1..Len(undo[i]) : undo[i][k] = b[2]

\* What the first k - 1 calls of a plan leave at a bucket.
AppliedBy(n, side, k) ==
    {c \in Configurations : \E j \in 1..(k - 1) : Plan(n)[j] = <<side, c>>}

PolicyBy(n, side, k) ==
    IF side = "primary" /\ k \in 3..8 THEN "deny"
    ELSE IF side = "primary" /\ n \in PublicNames /\ k >= 11 THEN "public"
    ELSE "none"

Rollbacks == {<<"primary">>, <<"replica">>, <<"replica", "primary">>,
              <<"primary", "replica">>}

\* What an invocation holds at each of its calls.
LocalOf(i) ==
    /\ pc[i] \in {"idle", "read", "dropped"} =>
          pos[i] = 1 /\ step[i] = 1 /\ issues[i] = {}
    /\ pc[i] \in Busy =>
          /\ Valid(i[1])
          /\ pos[i] \in 1..Len(Reviewed(i[1]))
          /\ step[i] \in 1..Len(Plan(NameOf(i)))
          /\ issues[i] \subseteq Names
    /\ pc[i] = "undo" => undo[i] \in Rollbacks
    /\ pc[i] # "undo" => undo[i] = <<>>
    /\ pc[i] \in {"delete", "trigger", "ok"} => issues[i] = {}
    /\ pc[i] = "feedback" =>
          /\ issues[i] # {}
          /\ \/ issues[i] \in {{"file"}, {"line"}}
             \/ issues[i] \subseteq Names /\ Valid(i[1])

\* A bucket that is not there has no configuration.
CleanInv ==
    \A b \in Buckets : b \notin exists => applied[b] = {} /\ policy[b] = "none"

\* What an attempt owns is there, and nobody else's.
OwnerInv ==
    \A i \in Invocations, b \in Buckets :
        Owns(i, b) => /\ b \in exists
                      /\ \A j \in Invocations : Owns(j, b) => i = j

\* The buckets of a pair in the making carry what was called so far.
ProgressOf(i) ==
    pc[i] = "create" =>
        \A side \in Sides :
            LET b == <<NameOf(i), side>> IN
            Owns(i, b) => /\ applied[b] = AppliedBy(NameOf(i), side, step[i])
                          /\ policy[b] = PolicyBy(NameOf(i), side, step[i])

\* A pair is whole, and nobody who could undo it is still at work on it.
SettledPair(n) ==
    Whole(n) /\ \A i \in Invocations, side \in Sides : ~Owns(i, <<n, side>>)

\* The attempt of i has made the pair of n, and gone on.
Passed(i, n) ==
    /\ n \notin issues[i]
    /\ \/ /\ pc[i] \in Busy
          /\ \E k \in 1..(pos[i] - 1) : Reviewed(i[1])[k] = n
       \/ /\ pc[i] \in {"feedback", "delete", "trigger", "ok"}
          /\ issues[i] \subseteq Names
          /\ n \in Requested(i[1])

\* The pairs that were there, that an attempt has passed, or that the feedback
\* of a request does not name, are settled.
PairsInv ==
    \A n \in Names :
        /\ n \in Existing => SettledPair(n)
        /\ \A i \in Invocations : Passed(i, n) => SettledPair(n)
        /\ \A r \in Requests :
              feedback[r] # {} /\ feedback[r] \subseteq Names
              /\ n \in Requested(r) \ feedback[r] => SettledPair(n)

\* Only a request without a bad line comes to have issues of pairs.
ValidInv ==
    \A r \in Requests :
        feedback[r] # {} /\ feedback[r] \subseteq Names => Valid(r)

LocalInv == \A i \in Invocations : LocalOf(i)
ProgressInv == \A i \in Invocations : ProgressOf(i)

\* The variables' types, as far as the argument needs them.
StoreTypes ==
    /\ files \subseteq uploaded /\ uploaded \subseteq Requests
    /\ exists \subseteq Buckets
    /\ applied \in [Buckets -> SUBSET Configurations]
    /\ policy \in [Buckets -> Policies]
    /\ feedback \in [Requests -> SUBSET (Names \cup {"file", "line"})]
    /\ pc \in [Invocations -> Running \cup {"idle", "ok", "dropped"}]
    /\ failures \in [Invocations -> Nat] /\ DOMAIN pos = Invocations
    /\ DOMAIN step = Invocations /\ DOMAIN undo = Invocations
    /\ DOMAIN issues = Invocations

IInv == /\ StoreTypes /\ LocalInv /\ CleanInv /\ OwnerInv
        /\ ProgressInv /\ PairsInv /\ ValidInv

-----------------------------------------------------------------------------
(* How far a plan has come *)

\* The plan of a public pair, and of any other, call by call.
PublicTable(P) ==
    /\ Len(P) = 14
    /\ P[1] = <<"primary", "create">> /\ P[2] = <<"primary", "deny_uploads">>
    /\ P[3] = <<"primary", "versioning">> /\ P[4] = <<"primary", "lifecycle">>
    /\ P[5] = <<"primary", "notifications">> /\ P[6] = <<"primary", "logging">>
    /\ P[7] = <<"primary", "inventory">> /\ P[8] = <<"primary", "remove_policy">>
    /\ P[9] = <<"primary", "public_access">>
    /\ P[10] = <<"primary", "public_policy">>
    /\ P[11] = <<"replica", "create">> /\ P[12] = <<"replica", "versioning">>
    /\ P[13] = <<"replica", "lifecycle">> /\ P[14] = <<"primary", "replication">>

StandardTable(P) ==
    /\ Len(P) = 12
    /\ P[1] = <<"primary", "create">> /\ P[2] = <<"primary", "deny_uploads">>
    /\ P[3] = <<"primary", "versioning">> /\ P[4] = <<"primary", "lifecycle">>
    /\ P[5] = <<"primary", "notifications">> /\ P[6] = <<"primary", "logging">>
    /\ P[7] = <<"primary", "inventory">> /\ P[8] = <<"primary", "remove_policy">>
    /\ P[9] = <<"replica", "create">> /\ P[10] = <<"replica", "versioning">>
    /\ P[11] = <<"replica", "lifecycle">> /\ P[12] = <<"primary", "replication">>

\* A plan, call by call.
LEMMA PlanTable ==
    ASSUME NEW n
    PROVE  IF n \in PublicNames THEN PublicTable(Plan(n))
           ELSE StandardTable(Plan(n))
<1>1. /\ Setup(n)[1] = "deny_uploads" /\ Setup(n)[2] = "versioning"
      /\ Setup(n)[3] = "lifecycle" /\ Setup(n)[4] = "notifications"
      /\ Setup(n)[5] = "logging" /\ Setup(n)[6] = "inventory"
      /\ Setup(n)[7] = "remove_policy"
      /\ n \in PublicNames => /\ Setup(n)[8] = "public_access"
                              /\ Setup(n)[9] = "public_policy"
  BY StandardCalls, PublicCalls DEF Setup
<1>0. /\ Width(n) = IF n \in PublicNames THEN 10 ELSE 8
      /\ Len(Plan(n)) = Width(n) + 4
      /\ Plan(n)[1] = <<"primary", "create">>
      /\ \A k \in 2..Width(n) : Plan(n)[k] = <<"primary", Setup(n)[k - 1]>>
      /\ Plan(n)[Width(n) + 1] = <<"replica", "create">>
      /\ Plan(n)[Width(n) + 2] = <<"replica", "versioning">>
      /\ Plan(n)[Width(n) + 3] = <<"replica", "lifecycle">>
      /\ Plan(n)[Width(n) + 4] = <<"primary", "replication">>
  BY PlanFacts
<1>2. \A k \in 2..8 : Plan(n)[k] = <<"primary", Setup(n)[k - 1]>>
  <2>1. \A k \in 2..8 : k \in 2..Width(n)
    BY <1>0
  <2> QED BY <1>0, <2>1
<1>3. n \in PublicNames =>
        \A k \in 9..10 : Plan(n)[k] = <<"primary", Setup(n)[k - 1]>>
  <2>1. n \in PublicNames => \A k \in 9..10 : k \in 2..Width(n)
    BY <1>0
  <2> QED BY <1>0, <2>1
<1>4. /\ Plan(n)[2] = <<"primary", Setup(n)[1]>>
      /\ Plan(n)[3] = <<"primary", Setup(n)[2]>>
      /\ Plan(n)[4] = <<"primary", Setup(n)[3]>>
      /\ Plan(n)[5] = <<"primary", Setup(n)[4]>>
      /\ Plan(n)[6] = <<"primary", Setup(n)[5]>>
      /\ Plan(n)[7] = <<"primary", Setup(n)[6]>>
      /\ Plan(n)[8] = <<"primary", Setup(n)[7]>>
  BY <1>2
<1>5. n \in PublicNames => /\ Plan(n)[9] = <<"primary", Setup(n)[8]>>
                           /\ Plan(n)[10] = <<"primary", Setup(n)[9]>>
  BY <1>3
<1>6. n \in PublicNames =>
         /\ Len(Plan(n)) = 14
         /\ Plan(n)[11] = <<"replica", "create">>
         /\ Plan(n)[12] = <<"replica", "versioning">>
         /\ Plan(n)[13] = <<"replica", "lifecycle">>
         /\ Plan(n)[14] = <<"primary", "replication">>
  BY <1>0
<1>7. n \notin PublicNames =>
         /\ Len(Plan(n)) = 12
         /\ Plan(n)[9] = <<"replica", "create">>
         /\ Plan(n)[10] = <<"replica", "versioning">>
         /\ Plan(n)[11] = <<"replica", "lifecycle">>
         /\ Plan(n)[12] = <<"primary", "replication">>
  BY <1>0
<1>8. Plan(n)[1] = <<"primary", "create">>
  BY <1>0
<1> DEFINE P == Plan(n)
<1>9. n \in PublicNames => PublicTable(P)
  BY <1>1, <1>4, <1>5, <1>6, <1>8 DEF PublicTable
<1>10. n \notin PublicNames => StandardTable(P)
  BY <1>1, <1>4, <1>7, <1>8 DEF StandardTable
<1> QED BY <1>9, <1>10

\* Each side is worked on from its create on, and created only there.
LEMMA PlanOrder ==
    ASSUME NEW n, NEW k \in 1..Len(Plan(n)), NEW side \in Sides
    PROVE  /\ Plan(n)[k] \in PlanCalls
           /\ Plan(n)[k] = <<Plan(n)[k][1], Plan(n)[k][2]>>
           /\ Plan(n)[k] = <<side, "create">> <=> k = CreateAt(n, side)
           /\ Plan(n)[k][1] = side => k >= CreateAt(n, side)
           /\ Len(Plan(n)) \in Nat
           /\ CreateAt(n, side) \in 1..Len(Plan(n))
           /\ CreateAt(n, side) < Len(Plan(n))
<1>1. /\ "primary" \in Sides /\ "replica" \in Sides
      /\ Sides = {"primary", "replica"}
      /\ {"create", "deny_uploads", "versioning", "lifecycle", "notifications",
          "logging", "inventory", "remove_policy", "public_access",
          "public_policy", "replication"} \subseteq CallNames
  BY DEF Sides, CallNames, Configurations, EveryBucket, StandardBucket, PolicyCalls
<1>2. /\ CreateAt(n, "primary") = 1
      /\ n \in PublicNames => CreateAt(n, "replica") = 11
      /\ n \notin PublicNames => CreateAt(n, "replica") = 9
  BY PlanFacts DEF CreateAt
<1>3. CASE n \in PublicNames
  <2> DEFINE P == Plan(n)
  <2>1. PublicTable(P) /\ k \in 1..Len(P)
    BY <1>3, PlanTable
  <2> HIDE DEF P
  <2>2. k \in {1, 2, 3, 4, 5, 6, 7, 8, 9, 10, 11, 12, 13, 14}
    BY <2>1 DEF PublicTable
  <2>3. QED
    BY <1>1, <1>2, <1>3, <2>1, <2>2 DEF PublicTable, PlanCalls, P
<1>4. CASE n \notin PublicNames
  <2> DEFINE P == Plan(n)
  <2>1. StandardTable(P) /\ k \in 1..Len(P)
    BY <1>4, PlanTable
  <2> HIDE DEF P
  <2>2. k \in {1, 2, 3, 4, 5, 6, 7, 8, 9, 10, 11, 12}
    BY <2>1 DEF StandardTable
  <2>3. QED
    BY <1>1, <1>2, <1>4, <2>1, <2>2 DEF StandardTable, PlanCalls, P
<1> QED BY <1>3, <1>4

\* Each call adds its configuration to what its bucket carries.
LEMMA AppliedGrows ==
    ASSUME NEW n, NEW k \in 1..Len(Plan(n)), NEW side \in Sides
    PROVE  AppliedBy(n, side, k + 1) =
              IF Plan(n)[k][1] = side
              THEN AppliedBy(n, side, k) \cup ({Plan(n)[k][2]} \cap Configurations)
              ELSE AppliedBy(n, side, k)
<1> DEFINE P == Plan(n)
<1>1. P[k] = <<P[k][1], P[k][2]>> /\ k \in Nat \ {0}
  BY PlanOrder
<1> HIDE DEF P
<1>2. \A j : j \in 1..((k + 1) - 1) <=> j \in 1..(k - 1) \/ j = k
  BY <1>1
<1>3. ASSUME NEW c \in Configurations
      PROVE  (\E j \in 1..((k + 1) - 1) : P[j] = <<side, c>>)
             <=> (\E j \in 1..(k - 1) : P[j] = <<side, c>>)
                 \/ (P[k][1] = side /\ P[k][2] = c)
  <2>1. P[k] = <<side, c>> <=> (P[k][1] = side /\ P[k][2] = c)
    BY <1>1
  <2> QED BY <1>2, <2>1
<1>4. \A c : c \in AppliedBy(n, side, k + 1) <=>
         c \in AppliedBy(n, side, k)
         \/ (P[k][1] = side /\ c \in Configurations /\ P[k][2] = c)
  BY <1>3 DEF AppliedBy, P
<1> QED BY <1>4 DEF P

\* Nothing is called at a bucket before its create.
LEMMA AppliedAtCreate ==
    ASSUME NEW n, NEW side \in Sides
    PROVE  AppliedBy(n, side, CreateAt(n, side)) = {}
<1>1. ASSUME NEW j \in 1..(CreateAt(n, side) - 1)
      PROVE  Plan(n)[j][1] # side
  <2>1. Width(n) \in Nat /\ Len(Plan(n)) = Width(n) + 4
    BY PlanFacts
  <2>2. j \in 1..Len(Plan(n)) /\ j < CreateAt(n, side)
    BY <2>1 DEF CreateAt
  <2>3. CreateAt(n, side) \in Nat
    BY <2>1 DEF CreateAt
  <2> QED BY <2>2, <2>3, PlanOrder
<1>2. ASSUME NEW j \in 1..(CreateAt(n, side) - 1), NEW c
      PROVE  Plan(n)[j] # <<side, c>>
  BY <1>1
<1> QED BY <1>2 DEF AppliedBy

\* Each call leaves the bucket policy it sets.
LEMMA PolicyMoves ==
    ASSUME NEW n, NEW k \in 1..Len(Plan(n)), NEW side \in Sides
    PROVE  /\ PolicyBy(n, side, k + 1) =
                 IF Plan(n)[k][1] = side
                 THEN CASE Plan(n)[k][2] = "deny_uploads" -> "deny"
                        [] Plan(n)[k][2] = "remove_policy" -> "none"
                        [] Plan(n)[k][2] = "public_policy" -> "public"
                        [] OTHER -> PolicyBy(n, side, k)
                 ELSE PolicyBy(n, side, k)
           /\ PolicyBy(n, side, CreateAt(n, side)) = "none"
<1>1. /\ CreateAt(n, "primary") = 1
      /\ n \in PublicNames => CreateAt(n, "replica") = 11
      /\ n \notin PublicNames => CreateAt(n, "replica") = 9
  BY PlanFacts DEF CreateAt
<1>2. side \in {"primary", "replica"}
  BY DEF Sides
<1>3. CASE n \in PublicNames
  <2> DEFINE P == Plan(n)
  <2>1. PublicTable(P) /\ k \in 1..Len(P)
    BY <1>3, PlanTable
  <2> HIDE DEF P
  <2>2. k \in {1, 2, 3, 4, 5, 6, 7, 8, 9, 10, 11, 12, 13, 14}
    BY <2>1 DEF PublicTable
  <2>3. QED
    BY <1>1, <1>2, <1>3, <2>1, <2>2 DEF PublicTable, PolicyBy, P
<1>4. CASE n \notin PublicNames
  <2> DEFINE P == Plan(n)
  <2>1. StandardTable(P) /\ k \in 1..Len(P)
    BY <1>4, PlanTable
  <2> HIDE DEF P
  <2>2. k \in {1, 2, 3, 4, 5, 6, 7, 8, 9, 10, 11, 12}
    BY <2>1 DEF StandardTable
  <2>3. QED
    BY <1>1, <1>2, <1>4, <2>1, <2>2 DEF StandardTable, PolicyBy, P
<1> QED BY <1>3, <1>4

\* Before its last call a pair lacks nothing but the replication.
LEMMA PlanEnds ==
    ASSUME NEW n
    PROVE  /\ AppliedBy(n, "primary", Len(Plan(n))) \cup {"replication"} =
                 Expected(n, "primary")
           /\ AppliedBy(n, "replica", Len(Plan(n))) = Expected(n, "replica")
           /\ PolicyBy(n, "primary", Len(Plan(n))) =
                 IF n \in PublicNames THEN "public" ELSE "none"
           /\ PolicyBy(n, "replica", Len(Plan(n))) = "none"
           /\ Plan(n)[Len(Plan(n))] = <<"primary", "replication">>
<1>1. CASE n \in PublicNames
  <2>0. PublicTable(Plan(n))
    BY <1>1, PlanTable
  <2>1. \A j : j \in 1..(Len(Plan(n)) - 1) <=>
           j \in {1, 2, 3, 4, 5, 6, 7, 8, 9, 10, 11, 12, 13}
    BY <2>0 DEF PublicTable
  <2>2. \A side, c : c \in AppliedBy(n, side, Len(Plan(n))) <=>
           /\ c \in Configurations
           /\ \E j \in {1, 2, 3, 4, 5, 6, 7, 8, 9, 10, 11, 12, 13} :
                 Plan(n)[j] = <<side, c>>
    BY <2>1 DEF AppliedBy
  <2>3. \A c : c \in AppliedBy(n, "primary", Len(Plan(n))) <=>
           c \in Configurations \ {"replication"}
    BY <2>0, <2>2 DEF PublicTable, Configurations, EveryBucket, StandardBucket
  <2>4. \A c : c \in AppliedBy(n, "replica", Len(Plan(n))) <=>
           c \in {"versioning", "lifecycle"}
    BY <2>0, <2>2 DEF PublicTable, Configurations, EveryBucket, StandardBucket
  <2>5. /\ AppliedBy(n, "primary", Len(Plan(n))) =
              Configurations \ {"replication"}
        /\ AppliedBy(n, "replica", Len(Plan(n))) = {"versioning", "lifecycle"}
    BY <2>3, <2>4
  <2>6. Len(Plan(n)) = 14 /\ Plan(n)[14] = <<"primary", "replication">>
    BY <2>0 DEF PublicTable
  <2> QED BY <1>1, <2>5, <2>6 DEF Expected, EveryBucket, Configurations, PolicyBy
<1>2. CASE n \notin PublicNames
  <2>0. StandardTable(Plan(n))
    BY <1>2, PlanTable
  <2>1. \A j : j \in 1..(Len(Plan(n)) - 1) <=>
           j \in {1, 2, 3, 4, 5, 6, 7, 8, 9, 10, 11}
    BY <2>0 DEF StandardTable
  <2>2. \A side, c : c \in AppliedBy(n, side, Len(Plan(n))) <=>
           /\ c \in Configurations
           /\ \E j \in {1, 2, 3, 4, 5, 6, 7, 8, 9, 10, 11} :
                 Plan(n)[j] = <<side, c>>
    BY <2>1 DEF AppliedBy
  <2>3. \A c : c \in AppliedBy(n, "primary", Len(Plan(n))) <=>
           c \in Configurations \ {"replication", "public_access"}
    BY <2>0, <2>2 DEF StandardTable, Configurations, EveryBucket, StandardBucket
  <2>4. \A c : c \in AppliedBy(n, "replica", Len(Plan(n))) <=>
           c \in {"versioning", "lifecycle"}
    BY <2>0, <2>2 DEF StandardTable, Configurations, EveryBucket, StandardBucket
  <2>5. /\ AppliedBy(n, "primary", Len(Plan(n))) =
              Configurations \ {"replication", "public_access"}
        /\ AppliedBy(n, "replica", Len(Plan(n))) = {"versioning", "lifecycle"}
    BY <2>3, <2>4
  <2>6. Len(Plan(n)) = 12 /\ Plan(n)[12] = <<"primary", "replication">>
    BY <2>0 DEF StandardTable
  <2> QED BY <1>2, <2>5, <2>6 DEF Expected, EveryBucket, Configurations, PolicyBy
<1> QED BY <1>1, <1>2

-----------------------------------------------------------------------------
(* A step of one attempt, and what it may disturb *)

\* Only the attempt of i moves on.
Alone(i) ==
    \A j \in Invocations \ {i} :
        /\ pc'[j] = pc[j] /\ pos'[j] = pos[j] /\ step'[j] = step[j]
        /\ undo'[j] = undo[j] /\ issues'[j] = issues[j]

\* A step of i changes the buckets that i owns or creates, and no other.
Contained(i) ==
    \A b \in Buckets :
        /\ b \in exists /\ ~Owns(i, b) =>
              /\ b \in exists' /\ applied'[b] = applied[b]
              /\ policy'[b] = policy[b]
        /\ Owns(i, b)' => b \in exists' /\ (Owns(i, b) \/ b \notin exists)

\* The part of the invariant that is about i holds again after its step.
Upkeep(i) ==
    /\ LocalOf(i)' /\ ProgressOf(i)' /\ CleanInv' /\ StoreTypes'
    /\ \A n \in Names : Passed(i, n)' => Passed(i, n) \/ SettledPair(n)'
    /\ \A r \in Requests :
          \/ feedback'[r] = feedback[r]
          \/ r = i[1] /\ pc[i] = "feedback" /\ feedback'[r] = issues[i]

StepOf(i) == Alone(i) /\ Contained(i) /\ Upkeep(i)

\* What the other attempts hold is theirs.
LEMMA OthersHold ==
    ASSUME NEW i \in Invocations, Alone(i), NEW j \in Invocations, i # j
    PROVE  /\ NameOf(j)' = NameOf(j)
           /\ \A b : Owns(j, b)' <=> Owns(j, b)
           /\ LocalOf(j)' <=> LocalOf(j)
           /\ \A n : Passed(j, n)' <=> Passed(j, n)
<1>1. /\ pc'[j] = pc[j] /\ pos'[j] = pos[j] /\ step'[j] = step[j]
      /\ undo'[j] = undo[j] /\ issues'[j] = issues[j]
  BY DEF Alone
<1>2. NameOf(j)' = NameOf(j)
  BY <1>1 DEF NameOf
<1>3. \A b : Owns(j, b)' <=> Owns(j, b)
  BY <1>1, <1>2 DEF Owns
<1>4. LocalOf(j)' <=> LocalOf(j)
  BY <1>1, <1>2 DEF LocalOf
<1>5. \A n : Passed(j, n)' <=> Passed(j, n)
  BY <1>1 DEF Passed
<1> QED BY <1>2, <1>3, <1>4, <1>5

\* No two attempts ever own the same bucket.
LEMMA OwnersStay ==
    ASSUME NEW i \in Invocations, Alone(i), Contained(i), OwnerInv
    PROVE  OwnerInv'
<1> SUFFICES ASSUME NEW j \in Invocations, NEW b \in Buckets, Owns(j, b)'
             PROVE  /\ b \in exists'
                    /\ \A k \in Invocations : Owns(k, b)' => j = k
  BY DEF OwnerInv
<1>1. CASE j = i
  <2>1. b \in exists' /\ (Owns(i, b) \/ b \notin exists)
    BY <1>1 DEF Contained
  <2>2. ASSUME NEW k \in Invocations, Owns(k, b)', i # k
        PROVE  FALSE
    <3>1. Owns(k, b)
      BY <2>2, OthersHold
    <3>2. b \in exists /\ ~Owns(i, b)
      BY <2>2, <3>1 DEF OwnerInv
    <3> QED BY <2>1, <3>2
  <2> QED BY <1>1, <2>1, <2>2
<1>2. CASE j # i
  <2>1. Owns(j, b)
    BY <1>2, OthersHold
  <2>2. b \in exists /\ ~Owns(i, b)
    BY <1>2, <2>1 DEF OwnerInv
  <2>3. b \in exists' /\ ~Owns(i, b)'
    BY <2>2 DEF Contained
  <2>4. ASSUME NEW k \in Invocations, Owns(k, b)'
        PROVE  j = k
    <3>1. k # i
      BY <2>3, <2>4
    <3>2. Owns(k, b)
      BY <2>4, <3>1, OthersHold
    <3> QED BY <2>1, <3>2 DEF OwnerInv
  <2> QED BY <2>3, <2>4
<1> QED BY <1>1, <1>2

\* A settled pair stays settled: nobody can come to own its buckets.
LEMMA SettledStay ==
    ASSUME NEW i \in Invocations, Alone(i), Contained(i),
           NEW n \in Names, SettledPair(n)
    PROVE  SettledPair(n)'
<1>1. ASSUME NEW side \in Sides
      PROVE  /\ Complete(n, side)'
             /\ \A j \in Invocations : ~Owns(j, <<n, side>>)'
  <2>1. <<n, side>> \in Buckets
    BY DEF Buckets
  <2>2. /\ Complete(n, side)
        /\ \A j \in Invocations : ~Owns(j, <<n, side>>)
    BY DEF SettledPair, Whole
  <2>3. <<n, side>> \in exists
    BY <2>2 DEF Complete
  <2>4. /\ <<n, side>> \in exists'
        /\ applied'[<<n, side>>] = applied[<<n, side>>]
        /\ policy'[<<n, side>>] = policy[<<n, side>>]
        /\ ~Owns(i, <<n, side>>)'
    BY <2>1, <2>2, <2>3 DEF Contained
  <2>5. Complete(n, side)'
    BY <2>2, <2>4 DEF Complete
  <2>6. \A j \in Invocations : ~Owns(j, <<n, side>>)'
    BY <2>2, <2>4, OthersHold
  <2> QED BY <2>5, <2>6
<1>2. Whole(n)'
  BY <1>1 DEF Whole
<1> QED BY <1>1, <1>2 DEF SettledPair

\* Nor does the step reach into another pair in the making.
LEMMA OthersProgress ==
    ASSUME NEW i \in Invocations, Alone(i), Contained(i),
           LocalInv, OwnerInv, ProgressInv,
           NEW j \in Invocations, i # j
    PROVE  ProgressOf(j)'
<1> SUFFICES ASSUME pc'[j] = "create", NEW side \in Sides,
                    Owns(j, <<NameOf(j), side>>)'
             PROVE  (/\ applied[<<NameOf(j), side>>] =
                           AppliedBy(NameOf(j), side, step[j])
                     /\ policy[<<NameOf(j), side>>] =
                           PolicyBy(NameOf(j), side, step[j]))'
  BY DEF ProgressOf
<1> DEFINE b == <<NameOf(j), side>>
<1>1. /\ NameOf(j)' = NameOf(j) /\ Owns(j, b) /\ pc[j] = "create"
      /\ step'[j] = step[j]
  BY OthersHold DEF Alone
<1>2. /\ applied[b] = AppliedBy(NameOf(j), side, step[j])
      /\ policy[b] = PolicyBy(NameOf(j), side, step[j])
  BY <1>1 DEF ProgressInv, ProgressOf
<1>3. NameOf(j) \in Names
  BY <1>1 DEF LocalInv, LocalOf, Busy, NameOf, Valid
<1>4. b \in Buckets
  BY <1>3 DEF Buckets
<1>5. b \in exists /\ ~Owns(i, b)
  BY <1>1, <1>4 DEF OwnerInv
<1>6. applied'[b] = applied[b] /\ policy'[b] = policy[b]
  BY <1>4, <1>5 DEF Contained
<1>7. /\ applied'[b] = AppliedBy(NameOf(j), side, step'[j])
      /\ policy'[b] = PolicyBy(NameOf(j), side, step'[j])
  BY <1>1, <1>2, <1>6
<1> QED BY <1>1, <1>7 DEF AppliedBy, PolicyBy

\* So the whole invariant survives the step of one attempt.
LEMMA StepKeepsInv ==
    ASSUME IInv, NEW i \in Invocations, StepOf(i)
    PROVE  IInv'
<1>1. Alone(i) /\ Contained(i) /\ Upkeep(i)
  BY DEF StepOf
<1>2. StoreTypes' /\ CleanInv'
  BY <1>1 DEF Upkeep
<1>3. OwnerInv'
  BY <1>1, OwnersStay DEF IInv
<1>4. LocalInv'
  BY <1>1, OthersHold DEF IInv, LocalInv, Upkeep
<1>5. ProgressInv'
  BY <1>1, OthersProgress DEF IInv, ProgressInv, Upkeep
<1>6. PairsInv'
  <2> SUFFICES ASSUME NEW n \in Names
               PROVE  /\ n \in Existing => SettledPair(n)'
                      /\ \A j \in Invocations : Passed(j, n)' => SettledPair(n)'
                      /\ \A r \in Requests :
                            feedback'[r] # {} /\ feedback'[r] \subseteq Names
                            /\ n \in Requested(r) \ feedback'[r] =>
                                  SettledPair(n)'
    BY DEF PairsInv
  <2>1. SettledPair(n) => SettledPair(n)'
    BY <1>1, SettledStay
  <2>2. n \in Existing => SettledPair(n)'
    BY <2>1 DEF IInv, PairsInv
  <2>3. ASSUME NEW j \in Invocations, Passed(j, n)'
        PROVE  SettledPair(n)'
    <3>1. CASE j = i
      BY <1>1, <2>1, <2>3, <3>1 DEF Upkeep, IInv, PairsInv
    <3>2. CASE j # i
      <4>1. Passed(j, n)
        BY <1>1, <2>3, <3>2, OthersHold
      <4> QED BY <2>1, <4>1 DEF IInv, PairsInv
    <3> QED BY <3>1, <3>2
  <2>4. ASSUME NEW r \in Requests, feedback'[r] # {}, feedback'[r] \subseteq Names,
               n \in Requested(r) \ feedback'[r]
        PROVE  SettledPair(n)'
    <3>1. CASE feedback'[r] = feedback[r]
      BY <2>1, <2>4, <3>1 DEF IInv, PairsInv
    <3>2. CASE r = i[1] /\ pc[i] = "feedback" /\ feedback'[r] = issues[i]
      <4>1. Passed(i, n)
        BY <2>4, <3>2 DEF Passed
      <4> QED BY <2>1, <4>1 DEF IInv, PairsInv
    <3> QED BY <1>1, <3>1, <3>2 DEF Upkeep
  <2> QED BY <2>2, <2>3, <2>4
<1>7. ValidInv'
  <2> SUFFICES ASSUME NEW r \in Requests,
                      feedback'[r] # {}, feedback'[r] \subseteq Names
               PROVE  Valid(r)
    BY DEF ValidInv
  <2>1. CASE feedback'[r] = feedback[r]
    BY <2>1 DEF IInv, ValidInv
  <2>2. CASE r = i[1] /\ pc[i] = "feedback" /\ feedback'[r] = issues[i]
    <3>1. \/ issues[i] \in {{"file"}, {"line"}}
          \/ issues[i] \subseteq Names /\ Valid(i[1])
      BY <2>2 DEF IInv, LocalInv, LocalOf
    <3> QED BY <2>2, <3>1, RequestAssumption
  <2> QED BY <1>1, <2>1, <2>2 DEF Upkeep
<1> QED BY <1>2, <1>3, <1>4, <1>5, <1>6, <1>7 DEF IInv

-----------------------------------------------------------------------------
(* The steps that leave the buckets alone *)

\* Before its first create an attempt owns nothing.
LEMMA NotOwning ==
    ASSUME NEW i \in Invocations,
           pc'[i] \notin Busy \/ (pc'[i] = "create" /\ step'[i] = 1)
    PROVE  \A b \in Buckets : ~Owns(i, b)'
<1> SUFFICES ASSUME NEW b \in Buckets, Owns(i, b)'
             PROVE  FALSE
  OBVIOUS
<1>1. pc'[i] = "create" /\ step'[i] = 1 /\ step'[i] > CreateAt(b[1], b[2])
  BY DEF Owns, CreateAt
<1>2. CreateAt(b[1], b[2]) \in Nat /\ CreateAt(b[1], b[2]) >= 1
  BY PlanFacts DEF CreateAt
<1> QED BY <1>1, <1>2

\* An attempt that owns nothing has made no progress to keep.
LEMMA IdleProgress ==
    ASSUME NEW i \in Invocations, LocalOf(i)', \A b \in Buckets : ~Owns(i, b)'
    PROVE  ProgressOf(i)'
<1> SUFFICES ASSUME pc'[i] = "create", NEW side \in Sides,
                    Owns(i, <<NameOf(i), side>>)'
             PROVE  FALSE
  BY DEF ProgressOf
<1>1. NameOf(i)' \in Names
  BY DEF LocalOf, Busy, NameOf, Valid
<1>2. PICK b \in Buckets : b = <<NameOf(i)', side>>
  BY <1>1 DEF Buckets
<1>3. Owns(i, b)'
  BY <1>2 DEF Owns, CreateAt
<1> QED BY <1>3

\* An attempt that owns nothing after its step has left no bucket half done.
LEMMA QuietStep ==
    ASSUME IInv, NEW i \in Invocations, Alone(i), UNCHANGED s3Vars,
           \A b \in Buckets : ~Owns(i, b)',
           LocalOf(i)', StoreTypes',
           \A n \in Names : Passed(i, n)' => Passed(i, n),
           \A r \in Requests :
              \/ feedback'[r] = feedback[r]
              \/ r = i[1] /\ pc[i] = "feedback" /\ feedback'[r] = issues[i]
    PROVE  StepOf(i)
<1>1. exists' = exists /\ applied' = applied /\ policy' = policy
  BY DEF s3Vars
<1>2. Contained(i)
  BY <1>1 DEF Contained
<1>3. ProgressOf(i)'
  BY IdleProgress
<1>4. CleanInv'
  BY <1>1 DEF IInv, CleanInv
<1> QED BY <1>2, <1>3, <1>4 DEF StepOf, Upkeep

\* A failing attempt starts over, or ends.
LEMMA ErrStep ==
    ASSUME IInv, NEW i \in Invocations, ReturnErr(i)
    PROVE  /\ Alone(i)
           /\ pc' \in [Invocations -> Running \cup {"idle", "ok", "dropped"}]
           /\ pc'[i] \in {"read", "dropped"}
           /\ failures' \in [Invocations -> Nat] /\ DOMAIN pos' = Invocations
           /\ DOMAIN step' = Invocations /\ DOMAIN undo' = Invocations
           /\ DOMAIN issues' = Invocations
           /\ LocalOf(i)'
           /\ \A n : ~Passed(i, n)'
           /\ \A b \in Buckets : ~Owns(i, b)'
<1>1. StoreTypes
  BY DEF IInv
<1>2. Alone(i)
  BY <1>1 DEF Alone, ReturnErr, StoreTypes
<1>3. /\ pc'[i] \in {"read", "dropped"} /\ pos'[i] = 1 /\ step'[i] = 1
      /\ undo'[i] = <<>> /\ issues'[i] = {}
  BY <1>1 DEF ReturnErr, StoreTypes
<1>4. LocalOf(i)'
  BY <1>3 DEF LocalOf, Busy
<1>5. \A n : ~Passed(i, n)'
  BY <1>3 DEF Passed, Busy
<1>6. \A b \in Buckets : ~Owns(i, b)'
  BY <1>3, NotOwning DEF Busy
<1>7. pc' \in [Invocations -> Running \cup {"idle", "ok", "dropped"}]
  BY <1>1 DEF ReturnErr, StoreTypes, Running
<1>8. /\ failures' \in [Invocations -> Nat] /\ DOMAIN pos' = Invocations
      /\ DOMAIN step' = Invocations /\ DOMAIN undo' = Invocations
      /\ DOMAIN issues' = Invocations
  BY <1>1 DEF ReturnErr, StoreTypes
<1> QED BY <1>2, <1>3, <1>4, <1>5, <1>6, <1>7, <1>8

\* A step that fails the attempt, and touches no bucket and no feedback.
LEMMA ErrKeeps ==
    ASSUME IInv, NEW i \in Invocations, ReturnErr(i), UNCHANGED s3Vars,
           files' \subseteq files, UNCHANGED <<uploaded, feedback>>
    PROVE  StepOf(i)
<1>1. StoreTypes'
  BY ErrStep DEF IInv, StoreTypes, s3Vars
<1> QED BY <1>1, ErrStep, QuietStep

\* An attempt moves on to another of its single calls.
LEMMA CallStep ==
    ASSUME IInv, NEW i \in Invocations, NEW next \in Running \cup {"ok"},
           pc' = [pc EXCEPT ![i] = next],
           UNCHANGED <<s3Vars, pos, step, undo, issues, failures>>,
           files' \subseteq files, UNCHANGED <<uploaded, feedback>>,
           \/ pc[i] = "idle" /\ next = "read"
           \/ pc[i] = "read" /\ Reviewed(i[1]) = <<>> /\ next = "delete"
           \/ pc[i] = "read" /\ Valid(i[1]) /\ Reviewed(i[1]) # <<>>
              /\ next = "create"
           \/ pc[i] = "delete" /\ next = "trigger"
           \/ pc[i] = "trigger" /\ next = "ok"
    PROVE  StepOf(i)
<1>1. StoreTypes /\ LocalOf(i)
  BY DEF IInv, LocalInv
<1>2. /\ pc'[i] = next /\ pos'[i] = pos[i] /\ step'[i] = step[i]
      /\ undo'[i] = undo[i] /\ issues'[i] = issues[i]
  BY <1>1 DEF StoreTypes
<1>3. Alone(i)
  BY <1>1 DEF Alone, StoreTypes
<1>4. StoreTypes'
  BY <1>1 DEF StoreTypes, s3Vars
<1>5. \A b \in Buckets : ~Owns(i, b)'
  BY <1>1, <1>2, NotOwning DEF LocalOf, Busy
<1>6. LocalOf(i)'
  <2>1. CASE next = "create"
    <3>1. pos[i] = 1 /\ step[i] = 1 /\ issues[i] = {} /\ undo[i] = <<>>
      BY <1>1, <2>1 DEF LocalOf
    <3>2. Len(Reviewed(i[1])) \in Nat /\ Len(Reviewed(i[1])) >= 1
      BY <2>1 DEF Reviewed
    <3>3. 1 \in 1..Len(Plan(NameOf(i)'))
      BY PlanFacts
    <3> QED BY <1>2, <2>1, <3>1, <3>2, <3>3 DEF LocalOf, Busy, NameOf
  <2>2. CASE next # "create"
    BY <1>1, <1>2, <2>2 DEF LocalOf, Busy
  <2> QED BY <2>1, <2>2
<1>7. ASSUME NEW n \in Names, Passed(i, n)'
      PROVE  Passed(i, n)
  <2>1. CASE next = "create"
    BY <1>1, <1>2, <1>7, <2>1 DEF Passed, LocalOf
  <2>2. CASE next = "delete"
    BY <1>1, <1>2, <1>7, <2>2 DEF Passed, Requested, Busy
  <2>3. CASE next \notin {"create", "delete"}
    BY <1>1, <1>2, <1>7, <2>3 DEF Passed, Busy
  <2> QED BY <2>1, <2>2, <2>3
<1> QED BY <1>3, <1>4, <1>5, <1>6, <1>7, QuietStep

\* The event of an upload reaches an invocation.
LEMMA DeliverStep ==
    ASSUME IInv, NEW i \in Invocations, Deliver(i)
    PROVE  StepOf(i)
<1>1. "read" \in Running
  BY DEF Running
<1> QED BY <1>1, CallStep DEF Deliver

\* The request file is gone, and users are synchronised.
LEMMA TailSteps ==
    ASSUME IInv, NEW i \in Invocations, DeleteRequest(i) \/ TriggerSync(i)
    PROVE  StepOf(i)
<1>1. "trigger" \in Running
  BY DEF Running
<1>2. CASE DeleteRequest(i)
  <2>1. files' \subseteq files /\ UNCHANGED <<uploaded, s3Vars, feedback>>
    BY <1>2 DEF DeleteRequest
  <2>2. CASE ReturnErr(i)
    BY <2>1, <2>2, ErrKeeps
  <2>3. CASE /\ pc' = [pc EXCEPT ![i] = "trigger"]
             /\ UNCHANGED <<failures, pos, step, undo, issues>>
    BY <1>1, <1>2, <2>1, <2>3, CallStep DEF DeleteRequest
  <2> QED BY <1>2, <2>2, <2>3 DEF DeleteRequest
<1>3. CASE TriggerSync(i)
  <2>1. files' = files /\ UNCHANGED <<uploaded, s3Vars, feedback>>
    BY <1>3 DEF TriggerSync
  <2>2. CASE ReturnErr(i)
    BY <2>1, <2>2, ErrKeeps
  <2>3. CASE /\ pc' = [pc EXCEPT ![i] = "ok"]
             /\ UNCHANGED <<failures, pos, step, undo, issues>>
    BY <1>3, <2>1, <2>3, CallStep DEF TriggerSync
  <2> QED BY <1>3, <2>2, <2>3 DEF TriggerSync
<1> QED BY <1>2, <1>3

\* A crash rolls nothing back, but it names no pair as made either.
LEMMA CrashStep ==
    ASSUME IInv, NEW i \in Invocations, Crash(i)
    PROVE  StepOf(i)
<1>1. /\ ReturnErr(i)
      /\ UNCHANGED <<files, uploaded, s3Vars, feedback>>
  BY DEF Crash
<1> QED BY <1>1, ErrKeeps

\* A request that cannot be read or reviewed is reported, not made.
LEMMA ReadStep ==
    ASSUME IInv, NEW i \in Invocations, ReadRequest(i)
    PROVE  StepOf(i)
<1>1. UNCHANGED <<files, uploaded, s3Vars, feedback>> /\ pc[i] = "read"
  BY DEF ReadRequest
<1>2. StoreTypes /\ LocalOf(i)
  BY DEF IInv, LocalInv
<1>3. ASSUME NEW issue \in {"file", "line"}, RefuseRequest(i, issue)
      PROVE  StepOf(i)
  <2>1. /\ pc'[i] = "feedback" /\ issues'[i] = {issue} /\ undo'[i] = <<>>
    BY <1>1, <1>2, <1>3 DEF RefuseRequest, StoreTypes, LocalOf
  <2>2. Alone(i)
    BY <1>2, <1>3 DEF RefuseRequest, StoreTypes, Alone
  <2>3. StoreTypes'
    BY <1>1, <1>2, <1>3 DEF RefuseRequest, StoreTypes, s3Vars, Running
  <2>4. LocalOf(i)'
    BY <2>1 DEF LocalOf, Busy
  <2>5. \A n : ~Passed(i, n)'
    BY <2>1, RequestAssumption DEF Passed, Busy
  <2>6. \A b \in Buckets : ~Owns(i, b)'
    BY <2>1, NotOwning DEF Busy
  <2> QED BY <1>1, <2>2, <2>3, <2>4, <2>5, <2>6, QuietStep
<1>4. CASE /\ Valid(i[1])
           /\ pc' = [pc EXCEPT ![i] =
                        IF Reviewed(i[1]) = <<>> THEN "delete" ELSE "create"]
           /\ UNCHANGED <<failures, pos, step, undo, issues>>
  <2>1. "delete" \in Running /\ "create" \in Running
    BY DEF Running
  <2>2. CASE Reviewed(i[1]) = <<>>
    BY <1>1, <1>4, <2>1, <2>2, CallStep
  <2>3. CASE Reviewed(i[1]) # <<>>
    BY <1>1, <1>4, <2>1, <2>3, CallStep
  <2> QED BY <2>2, <2>3
<1> QED BY <1>3, <1>4 DEF ReadRequest

\* The feedback names what the attempt has not made.
LEMMA FeedbackStep ==
    ASSUME IInv, NEW i \in Invocations, PutFeedback(i)
    PROVE  StepOf(i)
<1>1. /\ ReturnErr(i) /\ pc[i] = "feedback"
      /\ UNCHANGED <<files, uploaded, s3Vars>>
      /\ \/ feedback' = feedback
         \/ feedback' = [feedback EXCEPT ![i[1]] = issues[i]]
  BY DEF PutFeedback
<1>2. StoreTypes /\ LocalOf(i)
  BY DEF IInv, LocalInv
<1>3. issues[i] \in SUBSET (Names \cup {"file", "line"})
  BY <1>1, <1>2 DEF LocalOf
<1>4. i[1] \in Requests
  BY RequestAssumption DEF Invocations
<1>5. StoreTypes'
  <2>1. feedback' \in [Requests -> SUBSET (Names \cup {"file", "line"})]
    BY <1>1, <1>2, <1>3 DEF StoreTypes
  <2> QED BY <1>1, <1>2, <2>1, ErrStep DEF StoreTypes, s3Vars
<1>6. \A r \in Requests :
         \/ feedback'[r] = feedback[r]
         \/ r = i[1] /\ pc[i] = "feedback" /\ feedback'[r] = issues[i]
  BY <1>1, <1>2, <1>4 DEF StoreTypes
<1> QED BY <1>1, <1>5, <1>6, ErrStep, QuietStep

-----------------------------------------------------------------------------
(* The steps that change buckets *)

\* What an attempt works on is a bucket of the stack, by a call of its plan.
LEMMA AtWork ==
    ASSUME IInv, NEW i \in Invocations, pc[i] = "create"
    PROVE  /\ NameOf(i) \in Names
           /\ step[i] \in 1..Len(Plan(NameOf(i)))
           /\ Len(Plan(NameOf(i))) \in Nat
           /\ BucketOf(i) = <<NameOf(i), Plan(NameOf(i))[step[i]][1]>>
           /\ BucketOf(i) \in Buckets
           /\ BucketOf(i)[2] \in Sides
           /\ CallOf(i) \in CallNames
           /\ Plan(NameOf(i))[step[i]] = <<BucketOf(i)[2], CallOf(i)>>
           /\ CallOf(i) = "create" <=>
                 step[i] = CreateAt(NameOf(i), BucketOf(i)[2])
           /\ CallOf(i) # "create" => Owns(i, BucketOf(i))
<1>1. /\ NameOf(i) \in Names
      /\ step[i] \in 1..Len(Plan(NameOf(i)))
  BY DEF IInv, LocalInv, LocalOf, Busy, NameOf, Valid
<1>2. "primary" \in Sides
  BY DEF Sides
<1>3. /\ Len(Plan(NameOf(i))) \in Nat
      /\ Plan(NameOf(i))[step[i]] \in PlanCalls
      /\ Plan(NameOf(i))[step[i]] =
            <<Plan(NameOf(i))[step[i]][1], Plan(NameOf(i))[step[i]][2]>>
  BY <1>1, <1>2, PlanOrder
<1>4. /\ Plan(NameOf(i))[step[i]][1] \in Sides
      /\ Plan(NameOf(i))[step[i]][2] \in CallNames
  BY <1>3 DEF PlanCalls
<1>5. /\ BucketOf(i) = <<NameOf(i), Plan(NameOf(i))[step[i]][1]>>
      /\ BucketOf(i) \in Buckets
      /\ BucketOf(i)[1] = NameOf(i)
      /\ BucketOf(i)[2] = Plan(NameOf(i))[step[i]][1]
      /\ CallOf(i) = Plan(NameOf(i))[step[i]][2]
  BY <1>1, <1>4 DEF BucketOf, Buckets, CallOf
<1>6. Plan(NameOf(i))[step[i]] = <<BucketOf(i)[2], CallOf(i)>>
  BY <1>3, <1>5
<1> DEFINE side == BucketOf(i)[2]
<1>7. /\ CallOf(i) = "create" <=> step[i] = CreateAt(NameOf(i), side)
      /\ step[i] >= CreateAt(NameOf(i), side)
      /\ CreateAt(NameOf(i), side) \in Nat
  BY <1>1, <1>4, <1>5, <1>6, PlanOrder
<1>8. CallOf(i) # "create" => step[i] > CreateAt(NameOf(i), side)
  BY <1>1, <1>3, <1>7
<1>9. CallOf(i) # "create" => Owns(i, BucketOf(i))
  BY <1>5, <1>8 DEF Owns, Busy
<1> QED BY <1>1, <1>3, <1>4, <1>5, <1>6, <1>7, <1>9

\* A call that S3 accepts changes the one bucket it is about: a new one, or one
\* the attempt owns.
LEMMA LandedFacts ==
    ASSUME IInv, NEW i \in Invocations, pc[i] = "create",
           Accepted(CallOf(i), BucketOf(i)), Landed(CallOf(i), BucketOf(i))
    PROVE  /\ \A b \in Buckets : b # BucketOf(i) =>
                 /\ b \in exists' <=> b \in exists
                 /\ applied'[b] = applied[b] /\ policy'[b] = policy[b]
           /\ BucketOf(i) \in exists'
           /\ BucketOf(i) \notin exists \/ Owns(i, BucketOf(i))
           /\ exists \subseteq exists' /\ exists' \subseteq Buckets
           /\ applied' \in [Buckets -> SUBSET Configurations]
           /\ policy' \in [Buckets -> Policies]
           /\ CleanInv'
<1> DEFINE B == BucketOf(i)
           call == CallOf(i)
<1>1. StoreTypes /\ CleanInv /\ B \in Buckets /\ call \in CallNames
  BY AtWork DEF IInv
<1>2. call # "create" => Owns(i, B)
  BY AtWork
<1>3. call # "create" => B \in exists
  BY <1>1, <1>2 DEF IInv, OwnerInv
<1>4. call = "create" => B \notin exists
  BY DEF Accepted
<1> HIDE DEF B, call
<1>5. Landed(call, B)
  BY DEF call, B
<1>6. exists' = IF call = "create" THEN exists \cup {B} ELSE exists
  BY <1>5 DEF Landed, PolicyAfter
<1>7. /\ applied' \in [Buckets -> SUBSET Configurations]
      /\ \A b \in Buckets : b # B => applied'[b] = applied[b]
  <2> DEFINE new == applied[B] \cup ({call} \cap Configurations)
  <2>1. applied \in [Buckets -> SUBSET Configurations]
    BY <1>1 DEF StoreTypes
  <2>2. new \in SUBSET Configurations
    BY <1>1, <2>1
  <2>3. applied' = [applied EXCEPT ![B] = new]
    BY <1>5 DEF Landed, PolicyAfter
  <2> HIDE DEF new
  <2> QED BY <1>1, <2>1, <2>2, <2>3
<1>8. /\ policy' \in [Buckets -> Policies]
      /\ \A b \in Buckets : b # B => policy'[b] = policy[b]
  BY <1>1, <1>5 DEF Landed, PolicyAfter, StoreTypes, Policies
<1>9. /\ B \in exists' /\ exists \subseteq exists' /\ exists' \subseteq Buckets
      /\ \A b \in Buckets : b # B => (b \in exists' <=> b \in exists)
  BY <1>1, <1>3, <1>6 DEF StoreTypes
<1>10. CleanInv'
  BY <1>1, <1>7, <1>8, <1>9 DEF CleanInv
<1> QED BY <1>2, <1>4, <1>7, <1>8, <1>9, <1>10 DEF B, call

\* create_pairs goes on with the next pair, and owns nothing of it yet.
LEMMA NextPairStep ==
    ASSUME IInv, NEW i \in Invocations, pc[i] \in Busy,
           NEW found \in SUBSET Names, issues[i] \subseteq found,
           NextPair(i, found),
           UNCHANGED failures, DOMAIN undo' = Invocations, undo'[i] = <<>>,
           \A j \in Invocations \ {i} : undo'[j] = undo[j]
    PROVE  /\ Alone(i)
           /\ pc' \in [Invocations -> Running \cup {"idle", "ok", "dropped"}]
           /\ failures' \in [Invocations -> Nat] /\ DOMAIN pos' = Invocations
           /\ DOMAIN step' = Invocations /\ DOMAIN issues' = Invocations
           /\ LocalOf(i)'
           /\ \A b \in Buckets : ~Owns(i, b)'
           /\ \A n \in Names : Passed(i, n)' =>
                 Passed(i, n) \/ (n = NameOf(i) /\ n \notin found)
<1> DEFINE last == pos[i] = Len(Reviewed(i[1]))
<1>1. StoreTypes /\ LocalOf(i)
  BY DEF IInv, LocalInv
<1>2. /\ issues'[i] = found
      /\ pos'[i] = IF last THEN pos[i] ELSE pos[i] + 1
      /\ step'[i] = 1
      /\ pc'[i] = IF ~last THEN "create"
                  ELSE IF found = {} THEN "delete" ELSE "feedback"
  BY <1>1 DEF NextPair, StoreTypes
<1>3. Alone(i)
  BY <1>1 DEF NextPair, StoreTypes, Alone
<1>4. pc' \in [Invocations -> Running \cup {"idle", "ok", "dropped"}]
  BY <1>1 DEF NextPair, StoreTypes, Running
<1>5. /\ failures' \in [Invocations -> Nat] /\ DOMAIN pos' = Invocations
      /\ DOMAIN step' = Invocations /\ DOMAIN issues' = Invocations
  BY <1>1 DEF NextPair, StoreTypes
<1>6. /\ Valid(i[1]) /\ pos[i] \in 1..Len(Reviewed(i[1]))
      /\ Len(Reviewed(i[1])) \in Nat
  BY <1>1 DEF LocalOf, Reviewed
<1>7. LocalOf(i)'
  <2>1. CASE last
    BY <1>2, <1>6, <2>1 DEF LocalOf, Busy
  <2>2. CASE ~last
    <3>1. pos'[i] \in 1..Len(Reviewed(i[1]))
      BY <1>2, <1>6, <2>2
    <3>2. 1 \in 1..Len(Plan(NameOf(i)'))
      BY PlanFacts
    <3> QED BY <1>2, <1>6, <2>2, <3>1, <3>2 DEF LocalOf, Busy, NameOf
  <2> QED BY <2>1, <2>2
<1>8. \A b \in Buckets : ~Owns(i, b)'
  BY <1>2, NotOwning DEF Busy
<1>9. ASSUME NEW n \in Names, Passed(i, n)'
      PROVE  Passed(i, n) \/ (n = NameOf(i) /\ n \notin found)
  <2>1. n \notin found /\ n \notin issues[i]
    BY <1>2, <1>9 DEF Passed
  <2>2. PICK k \in 1..pos[i] : Reviewed(i[1])[k] = n
    <3>1. CASE last
      <4>1. n \in Requested(i[1])
        BY <1>2, <1>9, <3>1 DEF Passed, Busy
      <4> QED BY <3>1, <4>1 DEF Requested
    <3>2. CASE ~last
      <4>1. \E k \in 1..((pos[i] + 1) - 1) : Reviewed(i[1])[k] = n
        BY <1>2, <1>9, <3>2 DEF Passed, Busy
      <4> QED BY <1>6, <4>1
    <3> QED BY <3>1, <3>2
  <2>3. CASE k = pos[i]
    BY <2>1, <2>2, <2>3 DEF NameOf
  <2>4. CASE k # pos[i]
    <3>1. k \in 1..(pos[i] - 1)
      BY <1>6, <2>2, <2>4
    <3> QED BY <2>1, <2>2, <3>1 DEF Passed
  <2> QED BY <2>3, <2>4
<1> QED BY <1>3, <1>4, <1>5, <1>7, <1>8, <1>9

\* A call within a pair: what it adds is what the plan says.
LEMMA MidStep ==
    ASSUME IInv, NEW i \in Invocations, MakeCall(i),
           step[i] < Len(Plan(NameOf(i))),
           step' = [step EXCEPT ![i] = @ + 1], UNCHANGED <<pc, pos, issues>>
    PROVE  StepOf(i)
<1> DEFINE n == NameOf(i)
           k == step[i]
           B == BucketOf(i)
           call == CallOf(i)
<1>1. /\ pc[i] = "create"
      /\ Accepted(CallOf(i), BucketOf(i)) /\ Landed(CallOf(i), BucketOf(i))
      /\ UNCHANGED <<files, uploaded, feedback, failures, undo>>
  BY DEF MakeCall
<1>2. StoreTypes /\ LocalOf(i) /\ CleanInv /\ OwnerInv /\ ProgressOf(i)
  BY DEF IInv, LocalInv, ProgressInv
<1>3. /\ n \in Names /\ k \in 1..Len(Plan(n)) /\ Len(Plan(n)) \in Nat
      /\ B = <<n, Plan(n)[k][1]>> /\ B \in Buckets /\ B[2] \in Sides
      /\ Plan(n)[k] = <<B[2], call>>
      /\ call = "create" <=> k = CreateAt(n, B[2])
      /\ call # "create" => Owns(i, B)
  BY <1>1, AtWork
<1>4. /\ step'[i] = k + 1 /\ pc'[i] = "create" /\ pos'[i] = pos[i]
      /\ undo'[i] = <<>> /\ issues'[i] = issues[i] /\ NameOf(i)' = n
  BY <1>1, <1>2 DEF StoreTypes, LocalOf, NameOf
<1>5. /\ \A b \in Buckets : b # B =>
            /\ b \in exists' <=> b \in exists
            /\ applied'[b] = applied[b] /\ policy'[b] = policy[b]
      /\ B \in exists' /\ (B \notin exists \/ Owns(i, B))
      /\ exists \subseteq exists' /\ exists' \subseteq Buckets
      /\ applied' \in [Buckets -> SUBSET Configurations]
      /\ policy' \in [Buckets -> Policies]
      /\ CleanInv'
  BY <1>1, LandedFacts
<1>6. Alone(i)
  BY <1>1, <1>2 DEF StoreTypes, Alone
<1>7. StoreTypes'
  BY <1>1, <1>2, <1>5 DEF StoreTypes
<1>8. LocalOf(i)'
  <2>1. k + 1 \in 1..Len(Plan(n))
    BY <1>3
  <2> QED BY <1>1, <1>2, <1>4, <2>1 DEF LocalOf, Busy, NameOf
<1>9. ASSUME NEW b \in Buckets, Owns(i, b)'
      PROVE  /\ b = <<n, b[2]>> /\ b[2] \in Sides
             /\ b # B => Owns(i, b)
  <2>1. b = <<b[1], b[2]>> /\ b[1] = NameOf(i)' /\ b[2] \in Sides
    BY <1>9 DEF Owns, Buckets
  <2>2. step'[i] > CreateAt(b[1], b[2])
    BY <1>4, <1>9 DEF Owns, CreateAt
  <2>3. b[1] = n /\ k + 1 > CreateAt(n, b[2])
    BY <1>4, <2>1, <2>2
  <2>4. ASSUME b # B
        PROVE  Owns(i, b)
    <3>1. Plan(n)[k] # <<b[2], "create">>
      BY <1>3, <2>1, <2>3, <2>4
    <3>2. k # CreateAt(n, b[2]) /\ CreateAt(n, b[2]) \in Nat
      BY <1>3, <2>1, <3>1, PlanOrder
    <3>3. k > CreateAt(n, b[2])
      BY <1>3, <2>3, <3>2
    <3> QED BY <1>1, <2>3, <3>3 DEF Owns, Busy
  <2> QED BY <2>1, <2>3, <2>4
<1>10. Contained(i)
  <2> SUFFICES ASSUME NEW b \in Buckets
               PROVE  /\ b \in exists /\ ~Owns(i, b) =>
                            /\ b \in exists' /\ applied'[b] = applied[b]
                            /\ policy'[b] = policy[b]
                      /\ Owns(i, b)' =>
                            b \in exists' /\ (Owns(i, b) \/ b \notin exists)
    BY DEF Contained
  <2>1. CASE b = B
    BY <1>5, <2>1
  <2>2. CASE b # B
    <3>1. Owns(i, b) => b \in exists
      BY <1>2 DEF OwnerInv
    <3> QED BY <1>5, <1>9, <2>2, <3>1
  <2> QED BY <2>1, <2>2
<1>11. ASSUME NEW b \in Buckets, Owns(i, b)'
       PROVE  /\ applied'[b] = AppliedBy(n, b[2], k + 1)
              /\ policy'[b] = PolicyBy(n, b[2], k + 1)
  <2> DEFINE side == b[2]
  <2>0. b = <<n, side>> /\ side \in Sides
    BY <1>9, <1>11
  <2>1. CASE b # B
    <3>1. Plan(n)[k][1] # side
      BY <1>3, <2>0, <2>1
    <3>2. /\ AppliedBy(n, side, k + 1) = AppliedBy(n, side, k)
          /\ PolicyBy(n, side, k + 1) = PolicyBy(n, side, k)
      BY <1>3, <2>0, <3>1, AppliedGrows, PolicyMoves
    <3>3. Owns(i, <<n, side>>)
      BY <1>9, <1>11, <2>0, <2>1
    <3>4. /\ applied[<<n, side>>] = AppliedBy(n, side, k)
          /\ policy[<<n, side>>] = PolicyBy(n, side, k)
      BY <1>1, <1>2, <2>0, <3>3 DEF ProgressOf
    <3> QED BY <1>5, <2>0, <2>1, <3>2, <3>4
  <2>2. CASE b = B
    <3>1. Plan(n)[k][1] = side /\ Plan(n)[k][2] = call
      BY <1>3, <2>2
    <3>2. AppliedBy(n, side, k + 1) =
             AppliedBy(n, side, k) \cup ({call} \cap Configurations)
      BY <1>3, <2>0, <3>1, AppliedGrows
    <3>3. PolicyBy(n, side, k + 1) =
             CASE call = "deny_uploads" -> "deny"
               [] call = "remove_policy" -> "none"
               [] call = "public_policy" -> "public"
               [] OTHER -> PolicyBy(n, side, k)
      <4>1. PolicyBy(n, side, k + 1) =
               IF Plan(n)[k][1] = side
               THEN CASE Plan(n)[k][2] = "deny_uploads" -> "deny"
                      [] Plan(n)[k][2] = "remove_policy" -> "none"
                      [] Plan(n)[k][2] = "public_policy" -> "public"
                      [] OTHER -> PolicyBy(n, side, k)
               ELSE PolicyBy(n, side, k)
        BY <1>3, <2>0, PolicyMoves
      <4> QED BY <3>1, <4>1
    <3>4. /\ applied[B] = AppliedBy(n, side, k)
          /\ policy[B] = PolicyBy(n, side, k)
      <4>1. CASE call = "create"
        <5>1. k = CreateAt(n, side)
          BY <1>3, <2>2, <4>1
        <5>2. AppliedBy(n, side, k) = {} /\ PolicyBy(n, side, k) = "none"
          BY <1>3, <2>0, <5>1, AppliedAtCreate, PolicyMoves
        <5>3. B \notin exists
          BY <1>1, <4>1 DEF Accepted
        <5> QED BY <1>2, <1>3, <5>2, <5>3 DEF CleanInv
      <4>2. CASE call # "create"
        <5>1. Owns(i, <<n, side>>)
          BY <1>3, <2>0, <2>2, <4>2
        <5> QED BY <1>1, <1>2, <2>0, <2>2, <5>1 DEF ProgressOf
      <4> QED BY <4>1, <4>2
    <3>5. /\ applied'[B] = applied[B] \cup ({call} \cap Configurations)
          /\ policy'[B] = CASE call = "deny_uploads" -> "deny"
                            [] call = "remove_policy" -> "none"
                            [] call = "public_policy" -> "public"
                            [] OTHER -> policy[B]
      <4> HIDE DEF B, call
      <4> QED BY <1>1, <1>2, <1>3 DEF Landed, PolicyAfter, StoreTypes, B, call
    <3> QED BY <2>2, <3>2, <3>3, <3>4, <3>5
  <2> QED BY <2>1, <2>2
<1>12. ProgressOf(i)'
  <2> SUFFICES ASSUME NEW side \in Sides, Owns(i, <<NameOf(i), side>>)'
               PROVE  (/\ applied[<<NameOf(i), side>>] =
                             AppliedBy(NameOf(i), side, step[i])
                       /\ policy[<<NameOf(i), side>>] =
                             PolicyBy(NameOf(i), side, step[i]))'
    BY DEF ProgressOf
  <2>1. PICK b \in Buckets : b = <<n, side>>
    BY <1>3 DEF Buckets
  <2>2. b = <<NameOf(i)', side>> /\ b[2] = side
    BY <1>4, <2>1
  <2>3. Owns(i, b)'
    BY <2>2 DEF Owns, CreateAt
  <2>4. /\ applied'[b] = AppliedBy(n, side, k + 1)
        /\ policy'[b] = PolicyBy(n, side, k + 1)
    BY <1>11, <2>1, <2>3
  <2>5. /\ applied'[<<NameOf(i)', side>>] = AppliedBy(NameOf(i)', side, step'[i])
        /\ policy'[<<NameOf(i)', side>>] = PolicyBy(NameOf(i)', side, step'[i])
    BY <1>4, <2>2, <2>4
  <2> QED BY <2>5 DEF AppliedBy, PolicyBy
<1>13. \A m \in Names : Passed(i, m)' => Passed(i, m)
  BY <1>1, <1>4 DEF Passed, Busy
<1> QED BY <1>1, <1>5, <1>6, <1>7, <1>8, <1>10, <1>12, <1>13 DEF StepOf, Upkeep

\* The last call of a pair: both buckets are now as expected, and left alone.
LEMMA LastStep ==
    ASSUME IInv, NEW i \in Invocations, MakeCall(i),
           step[i] = Len(Plan(NameOf(i))), NextPair(i, issues[i])
    PROVE  StepOf(i) /\ \A m \in Names : m = NameOf(i) => SettledPair(m)'
<1> DEFINE n == NameOf(i)
           k == step[i]
           P == <<n, "primary">>
           R == <<n, "replica">>
<1>1. /\ pc[i] = "create"
      /\ Accepted(CallOf(i), BucketOf(i)) /\ Landed(CallOf(i), BucketOf(i))
      /\ UNCHANGED <<files, uploaded, feedback, failures, undo>>
  BY DEF MakeCall
<1>2. StoreTypes /\ LocalOf(i) /\ OwnerInv /\ ProgressOf(i)
  BY DEF IInv, LocalInv, ProgressInv
<1>3. /\ n \in Names /\ k \in 1..Len(Plan(n)) /\ Len(Plan(n)) \in Nat
      /\ BucketOf(i) = <<n, Plan(n)[k][1]>> /\ CallOf(i) = Plan(n)[k][2]
  BY <1>1, AtWork DEF CallOf
<1>4. Plan(n)[k] = <<"primary", "replication">>
  BY PlanEnds
<1>5. BucketOf(i) = P /\ CallOf(i) = "replication"
  BY <1>3, <1>4
<1>6. P \in Buckets /\ R \in Buckets /\ P # R
  BY <1>3 DEF Buckets, Sides
<1>7. /\ \A b \in Buckets : b # P =>
            /\ b \in exists' <=> b \in exists
            /\ applied'[b] = applied[b] /\ policy'[b] = policy[b]
      /\ P \in exists' /\ (P \notin exists \/ Owns(i, P))
      /\ exists \subseteq exists' /\ exists' \subseteq Buckets
      /\ applied' \in [Buckets -> SUBSET Configurations]
      /\ policy' \in [Buckets -> Policies]
      /\ CleanInv'
  <2> HIDE DEF n, P
  <2> QED BY <1>1, <1>5, LandedFacts
<1>8. Owns(i, P) /\ Owns(i, R)
  <2>1. "primary" \in Sides /\ "replica" \in Sides
    BY DEF Sides
  <2>2. CreateAt(n, "primary") < k /\ CreateAt(n, "replica") < k
    BY <1>3, <2>1, PlanOrder
  <2> QED BY <1>1, <2>2 DEF Owns, Busy
<1>9. /\ applied[P] \cup {"replication"} = Expected(n, "primary")
      /\ applied[R] = Expected(n, "replica")
      /\ policy[P] = IF n \in PublicNames THEN "public" ELSE "none"
      /\ policy[R] = "none"
  <2>1. "primary" \in Sides /\ "replica" \in Sides
    BY DEF Sides
  <2>2. /\ applied[P] = AppliedBy(n, "primary", k)
        /\ policy[P] = PolicyBy(n, "primary", k)
        /\ applied[R] = AppliedBy(n, "replica", k)
        /\ policy[R] = PolicyBy(n, "replica", k)
    BY <1>1, <1>2, <1>8, <2>1 DEF ProgressOf
  <2> QED BY <2>2, PlanEnds
<1>10. Alone(i) /\ issues[i] \in SUBSET Names
  BY <1>1, <1>2 DEF NextPair, StoreTypes, Alone, LocalOf, Busy
<1>11. /\ undo'[i] = <<>> /\ DOMAIN undo' = Invocations
       /\ \A j \in Invocations \ {i} : undo'[j] = undo[j]
  BY <1>1, <1>2 DEF LocalOf, StoreTypes
<1>12. /\ pc' \in [Invocations -> Running \cup {"idle", "ok", "dropped"}]
       /\ failures' \in [Invocations -> Nat] /\ DOMAIN pos' = Invocations
       /\ DOMAIN step' = Invocations /\ DOMAIN issues' = Invocations
       /\ LocalOf(i)'
       /\ \A b \in Buckets : ~Owns(i, b)'
       /\ \A m \in Names : Passed(i, m)' =>
             Passed(i, m) \/ (m = NameOf(i) /\ m \notin issues[i])
  BY <1>1, <1>10, <1>11, NextPairStep DEF Busy
<1>13. StoreTypes'
  BY <1>1, <1>2, <1>7, <1>11, <1>12 DEF StoreTypes
<1>14. Contained(i)
  BY <1>7, <1>8, <1>12 DEF Contained
<1>15. ProgressOf(i)'
  BY <1>12, IdleProgress
<1>16. ASSUME NEW m \in Names, m = n
       PROVE  SettledPair(m)'
  <2>1. /\ P \in exists' /\ R \in exists'
    BY <1>2, <1>6, <1>7, <1>8 DEF OwnerInv
  <2>2. /\ applied'[P] = applied[P] \cup {"replication"}
        /\ policy'[P] = policy[P]
    <3>1. "replication" \in Configurations
      BY DEF Configurations, EveryBucket, StandardBucket
    <3>2. Landed("replication", P)
      BY <1>1, <1>5
    <3> HIDE DEF P
    <3> QED BY <1>2, <1>6, <3>1, <3>2 DEF Landed, PolicyAfter, StoreTypes
  <2>3. applied'[R] = applied[R] /\ policy'[R] = policy[R]
    BY <1>6, <1>7
  <2>4. ASSUME NEW side \in Sides
        PROVE  Complete(m, side)'
    <3>1. CASE side = "primary"
      BY <1>9, <1>16, <2>1, <2>2, <3>1 DEF Complete, Expected
    <3>2. CASE side = "replica"
      BY <1>9, <1>16, <2>1, <2>3, <3>2 DEF Complete, Expected
    <3> QED BY <3>1, <3>2 DEF Sides
  <2>5. ASSUME NEW j \in Invocations, NEW side \in Sides
        PROVE  ~Owns(j, <<m, side>>)'
    <3>1. <<m, side>> \in Buckets /\ Owns(i, <<m, side>>)
      BY <1>6, <1>8, <1>16 DEF Sides
    <3>2. CASE j = i
      BY <1>12, <3>1, <3>2
    <3>3. CASE j # i
      <4>1. ~Owns(j, <<m, side>>)
        BY <1>2, <3>1, <3>3 DEF OwnerInv
      <4> QED BY <1>10, <3>3, <4>1, OthersHold
    <3> QED BY <3>2, <3>3
  <2> QED BY <2>4, <2>5 DEF SettledPair, Whole
<1>17. \A m \in Names : Passed(i, m)' => Passed(i, m) \/ SettledPair(m)'
  BY <1>12, <1>16
<1>18. StepOf(i)
  BY <1>1, <1>7, <1>10, <1>12, <1>13, <1>14, <1>15, <1>17 DEF StepOf, Upkeep
<1> QED BY <1>16, <1>18

\* A call that returns Ok keeps the plan.
LEMMA MakeStep ==
    ASSUME IInv, NEW i \in Invocations, MakeCall(i)
    PROVE  StepOf(i)
<1>1. \/ /\ step[i] < Len(Plan(NameOf(i)))
         /\ step' = [step EXCEPT ![i] = @ + 1]
         /\ UNCHANGED <<pc, pos, issues>>
      \/ /\ step[i] = Len(Plan(NameOf(i)))
         /\ NextPair(i, issues[i])
  BY DEF MakeCall
<1> QED BY <1>1, MidStep, LastStep

\* Replication is configured when everything else is.
LEMMA PlanReplicates ==
    ASSUME NEW n, NEW k \in 1..Len(Plan(n)),
           Plan(n)[k] = <<"primary", "replication">>
    PROVE  k = Len(Plan(n)) /\ k \in {12, 14}
           /\ (n \in PublicNames => k = 14)
<1> DEFINE P == Plan(n)
<1>1. CASE n \in PublicNames
  <2>1. PublicTable(P) /\ k \in 1..Len(P)
    BY <1>1, PlanTable
  <2> HIDE DEF P
  <2>2. k \in {1, 2, 3, 4, 5, 6, 7, 8, 9, 10, 11, 12, 13, 14}
    BY <2>1 DEF PublicTable
  <2>3. P[k] = <<"primary", "replication">>
    BY DEF P
  <2>4. k = 14
    BY <2>1, <2>2, <2>3 DEF PublicTable
  <2>5. Len(P) = 14
    BY <2>1 DEF PublicTable
  <2> QED BY <2>4, <2>5 DEF P
<1>2. CASE n \notin PublicNames
  <2>1. StandardTable(P) /\ k \in 1..Len(P)
    BY <1>2, PlanTable
  <2> HIDE DEF P
  <2>2. k \in {1, 2, 3, 4, 5, 6, 7, 8, 9, 10, 11, 12}
    BY <2>1 DEF StandardTable
  <2>3. P[k] = <<"primary", "replication">>
    BY DEF P
  <2>4. k = 12
    BY <2>1, <2>2, <2>3 DEF StandardTable
  <2>5. Len(P) = 12
    BY <2>1 DEF StandardTable
  <2> QED BY <1>2, <2>4, <2>5 DEF P
<1> QED BY <1>1, <1>2

\* A rollback names the buckets that the plan has created by then.
LEMMA RollbackFacts ==
    ASSUME NEW n, NEW k \in 1..Len(Plan(n)),
           NEW rollback, rollback = RollbackOf(Plan(n)[k][1], Plan(n)[k][2])
    PROVE  /\ rollback = <<>> \/ rollback \in Rollbacks
           /\ \A side \in Sides, j \in 1..Len(rollback) :
                 rollback[j] = side => k > CreateAt(n, side)
<1>1. /\ CreateAt(n, "primary") = 1
      /\ n \in PublicNames => CreateAt(n, "replica") = 11
      /\ n \notin PublicNames => CreateAt(n, "replica") = 9
  BY PlanFacts DEF CreateAt
<1>2. \/ rollback = <<>>
      \/ rollback = <<"primary">> /\ k > 1
      \/ rollback \in Rollbacks /\ k > 1 /\ k > CreateAt(n, "replica")
  <2> DEFINE side == Plan(n)[k][1]
             call == Plan(n)[k][2]
  <2>1. /\ "primary" \in Sides /\ "replica" \in Sides
        /\ Sides = {"primary", "replica"}
    BY DEF Sides
  <2>2. /\ side \in Sides /\ Plan(n)[k] = <<side, call>>
        /\ Plan(n)[k] = <<"primary", "create">> <=> k = 1
        /\ Plan(n)[k] = <<"replica", "create">> <=> k = CreateAt(n, "replica")
        /\ side = "replica" => k >= CreateAt(n, "replica")
    BY <1>1, <2>1, PlanOrder DEF PlanCalls
  <2>3. Plan(n)[k] = <<"primary", "replication">> => k > CreateAt(n, "replica")
    BY <1>1, PlanReplicates
  <2> HIDE DEF side, call
  <2>4. rollback = RollbackOf(side, call)
    BY DEF side, call
  <2>5. k \in Nat /\ k >= 1 /\ CreateAt(n, "replica") \in {9, 11}
    BY <1>1
  <2>6. CASE side = "replica" /\ call = "create"
    BY <2>2, <2>4, <2>5, <2>6 DEF RollbackOf
  <2>7. CASE side = "replica" /\ call # "create"
    <3>1. rollback = <<"replica", "primary">>
      BY <2>4, <2>7 DEF RollbackOf
    <3>2. k # CreateAt(n, "replica") /\ k >= CreateAt(n, "replica")
      BY <2>2, <2>7
    <3> QED BY <2>5, <3>1, <3>2 DEF Rollbacks
  <2>8. CASE side = "primary" /\ call = "create"
    BY <2>4, <2>8 DEF RollbackOf
  <2>9. CASE side = "primary" /\ call = "replication"
    <3>1. rollback = <<"primary", "replica">>
      BY <2>4, <2>9 DEF RollbackOf
    <3> QED BY <2>2, <2>3, <2>5, <2>9, <3>1 DEF Rollbacks
  <2>10. CASE side = "primary" /\ call \notin {"create", "replication"}
    <3>1. rollback = <<"primary">>
      BY <2>4, <2>10 DEF RollbackOf
    <3>2. k # 1
      BY <2>2, <2>10
    <3> QED BY <2>5, <3>1, <3>2
  <2> QED BY <2>1, <2>2, <2>6, <2>7, <2>8, <2>9, <2>10
<1>3. CASE rollback = <<>>
  BY <1>3
<1>4. CASE rollback = <<"primary">> /\ k > 1
  BY <1>1, <1>4 DEF Rollbacks, Sides
<1>5. CASE rollback \in Rollbacks /\ k > 1 /\ k > CreateAt(n, "replica")
  BY <1>1, <1>5 DEF Sides
<1> QED BY <1>2, <1>3, <1>4, <1>5

\* The buckets of the stack, after a step that leaves alone what it must.
StoreKept(i) ==
    /\ \A b \in Buckets : b \in exists /\ ~Owns(i, b) =>
          /\ b \in exists' /\ applied'[b] = applied[b]
          /\ policy'[b] = policy[b]
    /\ exists' \subseteq Buckets
    /\ applied' \in [Buckets -> SUBSET Configurations]
    /\ policy' \in [Buckets -> Policies]
    /\ CleanInv'

\* A pair that could not be made is an issue, and nobody's any more.
LEMMA GiveUpStep ==
    ASSUME IInv, NEW i \in Invocations, pc[i] \in Busy,
           NextPair(i, issues[i] \cup {NameOf(i)}), StoreKept(i),
           UNCHANGED <<files, uploaded, feedback, failures>>,
           DOMAIN undo' = Invocations, undo'[i] = <<>>,
           \A j \in Invocations \ {i} : undo'[j] = undo[j]
    PROVE  StepOf(i)
<1> DEFINE found == issues[i] \cup {NameOf(i)}
<1>1. StoreTypes /\ LocalOf(i)
  BY DEF IInv, LocalInv
<1>2. NameOf(i) \in Names
  BY <1>1 DEF LocalOf, NameOf, Valid
<1>3. found \in SUBSET Names /\ issues[i] \subseteq found
  BY <1>1, <1>2 DEF LocalOf
<1> HIDE DEF found
<1>4. /\ Alone(i)
      /\ pc' \in [Invocations -> Running \cup {"idle", "ok", "dropped"}]
      /\ failures' \in [Invocations -> Nat] /\ DOMAIN pos' = Invocations
      /\ DOMAIN step' = Invocations /\ DOMAIN issues' = Invocations
      /\ LocalOf(i)'
      /\ \A b \in Buckets : ~Owns(i, b)'
      /\ \A m \in Names : Passed(i, m)' =>
            Passed(i, m) \/ (m = NameOf(i) /\ m \notin found)
  <2>1. NextPair(i, found)
    BY DEF found
  <2> QED BY <1>3, <2>1, NextPairStep
<1>5. \A m \in Names : Passed(i, m)' => Passed(i, m)
  BY <1>4 DEF found
<1>6. StoreTypes'
  BY <1>1, <1>4 DEF StoreTypes, StoreKept
<1>7. Contained(i)
  BY <1>4 DEF Contained, StoreKept
<1>8. ProgressOf(i)'
  BY <1>4, IdleProgress
<1> QED BY <1>4, <1>5, <1>6, <1>7, <1>8 DEF StepOf, Upkeep, StoreKept

\* A call that returns Err: what it has done may stand.
LEMMA FailStep ==
    ASSUME IInv, NEW i \in Invocations, FailCall(i)
    PROVE  StepOf(i)
<1> DEFINE n == NameOf(i)
           k == step[i]
           rollback == RollbackOf(Plan(n)[k][1], CallOf(i))
<1>1. /\ pc[i] = "create"
      /\ UNCHANGED <<files, uploaded, feedback, failures>>
      /\ \/ UNCHANGED s3Vars
         \/ /\ Accepted(CallOf(i), BucketOf(i))
            /\ Landed(CallOf(i), BucketOf(i))
      /\ \/ /\ rollback = <<>>
            /\ NextPair(i, issues[i] \cup {n})
            /\ UNCHANGED undo
         \/ /\ rollback # <<>>
            /\ undo' = [undo EXCEPT ![i] = rollback]
            /\ pc' = [pc EXCEPT ![i] = "undo"]
            /\ UNCHANGED <<pos, step, issues>>
  BY DEF FailCall
<1>2. StoreTypes /\ LocalOf(i) /\ CleanInv /\ OwnerInv
  BY DEF IInv, LocalInv
<1>3. StoreKept(i) /\ exists \subseteq exists'
  <2>1. CASE UNCHANGED s3Vars
    BY <1>2, <2>1 DEF s3Vars, StoreKept, StoreTypes, CleanInv
  <2>2. CASE /\ Accepted(CallOf(i), BucketOf(i))
             /\ Landed(CallOf(i), BucketOf(i))
    <3>1. /\ \A b \in Buckets : b # BucketOf(i) =>
                /\ b \in exists' <=> b \in exists
                /\ applied'[b] = applied[b] /\ policy'[b] = policy[b]
          /\ BucketOf(i) \notin exists \/ Owns(i, BucketOf(i))
          /\ exists \subseteq exists' /\ exists' \subseteq Buckets
          /\ applied' \in [Buckets -> SUBSET Configurations]
          /\ policy' \in [Buckets -> Policies]
          /\ CleanInv'
      BY <1>1, <2>2, LandedFacts
    <3> QED BY <3>1 DEF StoreKept
  <2> QED BY <1>1, <2>1, <2>2
<1>4. CASE /\ NextPair(i, issues[i] \cup {n})
           /\ UNCHANGED undo
  <2>1. /\ DOMAIN undo' = Invocations /\ undo'[i] = <<>>
        /\ \A j \in Invocations \ {i} : undo'[j] = undo[j]
    BY <1>1, <1>2, <1>4 DEF StoreTypes, LocalOf
  <2> QED BY <1>1, <1>3, <1>4, <2>1, GiveUpStep DEF Busy
<1>5. CASE /\ rollback # <<>>
           /\ undo' = [undo EXCEPT ![i] = rollback]
           /\ pc' = [pc EXCEPT ![i] = "undo"]
           /\ UNCHANGED <<pos, step, issues>>
  <2>1. /\ n \in Names /\ k \in 1..Len(Plan(n))
        /\ rollback = RollbackOf(Plan(n)[k][1], Plan(n)[k][2])
    BY <1>1, AtWork DEF CallOf
  <2>2. /\ rollback \in Rollbacks
        /\ \A side \in Sides, j \in 1..Len(rollback) :
              rollback[j] = side => k > CreateAt(n, side)
    BY <1>5, <2>1, RollbackFacts
  <2> HIDE DEF rollback
  <2>3. /\ undo'[i] = rollback /\ pc'[i] = "undo" /\ pos'[i] = pos[i]
        /\ step'[i] = k /\ issues'[i] = issues[i] /\ NameOf(i)' = n
    BY <1>2, <1>5 DEF StoreTypes, NameOf
  <2>4. Alone(i)
    BY <1>2, <1>5 DEF StoreTypes, Alone
  <2>5. StoreTypes'
    BY <1>1, <1>2, <1>3, <1>5 DEF StoreTypes, StoreKept, Running
  <2>6. LocalOf(i)'
    BY <1>1, <1>2, <2>2, <2>3 DEF LocalOf, Busy, NameOf
  <2>7. ASSUME NEW b \in Buckets, Owns(i, b)'
        PROVE  Owns(i, b)
    <3>1. /\ b[1] = n /\ b[2] \in Sides
          /\ \E j \in 1..Len(rollback) : rollback[j] = b[2]
      BY <2>3, <2>7 DEF Owns, Buckets
    <3>2. k > CreateAt(n, b[2])
      BY <2>2, <3>1
    <3> QED BY <1>1, <3>1, <3>2 DEF Owns, Busy
  <2>8. Contained(i)
    BY <1>2, <1>3, <2>7 DEF Contained, StoreKept, OwnerInv
  <2>9. ProgressOf(i)'
    BY <2>3 DEF ProgressOf
  <2>10. \A m \in Names : Passed(i, m)' => Passed(i, m)
    BY <1>1, <2>3 DEF Passed, Busy
  <2> QED BY <1>1, <1>3, <2>4, <2>5, <2>6, <2>8, <2>9, <2>10
          DEF StepOf, Upkeep, StoreKept
<1> QED BY <1>1, <1>4, <1>5

\* A rollback deletes a bucket of its own attempt, or none.
LEMMA RollbackStep ==
    ASSUME IInv, NEW i \in Invocations, Rollback(i)
    PROVE  StepOf(i)
<1> DEFINE B == <<NameOf(i), Head(undo[i])>>
<1>1. /\ pc[i] = "undo"
      /\ UNCHANGED <<files, uploaded, feedback, failures>>
      /\ UNCHANGED s3Vars \/ Deleted(B)
      /\ undo' = [undo EXCEPT ![i] = Tail(@)]
      /\ \/ /\ Len(undo[i]) > 1
            /\ UNCHANGED <<pc, pos, step, issues>>
         \/ /\ Len(undo[i]) = 1
            /\ NextPair(i, issues[i] \cup {NameOf(i)})
  BY DEF Rollback
<1>2. StoreTypes /\ LocalOf(i) /\ CleanInv /\ OwnerInv
  BY DEF IInv, LocalInv
<1>3. /\ undo[i] \in Rollbacks /\ NameOf(i) \in Names
  BY <1>1, <1>2 DEF LocalOf, Busy, NameOf, Valid
<1>4. /\ Head(undo[i]) \in Sides
      /\ Head(undo[i]) = undo[i][1] /\ 1 \in 1..Len(undo[i])
      /\ Len(undo[i]) = 1 => Tail(undo[i]) = <<>>
      /\ Len(undo[i]) > 1 =>
            /\ Tail(undo[i]) \in Rollbacks
            /\ \A j \in 1..Len(Tail(undo[i])) :
                  /\ Tail(undo[i])[j] # Head(undo[i])
                  /\ \E l \in 1..Len(undo[i]) : undo[i][l] = Tail(undo[i])[j]
  <2>1. \/ undo[i] = <<"primary">> \/ undo[i] = <<"replica">>
        \/ undo[i] = <<"replica", "primary">>
        \/ undo[i] = <<"primary", "replica">>
    BY <1>3 DEF Rollbacks
  <2>2. CASE undo[i] = <<"primary">> \/ undo[i] = <<"replica">>
    <3>1. /\ Len(undo[i]) = 1 /\ Tail(undo[i]) = <<>>
          /\ Head(undo[i]) \in Sides /\ Head(undo[i]) = undo[i][1]
      <4>1. CASE undo[i] = <<"primary">>
        BY <4>1 DEF Sides
      <4>2. CASE undo[i] = <<"replica">>
        BY <4>2 DEF Sides
      <4> QED BY <2>2, <4>1, <4>2
    <3> QED BY <3>1
  <2>3. CASE undo[i] = <<"replica", "primary">>
    <3>1. /\ Len(undo[i]) = 2 /\ Tail(undo[i]) = <<"primary">>
          /\ Head(undo[i]) = "replica" /\ undo[i][1] = "replica"
          /\ undo[i][2] = "primary"
      BY <2>3
    <3> QED BY <3>1 DEF Rollbacks, Sides
  <2>4. CASE undo[i] = <<"primary", "replica">>
    <3>1. /\ Len(undo[i]) = 2 /\ Tail(undo[i]) = <<"replica">>
          /\ Head(undo[i]) = "primary" /\ undo[i][1] = "primary"
          /\ undo[i][2] = "replica"
      BY <2>4
    <3> QED BY <3>1 DEF Rollbacks, Sides
  <2> QED BY <2>1, <2>2, <2>3, <2>4
<1>5. B \in Buckets /\ B[1] = NameOf(i) /\ B[2] = Head(undo[i])
  BY <1>3, <1>4 DEF Buckets
<1>6. Owns(i, B)
  BY <1>1, <1>4, <1>5 DEF Owns, Busy
<1>7. /\ StoreKept(i)
      /\ \A b \in Buckets : b # B /\ b \in exists => b \in exists'
  <2>1. CASE UNCHANGED s3Vars
    BY <1>2, <2>1 DEF s3Vars, StoreKept, StoreTypes, CleanInv
  <2>2. CASE Deleted(B)
    <3> HIDE DEF B
    <3>1. /\ exists' = exists \ {B}
          /\ \A b \in Buckets : b # B =>
                applied'[b] = applied[b] /\ policy'[b] = policy[b]
          /\ applied'[B] = {} /\ policy'[B] = "none"
      BY <1>2, <1>5, <2>2 DEF Deleted, StoreTypes
    <3>2. /\ applied' \in [Buckets -> SUBSET Configurations]
          /\ policy' \in [Buckets -> Policies]
      BY <1>2, <2>2 DEF Deleted, StoreTypes, Policies
    <3>3. CleanInv'
      BY <1>2, <3>1 DEF CleanInv
    <3> QED BY <1>2, <1>6, <3>1, <3>2, <3>3 DEF StoreKept, StoreTypes
  <2> QED BY <1>1, <2>1, <2>2
<1>8. /\ DOMAIN undo' = Invocations /\ undo'[i] = Tail(undo[i])
      /\ \A j \in Invocations \ {i} : undo'[j] = undo[j]
  BY <1>1, <1>2 DEF StoreTypes
<1>9. CASE /\ Len(undo[i]) = 1
           /\ NextPair(i, issues[i] \cup {NameOf(i)})
  BY <1>1, <1>4, <1>7, <1>8, <1>9, GiveUpStep DEF Busy
<1>10. CASE /\ Len(undo[i]) > 1
            /\ UNCHANGED <<pc, pos, step, issues>>
  <2>1. /\ pc'[i] = "undo" /\ pos'[i] = pos[i] /\ step'[i] = step[i]
        /\ issues'[i] = issues[i] /\ NameOf(i)' = NameOf(i)
    BY <1>1, <1>10 DEF NameOf
  <2>2. Alone(i)
    BY <1>8, <1>10 DEF Alone
  <2>3. StoreTypes'
    BY <1>1, <1>2, <1>7, <1>8, <1>10 DEF StoreTypes, StoreKept
  <2>4. LocalOf(i)'
    BY <1>1, <1>2, <1>4, <1>8, <1>10, <2>1 DEF LocalOf, Busy, NameOf
  <2>5. ASSUME NEW b \in Buckets, Owns(i, b)'
        PROVE  Owns(i, b) /\ b # B
    <3>1. /\ b[1] = NameOf(i)
          /\ \E j \in 1..Len(Tail(undo[i])) : Tail(undo[i])[j] = b[2]
      BY <1>8, <2>1, <2>5 DEF Owns
    <3>2. /\ b[2] # Head(undo[i])
          /\ \E l \in 1..Len(undo[i]) : undo[i][l] = b[2]
      BY <1>4, <1>10, <3>1
    <3> QED BY <1>1, <1>5, <3>1, <3>2 DEF Owns, Busy
  <2>6. Contained(i)
    BY <1>2, <1>7, <2>5 DEF Contained, StoreKept, OwnerInv
  <2>7. ProgressOf(i)'
    BY <2>1 DEF ProgressOf
  <2>8. \A m \in Names : Passed(i, m)' => Passed(i, m)
    BY <1>1, <2>1 DEF Passed, Busy
  <2> QED BY <1>1, <1>7, <2>2, <2>3, <2>4, <2>6, <2>7, <2>8
          DEF StepOf, Upkeep, StoreKept
<1> QED BY <1>1, <1>9, <1>10

-----------------------------------------------------------------------------
(* The invariant holds *)

\* The pairs that are there at first are whole, and nobody is at work.
LEMMA InitInv == Init => IInv
<1> SUFFICES ASSUME Init
             PROVE  IInv
  OBVIOUS
<1>1. \A i \in Invocations :
         pc[i] = "idle" /\ pos[i] = 1 /\ step[i] = 1
         /\ undo[i] = <<>> /\ issues[i] = {}
  BY DEF Init
<1>2. \A n, side : Expected(n, side) \subseteq Configurations
  BY DEF Expected, EveryBucket, Configurations
<1>3. StoreTypes
  <2>1. exists \subseteq Buckets
    BY RequestAssumption DEF Init, Buckets
  <2>2. applied \in [Buckets -> SUBSET Configurations]
    BY <1>2 DEF Init
  <2>3. policy \in [Buckets -> Policies]
    BY DEF Init, Policies
  <2>4. /\ feedback \in [Requests -> SUBSET (Names \cup {"file", "line"})]
        /\ pc \in [Invocations -> Running \cup {"idle", "ok", "dropped"}]
        /\ files \subseteq uploaded /\ uploaded \subseteq Requests
    BY DEF Init
  <2>5. /\ failures \in [Invocations -> Nat] /\ DOMAIN pos = Invocations
        /\ DOMAIN step = Invocations /\ DOMAIN undo = Invocations
        /\ DOMAIN issues = Invocations
    BY DEF Init
  <2> QED BY <2>1, <2>2, <2>3, <2>4, <2>5 DEF StoreTypes
<1>4. LocalInv
  BY <1>1 DEF LocalInv, LocalOf, Busy
<1>5. \A i \in Invocations : \A b : ~Owns(i, b)
  BY <1>1 DEF Owns, Busy
<1>6. CleanInv
  <2> SUFFICES ASSUME NEW b \in Buckets, b \notin exists
               PROVE  applied[b] = {} /\ policy[b] = "none"
    BY DEF CleanInv
  <2>1. b = <<b[1], b[2]>> /\ b[2] \in Sides
    BY DEF Buckets
  <2>2. b[1] \notin Existing
    BY <2>1 DEF Init
  <2> QED BY <2>2 DEF Init
<1>7. OwnerInv /\ ProgressInv
  BY <1>1, <1>5 DEF OwnerInv, ProgressInv, ProgressOf
<1>8. ASSUME NEW n \in Existing
      PROVE  SettledPair(n)
  <2>1. ASSUME NEW side \in Sides
        PROVE  Complete(n, side)
    <3> DEFINE b == <<n, side>>
    <3>1. n \in Names /\ b \in Buckets /\ b[1] = n /\ b[2] = side
      BY RequestAssumption DEF Buckets
    <3>2. b \in exists /\ applied[b] = Expected(n, side)
      BY <3>1 DEF Init
    <3>3. policy[b] = IF side = "primary" /\ n \in PublicNames
                      THEN "public" ELSE "none"
      BY <3>1 DEF Init
    <3> QED BY <3>2, <3>3 DEF Complete
  <2> QED BY <1>5, <2>1 DEF SettledPair, Whole
<1>9. PairsInv
  <2>1. \A r \in Requests : feedback[r] = {}
    BY DEF Init
  <2>2. \A i \in Invocations : \A n : ~Passed(i, n)
    BY <1>1 DEF Passed, Busy
  <2> QED BY <1>8, <2>1, <2>2 DEF PairsInv
<1>10. ValidInv
  BY DEF Init, ValidInv
<1> QED BY <1>3, <1>4, <1>6, <1>7, <1>9, <1>10 DEF IInv

\* A step of a user changes neither the buckets nor what any attempt holds.
LEMMA UserStep ==
    ASSUME IInv, UNCHANGED <<s3Vars, feedback, callVars>>, StoreTypes'
    PROVE  IInv'
<1>1. /\ exists' = exists /\ applied' = applied /\ policy' = policy
      /\ feedback' = feedback /\ pc' = pc /\ pos' = pos /\ step' = step
      /\ undo' = undo /\ issues' = issues
  BY DEF s3Vars, callVars
<1>2. \A i : NameOf(i)' = NameOf(i)
  BY <1>1 DEF NameOf
<1>3. \A i, b : Owns(i, b)' <=> Owns(i, b)
  BY <1>1, <1>2 DEF Owns
<1>4. LocalInv'
  <2>1. \A i : LocalOf(i)' <=> LocalOf(i)
    BY <1>1, <1>2 DEF LocalOf
  <2> QED BY <2>1 DEF IInv, LocalInv
<1>5. CleanInv' /\ OwnerInv'
  BY <1>1, <1>3 DEF IInv, CleanInv, OwnerInv
<1>6. ProgressInv'
  <2> SUFFICES ASSUME NEW i \in Invocations
               PROVE  ProgressOf(i)'
    BY DEF ProgressInv
  <2>1. ProgressOf(i)
    BY DEF IInv, ProgressInv
  <2>2. pc'[i] = pc[i] /\ step'[i] = step[i] /\ pos'[i] = pos[i]
        /\ undo'[i] = undo[i]
    BY <1>1
  <2> QED BY <1>1, <2>1, <2>2
          DEF ProgressOf, Owns, NameOf, AppliedBy, PolicyBy
<1>7. \A n \in Names : SettledPair(n)' <=> SettledPair(n)
  <2>1. \A n, side : Complete(n, side)' <=> Complete(n, side)
    BY <1>1 DEF Complete
  <2> QED BY <1>3, <2>1 DEF SettledPair, Whole
<1>8. PairsInv'
  <2>1. \A i, n : Passed(i, n)' <=> Passed(i, n)
    BY <1>1 DEF Passed
  <2> QED BY <1>1, <1>7, <2>1 DEF IInv, PairsInv
<1>9. ValidInv'
  BY <1>1 DEF IInv, ValidInv
<1> QED BY <1>4, <1>5, <1>6, <1>8, <1>9 DEF IInv

\* Every step keeps the invariant.
LEMMA NextInv == IInv /\ [Next]_vars => IInv'
<1> SUFFICES ASSUME IInv, [Next]_vars
             PROVE  IInv'
  OBVIOUS
<1>0. StoreTypes
  BY DEF IInv
<1>1. ASSUME NEW r \in Requests, UploadRequest(r)
      PROVE  IInv'
  <2>1. UNCHANGED <<s3Vars, feedback, callVars>> /\ StoreTypes'
    BY <1>0, <1>1 DEF UploadRequest, StoreTypes, s3Vars, callVars
  <2> QED BY <2>1, UserStep
<1>2. ASSUME NEW n \in Names, UserUploads(n)
      PROVE  IInv'
  <2>1. UNCHANGED <<s3Vars, feedback, callVars>> /\ StoreTypes'
    BY <1>0, <1>2 DEF UserUploads, StoreTypes, s3Vars, callVars
  <2> QED BY <2>1, UserStep
<1>3. CASE UNCHANGED vars
  <2>1. UNCHANGED <<s3Vars, feedback, callVars>> /\ StoreTypes'
    BY <1>0, <1>3 DEF vars, StoreTypes, s3Vars, callVars
  <2> QED BY <2>1, UserStep
<1>4. ASSUME NEW i \in Invocations, Deliver(i) \/ Perform(i) \/ Crash(i)
      PROVE  IInv'
  <2>1. StepOf(i)
    BY <1>4, DeliverStep, ReadStep, MakeStep, FailStep, RollbackStep,
       FeedbackStep, TailSteps, CrashStep DEF Perform
  <2> QED BY <2>1, StepKeepsInv
<1> QED BY <1>1, <1>2, <1>3, <1>4 DEF Next

\* The invariant holds of every behaviour.
LEMMA InvHolds == Spec => []IInv
<1> QED BY InitInv, NextInv, PTL DEF Spec

\* No attempt at a name, however it fails or crashes, rolls back or half
\* configures a pair that was there, or that a successful request made.
THEOREM AcknowledgedPairsHold == Spec => []AcknowledgedPairsAreWhole
<1>1. IInv => AcknowledgedPairsAreWhole
  <2> SUFFICES ASSUME IInv, NEW n \in Names,
                      \/ n \in Existing
                      \/ \E i \in Invocations :
                            pc[i] = "ok" /\ n \in Requested(i[1])
               PROVE  Whole(n)
    BY DEF AcknowledgedPairsAreWhole
  <2>1. ASSUME NEW i \in Invocations, pc[i] = "ok", n \in Requested(i[1])
        PROVE  SettledPair(n)
    <3>1. issues[i] = {}
      BY <2>1 DEF IInv, LocalInv, LocalOf
    <3>2. Passed(i, n)
      BY <2>1, <3>1 DEF Passed
    <3> QED BY <3>2 DEF IInv, PairsInv
  <2>2. SettledPair(n)
    BY <2>1 DEF IInv, PairsInv
  <2> QED BY <2>2 DEF SettledPair
<1> QED BY <1>1, InvHolds, PTL

\* Every feedback file about pairs names each pair of its request that is
\* missing or incomplete, whichever of the attempts wrote it last.
THEOREM FeedbackIsComplete == Spec => []FeedbackNamesEveryGap
<1>1. IInv => FeedbackNamesEveryGap
  <2> SUFFICES ASSUME IInv, NEW r \in Requests,
                      feedback[r] # {}, feedback[r] \subseteq Names,
                      NEW n \in Requested(r) \ feedback[r]
               PROVE  Whole(n)
    BY DEF FeedbackNamesEveryGap
  <2>1. PICK k \in 1..Len(Reviewed(r)) : Reviewed(r)[k] = n
    BY DEF Requested
  <2>2. n \in Names
    BY <2>1 DEF IInv, ValidInv, Valid
  <2> QED BY <2>2 DEF IInv, PairsInv, SettledPair
<1> QED BY <1>1, InvHolds, PTL

-----------------------------------------------------------------------------
(* Failing calls, attempts and answers *)

\* An attempt fails because a call did, or leaves a feedback file.
AnswerOf(i) ==
    /\ pc[i] # "idle" => i[1] \in uploaded
    /\ pc[i] = "idle" => failures[i] = 0
    /\ pc[i] \in {"trigger", "ok"} => i[1] \notin files
    /\ failures[i] \in Nat
    /\ pc[i] = "dropped" => failures[i] = Attempts(i)
    /\ pc[i] # "dropped" => failures[i] < Attempts(i)
    /\ failures[i] <= Faults \/ feedback[i[1]] # {}

OtherTypes ==
    /\ triggers \subseteq uploaded
    /\ content \in [Buckets -> {"empty", "mirrored", "unmirrored"}]
    /\ faults \in [FaultKinds -> 0..MaxFaults]

AnswerInv == OtherTypes /\ \A i \in Invocations : AnswerOf(i)

\* What a step of i may do to the answers: it counts the calls that fail, and
\* takes no feedback back.
AnswerStep(i) ==
    /\ Alone(i) /\ \A j \in Invocations \ {i} : failures'[j] = failures[j]
    /\ uploaded' = uploaded /\ files' \subseteq files
    /\ content' = content /\ triggers' \subseteq triggers \cup {i[1]}
    /\ faults' \in [FaultKinds -> 0..MaxFaults]
    /\ Faults' >= Faults
    /\ \A r \in Requests : feedback[r] # {} => feedback'[r] # {}
    /\ i[1] \in uploaded
    /\ \/ /\ failures'[i] = failures[i] /\ pc[i] # "dropped"
          /\ pc'[i] \notin {"idle", "dropped"}
          /\ pc'[i] \in {"trigger", "ok"} => i[1] \notin files'
       \/ /\ pc[i] # "dropped" /\ failures'[i] = failures[i] + 1
          /\ pc'[i] = IF failures[i] + 1 < Attempts(i) THEN "read" ELSE "dropped"
          /\ Faults' >= Faults + 1 \/ feedback'[i[1]] # {}

\* Failing calls and crashes are counted one by one, up to the bound.
LEMMA FaultCounts ==
    ASSUME faults \in [FaultKinds -> 0..MaxFaults]
    PROVE  /\ Faults \in Nat
           /\ UNCHANGED faults =>
                 /\ Faults' = Faults
                 /\ faults' \in [FaultKinds -> 0..MaxFaults]
           /\ \A kind \in FaultKinds : Fault(kind) =>
                 /\ Faults' = Faults + 1
                 /\ faults' \in [FaultKinds -> 0..MaxFaults]
<1>1. /\ faults["refused"] \in 0..MaxFaults /\ faults["lost"] \in 0..MaxFaults
      /\ faults["crash"] \in 0..MaxFaults /\ MaxFaults \in Nat
  BY RequestAssumption DEF FaultKinds
<1>2. Faults \in Nat
  BY <1>1 DEF Faults
<1>3. UNCHANGED faults =>
         /\ Faults' = Faults
         /\ faults' \in [FaultKinds -> 0..MaxFaults]
  BY DEF Faults
<1>4. ASSUME NEW kind \in FaultKinds, Fault(kind)
      PROVE  /\ Faults' = Faults + 1
             /\ faults' \in [FaultKinds -> 0..MaxFaults]
  <2>1. /\ Faults < MaxFaults
        /\ faults' = [faults EXCEPT ![kind] = faults[kind] + 1]
    BY <1>4 DEF Fault
  <2>2. faults[kind] <= Faults /\ faults[kind] \in Nat
    BY <1>1 DEF FaultKinds, Faults
  <2>3. faults[kind] + 1 \in 0..MaxFaults
    BY <1>1, <1>2, <2>1, <2>2
  <2>4. faults' \in [FaultKinds -> 0..MaxFaults]
    BY <2>1, <2>3
  <2>5. /\ faults'[kind] = faults[kind] + 1
        /\ \A other \in FaultKinds \ {kind} : faults'[other] = faults[other]
    BY <2>1
  <2>6. Faults' = Faults + 1
    BY <1>1, <2>5 DEF FaultKinds, Faults
  <2> QED BY <2>4, <2>6
<1> QED BY <1>2, <1>3, <1>4

\* The attempts of an invocation are at least one.
LEMMA AttemptsFacts ==
    ASSUME NEW i \in Invocations
    PROVE  /\ Attempts(i) \in 1..MaxAttempts /\ Attempts(i) \in Nat
           /\ i[1] \in Requests
<1>1. MaxAttempts \in Nat /\ MaxAttempts >= 1
  BY RequestAssumption
<1>2. Attempts(i) = 1 \/ Attempts(i) = MaxAttempts
  BY DEF Attempts
<1> QED BY <1>1, <1>2, RequestAssumption DEF Invocations

\* So the answers stay right.
LEMMA AnswersStay ==
    ASSUME AnswerInv, NEW i \in Invocations, AnswerStep(i)
    PROVE  AnswerInv'
<1>1. OtherTypes'
  BY DEF AnswerInv, AnswerStep, OtherTypes
<1>2. Faults \in Nat /\ Faults' \in Nat /\ Faults' >= Faults
  <2>1. Faults \in Nat
    BY FaultCounts DEF AnswerInv, OtherTypes
  <2>2. Faults' \in Nat
    BY RequestAssumption DEF AnswerStep, Faults, FaultKinds
  <2> QED BY <2>1, <2>2 DEF AnswerStep
<1>3. ASSUME NEW j \in Invocations, i # j
      PROVE  AnswerOf(j)'
  <2>1. /\ pc'[j] = pc[j] /\ failures'[j] = failures[j]
        /\ uploaded' = uploaded /\ files' \subseteq files
        /\ feedback[j[1]] # {} => feedback'[j[1]] # {}
    BY <1>3, AttemptsFacts DEF AnswerStep, Alone
  <2>2. AnswerOf(j)
    BY DEF AnswerInv
  <2> QED BY <1>2, <2>1, <2>2 DEF AnswerOf, Attempts
<1>4. AnswerOf(i)'
  <2>1. AnswerOf(i) /\ i[1] \in Requests /\ Attempts(i) \in Nat
    BY AttemptsFacts DEF AnswerInv
  <2>2. /\ uploaded' = uploaded /\ files' \subseteq files /\ i[1] \in uploaded
        /\ feedback[i[1]] # {} => feedback'[i[1]] # {}
    BY <2>1 DEF AnswerStep
  <2>3. CASE /\ failures'[i] = failures[i] /\ pc[i] # "dropped"
             /\ pc'[i] \notin {"idle", "dropped"}
             /\ pc'[i] \in {"trigger", "ok"} => i[1] \notin files'
    BY <1>2, <2>1, <2>2, <2>3 DEF AnswerOf, Attempts
  <2>4. CASE /\ pc[i] # "dropped" /\ failures'[i] = failures[i] + 1
             /\ pc'[i] = IF failures[i] + 1 < Attempts(i)
                         THEN "read" ELSE "dropped"
             /\ Faults' >= Faults + 1 \/ feedback'[i[1]] # {}
    <3>1. failures[i] \in Nat /\ failures[i] < Attempts(i)
          /\ (failures[i] <= Faults \/ feedback[i[1]] # {})
      BY <2>1, <2>4 DEF AnswerOf
    <3>2. failures'[i] \in Nat /\ failures'[i] <= Attempts(i)
      BY <2>1, <2>4, <3>1
    <3>3. failures'[i] <= Faults' \/ feedback'[i[1]] # {}
      BY <1>2, <2>2, <2>4, <3>1
    <3>4. \/ pc'[i] = "read" /\ failures'[i] < Attempts(i)
          \/ pc'[i] = "dropped" /\ failures'[i] = Attempts(i)
      BY <2>1, <2>4, <3>1
    <3> QED BY <2>2, <3>2, <3>3, <3>4 DEF AnswerOf, Attempts
  <2> QED BY <2>3, <2>4 DEF AnswerStep
<1> QED BY <1>1, <1>3, <1>4 DEF AnswerInv

\* A failing call makes the attempt fail, and is counted.
LEMMA ErrAnswers ==
    ASSUME IInv, AnswerInv, NEW i \in Invocations, pc[i] \in Running,
           ReturnErr(i), UNCHANGED <<uploaded, content>>, files' \subseteq files,
           triggers' \subseteq triggers \cup {i[1]},
           faults' \in [FaultKinds -> 0..MaxFaults],
           \/ UNCHANGED feedback /\ Faults' = Faults + 1
           \/ /\ feedback' = [feedback EXCEPT ![i[1]] = issues[i]]
              /\ issues[i] # {} /\ Faults' >= Faults
    PROVE  AnswerStep(i)
<1>1. /\ StoreTypes /\ AnswerOf(i) /\ i[1] \in Requests
      /\ faults \in [FaultKinds -> 0..MaxFaults]
  BY AttemptsFacts DEF IInv, AnswerInv, OtherTypes
<1>2. pc[i] \notin {"idle", "ok", "dropped"} /\ i[1] \in uploaded
  BY <1>1 DEF Running, AnswerOf
<1>3. Faults \in Nat
  BY <1>1, FaultCounts
<1>4. /\ failures'[i] = failures[i] + 1
      /\ pc'[i] = IF failures[i] + 1 < Attempts(i) THEN "read" ELSE "dropped"
      /\ \A j \in Invocations \ {i} : failures'[j] = failures[j]
  BY <1>1 DEF ReturnErr, StoreTypes
<1>5. Alone(i)
  BY ErrStep
<1>6. /\ Faults' >= Faults
      /\ Faults' >= Faults + 1 \/ feedback'[i[1]] # {}
      /\ \A r \in Requests : feedback[r] # {} => feedback'[r] # {}
  BY <1>1, <1>3 DEF StoreTypes
<1> QED BY <1>2, <1>4, <1>5, <1>6 DEF AnswerStep

\* A step that does not end the attempt leaves its count alone.
LEMMA OkAnswers ==
    ASSUME IInv, AnswerInv, NEW i \in Invocations, Alone(i),
           UNCHANGED <<failures, uploaded, content, feedback>>,
           files' \subseteq files, triggers' \subseteq triggers \cup {i[1]},
           faults' \in [FaultKinds -> 0..MaxFaults], Faults' >= Faults,
           pc[i] # "dropped", i[1] \in uploaded,
           pc'[i] \notin {"idle", "dropped"},
           pc'[i] \in {"trigger", "ok"} => i[1] \notin files'
    PROVE  AnswerStep(i)
<1> QED BY DEF AnswerStep

\* Each step of an attempt keeps the answers right.
LEMMA PerformAnswers ==
    ASSUME IInv, AnswerInv, NEW i \in Invocations,
           Deliver(i) \/ Perform(i) \/ Crash(i)
    PROVE  AnswerStep(i)
<1>0. StepOf(i)
  BY DeliverStep, ReadStep, MakeStep, FailStep, RollbackStep, FeedbackStep,
     TailSteps, CrashStep DEF Perform
<1>1. Alone(i) /\ LocalOf(i)' /\ LocalOf(i) /\ StoreTypes /\ AnswerOf(i)
  BY <1>0 DEF StepOf, Upkeep, IInv, LocalInv, AnswerInv
<1>2. /\ faults \in [FaultKinds -> 0..MaxFaults] /\ Faults \in Nat
      /\ UNCHANGED faults =>
            Faults' = Faults /\ faults' \in [FaultKinds -> 0..MaxFaults]
      /\ \A kind \in FaultKinds : Fault(kind) =>
            Faults' = Faults + 1 /\ faults' \in [FaultKinds -> 0..MaxFaults]
  BY FaultCounts DEF AnswerInv, OtherTypes
<1>3. {"refused", "lost", "crash"} \subseteq FaultKinds
  BY DEF FaultKinds
<1>4. CASE Deliver(i)
  <2>1. /\ pc[i] = "idle" /\ i[1] \in uploaded /\ pc'[i] = "read"
        /\ UNCHANGED <<failures, uploaded, content, feedback, files, triggers,
                       faults>>
    BY <1>1, <1>4 DEF Deliver, StoreTypes
  <2> QED BY <1>1, <1>2, <2>1, OkAnswers
<1>5. CASE ReadRequest(i)
  <2>1. /\ pc[i] = "read"
        /\ UNCHANGED <<uploaded, content, feedback, files, triggers>>
        /\ UNCHANGED faults \/ Fault("refused")
    BY <1>5 DEF ReadRequest
  <2>2. UNCHANGED failures /\ pc'[i] \in {"feedback", "delete", "create"}
    BY <1>1, <1>5 DEF ReadRequest, RefuseRequest, StoreTypes
  <2>3. i[1] \in uploaded
    BY <1>1, <2>1 DEF AnswerOf
  <2>4. Faults' >= Faults /\ faults' \in [FaultKinds -> 0..MaxFaults]
    BY <1>2, <1>3, <2>1
  <2> QED BY <1>1, <2>1, <2>2, <2>3, <2>4, OkAnswers
<1>6. CASE MakeCall(i) \/ FailCall(i) \/ Rollback(i)
  <2>1. /\ pc[i] \in {"create", "undo"}
        /\ UNCHANGED <<failures, uploaded, content, feedback, files, triggers>>
        /\ UNCHANGED faults \/ Fault("refused") \/ Fault("lost")
    BY <1>6 DEF MakeCall, FailCall, Rollback
  <2>2. pc'[i] \in {"create", "undo", "feedback", "delete"}
    <3>1. \A found : NextPair(i, found) =>
             pc'[i] \in {"create", "feedback", "delete"}
      BY <1>1 DEF NextPair, StoreTypes
    <3>2. CASE MakeCall(i)
      BY <2>1, <3>1, <3>2 DEF MakeCall
    <3>3. CASE FailCall(i)
      BY <1>1, <2>1, <3>1, <3>3 DEF FailCall, StoreTypes
    <3>4. CASE Rollback(i)
      BY <2>1, <3>1, <3>4 DEF Rollback
    <3> QED BY <1>6, <3>2, <3>3, <3>4
  <2>3. i[1] \in uploaded
    BY <1>1, <2>1 DEF AnswerOf
  <2>4. Faults' >= Faults /\ faults' \in [FaultKinds -> 0..MaxFaults]
    BY <1>2, <1>3, <2>1
  <2> QED BY <1>1, <2>1, <2>2, <2>3, <2>4, OkAnswers
<1>7. CASE PutFeedback(i)
  <2>1. /\ pc[i] = "feedback" /\ ReturnErr(i)
        /\ UNCHANGED <<files, uploaded, content, triggers>>
        /\ \/ /\ feedback' = [feedback EXCEPT ![i[1]] = issues[i]]
              /\ UNCHANGED faults \/ Fault("lost")
           \/ Fault("refused") /\ UNCHANGED feedback
    BY <1>7 DEF PutFeedback
  <2>2. issues[i] # {} /\ pc[i] \in Running
    BY <1>1, <2>1 DEF LocalOf, Running
  <2>3. /\ faults' \in [FaultKinds -> 0..MaxFaults]
        /\ \/ UNCHANGED feedback /\ Faults' = Faults + 1
           \/ /\ feedback' = [feedback EXCEPT ![i[1]] = issues[i]]
              /\ Faults' >= Faults
    BY <1>2, <1>3, <2>1
  <2> QED BY <2>1, <2>2, <2>3, ErrAnswers
<1>8. CASE DeleteRequest(i)
  <2>1. /\ pc[i] = "delete" /\ pc[i] \in Running /\ files' \subseteq files
        /\ UNCHANGED <<uploaded, content, feedback, triggers>>
    BY <1>8 DEF DeleteRequest, Running
  <2>2. CASE ReturnErr(i) /\ (Fault("refused") \/ Fault("lost"))
    <3>1. Faults' = Faults + 1 /\ faults' \in [FaultKinds -> 0..MaxFaults]
      BY <1>2, <1>3, <2>2
    <3> QED BY <2>1, <2>2, <3>1, ErrAnswers
  <2>3. CASE /\ files' = files \ {i[1]}
             /\ pc' = [pc EXCEPT ![i] = "trigger"]
             /\ UNCHANGED <<failures, faults>>
    <3>1. pc'[i] = "trigger" /\ i[1] \in uploaded
      BY <1>1, <2>1, <2>3 DEF StoreTypes, AnswerOf
    <3> QED BY <1>1, <1>2, <2>1, <2>3, <3>1, OkAnswers
  <2> QED BY <1>8, <2>2, <2>3 DEF DeleteRequest
<1>9. CASE TriggerSync(i)
  <2>1. /\ pc[i] = "trigger" /\ pc[i] \in Running
        /\ triggers' \subseteq triggers \cup {i[1]}
        /\ UNCHANGED <<files, uploaded, content, feedback>>
    BY <1>9 DEF TriggerSync, Running
  <2>2. CASE ReturnErr(i) /\ (Fault("refused") \/ Fault("lost"))
    <3>1. Faults' = Faults + 1 /\ faults' \in [FaultKinds -> 0..MaxFaults]
      BY <1>2, <1>3, <2>2
    <3> QED BY <2>1, <2>2, <3>1, ErrAnswers
  <2>3. CASE /\ pc' = [pc EXCEPT ![i] = "ok"]
             /\ UNCHANGED <<failures, faults>>
    <3>1. pc'[i] = "ok" /\ i[1] \in uploaded /\ i[1] \notin files
      BY <1>1, <2>1, <2>3 DEF StoreTypes, AnswerOf
    <3> QED BY <1>1, <1>2, <2>1, <2>3, <3>1, OkAnswers
  <2> QED BY <1>9, <2>2, <2>3 DEF TriggerSync
<1>10. CASE Crash(i)
  <2>1. /\ pc[i] \in Running /\ Fault("crash") /\ ReturnErr(i)
        /\ UNCHANGED <<files, uploaded, content, feedback, triggers>>
    BY <1>10 DEF Crash
  <2>2. Faults' = Faults + 1 /\ faults' \in [FaultKinds -> 0..MaxFaults]
    BY <1>2, <1>3, <2>1
  <2> QED BY <2>1, <2>2, ErrAnswers
<1> QED BY <1>4, <1>5, <1>6, <1>7, <1>8, <1>9, <1>10 DEF Perform

\* Uploads of users change no answer.
LEMMA UserAnswers ==
    ASSUME AnswerInv, UNCHANGED <<feedback, triggers, callVars, faults>>,
           content' \in [Buckets -> {"empty", "mirrored", "unmirrored"}],
           \/ UNCHANGED <<uploaded, files>>
           \/ \E r \in Requests : /\ r \notin uploaded
                                  /\ uploaded' = uploaded \cup {r}
                                  /\ files' = files \cup {r}
    PROVE  AnswerInv'
<1>1. /\ pc' = pc /\ failures' = failures /\ feedback' = feedback
      /\ triggers' = triggers /\ faults' = faults /\ Faults' = Faults
  BY DEF callVars, Faults
<1>2. OtherTypes'
  BY <1>1 DEF AnswerInv, OtherTypes
<1>3. ASSUME NEW i \in Invocations
      PROVE  AnswerOf(i)'
  <2>1. AnswerOf(i)
    BY DEF AnswerInv
  <2>2. i[1] \in uploaded => /\ i[1] \in uploaded'
                             /\ i[1] \notin files => i[1] \notin files'
    OBVIOUS
  <2>3. pc[i] \in {"trigger", "ok"} => pc[i] # "idle"
    OBVIOUS
  <2> QED BY <1>1, <2>1, <2>2, <2>3 DEF AnswerOf, Attempts
<1> QED BY <1>2, <1>3 DEF AnswerInv

\* The answers are right in every behaviour.
LEMMA AnswersHold == Spec => []AnswerInv
<1>1. Init => AnswerInv
  <2> SUFFICES ASSUME Init
               PROVE  AnswerInv
    OBVIOUS
  <2>1. OtherTypes
    BY RequestAssumption DEF Init, OtherTypes
  <2>2. Faults \in Nat
    BY <2>1, FaultCounts DEF OtherTypes
  <2>3. ASSUME NEW i \in Invocations
        PROVE  AnswerOf(i)
    <3>1. pc[i] = "idle" /\ failures[i] = 0 /\ Attempts(i) \in 1..MaxAttempts
      BY AttemptsFacts DEF Init
    <3> QED BY <2>2, <3>1, RequestAssumption DEF AnswerOf
  <2> QED BY <2>1, <2>3 DEF AnswerInv
<1>2. IInv /\ AnswerInv /\ [Next]_vars => AnswerInv'
  <2> SUFFICES ASSUME IInv, AnswerInv, [Next]_vars
               PROVE  AnswerInv'
    OBVIOUS
  <2>1. content \in [Buckets -> {"empty", "mirrored", "unmirrored"}]
    BY DEF AnswerInv, OtherTypes
  <2>2. ASSUME NEW r \in Requests, UploadRequest(r)
        PROVE  AnswerInv'
    BY <2>1, <2>2, UserAnswers DEF UploadRequest
  <2>3. ASSUME NEW n \in Names, UserUploads(n)
        PROVE  AnswerInv'
    <3>1. content' \in [Buckets -> {"empty", "mirrored", "unmirrored"}]
      BY <2>1, <2>3 DEF UserUploads
    <3> QED BY <2>3, <3>1, UserAnswers DEF UserUploads
  <2>4. CASE UNCHANGED vars
    BY <2>1, <2>4, UserAnswers DEF vars
  <2>5. ASSUME NEW i \in Invocations, Deliver(i) \/ Perform(i) \/ Crash(i)
        PROVE  AnswerInv'
    BY <2>5, PerformAnswers, AnswersStay
  <2> QED BY <2>2, <2>3, <2>4, <2>5 DEF Next
<1> QED BY <1>1, <1>2, InvHolds, PTL DEF Spec

\* A request that ends well has no request file left, and one that is given up
\* after fewer failing calls than attempts has a feedback file.
THEOREM RequestsHaveAnswers == Spec => []RequestsAreAnswered
<1>1. AnswerInv => RequestsAreAnswered
  <2> SUFFICES ASSUME AnswerInv, NEW i \in Invocations
               PROVE  /\ pc[i] = "ok" => i[1] \notin files
                      /\ pc[i] = "dropped" /\ Faults < Attempts(i) =>
                            feedback[i[1]] # {}
    BY DEF RequestsAreAnswered
  <2>1. AnswerOf(i) /\ Attempts(i) \in Nat /\ Faults \in Nat
    BY AttemptsFacts, FaultCounts DEF AnswerInv, OtherTypes
  <2> QED BY <2>1 DEF AnswerOf
<1> QED BY <1>1, AnswersHold, PTL

\* Every position an attempt holds is one of its request and of its plan, no
\* invocation fails more often than it may be tried, and rollbacks end.
THEOREM TypesHold == Spec => []TypeOK
<1>1. IInv /\ AnswerInv => TypeOK
  <2> SUFFICES ASSUME IInv, AnswerInv
               PROVE  TypeOK
    OBVIOUS
  <2>1. StoreTypes /\ OtherTypes
    BY DEF IInv, AnswerInv
  <2>2. ASSUME NEW i \in Invocations
        PROVE  /\ failures[i] \in 0..MaxAttempts
               /\ issues[i] \subseteq Names \cup {"file", "line"}
               /\ pc[i] \in {"create", "undo"} =>
                     /\ pos[i] \in 1..Len(Reviewed(i[1]))
                     /\ step[i] \in 1..Len(Plan(NameOf(i)))
               /\ pc[i] = "undo" <=> undo[i] # <<>>
    <3>1. LocalOf(i) /\ AnswerOf(i) /\ Attempts(i) \in 1..MaxAttempts
          /\ MaxAttempts \in Nat
      BY AttemptsFacts, RequestAssumption DEF IInv, LocalInv, AnswerInv
    <3>2. failures[i] \in 0..MaxAttempts
      BY <3>1 DEF AnswerOf
    <3>3. issues[i] \subseteq Names \cup {"file", "line"}
      BY <2>1, <3>1 DEF StoreTypes, LocalOf, Busy, Running
    <3>4. undo[i] \in Rollbacks => undo[i] # <<>>
      BY DEF Rollbacks
    <3> QED BY <3>1, <3>2, <3>3, <3>4 DEF LocalOf, Busy
  <2>3. failures \in [Invocations -> 0..MaxAttempts]
    BY <2>1, <2>2 DEF StoreTypes
  <2> QED BY <2>1, <2>2, <2>3 DEF StoreTypes, OtherTypes, TypeOK
<1> QED BY <1>1, InvHolds, AnswersHold, PTL

-----------------------------------------------------------------------------
(* Without a failing call nothing is rolled back, after one everything is *)

\* Whatever an attempt has created when a call fails, it rolls back.
LEMMA RollbackCovers ==
    ASSUME NEW n, NEW k \in 1..Len(Plan(n)), NEW side \in Sides,
           k > CreateAt(n, side),
           NEW rollback, rollback = RollbackOf(Plan(n)[k][1], Plan(n)[k][2])
    PROVE  \E j \in 1..Len(rollback) : rollback[j] = side
<1> DEFINE at == Plan(n)[k][1]
           call == Plan(n)[k][2]
<1>1. /\ Width(n) \in Nat /\ Width(n) >= 8 /\ Len(Plan(n)) = Width(n) + 4
      /\ CreateAt(n, "primary") = 1 /\ CreateAt(n, "replica") = Width(n) + 1
  BY PlanFacts DEF CreateAt
<1>2. side \in {"primary", "replica"} /\ Sides = {"primary", "replica"}
  BY DEF Sides
<1>3. /\ at \in Sides
      /\ Plan(n)[k] = <<"primary", "create">> <=> k = 1
      /\ Plan(n)[k] = <<"replica", "create">> <=> k = Width(n) + 1
      /\ Plan(n)[k] = <<at, call>>
  BY <1>1, <1>2, PlanOrder DEF PlanCalls
<1>4. ASSUME at = "primary", call # "replication"
      PROVE  k <= Width(n)
  <2> SUFFICES ASSUME k > Width(n)
               PROVE  FALSE
    BY <1>1
  <2>1. k \in {Width(n) + 1, Width(n) + 2, Width(n) + 3, Width(n) + 4}
    BY <1>1
  <2> QED BY <1>4, <2>1, PlanFacts
<1> HIDE DEF at, call
<1>5. rollback = RollbackOf(at, call)
  BY DEF at, call
<1>6. CASE at = "replica" /\ call = "create"
  <2>1. rollback = <<"primary">> /\ side = "primary"
    BY <1>1, <1>2, <1>3, <1>5, <1>6 DEF RollbackOf
  <2> QED BY <2>1
<1>7. CASE at = "replica" /\ call # "create"
  <2>1. rollback = <<"replica", "primary">>
    BY <1>5, <1>7 DEF RollbackOf
  <2> QED BY <1>2, <2>1
<1>8. CASE at = "primary" /\ call = "create"
  BY <1>1, <1>2, <1>3, <1>8
<1>9. CASE at = "primary" /\ call = "replication"
  <2>1. rollback = <<"primary", "replica">>
    BY <1>5, <1>9 DEF RollbackOf
  <2> QED BY <1>2, <2>1
<1>10. CASE at = "primary" /\ call \notin {"create", "replication"}
  <2>1. rollback = <<"primary">>
    BY <1>5, <1>10 DEF RollbackOf
  <2>2. side = "primary"
    BY <1>1, <1>2, <1>4, <1>10
  <2> QED BY <2>1, <2>2
<1> QED BY <1>2, <1>3, <1>6, <1>7, <1>8, <1>9, <1>10

\* The plan calls nothing before what S3 asks for it.
LEMMA PlanPrepares ==
    ASSUME NEW n, NEW k \in 1..Len(Plan(n))
    PROVE  /\ Plan(n)[k][2] = "public_policy" =>
                 /\ Plan(n)[k][1] = "primary"
                 /\ "public_access" \in AppliedBy(n, "primary", k)
           /\ Plan(n)[k][2] = "replication" =>
                 /\ k = Len(Plan(n))
                 /\ "versioning" \in AppliedBy(n, "primary", k)
                 /\ "versioning" \in AppliedBy(n, "replica", k)
<1> DEFINE P == Plan(n)
<1>1. /\ {"public_access", "versioning"} \subseteq Configurations
  BY DEF Configurations, EveryBucket, StandardBucket
<1>2. CASE n \in PublicNames
  <2>1. PublicTable(P) /\ k \in 1..Len(P)
    BY <1>2, PlanTable
  <2>2. k \in {1, 2, 3, 4, 5, 6, 7, 8, 9, 10, 11, 12, 13, 14} /\ Len(P) = 14
    BY <2>1 DEF PublicTable
  <2>3. ASSUME P[k][2] = "public_policy"
        PROVE  P[k][1] = "primary" /\ "public_access" \in AppliedBy(n, "primary", k)
    <3> HIDE DEF P
    <3>1. k = 10
      BY <2>1, <2>2, <2>3 DEF PublicTable
    <3>2. P[9] = <<"primary", "public_access">> /\ 9 \in 1..(k - 1)
          /\ P[k][1] = "primary"
      BY <2>1, <3>1 DEF PublicTable
    <3> QED BY <1>1, <3>2 DEF AppliedBy, P
  <2>4. ASSUME P[k][2] = "replication"
        PROVE  /\ k = Len(P) /\ "versioning" \in AppliedBy(n, "primary", k)
               /\ "versioning" \in AppliedBy(n, "replica", k)
    <3> HIDE DEF P
    <3>1. k = 14
      BY <2>1, <2>2, <2>4 DEF PublicTable
    <3>2. /\ P[3] = <<"primary", "versioning">> /\ 3 \in 1..(k - 1)
          /\ P[12] = <<"replica", "versioning">> /\ 12 \in 1..(k - 1)
      BY <2>1, <3>1 DEF PublicTable
    <3> QED BY <1>1, <2>2, <3>1, <3>2 DEF AppliedBy, P
  <2> QED BY <2>3, <2>4
<1>3. CASE n \notin PublicNames
  <2>1. StandardTable(P) /\ k \in 1..Len(P)
    BY <1>3, PlanTable
  <2>2. k \in {1, 2, 3, 4, 5, 6, 7, 8, 9, 10, 11, 12} /\ Len(P) = 12
    BY <2>1 DEF StandardTable
  <2>3. P[k][2] # "public_policy"
    <3> HIDE DEF P
    <3> QED BY <2>1, <2>2 DEF StandardTable
  <2>4. ASSUME P[k][2] = "replication"
        PROVE  /\ k = Len(P) /\ "versioning" \in AppliedBy(n, "primary", k)
               /\ "versioning" \in AppliedBy(n, "replica", k)
    <3> HIDE DEF P
    <3>1. k = 12
      BY <2>1, <2>2, <2>4 DEF StandardTable
    <3>2. /\ P[3] = <<"primary", "versioning">> /\ 3 \in 1..(k - 1)
          /\ P[10] = <<"replica", "versioning">> /\ 10 \in 1..(k - 1)
      BY <2>1, <3>1 DEF StandardTable
    <3> QED BY <1>1, <2>2, <3>1, <3>2 DEF AppliedBy, P
  <2> QED BY <2>3, <2>4
<1> QED BY <1>2, <1>3

\* S3 accepts every call about a bucket once it is created.
LEMMA SetupIsAccepted ==
    ASSUME IInv, NEW i \in Invocations, pc[i] = "create", CallOf(i) # "create"
    PROVE  Accepted(CallOf(i), BucketOf(i))
<1> DEFINE n == NameOf(i)
           k == step[i]
           B == BucketOf(i)
           call == CallOf(i)
<1>1. /\ n \in Names /\ k \in 1..Len(Plan(n)) /\ B = <<n, Plan(n)[k][1]>>
      /\ B \in Buckets /\ Owns(i, B) /\ call = Plan(n)[k][2]
  BY AtWork DEF CallOf
<1>2. B \in exists
  BY <1>1 DEF IInv, OwnerInv
<1>3. ProgressOf(i) /\ "primary" \in Sides /\ "replica" \in Sides
  BY DEF IInv, ProgressInv, Sides
<1>4. CASE call = "public_policy"
  <2>1. B = <<n, "primary">> /\ "public_access" \in AppliedBy(n, "primary", k)
    BY <1>1, <1>4, PlanPrepares
  <2>2. "public_access" \in applied[B]
    BY <1>1, <1>3, <2>1 DEF ProgressOf
  <2> QED BY <1>2, <1>4, <2>2 DEF Accepted
<1>5. CASE call = "replication"
  <2>1. /\ k = Len(Plan(n))
        /\ \A side \in Sides : "versioning" \in AppliedBy(n, side, k)
    BY <1>1, <1>5, PlanPrepares DEF Sides
  <2>2. ASSUME NEW side \in Sides
        PROVE  <<n, side>> \in exists /\ "versioning" \in applied[<<n, side>>]
    <3>1. k > CreateAt(n, side)
      BY <1>1, <2>1, PlanOrder
    <3>2. Owns(i, <<n, side>>) /\ <<n, side>> \in Buckets
      BY <1>1, <3>1 DEF Owns, Busy, Buckets
    <3>3. <<n, side>> \in exists
      BY <3>2 DEF IInv, OwnerInv
    <3>4. applied[<<n, side>>] = AppliedBy(n, side, k)
      BY <1>3, <3>2 DEF ProgressOf
    <3> QED BY <2>1, <3>3, <3>4
  <2>3. B[1] = n
    BY <1>1
  <2> QED BY <1>5, <2>2, <2>3 DEF Accepted
<1>6. CASE call \notin {"create", "public_policy", "replication"}
  <2> HIDE DEF call, B
  <2>1. Accepted(call, B)
    BY <1>2, <1>6 DEF Accepted
  <2> QED BY <2>1 DEF call, B
<1> QED BY <1>4, <1>5, <1>6

\* The bucket is one of a pair that is done, or of one in the making.
Kept(b) == SettledPair(b[1]) \/ \E i \in Invocations : Owns(i, b)

\* Without a failing call nothing is undone.  One refused call undoes what the
\* attempt has created, unless a user was quicker; by then no other call is
\* refused that would leave a bucket behind.
UndoInv ==
    /\ \A n \in Names : content[<<n, "replica">>] # "empty" =>
                           content[<<n, "primary">>] # "empty"
    /\ Faults = 0 =>
          /\ \A i \in Invocations : pc[i] # "undo"
          /\ \A b \in exists : Kept(b)
    /\ faults["refused"] <= 1 /\ faults["lost"] + faults["crash"] = 0 =>
          \A b \in exists : content[<<b[1], "primary">>] # "empty" \/ Kept(b)

\* Faults are counted kind by kind, and the steps of an attempt put no objects
\* into buckets.
LEMMA FaultsOfStep ==
    ASSUME OtherTypes, NEW i \in Invocations,
           Deliver(i) \/ Perform(i) \/ Crash(i)
    PROVE  /\ content' = content
           /\ \A kind \in FaultKinds :
                 /\ faults[kind] \in Nat /\ faults'[kind] \in Nat
                 /\ faults'[kind] >= faults[kind]
           /\ \A kind \in FaultKinds : Fault(kind) => faults'[kind] > faults[kind]
           /\ Faults = faults["refused"] + faults["lost"] + faults["crash"]
           /\ Faults' = faults'["refused"] + faults'["lost"] + faults'["crash"]
<1>1. content' = content
  BY DEF Deliver, Perform, Crash, ReadRequest, MakeCall, FailCall, Rollback,
         PutFeedback, DeleteRequest, TriggerSync
<1>2. UNCHANGED faults \/ \E kind \in FaultKinds : Fault(kind)
  <2>1. "refused" \in FaultKinds /\ "lost" \in FaultKinds /\ "crash" \in FaultKinds
    BY DEF FaultKinds
  <2> QED BY <2>1 DEF Deliver, Perform, Crash, ReadRequest, MakeCall, FailCall,
             Rollback, PutFeedback, DeleteRequest, TriggerSync
<1>3. faults \in [FaultKinds -> Nat] /\ \A kind \in FaultKinds : faults[kind] \in Nat
  BY RequestAssumption DEF OtherTypes
<1>4. ASSUME NEW kind \in FaultKinds, Fault(kind)
      PROVE  /\ faults'[kind] = faults[kind] + 1
             /\ \A other \in FaultKinds \ {kind} : faults'[other] = faults[other]
  BY <1>3, <1>4 DEF Fault
<1>5. \A kind \in FaultKinds : faults'[kind] \in Nat /\ faults'[kind] >= faults[kind]
  <2>1. CASE UNCHANGED faults
    BY <1>3, <2>1
  <2>2. ASSUME NEW kind \in FaultKinds, Fault(kind)
        PROVE  \A other \in FaultKinds :
                  faults'[other] \in Nat /\ faults'[other] >= faults[other]
    BY <1>3, <1>4, <2>2
  <2> QED BY <1>2, <2>1, <2>2
<1>6. \A kind \in FaultKinds : Fault(kind) => faults'[kind] > faults[kind]
  BY <1>3, <1>4
<1> QED BY <1>1, <1>3, <1>5, <1>6 DEF Faults

\* A call that returns Ok leaves its bucket to the attempt, or the pair whole.
LEMMA MakeLeaves ==
    ASSUME IInv, NEW i \in Invocations, MakeCall(i),
           NEW b \in Buckets, b \in exists', b \notin exists \/ Owns(i, b)
    PROVE  Owns(i, b)' \/ SettledPair(b[1])'
<1> DEFINE n == NameOf(i)
<1>1. StoreTypes /\ LocalOf(i) /\ OwnerInv /\ pc[i] = "create"
  BY DEF IInv, LocalInv, MakeCall
<1>2. /\ n \in Names /\ step[i] \in 1..Len(Plan(n)) /\ Len(Plan(n)) \in Nat
      /\ BucketOf(i) = <<n, Plan(n)[step[i]][1]>>
      /\ CallOf(i) = "create" <=> step[i] = CreateAt(n, BucketOf(i)[2])
      /\ CallOf(i) # "create" => Owns(i, BucketOf(i))
      /\ BucketOf(i) \in Buckets
  BY <1>1, AtWork
<1>3. b[1] = n /\ step[i] >= CreateAt(n, b[2])
  <2>1. CASE Owns(i, b)
    <3>1. CreateAt(n, b[2]) \in Nat
      BY PlanFacts DEF CreateAt
    <3> QED BY <1>1, <1>2, <2>1, <3>1 DEF Owns
  <2>2. CASE b \notin exists
    <3>1. b = BucketOf(i)
      BY <1>1, <2>2, LandedFacts DEF MakeCall
    <3>2. CallOf(i) = "create"
      BY <1>1, <1>2, <2>2, <3>1 DEF OwnerInv
    <3>3. step[i] = CreateAt(n, b[2]) /\ b[1] = n
      BY <1>2, <3>1, <3>2
    <3> QED BY <1>2, <3>3
  <2> QED BY <2>1, <2>2
<1>4. CASE step[i] = Len(Plan(n)) /\ NextPair(i, issues[i])
  <2>1. b[1] \in Names
    BY DEF Buckets
  <2> QED BY <1>3, <1>4, <2>1, LastStep
<1>5. CASE step' = [step EXCEPT ![i] = @ + 1] /\ UNCHANGED <<pc, pos>>
  <2>1. /\ step'[i] = step[i] + 1 /\ pc'[i] = "create" /\ NameOf(i)' = n
    BY <1>1, <1>5 DEF StoreTypes, NameOf
  <2>2. CreateAt(n, b[2]) \in Nat
    BY PlanFacts DEF CreateAt
  <2>3. step'[i] > CreateAt(b[1], b[2])
    BY <1>2, <1>3, <2>1, <2>2
  <2> QED BY <1>3, <2>1, <2>3 DEF Owns, Busy, CreateAt
<1> QED BY <1>4, <1>5 DEF MakeCall

\* A refused call leaves everything to the rollback.
LEMMA FailLeaves ==
    ASSUME IInv, NEW i \in Invocations, FailCall(i), UNCHANGED s3Vars,
           NEW b \in Buckets, Owns(i, b)
    PROVE  Owns(i, b)'
<1> DEFINE n == NameOf(i)
           k == step[i]
           rollback == RollbackOf(Plan(n)[k][1], CallOf(i))
<1>1. /\ StoreTypes /\ pc[i] = "create" /\ n \in Names /\ k \in 1..Len(Plan(n))
      /\ rollback = RollbackOf(Plan(n)[k][1], Plan(n)[k][2])
  BY AtWork DEF FailCall, IInv, CallOf
<1>2. b[1] = n /\ b[2] \in Sides /\ k > CreateAt(n, b[2])
  BY <1>1 DEF Owns, Buckets
<1> HIDE DEF rollback
<1>3. PICK j \in 1..Len(rollback) : rollback[j] = b[2]
  BY <1>1, <1>2, RollbackCovers
<1>4. rollback # <<>>
  BY <1>3
<1>5. /\ undo' = [undo EXCEPT ![i] = rollback]
      /\ pc' = [pc EXCEPT ![i] = "undo"]
      /\ UNCHANGED <<pos, step, issues>>
  BY <1>4 DEF FailCall, rollback
<1>6. undo'[i] = rollback /\ pc'[i] = "undo" /\ NameOf(i)' = n
  BY <1>1, <1>5 DEF StoreTypes, NameOf
<1>7. \E l \in 1..Len(undo'[i]) : undo'[i][l] = b[2]
  BY <1>3, <1>6
<1> QED BY <1>2, <1>6, <1>7 DEF Owns, Busy

\* A rollback deletes its bucket, unless an object is in it or S3 refuses.
LEMMA RollbackLeaves ==
    ASSUME IInv, NEW i \in Invocations, Rollback(i),
           NEW b \in Buckets, b \in exists', b \notin exists \/ Owns(i, b)
    PROVE  Owns(i, b)' \/ content[b] # "empty" \/ Fault("refused")
<1> DEFINE B == <<NameOf(i), Head(undo[i])>>
<1>1. StoreTypes /\ LocalOf(i) /\ OwnerInv /\ pc[i] = "undo"
  BY DEF IInv, LocalInv, Rollback
<1>2. exists' \subseteq exists
  BY DEF Rollback, Deleted, s3Vars
<1>3. Owns(i, b) /\ b \in exists /\ b[1] = NameOf(i) /\ b = <<b[1], b[2]>>
  BY <1>1, <1>2 DEF OwnerInv, Owns, Buckets
<1>4. CASE b = B
  <2>1. ~Deleted(B)
    BY <1>4 DEF Deleted
  <2> QED BY <1>3, <1>4, <2>1 DEF Rollback
<1>5. CASE b # B
  <2>1. b[2] # Head(undo[i])
    BY <1>3, <1>5
  <2>2. undo[i] \in Rollbacks /\ \E l \in 1..Len(undo[i]) : undo[i][l] = b[2]
    BY <1>1, <1>3 DEF LocalOf, Owns
  <2>3. /\ Len(undo[i]) > 1
        /\ \E l \in 1..Len(Tail(undo[i])) : Tail(undo[i])[l] = b[2]
    <3>1. CASE undo[i] = <<"primary">> \/ undo[i] = <<"replica">>
      <4>1. Len(undo[i]) = 1 /\ Head(undo[i]) = undo[i][1]
        <5>1. CASE undo[i] = <<"primary">>
          BY <5>1
        <5>2. CASE undo[i] = <<"replica">>
          BY <5>2
        <5> QED BY <3>1, <5>1, <5>2
      <4> QED BY <2>1, <2>2, <4>1
    <3>2. CASE undo[i] = <<"replica", "primary">>
      <4>1. /\ Len(undo[i]) = 2 /\ Tail(undo[i]) = <<"primary">>
            /\ Head(undo[i]) = "replica" /\ undo[i][1] = "replica"
            /\ undo[i][2] = "primary"
        BY <3>2
      <4>2. b[2] = "primary" /\ 1 \in 1..Len(Tail(undo[i]))
            /\ Tail(undo[i])[1] = "primary"
        BY <2>1, <2>2, <4>1
      <4>3. \E l \in 1..Len(Tail(undo[i])) : Tail(undo[i])[l] = b[2]
        BY <4>2
      <4>4. Len(undo[i]) > 1
        BY <4>1
      <4> QED BY <4>3, <4>4
    <3>3. CASE undo[i] = <<"primary", "replica">>
      <4>1. /\ Len(undo[i]) = 2 /\ Tail(undo[i]) = <<"replica">>
            /\ Head(undo[i]) = "primary" /\ undo[i][1] = "primary"
            /\ undo[i][2] = "replica"
        BY <3>3
      <4>2. b[2] = "replica" /\ 1 \in 1..Len(Tail(undo[i]))
            /\ Tail(undo[i])[1] = "replica"
        BY <2>1, <2>2, <4>1
      <4>3. \E l \in 1..Len(Tail(undo[i])) : Tail(undo[i])[l] = b[2]
        BY <4>2
      <4>4. Len(undo[i]) > 1
        BY <4>1
      <4> QED BY <4>3, <4>4
    <3> QED BY <2>2, <3>1, <3>2, <3>3 DEF Rollbacks
  <2>4. undo' = [undo EXCEPT ![i] = Tail(@)] /\ UNCHANGED <<pc, pos>>
    BY <2>3 DEF Rollback
  <2>5. undo'[i] = Tail(undo[i]) /\ pc'[i] = "undo" /\ NameOf(i)' = NameOf(i)
    BY <1>1, <2>4 DEF StoreTypes, NameOf
  <2>6. \E l \in 1..Len(undo'[i]) : undo'[i][l] = b[2]
    BY <2>3, <2>5
  <2> QED BY <1>3, <2>5, <2>6 DEF Owns, Busy
<1> QED BY <1>4, <1>5

\* What is kept, is kept by the steps of others.
LEMMA KeptStays ==
    ASSUME NEW i \in Invocations, StepOf(i), NEW b \in Buckets, Kept(b), ~Owns(i, b)
    PROVE  Kept(b)'
<1>1. b[1] \in Names /\ Alone(i) /\ Contained(i)
  BY DEF Buckets, StepOf
<1>2. CASE SettledPair(b[1])
  <2>1. SettledPair(b[1])'
    BY <1>1, <1>2, SettledStay
  <2> QED BY <2>1 DEF Kept
<1>3. ASSUME NEW j \in Invocations, Owns(j, b)
      PROVE  Kept(b)'
  <2>1. Owns(j, b)'
    BY <1>1, <1>3, OthersHold
  <2> QED BY <2>1 DEF Kept
<1> QED BY <1>2, <1>3 DEF Kept

\* What a step leaves behind that is not kept, it leaves for a fault, or for
\* what a user has put there.
LEMMA StepLeaves ==
    ASSUME IInv, NEW i \in Invocations, Deliver(i) \/ Perform(i) \/ Crash(i),
           NEW b \in Buckets, b \in exists', b \notin exists \/ Owns(i, b)
    PROVE  \/ Kept(b)'
           \/ Fault("lost") \/ Fault("crash")
           \/ Rollback(i) /\ (content[b] # "empty" \/ Fault("refused"))
<1>1. Owns(i, b)' \/ SettledPair(b[1])' => Kept(b)'
  BY DEF Kept
<1>2. CASE MakeCall(i)
  BY <1>1, <1>2, MakeLeaves
<1>3. CASE FailCall(i)
  <2>1. UNCHANGED s3Vars \/ Fault("lost")
    BY <1>3 DEF FailCall
  <2>2. CASE UNCHANGED s3Vars
    <3>1. Owns(i, b)
      BY <2>2 DEF s3Vars
    <3> QED BY <1>1, <1>3, <2>2, <3>1, FailLeaves
  <2> QED BY <2>1, <2>2
<1>4. CASE Rollback(i)
  BY <1>1, <1>4, RollbackLeaves
<1>5. CASE Crash(i)
  BY <1>5 DEF Crash
<1>6. CASE \/ Deliver(i) \/ ReadRequest(i) \/ PutFeedback(i) \/ DeleteRequest(i)
           \/ TriggerSync(i)
  <2>1. exists' = exists
    BY <1>6 DEF Deliver, ReadRequest, PutFeedback, DeleteRequest, TriggerSync, s3Vars
  <2>2. pc[i] \notin Busy
    BY <1>6 DEF Deliver, ReadRequest, PutFeedback, DeleteRequest, TriggerSync, Busy
  <2> QED BY <2>1, <2>2 DEF Owns
<1> QED BY <1>2, <1>3, <1>4, <1>5, <1>6 DEF Perform

\* As long as no call fails, create finds the name of a replica free, and no
\* attempt begins to roll back.
LEMMA NothingIsUndone ==
    ASSUME IInv, UndoInv, Faults = 0, NEW i \in Invocations, FailCall(i),
           \A kind \in FaultKinds : ~Fault(kind)
    PROVE  pc'[i] # "undo"
<1> DEFINE n == NameOf(i)
           k == step[i]
           B == BucketOf(i)
<1>1. /\ StoreTypes /\ pc[i] = "create" /\ n \in Names /\ k \in 1..Len(Plan(n))
      /\ B = <<n, Plan(n)[k][1]>> /\ B \in Buckets
      /\ Plan(n)[k] = <<B[2], CallOf(i)>> /\ B[2] \in Sides
      /\ CallOf(i) = "create" <=> k = CreateAt(n, B[2])
  BY AtWork DEF FailCall, IInv
<1>2. ~Accepted(CallOf(i), B)
  BY DEF FailCall, FaultKinds
<1>3. CallOf(i) = "create" /\ B \in exists
  <2>1. CallOf(i) = "create"
    BY <1>1, <1>2, SetupIsAccepted
  <2> QED BY <1>2, <2>1 DEF Accepted
<1>4. B[2] # "replica"
  <2> SUFFICES ASSUME B[2] = "replica"
               PROVE  FALSE
    OBVIOUS
  <2> DEFINE P == <<n, "primary">>
  <2>1. /\ k = Width(n) + 1 /\ B = <<n, "replica">> /\ P \in Buckets
        /\ CreateAt(n, "primary") = 1 /\ CreateAt(n, "replica") = Width(n) + 1
        /\ Width(n) \in Nat /\ Width(n) >= 8
    BY <1>1, <1>3, PlanFacts DEF CreateAt, Buckets, Sides
  <2>2. Owns(i, P)
    BY <1>1, <2>1 DEF Owns, Busy
  <2>3. ~SettledPair(n)
    BY <2>2 DEF SettledPair, Sides
  <2>4. PICK j \in Invocations : Owns(j, B)
    BY <1>3, <2>1, <2>3 DEF UndoInv, Kept
  <2>5. pc[j] = "create" /\ NameOf(j) = n /\ step[j] > CreateAt(n, "replica")
    BY <2>1, <2>4 DEF Owns, Busy, UndoInv
  <2>6. step[j] \in Nat
    BY <2>5, AtWork
  <2>7. Owns(j, P)
    BY <2>1, <2>5, <2>6 DEF Owns, Busy
  <2>8. j = i
    BY <2>1, <2>2, <2>7 DEF IInv, OwnerInv
  <2> QED BY <2>1, <2>5, <2>6, <2>8
<1>5. Plan(n)[k][1] = "primary"
  BY <1>1, <1>4 DEF Sides
<1>6. RollbackOf(Plan(n)[k][1], CallOf(i)) = <<>>
  BY <1>3, <1>5 DEF RollbackOf
<1>7. NextPair(i, issues[i] \cup {n})
  BY <1>6 DEF FailCall
<1> QED BY <1>1, <1>7 DEF NextPair, StoreTypes

\* So the steps of attempts leave nothing behind that they could have undone.
LEMMA StepKeepsUndo ==
    ASSUME IInv, OtherTypes, UndoInv, NEW i \in Invocations,
           Deliver(i) \/ Perform(i) \/ Crash(i), StepOf(i), StoreTypes'
    PROVE  UndoInv'
<1>1. /\ content' = content
      /\ \A kind \in FaultKinds :
            /\ faults[kind] \in Nat /\ faults'[kind] \in Nat
            /\ faults'[kind] >= faults[kind]
      /\ \A kind \in FaultKinds : Fault(kind) => faults'[kind] > faults[kind]
      /\ Faults = faults["refused"] + faults["lost"] + faults["crash"]
      /\ Faults' = faults'["refused"] + faults'["lost"] + faults'["crash"]
      /\ "refused" \in FaultKinds /\ "lost" \in FaultKinds
      /\ "crash" \in FaultKinds /\ FaultKinds = {"refused", "lost", "crash"}
  <2>1. /\ "refused" \in FaultKinds /\ "lost" \in FaultKinds
        /\ "crash" \in FaultKinds /\ FaultKinds = {"refused", "lost", "crash"}
    BY DEF FaultKinds
  <2> QED BY <2>1, FaultsOfStep
<1>2. \A n \in Names : content'[<<n, "replica">>] # "empty" =>
                          content'[<<n, "primary">>] # "empty"
  BY <1>1 DEF UndoInv
<1>3. Alone(i) /\ exists' \subseteq Buckets
  BY DEF StepOf, StoreTypes
<1>4. ASSUME Faults' = 0
      PROVE  /\ \A j \in Invocations : pc'[j] # "undo"
             /\ \A b \in exists' : Kept(b)'
  <2>1. Faults = 0 /\ \A kind \in FaultKinds : ~Fault(kind)
    <3>1. /\ faults["refused"] \in Nat /\ faults'["refused"] \in Nat
          /\ faults["lost"] \in Nat /\ faults'["lost"] \in Nat
          /\ faults["crash"] \in Nat /\ faults'["crash"] \in Nat
          /\ faults'["refused"] >= faults["refused"]
          /\ faults'["lost"] >= faults["lost"]
          /\ faults'["crash"] >= faults["crash"]
      BY <1>1
    <3>2. /\ faults["refused"] = 0 /\ faults'["refused"] = 0
          /\ faults["lost"] = 0 /\ faults'["lost"] = 0
          /\ faults["crash"] = 0 /\ faults'["crash"] = 0
      <4>1. faults'["refused"] + faults'["lost"] + faults'["crash"] = 0
        BY <1>1, <1>4
      <4>2. \A p, q, r \in Nat : p + q + r = 0 => p = 0 /\ q = 0 /\ r = 0
        OBVIOUS
      <4>3. faults'["refused"] = 0 /\ faults'["lost"] = 0 /\ faults'["crash"] = 0
        BY <3>1, <4>1, <4>2, Zenon
      <4> QED BY <3>1, <4>3
    <3>3. Faults = 0
      BY <1>1, <3>2
    <3>4. ~Fault("refused") /\ ~Fault("lost") /\ ~Fault("crash")
      <4>1. /\ Fault("refused") => faults'["refused"] > faults["refused"]
            /\ Fault("lost") => faults'["lost"] > faults["lost"]
            /\ Fault("crash") => faults'["crash"] > faults["crash"]
        BY <1>1
      <4> QED BY <3>2, <4>1
    <3> QED BY <1>1, <3>3, <3>4
  <2>2. /\ \A j \in Invocations : pc[j] # "undo"
        /\ \A b \in exists : Kept(b)
    BY <2>1 DEF UndoInv
  <2>3. ~Rollback(i)
    BY <2>2 DEF Rollback
  <2>4. pc'[i] # "undo"
    <3>1. CASE FailCall(i)
      BY <2>1, <3>1, NothingIsUndone
    <3>2. CASE ~FailCall(i)
      <4>1. StoreTypes
        BY DEF IInv
      <4> QED BY <2>2, <2>3, <3>2, <4>1
            DEF Deliver, Perform, Crash, ReadRequest, MakeCall, PutFeedback,
                DeleteRequest, TriggerSync, RefuseRequest, NextPair, ReturnErr,
                StoreTypes
    <3> QED BY <3>1, <3>2
  <2>5. \A j \in Invocations : pc'[j] # "undo"
    BY <1>3, <2>2, <2>4 DEF Alone
  <2>6. ASSUME NEW b \in exists'
        PROVE  Kept(b)'
    <3>1. b \in Buckets
      BY <1>3
    <3>2. CASE b \in exists /\ ~Owns(i, b)
      BY <2>2, <3>1, <3>2, KeptStays
    <3>3. CASE b \notin exists \/ Owns(i, b)
      BY <1>1, <2>1, <2>3, <3>1, <3>3, StepLeaves
    <3> QED BY <3>2, <3>3
  <2> QED BY <2>5, <2>6
<1>5. ASSUME faults'["refused"] <= 1, faults'["lost"] + faults'["crash"] = 0,
             NEW b \in exists'
      PROVE  content'[<<b[1], "primary">>] # "empty" \/ Kept(b)'
  <2>1. /\ faults["refused"] <= 1 /\ faults["lost"] + faults["crash"] = 0
        /\ ~Fault("lost") /\ ~Fault("crash")
        /\ Fault("refused") => Faults = 0
    BY <1>1, <1>5
  <2>2. b \in Buckets /\ b[1] \in Names /\ b = <<b[1], b[2]>>
        /\ b[2] \in {"primary", "replica"}
    BY <1>3 DEF Buckets, Sides
  <2>3. CASE b \in exists /\ ~Owns(i, b)
    <3>1. content[<<b[1], "primary">>] # "empty" \/ Kept(b)
      BY <2>1, <2>3 DEF UndoInv
    <3> QED BY <1>1, <2>2, <2>3, <3>1, KeptStays
  <2>4. CASE b \notin exists \/ Owns(i, b)
    <3>1. ~(Rollback(i) /\ Fault("refused"))
      BY <2>1 DEF Rollback, UndoInv
    <3>2. content[b] # "empty" => content[<<b[1], "primary">>] # "empty"
      <4>1. b = <<b[1], "primary">> \/ b = <<b[1], "replica">>
        BY <2>2
      <4> QED BY <2>2, <4>1 DEF UndoInv
    <3> QED BY <1>1, <2>1, <2>2, <2>4, <3>1, <3>2, StepLeaves
  <2> QED BY <2>3, <2>4
<1> QED BY <1>2, <1>4, <1>5 DEF UndoInv

\* A user who puts objects into buckets only makes it harder to delete them.
LEMMA UserKeepsUndo ==
    ASSUME OtherTypes, StoreTypes, UndoInv,
           UNCHANGED <<s3Vars, callVars, faults>>,
           content' = content \/ \E n \in Names : UserUploads(n)
    PROVE  UndoInv'
<1>1. /\ exists' = exists /\ applied' = applied /\ policy' = policy
      /\ pc' = pc /\ pos' = pos /\ step' = step /\ undo' = undo
      /\ Faults' = Faults /\ faults' = faults
  BY DEF s3Vars, callVars, Faults
<1>2. \A i, b : Owns(i, b)' <=> Owns(i, b)
  <2>1. \A i : NameOf(i)' = NameOf(i)
    BY <1>1 DEF NameOf
  <2> QED BY <1>1, <2>1 DEF Owns
<1>3. ASSUME NEW b, Kept(b)
      PROVE  Kept(b)'
  <2>1. \A side : Complete(b[1], side)' <=> Complete(b[1], side)
    BY <1>1 DEF Complete
  <2>2. SettledPair(b[1])' <=> SettledPair(b[1])
    BY <1>2, <2>1 DEF SettledPair, Whole
  <2> QED BY <1>2, <1>3, <2>2 DEF Kept
<1>4. /\ \A b \in Buckets : content[b] # "empty" => content'[b] # "empty"
      /\ \A n \in Names : content'[<<n, "replica">>] # "empty" =>
                             content'[<<n, "primary">>] # "empty"
  <2>1. \A n \in Names : content[<<n, "replica">>] # "empty" =>
                            content[<<n, "primary">>] # "empty"
    BY DEF UndoInv
  <2>2. CASE content' = content
    BY <2>1, <2>2
  <2>3. ASSUME NEW n \in Names, UserUploads(n)
        PROVE  /\ \A b \in Buckets : content[b] # "empty" => content'[b] # "empty"
               /\ \A m \in Names : content'[<<m, "replica">>] # "empty" =>
                                      content'[<<m, "primary">>] # "empty"
    <3>1. \A m \in Names :
             /\ <<m, "primary">> \in Buckets /\ <<m, "replica">> \in Buckets
             /\ <<m, "primary">>[1] = m /\ <<m, "replica">>[1] = m
             /\ <<m, "primary">> # <<m, "replica">>
      BY DEF Buckets, Sides
    <3>2. CASE content' = [b \in Buckets |->
                              IF b[1] = n /\ content[b] = "empty"
                              THEN "mirrored" ELSE content[b]]
      <4>1. \A b \in Buckets : content[b] # "empty" => content'[b] # "empty"
        BY <3>2
      <4>2. ASSUME NEW m \in Names, content'[<<m, "replica">>] # "empty"
            PROVE  content'[<<m, "primary">>] # "empty"
        <5>1. CASE m = n
          BY <3>1, <3>2, <5>1
        <5>2. CASE m # n
          BY <2>1, <3>1, <3>2, <4>2, <5>2
        <5> QED BY <5>1, <5>2
      <4> QED BY <4>1, <4>2
    <3>3. CASE content' = [content EXCEPT ![<<n, "primary">>] = "unmirrored"]
      <4>1. /\ content'[<<n, "primary">>] = "unmirrored"
            /\ \A b \in Buckets : b # <<n, "primary">> => content'[b] = content[b]
        BY <3>1, <3>3 DEF OtherTypes
      <4>2. ASSUME NEW m \in Names, content'[<<m, "replica">>] # "empty"
            PROVE  content'[<<m, "primary">>] # "empty"
        <5>1. CASE m = n
          BY <4>1, <5>1
        <5>2. CASE m # n
          <6>1. /\ content'[<<m, "replica">>] = content[<<m, "replica">>]
                /\ content'[<<m, "primary">>] = content[<<m, "primary">>]
            BY <3>1, <4>1, <5>2
          <6> QED BY <2>1, <4>2, <6>1
        <5> QED BY <5>1, <5>2
      <4> QED BY <4>1, <4>2
    <3> QED BY <2>3, <3>2, <3>3 DEF UserUploads
  <2> QED BY <2>2, <2>3
<1>5. \A b \in exists : content[<<b[1], "primary">>] # "empty" =>
                           content'[<<b[1], "primary">>] # "empty"
  BY <1>4 DEF StoreTypes, Buckets, Sides
<1> QED BY <1>1, <1>3, <1>4, <1>5 DEF UndoInv

\* This holds in every behaviour.
LEMMA UndoHolds == Spec => []UndoInv
<1>1. Init => UndoInv
  <2> SUFFICES ASSUME Init
               PROVE  UndoInv
    OBVIOUS
  <2>1. IInv
    BY InitInv
  <2>2. \A n \in Names : content[<<n, "replica">>] = "empty"
    BY DEF Init, Buckets, Sides
  <2>3. \A i \in Invocations : pc[i] # "undo"
    BY DEF Init
  <2>4. \A b \in exists : Kept(b)
    <3>1. \A b \in exists : b[1] \in Existing
      BY DEF Init
    <3>2. \A n \in Existing : SettledPair(n)
      BY <2>1, RequestAssumption DEF IInv, PairsInv
    <3> QED BY <3>1, <3>2 DEF Kept
  <2> QED BY <2>2, <2>3, <2>4 DEF UndoInv
<1>2. IInv /\ IInv' /\ AnswerInv /\ UndoInv /\ [Next]_vars => UndoInv'
  <2> SUFFICES ASSUME IInv, IInv', AnswerInv, UndoInv, [Next]_vars
               PROVE  UndoInv'
    OBVIOUS
  <2>1. OtherTypes /\ StoreTypes /\ StoreTypes'
    BY DEF AnswerInv, IInv
  <2>2. ASSUME NEW r \in Requests, UploadRequest(r)
        PROVE  UndoInv'
    BY <2>1, <2>2, UserKeepsUndo DEF UploadRequest
  <2>3. ASSUME NEW n \in Names, UserUploads(n)
        PROVE  UndoInv'
    <3>1. UNCHANGED <<s3Vars, callVars, faults>>
      BY <2>3 DEF UserUploads
    <3> QED BY <2>1, <2>3, <3>1, UserKeepsUndo
  <2>4. CASE UNCHANGED vars
    BY <2>1, <2>4, UserKeepsUndo DEF vars
  <2>5. ASSUME NEW i \in Invocations, Deliver(i) \/ Perform(i) \/ Crash(i)
        PROVE  UndoInv'
    <3>1. StepOf(i)
      BY <2>5, DeliverStep, ReadStep, MakeStep, FailStep, RollbackStep,
         FeedbackStep, TailSteps, CrashStep DEF Perform
    <3> QED BY <2>1, <2>5, <3>1, StepKeepsUndo
  <2> QED BY <2>2, <2>3, <2>4, <2>5 DEF Next
<1> QED BY <1>1, <1>2, InvHolds, AnswersHold, PTL DEF Spec

\* Where one call at most was refused and nothing else failed, no half of a
\* pair is left behind, unless a user has put something into it.
THEOREM HalvesAreUndone == Spec => []OneFailureIsUndone
<1>1. IInv /\ UndoInv => OneFailureIsUndone
  <2> SUFFICES ASSUME IInv, UndoInv,
                      faults["refused"] <= 1, faults["lost"] + faults["crash"] = 0,
                      NEW n \in Names
               PROVE  \/ \E i \in Invocations : WorksOn(i, n)
                      \/ content[<<n, "primary">>] # "empty"
                      \/ Whole(n) \/ Absent(n)
    BY DEF OneFailureIsUndone
  <2> SUFFICES ASSUME \A i \in Invocations : ~WorksOn(i, n),
                      content[<<n, "primary">>] = "empty", ~Absent(n)
               PROVE  Whole(n)
    OBVIOUS
  <2>1. PICK side \in Sides : <<n, side>> \in exists
    BY DEF Absent
  <2>2. Kept(<<n, side>>)
    BY <2>1 DEF UndoInv
  <2>3. \A i \in Invocations : ~Owns(i, <<n, side>>)
    BY DEF Owns, Busy, WorksOn
  <2> QED BY <2>2, <2>3 DEF Kept, SettledPair
<1> QED BY <1>1, InvHolds, UndoHolds, PTL

=============================================================================
