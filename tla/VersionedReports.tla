-------------------------- MODULE VersionedReports --------------------------
(***************************************************************************)
(* What the readers of the managed bucket are promised about one kind of   *)
(* report (docs/src/user/reports.md): a report stands for a verification   *)
(* that really finished, or an inventory S3 really made, it is archived    *)
(* under the date it was made on, and the LATEST key only ever holds a     *)
(* copy of an archived report.  Nothing here says how many writers there   *)
(* are or how they interleave.                                             *)
(***************************************************************************)
EXTENDS Naturals

CONSTANTS Pairs,    \* the source buckets, each standing for its bucket pair
          Runs,     \* the verifications or inventories that may be reported on
          PairOf,   \* the bucket pair each of them is about
          LastDay,  \* the last day of the model's calendar
          NoRun     \* the content of a key that holds no object

VARIABLES today,     \* the current date
          evidence,  \* the runs whose jobs are complete, or that S3 has made
          archive,   \* the date-stamped keys of each pair
          latest     \* the 0000-00-00-LATEST key of each pair

vars == <<today, evidence, archive, latest>>

Days == 1..LastDay

Init ==
    /\ today = 1
    /\ evidence = {}
    /\ archive = [p \in Pairs |-> [d \in Days |-> NoRun]]
    /\ latest = [p \in Pairs |-> NoRun]

Tick ==
    /\ today' \in Days
    /\ today' = today + 1
    /\ UNCHANGED <<evidence, archive, latest>>

\* Both checksum jobs of a run have completed, or its manifest is there: it may
\* be reported from now on.
Complete(r) ==
    /\ evidence' = evidence \cup {r}
    /\ UNCHANGED <<today, archive, latest>>

\* A report appears under a date that is not in the future.
Publish(r, d) ==
    /\ r \in evidence
    /\ d <= today
    /\ archive' = [archive EXCEPT ![PairOf[r]][d] = r]
    /\ UNCHANGED <<today, evidence, latest>>

\* An archived report becomes the pair's latest one.
Promote(p, d) ==
    /\ archive[p][d] # NoRun
    /\ latest' = [latest EXCEPT ![p] = archive[p][d]]
    /\ UNCHANGED <<today, evidence, archive>>

Next ==
    \/ Tick
    \/ \E r \in Runs : Complete(r)
    \/ \E r \in Runs, d \in Days : Publish(r, d)
    \/ \E p \in Pairs, d \in Days : Promote(p, d)

Spec == Init /\ [][Next]_vars
=============================================================================
