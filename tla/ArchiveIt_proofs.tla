-------------------------- MODULE ArchiveIt_proofs --------------------------
(***************************************************************************)
(* Proofs about ArchiveIt, for any files, collections, page size and syncs, *)
(* and however often remote changes and failures happen.                   *)
(***************************************************************************)
EXTENDS ArchiveIt, FiniteSetTheorems, SequenceTheorems, TLAPS

\* A collection is being paged through in a listing of its own.
PagingInv == inv.pc = "paging" => inv.coll \in Collections

TypeInv == TypeOK /\ PagingInv

\* No row is repeated, because the files of all rows are known as seen.
RowsInv ==
    /\ NoRowIsRepeated
    /\ \A f \in Files : inv.rows[f] > 0 => f \in inv.seen

\* A run only adds to the inventory it resumed from, and has recorded under a
\* date what it is about to make live.
RecordInv ==
    /\ RecordedBeforeLive
    /\ inv.pc # "idle" => \A f \in Listed(inventory) : inv.rows[f] > 0
    /\ inv.pc = "publish" => dated = inv.rows

\* An audit leaves out no row it has looked at without a reason, at any time.
AuditInv ==
    audit.pc = "heading" =>
        /\ audit.list \intersect (Expired \union Undated) = {}
        /\ audit.todo \intersect Undated = {}
        /\ \A f \in audit.rows :
               \/ f \in audit.todo \union audit.list \union audit.errored
               \/ f \in Expired \union Undated
               \/ store[f] = "matches"

-----------------------------------------------------------------------------
(* Type correctness                                                        *)

\* A set of files has a size.
LEMMA FilesAreCounted ==
    ASSUME NEW S \in SUBSET Files
    PROVE  Cardinality(S) \in Nat
BY ArchiveAssumption, FS_Subset, FS_CardinalityType

\* A listing without its i-th file is a listing.
LEMMA WithoutOne ==
    ASSUME NEW s \in Seq(Files), NEW i \in DOMAIN s
    PROVE  SubSeq(s, 1, i - 1) \o SubSeq(s, i + 1, Len(s)) \in Seq(Files)
<1>1. Len(s) \in Nat /\ DOMAIN s = 1 .. Len(s)
  BY LenProperties
<1>2. \A k \in 1 .. Len(s) : s[k] \in Files
  BY ElementOfSeq
<1>3. i \in 1 .. Len(s) /\ i - 1 \in Int /\ i + 1 \in Int
  BY <1>1
<1>4. SubSeq(s, 1, i - 1) \in Seq(Files)
  <2>1. \A k \in 1 .. i - 1 : s[k] \in Files
    BY <1>1, <1>2, <1>3
  <2> QED
    BY <1>3, <2>1, SubSeqProperties
<1>5. SubSeq(s, i + 1, Len(s)) \in Seq(Files)
  <2>1. \A k \in i + 1 .. Len(s) : s[k] \in Files
    BY <1>1, <1>2, <1>3
  <2> QED
    BY <1>1, <1>3, <2>1, SubSeqProperties
<1> QED
  BY <1>4, <1>5, ConcatProperties

\* The initial state has the right types.
LEMMA InitType == Init => TypeInv
<1> SUFFICES ASSUME Init
             PROVE  TypeInv
  OBVIOUS
<1>1. inventory = None \/ inventory \in [Files -> Nat]
  BY DEF Init
<1> QED
  BY <1>1, ArchiveAssumption
     DEF Init, TypeInv, TypeOK, PagingInv, NoInventory, NoAudit, NoSync,
         InventoryTasks, AuditTasks, SyncTasks

\* A task as it is before it starts.
LEMMA IdleTasks ==
    NoInventory \in InventoryTasks /\ NoAudit \in AuditTasks /\ NoSync \in SyncTasks
BY DEF NoInventory, NoAudit, NoSync, InventoryTasks, AuditTasks, SyncTasks

\* Reading a page keeps the types.
LEMMA TakePageType ==
    ASSUME TypeInv, NEW c \in Collections, NEW offset \in Nat,
           NEW expected \in Nat, NEW before \in Nat,
           TakePage(c, offset, expected, before)
    PROVE  TypeInv'
<1> DEFINE page == {remote[c][i] : i \in DOMAIN remote[c] \intersect
                                            (offset + 1) .. (offset + PageSize)}
           new == page \ inv.seen
           written == before + Cardinality(new)
           last == offset + PageSize >= Len(remote[c])
           stop == last \/ (expected > 0 /\ written >= expected)
<1>1. new \subseteq Files
  <2>1. remote[c] \in Seq(Files)
    BY DEF TypeInv, TypeOK
  <2> QED
    BY <2>1, LenProperties, ElementOfSeq
<1>2. Cardinality(new) \in Nat
  BY <1>1, FilesAreCounted
<1> HIDE DEF new, last
<1>3. inv' = [inv EXCEPT
                  !.pc = IF stop THEN "listing" ELSE "paging",
                  !.rows = [f \in Files |-> IF f \in new THEN @[f] + 1 ELSE @[f]],
                  !.seen = @ \union new,
                  !.warcs = @ + Cardinality(new),
                  !.todo = IF stop THEN @ \ {c} ELSE @,
                  !.coll = IF stop THEN None ELSE c,
                  !.offset = IF stop THEN 0 ELSE offset + PageSize,
                  !.expected = IF stop THEN 0 ELSE expected,
                  !.written = IF stop THEN 0 ELSE written]
  BY DEF TakePage, new, last
<1>4. UNCHANGED <<remote, store, tagged, syncList, audit, sync, inventory, dated, events>>
  BY DEF TakePage, InventoryOnly
<1> HIDE DEF stop
<1>5. inv' \in InventoryTasks
  <2>1. [f \in Files |-> IF f \in new THEN inv.rows[f] + 1 ELSE inv.rows[f]]
            \in [Files -> Nat]
    BY DEF TypeInv, TypeOK, InventoryTasks
  <2>2. written \in Nat /\ offset + PageSize \in Nat /\ inv.warcs + Cardinality(new) \in Nat
    <3>1. inv.warcs \in Nat /\ PageSize \in Nat
      BY ArchiveAssumption DEF TypeInv, TypeOK, InventoryTasks
    <3> QED
      BY <1>2, <3>1
  <2>3. inv.seen \union new \subseteq Files /\ inv.todo \ {c} \subseteq Collections
    BY <1>1 DEF TypeInv, TypeOK, InventoryTasks
  <2> HIDE DEF written
  <2> QED
    BY <1>3, <2>1, <2>2, <2>3 DEF TypeInv, TypeOK, InventoryTasks
<1>6. inv'.pc = "paging" => inv'.coll \in Collections
  BY <1>3 DEF TypeInv, TypeOK, InventoryTasks
<1> QED
  BY <1>4, <1>5, <1>6 DEF TypeInv, TypeOK, PagingInv

\* Every step keeps the types, one case per action.
LEMMA TypeKept == TypeInv /\ [Next]_vars => TypeInv'
<1> SUFFICES ASSUME TypeInv, [Next]_vars
             PROVE  TypeInv'
  OBVIOUS
<1> USE DEF TypeInv, TypeOK, PagingInv
<1>8. Spend => events' \in 0 .. MaxEvents
  BY ArchiveAssumption DEF Spend
<1> DEFINE calmed == [inv EXCEPT !.calm = (inv.pc = "idle")]
<1>0. calmed \in InventoryTasks /\ calmed.pc = inv.pc /\ calmed.coll = inv.coll
  <2>1. CASE inv.pc = "idle"
    <3>1. calmed = [inv EXCEPT !.calm = TRUE]
      BY <2>1
    <3> QED
      BY <3>1 DEF InventoryTasks
  <2>2. CASE inv.pc # "idle"
    <3>1. calmed = [inv EXCEPT !.calm = FALSE]
      BY <2>2
    <3> QED
      BY <3>1 DEF InventoryTasks
  <2> QED
    BY <2>1, <2>2
<1>1. CASE \E f \in Files : Appear(f)
  <2>1. PICK f \in Files : Appear(f)
    BY <1>1
  <2>2. CollectionOf[f] \in Collections
    BY ArchiveAssumption
  <2>3. /\ Append(remote[CollectionOf[f]], f) \in Seq(Files)
        /\ <<f>> \o remote[CollectionOf[f]] \in Seq(Files)
    BY <2>2, AppendProperties, ConcatProperties
  <2>4. remote' \in [Collections -> Seq(Files)]
    BY <2>1, <2>3 DEF Appear
  <2>5. inv' = calmed
    BY <2>1 DEF Appear, calmed
  <2> QED
    BY <1>0, <2>1, <2>4, <2>5, <1>8 DEF Appear
<1>2. CASE \E c \in Collections : \E i \in DOMAIN remote[c] : Disappear(c, i)
  <2>1. PICK c \in Collections : \E i \in DOMAIN remote[c] : Disappear(c, i)
    BY <1>2
  <2>2. PICK i \in DOMAIN remote[c] : Disappear(c, i)
    BY <2>1
  <2>3. SubSeq(remote[c], 1, i - 1) \o SubSeq(remote[c], i + 1, Len(remote[c]))
            \in Seq(Files)
    BY WithoutOne
  <2>4. remote' \in [Collections -> Seq(Files)]
    BY <2>2, <2>3 DEF Disappear
  <2>5. inv' = calmed
    BY <2>2 DEF Disappear, calmed
  <2> QED
    BY <1>0, <2>2, <2>4, <2>5, <1>8 DEF Disappear
<1>3. CASE InventoryStep
  <2>1. CASE StartInventory
    <3>1. inv' \in InventoryTasks
      BY <2>1, IdleTasks
         DEF StartInventory, NoInventory, InventoryTasks, CacheState, Listed
    <3> QED
      BY <2>1, <3>1 DEF StartInventory, InventoryOnly, NoInventory
  <2>2. CASE \E c \in Collections : SkipCollection(c)
    <3>1. PICK c \in Collections : SkipCollection(c)
      BY <2>2
    <3>2. inv' \in InventoryTasks /\ inv'.pc = "listing"
      BY <3>1 DEF SkipCollection, InventoryTasks
    <3> QED
      BY <3>1, <3>2 DEF SkipCollection, InventoryOnly
  <2>3. CASE \E c \in Collections : FirstPage(c)
    <3>1. PICK c \in Collections : FirstPage(c)
      BY <2>3
    <3>2. Total(c) \in Nat
      BY LenProperties DEF Total
    <3>3. Cached(c) \in Nat
      BY FilesAreCounted DEF Cached, InventoryTasks
    <3>4. ExpectedNew(c) \in Nat
      BY <3>2, <3>3 DEF ExpectedNew
    <3> QED
      BY <3>1, <3>4, TakePageType DEF FirstPage
  <2>4. CASE NextPage
    BY <2>4, TakePageType DEF NextPage, InventoryTasks
  <2>5. CASE NothingNew
    BY <2>5, IdleTasks DEF NothingNew, InventoryOnly, NoInventory
  <2>6. CASE SnapshotInventory
    BY <2>6 DEF SnapshotInventory, InventoryOnly, InventoryTasks
  <2>7. CASE PublishInventory
    BY <2>7, IdleTasks DEF PublishInventory, InventoryOnly, NoInventory, InventoryTasks
  <2> QED
    BY <1>3, <2>1, <2>2, <2>3, <2>4, <2>5, <2>6, <2>7 DEF InventoryStep
<1>4. CASE AuditStep
  <2>1. CASE StartAudit
    BY <2>1 DEF StartAudit, AuditOnly, NoAudit, Listed, Dated, AuditTasks
  <2>2. CASE \E f \in Files : AuditRow(f)
    <3>1. PICK f \in Files : AuditRow(f)
      BY <2>2
    <3>2. audit' \in AuditTasks
      BY <3>1 DEF AuditRow, AuditTasks
    <3> QED
      BY <3>1, <3>2 DEF AuditRow, Retagged, AuditOnly
  <2>3. CASE PublishAudit
    BY <2>3, IdleTasks DEF PublishAudit, AuditOnly, AuditTasks
  <2> QED
    BY <1>4, <2>1, <2>2, <2>3 DEF AuditStep
<1>5. CASE \E s \in Syncs : SyncStep(s)
  <2>1. PICK s \in Syncs : SyncStep(s)
    BY <1>5
  <2>2. CASE FindList(s)
    <3>1. [sync[s] EXCEPT !.pc = "found"] \in SyncTasks
      BY DEF SyncTasks
    <3> QED
      BY <2>2, <3>1, <1>8 DEF FindList, SyncOnly
  <2>3. CASE DownloadList(s)
    BY <2>3, IdleTasks DEF DownloadList, SyncOnly, SyncTasks
  <2>4. CASE ClaimList(s)
    <3>1. [sync[s] EXCEPT !.pc = "syncing"] \in SyncTasks
      BY DEF SyncTasks
    <3> QED
      BY <2>4, <3>1 DEF ClaimList, SyncOnly
  <2>5. CASE \E f \in Files : SyncRow(s, f)
    <3>1. PICK f \in Files : SyncRow(s, f)
      BY <2>5
    <3>2. [sync[s] EXCEPT !.todo = @ \ {f}] \in SyncTasks
      BY DEF SyncTasks
    <3> QED
      BY <3>1, <3>2 DEF SyncRow, SyncOnly
  <2>6. CASE FinishSync(s)
    BY <2>6, IdleTasks DEF FinishSync, SyncOnly
  <2> QED
    BY <2>1, <2>2, <2>3, <2>4, <2>5, <2>6 DEF SyncStep
<1>6. CASE Faulty
  <2>1. CASE InventoryFails
    BY <2>1, IdleTasks, <1>8 DEF InventoryFails, InventoryOnly, NoInventory
  <2>2. CASE \E f \in Files : AuditRowErrs(f)
    <3>1. PICK f \in Files : AuditRowErrs(f)
      BY <2>2
    <3>2. audit' = [audit EXCEPT !.todo = @ \ {f}, !.errored = @ \union {f}]
      BY <3>1 DEF AuditRowErrs
    <3>3. audit \in AuditTasks
      BY DEF TypeInv, TypeOK
    <3>4. audit' \in AuditTasks
      BY <3>2, <3>3 DEF AuditTasks
    <3> QED
      BY <3>1, <3>4, <1>8 DEF AuditRowErrs, AuditOnly
  <2>3. CASE AuditFails
    BY <2>3, IdleTasks, <1>8 DEF AuditFails, AuditOnly
  <2>4. CASE \E s \in Syncs, f \in Files : SyncRowFails(s, f)
    <3>1. PICK s \in Syncs, f \in Files : SyncRowFails(s, f)
      BY <2>4
    <3>2. [sync[s] EXCEPT !.todo = @ \ {f}] \in SyncTasks
      BY DEF SyncTasks
    <3> QED
      BY <3>1, <3>2, <1>8 DEF SyncRowFails, SyncOnly
  <2>5. CASE \E s \in Syncs : SyncFails(s)
    BY <2>5, IdleTasks, <1>8 DEF SyncFails, SyncOnly
  <2> QED
    BY <1>6, <2>1, <2>2, <2>3, <2>4, <2>5 DEF Faulty
<1>7. CASE UNCHANGED vars
  BY <1>7 DEF vars
<1> QED
  BY <1>1, <1>2, <1>3, <1>4, <1>5, <1>6, <1>7 DEF Next

\* Every variable has its type, and paging is of a collection.
THEOREM TypeCorrect == Spec => []TypeInv
<1> QED
  BY InitType, TypeKept, PTL DEF Spec

\* Every variable has its type.
THEOREM Types == Spec => []TypeOK
<1>1. TypeInv => TypeOK
  BY DEF TypeInv
<1> QED
  BY <1>1, TypeCorrect, PTL

-----------------------------------------------------------------------------
(* Inventories                                                             *)

\* What a page adds to a run: rows of files that were not seen before.
LEMMA PageAdds ==
    ASSUME TypeInv, NEW c, NEW offset, NEW expected, NEW before,
           TakePage(c, offset, expected, before)
    PROVE  \E new :
               /\ new \intersect inv.seen = {}
               /\ inv'.rows = [f \in Files |-> IF f \in new THEN inv.rows[f] + 1
                                              ELSE inv.rows[f]]
               /\ inv'.seen = inv.seen \union new
               /\ inv'.pc \in {"listing", "paging"}
               /\ UNCHANGED <<inventory, dated>>
<1> DEFINE page == {remote[c][i] : i \in DOMAIN remote[c] \intersect
                                            (offset + 1) .. (offset + PageSize)}
           new == page \ inv.seen
<1>1. /\ inv'.rows = [f \in Files |-> IF f \in new THEN inv.rows[f] + 1
                                       ELSE inv.rows[f]]
      /\ inv'.seen = inv.seen \union new
      /\ inv'.pc \in {"listing", "paging"}
      /\ UNCHANGED <<inventory, dated>>
  BY DEF TakePage, TypeInv, TypeOK, InventoryTasks
<1> QED
  BY <1>1

\* What a step leaves alone that is none of the inventory task's.
InventoryRests ==
    /\ UNCHANGED <<inventory, dated>>
    /\ inv'.pc = inv.pc /\ inv'.rows = inv.rows /\ inv'.seen = inv.seen

\* A step is one of the inventory task, or leaves it alone.
LEMMA StepKinds ==
    ASSUME TypeInv, [Next]_vars
    PROVE  InventoryStep \/ InventoryFails \/ InventoryRests
<1>1. CASE \E f \in Files : Appear(f)
  BY <1>1 DEF Appear, InventoryRests, TypeInv, TypeOK, InventoryTasks
<1>2. CASE \E c \in Collections : \E i \in DOMAIN remote[c] : Disappear(c, i)
  BY <1>2 DEF Disappear, InventoryRests, TypeInv, TypeOK, InventoryTasks
<1>3. CASE AuditStep
  BY <1>3 DEF AuditStep, StartAudit, AuditRow, PublishAudit, AuditOnly, InventoryRests
<1>4. CASE \E s \in Syncs : SyncStep(s)
  BY <1>4 DEF SyncStep, FindList, DownloadList, ClaimList, SyncRow, FinishSync,
              SyncOnly, InventoryRests
<1>5. CASE Faulty
  BY <1>5 DEF Faulty, AuditRowErrs, AuditFails, SyncRowFails, SyncFails,
              AuditOnly, SyncOnly, InventoryRests
<1>6. CASE UNCHANGED vars
  BY <1>6 DEF vars, InventoryRests
<1> QED
  BY <1>1, <1>2, <1>3, <1>4, <1>5, <1>6 DEF Next

\* Every step keeps the rows apart.
LEMMA RowsKept == TypeInv /\ RowsInv /\ [Next]_vars => RowsInv'
<1> SUFFICES ASSUME TypeInv, RowsInv, [Next]_vars
             PROVE  RowsInv'
  OBVIOUS
<1>0. /\ inv.rows \in [Files -> Nat] /\ \A f \in Files : inv.rows[f] <= 1
      /\ inventory # None => inventory \in [Files -> Nat]
                             /\ \A f \in Files : inventory[f] <= 1
      /\ dated # None => \A f \in Files : dated[f] <= 1
      /\ None \notin [Files -> Nat]
  BY ArchiveAssumption DEF TypeInv, TypeOK, InventoryTasks, RowsInv, NoRowIsRepeated
<1>1. CASE InventoryRests
  BY <1>1 DEF InventoryRests, RowsInv, NoRowIsRepeated
<1>2. CASE StartInventory
  BY <1>0, <1>2 DEF StartInventory, RowsInv, NoRowIsRepeated, NoInventory,
                    CacheState, Listed
<1>3. CASE (\E c \in Collections : FirstPage(c)) \/ NextPage
  <2>1. PICK new :
            /\ new \intersect inv.seen = {}
            /\ inv'.rows = [f \in Files |-> IF f \in new THEN inv.rows[f] + 1
                                           ELSE inv.rows[f]]
            /\ inv'.seen = inv.seen \union new
            /\ UNCHANGED <<inventory, dated>>
    BY <1>3, PageAdds DEF FirstPage, NextPage
  <2>2. \A f \in Files : inv'.rows[f] <= 1 /\ (inv'.rows[f] > 0 => f \in inv'.seen)
    BY <1>0, <2>1 DEF RowsInv
  <2> QED
    BY <1>0, <2>1, <2>2 DEF RowsInv, NoRowIsRepeated
<1>4. CASE \E c \in Collections : SkipCollection(c)
  BY <1>4 DEF SkipCollection, RowsInv, NoRowIsRepeated, TypeInv, TypeOK, InventoryTasks
<1>5. CASE SnapshotInventory \/ PublishInventory
  BY <1>0, <1>5 DEF SnapshotInventory, PublishInventory, RowsInv, NoRowIsRepeated,
                    NoInventory, TypeInv, TypeOK, InventoryTasks
<1>6. CASE NothingNew \/ InventoryFails
  BY <1>0, <1>6 DEF NothingNew, InventoryFails, RowsInv, NoRowIsRepeated, NoInventory
<1> QED
  BY <1>1, <1>2, <1>3, <1>4, <1>5, <1>6, StepKinds DEF InventoryStep

\* Every step keeps the permanent record ahead of the live inventory.
LEMMA RecordKept == TypeInv /\ RecordInv /\ [Next]_vars => RecordInv'
<1> SUFFICES ASSUME TypeInv, RecordInv, [Next]_vars
             PROVE  RecordInv'
  OBVIOUS
<1>0. inv.rows \in [Files -> Nat] /\ inv.rows # None
  BY ArchiveAssumption DEF TypeInv, TypeOK, InventoryTasks
<1>1. CASE InventoryRests
  BY <1>1 DEF InventoryRests, RecordInv, RecordedBeforeLive, Listed
<1>2. CASE StartInventory
  BY <1>2 DEF StartInventory, RecordInv, RecordedBeforeLive, Listed, NoInventory
<1>3. CASE (\E c \in Collections : FirstPage(c)) \/ NextPage
  <2>1. PICK new :
            /\ inv'.rows = [f \in Files |-> IF f \in new THEN inv.rows[f] + 1
                                           ELSE inv.rows[f]]
            /\ inv'.pc \in {"listing", "paging"}
            /\ UNCHANGED <<inventory, dated>>
    BY <1>3, PageAdds DEF FirstPage, NextPage
  <2>2. inv.pc # "idle"
    BY <1>3 DEF FirstPage, NextPage
  <2>3. \A f \in Listed(inventory) : f \in Files /\ inv'.rows[f] > 0
    BY <1>0, <2>1, <2>2 DEF RecordInv, Listed
  <2> QED
    BY <2>1, <2>3 DEF RecordInv, RecordedBeforeLive, Listed
<1>4. CASE \E c \in Collections : SkipCollection(c)
  BY <1>4 DEF SkipCollection, RecordInv, RecordedBeforeLive, Listed, TypeInv, TypeOK,
              InventoryTasks
<1>5. CASE SnapshotInventory
  <2>1. \A f \in Listed(inventory) : f \in Files /\ inv.rows[f] > 0
    BY <1>5 DEF SnapshotInventory, InventoryBuilt, RecordInv, Listed
  <2> QED
    BY <1>0, <1>5, <2>1 DEF SnapshotInventory, RecordInv, RecordedBeforeLive, Listed,
                            TypeInv, TypeOK, InventoryTasks
<1>6. CASE PublishInventory
  BY <1>6 DEF PublishInventory, RecordInv, RecordedBeforeLive, Listed, NoInventory
<1>7. CASE NothingNew \/ InventoryFails
  BY <1>7 DEF NothingNew, InventoryFails, RecordInv, RecordedBeforeLive, Listed,
              NoInventory
<1> QED
  BY <1>1, <1>2, <1>3, <1>4, <1>5, <1>6, <1>7, StepKinds DEF InventoryStep

-----------------------------------------------------------------------------
(* Audits                                                                  *)

\* What a step leaves alone that is none of the audit's: no object that is
\* right is ever replaced by one that is not.
AuditRests ==
    /\ audit' = audit
    /\ \A f \in Files : store[f] = "matches" => store'[f] = "matches"

\* A step is one of the audit, or leaves it alone.
LEMMA AuditStepKinds ==
    ASSUME TypeInv, [Next]_vars
    PROVE  \/ AuditStep \/ AuditFails \/ \E f \in Files : AuditRowErrs(f)
           \/ AuditRests
<1>1. CASE \E f \in Files : Appear(f)
  BY <1>1 DEF Appear, AuditRests
<1>2. CASE \E c \in Collections : \E i \in DOMAIN remote[c] : Disappear(c, i)
  BY <1>2 DEF Disappear, AuditRests
<1>3. CASE InventoryStep
  BY <1>3 DEF InventoryStep, StartInventory, SkipCollection, FirstPage, NextPage,
              TakePage, NothingNew, SnapshotInventory, PublishInventory,
              InventoryOnly, AuditRests
<1>4. CASE \E s \in Syncs : SyncStep(s)
  BY <1>4 DEF SyncStep, FindList, DownloadList, ClaimList, SyncRow, FinishSync,
              SyncOnly, AuditRests, TypeInv, TypeOK
<1>5. CASE Faulty
  BY <1>5 DEF Faulty, InventoryFails, SyncRowFails, SyncFails, InventoryOnly,
              SyncOnly, AuditRests
<1>6. CASE UNCHANGED vars
  BY <1>6 DEF vars, AuditRests
<1> QED
  BY <1>1, <1>2, <1>3, <1>4, <1>5, <1>6 DEF Next

\* Every step keeps the audit's account of the rows it has looked at.
LEMMA AuditKept == TypeInv /\ AuditInv /\ [Next]_vars => AuditInv'
<1> SUFFICES ASSUME TypeInv, AuditInv, [Next]_vars
             PROVE  AuditInv'
  OBVIOUS
<1>0. audit \in AuditTasks
  BY DEF TypeInv, TypeOK
<1>1. CASE AuditRests
  BY <1>0, <1>1 DEF AuditRests, AuditInv, AuditTasks
<1>2. CASE StartAudit
  BY <1>2 DEF StartAudit, Dated, AuditInv, NoAudit
<1>3. CASE \E f \in Files : AuditRow(f)
  <2>1. PICK f \in Files : AuditRow(f)
    BY <1>3
  <2>2. /\ audit'.rows = audit.rows /\ audit'.errored = audit.errored
        /\ audit'.todo = audit.todo \ {f}
        /\ audit'.list = IF NeedsSync(f) THEN audit.list \union {f} ELSE audit.list
        /\ audit.pc = "heading" /\ store' = store /\ f \in audit.todo
    BY <1>0, <2>1 DEF AuditRow, AuditOnly, AuditTasks
  <2> QED
    BY <2>2 DEF AuditInv, NeedsSync
<1>4. CASE \E f \in Files : AuditRowErrs(f)
  <2>1. PICK f \in Files : AuditRowErrs(f)
    BY <1>4
  <2>2. /\ audit'.rows = audit.rows /\ audit'.errored = audit.errored \union {f}
        /\ audit'.todo = audit.todo \ {f} /\ audit'.list = audit.list
        /\ audit.pc = "heading" /\ store' = store
    BY <1>0, <2>1 DEF AuditRowErrs, AuditOnly, AuditTasks
  <2> QED
    BY <2>2 DEF AuditInv
<1>5. CASE PublishAudit \/ AuditFails
  BY <1>5 DEF PublishAudit, AuditFails, AuditInv, NoAudit
<1> QED
  BY <1>1, <1>2, <1>3, <1>4, <1>5, AuditStepKinds DEF AuditStep

-----------------------------------------------------------------------------
(* Undisturbed inventories                                                 *)

\* Archive-It lists every file once, in its collection.
ListedOnce(s, c) ==
    \A i, j \in DOMAIN s :
        /\ CollectionOf[s[i]] = c
        /\ s[i] = s[j] => i = j

RemoteInv == \A c \in Collections : ListedOnce(remote[c], c)

\* Every file that was seen has a row, the cached ones of the start included.
SeenInv ==
    /\ \A f \in inv.seen : inv.rows[f] > 0
    /\ inv.pc # "idle" => Listed(inventory) \subseteq inv.seen

\* The cached files of a collection, and the first k that are listed by now.
Known(c) == Listed(inventory) \intersect FilesOf(c)
FirstFiles(c, k) == {remote[c][i] : i \in DOMAIN remote[c] \intersect 1 .. k}

\* The new files the counts promise.
Promised(c) ==
    IF Cardinality(Known(c)) < Total(c) THEN Total(c) - Cardinality(Known(c)) ELSE 0

\* A collection the counts hide new files of, or that has been seen whole.
Complete(c) ==
    \/ Gone(c) # {} /\ Cardinality(Missing(c)) >= Cardinality(Gone(c))
    \/ Elems(remote[c]) \subseteq inv.seen

\* The collection whose listing is being paged through.
Paged(c) == inv.pc = "paging" /\ inv.coll = c

\* While nothing changes remotely: of a collection still to be read, only the
\* cached files are seen; of the one being read, also the pages so far, whose
\* new files are counted; all others are complete.
PagesInv ==
    inv.calm /\ inv.pc \in {"listing", "paging"} =>
        \A c \in Collections :
            /\ c \notin inv.todo => Complete(c)
            /\ c \in inv.todo /\ ~Paged(c) => inv.seen \intersect FilesOf(c) = Known(c)
            /\ Paged(c) =>
                  /\ c \in inv.todo
                  /\ inv.seen \intersect FilesOf(c)
                         = Known(c) \union FirstFiles(c, inv.offset)
                  /\ inv.written = Cardinality(FirstFiles(c, inv.offset) \ Known(c))
                  /\ inv.expected = Promised(c)

\* A file more, at either end, or one less: still each once.
LEMMA RemoteKept == TypeInv /\ RemoteInv /\ [Next]_vars => RemoteInv'
<1> SUFFICES ASSUME TypeInv, RemoteInv, [Next]_vars
             PROVE  RemoteInv'
  OBVIOUS
<1>0. remote \in [Collections -> Seq(Files)]
  BY DEF TypeInv, TypeOK
\* One listing changes.
<1>1. ASSUME NEW c \in Collections, NEW t, ListedOnce(t, c),
             remote' = [remote EXCEPT ![c] = t]
      PROVE  RemoteInv'
  <2>1. \A d \in Collections : remote'[d] = IF d = c THEN t ELSE remote[d]
    BY <1>0, <1>1
  <2>2. ASSUME NEW d \in Collections PROVE ListedOnce(remote'[d], d)
    BY <1>1, <2>1 DEF RemoteInv
  <2> QED
    BY <2>2 DEF RemoteInv, ListedOnce
<1>2. ASSUME NEW f \in Files, Appear(f) PROVE RemoteInv'
  <2>1. PICK c \in Collections : c = CollectionOf[f]
    BY ArchiveAssumption
  <2>2. PICK s \in Seq(Files) : s = remote[c]
    BY <1>0
  <2>3. /\ ListedOnce(s, c)
        /\ \A i \in DOMAIN s : s[i] # f
    BY <1>2, <2>2 DEF RemoteInv, Appear, Remote, Elems
  <2>4. /\ Len(s) \in Nat /\ DOMAIN s = 1 .. Len(s)
    BY LenProperties
  <2>5. ListedOnce(Append(s, f), c)
    <3>1. /\ DOMAIN Append(s, f) = 1 .. Len(s) + 1
          /\ \A i \in 1 .. Len(s) : Append(s, f)[i] = s[i]
          /\ Append(s, f)[Len(s) + 1] = f
      BY AppendProperties, LenProperties
    <3> QED
      BY <2>1, <2>3, <2>4, <3>1 DEF ListedOnce
  <2>6. ListedOnce(<<f>> \o s, c)
    <3> DEFINE t == <<f>> \o s
    <3>1. <<f>> \in Seq(Files) /\ Len(<<f>>) = 1 /\ <<f>>[1] = f
      OBVIOUS
    <3>2. /\ t \in Seq(Files) /\ Len(t) = 1 + Len(s)
          /\ \A i \in 1 .. 1 + Len(s) : t[i] = IF i <= 1 THEN <<f>>[i] ELSE s[i - 1]
      BY <3>1, ConcatProperties
    <3>3. DOMAIN t = 1 .. 1 + Len(s)
      BY <3>2, LenProperties
    <3> HIDE DEF t
    <3>4. /\ t[1] = f
          /\ \A i \in DOMAIN t : i # 1 => i - 1 \in DOMAIN s /\ t[i] = s[i - 1]
      BY <2>4, <3>1, <3>2, <3>3
    <3>5. ASSUME NEW i \in DOMAIN t PROVE CollectionOf[t[i]] = c
      BY <2>1, <2>3, <3>4 DEF ListedOnce
    <3>6. ASSUME NEW i \in DOMAIN t, NEW j \in DOMAIN t, t[i] = t[j] PROVE i = j
      <4>1. CASE i = 1 \/ j = 1
        BY <2>3, <3>4, <3>6, <4>1
      <4>2. CASE i # 1 /\ j # 1
        <5>1. i - 1 = j - 1
          BY <2>3, <3>4, <3>6, <4>2 DEF ListedOnce
        <5> QED
          BY <2>4, <3>3, <5>1
      <4> QED
        BY <4>1, <4>2
    <3>7. ListedOnce(t, c)
      BY <3>5, <3>6 DEF ListedOnce
    <3> QED
      BY <3>7 DEF t
  <2>7. \/ remote' = [remote EXCEPT ![c] = Append(s, f)]
        \/ remote' = [remote EXCEPT ![c] = <<f>> \o s]
    BY <1>2, <2>1, <2>2 DEF Appear
  <2> QED
    BY <1>1, <2>5, <2>6, <2>7
<1>3. ASSUME NEW c \in Collections, NEW i \in DOMAIN remote[c], Disappear(c, i)
      PROVE  RemoteInv'
  <2>1. PICK s \in Seq(Files) : s = remote[c]
    BY <1>0
  <2> DEFINE a == SubSeq(s, 1, i - 1)
             b == SubSeq(s, i + 1, Len(s))
             t == a \o b
  <2>2. /\ ListedOnce(s, c) /\ i \in 1 .. Len(s)
        /\ Len(s) \in Nat /\ DOMAIN s = 1 .. Len(s)
        /\ \A k \in 1 .. Len(s) : s[k] \in Files
    BY <2>1, LenProperties, ElementOfSeq DEF RemoteInv
  <2>3. /\ a \in Seq(Files) /\ Len(a) = i - 1
        /\ \A k \in 1 .. i - 1 : a[k] = s[k]
    <3>1. 1 \in Int /\ i - 1 \in Int /\ \A k \in 1 .. i - 1 : s[k] \in Files
      BY <2>2
    <3>2. /\ a \in Seq(Files) /\ Len(a) = IF 1 <= i - 1 THEN i - 1 - 1 + 1 ELSE 0
          /\ \A k \in 1 .. i - 1 - 1 + 1 : a[k] = s[1 + k - 1]
      BY <3>1, SubSeqProperties
    <3> QED
      BY <2>2, <3>2
  <2>4. /\ b \in Seq(Files) /\ Len(b) = Len(s) - i
        /\ \A k \in 1 .. Len(s) - i : b[k] = s[i + k]
    <3>1. i + 1 \in Int /\ Len(s) \in Int /\ \A k \in i + 1 .. Len(s) : s[k] \in Files
      BY <2>2
    <3>2. /\ b \in Seq(Files)
          /\ Len(b) = IF i + 1 <= Len(s) THEN Len(s) - (i + 1) + 1 ELSE 0
          /\ \A k \in 1 .. Len(s) - (i + 1) + 1 : b[k] = s[i + 1 + k - 1]
      BY <3>1, SubSeqProperties
    <3> QED
      BY <2>2, <3>2
  <2> HIDE DEF a, b
  <2>5. /\ t \in Seq(Files) /\ Len(t) = Len(a) + Len(b)
        /\ \A k \in 1 .. Len(a) + Len(b) :
              t[k] = IF k <= Len(a) THEN a[k] ELSE b[k - Len(a)]
    BY <2>3, <2>4, ConcatProperties
  <2>6. DOMAIN t = 1 .. Len(t)
    BY <2>5, LenProperties
  <2> HIDE DEF t
  <2>7. /\ DOMAIN t = 1 .. Len(s) - 1
        /\ \A k \in DOMAIN t : t[k] = IF k < i THEN s[k] ELSE s[k + 1]
    <3>1. DOMAIN t = 1 .. Len(s) - 1
      BY <2>2, <2>3, <2>4, <2>5, <2>6
    <3>2. ASSUME NEW k \in DOMAIN t, k < i PROVE t[k] = s[k]
      BY <2>2, <2>3, <2>4, <2>5, <3>1, <3>2
    <3>3. ASSUME NEW k \in DOMAIN t, ~(k < i) PROVE t[k] = s[k + 1]
      <4>1. t[k] = b[k - (i - 1)]
        BY <2>2, <2>3, <2>4, <2>5, <3>1, <3>3
      <4>2. k - (i - 1) \in 1 .. Len(s) - i /\ i + (k - (i - 1)) = k + 1
        BY <2>2, <3>1, <3>3
      <4> QED
        BY <2>4, <4>1, <4>2
    <3> QED
      BY <3>1, <3>2, <3>3
  <2>8. ListedOnce(t, c)
    <3>1. PICK g \in [DOMAIN t -> DOMAIN s] :
             \A k \in DOMAIN t : g[k] = (IF k < i THEN k ELSE k + 1)
      <4>1. \A k \in DOMAIN t : (IF k < i THEN k ELSE k + 1) \in DOMAIN s
        BY <2>2, <2>7
      <4>2. [k \in DOMAIN t |-> IF k < i THEN k ELSE k + 1] \in [DOMAIN t -> DOMAIN s]
        BY <4>1
      <4> QED
        BY <4>2
    <3>2. \A k \in DOMAIN t : g[k] \in DOMAIN s /\ t[k] = s[g[k]]
      BY <2>7, <3>1
    <3>3. \A k, l \in DOMAIN t : g[k] = g[l] => k = l
      BY <2>2, <2>7, <3>1
    <3> QED
      BY <2>2, <3>2, <3>3 DEF ListedOnce
  <2>9. remote' = [remote EXCEPT ![c] = t]
    BY <1>3, <2>1 DEF Disappear, t, a, b
  <2> QED
    BY <1>1, <2>8, <2>9
<1>4. CASE UNCHANGED remote
  BY <1>4 DEF RemoteInv, ListedOnce
<1>5. \/ \E f \in Files : Appear(f)
      \/ \E c \in Collections : \E i \in DOMAIN remote[c] : Disappear(c, i)
      \/ UNCHANGED remote
  BY DEF Next, vars, InventoryStep, StartInventory, SkipCollection, FirstPage, NextPage,
     TakePage, NothingNew, SnapshotInventory, PublishInventory, InventoryOnly,
     AuditStep, StartAudit, AuditRow, PublishAudit, AuditOnly, SyncStep, FindList,
     DownloadList, ClaimList, SyncRow, FinishSync, SyncOnly, Faulty, InventoryFails,
     AuditRowErrs, AuditFails, SyncRowFails, SyncFails
<1> QED
  BY <1>2, <1>3, <1>4, <1>5

\* So does a row for every file that was seen.
LEMMA SeenKept == TypeInv /\ SeenInv /\ [Next]_vars => SeenInv'
<1> SUFFICES ASSUME TypeInv, SeenInv, [Next]_vars
             PROVE  SeenInv'
  OBVIOUS
<1>0. inv.rows \in [Files -> Nat] /\ inv.seen \subseteq Files
  BY DEF TypeInv, TypeOK, InventoryTasks
<1>1. CASE InventoryRests
  BY <1>1 DEF InventoryRests, SeenInv, Listed
<1>2. CASE StartInventory
  BY <1>2 DEF StartInventory, SeenInv, NoInventory, CacheState, Listed
<1>3. CASE (\E c \in Collections : FirstPage(c)) \/ NextPage
  <2>1. PICK new :
            /\ inv'.rows = [f \in Files |-> IF f \in new THEN inv.rows[f] + 1
                                           ELSE inv.rows[f]]
            /\ inv'.seen = inv.seen \union new
            /\ UNCHANGED inventory
    BY <1>3, PageAdds DEF FirstPage, NextPage
  <2>2. inv.pc # "idle"
    BY <1>3 DEF FirstPage, NextPage
  <2>3. inv'.seen \subseteq Files
    BY <1>3, TypeKept DEF TypeInv, TypeOK, InventoryTasks
  <2>4. \A f \in inv'.seen : inv'.rows[f] > 0
    BY <1>0, <2>1, <2>3 DEF SeenInv
  <2> QED
    BY <2>1, <2>2, <2>4 DEF SeenInv, Listed
<1>4. CASE (\E c \in Collections : SkipCollection(c)) \/ SnapshotInventory
  <2>1. /\ inv'.rows = inv.rows /\ inv'.seen = inv.seen /\ inv.pc # "idle"
        /\ UNCHANGED inventory
    BY <1>4 DEF SkipCollection, SnapshotInventory, InventoryBuilt, TypeInv, TypeOK,
                InventoryTasks
  <2> QED
    BY <2>1 DEF SeenInv, Listed
<1>5. CASE PublishInventory \/ NothingNew \/ InventoryFails
  BY <1>5 DEF PublishInventory, NothingNew, InventoryFails, SeenInv, NoInventory
<1> QED
  BY <1>1, <1>2, <1>3, <1>4, <1>5, StepKinds DEF InventoryStep

\* What counting the cached and the listed files says of those gone and new.
LEMMA CountsTell ==
    ASSUME NEW K, NEW R, IsFiniteSet(K), IsFiniteSet(R)
    PROVE  /\ Cardinality(K) \in Nat /\ Cardinality(R) \in Nat
           /\ Cardinality(K \ R) \in Nat /\ Cardinality(R \ K) \in Nat
           /\ Cardinality(K) + Cardinality(R \ K) = Cardinality(R) + Cardinality(K \ R)
           /\ K \ R = {} <=> Cardinality(K \ R) = 0
<1>1. IsFiniteSet(R \ K) /\ IsFiniteSet(K \ R)
  BY FS_Subset
<1>2. Cardinality(K \union (R \ K)) =
         Cardinality(K) + Cardinality(R \ K) - Cardinality(K \intersect (R \ K))
  BY <1>1, FS_Union
<1>3. Cardinality(R \union (K \ R)) =
         Cardinality(R) + Cardinality(K \ R) - Cardinality(R \intersect (K \ R))
  BY <1>1, FS_Union
<1>4. /\ K \union (R \ K) = R \union (K \ R)
      /\ K \intersect (R \ K) = {} /\ R \intersect (K \ R) = {}
  OBVIOUS
<1>5. /\ Cardinality(K) \in Nat /\ Cardinality(R) \in Nat
      /\ Cardinality(K \ R) \in Nat /\ Cardinality(R \ K) \in Nat
      /\ Cardinality({}) = 0
      /\ K \ R = {} <=> Cardinality(K \ R) = 0
  BY <1>1, FS_CardinalityType, FS_EmptySet
<1>6. /\ Cardinality(K \intersect (R \ K)) = 0 /\ Cardinality(R \intersect (K \ R)) = 0
      /\ Cardinality(K \union (R \ K)) = Cardinality(R \union (K \ R))
  BY <1>4, <1>5, Zenon
<1>7. PICK k \in Nat, r \in Nat, kr \in Nat, rk \in Nat :
         /\ k = Cardinality(K) /\ r = Cardinality(R)
         /\ kr = Cardinality(K \ R) /\ rk = Cardinality(R \ K)
  BY <1>5
<1>8. k + rk - 0 = r + kr - 0
  BY <1>2, <1>3, <1>6, <1>7, Zenon
<1>9. k + rk = r + kr
  BY <1>7, <1>8
<1> QED
  BY <1>5, <1>7, <1>9, Zenon

\* The service counts the files it lists.
LEMMA ListingIsCounted ==
    ASSUME TypeInv, RemoteInv, NEW c \in Collections
    PROVE  /\ Total(c) = Cardinality(Elems(remote[c]))
           /\ Elems(remote[c]) \subseteq FilesOf(c)
           /\ IsFiniteSet(Elems(remote[c])) /\ IsFiniteSet(Known(c))
<1>1. PICK s \in Seq(Files) : s = remote[c]
  BY DEF TypeInv, TypeOK
<1>2. /\ ListedOnce(s, c) /\ Len(s) \in Nat /\ DOMAIN s = 1 .. Len(s)
      /\ s \in [1 .. Len(s) -> Files]
  BY <1>1, LenProperties DEF RemoteInv
<1>3. s \in Surjection(1 .. Len(s), Elems(s))
  BY <1>2 DEF Surjection, Elems
<1>4. s \in Injection(1 .. Len(s), Elems(s))
  BY <1>2, <1>3 DEF Injection, IsInjective, Surjection, ListedOnce
<1>5. IsFiniteSet(1 .. Len(s)) /\ Cardinality(1 .. Len(s)) = Len(s)
  BY <1>2, FS_Interval
<1>6. Cardinality(Elems(s)) = Len(s)
  BY <1>3, <1>4, <1>5, FS_Surjection
<1>7. Elems(s) \subseteq FilesOf(c)
  BY <1>2 DEF Elems, FilesOf, ListedOnce
<1>8. IsFiniteSet(Elems(s)) /\ IsFiniteSet(Known(c))
  BY <1>7, ArchiveAssumption, FS_Subset DEF FilesOf, Known
<1> QED
  BY <1>1, <1>6, <1>7, <1>8 DEF Total

\* As many rows as promised were written, or as many are cached as counted:
\* then what is seen is complete, or the counts hide it.
LEMMA CountsComplete ==
    ASSUME TypeInv, RemoteInv, NEW c \in Collections, NEW S,
           S \subseteq Elems(remote[c]) \ Known(c),
           Total(c) - Cardinality(Known(c)) <= Cardinality(S),
           Total(c) >= Cardinality(Known(c))
    PROVE  \/ Gone(c) # {} /\ Cardinality(Missing(c)) >= Cardinality(Gone(c))
           \/ Elems(remote[c]) \subseteq Known(c) \union S
<1>1. PICK K, R : K = Known(c) /\ R = Elems(remote[c])
  OBVIOUS
<1>2. /\ Total(c) = Cardinality(R) /\ R \subseteq FilesOf(c)
      /\ IsFiniteSet(R) /\ IsFiniteSet(K)
  BY <1>1, ListingIsCounted
<1>3. Gone(c) = K \ R /\ Missing(c) = R \ K
  BY <1>1, <1>2 DEF Gone, Missing, Known
<1>4. /\ Cardinality(K) \in Nat /\ Cardinality(R) \in Nat
      /\ Cardinality(K \ R) \in Nat /\ Cardinality(R \ K) \in Nat
      /\ Cardinality(K) + Cardinality(R \ K) = Cardinality(R) + Cardinality(K \ R)
      /\ K \ R = {} <=> Cardinality(K \ R) = 0
  BY <1>2, CountsTell
<1>5. Cardinality(R) - Cardinality(K) <= Cardinality(S) /\ Cardinality(R) >= Cardinality(K)
  BY <1>1, <1>2
<1>6. CASE K \ R # {}
  BY <1>3, <1>4, <1>5, <1>6
<1>7. CASE K \ R = {}
  <2>1. IsFiniteSet(R \ K) /\ S \in SUBSET (R \ K)
    BY <1>1, <1>2, FS_Subset
  <2>2. /\ Cardinality(S) <= Cardinality(R \ K)
        /\ Cardinality(R \ K) = Cardinality(S) => R \ K = S
    BY <2>1, FS_Subset
  <2>3. Cardinality(S) \in Nat
    BY <2>1, FS_Subset, FS_CardinalityType
  <2>4. R \ K = S
    BY <1>4, <1>5, <1>7, <2>2, <2>3
  <2> QED
    BY <1>1, <2>4
<1> QED
  BY <1>6, <1>7

\* Reading a page of a listing that does not change.
LEMMA PageKeepsCount ==
    ASSUME TypeInv, RemoteInv, PagesInv, inv.calm, inv.pc \in {"listing", "paging"},
           NEW c \in Collections, c \in inv.todo, inv.pc = "paging" => inv.coll = c,
           NEW offset \in Nat, NEW expected \in Nat, NEW before \in Nat,
           TakePage(c, offset, expected, before),
           inv.seen \intersect FilesOf(c) = Known(c) \union FirstFiles(c, offset),
           before = Cardinality(FirstFiles(c, offset) \ Known(c)),
           expected = Promised(c)
    PROVE  PagesInv'
<1> DEFINE page == {remote[c][i] : i \in DOMAIN remote[c] \intersect
                                            (offset + 1) .. (offset + PageSize)}
           new == page \ inv.seen
           written == before + Cardinality(new)
           last == offset + PageSize >= Len(remote[c])
           stop == last \/ (expected > 0 /\ written >= expected)
           next == offset + PageSize
<1>0. /\ inv \in InventoryTasks /\ PageSize \in Nat \ {0}
      /\ DOMAIN remote[c] = 1 .. Len(remote[c]) /\ Len(remote[c]) \in Nat
  BY ArchiveAssumption, LenProperties DEF TypeInv, TypeOK
<1>1. /\ Total(c) = Cardinality(Elems(remote[c]))
      /\ Elems(remote[c]) \subseteq FilesOf(c)
      /\ IsFiniteSet(Elems(remote[c])) /\ IsFiniteSet(Known(c))
  BY ListingIsCounted
<1>2. /\ page \subseteq FilesOf(c) /\ FirstFiles(c, offset) \subseteq Elems(remote[c])
      /\ FirstFiles(c, next) = FirstFiles(c, offset) \union page
      /\ FirstFiles(c, next) \subseteq Elems(remote[c])
      /\ last => FirstFiles(c, next) = Elems(remote[c])
  <2>1. /\ page \subseteq Elems(remote[c])
        /\ FirstFiles(c, offset) \subseteq Elems(remote[c])
        /\ FirstFiles(c, next) \subseteq Elems(remote[c])
    BY DEF FirstFiles, Elems
  <2>2. FirstFiles(c, next) = FirstFiles(c, offset) \union page
    <3>1. 1 .. next = (1 .. offset) \union ((offset + 1) .. next)
      BY <1>0
    <3> QED
      BY <3>1 DEF FirstFiles
  <2>3. last => FirstFiles(c, next) = Elems(remote[c])
    BY <1>0 DEF FirstFiles, Elems
  <2> QED
    BY <1>1, <2>1, <2>2, <2>3
<1>3. /\ inv'.pc = IF stop THEN "listing" ELSE "paging"
      /\ inv'.seen = inv.seen \union new
      /\ inv'.todo = IF stop THEN inv.todo \ {c} ELSE inv.todo
      /\ inv'.coll = IF stop THEN None ELSE c
      /\ inv'.offset = IF stop THEN 0 ELSE next
      /\ inv'.expected = IF stop THEN 0 ELSE expected
      /\ inv'.written = IF stop THEN 0 ELSE written
      /\ inv'.calm = inv.calm
      /\ UNCHANGED <<remote, inventory>>
  BY <1>0 DEF TakePage, InventoryOnly, InventoryTasks
<1>4. /\ new \intersect FirstFiles(c, offset) = {}
      /\ FirstFiles(c, next) \ Known(c) = (FirstFiles(c, offset) \ Known(c)) \union new
      /\ inv'.seen \intersect FilesOf(c) = Known(c) \union FirstFiles(c, next)
      /\ \A d \in Collections : d # c =>
            inv'.seen \intersect FilesOf(d) = inv.seen \intersect FilesOf(d)
  <2>1. new \subseteq FilesOf(c) /\ FirstFiles(c, offset) \subseteq FilesOf(c)
    BY <1>1, <1>2
  <2>2. \A d \in Collections : d # c => FilesOf(d) \intersect FilesOf(c) = {}
    BY DEF FilesOf
  <2> QED
    BY <1>2, <1>3, <2>1, <2>2
<1>5. written = Cardinality(FirstFiles(c, next) \ Known(c))
  <2>1. PICK A, B : A = FirstFiles(c, offset) \ Known(c) /\ B = new
    OBVIOUS
  <2>2. IsFiniteSet(A) /\ IsFiniteSet(B) /\ A \intersect B = {}
    <3>1. A \subseteq Elems(remote[c]) /\ B \subseteq Elems(remote[c])
      BY <1>2, <2>1
    <3> QED
      BY <1>1, <1>4, <2>1, <3>1, FS_Subset
  <2>3. /\ Cardinality(A \union B) =
              Cardinality(A) + Cardinality(B) - Cardinality(A \intersect B)
        /\ Cardinality({}) = 0
        /\ Cardinality(A) \in Nat /\ Cardinality(B) \in Nat
    BY <2>2, FS_Union, FS_EmptySet, FS_CardinalityType
  <2>4. Cardinality(A \union B) = Cardinality(A) + Cardinality(B)
    <3>1. Cardinality(A \intersect B) = 0
      BY <2>2, <2>3, Zenon
    <3>2. Cardinality(A \union B) = Cardinality(A) + Cardinality(B) - 0
      BY <2>3, <3>1, Zenon
    <3> QED
      BY <2>3, <3>2
  <2>5. A \union B = FirstFiles(c, next) \ Known(c)
    BY <1>4, <2>1
  <2> QED
    BY <2>1, <2>4, <2>5
<1> HIDE DEF new, page, last, next
<1>6. stop => \/ Gone(c) # {} /\ Cardinality(Missing(c)) >= Cardinality(Gone(c))
              \/ Elems(remote[c]) \subseteq inv'.seen
  <2>1. CASE last
    BY <1>2, <1>4, <2>1
  <2>2. CASE expected > 0 /\ written >= expected
    <3>1. PICK S : S = FirstFiles(c, next) \ Known(c)
      OBVIOUS
    <3>2. S \subseteq Elems(remote[c]) \ Known(c)
      BY <1>2, <3>1
    <3>3. /\ Cardinality(Known(c)) \in Nat /\ Total(c) \in Nat
      BY <1>1, FS_CardinalityType
    <3>4. /\ Total(c) >= Cardinality(Known(c))
          /\ expected = Total(c) - Cardinality(Known(c))
      BY <2>2, <3>3 DEF Promised
    <3>5. Total(c) - Cardinality(Known(c)) <= Cardinality(S)
      <4>1. written = Cardinality(S) /\ written \in Int
        <5>1. IsFiniteSet(S)
          BY <1>1, <3>2, FS_Subset
        <5> QED
          BY <1>5, <3>1, <5>1, FS_CardinalityType
      <4> QED
        BY <2>2, <3>3, <3>4, <4>1
    <3>6. \/ Gone(c) # {} /\ Cardinality(Missing(c)) >= Cardinality(Gone(c))
          \/ Elems(remote[c]) \subseteq Known(c) \union S
      BY <3>2, <3>4, <3>5, CountsComplete
    <3>7. Known(c) \union S \subseteq inv'.seen
      BY <1>4, <3>1
    <3> QED
      BY <3>6, <3>7
  <2> QED
    BY <2>1, <2>2
<1>7. \A d \in Collections :
         /\ Known(d)' = Known(d) /\ Promised(d)' = Promised(d)
         /\ Gone(d)' = Gone(d) /\ Missing(d)' = Missing(d)
         /\ FirstFiles(d, inv.offset)' = FirstFiles(d, inv'.offset)
         /\ Complete(d) => Complete(d)'
  BY <1>3 DEF Known, Promised, Gone, Missing, FirstFiles, Complete, Total, Listed
<1> HIDE DEF written, stop
<1> SUFFICES ASSUME NEW d \in Collections
             PROVE  /\ d \notin inv'.todo => Complete(d)'
                    /\ d \in inv'.todo /\ ~Paged(d)' =>
                          inv'.seen \intersect FilesOf(d) = Known(d)'
                    /\ Paged(d)' =>
                          /\ d \in inv'.todo
                          /\ inv'.seen \intersect FilesOf(d)
                                 = Known(d)' \union FirstFiles(d, inv.offset)'
                          /\ inv'.written = Cardinality((FirstFiles(d, inv.offset) \ Known(d))')
                          /\ inv'.expected = Promised(d)'
  BY DEF PagesInv, FilesOf
<1>8. CASE d = c
  <2>1. CASE stop
    <3>1. Complete(d)'
      BY <1>3, <1>6, <1>7, <1>8, <2>1 DEF Complete
    <3> QED
      BY <1>3, <1>8, <2>1, <3>1 DEF Paged
  <2>2. CASE ~stop
    BY <1>3, <1>4, <1>5, <1>7, <1>8, <2>2 DEF Paged
  <2> QED
    BY <2>1, <2>2
<1>9. CASE d # c
  <2>1. ~Paged(d) /\ ~Paged(d)' /\ (d \in inv'.todo <=> d \in inv.todo)
    BY <1>3, <1>9 DEF Paged
  <2>2. /\ d \notin inv.todo => Complete(d)
        /\ d \in inv.todo => inv.seen \intersect FilesOf(d) = Known(d)
    BY <2>1 DEF PagesInv
  <2> QED
    BY <1>4, <1>7, <1>9, <2>1, <2>2
<1> QED
  BY <1>8, <1>9

\* Every step keeps what an undisturbed run knows of the collections.
LEMMA PagesKept ==
    TypeInv /\ RemoteInv /\ PagesInv /\ [Next]_vars => PagesInv'
<1> SUFFICES ASSUME TypeInv, RemoteInv, PagesInv, [Next]_vars
             PROVE  PagesInv'
  OBVIOUS
<1>0. inv \in InventoryTasks
  BY DEF TypeInv, TypeOK
<1>1. CASE UNCHANGED <<remote, inventory, inv>>
  <2>1. remote' = remote /\ inventory' = inventory /\ inv' = inv
    BY <1>1
  <2>2. \A c \in Collections : /\ Complete(c)' = Complete(c) /\ Paged(c)' = Paged(c)
                                /\ Known(c)' = Known(c)
    BY <2>1 DEF Complete, Paged, Known, Gone, Missing, Total, Listed
  <2>3. \A c \in Collections : /\ Promised(c)' = Promised(c)
                                /\ FirstFiles(c, inv.offset)' = FirstFiles(c, inv.offset)
    BY <2>1 DEF Promised, Known, FirstFiles, Gone, Missing, Total, Listed
  <2> QED
    BY <2>1, <2>2, <2>3 DEF PagesInv
\* A remote change disturbs a run that is going on.
<1>2. CASE inv' = [inv EXCEPT !.calm = (inv.pc = "idle")]
  <2>1. inv'.calm = (inv.pc = "idle") /\ inv'.pc = inv.pc
    BY <1>0, <1>2 DEF InventoryTasks
  <2> QED
    BY <2>1 DEF PagesInv
<1>3. CASE StartInventory
  <2>1. /\ inv'.pc = "listing" /\ inv'.todo = Collections
        /\ inv'.seen = Listed(inventory) /\ UNCHANGED inventory
    BY <1>3 DEF StartInventory, NoInventory, CacheState
  <2> QED
    BY <2>1 DEF PagesInv, Paged, Known, Listed
<1>4. ASSUME NEW c \in Collections, SkipCollection(c) PROVE PagesInv'
  <2>1. /\ inv.pc = "listing" /\ c \in inv.todo /\ FullyCached(c)
        /\ inv'.pc = "listing" /\ inv'.todo = inv.todo \ {c} /\ inv'.seen = inv.seen
        /\ inv'.calm = inv.calm /\ UNCHANGED <<remote, inventory>>
    BY <1>0, <1>4 DEF SkipCollection, InventoryOnly, InventoryTasks
  <2>2. inv.calm => Complete(c)
    <3> SUFFICES ASSUME inv.calm PROVE Complete(c)
      OBVIOUS
    <3>1. inv.seen \intersect FilesOf(c) = Known(c)
      BY <2>1 DEF PagesInv, Paged
    <3>2. Total(c) = Cardinality(Known(c))
      BY <2>1, <3>1 DEF FullyCached, Cached
    <3>3. Cardinality({}) = 0 /\ Total(c) \in Nat
      BY ListingIsCounted, FS_EmptySet, FS_CardinalityType
    <3>4. \/ Gone(c) # {} /\ Cardinality(Missing(c)) >= Cardinality(Gone(c))
          \/ Elems(remote[c]) \subseteq Known(c) \union {}
      <4>1. {} \subseteq Elems(remote[c]) \ Known(c)
        OBVIOUS
      <4>2. /\ Total(c) - Cardinality(Known(c)) <= Cardinality({})
            /\ Total(c) >= Cardinality(Known(c))
        BY <3>2, <3>3
      <4> QED
        BY <4>1, <4>2, CountsComplete
    <3> QED
      BY <3>1, <3>4 DEF Complete
  <2>3. \A d \in Collections : Known(d)' = Known(d) /\ (Complete(d) => Complete(d)')
    BY <2>1 DEF Known, Complete, Gone, Missing, Listed
  <2>4. \A d \in Collections : ~Paged(d) /\ ~Paged(d)'
    BY <2>1 DEF Paged
  <2>5. ASSUME inv.calm, NEW d \in Collections
        PROVE  /\ d \notin inv'.todo => Complete(d)'
               /\ d \in inv'.todo => inv'.seen \intersect FilesOf(d) = Known(d)'
    BY <2>1, <2>2, <2>3, <2>4, <2>5 DEF PagesInv
  <2> QED
    BY <2>1, <2>4, <2>5 DEF PagesInv, FilesOf
<1>5. ASSUME NEW c \in Collections, FirstPage(c) PROVE PagesInv'
  <2>1. /\ inv.pc = "listing" /\ c \in inv.todo /\ 0 \in Nat
        /\ TakePage(c, 0, ExpectedNew(c), 0)
    BY <1>5 DEF FirstPage
  <2>2. CASE ~inv.calm
    BY <1>0, <2>1, <2>2 DEF TakePage, PagesInv, InventoryTasks
  <2>3. CASE inv.calm
    <3>1. inv.seen \intersect FilesOf(c) = Known(c)
      BY <2>1, <2>3 DEF PagesInv, Paged
    <3>2. ExpectedNew(c) = Promised(c)
      BY <3>1 DEF ExpectedNew, Promised, Cached
    <3>3. Promised(c) \in Nat
      <4>1. Total(c) \in Nat /\ Cardinality(Known(c)) \in Nat
        BY ListingIsCounted, FS_CardinalityType
      <4> QED
        BY <4>1 DEF Promised
    <3>4. FirstFiles(c, 0) = {}
      BY DEF FirstFiles
    <3>5. /\ inv.seen \intersect FilesOf(c) = Known(c) \union FirstFiles(c, 0)
          /\ 0 = Cardinality(FirstFiles(c, 0) \ Known(c))
      <4>1. FirstFiles(c, 0) \ Known(c) = {}
        BY <3>4
      <4> QED
        BY <3>1, <3>4, <4>1, FS_EmptySet
    <3>6. PICK e \in Nat : e = Promised(c)
      BY <3>3
    <3>7. TakePage(c, 0, e, 0)
      BY <2>1, <3>2, <3>6
    <3> QED
      BY <2>1, <2>3, <3>5, <3>6, <3>7, PageKeepsCount
  <2> QED
    BY <2>2, <2>3
<1>6. CASE NextPage
  <2>1. PICK c, o, e, w : c = inv.coll /\ o = inv.offset /\ e = inv.expected /\ w = inv.written
    OBVIOUS
  <2>2. /\ inv.pc = "paging" /\ c \in Collections /\ o \in Nat /\ e \in Nat /\ w \in Nat
        /\ TakePage(c, o, e, w)
    BY <1>0, <1>6, <2>1 DEF NextPage, TypeInv, PagingInv, InventoryTasks
  <2>3. CASE ~inv.calm
    BY <1>0, <2>2, <2>3 DEF TakePage, PagesInv, InventoryTasks
  <2>4. CASE inv.calm
    <3>1. /\ c \in inv.todo
          /\ inv.seen \intersect FilesOf(c) = Known(c) \union FirstFiles(c, o)
          /\ w = Cardinality(FirstFiles(c, o) \ Known(c))
          /\ e = Promised(c)
      BY <2>1, <2>2, <2>4 DEF PagesInv, Paged
    <3> QED
      BY <2>1, <2>2, <2>4, <3>1, PageKeepsCount
  <2> QED
    BY <2>3, <2>4
<1>7. CASE NothingNew \/ SnapshotInventory \/ PublishInventory \/ InventoryFails
  <2>1. inv'.pc \in {"idle", "publish"}
    BY <1>0, <1>7 DEF NothingNew, SnapshotInventory, PublishInventory, InventoryFails,
                      NoInventory, InventoryTasks
  <2> QED
    BY <2>1 DEF PagesInv
<1>8. \/ InventoryStep \/ InventoryFails \/ UNCHANGED <<remote, inventory, inv>>
      \/ inv' = [inv EXCEPT !.calm = (inv.pc = "idle")]
  BY DEF Next, vars, Appear, Disappear, AuditStep, StartAudit, AuditRow, PublishAudit,
     AuditOnly, SyncStep, FindList, DownloadList, ClaimList, SyncRow, FinishSync,
     SyncOnly, Faulty, AuditRowErrs, AuditFails, SyncRowFails, SyncFails
<1> QED
  BY <1>1, <1>2, <1>3, <1>4, <1>5, <1>6, <1>7, <1>8 DEF InventoryStep

-----------------------------------------------------------------------------
(* The theorems                                                            *)

\* The initial state satisfies the three invariants.
LEMMA InitInvs == Init => RowsInv /\ RecordInv /\ AuditInv
BY DEF Init, RowsInv, NoRowIsRepeated, RecordInv, RecordedBeforeLive, AuditInv,
       NoInventory, NoAudit

\* However runs resume, fail and page through listings that change under them,
\* no file has two rows (read_cache_state and the page loop of perform).
THEOREM RowsAreUnique == Spec => []NoRowIsRepeated
<1>1. Init => RowsInv
  BY InitInvs
<1>2. RowsInv => NoRowIsRepeated
  BY DEF RowsInv
<1> QED
  BY <1>1, <1>2, RowsKept, TypeCorrect, PTL DEF Spec

\* The live inventory is never ahead of the dated one.
THEOREM RecordIsAhead == Spec => []RecordedBeforeLive
<1>1. Init => RecordInv
  BY InitInvs
<1>2. RecordInv => RecordedBeforeLive
  BY DEF RecordInv
<1> QED
  BY <1>1, <1>2, RecordKept, TypeCorrect, PTL DEF Spec

\* A finished audit has a reason for every row it does not ask for.
THEOREM AuditsAreThorough == Spec => []AuditsMissNothing
<1>1. Init => AuditInv
  BY InitInvs
<1>2. AuditInv => AuditsMissNothing
  BY DEF AuditInv, AuditsMissNothing, AuditBuilt
<1> QED
  BY <1>1, <1>2, AuditKept, TypeCorrect, PTL DEF Spec

\* A run during which nothing changes remotely ends with every file of every
\* collection the counts do not deceive it about (the short-circuit, and the
\* early end of paging).
THEOREM InventoriesAreComplete == Spec => []UndisturbedInventoriesAreComplete
<1>1. Init => RemoteInv /\ SeenInv /\ PagesInv
  <2> SUFFICES ASSUME Init PROVE RemoteInv /\ SeenInv /\ PagesInv
    OBVIOUS
  <2>1. RemoteInv
    BY ArchiveAssumption DEF Init, RemoteInv, ListedOnce
  <2> QED
    BY <2>1 DEF Init, SeenInv, PagesInv, NoInventory
<1>2. TypeInv /\ SeenInv /\ PagesInv => UndisturbedInventoriesAreComplete
  <2> SUFFICES ASSUME TypeInv, SeenInv, PagesInv, InventoryBuilt, inv.calm,
                      NEW c \in Collections
               PROVE  \/ Gone(c) # {} /\ Cardinality(Missing(c)) >= Cardinality(Gone(c))
                      \/ Elems(remote[c]) \subseteq Listed(inv.rows)
    BY DEF UndisturbedInventoriesAreComplete
  <2>1. Complete(c)
    BY DEF PagesInv, InventoryBuilt
  <2>2. inv.seen \subseteq Listed(inv.rows)
    <3>1. inv.rows # None /\ inv.seen \subseteq Files
      BY ArchiveAssumption DEF TypeInv, TypeOK, InventoryTasks
    <3> QED
      BY <3>1 DEF SeenInv, Listed
  <2> QED
    BY <2>1, <2>2 DEF Complete
<1> QED
  BY <1>1, <1>2, RemoteKept, SeenKept, PagesKept, TypeCorrect, PTL DEF Spec
=============================================================================
