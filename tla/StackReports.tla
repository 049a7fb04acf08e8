---------------------------- MODULE StackReports ----------------------------
(***************************************************************************)
(* The report pipelines of a stack together: inventory-report writes what  *)
(* checksum-request and storage-report read, at any moment of either.      *)
(***************************************************************************)
EXTENDS ChecksumRequests, StorageReports

allVars == <<inventoryVars, requestVars, storageVars>>

Init == InventoryInit /\ RequestInit /\ StorageInit

Next ==
    \/ InventoryNext /\ UNCHANGED <<requestVars, storageVars>>
    \/ RequestNext /\ UNCHANGED storageVars
    \/ StorageNext /\ UNCHANGED requestVars

Spec == Init /\ [][Next]_allVars

\* Every variable of the three components holds a value of its type.
StackTypeOK == TypeOK /\ RequestTypeOK /\ StorageTypeOK
=============================================================================
