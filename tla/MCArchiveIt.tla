---------------------------- MODULE MCArchiveIt ----------------------------
(* Small instances of ArchiveIt for TLC. *)
EXTENDS ArchiveIt

MCCollectionOf == [f \in Files |-> "c1"]
MCRemote == [c \in Collections |-> <<"a", "odd">>]
=============================================================================
