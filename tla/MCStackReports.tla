--------------------------- MODULE MCStackReports ---------------------------
(* A small instance of StackReports for TLC: bucket a has two inventories,  *)
(* a duplicated event, requests and CLI calls, bucket b holds nothing.      *)
EXTENDS StackReports

MCEventCalls == {<<"a", 1, 1>>, <<"a", 1, 2>>, <<"a", 2, 1>>, <<"b", 1, 1>>}
MCMissing == {"b"} \X Objects
MCCliRuns == {<<"a", CLI, 1>>}
MCRequestEvents == {<<"a", 1, 1>>, <<"a", 1, 2>>, <<"a", 2, 1>>}
=============================================================================
