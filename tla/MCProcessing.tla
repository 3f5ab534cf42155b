---------------------------- MODULE MCProcessing ----------------------------
(***************************************************************************)
(* Small instances of the processing worker.                               *)
(***************************************************************************)
EXTENDS Processing

OneChat == [u \in 1..MaxUpdate |-> "alice"]
TwoChats == [u \in 1..MaxUpdate |-> IF u % 2 = 1 THEN "alice" ELSE "bob"]
AllRights == {Right}
SomeRights == {Right, {"REPLY"}}
=============================================================================
