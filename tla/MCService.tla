----------------------------- MODULE MCService -----------------------------
(***************************************************************************)
(* Small instances of the two workers over one database.                   *)
(***************************************************************************)
EXTENDS Service

OneChat == [u \in 1..MaxUpdate |-> "alice"]
AllRights == {Right}
=============================================================================
