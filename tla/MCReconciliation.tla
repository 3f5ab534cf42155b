-------------------------- MODULE MCReconciliation --------------------------
EXTENDS Reconciliation

\* Two connections of the claimant and, with three, one of somebody else.
OneUser == [c \in Connection |-> "olga"]
LastIsStrange == [c \in Connection |-> IF c = Max(Connection) THEN "mallory" ELSE "olga"]
=============================================================================
