---------------------------- MODULE TrustedOwner ----------------------------
(***************************************************************************)
(* What connection reconciliation promises: an installation is bound to    *)
(* one Owner for good, at most one Business connection is trusted at a     *)
(* time, and a connection is trusted only if it was established after      *)
(* every connection that was trusted or ruled out before it.               *)
(***************************************************************************)
EXTENDS Naturals

CONSTANTS User, Connection, NoUser

VARIABLES
    bound,    \* the Owner, or NoUser
    holder,   \* the trusted connection, or 0
    mark      \* the generation a new connection has to exceed
abstractVars == <<bound, holder, mark>>

AbstractInit == bound = NoUser /\ holder \in Connection \cup {0} /\ mark = 0

\* A claim may come with the one connection the claimant already made; the
\* upgrade of an old installation keeps the connection it had.
Bind ==
    /\ bound = NoUser
    /\ bound' \in User
    /\ holder = 0 \/ holder' = holder
    /\ holder' \in Connection \cup {0}
    /\ mark' >= mark

Adopt ==
    /\ bound # NoUser
    /\ holder' \in Connection \ {holder}
    /\ mark' > mark
    /\ UNCHANGED bound

Drop ==
    /\ bound # NoUser
    /\ holder # 0
    /\ holder' = 0
    /\ mark' >= mark
    /\ UNCHANGED bound

\* The connection of an old installation learns when it was established.
Date ==
    /\ holder # 0
    /\ mark = 0
    /\ mark' > 0
    /\ UNCHANGED <<bound, holder>>

AbstractNext == Bind \/ Adopt \/ Drop \/ Date
AbstractSpec == AbstractInit /\ [][AbstractNext]_abstractVars
=============================================================================
