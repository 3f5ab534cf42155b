---------------------------- MODULE ContactGate ----------------------------
(***************************************************************************)
(* What the service promises about one contact: who may pass from unknown  *)
(* to ACTIVE, after how many wrong answers a challenge is lost, and which  *)
(* states a contact can be sent to from where.  No database, no updates,   *)
(* no crashes: only the lifecycle a contact experiences.                   *)
(***************************************************************************)
EXTENDS Integers

CONSTANTS Chat, MaxAttempts

VARIABLES
    state,    \* where a contact stands
    wrong     \* wrong answers given to the challenge it is facing

gateVars == <<state, wrong>>

Unverified == {"NEW", "VERIFY_PENDING", "VERIFIED_WAITING_OWNER"}
Timed == {"VERIFY_PENDING", "TEMP_SOFT_BLOCKED"}

Init ==
    /\ state = [c \in Chat |-> "NEW"]
    /\ wrong = [c \in Chat |-> 0]

Move(c, from, to) ==
    /\ state[c] \in from
    /\ state' = [state EXCEPT ![c] = to]
    /\ wrong' = [wrong EXCEPT ![c] = 0]

Challenge(c) == Move(c, {"NEW"}, "VERIFY_PENDING")
Pass(c) == Move(c, {"VERIFY_PENDING"}, "VERIFIED_WAITING_OWNER")
Spam(c) == Move(c, Unverified, "SPAM_SOFT_BLOCKED")
OwnerWrites(c) == Move(c, Unverified \cup {"TEMP_SOFT_BLOCKED", "SPAM_SOFT_BLOCKED"}, "ACTIVE")
OwnerWithdraws(c) == Move(c, {"ACTIVE"}, "NEW")

\* /reset and /unblock; a reset of a NEW chat changes nothing here.
OwnerForgives(c) ==
    Move(c, {"VERIFY_PENDING", "VERIFIED_WAITING_OWNER", "ACTIVE",
             "TEMP_SOFT_BLOCKED", "SPAM_SOFT_BLOCKED"}, "NEW")

Mistake(c) ==
    /\ state[c] = "VERIFY_PENDING"
    /\ wrong[c] + 1 < MaxAttempts
    /\ wrong' = [wrong EXCEPT ![c] = @ + 1]
    /\ UNCHANGED state

\* The last wrong answer blocks the contact, or starts over in dry-run.
LastMistake(c) ==
    /\ wrong[c] + 1 = MaxAttempts
    /\ \E to \in {"TEMP_SOFT_BLOCKED", "NEW"} : Move(c, {"VERIFY_PENDING"}, to)

\* Deadlines of several contacts may pass at once.
TimeOut(cs) ==
    /\ \A c \in cs : state[c] \in Timed
    /\ state' = [c \in Chat |-> IF c \in cs THEN "NEW" ELSE state[c]]
    /\ wrong' = [c \in Chat |-> IF c \in cs THEN 0 ELSE wrong[c]]

\* The Business connection is gone, and every contact is a stranger again.
Disconnected ==
    /\ state' = [c \in Chat |-> "NEW"]
    /\ wrong' = [c \in Chat |-> 0]

Next ==
    \/ \E c \in Chat :
          \/ Challenge(c) \/ Pass(c) \/ Mistake(c) \/ LastMistake(c) \/ Spam(c)
          \/ OwnerWrites(c) \/ OwnerWithdraws(c) \/ OwnerForgives(c)
    \/ \E cs \in SUBSET Chat : TimeOut(cs)
    \/ Disconnected

Spec == Init /\ [][Next]_gateVars
=============================================================================
