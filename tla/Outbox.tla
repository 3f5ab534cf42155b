------------------------------- MODULE Outbox -------------------------------
(***************************************************************************)
(* The outbox worker: it claims the oldest due row, checks the right the   *)
(* action needs, reads the challenge, calls Telegram and settles the row,  *)
(* each in a transaction of its own, so the processing worker may step in  *)
(* between any two of them.                                                *)
(***************************************************************************)
EXTENDS Store

CONSTANTS
    MaxRetries,   \* length of RETRY_SECONDS: 6 in the code
    Reply,        \* outcomes of a Telegram call that occur
    Ambiguous,    \* failures after which the request may have been carried out
    MaxRows       \* bound: an alert that is refused in turn raises another one

ASSUME RetryAssumption == MaxRetries \in Nat
ASSUME ReplyAssumption ==
    Reply \subseteq {"OK", "ALREADY_APPLIED", "NO_RIGHTS", "TIMEOUT", "RETRYABLE", "REJECTED"}
\* The other failures are refusals that Telegram itself has worded.
ASSUME AmbiguityAssumption == Ambiguous \subseteq {"TIMEOUT", "RETRYABLE"}

VARIABLES
    disp,        \* the row in the dispatcher's hands (memory)
    delivered    \* the answers to the calls that showed a challenge's prompt

outVars == <<disp, delivered>>

Waiting == [pc |-> "WAITING", row |-> 0, interrupted |-> FALSE, result |-> "NONE"]
Result == Reply \cup {"NONE", "OK", "RIGHTS_UNAVAILABLE", "UNCERTAIN_PROMPT", "INVALID"}

Held == outbox[disp.row]

OutTypeOK ==
    /\ disp \in [pc : {"WAITING", "CLAIMED", "PERMITTED", "CALLING", "ANSWERED"},
                 row : Nat, interrupted : BOOLEAN, result : Result]
    /\ disp.pc # "WAITING" => disp.row \in DOMAIN outbox /\ Held.claimed
    /\ delivered \in [Update -> Seq(Result)]

OutInit ==
    /\ disp = Waiting
    /\ delivered = [c \in Update |-> <<>>]

Answered(result) == [disp EXCEPT !.pc = "ANSWERED", !.result = result]

-----------------------------------------------------------------------------
(***************************************************************************)
(* Claiming.  A PENDING row has no next_attempt_at and is always due; a    *)
(* RETRY row may still have to wait, unless it was claimed before.  Until  *)
(* readiness is established only connection-less rows are eligible.        *)
(***************************************************************************)
\* Mutant: a row that failed once is never taken up again.
EligibleOnce(i) == outbox[i].status = "PENDING" /\ (EffectsReady \/ outbox[i].kind = "DIRECT")

Eligible(i) == outbox[i].status \in Live /\ (EffectsReady \/ outbox[i].kind = "DIRECT")
MayWait(i) == outbox[i].status = "RETRY" /\ ~outbox[i].claimed

\* Mutant: the claim is not written down.
CountAttempt(i) == [outbox EXCEPT ![i].attempts = @ + 1]

MarkClaimed(i) ==
    [outbox EXCEPT ![i].claimed = TRUE,
                   ![i].attempts = IF outbox[i].claimed THEN @ ELSE @ + 1]

Claim(i) ==
    /\ disp = Waiting
    /\ Eligible(i)
    /\ \A j \in 1..(i - 1) : Eligible(j) => MayWait(j)
    /\ outbox' = MarkClaimed(i)
    /\ disp' = [Waiting EXCEPT !.pc = "CLAIMED", !.row = i,
                               !.interrupted = outbox[i].claimed]
    /\ UNCHANGED <<lifecycle, inbox, mode, connection, delivered>>

\* Mutant: a prompt counts as idempotent.
IdempotentPrompt(kind) == kind \notin {"OWNER", "DIRECT"}

Idempotent(kind) == kind \in {"EDIT_CHALLENGE", "READ", "DELETE", "PROPOSED"}
Suspended == disp.interrupted /\ ~Idempotent(Held.kind)

-----------------------------------------------------------------------------
(***************************************************************************)
(* Execution.                                                              *)
(***************************************************************************)
RequiredRight ==
    [SEND_CHALLENGE |-> "REPLY", EDIT_CHALLENGE |-> "REPLY",
     READ |-> "READ", DELETE |-> "DELETE_ALL"]

EnsureRight ==
    /\ disp.pc = "CLAIMED"
    /\ ~Suspended
    /\ disp' = IF Held.kind = "PROPOSED" THEN Answered("OK")
               ELSE IF Held.kind \notin DOMAIN RequiredRight
                    THEN [disp EXCEPT !.pc = "CALLING"]
               ELSE IF ~Grants({RequiredRight[Held.kind]})
                    THEN Answered("RIGHTS_UNAVAILABLE")
               ELSE IF Held.kind \in {"SEND_CHALLENGE", "EDIT_CHALLENGE"}
                    THEN [disp EXCEPT !.pc = "PERMITTED"]
               ELSE [disp EXCEPT !.pc = "CALLING"]
    /\ UNCHANGED <<storeVars, delivered>>

\* /reset may have removed the challenge; an edit needs the prompt's id.
LoadChallenge ==
    /\ disp.pc = "PERMITTED"
    /\ disp' = IF challenge[Held.challenge] = "NONE" THEN Answered("INVALID")
               ELSE IF Held.kind = "SEND_CHALLENGE" \/ Held.challenge \in prompt
                    THEN [disp EXCEPT !.pc = "CALLING"]
               ELSE IF challenge[Held.challenge] = "UNCERTAIN"
                    THEN Answered("UNCERTAIN_PROMPT")
               ELSE Answered("INVALID")
    /\ UNCHANGED <<storeVars, delivered>>

\* Telegram carries a request out, or not, and the answer may be lost: it may
\* be late (TIMEOUT), or never arrive, be unreadable or come from a proxy,
\* which is no other error than a server or transport failure (RETRYABLE).
CarriedOut(reply) == IF reply = "OK" THEN {TRUE}
                     ELSE IF reply \in Ambiguous THEN BOOLEAN
                     ELSE {FALSE}

Call(reply) ==
    /\ disp.pc = "CALLING"
    /\ reply = "NO_RIGHTS" => Len(outbox) < MaxRows
    /\ \E done \in CarriedOut(reply) :
          delivered' = IF done /\ Held.kind = "SEND_CHALLENGE"
                       THEN [delivered EXCEPT ![Held.challenge] = Append(@, reply)]
                       ELSE delivered
    /\ disp' = Answered(reply)
    /\ UNCHANGED storeVars

-----------------------------------------------------------------------------
(***************************************************************************)
(* Settlement.  A settling transaction that finds a row gone it must       *)
(* update is rolled back: the row stays claimed, and is claimed again.     *)
(***************************************************************************)
AlreadyApplied ==
    disp.result = "ALREADY_APPLIED" /\ Held.kind \in {"EDIT_CHALLENGE", "DELETE"}
Rejected == disp.result = "REJECTED" \/ (disp.result = "ALREADY_APPLIED" /\ ~AlreadyApplied)
\* Mutant: a prompt whose answer was lost is treated as not sent.
LostAlert == disp.result = "TIMEOUT" /\ Held.kind \in {"OWNER", "DIRECT"}

LostAnswer == disp.result = "TIMEOUT" /\ ~Idempotent(Held.kind)
Retryable ==
    /\ disp.result \in {"RETRYABLE", "TIMEOUT"}
    /\ ~LostAnswer
\* Mutant: one retry too many.
RetryLeftLate == Held.attempts <= MaxRetries + 1

RetryLeft == Held.attempts <= MaxRetries

Succeeds == disp.result = "OK" \/ AlreadyApplied
BecomesUncertain ==
    \/ disp.pc = "CLAIMED" /\ Suspended
    \/ LostAnswer
    \/ disp.result = "UNCERTAIN_PROMPT"
FailsPermanently ==
    \/ disp.result \in {"NO_RIGHTS", "RIGHTS_UNAVAILABLE", "INVALID"}
    \/ Rejected
    \/ Retryable /\ ~RetryLeft
Disables == disp.result \in {"NO_RIGHTS", "RIGHTS_UNAVAILABLE"}

Settling == disp.pc = "ANSWERED" \/ (disp.pc = "CLAIMED" /\ Suspended)
Settled(status) ==
    [outbox EXCEPT ![disp.row].status = status, ![disp.row].claimed = FALSE]

\* A row the settling transaction must update is not there: the outbox row,
\* removed by /reset, or the challenge or the connection, gone with a
\* retirement that leaves the outbox row behind.
Vanished ==
    \/ Held.status \notin Live
    \/ /\ \/ Succeeds /\ Held.kind = "SEND_CHALLENGE"
          \/ BecomesUncertain /\ Held.challenge # 0
       /\ challenge[Held.challenge] = "NONE"
    \/ FailsPermanently /\ Disables /\ Held.kind # "DIRECT" /\ trust = "NONE"

\* Alerts go to the Owner of the row's connection.
Alert(text) ==
    IF Held.kind = "DIRECT" THEN <<>> ELSE <<Row(Held.update, "OWNER", 0, text, {})>>

\* Mutant: a late delivery reopens a closed challenge.
ReopenAs(status, c) == [challenge EXCEPT ![c] = status]

\* mark_challenge_sent and mark_challenge_uncertain spare a closed challenge.
MarkChallenge(status, c) ==
    [challenge EXCEPT ![c] = IF @ \in OpenStatus THEN status ELSE @]

FinishSuccess ==
    /\ Settling /\ Succeeds
    /\ ~Vanished
    /\ outbox' = Settled("SUCCEEDED")
    /\ IF Held.kind = "SEND_CHALLENGE"
       THEN /\ prompt' = prompt \cup {Held.challenge}
            /\ challenge' = MarkChallenge("SENT", Held.challenge)
       ELSE UNCHANGED <<prompt, challenge>>
    /\ disp' = Waiting
    /\ UNCHANGED <<conversation, ledger, attempts, lapsed, inbox, mode, connection, delivered>>

\* An uncertain prompt is remembered and reported; any other message is not.
FinishUncertain ==
    /\ Settling /\ BecomesUncertain
    /\ ~Vanished
    /\ IF Held.challenge # 0
       THEN /\ outbox' = Settled("UNCERTAIN") \o Alert("challenge_send_uncertain")
            /\ challenge' = MarkChallenge("UNCERTAIN", Held.challenge)
       ELSE /\ outbox' = Settled("UNCERTAIN")
            /\ UNCHANGED challenge
    /\ disp' = Waiting
    /\ UNCHANGED <<conversation, ledger, attempts, lapsed, prompt, inbox, mode,
                   connection, delivered>>

FinishPermanent ==
    /\ Settling /\ FailsPermanently
    /\ ~Vanished
    /\ IF Disables
       THEN /\ outbox' = Settled("PERMANENT_FAILURE") \o Alert("business_rights_unavailable")
            /\ enabled' = IF Held.kind = "DIRECT" THEN enabled ELSE FALSE
            /\ mode' = "DRY_RUN"
       ELSE /\ outbox' = Settled("PERMANENT_FAILURE")
            /\ UNCHANGED <<enabled, mode>>
    /\ disp' = Waiting
    /\ UNCHANGED <<lifecycle, inbox, global, trust, rights, delivered>>

ScheduleRetry ==
    /\ Settling /\ Retryable /\ RetryLeft
    /\ ~Vanished
    /\ outbox' = Settled("RETRY")
    /\ disp' = Waiting
    /\ UNCHANGED <<lifecycle, inbox, mode, connection, delivered>>

SettlementFails ==
    /\ Settling /\ Vanished
    /\ disp' = Waiting
    /\ UNCHANGED <<storeVars, delivered>>

\* The worker stops between two of its transactions: the row stays claimed.
Abandon ==
    /\ disp' = Waiting
    /\ UNCHANGED delivered

Settle ==
    FinishSuccess \/ FinishUncertain \/ FinishPermanent \/ ScheduleRetry \/ SettlementFails

OutStep ==
    \/ \E i \in DOMAIN outbox : Claim(i)
    \/ EnsureRight
    \/ LoadChallenge
    \/ \E reply \in Reply : Call(reply)
    \/ Settle
=============================================================================
