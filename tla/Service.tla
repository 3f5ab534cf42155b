------------------------------ MODULE Service ------------------------------
(***************************************************************************)
(* The serving process: the processing worker and the outbox worker as two *)
(* tasks over one database, and a crash that takes both down at once.      *)
(***************************************************************************)
EXTENDS Processing, Outbox

serviceVars == <<storeVars, procVars, outVars>>

ProcessingStep == ProcStep /\ UNCHANGED outVars
OutboxStep == phase = "SERVING" /\ OutStep /\ UNCHANGED procVars
ServiceCrash == Crash /\ Abandon

\* A dispatch that fails locally leaves its row claimed until the next poll.
DispatchFault ==
    /\ "dispatch" \in Fault
    /\ phase = "SERVING"
    /\ disp # Waiting
    /\ Abandon
    /\ UNCHANGED <<storeVars, procVars>>

ServiceInit == StoreInit /\ ProcInit /\ OutInit
ServiceNext == ProcessingStep \/ OutboxStep \/ ServiceCrash \/ DispatchFault
ServiceSpec == ServiceInit /\ [][ServiceNext]_serviceVars

(***************************************************************************)
(* Fairness: as for the processing worker, and the outbox worker is a loop *)
(* driven by a timer.                                                      *)
(***************************************************************************)
ProcessingFairly ==
    /\ WF_serviceVars(ProcessingTurn /\ UNCHANGED outVars)
    /\ WF_serviceVars(Restart /\ UNCHANGED outVars)
    /\ WF_serviceVars(RecoveryTurn /\ UNCHANGED outVars)
    /\ WF_serviceVars(StartupLookup /\ UNCHANGED outVars)
    /\ WF_serviceVars(TriggerLookup /\ UNCHANGED outVars)
    /\ WF_serviceVars(PublishReady /\ UNCHANGED outVars)
FairService == ServiceSpec /\ ProcessingFairly /\ WF_serviceVars(OutboxStep)

-----------------------------------------------------------------------------
\* Both workers' memory and the tables have their types; a row in the
\* dispatcher's hands is marked as claimed in the database, so that a crash
\* can be told from a row never tried.
ServiceTypeOK == TypeOK /\ OutTypeOK

\* The row that sends the prompt of a challenge.
Prompts(i, x) == outbox[i].kind = "SEND_CHALLENGE" /\ outbox[i].challenge = x

\* Was the prompt last shown by a call that retry_delay takes for a failure
\* (transport or protocol error, rate limit, server error)?
LooksUnsent(x) == delivered[x][Len(delivered[x])] = "RETRYABLE"

\* A contact sees a prompt again only if the call that showed it before ended
\* in an error that retry_delay retries: a send that timed out, or that a
\* crash or a local failure interrupted, is reported and never repeated.
RepeatedOnlyOnFailure ==
    \A x \in Update : \A k \in 1..(Len(delivered[x]) - 1) : delivered[x][k] = "RETRYABLE"

\* An attempt shows the prompt at most once: a claim that is taken up again
\* after a crash, which counts no new attempt, does not call again.  With
\* RetryBudget a prompt is shown at most RETRY_SECONDS.len() + 1 times.
ShownOncePerAttempt ==
    \A i \in DOMAIN outbox, x \in Update :
        Prompts(i, x) => Len(delivered[x]) <= outbox[i].attempts

\* A prompt that was shown without its message id reaching the database is not
\* forgotten: its row is still claimed or settled UNCERTAIN, unless the call
\* looked like a failure, after which it is sent again or given up.
NoSilentPrompt ==
    \A x \in Update :
        delivered[x] # <<>> /\ x \notin prompt /\ challenge[x] # "NONE"
            => \E i \in DOMAIN outbox :
                  /\ Prompts(i, x)
                  /\ \/ outbox[i].claimed
                     \/ outbox[i].status = "UNCERTAIN"
                     \/ outbox[i].status \in {"RETRY", "PERMANENT_FAILURE"} /\ LooksUnsent(x)

\* A closed challenge stays closed, though its prompt may be delivered, or
\* reported as uncertain, after it was closed.
NeverReopens ==
    [][\A x \in Update : challenge[x] = "CLOSED" => challenge'[x] \in {"CLOSED", "NONE"}]_serviceVars

\* A row is tried once and retried at most RETRY_SECONDS.len() times, however
\* often the worker is interrupted: the delay table is never overrun.
RetryBudget ==
    \A i \in DOMAIN outbox :
        /\ outbox[i].attempts <= MaxRetries + 1
        /\ outbox[i].status = "RETRY" /\ ~outbox[i].claimed => outbox[i].attempts \in 1..MaxRetries

\* Once the process stays up, the outbox drains: no row is retried for ever
\* and none blocks the rows behind it.
OutboxDrains ==
    <>[](phase # "DOWN") => []<>(\A i \in DOMAIN outbox : outbox[i].status \notin Live)

-----------------------------------------------------------------------------
\* README_en.md: "Keyless private/Owner setup messages remain deliverable":
\* once the process stays up, an answer to the Owner is always settled.
KeylessDelivered ==
    <>[](phase # "DOWN") =>
        []<>(\A i \in DOMAIN outbox : outbox[i].kind = "DIRECT" => outbox[i].status \notin Live)

\* README_en.md: "getBusinessConnection is the authority for enabled state,
\* all four rights": the outbox disables the connection only when Telegram
\* refused a call for lack of rights, or had not granted the right.
DisabledForCause ==
    [][disp.pc = "ANSWERED" /\ disp' = Waiting /\ enabled /\ ~enabled' =>
          \/ disp.result = "NO_RIGHTS"
          \/ RequiredRight[Held.kind] \notin rights]_serviceVars
=============================================================================
