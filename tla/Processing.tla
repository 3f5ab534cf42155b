----------------------------- MODULE Processing -----------------------------
(***************************************************************************)
(* The processing worker: one task that takes one update at a time through *)
(* three transactions (prepare, record, apply), runs the Owner's commands, *)
(* the trusted-connection reconciliation and the retention ticks, and the  *)
(* startup that replays what a crash left RECORDED.                        *)
(***************************************************************************)
EXTENDS Store

CONSTANTS
    Traffic,    \* the kinds of updates that arrive
    Fault,      \* "crash", "storage", "dispatch", "reorder", "late_edit", "retire"
    Verdict,    \* detector verdicts that occur
    Answer,     \* how answers to a challenge evaluate
    RightSets   \* rights Telegram may report for the connection

ASSUME RightSetsAssumption == RightSets \subseteq SUBSET Right
ASSUME VerdictAssumption == Verdict \subseteq {"ALLOW", "SPAM", "ERROR"}
ASSUME AnswerAssumption == Answer \subseteq {"CORRECT", "INCORRECT", "NON_NUMERIC"}

VARIABLES
    task,       \* the update in the worker's hands (memory)
    phase,      \* "DOWN", "STARTING" (first lookup), "RECOVERING" (replay), "SERVING"
    startup     \* is startup_pending_connection_id still set? (memory)

procVars == <<task, phase, startup>>
vars == <<storeVars, procVars>>

Idle == [pc |-> "IDLE", update |-> 0, facts |-> NoFacts, answer |-> "NONE"]
Working == phase = "SERVING" /\ task = Idle

-----------------------------------------------------------------------------
(***************************************************************************)
(* What Telegram delivers.  A new message carries its own id, an edit the  *)
(* id of a message seen before (or never seen), a deletion any ids: those  *)
(* that are unknown or already deleted change nothing.                     *)
(***************************************************************************)
\* A new update arrives, in update order unless Telegram reorders.
Arrives(u) ==
    /\ processed[u] = "NONE"
    /\ "reorder" \in Fault \/ \A v \in Update : v < u => processed[v] # "NONE"

Seen(c, sender) == {m \in Update : ChatOf[m] = c /\ ledger[m] = sender}

\* Edits of a reply whose deletion overtook them: updates may be reordered.
LateEdits(c) ==
    IF "late_edit" \in Fault
    THEN {m \in Update : ChatOf[m] = c /\ ledger[m] = "DELETED"
                         /\ facts[m].action = "MANUAL_OWNER"}
    ELSE {}

RawEvent(kind, ms, verdicts, answers) ==
    [kind : {kind} \cap Traffic, messages : ms, verdict : verdicts, answer : answers]
Events(u) ==
    LET c == ChatOf[u]
        one(ms) == {{m} : m \in ms}
    IN  UNION {RawEvent("INBOUND", {{u}}, Verdict, Answer),
               RawEvent("EDITED", one({u} \cup Seen(c, "INBOUND")), Verdict, {"NONE"}),
               RawEvent("OWNER", one({u} \cup Seen(c, "OWNER") \cup LateEdits(c)),
                        {"ALLOW"}, {"NONE"}),
               RawEvent("BOT", one({u} \cup {PromptOf(x) : x \in {y \in prompt : ChatOf[y] = c}}),
                        {"ALLOW"}, {"NONE"}),
               RawEvent("DELETED", SUBSET EligibleDeletions(ledger, c),
                        {"ALLOW"}, {"NONE"})}

-----------------------------------------------------------------------------
(***************************************************************************)
(* Preparation: one read transaction turns an update into facts.           *)
(***************************************************************************)
ActiveChallenge(c) ==
    IF OpenChallenges(c) = {} THEN 0 ELSE CHOOSE x \in OpenChallenges(c) : TRUE
Destructive == mode = "LIVE" /\ Grants({"READ", "DELETE_ALL"})

\* Mutant: one answer too many.
ExhaustsLate(x) == attempts[x] + 1 > MaxAttempts

Exhausts(x) == attempts[x] + 1 >= MaxAttempts

SafeOutcome(c, e) ==
    LET x == ActiveChallenge(c)
    IN  IF StateOf(c) = "NEW" THEN "START"
        ELSE IF StateOf(c) = "VERIFIED_WAITING_OWNER" THEN "RETAIN"
        ELSE IF x = 0 THEN "INVALID"
        ELSE IF x \in lapsed THEN "EXPIRED"
        ELSE IF e.kind = "EDITED" THEN "RETAIN"
        ELSE IF e.answer = "CORRECT" THEN "CORRECT"
        ELSE IF ~Exhausts(x) THEN "INCORRECT"
        ELSE IF Destructive THEN "EXHAUSTED_BLOCK" ELSE "EXHAUSTED_DRY_RUN"

PrepareInbound(c, e) ==
    IF StateOf(c) = "ACTIVE" THEN "ACTIVE_INBOUND"
    ELSE IF StateOf(c) \in SoftBlocked
         THEN IF Destructive THEN "BLOCKED_INBOUND" ELSE "BLOCKED_FAIL_OPEN"
    ELSE IF e.verdict = "SPAM" /\ Destructive THEN "SPAM"
    ELSE IF \/ e.verdict = "SPAM" /\ StateOf(c) = "VERIFY_PENDING"
            \/ StateOf(c) \in {"NEW", "VERIFY_PENDING"} /\ ~Grants({"REPLY"})
         THEN "RETAIN"
    ELSE SafeOutcome(c, e)

PrepareAction(c, e) ==
    IF ~KnownConnection THEN "IGNORE"
    ELSE CASE e.kind \in {"INBOUND", "EDITED"} -> PrepareInbound(c, e)
           [] e.kind = "OWNER"   -> "MANUAL_OWNER"
           [] e.kind = "BOT"     -> "BOT_MESSAGE"
           [] e.kind = "DELETED" -> "MESSAGES_DELETED"

Answering == {"CORRECT", "INCORRECT", "EXHAUSTED_BLOCK", "EXHAUSTED_DRY_RUN", "EXPIRED"}

\* The trace needs the Owner of a known connection.
PreparedEvent(u, e) ==
    LET action == PrepareAction(ChatOf[u], e)
    IN  [action |-> action,
         challenge |-> IF action \in Answering THEN ActiveChallenge(ChatOf[u]) ELSE 0,
         messages |-> e.messages,
         verdict |-> IF action \in InboundAction THEN e.verdict ELSE "ALLOW",
         trace |-> mode = "DRY_RUN" /\ KnownConnection]

\* Preparation fails, and changes nothing, on a VERIFY_PENDING chat without
\* an active challenge.
Prepare(u, e) ==
    /\ Working
    /\ Arrives(u)
    /\ PrepareAction(ChatOf[u], e) # "INVALID"
    /\ task' = [pc |-> "PREPARED", update |-> u, facts |-> PreparedEvent(u, e),
                answer |-> e.answer]
    /\ UNCHANGED <<storeVars, phase, startup>>

Record ==
    /\ phase = "SERVING"
    /\ task.pc = "PREPARED"
    /\ processed' = [processed EXCEPT ![task.update] = "RECORDED"]
    /\ facts' = [facts EXCEPT ![task.update] = task.facts]
    /\ task' = [task EXCEPT !.pc = "RECORDED"]
    /\ UNCHANGED <<lifecycle, outbox, mode, connection, phase, startup>>

\* A redelivered update that is APPLIED is acknowledged without effect; one
\* that is RECORDED keeps its stored facts, whatever they would be now.
Duplicate(u) ==
    /\ Working
    /\ processed[u] = "APPLIED"
    /\ UNCHANGED vars

Redeliver(u) ==
    /\ Working
    /\ processed[u] = "RECORDED"
    /\ facts[u].action # "TRIGGER"
    /\ task' = [Idle EXCEPT !.pc = "RECORDED", !.update = u]
    /\ UNCHANGED <<storeVars, phase, startup>>

-----------------------------------------------------------------------------
(***************************************************************************)
(* Application of the stored facts.  Applicable says that no repository    *)
(* call and no transition of the handler returns an error; a conversation  *)
(* cannot be inserted for a connection that is gone.                       *)
(***************************************************************************)
CanConsume(x) == x \in Update /\ IsOpen(x) /\ attempts[x] < MaxAttempts

Applicable(f, u) ==
    LET c == ChatOf[u]
    IN  /\ f.action \notin {"ACTIVE_INBOUND", "IGNORE", "TRIGGER"} => trust # "NONE"
        /\ f.action = "START" => OpenChallenges(c) = {} /\ Permits(c, "SafeFirstInbound")
        /\ f.action = "CORRECT" => Permits(c, "VerificationSucceeded")
        /\ f.action = "EXPIRED" => Permits(c, "ChallengeExpired")
        /\ f.action = "INCORRECT" => CanConsume(f.challenge)
        /\ f.action = "EXHAUSTED_BLOCK" =>
               CanConsume(f.challenge) /\ Permits(c, "VerificationExhausted")
        /\ f.action = "EXHAUSTED_DRY_RUN" =>
               CanConsume(f.challenge) /\ Permits(c, "ChallengeExpired")
        /\ f.action = "SPAM" => Permits(c, "SpamDetected")

OwnerRow(u, text) == Row(u, "OWNER", 0, text, {})
Trace(f, u) == IF f.trace THEN <<OwnerRow(u, "trace")>> ELSE <<>>
Evidence(f, u) ==
    IF f.verdict = "SPAM" /\ f.action # "SPAM" THEN <<Row(u, "PROPOSED", 0, "spam", {})>>
    ELSE IF f.verdict = "ERROR" THEN <<OwnerRow(u, "detector_failed")>>
    ELSE <<>>
Cleanup(f, u, rows) ==
    <<Row(u, "READ", 0, "", f.messages)>> \o DeleteRows(u, EligibleDeletions(rows, ChatOf[u]))

Enqueue(f, u, rows) == outbox' = outbox \o Evidence(f, u) \o rows \o Trace(f, u)
SetState(c, s) == conversation' = [conversation EXCEPT ![c] = s]
Advance(c, event) == SetState(c, Transition[event].to)

ApplyStart(f, u, c) ==
    /\ f.action = "START"
    /\ challenge' = [challenge EXCEPT ![u] = "PENDING"]
    /\ Advance(c, "SafeFirstInbound")
    /\ ledger' = RecordMessages("INBOUND", f.messages)
    /\ Enqueue(f, u, <<Row(u, "SEND_CHALLENGE", u, "", {})>>)
    /\ UNCHANGED attempts

ApplyRetain(f, u, c) ==
    /\ f.action \in {"RETAIN", "BLOCKED_FAIL_OPEN"}
    /\ SetState(c, StateOf(c))
    /\ ledger' = RecordMessages("INBOUND", f.messages)
    /\ Enqueue(f, u, <<>>)
    /\ UNCHANGED <<challenge, attempts>>

\* close_challenge leaves a challenge that is closed or gone as it is.
ApplyVerdict(f, u, c, action, event, text) ==
    /\ f.action = action
    /\ challenge' = CloseChallenges({f.challenge})
    /\ Advance(c, event)
    /\ ledger' = RecordMessages("INBOUND", f.messages)
    /\ Enqueue(f, u, <<EditRow(u, f.challenge, text)>>)
    /\ UNCHANGED attempts

Consume(x) == attempts' = [attempts EXCEPT ![x] = @ + 1]

ApplyIncorrect(f, u, c) ==
    /\ f.action = "INCORRECT"
    /\ Consume(f.challenge)
    /\ SetState(c, StateOf(c))
    /\ ledger' = RecordMessages("INBOUND", f.messages)
    /\ Enqueue(f, u, <<EditRow(u, f.challenge, "incorrect")>>)
    /\ UNCHANGED challenge

ApplyExhausted(f, u, c) ==
    /\ f.action \in {"EXHAUSTED_BLOCK", "EXHAUSTED_DRY_RUN"}
    /\ Consume(f.challenge)
    /\ challenge' = CloseChallenges({f.challenge})
    /\ ledger' = RecordMessages("INBOUND", f.messages)
    /\ \/ /\ f.action = "EXHAUSTED_BLOCK"
          /\ Advance(c, "VerificationExhausted")
          /\ Enqueue(f, u, <<EditRow(u, f.challenge, "exhausted")>>)
       \/ /\ f.action = "EXHAUSTED_DRY_RUN"
          /\ Advance(c, "ChallengeExpired")
          /\ Enqueue(f, u, <<Row(u, "PROPOSED", 0, "verification_exhausted", {}),
                             EditRow(u, f.challenge, "exhausted_dry_run")>>)

ApplySpam(f, u, c) ==
    /\ f.action = "SPAM"
    /\ Advance(c, "SpamDetected")
    /\ challenge' = CloseChallenges(OpenChallenges(c))
    /\ ledger' = RecordMessages("INBOUND", f.messages)
    /\ Enqueue(f, u, Cleanup(f, u, ledger'))
    /\ UNCHANGED attempts

\* The handler does not look at the state the chat is in by now.
ApplyBlocked(f, u, c) ==
    /\ f.action = "BLOCKED_INBOUND"
    /\ SetState(c, StateOf(c))
    /\ ledger' = RecordMessages("INBOUND", f.messages)
    /\ Enqueue(f, u, Cleanup(f, u, ledger'))
    /\ UNCHANGED <<challenge, attempts>>

\* Mutant: a reply does not lift a soft block.
OwnerLeavesBlock(c) == IF StateOf(c) \in SoftBlocked THEN StateOf(c) ELSE "ACTIVE"

AfterOwner(c) ==
    IF StateOf(c) = "ACTIVE" THEN "ACTIVE"
    ELSE IF StateOf(c) = "SPAM_SOFT_BLOCKED" THEN Transition["OwnerInitiatedMessage"].to
    ELSE Transition["ManualOwnerReply"].to

ApplyManualOwner(f, u, c) ==
    /\ f.action = "MANUAL_OWNER"
    /\ ledger' = RecordMessages("OWNER", f.messages)
    /\ challenge' = CloseChallenges(OpenChallenges(c))
    /\ SetState(c, AfterOwner(c))
    /\ Enqueue(f, u, <<>>)
    /\ UNCHANGED attempts

ApplyBotMessage(f, u, c) ==
    /\ f.action = "BOT_MESSAGE"
    /\ ledger' = RecordMessages("BOT", f.messages)
    /\ SetState(c, StateOf(c))
    /\ Enqueue(f, u, <<>>)
    /\ UNCHANGED <<challenge, attempts>>

ApplyDeletions(f, u, c) ==
    /\ f.action = "MESSAGES_DELETED"
    /\ ledger' = MarkDeleted(f.messages)
    /\ IF StateOf(c) = "ACTIVE" /\ OwnerReplies(ledger', c) = {}
       THEN Advance(c, "AllOwnerRepliesDeleted")
       ELSE SetState(c, StateOf(c))
    /\ Enqueue(f, u, <<>>)
    /\ UNCHANGED <<challenge, attempts>>

ApplyInert(f, u) ==
    /\ f.action \in {"ACTIVE_INBOUND", "IGNORE"}
    /\ Enqueue(f, u, <<>>)
    /\ UNCHANGED <<conversation, ledger, challenge, attempts>>

ApplyFacts(f, u, c) ==
    \/ ApplyStart(f, u, c)
    \/ ApplyRetain(f, u, c)
    \/ ApplyVerdict(f, u, c, "CORRECT", "VerificationSucceeded", "success")
    \/ ApplyVerdict(f, u, c, "EXPIRED", "ChallengeExpired", "expired")
    \/ ApplyIncorrect(f, u, c)
    \/ ApplyExhausted(f, u, c)
    \/ ApplySpam(f, u, c)
    \/ ApplyBlocked(f, u, c)
    \/ ApplyManualOwner(f, u, c)
    \/ ApplyBotMessage(f, u, c)
    \/ ApplyDeletions(f, u, c)
    \/ ApplyInert(f, u)

\* Mutant: the effects commit without the APPLIED mark.
LeaveRecorded(u) == UNCHANGED processed

MarkApplied(u) == processed' = [processed EXCEPT ![u] = "APPLIED"]

\* apply_recorded_event: the effects and the APPLIED mark commit together.
ApplyRecorded(u) ==
    /\ processed[u] = "RECORDED"
    /\ Applicable(facts[u], u)
    /\ ApplyFacts(facts[u], u, ChatOf[u])
    /\ MarkApplied(u)
    /\ UNCHANGED <<facts, lapsed, prompt, mode, connection>>

Apply ==
    /\ phase = "SERVING"
    /\ task.pc = "RECORDED"
    /\ ApplyRecorded(task.update)
    /\ task' = Idle
    /\ UNCHANGED <<phase, startup>>

\* The handler returns an error: rollback, and the update stays RECORDED.
ApplyRefused ==
    /\ phase = "SERVING"
    /\ task.pc = "RECORDED"
    /\ ~Applicable(facts[task.update], task.update)
    /\ task' = Idle
    /\ UNCHANGED <<storeVars, phase, startup>>

\* SQLite refuses the recording or the application for reasons of its own.
StorageFault ==
    /\ "storage" \in Fault
    /\ phase = "SERVING"
    /\ task # Idle
    /\ task' = Idle
    /\ UNCHANGED <<storeVars, phase, startup>>

-----------------------------------------------------------------------------
(***************************************************************************)
(* Owner commands: one transaction, the update inserted as APPLIED.        *)
(***************************************************************************)
Finish(u) ==
    /\ processed' = [processed EXCEPT ![u] = "APPLIED"]
    /\ facts' = [facts EXCEPT ![u] = [NoFacts EXCEPT !.action = "COMMAND"]]
    /\ UNCHANGED <<connection, phase, startup, task>>

CommandRows(u) ==
    <<Row(u, "DIRECT", 0, "reply", {})>>
      \o (IF mode = "DRY_RUN" THEN <<Row(u, "DIRECT", 0, "trace", {})>> ELSE <<>>)

CommandAccepted(u, command) == Working /\ Arrives(u) /\ command \in Traffic

ResetConversation(u) ==
    LET c == ChatOf[u]
        mine == {x \in Update : ChatOf[x] = c}
        ids == EligibleDeletions(ledger, c) \cup {PromptOf(x) : x \in prompt \cap mine}
    IN  /\ CommandAccepted(u, "RESET")
        /\ KnownConnection
        /\ conversation[c] # "NONE"
        /\ SetState(c, "NEW")
        /\ challenge' = [x \in Update |-> IF x \in mine THEN "NONE" ELSE challenge[x]]
        /\ attempts' = [x \in Update |-> IF x \in mine THEN 0 ELSE attempts[x]]
        /\ lapsed' = lapsed \ mine
        /\ prompt' = prompt \ mine
        /\ ledger' = [m \in Message |-> IF MessageChat(m) = c THEN "NONE" ELSE ledger[m]]
        /\ outbox' = [i \in DOMAIN outbox |->
                         IF i \in ChatRows(c) /\ outbox[i].status \in Live
                         THEN [outbox[i] EXCEPT !.status = "DELETED"] ELSE outbox[i]]
                       \o DeleteRows(u, ids) \o CommandRows(u)
        /\ Finish(u)
        /\ UNCHANGED mode

Unblock(u) ==
    LET c == ChatOf[u]
    IN  /\ CommandAccepted(u, "UNBLOCK")
        /\ KnownConnection
        /\ conversation[c] \in SoftBlocked
        /\ SetState(c, "NEW")
        /\ challenge' = CloseChallenges(OpenChallenges(c))
        /\ outbox' = outbox \o CommandRows(u)
        /\ Finish(u)
        /\ UNCHANGED <<ledger, attempts, lapsed, prompt, mode>>

SetDryRun(u, on) ==
    /\ CommandAccepted(u, "DRY_RUN")
    /\ on \/ Grants(Right)
    /\ mode' = IF on THEN "DRY_RUN" ELSE "LIVE"
    /\ outbox' = outbox \o CommandRows(u)
    /\ Finish(u)
    /\ UNCHANGED lifecycle

\* Commands that only answer, and commands answered with an error.
OtherCommand(u) ==
    /\ CommandAccepted(u, "QUERY")
    /\ outbox' = outbox \o CommandRows(u)
    /\ Finish(u)
    /\ UNCHANGED <<lifecycle, mode>>

Command(u) ==
    \/ ResetConversation(u)
    \/ Unblock(u)
    \/ \E on \in BOOLEAN : SetDryRun(u, on)
    \/ OtherCommand(u)

-----------------------------------------------------------------------------
(***************************************************************************)
(* Retention, ticked by the processing loop between two updates.  The due  *)
(* set is what the clock has reached.                                      *)
(***************************************************************************)
\* Mutant: retention in a task of its own.
RetentionTask == phase = "SERVING"

RetentionTurn == Working

Lapse(x) ==
    /\ IsOpen(x)
    /\ x \notin lapsed
    /\ lapsed' = lapsed \cup {x}
    /\ UNCHANGED <<conversation, ledger, challenge, attempts, prompt,
                   inbox, outbox, mode, connection, procVars>>

Due == {x \in Update : IsOpen(x) /\ x \in lapsed}

\* The due challenges in id order; those with a known prompt get an edit.
Ordered(n, order) ==
    /\ \A i, j \in 1..n : i < j => order[i] < order[j]
    /\ \A x \in Due \cap prompt : \E i \in 1..n : order[i] = x

\* Mutant: a contact whose prompt was never delivered is forgotten.
StateAfterKnownExpiry(c, blocks) ==
    IF \/ conversation[c] = "VERIFY_PENDING" /\ \E x \in Due \cap prompt : ChatOf[x] = c
       \/ conversation[c] = "TEMP_SOFT_BLOCKED" /\ c \in blocks
    THEN "NEW" ELSE conversation[c]

StateAfterExpiry(c, blocks) ==
    IF \/ conversation[c] = "VERIFY_PENDING" /\ \E x \in Due : ChatOf[x] = c
       \/ conversation[c] = "TEMP_SOFT_BLOCKED" /\ c \in blocks
    THEN "NEW" ELSE conversation[c]

ExpireDueState(blocks) ==
    /\ RetentionTurn
    /\ Due # {} \/ blocks # {}
    /\ challenge' = CloseChallenges(Due)
    /\ conversation' = [c \in Chat |-> StateAfterExpiry(c, blocks)]
    /\ \E n \in 0..MaxUpdate : \E order \in [1..n -> Due \cap prompt] :
          /\ Ordered(n, order)
          /\ outbox' = outbox \o [i \in 1..n |-> EditRow(order[i], order[i], "expired")]
    /\ UNCHANGED <<ledger, attempts, lapsed, prompt, inbox, mode, connection, procVars>>

\* purge_ledger drops inbound messages up to an age, except those a live
\* DELETE still names.
Protected == UNION {outbox[i].messages : i \in
                      {j \in DOMAIN outbox : outbox[j].kind = "DELETE" /\ outbox[j].status \in Live}}

\* Mutant: replies of the Owner age out too.
PurgeableAny(m) == ledger[m] \in Sender /\ m \notin Protected

Purgeable(m) == ledger[m] = "INBOUND" /\ m \notin Protected

PurgeHistory(age) ==
    /\ RetentionTurn
    /\ \E m \in 1..age : Purgeable(m)
    /\ ledger' = [m \in Message |-> IF m <= age /\ Purgeable(m) THEN "NONE" ELSE ledger[m]]
    /\ UNCHANGED <<conversation, challenge, attempts, lapsed, prompt,
                   inbox, outbox, mode, connection, procVars>>

-----------------------------------------------------------------------------
(***************************************************************************)
(* The trusted connection: a lifecycle trigger closes the gate when it is  *)
(* recorded; a successful compare-and-swap of what Telegram reports opens  *)
(* it again.  A failed lookup or a revision conflict leaves all as it is.  *)
(***************************************************************************)
Unconfirmed == IF trust = "NONE" THEN "NONE" ELSE "PENDING"

RecordTrigger(u) ==
    /\ Working
    /\ "CONNECTION" \in Traffic
    /\ Arrives(u)
    /\ processed' = [processed EXCEPT ![u] = "RECORDED"]
    /\ facts' = [facts EXCEPT ![u] = [NoFacts EXCEPT !.action = "TRIGGER"]]
    /\ trust' = Unconfirmed
    /\ UNCHANGED <<lifecycle, outbox, mode, global, enabled, rights, procVars>>

\* Mutant: reconciled triggers hold the gate closed too.
EverTriggers == {u \in Update : facts[u].action = "TRIGGER"}

RecordedTriggers == {u \in Update : processed[u] = "RECORDED" /\ facts[u].action = "TRIGGER"}

Reported(on, rs) ==
    /\ trust # "NONE"
    /\ trust' = "CONFIRMED"
    /\ enabled' = on
    /\ rights' = rs

ReconcileTrigger(u, on, rs) ==
    /\ Working
    /\ u \in RecordedTriggers
    /\ Reported(on, rs)
    /\ processed' = [processed EXCEPT ![u] = "APPLIED"]
    /\ UNCHANGED <<lifecycle, facts, outbox, mode, global, procVars>>

\* Telegram no longer finds the connection: it is retired with all it holds.
TriggerNotFound(u) ==
    /\ "retire" \in Fault
    /\ Working
    /\ u \in RecordedTriggers
    /\ ForgetConnection
    /\ processed' = [processed EXCEPT ![u] = "APPLIED"]
    /\ UNCHANGED <<facts, outbox, mode, global, procVars>>

\* The first lookup comes before the replay; a failed one is repeated by the
\* worker.
StartupLooksUp ==
    /\ phase = "STARTING" \/ Working
    /\ startup = "PENDING"
    /\ startup' = "CONVERGED"
    /\ phase' = IF phase = "STARTING" THEN "RECOVERING" ELSE phase

ReconcileStartup(on, rs) ==
    /\ StartupLooksUp
    /\ Reported(on, rs)
    /\ UNCHANGED <<lifecycle, inbox, outbox, mode, global, task>>

StartupNotFound ==
    /\ "retire" \in Fault
    /\ StartupLooksUp
    /\ ForgetConnection
    /\ UNCHANGED <<inbox, outbox, mode, global, task>>

\* No trusted connection to look up, or no answer.
StartupUnanswered ==
    /\ phase = "STARTING"
    /\ phase' = "RECOVERING"
    /\ UNCHANGED <<storeVars, task, startup>>

PublishReady ==
    /\ Working
    /\ startup = "CONVERGED"
    /\ global = "PENDING"
    /\ trust # "PENDING"
    /\ RecordedTriggers = {}
    /\ global' = "READY"
    /\ UNCHANGED <<lifecycle, inbox, outbox, mode, trust, enabled, rights, procVars>>

-----------------------------------------------------------------------------
(***************************************************************************)
(* Crash, restart and the replay of recorded events in update order.       *)
(***************************************************************************)
Crash ==
    /\ "crash" \in Fault
    /\ phase # "DOWN"
    /\ phase' = "DOWN"
    /\ task' = Idle
    /\ UNCHANGED <<storeVars, startup>>

Restart ==
    /\ phase = "DOWN"
    /\ phase' = "STARTING"
    /\ startup' = IF trust = "NONE" THEN "CONVERGED" ELSE "PENDING"
    /\ global' = "PENDING"
    /\ trust' = Unconfirmed
    /\ UNCHANGED <<lifecycle, inbox, outbox, mode, enabled, rights, task>>

\* Mutant: an ignored event is not worth a replay.
RecoverableEffects ==
    {u \in Update : processed[u] = "RECORDED" /\ facts[u].action \notin {"TRIGGER", "IGNORE"}}

Recoverable == {u \in Update : processed[u] = "RECORDED" /\ facts[u].action # "TRIGGER"}
NextRecoverable(u) == u \in Recoverable /\ \A v \in Recoverable : u <= v

Recover ==
    /\ phase = "RECOVERING"
    /\ \E u \in Update : NextRecoverable(u) /\ ApplyRecorded(u)
    /\ UNCHANGED procVars

\* recover_recorded_events returns the first error and startup is abandoned.
StartupFails ==
    /\ phase = "RECOVERING"
    /\ \E u \in Update : NextRecoverable(u) /\ ~Applicable(facts[u], u)
    /\ phase' = "DOWN"
    /\ UNCHANGED <<storeVars, task, startup>>

Serve ==
    /\ phase = "RECOVERING"
    /\ Recoverable = {}
    /\ phase' = "SERVING"
    /\ UNCHANGED <<storeVars, task, startup>>

-----------------------------------------------------------------------------
ProcInit ==
    /\ task = Idle
    /\ phase = "SERVING"
    /\ startup = "CONVERGED"

ProcStep ==
    \/ \E u \in Update : \/ \E e \in Events(u) : Prepare(u, e)
                         \/ Duplicate(u)
                         \/ Redeliver(u)
                         \/ Command(u)
                         \/ RecordTrigger(u)
                         \/ TriggerNotFound(u)
                         \/ Lapse(u)
                         \/ PurgeHistory(u)
    \/ \E on \in BOOLEAN, rs \in RightSets :
          \/ ReconcileStartup(on, rs)
          \/ \E u \in Update : ReconcileTrigger(u, on, rs)
    \/ \E blocks \in SUBSET {c \in Chat : conversation[c] = "TEMP_SOFT_BLOCKED"} :
          ExpireDueState(blocks)
    \/ Record \/ Apply \/ ApplyRefused \/ StorageFault
    \/ StartupNotFound \/ StartupUnanswered
    \/ PublishReady \/ Restart \/ Recover \/ StartupFails \/ Serve

Init == StoreInit /\ ProcInit
Next == ProcStep \/ Crash
Spec == Init /\ [][Next]_vars

(***************************************************************************)
(* Fairness: the worker runs what it has taken up to the end, a supervisor *)
(* restarts the container, its loop retries connection lookups on a timer, *)
(* and Telegram answers one in the end.  Nothing is assumed of crashes.    *)
(***************************************************************************)
ProcessingTurn == Record \/ Apply \/ ApplyRefused
RecoveryTurn == StartupUnanswered \/ Recover \/ StartupFails \/ Serve
StartupLookup ==
    StartupNotFound \/ \E on \in BOOLEAN, rs \in RightSets : ReconcileStartup(on, rs)
TriggerLookup ==
    \E u \in Update : \/ TriggerNotFound(u)
                      \/ \E on \in BOOLEAN, rs \in RightSets : ReconcileTrigger(u, on, rs)

FairSpec ==
    /\ Spec
    /\ WF_vars(ProcessingTurn)
    /\ WF_vars(Restart)
    /\ WF_vars(RecoveryTurn)
    /\ WF_vars(StartupLookup)
    /\ WF_vars(TriggerLookup)
    /\ WF_vars(PublishReady)

-----------------------------------------------------------------------------
\* The tables and the worker's memory have their types; a worker that is not
\* serving holds no update, and every queued deletion names a message.
TypeOK ==
    /\ StoreTypeOK
    /\ task \in [pc : {"IDLE", "PREPARED", "RECORDED"}, update : 0..MaxUpdate,
                 facts : Facts, answer : Answer \cup {"NONE"}]
    /\ task.pc # "IDLE" => task.update \in Update
    /\ phase \in {"DOWN", "STARTING", "RECOVERING", "SERVING"}
    /\ startup \in {"PENDING", "CONVERGED"}
    /\ phase # "SERVING" => task = Idle

\* A contact is VERIFY_PENDING exactly while one challenge of the chat is
\* open: every path that leaves the state (answer, expiry tick, spam, Owner
\* reply, /reset) closes the challenge with it, and safe_outcome never meets
\* "VERIFY_PENDING conversation has no active challenge".
ChallengeMatchesState ==
    \A c \in Chat :
        /\ conversation[c] = "VERIFY_PENDING" <=> OpenChallenges(c) # {}
        /\ \A x, y \in OpenChallenges(c) : x = y

\* A VERIFY_PENDING contact has a challenge to answer, even when local
\* storage failures leave events to be applied late: the contact is never
\* locked out by the InvalidEvent error of safe_outcome.
PendingHasChallenge ==
    \A c \in Chat : conversation[c] = "VERIFY_PENDING" => OpenChallenges(c) # {}

\* A challenge on which max_attempts answers were spent is no longer open:
\* the budget computed at preparation is the one found at application.
SpentMeansClosed == \A x \in Update : attempts[x] = MaxAttempts => ~IsOpen(x)

\* attempts_used counts each wrong answer once: it is the number of APPLIED
\* updates that were wrong answers to this challenge, whatever was crashed,
\* recovered or redelivered in between.
WrongAnswers(x) ==
    {u \in Update : /\ processed[u] = "APPLIED"
                    /\ facts[u].challenge = x
                    /\ facts[u].action \in {"INCORRECT", "EXHAUSTED_BLOCK", "EXHAUSTED_DRY_RUN"}}
AttemptsAccounted ==
    \A x \in Update : challenge[x] # "NONE" => attempts[x] = Cardinality(WrongAnswers(x))

\* A conversation is ACTIVE exactly while the ledger holds an undeleted reply
\* of the Owner (apply_manual_owner, apply_deletions, purge_ledger, /reset).
ActiveIffOwnerReply ==
    \A c \in Chat : conversation[c] = "ACTIVE" <=>
        \E m \in Message : MessageChat(m) = c /\ ledger[m] = "OWNER"

\* The automatic cleanup of a blocked chat never names a message the Owner
\* wrote, though eligible_deletion_ids lists every sender's messages.
OwnerWrote(m) ==
    m \in Update /\ facts[m].action = "MANUAL_OWNER" /\ m \in facts[m].messages
CleanupSparesOwner ==
    \A i \in DOMAIN outbox :
        outbox[i].kind = "DELETE" /\ facts[outbox[i].update].action # "COMMAND"
            => \A m \in outbox[i].messages : ~OwnerWrote(m)

\* Whatever a crash leaves RECORDED can still be applied at the next start:
\* recover_recorded_events meets no transition or repository error, so the
\* startup it is a step of succeeds.
RecordedStaysApplicable ==
    \A u \in Update : processed[u] = "RECORDED" => Applicable(facts[u], u)

\* The effects of an update reach the outbox once: the idempotency keys of
\* its rows never collide and no crash or redelivery queues them again.
Alerts == {"challenge_send_uncertain", "business_rights_unavailable"}
EffectsOnce ==
    \A i, j \in DOMAIN outbox :
        /\ i # j
        /\ outbox[i].update = outbox[j].update
        /\ outbox[i].kind = outbox[j].kind
        /\ outbox[i].text = outbox[j].text
        => outbox[i].text \in Alerts

\* The service implements the contact's lifecycle: through crashes, replays,
\* retention and Owner commands a contact only ever makes the moves of
\* ContactGate, and loses a challenge after exactly max_attempts answers.
Gate == INSTANCE ContactGate WITH
    state <- [c \in Chat |-> StateOf(c)],
    wrong <- [c \in Chat |-> IF OpenChallenges(c) = {} THEN 0 ELSE attempts[ActiveChallenge(c)]]
ImplementsGate == Gate!Spec

\* Once the process stays up, every recorded update is applied and every
\* lifecycle trigger reconciled.
RecordedGetApplied ==
    <>[](phase # "DOWN") =>
        \A u \in Update : processed[u] = "RECORDED" ~> processed[u] = "APPLIED"

\* Once the process stays up, the gate that every start and every trigger
\* closes is opened, with the connection confirmed or retired.
GateReopens ==
    <>[](phase # "DOWN") => []<>EffectsReady

(***************************************************************************)
(* The inductive invariant behind the properties above, without storage    *)
(* faults.                                                                 *)
(***************************************************************************)
\* Facts are fresh while nothing they were computed from has changed.
Fresh(f, u) ==
    /\ Applicable(f, u)
    /\ f.action \in Answering => f.challenge \in OpenChallenges(ChatOf[u])
    /\ f.action = "INCORRECT" => ~Exhausts(f.challenge)
    /\ f.action \in {"EXHAUSTED_BLOCK", "EXHAUSTED_DRY_RUN"} => Exhausts(f.challenge)
    /\ f.action # "TRIGGER"

\* The challenge rows agree with the conversations and the inbox: an open
\* challenge has an attempt left, an update creates its challenge when it is
\* applied, and a challenge row that is not there has no attempts.
ChallengeRows ==
    /\ ChallengeMatchesState
    /\ \A x \in Update :
          /\ IsOpen(x) => attempts[x] < MaxAttempts
          /\ challenge[x] = "NONE" => attempts[x] = 0
          /\ processed[x] # "APPLIED" => challenge[x] = "NONE"

\* At most one event is between its recording and its application; it is the
\* one in the worker's hands, and what was prepared for it still holds, in
\* memory before the recording and in the table after it and after a crash,
\* unless the start after the crash finds the connection gone.
OneInFlight ==
    /\ \A u, v \in Recoverable : u = v
    /\ \A u \in Recoverable :
          /\ trust # "NONE" \/ phase = "SERVING" => Fresh(facts[u], u)
          /\ phase = "SERVING" => task.pc = "RECORDED" /\ task.update = u
    /\ task.pc = "RECORDED" => task.update \in Recoverable
    /\ task.pc = "PREPARED" => /\ Recoverable = {}
                              /\ processed[task.update] = "NONE"
                              /\ Fresh(task.facts, task.update)

-----------------------------------------------------------------------------
\* events/worker.rs: a failed application is rolled back to "leave the event
\* recoverable", and README_en.md: "SQLite recovers recorded events".
StartupCanRecover ==
    phase = "RECOVERING" =>
        \A u \in Update : NextRecoverable(u) => Applicable(facts[u], u)
=============================================================================
