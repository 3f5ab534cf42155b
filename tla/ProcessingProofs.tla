-------------------------- MODULE ProcessingProofs --------------------------
(***************************************************************************)
(* Proofs about the processing worker, for every number of updates, every  *)
(* set of contacts, every attempt limit and every kind of traffic.         *)
(***************************************************************************)
EXTENDS Processing, TLAPS, SequenceTheorems

-----------------------------------------------------------------------------
(***************************************************************************)
(* Rows of the outbox.                                                     *)
(***************************************************************************)
\* A row built from typed parts is a typed row.
LEMMA RowType ==
    ASSUME NEW u \in Update, NEW kind \in Kind, NEW c \in 0..MaxUpdate,
           NEW text \in Text, NEW ms \in SUBSET Message,
           kind = "DELETE" => ms # {}
    PROVE  Row(u, kind, c, text, ms) \in OutboxRow
  BY DEF Row, OutboxRow, Live

\* One row is a sequence of rows.
LEMMA OneRow ==
    ASSUME NEW row \in OutboxRow
    PROVE  <<row>> \in Seq(OutboxRow)
  OBVIOUS

\* Appending rows to rows gives rows.
LEMMA Rows ==
    ASSUME NEW s \in Seq(OutboxRow), NEW t \in Seq(OutboxRow)
    PROVE  s \o t \in Seq(OutboxRow)
  BY ConcatProperties

\* Rows other than deletions, alone and as a sequence.
LEMMA PlainRow ==
    ASSUME NEW u \in Update, NEW k \in Kind \ {"DELETE"}, NEW x \in 0..MaxUpdate,
           NEW t \in Text, NEW ms \in SUBSET Message
    PROVE  Row(u, k, x, t, ms) \in OutboxRow /\ <<Row(u, k, x, t, ms)>> \in Seq(OutboxRow)
  BY RowType, OneRow

\* A challenge edit is a row (enqueue_challenge_edit).
LEMMA EditRows ==
    ASSUME NEW u \in Update, NEW x \in 0..MaxUpdate, NEW t \in Text
    PROVE  EditRow(u, x, t) \in OutboxRow /\ <<EditRow(u, x, t)>> \in Seq(OutboxRow)
  BY PlainRow DEF EditRow, Kind

\* The empty sequence, and the id of no challenge.
LEMMA NoRows == <<>> \in Seq(OutboxRow) /\ 0 \in 0..MaxUpdate
  BY UpdateAssumption

\* delete_message_batches yields rows, none of them empty.
LEMMA DeletionRows ==
    ASSUME NEW u \in Update, NEW ms \in SUBSET Message
    PROVE  DeleteRows(u, ms) \in Seq(OutboxRow)
  <1>1. ms # {} => <<Row(u, "DELETE", 0, "", ms)>> \in Seq(OutboxRow)
    BY NoRows, RowType, OneRow DEF Kind, Text
  <1> QED
    BY <1>1, NoRows, Zenon DEF DeleteRows

\* The evidence and trace rows of an inbound message are rows.
LEMMA EvidenceRows ==
    ASSUME NEW f, NEW u \in Update
    PROVE  Evidence(f, u) \in Seq(OutboxRow) /\ Trace(f, u) \in Seq(OutboxRow)
  <1>1. <<OwnerRow(u, "detector_failed")>> \in Seq(OutboxRow)
        /\ <<OwnerRow(u, "trace")>> \in Seq(OutboxRow)
        /\ <<Row(u, "PROPOSED", 0, "spam", {})>> \in Seq(OutboxRow)
    BY NoRows, PlainRow DEF OwnerRow, Kind, Text
  <1> QED
    BY <1>1, NoRows, Zenon DEF Evidence, Trace

\* The READ and DELETE actions of a cleanup are rows.
LEMMA CleanupRows ==
    ASSUME NEW f \in Facts, NEW u \in Update, NEW rows
    PROVE  Cleanup(f, u, rows) \in Seq(OutboxRow)
  <1>1. f.messages \in SUBSET Message /\ EligibleDeletions(rows, ChatOf[u]) \in SUBSET Message
    BY DEF Facts, EligibleDeletions
  <1>2. <<Row(u, "READ", 0, "", f.messages)>> \in Seq(OutboxRow)
    BY <1>1, NoRows, PlainRow DEF Kind, Text
  <1>3. DeleteRows(u, EligibleDeletions(rows, ChatOf[u])) \in Seq(OutboxRow)
    BY <1>1, DeletionRows
  <1> QED
    BY <1>2, <1>3, Rows DEF Cleanup

\* A row that /reset removes is still a row.
LEMMA DeletedRow ==
    ASSUME NEW row \in OutboxRow
    PROVE  [row EXCEPT !.status = "DELETED"] \in OutboxRow
  BY DEF OutboxRow

\* The direct answers to an Owner command are rows.
LEMMA AnswerRows ==
    ASSUME NEW u \in Update
    PROVE  CommandRows(u) \in Seq(OutboxRow)
  <1>1. <<Row(u, "DIRECT", 0, "reply", {})>> \in Seq(OutboxRow)
        /\ <<Row(u, "DIRECT", 0, "trace", {})>> \in Seq(OutboxRow)
    BY NoRows, PlainRow DEF Kind, Text
  <1>2. <<Row(u, "DIRECT", 0, "reply", {})>> \o <<Row(u, "DIRECT", 0, "trace", {})>>
           \in Seq(OutboxRow)
        /\ <<Row(u, "DIRECT", 0, "reply", {})>> \o <<>> \in Seq(OutboxRow)
    BY <1>1, NoRows, Rows
  <1> QED
    BY <1>2, Zenon DEF CommandRows

\* What a handler enqueues.
LEMMA EnqueueType ==
    ASSUME NEW f \in Facts, NEW u \in Update, NEW rows \in Seq(OutboxRow),
           outbox \in Seq(OutboxRow), Enqueue(f, u, rows)
    PROVE  outbox' \in Seq(OutboxRow)
  <1>1. Evidence(f, u) \in Seq(OutboxRow) /\ Trace(f, u) \in Seq(OutboxRow)
    BY EvidenceRows
  <1>2. outbox \o Evidence(f, u) \in Seq(OutboxRow)
    BY <1>1, Rows
  <1>3. outbox \o Evidence(f, u) \o rows \in Seq(OutboxRow)
    BY <1>2, Rows
  <1>4. outbox \o Evidence(f, u) \o rows \o Trace(f, u) \in Seq(OutboxRow)
    BY <1>1, <1>3, Rows
  <1> QED
    BY <1>4 DEF Enqueue

-----------------------------------------------------------------------------
(***************************************************************************)
(* Prepared facts.                                                         *)
(***************************************************************************)
\* Update ids are message ids, and so are prompts.
LEMMA Ids == Update \subseteq Message /\ \A x \in Update : PromptOf(x) \in Message
  BY UpdateAssumption DEF Update, Message, PromptOf

\* What Telegram delivers names messages, a verdict and an answer.
LEMMA EventType ==
    ASSUME StoreTypeOK, NEW u \in Update, NEW e \in Events(u)
    PROVE  /\ e.messages \in SUBSET Message
           /\ e.verdict \in {"ALLOW", "SPAM", "ERROR"}
           /\ e.answer \in Answer \cup {"NONE"}
           /\ e.kind \in {"INBOUND", "EDITED", "OWNER", "BOT", "DELETED"}
  <1> DEFINE c == ChatOf[u]
             one(ms) == {{m} : m \in ms}
  <1>1. /\ u \in Message
        /\ Seen(c, "INBOUND") \subseteq Message /\ Seen(c, "OWNER") \subseteq Message
        /\ LateEdits(c) \subseteq Message
        /\ {PromptOf(x) : x \in {y \in prompt : ChatOf[y] = c}} \subseteq Message
        /\ EligibleDeletions(ledger, c) \subseteq Message
    BY Ids DEF Seen, LateEdits, EligibleDeletions, StoreTypeOK
  <1>2. \/ e \in RawEvent("INBOUND", {{u}}, Verdict, Answer)
        \/ e \in RawEvent("EDITED", one({u} \cup Seen(c, "INBOUND")), Verdict, {"NONE"})
        \/ e \in RawEvent("OWNER", one({u} \cup Seen(c, "OWNER") \cup LateEdits(c)),
                          {"ALLOW"}, {"NONE"})
        \/ e \in RawEvent("BOT", one({u} \cup {PromptOf(x) : x \in {y \in prompt : ChatOf[y] = c}}),
                          {"ALLOW"}, {"NONE"})
        \/ e \in RawEvent("DELETED", SUBSET EligibleDeletions(ledger, c), {"ALLOW"}, {"NONE"})
    BY Zenon DEF Events
  <1>3. \A k, ms, v, a : e \in RawEvent(k, ms, v, a) =>
           e.kind = k /\ e.messages \in ms /\ e.verdict \in v /\ e.answer \in a
    BY DEF RawEvent
  <1>4. \A ms \in SUBSET Message : \A x \in one(ms) : x \in SUBSET Message
    OBVIOUS
  <1> HIDE DEF one, c
  <1>5. CASE e \in RawEvent("INBOUND", {{u}}, Verdict, Answer)
    <2>1. /\ e.kind = "INBOUND" /\ e.messages \in {{u}}
          /\ e.verdict \in Verdict /\ e.answer \in Answer
      BY <1>3, <1>5, Zenon
    <2> QED
      BY <2>1, <1>1, VerdictAssumption
  <1>6. CASE e \in RawEvent("EDITED", one({u} \cup Seen(c, "INBOUND")), Verdict, {"NONE"})
    <2>1. {u} \cup Seen(c, "INBOUND") \in SUBSET Message
      BY <1>1
    <2>2. /\ e.kind = "EDITED" /\ e.messages \in one({u} \cup Seen(c, "INBOUND"))
          /\ e.verdict \in Verdict /\ e.answer \in {"NONE"}
      BY <1>3, <1>6, Zenon
    <2> QED
      BY <2>1, <2>2, <1>4, VerdictAssumption
  <1>7. CASE e \in RawEvent("OWNER", one({u} \cup Seen(c, "OWNER") \cup LateEdits(c)),
                            {"ALLOW"}, {"NONE"})
    <2>1. {u} \cup Seen(c, "OWNER") \cup LateEdits(c) \in SUBSET Message
      BY <1>1
    <2> QED
      BY <2>1, <1>3, <1>4, <1>7
  <1>8. CASE e \in RawEvent("BOT", one({u} \cup {PromptOf(x) : x \in {y \in prompt : ChatOf[y] = c}}),
                            {"ALLOW"}, {"NONE"})
    <2>1. {u} \cup {PromptOf(x) : x \in {y \in prompt : ChatOf[y] = c}} \in SUBSET Message
      BY <1>1
    <2> QED
      BY <2>1, <1>3, <1>4, <1>8
  <1>9. CASE e \in RawEvent("DELETED", SUBSET EligibleDeletions(ledger, c), {"ALLOW"}, {"NONE"})
    BY <1>1, <1>3, <1>9
  <1> QED
    BY <1>2, <1>5, <1>6, <1>7, <1>8, <1>9

\* An open challenge, if there is one, is an update of the chat.
LEMMA ActiveChallengeType ==
    ASSUME NEW c
    PROVE  /\ OpenChallenges(c) # {} => ActiveChallenge(c) \in OpenChallenges(c)
           /\ OpenChallenges(c) = {} => ActiveChallenge(c) = 0
           /\ ActiveChallenge(c) \in 0..MaxUpdate
  <1>1. OpenChallenges(c) # {} => ActiveChallenge(c) \in OpenChallenges(c)
    BY DEF ActiveChallenge
  <1>2. OpenChallenges(c) = {} => ActiveChallenge(c) = 0
    BY DEF ActiveChallenge
  <1>3. OpenChallenges(c) \subseteq 0..MaxUpdate
    BY UpdateAssumption DEF OpenChallenges, Update
  <1> QED
    BY <1>1, <1>2, <1>3, UpdateAssumption

\* The facts prepare computes are facts the inbox can store.
LEMMA FactsType ==
    ASSUME StoreTypeOK, NEW u \in Update, NEW e \in Events(u),
           PrepareAction(ChatOf[u], e) # "INVALID"
    PROVE  PreparedEvent(u, e) \in Facts
  <1> DEFINE c == ChatOf[u]
  <1>1. SafeOutcome(c, e) \in Action \cup {"INVALID"}
    BY DEF SafeOutcome, Action, InboundAction
  <1>2. PrepareInbound(c, e) \in Action \cup {"INVALID"}
    BY <1>1 DEF PrepareInbound, Action, InboundAction
  <1>3. PrepareAction(c, e) \in Action
    BY <1>2, EventType DEF PrepareAction, Action
  <1>4. ActiveChallenge(c) \in 0..MaxUpdate /\ 0 \in 0..MaxUpdate
    BY ActiveChallengeType, NoRows
  <1> QED
    BY <1>3, <1>4, EventType DEF PreparedEvent, Facts

-----------------------------------------------------------------------------
(***************************************************************************)
(* Types of what a step writes.                                            *)
(***************************************************************************)
\* record_message and mark_message_deleted write typed ledgers.
LEMMA LedgerType ==
    ASSUME StoreTypeOK, NEW sender \in Sender, NEW ms
    PROVE  /\ RecordMessages(sender, ms) \in [Message -> Sender \cup {"NONE", "DELETED"}]
           /\ MarkDeleted(ms) \in [Message -> Sender \cup {"NONE", "DELETED"}]
  BY DEF StoreTypeOK, RecordMessages, MarkDeleted

\* close_challenge writes a typed challenge table.
LEMMA CloseType ==
    ASSUME StoreTypeOK, NEW cs
    PROVE  CloseChallenges(cs) \in [Update -> OpenStatus \cup {"NONE", "CLOSED"}]
  BY DEF StoreTypeOK, CloseChallenges

\* save_conversation writes a typed conversation table.
LEMMA StateType ==
    ASSUME StoreTypeOK, NEW c \in Chat, NEW s \in ConversationState, SetState(c, s)
    PROVE  conversation' \in [Chat -> ConversationState \cup {"NONE"}]
  BY DEF StoreTypeOK, SetState

\* A conversation is read in one of the six states.
LEMMA StateOfType ==
    ASSUME StoreTypeOK, NEW c \in Chat
    PROVE  StateOf(c) \in ConversationState
  BY DEF StoreTypeOK, StateOf, ConversationState

\* The targets of the automaton are states.
LEMMA TransitionType ==
    /\ \A event \in DOMAIN Transition : Transition[event].to \in ConversationState
    /\ Transition["SafeFirstInbound"].to = "VERIFY_PENDING"
    /\ Transition["VerificationSucceeded"].to = "VERIFIED_WAITING_OWNER"
    /\ Transition["ChallengeExpired"].to = "NEW"
    /\ Transition["VerificationExhausted"].to = "TEMP_SOFT_BLOCKED"
    /\ Transition["SpamDetected"].to = "SPAM_SOFT_BLOCKED"
    /\ Transition["AllOwnerRepliesDeleted"].to = "NEW"
    /\ Transition["OwnerInitiatedMessage"].to = "ACTIVE"
    /\ Transition["ManualOwnerReply"].to = "ACTIVE"
  BY DEF Transition, Edge, ConversationState

\* Spending an attempt of a challenge that can be spent.
LEMMA ConsumeType ==
    ASSUME StoreTypeOK, NEW x, CanConsume(x), Consume(x)
    PROVE  attempts' \in [Update -> 0..MaxAttempts]
  BY AttemptAssumption DEF StoreTypeOK, CanConsume, Consume

\* Every handler writes typed tables.
LEMMA HandlerType ==
    ASSUME StoreTypeOK, NEW f \in Facts, NEW u \in Update,
           Applicable(f, u), ApplyFacts(f, u, ChatOf[u])
    PROVE  /\ conversation' \in [Chat -> ConversationState \cup {"NONE"}]
           /\ ledger' \in [Message -> Sender \cup {"NONE", "DELETED"}]
           /\ challenge' \in [Update -> OpenStatus \cup {"NONE", "CLOSED"}]
           /\ attempts' \in [Update -> 0..MaxAttempts]
           /\ outbox' \in Seq(OutboxRow)
  <1> DEFINE c == ChatOf[u]
             ms == f.messages
             x == f.challenge
  <1> /\ c \in Chat /\ StateOf(c) \in ConversationState
      /\ x \in 0..MaxUpdate
    BY ChatAssumption, StateOfType DEF Update, Facts
  <1> /\ conversation \in [Chat -> ConversationState \cup {"NONE"}]
      /\ ledger \in [Message -> Sender \cup {"NONE", "DELETED"}]
      /\ challenge \in [Update -> OpenStatus \cup {"NONE", "CLOSED"}]
      /\ attempts \in [Update -> 0..MaxAttempts]
      /\ outbox \in Seq(OutboxRow)
    BY DEF StoreTypeOK
  <1> HIDE DEF c
  <1> /\ "INBOUND" \in Sender /\ "OWNER" \in Sender /\ "BOT" \in Sender
      /\ {"NEW", "VERIFY_PENDING", "VERIFIED_WAITING_OWNER", "ACTIVE"} \subseteq ConversationState
      /\ SoftBlocked \subseteq ConversationState
    BY DEF Sender, ConversationState, SoftBlocked
  <1>e. \A t \in Text : <<EditRow(u, x, t)>> \in Seq(OutboxRow)
    BY EditRows
  <1>1. CASE ApplyStart(f, u, c)
    <2>1. u \in 0..MaxUpdate
      BY UpdateAssumption DEF Update
    <2>2. <<Row(u, "SEND_CHALLENGE", u, "", {})>> \in Seq(OutboxRow)
      BY <2>1, PlainRow DEF Kind, Text
    <2>3. outbox' \in Seq(OutboxRow)
      BY <1>1, <2>2, EnqueueType DEF ApplyStart
    <2>4. conversation' \in [Chat -> ConversationState \cup {"NONE"}]
      BY <1>1, StateType, TransitionType DEF ApplyStart, Advance
    <2> QED
      BY <1>1, <2>3, <2>4, LedgerType DEF ApplyStart, OpenStatus
  <1>2. CASE ApplyRetain(f, u, c)
    BY <1>2, StateType, LedgerType, EnqueueType, NoRows DEF ApplyRetain
  <1>3. ASSUME NEW action, NEW event \in DOMAIN Transition, NEW text \in Text,
               ApplyVerdict(f, u, c, action, event, text)
        PROVE  /\ conversation' \in [Chat -> ConversationState \cup {"NONE"}]
               /\ ledger' \in [Message -> Sender \cup {"NONE", "DELETED"}]
               /\ challenge' \in [Update -> OpenStatus \cup {"NONE", "CLOSED"}]
               /\ attempts' \in [Update -> 0..MaxAttempts]
               /\ outbox' \in Seq(OutboxRow)
    <2>1. outbox' \in Seq(OutboxRow)
      BY <1>3, <1>e, EnqueueType DEF ApplyVerdict
    <2>2. conversation' \in [Chat -> ConversationState \cup {"NONE"}]
      BY <1>3, StateType, TransitionType DEF ApplyVerdict, Advance
    <2> QED
      BY <1>3, <2>1, <2>2, LedgerType, CloseType DEF ApplyVerdict
  <1>4. CASE ApplyIncorrect(f, u, c)
    <2>1. outbox' \in Seq(OutboxRow)
      BY <1>4, <1>e, EnqueueType DEF ApplyIncorrect, Text
    <2>2. attempts' \in [Update -> 0..MaxAttempts]
      BY <1>4, ConsumeType DEF ApplyIncorrect, Applicable
    <2> QED
      BY <1>4, <2>1, <2>2, StateType, LedgerType DEF ApplyIncorrect
  <1>5. CASE ApplyExhausted(f, u, c)
    <2>1. attempts' \in [Update -> 0..MaxAttempts]
      BY <1>5, ConsumeType DEF ApplyExhausted, Applicable
    <2>2. <<Row(u, "PROPOSED", 0, "verification_exhausted", {}),
            EditRow(u, x, "exhausted_dry_run")>> \in Seq(OutboxRow)
      <3>1. Row(u, "PROPOSED", 0, "verification_exhausted", {}) \in OutboxRow
        BY NoRows, PlainRow DEF Kind, Text
      <3>2. EditRow(u, x, "exhausted_dry_run") \in OutboxRow
        BY EditRows DEF Text
      <3> QED
        BY <3>1, <3>2
    <2>3. outbox' \in Seq(OutboxRow)
      BY <1>5, <2>2, <1>e, EnqueueType DEF ApplyExhausted, Text
    <2>4. conversation' \in [Chat -> ConversationState \cup {"NONE"}]
      BY <1>5, StateType, TransitionType DEF ApplyExhausted, Advance, SoftBlocked
    <2> QED
      BY <1>5, <2>1, <2>3, <2>4, LedgerType, CloseType DEF ApplyExhausted
  <1>6. CASE ApplySpam(f, u, c)
    <2>1. outbox' \in Seq(OutboxRow)
      BY <1>6, CleanupRows, EnqueueType DEF ApplySpam
    <2>2. conversation' \in [Chat -> ConversationState \cup {"NONE"}]
      BY <1>6, StateType, TransitionType DEF ApplySpam, Advance, SoftBlocked
    <2> QED
      BY <1>6, <2>1, <2>2, LedgerType, CloseType DEF ApplySpam
  <1>7. CASE ApplyBlocked(f, u, c)
    <2>1. outbox' \in Seq(OutboxRow)
      BY <1>7, CleanupRows, EnqueueType DEF ApplyBlocked
    <2> QED
      BY <1>7, <2>1, StateType, LedgerType DEF ApplyBlocked
  <1>8. CASE ApplyManualOwner(f, u, c)
    <2>1. AfterOwner(c) \in ConversationState
      BY TransitionType DEF AfterOwner
    <2> QED
      BY <1>8, <2>1, StateType, LedgerType, CloseType, EnqueueType, NoRows DEF ApplyManualOwner
  <1>9. CASE ApplyBotMessage(f, u, c)
    BY <1>9, StateType, LedgerType, EnqueueType, NoRows DEF ApplyBotMessage
  <1>10. CASE ApplyDeletions(f, u, c)
    <2>1. conversation' \in [Chat -> ConversationState \cup {"NONE"}]
      BY <1>10, StateType, TransitionType DEF ApplyDeletions, Advance
    <2> QED
      BY <1>10, <2>1, LedgerType, EnqueueType, NoRows DEF ApplyDeletions
  <1>11. CASE ApplyInert(f, u)
    BY <1>11, EnqueueType, NoRows DEF ApplyInert
  <1> QED
    <2>1. /\ "VerificationSucceeded" \in DOMAIN Transition
          /\ "ChallengeExpired" \in DOMAIN Transition
          /\ "success" \in Text /\ "expired" \in Text
      BY DEF Transition, Text
    <2> QED
      BY <2>1, <1>1, <1>2, <1>3, <1>4, <1>5, <1>6, <1>7, <1>8, <1>9, <1>10, <1>11
      DEF ApplyFacts, c

-----------------------------------------------------------------------------
(***************************************************************************)
(* Type correctness.                                                       *)
(***************************************************************************)
\* The freshly migrated database and an idle worker are typed.
LEMMA TypeInit == Init => TypeOK
  BY UpdateAssumption, AttemptAssumption, ModesAssumption, NoRows
  DEF Init, StoreInit, ProcInit, TypeOK, StoreTypeOK, Idle, NoFacts, Facts, Right

\* Facts that are not about a message.
LEMMA MarkerFacts ==
    ASSUME NEW a \in {"COMMAND", "TRIGGER"}
    PROVE  [NoFacts EXCEPT !.action = a] \in Facts
  BY NoRows DEF NoFacts, Facts, Action

\* apply_recorded_event keeps every table typed.
LEMMA ApplyType ==
    ASSUME TypeOK, NEW u \in Update, ApplyRecorded(u)
    PROVE  StoreTypeOK'
  <1>1. facts[u] \in Facts
    BY DEF TypeOK, StoreTypeOK
  <1>2. /\ conversation' \in [Chat -> ConversationState \cup {"NONE"}]
        /\ ledger' \in [Message -> Sender \cup {"NONE", "DELETED"}]
        /\ challenge' \in [Update -> OpenStatus \cup {"NONE", "CLOSED"}]
        /\ attempts' \in [Update -> 0..MaxAttempts]
        /\ outbox' \in Seq(OutboxRow)
    BY <1>1, HandlerType DEF ApplyRecorded, TypeOK
  <1> QED
    BY <1>2 DEF ApplyRecorded, MarkApplied, TypeOK, StoreTypeOK, connection

\* Every Owner command keeps every table typed.
LEMMA CommandType ==
    ASSUME TypeOK, NEW u \in Update, Command(u)
    PROVE  StoreTypeOK'
  <1> USE MarkerFacts, AnswerRows DEF TypeOK, StoreTypeOK
  <1>c. ChatOf[u] \in Chat /\ "NEW" \in ConversationState
    BY ChatAssumption DEF Update, ConversationState
  <1>1. CASE ResetConversation(u)
    <2> DEFINE c == ChatOf[u]
               mine == {x \in Update : ChatOf[x] = c}
               ids == EligibleDeletions(ledger, c) \cup {PromptOf(x) : x \in prompt \cap mine}
               kept == [i \in DOMAIN outbox |->
                          IF i \in ChatRows(c) /\ outbox[i].status \in Live
                          THEN [outbox[i] EXCEPT !.status = "DELETED"] ELSE outbox[i]]
    <2>1. ids \in SUBSET Message
      BY Ids DEF EligibleDeletions
    <2>2. kept \in Seq(OutboxRow)
      <3>1. \A i \in 1..Len(outbox) : outbox[i] \in OutboxRow
                /\ [outbox[i] EXCEPT !.status = "DELETED"] \in OutboxRow
        BY DeletedRow
      <3>2. DOMAIN outbox = 1..Len(outbox) /\ Len(outbox) \in Nat
        OBVIOUS
      <3> QED
        BY <3>1, <3>2
    <2>3. kept \o DeleteRows(u, ids) \o CommandRows(u) \in Seq(OutboxRow)
      <3>1. kept \o DeleteRows(u, ids) \in Seq(OutboxRow)
        BY <2>1, <2>2, DeletionRows, Rows
      <3> QED
        BY <3>1, Rows
    <2>4. outbox' \in Seq(OutboxRow)
      BY <1>1, <2>3, Zenon DEF ResetConversation
    <2>5. conversation' \in [Chat -> ConversationState \cup {"NONE"}]
      BY <1>1, <1>c, StateType DEF ResetConversation
    <2>6. /\ ledger' \in [Message -> Sender \cup {"NONE", "DELETED"}]
          /\ challenge' \in [Update -> OpenStatus \cup {"NONE", "CLOSED"}]
          /\ attempts' \in [Update -> 0..MaxAttempts]
          /\ lapsed' \subseteq Update /\ prompt' \subseteq Update
      BY <1>1, AttemptAssumption DEF ResetConversation
    <2> QED
      BY <1>1, <2>4, <2>5, <2>6 DEF ResetConversation, Finish, connection
  <1>2. CASE Unblock(u)
    <2>1. conversation' \in [Chat -> ConversationState \cup {"NONE"}]
      BY <1>2, <1>c, StateType DEF Unblock
    <2>2. outbox' \in Seq(OutboxRow)
      BY <1>2, Rows DEF Unblock
    <2> QED
      BY <1>2, <2>1, <2>2, CloseType DEF Unblock, Finish, connection
  <1>3. ASSUME NEW on \in BOOLEAN, SetDryRun(u, on) PROVE StoreTypeOK'
    <2>1. outbox' \in Seq(OutboxRow)
      BY <1>3, Rows DEF SetDryRun
    <2> QED
      BY <1>3, <2>1 DEF SetDryRun, Finish, connection, lifecycle
  <1>4. CASE OtherCommand(u)
    <2>1. outbox' \in Seq(OutboxRow)
      BY <1>4, Rows DEF OtherCommand
    <2> QED
      BY <1>4, <2>1 DEF OtherCommand, Finish, connection, lifecycle
  <1> QED
    BY <1>1, <1>2, <1>3, <1>4 DEF Command

\* Retiring the connection empties the tables that hang on it.
LEMMA ForgetType ==
    ASSUME StoreTypeOK, ForgetConnection, UNCHANGED <<facts, outbox, mode, global>>,
           processed' \in [Update -> {"NONE", "RECORDED", "APPLIED"}]
    PROVE  StoreTypeOK'
  <1>1. 0 \in 0..MaxAttempts
    BY AttemptAssumption
  <1>2. /\ conversation' \in [Chat -> ConversationState \cup {"NONE"}]
        /\ ledger' \in [Message -> Sender \cup {"NONE", "DELETED"}]
        /\ challenge' \in [Update -> OpenStatus \cup {"NONE", "CLOSED"}]
        /\ attempts' \in [Update -> 0..MaxAttempts]
    BY <1>1 DEF ForgetConnection
  <1>3. /\ lapsed' \subseteq Update /\ prompt' \subseteq Update
        /\ trust' \in {"PENDING", "CONFIRMED", "NONE"}
        /\ enabled' \in BOOLEAN /\ rights' \subseteq Right
    BY DEF ForgetConnection
  <1> QED
    BY <1>2, <1>3 DEF StoreTypeOK

\* Every step of the worker, and a crash, keeps the types.
LEMMA TypeStep == TypeOK /\ [Next]_vars => TypeOK'
  <1> SUFFICES ASSUME TypeOK, [Next]_vars PROVE TypeOK'
    OBVIOUS
  <1> USE DEF TypeOK
  <1>i. Idle \in [pc : {"IDLE", "PREPARED", "RECORDED"}, update : 0..MaxUpdate,
                  facts : Facts, answer : Answer \cup {"NONE"}] /\ Idle.pc = "IDLE"
    BY NoRows DEF Idle, NoFacts, Facts
  <1>1. ASSUME NEW u \in Update, NEW e \in Events(u), Prepare(u, e) PROVE TypeOK'
    <2>1. PreparedEvent(u, e) \in Facts /\ e.answer \in Answer \cup {"NONE"}
      BY <1>1, FactsType, EventType DEF Prepare
    <2> QED
      BY <1>1, <2>1 DEF Prepare, Working, storeVars, lifecycle, inbox, connection,
                        StoreTypeOK, Update
  <1>2. ASSUME NEW u \in Update, Duplicate(u) PROVE TypeOK'
    BY <1>2 DEF Duplicate, vars, storeVars, procVars, lifecycle, inbox, connection, StoreTypeOK
  <1>3. ASSUME NEW u \in Update, Redeliver(u) PROVE TypeOK'
    <2>1. task' = [pc |-> "RECORDED", update |-> u, facts |-> NoFacts, answer |-> "NONE"]
      BY <1>3 DEF Redeliver, Idle
    <2>2. NoFacts \in Facts /\ u \in 0..MaxUpdate
      BY <1>3, NoRows DEF NoFacts, Facts, Update
    <2>3. phase' = "SERVING" /\ startup' = startup
      BY <1>3 DEF Redeliver, Working
    <2>4. StoreTypeOK'
      BY <1>3 DEF Redeliver, storeVars, lifecycle, inbox, connection, StoreTypeOK
    <2> QED
      BY <2>1, <2>2, <2>3, <2>4
  <1>4. ASSUME NEW u \in Update, Command(u) PROVE TypeOK'
    <2>1. UNCHANGED <<task, phase, startup>>
      BY <1>4 DEF Command, ResetConversation, Unblock, SetDryRun, OtherCommand, Finish
    <2> QED
      BY <1>4, <2>1, CommandType
  <1>5. ASSUME NEW u \in Update, RecordTrigger(u) PROVE TypeOK'
    BY <1>5, MarkerFacts DEF RecordTrigger, Unconfirmed, procVars, lifecycle, StoreTypeOK
  <1>6. ASSUME NEW u \in Update, Lapse(u) PROVE TypeOK'
    BY <1>6 DEF Lapse, procVars, inbox, connection, StoreTypeOK
  <1>7. ASSUME NEW u \in Update, PurgeHistory(u) PROVE TypeOK'
    BY <1>7 DEF PurgeHistory, procVars, inbox, connection, StoreTypeOK
  <1>8. ASSUME NEW on \in BOOLEAN, NEW rs \in RightSets, ReconcileStartup(on, rs) PROVE TypeOK'
    BY <1>8, RightSetsAssumption DEF ReconcileStartup, StartupLooksUp, Working, Reported, lifecycle, inbox, StoreTypeOK
  <1>9. ASSUME NEW on \in BOOLEAN, NEW rs \in RightSets, NEW u \in Update,
               ReconcileTrigger(u, on, rs)
        PROVE  TypeOK'
    BY <1>9, RightSetsAssumption DEF ReconcileTrigger, Reported, lifecycle, procVars, StoreTypeOK
  <1>10. ASSUME NEW blocks, ExpireDueState(blocks) PROVE TypeOK'
    <2>n. PICK n \in 0..MaxUpdate : \E order \in [1..n -> Due \cap prompt] :
             outbox' = outbox \o [i \in 1..n |-> EditRow(order[i], order[i], "expired")]
      BY <1>10 DEF ExpireDueState
    <2>1. PICK order \in [1..n -> Due \cap prompt] :
             outbox' = outbox \o [i \in 1..n |-> EditRow(order[i], order[i], "expired")]
      BY <2>n
    <2>2. n \in Nat /\ \A i \in 1..n : EditRow(order[i], order[i], "expired") \in OutboxRow
      <3>1. \A i \in 1..n : order[i] \in Update /\ order[i] \in 0..MaxUpdate
        BY UpdateAssumption DEF Due, Update
      <3>2. \A x \in Update : x \in 0..MaxUpdate => EditRow(x, x, "expired") \in OutboxRow
        BY EditRows DEF Text
      <3>3. n \in Nat
        BY UpdateAssumption
      <3> QED
        BY <3>1, <3>2, <3>3
    <2>3. [i \in 1..n |-> EditRow(order[i], order[i], "expired")] \in Seq(OutboxRow)
      BY <2>2
    <2>4. outbox' \in Seq(OutboxRow)
      BY <2>1, <2>3, Rows DEF StoreTypeOK
    <2>5. conversation' \in [Chat -> ConversationState \cup {"NONE"}]
      BY <1>10 DEF ExpireDueState, StateAfterExpiry, StoreTypeOK, ConversationState
    <2>6. challenge' \in [Update -> OpenStatus \cup {"NONE", "CLOSED"}]
      BY <1>10, CloseType DEF ExpireDueState
    <2> QED
      BY <1>10, <2>4, <2>5, <2>6 DEF ExpireDueState, procVars, inbox, connection, StoreTypeOK
  <1>11. CASE Record
    BY <1>11 DEF Record, lifecycle, connection, StoreTypeOK
  <1>12. CASE Apply
    BY <1>12, <1>i, ApplyType DEF Apply
  <1>13. CASE ApplyRefused \/ StorageFault
    BY <1>13, <1>i DEF ApplyRefused, StorageFault, storeVars, lifecycle, inbox, connection, StoreTypeOK
  <1>14. CASE PublishReady
    BY <1>14 DEF PublishReady, lifecycle, inbox, procVars, StoreTypeOK
  <1>15. CASE Restart
    BY <1>15 DEF Restart, Unconfirmed, lifecycle, inbox, StoreTypeOK
  <1>16. CASE Recover
    BY <1>16, ApplyType DEF Recover, procVars
  <1>17. CASE StartupUnanswered \/ StartupFails \/ Serve
    BY <1>17 DEF StartupUnanswered, StartupFails, Serve, storeVars, lifecycle, inbox, connection, StoreTypeOK
  <1>18. CASE Crash
    BY <1>18, <1>i DEF Crash, storeVars, lifecycle, inbox, connection, StoreTypeOK
  <1>19. CASE UNCHANGED vars
    BY <1>19 DEF vars, storeVars, procVars, lifecycle, inbox, connection, StoreTypeOK
  <1>20. ASSUME NEW u \in Update, TriggerNotFound(u) PROVE TypeOK'
    <2>1. /\ processed' \in [Update -> {"NONE", "RECORDED", "APPLIED"}]
          /\ ForgetConnection /\ UNCHANGED <<facts, outbox, mode, global, task, phase, startup>>
      BY <1>20 DEF TriggerNotFound, procVars, StoreTypeOK
    <2> QED
      BY <2>1, ForgetType
  <1>21. CASE StartupNotFound
    <2>1. /\ processed' \in [Update -> {"NONE", "RECORDED", "APPLIED"}]
          /\ ForgetConnection /\ UNCHANGED <<facts, outbox, mode, global, task>>
      BY <1>21 DEF StartupNotFound, inbox, StoreTypeOK
    <2>2. /\ phase' \in {"RECOVERING", "SERVING"} /\ startup' = "CONVERGED"
          /\ phase' # "SERVING" => task = Idle
      BY <1>21 DEF StartupNotFound, StartupLooksUp, Working
    <2> QED
      BY <2>1, <2>2, ForgetType
  <1> QED
    BY <1>1, <1>2, <1>3, <1>4, <1>5, <1>6, <1>7, <1>8, <1>9, <1>10, <1>11, <1>12,
       <1>13, <1>14, <1>15, <1>16, <1>17, <1>18, <1>19, <1>20, <1>21
    DEF Next, ProcStep

\* The tables and the worker's memory keep their types, whatever arrives,
\* crashes or fails (migrations' CHECK constraints, the enums of the code).
THEOREM TypeCorrect == Spec => []TypeOK
  BY TypeInit, TypeStep, PTL DEF Spec
=============================================================================
