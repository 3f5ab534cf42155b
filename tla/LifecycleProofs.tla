-------------------------- MODULE LifecycleProofs ---------------------------
(***************************************************************************)
(* Safety of the verification lifecycle for every instance in which SQLite *)
(* refuses no write.  The argument: one event at a time is between its     *)
(* preparation and its application, and nothing that runs in between (a    *)
(* crash, the replay, the clock, a connection lookup) touches what it was  *)
(* prepared from; so what the preparation decided still holds when it is   *)
(* applied, and each application keeps challenges and states in step.  The *)
(* exception is a start that finds the connection gone: it empties the     *)
(* tables, and then only events without effects are applied.               *)
(***************************************************************************)
EXTENDS ProcessingProofs

-----------------------------------------------------------------------------
(***************************************************************************)
(* How a transaction keeps challenge rows and conversations in step.       *)
(***************************************************************************)
\* Only an application or a command makes an update APPLIED, and none undoes it.
Forward == \A x \in Update : processed'[x] # "APPLIED" => processed[x] # "APPLIED"

\* A transaction that leaves challenges alone and does not move a contact
\* into or out of VERIFY_PENDING.
LEMMA RowsKept ==
    ASSUME TypeOK, ChallengeRows, Forward,
           challenge' = challenge, attempts' = attempts,
           \A d \in Chat : conversation'[d] = "VERIFY_PENDING"
                              <=> conversation[d] = "VERIFY_PENDING"
    PROVE  ChallengeRows'
  BY DEF ChallengeRows, ChallengeMatchesState, OpenChallenges, IsOpen, Forward

\* A transaction that closes what is open in one chat as the contact leaves
\* VERIFY_PENDING; it may count an answer on the challenge it closes.
LEMMA RowsClosed ==
    ASSUME TypeOK, ChallengeRows, Forward,
           NEW c \in Chat, NEW s \in ConversationState, NEW cs,
           s # "VERIFY_PENDING",
           conversation' = [conversation EXCEPT ![c] = s],
           OpenChallenges(c) \subseteq cs,
           \A x \in Update : x \in cs => ChatOf[x] = c,
           challenge' = CloseChallenges(cs),
           \A x \in Update : attempts'[x] = attempts[x] \/ x \in OpenChallenges(c)
    PROVE  ChallengeRows'
  <1>1. \A x \in Update :
          /\ challenge'[x] = IF x \in cs /\ IsOpen(x) THEN "CLOSED" ELSE challenge[x]
          /\ challenge'[x] \in OpenStatus <=> IsOpen(x) /\ ChatOf[x] # c
    BY DEF CloseChallenges, OpenChallenges, IsOpen, OpenStatus
  <1>2. \A d \in Chat : /\ d = c => OpenChallenges(d)' = {}
                        /\ d # c => OpenChallenges(d)' = OpenChallenges(d)
    BY <1>1 DEF OpenChallenges, IsOpen
  <1>3. ChallengeMatchesState'
    BY <1>2 DEF ChallengeMatchesState, ChallengeRows, TypeOK, StoreTypeOK
  <1>4. \A x \in Update : /\ IsOpen(x)' => IsOpen(x) /\ attempts'[x] = attempts[x]
                          /\ challenge'[x] = "NONE" <=> challenge[x] = "NONE"
                          /\ challenge[x] = "NONE" => attempts'[x] = attempts[x]
    BY <1>1 DEF OpenChallenges, IsOpen, OpenStatus
  <1> QED
    BY <1>3, <1>4 DEF ChallengeRows, Forward

-----------------------------------------------------------------------------
(***************************************************************************)
(* What is prepared is applicable.                                         *)
(***************************************************************************)
\* The challenge the preparation reads is open and belongs to the chat.
LEMMA ActiveIsOpen ==
    ASSUME NEW c, ActiveChallenge(c) # 0
    PROVE  ActiveChallenge(c) \in OpenChallenges(c)
  BY DEF ActiveChallenge

\* The preparation reads the tables in one transaction, so its facts are
\* fresh the moment they are computed.
LEMMA PrepareFresh ==
    ASSUME TypeOK, ChallengeRows, NEW u \in Update, NEW e \in Events(u),
           PrepareAction(ChatOf[u], e) # "INVALID"
    PROVE  Fresh(PreparedEvent(u, e), u)
  <1> DEFINE c == ChatOf[u]
             f == PreparedEvent(u, e)
  <1>c. c \in Chat /\ StateOf(c) \in ConversationState
    BY ChatAssumption, StateOfType DEF Update, TypeOK
  <1>k. e.kind \in {"INBOUND", "EDITED", "OWNER", "BOT", "DELETED"}
    BY EventType DEF TypeOK
  <1>a. f.action = PrepareAction(c, e)
        /\ (f.action \in Answering => f.challenge = ActiveChallenge(c))
    BY DEF PreparedEvent
  <1>s. f.action \in InboundAction
           => \/ f.action = "SPAM" /\ StateOf(c) \notin SoftBlocked \cup {"ACTIVE"}
              \/ f.action = "RETAIN"
              \/ f.action = SafeOutcome(c, e) /\ StateOf(c) \notin SoftBlocked \cup {"ACTIVE"}
    BY <1>a, <1>k, Zenon DEF PrepareAction, PrepareInbound, InboundAction
  <1>n. f.action \notin InboundAction => f.action \notin Answering \cup {"START", "SPAM", "TRIGGER"}
    <2>1. f.action = SafeOutcome(c, e) => f.action \in InboundAction \cup {"INVALID"}
      BY Zenon DEF SafeOutcome, InboundAction
    <2>2. f.action \in InboundAction \/ f.action = SafeOutcome(c, e)
          \/ f.action \in {"IGNORE", "MANUAL_OWNER", "BOT_MESSAGE", "MESSAGES_DELETED",
                           "ACTIVE_INBOUND", "BLOCKED_INBOUND", "BLOCKED_FAIL_OPEN"}
      BY <1>a, <1>k, Zenon DEF PrepareAction, PrepareInbound, InboundAction
    <2> QED
      BY <1>a, <2>1, <2>2 DEF InboundAction, Answering
  <1>t. f.action # "IGNORE" => trust # "NONE"
    BY <1>a DEF PrepareAction, KnownConnection
  <1>1. CASE f.action \notin InboundAction
    BY <1>1, <1>n, <1>t DEF Fresh, Applicable, Answering, InboundAction
  <1>2. CASE f.action \in {"RETAIN"}
    BY <1>2, <1>t DEF Fresh, Applicable, Answering
  <1>3. CASE f.action = "SPAM"
    <2>1. StateOf(c) \notin SoftBlocked \cup {"ACTIVE"}
      <3>1. f.action # SafeOutcome(c, e)
        BY <1>3, Zenon DEF SafeOutcome
      <3> QED
        BY <1>3, <1>s, <3>1 DEF InboundAction
    <2>2. Permits(c, "SpamDetected")
      BY <2>1, <1>c DEF Permits, Transition, Edge, SoftBlocked, ConversationState
    <2> QED
      BY <1>3, <1>t, <2>2 DEF Fresh, Applicable, Answering
  <1>4. CASE f.action = SafeOutcome(c, e) /\ f.action \in InboundAction
             /\ f.action \notin {"RETAIN", "SPAM"}
    <2>1. StateOf(c) \notin SoftBlocked \cup {"ACTIVE"}
      BY <1>4, <1>s
    <2>2. CASE StateOf(c) = "NEW"
      <3>1. f.action = "START"
        BY <1>4, <2>2 DEF SafeOutcome
      <3>2. OpenChallenges(c) = {}
        BY <1>c, <2>2 DEF ChallengeRows, ChallengeMatchesState, StateOf
      <3>3. Permits(c, "SafeFirstInbound")
        BY <2>2 DEF Permits, Transition, Edge
      <3> QED
        BY <1>t, <3>1, <3>2, <3>3 DEF Fresh, Applicable, Answering
    <2>3. CASE StateOf(c) = "VERIFY_PENDING"
      <3> DEFINE x == ActiveChallenge(c)
      <3>1. f.action \in Answering /\ x # 0 /\ f.challenge = x
        <4>1. x # 0
          BY <1>4, <1>a, <2>3 DEF SafeOutcome
        <4>2. SafeOutcome(c, e) \in Answering \cup {"RETAIN"}
          BY <4>1, <2>3, Zenon DEF SafeOutcome, Answering
        <4> QED
          BY <4>1, <4>2, <1>4, <1>a
      <3>2. x \in OpenChallenges(c)
        BY <3>1, ActiveIsOpen
      <3>3. CanConsume(x)
        BY <3>2 DEF CanConsume, OpenChallenges, ChallengeRows
      <3>4. /\ f.action = "INCORRECT" => ~Exhausts(x)
            /\ f.action \in {"EXHAUSTED_BLOCK", "EXHAUSTED_DRY_RUN"} => Exhausts(x)
        BY <1>4, <2>3, Zenon DEF SafeOutcome
      <3>5. Permits(c, "VerificationSucceeded") /\ Permits(c, "ChallengeExpired")
            /\ Permits(c, "VerificationExhausted")
        BY <2>3 DEF Permits, Transition, Edge
      <3> QED
        BY <1>t, <3>1, <3>2, <3>3, <3>4, <3>5 DEF Fresh, Applicable, Answering
    <2>4. CASE StateOf(c) = "VERIFIED_WAITING_OWNER"
      BY <1>4, <2>4 DEF SafeOutcome
    <2> QED
      BY <1>c, <2>1, <2>2, <2>3, <2>4 DEF ConversationState, SoftBlocked
  <1> QED
    BY <1>s, <1>1, <1>2, <1>3, <1>4

-----------------------------------------------------------------------------
(***************************************************************************)
(* Applying fresh facts keeps the rows in step.                            *)
(***************************************************************************)
\* apply_recorded_event, on fresh facts, keeps challenges and states in step.
LEMMA ApplyRows ==
    ASSUME TypeOK, ChallengeRows, NEW u \in Update,
           Fresh(facts[u], u), ApplyRecorded(u)
    PROVE  ChallengeRows'
  <1> DEFINE c == ChatOf[u]
             f == facts[u]
             x == f.challenge
  <1>c. c \in Chat /\ StateOf(c) \in ConversationState
    BY ChatAssumption, StateOfType DEF Update, TypeOK
  <1>p. StateOf(c) = "VERIFY_PENDING" <=> conversation[c] = "VERIFY_PENDING"
    BY DEF StateOf
  <1>f. Forward
    BY DEF ApplyRecorded, MarkApplied, Forward, TypeOK, StoreTypeOK
  <1>t. conversation \in [Chat -> ConversationState \cup {"NONE"}]
        /\ attempts \in [Update -> 0..MaxAttempts]
        /\ challenge \in [Update -> OpenStatus \cup {"NONE", "CLOSED"}]
    BY DEF TypeOK, StoreTypeOK
  <1>o. f.action \in Answering => /\ x \in Update /\ IsOpen(x) /\ ChatOf[x] = c
                                 /\ OpenChallenges(c) = {x}
    BY <1>c DEF Fresh, OpenChallenges, ChallengeRows, ChallengeMatchesState
  <1>k. ASSUME SetState(c, StateOf(c)), UNCHANGED <<challenge, attempts>>
        PROVE  ChallengeRows'
    <2>1. \A d \in Chat : conversation'[d] = "VERIFY_PENDING" <=> conversation[d] = "VERIFY_PENDING"
      BY <1>k, <1>p, <1>t DEF SetState
    <2> QED
      BY <1>k, <1>f, <2>1, RowsKept
  <1>l. ASSUME NEW s \in ConversationState, s # "VERIFY_PENDING", SetState(c, s),
               NEW cs, OpenChallenges(c) \subseteq cs,
               \A y \in Update : y \in cs => ChatOf[y] = c,
               challenge' = CloseChallenges(cs),
               \A y \in Update : attempts'[y] = attempts[y] \/ y \in OpenChallenges(c)
        PROVE  ChallengeRows'
    BY <1>l, <1>c, <1>f, RowsClosed DEF SetState
  <1>1. CASE ApplyStart(f, u, c)
    <2>1. challenge' = [challenge EXCEPT ![u] = "PENDING"] /\ attempts' = attempts
          /\ conversation' = [conversation EXCEPT ![c] = "VERIFY_PENDING"]
          /\ f.action = "START"
      BY <1>1, TransitionType DEF ApplyStart, Advance, SetState
    <2>2. OpenChallenges(c) = {} /\ challenge[u] = "NONE"
      BY <2>1 DEF Fresh, Applicable, ApplyRecorded, ChallengeRows
    <2>3. \A y \in Update : challenge'[y] = IF y = u THEN "PENDING" ELSE challenge[y]
      BY <2>1, <1>t
    <2>4. \A d \in Chat : /\ d = c => OpenChallenges(d)' = {u}
                          /\ d # c => OpenChallenges(d)' = OpenChallenges(d)
      BY <2>2, <2>3 DEF OpenChallenges, IsOpen, OpenStatus
    <2>5. ChallengeMatchesState'
      BY <2>1, <2>4, <1>t, <1>c DEF ChallengeMatchesState, ChallengeRows
    <2>6. processed' = [processed EXCEPT ![u] = "APPLIED"]
      BY DEF ApplyRecorded, MarkApplied
    <2>7. attempts[u] = 0 /\ 0 < MaxAttempts
      BY <2>2, AttemptAssumption DEF ChallengeRows
    <2>8. \A y \in Update : /\ IsOpen(y)' => attempts'[y] < MaxAttempts
                            /\ challenge'[y] = "NONE" => attempts'[y] = 0
                            /\ processed'[y] # "APPLIED" => challenge'[y] = "NONE"
      BY <2>1, <2>3, <2>6, <2>7 DEF ChallengeRows, IsOpen, OpenStatus, TypeOK, StoreTypeOK
    <2> QED
      BY <2>5, <2>8 DEF ChallengeRows
  <1>2. CASE ApplyRetain(f, u, c)
    BY <1>2, <1>k DEF ApplyRetain
  <1>3. ASSUME NEW action \in Answering, NEW event \in DOMAIN Transition, NEW text,
               Transition[event].to # "VERIFY_PENDING",
               ApplyVerdict(f, u, c, action, event, text)
        PROVE  ChallengeRows'
    BY <1>3, <1>o, <1>l, TransitionType DEF ApplyVerdict, Advance
  <1>4. CASE ApplyIncorrect(f, u, c)
    <2>1. x \in Update /\ attempts' = [attempts EXCEPT ![x] = @ + 1]
          /\ challenge' = challenge /\ ~Exhausts(x) /\ IsOpen(x)
      BY <1>4, <1>o DEF ApplyIncorrect, Consume, Answering, Fresh
    <2>2. \A d \in Chat : conversation'[d] = "VERIFY_PENDING" <=> conversation[d] = "VERIFY_PENDING"
      BY <1>4, <1>p, <1>t DEF ApplyIncorrect, SetState
    <2>3. ChallengeMatchesState'
      BY <2>1, <2>2 DEF ChallengeMatchesState, ChallengeRows, OpenChallenges, IsOpen
    <2>4. \A y \in Update : attempts'[y] = IF y = x THEN attempts[x] + 1 ELSE attempts[y]
      BY <2>1, <1>t
    <2>5. attempts[x] + 1 < MaxAttempts
      BY <2>1, <1>t, AttemptAssumption DEF Exhausts
    <2> QED
      BY <2>1, <2>3, <2>4, <2>5, <1>f DEF ChallengeRows, IsOpen, OpenStatus, Forward
  <1>5. CASE ApplyExhausted(f, u, c)
    <2>1. f.action \in Answering
      BY <1>5 DEF ApplyExhausted, Answering
    <2>2. \A y \in Update : attempts'[y] = attempts[y] \/ y = x
      BY <1>5, <1>t DEF ApplyExhausted, Consume
    <2>3. SetState(c, "TEMP_SOFT_BLOCKED") \/ SetState(c, "NEW")
      BY <1>5, TransitionType DEF ApplyExhausted, Advance
    <2>4. challenge' = CloseChallenges({x})
      BY <1>5 DEF ApplyExhausted
    <2> QED
      BY <2>1, <2>2, <2>3, <2>4, <1>o, <1>l DEF ConversationState
  <1>6. CASE ApplySpam(f, u, c)
    <2>1. SetState(c, "SPAM_SOFT_BLOCKED")
      BY <1>6, TransitionType DEF ApplySpam, Advance
    <2>2. challenge' = CloseChallenges(OpenChallenges(c)) /\ attempts' = attempts
      BY <1>6 DEF ApplySpam
    <2> QED
      BY <2>1, <2>2, <1>l DEF ConversationState, OpenChallenges
  <1>7. CASE ApplyBlocked(f, u, c)
    BY <1>7, <1>k DEF ApplyBlocked
  <1>8. CASE ApplyManualOwner(f, u, c)
    <2>1. SetState(c, "ACTIVE")
      BY <1>8, TransitionType DEF ApplyManualOwner, AfterOwner
    <2>2. challenge' = CloseChallenges(OpenChallenges(c)) /\ attempts' = attempts
      BY <1>8 DEF ApplyManualOwner
    <2> QED
      BY <2>1, <2>2, <1>l DEF ConversationState, OpenChallenges
  <1>9. CASE ApplyBotMessage(f, u, c)
    BY <1>9, <1>k DEF ApplyBotMessage
  <1>10. CASE ApplyDeletions(f, u, c)
    <2>1. UNCHANGED <<challenge, attempts>>
      BY <1>10 DEF ApplyDeletions
    <2>2. SetState(c, StateOf(c)) \/ (StateOf(c) = "ACTIVE" /\ SetState(c, "NEW"))
      BY <1>10, TransitionType DEF ApplyDeletions, Advance
    <2>3. \A d \in Chat : conversation'[d] = "VERIFY_PENDING" <=> conversation[d] = "VERIFY_PENDING"
      BY <2>2, <1>p, <1>t DEF SetState
    <2> QED
      BY <2>1, <2>3, <1>f, RowsKept
  <1>11. CASE ApplyInert(f, u)
    BY <1>11, <1>f, RowsKept DEF ApplyInert
  <1> QED
    <2>1. /\ "VerificationSucceeded" \in DOMAIN Transition
          /\ "ChallengeExpired" \in DOMAIN Transition
          /\ {"CORRECT", "EXPIRED"} \subseteq Answering
      BY DEF Transition, Answering
    <2>2. ApplyFacts(f, u, c)
      BY DEF ApplyRecorded
    <2> QED
      BY <2>1, <2>2, <1>1, <1>2, <1>3, <1>4, <1>5, <1>6, <1>7, <1>8, <1>9, <1>10, <1>11,
         TransitionType
      DEF ApplyFacts

-----------------------------------------------------------------------------
(***************************************************************************)
(* Owner commands and the retention tick.                                  *)
(***************************************************************************)
\* /reset, /unblock and the other commands keep them in step.
LEMMA CommandChallengeRows ==
    ASSUME TypeOK, ChallengeRows, NEW u \in Update, Command(u)
    PROVE  ChallengeRows'
  <1> DEFINE c == ChatOf[u]
  <1>c. c \in Chat
    BY ChatAssumption DEF Update
  <1>t. conversation \in [Chat -> ConversationState \cup {"NONE"}]
    BY DEF TypeOK, StoreTypeOK
  <1>f. Forward
    BY DEF Command, ResetConversation, Unblock, SetDryRun, OtherCommand, Finish, Forward,
           TypeOK, StoreTypeOK
  <1>1. CASE ResetConversation(u)
    <2>1. /\ conversation' = [conversation EXCEPT ![c] = "NEW"]
          /\ \A x \in Update : challenge'[x] = IF ChatOf[x] = c THEN "NONE" ELSE challenge[x]
          /\ \A x \in Update : attempts'[x] = IF ChatOf[x] = c THEN 0 ELSE attempts[x]
      BY <1>1 DEF ResetConversation, SetState
    <2>2. \A d \in Chat : /\ d = c => OpenChallenges(d)' = {}
                          /\ d # c => OpenChallenges(d)' = OpenChallenges(d)
      BY <2>1 DEF OpenChallenges, IsOpen, OpenStatus
    <2>3. ChallengeMatchesState'
      BY <2>1, <2>2, <1>t DEF ChallengeMatchesState, ChallengeRows
    <2> QED
      BY <2>1, <2>3, <1>f DEF ChallengeRows, IsOpen, OpenStatus, Forward
  <1>2. CASE Unblock(u)
    <2>1. /\ conversation' = [conversation EXCEPT ![c] = "NEW"]
          /\ challenge' = CloseChallenges(OpenChallenges(c))
          /\ attempts' = attempts
      BY <1>2 DEF Unblock, SetState
    <2>2. "NEW" \in ConversationState /\ \A x \in OpenChallenges(c) : ChatOf[x] = c
      BY DEF ConversationState, OpenChallenges
    <2> QED
      BY <2>1, <2>2, <1>c, <1>f, RowsClosed
  <1>3. CASE \E on \in BOOLEAN : SetDryRun(u, on)
    BY <1>3, <1>f, RowsKept DEF SetDryRun, lifecycle
  <1>4. CASE OtherCommand(u)
    BY <1>4, <1>f, RowsKept DEF OtherCommand, lifecycle
  <1> QED
    BY <1>1, <1>2, <1>3, <1>4 DEF Command

\* One tick expires the due challenges of every chat at once.
LEMMA ExpiryRows ==
    ASSUME TypeOK, ChallengeRows, NEW blocks, ExpireDueState(blocks)
    PROVE  ChallengeRows'
  <1>t. conversation \in [Chat -> ConversationState \cup {"NONE"}]
    BY DEF TypeOK, StoreTypeOK
  <1>1. /\ \A x \in Update : challenge'[x] = IF x \in Due THEN "CLOSED" ELSE challenge[x]
        /\ attempts' = attempts /\ processed' = processed
    BY DEF ExpireDueState, CloseChallenges, Due, inbox
  <1>2. \A d \in Chat :
          conversation'[d] = "VERIFY_PENDING"
             <=> conversation[d] = "VERIFY_PENDING" /\ ~\E x \in Due : ChatOf[x] = d
    BY DEF ExpireDueState, StateAfterExpiry
  <1>3. \A d \in Chat : OpenChallenges(d)' = OpenChallenges(d) \ Due
    BY <1>1 DEF OpenChallenges, IsOpen, OpenStatus
  <1>4. \A d \in Chat, x \in Due : ChatOf[x] = d <=> x \in OpenChallenges(d)
    BY DEF Due, OpenChallenges
  <1>5. ChallengeMatchesState'
    BY <1>2, <1>3, <1>4 DEF ChallengeMatchesState, ChallengeRows
  <1> QED
    BY <1>1, <1>5 DEF ChallengeRows, IsOpen, OpenStatus, Due

-----------------------------------------------------------------------------
(***************************************************************************)
(* The induction.                                                          *)
(***************************************************************************)
\* The invariant that every step preserves.
LifecycleInv == TypeOK /\ ChallengeRows /\ OneInFlight

\* Between two updates nothing is left to recover.
LEMMA QuietWhenIdle ==
    ASSUME OneInFlight, Working
    PROVE  Recoverable = {}
  BY DEF OneInFlight, Working, Idle

\* The connection is neither retired nor installed.
SameConnection == trust' = "NONE" <=> trust = "NONE"

\* A step that leaves the inbox, the challenges and the conversations alone
\* keeps facts fresh.
LEMMA FreshKept ==
    ASSUME NEW f, NEW u, UNCHANGED <<conversation, challenge, attempts>>, SameConnection
    PROVE  Fresh(f, u)' <=> Fresh(f, u)
  BY DEF Fresh, Applicable, CanConsume, Permits, StateOf, OpenChallenges, IsOpen, Exhausts,
         SameConnection

\* Fresh facts handed on are fresh facts: to the worker, and to the table.
LEMMA FreshHanded ==
    ASSUME NEW f, NEW u, Fresh(f, u), UNCHANGED <<conversation, challenge, attempts>>,
           SameConnection
    PROVE  /\ task'.facts = f /\ task'.update = u => Fresh(task.facts, task.update)'
           /\ facts'[u] = f => Fresh(facts[u], u)'
  BY DEF Fresh, Applicable, CanConsume, Permits, StateOf, OpenChallenges, IsOpen, Exhausts,
         SameConnection

\* What the replay applies is fresh even when the connection is gone: then
\* only an event without effects applies.
LEMMA FreshWhenApplied ==
    ASSUME OneInFlight, NEW u \in Recoverable, ApplyRecorded(u)
    PROVE  Fresh(facts[u], u)
  <1>1. CASE trust # "NONE"
    BY <1>1 DEF OneInFlight
  <1>2. CASE trust = "NONE"
    BY <1>2 DEF ApplyRecorded, Applicable, Fresh, Recoverable, Answering
  <1> QED
    BY <1>1, <1>2

\* Retiring the connection leaves no challenge and no conversation.
LEMMA RowsForgotten ==
    ASSUME ForgetConnection
    PROVE  ChallengeRows'
  BY DEF ForgetConnection, ChallengeRows, ChallengeMatchesState, OpenChallenges, IsOpen, OpenStatus

\* A worker that takes its next update when nothing is left to recover, and
\* hands none over itself.
LEMMA NothingInFlight ==
    ASSUME Recoverable' = {}, task'.pc = "IDLE"
    PROVE  OneInFlight'
  BY DEF OneInFlight

\* The freshly migrated database satisfies the invariant.
LEMMA LifecycleInit == Init => LifecycleInv
  <1> SUFFICES ASSUME Init PROVE ChallengeRows /\ OneInFlight
    BY TypeInit DEF LifecycleInv
  <1>1. ChallengeRows
    BY DEF Init, StoreInit, ChallengeRows, ChallengeMatchesState, OpenChallenges, IsOpen, OpenStatus
  <1>2. Recoverable = {} /\ task.pc = "IDLE"
    BY DEF Init, StoreInit, ProcInit, Recoverable, Idle
  <1> QED
    BY <1>1, <1>2 DEF OneInFlight

\* An application by the worker or by the startup replay leaves nothing
\* recorded.
LEMMA ApplyDrains ==
    ASSUME TypeOK, OneInFlight, NEW u \in Recoverable, ApplyRecorded(u)
    PROVE  Recoverable' = {}
  BY DEF OneInFlight, Recoverable, ApplyRecorded, MarkApplied, TypeOK, StoreTypeOK

\* Without storage faults every step keeps the invariant.
LEMMA LifecycleStep ==
    ASSUME "storage" \notin Fault
    PROVE  LifecycleInv /\ [Next]_vars => LifecycleInv'
  <1> SUFFICES ASSUME LifecycleInv, [Next]_vars PROVE ChallengeRows' /\ OneInFlight'
    BY TypeStep DEF LifecycleInv
  <1> USE DEF LifecycleInv
  <1>i. Idle.pc = "IDLE"
    BY DEF Idle
  <1>q. Working => Recoverable = {} /\ task.pc = "IDLE"
    BY <1>i, QuietWhenIdle DEF Working
  <1>p. processed \in [Update -> {"NONE", "RECORDED", "APPLIED"}] /\ facts \in [Update -> Facts]
    BY DEF TypeOK, StoreTypeOK
  <1>s. ASSUME UNCHANGED <<lifecycle, inbox, task>>, SameConnection,
               phase' = "SERVING" <=> phase = "SERVING"
        PROVE  ChallengeRows' /\ OneInFlight'
    <2>1. ChallengeRows'
      BY <1>s, RowsKept DEF lifecycle, inbox, Forward
    <2>2. Recoverable' = Recoverable
      BY <1>s DEF Recoverable, inbox
    <2> QED
      BY <1>s, <2>1, <2>2, FreshKept DEF OneInFlight, lifecycle, inbox, SameConnection
  <1>1. ASSUME NEW u \in Update, NEW e \in Events(u), Prepare(u, e)
        PROVE  ChallengeRows' /\ OneInFlight'
    <2>1. UNCHANGED <<conversation, challenge, attempts, processed, facts>> /\ SameConnection
          /\ Recoverable' = {} /\ processed[u] = "NONE" /\ task'.pc = "PREPARED"
          /\ task'.update = u /\ task'.facts = PreparedEvent(u, e)
      BY <1>1, <1>q DEF Prepare, Arrives, storeVars, lifecycle, inbox, connection, Recoverable,
                        SameConnection
    <2>2. Fresh(PreparedEvent(u, e), u)
      BY <1>1, PrepareFresh DEF Prepare
    <2>f. PICK f : f = PreparedEvent(u, e)
      OBVIOUS
    <2>3. Fresh(task.facts, task.update)'
      BY <2>1, <2>2, <2>f, FreshHanded
    <2>4. ChallengeRows'
      BY <2>1, RowsKept DEF Forward
    <2> QED
      BY <2>1, <2>3, <2>4 DEF OneInFlight
  <1>2. ASSUME NEW u \in Update, Duplicate(u) PROVE ChallengeRows' /\ OneInFlight'
    BY <1>2, <1>s DEF Duplicate, vars, storeVars, procVars, connection, SameConnection
  <1>3. ASSUME NEW u \in Update, Redeliver(u) PROVE FALSE
    BY <1>3, <1>q DEF Redeliver, Recoverable
  <1>4. ASSUME NEW u \in Update, Command(u) PROVE ChallengeRows' /\ OneInFlight'
    <2>1. Working /\ UNCHANGED task /\ processed' = [processed EXCEPT ![u] = "APPLIED"]
          /\ facts' = [facts EXCEPT ![u] = [NoFacts EXCEPT !.action = "COMMAND"]]
      BY <1>4 DEF Command, ResetConversation, Unblock, SetDryRun, OtherCommand,
                  CommandAccepted, Finish
    <2>2. Recoverable' = {} /\ task'.pc = "IDLE"
      BY <2>1, <1>q, <1>p DEF Recoverable
    <2> QED
      BY <1>4, <2>2, NothingInFlight, CommandChallengeRows
  <1>5. ASSUME NEW u \in Update, RecordTrigger(u) PROVE ChallengeRows' /\ OneInFlight'
    <2>1. Working /\ UNCHANGED <<task, conversation, challenge, attempts>>
          /\ processed[u] = "NONE" /\ processed' = [processed EXCEPT ![u] = "RECORDED"]
          /\ facts' = [facts EXCEPT ![u] = [NoFacts EXCEPT !.action = "TRIGGER"]]
      BY <1>5 DEF RecordTrigger, Arrives, lifecycle, procVars
    <2>2. [NoFacts EXCEPT !.action = "TRIGGER"].action = "TRIGGER"
      BY DEF NoFacts
    <2>3. Recoverable' = {} /\ task'.pc = "IDLE"
      BY <2>1, <2>2, <1>q, <1>p DEF Recoverable
    <2>4. ChallengeRows'
      BY <2>1, <1>p, RowsKept DEF Forward
    <2> QED
      BY <2>3, <2>4, NothingInFlight
  <1>6. ASSUME NEW u \in Update, Lapse(u) PROVE ChallengeRows' /\ OneInFlight'
    <2>1. UNCHANGED <<conversation, challenge, attempts, processed, facts, task, phase, trust>>
      BY <1>6 DEF Lapse, inbox, procVars, connection
    <2>2. Recoverable' = Recoverable /\ ChallengeRows'
      BY <2>1, RowsKept DEF Recoverable, Forward
    <2> QED
      BY <2>1, <2>2, FreshKept DEF OneInFlight, SameConnection
  <1>7. ASSUME NEW u \in Update, PurgeHistory(u) PROVE ChallengeRows' /\ OneInFlight'
    <2>1. UNCHANGED <<conversation, challenge, attempts, processed, facts, task, phase, trust>>
      BY <1>7 DEF PurgeHistory, inbox, procVars, connection
    <2>2. Recoverable' = Recoverable /\ ChallengeRows'
      BY <2>1, RowsKept DEF Recoverable, Forward
    <2> QED
      BY <2>1, <2>2, FreshKept DEF OneInFlight, SameConnection
  <1>8. ASSUME NEW on \in BOOLEAN, NEW rs \in RightSets, ReconcileStartup(on, rs)
        PROVE  ChallengeRows' /\ OneInFlight'
    BY <1>8, <1>s DEF ReconcileStartup, StartupLooksUp, Working, Reported, SameConnection
  <1>9. ASSUME NEW on \in BOOLEAN, NEW rs \in RightSets, NEW u \in Update,
               ReconcileTrigger(u, on, rs)
        PROVE  ChallengeRows' /\ OneInFlight'
    <2>1. Working /\ UNCHANGED <<task, conversation, challenge, attempts, facts>>
          /\ processed' = [processed EXCEPT ![u] = "APPLIED"]
      BY <1>9 DEF ReconcileTrigger, lifecycle, procVars
    <2>2. Recoverable' = {} /\ task'.pc = "IDLE"
      BY <2>1, <1>q, <1>p DEF Recoverable
    <2>3. ChallengeRows'
      BY <2>1, <1>p, RowsKept DEF Forward
    <2> QED
      BY <2>2, <2>3, NothingInFlight
  <1>10. ASSUME NEW blocks, ExpireDueState(blocks) PROVE ChallengeRows' /\ OneInFlight'
    <2>1. Working /\ UNCHANGED <<task, processed, facts>>
      BY <1>10 DEF ExpireDueState, RetentionTurn, inbox, procVars
    <2>2. Recoverable' = {} /\ task'.pc = "IDLE"
      BY <2>1, <1>q DEF Recoverable
    <2> QED
      BY <1>10, <2>2, NothingInFlight, ExpiryRows
  <1>11. CASE Record
    <2> DEFINE u == task.update
    <2>1. /\ u \in Update /\ phase' = phase /\ task'.pc = "RECORDED" /\ task'.update = u
          /\ UNCHANGED <<conversation, challenge, attempts>> /\ SameConnection
          /\ processed' = [processed EXCEPT ![u] = "RECORDED"]
          /\ facts' = [facts EXCEPT ![u] = task.facts]
      BY <1>11 DEF Record, lifecycle, connection, TypeOK, SameConnection
    <2>2. Recoverable = {} /\ processed[u] = "NONE" /\ Fresh(task.facts, u)
      BY <1>11 DEF Record, OneInFlight
    <2>3. task.facts.action # "TRIGGER"
      BY <2>2 DEF Fresh
    <2>4. Recoverable' = {u}
      BY <2>1, <2>2, <2>3, <1>p DEF Recoverable
    <2>5. \A v \in Recoverable' : Fresh(facts[v], v)'
      <3> SUFFICES ASSUME NEW v, v = u PROVE Fresh(facts[v], v)'
        BY <2>4
      <3>f. PICK f : f = task.facts
        OBVIOUS
      <3>1. Fresh(f, v) /\ facts'[v] = f
        BY <2>1, <2>2, <3>f, <1>p
      <3> QED
        BY <2>1, <3>1, FreshHanded
    <2>6. ChallengeRows'
      BY <2>1, <2>2, <1>p, RowsKept DEF Forward
    <2> QED
      BY <2>1, <2>4, <2>5, <2>6 DEF OneInFlight
  <1>12. CASE Apply
    <2>1. task.update \in Recoverable /\ ApplyRecorded(task.update) /\ task'.pc = "IDLE"
      BY <1>12, <1>i DEF Apply, OneInFlight
    <2>2. Recoverable' = {}
      BY <2>1, ApplyDrains
    <2>3. ChallengeRows'
      BY <2>1, ApplyRows, FreshWhenApplied DEF Recoverable
    <2> QED
      BY <2>1, <2>2, <2>3, NothingInFlight
  <1>13. CASE ApplyRefused \/ StorageFault
    <2>1. ApplyRefused /\ task.update \in Recoverable
      BY <1>13 DEF StorageFault, ApplyRefused, OneInFlight
    <2>2. Applicable(facts[task.update], task.update)
      BY <2>1 DEF OneInFlight, Fresh, ApplyRefused
    <2> QED
      BY <2>1, <2>2 DEF ApplyRefused
  <1>14. CASE PublishReady
    BY <1>14, <1>s DEF PublishReady, procVars, SameConnection
  <1>15. CASE Restart \/ StartupUnanswered \/ StartupFails \/ Serve \/ Crash
    <2>1. UNCHANGED <<conversation, challenge, attempts, processed, facts>> /\ SameConnection
      BY <1>15 DEF Restart, StartupUnanswered, StartupFails, Serve, Crash, storeVars, lifecycle,
                   inbox, connection, SameConnection, Unconfirmed
    <2>2. Recoverable' = Recoverable /\ ChallengeRows'
      BY <2>1, RowsKept DEF Recoverable, Forward
    <2>3. task'.pc = "IDLE"
      BY <1>15, <1>i DEF Restart, StartupUnanswered, StartupFails, Serve, Crash, TypeOK
    <2>4. phase' = "SERVING" => Recoverable = {}
      BY <1>15 DEF Restart, StartupUnanswered, StartupFails, Serve, Crash
    <2> QED
      BY <2>1, <2>2, <2>3, <2>4, FreshKept DEF OneInFlight, SameConnection
  <1>16. CASE Recover
    <2>1. PICK u \in Update : u \in Recoverable /\ ApplyRecorded(u)
      BY <1>16 DEF Recover, NextRecoverable
    <2>2. task'.pc = "IDLE"
      BY <1>16, <1>i DEF Recover, procVars, TypeOK
    <2>3. ChallengeRows'
      BY <2>1, ApplyRows, FreshWhenApplied
    <2> QED
      BY <2>1, <2>2, <2>3, ApplyDrains, NothingInFlight
  <1>17. CASE UNCHANGED vars
    BY <1>17, <1>s DEF vars, storeVars, procVars, connection, SameConnection
  <1>18. ASSUME NEW u \in Update, TriggerNotFound(u) PROVE ChallengeRows' /\ OneInFlight'
    <2>1. Working /\ UNCHANGED <<task, facts>> /\ processed' = [processed EXCEPT ![u] = "APPLIED"]
      BY <1>18 DEF TriggerNotFound, procVars
    <2>2. Recoverable' = {} /\ task'.pc = "IDLE"
      BY <2>1, <1>q, <1>p DEF Recoverable
    <2> QED
      BY <1>18, <2>2, NothingInFlight, RowsForgotten DEF TriggerNotFound
  <1>19. CASE StartupNotFound
    <2>1. ChallengeRows' /\ UNCHANGED <<task, processed, facts>> /\ trust' = "NONE"
      BY <1>19, RowsForgotten DEF StartupNotFound, ForgetConnection, inbox
    <2>2. Recoverable' = Recoverable /\ task.pc = "IDLE"
      BY <1>19, <1>i, <2>1 DEF Recoverable, StartupNotFound, StartupLooksUp, Working, TypeOK
    <2>3. phase' = "SERVING" => Recoverable = {}
      BY <1>19, <1>q DEF StartupNotFound, StartupLooksUp
    <2> QED
      BY <2>1, <2>2, <2>3 DEF OneInFlight
  <1> QED
    BY <1>1, <1>2, <1>3, <1>4, <1>5, <1>6, <1>7, <1>8, <1>9, <1>10, <1>11, <1>12,
       <1>13, <1>14, <1>15, <1>16, <1>17, <1>18, <1>19
    DEF Next, ProcStep

\* The connection of the installation is still there.
Connected == trust # "NONE"

\* A connection that Telegram always finds is never retired.
LEMMA ConnectionStays ==
    ASSUME "retire" \notin Fault
    PROVE  Connected /\ [Next]_vars => Connected'
  <1> SUFFICES ASSUME trust # "NONE", [Next]_vars PROVE trust' # "NONE"
    BY DEF Connected
  <1>1. ASSUME NEW u \in Update, Command(u) PROVE trust' # "NONE"
    BY <1>1 DEF Command, ResetConversation, Unblock, SetDryRun, OtherCommand, Finish, connection
  <1>2. ASSUME NEW u \in Update,
               Duplicate(u) \/ Redeliver(u) \/ RecordTrigger(u) \/ TriggerNotFound(u)
                  \/ Lapse(u) \/ PurgeHistory(u) \/ \E e \in Events(u) : Prepare(u, e)
        PROVE  trust' # "NONE"
    BY <1>2 DEF Duplicate, Redeliver, RecordTrigger, Unconfirmed, TriggerNotFound, Lapse,
                PurgeHistory, Prepare, vars, storeVars, connection
  <1>3. ASSUME NEW on \in BOOLEAN, NEW rs \in RightSets,
               ReconcileStartup(on, rs) \/ \E u \in Update : ReconcileTrigger(u, on, rs)
        PROVE  trust' # "NONE"
    BY <1>3 DEF ReconcileStartup, ReconcileTrigger, Reported
  <1>4. ASSUME NEW blocks, ExpireDueState(blocks) PROVE trust' # "NONE"
    BY <1>4 DEF ExpireDueState, connection
  <1>5. CASE Record \/ Apply \/ ApplyRefused \/ StorageFault \/ Recover
    BY <1>5 DEF Record, Apply, ApplyRefused, StorageFault, Recover, ApplyRecorded,
                storeVars, connection
  <1>6. CASE StartupNotFound \/ StartupUnanswered \/ PublishReady \/ Restart \/ StartupFails
             \/ Serve \/ Crash \/ UNCHANGED vars
    BY <1>6 DEF StartupNotFound, StartupUnanswered, PublishReady, Restart, Unconfirmed,
                StartupFails, Serve, Crash, vars, storeVars, connection
  <1> QED
    BY <1>1, <1>2, <1>3, <1>4, <1>5, <1>6 DEF Next, ProcStep

\* Without storage faults the challenge rows agree with the conversations, and
\* at most one event is in flight, its facts still valid: through prepare,
\* record, apply, crash, replay, commands, retention and reconciliation.
THEOREM LifecycleInvariant ==
    ASSUME "storage" \notin Fault
    PROVE  Spec => []LifecycleInv
  BY LifecycleInit, LifecycleStep, PTL DEF Spec

\* Without storage faults a contact is VERIFY_PENDING exactly while one
\* challenge of its chat is open (prepare, apply, retention, /reset, replay).
THEOREM ChallengeMatches ==
    ASSUME "storage" \notin Fault
    PROVE  Spec => []ChallengeMatchesState
  <1>1. LifecycleInv => ChallengeMatchesState
    BY DEF LifecycleInv, ChallengeRows
  <1> QED
    BY <1>1, LifecycleInvariant, PTL

\* Without storage faults a challenge with all its answers spent is closed:
\* increment_challenge_attempts never meets its attempts_used guard.
THEOREM SpentIsClosed ==
    ASSUME "storage" \notin Fault
    PROVE  Spec => []SpentMeansClosed
  <1>1. LifecycleInv => SpentMeansClosed
    BY AttemptAssumption DEF LifecycleInv, ChallengeRows, SpentMeansClosed
  <1> QED
    BY <1>1, LifecycleInvariant, PTL

\* Without storage faults, and while Telegram finds the connection, whatever a
\* crash leaves RECORDED can be applied by recover_recorded_events, so no
\* startup is refused.
THEOREM RecoveryNeverRefused ==
    ASSUME "storage" \notin Fault, "retire" \notin Fault
    PROVE  Spec => []RecordedStaysApplicable
  <1>1. LifecycleInv /\ Connected => RecordedStaysApplicable
    <2> SUFFICES ASSUME LifecycleInv, Connected, NEW u \in Update, processed[u] = "RECORDED"
                 PROVE  Applicable(facts[u], u)
      BY DEF RecordedStaysApplicable
    <2>1. CASE facts[u].action = "TRIGGER"
      BY <2>1 DEF Applicable
    <2>2. CASE facts[u].action # "TRIGGER"
      BY <2>2 DEF LifecycleInv, OneInFlight, Recoverable, Fresh, Connected
    <2> QED
      BY <2>1, <2>2
  <1>2. Init => Connected
    BY DEF Init, StoreInit, Connected
  <1> QED
    BY <1>1, <1>2, ConnectionStays, LifecycleInvariant, PTL DEF Spec

\* Without storage faults at most one event is between its recording and its
\* application, and what the preparation decided for it still holds: the worker
\* prepares nothing while an event waits, and nothing overtakes it.
THEOREM OneAlwaysInFlight ==
    ASSUME "storage" \notin Fault
    PROVE  Spec => []OneInFlight
  <1>1. LifecycleInv => OneInFlight
    BY DEF LifecycleInv
  <1> QED
    BY <1>1, LifecycleInvariant, PTL

\* Without storage faults the challenge table agrees with the conversations and
\* the inbox: an open challenge has an answer left, and a challenge is created
\* when its update is applied.
THEOREM RowsAlwaysAgree ==
    ASSUME "storage" \notin Fault
    PROVE  Spec => []ChallengeRows
  <1>1. LifecycleInv => ChallengeRows
    BY DEF LifecycleInv
  <1> QED
    BY <1>1, LifecycleInvariant, PTL
=============================================================================
