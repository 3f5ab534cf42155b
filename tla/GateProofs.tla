----------------------------- MODULE GateProofs -----------------------------
(***************************************************************************)
(* Without storage faults the processing worker implements ContactGate:    *)
(* every transaction of the worker, the replay, the retention tick and the *)
(* Owner's commands moves a contact the way the lifecycle allows, or not   *)
(* at all, and a challenge is lost after exactly max_attempts answers.     *)
(* The argument is the one of LifecycleProofs: facts are still fresh when  *)
(* they are applied, so the state the preparation saw is the state the     *)
(* handler leaves.                                                         *)
(***************************************************************************)
EXTENDS LifecycleProofs

-----------------------------------------------------------------------------
(***************************************************************************)
(* What ContactGate sees of the tables.                                    *)
(***************************************************************************)
\* Wrong answers given to the challenge a contact is facing.
WrongOf(c) == IF OpenChallenges(c) = {} THEN 0 ELSE attempts[ActiveChallenge(c)]

\* A contact is where it was.
Stays(c) == StateOf(c)' = StateOf(c) /\ WrongOf(c)' = WrongOf(c)

\* One contact moves, and starts its count anew; the others stay.
Moved(c, from, to) ==
    /\ StateOf(c) \in from
    /\ StateOf(c)' = to
    /\ WrongOf(c)' = 0
    /\ \A d \in Chat \ {c} : Stays(d)

\* A step in which every contact stays is no step of the gate.
LEMMA NoMove ==
    ASSUME \A d \in Chat : Stays(d)
    PROVE  UNCHANGED Gate!gateVars
  BY DEF Stays, WrongOf, Gate!gateVars

\* A move of one contact is a move of the gate.
LEMMA OneMove ==
    ASSUME NEW c \in Chat, NEW from, NEW to, Moved(c, from, to)
    PROVE  Gate!Move(c, from, to)
  BY DEF Moved, Stays, WrongOf, Gate!Move

\* The count is the attempts_used of the open challenge, before the step.
LEMMA WrongBefore ==
    ASSUME ChallengeRows, NEW c \in Chat
    PROVE  /\ OpenChallenges(c) = {} => WrongOf(c) = 0
           /\ \A x \in OpenChallenges(c) : WrongOf(c) = attempts[x]
  <1>1. OpenChallenges(c) # {} => ActiveChallenge(c) \in OpenChallenges(c)
    BY ActiveChallengeType
  <1> QED
    BY <1>1 DEF WrongOf, ChallengeRows, ChallengeMatchesState

\* And after it.
LEMMA WrongAfter ==
    ASSUME ChallengeRows', NEW c \in Chat
    PROVE  /\ OpenChallenges(c)' = {} => WrongOf(c)' = 0
           /\ \A x \in OpenChallenges(c)' : WrongOf(c)' = attempts'[x]
  <1>1. OpenChallenges(c)' # {} => ActiveChallenge(c)' \in OpenChallenges(c)'
    BY DEF ActiveChallenge
  <1> QED
    BY <1>1 DEF WrongOf, ChallengeRows, ChallengeMatchesState

\* A contact whose conversation and challenges a step does not write stays.
LEMMA Untouched ==
    ASSUME ChallengeRows, ChallengeRows', NEW c \in Chat,
           StateOf(c)' = StateOf(c),
           \A x \in Update : ChatOf[x] = c =>
               challenge'[x] = challenge[x] /\ attempts'[x] = attempts[x]
    PROVE  Stays(c)
  <1>1. OpenChallenges(c)' = OpenChallenges(c)
    BY DEF OpenChallenges, IsOpen
  <1>2. \A x \in OpenChallenges(c) : attempts'[x] = attempts[x]
    BY DEF OpenChallenges
  <1>3. WrongOf(c)' = WrongOf(c)
    BY <1>1, <1>2, WrongBefore, WrongAfter
  <1> QED
    BY <1>3 DEF Stays

\* A contact that is not VERIFY_PENDING faces no challenge.
LEMMA CountAnew ==
    ASSUME ChallengeRows', NEW c \in Chat, StateOf(c)' # "VERIFY_PENDING"
    PROVE  WrongOf(c)' = 0
  <1>1. OpenChallenges(c)' = {}
    BY DEF ChallengeRows, ChallengeMatchesState, StateOf
  <1> QED
    BY <1>1, WrongAfter

\* A step that leaves conversations and challenges alone is no step of the gate.
LEMMA QuietStep ==
    ASSUME ChallengeRows, ChallengeRows', UNCHANGED <<conversation, challenge, attempts>>
    PROVE  UNCHANGED Gate!gateVars
  <1>1. \A d \in Chat : Stays(d)
    BY Untouched DEF StateOf
  <1> QED
    BY <1>1, NoMove

-----------------------------------------------------------------------------
(***************************************************************************)
(* Applying recorded facts.                                                *)
(***************************************************************************)
\* A handler writes the rows of the contact the update is about, and no other.
LEMMA HandlerFrame ==
    ASSUME TypeOK, NEW u \in Update, Fresh(facts[u], u), ApplyRecorded(u)
    PROVE  /\ \A d \in Chat : d # ChatOf[u] => StateOf(d)' = StateOf(d)
           /\ \A y \in Update : ChatOf[y] # ChatOf[u] =>
                 challenge'[y] = challenge[y] /\ attempts'[y] = attempts[y]
  <1> DEFINE c == ChatOf[u]
             f == facts[u]
             x == f.challenge
  <1>t. /\ conversation \in [Chat -> ConversationState \cup {"NONE"}]
        /\ challenge \in [Update -> OpenStatus \cup {"NONE", "CLOSED"}]
        /\ attempts \in [Update -> 0..MaxAttempts]
    BY DEF TypeOK, StoreTypeOK
  <1>o. f.action \in Answering => x \in Update /\ ChatOf[x] = c
    BY DEF Fresh, OpenChallenges
  <1>s. ASSUME NEW s, SetState(c, s)
        PROVE  \A d \in Chat : d # c => StateOf(d)' = StateOf(d)
    BY <1>s, <1>t DEF SetState, StateOf
  <1>k. ASSUME NEW cs, challenge' = CloseChallenges(cs), \A y \in Update \cap cs : ChatOf[y] = c
        PROVE  \A y \in Update : ChatOf[y] # c => challenge'[y] = challenge[y]
    BY <1>k DEF CloseChallenges
  <1>n. ASSUME Consume(x), f.action \in Answering
        PROVE  \A y \in Update : ChatOf[y] # c => attempts'[y] = attempts[y]
    BY <1>n, <1>o, <1>t DEF Consume
  <1> HIDE DEF f
  <1>1. CASE ApplyStart(f, u, c)
    BY <1>1, <1>s, <1>t DEF ApplyStart, Advance
  <1>2. CASE ApplyRetain(f, u, c) \/ ApplyBlocked(f, u, c) \/ ApplyBotMessage(f, u, c)
    BY <1>2, <1>s DEF ApplyRetain, ApplyBlocked, ApplyBotMessage
  <1>3. ASSUME NEW action \in Answering, NEW event, NEW text,
               ApplyVerdict(f, u, c, action, event, text)
        PROVE  /\ \A d \in Chat : d # c => StateOf(d)' = StateOf(d)
               /\ \A y \in Update : ChatOf[y] # c =>
                     challenge'[y] = challenge[y] /\ attempts'[y] = attempts[y]
    BY <1>3, <1>s, <1>k, <1>o DEF ApplyVerdict, Advance
  <1>4. CASE ApplyIncorrect(f, u, c)
    BY <1>4, <1>s, <1>n DEF ApplyIncorrect, Answering
  <1>5. CASE ApplyExhausted(f, u, c)
    BY <1>5, <1>s, <1>k, <1>n, <1>o DEF ApplyExhausted, Advance, Answering
  <1>6. CASE ApplySpam(f, u, c) \/ ApplyManualOwner(f, u, c)
    BY <1>6, <1>s, <1>k DEF ApplySpam, ApplyManualOwner, Advance, OpenChallenges
  <1>7. CASE ApplyDeletions(f, u, c)
    BY <1>7, <1>s DEF ApplyDeletions, Advance
  <1>8. CASE ApplyInert(f, u)
    BY <1>8 DEF ApplyInert, StateOf
  <1> QED
    <2>1. {"CORRECT", "EXPIRED"} \subseteq Answering /\ ApplyFacts(f, u, c)
      BY DEF Answering, ApplyRecorded, f
    <2> QED
      BY <2>1, <1>1, <1>2, <1>3, <1>4, <1>5, <1>6, <1>7, <1>8 DEF ApplyFacts

\* apply_recorded_event makes the move of the gate its facts stand for.
LEMMA ApplyMoves ==
    ASSUME TypeOK, ChallengeRows, ChallengeRows', NEW u \in Update,
           Fresh(facts[u], u), ApplyRecorded(u)
    PROVE  Gate!Next \/ UNCHANGED Gate!gateVars
  <1> DEFINE c == ChatOf[u]
             f == facts[u]
             x == f.challenge
  <1>c. c \in Chat
    BY ChatAssumption DEF Update
  <1>t. /\ conversation \in [Chat -> ConversationState \cup {"NONE"}]
        /\ attempts \in [Update -> 0..MaxAttempts]
    BY DEF TypeOK, StoreTypeOK
  <1>a. Applicable(f, u)
    BY DEF ApplyRecorded
  <1>d. \A d \in Chat \ {c} : Stays(d)
    <2> SUFFICES ASSUME NEW d \in Chat, d # c PROVE Stays(d)
      OBVIOUS
    <2> QED
      BY HandlerFrame, Untouched
  <1>o. f.action \in Answering => /\ x \in Update /\ x \in OpenChallenges(c)
                                 /\ StateOf(c) = "VERIFY_PENDING"
                                 /\ WrongOf(c) = attempts[x]
    BY <1>c, WrongBefore DEF Fresh, OpenChallenges, ChallengeRows, ChallengeMatchesState, StateOf
  <1>s. ASSUME NEW s \in ConversationState, SetState(c, s) PROVE StateOf(c)' = s
    BY <1>s, <1>c, <1>t DEF SetState, StateOf, ConversationState
  <1>i. StateOf(c) \in ConversationState
    BY <1>c, StateOfType DEF TypeOK
  <1>k. ASSUME SetState(c, StateOf(c)), UNCHANGED <<challenge, attempts>>
        PROVE  UNCHANGED Gate!gateVars
    <2>1. StateOf(c)' = StateOf(c)
      BY <1>k, <1>s, <1>i
    <2>2. Stays(c)
      BY <1>k, <1>c, <2>1, Untouched
    <2> QED
      BY <1>d, <2>2, NoMove
  <1>m. ASSUME NEW from, StateOf(c) \in from,
               NEW to \in ConversationState \ {"VERIFY_PENDING"}, SetState(c, to)
        PROVE  Gate!Move(c, from, to)
    <2>1. StateOf(c)' = to
      BY <1>m, <1>s
    <2>2. WrongOf(c)' = 0
      BY <1>m, <1>c, <2>1, CountAnew
    <2>3. Moved(c, from, to)
      BY <1>m, <1>d, <2>1, <2>2 DEF Moved
    <2> QED
      BY <1>c, <2>3, OneMove
  <1>g. ASSUME Gate!Challenge(c) \/ Gate!Pass(c) \/ Gate!Mistake(c) \/ Gate!LastMistake(c)
               \/ Gate!Spam(c) \/ Gate!OwnerWrites(c) \/ Gate!OwnerWithdraws(c)
               \/ Gate!TimeOut({c})
        PROVE  Gate!Next
    BY <1>g, <1>c DEF Gate!Next
  <1> HIDE DEF f
  <1>1. CASE ApplyStart(f, u, c)
    <2>1. /\ challenge' = [challenge EXCEPT ![u] = "PENDING"] /\ attempts' = attempts
          /\ SetState(c, "VERIFY_PENDING") /\ f.action = "START"
      BY <1>1, TransitionType DEF ApplyStart, Advance
    <2>2. StateOf(c) = "NEW" /\ attempts[u] = 0
      <3>1. processed[u] # "APPLIED"
        BY DEF ApplyRecorded
      <3> QED
        BY <1>a, <2>1, <3>1 DEF Applicable, Permits, Transition, Edge, ChallengeRows
    <2>3. StateOf(c)' = "VERIFY_PENDING"
      BY <2>1, <1>s DEF ConversationState
    <2>4. u \in OpenChallenges(c)'
      BY <2>1 DEF OpenChallenges, IsOpen, OpenStatus, TypeOK, StoreTypeOK
    <2>5. WrongOf(c)' = 0
      BY <1>c, <2>1, <2>2, <2>4, WrongAfter
    <2>6. Moved(c, {"NEW"}, "VERIFY_PENDING")
      BY <1>d, <2>2, <2>3, <2>5 DEF Moved
    <2>7. Gate!Challenge(c)
      BY <1>c, <2>6, OneMove DEF Gate!Challenge
    <2> QED
      BY <2>7, <1>g
  <1>2. CASE ApplyRetain(f, u, c) \/ ApplyBlocked(f, u, c) \/ ApplyBotMessage(f, u, c)
    BY <1>2, <1>k DEF ApplyRetain, ApplyBlocked, ApplyBotMessage
  <1>3. CASE ApplyVerdict(f, u, c, "CORRECT", "VerificationSucceeded", "success")
    <2>1. f.action = "CORRECT" /\ SetState(c, "VERIFIED_WAITING_OWNER")
      BY <1>3, TransitionType DEF ApplyVerdict, Advance
    <2>2. StateOf(c) \in {"VERIFY_PENDING"}
      BY <1>o, <2>1 DEF Answering
    <2>3. Gate!Pass(c)
      BY <1>m, <2>1, <2>2 DEF Gate!Pass, ConversationState
    <2> QED
      BY <2>3, <1>g
  <1>4. CASE ApplyVerdict(f, u, c, "EXPIRED", "ChallengeExpired", "expired")
    <2>1. f.action = "EXPIRED" /\ SetState(c, "NEW")
      BY <1>4, TransitionType DEF ApplyVerdict, Advance
    <2>2. StateOf(c) \in {"VERIFY_PENDING"}
      BY <1>o, <2>1 DEF Answering
    <2>3. StateOf(c)' = "NEW" /\ WrongOf(c)' = 0
      BY <1>s, <1>c, <2>1, CountAnew DEF ConversationState
    <2>4. Gate!TimeOut({c})
      BY <1>c, <1>d, <2>2, <2>3 DEF Gate!TimeOut, Gate!Timed, Stays, WrongOf
    <2> QED
      BY <2>4, <1>g
  <1>5. CASE ApplyIncorrect(f, u, c)
    <2>1. f.action = "INCORRECT" /\ Consume(x) /\ SetState(c, StateOf(c)) /\ challenge' = challenge
      BY <1>5 DEF ApplyIncorrect
    <2>2. /\ x \in OpenChallenges(c) /\ x \in Update /\ StateOf(c) = "VERIFY_PENDING"
          /\ WrongOf(c) = attempts[x] /\ ~Exhausts(x)
      BY <1>o, <2>1 DEF Answering, Fresh, f
    <2>3. attempts'[x] = attempts[x] + 1 /\ attempts[x] + 1 < MaxAttempts
      BY <2>1, <2>2, <1>t, AttemptAssumption DEF Consume, Exhausts
    <2>4. x \in OpenChallenges(c)'
      BY <2>1, <2>2 DEF OpenChallenges, IsOpen
    <2>5. WrongOf(c)' = WrongOf(c) + 1 /\ StateOf(c)' = StateOf(c)
      BY <1>c, <1>i, <1>s, <2>1, <2>2, <2>3, <2>4, WrongAfter
    <2>6. Gate!Mistake(c)
      BY <1>c, <1>d, <2>2, <2>3, <2>5 DEF Gate!Mistake, Stays, WrongOf
    <2> QED
      BY <2>6, <1>g
  <1>6. CASE ApplyExhausted(f, u, c)
    <2>1. f.action \in {"EXHAUSTED_BLOCK", "EXHAUSTED_DRY_RUN"}
      BY <1>6 DEF ApplyExhausted
    <2>2. PICK to \in {"TEMP_SOFT_BLOCKED", "NEW"} : SetState(c, to)
      BY <1>6, TransitionType DEF ApplyExhausted, Advance
    <2>3. x \in Update /\ StateOf(c) \in {"VERIFY_PENDING"} /\ WrongOf(c) = attempts[x]
      BY <1>o, <2>1 DEF Answering
    <2>4. WrongOf(c) + 1 = MaxAttempts
      <3>1. Exhausts(x) /\ attempts[x] < MaxAttempts
        BY <1>a, <2>1 DEF Applicable, CanConsume, Fresh, f
      <3> QED
        BY <2>3, <3>1, <1>t, AttemptAssumption DEF Exhausts
    <2>5. Gate!Move(c, {"VERIFY_PENDING"}, to)
      BY <1>m, <2>2, <2>3 DEF ConversationState
    <2>6. Gate!LastMistake(c)
      BY <1>c, <2>4, <2>5 DEF Gate!LastMistake, WrongOf
    <2> QED
      BY <2>6, <1>g
  <1>7. CASE ApplySpam(f, u, c)
    <2>1. SetState(c, "SPAM_SOFT_BLOCKED")
      BY <1>7, TransitionType DEF ApplySpam, Advance
    <2>2. StateOf(c) \in Gate!Unverified
      BY <1>a, <1>7 DEF ApplySpam, Applicable, Permits, Transition, Edge, Gate!Unverified
    <2>3. Gate!Spam(c)
      BY <1>m, <2>1, <2>2 DEF Gate!Spam, ConversationState
    <2> QED
      BY <2>3, <1>g
  <1>8. CASE ApplyManualOwner(f, u, c)
    <2>1. SetState(c, "ACTIVE") /\ challenge' = CloseChallenges(OpenChallenges(c))
          /\ attempts' = attempts
      BY <1>8, TransitionType DEF ApplyManualOwner, AfterOwner
    <2>2. CASE StateOf(c) = "ACTIVE"
      <3>1. OpenChallenges(c) = {}
        BY <1>c, <2>2 DEF StateOf, ChallengeRows, ChallengeMatchesState
      <3>2. challenge' = challenge
        BY <2>1, <3>1 DEF CloseChallenges, TypeOK, StoreTypeOK
      <3> QED
        BY <1>k, <2>1, <2>2, <3>2
    <2>3. CASE StateOf(c) # "ACTIVE"
      <3>1. StateOf(c) \in Gate!Unverified \cup {"TEMP_SOFT_BLOCKED", "SPAM_SOFT_BLOCKED"}
        BY <1>i, <2>3 DEF ConversationState, Gate!Unverified
      <3>2. Gate!OwnerWrites(c)
        BY <1>m, <2>1, <3>1 DEF Gate!OwnerWrites, ConversationState
      <3> QED
        BY <3>2, <1>g
    <2> QED
      BY <2>2, <2>3
  <1>9. CASE ApplyDeletions(f, u, c)
    <2>1. CASE SetState(c, StateOf(c))
      BY <1>9, <1>k, <2>1 DEF ApplyDeletions
    <2>2. CASE StateOf(c) = "ACTIVE" /\ SetState(c, "NEW")
      <3>1. Gate!OwnerWithdraws(c)
        BY <1>m, <2>2 DEF Gate!OwnerWithdraws, ConversationState
      <3> QED
        BY <3>1, <1>g
    <2> QED
      BY <1>9, <2>1, <2>2, TransitionType DEF ApplyDeletions, Advance
  <1>10. CASE ApplyInert(f, u)
    BY <1>10, QuietStep DEF ApplyInert
  <1> QED
    <2>1. ApplyFacts(f, u, c)
      BY DEF ApplyRecorded, f
    <2> QED
      BY <2>1, <1>1, <1>2, <1>3, <1>4, <1>5, <1>6, <1>7, <1>8, <1>9, <1>10 DEF ApplyFacts

-----------------------------------------------------------------------------
(***************************************************************************)
(* Owner commands, the retention tick and a retired connection.            *)
(***************************************************************************)
\* /reset and /unblock forgive a contact; the other commands move none.
LEMMA CommandMoves ==
    ASSUME TypeOK, ChallengeRows, ChallengeRows', NEW u \in Update, Command(u)
    PROVE  Gate!Next \/ UNCHANGED Gate!gateVars
  <1> DEFINE c == ChatOf[u]
  <1>c. c \in Chat /\ StateOf(c) \in ConversationState
    BY ChatAssumption, StateOfType DEF Update, TypeOK
  <1>t. conversation \in [Chat -> ConversationState \cup {"NONE"}]
    BY DEF TypeOK, StoreTypeOK
  <1>1. ASSUME SetState(c, "NEW"),
               \A y \in Update : ChatOf[y] # c =>
                   challenge'[y] = challenge[y] /\ attempts'[y] = attempts[y]
        PROVE  Gate!Next \/ UNCHANGED Gate!gateVars
    <2>1. /\ StateOf(c)' = "NEW"
          /\ \A d \in Chat \ {c} : StateOf(d)' = StateOf(d)
      BY <1>1, <1>c, <1>t DEF SetState, StateOf
    <2>2. \A d \in Chat \ {c} : Stays(d)
      BY <1>1, <2>1, Untouched
    <2>3. WrongOf(c)' = 0
      BY <1>c, <2>1, CountAnew
    <2>4. CASE StateOf(c) = "NEW"
      <3>1. WrongOf(c) = 0
        <4>1. OpenChallenges(c) = {}
          BY <1>c, <2>4 DEF StateOf, ChallengeRows, ChallengeMatchesState
        <4> QED
          BY <1>c, <4>1, WrongBefore
      <3>2. \A d \in Chat : Stays(d)
        BY <2>1, <2>2, <2>3, <2>4, <3>1 DEF Stays
      <3> QED
        BY <3>2, NoMove
    <2>5. CASE StateOf(c) # "NEW"
      <3> DEFINE from == {"VERIFY_PENDING", "VERIFIED_WAITING_OWNER", "ACTIVE",
                          "TEMP_SOFT_BLOCKED", "SPAM_SOFT_BLOCKED"}
      <3>1. Moved(c, from, "NEW")
        BY <1>c, <2>1, <2>2, <2>3, <2>5 DEF Moved, ConversationState
      <3>2. Gate!OwnerForgives(c)
        BY <1>c, <3>1, OneMove DEF Gate!OwnerForgives
      <3> QED
        BY <1>c, <3>2 DEF Gate!Next
    <2> QED
      BY <2>4, <2>5
  <1>2. CASE ResetConversation(u)
    BY <1>1, <1>2 DEF ResetConversation
  <1>3. CASE Unblock(u)
    <2>1. \A y \in Update : ChatOf[y] # c =>
             challenge'[y] = challenge[y] /\ attempts'[y] = attempts[y]
      BY <1>3 DEF Unblock, CloseChallenges, OpenChallenges
    <2> QED
      BY <1>1, <1>3, <2>1 DEF Unblock
  <1>4. CASE \E on \in BOOLEAN : SetDryRun(u, on)
    BY <1>4, QuietStep DEF SetDryRun, lifecycle
  <1>5. CASE OtherCommand(u)
    BY <1>5, QuietStep DEF OtherCommand, lifecycle
  <1> QED
    BY <1>2, <1>3, <1>4, <1>5 DEF Command

\* One retention tick is one passing of deadlines.
LEMMA ExpiryMoves ==
    ASSUME TypeOK, ChallengeRows, ChallengeRows', NEW blocks, ExpireDueState(blocks)
    PROVE  Gate!Next
  <1> DEFINE due == {c \in Chat : conversation[c] = "VERIFY_PENDING" /\ \E x \in Due : ChatOf[x] = c}
             freed == {c \in Chat : conversation[c] = "TEMP_SOFT_BLOCKED" /\ c \in blocks}
             cs == due \cup freed
  <1>1. \A c \in Chat : conversation'[c] = IF c \in cs THEN "NEW" ELSE conversation[c]
    BY DEF ExpireDueState, StateAfterExpiry
  <1>2. \A c \in cs : StateOf(c) \in Gate!Timed
    BY DEF StateOf, Gate!Timed
  <1>3. \A c \in cs : StateOf(c)' = "NEW"
    BY <1>1 DEF StateOf
  <1>4. \A c \in cs : WrongOf(c)' = 0
    BY <1>3, CountAnew
  <1>5. ASSUME NEW c \in Chat, c \notin cs PROVE Stays(c)
    <2>1. \A x \in Update : ChatOf[x] = c => x \notin Due
      <3> SUFFICES ASSUME NEW x \in Update, ChatOf[x] = c, x \in Due PROVE FALSE
        OBVIOUS
      <3>1. x \in OpenChallenges(c)
        BY DEF Due, OpenChallenges
      <3>2. conversation[c] = "VERIFY_PENDING"
        BY <3>1 DEF ChallengeRows, ChallengeMatchesState
      <3> QED
        BY <1>5, <3>2
    <2>2. \A x \in Update : ChatOf[x] = c =>
             challenge'[x] = challenge[x] /\ attempts'[x] = attempts[x]
      BY <2>1 DEF ExpireDueState, CloseChallenges
    <2>3. StateOf(c)' = StateOf(c)
      BY <1>1, <1>5 DEF StateOf
    <2> QED
      BY <2>2, <2>3, Untouched
  <1> HIDE DEF due, freed
  <1>6. cs \in SUBSET Chat
    BY DEF due, freed
  <1> HIDE DEF cs
  <1>7. Gate!TimeOut(cs)
    BY <1>2, <1>3, <1>4, <1>5, <1>6 DEF Gate!TimeOut, Stays, WrongOf
  <1> QED
    BY <1>6, <1>7 DEF Gate!Next

\* Retiring the connection makes every contact a stranger again.
LEMMA ForgetMoves ==
    ASSUME ChallengeRows', ForgetConnection
    PROVE  Gate!Next
  <1>1. \A d \in Chat : StateOf(d)' = "NEW"
    BY DEF ForgetConnection, StateOf
  <1>2. \A d \in Chat : WrongOf(d)' = 0
    BY <1>1, CountAnew
  <1>3. Gate!Disconnected
    BY <1>1, <1>2 DEF Gate!Disconnected, WrongOf
  <1> QED
    BY <1>3 DEF Gate!Next

-----------------------------------------------------------------------------
(***************************************************************************)
(* The refinement.                                                         *)
(***************************************************************************)
\* Every contact of a freshly migrated database is a stranger.
LEMMA GateInit == Init => Gate!Init
  BY DEF Init, StoreInit, StateOf, OpenChallenges, IsOpen, OpenStatus, Gate!Init

\* Every step of the worker is a step of the gate, or none.
LEMMA GateStep ==
    ASSUME LifecycleInv, LifecycleInv', [Next]_vars, "storage" \notin Fault
    PROVE  Gate!Next \/ UNCHANGED Gate!gateVars
  <1> USE DEF LifecycleInv
  <1>q. ASSUME UNCHANGED <<conversation, challenge, attempts>>
        PROVE  UNCHANGED Gate!gateVars
    BY <1>q, QuietStep
  <1>1. ASSUME NEW u \in Update,
               Duplicate(u) \/ Redeliver(u) \/ RecordTrigger(u) \/ Lapse(u)
                  \/ PurgeHistory(u) \/ \E e \in Events(u) : Prepare(u, e)
        PROVE  UNCHANGED Gate!gateVars
    BY <1>1, <1>q DEF Duplicate, Redeliver, RecordTrigger, Lapse, PurgeHistory, Prepare,
                      vars, storeVars, lifecycle
  <1>2. ASSUME NEW u \in Update, Command(u)
        PROVE  Gate!Next \/ UNCHANGED Gate!gateVars
    BY <1>2, CommandMoves
  <1>3. ASSUME NEW u \in Update, TriggerNotFound(u) PROVE Gate!Next
    BY <1>3, ForgetMoves DEF TriggerNotFound
  <1>4. ASSUME NEW on \in BOOLEAN, NEW rs \in RightSets,
               ReconcileStartup(on, rs) \/ \E u \in Update : ReconcileTrigger(u, on, rs)
        PROVE  UNCHANGED Gate!gateVars
    BY <1>4, <1>q DEF ReconcileStartup, ReconcileTrigger, lifecycle
  <1>5. ASSUME NEW blocks, ExpireDueState(blocks) PROVE Gate!Next
    BY <1>5, ExpiryMoves
  <1>6. CASE Apply
    <2>1. task.update \in Recoverable /\ ApplyRecorded(task.update)
      BY <1>6 DEF Apply, OneInFlight
    <2> QED
      BY <2>1, ApplyMoves, FreshWhenApplied DEF Recoverable
  <1>7. CASE Recover
    <2>1. PICK u \in Update : u \in Recoverable /\ ApplyRecorded(u)
      BY <1>7 DEF Recover, NextRecoverable
    <2> QED
      BY <2>1, ApplyMoves, FreshWhenApplied
  <1>8. CASE StartupNotFound
    BY <1>8, ForgetMoves DEF StartupNotFound
  <1>9. CASE Record \/ ApplyRefused \/ StorageFault \/ StartupUnanswered \/ PublishReady
             \/ Restart \/ StartupFails \/ Serve \/ Crash \/ UNCHANGED vars
    BY <1>9, <1>q DEF Record, ApplyRefused, StorageFault, StartupUnanswered, PublishReady,
                      Restart, StartupFails, Serve, Crash, vars, storeVars, lifecycle
  <1> QED
    BY <1>1, <1>2, <1>3, <1>4, <1>5, <1>6, <1>7, <1>8, <1>9 DEF Next, ProcStep

\* Without storage faults the service implements the contact's lifecycle:
\* through crashes, replays, retention, Owner commands and a connection that
\* goes, a contact makes only the moves of ContactGate, and loses a challenge
\* after exactly max_attempts wrong answers.
THEOREM ProcessingImplementsGate ==
    ASSUME "storage" \notin Fault
    PROVE  Spec => ImplementsGate
  <1>1. Init => Gate!Init
    BY GateInit
  <1>2. LifecycleInv /\ LifecycleInv' /\ [Next]_vars => [Gate!Next]_(Gate!gateVars)
    BY GateStep
  <1> QED
    BY <1>1, <1>2, LifecycleInvariant, PTL DEF Spec, ImplementsGate, Gate!Spec
=============================================================================
