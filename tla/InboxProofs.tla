---------------------------- MODULE InboxProofs -----------------------------
(***************************************************************************)
(* What holds whatever fails: with crashes, refused writes, reordered and  *)
(* redelivered updates, facts may be applied long after they were computed *)
(* and after the tables moved on.  What still protects the contact are the *)
(* guards of the handlers and three facts about the inbox: an update is    *)
(* applied once, a challenge is created by the update that carries its id, *)
(* and facts that name a challenge name one that had been created, in the  *)
(* same chat, when they were computed.                                     *)
(***************************************************************************)
EXTENDS ProcessingProofs, FiniteSetTheorems

-----------------------------------------------------------------------------
(***************************************************************************)
(* The inductive invariant.                                                *)
(***************************************************************************)
\* The update in the worker's hands was not seen before.
InHand == task.pc = "PREPARED" => processed[task.update] = "NONE"

\* The challenge that facts name was created in the same chat.
Refers(f, u) ==
    f.action \in Answering => /\ f.challenge \in Update
                              /\ ChatOf[f.challenge] = ChatOf[u]
                              /\ processed[f.challenge] = "APPLIED"
References ==
    /\ \A u \in Update : Refers(facts[u], u)
    /\ task.pc = "PREPARED" => Refers(task.facts, task.update)

\* A challenge is created when its update is applied, and only by a START.
ChallengesBorn ==
    \A x \in Update :
        /\ processed[x] # "APPLIED" => challenge[x] = "NONE"
        /\ challenge[x] = "NONE" => attempts[x] = 0
        /\ challenge[x] # "NONE" => facts[x].action = "START"

InboxInv ==
    /\ TypeOK
    /\ InHand
    /\ References
    /\ ChallengesBorn
    /\ PendingHasChallenge
    /\ AttemptsAccounted

-----------------------------------------------------------------------------
(***************************************************************************)
(* Counting wrong answers.                                                 *)
(***************************************************************************)
\* Facts that spend an answer when they are applied.
Spends(f) == f.action \in {"INCORRECT", "EXHAUSTED_BLOCK", "EXHAUSTED_DRY_RUN"}

\* The wrong answers to a challenge are finitely many.
LEMMA WrongFinite ==
    ASSUME NEW x
    PROVE  IsFiniteSet(WrongAnswers(x))
  <1>1. IsFiniteSet(Update)
    BY UpdateAssumption, FS_Interval DEF Update
  <1>2. WrongAnswers(x) \subseteq Update
    BY DEF WrongAnswers
  <1> QED
    BY <1>1, <1>2, FS_Subset

\* A step that applies no wrong answer counts none.
LEMMA NoneCounted ==
    ASSUME \A u \in Update :
              \/ processed'[u] = processed[u] /\ facts'[u] = facts[u]
              \/ /\ processed[u] # "APPLIED"
                 /\ processed'[u] # "APPLIED" \/ ~Spends(facts'[u])
    PROVE  \A x : WrongAnswers(x)' = WrongAnswers(x)
  BY DEF WrongAnswers, Spends

\* Applying a wrong answer counts one, for its challenge alone.
LEMMA OneCounted ==
    ASSUME TypeOK, NEW u \in Update, processed[u] = "RECORDED", Spends(facts[u]),
           processed' = [processed EXCEPT ![u] = "APPLIED"], facts' = facts
    PROVE  \A x : Cardinality(WrongAnswers(x))' =
                      IF x = facts[u].challenge THEN Cardinality(WrongAnswers(x)) + 1
                      ELSE Cardinality(WrongAnswers(x))
  <1> SUFFICES ASSUME NEW x
               PROVE  Cardinality(WrongAnswers(x)') =
                          IF x = facts[u].challenge THEN Cardinality(WrongAnswers(x)) + 1
                          ELSE Cardinality(WrongAnswers(x))
    OBVIOUS
  <1>p. \A v \in Update : processed'[v] = IF v = u THEN "APPLIED" ELSE processed[v]
    BY DEF TypeOK, StoreTypeOK
  <1>1. CASE x = facts[u].challenge
    <2>1. WrongAnswers(x)' = WrongAnswers(x) \cup {u} /\ u \notin WrongAnswers(x)
      BY <1>1, <1>p DEF WrongAnswers, Spends
    <2> QED
      BY <1>1, <2>1, WrongFinite, FS_AddElement
  <1>2. CASE x # facts[u].challenge
    <2>1. WrongAnswers(x)' = WrongAnswers(x)
      BY <1>2, <1>p DEF WrongAnswers
    <2> QED
      BY <1>2, <2>1
  <1> QED
    BY <1>1, <1>2

-----------------------------------------------------------------------------
(***************************************************************************)
(* Steps that write no conversation and no challenge.                      *)
(***************************************************************************)
\* The inbox moves forward: an update that is APPLIED stays as it is.
InboxForward ==
    \A u \in Update : processed[u] = "APPLIED" => processed'[u] = "APPLIED" /\ facts'[u] = facts[u]

\* Facts keep naming a created challenge.
LEMMA RefersKept ==
    ASSUME InboxForward, NEW f, NEW u, Refers(f, u)
    PROVE  Refers(f, u)'
  BY DEF InboxForward, Refers

\* What the tables of the lifecycle say stays true when the inbox alone moves.
LEMMA TablesKept ==
    ASSUME ChallengesBorn, PendingHasChallenge, AttemptsAccounted, InboxForward,
           UNCHANGED <<conversation, challenge, attempts>>,
           \A x : WrongAnswers(x)' = WrongAnswers(x)
    PROVE  ChallengesBorn' /\ PendingHasChallenge' /\ AttemptsAccounted'
  <1>1. ChallengesBorn'
    BY DEF ChallengesBorn, InboxForward
  <1>2. PendingHasChallenge'
    BY DEF PendingHasChallenge, OpenChallenges, IsOpen
  <1>3. AttemptsAccounted'
    BY DEF AttemptsAccounted
  <1> QED
    BY <1>1, <1>2, <1>3

\* The facts in the table and in the worker's hands keep their challenges.
LEMMA ReferencesKept ==
    ASSUME References, InboxForward, facts' = facts,
           task'.pc = "PREPARED" => task' = task
    PROVE  References'
  <1>1. \A u \in Update : Refers(facts[u], u)'
    BY RefersKept DEF References, Refers, InboxForward
  <1>2. task'.pc = "PREPARED" => Refers(task.facts, task.update)'
    BY DEF References, Refers, InboxForward
  <1> QED
    BY <1>1, <1>2 DEF References

-----------------------------------------------------------------------------
(***************************************************************************)
(* Steps that write the tables of the lifecycle.                           *)
(***************************************************************************)
\* What a handler writes: it starts a challenge, or closes challenges of the
\* chat as the contact leaves VERIFY_PENDING, or leaves both alone; and a
\* wrong answer is counted on the challenge it was given to.
LEMMA HandlerWrites ==
    ASSUME TypeOK, NEW u \in Update, Refers(facts[u], u), ApplyRecorded(u)
    PROVE  /\ \A d \in Chat : d # ChatOf[u] => conversation'[d] = conversation[d]
           /\ \/ /\ facts[u].action = "START"
                 /\ challenge' = [challenge EXCEPT ![u] = "PENDING"]
              \/ /\ conversation'[ChatOf[u]] # "VERIFY_PENDING"
                 /\ \E cs : /\ challenge' = CloseChallenges(cs)
                            /\ \A y \in Update \cap cs : ChatOf[y] = ChatOf[u]
              \/ /\ conversation'[ChatOf[u]] = "VERIFY_PENDING"
                       => conversation[ChatOf[u]] = "VERIFY_PENDING"
                 /\ challenge' = challenge
           /\ \/ ~Spends(facts[u]) /\ attempts' = attempts
              \/ /\ Spends(facts[u]) /\ CanConsume(facts[u].challenge)
                 /\ attempts' = [attempts EXCEPT ![facts[u].challenge] = @ + 1]
  <1> DEFINE c == ChatOf[u]
             f == facts[u]
             x == f.challenge
  <1>c. c \in Chat /\ StateOf(c) \in ConversationState
    BY ChatAssumption, StateOfType DEF Update, TypeOK
  <1>t. conversation \in [Chat -> ConversationState \cup {"NONE"}]
    BY DEF TypeOK, StoreTypeOK
  <1>a. Applicable(f, u)
    BY DEF ApplyRecorded
  <1>o. f.action \in Answering => x \in Update /\ ChatOf[x] = c
    BY DEF Refers
  <1>s. ASSUME NEW s, SetState(c, s)
        PROVE  conversation'[c] = s /\ \A d \in Chat : d # c => conversation'[d] = conversation[d]
    BY <1>s, <1>c, <1>t DEF SetState
  <1>k. StateOf(c) = "VERIFY_PENDING" => conversation[c] = "VERIFY_PENDING"
    BY DEF StateOf
  <1> HIDE DEF f
  <1>1. CASE ApplyStart(f, u, c)
    BY <1>1, <1>s DEF ApplyStart, Advance, Spends, f
  <1>2. CASE ApplyRetain(f, u, c) \/ ApplyBlocked(f, u, c) \/ ApplyBotMessage(f, u, c)
    BY <1>2, <1>s, <1>k DEF ApplyRetain, ApplyBlocked, ApplyBotMessage, Spends, f
  <1>3. ASSUME NEW action \in {"CORRECT", "EXPIRED"}, NEW event, NEW text,
               Transition[event].to # "VERIFY_PENDING",
               ApplyVerdict(f, u, c, action, event, text)
        PROVE  /\ \A d \in Chat : d # c => conversation'[d] = conversation[d]
               /\ conversation'[c] # "VERIFY_PENDING"
               /\ challenge' = CloseChallenges({x}) /\ ChatOf[x] = c
               /\ ~Spends(f) /\ attempts' = attempts
    BY <1>3, <1>s, <1>o DEF ApplyVerdict, Advance, Spends, Answering
  <1>4. CASE ApplyIncorrect(f, u, c)
    BY <1>4, <1>a, <1>s, <1>k DEF ApplyIncorrect, Consume, Spends, Applicable, f
  <1>5. CASE ApplyExhausted(f, u, c)
    <2>1. /\ f.action \in {"EXHAUSTED_BLOCK", "EXHAUSTED_DRY_RUN"}
          /\ SetState(c, "TEMP_SOFT_BLOCKED") \/ SetState(c, "NEW")
          /\ challenge' = CloseChallenges({x})
          /\ attempts' = [attempts EXCEPT ![x] = @ + 1]
      BY <1>5, TransitionType DEF ApplyExhausted, Advance, Consume
    <2>2. CanConsume(x) /\ Spends(f) /\ ChatOf[x] = c
      BY <1>a, <1>o, <2>1 DEF Applicable, Spends, Answering
    <2> QED
      BY <2>1, <2>2, <1>s DEF f
  <1>6. CASE ApplySpam(f, u, c) \/ ApplyManualOwner(f, u, c)
    <2>1. /\ SetState(c, "SPAM_SOFT_BLOCKED") \/ SetState(c, "ACTIVE")
          /\ challenge' = CloseChallenges(OpenChallenges(c))
          /\ attempts' = attempts /\ ~Spends(f)
      BY <1>6, TransitionType DEF ApplySpam, ApplyManualOwner, AfterOwner, Advance, Spends
    <2>2. \A y \in Update \cap OpenChallenges(c) : ChatOf[y] = c
      BY DEF OpenChallenges
    <2> QED
      BY <2>1, <2>2, <1>s DEF f
  <1>7. CASE ApplyDeletions(f, u, c)
    <2>1. /\ SetState(c, "NEW") \/ SetState(c, StateOf(c))
          /\ challenge' = challenge /\ attempts' = attempts /\ ~Spends(f)
      BY <1>7, TransitionType DEF ApplyDeletions, Advance, Spends
    <2> QED
      BY <2>1, <1>s, <1>k DEF f
  <1>8. CASE ApplyInert(f, u)
    BY <1>8 DEF ApplyInert, Spends, f
  <1> QED
    <2>1. ApplyFacts(f, u, c)
      BY DEF ApplyRecorded, f
    <2>2. /\ ApplyVerdict(f, u, c, "CORRECT", "VerificationSucceeded", "success")
             \/ ApplyVerdict(f, u, c, "EXPIRED", "ChallengeExpired", "expired")
          => /\ \A d \in Chat : d # c => conversation'[d] = conversation[d]
             /\ conversation'[c] # "VERIFY_PENDING"
             /\ challenge' = CloseChallenges({x}) /\ ChatOf[x] = c
             /\ ~Spends(f) /\ attempts' = attempts
      BY <1>3, TransitionType
    <2> QED
      BY <2>1, <2>2, <1>1, <1>2, <1>4, <1>5, <1>6, <1>7, <1>8 DEF ApplyFacts, f

\* Closing challenges neither removes nor creates a row.
LEMMA CloseKeepsRows ==
    ASSUME NEW cs, challenge' = CloseChallenges(cs)
    PROVE  \A x \in Update : /\ challenge'[x] = "NONE" <=> challenge[x] = "NONE"
                             /\ challenge'[x] # challenge[x] => x \in cs
  BY DEF CloseChallenges, IsOpen, OpenStatus

\* apply_recorded_event keeps the invariant, on facts of any age.
LEMMA ApplyInbox ==
    ASSUME InboxInv, NEW u \in Update, ApplyRecorded(u)
    PROVE  ChallengesBorn' /\ PendingHasChallenge' /\ AttemptsAccounted'
  <1> USE DEF InboxInv
  <1> DEFINE c == ChatOf[u]
             f == facts[u]
             x == f.challenge
  <1>p. /\ processed[u] = "RECORDED" /\ facts' = facts
        /\ processed' = [processed EXCEPT ![u] = "APPLIED"]
        /\ \A v \in Update : processed'[v] = IF v = u THEN "APPLIED" ELSE processed[v]
    BY DEF ApplyRecorded, MarkApplied, TypeOK, StoreTypeOK
  <1>t. /\ attempts \in [Update -> 0..MaxAttempts]
        /\ challenge \in [Update -> OpenStatus \cup {"NONE", "CLOSED"}]
    BY DEF TypeOK, StoreTypeOK
  <1>h. /\ \A d \in Chat : d # c => conversation'[d] = conversation[d]
        /\ \/ f.action = "START" /\ challenge' = [challenge EXCEPT ![u] = "PENDING"]
           \/ /\ conversation'[c] # "VERIFY_PENDING"
              /\ \E cs : /\ challenge' = CloseChallenges(cs)
                         /\ \A y \in Update \cap cs : ChatOf[y] = c
           \/ /\ conversation'[c] = "VERIFY_PENDING" => conversation[c] = "VERIFY_PENDING"
              /\ challenge' = challenge
        /\ \/ ~Spends(f) /\ attempts' = attempts
           \/ Spends(f) /\ CanConsume(x) /\ attempts' = [attempts EXCEPT ![x] = @ + 1]
    BY HandlerWrites DEF References
  <1> HIDE DEF f, c
  <1>r. \A y \in Update : \/ challenge'[y] = "NONE" <=> challenge[y] = "NONE"
                          \/ y = u /\ f.action = "START" /\ challenge'[y] = "PENDING"
    BY <1>h, <1>t, CloseKeepsRows
  <1>1. PendingHasChallenge'
    <2> SUFFICES ASSUME NEW d \in Chat, conversation'[d] = "VERIFY_PENDING"
                 PROVE  OpenChallenges(d)' # {}
      BY DEF PendingHasChallenge
    <2>1. CASE d # c
      <3>1. \A y \in Update : ChatOf[y] = d => challenge'[y] = challenge[y]
        BY <1>h, <1>t, <2>1, CloseKeepsRows DEF c
      <3>2. conversation[d] = "VERIFY_PENDING"
        BY <1>h, <2>1
      <3> QED
        BY <3>1, <3>2 DEF PendingHasChallenge, OpenChallenges, IsOpen
    <2>2. CASE d = c
      <3>1. CASE challenge' = challenge /\ conversation[c] = "VERIFY_PENDING"
        BY <2>2, <3>1 DEF PendingHasChallenge, OpenChallenges, IsOpen
      <3>2. CASE challenge' = [challenge EXCEPT ![u] = "PENDING"]
        <4>1. u \in OpenChallenges(c)'
          BY <3>2, <1>t DEF OpenChallenges, IsOpen, OpenStatus, c
        <4> QED
          BY <4>1, <2>2
      <3> QED
        BY <1>h, <2>2, <3>1, <3>2
    <2> QED
      BY <2>1, <2>2
  <1>2. ChallengesBorn'
    <2> SUFFICES ASSUME NEW y \in Update
                 PROVE  /\ processed'[y] # "APPLIED" => challenge'[y] = "NONE"
                        /\ challenge'[y] = "NONE" => attempts'[y] = 0
                        /\ challenge'[y] # "NONE" => facts'[y].action = "START"
      BY DEF ChallengesBorn
    <2>1. processed'[y] # "APPLIED" => challenge'[y] = "NONE"
      BY <1>p, <1>r DEF ChallengesBorn
    <2>2. challenge'[y] = "NONE" => attempts'[y] = 0
      <3>1. challenge'[y] = "NONE" => challenge[y] = "NONE" /\ attempts[y] = 0
        BY <1>r DEF ChallengesBorn
      <3>2. Spends(f) /\ CanConsume(x) => challenge[x] # "NONE"
        BY DEF CanConsume, IsOpen, OpenStatus
      <3> QED
        BY <1>h, <1>t, <3>1, <3>2
    <2>3. challenge'[y] # "NONE" => facts'[y].action = "START"
      BY <1>p, <1>r DEF ChallengesBorn, f
    <2> QED
      BY <2>1, <2>2, <2>3
  <1>3. AttemptsAccounted'
    <2>1. CASE ~Spends(f) /\ attempts' = attempts
      <3>1. \A y : WrongAnswers(y)' = WrongAnswers(y)
        BY <1>p, <2>1, NoneCounted DEF f
      <3>2. attempts[u] = 0 /\ Cardinality(WrongAnswers(u)) = 0
        <4>1. WrongAnswers(u) = {}
          BY <1>p DEF WrongAnswers, References, Refers, Answering
        <4> QED
          BY <1>p, <4>1, FS_EmptySet DEF ChallengesBorn
      <3> QED
        BY <2>1, <3>1, <3>2, <1>r DEF AttemptsAccounted
    <2>2. CASE Spends(f) /\ CanConsume(x) /\ attempts' = [attempts EXCEPT ![x] = @ + 1]
      <3>1. \A y : Cardinality(WrongAnswers(y))' =
                      IF y = x THEN Cardinality(WrongAnswers(y)) + 1
                      ELSE Cardinality(WrongAnswers(y))
        BY <1>p, <2>2, OneCounted DEF f
      <3>2. x \in Update /\ challenge[x] # "NONE"
        BY <2>2 DEF CanConsume, IsOpen, OpenStatus
      <3>3. \A y \in Update : attempts'[y] = IF y = x THEN attempts[y] + 1 ELSE attempts[y]
        BY <2>2, <3>2, <1>t
      <3>4. \A y \in Update : challenge'[y] # "NONE" => challenge[y] # "NONE"
        BY <1>r, <2>2 DEF Spends
      <3> QED
        BY <3>1, <3>2, <3>3, <3>4 DEF AttemptsAccounted
    <2> QED
      BY <1>h, <2>1, <2>2
  <1> QED
    BY <1>1, <1>2, <1>3

\* Every Owner command keeps the invariant: /reset removes challenges with
\* their counts, /unblock closes them.
LEMMA CommandInbox ==
    ASSUME InboxInv, NEW u \in Update, Command(u)
    PROVE  ChallengesBorn' /\ PendingHasChallenge' /\ AttemptsAccounted'
  <1> USE DEF InboxInv
  <1> DEFINE c == ChatOf[u]
  <1>c. c \in Chat /\ conversation \in [Chat -> ConversationState \cup {"NONE"}]
    BY ChatAssumption DEF Update, TypeOK, StoreTypeOK
  <1>p. /\ processed[u] = "NONE"
        /\ processed' = [processed EXCEPT ![u] = "APPLIED"]
        /\ facts' = [facts EXCEPT ![u] = [NoFacts EXCEPT !.action = "COMMAND"]]
    BY DEF Command, ResetConversation, Unblock, SetDryRun, OtherCommand, CommandAccepted,
           Arrives, Finish
  <1>v. \A v \in Update : /\ processed'[v] = IF v = u THEN "APPLIED" ELSE processed[v]
                          /\ v # u => facts'[v] = facts[v]
                          /\ v = u => facts'[v].action = "COMMAND"
    BY <1>p DEF TypeOK, StoreTypeOK, NoFacts
  <1>f. InboxForward
    BY <1>p, <1>v DEF InboxForward
  <1>w. \A x : WrongAnswers(x)' = WrongAnswers(x)
    BY <1>p, <1>v, NoneCounted DEF Spends
  <1>1. CASE ResetConversation(u)
    <2>1. /\ conversation' = [conversation EXCEPT ![c] = "NEW"]
          /\ \A x \in Update : challenge'[x] = IF ChatOf[x] = c THEN "NONE" ELSE challenge[x]
          /\ \A x \in Update : attempts'[x] = IF ChatOf[x] = c THEN 0 ELSE attempts[x]
      BY <1>1 DEF ResetConversation, SetState
    <2>2. PendingHasChallenge'
      <3>1. \A d \in Chat : d # c => OpenChallenges(d)' = OpenChallenges(d)
        BY <2>1 DEF OpenChallenges, IsOpen
      <3> QED
        BY <1>c, <2>1, <3>1 DEF PendingHasChallenge
    <2>3. ChallengesBorn'
      BY <1>f, <2>1 DEF ChallengesBorn, InboxForward
    <2>4. AttemptsAccounted'
      BY <1>w, <2>1 DEF AttemptsAccounted
    <2> QED
      BY <2>2, <2>3, <2>4
  <1>2. CASE Unblock(u)
    <2>1. /\ conversation' = [conversation EXCEPT ![c] = "NEW"]
          /\ challenge' = CloseChallenges(OpenChallenges(c))
          /\ attempts' = attempts
      BY <1>2 DEF Unblock, SetState
    <2>2. \A x \in Update : /\ challenge'[x] = "NONE" <=> challenge[x] = "NONE"
                            /\ ChatOf[x] # c => challenge'[x] = challenge[x]
      BY <2>1, CloseKeepsRows DEF OpenChallenges
    <2>3. PendingHasChallenge'
      <3>1. \A d \in Chat : d # c => OpenChallenges(d)' = OpenChallenges(d)
        BY <2>2 DEF OpenChallenges, IsOpen
      <3> QED
        BY <1>c, <2>1, <3>1 DEF PendingHasChallenge
    <2>4. ChallengesBorn'
      BY <1>f, <2>1, <2>2 DEF ChallengesBorn, InboxForward
    <2>5. AttemptsAccounted'
      BY <1>w, <2>1, <2>2 DEF AttemptsAccounted
    <2> QED
      BY <2>3, <2>4, <2>5
  <1>3. CASE OtherCommand(u) \/ \E on \in BOOLEAN : SetDryRun(u, on)
    <2>1. UNCHANGED <<conversation, challenge, attempts>>
      BY <1>3 DEF OtherCommand, SetDryRun, lifecycle
    <2> QED
      BY <2>1, <1>f, <1>w, TablesKept
  <1> QED
    BY <1>1, <1>2, <1>3 DEF Command

\* The retention tick expires a challenge and its contact together.
LEMMA ExpiryInbox ==
    ASSUME InboxInv, NEW blocks, ExpireDueState(blocks)
    PROVE  ChallengesBorn' /\ PendingHasChallenge' /\ AttemptsAccounted'
  <1> USE DEF InboxInv
  <1>1. /\ challenge' = CloseChallenges(Due)
        /\ attempts' = attempts /\ processed' = processed /\ facts' = facts
    BY DEF ExpireDueState, inbox
  <1>2. \A x \in Update : /\ challenge'[x] = "NONE" <=> challenge[x] = "NONE"
                          /\ x \notin Due => challenge'[x] = challenge[x]
    BY <1>1, CloseKeepsRows
  <1>3. \A d \in Chat : conversation'[d] = "VERIFY_PENDING"
           => conversation[d] = "VERIFY_PENDING" /\ ~\E x \in Due : ChatOf[x] = d
    BY DEF ExpireDueState, StateAfterExpiry
  <1>4. PendingHasChallenge'
    <2> SUFFICES ASSUME NEW d \in Chat, conversation'[d] = "VERIFY_PENDING"
                 PROVE  OpenChallenges(d)' # {}
      BY DEF PendingHasChallenge
    <2>1. \A x \in OpenChallenges(d) : x \in OpenChallenges(d)'
      BY <1>2, <1>3 DEF OpenChallenges, IsOpen
    <2> QED
      BY <1>3, <2>1 DEF PendingHasChallenge
  <1>5. ChallengesBorn'
    BY <1>1, <1>2 DEF ChallengesBorn
  <1>6. AttemptsAccounted'
    <2>1. \A x : WrongAnswers(x)' = WrongAnswers(x)
      BY <1>1 DEF WrongAnswers
    <2> QED
      BY <1>1, <1>2, <2>1 DEF AttemptsAccounted
  <1> QED
    BY <1>4, <1>5, <1>6

\* Retiring the connection leaves no challenge to account for.
LEMMA ForgetInbox ==
    ASSUME ForgetConnection
    PROVE  ChallengesBorn' /\ PendingHasChallenge' /\ AttemptsAccounted'
  BY DEF ForgetConnection, ChallengesBorn, PendingHasChallenge, AttemptsAccounted

-----------------------------------------------------------------------------
(***************************************************************************)
(* The induction.                                                          *)
(***************************************************************************)
\* The freshly migrated database satisfies the invariant.
LEMMA InboxInit == Init => InboxInv
  <1> SUFFICES ASSUME Init PROVE InboxInv
    OBVIOUS
  <1>1. TypeOK
    BY TypeInit
  <1>2. InHand /\ References
    BY DEF Init, StoreInit, ProcInit, Idle, NoFacts, InHand, References, Refers, Answering
  <1>3. ChallengesBorn /\ PendingHasChallenge /\ AttemptsAccounted
    BY DEF Init, StoreInit, ChallengesBorn, PendingHasChallenge, AttemptsAccounted
  <1> QED
    BY <1>1, <1>2, <1>3 DEF InboxInv

\* What is prepared names a challenge that is open, so one that was created.
LEMMA PrepareRefers ==
    ASSUME ChallengesBorn, NEW u \in Update, NEW e, PrepareAction(ChatOf[u], e) # "INVALID",
           e.kind \in {"INBOUND", "EDITED", "OWNER", "BOT", "DELETED"}
    PROVE  Refers(PreparedEvent(u, e), u)
  <1> DEFINE c == ChatOf[u]
             f == PreparedEvent(u, e)
  <1>1. f.action = PrepareAction(c, e)
        /\ (f.action \in Answering => f.challenge = ActiveChallenge(c))
    BY DEF PreparedEvent
  <1>2. f.action \in Answering => PrepareAction(c, e) = SafeOutcome(c, e)
    BY <1>1, Zenon DEF PrepareAction, PrepareInbound, Answering
  <1>3. SafeOutcome(c, e) \in Answering => ActiveChallenge(c) # 0
    BY Zenon DEF SafeOutcome, Answering
  <1>4. f.action \in Answering => ActiveChallenge(c) \in OpenChallenges(c)
    BY <1>1, <1>2, <1>3, ActiveChallengeType
  <1>5. \A x \in OpenChallenges(c) : x \in Update /\ ChatOf[x] = c /\ processed[x] = "APPLIED"
    BY DEF OpenChallenges, IsOpen, OpenStatus, ChallengesBorn
  <1> QED
    BY <1>1, <1>4, <1>5 DEF Refers

\* Every step, every fault included, keeps the invariant.
LEMMA InboxStep == InboxInv /\ [Next]_vars => InboxInv'
  <1> SUFFICES ASSUME InboxInv, [Next]_vars
               PROVE  InHand' /\ References' /\ ChallengesBorn' /\ PendingHasChallenge'
                      /\ AttemptsAccounted'
    BY TypeStep DEF InboxInv
  <1> USE DEF InboxInv
  <1>i. Idle.pc = "IDLE"
    BY DEF Idle
  <1>p. processed \in [Update -> {"NONE", "RECORDED", "APPLIED"}] /\ facts \in [Update -> Facts]
        /\ (task.pc # "IDLE" => task.update \in Update)
        /\ (phase # "SERVING" => task = Idle)
    BY DEF TypeOK, StoreTypeOK
  <1> DEFINE Tables == ChallengesBorn' /\ PendingHasChallenge' /\ AttemptsAccounted'
  <1>k. ASSUME UNCHANGED <<conversation, challenge, attempts, processed, facts>> PROVE Tables
    <2>1. InboxForward /\ \A x : WrongAnswers(x)' = WrongAnswers(x)
      BY <1>k DEF InboxForward, WrongAnswers
    <2> QED
      BY <1>k, <2>1, TablesKept
  <1>h. ASSUME task'.pc = "PREPARED" => task' = task /\ UNCHANGED processed,
               InboxForward, facts' = facts
        PROVE  InHand' /\ References'
    BY <1>h, ReferencesKept DEF InHand
  <1>1. ASSUME NEW u \in Update, NEW e \in Events(u), Prepare(u, e)
        PROVE  InHand' /\ References' /\ Tables
    <2>1. UNCHANGED <<conversation, challenge, attempts, processed, facts>>
          /\ processed[u] = "NONE" /\ task'.update = u /\ task'.facts = PreparedEvent(u, e)
      BY <1>1 DEF Prepare, Arrives, storeVars, lifecycle, inbox
    <2>2. e.kind \in {"INBOUND", "EDITED", "OWNER", "BOT", "DELETED"}
      BY EventType DEF TypeOK
    <2>3. Refers(PreparedEvent(u, e), u)
      BY <1>1, <2>2, PrepareRefers DEF Prepare
    <2>4. InHand' /\ References'
      BY <2>1, <2>3 DEF InHand, References, Refers
    <2> QED
      BY <1>k, <2>1, <2>4
  <1>2. ASSUME NEW u \in Update, Duplicate(u) \/ Redeliver(u) \/ Lapse(u) \/ PurgeHistory(u)
        PROVE  InHand' /\ References' /\ Tables
    <2>1. UNCHANGED <<conversation, challenge, attempts, processed, facts>>
      BY <1>2 DEF Duplicate, Redeliver, Lapse, PurgeHistory, vars, storeVars, lifecycle, inbox
    <2>2. task'.pc = "PREPARED" => task' = task
      BY <1>2, <1>i DEF Duplicate, Redeliver, Lapse, PurgeHistory, vars, procVars, Idle
    <2> QED
      BY <1>k, <1>h, <2>1, <2>2 DEF InboxForward
  <1>3. ASSUME NEW u \in Update, Command(u)
        PROVE  InHand' /\ References' /\ Tables
    <2>1. /\ task' = Idle /\ processed[u] = "NONE"
          /\ processed' = [processed EXCEPT ![u] = "APPLIED"]
          /\ facts' = [facts EXCEPT ![u] = [NoFacts EXCEPT !.action = "COMMAND"]]
      BY <1>3 DEF Command, ResetConversation, Unblock, SetDryRun, OtherCommand, CommandAccepted,
                  Working, Arrives, Finish
    <2>2. InboxForward /\ facts'[u].action = "COMMAND"
      BY <2>1, <1>p DEF InboxForward, NoFacts
    <2>3. InHand' /\ References'
      BY <1>i, <1>p, <2>1, <2>2 DEF InHand, References, Refers, InboxForward, Answering
    <2> QED
      BY <1>3, <2>3, CommandInbox
  <1>4. ASSUME NEW u \in Update, RecordTrigger(u)
        PROVE  InHand' /\ References' /\ Tables
    <2>1. /\ task' = Idle /\ processed[u] = "NONE" /\ UNCHANGED <<conversation, challenge, attempts>>
          /\ processed' = [processed EXCEPT ![u] = "RECORDED"]
          /\ facts' = [facts EXCEPT ![u] = [NoFacts EXCEPT !.action = "TRIGGER"]]
      BY <1>4 DEF RecordTrigger, Working, Arrives, lifecycle, procVars
    <2>2. InboxForward /\ facts'[u].action = "TRIGGER"
      BY <2>1, <1>p DEF InboxForward, NoFacts
    <2>3. InHand' /\ References'
      BY <1>i, <1>p, <2>1, <2>2 DEF InHand, References, Refers, InboxForward, Answering
    <2>4. \A x : WrongAnswers(x)' = WrongAnswers(x)
      BY <1>p, <2>1, NoneCounted
    <2> QED
      BY <2>1, <2>2, <2>3, <2>4, TablesKept
  <1>5. ASSUME NEW u \in Update, NEW on, NEW rs, ReconcileTrigger(u, on, rs)
        PROVE  InHand' /\ References' /\ Tables
    <2>1. /\ task' = Idle /\ processed[u] = "RECORDED" /\ facts[u].action = "TRIGGER"
          /\ UNCHANGED <<conversation, challenge, attempts, facts>>
          /\ processed' = [processed EXCEPT ![u] = "APPLIED"]
      BY <1>5 DEF ReconcileTrigger, RecordedTriggers, Working, lifecycle, procVars
    <2>2. InboxForward
      BY <2>1, <1>p DEF InboxForward
    <2>3. \A x : WrongAnswers(x)' = WrongAnswers(x)
      BY <1>p, <2>1, NoneCounted DEF Spends
    <2> QED
      BY <1>i, <1>h, <2>1, <2>2, <2>3, TablesKept
  <1>6. ASSUME NEW u \in Update, TriggerNotFound(u)
        PROVE  InHand' /\ References' /\ Tables
    <2>1. task' = Idle /\ facts' = facts /\ processed' = [processed EXCEPT ![u] = "APPLIED"]
      BY <1>6 DEF TriggerNotFound, Working, procVars
    <2>2. InboxForward
      BY <2>1, <1>p DEF InboxForward
    <2> QED
      BY <1>6, <1>i, <1>h, <2>1, <2>2, ForgetInbox DEF TriggerNotFound
  <1>7. ASSUME NEW blocks, ExpireDueState(blocks)
        PROVE  InHand' /\ References' /\ Tables
    <2>1. UNCHANGED <<task, processed, facts>>
      BY <1>7 DEF ExpireDueState, inbox, procVars
    <2> QED
      BY <1>7, <1>h, <2>1, ExpiryInbox DEF InboxForward
  <1>8. CASE Record
    <2> DEFINE u == task.update
    <2>1. /\ u \in Update /\ task'.pc = "RECORDED" /\ processed[u] = "NONE"
          /\ UNCHANGED <<conversation, challenge, attempts>>
          /\ processed' = [processed EXCEPT ![u] = "RECORDED"]
          /\ facts' = [facts EXCEPT ![u] = task.facts]
          /\ Refers(task.facts, u)
      BY <1>8, <1>p DEF Record, lifecycle, TypeOK, InHand, References
    <2>2. InboxForward
      BY <2>1, <1>p DEF InboxForward
    <2>3. References'
      BY <2>1, <2>2, <1>p DEF References, Refers, InboxForward
    <2>4. \A x : WrongAnswers(x)' = WrongAnswers(x)
      BY <1>p, <2>1, NoneCounted
    <2> QED
      BY <2>1, <2>2, <2>3, <2>4, TablesKept DEF InHand
  <1>a. ASSUME NEW u \in Update, ApplyRecorded(u), task'.pc # "PREPARED"
        PROVE  InHand' /\ References' /\ Tables
    <2>1. facts' = facts /\ processed' = [processed EXCEPT ![u] = "APPLIED"]
      BY <1>a DEF ApplyRecorded, MarkApplied
    <2>2. InboxForward
      BY <2>1, <1>p DEF InboxForward
    <2> QED
      BY <1>a, <1>h, <2>1, <2>2, ApplyInbox
  <1>9. CASE Apply
    BY <1>9, <1>a, <1>i, <1>p DEF Apply
  <1>10. CASE Recover
    BY <1>10, <1>a, <1>i, <1>p DEF Recover, procVars
  <1>11. CASE StartupNotFound
    <2>1. UNCHANGED <<task, processed, facts>>
      BY <1>11 DEF StartupNotFound, inbox
    <2> QED
      BY <1>11, <1>h, <2>1, ForgetInbox DEF StartupNotFound, InboxForward
  <1>12. CASE ApplyRefused \/ StorageFault \/ StartupUnanswered \/ PublishReady \/ Restart
              \/ StartupFails \/ Serve \/ Crash \/ UNCHANGED vars
              \/ \E on \in BOOLEAN, rs \in RightSets : ReconcileStartup(on, rs)
    <2>1. UNCHANGED <<conversation, challenge, attempts, processed, facts>>
      BY <1>12 DEF ApplyRefused, StorageFault, StartupUnanswered, PublishReady, Restart,
                   StartupFails, Serve, Crash, ReconcileStartup, vars, storeVars, lifecycle, inbox
    <2>2. task'.pc = "PREPARED" => task' = task
      BY <1>12, <1>i DEF ApplyRefused, StorageFault, StartupUnanswered, PublishReady, Restart,
                         StartupFails, Serve, Crash, ReconcileStartup, vars, procVars
    <2> QED
      BY <1>k, <1>h, <2>1, <2>2 DEF InboxForward
  <1> QED
    BY <1>1, <1>2, <1>3, <1>4, <1>5, <1>6, <1>7, <1>8, <1>9, <1>10, <1>11, <1>12
    DEF Next, ProcStep

\* Whatever crashes, fails or is redelivered, the inbox and the challenges
\* stay consistent: prepare, record, apply, replay, commands and retention.
THEOREM InboxInvariant == Spec => []InboxInv
  BY InboxInit, InboxStep, PTL DEF Spec

\* A VERIFY_PENDING contact always has a challenge to answer, under every
\* fault: safe_outcome never locks a contact out with its InvalidEvent error.
THEOREM PendingAlwaysHasChallenge == Spec => []PendingHasChallenge
  <1>1. InboxInv => PendingHasChallenge
    BY DEF InboxInv
  <1> QED
    BY <1>1, InboxInvariant, PTL

\* attempts_used counts each wrong answer exactly once, under every fault:
\* increment_challenge_attempts commits with the APPLIED mark.
THEOREM AttemptsAlwaysAccounted == Spec => []AttemptsAccounted
  <1>1. InboxInv => AttemptsAccounted
    BY DEF InboxInv
  <1> QED
    BY <1>1, InboxInvariant, PTL

-----------------------------------------------------------------------------
(***************************************************************************)
(* Idempotency keys.  The rows of an update are queued in the transaction  *)
(* that marks it APPLIED, so a second set would need a second application; *)
(* only the retention tick adds a row for an older update, as it closes    *)
(* that update's challenge.                                                *)
(***************************************************************************)
SameKey(a, b) == a.update = b.update /\ a.kind = b.kind /\ a.text = b.text
Distinct(s) == \A i, j \in DOMAIN s : i # j /\ SameKey(s[i], s[j]) => s[i].text \in Alerts
Apart(s, t) == \A i \in DOMAIN s, j \in DOMAIN t : ~SameKey(s[i], t[j])

\* Whose rows are in the outbox, and that an expiry notice closed its challenge.
RowsKeyed ==
    \A i \in DOMAIN outbox :
        /\ processed[outbox[i].update] = "APPLIED"
        /\ /\ outbox[i].kind = "EDIT_CHALLENGE"
           /\ outbox[i].text = "expired"
           /\ facts[outbox[i].update].action = "START"
           => ~IsOpen(outbox[i].update)

EffectsInv == InboxInv /\ RowsKeyed /\ EffectsOnce

\* Where the elements of two sequences put together come from.
LEMMA Appended ==
    ASSUME NEW s \in Seq(OutboxRow), NEW t \in Seq(OutboxRow)
    PROVE  /\ s \o t \in Seq(OutboxRow)
           /\ \A k \in DOMAIN (s \o t) :
                 \/ k \in DOMAIN s /\ (s \o t)[k] = s[k]
                 \/ k \notin DOMAIN s /\ k - Len(s) \in DOMAIN t /\ (s \o t)[k] = t[k - Len(s)]
  <1>1. s \o t \in Seq(OutboxRow) /\ DOMAIN (s \o t) = 1..(Len(s) + Len(t))
        /\ Len(s) \in Nat /\ Len(t) \in Nat /\ DOMAIN s = 1..Len(s) /\ DOMAIN t = 1..Len(t)
    BY ConcatProperties, LenProperties
  <1>2. \A k \in 1..(Len(s) + Len(t)) :
           (s \o t)[k] = IF k <= Len(s) THEN s[k] ELSE t[k - Len(s)]
    BY ConcatProperties
  <1> QED
    BY <1>1, <1>2

\* Distinct rows put together stay distinct when no key is in both.
LEMMA DistinctAppend ==
    ASSUME NEW s \in Seq(OutboxRow), NEW t \in Seq(OutboxRow),
           Distinct(s), Distinct(t), Apart(s, t)
    PROVE  Distinct(s \o t)
  <1> DEFINE r == s \o t
  <1>n. Len(s) \in Nat /\ DOMAIN t \subseteq Nat /\ DOMAIN s \subseteq Nat /\ DOMAIN r \subseteq Nat
    BY LenProperties, Appended
  <1>1. \A k \in DOMAIN r : \/ k \in DOMAIN s /\ r[k] = s[k]
                            \/ k - Len(s) \in DOMAIN t /\ r[k] = t[k - Len(s)]
    BY Appended
  <1> HIDE DEF r
  <1> SUFFICES ASSUME NEW i \in DOMAIN r, NEW j \in DOMAIN r, i # j, SameKey(r[i], r[j])
               PROVE  r[i].text \in Alerts
    BY DEF Distinct, r
  <1>2. CASE i \in DOMAIN s /\ r[i] = s[i] /\ j \in DOMAIN s /\ r[j] = s[j]
    BY <1>2 DEF Distinct
  <1>3. CASE i - Len(s) \in DOMAIN t /\ r[i] = t[i - Len(s)]
             /\ j - Len(s) \in DOMAIN t /\ r[j] = t[j - Len(s)]
    <2>1. i - Len(s) # j - Len(s)
      BY <1>n
    <2> QED
      BY <1>3, <2>1 DEF Distinct
  <1>4. CASE i \in DOMAIN s /\ r[i] = s[i] /\ j - Len(s) \in DOMAIN t /\ r[j] = t[j - Len(s)]
    BY <1>4 DEF Apart
  <1>5. CASE i - Len(s) \in DOMAIN t /\ r[i] = t[i - Len(s)] /\ j \in DOMAIN s /\ r[j] = s[j]
    BY <1>5 DEF Apart, SameKey
  <1> QED
    BY <1>1, <1>2, <1>3, <1>4, <1>5

\* Apartness from two sequences is apartness from both put together.
LEMMA ApartAppend ==
    ASSUME NEW s \in Seq(OutboxRow), NEW t \in Seq(OutboxRow), NEW r,
           Apart(s, r), Apart(t, r)
    PROVE  Apart(s \o t, r)
  BY Appended DEF Apart

\* Every row of a sequence is about one update and has one of some texts.
About(s, u, texts) == \A i \in DOMAIN s : s[i].update = u /\ s[i].text \in texts

\* Rows with different texts are apart.
LEMMA TextsApart ==
    ASSUME NEW s, NEW t, NEW u, NEW a, NEW b, About(s, u, a), About(t, u, b), a \cap b = {}
    PROVE  Apart(s, t)
  BY DEF Apart, About, SameKey

\* A single row is distinct.
LEMMA OneDistinct ==
    ASSUME NEW row
    PROVE  Distinct(<<row>>) /\ Distinct(<<>>)
  BY DEF Distinct

\* No row, and one row, about an update.
LEMMA NoneAbout ==
    ASSUME NEW u, NEW texts
    PROVE  Distinct(<<>>) /\ About(<<>>, u, texts)
  BY DEF Distinct, About

\* A row about an update is a sequence about it.
LEMMA OneAbout ==
    ASSUME NEW row, NEW u, NEW texts, row.update = u, row.text \in texts
    PROVE  /\ Distinct(<<row>>) /\ About(<<row>>, u, texts)
           /\ \A i \in DOMAIN <<row>> : <<row>>[i] = row
  BY DEF Distinct, About

\* The evidence and trace rows of an event.
LEMMA SideRows ==
    ASSUME NEW f, NEW u \in Update
    PROVE  /\ Distinct(Evidence(f, u)) /\ About(Evidence(f, u), u, {"spam", "detector_failed"})
           /\ Distinct(Trace(f, u)) /\ About(Trace(f, u), u, {"trace"})
           /\ \A i \in DOMAIN Evidence(f, u) : Evidence(f, u)[i].kind # "EDIT_CHALLENGE"
           /\ \A i \in DOMAIN Trace(f, u) : Trace(f, u)[i].kind # "EDIT_CHALLENGE"
  BY OneDistinct DEF Evidence, Trace, About, OwnerRow, Row

\* What a handler queues for an update without rows is queued once.
LEMMA EnqueueOnce ==
    ASSUME NEW f \in Facts, NEW u \in Update, NEW rows \in Seq(OutboxRow), NEW texts,
           outbox \in Seq(OutboxRow), Distinct(outbox),
           \A i \in DOMAIN outbox : outbox[i].update # u,
           Distinct(rows), About(rows, u, texts),
           texts \cap {"spam", "detector_failed", "trace"} = {},
           Enqueue(f, u, rows)
    PROVE  /\ Distinct(outbox')
           /\ \A k \in DOMAIN outbox' :
                 \/ k \in DOMAIN outbox /\ outbox'[k] = outbox[k]
                 \/ /\ outbox'[k].update = u
                    /\ outbox'[k].kind = "EDIT_CHALLENGE" => \E j \in DOMAIN rows : outbox'[k] = rows[j]
  <1> DEFINE ev == Evidence(f, u)
             tr == Trace(f, u)
             one == outbox \o ev
             two == one \o rows
             all == two \o tr
  <1>t. ev \in Seq(OutboxRow) /\ tr \in Seq(OutboxRow)
    BY EvidenceRows
  <1>s. /\ Distinct(ev) /\ About(ev, u, {"spam", "detector_failed"})
        /\ Distinct(tr) /\ About(tr, u, {"trace"})
        /\ \A i \in DOMAIN ev : ev[i].kind # "EDIT_CHALLENGE"
        /\ \A i \in DOMAIN tr : tr[i].kind # "EDIT_CHALLENGE"
    BY SideRows
  <1>o. outbox' = all
    BY DEF Enqueue
  <1> HIDE DEF ev, tr
  <1>a. Apart(outbox, ev) /\ Apart(outbox, rows) /\ Apart(outbox, tr)
    BY <1>s DEF Apart, About, SameKey
  <1>b. Apart(ev, rows) /\ Apart(ev, tr) /\ Apart(rows, tr)
    BY <1>s, TextsApart
  <1>1. one \in Seq(OutboxRow) /\ Distinct(one) /\ Apart(one, rows) /\ Apart(one, tr)
    BY <1>t, <1>s, <1>a, <1>b, Appended, DistinctAppend, ApartAppend
  <1>2. \A k \in DOMAIN one : \/ k \in DOMAIN outbox /\ one[k] = outbox[k]
                              \/ one[k].update = u /\ one[k].kind # "EDIT_CHALLENGE"
    BY <1>t, <1>s, Appended DEF About
  <1> HIDE DEF one
  <1>3. two \in Seq(OutboxRow) /\ Distinct(two) /\ Apart(two, tr)
    BY <1>1, <1>b, Appended, DistinctAppend, ApartAppend
  <1>4. \A k \in DOMAIN two :
           \/ k \in DOMAIN one /\ two[k] = one[k]
           \/ two[k].update = u /\ \E j \in DOMAIN rows : two[k] = rows[j]
    BY <1>1, Appended DEF About
  <1> HIDE DEF two
  <1>5. Distinct(all)
    BY <1>t, <1>s, <1>3, DistinctAppend
  <1>6. \A k \in DOMAIN all :
           \/ k \in DOMAIN two /\ all[k] = two[k]
           \/ all[k].update = u /\ all[k].kind # "EDIT_CHALLENGE"
    BY <1>t, <1>s, <1>3, Appended DEF About
  <1> HIDE DEF all
  <1> QED
    BY <1>o, <1>2, <1>4, <1>5, <1>6

\* The texts of the rows a handler queues beside evidence and trace.
HandlerText ==
    {"", "success", "incorrect", "expired", "exhausted", "exhausted_dry_run",
     "verification_exhausted"}

\* What a handler queues: distinct rows about its update, none of them an edit
\* when it starts a challenge.
LEMMA HandlerRows ==
    ASSUME TypeOK, NEW u \in Update, ApplyRecorded(u)
    PROVE  \E rows \in Seq(OutboxRow) :
              /\ Enqueue(facts[u], u, rows)
              /\ Distinct(rows) /\ About(rows, u, HandlerText)
              /\ facts[u].action = "START" =>
                    \A i \in DOMAIN rows : rows[i].kind # "EDIT_CHALLENGE"
  <1> DEFINE c == ChatOf[u]
             f == facts[u]
             x == f.challenge
             Good(rows) == /\ rows \in Seq(OutboxRow)
                           /\ Distinct(rows) /\ About(rows, u, HandlerText)
                           /\ f.action = "START" =>
                                 \A i \in DOMAIN rows : rows[i].kind # "EDIT_CHALLENGE"
  <1>f. f \in Facts /\ x \in 0..MaxUpdate
    BY DEF TypeOK, StoreTypeOK, Facts
  <1> HIDE DEF f
  <1>n. Good(<<>>)
    BY NoRows, NoneAbout
  <1>e. \A t \in HandlerText : f.action # "START" => Good(<<EditRow(u, x, t)>>)
    <2> SUFFICES ASSUME NEW t \in HandlerText, f.action # "START" PROVE Good(<<EditRow(u, x, t)>>)
      OBVIOUS
    <2>1. <<EditRow(u, x, t)>> \in Seq(OutboxRow)
      BY <1>f, EditRows DEF HandlerText, Text
    <2> QED
      BY <2>1, OneDistinct DEF About, EditRow, Row
  <1>s. Good(<<Row(u, "SEND_CHALLENGE", u, "", {})>>)
    <2>1. u \in 0..MaxUpdate
      BY UpdateAssumption DEF Update
    <2>2. <<Row(u, "SEND_CHALLENGE", u, "", {})>> \in Seq(OutboxRow)
      BY <2>1, PlainRow DEF Kind, Text
    <2> DEFINE p == Row(u, "SEND_CHALLENGE", u, "", {})
    <2>3. p.update = u /\ p.kind = "SEND_CHALLENGE" /\ p.text \in HandlerText
      BY DEF Row, HandlerText
    <2> HIDE DEF p
    <2>4. Distinct(<<p>>) /\ About(<<p>>, u, HandlerText) /\ \A i \in DOMAIN <<p>> : <<p>>[i] = p
      BY <2>3, OneAbout
    <2> QED
      BY <2>2, <2>3, <2>4 DEF p
  <1>x. f.action # "START" => Good(<<Row(u, "PROPOSED", 0, "verification_exhausted", {}),
                                     EditRow(u, x, "exhausted_dry_run")>>)
    <2>1. Row(u, "PROPOSED", 0, "verification_exhausted", {}) \in OutboxRow
      BY NoRows, PlainRow DEF Kind, Text
    <2>2. EditRow(u, x, "exhausted_dry_run") \in OutboxRow
      BY <1>f, EditRows DEF Text
    <2> DEFINE p == Row(u, "PROPOSED", 0, "verification_exhausted", {})
               q == EditRow(u, x, "exhausted_dry_run")
    <2>3. /\ p.update = u /\ p.kind = "PROPOSED" /\ p.text \in HandlerText
          /\ q.update = u /\ q.kind = "EDIT_CHALLENGE" /\ q.text \in HandlerText
      BY DEF EditRow, Row, HandlerText
    <2> HIDE DEF p, q
    <2>4. <<p, q>> \in Seq(OutboxRow) /\ Distinct(<<p, q>>) /\ About(<<p, q>>, u, HandlerText)
      BY <2>1, <2>2, <2>3 DEF Distinct, SameKey, About, p, q
    <2> QED
      BY <2>4 DEF p, q
  <1>k. \A book : Good(Cleanup(f, u, book))
    <2> SUFFICES ASSUME NEW book PROVE Good(Cleanup(f, u, book))
      OBVIOUS
    <2> DEFINE r == <<Row(u, "READ", 0, "", f.messages)>>
               ms == EligibleDeletions(book, c)
               d == DeleteRows(u, ms)
    <2>1. r \in Seq(OutboxRow) /\ d \in Seq(OutboxRow)
      <3>1. f.messages \in SUBSET Message /\ ms \in SUBSET Message
        BY <1>f DEF Facts, EligibleDeletions
      <3> QED
        BY <3>1, NoRows, PlainRow, DeletionRows DEF Kind, Text
    <2>2. Distinct(r) /\ About(r, u, HandlerText) /\ \A i \in DOMAIN r : r[i].kind = "READ"
      <3> DEFINE p == Row(u, "READ", 0, "", f.messages)
      <3>1. p.update = u /\ p.kind = "READ" /\ p.text \in HandlerText
        BY DEF Row, HandlerText
      <3> HIDE DEF p
      <3>2. Distinct(<<p>>) /\ About(<<p>>, u, HandlerText) /\ \A i \in DOMAIN <<p>> : <<p>>[i] = p
        BY <3>1, OneAbout
      <3> QED
        BY <3>1, <3>2 DEF p
    <2>3. Distinct(d) /\ About(d, u, HandlerText) /\ \A i \in DOMAIN d : d[i].kind = "DELETE"
      <3>1. CASE ms = {}
        BY <3>1, NoneAbout DEF DeleteRows
      <3>2. CASE ms # {}
        <4> DEFINE p == Row(u, "DELETE", 0, "", ms)
        <4>1. p.update = u /\ p.kind = "DELETE" /\ p.text \in HandlerText
          BY DEF Row, HandlerText
        <4> HIDE DEF p
        <4>2. Distinct(<<p>>) /\ About(<<p>>, u, HandlerText)
              /\ \A i \in DOMAIN <<p>> : <<p>>[i] = p
          BY <4>1, OneAbout
        <4> QED
          BY <3>2, <4>1, <4>2 DEF p, DeleteRows
      <3> QED
        BY <3>1, <3>2
    <2> HIDE DEF r, d
    <2>4. Apart(r, d)
      BY <2>2, <2>3 DEF Apart, SameKey
    <2>5. r \o d \in Seq(OutboxRow) /\ Distinct(r \o d) /\ About(r \o d, u, HandlerText)
      BY <2>1, <2>2, <2>3, <2>4, Appended, DistinctAppend DEF About
    <2>6. \A i \in DOMAIN (r \o d) : (r \o d)[i].kind # "EDIT_CHALLENGE"
      BY <2>1, <2>2, <2>3, Appended
    <2> QED
      BY <2>5, <2>6 DEF Cleanup, r, d
  <1> HIDE DEF Good
  <1>1. \E rows : Good(rows) /\ Enqueue(f, u, rows)
    <2>1. CASE ApplyStart(f, u, c)
      BY <2>1, <1>s DEF ApplyStart
    <2>2. CASE ApplyRetain(f, u, c) \/ ApplyBotMessage(f, u, c) \/ ApplyManualOwner(f, u, c)
               \/ ApplyDeletions(f, u, c) \/ ApplyInert(f, u)
      BY <2>2, <1>n DEF ApplyRetain, ApplyBotMessage, ApplyManualOwner, ApplyDeletions, ApplyInert
    <2>3. ASSUME NEW action \in {"CORRECT", "EXPIRED"}, NEW event, NEW text \in {"success", "expired"},
                 ApplyVerdict(f, u, c, action, event, text)
          PROVE  \E rows : Good(rows) /\ Enqueue(f, u, rows)
      BY <2>3, <1>e DEF ApplyVerdict, HandlerText
    <2>4. CASE ApplyIncorrect(f, u, c)
      BY <2>4, <1>e DEF ApplyIncorrect, HandlerText
    <2>5. CASE ApplyExhausted(f, u, c)
      BY <2>5, <1>e, <1>x DEF ApplyExhausted, HandlerText
    <2>6. CASE ApplySpam(f, u, c) \/ ApplyBlocked(f, u, c)
      BY <2>6, <1>k DEF ApplySpam, ApplyBlocked
    <2> QED
      <3>1. ApplyFacts(f, u, c)
        BY DEF ApplyRecorded, f
      <3> QED
        BY <3>1, <2>1, <2>2, <2>3, <2>4, <2>5, <2>6 DEF ApplyFacts
  <1> QED
    BY <1>1 DEF Good, f

\* The rows keep their owners when the inbox moves forward, no applied update
\* reopens its challenge, and a new row is about an applied update.
LEMMA RowsKeyedKept ==
    ASSUME RowsKeyed, InboxForward,
           outbox \in Seq(OutboxRow),
           \A y \in Update : processed[y] = "APPLIED" /\ IsOpen(y)' => IsOpen(y),
           \A k \in DOMAIN outbox' :
              \/ k \in DOMAIN outbox /\ SameKey(outbox'[k], outbox[k])
              \/ /\ processed'[outbox'[k].update] = "APPLIED"
                 /\ \/ outbox'[k].kind # "EDIT_CHALLENGE" \/ outbox'[k].text # "expired"
                    \/ facts'[outbox'[k].update].action # "START"
                    \/ challenge'[outbox'[k].update] \notin OpenStatus
    PROVE  RowsKeyed'
  <1> SUFFICES ASSUME NEW k \in DOMAIN outbox'
               PROVE  /\ processed'[outbox'[k].update] = "APPLIED"
                      /\ /\ outbox'[k].kind = "EDIT_CHALLENGE" /\ outbox'[k].text = "expired"
                         /\ facts'[outbox'[k].update].action = "START"
                         => challenge'[outbox'[k].update] \notin OpenStatus
    BY DEF RowsKeyed, IsOpen
  <1>1. CASE k \in DOMAIN outbox /\ SameKey(outbox'[k], outbox[k])
    <2>1. outbox[k] \in OutboxRow /\ outbox[k].update \in Update
      BY <1>1 DEF OutboxRow
    <2> QED
      BY <1>1, <2>1 DEF RowsKeyed, InboxForward, SameKey, IsOpen
  <1> QED
    BY <1>1

\* Rows that only change status keep their keys.
LEMMA DistinctKept ==
    ASSUME NEW s, NEW t, Distinct(s), DOMAIN t = DOMAIN s,
           \A i \in DOMAIN s : SameKey(t[i], s[i])
    PROVE  Distinct(t)
  BY DEF Distinct, SameKey

\* An update whose facts are not applied yet has no row.
LEMMA NoRowYet ==
    ASSUME RowsKeyed, NEW u, processed[u] # "APPLIED"
    PROVE  \A i \in DOMAIN outbox : outbox[i].update # u
  BY DEF RowsKeyed

\* apply_recorded_event queues the rows of its update once.
LEMMA ApplyEffects ==
    ASSUME EffectsInv, NEW u \in Update, ApplyRecorded(u)
    PROVE  RowsKeyed' /\ EffectsOnce'
  <1> USE DEF EffectsInv, InboxInv
  <1>t. outbox \in Seq(OutboxRow) /\ facts[u] \in Facts
        /\ challenge \in [Update -> OpenStatus \cup {"NONE", "CLOSED"}]
    BY DEF TypeOK, StoreTypeOK
  <1>p. /\ processed[u] = "RECORDED" /\ facts' = facts
        /\ \A v \in Update : processed'[v] = IF v = u THEN "APPLIED" ELSE processed[v]
    BY DEF ApplyRecorded, MarkApplied, TypeOK, StoreTypeOK
  <1>1. PICK rows \in Seq(OutboxRow) :
           /\ Enqueue(facts[u], u, rows) /\ Distinct(rows) /\ About(rows, u, HandlerText)
           /\ facts[u].action = "START" => \A i \in DOMAIN rows : rows[i].kind # "EDIT_CHALLENGE"
    BY HandlerRows
  <1>2. Distinct(outbox) /\ \A i \in DOMAIN outbox : outbox[i].update # u
    BY <1>p, NoRowYet DEF EffectsOnce, Distinct, SameKey
  <1>3. HandlerText \cap {"spam", "detector_failed", "trace"} = {}
    BY DEF HandlerText
  <1>4. /\ Distinct(outbox')
        /\ \A k \in DOMAIN outbox' :
              \/ k \in DOMAIN outbox /\ outbox'[k] = outbox[k]
              \/ /\ outbox'[k].update = u
                 /\ outbox'[k].kind = "EDIT_CHALLENGE" => \E j \in DOMAIN rows : outbox'[k] = rows[j]
    BY <1>1, <1>2, <1>3, <1>t, EnqueueOnce
  <1>5. \A y \in Update : processed[y] = "APPLIED" /\ IsOpen(y)' => IsOpen(y)
    <2>1. \/ challenge' = [challenge EXCEPT ![u] = "PENDING"]
          \/ \E cs : challenge' = CloseChallenges(cs)
          \/ challenge' = challenge
      BY HandlerWrites DEF References
    <2>2. ASSUME NEW cs, challenge' = CloseChallenges(cs), NEW y \in Update, IsOpen(y)'
          PROVE  IsOpen(y)
      BY <2>2 DEF CloseChallenges, IsOpen, OpenStatus
    <2> QED
      BY <1>p, <1>t, <2>1, <2>2 DEF IsOpen
  <1>6. InboxForward
    BY <1>p DEF InboxForward
  <1>7. RowsKeyed'
    BY <1>t, <1>p, <1>1, <1>4, <1>5, <1>6, RowsKeyedKept DEF SameKey
  <1> QED
    BY <1>4, <1>7 DEF EffectsOnce, Distinct, SameKey

\* An Owner command answers once; /reset only marks the rows it removes.
LEMMA CommandEffects ==
    ASSUME EffectsInv, NEW u \in Update, Command(u)
    PROVE  RowsKeyed' /\ EffectsOnce'
  <1> USE DEF EffectsInv, InboxInv
  <1>t. outbox \in Seq(OutboxRow) /\ DOMAIN outbox = 1..Len(outbox) /\ Len(outbox) \in Nat
        /\ challenge \in [Update -> OpenStatus \cup {"NONE", "CLOSED"}]
    BY LenProperties DEF TypeOK, StoreTypeOK
  <1>p. /\ processed[u] = "NONE"
        /\ processed' = [processed EXCEPT ![u] = "APPLIED"]
        /\ facts' = [facts EXCEPT ![u] = [NoFacts EXCEPT !.action = "COMMAND"]]
    BY DEF Command, ResetConversation, Unblock, SetDryRun, OtherCommand, CommandAccepted,
           Arrives, Finish
  <1>v. processed'[u] = "APPLIED" /\ InboxForward
    BY <1>p DEF TypeOK, StoreTypeOK, InboxForward
  <1>o. Distinct(outbox) /\ \A i \in DOMAIN outbox : outbox[i].update # u
    BY <1>p, NoRowYet DEF EffectsOnce, Distinct, SameKey
  <1>a. /\ CommandRows(u) \in Seq(OutboxRow) /\ Distinct(CommandRows(u))
        /\ About(CommandRows(u), u, {"reply", "trace"})
        /\ \A i \in DOMAIN CommandRows(u) : CommandRows(u)[i].kind = "DIRECT"
    <2> DEFINE p == Row(u, "DIRECT", 0, "reply", {})
               q == Row(u, "DIRECT", 0, "trace", {})
    <2>1. p \in OutboxRow /\ q \in OutboxRow
      BY NoRows, PlainRow DEF Kind, Text
    <2>2. p.update = u /\ p.kind = "DIRECT" /\ p.text = "reply"
          /\ q.update = u /\ q.kind = "DIRECT" /\ q.text = "trace"
      BY DEF Row
    <2>3. PICK r \in {<<q>>, <<>>} : CommandRows(u) = <<p>> \o r
      BY Zenon DEF CommandRows
    <2> HIDE DEF p, q
    <2>4. /\ <<p>> \in Seq(OutboxRow) /\ Distinct(<<p>>) /\ About(<<p>>, u, {"reply"})
          /\ \A i \in DOMAIN <<p>> : <<p>>[i].kind = "DIRECT"
      BY <2>1, <2>2 DEF Distinct, About
    <2>5. /\ r \in Seq(OutboxRow) /\ Distinct(r) /\ About(r, u, {"trace"})
          /\ \A i \in DOMAIN r : r[i].kind = "DIRECT"
      <3>1. CASE r = <<q>>
        BY <2>1, <2>2, <3>1 DEF Distinct, About
      <3>2. CASE r = <<>>
        BY <3>2, NoRows DEF Distinct, About
      <3> QED
        BY <3>1, <3>2
    <2>6. Apart(<<p>>, r)
      BY <2>4, <2>5, TextsApart
    <2>7. /\ <<p>> \o r \in Seq(OutboxRow) /\ Distinct(<<p>> \o r)
          /\ About(<<p>> \o r, u, {"reply", "trace"})
          /\ \A i \in DOMAIN (<<p>> \o r) : (<<p>> \o r)[i].kind = "DIRECT"
      <3> DEFINE s == <<p>>
      <3> HIDE DEF s
      <3>1. /\ s \in Seq(OutboxRow) /\ Distinct(s) /\ About(s, u, {"reply"}) /\ Apart(s, r)
            /\ \A i \in DOMAIN s : s[i].kind = "DIRECT"
        BY <2>4, <2>6 DEF s
      <3>2. s \o r \in Seq(OutboxRow) /\ Distinct(s \o r)
        BY <2>5, <3>1, Appended, DistinctAppend
      <3>3. \A k \in DOMAIN (s \o r) : \/ k \in DOMAIN s /\ (s \o r)[k] = s[k]
                                       \/ \E i \in DOMAIN r : (s \o r)[k] = r[i]
        BY <2>5, <3>1, Appended
      <3>4. About(s \o r, u, {"reply", "trace"})
            /\ \A i \in DOMAIN (s \o r) : (s \o r)[i].kind = "DIRECT"
        BY <2>5, <3>1, <3>3 DEF About
      <3> QED
        BY <3>2, <3>4 DEF s
    <2> QED
      BY <2>3, <2>7
  <1>b. ASSUME NEW s \in Seq(OutboxRow), Distinct(s), outbox' = s \o CommandRows(u),
               \A i \in DOMAIN s : \/ i \in DOMAIN outbox /\ SameKey(s[i], outbox[i])
                                   \/ s[i].update = u /\ s[i].kind = "DELETE",
               \A y \in Update : IsOpen(y)' => IsOpen(y)
        PROVE  RowsKeyed' /\ EffectsOnce'
    <2>1. Apart(s, CommandRows(u))
      BY <1>a, <1>b, <1>o DEF Apart, About, SameKey
    <2>2. Distinct(outbox')
      BY <1>a, <1>b, <2>1, DistinctAppend
    <2>3. \A k \in DOMAIN outbox' :
             \/ k \in DOMAIN outbox /\ SameKey(outbox'[k], outbox[k])
             \/ outbox'[k].update = u /\ outbox'[k].kind \in {"DELETE", "DIRECT"}
      BY <1>a, <1>b, Appended DEF About
    <2>4. RowsKeyed'
      BY <1>b, <1>t, <1>v, <2>3, RowsKeyedKept
    <2> QED
      BY <2>2, <2>4 DEF EffectsOnce, Distinct, SameKey
  <1>1. CASE ResetConversation(u)
    <2> DEFINE c == ChatOf[u]
               mine == {x \in Update : ChatOf[x] = c}
               ids == EligibleDeletions(ledger, c) \cup {PromptOf(x) : x \in prompt \cap mine}
               kept == [i \in DOMAIN outbox |->
                          IF i \in ChatRows(c) /\ outbox[i].status \in Live
                          THEN [outbox[i] EXCEPT !.status = "DELETED"] ELSE outbox[i]]
               gone == DeleteRows(u, ids)
    <2>1. outbox' = (kept \o gone) \o CommandRows(u)
      BY <1>1, Zenon DEF ResetConversation
    <2>2. \A y \in Update : IsOpen(y)' => IsOpen(y)
      BY <1>1 DEF ResetConversation, IsOpen, OpenStatus
    <2>3. kept \in Seq(OutboxRow)
      <3>1. \A i \in 1..Len(outbox) : outbox[i] \in OutboxRow
                /\ [outbox[i] EXCEPT !.status = "DELETED"] \in OutboxRow
        BY <1>t, DeletedRow
      <3> QED
        BY <1>t, <3>1
    <2>4. DOMAIN kept = DOMAIN outbox /\ \A i \in DOMAIN outbox : SameKey(kept[i], outbox[i])
      <3>1. \A i \in DOMAIN outbox : SameKey([outbox[i] EXCEPT !.status = "DELETED"], outbox[i])
                                     /\ SameKey(outbox[i], outbox[i])
        <4>1. \A row \in OutboxRow : SameKey([row EXCEPT !.status = "DELETED"], row)
                                     /\ SameKey(row, row)
          BY DEF SameKey, OutboxRow
        <4> QED
          BY <1>t, <4>1
      <3> QED
        BY <3>1
    <2>5. /\ gone \in Seq(OutboxRow) /\ Distinct(gone)
          /\ \A i \in DOMAIN gone : gone[i].update = u /\ gone[i].kind = "DELETE"
      <3>1. ids \in SUBSET Message
        BY Ids DEF EligibleDeletions, TypeOK, StoreTypeOK
      <3>2. gone \in Seq(OutboxRow)
        BY <3>1, DeletionRows
      <3> DEFINE p == Row(u, "DELETE", 0, "", ids)
      <3>3. p.update = u /\ p.kind = "DELETE"
        BY DEF Row
      <3>4. gone = <<>> \/ gone = <<p>>
        BY DEF DeleteRows
      <3> HIDE DEF p, gone
      <3>5. Distinct(gone) /\ \A i \in DOMAIN gone : gone[i] = p
        BY <3>4 DEF Distinct
      <3> QED
        BY <3>2, <3>3, <3>5
    <2> HIDE DEF kept, gone
    <2>6. Distinct(kept) /\ Apart(kept, gone)
      BY <1>o, <2>4, <2>5, DistinctKept DEF Apart, SameKey
    <2>7. kept \o gone \in Seq(OutboxRow) /\ Distinct(kept \o gone)
      BY <2>3, <2>5, <2>6, Appended, DistinctAppend
    <2>8. \A i \in DOMAIN (kept \o gone) :
             \/ i \in DOMAIN outbox /\ SameKey((kept \o gone)[i], outbox[i])
             \/ (kept \o gone)[i].update = u /\ (kept \o gone)[i].kind = "DELETE"
      BY <2>3, <2>4, <2>5, Appended
    <2> QED
      BY <1>b, <2>1, <2>2, <2>7, <2>8
  <1>2. CASE ~ResetConversation(u)
    <2>1. outbox' = outbox \o CommandRows(u)
      BY <1>2 DEF Command, Unblock, SetDryRun, OtherCommand
    <2>2. \A y \in Update : IsOpen(y)' => IsOpen(y)
      BY <1>2 DEF Command, Unblock, SetDryRun, OtherCommand, lifecycle, CloseChallenges,
                  IsOpen, OpenStatus
    <2>3. \A i \in DOMAIN outbox : SameKey(outbox[i], outbox[i])
      BY DEF SameKey
    <2> QED
      BY <1>b, <1>o, <1>t, <2>1, <2>2, <2>3
  <1> QED
    BY <1>1, <1>2

\* The retention tick tells of the expiry of a challenge once: it closes it.
LEMMA ExpiryEffects ==
    ASSUME EffectsInv, NEW blocks, ExpireDueState(blocks)
    PROVE  RowsKeyed' /\ EffectsOnce'
  <1> USE DEF EffectsInv, InboxInv
  <1>t. outbox \in Seq(OutboxRow)
    BY DEF TypeOK, StoreTypeOK
  <1>1. PICK n \in 0..MaxUpdate : \E order \in [1..n -> Due \cap prompt] :
           /\ Ordered(n, order)
           /\ outbox' = outbox \o [i \in 1..n |-> EditRow(order[i], order[i], "expired")]
    BY DEF ExpireDueState
  <1>2. PICK order \in [1..n -> Due \cap prompt] :
           /\ Ordered(n, order)
           /\ outbox' = outbox \o [i \in 1..n |-> EditRow(order[i], order[i], "expired")]
    BY <1>1
  <1> DEFINE t == [i \in 1..n |-> EditRow(order[i], order[i], "expired")]
  <1>n. n \in Nat /\ DOMAIN t = 1..n
    BY UpdateAssumption
  <1>3. \A i \in 1..n : /\ t[i].update = order[i] /\ t[i].kind = "EDIT_CHALLENGE"
                        /\ t[i].text = "expired"
    BY DEF EditRow, Row
  <1>4. \A i \in 1..n : order[i] \in Due /\ order[i] \in Update /\ IsOpen(order[i])
    BY DEF Due
  <1>5. t \in Seq(OutboxRow)
    <2>1. \A x \in Update : x \in 0..MaxUpdate => EditRow(x, x, "expired") \in OutboxRow
      BY EditRows DEF Text
    <2>2. \A i \in 1..n : order[i] \in 0..MaxUpdate
      BY <1>4, UpdateAssumption DEF Update
    <2> QED
      BY <1>n, <1>4, <2>1, <2>2
  <1>6. outbox' = outbox \o t
    BY <1>2
  <1> HIDE DEF t
  <1>7. Distinct(t)
    <2> SUFFICES ASSUME NEW i \in 1..n, NEW j \in 1..n, i # j, order[i] = order[j] PROVE FALSE
      BY <1>n, <1>3 DEF Distinct, SameKey
    <2>1. order[i] \in Nat /\ order[j] \in Nat
      BY <1>4, UpdateAssumption DEF Update
    <2>2. i \in Nat /\ j \in Nat
      BY <1>n
    <2> QED
      BY <1>2, <2>1, <2>2 DEF Ordered
  <1>8. \A i \in 1..n : facts[order[i]].action = "START" /\ processed[order[i]] = "APPLIED"
    BY <1>4 DEF ChallengesBorn, IsOpen, OpenStatus
  <1>9. Distinct(outbox) /\ Apart(outbox, t)
    BY <1>n, <1>3, <1>4, <1>8 DEF EffectsOnce, Distinct, SameKey, Apart, RowsKeyed
  <1>10. Distinct(outbox')
    BY <1>t, <1>5, <1>6, <1>7, <1>9, DistinctAppend
  <1>11. /\ processed' = processed /\ facts' = facts
         /\ \A y \in Update : challenge'[y] = IF y \in Due THEN "CLOSED" ELSE challenge[y]
    BY DEF ExpireDueState, inbox, CloseChallenges, Due
  <1>12. \A k \in DOMAIN outbox' :
            \/ k \in DOMAIN outbox /\ SameKey(outbox'[k], outbox[k])
            \/ /\ processed'[outbox'[k].update] = "APPLIED"
               /\ challenge'[outbox'[k].update] \notin OpenStatus
    <2>1. \A k \in DOMAIN outbox' :
            \/ k \in DOMAIN outbox /\ outbox'[k] = outbox[k]
            \/ \E i \in 1..n : outbox'[k] = t[i]
      BY <1>t, <1>n, <1>5, <1>6, Appended
    <2> QED
      BY <1>3, <1>4, <1>8, <1>11, <2>1 DEF SameKey, OpenStatus
  <1>13. InboxForward /\ \A y \in Update : processed[y] = "APPLIED" /\ IsOpen(y)' => IsOpen(y)
    BY <1>11 DEF InboxForward, IsOpen, OpenStatus
  <1>14. RowsKeyed'
    BY <1>t, <1>12, <1>13, RowsKeyedKept
  <1> QED
    BY <1>10, <1>14 DEF EffectsOnce, Distinct, SameKey

\* A step that leaves the outbox alone adds no effect.
LEMMA NoEffects ==
    ASSUME EffectsInv, UNCHANGED outbox, InboxForward,
           \A y \in Update : processed[y] = "APPLIED" /\ IsOpen(y)' => IsOpen(y)
    PROVE  RowsKeyed' /\ EffectsOnce'
  <1>t. outbox \in Seq(OutboxRow)
    BY DEF EffectsInv, InboxInv, TypeOK, StoreTypeOK
  <1>1. RowsKeyed'
    BY <1>t, RowsKeyedKept DEF EffectsInv, SameKey
  <1> QED
    BY <1>1 DEF EffectsInv, EffectsOnce

\* Every step, every fault included, keeps the effects of an update single.
LEMMA EffectsStep == EffectsInv /\ [Next]_vars => EffectsInv'
  <1> SUFFICES ASSUME EffectsInv, [Next]_vars PROVE RowsKeyed' /\ EffectsOnce'
    BY InboxStep DEF EffectsInv
  <1> USE DEF EffectsInv, InboxInv
  <1>p. processed \in [Update -> {"NONE", "RECORDED", "APPLIED"}] /\ facts \in [Update -> Facts]
        /\ (task.pc # "IDLE" => task.update \in Update)
    BY DEF TypeOK, StoreTypeOK
  <1>1. ASSUME NEW u \in Update,
               Duplicate(u) \/ Redeliver(u) \/ Lapse(u) \/ PurgeHistory(u)
                  \/ \E e \in Events(u) : Prepare(u, e)
        PROVE  RowsKeyed' /\ EffectsOnce'
    <2>1. UNCHANGED <<challenge, processed, facts, outbox>>
      BY <1>1 DEF Duplicate, Redeliver, Lapse, PurgeHistory, Prepare, vars, storeVars,
                  lifecycle, inbox
    <2> QED
      BY <2>1, NoEffects DEF InboxForward, IsOpen
  <1>2. ASSUME NEW u \in Update, Command(u) PROVE RowsKeyed' /\ EffectsOnce'
    BY <1>2, CommandEffects
  <1>3. ASSUME NEW u \in Update,
               RecordTrigger(u) \/ \E on \in BOOLEAN, rs \in RightSets : ReconcileTrigger(u, on, rs)
        PROVE  RowsKeyed' /\ EffectsOnce'
    <2>1. UNCHANGED <<challenge, outbox>> /\ InboxForward
      BY <1>3, <1>p DEF RecordTrigger, ReconcileTrigger, RecordedTriggers, Arrives, lifecycle,
                        InboxForward
    <2> QED
      BY <2>1, NoEffects DEF IsOpen
  <1>4. ASSUME NEW u \in Update, TriggerNotFound(u) PROVE RowsKeyed' /\ EffectsOnce'
    <2>1. UNCHANGED outbox /\ InboxForward /\ \A y \in Update : challenge'[y] = "NONE"
      BY <1>4, <1>p DEF TriggerNotFound, RecordedTriggers, ForgetConnection, InboxForward
    <2> QED
      BY <2>1, NoEffects DEF IsOpen, OpenStatus
  <1>5. ASSUME NEW blocks, ExpireDueState(blocks) PROVE RowsKeyed' /\ EffectsOnce'
    BY <1>5, ExpiryEffects
  <1>6. CASE Record
    <2>1. UNCHANGED <<challenge, outbox>> /\ InboxForward
      BY <1>6, <1>p DEF Record, InHand, lifecycle, InboxForward
    <2> QED
      BY <2>1, NoEffects DEF IsOpen
  <1>7. CASE Apply \/ Recover
    BY <1>7, <1>p, ApplyEffects DEF Apply, Recover
  <1>8. CASE StartupNotFound
    <2>1. UNCHANGED outbox /\ InboxForward /\ \A y \in Update : challenge'[y] = "NONE"
      BY <1>8 DEF StartupNotFound, ForgetConnection, InboxForward, inbox
    <2> QED
      BY <2>1, NoEffects DEF IsOpen, OpenStatus
  <1>9. CASE ApplyRefused \/ StorageFault \/ StartupUnanswered \/ PublishReady \/ Restart
             \/ StartupFails \/ Serve \/ Crash \/ UNCHANGED vars
             \/ \E on \in BOOLEAN, rs \in RightSets : ReconcileStartup(on, rs)
    <2>1. UNCHANGED <<challenge, processed, facts, outbox>>
      BY <1>9 DEF ApplyRefused, StorageFault, StartupUnanswered, PublishReady, Restart,
                  StartupFails, Serve, Crash, ReconcileStartup, vars, storeVars, lifecycle, inbox
    <2> QED
      BY <2>1, NoEffects DEF InboxForward, IsOpen
  <1> QED
    BY <1>1, <1>2, <1>3, <1>4, <1>5, <1>6, <1>7, <1>8, <1>9 DEF Next, ProcStep

\* The effects of an update reach the outbox once, under every fault: the
\* idempotency keys of enqueue never collide, though updates are redelivered,
\* replayed after a crash and applied late.
THEOREM EffectsAlwaysOnce == Spec => []EffectsOnce
  <1>1. Init => EffectsInv
    BY InboxInit DEF Init, StoreInit, EffectsInv, RowsKeyed, EffectsOnce
  <1>2. EffectsInv => EffectsOnce
    BY DEF EffectsInv
  <1> QED
    BY <1>1, <1>2, EffectsStep, PTL DEF Spec
=============================================================================
