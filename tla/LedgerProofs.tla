---------------------------- MODULE LedgerProofs ----------------------------
(***************************************************************************)
(* The message ledger and the Owner's replies, without storage faults.     *)
(* ACTIVE and "the ledger holds an undeleted reply" are two records of one *)
(* fact, written by different handlers; the automatic cleanup of a blocked *)
(* chat deletes what the ledger lists, whoever sent it.  That it spares    *)
(* the Owner rests on the two records agreeing: a chat that is cleaned up  *)
(* is not ACTIVE, so no reply of the Owner is listed.                      *)
(***************************************************************************)
EXTENDS LifecycleProofs, InboxProofs

-----------------------------------------------------------------------------
(***************************************************************************)
(* The inductive invariants.                                               *)
(***************************************************************************)
\* A message enters the ledger with the update that carries it.
LedgerBorn == \A m \in Update : processed[m] # "APPLIED" => ledger[m] = "NONE"

\* An undeleted reply of the Owner makes its chat ACTIVE.
ReplyMeansActive ==
    \A m \in Message : ledger[m] = "OWNER" => conversation[MessageChat(m)] = "ACTIVE"

\* And an ACTIVE chat has one.
ActiveMeansReply ==
    \A c \in Chat : conversation[c] = "ACTIVE" =>
        \E m \in Message : MessageChat(m) = c /\ ledger[m] = "OWNER"

\* What is listed under another sender was not written by the Owner.
SendersKnown == \A m \in Update : ledger[m] \in {"INBOUND", "BOT"} => ~OwnerWrote(m)

\* What a queued cleanup names was on the ledger, and not written by the Owner.
CleanupKnown ==
    \A i \in DOMAIN outbox :
        outbox[i].kind = "DELETE" /\ facts[outbox[i].update].action # "COMMAND"
            => \A m \in outbox[i].messages \cap Update : processed[m] = "APPLIED" /\ ~OwnerWrote(m)

\* The messages of an event are its own, or known, or prompts; the chat it
\* found blocked is blocked still.
Knows(f, u) ==
    /\ \A m \in f.messages : /\ MessageChat(m) = ChatOf[u]
                             /\ m \in Update /\ m # u => ledger[m] # "NONE"
    /\ f.action = "BLOCKED_INBOUND" => StateOf(ChatOf[u]) \in SoftBlocked

\* What the Owner wrote or edited is new, or still on the ledger.
ReplyKnown(f, u) ==
    f.action = "MANUAL_OWNER" => \E m \in f.messages : m = u \/ ledger[m] = "OWNER"

MessagesKnown ==
    /\ \A u \in Recoverable : trust # "NONE" \/ phase = "SERVING" => Knows(facts[u], u)
    /\ task.pc = "PREPARED" => Knows(task.facts, task.update)
RepliesKnown ==
    /\ \A u \in Recoverable : trust # "NONE" \/ phase = "SERVING" => ReplyKnown(facts[u], u)
    /\ task.pc = "PREPARED" => ReplyKnown(task.facts, task.update)

LedgerRows == LedgerBorn /\ ReplyMeansActive /\ SendersKnown
LedgerInv == LifecycleInv /\ EffectsInv /\ LedgerRows /\ CleanupKnown /\ MessagesKnown
ReplyInv == LedgerInv /\ ActiveMeansReply /\ RepliesKnown

-----------------------------------------------------------------------------
(***************************************************************************)
(* Messages and rows.                                                      *)
(***************************************************************************)
\* Every message belongs to a chat; an update's message to the update's chat.
LEMMA MessageChats ==
    /\ \A m \in Message : MessageChat(m) \in Chat
    /\ \A u \in Update : MessageChat(u) = ChatOf[u]
    /\ \A x \in Update : MessageChat(PromptOf(x)) = ChatOf[x] /\ PromptOf(x) \notin Update
  <1>1. ASSUME NEW m \in Message PROVE MessageChat(m) \in Chat
    <2>1. CASE m <= MaxUpdate
      BY <2>1, ChatAssumption, UpdateAssumption DEF Message, MessageChat
    <2>2. CASE ~(m <= MaxUpdate)
      <3>1. m - MaxUpdate \in 1..MaxUpdate
        BY <2>2, UpdateAssumption DEF Message
      <3> QED
        BY <2>2, <3>1, ChatAssumption DEF MessageChat
    <2> QED
      BY <2>1, <2>2
  <1>2. \A u \in Update : MessageChat(u) = ChatOf[u]
    BY UpdateAssumption DEF Update, MessageChat
  <1>3. ASSUME NEW x \in Update
        PROVE  MessageChat(PromptOf(x)) = ChatOf[x] /\ PromptOf(x) \notin Update
    <2>1. x \in Nat /\ x >= 1 /\ MaxUpdate \in Nat
      BY UpdateAssumption DEF Update
    <2>2. ~(MaxUpdate + x <= MaxUpdate) /\ (MaxUpdate + x) - MaxUpdate = x
      BY <2>1
    <2> QED
      BY <2>1, <2>2 DEF MessageChat, PromptOf, Update
  <1> QED
    BY <1>1, <1>2, <1>3

\* What Telegram delivers is about messages of the chat: the update's own, or
\* messages the ledger lists, or prompts.
LEMMA EventMessages ==
    ASSUME StoreTypeOK, NEW u \in Update, NEW e \in Events(u)
    PROVE  /\ \A m \in e.messages : /\ MessageChat(m) = ChatOf[u]
                                    /\ m \in Update /\ m # u => ledger[m] # "NONE"
           /\ e.kind = "OWNER" /\ "late_edit" \notin Fault
                 => \E m \in e.messages : m = u \/ ledger[m] = "OWNER"
  <1> DEFINE c == ChatOf[u]
             one(ms) == {{m} : m \in ms}
             Ours(ms) == \A m \in ms : MessageChat(m) = c /\ (m \in Update /\ m # u => ledger[m] # "NONE")
  <1>1. Ours({u}) /\ Ours(Seen(c, "INBOUND")) /\ Ours(Seen(c, "OWNER")) /\ Ours(LateEdits(c))
        /\ Ours({PromptOf(x) : x \in {y \in prompt : ChatOf[y] = c}})
        /\ Ours(EligibleDeletions(ledger, c))
    BY MessageChats DEF Seen, LateEdits, EligibleDeletions, Sender, StoreTypeOK
  <1>2. \/ e \in RawEvent("INBOUND", {{u}}, Verdict, Answer)
        \/ e \in RawEvent("EDITED", one({u} \cup Seen(c, "INBOUND")), Verdict, {"NONE"})
        \/ e \in RawEvent("OWNER", one({u} \cup Seen(c, "OWNER") \cup LateEdits(c)),
                          {"ALLOW"}, {"NONE"})
        \/ e \in RawEvent("BOT", one({u} \cup {PromptOf(x) : x \in {y \in prompt : ChatOf[y] = c}}),
                          {"ALLOW"}, {"NONE"})
        \/ e \in RawEvent("DELETED", SUBSET EligibleDeletions(ledger, c), {"ALLOW"}, {"NONE"})
    BY Zenon DEF Events
  <1>3. \A k, ms, v, a : e \in RawEvent(k, ms, v, a) => e.kind = k /\ e.messages \in ms
    BY DEF RawEvent
  <1>4. \A ms : Ours(ms) => \A x \in one(ms) : Ours(x)
    OBVIOUS
  <1>o. "late_edit" \notin Fault =>
           \A x \in one({u} \cup Seen(c, "OWNER") \cup LateEdits(c)) :
               \E m \in x : m = u \/ ledger[m] = "OWNER"
    BY DEF Seen, LateEdits
  <1>5. /\ Ours({u} \cup Seen(c, "INBOUND"))
        /\ Ours({u} \cup Seen(c, "OWNER") \cup LateEdits(c))
        /\ Ours({u} \cup {PromptOf(x) : x \in {y \in prompt : ChatOf[y] = c}})
        /\ \A x \in SUBSET EligibleDeletions(ledger, c) : Ours(x)
    BY <1>1
  <1> HIDE DEF one, Ours, c
  <1>6. /\ Ours(e.messages)
        /\ e.kind = "OWNER" => e.messages \in one({u} \cup Seen(c, "OWNER") \cup LateEdits(c))
    <2>1. CASE e \in RawEvent("INBOUND", {{u}}, Verdict, Answer)
      <3>1. e.kind = "INBOUND" /\ e.messages \in {{u}}
        BY <1>3, <2>1, Zenon
      <3> QED
        BY <3>1, <1>1
    <2>2. CASE e \in RawEvent("EDITED", one({u} \cup Seen(c, "INBOUND")), Verdict, {"NONE"})
      <3>1. e.kind = "EDITED" /\ e.messages \in one({u} \cup Seen(c, "INBOUND"))
        BY <1>3, <2>2, Zenon
      <3>2. Ours(e.messages)
        BY <3>1, <1>4, <1>5, Zenon
      <3> QED
        BY <3>1, <3>2
    <2>3. CASE e \in RawEvent("OWNER", one({u} \cup Seen(c, "OWNER") \cup LateEdits(c)),
                              {"ALLOW"}, {"NONE"})
      <3>1. e.kind = "OWNER" /\ e.messages \in one({u} \cup Seen(c, "OWNER") \cup LateEdits(c))
        BY <1>3, <2>3, Zenon
      <3> QED
        BY <3>1, <1>4, <1>5, Zenon
    <2>4. CASE e \in RawEvent("BOT", one({u} \cup {PromptOf(x) : x \in {y \in prompt : ChatOf[y] = c}}),
                              {"ALLOW"}, {"NONE"})
      <3>1. e.kind = "BOT"
            /\ e.messages \in one({u} \cup {PromptOf(x) : x \in {y \in prompt : ChatOf[y] = c}})
        BY <1>3, <2>4, Zenon
      <3>2. Ours(e.messages)
        BY <3>1, <1>4, <1>5, Zenon
      <3> QED
        BY <3>1, <3>2
    <2>5. CASE e \in RawEvent("DELETED", SUBSET EligibleDeletions(ledger, c), {"ALLOW"}, {"NONE"})
      <3>1. e.kind = "DELETED" /\ e.messages \in SUBSET EligibleDeletions(ledger, c)
        BY <1>3, <2>5, Zenon
      <3>2. Ours(e.messages)
        BY <3>1, <1>5, Zenon
      <3> QED
        BY <3>1, <3>2
    <2> QED
      BY <1>2, <2>1, <2>2, <2>3, <2>4, <2>5
  <1> QED
    BY <1>6, <1>o DEF Ours, c

\* What is prepared knows its messages.
LEMMA PrepareKnows ==
    ASSUME TypeOK, NEW u \in Update, NEW e \in Events(u)
    PROVE  /\ Knows(PreparedEvent(u, e), u)
           /\ "late_edit" \notin Fault => ReplyKnown(PreparedEvent(u, e), u)
  <1> DEFINE c == ChatOf[u]
             f == PreparedEvent(u, e)
  <1>1. f.action = PrepareAction(c, e) /\ f.messages = e.messages
    BY DEF PreparedEvent
  <1>2. e.kind \in {"INBOUND", "EDITED", "OWNER", "BOT", "DELETED"}
    BY EventType DEF TypeOK
  <1>3. SafeOutcome(c, e) \notin {"BLOCKED_INBOUND", "MANUAL_OWNER"}
    BY Zenon DEF SafeOutcome
  <1>4. f.action = "BLOCKED_INBOUND" => StateOf(c) \in SoftBlocked
    BY <1>1, <1>2, <1>3, Zenon DEF PrepareAction, PrepareInbound
  <1>5. f.action = "MANUAL_OWNER" => e.kind = "OWNER"
    BY <1>1, <1>2, <1>3, Zenon DEF PrepareAction, PrepareInbound
  <1> HIDE DEF f
  <1>6. /\ \A m \in e.messages : /\ MessageChat(m) = ChatOf[u]
                                 /\ m \in Update /\ m # u => ledger[m] # "NONE"
        /\ e.kind = "OWNER" /\ "late_edit" \notin Fault
              => \E m \in e.messages : m = u \/ ledger[m] = "OWNER"
    BY EventMessages DEF TypeOK
  <1> QED
    BY <1>1, <1>4, <1>5, <1>6 DEF Knows, ReplyKnown, f

-----------------------------------------------------------------------------
(***************************************************************************)
(* What a handler writes to the ledger.                                    *)
(***************************************************************************)
\* record_message: a message that is recorded for the first time is the
\* update's own or a prompt, and a reply makes the chat ACTIVE.
LEMMA RecordKeepsLedger ==
    ASSUME TypeOK, LedgerRows, NEW u \in Update, processed[u] = "RECORDED",
           processed' = [processed EXCEPT ![u] = "APPLIED"], facts' = facts,
           NEW c \in Chat, c = ChatOf[u], NEW sender \in Sender, NEW ms,
           \A m \in ms : MessageChat(m) = c /\ (m \in Update /\ m # u => ledger[m] # "NONE"),
           ledger' = RecordMessages(sender, ms),
           \A d \in Chat : d # c => conversation'[d] = conversation[d],
           conversation[c] = "ACTIVE" \/ sender = "OWNER" => conversation'[c] = "ACTIVE",
           facts[u].action = "MANUAL_OWNER" => sender = "OWNER"
    PROVE  /\ LedgerRows'
           /\ /\ ActiveMeansReply
              /\ conversation'[c] = "ACTIVE" =>
                    \/ conversation[c] = "ACTIVE"
                    \/ sender = "OWNER" /\ \E m \in ms : m = u \/ ledger[m] = "OWNER"
              /\ ms \subseteq Message
              => ActiveMeansReply'
  <1>t. /\ \A m \in Message : ledger'[m] = IF m \in ms /\ ledger[m] = "NONE" THEN sender ELSE ledger[m]
        /\ \A v \in Update : processed'[v] = IF v = u THEN "APPLIED" ELSE processed[v]
        /\ Update \subseteq Message
    BY Ids DEF RecordMessages, TypeOK, StoreTypeOK
  <1>u. ledger[u] = "NONE"
    BY DEF LedgerRows, LedgerBorn
  <1>m. \A m \in Message : MessageChat(m) \in Chat
    BY MessageChats
  <1>1. LedgerBorn'
    BY <1>t DEF LedgerRows, LedgerBorn
  <1>2. ReplyMeansActive'
    <2> SUFFICES ASSUME NEW m \in Message, ledger'[m] = "OWNER"
                 PROVE  conversation'[MessageChat(m)] = "ACTIVE"
      BY DEF ReplyMeansActive
    <2>1. CASE ledger[m] = "OWNER"
      BY <2>1, <1>m DEF LedgerRows, ReplyMeansActive
    <2>2. CASE ledger[m] # "OWNER"
      BY <2>2, <1>t
    <2> QED
      BY <2>1, <2>2
  <1>3. SendersKnown'
    <2> SUFFICES ASSUME NEW m \in Update, ledger'[m] \in {"INBOUND", "BOT"}, OwnerWrote(m)
                 PROVE  FALSE
      BY DEF SendersKnown, OwnerWrote
    <2>1. ledger[m] \notin {"INBOUND", "BOT"}
      BY DEF LedgerRows, SendersKnown
    <2>2. m = u /\ sender # "OWNER"
      BY <2>1, <1>t
    <2> QED
      BY <2>2 DEF OwnerWrote
  <1>4. ASSUME ActiveMeansReply, ms \subseteq Message,
               conversation'[c] = "ACTIVE" =>
                    \/ conversation[c] = "ACTIVE"
                    \/ sender = "OWNER" /\ \E m \in ms : m = u \/ ledger[m] = "OWNER"
        PROVE  ActiveMeansReply'
    <2> SUFFICES ASSUME NEW d \in Chat, conversation'[d] = "ACTIVE"
                 PROVE  \E m \in Message : MessageChat(m) = d /\ ledger'[m] = "OWNER"
      BY DEF ActiveMeansReply
    <2>1. CASE conversation[d] = "ACTIVE"
      BY <2>1, <1>4, <1>t DEF ActiveMeansReply
    <2>2. CASE conversation[d] # "ACTIVE"
      <3>1. d = c
        BY <2>2
      <3>2. PICK m \in ms : m = u \/ ledger[m] = "OWNER"
        BY <1>4, <2>2, <3>1
      <3>3. sender = "OWNER"
        BY <1>4, <2>2, <3>1
      <3> QED
        BY <1>4, <1>t, <1>u, <3>1, <3>2, <3>3
    <2> QED
      BY <2>1, <2>2
  <1> QED
    BY <1>1, <1>2, <1>3, <1>4 DEF LedgerRows

\* mark_message_deleted: a chat stays ACTIVE exactly while a reply is left.
LEMMA DeletionKeepsLedger ==
    ASSUME TypeOK, LedgerRows, NEW u \in Update, processed[u] = "RECORDED",
           processed' = [processed EXCEPT ![u] = "APPLIED"], facts' = facts,
           NEW c \in Chat, c = ChatOf[u], NEW ms,
           \A m \in ms : MessageChat(m) = c,
           ledger' = MarkDeleted(ms),
           \A d \in Chat : d # c => conversation'[d] = conversation[d],
           conversation[c] = "ACTIVE" /\ OwnerReplies(ledger', c) # {} => conversation'[c] = "ACTIVE",
           conversation'[c] = "ACTIVE" => OwnerReplies(ledger', c) # {}
    PROVE  LedgerRows' /\ (ActiveMeansReply => ActiveMeansReply')
  <1>t. /\ \A m \in Message : ledger'[m] = IF m \in ms /\ ledger[m] # "NONE" THEN "DELETED" ELSE ledger[m]
        /\ \A v \in Update : processed'[v] = IF v = u THEN "APPLIED" ELSE processed[v]
        /\ Update \subseteq Message
    BY Ids DEF MarkDeleted, TypeOK, StoreTypeOK
  <1>m. \A m \in Message : MessageChat(m) \in Chat
    BY MessageChats
  <1>1. LedgerBorn'
    BY <1>t DEF LedgerRows, LedgerBorn
  <1>2. ReplyMeansActive'
    <2> SUFFICES ASSUME NEW m \in Message, ledger'[m] = "OWNER"
                 PROVE  conversation'[MessageChat(m)] = "ACTIVE"
      BY DEF ReplyMeansActive
    <2>1. ledger[m] = "OWNER" /\ conversation[MessageChat(m)] = "ACTIVE"
      BY <1>t DEF LedgerRows, ReplyMeansActive
    <2>2. CASE MessageChat(m) = c
      <3>1. m \in OwnerReplies(ledger', c)
        BY <2>2 DEF OwnerReplies
      <3> QED
        BY <2>1, <2>2, <3>1
    <2> QED
      BY <1>m, <2>1, <2>2
  <1>3. SendersKnown'
    BY <1>t DEF LedgerRows, SendersKnown, OwnerWrote
  <1>4. ASSUME ActiveMeansReply PROVE ActiveMeansReply'
    <2> SUFFICES ASSUME NEW d \in Chat, conversation'[d] = "ACTIVE"
                 PROVE  \E m \in Message : MessageChat(m) = d /\ ledger'[m] = "OWNER"
      BY DEF ActiveMeansReply
    <2>1. CASE d = c
      BY <2>1 DEF OwnerReplies
    <2>2. CASE d # c
      <3>1. PICK m \in Message : MessageChat(m) = d /\ ledger[m] = "OWNER"
        BY <1>4, <2>2 DEF ActiveMeansReply
      <3> QED
        BY <1>t, <2>2, <3>1
    <2> QED
      BY <2>1, <2>2
  <1> QED
    BY <1>1, <1>2, <1>3, <1>4 DEF LedgerRows

\* apply_recorded_event keeps ledger and conversations in step: only what was
\* prepared for a chat that is not ACTIVE moves it to another state, only the
\* Owner's message makes it ACTIVE, and only a deletion ends that.
LEMMA ApplyLedger ==
    ASSUME TypeOK, ChallengeRows, LedgerRows, NEW u \in Update, ApplyRecorded(u),
           Fresh(facts[u], u),
           facts[u].action \notin {"ACTIVE_INBOUND", "IGNORE"} => Knows(facts[u], u)
    PROVE  /\ LedgerRows'
           /\ ActiveMeansReply /\ ReplyKnown(facts[u], u) => ActiveMeansReply'
  <1> DEFINE c == ChatOf[u]
             f == facts[u]
             ms == f.messages
             Kept == /\ LedgerRows'
                     /\ ActiveMeansReply /\ ReplyKnown(f, u) => ActiveMeansReply'
  <1> SUFFICES Kept
    OBVIOUS
  <1>c. c \in Chat /\ StateOf(c) \in ConversationState
    BY ChatAssumption, StateOfType DEF Update, TypeOK
  <1>t. conversation \in [Chat -> ConversationState \cup {"NONE"}] /\ ms \subseteq Message
    BY DEF TypeOK, StoreTypeOK, Facts
  <1>p. /\ processed[u] = "RECORDED" /\ facts' = facts
        /\ processed' = [processed EXCEPT ![u] = "APPLIED"]
        /\ Applicable(f, u)
    BY DEF ApplyRecorded, MarkApplied
  <1>s. ASSUME NEW s, SetState(c, s)
        PROVE  conversation'[c] = s /\ \A d \in Chat : d # c => conversation'[d] = conversation[d]
    BY <1>s, <1>c, <1>t DEF SetState
  <1>k. StateOf(c) = "ACTIVE" <=> conversation[c] = "ACTIVE"
    BY DEF StateOf
  <1>v. f.action \in Answering => StateOf(c) = "VERIFY_PENDING"
    BY <1>c DEF Fresh, ChallengeRows, ChallengeMatchesState, StateOf
  <1>m. f.action \notin {"ACTIVE_INBOUND", "IGNORE"} =>
           \A m \in ms : MessageChat(m) = c /\ (m \in Update /\ m # u => ledger[m] # "NONE")
    BY DEF Knows
  <1> HIDE DEF f, ms
  <1>r. ASSUME NEW sender \in {"INBOUND", "BOT"}, ledger' = RecordMessages(sender, ms),
               f.action \notin {"ACTIVE_INBOUND", "IGNORE", "MANUAL_OWNER"},
               NEW s, SetState(c, s), s = "ACTIVE" <=> StateOf(c) = "ACTIVE"
        PROVE  Kept
    <2>1. sender \in Sender /\ sender # "OWNER"
      BY <1>r DEF Sender
    <2>2. /\ conversation'[c] = "ACTIVE" <=> conversation[c] = "ACTIVE"
          /\ \A d \in Chat : d # c => conversation'[d] = conversation[d]
      BY <1>r, <1>s, <1>k
    <2>3. \A m \in ms : MessageChat(m) = c /\ (m \in Update /\ m # u => ledger[m] # "NONE")
      BY <1>r, <1>m
    <2>4. facts[u].action # "MANUAL_OWNER"
      BY <1>r DEF f
    <2> QED
      BY <1>r, <1>c, <1>t, <1>p, <2>1, <2>2, <2>3, <2>4, RecordKeepsLedger
  <1> HIDE DEF Kept
  <1>1. CASE ApplyStart(f, u, c)
    <2>1. StateOf(c) = "NEW" /\ Transition["SafeFirstInbound"].to # "ACTIVE"
      BY <1>1, <1>p DEF ApplyStart, Applicable, Permits, Transition, Edge
    <2> QED
      BY <1>1, <1>r, <2>1 DEF ApplyStart, Advance, ms
  <1>2. CASE ApplyRetain(f, u, c) \/ ApplyBlocked(f, u, c)
    BY <1>2, <1>r DEF ApplyRetain, ApplyBlocked, ms
  <1>3. ASSUME NEW action \in {"CORRECT", "EXPIRED"}, NEW event, NEW text,
               Transition[event].to # "ACTIVE", ApplyVerdict(f, u, c, action, event, text)
        PROVE  Kept
    BY <1>3, <1>r, <1>v DEF ApplyVerdict, Advance, Answering, ms
  <1>4. CASE ApplyIncorrect(f, u, c)
    BY <1>4, <1>r DEF ApplyIncorrect, ms
  <1>5. CASE ApplyExhausted(f, u, c)
    <2>1. /\ f.action \in {"EXHAUSTED_BLOCK", "EXHAUSTED_DRY_RUN"}
          /\ SetState(c, "TEMP_SOFT_BLOCKED") \/ SetState(c, "NEW")
          /\ ledger' = RecordMessages("INBOUND", ms)
      BY <1>5, TransitionType DEF ApplyExhausted, Advance, ms
    <2>2. StateOf(c) = "VERIFY_PENDING"
      BY <2>1, <1>v DEF Answering
    <2> QED
      BY <2>1, <2>2, <1>r
  <1>6. CASE ApplySpam(f, u, c)
    <2>1. /\ f.action = "SPAM" /\ SetState(c, "SPAM_SOFT_BLOCKED")
          /\ ledger' = RecordMessages("INBOUND", ms)
      BY <1>6, TransitionType DEF ApplySpam, Advance, ms
    <2>2. StateOf(c) # "ACTIVE"
      BY <2>1, <1>p DEF Applicable, Permits, Transition, Edge
    <2> QED
      BY <2>1, <2>2, <1>r
  <1>7. CASE ApplyManualOwner(f, u, c)
    <2>1. /\ f.action = "MANUAL_OWNER" /\ SetState(c, "ACTIVE")
          /\ ledger' = RecordMessages("OWNER", ms)
      BY <1>7, TransitionType DEF ApplyManualOwner, AfterOwner, ms
    <2>2. /\ conversation'[c] = "ACTIVE"
          /\ \A d \in Chat : d # c => conversation'[d] = conversation[d]
      BY <2>1, <1>s
    <2>3. \A m \in ms : MessageChat(m) = c /\ (m \in Update /\ m # u => ledger[m] # "NONE")
      BY <2>1, <1>m
    <2>4. "OWNER" \in Sender
      BY DEF Sender
    <2>5. ReplyKnown(f, u) => \E m \in ms : m = u \/ ledger[m] = "OWNER"
      BY <2>1 DEF ReplyKnown, ms
    <2> QED
      BY <1>c, <1>t, <1>p, <2>1, <2>2, <2>3, <2>4, <2>5, RecordKeepsLedger DEF Kept
  <1>8. CASE ApplyBotMessage(f, u, c)
    BY <1>8, <1>r DEF ApplyBotMessage, ms
  <1>9. CASE ApplyDeletions(f, u, c)
    <2>1. /\ f.action = "MESSAGES_DELETED" /\ ledger' = MarkDeleted(ms)
          /\ \/ /\ StateOf(c) = "ACTIVE" /\ OwnerReplies(ledger', c) = {}
                /\ SetState(c, "NEW")
             \/ /\ ~(StateOf(c) = "ACTIVE" /\ OwnerReplies(ledger', c) = {})
                /\ SetState(c, StateOf(c))
      BY <1>9, TransitionType DEF ApplyDeletions, Advance, ms
    <2>2. /\ \A d \in Chat : d # c => conversation'[d] = conversation[d]
          /\ conversation[c] = "ACTIVE" /\ OwnerReplies(ledger', c) # {}
                => conversation'[c] = "ACTIVE"
          /\ conversation'[c] = "ACTIVE" => OwnerReplies(ledger', c) # {}
      BY <2>1, <1>s, <1>k
    <2>3. \A m \in ms : MessageChat(m) = c
      BY <2>1, <1>m
    <2> QED
      BY <1>c, <1>p, <2>1, <2>2, <2>3, DeletionKeepsLedger DEF Kept
  <1>10. CASE ApplyInert(f, u)
    <2>1. UNCHANGED <<conversation, ledger>>
          /\ \A v \in Update : processed'[v] # "APPLIED" => processed[v] # "APPLIED"
      BY <1>10, <1>p DEF ApplyInert, TypeOK, StoreTypeOK
    <2> QED
      BY <1>p, <2>1 DEF Kept, LedgerRows, LedgerBorn, ReplyMeansActive, SendersKnown, OwnerWrote,
                        ActiveMeansReply
  <1> QED
    <2>1. ApplyFacts(f, u, c)
      BY DEF ApplyRecorded, f
    <2>2. Transition["VerificationSucceeded"].to # "ACTIVE" /\ Transition["ChallengeExpired"].to # "ACTIVE"
      BY TransitionType
    <2> QED
      BY <2>1, <2>2, <1>1, <1>2, <1>3, <1>4, <1>5, <1>6, <1>7, <1>8, <1>9, <1>10 DEF ApplyFacts

-----------------------------------------------------------------------------
(***************************************************************************)
(* The deletions that are queued.                                          *)
(***************************************************************************)
\* What was known of a queued cleanup stays known; a new one must be known.
LEMMA CleanupKept ==
    ASSUME TypeOK, RowsKeyed, CleanupKnown, InboxForward,
           \A k \in DOMAIN outbox' :
              \/ /\ k \in DOMAIN outbox
                 /\ outbox'[k].update = outbox[k].update
                 /\ outbox'[k].kind = outbox[k].kind
                 /\ outbox'[k].messages = outbox[k].messages
              \/ outbox'[k].kind # "DELETE"
              \/ facts'[outbox'[k].update].action = "COMMAND"
              \/ \A m \in outbox'[k].messages \cap Update :
                    processed'[m] = "APPLIED" /\ ~OwnerWrote(m)'
    PROVE  CleanupKnown'
  <1>1. \A m \in Update : processed[m] = "APPLIED" =>
           processed'[m] = "APPLIED" /\ (OwnerWrote(m)' <=> OwnerWrote(m))
    BY DEF InboxForward, OwnerWrote
  <1>2. \A k \in DOMAIN outbox : /\ outbox[k].update \in Update
                                 /\ facts'[outbox[k].update] = facts[outbox[k].update]
    <2>1. \A k \in DOMAIN outbox : outbox[k] \in OutboxRow
      BY DEF TypeOK, StoreTypeOK
    <2>2. \A k \in DOMAIN outbox : outbox[k].update \in Update
      BY <2>1 DEF OutboxRow
    <2> QED
      BY <2>2 DEF RowsKeyed, InboxForward
  <1> SUFFICES ASSUME NEW k \in DOMAIN outbox', outbox'[k].kind = "DELETE",
                      facts'[outbox'[k].update].action # "COMMAND",
                      NEW m \in outbox'[k].messages \cap Update
               PROVE  processed'[m] = "APPLIED" /\ ~OwnerWrote(m)'
    BY DEF CleanupKnown
  <1> QED
    BY <1>1, <1>2 DEF CleanupKnown

\* Where the rows a handler appends come from.
LEMMA EnqueueFrom ==
    ASSUME NEW f \in Facts, NEW u \in Update, NEW rows \in Seq(OutboxRow),
           outbox \in Seq(OutboxRow), Enqueue(f, u, rows)
    PROVE  \A k \in DOMAIN outbox' :
              \/ k \in DOMAIN outbox /\ outbox'[k] = outbox[k]
              \/ outbox'[k].kind # "DELETE"
              \/ \E j \in DOMAIN rows : outbox'[k] = rows[j]
  <1> DEFINE ev == Evidence(f, u)
             tr == Trace(f, u)
             one == outbox \o ev
             two == one \o rows
             all == two \o tr
  <1>t. ev \in Seq(OutboxRow) /\ tr \in Seq(OutboxRow)
    BY EvidenceRows
  <1>s. /\ \A i \in DOMAIN ev : ev[i].kind # "DELETE"
        /\ \A i \in DOMAIN tr : tr[i].kind # "DELETE"
    BY DEF Evidence, Trace, OwnerRow, Row
  <1>o. outbox' = all
    BY DEF Enqueue
  <1> HIDE DEF ev, tr
  <1>1. one \in Seq(OutboxRow)
        /\ \A k \in DOMAIN one : \/ k \in DOMAIN outbox /\ one[k] = outbox[k]
                                 \/ one[k].kind # "DELETE"
    BY <1>t, <1>s, Appended
  <1> HIDE DEF one
  <1>2. two \in Seq(OutboxRow)
        /\ \A k \in DOMAIN two : \/ k \in DOMAIN one /\ two[k] = one[k]
                                 \/ \E j \in DOMAIN rows : two[k] = rows[j]
    BY <1>1, Appended
  <1> HIDE DEF two
  <1>3. \A k \in DOMAIN all : \/ k \in DOMAIN two /\ all[k] = two[k]
                              \/ all[k].kind # "DELETE"
    BY <1>t, <1>s, <1>2, Appended
  <1> HIDE DEF all
  <1> QED
    BY <1>o, <1>1, <1>2, <1>3

\* The rows of a cleanup that delete name what the ledger lists of the chat.
LEMMA CleanupFrom ==
    ASSUME NEW f \in Facts, NEW u \in Update, NEW book
    PROVE  /\ Cleanup(f, u, book) \in Seq(OutboxRow)
           /\ \A j \in DOMAIN Cleanup(f, u, book) :
                 \/ Cleanup(f, u, book)[j].kind # "DELETE"
                 \/ Cleanup(f, u, book)[j].messages = EligibleDeletions(book, ChatOf[u])
  <1> DEFINE ms == EligibleDeletions(book, ChatOf[u])
             p == Row(u, "READ", 0, "", f.messages)
             r == <<p>>
             q == Row(u, "DELETE", 0, "", ms)
             d == DeleteRows(u, ms)
  <1>1. r \in Seq(OutboxRow) /\ d \in Seq(OutboxRow)
    <2>1. f.messages \in SUBSET Message /\ ms \in SUBSET Message
      BY DEF Facts, EligibleDeletions
    <2> QED
      BY <2>1, NoRows, PlainRow, DeletionRows DEF Kind, Text
  <1>2. p.kind # "DELETE" /\ q.messages = ms
    BY DEF Row
  <1>3. d = <<>> \/ d = <<q>>
    BY DEF DeleteRows
  <1>c. Cleanup(f, u, book) = r \o d
    BY DEF Cleanup
  <1> HIDE DEF p, q, d, ms
  <1>4. (\A j \in DOMAIN r : r[j].kind # "DELETE") /\ \A j \in DOMAIN d : d[j].messages = ms
    BY <1>2, <1>3
  <1> HIDE DEF r
  <1>5. \A j \in DOMAIN (r \o d) : (r \o d)[j].kind # "DELETE" \/ (r \o d)[j].messages = ms
    BY <1>1, <1>4, Appended
  <1> QED
    BY <1>1, <1>5, <1>c, CleanupRows DEF ms

\* Only spam and a message to a blocked chat queue a deletion, of what the
\* ledger lists after the message is recorded.
LEMMA HandlerDeletes ==
    ASSUME TypeOK, NEW u \in Update, ApplyRecorded(u)
    PROVE  \A k \in DOMAIN outbox' :
              \/ k \in DOMAIN outbox /\ outbox'[k] = outbox[k]
              \/ outbox'[k].kind # "DELETE"
              \/ /\ facts[u].action \in {"SPAM", "BLOCKED_INBOUND"}
                 /\ outbox'[k].messages = EligibleDeletions(ledger', ChatOf[u])
  <1> DEFINE c == ChatOf[u]
             f == facts[u]
             x == f.challenge
             Good(rows) == /\ rows \in Seq(OutboxRow)
                           /\ \A j \in DOMAIN rows :
                                 \/ rows[j].kind # "DELETE"
                                 \/ /\ f.action \in {"SPAM", "BLOCKED_INBOUND"}
                                    /\ rows[j].messages = EligibleDeletions(ledger', c)
  <1>f. f \in Facts /\ x \in 0..MaxUpdate /\ outbox \in Seq(OutboxRow)
    BY DEF TypeOK, StoreTypeOK, Facts
  <1>a. ApplyFacts(f, u, c)
    BY DEF ApplyRecorded
  <1> HIDE DEF f
  <1>n. Good(<<>>)
    BY NoRows
  <1>o. ASSUME NEW p \in OutboxRow, p.kind # "DELETE" PROVE Good(<<p>>)
    BY <1>o
  <1>e. \A t \in Text : Good(<<EditRow(u, x, t)>>)
    <2> SUFFICES ASSUME NEW t \in Text PROVE Good(<<EditRow(u, x, t)>>)
      OBVIOUS
    <2> DEFINE p == EditRow(u, x, t)
    <2>1. p \in OutboxRow /\ p.kind # "DELETE"
      BY <1>f, EditRows DEF EditRow, Row
    <2> QED
      BY <2>1, <1>o
  <1>s. Good(<<Row(u, "SEND_CHALLENGE", u, "", {})>>)
    <2> DEFINE p == Row(u, "SEND_CHALLENGE", u, "", {})
    <2>1. u \in 0..MaxUpdate
      BY UpdateAssumption DEF Update
    <2>2. p \in OutboxRow /\ p.kind # "DELETE"
      BY <2>1, PlainRow DEF Kind, Text, Row
    <2> QED
      BY <2>2, <1>o
  <1>x. Good(<<Row(u, "PROPOSED", 0, "verification_exhausted", {}),
               EditRow(u, x, "exhausted_dry_run")>>)
    <2> DEFINE p == Row(u, "PROPOSED", 0, "verification_exhausted", {})
               q == EditRow(u, x, "exhausted_dry_run")
    <2>1. p \in OutboxRow /\ q \in OutboxRow
      BY <1>f, NoRows, PlainRow, EditRows DEF Kind, Text
    <2>2. p.kind # "DELETE" /\ q.kind # "DELETE"
      BY DEF EditRow, Row
    <2> HIDE DEF p, q
    <2>3. Good(<<p, q>>)
      BY <2>1, <2>2
    <2> QED
      BY <2>3 DEF p, q
  <1>k. f.action \in {"SPAM", "BLOCKED_INBOUND"} => Good(Cleanup(f, u, ledger'))
    BY <1>f, CleanupFrom
  <1> HIDE DEF Good
  <1>1. \E rows : Good(rows) /\ Enqueue(f, u, rows)
    <2>1. CASE ApplyStart(f, u, c)
      BY <2>1, <1>s DEF ApplyStart
    <2>2. CASE ApplyRetain(f, u, c) \/ ApplyBotMessage(f, u, c) \/ ApplyManualOwner(f, u, c)
               \/ ApplyDeletions(f, u, c) \/ ApplyInert(f, u)
      BY <2>2, <1>n DEF ApplyRetain, ApplyBotMessage, ApplyManualOwner, ApplyDeletions, ApplyInert
    <2>3. ASSUME NEW action, NEW event, NEW text \in {"success", "expired"},
                 ApplyVerdict(f, u, c, action, event, text)
          PROVE  \E rows : Good(rows) /\ Enqueue(f, u, rows)
      BY <2>3, <1>e DEF ApplyVerdict, Text
    <2>4. CASE ApplyIncorrect(f, u, c)
      BY <2>4, <1>e DEF ApplyIncorrect, Text
    <2>5. CASE ApplyExhausted(f, u, c)
      BY <2>5, <1>e, <1>x DEF ApplyExhausted, Text
    <2>6. CASE ApplySpam(f, u, c) \/ ApplyBlocked(f, u, c)
      BY <2>6, <1>k DEF ApplySpam, ApplyBlocked
    <2> QED
      BY <1>a, <2>1, <2>2, <2>3, <2>4, <2>5, <2>6 DEF ApplyFacts
  <1>2. PICK rows : Good(rows) /\ Enqueue(f, u, rows)
    BY <1>1
  <1>3. \A k \in DOMAIN outbox' :
              \/ k \in DOMAIN outbox /\ outbox'[k] = outbox[k]
              \/ outbox'[k].kind # "DELETE"
              \/ \E j \in DOMAIN rows : outbox'[k] = rows[j]
    BY <1>2, <1>f, EnqueueFrom DEF Good
  <1> QED
    BY <1>2, <1>3 DEF Good, f

\* The cleanup of a blocked chat lists nothing the Owner wrote: the chat is
\* not ACTIVE, so no reply is on the ledger.
LEMMA ApplyCleanup ==
    ASSUME TypeOK, RowsKeyed, CleanupKnown, LedgerRows, LedgerRows',
           NEW u \in Update, ApplyRecorded(u), Knows(facts[u], u)
                                               \/ facts[u].action \in {"ACTIVE_INBOUND", "IGNORE"}
    PROVE  CleanupKnown'
  <1> DEFINE c == ChatOf[u]
  <1>c. c \in Chat
    BY ChatAssumption DEF Update
  <1>p. /\ processed[u] = "RECORDED" /\ facts' = facts
        /\ \A v \in Update : processed'[v] = IF v = u THEN "APPLIED" ELSE processed[v]
        /\ Applicable(facts[u], u)
    BY DEF ApplyRecorded, MarkApplied, TypeOK, StoreTypeOK
  <1>f. InboxForward
    BY <1>p DEF InboxForward
  <1>1. ASSUME facts[u].action \in {"SPAM", "BLOCKED_INBOUND"},
               NEW m \in EligibleDeletions(ledger', c) \cap Update
        PROVE  processed'[m] = "APPLIED" /\ ~OwnerWrote(m)'
    <2>1. StateOf(c) # "ACTIVE"
      <3>1. CASE facts[u].action = "SPAM"
        BY <1>p, <3>1 DEF Applicable, Permits, Transition, Edge
      <3>2. CASE facts[u].action = "BLOCKED_INBOUND"
        BY <3>2 DEF Knows, SoftBlocked
      <3> QED
        BY <1>1, <3>1, <3>2
    <2>2. ledger'[m] \in Sender /\ MessageChat(m) = c /\ m \in Message
      BY DEF EligibleDeletions
    <2>3. processed'[m] = "APPLIED"
      BY <2>2 DEF LedgerRows, LedgerBorn, Sender
    <2>4. ledger' = RecordMessages("INBOUND", facts[u].messages)
      BY <1>1 DEF ApplyRecorded, ApplyFacts, ApplyStart, ApplyRetain, ApplyVerdict, ApplyIncorrect,
                  ApplyExhausted, ApplySpam, ApplyBlocked, ApplyManualOwner, ApplyBotMessage,
                  ApplyDeletions, ApplyInert
    <2>5. ledger'[m] # "OWNER"
      <3>1. ledger'[m] = "OWNER" => ledger[m] = "OWNER"
        BY <2>2, <2>4 DEF RecordMessages
      <3>2. ledger[m] = "OWNER" => conversation[c] = "ACTIVE"
        BY <2>2 DEF LedgerRows, ReplyMeansActive
      <3> QED
        BY <2>1, <3>1, <3>2 DEF StateOf
    <2> QED
      BY <2>2, <2>3, <2>5 DEF LedgerRows, SendersKnown, Sender
  <1>2. \A k \in DOMAIN outbox' :
              \/ k \in DOMAIN outbox /\ outbox'[k] = outbox[k]
              \/ outbox'[k].kind # "DELETE"
              \/ \A m \in outbox'[k].messages \cap Update :
                    processed'[m] = "APPLIED" /\ ~OwnerWrote(m)'
    BY <1>1, HandlerDeletes
  <1> QED
    BY <1>f, <1>2, CleanupKept

-----------------------------------------------------------------------------
(***************************************************************************)
(* Commands, retention and the loss of the connection.                     *)
(***************************************************************************)
\* What a command queues is its own.
LEMMA CommandQueues ==
    ASSUME TypeOK, NEW u \in Update, Command(u)
    PROVE  \A k \in DOMAIN outbox' :
              \/ /\ k \in DOMAIN outbox
                 /\ outbox'[k].update = outbox[k].update
                 /\ outbox'[k].kind = outbox[k].kind
                 /\ outbox'[k].messages = outbox[k].messages
              \/ outbox'[k].update = u
  <1>t. outbox \in Seq(OutboxRow) /\ DOMAIN outbox = 1..Len(outbox) /\ Len(outbox) \in Nat
    BY LenProperties DEF TypeOK, StoreTypeOK
  <1>a. CommandRows(u) \in Seq(OutboxRow) /\ \A i \in DOMAIN CommandRows(u) : CommandRows(u)[i].update = u
    <2> DEFINE p == Row(u, "DIRECT", 0, "reply", {})
               q == Row(u, "DIRECT", 0, "trace", {})
    <2>1. p \in OutboxRow /\ q \in OutboxRow
      BY NoRows, PlainRow DEF Kind, Text
    <2>2. p.update = u /\ q.update = u
      BY DEF Row
    <2>3. PICK r \in {<<q>>, <<>>} : CommandRows(u) = <<p>> \o r
      BY Zenon DEF CommandRows
    <2> HIDE DEF p, q
    <2>4. <<p>> \in Seq(OutboxRow) /\ \A i \in DOMAIN <<p>> : <<p>>[i].update = u
      BY <2>1, <2>2
    <2>5. r \in Seq(OutboxRow) /\ \A i \in DOMAIN r : r[i].update = u
      <3>1. CASE r = <<q>>
        BY <2>1, <2>2, <3>1
      <3>2. CASE r = <<>>
        BY <3>2, NoRows
      <3> QED
        BY <3>1, <3>2
    <2> DEFINE s == <<p>>
    <2>6. CommandRows(u) = s \o r /\ s \in Seq(OutboxRow) /\ \A i \in DOMAIN s : s[i].update = u
      BY <2>3, <2>4
    <2> HIDE DEF s
    <2> QED
      BY <2>5, <2>6, Appended
  <1>b. ASSUME NEW s \in Seq(OutboxRow), outbox' = s \o CommandRows(u),
               \A k \in DOMAIN s :
                  \/ /\ k \in DOMAIN outbox
                     /\ s[k].update = outbox[k].update
                     /\ s[k].kind = outbox[k].kind
                     /\ s[k].messages = outbox[k].messages
                  \/ s[k].update = u
        PROVE  \A k \in DOMAIN outbox' :
                  \/ /\ k \in DOMAIN outbox
                     /\ outbox'[k].update = outbox[k].update
                     /\ outbox'[k].kind = outbox[k].kind
                     /\ outbox'[k].messages = outbox[k].messages
                  \/ outbox'[k].update = u
    BY <1>a, <1>b, Appended
  <1>1. CASE ResetConversation(u)
    <2> DEFINE c == ChatOf[u]
               mine == {x \in Update : ChatOf[x] = c}
               ids == EligibleDeletions(ledger, c) \cup {PromptOf(x) : x \in prompt \cap mine}
               kept == [i \in DOMAIN outbox |->
                          IF i \in ChatRows(c) /\ outbox[i].status \in Live
                          THEN [outbox[i] EXCEPT !.status = "DELETED"] ELSE outbox[i]]
               p == Row(u, "DELETE", 0, "", ids)
               gone == DeleteRows(u, ids)
    <2>1. outbox' = (kept \o gone) \o CommandRows(u)
      BY <1>1, Zenon DEF ResetConversation
    <2>2. kept \in Seq(OutboxRow)
      <3>1. \A i \in 1..Len(outbox) : outbox[i] \in OutboxRow
                /\ [outbox[i] EXCEPT !.status = "DELETED"] \in OutboxRow
        BY <1>t, DeletedRow
      <3> QED
        BY <1>t, <3>1
    <2>3. DOMAIN kept = DOMAIN outbox
          /\ \A i \in DOMAIN outbox : /\ kept[i].update = outbox[i].update
                                      /\ kept[i].kind = outbox[i].kind
                                      /\ kept[i].messages = outbox[i].messages
      <3>1. \A row \in OutboxRow : /\ [row EXCEPT !.status = "DELETED"].update = row.update
                                   /\ [row EXCEPT !.status = "DELETED"].kind = row.kind
                                   /\ [row EXCEPT !.status = "DELETED"].messages = row.messages
        BY DEF OutboxRow
      <3> QED
        BY <1>t, <3>1
    <2>4. gone \in Seq(OutboxRow)
      <3>1. ids \in SUBSET Message
        BY Ids DEF EligibleDeletions, TypeOK, StoreTypeOK
      <3> QED
        BY <3>1, DeletionRows
    <2>5. p.update = u /\ (gone = <<>> \/ gone = <<p>>)
      BY DEF DeleteRows, Row
    <2> HIDE DEF kept, gone, p
    <2>6. \A i \in DOMAIN gone : gone[i].update = u
      BY <2>5
    <2>7. kept \o gone \in Seq(OutboxRow)
          /\ \A k \in DOMAIN (kept \o gone) :
                \/ k \in DOMAIN kept /\ (kept \o gone)[k] = kept[k]
                \/ (kept \o gone)[k].update = u
      BY <2>2, <2>4, <2>6, Appended
    <2> DEFINE s == kept \o gone
    <2>8. s \in Seq(OutboxRow) /\ outbox' = s \o CommandRows(u)
      BY <2>1, <2>7
    <2>9. \A k \in DOMAIN s :
             \/ /\ k \in DOMAIN outbox
                /\ s[k].update = outbox[k].update
                /\ s[k].kind = outbox[k].kind
                /\ s[k].messages = outbox[k].messages
             \/ s[k].update = u
      BY <2>3, <2>7
    <2> HIDE DEF s
    <2> QED
      BY <1>b, <2>8, <2>9
  <1>2. CASE ~ResetConversation(u)
    <2>1. outbox' = outbox \o CommandRows(u)
      BY <1>2 DEF Command, Unblock, SetDryRun, OtherCommand
    <2> QED
      BY <1>b, <1>t, <2>1
  <1> QED
    BY <1>1, <1>2

\* /reset forgets the replies with the conversation; /unblock leaves a chat
\* that has none; the other commands leave both alone.
LEMMA CommandLedger ==
    ASSUME TypeOK, RowsKeyed, LedgerRows, CleanupKnown, NEW u \in Update, Command(u)
    PROVE  LedgerRows' /\ CleanupKnown' /\ (ActiveMeansReply => ActiveMeansReply')
  <1> DEFINE c == ChatOf[u]
  <1>c. c \in Chat /\ \A m \in Message : MessageChat(m) \in Chat
    BY ChatAssumption, MessageChats DEF Update
  <1>t. /\ conversation \in [Chat -> ConversationState \cup {"NONE"}]
        /\ Update \subseteq Message
    BY Ids DEF TypeOK, StoreTypeOK
  <1>p. /\ processed[u] = "NONE"
        /\ processed' = [processed EXCEPT ![u] = "APPLIED"]
        /\ facts' = [facts EXCEPT ![u] = [NoFacts EXCEPT !.action = "COMMAND"]]
    BY DEF Command, ResetConversation, Unblock, SetDryRun, OtherCommand, CommandAccepted,
           Arrives, Finish
  <1>n. [NoFacts EXCEPT !.action = "COMMAND"].action = "COMMAND"
    BY DEF NoFacts
  <1>v. /\ \A v \in Update : processed'[v] = IF v = u THEN "APPLIED" ELSE processed[v]
        /\ facts'[u].action = "COMMAND"
        /\ \A v \in Update : v # u => facts'[v] = facts[v]
    BY <1>p, <1>n DEF TypeOK, StoreTypeOK
  <1>f. InboxForward
    BY <1>p, <1>v DEF InboxForward
  <1>1. CleanupKnown'
    <2>1. \A k \in DOMAIN outbox' :
              \/ /\ k \in DOMAIN outbox
                 /\ outbox'[k].update = outbox[k].update
                 /\ outbox'[k].kind = outbox[k].kind
                 /\ outbox'[k].messages = outbox[k].messages
              \/ outbox'[k].update = u
      BY CommandQueues
    <2> QED
      BY <2>1, <1>f, <1>v, CleanupKept
  <1>2. \A m \in Update : OwnerWrote(m)' => OwnerWrote(m)
    BY <1>v DEF OwnerWrote
  <1>3. ASSUME \A m \in Message : ledger'[m] = ledger[m] \/ ledger'[m] = "NONE",
               \A m \in Message : ledger'[m] = "OWNER" =>
                   conversation'[MessageChat(m)] = conversation[MessageChat(m)],
               \A d \in Chat : conversation'[d] = "ACTIVE" =>
                   /\ conversation[d] = "ACTIVE"
                   /\ \A m \in Message : MessageChat(m) = d => ledger'[m] = ledger[m]
        PROVE  LedgerRows' /\ (ActiveMeansReply => ActiveMeansReply')
    <2>1. LedgerBorn'
      BY <1>3, <1>t, <1>v DEF LedgerRows, LedgerBorn
    <2>2. ReplyMeansActive'
      BY <1>3 DEF LedgerRows, ReplyMeansActive
    <2>3. SendersKnown'
      BY <1>2, <1>3, <1>t DEF LedgerRows, SendersKnown
    <2>4. ActiveMeansReply => ActiveMeansReply'
      BY <1>3 DEF ActiveMeansReply
    <2> QED
      BY <2>1, <2>2, <2>3, <2>4 DEF LedgerRows
  <1>4. CASE ResetConversation(u)
    <2>1. /\ \A d \in Chat : conversation'[d] = IF d = c THEN "NEW" ELSE conversation[d]
          /\ \A m \in Message : ledger'[m] = IF MessageChat(m) = c THEN "NONE" ELSE ledger[m]
      BY <1>4, <1>t DEF ResetConversation, SetState
    <2> QED
      BY <1>1, <1>3, <1>c, <2>1
  <1>5. CASE Unblock(u)
    <2>1. /\ \A d \in Chat : conversation'[d] = IF d = c THEN "NEW" ELSE conversation[d]
          /\ ledger' = ledger /\ conversation[c] # "ACTIVE"
      BY <1>5, <1>t DEF Unblock, SetState, SoftBlocked
    <2>2. \A m \in Message : ledger[m] = "OWNER" => MessageChat(m) # c
      BY <2>1 DEF LedgerRows, ReplyMeansActive
    <2> QED
      BY <1>1, <1>3, <1>c, <2>1, <2>2
  <1>6. CASE OtherCommand(u) \/ \E on \in BOOLEAN : SetDryRun(u, on)
    <2>1. UNCHANGED <<conversation, ledger>>
      BY <1>6 DEF OtherCommand, SetDryRun, lifecycle
    <2> QED
      BY <1>1, <1>3, <2>1
  <1> QED
    BY <1>4, <1>5, <1>6 DEF Command

\* A step that leaves the ledger and the conversations alone and moves the
\* inbox forward.
LEMMA LedgerKept ==
    ASSUME TypeOK, LedgerRows, UNCHANGED <<conversation, ledger>>, InboxForward
    PROVE  LedgerRows' /\ (ActiveMeansReply => ActiveMeansReply')
  <1>1. LedgerBorn'
    BY DEF LedgerRows, LedgerBorn, InboxForward
  <1>2. ReplyMeansActive' /\ (ActiveMeansReply => ActiveMeansReply')
    BY DEF LedgerRows, ReplyMeansActive, ActiveMeansReply
  <1>3. SendersKnown'
    <2> SUFFICES ASSUME NEW m \in Update, ledger[m] \in {"INBOUND", "BOT"}
                 PROVE  ~OwnerWrote(m)'
      BY DEF SendersKnown
    <2>1. processed[m] = "APPLIED" /\ ~OwnerWrote(m)
      BY DEF LedgerRows, LedgerBorn, SendersKnown
    <2> QED
      BY <2>1 DEF InboxForward, OwnerWrote
  <1> QED
    BY <1>1, <1>2, <1>3 DEF LedgerRows

\* The clock queues edits of prompts, never a deletion, and moves chats that
\* are not ACTIVE to NEW.
LEMMA ExpiryLedger ==
    ASSUME TypeOK, RowsKeyed, LedgerRows, CleanupKnown, NEW blocks, ExpireDueState(blocks)
    PROVE  LedgerRows' /\ CleanupKnown' /\ (ActiveMeansReply => ActiveMeansReply')
  <1>t. outbox \in Seq(OutboxRow)
    BY DEF TypeOK, StoreTypeOK
  <1>f. UNCHANGED <<processed, facts, ledger>> /\ InboxForward
    BY DEF ExpireDueState, inbox, InboxForward
  <1>c. \A d \in Chat : conversation'[d] = "ACTIVE" <=> conversation[d] = "ACTIVE"
    BY DEF ExpireDueState, StateAfterExpiry
  <1>m. \A m \in Message : MessageChat(m) \in Chat
    BY MessageChats
  <1>1. LedgerRows' /\ (ActiveMeansReply => ActiveMeansReply')
    BY <1>f, <1>c, <1>m DEF LedgerRows, LedgerBorn, ReplyMeansActive, SendersKnown, ActiveMeansReply,
                            OwnerWrote
  <1>2. PICK n \in 0..MaxUpdate : \E order \in [1..n -> Due \cap prompt] :
           outbox' = outbox \o [i \in 1..n |-> EditRow(order[i], order[i], "expired")]
    BY DEF ExpireDueState
  <1>3. PICK order \in [1..n -> Due \cap prompt] :
           outbox' = outbox \o [i \in 1..n |-> EditRow(order[i], order[i], "expired")]
    BY <1>2
  <1> DEFINE t == [i \in 1..n |-> EditRow(order[i], order[i], "expired")]
  <1>n. n \in Nat /\ DOMAIN t = 1..n
    BY UpdateAssumption
  <1>4. \A i \in 1..n : t[i].kind # "DELETE"
    BY DEF EditRow, Row
  <1>5. t \in Seq(OutboxRow)
    <2>1. \A x \in Update : x \in 0..MaxUpdate => EditRow(x, x, "expired") \in OutboxRow
      BY EditRows DEF Text
    <2>2. \A i \in 1..n : order[i] \in Update /\ order[i] \in 0..MaxUpdate
      BY UpdateAssumption DEF Update, Due
    <2> QED
      BY <1>n, <2>1, <2>2
  <1>6. outbox' = outbox \o t
    BY <1>3
  <1> HIDE DEF t
  <1>7. \A k \in DOMAIN outbox' : \/ k \in DOMAIN outbox /\ outbox'[k] = outbox[k]
                                  \/ outbox'[k].kind # "DELETE"
    BY <1>t, <1>n, <1>4, <1>5, <1>6, Appended
  <1>8. CleanupKnown'
    BY <1>f, <1>7, CleanupKept
  <1> QED
    BY <1>1, <1>8

\* purge_ledger drops no reply.
LEMMA PurgeLedger ==
    ASSUME TypeOK, LedgerRows, NEW age, PurgeHistory(age)
    PROVE  LedgerRows' /\ (ActiveMeansReply => ActiveMeansReply')
  <1>1. /\ UNCHANGED <<conversation, processed, facts>>
        /\ \A m \in Message : \/ ledger'[m] = ledger[m]
                              \/ ledger[m] = "INBOUND" /\ ledger'[m] = "NONE"
        /\ Update \subseteq Message
    BY Ids DEF PurgeHistory, Purgeable, inbox
  <1>2. LedgerBorn' /\ ReplyMeansActive'
    BY <1>1 DEF LedgerRows, LedgerBorn, ReplyMeansActive
  <1>3. SendersKnown'
    BY <1>1 DEF LedgerRows, SendersKnown, OwnerWrote
  <1>4. ActiveMeansReply => ActiveMeansReply'
    BY <1>1 DEF ActiveMeansReply
  <1> QED
    BY <1>2, <1>3, <1>4 DEF LedgerRows

\* A connection that is gone takes conversations and ledger with it.
LEMMA ForgetLedger ==
    ASSUME ForgetConnection
    PROVE  LedgerRows' /\ ActiveMeansReply'
  <1>1. /\ \A m \in Message : ledger'[m] = "NONE"
        /\ \A d \in Chat : conversation'[d] = "NONE"
        /\ Update \subseteq Message
    BY Ids DEF ForgetConnection
  <1> QED
    BY <1>1 DEF LedgerRows, LedgerBorn, ReplyMeansActive, SendersKnown, ActiveMeansReply

-----------------------------------------------------------------------------
(***************************************************************************)
(* Events in flight.                                                       *)
(***************************************************************************)
\* What an event knows stays true while ledger and conversations are left
\* alone.
LEMMA KnowsKept ==
    ASSUME NEW f, NEW u, UNCHANGED <<conversation, ledger>>
    PROVE  (Knows(f, u)' <=> Knows(f, u)) /\ (ReplyKnown(f, u)' <=> ReplyKnown(f, u))
  BY DEF Knows, ReplyKnown, StateOf

\* And when the event is handed to the worker or written to the inbox.
LEMMA KnowsHanded ==
    ASSUME NEW f, NEW u, UNCHANGED <<conversation, ledger>>
    PROVE  /\ task'.facts = f /\ task'.update = u =>
                 /\ Knows(f, u) => Knows(task.facts, task.update)'
                 /\ ReplyKnown(f, u) => ReplyKnown(task.facts, task.update)'
           /\ facts'[u] = f => /\ Knows(f, u) => Knows(facts[u], u)'
                               /\ ReplyKnown(f, u) => ReplyKnown(facts[u], u)'
  BY DEF Knows, ReplyKnown, StateOf

\* With nothing in flight there is nothing to know.
LEMMA NothingToKnow ==
    ASSUME Recoverable' = {}, task'.pc = "IDLE"
    PROVE  MessagesKnown' /\ RepliesKnown'
  BY DEF MessagesKnown, RepliesKnown

\* What is applied is known, or has no effect.
LEMMA KnownWhenApplied ==
    ASSUME MessagesKnown, NEW u \in Recoverable, ApplyRecorded(u)
    PROVE  /\ Knows(facts[u], u) \/ facts[u].action \in {"ACTIVE_INBOUND", "IGNORE"}
           /\ RepliesKnown => ReplyKnown(facts[u], u)
  <1>1. CASE trust # "NONE"
    BY <1>1 DEF MessagesKnown, RepliesKnown
  <1>2. CASE trust = "NONE"
    BY <1>2 DEF ApplyRecorded, Applicable, Recoverable, ReplyKnown
  <1> QED
    BY <1>1, <1>2

\* The freshly migrated database satisfies the invariants.
LEMMA LedgerInit == Init => ReplyInv
  <1> SUFFICES ASSUME Init PROVE ReplyInv
    OBVIOUS
  <1>1. LifecycleInv /\ EffectsInv
    BY LifecycleInit, InboxInit DEF Init, StoreInit, EffectsInv, RowsKeyed, EffectsOnce
  <1>2. /\ \A m \in Message : ledger[m] = "NONE"
        /\ \A d \in Chat : conversation[d] = "NONE"
        /\ outbox = <<>> /\ Update \subseteq Message
        /\ Recoverable = {} /\ task.pc = "IDLE"
    BY Ids DEF Init, StoreInit, ProcInit, Recoverable, Idle
  <1>3. LedgerRows /\ ActiveMeansReply
    BY <1>2 DEF LedgerRows, LedgerBorn, ReplyMeansActive, SendersKnown, ActiveMeansReply
  <1>4. CleanupKnown /\ MessagesKnown /\ RepliesKnown
    BY <1>2 DEF CleanupKnown, MessagesKnown, RepliesKnown
  <1> QED
    BY <1>1, <1>3, <1>4 DEF ReplyInv, LedgerInv

\* Without storage faults every step keeps the ledger in step; and when no
\* edit overtakes a deletion, the replies of ACTIVE chats too.
LEMMA LedgerStep ==
    ASSUME "storage" \notin Fault
    PROVE  /\ LedgerInv /\ [Next]_vars => LedgerInv'
           /\ "late_edit" \notin Fault /\ ReplyInv /\ [Next]_vars => ReplyInv'
  <1> DEFINE Tables == /\ LedgerRows' /\ CleanupKnown'
                       /\ ActiveMeansReply /\ RepliesKnown => ActiveMeansReply'
             Flight == /\ MessagesKnown'
                       /\ "late_edit" \notin Fault /\ RepliesKnown => RepliesKnown'
  <1> SUFFICES ASSUME LedgerInv, [Next]_vars PROVE Tables /\ Flight
    BY LifecycleStep, EffectsStep DEF LedgerInv, ReplyInv
  <1> USE DEF LedgerInv
  <1>g. TypeOK /\ ChallengeRows /\ OneInFlight /\ RowsKeyed /\ EffectsInv
    BY DEF LifecycleInv, EffectsInv
  <1>i. Idle.pc = "IDLE"
    BY DEF Idle
  <1>q. Working => Recoverable = {} /\ task.pc = "IDLE"
    BY <1>g, <1>i, QuietWhenIdle DEF Working
  <1>p. processed \in [Update -> {"NONE", "RECORDED", "APPLIED"}] /\ facts \in [Update -> Facts]
        /\ (task.pc # "IDLE" => task.update \in Update)
    BY <1>g DEF TypeOK, StoreTypeOK
  <1>t. ASSUME UNCHANGED <<conversation, ledger, outbox>>, InboxForward PROVE Tables
    <2>1. LedgerRows' /\ (ActiveMeansReply => ActiveMeansReply')
      BY <1>t, <1>g, LedgerKept
    <2>2. CleanupKnown'
      BY <1>t, <1>g, CleanupKept
    <2> QED
      BY <2>1, <2>2
  <1>n. ASSUME Recoverable' = {}, task'.pc = "IDLE" PROVE Flight
    BY <1>n, NothingToKnow
  <1>s. ASSUME UNCHANGED <<conversation, ledger, outbox, processed, facts>>, SameConnection,
               task' = task \/ task'.pc = "IDLE",
               phase' = "SERVING" => phase = "SERVING" \/ Recoverable = {}
        PROVE  Tables /\ Flight
    <2>1. Tables
      BY <1>s, <1>t DEF InboxForward
    <2>2. Recoverable' = Recoverable
      BY <1>s DEF Recoverable
    <2>3. \A f, u : /\ Knows(f, u)' <=> Knows(f, u)
                    /\ ReplyKnown(f, u)' <=> ReplyKnown(f, u)
      BY <1>s, KnowsKept
    <2>4. MessagesKnown'
      BY <1>s, <2>2, <2>3 DEF MessagesKnown, SameConnection
    <2>5. RepliesKnown => RepliesKnown'
      BY <1>s, <2>2, <2>3 DEF RepliesKnown, SameConnection
    <2> QED
      BY <2>1, <2>4, <2>5
  <1> HIDE DEF Tables, Flight
  <1>1. ASSUME NEW u \in Update, NEW e \in Events(u), Prepare(u, e) PROVE Tables /\ Flight
    <2>1. UNCHANGED <<conversation, ledger, outbox, processed, facts>>
          /\ Recoverable' = {} /\ task'.pc = "PREPARED"
          /\ task'.update = u /\ task'.facts = PreparedEvent(u, e)
      BY <1>1, <1>q DEF Prepare, storeVars, lifecycle, inbox, Recoverable
    <2>f. PICK f : f = PreparedEvent(u, e)
      OBVIOUS
    <2>2. Knows(f, u) /\ ("late_edit" \notin Fault => ReplyKnown(f, u))
      BY <1>g, <2>f, PrepareKnows
    <2>3. /\ Knows(task.facts, task.update)'
          /\ "late_edit" \notin Fault => ReplyKnown(task.facts, task.update)'
      BY <2>1, <2>2, <2>f, KnowsHanded
    <2>4. Tables
      BY <2>1, <1>t DEF InboxForward
    <2> QED
      BY <2>1, <2>3, <2>4 DEF Flight, MessagesKnown, RepliesKnown
  <1>2. ASSUME NEW u \in Update, Redeliver(u) PROVE FALSE
    BY <1>2, <1>q DEF Redeliver, Recoverable
  <1>3. ASSUME NEW u \in Update, Command(u) PROVE Tables /\ Flight
    <2>1. Working /\ UNCHANGED task /\ processed' = [processed EXCEPT ![u] = "APPLIED"]
          /\ facts' = [facts EXCEPT ![u] = [NoFacts EXCEPT !.action = "COMMAND"]]
      BY <1>3 DEF Command, ResetConversation, Unblock, SetDryRun, OtherCommand,
                  CommandAccepted, Finish
    <2>2. Recoverable' = {} /\ task'.pc = "IDLE"
      BY <2>1, <1>q, <1>p DEF Recoverable
    <2> QED
      BY <1>3, <1>g, <1>n, <2>2, CommandLedger DEF Tables
  <1>4. ASSUME NEW u \in Update, RecordTrigger(u) PROVE Tables /\ Flight
    <2>1. Working /\ UNCHANGED <<task, conversation, ledger, outbox>>
          /\ processed[u] = "NONE" /\ processed' = [processed EXCEPT ![u] = "RECORDED"]
          /\ facts' = [facts EXCEPT ![u] = [NoFacts EXCEPT !.action = "TRIGGER"]]
      BY <1>4 DEF RecordTrigger, Arrives, lifecycle, procVars
    <2>2. [NoFacts EXCEPT !.action = "TRIGGER"].action = "TRIGGER"
      BY DEF NoFacts
    <2>3. Recoverable' = {} /\ task'.pc = "IDLE" /\ InboxForward
      BY <2>1, <2>2, <1>q, <1>p DEF Recoverable, InboxForward
    <2> QED
      BY <2>1, <2>3, <1>t, <1>n
  <1>5. ASSUME NEW u \in Update, PurgeHistory(u) PROVE Tables /\ Flight
    <2>1. Working /\ UNCHANGED <<task, processed, facts, outbox>>
      BY <1>5 DEF PurgeHistory, RetentionTurn, inbox, procVars
    <2>2. Recoverable' = {} /\ task'.pc = "IDLE" /\ InboxForward
      BY <2>1, <1>q DEF Recoverable, InboxForward
    <2>3. CleanupKnown'
      BY <1>g, <2>1, <2>2, CleanupKept
    <2>4. LedgerRows' /\ (ActiveMeansReply => ActiveMeansReply')
      BY <1>5, <1>g, PurgeLedger
    <2> QED
      BY <2>2, <2>3, <2>4, <1>n DEF Tables
  <1>6. ASSUME NEW on \in BOOLEAN, NEW rs \in RightSets, NEW u \in Update,
               ReconcileTrigger(u, on, rs)
        PROVE  Tables /\ Flight
    <2>1. Working /\ UNCHANGED <<task, conversation, ledger, outbox, facts>>
          /\ processed' = [processed EXCEPT ![u] = "APPLIED"]
      BY <1>6 DEF ReconcileTrigger, lifecycle, procVars
    <2>2. Recoverable' = {} /\ task'.pc = "IDLE" /\ InboxForward
      BY <2>1, <1>q, <1>p DEF Recoverable, InboxForward
    <2> QED
      BY <2>1, <2>2, <1>t, <1>n
  <1>7. ASSUME NEW blocks, ExpireDueState(blocks) PROVE Tables /\ Flight
    <2>1. Working /\ UNCHANGED <<task, processed, facts>>
      BY <1>7 DEF ExpireDueState, RetentionTurn, inbox, procVars
    <2>2. Recoverable' = {} /\ task'.pc = "IDLE"
      BY <2>1, <1>q DEF Recoverable
    <2> QED
      BY <1>7, <1>g, <1>n, <2>2, ExpiryLedger DEF Tables
  <1>8. CASE Record
    <2> DEFINE u == task.update
    <2>1. /\ u \in Update /\ task'.pc = "RECORDED"
          /\ UNCHANGED <<conversation, ledger, outbox>>
          /\ processed' = [processed EXCEPT ![u] = "RECORDED"]
          /\ facts' = [facts EXCEPT ![u] = task.facts]
      BY <1>8, <1>p DEF Record, lifecycle
    <2>2. Recoverable = {} /\ processed[u] = "NONE"
          /\ Knows(task.facts, u) /\ (RepliesKnown => ReplyKnown(task.facts, u))
      BY <1>8, <1>g DEF Record, OneInFlight, MessagesKnown, RepliesKnown
    <2>3. Recoverable' \subseteq {u} /\ InboxForward
      BY <2>1, <2>2, <1>p DEF Recoverable, InboxForward
    <2>4. ASSUME NEW v \in Recoverable'
          PROVE  Knows(facts[v], v)' /\ (RepliesKnown => ReplyKnown(facts[v], v)')
      <3>f. PICK f : f = task.facts
        OBVIOUS
      <3>1. v = u /\ facts'[v] = f /\ Knows(f, v) /\ (RepliesKnown => ReplyKnown(f, v))
        BY <2>1, <2>2, <2>3, <2>4, <3>f, <1>p
      <3> QED
        BY <2>1, <3>1, KnowsHanded
    <2> QED
      BY <2>1, <2>3, <2>4, <1>t DEF Flight, MessagesKnown, RepliesKnown
  <1>9. ASSUME NEW u \in Recoverable, ApplyRecorded(u), task'.pc = "IDLE" PROVE Tables /\ Flight
    <2>1. u \in Update /\ Recoverable' = {} /\ Fresh(facts[u], u)
      BY <1>9, <1>g, ApplyDrains, FreshWhenApplied DEF Recoverable
    <2>2. /\ Knows(facts[u], u) \/ facts[u].action \in {"ACTIVE_INBOUND", "IGNORE"}
          /\ RepliesKnown => ReplyKnown(facts[u], u)
      BY <1>9, KnownWhenApplied
    <2>3. /\ LedgerRows'
          /\ ActiveMeansReply /\ ReplyKnown(facts[u], u) => ActiveMeansReply'
      BY <1>9, <1>g, <2>1, <2>2, ApplyLedger
    <2>4. CleanupKnown'
      BY <1>9, <1>g, <2>1, <2>2, <2>3, ApplyCleanup
    <2> QED
      BY <1>9, <1>n, <2>1, <2>2, <2>3, <2>4 DEF Tables
  <1>10. CASE Apply \/ Recover
    <2>1. CASE Apply
      BY <2>1, <1>g, <1>i, <1>9 DEF Apply, OneInFlight
    <2>2. CASE Recover
      <3>1. PICK u \in Update : u \in Recoverable /\ ApplyRecorded(u)
        BY <2>2 DEF Recover, NextRecoverable
      <3>2. task'.pc = "IDLE"
        BY <2>2, <1>g, <1>i DEF Recover, procVars, TypeOK
      <3> QED
        BY <3>1, <3>2, <1>9
    <2> QED
      BY <1>10, <2>1, <2>2
  <1>11. CASE ApplyRefused \/ StorageFault
    <2>1. ApplyRefused /\ task.update \in Recoverable
      BY <1>11, <1>g DEF StorageFault, ApplyRefused, OneInFlight
    <2>2. Applicable(facts[task.update], task.update)
      BY <2>1, <1>g DEF OneInFlight, Fresh, ApplyRefused
    <2> QED
      BY <2>1, <2>2 DEF ApplyRefused
  <1>12. CASE \/ Restart \/ StartupUnanswered \/ StartupFails \/ Serve \/ Crash \/ PublishReady
              \/ UNCHANGED vars
              \/ \E u \in Update : Duplicate(u) \/ Lapse(u)
              \/ \E on \in BOOLEAN, rs \in RightSets : ReconcileStartup(on, rs)
    <2>1. UNCHANGED <<conversation, ledger, outbox, processed, facts>> /\ SameConnection
      BY <1>12 DEF Restart, StartupUnanswered, StartupFails, Serve, Crash, PublishReady, Duplicate,
                   Lapse, ReconcileStartup, Reported, vars, storeVars, lifecycle, inbox, connection,
                   SameConnection, Unconfirmed
    <2>2. task' = task \/ task'.pc = "IDLE"
      BY <1>12, <1>i DEF Restart, StartupUnanswered, StartupFails, Serve, Crash, PublishReady,
                         Duplicate, Lapse, ReconcileStartup, vars, procVars
    <2>3. phase' = "SERVING" => phase = "SERVING" \/ Recoverable = {}
      BY <1>12 DEF Restart, StartupUnanswered, StartupFails, Serve, Crash, PublishReady,
                   Duplicate, Lapse, ReconcileStartup, StartupLooksUp, vars, procVars
    <2> QED
      BY <1>s, <2>1, <2>2, <2>3
  <1>13. ASSUME NEW u \in Update, TriggerNotFound(u) PROVE Tables /\ Flight
    <2>1. Working /\ UNCHANGED <<task, facts, outbox>>
          /\ processed' = [processed EXCEPT ![u] = "APPLIED"]
      BY <1>13 DEF TriggerNotFound, procVars
    <2>2. Recoverable' = {} /\ task'.pc = "IDLE" /\ InboxForward
      BY <2>1, <1>q, <1>p DEF Recoverable, InboxForward
    <2>3. CleanupKnown'
      BY <1>g, <2>1, <2>2, CleanupKept
    <2>4. LedgerRows' /\ ActiveMeansReply'
      BY <1>13, ForgetLedger DEF TriggerNotFound
    <2> QED
      BY <2>2, <2>3, <2>4, <1>n DEF Tables
  <1>14. CASE StartupNotFound
    <2>1. UNCHANGED <<task, processed, facts, outbox>> /\ trust' = "NONE"
      BY <1>14 DEF StartupNotFound, ForgetConnection, inbox
    <2>2. Recoverable' = Recoverable /\ task.pc = "IDLE" /\ InboxForward
      BY <1>14, <1>g, <1>i, <2>1 DEF Recoverable, StartupNotFound, StartupLooksUp, Working, TypeOK,
                                     InboxForward
    <2>3. phase' = "SERVING" => Recoverable = {}
      BY <1>14, <1>q DEF StartupNotFound, StartupLooksUp
    <2>4. CleanupKnown'
      BY <1>g, <2>1, <2>2, CleanupKept
    <2>5. LedgerRows' /\ ActiveMeansReply'
      BY <1>14, ForgetLedger DEF StartupNotFound
    <2> QED
      BY <2>1, <2>2, <2>3, <2>4, <2>5 DEF Tables, Flight, MessagesKnown, RepliesKnown
  <1> QED
    BY <1>1, <1>2, <1>3, <1>4, <1>5, <1>6, <1>7, <1>8, <1>10, <1>11, <1>12, <1>13, <1>14
    DEF Next, ProcStep

\* Without storage faults the automatic cleanup of a blocked chat never names
\* a message the Owner wrote, though eligible_deletion_ids lists every sender's
\* messages: through crashes, replays, reordered updates, purges and /reset.
THEOREM CleanupAlwaysSparesOwner ==
    ASSUME "storage" \notin Fault
    PROVE  Spec => []CleanupSparesOwner
  <1>1. LedgerInv => CleanupSparesOwner
    BY DEF LedgerInv, CleanupKnown, CleanupSparesOwner, OwnerWrote
  <1>2. Init => LedgerInv
    BY LedgerInit DEF ReplyInv
  <1> QED
    BY <1>1, <1>2, LedgerStep, PTL DEF Spec

\* Without storage faults, and while no edit of a reply arrives after its
\* deletion, a conversation is ACTIVE exactly while the ledger holds an
\* undeleted reply of the Owner.
THEOREM ActiveAlwaysMeansReply ==
    ASSUME "storage" \notin Fault, "late_edit" \notin Fault
    PROVE  Spec => []ActiveIffOwnerReply
  <1>1. ReplyInv => ActiveIffOwnerReply
    BY DEF ReplyInv, LedgerInv, LedgerRows, ReplyMeansActive, ActiveMeansReply, ActiveIffOwnerReply
  <1>2. ReplyInv /\ [Next]_vars => ReplyInv'
    BY LedgerStep
  <1> QED
    BY <1>1, <1>2, LedgerInit, PTL DEF Spec
=============================================================================
