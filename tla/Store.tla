------------------------------- MODULE Store -------------------------------
(***************************************************************************)
(* The SQLite database that the processing worker and the outbox worker    *)
(* share, and the repository operations both are written with.  The pool   *)
(* holds one connection, so a transaction is one atomic step and every     *)
(* operator below maps the tables a transaction reads to the ones it       *)
(* commits.  One Business connection is installed and its Owner claimed;   *)
(* once Telegram no longer finds it the Owner makes no other one.          *)
(***************************************************************************)
EXTENDS Integers, Sequences, FiniteSets

CONSTANTS
    MaxUpdate,    \* Telegram update ids are 1 .. MaxUpdate
    Chat,         \* contacts of the Business account
    ChatOf,       \* the chat an update is about
    MaxAttempts,  \* challenge.max_attempts: 3 in the code
    Modes         \* the destructive mode the service may start with

ASSUME UpdateAssumption == MaxUpdate \in Nat
ASSUME ChatAssumption == ChatOf \in [1..MaxUpdate -> Chat]
ASSUME AttemptAssumption == MaxAttempts \in Nat \ {0}
ASSUME ModesAssumption == Modes \subseteq {"DRY_RUN", "LIVE"}

VARIABLES
    conversation,   \* conversation.state per chat, "NONE" without a row
    ledger,         \* message_ledger: who sent a message, or that it was deleted
    challenge,      \* challenge.delivery_status, by the update that created it
    attempts,       \* challenge.attempts_used
    lapsed,         \* challenges whose expires_at has passed
    prompt,         \* challenges whose prompt_message_id is set
    processed,      \* processed_update.status
    facts,          \* processed_update.event_json
    outbox,         \* outbox_action rows in id order
    mode,           \* runtime_setting destructive_mode
    global,         \* telegram_reconciliation_state.state
    trust,          \* business_connection.reconciliation_state, "NONE" without a row
    enabled,        \* business_connection.enabled
    rights          \* business_connection.rights_json

lifecycle == <<conversation, ledger, challenge, attempts, lapsed, prompt>>
inbox == <<processed, facts>>
connection == <<global, trust, enabled, rights>>
storeVars == <<lifecycle, inbox, outbox, mode, connection>>

Update == 1..MaxUpdate

(***************************************************************************)
(* The message an update carries has the update's number; the prompt of a  *)
(* challenge is a message of its own.                                      *)
(***************************************************************************)
Message == 1..(2 * MaxUpdate)
PromptOf(c) == MaxUpdate + c
MessageChat(m) == IF m <= MaxUpdate THEN ChatOf[m] ELSE ChatOf[m - MaxUpdate]

(***************************************************************************)
(* The conversation automaton: each event has one target and the states it *)
(* may leave; every other pair is an InvalidTransition error.              *)
(***************************************************************************)
ConversationState ==
    {"NEW", "VERIFY_PENDING", "VERIFIED_WAITING_OWNER", "ACTIVE",
     "TEMP_SOFT_BLOCKED", "SPAM_SOFT_BLOCKED"}
SoftBlocked == {"TEMP_SOFT_BLOCKED", "SPAM_SOFT_BLOCKED"}

Edge(from, to) == [from |-> from, to |-> to]
Transition ==
    [SafeFirstInbound       |-> Edge({"NEW"}, "VERIFY_PENDING"),
     SpamDetected           |-> Edge({"NEW", "VERIFY_PENDING",
                                      "VERIFIED_WAITING_OWNER"}, "SPAM_SOFT_BLOCKED"),
     ManualOwnerReply       |-> Edge({"NEW", "VERIFY_PENDING", "VERIFIED_WAITING_OWNER",
                                      "TEMP_SOFT_BLOCKED"}, "ACTIVE"),
     VerificationSucceeded  |-> Edge({"VERIFY_PENDING"}, "VERIFIED_WAITING_OWNER"),
     ChallengeExpired       |-> Edge({"VERIFY_PENDING"}, "NEW"),
     AllOwnerRepliesDeleted |-> Edge({"ACTIVE"}, "NEW"),
     TempBlockExpired       |-> Edge({"TEMP_SOFT_BLOCKED"}, "NEW"),
     OwnerUnblocked         |-> Edge({"SPAM_SOFT_BLOCKED"}, "NEW"),
     VerificationExhausted  |-> Edge({"VERIFY_PENDING"}, "TEMP_SOFT_BLOCKED"),
     OwnerInitiatedMessage  |-> Edge({"SPAM_SOFT_BLOCKED"}, "ACTIVE")]

\* A chat without a row is read as NEW, and written as NEW by get_or_create.
StateOf(c) == IF conversation[c] = "NONE" THEN "NEW" ELSE conversation[c]
Permits(c, event) == StateOf(c) \in Transition[event].from

(***************************************************************************)
(* Message ledger.                                                         *)
(***************************************************************************)
Sender == {"INBOUND", "OWNER", "BOT"}
RecordMessages(sender, ms) ==
    [m \in Message |-> IF m \in ms /\ ledger[m] = "NONE" THEN sender ELSE ledger[m]]
MarkDeleted(ms) ==
    [m \in Message |-> IF m \in ms /\ ledger[m] # "NONE" THEN "DELETED" ELSE ledger[m]]
EligibleDeletions(rows, c) == {m \in Message : MessageChat(m) = c /\ rows[m] \in Sender}
OwnerReplies(rows, c) == {m \in Message : MessageChat(m) = c /\ rows[m] = "OWNER"}

(***************************************************************************)
(* Challenges.  closed_at is set exactly when delivery_status is CLOSED.   *)
(***************************************************************************)
OpenStatus == {"PENDING", "SENT", "UNCERTAIN"}
IsOpen(c) == challenge[c] \in OpenStatus
OpenChallenges(chat) == {c \in Update : ChatOf[c] = chat /\ IsOpen(c)}
\* Mutant: a challenge whose prompt is not delivered yet stays open.
CloseDelivered(cs) ==
    [c \in Update |-> IF c \in cs /\ challenge[c] = "SENT" THEN "CLOSED" ELSE challenge[c]]

CloseChallenges(cs) ==
    [c \in Update |-> IF c \in cs /\ IsOpen(c) THEN "CLOSED" ELSE challenge[c]]

(***************************************************************************)
(* Outbox rows.  A DIRECT row is a SEND_OWNER_MESSAGE or                   *)
(* SEND_PRIVATE_MESSAGE without a Business connection.  A row removed by   *)
(* /reset stays as a DELETED placeholder: AUTOINCREMENT never reuses ids.  *)
(***************************************************************************)
Kind == {"SEND_CHALLENGE", "EDIT_CHALLENGE", "READ", "DELETE", "PROPOSED", "OWNER", "DIRECT"}
Text ==
    {"", "success", "incorrect", "expired", "exhausted", "exhausted_dry_run",
     "spam", "verification_exhausted", "detector_failed", "trace", "reply",
     "challenge_send_uncertain", "business_rights_unavailable"}
Live == {"PENDING", "RETRY"}
Row(u, kind, c, text, ms) ==
    [update |-> u, kind |-> kind, challenge |-> c, text |-> text, messages |-> ms,
     status |-> "PENDING", attempts |-> 0, claimed |-> FALSE]
ChatRows(c) == {i \in DOMAIN outbox : outbox[i].kind # "DIRECT" /\ ChatOf[outbox[i].update] = c}

\* Mutant: an empty batch is sent.
DeleteRowsAlways(u, ms) == <<Row(u, "DELETE", 0, "", ms)>>

\* delete_message_batches: no batch when there is nothing to delete.
DeleteRows(u, ms) == IF ms = {} THEN <<>> ELSE <<Row(u, "DELETE", 0, "", ms)>>
EditRow(u, c, text) == Row(u, "EDIT_CHALLENGE", c, text, {})

(***************************************************************************)
(* The Business connection as find_business_connection returns it: a row   *)
(* only while Telegram reconciliation is READY and the row CONFIRMED.      *)
(***************************************************************************)
Right == {"REPLY", "READ", "DELETE_SENT", "DELETE_ALL"}
KnownConnection == global = "READY" /\ trust = "CONFIRMED"
Grants(needed) == KnownConnection /\ enabled /\ needed \subseteq rights

\* classify_readiness: a claimed Owner without a connection is ready as well.
EffectsReady == global = "READY" /\ trust # "PENDING"

\* Deleting the connection cascades to its conversations and from there to
\* ledger and challenges; outbox_action has no such foreign key.
ForgetConnection ==
    /\ trust' = "NONE" /\ enabled' = FALSE /\ rights' = {}
    /\ conversation' = [c \in Chat |-> "NONE"]
    /\ ledger' = [m \in Message |-> "NONE"]
    /\ challenge' = [c \in Update |-> "NONE"]
    /\ attempts' = [c \in Update |-> 0]
    /\ lapsed' = {} /\ prompt' = {}

(***************************************************************************)
(* Prepared facts: the action decided before the event is recorded.        *)
(***************************************************************************)
InboundAction ==
    {"START", "RETAIN", "CORRECT", "INCORRECT", "EXHAUSTED_BLOCK",
     "EXHAUSTED_DRY_RUN", "EXPIRED", "SPAM"}
Action == InboundAction \cup
    {"ACTIVE_INBOUND", "BLOCKED_INBOUND", "BLOCKED_FAIL_OPEN", "MANUAL_OWNER",
     "BOT_MESSAGE", "MESSAGES_DELETED", "IGNORE", "COMMAND", "TRIGGER"}
Facts == [action : Action \cup {"NONE"}, challenge : 0..MaxUpdate,
          messages : SUBSET Message, verdict : {"ALLOW", "SPAM", "ERROR"}, trace : BOOLEAN]
NoFacts == [action |-> "NONE", challenge |-> 0, messages |-> {},
            verdict |-> "ALLOW", trace |-> FALSE]

OutboxRow ==
    {row \in [update : Update, kind : Kind, challenge : 0..MaxUpdate, text : Text,
              messages : SUBSET Message,
              status : Live \cup {"SUCCEEDED", "UNCERTAIN", "PERMANENT_FAILURE", "DELETED"},
              attempts : Nat, claimed : BOOLEAN] :
        row.kind = "DELETE" => row.messages # {}}

StoreTypeOK ==
    /\ conversation \in [Chat -> ConversationState \cup {"NONE"}]
    /\ ledger \in [Message -> Sender \cup {"NONE", "DELETED"}]
    /\ challenge \in [Update -> OpenStatus \cup {"NONE", "CLOSED"}]
    /\ attempts \in [Update -> 0..MaxAttempts]
    /\ lapsed \subseteq Update
    /\ prompt \subseteq Update
    /\ processed \in [Update -> {"NONE", "RECORDED", "APPLIED"}]
    /\ facts \in [Update -> Facts]
    /\ outbox \in Seq(OutboxRow)
    /\ mode \in {"DRY_RUN", "LIVE"}
    /\ global \in {"PENDING", "READY"}
    /\ trust \in {"PENDING", "CONFIRMED", "NONE"}
    /\ enabled \in BOOLEAN
    /\ rights \subseteq Right

StoreInit ==
    /\ conversation = [c \in Chat |-> "NONE"]
    /\ ledger = [m \in Message |-> "NONE"]
    /\ challenge = [c \in Update |-> "NONE"]
    /\ attempts = [c \in Update |-> 0]
    /\ lapsed = {}
    /\ prompt = {}
    /\ processed = [u \in Update |-> "NONE"]
    /\ facts = [u \in Update |-> NoFacts]
    /\ outbox = <<>>
    /\ mode \in Modes
    /\ global = "READY"
    /\ trust = "CONFIRMED"
    /\ enabled = TRUE
    /\ rights = Right
=============================================================================
