# chat-hygiene in TLA+

chat-hygiene is a Telegram Business bot that stands between unknown contacts and
the Owner of the account. It challenges a new contact with arithmetic, detects
spam with local rules, deletes what a blocked contact writes, and steps aside
once the Owner replies. Everything it decides is kept in one SQLite file so that
it survives crashes, redelivered updates and lost answers of the Bot API. This
directory models that machinery, checks it with TLC on small instances and
proves its safety properties and refinements with TLAPS.

Paths below are relative to the repository; `src/` is its Rust source.

## 1. The system

| Part | State | Operations | Interacts with |
| --- | --- | --- | --- |
| Conversation automaton (`domain/state.rs`) | state per contact | `transition` | called by handler, retention, commands |
| Storage (`storage/*`, `migrations/`) | tables `conversation`, `message_ledger`, `challenge`, `processed_update`, `outbox_action`, `business_connection`, `runtime_setting`, `telegram_reconciliation_state` | repository functions inside a `UnitOfWork` | shared by both workers; the pool has one connection, so transactions are serial |
| Event inbox (`events/*`) | `processed_update` rows RECORDED / APPLIED | record, apply, replay at startup | written by the processing worker, replayed by `app.rs` |
| Preparer (`processing/preparer.rs`) | none | turns an update into durable facts | reads conversation, challenge, rights and mode |
| Lifecycle handler (`processing/handler.rs`) | none | applies facts, queues effects | writes nearly every table |
| Processing worker (`processing/service.rs`) | the item in hand, connection retries, startup barrier | `process`, ticks | one task; a channel serialises the webhook's updates |
| Owner commands (`owner/*`) | mode, conversations | `/reset`, `/unblock`, `/dry_run`, queries | processing worker |
| Retention (`retention/service.rs`) | none | expire challenges and blocks, purge history | ticks of the processing worker |
| Outbox worker (`telegram/outbox.rs`, `events/worker.rs`) | the row in hand | claim, check, call, settle | second task, same database; Telegram |
| Connection reconciliation (`storage/connection_candidate.rs`, `processing/service.rs`) | readiness gate, trusted connection, candidates | triggers, lookup, compare-and-swap | both workers read the gate |
| Owner claim (`owner/claim*.rs`, `storage/owner_identity.rs`) | claim token, claim file, Owner | claim, publish, retire | processing worker, file system |
| Key material (`storage/key_material.rs`, `installation.rs`, `verification/upgrade.rs`) | master seed, pinned bot, key version of challenges | draw once, pin or verify, derive, sign again | startup |
| Startup (`app.rs`), workers (`runtime_workers.rs`) | phases | migrate, gate, replay, register, serve, stop | everything |
| Webhook registration (`telegram/webhook_registration.rs`) | the webhook Telegram holds | `setWebhook` with retries | startup, Telegram |
| Health (`health.rs`) | none | `classify_readiness` | reads owner, trusted, candidates, guard; gates the outbox |
| Detection, arithmetic, parser, webhook, config, notifier | none or HTTP | pure functions and I/O | inputs of the above |

What is hard here:

* an update passes through three transactions (prepare, record, apply); a crash,
  a redelivery, a retention tick or the outbox worker may come in between;
* the outbox worker makes a remote call between its transactions, and no
  transaction spans a call: what it read at the claim may be gone at settlement;
* the Bot API may execute a request and lose the answer;
* Telegram redelivers updates, and may deliver them out of order;
* every start and every lifecycle trigger closes a gate that must open again;
* a connection Telegram no longer knows is deleted with every conversation of it,
  under updates that are recorded and actions that are claimed;
* a start is a dozen steps over a database, a directory and Telegram, and the
  next start works with what the last one left of them;
* the state of a connection is asked of Telegram between two transactions, while
  updates, the outbox worker, a claim or a revoked token change what was read.

What makes each part correct: a contact moves only along the automaton and loses
a challenge after exactly `max_attempts` wrong answers; VERIFY_PENDING and an open
challenge come and go together (otherwise the contact is locked out by an error);
an update takes effect once; whatever is recorded can be replayed; a reply of the
Owner keeps the chat ACTIVE and is never cleaned up; a prompt is shown again only
where its sending looked like a failure, and else never forgotten; retries are bounded; queues drain and the gate opens;
it opens only on rights Telegram grants, for a connection of the Owner that is
newer than any trusted or ruled out before; a start accepts whatever an earlier one
left behind, the claim code is whole or absent, is gone once it was used, and
Telegram signs with the secret the endpoint expects.
The list of hazards behind these properties is in `PROJECT.json`.

## 2. The modules

| Module | Models |
| --- | --- |
| `Store` | the tables both workers share and the repository operations on them |
| `Processing` | the processing worker: preparation, recording, application, Owner commands, retention, triggers, crash, restart and replay |
| `Outbox` | the outbox dispatcher: claim, rights check, challenge lookup, call, settlement |
| `Service` | both workers over one database, and a crash that stops both |
| `Reconciliation` | connection reconciliation: triggers, candidates, generations, the Owner's claim, startup, the readiness gate, the outbox worker's disable, with the lookup between snapshot and commit |
| `TrustedOwner` | the abstract specification: one Owner for good, one connection at a time, only newer ones |
| `ContactGate` | the abstract specification: the lifecycle one contact experiences |
| `Installation` | starts over one data directory: database, seed, bot pin, Owner, claim-code files call by call, challenge keys, webhook registration, claim, stop |
| `MCProcessing`, `MCService`, `MCReconciliation`, `MCInstallation` | constants of the small instances |
| `ProcessingProofs` | theorem: types of `Processing`; lemmas about `Store` |
| `LifecycleProofs` | theorems: challenges, states and the event in flight |
| `GateProofs` | theorem: `Processing` implements `ContactGate` |
| `InboxProofs` | theorems that hold under every fault: references, attempts, idempotency keys |
| `LedgerProofs` | theorems: the Owner's messages, cleanup and ACTIVE |
| `ServiceProofs` | theorems about both workers together |
| `ReconciliationProofs` | theorems of `Reconciliation`, and that it implements `TrustedOwner` |
| `InstallationProofs` | theorems of `Installation` |

**Store.** One variable per column group that the lifecycle reads. `conversation`
is the state column, with `"NONE"` for a chat without a row; `ledger` is who sent
a message or that it was deleted; `challenge`, `attempts`, `lapsed` and `prompt` are
the columns of `challenge` (a challenge is named after the update that created
it); `processed` and `facts` are the inbox; `outbox` is the queue in id order;
`mode` is the destructive mode; `global`, `trust`, `enabled`, `rights` are the
readiness gate and the trusted connection. `Transition` is the automaton's table.

**Processing.** `Prepare`, `Record` and `Apply` are the three transactions of
`ProcessingEngine::process`; `task` is what the worker holds in memory between
them and `phase` the life of the process. `Prepare` computes the facts
(`PrepareInbound`, `SafeOutcome`), `ApplyFacts` has one disjunct per
`PreparedAction` of the handler, `Applicable` says that no repository call and no
transition of it returns an error; `ApplyRefused` is the rollback otherwise.
`Duplicate` and `Redeliver` are the receipts of a redelivered update. The
commands are one transaction each. `ExpireDueState` and `PurgeHistory` are the
retention ticks, which the worker's `select!` loop runs only between two updates.
`RecordTrigger`, `ReconcileTrigger`, `ReconcileStartup` and `PublishReady` are the
gate. `TriggerNotFound` and `StartupNotFound` retire the connection: `ForgetConnection`
in `Store` deletes it and, by the cascades of the schema, conversations, ledger and
challenges, but neither the inbox nor the outbox. `Restart`, the startup lookup
(phase STARTING, before the replay, as in `app.rs`), `Recover`, `StartupFails` and
`Serve` are the start. No new connection is made after a retirement; that is
`Reconciliation`.

**Outbox.** `disp` is the row in the dispatcher's hands and the transaction it has
reached. `Claim` takes the first due row, and notes when the row was already
claimed (a crash before settlement); `EnsureRight` and `LoadChallenge` are the
reads of `execute`; `Call` is the request, whose outcome is one of the classes
`handle_telegram_failure` distinguishes and which Telegram may have carried out
although it is reported as a failure (`Ambiguous`): after a timeout, but also after
any transport or protocol error, rate limit or server error (RETRYABLE), since the
client reports every broken or undecodable answer as one of these (`CarriedOut`);
`FinishSuccess`, `FinishUncertain`,
`FinishPermanent` and `ScheduleRetry` are the settlements, and `SettlementFails`
the case that the row, its challenge or its connection is gone meanwhile
(`Vanished`). `delivered` is what the contact sees, with what the worker was told:
for every challenge, the answers to the calls that showed its prompt. It exists
only in the model, for the properties.

**ContactGate** has a contact's state and the wrong answers given to the challenge
at hand. `Processing` implements it under the mapping in `Gate`: a missing row is
NEW, and the wrong answers are `attempts_used` of the open challenge.

**Reconciliation.** `owner`, `trusted`, `cand`, `guard` and `global` are the five
tables of the subsystem; `trigger` has the lifecycle updates, from their dispatch
by Telegram to their `processed_update` row; `startup` and `job` are the worker's
memory, `tg` and `now` Telegram's own view. Every reconciliation is three steps: a
snapshot of the revisions (`BeginTrigger`, `BeginStartup`, `BeginClaim`), the answer
(`Answered`, `AnsweredOtherwise`, `LookupFails`, `LookupUnauthorized`), and a commit
(`CommitTrigger`, `TriggerNotFound`, `CommitStartup`, `StartupNotFound`,
`CommitClaim`, ...). `Reconcile` is `reconcile_authoritative_trusted_connection`:
an answer installs a newer connection, confirms the trusted one, or disqualifies
two of the same second; `Accepts` collects the compare-and-swap. `Conflicting` is
what a refused startup answer still writes; on the trigger path the same writes
are rolled back (`Retry`). `Disable` is the outbox worker's
`disable_business_connection`. `Restart` is `app.rs` up to the startup lookup,
`Shutdown` the fatal stop after a revoked token. `ClassifyReadiness` is `health.rs`
over these tables. `job.overtaken` is a ghost.

**Installation.** `pc` is the step of `prepare_runtime`, `bind`, `reconcile` and
`serve` this start has reached and `mem` what the process holds (seed, claim code,
webhook secret, attempts); `exit` says why the last start ended. `db` has the rows
that matter: seed, pinned bot, Owner, and the keys that open challenges are signed
with. The directory is what makes the claim file hard, so it is modelled call by
call: `dir` maps the two names to inodes as running processes see them, `kept` to
the inodes a name may have after a power loss, and `inode` holds how much was
written, by whom it is owned and whether it was synced. `CreateAndPublish`,
`RetireAfterClaim` and `ReconcileUnclaimed` are the sequences of calls of
`claim_file.rs`; `todo` is what is left of one and `Syscall` performs its next call,
so that `Crash`, `PowerLoss` and `StepFails` come between any two. `SafeEntries` is
`inspect_entry` and `validate_pair`. `Register`, `RegistrationUnanswered` and
`RegistrationRefused` are the attempts of `reconcile_webhook`; a lost answer may be
carried out at any later time (`LateRegistration`). `Claim`, `FinishOwnerClaim` and
`Retired` are the claim as the files see it.

**TrustedOwner** has the bound Owner, the holder of the trust and the generation a
new connection has to exceed; `Reconciliation` implements it with
`mark <- Max({owner.floor, trusted.date})`.

### Abstractions

* A message, a verdict and an answer are members of small sets; texts are tags.
  Detection, answer evaluation and parsing are inputs (`Verdict`, `Answer`,
  `Events`). An edit names a message of its chat, a deletion any set of them.
* Time is nondeterministic: a challenge may lapse at any moment (`Lapse`), a block
  may be due at any tick, the purge age is a message number, a RETRY row may or
  may not be due (`MayWait`).
* A transaction is atomic because the pool holds one connection. `state_version`
  is read and written inside one transaction and cannot conflict, so it is left
  out. In `Processing` the lookup of a connection and its compare-and-swap are one
  step; `Reconciliation` has them apart.
* In `Reconciliation`, enabled and the rights are one set, `Grant`; a connection
  keeps its id, user and date unless the fault `inconsistent` lets one on record
  report otherwise; the answer names the id asked for (`client.rs` checks it);
  retries may be due at any time; a candidate may age past seven days at any
  time; the revision of the global state, which only the worker changes, the
  legacy CONNECTION_CHANGED events, the chat promotion by Owner commands, and
  what a replacement does to outbox and mode are left out.
* In `Installation` a derived key is the seed, or seed and bot, it is derived from,
  and a code has three lengths. Assumed of the environment: SQLite's commits are
  durable; an unsynced file keeps a prefix of what was written; the loss of an
  unsynced change of owner takes the later writes along (metadata is journaled in
  order); what the operator removes stays removed; entropy does not repeat; a
  registration under way is over before the operator sets up a new database; one
  process at a time uses the directory. `Root` says whether the service is root in
  a directory of another user, the case in which files change hands. Entries made
  by others (symlinks, further links, other modes) are not inputs. The startup
  lookup and the replay lie between `InitializeOwner` and `UpgradeChallenges`; they
  are in the other modules.
* In `Processing` and `Service` one connection is installed at first and its Owner
  claimed; the key of open challenges matches the verifier, which is
  `ChallengesAnswerable` of `Installation`.
* A row removed by `/reset` becomes a DELETED placeholder, so that ids are never
  reused; a deletion of many messages is one row (the code cuts it in batches of
  100); a deleted ledger row forgets its sender, which nothing reads any more.
* Audit events, samples, first-contact notices and the purges of audits, settled
  outbox rows and old updates are left out. An update that was never recorded and
  is redelivered is a fresh `Prepare`.

## 3. The runs

Deadlock is checked in all of them. Numbers are distinct states.

| Run | Checks | Size |
| --- | --- | --- |
| `lifecycle` | one contact, every kind of update and command, crashes: `TypeOK`, `ChallengeMatchesState`, `SpentMeansClosed`, `ActiveIffOwnerReply`, `CleanupSparesOwner`, `RecordedStaysApplicable`, `OneInFlight`, and the refinement `ImplementsGate` | 239 K |
| `two_chats` | two contacts, lifecycle triggers, rights that come and go, a connection that is retired, crashes: `ChallengeRows`, `ImplementsGate`, and the liveness of the worker, `RecordedGetApplied` and `GateReopens` | 68 K |
| `faults` | storage failures, updates out of order, edits of what is deleted, crashes: `PendingHasChallenge`, `AttemptsAccounted`, `EffectsOnce` | 773 K |
| `service` | both workers, crashes, local failures anywhere, answers that are lost or look like failures, retirement at a start: `ServiceTypeOK`, `NoSilentPrompt`, `NeverReopens` | 1.54 M |
| `outbox` | every reply of Telegram, crashes: `RetryBudget`, `ShownOncePerAttempt`, `RepeatedOnlyOnFailure`, `NoSilentPrompt`, `OutboxDrains` | 347 K |
| `reconciliation` | two connections, a new and an upgraded database, every fault: `ConnTypeOK`, `OpenMeansGranted`, `PendingHasCause`, `NoContradiction`, `DisableSticks`, `ImplementsTrust`, `TriggersSettle`, `GateOpens` | 136 K |
| `installation` | a new and an upgraded installation, four faults of any kind: `InstTypeOK`, `LeftoversAccepted`, `PublishedCodeWorks`, `FilesFollowOwner`, `WebhookAccepted`, `OneBotPerSeed`, `ChallengesAnswerable`, `NoCodeAfterClaim`, `ComesUp` | 119 K |

Five further runs violate what the repository says of itself (section 5).

### Bounds

`MaxUpdate` bounds the updates of a behaviour. Three updates are enough for a
challenge, an answer to it and a third event between or after them, and with
`MaxAttempts = 2` for the exhaustion of a challenge; with two contacts
`MaxAttempts = 1` leaves room for the other one. The code's `max_attempts` is 3;
the invariants compare with
the constant, are proved for every value of it, and two attempts already have a
first, a last and a superfluous answer. `MaxRetries` stands for the six entries of
`RETRY_SECONDS`; in `outbox` two have a first, a last and an exhausted retry, and
let one prompt be shown three times; `service`, which is about the second update,
crashes and retirement, has none: there a failure that looks retryable is permanent
at once. (With one retry, local failures and `/reset`, but neither crashes nor Owner
replies, the prompt properties were explored on 942 K states.) `MaxRows` cuts
the one unbounded chain of the code: an Owner alert that Telegram refuses for
missing rights raises another alert. It bounds only that refusal. Faults are
constants (`Fault`), so that each run says which ones it allows. `processed` is
never emptied in the model, so the updates of a run are used up once.

In `Reconciliation`, `MaxTrigger = 2` lifecycle updates connect two connections, or
connect and withdraw one; `MaxDate = 2` makes them of the same second or not;
`MaxCandidates = 1`, for the 256 of the code, lets the second candidate overflow;
`MaxRevision` stops crashes, disabling, revoked tokens and conflicting answers once
the trusted row has changed that often (each of them raises its revision, which
has no bound of its own). The safety properties were also explored with a second
right (247 K states) and, with fewer faults, with three triggers (1.8 M) and three
connections of two users (5.6 M).

In `Installation`, `MaxFaults = 4` allows, for example, a crash in a publication, a
power loss in its repair, a lost registration and a failed retirement in one
behaviour; three inodes are one more than the two names can hold, for the
one a power loss may bring back; `Attempts = 2`, for the seven of the code, has a
retry and a last attempt; two seeds and two bots let the operator start over once
and exchange the token.

### Fairness

Weak fairness of: the processing worker's pending turn (`ProcessingTurn`: the task
awaits local SQLite only), the replay (`RecoveryTurn`), `Restart` (the container is
run under a restart policy), the connection lookups (`StartupLookup`,
`TriggerLookup`: retried from a 250 ms tick; assumes that Telegram answers one in
the end), `PublishReady` (same tick) and the outbox worker's loop (`OutboxStep`, a
250 ms poll; assumes that every call ends, with whatever answer: the client sets no
timeout for Business calls, `client.rs:175`, so a peer that stays silent for ever
stalls the code where the model goes on). Nothing is assumed of crashes, arrivals, commands, retention, or of
what Telegram answers. The liveness properties are conditional on a process
that stays up in the end, `<>[](phase # "DOWN")`: a process that crashes for ever
owes nothing.

`FairConnSpec` adds strong fairness where lookups compete for the one worker:
`BeginTrigger(u)` and `BeginStartup` (a retry table served by a 250 ms tick; the
`select!` is biased towards new updates, so this assumes that the queue is empty
again and again) and `Answered` (Telegram answers, truthfully, one of infinitely
many lookups; it may fail or contradict itself in between). The commits, `Restart`,
`Shutdown` and `PublishReady` are weakly fair. `GateOpens` makes an exception for a
start whose connection was replaced, which is the run `superseded`, and for what
is left of old candidates, which is the run `unready`.

`FairInstSpec` is weakly fair in the steps of a start and of a claim taken together
(`Step`): the process runs, and `restart: unless-stopped` of `compose.yml` starts it
again, also after a start that failed. Nothing is assumed of failures, claims,
late registrations or the operator; failures are finitely many (`MaxFaults`), as
`ComesUp`, which speaks of the time after them, requires.

## 4. The proofs

Assumptions: the `ASSUME`s of the modules and nothing else. `MaxUpdate` is a
natural number, `ChatOf` a function into `Chat`, `MaxAttempts` positive, verdicts,
answers, modes and right sets are of their kinds (`Store`, `Processing`);
`MaxRetries`, the length of `RETRY_SECONDS`, is a natural number, replies are of the
known classes, and a request that was refused in so many words (missing rights, a
rejection, "not modified") was not carried out (`AmbiguityAssumption`), while a
timeout and every failure the code retries may hide one that was (`Outbox`); every connection has one user, `MaxDate` is
positive and the other bounds are natural numbers (`ConnectionConstants`); a start
makes at least one registration attempt, and seeds, bots and inodes differ from
their null values (`InstallationConstants`). `Chat` may be infinite; updates,
traffic and faults are arbitrary unless a theorem names a fault it excludes.

Every invariant, action property and refinement that a passing run checks is
stated by a theorem. The six liveness properties stay with TLC, because fairness
and ENABLED are out of the prover's reach: `GateOpens`, `TriggersSettle`,
`RecordedGetApplied`, `OutboxDrains`, `ComesUp` and `GateReopens`.

| Theorem | States | Excludes |
| --- | --- | --- |
| `TypeCorrect` | `TypeOK` | |
| `LifecycleInvariant` | the inductive `LifecycleInv` | storage |
| `ChallengeMatches` | `ChallengeMatchesState` | storage |
| `SpentIsClosed` | `SpentMeansClosed` | storage |
| `OneAlwaysInFlight` | `OneInFlight` | storage |
| `RowsAlwaysAgree` | `ChallengeRows` | storage |
| `RecoveryNeverRefused` | `RecordedStaysApplicable` | storage, retire |
| `ProcessingImplementsGate` | `ImplementsGate` | storage |
| `InboxInvariant` | the inductive `InboxInv` | |
| `PendingAlwaysHasChallenge` | `PendingHasChallenge` | |
| `AttemptsAlwaysAccounted` | `AttemptsAccounted` | |
| `EffectsAlwaysOnce` | `EffectsOnce` | |
| `CleanupAlwaysSparesOwner` | `CleanupSparesOwner` | storage |
| `ActiveAlwaysMeansReply` | `ActiveIffOwnerReply` | storage, late_edit |
| `ServiceTypeCorrect` | `ServiceTypeOK` | |
| `ServiceInvariant` | the inductive `ServiceInv` | |
| `RetryBudgetKept` | `RetryBudget` | |
| `ClosedNeverReopens` | `NeverReopens` | |
| `PromptRepeatedOnlyOnFailure` | `RepeatedOnlyOnFailure` | |
| `PromptShownPerAttempt` | `ShownOncePerAttempt` | |
| `PromptNeverSilent` | `NoSilentPrompt` | |
| `ServiceImplementsGate` | `ImplementsGate` for both workers | storage |
| `ServiceSparesOwner` | `CleanupSparesOwner` for both workers | storage |
| `ServiceActiveMeansReply` | `ActiveIffOwnerReply` for both workers | storage, late_edit |
| `ConnInvariant` | the inductive `ConnInv` | |
| `ConnTypeCorrect` | `ConnTypeOK` | |
| `NeverContradictory` | `NoContradiction` | |
| `PendingAlwaysHasCause` | `PendingHasCause` | |
| `OpenAlwaysGranted` | `OpenMeansGranted` | |
| `DisableAlwaysSticks` | `DisableSticks` | |
| `ReconciliationImplementsTrust` | `ImplementsTrust` | |
| `InstInvariant` | the inductive `InstInv` | |
| `InstTypeCorrect` | `InstTypeOK` | |
| `LeftoversAlwaysAccepted` | `LeftoversAccepted` | |
| `PublishedCodeAlwaysWorks` | `PublishedCodeWorks` | |
| `FilesAlwaysFollowOwner` | `FilesFollowOwner` | |
| `WebhookAlwaysAccepted` | `WebhookAccepted` | |
| `SeedsKeepTheirBot` | `OneBotPerSeed` | |
| `ChallengesAlwaysAnswerable` | `ChallengesAnswerable` | |
| `ClaimedNeverPublishes` | `NoCodeAfterClaim` | |

The exclusions are where the code itself gives way (section 5): an event that
failed to apply is overtaken (storage), a recorded event loses its connection
(retire), and an edit revives a deleted reply (late_edit).

**Types.** The interesting conjuncts of `TypeOK` are `attempts <= MaxAttempts`, which
rests on the guard of `increment_challenge_attempts`, and that no queued deletion
is empty.

**Lifecycle.** `LifecycleInv == TypeOK /\ ChallengeRows /\ OneInFlight`. None of the
properties drawn from it is inductive alone. Applying an event keeps challenges
and states in step only if its facts still describe the database (an INCORRECT
answer needs the same open challenge with the same attempts left, an exhausting
one the last attempt), and those facts were computed two transactions earlier.
`OneInFlight` says why that is so: at most one event is between recording and
application, it is the one in the worker's hands, and its facts are `Fresh`.
`PrepareFresh` shows that preparation makes them so, every other action either
requires an idle worker (so nothing is in flight, `QuietWhenIdle`) or leaves the
tables they depend on alone (`FreshKept`), a crash keeps the recorded event as the
only one to replay, and `ApplyDrains` that application leaves none. With storage
faults the argument breaks where the code does: an event that failed to apply
stays RECORDED while others pass it. A retirement deletes what the facts are
about (`RowsForgotten`), so a recorded event is `Fresh` only while the connection is
there or the process serves, where the event in hand was applied before any
lookup could begin (`FreshWhenApplied`).

**The gate.** The refinement needs `LifecycleInv`: a step of `Apply` is a move of
`ContactGate` because the facts are fresh, so a wrong answer counts against the
challenge that is open and the answer that exhausts it closes the gate. Every
other action leaves `conversation` and the attempts of open challenges alone, or is
one of the moves by name (a command, expiry, retirement).

**The inbox.** What holds under storage faults too cannot rest on freshness.
`InboxInv` is `TypeOK`, `InHand` (a prepared update is not yet recorded), `References` (facts
name a challenge of their own chat that was created), `ChallengesBorn` (a
challenge carries the id of the applied update that made it), `PendingHasChallenge`
and `AttemptsAccounted`. `EffectsInv` adds `RowsKeyed` (an outbox row is keyed by an
update that was applied, and the expiry of a challenge is announced only once it
is closed) and `EffectsOnce`. Counting is
done by one fact about cardinality: the set of applied wrong answers gains one
member in exactly the steps that increment.

**The ledger.** A cleanup is queued only for a blocked chat, and without storage
faults a chat with an undeleted reply of the Owner is ACTIVE: so the ledger of the
chat holds none when the cleanup is written. `LedgerInv` (`LifecycleInv`,
`EffectsInv`, `LedgerRows`, `CleanupKnown`, `MessagesKnown`) makes that inductive:
what is listed under another sender was not written by the Owner, what a queued
cleanup names was on the ledger, and the chat an event in flight was prepared for
is still blocked. `ReplyInv` adds `ActiveMeansReply` and `RepliesKnown`, which a
late edit would break.

**Both workers.** The outbox worker opens no challenge, moves no contact and
records no update (`OutFrame`); of the rows it changes only the delivery columns
and adds only alerts. So the invariants of the worker next to it carry over
(`ProcessingGrows`), and a step of the dispatcher is a stutter of `ContactGate`.
`Budgets` bounds the retries of every row, the one in hand included. The prompt
claims need what the contact has seen related to the row it came from. A prompt
stands (`Stands`) when the last call that showed it did not look like a failure, so
was answered or timed out. `PromptInv` says that
a prompt that was shown has a row (`ShownHasRow`), that the dispatcher has no
result before the call (`NoAnswerYet`), and that the row of a prompt that stands
is marked as claimed while it is live and is not about to be called (`NotAgain`):
whoever claims it again knows it was interrupted and settles it as UNCERTAIN. So a
call only ever repeats a prompt that does not stand, which is what
`RepeatedOnlyOnFailure` needs to be inductive. `AttemptInv` adds `Counted`: a call
that is on its way is made under a claim that counted an attempt no earlier call
used up. `MemoryInv` adds `Remembered`, by which the row or the challenge records
every prompt that was shown; a row taken away by `/reset` goes with its challenge
(`Removed`). These three hold for every choice of ambiguous failures; that a prompt
is shown once would not.

**Reconciliation.** `ConnInv` is types of the tables, triggers, Telegram's view,
process and job (`TablesOK`, `TriggersOK`, `TelegramOK`, `ProcessOK`, `JobOK`),
`InFlight`, `Ownership` (what is trusted or a candidate is the Owner's; before a
claim nothing is trusted), `ConfirmedGranted` (up to a lifecycle update still
under way, a confirmed connection has what Telegram grants) and `PendingHasCause`.
`InFlight` is the heart: the lookup is outside any transaction, and between
snapshot and commit the trusted connection stays the one the job found, unless the
outbox worker disables it; that raises its revision, so the commit notices. The
refinement maps the Owner, the trusted connection and the generation a new one has
to exceed.

**Installation.** `InstInv` relates the calls still in `todo` to the directory now
(`dir`), the directory a power loss would leave (`kept`) and the files themselves
(`inode`). `Progress` says what a start has in memory once it has come so far,
above all that seed, code and secret are the database's; `Plan` what holds before
each remaining call of `create_and_publish` or `retire` (the code is linked only
when it is whole, owned by the directory's owner and on disk); `Entries` that
whatever a power loss keeps is something the next start accepts.
`FilesFollowOwner` and `LeftoversAccepted` follow the calls to their end. `Keys`
relates challenges to seeds; `Webhooks`, `WebhookAccepted` and `OneBotPerSeed`
relate the pin, the secret at Telegram and the registrations that may still come
through in `late`. Any number of faults is covered; TLC's runs have a few.

## 5. What the runs show that the repository does not say

| Run | Shows |
| --- | --- |
| `orphaned_event` | a start that finds its connection gone deletes it before it replays what was recorded for it; the replay is refused then, and at every later start |
| `stuck_outbox` | an action claimed when its connection is deleted can never be settled and blocks the queue, the keyless answers to the Owner included |
| `unready` | after an overflow of candidates the readiness probe, and with it every Business action, stays unavailable although the Owner's one fresh connection is confirmed |
| `spurious_disable` | a trigger between claim and rights check disables a healthy connection and forces dry-run |
| `superseded` | a start that could not look its connection up, and then trusts a newer one, never becomes READY |

The passing runs exclude these causes by their constants or their statements:
`superseded` and `unready` are the exceptions in `GateOpens`; `orphaned_event` and
`stuck_outbox` need the fault `retire`, which `lifecycle` and `outbox` do not have;
`two_chats` has it, and a start that fails for ever is no process that stays up.

Four more things the model contains, without a run of their own; the first two are
in the passing runs, whose properties hold of them:

* a prompt that was delivered, and whose answer was lost in a broken connection or
  could not be decoded, is sent again, up to the length of `RETRY_SECONDS`, or given
  up as a permanent failure (`outbox.rs:584`, `client.rs:199-210`); the test
  `ambiguous_challenge_send_is_not_repeated_after_restart` (`tests/e2e_restart.rs:140`)
  covers the timeout only. `RepeatedOnlyOnFailure`, `ShownOncePerAttempt` and
  `NoSilentPrompt` say exactly where this can happen and how often; "at most once" is
  false of the code;
* a message that is no number consumes an attempt (`preparer.rs:250`, `NON_NUMERIC`
  in `Answer`); README_en.md:43-44 says it does not;
* a contact blocked for wrong answers has its messages deleted without any SPAM
  verdict (`preparer.rs:160`); README_en.md:24 says only SPAM can lead to deletion;
* an event whose application failed once on a storage error may be overtaken and
  become inapplicable (fault `storage`), with the same end as `orphaned_event`
  (`events/worker.rs:109`).

An edit of an Owner reply delivered after the reply's deletion (fault `late_edit`)
makes the chat ACTIVE without a reply, so `ActiveIffOwnerReply` is checked without
that fault. In `Installation` a link or unlink that a crash left unsynced is not
synced by the next start when the entries look right; a power loss then may undo
it, which `kept` shows and the following start repairs.

## 6. Not modelled, and the plan

Next:

1. `RecoveryNeverRefused` for both workers: it needs that the outbox worker keeps
   the facts of the event in flight fresh, challenge prompts excepted.
2. SQLite failures in `Reconciliation`, with its theorems.
3. A new connection after a retirement in `Processing`.

Not modelled: the purges of audits, settled outbox rows and old updates, which
remove what no other operation reads (an unapplied update older than a week
excepted, see the hazards); the detector and the generation of arithmetic
expressions, pure functions of text and random numbers without state; the
new-contact notifier, a lossy channel that nothing depends on; the legacy
CONNECTION_CHANGED events.

Left out for good: HTTP, JSON, Unicode normalisation, cryptography, file
modes, message wording and logging. `PROJECT.json` lists every part with its
status.
