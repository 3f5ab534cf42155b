--------------------------- MODULE Reconciliation ---------------------------
(***************************************************************************)
(* Connection reconciliation: lifecycle updates are only triggers; the     *)
(* worker notes the revisions of what it is about to change, asks Telegram *)
(* without a transaction, and commits the answer if the revisions still    *)
(* hold.  Around it: the Owner's claim, startup, and the outbox worker,    *)
(* which may disable the connection while an answer is under way.          *)
(***************************************************************************)
EXTENDS Integers, FiniteSetsExt

CONSTANTS
    User, NoUser,
    Connection,      \* connection ids, ordered as the code orders them
    UserOf,          \* the Business user of a connection
    Grant,           \* "ENABLED" and the rights of a connection
    Origin,          \* kinds of database found: "FRESH", "LEGACY"
    Fault,           \* subset of {"crash", "lookup", "auth", "disable", "inconsistent"}
    MaxDate,         \* bound: seconds of Telegram's clock
    MaxTrigger,      \* bound: lifecycle updates sent by Telegram
    MaxRevision,     \* bound: state_revision reached by faults
    MaxCandidates    \* the 256 of prune_connection_candidates

Update == 1..MaxTrigger
Dates == 1..MaxDate
Enabled == {"ENABLED"}

ASSUME ConnectionConstants ==
    /\ Connection \subseteq Nat \ {0}
    /\ NoUser \notin User
    /\ UserOf \in [Connection -> User]
    /\ Enabled \subseteq Grant
    /\ MaxDate \in Nat \ {0} /\ MaxTrigger \in Nat
    /\ MaxRevision \in Nat /\ MaxCandidates \in Nat

VARIABLES
    owner,     \* owner_identity
    trusted,   \* the row of business_connection, or NoTrust
    cand,      \* business_connection_candidate: connection id -> row
    guard,     \* business_connection_candidate_guard
    global,    \* telegram_reconciliation_state
    trigger,   \* Telegram's lifecycle updates and their processed_update rows
    phase,     \* life of the process
    startup,   \* startup_pending_connection_id, or 0
    job,       \* what the processing worker holds across a lookup
    tg,        \* Telegram's own view of every connection
    now        \* Telegram's clock
tables == <<owner, trusted, cand, guard, global>>
process == <<phase, startup, job>>
telegram == <<tg, now>>
connVars == <<tables, trigger, process, telegram>>

NoTrust == [id |-> 0, user |-> NoUser, date |-> 0, grant |-> {}, rev |-> -1, state |-> "NONE"]
NoOwner(s) == [state |-> s, user |-> NoUser, floor |-> 0, source |-> "NONE", since |-> 0]
Idle == [kind |-> "NONE", pc |-> "IDLE", overtaken |-> FALSE]
NoAnswer == [user |-> NoUser, date |-> 0, grant |-> {}, chat |-> FALSE]
NoRows == [c \in {} |-> NoAnswer]

-----------------------------------------------------------------------------
(***************************************************************************)
(* Reading the tables.                                                     *)
(***************************************************************************)
Claimed == owner.state = "CLAIMED"
Recorded(u) == trigger[u].status = "RECORDED"
RevisionOf(c) == IF c \in DOMAIN cand THEN cand[c].rev ELSE -1
CandidatesOf(u, rows) == {c \in DOMAIN rows : rows[c].user = u}
FreshCandidates(u) == {c \in CandidatesOf(u, cand) : ~cand[c].aged}
Without(rows, S) == [c \in DOMAIN rows \ S |-> rows[c]]

\* Mutant: the floor left by retired connections is not consulted.
FloorForgotten(c) ==
    Max({guard.overflow} \cup {IF trusted.id = c THEN 0 ELSE trusted.date}
          \cup {cand[x].date : x \in DOMAIN cand \ {c}})
\* Nothing at or below this generation may be trusted next.
GenerationFloor(c) ==
    Max({owner.floor, guard.overflow}
          \cup {IF trusted.id = c THEN 0 ELSE trusted.date}
          \cup {cand[x].date : x \in DOMAIN cand \ {c}})

Snapshot(c) ==
    [cand |-> RevisionOf(c), holder |-> trusted.id, rev |-> trusted.rev,
     guard |-> guard.rev, owner |-> owner]

-----------------------------------------------------------------------------
(***************************************************************************)
(* Candidates.  Once the guard is up it follows every candidate written.   *)
(***************************************************************************)
RaiseGuard(g, date) ==
    [overflow |-> Max({g.overflow, date}), rev |-> g.rev + 1]
FollowGuard(g, date) == IF g.overflow = 0 THEN g ELSE RaiseGuard(g, date)

\* The newest rows, up to the limit, in the order (date, id).
Newest(rows) ==
    {c \in DOMAIN rows :
        Cardinality({x \in DOMAIN rows :
            \/ rows[x].date > rows[c].date
            \/ rows[x].date = rows[c].date /\ x > c}) < MaxCandidates}

Prune(rows, g) ==
    LET kept == Without(rows, {c \in DOMAIN rows : rows[c].aged})
    IN  IF Cardinality(DOMAIN kept) <= MaxCandidates
        THEN [rows |-> kept, guard |-> g]
        ELSE [rows |-> [c \in Newest(kept) |-> kept[c]],
              guard |-> RaiseGuard(g, Max({kept[c].date : c \in DOMAIN kept}))]

\* Mutant: the revision is off by one.
RevisionTooLow(a, rev) ==
    [user |-> a.user, date |-> a.date, grant |-> a.grant, rev |-> rev - 1, aged |-> FALSE]
Candidate(a, rev) ==
    [user |-> a.user, date |-> a.date, grant |-> a.grant, rev |-> rev, aged |-> FALSE]
Put(rows, c, row) == [x \in DOMAIN rows \cup {c} |-> IF x = c THEN row ELSE rows[x]]

\* A known id that reports another user or generation is dropped.
Written(c, a) ==
    IF c \in DOMAIN cand /\ (cand[c].user # a.user \/ cand[c].date # a.date)
    THEN Without(cand, {c})
    ELSE Put(cand, c, Candidate(a, RevisionOf(c) + 1))

WriteCandidate(c, a) ==
    LET pruned == Prune(Written(c, a), FollowGuard(guard, a.date))
    IN  cand' = pruned.rows /\ guard' = pruned.guard

-----------------------------------------------------------------------------
(***************************************************************************)
(* The trusted row, and an authoritative answer job.answer about job.conn. *)
(***************************************************************************)
Row(c, a, rev) ==
    [id |-> c, user |-> a.user, date |-> a.date, grant |-> a.grant,
     rev |-> rev, state |-> "CONFIRMED"]
\* Mutant: the gate stays open.
LeaveOpen(row) == row
Gate(row) ==
    IF row.state = "CONFIRMED" THEN [row EXCEPT !.state = "PENDING", !.rev = @ + 1] ELSE row

\* Mutant: whoever owns the connection.
AnyUser == TRUE
OwnersAnswer == job.answer.user = owner.user
CandidateHolds == job.snap.cand = RevisionOf(job.conn)
GuardHolds == job.snap.guard = guard.rev
\* Mutant: the trusted row may have changed meanwhile.
AnyRevision == TRUE
SameRevision == job.snap.rev = trusted.rev
RevisionsHold == CandidateHolds /\ GuardHolds /\ SameRevision
Matching == job.snap.holder = job.conn

Installs ==
    /\ trusted.id # job.conn
    /\ trusted.id # 0 => trusted.date # 0
    /\ job.answer.date > GenerationFloor(job.conn)
Confirms == trusted.id = job.conn /\ trusted.date \in {0, job.answer.date}
Ambiguous == trusted.id \notin {0, job.conn} /\ trusted.date = job.answer.date
Accepts == OwnersAnswer /\ RevisionsHold /\ (Installs \/ Confirms \/ Ambiguous)

\* The Owner's chat, guessed by the upgrade, gives way to the one Telegram
\* reports with a trigger.
WithChat(o) ==
    IF job.kind = "TRIGGER" /\ job.answer.chat /\ o.source = "LEGACY_FALLBACK"
    THEN [o EXCEPT !.source = "BUSINESS_CONNECTION"] ELSE o

Install ==
    /\ trusted' = Row(job.conn, job.answer, job.snap.cand + 1)
    /\ cand' = Without(cand, {job.conn})
    /\ owner' = WithChat(owner)
    /\ UNCHANGED guard

Confirm ==
    /\ trusted' = Row(job.conn, job.answer, trusted.rev + 1)
    /\ cand' = Without(cand, {job.conn})
    /\ owner' = WithChat(owner)
    /\ UNCHANGED guard

\* Two connections of one generation: neither is trusted.
Disqualify ==
    /\ trusted' = NoTrust
    /\ cand' = Put(Put(cand, trusted.id, Candidate(trusted, RevisionOf(trusted.id) + 1)),
                   job.conn, Candidate(job.answer, RevisionOf(job.conn) + 1))
    /\ owner' = WithChat([owner EXCEPT !.floor = Max({@, job.answer.date})])
    /\ guard' = FollowGuard(guard, job.answer.date)

Reconcile ==
    /\ Accepts
    /\ \/ Installs /\ Install
       \/ Confirms /\ Confirm
       \/ Ambiguous /\ Disqualify

\* An answer that came too late can still take rights away.
Intersection ==
    LET both == trusted.grant \cap job.answer.grant
    IN  IF both = trusted.grant THEN trusted
        ELSE [trusted EXCEPT !.grant = both, !.rev = @ + 1]

\* What reconcile_same_trusted writes although it reports a conflict.
Conflicting ==
    IF trusted.id # job.conn \/ ~(OwnersAnswer /\ CandidateHolds /\ GuardHolds) THEN trusted
    ELSE IF ~SameRevision THEN Intersection
    ELSE [trusted EXCEPT !.grant = @ \ Enabled, !.state = "PENDING", !.rev = @ + 1]

\* The trusted connection does not exist any more; its generation, or for one
\* never dated the day the Owner was bound, is ruled out.
Retire ==
    IF trusted.id # job.conn
    THEN cand' = Without(cand, {job.conn}) /\ UNCHANGED <<owner, trusted>>
    ELSE /\ owner' = [owner EXCEPT !.floor =
                          Max({@, IF trusted.date = 0 THEN owner.since ELSE trusted.date})]
         /\ trusted' = NoTrust
         /\ UNCHANGED cand
Retires == trusted.id = job.conn => SameRevision

AuthFailed ==
    /\ global' = "AUTH_FAILED"
    /\ trusted' = IF trusted.id = 0 \/ (Enabled \cap trusted.grant = {} /\ trusted.state = "PENDING")
                  THEN trusted
                  ELSE [trusted EXCEPT !.grant = @ \ Enabled, !.state = "PENDING", !.rev = @ + 1]

-----------------------------------------------------------------------------
(***************************************************************************)
(* Telegram.  Every change of a connection sends a lifecycle update; one   *)
(* that is switched off may later be forgotten.                            *)
(***************************************************************************)
Send(c) ==
    \E u \in Update :
        /\ trigger[u].status = "NONE"
        /\ \A v \in 1..(u - 1) : trigger[v].status # "NONE"
        /\ trigger' = [trigger EXCEPT ![u] = [conn |-> c, status |-> "SENT"]]

Connect(c) ==
    /\ tg[c].date = 0
    /\ tg' = [tg EXCEPT ![c] = [date |-> now, grant |-> Grant, known |-> TRUE]]
    /\ Send(c)
    /\ UNCHANGED <<tables, process, now>>

Change(c, g) ==
    /\ tg[c].known /\ g # tg[c].grant
    /\ tg' = [tg EXCEPT ![c].grant = g]
    /\ Send(c)
    /\ UNCHANGED <<tables, process, now>>

Forget(c) ==
    /\ tg[c].known /\ Enabled \cap tg[c].grant = {}
    /\ tg' = [tg EXCEPT ![c].known = FALSE]
    /\ UNCHANGED <<tables, trigger, process, now>>

Tick ==
    /\ now < MaxDate
    /\ now' = now + 1
    /\ UNCHANGED <<tables, trigger, process, tg>>

\* Seven days pass since a candidate was last observed.
Age(c) ==
    /\ c \in DOMAIN cand /\ ~cand[c].aged
    /\ cand' = [cand EXCEPT ![c].aged = TRUE]
    /\ UNCHANGED <<owner, trusted, guard, global, trigger, process, telegram>>

-----------------------------------------------------------------------------
(***************************************************************************)
(* The processing worker: a trigger, the trusted connection of a start, or *)
(* a claim; each is a snapshot, a lookup and a commit.                     *)
(***************************************************************************)
Free == phase = "SERVING" /\ job = Idle
Begin(kind, pc, u, c, snap) ==
    job' = [kind |-> kind, pc |-> pc, update |-> u, conn |-> c, snap |-> snap,
            answer |-> NoAnswer, overtaken |-> FALSE]

\* Recording a trigger closes the gate of the connection it names.
RecordTrigger(u) ==
    /\ Free
    /\ trigger[u].status = "SENT"
    /\ trigger' = [trigger EXCEPT ![u].status = "RECORDED"]
    /\ trusted' = IF trusted.id = trigger[u].conn THEN Gate(trusted) ELSE trusted
    /\ UNCHANGED <<owner, cand, guard, global, process, telegram>>

\* On receipt, on redelivery, at the startup barrier and when a retry is due.
BeginTrigger(u) ==
    /\ Free
    /\ Recorded(u)
    /\ Begin("TRIGGER", "SNAPPED", u, trigger[u].conn, Snapshot(trigger[u].conn))
    /\ UNCHANGED <<tables, trigger, phase, startup, telegram>>

BeginStartup ==
    /\ job = Idle
    /\ \/ phase = "STARTING" /\ Begin("STARTUP", "SNAPPED", 0, trusted.id, Snapshot(trusted.id))
       \/ phase = "SERVING" /\ startup # 0 /\ Begin("STARTUP", "SNAPPED", 0, startup, Snapshot(startup))
    /\ UNCHANGED <<tables, trigger, phase, startup, telegram>>

\* A /claim with the right token, sent by user u at date d.
ClaimSnapshot(u, d) ==
    [user |-> u, date |-> d, global |-> global, guard |-> guard,
     rows |-> [c \in FreshCandidates(u) |-> cand[c]]]
BeginClaim(u, d) ==
    /\ Free
    /\ owner.state = "UNCLAIMED"
    /\ LET snap == ClaimSnapshot(u, d)
           sole == {c \in DOMAIN snap.rows : DOMAIN snap.rows = {c}}
       IN  IF global = "READY" /\ guard.overflow = 0 /\ sole # {}
           THEN Begin("CLAIM", "SNAPPED", 0, CHOOSE c \in sole : TRUE, snap)
           ELSE Begin("CLAIM", "FAILED", 0, 0, snap)
    /\ UNCHANGED <<tables, trigger, phase, startup, telegram>>

\* Every further claim is refused.
RejectClaim ==
    /\ Free
    /\ Claimed
    /\ UNCHANGED connVars

\* What getBusinessConnection may report.
Answers(c) ==
    [user : {UserOf[c]}, date : {tg[c].date}, grant : {tg[c].grant}, chat : BOOLEAN]

Answered ==
    /\ job.pc = "SNAPPED"
    /\ IF tg[job.conn].known
       THEN \E a \in Answers(job.conn) :
                job' = [job EXCEPT !.pc = "ANSWERED", !.answer = a]
       ELSE job' = [job EXCEPT !.pc = "NOT_FOUND"]
    /\ UNCHANGED <<tables, trigger, phase, startup, telegram>>

\* The conflicts the code provides for: a connection it has on record reports
\* another user or another date.
OnRecord(c) == IF Claimed THEN trusted.id = c /\ trusted.date # 0 ELSE c \in DOMAIN cand
AnsweredOtherwise ==
    /\ "inconsistent" \in Fault
    /\ job.pc = "SNAPPED" /\ tg[job.conn].known
    /\ OnRecord(job.conn) /\ trusted.rev < MaxRevision
    /\ \E u \in User, d \in Dates :
           job' = [job EXCEPT !.pc = "ANSWERED",
                              !.answer = [user |-> u, date |-> d, grant |-> tg[job.conn].grant,
                                          chat |-> TRUE]]
    /\ UNCHANGED <<tables, trigger, phase, startup, telegram>>

\* Lookups that time out, are rejected, or find the bot's token revoked.
Unanswered(result) ==
    /\ job.pc = "SNAPPED"
    /\ job' = [job EXCEPT !.pc = result]
    /\ UNCHANGED <<tables, trigger, phase, startup, telegram>>
LookupFails == "lookup" \in Fault /\ Unanswered("FAILED")
LookupUnauthorized ==
    "auth" \in Fault /\ trusted.rev < MaxRevision /\ Unanswered("AUTH")

-----------------------------------------------------------------------------
Applied == trigger' = [trigger EXCEPT ![job.update].status = "APPLIED"]
Release == job' = Idle /\ UNCHANGED <<phase, startup, telegram>>
OwnerUnchanged == job.snap.owner = owner

\* The trigger stays recorded and is retried; the transaction is rolled back.
Retry == UNCHANGED <<tables, trigger>>

TriggerUnclaimed ==
    /\ ~Claimed
    /\ IF OwnerUnchanged /\ CandidateHolds
       THEN WriteCandidate(job.conn, job.answer) /\ Applied /\ UNCHANGED <<owner, trusted, global>>
       ELSE Retry

\* Mutant: the comparison with the trusted id inverted.
TurnsAwayTrusted == Matching /\ (OwnersAnswer => RevisionsHold)
\* A connection that is not the Owner's, or too old, is turned away.
TurnedAway == ~Matching /\ (OwnersAnswer => RevisionsHold)
TriggerClaimed ==
    /\ Claimed
    /\ \/ OwnerUnchanged /\ Reconcile /\ Applied /\ UNCHANGED global
       \/ OwnerUnchanged /\ ~Accepts /\ TurnedAway /\ Applied /\ UNCHANGED tables
       \/ ~OwnerUnchanged /\ Retry
       \/ ~Accepts /\ ~TurnedAway /\ Retry

CommitTrigger ==
    /\ job.pc = "ANSWERED" /\ job.kind = "TRIGGER"
    /\ TriggerUnclaimed \/ TriggerClaimed
    /\ Release

TriggerNotFound ==
    /\ job.pc = "NOT_FOUND" /\ job.kind = "TRIGGER"
    /\ IF OwnerUnchanged /\ Retires
       THEN Retire /\ Applied /\ UNCHANGED <<guard, global>>
       ELSE Retry
    /\ Release

TriggerFailed ==
    /\ job.pc = "FAILED" /\ job.kind = "TRIGGER"
    /\ Retry
    /\ Release

\* Mutant: a failed startup lookup is forgotten.
ConvergesAnyway(yes) ==
    /\ startup' = 0
    /\ phase' = "SERVING"
    /\ job' = Idle
    /\ UNCHANGED <<trigger, telegram>>
\* The outcome of the startup lookup decides whether the gate still waits.
Converged(yes) ==
    /\ startup' = IF yes THEN 0 ELSE job.conn
    /\ phase' = "SERVING"
    /\ job' = Idle
    /\ UNCHANGED <<trigger, telegram>>

CommitStartup ==
    /\ job.pc = "ANSWERED" /\ job.kind = "STARTUP"
    /\ UNCHANGED global
    /\ \/ Reconcile /\ Converged(~Ambiguous)
       \/ /\ ~Accepts
          /\ trusted' = Conflicting
          /\ UNCHANGED <<owner, cand, guard>>
          /\ Converged(FALSE)

StartupNotFound ==
    /\ job.pc = "NOT_FOUND" /\ job.kind = "STARTUP"
    /\ UNCHANGED <<guard, global>>
    /\ IF Retires THEN Retire /\ Converged(TRUE)
                  ELSE UNCHANGED <<owner, trusted, cand>> /\ Converged(FALSE)

StartupFailed ==
    /\ job.pc = "FAILED" /\ job.kind = "STARTUP"
    /\ UNCHANGED tables
    /\ Converged(FALSE)

\* A revoked token stops the process: a start aborts, a served process is
\* told to shut down (Shutdown).
Unauthorized ==
    /\ job.pc = "AUTH" /\ job.kind # "CLAIM"
    /\ AuthFailed
    /\ job' = Idle
    /\ phase' = IF phase = "STARTING" THEN "DOWN" ELSE phase
    /\ UNCHANGED <<owner, cand, guard, trigger, startup, telegram>>

\* The claim binds the Owner whatever the lookup said, rules out everything up
\* to the claim, and trusts the claimant's only connection if it is unchanged.
CommitClaim ==
    /\ job.kind = "CLAIM"
    /\ job.pc \in {"ANSWERED", "NOT_FOUND", "FAILED", "AUTH"}
    /\ owner.state = "UNCLAIMED"
    /\ LET s == job.snap
           c == job.conn
           pruned == Prune(cand, guard)
           mine == CandidatesOf(s.user, pruned.rows)
           ceiling == {s.date, s.guard.overflow, guard.overflow}
                        \cup {s.rows[x].date : x \in DOMAIN s.rows}
                        \cup {cand[x].date : x \in CandidatesOf(s.user, cand)}
           promoted == /\ job.pc = "ANSWERED"
                       /\ s.global = "READY" /\ global = "READY"
                       /\ s.guard = pruned.guard /\ pruned.guard.overflow = 0
                       /\ DOMAIN s.rows = {c} /\ mine = {c}
                       /\ s.rows[c].rev = cand[c].rev
                       /\ Enabled \subseteq job.answer.grant
                       /\ job.answer.user = cand[c].user /\ job.answer.user = s.user
                       /\ job.answer.date = cand[c].date
       IN  /\ owner' = [state |-> "CLAIMED", user |-> s.user, floor |-> Max(ceiling),
                        source |-> "CLAIM", since |-> now]
           /\ trusted' = IF promoted THEN Row(c, job.answer, cand[c].rev + 1) ELSE trusted
           /\ cand' = IF ~promoted /\ pruned.guard.overflow = 0 /\ Cardinality(mine) >= 2
                      THEN [x \in mine |-> pruned.rows[x]] ELSE NoRows
           /\ guard' = pruned.guard
    /\ global' = IF job.pc = "AUTH" THEN "AUTH_FAILED" ELSE global
    /\ job' = Idle
    /\ UNCHANGED <<trigger, phase, startup, telegram>>

\* Mutant: readiness waits for a trusted connection.
ReadyNeedsTrusted ==
    /\ Free
    /\ startup = 0
    /\ global = "PENDING"
    /\ \A u \in Update : ~Recorded(u)
    /\ trusted.state = "CONFIRMED"
    /\ global' = "READY"
    /\ UNCHANGED <<owner, trusted, cand, guard, trigger, process, telegram>>

\* publish_ready_if_drained: after every trigger and at every tick.
PublishReady ==
    /\ Free
    /\ startup = 0
    /\ global = "PENDING"
    /\ \A u \in Update : ~Recorded(u)
    /\ trusted.state # "PENDING"
    /\ global' = "READY"
    /\ UNCHANGED <<owner, trusted, cand, guard, trigger, process, telegram>>

-----------------------------------------------------------------------------
(***************************************************************************)
(* The classifier behind GET /health/ready and the Owner's /health.        *)
(***************************************************************************)
Retained == {c \in DOMAIN cand : ~cand[c].aged}
Contradictory ==
    \/ ~Claimed /\ trusted.id # 0
    \/ Claimed /\ trusted.id # 0 /\ trusted.user # owner.user
    \/ Claimed /\ trusted.id = 0 /\ \E c \in Retained : cand[c].user # owner.user
CandidateHealth ==
    CASE guard.overflow # 0 \/ Cardinality(Retained) > 1 -> "ambiguous"
      [] guard.overflow = 0 /\ Cardinality(Retained) = 1 -> "candidate"
      [] OTHER -> "missing"
TrustedHealth ==
    CASE Enabled \cap trusted.grant = {} -> "disabled"
      [] trusted.grant = Grant -> "enabled"
      [] OTHER -> "rights_incomplete"
ClassifyReadiness ==
    IF global # "READY" \/ Contradictory
         \/ (trusted.id # 0 /\ (trusted.state # "CONFIRMED" \/ Retained # {} \/ guard.overflow # 0))
    THEN "unavailable"
    ELSE IF trusted.id = 0 THEN CandidateHealth ELSE TrustedHealth

-----------------------------------------------------------------------------
(***************************************************************************)
(* The other actors: the outbox worker, a crash, and the next start.       *)
(***************************************************************************)
Disable ==
    /\ "disable" \in Fault
    /\ phase = "SERVING"
    /\ trusted.id # 0 /\ trusted.rev <= MaxRevision
    /\ trusted' = [trusted EXCEPT !.grant = @ \ Enabled, !.rev = @ + 1]
    /\ job' = [job EXCEPT !.overtaken = job # Idle]
    /\ UNCHANGED <<owner, cand, guard, global, trigger, phase, startup, telegram>>

Stop ==
    /\ phase' = "DOWN"
    /\ startup' = 0
    /\ job' = Idle
    /\ UNCHANGED <<tables, trigger, telegram>>
Crash == "crash" \in Fault /\ phase # "DOWN" /\ trusted.rev < MaxRevision /\ Stop
\* The server ends and every worker is aborted where it stands.
Shutdown == phase = "SERVING" /\ global = "AUTH_FAILED" /\ Stop

\* normalize_startup_reconciliation, initialize_or_load_owner_identity; with
\* no trusted connection there is nothing to look up before serving.
Restart ==
    /\ phase = "DOWN"
    /\ global' = "PENDING"
    /\ trusted' = Gate(trusted)
    /\ owner' = IF owner.state # "PENDING" THEN owner
                ELSE IF trusted.id = 0 THEN NoOwner("UNCLAIMED")
                ELSE [state |-> "CLAIMED", user |-> trusted.user, floor |-> 0,
                      source |-> "LEGACY_FALLBACK", since |-> now]
    /\ phase' = IF trusted.id = 0 THEN "SERVING" ELSE "STARTING"
    /\ UNCHANGED <<cand, guard, trigger, startup, job, telegram>>

-----------------------------------------------------------------------------
\* A new database, or one of a version that did not date its connection.
ConnInit ==
    /\ owner = NoOwner("PENDING")
    /\ cand = NoRows
    /\ guard = [overflow |-> 0, rev |-> 0]
    /\ global = "READY"
    /\ trigger = [u \in Update |-> [conn |-> 0, status |-> "NONE"]]
    /\ phase = "DOWN" /\ startup = 0 /\ job = Idle
    /\ now = 1
    /\ \/ /\ "FRESH" \in Origin
          /\ trusted = NoTrust
          /\ tg = [c \in Connection |-> [date |-> 0, grant |-> {}, known |-> FALSE]]
       \/ \E c \in Connection :
          /\ "LEGACY" \in Origin
          /\ trusted = [id |-> c, user |-> UserOf[c], date |-> 0, grant |-> Grant, rev |-> 0,
                        state |-> "CONFIRMED"]
          /\ tg = [x \in Connection |-> IF x = c THEN [date |-> 1, grant |-> Grant, known |-> TRUE]
                                        ELSE [date |-> 0, grant |-> {}, known |-> FALSE]]

TelegramStep ==
    \/ \E c \in Connection : Connect(c) \/ Forget(c) \/ Age(c)
    \/ \E c \in Connection, g \in SUBSET Grant : Change(c, g)
    \/ Tick
TriggerStep ==
    \/ \E u \in Update : RecordTrigger(u) \/ BeginTrigger(u)
    \/ CommitTrigger \/ TriggerNotFound \/ TriggerFailed
StartupStep == BeginStartup \/ CommitStartup \/ StartupNotFound \/ StartupFailed \/ Restart
ClaimStep == CommitClaim \/ RejectClaim \/ \E u \in User, d \in 1..now : BeginClaim(u, d)
Lookup == Answered \/ AnsweredOtherwise \/ LookupFails \/ LookupUnauthorized
ConnNext ==
    \/ TelegramStep \/ TriggerStep \/ StartupStep \/ ClaimStep \/ Lookup
    \/ Unauthorized \/ PublishReady \/ Disable \/ Crash \/ Shutdown
ConnSpec == ConnInit /\ [][ConnNext]_connVars

(***************************************************************************)
(* Fairness: the worker is one task that goes on until its lookup is       *)
(* settled; Telegram answers a lookup in the end; every recorded trigger   *)
(* and the startup connection are taken up again from the retry table; the *)
(* process is restarted.                                                   *)
(***************************************************************************)
Settle ==
    \/ CommitTrigger \/ TriggerNotFound \/ TriggerFailed
    \/ CommitStartup \/ StartupNotFound \/ StartupFailed
    \/ Unauthorized \/ CommitClaim
ConnFairness ==
    /\ SF_connVars(Answered) /\ WF_connVars(Settle)
    /\ SF_connVars(BeginStartup) /\ \A u \in Update : SF_connVars(BeginTrigger(u))
    /\ WF_connVars(PublishReady) /\ WF_connVars(Restart \/ Shutdown)
FairConnSpec == ConnSpec /\ ConnFairness

-----------------------------------------------------------------------------
CandidateRow ==
    [user : User, date : Nat \ {0}, grant : SUBSET Grant, rev : Nat, aged : BOOLEAN]

\* The tables hold what their columns allow, and the worker, startup and
\* Telegram's view have their types.
ConnTypeOK ==
    /\ owner \in [state : {"PENDING", "UNCLAIMED", "CLAIMED"}, user : User \cup {NoUser},
                  floor : Nat, since : Nat,
                  source : {"NONE", "LEGACY_FALLBACK", "CLAIM", "BUSINESS_CONNECTION"}]
    /\ trusted \in [id : Connection, user : User, date : Nat, grant : SUBSET Grant, rev : Nat,
                    state : {"PENDING", "CONFIRMED"}] \cup {NoTrust}
    /\ DOMAIN cand \subseteq Connection
    /\ \A c \in DOMAIN cand : cand[c] \in CandidateRow
    /\ guard \in [overflow : Nat, rev : Nat]
    /\ global \in {"PENDING", "READY", "AUTH_FAILED"}
    /\ trigger \in [Update -> [conn : Connection \cup {0},
                               status : {"NONE", "SENT", "RECORDED", "APPLIED"}]]
    /\ phase \in {"DOWN", "STARTING", "SERVING"}
    /\ startup \in Connection \cup {0}
    /\ job.pc \in {"IDLE", "SNAPPED", "ANSWERED", "NOT_FOUND", "FAILED", "AUTH"}
    /\ tg \in [Connection -> [date : Nat, grant : SUBSET Grant, known : BOOLEAN]]
    /\ now \in Dates

\* Effects of the bot are let through only while this holds.
GateOpen ==
    phase = "SERVING" /\ global = "READY" /\ trusted.state = "CONFIRMED"

\* An open gate never claims more than Telegram grants: what was withdrawn is
\* at most one lifecycle update away that Telegram has yet to deliver, through
\* lookups, retries, replacements, claims and restarts.
OpenMeansGranted ==
    GateOpen =>
        \/ trusted.grant \subseteq tg[trusted.id].grant
        \/ \E u \in Update : trigger[u] = [conn |-> trusted.id, status |-> "SENT"]

\* A connection whose gate is closed is on somebody's list: a recorded trigger
\* or the startup lookup will reconcile it.
PendingHasCause ==
    phase = "SERVING" /\ global # "AUTH_FAILED" /\ trusted.state = "PENDING" =>
        \/ startup = trusted.id
        \/ \E u \in Update : trigger[u] = [conn |-> trusted.id, status |-> "RECORDED"]

\* The combinations the health classifier calls contradictory do not occur
\* once the Owner is loaded: what is trusted, and what is kept as a candidate
\* after a claim, is the Owner's; an unclaimed installation trusts nobody.
NoContradiction ==
    /\ phase # "DOWN" => ~Contradictory
    /\ Claimed => \A c \in DOMAIN cand : cand[c].user = owner.user
    /\ trusted.id \notin DOMAIN cand

\* README_en.md, of connection=ambiguous: "let old candidates expire, then make
\* one fresh same-Owner connection".  With that connection trusted and
\* confirmed and every candidate expired, the probe answers 200.
FreshConnectionIsReady ==
    GateOpen /\ Claimed /\ Retained = {} => ClassifyReadiness # "unavailable"

\* When the outbox worker disables the connection while a lookup is under way,
\* that lookup does not give anything back.
DisableSticks ==
    [][job.overtaken /\ trusted.id = trusted'.id => trusted'.grant \subseteq trusted.grant]_connVars

\* Reconciliation keeps the promise of TrustedOwner.
Trust == INSTANCE TrustedOwner WITH
    bound <- owner.user,
    holder <- trusted.id,
    mark <- Max({owner.floor, trusted.date})
ImplementsTrust == Trust!AbstractSpec

\* A start whose connection was replaced meanwhile waits for the wrong one.
Superseded == startup \notin {0, trusted.id}

\* A process that stays up settles every trigger it has recorded ...
TriggersSettle ==
    <>[](phase = "SERVING") => \A u \in Update : []<>(~Recorded(u))

\* Candidates, or the mark of their overflow, beside a trusted connection.
Leftovers == trusted.id # 0 /\ (Retained # {} \/ guard.overflow # 0)

\* ... and answers the readiness probe, unless the connection it waits for was
\* replaced or the classifier objects to what is left of old candidates.
GateOpens ==
    <>[](phase = "SERVING") =>
        []<>(ClassifyReadiness # "unavailable" \/ Superseded \/ (global = "READY" /\ Leftovers))

\* README_en.md, "Every start follows this one-way order: ... drain remaining
\* recorded connection triggers; and transition global state to READY".
StartsReachReady ==
    <>[](phase = "SERVING") => []<>(global = "READY")
=============================================================================
