------------------------ MODULE ReconciliationProofs ------------------------
(***************************************************************************)
(* What Reconciliation promises, for any set of users and connections, any *)
(* rights, any number of lifecycle updates and any limit of candidates.    *)
(*                                                                         *)
(* The argument: the worker is alone, so between a snapshot and its commit *)
(* nothing but the outbox worker (Disable) touches the trusted row, and    *)
(* that raises its revision (InFlight); what is trusted or kept as a       *)
(* candidate after a claim is the Owner's (Ownership); and a right that    *)
(* was withdrawn after it was read has a lifecycle update on its way       *)
(* (Granted).                                                              *)
(***************************************************************************)
EXTENDS Reconciliation, FiniteSetTheorems, WellFoundedInduction, TLAPS

-----------------------------------------------------------------------------
Time == 0..MaxDate

Pc == {"SNAPPED", "ANSWERED", "NOT_FOUND", "FAILED", "AUTH"}
OwnerRow ==
    [state : {"PENDING", "UNCLAIMED", "CLAIMED"}, user : User \cup {NoUser},
     floor : Nat, since : Nat,
     source : {"NONE", "LEGACY_FALLBACK", "CLAIM", "BUSINESS_CONNECTION"}]
TrustedRow ==
    [id : Connection, user : User, date : Nat, grant : SUBSET Grant, rev : Nat,
     state : {"PENDING", "CONFIRMED"}]
TriggerRow == [conn : Connection \cup {0}, status : {"NONE", "SENT", "RECORDED", "APPLIED"}]
Standing == [date : Nat, grant : SUBSET Grant, known : BOOLEAN]
Answer == [user : User \cup {NoUser}, date : Time, grant : SUBSET Grant, chat : BOOLEAN]
Revisions ==
    [cand : Int, holder : Connection \cup {0}, rev : Int, guard : Nat, owner : OwnerRow]

\* Every date a row holds is one Telegram's clock has shown, or 0.
OwnerOK(o) == o \in OwnerRow /\ o.floor \in Time /\ o.since \in Time
TrustOK(t) == (t \in TrustedRow \/ t = NoTrust) /\ t.date \in Time
TableOK(rows) ==
    /\ DOMAIN rows \subseteq Connection
    /\ \A c \in DOMAIN rows : rows[c] \in CandidateRow /\ rows[c].date \in Dates
GuardOK(g) == g \in [overflow : Nat, rev : Nat] /\ g.overflow \in Time
GlobalOK(x) == x \in {"PENDING", "READY", "AUTH_FAILED"}
TablesOK ==
    /\ OwnerOK(owner) /\ TrustOK(trusted) /\ TableOK(cand) /\ GuardOK(guard)
    /\ GlobalOK(global)
TriggersOK ==
    /\ trigger \in [Update -> TriggerRow]
    /\ \A u \in Update : trigger[u].status \in {"SENT", "RECORDED"} => trigger[u].conn \in Connection
TelegramOK ==
    /\ tg \in [Connection -> Standing]
    /\ \A c \in Connection : tg[c].date \in Time /\ (tg[c].known => tg[c].date \in Dates)
    /\ now \in Dates
ProcessOK ==
    /\ phase \in {"DOWN", "STARTING", "SERVING"}
    /\ startup \in Connection \cup {0}

\* What the worker holds: of a lookup, the revisions it noted; of a claim, the
\* claimant and his candidates.
ClaimNote(s) ==
    /\ s.user \in User /\ s.date \in Time /\ GlobalOK(s.global) /\ GuardOK(s.guard)
    /\ TableOK(s.rows)
LookupJob ==
    [kind : {"TRIGGER", "STARTUP"}, pc : Pc, update : Update \cup {0}, conn : Connection,
     snap : Revisions, answer : Answer, overtaken : BOOLEAN]
ClaimJob(j) ==
    /\ DOMAIN j = {"kind", "pc", "update", "conn", "snap", "answer", "overtaken"}
    /\ j.kind = "CLAIM" /\ j.pc \in Pc /\ j.conn \in Connection \cup {0} /\ ClaimNote(j.snap)
    /\ j.answer \in Answer /\ j.overtaken \in BOOLEAN
JobOK(j) == j = Idle \/ j \in LookupJob \/ ClaimJob(j)

\* The rights g of a connection are granted, or Telegram has an update on its
\* way that says otherwise.
Granted(g, c) ==
    \/ g \subseteq tg[c].grant
    \/ \E u \in Update : trigger[u] = [conn |-> c, status |-> "SENT"]

\* What the worker holds is still what it found, but for a row that was
\* disabled meanwhile, which then has a later revision.
InFlight ==
    /\ phase = "DOWN" => job = Idle
    /\ phase = "STARTING" => job = Idle \/ (job.kind = "STARTUP" /\ job.conn = trusted.id)
    /\ job.kind \in {"TRIGGER", "STARTUP"} =>
         /\ job.snap.cand >= -1
         /\ job.snap.holder = trusted.id /\ job.snap.rev <= trusted.rev
         /\ job.overtaken => job.snap.rev < trusted.rev
    /\ job.kind = "TRIGGER" =>
         job.update \in Update /\ trigger[job.update] = [conn |-> job.conn, status |-> "RECORDED"]
    /\ job.kind = "STARTUP" /\ phase = "SERVING" => startup = job.conn
    /\ job.kind = "CLAIM" => owner.state = "UNCLAIMED"
    /\ job.pc \in {"SNAPPED", "ANSWERED"} => job.conn \in Connection
    /\ job.pc = "ANSWERED" =>
         job.answer.user \in User /\ job.answer.date \in Dates /\ Granted(job.answer.grant, job.conn)

\* Who may be trusted, and who may be a candidate.
Ownership ==
    /\ owner.state = "PENDING" =>
         phase = "DOWN" /\ DOMAIN cand = {} /\ owner.user = NoUser /\ owner.floor = 0 /\ trusted.date = 0
    /\ owner.state = "UNCLAIMED" => owner.user = NoUser /\ owner.floor = 0 /\ trusted.id = 0
    /\ owner.state = "CLAIMED" =>
         /\ owner.user \in User
         /\ trusted.id # 0 => trusted.user = owner.user
         /\ \A c \in DOMAIN cand : cand[c].user = owner.user
    /\ trusted.id # 0 /\ trusted.date = 0 => owner.floor = 0
    /\ trusted.id \notin DOMAIN cand
    /\ phase = "STARTING" => trusted.id # 0

ConfirmedGranted == trusted.state = "CONFIRMED" => Granted(trusted.grant, trusted.id)

ConnInv ==
    /\ TablesOK /\ TriggersOK /\ TelegramOK /\ ProcessOK /\ JobOK(job)
    /\ InFlight /\ Ownership
    /\ ConfirmedGranted /\ PendingHasCause

-----------------------------------------------------------------------------
(***************************************************************************)
(* The operators of the model.                                             *)
(***************************************************************************)
\* A set of dates that is not empty has a latest one: the clock is bounded, and
\* the least of the upper bounds is a member.
LEMMA MaxOf ==
    ASSUME NEW S, S \subseteq Time, S # {}
    PROVE  Max(S) \in S /\ Max(S) \in Time /\ \A y \in S : y <= Max(S)
  <1> USE ConnectionConstants DEF ConnectionConstants, Time
  <1> DEFINE R == OpToRel(<, Nat)
             T == {b \in Nat : \A y \in S : y <= b}
  <1>1. MaxDate \in T
    OBVIOUS
  <1>2. PICK b \in T : \A a \in T : ~(<<a, b>> \in R)
    <2>1. IsWellFoundedOn(R, Nat)
      BY NatLessThanWellFounded
    <2>2. T \subseteq Nat /\ T # {}
      BY <1>1
    <2> HIDE DEF R, T
    <2> QED
      BY <2>1, <2>2, WFMin
  <1>3. \A a \in T : ~(a < b)
    BY <1>2 DEF OpToRel
  <1>4. b \in S
    <2>1. SUFFICES ASSUME b \notin S PROVE FALSE
      OBVIOUS
    <2>2. PICK z \in S : TRUE
      OBVIOUS
    <2>3. z < b /\ b - 1 \in Nat
      BY <2>1, <2>2
    <2>4. b - 1 \in T
      BY <2>1, <2>3
    <2> QED
      BY <2>3, <2>4, <1>3
  <1>5. \E x \in S : \A y \in S : x >= y
    BY <1>4
  <1>6. Max(S) \in S /\ \A y \in S : Max(S) >= y
    BY <1>5 DEF Max
  <1> QED
    BY <1>6

\* The later of two dates.
LEMMA MaxOfTwo ==
    ASSUME NEW a \in Nat, NEW b \in Nat
    PROVE  /\ Max({a, b}) \in {a, b}
           /\ Max({a, b}) >= a /\ Max({a, b}) >= b
           /\ a >= b => Max({a, b}) = a
           /\ b >= a => Max({a, b}) = b
  <1>1. \E x \in {a, b} : \A y \in {a, b} : x >= y
    OBVIOUS
  <1>2. Max({a, b}) \in {a, b} /\ \A y \in {a, b} : Max({a, b}) >= y
    BY <1>1 DEF Max
  <1> QED
    BY <1>2

\* Nothing that was trusted, ruled out or kept as a candidate is newer than the
\* floor a connection has to exceed.
LEMMA FloorCovers ==
    ASSUME TablesOK, NEW c \in Connection
    PROVE  /\ GenerationFloor(c) \in Time /\ GenerationFloor(c) >= owner.floor
           /\ trusted.id # c => GenerationFloor(c) >= trusted.date
  <1> DEFINE S == {owner.floor, guard.overflow}
                     \cup {IF trusted.id = c THEN 0 ELSE trusted.date}
                     \cup {cand[x].date : x \in DOMAIN cand \ {c}}
  <1>1. S \subseteq Time
    BY ConnectionConstants DEF ConnectionConstants, TablesOK, OwnerOK, TrustOK, TableOK, GuardOK, Time, Dates
  <1>2. owner.floor \in S /\ (trusted.id # c => trusted.date \in S)
    OBVIOUS
  <1>3. Max(S) = GenerationFloor(c)
    BY DEF GenerationFloor
  <1> HIDE DEF S
  <1>4. Max(S) \in Time /\ \A y \in S : y <= Max(S)
    BY <1>1, <1>2, MaxOf
  <1> QED
    BY <1>2, <1>3, <1>4 DEF Time

\* The mark of an overflow stays a date.
LEMMA GuardFollows ==
    ASSUME NEW g, GuardOK(g), NEW d \in Time
    PROVE  GuardOK(RaiseGuard(g, d)) /\ GuardOK(FollowGuard(g, d))
  <1> USE ConnectionConstants DEF ConnectionConstants
  <1>1. Max({g.overflow, d}) \in Time /\ Max({g.overflow, d}) \in Nat
    BY MaxOfTwo DEF GuardOK, Time
  <1>2. GuardOK(RaiseGuard(g, d))
    BY <1>1 DEF GuardOK, RaiseGuard
  <1> QED
    BY <1>2 DEF FollowGuard

\* prune_connection_candidates only removes rows.
LEMMA PruneKeeps ==
    ASSUME NEW rows, NEW g, TableOK(rows), GuardOK(g)
    PROVE  LET p == Prune(rows, g)
           IN  /\ TableOK(p.rows) /\ GuardOK(p.guard)
               /\ DOMAIN p.rows \subseteq DOMAIN rows
               /\ \A c \in DOMAIN p.rows : p.rows[c] = rows[c]
  <1> DEFINE kept == Without(rows, {c \in DOMAIN rows : rows[c].aged})
             dates == {kept[c].date : c \in DOMAIN kept}
             some == [c \in Newest(kept) |-> kept[c]]
  <1>1. /\ TableOK(kept) /\ DOMAIN kept \subseteq DOMAIN rows
        /\ \A c \in DOMAIN kept : kept[c] = rows[c]
    BY DEF TableOK, Without
  <1>2. CASE Cardinality(DOMAIN kept) <= MaxCandidates
    <2>1. Prune(rows, g) = [rows |-> kept, guard |-> g]
      BY <1>2 DEF Prune
    <2> HIDE DEF kept
    <2> QED
      BY <2>1, <1>1
  <1>3. CASE ~(Cardinality(DOMAIN kept) <= MaxCandidates)
    <2>1. Prune(rows, g) = [rows |-> some, guard |-> RaiseGuard(g, Max(dates))]
      BY <1>3 DEF Prune
    <2>2. DOMAIN some \subseteq DOMAIN kept /\ \A c \in DOMAIN some : some[c] = kept[c]
      BY DEF Newest
    <2> HIDE DEF kept
    <2>3. dates \subseteq Time
      BY <1>1, ConnectionConstants DEF TableOK, Dates, Time, ConnectionConstants
    <2>4. dates # {}
      <3>1. SUFFICES ASSUME dates = {} PROVE FALSE
        OBVIOUS
      <3>2. DOMAIN kept = {}
        BY <3>1
      <3>3. Cardinality(DOMAIN kept) = 0
        BY <3>2, FS_EmptySet
      <3> QED
        BY <3>3, <1>3, ConnectionConstants DEF ConnectionConstants
    <2> HIDE DEF dates, some
    <2>5. GuardOK(RaiseGuard(g, Max(dates)))
      BY <2>3, <2>4, MaxOf, GuardFollows
    <2>6. TableOK(some) /\ \A c \in DOMAIN some : some[c] = rows[c]
      BY <1>1, <2>2 DEF TableOK
    <2> QED
      BY <2>1, <2>2, <2>5, <2>6, <1>1
  <1> QED
    BY <1>2, <1>3

-----------------------------------------------------------------------------
(***************************************************************************)
(* Shapes.                                                                 *)
(***************************************************************************)
\* What a job of each kind holds.
LEMMA JobShape ==
    ASSUME NEW j, JobOK(j)
    PROVE  /\ j.kind \in {"NONE", "TRIGGER", "STARTUP", "CLAIM"} /\ (j.kind = "NONE" => j = Idle)
           /\ j.kind \in {"TRIGGER", "STARTUP"} =>
                /\ j \in LookupJob /\ j.conn \in Connection /\ j.snap \in Revisions
                /\ j.answer \in Answer /\ j.pc \in Pc
           /\ j.kind = "CLAIM" => ClaimJob(j)
           /\ j.pc = "IDLE" => j = Idle
           /\ j = Idle \/ j.pc \in Pc
  <1>1. CASE j = Idle
    BY <1>1 DEF Idle
  <1>2. CASE j \in LookupJob
    BY <1>2 DEF LookupJob, Pc
  <1>3. CASE ClaimJob(j)
    BY <1>3 DEF ClaimJob, Pc
  <1> QED
    BY <1>1, <1>2, <1>3 DEF JobOK

\* A row of the trusted connection, or none.
LEMMA TrustShape ==
    ASSUME NEW t, TrustOK(t)
    PROVE  /\ t.id \in Connection \cup {0} /\ t.user \in User \cup {NoUser} /\ t.date \in Nat
           /\ t.grant \in SUBSET Grant /\ t.rev \in Int /\ t.rev >= -1
           /\ t.state \in {"NONE", "PENDING", "CONFIRMED"}
           /\ t.id = 0 => t = NoTrust
           /\ t.id # 0 => t \in TrustedRow
           /\ t.state = "NONE" <=> t.id = 0
  <1>1. CASE t = NoTrust
    BY <1>1, ConnectionConstants DEF NoTrust, ConnectionConstants
  <1>2. CASE t \in TrustedRow
    BY <1>2, ConnectionConstants DEF TrustedRow, ConnectionConstants
  <1> QED
    BY <1>1, <1>2 DEF TrustOK

\* A worker that holds nothing holds nothing wrong.
LEMMA IdleInFlight ==
    ASSUME job' = Idle
    PROVE  JobOK(job)' /\ InFlight'
  BY DEF JobOK, InFlight, Idle

\* The connection of a new installation, or the one the upgrade found.
LEMMA ConnInitOK == ConnInit => ConnInv
  <1> SUFFICES ASSUME ConnInit PROVE ConnInv
    OBVIOUS
  <1> USE ConnectionConstants DEF ConnectionConstants
  <1>1. job = Idle /\ phase = "DOWN" /\ startup = 0 /\ global = "READY" /\ now = 1
    BY DEF ConnInit
  <1>2. JobOK(job) /\ InFlight
    BY <1>1 DEF JobOK, InFlight, Idle
  <1>3. TriggersOK
    BY DEF ConnInit, TriggersOK, TriggerRow
  <1>4. OwnerOK(owner) /\ owner.state = "PENDING" /\ owner.user = NoUser /\ owner.floor = 0
    BY DEF ConnInit, NoOwner, OwnerOK, OwnerRow, Time
  <1>5. cand = NoRows /\ DOMAIN cand = {} /\ TableOK(cand)
    BY DEF ConnInit, NoRows, TableOK
  <1>6. GuardOK(guard)
    BY DEF ConnInit, GuardOK, Time
  <1>7. CASE /\ trusted = NoTrust
             /\ tg = [c \in Connection |-> [date |-> 0, grant |-> {}, known |-> FALSE]]
    <2>1. TrustOK(trusted) /\ trusted.id = 0 /\ trusted.date = 0 /\ trusted.state = "NONE"
      BY <1>7 DEF NoTrust, TrustOK, Time
    <2>2. TelegramOK
      BY <1>7, <1>1 DEF TelegramOK, Standing, Dates, Time
    <2> QED
      BY <1>1, <1>2, <1>3, <1>4, <1>5, <1>6, <2>1, <2>2
         DEF ConnInv, TablesOK, GlobalOK, ProcessOK, Ownership, ConfirmedGranted, PendingHasCause
  <1>8. CASE \E c \in Connection :
               /\ trusted = [id |-> c, user |-> UserOf[c], date |-> 0, grant |-> Grant, rev |-> 0,
                             state |-> "CONFIRMED"]
               /\ tg = [x \in Connection |-> IF x = c THEN [date |-> 1, grant |-> Grant, known |-> TRUE]
                                             ELSE [date |-> 0, grant |-> {}, known |-> FALSE]]
    <2>1. PICK c \in Connection :
               /\ trusted = [id |-> c, user |-> UserOf[c], date |-> 0, grant |-> Grant, rev |-> 0,
                             state |-> "CONFIRMED"]
               /\ tg = [x \in Connection |-> IF x = c THEN [date |-> 1, grant |-> Grant, known |-> TRUE]
                                             ELSE [date |-> 0, grant |-> {}, known |-> FALSE]]
      BY <1>8
    <2>2. TrustOK(trusted) /\ trusted.id = c /\ trusted.date = 0 /\ trusted.grant = Grant
          /\ trusted.state = "CONFIRMED"
      BY <2>1 DEF TrustOK, TrustedRow, Time
    <2>3. TelegramOK /\ tg[c].grant = Grant
      BY <2>1, <1>1 DEF TelegramOK, Standing, Dates, Time
    <2> QED
      BY <1>1, <1>2, <1>3, <1>4, <1>5, <1>6, <2>2, <2>3
         DEF ConnInv, TablesOK, GlobalOK, ProcessOK, Ownership, ConfirmedGranted, Granted, PendingHasCause
  <1> QED
    BY <1>7, <1>8 DEF ConnInit

-----------------------------------------------------------------------------
(***************************************************************************)
(* Telegram's steps.                                                       *)
(***************************************************************************)
\* Sending an update leaves the earlier ones as they were.
LEMMA SendKeeps ==
    ASSUME TriggersOK, NEW c \in Connection, Send(c)
    PROVE  /\ TriggersOK'
           /\ \A u \in Update : trigger[u].status # "NONE" => trigger'[u] = trigger[u]
           /\ \E u \in Update : trigger'[u] = [conn |-> c, status |-> "SENT"]
  <1>1. PICK u \in Update : /\ trigger[u].status = "NONE"
                            /\ trigger' = [trigger EXCEPT ![u] = [conn |-> c, status |-> "SENT"]]
    BY DEF Send
  <1>2. [conn |-> c, status |-> "SENT"] \in TriggerRow
    BY DEF TriggerRow
  <1> QED
    BY <1>1, <1>2 DEF TriggersOK

\* A change at Telegram that is announced, or takes no right away, keeps the
\* invariant.
LEMMA TelegramKeeps ==
    ASSUME ConnInv, TelegramOK', TriggersOK', UNCHANGED <<tables, process>>,
           \A u \in Update : trigger[u].status # "NONE" => trigger'[u] = trigger[u],
           \A x \in Connection :
               \/ tg'[x].grant = tg[x].grant
               \/ \E u \in Update : trigger'[u] = [conn |-> x, status |-> "SENT"]
    PROVE  ConnInv'
  <1>1. UNCHANGED owner /\ UNCHANGED trusted /\ UNCHANGED cand /\ UNCHANGED guard /\ UNCHANGED global
        /\ UNCHANGED phase /\ UNCHANGED startup /\ UNCHANGED job
    BY DEF tables, process
  <1>2. TablesOK' /\ ProcessOK' /\ JobOK(job)' /\ Ownership'
    BY <1>1 DEF ConnInv, TablesOK, ProcessOK, Ownership
  <1>3. \A g, x : x \in Connection /\ Granted(g, x) => Granted(g, x)'
    BY DEF Granted, ConnInv, TriggersOK
  <1>4. trusted.state = "CONFIRMED" => trusted.id \in Connection
    BY TrustShape DEF ConnInv, TablesOK
  <1>5. ConfirmedGranted'
    BY <1>1, <1>3, <1>4 DEF ConnInv, ConfirmedGranted
  <1>6. PendingHasCause'
    BY <1>1 DEF ConnInv, PendingHasCause, TriggersOK
  <1>7. job.pc = "ANSWERED" => Granted(job.answer.grant, job.conn)'
    BY <1>1, <1>3 DEF ConnInv, InFlight
  <1>8. job.kind = "TRIGGER" => trigger'[job.update] = [conn |-> job.conn, status |-> "RECORDED"]
    BY DEF ConnInv, InFlight
  <1>9. InFlight'
    BY <1>1, <1>7, <1>8 DEF ConnInv, InFlight
  <1> QED
    BY <1>2, <1>5, <1>6, <1>9 DEF ConnInv

\* A new connection is announced, with all its rights.
LEMMA ConnectKeeps ==
    ASSUME ConnInv, NEW c \in Connection, Connect(c)
    PROVE  ConnInv'
  <1> USE ConnectionConstants DEF ConnectionConstants
  <1>1. tg' = [tg EXCEPT ![c] = [date |-> now, grant |-> Grant, known |-> TRUE]]
        /\ now' = now /\ UNCHANGED <<tables, process>> /\ Send(c)
    BY DEF Connect
  <1>2. [date |-> now, grant |-> Grant, known |-> TRUE] \in Standing
    BY DEF ConnInv, TelegramOK, Standing, Dates
  <1>3. TelegramOK'
    BY <1>1, <1>2 DEF ConnInv, TelegramOK, Time, Dates
  <1>4. \A x \in Connection : x # c => tg'[x] = tg[x]
    BY <1>1 DEF ConnInv, TelegramOK
  <1> QED
    BY <1>1, <1>3, <1>4, SendKeeps, TelegramKeeps DEF ConnInv

\* A change of rights is announced.
LEMMA ChangeKeeps ==
    ASSUME ConnInv, NEW c \in Connection, NEW g \in SUBSET Grant, Change(c, g)
    PROVE  ConnInv'
  <1>1. tg' = [tg EXCEPT ![c].grant = g] /\ now' = now /\ UNCHANGED <<tables, process>> /\ Send(c)
    BY DEF Change
  <1>2. tg'[c] \in Standing /\ tg'[c].date = tg[c].date /\ tg'[c].known = tg[c].known
    BY <1>1 DEF ConnInv, TelegramOK, Standing
  <1>3. TelegramOK'
    BY <1>1, <1>2 DEF ConnInv, TelegramOK
  <1>4. \A x \in Connection : x # c => tg'[x] = tg[x]
    BY <1>1 DEF ConnInv, TelegramOK
  <1> QED
    BY <1>1, <1>3, <1>4, SendKeeps, TelegramKeeps DEF ConnInv

\* Telegram forgets a connection; what it granted is not widened by that.
LEMMA ForgetKeeps ==
    ASSUME ConnInv, NEW c \in Connection, Forget(c)
    PROVE  ConnInv'
  <1>1. tg' = [tg EXCEPT ![c].known = FALSE] /\ now' = now /\ UNCHANGED <<tables, process>>
        /\ trigger' = trigger
    BY DEF Forget
  <1>2. tg'[c] \in Standing /\ tg'[c].date = tg[c].date /\ ~tg'[c].known /\ tg'[c].grant = tg[c].grant
    BY <1>1 DEF ConnInv, TelegramOK, Standing
  <1>3. TelegramOK'
    BY <1>1, <1>2 DEF ConnInv, TelegramOK
  <1>4. \A x \in Connection : tg'[x].grant = tg[x].grant
    BY <1>1, <1>2 DEF ConnInv, TelegramOK
  <1>5. TriggersOK'
    BY <1>1 DEF ConnInv, TriggersOK
  <1> QED
    BY <1>1, <1>3, <1>4, <1>5, TelegramKeeps

\* Time passes.
LEMMA TickKeeps ==
    ASSUME ConnInv, Tick
    PROVE  ConnInv'
  <1>1. tg' = tg /\ now' = now + 1 /\ now < MaxDate /\ UNCHANGED <<tables, process>> /\ trigger' = trigger
    BY DEF Tick
  <1>2. TelegramOK' /\ TriggersOK'
    BY <1>1, ConnectionConstants DEF ConnectionConstants, ConnInv, TelegramOK, TriggersOK, Dates
  <1> QED
    BY <1>1, <1>2, TelegramKeeps

\* A candidate grows old.
LEMMA AgeKeeps ==
    ASSUME ConnInv, NEW c \in Connection, Age(c)
    PROVE  ConnInv'
  <1>1. UNCHANGED owner /\ UNCHANGED trusted /\ UNCHANGED guard /\ UNCHANGED global
        /\ UNCHANGED phase /\ UNCHANGED startup /\ UNCHANGED job /\ UNCHANGED trigger
        /\ UNCHANGED tg /\ UNCHANGED now
    BY DEF Age, process, telegram
  <1>2. c \in DOMAIN cand /\ cand' = [cand EXCEPT ![c].aged = TRUE]
    BY DEF Age
  <1>3. cand'[c] \in CandidateRow /\ cand'[c].date = cand[c].date /\ cand'[c].user = cand[c].user
    BY <1>2 DEF ConnInv, TablesOK, TableOK, CandidateRow
  <1>4. DOMAIN cand' = DOMAIN cand /\ \A x \in DOMAIN cand : x # c => cand'[x] = cand[x]
    BY <1>2
  <1>5. TableOK(cand')
    BY <1>2, <1>3, <1>4 DEF ConnInv, TablesOK, TableOK
  <1>6. TablesOK' /\ Ownership'
    BY <1>1, <1>2, <1>3, <1>4, <1>5 DEF ConnInv, TablesOK, Ownership
  <1>7. TriggersOK' /\ TelegramOK' /\ ProcessOK' /\ JobOK(job)' /\ InFlight'
        /\ ConfirmedGranted' /\ PendingHasCause'
    BY <1>1 DEF ConnInv, TriggersOK, TelegramOK, ProcessOK, InFlight, ConfirmedGranted, PendingHasCause, Granted
  <1> QED
    BY <1>6, <1>7 DEF ConnInv

-----------------------------------------------------------------------------
(***************************************************************************)
(* The worker takes up a job and is answered.                              *)
(***************************************************************************)
\* Steps that change nothing but what the worker holds.
LEMMA JobOnly ==
    ASSUME ConnInv, UNCHANGED <<tables, trigger, phase, startup, telegram>>, JobOK(job'), InFlight'
    PROVE  ConnInv'
  <1>1. UNCHANGED owner /\ UNCHANGED trusted /\ UNCHANGED cand /\ UNCHANGED guard /\ UNCHANGED global
        /\ UNCHANGED phase /\ UNCHANGED startup /\ UNCHANGED trigger /\ UNCHANGED tg /\ UNCHANGED now
    BY DEF tables, telegram
  <1>2. TablesOK' /\ TriggersOK' /\ TelegramOK' /\ ProcessOK' /\ Ownership' /\ ConfirmedGranted' /\ PendingHasCause'
    BY <1>1 DEF ConnInv, TablesOK, TriggersOK, TelegramOK, ProcessOK, Ownership, ConfirmedGranted,
                PendingHasCause, Granted
  <1> QED
    BY <1>2 DEF ConnInv

\* The revisions a lookup notes.
LEMMA SnapshotOK ==
    ASSUME ConnInv, NEW c \in Connection
    PROVE  /\ Snapshot(c) \in Revisions /\ Snapshot(c).cand >= -1
           /\ Snapshot(c).holder = trusted.id /\ Snapshot(c).rev = trusted.rev
  <1>1. RevisionOf(c) \in Int /\ RevisionOf(c) >= -1
    BY DEF RevisionOf, ConnInv, TablesOK, TableOK, CandidateRow
  <1>2. trusted.id \in Connection \cup {0} /\ trusted.rev \in Int
    BY TrustShape DEF ConnInv, TablesOK
  <1>3. guard.rev \in Nat /\ owner \in OwnerRow
    BY DEF ConnInv, TablesOK, GuardOK, OwnerOK
  <1> QED
    BY <1>1, <1>2, <1>3 DEF Snapshot, Revisions

\* Before the answer there is none.
LEMMA NoAnswerOK == NoAnswer \in Answer
  BY ConnectionConstants DEF NoAnswer, Answer, Time, ConnectionConstants

\* A lookup of c that begins in a process that is up.
LEMMA LookupBegins ==
    ASSUME ConnInv, NEW c \in Connection, NEW kind \in {"TRIGGER", "STARTUP"}, NEW u \in Update \cup {0},
           Begin(kind, "SNAPPED", u, c, Snapshot(c)),
           UNCHANGED <<tables, trigger, phase, startup, telegram>>,
           phase # "DOWN", phase = "STARTING" => kind = "STARTUP" /\ c = trusted.id,
           kind = "TRIGGER" => u \in Update /\ trigger[u] = [conn |-> c, status |-> "RECORDED"],
           kind = "STARTUP" /\ phase = "SERVING" => startup = c
    PROVE  ConnInv'
  <1>1. UNCHANGED owner /\ UNCHANGED trusted /\ UNCHANGED phase /\ UNCHANGED startup /\ UNCHANGED trigger
    BY DEF tables, telegram
  <1>2. /\ job'.kind = kind /\ job'.pc = "SNAPPED" /\ job'.update = u /\ job'.conn = c
        /\ job'.snap = Snapshot(c) /\ job'.answer = NoAnswer /\ job'.overtaken = FALSE
    BY DEF Begin
  <1>3. job' \in LookupJob
    BY SnapshotOK, NoAnswerOK DEF Begin, LookupJob, Pc
  <1>4. trusted.rev \in Int
    BY TrustShape DEF ConnInv, TablesOK
  <1>5. InFlight'
    BY <1>1, <1>2, <1>4, SnapshotOK DEF InFlight
  <1> QED
    BY <1>3, <1>5, JobOnly DEF JobOK

\* The worker takes up a recorded trigger.
LEMMA BeginTriggerKeeps ==
    ASSUME ConnInv, NEW u \in Update, BeginTrigger(u)
    PROVE  ConnInv'
  <1>1. /\ phase = "SERVING" /\ trigger[u].status = "RECORDED"
        /\ Begin("TRIGGER", "SNAPPED", u, trigger[u].conn, Snapshot(trigger[u].conn))
        /\ UNCHANGED <<tables, trigger, phase, startup, telegram>>
    BY DEF BeginTrigger, Free, Recorded
  <1>2. trigger[u].conn \in Connection
        /\ trigger[u] = [conn |-> trigger[u].conn, status |-> "RECORDED"]
    BY <1>1 DEF ConnInv, TriggersOK, TriggerRow
  <1> QED
    BY <1>1, <1>2, LookupBegins

\* The worker takes up the connection of the start.
LEMMA BeginStartupKeeps ==
    ASSUME ConnInv, BeginStartup
    PROVE  ConnInv'
  <1>1. UNCHANGED <<tables, trigger, phase, startup, telegram>>
    BY DEF BeginStartup
  <1>2. CASE phase = "STARTING" /\ Begin("STARTUP", "SNAPPED", 0, trusted.id, Snapshot(trusted.id))
    <2>1. trusted.id \in Connection
      BY <1>2, TrustShape DEF ConnInv, TablesOK, Ownership
    <2> QED
      BY <1>1, <1>2, <2>1, LookupBegins
  <1>3. CASE phase = "SERVING" /\ startup # 0 /\ Begin("STARTUP", "SNAPPED", 0, startup, Snapshot(startup))
    <2>1. startup \in Connection
      BY <1>3 DEF ConnInv, ProcessOK
    <2> QED
      BY <1>1, <1>3, <2>1, LookupBegins
  <1> QED
    BY <1>2, <1>3 DEF BeginStartup

\* The worker takes up a claim, with the candidates of the claimant.
LEMMA BeginClaimKeeps ==
    ASSUME ConnInv, NEW u \in User, NEW d \in 1..now, BeginClaim(u, d)
    PROVE  ConnInv'
  <1> DEFINE snap == ClaimSnapshot(u, d)
             sole == {c \in DOMAIN snap.rows : DOMAIN snap.rows = {c}}
  <1>1. UNCHANGED owner /\ UNCHANGED trusted /\ UNCHANGED phase /\ UNCHANGED startup /\ UNCHANGED trigger
        /\ phase = "SERVING" /\ owner.state = "UNCLAIMED"
        /\ UNCHANGED <<tables, trigger, phase, startup, telegram>>
    BY DEF tables, telegram, BeginClaim, Free
  <1>2. snap.rows = [c \in FreshCandidates(u) |-> cand[c]] /\ snap.user = u /\ snap.date = d
        /\ snap.global = global /\ snap.guard = guard
    BY DEF ClaimSnapshot
  <1>3. DOMAIN snap.rows \subseteq Connection /\ TableOK(snap.rows)
    BY <1>2 DEF FreshCandidates, CandidatesOf, ConnInv, TablesOK, TableOK
  <1>4. d \in Time
    BY ConnectionConstants DEF ConnectionConstants, ConnInv, TelegramOK, Time, Dates
  <1>5. ClaimNote(snap)
    BY <1>2, <1>3, <1>4 DEF ClaimNote, ConnInv, TablesOK
  <1>6. CASE Begin("CLAIM", "SNAPPED", 0, CHOOSE c \in sole : TRUE, snap) /\ sole # {}
    <2>1. PICK c \in Connection : Begin("CLAIM", "SNAPPED", 0, c, snap)
      <3>1. (CHOOSE c \in sole : TRUE) \in sole
        BY <1>6
      <3>2. (CHOOSE c \in sole : TRUE) \in Connection
        BY <3>1, <1>3
      <3> QED
        BY <3>2, <1>6
    <2> HIDE DEF snap, sole
    <2>2. /\ job'.kind = "CLAIM" /\ job'.pc = "SNAPPED" /\ job'.update = 0 /\ job'.conn = c
          /\ job'.snap = snap /\ job'.answer = NoAnswer /\ job'.overtaken = FALSE
          /\ ClaimJob(job')
      BY <2>1, <1>5, NoAnswerOK DEF Begin, ClaimJob, Pc
    <2>3. InFlight'
      BY <1>1, <2>2 DEF InFlight
    <2> QED
      BY <1>1, <2>2, <2>3, JobOnly DEF JobOK
  <1>7. CASE Begin("CLAIM", "FAILED", 0, 0, snap)
    <2> HIDE DEF snap, sole
    <2>1. /\ job'.kind = "CLAIM" /\ job'.pc = "FAILED" /\ job'.update = 0 /\ job'.conn = 0
          /\ job'.snap = snap /\ job'.answer = NoAnswer /\ job'.overtaken = FALSE
          /\ ClaimJob(job')
      BY <1>7, <1>5, NoAnswerOK DEF Begin, ClaimJob, Pc
    <2>2. InFlight'
      BY <1>1, <2>1 DEF InFlight
    <2> QED
      BY <1>1, <2>1, <2>2, JobOnly DEF JobOK
  <1> QED
    BY <1>6, <1>7 DEF BeginClaim

\* A lookup that ends keeps everything but its result.
Advanced(k, j) ==
    /\ JobOK(k) /\ k.kind = j.kind /\ k.update = j.update /\ k.conn = j.conn
    /\ k.snap = j.snap /\ k.overtaken = j.overtaken

\* A result is noted in the job, and nothing else.
LEMMA JobMoves ==
    ASSUME NEW j, JobOK(j), j.pc = "SNAPPED", NEW p \in Pc, NEW k, k = [j EXCEPT !.pc = p]
    PROVE  Advanced(k, j) /\ k.pc = p
  <1>1. CASE j = Idle
    BY <1>1 DEF Idle
  <1>2. CASE j \in LookupJob
    BY <1>2 DEF LookupJob, JobOK, Advanced
  <1>3. CASE ClaimJob(j)
    BY <1>3 DEF ClaimJob, JobOK, Advanced
  <1> QED
    BY <1>1, <1>2, <1>3 DEF JobOK

\* The same for an answer.
LEMMA JobAnswered ==
    ASSUME JobOK(job), job.pc = "SNAPPED", NEW a \in Answer,
           job' = [job EXCEPT !.pc = "ANSWERED", !.answer = a]
    PROVE  Advanced(job', job) /\ job'.pc = "ANSWERED" /\ job'.answer = a
  <1>1. CASE job = Idle
    BY <1>1 DEF Idle
  <1>2. CASE job \in LookupJob
    BY <1>2 DEF LookupJob, JobOK, Advanced, Pc
  <1>3. CASE ClaimJob(job)
    BY <1>3 DEF ClaimJob, JobOK, Advanced, Pc
  <1> QED
    BY <1>1, <1>2, <1>3 DEF JobOK

\* Once the worker has a result, it differs from before only in that.
LEMMA LookupEnds ==
    ASSUME ConnInv, NEW p \in Pc, UNCHANGED <<tables, trigger, phase, startup, telegram>>,
           job.pc = "SNAPPED", Advanced(job', job), job'.pc = p, p # "SNAPPED",
           p = "ANSWERED" => /\ job'.answer.user \in User /\ job'.answer.date \in Dates
                             /\ Granted(job'.answer.grant, job.conn)
    PROVE  ConnInv'
  <1>1. UNCHANGED owner /\ UNCHANGED trusted /\ UNCHANGED phase /\ UNCHANGED startup /\ UNCHANGED trigger
        /\ UNCHANGED tg
    BY DEF tables, telegram
  <1>2. p = "ANSWERED" => Granted(job.answer.grant, job.conn)'
    BY <1>1 DEF Granted, Advanced
  <1>3. job # Idle
    BY DEF Idle
  <1>4. InFlight'
    BY <1>1, <1>2, <1>3 DEF InFlight, ConnInv, Advanced
  <1> QED
    BY <1>4, JobOnly DEF Advanced

\* Telegram answers with what it grants at this moment.
LEMMA AnsweredKeeps ==
    ASSUME ConnInv, Answered
    PROVE  ConnInv'
  <1>1. job.pc = "SNAPPED" /\ UNCHANGED <<tables, trigger, phase, startup, telegram>>
    BY DEF Answered
  <1>2. job.conn \in Connection /\ JobOK(job)
    BY <1>1 DEF ConnInv, InFlight
  <1>3. CASE tg[job.conn].known
    <2>1. PICK a \in Answers(job.conn) : job' = [job EXCEPT !.pc = "ANSWERED", !.answer = a]
      BY <1>3 DEF Answered
    <2>2. a \in Answer /\ a.user = UserOf[job.conn] /\ a.date = tg[job.conn].date /\ a.grant = tg[job.conn].grant
      BY <1>2, ConnectionConstants DEF Answers, Answer, ConnectionConstants, ConnInv, TelegramOK, Standing
    <2>3. a.user \in User /\ a.date \in Dates /\ Granted(a.grant, job.conn)
      BY <1>2, <1>3, <2>2, ConnectionConstants DEF ConnectionConstants, ConnInv, TelegramOK, Granted
    <2>4. Advanced(job', job) /\ job'.pc = "ANSWERED" /\ job'.answer = a
      BY <1>1, <1>2, <2>1, <2>2, JobAnswered
    <2> QED
      BY <1>1, <2>3, <2>4, LookupEnds DEF Pc
  <1>4. CASE ~tg[job.conn].known
    <2>1. job' = [job EXCEPT !.pc = "NOT_FOUND"] /\ "NOT_FOUND" \in Pc
      BY <1>4 DEF Answered, Pc
    <2>2. Advanced(job', job) /\ job'.pc = "NOT_FOUND"
      BY <1>1, <1>2, <2>1, JobMoves
    <2> QED
      BY <1>1, <2>1, <2>2, LookupEnds
  <1> QED
    BY <1>3, <1>4

\* An answer that contradicts the record still states the rights of the moment.
LEMMA AnsweredOtherwiseKeeps ==
    ASSUME ConnInv, AnsweredOtherwise
    PROVE  ConnInv'
  <1>1. job.pc = "SNAPPED" /\ UNCHANGED <<tables, trigger, phase, startup, telegram>>
    BY DEF AnsweredOtherwise
  <1>2. job.conn \in Connection /\ JobOK(job)
    BY <1>1 DEF ConnInv, InFlight
  <1>3. PICK u \in User, d \in Dates :
           job' = [job EXCEPT !.pc = "ANSWERED",
                              !.answer = [user |-> u, date |-> d, grant |-> tg[job.conn].grant,
                                          chat |-> TRUE]]
    BY DEF AnsweredOtherwise
  <1>4. PICK a : a = [user |-> u, date |-> d, grant |-> tg[job.conn].grant, chat |-> TRUE]
    OBVIOUS
  <1>5. tg[job.conn].grant \in SUBSET Grant
    BY <1>2 DEF ConnInv, TelegramOK, Standing
  <1>6. d \in Time
    BY ConnectionConstants DEF Dates, Time, ConnectionConstants
  <1>7. a \in Answer
    BY <1>4, <1>5, <1>6 DEF Answer
  <1>8. a.user = u /\ a.date = d /\ Granted(a.grant, job.conn)
    BY <1>4 DEF Granted
  <1>9. Advanced(job', job) /\ job'.pc = "ANSWERED" /\ job'.answer = a
    BY <1>1, <1>2, <1>3, <1>4, <1>7, JobAnswered
  <1> QED
    BY <1>1, <1>8, <1>9, LookupEnds DEF Pc

\* A lookup that fails brings no answer.
LEMMA UnansweredKeeps ==
    ASSUME ConnInv, NEW p \in {"FAILED", "AUTH"}, Unanswered(p)
    PROVE  ConnInv'
  <1>1. job.pc = "SNAPPED" /\ UNCHANGED <<tables, trigger, phase, startup, telegram>>
        /\ job' = [job EXCEPT !.pc = p] /\ p \in Pc /\ JobOK(job)
    BY DEF Unanswered, Pc, ConnInv
  <1>2. Advanced(job', job) /\ job'.pc = p
    BY <1>1, JobMoves
  <1> QED
    BY <1>1, <1>2, LookupEnds

-----------------------------------------------------------------------------
(***************************************************************************)
(* Steps that take rights away.                                            *)
(***************************************************************************)
\* The row names the same connection and allows no more than before.
Shrunk(new, old) ==
    /\ TrustOK(new)
    /\ new.id = old.id /\ new.user = old.user /\ new.date = old.date
    /\ new.grant \subseteq old.grant /\ new.rev >= old.rev
    /\ new.state = "CONFIRMED" => old.state = "CONFIRMED"
    /\ new = old \/ new.rev = old.rev + 1

\* Some rights are withdrawn; the state is as it was.
LEMMA GrantShrinks ==
    ASSUME NEW t, TrustOK(t), t.id # 0, NEW n, NEW g, g \subseteq t.grant,
           n = [t EXCEPT !.grant = g, !.rev = @ + 1]
    PROVE  Shrunk(n, t) /\ n.state = t.state /\ n.rev = t.rev + 1
  <1>1. t \in TrustedRow /\ t.date \in Time
    BY TrustShape DEF TrustOK
  <1>2. n.id = t.id /\ n.user = t.user /\ n.date = t.date /\ n.grant = g /\ n.rev = t.rev + 1
        /\ n.state = t.state
    BY <1>1 DEF TrustedRow
  <1>3. /\ t.rev \in Nat /\ t.rev + 1 \in Nat /\ t.grant \subseteq Grant
        /\ t.id \in Connection /\ t.user \in User /\ t.date \in Nat /\ t.state \in {"PENDING", "CONFIRMED"}
    BY <1>1 DEF TrustedRow
  <1>4. n = [id |-> n.id, user |-> n.user, date |-> n.date, grant |-> n.grant, rev |-> n.rev, state |-> n.state]
    BY <1>1 DEF TrustedRow
  <1>5. n \in TrustedRow
    BY <1>2, <1>3, <1>4 DEF TrustedRow
  <1> QED
    BY <1>1, <1>2, <1>3, <1>5 DEF Shrunk, TrustOK

\* Some rights are withdrawn and the gate is closed.
LEMMA ClosedShrinks ==
    ASSUME NEW t, TrustOK(t), t.id # 0, NEW n, NEW g, g \subseteq t.grant,
           n = [t EXCEPT !.grant = g, !.state = "PENDING", !.rev = @ + 1]
    PROVE  Shrunk(n, t) /\ n.state = "PENDING" /\ n.rev = t.rev + 1
  <1>1. t \in TrustedRow /\ t.date \in Time
    BY TrustShape DEF TrustOK
  <1>2. n.id = t.id /\ n.user = t.user /\ n.date = t.date /\ n.grant = g /\ n.rev = t.rev + 1
        /\ n.state = "PENDING"
    BY <1>1 DEF TrustedRow
  <1>3. /\ t.rev \in Nat /\ t.rev + 1 \in Nat /\ t.grant \subseteq Grant
        /\ t.id \in Connection /\ t.user \in User /\ t.date \in Nat /\ t.state \in {"PENDING", "CONFIRMED"}
    BY <1>1 DEF TrustedRow
  <1>4. n = [id |-> n.id, user |-> n.user, date |-> n.date, grant |-> n.grant, rev |-> n.rev, state |-> n.state]
    BY <1>1 DEF TrustedRow
  <1>5. n \in TrustedRow
    BY <1>2, <1>3, <1>4 DEF TrustedRow
  <1> QED
    BY <1>1, <1>2, <1>3, <1>5 DEF Shrunk, TrustOK

\* The gate is closed.
LEMMA PendingShrinks ==
    ASSUME NEW t, TrustOK(t), t.id # 0, NEW n,
           n = [t EXCEPT !.state = "PENDING", !.rev = @ + 1]
    PROVE  Shrunk(n, t) /\ n.state = "PENDING" /\ n.rev = t.rev + 1
  <1>1. t \in TrustedRow /\ t.date \in Time
    BY TrustShape DEF TrustOK
  <1>2. n.id = t.id /\ n.user = t.user /\ n.date = t.date /\ n.grant = t.grant /\ n.rev = t.rev + 1
        /\ n.state = "PENDING"
    BY <1>1 DEF TrustedRow
  <1>3. /\ t.rev \in Nat /\ t.rev + 1 \in Nat /\ t.grant \subseteq Grant
        /\ t.id \in Connection /\ t.user \in User /\ t.date \in Nat /\ t.state \in {"PENDING", "CONFIRMED"}
    BY <1>1 DEF TrustedRow
  <1>4. n = [id |-> n.id, user |-> n.user, date |-> n.date, grant |-> n.grant, rev |-> n.rev, state |-> n.state]
    BY <1>1 DEF TrustedRow
  <1>5. n \in TrustedRow
    BY <1>2, <1>3, <1>4 DEF TrustedRow
  <1> QED
    BY <1>1, <1>2, <1>3, <1>5 DEF Shrunk, TrustOK

\* A row as it was.
LEMMA SameShrinks ==
    ASSUME NEW t, TrustOK(t)
    PROVE  Shrunk(t, t)
  BY TrustShape DEF Shrunk

\* Closing the gate of a row.
LEMMA GateShrinks ==
    ASSUME NEW t, TrustOK(t)
    PROVE  Shrunk(Gate(t), t) /\ Gate(t).state # "CONFIRMED"
  <1>1. CASE t.state = "CONFIRMED"
    <2>1. t.id # 0 /\ t.grant \subseteq t.grant
      BY <1>1, TrustShape
    <2>2. Gate(t) = [t EXCEPT !.state = "PENDING", !.rev = @ + 1]
      BY <1>1 DEF Gate
    <2> QED
      BY <2>1, <2>2, PendingShrinks
  <1>2. CASE t.state # "CONFIRMED"
    BY <1>2, SameShrinks DEF Gate
  <1> QED
    BY <1>1, <1>2

\* A row that shrinks, with the Owner and the candidates as they were, keeps
\* what they are to each other.
LEMMA ShrunkKeeps ==
    ASSUME ConnInv, Shrunk(trusted', trusted), UNCHANGED <<owner, cand, guard>>, GlobalOK(global')
    PROVE  /\ TablesOK'
           /\ phase' = phase \/ (phase' = "SERVING" /\ phase # "DOWN") => Ownership'
           /\ phase' = "DOWN" => Ownership'
  <1>1. TablesOK'
    BY DEF ConnInv, TablesOK, Shrunk
  <1>2. phase' = phase \/ (phase' = "SERVING" /\ phase # "DOWN") => Ownership'
    BY DEF ConnInv, Ownership, Shrunk
  <1>3. phase' = "DOWN" => Ownership'
    BY DEF ConnInv, Ownership, Shrunk
  <1> QED
    BY <1>1, <1>2, <1>3

\* A trigger that is recorded closes the gate of its connection: the update that
\* spoke for a withdrawn right is used up, but so is the confirmation.
LEMMA RecordTriggerKeeps ==
    ASSUME ConnInv, NEW u \in Update, RecordTrigger(u)
    PROVE  ConnInv'
  <1>1. UNCHANGED owner /\ UNCHANGED cand /\ UNCHANGED guard /\ UNCHANGED global
        /\ UNCHANGED phase /\ UNCHANGED startup /\ UNCHANGED job /\ UNCHANGED tg /\ UNCHANGED now
        /\ phase = "SERVING" /\ job = Idle
        /\ trigger[u].status = "SENT"
        /\ trigger' = [trigger EXCEPT ![u].status = "RECORDED"]
        /\ trusted' = IF trusted.id = trigger[u].conn THEN Gate(trusted) ELSE trusted
    BY DEF RecordTrigger, Free, process, telegram
  <1>2. trigger'[u] = [conn |-> trigger[u].conn, status |-> "RECORDED"]
        /\ trigger[u].conn \in Connection
        /\ \A v \in Update : v # u => trigger'[v] = trigger[v]
    BY <1>1 DEF ConnInv, TriggersOK, TriggerRow
  <1>3. TriggersOK'
    <2>1. trigger'[u] \in TriggerRow
      BY <1>2 DEF TriggerRow
    <2> QED
      BY <1>1, <1>2, <2>1 DEF ConnInv, TriggersOK
  <1>4. Shrunk(trusted', trusted)
    BY <1>1, GateShrinks, SameShrinks DEF ConnInv, TablesOK
  <1>5. TablesOK' /\ Ownership'
    BY <1>1, <1>4, ShrunkKeeps DEF ConnInv, TablesOK
  <1>6. TelegramOK' /\ ProcessOK' /\ JobOK(job)' /\ InFlight'
    BY <1>1, IdleInFlight DEF ConnInv, TelegramOK, ProcessOK
  <1>7. ConfirmedGranted'
    <2>1. SUFFICES ASSUME trusted'.state = "CONFIRMED" PROVE Granted(trusted.grant, trusted.id)'
      BY DEF ConfirmedGranted
    <2>2. trusted.id # trigger[u].conn /\ trusted' = trusted
      BY <1>1, <2>1, GateShrinks DEF ConnInv, TablesOK
    <2>3. Granted(trusted.grant, trusted.id)
      BY <2>1, <2>2 DEF ConnInv, ConfirmedGranted
    <2>4. \A v \in Update : trigger[v] = [conn |-> trusted.id, status |-> "SENT"] => v # u
      BY <2>2
    <2> QED
      BY <1>1, <1>2, <2>2, <2>3, <2>4 DEF Granted
  <1>8. PendingHasCause'
    <2>1. SUFFICES ASSUME global' # "AUTH_FAILED", trusted'.state = "PENDING"
                   PROVE  \/ startup' = trusted'.id
                          \/ \E v \in Update : trigger'[v] = [conn |-> trusted'.id, status |-> "RECORDED"]
      BY DEF PendingHasCause
    <2>2. CASE trusted.id = trigger[u].conn
      BY <1>2, <1>4, <2>2 DEF Shrunk
    <2>3. CASE trusted.id # trigger[u].conn
      <3>1. trusted' = trusted
        BY <1>1, <2>3
      <3>2. \/ startup = trusted.id
            \/ \E v \in Update : trigger[v] = [conn |-> trusted.id, status |-> "RECORDED"]
        BY <1>1, <2>1, <3>1 DEF ConnInv, PendingHasCause
      <3>3. \A v \in Update : trigger[v] = [conn |-> trusted.id, status |-> "RECORDED"] => v # u
        BY <2>3
      <3> QED
        BY <1>1, <1>2, <3>1, <3>2, <3>3
    <2> QED
      BY <2>2, <2>3
  <1> QED
    BY <1>3, <1>5, <1>6, <1>7, <1>8 DEF ConnInv

\* The outbox worker disables the connection, under a lookup or not.
LEMMA DisableKeeps ==
    ASSUME ConnInv, Disable
    PROVE  ConnInv'
  <1>1. UNCHANGED owner /\ UNCHANGED cand /\ UNCHANGED guard /\ UNCHANGED global
        /\ UNCHANGED phase /\ UNCHANGED startup /\ UNCHANGED trigger /\ UNCHANGED tg /\ UNCHANGED now
        /\ phase = "SERVING" /\ trusted.id # 0
        /\ trusted' = [trusted EXCEPT !.grant = @ \ Enabled, !.rev = @ + 1]
        /\ job' = [job EXCEPT !.overtaken = job # Idle]
    BY DEF Disable, telegram
  <1>2. TrustOK(trusted) /\ JobOK(job)
    BY DEF ConnInv, TablesOK
  <1>3. Shrunk(trusted', trusted) /\ trusted'.state = trusted.state
    <2>1. PICK g : g = trusted.grant \ Enabled
      OBVIOUS
    <2>2. trusted' = [trusted EXCEPT !.grant = g, !.rev = @ + 1] /\ g \subseteq trusted.grant
      BY <1>1, <2>1
    <2> QED
      BY <1>1, <1>2, <2>2, GrantShrinks
  <1>4. trusted'.rev = trusted.rev + 1 /\ trusted.rev \in Int
    BY <1>1, <1>2, TrustShape DEF TrustedRow
  <1>5. TablesOK' /\ Ownership'
    BY <1>1, <1>3, ShrunkKeeps DEF ConnInv, TablesOK
  <1>6. TelegramOK' /\ ProcessOK' /\ TriggersOK'
    BY <1>1 DEF ConnInv, TelegramOK, ProcessOK, TriggersOK
  <1>7. ConfirmedGranted' /\ PendingHasCause'
    <2>1. \A v : Granted(v, trusted.id) => Granted(v, trusted.id)'
      BY <1>1, <1>3 DEF Granted, Shrunk
    <2>2. trusted.state = "CONFIRMED" => Granted(trusted'.grant, trusted.id)
      BY <1>3 DEF ConnInv, ConfirmedGranted, Granted, Shrunk
    <2> QED
      BY <1>1, <1>3, <2>1, <2>2 DEF ConnInv, ConfirmedGranted, PendingHasCause, Granted, Shrunk
  <1>8. JobOK(job)' /\ InFlight'
    <2>1. CASE job = Idle
      <3>1. job' = Idle
        BY <1>1, <2>1 DEF Idle
      <3> QED
        BY <3>1, IdleInFlight
    <2>2. CASE job # Idle
      <3>1. /\ JobOK(job') /\ job'.kind = job.kind /\ job'.update = job.update /\ job'.conn = job.conn
            /\ job'.snap = job.snap /\ job'.answer = job.answer /\ job'.pc = job.pc
        <4>1. CASE job \in LookupJob
          BY <1>1, <2>2, <4>1 DEF JobOK, LookupJob
        <4>2. CASE ClaimJob(job)
          BY <1>1, <2>2, <4>2 DEF JobOK, ClaimJob
        <4> QED
          BY <1>2, <2>2, <4>1, <4>2 DEF JobOK
      <3>2. job.kind \in {"TRIGGER", "STARTUP"} => job.snap.rev \in Int
        BY <1>2, JobShape DEF Revisions
      <3>3. job.pc = "ANSWERED" => Granted(job.answer.grant, job.conn)'
        BY <1>1, <3>1 DEF ConnInv, InFlight, Granted
      <3>4. trusted'.id = trusted.id
        BY <1>3 DEF Shrunk
      <3>5. InFlight'
        BY <1>1, <1>4, <3>1, <3>2, <3>3, <3>4 DEF ConnInv, InFlight
      <3> QED
        BY <3>1, <3>5
    <2> QED
      BY <2>1, <2>2
  <1> QED
    BY <1>5, <1>6, <1>7, <1>8 DEF ConnInv

\* READY is published only with nothing pending.
LEMMA PublishReadyKeeps ==
    ASSUME ConnInv, PublishReady
    PROVE  ConnInv'
  <1>1. UNCHANGED owner /\ UNCHANGED trusted /\ UNCHANGED cand /\ UNCHANGED guard /\ global' = "READY"
        /\ UNCHANGED phase /\ UNCHANGED startup /\ UNCHANGED trigger /\ UNCHANGED tg /\ UNCHANGED now
        /\ UNCHANGED job /\ trusted.state # "PENDING"
    BY DEF PublishReady, process, telegram
  <1>2. TablesOK' /\ TriggersOK' /\ TelegramOK' /\ ProcessOK' /\ JobOK(job)'
    BY <1>1 DEF ConnInv, TablesOK, GlobalOK, TriggersOK, TelegramOK, ProcessOK
  <1>3. Ownership' /\ ConfirmedGranted' /\ PendingHasCause' /\ InFlight'
    BY <1>1 DEF ConnInv, Ownership, ConfirmedGranted, PendingHasCause, Granted, InFlight
  <1> QED
    BY <1>2, <1>3 DEF ConnInv

\* A crash or a shutdown forgets the job, not the tables.
LEMMA StopKeeps ==
    ASSUME ConnInv, Stop
    PROVE  ConnInv'
  <1>1. UNCHANGED owner /\ UNCHANGED trusted /\ UNCHANGED cand /\ UNCHANGED guard /\ UNCHANGED global
        /\ phase' = "DOWN" /\ startup' = 0 /\ job' = Idle
        /\ UNCHANGED trigger /\ UNCHANGED tg /\ UNCHANGED now
    BY DEF Stop, tables, telegram
  <1>2. TablesOK' /\ TriggersOK' /\ TelegramOK' /\ ProcessOK' /\ JobOK(job)' /\ InFlight'
    BY <1>1, IdleInFlight DEF ConnInv, TablesOK, TriggersOK, TelegramOK, ProcessOK
  <1>3. Ownership' /\ ConfirmedGranted' /\ PendingHasCause'
    BY <1>1 DEF ConnInv, Ownership, ConfirmedGranted, PendingHasCause, Granted
  <1> QED
    BY <1>2, <1>3 DEF ConnInv

\* A start closes the gate and loads or settles the Owner.
LEMMA RestartKeeps ==
    ASSUME ConnInv, Restart
    PROVE  ConnInv'
  <1> USE ConnectionConstants DEF ConnectionConstants
  <1>1. UNCHANGED cand /\ UNCHANGED guard /\ global' = "PENDING" /\ trusted' = Gate(trusted)
        /\ phase = "DOWN" /\ phase' = (IF trusted.id = 0 THEN "SERVING" ELSE "STARTING")
        /\ UNCHANGED startup /\ UNCHANGED job /\ UNCHANGED trigger /\ UNCHANGED tg /\ UNCHANGED now
        /\ job = Idle
    BY DEF Restart, telegram, ConnInv, InFlight
  <1>2. Shrunk(trusted', trusted) /\ trusted'.state # "CONFIRMED"
    BY <1>1, GateShrinks DEF ConnInv, TablesOK
  <1>3. trusted.id = 0 => trusted' = NoTrust
    BY <1>1, TrustShape DEF ConnInv, TablesOK, Gate, NoTrust
  <1>4. TriggersOK' /\ TelegramOK' /\ ProcessOK' /\ JobOK(job)' /\ InFlight'
    BY <1>1, IdleInFlight DEF ConnInv, TriggersOK, TelegramOK, ProcessOK
  <1>5. PendingHasCause' /\ ConfirmedGranted'
    BY <1>1, <1>2, <1>3 DEF PendingHasCause, ConfirmedGranted, NoTrust
  <1>6. CASE owner.state # "PENDING"
    <2>1. owner' = owner
      BY <1>6 DEF Restart
    <2>2. TablesOK' /\ Ownership'
      BY <1>1, <1>2, <2>1, <1>6 DEF ConnInv, TablesOK, GlobalOK, Shrunk, Ownership
    <2> QED
      BY <1>4, <1>5, <2>2 DEF ConnInv
  <1>7. CASE owner.state = "PENDING" /\ trusted.id = 0
    <2>1. owner' = NoOwner("UNCLAIMED")
      BY <1>7 DEF Restart
    <2>2. OwnerOK(owner') /\ owner'.state = "UNCLAIMED" /\ owner'.user = NoUser /\ owner'.floor = 0
      BY <2>1 DEF NoOwner, OwnerOK, OwnerRow, Time
    <2>3. TablesOK' /\ Ownership'
      BY <1>1, <1>2, <2>2, <1>7 DEF ConnInv, TablesOK, GlobalOK, Shrunk, Ownership
    <2> QED
      BY <1>4, <1>5, <2>3 DEF ConnInv
  <1>8. CASE owner.state = "PENDING" /\ trusted.id # 0
    <2>1. owner' = [state |-> "CLAIMED", user |-> trusted.user, floor |-> 0,
                    source |-> "LEGACY_FALLBACK", since |-> now]
      BY <1>8 DEF Restart
    <2>2. trusted.user \in User
      BY <1>8, TrustShape DEF ConnInv, TablesOK, TrustedRow
    <2>3. OwnerOK(owner') /\ owner'.state = "CLAIMED" /\ owner'.user = trusted.user /\ owner'.floor = 0
      BY <2>1, <2>2 DEF OwnerOK, OwnerRow, Time, ConnInv, TelegramOK, Dates
    <2>4. TablesOK' /\ Ownership'
      BY <1>1, <1>2, <2>2, <2>3, <1>8 DEF ConnInv, TablesOK, GlobalOK, Shrunk, Ownership
    <2> QED
      BY <1>4, <1>5, <2>4 DEF ConnInv
  <1> QED
    BY <1>6, <1>7, <1>8

-----------------------------------------------------------------------------
(***************************************************************************)
(* Commits.                                                                *)
(***************************************************************************)
\* The row written for an answer.
LEMMA RowOK ==
    ASSUME NEW c \in Connection, NEW a, a.user \in User, a.date \in Dates, a.grant \in SUBSET Grant,
           NEW r \in Nat
    PROVE  /\ TrustOK(Row(c, a, r)) /\ Row(c, a, r).id = c /\ Row(c, a, r).user = a.user
           /\ Row(c, a, r).date = a.date /\ Row(c, a, r).date # 0 /\ Row(c, a, r).grant = a.grant
           /\ Row(c, a, r).state = "CONFIRMED"
  BY ConnectionConstants DEF ConnectionConstants, Row, TrustOK, TrustedRow, Dates, Time

\* The row of a candidate.
LEMMA CandidateOK ==
    ASSUME NEW a, a.user \in User, a.date \in Dates, a.grant \in SUBSET Grant, NEW r \in Nat
    PROVE  Candidate(a, r) \in CandidateRow /\ Candidate(a, r).date \in Dates /\ Candidate(a, r).user = a.user
  BY ConnectionConstants DEF ConnectionConstants, Candidate, CandidateRow, Dates

\* A candidate is added or replaced.
LEMMA PutOK ==
    ASSUME NEW rows, TableOK(rows), NEW c \in Connection, NEW row \in CandidateRow, row.date \in Dates
    PROVE  /\ TableOK(Put(rows, c, row)) /\ DOMAIN Put(rows, c, row) = DOMAIN rows \cup {c}
           /\ \A x \in DOMAIN Put(rows, c, row) :
                Put(rows, c, row)[x] = row \/ (x \in DOMAIN rows /\ Put(rows, c, row)[x] = rows[x])
  <1>1. /\ DOMAIN Put(rows, c, row) = DOMAIN rows \cup {c}
        /\ \A x \in DOMAIN rows \cup {c} : Put(rows, c, row)[x] = IF x = c THEN row ELSE rows[x]
    BY DEF Put
  <1> QED
    BY <1>1 DEF TableOK

\* Candidates are removed.
LEMMA WithoutOK ==
    ASSUME NEW rows, TableOK(rows), NEW S
    PROVE  /\ TableOK(Without(rows, S)) /\ DOMAIN Without(rows, S) = DOMAIN rows \ S
           /\ \A x \in DOMAIN Without(rows, S) : Without(rows, S)[x] = rows[x]
  BY DEF Without, TableOK

\* The revision of a candidate, or the one before the first.
LEMMA RevisionNext ==
    ASSUME ConnInv, NEW c
    PROVE  RevisionOf(c) + 1 \in Nat
  BY DEF ConnInv, TablesOK, TableOK, CandidateRow, RevisionOf

\* The chat Telegram reports touches nothing but where the chat comes from.
LEMMA WithChatOK ==
    ASSUME NEW o, OwnerOK(o)
    PROVE  /\ OwnerOK(WithChat(o)) /\ WithChat(o).state = o.state /\ WithChat(o).user = o.user
           /\ WithChat(o).floor = o.floor
  BY DEF WithChat, OwnerOK, OwnerRow

\* A higher floor.
LEMMA FloorOK ==
    ASSUME NEW o, OwnerOK(o), NEW f \in Time, NEW n, n = [o EXCEPT !.floor = f]
    PROVE  OwnerOK(n) /\ n.state = o.state /\ n.user = o.user /\ n.floor = f /\ n.since = o.since
  <1>1. f \in Nat
    BY ConnectionConstants DEF ConnectionConstants, Time
  <1> QED
    BY <1>1 DEF OwnerOK, OwnerRow

\* What a lookup in progress says of the state it is in.
LEMMA LookupFacts ==
    ASSUME ConnInv, job.kind \in {"TRIGGER", "STARTUP"}
    PROVE  /\ job.conn \in Connection /\ job.answer \in Answer /\ job.snap \in Revisions
           /\ job.snap.cand + 1 \in Nat /\ job.snap.holder = trusted.id
           /\ phase \in {"STARTING", "SERVING"} /\ owner.state \in {"UNCLAIMED", "CLAIMED"}
           /\ job.kind = "TRIGGER" => phase = "SERVING"
           /\ job.kind = "STARTUP" => startup = job.conn \/ job.conn = trusted.id
           /\ job.conn # 0
           /\ owner.state = "CLAIMED" <=> owner.user # NoUser
  <1>1. job \in LookupJob /\ job.conn \in Connection /\ job.answer \in Answer /\ job.snap \in Revisions
    BY JobShape DEF ConnInv
  <1>2. job # Idle
    BY DEF Idle
  <1>3. phase \in {"STARTING", "SERVING"} /\ job.snap.cand + 1 \in Nat /\ job.snap.holder = trusted.id
        /\ (job.kind = "TRIGGER" => phase = "SERVING")
    BY <1>1, <1>2 DEF ConnInv, InFlight, ProcessOK, Revisions
  <1>4. owner.state \in {"UNCLAIMED", "CLAIMED"} /\ (owner.state = "CLAIMED" <=> owner.user # NoUser)
    BY <1>3, ConnectionConstants DEF ConnectionConstants, ConnInv, Ownership, TablesOK, OwnerOK, OwnerRow
  <1>5. job.kind = "STARTUP" => startup = job.conn \/ job.conn = trusted.id
    BY <1>2, <1>3 DEF ConnInv, InFlight
  <1> QED
    BY <1>1, <1>3, <1>4, <1>5, ConnectionConstants DEF ConnectionConstants

\* A trigger that is applied leaves the others as they were.
LEMMA AppliedKeeps ==
    ASSUME ConnInv, job.kind = "TRIGGER", Applied
    PROVE  /\ TriggersOK'
           /\ \A u \in Update : trigger[u].status = "SENT" => trigger'[u] = trigger[u]
           /\ \A u \in Update : trigger[u].conn # job.conn => trigger'[u] = trigger[u]
  <1>1. job.update \in Update /\ trigger[job.update].status = "RECORDED"
        /\ trigger[job.update].conn = job.conn
    BY DEF ConnInv, InFlight
  <1>2. trigger' = [trigger EXCEPT ![job.update].status = "APPLIED"]
    BY DEF Applied
  <1>3. \A u \in Update : u # job.update => trigger'[u] = trigger[u]
    BY <1>2 DEF ConnInv, TriggersOK
  <1>4. trigger'[job.update] \in TriggerRow /\ trigger'[job.update].status = "APPLIED"
    BY <1>1, <1>2 DEF ConnInv, TriggersOK, TriggerRow
  <1> QED
    BY <1>1, <1>2, <1>3, <1>4 DEF ConnInv, TriggersOK

\* An answer that is accepted is the Owner's, and what it installs, confirms
\* or disqualifies is his too.
LEMMA ReconcileKeeps ==
    ASSUME ConnInv, job.kind \in {"TRIGGER", "STARTUP"}, job.pc = "ANSWERED", Reconcile,
           UNCHANGED <<global, tg>>, phase' = "SERVING",
           \A u \in Update : trigger[u].status = "SENT" => trigger'[u] = trigger[u]
    PROVE  TablesOK' /\ Ownership' /\ ConfirmedGranted' /\ trusted'.state # "PENDING"
  <1>1. /\ job.conn \in Connection /\ job.conn # 0 /\ job.snap.cand + 1 \in Nat
        /\ job.answer.user \in User /\ job.answer.date \in Dates /\ job.answer.grant \in SUBSET Grant
    BY LookupFacts DEF ConnInv, InFlight, Answer
  <1>2. job.answer.user = owner.user
    BY DEF Reconcile, Accepts, OwnersAnswer
  <1>3. owner.state = "CLAIMED"
    BY <1>1, <1>2, LookupFacts, ConnectionConstants DEF ConnectionConstants
  <1>4. OwnerOK(owner) /\ TrustOK(trusted) /\ TableOK(cand) /\ GuardOK(guard)
    BY DEF ConnInv, TablesOK
  <1>5. /\ trusted.id # 0 => trusted.user = owner.user
        /\ \A c \in DOMAIN cand : cand[c].user = owner.user
    BY <1>3 DEF ConnInv, Ownership
  <1>6. \A g, c : Granted(g, c) => Granted(g, c)'
    BY DEF Granted
  <1>7. CASE (Installs /\ Install) \/ (Confirms /\ Confirm)
    <2>1. PICK r \in Nat : trusted' = Row(job.conn, job.answer, r)
      <3>1. CASE Installs /\ Install
        BY <1>1, <3>1 DEF Install
      <3>2. CASE Confirms /\ Confirm
        <4>1. trusted.rev + 1 \in Nat
          BY <1>1, <1>4, <3>2, TrustShape DEF Confirms, TrustedRow
        <4> QED
          BY <3>2, <4>1 DEF Confirm
      <3> QED
        BY <1>7, <3>1, <3>2
    <2>2. cand' = Without(cand, {job.conn}) /\ owner' = WithChat(owner) /\ guard' = guard
      BY <1>7 DEF Install, Confirm
    <2>3. /\ TrustOK(trusted') /\ trusted'.id = job.conn /\ trusted'.user = owner.user /\ trusted'.date # 0
          /\ trusted'.grant = job.answer.grant /\ trusted'.state = "CONFIRMED"
      BY <1>1, <1>2, <2>1, RowOK
    <2>4. TableOK(cand') /\ DOMAIN cand' = DOMAIN cand \ {job.conn}
          /\ \A x \in DOMAIN cand' : cand'[x] = cand[x]
      <3>1. \A S : /\ TableOK(Without(cand, S)) /\ DOMAIN Without(cand, S) = DOMAIN cand \ S
                   /\ \A x \in DOMAIN Without(cand, S) : Without(cand, S)[x] = cand[x]
        BY <1>4, WithoutOK, Zenon
      <3> QED
        BY <2>2, <3>1, Zenon
    <2>5. OwnerOK(owner') /\ owner'.state = "CLAIMED" /\ owner'.user = owner.user /\ owner'.floor = owner.floor
      BY <1>3, <1>4, <2>2, WithChatOK
    <2>6. TablesOK'
      BY <1>4, <2>2, <2>3, <2>4, <2>5 DEF ConnInv, TablesOK
    <2>7. Ownership'
      BY <1>1, <1>2, <1>5, <2>3, <2>4, <2>5 DEF Ownership
    <2>8. Granted(job.answer.grant, job.conn)
      BY DEF ConnInv, InFlight
    <2>9. ConfirmedGranted'
      BY <1>6, <2>3, <2>8 DEF ConfirmedGranted
    <2> QED
      BY <2>3, <2>6, <2>7, <2>9
  <1>8. CASE Ambiguous /\ Disqualify
    <2>1. trusted.id \in Connection /\ trusted.id # 0 /\ trusted.date = job.answer.date
          /\ trusted.user = owner.user /\ trusted.grant \in SUBSET Grant
      BY <1>4, <1>5, <1>8, TrustShape DEF Ambiguous
    <2> DEFINE one == Candidate(trusted, RevisionOf(trusted.id) + 1)
               two == Candidate(job.answer, RevisionOf(job.conn) + 1)
               first == Put(cand, trusted.id, one)
    <2>2. one \in CandidateRow /\ one.date \in Dates /\ one.user = owner.user
      BY <1>1, <1>2, <2>1, RevisionNext, CandidateOK
    <2>3. two \in CandidateRow /\ two.date \in Dates /\ two.user = owner.user
      BY <1>1, <1>2, RevisionNext, CandidateOK
    <2>4. trusted' = NoTrust /\ cand' = Put(first, job.conn, two) /\ guard' = FollowGuard(guard, job.answer.date)
      BY <1>8 DEF Disqualify
    <2> HIDE DEF one, two
    <2>5. TableOK(first) /\ \A x \in DOMAIN first : first[x] = one \/ (x \in DOMAIN cand /\ first[x] = cand[x])
      BY <1>4, <2>1, <2>2, PutOK, Zenon
    <2> HIDE DEF first
    <2>a. TableOK(cand') /\ \A x \in DOMAIN cand' : cand'[x] = two \/ (x \in DOMAIN first /\ cand'[x] = first[x])
      BY <1>1, <2>3, <2>4, <2>5, PutOK, Zenon
    <2>6. TableOK(cand') /\ \A x \in DOMAIN cand' : cand'[x].user = owner.user
      BY <1>5, <2>2, <2>3, <2>5, <2>a
    <2>7. PICK f : f = Max({owner.floor, job.answer.date})
      OBVIOUS
    <2>8. f \in Time /\ job.answer.date \in Time
      BY <1>1, <1>4, <2>7, MaxOfTwo, ConnectionConstants DEF ConnectionConstants, OwnerOK, Time, Dates
    <2>9. PICK o : o = [owner EXCEPT !.floor = f] /\ owner' = WithChat(o)
      BY <1>8, <2>7 DEF Disqualify
    <2>10. OwnerOK(o) /\ o.state = "CLAIMED" /\ o.user = owner.user
      BY <1>3, <1>4, <2>8, <2>9, FloorOK
    <2>11. OwnerOK(owner') /\ owner'.state = "CLAIMED" /\ owner'.user = owner.user
      BY <2>9, <2>10, WithChatOK
    <2>12. GuardOK(guard')
      BY <1>4, <2>4, <2>8, GuardFollows
    <2>13. TrustOK(trusted') /\ trusted'.id = 0 /\ trusted'.state = "NONE" /\ 0 \notin Connection
      BY <2>4, ConnectionConstants DEF ConnectionConstants, NoTrust, TrustOK, Time
    <2>14. TablesOK'
      BY <2>6, <2>11, <2>12, <2>13 DEF ConnInv, TablesOK
    <2>15. 0 \notin DOMAIN cand'
      BY <2>6, <2>13 DEF TableOK
    <2>16. Ownership'
      BY <1>1, <1>2, <2>6, <2>11, <2>13, <2>15 DEF Ownership
    <2> QED
      BY <2>13, <2>14, <2>16 DEF ConfirmedGranted
  <1> QED
    BY <1>7, <1>8 DEF Reconcile

\* A connection Telegram does not know any more is not trusted any more.
LEMMA RetireKeeps ==
    ASSUME ConnInv, job.kind \in {"TRIGGER", "STARTUP"}, Retire,
           UNCHANGED <<guard, global, tg>>, phase' = "SERVING",
           \A u \in Update : trigger[u].status = "SENT" => trigger'[u] = trigger[u]
    PROVE  /\ TablesOK' /\ Ownership' /\ ConfirmedGranted'
           /\ trusted' = NoTrust \/ (trusted' = trusted /\ trusted.id # job.conn)
  <1>1. job.conn \in Connection /\ job.conn # 0 /\ owner.state \in {"UNCLAIMED", "CLAIMED"}
    BY LookupFacts
  <1>2. OwnerOK(owner) /\ TrustOK(trusted) /\ TableOK(cand) /\ GuardOK(guard)
    BY DEF ConnInv, TablesOK
  <1>3. CASE trusted.id # job.conn
    <2>1. cand' = Without(cand, {job.conn}) /\ owner' = owner /\ trusted' = trusted
      BY <1>3 DEF Retire
    <2>2. TableOK(cand') /\ DOMAIN cand' = DOMAIN cand \ {job.conn}
          /\ \A x \in DOMAIN cand' : cand'[x] = cand[x]
      <3>1. \A S : /\ TableOK(Without(cand, S)) /\ DOMAIN Without(cand, S) = DOMAIN cand \ S
                   /\ \A x \in DOMAIN Without(cand, S) : Without(cand, S)[x] = cand[x]
        BY <1>2, WithoutOK, Zenon
      <3> QED
        BY <2>1, <3>1, Zenon
    <2>3. TablesOK'
      BY <2>1, <2>2 DEF ConnInv, TablesOK
    <2>4. Ownership'
      BY <1>1, <2>1, <2>2 DEF ConnInv, Ownership
    <2>5. \A g, c : Granted(g, c) => Granted(g, c)'
      BY DEF Granted
    <2>6. ConfirmedGranted'
      BY <2>1, <2>5 DEF ConnInv, ConfirmedGranted
    <2> QED
      BY <1>3, <2>1, <2>3, <2>4, <2>6
  <1>4. CASE trusted.id = job.conn
    <2>1. PICK d, f : /\ d = (IF trusted.date = 0 THEN owner.since ELSE trusted.date)
                      /\ f = Max({owner.floor, d}) /\ owner' = [owner EXCEPT !.floor = f]
      BY <1>4 DEF Retire
    <2>2. trusted' = NoTrust /\ cand' = cand
      BY <1>4 DEF Retire
    <2>a. d \in Time /\ owner.floor \in Time
      BY <1>2, <2>1 DEF OwnerOK, TrustOK
    <2>b. Time \subseteq Nat
      BY ConnectionConstants DEF ConnectionConstants, Time
    <2>c. f \in {owner.floor, d}
      BY <2>1, <2>a, <2>b, MaxOfTwo
    <2>3. d \in Time /\ f \in Time
      BY <2>a, <2>c
    <2>4. owner.state = "CLAIMED" /\ owner.user \in User
      BY <1>1, <1>4 DEF ConnInv, Ownership
    <2>5. OwnerOK(owner') /\ owner'.state = "CLAIMED" /\ owner'.user = owner.user
      BY <1>2, <2>1, <2>3, <2>4, FloorOK
    <2>6. TrustOK(trusted') /\ trusted'.id = 0 /\ trusted'.state = "NONE" /\ 0 \notin Connection
      BY <2>2, ConnectionConstants DEF ConnectionConstants, NoTrust, TrustOK, Time
    <2>7. TablesOK'
      BY <2>2, <2>5, <2>6 DEF ConnInv, TablesOK
    <2>8. 0 \notin DOMAIN cand'
      BY <1>2, <2>2, <2>6 DEF TableOK
    <2>9. Ownership'
      BY <2>2, <2>4, <2>5, <2>6, <2>8 DEF Ownership, ConnInv
    <2> QED
      BY <2>2, <2>6, <2>7, <2>9 DEF ConfirmedGranted
  <1> QED
    BY <1>3, <1>4

\* A settled job leaves the worker free in a process that serves.
LEMMA SettledKeeps ==
    ASSUME ConnInv, job' = Idle, phase' = "SERVING", startup' \in Connection \cup {0},
           UNCHANGED telegram, TriggersOK', TablesOK', Ownership', ConfirmedGranted', PendingHasCause'
    PROVE  ConnInv'
  <1>1. UNCHANGED tg /\ UNCHANGED now
    BY DEF telegram
  <1>2. TelegramOK' /\ ProcessOK' /\ JobOK(job)' /\ InFlight'
    BY <1>1, IdleInFlight DEF ConnInv, TelegramOK, ProcessOK
  <1> QED
    BY <1>2 DEF ConnInv

\* Tables left alone keep what they say in a process that serves.
LEMMA TablesStay ==
    ASSUME ConnInv, UNCHANGED <<tables, tg>>, phase' = "SERVING", phase # "DOWN",
           \A u \in Update : trigger[u].status = "SENT" => trigger'[u] = trigger[u]
    PROVE  TablesOK' /\ Ownership' /\ ConfirmedGranted' /\ trusted' = trusted /\ global' = global
  <1>1. UNCHANGED owner /\ UNCHANGED trusted /\ UNCHANGED cand /\ UNCHANGED guard /\ UNCHANGED global
    BY DEF tables
  <1>2. \A g, c : Granted(g, c) => Granted(g, c)'
    BY DEF Granted
  <1>3. TablesOK' /\ Ownership'
    BY <1>1 DEF ConnInv, TablesOK, Ownership
  <1> QED
    BY <1>1, <1>2, <1>3 DEF ConnInv, ConfirmedGranted

\* A trigger that is settled was of some use, or still has to be.
LEMMA TriggerCause ==
    ASSUME ConnInv, job.kind = "TRIGGER", UNCHANGED <<startup, global>>,
           \/ trigger' = trigger /\ trusted' = trusted
           \/ Applied /\ trusted'.state # "PENDING"
           \/ Applied /\ trusted' = trusted /\ trusted.id # job.conn
    PROVE  PendingHasCause'
  <1>1. phase = "SERVING"
    BY LookupFacts
  <1>2. CASE trusted'.state # "PENDING"
    BY <1>2 DEF PendingHasCause
  <1>3. CASE trigger' = trigger /\ trusted' = trusted
    BY <1>1, <1>3 DEF ConnInv, PendingHasCause
  <1>4. CASE Applied /\ trusted' = trusted /\ trusted.id # job.conn
    <2>1. \A u \in Update : trigger[u].conn # job.conn => trigger'[u] = trigger[u]
      BY <1>4, AppliedKeeps
    <2> QED
      BY <1>1, <1>4, <2>1 DEF ConnInv, PendingHasCause
  <1> QED
    BY <1>2, <1>3, <1>4

\* A trigger that could not be settled stays recorded.
LEMMA TriggerRetries ==
    ASSUME ConnInv, job.kind = "TRIGGER", Retry, Release
    PROVE  ConnInv'
  <1>1. phase = "SERVING" /\ phase' = phase /\ startup' = startup /\ UNCHANGED telegram /\ job' = Idle
        /\ UNCHANGED tables /\ trigger' = trigger /\ tg' = tg
    BY LookupFacts DEF Release, Retry, telegram
  <1>2. TablesOK' /\ Ownership' /\ ConfirmedGranted' /\ trusted' = trusted /\ global' = global
    BY <1>1, TablesStay
  <1>3. PendingHasCause' /\ TriggersOK'
    BY <1>1, <1>2, TriggerCause DEF ConnInv, TriggersOK
  <1> QED
    BY <1>1, <1>2, <1>3, SettledKeeps DEF ConnInv, ProcessOK

\* An unclaimed installation keeps the answer as a candidate.
LEMMA CandidateWritten ==
    ASSUME ConnInv, job.kind = "TRIGGER", job.pc = "ANSWERED", ~Claimed,
           WriteCandidate(job.conn, job.answer), UNCHANGED <<owner, trusted, global, phase>>
    PROVE  TablesOK' /\ Ownership' /\ trusted.id = 0
  <1>1. /\ job.conn \in Connection
        /\ job.answer.user \in User /\ job.answer.date \in Dates /\ job.answer.grant \in SUBSET Grant
    BY LookupFacts DEF ConnInv, InFlight, Answer
  <1>2. owner.state = "UNCLAIMED" /\ trusted.id = 0 /\ phase = "SERVING"
    BY LookupFacts DEF Claimed, ConnInv, Ownership
  <1>3. PICK w, g : w = Written(job.conn, job.answer) /\ g = FollowGuard(guard, job.answer.date)
    OBVIOUS
  <1>4. GuardOK(g)
    <2>1. job.answer.date \in Time
      BY <1>1, ConnectionConstants DEF ConnectionConstants, Time, Dates
    <2> QED
      BY <2>1, <1>3, GuardFollows DEF ConnInv, TablesOK
  <1>5. TableOK(w)
    <2>1. TableOK(cand)
      BY DEF ConnInv, TablesOK
    <2>2. TableOK(Without(cand, {job.conn}))
      BY <2>1, WithoutOK
    <2>3. PICK row : row = Candidate(job.answer, RevisionOf(job.conn) + 1)
      OBVIOUS
    <2>4. row \in CandidateRow /\ row.date \in Dates
      BY <1>1, <2>3, CandidateOK, RevisionNext
    <2>5. TableOK(Put(cand, job.conn, row))
      BY <1>1, <2>1, <2>4, PutOK
    <2> QED
      BY <1>3, <2>2, <2>3, <2>5 DEF Written
  <1>6. cand' = Prune(w, g).rows /\ guard' = Prune(w, g).guard
    BY <1>3 DEF WriteCandidate
  <1>7. TableOK(cand') /\ GuardOK(guard')
    BY <1>4, <1>5, <1>6, PruneKeeps
  <1>8. TablesOK'
    BY <1>7 DEF ConnInv, TablesOK
  <1>9. 0 \notin DOMAIN cand'
    BY <1>7, ConnectionConstants DEF ConnectionConstants, TableOK
  <1> QED
    BY <1>2, <1>8, <1>9 DEF ConnInv, Ownership

\* The answer to a trigger is committed, turned away or retried.
LEMMA CommitTriggerKeeps ==
    ASSUME ConnInv, CommitTrigger
    PROVE  ConnInv'
  <1>1. job.kind = "TRIGGER" /\ job.pc = "ANSWERED" /\ Release /\ phase = "SERVING" /\ phase' = phase
        /\ startup' = startup /\ UNCHANGED telegram /\ job' = Idle /\ tg' = tg
    BY LookupFacts DEF CommitTrigger, Release, telegram
  <1>2. startup' \in Connection \cup {0}
    BY <1>1 DEF ConnInv, ProcessOK
  <1>3. CASE Retry
    BY <1>1, <1>3, TriggerRetries
  <1>4. CASE /\ ~Claimed /\ WriteCandidate(job.conn, job.answer) /\ Applied
             /\ UNCHANGED <<owner, trusted, global>>
    <2>1. TablesOK' /\ Ownership' /\ trusted.id = 0
      BY <1>1, <1>4, CandidateWritten
    <2>2. trusted' = trusted /\ trusted.state = "NONE" /\ trusted.id # job.conn
      BY <1>1, <1>4, <2>1, TrustShape, LookupFacts DEF ConnInv, TablesOK
    <2>3. ConfirmedGranted' /\ PendingHasCause' /\ TriggersOK'
      BY <1>1, <1>4, <2>2, TriggerCause, AppliedKeeps DEF ConfirmedGranted
    <2> QED
      BY <1>1, <1>2, <2>1, <2>3, SettledKeeps
  <1>5. CASE Reconcile /\ Applied /\ UNCHANGED global
    <2>1. TriggersOK' /\ \A u \in Update : trigger[u].status = "SENT" => trigger'[u] = trigger[u]
      BY <1>1, <1>5, AppliedKeeps
    <2>2. TablesOK' /\ Ownership' /\ ConfirmedGranted' /\ trusted'.state # "PENDING"
      BY <1>1, <1>5, <2>1, ReconcileKeeps
    <2>3. PendingHasCause'
      BY <2>2 DEF PendingHasCause
    <2> QED
      BY <1>1, <1>2, <2>1, <2>2, <2>3, SettledKeeps
  <1>6. CASE TurnedAway /\ Applied /\ UNCHANGED tables
    <2>1. TriggersOK' /\ \A u \in Update : trigger[u].status = "SENT" => trigger'[u] = trigger[u]
      BY <1>1, <1>6, AppliedKeeps
    <2>2. TablesOK' /\ Ownership' /\ ConfirmedGranted' /\ trusted' = trusted /\ global' = global
      BY <1>1, <1>6, <2>1, TablesStay
    <2>3. trusted.id # job.conn
      BY <1>1, <1>6, LookupFacts DEF TurnedAway, Matching
    <2>4. PendingHasCause'
      BY <1>1, <1>6, <2>2, <2>3, TriggerCause
    <2> QED
      BY <1>1, <1>2, <2>1, <2>2, <2>4, SettledKeeps
  <1>7. TriggerUnclaimed => Retry \/ (/\ ~Claimed /\ WriteCandidate(job.conn, job.answer) /\ Applied
                                      /\ UNCHANGED <<owner, trusted, global>>)
    BY DEF TriggerUnclaimed
  <1>8. TriggerClaimed => \/ Retry \/ (Reconcile /\ Applied /\ UNCHANGED global)
                          \/ (TurnedAway /\ Applied /\ UNCHANGED tables)
    BY DEF TriggerClaimed
  <1> QED
    BY <1>3, <1>4, <1>5, <1>6, <1>7, <1>8 DEF CommitTrigger

\* The connection a trigger names is gone.
LEMMA TriggerNotFoundKeeps ==
    ASSUME ConnInv, TriggerNotFound
    PROVE  ConnInv'
  <1>1. job.kind = "TRIGGER" /\ Release /\ phase = "SERVING" /\ phase' = phase
        /\ startup' = startup /\ UNCHANGED telegram /\ job' = Idle /\ tg' = tg
    BY LookupFacts DEF TriggerNotFound, Release, telegram
  <1>2. startup' \in Connection \cup {0}
    BY <1>1 DEF ConnInv, ProcessOK
  <1>3. CASE Retry
    BY <1>1, <1>3, TriggerRetries
  <1>4. CASE Retire /\ Applied /\ UNCHANGED <<guard, global>>
    <2>1. TriggersOK' /\ \A u \in Update : trigger[u].status = "SENT" => trigger'[u] = trigger[u]
      BY <1>1, <1>4, AppliedKeeps
    <2>2. /\ TablesOK' /\ Ownership' /\ ConfirmedGranted'
          /\ trusted' = NoTrust \/ (trusted' = trusted /\ trusted.id # job.conn)
      BY <1>1, <1>4, <2>1, RetireKeeps
    <2>3. trusted' = NoTrust => trusted'.state # "PENDING"
      BY DEF NoTrust
    <2>4. PendingHasCause'
      BY <1>1, <1>4, <2>2, <2>3, TriggerCause
    <2> QED
      BY <1>1, <1>2, <2>1, <2>2, <2>4, SettledKeeps
  <1> QED
    BY <1>3, <1>4 DEF TriggerNotFound

\* The lookup of a trigger failed.
LEMMA TriggerFailedKeeps ==
    ASSUME ConnInv, TriggerFailed
    PROVE  ConnInv'
  BY TriggerRetries DEF TriggerFailed

\* What the worker writes although it reports a conflict takes rights away.
LEMMA ConflictingShrinks ==
    ASSUME ConnInv, job.kind \in {"TRIGGER", "STARTUP"}
    PROVE  /\ Shrunk(Conflicting, trusted)
           /\ trusted.id # job.conn => Conflicting = trusted
           /\ Conflicting.state = "PENDING" => Conflicting = trusted \/ trusted.id = job.conn
  <1>1. TrustOK(trusted) /\ job.conn # 0
    BY LookupFacts DEF ConnInv, TablesOK
  <1>2. CASE trusted.id # job.conn \/ ~(OwnersAnswer /\ CandidateHolds /\ GuardHolds)
    <2>1. Conflicting = trusted
      BY <1>2 DEF Conflicting
    <2> QED
      BY <1>1, <2>1, SameShrinks
  <1>3. CASE ~(trusted.id # job.conn \/ ~(OwnersAnswer /\ CandidateHolds /\ GuardHolds)) /\ ~SameRevision
    <2>1. Conflicting = Intersection
      BY <1>3 DEF Conflicting
    <2>2. PICK g : g = trusted.grant \cap job.answer.grant
      OBVIOUS
    <2>3. Conflicting = trusted \/ Conflicting = [trusted EXCEPT !.grant = g, !.rev = @ + 1]
      BY <2>1, <2>2 DEF Intersection
    <2>4. g \subseteq trusted.grant /\ trusted.id # 0
      BY <1>1, <1>3, <2>2
    <2> HIDE DEF Conflicting
    <2> QED
      BY <1>1, <1>3, <2>3, <2>4, SameShrinks, GrantShrinks
  <1>4. CASE ~(trusted.id # job.conn \/ ~(OwnersAnswer /\ CandidateHolds /\ GuardHolds)) /\ SameRevision
    <2>1. PICK g : g = trusted.grant \ Enabled
      OBVIOUS
    <2>2. Conflicting = [trusted EXCEPT !.grant = g, !.state = "PENDING", !.rev = @ + 1]
      BY <1>4, <2>1 DEF Conflicting
    <2>3. g \subseteq trusted.grant /\ trusted.id # 0
      BY <1>1, <1>4, <2>1
    <2> QED
      BY <1>1, <1>4, <2>2, <2>3, ClosedShrinks
  <1> QED
    BY <1>2, <1>3, <1>4

\* The grant of a row that shrank is granted if that of the row was.
LEMMA ShrunkGranted ==
    ASSUME ConnInv, Shrunk(trusted', trusted), UNCHANGED <<tg, trigger>>
    PROVE  ConfirmedGranted'
  <1>1. trusted'.state = "CONFIRMED" => Granted(trusted.grant, trusted.id)
    BY DEF Shrunk, ConnInv, ConfirmedGranted
  <1>2. trusted'.grant \subseteq trusted.grant /\ trusted'.id = trusted.id
    BY DEF Shrunk
  <1> QED
    BY <1>1, <1>2 DEF ConfirmedGranted, Granted

\* What a startup lookup leaves undone stays on the list, and what it did not
\* concern is on another.
LEMMA StartupCause ==
    ASSUME ConnInv, job.kind = "STARTUP", UNCHANGED <<trigger, global>>, phase' = "SERVING",
           Shrunk(trusted', trusted), trusted'.state = "PENDING" => trusted' = trusted \/ trusted.id = job.conn,
           startup' = job.conn \/ (startup' = 0 /\ trusted.id # job.conn)
    PROVE  PendingHasCause'
  <1>1. SUFFICES ASSUME global' # "AUTH_FAILED", trusted'.state = "PENDING"
                 PROVE  \/ startup' = trusted'.id
                        \/ \E v \in Update : trigger'[v] = [conn |-> trusted'.id, status |-> "RECORDED"]
    BY DEF PendingHasCause
  <1>2. trusted'.id = trusted.id
    BY DEF Shrunk
  <1>3. CASE trusted.id = job.conn
    BY <1>2, <1>3
  <1>4. CASE trusted.id # job.conn
    <2>1. trusted' = trusted /\ phase = "SERVING" /\ startup = job.conn
      BY <1>1, <1>4, LookupFacts DEF ConnInv, InFlight, Idle
    <2> QED
      BY <1>1, <1>4, <2>1 DEF ConnInv, PendingHasCause
  <1> QED
    BY <1>3, <1>4

\* The same for the tables: they shrink, and the process serves.
LEMMA StartupShrinks ==
    ASSUME ConnInv, job.kind = "STARTUP", Shrunk(trusted', trusted), UNCHANGED <<owner, cand, guard, global>>,
           trusted'.state = "PENDING" => trusted' = trusted \/ trusted.id = job.conn,
           Converged(FALSE)
    PROVE  ConnInv'
  <1>1. startup' = job.conn /\ phase' = "SERVING" /\ job' = Idle /\ trigger' = trigger /\ UNCHANGED telegram
        /\ tg' = tg /\ job.conn \in Connection /\ phase # "DOWN"
    BY LookupFacts DEF Converged, telegram
  <1>2. TablesOK' /\ Ownership'
    BY <1>1, ShrunkKeeps DEF ConnInv, TablesOK
  <1>3. ConfirmedGranted'
    BY <1>1, ShrunkGranted
  <1>4. PendingHasCause'
    BY <1>1, StartupCause
  <1>5. TriggersOK'
    BY <1>1 DEF ConnInv, TriggersOK
  <1> QED
    BY <1>1, <1>2, <1>3, <1>4, <1>5, SettledKeeps

\* The answer to the startup lookup is committed, or a conflict is noted.
LEMMA CommitStartupKeeps ==
    ASSUME ConnInv, CommitStartup
    PROVE  ConnInv'
  <1>1. job.kind = "STARTUP" /\ job.pc = "ANSWERED" /\ global' = global
    BY DEF CommitStartup
  <1>2. CASE Reconcile /\ Converged(~Ambiguous)
    <2>1. startup' \in {0, job.conn} /\ phase' = "SERVING" /\ job' = Idle /\ trigger' = trigger
          /\ UNCHANGED telegram /\ tg' = tg /\ job.conn \in Connection
      BY <1>1, <1>2, LookupFacts DEF Converged, telegram
    <2>2. TablesOK' /\ Ownership' /\ ConfirmedGranted' /\ trusted'.state # "PENDING"
      BY <1>1, <1>2, <2>1, ReconcileKeeps
    <2>3. PendingHasCause' /\ TriggersOK'
      BY <2>1, <2>2 DEF PendingHasCause, TriggersOK, ConnInv
    <2> QED
      BY <2>1, <2>2, <2>3, SettledKeeps
  <1>3. CASE trusted' = Conflicting /\ UNCHANGED <<owner, cand, guard>> /\ Converged(FALSE)
    <2>1. Shrunk(trusted', trusted)
          /\ (trusted'.state = "PENDING" => trusted' = trusted \/ trusted.id = job.conn)
      BY <1>1, <1>3, ConflictingShrinks
    <2> QED
      BY <1>1, <1>3, <2>1, StartupShrinks
  <1> QED
    BY <1>2, <1>3 DEF CommitStartup

\* The startup lookup failed.
LEMMA StartupFailedKeeps ==
    ASSUME ConnInv, StartupFailed
    PROVE  ConnInv'
  <1>1. job.kind = "STARTUP" /\ Converged(FALSE) /\ UNCHANGED <<owner, cand, guard, global>> /\ trusted' = trusted
    BY DEF StartupFailed, tables
  <1>2. Shrunk(trusted', trusted)
    BY <1>1, SameShrinks DEF ConnInv, TablesOK
  <1> QED
    BY <1>1, <1>2, StartupShrinks

\* The connection of the start is gone.
LEMMA StartupNotFoundKeeps ==
    ASSUME ConnInv, StartupNotFound
    PROVE  ConnInv'
  <1>1. job.kind = "STARTUP" /\ UNCHANGED <<guard, global>>
    BY DEF StartupNotFound
  <1>2. CASE Retire /\ Converged(TRUE)
    <2>1. startup' = 0 /\ phase' = "SERVING" /\ job' = Idle /\ trigger' = trigger
          /\ UNCHANGED telegram /\ tg' = tg
      BY <1>2 DEF Converged, telegram
    <2>2. /\ TablesOK' /\ Ownership' /\ ConfirmedGranted'
          /\ trusted' = NoTrust \/ (trusted' = trusted /\ trusted.id # job.conn)
      BY <1>1, <1>2, <2>1, RetireKeeps
    <2>3. TriggersOK'
      BY <2>1 DEF ConnInv, TriggersOK
    <2>4. CASE trusted' = NoTrust
      <3>1. PendingHasCause'
        BY <2>4 DEF PendingHasCause, NoTrust
      <3> QED
        BY <2>1, <2>2, <2>3, <3>1, SettledKeeps
    <2>5. CASE trusted' = trusted /\ trusted.id # job.conn
      <3>1. Shrunk(trusted', trusted)
        BY <2>5, SameShrinks DEF ConnInv, TablesOK
      <3>2. PendingHasCause'
        BY <1>1, <2>1, <2>5, <3>1, StartupCause
      <3> QED
        BY <2>1, <2>2, <2>3, <3>2, SettledKeeps
    <2> QED
      BY <2>2, <2>4, <2>5
  <1>3. CASE UNCHANGED <<owner, trusted, cand>> /\ Converged(FALSE)
    <2>1. Shrunk(trusted', trusted)
      BY <1>3, SameShrinks DEF ConnInv, TablesOK
    <2> QED
      BY <1>1, <1>3, <2>1, StartupShrinks
  <1> QED
    BY <1>2, <1>3 DEF StartupNotFound

\* A revoked token closes the gate.
LEMMA AuthFailedShrinks ==
    ASSUME ConnInv, AuthFailed
    PROVE  Shrunk(trusted', trusted) /\ global' = "AUTH_FAILED"
  <1>1. TrustOK(trusted) /\ global' = "AUTH_FAILED"
    BY DEF ConnInv, TablesOK, AuthFailed
  <1>2. PICK g : g = trusted.grant \ Enabled
    OBVIOUS
  <1>3. \/ trusted' = trusted
        \/ trusted.id # 0 /\ trusted' = [trusted EXCEPT !.grant = g, !.state = "PENDING", !.rev = @ + 1]
    BY <1>2 DEF AuthFailed
  <1>4. g \subseteq trusted.grant
    BY <1>2
  <1> QED
    BY <1>1, <1>3, <1>4, SameShrinks, ClosedShrinks

\* The token was revoked: a start aborts, a served process goes on to its end.
LEMMA UnauthorizedKeeps ==
    ASSUME ConnInv, Unauthorized
    PROVE  ConnInv'
  <1>1. job' = Idle /\ UNCHANGED <<owner, cand, guard>> /\ trigger' = trigger /\ startup' = startup
        /\ tg' = tg /\ now' = now /\ phase' = (IF phase = "STARTING" THEN "DOWN" ELSE phase)
    BY DEF Unauthorized, telegram
  <1>2. Shrunk(trusted', trusted) /\ global' = "AUTH_FAILED"
    BY AuthFailedShrinks DEF Unauthorized
  <1>3. TablesOK' /\ Ownership'
    BY <1>1, <1>2, ShrunkKeeps DEF GlobalOK
  <1>4. ConfirmedGranted' /\ PendingHasCause'
    BY <1>1, <1>2, ShrunkGranted DEF PendingHasCause
  <1>5. TriggersOK' /\ TelegramOK' /\ ProcessOK' /\ JobOK(job)' /\ InFlight'
    BY <1>1, IdleInFlight DEF ConnInv, TriggersOK, TelegramOK, ProcessOK
  <1> QED
    BY <1>3, <1>4, <1>5 DEF ConnInv

\* A claim binds the Owner, clears the candidates of others and may promote the
\* one connection the claimant has.
LEMMA CommitClaimKeeps ==
    ASSUME ConnInv, CommitClaim
    PROVE  ConnInv'
  <1> DEFINE s == job.snap
             c == job.conn
             pruned == Prune(cand, guard)
             mine == CandidatesOf(s.user, pruned.rows)
             ceiling == {s.date, s.guard.overflow, guard.overflow}
                          \cup {s.rows[x].date : x \in DOMAIN s.rows}
                          \cup {cand[x].date : x \in CandidatesOf(s.user, cand)}
             promoted == /\ job.pc = "ANSWERED"
                         /\ s.global = "READY" /\ global = "READY"
                         /\ s.guard = pruned.guard /\ pruned.guard.overflow = 0
                         /\ DOMAIN s.rows = {c} /\ mine = {c}
                         /\ s.rows[c].rev = cand[c].rev
                         /\ Enabled \subseteq job.answer.grant
                         /\ job.answer.user = cand[c].user /\ job.answer.user = s.user
                         /\ job.answer.date = cand[c].date
  <1>1. /\ job.kind = "CLAIM" /\ owner.state = "UNCLAIMED" /\ job' = Idle
        /\ trigger' = trigger /\ phase' = phase /\ startup' = startup /\ UNCHANGED telegram
        /\ tg' = tg /\ now' = now /\ global' = (IF job.pc = "AUTH" THEN "AUTH_FAILED" ELSE global)
    BY DEF CommitClaim, telegram
  <1>2. /\ owner' = [state |-> "CLAIMED", user |-> s.user, floor |-> Max(ceiling),
                     source |-> "CLAIM", since |-> now]
        /\ trusted' = (IF promoted THEN Row(c, job.answer, cand[c].rev + 1) ELSE trusted)
        /\ cand' = (IF ~promoted /\ pruned.guard.overflow = 0 /\ Cardinality(mine) >= 2
                    THEN [x \in mine |-> pruned.rows[x]] ELSE NoRows)
        /\ guard' = pruned.guard
    BY DEF CommitClaim
  <1>3. ClaimJob(job) /\ ClaimNote(s) /\ job.answer \in Answer
    BY <1>1, JobShape DEF ConnInv, ClaimJob
  <1>4. job # Idle /\ phase = "SERVING"
    BY <1>1 DEF Idle, ConnInv, InFlight, ProcessOK
  <1>5. TableOK(cand) /\ GuardOK(guard) /\ trusted = NoTrust
    BY <1>1, TrustShape DEF ConnInv, TablesOK, Ownership
  <1>6. /\ TableOK(pruned.rows) /\ GuardOK(pruned.guard) /\ DOMAIN pruned.rows \subseteq DOMAIN cand
        /\ \A x \in DOMAIN pruned.rows : pruned.rows[x] = cand[x]
    BY <1>5, PruneKeeps
  <1>7. ceiling \subseteq Time /\ s.date \in ceiling
    <2>1. s.date \in Time /\ s.guard.overflow \in Time /\ guard.overflow \in Time
      BY <1>3, <1>5 DEF ClaimNote, GuardOK
    <2>2. \A x \in DOMAIN s.rows : s.rows[x].date \in Time
      BY <1>3, ConnectionConstants DEF ConnectionConstants, ClaimNote, TableOK, Dates, Time
    <2>3. \A x \in DOMAIN cand : cand[x].date \in Time
      BY <1>5, ConnectionConstants DEF ConnectionConstants, TableOK, Dates, Time
    <2> QED
      BY <2>1, <2>2, <2>3 DEF CandidatesOf
  <1> HIDE DEF pruned, ceiling
  <1>8. Max(ceiling) \in Time /\ Max(ceiling) \in Nat
    <2>1. Max(ceiling) \in Time
      BY <1>7, MaxOf
    <2> QED
      BY <2>1, ConnectionConstants DEF ConnectionConstants, Time
  <1>9. OwnerOK(owner') /\ owner'.state = "CLAIMED" /\ owner'.user = s.user /\ s.user \in User
    <2>1. now \in Time /\ now \in Nat
      BY ConnectionConstants DEF ConnectionConstants, ConnInv, TelegramOK, Time, Dates
    <2>2. s.user \in User
      BY <1>3 DEF ClaimNote
    <2> QED
      BY <1>2, <1>8, <2>1, <2>2 DEF OwnerOK, OwnerRow
  <1>10. \A x \in mine : x \in DOMAIN pruned.rows /\ x \in DOMAIN cand /\ cand[x].user = s.user
                         /\ pruned.rows[x] = cand[x]
    BY <1>6 DEF CandidatesOf
  <1>11. 0 \notin Connection
    BY ConnectionConstants DEF ConnectionConstants
  <1>12. TriggersOK' /\ startup' \in Connection \cup {0} /\ GlobalOK(global')
    BY <1>1 DEF ConnInv, TriggersOK, ProcessOK, TablesOK, GlobalOK
  <1>13. CASE promoted
    <2>1. c \in Connection /\ job.answer.user \in User /\ job.answer.date \in Dates
          /\ job.answer.grant \in SUBSET Grant /\ job.answer.user = s.user /\ mine = {c}
      BY <1>3, <1>13 DEF ConnInv, InFlight, Answer
    <2>2. cand[c].rev + 1 \in Nat
      BY <1>5, <1>10, <2>1 DEF TableOK, CandidateRow
    <2>3. trusted' = Row(c, job.answer, cand[c].rev + 1)
      BY <1>2, <1>13
    <2>4. /\ TrustOK(trusted') /\ trusted'.id = c /\ trusted'.user = s.user /\ trusted'.date # 0
          /\ trusted'.grant = job.answer.grant /\ trusted'.state = "CONFIRMED"
      BY <2>1, <2>2, <2>3, RowOK
    <2>5. cand' = NoRows
      BY <1>2, <1>13
    <2>6. TableOK(cand') /\ DOMAIN cand' = {}
      BY <2>5 DEF NoRows, TableOK
    <2>7. TablesOK'
      BY <1>2, <1>6, <1>9, <1>12, <2>4, <2>6 DEF TablesOK
    <2>8. Ownership'
      BY <1>1, <1>4, <1>9, <2>4, <2>6 DEF Ownership
    <2>9. Granted(job.answer.grant, job.conn)
      BY <1>13 DEF ConnInv, InFlight
    <2>10. \A g, x : Granted(g, x) => Granted(g, x)'
      BY <1>1 DEF Granted
    <2>11. ConfirmedGranted' /\ PendingHasCause'
      BY <2>4, <2>9, <2>10 DEF ConfirmedGranted, PendingHasCause
    <2> QED
      BY <1>1, <1>4, <1>12, <2>7, <2>8, <2>11, SettledKeeps
  <1>14. CASE ~promoted
    <2>1. trusted' = NoTrust
      BY <1>2, <1>5, <1>14
    <2>2. TrustOK(trusted') /\ trusted'.id = 0 /\ trusted'.state = "NONE"
      BY <2>1, ConnectionConstants DEF ConnectionConstants, NoTrust, TrustOK, Time
    <2>3. TableOK(cand') /\ \A x \in DOMAIN cand' : cand'[x].user = s.user
      <3>1. CASE cand' = NoRows
        <4>1. DOMAIN cand' = {}
          BY <3>1 DEF NoRows
        <4> QED
          BY <4>1 DEF TableOK
      <3>2. CASE cand' = [x \in mine |-> pruned.rows[x]]
        <4>1. DOMAIN cand' = mine /\ \A x \in mine : cand'[x] = cand[x]
          BY <1>10, <3>2
        <4> HIDE DEF mine
        <4> QED
          BY <1>5, <1>10, <4>1 DEF TableOK
      <3> QED
        BY <1>2, <3>1, <3>2
    <2>4. TablesOK'
      BY <1>2, <1>6, <1>9, <1>12, <2>2, <2>3 DEF TablesOK
    <2>5. 0 \notin DOMAIN cand'
      BY <1>11, <2>3 DEF TableOK
    <2>6. Ownership'
      BY <1>1, <1>4, <1>9, <2>2, <2>3, <2>5 DEF Ownership
    <2>7. ConfirmedGranted' /\ PendingHasCause'
      BY <2>2 DEF ConfirmedGranted, PendingHasCause
    <2> QED
      BY <1>1, <1>4, <1>12, <2>4, <2>6, <2>7, SettledKeeps
  <1> QED
    BY <1>13, <1>14

-----------------------------------------------------------------------------
\* Every step keeps the invariant.
LEMMA ConnNextKeeps == ConnInv /\ [ConnNext]_connVars => ConnInv'
  <1> SUFFICES ASSUME ConnInv, [ConnNext]_connVars PROVE ConnInv'
    OBVIOUS
  <1>1. CASE TelegramStep
    BY <1>1, ConnectKeeps, ForgetKeeps, AgeKeeps, ChangeKeeps, TickKeeps DEF TelegramStep
  <1>2. CASE TriggerStep
    BY <1>2, RecordTriggerKeeps, BeginTriggerKeeps, CommitTriggerKeeps, TriggerNotFoundKeeps,
       TriggerFailedKeeps DEF TriggerStep
  <1>3. CASE StartupStep
    BY <1>3, BeginStartupKeeps, CommitStartupKeeps, StartupNotFoundKeeps, StartupFailedKeeps,
       RestartKeeps DEF StartupStep
  <1>4. CASE UNCHANGED connVars
    <2>1. UNCHANGED <<tables, trigger, phase, startup, telegram>> /\ job' = job
      BY <1>4 DEF connVars, process
    <2>2. UNCHANGED trusted /\ UNCHANGED owner /\ UNCHANGED tg /\ UNCHANGED trigger /\ UNCHANGED phase
          /\ UNCHANGED startup
      BY <2>1 DEF tables, telegram
    <2>3. JobOK(job') /\ InFlight'
      BY <2>1, <2>2 DEF ConnInv, InFlight, Granted
    <2> QED
      BY <2>1, <2>3, JobOnly
  <1>5. CASE ClaimStep
    BY <1>4, <1>5, CommitClaimKeeps, BeginClaimKeeps DEF ClaimStep, RejectClaim
  <1>6. CASE Lookup
    BY <1>6, AnsweredKeeps, AnsweredOtherwiseKeeps, UnansweredKeeps DEF Lookup, LookupFails, LookupUnauthorized
  <1>7. CASE Unauthorized
    BY <1>7, UnauthorizedKeeps
  <1>8. CASE PublishReady
    BY <1>8, PublishReadyKeeps
  <1>9. CASE Disable
    BY <1>9, DisableKeeps
  <1>10. CASE Crash \/ Shutdown
    BY <1>10, StopKeeps DEF Crash, Shutdown
  <1> QED
    BY <1>1, <1>2, <1>3, <1>4, <1>5, <1>6, <1>7, <1>8, <1>9, <1>10 DEF ConnNext

\* The inductive invariant of reconciliation holds throughout: for every set of
\* users and connections, all rights, any number of lifecycle updates.
THEOREM ConnInvariant == ConnSpec => []ConnInv
  <1>1. ConnInit => ConnInv
    BY ConnInitOK
  <1>2. ConnInv /\ [ConnNext]_connVars => ConnInv'
    BY ConnNextKeeps
  <1> QED
    BY <1>1, <1>2, PTL DEF ConnSpec

\* The tables, the worker and Telegram's view always have their types.
THEOREM ConnTypeCorrect == ConnSpec => []ConnTypeOK
  <1>1. ConnInv => ConnTypeOK
    <2> SUFFICES ASSUME ConnInv PROVE ConnTypeOK
      OBVIOUS
    <2>1. job.pc \in {"IDLE"} \cup Pc
      BY JobShape DEF ConnInv, Idle
    <2>2. /\ owner \in OwnerRow /\ (trusted \in TrustedRow \/ trusted = NoTrust) /\ TableOK(cand)
          /\ guard \in [overflow : Nat, rev : Nat] /\ global \in {"PENDING", "READY", "AUTH_FAILED"}
      BY DEF ConnInv, TablesOK, OwnerOK, TrustOK, GuardOK, GlobalOK
    <2>3. trigger \in [Update -> TriggerRow] /\ tg \in [Connection -> Standing] /\ now \in Dates
      BY DEF ConnInv, TriggersOK, TelegramOK
    <2>4. phase \in {"DOWN", "STARTING", "SERVING"} /\ startup \in Connection \cup {0}
      BY DEF ConnInv, ProcessOK
    <2> QED
      BY <2>1, <2>2, <2>3, <2>4, Zenon DEF ConnTypeOK, OwnerRow, TrustedRow, TriggerRow, Standing, TableOK, Pc
  <1> QED
    BY <1>1, ConnInvariant, PTL

\* What is trusted, and what is a candidate after a claim, is the Owner's; an
\* unclaimed installation trusts nobody: the classifier's contradictions never
\* occur once the Owner is loaded.
THEOREM NeverContradictory == ConnSpec => []NoContradiction
  <1>1. ConnInv => NoContradiction
    <2> SUFFICES ASSUME ConnInv PROVE NoContradiction
      OBVIOUS
    <2>1. phase # "DOWN" => owner.state \in {"UNCLAIMED", "CLAIMED"}
      BY DEF ConnInv, Ownership, TablesOK, OwnerOK, OwnerRow
    <2> QED
      BY <2>1 DEF NoContradiction, Contradictory, Claimed, Retained, ConnInv, Ownership
  <1> QED
    BY <1>1, ConnInvariant, PTL

\* A gate that is closed is always on somebody's list: no trusted connection
\* is forgotten while it waits to be reconciled.
THEOREM PendingAlwaysHasCause == ConnSpec => []PendingHasCause
  <1>1. ConnInv => PendingHasCause
    BY DEF ConnInv
  <1> QED
    BY <1>1, ConnInvariant, PTL

\* An open gate never claims more than Telegram grants, up to a lifecycle
\* update that Telegram has yet to deliver.
THEOREM OpenAlwaysGranted == ConnSpec => []OpenMeansGranted
  <1>1. ConnInv => OpenMeansGranted
    BY DEF ConnInv, OpenMeansGranted, GateOpen, ConfirmedGranted, Granted
  <1> QED
    BY <1>1, ConnInvariant, PTL

-----------------------------------------------------------------------------
(***************************************************************************)
(* What a step may do to the trusted connection.                           *)
(***************************************************************************)
Quiet == Shrunk(trusted', trusted) /\ owner'.user = owner.user /\ owner'.floor = owner.floor
Looking == job.kind \in {"TRIGGER", "STARTUP"}

\* Every step leaves the trusted connection with no more than it had, but for
\* an accepted answer, a connection that is gone, a claim, and a start.
LEMMA TrustMoves ==
    ASSUME ConnInv, [ConnNext]_connVars
    PROVE  \/ Quiet
           \/ Looking /\ job.pc = "ANSWERED" /\ Reconcile
           \/ Looking /\ Retire
           \/ CommitClaim
           \/ Restart
  <1>1. UNCHANGED <<owner, trusted>> => Quiet
    BY SameShrinks DEF Quiet, ConnInv, TablesOK
  <1>2. Shrunk(trusted', trusted) /\ UNCHANGED owner => Quiet
    BY DEF Quiet
  <1>3. UNCHANGED tables => UNCHANGED <<owner, trusted>>
    BY DEF tables
  <1>4. CASE TelegramStep \/ Lookup \/ PublishReady \/ Crash \/ Shutdown \/ UNCHANGED connVars
    BY <1>1, <1>3, <1>4 DEF TelegramStep, Connect, Forget, Age, Change, Tick, Lookup, Answered,
       AnsweredOtherwise, LookupFails, LookupUnauthorized, Unanswered, PublishReady, Crash, Shutdown, Stop, connVars
  <1>5. CASE \E u \in Update : RecordTrigger(u)
    <2>1. UNCHANGED owner /\ (trusted' = Gate(trusted) \/ trusted' = trusted)
      BY <1>5 DEF RecordTrigger
    <2>2. Shrunk(trusted', trusted)
      BY <2>1, GateShrinks, SameShrinks DEF ConnInv, TablesOK
    <2> QED
      BY <1>2, <2>1, <2>2
  <1>6. CASE Disable
    <2>1. PICK g : g = trusted.grant \ Enabled
      OBVIOUS
    <2>2. UNCHANGED owner /\ trusted.id # 0 /\ trusted' = [trusted EXCEPT !.grant = g, !.rev = @ + 1]
          /\ g \subseteq trusted.grant /\ TrustOK(trusted)
      BY <1>6, <2>1 DEF Disable, ConnInv, TablesOK
    <2>3. Shrunk(trusted', trusted)
      BY <2>2, GrantShrinks
    <2> QED
      BY <1>2, <2>2, <2>3
  <1>7. CASE Unauthorized
    BY <1>2, <1>7, AuthFailedShrinks DEF Unauthorized
  <1>8. CASE \E u \in Update : BeginTrigger(u)
    BY <1>1, <1>3, <1>8 DEF BeginTrigger
  <1>9. CASE BeginStartup \/ StartupFailed
    BY <1>1, <1>3, <1>9 DEF BeginStartup, StartupFailed
  <1>10. CASE CommitTrigger
    <2>1. TriggerUnclaimed => Quiet
      BY <1>1, <1>3 DEF TriggerUnclaimed, Retry
    <2>2. TriggerClaimed => Quiet \/ Reconcile
      BY <1>1, <1>3 DEF TriggerClaimed, Retry
    <2> QED
      BY <1>10, <2>1, <2>2 DEF CommitTrigger, Looking
  <1>11. CASE TriggerNotFound \/ TriggerFailed
    BY <1>1, <1>3, <1>11 DEF TriggerNotFound, TriggerFailed, Retry, Looking
  <1>12. CASE CommitStartup
    <2>1. CASE Reconcile
      BY <1>12, <2>1 DEF CommitStartup, Looking
    <2>2. CASE trusted' = Conflicting /\ UNCHANGED owner
      BY <1>2, <1>12, <2>2, ConflictingShrinks DEF CommitStartup
    <2> QED
      BY <1>12, <2>1, <2>2 DEF CommitStartup
  <1>13. CASE StartupNotFound
    BY <1>1, <1>13 DEF StartupNotFound, Looking
  <1>14. CASE RejectClaim \/ \E u \in User, d \in 1..now : BeginClaim(u, d)
    BY <1>1, <1>3, <1>14 DEF RejectClaim, BeginClaim, connVars
  <1> QED
    BY <1>4, <1>5, <1>6, <1>7, <1>8, <1>9, <1>10, <1>11, <1>12, <1>13, <1>14
       DEF ConnNext, TriggerStep, StartupStep, ClaimStep

\* A lookup that was overtaken by the outbox worker's refusal gives nothing
\* back to the connection it is about.
LEMMA OvertakenSticks ==
    ASSUME ConnInv, [ConnNext]_connVars, job.overtaken, trusted.id = trusted'.id
    PROVE  trusted'.grant \subseteq trusted.grant
  <1>1. TrustOK(trusted) /\ job # Idle
    BY DEF ConnInv, TablesOK, Idle
  <1>2. CASE Quiet
    BY <1>2 DEF Quiet, Shrunk
  <1>3. CASE Looking /\ Reconcile
    <2>1. job.snap.rev < trusted.rev /\ job.snap.rev = trusted.rev
      BY <1>3 DEF ConnInv, InFlight, Looking, Reconcile, Accepts, RevisionsHold, SameRevision
    <2>2. trusted.rev \in Int
      BY <1>1, TrustShape
    <2> QED
      BY <2>1, <2>2
  <1>4. CASE Looking /\ Retire
    <2>1. job.conn # 0
      BY <1>4, LookupFacts DEF Looking
    <2> QED
      BY <1>4, <2>1 DEF Retire, NoTrust
  <1>5. CASE CommitClaim
    <2>1. trusted = NoTrust
      BY <1>1, <1>5, TrustShape DEF CommitClaim, ConnInv, Ownership
    <2>2. TrustOK(trusted') /\ trusted'.id = 0
      BY <2>1, ConnNextKeeps DEF ConnInv, TablesOK, NoTrust
    <2>3. trusted' = NoTrust
      BY <2>2, TrustShape
    <2> QED
      BY <2>1, <2>3
  <1>6. CASE Restart
    BY <1>1, <1>6 DEF Restart, ConnInv, InFlight
  <1> QED
    BY <1>2, <1>3, <1>4, <1>5, <1>6, TrustMoves

\* When the outbox worker disables the connection while a lookup is under way,
\* no answer of that lookup gives a right back, whatever else happens.
THEOREM DisableAlwaysSticks == ConnSpec => DisableSticks
  <1>1. ConnInv /\ [ConnNext]_connVars
          => [job.overtaken /\ trusted.id = trusted'.id => trusted'.grant \subseteq trusted.grant]_connVars
    BY OvertakenSticks
  <1> QED
    BY <1>1, ConnInvariant, PTL DEF ConnSpec, DisableSticks

-----------------------------------------------------------------------------
(***************************************************************************)
(* Reconciliation implements TrustedOwner.                                 *)
(***************************************************************************)
\* The generation a new connection has to exceed.
Mark == Max({owner.floor, trusted.date})

\* The later of two dates, once more with its type.
LEMMA MarkIs ==
    ASSUME NEW f \in Nat, NEW d \in Nat
    PROVE  Max({f, d}) \in Nat /\ Max({f, d}) >= f /\ Max({f, d}) >= d /\ Max({f, d}) \in {f, d}
  BY MaxOfTwo

\* The dates are numbers.
LEMMA DatesAre ==
    ASSUME ConnInv
    PROVE  owner.floor \in Nat /\ trusted.date \in Nat /\ owner.since \in Nat /\ trusted.id \in Connection \cup {0}
  BY TrustShape DEF ConnInv, TablesOK, OwnerOK, OwnerRow

\* An installation starts bound to nobody.
LEMMA RefineInit == ConnInit => Trust!AbstractInit
  <1> SUFFICES ASSUME ConnInit PROVE Trust!AbstractInit
    OBVIOUS
  <1>1. owner.user = NoUser /\ owner.floor = 0 /\ trusted.date = 0 /\ trusted.id \in Connection \cup {0}
    BY DEF ConnInit, NoOwner, NoTrust
  <1>2. Max({0, 0}) = 0
    BY MaxOfTwo
  <1> QED
    BY <1>1, <1>2 DEF Trust!AbstractInit

\* An accepted answer adopts a newer connection, confirms or dates the one
\* there is, or drops it.
LEMMA RefineReconcile ==
    ASSUME ConnInv, ConnInv', Looking, job.pc = "ANSWERED", Reconcile
    PROVE  Trust!AbstractNext \/ UNCHANGED <<owner.user, trusted.id, Mark>>
  <1>1. /\ job.conn \in Connection /\ job.conn # 0 /\ job.answer.user = owner.user /\ job.answer.user \in User
        /\ job.answer.date \in Dates
    BY LookupFacts DEF Looking, ConnInv, InFlight, Reconcile, Accepts, OwnersAnswer
  <1>2. owner.user # NoUser
    BY <1>1, ConnectionConstants DEF ConnectionConstants
  <1>3. OwnerOK(owner) /\ TrustOK(trusted)
    BY DEF ConnInv, TablesOK
  <1>4. job.answer.date \in Nat /\ job.answer.date > 0 /\ owner.floor \in Nat /\ trusted.date \in Nat
    BY <1>1, DatesAre, ConnectionConstants DEF Dates, ConnectionConstants
  <1>5. WithChat(owner).user = owner.user /\ WithChat(owner).floor = owner.floor
    BY <1>3, WithChatOK
  <1>6. CASE Installs /\ Install
    <2>1. trusted'.id = job.conn /\ trusted'.date = job.answer.date /\ owner'.user = owner.user
          /\ owner'.floor = owner.floor /\ trusted.id # job.conn
      BY <1>5, <1>6 DEF Install, Installs, Row
    <2>2. job.answer.date > owner.floor /\ job.answer.date > trusted.date
      <3>1. GenerationFloor(job.conn) \in Time /\ GenerationFloor(job.conn) >= owner.floor
            /\ GenerationFloor(job.conn) >= trusted.date
        BY <1>1, <2>1, FloorCovers DEF ConnInv
      <3>2. job.answer.date > GenerationFloor(job.conn)
        BY <1>6 DEF Installs
      <3> QED
        BY <1>4, <3>1, <3>2, ConnectionConstants DEF ConnectionConstants, Time
    <2>3. Max({owner.floor, job.answer.date}) > Max({owner.floor, trusted.date})
      BY <1>4, <2>2, MarkIs
    <2>4. Max({owner'.floor, trusted'.date}) > Max({owner.floor, trusted.date})
      BY <2>1, <2>3
    <2>5. Trust!Adopt
      BY <1>1, <1>2, <2>1, <2>4 DEF Trust!Adopt
    <2> QED
      BY <2>5 DEF Trust!AbstractNext
  <1>7. CASE Confirms /\ Confirm
    <2>1. trusted'.id = trusted.id /\ trusted'.date = job.answer.date /\ owner'.user = owner.user
          /\ owner'.floor = owner.floor /\ trusted.date \in {0, job.answer.date} /\ trusted.id # 0
      BY <1>1, <1>5, <1>7 DEF Confirm, Confirms, Row
    <2>2. CASE trusted.date = job.answer.date
      BY <2>1, <2>2 DEF Mark
    <2>3. CASE trusted.date = 0
      <3>1. owner.floor = 0
        BY <2>1, <2>3 DEF ConnInv, Ownership
      <3>2. Max({0, 0}) = 0 /\ Max({0, job.answer.date}) > 0
        BY <1>4, MarkIs
      <3>3. Max({owner.floor, trusted.date}) = 0 /\ Max({owner'.floor, trusted'.date}) > 0
        BY <2>1, <2>3, <3>1, <3>2
      <3>4. Trust!Date
        BY <2>1, <3>3 DEF Trust!Date
      <3> QED
        BY <3>4 DEF Trust!AbstractNext
    <2> QED
      BY <2>1, <2>2, <2>3
  <1>8. CASE Ambiguous /\ Disqualify
    <2>1. PICK f, o : f = Max({owner.floor, job.answer.date}) /\ o = [owner EXCEPT !.floor = f] /\ owner' = WithChat(o)
      BY <1>8 DEF Disqualify
    <2>2. f \in Time /\ f \in Nat /\ f >= owner.floor /\ f >= job.answer.date
      <3>1. f \in {owner.floor, job.answer.date} /\ f >= owner.floor /\ f >= job.answer.date
        BY <1>4, <2>1, MarkIs
      <3>2. owner.floor \in Time /\ job.answer.date \in Time
        BY <1>1, <1>3, ConnectionConstants DEF ConnectionConstants, OwnerOK, Dates, Time
      <3> QED
        BY <1>4, <3>1, <3>2
    <2>3. OwnerOK(o) /\ o.user = owner.user /\ o.floor = f
      BY <1>3, <2>1, <2>2, FloorOK
    <2>4. owner'.user = owner.user /\ owner'.floor = f
      BY <2>1, <2>3, WithChatOK
    <2>5. trusted' = NoTrust /\ trusted'.id = 0 /\ trusted'.date = 0 /\ trusted.id # 0
          /\ trusted.date = job.answer.date
      BY <1>8 DEF Disqualify, Ambiguous, NoTrust
    <2>6. Max({f, 0}) >= Max({owner.floor, trusted.date})
      BY <1>4, <2>2, <2>5, MarkIs
    <2>7. Max({owner'.floor, trusted'.date}) >= Max({owner.floor, trusted.date})
      BY <2>4, <2>5, <2>6
    <2>8. Trust!Drop
      BY <1>2, <2>4, <2>5, <2>7 DEF Trust!Drop
    <2> QED
      BY <2>8 DEF Trust!AbstractNext
  <1> QED
    BY <1>6, <1>7, <1>8 DEF Reconcile

\* A connection that is gone is dropped, with all that was as old.
LEMMA RefineRetire ==
    ASSUME ConnInv, Looking, Retire
    PROVE  Trust!AbstractNext \/ UNCHANGED <<owner.user, trusted.id, Mark>>
  <1>1. CASE trusted.id # job.conn
    BY <1>1 DEF Retire, Mark
  <1>2. CASE trusted.id = job.conn
    <2>1. PICK d, f : /\ d = (IF trusted.date = 0 THEN owner.since ELSE trusted.date)
                      /\ f = Max({owner.floor, d}) /\ owner' = [owner EXCEPT !.floor = f]
      BY <1>2 DEF Retire
    <2>2. d \in Nat /\ d >= trusted.date /\ owner.floor \in Nat /\ trusted.date \in Nat
      BY <2>1, DatesAre
    <2>3. f \in Nat /\ f >= owner.floor /\ f >= d
      BY <2>1, <2>2, MarkIs
    <2>4. owner'.user = owner.user /\ owner'.floor = f
      BY <2>1 DEF ConnInv, TablesOK, OwnerOK, OwnerRow
    <2>5. trusted' = NoTrust /\ trusted'.id = 0 /\ trusted'.date = 0
      BY <1>2 DEF Retire, NoTrust
    <2>6. Max({f, 0}) >= Max({owner.floor, trusted.date})
      BY <2>2, <2>3, MarkIs
    <2>7. Max({owner'.floor, trusted'.date}) >= Max({owner.floor, trusted.date})
      BY <2>4, <2>5, <2>6
    <2>8. trusted.id # 0 /\ owner.user # NoUser
      BY <1>2, LookupFacts DEF Looking, ConnInv, Ownership
    <2>9. Trust!Drop
      BY <2>4, <2>5, <2>7, <2>8 DEF Trust!Drop
    <2> QED
      BY <2>9 DEF Trust!AbstractNext
  <1> QED
    BY <1>1, <1>2

\* A claim binds the Owner.
LEMMA RefineClaim ==
    ASSUME ConnInv, ConnInv', CommitClaim
    PROVE  Trust!AbstractNext
  <1>1. owner.state = "UNCLAIMED" /\ owner.user = NoUser /\ owner.floor = 0 /\ trusted.id = 0
    BY DEF CommitClaim, ConnInv, Ownership
  <1>2. trusted = NoTrust /\ trusted.date = 0
    BY <1>1, TrustShape DEF ConnInv, TablesOK, NoTrust
  <1>3. owner'.state = "CLAIMED"
    BY DEF CommitClaim
  <1>4. owner'.user \in User
    BY <1>3 DEF ConnInv, Ownership
  <1>5. owner'.floor \in Nat /\ trusted'.date \in Nat /\ trusted'.id \in Connection \cup {0}
    <2>1. OwnerOK(owner') /\ TrustOK(trusted')
      BY DEF ConnInv, TablesOK
    <2> QED
      BY <2>1, TrustShape DEF OwnerOK, OwnerRow
  <1>6. Max({0, 0}) = 0
    BY MaxOfTwo
  <1>7. Max({owner.floor, trusted.date}) = 0
    BY <1>1, <1>2, <1>6
  <1>8. Max({owner'.floor, trusted'.date}) >= Max({owner.floor, trusted.date})
    BY <1>5, <1>7, MarkIs
  <1>9. Trust!Bind
    BY <1>1, <1>4, <1>5, <1>8 DEF Trust!Bind
  <1> QED
    BY <1>9 DEF Trust!AbstractNext

\* A start binds the Owner of the connection an old installation had.
LEMMA RefineRestart ==
    ASSUME ConnInv, ConnInv', Restart
    PROVE  Trust!AbstractNext \/ UNCHANGED <<owner.user, trusted.id, Mark>>
  <1>1. Shrunk(trusted', trusted)
    BY GateShrinks DEF Restart, ConnInv, TablesOK
  <1>2. trusted'.id = trusted.id /\ trusted'.date = trusted.date
    BY <1>1 DEF Shrunk
  <1>3. CASE owner'.user = owner.user /\ owner'.floor = owner.floor
    BY <1>2, <1>3 DEF Mark
  <1>4. CASE owner.state = "PENDING" /\ trusted.id # 0
    <2>1. owner'.state = "CLAIMED" /\ owner'.floor = 0
      BY <1>4 DEF Restart
    <2>2. owner'.user \in User /\ owner.user = NoUser /\ owner.floor = 0
      BY <1>4, <2>1 DEF ConnInv, Ownership
    <2>3. Max({owner.floor, trusted.date}) \in Nat
      BY DatesAre, MarkIs
    <2>4. Max({owner'.floor, trusted'.date}) >= Max({owner.floor, trusted.date})
      <3>1. Max({owner'.floor, trusted'.date}) = Max({owner.floor, trusted.date})
        BY <1>2, <2>1, <2>2
      <3> QED
        BY <2>3, <3>1
    <2>5. trusted'.id \in Connection \cup {0}
      BY <1>2, DatesAre
    <2>6. Trust!Bind
      BY <1>2, <2>2, <2>4, <2>5 DEF Trust!Bind
    <2> QED
      BY <2>6 DEF Trust!AbstractNext
  <1>5. CASE owner.state # "PENDING"
    BY <1>3, <1>5 DEF Restart
  <1>6. CASE owner.state = "PENDING" /\ trusted.id = 0
    <2>1. owner'.user = NoUser /\ owner'.floor = 0
      BY <1>6 DEF Restart, NoOwner
    <2>2. owner.user = NoUser /\ owner.floor = 0
      BY <1>6 DEF ConnInv, Ownership
    <2> QED
      BY <1>3, <2>1, <2>2
  <1> QED
    BY <1>4, <1>5, <1>6

\* Every step of reconciliation is a step of TrustedOwner, or none.
LEMMA RefineNext == ConnInv /\ ConnInv' /\ [ConnNext]_connVars => [Trust!AbstractNext]_(Trust!abstractVars)
  <1> SUFFICES ASSUME ConnInv, ConnInv', [ConnNext]_connVars
               PROVE  Trust!AbstractNext \/ UNCHANGED <<owner.user, trusted.id, Mark>>
    BY DEF Trust!abstractVars, Mark
  <1>1. Quiet => UNCHANGED <<owner.user, trusted.id, Mark>>
    BY DEF Quiet, Shrunk, Mark
  <1> QED
    BY <1>1, TrustMoves, RefineReconcile, RefineRetire, RefineClaim, RefineRestart

\* An installation is bound to one Owner for good, trusts one connection at a
\* time, and trusts only what is newer than all it trusted or ruled out
\* before: Reconciliation implements TrustedOwner.
THEOREM ReconciliationImplementsTrust == ConnSpec => ImplementsTrust
  <1>1. ConnInit => Trust!AbstractInit
    BY RefineInit
  <1>2. ConnInv /\ ConnInv' /\ [ConnNext]_connVars => [Trust!AbstractNext]_(Trust!abstractVars)
    BY RefineNext
  <1> QED
    BY <1>1, <1>2, ConnInvariant, PTL DEF ConnSpec, ImplementsTrust, Trust!AbstractSpec
=============================================================================
