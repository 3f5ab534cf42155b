---------------------------- MODULE Installation ----------------------------
(***************************************************************************)
(* One installation over its starts: the database that holds the master    *)
(* seed, the pinned bot and the Owner, the claim-code file beside it, and  *)
(* the webhook declared to Telegram.  A start is a fixed sequence of       *)
(* steps; the process, the machine, a system call or Telegram may fail at  *)
(* any of them, and the next start works with what it finds.               *)
(***************************************************************************)
EXTENDS Naturals, Sequences

CONSTANTS
    Seed,        \* what the entropy source can return
    Bot,         \* bots whose token can be configured
    None,        \* NULL
    Inode,       \* inodes of the data directory
    Root,        \* TRUE: the service is root, the directory is another user's
    Origin,      \* databases found at first: "ABSENT", "LEGACY"
    Attempts,    \* calls of setWebhook per start: 7 in the code
    Fault,       \* subset of {"crash", "power", "io", "telegram", "stop", "operator"}
    MaxFaults    \* bound: faults

Target == "claim-code"
Temp == ".claim-code.tmp"
Name == {Target, Temp}
NoEntry == 0
Legacy == "LEGACY"
Length == <<"EMPTY", "PARTIAL", "EXACT">>

ASSUME InstallationConstants ==
    /\ None \notin Seed \cup Bot /\ Legacy \notin Seed
    /\ Inode \subseteq Nat \ {NoEntry}
    /\ Root \in BOOLEAN
    /\ Origin \subseteq {"ABSENT", Legacy}
    /\ Attempts \in Nat \ {0} /\ MaxFaults \in Nat

VARIABLES
    db,        \* the database: file, seed, bot, owner, keys of open challenges
    drawn,     \* seeds drawn so far: entropy does not repeat itself
    dir,       \* name -> inode, as the running system sees the directory
    kept,      \* name -> the inodes it may have after a power loss
    inode,     \* what an inode holds
    pc,        \* how far this start has come
    mem,       \* what the process remembers of it
    todo,      \* system calls planned on the claim-code entries
    exit,      \* why the last start ended
    token,     \* the bot whose token is configured
    hook,      \* bot -> the webhook secret Telegram holds
    late,      \* registrations whose answer was lost, still under way
    faults
disk == <<dir, kept, inode>>
process == <<pc, mem, todo, exit>>
telegram == <<token, hook, late>>
instVars == <<db, drawn, disk, process, telegram, faults>>

NoMemory == [existed |-> FALSE, seed |-> None, code |-> None, secret |-> <<>>, tries |-> 0]
NoDatabase == [file |-> FALSE, seed |-> None, bot |-> None, owner |-> "INIT", keys |-> {}]
NoInode == [code |-> None, len |-> 1, owner |-> "service", synced |-> FALSE]

Serving == pc \in {"SERVING", "COMMITTED", "RETIRING"}
Starting == pc # "DOWN" /\ ~Serving

-----------------------------------------------------------------------------
(***************************************************************************)
(* The claim-code entries.                                                 *)
(***************************************************************************)
Links(i) == {n \in Name : dir[n] = i}
Twice(i) == Links(i) = Name
SameInode == dir[Target] = dir[Temp]
Exact(i, code) == inode[i].code = code /\ Length[inode[i].len] = "EXACT"
Prefix(i, code) ==
    Length[inode[i].len] = "EMPTY" \/ (inode[i].code = code /\ Length[inode[i].len] = "PARTIAL")
OwnedByDirectory(i) == inode[i].owner = "directory" \/ ~Root

\* An entry of another code, or of the service while it should be the
\* directory owner's, is unsafe; only the temporary one may be unfinished.
InspectEntry(n, code) ==
    \/ dir[n] = NoEntry
    \/ LET i == dir[n] IN
       /\ OwnedByDirectory(i) \/ (n = Temp /\ ~Twice(i))
       /\ \/ Exact(i, code) /\ OwnedByDirectory(i)
          \/ n = Temp /\ Prefix(i, code)

\* Links are counted over the two names, so the other cases of validate_pair
\* (a third link somewhere) do not arise.
ValidatePair(code) ==
    dir[Target] # NoEntry /\ SameInode => Exact(dir[Temp], code)

SafeEntries(code) ==
    /\ \A n \in Name : InspectEntry(n, code)
    /\ ValidatePair(code)

HasArtifact == \E n \in Name : dir[n] # NoEntry

\* Mutant: the entry under the temporary name is left for the next start.
KeepTemp(n) == IF dir[n] = NoEntry \/ n = Temp THEN <<>> ELSE << <<"unlink", n>>, <<"sync", n>> >>

Unlink(n) == IF dir[n] = NoEntry THEN <<>> ELSE << <<"unlink", n>>, <<"sync", n>> >>

\* Mutant: the file is handed over after it is written.
ChownLast ==
    << <<"create", Temp>>, <<"write", Temp>>, <<"chown", Temp>>, <<"fsync", Temp>>,
       <<"link", Target>>, <<"sync", Target>>, <<"unlink", Temp>>, <<"sync", Temp>> >>

\* Mutant: the code is published before it is on disk.
PublishUnsynced ==
    << <<"create", Temp>>, <<"chown", Temp>>, <<"write", Temp>>, <<"link", Target>>,
       <<"fsync", Temp>>, <<"sync", Target>>, <<"unlink", Temp>>, <<"sync", Temp>> >>

CreateAndPublish ==
    << <<"create", Temp>>, <<"chown", Temp>>, <<"write", Temp>>, <<"fsync", Temp>>,
       <<"link", Target>>, <<"sync", Target>>, <<"unlink", Temp>>, <<"sync", Temp>> >>

\* Mutant: only the published name is retired.
RetireTargetOnly == Unlink(Target)

RetireAfterClaim == Unlink(Target) \o Unlink(Temp)

ReconcileUnclaimed ==
    Unlink(Temp) \o IF dir[Target] = NoEntry THEN CreateAndPublish ELSE <<>>

\* Mutant: the code is published again whatever the Owner's state.
PublishAnyway == ReconcileUnclaimed

Reconcile == IF db.owner = "CLAIMED" THEN RetireAfterClaim ELSE ReconcileUnclaimed

\* A directory that is synced keeps its present entries.
SyncDirectory == kept' = [n \in Name |-> {dir[n]}]

SetEntry(n, i) ==
    /\ dir' = [dir EXCEPT ![n] = i]
    /\ kept' = [kept EXCEPT ![n] = @ \cup {i}]

FreeInode == CHOOSE i \in Inode : \A n \in Name : i \notin kept[n]

Chown(i) == inode' = [inode EXCEPT ![i].owner = "directory"]

\* write_all may be interrupted between two writes.
Write(i) == \E k \in inode[i].len + 1 .. 3 :
    inode' = [inode EXCEPT ![i].len = k, ![i].code = mem.code]

Fsync(i) == inode' = [inode EXCEPT ![i].synced = TRUE]

\* create is exclusive and wants an inode, link does not replace, and
\* unlink_verified wants the entry.
Possible(call, n) ==
    /\ call \in {"create", "link"} => dir[n] = NoEntry
    /\ call = "create" => \E i \in Inode : \A m \in Name : i \notin kept[m]
    /\ call = "unlink" => dir[n] # NoEntry

\* One system call of the plan.
Perform(call, n) ==
    \/ /\ call = "create"
       /\ SetEntry(n, FreeInode)
       /\ inode' = [inode EXCEPT ![FreeInode] = NoInode]
    \/ call = "chown" /\ Chown(dir[n]) /\ UNCHANGED <<dir, kept>>
    \/ call = "write" /\ Write(dir[n]) /\ UNCHANGED <<dir, kept>>
    \/ call = "fsync" /\ Fsync(dir[n]) /\ UNCHANGED <<dir, kept>>
    \/ call = "link" /\ SetEntry(n, dir[Temp]) /\ UNCHANGED inode
    \/ call = "unlink" /\ SetEntry(n, NoEntry) /\ UNCHANGED inode
    \/ call = "sync" /\ SyncDirectory /\ UNCHANGED <<dir, inode>>

Unfinished == Head(todo)[1] = "write" /\ inode'[dir[Temp]].len # 3

-----------------------------------------------------------------------------
(***************************************************************************)
(* A start, step by step.                                                  *)
(***************************************************************************)
Goto(step) == pc' = step /\ UNCHANGED exit

\* The process ends: everything it remembered is gone.
Exit(why) == pc' = "DOWN" /\ exit' = why /\ mem' = NoMemory /\ todo' = <<>>

\* A database is missing and claim artifacts are there.
Orphaned == ~db.file /\ HasArtifact

Preflight ==
    /\ pc = "DOWN"
    /\ IF Orphaned THEN Exit("ORPHAN")
       ELSE /\ pc' = "CONNECT" /\ exit' = "NONE"
            /\ mem' = [NoMemory EXCEPT !.existed = db.file]
            /\ UNCHANGED todo
    /\ UNCHANGED <<db, drawn, disk, telegram, faults>>

\* connect looks again before it creates the file; the migrations insert the
\* singletons.
Connect ==
    /\ pc = "CONNECT"
    /\ IF ~mem.existed /\ (db.file \/ Orphaned) THEN Exit("ORPHAN") /\ UNCHANGED db
       ELSE Goto("SEED") /\ db' = [db EXCEPT !.file = TRUE] /\ UNCHANGED <<mem, todo>>
    /\ UNCHANGED <<drawn, disk, telegram, faults>>

LoadOrInitializeMasterSeed ==
    /\ pc = "SEED"
    /\ \E s \in IF db.seed = None THEN Seed \ drawn ELSE {db.seed} :
        /\ db' = [db EXCEPT !.seed = s]
        /\ drawn' = drawn \cup {s}
        /\ mem' = [mem EXCEPT !.seed = s, !.code = s]
    /\ Goto("VALIDATE")
    /\ UNCHANGED <<disk, todo, telegram, faults>>

ValidateExisting ==
    /\ pc = "VALIDATE"
    /\ IF SafeEntries(mem.code) THEN Goto("IDENTIFY") /\ UNCHANGED <<mem, todo>> ELSE Exit("UNSAFE")
    /\ UNCHANGED <<db, drawn, disk, telegram, faults>>

\* Mutant: the bot of the configured token is taken as it comes.
PinIgnored == FALSE

PinMismatch == db.bot \notin {None, token}

DeriveWebhookSecret(bot) == <<mem.seed, bot>>

\* getMe names the bot of the configured token; the first one is pinned.
PinOrVerify ==
    /\ pc = "IDENTIFY"
    /\ IF PinMismatch THEN Exit("BOT") /\ UNCHANGED db
       ELSE /\ db' = [db EXCEPT !.bot = IF @ = None THEN token ELSE @]
            /\ mem' = [mem EXCEPT !.secret = DeriveWebhookSecret(db'.bot)]
            /\ Goto("OWNER") /\ UNCHANGED todo
    /\ UNCHANGED <<drawn, disk, telegram, faults>>

\* The Owner is loaded or, of an older version's database, imported, which
\* makes the installation claimed.
InitializeOwner ==
    /\ pc = "OWNER"
    /\ \E owner \in IF db.owner # "INIT" THEN {db.owner}
                    ELSE IF Legacy \in db.keys THEN {"CLAIMED", "UNCLAIMED"}
                    ELSE {"UNCLAIMED"} :
        db' = [db EXCEPT !.owner = owner]
    /\ Goto("UPGRADE")
    /\ UNCHANGED <<drawn, disk, mem, todo, telegram, faults>>

\* Mutant: open challenges keep the key they were signed with.
KeepHmacs(keys) == keys

\* Open challenges signed with the key of the environment are signed again.
UpgradeHmacs(keys) == {IF k = Legacy THEN mem.seed ELSE k : k \in keys}

\* After the lookup and the replay, which Reconciliation and Processing hold.
UpgradeChallenges ==
    /\ pc = "UPGRADE"
    /\ db' = [db EXCEPT !.keys = UpgradeHmacs(@)]
    /\ Goto("RECONCILE")
    /\ UNCHANGED <<drawn, disk, mem, todo, telegram, faults>>

\* The entries are inspected again, and the calls on them follow from that.
ReconcileClaimFile ==
    /\ pc = "RECONCILE"
    /\ IF SafeEntries(mem.code)
       THEN /\ Goto("FILES") /\ todo' = Reconcile
            /\ UNCHANGED mem
       ELSE Exit("UNSAFE")
    /\ UNCHANGED <<db, drawn, disk, telegram, faults>>

Syscall ==
    /\ todo # <<>> /\ Possible(Head(todo)[1], Head(todo)[2])
    /\ Perform(Head(todo)[1], Head(todo)[2])
    /\ todo' = IF Unfinished THEN todo ELSE Tail(todo)
    /\ UNCHANGED <<db, drawn, pc, mem, exit, telegram, faults>>

\* An error ends the start, but not the service: a claim stands whatever
\* becomes of the file.
Abandon ==
    IF pc = "RETIRING" THEN todo' = <<>> /\ UNCHANGED <<pc, mem, exit>> ELSE Exit("FAILED")

SyscallRefused ==
    /\ todo # <<>> /\ ~Possible(Head(todo)[1], Head(todo)[2])
    /\ Abandon
    /\ UNCHANGED <<db, drawn, disk, telegram, faults>>

\* A claimed installation forgets the code.
Prepared ==
    /\ pc = "FILES" /\ todo = <<>>
    /\ mem' = [mem EXCEPT !.code = IF db.owner = "CLAIMED" THEN None ELSE @]
    /\ Goto("BOUND")
    /\ UNCHANGED <<db, drawn, disk, todo, telegram, faults>>

Declare(bot, secret) == hook' = [hook EXCEPT ![bot] = secret]

Register ==
    /\ pc = "BOUND"
    /\ Declare(token, mem.secret)
    /\ Goto("SERVING")
    /\ UNCHANGED <<db, drawn, disk, mem, todo, token, late, faults>>

\* Mutant: one attempt too many.
OneMoreAttempt == mem.tries = Attempts

LastAttempt == mem.tries + 1 = Attempts

\* Mutant: the last attempt's failure is taken for an answer that was lost.
ServeAnyway ==
    IF LastAttempt THEN Goto("SERVING") /\ UNCHANGED <<mem, todo>>
    ELSE mem' = [mem EXCEPT !.tries = @ + 1] /\ UNCHANGED <<pc, exit, todo>>

AfterFailedAttempt ==
    IF LastAttempt THEN Exit("FAILED")
    ELSE mem' = [mem EXCEPT !.tries = @ + 1] /\ UNCHANGED <<pc, exit, todo>>

-----------------------------------------------------------------------------
(***************************************************************************)
(* Serving: a challenge is asked, the Owner claims, the code is retired.   *)
(***************************************************************************)
Ask ==
    /\ pc = "SERVING"
    /\ db' = [db EXCEPT !.keys = @ \cup {mem.seed}]
    /\ UNCHANGED <<drawn, disk, process, telegram, faults>>

\* /claim with the code in memory, on a row that is still unclaimed.
Claim ==
    /\ pc = "SERVING" /\ mem.code # None /\ db.owner = "UNCLAIMED"
    /\ db' = [db EXCEPT !.owner = "CLAIMED"]
    /\ Goto("COMMITTED")
    /\ UNCHANGED <<drawn, disk, mem, todo, telegram, faults>>

\* finish_owner_claim: a refusal is logged, the code is forgotten anyway.
FinishOwnerClaim ==
    /\ pc = "COMMITTED"
    /\ Goto("RETIRING")
    /\ todo' = IF SafeEntries(mem.code) THEN RetireAfterClaim ELSE <<>>
    /\ UNCHANGED <<db, drawn, disk, mem, telegram, faults>>

Retired ==
    /\ pc = "RETIRING" /\ todo = <<>>
    /\ mem' = [mem EXCEPT !.code = None]
    /\ Goto("SERVING")
    /\ UNCHANGED <<db, drawn, disk, todo, telegram, faults>>

-----------------------------------------------------------------------------
(***************************************************************************)
(* What goes wrong.                                                        *)
(***************************************************************************)
Suffer(f) == f \in Fault /\ faults < MaxFaults /\ faults' = faults + 1

\* The process is killed: what it wrote stays visible.
Crash ==
    /\ Suffer("crash") /\ pc # "DOWN"
    /\ Exit("FAILED")
    /\ UNCHANGED <<db, drawn, disk, telegram>>

\* The machine stops: each name keeps an entry it may have, and a file that
\* was not synced a prefix of what was written; a change of owner that is lost
\* takes what was written after it along.  SQLite's commits are durable.
Survives(old) ==
    IF old.synced THEN {old}
    ELSE {[old EXCEPT !.len = k] : k \in 1 .. old.len} \cup {NoInode}

PowerLoss ==
    /\ Suffer("power") /\ pc # "DOWN"
    /\ dir' \in {d \in [Name -> UNION {kept[n] : n \in Name}] : \A n \in Name : d[n] \in kept[n]}
    /\ kept' = [n \in Name |-> {dir'[n]}]
    /\ inode' \in {f \in [Inode -> UNION {Survives(inode[i]) : i \in Inode}] :
                      \A i \in Inode : f[i] \in Survives(inode[i])}
    /\ Exit("FAILED")
    /\ UNCHANGED <<db, drawn, telegram>>

\* A transaction, entropy, getMe, the lookup, the bind or a call on the files
\* fails: the start ends, or the retirement is given up.
StepFails ==
    /\ Suffer("io") /\ (Starting \/ (pc = "RETIRING" /\ todo # <<>>))
    /\ Abandon
    /\ UNCHANGED <<db, drawn, disk, telegram>>

\* No answer, or one that may be retried: the declaration may have been
\* taken, or be taken later, or not at all.
RegistrationUnanswered ==
    /\ Suffer("telegram") /\ pc = "BOUND"
    /\ late' = late \cup {<<token, mem.secret>>}
    /\ AfterFailedAttempt
    /\ UNCHANGED <<db, drawn, disk, token, hook>>

RegistrationRefused ==
    /\ Suffer("telegram") /\ pc = "BOUND"
    /\ Exit("FAILED")
    /\ UNCHANGED <<db, drawn, disk, telegram>>

LateRegistration ==
    /\ \E r \in late : Declare(r[1], r[2]) /\ late' = late \ {r}
    /\ UNCHANGED <<db, drawn, disk, process, token, faults>>

\* A signal, or a revoked token: the workers are told to stop and waited for.
\* One that waits in a transaction for longer than that is aborted there.
Shutdown ==
    /\ Suffer("stop") /\ pc \in {"SERVING", "COMMITTED"}
    /\ Exit("FAILED")
    /\ UNCHANGED <<db, drawn, disk, telegram>>

\* The operator removes the file, while nothing or everything runs.
RemoveClaimCode ==
    /\ Suffer("operator") /\ pc \in {"DOWN", "SERVING", "RETIRING"} /\ dir[Target] # NoEntry
    /\ dir' = [dir EXCEPT ![Target] = NoEntry]
    /\ kept' = [n \in Name |-> {dir'[n]}]
    /\ UNCHANGED <<db, drawn, inode, process, telegram>>

\* ... removes the database (once nothing of the old one is under way) ...
RemoveDatabase ==
    /\ Suffer("operator") /\ pc = "DOWN" /\ db.file /\ late = {} /\ drawn # Seed
    /\ db' = NoDatabase
    /\ kept' = [n \in Name |-> {dir[n]}]
    /\ UNCHANGED <<drawn, dir, inode, process, telegram>>

\* ... or configures another bot's token.
ChangeToken ==
    /\ Suffer("operator") /\ pc = "DOWN"
    /\ \E b \in Bot \ {token} : token' = b
    /\ UNCHANGED <<db, drawn, disk, process, hook, late>>

-----------------------------------------------------------------------------
InstInit ==
    /\ \E o \in Origin : db = [NoDatabase EXCEPT !.file = (o = Legacy),
                                 !.keys = IF o = Legacy THEN {Legacy} ELSE {}]
    /\ drawn = {} /\ faults = 0 /\ late = {}
    /\ dir = [n \in Name |-> NoEntry] /\ kept = [n \in Name |-> {NoEntry}]
    /\ inode = [i \in Inode |-> NoInode]
    /\ pc = "DOWN" /\ mem = NoMemory /\ todo = <<>> /\ exit = "NONE"
    /\ token \in Bot /\ hook = [b \in Bot |-> <<>>]

Step ==
    \/ Preflight \/ Connect \/ LoadOrInitializeMasterSeed \/ ValidateExisting
    \/ PinOrVerify \/ InitializeOwner \/ UpgradeChallenges
    \/ ReconcileClaimFile \/ Syscall \/ SyscallRefused \/ Prepared \/ Register
    \/ FinishOwnerClaim \/ Retired

Environment ==
    \/ Ask \/ Claim
    \/ Crash \/ PowerLoss \/ StepFails \/ Shutdown
    \/ RegistrationUnanswered \/ RegistrationRefused \/ LateRegistration
    \/ RemoveClaimCode \/ RemoveDatabase \/ ChangeToken

InstNext == Step \/ Environment

InstSpec == InstInit /\ [][InstNext]_instVars

\* The process runs and its supervisor starts it again.
FairInstSpec == InstSpec /\ WF_instVars(Step)

-----------------------------------------------------------------------------
(***************************************************************************)
(* Correctness.                                                            *)
(***************************************************************************)
\* The types of the variables.
InstTypeOK ==
    /\ db \in [file : BOOLEAN, seed : Seed \cup {None}, bot : Bot \cup {None},
               owner : {"INIT", "UNCLAIMED", "CLAIMED"}, keys : SUBSET (Seed \cup {Legacy})]
    /\ dir \in [Name -> Inode \cup {NoEntry}] /\ kept \in [Name -> SUBSET (Inode \cup {NoEntry})]
    /\ inode \in [Inode -> [code : Seed \cup {None}, len : 1..3,
                            owner : {"service", "directory"}, synced : BOOLEAN]]
    /\ mem.tries < Attempts
    /\ exit \in {"NONE", "FAILED", "ORPHAN", "UNSAFE", "BOT"}

\* Wherever an earlier start ended, by a crash, a power loss or a failed call,
\* the next one never refuses the entries it left (inspect_entry and
\* validate_pair accept all that create_and_publish and retire leave).
LeftoversAccepted == exit # "UNSAFE"

\* Under claim-code there is never, not even after a power loss, anything but
\* the whole code of this database's seed, owned by the directory's owner.
PublishedCodeWorks ==
    \A i \in kept[Target] \ {NoEntry} :
        /\ inode[i].synced /\ OwnedByDirectory(i)
        /\ db.seed # None => Exact(i, db.seed)

\* Whatever earlier starts left half done, once its files are reconciled an
\* unclaimed installation shows its code and nothing else, and a claimed one,
\* also one whose retirement was cut short, shows no entry at all.
FilesFollowOwner ==
    pc = "BOUND" =>
        dir[Temp] = NoEntry /\ (dir[Target] = NoEntry <=> db.owner = "CLAIMED")

\* While the service runs Telegram signs its updates with the secret the
\* endpoint expects, whatever registrations of earlier attempts and starts
\* come through late.
WebhookAccepted == Serving => hook[token] = mem.secret

\* One seed never signs for two bots.
OneBotPerSeed ==
    \A a, b \in Bot : hook[a] # <<>> /\ hook[b] # <<>> /\ hook[a][1] = hook[b][1] => a = b

\* Every open challenge of a running service is signed with the key that
\* checks its answer, also those asked before the upgrade and before a crash.
ChallengesAnswerable == Serving => db.keys \subseteq {mem.seed}

\* Only the operator's doing keeps a start from serving for good.
Refused == Orphaned \/ PinMismatch

\* When the failures end the service comes up and stays up.
ComesUp == <>[](Serving \/ Refused)

\* A claimed installation never publishes a code again: an entry that comes
\* back under claim-code is one a power loss restored.
NoCodeAfterClaim ==
    [][db.owner = "CLAIMED" /\ dir[Target] = NoEntry => dir'[Target] \in kept[Target]]_instVars
=============================================================================
