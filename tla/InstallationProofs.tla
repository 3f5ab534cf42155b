------------------------- MODULE InstallationProofs -------------------------
(***************************************************************************)
(* What Installation promises, for any set of seeds, bots and inodes, any  *)
(* number of attempts and any number of failures of every kind, in any     *)
(* order.                                                                  *)
(*                                                                         *)
(* The properties rest on one inductive invariant.  It says how far a      *)
(* start has come determines what the process may rely on (Progress),      *)
(* which inodes may be found behind the two names after a power loss       *)
(* (Entries), and what the directory looks like at every call of the plan  *)
(* on the claim-code entries (Plan).                                       *)
(***************************************************************************)
EXTENDS Installation, SequenceTheorems, TLAPS

-----------------------------------------------------------------------------
AfterConnect == pc \notin {"DOWN", "CONNECT"}
AfterSeed == AfterConnect /\ pc # "SEED"
AfterIdentify == AfterSeed /\ pc \notin {"VALIDATE", "IDENTIFY"}
AfterOwner == AfterIdentify /\ pc # "OWNER"
AfterUpgrade == AfterOwner /\ pc # "UPGRADE"

\* The types of what InstTypeOK leaves open.
ProcessTypeOK ==
    /\ pc \in {"DOWN", "CONNECT", "SEED", "VALIDATE", "IDENTIFY", "OWNER", "UPGRADE",
               "RECONCILE", "FILES", "BOUND", "SERVING", "COMMITTED", "RETIRING"}
    /\ mem \in [existed : BOOLEAN, seed : Seed \cup {None}, code : Seed \cup {None},
                secret : {<<>>} \cup (Seed \X Bot), tries : Nat]
    /\ token \in Bot /\ drawn \subseteq Seed
    /\ \A n \in Name : dir[n] \in kept[n]

\* What a start may rely on once it has come so far: above all that the seed,
\* the code and the secret in memory are those of the database.
Progress ==
    /\ pc = "CONNECT" => mem.existed = db.file
    /\ AfterConnect => db.file
    /\ AfterSeed => db.seed # None /\ mem.seed = db.seed
    /\ pc \in {"VALIDATE", "IDENTIFY", "OWNER", "UPGRADE", "RECONCILE", "FILES"} => mem.code = db.seed
    /\ AfterIdentify => db.bot = token /\ mem.secret = <<db.seed, db.bot>>
    /\ AfterOwner => db.owner # "INIT"
    /\ AfterUpgrade => db.keys \subseteq {db.seed}

\* The seed is one that was drawn, and challenges know no other key.
Keys ==
    /\ db.seed \in drawn \cup {None}
    /\ db.keys \subseteq {Legacy, db.seed}

\* An inode that may be found under the temporary name: empty, or as much of
\* the code as was written, and never whole but in the directory owner's hands.
Leftover(i) ==
    \/ inode[i].len = 1
    \/ /\ inode[i].code = db.seed
       /\ inode[i].len = 3 => OwnedByDirectory(i)

\* What may be behind the two names, before and after a power loss.
Entries ==
    /\ ~db.file => \A n \in Name : kept[n] = {dir[n]}
    /\ db.file /\ db.seed = None => \A n \in Name : kept[n] = {NoEntry}
    /\ db.seed # None => \A i \in kept[Temp] \ {NoEntry} : Leftover(i)
    /\ PublishedCodeWorks

-----------------------------------------------------------------------------
(***************************************************************************)
(* The plans on the claim-code entries, from each call on to the end.      *)
(***************************************************************************)
Synced(n) == << <<"sync", n>> >>
Unlinked(n) == << <<"unlink", n>>, <<"sync", n>> >>
SyncTargetUnlinkTemp == << <<"sync", Target>>, <<"unlink", Temp>>, <<"sync", Temp>> >>
UnlinkBoth ==
    << <<"unlink", Target>>, <<"sync", Target>>, <<"unlink", Temp>>, <<"sync", Temp>> >>
FromLink ==
    << <<"link", Target>>, <<"sync", Target>>, <<"unlink", Temp>>, <<"sync", Temp>> >>
FromFsync ==
    << <<"fsync", Temp>>, <<"link", Target>>, <<"sync", Target>>, <<"unlink", Temp>>, <<"sync", Temp>> >>
FromWrite ==
    << <<"write", Temp>>, <<"fsync", Temp>>, <<"link", Target>>, <<"sync", Target>>,
       <<"unlink", Temp>>, <<"sync", Temp>> >>
FromChown ==
    << <<"chown", Temp>>, <<"write", Temp>>, <<"fsync", Temp>>, <<"link", Target>>,
       <<"sync", Target>>, <<"unlink", Temp>>, <<"sync", Temp>> >>
FromSync ==
    << <<"sync", Temp>>, <<"create", Temp>>, <<"chown", Temp>>, <<"write", Temp>>,
       <<"fsync", Temp>>, <<"link", Target>>, <<"sync", Target>>, <<"unlink", Temp>>, <<"sync", Temp>> >>
FromUnlink ==
    << <<"unlink", Temp>>, <<"sync", Temp>>, <<"create", Temp>>, <<"chown", Temp>>, <<"write", Temp>>,
       <<"fsync", Temp>>, <<"link", Target>>, <<"sync", Target>>, <<"unlink", Temp>>, <<"sync", Temp>> >>

Bare == \A n \in Name : dir[n] = NoEntry
Fresh == dir[Target] = NoEntry /\ dir[Temp] # NoEntry

\* An unclaimed installation's calls, with what holds before each of them: the
\* code is linked only when it is whole, owned by the directory's owner and on
\* disk.
PublishPlan ==
    \/ todo = FromUnlink /\ Fresh
    \/ todo \in {FromSync, CreateAndPublish} /\ Bare
    \/ todo = FromChown /\ Fresh /\ inode[dir[Temp]] = NoInode
    \/ /\ todo = FromWrite /\ Fresh
       /\ inode[dir[Temp]].owner = "directory" /\ ~inode[dir[Temp]].synced
       /\ inode[dir[Temp]].len # 3
    \/ /\ todo = FromFsync /\ Fresh
       /\ inode[dir[Temp]].owner = "directory" /\ ~inode[dir[Temp]].synced
       /\ Exact(dir[Temp], db.seed)
    \/ /\ todo = FromLink /\ Fresh
       /\ inode[dir[Temp]].owner = "directory" /\ inode[dir[Temp]].synced
       /\ Exact(dir[Temp], db.seed)
    \/ todo \in {SyncTargetUnlinkTemp, Unlinked(Temp)} /\ \A n \in Name : dir[n] # NoEntry
    \/ todo \in {Synced(Temp), <<>>} /\ dir[Temp] = NoEntry /\ dir[Target] # NoEntry

\* A claimed installation's calls at a start.
RetirePlan ==
    \/ todo = UnlinkBoth /\ dir[Temp] # NoEntry
    \/ todo \in {SyncTargetUnlinkTemp, Unlinked(Temp)} /\ dir[Target] = NoEntry
    \/ todo = Unlinked(Target) /\ dir[Temp] = NoEntry
    \/ todo \in {Synced(Target), Synced(Temp), <<>>} /\ Bare

Retirement ==
    {UnlinkBoth, SyncTargetUnlinkTemp, Unlinked(Temp), Unlinked(Target),
     Synced(Target), Synced(Temp), <<>>}

Plan ==
    /\ pc = "FILES" => IF db.owner = "CLAIMED" THEN RetirePlan ELSE PublishPlan
    /\ pc = "RETIRING" => todo \in Retirement
    /\ pc \notin {"FILES", "RETIRING"} => todo = <<>>

-----------------------------------------------------------------------------
\* The secret Telegram holds for a bot names that bot and a seed that was
\* drawn; this database's seed signs for its own bot only, and what is still
\* under way is this database's.
Webhooks ==
    /\ hook \in [Bot -> {<<>>} \cup (Seed \X Bot)]
    /\ \A b \in Bot : hook[b] # <<>> =>
         /\ hook[b][1] \in drawn /\ hook[b][2] = b
         /\ hook[b][1] = db.seed => b = db.bot
    /\ \A r \in late : db.seed # None /\ db.bot # None /\ r = <<db.bot, <<db.seed, db.bot>> >>

InstInv ==
    /\ InstTypeOK /\ ProcessTypeOK
    /\ LeftoversAccepted
    /\ Progress /\ Keys
    /\ Entries /\ Plan /\ FilesFollowOwner
    /\ Webhooks /\ WebhookAccepted /\ OneBotPerSeed

-----------------------------------------------------------------------------
\* Every installation starts, absent or with an older version's database, in a
\* state of the invariant.
LEMMA InstInitInv == InstInit => InstInv
  <1> SUFFICES ASSUME InstInit PROVE InstInv
    OBVIOUS
  <1> USE InstallationConstants DEF InstallationConstants
  <1>1. InstTypeOK
    <2>1. PICK o \in Origin : db = [NoDatabase EXCEPT !.file = (o = Legacy),
                                       !.keys = IF o = Legacy THEN {Legacy} ELSE {}]
      BY DEF InstInit
    <2>2. db = [file |-> (o = Legacy), seed |-> None, bot |-> None, owner |-> "INIT",
                keys |-> IF o = Legacy THEN {Legacy} ELSE {}]
      BY <2>1 DEF NoDatabase
    <2>3. (o = Legacy) \in BOOLEAN
      OBVIOUS
    <2>4. db \in [file : BOOLEAN, seed : Seed \cup {None}, bot : Bot \cup {None},
                  owner : {"INIT", "UNCLAIMED", "CLAIMED"}, keys : SUBSET (Seed \cup {Legacy})]
      BY <2>2, <2>3
    <2>5. mem.tries < Attempts
      BY DEF InstInit, NoMemory
    <2> QED
      BY <2>4, <2>5 DEF InstInit, InstTypeOK, NoInode
  <1>2. ProcessTypeOK
    BY DEF InstInit, ProcessTypeOK, NoMemory, Name
  <1>3. LeftoversAccepted /\ FilesFollowOwner /\ WebhookAccepted
    BY DEF InstInit, LeftoversAccepted, FilesFollowOwner, WebhookAccepted, Serving
  <1>4. Progress
    BY DEF InstInit, Progress, AfterConnect, AfterSeed, AfterIdentify, AfterOwner, AfterUpgrade
  <1>5. Keys
    BY DEF InstInit, Keys, NoDatabase, Legacy
  <1>6. Entries
    BY DEF InstInit, Entries, PublishedCodeWorks, NoDatabase, Name, Target, Temp
  <1>7. Plan
    BY DEF InstInit, Plan
  <1>8. Webhooks /\ OneBotPerSeed
    BY DEF InstInit, Webhooks, OneBotPerSeed
  <1> QED
    BY <1>1, <1>2, <1>3, <1>4, <1>5, <1>6, <1>7, <1>8 DEF InstInv

-----------------------------------------------------------------------------
(***************************************************************************)
(* The parts of the invariant that an action does not touch.               *)
(***************************************************************************)
\* What is on the disk is judged by the seed alone.
LEMMA EntriesKept ==
    ASSUME Entries, UNCHANGED disk, db'.file = db.file, db'.seed = db.seed
    PROVE  Entries'
  BY DEF Entries, PublishedCodeWorks, Leftover, Exact, OwnedByDirectory, disk

\* What Telegram holds is judged by the database's seed and bot.
LEMMA WebhooksKept ==
    ASSUME Webhooks, OneBotPerSeed, drawn' = drawn, UNCHANGED <<hook, late>>,
           db'.seed = db.seed, db'.bot = db.bot
    PROVE  Webhooks' /\ OneBotPerSeed'
  BY DEF Webhooks, OneBotPerSeed

\* The process ends, with the rest as it is.
LEMMA ExitKeeps ==
    ASSUME InstInv, NEW why \in {"FAILED", "ORPHAN", "BOT"}, Exit(why),
           UNCHANGED <<db, drawn, disk, telegram>>
    PROVE  InstInv'
  <1> USE InstallationConstants DEF InstallationConstants
  <1>1. InstTypeOK'
    BY DEF InstInv, InstTypeOK, Exit, NoMemory, disk
  <1>2. ProcessTypeOK'
    BY DEF InstInv, ProcessTypeOK, Exit, NoMemory, disk, telegram
  <1>3. (LeftoversAccepted /\ FilesFollowOwner /\ WebhookAccepted)'
    BY DEF Exit, LeftoversAccepted, FilesFollowOwner, WebhookAccepted, Serving
  <1>4. Progress'
    BY DEF Exit, Progress, AfterConnect, AfterSeed, AfterIdentify, AfterOwner, AfterUpgrade
  <1>5. Keys'
    BY DEF InstInv, Keys
  <1>6. Entries'
    BY EntriesKept DEF InstInv
  <1>7. Plan'
    BY DEF Exit, Plan
  <1>8. Webhooks' /\ OneBotPerSeed'
    BY WebhooksKept DEF InstInv, telegram
  <1> QED
    BY <1>1, <1>2, <1>3, <1>4, <1>5, <1>6, <1>7, <1>8 DEF InstInv

-----------------------------------------------------------------------------
(***************************************************************************)
(* A start, step by step.                                                  *)
(***************************************************************************)
\* Either claim artifacts stand alone and the start ends, or the process
\* remembers whether the database was there.
LEMMA PreflightInv == InstInv /\ Preflight => InstInv'
  <1> SUFFICES ASSUME InstInv, Preflight PROVE InstInv'
    OBVIOUS
  <1> USE InstallationConstants DEF InstallationConstants
  <1>1. CASE Orphaned
    BY <1>1, ExitKeeps DEF Preflight
  <1>2. CASE ~Orphaned
    <2>1. /\ pc = "DOWN" /\ pc' = "CONNECT" /\ exit' = "NONE" /\ todo' = todo
          /\ mem' = [existed |-> db.file, seed |-> None, code |-> None, secret |-> <<>>, tries |-> 0]
          /\ db' = db /\ drawn' = drawn /\ dir' = dir /\ kept' = kept /\ inode' = inode
          /\ token' = token /\ hook' = hook /\ late' = late
      BY <1>2 DEF Preflight, NoMemory, disk, telegram
    <2>2. InstTypeOK'
      BY <2>1 DEF InstInv, InstTypeOK
    <2>3. ProcessTypeOK'
      BY <2>1 DEF InstInv, InstTypeOK, ProcessTypeOK
    <2>4. (LeftoversAccepted /\ FilesFollowOwner /\ WebhookAccepted)'
      BY <2>1 DEF LeftoversAccepted, FilesFollowOwner, WebhookAccepted, Serving
    <2>5. Progress'
      BY <2>1 DEF Progress, AfterConnect, AfterSeed, AfterIdentify, AfterOwner, AfterUpgrade
    <2>6. Keys' /\ Plan'
      BY <2>1 DEF InstInv, Keys, Plan
    <2>7. Entries'
      BY <2>1, EntriesKept DEF InstInv, disk
    <2>8. Webhooks' /\ OneBotPerSeed'
      BY <2>1, WebhooksKept DEF InstInv
    <2> QED
      BY <2>2, <2>3, <2>4, <2>5, <2>6, <2>7, <2>8 DEF InstInv
  <1> QED
    BY <1>1, <1>2

\* A database is created beside no entry, so an empty one never has any.
LEMMA ConnectInv == InstInv /\ Connect => InstInv'
  <1> SUFFICES ASSUME InstInv, Connect PROVE InstInv'
    OBVIOUS
  <1> USE InstallationConstants DEF InstallationConstants
  <1>1. CASE ~mem.existed /\ (db.file \/ Orphaned)
    BY <1>1, ExitKeeps DEF Connect
  <1>2. CASE ~(~mem.existed /\ (db.file \/ Orphaned))
    <2>1. /\ pc = "CONNECT" /\ pc' = "SEED" /\ exit' = exit /\ todo' = todo /\ mem' = mem
          /\ drawn' = drawn /\ dir' = dir /\ kept' = kept /\ inode' = inode
          /\ token' = token /\ hook' = hook /\ late' = late
          /\ db' = [db EXCEPT !.file = TRUE]
      BY <1>2 DEF Connect, Goto, disk, telegram
    <2>2. /\ db'.file /\ db'.seed = db.seed /\ db'.bot = db.bot
          /\ db'.owner = db.owner /\ db'.keys = db.keys
      BY <2>1 DEF InstInv, InstTypeOK
    <2>3. InstTypeOK'
      BY <2>1 DEF InstInv, InstTypeOK
    <2>4. ProcessTypeOK'
      BY <2>1 DEF InstInv, ProcessTypeOK
    <2>5. (LeftoversAccepted /\ FilesFollowOwner /\ WebhookAccepted)'
      BY <2>1 DEF InstInv, LeftoversAccepted, FilesFollowOwner, WebhookAccepted, Serving
    <2>6. Progress'
      BY <2>1, <2>2 DEF Progress, AfterConnect, AfterSeed, AfterIdentify, AfterOwner, AfterUpgrade
    <2>7. Keys' /\ Plan'
      BY <2>1, <2>2 DEF InstInv, Keys, Plan
    <2>8. Entries'
      <3>1. ~db.file => \A n \in Name : kept[n] = {NoEntry}
        BY <1>2, <2>1 DEF InstInv, Progress, Entries, Orphaned, HasArtifact
      <3> QED
        BY <2>1, <2>2, <3>1 DEF InstInv, Entries, PublishedCodeWorks, Leftover, Exact, OwnedByDirectory,
                                Name
    <2>9. Webhooks' /\ OneBotPerSeed'
      BY <2>1, <2>2, WebhooksKept DEF InstInv
    <2> QED
      BY <2>3, <2>4, <2>5, <2>6, <2>7, <2>8, <2>9 DEF InstInv
  <1> QED
    BY <1>1, <1>2

\* A seed that is drawn is new: nothing on disk and no webhook knows it.
LEMMA SeedInv == InstInv /\ LoadOrInitializeMasterSeed => InstInv'
  <1> SUFFICES ASSUME InstInv, LoadOrInitializeMasterSeed PROVE InstInv'
    OBVIOUS
  <1> USE InstallationConstants DEF InstallationConstants
  <1>1. PICK s \in IF db.seed = None THEN Seed \ drawn ELSE {db.seed} :
          /\ db' = [db EXCEPT !.seed = s] /\ drawn' = drawn \cup {s}
          /\ mem' = [mem EXCEPT !.seed = s, !.code = s]
    BY DEF LoadOrInitializeMasterSeed
  <1>2. /\ pc = "SEED" /\ pc' = "VALIDATE" /\ exit' = exit /\ todo' = todo
        /\ dir' = dir /\ kept' = kept /\ inode' = inode
        /\ token' = token /\ hook' = hook /\ late' = late
    BY DEF LoadOrInitializeMasterSeed, Goto, disk, telegram
  <1>3. s \in Seed /\ s # None /\ (db.seed # None => s = db.seed) /\ (db.seed = None => s \notin drawn)
    BY <1>1 DEF InstInv, InstTypeOK
  <1>4. /\ db'.seed = s /\ db'.file = db.file /\ db'.bot = db.bot
        /\ db'.owner = db.owner /\ db'.keys = db.keys
    BY <1>1 DEF InstInv, InstTypeOK
  <1>5. mem'.seed = s /\ mem'.code = s /\ mem'.tries = mem.tries
    BY <1>1 DEF InstInv, ProcessTypeOK
  <1>6. InstTypeOK'
    BY <1>1, <1>2, <1>3, <1>5 DEF InstInv, InstTypeOK
  <1>7. ProcessTypeOK'
    BY <1>1, <1>2, <1>3 DEF InstInv, ProcessTypeOK
  <1>8. (LeftoversAccepted /\ FilesFollowOwner /\ WebhookAccepted)'
    BY <1>2 DEF InstInv, LeftoversAccepted, FilesFollowOwner, WebhookAccepted, Serving
  <1>9. Progress'
    BY <1>2, <1>3, <1>4, <1>5 DEF InstInv, Progress, AfterConnect, AfterSeed, AfterIdentify,
                                  AfterOwner, AfterUpgrade
  <1>10. Keys' /\ Plan'
    <2>1. db.seed = None => db.keys \subseteq {Legacy}
      BY DEF InstInv, Keys, InstTypeOK
    <2> QED
      BY <2>1, <1>1, <1>2, <1>3, <1>4 DEF InstInv, Keys, Plan
  <1>11. Entries'
    <2>1. db.file
      BY <1>2 DEF InstInv, Progress, AfterConnect
    <2>2. CASE db.seed = None
      BY <2>1, <2>2, <1>2, <1>3, <1>4 DEF InstInv, Entries, PublishedCodeWorks, Name
    <2>3. CASE db.seed # None
      BY <2>3, <1>2, <1>3, <1>4, EntriesKept DEF InstInv, disk
    <2> QED
      BY <2>2, <2>3
  <1>12. Webhooks' /\ OneBotPerSeed'
    BY <1>1, <1>2, <1>3, <1>4 DEF InstInv, Webhooks, OneBotPerSeed
  <1> QED
    BY <1>6, <1>7, <1>8, <1>9, <1>10, <1>11, <1>12 DEF InstInv

\* The lengths of a file, by name.
LEMMA Lengths ==
    \A l \in 1..3 : /\ Length[l] = "EMPTY" <=> l = 1
                    /\ Length[l] = "PARTIAL" <=> l = 2
                    /\ Length[l] = "EXACT" <=> l = 3
  BY DEF Length

\* inspect_entry and validate_pair accept everything the invariant allows.
LEMMA LeftoversSafe ==
    ASSUME InstInv, db.seed # None
    PROVE  SafeEntries(db.seed)
  <1> USE DEF InstInv
  <1>1. \A n \in Name : dir[n] \in kept[n] /\ dir[n] \in Inode \cup {NoEntry}
    BY DEF ProcessTypeOK, InstTypeOK
  <1>2. \A i \in Inode : inode[i].len \in 1..3
    BY DEF InstTypeOK
  <1>3. dir[Target] # NoEntry => Exact(dir[Target], db.seed) /\ OwnedByDirectory(dir[Target])
    BY <1>1 DEF Entries, PublishedCodeWorks, Name
  <1>4. InspectEntry(Target, db.seed)
    BY <1>3 DEF InspectEntry
  <1>5. InspectEntry(Temp, db.seed)
    <2> SUFFICES ASSUME dir[Temp] # NoEntry PROVE InspectEntry(Temp, db.seed)
      BY DEF InspectEntry
    <2>1. dir[Temp] \in Inode /\ dir[Temp] \in kept[Temp]
      BY <1>1 DEF Name
    <2>2. Leftover(dir[Temp])
      BY <2>1 DEF Entries
    <2>3. Twice(dir[Temp]) => dir[Target] = dir[Temp]
      BY DEF Twice, Links, Name
    <2>4. OwnedByDirectory(dir[Temp]) \/ ~Twice(dir[Temp])
      BY <2>3, <1>3
    <2>5. inode[dir[Temp]].len \in 1..3
      BY <2>1, <1>2
    <2>6. \/ Exact(dir[Temp], db.seed) /\ OwnedByDirectory(dir[Temp])
          \/ Prefix(dir[Temp], db.seed)
      BY <2>2, <2>5, Lengths DEF Leftover, Exact, Prefix
    <2> QED
      BY <2>4, <2>6 DEF InspectEntry
  <1>6. ValidatePair(db.seed)
    BY <1>3 DEF ValidatePair, SameInode
  <1> QED
    BY <1>4, <1>5, <1>6 DEF SafeEntries, Name

\* The first inspection never refuses what an earlier start left.
LEMMA ValidateInv == InstInv /\ ValidateExisting => InstInv'
  <1> SUFFICES ASSUME InstInv, ValidateExisting PROVE InstInv'
    OBVIOUS
  <1>1. SafeEntries(mem.code)
    BY LeftoversSafe DEF InstInv, Progress, ValidateExisting, AfterSeed, AfterConnect
  <1>2. /\ pc = "VALIDATE" /\ pc' = "IDENTIFY" /\ exit' = exit /\ todo' = todo /\ mem' = mem
        /\ db' = db /\ drawn' = drawn /\ dir' = dir /\ kept' = kept /\ inode' = inode
        /\ token' = token /\ hook' = hook /\ late' = late
    BY <1>1 DEF ValidateExisting, Goto, disk, telegram
  <1>3. InstTypeOK' /\ ProcessTypeOK'
    BY <1>2 DEF InstInv, InstTypeOK, ProcessTypeOK
  <1>4. (LeftoversAccepted /\ FilesFollowOwner /\ WebhookAccepted)'
    BY <1>2 DEF InstInv, LeftoversAccepted, FilesFollowOwner, WebhookAccepted, Serving
  <1>5. Progress'
    BY <1>2 DEF InstInv, Progress, AfterConnect, AfterSeed, AfterIdentify, AfterOwner, AfterUpgrade
  <1>6. Keys' /\ Plan'
    BY <1>2 DEF InstInv, Keys, Plan
  <1>7. Entries'
    BY <1>2, EntriesKept DEF InstInv, disk
  <1>8. Webhooks' /\ OneBotPerSeed'
    BY <1>2, WebhooksKept DEF InstInv
  <1> QED
    BY <1>3, <1>4, <1>5, <1>6, <1>7, <1>8 DEF InstInv

\* Only the pinned bot's token goes on, and its secret names seed and bot.
LEMMA PinInv == InstInv /\ PinOrVerify => InstInv'
  <1> SUFFICES ASSUME InstInv, PinOrVerify PROVE InstInv'
    OBVIOUS
  <1> USE InstallationConstants DEF InstallationConstants
  <1>1. CASE PinMismatch
    BY <1>1, ExitKeeps DEF PinOrVerify
  <1>2. CASE ~PinMismatch
    <2>1. /\ pc = "IDENTIFY" /\ pc' = "OWNER" /\ exit' = exit /\ todo' = todo
          /\ drawn' = drawn /\ dir' = dir /\ kept' = kept /\ inode' = inode
          /\ token' = token /\ hook' = hook /\ late' = late
          /\ db' = [db EXCEPT !.bot = IF @ = None THEN token ELSE @]
          /\ mem' = [mem EXCEPT !.secret = <<mem.seed, db'.bot>>]
      BY <1>2 DEF PinOrVerify, Goto, DeriveWebhookSecret, disk, telegram
    <2>2. token \in Bot /\ (IF db.bot = None THEN token ELSE db.bot) = token
      BY <1>2 DEF PinMismatch, InstInv, ProcessTypeOK
    <2>3. /\ db' = [db EXCEPT !.bot = token]
          /\ db'.bot = token /\ db'.file = db.file /\ db'.seed = db.seed
          /\ db'.owner = db.owner /\ db'.keys = db.keys
      BY <2>1, <2>2 DEF InstInv, InstTypeOK
    <2>4. /\ mem.seed = db.seed /\ db.seed \in Seed /\ mem.code = db.seed
      BY <2>1 DEF InstInv, Progress, AfterSeed, AfterConnect, InstTypeOK
    <2>5. /\ mem' = [mem EXCEPT !.secret = <<db.seed, token>>]
          /\ mem'.secret = <<db.seed, token>> /\ mem'.seed = db.seed /\ mem'.code = db.seed
          /\ mem'.tries = mem.tries
      BY <2>1, <2>3, <2>4 DEF InstInv, ProcessTypeOK
    <2>6. InstTypeOK'
      BY <2>1, <2>2, <2>3, <2>5 DEF InstInv, InstTypeOK
    <2>7. ProcessTypeOK'
      BY <2>1, <2>2, <2>4, <2>5 DEF InstInv, ProcessTypeOK
    <2>8. (LeftoversAccepted /\ FilesFollowOwner /\ WebhookAccepted)'
      BY <2>1 DEF InstInv, LeftoversAccepted, FilesFollowOwner, WebhookAccepted, Serving
    <2>9. Progress'
      BY <2>1, <2>3, <2>4, <2>5 DEF InstInv, Progress, AfterConnect, AfterSeed, AfterIdentify,
                                    AfterOwner, AfterUpgrade
    <2>10. Keys' /\ Plan'
      BY <2>1, <2>3 DEF InstInv, Keys, Plan
    <2>11. Entries'
      BY <2>1, <2>3, EntriesKept DEF InstInv, disk
    <2>12. Webhooks' /\ OneBotPerSeed'
      <3>1. db.bot \in {None, token}
        BY <1>2 DEF PinMismatch
      <3> QED
        BY <3>1, <2>1, <2>2, <2>3 DEF InstInv, Webhooks, OneBotPerSeed
    <2> QED
      BY <2>6, <2>7, <2>8, <2>9, <2>10, <2>11, <2>12 DEF InstInv
  <1> QED
    BY <1>1, <1>2

\* A step of the start that changes nothing but the Owner or the keys.
LEMMA DatabaseStep ==
    ASSUME InstInv, NEW owner \in {"UNCLAIMED", "CLAIMED"}, NEW keys \in SUBSET (Seed \cup {Legacy}),
           db' = [db EXCEPT !.owner = owner, !.keys = keys],
           keys \subseteq {Legacy, db.seed},
           \/ pc = "OWNER" /\ pc' = "UPGRADE"
           \/ pc = "UPGRADE" /\ pc' = "RECONCILE" /\ keys \subseteq {db.seed},
           UNCHANGED <<drawn, disk, mem, todo, exit, telegram>>
    PROVE  InstInv'
  <1>1. /\ db'.owner = owner /\ db'.keys = keys
        /\ db'.file = db.file /\ db'.seed = db.seed /\ db'.bot = db.bot
    BY DEF InstInv, InstTypeOK
  <1>2. /\ dir' = dir /\ kept' = kept /\ inode' = inode
        /\ token' = token /\ hook' = hook /\ late' = late
    BY DEF disk, telegram
  <1>3. InstTypeOK' /\ ProcessTypeOK'
    BY <1>2 DEF InstInv, InstTypeOK, ProcessTypeOK
  <1>4. (LeftoversAccepted /\ FilesFollowOwner /\ WebhookAccepted)'
    BY DEF InstInv, LeftoversAccepted, FilesFollowOwner, WebhookAccepted, Serving
  <1>5. Progress'
    BY <1>1, <1>2 DEF InstInv, Progress, AfterConnect, AfterSeed, AfterIdentify, AfterOwner, AfterUpgrade
  <1>6. Keys' /\ Plan'
    BY <1>1 DEF InstInv, Keys, Plan
  <1>7. Entries'
    BY <1>1, EntriesKept DEF InstInv
  <1>8. Webhooks' /\ OneBotPerSeed'
    BY <1>1, <1>2, WebhooksKept DEF InstInv
  <1> QED
    BY <1>3, <1>4, <1>5, <1>6, <1>7, <1>8 DEF InstInv

\* The Owner is loaded, imported or set up.
LEMMA OwnerInv == InstInv /\ InitializeOwner => InstInv'
  <1> SUFFICES ASSUME InstInv, InitializeOwner PROVE InstInv'
    OBVIOUS
  <1>1. PICK owner \in IF db.owner # "INIT" THEN {db.owner}
                        ELSE IF Legacy \in db.keys THEN {"CLAIMED", "UNCLAIMED"}
                        ELSE {"UNCLAIMED"} : db' = [db EXCEPT !.owner = owner]
    BY DEF InitializeOwner
  <1>2. owner \in {"UNCLAIMED", "CLAIMED"}
    BY <1>1 DEF InstInv, InstTypeOK
  <1>3. db' = [db EXCEPT !.owner = owner, !.keys = db.keys]
    BY <1>1 DEF InstInv, InstTypeOK
  <1> QED
    BY <1>2, <1>3, DatabaseStep DEF InstInv, InstTypeOK, Keys, InitializeOwner, Goto

\* The challenges of an older version are signed again with the seed's key.
LEMMA UpgradeInv == InstInv /\ UpgradeChallenges => InstInv'
  <1> SUFFICES ASSUME InstInv, UpgradeChallenges PROVE InstInv'
    OBVIOUS
  <1> DEFINE keys == UpgradeHmacs(db.keys)
  <1>1. mem.seed = db.seed /\ db.seed \in Seed /\ db.owner \in {"UNCLAIMED", "CLAIMED"}
    BY DEF InstInv, InstTypeOK, Progress, AfterSeed, AfterConnect, AfterIdentify, AfterOwner, UpgradeChallenges
  <1>2. keys \subseteq {db.seed}
    BY <1>1 DEF InstInv, Keys, UpgradeHmacs
  <1>3. db' = [db EXCEPT !.owner = db.owner, !.keys = keys]
    BY DEF InstInv, InstTypeOK, UpgradeChallenges
  <1>4. keys \in SUBSET (Seed \cup {Legacy}) /\ keys \subseteq {Legacy, db.seed}
    BY <1>1, <1>2
  <1> HIDE DEF keys
  <1> QED
    BY <1>1, <1>2, <1>3, <1>4, DatabaseStep DEF UpgradeChallenges, Goto

-----------------------------------------------------------------------------
(***************************************************************************)
(* The plans as sequences.                                                 *)
(***************************************************************************)
\* A concatenation, entry by entry.
LEMMA Glue ==
    ASSUME NEW S, NEW s \in Seq(S), NEW t \in Seq(S), NEW u \in Seq(S),
           Len(u) = Len(s) + Len(t),
           \A i \in 1..Len(s) : u[i] = s[i],
           \A i \in 1..Len(t) : u[Len(s) + i] = t[i]
    PROVE  s \o t = u
  <1>1. /\ s \o t \in Seq(S) /\ Len(s \o t) = Len(s) + Len(t)
        /\ \A i \in 1..Len(s) + Len(t) : (s \o t)[i] = IF i <= Len(s) THEN s[i] ELSE t[i - Len(s)]
    BY ConcatProperties
  <1>2. Len(s) \in Nat /\ Len(t) \in Nat
    BY LenProperties
  <1>3. ASSUME NEW i \in 1..Len(s) + Len(t) PROVE (s \o t)[i] = u[i]
    <2>1. CASE i <= Len(s)
      BY <2>1, <1>1, <1>2
    <2>2. CASE i > Len(s)
      <3>1. i - Len(s) \in 1..Len(t) /\ Len(s) + (i - Len(s)) = i
        BY <2>2, <1>2
      <3>2. u[Len(s) + (i - Len(s))] = t[i - Len(s)]
        BY <3>1
      <3> QED
        BY <2>2, <1>1, <1>2, <3>1, <3>2
    <2> QED
      BY <2>1, <2>2, <1>2
  <1> QED
    BY <1>1, <1>3, SeqEqual

\* The two removals of a retirement, in one plan.
LEMMA UnlinkBothPlan == Unlinked(Target) \o Unlinked(Temp) = UnlinkBoth
  <1> DEFINE a == <<"unlink", Target>>
             b == <<"sync", Target>>
             c == <<"unlink", Temp>>
             d == <<"sync", Temp>>
             s == <<a, b>>
             t == <<c, d>>
             u == <<a, b, c, d>>
             S == {a, b, c, d}
  <1>1. a \in S /\ b \in S /\ c \in S /\ d \in S
    OBVIOUS
  <1>2. s \o t = u
    <2> HIDE DEF a, b, c, d, S
    <2>1. s \in Seq(S) /\ t \in Seq(S) /\ u \in Seq(S)
      BY <1>1
    <2>2. Len(s) = 2 /\ Len(t) = 2 /\ Len(u) = 4
      OBVIOUS
    <2>3. (\A i \in 1..2 : u[i] = s[i]) /\ (\A i \in 1..2 : u[2 + i] = t[i])
      OBVIOUS
    <2> HIDE DEF s, t, u
    <2>4. /\ Len(u) = Len(s) + Len(t)
          /\ \A i \in 1..Len(s) : u[i] = s[i]
          /\ \A i \in 1..Len(t) : u[Len(s) + i] = t[i]
      BY <2>2, <2>3
    <2> QED
      BY <2>1, <2>4, Glue, Zenon
  <1> QED
    BY <1>2, Zenon DEF Unlinked, UnlinkBoth

\* The removal of a leftover and the publication, in one plan.
LEMMA FromUnlinkPlan == Unlinked(Temp) \o CreateAndPublish = FromUnlink
  <1> DEFINE a == <<"unlink", Temp>>
             b == <<"sync", Temp>>
             c == <<"create", Temp>>
             d == <<"chown", Temp>>
             e == <<"write", Temp>>
             f == <<"fsync", Temp>>
             g == <<"link", Target>>
             h == <<"sync", Target>>
             s == <<a, b>>
             t == <<c, d, e, f, g, h, a, b>>
             u == <<a, b, c, d, e, f, g, h, a, b>>
             S == {a, b, c, d, e, f, g, h}
  <1>1. a \in S /\ b \in S /\ c \in S /\ d \in S /\ e \in S /\ f \in S /\ g \in S /\ h \in S
    OBVIOUS
  <1>2. s \o t = u
    <2> HIDE DEF a, b, c, d, e, f, g, h, S
    <2>1. s \in Seq(S) /\ t \in Seq(S) /\ u \in Seq(S)
      BY <1>1
    <2>2. Len(s) = 2 /\ Len(t) = 8 /\ Len(u) = 10
      OBVIOUS
    <2>3. (\A i \in 1..2 : u[i] = s[i]) /\ (\A i \in 1..8 : u[2 + i] = t[i])
      OBVIOUS
    <2> HIDE DEF s, t, u
    <2>4. /\ Len(u) = Len(s) + Len(t)
          /\ \A i \in 1..Len(s) : u[i] = s[i]
          /\ \A i \in 1..Len(t) : u[Len(s) + i] = t[i]
      BY <2>2, <2>3
    <2> QED
      BY <2>1, <2>4, Glue, Zenon
  <1> QED
    BY <1>2, Zenon DEF Unlinked, CreateAndPublish, FromUnlink

\* A sequence of at least one call: its first call and the rest.
Starts(plan, call, n, rest) == plan # <<>> /\ Head(plan) = <<call, n>> /\ Tail(plan) = rest

\* The first call of each plan, and the plan that is left after it.
LEMMA PlanSteps ==
    /\ Starts(FromUnlink, "unlink", Temp, FromSync)
    /\ Starts(FromSync, "sync", Temp, CreateAndPublish)
    /\ Starts(CreateAndPublish, "create", Temp, FromChown)
    /\ Starts(FromChown, "chown", Temp, FromWrite)
    /\ Starts(FromWrite, "write", Temp, FromFsync)
    /\ Starts(FromFsync, "fsync", Temp, FromLink)
    /\ Starts(FromLink, "link", Target, SyncTargetUnlinkTemp)
    /\ Starts(UnlinkBoth, "unlink", Target, SyncTargetUnlinkTemp)
    /\ Starts(SyncTargetUnlinkTemp, "sync", Target, Unlinked(Temp))
    /\ \A n \in Name : /\ Starts(Unlinked(n), "unlink", n, Synced(n))
                       /\ Starts(Synced(n), "sync", n, <<>>)
  <1> USE DEF Starts
  <1>1. Starts(FromUnlink, "unlink", Temp, FromSync)
    BY DEF FromUnlink, FromSync
  <1>2. Starts(FromSync, "sync", Temp, CreateAndPublish)
    BY DEF FromSync, CreateAndPublish
  <1>3. Starts(CreateAndPublish, "create", Temp, FromChown)
    BY DEF CreateAndPublish, FromChown
  <1>4. Starts(FromChown, "chown", Temp, FromWrite)
    BY DEF FromChown, FromWrite
  <1>5. Starts(FromWrite, "write", Temp, FromFsync)
    BY DEF FromWrite, FromFsync
  <1>6. Starts(FromFsync, "fsync", Temp, FromLink)
    BY DEF FromFsync, FromLink
  <1>7. Starts(FromLink, "link", Target, SyncTargetUnlinkTemp)
    BY DEF FromLink, SyncTargetUnlinkTemp
  <1>8. Starts(UnlinkBoth, "unlink", Target, SyncTargetUnlinkTemp)
    BY DEF UnlinkBoth, SyncTargetUnlinkTemp
  <1>9. Starts(SyncTargetUnlinkTemp, "sync", Target, Unlinked(Temp))
    BY DEF SyncTargetUnlinkTemp, Unlinked
  <1>10. \A n \in Name : Starts(Unlinked(n), "unlink", n, Synced(n))
    BY DEF Unlinked, Synced
  <1>11. \A n \in Name : Starts(Synced(n), "sync", n, <<>>)
    BY DEF Synced
  <1> HIDE DEF Starts
  <1> QED
    BY <1>1, <1>2, <1>3, <1>4, <1>5, <1>6, <1>7, <1>8, <1>9, <1>10, <1>11

\* The calls of a retirement follow from the entries that are there.
LEMMA RetireCalls ==
    \/ RetireAfterClaim = UnlinkBoth /\ dir[Temp] # NoEntry
    \/ RetireAfterClaim = Unlinked(Temp) /\ dir[Target] = NoEntry
    \/ RetireAfterClaim = Unlinked(Target) /\ dir[Temp] = NoEntry
    \/ RetireAfterClaim = <<>> /\ Bare
  <1>1. CASE dir[Target] # NoEntry /\ dir[Temp] # NoEntry
    <2>1. Unlink(Target) = Unlinked(Target) /\ Unlink(Temp) = Unlinked(Temp)
      BY <1>1 DEF Unlink, Unlinked
    <2> QED
      BY <1>1, <2>1, UnlinkBothPlan DEF RetireAfterClaim
  <1>2. CASE dir[Target] = NoEntry /\ dir[Temp] # NoEntry
    <2>1. Unlink(Target) = <<>> /\ Unlink(Temp) = Unlinked(Temp)
      BY <1>2 DEF Unlink, Unlinked
    <2>2. <<>> \o Unlinked(Temp) = Unlinked(Temp)
      BY DEF Unlinked
    <2> QED
      BY <1>2, <2>1, <2>2 DEF RetireAfterClaim
  <1>3. CASE dir[Target] # NoEntry /\ dir[Temp] = NoEntry
    <2>1. Unlink(Target) = Unlinked(Target) /\ Unlink(Temp) = <<>>
      BY <1>3 DEF Unlink, Unlinked
    <2>2. Unlinked(Target) \o <<>> = Unlinked(Target)
      BY DEF Unlinked
    <2> QED
      BY <1>3, <2>1, <2>2 DEF RetireAfterClaim
  <1>4. CASE dir[Target] = NoEntry /\ dir[Temp] = NoEntry
    <2>1. Unlink(Target) = <<>> /\ Unlink(Temp) = <<>>
      BY <1>4 DEF Unlink
    <2>2. <<>> \o <<>> = <<>>
      OBVIOUS
    <2> QED
      BY <1>4, <2>1, <2>2 DEF RetireAfterClaim, Bare, Name
  <1> QED
    BY <1>1, <1>2, <1>3, <1>4

\* So do the calls of an unclaimed installation.
LEMMA PublishCalls ==
    \/ ReconcileUnclaimed = FromUnlink /\ Fresh
    \/ ReconcileUnclaimed = CreateAndPublish /\ Bare
    \/ ReconcileUnclaimed = Unlinked(Temp) /\ \A n \in Name : dir[n] # NoEntry
    \/ ReconcileUnclaimed = <<>> /\ dir[Temp] = NoEntry /\ dir[Target] # NoEntry
  <1>1. CASE dir[Target] = NoEntry /\ dir[Temp] # NoEntry
    <2>1. Unlink(Temp) = Unlinked(Temp)
      BY <1>1 DEF Unlink, Unlinked
    <2> QED
      BY <1>1, <2>1, FromUnlinkPlan DEF ReconcileUnclaimed, Fresh
  <1>2. CASE dir[Target] = NoEntry /\ dir[Temp] = NoEntry
    <2>1. <<>> \o CreateAndPublish = CreateAndPublish
      BY DEF CreateAndPublish
    <2> QED
      BY <1>2, <2>1 DEF ReconcileUnclaimed, Unlink, Bare, Name
  <1>3. CASE dir[Target] # NoEntry /\ dir[Temp] # NoEntry
    <2>1. Unlink(Temp) = Unlinked(Temp)
      BY <1>3 DEF Unlink, Unlinked
    <2>2. Unlinked(Temp) \o <<>> = Unlinked(Temp)
      BY DEF Unlinked
    <2> QED
      BY <1>3, <2>1, <2>2 DEF ReconcileUnclaimed, Name
  <1>4. CASE dir[Target] # NoEntry /\ dir[Temp] = NoEntry
    <2>1. <<>> \o <<>> = <<>>
      OBVIOUS
    <2> QED
      BY <1>4, <2>1 DEF ReconcileUnclaimed, Unlink
  <1> QED
    BY <1>1, <1>2, <1>3, <1>4

\* The second inspection accepts the entries too, and the plan fits them.
LEMMA ReconcileInv == InstInv /\ ReconcileClaimFile => InstInv'
  <1> SUFFICES ASSUME InstInv, ReconcileClaimFile PROVE InstInv'
    OBVIOUS
  <1>1. SafeEntries(mem.code)
    BY LeftoversSafe DEF InstInv, Progress, ReconcileClaimFile, AfterSeed, AfterConnect
  <1>2. /\ pc = "RECONCILE" /\ pc' = "FILES" /\ exit' = exit /\ todo' = Reconcile /\ mem' = mem
        /\ db' = db /\ drawn' = drawn /\ dir' = dir /\ kept' = kept /\ inode' = inode
        /\ token' = token /\ hook' = hook /\ late' = late
    BY <1>1 DEF ReconcileClaimFile, Goto, disk, telegram
  <1>3. InstTypeOK' /\ ProcessTypeOK'
    BY <1>2 DEF InstInv, InstTypeOK, ProcessTypeOK
  <1>4. (LeftoversAccepted /\ FilesFollowOwner /\ WebhookAccepted)'
    BY <1>2 DEF InstInv, LeftoversAccepted, FilesFollowOwner, WebhookAccepted, Serving
  <1>5. Progress'
    BY <1>2 DEF InstInv, Progress, AfterConnect, AfterSeed, AfterIdentify, AfterOwner, AfterUpgrade
  <1>6. Keys'
    BY <1>2 DEF InstInv, Keys
  <1>7. Plan'
    <2>1. CASE db.owner = "CLAIMED"
      <3>1. RetirePlan'
        BY <2>1, <1>2, RetireCalls DEF Reconcile, RetirePlan, Bare
      <3> QED
        BY <2>1, <3>1, <1>2 DEF Plan
    <2>2. CASE db.owner # "CLAIMED"
      <3>1. PublishPlan'
        BY <2>2, <1>2, PublishCalls DEF Reconcile, PublishPlan, Bare, Fresh
      <3> QED
        BY <2>2, <3>1, <1>2 DEF Plan
    <2> QED
      BY <2>1, <2>2
  <1>8. Entries'
    BY <1>2, EntriesKept DEF InstInv, disk
  <1>9. Webhooks' /\ OneBotPerSeed'
    BY <1>2, WebhooksKept DEF InstInv
  <1> QED
    BY <1>3, <1>4, <1>5, <1>6, <1>7, <1>8, <1>9 DEF InstInv

-----------------------------------------------------------------------------
(***************************************************************************)
(* One call on the entries.                                                *)
(***************************************************************************)
InodeType == [code : Seed \cup {None}, len : 1..3, owner : {"service", "directory"}, synced : BOOLEAN]

DiskTypeOK ==
    /\ dir \in [Name -> Inode \cup {NoEntry}] /\ kept \in [Name -> SUBSET (Inode \cup {NoEntry})]
    /\ inode \in [Inode -> InodeType]

\* A file that is handed over.
LEMMA HandedOver ==
    \A old \in InodeType :
        LET r == [old EXCEPT !.owner = "directory"]
        IN  /\ r \in InodeType /\ r.owner = "directory"
            /\ r.len = old.len /\ r.code = old.code /\ r.synced = old.synced
  BY DEF InodeType

\* A file that is synced.
LEMMA PutOnDisk ==
    \A old \in InodeType :
        LET r == [old EXCEPT !.synced = TRUE]
        IN  /\ r \in InodeType /\ r.synced
            /\ r.len = old.len /\ r.code = old.code /\ r.owner = old.owner
  BY DEF InodeType

DiskInv == DiskTypeOK /\ (\A n \in Name : dir[n] \in kept[n]) /\ Entries

\* A call changes nothing but the disk and the plan.
LEMMA DiskStep ==
    ASSUME InstInv, pc \in {"FILES", "RETIRING"},
           UNCHANGED <<db, drawn, pc, mem, exit, telegram>>, DiskInv', Plan'
    PROVE  InstInv'
  <1>1. InstTypeOK' /\ ProcessTypeOK'
    BY DEF InstInv, InstTypeOK, ProcessTypeOK, DiskInv, DiskTypeOK, InodeType, telegram
  <1>2. (LeftoversAccepted /\ FilesFollowOwner /\ WebhookAccepted)'
    BY DEF InstInv, LeftoversAccepted, FilesFollowOwner, WebhookAccepted, Serving, telegram
  <1>3. Progress' /\ Keys'
    BY DEF InstInv, Progress, Keys, AfterConnect, AfterSeed, AfterIdentify, AfterOwner, AfterUpgrade,
           telegram
  <1>4. Webhooks' /\ OneBotPerSeed'
    BY WebhooksKept DEF InstInv, telegram
  <1> QED
    BY <1>1, <1>2, <1>3, <1>4 DEF InstInv, DiskInv

\* An entry is removed: both what was there and its absence may survive.
LEMMA UnlinkDisk ==
    ASSUME DiskInv, db.file, db.seed # None, db' = db, NEW n \in Name,
           SetEntry(n, NoEntry), inode' = inode
    PROVE  DiskInv' /\ dir'[n] = NoEntry /\ \A m \in Name : m # n => dir'[m] = dir[m]
  <1>1. /\ dir' = [dir EXCEPT ![n] = NoEntry] /\ kept' = [kept EXCEPT ![n] = @ \cup {NoEntry}]
    BY DEF SetEntry
  <1>2. DiskTypeOK' /\ \A m \in Name : dir'[m] \in kept'[m] /\ kept'[m] \subseteq kept[m] \cup {NoEntry}
    BY <1>1 DEF DiskInv, DiskTypeOK
  <1>3. dir'[n] = NoEntry /\ \A m \in Name : m # n => dir'[m] = dir[m]
    BY <1>1 DEF DiskInv, DiskTypeOK
  <1>4. Entries'
    BY <1>2 DEF DiskInv, Entries, PublishedCodeWorks, Leftover, Exact, OwnedByDirectory, Name
  <1> QED
    BY <1>2, <1>3, <1>4 DEF DiskInv

\* The directory is synced: what is there is what survives.
LEMMA SyncDisk ==
    ASSUME DiskInv, db.file, db.seed # None, db' = db, SyncDirectory, dir' = dir, inode' = inode
    PROVE  DiskInv'
  <1>1. DiskTypeOK' /\ \A m \in Name : dir'[m] \in kept'[m] /\ kept'[m] \subseteq kept[m]
    BY DEF DiskInv, DiskTypeOK, SyncDirectory
  <1>2. Entries'
    BY <1>1 DEF DiskInv, Entries, PublishedCodeWorks, Leftover, Exact, OwnedByDirectory, Name
  <1> QED
    BY <1>1, <1>2 DEF DiskInv

\* A file is created under an inode that neither name may have.
LEMMA CreateDisk ==
    ASSUME DiskInv, db.file, db.seed # None, db' = db, Bare,
           \E i \in Inode : \A m \in Name : i \notin kept[m],
           SetEntry(Temp, FreeInode), inode' = [inode EXCEPT ![FreeInode] = NoInode]
    PROVE  DiskInv' /\ Fresh' /\ inode'[dir'[Temp]] = NoInode
  <1>1. PICK f \in Inode : f = FreeInode /\ \A m \in Name : f \notin kept[m]
    BY DEF FreeInode
  <1>2. /\ dir' = [dir EXCEPT ![Temp] = f] /\ kept' = [kept EXCEPT ![Temp] = @ \cup {f}]
        /\ inode' = [inode EXCEPT ![f] = NoInode]
    BY <1>1 DEF SetEntry
  <1>3. f # NoEntry
    BY <1>1, InstallationConstants DEF InstallationConstants
  <1>4. NoInode \in InodeType
    BY DEF NoInode, InodeType
  <1>5. DiskTypeOK'
    <2>1. dir' \in [Name -> Inode \cup {NoEntry}] /\ kept' \in [Name -> SUBSET (Inode \cup {NoEntry})]
      BY <1>2 DEF DiskInv, DiskTypeOK, Name
    <2>2. inode' \in [Inode -> InodeType]
      BY <1>2, <1>4 DEF DiskInv, DiskTypeOK
    <2> QED
      BY <2>1, <2>2 DEF DiskTypeOK
  <1>6. /\ dir'[Temp] = f /\ dir'[Target] = dir[Target]
        /\ kept'[Temp] = kept[Temp] \cup {f} /\ kept'[Target] = kept[Target]
        /\ inode'[f] = NoInode /\ \A i \in Inode : i # f => inode'[i] = inode[i]
    BY <1>1, <1>2 DEF DiskInv, DiskTypeOK, Name, Target, Temp
  <1>7. \A n \in Name : dir'[n] \in kept'[n]
    BY <1>6 DEF DiskInv, Name
  <1>8. Entries'
    <2>1. \A i \in kept[Temp] \cup kept[Target] : i # NoEntry => inode'[i] = inode[i]
      BY <1>1, <1>6 DEF DiskInv, DiskTypeOK, Name
    <2>2. PublishedCodeWorks'
      BY <2>1, <1>6 DEF DiskInv, Entries, PublishedCodeWorks, Exact, OwnedByDirectory
    <2>3. \A i \in kept'[Temp] \ {NoEntry} : Leftover(i)'
      <3>1. Leftover(f)'
        BY <1>6 DEF Leftover, NoInode
      <3> QED
        BY <3>1, <2>1, <1>6 DEF DiskInv, Entries, Leftover, OwnedByDirectory
    <2> QED
      BY <2>2, <2>3 DEF Entries
  <1> QED
    BY <1>3, <1>5, <1>6, <1>7, <1>8 DEF DiskInv, Fresh, Bare, Name

\* The file under the temporary name is rewritten: it may get an owner, more
\* of the code, or be synced, unless it may already be the published one.
LEMMA FileDisk ==
    ASSUME DiskInv, db.file, db.seed # None, db' = db, Fresh,
           NEW r \in InodeType,
           inode' = [inode EXCEPT ![dir[Temp]] = r], UNCHANGED <<dir, kept>>,
           ~inode[dir[Temp]].synced,
           r.len = 1 \/ (r.code = db.seed /\ (r.len = 3 => r.owner = "directory"))
    PROVE  DiskInv' /\ Fresh' /\ inode'[dir'[Temp]] = r
  <1> DEFINE f == dir[Temp]
  <1>1. f \in Inode /\ f \in kept[Temp] /\ f # NoEntry
    BY DEF DiskInv, DiskTypeOK, Fresh, Name
  <1>2. f \notin kept[Target]
    BY <1>1 DEF DiskInv, Entries, PublishedCodeWorks
  <1>3. inode'[f] = r /\ \A i \in Inode : i # f => inode'[i] = inode[i]
    BY <1>1 DEF DiskInv, DiskTypeOK
  <1>4. DiskTypeOK'
    BY <1>1 DEF DiskInv, DiskTypeOK
  <1>5. Entries'
    <2>1. PublishedCodeWorks'
      BY <1>2, <1>3 DEF DiskInv, DiskTypeOK, Entries, PublishedCodeWorks, Exact, OwnedByDirectory, Name
    <2>2. \A i \in kept'[Temp] \ {NoEntry} : Leftover(i)'
      <3>1. Leftover(f)'
        BY <1>3 DEF Leftover, OwnedByDirectory
      <3>2. ASSUME NEW i \in kept[Temp] \ {NoEntry}, i # f PROVE Leftover(i)'
        BY <3>2, <1>3 DEF DiskInv, DiskTypeOK, Entries, Leftover, OwnedByDirectory, Name
      <3> QED
        BY <3>1, <3>2
    <2> QED
      BY <2>1, <2>2 DEF Entries
  <1> QED
    BY <1>3, <1>4, <1>5 DEF DiskInv, Fresh

\* The code is published when it is whole, handed over and on disk.
LEMMA LinkDisk ==
    ASSUME DiskInv, db.file, db.seed # None, db' = db, Fresh,
           SetEntry(Target, dir[Temp]), inode' = inode,
           inode[dir[Temp]].owner = "directory", inode[dir[Temp]].synced,
           Exact(dir[Temp], db.seed)
    PROVE  DiskInv' /\ \A n \in Name : dir'[n] # NoEntry
  <1> DEFINE f == dir[Temp]
  <1>1. f \in Inode /\ f \in kept[Temp] /\ f # NoEntry
    BY DEF DiskInv, DiskTypeOK, Fresh, Name
  <1>2. /\ dir' = [dir EXCEPT ![Target] = f] /\ kept' = [kept EXCEPT ![Target] = @ \cup {f}]
    BY DEF SetEntry
  <1>3. /\ dir'[Temp] = f /\ dir'[Target] = f
        /\ kept'[Temp] = kept[Temp] /\ kept'[Target] = kept[Target] \cup {f}
    BY <1>2 DEF DiskInv, DiskTypeOK, Name, Target, Temp
  <1>4. DiskTypeOK' /\ \A n \in Name : dir'[n] \in kept'[n]
    BY <1>1, <1>2, <1>3 DEF DiskInv, DiskTypeOK, Name
  <1>5. Entries'
    BY <1>3 DEF DiskInv, Entries, PublishedCodeWorks, Leftover, Exact, OwnedByDirectory
  <1> QED
    BY <1>1, <1>3, <1>4, <1>5 DEF DiskInv, Name

-----------------------------------------------------------------------------
\* What is common to all calls of a plan.
OnDisk == DiskInv /\ db.file /\ db.seed # None /\ Syscall

\* A call that removes an entry.
LEMMA UnlinkCall ==
    ASSUME OnDisk, NEW n \in Name, NEW rest, Starts(todo, "unlink", n, rest)
    PROVE  /\ DiskInv' /\ todo' = rest
           /\ dir'[n] = NoEntry /\ \A m \in Name : m # n => dir'[m] = dir[m]
  <1>1. Perform("unlink", n) /\ db' = db /\ todo' = rest
    BY DEF OnDisk, Syscall, Starts, Unfinished
  <1>2. SetEntry(n, NoEntry) /\ inode' = inode
    BY <1>1 DEF Perform
  <1> QED
    BY <1>1, <1>2, UnlinkDisk DEF OnDisk

\* A call that syncs the directory.
LEMMA SyncCall ==
    ASSUME OnDisk, NEW n \in Name, NEW rest, Starts(todo, "sync", n, rest)
    PROVE  DiskInv' /\ todo' = rest /\ dir' = dir
  <1>1. Perform("sync", n) /\ db' = db /\ todo' = rest
    BY DEF OnDisk, Syscall, Starts, Unfinished
  <1>2. SyncDirectory /\ dir' = dir /\ inode' = inode
    BY <1>1 DEF Perform
  <1> QED
    BY <1>1, <1>2, SyncDisk DEF OnDisk

\* A retirement goes on, whatever the operator removed meanwhile.
LEMMA RetireStep ==
    ASSUME OnDisk, todo \in Retirement
    PROVE  DiskInv' /\ todo' \in Retirement
  <1> USE PlanSteps, UnlinkCall, SyncCall
  <1>1. todo # <<>> /\ Target \in Name /\ Temp \in Name
    BY DEF OnDisk, Syscall, Name
  <1>2. CASE todo = UnlinkBoth
    BY <1>1, <1>2 DEF Retirement
  <1>3. CASE todo = SyncTargetUnlinkTemp
    BY <1>1, <1>3 DEF Retirement
  <1>4. CASE todo = Unlinked(Temp)
    BY <1>1, <1>4 DEF Retirement
  <1>5. CASE todo = Unlinked(Target)
    BY <1>1, <1>5 DEF Retirement
  <1>6. CASE todo = Synced(Target) \/ todo = Synced(Temp)
    BY <1>1, <1>6 DEF Retirement
  <1> QED
    BY <1>1, <1>2, <1>3, <1>4, <1>5, <1>6 DEF Retirement

\* At a start nobody else touches the entries, and the last call leaves none.
LEMMA RetirePlanStep ==
    ASSUME OnDisk, RetirePlan
    PROVE  DiskInv' /\ RetirePlan'
  <1> USE PlanSteps, UnlinkCall, SyncCall
  <1>1. todo # <<>> /\ Target \in Name /\ Temp \in Name /\ Target # Temp
    BY DEF OnDisk, Syscall, Name, Target, Temp
  <1>2. CASE todo = UnlinkBoth /\ dir[Temp] # NoEntry
    BY <1>1, <1>2 DEF RetirePlan
  <1>3. CASE todo = SyncTargetUnlinkTemp /\ dir[Target] = NoEntry
    BY <1>1, <1>3 DEF RetirePlan
  <1>4. CASE todo = Unlinked(Temp) /\ dir[Target] = NoEntry
    BY <1>1, <1>4 DEF RetirePlan, Bare, Name
  <1>5. CASE todo = Unlinked(Target) /\ dir[Temp] = NoEntry
    BY <1>1, <1>5 DEF RetirePlan, Bare, Name
  <1>6. CASE todo \in {Synced(Target), Synced(Temp)} /\ Bare
    BY <1>1, <1>6 DEF RetirePlan, Bare
  <1> QED
    BY <1>1, <1>2, <1>3, <1>4, <1>5, <1>6 DEF RetirePlan

\* The publication goes on; what is written is the code of this seed.
LEMMA PublishPlanStep ==
    ASSUME OnDisk, PublishPlan, mem.code = db.seed, db.seed \in Seed
    PROVE  DiskInv' /\ PublishPlan'
  <1> USE PlanSteps
  <1> DEFINE old == inode[dir[Temp]]
  <1>1. todo # <<>> /\ Target \in Name /\ Temp \in Name /\ Target # Temp /\ db' = db
    BY DEF OnDisk, Syscall, Name, Target, Temp
  <1>2. CASE todo = FromUnlink /\ Fresh
    BY <1>1, <1>2, UnlinkCall DEF PublishPlan, Fresh, Bare, Name
  <1>3. CASE todo = FromSync /\ Bare
    BY <1>1, <1>3, SyncCall DEF PublishPlan, Bare
  <1>4. CASE todo = CreateAndPublish /\ Bare
    <2>1. Possible("create", Temp) /\ Perform("create", Temp) /\ todo' = FromChown
      BY <1>4 DEF OnDisk, Syscall, Starts, Unfinished
    <2>2. DiskInv' /\ Fresh' /\ inode'[dir'[Temp]] = NoInode
      BY <1>1, <1>4, <2>1, CreateDisk DEF OnDisk, Possible, Perform
    <2> QED
      BY <2>1, <2>2 DEF PublishPlan
  <1>5. ASSUME Fresh PROVE dir[Temp] \in Inode /\ old \in InodeType
    BY <1>1, <1>5 DEF OnDisk, DiskInv, DiskTypeOK, Fresh
  <1>6. CASE todo = FromChown /\ Fresh /\ inode[dir[Temp]] = NoInode
    <2>1. Perform("chown", Temp) /\ todo' = FromWrite
      BY <1>6 DEF OnDisk, Syscall, Starts, Unfinished
    <2>2. Chown(dir[Temp]) /\ dir' = dir /\ kept' = kept
      BY <2>1 DEF Perform
    <2> DEFINE r == [old EXCEPT !.owner = "directory"]
    <2>3. r \in InodeType /\ r.len = 1 /\ r.owner = "directory" /\ ~r.synced
      <3>1. old.len = 1 /\ ~old.synced
        BY <1>6 DEF NoInode
      <3> QED
        BY <1>5, <1>6, <3>1, HandedOver
    <2>4. inode' = [inode EXCEPT ![dir[Temp]] = r]
      BY <1>5, <1>6, <2>2 DEF Chown, OnDisk, DiskInv, DiskTypeOK
    <2>5. ~inode[dir[Temp]].synced
      BY <1>6 DEF NoInode
    <2> HIDE DEF r
    <2>6. DiskInv' /\ Fresh' /\ inode'[dir'[Temp]] = r
      BY <1>1, <1>6, <2>2, <2>3, <2>4, <2>5, FileDisk DEF OnDisk
    <2> QED
      BY <2>1, <2>3, <2>6 DEF PublishPlan
  <1>7. CASE /\ todo = FromWrite /\ Fresh
             /\ old.owner = "directory" /\ ~old.synced /\ old.len # 3
    <2>1. Perform("write", Temp) /\ Head(todo)[1] = "write" /\ Tail(todo) = FromFsync
      BY <1>7 DEF OnDisk, Syscall, Starts
    <2>2. Write(dir[Temp]) /\ dir' = dir /\ kept' = kept
      BY <2>1 DEF Perform
    <2>3. PICK k \in old.len + 1 .. 3 :
              inode' = [inode EXCEPT ![dir[Temp]].len = k, ![dir[Temp]].code = mem.code]
      BY <2>2 DEF Write
    <2> DEFINE r == [old EXCEPT !.len = k, !.code = db.seed]
    <2>4. inode' = [inode EXCEPT ![dir[Temp]] = r]
      BY <1>5, <1>7, <2>3 DEF OnDisk, DiskInv, DiskTypeOK
    <2>5. k \in 2..3
      BY <1>5, <1>7, <2>3 DEF InodeType
    <2>6. r \in InodeType /\ r.len = k /\ r.code = db.seed /\ r.owner = "directory" /\ ~r.synced
      <3>1. old \in InodeType /\ k \in 1..3
        BY <1>5, <1>7, <2>5
      <3> HIDE DEF old
      <3>2. r \in InodeType
        BY <3>1 DEF InodeType
      <3>3. r.len = k /\ r.code = db.seed /\ r.owner = old.owner /\ r.synced = old.synced
        BY <3>1 DEF InodeType
      <3> QED
        BY <3>2, <3>3, <1>7
    <2> HIDE DEF r
    <2>7. DiskInv' /\ Fresh' /\ inode'[dir'[Temp]] = r
      BY <1>1, <1>7, <2>2, <2>4, <2>6, FileDisk DEF OnDisk
    <2>8. todo' = IF k # 3 THEN FromWrite ELSE FromFsync
      BY <1>7, <2>1, <2>2, <2>6, <2>7 DEF OnDisk, Syscall, Unfinished
    <2>9. CASE k = 3
      BY <2>6, <2>7, <2>8, <2>9, <1>1, Lengths DEF PublishPlan, Exact
    <2>10. CASE k # 3
      BY <2>6, <2>7, <2>8, <2>10 DEF PublishPlan
    <2> QED
      BY <2>9, <2>10
  <1>8. CASE /\ todo = FromFsync /\ Fresh
             /\ old.owner = "directory" /\ ~old.synced /\ Exact(dir[Temp], db.seed)
    <2>1. Perform("fsync", Temp) /\ todo' = FromLink
      BY <1>8 DEF OnDisk, Syscall, Starts, Unfinished
    <2>2. Fsync(dir[Temp]) /\ dir' = dir /\ kept' = kept
      BY <2>1 DEF Perform
    <2> DEFINE r == [old EXCEPT !.synced = TRUE]
    <2>3. inode' = [inode EXCEPT ![dir[Temp]] = r]
      BY <1>5, <1>8, <2>2 DEF Fsync, OnDisk, DiskInv, DiskTypeOK
    <2>4. /\ r \in InodeType
          /\ r.len = old.len /\ r.code = old.code /\ r.owner = "directory" /\ r.synced
      BY <1>5, <1>8, PutOnDisk
    <2>5. old.code = db.seed
      BY <1>8 DEF Exact
    <2> HIDE DEF r
    <2>6. DiskInv' /\ Fresh' /\ inode'[dir'[Temp]] = r
      BY <1>1, <1>8, <2>2, <2>3, <2>4, <2>5, FileDisk DEF OnDisk
    <2> QED
      BY <2>1, <2>4, <2>6, <1>1, <1>8 DEF PublishPlan, Exact
  <1>9. CASE /\ todo = FromLink /\ Fresh
             /\ old.owner = "directory" /\ old.synced /\ Exact(dir[Temp], db.seed)
    <2>1. Perform("link", Target) /\ todo' = SyncTargetUnlinkTemp
      BY <1>9 DEF OnDisk, Syscall, Starts, Unfinished
    <2>2. SetEntry(Target, dir[Temp]) /\ inode' = inode
      BY <2>1 DEF Perform
    <2>3. DiskInv' /\ \A n \in Name : dir'[n] # NoEntry
      BY <1>1, <1>9, <2>2, LinkDisk DEF OnDisk
    <2> QED
      BY <2>1, <2>3 DEF PublishPlan
  <1>10. CASE todo = SyncTargetUnlinkTemp /\ \A n \in Name : dir[n] # NoEntry
    BY <1>1, <1>10, SyncCall DEF PublishPlan
  <1>11. CASE todo = Unlinked(Temp) /\ \A n \in Name : dir[n] # NoEntry
    BY <1>1, <1>11, UnlinkCall DEF PublishPlan
  <1>12. CASE todo = Synced(Temp) /\ dir[Temp] = NoEntry /\ dir[Target] # NoEntry
    BY <1>1, <1>12, SyncCall DEF PublishPlan
  <1> QED
    BY <1>1, <1>2, <1>3, <1>4, <1>6, <1>7, <1>8, <1>9, <1>10, <1>11, <1>12 DEF PublishPlan

\* A call of the plan keeps the invariant.
LEMMA SyscallInv == InstInv /\ Syscall => InstInv'
  <1> SUFFICES ASSUME InstInv, Syscall PROVE InstInv'
    OBVIOUS
  <1>1. pc \in {"FILES", "RETIRING"}
    BY DEF InstInv, Plan, Syscall
  <1>2. UNCHANGED <<db, drawn, pc, mem, exit, telegram>>
    BY DEF Syscall
  <1>3. OnDisk
    BY <1>1 DEF OnDisk, DiskInv, DiskTypeOK, InodeType, InstInv, InstTypeOK, ProcessTypeOK, Progress,
                AfterSeed, AfterConnect
  <1>4. CASE pc = "RETIRING"
    <2>1. DiskInv' /\ todo' \in Retirement
      BY <1>3, <1>4, RetireStep DEF InstInv, Plan
    <2>2. Plan'
      BY <2>1, <1>2, <1>4 DEF Plan
    <2> QED
      BY <1>1, <1>2, <2>1, <2>2, DiskStep
  <1>5. CASE pc = "FILES" /\ db.owner = "CLAIMED"
    <2>1. DiskInv' /\ RetirePlan'
      BY <1>3, <1>5, RetirePlanStep DEF InstInv, Plan
    <2>2. Plan'
      BY <2>1, <1>2, <1>5 DEF Plan
    <2> QED
      BY <1>1, <1>2, <2>1, <2>2, DiskStep
  <1>6. CASE pc = "FILES" /\ db.owner # "CLAIMED"
    <2>1. mem.code = db.seed /\ db.seed \in Seed
      BY <1>3, <1>6 DEF OnDisk, InstInv, Progress, InstTypeOK
    <2>2. DiskInv' /\ PublishPlan'
      BY <1>3, <1>6, <2>1, PublishPlanStep DEF InstInv, Plan
    <2>3. Plan'
      BY <2>2, <1>2, <1>6 DEF Plan
    <2> QED
      BY <1>1, <1>2, <2>2, <2>3, DiskStep
  <1> QED
    BY <1>1, <1>4, <1>5, <1>6

-----------------------------------------------------------------------------
(***************************************************************************)
(* Serving.                                                                *)
(***************************************************************************)
\* A step that changes only how far the process is, its plan, the code it
\* remembers and the tries it counts.
LEMMA ProcessStep ==
    ASSUME InstInv, AfterUpgrade, AfterUpgrade', ProcessTypeOK',
           mem'.tries < Attempts, mem'.seed = mem.seed, mem'.secret = mem.secret,
           pc' \notin {"RECONCILE", "FILES"}, Plan', FilesFollowOwner', WebhookAccepted',
           UNCHANGED <<db, drawn, disk, exit, telegram>>
    PROVE  InstInv'
  <1>1. InstTypeOK'
    BY DEF InstInv, InstTypeOK, disk
  <1>2. LeftoversAccepted' /\ Keys'
    BY DEF InstInv, LeftoversAccepted, Keys
  <1>3. Progress'
    BY DEF InstInv, Progress, AfterConnect, AfterSeed, AfterIdentify, AfterOwner, AfterUpgrade, telegram
  <1>4. Entries'
    BY EntriesKept DEF InstInv
  <1>5. Webhooks' /\ OneBotPerSeed'
    BY WebhooksKept DEF InstInv, telegram
  <1> QED
    BY <1>1, <1>2, <1>3, <1>4, <1>5 DEF InstInv

\* Every call was made: the entries follow the Owner.
LEMMA PreparedInv == InstInv /\ Prepared => InstInv'
  <1> SUFFICES ASSUME InstInv, Prepared PROVE InstInv'
    OBVIOUS
  <1>1. /\ pc = "FILES" /\ pc' = "BOUND" /\ todo = <<>> /\ todo' = todo
        /\ mem' = [mem EXCEPT !.code = IF db.owner = "CLAIMED" THEN None ELSE @]
        /\ UNCHANGED <<db, drawn, disk, exit, telegram>>
        /\ dir' = dir /\ kept' = kept /\ token' = token /\ db' = db /\ drawn' = drawn
    BY DEF Prepared, Goto, disk, telegram
  <1>2. ProcessTypeOK' /\ mem'.tries < Attempts /\ mem'.seed = mem.seed /\ mem'.secret = mem.secret
    BY <1>1 DEF InstInv, InstTypeOK, ProcessTypeOK
  <1>3. FilesFollowOwner'
    <2>1. CASE db.owner = "CLAIMED"
      <3>1. Bare
        BY <1>1, <2>1, PlanSteps DEF InstInv, Plan, RetirePlan, Starts, Name
      <3> QED
        BY <3>1, <2>1, <1>1 DEF FilesFollowOwner, Bare, Name
    <2>2. CASE db.owner # "CLAIMED"
      <3>1. dir[Temp] = NoEntry /\ dir[Target] # NoEntry
        BY <1>1, <2>2, PlanSteps DEF InstInv, Plan, PublishPlan, Starts, Name
      <3> QED
        BY <3>1, <2>2, <1>1 DEF FilesFollowOwner
    <2> QED
      BY <2>1, <2>2
  <1>4. Plan' /\ WebhookAccepted' /\ AfterUpgrade /\ AfterUpgrade'
    BY <1>1 DEF Plan, WebhookAccepted, Serving, AfterConnect, AfterSeed, AfterIdentify, AfterOwner,
                AfterUpgrade
  <1> QED
    BY <1>1, <1>2, <1>3, <1>4, ProcessStep

\* What a registration under way puts in place is this database's secret.
LEMMA DeclareWebhook ==
    ASSUME InstInv, db.seed # None, db.bot # None,
           Declare(db.bot, <<db.seed, db.bot>>),
           drawn' = drawn, db' = db, late' \subseteq late
    PROVE  /\ Webhooks' /\ OneBotPerSeed' /\ hook'[db.bot] = <<db.seed, db.bot>>
           /\ \A b \in Bot : b # db.bot => hook'[b] = hook[b]
  <1>1. db.bot \in Bot /\ db.seed \in Seed /\ db.seed \in drawn
    BY DEF InstInv, InstTypeOK, Keys
  <1>2. hook' = [hook EXCEPT ![db.bot] = <<db.seed, db.bot>>] /\ hook \in [Bot -> {<<>>} \cup (Seed \X Bot)]
    BY DEF Declare, InstInv, Webhooks
  <1>3. /\ hook'[db.bot] = <<db.seed, db.bot>>
        /\ \A b \in Bot : b # db.bot => hook'[b] = hook[b]
    BY <1>1, <1>2
  <1>4. hook' \in [Bot -> {<<>>} \cup (Seed \X Bot)]
    BY <1>1, <1>2
  <1>5. Webhooks'
    BY <1>1, <1>3, <1>4 DEF InstInv, Webhooks
  <1>6. OneBotPerSeed'
    <2> SUFFICES ASSUME NEW a \in Bot, NEW b \in Bot,
                        hook'[a] # <<>>, hook'[b] # <<>>, hook'[a][1] = hook'[b][1]
                 PROVE  a = b
      BY DEF OneBotPerSeed
    <2>1. CASE a # db.bot /\ b # db.bot
      BY <2>1, <1>3 DEF InstInv, OneBotPerSeed
    <2>2. CASE a = db.bot
      BY <2>2, <1>3 DEF InstInv, Webhooks
    <2>3. CASE b = db.bot
      BY <2>3, <1>3 DEF InstInv, Webhooks
    <2> QED
      BY <2>1, <2>2, <2>3
  <1> QED
    BY <1>3, <1>5, <1>6

\* Telegram answers: from now on it signs with the secret of this start.
LEMMA RegisterInv == InstInv /\ Register => InstInv'
  <1> SUFFICES ASSUME InstInv, Register PROVE InstInv'
    OBVIOUS
  <1>1. /\ pc = "BOUND" /\ pc' = "SERVING" /\ todo' = todo /\ mem' = mem /\ exit' = exit
        /\ db' = db /\ drawn' = drawn /\ dir' = dir /\ kept' = kept /\ inode' = inode
        /\ token' = token /\ late' = late /\ Declare(token, mem.secret)
    BY DEF Register, Goto, disk
  <1>2. /\ db.bot = token /\ db.bot # None /\ db.seed # None /\ mem.secret = <<db.seed, db.bot>>
    BY <1>1, InstallationConstants DEF InstInv, Progress, ProcessTypeOK, AfterConnect, AfterSeed,
         AfterIdentify, InstallationConstants
  <1>3. Webhooks' /\ OneBotPerSeed' /\ hook'[db.bot] = <<db.seed, db.bot>>
    BY <1>1, <1>2, DeclareWebhook
  <1>4. InstTypeOK' /\ ProcessTypeOK'
    BY <1>1 DEF InstInv, InstTypeOK, ProcessTypeOK
  <1>5. LeftoversAccepted' /\ FilesFollowOwner' /\ Keys' /\ Plan'
    BY <1>1 DEF InstInv, LeftoversAccepted, FilesFollowOwner, Keys, Plan
  <1>6. WebhookAccepted'
    BY <1>1, <1>2, <1>3 DEF WebhookAccepted
  <1>7. Progress'
    BY <1>1 DEF InstInv, Progress, AfterConnect, AfterSeed, AfterIdentify, AfterOwner, AfterUpgrade
  <1>8. Entries'
    BY <1>1, EntriesKept DEF InstInv, disk
  <1> QED
    BY <1>3, <1>4, <1>5, <1>6, <1>7, <1>8 DEF InstInv

\* A registration of an earlier attempt or start comes through.
LEMMA LateInv == InstInv /\ LateRegistration => InstInv'
  <1> SUFFICES ASSUME InstInv, LateRegistration PROVE InstInv'
    OBVIOUS
  <1>1. /\ UNCHANGED <<pc, mem, todo, exit, db, drawn, dir, kept, inode, token>>
    BY DEF LateRegistration, process, disk
  <1>2. PICK r \in late : Declare(r[1], r[2]) /\ late' = late \ {r}
    BY DEF LateRegistration
  <1>3. db.seed # None /\ db.bot # None /\ r = <<db.bot, <<db.seed, db.bot>> >>
    BY DEF InstInv, Webhooks
  <1>4. Declare(db.bot, <<db.seed, db.bot>>)
    BY <1>2, <1>3
  <1>5. Webhooks' /\ OneBotPerSeed' /\ hook'[db.bot] = <<db.seed, db.bot>>
    BY <1>1, <1>2, <1>3, <1>4, DeclareWebhook
  <1>6. InstTypeOK' /\ ProcessTypeOK'
    BY <1>1 DEF InstInv, InstTypeOK, ProcessTypeOK
  <1>7. LeftoversAccepted' /\ FilesFollowOwner' /\ Keys'
    BY <1>1 DEF InstInv, LeftoversAccepted, FilesFollowOwner, Keys
  <1>8. Plan'
    BY <1>1 DEF InstInv, Plan, RetirePlan, PublishPlan, Bare, Fresh, Exact
  <1>9. WebhookAccepted'
    BY <1>1, <1>5 DEF WebhookAccepted, Serving, InstInv, Progress, AfterConnect, AfterSeed, AfterIdentify
  <1>10. Progress'
    BY <1>1 DEF InstInv, Progress, AfterConnect, AfterSeed, AfterIdentify, AfterOwner, AfterUpgrade
  <1>11. Entries'
    BY <1>1, EntriesKept DEF InstInv, disk
  <1> QED
    BY <1>5, <1>6, <1>7, <1>8, <1>9, <1>10, <1>11 DEF InstInv

\* A claim is committed; its code is retired afterwards.
LEMMA ClaimInv == InstInv /\ Claim => InstInv'
  <1> SUFFICES ASSUME InstInv, Claim PROVE InstInv'
    OBVIOUS
  <1>1. /\ pc = "SERVING" /\ pc' = "COMMITTED" /\ db' = [db EXCEPT !.owner = "CLAIMED"]
        /\ UNCHANGED <<mem, todo, exit, drawn, disk, telegram>>
        /\ dir' = dir /\ kept' = kept /\ inode' = inode /\ token' = token /\ hook' = hook /\ late' = late
    BY DEF Claim, Goto, disk, telegram
  <1>2. /\ db'.owner = "CLAIMED" /\ db'.file = db.file /\ db'.seed = db.seed /\ db'.bot = db.bot
        /\ db'.keys = db.keys
    BY <1>1 DEF InstInv, InstTypeOK
  <1>3. InstTypeOK' /\ ProcessTypeOK'
    BY <1>1 DEF InstInv, InstTypeOK, ProcessTypeOK
  <1>4. (LeftoversAccepted /\ FilesFollowOwner /\ WebhookAccepted)'
    BY <1>1 DEF InstInv, LeftoversAccepted, FilesFollowOwner, WebhookAccepted, Serving
  <1>5. Progress'
    BY <1>1, <1>2 DEF InstInv, Progress, AfterConnect, AfterSeed, AfterIdentify, AfterOwner, AfterUpgrade
  <1>6. Keys' /\ Plan'
    BY <1>1, <1>2 DEF InstInv, Keys, Plan
  <1>7. Entries'
    BY <1>1, <1>2, EntriesKept DEF InstInv
  <1>8. Webhooks' /\ OneBotPerSeed'
    BY <1>1, <1>2, WebhooksKept DEF InstInv
  <1> QED
    BY <1>3, <1>4, <1>5, <1>6, <1>7, <1>8 DEF InstInv

\* A challenge is asked: it is signed with the key of the seed.
LEMMA AskInv == InstInv /\ Ask => InstInv'
  <1> SUFFICES ASSUME InstInv, Ask PROVE InstInv'
    OBVIOUS
  <1>1. /\ pc = "SERVING" /\ db' = [db EXCEPT !.keys = @ \cup {mem.seed}]
        /\ UNCHANGED <<pc, mem, todo, exit, drawn, disk, telegram>>
        /\ dir' = dir /\ kept' = kept /\ inode' = inode /\ token' = token /\ hook' = hook /\ late' = late
    BY DEF Ask, process, disk, telegram
  <1>2. mem.seed = db.seed /\ db.seed \in Seed
    BY <1>1 DEF InstInv, InstTypeOK, Progress, AfterSeed, AfterConnect
  <1>3. /\ db'.owner = db.owner /\ db'.file = db.file /\ db'.seed = db.seed /\ db'.bot = db.bot
        /\ db'.keys = db.keys \cup {db.seed}
    BY <1>1, <1>2 DEF InstInv, InstTypeOK
  <1>4. InstTypeOK' /\ ProcessTypeOK'
    BY <1>1, <1>2 DEF InstInv, InstTypeOK, ProcessTypeOK
  <1>5. (LeftoversAccepted /\ FilesFollowOwner /\ WebhookAccepted)'
    BY <1>1 DEF InstInv, LeftoversAccepted, FilesFollowOwner, WebhookAccepted, Serving
  <1>6. Progress'
    BY <1>1, <1>3 DEF InstInv, Progress, AfterConnect, AfterSeed, AfterIdentify, AfterOwner, AfterUpgrade
  <1>7. Keys' /\ Plan'
    BY <1>1, <1>3 DEF InstInv, Keys, Plan
  <1>8. Entries'
    BY <1>1, <1>3, EntriesKept DEF InstInv
  <1>9. Webhooks' /\ OneBotPerSeed'
    BY <1>1, <1>3, WebhooksKept DEF InstInv
  <1> QED
    BY <1>4, <1>5, <1>6, <1>7, <1>8, <1>9 DEF InstInv

\* The retirement of the code is planned, and ends however far it came.
LEMMA RetiringInv == InstInv /\ (FinishOwnerClaim \/ Retired) => InstInv'
  <1> SUFFICES ASSUME InstInv, FinishOwnerClaim \/ Retired PROVE InstInv'
    OBVIOUS
  <1>1. UNCHANGED <<db, drawn, disk, exit, telegram>> /\ UNCHANGED <<dir, kept, token, hook>>
    BY DEF FinishOwnerClaim, Retired, Goto, disk, telegram
  <1>2. CASE FinishOwnerClaim
    <2>1. pc = "COMMITTED" /\ pc' = "RETIRING" /\ mem' = mem
          /\ todo' = IF SafeEntries(mem.code) THEN RetireAfterClaim ELSE <<>>
      BY <1>2 DEF FinishOwnerClaim, Goto
    <2>2. todo' \in Retirement
      BY <2>1, RetireCalls DEF Retirement
    <2>3. Plan' /\ FilesFollowOwner'
      BY <2>1, <2>2 DEF Plan, FilesFollowOwner
    <2>4. WebhookAccepted' /\ AfterUpgrade /\ AfterUpgrade'
      BY <1>1, <2>1 DEF InstInv, WebhookAccepted, Serving, AfterUpgrade, AfterOwner, AfterIdentify,
                        AfterSeed, AfterConnect
    <2>5. ProcessTypeOK' /\ mem'.tries < Attempts
      BY <1>1, <2>1 DEF InstInv, InstTypeOK, ProcessTypeOK
    <2> QED
      BY <1>1, <2>1, <2>3, <2>4, <2>5, ProcessStep
  <1>3. CASE Retired
    <2>1. pc = "RETIRING" /\ pc' = "SERVING" /\ mem' = [mem EXCEPT !.code = None]
          /\ todo = <<>> /\ todo' = todo
      BY <1>3 DEF Retired, Goto
    <2>2. Plan' /\ FilesFollowOwner'
      BY <2>1 DEF Plan, FilesFollowOwner
    <2>3. ProcessTypeOK' /\ mem'.tries < Attempts /\ mem'.seed = mem.seed /\ mem'.secret = mem.secret
      BY <1>1, <2>1 DEF InstInv, InstTypeOK, ProcessTypeOK
    <2>4. WebhookAccepted' /\ AfterUpgrade /\ AfterUpgrade'
      BY <1>1, <2>1, <2>3 DEF InstInv, WebhookAccepted, Serving, AfterUpgrade, AfterOwner, AfterIdentify,
                              AfterSeed, AfterConnect
    <2> QED
      BY <1>1, <2>1, <2>2, <2>3, <2>4, ProcessStep
  <1> QED
    BY <1>2, <1>3

-----------------------------------------------------------------------------
(***************************************************************************)
(* What goes wrong.                                                        *)
(***************************************************************************)
\* A start is given up; a retirement is, and the service goes on.
LEMMA AbandonInv ==
    ASSUME InstInv, Abandon, UNCHANGED <<db, drawn, disk, telegram>>
    PROVE  InstInv'
  <1>1. CASE pc # "RETIRING"
    BY <1>1, ExitKeeps DEF Abandon
  <1>2. CASE pc = "RETIRING"
    <2>1. todo' = <<>> /\ pc' = pc /\ mem' = mem /\ exit' = exit
          /\ UNCHANGED <<dir, kept, token, hook>>
      BY <1>2 DEF Abandon, disk, telegram
    <2>2. Plan' /\ FilesFollowOwner'
      BY <1>2, <2>1 DEF Plan, FilesFollowOwner, Retirement
    <2>3. WebhookAccepted' /\ AfterUpgrade /\ AfterUpgrade'
      BY <1>2, <2>1 DEF InstInv, WebhookAccepted, Serving, AfterUpgrade, AfterOwner, AfterIdentify,
                        AfterSeed, AfterConnect
    <2>4. ProcessTypeOK' /\ mem'.tries < Attempts
      BY <2>1 DEF InstInv, InstTypeOK, ProcessTypeOK
    <2> QED
      BY <1>2, <2>1, <2>2, <2>3, <2>4, ProcessStep
  <1> QED
    BY <1>1, <1>2

\* What a power loss leaves of a file that was not synced is a leftover, and
\* a published one was.
LEMMA PowerInv == InstInv /\ PowerLoss => InstInv'
  <1> SUFFICES ASSUME InstInv, PowerLoss PROVE InstInv'
    OBVIOUS
  <1> USE InstallationConstants DEF InstallationConstants
  <1>1. /\ pc' = "DOWN" /\ exit' = "FAILED" /\ mem' = NoMemory /\ todo' = <<>>
        /\ UNCHANGED <<db, drawn, token, hook, late>>
    BY DEF PowerLoss, Exit, telegram
  <1>2. /\ dir' \in [Name -> UNION {kept[n] : n \in Name}]
        /\ \A n \in Name : dir'[n] \in kept[n]
        /\ kept' = [n \in Name |-> {dir'[n]}]
    BY DEF PowerLoss
  <1>3. /\ inode' \in [Inode -> UNION {Survives(inode[i]) : i \in Inode}]
        /\ \A i \in Inode : inode'[i] \in Survives(inode[i])
    BY DEF PowerLoss
  <1>4. ASSUME NEW i \in Inode
        PROVE  /\ inode'[i] \in InodeType
               /\ inode[i].synced => inode'[i] = inode[i]
               /\ inode'[i].len = 1 \/ (/\ inode'[i].code = inode[i].code
                                        /\ inode'[i].owner = inode[i].owner
                                        /\ inode'[i].len <= inode[i].len)
    <2>1. inode[i] \in InodeType
      BY DEF InstInv, InstTypeOK, InodeType
    <2>2. inode'[i] \in Survives(inode[i])
      BY <1>3
    <2>3. NoInode \in InodeType /\ NoInode.len = 1
      BY DEF NoInode, InodeType
    <2>4. CASE inode[i].synced
      BY <2>1, <2>2, <2>4 DEF Survives, InodeType
    <2>5. CASE ~inode[i].synced
      <3>1. CASE inode'[i] = NoInode
        BY <2>3, <2>5, <3>1
      <3>2. CASE inode'[i] # NoInode
        <4>1. PICK k \in 1 .. inode[i].len : inode'[i] = [inode[i] EXCEPT !.len = k]
          BY <2>2, <2>5, <3>2 DEF Survives
        <4>2. k \in 1..3 /\ k <= inode[i].len
          BY <2>1 DEF InodeType
        <4> QED
          BY <2>1, <2>5, <4>1, <4>2 DEF InodeType
      <3> QED
        BY <3>1, <3>2
    <2> QED
      BY <2>4, <2>5
  <1>5. DiskTypeOK' /\ \A n \in Name : dir'[n] \in kept'[n] /\ kept'[n] = {dir'[n]}
    <2>1. \A n \in Name : dir'[n] \in Inode \cup {NoEntry}
      BY <1>2 DEF InstInv, InstTypeOK
    <2>2. dir' \in [Name -> Inode \cup {NoEntry}]
      BY <1>2, <2>1
    <2>3. inode' \in [Inode -> InodeType]
      BY <1>3, <1>4
    <2> QED
      BY <1>2, <2>1, <2>2, <2>3 DEF DiskTypeOK
  <1>6. Entries'
    <2>1. \A n \in Name : kept[n] \subseteq Inode \cup {NoEntry}
      BY DEF InstInv, InstTypeOK
    <2>2. PublishedCodeWorks'
      <3> SUFFICES ASSUME NEW i \in kept'[Target] \ {NoEntry}
                   PROVE  /\ inode'[i].synced /\ OwnedByDirectory(i)'
                          /\ db'.seed # None => Exact(i, db.seed)'
        BY DEF PublishedCodeWorks
      <3>1. i \in Inode /\ i \in kept[Target]
        BY <2>1, <1>2, <1>5 DEF Name
      <3>2. inode[i].synced /\ OwnedByDirectory(i) /\ (db.seed # None => Exact(i, db.seed))
        BY <3>1 DEF InstInv, Entries, PublishedCodeWorks
      <3>3. inode'[i] = inode[i]
        BY <3>1, <3>2, <1>4
      <3> QED
        BY <3>2, <3>3, <1>1 DEF Exact, OwnedByDirectory
    <2>3. ASSUME db.seed # None, NEW i \in kept'[Temp] \ {NoEntry} PROVE Leftover(i)'
      <3>1. i \in Inode /\ i \in kept[Temp]
        BY <2>1, <1>2, <1>5 DEF Name
      <3>2. Leftover(i)
        BY <2>3, <3>1 DEF InstInv, Entries
      <3>3. inode[i].len \in 1..3 /\ inode'[i].len \in 1..3
        BY <1>4, <3>1 DEF InstInv, InstTypeOK, InodeType
      <3> QED
        BY <3>1, <3>2, <3>3, <1>1, <1>4 DEF Leftover, OwnedByDirectory
    <2> QED
      BY <2>2, <2>3, <1>1, <1>2, <1>5 DEF InstInv, Entries
  <1>7. InstTypeOK' /\ ProcessTypeOK'
    BY <1>1, <1>5 DEF InstInv, InstTypeOK, ProcessTypeOK, DiskTypeOK, InodeType, NoMemory
  <1>8. (LeftoversAccepted /\ FilesFollowOwner /\ WebhookAccepted /\ Plan /\ Progress)'
    BY <1>1 DEF LeftoversAccepted, FilesFollowOwner, WebhookAccepted, Serving, Plan, Progress,
                AfterConnect, AfterSeed, AfterIdentify, AfterOwner, AfterUpgrade
  <1>9. Keys' /\ Webhooks' /\ OneBotPerSeed'
    BY <1>1, WebhooksKept DEF InstInv, Keys
  <1> QED
    BY <1>6, <1>7, <1>8, <1>9 DEF InstInv

\* An attempt to register gets no answer: it is this start's, and the last one
\* ends the start.
LEMMA UnansweredInv == InstInv /\ RegistrationUnanswered => InstInv'
  <1> SUFFICES ASSUME InstInv, RegistrationUnanswered PROVE InstInv'
    OBVIOUS
  <1> USE InstallationConstants DEF InstallationConstants
  <1>1. /\ pc = "BOUND" /\ late' = late \cup {<<token, mem.secret>>} /\ AfterFailedAttempt
        /\ UNCHANGED <<db, drawn, dir, kept, inode, token, hook>>
    BY DEF RegistrationUnanswered, disk
  <1>2. /\ db.bot = token /\ db.bot # None /\ db.seed # None /\ mem.secret = <<db.seed, db.bot>>
    BY <1>1 DEF InstInv, Progress, ProcessTypeOK, AfterConnect, AfterSeed, AfterIdentify
  <1>3. Webhooks' /\ OneBotPerSeed'
    BY <1>1, <1>2 DEF InstInv, Webhooks, OneBotPerSeed
  <1>4. Entries' /\ Keys'
    BY <1>1, EntriesKept DEF InstInv, disk, Keys
  <1>5. mem.tries \in Nat /\ mem.tries < Attempts
    BY DEF InstInv, ProcessTypeOK, InstTypeOK
  <1>6. CASE LastAttempt
    <2>1. pc' = "DOWN" /\ exit' = "FAILED" /\ mem' = NoMemory /\ todo' = <<>>
      BY <1>1, <1>6 DEF AfterFailedAttempt, Exit
    <2>2. InstTypeOK' /\ ProcessTypeOK'
      BY <1>1, <2>1 DEF InstInv, InstTypeOK, ProcessTypeOK, NoMemory
    <2>3. (LeftoversAccepted /\ FilesFollowOwner /\ WebhookAccepted /\ Plan /\ Progress)'
      BY <2>1 DEF LeftoversAccepted, FilesFollowOwner, WebhookAccepted, Serving, Plan, Progress,
                  AfterConnect, AfterSeed, AfterIdentify, AfterOwner, AfterUpgrade
    <2> QED
      BY <1>3, <1>4, <2>2, <2>3 DEF InstInv
  <1>7. CASE ~LastAttempt
    <2>1. mem' = [mem EXCEPT !.tries = @ + 1] /\ pc' = pc /\ exit' = exit /\ todo' = todo
      BY <1>1, <1>7 DEF AfterFailedAttempt
    <2>2. mem.tries + 1 < Attempts
      BY <1>5, <1>7 DEF LastAttempt
    <2>3. /\ mem'.tries = mem.tries + 1 /\ mem'.seed = mem.seed /\ mem'.code = mem.code
          /\ mem'.secret = mem.secret
      BY <2>1 DEF InstInv, ProcessTypeOK
    <2>4. InstTypeOK' /\ ProcessTypeOK'
      <3>1. InstTypeOK'
        BY <1>1, <2>1, <2>2, <2>3 DEF InstInv, InstTypeOK
      <3>2. ProcessTypeOK'
        BY <1>1, <1>5, <2>1 DEF InstInv, ProcessTypeOK
      <3> QED
        BY <3>1, <3>2
    <2>5. (LeftoversAccepted /\ FilesFollowOwner /\ WebhookAccepted /\ Plan)'
      BY <1>1, <2>1 DEF InstInv, LeftoversAccepted, FilesFollowOwner, WebhookAccepted, Serving, Plan
    <2>6. Progress'
      BY <1>1, <2>1, <2>3 DEF InstInv, Progress, AfterConnect, AfterSeed, AfterIdentify, AfterOwner,
                              AfterUpgrade
    <2> QED
      BY <1>3, <1>4, <2>4, <2>5, <2>6 DEF InstInv
  <1> QED
    BY <1>6, <1>7

\* The operator removes the published code, not while a start works on it.
LEMMA RemoveCodeInv == InstInv /\ RemoveClaimCode => InstInv'
  <1> SUFFICES ASSUME InstInv, RemoveClaimCode PROVE InstInv'
    OBVIOUS
  <1>1. /\ pc \in {"DOWN", "SERVING", "RETIRING"}
        /\ dir' = [dir EXCEPT ![Target] = NoEntry] /\ kept' = [n \in Name |-> {dir'[n]}]
        /\ UNCHANGED <<db, drawn, inode, pc, mem, todo, exit, token, hook, late>>
    BY DEF RemoveClaimCode, process, telegram
  <1>2. \A n \in Name : dir'[n] \in {dir[n], NoEntry} /\ kept'[n] = {dir'[n]}
    BY <1>1 DEF InstInv, InstTypeOK
  <1>3. InstTypeOK' /\ ProcessTypeOK'
    <2>1. dir' \in [Name -> Inode \cup {NoEntry}] /\ kept' \in [Name -> SUBSET (Inode \cup {NoEntry})]
      <3>1. dir' \in [Name -> Inode \cup {NoEntry}]
        BY <1>1 DEF InstInv, InstTypeOK
      <3>2. kept' \in [Name -> SUBSET (Inode \cup {NoEntry})]
        BY <1>1, <3>1
      <3> QED
        BY <3>1, <3>2
    <2>2. InstTypeOK'
      <3>1. UNCHANGED <<db, inode, mem, exit>>
        BY <1>1
      <3> QED
        BY <3>1, <2>1 DEF InstInv, InstTypeOK
    <2>3. ProcessTypeOK'
      BY <1>1, <1>2 DEF InstInv, ProcessTypeOK
    <2> QED
      BY <2>2, <2>3
  <1>4. Entries'
    <2>1. \A n \in Name : kept'[n] \subseteq kept[n] \cup {NoEntry}
      BY <1>2 DEF InstInv, ProcessTypeOK
    <2>2. PublishedCodeWorks'
      BY <2>1, <1>1 DEF InstInv, Entries, PublishedCodeWorks, Exact, OwnedByDirectory, Name
    <2>3. db.seed # None => \A i \in kept'[Temp] \ {NoEntry} : Leftover(i)'
      BY <2>1, <1>1 DEF InstInv, Entries, Leftover, OwnedByDirectory, Name
    <2>4. db.file /\ db.seed = None => \A n \in Name : kept'[n] = {NoEntry}
      BY <1>2 DEF InstInv, Entries, ProcessTypeOK
    <2> QED
      BY <2>2, <2>3, <2>4, <1>1, <1>2 DEF Entries
  <1>5. LeftoversAccepted' /\ FilesFollowOwner' /\ WebhookAccepted' /\ Keys' /\ Plan'
    BY <1>1 DEF InstInv, LeftoversAccepted, FilesFollowOwner, WebhookAccepted, Serving, Keys, Plan
  <1>6. Progress'
    BY <1>1 DEF InstInv, Progress, AfterConnect, AfterSeed, AfterIdentify, AfterOwner, AfterUpgrade
  <1>7. Webhooks' /\ OneBotPerSeed'
    BY <1>1, WebhooksKept DEF InstInv
  <1> QED
    BY <1>3, <1>4, <1>5, <1>6, <1>7 DEF InstInv

\* The operator removes the database: nothing refers to its seed any more but
\* the entries, which then stand alone.
LEMMA RemoveDatabaseInv == InstInv /\ RemoveDatabase => InstInv'
  <1> SUFFICES ASSUME InstInv, RemoveDatabase PROVE InstInv'
    OBVIOUS
  <1> USE InstallationConstants DEF InstallationConstants
  <1>1. /\ pc = "DOWN" /\ late = {} /\ db' = NoDatabase /\ kept' = [n \in Name |-> {dir[n]}]
        /\ UNCHANGED <<drawn, dir, inode, pc, mem, todo, exit, token, hook, late>>
    BY DEF RemoveDatabase, process, telegram
  <1>2. ~db'.file /\ db'.seed = None /\ db'.bot = None /\ db'.keys = {}
    BY <1>1 DEF NoDatabase
  <1>3. db' \in [file : BOOLEAN, seed : Seed \cup {None}, bot : Bot \cup {None},
                 owner : {"INIT", "UNCLAIMED", "CLAIMED"}, keys : SUBSET (Seed \cup {Legacy})]
    BY <1>1 DEF NoDatabase
  <1>4. InstTypeOK' /\ ProcessTypeOK'
    BY <1>1, <1>3 DEF InstInv, InstTypeOK, ProcessTypeOK
  <1>5. Entries'
    <2>1. \A n \in Name : kept'[n] \subseteq kept[n] /\ kept'[n] = {dir'[n]}
      BY <1>1 DEF InstInv, ProcessTypeOK
    <2>2. PublishedCodeWorks'
      BY <2>1, <1>1, <1>2 DEF InstInv, Entries, PublishedCodeWorks, OwnedByDirectory, Name
    <2> QED
      BY <2>1, <2>2, <1>2 DEF Entries
  <1>6. (LeftoversAccepted /\ FilesFollowOwner /\ WebhookAccepted /\ Plan /\ Progress)'
    BY <1>1 DEF InstInv, LeftoversAccepted, FilesFollowOwner, WebhookAccepted, Serving, Plan, Progress,
                AfterConnect, AfterSeed, AfterIdentify, AfterOwner, AfterUpgrade
  <1>7. Keys'
    BY <1>2 DEF Keys
  <1>8. Webhooks' /\ OneBotPerSeed'
    BY <1>1, <1>2 DEF InstInv, ProcessTypeOK, Webhooks, OneBotPerSeed
  <1> QED
    BY <1>4, <1>5, <1>6, <1>7, <1>8 DEF InstInv

\* The operator configures another bot's token while nothing runs.
LEMMA ChangeTokenInv == InstInv /\ ChangeToken => InstInv'
  <1> SUFFICES ASSUME InstInv, ChangeToken PROVE InstInv'
    OBVIOUS
  <1>1. /\ pc = "DOWN" /\ token' \in Bot
        /\ UNCHANGED <<db, drawn, disk, dir, kept, inode, pc, mem, todo, exit, hook, late>>
    BY DEF ChangeToken, process, disk
  <1>2. InstTypeOK' /\ ProcessTypeOK'
    BY <1>1 DEF InstInv, InstTypeOK, ProcessTypeOK
  <1>3. (LeftoversAccepted /\ FilesFollowOwner /\ WebhookAccepted /\ Plan /\ Progress /\ Keys)'
    BY <1>1 DEF InstInv, LeftoversAccepted, FilesFollowOwner, WebhookAccepted, Serving, Plan, Progress, Keys,
                AfterConnect, AfterSeed, AfterIdentify, AfterOwner, AfterUpgrade
  <1>4. Entries'
    BY <1>1, EntriesKept DEF InstInv
  <1>5. Webhooks' /\ OneBotPerSeed'
    BY <1>1, WebhooksKept DEF InstInv
  <1> QED
    BY <1>2, <1>3, <1>4, <1>5 DEF InstInv

-----------------------------------------------------------------------------
\* Every step of the process keeps the invariant.
LEMMA StepInv == InstInv /\ Step => InstInv'
  <1> SUFFICES ASSUME InstInv, Step PROVE InstInv'
    OBVIOUS
  <1>1. CASE SyscallRefused
    BY <1>1, AbandonInv DEF SyscallRefused
  <1> QED
    BY <1>1, PreflightInv, ConnectInv, SeedInv, ValidateInv, PinInv, OwnerInv, UpgradeInv, ReconcileInv,
       SyscallInv, PreparedInv, RegisterInv, RetiringInv DEF Step

\* So does every step of its environment.
LEMMA EnvironmentInv == InstInv /\ Environment => InstInv'
  <1> SUFFICES ASSUME InstInv, Environment PROVE InstInv'
    OBVIOUS
  <1>1. CASE Crash
    BY <1>1, ExitKeeps DEF Crash
  <1>2. CASE StepFails
    BY <1>2, AbandonInv DEF StepFails
  <1>3. CASE Shutdown
    BY <1>3, ExitKeeps DEF Shutdown
  <1>4. CASE RegistrationRefused
    BY <1>4, ExitKeeps DEF RegistrationRefused
  <1> QED
    BY <1>1, <1>2, <1>3, <1>4, AskInv, ClaimInv, PowerInv, UnansweredInv, LateInv, RemoveCodeInv,
       RemoveDatabaseInv, ChangeTokenInv DEF Environment

\* A step that changes nothing.
LEMMA InstStutter == InstInv /\ UNCHANGED instVars => InstInv'
  <1> SUFFICES ASSUME InstInv, UNCHANGED instVars PROVE InstInv'
    OBVIOUS
  <1>1. /\ UNCHANGED <<db, drawn, dir, kept, inode, pc, mem, todo, exit, token, hook, late, faults, disk>>
    BY DEF instVars, disk, process, telegram
  <1>2. InstTypeOK' /\ ProcessTypeOK'
    BY <1>1 DEF InstInv, InstTypeOK, ProcessTypeOK
  <1>3. LeftoversAccepted' /\ FilesFollowOwner' /\ WebhookAccepted' /\ Keys'
    BY <1>1 DEF InstInv, LeftoversAccepted, FilesFollowOwner, WebhookAccepted, Serving, Keys
  <1>4. Progress'
    BY <1>1 DEF InstInv, Progress, AfterConnect, AfterSeed, AfterIdentify, AfterOwner, AfterUpgrade
  <1>5. Plan'
    BY <1>1 DEF InstInv, Plan, RetirePlan, PublishPlan, Bare, Fresh, Exact
  <1>6. Entries'
    BY <1>1, EntriesKept DEF InstInv
  <1>7. Webhooks' /\ OneBotPerSeed'
    BY <1>1, WebhooksKept DEF InstInv
  <1> QED
    BY <1>2, <1>3, <1>4, <1>5, <1>6, <1>7 DEF InstInv

\* The inductive invariant, for every instance and every sequence of crashes,
\* power losses, failed calls, lost answers and interventions of the operator.
THEOREM InstInvariant == InstSpec => []InstInv
  <1>1. InstInv /\ [InstNext]_instVars => InstInv'
    BY StepInv, EnvironmentInv, InstStutter DEF InstNext
  <1> QED
    BY <1>1, InstInitInv, PTL DEF InstSpec

\* The variables of an installation keep their types, and never more attempts
\* to register are made than a start has (startup's retry loop).
THEOREM InstTypeCorrect == InstSpec => []InstTypeOK
  <1>1. InstInv => InstTypeOK
    BY DEF InstInv
  <1> QED
    BY <1>1, InstInvariant, PTL

\* However an earlier start ended, inspect_entry and validate_pair accept what
\* it left: no start ever refuses the claim-code entries as unsafe.
THEOREM LeftoversAlwaysAccepted == InstSpec => []LeftoversAccepted
  <1>1. InstInv => LeftoversAccepted
    BY DEF InstInv
  <1> QED
    BY <1>1, InstInvariant, PTL

\* Behind claim-code there is never, also not after a power loss, anything but
\* the whole code of this database, in the hands of the directory's owner: the
\* order of create_and_publish suffices for that.
THEOREM PublishedCodeAlwaysWorks == InstSpec => []PublishedCodeWorks
  <1>1. InstInv => PublishedCodeWorks
    BY DEF InstInv, Entries
  <1> QED
    BY <1>1, InstInvariant, PTL

\* A start that has reconciled its files shows the code exactly while the
\* installation is unclaimed, and nothing under the temporary name.
THEOREM FilesAlwaysFollowOwner == InstSpec => []FilesFollowOwner
  <1>1. InstInv => FilesFollowOwner
    BY DEF InstInv
  <1> QED
    BY <1>1, InstInvariant, PTL

\* A running service is always reached with the secret it expects, whatever
\* registrations of earlier attempts and starts come through late.
THEOREM WebhookAlwaysAccepted == InstSpec => []WebhookAccepted
  <1>1. InstInv => WebhookAccepted
    BY DEF InstInv
  <1> QED
    BY <1>1, InstInvariant, PTL

\* No seed is ever declared for two bots: pin_or_verify refuses a changed token,
\* and a new database draws a new seed.
THEOREM SeedsKeepTheirBot == InstSpec => []OneBotPerSeed
  <1>1. InstInv => OneBotPerSeed
    BY DEF InstInv
  <1> QED
    BY <1>1, InstInvariant, PTL

\* A running service can check the answer to every open challenge, also those
\* of the version before: the upgrade has signed them again.
THEOREM ChallengesAlwaysAnswerable == InstSpec => []ChallengesAnswerable
  <1>1. InstInv => ChallengesAnswerable
    BY DEF InstInv, Progress, ChallengesAnswerable, Serving, AfterUpgrade, AfterOwner, AfterIdentify,
           AfterSeed, AfterConnect
  <1> QED
    BY <1>1, InstInvariant, PTL

\* No step of a claimed installation publishes the code: an entry that comes
\* back under claim-code is one a power loss restored.
THEOREM ClaimedNeverPublishes == InstSpec => NoCodeAfterClaim
  <1> DEFINE Kept == db.owner = "CLAIMED" /\ dir[Target] = NoEntry => dir'[Target] \in kept[Target]
  <1>1. ASSUME InstInv, [InstNext]_instVars PROVE Kept
    <2> SUFFICES ASSUME db.owner = "CLAIMED", dir[Target] = NoEntry PROVE dir'[Target] \in kept[Target]
      OBVIOUS
    <2>1. dir[Target] \in kept[Target]
      BY <1>1 DEF InstInv, ProcessTypeOK, Name
    <2>2. CASE Syscall
      <3>1. PICK call \in {"unlink", "sync"}, n \in Name : Head(todo) = <<call, n>>
        <4>1. pc \in {"FILES", "RETIRING"} /\ todo # <<>>
          BY <1>1, <2>2 DEF InstInv, Plan, Syscall
        <4>2. todo \in Retirement
          BY <1>1, <4>1 DEF InstInv, Plan, RetirePlan, Retirement
        <4> QED
          BY <4>1, <4>2, PlanSteps DEF Retirement, Starts, Name
      <3>2. Perform(call, n)
        BY <2>2, <3>1 DEF Syscall
      <3>3. dir' = dir \/ dir' = [dir EXCEPT ![n] = NoEntry]
        BY <3>1, <3>2 DEF Perform, SetEntry
      <3> QED
        BY <2>1, <3>3, <1>1 DEF InstInv, InstTypeOK, Name
    <2>3. CASE PowerLoss
      BY <2>3 DEF PowerLoss, Name
    <2>4. CASE RemoveClaimCode
      BY <2>4 DEF RemoveClaimCode
    <2>5. CASE dir' = dir
      BY <2>1, <2>5
    <2> QED
      BY <1>1, <2>2, <2>3, <2>4, <2>5 DEF InstNext, Step, Environment, disk, instVars,
         Preflight, Connect, LoadOrInitializeMasterSeed, ValidateExisting, PinOrVerify, InitializeOwner,
         UpgradeChallenges, ReconcileClaimFile, SyscallRefused, Prepared, Register, FinishOwnerClaim,
         Retired, Ask, Claim, Crash, StepFails, Shutdown, RegistrationUnanswered, RegistrationRefused,
         LateRegistration, RemoveDatabase, ChangeToken
  <1>2. InstInv /\ [InstNext]_instVars => [Kept]_instVars
    BY <1>1
  <1> QED
    BY <1>2, InstInvariant, PTL DEF InstSpec, NoCodeAfterClaim
=============================================================================
