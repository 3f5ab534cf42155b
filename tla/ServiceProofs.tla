--------------------------- MODULE ServiceProofs ----------------------------
(***************************************************************************)
(* Proofs about the two workers over one database.  The outbox worker      *)
(* writes its own columns of the outbox and, of the rest, only whether a   *)
(* prompt was sent: an open challenge stays open and a closed one closed.  *)
(* So what is proved of the processing worker alone holds of the service.  *)
(* What the outbox worker promises rests on the claim it writes down: a    *)
(* row it holds is marked, a marked row is never sent again as a prompt,   *)
(* and an update has one prompt to send.                                   *)
(***************************************************************************)
EXTENDS Service, GateProofs, LedgerProofs

-----------------------------------------------------------------------------
(***************************************************************************)
(* Rows that the processing worker appends.                                *)
(***************************************************************************)
\* A row nobody has tried to send.
Untried(row) == row.status = "PENDING" /\ row.attempts = 0 /\ ~row.claimed

\* A prompt is the prompt of the challenge its update created.
PromptRow(row) == row.kind = "SEND_CHALLENGE" => row.challenge = row.update /\ row.text = ""

\* New rows: untried, and a prompt only for one update.
NewRows(t, u) ==
    /\ t \in Seq(OutboxRow)
    /\ \A i \in DOMAIN t : /\ Untried(t[i]) /\ PromptRow(t[i])
                           /\ t[i].kind = "SEND_CHALLENGE" => t[i].update = u

\* A row that /reset removes; a prompt goes together with its challenge.
Removed(new, old) ==
    /\ old.status \in Live /\ new = [old EXCEPT !.status = "DELETED"]
    /\ old.kind = "SEND_CHALLENGE" => challenge'[old.update] = "NONE"

\* The outbox with new rows at its end, and some rows removed by /reset.
Grows(s, u) ==
    /\ s \in Seq(OutboxRow)
    /\ DOMAIN outbox \subseteq DOMAIN s
    /\ \A k \in DOMAIN s :
          \/ k \in DOMAIN outbox /\ (s[k] = outbox[k] \/ Removed(s[k], outbox[k]))
          \/ /\ k \notin DOMAIN outbox /\ Untried(s[k]) /\ PromptRow(s[k])
             /\ s[k].kind = "SEND_CHALLENGE" => s[k].update = u

\* A row as it is built is untried.
LEMMA RowUntried ==
    ASSUME NEW u, NEW kind, NEW c, NEW text, NEW ms
    PROVE  /\ Untried(Row(u, kind, c, text, ms))
           /\ Row(u, kind, c, text, ms).kind = kind
           /\ Row(u, kind, c, text, ms).update = u
           /\ Row(u, kind, c, text, ms).challenge = c
           /\ Row(u, kind, c, text, ms).text = text
  BY DEF Untried, Row

\* No row, and one row, are new rows.
LEMMA NewOne ==
    ASSUME NEW u
    PROVE  /\ NewRows(<<>>, u)
           /\ \A p \in OutboxRow : Untried(p) /\ PromptRow(p) /\ (p.kind = "SEND_CHALLENGE" => p.update = u)
                                   => NewRows(<<p>>, u)
  BY NoRows DEF NewRows

\* New rows after new rows are new rows.
LEMMA NewAppend ==
    ASSUME NEW s, NEW t, NEW u, NewRows(s, u), NewRows(t, u)
    PROVE  NewRows(s \o t, u)
  BY Appended DEF NewRows

\* New rows at the end of the outbox let it grow.
LEMMA GrowsAppend ==
    ASSUME NEW s, NEW t, NEW u, Grows(s, u), NewRows(t, u)
    PROVE  Grows(s \o t, u)
  <1>1. s \in Seq(OutboxRow) /\ t \in Seq(OutboxRow)
    BY DEF Grows, NewRows
  <1>2. DOMAIN s \subseteq DOMAIN (s \o t)
    <2>1. DOMAIN (s \o t) = 1..(Len(s) + Len(t)) /\ Len(s) \in Nat /\ Len(t) \in Nat
          /\ DOMAIN s = 1..Len(s)
      BY <1>1, ConcatProperties, LenProperties
    <2> QED
      BY <2>1
  <1>3. /\ s \o t \in Seq(OutboxRow)
        /\ \A k \in DOMAIN (s \o t) :
              \/ k \in DOMAIN s /\ (s \o t)[k] = s[k]
              \/ k \notin DOMAIN s /\ k - Len(s) \in DOMAIN t /\ (s \o t)[k] = t[k - Len(s)]
    BY <1>1, Appended
  <1> DEFINE r == s \o t
  <1>4. r \in Seq(OutboxRow) /\ DOMAIN s \subseteq DOMAIN r
        /\ \A k \in DOMAIN r :
              \/ k \in DOMAIN s /\ r[k] = s[k]
              \/ k \notin DOMAIN s /\ \E j \in DOMAIN t : r[k] = t[j]
    BY <1>2, <1>3
  <1> HIDE DEF r
  <1>5. Grows(r, u)
    <2>1. DOMAIN outbox \subseteq DOMAIN r
      BY <1>4 DEF Grows
    <2>2. ASSUME NEW k \in DOMAIN r
          PROVE  \/ k \in DOMAIN outbox /\ (r[k] = outbox[k] \/ Removed(r[k], outbox[k]))
                 \/ /\ k \notin DOMAIN outbox /\ Untried(r[k]) /\ PromptRow(r[k])
                    /\ r[k].kind = "SEND_CHALLENGE" => r[k].update = u
      <3>1. CASE k \in DOMAIN s /\ r[k] = s[k]
        BY <3>1 DEF Grows
      <3>2. CASE k \notin DOMAIN s /\ \E j \in DOMAIN t : r[k] = t[j]
        BY <3>2 DEF Grows, NewRows
      <3> QED
        BY <1>4, <3>1, <3>2
    <2> QED
      BY <1>4, <2>1, <2>2 DEF Grows
  <1> QED
    BY <1>5 DEF r

\* The outbox as it is.
LEMMA GrowsNot ==
    ASSUME StoreTypeOK, NEW u
    PROVE  Grows(outbox, u)
  BY DEF Grows, StoreTypeOK

\* A handler appends evidence, its own rows and a trace.
LEMMA EnqueueGrows ==
    ASSUME StoreTypeOK, NEW f, NEW u \in Update, NEW rows, NewRows(rows, u), Enqueue(f, u, rows)
    PROVE  Grows(outbox', u)
  <1> DEFINE ev == Evidence(f, u)
             tr == Trace(f, u)
             a == Row(u, "PROPOSED", 0, "spam", {})
             b == OwnerRow(u, "detector_failed")
             d == OwnerRow(u, "trace")
  <1>1. a \in OutboxRow /\ b \in OutboxRow /\ d \in OutboxRow
    BY NoRows, PlainRow DEF OwnerRow, Kind, Text
  <1>2. /\ Untried(a) /\ Untried(b) /\ Untried(d)
        /\ a.kind # "SEND_CHALLENGE" /\ b.kind # "SEND_CHALLENGE" /\ d.kind # "SEND_CHALLENGE"
    BY DEF Untried, OwnerRow, Row
  <1>3. ev \in {<<a>>, <<b>>, <<>>} /\ tr \in {<<d>>, <<>>}
    BY Zenon DEF Evidence, Trace
  <1>4. outbox' = ((outbox \o ev) \o rows) \o tr
    BY DEF Enqueue
  <1> HIDE DEF a, b, d, ev, tr
  <1>5. NewRows(<<a>>, u) /\ NewRows(<<b>>, u) /\ NewRows(<<d>>, u) /\ NewRows(<<>>, u)
    BY <1>1, <1>2, NewOne DEF PromptRow
  <1>6. NewRows(ev, u) /\ NewRows(tr, u)
    BY <1>3, <1>5
  <1>7. Grows(outbox \o ev, u)
    BY <1>6, GrowsNot, GrowsAppend
  <1>8. Grows((outbox \o ev) \o rows, u)
    BY <1>7, GrowsAppend
  <1> QED
    BY <1>4, <1>6, <1>8, GrowsAppend

\* apply_recorded_event queues new rows, a prompt only when it starts a
\* challenge.
LEMMA HandlerGrows ==
    ASSUME TypeOK, NEW u \in Update, ApplyRecorded(u)
    PROVE  Grows(outbox', u)
  <1> DEFINE c == ChatOf[u]
             f == facts[u]
             x == f.challenge
  <1>f. f \in Facts /\ x \in 0..MaxUpdate /\ StoreTypeOK
    BY DEF TypeOK, StoreTypeOK, Facts
  <1>a. ApplyFacts(f, u, c)
    BY DEF ApplyRecorded
  <1> HIDE DEF f
  <1>n. NewRows(<<>>, u)
    BY NewOne
  <1>o. ASSUME NEW p \in OutboxRow, Untried(p), p.kind # "SEND_CHALLENGE" PROVE NewRows(<<p>>, u)
    BY <1>o, NewOne DEF PromptRow
  <1>e. \A t \in Text : NewRows(<<EditRow(u, x, t)>>, u)
    <2> SUFFICES ASSUME NEW t \in Text PROVE NewRows(<<EditRow(u, x, t)>>, u)
      OBVIOUS
    <2> DEFINE p == EditRow(u, x, t)
    <2>1. p \in OutboxRow /\ Untried(p) /\ p.kind # "SEND_CHALLENGE"
      BY <1>f, EditRows DEF EditRow, Row, Untried
    <2> QED
      BY <2>1, <1>o
  <1>s. NewRows(<<Row(u, "SEND_CHALLENGE", u, "", {})>>, u)
    <2> DEFINE p == Row(u, "SEND_CHALLENGE", u, "", {})
    <2>1. u \in 0..MaxUpdate
      BY UpdateAssumption DEF Update
    <2>2. p \in OutboxRow
      BY <2>1, PlainRow DEF Kind, Text
    <2>3. Untried(p) /\ PromptRow(p) /\ p.update = u
      BY DEF Row, Untried, PromptRow
    <2> QED
      BY <2>2, <2>3, NewOne
  <1>x. NewRows(<<Row(u, "PROPOSED", 0, "verification_exhausted", {}),
                  EditRow(u, x, "exhausted_dry_run")>>, u)
    <2> DEFINE p == Row(u, "PROPOSED", 0, "verification_exhausted", {})
               q == EditRow(u, x, "exhausted_dry_run")
    <2>1. p \in OutboxRow /\ q \in OutboxRow
      BY <1>f, NoRows, PlainRow, EditRows DEF Kind, Text
    <2>2. Untried(p) /\ Untried(q) /\ p.kind # "SEND_CHALLENGE" /\ q.kind # "SEND_CHALLENGE"
      BY DEF EditRow, Row, Untried
    <2> HIDE DEF p, q
    <2>3. <<p, q>> \in Seq(OutboxRow) /\ \A i \in DOMAIN <<p, q>> : <<p, q>>[i] \in {p, q}
      BY <2>1
    <2>4. \A r \in {p, q} : Untried(r) /\ r.kind # "SEND_CHALLENGE"
      BY <2>2
    <2> DEFINE s == <<p, q>>
    <2> HIDE DEF s
    <2>5. NewRows(s, u)
      BY <2>3, <2>4 DEF NewRows, PromptRow, s
    <2> QED
      BY <2>5 DEF p, q, s
  <1>k. \A book : NewRows(Cleanup(f, u, book), u)
    <2> SUFFICES ASSUME NEW book PROVE NewRows(Cleanup(f, u, book), u)
      OBVIOUS
    <2> DEFINE ms == EligibleDeletions(book, c)
               p == Row(u, "READ", 0, "", f.messages)
               r == <<p>>
               q == Row(u, "DELETE", 0, "", ms)
               d == DeleteRows(u, ms)
    <2>1. p \in OutboxRow /\ (ms # {} => q \in OutboxRow)
      <3>1. f.messages \in SUBSET Message /\ ms \in SUBSET Message
        BY <1>f DEF Facts, EligibleDeletions
      <3> QED
        BY <3>1, NoRows, RowType, PlainRow DEF Kind, Text
    <2>2. Untried(p) /\ Untried(q) /\ p.kind # "SEND_CHALLENGE" /\ q.kind # "SEND_CHALLENGE"
      BY DEF Row, Untried
    <2>3. d = <<>> \/ (ms # {} /\ d = <<q>>)
      BY DEF DeleteRows
    <2>4. Cleanup(f, u, book) = r \o d
      BY DEF Cleanup
    <2> HIDE DEF p, q, d, ms
    <2>5. NewRows(r, u) /\ NewRows(d, u)
      BY <2>1, <2>2, <2>3, <1>n, <1>o
    <2> HIDE DEF r
    <2> QED
      BY <2>4, <2>5, NewAppend
  <1>1. \E rows : NewRows(rows, u) /\ Enqueue(f, u, rows)
    <2>1. CASE ApplyStart(f, u, c)
      BY <2>1, <1>s DEF ApplyStart
    <2>2. CASE ApplyRetain(f, u, c) \/ ApplyBotMessage(f, u, c) \/ ApplyManualOwner(f, u, c)
               \/ ApplyDeletions(f, u, c) \/ ApplyInert(f, u)
      BY <2>2, <1>n DEF ApplyRetain, ApplyBotMessage, ApplyManualOwner, ApplyDeletions, ApplyInert
    <2>3. ASSUME NEW action, NEW event, NEW text \in {"success", "expired"},
                 ApplyVerdict(f, u, c, action, event, text)
          PROVE  \E rows : NewRows(rows, u) /\ Enqueue(f, u, rows)
      BY <2>3, <1>e DEF ApplyVerdict, Text
    <2>4. CASE ApplyIncorrect(f, u, c)
      BY <2>4, <1>e DEF ApplyIncorrect, Text
    <2>5. CASE ApplyExhausted(f, u, c)
      BY <2>5, <1>e, <1>x DEF ApplyExhausted, Text
    <2>6. CASE ApplySpam(f, u, c) \/ ApplyBlocked(f, u, c)
      BY <2>6, <1>k DEF ApplySpam, ApplyBlocked
    <2> QED
      BY <1>a, <2>1, <2>2, <2>3, <2>4, <2>5, <2>6 DEF ApplyFacts
  <1> QED
    BY <1>1, <1>f, EnqueueGrows

\* A command queues its answer; /reset removes rows that are still to be sent.
LEMMA CommandGrows ==
    ASSUME TypeOK, NEW u \in Update, Command(u)
    PROVE  Grows(outbox', u)
  <1>t. outbox \in Seq(OutboxRow) /\ DOMAIN outbox = 1..Len(outbox) /\ Len(outbox) \in Nat
        /\ StoreTypeOK
    BY LenProperties DEF TypeOK, StoreTypeOK
  <1>o. ASSUME NEW p \in OutboxRow, Untried(p), p.kind # "SEND_CHALLENGE" PROVE NewRows(<<p>>, u)
    BY <1>o, NewOne DEF PromptRow
  <1>a. NewRows(CommandRows(u), u)
    <2> DEFINE p == Row(u, "DIRECT", 0, "reply", {})
               q == Row(u, "DIRECT", 0, "trace", {})
    <2>1. p \in OutboxRow /\ q \in OutboxRow
      BY NoRows, PlainRow DEF Kind, Text
    <2>2. Untried(p) /\ Untried(q) /\ p.kind # "SEND_CHALLENGE" /\ q.kind # "SEND_CHALLENGE"
      BY DEF Row, Untried
    <2>3. PICK r \in {<<q>>, <<>>} : CommandRows(u) = <<p>> \o r
      BY Zenon DEF CommandRows
    <2> HIDE DEF p, q
    <2>4. NewRows(<<p>>, u) /\ NewRows(r, u)
      BY <2>1, <2>2, <1>o, NewOne
    <2> QED
      BY <2>3, <2>4, NewAppend
  <1>1. CASE ResetConversation(u)
    <2> DEFINE c == ChatOf[u]
               mine == {x \in Update : ChatOf[x] = c}
               ids == EligibleDeletions(ledger, c) \cup {PromptOf(x) : x \in prompt \cap mine}
               kept == [i \in DOMAIN outbox |->
                          IF i \in ChatRows(c) /\ outbox[i].status \in Live
                          THEN [outbox[i] EXCEPT !.status = "DELETED"] ELSE outbox[i]]
               p == Row(u, "DELETE", 0, "", ids)
               gone == DeleteRows(u, ids)
    <2>1. outbox' = (kept \o gone) \o CommandRows(u)
      BY <1>1, Zenon DEF ResetConversation
    <2>2. kept \in Seq(OutboxRow)
      <3>1. \A i \in 1..Len(outbox) : outbox[i] \in OutboxRow
                /\ [outbox[i] EXCEPT !.status = "DELETED"] \in OutboxRow
        BY <1>t, DeletedRow
      <3> QED
        BY <1>t, <3>1
    <2>3. Grows(kept, u)
      <3>1. \A x \in Update : ChatOf[x] = c => challenge'[x] = "NONE"
        BY <1>1 DEF ResetConversation
      <3>2. \A i \in ChatRows(c) : i \in DOMAIN outbox /\ challenge'[outbox[i].update] = "NONE"
        <4>1. \A i \in DOMAIN outbox : outbox[i].update \in Update
          BY <1>t DEF OutboxRow
        <4> QED
          BY <3>1, <4>1 DEF ChatRows
      <3> QED
        BY <2>2, <3>2 DEF Grows, Removed
    <2>4. ids # {} => p \in OutboxRow
      <3>1. ids \in SUBSET Message
        BY Ids DEF EligibleDeletions, TypeOK, StoreTypeOK
      <3> QED
        BY <3>1, NoRows, RowType DEF Kind, Text
    <2>5. Untried(p) /\ p.kind # "SEND_CHALLENGE" /\ (gone = <<>> \/ (ids # {} /\ gone = <<p>>))
      BY DEF DeleteRows, Row, Untried
    <2> HIDE DEF kept, gone, p, ids
    <2>6. NewRows(gone, u)
      BY <2>4, <2>5, <1>o, NewOne
    <2>7. Grows(kept \o gone, u)
      BY <2>3, <2>6, GrowsAppend
    <2> QED
      BY <1>a, <2>1, <2>7, GrowsAppend
  <1>2. CASE ~ResetConversation(u)
    <2>1. outbox' = outbox \o CommandRows(u)
      BY <1>2 DEF Command, Unblock, SetDryRun, OtherCommand
    <2> QED
      BY <1>a, <1>t, <2>1, GrowsNot, GrowsAppend
  <1> QED
    BY <1>1, <1>2

\* The retention tick queues edits.
LEMMA ExpiryGrows ==
    ASSUME TypeOK, NEW blocks, ExpireDueState(blocks)
    PROVE  Grows(outbox', 0)
  <1>1. PICK n \in 0..MaxUpdate : \E order \in [1..n -> Due \cap prompt] :
           outbox' = outbox \o [i \in 1..n |-> EditRow(order[i], order[i], "expired")]
    BY DEF ExpireDueState
  <1>2. PICK order \in [1..n -> Due \cap prompt] :
           outbox' = outbox \o [i \in 1..n |-> EditRow(order[i], order[i], "expired")]
    BY <1>1
  <1> DEFINE t == [i \in 1..n |-> EditRow(order[i], order[i], "expired")]
  <1>n. n \in Nat /\ DOMAIN t = 1..n
    BY UpdateAssumption
  <1>3. \A i \in 1..n : Untried(t[i]) /\ t[i].kind # "SEND_CHALLENGE"
    BY DEF EditRow, Row, Untried
  <1>4. t \in Seq(OutboxRow)
    <2>1. \A x \in Update : x \in 0..MaxUpdate => EditRow(x, x, "expired") \in OutboxRow
      BY EditRows DEF Text
    <2>2. \A i \in 1..n : order[i] \in Update /\ order[i] \in 0..MaxUpdate
      BY UpdateAssumption DEF Update, Due
    <2> QED
      BY <1>n, <2>1, <2>2
  <1>5. outbox' = outbox \o t
    BY <1>2
  <1> HIDE DEF t
  <1>6. NewRows(t, 0)
    BY <1>n, <1>3, <1>4 DEF NewRows, PromptRow
  <1> QED
    BY <1>5, <1>6, GrowsNot, GrowsAppend DEF TypeOK

\* The processing worker appends untried rows, a prompt only for an update
\* that is not applied yet, and never touches a row but to remove it.
LEMMA ProcessingGrows ==
    ASSUME TypeOK, [Next]_vars
    PROVE  \E u : Grows(outbox', u) /\ (u \in Update => processed[u] # "APPLIED")
  <1>z. 0 \notin Update /\ StoreTypeOK
    BY UpdateAssumption DEF Update, TypeOK
  <1>q. UNCHANGED outbox => Grows(outbox', 0)
    BY <1>z, GrowsNot
  <1>p. task.pc # "IDLE" => task.update \in Update
    BY DEF TypeOK
  <1> SUFFICES \/ Grows(outbox', 0)
               \/ \E u \in Update : Grows(outbox', u) /\ processed[u] # "APPLIED"
    BY <1>z
  <1>1. ASSUME NEW u \in Update, Command(u)
        PROVE  \E v \in Update : Grows(outbox', v) /\ processed[v] # "APPLIED"
    <2>1. processed[u] = "NONE"
      BY <1>1 DEF Command, ResetConversation, Unblock, SetDryRun, OtherCommand, CommandAccepted,
                  Arrives
    <2> QED
      BY <1>1, <2>1, CommandGrows
  <1>2. ASSUME NEW u \in Update, ApplyRecorded(u)
        PROVE  \E v \in Update : Grows(outbox', v) /\ processed[v] # "APPLIED"
    BY <1>2, HandlerGrows DEF ApplyRecorded
  <1>3. CASE Apply \/ Recover
    BY <1>3, <1>2, <1>p DEF Apply, Recover
  <1>4. ASSUME NEW blocks, ExpireDueState(blocks) PROVE Grows(outbox', 0)
    BY <1>4, ExpiryGrows
  <1>5. ASSUME NEW u \in Update,
               Duplicate(u) \/ Redeliver(u) \/ Lapse(u) \/ PurgeHistory(u) \/ RecordTrigger(u)
                  \/ TriggerNotFound(u) \/ \E e \in Events(u) : Prepare(u, e)
        PROVE  UNCHANGED outbox
    BY <1>5 DEF Duplicate, Redeliver, Lapse, PurgeHistory, RecordTrigger, TriggerNotFound, Prepare,
                vars, storeVars
  <1>6. ASSUME NEW on \in BOOLEAN, NEW rs \in RightSets,
               ReconcileStartup(on, rs) \/ \E u \in Update : ReconcileTrigger(u, on, rs)
        PROVE  UNCHANGED outbox
    BY <1>6 DEF ReconcileStartup, ReconcileTrigger
  <1>7. CASE \/ Record \/ ApplyRefused \/ StorageFault \/ StartupNotFound \/ StartupUnanswered
             \/ PublishReady \/ Restart \/ StartupFails \/ Serve \/ Crash \/ UNCHANGED vars
    BY <1>7, <1>q DEF Record, ApplyRefused, StorageFault, StartupNotFound, StartupUnanswered,
                      PublishReady, Restart, StartupFails, Serve, Crash, vars, storeVars
  <1> QED
    BY <1>1, <1>3, <1>4, <1>5, <1>6, <1>7, <1>q DEF Next, ProcStep

-----------------------------------------------------------------------------
(***************************************************************************)
(* What the outbox worker writes.                                          *)
(***************************************************************************)
\* What a row is about; the worker never changes it.
SameWork(new, old) ==
    /\ new.update = old.update /\ new.kind = old.kind /\ new.challenge = old.challenge
    /\ new.text = old.text /\ new.messages = old.messages

\* An alert about a row that could not be sent.
AlertRow(row) ==
    /\ Untried(row) /\ row.kind = "OWNER" /\ row.text \in Alerts
    /\ \E j \in DOMAIN outbox : row.update = outbox[j].update

\* Every row names the prompt of its own challenge.
PromptRows == \A i \in DOMAIN outbox : PromptRow(outbox[i])

Final == {"SUCCEEDED", "UNCERTAIN", "PERMANENT_FAILURE"}

\* A settlement gives the row its status back unclaimed, and may raise an alert.
LEMMA SettledRows ==
    ASSUME StoreTypeOK, disp.row \in DOMAIN outbox, NEW status \in Final \cup {"RETRY"},
           NEW text \in Alerts,
           outbox' = Settled(status) \/ outbox' = Settled(status) \o Alert(text)
    PROVE  /\ outbox' \in Seq(OutboxRow) /\ DOMAIN outbox \subseteq DOMAIN outbox'
           /\ \A k \in DOMAIN outbox : k # disp.row => outbox'[k] = outbox[k]
           /\ outbox'[disp.row] = [Held EXCEPT !.status = status, !.claimed = FALSE]
           /\ \A k \in DOMAIN outbox' : k \notin DOMAIN outbox => AlertRow(outbox'[k])
  <1> DEFINE s == Settled(status)
             n == [Held EXCEPT !.status = status, !.claimed = FALSE]
  <1>t. outbox \in Seq(OutboxRow) /\ DOMAIN outbox = 1..Len(outbox) /\ Len(outbox) \in Nat
        /\ Held \in OutboxRow
    BY LenProperties DEF StoreTypeOK, Held
  <1>n. n \in OutboxRow
    BY <1>t DEF OutboxRow, Final, Live
  <1>1. s = [outbox EXCEPT ![disp.row] = n]
    BY <1>t DEF Settled, Held, OutboxRow
  <1> HIDE DEF n
  <1>2. /\ s \in Seq(OutboxRow) /\ DOMAIN s = DOMAIN outbox
        /\ \A k \in DOMAIN outbox : s[k] = IF k = disp.row THEN n ELSE outbox[k]
    BY <1>1, <1>t, <1>n
  <1> HIDE DEF s
  <1>3. CASE outbox' = s
    BY <1>2, <1>3 DEF n
  <1>4. CASE outbox' = s \o Alert(text)
    <2> DEFINE p == Row(Held.update, "OWNER", 0, text, {})
               a == Alert(text)
    <2>1. p \in OutboxRow
      <3>1. Held.update \in Update
        BY <1>t DEF OutboxRow
      <3>2. text \in Text /\ "OWNER" \in Kind /\ "OWNER" # "DELETE"
        BY DEF Text, Alerts, Kind
      <3> QED
        BY <3>1, <3>2, NoRows, PlainRow
    <2>2. AlertRow(p)
      BY DEF AlertRow, Row, Untried, Held
    <2>3. a = <<>> \/ a = <<p>>
      BY DEF Alert
    <2> HIDE DEF p, a
    <2>4. a \in Seq(OutboxRow) /\ \A i \in DOMAIN a : a[i] = p
      <3>1. CASE a = <<>>
        BY <3>1, NoRows
      <3>2. CASE a = <<p>>
        <4>1. <<p>> \in Seq(OutboxRow) /\ DOMAIN <<p>> = {1} /\ <<p>>[1] = p
          BY <2>1
        <4> QED
          BY <3>2, <4>1
      <3> QED
        BY <2>3, <3>1, <3>2
    <2>5. outbox' = s \o a
      BY <1>4 DEF a
    <2>6. /\ s \o a \in Seq(OutboxRow)
          /\ \A k \in DOMAIN (s \o a) :
                \/ k \in DOMAIN s /\ (s \o a)[k] = s[k]
                \/ k \notin DOMAIN s /\ (s \o a)[k] = p
      BY <1>2, <2>4, Appended
    <2>7. DOMAIN s \subseteq DOMAIN (s \o a)
      <3>1. DOMAIN (s \o a) = 1..(Len(s) + Len(a)) /\ Len(s) \in Nat /\ Len(a) \in Nat
            /\ DOMAIN s = 1..Len(s)
        BY <1>2, <2>4, ConcatProperties, LenProperties
      <3> QED
        BY <3>1
    <2> QED
      BY <1>2, <2>2, <2>5, <2>6, <2>7 DEF n
  <1> QED
    BY <1>3, <1>4 DEF s

\* Claiming a row marks it, and counts the attempt if it was not marked yet.
LEMMA ClaimedRows ==
    ASSUME StoreTypeOK, NEW i \in DOMAIN outbox, outbox' = MarkClaimed(i)
    PROVE  /\ outbox' \in Seq(OutboxRow) /\ DOMAIN outbox' = DOMAIN outbox
           /\ \A k \in DOMAIN outbox : k # i => outbox'[k] = outbox[k]
           /\ outbox'[i] = [outbox[i] EXCEPT !.claimed = TRUE,
                               !.attempts = IF outbox[i].claimed THEN @ ELSE @ + 1]
  <1> DEFINE n == [outbox[i] EXCEPT !.claimed = TRUE,
                      !.attempts = IF outbox[i].claimed THEN @ ELSE @ + 1]
  <1>t. outbox \in Seq(OutboxRow) /\ DOMAIN outbox = 1..Len(outbox) /\ Len(outbox) \in Nat
        /\ outbox[i] \in OutboxRow
    BY LenProperties DEF StoreTypeOK
  <1>a. PICK at \in Nat : at = IF outbox[i].claimed THEN outbox[i].attempts ELSE outbox[i].attempts + 1
    BY <1>t DEF OutboxRow
  <1>b. n = [outbox[i] EXCEPT !.claimed = TRUE, !.attempts = at]
    BY <1>t, <1>a DEF OutboxRow
  <1>1. outbox' = [outbox EXCEPT ![i] = n]
    BY <1>t DEF MarkClaimed, OutboxRow
  <1> HIDE DEF n
  <1>n. n \in OutboxRow
    BY <1>t, <1>a, <1>b DEF OutboxRow
  <1>2. /\ outbox' \in Seq(OutboxRow) /\ DOMAIN outbox' = DOMAIN outbox
        /\ \A k \in DOMAIN outbox : outbox'[k] = IF k = i THEN n ELSE outbox[k]
    BY <1>1, <1>t, <1>n
  <1> QED
    BY <1>2 DEF n

\* mark_challenge_sent and mark_challenge_uncertain change neither whether a
\* challenge is there nor whether it is open.
MarksOnly ==
    /\ challenge' \in [Update -> OpenStatus \cup {"NONE", "CLOSED"}]
    /\ \A x \in Update : /\ challenge'[x] = "NONE" <=> challenge[x] = "NONE"
                         /\ challenge'[x] = "CLOSED" <=> challenge[x] = "CLOSED"
                         /\ challenge'[x] \in OpenStatus <=> challenge[x] \in OpenStatus

\* What the two of them write.
LEMMA MarkingOnly ==
    ASSUME StoreTypeOK,
           challenge' = challenge \/ \E status \in {"SENT", "UNCERTAIN"} : \E c :
                                        challenge' = MarkChallenge(status, c)
    PROVE  MarksOnly
  <1>1. CASE challenge' = challenge
    BY <1>1 DEF MarksOnly, StoreTypeOK
  <1>2. ASSUME NEW status \in {"SENT", "UNCERTAIN"}, NEW c, challenge' = MarkChallenge(status, c)
        PROVE  MarksOnly
    BY <1>2 DEF MarksOnly, StoreTypeOK, MarkChallenge, OpenStatus
  <1> QED
    BY <1>1, <1>2

\* The frame of an outbox step.
LEMMA OutFrame ==
    ASSUME StoreTypeOK, OutTypeOK, PromptRows, OutStep
    PROVE  /\ UNCHANGED <<conversation, ledger, attempts, lapsed, processed, facts>>
           /\ UNCHANGED <<global, trust, rights>>
           /\ MarksOnly
           /\ prompt' = prompt \/ \E x \in Update : prompt' = prompt \cup {x}
           /\ mode' \in {mode, "DRY_RUN"} /\ enabled' \in {enabled, FALSE}
           /\ outbox' \in Seq(OutboxRow) /\ DOMAIN outbox \subseteq DOMAIN outbox'
           /\ \A k \in DOMAIN outbox : SameWork(outbox'[k], outbox[k])
           /\ \A k \in DOMAIN outbox' : k \notin DOMAIN outbox => AlertRow(outbox'[k])
  <1>t. outbox \in Seq(OutboxRow) /\ \A k \in DOMAIN outbox : outbox[k] \in OutboxRow
    BY DEF StoreTypeOK
  <1>a. "challenge_send_uncertain" \in Alerts /\ "business_rights_unavailable" \in Alerts
    BY DEF Alerts
  <1>w. \A row \in OutboxRow :
           /\ SameWork(row, row)
           /\ \A st : SameWork([row EXCEPT !.status = st, !.claimed = FALSE], row)
           /\ \A at : SameWork([row EXCEPT !.claimed = TRUE, !.attempts = at], row)
    BY DEF SameWork, OutboxRow
  <1>h. Settling => disp.row \in DOMAIN outbox /\ Held \in OutboxRow
    BY <1>t DEF Settling, OutTypeOK, Held
  <1>s. ASSUME NEW status \in Final \cup {"RETRY"}, NEW text \in Alerts, Settling,
               outbox' = Settled(status) \/ outbox' = Settled(status) \o Alert(text)
        PROVE  /\ outbox' \in Seq(OutboxRow) /\ DOMAIN outbox \subseteq DOMAIN outbox'
               /\ \A k \in DOMAIN outbox : SameWork(outbox'[k], outbox[k])
               /\ \A k \in DOMAIN outbox' : k \notin DOMAIN outbox => AlertRow(outbox'[k])
    <2>1. /\ outbox' \in Seq(OutboxRow) /\ DOMAIN outbox \subseteq DOMAIN outbox'
          /\ \A k \in DOMAIN outbox : k # disp.row => outbox'[k] = outbox[k]
          /\ outbox'[disp.row] = [Held EXCEPT !.status = status, !.claimed = FALSE]
          /\ \A k \in DOMAIN outbox' : k \notin DOMAIN outbox => AlertRow(outbox'[k])
      BY <1>s, <1>h, SettledRows
    <2>2. SameWork([Held EXCEPT !.status = status, !.claimed = FALSE], Held)
      BY <1>s, <1>h, <1>w
    <2>3. \A k \in DOMAIN outbox : k # disp.row => SameWork(outbox'[k], outbox[k])
      BY <2>1, <1>t, <1>w
    <2>4. \A k \in DOMAIN outbox : SameWork(outbox'[k], outbox[k])
      BY <2>1, <2>2, <2>3 DEF Held
    <2> QED
      BY <2>1, <2>4
  <1>o. UNCHANGED outbox =>
               /\ outbox' \in Seq(OutboxRow) /\ DOMAIN outbox \subseteq DOMAIN outbox'
               /\ \A k \in DOMAIN outbox : SameWork(outbox'[k], outbox[k])
               /\ \A k \in DOMAIN outbox' : k \notin DOMAIN outbox => AlertRow(outbox'[k])
    BY <1>t, <1>w
  <1>1. ASSUME NEW i \in DOMAIN outbox, Claim(i)
        PROVE  /\ outbox' \in Seq(OutboxRow) /\ DOMAIN outbox \subseteq DOMAIN outbox'
               /\ \A k \in DOMAIN outbox : SameWork(outbox'[k], outbox[k])
               /\ \A k \in DOMAIN outbox' : k \notin DOMAIN outbox => AlertRow(outbox'[k])
    <2>1. /\ outbox' \in Seq(OutboxRow) /\ DOMAIN outbox' = DOMAIN outbox
          /\ \A k \in DOMAIN outbox : k # i => outbox'[k] = outbox[k]
          /\ outbox'[i] = [outbox[i] EXCEPT !.claimed = TRUE,
                             !.attempts = IF outbox[i].claimed THEN @ ELSE @ + 1]
      BY <1>1, ClaimedRows DEF Claim
    <2>2. PICK at : outbox'[i] = [outbox[i] EXCEPT !.claimed = TRUE, !.attempts = at]
      BY <2>1
    <2>3. SameWork(outbox'[i], outbox[i])
      BY <2>2, <1>t, <1>w
    <2>4. \A k \in DOMAIN outbox : k # i => SameWork(outbox'[k], outbox[k])
      BY <2>1, <1>t, <1>w
    <2> QED
      BY <2>1, <2>3, <2>4
  <1>2. ASSUME NEW i \in DOMAIN outbox, Claim(i)
        PROVE  UNCHANGED <<lifecycle, inbox, mode, connection>>
    BY <1>2 DEF Claim
  <1>3. CASE EnsureRight \/ LoadChallenge \/ SettlementFails \/ \E reply \in Reply : Call(reply)
    BY <1>3, <1>o, MarkingOnly DEF EnsureRight, LoadChallenge, SettlementFails, Call, storeVars, lifecycle,
                      inbox, connection
  <1>4. CASE FinishSuccess
    <2>1. prompt' = prompt \/ \E x \in Update : prompt' = prompt \cup {x}
      <3>1. CASE Held.kind = "SEND_CHALLENGE"
        <4>1. Held.challenge = Held.update /\ Held.update \in Update
          BY <1>4, <1>h, <3>1 DEF FinishSuccess, PromptRows, PromptRow, Held, OutboxRow
        <4> QED
          BY <1>4, <3>1, <4>1 DEF FinishSuccess
      <3>2. CASE Held.kind # "SEND_CHALLENGE"
        BY <1>4, <3>2 DEF FinishSuccess
      <3> QED
        BY <3>1, <3>2
    <2>2. MarksOnly
      BY <1>4, MarkingOnly DEF FinishSuccess
    <2> QED
      BY <1>4, <1>s, <1>a, <2>1, <2>2 DEF FinishSuccess, inbox, connection, Final
  <1>5. CASE FinishUncertain
    <2>1. MarksOnly
      BY <1>5, MarkingOnly DEF FinishUncertain
    <2> QED
      BY <1>5, <1>s, <1>a, <2>1 DEF FinishUncertain, inbox, connection, Final
  <1>6. CASE FinishPermanent
    <2>1. MarksOnly
      BY <1>6, MarkingOnly DEF FinishPermanent, lifecycle
    <2> QED
      BY <1>6, <1>s, <1>a, <2>1 DEF FinishPermanent, lifecycle, inbox, Final
  <1>7. CASE ScheduleRetry
    <2>1. MarksOnly
      BY <1>7, MarkingOnly DEF ScheduleRetry, lifecycle
    <2> QED
      BY <1>7, <1>s, <1>a, <2>1 DEF ScheduleRetry, lifecycle, inbox, connection
  <1>8. CASE \E i \in DOMAIN outbox : Claim(i)
    <2>1. MarksOnly
      BY <1>8, <1>2, MarkingOnly DEF lifecycle
    <2> QED
      BY <1>8, <1>1, <1>2, <2>1 DEF lifecycle, inbox, connection
  <1> QED
    BY <1>3, <1>4, <1>5, <1>6, <1>7, <1>8 DEF OutStep, Settle

-----------------------------------------------------------------------------
(***************************************************************************)
(* Both workers' memory and the tables.                                    *)
(***************************************************************************)
\* A step of the service is one of the processing worker, a crash included,
\* or one of the outbox worker.
LEMMA ServiceSteps ==
    ASSUME [ServiceNext]_serviceVars
    PROVE  \/ [Next]_vars /\ disp' \in {disp, Waiting} /\ delivered' = delivered
           \/ OutStep /\ UNCHANGED procVars
  <1>1. CASE ProcessingStep
    BY <1>1 DEF ProcessingStep, Next, outVars
  <1>2. CASE OutboxStep
    BY <1>2 DEF OutboxStep
  <1>3. CASE ServiceCrash
    BY <1>3 DEF ServiceCrash, Abandon, Next
  <1>4. CASE DispatchFault
    BY <1>4 DEF DispatchFault, Abandon, vars
  <1>5. CASE UNCHANGED serviceVars
    BY <1>5 DEF serviceVars, outVars, vars
  <1> QED
    BY <1>1, <1>2, <1>3, <1>4, <1>5 DEF ServiceNext

\* How the row in the dispatcher's hands goes on: taken up, let go, or moved
\* one step towards the call and its answer, while the database stays as it is.
Onwards ==
    /\ UNCHANGED storeVars
    /\ disp.pc \notin {"WAITING", "ANSWERED"}
    /\ disp'.row = disp.row /\ disp'.interrupted = disp.interrupted
    /\ \/ disp'.pc = "ANSWERED" /\ disp'.result \in Result
       \/ disp'.pc \in {"PERMITTED", "CALLING"} /\ disp'.result = disp.result
    /\ disp' \in [pc : {"WAITING", "CLAIMED", "PERMITTED", "CALLING", "ANSWERED"},
                  row : Nat, interrupted : BOOLEAN, result : Result]

\* The steps that prepare the call, and the call.
LEMMA MovesOnwards ==
    ASSUME OutTypeOK, EnsureRight \/ LoadChallenge \/ \E reply \in Reply : Call(reply)
    PROVE  Onwards
  <1>t. disp \in [pc : {"WAITING", "CLAIMED", "PERMITTED", "CALLING", "ANSWERED"},
                  row : Nat, interrupted : BOOLEAN, result : Result]
    BY DEF OutTypeOK
  <1>a. ASSUME disp.pc \notin {"WAITING", "ANSWERED"}, UNCHANGED storeVars,
               \/ \E r \in Result : disp' = Answered(r)
               \/ \E pc \in {"PERMITTED", "CALLING"} : disp' = [disp EXCEPT !.pc = pc]
        PROVE  Onwards
    <2>1. CASE \E r \in Result : disp' = Answered(r)
      BY <1>a, <1>t, <2>1 DEF Onwards, Answered
    <2>2. CASE \E pc \in {"PERMITTED", "CALLING"} : disp' = [disp EXCEPT !.pc = pc]
      BY <1>a, <1>t, <2>2 DEF Onwards
    <2> QED
      BY <1>a, <2>1, <2>2
  <1>r. \A r \in Reply \cup {"OK", "RIGHTS_UNAVAILABLE", "UNCERTAIN_PROMPT", "INVALID"} : r \in Result
    BY DEF Result
  <1>1. CASE EnsureRight
    <2>1. disp' \in {Answered("OK"), Answered("RIGHTS_UNAVAILABLE"), [disp EXCEPT !.pc = "CALLING"],
                     [disp EXCEPT !.pc = "PERMITTED"]}
      BY <1>1, Zenon DEF EnsureRight
    <2> QED
      BY <1>1, <1>a, <1>r, <2>1 DEF EnsureRight
  <1>2. CASE LoadChallenge
    <2>1. disp' \in {Answered("INVALID"), Answered("UNCERTAIN_PROMPT"), [disp EXCEPT !.pc = "CALLING"]}
      BY <1>2, Zenon DEF LoadChallenge
    <2> QED
      BY <1>2, <1>a, <1>r, <2>1 DEF LoadChallenge
  <1>3. ASSUME NEW reply \in Reply, Call(reply) PROVE Onwards
    BY <1>3, <1>a, <1>r DEF Call
  <1> QED
    BY <1>1, <1>2, <1>3

\* The outbox worker has no other move.
LEMMA DispatchMoves ==
    ASSUME OutTypeOK, OutStep
    PROVE  \/ \E i \in DOMAIN outbox : Claim(i)
           \/ Onwards
           \/ Settle /\ disp' = Waiting /\ Settling /\ delivered' = delivered
  <1>1. CASE Settle
    BY <1>1 DEF Settle, FinishSuccess, FinishUncertain, FinishPermanent, ScheduleRetry, SettlementFails
  <1> QED
    BY <1>1, MovesOnwards DEF OutStep

\* The invariant of the types.
ServiceTypeInv == TypeOK /\ OutTypeOK /\ PromptRows

\* Both workers start with empty hands on an empty outbox.
LEMMA ServiceTypeInit == ServiceInit => ServiceTypeInv
  <1> SUFFICES ASSUME ServiceInit PROVE ServiceTypeInv
    OBVIOUS
  <1>1. TypeOK
    BY TypeInit DEF ServiceInit, Init
  <1>2. OutTypeOK
    BY DEF ServiceInit, OutInit, OutTypeOK, Waiting, Result
  <1>3. PromptRows
    BY DEF ServiceInit, StoreInit, PromptRows
  <1> QED
    BY <1>1, <1>2, <1>3 DEF ServiceTypeInv

\* A step of the processing worker, beside an outbox worker that keeps its row
\* or lets it go.
LEMMA TypeBeside ==
    ASSUME ServiceTypeInv, [Next]_vars, disp' \in {disp, Waiting}, delivered' = delivered
    PROVE  ServiceTypeInv'
  <1> USE DEF ServiceTypeInv
  <1>1. TypeOK'
    BY TypeStep
  <1>2. PICK u : Grows(outbox', u)
    BY ProcessingGrows
  <1>3. \A k \in DOMAIN outbox : k \in DOMAIN outbox' /\ (outbox[k].claimed => outbox'[k].claimed)
    <2> SUFFICES ASSUME NEW k \in DOMAIN outbox
                 PROVE  k \in DOMAIN outbox' /\ (outbox[k].claimed => outbox'[k].claimed)
      OBVIOUS
    <2>1. outbox[k] \in OutboxRow /\ k \in DOMAIN outbox'
          /\ (outbox'[k] = outbox[k] \/ Removed(outbox'[k], outbox[k]))
      BY <1>2 DEF Grows, TypeOK, StoreTypeOK
    <2> QED
      BY <2>1 DEF Removed, OutboxRow
  <1>4. OutTypeOK'
    <2>1. CASE disp' = disp
      BY <1>3, <2>1 DEF OutTypeOK, Held
    <2>2. CASE disp' = Waiting
      BY <2>2 DEF OutTypeOK, Waiting, Result
    <2> QED
      BY <2>1, <2>2
  <1>5. PromptRows'
    <2> SUFFICES ASSUME NEW k \in DOMAIN outbox' PROVE PromptRow(outbox'[k])
      BY DEF PromptRows
    <2>1. CASE k \in DOMAIN outbox
      <3>1. outbox[k] \in OutboxRow /\ PromptRow(outbox[k])
            /\ (outbox'[k] = outbox[k] \/ Removed(outbox'[k], outbox[k]))
        BY <1>2, <2>1 DEF Grows, TypeOK, StoreTypeOK, PromptRows
      <3> QED
        BY <3>1 DEF Removed, OutboxRow, PromptRow
    <2>2. CASE k \notin DOMAIN outbox
      BY <1>2, <2>2 DEF Grows
    <2> QED
      BY <2>1, <2>2
  <1> QED
    BY <1>1, <1>4, <1>5

\* A step of the outbox worker.
LEMMA TypeOut ==
    ASSUME ServiceTypeInv, OutStep, UNCHANGED procVars
    PROVE  ServiceTypeInv'
  <1> USE DEF ServiceTypeInv
  <1>f. /\ UNCHANGED <<conversation, ledger, attempts, lapsed, processed, facts>>
        /\ UNCHANGED <<global, trust, rights>>
        /\ MarksOnly
        /\ prompt' = prompt \/ \E x \in Update : prompt' = prompt \cup {x}
        /\ mode' \in {mode, "DRY_RUN"} /\ enabled' \in {enabled, FALSE}
        /\ outbox' \in Seq(OutboxRow) /\ DOMAIN outbox \subseteq DOMAIN outbox'
        /\ \A k \in DOMAIN outbox : SameWork(outbox'[k], outbox[k])
        /\ \A k \in DOMAIN outbox' : k \notin DOMAIN outbox => AlertRow(outbox'[k])
    BY OutFrame DEF TypeOK
  <1>1. TypeOK'
    <2>1. StoreTypeOK'
      BY <1>f DEF TypeOK, StoreTypeOK, MarksOnly
    <2> QED
      BY <2>1 DEF TypeOK, procVars
  <1>2. PromptRows'
    <2> SUFFICES ASSUME NEW k \in DOMAIN outbox' PROVE PromptRow(outbox'[k])
      BY DEF PromptRows
    <2>1. CASE k \in DOMAIN outbox
      BY <1>f, <2>1 DEF PromptRows, PromptRow, SameWork
    <2>2. CASE k \notin DOMAIN outbox
      BY <1>f, <2>2 DEF AlertRow, PromptRow
    <2> QED
      BY <2>1, <2>2
  <1>3. delivered' \in [Update -> Seq(Result)]
    <2>1. CASE delivered' = delivered
      BY <2>1 DEF OutTypeOK
    <2>2. ASSUME NEW reply \in Reply, NEW x,
                 delivered' = [delivered EXCEPT ![x] = Append(@, reply)]
          PROVE  delivered' \in [Update -> Seq(Result)]
      <3>1. delivered \in [Update -> Seq(Result)] /\ reply \in Result
        BY DEF OutTypeOK, Result
      <3>2. \A y \in Update : Append(delivered[y], reply) \in Seq(Result)
        BY <3>1
      <3> QED
        BY <2>2, <3>1, <3>2
    <2>3. \A i : Claim(i) => delivered' = delivered
      BY DEF Claim
    <2>4. EnsureRight \/ LoadChallenge \/ Settle => delivered' = delivered
      BY DEF EnsureRight, LoadChallenge, Settle, FinishSuccess, FinishUncertain, FinishPermanent,
             ScheduleRetry, SettlementFails
    <2>5. \A reply : Call(reply) =>
             delivered' = delivered \/ \E x : delivered' = [delivered EXCEPT ![x] = Append(@, reply)]
      BY DEF Call
    <2> QED
      BY <2>1, <2>2, <2>3, <2>4, <2>5 DEF OutStep
  <1>4. OutTypeOK'
    <2>1. ASSUME NEW i \in DOMAIN outbox, Claim(i) PROVE OutTypeOK'
      <3>1. /\ DOMAIN outbox' = DOMAIN outbox
            /\ outbox'[i] = [outbox[i] EXCEPT !.claimed = TRUE,
                                !.attempts = IF outbox[i].claimed THEN @ ELSE @ + 1]
        BY <2>1, ClaimedRows DEF Claim, TypeOK
      <3>2. outbox[i] \in OutboxRow /\ i \in Nat
        BY LenProperties DEF TypeOK, StoreTypeOK
      <3>3. outbox'[i].claimed
        BY <3>1, <3>2 DEF OutboxRow
      <3>4. disp' = [pc |-> "CLAIMED", row |-> i, interrupted |-> outbox[i].claimed, result |-> "NONE"]
            /\ outbox[i].claimed \in BOOLEAN
        BY <2>1, <3>2 DEF Claim, Waiting, OutboxRow
      <3> QED
        BY <1>3, <3>1, <3>2, <3>3, <3>4 DEF OutTypeOK, Held, Result
    <2>2. CASE Onwards
      BY <1>3, <2>2 DEF OutTypeOK, Onwards, Held, storeVars
    <2>3. CASE disp' = Waiting
      BY <1>3, <2>3 DEF OutTypeOK, Waiting, Result
    <2> QED
      BY <2>1, <2>2, <2>3, DispatchMoves
  <1> QED
    BY <1>1, <1>2, <1>4

\* The types are kept by every step of the service.
LEMMA ServiceTypeStep == ServiceTypeInv /\ [ServiceNext]_serviceVars => ServiceTypeInv'
  BY ServiceSteps, TypeBeside, TypeOut

\* Both workers' memory and the tables have their types, under every fault; a
\* row in the dispatcher's hands is marked as claimed in the database, so that
\* after a crash it is told from a row never tried.
THEOREM ServiceTypeCorrect == ServiceSpec => []ServiceTypeOK
  <1>1. ServiceTypeInv => ServiceTypeOK
    BY DEF ServiceTypeInv, ServiceTypeOK
  <1> QED
    BY <1>1, ServiceTypeInit, ServiceTypeStep, PTL DEF ServiceSpec

-----------------------------------------------------------------------------
(***************************************************************************)
(* Retries.  An attempt is counted when an unclaimed row is claimed, so    *)
(* the count of a row tells with its status and its claim how often it can *)
(* still be taken up; a crash leaves the claim, and the count, behind.     *)
(***************************************************************************)
RowBudget(row) ==
    /\ row.attempts <= MaxRetries + 1
    /\ row.claimed => row.attempts >= 1
    /\ row.status = "PENDING" /\ ~row.claimed => row.attempts = 0
    /\ row.status = "RETRY" /\ ~row.claimed => row.attempts \in 1..MaxRetries
Budgets == \A i \in DOMAIN outbox : RowBudget(outbox[i])

\* What a settlement makes of the row in hand, and of no other.
SettledAs(status) ==
    /\ disp.row \in DOMAIN outbox
    /\ \A k \in DOMAIN outbox : k # disp.row => outbox'[k] = outbox[k]
    /\ outbox'[disp.row] = [Held EXCEPT !.status = status, !.claimed = FALSE]
    /\ \A k \in DOMAIN outbox' : k \notin DOMAIN outbox => AlertRow(outbox'[k])

\* Every settlement is of one of five forms.
LEMMA SettleForms ==
    ASSUME TypeOK, OutTypeOK, Settle
    PROVE  \/ UNCHANGED storeVars
           \/ SettledAs("SUCCEEDED") /\ FinishSuccess
           \/ SettledAs("UNCERTAIN") /\ FinishUncertain
           \/ SettledAs("PERMANENT_FAILURE") /\ FinishPermanent
           \/ SettledAs("RETRY") /\ ScheduleRetry
  <1>h. Settling => disp.row \in DOMAIN outbox
    BY DEF Settling, OutTypeOK
  <1>a. "challenge_send_uncertain" \in Alerts /\ "business_rights_unavailable" \in Alerts
    BY DEF Alerts
  <1>s. ASSUME NEW status \in Final \cup {"RETRY"}, NEW text \in Alerts, Settling,
               outbox' = Settled(status) \/ outbox' = Settled(status) \o Alert(text)
        PROVE  SettledAs(status)
    BY <1>s, <1>h, SettledRows DEF SettledAs, TypeOK
  <1>1. CASE FinishSuccess
    BY <1>1, <1>s, <1>a DEF FinishSuccess, Final
  <1>2. CASE FinishUncertain
    BY <1>2, <1>s, <1>a DEF FinishUncertain, Final
  <1>3. CASE FinishPermanent
    BY <1>3, <1>s, <1>a DEF FinishPermanent, Final
  <1>4. CASE ScheduleRetry
    BY <1>4, <1>s, <1>a DEF ScheduleRetry
  <1>5. CASE SettlementFails
    BY <1>5 DEF SettlementFails
  <1> QED
    BY <1>1, <1>2, <1>3, <1>4, <1>5 DEF Settle

\* An untried row has its whole budget.
LEMMA UntriedBudget ==
    ASSUME NEW row \in OutboxRow, Untried(row)
    PROVE  RowBudget(row)
  BY RetryAssumption DEF Untried, RowBudget, OutboxRow

\* Removing a row takes nothing from its budget.
LEMMA RemovedBudget ==
    ASSUME NEW row \in OutboxRow, NEW new, Removed(new, row), RowBudget(row)
    PROVE  RowBudget(new)
  BY RetryAssumption DEF Removed, RowBudget, OutboxRow

\* A row that may be claimed has an attempt left.
LEMMA ClaimBudget ==
    ASSUME NEW row \in OutboxRow, row.status \in Live, RowBudget(row),
           NEW new, new = [row EXCEPT !.claimed = TRUE,
                              !.attempts = IF row.claimed THEN @ ELSE @ + 1]
    PROVE  RowBudget(new)
  <1>1. row.attempts \in Nat /\ row.claimed \in BOOLEAN
    BY DEF OutboxRow
  <1>2. CASE row.claimed
    <2>1. new.attempts = row.attempts /\ new.claimed
      BY <1>2 DEF OutboxRow
    <2> QED
      BY <1>1, <1>2, <2>1 DEF RowBudget
  <1>3. CASE ~row.claimed
    <2>1. new.attempts = row.attempts + 1 /\ new.claimed
      BY <1>3 DEF OutboxRow
    <2>2. row.attempts \in 0..MaxRetries
      BY <1>1, <1>3, RetryAssumption DEF RowBudget, Live
    <2> QED
      BY <2>1, <2>2, RetryAssumption DEF RowBudget
  <1> QED
    BY <1>1, <1>2, <1>3

\* A row is given back for a retry only with an attempt left.
LEMMA SettleBudget ==
    ASSUME NEW row \in OutboxRow, row.claimed, RowBudget(row),
           NEW status \in Final \cup {"RETRY"}, status = "RETRY" => row.attempts <= MaxRetries,
           NEW new, new = [row EXCEPT !.status = status, !.claimed = FALSE]
    PROVE  RowBudget(new)
  <1>1. new.attempts = row.attempts /\ ~new.claimed /\ new.status = status /\ row.attempts \in Nat
    BY DEF OutboxRow
  <1>2. row.attempts >= 1 /\ row.attempts <= MaxRetries + 1
    BY DEF RowBudget
  <1> QED
    BY <1>1, <1>2, RetryAssumption DEF RowBudget, Final

\* Every step of the service keeps within the budgets.
LEMMA BudgetStep ==
    ASSUME ServiceTypeInv, ServiceTypeInv', Budgets, [ServiceNext]_serviceVars
    PROVE  Budgets'
  <1> USE DEF ServiceTypeInv
  <1>t. /\ \A k \in DOMAIN outbox : outbox[k] \in OutboxRow
        /\ \A k \in DOMAIN outbox' : outbox'[k] \in OutboxRow
    BY DEF TypeOK, StoreTypeOK
  <1>q. UNCHANGED outbox => Budgets'
    BY DEF Budgets
  <1>1. CASE [Next]_vars
    <2>1. PICK u : Grows(outbox', u)
      BY <1>1, ProcessingGrows
    <2> SUFFICES ASSUME NEW k \in DOMAIN outbox' PROVE RowBudget(outbox'[k])
      BY DEF Budgets
    <2>2. CASE k \in DOMAIN outbox
      BY <1>t, <2>1, <2>2, RemovedBudget DEF Grows, Budgets
    <2>3. CASE k \notin DOMAIN outbox
      BY <1>t, <2>1, <2>3, UntriedBudget DEF Grows
    <2> QED
      BY <2>2, <2>3
  <1>2. ASSUME NEW i \in DOMAIN outbox, Claim(i) PROVE Budgets'
    <2>1. /\ DOMAIN outbox' = DOMAIN outbox
          /\ \A k \in DOMAIN outbox : k # i => outbox'[k] = outbox[k]
          /\ outbox'[i] = [outbox[i] EXCEPT !.claimed = TRUE,
                             !.attempts = IF outbox[i].claimed THEN @ ELSE @ + 1]
      BY <1>2, ClaimedRows DEF Claim, TypeOK
    <2>2. RowBudget(outbox'[i])
      <3>1. outbox[i] \in OutboxRow /\ outbox[i].status \in Live /\ RowBudget(outbox[i])
        BY <1>t, <1>2 DEF Claim, Eligible, Budgets
      <3> QED
        BY <2>1, <3>1, ClaimBudget
    <2> QED
      BY <2>1, <2>2 DEF Budgets
  <1>3. ASSUME NEW status \in Final \cup {"RETRY"}, SettledAs(status),
               status = "RETRY" => Held.attempts <= MaxRetries, Settling
        PROVE  Budgets'
    <2>1. Held \in OutboxRow /\ Held.claimed /\ RowBudget(Held)
      BY <1>t, <1>3 DEF Settling, OutTypeOK, Budgets, Held
    <2>2. RowBudget(outbox'[disp.row])
      BY <1>3, <2>1, SettleBudget DEF SettledAs
    <2>3. \A k \in DOMAIN outbox' : k \notin DOMAIN outbox => RowBudget(outbox'[k])
      BY <1>t, <1>3, UntriedBudget DEF SettledAs, AlertRow
    <2> QED
      BY <1>3, <2>2, <2>3 DEF Budgets, SettledAs
  <1>4. CASE Settle /\ Settling
    <2>1. CASE SettledAs("RETRY") /\ ScheduleRetry
      BY <1>3, <1>4, <2>1 DEF ScheduleRetry, RetryLeft
    <2>2. ASSUME NEW status \in Final, SettledAs(status) PROVE Budgets'
      <3>1. status # "RETRY"
        BY DEF Final
      <3> QED
        BY <1>3, <1>4, <2>2, <3>1
    <2> QED
      BY <1>4, <1>q, <2>1, <2>2, SettleForms DEF Final, storeVars
  <1>5. CASE Onwards
    BY <1>5, <1>q DEF Onwards, storeVars
  <1> QED
    BY <1>1, <1>2, <1>4, <1>5, ServiceSteps, DispatchMoves

\* A row is tried once and retried at most RETRY_SECONDS.len() times, however
\* often the outbox worker is interrupted: the delay table is never overrun.
THEOREM RetryBudgetKept == ServiceSpec => []RetryBudget
  <1>1. ServiceInit => Budgets
    BY DEF ServiceInit, StoreInit, Budgets
  <1>2. Budgets => RetryBudget
    BY DEF Budgets, RowBudget, RetryBudget
  <1> QED
    BY <1>1, <1>2, BudgetStep, ServiceTypeInit, ServiceTypeStep, PTL DEF ServiceSpec

-----------------------------------------------------------------------------
(***************************************************************************)
(* What is proved of the processing worker holds of the service: the       *)
(* outbox worker changes neither the inbox nor the conversations, opens    *)
(* and closes no challenge, and the keys of its alerts may repeat.         *)
(***************************************************************************)
\* What an outbox step leaves as it is, for the invariants below.
LEMMA OutKeeps ==
    ASSUME ServiceTypeInv, OutStep, UNCHANGED procVars
    PROVE  /\ UNCHANGED <<conversation, ledger, attempts, processed, facts, trust, task, phase>>
           /\ InboxForward
           /\ MarksOnly
           /\ \A x \in Update : IsOpen(x)' <=> IsOpen(x)
           /\ \A c : OpenChallenges(c)' = OpenChallenges(c)
           /\ \A x : WrongAnswers(x)' = WrongAnswers(x)
  <1>1. /\ UNCHANGED <<conversation, ledger, attempts, processed, facts, trust, task, phase>>
        /\ MarksOnly
    BY OutFrame DEF ServiceTypeInv, TypeOK, procVars
  <1>2. InboxForward /\ \A x : WrongAnswers(x)' = WrongAnswers(x)
    BY <1>1 DEF InboxForward, WrongAnswers
  <1>3. \A x \in Update : IsOpen(x)' <=> IsOpen(x)
    BY <1>1 DEF MarksOnly, IsOpen
  <1>4. \A c : OpenChallenges(c)' = OpenChallenges(c)
    BY <1>3 DEF OpenChallenges
  <1> QED
    BY <1>1, <1>2, <1>3, <1>4

\* The inbox and the effects, under every fault.
LEMMA EffectsOut ==
    ASSUME ServiceTypeInv, ServiceTypeInv', EffectsInv, OutStep, UNCHANGED procVars
    PROVE  EffectsInv'
  <1> USE DEF EffectsInv, InboxInv
  <1>o. /\ UNCHANGED <<conversation, attempts, processed, facts, task>>
        /\ InboxForward /\ MarksOnly
        /\ \A x \in Update : IsOpen(x)' <=> IsOpen(x)
        /\ \A c : OpenChallenges(c)' = OpenChallenges(c)
        /\ \A x : WrongAnswers(x)' = WrongAnswers(x)
    BY OutKeeps
  <1>f. /\ outbox \in Seq(OutboxRow)
        /\ \A k \in DOMAIN outbox : SameWork(outbox'[k], outbox[k])
        /\ \A k \in DOMAIN outbox' : k \notin DOMAIN outbox => AlertRow(outbox'[k])
    BY OutFrame DEF ServiceTypeInv, TypeOK, StoreTypeOK
  <1>1. InHand' /\ References'
    <2>1. InHand'
      BY <1>o DEF InHand
    <2> QED
      BY <1>o, <2>1, ReferencesKept
  <1>2. ChallengesBorn'
    BY <1>o DEF ChallengesBorn, MarksOnly
  <1>3. PendingHasChallenge'
    BY <1>o DEF PendingHasChallenge
  <1>4. AttemptsAccounted'
    BY <1>o DEF AttemptsAccounted, MarksOnly
  <1>k. \A k \in DOMAIN outbox : SameKey(outbox'[k], outbox[k])
    BY <1>f DEF SameWork, SameKey
  <1>5. RowsKeyed'
    <2>1. \A k \in DOMAIN outbox' : k \notin DOMAIN outbox =>
             processed'[outbox'[k].update] = "APPLIED" /\ outbox'[k].kind # "EDIT_CHALLENGE"
      BY <1>f, <1>o DEF AlertRow, RowsKeyed
    <2> QED
      BY <1>f, <1>o, <1>k, <2>1, RowsKeyedKept
  <1>6. EffectsOnce'
    <2> SUFFICES ASSUME NEW i \in DOMAIN outbox', NEW j \in DOMAIN outbox', i # j,
                        SameKey(outbox'[i], outbox'[j])
                 PROVE  outbox'[i].text \in Alerts
      BY DEF EffectsOnce, SameKey
    <2>1. CASE i \in DOMAIN outbox /\ j \in DOMAIN outbox
      BY <1>k, <2>1 DEF SameKey, EffectsOnce
    <2>2. CASE i \notin DOMAIN outbox \/ j \notin DOMAIN outbox
      BY <1>f, <2>2 DEF AlertRow, SameKey
    <2> QED
      BY <2>1, <2>2
  <1> QED
    BY <1>1, <1>2, <1>3, <1>4, <1>5, <1>6 DEF ServiceTypeInv

\* One event in flight, still fresh.
LEMMA LifecycleOut ==
    ASSUME ServiceTypeInv, ServiceTypeInv', LifecycleInv, OutStep, UNCHANGED procVars
    PROVE  LifecycleInv'
  <1> USE DEF LifecycleInv
  <1>o. /\ UNCHANGED <<conversation, attempts, processed, facts, trust, task, phase>>
        /\ MarksOnly
        /\ \A x \in Update : IsOpen(x)' <=> IsOpen(x)
        /\ \A c : OpenChallenges(c)' = OpenChallenges(c)
    BY OutKeeps
  <1>1. ChallengeRows'
    BY <1>o DEF ChallengeRows, ChallengeMatchesState, MarksOnly
  <1>2. \A f, u : Fresh(f, u)' <=> Fresh(f, u)
    <2> SUFFICES ASSUME NEW f, NEW u PROVE Fresh(f, u)' <=> Fresh(f, u)
      OBVIOUS
    <2>1. CanConsume(f.challenge)' <=> CanConsume(f.challenge)
      BY <1>o DEF CanConsume
    <2>2. \A c, event : Permits(c, event)' <=> Permits(c, event)
      BY <1>o DEF Permits, StateOf
    <2>3. Applicable(f, u)' <=> Applicable(f, u)
      BY <1>o, <2>1, <2>2 DEF Applicable
    <2> QED
      BY <1>o, <2>3 DEF Fresh, Exhausts
  <1>3. Recoverable' = Recoverable
    BY <1>o DEF Recoverable
  <1>4. OneInFlight'
    <2>1. \A u : Fresh(facts[u], u)' <=> Fresh(facts[u], u)
      BY <1>o, <1>2
    <2>2. Fresh(task.facts, task.update)' <=> Fresh(task.facts, task.update)
      BY <1>o, <1>2
    <2> QED
      BY <1>o, <1>3, <2>1, <2>2 DEF OneInFlight
  <1> QED
    BY <1>1, <1>4 DEF ServiceTypeInv

\* The ledger, and the replies of ACTIVE chats.
LEMMA LedgerOut ==
    ASSUME ServiceTypeInv, ServiceTypeInv', LedgerInv, OutStep, UNCHANGED procVars
    PROVE  LedgerInv' /\ (ReplyInv => ReplyInv')
  <1> USE DEF LedgerInv
  <1>o. /\ UNCHANGED <<conversation, ledger, processed, facts, trust, task, phase>>
        /\ InboxForward
    BY OutKeeps
  <1>f. /\ \A k \in DOMAIN outbox : SameWork(outbox'[k], outbox[k])
        /\ \A k \in DOMAIN outbox' : k \notin DOMAIN outbox => AlertRow(outbox'[k])
    BY OutFrame DEF ServiceTypeInv, TypeOK
  <1>1. LifecycleInv' /\ EffectsInv'
    BY LifecycleOut, EffectsOut
  <1>2. LedgerRows' /\ (ActiveMeansReply => ActiveMeansReply')
    BY <1>o, LedgerKept DEF LifecycleInv
  <1>3. CleanupKnown'
    <2>1. \A k \in DOMAIN outbox' :
              \/ /\ k \in DOMAIN outbox
                 /\ outbox'[k].update = outbox[k].update
                 /\ outbox'[k].kind = outbox[k].kind
                 /\ outbox'[k].messages = outbox[k].messages
              \/ outbox'[k].kind # "DELETE"
      BY <1>f DEF SameWork, AlertRow
    <2> QED
      BY <1>o, <2>1, CleanupKept DEF LifecycleInv, EffectsInv
  <1>4. Recoverable' = Recoverable
    BY <1>o DEF Recoverable
  <1>5. \A u : /\ Knows(facts[u], u)' <=> Knows(facts[u], u)
               /\ ReplyKnown(facts[u], u)' <=> ReplyKnown(facts[u], u)
    BY <1>o DEF Knows, ReplyKnown, StateOf
  <1>6. /\ Knows(task.facts, task.update)' <=> Knows(task.facts, task.update)
        /\ ReplyKnown(task.facts, task.update)' <=> ReplyKnown(task.facts, task.update)
    BY <1>o DEF Knows, ReplyKnown, StateOf
  <1>7. MessagesKnown' /\ (RepliesKnown => RepliesKnown')
    BY <1>o, <1>4, <1>5, <1>6 DEF MessagesKnown, RepliesKnown
  <1> QED
    BY <1>1, <1>2, <1>3, <1>7 DEF ReplyInv

\* A contact is not moved by the outbox worker.
LEMMA GateOut ==
    ASSUME ServiceTypeInv, LifecycleInv, LifecycleInv', OutStep, UNCHANGED procVars
    PROVE  UNCHANGED Gate!gateVars
  <1>o. /\ UNCHANGED <<conversation, attempts>>
        /\ \A c : OpenChallenges(c)' = OpenChallenges(c)
    BY OutKeeps
  <1>1. \A d \in Chat : Stays(d)
    <2> SUFFICES ASSUME NEW d \in Chat PROVE Stays(d)
      OBVIOUS
    <2>1. StateOf(d)' = StateOf(d)
      BY <1>o DEF StateOf
    <2>2. ChallengeRows /\ ChallengeRows'
      BY DEF LifecycleInv
    <2>3. CASE OpenChallenges(d) = {}
      BY <1>o, <2>1, <2>2, <2>3, WrongBefore, WrongAfter DEF Stays
    <2>4. CASE OpenChallenges(d) # {}
      <3>1. PICK x \in OpenChallenges(d) : TRUE
        BY <2>4
      <3>2. x \in OpenChallenges(d)'
        BY <1>o, <3>1
      <3>3. WrongOf(d) = attempts[x]
        BY <2>2, <3>1, WrongBefore
      <3>4. WrongOf(d)' = attempts'[x]
        BY <2>2, <3>2, WrongAfter
      <3> QED
        BY <1>o, <2>1, <3>3, <3>4 DEF Stays
    <2> QED
      BY <2>3, <2>4
  <1> QED
    BY <1>1, NoMove

-----------------------------------------------------------------------------
(***************************************************************************)
(* Closed challenges.                                                      *)
(***************************************************************************)
\* What the processing worker does to a challenge that was created: it stays
\* away once it is gone, closed once it is closed, and its prompt is forgotten
\* only with it.
Settles(x) ==
    /\ challenge[x] = "NONE" => challenge'[x] = "NONE"
    /\ challenge[x] = "CLOSED" => challenge'[x] \in {"CLOSED", "NONE"}
    /\ x \in prompt /\ challenge'[x] # "NONE" => x \in prompt'

\* Closing challenges is all that happens to the ones that are there.
LEMMA ClosingSettles ==
    ASSUME NEW cs, challenge' = CloseChallenges(cs), prompt' = prompt
    PROVE  \A x \in Update : Settles(x)
  BY DEF CloseChallenges, Settles, IsOpen, OpenStatus

\* Nor does any other step of the processing worker reopen a challenge.
LEMMA ProcessingSettles ==
    ASSUME InboxInv, [Next]_vars
    PROVE  \A x \in Update : processed[x] = "APPLIED" => Settles(x)
  <1> USE DEF InboxInv
  <1>t. challenge \in [Update -> OpenStatus \cup {"NONE", "CLOSED"}]
        /\ (task.pc # "IDLE" => task.update \in Update)
    BY DEF TypeOK, StoreTypeOK
  <1>q. UNCHANGED <<challenge, prompt>> => \A x \in Update : Settles(x)
    BY DEF Settles
  <1>g. (\A x \in Update : challenge'[x] = "NONE") => \A x \in Update : Settles(x)
    BY DEF Settles
  <1>1. ASSUME NEW u \in Update, ApplyRecorded(u)
        PROVE  \A x \in Update : processed[x] = "APPLIED" => Settles(x)
    <2>1. processed[u] = "RECORDED" /\ prompt' = prompt
      BY <1>1 DEF ApplyRecorded
    <2>2. \/ challenge' = [challenge EXCEPT ![u] = "PENDING"]
          \/ \E cs : challenge' = CloseChallenges(cs)
          \/ challenge' = challenge
      BY <1>1, HandlerWrites DEF References
    <2>3. CASE challenge' = [challenge EXCEPT ![u] = "PENDING"]
      BY <1>t, <2>1, <2>3 DEF Settles
    <2> QED
      BY <1>q, <2>1, <2>2, <2>3, ClosingSettles
  <1>2. CASE Apply \/ Recover
    BY <1>1, <1>2, <1>t DEF Apply, Recover
  <1>3. ASSUME NEW u \in Update, Command(u) PROVE \A x \in Update : Settles(x)
    <2>1. CASE ResetConversation(u)
      <3>1. \A x \in Update : challenge'[x] = IF ChatOf[x] = ChatOf[u] THEN "NONE" ELSE challenge[x]
        BY <2>1 DEF ResetConversation
      <3>2. prompt' = prompt \ {x \in Update : ChatOf[x] = ChatOf[u]}
        BY <2>1 DEF ResetConversation
      <3> QED
        BY <3>1, <3>2 DEF Settles
    <2>2. CASE Unblock(u)
      BY <2>2, ClosingSettles DEF Unblock
    <2>3. CASE OtherCommand(u) \/ \E on \in BOOLEAN : SetDryRun(u, on)
      BY <2>3, <1>q DEF OtherCommand, SetDryRun, lifecycle
    <2> QED
      BY <1>3, <2>1, <2>2, <2>3 DEF Command
  <1>4. ASSUME NEW blocks, ExpireDueState(blocks) PROVE \A x \in Update : Settles(x)
    BY <1>4, ClosingSettles DEF ExpireDueState
  <1>5. ASSUME NEW u \in Update,
               Duplicate(u) \/ Redeliver(u) \/ Lapse(u) \/ PurgeHistory(u) \/ RecordTrigger(u)
                  \/ \E e \in Events(u) : Prepare(u, e)
        PROVE  UNCHANGED <<challenge, prompt>>
    BY <1>5 DEF Duplicate, Redeliver, Lapse, PurgeHistory, RecordTrigger, Prepare,
                vars, storeVars, lifecycle
  <1>6. ASSUME NEW on \in BOOLEAN, NEW rs \in RightSets,
               ReconcileStartup(on, rs) \/ \E u \in Update : ReconcileTrigger(u, on, rs)
        PROVE  UNCHANGED <<challenge, prompt>>
    BY <1>6 DEF ReconcileStartup, ReconcileTrigger, lifecycle
  <1>7. ASSUME StartupNotFound \/ \E u \in Update : TriggerNotFound(u)
        PROVE  \A x \in Update : challenge'[x] = "NONE"
    BY <1>7 DEF StartupNotFound, TriggerNotFound, ForgetConnection
  <1>8. CASE \/ Record \/ ApplyRefused \/ StorageFault \/ StartupUnanswered
             \/ PublishReady \/ Restart \/ StartupFails \/ Serve \/ Crash \/ UNCHANGED vars
    BY <1>8, <1>q DEF Record, ApplyRefused, StorageFault, StartupUnanswered,
                      PublishReady, Restart, StartupFails, Serve, Crash, vars, storeVars, lifecycle
  <1> QED
    BY <1>2, <1>3, <1>4, <1>5, <1>6, <1>7, <1>8, <1>q, <1>g DEF Next, ProcStep

\* The effects, with the types of both workers, as one invariant.
ServiceInv == ServiceTypeInv /\ EffectsInv

\* It holds of a freshly migrated database.
LEMMA ServiceInvInit == ServiceInit => ServiceInv
  BY ServiceTypeInit, InboxInit
  DEF ServiceInit, Init, StoreInit, EffectsInv, RowsKeyed, EffectsOnce, ServiceInv

\* And every step of either worker keeps it.
LEMMA ServiceInvStep == ServiceInv /\ [ServiceNext]_serviceVars => ServiceInv'
  BY ServiceTypeStep, ServiceSteps, EffectsStep, EffectsOut DEF ServiceInv

\* Under every fault, the effects of an update reach the outbox once, and a
\* VERIFY_PENDING contact has a challenge to answer, though the outbox worker
\* raises alerts and marks challenges at the same time.
THEOREM ServiceInvariant == ServiceSpec => []ServiceInv
  BY ServiceInvInit, ServiceInvStep, PTL DEF ServiceSpec

\* A closed challenge stays closed, under every fault: its prompt may be
\* delivered, or reported as uncertain, after it was closed, and neither
\* mark_challenge_sent nor mark_challenge_uncertain opens it again.
THEOREM ClosedNeverReopens == ServiceSpec => NeverReopens
  <1> DEFINE Stay == \A x \in Update : challenge[x] = "CLOSED" => challenge'[x] \in {"CLOSED", "NONE"}
  <1>1. ServiceInv /\ [ServiceNext]_serviceVars => Stay
    <2> SUFFICES ASSUME ServiceInv, [ServiceNext]_serviceVars, NEW x \in Update,
                        challenge[x] = "CLOSED"
                 PROVE  challenge'[x] \in {"CLOSED", "NONE"}
      OBVIOUS
    <2>1. CASE [Next]_vars
      <3>1. processed[x] = "APPLIED"
        BY DEF ServiceInv, EffectsInv, InboxInv, ChallengesBorn
      <3> QED
        BY <2>1, <3>1, ProcessingSettles DEF ServiceInv, EffectsInv, Settles
    <2>2. CASE OutStep /\ UNCHANGED procVars
      BY <2>2, OutKeeps DEF ServiceInv, MarksOnly
    <2> QED
      BY <2>1, <2>2, ServiceSteps
  <1>2. ServiceInv /\ [ServiceNext]_serviceVars => [Stay]_serviceVars
    BY <1>1
  <1> QED
    BY <1>2, ServiceInvariant, PTL DEF ServiceSpec, NeverReopens

-----------------------------------------------------------------------------
(***************************************************************************)
(* Prompts.  A prompt Telegram has shown belongs to one row.  A prompt     *)
(* stands when the last call that showed it did not look like a failure.   *)
(* While the row of a prompt that stands can be claimed again it is marked *)
(* as claimed, so whoever claims it knows it was interrupted and reports   *)
(* it instead of sending it again.                                         *)
(***************************************************************************)
Stands(row) ==
    /\ row.kind = "SEND_CHALLENGE"
    /\ delivered[row.challenge] # <<>> /\ ~LooksUnsent(row.challenge)
InHands(i) == disp.pc # "WAITING" /\ disp.row = i

NoAnswerYet == disp.pc # "ANSWERED" => disp.result = "NONE"
ShownHasRow == \A x \in Update : delivered[x] # <<>> => \E i \in DOMAIN outbox : Prompts(i, x)

\* A prompt that stands is not on its way to being sent.
NotAgain(i) ==
    Stands(outbox[i]) =>
        /\ outbox[i].status \in Live => outbox[i].claimed
        /\ InHands(i) => \/ disp.pc = "ANSWERED" /\ disp.result \in {"OK", "TIMEOUT"}
                         \/ disp.pc = "CLAIMED" /\ disp.interrupted

PromptInv ==
    /\ ServiceInv
    /\ NoAnswerYet
    /\ ShownHasRow
    /\ RepeatedOnlyOnFailure
    /\ \A i \in DOMAIN outbox : NotAgain(i)

\* One more answer at the end.
LEMMA OneMore ==
    ASSUME NEW s \in Seq(Result), NEW e \in Result
    PROVE  /\ Append(s, e) # <<>> /\ Len(s) \in Nat
           /\ Len(Append(s, e)) = Len(s) + 1
           /\ Append(s, e)[Len(s) + 1] = e
           /\ \A k \in 1..Len(s) : Append(s, e)[k] = s[k]
           /\ s = <<>> <=> Len(s) = 0
  <1>1. s = <<>> <=> Len(s) = 0
    BY EmptySeq
  <1>2. /\ Len(s) \in Nat /\ Len(Append(s, e)) = Len(s) + 1
        /\ Append(s, e)[Len(s) + 1] = e
        /\ \A k \in 1..Len(s) : Append(s, e)[k] = s[k]
    BY AppendProperties, LenProperties
  <1>3. Append(s, e) # <<>>
    BY AppendProperties
  <1> QED
    BY <1>1, <1>2, <1>3

\* A challenge has one prompt to send.
LEMMA OnePrompt ==
    ASSUME ServiceInv, NEW i \in DOMAIN outbox, NEW j \in DOMAIN outbox,
           outbox[i].kind = "SEND_CHALLENGE", outbox[j].kind = "SEND_CHALLENGE",
           outbox[i].challenge = outbox[j].challenge
    PROVE  i = j
  <1>1. /\ outbox[i].update = outbox[j].update
        /\ outbox[i].text = "" /\ outbox[j].text = ""
    BY DEF ServiceInv, ServiceTypeInv, PromptRows, PromptRow
  <1>2. "" \notin Alerts
    BY DEF Alerts
  <1> QED
    BY <1>1, <1>2 DEF ServiceInv, EffectsInv, EffectsOnce

\* A row of the outbox names an applied update; a prompt names its challenge.
LEMMA PromptNames ==
    ASSUME ServiceInv, NEW i \in DOMAIN outbox
    PROVE  /\ outbox[i] \in OutboxRow
           /\ outbox[i].update \in Update /\ processed[outbox[i].update] = "APPLIED"
           /\ outbox[i].kind = "SEND_CHALLENGE" => outbox[i].challenge = outbox[i].update
  <1>1. outbox[i] \in OutboxRow
    BY DEF ServiceInv, ServiceTypeInv, TypeOK, StoreTypeOK
  <1>2. outbox[i].update \in Update
    BY <1>1 DEF OutboxRow
  <1> QED
    BY <1>1, <1>2 DEF ServiceInv, ServiceTypeInv, EffectsInv, RowsKeyed, PromptRows, PromptRow

\* What the processing worker does to the rows that are there, and that the
\* prompts it adds have not been shown.
KeptRow(new, old) ==
    /\ new.kind = old.kind /\ new.challenge = old.challenge
    /\ new.claimed = old.claimed /\ new.attempts = old.attempts
    /\ \/ new.status = old.status
       \/ /\ new.status = "DELETED" /\ old.status \in Live
          /\ old.kind = "SEND_CHALLENGE" => challenge'[old.challenge] = "NONE"

LEMMA RowsBeside ==
    ASSUME ServiceInv, ServiceInv', ShownHasRow, [Next]_vars, delivered' = delivered
    PROVE  /\ DOMAIN outbox \subseteq DOMAIN outbox'
           /\ \A k \in DOMAIN outbox : KeptRow(outbox'[k], outbox[k])
           /\ \A k \in DOMAIN outbox' :
                 k \notin DOMAIN outbox /\ outbox'[k].kind = "SEND_CHALLENGE"
                     => delivered[outbox'[k].challenge] = <<>> /\ outbox'[k].attempts = 0
  <1>1. PICK u : Grows(outbox', u) /\ (u \in Update => processed[u] # "APPLIED")
    BY ProcessingGrows DEF ServiceInv, ServiceTypeInv
  <1>2. ASSUME NEW k \in DOMAIN outbox PROVE KeptRow(outbox'[k], outbox[k])
    <2>1. outbox[k] \in OutboxRow /\ (outbox'[k] = outbox[k] \/ Removed(outbox'[k], outbox[k]))
          /\ (outbox[k].kind = "SEND_CHALLENGE" => outbox[k].challenge = outbox[k].update)
      BY <1>1, PromptNames DEF Grows
    <2> QED
      BY <2>1 DEF Removed, OutboxRow, KeptRow
  <1>3. ASSUME NEW k \in DOMAIN outbox', k \notin DOMAIN outbox, outbox'[k].kind = "SEND_CHALLENGE"
        PROVE  delivered[outbox'[k].challenge] = <<>> /\ outbox'[k].attempts = 0
    <2>1. outbox'[k] \in OutboxRow /\ outbox'[k].update = u /\ outbox'[k].challenge = u
      <3>1. outbox'[k] \in OutboxRow
        BY <1>3 DEF ServiceInv, ServiceTypeInv, TypeOK, StoreTypeOK
      <3>2. PromptRow(outbox'[k]) /\ outbox'[k].update = u
        BY <1>1, <1>3 DEF Grows
      <3> QED
        BY <1>3, <3>1, <3>2 DEF PromptRow
    <2>2. u \in Update
      BY <2>1 DEF OutboxRow
    <2>3. \A i \in DOMAIN outbox : outbox[i].kind = "SEND_CHALLENGE" => outbox[i].challenge # u
      BY <1>1, <2>2, PromptNames
    <2>4. delivered[u] = <<>>
      BY <2>2, <2>3 DEF ShownHasRow, Prompts
    <2>5. outbox'[k].attempts = 0
      BY <1>1, <1>3 DEF Grows, Untried
    <2> QED
      BY <2>1, <2>4, <2>5
  <1>4. DOMAIN outbox \subseteq DOMAIN outbox'
    BY <1>1 DEF Grows
  <1> QED
    BY <1>2, <1>3, <1>4

\* What the outbox worker does to them.
LEMMA RowsOut ==
    ASSUME ServiceInv, OutStep
    PROVE  /\ DOMAIN outbox \subseteq DOMAIN outbox'
           /\ \A k \in DOMAIN outbox :
                 outbox'[k].kind = outbox[k].kind /\ outbox'[k].challenge = outbox[k].challenge
           /\ \A k \in DOMAIN outbox' : k \notin DOMAIN outbox => outbox'[k].kind # "SEND_CHALLENGE"
  BY OutFrame DEF ServiceInv, ServiceTypeInv, TypeOK, SameWork, AlertRow

\* A call shows the prompt in hand or none.  When it shows it, the prompt
\* stands unless the answer looked like a failure.
ShowsHeld(reply) ==
    /\ Held.kind = "SEND_CHALLENGE" /\ disp.row \in DOMAIN outbox
    /\ Held.challenge \in Update
    /\ reply \in {"OK", "TIMEOUT", "RETRYABLE"}
    /\ \A x \in Update : x # Held.challenge => delivered'[x] = delivered[x]
    /\ delivered'[Held.challenge] # <<>>
    /\ Len(delivered'[Held.challenge]) = Len(delivered[Held.challenge]) + 1
    /\ Len(delivered[Held.challenge]) \in Nat
    /\ delivered'[Held.challenge][Len(delivered[Held.challenge]) + 1] = reply
    /\ \A k \in 1..Len(delivered[Held.challenge]) :
          delivered'[Held.challenge][k] = delivered[Held.challenge][k]
    /\ delivered[Held.challenge] = <<>> <=> Len(delivered[Held.challenge]) = 0

LEMMA CallShows ==
    ASSUME ServiceInv, NEW reply \in Reply, Call(reply)
    PROVE  delivered' = delivered \/ ShowsHeld(reply)
  <1>1. disp.row \in DOMAIN outbox /\ delivered \in [Update -> Seq(Result)] /\ reply \in Result
    BY DEF Call, ServiceInv, ServiceTypeInv, OutTypeOK, Result
  <1>2. Held.kind = "SEND_CHALLENGE" => Held.challenge \in Update
    BY <1>1, PromptNames DEF Held
  <1>3. PICK done \in CarriedOut(reply) :
           delivered' = IF done /\ Held.kind = "SEND_CHALLENGE"
                        THEN [delivered EXCEPT ![Held.challenge] = Append(@, reply)] ELSE delivered
    BY DEF Call
  <1>4. done => reply \in {"OK", "TIMEOUT", "RETRYABLE"}
    BY <1>3, AmbiguityAssumption DEF CarriedOut
  <1>5. CASE done /\ Held.kind = "SEND_CHALLENGE"
    <2>1. /\ delivered[Held.challenge] \in Seq(Result)
          /\ delivered'[Held.challenge] = Append(delivered[Held.challenge], reply)
          /\ \A x \in Update : x # Held.challenge => delivered'[x] = delivered[x]
      BY <1>1, <1>2, <1>3, <1>5
    <2> QED
      BY <1>1, <1>2, <1>4, <1>5, <2>1, OneMore DEF ShowsHeld
  <1> QED
    BY <1>3, <1>5

\* A prompt on its way does not stand.
LEMMA NotStanding ==
    ASSUME PromptInv, disp.pc \in {"CLAIMED", "PERMITTED", "CALLING"},
           disp.pc = "CLAIMED" => ~Suspended
    PROVE  disp.row \in DOMAIN outbox /\ ~Stands(Held)
  <1>1. disp.row \in DOMAIN outbox /\ NotAgain(disp.row)
    BY DEF PromptInv, ServiceInv, ServiceTypeInv, OutTypeOK
  <1>2. Held.kind = "SEND_CHALLENGE" /\ disp.interrupted => Suspended
    BY DEF Suspended, Idempotent
  <1> QED
    BY <1>1, <1>2 DEF NotAgain, InHands, Held, Stands

\* A prompt that stands is settled as sent or as uncertain.
LEMMA StandingSettles ==
    ASSUME PromptInv, Settling, Stands(Held)
    PROVE  ~Retryable /\ ~FailsPermanently
  <1>1. disp.row \in DOMAIN outbox /\ NotAgain(disp.row) /\ disp.pc # "WAITING"
    BY DEF PromptInv, ServiceInv, ServiceTypeInv, OutTypeOK, Settling
  <1>2. disp.result \in {"OK", "TIMEOUT", "NONE"}
    BY <1>1 DEF NotAgain, InHands, Held, PromptInv, NoAnswerYet
  <1>3. ~Retryable
    BY <1>2 DEF Retryable, LostAnswer, Idempotent, Stands
  <1> QED
    BY <1>2, <1>3 DEF FailsPermanently, Rejected

\* The dispatcher's answer is there once the call was answered.
LEMMA NoAnswerStep ==
    ASSUME ServiceTypeInv, NoAnswerYet, [ServiceNext]_serviceVars
    PROVE  NoAnswerYet'
  <1>1. disp' = Waiting => NoAnswerYet'
    BY DEF NoAnswerYet, Waiting
  <1>2. disp' = disp => NoAnswerYet'
    BY DEF NoAnswerYet
  <1>3. ASSUME NEW i \in DOMAIN outbox, Claim(i) PROVE NoAnswerYet'
    BY <1>3 DEF Claim, Waiting, NoAnswerYet
  <1>4. CASE Onwards
    BY <1>4 DEF Onwards, NoAnswerYet
  <1> QED
    BY <1>1, <1>2, <1>3, <1>4, ServiceSteps, DispatchMoves DEF ServiceTypeInv

\* What was shown has its row.
LEMMA ShownRowStep ==
    ASSUME PromptInv, ServiceInv', [ServiceNext]_serviceVars
    PROVE  ShownHasRow'
  <1> USE DEF PromptInv
  <1>k. ASSUME delivered' = delivered, DOMAIN outbox \subseteq DOMAIN outbox',
               \A k \in DOMAIN outbox : outbox'[k].kind = outbox[k].kind
                                        /\ outbox'[k].challenge = outbox[k].challenge
        PROVE  ShownHasRow'
    BY <1>k DEF ShownHasRow, Prompts
  <1>1. CASE [Next]_vars /\ delivered' = delivered
    BY <1>1, <1>k, RowsBeside DEF KeptRow
  <1>2. CASE OutStep /\ delivered' = delivered
    BY <1>2, <1>k, RowsOut
  <1>3. ASSUME NEW reply \in Reply, Call(reply) PROVE ShownHasRow'
    <2>1. CASE delivered' = delivered
      BY <1>3, <2>1 DEF Call, storeVars, ShownHasRow, Prompts
    <2>2. CASE ShowsHeld(reply)
      BY <1>3, <2>2 DEF Call, storeVars, ShownHasRow, Held, ShowsHeld, Prompts
    <2> QED
      BY <1>3, <2>1, <2>2, CallShows
  <1>4. OutStep => delivered' = delivered \/ \E reply \in Reply : Call(reply)
    BY DEF OutStep, Claim, EnsureRight, LoadChallenge, Settle, FinishSuccess, FinishUncertain,
           FinishPermanent, ScheduleRetry, SettlementFails
  <1> QED
    BY <1>1, <1>2, <1>3, <1>4, ServiceSteps

\* No step puts a prompt that stands on its way again.
LEMMA NotAgainStep ==
    ASSUME PromptInv, ServiceInv', [ServiceNext]_serviceVars
    PROVE  RepeatedOnlyOnFailure' /\ \A i \in DOMAIN outbox' : NotAgain(i)'
  <1> USE DEF PromptInv
  <1>s. ServiceTypeInv /\ TypeOK /\ OutTypeOK /\ StoreTypeOK
    BY DEF ServiceInv, ServiceTypeInv, TypeOK
  <1>d. delivered \in [Update -> Seq(Result)]
    BY <1>s DEF OutTypeOK
  <1>o. delivered' = delivered => RepeatedOnlyOnFailure'
    BY DEF RepeatedOnlyOnFailure
  <1>r. \A k \in DOMAIN outbox : outbox[k] \in OutboxRow
    BY PromptNames
  <1>1. ASSUME [Next]_vars, disp' \in {disp, Waiting}, delivered' = delivered
        PROVE  \A i \in DOMAIN outbox' : NotAgain(i)'
    <2>1. /\ \A k \in DOMAIN outbox : KeptRow(outbox'[k], outbox[k])
          /\ \A k \in DOMAIN outbox' : k \notin DOMAIN outbox => ~Stands(outbox'[k])
      BY <1>1, RowsBeside DEF Stands
    <2> SUFFICES ASSUME NEW k \in DOMAIN outbox', Stands(outbox[k])'
                 PROVE  NotAgain(k)'
      BY DEF NotAgain
    <2>2. k \in DOMAIN outbox /\ Stands(outbox[k]) /\ NotAgain(k)
      BY <1>1, <2>1 DEF Stands, LooksUnsent, KeptRow
    <2>3. outbox'[k].status \in Live => outbox'[k].claimed
      BY <2>1, <2>2 DEF NotAgain, Live, KeptRow
    <2>4. InHands(k)' => disp' = disp /\ InHands(k)
      BY <1>1 DEF InHands, Waiting
    <2> QED
      BY <2>2, <2>3, <2>4 DEF NotAgain
  <1>2. ASSUME NEW i \in DOMAIN outbox, Claim(i)
        PROVE  delivered' = delivered /\ \A k \in DOMAIN outbox' : NotAgain(k)'
    <2>1. /\ DOMAIN outbox' = DOMAIN outbox
          /\ \A k \in DOMAIN outbox : k # i => outbox'[k] = outbox[k]
          /\ outbox'[i] = [outbox[i] EXCEPT !.claimed = TRUE,
                              !.attempts = IF outbox[i].claimed THEN @ ELSE @ + 1]
      BY <1>2, <1>s, ClaimedRows DEF Claim
    <2>2. disp' = [pc |-> "CLAIMED", row |-> i, interrupted |-> outbox[i].claimed, result |-> "NONE"]
          /\ delivered' = delivered /\ outbox[i].status \in Live
      BY <1>2 DEF Claim, Waiting, Eligible
    <2>3. outbox'[i].kind = outbox[i].kind /\ outbox'[i].challenge = outbox[i].challenge
          /\ outbox'[i].claimed
      BY <1>r, <2>1 DEF OutboxRow
    <2>4. NotAgain(i)'
      BY <2>2, <2>3 DEF NotAgain, Stands, LooksUnsent, InHands
    <2>5. ASSUME NEW k \in DOMAIN outbox, k # i PROVE NotAgain(k)'
      BY <2>1, <2>2, <2>5 DEF NotAgain, Stands, LooksUnsent, InHands
    <2> QED
      BY <2>1, <2>2, <2>4, <2>5
  <1>3. ASSUME Onwards, delivered' = delivered, ~Stands(Held), disp.row \in DOMAIN outbox
        PROVE  \A k \in DOMAIN outbox' : NotAgain(k)'
    <2>1. UNCHANGED outbox /\ disp'.row = disp.row
      BY <1>3 DEF Onwards, storeVars
    <2> SUFFICES ASSUME NEW k \in DOMAIN outbox, Stands(outbox[k]) PROVE NotAgain(k)'
      BY <1>3, <2>1 DEF NotAgain, Stands, LooksUnsent
    <2>2. k # disp.row
      BY <1>3 DEF Held
    <2> QED
      BY <1>3, <2>1, <2>2 DEF NotAgain, Stands, LooksUnsent, InHands
  <1>4. CASE EnsureRight \/ LoadChallenge
    <2>1. Onwards /\ delivered' = delivered /\ disp.pc \in {"CLAIMED", "PERMITTED"}
          /\ (disp.pc = "CLAIMED" => ~Suspended)
      BY <1>4, <1>s, MovesOnwards DEF EnsureRight, LoadChallenge
    <2>2. disp.row \in DOMAIN outbox /\ ~Stands(Held)
      BY <2>1, NotStanding
    <2> QED
      BY <1>3, <1>o, <2>1, <2>2
  <1>5. ASSUME NEW reply \in Reply, Call(reply)
        PROVE  RepeatedOnlyOnFailure' /\ \A k \in DOMAIN outbox' : NotAgain(k)'
    <2>1. disp.pc = "CALLING" /\ disp' = Answered(reply) /\ UNCHANGED outbox
      BY <1>5 DEF Call, storeVars
    <2>2. disp'.pc = "ANSWERED" /\ disp'.result = reply /\ disp'.row = disp.row
      BY <1>s, <2>1 DEF Answered, OutTypeOK
    <2>3. disp.row \in DOMAIN outbox /\ ~Stands(Held) /\ Held.claimed
      BY <1>s, <2>1, NotStanding DEF OutTypeOK
    <2>4. ASSUME NEW k \in DOMAIN outbox, k # disp.row, Stands(outbox[k]) PROVE NotAgain(k)'
      BY <2>1, <2>2, <2>4 DEF NotAgain, Stands, LooksUnsent, InHands
    <2>5. CASE delivered' = delivered
      <3>1. ~Stands(outbox[disp.row])'
        BY <2>1, <2>2, <2>3, <2>5 DEF Stands, LooksUnsent, Held
      <3>2. \A k \in DOMAIN outbox : Stands(outbox[k])' => Stands(outbox[k])
        BY <2>1, <2>5 DEF Stands, LooksUnsent
      <3> QED
        BY <1>o, <2>1, <2>2, <2>4, <2>5, <3>1, <3>2 DEF NotAgain
    <2>6. CASE ShowsHeld(reply)
      <3> USE DEF ShowsHeld
      <3>1. delivered[Held.challenge] # <<>> => LooksUnsent(Held.challenge)
        BY <2>3, <2>6 DEF Stands
      <3>2. RepeatedOnlyOnFailure'
        <4> SUFFICES ASSUME NEW x \in Update, NEW n \in 1..(Len(delivered'[x]) - 1)
                     PROVE  delivered'[x][n] = "RETRYABLE"
          BY DEF RepeatedOnlyOnFailure
        <4>1. CASE x # Held.challenge
          BY <2>6, <4>1 DEF RepeatedOnlyOnFailure
        <4>2. CASE x = Held.challenge
          <5>1. n \in 1..Len(delivered[x]) /\ delivered'[x][n] = delivered[x][n]
            BY <2>6, <4>2
          <5>2. CASE n \in 1..(Len(delivered[x]) - 1)
            BY <5>1, <5>2 DEF RepeatedOnlyOnFailure
          <5>3. CASE n = Len(delivered[x])
            BY <2>6, <3>1, <4>2, <5>1, <5>3 DEF LooksUnsent
          <5> QED
            BY <2>6, <4>2, <5>1, <5>2, <5>3
        <4> QED
          BY <4>1, <4>2
      <3>3. NotAgain(disp.row)'
        <4>1. Stands(outbox[disp.row])' => reply # "RETRYABLE"
          BY <2>1, <2>2, <2>6 DEF Stands, LooksUnsent, Held
        <4> QED
          BY <2>1, <2>2, <2>3, <2>6, <4>1 DEF NotAgain, InHands, Held
      <3>4. ASSUME NEW k \in DOMAIN outbox, k # disp.row, Stands(outbox[k])' PROVE Stands(outbox[k])
        <4>1. outbox[k].kind = "SEND_CHALLENGE" /\ outbox[k].challenge \in Update
          BY <2>1, <3>4, PromptNames DEF Stands
        <4>2. outbox[k].challenge # Held.challenge
          BY <2>3, <2>6, <3>4, <4>1, OnePrompt DEF Held
        <4> QED
          BY <2>1, <2>6, <3>4, <4>1, <4>2 DEF Stands, LooksUnsent
      <3>5. \A k \in DOMAIN outbox : k # disp.row => NotAgain(k)'
        BY <2>4, <3>4 DEF NotAgain
      <3> QED
        BY <2>1, <2>2, <3>2, <3>3, <3>5
    <2> QED
      BY <1>5, <2>5, <2>6, CallShows
  <1>6. ASSUME Settle, Settling, disp' = Waiting, delivered' = delivered
        PROVE  \A k \in DOMAIN outbox' : NotAgain(k)'
    <2>h. \A k : ~InHands(k)'
      BY <1>6 DEF InHands, Waiting
    <2>1. CASE UNCHANGED storeVars
      BY <1>6, <2>h, <2>1 DEF NotAgain, Stands, LooksUnsent, storeVars
    <2>2. ASSUME NEW status \in Final \cup {"RETRY"}, SettledAs(status),
                 status = "RETRY" => ~Stands(Held)
          PROVE  \A k \in DOMAIN outbox' : NotAgain(k)'
      <3>1. \A k \in DOMAIN outbox : k # disp.row => NotAgain(k)'
        BY <1>6, <2>h, <2>2 DEF NotAgain, Stands, LooksUnsent, SettledAs
      <3>2. \A k \in DOMAIN outbox' : k \notin DOMAIN outbox => NotAgain(k)'
        BY <2>2 DEF NotAgain, Stands, LooksUnsent, SettledAs, AlertRow
      <3>r. PICK r : r = disp.row
        OBVIOUS
      <3>3. NotAgain(r)'
        <4>1. Held \in OutboxRow
          BY <1>r, <2>2 DEF SettledAs, Held
        <4>2. outbox'[r].kind = Held.kind /\ outbox'[r].challenge = Held.challenge
              /\ outbox'[r].status = status
          BY <2>2, <3>r, <4>1 DEF SettledAs, OutboxRow
        <4>3. Stands(outbox[r])' => Stands(Held)
          BY <1>6, <4>2 DEF Stands, LooksUnsent
        <4>4. Stands(outbox[r])' => status \notin Live
          BY <2>2, <4>3 DEF Final, Live
        <4> QED
          BY <2>h, <4>2, <4>4 DEF NotAgain
      <3> QED
        BY <3>1, <3>2, <3>3, <3>r
    <2>3. CASE SettledAs("RETRY") /\ ScheduleRetry
      <3>1. ~Stands(Held)
        BY <1>6, <2>3, StandingSettles DEF ScheduleRetry
      <3> QED
        BY <2>2, <2>3, <3>1
    <2>4. ASSUME NEW status \in Final, SettledAs(status)
          PROVE  \A k \in DOMAIN outbox' : NotAgain(k)'
      <3>1. status # "RETRY"
        BY DEF Final
      <3> QED
        BY <2>2, <2>4, <3>1
    <2> QED
      BY <1>6, <1>s, <2>1, <2>3, <2>4, SettleForms DEF Final
  <1>7. CASE OutStep
    BY <1>2, <1>4, <1>5, <1>6, <1>7, <1>s, <1>o DEF OutStep, Settle, FinishSuccess, FinishUncertain,
       FinishPermanent, ScheduleRetry, SettlementFails, EnsureRight, LoadChallenge
  <1> QED
    BY <1>1, <1>7, <1>o, ServiceSteps

\* Nothing is shown at the start.
LEMMA PromptInit == ServiceInit => PromptInv
  <1> SUFFICES ASSUME ServiceInit PROVE PromptInv
    OBVIOUS
  <1>1. disp = Waiting /\ outbox = <<>> /\ \A x \in Update : delivered[x] = <<>>
    BY DEF ServiceInit, OutInit, StoreInit
  <1>2. NoAnswerYet /\ ShownHasRow /\ \A i \in DOMAIN outbox : NotAgain(i)
    BY <1>1 DEF NoAnswerYet, Waiting, ShownHasRow
  <1>3. RepeatedOnlyOnFailure
    BY <1>1 DEF RepeatedOnlyOnFailure
  <1> QED
    BY <1>2, <1>3, ServiceInvInit DEF PromptInv

\* Every step keeps the invariant of the prompts.
LEMMA PromptStep == PromptInv /\ [ServiceNext]_serviceVars => PromptInv'
  <1> SUFFICES ASSUME PromptInv, [ServiceNext]_serviceVars PROVE PromptInv'
    OBVIOUS
  <1>1. ServiceInv'
    BY ServiceInvStep DEF PromptInv
  <1>2. NoAnswerYet'
    BY NoAnswerStep DEF PromptInv, ServiceInv
  <1>3. ShownHasRow'
    BY <1>1, ShownRowStep
  <1>4. RepeatedOnlyOnFailure' /\ \A i \in DOMAIN outbox' : NotAgain(i)'
    BY <1>1, NotAgainStep
  <1> QED
    BY <1>1, <1>2, <1>3, <1>4 DEF PromptInv

\* A contact sees a prompt again only if the call that showed it before ended
\* in an error that retry_delay retries (rate limit, server, transport or
\* protocol error), under every fault: a send that timed out, or was
\* interrupted by a crash, is settled as UNCERTAIN and never repeated.
THEOREM PromptRepeatedOnlyOnFailure == ServiceSpec => []RepeatedOnlyOnFailure
  <1>1. PromptInv => RepeatedOnlyOnFailure
    BY DEF PromptInv
  <1> QED
    BY <1>1, PromptInit, PromptStep, PTL DEF ServiceSpec

-----------------------------------------------------------------------------
(***************************************************************************)
(* Attempts.  A call is made under a claim that was just counted: a claim  *)
(* that was there already is settled as uncertain before any call.         *)
(***************************************************************************)
OnItsWay ==
    /\ disp.pc \in {"CLAIMED", "PERMITTED", "CALLING"}
    /\ disp.pc = "CLAIMED" => ~disp.interrupted
Counted(i) ==
    outbox[i].kind = "SEND_CHALLENGE" =>
        /\ Len(delivered[outbox[i].challenge]) <= outbox[i].attempts
        /\ InHands(i) /\ OnItsWay => Len(delivered[outbox[i].challenge]) < outbox[i].attempts
AttemptInv == PromptInv /\ \A i \in DOMAIN outbox : Counted(i)

\* The numbers compared are numbers.
LEMMA CountTypes ==
    ASSUME ServiceInv, NEW i \in DOMAIN outbox, outbox[i].kind = "SEND_CHALLENGE"
    PROVE  /\ outbox[i].challenge \in Update
           /\ Len(delivered[outbox[i].challenge]) \in Nat /\ outbox[i].attempts \in Nat
  <1>1. outbox[i] \in OutboxRow /\ outbox[i].challenge \in Update
    BY PromptNames
  <1>2. delivered[outbox[i].challenge] \in Seq(Result)
    BY <1>1 DEF ServiceInv, ServiceTypeInv, OutTypeOK
  <1> QED
    BY <1>1, <1>2, LenProperties DEF OutboxRow

\* Every step of the service counts the calls it makes.
LEMMA CountedStep ==
    ASSUME AttemptInv, ServiceInv', [ServiceNext]_serviceVars
    PROVE  \A i \in DOMAIN outbox' : Counted(i)'
  <1> USE DEF AttemptInv, PromptInv
  <1>s. ServiceTypeInv /\ TypeOK /\ OutTypeOK /\ StoreTypeOK
    BY DEF ServiceInv, ServiceTypeInv, TypeOK
  <1>r. \A k \in DOMAIN outbox : outbox[k] \in OutboxRow
    BY PromptNames
  <1>1. ASSUME [Next]_vars, disp' \in {disp, Waiting}, delivered' = delivered
        PROVE  \A i \in DOMAIN outbox' : Counted(i)'
    <2>1. /\ \A k \in DOMAIN outbox : KeptRow(outbox'[k], outbox[k])
          /\ \A k \in DOMAIN outbox' :
                k \notin DOMAIN outbox /\ outbox'[k].kind = "SEND_CHALLENGE"
                    => delivered[outbox'[k].challenge] = <<>> /\ outbox'[k].attempts = 0
      BY <1>1, RowsBeside
    <2> SUFFICES ASSUME NEW k \in DOMAIN outbox', outbox'[k].kind = "SEND_CHALLENGE"
                 PROVE  Counted(k)'
      BY DEF Counted
    <2>2. InHands(k)' => disp' = disp /\ InHands(k)
      BY <1>1 DEF InHands, Waiting
    <2>3. CASE k \in DOMAIN outbox
      <3>1. /\ outbox[k].kind = "SEND_CHALLENGE" /\ Counted(k)
            /\ outbox'[k].challenge = outbox[k].challenge
            /\ outbox'[k].attempts = outbox[k].attempts
        BY <2>1, <2>3 DEF KeptRow
      <3>2. (InHands(k) /\ OnItsWay)' => InHands(k) /\ OnItsWay
        BY <2>2 DEF OnItsWay
      <3> QED
        BY <1>1, <3>1, <3>2 DEF Counted
    <2>4. CASE k \notin DOMAIN outbox
      <3>1. ~InHands(k)
        BY <1>s, <2>4 DEF InHands, OutTypeOK
      <3>2. Len(delivered'[outbox'[k].challenge]) = 0 /\ outbox'[k].attempts = 0
        BY <1>1, <2>1, <2>4, EmptySeq
      <3> QED
        BY <2>2, <3>1, <3>2 DEF Counted
    <2> QED
      BY <2>3, <2>4
  <1>2. ASSUME NEW i \in DOMAIN outbox, Claim(i) PROVE \A k \in DOMAIN outbox' : Counted(k)'
    <2>1. /\ DOMAIN outbox' = DOMAIN outbox
          /\ \A k \in DOMAIN outbox : k # i => outbox'[k] = outbox[k]
          /\ outbox'[i] = [outbox[i] EXCEPT !.claimed = TRUE,
                              !.attempts = IF outbox[i].claimed THEN @ ELSE @ + 1]
      BY <1>2, <1>s, ClaimedRows DEF Claim
    <2>2. disp' = [pc |-> "CLAIMED", row |-> i, interrupted |-> outbox[i].claimed, result |-> "NONE"]
          /\ delivered' = delivered
      BY <1>2 DEF Claim, Waiting
    <2>3. /\ outbox'[i].kind = outbox[i].kind /\ outbox'[i].challenge = outbox[i].challenge
          /\ outbox'[i].attempts = IF outbox[i].claimed THEN outbox[i].attempts
                                   ELSE outbox[i].attempts + 1
      BY <1>r, <2>1 DEF OutboxRow
    <2>4. Counted(i)'
      <3> SUFFICES ASSUME outbox[i].kind = "SEND_CHALLENGE" PROVE Counted(i)'
        BY <2>3 DEF Counted
      <3>1. /\ Len(delivered[outbox[i].challenge]) \in Nat /\ outbox[i].attempts \in Nat
            /\ Len(delivered[outbox[i].challenge]) <= outbox[i].attempts
        BY CountTypes DEF Counted
      <3>2. OnItsWay' => ~outbox[i].claimed
        BY <2>2 DEF OnItsWay
      <3> QED
        BY <2>2, <2>3, <3>1, <3>2 DEF Counted
    <2>5. ASSUME NEW k \in DOMAIN outbox, k # i PROVE Counted(k)'
      <3>1. ~InHands(k)'
        BY <2>2, <2>5 DEF InHands
      <3> QED
        BY <2>1, <2>2, <2>5, <3>1 DEF Counted
    <2> QED
      BY <2>1, <2>4, <2>5
  <1>3. CASE EnsureRight \/ LoadChallenge
    <2>1. Onwards /\ delivered' = delivered /\ disp.pc \in {"CLAIMED", "PERMITTED"}
          /\ (disp.pc = "CLAIMED" => ~Suspended)
      BY <1>3, <1>s, MovesOnwards DEF EnsureRight, LoadChallenge
    <2>2. UNCHANGED outbox /\ disp'.row = disp.row
      BY <2>1 DEF Onwards, storeVars
    <2>3. Held.kind = "SEND_CHALLENGE" => OnItsWay
      BY <2>1 DEF OnItsWay, Suspended, Idempotent
    <2> SUFFICES ASSUME NEW k \in DOMAIN outbox, outbox[k].kind = "SEND_CHALLENGE" PROVE Counted(k)'
      BY <2>2 DEF Counted
    <2>4. InHands(k)' => InHands(k) /\ OnItsWay
      BY <2>1, <2>2, <2>3 DEF InHands, Held
    <2> QED
      BY <2>1, <2>2, <2>4 DEF Counted
  <1>4. ASSUME NEW reply \in Reply, Call(reply) PROVE \A k \in DOMAIN outbox' : Counted(k)'
    <2>1. disp.pc = "CALLING" /\ disp' = Answered(reply) /\ UNCHANGED outbox
      BY <1>4 DEF Call, storeVars
    <2>2. disp'.pc = "ANSWERED" /\ disp.row \in DOMAIN outbox
      BY <1>s, <2>1 DEF Answered, OutTypeOK
    <2> SUFFICES ASSUME NEW k \in DOMAIN outbox, outbox[k].kind = "SEND_CHALLENGE"
                 PROVE  Len(delivered'[outbox[k].challenge]) <= outbox[k].attempts
      BY <2>1, <2>2 DEF Counted, OnItsWay
    <2>3. /\ outbox[k].challenge \in Update /\ Counted(k)
          /\ Len(delivered[outbox[k].challenge]) \in Nat /\ outbox[k].attempts \in Nat
      BY CountTypes
    <2>4. CASE delivered' = delivered
      BY <2>3, <2>4 DEF Counted
    <2>5. CASE ShowsHeld(reply) /\ k = disp.row
      <3>1. Len(delivered[outbox[k].challenge]) < outbox[k].attempts
        BY <2>1, <2>3, <2>5 DEF Counted, InHands, OnItsWay
      <3> QED
        BY <2>3, <2>5, <3>1 DEF ShowsHeld, Held
    <2>6. CASE ShowsHeld(reply) /\ k # disp.row
      <3>1. outbox[k].challenge # Held.challenge
        BY <2>2, <2>6, OnePrompt DEF ShowsHeld, Held
      <3> QED
        BY <2>3, <2>6, <3>1 DEF Counted, ShowsHeld
    <2> QED
      BY <1>4, <2>4, <2>5, <2>6, CallShows
  <1>5. ASSUME Settle, Settling, disp' = Waiting, delivered' = delivered
        PROVE  \A k \in DOMAIN outbox' : Counted(k)'
    <2>h. \A k : ~InHands(k)'
      BY <1>5 DEF InHands, Waiting
    <2>1. CASE UNCHANGED storeVars
      BY <1>5, <2>h, <2>1 DEF Counted, storeVars
    <2>2. ASSUME NEW status, SettledAs(status) PROVE \A k \in DOMAIN outbox' : Counted(k)'
      <3>1. \A k \in DOMAIN outbox : k # disp.row => Counted(k)'
        BY <1>5, <2>h, <2>2 DEF Counted, SettledAs
      <3>2. \A k \in DOMAIN outbox' : k \notin DOMAIN outbox => Counted(k)'
        BY <2>2 DEF Counted, SettledAs, AlertRow
      <3>r. PICK r : r = disp.row
        OBVIOUS
      <3>3. Counted(r)'
        <4>1. Held \in OutboxRow /\ Counted(r) /\ Held = outbox[r]
          BY <1>r, <2>2, <3>r DEF SettledAs, Held
        <4>2. outbox'[r].kind = Held.kind /\ outbox'[r].challenge = Held.challenge
              /\ outbox'[r].attempts = Held.attempts
          BY <2>2, <3>r, <4>1 DEF SettledAs, OutboxRow
        <4> QED
          BY <1>5, <2>h, <4>1, <4>2 DEF Counted
      <3> QED
        BY <3>1, <3>2, <3>3, <3>r
    <2> QED
      BY <1>5, <1>s, <2>1, <2>2, SettleForms
  <1>6. CASE OutStep
    BY <1>2, <1>3, <1>4, <1>5, <1>6, <1>s DEF OutStep, Settle, FinishSuccess, FinishUncertain,
       FinishPermanent, ScheduleRetry, SettlementFails
  <1> QED
    BY <1>1, <1>6, ServiceSteps

\* An attempt shows the prompt at most once, under every fault, so that a
\* prompt is shown at most as often as its row is tried.
THEOREM PromptShownPerAttempt == ServiceSpec => []ShownOncePerAttempt
  <1>1. ServiceInit => AttemptInv
    BY PromptInit DEF AttemptInv, ServiceInit, StoreInit
  <1>2. AttemptInv /\ [ServiceNext]_serviceVars => AttemptInv'
    <2> SUFFICES ASSUME AttemptInv, [ServiceNext]_serviceVars PROVE AttemptInv'
      OBVIOUS
    <2>1. PromptInv'
      BY PromptStep DEF AttemptInv
    <2>2. \A i \in DOMAIN outbox' : Counted(i)'
      BY <2>1, CountedStep DEF PromptInv
    <2> QED
      BY <2>1, <2>2 DEF AttemptInv
  <1>3. AttemptInv => ShownOncePerAttempt
    BY DEF AttemptInv, Counted, ShownOncePerAttempt, Prompts
  <1> QED
    BY <1>1, <1>2, <1>3, PTL DEF ServiceSpec

-----------------------------------------------------------------------------
(***************************************************************************)
(* Prompts that may have been shown are remembered.                        *)
(***************************************************************************)
Remembered(i) ==
    outbox[i].kind = "SEND_CHALLENGE" /\ delivered[outbox[i].challenge] # <<>> =>
        \/ outbox[i].claimed
        \/ outbox[i].status = "UNCERTAIN"
        \/ outbox[i].challenge \in prompt
        \/ challenge[outbox[i].challenge] = "NONE"
        \/ /\ outbox[i].status \in {"RETRY", "PERMANENT_FAILURE"}
           /\ LooksUnsent(outbox[i].challenge)
MemoryInv == PromptInv /\ \A i \in DOMAIN outbox : Remembered(i)

\* No step forgets a prompt.
LEMMA MemoryStep ==
    ASSUME MemoryInv, ServiceInv', [ServiceNext]_serviceVars
    PROVE  \A i \in DOMAIN outbox' : Remembered(i)'
  <1> USE DEF MemoryInv, PromptInv
  <1>s. ServiceTypeInv /\ TypeOK /\ OutTypeOK /\ StoreTypeOK
    BY DEF ServiceInv, ServiceTypeInv, TypeOK
  <1>1. ASSUME [Next]_vars, delivered' = delivered
        PROVE  \A i \in DOMAIN outbox' : Remembered(i)'
    <2>1. /\ \A k \in DOMAIN outbox : KeptRow(outbox'[k], outbox[k])
          /\ \A k \in DOMAIN outbox' :
                k \notin DOMAIN outbox /\ outbox'[k].kind = "SEND_CHALLENGE"
                    => delivered[outbox'[k].challenge] = <<>>
      BY <1>1, RowsBeside
    <2> SUFFICES ASSUME NEW k \in DOMAIN outbox', outbox'[k].kind = "SEND_CHALLENGE",
                        delivered'[outbox'[k].challenge] # <<>>
                 PROVE  Remembered(k)'
      BY DEF Remembered
    <2>2. k \in DOMAIN outbox /\ Remembered(k) /\ KeptRow(outbox'[k], outbox[k])
      BY <1>1, <2>1
    <2>3. Settles(outbox[k].challenge)
      <3>1. outbox[k].challenge \in Update /\ processed[outbox[k].challenge] = "APPLIED"
        BY <2>2, PromptNames DEF KeptRow
      <3> QED
        BY <1>1, <3>1, ProcessingSettles DEF ServiceInv, EffectsInv
    <2>4. outbox'[k].status # outbox[k].status => challenge'[outbox[k].challenge] = "NONE"
      BY <2>2 DEF KeptRow
    <2> QED
      BY <1>1, <2>2, <2>3, <2>4 DEF Remembered, Settles, KeptRow, LooksUnsent
  <1>2. ASSUME NEW i \in DOMAIN outbox, Claim(i) PROVE \A k \in DOMAIN outbox' : Remembered(k)'
    <2>1. /\ DOMAIN outbox' = DOMAIN outbox
          /\ \A k \in DOMAIN outbox : k # i => outbox'[k] = outbox[k]
          /\ outbox'[i] = [outbox[i] EXCEPT !.claimed = TRUE,
                              !.attempts = IF outbox[i].claimed THEN @ ELSE @ + 1]
      BY <1>2, <1>s, ClaimedRows DEF Claim
    <2>2. delivered' = delivered /\ prompt' = prompt /\ challenge' = challenge
      BY <1>2 DEF Claim, lifecycle
    <2>3. outbox'[i].claimed
      <3>1. outbox[i] \in OutboxRow
        BY PromptNames
      <3> QED
        BY <2>1, <3>1 DEF OutboxRow
    <2>4. Remembered(i)'
      BY <2>3 DEF Remembered
    <2>5. ASSUME NEW k \in DOMAIN outbox, k # i PROVE Remembered(k)'
      BY <2>1, <2>2, <2>5 DEF Remembered, LooksUnsent
    <2> QED
      BY <2>1, <2>4, <2>5
  <1>3. CASE EnsureRight \/ LoadChallenge
    BY <1>3 DEF EnsureRight, LoadChallenge, storeVars, lifecycle, Remembered, LooksUnsent
  <1>4. ASSUME NEW reply \in Reply, Call(reply) PROVE \A k \in DOMAIN outbox' : Remembered(k)'
    <2>1. disp.pc = "CALLING" /\ UNCHANGED <<outbox, prompt, challenge>>
      BY <1>4 DEF Call, storeVars, lifecycle
    <2>2. disp.row \in DOMAIN outbox /\ Held.claimed
      BY <1>s, <2>1 DEF OutTypeOK
    <2> SUFFICES ASSUME NEW k \in DOMAIN outbox, outbox[k].kind = "SEND_CHALLENGE"
                 PROVE  Remembered(k)'
      BY <2>1 DEF Remembered
    <2>3. CASE k = disp.row
      BY <2>1, <2>2, <2>3 DEF Remembered, Held
    <2>4. CASE k # disp.row
      <3>1. outbox[k].challenge \in Update
        BY PromptNames
      <3>2. delivered'[outbox[k].challenge] = delivered[outbox[k].challenge]
        <4>1. CASE ShowsHeld(reply)
          <5>1. outbox[k].challenge # Held.challenge
            BY <2>2, <2>4, <4>1, OnePrompt DEF ShowsHeld, Held
          <5> QED
            BY <3>1, <4>1, <5>1 DEF ShowsHeld
        <4> QED
          BY <1>4, <4>1, CallShows
      <3> QED
        BY <2>1, <3>2 DEF Remembered, LooksUnsent
    <2> QED
      BY <2>3, <2>4
  <1>5. ASSUME Settle, Settling, disp' = Waiting, delivered' = delivered
        PROVE  \A k \in DOMAIN outbox' : Remembered(k)'
    <2>1. CASE UNCHANGED storeVars
      BY <1>5, <2>1 DEF Remembered, storeVars, lifecycle, LooksUnsent
    <2>2. prompt \subseteq prompt' /\ \A x \in Update : challenge[x] = "NONE" => challenge'[x] = "NONE"
      <3>1. OutStep
        BY <1>5 DEF OutStep
      <3> QED
        BY <1>s, <3>1, OutFrame DEF ServiceTypeInv, MarksOnly
    <2>3. ASSUME NEW status, SettledAs(status),
                 \/ status = "UNCERTAIN"
                 \/ Held.kind = "SEND_CHALLENGE" => Held.challenge \in prompt'
                 \/ status \in {"RETRY", "PERMANENT_FAILURE"} /\ ~Stands(Held)
          PROVE  \A k \in DOMAIN outbox' : Remembered(k)'
      <3>1. ASSUME NEW k \in DOMAIN outbox, k # disp.row PROVE Remembered(k)'
        <4>1. outbox'[k] = outbox[k]
          BY <1>5, <2>3, <3>1 DEF SettledAs
        <4>2. outbox[k].kind = "SEND_CHALLENGE" => outbox[k].challenge \in Update
          BY PromptNames
        <4> QED
          BY <1>5, <2>2, <4>1, <4>2 DEF Remembered, LooksUnsent
      <3>2. \A k \in DOMAIN outbox' : k \notin DOMAIN outbox => Remembered(k)'
        BY <2>3 DEF Remembered, SettledAs, AlertRow
      <3>r. PICK r : r = disp.row
        OBVIOUS
      <3>3. Remembered(r)'
        <4>1. Held \in OutboxRow
          BY <2>3, PromptNames DEF SettledAs, Held
        <4>2. outbox'[r].kind = Held.kind /\ outbox'[r].challenge = Held.challenge
              /\ outbox'[r].status = status
          BY <2>3, <3>r, <4>1 DEF SettledAs, OutboxRow
        <4> QED
          BY <1>5, <2>3, <4>2 DEF Remembered, Stands, LooksUnsent
      <3> QED
        BY <3>1, <3>2, <3>3, <3>r
    <2>4. CASE SettledAs("RETRY") /\ ScheduleRetry
      <3>1. ~Stands(Held)
        BY <1>5, <2>4, StandingSettles DEF ScheduleRetry
      <3> QED
        BY <2>3, <2>4, <3>1
    <2>5. CASE SettledAs("PERMANENT_FAILURE") /\ FinishPermanent
      <3>1. ~Stands(Held)
        BY <1>5, <2>5, StandingSettles DEF FinishPermanent
      <3> QED
        BY <2>3, <2>5, <3>1
    <2>6. CASE SettledAs("UNCERTAIN")
      BY <2>3, <2>6
    <2>7. CASE SettledAs("SUCCEEDED") /\ FinishSuccess
      <3>1. Held.kind = "SEND_CHALLENGE" => Held.challenge \in prompt'
        BY <2>7 DEF FinishSuccess
      <3> QED
        BY <2>3, <2>7, <3>1
    <2> QED
      BY <1>5, <1>s, <2>1, <2>4, <2>5, <2>6, <2>7, SettleForms
  <1>6. CASE OutStep
    BY <1>2, <1>3, <1>4, <1>5, <1>6, <1>s DEF OutStep, Settle, FinishSuccess, FinishUncertain,
       FinishPermanent, ScheduleRetry, SettlementFails
  <1> QED
    BY <1>1, <1>6, ServiceSteps

\* A prompt that was shown without its message id reaching the database is not
\* forgotten, under every fault: its row is still claimed or settled
\* UNCERTAIN, unless the call that showed it looked like a failure to
\* retry_delay, after which it is sent again or given up.
THEOREM PromptNeverSilent == ServiceSpec => []NoSilentPrompt
  <1>1. ServiceInit => MemoryInv
    BY PromptInit DEF MemoryInv, ServiceInit, StoreInit
  <1>2. MemoryInv /\ [ServiceNext]_serviceVars => MemoryInv'
    <2> SUFFICES ASSUME MemoryInv, [ServiceNext]_serviceVars PROVE MemoryInv'
      OBVIOUS
    <2>1. PromptInv'
      BY PromptStep DEF MemoryInv
    <2>2. \A i \in DOMAIN outbox' : Remembered(i)'
      BY <2>1, MemoryStep DEF PromptInv
    <2> QED
      BY <2>1, <2>2 DEF MemoryInv
  <1>3. MemoryInv => NoSilentPrompt
    <2> SUFFICES ASSUME MemoryInv, NEW x \in Update, delivered[x] # <<>>, x \notin prompt,
                        challenge[x] # "NONE"
                 PROVE  \E i \in DOMAIN outbox :
                           /\ Prompts(i, x)
                           /\ \/ outbox[i].claimed
                              \/ outbox[i].status = "UNCERTAIN"
                              \/ /\ outbox[i].status \in {"RETRY", "PERMANENT_FAILURE"}
                                 /\ LooksUnsent(x)
      BY DEF NoSilentPrompt
    <2>1. PICK i \in DOMAIN outbox : Prompts(i, x)
      BY DEF MemoryInv, PromptInv, ShownHasRow
    <2> QED
      BY <2>1 DEF MemoryInv, Remembered, Prompts
  <1> QED
    BY <1>1, <1>2, <1>3, PTL DEF ServiceSpec

-----------------------------------------------------------------------------
(***************************************************************************)
(* Without storage faults: the lifecycle and the cleanup, with both        *)
(* workers running.                                                        *)
(***************************************************************************)
\* The service starts where the processing worker does.
LEMMA ServiceStarts == ServiceInit => Init
  BY DEF ServiceInit, Init

\* Every step of the service keeps the invariants of the ledger, and those of
\* the replies while no edit overtakes a deletion.
LEMMA ServiceLedgerStep ==
    ASSUME "storage" \notin Fault
    PROVE  /\ ServiceTypeInv /\ LedgerInv /\ [ServiceNext]_serviceVars => LedgerInv'
           /\ "late_edit" \notin Fault
                 => (ServiceTypeInv /\ ReplyInv /\ [ServiceNext]_serviceVars => ReplyInv')
  <1>1. ServiceTypeInv /\ LedgerInv /\ [ServiceNext]_serviceVars => LedgerInv'
    BY LedgerStep, LedgerOut, ServiceSteps, ServiceTypeStep
  <1>2. ASSUME "late_edit" \notin Fault, ServiceTypeInv, ReplyInv, [ServiceNext]_serviceVars
        PROVE  ReplyInv'
    <2>1. LedgerInv /\ ServiceTypeInv'
      BY <1>2, ServiceTypeStep DEF ReplyInv
    <2> QED
      BY <1>2, <2>1, LedgerStep, LedgerOut, ServiceSteps
  <1> QED
    BY <1>1, <1>2

\* Without storage faults the service with both workers implements the
\* contact's lifecycle: a delivery, a lost answer, an alert or an interrupted
\* send never moves a contact.
THEOREM ServiceImplementsGate ==
    ASSUME "storage" \notin Fault
    PROVE  ServiceSpec => ImplementsGate
  <1> DEFINE Both == ServiceTypeInv /\ LifecycleInv
  <1>1. ServiceInit => Both /\ Gate!Init
    BY ServiceStarts, ServiceTypeInit, LifecycleInit, GateInit
  <1>2. Both /\ [ServiceNext]_serviceVars => Both'
    BY LifecycleStep, LifecycleOut, ServiceSteps, ServiceTypeStep
  <1>3. Both /\ Both' /\ [ServiceNext]_serviceVars => [Gate!Next]_(Gate!gateVars)
    BY GateStep, GateOut, ServiceSteps
  <1> HIDE DEF Both
  <1> QED
    BY <1>1, <1>2, <1>3, PTL DEF ServiceSpec, ImplementsGate, Gate!Spec

\* Without storage faults the automatic cleanup spares the Owner's messages,
\* with the outbox worker executing and alerting beside it.
THEOREM ServiceSparesOwner ==
    ASSUME "storage" \notin Fault
    PROVE  ServiceSpec => []CleanupSparesOwner
  <1>1. LedgerInv => CleanupSparesOwner
    BY DEF LedgerInv, CleanupKnown, CleanupSparesOwner, OwnerWrote
  <1>2. ServiceInit => LedgerInv
    BY LedgerInit, ServiceStarts DEF ReplyInv
  <1>3. ServiceTypeInv /\ LedgerInv /\ [ServiceNext]_serviceVars => LedgerInv'
    BY ServiceLedgerStep
  <1> QED
    BY <1>1, <1>2, <1>3, ServiceTypeInit, ServiceTypeStep, PTL DEF ServiceSpec

\* And a conversation is ACTIVE exactly while the ledger holds an undeleted
\* reply of the Owner, while no edit of a reply arrives after its deletion.
THEOREM ServiceActiveMeansReply ==
    ASSUME "storage" \notin Fault, "late_edit" \notin Fault
    PROVE  ServiceSpec => []ActiveIffOwnerReply
  <1>1. ReplyInv => ActiveIffOwnerReply
    BY DEF ReplyInv, LedgerInv, LedgerRows, ReplyMeansActive, ActiveMeansReply, ActiveIffOwnerReply
  <1>2. ServiceTypeInv /\ ReplyInv /\ [ServiceNext]_serviceVars => ReplyInv'
    BY ServiceLedgerStep
  <1> QED
    BY <1>1, <1>2, LedgerInit, ServiceStarts, ServiceTypeInit, ServiceTypeStep, PTL DEF ServiceSpec
=============================================================================
