---------------------------- MODULE AlertsProofs ----------------------------
(***************************************************************************)
(* Proofs about Alerts, for any alerts, prices, plan limit and cooldown.   *)
(* What a request loaded (AskOK) decides what becomes of a deleted alert;  *)
(* what a run selected (RunOK) ties the rows, the mails it has sent and    *)
(* the notifications committed before.  Runs may overlap in Alerts: what   *)
(* is said of mails and counts needs that they do not (OneRun).            *)
(***************************************************************************)
EXTENDS Alerts, TLAPS

Row == [exists : BOOLEAN, active : BOOLEAN, deleted : BOOLEAN, triggered : BOOLEAN,
        count : Nat, notified : Nat, baseline : Nat]

Note == [alert : Alert, nth : Nat, time : Nat, status : {"sent", "failed", "skipped"}]

Run == [pc : {"idle", "run", "notify"}, seen : [Alert -> Row], todo : SUBSET Alert,
        at : SUBSET Alert, held : SUBSET Alert, hit : SUBSET Alert,
        told : [Alert -> Nat], made : SUBSET Note]

Ask == [kind : {"none", "create", "pause", "resume", "delete"},
        alert : SUBSET Alert, loaded : Row]

TypeOK ==
    /\ now \in Nat
    /\ lowest \in Nat
    /\ row \in [Alert -> Row]
    /\ notes \subseteq Note
    /\ run \in [Job -> Run]
    /\ asked \in [Tx -> Ask]
    /\ fired \in [Alert -> Nat]

\* An alert that was never created is blank, and a request creates only such
\* alerts, no two the same one.
AskOK(x) ==
    /\ asked[x].kind = "none" => asked[x].alert = {}
    /\ asked[x].kind # "none" => \E a \in Alert : asked[x].alert = {a}
    /\ asked[x].kind = "create" =>
         /\ \A a \in asked[x].alert : ~row[a].exists
         /\ asked[x].loaded.exists /\ ~asked[x].loaded.deleted
         /\ asked[x].loaded.count = 0 /\ asked[x].loaded.notified = 0
         /\ \A y \in Tx \ {x} : asked[y].kind = "create" => asked[y].alert # asked[x].alert
    /\ asked[x].kind \in {"pause", "resume", "delete"} =>
         \A a \in asked[x].alert : row[a].exists

RowOK(a) == ~row[a].exists => row[a] = NoRow

\* A run is concerned with alerts that exist.
Concerned(j) == run[j].todo \cup run[j].at \cup run[j].held
RowsExist(j) == \A a \in Concerned(j) : row[a].exists

TypeInv ==
    /\ TypeOK
    /\ \A x \in Tx : AskOK(x)
    /\ \A a \in Alert : RowOK(a)
    /\ \A j \in Job : RowsExist(j)

\* With one request at a time, what a request loaded is what the row still is.
OneAsk == \A x, y \in Tx : x = y

LoadedIsCurrent ==
    \A x \in Tx : asked[x].kind \in {"pause", "resume", "delete"} =>
        \A a \in asked[x].alert : ~row[a].deleted /\ row[a].active = asked[x].loaded.active

\* What a run selected is what the rows it is concerned with still hold, and
\* what it has made of it follows from that.
OneRun == \A j, k \in Job : j = k

RunOK(j) ==
    LET r == run[j]
    IN  /\ \A a \in Concerned(j) :
             /\ r.seen[a].count = row[a].count /\ r.seen[a].notified = row[a].notified
        /\ r.todo \cap (r.at \cup r.held) = {}
        /\ r.hit \subseteq r.at \cup r.held
        /\ r.pc = "notify" => /\ r.at \cap r.held = {}
                              /\ r.at \subseteq r.hit
                              /\ \A a \in r.at : ~Recently(r.seen[a])
        /\ \A m \in r.made :
             /\ m.alert \in r.held \cap r.hit
             /\ m.nth = r.seen[m.alert].count + 1
             /\ r.told[m.alert] = m.time + 1
             /\ r.seen[m.alert].notified # 0 =>
                  m.time - (r.seen[m.alert].notified - 1) >= Cooldown
        /\ \A a \in Alert : r.told[a] # 0 => \E m \in r.made : m.alert = a

\* A committed notification is not later than last_notified_at, nor is its
\* number larger than trigger_count.
NoteOK(m) ==
    /\ m.nth =< row[m.alert].count
    /\ m.time < row[m.alert].notified

MailInv ==
    /\ NotificationsSpaced
    /\ TriggersCounted
    /\ \A m \in notes : NoteOK(m)
    /\ \A j \in Job : RunOK(j)

-----------------------------------------------------------------------------
(* Type correctness *)

\* A request changes a row only as far as it was created, deleted, paused or
\* resumed; the trigger count and the time of the last mail stay.
LEMMA ChangedRow ==
    ASSUME NEW k \in {"create", "pause", "resume", "delete"}, NEW old \in Row, NEW cur \in Row
    PROVE  LET new == Changed(k, old, cur) IN
           /\ new \in Row
           /\ k = "create" => new = old
           /\ k # "create" => /\ new.exists = cur.exists
                              /\ new.count = cur.count /\ new.notified = cur.notified
                              /\ cur.deleted => new.deleted
<1>1. CASE k = "create" BY <1>1 DEF Changed
<1>2. CASE k = "delete" BY <1>2 DEF Changed, Row
<1>3. CASE k = "pause" BY <1>3 DEF Changed, Row
<1>4. CASE k = "resume" BY <1>4 DEF Changed, Row
<1> QED BY <1>1, <1>2, <1>3, <1>4

\* The row a request writes.
LEMMA AskCommitRow ==
    ASSUME TypeInv, NEW x \in Tx, AskCommit(x)
    PROVE  \E a \in Alert :
             /\ asked[x].alert = {a} /\ ~Locked(a)
             /\ asked[x].kind \in {"create", "pause", "resume", "delete"}
             /\ row' = [row EXCEPT ![a] = Changed(asked[x].kind, asked[x].loaded, row[a])]
<1>1. asked[x].kind # "none" BY DEF AskCommit
<1>2. asked[x] \in Ask BY DEF TypeInv, TypeOK
<1>3. asked[x].kind \in {"create", "pause", "resume", "delete"} BY <1>1, <1>2 DEF Ask
<1>4. PICK a \in Alert : asked[x].alert = {a} BY <1>1 DEF TypeInv, AskOK
<1> QED BY <1>3, <1>4 DEF AskCommit

\* What a run writes of a row.
LEMMA CheckedRow ==
    ASSUME TypeOK, NEW j \in Job, NEW a \in Alert
    PROVE  LET new == Checked(run[j], a) IN
           /\ new \in Row
           /\ new.exists = row[a].exists
           /\ new.deleted = row[a].deleted /\ new.active = row[a].active
           /\ new.count = IF a \in run[j].hit THEN run[j].seen[a].count + 1 ELSE row[a].count
           /\ new.notified = IF run[j].told[a] # 0 THEN run[j].told[a] ELSE row[a].notified
<1>1. row[a] \in Row /\ run[j] \in Run BY DEF TypeOK
<1>2. run[j].seen[a] \in Row /\ run[j].told[a] \in Nat BY <1>1 DEF Run
<1>3. run[j].seen[a].count + 1 \in Nat BY <1>2 DEF Row
<1> QED BY <1>1, <1>2, <1>3 DEF Checked, Row

\* The initial states are typed.
LEMMA TypeInit == Init => TypeInv
<1> SUFFICES ASSUME Init PROVE TypeInv OBVIOUS
<1>1. NoRow \in Row BY DEF NoRow, Row
<1>2. NoRun \in Run BY <1>1 DEF NoRun, Run
<1>3. NoAsk \in Ask BY <1>1 DEF NoAsk, Ask
<1>4. lowest \in Nat BY PriceAssumption DEF Init
<1>5. TypeOK BY <1>1, <1>2, <1>3, <1>4 DEF Init, TypeOK
<1> QED BY <1>5 DEF Init, TypeInv, AskOK, RowOK, NoAsk, RowsExist, Concerned, NoRun

\* Requests that begin or fail leave the table alone.
LEMMA AskType ==
    ASSUME TypeInv, NEW x \in Tx, Requests(x)
    PROVE  TypeInv'
<1>1. ASSUME NEW a \in Alert, CreateBegin(x, a) PROVE TypeInv'
    <2> DEFINE l == [NoRow EXCEPT !.exists = TRUE, !.active = TRUE, !.baseline = lowest]
               q == [kind |-> "create", alert |-> {a}, loaded |-> l]
    <2>1. /\ l \in Row /\ l.exists /\ ~l.deleted /\ l.count = 0 /\ l.notified = 0
        BY DEF NoRow, Row, TypeInv, TypeOK
    <2> HIDE DEF l
    <2>2. q \in Ask BY <2>1 DEF Ask
    <2>3. asked' = [asked EXCEPT ![x] = q] BY <1>1 DEF CreateBegin, l
    <2>4. TypeOK' BY <1>1, <2>2, <2>3 DEF CreateBegin, TypeInv, TypeOK
    <2>5. ASSUME NEW y \in Tx PROVE AskOK(y)'
        <3>1. CASE y = x
            <4>1. /\ asked'[x].kind = "create" /\ asked'[x].alert = {a}
                  /\ asked'[x].loaded = l
                BY <2>3 DEF TypeInv, TypeOK
            <4>2. row' = row /\ ~row[a].exists BY <1>1 DEF CreateBegin
            <4>3. ASSUME NEW z \in Tx \ {x}, asked'[z].kind = "create"
                  PROVE  asked'[z].alert # {a}
                BY <1>1, <2>3, <4>3 DEF CreateBegin, TypeInv, TypeOK
            <4> QED BY <2>1, <3>1, <4>1, <4>2, <4>3 DEF AskOK
        <3>2. CASE y # x
            BY <1>1, <2>3, <3>2 DEF CreateBegin, AskOK, TypeInv, TypeOK
        <3> QED BY <3>1, <3>2
    <2> QED BY <1>1, <2>4, <2>5 DEF CreateBegin, TypeInv, RowOK, RowsExist, Concerned
<1>2. ASSUME NEW a \in Alert, NEW k \in {"pause", "resume", "delete"}, ChangeBegin(x, k, a)
      PROVE  TypeInv'
    <2> DEFINE q == [kind |-> k, alert |-> {a}, loaded |-> row[a]]
    <2>1. q \in Ask BY DEF Ask, TypeInv, TypeOK
    <2>2. asked' = [asked EXCEPT ![x] = q] BY <1>2 DEF ChangeBegin
    <2>3. TypeOK' BY <1>2, <2>1, <2>2 DEF ChangeBegin, TypeInv, TypeOK
    <2>4. ASSUME NEW y \in Tx PROVE AskOK(y)'
        BY <1>2, <2>2 DEF ChangeBegin, AskOK, TypeInv, TypeOK
    <2> QED BY <1>2, <2>3, <2>4 DEF ChangeBegin, TypeInv, RowOK, RowsExist, Concerned
<1>3. CASE AskAbort(x)
    <2>1. NoAsk \in Ask BY DEF NoAsk, Ask, NoRow, Row
    <2>2. TypeOK' BY <1>3, <2>1 DEF AskAbort, TypeInv, TypeOK
    <2>3. ASSUME NEW y \in Tx PROVE AskOK(y)'
        BY <1>3 DEF AskAbort, AskOK, TypeInv, TypeOK, NoAsk
    <2> QED BY <1>3, <2>2, <2>3 DEF AskAbort, TypeInv, RowOK, RowsExist, Concerned
<1>4. CASE AskCommit(x)
    <2>1. PICK a \in Alert :
            /\ asked[x].alert = {a} /\ ~Locked(a)
            /\ asked[x].kind \in {"create", "pause", "resume", "delete"}
            /\ row' = [row EXCEPT ![a] = Changed(asked[x].kind, asked[x].loaded, row[a])]
        BY <1>4, AskCommitRow
    <2>2. asked' = [asked EXCEPT ![x] = NoAsk] /\ UNCHANGED <<now, lowest, notes, run, fired>>
        BY <1>4 DEF AskCommit
    <2>3. NoAsk \in Ask BY DEF NoAsk, Ask, NoRow, Row
    <2>4. row[a] \in Row /\ asked[x].loaded \in Row BY DEF TypeInv, TypeOK, Ask
    <2>5. row' \in [Alert -> Row] /\ row'[a].exists
        <3>1. row'[a] \in Row BY <2>1, <2>4, ChangedRow DEF TypeInv, TypeOK
        <3>2. row'[a].exists
            <4>1. AskOK(x) /\ row'[a] = Changed(asked[x].kind, asked[x].loaded, row[a])
                BY <2>1 DEF TypeInv, TypeOK
            <4>2. CASE asked[x].kind = "create"
                BY <2>1, <2>4, <4>1, <4>2, ChangedRow DEF AskOK
            <4>3. CASE asked[x].kind # "create"
                <5>1. row[a].exists BY <2>1, <4>1, <4>3 DEF AskOK
                <5> QED BY <2>1, <2>4, <4>1, <4>3, <5>1, ChangedRow
            <4> QED BY <4>2, <4>3
        <3> QED BY <2>1, <3>1, <3>2 DEF TypeInv, TypeOK
    <2>6. TypeOK' BY <2>2, <2>3, <2>5 DEF TypeInv, TypeOK
    <2>7. ASSUME NEW y \in Tx PROVE AskOK(y)'
        <3>1. CASE y = x BY <2>2, <3>1 DEF AskOK, TypeInv, TypeOK, NoAsk
        <3>2. CASE y # x
            <4>1. asked'[y] = asked[y] BY <2>2, <3>2 DEF TypeInv, TypeOK
            <4>2. \A b \in Alert : b # a => row'[b] = row[b] BY <2>1 DEF TypeInv, TypeOK
            <4>3. \A z \in Tx : asked'[z] = asked[z] \/ asked'[z].kind = "none"
                BY <2>2 DEF TypeInv, TypeOK, NoAsk
            <4>4. AskOK(y) /\ AskOK(x) BY DEF TypeInv
            <4>5. asked[y].kind = "create" => a \notin asked[y].alert
                <5>1. asked[x].kind = "create" /\ asked[y].kind = "create" =>
                        asked[y].alert # asked[x].alert
                    BY <3>2, <4>4 DEF AskOK
                <5>2. asked[x].kind # "create" => row[a].exists BY <2>1, <4>4 DEF AskOK
                <5> QED BY <2>1, <4>4, <5>1, <5>2 DEF AskOK
            <4>6. asked[y].alert \subseteq Alert BY DEF TypeInv, TypeOK, Ask
            <4> QED BY <2>5, <4>1, <4>2, <4>3, <4>4, <4>5, <4>6 DEF AskOK
        <3> QED BY <3>1, <3>2
    <2>8. ASSUME NEW b \in Alert PROVE RowOK(b)'
        BY <2>1, <2>5 DEF RowOK, TypeInv, TypeOK
    <2>9. ASSUME NEW j \in Job PROVE RowsExist(j)'
        <3>1. \A b \in Alert : row[b].exists => row'[b].exists
            BY <2>1, <2>5 DEF TypeInv, TypeOK
        <3>2. Concerned(j) \subseteq Alert BY DEF TypeInv, TypeOK, Run, Concerned
        <3> QED BY <2>2, <3>1, <3>2 DEF RowsExist, Concerned, TypeInv
    <2> QED BY <2>6, <2>7, <2>8, <2>9 DEF TypeInv
<1> QED BY <1>1, <1>2, <1>3, <1>4 DEF Requests

\* Rows a run may write exist, so that it leaves no blank row half written.
LEMMA CheckType ==
    ASSUME TypeInv, NEW j \in Job, Checks(j)
    PROVE  TypeInv'
<1>1. ASSUME run' \in [Job -> Run], UNCHANGED <<now, lowest, row, notes, asked, fired>>
      PROVE  TypeOK' /\ (\A x \in Tx : AskOK(x)') /\ (\A a \in Alert : RowOK(a)')
    BY <1>1 DEF TypeInv, TypeOK, AskOK, RowOK
<1>2. run \in [Job -> Run] /\ run[j] \in Run /\ NoRow \in Row /\ NoRun \in Run
    BY DEF TypeInv, TypeOK, NoRun, Run, NoRow, Row
<1>3. CASE RunStart(j)
    <2> DEFINE seen == [a \in Alert |-> IF a \in Active THEN row[a] ELSE NoRow]
    <2>1. seen \in [Alert -> Row] BY <1>2 DEF TypeInv, TypeOK
    <2>2. Active \subseteq Alert BY DEF Active
    <2> HIDE DEF seen
    <2>3. [NoRun EXCEPT !.pc = "run", !.todo = Active, !.seen = seen] \in Run
        BY <1>2, <2>1, <2>2 DEF Run
    <2>4. run' \in [Job -> Run] BY <1>2, <1>3, <2>3 DEF RunStart, seen
    <2>5. \A a \in Active : row[a].exists
        BY DEF Active, TypeInv, RowOK, NoRow
    <2>6. ASSUME NEW k \in Job PROVE RowsExist(k)'
        BY <1>2, <1>3, <2>5 DEF RunStart, RowsExist, Concerned, NoRun, TypeInv
    <2>7. UNCHANGED <<now, lowest, row, notes, asked, fired>> BY <1>3 DEF RunStart
    <2> QED BY <1>1, <2>4, <2>6, <2>7 DEF TypeInv
<1>4. ASSUME NEW a \in Alert, Visit(j, a) PROVE TypeInv'
    <2> DEFINE r == run[j]
               hits == lowest # 0 /\ ShouldTrigger(a, r.seen[a], lowest)
    <2>1. ASSUME NEW hit \in BOOLEAN, NEW p \in {"run", "notify"}
          PROVE  [r EXCEPT !.held = @ \cup r.at, !.at = {a}, !.todo = @ \ {a},
                           !.hit = IF hit THEN @ \cup {a} ELSE @, !.pc = p] \in Run
        BY <1>2 DEF Run
    <2>2. \E hit \in BOOLEAN, p \in {"run", "notify"} :
            run' = [run EXCEPT ![j] =
                      [r EXCEPT !.held = @ \cup r.at, !.at = {a}, !.todo = @ \ {a},
                                !.hit = IF hit THEN @ \cup {a} ELSE @, !.pc = p]]
        <3>1. CASE hits BY <1>4, <3>1 DEF Visit
        <3>2. CASE ~hits BY <1>4, <3>2 DEF Visit
        <3> QED BY <3>1, <3>2
    <2>3. run' \in [Job -> Run] BY <1>2, <2>1, <2>2
    <2>4. a \in r.todo /\ UNCHANGED <<now, lowest, row, notes, asked, fired>> BY <1>4 DEF Visit
    <2>5. ASSUME NEW k \in Job PROVE RowsExist(k)'
        BY <1>2, <2>2, <2>4 DEF RowsExist, Concerned, TypeInv, Run
    <2> QED BY <1>1, <2>3, <2>4, <2>5 DEF TypeInv
<1>5. ASSUME NEW status \in {"sent", "failed", "skipped"}, Notify(j, status) PROVE TypeInv'
    <2> DEFINE r == run[j]
               told == [b \in Alert |-> IF b \in r.at THEN now + 1 ELSE r.told[b]]
               new == {[alert |-> b, nth |-> r.seen[b].count + 1,
                        time |-> now, status |-> status] : b \in r.at}
    <2>1. told \in [Alert -> Nat] BY <1>2 DEF Run, TypeInv, TypeOK
    <2>2. \A b \in r.at : b \in Alert /\ r.seen[b].count + 1 \in Nat /\ now \in Nat
        BY <1>2 DEF Run, Row, TypeInv, TypeOK
    <2>3. new \subseteq Note BY <2>2 DEF Note
    <2>4. run' = [run EXCEPT ![j] = [r EXCEPT !.pc = "run", !.held = @ \cup r.at,
                                              !.told = told, !.made = @ \cup new]]
        BY <1>5 DEF Notify
    <2> HIDE DEF told, new
    <2>5. [r EXCEPT !.pc = "run", !.held = @ \cup r.at, !.told = told, !.made = @ \cup new] \in Run
        BY <1>2, <2>1, <2>3 DEF Run
    <2>6. run' \in [Job -> Run] BY <1>2, <2>4, <2>5
    <2>7. UNCHANGED <<now, lowest, row, notes, asked, fired>> BY <1>5 DEF Notify
    <2>8. ASSUME NEW k \in Job PROVE RowsExist(k)'
        BY <1>2, <2>4, <2>7 DEF RowsExist, Concerned, TypeInv, Run
    <2> QED BY <1>1, <2>6, <2>7, <2>8 DEF TypeInv
<1>6. CASE RunFail(j)
    <2>1. ASSUME NEW k \in Job PROVE RowsExist(k)'
        BY <1>2, <1>6 DEF RunFail, RowsExist, Concerned, NoRun, TypeInv
    <2> QED BY <1>1, <1>2, <1>6, <2>1 DEF RunFail, TypeInv
<1>7. CASE RunCommit(j)
    <2> DEFINE wrote == run[j].held \cup run[j].at
    <2>1. \A a \in Alert : row'[a] = IF a \in wrote THEN Checked(run[j], a) ELSE row[a]
        BY <1>7 DEF RunCommit
    <2>2. row' \in [Alert -> Row]
        <3>1. \A a \in Alert : row'[a] \in Row BY <2>1, CheckedRow DEF TypeInv, TypeOK
        <3>2. row' = [a \in Alert |-> row'[a]] BY <1>7 DEF RunCommit
        <3> HIDE DEF wrote
        <3> QED BY <3>1, <3>2
    <2>3. \A a \in Alert : row'[a].exists = row[a].exists
        BY <2>1, CheckedRow DEF TypeInv
    <2>4. fired' \in [Alert -> Nat] BY <1>7 DEF RunCommit, TypeInv, TypeOK
    <2>5. notes' \subseteq Note BY <1>2, <1>7 DEF RunCommit, Run, TypeInv, TypeOK
    <2>6. run' \in [Job -> Run] BY <1>2, <1>7 DEF RunCommit
    <2>7. UNCHANGED <<now, lowest, asked>> BY <1>7 DEF RunCommit
    <2>8. TypeOK' BY <2>2, <2>4, <2>5, <2>6, <2>7 DEF TypeInv, TypeOK
    <2>9. ASSUME NEW x \in Tx PROVE AskOK(x)'
        <3>1. asked[x].alert \subseteq Alert BY DEF TypeInv, TypeOK, Ask
        <3> HIDE DEF wrote
        <3> QED BY <2>3, <2>7, <3>1 DEF AskOK, TypeInv
    <2>10. ASSUME NEW a \in Alert PROVE RowOK(a)'
        <3>1. a \in wrote => row[a].exists BY DEF TypeInv, RowsExist, Concerned
        <3> HIDE DEF wrote
        <3> QED BY <2>1, <2>3, <3>1 DEF RowOK, TypeInv
    <2>11. ASSUME NEW k \in Job PROVE RowsExist(k)'
        <3>1. Concerned(k) \subseteq Alert BY DEF TypeInv, TypeOK, Run, Concerned
        <3>2. Concerned(k)' \subseteq Concerned(k)
            BY <1>2, <1>7 DEF RunCommit, Concerned, NoRun
        <3> QED BY <2>3, <3>1, <3>2 DEF RowsExist, TypeInv
    <2> QED BY <2>8, <2>9, <2>10, <2>11 DEF TypeInv
<1> QED BY <1>3, <1>4, <1>5, <1>6, <1>7 DEF Checks

\* TypeInv is inductive.
LEMMA TypeStep == TypeInv /\ [Next]_vars => TypeInv'
<1> SUFFICES ASSUME TypeInv, [Next]_vars PROVE TypeInv' OBVIOUS
<1>1. ASSUME now' \in Nat, lowest' \in Nat, UNCHANGED <<row, notes, run, asked, fired>>
      PROVE  TypeInv'
    BY <1>1 DEF TypeInv, TypeOK, AskOK, RowOK, RowsExist, Concerned
<1>2. now \in Nat /\ lowest \in Nat BY DEF TypeInv, TypeOK
<1>3. ASSUME NEW p \in Price \cup {0}, PriceChange(p) PROVE TypeInv'
    BY <1>1, <1>2, <1>3, PriceAssumption DEF PriceChange
<1>4. CASE Tick BY <1>1, <1>2, <1>4 DEF Tick
<1>5. CASE UNCHANGED vars BY <1>1, <1>2, <1>5 DEF vars
<1> QED BY <1>3, <1>4, <1>5, AskType, CheckType DEF Next

\* The tables, what requests loaded and what runs selected are typed, an alert
\* that was never created is blank, and runs and requests name alerts that are
\* there (or, for create, are not).
THEOREM TypeCorrect == Spec => []TypeInv
BY TypeInit, TypeStep, PTL DEF Spec

-----------------------------------------------------------------------------
(* A deleted alert *)

\* Rows are written by the commits of requests and of runs alone, and a run
\* writes neither column that deletion is about.
LEMMA RowWriters ==
    ASSUME TypeInv, [Next]_vars, \A x \in Tx : ~AskCommit(x), NEW a \in Alert
    PROVE  row'[a].deleted = row[a].deleted /\ row'[a].active = row[a].active
<1>1. CASE \E j \in Job : RunCommit(j)
    <2>1. PICK j \in Job : RunCommit(j) BY <1>1
    <2>2. row'[a] = row[a] \/ row'[a] = Checked(run[j], a) BY <2>1 DEF RunCommit
    <2> QED BY <2>2, CheckedRow DEF TypeInv
<1>2. CASE \A j \in Job : ~RunCommit(j)
    <2>1. row' = row
        BY <1>2 DEF Next, vars, Requests, CreateBegin, ChangeBegin, AskAbort, Checks, RunStart,
           Visit, Notify, RunFail, PriceChange, Tick
    <2> QED BY <2>1
<1> QED BY <1>1, <1>2

\* However many requests and runs overlap, no alert comes back: create only
\* writes a row that is not there, and nothing else clears deleted_at.
THEOREM DeletedForGood == Spec => [][\A a \in Alert : row[a].deleted => row'[a].deleted]_vars
<1>1. TypeInv /\ [Next]_vars => \A a \in Alert : row[a].deleted => row'[a].deleted
    <2> SUFFICES ASSUME TypeInv, [Next]_vars, NEW a \in Alert, row[a].deleted PROVE row'[a].deleted
        OBVIOUS
    <2>1. CASE \A x \in Tx : ~AskCommit(x) BY <2>1, RowWriters
    <2>2. ASSUME NEW x \in Tx, AskCommit(x) PROVE row'[a].deleted
        <3>1. PICK b \in Alert :
                /\ asked[x].alert = {b}
                /\ asked[x].kind \in {"create", "pause", "resume", "delete"}
                /\ row' = [row EXCEPT ![b] = Changed(asked[x].kind, asked[x].loaded, row[b])]
            BY <2>2, AskCommitRow
        <3>2. CASE a # b BY <3>1, <3>2 DEF TypeInv, TypeOK
        <3>3. CASE a = b
            <4>1. asked[x].kind # "create"
                BY <3>1, <3>3 DEF TypeInv, AskOK, RowOK, NoRow
            <4>2. asked[x].loaded \in Row /\ row[a] \in Row BY DEF TypeInv, TypeOK, Ask
            <4>3. row'[a] = Changed(asked[x].kind, asked[x].loaded, row[a])
                BY <3>1, <3>3 DEF TypeInv, TypeOK
            <4> QED BY <3>1, <4>1, <4>2, <4>3, ChangedRow
        <3> QED BY <3>2, <3>3
    <2> QED BY <2>1, <2>2
<1> QED BY <1>1, TypeInit, TypeStep, PTL DEF Spec

\* No two requests overlap, so a request commits against what it loaded.
LEMMA LoadedStep ==
    ASSUME OneAsk
    PROVE  TypeInv /\ LoadedIsCurrent /\ [Next]_vars => LoadedIsCurrent'
<1> SUFFICES ASSUME TypeInv, LoadedIsCurrent, [Next]_vars,
                    NEW x \in Tx, asked'[x].kind \in {"pause", "resume", "delete"},
                    NEW a \in asked'[x].alert
             PROVE  ~row'[a].deleted /\ row'[a].active = asked'[x].loaded.active
    BY DEF LoadedIsCurrent
<1>1. a \in Alert
    <2>1. TypeOK' BY TypeStep DEF TypeInv
    <2> QED BY <2>1 DEF TypeOK, Ask
<1>2. ASSUME NEW y \in Tx, AskCommit(y) \/ AskAbort(y) PROVE FALSE
    BY <1>2 DEF OneAsk, AskCommit, AskAbort, NoAsk, TypeInv, TypeOK
<1>3. row'[a].deleted = row[a].deleted /\ row'[a].active = row[a].active
    BY <1>1, <1>2, RowWriters
<1>4. ASSUME NEW b \in Alert, CreateBegin(x, b) PROVE FALSE
    BY <1>4 DEF CreateBegin, TypeInv, TypeOK
<1>5. ASSUME NEW b \in Alert, NEW k \in {"pause", "resume", "delete"}, ChangeBegin(x, k, b)
      PROVE  ~row[a].deleted /\ row[a].active = asked'[x].loaded.active
    BY <1>5 DEF ChangeBegin, TypeInv, TypeOK
<1>6. CASE asked' = asked BY <1>3, <1>6 DEF LoadedIsCurrent
<1>7. asked' = asked \/ \E y \in Tx : Requests(y)
    BY DEF Next, vars, Checks, RunStart, Visit, Notify, RunCommit, RunFail, PriceChange, Tick
<1>8. CASE \E y \in Tx : Requests(y)
    <2>1. Requests(x) BY <1>8 DEF OneAsk
    <2> QED BY <1>2, <1>3, <1>4, <1>5, <2>1 DEF Requests
<1> QED BY <1>6, <1>7, <1>8

\* With one request of the account at a time, and any number of runs of the
\* job beside it, a deleted alert stays deleted and inactive.
THEOREM DeletedStays ==
    ASSUME OneAsk
    PROVE  Spec => DeletedStaysDeleted
<1>1. TypeInv /\ LoadedIsCurrent /\ [Next]_vars =>
        \A a \in Alert : row[a].deleted => row'[a].deleted /\ (~row[a].active => ~row'[a].active)
    <2> SUFFICES ASSUME TypeInv, LoadedIsCurrent, [Next]_vars, NEW a \in Alert, row[a].deleted
                 PROVE  row'[a].deleted /\ (~row[a].active => ~row'[a].active)
        OBVIOUS
    <2>1. CASE \A x \in Tx : ~AskCommit(x) BY <2>1, RowWriters
    <2>2. ASSUME NEW x \in Tx, AskCommit(x) PROVE row'[a] = row[a]
        <3>1. PICK b \in Alert :
                /\ asked[x].alert = {b}
                /\ asked[x].kind \in {"create", "pause", "resume", "delete"}
                /\ row' = [row EXCEPT ![b] = Changed(asked[x].kind, asked[x].loaded, row[b])]
            BY <2>2, AskCommitRow
        <3>2. a # b
            BY <3>1 DEF TypeInv, AskOK, RowOK, NoRow, LoadedIsCurrent
        <3> QED BY <3>1, <3>2 DEF TypeInv, TypeOK
    <2> QED BY <2>1, <2>2
<1>2. Init => LoadedIsCurrent BY DEF Init, LoadedIsCurrent, NoAsk
<1> QED BY <1>1, <1>2, TypeInit, TypeStep, LoadedStep, PTL DEF Spec, DeletedStaysDeleted

-----------------------------------------------------------------------------
(* Mails and trigger counts, when runs do not overlap *)

\* Requests touch neither the trigger count nor the time of the last mail.
LEMMA AskKeeps ==
    ASSUME TypeInv, NEW x \in Tx, Requests(x), NEW a \in Alert
    PROVE  row'[a].count = row[a].count /\ row'[a].notified = row[a].notified
<1>1. CASE AskCommit(x)
    <2>1. PICK b \in Alert :
            /\ asked[x].alert = {b}
            /\ asked[x].kind \in {"create", "pause", "resume", "delete"}
            /\ row' = [row EXCEPT ![b] = Changed(asked[x].kind, asked[x].loaded, row[b])]
        BY <1>1, AskCommitRow
    <2>2. CASE a # b BY <2>1, <2>2 DEF TypeInv, TypeOK
    <2>3. CASE a = b
        <3>1. row'[a] = Changed(asked[x].kind, asked[x].loaded, row[a])
            BY <2>1, <2>3 DEF TypeInv, TypeOK
        <3>2. asked[x].loaded \in Row /\ row[a] \in Row BY DEF TypeInv, TypeOK, Ask
        <3>3. CASE asked[x].kind = "create"
            <4>1. /\ row[a].count = 0 /\ row[a].notified = 0
                  /\ asked[x].loaded.count = 0 /\ asked[x].loaded.notified = 0
                BY <2>1, <2>3, <3>3 DEF TypeInv, AskOK, RowOK, NoRow
            <4> QED BY <2>1, <3>1, <3>2, <3>3, <4>1, ChangedRow
        <3>4. CASE asked[x].kind # "create" BY <2>1, <3>1, <3>2, <3>4, ChangedRow
        <3> QED BY <3>3, <3>4
    <2> QED BY <2>2, <2>3
<1>2. CASE ~AskCommit(x)
    BY <1>2 DEF Requests, CreateBegin, ChangeBegin, AskAbort
<1> QED BY <1>1, <1>2

\* A cooldown that is over stays over.
LEMMA CooldownPasses ==
    ASSUME NEW r \in Row, ~Recently(r), now \in Nat, now' \in {now, now + 1}
    PROVE  ~Recently(r)'
<1>1. r.notified \in Nat BY DEF Row
<1>2. r.notified = 0 \/ ~(now - (r.notified - 1) < Cooldown) BY DEF Recently
<1>3. r.notified = 0 \/ ~(now' - (r.notified - 1) < Cooldown)
    BY <1>1, <1>2, NumbersAssumption
<1> QED BY <1>3 DEF Recently

\* What others do leaves a run and the committed notifications in order.
LEMMA OthersKeepMail ==
    ASSUME TypeInv, MailInv, UNCHANGED <<run, notes, fired>>, now' \in {now, now + 1},
           \A a \in Alert : row'[a].count = row[a].count /\ row'[a].notified = row[a].notified
    PROVE  MailInv'
<1>1. ASSUME NEW m \in notes PROVE NoteOK(m)'
    <2>1. NoteOK(m) /\ m.alert \in Alert BY DEF MailInv, TypeInv, TypeOK, Note
    <2> QED BY <2>1 DEF NoteOK
<1>2. ASSUME NEW j \in Job PROVE RunOK(j)'
    <2>1. run[j] \in Run /\ now \in Nat BY DEF TypeInv, TypeOK
    <2>2. Concerned(j) \subseteq Alert /\ Concerned(j)' = Concerned(j) BY <2>1 DEF Concerned, Run
    <2>3. RunOK(j) BY DEF MailInv
    <2>4. ASSUME NEW a \in run[j].at, run[j].pc = "notify" PROVE ~Recently(run[j].seen[a])'
        <3>1. ~Recently(run[j].seen[a]) /\ run[j].seen[a] \in Row BY <2>1, <2>3, <2>4 DEF RunOK, Run
        <3>2. PICK r \in Row : r = run[j].seen[a] BY <3>1
        <3>3. ~Recently(r)' BY <2>1, <3>1, <3>2, CooldownPasses
        <3> QED BY <3>2, <3>3 DEF Recently
    <2> QED BY <2>2, <2>3, <2>4 DEF RunOK
<1> QED BY <1>1, <1>2 DEF MailInv, NotificationsSpaced, TriggersCounted

\* A run that starts has the rows as they are and has made nothing of them.
LEMMA StartMail ==
    ASSUME TypeInv, NEW j \in Job, RunStart(j)
    PROVE  RunOK(j)'
<1>1. /\ run'[j].pc = "run" /\ run'[j].todo = Active
      /\ run'[j].at = {} /\ run'[j].held = {} /\ run'[j].hit = {} /\ run'[j].made = {}
      /\ run'[j].told = [a \in Alert |-> 0]
      /\ run'[j].seen = [a \in Alert |-> IF a \in Active THEN row[a] ELSE NoRow]
    BY DEF RunStart, NoRun, TypeInv, TypeOK
<1>2. Active \subseteq Alert /\ row' = row BY DEF Active, RunStart
<1> QED BY <1>1, <1>2 DEF RunOK, Concerned

\* An alert is visited once, and goes on to its mail only past the cooldown.
LEMMA VisitMail ==
    ASSUME TypeInv, NEW j \in Job, RunOK(j), NEW a \in Alert, Visit(j, a)
    PROVE  RunOK(j)'
<1> DEFINE r == run[j]
<1>1. /\ r.pc = "run" /\ a \in r.todo
      /\ run'[j].held = r.held \cup r.at /\ run'[j].at = {a} /\ run'[j].todo = r.todo \ {a}
      /\ run'[j].hit \in {r.hit, r.hit \cup {a}}
      /\ run'[j].pc = "notify" => a \in run'[j].hit /\ ~Recently(r.seen[a])
      /\ run'[j].made = r.made /\ run'[j].told = r.told /\ run'[j].seen = r.seen
    <2>1. run \in [Job -> Run] /\ r \in Run BY DEF TypeInv, TypeOK
    <2> QED BY <2>1 DEF Visit, Run
<1>2. UNCHANGED <<row, now>> BY DEF Visit
<1>3. run'[j].pc = "notify" => ~Recently(run[j].seen[a])'
    BY <1>1, <1>2 DEF Recently
<1> HIDE DEF r
<1> QED BY <1>1, <1>2, <1>3 DEF RunOK, Concerned, r

\* The mail is made for the trigger that follows the last one committed, after
\* the cooldown, and the alert is not visited again.
LEMMA NotifyMail ==
    ASSUME TypeInv, NEW j \in Job, RunOK(j),
           NEW status \in {"sent", "failed", "skipped"}, Notify(j, status)
    PROVE  RunOK(j)'
<1> DEFINE r == run[j]
           new == {[alert |-> b, nth |-> r.seen[b].count + 1,
                    time |-> now, status |-> status] : b \in r.at}
<1>0. run \in [Job -> Run] /\ r \in Run /\ now \in Nat BY DEF TypeInv, TypeOK
<1>1. /\ r.pc = "notify"
      /\ run'[j].pc = "run" /\ run'[j].held = r.held \cup r.at
      /\ run'[j].at = r.at /\ run'[j].todo = r.todo /\ run'[j].hit = r.hit
      /\ run'[j].seen = r.seen
      /\ run'[j].told = [b \in Alert |-> IF b \in r.at THEN now + 1 ELSE r.told[b]]
      /\ run'[j].made = r.made \cup new
    BY <1>0 DEF Notify, Run
<1>2. UNCHANGED row BY DEF Notify
<1>3. \A m \in new : m.alert \in r.at /\ m.nth = r.seen[m.alert].count + 1 /\ m.time = now
    OBVIOUS
<1>4. ASSUME NEW b \in r.at PROVE \E m \in new : m.alert = b
    <2> DEFINE m == [alert |-> b, nth |-> r.seen[b].count + 1, time |-> now, status |-> status]
    <2>1. m \in new /\ m.alert = b OBVIOUS
    <2> QED BY <2>1
<1>5. r.at \subseteq Alert /\ r.at \subseteq r.hit /\ r.at \cap r.held = {}
    BY <1>0, <1>1 DEF RunOK, Run
<1>6. r.made \subseteq Note BY <1>0 DEF Run
<1> HIDE DEF new
<1>7. ASSUME NEW m \in new
      PROVE  /\ m.alert \in run'[j].held \cap run'[j].hit
             /\ m.nth = run'[j].seen[m.alert].count + 1
             /\ run'[j].told[m.alert] = m.time + 1
             /\ run'[j].seen[m.alert].notified # 0 =>
                  m.time - (run'[j].seen[m.alert].notified - 1) >= Cooldown
    <2>1. ~Recently(r.seen[m.alert]) /\ r.seen[m.alert].notified \in Nat
        BY <1>0, <1>1, <1>3, <1>5 DEF RunOK, Run, Row
    <2>2. r.seen[m.alert].notified # 0 => now - (r.seen[m.alert].notified - 1) >= Cooldown
        BY <2>1, <1>0, NumbersAssumption DEF Recently
    <2> QED BY <1>1, <1>3, <1>5, <2>2
<1>8. ASSUME NEW m \in r.made
      PROVE  /\ m.alert \in run'[j].held \cap run'[j].hit
             /\ m.nth = run'[j].seen[m.alert].count + 1
             /\ run'[j].told[m.alert] = m.time + 1
             /\ run'[j].seen[m.alert].notified # 0 =>
                  m.time - (run'[j].seen[m.alert].notified - 1) >= Cooldown
    <2>1. m.alert \in r.held /\ m.alert \in Alert /\ m.alert \notin r.at
        BY <1>5, <1>6 DEF RunOK, Note
    <2> QED BY <1>1, <2>1 DEF RunOK
<1>9. \A a \in Alert : run'[j].told[a] # 0 => \E m \in run'[j].made : m.alert = a
    BY <1>1, <1>4 DEF RunOK
<1>10. /\ \A a \in Concerned(j)' : /\ run'[j].seen[a].count = row'[a].count
                                   /\ run'[j].seen[a].notified = row'[a].notified
       /\ run'[j].todo \cap (run'[j].at \cup run'[j].held) = {}
       /\ run'[j].hit \subseteq run'[j].at \cup run'[j].held
    BY <1>1, <1>2 DEF RunOK, Concerned
<1> QED BY <1>1, <1>7, <1>8, <1>9, <1>10 DEF RunOK

\* An idle slot has made nothing.
LEMMA IdleMail ==
    ASSUME TypeInv, NEW j \in Job, run' = [run EXCEPT ![j] = NoRun]
    PROVE  RunOK(j)'
<1>1. run'[j] = NoRun BY DEF TypeInv, TypeOK
<1> QED BY <1>1 DEF RunOK, Concerned, NoRun

\* A run that commits leaves the notifications spaced and the counts right.
LEMMA CommitMail ==
    ASSUME TypeInv, MailInv, NEW j \in Job, RunCommit(j)
    PROVE  NotificationsSpaced' /\ TriggersCounted' /\ \A m \in notes' : NoteOK(m)'
<1> DEFINE r == run[j]
           wrote == r.held \cup r.at
<1>1. /\ notes' = notes \cup r.made
      /\ \A a \in Alert : row'[a] = IF a \in wrote THEN Checked(r, a) ELSE row[a]
      /\ \A a \in Alert : fired'[a] = fired[a] + (IF a \in r.hit THEN 1 ELSE 0)
    BY DEF RunCommit
<1>2. /\ r \in Run /\ r.hit \subseteq wrote
      /\ r.made \subseteq Note /\ notes \subseteq Note
      /\ RunOK(j)
    BY DEF TypeInv, TypeOK, MailInv, RunOK, Run
<1>3. ASSUME NEW a \in Alert
      PROVE  /\ row[a].count \in Nat /\ row[a].notified \in Nat /\ r.told[a] \in Nat
             /\ a \in wrote => /\ r.seen[a].count = row[a].count
                               /\ r.seen[a].notified = row[a].notified
             /\ row'[a].count = row[a].count + (IF a \in r.hit THEN 1 ELSE 0)
             /\ row'[a].notified = IF r.told[a] # 0 THEN r.told[a] ELSE row[a].notified
    <2>1. row[a] \in Row /\ r.told[a] \in Nat BY <1>2 DEF TypeInv, TypeOK, Run
    <2>2. a \in wrote => a \in Concerned(j) BY DEF Concerned
    <2>3. a \in wrote => r.seen[a].count = row[a].count /\ r.seen[a].notified = row[a].notified
        BY <1>2, <2>2 DEF RunOK
    <2>4. r.told[a] # 0 => a \in wrote BY <1>2 DEF RunOK
    <2> HIDE DEF wrote
    <2>5. CASE a \in wrote
        <3>1. row'[a] = Checked(r, a) BY <1>1, <2>5
        <3>2. /\ row'[a].count = IF a \in r.hit THEN r.seen[a].count + 1 ELSE row[a].count
              /\ row'[a].notified = IF r.told[a] # 0 THEN r.told[a] ELSE row[a].notified
            BY <3>1, CheckedRow DEF TypeInv
        <3>3. row[a].count \in Nat BY <2>1 DEF Row
        <3> HIDE DEF r
        <3> QED BY <2>1, <2>3, <2>5, <3>2, <3>3 DEF Row
    <2>6. CASE a \notin wrote
        <3>1. row'[a] = row[a] /\ a \notin r.hit /\ r.told[a] = 0 BY <1>1, <1>2, <2>4, <2>6
        <3>2. row[a].count \in Nat /\ row[a].notified \in Nat BY <2>1 DEF Row
        <3> QED BY <2>1, <2>6, <3>1, <3>2
    <2> QED BY <2>5, <2>6
<1>4. TriggersCounted'
    <2> SUFFICES ASSUME NEW a \in Alert PROVE row'[a].count = fired'[a]
        BY DEF TriggersCounted
    <2>1. row[a].count = fired[a] BY DEF MailInv, TriggersCounted
    <2> HIDE DEF r
    <2> QED BY <1>1, <1>3, <2>1
<1>5. ASSUME NEW m \in r.made
      PROVE  /\ m.alert \in Alert /\ m.time \in Nat
             /\ m.nth = row[m.alert].count + 1 /\ row'[m.alert].count = m.nth
             /\ row'[m.alert].notified = m.time + 1
             /\ row[m.alert].notified # 0 => m.time - (row[m.alert].notified - 1) >= Cooldown
    <2>1. m \in Note /\ m.alert \in r.held \cap r.hit BY <1>2 DEF RunOK
    <2>2. /\ m.alert \in Alert /\ m.time \in Nat BY <2>1 DEF Note
    <2>3. /\ m.nth = r.seen[m.alert].count + 1
          /\ r.told[m.alert] = m.time + 1
          /\ r.seen[m.alert].notified # 0 =>
               m.time - (r.seen[m.alert].notified - 1) >= Cooldown
        BY <1>2 DEF RunOK
    <2>4. m.alert \in wrote /\ m.alert \in r.hit BY <2>1
    <2> HIDE DEF r, wrote
    <2> QED BY <1>3, <2>2, <2>3, <2>4
<1>6. ASSUME NEW m \in notes
      PROVE  /\ m.alert \in Alert /\ m.time \in Nat /\ m.nth \in Nat
             /\ m.nth =< row[m.alert].count /\ m.time < row[m.alert].notified
    BY <1>2 DEF MailInv, NoteOK, Note
<1> HIDE DEF r, wrote
<1>7. ASSUME NEW m \in notes' PROVE NoteOK(m)'
    <2>1. CASE m \in r.made
        <3>1. row[m.alert].count \in Nat BY <1>3, <1>5, <2>1
        <3> QED BY <1>5, <2>1, <3>1 DEF NoteOK
    <2>2. CASE m \in notes
        <3>1. row'[m.alert].count >= row[m.alert].count BY <1>3, <1>6, <2>2
        <3>2. row'[m.alert].notified >= row[m.alert].notified
            <4>1. CASE r.told[m.alert] = 0 BY <1>3, <1>6, <2>2, <4>1
            <4>2. CASE r.told[m.alert] # 0
                <5>1. PICK n \in r.made : n.alert = m.alert BY <1>2, <1>6, <2>2, <4>2 DEF RunOK, r
                <5>2. row[m.alert].notified \in Nat BY <1>3, <1>6, <2>2
                <5> QED BY <1>5, <5>1, <5>2, NumbersAssumption
            <4> QED BY <4>1, <4>2
        <3>3. /\ row[m.alert].count \in Nat /\ row'[m.alert].count \in Nat
              /\ row[m.alert].notified \in Nat /\ row'[m.alert].notified \in Nat
            BY <1>3, <1>6, <2>2
        <3> QED BY <1>6, <2>2, <3>1, <3>2, <3>3 DEF NoteOK
    <2> QED BY <1>1, <2>1, <2>2
<1>8. NotificationsSpaced'
    <2> SUFFICES ASSUME NEW m \in notes', NEW n \in notes', m.alert = n.alert, m.nth < n.nth
                 PROVE  n.time - m.time >= Cooldown
        BY DEF NotificationsSpaced
    <2>1. CASE m \in notes /\ n \in notes BY <2>1 DEF MailInv, NotificationsSpaced
    <2>2. CASE m \in notes /\ n \in r.made
        <3>1. row[m.alert].notified \in Nat BY <1>3, <1>6, <2>2
        <3> QED BY <1>5, <1>6, <2>2, <3>1, NumbersAssumption
    <2>3. CASE m \in r.made /\ n \in notes
        <3>1. row[m.alert].count \in Nat BY <1>3, <1>5, <2>3
        <3> QED BY <1>5, <1>6, <2>3, <3>1
    <2>4. CASE m \in r.made /\ n \in r.made
        <3>1. row[m.alert].count \in Nat BY <1>3, <1>5, <2>4
        <3> QED BY <1>5, <2>4, <3>1
    <2> QED BY <1>1, <2>1, <2>2, <2>3, <2>4
<1> QED BY <1>4, <1>7, <1>8

\* MailInv is inductive relative to TypeInv, when runs do not overlap.
LEMMA MailStep ==
    ASSUME OneRun
    PROVE  TypeInv /\ MailInv /\ [Next]_vars => MailInv'
<1> SUFFICES ASSUME TypeInv, MailInv, [Next]_vars PROVE MailInv' OBVIOUS
<1>1. CASE (\E p \in Price \cup {0} : PriceChange(p)) \/ Tick \/ UNCHANGED vars
    BY <1>1, OthersKeepMail DEF PriceChange, Tick, vars
<1>2. ASSUME NEW x \in Tx, Requests(x) PROVE MailInv'
    <2>1. UNCHANGED <<now, run, notes, fired>>
        BY <1>2 DEF Requests, CreateBegin, ChangeBegin, AskCommit, AskAbort
    <2> QED BY <1>2, <2>1, AskKeeps, OthersKeepMail
<1>3. ASSUME NEW j \in Job, Checks(j) PROVE MailInv'
    <2>1. RunOK(j) BY DEF MailInv
    <2>2. RunOK(j)'
        BY <1>3, <2>1, StartMail, VisitMail, NotifyMail, IdleMail DEF Checks, RunCommit, RunFail
    <2>3. \A k \in Job : RunOK(k)' BY <2>2 DEF OneRun
    <2>4. CASE RunCommit(j) BY <2>3, <2>4, CommitMail DEF MailInv
    <2>5. CASE ~RunCommit(j)
        <3>1. UNCHANGED <<row, notes, fired>>
            BY <1>3, <2>5 DEF Checks, RunStart, Visit, Notify, RunFail
        <3> QED BY <2>3, <3>1 DEF MailInv, NotificationsSpaced, TriggersCounted, NoteOK
    <2> QED BY <2>4, <2>5
<1> QED BY <1>1, <1>2, <1>3 DEF Next

\* At the start nothing was triggered and nobody was mailed.
LEMMA MailInit == Init => MailInv
BY DEF Init, MailInv, NotificationsSpaced, TriggersCounted, NoRow, RunOK, Concerned, NoRun

\* When runs of check_alerts do not overlap, two mails about an alert are a
\* cooldown apart, also across runs that failed and were rolled back.
THEOREM MailsSpaced ==
    ASSUME OneRun
    PROVE  Spec => []NotificationsSpaced
<1>1. MailInv => NotificationsSpaced BY DEF MailInv
<1> QED BY <1>1, TypeInit, TypeStep, MailInit, MailStep, PTL DEF Spec

\* ... and trigger_count counts the committed runs that triggered the alert,
\* whatever the account does to its alerts meanwhile.
THEOREM CountsRight ==
    ASSUME OneRun
    PROVE  Spec => []TriggersCounted
<1>1. MailInv => TriggersCounted BY DEF MailInv
<1> QED BY <1>1, TypeInit, TypeStep, MailInit, MailStep, PTL DEF Spec
=============================================================================
