------------------------------- MODULE Alerts -------------------------------
(***************************************************************************)
(* Price alerts of one account on one product: services/alert_service.py,  *)
(* services/notification_service.py and the check_alerts job as            *)
(* workers/jobs.run_job runs it.                                           *)
(*                                                                         *)
(* A run of check_alerts is one transaction over all alerts.  It selects   *)
(* the active alerts once, then visits them one by one; every query first  *)
(* flushes the changes made so far, so a visited row is locked until the   *)
(* run ends.  Mails go out during the run, what the run wrote is visible   *)
(* only at its commit, and a run that fails is rolled back with its mails  *)
(* already delivered.                                                      *)
(***************************************************************************)
EXTENDS Integers, FiniteSets

CONSTANTS
    Alert,      \* alerts the account may create
    Job,        \* runs of check_alerts that may be in progress at once
    Tx,         \* requests of the account that may be in flight at once
    Limit,      \* active alerts the plan allows
    Price,      \* prices the best offer may have
    Target,     \* the target price of each alert, 0 for a percent-drop alert
    Drop,       \* percent drop of each alert, 0 for a target-price alert
    Mailed,     \* alerts with notification_method "email"
    Cooldown,   \* clock units between two mails of an alert
    MaxTime,    \* bound on the clock
    MaxFired    \* bound on the triggers of an alert

ASSUME PriceAssumption   == Price \subseteq Nat \ {0}
ASSUME TargetAssumption  == Target \in [Alert -> Nat] /\ Drop \in [Alert -> 0..100]
ASSUME MailedAssumption  == Mailed \subseteq Alert
ASSUME NumbersAssumption == Limit \in Nat /\ Cooldown \in Nat \ {0} /\ MaxTime \in Nat
                           /\ MaxFired \in Nat

VARIABLES
    now,      \* the clock
    lowest,   \* lowest price among the product's exact offers, 0 when there is none
    row,      \* the price_alerts table
    notes,    \* committed notification rows
    run,      \* what each run of the job has loaded and changed
    asked,    \* what each request has loaded
    fired     \* history: committed triggers per alert

vars == <<now, lowest, row, notes, run, asked, fired>>

-----------------------------------------------------------------------------
(* notified is 0 for NULL, else the time of last_notified_at plus 1 *)
NoRow == [exists |-> FALSE, active |-> FALSE, deleted |-> FALSE, triggered |-> FALSE,
          count |-> 0, notified |-> 0, baseline |-> 0]

\* A notification: alert, nth (the trigger it was made for), time and status.
\* A run: the rows as it selected them (seen), alerts to visit (todo), the one
\* being visited (at), rows flushed and hence locked (held), alerts triggered
\* (hit), last_notified_at set (told, 0 when left alone), notifications (made).
NoRun == [pc |-> "idle", seen |-> [a \in Alert |-> NoRow], todo |-> {}, at |-> {}, held |-> {},
          hit |-> {}, told |-> [a \in Alert |-> 0], made |-> {}]

NoAsk == [kind |-> "none", alert |-> {}, loaded |-> NoRow]

Active == {a \in Alert : row[a].active /\ ~row[a].deleted}
Locked(a) == \E j \in Job : a \in run[j].held
Free(j, as) == \A a \in as : \A k \in Job \ {j} : a \notin run[k].held

-----------------------------------------------------------------------------
(* should_trigger; a percent-drop alert created while the product had no    *)
(* offer has no baseline and never triggers                                 *)
ShouldTrigger(a, r, current) ==
    IF Target[a] # 0 THEN current =< Target[a]
    ELSE r.baseline # 0 /\ current * 100 =< r.baseline * (100 - Drop[a])

Recently(r) == r.notified # 0 /\ now - (r.notified - 1) < Cooldown

-----------------------------------------------------------------------------
Init ==
    /\ now = 0
    /\ lowest \in Price \cup {0}
    /\ row = [a \in Alert |-> NoRow]
    /\ notes = {}
    /\ run = [j \in Job |-> NoRun]
    /\ asked = [x \in Tx |-> NoAsk]
    /\ fired = [a \in Alert |-> 0]

-----------------------------------------------------------------------------
(* AlertService.create, toggle and delete *)

\* create counts the active alerts, compares with the plan's limit, and takes
\* the current lowest price as baseline.
CreateBegin(x, a) ==
    /\ asked[x].kind = "none"
    /\ ~row[a].exists
    /\ \A y \in Tx : asked[y].alert # {a} \/ asked[y].kind # "create"
    /\ Cardinality(Active) < Limit
    /\ asked' = [asked EXCEPT ![x] =
         [kind |-> "create", alert |-> {a},
          loaded |-> [NoRow EXCEPT !.exists = TRUE, !.active = TRUE, !.baseline = lowest]]]
    /\ UNCHANGED <<now, lowest, row, notes, run, fired>>

\* pause, resume and delete load the row, which must not be deleted.
ChangeBegin(x, k, a) ==
    /\ asked[x].kind = "none"
    /\ row[a].exists /\ ~row[a].deleted
    /\ asked' = [asked EXCEPT ![x] = [kind |-> k, alert |-> {a}, loaded |-> row[a]]]
    /\ UNCHANGED <<now, lowest, row, notes, run, fired>>

\* Only the columns whose value differs from the loaded one are written.
Changed(k, old, current) ==
    CASE k = "create" -> old
      [] k = "delete" -> [current EXCEPT !.deleted = TRUE,
                                         !.active = IF old.active THEN FALSE ELSE @]
      [] k = "pause"  -> [current EXCEPT !.active = IF old.active THEN FALSE ELSE @]
      [] k = "resume" -> [current EXCEPT !.active = IF old.active THEN @ ELSE TRUE,
                                         !.triggered = IF old.triggered THEN FALSE ELSE @]

AskCommit(x) ==
    /\ asked[x].kind # "none"
    /\ \A a \in asked[x].alert :
         /\ ~Locked(a)
         /\ row' = [row EXCEPT ![a] = Changed(asked[x].kind, asked[x].loaded, @)]
    /\ asked' = [asked EXCEPT ![x] = NoAsk]
    /\ UNCHANGED <<now, lowest, notes, run, fired>>

\* The request fails; nothing is written.
AskAbort(x) ==
    /\ asked[x].kind # "none"
    /\ asked' = [asked EXCEPT ![x] = NoAsk]
    /\ UNCHANGED <<now, lowest, row, notes, run, fired>>

-----------------------------------------------------------------------------
(* check_all *)

RunStart(j) ==
    /\ run[j].pc = "idle"
    /\ Active # {}
    /\ \A a \in Alert : fired[a] < MaxFired
    /\ run' = [run EXCEPT ![j] =
         [NoRun EXCEPT !.pc = "run", !.todo = Active,
                       !.seen = [a \in Alert |-> IF a \in Active THEN row[a] ELSE NoRow]]]
    /\ UNCHANGED <<now, lowest, row, notes, asked, fired>>

\* The next alert: the query for its lowest price flushes the changes to the
\* one before, which waits for a run that holds that row.
Visit(j, a) ==
    LET r == run[j]
        hits == lowest # 0 /\ ShouldTrigger(a, r.seen[a], lowest)
    IN  /\ r.pc = "run" /\ a \in r.todo
        /\ Free(j, r.at)
        /\ run' = [run EXCEPT ![j] =
             [r EXCEPT !.held = @ \cup r.at, !.at = {a}, !.todo = @ \ {a},
                       !.hit = IF hits THEN @ \cup {a} ELSE @,
                       !.pc = IF hits /\ ~Recently(r.seen[a]) /\ a \in Mailed
                              THEN "notify" ELSE "run"]]
        /\ UNCHANGED <<now, lowest, row, notes, asked, fired>>

\* Mutant: last_notified_at is set only when the mail was sent.
NotifySentOnly(j, status) ==
    LET r == run[j]
    IN  /\ r.pc = "notify"
        /\ Free(j, r.at)
        /\ run' = [run EXCEPT ![j] =
             [r EXCEPT !.pc = "run", !.held = @ \cup r.at,
                       !.told = [b \in Alert |-> IF b \in r.at /\ status = "sent"
                                                 THEN now + 1 ELSE @[b]],
                       !.made = @ \cup {[alert |-> b, nth |-> r.seen[b].count + 1,
                                         time |-> now, status |-> status] : b \in r.at}]]
        /\ UNCHANGED <<now, lowest, row, notes, asked, fired>>

\* The user is selected, which flushes the row, a notification is added and
\* the mail provider asked; last_notified_at is set whatever it answers.
Notify(j, status) ==
    LET r == run[j]
    IN  /\ r.pc = "notify"
        /\ Free(j, r.at)
        /\ run' = [run EXCEPT ![j] =
             [r EXCEPT !.pc = "run", !.held = @ \cup r.at,
                       !.told = [b \in Alert |-> IF b \in r.at THEN now + 1 ELSE @[b]],
                       !.made = @ \cup {[alert |-> b, nth |-> r.seen[b].count + 1,
                                         time |-> now, status |-> status] : b \in r.at}]]
        /\ UNCHANGED <<now, lowest, row, notes, asked, fired>>

\* Mutant: the run writes its rows back whole.
WholeRow(r, a) ==
    [r.seen[a] EXCEPT !.triggered = @ \/ a \in r.hit,
                      !.count = IF a \in r.hit THEN @ + 1 ELSE @,
                      !.notified = IF r.told[a] # 0 THEN r.told[a] ELSE @]

\* What the run leaves of a row: trigger_count counts on from the loaded value,
\* and is_triggered is written only when it was loaded as FALSE.
Checked(r, a) ==
    [row[a] EXCEPT !.triggered = @ \/ (a \in r.hit /\ ~r.seen[a].triggered),
                   !.count = IF a \in r.hit THEN r.seen[a].count + 1 ELSE @,
                   !.notified = IF r.told[a] # 0 THEN r.told[a] ELSE @]

RunCommit(j) ==
    LET r == run[j]
    IN  /\ r.pc = "run" /\ r.todo = {}
        /\ Free(j, r.at)
        /\ row' = [a \in Alert |-> IF a \in r.held \cup r.at THEN Checked(r, a) ELSE row[a]]
        /\ notes' = notes \cup r.made
        /\ fired' = [a \in Alert |-> fired[a] + (IF a \in r.hit THEN 1 ELSE 0)]
        /\ run' = [run EXCEPT ![j] = NoRun]
        /\ UNCHANGED <<now, lowest, asked>>

\* Mutant: what was changed before the failure is committed with the failed
\* job_runs row.
RunFailKeeps(j) ==
    LET r == run[j]
    IN  /\ r.pc # "idle"
        /\ row' = [a \in Alert |-> IF a \in r.held THEN Checked(r, a) ELSE row[a]]
        /\ run' = [run EXCEPT ![j] = NoRun]
        /\ UNCHANGED <<now, lowest, notes, asked, fired>>

\* run_job: an exception, a crash or the time limit rolls the run back.
RunFail(j) ==
    /\ run[j].pc # "idle"
    /\ run' = [run EXCEPT ![j] = NoRun]
    /\ UNCHANGED <<now, lowest, row, notes, asked, fired>>

-----------------------------------------------------------------------------
\* Price refreshes of other transactions, and the clock.
PriceChange(p) ==
    /\ p # lowest
    /\ lowest' = p
    /\ UNCHANGED <<now, row, notes, run, asked, fired>>

Tick ==
    /\ now < MaxTime
    /\ now' = now + 1
    /\ UNCHANGED <<lowest, row, notes, run, asked, fired>>

Requests(x) ==
    \/ \E a \in Alert : \/ CreateBegin(x, a)
                        \/ \E k \in {"pause", "resume", "delete"} : ChangeBegin(x, k, a)
    \/ AskCommit(x) \/ AskAbort(x)

Checks(j) ==
    \/ RunStart(j)
    \/ \E a \in Alert : Visit(j, a)
    \/ \E status \in {"sent", "failed", "skipped"} : Notify(j, status)
    \/ RunCommit(j) \/ RunFail(j)

Next ==
    \/ \E x \in Tx : Requests(x)
    \/ \E j \in Job : Checks(j)
    \/ \E p \in Price \cup {0} : PriceChange(p)
    \/ Tick

Spec == Init /\ [][Next]_vars

-----------------------------------------------------------------------------
\* Two committed notifications of an alert are at least the cooldown apart,
\* whatever runs failed between them, as long as runs do not overlap.
NotificationsSpaced ==
    \A m, n \in notes : m.alert = n.alert /\ m.nth < n.nth => n.time - m.time >= Cooldown

\* trigger_count is the number of committed runs that triggered the alert,
\* as long as runs do not overlap.
TriggersCounted == \A a \in Alert : row[a].count = fired[a]

\* A deleted alert stays deleted and inactive, also when the delete commits
\* while a run that selected the alert is in progress.
DeletedStaysDeleted ==
    [][\A a \in Alert : row[a].deleted =>
         row'[a].deleted /\ (~row[a].active => ~row'[a].active)]_vars
=============================================================================
