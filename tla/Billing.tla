------------------------------ MODULE Billing ------------------------------
(***************************************************************************)
(* BuyWise Pro checkout: services/subscription_service.py, the routes of   *)
(* api/v1/billing.py, account deletion where it touches subscriptions, and *)
(* the request transaction of core/database.get_db.                        *)
(*                                                                         *)
(* Every HTTP request runs in one database transaction.  Statements see    *)
(* what was committed before them (READ COMMITTED), rows that were already *)
(* loaded keep the value they were read with, and only the columns an      *)
(* object changed are written.  A request is therefore a few steps of a    *)
(* slot t in Tx: begin (authenticate, first SELECTs), possibly a call to   *)
(* Razorpay, a step that reads the subscriptions and decides what to       *)
(* write, and a commit that applies the writes.  Any request may instead   *)
(* abort: an exception, a database error or a crash rolls everything back. *)
(***************************************************************************)
EXTENDS Integers, FiniteSets, Sequences, FiniteSetsExt

CONSTANTS
    User,        \* accounts
    Order,       \* Razorpay orders, one payments row each
    Plan,        \* purchasable plans
    Tx,          \* request slots: how many requests are in flight at once
    Buyer,       \* who an order was created for
    PlanOf,      \* the plan an order buys
    Period,      \* length of a plan, in clock units
    BadEvent,    \* signed webhook events whose processing changes nothing:
                 \* the payload makes _process_event raise, or the amount
                 \* differs from the order's
    UserKind,    \* what signed-in users ask for, besides paying
    Fault,       \* what may go wrong around a request
    Declining,   \* orders whose first payment attempt may fail
    Misdelivery, \* event ids delivered once with a signature that does not
                 \* verify, say by a sender holding a rotated secret
    MaxTime      \* bound on the clock

CaptureKind == {"payment.captured", "order.paid"}
EventKind == CaptureKind \cup {"payment.failed"}
Event == Order \X EventKind            \* a webhook event id

AnyUserKind == {"status", "entitlements", "cancel", "delete"}

AnyFault == {"abort",        \* a request fails or crashes and is rolled back
             "lost",         \* the answer to a webhook is lost
             "unreachable",  \* fetch_payment cannot reach Razorpay
             "lapse"}        \* an authorization is never captured

ASSUME OrderAssumption == IsFiniteSet(Order)
ASSUME FaultAssumption == Fault \subseteq AnyFault
ASSUME DecliningAssumption == Declining \subseteq Order
ASSUME UserKindAssumption == UserKind \subseteq AnyUserKind
ASSUME BuyerAssumption  == Buyer \in [Order -> User]
ASSUME PlanOfAssumption == PlanOf \in [Order -> Plan]
ASSUME PeriodAssumption == Period \in [Plan -> Nat \ {0}]
ASSUME BadEventAssumption == BadEvent \subseteq Event
ASSUME MisdeliveryAssumption == Misdelivery \subseteq Event
ASSUME MaxTimeAssumption  == MaxTime \in Nat

VARIABLES
    now,        \* the clock
    gateway,    \* Razorpay's view of each order
    pending,    \* webhook events Razorpay has not had a 2xx answer for
    payments,   \* payments.status per order, "none" when there is no row
    subs,       \* the subscriptions table
    plan,       \* users.plan
    deleted,    \* users with deleted_at set
    events,     \* webhook_events: ids recorded by a committed request
    pc,         \* control point of each request slot
    req,        \* the request a slot is handling
    load,       \* users.plan as the request loaded it
    write,      \* what the request will write at commit
    credits,    \* history: committed activations per order
    refused     \* history: deliveries answered 400 for their signature

db == <<payments, subs, plan, deleted, events>>
slots == <<pc, req, load, write>>
vars == <<now, gateway, pending, db, slots, credits, refused>>

-----------------------------------------------------------------------------
(* Rows, requests and write sets *)

SubRow == [user : User, plan : Plan, end : Nat, cape : BOOLEAN,
           status : {"active", "cancelled", "expired"}]

CreateReq  == [kind : {"create"}, order : Order]
VerifyReq  == [kind : {"verify"}, order : Order]
WebhookReq == [kind : {"webhook", "misdelivery"}, event : Event]
UserReq    == [kind : AnyUserKind, user : User]
NoReq      == [kind |-> "none"]
Request    == CreateReq \cup VerifyReq \cup WebhookReq \cup UserReq \cup {NoReq}

WriteSet ==
    [pay : {"keep", "created", "paid", "failed"},    \* payments.status
     plan : {"keep", "free", "pro"},                 \* users.plan
     op : {"none", "insert", "extend", "replace", "flag", "close"},
     cur : Nat, end : Nat, uncape : BOOLEAN,         \* arguments of op
     rows : SUBSET Nat]                              \* rows set "expired" ("cancelled" by close)

PaymentWrite(status) == [pay |-> status, plan |-> "keep", op |-> "none",
                         cur |-> 0, end |-> 0, uncape |-> FALSE, rows |-> {}]
NoWrite == PaymentWrite("keep")
UserWrite(p, o, i, lapsed) == [pay |-> "keep", plan |-> p, op |-> o,
                               cur |-> i, end |-> 0, uncape |-> FALSE, rows |-> lapsed]

OrderOf(r) == IF r.kind \in {"create", "verify"} THEN r.order ELSE r.event[1]
UserOf(r)  == IF r.kind \in {"create", "verify", "webhook", "misdelivery"}
              THEN Buyer[OrderOf(r)] ELSE r.user

\* A UPDATE payments has been sent and holds its row lock until the request ends.
HoldsPayment(t, o) == /\ pc[t] = "commit"
                      /\ write[t].pay = "paid"
                      /\ OrderOf(req[t]) = o

\* Mutant: event ids are looked up, not inserted under the unique index.
NeverWaits(t, e) == FALSE

\* The uncommitted INSERT of a webhook_events row: a second insert of the same
\* id waits on the unique index until this request ends.
InsertsEvent(t, e) == req[t].kind \in {"webhook", "misdelivery"} /\ req[t].event = e

-----------------------------------------------------------------------------
(* SubscriptionService.active_subscription *)

ActiveRows(u) == {i \in DOMAIN subs : subs[i].user = u /\ subs[i].status = "active"}
LiveRows(u) == {i \in ActiveRows(u) : subs[i].end > now}

\* active_subscription(u) returns row cur (0 for None) after setting the rows
\* of lapsed to "expired".  Rows come by descending end, so a lapsed row is
\* met only when no row is still running.
ReadsActive(u, cur, lapsed) ==
    \/ /\ cur \in LiveRows(u)
       /\ \A i \in LiveRows(u) : subs[i].end =< subs[cur].end
       /\ lapsed = {}
    \/ /\ LiveRows(u) = {}
       /\ cur = 0
       /\ lapsed = ActiveRows(u)

\* Mutant: users.plan is left to the next status().
PlanLeftAlone(loaded, p) == "keep"

\* What an assignment user.plan = p sends: nothing when the row was loaded with p.
PlanWrite(loaded, p) == IF loaded = p THEN "keep" ELSE p

-----------------------------------------------------------------------------
Init ==
    /\ now = 0
    /\ gateway = [o \in Order |-> "none"]
    /\ pending = {}
    /\ payments = [o \in Order |-> "none"]
    /\ subs = << >>
    /\ plan = [u \in User |-> "free"]
    /\ deleted = {}
    /\ events = {}
    /\ pc = [t \in Tx |-> "idle"]
    /\ req = [t \in Tx |-> NoReq]
    /\ load = [t \in Tx |-> "free"]
    /\ write = [t \in Tx |-> NoWrite]
    /\ credits = [o \in Order |-> 0]
    /\ refused = {}

\* A slot takes a request; p is its first control point, l the plan it loaded.
Start(t, r, p, l) ==
    /\ pc[t] = "idle"
    /\ pc' = [pc EXCEPT ![t] = p]
    /\ req' = [req EXCEPT ![t] = r]
    /\ load' = [load EXCEPT ![t] = l]

Goto(t, p) == pc' = [pc EXCEPT ![t] = p]

Finish(t) ==
    /\ pc' = [pc EXCEPT ![t] = "idle"]
    /\ req' = [req EXCEPT ![t] = NoReq]
    /\ load' = [load EXCEPT ![t] = "free"]
    /\ write' = [write EXCEPT ![t] = NoWrite]

Prepare(t, w) == write' = [write EXCEPT ![t] = w]

-----------------------------------------------------------------------------
(* create_order *)

\* The order exists at Razorpay as soon as the call returns, the payments row
\* only at commit.
CreateOrder(t, o) ==
    /\ Buyer[o] \notin deleted
    /\ gateway[o] = "none"
    /\ gateway' = [gateway EXCEPT ![o] = "open"]
    /\ Start(t, [kind |-> "create", order |-> o], "commit", plan[Buyer[o]])
    /\ Prepare(t, PaymentWrite("created"))
    /\ UNCHANGED <<now, pending, db, credits, refused>>

-----------------------------------------------------------------------------
(* verify_checkout *)

\* Mutant: any payments row will do.
KnownOrder(o) == payments[o] # "none"

\* The payments row a request has just selected is not "paid".
Unpaid(o) == payments[o] \in {"created", "failed"}

\* Mutant: the signature is not compared.
Ordered(o) == gateway[o] # "none"

\* Razorpay Checkout hands the browser a signature for an order once its
\* payment was authorized; no other signature passes the HMAC check.
Signed(o) == gateway[o] \in {"authorized", "captured", "lapsed"}

\* An unknown order, a wrong signature or another user's order ends the
\* request with nothing written (the "failed" status set before the 400 is
\* rolled back with the rest).
VerifyBegin(t, o) ==
    /\ Buyer[o] \notin deleted
    /\ Unpaid(o)
    /\ Signed(o)
    /\ Start(t, [kind |-> "verify", order |-> o], "fetch", plan[Buyer[o]])
    /\ UNCHANGED <<now, gateway, pending, db, write, credits, refused>>

\* A payment already paid only reports the subscription.
VerifyAgain(t, o) ==
    /\ Buyer[o] \notin deleted
    /\ payments[o] = "paid"
    /\ Start(t, [kind |-> "status", user |-> Buyer[o]], "read", plan[Buyer[o]])
    /\ UNCHANGED <<now, gateway, pending, db, write, credits, refused>>

\* fetch_payment answers and the remote status is acceptable.
FetchConfirms(t) ==
    /\ pc[t] = "fetch"
    /\ gateway[OrderOf(req[t])] \in {"authorized", "captured"}
    /\ Goto(t, "mark")
    /\ UNCHANGED <<now, gateway, pending, db, req, load, write, credits, refused>>

\* fetch_payment answers with another status: 400, and the rollback undoes it.
FetchRefuses(t) ==
    /\ pc[t] = "fetch"
    /\ gateway[OrderOf(req[t])] \notin {"authorized", "captured"}
    /\ Finish(t)
    /\ UNCHANGED <<now, gateway, pending, db, credits, refused>>

\* Razorpay is unreachable: a warning is logged and the request goes on.
FetchUnreachable(t) ==
    /\ "unreachable" \in Fault
    /\ pc[t] = "fetch"
    /\ Goto(t, "mark")
    /\ UNCHANGED <<now, gateway, pending, db, req, load, write, credits, refused>>

-----------------------------------------------------------------------------
(* _mark_paid and _activate, for checkout and webhook alike *)

\* Mutant: a running subscription is extended whatever its plan.
RenewsAny(cur, p) == cur # 0

\* A payment for the plan that is running extends it from its end; any other
\* payment starts a period now.
Renews(cur, p) == cur # 0 /\ subs[cur].plan = p
\* Mutant: every period starts now.
StartsNow(cur, p) == now

PeriodStart(cur, p) == IF Renews(cur, p) THEN subs[cur].end ELSE now

\* The status "paid" is flushed by the first SELECT of _activate, which waits
\* for a request that already holds the row; the status the request read
\* earlier is not read again.
MarkPaid(t) ==
    LET o == OrderOf(req[t])
        u == Buyer[o]
        p == PlanOf[o]
        loaded == IF req[t].kind = "verify" THEN load[t] ELSE plan[u]
    IN  /\ pc[t] = "mark"
        /\ \A s \in Tx : ~HoldsPayment(s, o)
        /\ \E cur \in 0..Len(subs), lapsed \in SUBSET ActiveRows(u) :
             LET renews == Renews(cur, p)
             IN  /\ ReadsActive(u, cur, lapsed)
                 /\ Prepare(t, [pay |-> "paid",
                                plan |-> PlanWrite(loaded, "pro"),
                                op |-> IF renews THEN "extend"
                                       ELSE IF cur # 0 THEN "replace" ELSE "insert",
                                cur |-> cur,
                                end |-> PeriodStart(cur, p) + Period[p],
                                uncape |-> renews /\ subs[cur].cape,
                                rows |-> lapsed])
        /\ Goto(t, "commit")
        /\ UNCHANGED <<now, gateway, pending, db, req, load, credits, refused>>

-----------------------------------------------------------------------------
(* handle_webhook and _process_event *)

\* The event id is inserted, the payment selected, and the event found to be
\* a capture of an order that is not paid.
WebhookCapture(t, e) ==
    /\ e \in pending \ events
    /\ \A s \in Tx : ~InsertsEvent(s, e)
    /\ e \notin BadEvent
    /\ e[2] \in CaptureKind
    /\ Unpaid(e[1])
    /\ Start(t, [kind |-> "webhook", event |-> e], "mark", "free")
    /\ UNCHANGED <<now, gateway, pending, db, write, credits, refused>>

\* A failed attempt on an order that is not paid.
WebhookFailure(t, e) ==
    /\ e \in pending \ events
    /\ \A s \in Tx : ~InsertsEvent(s, e)
    /\ e \notin BadEvent
    /\ e[2] = "payment.failed"
    /\ Unpaid(e[1])
    /\ Start(t, [kind |-> "webhook", event |-> e], "commit", "free")
    /\ Prepare(t, PaymentWrite("failed"))
    /\ UNCHANGED <<now, gateway, pending, db, credits, refused>>

\* Nothing to do: the order is paid or unknown, or processing raises or notes
\* a mismatch.  The event is recorded all the same.
WebhookNote(t, e) ==
    /\ e \in pending \ events
    /\ \A s \in Tx : ~InsertsEvent(s, e)
    /\ e \in BadEvent \/ payments[e[1]] \in {"none", "paid"}
    /\ Start(t, [kind |-> "webhook", event |-> e], "commit", "free")
    /\ UNCHANGED <<now, gateway, pending, db, write, credits, refused>>

\* The unique index refuses an id already recorded: 200 "duplicate".
WebhookDuplicate(e) ==
    /\ e \in pending \cap events
    /\ pending' = pending \ {e}
    /\ UNCHANGED <<now, gateway, db, slots, credits, refused>>

\* A delivery whose signature does not verify is inserted before the
\* signature is acted on.
MisdeliveredBegin(t, e) ==
    /\ e \in Misdelivery \ (events \cup refused)
    /\ \A s \in Tx : ~InsertsEvent(s, e)
    /\ Start(t, [kind |-> "misdelivery", event |-> e], "reject", "free")
    /\ UNCHANGED <<now, gateway, pending, db, write, credits, refused>>

\* Mutant: the refused delivery is committed before the 400.
RejectRecorded(t) ==
    /\ pc[t] = "reject"
    /\ refused' = refused \cup {req[t].event}
    /\ events' = events \cup {req[t].event}
    /\ Finish(t)
    /\ UNCHANGED <<now, gateway, pending, payments, subs, plan, deleted, credits>>

\* ... and the 400 rolls the inserted record back.
MisdeliveredReject(t) ==
    /\ pc[t] = "reject"
    /\ refused' = refused \cup {req[t].event}
    /\ Finish(t)
    /\ UNCHANGED <<now, gateway, pending, db, credits>>

-----------------------------------------------------------------------------
(* Requests of a signed-in user: status, entitlement checks, cancel, delete *)

UserBegin(t, k, u) ==
    /\ u \notin deleted
    /\ k = "entitlements" => plan[u] = "pro"     \* a free plan is not looked up
    /\ Start(t, [kind |-> k, user |-> u], "read", plan[u])
    /\ UNCHANGED <<now, gateway, pending, db, write, credits, refused>>

\* status() and entitlements_for(): lapsed rows expire; status also syncs the plan.
ReadStatus(t) ==
    /\ pc[t] = "read"
    /\ req[t].kind \in {"status", "entitlements"}
    /\ \E cur \in 0..Len(subs), lapsed \in SUBSET ActiveRows(req[t].user) :
         /\ ReadsActive(req[t].user, cur, lapsed)
         /\ Prepare(t, UserWrite(IF req[t].kind = "entitlements" THEN "keep"
                                 ELSE PlanWrite(load[t], IF cur # 0 THEN "pro" ELSE "free"),
                                 "none", 0, lapsed))
    /\ Goto(t, "commit")
    /\ UNCHANGED <<now, gateway, pending, db, req, load, credits, refused>>

\* cancel() without a running subscription: the 404 rolls back.
RefuseCancel(t) ==
    /\ pc[t] = "read"
    /\ req[t].kind = "cancel"
    /\ LiveRows(req[t].user) = {}
    /\ Finish(t)
    /\ UNCHANGED <<now, gateway, pending, db, credits, refused>>

\* cancel(): the subscription runs on to its end.
ReadCancel(t) ==
    /\ pc[t] = "read"
    /\ req[t].kind = "cancel"
    /\ \E cur \in LiveRows(req[t].user) :
         /\ ReadsActive(req[t].user, cur, {})
         /\ Prepare(t, UserWrite(PlanWrite(load[t], "pro"),
                                 IF subs[cur].cape THEN "none" ELSE "flag", cur, {}))
    /\ Goto(t, "commit")
    /\ UNCHANGED <<now, gateway, pending, db, req, load, credits, refused>>

\* delete_account(): every active row is cancelled and the plan set back.
ReadDelete(t) ==
    /\ pc[t] = "read"
    /\ req[t].kind = "delete"
    /\ Prepare(t, UserWrite(PlanWrite(load[t], "free"), "close", 0,
                            ActiveRows(req[t].user)))
    /\ Goto(t, "commit")
    /\ UNCHANGED <<now, gateway, pending, db, req, load, credits, refused>>

-----------------------------------------------------------------------------
(* get_db: commit or rollback *)

\* Mutants: a replaced row stays active, or is cut off at once.
PatchedRunning(w, i) ==
    [subs[i] EXCEPT !.end = IF w.op = "extend" /\ i = w.cur THEN w.end ELSE @,
                    !.status = IF i \in w.rows THEN "expired" ELSE @]

\* The row the commit leaves at index i: only changed columns are written.
Patched(w, i) ==
    [user   |-> subs[i].user,
     plan   |-> subs[i].plan,
     end    |-> IF w.op = "extend" /\ i = w.cur THEN w.end ELSE subs[i].end,
     cape   |-> IF i = w.cur /\ w.op = "flag" THEN TRUE
                ELSE subs[i].cape /\ ~(i = w.cur /\ w.uncape),
     status |-> IF i \in w.rows THEN (IF w.op = "close" THEN "cancelled" ELSE "expired")
                ELSE IF w.op = "replace" /\ i = w.cur THEN "cancelled"
                ELSE subs[i].status]

\* Mutant: the row takes over the payment's status.
NewRowPaid(r, w) == [user |-> UserOf(r), plan |-> PlanOf[OrderOf(r)], end |-> w.end,
                     cape |-> FALSE, status |-> "paid"]

NewRow(r, w) == [user |-> UserOf(r), plan |-> PlanOf[OrderOf(r)], end |-> w.end,
                 cape |-> FALSE, status |-> "active"]

\* Mutant: a row is added only when none is running.
InsertsOnly(r, w) ==
    LET patched == [i \in 1..Len(subs) |-> Patched(w, i)]
    IN  subs' = IF w.op = "insert" THEN Append(patched, NewRow(r, w)) ELSE patched

WriteSubs(r, w) ==
    LET patched == [i \in 1..Len(subs) |-> Patched(w, i)]
    IN  subs' = IF w.op \in {"insert", "replace"} THEN Append(patched, NewRow(r, w))
                ELSE patched

WritePayment(r, w) ==
    IF w.pay = "keep" THEN UNCHANGED <<payments, credits>>
    ELSE /\ payments' = [payments EXCEPT ![OrderOf(r)] = w.pay]
         /\ credits' = [credits EXCEPT ![OrderOf(r)] = @ + (IF w.pay = "paid" THEN 1 ELSE 0)]

\* A plain UPDATE of the payments row waits for a holder of its lock.
CommitEnabled(t) ==
    write[t].pay = "failed" => \A s \in Tx : ~HoldsPayment(s, OrderOf(req[t]))

\* lost: the 2xx answer to a webhook does not reach Razorpay.
Commit(t, lost) ==
    LET r == req[t]
        w == write[t]
    IN  /\ pc[t] = "commit"
        /\ CommitEnabled(t)
        /\ WritePayment(r, w)
        /\ WriteSubs(r, w)
        /\ plan' = IF w.plan = "keep" THEN plan ELSE [plan EXCEPT ![UserOf(r)] = w.plan]
        /\ deleted' = IF w.op = "close" THEN deleted \cup {r.user} ELSE deleted
        /\ events' = IF r.kind = "webhook" THEN events \cup {r.event} ELSE events
        /\ pending' = IF r.kind = "webhook" /\ ~lost THEN pending \ {r.event} ELSE pending
        /\ lost => r.kind = "webhook" /\ "lost" \in Fault
        /\ Finish(t)
        /\ UNCHANGED <<now, gateway, refused>>

\* Mutant: a failed delivery is answered with 200.
AbortAcked(t) ==
    /\ "abort" \in Fault
    /\ pc[t] # "idle"
    /\ pending' = IF req[t].kind = "webhook" THEN pending \ {req[t].event} ELSE pending
    /\ Finish(t)
    /\ UNCHANGED <<now, gateway, db, credits, refused>>

\* An exception, a database error or a crash: the transaction is rolled back.
Abort(t) ==
    /\ "abort" \in Fault
    /\ pc[t] # "idle"
    /\ Finish(t)
    /\ UNCHANGED <<now, gateway, pending, db, credits, refused>>

-----------------------------------------------------------------------------
(* Razorpay and the clock (external) *)

\* The shopper pays an order the server answered with.
Authorize(o) ==
    /\ gateway[o] \in {"open", "declined"}
    /\ payments[o] # "none"
    /\ gateway' = [gateway EXCEPT ![o] = "authorized"]
    /\ UNCHANGED <<now, pending, db, slots, credits, refused>>

Decline(o) ==
    /\ o \in Declining
    /\ gateway[o] = "open"
    /\ payments[o] # "none"
    /\ gateway' = [gateway EXCEPT ![o] = "declined"]
    /\ pending' = pending \cup {<<o, "payment.failed">>}
    /\ UNCHANGED <<now, db, slots, credits, refused>>

Capture(o) ==
    /\ gateway[o] = "authorized"
    /\ gateway' = [gateway EXCEPT ![o] = "captured"]
    /\ pending' = pending \cup {<<o, k>> : k \in CaptureKind}
    /\ UNCHANGED <<now, db, slots, credits, refused>>

\* An authorization nobody captured is released to the shopper.
Lapse(o) ==
    /\ "lapse" \in Fault
    /\ gateway[o] = "authorized"
    /\ gateway' = [gateway EXCEPT ![o] = "lapsed"]
    /\ UNCHANGED <<now, pending, db, slots, credits, refused>>

Tick ==
    /\ now < MaxTime
    /\ now' = now + 1
    /\ UNCHANGED <<gateway, pending, db, slots, credits, refused>>

-----------------------------------------------------------------------------
Gateway == \E o \in Order : Authorize(o) \/ Decline(o) \/ Capture(o) \/ Lapse(o)

\* A slot takes on a new request ...
Begin(t) ==
    \/ \E o \in Order : CreateOrder(t, o) \/ VerifyBegin(t, o) \/ VerifyAgain(t, o)
    \/ \E e \in Event : \/ WebhookCapture(t, e) \/ WebhookFailure(t, e)
                        \/ WebhookNote(t, e) \/ MisdeliveredBegin(t, e)
    \/ \E u \in User, k \in UserKind : UserBegin(t, k, u)

\* ... and takes it one step on.
Step(t) ==
    \/ FetchConfirms(t) \/ FetchRefuses(t) \/ FetchUnreachable(t)
    \/ MarkPaid(t)
    \/ MisdeliveredReject(t)
    \/ ReadStatus(t) \/ RefuseCancel(t) \/ ReadCancel(t) \/ ReadDelete(t)
    \/ \E lost \in BOOLEAN : Commit(t, lost)
    \/ Abort(t)

Next ==
    \/ \E t \in Tx : Begin(t) \/ Step(t)
    \/ \E e \in Event : WebhookDuplicate(e)
    \/ Gateway
    \/ Tick

Spec == Init /\ [][Next]_vars
-----------------------------------------------------------------------------
(* Type invariant and properties *)

TypeOK ==
    /\ now \in 0..MaxTime
    /\ gateway \in [Order -> {"none", "open", "declined", "authorized", "captured", "lapsed"}]
    /\ pending \subseteq Event
    /\ payments \in [Order -> {"none", "created", "paid", "failed"}]
    /\ subs \in Seq(SubRow)
    /\ plan \in [User -> {"free", "pro"}]
    /\ deleted \subseteq User
    /\ events \subseteq Event
    /\ pc \in [Tx -> {"idle", "read", "fetch", "mark", "reject", "commit"}]
    /\ req \in [Tx -> Request]
    /\ load \in [Tx -> {"free", "pro"}]
    /\ write \in [Tx -> WriteSet]
    /\ credits \in [Order -> Nat]
    /\ refused \subseteq Event

\* Subscription time is credited only for an order whose payment Razorpay
\* authorized, whichever of checkout and webhook credits it and however their
\* requests interleave with lapses, retries and rollbacks.
CreditNeedsAuthorization ==
    \A o \in Order : credits[o] > 0 => gateway[o] \in {"authorized", "captured", "lapsed"}

\* Razorpay stops redelivering a capture only once its id is on record, also
\* when the request that handled it was rolled back or its answer was lost.
CaptureAckedOnlyIfRecorded ==
    \A o \in Order : gateway[o] = "captured" =>
        \A k \in CaptureKind : <<o, k>> \in pending \cup events

\* The id of a capture goes on record only together with the credit it is for.
\* A request that is rolled back, also one that refuses a delivery for its
\* signature, leaves no id behind, or the genuine delivery of that id would be
\* answered "duplicate" and nothing be credited.
RecordedCaptureIsCredited ==
    \A o \in Order, k \in CaptureKind :
        <<o, k>> \in events \ BadEvent => credits[o] > 0

\* SECURITY_AUDIT.md says of a webhook whose signature does not verify that it is
\* answered 400 "and recorded".
RefusedIsRecorded == refused \subseteq events

\* No event id is processed by two requests at a time, nor again once recorded.
EventHandledOnce ==
    \A t \in Tx : req[t].kind = "webhook" =>
        /\ req[t].event \notin events
        /\ \A s \in Tx \ {t} : ~InsertsEvent(s, req[t].event)

\* payments and subscriptions agree: a paid order's buyer has a row of its plan.
PaidOrderHasSubscription ==
    \A o \in Order : payments[o] = "paid" =>
        \E i \in DOMAIN subs : subs[i].user = Buyer[o] /\ subs[i].plan = PlanOf[o]

\* No row runs longer than the periods credited to its user for its plan: an
\* extension never starts from another plan's end or counts a period twice.
Bought(u, p) == {o \in Order : Buyer[o] = u /\ PlanOf[o] = p}
TimeOf(c, u, p) == MapThenSumSet(LAMBDA o : c[o] * Period[p], Bought(u, p))
CreditedTime(u, p) == TimeOf(credits, u, p)
NoUnpaidTime ==
    \A i \in DOMAIN subs : subs[i].end =< now + CreditedTime(subs[i].user, subs[i].plan)

\* An order is activated at most once.
ActivatedAtMostOnce == \A o \in Order : credits[o] =< 1

\* At most one of a user's rows is running.
OneRunningRow == \A u \in User : Cardinality(LiveRows(u)) =< 1

\* Two payments for one plan buy both periods: an account that only ever bought
\* plan p has a row that lasts at least the time bought.
NoPaidTimeLost ==
    \A u \in User \ deleted, p \in Plan :
        /\ \A o \in Order : Buyer[o] = u /\ credits[o] > 0 => PlanOf[o] = p
        /\ CreditedTime(u, p) > 0
        => \E i \in DOMAIN subs : subs[i].user = u /\ subs[i].end >= CreditedTime(u, p)

\* Between requests, users.plan is "pro" for every account with a running row
\* (entitlement checks look at the plan first).
PlanFollowsSubscription ==
    (\A t \in Tx : pc[t] = "idle") =>
        \A u \in User \ deleted : LiveRows(u) # {} => plan[u] = "pro"

\* Every step credits nothing or what Ledger allows; with one request at a time
\* it also credits each order only once.
Authorized == {o \in Order : gateway[o] \in {"authorized", "captured", "lapsed"}}
LedgerOf == INSTANCE Ledger WITH authorized <- Authorized
LedgerSpec == LedgerOf!Spec
LedgerOnceSpec == LedgerOf!OnceSpec

-----------------------------------------------------------------------------
(* Liveness: webhooks alone carry a captured payment to a subscription *)

HandlesEvent(t, e) == InsertsEvent(t, e) /\ req[t].kind = "webhook"
Verifies(t, o) == req[t].kind = "verify" /\ req[t].order = o

\* Requests end; Razorpay redelivers a capture that was not answered; database
\* errors and crashes do not hit every attempt at it for ever, nor every verify.
Fairness ==
    /\ \A t \in Tx : WF_vars(Step(t))
    /\ \A e \in {d \in Event : d[2] \in CaptureKind} :
         /\ SF_vars(\E t \in Tx : WebhookCapture(t, e))
         /\ SF_vars(\E t \in Tx : HandlesEvent(t, e) /\ MarkPaid(t))
         /\ SF_vars(\E t \in Tx, lost \in BOOLEAN : HandlesEvent(t, e) /\ Commit(t, lost))
    /\ \A o \in Order : SF_vars(\E t \in Tx : Verifies(t, o) /\ Commit(t, FALSE))

FairSpec == Spec /\ Fairness

\* Every captured payment is credited in the end, even if checkout never calls
\* verify and one of the two capture events cannot be processed.
CapturedIsCredited == \A o \in Order : gateway[o] = "captured" ~> credits[o] > 0
=============================================================================
