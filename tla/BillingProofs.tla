--------------------------- MODULE BillingProofs ---------------------------
(***************************************************************************)
(* Proofs about Billing, for any users, orders, plans and number of        *)
(* concurrent requests.  SlotOK ties the control point of a request to     *)
(* what it is handling and about to write; TypeOK is inductive with it.    *)
(* AuthInv follows an order from its authorization to its credit, and      *)
(* EventInv a webhook event from Razorpay to the record of its id.  The    *)
(* second part is about the subscription rows.                             *)
(***************************************************************************)
EXTENDS Billing, SequenceTheorems, FiniteSetTheorems, TLAPS

\* What a request slot may hold at each control point.
SlotOK(t) ==
    LET k == req[t].kind IN
    /\ pc[t] = "fetch" => k = "verify"
    /\ pc[t] = "mark" => k \in {"verify", "webhook"}
    /\ pc[t] = "reject" => k = "misdelivery"
    /\ pc[t] = "read" => k \in AnyUserKind
    /\ pc[t] = "commit" => k # "none"
    /\ pc[t] # "commit" => write[t] = NoWrite
    /\ write[t].pay # "keep" => k \in {"create", "verify", "webhook"}
    /\ write[t].pay = "paid" => k # "create"
    /\ write[t].op \in {"insert", "replace"} => k \in {"verify", "webhook"}
    /\ write[t].op = "close" => k = "delete"

TypeInv == TypeOK /\ \A t \in Tx : SlotOK(t)

USE BuyerAssumption, PlanOfAssumption, PeriodAssumption, UserKindAssumption,
    FaultAssumption, BadEventAssumption, MisdeliveryAssumption, MaxTimeAssumption

\* The order and the user of a request are an order and a user.
LEMMA RequestTypes ==
    ASSUME NEW r \in Request, r.kind # "none"
    PROVE  /\ UserOf(r) \in User
           /\ r.kind \in {"create", "verify", "webhook", "misdelivery"} => OrderOf(r) \in Order
           /\ r.kind \in {"webhook", "misdelivery"} => r.event \in Event
           /\ r.kind \in AnyUserKind => r.user \in User
BY DEF Request, CreateReq, VerifyReq, WebhookReq, UserReq, NoReq, UserOf, OrderOf,
       Event, AnyUserKind

\* A patched row is a subscription row again, and the commit writes a table.
LEMMA PatchedRow ==
    ASSUME subs \in Seq(SubRow), NEW w \in WriteSet, NEW i \in 1..Len(subs)
    PROVE  Patched(w, i) \in SubRow
<1>1. subs[i] \in SubRow OBVIOUS
<1>2. w.end \in Nat BY DEF WriteSet
<1> QED BY <1>1, <1>2 DEF Patched, SubRow

\* The table a commit leaves has one row more at most, each of them typed.
LEMMA WriteSubsType ==
    ASSUME subs \in Seq(SubRow), NEW w \in WriteSet, NEW r \in Request,
           w.op \in {"insert", "replace"} => r.kind \in {"verify", "webhook"},
           WriteSubs(r, w)
    PROVE  subs' \in Seq(SubRow)
<1> DEFINE patched == [i \in 1..Len(subs) |-> Patched(w, i)]
<1>1. patched \in Seq(SubRow)
    <2>1. patched \in [1..Len(subs) -> SubRow] BY PatchedRow
    <2>2. Len(subs) \in Nat OBVIOUS
    <2> QED BY <2>1, <2>2, SeqDef
<1>2. ASSUME w.op \in {"insert", "replace"} PROVE NewRow(r, w) \in SubRow
    BY <1>2, RequestTypes DEF NewRow, SubRow, WriteSet
<1>3. CASE w.op \in {"insert", "replace"}
    <2> HIDE DEF patched
    <2>1. Append(patched, NewRow(r, w)) \in Seq(SubRow) BY <1>1, <1>2, <1>3
    <2> QED BY <2>1, <1>3 DEF WriteSubs, patched
<1>4. CASE w.op \notin {"insert", "replace"}
    BY <1>1, <1>4 DEF WriteSubs
<1> QED BY <1>3, <1>4

-----------------------------------------------------------------------------
(* Type correctness *)

\* The initial states are typed and every slot is consistent.
THEOREM InitType == Init => TypeInv
BY DEF Init, TypeInv, TypeOK, SlotOK, NoReq, NoWrite, PaymentWrite, WriteSet, Request

\* A request that ends leaves an idle slot.
LEMMA FinishType ==
    ASSUME TypeInv, NEW t \in Tx, Finish(t)
    PROVE  /\ pc' \in [Tx -> {"idle", "read", "fetch", "mark", "reject", "commit"}]
           /\ req' \in [Tx -> Request]
           /\ load' \in [Tx -> {"free", "pro"}]
           /\ write' \in [Tx -> WriteSet]
           /\ \A s \in Tx : SlotOK(s)'
<1>1. NoReq \in Request /\ NoWrite \in WriteSet BY DEF NoReq, Request, NoWrite, PaymentWrite, WriteSet
<1>2. /\ pc' \in [Tx -> {"idle", "read", "fetch", "mark", "reject", "commit"}]
      /\ req' \in [Tx -> Request]
      /\ load' \in [Tx -> {"free", "pro"}]
      /\ write' \in [Tx -> WriteSet]
    BY <1>1 DEF TypeInv, TypeOK, Finish
<1>3. ASSUME NEW s \in Tx PROVE SlotOK(s)'
    <2>1. CASE s = t
        BY <2>1 DEF TypeInv, TypeOK, Finish, SlotOK, NoReq, NoWrite, PaymentWrite
    <2>2. CASE s # t
        BY <2>2 DEF TypeInv, TypeOK, Finish, SlotOK
    <2> QED BY <2>1, <2>2
<1> QED BY <1>2, <1>3

\* A request that starts: its slot is consistent if its kind and first control
\* point agree and it writes nothing yet, or commits what its kind may write.
LEMMA StartType ==
    ASSUME TypeInv, NEW t \in Tx, NEW r \in Request, NEW l \in {"free", "pro"},
           NEW p \in {"read", "fetch", "mark", "reject", "commit"},
           Start(t, r, p, l), write' = write \/ write' = [write EXCEPT ![t] = write'[t]],
           write'[t] \in WriteSet,
           r.kind # "none",
           p = "fetch" => r.kind = "verify",
           p = "mark" => r.kind \in {"verify", "webhook"},
           p = "reject" => r.kind = "misdelivery",
           p = "read" => r.kind \in AnyUserKind,
           p # "commit" => write'[t] = NoWrite,
           write'[t].pay # "keep" => r.kind \in {"create", "webhook"},
           write'[t].pay = "paid" => r.kind = "webhook",
           write'[t].op = "none"
    PROVE  /\ pc' \in [Tx -> {"idle", "read", "fetch", "mark", "reject", "commit"}]
           /\ req' \in [Tx -> Request]
           /\ load' \in [Tx -> {"free", "pro"}]
           /\ write' \in [Tx -> WriteSet]
           /\ \A s \in Tx : SlotOK(s)'
<1>1. /\ pc' \in [Tx -> {"idle", "read", "fetch", "mark", "reject", "commit"}]
      /\ req' \in [Tx -> Request]
      /\ load' \in [Tx -> {"free", "pro"}]
      /\ write' \in [Tx -> WriteSet]
    BY DEF TypeInv, TypeOK, Start
<1>2. ASSUME NEW s \in Tx PROVE SlotOK(s)'
    <2>1. CASE s = t
        BY <2>1 DEF TypeInv, TypeOK, Start, SlotOK
    <2>2. CASE s # t
        BY <2>2 DEF TypeInv, TypeOK, Start, SlotOK
    <2> QED BY <2>1, <2>2
<1> QED BY <1>1, <1>2

\* Moving on to another control point, or to "commit" with a prepared write.
LEMMA MoveType ==
    ASSUME TypeInv, NEW t \in Tx, NEW p \in {"mark", "commit"},
           Goto(t, p), UNCHANGED <<req, load>>,
           write' = write \/ write' = [write EXCEPT ![t] = write'[t]],
           write'[t] \in WriteSet,
           req[t].kind # "none",
           p = "mark" => req[t].kind = "verify" /\ write'[t] = NoWrite,
           write'[t].pay # "keep" => req[t].kind \in {"verify", "webhook"},
           write'[t].op \in {"insert", "replace"} => req[t].kind \in {"verify", "webhook"},
           write'[t].op = "close" => req[t].kind = "delete"
    PROVE  /\ pc' \in [Tx -> {"idle", "read", "fetch", "mark", "reject", "commit"}]
           /\ req' \in [Tx -> Request]
           /\ load' \in [Tx -> {"free", "pro"}]
           /\ write' \in [Tx -> WriteSet]
           /\ \A s \in Tx : SlotOK(s)'
<1>1. /\ pc' \in [Tx -> {"idle", "read", "fetch", "mark", "reject", "commit"}]
      /\ req' \in [Tx -> Request]
      /\ load' \in [Tx -> {"free", "pro"}]
      /\ write' \in [Tx -> WriteSet]
    BY DEF TypeInv, TypeOK, Goto
<1>2. ASSUME NEW s \in Tx PROVE SlotOK(s)'
    <2>1. CASE s = t
        BY <2>1 DEF TypeInv, TypeOK, Goto, SlotOK, AnyUserKind
    <2>2. CASE s # t
        BY <2>2 DEF TypeInv, TypeOK, Goto, SlotOK
    <2> QED BY <2>1, <2>2
<1> QED BY <1>1, <1>2

\* Actions that only start or end a request, and the three webhook outcomes.
LEMMA BeginType == ASSUME TypeInv, NEW t \in Tx, Begin(t) PROVE TypeInv'
<1> USE DEF AnyUserKind
<1>1. ASSUME NEW o \in Order, CreateOrder(t, o) PROVE TypeInv'
    <2>1. plan[Buyer[o]] \in {"free", "pro"} BY DEF TypeInv, TypeOK
    <2>2. [kind |-> "create", order |-> o] \in Request BY DEF Request, CreateReq
    <2>3. /\ write'[t] = PaymentWrite("created")
          /\ write' = [write EXCEPT ![t] = write'[t]]
        BY <1>1 DEF CreateOrder, Prepare, TypeInv, TypeOK
    <2>4. write'[t] \in WriteSet BY <2>3 DEF PaymentWrite, WriteSet
    <2>5. write'[t].pay = "created" /\ write'[t].op = "none" BY <2>3 DEF PaymentWrite
    <2>6. /\ pc' \in [Tx -> {"idle", "read", "fetch", "mark", "reject", "commit"}]
          /\ req' \in [Tx -> Request]
          /\ load' \in [Tx -> {"free", "pro"}]
          /\ write' \in [Tx -> WriteSet]
          /\ \A s \in Tx : SlotOK(s)'
        BY <1>1, <2>1, <2>2, <2>3, <2>4, <2>5, StartType DEF CreateOrder
    <2> QED BY <1>1, <2>6 DEF TypeInv, TypeOK, CreateOrder, db
<1>2. ASSUME NEW o \in Order, VerifyBegin(t, o) PROVE TypeInv'
    <2>1. plan[Buyer[o]] \in {"free", "pro"} BY DEF TypeInv, TypeOK
    <2>2. [kind |-> "verify", order |-> o] \in Request BY DEF Request, VerifyReq
    <2>3. write' = write /\ write'[t] = NoWrite /\ write'[t] \in WriteSet
        BY <1>2 DEF VerifyBegin, Start, TypeInv, TypeOK, SlotOK
    <2>4. /\ pc' \in [Tx -> {"idle", "read", "fetch", "mark", "reject", "commit"}]
          /\ req' \in [Tx -> Request]
          /\ load' \in [Tx -> {"free", "pro"}]
          /\ write' \in [Tx -> WriteSet]
          /\ \A s \in Tx : SlotOK(s)'
        BY <1>2, <2>1, <2>2, <2>3, StartType DEF VerifyBegin, NoWrite, PaymentWrite
    <2> QED BY <1>2, <2>4 DEF TypeInv, TypeOK, VerifyBegin, db
<1>3. ASSUME NEW o \in Order, VerifyAgain(t, o) PROVE TypeInv'
    <2>1. plan[Buyer[o]] \in {"free", "pro"} BY DEF TypeInv, TypeOK
    <2>2. [kind |-> "status", user |-> Buyer[o]] \in Request BY DEF Request, UserReq
    <2>3. write' = write /\ write'[t] = NoWrite /\ write'[t] \in WriteSet
        BY <1>3 DEF VerifyAgain, Start, TypeInv, TypeOK, SlotOK
    <2>4. /\ pc' \in [Tx -> {"idle", "read", "fetch", "mark", "reject", "commit"}]
          /\ req' \in [Tx -> Request]
          /\ load' \in [Tx -> {"free", "pro"}]
          /\ write' \in [Tx -> WriteSet]
          /\ \A s \in Tx : SlotOK(s)'
        BY <1>3, <2>1, <2>2, <2>3, StartType DEF VerifyAgain, NoWrite, PaymentWrite
    <2> QED BY <1>3, <2>4 DEF TypeInv, TypeOK, VerifyAgain, db
<1>4. ASSUME NEW e \in Event,
             WebhookCapture(t, e) \/ WebhookNote(t, e) \/ MisdeliveredBegin(t, e)
      PROVE TypeInv'
    <2> DEFINE k == IF MisdeliveredBegin(t, e) THEN "misdelivery" ELSE "webhook"
    <2>1. [kind |-> "webhook", event |-> e] \in Request
          /\ [kind |-> "misdelivery", event |-> e] \in Request
        BY DEF Request, WebhookReq
    <2>2. pc[t] = "idle"
        BY <1>4 DEF WebhookCapture, WebhookNote, MisdeliveredBegin, Start
    <2>3. write' = write /\ write'[t] = NoWrite /\ write'[t] \in WriteSet
        BY <1>4, <2>2 DEF WebhookCapture, WebhookNote, MisdeliveredBegin, TypeInv, TypeOK, SlotOK
    <2>4. /\ pc' \in [Tx -> {"idle", "read", "fetch", "mark", "reject", "commit"}]
          /\ req' \in [Tx -> Request]
          /\ load' \in [Tx -> {"free", "pro"}]
          /\ write' \in [Tx -> WriteSet]
          /\ \A s \in Tx : SlotOK(s)'
        <3>1. CASE WebhookCapture(t, e)
            BY <3>1, <2>1, <2>3, StartType DEF WebhookCapture, NoWrite, PaymentWrite
        <3>2. CASE WebhookNote(t, e)
            BY <3>2, <2>1, <2>3, StartType DEF WebhookNote, NoWrite, PaymentWrite
        <3>3. CASE MisdeliveredBegin(t, e)
            BY <3>3, <2>1, <2>3, StartType DEF MisdeliveredBegin, NoWrite, PaymentWrite
        <3> QED BY <1>4, <3>1, <3>2, <3>3
    <2> QED BY <1>4, <2>4
            DEF TypeInv, TypeOK, WebhookCapture, WebhookNote, MisdeliveredBegin, db
<1>5. ASSUME NEW e \in Event, WebhookFailure(t, e) PROVE TypeInv'
    <2>1. [kind |-> "webhook", event |-> e] \in Request BY DEF Request, WebhookReq
    <2>2. /\ write'[t] = PaymentWrite("failed")
          /\ write' = [write EXCEPT ![t] = write'[t]]
        BY <1>5 DEF WebhookFailure, Prepare, TypeInv, TypeOK
    <2>3. write'[t] \in WriteSet BY <2>2 DEF PaymentWrite, WriteSet
    <2>4. write'[t].pay = "failed" /\ write'[t].op = "none" BY <2>2 DEF PaymentWrite
    <2>5. /\ pc' \in [Tx -> {"idle", "read", "fetch", "mark", "reject", "commit"}]
          /\ req' \in [Tx -> Request]
          /\ load' \in [Tx -> {"free", "pro"}]
          /\ write' \in [Tx -> WriteSet]
          /\ \A s \in Tx : SlotOK(s)'
        BY <1>5, <2>1, <2>2, <2>3, <2>4, StartType DEF WebhookFailure
    <2> QED BY <1>5, <2>5 DEF TypeInv, TypeOK, WebhookFailure, db
<1>6. ASSUME NEW u \in User, NEW k \in UserKind, UserBegin(t, k, u) PROVE TypeInv'
    <2>1. plan[u] \in {"free", "pro"} BY DEF TypeInv, TypeOK
    <2>2. [kind |-> k, user |-> u] \in Request BY DEF Request, UserReq
    <2>3. write' = write /\ write'[t] = NoWrite /\ write'[t] \in WriteSet
        BY <1>6 DEF UserBegin, Start, TypeInv, TypeOK, SlotOK
    <2>4. /\ pc' \in [Tx -> {"idle", "read", "fetch", "mark", "reject", "commit"}]
          /\ req' \in [Tx -> Request]
          /\ load' \in [Tx -> {"free", "pro"}]
          /\ write' \in [Tx -> WriteSet]
          /\ \A s \in Tx : SlotOK(s)'
        BY <1>6, <2>1, <2>2, <2>3, StartType DEF UserBegin, NoWrite, PaymentWrite
    <2> QED BY <1>6, <2>4 DEF TypeInv, TypeOK, UserBegin, db
<1> QED BY <1>1, <1>2, <1>3, <1>4, <1>5, <1>6 DEF Begin

\* Rows a request found are table indices.
LEMMA ActiveRowsType ==
    ASSUME TypeOK, NEW u \in User
    PROVE  ActiveRows(u) \subseteq 1..Len(subs) /\ ActiveRows(u) \subseteq Nat
BY DEF ActiveRows, TypeOK

\* Marking an order paid prepares a write the slot may commit.
LEMMA MarkPaidType == ASSUME TypeInv, NEW t \in Tx, MarkPaid(t) PROVE TypeInv'
<1> DEFINE o == OrderOf(req[t])
           u == Buyer[o]
           p == PlanOf[o]
<1>1. req[t] \in Request /\ req[t].kind \in {"verify", "webhook"}
    BY DEF TypeInv, TypeOK, SlotOK, MarkPaid
<1>2. o \in Order /\ u \in User /\ p \in Plan BY <1>1, RequestTypes
<1>3. PICK cur \in 0..Len(subs), lapsed \in SUBSET ActiveRows(u) :
        LET renews == Renews(cur, p)
            loaded == IF req[t].kind = "verify" THEN load[t] ELSE plan[u]
        IN  Prepare(t, [pay |-> "paid",
                        plan |-> PlanWrite(loaded, "pro"),
                        op |-> IF renews THEN "extend"
                               ELSE IF cur # 0 THEN "replace" ELSE "insert",
                        cur |-> cur,
                        end |-> PeriodStart(cur, p) + Period[p],
                        uncape |-> renews /\ subs[cur].cape,
                        rows |-> lapsed])
    BY DEF MarkPaid
<1>4. PeriodStart(cur, p) + Period[p] \in Nat
    <2>1. now \in Nat /\ Period[p] \in Nat BY <1>2 DEF TypeInv, TypeOK
    <2>2. CASE Renews(cur, p)
        <3>1. subs[cur] \in SubRow BY <2>2 DEF Renews, TypeInv, TypeOK
        <3> QED BY <3>1, <2>1, <2>2 DEF PeriodStart, SubRow
    <2>3. CASE ~Renews(cur, p) BY <2>1, <2>3 DEF PeriodStart
    <2> QED BY <2>2, <2>3
<1>5. (Renews(cur, p) /\ subs[cur].cape) \in BOOLEAN
    <2>1. CASE Renews(cur, p)
        <3>1. subs[cur] \in SubRow BY <2>1 DEF Renews, TypeInv, TypeOK
        <3> QED BY <3>1, <2>1 DEF SubRow
    <2>2. CASE ~Renews(cur, p) BY <2>2
    <2> QED BY <2>1, <2>2
<1>6. lapsed \in SUBSET Nat BY <1>2, ActiveRowsType DEF TypeInv
<1>7. \A q : PlanWrite(q, "pro") \in {"keep", "pro"} BY DEF PlanWrite
<1>8. /\ write' = [write EXCEPT ![t] = write'[t]]
      /\ write'[t] \in WriteSet
      /\ write'[t].op # "close"
    BY <1>3, <1>4, <1>5, <1>6, <1>7 DEF Prepare, WriteSet, TypeInv, TypeOK
<1>9. /\ pc' \in [Tx -> {"idle", "read", "fetch", "mark", "reject", "commit"}]
      /\ req' \in [Tx -> Request]
      /\ load' \in [Tx -> {"free", "pro"}]
      /\ write' \in [Tx -> WriteSet]
      /\ \A s \in Tx : SlotOK(s)'
    BY <1>1, <1>8, MoveType DEF MarkPaid
<1> QED BY <1>9 DEF TypeInv, TypeOK, MarkPaid, db

\* The reads of a request, and the writes they prepare.
LEMMA ReadType ==
    ASSUME TypeInv, NEW t \in Tx, ReadStatus(t) \/ ReadCancel(t) \/ ReadDelete(t)
    PROVE  TypeInv'
<1>1. /\ pc[t] = "read"
      /\ req[t] \in Request
      /\ req[t].kind \in AnyUserKind
      /\ req[t].kind # "none"
      /\ req[t].user \in User
    BY RequestTypes DEF TypeInv, TypeOK, SlotOK, ReadStatus, ReadCancel, ReadDelete, AnyUserKind
<1>2. ActiveRows(req[t].user) \in SUBSET Nat BY <1>1, ActiveRowsType DEF TypeInv
<1>3. \A q, r \in {"free", "pro"} : PlanWrite(q, r) \in {"keep", "free", "pro"}
    BY DEF PlanWrite
<1>4. ASSUME NEW q \in {"keep", "free", "pro"}, NEW op \in {"none", "flag", "close"},
             NEW i \in Nat, NEW rows \in SUBSET Nat,
             Prepare(t, UserWrite(q, op, i, rows))
      PROVE  /\ write' = [write EXCEPT ![t] = write'[t]]
             /\ write'[t] \in WriteSet
             /\ write'[t].pay = "keep"
             /\ write'[t].op = op
    BY <1>4 DEF Prepare, UserWrite, WriteSet, TypeInv, TypeOK
<1>5. /\ write' = [write EXCEPT ![t] = write'[t]]
      /\ write'[t] \in WriteSet
      /\ write'[t].pay = "keep"
      /\ write'[t].op \in {"none", "flag", "close"}
      /\ write'[t].op = "close" => req[t].kind = "delete"
    <2> load[t] \in {"free", "pro"} BY DEF TypeInv, TypeOK
    <2>1. CASE ReadStatus(t)
        <3>1. PICK cur \in 0..Len(subs), lapsed \in SUBSET ActiveRows(req[t].user) :
                Prepare(t, UserWrite(IF req[t].kind = "entitlements" THEN "keep"
                                     ELSE PlanWrite(load[t], IF cur # 0 THEN "pro" ELSE "free"),
                                     "none", 0, lapsed))
            BY <2>1 DEF ReadStatus
        <3> DEFINE q == IF req[t].kind = "entitlements" THEN "keep"
                        ELSE PlanWrite(load[t], IF cur # 0 THEN "pro" ELSE "free")
        <3>2. q \in {"keep", "free", "pro"} BY <1>3
        <3>3. lapsed \in SUBSET Nat BY <1>2
        <3> HIDE DEF q
        <3>4. Prepare(t, UserWrite(q, "none", 0, lapsed)) BY <3>1 DEF q
        <3> QED BY <3>2, <3>3, <3>4, <1>4
    <2>2. CASE ReadCancel(t)
        <3>1. PICK cur \in LiveRows(req[t].user) :
                Prepare(t, UserWrite(PlanWrite(load[t], "pro"),
                                     IF subs[cur].cape THEN "none" ELSE "flag", cur, {}))
            BY <2>2 DEF ReadCancel
        <3>2. cur \in Nat BY <1>2 DEF LiveRows
        <3> DEFINE q == PlanWrite(load[t], "pro")
                   op == IF subs[cur].cape THEN "none" ELSE "flag"
        <3>3. q \in {"keep", "free", "pro"} /\ op \in {"none", "flag"} BY <1>3
        <3> HIDE DEF q, op
        <3>4. Prepare(t, UserWrite(q, op, cur, {})) BY <3>1 DEF q, op
        <3> QED BY <3>2, <3>3, <3>4, <1>4
    <2>3. CASE ReadDelete(t)
        <3> DEFINE q == PlanWrite(load[t], "free")
        <3>1. q \in {"keep", "free", "pro"} BY <1>3
        <3> HIDE DEF q
        <3>2. Prepare(t, UserWrite(q, "close", 0, ActiveRows(req[t].user)))
            BY <2>3 DEF ReadDelete, q
        <3>3. req[t].kind = "delete" BY <2>3 DEF ReadDelete
        <3> QED BY <3>1, <3>2, <3>3, <1>2, <1>4
    <2> QED BY <2>1, <2>2, <2>3
<1>6. /\ pc' \in [Tx -> {"idle", "read", "fetch", "mark", "reject", "commit"}]
      /\ req' \in [Tx -> Request]
      /\ load' \in [Tx -> {"free", "pro"}]
      /\ write' \in [Tx -> WriteSet]
      /\ \A s \in Tx : SlotOK(s)'
    BY <1>1, <1>5, MoveType DEF ReadStatus, ReadCancel, ReadDelete
<1> QED BY <1>6 DEF TypeInv, TypeOK, ReadStatus, ReadCancel, ReadDelete, db

\* A commit writes typed rows and frees the slot.
LEMMA CommitType ==
    ASSUME TypeInv, NEW t \in Tx, NEW lost \in BOOLEAN, Commit(t, lost)
    PROVE  TypeInv'
<1> DEFINE r == req[t]
           w == write[t]
<1>1. r \in Request /\ w \in WriteSet /\ r.kind # "none"
    BY DEF TypeInv, TypeOK, SlotOK, Commit
<1>2. /\ w.op \in {"insert", "replace"} => r.kind \in {"verify", "webhook"}
      /\ w.op = "close" => r.user \in User
      /\ w.pay # "keep" => OrderOf(r) \in Order
      /\ UserOf(r) \in User
      /\ r.kind = "webhook" => r.event \in Event
    BY <1>1, RequestTypes DEF TypeInv, SlotOK, AnyUserKind
<1>3. subs' \in Seq(SubRow)
    <2>1. WriteSubs(r, w) /\ subs \in Seq(SubRow) BY DEF Commit, TypeInv, TypeOK
    <2> QED BY <2>1, <1>1, <1>2, WriteSubsType
<1>4. /\ payments' \in [Order -> {"none", "created", "paid", "failed"}]
      /\ credits' \in [Order -> Nat]
    <2>1. WritePayment(r, w) BY DEF Commit
    <2>2. CASE w.pay = "keep" BY <2>1, <2>2 DEF WritePayment, TypeInv, TypeOK
    <2>3. CASE w.pay # "keep"
        <3>1. w.pay \in {"created", "paid", "failed"} BY <1>1, <2>3 DEF WriteSet
        <3>2. OrderOf(r) \in Order BY <1>2, <2>3
        <3> DEFINE o == OrderOf(r)
                   status == w.pay
                   n == IF w.pay = "paid" THEN 1 ELSE 0
        <3>3. /\ payments' = [payments EXCEPT ![o] = status]
              /\ credits' = [credits EXCEPT ![o] = credits[o] + n]
            BY <2>1, <2>3 DEF WritePayment
        <3>4. n \in Nat OBVIOUS
        <3> HIDE DEF o, status, n
        <3>5. credits[o] + n \in Nat BY <3>2, <3>4 DEF o, TypeInv, TypeOK
        <3> QED BY <3>1, <3>2, <3>3, <3>5 DEF o, status, TypeInv, TypeOK
    <2> QED BY <2>2, <2>3
<1>5. /\ plan' \in [User -> {"free", "pro"}]
      /\ deleted' \subseteq User
      /\ events' \subseteq Event
      /\ pending' \subseteq Event
      /\ UNCHANGED <<now, gateway, refused>>
    <2>1. w.plan \in {"keep", "free", "pro"} BY <1>1 DEF WriteSet
    <2> QED BY <2>1, <1>2 DEF Commit, TypeInv, TypeOK
<1>6. /\ pc' \in [Tx -> {"idle", "read", "fetch", "mark", "reject", "commit"}]
      /\ req' \in [Tx -> Request]
      /\ load' \in [Tx -> {"free", "pro"}]
      /\ write' \in [Tx -> WriteSet]
      /\ \A s \in Tx : SlotOK(s)'
    BY FinishType DEF Commit
<1> QED BY <1>3, <1>4, <1>5, <1>6 DEF TypeInv, TypeOK

\* A step of a request in flight.
LEMMA StepType == ASSUME TypeInv, NEW t \in Tx, Step(t) PROVE TypeInv'
<1>1. ASSUME FetchConfirms(t) \/ FetchUnreachable(t) PROVE TypeInv'
    <2>1. pc[t] = "fetch" /\ write' = write BY <1>1 DEF FetchConfirms, FetchUnreachable
    <2>2. req[t].kind = "verify" /\ write'[t] = NoWrite /\ write'[t] \in WriteSet
        BY <2>1 DEF TypeInv, TypeOK, SlotOK
    <2>3. write'[t].pay = "keep" /\ write'[t].op = "none"
        BY <2>2 DEF NoWrite, PaymentWrite
    <2>4. /\ pc' \in [Tx -> {"idle", "read", "fetch", "mark", "reject", "commit"}]
          /\ req' \in [Tx -> Request]
          /\ load' \in [Tx -> {"free", "pro"}]
          /\ write' \in [Tx -> WriteSet]
          /\ \A s \in Tx : SlotOK(s)'
        BY <1>1, <2>1, <2>2, <2>3, MoveType DEF FetchConfirms, FetchUnreachable
    <2> QED BY <1>1, <2>4 DEF TypeInv, TypeOK, FetchConfirms, FetchUnreachable, db
<1>2. ASSUME FetchRefuses(t) \/ MisdeliveredReject(t) \/ RefuseCancel(t) \/ Abort(t)
      PROVE  TypeInv'
    <2>1. Finish(t) /\ UNCHANGED <<now, gateway, pending, db, credits>>
        BY <1>2 DEF FetchRefuses, MisdeliveredReject, RefuseCancel, Abort
    <2>2. refused' \subseteq Event
        <3>1. CASE MisdeliveredReject(t)
            <4>1. req[t] \in Request /\ req[t].kind = "misdelivery"
                BY <3>1 DEF MisdeliveredReject, TypeInv, TypeOK, SlotOK
            <4>2. req[t].event \in Event BY <4>1, RequestTypes
            <4> QED BY <3>1, <4>2 DEF MisdeliveredReject, TypeInv, TypeOK
        <3>2. CASE ~MisdeliveredReject(t)
            BY <3>2, <1>2 DEF FetchRefuses, RefuseCancel, Abort, TypeInv, TypeOK
        <3> QED BY <3>1, <3>2
    <2> QED BY <2>1, <2>2, FinishType DEF TypeInv, TypeOK, db
<1> QED BY <1>1, <1>2, MarkPaidType, ReadType, CommitType DEF Step

\* Razorpay and the clock.
LEMMA OutsideType ==
    ASSUME TypeInv, Gateway \/ Tick \/ \E e \in Event : WebhookDuplicate(e)
    PROVE  TypeInv'
<1>1. UNCHANGED slots /\ UNCHANGED <<db, credits, refused>>
    BY DEF Gateway, Authorize, Decline, Capture, Lapse, Tick, WebhookDuplicate
<1>2. now' \in 0..MaxTime
    <2>1. CASE Tick BY <2>1 DEF Tick, TypeInv, TypeOK
    <2>2. CASE ~Tick
        BY <2>2 DEF Gateway, Authorize, Decline, Capture, Lapse, WebhookDuplicate, TypeInv, TypeOK
    <2> QED BY <2>1, <2>2
<1>3. gateway' \in [Order -> {"none", "open", "declined", "authorized", "captured", "lapsed"}]
    <2>1. \/ gateway' = gateway
          \/ \E o \in Order, g \in {"declined", "authorized", "captured", "lapsed"} :
               gateway' = [gateway EXCEPT ![o] = g]
        BY DEF Gateway, Authorize, Decline, Capture, Lapse, Tick, WebhookDuplicate
    <2> QED BY <2>1 DEF TypeInv, TypeOK
<1>4. pending' \subseteq Event
    BY DEF Gateway, Authorize, Decline, Capture, Lapse, Tick, WebhookDuplicate,
           TypeInv, TypeOK, Event, EventKind
<1>5. TypeOK' BY <1>1, <1>2, <1>3, <1>4 DEF TypeInv, TypeOK, slots, db
<1>6. \A s \in Tx : SlotOK(s)' BY <1>1 DEF TypeInv, SlotOK, slots
<1> QED BY <1>5, <1>6 DEF TypeInv

\* Stuttering steps.
LEMMA StutterType == TypeInv /\ UNCHANGED vars => TypeInv'
BY DEF TypeInv, TypeOK, SlotOK, vars, slots, db

\* TypeInv is inductive.
LEMMA NextType == TypeInv /\ [Next]_vars => TypeInv'
BY BeginType, StepType, OutsideType, StutterType DEF Next

\* Every variable keeps its type, and each request slot is consistent, for any
\* number of concurrent requests.
THEOREM TypeCorrect == Spec => []TypeOK
<1>1. TypeInv => TypeOK BY DEF TypeInv
<1> QED BY InitType, NextType, <1>1, PTL DEF Spec

-----------------------------------------------------------------------------
(* Credits follow authorizations *)

AuthState == {"authorized", "captured", "lapsed"}
SlotAuth(t) == pc[t] \in {"fetch", "mark"} \/ write[t].pay = "paid"
                  => gateway[OrderOf(req[t])] \in AuthState

\* A request that may go on to activate an order saw its payment authorized,
\* and pending capture events belong to captured orders.
AuthInv ==
    /\ \A t \in Tx : SlotAuth(t)
    /\ \A e \in pending : e[2] \in CaptureKind => gateway[e[1]] = "captured"
    /\ CreditNeedsAuthorization

\* Authorized, and captured, once is for ever.
LEMMA AuthMonotone ==
    ASSUME TypeInv, [Next]_vars
    PROVE  \A o \in Order : /\ gateway[o] \in AuthState => gateway'[o] \in AuthState
                            /\ gateway[o] = "captured" => gateway'[o] = "captured"
<1>1. \/ gateway' = gateway
      \/ \E o \in Order :
           \/ gateway[o] = "none" /\ gateway' = [gateway EXCEPT ![o] = "open"]
           \/ gateway[o] \in {"open", "declined"} /\ gateway' = [gateway EXCEPT ![o] = "authorized"]
           \/ gateway[o] = "open" /\ gateway' = [gateway EXCEPT ![o] = "declined"]
           \/ gateway[o] = "authorized" /\ gateway' = [gateway EXCEPT ![o] = "captured"]
           \/ gateway[o] = "authorized" /\ gateway' = [gateway EXCEPT ![o] = "lapsed"]
    <2>1. CASE Gateway BY <2>1 DEF Gateway, Authorize, Decline, Capture, Lapse
    <2>2. ASSUME NEW t \in Tx, Begin(t) PROVE <1>1!2 \/ gateway' = gateway
        BY <2>2 DEF Begin, CreateOrder, VerifyBegin, VerifyAgain, WebhookCapture,
                    WebhookFailure, WebhookNote, MisdeliveredBegin, UserBegin
    <2>3. ASSUME NEW t \in Tx, Step(t) PROVE gateway' = gateway
        BY <2>3 DEF Step, FetchConfirms, FetchRefuses, FetchUnreachable, MarkPaid,
                    MisdeliveredReject, ReadStatus, RefuseCancel, ReadCancel, ReadDelete,
                    Commit, Abort
    <2>4. CASE Tick \/ (\E e \in Event : WebhookDuplicate(e)) \/ UNCHANGED vars
        BY <2>4 DEF Tick, WebhookDuplicate, vars
    <2> QED BY <2>1, <2>2, <2>3, <2>4 DEF Next
<1> QED BY <1>1 DEF AuthState, TypeInv, TypeOK

\* pending only gains the capture events of an order that is captured.
LEMMA PendingGrowth ==
    ASSUME TypeInv, [Next]_vars
    PROVE  \A e \in pending' : \/ e \in pending
                               \/ e[2] \in CaptureKind => gateway'[e[1]] = "captured"
<1>1. ASSUME Gateway
      PROVE  \A e \in pending' : \/ e \in pending
                                 \/ e[2] \in CaptureKind => gateway'[e[1]] = "captured"
    <2>1. PICK o \in Order : Authorize(o) \/ Decline(o) \/ Capture(o) \/ Lapse(o)
        BY <1>1 DEF Gateway
    <2>2. CASE Authorize(o) \/ Lapse(o) BY <2>2 DEF Authorize, Lapse
    <2>3. CASE Decline(o) BY <2>3 DEF Decline, CaptureKind
    <2>4. CASE Capture(o)
        <3>1. gateway'[o] = "captured" BY <2>4 DEF Capture, TypeInv, TypeOK
        <3> QED BY <2>4, <3>1 DEF Capture
    <2> QED BY <2>1, <2>2, <2>3, <2>4
<1>2. ASSUME NEW t \in Tx, Begin(t) PROVE pending' = pending
    BY <1>2 DEF Begin, CreateOrder, VerifyBegin, VerifyAgain, WebhookCapture,
                WebhookFailure, WebhookNote, MisdeliveredBegin, UserBegin
<1>3. ASSUME NEW t \in Tx, Step(t) PROVE pending' \subseteq pending
    BY <1>3 DEF Step, FetchConfirms, FetchRefuses, FetchUnreachable, MarkPaid,
                MisdeliveredReject, ReadStatus, RefuseCancel, ReadCancel, ReadDelete,
                Commit, Abort
<1>4. CASE Tick \/ (\E e \in Event : WebhookDuplicate(e)) \/ UNCHANGED vars
    BY <1>4 DEF Tick, WebhookDuplicate, vars
<1> QED BY <1>1, <1>2, <1>3, <1>4 DEF Next

\* A credit is written by the commit of a request that marked its order paid.
LEMMA CreditSource ==
    ASSUME TypeInv, [Next]_vars
    PROVE  \/ credits' = credits
           \/ \E t \in Tx : /\ pc[t] = "commit"
                            /\ write[t].pay = "paid"
                            /\ OrderOf(req[t]) \in Order
                            /\ credits' = [credits EXCEPT ![OrderOf(req[t])] = @ + 1]
                            /\ \E lost \in BOOLEAN : Commit(t, lost)
<1>1. ASSUME NEW t \in Tx, NEW lost \in BOOLEAN, Commit(t, lost)
      PROVE  \/ credits' = credits
             \/ /\ pc[t] = "commit"
                /\ write[t].pay = "paid"
                /\ OrderOf(req[t]) \in Order
                /\ credits' = [credits EXCEPT ![OrderOf(req[t])] = @ + 1]
    <2>1. WritePayment(req[t], write[t]) /\ pc[t] = "commit" BY <1>1 DEF Commit
    <2>2. CASE write[t].pay = "keep" BY <2>1, <2>2 DEF WritePayment
    <2>3. CASE write[t].pay # "keep"
        <3>1. OrderOf(req[t]) \in Order
            BY <2>3, RequestTypes DEF TypeInv, TypeOK, SlotOK
        <3>2. CASE write[t].pay = "paid"
            BY <2>1, <2>3, <3>1, <3>2 DEF WritePayment
        <3>3. CASE write[t].pay # "paid"
            <4>1. credits' = [credits EXCEPT ![OrderOf(req[t])] = credits[OrderOf(req[t])] + 0]
                BY <2>1, <2>3, <3>3 DEF WritePayment
            <4>2. credits[OrderOf(req[t])] + 0 = credits[OrderOf(req[t])]
                BY <3>1 DEF TypeInv, TypeOK
            <4> QED BY <4>1, <4>2 DEF TypeInv, TypeOK
        <3> QED BY <3>2, <3>3
    <2> QED BY <2>2, <2>3
<1>2. CASE Gateway \/ Tick \/ (\E e \in Event : WebhookDuplicate(e)) \/ UNCHANGED vars
    BY <1>2 DEF Gateway, Authorize, Decline, Capture, Lapse, Tick, WebhookDuplicate, vars
<1>3. ASSUME NEW t \in Tx, Begin(t) PROVE credits' = credits
    BY <1>3 DEF Begin, CreateOrder, VerifyBegin, VerifyAgain, WebhookCapture,
                WebhookFailure, WebhookNote, MisdeliveredBegin, UserBegin
<1>4. ASSUME NEW t \in Tx, Step(t), \A lost \in BOOLEAN : ~Commit(t, lost)
      PROVE  credits' = credits
    BY <1>4 DEF Step, FetchConfirms, FetchRefuses, FetchUnreachable, MarkPaid,
                MisdeliveredReject, ReadStatus, RefuseCancel, ReadCancel, ReadDelete, Abort
<1> QED BY <1>1, <1>2, <1>3, <1>4 DEF Next

\* Nothing is credited at the start.
LEMMA InitAuth == Init => AuthInv
BY DEF Init, AuthInv, SlotAuth, CreditNeedsAuthorization, NoWrite, PaymentWrite

\* Slots keep their part of AuthInv: only a signed or captured order starts a
\* request that may be marked paid.
LEMMA AuthSlots ==
    ASSUME TypeInv, AuthInv, [Next]_vars, NEW s \in Tx
    PROVE  SlotAuth(s)'
<1>1. ASSUME UNCHANGED <<pc[s], write[s], req[s]>> PROVE SlotAuth(s)'
    <2>1. CASE ~(pc[s] \in {"fetch", "mark"} \/ write[s].pay = "paid")
        BY <1>1, <2>1 DEF SlotAuth
    <2>2. CASE pc[s] \in {"fetch", "mark"} \/ write[s].pay = "paid"
        <3>1. SlotOK(s) /\ req[s] \in Request BY DEF TypeInv, TypeOK
        <3>2. req[s].kind \in {"verify", "webhook"} BY <2>2, <3>1 DEF SlotOK
        <3>3. OrderOf(req[s]) \in Order BY <3>1, <3>2, RequestTypes
        <3>4. gateway[OrderOf(req[s])] \in AuthState BY <2>2 DEF AuthInv, SlotAuth
        <3>5. gateway'[OrderOf(req[s])] \in AuthState BY <3>3, <3>4, AuthMonotone
        <3> QED BY <1>1, <3>5 DEF SlotAuth
    <2> QED BY <2>1, <2>2
<1>2. ASSUME Finish(s) PROVE SlotAuth(s)'
    <2>1. pc'[s] = "idle" /\ write'[s] = NoWrite BY <1>2 DEF Finish, TypeInv, TypeOK
    <2> QED BY <2>1 DEF SlotAuth, NoWrite, PaymentWrite
<1>3. CASE Gateway \/ Tick \/ (\E e \in Event : WebhookDuplicate(e)) \/ UNCHANGED vars
    <2>1. UNCHANGED slots
        BY <1>3 DEF Gateway, Authorize, Decline, Capture, Lapse, Tick, WebhookDuplicate, vars
    <2> QED BY <2>1, <1>1 DEF slots
<1>4. ASSUME NEW t \in Tx, Begin(t) PROVE SlotAuth(s)'
    <2>1. CASE s # t
        <3>1. \E r, p, l : Start(t, r, p, l)
            BY <1>4 DEF Begin, CreateOrder, VerifyBegin, VerifyAgain, WebhookCapture,
                        WebhookFailure, WebhookNote, MisdeliveredBegin, UserBegin
        <3>2. write' = write \/ \E w : Prepare(t, w)
            BY <1>4 DEF Begin, CreateOrder, VerifyBegin, VerifyAgain, WebhookCapture,
                        WebhookFailure, WebhookNote, MisdeliveredBegin, UserBegin
        <3>3. UNCHANGED <<pc[s], write[s], req[s]>>
            BY <2>1, <3>1, <3>2 DEF Start, Prepare, TypeInv, TypeOK
        <3> QED BY <3>3, <1>1
    <2>2. CASE s = t
        <3>1. pc[t] = "idle"
            BY <1>4 DEF Begin, CreateOrder, VerifyBegin, VerifyAgain, WebhookCapture,
                        WebhookFailure, WebhookNote, MisdeliveredBegin, UserBegin, Start
        <3>2. write[t].pay = "keep"
            BY <3>1 DEF TypeInv, SlotOK, NoWrite, PaymentWrite
        <3>3. ASSUME NEW o \in Order, VerifyBegin(t, o) PROVE SlotAuth(s)'
            <4>1. req'[t] = [kind |-> "verify", order |-> o] /\ gateway' = gateway
                BY <3>3 DEF VerifyBegin, Start, TypeInv, TypeOK
            <4>2. gateway[o] \in AuthState BY <3>3 DEF VerifyBegin, Signed, AuthState
            <4>3. OrderOf(req'[t]) = o BY <4>1 DEF OrderOf
            <4> QED BY <2>2, <4>1, <4>2, <4>3 DEF SlotAuth
        <3>4. ASSUME NEW e \in Event, WebhookCapture(t, e) PROVE SlotAuth(s)'
            <4>1. gateway[e[1]] = "captured" BY <3>4 DEF WebhookCapture, AuthInv
            <4>2. req'[t] = [kind |-> "webhook", event |-> e] /\ gateway' = gateway
                BY <3>4 DEF WebhookCapture, Start, TypeInv, TypeOK
            <4>3. OrderOf(req'[t]) = e[1] BY <4>2 DEF OrderOf
            <4> QED BY <2>2, <4>1, <4>2, <4>3 DEF SlotAuth, AuthState
        <3>5. ASSUME \/ \E o \in Order : CreateOrder(t, o) \/ VerifyAgain(t, o)
                     \/ \E e \in Event : \/ WebhookFailure(t, e) \/ WebhookNote(t, e)
                                         \/ MisdeliveredBegin(t, e)
                     \/ \E u \in User, k \in UserKind : UserBegin(t, k, u)
              PROVE  SlotAuth(s)'
            <4>1. \E r, l : \E p \in {"read", "reject", "commit"} : Start(t, r, p, l)
                BY <3>5 DEF CreateOrder, VerifyAgain, WebhookFailure, WebhookNote,
                            MisdeliveredBegin, UserBegin
            <4>2. pc'[t] \notin {"fetch", "mark"} BY <4>1 DEF Start, TypeInv, TypeOK
            <4>3. write' = write \/ \E a \in {"created", "failed"} : Prepare(t, PaymentWrite(a))
                BY <3>5 DEF CreateOrder, VerifyAgain, WebhookFailure, WebhookNote,
                            MisdeliveredBegin, UserBegin
            <4>4. write'[t].pay # "paid"
                <5>1. CASE write' = write BY <5>1, <3>2
                <5>2. ASSUME NEW a \in {"created", "failed"}, Prepare(t, PaymentWrite(a))
                      PROVE  write'[t].pay # "paid"
                    BY <5>2 DEF Prepare, PaymentWrite, TypeInv, TypeOK
                <5> QED BY <4>3, <5>1, <5>2
            <4> QED BY <2>2, <4>2, <4>4 DEF SlotAuth
        <3> QED BY <1>4, <3>3, <3>4, <3>5 DEF Begin
    <2> QED BY <2>1, <2>2
<1>5. ASSUME NEW t \in Tx, Step(t) PROVE SlotAuth(s)'
    <2>1. CASE s # t
        <3>1. \/ Finish(t)
              \/ /\ \E p : Goto(t, p)
                 /\ write' = write \/ \E w : Prepare(t, w)
                 /\ req' = req
            BY <1>5 DEF Step, FetchConfirms, FetchRefuses, FetchUnreachable, MarkPaid,
               MisdeliveredReject, ReadStatus, RefuseCancel, ReadCancel, ReadDelete, Commit, Abort
        <3>2. UNCHANGED <<pc[s], write[s], req[s]>>
            BY <2>1, <3>1 DEF Finish, Goto, Prepare, TypeInv, TypeOK
        <3> QED BY <3>2, <1>1
    <2>2. CASE s = t
        <3>1. CASE FetchConfirms(t) \/ FetchUnreachable(t) \/ MarkPaid(t)
            <4>1. pc[t] \in {"fetch", "mark"} /\ req' = req /\ gateway' = gateway
                BY <3>1 DEF FetchConfirms, FetchUnreachable, MarkPaid
            <4> QED BY <2>2, <4>1 DEF AuthInv, SlotAuth
        <3>2. CASE \/ FetchRefuses(t) \/ MisdeliveredReject(t) \/ RefuseCancel(t) \/ Abort(t)
                   \/ \E lost \in BOOLEAN : Commit(t, lost)
            BY <1>2, <2>2, <3>2 DEF FetchRefuses, MisdeliveredReject, RefuseCancel, Abort, Commit
        <3>3. CASE ReadStatus(t) \/ ReadCancel(t) \/ ReadDelete(t)
            <4>1. pc'[t] = "commit"
                BY <3>3 DEF ReadStatus, ReadCancel, ReadDelete, Goto, TypeInv, TypeOK
            <4>2. \E q, op, i, rows : Prepare(t, UserWrite(q, op, i, rows))
                BY <3>3 DEF ReadStatus, ReadCancel, ReadDelete
            <4>3. write'[t].pay = "keep"
                BY <4>2 DEF Prepare, UserWrite, TypeInv, TypeOK
            <4> QED BY <2>2, <4>1, <4>3 DEF SlotAuth
        <3> QED BY <1>5, <3>1, <3>2, <3>3 DEF Step
    <2> QED BY <2>1, <2>2
<1> QED BY <1>3, <1>4, <1>5 DEF Next

\* AuthInv is inductive relative to TypeInv.
LEMMA AuthStep == TypeInv /\ AuthInv /\ [Next]_vars => AuthInv'
<1> SUFFICES ASSUME TypeInv, AuthInv, [Next]_vars PROVE AuthInv' OBVIOUS
<1>1. \A e \in pending' : e[2] \in CaptureKind => gateway'[e[1]] = "captured"
    <2> SUFFICES ASSUME NEW e \in pending', e[2] \in CaptureKind
                 PROVE  gateway'[e[1]] = "captured"
        OBVIOUS
    <2>1. CASE e \in pending
        <3>1. e[1] \in Order BY <2>1 DEF TypeInv, TypeOK, Event
        <3> QED BY <2>1, <3>1, AuthMonotone DEF AuthInv
    <2>2. CASE e \notin pending BY <2>2, PendingGrowth
    <2> QED BY <2>1, <2>2
<1>2. CreditNeedsAuthorization'
    <2>1. CASE credits' = credits
        BY <2>1, AuthMonotone DEF AuthInv, CreditNeedsAuthorization, AuthState
    <2>2. ASSUME NEW t \in Tx, write[t].pay = "paid", OrderOf(req[t]) \in Order,
                 credits' = [credits EXCEPT ![OrderOf(req[t])] = @ + 1]
          PROVE  CreditNeedsAuthorization'
        <3>1. gateway[OrderOf(req[t])] \in AuthState BY <2>2 DEF AuthInv, SlotAuth
        <3>2. \A o \in Order \ {OrderOf(req[t])} : credits'[o] = credits[o]
            BY <2>2 DEF TypeInv, TypeOK
        <3> QED BY <3>1, <3>2, AuthMonotone DEF AuthInv, CreditNeedsAuthorization, AuthState
    <2> QED BY <2>1, <2>2, CreditSource
<1> QED BY <1>1, <1>2, AuthSlots DEF AuthInv

\* No interleaving of requests, webhooks, lapses and crashes credits an order
\* whose payment was not authorized.
THEOREM CreditsAuthorized == Spec => []CreditNeedsAuthorization
<1>1. AuthInv => CreditNeedsAuthorization BY DEF AuthInv
<1> QED BY InitType, NextType, InitAuth, AuthStep, <1>1, PTL DEF Spec

-----------------------------------------------------------------------------
(* Refinement of Ledger *)

\* A step of Billing is a step of Ledger or leaves the ledger as it is.
LEMMA LedgerStep == TypeInv /\ AuthInv /\ [Next]_vars => [LedgerOf!Next]_(LedgerOf!vars)
<1> SUFFICES ASSUME TypeInv, AuthInv, [Next]_vars PROVE [LedgerOf!Next]_(LedgerOf!vars)
    OBVIOUS
<1>1. ASSUME credits' # credits PROVE \E o \in Order : LedgerOf!Credit(o)
    <2>1. PICK t \in Tx : /\ write[t].pay = "paid"
                          /\ OrderOf(req[t]) \in Order
                          /\ credits' = [credits EXCEPT ![OrderOf(req[t])] = @ + 1]
                          /\ \E lost \in BOOLEAN : Commit(t, lost)
        BY <1>1, CreditSource
    <2>2. gateway' = gateway BY <2>1 DEF Commit
    <2>3. OrderOf(req[t]) \in Authorized BY <2>1 DEF AuthInv, SlotAuth, AuthState, Authorized
    <2> QED BY <2>1, <2>2, <2>3 DEF LedgerOf!Credit, Authorized
<1>2. ASSUME credits' = credits
      PROVE  Authorized' = Authorized \/ \E o \in Order : LedgerOf!Authorize(o)
    <2>1. CASE gateway' = gateway BY <2>1 DEF Authorized
    <2>2. ASSUME NEW o \in Order,
                 gateway[o] \in {"open", "declined"},
                 gateway' = [gateway EXCEPT ![o] = "authorized"]
          PROVE  LedgerOf!Authorize(o)
        <3>1. o \notin Authorized BY <2>2 DEF Authorized
        <3>2. Authorized' = Authorized \cup {o} BY <2>2 DEF Authorized, TypeInv, TypeOK
        <3> QED BY <3>1, <3>2, <1>2 DEF LedgerOf!Authorize
    <2>3. ASSUME NEW o \in Order, NEW g \in {"open", "declined", "captured", "lapsed"},
                 gateway' = [gateway EXCEPT ![o] = g],
                 o \in Authorized <=> g \in {"captured", "lapsed"}
          PROVE  Authorized' = Authorized
        BY <2>3 DEF Authorized, TypeInv, TypeOK
    <2>4. CASE Gateway
        BY <2>1, <2>2, <2>3, <2>4 DEF Gateway, Authorize, Decline, Capture, Lapse, Authorized
    <2>5. ASSUME NEW t \in Tx, NEW o \in Order, CreateOrder(t, o) PROVE Authorized' = Authorized
        BY <2>3, <2>5 DEF CreateOrder, Authorized
    <2>6. ASSUME NEW t \in Tx, Begin(t), \A o \in Order : ~CreateOrder(t, o)
          PROVE  gateway' = gateway
        BY <2>6 DEF Begin, VerifyBegin, VerifyAgain, WebhookCapture,
                    WebhookFailure, WebhookNote, MisdeliveredBegin, UserBegin
    <2>7. ASSUME NEW t \in Tx, Step(t) PROVE gateway' = gateway
        BY <2>7 DEF Step, FetchConfirms, FetchRefuses, FetchUnreachable, MarkPaid,
                    MisdeliveredReject, ReadStatus, RefuseCancel, ReadCancel, ReadDelete,
                    Commit, Abort
    <2>8. CASE Tick \/ (\E e \in Event : WebhookDuplicate(e)) \/ UNCHANGED vars
        BY <2>1, <2>8 DEF Tick, WebhookDuplicate, vars
    <2> QED BY <2>1, <2>4, <2>5, <2>6, <2>7, <2>8 DEF Next
<1> QED BY <1>1, <1>2 DEF LedgerOf!Next, LedgerOf!vars

\* Billing implements Ledger, with as many concurrent requests as one likes.
THEOREM ImplementsLedger == Spec => LedgerSpec
<1>1. Init => LedgerOf!Init BY DEF Init, LedgerOf!Init, Authorized
<1> QED BY InitType, NextType, InitAuth, AuthStep, <1>1, LedgerStep, PTL
        DEF Spec, LedgerSpec, LedgerOf!Spec

-----------------------------------------------------------------------------
(* Webhook events: which ids are on record, which Razorpay still redelivers  *)
(* and which a request has in hand                                          *)

\* Razorpay has emitted the event.
Genuine(e) == IF e[2] \in CaptureKind THEN gateway[e[1]] = "captured"
              ELSE gateway[e[1]] \notin {"none", "open"}

\* The three properties, and what makes the second and third inductive: what
\* waits for an answer and what a request has in hand was emitted.
EventInv ==
    /\ EventHandledOnce
    /\ CaptureAckedOnlyIfRecorded
    /\ \A e \in pending \cup events : Genuine(e)
    /\ \A t \in Tx : req[t].kind = "webhook" => req[t].event \in pending \cup events

\* Each request is in the event table at most once: a slot either keeps its
\* request, ends it, or takes one on.
LEMMA RequestStep ==
    ASSUME TypeInv, [Next]_vars, NEW s \in Tx
    PROVE  \/ req'[s] = req[s]
           \/ req'[s] = NoReq
           \/ Begin(s)
<1>1. ASSUME NEW t \in Tx, Begin(t), s # t PROVE req'[s] = req[s]
    BY <1>1 DEF Begin, CreateOrder, VerifyBegin, VerifyAgain, WebhookCapture,
                WebhookFailure, WebhookNote, MisdeliveredBegin, UserBegin, Start,
                TypeInv, TypeOK
<1>2. ASSUME NEW t \in Tx, Step(t) PROVE req'[s] = req[s] \/ req'[s] = NoReq
    <2>1. req' = req \/ Finish(t)
        BY <1>2 DEF Step, FetchConfirms, FetchRefuses, FetchUnreachable, MarkPaid,
                    MisdeliveredReject, ReadStatus, RefuseCancel, ReadCancel, ReadDelete,
                    Commit, Abort
    <2> QED BY <2>1 DEF Finish, TypeInv, TypeOK
<1>3. CASE Gateway \/ Tick \/ (\E e \in Event : WebhookDuplicate(e)) \/ UNCHANGED vars
    BY <1>3 DEF Gateway, Authorize, Decline, Capture, Lapse, Tick, WebhookDuplicate, vars, slots
<1> QED BY <1>1, <1>2, <1>3 DEF Next

\* A request that takes an event id on finds it free: not on record, and not
\* inserted by a request still open.
LEMMA EventTaken ==
    ASSUME TypeInv, NEW s \in Tx, Begin(s)
    PROVE  \/ req'[s].kind \notin {"webhook", "misdelivery"}
           \/ /\ req'[s].event \notin events
              /\ \A t \in Tx : ~InsertsEvent(t, req'[s].event)
              /\ req'[s].kind = "webhook" => req'[s].event \in pending
<1>1. ASSUME NEW e \in Event, WebhookCapture(s, e) \/ WebhookFailure(s, e) \/ WebhookNote(s, e)
      PROVE  /\ req'[s] = [kind |-> "webhook", event |-> e]
             /\ e \in pending \ events
             /\ \A t \in Tx : ~InsertsEvent(t, e)
    BY <1>1 DEF WebhookCapture, WebhookFailure, WebhookNote, Start, TypeInv, TypeOK
<1>2. ASSUME NEW e \in Event, MisdeliveredBegin(s, e)
      PROVE  /\ req'[s] = [kind |-> "misdelivery", event |-> e]
             /\ e \notin events
             /\ \A t \in Tx : ~InsertsEvent(t, e)
    BY <1>2 DEF MisdeliveredBegin, Start, TypeInv, TypeOK
<1>3. ASSUME \/ \E o \in Order : CreateOrder(s, o) \/ VerifyBegin(s, o) \/ VerifyAgain(s, o)
             \/ \E u \in User, k \in UserKind : UserBegin(s, k, u)
      PROVE  req'[s].kind \notin {"webhook", "misdelivery"}
    BY <1>3, UserKindAssumption DEF CreateOrder, VerifyBegin, VerifyAgain, UserBegin, Start,
                                    AnyUserKind, TypeInv, TypeOK
<1>4. CASE \E e \in Event : WebhookCapture(s, e) \/ WebhookFailure(s, e) \/ WebhookNote(s, e)
    <2>1. PICK e \in Event : /\ req'[s] = [kind |-> "webhook", event |-> e]
                             /\ e \in pending \ events
                             /\ \A t \in Tx : ~InsertsEvent(t, e)
        BY <1>1, <1>4
    <2>2. req'[s].event = e BY <2>1
    <2> QED BY <2>1, <2>2
<1>5. CASE \E e \in Event : MisdeliveredBegin(s, e)
    <2>1. PICK e \in Event : /\ req'[s] = [kind |-> "misdelivery", event |-> e]
                             /\ e \notin events
                             /\ \A t \in Tx : ~InsertsEvent(t, e)
        BY <1>2, <1>5
    <2>2. req'[s].event = e /\ req'[s].kind # "webhook" BY <2>1
    <2> QED BY <2>1, <2>2
<1> QED BY <1>3, <1>4, <1>5 DEF Begin

\* Razorpay's own steps: an event is pending from the moment it is true.
LEMMA GatewayEmits ==
    ASSUME TypeInv, Gateway
    PROVE  /\ UNCHANGED <<events, req>>
           /\ pending \subseteq pending'
           /\ \A e \in pending' \ pending : Genuine(e)'
           /\ \A o \in Order : gateway'[o] = "captured" /\ gateway[o] # "captured" =>
                \A k \in CaptureKind : <<o, k>> \in pending'
<1>1. UNCHANGED <<events, req>> /\ pending \subseteq pending'
    BY DEF Gateway, Authorize, Decline, Capture, Lapse, db, slots
<1>2. PICK o \in Order : Authorize(o) \/ Decline(o) \/ Capture(o) \/ Lapse(o)
    BY DEF Gateway
<1>3. CASE Authorize(o) \/ Lapse(o)
    BY <1>1, <1>3 DEF Authorize, Lapse, TypeInv, TypeOK
<1>4. CASE Decline(o)
    BY <1>1, <1>4 DEF Decline, Genuine, CaptureKind, TypeInv, TypeOK
<1>5. CASE Capture(o)
    BY <1>1, <1>5 DEF Capture, Genuine, CaptureKind, TypeInv, TypeOK
<1> QED BY <1>2, <1>3, <1>4, <1>5

\* Steps of the server: an id goes on record by the commit of the request that
\* has it in hand, and pending loses only ids on record.
LEMMA ServerRecords ==
    ASSUME TypeInv, [Next]_vars, ~Gateway
    PROVE  /\ events \subseteq events'
           /\ \A e \in events' \ events :
                \E t \in Tx : /\ req[t].kind = "webhook" /\ req[t].event = e
                              /\ req'[t] = NoReq
           /\ pending' \subseteq pending
           /\ pending \subseteq pending' \cup events'
           /\ \A o \in Order : gateway'[o] = "captured" => gateway[o] = "captured"
<1>1. ASSUME NEW t \in Tx, NEW lost \in BOOLEAN, Commit(t, lost)
      PROVE  /\ events \subseteq events'
             /\ \A e \in events' \ events :
                  req[t].kind = "webhook" /\ req[t].event = e /\ req'[t] = NoReq
             /\ pending' \subseteq pending
             /\ pending \subseteq pending' \cup events'
             /\ gateway' = gateway
    BY <1>1 DEF Commit, Finish, TypeInv, TypeOK
<1>2. ASSUME NEW t \in Tx, Step(t), \A lost \in BOOLEAN : ~Commit(t, lost)
      PROVE  UNCHANGED <<events, pending, gateway>>
    BY <1>2 DEF Step, FetchConfirms, FetchRefuses, FetchUnreachable, MarkPaid, db,
                MisdeliveredReject, ReadStatus, RefuseCancel, ReadCancel, ReadDelete, Abort
<1>3. ASSUME NEW t \in Tx, Begin(t)
      PROVE  /\ UNCHANGED <<events, pending>>
             /\ \A o \in Order : gateway'[o] = "captured" => gateway[o] = "captured"
    <2>1. UNCHANGED <<events, pending>>
        BY <1>3 DEF Begin, CreateOrder, VerifyBegin, VerifyAgain, WebhookCapture, db,
                    WebhookFailure, WebhookNote, MisdeliveredBegin, UserBegin
    <2>2. gateway' = gateway \/ \E o \in Order : gateway' = [gateway EXCEPT ![o] = "open"]
        BY <1>3 DEF Begin, CreateOrder, VerifyBegin, VerifyAgain, WebhookCapture,
                    WebhookFailure, WebhookNote, MisdeliveredBegin, UserBegin
    <2> QED BY <2>1, <2>2 DEF TypeInv, TypeOK
<1>4. CASE Tick \/ (\E e \in Event : WebhookDuplicate(e)) \/ UNCHANGED vars
    BY <1>4 DEF Tick, WebhookDuplicate, vars, db
<1> QED BY <1>1, <1>2, <1>3, <1>4 DEF Next

\* What Razorpay has emitted it has emitted for good.
LEMMA GenuineMonotone ==
    ASSUME TypeInv, [Next]_vars, NEW e \in Event, Genuine(e)
    PROVE  Genuine(e)'
<1>1. e[1] \in Order BY DEF Event
<1>2. gateway[e[1]] = "captured" => gateway'[e[1]] = "captured" BY <1>1, AuthMonotone
<1>3. gateway[e[1]] \notin {"none", "open"} => gateway'[e[1]] \notin {"none", "open"}
    <2>1. CASE gateway' = gateway BY <2>1
    <2>2. CASE gateway' # gateway
        <3>1. \/ Gateway
              \/ \E o \in Order : gateway[o] = "none" /\ gateway' = [gateway EXCEPT ![o] = "open"]
            BY ZenonT(60), <2>2
        DEF Next, Begin, CreateOrder, VerifyBegin, VerifyAgain, WebhookCapture,
                    WebhookFailure, WebhookNote, MisdeliveredBegin, UserBegin,
                    Step, FetchConfirms, FetchRefuses, FetchUnreachable, MarkPaid,
                    MisdeliveredReject, ReadStatus, RefuseCancel, ReadCancel, ReadDelete,
                    Commit, Abort, Tick, WebhookDuplicate, vars
        <3>2. CASE Gateway
            BY <1>1, <3>2 DEF Gateway, Authorize, Decline, Capture, Lapse, TypeInv, TypeOK
        <3>3. CASE \E o \in Order : gateway[o] = "none" /\ gateway' = [gateway EXCEPT ![o] = "open"]
            BY <1>1, <3>3 DEF TypeInv, TypeOK
        <3> QED BY <3>1, <3>2, <3>3
    <2> QED BY <2>1, <2>2
<1> QED BY <1>2, <1>3 DEF Genuine

\* Other requests keep what they have in hand while one takes a step.
LEMMA OneActor ==
    ASSUME TypeInv, NEW t \in Tx, Begin(t) \/ Step(t), NEW s \in Tx, s # t
    PROVE  req'[s] = req[s]
BY DEF Begin, CreateOrder, VerifyBegin, VerifyAgain, WebhookCapture, WebhookFailure,
       WebhookNote, MisdeliveredBegin, UserBegin, Start,
       Step, FetchConfirms, FetchRefuses, FetchUnreachable, MarkPaid, MisdeliveredReject,
       ReadStatus, RefuseCancel, ReadCancel, ReadDelete, Commit, Abort, Finish,
       TypeInv, TypeOK

\* EventHandledOnce is kept: a begin takes only free ids, and a commit records
\* the id that no other request has in hand.
LEMMA EventHandledStep ==
    ASSUME TypeInv, EventHandledOnce, [Next]_vars
    PROVE  EventHandledOnce'
<1> SUFFICES ASSUME NEW t \in Tx, req'[t].kind = "webhook"
             PROVE  /\ req'[t].event \notin events'
                    /\ \A s \in Tx \ {t} : ~(/\ req'[s].kind \in {"webhook", "misdelivery"}
                                             /\ req'[s].event = req'[t].event)
    BY DEF EventHandledOnce, InsertsEvent
<1>1. NoReq.kind = "none" BY DEF NoReq
<1>2. ASSUME req'[t] = req[t] PROVE req'[t].event \notin events'
    <2>1. req[t].event \notin events BY <1>2 DEF EventHandledOnce
    <2>2. CASE Gateway BY <1>2, <2>1, <2>2, GatewayEmits
    <2>3. ASSUME ~Gateway, req[t].event \in events' PROVE FALSE
        <3>1. PICK s \in Tx : /\ req[s].kind = "webhook" /\ req[s].event = req[t].event
                              /\ req'[s] = NoReq
            BY <2>1, <2>3, ServerRecords
        <3>2. s # t BY <1>1, <1>2, <3>1
        <3> QED BY <1>2, <3>1, <3>2 DEF EventHandledOnce, InsertsEvent
    <2> QED BY <1>2, <2>2, <2>3
<1>3. ASSUME NEW s \in Tx \ {t}, req'[t] = req[t], req'[s] = req[s]
      PROVE  ~(req'[s].kind \in {"webhook", "misdelivery"} /\ req'[s].event = req'[t].event)
    BY <1>3 DEF EventHandledOnce, InsertsEvent
<1>4. ASSUME Begin(t)
      PROVE  /\ req'[t].event \notin events
             /\ \A s \in Tx : ~InsertsEvent(s, req'[t].event)
    BY <1>4, EventTaken
<1>5. ASSUME NEW s \in Tx, Begin(s), req'[s].kind \in {"webhook", "misdelivery"}
      PROVE  \A r \in Tx : ~InsertsEvent(r, req'[s].event)
    BY <1>5, EventTaken
<1>6. ASSUME NEW s \in Tx, Begin(s) PROVE events' = events
    BY <1>6 DEF Begin, CreateOrder, VerifyBegin, VerifyAgain, WebhookCapture, db,
                WebhookFailure, WebhookNote, MisdeliveredBegin, UserBegin
<1>7. CASE Begin(t)
    <2>1. \A s \in Tx \ {t} : req'[s] = req[s] BY <1>7, OneActor
    <2> QED BY <1>4, <1>6, <1>7, <2>1 DEF InsertsEvent
<1>8. CASE ~Begin(t)
    <2>1. req'[t] = req[t] BY <1>1, <1>8, RequestStep
    <2>2. ASSUME NEW s \in Tx \ {t}, req'[s].kind \in {"webhook", "misdelivery"},
                 req'[s].event = req'[t].event
          PROVE  FALSE
        <3>1. CASE req'[s] = req[s] BY <1>3, <2>1, <2>2, <3>1
        <3>2. CASE req'[s] = NoReq BY <1>1, <2>2, <3>2
        <3>3. CASE Begin(s) BY <1>5, <2>1, <2>2, <3>3 DEF InsertsEvent
        <3> QED BY <3>1, <3>2, <3>3, RequestStep
    <2> QED BY <1>2, <2>1, <2>2
<1> QED BY <1>7, <1>8

\* A captured order's events are pending or on record.
LEMMA CaptureAckedStep ==
    ASSUME TypeInv, CaptureAckedOnlyIfRecorded, [Next]_vars
    PROVE  CaptureAckedOnlyIfRecorded'
<1> SUFFICES ASSUME NEW o \in Order, gateway'[o] = "captured", NEW k \in CaptureKind
             PROVE  <<o, k>> \in pending' \cup events'
    BY DEF CaptureAckedOnlyIfRecorded
<1>1. CASE Gateway
    <2>1. CASE gateway[o] = "captured"
        BY <1>1, <2>1, GatewayEmits DEF CaptureAckedOnlyIfRecorded
    <2>2. CASE gateway[o] # "captured" BY <1>1, <2>2, GatewayEmits
    <2> QED BY <2>1, <2>2
<1>2. CASE ~Gateway
    <2>1. gateway[o] = "captured" BY <1>2, ServerRecords
    <2>2. <<o, k>> \in pending \cup events BY <2>1 DEF CaptureAckedOnlyIfRecorded
    <2> QED BY <1>2, <2>2, ServerRecords
<1> QED BY <1>1, <1>2

\* EventInv is inductive relative to TypeInv.
LEMMA EventInvStep == TypeInv /\ EventInv /\ [Next]_vars => EventInv'
<1> SUFFICES ASSUME TypeInv, EventInv, [Next]_vars PROVE EventInv' OBVIOUS
<1>1. EventHandledOnce' BY EventHandledStep DEF EventInv
<1>2. CaptureAckedOnlyIfRecorded' BY CaptureAckedStep DEF EventInv
<1>3. ASSUME NEW t \in Tx, req'[t].kind = "webhook"
      PROVE  req'[t].event \in pending' \cup events'
    <2>1. pending \cup events \subseteq pending' \cup events'
        BY GatewayEmits, ServerRecords
    <2>2. CASE req'[t] = req[t] BY <1>3, <2>1, <2>2 DEF EventInv
    <2>3. CASE req'[t] = NoReq BY <1>3, <2>3 DEF NoReq
    <2>4. CASE Begin(t) BY <1>3, <2>1, <2>4, EventTaken
    <2> QED BY <2>2, <2>3, <2>4, RequestStep
<1>4. ASSUME NEW e \in pending' \cup events' PROVE Genuine(e)'
    <2>1. ASSUME e \in pending \cup events PROVE Genuine(e)'
        BY <2>1, GenuineMonotone DEF EventInv, TypeInv, TypeOK
    <2>2. CASE Gateway BY <1>4, <2>1, <2>2, GatewayEmits
    <2>3. CASE ~Gateway
        <3>1. CASE e \in pending' BY <2>1, <2>3, <3>1, ServerRecords
        <3>2. CASE e \in events' \ events
            <4>1. PICK t \in Tx : req[t].kind = "webhook" /\ req[t].event = e
                BY <2>3, <3>2, ServerRecords
            <4>2. e \in pending \cup events BY <4>1 DEF EventInv
            <4> QED BY <2>1, <4>2
        <3> QED BY <1>4, <2>1, <3>1, <3>2
    <2> QED BY <2>2, <2>3
<1> QED BY <1>1, <1>2, <1>3, <1>4 DEF EventInv

\* No request, event or captured payment exists at the start.
LEMMA EventInvInit == Init => EventInv
BY DEF Init, EventInv, EventHandledOnce, CaptureAckedOnlyIfRecorded, NoReq, Genuine

\* It holds in every state.
LEMMA EventInvAlways == Spec => []EventInv
BY InitType, NextType, EventInvInit, EventInvStep, PTL DEF Spec

\* However many webhook deliveries are handled at once, no event id is in two
\* requests' hands, or in one's after it went on record.
THEOREM EventsHandledOnce == Spec => []EventHandledOnce
<1>1. EventInv => EventHandledOnce BY DEF EventInv
<1> QED BY <1>1, EventInvAlways, PTL

\* Razorpay keeps redelivering a capture until its id is on record, through
\* any rollback, crash or lost answer.
THEOREM CapturesNotForgotten == Spec => []CaptureAckedOnlyIfRecorded
<1>1. EventInv => CaptureAckedOnlyIfRecorded BY DEF EventInv
<1> QED BY <1>1, EventInvAlways, PTL

-----------------------------------------------------------------------------
(* Subscription rows.  What holds for any number of concurrent requests:    *)
(* payments and rows agree, and no row lasts longer than was paid for.  For *)
(* requests that come one at a time (OneRequest): an order is activated     *)
(* once, a user has one running row and a plan that shows it, and no time   *)
(* paid for is lost.  Those do not hold for two requests at once: both may  *)
(* activate the same order.                                                *)

\* Only a commit writes subscription rows, payments, users and credits.
LEMMA CommitWrites ==
    ASSUME [Next]_vars, \A t \in Tx, lost \in BOOLEAN : ~Commit(t, lost)
    PROVE  UNCHANGED <<payments, subs, plan, deleted, credits>>
BY ZenonT(60) DEF Next, vars, db, Begin, CreateOrder, VerifyBegin, VerifyAgain, WebhookCapture,
       WebhookFailure, WebhookNote, MisdeliveredBegin, UserBegin,
       Step, FetchConfirms, FetchRefuses, FetchUnreachable, MarkPaid,
       MisdeliveredReject, ReadStatus, RefuseCancel, ReadCancel, ReadDelete, Abort,
       Tick, WebhookDuplicate, Gateway, Authorize, Decline, Capture, Lapse

\* A commit patches every row and adds at most one behind them.
LEMMA CommittedRows ==
    ASSUME TypeInv, NEW t \in Tx, NEW lost \in BOOLEAN, Commit(t, lost)
    PROVE  LET w == write[t]
               new == Len(subs) + 1
           IN  /\ \A i \in DOMAIN subs : i \in DOMAIN subs' /\ subs'[i] = Patched(w, i)
               /\ \A i \in DOMAIN subs' \ DOMAIN subs : i = new
               /\ new \notin DOMAIN subs
               /\ w.op \in {"insert", "replace"} =>
                    new \in DOMAIN subs' /\ subs'[new] = NewRow(req[t], w)
               /\ w.op \notin {"insert", "replace"} => DOMAIN subs' = DOMAIN subs
<1> DEFINE w == write[t]
           new == Len(subs) + 1
           patched == [i \in 1..Len(subs) |-> Patched(w, i)]
<1>1. subs \in Seq(SubRow) BY DEF TypeInv, TypeOK
<1>2. DOMAIN subs = 1..Len(subs) /\ Len(subs) \in Nat BY <1>1
<1>3. w \in WriteSet BY DEF TypeInv, TypeOK
<1>4. patched \in Seq(SubRow) /\ Len(patched) = Len(subs)
    <2>1. patched \in [1..Len(subs) -> SubRow] BY <1>1, <1>3, PatchedRow
    <2>2. patched \in Seq(SubRow) BY <1>2, <2>1, SeqDef
    <2>3. DOMAIN patched = 1..Len(subs) OBVIOUS
    <2> HIDE DEF patched
    <2> QED BY <1>2, <2>2, <2>3
<1>5. subs' = IF w.op \in {"insert", "replace"} THEN Append(patched, NewRow(req[t], w)) ELSE patched
    BY DEF Commit, WriteSubs
<1>6. \A i \in DOMAIN subs : patched[i] = Patched(w, i) BY <1>2
<1>7. DOMAIN patched = DOMAIN subs BY <1>2
<1> HIDE DEF patched
<1>8. CASE w.op \in {"insert", "replace"}
    <2>1. subs' = Append(patched, NewRow(req[t], w)) BY <1>5, <1>8
    <2>2. /\ DOMAIN subs' = 1..new
          /\ \A i \in 1..Len(subs) : subs'[i] = patched[i]
          /\ subs'[new] = NewRow(req[t], w)
        BY <2>1, <1>2, <1>4
    <2>3. new \notin DOMAIN subs /\ DOMAIN subs' = DOMAIN subs \cup {new} BY <1>2, <2>2
    <2>4. \A i \in DOMAIN subs : subs'[i] = Patched(w, i) BY <1>2, <1>6, <2>2
    <2> HIDE DEF new
    <2> QED BY <1>8, <2>2, <2>3, <2>4 DEF new
<1>9. CASE w.op \notin {"insert", "replace"}
    BY <1>2, <1>5, <1>6, <1>7, <1>9
<1> QED BY <1>8, <1>9

-----------------------------------------------------------------------------
(* A paid order has a row *)

HasRow(o) == \E i \in DOMAIN subs : subs[i].user = Buyer[o] /\ subs[i].plan = PlanOf[o]

\* A request about to mark an order paid adds a row, or extends one of the
\* buyer and the plan.
SlotRow(t) ==
    write[t].pay = "paid" => \/ write[t].op \in {"insert", "replace"}
                             \/ HasRow(OrderOf(req[t]))

RowInv == PaidOrderHasSubscription /\ \A t \in Tx : SlotRow(t)

\* Rows keep their user and plan, and never go.
LEMMA HasRowMonotone ==
    ASSUME TypeInv, [Next]_vars, NEW o, HasRow(o)
    PROVE  HasRow(o)'
<1>1. ASSUME NEW t \in Tx, NEW lost \in BOOLEAN, Commit(t, lost) PROVE HasRow(o)'
    <2>1. PICK i \in DOMAIN subs : subs[i].user = Buyer[o] /\ subs[i].plan = PlanOf[o]
        BY DEF HasRow
    <2>2. i \in DOMAIN subs' /\ subs'[i] = Patched(write[t], i) BY <1>1, CommittedRows
    <2>3. subs'[i].user = subs[i].user /\ subs'[i].plan = subs[i].plan BY <2>2 DEF Patched
    <2> QED BY <2>1, <2>2, <2>3 DEF HasRow
<1>2. CASE \A t \in Tx, lost \in BOOLEAN : ~Commit(t, lost)
    BY <1>2, CommitWrites DEF HasRow
<1> QED BY <1>1, <1>2

\* What marking an order paid prepares, for the row cur that is running.
LEMMA MarkPaidWrite ==
    ASSUME TypeInv, NEW t \in Tx, MarkPaid(t)
    PROVE  LET o == OrderOf(req[t])
               u == Buyer[o]
               p == PlanOf[o]
               w == write'[t]
           IN  \E cur \in 0..Len(subs), lapsed \in SUBSET ActiveRows(u) :
                 /\ ReadsActive(u, cur, lapsed)
                 /\ w.op = IF Renews(cur, p) THEN "extend"
                           ELSE IF cur # 0 THEN "replace" ELSE "insert"
                 /\ w.cur = cur /\ w.rows = lapsed /\ w.pay = "paid"
                 /\ w.plan = PlanWrite(IF req[t].kind = "verify" THEN load[t] ELSE plan[u], "pro")
<1> DEFINE o == OrderOf(req[t])
           u == Buyer[o]
           p == PlanOf[o]
           loaded == IF req[t].kind = "verify" THEN load[t] ELSE plan[u]
<1>1. PICK cur \in 0..Len(subs), lapsed \in SUBSET ActiveRows(u) :
        /\ ReadsActive(u, cur, lapsed)
        /\ Prepare(t, [pay |-> "paid",
                       plan |-> PlanWrite(loaded, "pro"),
                       op |-> IF Renews(cur, p) THEN "extend"
                              ELSE IF cur # 0 THEN "replace" ELSE "insert",
                       cur |-> cur,
                       end |-> PeriodStart(cur, p) + Period[p],
                       uncape |-> Renews(cur, p) /\ subs[cur].cape,
                       rows |-> lapsed])
    BY DEF MarkPaid
<1> DEFINE w == write'[t]
<1>2. /\ w.op = IF Renews(cur, p) THEN "extend" ELSE IF cur # 0 THEN "replace" ELSE "insert"
      /\ w.cur = cur /\ w.rows = lapsed /\ w.pay = "paid"
      /\ w.plan = PlanWrite(loaded, "pro")
    <2>1. write \in [Tx -> WriteSet] BY DEF TypeInv, TypeOK
    <2> HIDE DEF u, p, loaded
    <2> QED BY <1>1, <2>1 DEF Prepare
<1> HIDE DEF w
<1> QED BY <1>1, <1>2 DEF w

\* Its row is there, or about to be.
LEMMA MarkPaidRow ==
    ASSUME TypeInv, NEW t \in Tx, MarkPaid(t)
    PROVE  SlotRow(t)'
<1> DEFINE o == OrderOf(req[t])
           u == Buyer[o]
           p == PlanOf[o]
<1>1. PICK cur \in 0..Len(subs), lapsed \in SUBSET ActiveRows(u) :
        /\ ReadsActive(u, cur, lapsed)
        /\ write'[t].op = IF Renews(cur, p) THEN "extend" ELSE IF cur # 0 THEN "replace" ELSE "insert"
    BY MarkPaidWrite
<1>2. UNCHANGED <<subs, req>> BY DEF MarkPaid, db
<1>3. CASE Renews(cur, p)
    <2>1. cur \in LiveRows(u) /\ subs[cur].plan = p BY <1>1, <1>3 DEF ReadsActive, Renews
    <2> QED BY <1>2, <2>1 DEF LiveRows, ActiveRows, SlotRow, HasRow
<1> QED BY <1>1, <1>2, <1>3 DEF SlotRow

\* Slots keep their part.
LEMMA RowSlots ==
    ASSUME TypeInv, RowInv, [Next]_vars, NEW s \in Tx
    PROVE  SlotRow(s)'
<1>1. ASSUME UNCHANGED <<write[s], req[s]>> PROVE SlotRow(s)'
    BY <1>1, HasRowMonotone DEF RowInv, SlotRow
<1>2. ASSUME write'[s].pay # "paid" PROVE SlotRow(s)'
    BY <1>2 DEF SlotRow
<1>3. CASE Gateway \/ Tick \/ (\E e \in Event : WebhookDuplicate(e)) \/ UNCHANGED vars
    <2>1. UNCHANGED slots
        BY <1>3 DEF Gateway, Authorize, Decline, Capture, Lapse, Tick, WebhookDuplicate, vars
    <2> QED BY <2>1, <1>1 DEF slots
<1>4. ASSUME NEW t \in Tx, Begin(t) PROVE SlotRow(s)'
    <2>1. pc[t] = "idle" /\ \E r : req' = [req EXCEPT ![t] = r]
        BY <1>4 DEF Begin, CreateOrder, VerifyBegin, VerifyAgain, WebhookCapture,
                    WebhookFailure, WebhookNote, MisdeliveredBegin, UserBegin, Start
    <2>2. write' = write \/ \E a \in {"created", "failed"} : Prepare(t, PaymentWrite(a))
        BY <1>4 DEF Begin, CreateOrder, VerifyBegin, VerifyAgain, WebhookCapture,
                    WebhookFailure, WebhookNote, MisdeliveredBegin, UserBegin
    <2>3. CASE s = t
        <3>1. write[s].pay # "paid" BY <2>1, <2>3 DEF TypeInv, SlotOK, NoWrite, PaymentWrite
        <3> QED BY <2>2, <2>3, <3>1, <1>2 DEF Prepare, PaymentWrite, TypeInv, TypeOK
    <2>4. CASE s # t BY <2>1, <2>2, <2>4, <1>1 DEF Prepare, TypeInv, TypeOK
    <2> QED BY <2>3, <2>4
<1>5. ASSUME NEW t \in Tx, Step(t) PROVE SlotRow(s)'
    <2>1. CASE s # t
        <3>1. Finish(t) \/ (req' = req /\ (write' = write \/ \E w : Prepare(t, w)))
            BY <1>5 DEF Step, FetchConfirms, FetchRefuses, FetchUnreachable, MarkPaid,
               MisdeliveredReject, ReadStatus, RefuseCancel, ReadCancel, ReadDelete, Commit, Abort
        <3> QED BY <2>1, <3>1, <1>1 DEF Finish, Prepare, TypeInv, TypeOK
    <2>2. CASE s = t /\ MarkPaid(t) BY <2>2, MarkPaidRow
    <2>3. CASE s = t /\ (FetchConfirms(t) \/ FetchUnreachable(t))
        BY <2>3, <1>1 DEF FetchConfirms, FetchUnreachable
    <2>4. CASE s = t /\ (ReadStatus(t) \/ ReadCancel(t) \/ ReadDelete(t))
        <3>1. \E q, op, i, rows : Prepare(t, UserWrite(q, op, i, rows))
            BY <2>4 DEF ReadStatus, ReadCancel, ReadDelete
        <3> QED BY <2>4, <3>1, <1>2 DEF Prepare, UserWrite, TypeInv, TypeOK
    <2>5. CASE s = t /\ Finish(t)
        BY <2>5, <1>2 DEF Finish, NoWrite, PaymentWrite, TypeInv, TypeOK
    <2> QED BY <1>5, <2>1, <2>2, <2>3, <2>4, <2>5
            DEF Step, FetchRefuses, MisdeliveredReject, RefuseCancel, Abort, Commit
<1> QED BY <1>3, <1>4, <1>5 DEF Next

\* RowInv is inductive relative to TypeInv.
LEMMA RowInvStep == TypeInv /\ RowInv /\ [Next]_vars => RowInv'
<1> SUFFICES ASSUME TypeInv, RowInv, [Next]_vars PROVE RowInv' OBVIOUS
<1>1. ASSUME NEW o \in Order, payments'[o] = "paid" PROVE HasRow(o)'
    <2>1. CASE payments[o] = "paid"
        BY <2>1, HasRowMonotone DEF RowInv, PaidOrderHasSubscription, HasRow
    <2>2. CASE payments[o] # "paid"
        <3>1. PICK t \in Tx, lost \in BOOLEAN : Commit(t, lost)
            BY <1>1, <2>2, CommitWrites
        <3>2. write[t].pay = "paid" /\ OrderOf(req[t]) = o
            <4>1. WritePayment(req[t], write[t]) BY <3>1 DEF Commit
            <4> QED BY <1>1, <2>2, <4>1 DEF WritePayment, TypeInv, TypeOK
        <3>3. CASE HasRow(o) BY <3>3, HasRowMonotone
        <3>4. CASE write[t].op \in {"insert", "replace"}
            <4>1. PICK i \in DOMAIN subs' : subs'[i] = NewRow(req[t], write[t])
                BY <3>1, <3>4, CommittedRows
            <4>2. UserOf(req[t]) = Buyer[o]
                BY <3>2 DEF UserOf, TypeInv, SlotOK
            <4> QED BY <3>2, <4>1, <4>2 DEF NewRow, HasRow
        <3> QED BY <3>2, <3>3, <3>4 DEF RowInv, SlotRow
    <2> QED BY <2>1, <2>2
<1> QED BY <1>1, RowSlots DEF RowInv, PaidOrderHasSubscription, HasRow

\* At the start nothing is paid.
LEMMA RowInvInit == Init => RowInv
BY DEF Init, RowInv, PaidOrderHasSubscription, SlotRow, NoWrite, PaymentWrite

\* Whatever requests overlap, the buyer of a paid order has a row of its plan.
THEOREM PaidHasRow == Spec => []PaidOrderHasSubscription
<1>1. RowInv => PaidOrderHasSubscription BY DEF RowInv
<1> QED BY <1>1, InitType, NextType, RowInvInit, RowInvStep, PTL DEF Spec

-----------------------------------------------------------------------------
(* The capture of a recorded event was credited *)

\* Credits are never taken back.
LEMMA CreditsStay ==
    ASSUME TypeInv, [Next]_vars, NEW o \in Order, credits[o] > 0
    PROVE  credits'[o] > 0
<1>1. CASE credits' = credits BY <1>1
<1>2. CASE credits' # credits
    <2>1. PICK t \in Tx : /\ OrderOf(req[t]) \in Order
                          /\ credits' = [credits EXCEPT ![OrderOf(req[t])] = @ + 1]
        BY <1>2, CreditSource
    <2>2. credits \in [Order -> Nat] BY DEF TypeInv, TypeOK
    <2> QED BY <2>1, <2>2
<1> QED BY <1>1, <1>2

\* A webhook request that has a capture in hand is to mark the order paid, or
\* the order has its credit.
SlotCredit(t) ==
    /\ req[t].kind = "webhook"
    /\ req[t].event[2] \in CaptureKind
    /\ req[t].event \notin BadEvent
    => \/ pc[t] = "mark"
       \/ write[t].pay = "paid"
       \/ credits[req[t].event[1]] > 0

\* A paid order has a credit, and nothing is paid for an order without a row.
RecordInv ==
    /\ RecordedCaptureIsCredited
    /\ \A o \in Order : payments[o] = "paid" => credits[o] > 0
    /\ \A o \in Order : gateway[o] \in AuthState => payments[o] # "none"
    /\ \A t \in Tx : SlotCredit(t)

LEMMA RecordInit == Init => RecordInv
BY DEF Init, RecordInv, RecordedCaptureIsCredited, SlotCredit, NoReq, AuthState

\* What a commit does to a payments row.
LEMMA PaymentCommit ==
    ASSUME TypeInv, NEW t \in Tx, NEW lost \in BOOLEAN, Commit(t, lost), NEW o \in Order
    PROVE  /\ payments[o] # "none" => payments'[o] # "none"
           /\ payments'[o] = "paid" /\ payments[o] # "paid" =>
                write[t].pay = "paid" /\ OrderOf(req[t]) = o
           /\ write[t].pay = "paid" /\ OrderOf(req[t]) = o => credits'[o] > 0
<1>1. WritePayment(req[t], write[t]) BY DEF Commit
<1>2. write[t].pay \in {"keep", "created", "paid", "failed"} BY DEF TypeInv, TypeOK, WriteSet
<1>3. payments \in [Order -> {"none", "created", "paid", "failed"}] BY DEF TypeInv, TypeOK
<1>4. credits[o] \in Nat /\ o \in DOMAIN credits BY DEF TypeInv, TypeOK
<1>5. ASSUME write[t].pay = "paid", OrderOf(req[t]) = o PROVE credits'[o] > 0
    <2>1. credits' = [credits EXCEPT ![o] = @ + 1] BY <1>1, <1>5 DEF WritePayment
    <2>2. credits'[o] = credits[o] + 1 BY <1>4, <2>1
    <2> QED BY <1>4, <2>2
<1>6. /\ payments[o] # "none" => payments'[o] # "none"
      /\ payments'[o] = "paid" /\ payments[o] # "paid" =>
           write[t].pay = "paid" /\ OrderOf(req[t]) = o
    BY <1>1, <1>2, <1>3 DEF WritePayment
<1> QED BY <1>5, <1>6

\* A payments row, once there, stays, and one marked paid comes with a credit.
LEMMA PaymentsStep ==
    ASSUME TypeInv, [Next]_vars, NEW o \in Order
    PROVE  /\ payments[o] # "none" => payments'[o] # "none"
           /\ payments'[o] = "paid" /\ payments[o] # "paid" => credits'[o] > 0
<1>1. CASE \E t \in Tx, lost \in BOOLEAN : Commit(t, lost) BY <1>1, PaymentCommit
<1>2. CASE \A t \in Tx, lost \in BOOLEAN : ~Commit(t, lost) BY <1>2, CommitWrites
<1> QED BY <1>1, <1>2

\* Only the commit of the request that has it in hand records an event.
LEMMA RecordedBy ==
    ASSUME TypeInv, [Next]_vars, NEW e \in events' \ events
    PROVE  \E t \in Tx, lost \in BOOLEAN :
             Commit(t, lost) /\ req[t].kind = "webhook" /\ req[t].event = e
<1>1. ASSUME NEW t \in Tx, NEW lost \in BOOLEAN, Commit(t, lost)
      PROVE  req[t].kind = "webhook" /\ req[t].event = e
    BY <1>1 DEF Commit
<1>2. ASSUME \A t \in Tx, lost \in BOOLEAN : ~Commit(t, lost) PROVE events' = events
    BY ZenonT(60), <1>2
       DEF Next, vars, db, Begin, CreateOrder, VerifyBegin, VerifyAgain, WebhookCapture,
           WebhookFailure, WebhookNote, MisdeliveredBegin, UserBegin,
           Step, FetchConfirms, FetchRefuses, FetchUnreachable, MarkPaid,
           MisdeliveredReject, ReadStatus, RefuseCancel, ReadCancel, ReadDelete, Abort,
           Tick, WebhookDuplicate, Gateway, Authorize, Decline, Capture, Lapse
<1> QED BY <1>1, <1>2

\* A request that begins with a capture in hand finds the order unpaid, or paid
\* and credited.
LEMMA CreditBegin ==
    ASSUME TypeInv, EventInv, RecordInv, NEW t \in Tx, Begin(t)
    PROVE  SlotCredit(t)'
<1>1. t \in DOMAIN req /\ t \in DOMAIN pc BY DEF TypeInv, TypeOK
<1>2. ASSUME NEW e \in Event, WebhookCapture(t, e) PROVE SlotCredit(t)'
    BY <1>1, <1>2 DEF WebhookCapture, Start, SlotCredit
<1>3. ASSUME NEW e \in Event, WebhookFailure(t, e) PROVE SlotCredit(t)'
    <2>1. req'[t].event[2] = "payment.failed" BY <1>1, <1>3 DEF WebhookFailure, Start
    <2> QED BY <2>1 DEF SlotCredit, CaptureKind
<1>4. ASSUME NEW e \in Event, WebhookNote(t, e) PROVE SlotCredit(t)'
    <2>1. req'[t].event = e /\ credits' = credits BY <1>1, <1>4 DEF WebhookNote, Start
    <2>2. ASSUME e[2] \in CaptureKind, e \notin BadEvent PROVE credits[e[1]] > 0
        <3>1. e[1] \in Order BY DEF Event
        <3>2. gateway[e[1]] = "captured"
            BY <1>4, <2>2 DEF WebhookNote, EventInv, Genuine
        <3>3. payments[e[1]] # "none" BY <3>1, <3>2 DEF RecordInv, AuthState
        <3>4. payments[e[1]] = "paid" BY <1>4, <2>2, <3>3 DEF WebhookNote
        <3> QED BY <3>1, <3>4 DEF RecordInv
    <2> QED BY <2>1, <2>2 DEF SlotCredit
<1>5. ASSUME \/ \E o \in Order : CreateOrder(t, o) \/ VerifyBegin(t, o) \/ VerifyAgain(t, o)
             \/ \E u \in User, k \in UserKind : UserBegin(t, k, u)
             \/ \E e \in Event : MisdeliveredBegin(t, e)
      PROVE  SlotCredit(t)'
    <2>1. req'[t].kind # "webhook"
        BY <1>1, <1>5, UserKindAssumption
           DEF CreateOrder, VerifyBegin, VerifyAgain, UserBegin, MisdeliveredBegin, Start, AnyUserKind
    <2> QED BY <2>1 DEF SlotCredit
<1> QED BY <1>2, <1>3, <1>4, <1>5 DEF Begin

\* Slots keep their part.
LEMMA CreditSlots ==
    ASSUME TypeInv, EventInv, RecordInv, [Next]_vars, NEW s \in Tx
    PROVE  SlotCredit(s)'
<1>1. ASSUME UNCHANGED <<pc[s], write[s], req[s]>> PROVE SlotCredit(s)'
    <2>1. ASSUME req[s].kind = "webhook" PROVE req[s].event[1] \in Order
        BY <2>1, RequestTypes DEF TypeInv, TypeOK, Event
    <2> QED BY <1>1, <2>1, CreditsStay DEF RecordInv, SlotCredit
<1>2. ASSUME req'[s].kind # "webhook" PROVE SlotCredit(s)'
    BY <1>2 DEF SlotCredit
<1>3. CASE Gateway \/ Tick \/ (\E e \in Event : WebhookDuplicate(e)) \/ UNCHANGED vars
    <2>1. UNCHANGED slots
        BY <1>3 DEF Gateway, Authorize, Decline, Capture, Lapse, Tick, WebhookDuplicate, vars
    <2> QED BY <2>1, <1>1 DEF slots
<1>4. ASSUME NEW t \in Tx, Begin(t) PROVE SlotCredit(s)'
    <2>1. CASE s = t BY <1>4, <2>1, CreditBegin
    <2>2. CASE s # t
        <3>1. \E r, p, l : Start(t, r, p, l)
            BY <1>4 DEF Begin, CreateOrder, VerifyBegin, VerifyAgain, WebhookCapture,
                        WebhookFailure, WebhookNote, MisdeliveredBegin, UserBegin
        <3>2. write' = write \/ \E a \in {"created", "failed"} : Prepare(t, PaymentWrite(a))
            BY <1>4 DEF Begin, CreateOrder, VerifyBegin, VerifyAgain, WebhookCapture,
                        WebhookFailure, WebhookNote, MisdeliveredBegin, UserBegin
        <3> QED BY <2>2, <3>1, <3>2, <1>1 DEF Start, Prepare, TypeInv, TypeOK
    <2> QED BY <2>1, <2>2
<1>5. ASSUME NEW t \in Tx, Step(t) PROVE SlotCredit(s)'
    <2>1. CASE s # t
        <3>1. Finish(t) \/ (/\ req' = req /\ \E p : Goto(t, p)
                            /\ write' = write \/ \E w : Prepare(t, w))
            BY <1>5 DEF Step, FetchConfirms, FetchRefuses, FetchUnreachable, MarkPaid,
               MisdeliveredReject, ReadStatus, RefuseCancel, ReadCancel, ReadDelete, Commit, Abort
        <3> QED BY <2>1, <3>1, <1>1 DEF Finish, Goto, Prepare, TypeInv, TypeOK
    <2>2. CASE s = t /\ MarkPaid(t)
        <3>1. write'[s].pay = "paid" BY <2>2, MarkPaidWrite
        <3> QED BY <3>1 DEF SlotCredit
    <2>3. CASE /\ s = t
               /\ \/ FetchConfirms(t) \/ FetchUnreachable(t)
                  \/ ReadStatus(t) \/ ReadCancel(t) \/ ReadDelete(t)
        <3>1. req' = req /\ pc[s] \in {"fetch", "read"}
            BY <2>3 DEF FetchConfirms, FetchUnreachable, ReadStatus, ReadCancel, ReadDelete
        <3> QED BY <3>1, <1>2 DEF TypeInv, SlotOK, AnyUserKind
    <2>4. CASE s = t /\ Finish(t)
        BY <2>4, <1>2 DEF Finish, NoReq, TypeInv, TypeOK
    <2> QED BY <1>5, <2>1, <2>2, <2>3, <2>4
            DEF Step, FetchRefuses, MisdeliveredReject, RefuseCancel, Abort, Commit
<1> QED BY <1>3, <1>4, <1>5 DEF Next

\* Only an order with a row is paid for.
LEMMA KnownStep ==
    ASSUME TypeInv, RecordInv, [Next]_vars, NEW o \in Order, gateway'[o] \in AuthState
    PROVE  payments'[o] # "none"
<1>1. CASE gateway[o] \in AuthState BY <1>1, PaymentsStep DEF RecordInv
<1>2. CASE gateway[o] \notin AuthState
    <2>1. gateway' # gateway BY <1>2
    <2>2. \/ Gateway
          \/ \E x \in Order : gateway' = [gateway EXCEPT ![x] = "open"]
        BY ZenonT(60), <2>1
        DEF Next, Begin, CreateOrder, VerifyBegin, VerifyAgain, WebhookCapture,
            WebhookFailure, WebhookNote, MisdeliveredBegin, UserBegin,
            Step, FetchConfirms, FetchRefuses, FetchUnreachable, MarkPaid,
            MisdeliveredReject, ReadStatus, RefuseCancel, ReadCancel, ReadDelete,
            Commit, Abort, Tick, WebhookDuplicate, vars
    <2>3. CASE \E x \in Order : gateway' = [gateway EXCEPT ![x] = "open"]
        BY <1>2, <2>3 DEF AuthState, TypeInv, TypeOK
    <2>4. CASE Gateway
        <3>1. payments[o] # "none"
            BY <1>2, <2>4 DEF Gateway, Authorize, Decline, Capture, Lapse, AuthState, TypeInv, TypeOK
        <3> QED BY <3>1, PaymentsStep
    <2> QED BY <2>2, <2>3, <2>4
<1> QED BY <1>1, <1>2

\* RecordInv is inductive relative to TypeInv and EventInv.
LEMMA RecordStep == TypeInv /\ EventInv /\ RecordInv /\ [Next]_vars => RecordInv'
<1> SUFFICES ASSUME TypeInv, EventInv, RecordInv, [Next]_vars PROVE RecordInv' OBVIOUS
<1>1. ASSUME NEW o \in Order, NEW k \in CaptureKind, <<o, k>> \in events' \ BadEvent
      PROVE  credits'[o] > 0
    <2>1. CASE <<o, k>> \in events
        <3>1. credits[o] > 0 BY <1>1, <2>1 DEF RecordInv, RecordedCaptureIsCredited
        <3> QED BY <3>1, CreditsStay
    <2>2. CASE <<o, k>> \notin events
        <3>1. PICK t \in Tx, lost \in BOOLEAN :
                Commit(t, lost) /\ req[t].kind = "webhook" /\ req[t].event = <<o, k>>
            BY <1>1, <2>2, RecordedBy
        <3>2. req[t].event[1] = o /\ req[t].event[2] = k BY <3>1
        <3>3. pc[t] = "commit" BY <3>1 DEF Commit
        <3>4. write[t].pay = "paid" \/ credits[o] > 0
            BY <1>1, <3>1, <3>2, <3>3 DEF RecordInv, SlotCredit
        <3>5. OrderOf(req[t]) = o BY <3>1, <3>2 DEF OrderOf
        <3> QED BY <3>1, <3>4, <3>5, PaymentCommit, CreditsStay
    <2> QED BY <2>1, <2>2
<1>2. ASSUME NEW o \in Order, payments'[o] = "paid" PROVE credits'[o] > 0
    <2>1. CASE payments[o] = "paid" BY <2>1, CreditsStay DEF RecordInv
    <2>2. CASE payments[o] # "paid" BY <1>2, <2>2, PaymentsStep
    <2> QED BY <2>1, <2>2
<1>3. ASSUME NEW o \in Order, gateway'[o] \in AuthState PROVE payments'[o] # "none"
    BY <1>3, KnownStep
<1>4. ASSUME NEW t \in Tx PROVE SlotCredit(t)' BY CreditSlots
<1> QED BY <1>1, <1>2, <1>3, <1>4 DEF RecordInv, RecordedCaptureIsCredited, AuthState, CaptureKind

\* No capture is used up without its credit, whatever requests overlap, fail or
\* are refused for a signature: an id on record stands for a credited order.
THEOREM RecordedIsCredited == Spec => []RecordedCaptureIsCredited
<1>1. RecordInv => RecordedCaptureIsCredited BY DEF RecordInv
<1> QED BY <1>1, InitType, NextType, EventInvInit, EventInvStep, RecordInit, RecordStep, PTL DEF Spec

-----------------------------------------------------------------------------
(* One request at a time: an order is activated once *)

OneRequest == \A s, t \in Tx : s = t

\* An order a request may still activate, or whose status it may write, has no
\* credit yet.
SlotOnce(t) == pc[t] \in {"fetch", "mark"} \/ write[t].pay # "keep"
                  => credits[OrderOf(req[t])] = 0

OnceInv ==
    /\ \A o \in Order : credits[o] > 0 => credits[o] = 1 /\ payments[o] = "paid"
    /\ \A t \in Tx : SlotOnce(t)

\* Credits count.
LEMMA CreditsCount ==
    ASSUME TypeInv, NEW o \in Order
    PROVE  credits[o] > 0 \/ credits[o] = 0
<1>1. credits[o] \in Nat BY DEF TypeInv, TypeOK
<1> QED BY <1>1

\* A request that begins finds no credit on an order that is not paid, and none
\* on an order that Razorpay does not know.
LEMMA OnceBegin ==
    ASSUME TypeInv, AuthInv, OnceInv, NEW t \in Tx, Begin(t)
    PROVE  SlotOnce(t)'
<1>1. credits' = credits /\ write[t].pay = "keep"
    BY DEF Begin, CreateOrder, VerifyBegin, VerifyAgain, WebhookCapture, WebhookFailure,
           WebhookNote, MisdeliveredBegin, UserBegin, Start, TypeInv, SlotOK, NoWrite, PaymentWrite
<1>2. ASSUME NEW o \in Order, req'[t] = [kind |-> "create", order |-> o]
                              \/ req'[t] = [kind |-> "verify", order |-> o],
             credits[o] = 0
      PROVE  SlotOnce(t)'
    BY <1>1, <1>2 DEF SlotOnce, OrderOf
<1>3. ASSUME NEW o \in Order, Unpaid(o) PROVE credits[o] = 0
    <2>1. payments[o] # "paid" BY <1>3 DEF Unpaid
    <2> QED BY <2>1, CreditsCount DEF OnceInv
<1>4. ASSUME NEW o \in Order, CreateOrder(t, o) PROVE SlotOnce(t)'
    <2>1. credits[o] = 0
        <3>1. gateway[o] = "none" BY <1>4 DEF CreateOrder
        <3> QED BY <3>1, CreditsCount DEF AuthInv, CreditNeedsAuthorization
    <2> QED BY <1>2, <1>4, <2>1 DEF CreateOrder, Start, TypeInv, TypeOK
<1>5. ASSUME NEW o \in Order, VerifyBegin(t, o) PROVE SlotOnce(t)'
    BY <1>2, <1>3, <1>5 DEF VerifyBegin, Start, TypeInv, TypeOK
<1>6. ASSUME NEW e \in Event, WebhookCapture(t, e) \/ WebhookFailure(t, e) PROVE SlotOnce(t)'
    <2>1. credits[e[1]] = 0 BY <1>3, <1>6 DEF WebhookCapture, WebhookFailure, Event
    <2>2. req'[t] = [kind |-> "webhook", event |-> e]
        BY <1>6 DEF WebhookCapture, WebhookFailure, Start, TypeInv, TypeOK
    <2> QED BY <1>1, <2>1, <2>2 DEF SlotOnce, OrderOf
<1>7. ASSUME \/ \E o \in Order : VerifyAgain(t, o)
             \/ \E e \in Event : WebhookNote(t, e) \/ MisdeliveredBegin(t, e)
             \/ \E u \in User, k \in UserKind : UserBegin(t, k, u)
      PROVE  SlotOnce(t)'
    <2>1. write' = write /\ pc'[t] \in {"read", "reject", "commit"}
        BY <1>7 DEF VerifyAgain, WebhookNote, MisdeliveredBegin, UserBegin, Start, TypeInv, TypeOK
    <2> QED BY <1>1, <2>1 DEF SlotOnce
<1> QED BY <1>4, <1>5, <1>6, <1>7 DEF Begin

\* A request that ends, or goes on without a commit, keeps its part.
LEMMA OnceGoesOn ==
    ASSUME TypeInv, OnceInv, NEW t \in Tx, Step(t)
    PROVE  SlotOnce(t)'
<1>1. CASE Finish(t)
    <2>1. pc'[t] = "idle" /\ write'[t].pay = "keep"
        BY <1>1 DEF Finish, NoWrite, PaymentWrite, TypeInv, TypeOK
    <2> QED BY <2>1 DEF SlotOnce
<1>2. CASE FetchConfirms(t) \/ FetchUnreachable(t) \/ MarkPaid(t)
    <2>1. pc[t] \in {"fetch", "mark"} /\ UNCHANGED <<req, credits>>
        BY <1>2 DEF FetchConfirms, FetchUnreachable, MarkPaid
    <2> QED BY <2>1 DEF SlotOnce, OnceInv
<1>3. CASE ReadStatus(t) \/ ReadCancel(t) \/ ReadDelete(t)
    <2>1. pc'[t] = "commit"
        BY <1>3 DEF ReadStatus, ReadCancel, ReadDelete, Goto, TypeInv, TypeOK
    <2>2. \E q, op, i, rows : Prepare(t, UserWrite(q, op, i, rows))
        BY <1>3 DEF ReadStatus, ReadCancel, ReadDelete
    <2>3. write'[t].pay = "keep" BY <2>2 DEF Prepare, UserWrite, TypeInv, TypeOK
    <2> QED BY <2>1, <2>3 DEF SlotOnce
<1> QED BY <1>1, <1>2, <1>3 DEF Step, FetchRefuses, MisdeliveredReject, RefuseCancel, Abort, Commit

\* OnceInv is inductive relative to TypeInv and AuthInv, for one request at a time.
LEMMA OnceStep ==
    ASSUME OneRequest
    PROVE  TypeInv /\ AuthInv /\ OnceInv /\ [Next]_vars => OnceInv'
<1> SUFFICES ASSUME TypeInv, AuthInv, OnceInv, [Next]_vars PROVE OnceInv' OBVIOUS
<1>1. ASSUME NEW t \in Tx PROVE SlotOnce(t)'
    <2>1. CASE \E s \in Tx : Begin(s) \/ Step(s)
        BY <2>1, OnceBegin, OnceGoesOn DEF OneRequest
    <2>2. CASE Gateway \/ Tick \/ (\E e \in Event : WebhookDuplicate(e)) \/ UNCHANGED vars
        <3>1. UNCHANGED <<slots, credits>>
            BY <2>2 DEF Gateway, Authorize, Decline, Capture, Lapse, Tick, WebhookDuplicate, vars
        <3> QED BY <3>1 DEF slots, OnceInv, SlotOnce
    <2> QED BY <2>1, <2>2 DEF Next
<1>2. ASSUME NEW o \in Order, credits'[o] > 0 PROVE credits'[o] = 1 /\ payments'[o] = "paid"
    <2>1. ASSUME NEW t \in Tx, NEW lost \in BOOLEAN, Commit(t, lost)
          PROVE  credits'[o] = 1 /\ payments'[o] = "paid"
        <3>1. WritePayment(req[t], write[t]) BY <2>1 DEF Commit
        <3>2. CASE write[t].pay = "keep" \/ OrderOf(req[t]) # o
            BY <1>2, <3>1, <3>2 DEF WritePayment, OnceInv, TypeInv, TypeOK
        <3>3. CASE write[t].pay # "keep" /\ OrderOf(req[t]) = o
            <4>1. credits[o] = 0 BY <3>3 DEF OnceInv, SlotOnce
            <4>2. payments'[o] = write[t].pay
                  /\ credits'[o] = 0 + (IF write[t].pay = "paid" THEN 1 ELSE 0)
                BY <3>1, <3>3, <4>1 DEF WritePayment, TypeInv, TypeOK
            <4> QED BY <1>2, <4>2
        <3> QED BY <3>2, <3>3
    <2>2. CASE \A t \in Tx, lost \in BOOLEAN : ~Commit(t, lost)
        BY <1>2, <2>2, CommitWrites DEF OnceInv
    <2> QED BY <2>1, <2>2
<1> QED BY <1>1, <1>2 DEF OnceInv

\* At the start nothing is credited.
LEMMA OnceInit == Init => OnceInv
BY DEF Init, OnceInv, SlotOnce, NoWrite, PaymentWrite

\* When requests come one at a time, no order is activated twice, whichever of
\* checkout and webhooks gets to it, and however often.
THEOREM ActivatedOnce ==
    ASSUME OneRequest
    PROVE  Spec => []ActivatedAtMostOnce
<1>1. TypeInv /\ OnceInv => ActivatedAtMostOnce
    <2> SUFFICES ASSUME TypeInv, OnceInv, NEW o \in Order PROVE credits[o] =< 1
        BY DEF ActivatedAtMostOnce
    <2>1. credits[o] = 0 \/ credits[o] = 1 BY CreditsCount DEF OnceInv
    <2> QED BY <2>1
<1> QED BY <1>1, InitType, NextType, InitAuth, AuthStep, OnceInit, OnceStep, PTL DEF Spec

\* ... and Billing implements the stronger promise of Ledger: each step is an
\* authorization, the first credit of an order, or leaves the ledger alone.
THEOREM ImplementsLedgerOnce ==
    ASSUME OneRequest
    PROVE  Spec => LedgerOnceSpec
<1>1. TypeInv /\ AuthInv /\ OnceInv /\ [Next]_vars => [LedgerOf!NextOnce]_(LedgerOf!vars)
    <2> SUFFICES ASSUME TypeInv, AuthInv, OnceInv, [Next]_vars
                 PROVE  [LedgerOf!NextOnce]_(LedgerOf!vars)
        OBVIOUS
    <2>1. ASSUME credits' # credits PROVE \E o \in Order : LedgerOf!CreditOnce(o)
        <3>1. PICK t \in Tx : /\ write[t].pay = "paid"
                              /\ OrderOf(req[t]) \in Order
                              /\ credits' = [credits EXCEPT ![OrderOf(req[t])] = @ + 1]
                              /\ \E lost \in BOOLEAN : Commit(t, lost)
            BY <2>1, CreditSource
        <3>2. gateway' = gateway BY <3>1 DEF Commit
        <3>3. OrderOf(req[t]) \in Authorized
            BY <3>1 DEF AuthInv, SlotAuth, AuthState, Authorized
        <3>4. credits[OrderOf(req[t])] = 0 BY <3>1 DEF OnceInv, SlotOnce
        <3> QED BY <3>1, <3>2, <3>3, <3>4 DEF LedgerOf!CreditOnce, LedgerOf!Credit, Authorized
    <2>2. [LedgerOf!Next]_(LedgerOf!vars) BY LedgerStep
    <2>3. CASE credits' = credits
        <3>1. ASSUME NEW o \in Order, LedgerOf!Credit(o) PROVE Authorized' = Authorized
            BY <3>1 DEF LedgerOf!Credit
        <3> QED BY <2>2, <2>3, <3>1 DEF LedgerOf!Next, LedgerOf!NextOnce, LedgerOf!vars
    <2> QED BY <2>1, <2>3 DEF LedgerOf!NextOnce
<1>2. Init => LedgerOf!Init BY DEF Init, LedgerOf!Init, Authorized
<1> QED BY <1>1, <1>2, InitType, NextType, InitAuth, AuthStep, OnceInit, OnceStep, PTL
        DEF Spec, LedgerOnceSpec, LedgerOf!OnceSpec

-----------------------------------------------------------------------------
(* One request at a time: one running row, and a plan that shows it *)

\* What the request that is running relies on: it loaded the plan as it is, and
\* what it found running is all that runs when it commits.
SlotSerial(t) ==
    LET u == UserOf(req[t])
        w == write[t]
    IN  /\ req[t].kind \in {"verify"} \cup AnyUserKind => load[t] = plan[u]
        /\ w.op \in {"extend", "replace"} => LiveRows(u) \subseteq {w.cur}
        /\ w.op = "extend" => subs[w.cur].user = u
        /\ w.op = "insert" => LiveRows(u) = {}
        /\ w.plan = "free" => w.op = "close" \/ (w.op = "none" /\ LiveRows(u) = {})
        /\ w.op \in {"insert", "extend", "replace"} =>
             w.plan = "pro" \/ (w.plan = "keep" /\ plan[u] = "pro")

SerialInv ==
    /\ \A u \in User : \A i, j \in LiveRows(u) : i = j
    /\ \A u \in User \ deleted : LiveRows(u) # {} => plan[u] = "pro"
    /\ \A t \in Tx : SlotSerial(t)

\* A row that runs after a commit ran before it and was not replaced, or is
\* the row that was extended, or the new row of the request's user.
LEMMA LiveAfterCommit ==
    ASSUME TypeInv, NEW t \in Tx, NEW lost \in BOOLEAN, Commit(t, lost),
           NEW u \in User, NEW i \in LiveRows(u)'
    PROVE  LET w == write[t] IN
           \/ i \in LiveRows(u) /\ ~(w.op = "replace" /\ i = w.cur)
           \/ w.op = "extend" /\ i = w.cur /\ u = subs[i].user
           \/ w.op \in {"insert", "replace"} /\ i = Len(subs) + 1 /\ u = UserOf(req[t])
<1> DEFINE w == write[t]
<1>1. /\ i \in DOMAIN subs' /\ subs'[i].user = u
      /\ subs'[i].status = "active" /\ subs'[i].end > now'
    BY DEF LiveRows, ActiveRows
<1>2. now' = now BY DEF Commit
<1>3. CASE i \in DOMAIN subs
    <2>1. subs'[i] = Patched(w, i) BY <1>3, CommittedRows
    <2>2. /\ subs[i].user = u
          /\ subs[i].status = "active"
          /\ ~(w.op = "replace" /\ i = w.cur)
          /\ ~(w.op = "extend" /\ i = w.cur) => subs[i].end > now
        BY <1>1, <1>2, <2>1 DEF Patched
    <2> QED BY <1>3, <2>2 DEF LiveRows, ActiveRows
<1>4. CASE i \notin DOMAIN subs
    <2>1. i = Len(subs) + 1 /\ w.op \in {"insert", "replace"} /\ subs'[i] = NewRow(req[t], w)
        BY <1>1, <1>4, CommittedRows
    <2> QED BY <1>1, <2>1 DEF NewRow
<1> QED BY <1>3, <1>4

\* A commit leaves one running row per user, and the plan of every user who has
\* one is "pro".
LEMMA SerialCommit ==
    ASSUME TypeInv, SerialInv, NEW t \in Tx, NEW lost \in BOOLEAN, Commit(t, lost),
           NEW u \in User
    PROVE  /\ \A i, j \in LiveRows(u)' : i = j
           /\ u \notin deleted' /\ LiveRows(u)' # {} => plan'[u] = "pro"
<1> DEFINE w == write[t]
           v == UserOf(req[t])
<1>1. SlotSerial(t) BY DEF SerialInv
<1>2. \A i \in LiveRows(u)' :
        \/ i \in LiveRows(u) /\ ~(w.op = "replace" /\ i = w.cur)
        \/ w.op = "extend" /\ i = w.cur /\ u = v
        \/ w.op \in {"insert", "replace"} /\ i = Len(subs) + 1 /\ u = v
    BY <1>1, LiveAfterCommit DEF SlotSerial
<1>3. CASE u # v
    <2>1. LiveRows(u)' \subseteq LiveRows(u) BY <1>2, <1>3
    <2>2. plan'[u] = plan[u] /\ deleted \subseteq deleted'
        BY <1>3 DEF Commit, TypeInv, TypeOK
    <2> QED BY <2>1, <2>2 DEF SerialInv
<1>4. CASE u = v /\ w.op \in {"insert", "extend", "replace"}
    <2>1. \A i, j \in LiveRows(u)' : i = j BY <1>1, <1>2, <1>4 DEF SlotSerial
    <2>2. plan'[u] = "pro" BY <1>1, <1>4 DEF SlotSerial, Commit, TypeInv, TypeOK
    <2> QED BY <2>1, <2>2
<1>5. CASE u = v /\ w.op \notin {"insert", "extend", "replace"}
    <2>1. LiveRows(u)' \subseteq LiveRows(u) BY <1>2, <1>5
    <2>2. \A i, j \in LiveRows(u)' : i = j BY <2>1 DEF SerialInv
    <2>3. ASSUME u \notin deleted', LiveRows(u)' # {} PROVE plan'[u] = "pro"
        <3>1. w.op # "close"
            <4>1. w.op = "close" => v \in deleted'
                BY DEF Commit, TypeInv, SlotOK, UserOf
            <4> QED BY <1>5, <2>3, <4>1
        <3>2. w.plan # "free" BY <1>1, <1>5, <2>1, <2>3, <3>1 DEF SlotSerial
        <3>3. u \notin deleted BY <2>3 DEF Commit
        <3>4. plan[u] = "pro" BY <2>1, <2>3, <3>3 DEF SerialInv
        <3>5. w.plan \in {"keep", "free", "pro"} BY DEF TypeInv, TypeOK, WriteSet
        <3> QED BY <1>5, <3>2, <3>4, <3>5 DEF Commit, TypeInv, TypeOK
    <2> QED BY <2>2, <2>3
<1> QED BY <1>3, <1>4, <1>5

\* Time only ends rows.
LEMMA LiveShrinks ==
    ASSUME TypeInv, UNCHANGED subs, now' \in {now, now + 1}, NEW u
    PROVE  LiveRows(u)' \subseteq LiveRows(u)
<1> SUFFICES ASSUME NEW i \in DOMAIN subs, subs[i].end > now' PROVE subs[i].end > now
    BY DEF LiveRows, ActiveRows
<1>1. subs \in Seq(SubRow) /\ now \in Nat BY DEF TypeInv, TypeOK
<1>2. subs[i].end \in Nat
    <2>1. subs[i] \in SubRow BY <1>1
    <2> QED BY <2>1 DEF SubRow
<1> QED BY <1>1, <1>2

\* A request that begins has loaded the plan and writes no row yet.
LEMMA SerialBegin ==
    ASSUME TypeInv, NEW t \in Tx, Begin(t)
    PROVE  SlotSerial(t)'
<1>1. /\ plan' = plan
      /\ write'[t].op = "none" /\ write'[t].plan = "keep"
    BY DEF Begin, CreateOrder, VerifyBegin, VerifyAgain, WebhookCapture, WebhookFailure,
           WebhookNote, MisdeliveredBegin, UserBegin, Start, Prepare, db,
           TypeInv, TypeOK, SlotOK, NoWrite, PaymentWrite
<1>2. ASSUME req'[t].kind \in {"verify"} \cup AnyUserKind
      PROVE  load'[t] = plan[UserOf(req'[t])]
    <2>1. CASE \E o \in Order : VerifyBegin(t, o)
        <3>1. PICK o \in Order : VerifyBegin(t, o) BY <2>1
        <3>2. req'[t] = [kind |-> "verify", order |-> o] /\ load'[t] = plan[Buyer[o]]
            BY <3>1 DEF VerifyBegin, Start, TypeInv, TypeOK
        <3> QED BY <3>2 DEF UserOf, OrderOf
    <2>2. CASE \E u \in User, k \in AnyUserKind :
                    Start(t, [kind |-> k, user |-> u], "read", plan[u])
        <3>1. PICK u \in User, k \in AnyUserKind :
                    Start(t, [kind |-> k, user |-> u], "read", plan[u]) BY <2>2
        <3>2. req'[t] = [kind |-> k, user |-> u] /\ load'[t] = plan[u]
            BY <3>1 DEF Start, TypeInv, TypeOK
        <3> QED BY <3>2 DEF UserOf, AnyUserKind
    <2>3. CASE \/ \E o \in Order : CreateOrder(t, o)
               \/ \E e \in Event : \/ WebhookCapture(t, e) \/ WebhookFailure(t, e)
                                   \/ WebhookNote(t, e) \/ MisdeliveredBegin(t, e)
        <3>1. req'[t].kind \in {"create", "webhook", "misdelivery"}
            BY <2>3 DEF CreateOrder, WebhookCapture, WebhookFailure, WebhookNote,
                        MisdeliveredBegin, Start, TypeInv, TypeOK
        <3> QED BY <1>2, <3>1 DEF AnyUserKind
    <2>4. ASSUME NEW o \in Order, VerifyAgain(t, o)
          PROVE  Start(t, [kind |-> "status", user |-> Buyer[o]], "read", plan[Buyer[o]])
        BY <2>4 DEF VerifyAgain
    <2>5. Buyer \in [Order -> User] BY BuyerAssumption
    <2>6. ASSUME NEW u \in User, NEW k \in UserKind, UserBegin(t, k, u)
          PROVE  Start(t, [kind |-> k, user |-> u], "read", plan[u]) /\ k \in AnyUserKind
        BY <2>6, UserKindAssumption DEF UserBegin
    <2>7. "status" \in AnyUserKind BY DEF AnyUserKind
    <2>8. CASE \E o \in Order : VerifyAgain(t, o) BY <2>2, <2>4, <2>5, <2>7, <2>8
    <2>9. CASE \E u \in User, k \in UserKind : UserBegin(t, k, u) BY <2>2, <2>6, <2>9
    <2> QED BY <2>1, <2>3, <2>8, <2>9 DEF Begin
<1> QED BY <1>1, <1>2 DEF SlotSerial

\* A request that reads the subscriptions prepares what they call for.
LEMMA SerialRead ==
    ASSUME TypeInv, SerialInv, NEW t \in Tx,
           MarkPaid(t) \/ ReadStatus(t) \/ ReadCancel(t) \/ ReadDelete(t)
    PROVE  SlotSerial(t)'
<1> DEFINE u == UserOf(req[t])
           w == write'[t]
<1>1. UNCHANGED <<now, subs, plan, req, load>>
    BY DEF MarkPaid, ReadStatus, ReadCancel, ReadDelete, db
<1>2. LiveRows(u)' = LiveRows(u) BY <1>1 DEF LiveRows, ActiveRows
<1>3. req[t].kind \in {"verify"} \cup AnyUserKind => load[t] = plan[u]
    BY DEF SerialInv, SlotSerial
<1>4. u \in User /\ plan[u] \in {"free", "pro"}
    <2>1. req[t].kind # "none"
        BY DEF MarkPaid, ReadStatus, ReadCancel, ReadDelete, TypeInv, SlotOK
    <2>2. req[t] \in Request BY DEF TypeInv, TypeOK
    <2> QED BY <2>1, <2>2, RequestTypes DEF TypeInv, TypeOK
<1> SUFFICES /\ w.op \in {"extend", "replace"} => LiveRows(u) \subseteq {w.cur}
             /\ w.op = "extend" => subs[w.cur].user = u
             /\ w.op = "insert" => LiveRows(u) = {}
             /\ w.plan = "free" => w.op = "close" \/ (w.op = "none" /\ LiveRows(u) = {})
             /\ w.op \in {"insert", "extend", "replace"} =>
                  w.plan = "pro" \/ (w.plan = "keep" /\ plan[u] = "pro")
    BY <1>1, <1>2, <1>3 DEF SlotSerial
<1>5. CASE MarkPaid(t)
    <2>1. u = Buyer[OrderOf(req[t])]
        BY <1>5 DEF MarkPaid, UserOf, TypeInv, SlotOK
    <2>2. PICK cur \in 0..Len(subs), lapsed \in SUBSET ActiveRows(u) :
            /\ ReadsActive(u, cur, lapsed)
            /\ w.op = IF Renews(cur, PlanOf[OrderOf(req[t])]) THEN "extend"
                      ELSE IF cur # 0 THEN "replace" ELSE "insert"
            /\ w.cur = cur
            /\ w.plan = PlanWrite(IF req[t].kind = "verify" THEN load[t] ELSE plan[u], "pro")
        BY <1>5, <2>1, MarkPaidWrite
    <2>3. w.plan = PlanWrite(plan[u], "pro") BY <1>3, <2>2
    <2>4. w.plan \in {"pro", "keep"} /\ (w.plan = "keep" => plan[u] = "pro")
        BY <2>3 DEF PlanWrite
    <2>5. cur = 0 => LiveRows(u) = {}
        <3>1. 0 \notin DOMAIN subs BY DEF TypeInv, TypeOK
        <3> QED BY <2>2, <3>1 DEF ReadsActive, LiveRows, ActiveRows
    <2>6. cur # 0 => LiveRows(u) \subseteq {cur} /\ subs[cur].user = u
        BY <1>4, <2>2 DEF ReadsActive, LiveRows, ActiveRows, SerialInv
    <2>7. w.op \in {"insert", "extend", "replace"} /\ (w.op = "insert" <=> cur = 0)
        BY <2>2 DEF Renews
    <2> HIDE DEF w, u
    <2> QED BY <2>2, <2>4, <2>5, <2>6, <2>7
<1>6. CASE ReadStatus(t)
    <2>1. u = req[t].user /\ req[t].kind \in AnyUserKind
        BY <1>6 DEF ReadStatus, UserOf, AnyUserKind
    <2>2. PICK cur \in 0..Len(subs), lapsed \in SUBSET ActiveRows(u) :
            /\ ReadsActive(u, cur, lapsed)
            /\ Prepare(t, UserWrite(IF req[t].kind = "entitlements" THEN "keep"
                                    ELSE PlanWrite(load[t], IF cur # 0 THEN "pro" ELSE "free"),
                                    "none", 0, lapsed))
        BY <1>6, <2>1 DEF ReadStatus
    <2>3. w.op = "none" /\ (w.plan = "free" => cur = 0)
        BY <2>2 DEF Prepare, UserWrite, PlanWrite, TypeInv, TypeOK
    <2>4. cur = 0 => LiveRows(u) = {}
        <3>1. 0 \notin DOMAIN subs BY DEF TypeInv, TypeOK
        <3> QED BY <2>2, <3>1 DEF ReadsActive, LiveRows, ActiveRows
    <2> QED BY <2>3, <2>4
<1>7. CASE ReadCancel(t)
    <2>1. PICK cur : Prepare(t, UserWrite(PlanWrite(load[t], "pro"),
                                  IF subs[cur].cape THEN "none" ELSE "flag", cur, {}))
        BY <1>7 DEF ReadCancel
    <2>2. w.op \in {"none", "flag"} /\ w.plan # "free"
        BY <2>1 DEF Prepare, UserWrite, PlanWrite, TypeInv, TypeOK
    <2> QED BY <2>2
<1>8. CASE ReadDelete(t)
    <2>1. w.op = "close" BY <1>8 DEF ReadDelete, Prepare, UserWrite, TypeInv, TypeOK
    <2> QED BY <2>1
<1> QED BY <1>5, <1>6, <1>7, <1>8

\* Every other step of a request leaves its part as it was, or ends it.
LEMMA SerialGoesOn ==
    ASSUME TypeInv, SerialInv, NEW t \in Tx, Step(t)
    PROVE  SlotSerial(t)'
<1>1. CASE Finish(t)
    <2>1. req'[t].kind = "none" /\ write'[t].op = "none" /\ write'[t].plan = "keep"
        BY <1>1 DEF Finish, NoReq, NoWrite, PaymentWrite, TypeInv, TypeOK
    <2> QED BY <2>1 DEF SlotSerial, AnyUserKind
<1>2. CASE FetchConfirms(t) \/ FetchUnreachable(t)
    <2>1. UNCHANGED <<now, subs, plan, req, load, write>>
        BY <1>2 DEF FetchConfirms, FetchUnreachable, db
    <2> QED BY <2>1 DEF SlotSerial, SerialInv, LiveRows, ActiveRows
<1> QED BY <1>1, <1>2, SerialRead
        DEF Step, FetchRefuses, MisdeliveredReject, RefuseCancel, Abort, Commit

\* SerialInv is inductive relative to TypeInv, for one request at a time.
LEMMA SerialStep ==
    ASSUME OneRequest
    PROVE  TypeInv /\ SerialInv /\ [Next]_vars => SerialInv'
<1> SUFFICES ASSUME TypeInv, SerialInv, [Next]_vars PROVE SerialInv' OBVIOUS
<1> DEFINE Outside == Gateway \/ Tick \/ (\E e \in Event : WebhookDuplicate(e)) \/ UNCHANGED vars
<1>1. ASSUME Outside
      PROVE  UNCHANGED <<subs, plan, deleted, slots>> /\ now' \in {now, now + 1}
    BY <1>1 DEF Gateway, Authorize, Decline, Capture, Lapse, Tick, WebhookDuplicate, vars, db
<1>2. ASSUME NEW t \in Tx PROVE SlotSerial(t)'
    <2>1. CASE \E s \in Tx : Begin(s) \/ Step(s)
        BY <2>1, SerialBegin, SerialGoesOn DEF OneRequest
    <2>2. CASE Outside
        <3>1. SlotSerial(t) BY DEF SerialInv
        <3>2. UNCHANGED <<subs, plan, req, load, write>> BY <1>1, <2>2 DEF slots
        <3>3. \A v : LiveRows(v)' \subseteq LiveRows(v) BY <1>1, <2>2, LiveShrinks
        <3>4. PICK v : v = UserOf(req[t]) OBVIOUS
        <3>5. UserOf(req[t])' = v BY <3>2, <3>4 DEF UserOf, OrderOf
        <3>6. LiveRows(UserOf(req[t]))' = LiveRows(v)' BY <3>5 DEF LiveRows, ActiveRows
        <3> QED BY <3>1, <3>2, <3>3, <3>4, <3>5, <3>6 DEF SlotSerial
    <2> QED BY <2>1, <2>2 DEF Next
<1>3. ASSUME NEW u \in User
      PROVE  /\ \A i, j \in LiveRows(u)' : i = j
             /\ u \notin deleted' /\ LiveRows(u)' # {} => plan'[u] = "pro"
    <2>1. CASE \E t \in Tx, lost \in BOOLEAN : Commit(t, lost)
        BY <2>1, SerialCommit
    <2>2. CASE \A t \in Tx, lost \in BOOLEAN : ~Commit(t, lost)
        <3>1. UNCHANGED <<subs, plan, deleted>> BY <2>2, CommitWrites
        <3>2. now' \in {now, now + 1}
            BY ZenonT(60), <1>1
        DEF Next, vars, Begin, CreateOrder, VerifyBegin, VerifyAgain, WebhookCapture,
               WebhookFailure, WebhookNote, MisdeliveredBegin, UserBegin,
               Step, FetchConfirms, FetchRefuses, FetchUnreachable, MarkPaid,
               MisdeliveredReject, ReadStatus, RefuseCancel, ReadCancel, ReadDelete, Abort, Commit
        <3>3. LiveRows(u)' \subseteq LiveRows(u) BY <3>1, <3>2, LiveShrinks
        <3> QED BY <3>1, <3>3 DEF SerialInv
    <2> QED BY <2>1, <2>2
<1>4. /\ \A u \in User : \A i, j \in LiveRows(u)' : i = j
      /\ \A u \in User \ deleted' : LiveRows(u)' # {} => plan'[u] = "pro"
    BY <1>3
<1> QED BY <1>2, <1>4 DEF SerialInv

\* At the start no row exists.
LEMMA SerialInit == Init => SerialInv
<1> SUFFICES ASSUME Init PROVE SerialInv OBVIOUS
<1>1. \A u : LiveRows(u) = {} BY DEF Init, LiveRows, ActiveRows
<1>2. \A t \in Tx : SlotSerial(t)
    BY DEF Init, SlotSerial, NoReq, NoWrite, PaymentWrite, AnyUserKind
<1> QED BY <1>1, <1>2 DEF SerialInv

\* When requests come one at a time, no user ever has two running rows: a
\* renewal extends the row, another plan replaces it, and a new row is added
\* only when none runs.
THEOREM OneRowRuns ==
    ASSUME OneRequest
    PROVE  Spec => []OneRunningRow
<1>1. SerialInv => OneRunningRow
    <2> SUFFICES ASSUME SerialInv, NEW u \in User PROVE Cardinality(LiveRows(u)) =< 1
        BY DEF OneRunningRow
    <2>1. CASE LiveRows(u) = {}
        <3>1. Cardinality(LiveRows(u)) = 0 BY <2>1, FS_EmptySet
        <3> QED BY <3>1
    <2>2. CASE LiveRows(u) # {}
        <3>1. PICK i \in LiveRows(u) : LiveRows(u) = {i} BY <2>2 DEF SerialInv
        <3>2. Cardinality({i}) = 1 BY FS_Singleton
        <3> QED BY <3>1, <3>2
    <2> QED BY <2>1, <2>2
<1> QED BY <1>1, InitType, NextType, SerialInit, SerialStep, PTL DEF Spec

\* ... and users.plan is "pro" for every account with a running row, so that an
\* entitlement check that looks at the plan first never turns a payer away.
THEOREM PlanShowsSubscription ==
    ASSUME OneRequest
    PROVE  Spec => []PlanFollowsSubscription
<1>1. SerialInv => PlanFollowsSubscription BY DEF SerialInv, PlanFollowsSubscription
<1> QED BY <1>1, InitType, NextType, SerialInit, SerialStep, PTL DEF Spec

-----------------------------------------------------------------------------
(* Sums over finite sets, as MapThenSumSet computes them: one element      *)
(* after another, in the order in which CHOOSE takes them.  The sums of    *)
(* all subsets of a set are a function F; that it exists, that its values  *)
(* are integers and that the order does not matter is shown by taking a    *)
(* least counterexample, which needs no induction theorem.                 *)

FirstOf(s) == CHOOSE x \in s : TRUE

\* What F says of s without its first element, and that element.
Added(F, f, s) == IF s = {} THEN 0 ELSE f[FirstOf(s)] + F[s \ {FirstOf(s)}]

\* F is the sums of f, at least over the subsets of up to n elements.
AddsUp(F, f, S, n) == \A s \in SUBSET S : Cardinality(s) =< n => F[s] = Added(F, f, s)
SumsOf(F, f, S) == \A s \in SUBSET S : F[s] = Added(F, f, s)

\* There is a least number in a set of numbers, unless it is empty.
LEMMA LeastNumber ==
    ASSUME NEW N \in SUBSET Nat, N # {}
    PROVE  \E n \in N : \A m \in N : n =< m
<1>1. PICK n \in N : \A m \in N : ~(<<m, n>> \in OpToRel(<, Nat))
    BY NatLessThanWellFounded, WFMin
<1>2. \A m \in N : ~(m < n) BY <1>1 DEF OpToRel
<1> QED BY <1>2

\* The sizes of subsets.
LEMMA Sizes ==
    ASSUME NEW S, IsFiniteSet(S), NEW s \in SUBSET S
    PROVE  /\ Cardinality(s) \in Nat /\ Cardinality(s) =< Cardinality(S)
           /\ Cardinality(S) \in Nat
           /\ Cardinality(s) = 0 <=> s = {}
           /\ \A x \in s : Cardinality(s \ {x}) = Cardinality(s) - 1
<1>1. IsFiniteSet(s) /\ Cardinality(s) =< Cardinality(S) BY FS_Subset
<1>2. Cardinality(s) \in Nat /\ Cardinality(S) \in Nat BY <1>1, FS_CardinalityType
<1>3. Cardinality(s) = 0 <=> s = {} BY <1>1, FS_EmptySet
<1>4. \A x \in s : Cardinality(s \ {x}) = Cardinality(s) - 1 BY <1>1, FS_RemoveElement
<1> QED BY <1>1, <1>2, <1>3, <1>4

\* The subsets of up to n elements have sums, for every n.
LEMMA SumsOfSmall ==
    ASSUME NEW S, IsFiniteSet(S), NEW f, NEW n \in Nat
    PROVE  \E F : AddsUp(F, f, S, n)
<1> DEFINE Bad == {k \in Nat : \A F : ~AddsUp(F, f, S, k)}
<1>1. CASE Bad = {} BY <1>1
<1>2. CASE Bad # {}
    <2>1. PICK k \in Bad : \A m \in Bad : k =< m
        <3> HIDE DEF Bad
        <3>1. Bad \in SUBSET Nat BY DEF Bad
        <3> QED BY <1>2, <3>1, LeastNumber
    <2>2. k \in Nat /\ \A F : ~AddsUp(F, f, S, k) BY <2>1
    <2>3. CASE k = 0
        <3>1. \A s \in SUBSET S : Cardinality(s) =< 0 => s = {} BY Sizes
        <3>2. AddsUp([s \in SUBSET S |-> 0], f, S, 0) BY <3>1 DEF AddsUp, Added
        <3> QED BY <2>2, <2>3, <3>2
    <2>4. CASE k # 0
        <3>1. k - 1 \in Nat /\ k - 1 \notin Bad BY <2>1, <2>2, <2>4
        <3>2. PICK F : AddsUp(F, f, S, k - 1) BY <3>1
        <3> DEFINE G == [s \in SUBSET S |-> IF Cardinality(s) =< k - 1 THEN F[s] ELSE Added(F, f, s)]
        <3>3. ASSUME NEW s \in SUBSET S, Cardinality(s) =< k PROVE G[s] = Added(G, f, s)
            <4>1. G[s] = Added(F, f, s) BY <3>2 DEF AddsUp
            <4>2. CASE s = {} BY <4>1, <4>2 DEF Added
            <4>3. CASE s # {}
                <5>1. FirstOf(s) \in s BY <4>3 DEF FirstOf
                <5>2. s \ {FirstOf(s)} \in SUBSET S /\ Cardinality(s \ {FirstOf(s)}) =< k - 1
                    BY <2>2, <3>3, <5>1, Sizes
                <5>3. G[s \ {FirstOf(s)}] = F[s \ {FirstOf(s)}] BY <5>2
                <5> QED BY <4>1, <5>3 DEF Added
            <4> QED BY <4>2, <4>3
        <3> HIDE DEF G
        <3>4. AddsUp(G, f, S, k) BY <3>3 DEF AddsUp
        <3> QED BY <2>2, <3>4
    <2> QED BY <2>3, <2>4
<1> QED BY <1>1, <1>2

\* Every finite set has sums.
LEMMA SumsExist ==
    ASSUME NEW S, IsFiniteSet(S), NEW f
    PROVE  \E F : SumsOf(F, f, S) /\ F = [s \in SUBSET S |-> F[s]]
<1>1. PICK F : AddsUp(F, f, S, Cardinality(S)) BY SumsOfSmall, Sizes
<1>2. \A s \in SUBSET S : F[s] = Added(F, f, s) BY <1>1, Sizes DEF AddsUp
<1> DEFINE G == [s \in SUBSET S |-> F[s]]
<1>3. ASSUME NEW s \in SUBSET S PROVE G[s] = Added(G, f, s)
    <2>1. G[s] = Added(F, f, s) BY <1>2
    <2>2. CASE s = {} BY <2>1, <2>2 DEF Added
    <2>3. CASE s # {}
        <3>1. s \ {FirstOf(s)} \in SUBSET S OBVIOUS
        <3>2. G[s \ {FirstOf(s)}] = F[s \ {FirstOf(s)}] BY <3>1
        <3> QED BY <2>1, <3>2 DEF Added
    <2> QED BY <2>2, <2>3
<1>4. G = [s \in SUBSET S |-> G[s]] OBVIOUS
<1> HIDE DEF G
<1> QED BY <1>3, <1>4 DEF SumsOf

\* They are integers if the elements' numbers are, and natural numbers likewise.
LEMMA SumsType ==
    ASSUME NEW S, IsFiniteSet(S), NEW N \in {Nat, Int}, NEW f, \A x \in S : f[x] \in N,
           NEW F, SumsOf(F, f, S), NEW s \in SUBSET S
    PROVE  F[s] \in N
<1> DEFINE Bad == {Cardinality(r) : r \in {r \in SUBSET S : F[r] \notin N}}
<1>1. Bad \in SUBSET Nat BY Sizes
<1>2. CASE Bad # {}
    <2> HIDE DEF Bad
    <2>1. PICK k \in Bad : \A m \in Bad : k =< m BY <1>1, <1>2, LeastNumber
    <2>2. PICK r \in SUBSET S : F[r] \notin N /\ k = Cardinality(r) BY <2>1 DEF Bad
    <2>3. F[r] = Added(F, f, r) BY DEF SumsOf
    <2>4. r # {} BY <2>2, <2>3 DEF Added
    <2>5. FirstOf(r) \in r BY <2>4 DEF FirstOf
    <2>6. r \ {FirstOf(r)} \in SUBSET S /\ Cardinality(r \ {FirstOf(r)}) = k - 1 /\ k \in Nat
        BY <2>2, <2>5, Sizes
    <2>7. k - 1 \notin Bad BY <2>1, <2>6, <1>1
    <2>8. F[r \ {FirstOf(r)}] \in N BY <2>6, <2>7 DEF Bad
    <2>9. f[FirstOf(r)] \in N BY <2>5
    <2>10. F[r] = f[FirstOf(r)] + F[r \ {FirstOf(r)}] BY <2>3, <2>4 DEF Added
    <2> QED BY <2>2, <2>8, <2>9, <2>10
<1> QED BY <1>2

\* What sums a set has depends on its elements' numbers alone.
LEMMA SumsUnique ==
    ASSUME NEW S, IsFiniteSet(S), NEW f, NEW g, \A x \in S : f[x] = g[x],
           NEW F, SumsOf(F, f, S), NEW G, SumsOf(G, g, S), NEW s \in SUBSET S
    PROVE  F[s] = G[s]
<1> DEFINE Bad == {Cardinality(r) : r \in {r \in SUBSET S : F[r] # G[r]}}
<1>1. Bad \in SUBSET Nat BY Sizes
<1>2. CASE Bad # {}
    <2> HIDE DEF Bad
    <2>1. PICK k \in Bad : \A m \in Bad : k =< m BY <1>1, <1>2, LeastNumber
    <2>2. PICK r \in SUBSET S : F[r] # G[r] /\ k = Cardinality(r) BY <2>1 DEF Bad
    <2>3. F[r] = Added(F, f, r) /\ G[r] = Added(G, g, r) BY DEF SumsOf
    <2>4. r # {} BY <2>2, <2>3 DEF Added
    <2>5. FirstOf(r) \in r BY <2>4 DEF FirstOf
    <2>6. r \ {FirstOf(r)} \in SUBSET S /\ Cardinality(r \ {FirstOf(r)}) = k - 1 /\ k \in Nat
        BY <2>2, <2>5, Sizes
    <2>7. k - 1 \notin Bad BY <2>1, <2>6, <1>1
    <2>8. F[r \ {FirstOf(r)}] = G[r \ {FirstOf(r)}] BY <2>6, <2>7 DEF Bad
    <2>9. f[FirstOf(r)] = g[FirstOf(r)] BY <2>5
    <2> QED BY <2>2, <2>3, <2>4, <2>8, <2>9 DEF Added
<1> QED BY <1>2

\* The order does not matter: any element may be added last.
LEMMA SumsAnyLast ==
    ASSUME NEW S, IsFiniteSet(S), NEW f, \A x \in S : f[x] \in Int,
           NEW F, SumsOf(F, f, S), NEW s \in SUBSET S, NEW x \in s
    PROVE  F[s] = f[x] + F[s \ {x}]
<1> DEFINE Bad == {Cardinality(r) : r \in {r \in SUBSET S : \E y \in r : F[r] # f[y] + F[r \ {y}]}}
<1>1. Bad \in SUBSET Nat BY Sizes
<1>2. CASE Bad # {}
    <2> HIDE DEF Bad
    <2>1. PICK k \in Bad : \A m \in Bad : k =< m BY <1>1, <1>2, LeastNumber
    <2>0. PICK r \in SUBSET S : (\E y \in r : F[r] # f[y] + F[r \ {y}]) /\ k = Cardinality(r)
        BY <2>1 DEF Bad
    <2>2. PICK y \in r : F[r] # f[y] + F[r \ {y}] BY <2>0
    <2>3. PICK c \in r : F[r] = f[c] + F[r \ {c}]
        <3>1. FirstOf(r) \in r BY DEF FirstOf
        <3> QED BY <3>1 DEF SumsOf, Added
    <2>4. y # c BY <2>2, <2>3
    <2>5. /\ r \ {c} \in SUBSET S /\ y \in r \ {c} /\ Cardinality(r \ {c}) = k - 1
          /\ r \ {y} \in SUBSET S /\ c \in r \ {y} /\ Cardinality(r \ {y}) = k - 1
          /\ k \in Nat
        BY <2>0, <2>4, Sizes
    <2>6. k - 1 \notin Bad BY <2>1, <2>5, <1>1
    <2>7. \A q \in SUBSET S : Cardinality(q) = k - 1 => \A z \in q : F[q] = f[z] + F[q \ {z}]
        BY <2>6 DEF Bad
    <2>8. F[r \ {c}] = f[y] + F[(r \ {c}) \ {y}] /\ F[r \ {y}] = f[c] + F[(r \ {y}) \ {c}]
        BY <2>5, <2>7
    <2>9. (r \ {c}) \ {y} = (r \ {y}) \ {c} /\ (r \ {c}) \ {y} \in SUBSET S OBVIOUS
    <2>10. F[(r \ {c}) \ {y}] \in Int /\ f[y] \in Int /\ f[c] \in Int BY <2>9, SumsType
    <2>11. F[r] = f[c] + (f[y] + F[(r \ {c}) \ {y}]) /\ F[r \ {y}] = f[c] + F[(r \ {c}) \ {y}]
        BY <2>3, <2>8, <2>9
    <2>12. PICK R \in Int, a \in Int, b \in Int :
               R = F[(r \ {c}) \ {y}] /\ a = f[y] /\ b = f[c]
        BY <2>10
    <2>13. F[r] = b + (a + R) /\ F[r \ {y}] = b + R BY <2>11, <2>12
    <2>14. F[r] = a + F[r \ {y}] BY <2>12, <2>13
    <2> QED BY <2>2, <2>12, <2>14
<1> QED BY <1>2

\* When one number grows, the sum grows by as much.
LEMMA SumGrows ==
    ASSUME NEW S, IsFiniteSet(S), NEW f, NEW g, NEW o \in S, NEW k \in Nat,
           \A x \in S : f[x] \in Nat, \A x \in S : g[x] \in Nat,
           \A x \in S : x # o => f[x] = g[x], g[o] = f[o] + k,
           NEW F, SumsOf(F, f, S), NEW G, SumsOf(G, g, S)
    PROVE  G[S] = F[S] + k
<1>1. PICK R : R = S \ {o} OBVIOUS
<1>2. IsFiniteSet(R) /\ R \in SUBSET S /\ R \in SUBSET R /\ S \in SUBSET S BY <1>1, FS_Subset
<1>3. SumsOf(F, f, R) /\ SumsOf(G, g, R) BY <1>2 DEF SumsOf
<1>4. \A x \in R : f[x] = g[x] BY <1>1
<1>5. F[R] = G[R] BY <1>2, <1>3, <1>4, SumsUnique
<1>6. \A x \in S : f[x] \in Int BY ONLY \A x \in S : f[x] \in Nat
<1>7. \A x \in S : g[x] \in Int BY ONLY \A x \in S : g[x] \in Nat
<1>8. F[S] = f[o] + F[S \ {o}] BY <1>2, <1>6, SumsAnyLast
<1>9. G[S] = g[o] + G[S \ {o}] BY <1>2, <1>7, SumsAnyLast
<1>10. F[R] \in Nat BY <1>2, SumsType
<1>11. PICK a \in Nat, b \in Nat : a = f[o] /\ b = F[R] BY <1>10
<1>12. F[S] = a + b /\ G[S] = (a + k) + b BY <1>1, <1>5, <1>8, <1>9, <1>11
<1> QED BY <1>11, <1>12

\* Nothing but zeros adds up to zero.
LEMMA SumOfZeros ==
    ASSUME NEW S, IsFiniteSet(S), NEW f, \A x \in S : f[x] = 0, NEW F, SumsOf(F, f, S)
    PROVE  F[S] = 0
<1> DEFINE Z == [s \in SUBSET S |-> 0]
<1>1. ASSUME NEW s \in SUBSET S PROVE Z[s] = Added(Z, f, s)
    <2>1. CASE s = {} BY <2>1 DEF Added
    <2>2. CASE s # {}
        <3>1. FirstOf(s) \in s BY <2>2 DEF FirstOf
        <3>2. f[FirstOf(s)] = 0 /\ Z[s \ {FirstOf(s)}] = 0 BY <3>1
        <3> QED BY <2>2, <3>2 DEF Added
    <2> QED BY <2>1, <2>2
<1>2. Z[S] = 0 OBVIOUS
<1> HIDE DEF Z
<1>3. SumsOf(Z, f, S) BY <1>1 DEF SumsOf
<1>4. \A x \in S : f[x] = f[x] OBVIOUS
<1>5. F[S] = Z[S] BY <1>3, <1>4, SumsUnique
<1> QED BY <1>2, <1>5

-----------------------------------------------------------------------------
(* The time credited, as a sum over orders *)

Paid(c, p, S) == [o \in S |-> c[o] * Period[p]]

\* The orders of a user for a plan are finitely many.
LEMMA BoughtFinite == ASSUME NEW u, NEW p PROVE IsFiniteSet(Bought(u, p))
BY OrderAssumption, FS_Subset DEF Bought

\* Each order buys a number of periods.
LEMMA PaidType ==
    ASSUME NEW c \in [Order -> Nat], NEW u, NEW p \in Plan
    PROVE  \A o \in Bought(u, p) : Paid(c, p, Bought(u, p))[o] \in Nat
<1>1. Period[p] \in Nat BY PeriodAssumption
<1>2. \A m, n \in Nat : m * n \in Nat OBVIOUS
<1> QED BY <1>1, <1>2 DEF Paid, Bought

\* The time credited is a sum over them.
LEMMA TimeIsSum ==
    ASSUME NEW c \in [Order -> Nat], NEW u, NEW p \in Plan
    PROVE  \E F : /\ SumsOf(F, Paid(c, p, Bought(u, p)), Bought(u, p))
                  /\ F[Bought(u, p)] = TimeOf(c, u, p)
<1> DEFINE S == Bought(u, p)
           f == Paid(c, p, S)
           G(F) == F = [s \in SUBSET S |->
                          IF s = {} THEN 0
                          ELSE LET x == CHOOSE x \in s : TRUE IN c[x] * Period[p] + F[s \ {x}]]
<1>1. \A s \in SUBSET S : s # {} => f[FirstOf(s)] = c[FirstOf(s)] * Period[p] BY DEF FirstOf, Paid
<1>2. PICK F : SumsOf(F, f, S) /\ F = [s \in SUBSET S |-> F[s]] BY BoughtFinite, SumsExist
<1>3. G(F)
    <2> HIDE DEF f, S
    <2>1. \A s \in SUBSET S : F[s] = IF s = {} THEN 0
                                    ELSE c[FirstOf(s)] * Period[p] + F[s \ {FirstOf(s)}]
        BY <1>1, <1>2 DEF SumsOf, Added
    <2>2. F = [s \in SUBSET S |-> IF s = {} THEN 0
                                  ELSE c[FirstOf(s)] * Period[p] + F[s \ {FirstOf(s)}]]
        BY <1>2, <2>1
    <2> QED BY <2>2 DEF FirstOf
<1>4. \E H : G(H) /\ H[S] = TimeOf(c, u, p)
    BY <1>3 DEF TimeOf, MapThenSumSet, MapThenFoldSet
<1>5. PICK H : G(H) /\ H[S] = TimeOf(c, u, p) BY <1>4
<1>6. SumsOf(H, f, S)
    <2> HIDE DEF f, S
    <2> QED BY SMTT(30), <1>1, <1>5 DEF SumsOf, Added, FirstOf
<1> QED BY <1>5, <1>6

\* It is a natural number.
LEMMA TimeType ==
    ASSUME NEW c \in [Order -> Nat], NEW u, NEW p \in Plan
    PROVE  TimeOf(c, u, p) \in Nat
<1>1. PICK F : /\ SumsOf(F, Paid(c, p, Bought(u, p)), Bought(u, p))
               /\ F[Bought(u, p)] = TimeOf(c, u, p)
    BY TimeIsSum
<1>2. F[Bought(u, p)] \in Nat BY <1>1, BoughtFinite, PaidType, SumsType
<1> QED BY <1>1, <1>2

\* One more activation of an order adds its period, and nothing to other plans
\* or users.
LEMMA TimeGrows ==
    ASSUME NEW c \in [Order -> Nat], NEW o \in Order, NEW d \in [Order -> Nat],
           d[o] = c[o] + 1, \A x \in Order : x # o => d[x] = c[x],
           NEW u, NEW p \in Plan
    PROVE  /\ o \in Bought(u, p) => TimeOf(d, u, p) = TimeOf(c, u, p) + Period[p]
           /\ o \notin Bought(u, p) => TimeOf(d, u, p) = TimeOf(c, u, p)
<1>1. PICK S : S = Bought(u, p) OBVIOUS
<1>2. S \subseteq Order BY <1>1 DEF Bought
<1>3. PICK f : f = Paid(c, p, S) OBVIOUS
<1>4. PICK g : g = Paid(d, p, S) OBVIOUS
<1>5. \A x \in S : x # o => f[x] = g[x] BY <1>2, <1>3, <1>4 DEF Paid
<1>6. \A x \in S : f[x] \in Nat BY <1>1, <1>3, PaidType
<1>7. \A x \in S : g[x] \in Nat BY <1>1, <1>4, PaidType
<1>8. PICK F : SumsOf(F, f, S) /\ F[S] = TimeOf(c, u, p) BY <1>1, <1>3, TimeIsSum
<1>9. PICK G : SumsOf(G, g, S) /\ G[S] = TimeOf(d, u, p) BY <1>1, <1>4, TimeIsSum
<1>10. IsFiniteSet(S) BY <1>1, BoughtFinite
<1>11. ASSUME o \notin S PROVE F[S] = G[S]
    <2>1. \A x \in S : f[x] = g[x] BY <1>5, <1>11
    <2>2. S \in SUBSET S OBVIOUS
    <2> QED BY <1>8, <1>9, <1>10, <2>1, <2>2, SumsUnique
<1>12. ASSUME o \in S PROVE G[S] = F[S] + Period[p]
    <2>1. PICK k \in Nat : k = Period[p] BY PeriodAssumption
    <2>2. g[o] = f[o] + k
        <3>1. f[o] = c[o] * Period[p] /\ g[o] = d[o] * Period[p] BY <1>3, <1>4, <1>12 DEF Paid
        <3>2. PICK m \in Nat : m = c[o] OBVIOUS
        <3>3. f[o] = m * k /\ g[o] = (m + 1) * k BY <2>1, <3>1, <3>2
        <3>4. (m + 1) * k = m * k + k BY ONLY m \in Nat, k \in Nat
        <3> QED BY <3>3, <3>4
    <2>3. SumsOf(F, f, S) /\ SumsOf(G, g, S) BY <1>8, <1>9
    <2>5. PICK e \in S : e = o BY <1>12
    <2>6. g[e] = f[e] + k /\ \A x \in S : x # e => f[x] = g[x] BY <1>5, <2>2, <2>5
    <2>4. G[S] = F[S] + k BY ONLY <1>6, <1>7, <1>10, <2>3, <2>6, SumGrows
    <2> QED BY <2>1, <2>4
<1> QED BY <1>1, <1>8, <1>9, <1>11, <1>12

\* The time credited is a number in every typed state.
LEMMA CreditedType ==
    ASSUME TypeInv, NEW u, NEW p \in Plan
    PROVE  CreditedTime(u, p) \in Nat
<1>1. credits \in [Order -> Nat] BY DEF TypeInv, TypeOK
<1>2. PICK c \in [Order -> Nat] : c = credits /\ CreditedTime(u, p) = TimeOf(c, u, p)
    BY <1>1 DEF CreditedTime
<1> QED BY <1>2, TimeType

\* An order credited once more.
LEMMA CreditsStep ==
    ASSUME NEW c \in [Order -> Nat], NEW o \in Order, NEW d, d = [c EXCEPT ![o] = @ + 1]
    PROVE  /\ d \in [Order -> Nat]
           /\ d[o] = c[o] + 1
           /\ \A x \in Order : x # o => d[x] = c[x]
<1>1. c[o] + 1 \in Nat OBVIOUS
<1> QED BY <1>1

\* What a step credits: a period of one order, or nothing.
LEMMA CreditedStep ==
    ASSUME TypeInv, [Next]_vars, NEW u, NEW p \in Plan
    PROVE  \/ CreditedTime(u, p)' = CreditedTime(u, p)
           \/ \E t \in Tx, lost \in BOOLEAN :
                /\ Commit(t, lost) /\ write[t].pay = "paid"
                /\ CreditedTime(u, p)' =
                     CreditedTime(u, p) + (IF OrderOf(req[t]) \in Bought(u, p) THEN Period[p] ELSE 0)
<1>1. credits \in [Order -> Nat] BY DEF TypeInv, TypeOK
<1>2. PICK c \in [Order -> Nat] : c = credits /\ CreditedTime(u, p) = TimeOf(c, u, p)
    BY <1>1 DEF CreditedTime
<1>3. PICK d : d = credits' /\ CreditedTime(u, p)' = TimeOf(d, u, p) BY DEF CreditedTime
<1>5. CASE credits' = credits BY <1>2, <1>3, <1>5
<1>6. CASE credits' # credits
    <2>1. PICK t \in Tx : /\ write[t].pay = "paid"
                          /\ OrderOf(req[t]) \in Order
                          /\ credits' = [credits EXCEPT ![OrderOf(req[t])] = @ + 1]
                          /\ \E lost \in BOOLEAN : Commit(t, lost)
        BY <1>6, CreditSource
    <2>2. PICK o \in Order : o = OrderOf(req[t]) BY <2>1
    <2>3. d = [c EXCEPT ![o] = @ + 1] BY <1>2, <1>3, <2>1, <2>2
    <2>4. /\ o \in Bought(u, p) => TimeOf(d, u, p) = TimeOf(c, u, p) + Period[p]
          /\ o \notin Bought(u, p) => TimeOf(d, u, p) = TimeOf(c, u, p)
        <3>1. d \in [Order -> Nat] /\ d[o] = c[o] + 1 /\ \A x \in Order : x # o => d[x] = c[x]
            BY <2>3, CreditsStep
        <3> QED BY <3>1, TimeGrows
    <2>5. CreditedTime(u, p) \in Nat BY <1>2, TimeType
    <2> QED BY <1>2, <1>3, <2>1, <2>2, <2>4, <2>5
<1> QED BY <1>5, <1>6

\* An activation credits the period of its order.
LEMMA CreditedCommit ==
    ASSUME TypeInv, NEW t \in Tx, NEW lost \in BOOLEAN, Commit(t, lost),
           write[t].pay = "paid", NEW u, NEW p \in Plan
    PROVE  CreditedTime(u, p)' =
             CreditedTime(u, p) + (IF OrderOf(req[t]) \in Bought(u, p) THEN Period[p] ELSE 0)
<1>1. credits \in [Order -> Nat] BY DEF TypeInv, TypeOK
<1>2. PICK c \in [Order -> Nat] : c = credits /\ CreditedTime(u, p) = TimeOf(c, u, p)
    BY <1>1 DEF CreditedTime
<1>3. PICK d : d = credits' /\ CreditedTime(u, p)' = TimeOf(d, u, p) BY DEF CreditedTime
<1>5. PICK o \in Order : o = OrderOf(req[t])
    <2>1. req[t] \in Request /\ req[t].kind \in {"verify", "webhook"}
        BY DEF TypeInv, TypeOK, SlotOK
    <2> QED BY <2>1, RequestTypes
<1>6. WritePayment(req[t], write[t]) BY DEF Commit
<1>7. credits' = [credits EXCEPT ![o] = @ + 1] BY <1>5, <1>6 DEF WritePayment
<1>8. d = [c EXCEPT ![o] = @ + 1] BY <1>2, <1>3, <1>7
<1>9. /\ o \in Bought(u, p) => TimeOf(d, u, p) = TimeOf(c, u, p) + Period[p]
      /\ o \notin Bought(u, p) => TimeOf(d, u, p) = TimeOf(c, u, p)
    <2>1. d \in [Order -> Nat] /\ d[o] = c[o] + 1 /\ \A x \in Order : x # o => d[x] = c[x]
        BY <1>8, CreditsStep
    <2> QED BY <2>1, TimeGrows
<1>10. CreditedTime(u, p) \in Nat BY <1>2, TimeType
<1> QED BY <1>2, <1>3, <1>5, <1>9, <1>10

\* A commit that marks nothing paid credits nothing.
LEMMA CreditedOther ==
    ASSUME TypeInv, NEW t \in Tx, NEW lost \in BOOLEAN, Commit(t, lost), write[t].pay # "paid",
           NEW u, NEW p
    PROVE  credits' = credits /\ CreditedTime(u, p)' = CreditedTime(u, p)
<1>1. WritePayment(req[t], write[t]) BY DEF Commit
<1>2. credits \in [Order -> Nat] BY DEF TypeInv, TypeOK
<1>3. credits' = credits
    <2>1. \A x \in Order : credits'[x] = credits[x]
        BY <1>1, <1>2 DEF WritePayment
    <2>2. credits' \in [Order -> Nat] BY <1>1, <1>2, <2>1 DEF WritePayment
    <2> QED BY <1>2, <2>1, <2>2
<1> QED BY <1>3 DEF CreditedTime

\* The time credited never shrinks.
LEMMA CreditedMonotone ==
    ASSUME TypeInv, [Next]_vars, NEW u, NEW p \in Plan
    PROVE  CreditedTime(u, p)' \in Nat /\ CreditedTime(u, p)' >= CreditedTime(u, p)
<1>1. PICK k \in Nat : k = CreditedTime(u, p) BY CreditedType
<1>2. Period[p] \in Nat BY PeriodAssumption
<1>3. CreditedTime(u, p)' = k \/ CreditedTime(u, p)' = k + Period[p] \/ CreditedTime(u, p)' = k + 0
    BY <1>1, CreditedStep
<1> QED BY <1>1, <1>2, <1>3

\* Time goes on.
LEMMA TimeGoesOn ==
    ASSUME TypeInv, [Next]_vars
    PROVE  now \in Nat /\ now' \in {now, now + 1}
<1>1. now \in Nat BY DEF TypeInv, TypeOK
<1> QED BY ZenonT(60), <1>1
           DEF Next, vars, Begin, CreateOrder, VerifyBegin, VerifyAgain, WebhookCapture,
       WebhookFailure, WebhookNote, MisdeliveredBegin, UserBegin,
       Step, FetchConfirms, FetchRefuses, FetchUnreachable, MarkPaid,
       MisdeliveredReject, ReadStatus, RefuseCancel, ReadCancel, ReadDelete, Abort, Commit,
       Tick, WebhookDuplicate, Gateway, Authorize, Decline, Capture, Lapse

-----------------------------------------------------------------------------
(* No row runs longer than was paid for *)

\* What a request is about to write ends no later than the time its user has
\* been credited, and the period it credits itself; what it extends is a row
\* of that user and plan.
SlotTime(t) ==
    LET w == write[t]
        o == OrderOf(req[t])
    IN  /\ w.op \in {"insert", "extend", "replace"} =>
             /\ w.pay = "paid"
             /\ \A u \in User, p \in Plan :
                  u = Buyer[o] /\ p = PlanOf[o] => w.end =< now + CreditedTime(u, p) + Period[p]
        /\ w.op = "extend" => /\ w.cur \in DOMAIN subs
                              /\ subs[w.cur].user = Buyer[o] /\ subs[w.cur].plan = PlanOf[o]

TimeInv == NoUnpaidTime /\ \A t \in Tx : SlotTime(t)

\* At the start there are no rows.
LEMMA TimeInit == Init => TimeInv
BY DEF Init, TimeInv, NoUnpaidTime, SlotTime, NoWrite, PaymentWrite

\* What an activation prepares ends within what is paid.
LEMMA MarkPaidTime ==
    ASSUME TypeInv, TimeInv, NEW t \in Tx, MarkPaid(t)
    PROVE  SlotTime(t)'
<1> DEFINE o == OrderOf(req[t])
           u == Buyer[o]
           p == PlanOf[o]
           w == write'[t]
<1>1. PICK cur \in 0..Len(subs), lapsed \in SUBSET ActiveRows(u) :
        /\ ReadsActive(u, cur, lapsed)
        /\ w.op = IF Renews(cur, p) THEN "extend" ELSE IF cur # 0 THEN "replace" ELSE "insert"
        /\ w.cur = cur /\ w.pay = "paid" /\ w.end = PeriodStart(cur, p) + Period[p]
    <2>1. write \in [Tx -> WriteSet] BY DEF TypeInv, TypeOK
    <2> QED BY <2>1 DEF MarkPaid, Prepare
<1>2. UNCHANGED <<now, subs, req, credits>> BY DEF MarkPaid, db
<1>3. u \in User /\ p \in Plan
    <2>1. req[t] \in Request /\ req[t].kind \in {"verify", "webhook"}
        BY DEF TypeInv, TypeOK, SlotOK, MarkPaid
    <2>2. o \in Order BY <2>1, RequestTypes
    <2> QED BY <2>2, BuyerAssumption, PlanOfAssumption
<1>4. PICK credited \in Nat : credited = CreditedTime(u, p) BY <1>3, CreditedType
<1>5. CreditedTime(u, p)' = credited /\ OrderOf(req[t])' = o
    <2>1. PICK v, q : v = u /\ q = p OBVIOUS
    <2>2. CreditedTime(v, q)' = CreditedTime(v, q) BY <1>2 DEF CreditedTime
    <2> QED BY <1>2, <1>4, <2>1, <2>2 DEF OrderOf
<1>6. now \in Nat /\ Period[p] \in Nat BY <1>3, PeriodAssumption DEF TypeInv, TypeOK
<1>7. ASSUME Renews(cur, p)
      PROVE  cur \in DOMAIN subs /\ subs[cur].user = u /\ subs[cur].plan = p
    BY <1>1, <1>7 DEF Renews, ReadsActive, LiveRows, ActiveRows
<1>8. PeriodStart(cur, p) \in Nat /\ PeriodStart(cur, p) =< now + credited
    <2>1. CASE Renews(cur, p)
        <3>1. subs[cur].end =< now + credited BY <1>4, <1>7, <2>1 DEF TimeInv, NoUnpaidTime
        <3>2. subs[cur] \in SubRow BY <1>7, <2>1 DEF TypeInv, TypeOK
        <3>3. subs[cur].end \in Nat BY <3>2 DEF SubRow
        <3> QED BY <2>1, <3>1, <3>3 DEF PeriodStart
    <2>2. CASE ~Renews(cur, p) BY <1>6, <2>2 DEF PeriodStart
    <2> QED BY <2>1, <2>2
<1>9. w.end =< now + credited + Period[p]
    <2>1. PICK start \in Nat, k \in Nat : start = PeriodStart(cur, p) /\ k = Period[p]
        BY <1>6, <1>8
    <2>2. start + k =< now + credited + k BY <1>6, <1>8, <2>1
    <2> QED BY <1>1, <2>1, <2>2
<1>10. w.op = "extend" => cur \in DOMAIN subs /\ subs[cur].user = u /\ subs[cur].plan = p
    BY <1>1, <1>7
<1> HIDE DEF w
<1> QED BY <1>1, <1>2, <1>5, <1>9, <1>10 DEF SlotTime, w

\* Rows keep their user and plan through a step.
LEMMA RowsKeep ==
    ASSUME TypeInv, [Next]_vars, NEW i \in DOMAIN subs
    PROVE  /\ i \in DOMAIN subs'
           /\ subs'[i].user = subs[i].user /\ subs'[i].plan = subs[i].plan
<1>1. ASSUME NEW t \in Tx, NEW lost \in BOOLEAN, Commit(t, lost)
      PROVE  i \in DOMAIN subs' /\ subs'[i].user = subs[i].user /\ subs'[i].plan = subs[i].plan
    <2>1. i \in DOMAIN subs' /\ subs'[i] = Patched(write[t], i) BY <1>1, CommittedRows
    <2> QED BY <2>1 DEF Patched
<1>2. CASE \A t \in Tx, lost \in BOOLEAN : ~Commit(t, lost) BY <1>2, CommitWrites
<1> QED BY <1>1, <1>2

\* When no row lasts too long after a step.
LEMMA WithinTime ==
    ASSUME \A i \in DOMAIN subs' : \E u, p :
             /\ subs'[i].user = u /\ subs'[i].plan = p
             /\ subs'[i].end =< now' + CreditedTime(u, p)'
    PROVE  NoUnpaidTime'
<1>1. ASSUME NEW i \in DOMAIN subs'
      PROVE  subs'[i].end =< now' + TimeOf(credits', subs'[i].user, subs'[i].plan)
    <2>1. PICK u, p : /\ subs'[i].user = u /\ subs'[i].plan = p
                      /\ subs'[i].end =< now' + CreditedTime(u, p)'
        OBVIOUS
    <2>2. CreditedTime(u, p)' = TimeOf(credits', u, p) BY DEF CreditedTime
    <2> QED BY <2>1, <2>2
<1> QED BY <1>1 DEF NoUnpaidTime, CreditedTime

\* A commit leaves every row within what is paid.
LEMMA TimeCommit ==
    ASSUME TypeInv, TimeInv, NEW t \in Tx, NEW lost \in BOOLEAN, Commit(t, lost)
    PROVE  NoUnpaidTime'
<1> DEFINE w == write[t]
           o == OrderOf(req[t])
<1>1. now' = now /\ now \in Nat BY DEF Commit, TypeInv, TypeOK
<1>2. [Next]_vars BY DEF Next, Step
<1>3. ASSUME NEW u \in User, NEW p \in Plan, w.op \in {"insert", "extend", "replace"},
             u = Buyer[o], p = PlanOf[o]
      PROVE  w.end =< now + CreditedTime(u, p)'
    <2>1. PICK credited \in Nat : credited = CreditedTime(u, p) BY CreditedType
    <2>2. PICK k \in Nat : k = Period[p] BY PeriodAssumption
    <2>3. w.pay = "paid" /\ w.end =< now + credited + k
        BY <1>3, <2>1, <2>2 DEF TimeInv, SlotTime
    <2>4. o \in Order
        <3>1. req[t] \in Request /\ req[t].kind \in {"verify", "webhook"}
            BY <2>3 DEF TypeInv, TypeOK, SlotOK
        <3> QED BY <3>1, RequestTypes
    <2>5. CreditedTime(u, p)' = credited + k
        BY <1>3, <2>1, <2>2, <2>3, <2>4, CreditedCommit DEF Bought
    <2>6. w.end \in Nat BY DEF TypeInv, TypeOK, WriteSet
    <2> QED BY <1>1, <2>3, <2>5, <2>6
<1>4. ASSUME NEW i \in DOMAIN subs'
      PROVE  \E u, p : /\ subs'[i].user = u /\ subs'[i].plan = p
                       /\ subs'[i].end =< now + CreditedTime(u, p)'
    <2>1. CASE i \in DOMAIN subs
        <3>1. subs'[i] = Patched(w, i) BY <2>1, CommittedRows
        <3>2. PICK u, p : u = subs[i].user /\ p = subs[i].plan OBVIOUS
        <3>3. u = subs'[i].user /\ p = subs'[i].plan BY <3>1, <3>2 DEF Patched
        <3>4. u \in User /\ p \in Plan /\ subs[i].end \in Nat
            <4>1. subs[i] \in SubRow BY <2>1 DEF TypeInv, TypeOK
            <4> QED BY <3>2, <4>1 DEF SubRow
        <3>5. subs'[i].end =< now + CreditedTime(u, p)'
            <4>1. CASE w.op = "extend" /\ i = w.cur
                <5>1. u = Buyer[o] /\ p = PlanOf[o] BY <3>2, <4>1 DEF TimeInv, SlotTime
                <5>2. subs'[i].end = w.end BY <3>1, <4>1 DEF Patched
                <5> QED BY <1>3, <3>4, <4>1, <5>1, <5>2
            <4>2. CASE ~(w.op = "extend" /\ i = w.cur)
                <5>1. subs'[i].end = subs[i].end BY <3>1, <4>2 DEF Patched
                <5>2. PICK credited \in Nat : credited = CreditedTime(u, p) BY <3>4, CreditedType
                <5>3. subs[i].end =< now + credited
                    BY <2>1, <3>2, <5>2 DEF TimeInv, NoUnpaidTime
                <5>4. CreditedTime(u, p)' \in Nat /\ CreditedTime(u, p)' >= credited
                    BY <1>2, <3>4, <5>2, CreditedMonotone
                <5> QED BY <1>1, <3>4, <5>1, <5>3, <5>4
            <4> QED BY <4>1, <4>2
        <3> QED BY <3>3, <3>5
    <2>2. CASE i \notin DOMAIN subs
        <3>1. w.op \in {"insert", "replace"} /\ subs'[i] = NewRow(req[t], w)
            BY <2>2, CommittedRows
        <3>2. PICK u, p : u = Buyer[o] /\ p = PlanOf[o] OBVIOUS
        <3>3. w.pay = "paid" BY <3>1 DEF TimeInv, SlotTime
        <3>4. req[t] \in Request /\ req[t].kind \in {"verify", "webhook"}
            BY <3>3 DEF TypeInv, TypeOK, SlotOK
        <3>5. subs'[i].user = u /\ subs'[i].plan = p /\ subs'[i].end = w.end
            BY <3>1, <3>2, <3>4 DEF NewRow, UserOf
        <3>6. u \in User /\ p \in Plan
            <4>1. o \in Order BY <3>4, RequestTypes
            <4> QED BY <3>2, <4>1, BuyerAssumption, PlanOfAssumption
        <3>7. w.end =< now + CreditedTime(u, p)' BY <1>3, <3>1, <3>2, <3>6
        <3> QED BY <3>5, <3>7
    <2> QED BY <2>1, <2>2
<1> QED BY <1>1, <1>4, WithinTime

\* A request that is not moved keeps its part, whatever else happens.
LEMMA SlotTimeStays ==
    ASSUME TypeInv, TimeInv, [Next]_vars, NEW s \in Tx, UNCHANGED <<write[s], req[s]>>
    PROVE  SlotTime(s)'
<1> DEFINE w == write[s]
           o == OrderOf(req[s])
<1>1. SlotTime(s) BY DEF TimeInv
<1>2. now \in Nat /\ now' \in {now, now + 1} /\ w.end \in Nat
    BY TimeGoesOn DEF TypeInv, TypeOK, WriteSet
<1>3. ASSUME NEW u \in User, NEW p \in Plan, w.op \in {"insert", "extend", "replace"},
             u = Buyer[o], p = PlanOf[o]
      PROVE  w.end =< now' + CreditedTime(u, p)' + Period[p]
    <2>1. PICK credited \in Nat : credited = CreditedTime(u, p) BY CreditedType
    <2>2. PICK k \in Nat : k = Period[p] BY PeriodAssumption
    <2>3. w.end =< now + credited + k BY <1>1, <1>3, <2>1, <2>2 DEF SlotTime
    <2>4. PICK more \in Nat : more = CreditedTime(u, p)' /\ more >= credited
        BY <2>1, CreditedMonotone
    <2> QED BY <1>2, <2>2, <2>3, <2>4
<1>4. w.op = "extend" => /\ w.cur \in DOMAIN subs'
                         /\ subs'[w.cur].user = Buyer[o] /\ subs'[w.cur].plan = PlanOf[o]
    BY <1>1, RowsKeep DEF SlotTime
<1>5. write'[s] = w /\ OrderOf(req[s])' = o BY DEF OrderOf
<1>6. w.op \in {"insert", "extend", "replace"} => w.pay = "paid" BY <1>1 DEF SlotTime
<1> HIDE DEF w, o
<1> QED BY <1>3, <1>4, <1>5, <1>6 DEF SlotTime

\* Neither does one that prepares no row.
LEMMA SlotTimeNone ==
    ASSUME NEW s \in Tx, write'[s].op \notin {"insert", "extend", "replace"}
    PROVE  SlotTime(s)'
BY DEF SlotTime

\* Slots keep their part.
LEMMA TimeSlots ==
    ASSUME TypeInv, TimeInv, [Next]_vars, NEW s \in Tx
    PROVE  SlotTime(s)'
<1>3. CASE Gateway \/ Tick \/ (\E e \in Event : WebhookDuplicate(e)) \/ UNCHANGED vars
    <2>1. UNCHANGED slots
        BY <1>3 DEF Gateway, Authorize, Decline, Capture, Lapse, Tick, WebhookDuplicate, vars
    <2>2. UNCHANGED <<write[s], req[s]>> BY <2>1 DEF slots
    <2> QED BY <2>2, SlotTimeStays
<1>4. ASSUME NEW t \in Tx, Begin(t) PROVE SlotTime(s)'
    <2>1. pc[t] = "idle" /\ \E r : req' = [req EXCEPT ![t] = r]
        BY <1>4 DEF Begin, CreateOrder, VerifyBegin, VerifyAgain, WebhookCapture,
                    WebhookFailure, WebhookNote, MisdeliveredBegin, UserBegin, Start
    <2>2. write' = write \/ \E a \in {"created", "failed"} : Prepare(t, PaymentWrite(a))
        BY <1>4 DEF Begin, CreateOrder, VerifyBegin, VerifyAgain, WebhookCapture,
                    WebhookFailure, WebhookNote, MisdeliveredBegin, UserBegin
    <2>3. CASE s = t
        <3>1. write[s].op = "none" BY <2>1, <2>3 DEF TypeInv, SlotOK, NoWrite, PaymentWrite
        <3>2. write'[s].op = "none"
            BY <2>2, <2>3, <3>1 DEF Prepare, PaymentWrite, TypeInv, TypeOK
        <3> QED BY <3>2, SlotTimeNone
    <2>4. CASE s # t
        <3>1. UNCHANGED <<write[s], req[s]>> BY <2>1, <2>2, <2>4 DEF Prepare, TypeInv, TypeOK
        <3> QED BY <3>1, SlotTimeStays
    <2> QED BY <2>3, <2>4
<1>5. ASSUME NEW t \in Tx, Step(t) PROVE SlotTime(s)'
    <2>1. CASE s # t
        <3>1. Finish(t) \/ (req' = req /\ (write' = write \/ \E w : Prepare(t, w)))
            BY <1>5 DEF Step, FetchConfirms, FetchRefuses, FetchUnreachable, MarkPaid,
               MisdeliveredReject, ReadStatus, RefuseCancel, ReadCancel, ReadDelete, Commit, Abort
        <3>2. UNCHANGED <<write[s], req[s]>>
            BY <2>1, <3>1 DEF Finish, Prepare, TypeInv, TypeOK
        <3> QED BY <3>2, SlotTimeStays
    <2>2. CASE s = t /\ MarkPaid(t) BY <2>2, MarkPaidTime
    <2>3. CASE s = t /\ (FetchConfirms(t) \/ FetchUnreachable(t))
        <3>1. UNCHANGED <<write[s], req[s]>> BY <2>3 DEF FetchConfirms, FetchUnreachable
        <3> QED BY <3>1, SlotTimeStays
    <2>4. CASE s = t /\ (ReadStatus(t) \/ ReadCancel(t) \/ ReadDelete(t))
        <3>1. ASSUME NEW q, NEW op, NEW i, NEW rows, op \in {"none", "flag", "close"},
                     Prepare(t, UserWrite(q, op, i, rows))
              PROVE  write'[s].op \in {"none", "flag", "close"}
            BY <2>4, <3>1 DEF Prepare, UserWrite, TypeInv, TypeOK
        <3>2. write'[s].op \in {"none", "flag", "close"}
            <4>1. CASE ReadStatus(t)
                <5>1. PICK cur, lapsed :
                        Prepare(t, UserWrite(IF req[t].kind = "entitlements" THEN "keep"
                                             ELSE PlanWrite(load[t], IF cur # 0 THEN "pro" ELSE "free"),
                                             "none", 0, lapsed))
                    BY <4>1 DEF ReadStatus
                <5> QED BY <3>1, <5>1
            <4>2. CASE ReadCancel(t)
                <5>1. PICK cur : Prepare(t, UserWrite(PlanWrite(load[t], "pro"),
                                        IF subs[cur].cape THEN "none" ELSE "flag", cur, {}))
                    BY <4>2 DEF ReadCancel
                <5> QED BY <3>1, <5>1
            <4>3. CASE ReadDelete(t)
                <5>1. Prepare(t, UserWrite(PlanWrite(load[t], "free"), "close", 0,
                                           ActiveRows(req[t].user)))
                    BY <4>3 DEF ReadDelete
                <5> QED BY <3>1, <5>1
            <4> QED BY <2>4, <4>1, <4>2, <4>3
        <3> QED BY <3>2, SlotTimeNone
    <2>5. CASE s = t /\ Finish(t)
        <3>1. write'[s].op = "none" BY <2>5 DEF Finish, NoWrite, PaymentWrite, TypeInv, TypeOK
        <3> QED BY <3>1, SlotTimeNone
    <2> QED BY <1>5, <2>1, <2>2, <2>3, <2>4, <2>5
            DEF Step, FetchRefuses, MisdeliveredReject, RefuseCancel, Abort, Commit
<1> QED BY <1>3, <1>4, <1>5 DEF Next

\* TimeInv is inductive relative to TypeInv.
LEMMA TimeStep == TypeInv /\ TimeInv /\ [Next]_vars => TimeInv'
<1> SUFFICES ASSUME TypeInv, TimeInv, [Next]_vars PROVE TimeInv' OBVIOUS
<1>1. CASE \E t \in Tx, lost \in BOOLEAN : Commit(t, lost)
    BY <1>1, TimeCommit, TimeSlots DEF TimeInv
<1>2. CASE \A t \in Tx, lost \in BOOLEAN : ~Commit(t, lost)
    <2>1. UNCHANGED <<subs, credits>> BY <1>2, CommitWrites
    <2>2. ASSUME NEW i \in DOMAIN subs'
          PROVE  \E u, p : /\ subs'[i].user = u /\ subs'[i].plan = p
                           /\ subs'[i].end =< now' + CreditedTime(u, p)'
        <3>1. PICK u, p : u = subs[i].user /\ p = subs[i].plan OBVIOUS
        <3>2. u \in User /\ p \in Plan /\ subs[i].end \in Nat
            <4>1. subs[i] \in SubRow BY <2>1, <2>2 DEF TypeInv, TypeOK
            <4> QED BY <3>1, <4>1 DEF SubRow
        <3>3. PICK credited \in Nat : credited = CreditedTime(u, p) BY <3>2, CreditedType
        <3>4. subs[i].end =< now + credited BY <2>1, <2>2, <3>1, <3>3 DEF TimeInv, NoUnpaidTime
        <3>5. subs'[i].end =< now' + credited BY <2>1, <3>2, <3>4, TimeGoesOn
        <3>6. CreditedTime(u, p)' = credited BY <2>1, <3>3 DEF CreditedTime
        <3> QED BY <2>1, <3>1, <3>5, <3>6
    <2>3. NoUnpaidTime' BY <2>2, WithinTime
    <2> QED BY <2>3, TimeSlots DEF TimeInv
<1> QED BY <1>1, <1>2

\* Whatever requests overlap, and even when two of them activate one order, no
\* subscription row lasts longer than the periods credited to its user for its
\* plan.
THEOREM NoTimeUnpaid == Spec => []NoUnpaidTime
<1>1. TimeInv => NoUnpaidTime BY DEF TimeInv
<1> QED BY <1>1, InitType, NextType, TimeInit, TimeStep, PTL DEF Spec

-----------------------------------------------------------------------------
(* One request at a time: no time that was paid for is lost *)

\* The user has paid for no plan but p.
OnlyPlan(u, p) == \A o \in Order : Buyer[o] = u /\ credits[o] > 0 => PlanOf[o] = p

\* Every row was paid for.
RowsArePaid ==
    \A i \in DOMAIN subs : \E o \in Order :
        credits[o] > 0 /\ Buyer[o] = subs[i].user /\ PlanOf[o] = subs[i].plan

\* The row that lasts the time bought is active until it ends: it is the row
\* the next payment extends.
Holds(i, u, p) ==
    /\ subs[i].user = u
    /\ subs[i].end >= CreditedTime(u, p)
    /\ subs[i].status = "active" \/ subs[i].end =< now

TimeKept ==
    \A u \in User \ deleted, p \in Plan :
        OnlyPlan(u, p) /\ CreditedTime(u, p) > 0 => \E i \in DOMAIN subs : Holds(i, u, p)

\* What an activation writes lasts the time bought and the period it credits;
\* what it expires has ended, and what it replaces or extends is its buyer's.
SlotKept(t) ==
    LET w == write[t]
        o == OrderOf(req[t])
    IN  /\ w.pay = "paid" <=> w.op \in {"insert", "extend", "replace"}
        /\ w.pay = "paid" => \A u \in User \ deleted, p \in Plan :
             u = Buyer[o] /\ p = PlanOf[o] /\ OnlyPlan(u, p)
               => w.end >= CreditedTime(u, p) + Period[p]
        /\ w.op \in {"extend", "replace"} => w.cur \in DOMAIN subs /\ subs[w.cur].user = Buyer[o]
        /\ w.op = "extend" => w.rows = {} /\ subs[w.cur].status = "active"
        /\ w.op # "close" => \A i \in w.rows : i \in DOMAIN subs /\ subs[i].end =< now
        /\ w.op = "close" => \A i \in w.rows : i \in DOMAIN subs /\ subs[i].user = req[t].user

KeepInv == RowsArePaid /\ TimeKept /\ \A t \in Tx : SlotKept(t)

\* At the start nothing is paid.
LEMMA KeepInit == TypeInv /\ Init => KeepInv
<1> SUFFICES ASSUME TypeInv, Init PROVE KeepInv OBVIOUS
<1>1. RowsArePaid BY DEF Init, RowsArePaid
<1>2. \A t \in Tx : SlotKept(t) BY DEF Init, SlotKept, NoWrite, PaymentWrite
<1>3. ASSUME NEW u \in User, NEW p \in Plan PROVE CreditedTime(u, p) = 0
    <2>1. PICK S : S = Bought(u, p) OBVIOUS
    <2>2. S \subseteq Order /\ IsFiniteSet(S) BY <2>1, BoughtFinite DEF Bought
    <2>3. credits \in [Order -> Nat] /\ \A o \in Order : credits[o] = 0 BY DEF Init
    <2>4. PICK f : f = Paid(credits, p, S) OBVIOUS
    <2>5. \A x \in S : f[x] = 0
        <3>1. \A x \in S : f[x] = 0 * Period[p] BY <2>2, <2>3, <2>4 DEF Paid
        <3>2. PICK k \in Nat : k = Period[p] BY PeriodAssumption
        <3> QED BY <3>1, <3>2
    <2>6. PICK F : SumsOf(F, f, S) /\ F[S] = TimeOf(credits, u, p) BY <2>1, <2>3, <2>4, TimeIsSum
    <2>7. F[S] = 0 BY <2>2, <2>5, <2>6, SumOfZeros
    <2> QED BY <2>6, <2>7 DEF CreditedTime
<1>4. TimeKept BY <1>3 DEF TimeKept
<1> QED BY <1>1, <1>2, <1>4 DEF KeepInv

\* What a request that reads the subscriptions prepares.
LEMMA MarkPaidKeeps ==
    ASSUME TypeInv, KeepInv, NEW t \in Tx, MarkPaid(t)
    PROVE  SlotKept(t)'
<1> DEFINE o == OrderOf(req[t])
           w == write'[t]
<1>1. PICK u, p : u = Buyer[o] /\ p = PlanOf[o] OBVIOUS
<1>2. PICK cur \in 0..Len(subs), lapsed \in SUBSET ActiveRows(u) :
        /\ ReadsActive(u, cur, lapsed)
        /\ w.op = IF Renews(cur, p) THEN "extend" ELSE IF cur # 0 THEN "replace" ELSE "insert"
        /\ w.cur = cur /\ w.rows = lapsed /\ w.pay = "paid"
        /\ w.end = PeriodStart(cur, p) + Period[p]
    <2>1. write \in [Tx -> WriteSet] BY DEF TypeInv, TypeOK
    <2> QED BY <1>1, <2>1 DEF MarkPaid, Prepare
<1>3. UNCHANGED <<now, subs, req, credits, deleted>> BY DEF MarkPaid, db
<1>4. o \in Order /\ u \in User /\ p \in Plan
    <2>1. req[t] \in Request /\ req[t].kind \in {"verify", "webhook"}
        BY DEF TypeInv, TypeOK, SlotOK, MarkPaid
    <2>2. o \in Order BY <2>1, RequestTypes
    <2> QED BY <1>1, <2>2, BuyerAssumption, PlanOfAssumption
<1>5. subs \in Seq(SubRow) /\ now \in Nat BY DEF TypeInv, TypeOK
<1>6. \A i \in DOMAIN subs : subs[i].end \in Nat
    <2>1. \A i \in DOMAIN subs : subs[i] \in SubRow BY <1>5
    <2> QED BY <2>1 DEF SubRow
<1>7. cur # 0 => cur \in LiveRows(u) /\ lapsed = {}
    BY <1>2 DEF ReadsActive
<1>8. lapsed # {} => cur = 0 /\ LiveRows(u) = {} BY <1>2 DEF ReadsActive
<1>9. \A i \in lapsed : i \in DOMAIN subs /\ subs[i].end =< now
    BY SMTT(30), <1>2, <1>5, <1>6, <1>8 DEF LiveRows, ActiveRows
<1>10. PICK k \in Nat : k = Period[p] BY <1>4, PeriodAssumption
<1>11. PICK credited \in Nat : credited = CreditedTime(u, p) BY <1>4, CreditedType
<1>12. ASSUME u \notin deleted, OnlyPlan(u, p) PROVE w.end >= credited + k
    <2>1. PeriodStart(cur, p) \in Nat /\ PeriodStart(cur, p) >= credited
        <3>1. CASE credited = 0
            BY <1>5, <1>6, <1>7, <3>1 DEF PeriodStart, Renews, LiveRows, ActiveRows
        <3>2. CASE credited # 0
            <4>1. PICK i \in DOMAIN subs : Holds(i, u, p)
                BY <1>4, <1>11, <1>12, <3>2 DEF KeepInv, TimeKept
            <4>2. /\ subs[i].user = u /\ subs[i].end >= credited /\ subs[i].end \in Nat
                  /\ i \in LiveRows(u) \/ subs[i].end =< now
                BY <1>5, <1>6, <1>11, <4>1 DEF Holds, LiveRows, ActiveRows
            <4>3. CASE cur = 0
                <5>1. LiveRows(u) = {}
                    <6>1. 0 \notin DOMAIN subs BY <1>5
                    <6> QED BY <1>2, <4>3, <6>1 DEF ReadsActive, LiveRows, ActiveRows
                <5>2. PeriodStart(cur, p) = now BY <4>3 DEF PeriodStart, Renews
                <5> QED BY <1>5, <4>2, <5>1, <5>2
            <4>4. CASE cur # 0
                <5>1. cur \in DOMAIN subs /\ subs[cur].user = u /\ subs[cur].end > now
                    BY <1>7, <4>4 DEF LiveRows, ActiveRows
                <5>2. subs[cur].plan = p
                    BY <1>12, <5>1 DEF KeepInv, RowsArePaid, OnlyPlan
                <5>3. PeriodStart(cur, p) = subs[cur].end
                    BY <4>4, <5>2 DEF PeriodStart, Renews
                <5>4. i \in LiveRows(u) => subs[i].end =< subs[cur].end
                    BY <1>2, <4>4 DEF ReadsActive
                <5> QED BY <1>5, <1>6, <4>2, <5>1, <5>3, <5>4
            <4> QED BY <4>3, <4>4
        <3> QED BY <3>1, <3>2
    <2>2. PICK start \in Nat : start = PeriodStart(cur, p) BY <2>1
    <2> QED BY <1>2, <1>10, <2>1, <2>2
<1>13. write'[t] = w /\ OrderOf(req[t])' = o BY <1>3 DEF OrderOf
<1>14. OnlyPlan(u, p)' <=> OnlyPlan(u, p) BY <1>3 DEF OnlyPlan
<1>15. CreditedTime(u, p)' = credited BY <1>3, <1>11 DEF CreditedTime
<1>16. ASSUME NEW v \in User \ deleted', NEW q \in Plan, v = Buyer[o], q = PlanOf[o], OnlyPlan(v, q)'
       PROVE  w.end >= CreditedTime(v, q)' + Period[q]
    <2>1. v = u /\ q = p BY <1>1, <1>16
    <2>2. OnlyPlan(u, p) BY <1>14, <1>16, <2>1 DEF OnlyPlan
    <2>3. CreditedTime(v, q)' = credited BY <1>15, <2>1 DEF CreditedTime
    <2> QED BY <1>3, <1>10, <1>12, <1>16, <2>1, <2>2, <2>3
<1>17. w.op \in {"extend", "replace"} => /\ cur \in DOMAIN subs /\ subs[cur].user = u
                                          /\ subs[cur].status = "active" /\ lapsed = {}
    BY <1>2, <1>7 DEF Renews, LiveRows, ActiveRows
<1>18. w.op \in {"insert", "extend", "replace"} BY <1>2
<1>19. w.rows = lapsed /\ w.cur = cur /\ w.pay = "paid" BY <1>2
<1> HIDE DEF w, o
<1> QED BY <1>1, <1>3, <1>9, <1>13, <1>16, <1>17, <1>18, <1>19 DEF SlotKept

\* ... and one that reads without paying.
LEMMA ReadKeeps ==
    ASSUME TypeInv, KeepInv, NEW t \in Tx, ReadStatus(t) \/ ReadCancel(t) \/ ReadDelete(t)
    PROVE  SlotKept(t)'
<1> DEFINE w == write'[t]
<1>1. UNCHANGED <<now, subs, req>> BY DEF ReadStatus, ReadCancel, ReadDelete, db
<1>2. ASSUME NEW q, NEW op, NEW i, NEW rows, Prepare(t, UserWrite(q, op, i, rows))
      PROVE  w.pay = "keep" /\ w.op = op /\ w.rows = rows
    BY <1>2 DEF Prepare, UserWrite, TypeInv, TypeOK
<1>3. CASE ReadStatus(t)
    <2>1. PICK cur \in 0..Len(subs), lapsed \in SUBSET ActiveRows(req[t].user) :
            /\ ReadsActive(req[t].user, cur, lapsed)
            /\ Prepare(t, UserWrite(IF req[t].kind = "entitlements" THEN "keep"
                                    ELSE PlanWrite(load[t], IF cur # 0 THEN "pro" ELSE "free"),
                                    "none", 0, lapsed))
        BY <1>3 DEF ReadStatus
    <2>2. w.pay = "keep" /\ w.op = "none" /\ w.rows = lapsed BY <1>2, <2>1
    <2>3. \A i \in lapsed : i \in DOMAIN subs /\ subs[i].end =< now
        <3>1. subs \in Seq(SubRow) /\ now \in Nat BY DEF TypeInv, TypeOK
        <3>2. \A i \in DOMAIN subs : subs[i].end \in Nat
            <4>1. \A i \in DOMAIN subs : subs[i] \in SubRow BY <3>1
            <4> QED BY <4>1 DEF SubRow
        <3>3. lapsed # {} => LiveRows(req[t].user) = {} BY <2>1 DEF ReadsActive
        <3>4. lapsed \subseteq {i \in DOMAIN subs : subs[i].end =< now}
            <4>1. ASSUME NEW i \in lapsed PROVE i \in DOMAIN subs /\ ~(subs[i].end > now)
                BY <2>1, <3>3, <4>1 DEF LiveRows, ActiveRows
            <4> QED BY <3>1, <3>2, <4>1
        <3> QED BY <3>4
    <2> HIDE DEF w
    <2> QED BY <1>1, <2>2, <2>3 DEF SlotKept, w
<1>4. CASE ReadCancel(t)
    <2>1. PICK cur : Prepare(t, UserWrite(PlanWrite(load[t], "pro"),
                                IF subs[cur].cape THEN "none" ELSE "flag", cur, {}))
        BY <1>4 DEF ReadCancel
    <2>2. w.pay = "keep" /\ w.op \in {"none", "flag"} /\ w.rows = {} BY <1>2, <2>1
    <2> HIDE DEF w
    <2> QED BY <2>2 DEF SlotKept, w
<1>5. CASE ReadDelete(t)
    <2>1. PICK u : u = req[t].user OBVIOUS
    <2>2. Prepare(t, UserWrite(PlanWrite(load[t], "free"), "close", 0, ActiveRows(u)))
        BY <1>5, <2>1 DEF ReadDelete
    <2>3. w.pay = "keep" /\ w.op = "close" /\ w.rows = ActiveRows(u) BY <1>2, <2>2
    <2>4. req'[t].user = u BY <1>1, <2>1
    <2>5. \A i \in ActiveRows(u) : i \in DOMAIN subs' /\ subs'[i].user = u
        BY <1>1 DEF ActiveRows
    <2> HIDE DEF w
    <2> QED BY <2>3, <2>4, <2>5 DEF SlotKept, w
<1> QED BY <1>3, <1>4, <1>5

\* A request that has prepared no row, or failed, or ended has nothing to keep.
LEMMA NothingKept ==
    ASSUME NEW t \in Tx, write'[t].pay # "paid", write'[t].op = "none", write'[t].rows = {}
    PROVE  SlotKept(t)'
BY DEF SlotKept

\* Nothing else than a commit disturbs a prepared write.
LEMMA SlotKeptStays ==
    ASSUME TypeInv, NEW t \in Tx, SlotKept(t), now' \in {now, now + 1},
           UNCHANGED <<subs, credits, deleted, write[t], req[t]>>
    PROVE  SlotKept(t)'
<1> DEFINE w == write[t]
           o == OrderOf(req[t])
<1>1. write'[t] = w /\ OrderOf(req[t])' = o BY DEF OrderOf
<1>2. ASSUME NEW u \in User \ deleted', NEW p \in Plan, w.pay = "paid",
             u = Buyer[o], p = PlanOf[o], OnlyPlan(u, p)'
      PROVE  w.end >= CreditedTime(u, p)' + Period[p]
    <2>1. OnlyPlan(u, p) BY <1>2 DEF OnlyPlan
    <2>2. CreditedTime(u, p)' = CreditedTime(u, p) BY DEF CreditedTime
    <2> QED BY <1>2, <2>1, <2>2 DEF SlotKept
<1>3. w.op # "close" => \A i \in w.rows : i \in DOMAIN subs /\ subs[i].end =< now'
    <2>1. subs \in Seq(SubRow) /\ now \in Nat BY DEF TypeInv, TypeOK
    <2>2. \A i \in DOMAIN subs : subs[i].end \in Nat
        <3>1. \A i \in DOMAIN subs : subs[i] \in SubRow BY <2>1
        <3> QED BY <3>1 DEF SubRow
    <2> QED BY <2>1, <2>2 DEF SlotKept
<1>4. w.op = "close" => \A i \in w.rows : i \in DOMAIN subs' /\ subs'[i].user = req'[t].user
    BY DEF SlotKept
<1>5. /\ w.pay = "paid" <=> w.op \in {"insert", "extend", "replace"}
      /\ w.op \in {"extend", "replace"} => w.cur \in DOMAIN subs /\ subs[w.cur].user = Buyer[o]
      /\ w.op = "extend" => w.rows = {} /\ subs[w.cur].status = "active"
    BY DEF SlotKept
<1> HIDE DEF w, o
<1> QED BY <1>1, <1>2, <1>3, <1>4, <1>5 DEF SlotKept

\* Rows that hold what was bought go on to do so, unless the commit credits
\* their user another period.
LEMMA HoldsStays ==
    ASSUME TypeInv, KeepInv, NEW t \in Tx, NEW lost \in BOOLEAN, Commit(t, lost),
           NEW u \in User \ deleted', NEW p \in Plan, CreditedTime(u, p)' = CreditedTime(u, p),
           write[t].pay = "paid" => u # Buyer[OrderOf(req[t])],
           NEW i \in DOMAIN subs, Holds(i, u, p)
    PROVE  i \in DOMAIN subs' /\ Holds(i, u, p)'
<1> DEFINE w == write[t]
<1>1. SlotKept(t) BY DEF KeepInv
<1>2. i \in DOMAIN subs' /\ subs'[i] = Patched(w, i) BY CommittedRows
<1>3. now' = now BY DEF Commit
<1>4. subs[i].user = u BY DEF Holds
<1>5. ~(w.op \in {"extend", "replace"} /\ i = w.cur) BY <1>1, <1>4 DEF SlotKept
<1>6. subs'[i].end = subs[i].end /\ subs'[i].user = u BY <1>2, <1>4, <1>5 DEF Patched
<1>7. subs'[i].status = "active" \/ subs'[i].end =< now
    <2>1. CASE i \notin w.rows
        <3>1. subs'[i].status = subs[i].status BY <1>2, <1>5, <2>1 DEF Patched
        <3> QED BY <1>6, <3>1 DEF Holds
    <2>2. CASE i \in w.rows /\ w.op # "close" BY <1>1, <1>6, <2>2 DEF SlotKept
    <2>3. CASE i \in w.rows /\ w.op = "close"
        <3>1. req[t].user = u BY <1>1, <1>4, <2>3 DEF SlotKept
        <3>2. u \in deleted' BY <2>3, <3>1 DEF Commit
        <3> QED BY <3>2
    <2> QED BY <2>1, <2>2, <2>3
<1>8. subs[i].end >= CreditedTime(u, p)' BY DEF Holds
<1> QED BY <1>2, <1>3, <1>6, <1>7, <1>8 DEF Holds

\* The row an activation writes lasts the time bought, and the time it credits.
LEMMA HoldsPaid ==
    ASSUME TypeInv, KeepInv, NEW t \in Tx, NEW lost \in BOOLEAN, Commit(t, lost),
           write[t].pay = "paid", NEW u \in User \ deleted, NEW p \in Plan,
           u = Buyer[OrderOf(req[t])], p = PlanOf[OrderOf(req[t])], OnlyPlan(u, p)
    PROVE  \E i \in DOMAIN subs' : Holds(i, u, p)'
<1> DEFINE w == write[t]
           o == OrderOf(req[t])
<1>1. SlotKept(t) BY DEF KeepInv
<1>2. req[t] \in Request /\ req[t].kind \in {"verify", "webhook"}
    BY DEF TypeInv, TypeOK, SlotOK
<1>3. o \in Bought(u, p) BY <1>2, RequestTypes DEF Bought
<1>4. CreditedTime(u, p)' = CreditedTime(u, p) + Period[p] BY <1>3, CreditedCommit
<1>5. w.end >= CreditedTime(u, p)' BY <1>1, <1>4 DEF SlotKept
<1>6. CASE w.op = "extend"
    <2>1. /\ w.cur \in DOMAIN subs /\ subs[w.cur].user = u
          /\ w.rows = {} /\ subs[w.cur].status = "active"
        BY <1>1, <1>6 DEF SlotKept
    <2>2. w.cur \in DOMAIN subs' /\ subs'[w.cur] = Patched(w, w.cur) BY <2>1, CommittedRows
    <2>3. subs'[w.cur].user = u /\ subs'[w.cur].end = w.end /\ subs'[w.cur].status = "active"
        BY <1>6, <2>1, <2>2 DEF Patched
    <2> QED BY <1>5, <2>2, <2>3 DEF Holds
<1>7. CASE w.op \in {"insert", "replace"}
    <2>1. PICK i \in DOMAIN subs' : subs'[i] = NewRow(req[t], w) BY <1>7, CommittedRows
    <2>2. subs'[i].user = u /\ subs'[i].end = w.end /\ subs'[i].status = "active"
        BY <1>2, <2>1 DEF NewRow, UserOf
    <2> QED BY <1>5, <2>1, <2>2 DEF Holds
<1> QED BY <1>1, <1>6, <1>7 DEF SlotKept

\* A commit keeps what was bought.
LEMMA KeepCommit ==
    ASSUME TypeInv, KeepInv, NEW t \in Tx, NEW lost \in BOOLEAN, Commit(t, lost)
    PROVE  TimeKept'
<1> DEFINE w == write[t]
           o == OrderOf(req[t])
<1>1. [Next]_vars BY DEF Next, Step
<1>2. ASSUME NEW u \in User \ deleted', NEW p \in Plan, OnlyPlan(u, p)', CreditedTime(u, p)' > 0
      PROVE  \E i \in DOMAIN subs' : Holds(i, u, p)'
    <2>1. u \notin deleted BY <1>2 DEF Commit
    <2>2. OnlyPlan(u, p)
        <3>1. \A x \in Order : credits[x] > 0 => credits'[x] > 0 BY <1>1, CreditsStay
        <3> QED BY <1>2, <3>1 DEF OnlyPlan
    <2>3. CASE w.pay = "paid" /\ u = Buyer[o]
        <3>1. o \in Order /\ credits'[o] > 0
            <4>1. req[t] \in Request /\ req[t].kind \in {"verify", "webhook"}
                BY <2>3 DEF TypeInv, TypeOK, SlotOK
            <4>2. o \in Order BY <4>1, RequestTypes
            <4>3. credits[o] \in Nat BY <4>2 DEF TypeInv, TypeOK
            <4>4. WritePayment(req[t], w) BY DEF Commit
            <4>5. credits'[o] = credits[o] + 1
                BY <2>3, <4>2, <4>4 DEF WritePayment, TypeInv, TypeOK
            <4> QED BY <4>2, <4>3, <4>5
        <3>2. PlanOf[o] = p BY <1>2, <2>3, <3>1 DEF OnlyPlan
        <3> QED BY <2>1, <2>2, <2>3, <3>2, HoldsPaid
    <2>4. CASE ~(w.pay = "paid" /\ u = Buyer[o])
        <3>1. CreditedTime(u, p)' = CreditedTime(u, p)
            <4>1. CASE w.pay = "paid"
                BY <2>4, <4>1, CreditedCommit, CreditedType DEF Bought
            <4>2. CASE w.pay # "paid"
                BY <1>1, <4>2, CreditedOther
            <4> QED BY <4>1, <4>2
        <3>2. PICK i \in DOMAIN subs : Holds(i, u, p)
            BY <1>2, <2>1, <2>2, <3>1 DEF KeepInv, TimeKept
        <3>3. i \in DOMAIN subs' /\ Holds(i, u, p)' BY <2>4, <3>1, <3>2, HoldsStays
        <3> QED BY <3>3
    <2> QED BY <2>3, <2>4
<1> QED BY <1>2 DEF TimeKept

\* A commit's rows were paid for.
LEMMA PaidCommit ==
    ASSUME TypeInv, KeepInv, NEW t \in Tx, NEW lost \in BOOLEAN, Commit(t, lost)
    PROVE  RowsArePaid'
<1> DEFINE w == write[t]
           o == OrderOf(req[t])
<1>1. [Next]_vars BY DEF Next, Step
<1>2. \A x \in Order : credits[x] > 0 => credits'[x] > 0 BY <1>1, CreditsStay
<1>3. ASSUME NEW i \in DOMAIN subs'
      PROVE  \E x \in Order : credits'[x] > 0 /\ Buyer[x] = subs'[i].user /\ PlanOf[x] = subs'[i].plan
    <2>1. CASE i \in DOMAIN subs
        <3>1. PICK x \in Order : credits[x] > 0 /\ Buyer[x] = subs[i].user /\ PlanOf[x] = subs[i].plan
            BY <2>1 DEF KeepInv, RowsArePaid
        <3>2. subs'[i].user = subs[i].user /\ subs'[i].plan = subs[i].plan
            BY <1>1, <2>1, RowsKeep
        <3> QED BY <1>2, <3>1, <3>2
    <2>2. CASE i \notin DOMAIN subs
        <3>1. w.op \in {"insert", "replace"} /\ subs'[i] = NewRow(req[t], w)
            BY <2>2, CommittedRows
        <3>2. w.pay = "paid" BY <3>1 DEF KeepInv, SlotKept
        <3>3. req[t] \in Request /\ req[t].kind \in {"verify", "webhook"}
            BY <3>2 DEF TypeInv, TypeOK, SlotOK
        <3>4. o \in Order BY <3>3, RequestTypes
        <3>5. credits'[o] > 0
            <4>1. credits[o] \in Nat BY <3>4 DEF TypeInv, TypeOK
            <4>2. WritePayment(req[t], w) BY DEF Commit
            <4>3. credits'[o] = credits[o] + 1
                BY <3>2, <3>4, <4>2 DEF WritePayment, TypeInv, TypeOK
            <4> QED BY <4>1, <4>3
        <3>6. subs'[i].user = Buyer[o] /\ subs'[i].plan = PlanOf[o]
            BY <3>1, <3>3 DEF NewRow, UserOf
        <3> QED BY <3>4, <3>5, <3>6
    <2> QED BY <2>1, <2>2
<1> QED BY <1>3 DEF RowsArePaid

\* A slot keeps its part through every step, when no other request commits.
LEMMA KeepSlots ==
    ASSUME OneRequest, TypeInv, KeepInv, [Next]_vars, NEW t \in Tx
    PROVE  SlotKept(t)'
<1>1. SlotKept(t) /\ now' \in {now, now + 1} BY TimeGoesOn DEF KeepInv
<1>2. CASE Gateway \/ Tick \/ (\E e \in Event : WebhookDuplicate(e)) \/ UNCHANGED vars
    <2>1. UNCHANGED <<slots, db, credits>>
        BY <1>2 DEF Gateway, Authorize, Decline, Capture, Lapse, Tick, WebhookDuplicate, vars
    <2>2. UNCHANGED <<subs, credits, deleted, write[t], req[t]>> BY <2>1 DEF slots, db
    <2> QED BY <1>1, <2>2, SlotKeptStays
<1>3. CASE Begin(t)
    <2>1. pc[t] = "idle"
        BY <1>3 DEF Begin, CreateOrder, VerifyBegin, VerifyAgain, WebhookCapture,
                    WebhookFailure, WebhookNote, MisdeliveredBegin, UserBegin, Start
    <2>2. write[t] = NoWrite BY <2>1 DEF TypeInv, SlotOK
    <2>3. write' = write \/ \E a \in {"created", "failed"} : Prepare(t, PaymentWrite(a))
        BY <1>3 DEF Begin, CreateOrder, VerifyBegin, VerifyAgain, WebhookCapture,
                    WebhookFailure, WebhookNote, MisdeliveredBegin, UserBegin
    <2>4. write'[t].pay # "paid" /\ write'[t].op = "none" /\ write'[t].rows = {}
        BY <2>2, <2>3 DEF Prepare, NoWrite, PaymentWrite, TypeInv, TypeOK
    <2> QED BY <2>4, NothingKept
<1>4. CASE Step(t)
    <2>1. CASE MarkPaid(t) BY <2>1, MarkPaidKeeps
    <2>2. CASE ReadStatus(t) \/ ReadCancel(t) \/ ReadDelete(t) BY <2>2, ReadKeeps
    <2>3. CASE FetchConfirms(t) \/ FetchUnreachable(t)
        <3>1. UNCHANGED <<subs, credits, deleted, write[t], req[t]>>
            BY <2>3 DEF FetchConfirms, FetchUnreachable, db
        <3> QED BY <1>1, <3>1, SlotKeptStays
    <2>4. CASE Finish(t)
        <3>1. write'[t].pay # "paid" /\ write'[t].op = "none" /\ write'[t].rows = {}
            BY <2>4 DEF Finish, NoWrite, PaymentWrite, TypeInv, TypeOK
        <3> QED BY <3>1, NothingKept
    <2> QED BY <1>4, <2>1, <2>2, <2>3, <2>4
            DEF Step, FetchRefuses, MisdeliveredReject, RefuseCancel, Abort, Commit
<1> QED BY <1>2, <1>3, <1>4 DEF Next, OneRequest

\* KeepInv is inductive relative to TypeInv, for one request at a time.
LEMMA KeepStep ==
    ASSUME OneRequest
    PROVE  TypeInv /\ KeepInv /\ [Next]_vars => KeepInv'
<1> SUFFICES ASSUME TypeInv, KeepInv, [Next]_vars PROVE KeepInv' OBVIOUS
<1>1. \A t \in Tx : SlotKept(t)' BY KeepSlots
<1>2. CASE \E t \in Tx, lost \in BOOLEAN : Commit(t, lost)
    BY <1>1, <1>2, KeepCommit, PaidCommit DEF KeepInv
<1>3. CASE \A t \in Tx, lost \in BOOLEAN : ~Commit(t, lost)
    <2>1. UNCHANGED <<subs, credits, deleted>> BY <1>3, CommitWrites
    <2>2. RowsArePaid' BY <2>1 DEF KeepInv, RowsArePaid
    <2>3. ASSUME NEW u \in User \ deleted', NEW p \in Plan, OnlyPlan(u, p)', CreditedTime(u, p)' > 0
          PROVE  \E i \in DOMAIN subs' : Holds(i, u, p)'
        <3>1. OnlyPlan(u, p) /\ CreditedTime(u, p)' = CreditedTime(u, p)
            BY <2>1, <2>3 DEF OnlyPlan, CreditedTime
        <3>2. PICK i \in DOMAIN subs : Holds(i, u, p)
            BY <2>1, <2>3, <3>1 DEF KeepInv, TimeKept
        <3>3. now \in Nat /\ now' \in {now, now + 1} BY TimeGoesOn
        <3>4. subs[i].end \in Nat
            <4>1. subs[i] \in SubRow BY DEF TypeInv, TypeOK
            <4> QED BY <4>1 DEF SubRow
        <3>5. Holds(i, u, p)'
            BY <2>1, <3>1, <3>2, <3>3, <3>4 DEF Holds
        <3> QED BY <2>1, <3>5
    <2>4. TimeKept' BY <2>3 DEF TimeKept
    <2> QED BY <1>1, <2>2, <2>4 DEF KeepInv
<1> QED BY <1>2, <1>3

\* When requests come one at a time, an account that has paid for one plan only
\* has a row that lasts at least the time bought: a second payment extends the
\* row that runs, and never starts over beside it.
THEOREM PaidTimeKept ==
    ASSUME OneRequest
    PROVE  Spec => []NoPaidTimeLost
<1>1. KeepInv => NoPaidTimeLost BY DEF KeepInv, TimeKept, OnlyPlan, Holds, NoPaidTimeLost
<1>2. TypeInv /\ Init => KeepInv BY KeepInit
<1> QED BY <1>1, <1>2, InitType, NextType, KeepStep, PTL DEF Spec
=============================================================================
