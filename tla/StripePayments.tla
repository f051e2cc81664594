--------------------------- MODULE StripePayments ---------------------------
(***************************************************************************)
(* The plan and credit payments of the Stripe provider (stripe.ts) and the *)
(* credits of one user (credits.ts): a payment row is inserted unpaid when  *)
(* a checkout session completes and marked paid by invoice.paid, which     *)
(* also adds the credits.  Stripe delivers events late, in any order, more *)
(* than once and to several handlers together, and delivers an event that  *)
(* was not answered with 2xx again.  A handler takes one step per await.   *)
(***************************************************************************)
EXTENDS Naturals, Sequences, SequencesExt

CONSTANTS
  Checkout,       \* checkout sessions, with the subscription or order of each
  Handler,        \* handlers that can run at the same time
  PlanCredits,    \* the plans that bring credits: none while credits are
                  \* disabled, "lifetime" only while that plan is not
  MaxInvoice,     \* bound: renewals of a subscription
  MaxFaults       \* bound: failures and repeated deliveries

ASSUME PaymentsAssumption ==
  /\ PlanCredits \subseteq {"subscription", "lifetime"}
  /\ MaxInvoice \in Nat /\ MaxFaults \in Nat

VARIABLES
  kind,     \* Stripe: what a checkout sells, "none" before it is completed
  sub,      \* Stripe: the status of the subscription
  invoices, \* Stripe: paid invoices, <<checkout, 0>> the first
  sent,     \* Stripe: events it may deliver once more
  due,      \* Stripe: events to be delivered, the oldest first
  calls,    \* handlers in flight
  payment,  \* the rows of each checkout, the latest last
  balance,  \* user_credit.currentCredits
  bought,   \* credit_transaction: purchases of each checkout's package
  entries,  \* credit_transaction: all entries, of one credit each
  monthly,  \* credit_transaction: entries of a type in the current month
  faults,
  calm      \* events were delivered in order, one at a time, once, without failure

stripeVars == <<kind, sub, invoices>>
dbVars == <<payment, balance, entries, bought, monthly>>
vars == <<stripeVars, sent, due, calls, dbVars, faults, calm>>

Kinds == {"subscription", "credits", "lifetime"}
Gifts == {"SUBSCRIPTION_RENEWAL", "LIFETIME_MONTHLY"}
Status == {"incomplete", "active", "past_due", "canceled", "completed"}
Event == [type : {"completed", "paid", "updated", "deleted"}, of : Checkout,
          status : Status \cup {"none"}, invoice : 0 .. MaxInvoice]
Idle == [step |-> "idle"]
Call == [step : {"start", "insert", "mark", "benefit", "write", "ledger", "answer"},
         event : Event, seen : Status \cup {"none"}, read : Nat]

TypeOK ==
  /\ kind \in [Checkout -> Kinds \cup {"none"}]
  /\ sub \in [Checkout -> {"none", "incomplete", "active", "past_due", "canceled"}]
  /\ invoices \subseteq Checkout \X (0 .. MaxInvoice)
  /\ sent \subseteq Event /\ ToSet(due) \subseteq sent
  /\ calls \in [Handler -> Call \cup {Idle}]
  /\ \A c \in Checkout : \A i \in DOMAIN payment[c] :
       payment[c][i] \in [paid : BOOLEAN, status : Status]
  /\ balance \in Nat /\ entries \in Nat /\ bought \in [Checkout -> Nat] /\ monthly \in [Gifts -> Nat]
  /\ faults \in 0 .. MaxFaults /\ calm \in BOOLEAN

Init ==
  /\ kind = [c \in Checkout |-> "none"] /\ sub = [c \in Checkout |-> "none"]
  /\ invoices = {} /\ sent = {} /\ due = <<>>
  /\ calls = [h \in Handler |-> Idle]
  /\ payment = [c \in Checkout |-> <<>>]
  /\ balance = 0 /\ entries = 0
  /\ bought = [c \in Checkout |-> 0] /\ monthly = [g \in Gifts |-> 0]
  /\ faults = 0 /\ calm = TRUE

----------------------------------------------------------------------------
(* Stripe.                                                                 *)

Happens(e, before) == sent' = before \cup {e} /\ due' = Append(due, e)
AllDone == due = <<>> /\ \A h \in Handler : calls[h] = Idle
Pending(e) == e \in ToSet(due)
StripeOnly == UNCHANGED <<calls, dbVars, faults, calm>>
Of(type, c, status, n) == [type |-> type, of |-> c, status |-> status, invoice |-> n]

\* The customer completes the session; the first invoice may be paid later.
Complete(c, k) ==
  /\ kind[c] = "none"
  /\ kind' = [kind EXCEPT ![c] = k]
  /\ sub' = [sub EXCEPT ![c] = IF k = "subscription" THEN "incomplete" ELSE "none"]
  /\ Happens(Of("completed", c, "none", 0), sent)
  /\ UNCHANGED invoices /\ StripeOnly

Collected(c, n, before) ==
  /\ invoices' = invoices \cup {<<c, n>>}
  /\ sub' = [sub EXCEPT ![c] = IF kind[c] = "subscription" THEN "active" ELSE @]
  /\ Happens(Of("paid", c, "none", n), before)
  /\ UNCHANGED kind

\* The first invoice is paid.
Pay(c) ==
  /\ kind[c] # "none" /\ sub[c] # "canceled" /\ <<c, 0>> \notin invoices
  /\ Collected(c, 0, sent) /\ StripeOnly

\* A renewal is paid in a later month, when Stripe no longer repeats what is
\* older.
Renew(c, n) ==
  /\ kind[c] = "subscription" /\ sub[c] # "canceled"
  /\ n > 0 /\ <<c, n - 1>> \in invoices /\ <<c, n>> \notin invoices
  /\ AllDone
  /\ Collected(c, n, {})
  /\ monthly' = [g \in Gifts |-> 0]
  /\ UNCHANGED <<calls, payment, balance, entries, bought, faults, calm>>

SubChanges(c, status) ==
  /\ sub[c] \notin {"none", "canceled", status}
  /\ sub' = [sub EXCEPT ![c] = status]
  /\ Happens(Of(IF status = "canceled" THEN "deleted" ELSE "updated", c, status, 0), sent)
  /\ UNCHANGED <<kind, invoices>> /\ StripeOnly

\* A delivery starts a handler, even while an earlier one of the event has not
\* answered.
Deliver(e, h) ==
  /\ Pending(e) /\ calls[h] = Idle
  /\ calls' = [calls EXCEPT ![h] = [step |-> "start", event |-> e, seen |-> "none",
                                    read |-> 0]]
  /\ calm' = (calm /\ e = Head(due) /\ \A g \in Handler : calls[g] = Idle)
  /\ UNCHANGED <<stripeVars, sent, due, dbVars, faults>>

Fault == faults < MaxFaults /\ faults' = faults + 1 /\ calm' = FALSE

\* An event that was answered is delivered once more.
Repeat(e) ==
  /\ e \in sent /\ ~Pending(e)
  /\ Fault
  /\ due' = Append(due, e)
  /\ UNCHANGED <<stripeVars, sent, calls, dbVars>>

----------------------------------------------------------------------------
(* The handlers.                                                           *)

At(h, step) == calls[h] # Idle /\ calls[h].step = step
Type(h) == calls[h].event.type
Session(h) == calls[h].event.of
KindOf(h) == kind[Session(h)]
Goto(h, step) ==
  calls' = [calls EXCEPT ![h].step = step, ![h].seen = "none", ![h].read = 0]
See(h, step) ==
  calls' = [calls EXCEPT ![h].step = step, ![h].seen = sub[Session(h)]]
Calm == UNCHANGED <<stripeVars, sent, faults, calm>>

\* The oldest delivery of an event is answered, unless another handler did that.
Answered(e) ==
  \/ \E i \in DOMAIN due :
       /\ due[i] = e /\ \A j \in 1 .. i - 1 : due[j] # e
       /\ due' = RemoveAt(due, i)
  \/ ~Pending(e) /\ UNCHANGED due

\* Mutant: an event whose handler failed is answered like one that was handled.
ThrowsAcknowledged(h) ==
  calls' = [calls EXCEPT ![h] = Idle] /\ Answered(calls[h].event) /\ UNCHANGED dbVars

\* Any await throws: 503, and Stripe delivers the event again.
Throws(h) ==
  calls' = [calls EXCEPT ![h] = Idle] /\ UNCHANGED <<due, dbVars>>

Broken(h) ==
  /\ calls[h] # Idle
  /\ Fault
  /\ Throws(h)
  /\ UNCHANGED <<stripeVars, sent>>

Answer(h) ==
  /\ At(h, "answer")
  /\ calls' = [calls EXCEPT ![h] = Idle]
  /\ Answered(calls[h].event)
  /\ UNCHANGED dbVars /\ Calm

\* checkout.session.completed: the subscription is looked up before the row is
\* inserted.
CheckoutCompleted(h) ==
  /\ At(h, "start") /\ Type(h) = "completed"
  /\ See(h, "insert")
  /\ UNCHANGED <<due, dbVars>> /\ Calm

\* Mutant: the row of an order is inserted as paid, as its status says.
InsertedPaid(k, seen) ==
  [paid |-> k # "subscription", status |-> IF k = "subscription" THEN seen ELSE "completed"]

\* The row of a completed session of kind k.
Inserted(k, seen) ==
  [paid |-> FALSE, status |-> IF k = "subscription" THEN seen ELSE "completed"]

\* The unique constraint on invoice_id.  A session is taken to have its invoice
\* when it completes ("invoice id is available"): the column may be null, and
\* rows without an invoice would not exclude each other.
Insertable(c) == payment[c] = <<>>

InsertRow(h) ==
  /\ At(h, "insert")
  /\ Insertable(Session(h))
  /\ payment' = [payment EXCEPT ![Session(h)] =
                   Append(@, Inserted(KindOf(h), calls[h].seen))]
  /\ Goto(h, "answer")
  /\ UNCHANGED <<due, balance, entries, bought, monthly>> /\ Calm

\* The handler takes a violated constraint for a repeated event when it finds
\* "unique constraint" in the message, which the driver may have wrapped.
InsertDuplicate(h) ==
  /\ At(h, "insert")
  /\ ~Insertable(Session(h))
  /\ \/ Goto(h, "answer") /\ UNCHANGED <<due, dbVars>>
     \/ Throws(h)
  /\ Calm

\* Mutant: what is already paid is taken for processed.
FoundUnpaid(h) ==
  \E i \in DOMAIN payment[Session(h)] : ~payment[Session(h)][i].paid

\* invoice.paid: the row is found by its invoice or its subscription.
Found(h) == payment[Session(h)] # <<>>

InvoicePaid(h) ==
  /\ At(h, "start") /\ Type(h) = "paid"
  /\ Found(h)
  /\ See(h, "mark")
  /\ UNCHANGED <<due, dbVars>> /\ Calm

\* Mutant: an invoice without a row is acknowledged.
InvoiceUnknownDone(h) ==
  /\ At(h, "start") /\ Type(h) = "paid"
  /\ ~Found(h)
  /\ Goto(h, "answer")
  /\ UNCHANGED <<due, dbVars>> /\ Calm

\* The row is looked for PAYMENT_RECORD_RETRY_ATTEMPTS times, then Stripe is
\* asked to come back.
InvoiceUnknown(h) ==
  /\ At(h, "start") /\ Type(h) = "paid"
  /\ ~Found(h)
  /\ Throws(h) /\ Calm

\* Mutant: the status the row was inserted with is kept.
MarkedOnly(row, k, seen) == [row EXCEPT !.paid = TRUE]

\* Mutant: the status of a subscription is taken for every kind.
MarkedSeen(row, k, seen) == [row EXCEPT !.paid = TRUE, !.status = seen]

\* The row of a paid invoice.
Marked(row, k, seen) ==
  [row EXCEPT !.paid = TRUE, !.status = IF k = "subscription" THEN seen ELSE "completed"]

MarkPaid(h) ==
  /\ At(h, "mark")
  /\ LET rows == payment[Session(h)]
         row  == Marked(Last(rows), KindOf(h), calls[h].seen)
     IN  payment' = [payment EXCEPT ![Session(h)] = [rows EXCEPT ![Len(rows)] = row]]
  /\ Goto(h, "benefit")
  /\ UNCHANGED <<due, balance, entries, bought, monthly>> /\ Calm

GiftOf(k) == IF k = "subscription" THEN "SUBSCRIPTION_RENEWAL" ELSE "LIFETIME_MONTHLY"
CanAddCreditsByType(type) == monthly[type] = 0

\* What a payment of kind k brings: a package is always credited, the credits
\* of a plan once a month.
Earns(k) == k = "credits" \/ (k \in PlanCredits /\ CanAddCreditsByType(GiftOf(k)))

NoBenefit(h) ==
  /\ At(h, "benefit") /\ ~Earns(KindOf(h))
  /\ Goto(h, "answer")
  /\ UNCHANGED <<due, dbVars>> /\ Calm

\* addCredits: the balance is read, written back and entered in the ledger.
ReadBalance(h) ==
  /\ At(h, "benefit") /\ Earns(KindOf(h))
  /\ calls' = [calls EXCEPT ![h].step = "write", ![h].read = balance]
  /\ UNCHANGED <<due, dbVars>> /\ Calm

WriteBalance(h) ==
  /\ At(h, "write")
  /\ balance' = calls[h].read + 1
  /\ Goto(h, "ledger")
  /\ UNCHANGED <<due, payment, entries, bought, monthly>> /\ Calm

WriteLedger(h) ==
  /\ At(h, "ledger")
  /\ entries' = entries + 1
  /\ IF KindOf(h) = "credits"
     THEN bought' = [bought EXCEPT ![Session(h)] = @ + 1] /\ UNCHANGED monthly
     ELSE monthly' = [monthly EXCEPT ![GiftOf(KindOf(h))] = @ + 1] /\ UNCHANGED bought
  /\ Goto(h, "answer")
  /\ UNCHANGED <<due, payment, balance>> /\ Calm

\* customer.subscription.updated and deleted: every row of the subscription
\* takes the status the event carries.
SubscriptionChanged(h) ==
  /\ At(h, "start") /\ Type(h) \in {"updated", "deleted"}
  /\ LET rows == payment[Session(h)]
     IN  payment' = [payment EXCEPT ![Session(h)] =
           [i \in DOMAIN rows |-> [rows[i] EXCEPT !.status = calls[h].event.status]]]
  /\ Goto(h, "answer")
  /\ UNCHANGED <<due, balance, entries, bought, monthly>> /\ Calm

HandlerStep(h) ==
  \/ CheckoutCompleted(h) \/ InsertRow(h) \/ InsertDuplicate(h)
  \/ InvoicePaid(h) \/ InvoiceUnknown(h) \/ MarkPaid(h)
  \/ NoBenefit(h) \/ ReadBalance(h) \/ WriteBalance(h) \/ WriteLedger(h)
  \/ SubscriptionChanged(h) \/ Answer(h)

Next ==
  \/ \E c \in Checkout :
       \/ \E k \in Kinds : Complete(c, k)
       \/ Pay(c) \/ \E n \in 1 .. MaxInvoice : Renew(c, n)
       \/ \E s \in {"past_due", "canceled"} : SubChanges(c, s)
  \/ \E e \in ToSet(due), h \in Handler : Deliver(e, h)
  \/ \E e \in sent : Repeat(e)
  \/ \E h \in Handler : HandlerStep(h) \/ Broken(h)

Spec == Init /\ [][Next]_vars

\* Handlers go on, and Stripe delivers what was not answered again and again.
FairSpec ==
  /\ Spec
  /\ \A h \in Handler : WF_vars(HandlerStep(h))
  /\ \A c \in Checkout :
       /\ SF_vars(\E h \in Handler : Deliver(Of("completed", c, "none", 0), h))
       /\ SF_vars(\E h \in Handler : Deliver(Of("paid", c, "none", 0), h))

----------------------------------------------------------------------------
(* The payment page and the current plan believe only paid rows: a row is  *)
(* paid when Stripe has collected an invoice of its checkout, and nobody   *)
(* is credited before it.                                                  *)
Paid(c) == \E i \in DOMAIN payment[c] : payment[c][i].paid
PaidIsCollected ==
  \A c \in Checkout :
    /\ Paid(c) => <<c, 0>> \in invoices
    /\ bought[c] > 0 => Paid(c)

(* Stripe is told that an event is done only when it is: the row of a      *)
(* completed session is there, the row of a collected invoice is paid and  *)
(* its package credited, whichever of the handlers of the event answers,   *)
(* in whatever order and however often they run or break off.  Stripe does *)
(* not come back: "acknowledging it loses paid orders" (route.ts).         *)
Done(e) ==
  /\ e.type = "completed" => payment[e.of] # <<>>
  /\ e.type = "paid" => /\ Paid(e.of)
                        /\ kind[e.of] = "credits" => bought[e.of] > 0
AcknowledgedIsDone == \A e \in sent : Pending(e) \/ Done(e)

(* While events come in the order the comments of stripe.ts describe, one   *)
(* at a time, once and without failure, the rows follow Stripe, a package  *)
(* is credited exactly once and the balance is what the ledger adds up to. *)
CalmBooks ==
  calm /\ AllDone =>
    /\ balance = entries
    /\ \A c \in Checkout :
         /\ bought[c] = IF kind[c] = "credits" /\ <<c, 0>> \in invoices THEN 1 ELSE 0
         /\ kind[c] = "subscription" => payment[c][1].status = sub[c]

(* Whatever the order of its events and whatever fails, a collected invoice *)
(* ends as a paid row, and a package that was paid for is credited.        *)
PaymentRecorded == \A c \in Checkout : <<c, 0>> \in invoices ~> Paid(c)
PurchaseCredited ==
  \A c \in Checkout : <<c, 0>> \in invoices /\ kind[c] = "credits" ~> bought[c] > 0
=============================================================================
