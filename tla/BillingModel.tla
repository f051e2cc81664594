---------------------------- MODULE BillingModel ----------------------------
(***************************************************************************)
(* The account-local half of the store billing service                    *)
(* (src/src/payment/store-billing): what one transaction does to one       *)
(* owner.  An account is a record                                          *)
(*                                                                         *)
(*   b  the owner's store_subscription row                                 *)
(*   c  the owner's store_checkout rows, one per checkout request          *)
(*   e  the Stripe Checkout Session created for each of them               *)
(*   u  the Stripe subscription a completed session starts                 *)
(*   n  the failure notices enqueued and not yet mailed                    *)
(*   m  the failure notices already mailed                                 *)
(*                                                                         *)
(* so b, c, n and m are this system's database and e and u are Stripe's.   *)
(* Every operator maps an account to the account after the code ran; the   *)
(* interleaving of transactions, webhooks and Stripe is in StoreBilling.   *)
(*                                                                         *)
(* Dates are natural numbers and 0 is the code's null.  One unit of time   *)
(* is at least a day: longer than the 31 minutes a session stays open and  *)
(* than the 24 hours Stripe remembers an idempotency key.  Currency, money *)
(* and tax are left out; the test offer (isTest) stands for the identities *)
(* a paid account may not change.                                          *)
(***************************************************************************)
EXTENDS Naturals, FiniteSets

CONSTANTS
  Owner,        \* owner accounts
  TestOwner,    \* the accounts STORE_BILLING_TEST_EMAILS allows
  Attempt,      \* the checkout request ids of one owner
  NoAttempt,
  MonthTerm,    \* calendar months of a monthly plan, in units of time
  YearTerm,     \* the same for an annual plan
  BonusTerm,    \* the two bonus months
  Grace,        \* GRACE_MS
  Retention     \* the three calendar months of retention

ASSUME OwnerAssumption == TestOwner \subseteq Owner
ASSUME AttemptAssumption == NoAttempt \notin Attempt
ASSUME TermAssumption ==
  /\ MonthTerm \in Nat \ {0}
  /\ YearTerm \in Nat \ {0}
  /\ BonusTerm \in Nat \ {0}
  /\ Grace \in Nat \ {0}
  /\ Retention \in Nat \ {0}
  /\ Grace <= Retention    \* seven days, three months

-----------------------------------------------------------------------------
(* Types *)

Plan == {"month", "year"}

NoPlan == "none"

\* What the browser asks for (CheckoutRequest): a plan and the promotion codes.
Ask == [plan : Plan, bonus : BOOLEAN, test : BOOLEAN]

\* BillingOffer: what an attempt was reserved for.
Offer == [plan : Plan, gift : BOOLEAN, test : BOOLEAN]

Billing ==
  [status    : {"none", "pending", "active", "grace", "suspended"},
   plan      : Plan,
   test      : BOOLEAN,
   sub       : Attempt \cup {NoAttempt},  \* stripeSubscriptionId
   end       : Nat,                       \* entitlementEnd
   graceEnd  : Nat,                       \* graceEndsAt
   cancel    : BOOLEAN,                   \* cancelAtEnd
   pending   : Plan \cup {NoPlan},        \* pendingPlan
   gift      : BOOLEAN,                   \* giftUsedAt # null
   paid      : BOOLEAN,                   \* lastPaidAt # null
   retention : Nat]                       \* retentionUntil

Checkout ==
  [status : {"none", "reserved", "open", "paid", "expired"},
   offer  : Offer,
   at     : Nat,                          \* createdAt
   sid    : BOOLEAN,                      \* sessionId # null
   url    : BOOLEAN]                      \* sessionUrl # null

SessionState == {"none", "open", "complete", "expired"}

\* inv is the subscription's latest invoice: its first one, a renewal in draft,
\* one whose collection failed, a paid one, a voided one, or none (deleted).
Subscription ==
  [state   : {"none", "live", "canceled"},
   cancels : BOOLEAN,                     \* cancel_at is set
   plan    : Plan,                        \* price of the latest invoice
   sched   : Plan \cup {NoPlan},          \* second phase of its schedule
   end     : Nat,                         \* current period or trial end
   inv     : {"none", "initial", "draft", "failed", "paid", "void"},
   invEnd  : Nat,                         \* period end of that invoice
   paidAt  : Nat,                         \* when the first invoice was paid
   paidEnd : Nat]                         \* service the payments so far bought

Notice == Attempt \X Nat

Account ==
  [b : Billing,
   c : [Attempt -> Checkout],
   e : [Attempt -> SessionState],
   u : [Attempt -> Subscription],
   n : SUBSET Notice,
   m : SUBSET Notice]

NoOffer == [plan |-> "month", gift |-> FALSE, test |-> FALSE]

NoBilling ==
  [status |-> "none", plan |-> "month", test |-> FALSE, sub |-> NoAttempt,
   end |-> 0, graceEnd |-> 0, cancel |-> FALSE, pending |-> NoPlan,
   gift |-> FALSE, paid |-> FALSE, retention |-> 0]

NoCheckout == [status |-> "none", offer |-> NoOffer, at |-> 0,
               sid |-> FALSE, url |-> FALSE]

NoSubscription ==
  [state |-> "none", cancels |-> FALSE, plan |-> "month", sched |-> NoPlan,
   end |-> 0, inv |-> "none", invEnd |-> 0, paidAt |-> 0, paidEnd |-> 0]

-----------------------------------------------------------------------------
(* Pure rules of model.ts *)

\* periodMonths: what a payment for the plan buys.
PeriodMonths(plan, gift) ==
  (IF plan = "month" THEN MonthTerm ELSE YearTerm)
    + (IF gift THEN BonusTerm ELSE 0)

\* billingAccess: paid time, a recorded grace period, or settlement, the time
\* Stripe may take to collect a renewal that nobody has cancelled.
AccessAllowed(b, t) ==
  \/ b.status \in {"active", "grace"} /\ b.end > t
  \/ b.status = "grace" /\ b.graceEnd > t
  \/ b.status = "active" /\ ~b.cancel /\ t < b.end + Grace

\* An account with a paid history keeps its test identity.
Committed(b) == b.status \notin {"none", "pending"} \/ b.paid \/ b.gift

OfferIsTest(ask, b) == IF Committed(b) THEN b.test ELSE ask.test

\* Mutant: the bonus is offered again.
OfferAllowedAgain(owner, ask, b) ==
  /\ ask.bonus => ~ask.test /\ ~OfferIsTest(ask, b)
  /\ OfferIsTest(ask, b) => owner \in TestOwner /\ ask.plan = "month"
  /\ Committed(b) /\ ask.test => b.test

\* resolveOffer: the requests it does not reject ...
OfferAllowed(owner, ask, b) ==
  /\ ask.bonus => ~ask.test /\ ~OfferIsTest(ask, b) /\ ~b.paid /\ ~b.gift
  /\ OfferIsTest(ask, b) => owner \in TestOwner /\ ask.plan = "month"
  /\ Committed(b) /\ ask.test => b.test

\* ... and the offer it returns for them.
ResolveOffer(ask, b) ==
  [plan |-> ask.plan, gift |-> ask.bonus, test |-> OfferIsTest(ask, b)]

-----------------------------------------------------------------------------
(* Effects on Stripe of the gateway's calls (stripe-gateway.ts) *)

\* createCheckout: replaying the idempotency key returns the session it made.
CreateSession(v, a) ==
  [v EXCEPT !.e[a] = IF @ = "none" THEN "open" ELSE @]

\* extendInitialPeriod: moves the first period's end, unless it has passed.
ExtendInitialPeriod(v, a, end, t) ==
  IF end <= t THEN v ELSE [v EXCEPT !.u[a].end = end]

\* Mutant: open invoices and drafts are left to Stripe.
StopCollectionKeepingInvoices(v, a) ==
  IF a = NoAttempt
    THEN v
    ELSE [v EXCEPT !.u[a] = [@ EXCEPT !.state = "canceled", !.sched = NoPlan]]

\* stopCollection: cancel the subscription, with its schedule, then void its
\* open invoices and delete its drafts.
StopCollection(v, a) ==
  LET inv == v.u[a].inv
  IN  IF a = NoAttempt
        THEN v
        ELSE [v EXCEPT !.u[a] =
                [@ EXCEPT !.state = "canceled",
                          !.sched = NoPlan,
                          !.inv   = CASE inv = "failed" -> "void"
                                      [] inv = "draft"  -> "none"
                                      [] OTHER          -> inv]]

\* setCancelAtEnd: release the schedule, then stop at once when the paid time
\* is over and otherwise set or clear the date Stripe cancels at.
SetCancelAtEnd(v, cancel, t) ==
  LET a == v.b.sub
      released == [v EXCEPT !.u[a].sched = NoPlan]
  IN  IF cancel /\ v.b.end <= t
        THEN StopCollection(released, a)
        ELSE [released EXCEPT !.u[a].cancels = cancel]

-----------------------------------------------------------------------------
(* applyInvoice *)

\* "Another active subscription already exists for this account": the initial
\* payment of attempt a would be refused, and the whole transaction with it.
PaymentConflict(v, a) ==
  /\ v.c[a].status # "paid"
  /\ v.b.sub \notin {NoAttempt, a}
  /\ v.b.status \notin {"suspended", "pending"}

\* Mutant: a repeated delivery is applied again.
ApplyInitialAgain(v, a, t) ==
  LET offer == v.c[a].offer
      end   == v.u[a].paidAt + PeriodMonths(offer.plan, offer.gift)
  IN  [ExtendInitialPeriod(v, a, end, t) EXCEPT
         !.c[a].status = "paid",
         !.b = [@ EXCEPT !.status = "active", !.sub = a, !.end = end,
                         !.paid = TRUE]]

\* The first paid invoice of the subscription that attempt a started: service
\* begins on the payment date and an unspent bonus is granted with it.
ApplyInitial(v, a, t) ==
  LET offer == v.c[a].offer
      gift  == offer.gift /\ ~v.b.gift /\ ~v.b.paid
      end   == v.u[a].paidAt + PeriodMonths(offer.plan, gift)
      row   == [v.b EXCEPT !.status = "active", !.plan = offer.plan,
                           !.test = offer.test, !.sub = a, !.end = end,
                           !.graceEnd = 0, !.retention = 0,
                           !.cancel = FALSE, !.pending = NoPlan,
                           !.gift = @ \/ gift, !.paid = TRUE]
  IN  IF v.c[a].status = "paid"
        THEN v
        ELSE [ExtendInitialPeriod(v, a, end, t)
                EXCEPT !.b = row, !.c[a].status = "paid", !.c[a].sid = TRUE]

\* Mutant: a renewal counts as soon as it is drafted.
RenewalDrafted(v, s) == s.inv \in {"draft", "paid"} /\ s.invEnd > v.b.end

\* A later invoice, as the snapshot s of subscription a shows it: paid, and for
\* more time than is already granted ...
RenewalPaid(v, s) == s.inv = "paid" /\ s.invEnd > v.b.end

\* ... or refused by the card while nobody has cancelled.  A void invoice still
\* counts its failed attempts.
RenewalFailed(v, s) ==
  /\ s.inv \in {"failed", "void"}
  /\ s.invEnd > v.b.end
  /\ ~v.b.cancel
  /\ v.b.status # "grace"

ApplyRenewal(v, a, s) ==
  CASE v.b.sub # a \/ v.b.status = "suspended" -> v
    [] v.b.sub = a /\ v.b.status # "suspended" /\ RenewalPaid(v, s) ->
         [v EXCEPT !.b =
           [@ EXCEPT !.status = "active", !.plan = s.plan, !.end = s.invEnd,
                     !.graceEnd = 0, !.paid = TRUE,
                     !.pending = IF v.b.pending = s.plan THEN NoPlan
                                                         ELSE v.b.pending]]
    [] v.b.sub = a /\ v.b.status # "suspended" /\ RenewalFailed(v, s) ->
         [v EXCEPT !.b = [@ EXCEPT !.status = "grace", !.graceEnd = v.b.end + Grace],
                   !.n = IF <<a, s.invEnd>> \in v.m THEN @
                         ELSE @ \cup {<<a, s.invEnd>>}]
    [] OTHER -> v

\* applyInvoice with the latest invoice of the snapshot s of subscription a.
ApplyInvoice(v, a, s, t) ==
  CASE s.inv = "initial" -> ApplyInitial(v, a, t)
    [] s.inv = "none"    -> v
    [] OTHER             -> ApplyRenewal(v, a, s)

-----------------------------------------------------------------------------
(* reapCheckouts and reconcileOne *)

PendingAttempts(v) == {a \in Attempt : v.c[a].status \in {"reserved", "open"}}

\* Stripe refuses to create a session whose expiry is not in the future, and
\* may refuse any other for its parameters (reject): CheckoutNotCreatedError.
\* A session already made with this key is returned instead.
NotCreated(v, a, reject, t) ==
  v.c[a].at < t \/ (reject /\ v.e[a] = "none")

OpenSession(v, a) ==
  [CreateSession(v, a) EXCEPT !.c[a] = [@ EXCEPT !.status = "open",
                                                 !.sid = TRUE, !.url = TRUE]]

\* Mutant: only expired sessions are looked for.
ReapOneExpired(v, a, seen, reject, t) ==
  IF seen[a] = "expired" THEN [v EXCEPT !.c[a].status = "expired"]
  ELSE IF v.c[a].sid THEN v ELSE OpenSession(v, a)

\* reapCheckouts for attempt a: replay an ambiguous create request, then take
\* what Stripe says of the session (seen, read before the transaction commits).
ReapOne(v, a, seen, reject, t) ==
  LET refused == ~v.c[a].sid /\ NotCreated(v, a, reject, t)
      known   == IF v.c[a].sid THEN v ELSE OpenSession(v, a)
  IN  CASE refused -> [v EXCEPT !.c[a].status = "expired"]
        [] ~refused /\ seen[a] = "complete" -> ApplyInitial(known, a, t)
        [] ~refused /\ seen[a] = "expired" ->
             [known EXCEPT !.c[a].status = "expired"]
        [] OTHER -> known

\* The loop of reapCheckouts.  An owner has at most one unsettled attempt
\* (OnePendingCheckout), so there is at most one to visit.
ReapCheckouts(v, seen, reject, t) ==
  IF PendingAttempts(v) = {}
    THEN v
    ELSE ReapOne(v, CHOOSE a \in PendingAttempts(v) : TRUE, seen, reject, t)

\* When service stops if nothing more is paid.
SuspensionDate(b) ==
  IF b.cancel THEN b.end
  ELSE IF b.graceEnd # 0 THEN b.graceEnd
  ELSE b.end + Grace

\* Mutant: a recorded grace period is not looked at again.
DueWhenActive(b, t) == b.status = "active" /\ b.end <= t

Due(b, t) == b.status \in {"active", "grace"} /\ b.end <= t

Suspend(v) ==
  [StopCollection(v, v.b.sub) EXCEPT
     !.b = [@ EXCEPT !.status = "suspended", !.cancel = TRUE,
                     !.pending = NoPlan,
                     !.retention = SuspensionDate(v.b) + Retention]]

\* reconcileOne, with the subscription as getSubscription returned it (seen).
ReconcileOne(v, seen, t) ==
  LET s       == seen[v.b.sub]
      applied == ApplyInvoice(v, v.b.sub, s, t)
      stopped == /\ s.state = "canceled" \/ s.cancels
                 /\ applied.b.status # "grace"
      flagged == IF stopped THEN [applied EXCEPT !.b.cancel = TRUE] ELSE applied
  IN  CASE ~Due(v.b, t) -> v
        [] Due(v.b, t) /\ (applied.b.end > t \/ SuspensionDate(flagged.b) > t) ->
             applied
        [] OTHER -> Suspend(flagged)
=============================================================================
