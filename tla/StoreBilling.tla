---------------------------- MODULE StoreBilling ----------------------------
(***************************************************************************)
(* Payments of the store platform: StoreBillingService (service.ts) over   *)
(* its repository and Stripe, and the three store operations that share    *)
(* its advisory lock (createOwnerStore, requestStoreCleanup and the        *)
(* completion of an archive job).                                          *)
(*                                                                         *)
(* Every write of the database is one transaction under one global lock,   *)
(* so a transaction is one action; what is not atomic is everything around *)
(* it: a webhook reads Stripe before its transaction starts, the           *)
(* reconciler reads Stripe and acts on it later while customers pay, and   *)
(* any transaction may fail after its calls to Stripe took effect          *)
(* (Commit).                                                               *)
(***************************************************************************)
EXTENDS BillingModel

CONSTANTS
  Asks,         \* the purchase requests browsers send, a subset of Ask
  Limit,        \* STORE_CAPACITY_LIMIT
  TestLimit,    \* TEST_CHECKOUT_LIMIT
  MayFail,      \* may a transaction fail after its calls to Stripe took effect
  MaxTime,      \* bound: time stops here
  MaxWebhooks   \* bound: webhooks in flight at once

ASSUME LimitAssumption ==
  /\ Asks \subseteq Ask
  /\ Limit \in Nat \ {0}
  /\ TestLimit \in Nat
  /\ MayFail \in BOOLEAN
  /\ MaxTime \in Nat
  /\ MaxWebhooks \in Nat

VARIABLES
  now,
  acct,         \* acct[o]: the account of owner o, see BillingModel
  store,        \* store[o]: status of the owner's one store
  webhooks,     \* events read from Stripe whose transaction has not run
  reading       \* what a running reconciler has read of Stripe, or NoReading

vars == <<now, acct, store, webhooks, reading>>

EventKind == {"session", "invoice", "subscription"}

\* BillingEvent, as readEvent builds it: Stripe's objects when it was read.
Webhook == [owner : Owner, kind : EventKind, attempt : Attempt,
            session : SessionState, sub : Subscription]

NoReading == [taken |-> FALSE]

Reading == [taken : {TRUE},
            e : [Owner -> [Attempt -> SessionState]],
            u : [Owner -> [Attempt -> Subscription]]]

TypeOK ==
  /\ now \in Nat
  /\ acct \in [Owner -> Account]
  /\ store \in [Owner -> {"none", "open", "closing", "closed"}]
  /\ webhooks \subseteq Webhook
  /\ reading \in Reading \cup {NoReading}

EmptyAccount ==
  [b |-> NoBilling,
   c |-> [a \in Attempt |-> NoCheckout],
   e |-> [a \in Attempt |-> "none"],
   u |-> [a \in Attempt |-> NoSubscription],
   n |-> {}, m |-> {}]

Init ==
  /\ now = 0
  /\ acct = [o \in Owner |-> EmptyAccount]
  /\ store = [o \in Owner |-> "none"]
  /\ webhooks = {}
  /\ reading = NoReading

-----------------------------------------------------------------------------
(* Transactions *)

\* pg_advisory_xact_lock: no other transaction runs while a reconciler does.
LockFree == reading = NoReading

\* A transaction that did its Stripe calls either commits or, when the process
\* or the connection is lost, leaves the database as it was.  Stripe keeps the
\* effects.
RolledBack(v, w) == [v EXCEPT !.e = w.e, !.u = w.u]

Commit(after) ==
  \/ acct' = after
  \/ MayFail /\ acct' = [o \in Owner |-> RolledBack(acct[o], after[o])]

CommitOne(o, after) == Commit([acct EXCEPT ![o] = after])

-----------------------------------------------------------------------------
(* storeCapacityForOwner (capacity.ts) *)

\* The owners that hold one of the shared machine's places.  A closed store is
\* an archived one: both are written by the completion of the archive job.
HoldsPlace(all, o) ==
  \/ store[o] \in {"open", "closing"}
  \/ /\ store[o] # "closed"
     /\ all[o].b.paid \/ \E a \in Attempt : all[o].c[a].status = "paid"
  \/ PendingAttempts(all[o]) # {}

\* WhereBear, the registered store, always holds one.
UsedPlaces(all) == 1 + Cardinality({o \in Owner : HoldsPlace(all, o)})

\* Mutant: off by one.
HasCapacityOneMore(all, o) == HoldsPlace(all, o) \/ UsedPlaces(all) <= Limit

HasCapacity(all, o) == HoldsPlace(all, o) \/ UsedPlaces(all) < Limit

\* Mutant: an opening counts only until it is paid.
TestCheckoutsPending(all) ==
  {x \in Owner \X Attempt :
     LET row == all[x[1]].c[x[2]]
     IN  row.offer.test /\ row.status \in {"reserved", "open"}}

TestCheckouts(all) ==
  {x \in Owner \X Attempt :
     LET row == all[x[1]].c[x[2]]
     IN  row.offer.test /\ row.status \notin {"none", "expired"}}

-----------------------------------------------------------------------------
(* createCheckout *)

\* What its first transaction does before it looks at the request: settle every
\* unsettled checkout, then this owner's subscription.
Settled(o, reject) ==
  LET reaped == [x \in Owner |-> ReapCheckouts(acct[x], acct[x].e, reject, now)]
  IN  [reaped EXCEPT ![o] = ReconcileOne(@, @.u, now)]

\* Mutants: the store, or the service the owner has, is not looked at.
MayPurchaseWhileClosing(o, ask, v) ==
  /\ OfferAllowed(o, ask, v.b)
  /\ v.b.status \in {"none", "pending", "suspended"}

MayPurchaseWhenServed(o, ask, v) ==
  /\ store[o] \notin {"closing", "closed"}
  /\ OfferAllowed(o, ask, v.b)

MayPurchase(o, ask, v) ==
  /\ store[o] \notin {"closing", "closed"}
  /\ OfferAllowed(o, ask, v.b)
  /\ v.b.status \in {"none", "pending", "suspended"}

\* A refresh of the page: the unsettled attempt for the same offer is reused.
ReuseCheckout(o, ask, reject) ==
  LET all == Settled(o, reject)
  IN  /\ LockFree
      /\ MayPurchase(o, ask, all[o])
      /\ \E a \in PendingAttempts(all[o]) :
           all[o].c[a].offer = ResolveOffer(ask, all[o].b)
      /\ Commit(all)
      /\ UNCHANGED <<now, store, webhooks, reading>>

\* Mutants: expired here and still payable at Stripe, or the reverse.
ExpireCurrentLocally(v) ==
  [v EXCEPT !.c = [a \in Attempt |->
                     IF a \in PendingAttempts(v)
                       THEN [v.c[a] EXCEPT !.status = "expired"] ELSE v.c[a]]]

ExpireCurrentRemotely(v) ==
  [v EXCEPT !.e = [a \in Attempt |->
                     IF a \in PendingAttempts(v) THEN "expired" ELSE v.e[a]]]

\* An attempt for another offer is expired at Stripe first: only when Stripe
\* says it is expired may a second one become payable.
ExpireCurrent(v) ==
  [v EXCEPT
     !.c = [a \in Attempt |-> IF a \in PendingAttempts(v)
                                THEN [v.c[a] EXCEPT !.status = "expired"]
                                ELSE v.c[a]],
     !.e = [a \in Attempt |-> IF a \in PendingAttempts(v) THEN "expired"
                                                          ELSE v.e[a]]]

MayExpireCurrent(v) ==
  \A a \in PendingAttempts(v) : v.c[a].sid /\ v.e[a] # "complete"

\* Mutant: the row is created before its plan is known.
PendingBillingNoPlan(offer) ==
  [NoBilling EXCEPT !.status = "pending", !.plan = NoPlan, !.test = offer.test]

PendingBilling(offer) ==
  [NoBilling EXCEPT !.status = "pending", !.plan = offer.plan,
                    !.test = offer.test]

\* A new attempt, persisted before any request to Stripe.
ReserveCheckout(o, a, ask, reject) ==
  LET all   == Settled(o, reject)
      offer == ResolveOffer(ask, all[o].b)
      freed == [all EXCEPT ![o] = ExpireCurrent(@)]
      row   == [status |-> "reserved", offer |-> offer, at |-> now,
                sid |-> FALSE, url |-> FALSE]
      after == [freed[o] EXCEPT
                  !.b = IF @.status = "none" THEN PendingBilling(offer) ELSE @,
                  !.c[a] = row]
  IN  /\ LockFree
      /\ MayPurchase(o, ask, all[o])
      /\ all[o].c[a].status = "none"
      /\ \A p \in PendingAttempts(all[o]) : all[o].c[p].offer # offer
      /\ MayExpireCurrent(all[o])
      /\ offer.test => Cardinality(TestCheckouts(freed)) < TestLimit
      /\ HasCapacity(freed, o)
      /\ Commit([freed EXCEPT ![o] = after])
      /\ UNCHANGED <<now, store, webhooks, reading>>

\* createCheckout, second transaction: create the session, or learn that Stripe
\* refused it.  When it does not commit the attempt stays reserved.
OpenCheckout(o, a, reject) ==
  LET v == acct[o]
  IN  /\ LockFree
      /\ v.c[a].status = "reserved"
      /\ CommitOne(o, IF NotCreated(v, a, reject, now)
                        THEN [v EXCEPT !.c[a].status = "expired"]
                        ELSE OpenSession(v, a))
      /\ UNCHANGED <<now, store, webhooks, reading>>

-----------------------------------------------------------------------------
(* schedulePlan and setRenewal *)

SchedulePlan(o, plan) ==
  LET v == acct[o]
  IN  /\ LockFree
      /\ v.b.status = "active" /\ v.b.end > now
      /\ ~v.b.test /\ ~v.b.cancel
      /\ v.b.pending # plan
      /\ ~(v.b.plan = plan /\ v.b.pending = NoPlan)
      /\ v.u[v.b.sub].state = "live"
      /\ CommitOne(o, [v EXCEPT !.u[v.b.sub].sched = plan,
                                !.b.pending = IF plan = v.b.plan THEN NoPlan
                                                                 ELSE plan])
      /\ UNCHANGED <<now, store, webhooks, reading>>

SetRenewal(o, enabled) ==
  LET v == acct[o]
  IN  /\ LockFree
      /\ v.b.status \in {"active", "grace"}
      /\ enabled => v.b.end > now
      /\ ~(v.b.cancel = ~enabled /\ v.b.pending = NoPlan)
      \* Stripe refuses to change a cancelled subscription.
      /\ v.u[v.b.sub].state = "live" \/ (~enabled /\ v.b.end <= now)
      /\ CommitOne(o, [SetCancelAtEnd(v, ~enabled, now) EXCEPT
                         !.b = [@ EXCEPT !.cancel = ~enabled,
                                         !.pending = NoPlan]])
      /\ UNCHANGED <<now, store, webhooks, reading>>
-----------------------------------------------------------------------------
(* Webhooks: handleStoreBillingEvent reads, handleEvent applies *)

\* readEvent.  Stripe repeats, delays and reorders deliveries, so an event about
\* any object that exists may arrive at any time.  One already recorded by its
\* id (hasEvent) changes nothing and is not modelled.
ReadEvent(o, a, kind) ==
  /\ acct[o].e[a] # "none"
  /\ kind # "session" => acct[o].u[a].state # "none"
  /\ Cardinality(webhooks) < MaxWebhooks
  /\ webhooks' = webhooks \cup
       {[owner |-> o, kind |-> kind, attempt |-> a,
         session |-> acct[o].e[a], sub |-> acct[o].u[a]]}
  /\ UNCHANGED <<now, acct, store, reading>>

\* Mutant: whatever is not complete is given up.
WithSessionNotComplete(v, h) ==
  LET a     == h.attempt
      noted == [v EXCEPT !.c[a].sid    = TRUE,
                         !.c[a].status = IF @ = "paid" THEN @ ELSE "expired"]
  IN  IF h.session = "complete" THEN ApplyInitial(noted, a, now) ELSE noted

WithSession(v, h) ==
  LET a     == h.attempt
      noted == [v EXCEPT
                  !.c[a].sid    = TRUE,
                  !.c[a].status = IF h.session = "expired" /\ @ # "paid"
                                    THEN "expired" ELSE @]
  IN  IF h.session = "complete" THEN ApplyInitial(noted, a, now) ELSE noted

\* A cancellation at Stripe is recorded here; its withdrawal is not.
WithCancellation(v, h) ==
  IF /\ v.b.sub = h.attempt
     /\ h.sub.cancels \/ h.sub.state = "canceled"
     /\ v.b.status # "grace"
    THEN [v EXCEPT !.b = [@ EXCEPT !.cancel = TRUE, !.pending = NoPlan]]
    ELSE v

Applied(v, h) ==
  CASE h.kind = "session" -> WithSession(v, h)
    [] h.kind = "invoice" -> ApplyInvoice(v, h.attempt, h.sub, now)
    [] h.kind = "subscription" ->
         WithCancellation(ApplyInvoice(v, h.attempt, h.sub, now), h)

BringsPayment(h) ==
  IF h.kind = "session" THEN h.session = "complete" ELSE h.sub.inv = "initial"

HandleEvent(h) ==
  LET v == acct[h.owner]
  IN  /\ LockFree
      /\ h \in webhooks
      /\ webhooks' = webhooks \ {h}
      /\ IF BringsPayment(h) /\ PaymentConflict(v, h.attempt)
           THEN UNCHANGED acct
           ELSE CommitOne(h.owner, Applied(v, h))
      /\ UNCHANGED <<now, store, reading>>

-----------------------------------------------------------------------------
(* reconcile, on a timer *)

\* It takes the lock and reads what Stripe says of every unsettled session and
\* every due subscription ...
ReconcileRead ==
  /\ LockFree
  /\ reading' = [taken |-> TRUE,
                 e |-> [o \in Owner |-> acct[o].e],
                 u |-> [o \in Owner |-> acct[o].u]]
  /\ UNCHANGED <<now, acct, store, webhooks>>

Reconciled(o, reject) ==
  ReconcileOne(ReapCheckouts(acct[o], reading.e[o], reject, now),
               reading.u[o], now)

\* One refused payment throws, and rolls back every owner's reconciliation.
ReconcileBlocked(o) ==
  \E a \in PendingAttempts(acct[o]) :
    reading.e[o][a] = "complete" /\ PaymentConflict(acct[o], a)

\* ... and acts on what it read, for all owners in one transaction.
ReconcileCommit(reject) ==
  /\ reading # NoReading
  /\ \A o \in Owner : ~ReconcileBlocked(o)
  /\ Commit([o \in Owner |-> Reconciled(o, reject)])
  /\ reading' = NoReading
  /\ UNCHANGED <<now, store, webhooks>>

ReconcileAbort ==
  /\ reading # NoReading
  /\ reading' = NoReading
  /\ UNCHANGED <<now, acct, store, webhooks>>

\* The second transaction of reconcile: mail every unsent notice, then mark it.
\* One failure unmarks them all and the mails are sent again.
SendNotices ==
  /\ LockFree
  /\ \E o \in Owner : acct[o].n # {}
  /\ acct' = [o \in Owner |-> [acct[o] EXCEPT !.m = @ \cup acct[o].n, !.n = {}]]
  /\ UNCHANGED <<now, store, webhooks, reading>>

-----------------------------------------------------------------------------
(* The store operations under the same lock *)

\* createOwnerStore
CreateStore(o) ==
  /\ LockFree
  /\ store[o] = "none"
  /\ AccessAllowed(acct[o].b, now)
  /\ store' = [store EXCEPT ![o] = "open"]
  /\ UNCHANGED <<now, acct, webhooks, reading>>

\* Mutant: a suspended store is taken for one whose retention time is over.
RequestCleanupEarly(o) ==
  /\ LockFree
  /\ store[o] = "open"
  /\ acct[o].b.status = "suspended"
  /\ PendingAttempts(acct[o]) = {}
  /\ store' = [store EXCEPT ![o] = "closing"]
  /\ UNCHANGED <<now, acct, webhooks, reading>>

\* Mutant: a recovery payment may still be on its way.
RequestCleanupUnsettled(o) ==
  /\ LockFree
  /\ store[o] = "open"
  /\ acct[o].b.status = "suspended"
  /\ acct[o].b.retention <= now
  /\ store' = [store EXCEPT ![o] = "closing"]
  /\ UNCHANGED <<now, acct, webhooks, reading>>

\* requestStoreCleanup, by an administrator
RequestCleanup(o) ==
  /\ LockFree
  /\ store[o] = "open"
  /\ acct[o].b.status = "suspended"
  /\ acct[o].b.retention <= now
  /\ PendingAttempts(acct[o]) = {}
  /\ store' = [store EXCEPT ![o] = "closing"]
  /\ UNCHANGED <<now, acct, webhooks, reading>>

\* finishStoreJob for the archive job, which takes no billing lock
FinishArchive(o) ==
  /\ store[o] = "closing"
  /\ store' = [store EXCEPT ![o] = "closed"]
  /\ UNCHANGED <<now, acct, webhooks, reading>>

-----------------------------------------------------------------------------
(* Stripe and its customers *)

StripeStep(o, after) ==
  /\ acct' = [acct EXCEPT ![o] = after]
  /\ UNCHANGED <<now, store, webhooks, reading>>

\* A customer can pay in a session whose URL this system has handed out.
Pay(o, a) ==
  LET offer == acct[o].c[a].offer
      end   == now + PeriodMonths(offer.plan, offer.gift)
  IN  /\ acct[o].c[a].url
      /\ acct[o].e[a] = "open"
      /\ StripeStep(o, [acct[o] EXCEPT
           !.e[a] = "complete",
           !.u[a] = [state |-> "live", cancels |-> FALSE, plan |-> offer.plan,
                     sched |-> NoPlan, end |-> end, inv |-> "initial",
                     invEnd |-> end, paidAt |-> now, paidEnd |-> end]])

ExpireSession(o, a) ==
  /\ acct[o].e[a] = "open"
  /\ StripeStep(o, [acct[o] EXCEPT !.e[a] = "expired"])

\* A period is over: the renewal invoice is drafted, at the scheduled price.
Renew(o, a) ==
  LET s    == acct[o].u[a]
      plan == IF s.sched = NoPlan THEN s.plan ELSE s.sched
      end  == s.end + PeriodMonths(plan, FALSE)
  IN  /\ s.state = "live" /\ ~s.cancels /\ s.end <= now
      /\ s.inv \in {"initial", "paid"}
      /\ StripeStep(o, [acct[o] EXCEPT !.u[a] =
           [@ EXCEPT !.inv = "draft", !.plan = plan, !.sched = NoPlan,
                     !.end = end, !.invEnd = end]])

\* The card is charged, at the first attempt or a later one.  A failed invoice
\* stays collectible after its subscription was cancelled, until it is voided.
Collect(o, a) ==
  LET s == acct[o].u[a]
  IN  /\ (s.inv = "draft" /\ s.state = "live") \/ s.inv = "failed"
      /\ StripeStep(o, [acct[o] EXCEPT !.u[a] =
           [@ EXCEPT !.inv = "paid", !.paidEnd = s.invEnd]])

Refuse(o, a) ==
  /\ acct[o].u[a].inv = "draft" /\ acct[o].u[a].state = "live"
  /\ StripeStep(o, [acct[o] EXCEPT !.u[a].inv = "failed"])

\* A subscription ends at its cancel_at date, or when Stripe gives up on it.
EndSubscription(o, a) ==
  LET s == acct[o].u[a]
  IN  /\ s.state = "live"
      /\ (s.cancels /\ s.end <= now) \/ s.inv = "failed"
      /\ StripeStep(o, [acct[o] EXCEPT !.u[a].state = "canceled"])

\* Time passes between transactions, and a session does not outlive its day.
Tick ==
  /\ now < MaxTime
  /\ LockFree
  /\ \A o \in Owner, a \in Attempt : acct[o].e[a] # "open"
  /\ now' = now + 1
  /\ UNCHANGED <<acct, store, webhooks, reading>>

-----------------------------------------------------------------------------

Purchase(o) ==
  \/ \E ask \in Asks, reject \in BOOLEAN : ReuseCheckout(o, ask, reject)
  \/ \E a \in Attempt, ask \in Asks, reject \in BOOLEAN :
       ReserveCheckout(o, a, ask, reject)
  \/ \E a \in Attempt, reject \in BOOLEAN : OpenCheckout(o, a, reject)

Manage(o) ==
  \/ \E plan \in Plan : SchedulePlan(o, plan)
  \/ \E enabled \in BOOLEAN : SetRenewal(o, enabled)
  \/ CreateStore(o)
  \/ RequestCleanup(o)
  \/ FinishArchive(o)

Deliver ==
  \/ \E o \in Owner, a \in Attempt, kind \in EventKind : ReadEvent(o, a, kind)
  \/ \E h \in webhooks : HandleEvent(h)

Reconcile ==
  \/ ReconcileRead
  \/ \E reject \in BOOLEAN : ReconcileCommit(reject)
  \/ ReconcileAbort
  \/ SendNotices

Stripe(o, a) ==
  \/ Pay(o, a)
  \/ ExpireSession(o, a)
  \/ Renew(o, a)
  \/ Collect(o, a)
  \/ Refuse(o, a)
  \/ EndSubscription(o, a)

Next ==
  \/ \E o \in Owner : Purchase(o) \/ Manage(o)
  \/ Deliver
  \/ Reconcile
  \/ \E o \in Owner, a \in Attempt : Stripe(o, a)
  \/ Tick

Spec == Init /\ [][Next]_vars

\* The timer runs the reconciler again and again; a run may be lost, not every
\* one of them.
ReconcileSucceeds ==
  /\ reading # NoReading
  /\ \A o \in Owner : ~ReconcileBlocked(o)
  /\ acct' = [o \in Owner |-> Reconciled(o, FALSE)]
  /\ reading' = NoReading
  /\ UNCHANGED <<now, store, webhooks>>

FairSpec == Spec /\ WF_vars(ReconcileRead) /\ SF_vars(ReconcileSucceeds)

-----------------------------------------------------------------------------
(* Safety *)

\* An owner has at most one way of being charged: one payable session or one
\* live subscription, whatever is retried, replayed or lost on the way
\* ("only one of them can ever be paid", createCheckout).
Chargeable(o) ==
  {a \in Attempt : acct[o].e[a] = "open" \/ acct[o].u[a].state = "live"}

ChargedOnce == \A o \in Owner : Cardinality(Chargeable(o)) <= 1

\* reapCheckouts and createCheckout look for the one unsettled attempt.
OnePendingCheckout ==
  \A o \in Owner : Cardinality(PendingAttempts(acct[o])) <= 1

\* A session the customer paid in is never given up as expired: its attempt is
\* either applied or still on the list the reconciler settles.
PaymentNotForgotten ==
  \A o \in Owner, a \in Attempt :
    acct[o].e[a] = "complete" => acct[o].c[a].status \in {"open", "paid"}

\* A paid checkout is never refused as "another active subscription", which
\* would roll back the reconciliation of every owner.
NoPaymentConflict ==
  \A o \in Owner, a \in Attempt :
    acct[o].e[a] = "complete" => ~PaymentConflict(acct[o], a)

\* Suspension leaves nothing at Stripe that could still be collected.
SuspendedIsUncollectible ==
  \A o \in Owner :
    LET v == acct[o] IN
    v.b.status = "suspended" =>
      v.u[v.b.sub].state = "canceled" /\ v.u[v.b.sub].inv \notin {"draft", "failed"}

\* Nobody is served beyond what the payments on their subscription bought.
NoUnpaidEntitlement ==
  \A o \in Owner :
    LET v == acct[o] IN v.b.end # 0 => v.b.end <= v.u[v.b.sub].paidEnd

\* The shared machine is never oversold: counting at Stripe who can still be
\* charged or has paid, and the stores that physically exist.
NeedsPlace(o) ==
  \/ store[o] \in {"open", "closing"}
  \/ \E a \in Attempt : acct[o].e[a] = "open"
  \/ store[o] = "none" /\ \E a \in Attempt : acct[o].e[a] = "complete"

CapacityRespected == 1 + Cardinality({o \in Owner : NeedsPlace(o)}) <= Limit

\* "Limited to three successful subscription openings": counting at Stripe the
\* test sessions that were paid or still can be.
TestPlacesRespected ==
  Cardinality({x \in Owner \X Attempt :
                 /\ acct[x[1]].c[x[2]].offer.test
                 /\ acct[x[1]].e[x[2]] \in {"open", "complete"}}) <= TestLimit

\* Once cleanup of a store has begun its owner can no longer be charged.
ClosingIsUnpayable ==
  \A o \in Owner :
    store[o] \in {"closing", "closed"} =>
      Chargeable(o) = {} /\ PendingAttempts(acct[o]) = {}

\* The introductory bonus is granted to at most one attempt of an owner, and
\* only to one that nothing was paid before.
BonusOnce ==
  \A o \in Owner :
    \A a, p \in Attempt :
      /\ a # p
      /\ acct[o].c[a].status = "paid" /\ acct[o].c[p].status = "paid"
      /\ acct[o].c[a].offer.gift
      => ~acct[o].c[p].offer.gift /\ acct[o].u[a].paidAt < acct[o].u[p].paidAt

\* "Retain store data for three calendar months from actual suspension/end of
\* service" (docs): whatever was replayed, renewed or recovered in between, no
\* store is deleted before that time is over.
DataRetained ==
  \A o \in Owner :
    store[o] \in {"closing", "closed"} => acct[o].b.end + Retention <= now

\* No step of any handler, however late its snapshot, takes paid time away.
EntitlementKept == [][\A o \in Owner : acct'[o].b.end >= acct[o].b.end]_vars

-----------------------------------------------------------------------------
(* Refinement: what billing and provisioning rely on of each other *)

\* What billing says of an owner (billingAccess, and the condition of cleanup).
Standing(o) ==
  IF AccessAllowed(acct[o].b, now) THEN "paid"
  ELSE IF acct[o].b.status = "suspended" /\ acct[o].b.retention <= now THEN "due"
  ELSE "suspended"

Contract == INSTANCE StoreContract WITH
              Store <- Owner, tenant <- store,
              standing <- [o \in Owner |-> Standing(o)]

\* Stores are opened for owners who paid and deleted from owners whose retention
\* is over; from then on no payment, recovery, late webhook or reconciler brings
\* the owner back.
ContractKept == Contract!Spec

-----------------------------------------------------------------------------
(* Liveness *)

\* A payment is applied even if no webhook for it is ever delivered.
PaymentApplied ==
  \A o \in Owner, a \in Attempt :
    acct[o].e[a] = "complete" ~> acct[o].c[a].status = "paid"

\* An owner who stops paying does not stay served: once the grace time after the
\* paid period is over, the account is suspended or was paid again.
UnpaidIsSuspended ==
  \A o \in Owner :
    acct[o].b.status \in {"active", "grace"} /\ acct[o].b.end + Grace <= now
      ~> acct[o].b.status = "suspended" \/ acct[o].b.end > now

-----------------------------------------------------------------------------
(* Claims of the sources that the code does not keep *)

\* billingAccess: "Keep automatic renewal continuous while settling, even before
\* a webhook/timer records an actual failed attempt".  So a store whose
\* subscription Stripe is going to renew is not suspended before the settlement
\* time is over.
SettlementKept ==
  [][\A o \in Owner :
       LET v == acct[o]
           s == v.u[v.b.sub]
       IN  /\ v.b.status = "active" /\ acct'[o].b.status = "suspended"
           /\ s.state = "live" /\ ~s.cancels
           => now >= v.b.end + Grace]_vars

\* The onboarding specification: "Actual suspended time creates no additional
\* charges".  So no renewal that Stripe collected lies in suspended time.
SuspendedTimeIsFree ==
  \A o \in Owner :
    LET v == acct[o] IN
    v.b.status = "suspended" => v.u[v.b.sub].paidEnd <= v.b.end
=============================================================================
