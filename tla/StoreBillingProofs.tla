-------------------------- MODULE StoreBillingProofs --------------------------
(***************************************************************************)
(* The invariant of StoreBilling: every account is Sound, and what was     *)
(* read of Stripe, by a webhook or by the reconciler, is still true in     *)
(* what counts: payments and expired sessions are final, and paid service  *)
(* only grows.                                                             *)
(***************************************************************************)
EXTENDS StoreBilling, BillingModelProofs, FiniteSetTheorems

\* A webhook that waits to be handled.
HookFits(h) ==
  LET v == acct[h.owner]
      a == h.attempt
  IN  /\ v.e[a] # "none"
      /\ h.session \in {"complete", "expired"} => v.e[a] = h.session
      /\ h.kind # "session" => SnapshotFits(h.sub, v.u[a], v.e[a])

HooksFit == \A h \in webhooks : HookFits(h)

ReadingFits ==
  reading # NoReading =>
    \A o \in Owner : /\ SeenFits(acct[o], reading.e[o])
                     /\ SnapshotsFit(acct[o], reading.u[o])

\* A store was paid for, and is deleted only from an account that is closed.
StoresFit ==
  \A o \in Owner :
    /\ store[o] = "open" => acct[o].b.paid
    /\ store[o] \in {"closing", "closed"} => ClosedOut(acct[o])

AccountsSound == \A o \in Owner : Sound(acct[o], now)

BillingInv == TypeOK /\ AccountsSound /\ HooksFit /\ ReadingFits /\ StoresFit

\* Whatever happens, payments and expired sessions are final.
Onward(v, w) ==
  \A a \in Attempt :
    /\ v.e[a] \in {"complete", "expired"} => w.e[a] = v.e[a]
    /\ v.e[a] # "none" => w.e[a] # "none"
    /\ v.u[a].paidEnd <= w.u[a].paidEnd

-----------------------------------------------------------------------------
(* The steps of createCheckout on one account *)

\* The old attempt is expired at Stripe and in its row together.
LEMMA ExpireCurrentSound ==
  ASSUME NEW v, NEW t \in Nat, Sound(v, t), MayExpireCurrent(v)
  PROVE  /\ Sound(ExpireCurrent(v), t) /\ Later(v, ExpireCurrent(v), t)
         /\ PendingAttempts(ExpireCurrent(v)) = {}
<1> DEFINE w == ExpireCurrent(v)
<1>0. v \in Account
  BY DEF Sound
<1>1. \A a \in Attempt : a \in PendingAttempts(v) <=> v.c[a].status \in Unsettled
  BY DEF PendingAttempts, Unsettled
<1>2. ASSUME NEW a \in Attempt
      PROVE  [v.c[a] EXCEPT !.status = "expired"] \in Checkout
  BY <1>0, SessionTypes DEF Checkout
<1>3. /\ w \in Account /\ w.b = v.b /\ w.u = v.u
      /\ \A a \in Attempt :
           /\ w.c[a] = IF a \in PendingAttempts(v)
                         THEN [v.c[a] EXCEPT !.status = "expired"] ELSE v.c[a]
           /\ w.e[a] = IF a \in PendingAttempts(v) THEN "expired" ELSE v.e[a]
  <2> DEFINE c == [a \in Attempt |-> IF a \in PendingAttempts(v)
                                THEN [v.c[a] EXCEPT !.status = "expired"]
                                ELSE v.c[a]]
             e == [a \in Attempt |-> IF a \in PendingAttempts(v) THEN "expired"
                                                                 ELSE v.e[a]]
  <2>1. c \in [Attempt -> Checkout]
    BY <1>0, <1>2, SessionTypes
  <2>2. e \in [Attempt -> SessionState]
    BY <1>0, SessionTypes DEF SessionState
  <2>3. w = [v EXCEPT !.c = c, !.e = e]
    BY DEF ExpireCurrent
  <2>4. \A a \in Attempt :
           /\ c[a] = IF a \in PendingAttempts(v)
                         THEN [v.c[a] EXCEPT !.status = "expired"] ELSE v.c[a]
           /\ e[a] = IF a \in PendingAttempts(v) THEN "expired" ELSE v.e[a]
    OBVIOUS
  <2> HIDE DEF c, e, w
  <2>5. w \in Account /\ w.b = v.b /\ w.u = v.u /\ w.c = c /\ w.e = e
    BY <1>0, <2>1, <2>2, <2>3 DEF Account
  <2> QED
    BY <2>4, <2>5
<1> HIDE DEF w
<1>4. ASSUME NEW a \in Attempt
      PROVE  /\ AttemptFits(w.b, a, w.c[a], w.e[a], w.u[a], t)
             /\ CheckoutStep(v.c[a], w.c[a])
             /\ SessionStep(v.c[a], v.e[a], w.e[a], t)
             /\ SubscriptionStep(v.u[a], w.u[a])
             /\ w.c[a].status = "paid" => v.c[a].status = "paid"
             /\ w.c[a].status \notin Unsettled
  <2> DEFINE c == v.c[a]  r == w.c[a]  s == v.u[a]
  <2>1. AttemptFits(v.b, a, c, v.e[a], s, t) /\ c \in Checkout
    BY <1>0, SessionTypes DEF Sound
  <2>2. w.u[a] = s /\ SubscriptionStep(s, s)
    BY <1>3 DEF SubscriptionStep
  <2>3. CASE a \in PendingAttempts(v)
    <3>1. c.sid /\ v.e[a] # "complete"
      BY <2>3 DEF MayExpireCurrent
    <3>2. r = [c EXCEPT !.status = "expired"] /\ w.e[a] = "expired"
      BY <1>3, <2>3
    <3>3. r.status = "expired" /\ r.offer = c.offer /\ r.at = c.at
          /\ r.sid = c.sid /\ r.url = c.url
      BY <2>1, <3>2 DEF Checkout
    <3>4. c.status \in Unsettled
      BY <1>1, <2>3
    <3> HIDE DEF c, r, s
    <3>5. AttemptFits(v.b, a, r, "expired", s, t)
      BY <2>1, <3>1, <3>3, <3>4
         DEF AttemptFits, SessionFits, InvoiceFits, ServiceFits, Unsettled
    <3>6. CheckoutStep(c, r) /\ SessionStep(c, v.e[a], "expired", t)
      BY <3>1, <3>3, <3>4 DEF CheckoutStep, SessionStep, Unsettled
    <3> QED
      BY <1>3, <2>2, <3>2, <3>3, <3>5, <3>6 DEF c, r, s, Unsettled
  <2>4. CASE a \notin PendingAttempts(v)
    <3>1. r = c /\ w.e[a] = v.e[a] /\ c.status \notin Unsettled
      BY <1>1, <1>3, <2>4
    <3>2. CheckoutStep(c, c) /\ SessionStep(c, v.e[a], v.e[a], t)
      BY DEF CheckoutStep, SessionStep
    <3> QED
      BY <1>3, <2>1, <2>2, <3>1, <3>2
  <2> QED
    BY <2>3, <2>4
<1>5. Sound(w, t) /\ Later(v, w, t)
  BY <1>3, <1>4, SameRow
<1>6. PendingAttempts(w) = {}
  BY <1>4 DEF PendingAttempts, Unsettled
<1> QED
  BY <1>5, <1>6 DEF w

\* The rows a reservation leaves, when nothing else is unsettled.
Reserved(v, a, offer, t) ==
  [v EXCEPT !.b = IF v.b.status = "none" THEN PendingBilling(offer) ELSE v.b,
            !.c[a] = [status |-> "reserved", offer |-> offer, at |-> t,
                      sid |-> FALSE, url |-> FALSE]]

\* A reservation with nothing else unsettled.
LEMMA ReservedSound ==
  ASSUME NEW v, NEW t \in Nat, NEW a \in Attempt, NEW offer \in Offer,
         Sound(v, t), PendingAttempts(v) = {}, v.c[a].status = "none",
         v.b.status \in {"none", "pending", "suspended"},
         offer.gift => ~v.b.paid
  PROVE  LET w == Reserved(v, a, offer, t)
         IN  /\ Sound(w, t)
             /\ w.e = v.e /\ w.u = v.u
             /\ \A p \in Attempt \ {a} : w.c[p] = v.c[p]
             /\ w.c[a].status = "reserved" /\ w.c[a].offer = offer
             /\ w.b.end = v.b.end
             /\ w.b.paid = v.b.paid
<1> DEFINE r == [status |-> "reserved", offer |-> offer, at |-> t,
                 sid |-> FALSE, url |-> FALSE]
           d == IF v.b.status = "none" THEN PendingBilling(offer) ELSE v.b
           w == Reserved(v, a, offer, t)
<1>0. v \in Account /\ v.b \in Billing
  BY DEF Sound, Account
<1>1. r \in Checkout
  BY DEF Checkout
<1>2. RowFits(v.b, t)
  BY DEF Sound
<1>3. PendingBilling(offer) \in Billing
  BY DEF PendingBilling, NoBilling, Billing, Offer, Plan, NoPlan
<1>4. /\ PendingBilling(offer).status = "pending"
      /\ PendingBilling(offer).sub = NoAttempt
      /\ PendingBilling(offer).end = 0
      /\ PendingBilling(offer).graceEnd = 0
      /\ PendingBilling(offer).paid = FALSE
      /\ PendingBilling(offer).gift = FALSE
  BY DEF PendingBilling, NoBilling
<1>5. /\ d \in Billing /\ d.status \in {"pending", "suspended"}
      /\ d.status = "suspended" <=> v.b.status = "suspended"
      /\ d.sub = v.b.sub /\ d.end = v.b.end /\ d.paid = v.b.paid
      /\ d.gift => d.paid
      /\ d.graceEnd \in {0, d.end + Grace}
      /\ d.status = "suspended" => d.end + Retention <= d.retention
      /\ d.status = "pending" => d.sub = NoAttempt /\ d.end = 0 /\ ~d.paid
      /\ d.status = "suspended" => d.sub \in Attempt /\ d.paid /\ d.end <= t
  BY <1>0, <1>2, <1>3, <1>4 DEF RowFits, Billing
<1>6. r.status = "reserved" /\ r.offer = offer /\ r.at = t /\ ~r.sid /\ ~r.url
  OBVIOUS
<1> HIDE DEF d, r
<1>7. /\ w \in Account /\ w.b = d /\ w.e = v.e /\ w.u = v.u /\ w.c[a] = r
      /\ \A p \in Attempt \ {a} : w.c[p] = v.c[p]
  <2>1. w = [[v EXCEPT !.b = d] EXCEPT !.c[a] = r]
    BY DEF Reserved, d, r
  <2> HIDE DEF w
  <2> QED
    BY <1>0, <1>1, <1>5, <2>1 DEF Account
<1> HIDE DEF w
<1>8. ASSUME NEW p \in Attempt
      PROVE  v.c[p].status \notin Unsettled
  BY DEF PendingAttempts, Unsettled
<1>9. ASSUME NEW p \in Attempt, p # a
      PROVE  AttemptFits(d, p, v.c[p], v.e[p], v.u[p], t)
  <2>1. AttemptFits(v.b, p, v.c[p], v.e[p], v.u[p], t)
    BY DEF Sound
  <2>2. ServiceFits(d, p, v.c[p], v.e[p], v.u[p], t)
    BY <1>5, <1>8, <2>1 DEF AttemptFits, ServiceFits, Served
  <2> QED
    BY <2>1, <2>2 DEF AttemptFits
<1>10. AttemptFits(d, a, r, v.e[a], v.u[a], t)
  <2>1. AttemptFits(v.b, a, v.c[a], v.e[a], v.u[a], t)
    BY DEF Sound
  <2>2. v.e[a] = "none" /\ v.b.sub # a
    BY <2>1 DEF AttemptFits, SessionFits, ServiceFits
  <2> QED
    BY <1>5, <1>6, <2>1, <2>2
       DEF AttemptFits, SessionFits, ServiceFits, Unsettled
<1>11. RowFits(d, t)
  BY <1>5 DEF RowFits
<1>12. OneUnsettled(w.c)
  BY <1>7, <1>8 DEF OneUnsettled
<1>13. BonusFirst(w.c, w.u)
  <2>1. \A p \in Attempt :
          w.c[p].status = "paid" => v.c[p].status = "paid" /\ w.c[p] = v.c[p]
    BY <1>6, <1>7
  <2> QED
    BY <1>7, <2>1 DEF Sound, BonusFirst
<1>14. Sound(w, t)
  BY <1>7, <1>9, <1>10, <1>11, <1>12, <1>13 DEF Sound
<1> QED
  BY <1>5, <1>6, <1>7, <1>14 DEF w

-----------------------------------------------------------------------------
(* What a transaction does to all accounts *)

\* All of `after` is what a transaction may make of the accounts.
Follows(after) ==
  /\ after \in [Owner -> Account]
  /\ \A o \in Owner : Sound(after[o], now) /\ Later(acct[o], after[o], now)

\* A transaction that does nothing.
LEMMA NowStays == BillingInv => now \in Nat /\ Follows(acct)
<1> SUFFICES ASSUME BillingInv
             PROVE  now \in Nat /\ Follows(acct)
  OBVIOUS
<1>1. now \in Nat /\ acct \in [Owner -> Account]
  BY DEF BillingInv, TypeOK
<1> QED
  BY <1>1, NothingIsLater DEF BillingInv, AccountsSound, Follows

\* Stripe keeps what a lost transaction told it, which a later one may find.
LEMMA CommitFollows ==
  ASSUME BillingInv, NEW after, Follows(after), Commit(after)
  PROVE  /\ acct' \in [Owner -> Account]
         /\ \A o \in Owner : Sound(acct'[o], now) /\ Later(acct[o], acct'[o], now)
<1>1. CASE acct' = after
  BY <1>1 DEF Follows
<1>2. CASE acct' = [o \in Owner |-> RolledBack(acct[o], after[o])]
  <2>1. ASSUME NEW o \in Owner
        PROVE  /\ Sound(RolledBack(acct[o], after[o]), now)
               /\ Later(acct[o], RolledBack(acct[o], after[o]), now)
    <3>1. Sound(acct[o], now) /\ Sound(after[o], now) /\ Later(acct[o], after[o], now)
      BY DEF BillingInv, AccountsSound, Follows
    <3>2. RolledBack(acct[o], after[o]) = Undone(acct[o], after[o])
      BY DEF RolledBack, Undone
    <3> QED
      BY <3>1, <3>2, NowStays, UndoneSound
  <2>2. \A o \in Owner : RolledBack(acct[o], after[o]) \in Account
    BY <2>1 DEF Sound
  <2> QED
    BY <1>2, <2>1, <2>2
<1> QED
  BY <1>1, <1>2 DEF Commit

\* A transaction that changes one account.
LEMMA OneFollows ==
  ASSUME BillingInv, NEW o \in Owner, NEW w, Sound(w, now), Later(acct[o], w, now)
  PROVE  Follows([acct EXCEPT ![o] = w])
<1>1. w \in Account
  BY DEF Sound
<1>2. acct \in [Owner -> Account]
  BY DEF BillingInv, TypeOK
<1> QED
  BY <1>1, <1>2, NowStays DEF Follows

\* createCheckout settles every account before it looks at its request.
LEMMA SettledFollows ==
  ASSUME BillingInv, NEW o \in Owner, NEW reject \in BOOLEAN
  PROVE  Follows(Settled(o, reject))
<1> DEFINE reap(x) == ReapCheckouts(acct[x], acct[x].e, reject, now)
           reaped == [x \in Owner |-> reap(x)]
           last == ReconcileOne(reap(o), reap(o).u, now)
<1>0. now \in Nat /\ acct \in [Owner -> Account]
  BY DEF BillingInv, TypeOK
<1>1. ASSUME NEW x \in Owner
      PROVE  Sound(reap(x), now) /\ Later(acct[x], reap(x), now) /\ reap(x) \in Account
  <2>1. Sound(acct[x], now) /\ SeenFits(acct[x], acct[x].e)
    BY DEF BillingInv, AccountsSound, SeenFits
  <2>2. Sound(reap(x), now) /\ Later(acct[x], reap(x), now)
    BY <1>0, <2>1, ReapCheckoutsSound
  <2> QED
    BY <2>2 DEF Sound
<1>2. Settled(o, reject) = [reaped EXCEPT ![o] = last]
  BY DEF Settled
<1> HIDE DEF reap
<1>3. Sound(last, now) /\ Later(acct[o], last, now) /\ last \in Account
  <2>1. SnapshotsFit(reap(o), reap(o).u)
    <3> SUFFICES ASSUME NEW a \in Attempt
                 PROVE  SnapshotFits(reap(o).u[a], reap(o).u[a], reap(o).e[a])
      BY DEF SnapshotsFit
    <3>1. AttemptFits(reap(o).b, a, reap(o).c[a], reap(o).e[a], reap(o).u[a], now)
      BY <1>1 DEF Sound
    <3>2. reap(o).u[a] \in Subscription
      BY <1>1, SessionTypes
    <3> QED
      BY <3>1, <3>2 DEF AttemptFits, InvoiceFits, SnapshotFits
  <2>2. Sound(last, now) /\ Later(reap(o), last, now)
    BY <1>0, <1>1, <2>1, ReconcileOneSound
  <2>3. last \in Account
    BY <2>2 DEF Sound
  <2> QED
    BY <1>0, <1>1, <2>2, <2>3, LaterComposes
<1> HIDE DEF last
<1>4. [reaped EXCEPT ![o] = last] \in [Owner -> Account]
  BY <1>1, <1>3
<1>5. \A x \in Owner : [reaped EXCEPT ![o] = last][x] = IF x = o THEN last ELSE reap(x)
  BY <1>1
<1> QED
  BY <1>1, <1>2, <1>3, <1>4, <1>5 DEF Follows

\* The accounts after a transaction other than a reservation, ...
AccountsFollow ==
  /\ acct' \in [Owner -> Account]
  /\ \A o \in Owner : Sound(acct'[o], now) /\ Later(acct[o], acct'[o], now)

\* ... which every operation is.
LEMMA CommitOneFollows ==
  ASSUME BillingInv, NEW o \in Owner, NEW w, Sound(w, now), Later(acct[o], w, now),
         CommitOne(o, w)
  PROVE  AccountsFollow
<1>1. Follows([acct EXCEPT ![o] = w])
  BY OneFollows
<1> QED
  BY <1>1, CommitFollows DEF CommitOne, AccountsFollow

\* createCheckout that reuses the unsettled attempt.
LEMMA ReuseFollows ==
  ASSUME BillingInv, NEW o \in Owner, NEW ask \in Asks, NEW reject \in BOOLEAN,
         ReuseCheckout(o, ask, reject)
  PROVE  AccountsFollow
  BY SettledFollows, CommitFollows DEF ReuseCheckout, AccountsFollow

\* The second transaction of createCheckout.
LEMMA OpenFollows ==
  ASSUME BillingInv, NEW o \in Owner, NEW a \in Attempt, NEW reject \in BOOLEAN,
         OpenCheckout(o, a, reject)
  PROVE  AccountsFollow
<1> DEFINE v == acct[o]
           w == IF NotCreated(v, a, reject, now)
                  THEN [v EXCEPT !.c[a].status = "expired"]
                  ELSE OpenSession(v, a)
<1>0. Sound(v, now) /\ now \in Nat /\ v.c[a].status = "reserved"
  BY DEF BillingInv, AccountsSound, TypeOK, OpenCheckout
<1>1. AttemptFits(v.b, a, v.c[a], v.e[a], v.u[a], now) /\ v.c[a].at \in Nat
  BY <1>0, SessionTypes DEF Sound
<1>2. Sound(w, now) /\ Later(v, w, now)
  <2>1. CASE NotCreated(v, a, reject, now)
    <3>1. v.e[a] \notin {"open", "complete"}
      BY <1>0, <1>1, <2>1 DEF NotCreated, AttemptFits, SessionFits
    <3> QED
      BY <1>0, <2>1, <3>1, ExpiringSound
  <2>2. CASE ~NotCreated(v, a, reject, now)
    <3>1. v.e[a] = "none" => now <= v.c[a].at
      BY <1>0, <1>1, <2>2 DEF NotCreated
    <3>2. v.c[a].status \in Unsettled
      BY <1>0 DEF Unsettled
    <3> QED
      BY <1>0, <2>2, <3>1, <3>2, OpeningSound
  <2> QED
    BY <2>1, <2>2
<1>3. CommitOne(o, w)
  BY DEF OpenCheckout
<1> HIDE DEF w
<1> QED
  BY <1>2, <1>3, CommitOneFollows

\* Who has service has a subscription at Stripe.
LEMMA ServedHasSubscription ==
  ASSUME NEW v, NEW t \in Nat, Sound(v, t), v.b.status \in Served
  PROVE  v.b.sub \in Attempt /\ v.u[v.b.sub].state # "none"
<1>1. v.b.sub \in Attempt
  BY DEF Sound, RowFits, Served
<1>2. AttemptFits(v.b, v.b.sub, v.c[v.b.sub], v.e[v.b.sub], v.u[v.b.sub], t)
  BY <1>1 DEF Sound
<1> QED
  BY <1>1, <1>2 DEF AttemptFits, SessionFits, InvoiceFits, ServiceFits

\* schedulePlan.
LEMMA SchedulePlanFollows ==
  ASSUME BillingInv, NEW o \in Owner, NEW plan \in Plan, SchedulePlan(o, plan)
  PROVE  AccountsFollow
<1> DEFINE v == acct[o]
           a == v.b.sub
           p == IF plan = v.b.plan THEN NoPlan ELSE plan
           r == [v.u[a] EXCEPT !.sched = plan]
           d == [v.b EXCEPT !.pending = p]
           w == [[v EXCEPT !.u[a] = r] EXCEPT !.b = d]
<1>0. /\ Sound(v, now) /\ now \in Nat /\ v.b.status \in Served
      /\ v \in Account /\ v.b \in Billing
  BY DEF BillingInv, AccountsSound, TypeOK, SchedulePlan, Served, Sound, Account
<1>1. a \in Attempt
  BY <1>0, ServedHasSubscription
<1>2. v.u[a] \in Subscription
  BY <1>0, <1>1, SessionTypes
<1>3. r \in Subscription /\ SubscriptionStep(v.u[a], r)
  BY <1>2 DEF Subscription, SubscriptionStep
<1>4. d \in Billing /\ SameStanding(v.b, d)
  BY <1>0 DEF Billing, SameStanding, NoPlan
<1>5. CommitOne(o, w)
  <2>1. CommitOne(o, [v EXCEPT !.u[v.b.sub].sched = plan, !.b.pending = p])
    BY DEF SchedulePlan
  <2>2. [v EXCEPT !.u[v.b.sub].sched = plan, !.b.pending = p] = w
    BY <1>0, <1>1, <1>2 DEF Account, Subscription, Billing
  <2> QED
    BY <2>1, <2>2
<1> HIDE DEF r, d
<1>6. /\ w \in Account /\ w.b = d /\ w.c = v.c /\ w.e = v.e
      /\ w.u[a] = r /\ \A q \in Attempt \ {a} : w.u[q] = v.u[q]
  BY <1>0, <1>1, <1>3, <1>4 DEF Account
<1> HIDE DEF w
<1>7. \A q \in Attempt : SubscriptionStep(v.u[q], w.u[q])
  BY <1>3, <1>6 DEF SubscriptionStep
<1>8. Sound(w, now) /\ Later(v, w, now)
  BY <1>0, <1>4, <1>6, <1>7, SameService
<1> QED
  BY <1>5, <1>8, CommitOneFollows

\* What setCancelAtPeriodEnd does to an account.
LEMMA SetCancelFacts ==
  ASSUME NEW v, NEW t \in Nat, NEW cancel \in BOOLEAN,
         Sound(v, t), v.b.status \in Served
  PROVE  LET x == SetCancelAtEnd(v, cancel, t)
         IN  /\ x \in Account /\ x.b = v.b /\ x.c = v.c /\ x.e = v.e
             /\ \A q \in Attempt : SubscriptionStep(v.u[q], x.u[q])
<1> DEFINE a == v.b.sub
           r == [v.u[a] EXCEPT !.sched = NoPlan]
           w == [v EXCEPT !.u[a] = r]
           s == [w.u[a] EXCEPT !.cancels = cancel]
           z == [w EXCEPT !.u[a] = s]
<1>0. v \in Account /\ a \in Attempt /\ v.u[a].state # "none"
  BY ServedHasSubscription DEF Sound
<1>1. v.u[a] \in Subscription
  BY <1>0, SessionTypes
<1>2. r \in Subscription /\ SubscriptionStep(v.u[a], r) /\ r.state = v.u[a].state
  BY <1>1 DEF Subscription, SubscriptionStep, NoPlan
<1>3. [v EXCEPT !.u[a].sched = NoPlan] = w
  BY <1>0, <1>1 DEF Account, Subscription
<1> HIDE DEF r
<1>4. /\ w \in Account /\ w.b = v.b /\ w.c = v.c /\ w.e = v.e
      /\ w.u[a] = r /\ \A q \in Attempt \ {a} : w.u[q] = v.u[q]
  BY <1>0, <1>2 DEF Account
<1> HIDE DEF w
<1>5. CASE cancel /\ v.b.end <= t
  <2> DEFINE x == StopCollection(w, a)
  <2>1. SetCancelAtEnd(v, cancel, t) = x
    BY <1>3, <1>5 DEF SetCancelAtEnd
  <2>2. /\ x \in Account /\ x.b = w.b /\ x.c = w.c /\ x.e = w.e
        /\ \A q \in Attempt : SubscriptionStep(w.u[q], x.u[q])
    BY <1>0, <1>2, <1>4, StopCollectionFacts
  <2> HIDE DEF x
  <2>3. ASSUME NEW q \in Attempt
        PROVE  SubscriptionStep(v.u[q], x.u[q])
    <3>1. SubscriptionStep(w.u[q], x.u[q])
      BY <2>2
    <3>2. CASE q = a
      <4>1. SubscriptionStep(v.u[q], w.u[q])
        BY <1>2, <1>4, <3>2
      <4> QED
        BY <3>1, <4>1 DEF SubscriptionStep
    <3>3. CASE q # a
      <4>1. w.u[q] = v.u[q]
        BY <1>4, <3>3
      <4> QED
        BY <3>1, <4>1
    <3> QED
      BY <3>2, <3>3
  <2> QED
    BY <1>4, <2>1, <2>2, <2>3
<1>6. CASE ~(cancel /\ v.b.end <= t)
  <2>1. SetCancelAtEnd(v, cancel, t) = [w EXCEPT !.u[a].cancels = cancel]
    BY <1>3, <1>6 DEF SetCancelAtEnd
  <2>2. w.u[a] \in Subscription
    BY <1>2, <1>4
  <2>3. [w EXCEPT !.u[a].cancels = cancel] = z
    BY <1>0, <1>4, <2>2 DEF Account, Subscription
  <2>4. s \in Subscription /\ SubscriptionStep(w.u[a], s)
    BY <2>2 DEF Subscription, SubscriptionStep
  <2> HIDE DEF s
  <2>5. /\ z \in Account /\ z.b = w.b /\ z.c = w.c /\ z.e = w.e
        /\ z.u[a] = s /\ \A q \in Attempt \ {a} : z.u[q] = w.u[q]
    BY <1>0, <1>4, <2>4 DEF Account
  <2> HIDE DEF z
  <2>6. ASSUME NEW q \in Attempt
        PROVE  SubscriptionStep(v.u[q], z.u[q])
    <3>1. SubscriptionStep(v.u[q], w.u[q]) /\ SubscriptionStep(w.u[q], z.u[q])
      BY <1>2, <1>4, <2>4, <2>5 DEF SubscriptionStep
    <3> QED
      BY <3>1 DEF SubscriptionStep
  <2> QED
    BY <1>4, <2>1, <2>3, <2>5, <2>6
<1> QED
  BY <1>5, <1>6

\* cancelRenewal and resumeRenewal.
LEMMA SetRenewalFollows ==
  ASSUME BillingInv, NEW o \in Owner, NEW enabled \in BOOLEAN, SetRenewal(o, enabled)
  PROVE  AccountsFollow
<1> DEFINE v == acct[o]
           x == SetCancelAtEnd(v, ~enabled, now)
           d == [x.b EXCEPT !.cancel = ~enabled, !.pending = NoPlan]
           w == [x EXCEPT !.b = d]
<1>0. /\ Sound(v, now) /\ now \in Nat /\ v.b.status \in Served
      /\ v \in Account /\ v.b \in Billing
  BY DEF BillingInv, AccountsSound, TypeOK, SetRenewal, Served, Sound, Account
<1>1. /\ x \in Account /\ x.b = v.b /\ x.c = v.c /\ x.e = v.e
      /\ \A q \in Attempt : SubscriptionStep(v.u[q], x.u[q])
  BY <1>0, SetCancelFacts
<1>2. CommitOne(o, w)
  BY DEF SetRenewal
<1> HIDE DEF x
<1>3. d \in Billing /\ SameStanding(v.b, d)
  BY <1>0, <1>1 DEF Billing, SameStanding, NoPlan
<1> HIDE DEF d
<1>4. w \in Account /\ w.b = d /\ w.c = v.c /\ w.e = v.e /\ w.u = x.u
  BY <1>1, <1>3 DEF Account
<1> HIDE DEF w
<1>5. Sound(w, now) /\ Later(v, w, now)
  BY <1>0, <1>1, <1>3, <1>4, SameService
<1> QED
  BY <1>2, <1>5, CommitOneFollows

\* Writing a session identifier and the status a checkout has writes the first.
LEMMA StatusKept ==
  ASSUME NEW v \in Account, NEW a \in Attempt
  PROVE  [v EXCEPT !.c[a].sid = TRUE, !.c[a].status = v.c[a].status]
           = [v EXCEPT !.c[a].sid = TRUE]
<1> DEFINE k == [v.c[a] EXCEPT !.sid = TRUE]
<1>1. v.c \in [Attempt -> Checkout] /\ v.c[a] \in Checkout
  BY DEF Account
<1>2. [k EXCEPT !.status = v.c[a].status] = k
  BY <1>1 DEF Checkout
<1> HIDE DEF k
<1>3. [[v EXCEPT !.c[a] = k] EXCEPT !.c[a].status = v.c[a].status]
        = [v EXCEPT !.c[a] = [k EXCEPT !.status = v.c[a].status]]
  BY <1>1 DEF Account
<1> QED
  BY <1>2, <1>3 DEF k

\* A session event, read before.
LEMMA WithSessionSound ==
  ASSUME NEW v, NEW t \in Nat, NEW h \in Webhook, Sound(v, t), t = now,
         v.e[h.attempt] # "none",
         h.session \in {"complete", "expired"} => v.e[h.attempt] = h.session
  PROVE  Sound(WithSession(v, h), t) /\ Later(v, WithSession(v, h), t)
<1> DEFINE a == h.attempt
           x == [v EXCEPT !.c[a].sid = TRUE]
           c == [v.c[a] EXCEPT !.sid = TRUE]
           noted == [v EXCEPT
                       !.c[a].sid    = TRUE,
                       !.c[a].status = IF h.session = "expired" /\ v.c[a].status # "paid"
                                         THEN "expired" ELSE v.c[a].status]
<1>0. a \in Attempt /\ v \in Account /\ v.c[a] \in Checkout
  BY SessionTypes DEF Webhook, Sound
<1>1. WithSession(v, h) =
        IF h.session = "complete" THEN ApplyInitial(noted, a, now) ELSE noted
  <2>1. noted = [v EXCEPT
                  !.c[a].sid    = TRUE,
                  !.c[a].status = IF h.session = "expired" /\ @ # "paid"
                                    THEN "expired" ELSE @]
    BY <1>0 DEF Account, Checkout
  <2> QED
    BY <2>1, Zenon DEF WithSession
<1>2. Sound(x, t) /\ Later(v, x, t)
  BY <1>0, NamingSound
<1>3. x \in Account /\ x.e = v.e /\ x.c[a].status = v.c[a].status
  BY <1>0 DEF Account, Checkout
<1>4. CASE h.session = "expired"
  <2> DEFINE w == [x EXCEPT !.c[a].status = "expired"]
  <2>1. AttemptFits(v.b, a, v.c[a], v.e[a], v.u[a], t) /\ v.e[a] = "expired"
    BY <1>0, <1>4 DEF Sound
  <2>2. v.c[a].status \notin {"none", "paid"}
    BY <2>1 DEF AttemptFits, SessionFits
  <2>3. noted = w
    BY <1>0, <1>4, <2>2 DEF Account, Checkout
  <2>4. Sound(w, t) /\ Later(x, w, t)
    BY <1>0, <1>2, <1>3, <2>1, <2>2, ExpiringSound
  <2>5. w \in Account
    BY <2>4 DEF Sound
  <2> HIDE DEF w, x, noted
  <2>6. Later(v, w, t)
    BY <1>0, <1>2, <1>3, <2>4, <2>5, LaterComposes
  <2> QED
    BY <1>1, <1>4, <2>3, <2>4, <2>6
<1>5. CASE h.session # "expired"
  <2>0. noted = [v EXCEPT !.c[a].sid = TRUE, !.c[a].status = v.c[a].status]
    BY <1>5
  <2>1. noted = x
    BY <1>0, <2>0, StatusKept
  <2> HIDE DEF noted, x
  <2>2. CASE h.session = "complete"
    <3> DEFINE w == ApplyInitial(x, a, t)
    <3>1. x.e[a] = "complete"
      BY <1>3, <2>2
    <3>2. Sound(w, t) /\ Later(x, w, t)
      BY <1>0, <1>2, <3>1, ApplyInitialSound
    <3>3. w \in Account
      BY <3>2 DEF Sound
    <3> HIDE DEF w
    <3>4. Later(v, w, t)
      BY <1>0, <1>2, <1>3, <3>2, <3>3, LaterComposes
    <3> QED
      BY <1>1, <2>1, <2>2, <3>2, <3>4 DEF w
  <2>3. CASE h.session # "complete"
    BY <1>1, <1>2, <2>1, <2>3
  <2> QED
    BY <2>2, <2>3
<1> QED
  BY <1>4, <1>5

\* The cancellation recorded from a subscription event.
LEMMA WithCancellationSound ==
  ASSUME NEW v, NEW t \in Nat, NEW h, Sound(v, t)
  PROVE  Sound(WithCancellation(v, h), t) /\ Later(v, WithCancellation(v, h), t)
<1>1. LET w == [v EXCEPT !.b = [v.b EXCEPT !.cancel = TRUE, !.pending = NoPlan]]
      IN  Sound(w, t) /\ Later(v, w, t)
  BY FlagSound
<1>2. v \in Account
  BY DEF Sound
<1> QED
  BY <1>1, <1>2, NothingIsLater DEF WithCancellation

\* handleEvent with an event that was read before.
LEMMA HandleEventFollows ==
  ASSUME BillingInv, NEW h \in webhooks, HandleEvent(h)
  PROVE  AccountsFollow
<1> DEFINE o == h.owner
           v == acct[o]
           a == h.attempt
           w == Applied(v, h)
<1>0. /\ h \in Webhook /\ o \in Owner /\ a \in Attempt
      /\ h.kind \in EventKind /\ now \in Nat /\ Sound(v, now) /\ HookFits(h)
  BY DEF BillingInv, TypeOK, Webhook, AccountsSound, HooksFit
<1>1. Sound(w, now) /\ Later(v, w, now)
  <2>1. CASE h.kind = "session"
    <3>1. w = WithSession(v, h)
      BY <2>1 DEF Applied
    <3>2. v.e[h.attempt] # "none"
          /\ (h.session \in {"complete", "expired"} => v.e[h.attempt] = h.session)
      BY <1>0 DEF HookFits
    <3> HIDE DEF w
    <3> QED
      BY <1>0, <3>1, <3>2, WithSessionSound
  <2>2. CASE h.kind # "session"
    <3> DEFINE x == ApplyInvoice(v, a, h.sub, now)
    <3>1. SnapshotFits(h.sub, v.u[a], v.e[a])
      BY <1>0, <2>2 DEF HookFits
    <3>2. Sound(x, now) /\ Later(v, x, now)
      BY <1>0, <3>1, ApplyInvoiceSound
    <3>3. CASE h.kind = "invoice"
      BY <3>2, <3>3 DEF Applied
    <3>4. CASE h.kind = "subscription"
      <4>1. w = WithCancellation(x, h)
        BY <3>4 DEF Applied
      <4> HIDE DEF w, x
      <4>2. Sound(w, now) /\ Later(x, w, now)
        BY <1>0, <3>2, <4>1, WithCancellationSound
      <4>3. v \in Account /\ x \in Account /\ w \in Account
        BY <1>0, <3>2, <4>2 DEF Sound
      <4> QED
        BY <1>0, <3>2, <4>2, <4>3, LaterComposes
    <3> QED
      BY <1>0, <2>2, <3>3, <3>4 DEF EventKind
  <2> QED
    BY <2>1, <2>2
<1>2. CASE UNCHANGED acct
  BY <1>2, NowStays DEF Follows, AccountsFollow
<1>3. CASE CommitOne(o, w)
  <2> HIDE DEF w
  <2> QED
    BY <1>0, <1>1, <1>3, CommitOneFollows
<1> QED
  BY <1>2, <1>3 DEF HandleEvent

\* reconcile with what it read before, for all owners at once.
LEMMA ReconcileFollows ==
  ASSUME BillingInv, NEW reject \in BOOLEAN, ReconcileCommit(reject)
  PROVE  AccountsFollow
<1> DEFINE after == [o \in Owner |-> Reconciled(o, reject)]
<1>1. ASSUME NEW o \in Owner
      PROVE  /\ Reconciled(o, reject) \in Account
             /\ Sound(Reconciled(o, reject), now)
             /\ Later(acct[o], Reconciled(o, reject), now)
  <2> DEFINE v == acct[o]
             x == ReapCheckouts(v, reading.e[o], reject, now)
             w == ReconcileOne(x, reading.u[o], now)
  <2>0. Sound(v, now) /\ now \in Nat /\ v \in Account
    BY DEF BillingInv, AccountsSound, TypeOK, Sound
  <2>1. SeenFits(v, reading.e[o]) /\ SnapshotsFit(v, reading.u[o])
    BY DEF BillingInv, ReadingFits, ReconcileCommit
  <2>2. Sound(x, now) /\ Later(v, x, now)
    BY <2>0, <2>1, ReapCheckoutsSound
  <2>3. x \in Account
    BY <2>2 DEF Sound
  <2> HIDE DEF x
  <2>4. SnapshotsFit(x, reading.u[o])
    <3> SUFFICES ASSUME NEW a \in Attempt
                 PROVE  SnapshotFits(reading.u[o][a], x.u[a], x.e[a])
      BY DEF SnapshotsFit
    <3>1. SnapshotFits(reading.u[o][a], v.u[a], v.e[a])
      BY <2>1 DEF SnapshotsFit
    <3>2. x.u[a].paidEnd = v.u[a].paidEnd /\ SessionStep(v.c[a], v.e[a], x.e[a], now)
      BY <2>2 DEF Later, SubscriptionStep
    <3> QED
      BY <3>1, <3>2 DEF SnapshotFits, SessionStep
  <2>5. Sound(w, now) /\ Later(x, w, now)
    BY <2>0, <2>2, <2>4, ReconcileOneSound
  <2>6. w \in Account
    BY <2>5 DEF Sound
  <2>7. Later(v, w, now)
    BY <2>0, <2>2, <2>3, <2>5, <2>6, LaterComposes
  <2> QED
    BY <2>5, <2>6, <2>7 DEF Reconciled, x
<1>2. Follows(after)
  BY <1>1 DEF Follows
<1>3. Commit(after)
  BY DEF ReconcileCommit
<1> HIDE DEF after
<1> QED
  BY <1>2, <1>3, CommitFollows DEF AccountsFollow

\* The mails of reconcile.
LEMMA NoticesFollow ==
  ASSUME BillingInv, SendNotices
  PROVE  AccountsFollow
<1>1. ASSUME NEW o \in Owner
      PROVE  LET v == acct[o]
                 w == [v EXCEPT !.m = v.m \cup v.n, !.n = {}]
             IN  w \in Account /\ Sound(w, now) /\ Later(v, w, now)
  <2> DEFINE v == acct[o]
             w == [v EXCEPT !.m = v.m \cup v.n, !.n = {}]
  <2>1. Sound(v, now) /\ now \in Nat /\ v \in Account
    BY DEF BillingInv, AccountsSound, TypeOK, Sound
  <2>2. w \in Account /\ w.b = v.b /\ w.c = v.c /\ w.e = v.e /\ w.u = v.u
    BY <2>1 DEF Account
  <2> HIDE DEF w
  <2>3. Sound(w, now) /\ Later(v, w, now)
    BY <2>1, <2>2, SameService DEF SameStanding, SubscriptionStep
  <2> QED
    BY <2>2, <2>3 DEF w
<1>2. acct' = [o \in Owner |-> [acct[o] EXCEPT !.m = acct[o].m \cup acct[o].n, !.n = {}]]
  BY DEF SendNotices
<1> QED
  BY <1>1, <1>2 DEF AccountsFollow

-----------------------------------------------------------------------------
(* Reservations *)

\* createCheckout found the request in order, freed the accounts of what was
\* unsettled, and wrote the new attempt.
Reservation(o, a, freed, offer) ==
  /\ Follows(freed)
  /\ store[o] \notin {"closing", "closed"}
  /\ PendingAttempts(freed[o]) = {}
  /\ freed[o].c[a].status = "none"
  /\ freed[o].b.status \in {"none", "pending", "suspended"}
  /\ offer.gift => ~freed[o].b.paid
  /\ offer.test => Cardinality(TestCheckouts(freed)) < TestLimit
  /\ HasCapacity(freed, o)
  /\ acct' = [freed EXCEPT ![o] = Reserved(freed[o], a, offer, now)]

\* resolveOffer gives the bonus exactly when it was asked for.
LEMMA ResolvedOffer ==
  ASSUME NEW ask \in Asks, NEW b \in Billing
  PROVE  ResolveOffer(ask, b) \in Offer /\ ResolveOffer(ask, b).gift = ask.bonus
<1>1. ask \in Ask
  BY LimitAssumption
<1>2. OfferIsTest(ask, b) \in BOOLEAN
  BY <1>1 DEF OfferIsTest, Ask, Billing
<1> QED
  BY <1>1, <1>2 DEF ResolveOffer, Offer, Ask

\* The first transaction of createCheckout reserves, or is rolled back, which
\* leaves what it told Stripe.
LEMMA ReserveFollows ==
  ASSUME BillingInv, NEW o \in Owner, NEW a \in Attempt, NEW ask \in Asks,
         NEW reject \in BOOLEAN, ReserveCheckout(o, a, ask, reject)
  PROVE  \/ AccountsFollow
         \/ \E freed \in [Owner -> Account], offer \in Offer :
              Reservation(o, a, freed, offer)
<1> DEFINE all == Settled(o, reject)
           v == all[o]
           x == ExpireCurrent(v)
           offer == ResolveOffer(ask, v.b)
           freed == [all EXCEPT ![o] = x]
           row == [status |-> "reserved", offer |-> offer, at |-> now,
                   sid |-> FALSE, url |-> FALSE]
           after == [freed[o] EXCEPT
                       !.b = IF freed[o].b.status = "none" THEN PendingBilling(offer)
                                                           ELSE freed[o].b,
                       !.c[a] = row]
<1>1. Follows(all) /\ now \in Nat /\ acct \in [Owner -> Account]
  BY SettledFollows DEF BillingInv, TypeOK
<1>2. /\ MayPurchase(o, ask, v) /\ v.c[a].status = "none"
      /\ MayExpireCurrent(v)
      /\ offer.test => Cardinality(TestCheckouts(freed)) < TestLimit
      /\ HasCapacity(freed, o)
      /\ Commit([freed EXCEPT ![o] = after])
  BY DEF ReserveCheckout
<1> HIDE DEF all
<1>3. all \in [Owner -> Account] /\ Sound(v, now) /\ Later(acct[o], v, now)
      /\ v \in Account /\ v.b \in Billing
  BY <1>1 DEF Follows, Account
<1>4. /\ Sound(x, now) /\ Later(v, x, now)
      /\ PendingAttempts(x) = {} /\ x \in Account
  BY <1>1, <1>2, <1>3, ExpireCurrentSound DEF Sound
<1>5. x.b = v.b
  BY <1>3 DEF ExpireCurrent, Account
<1>6. offer \in Offer /\ (offer.gift => ~v.b.paid)
  <2>1. offer \in Offer /\ offer.gift = ask.bonus
    BY <1>3, ResolvedOffer
  <2>2. ask.bonus => ~v.b.paid
    BY <1>2 DEF MayPurchase, OfferAllowed
  <2> QED
    BY <2>1, <2>2
<1>7. /\ store[o] \notin {"closing", "closed"}
      /\ v.b.status \in {"none", "pending", "suspended"}
  BY <1>2 DEF MayPurchase
<1>8. x.c[a].status = "none"
  BY <1>2, <1>4 DEF Later, CheckoutStep
<1> HIDE DEF x, v, offer
<1>9. Later(acct[o], x, now)
  BY <1>1, <1>3, <1>4, LaterComposes
<1>10. freed[o] = x /\ freed \in [Owner -> Account]
  BY <1>3, <1>4
<1>11. Follows(freed)
  BY <1>1, <1>4, <1>9, <1>10 DEF Follows
<1>12. after = Reserved(x, a, offer, now)
  BY <1>10 DEF Reserved
<1> HIDE DEF freed, after
<1>13. after.e = x.e /\ after.u = x.u
  BY <1>4, <1>12 DEF Reserved, Account
<1>14. CASE acct' = [freed EXCEPT ![o] = after]
  <2>1. Reservation(o, a, freed, offer)
    BY <1>2, <1>4, <1>5, <1>6, <1>7, <1>8, <1>10, <1>11, <1>12, <1>14 DEF Reservation
  <2> QED
    BY <1>6, <1>10, <2>1
<1>15. CASE /\ MayFail
            /\ acct' = [p \in Owner |-> RolledBack(acct[p], [freed EXCEPT ![o] = after][p])]
  <2>1. ASSUME NEW p \in Owner
        PROVE  RolledBack(acct[p], [freed EXCEPT ![o] = after][p])
               = RolledBack(acct[p], freed[p])
    <3>1. CASE p = o
      BY <1>10, <1>13, <3>1 DEF RolledBack
    <3>2. CASE p # o
      BY <1>10, <3>2
    <3> QED
      BY <3>1, <3>2
  <2>2. Commit(freed)
    BY <1>15, <2>1 DEF Commit
  <2> QED
    BY <1>11, <2>2, CommitFollows DEF AccountsFollow
<1> QED
  BY <1>2, <1>14, <1>15 DEF Commit

\* A transaction leaves payments and expired sessions as they are.
LEMMA LaterIsOnward ==
  ASSUME NEW v \in Account, NEW w, NEW t, Later(v, w, t)
  PROVE  Onward(v, w)
<1> SUFFICES ASSUME NEW a \in Attempt
             PROVE  /\ v.e[a] \in {"complete", "expired"} => w.e[a] = v.e[a]
                    /\ v.e[a] # "none" => w.e[a] # "none"
                    /\ v.u[a].paidEnd <= w.u[a].paidEnd
  BY DEF Onward
<1>1. v.u[a].paidEnd \in Nat
  BY SessionTypes DEF Subscription
<1>2. SessionStep(v.c[a], v.e[a], w.e[a], t) /\ SubscriptionStep(v.u[a], w.u[a])
  BY DEF Later
<1> QED
  BY <1>1, <1>2 DEF SessionStep, SubscriptionStep

-----------------------------------------------------------------------------
(* Stripe and its customers *)

\* The account after a step of Stripe on attempt a.
StripeSide(v, w, a) ==
  /\ w \in Account /\ w.b = v.b /\ w.c = v.c
  /\ \A p \in Attempt \ {a} : w.e[p] = v.e[p] /\ w.u[p] = v.u[p]

\* A step at Stripe that keeps its attempt sound keeps the account.
LEMMA StripeSound ==
  ASSUME NEW v, NEW w, NEW t \in Nat, NEW a \in Attempt, Sound(v, t),
         StripeSide(v, w, a),
         AttemptFits(v.b, a, v.c[a], w.e[a], w.u[a], t),
         v.c[a].status = "paid" => w.u[a].paidAt = v.u[a].paidAt,
         v.e[a] \in {"complete", "expired"} => w.e[a] = v.e[a],
         v.e[a] # "none" => w.e[a] # "none",
         v.u[a].paidEnd <= w.u[a].paidEnd
  PROVE  Sound(w, t) /\ Onward(v, w)
<1>0. v \in Account
  BY DEF Sound
<1>1. ASSUME NEW p \in Attempt
      PROVE  AttemptFits(w.b, p, w.c[p], w.e[p], w.u[p], t)
  <2>1. AttemptFits(v.b, p, v.c[p], v.e[p], v.u[p], t)
    BY DEF Sound
  <2>2. CASE p = a
    BY <2>2 DEF StripeSide
  <2>3. CASE p # a
    BY <2>1, <2>3 DEF StripeSide
  <2> QED
    BY <2>2, <2>3
<1>2. \A p \in Attempt : v.c[p].status = "paid" => w.u[p].paidAt = v.u[p].paidAt
  BY DEF StripeSide
<1>3. BonusFirst(w.c, w.u)
  BY <1>2 DEF Sound, BonusFirst, StripeSide
<1>4. Sound(w, t)
  BY <1>1, <1>3 DEF Sound, StripeSide
<1>5. ASSUME NEW p \in Attempt
      PROVE  /\ v.e[p] \in {"complete", "expired"} => w.e[p] = v.e[p]
             /\ v.e[p] # "none" => w.e[p] # "none"
             /\ v.u[p].paidEnd <= w.u[p].paidEnd
  <2>1. v.u[p].paidEnd \in Nat
    BY <1>0, SessionTypes DEF Subscription
  <2>2. CASE p = a
    BY <2>2
  <2>3. CASE p # a
    BY <2>1, <2>3 DEF StripeSide
  <2> QED
    BY <2>2, <2>3
<1> QED
  BY <1>4, <1>5 DEF Onward

\* What a step of Stripe makes of the accounts.
StripeMoves(o) ==
  /\ acct' \in [Owner -> Account]
  /\ \A x \in Owner : x # o => acct'[x] = acct[x]
  /\ Sound(acct'[o], now) /\ Onward(acct[o], acct'[o])
  /\ acct'[o].b = acct[o].b /\ acct'[o].c = acct[o].c

\* The same of the account in the table.
LEMMA StripeStepMoves ==
  ASSUME BillingInv, NEW o \in Owner, NEW a \in Attempt, NEW w,
         StripeStep(o, w), StripeSide(acct[o], w, a), Sound(w, now), Onward(acct[o], w)
  PROVE  StripeMoves(o)
<1>1. acct \in [Owner -> Account] /\ w \in Account
  BY DEF BillingInv, TypeOK, Sound
<1> QED
  BY <1>1 DEF StripeStep, StripeMoves, StripeSide

\* The account when one subscription is another.
LEMMA SubscriptionSide ==
  ASSUME NEW v \in Account, NEW a \in Attempt, NEW r \in Subscription
  PROVE  LET w == [v EXCEPT !.u[a] = r]
         IN  StripeSide(v, w, a) /\ w.u[a] = r /\ w.e[a] = v.e[a]
<1> DEFINE w == [v EXCEPT !.u[a] = r]
<1>1. /\ w \in Account /\ w.b = v.b /\ w.c = v.c /\ w.e = v.e
      /\ w.u[a] = r /\ \A p \in Attempt \ {a} : w.u[p] = v.u[p]
  BY DEF Account
<1> QED
  BY <1>1 DEF StripeSide

\* A step that changes only the subscription of a paid session.
LEMMA SubscriptionMoves ==
  ASSUME BillingInv, NEW o \in Owner, NEW a \in Attempt, NEW r \in Subscription,
         StripeStep(o, [acct[o] EXCEPT !.u[a] = r]),
         InvoiceFits(r, acct[o].e[a]),
         r.paidAt = acct[o].u[a].paidAt,
         acct[o].u[a].paidEnd <= r.paidEnd,
         r.state = "live" => acct[o].u[a].state = "live",
         r.end = acct[o].u[a].end \/ acct[o].u[a].end <= now,
         acct[o].u[a].state = "canceled" =>
           r.state = "canceled"
           /\ (acct[o].u[a].inv \notin {"draft", "failed"} => r.inv \notin {"draft", "failed"})
  PROVE  StripeMoves(o)
<1> DEFINE v == acct[o]
           s == v.u[a]
           c == v.c[a]
           w == [v EXCEPT !.u[a] = r]
<1>0. /\ Sound(v, now) /\ now \in Nat /\ v \in Account
      /\ s \in Subscription /\ c.offer \in Offer /\ v.b.end \in Nat
  BY SessionTypes DEF BillingInv, AccountsSound, TypeOK, Sound, Account, Billing
<1>1. AttemptFits(v.b, a, c, v.e[a], s, now)
  BY <1>0 DEF Sound
<1>2. FirstEnd(r, c.offer) = FirstEnd(s, c.offer) /\ FirstEnd(s, c.offer) \in Nat
  <2>1. c.offer.plan \in Plan /\ c.offer.gift \in BOOLEAN /\ s.paidAt \in Nat
    BY <1>0 DEF Offer, Subscription
  <2> QED
    BY <2>1, AnyTermCounts DEF FirstEnd
<1>3. StripeSide(v, w, a) /\ w.u[a] = r /\ w.e[a] = v.e[a]
  BY <1>0, SubscriptionSide
<1> HIDE DEF w
<1>4. /\ s.end \in Nat /\ s.paidEnd \in Nat /\ r.end \in Nat /\ r.paidEnd \in Nat
      /\ s.paidAt \in Nat
  BY <1>0 DEF Subscription
<1>5. WaitingFits(v.b, c, s, now) => WaitingFits(v.b, c, r, now)
  BY <1>0, <1>2, <1>4 DEF WaitingFits
<1>6. ServiceFits(v.b, a, c, v.e[a], r, now)
  <2>1. v.b.sub = a /\ v.b.status = "suspended" =>
          r.state = "canceled" /\ r.inv \notin {"draft", "failed"}
    BY <1>1 DEF AttemptFits, ServiceFits
  <2>2. v.b.sub = a => v.b.end <= r.paidEnd
    BY <1>0, <1>1, <1>4 DEF AttemptFits, ServiceFits
  <2>3. c.status = "paid" =>
          /\ v.b.paid /\ r.paidAt < v.b.end
          /\ r.state = "live" => v.b.sub = a /\ v.b.status \in Served
    BY <1>1 DEF AttemptFits, ServiceFits
  <2>4. c.status \in Unsettled =>
          /\ v.b.status \in {"pending", "suspended"}
          /\ c.offer.gift => ~v.b.paid
          /\ v.e[a] = "complete" => WaitingFits(v.b, c, r, now)
    BY <1>1, <1>5 DEF AttemptFits, ServiceFits
  <2>5. v.b.sub = a => c.status = "paid"
    BY <1>1 DEF AttemptFits, ServiceFits
  <2> QED
    BY <2>1, <2>2, <2>3, <2>4, <2>5 DEF ServiceFits
<1>7. AttemptFits(v.b, a, c, w.e[a], w.u[a], now)
  BY <1>1, <1>3, <1>6 DEF AttemptFits
<1>8. Sound(w, now) /\ Onward(v, w)
  BY <1>0, <1>3, <1>7, StripeSound
<1>9. StripeStep(o, w)
  BY DEF w
<1> QED
  BY <1>3, <1>8, <1>9, StripeStepMoves

\* The customer pays in a session.
LEMMA PayMoves ==
  ASSUME BillingInv, NEW o \in Owner, NEW a \in Attempt, Pay(o, a)
  PROVE  StripeMoves(o)
<1> DEFINE v == acct[o]
           c == v.c[a]
           end == now + PeriodMonths(c.offer.plan, c.offer.gift)
           r == [state |-> "live", cancels |-> FALSE, plan |-> c.offer.plan,
                 sched |-> NoPlan, end |-> end, inv |-> "initial",
                 invEnd |-> end, paidAt |-> now, paidEnd |-> end]
           w == [[v EXCEPT !.e[a] = "complete"] EXCEPT !.u[a] = r]
<1>0. /\ Sound(v, now) /\ now \in Nat /\ v \in Account
      /\ v.u[a] \in Subscription /\ c.offer \in Offer /\ v.b.end \in Nat
      /\ c.offer.plan \in Plan
  BY SessionTypes DEF BillingInv, AccountsSound, TypeOK, Sound, Account, Billing, Offer
<1>1. AttemptFits(v.b, a, c, v.e[a], v.u[a], now) /\ RowFits(v.b, now)
  BY <1>0 DEF Sound
<1>2. c.url /\ v.e[a] = "open"
  BY DEF Pay
<1>3. StripeStep(o, w)
  BY DEF Pay
<1>4. c.status = "open" /\ c.sid
  BY <1>1, <1>2 DEF AttemptFits, SessionFits, Unsettled
<1>5. /\ v.b.status \in {"pending", "suspended"}
      /\ c.offer.gift => ~v.b.paid
      /\ v.b.sub # a
  BY <1>1, <1>4 DEF AttemptFits, ServiceFits, Unsettled
<1>6. v.b.end <= now
  BY <1>0, <1>1, <1>5 DEF RowFits
<1>7. v.u[a].paidEnd = 0
  BY <1>1, <1>2 DEF AttemptFits, InvoiceFits
<1>8. end \in Nat
  <2>1. c.offer.gift \in BOOLEAN
    BY <1>0 DEF Offer
  <2> QED
    BY <1>0, <2>1, AnyTermCounts
<1>9. FirstEnd(r, c.offer) = end
  BY DEF FirstEnd
<1> HIDE DEF end
<1>10. r \in Subscription
  BY <1>0, <1>8 DEF Subscription, NoPlan
<1>11. r.state = "live" /\ r.end = end /\ r.inv = "initial" /\ r.paidAt = now
       /\ r.paidEnd = end
  OBVIOUS
<1> HIDE DEF r
<1>12. StripeSide(v, w, a) /\ w.u[a] = r /\ w.e[a] = "complete"
  <2>1. /\ w \in Account /\ w.b = v.b /\ w.c = v.c
        /\ w.e[a] = "complete" /\ w.u[a] = r
        /\ \A p \in Attempt \ {a} : w.e[p] = v.e[p] /\ w.u[p] = v.u[p]
    BY <1>0, <1>10 DEF Account, SessionState
  <2> QED
    BY <2>1 DEF StripeSide
<1> HIDE DEF w
<1>13. WaitingFits(v.b, c, r, now)
  BY <1>6, <1>8, <1>9, <1>11 DEF WaitingFits
<1>14. AttemptFits(v.b, a, c, "complete", r, now)
  <2>1. SessionFits(c, "complete", now)
    BY <1>1, <1>4 DEF AttemptFits, SessionFits
  <2>2. InvoiceFits(r, "complete")
    BY <1>8, <1>11 DEF InvoiceFits
  <2>3. ServiceFits(v.b, a, c, "complete", r, now)
    BY <1>4, <1>5, <1>13 DEF ServiceFits
  <2> QED
    BY <2>1, <2>2, <2>3 DEF AttemptFits
<1>15. Sound(w, now) /\ Onward(v, w)
  <2>1. /\ v.u[a].paidEnd <= w.u[a].paidEnd
        /\ v.c[a].status # "paid" /\ v.e[a] \notin {"none", "complete", "expired"}
        /\ w.e[a] # "none"
        /\ AttemptFits(v.b, a, v.c[a], w.e[a], w.u[a], now)
    BY <1>2, <1>4, <1>7, <1>8, <1>11, <1>12, <1>14
  <2> HIDE DEF v
  <2> QED
    BY <1>0, <1>12, <2>1, StripeSound
<1> HIDE DEF v
<1> QED
  BY <1>3, <1>12, <1>15, StripeStepMoves DEF v

\* A session expires at Stripe.
LEMMA ExpireSessionMoves ==
  ASSUME BillingInv, NEW o \in Owner, NEW a \in Attempt, ExpireSession(o, a)
  PROVE  StripeMoves(o)
<1> DEFINE v == acct[o]
           w == [v EXCEPT !.e[a] = "expired"]
<1>0. Sound(v, now) /\ now \in Nat /\ v \in Account /\ v.u[a] \in Subscription
  BY SessionTypes DEF BillingInv, AccountsSound, TypeOK, Sound
<1>1. AttemptFits(v.b, a, v.c[a], v.e[a], v.u[a], now)
  BY <1>0 DEF Sound
<1>2. v.e[a] = "open" /\ StripeStep(o, w)
  BY DEF ExpireSession
<1>3. StripeSide(v, w, a) /\ w.u[a] = v.u[a] /\ w.e[a] = "expired"
  <2>1. /\ w \in Account /\ w.b = v.b /\ w.c = v.c /\ w.u = v.u
        /\ w.e[a] = "expired"
        /\ \A p \in Attempt \ {a} : w.e[p] = v.e[p]
    BY <1>0 DEF Account, SessionState
  <2> QED
    BY <2>1 DEF StripeSide
<1> HIDE DEF w
<1>4. AttemptFits(v.b, a, v.c[a], "expired", v.u[a], now)
  BY <1>1, <1>2 DEF AttemptFits, SessionFits, InvoiceFits, ServiceFits, Unsettled
<1>5. v.u[a].paidEnd <= v.u[a].paidEnd
  BY <1>0 DEF Subscription
<1>6. Sound(w, now) /\ Onward(v, w)
  BY <1>0, <1>2, <1>3, <1>4, <1>5, StripeSound
<1> QED
  BY <1>2, <1>3, <1>6, StripeStepMoves

\* A renewal invoice is drafted.
LEMMA RenewMoves ==
  ASSUME BillingInv, NEW o \in Owner, NEW a \in Attempt, Renew(o, a)
  PROVE  StripeMoves(o)
<1> DEFINE s == acct[o].u[a]
           plan == IF s.sched = NoPlan THEN s.plan ELSE s.sched
           term == PeriodMonths(plan, FALSE)
           end == s.end + term
           r == [s EXCEPT !.inv = "draft", !.plan = plan, !.sched = NoPlan,
                          !.end = end, !.invEnd = end]
<1>0. /\ Sound(acct[o], now) /\ now \in Nat /\ s \in Subscription
      /\ s.end \in Nat /\ s.paidEnd \in Nat /\ acct[o] \in Account
  BY SessionTypes DEF BillingInv, AccountsSound, TypeOK, Sound, Subscription
<1>1. InvoiceFits(s, acct[o].e[a])
  BY <1>0 DEF Sound, AttemptFits
<1>2. /\ s.state = "live" /\ s.end <= now
      /\ StripeStep(o, [acct[o] EXCEPT !.u[a] = r])
  BY DEF Renew
<1>3. plan \in Plan
  BY <1>0 DEF Subscription
<1>4. end \in Nat /\ s.end <= end
  <2>1. term \in Nat \ {0}
    BY <1>3, AnyTermCounts
  <2> HIDE DEF plan, s, term
  <2> QED
    BY <1>0, <2>1
<1> HIDE DEF plan, end
<1>5. r \in Subscription
  BY <1>0, <1>3, <1>4 DEF Subscription, NoPlan
<1>6. /\ r.state = "live" /\ r.inv = "draft" /\ r.end = end /\ r.invEnd = end
      /\ r.paidAt = s.paidAt /\ r.paidEnd = s.paidEnd
  BY <1>0, <1>2 DEF Subscription
<1> HIDE DEF r, s
<1>7. InvoiceFits(r, acct[o].e[a])
  BY <1>0, <1>1, <1>2, <1>4, <1>6 DEF InvoiceFits
<1>8. s.paidEnd <= r.paidEnd
  BY <1>0, <1>6
<1> QED
  BY <1>2, <1>5, <1>6, <1>7, <1>8, SubscriptionMoves DEF s

\* The card is charged.
LEMMA CollectMoves ==
  ASSUME BillingInv, NEW o \in Owner, NEW a \in Attempt, Collect(o, a)
  PROVE  StripeMoves(o)
<1> DEFINE s == acct[o].u[a]
           r == [s EXCEPT !.inv = "paid", !.paidEnd = s.invEnd]
<1>0. /\ Sound(acct[o], now) /\ s \in Subscription /\ acct[o] \in Account
      /\ s.end \in Nat /\ s.paidEnd \in Nat /\ s.invEnd \in Nat
  BY SessionTypes DEF BillingInv, AccountsSound, Sound, Subscription
<1>1. InvoiceFits(s, acct[o].e[a])
  BY <1>0 DEF Sound, AttemptFits
<1>2. /\ (s.inv = "draft" /\ s.state = "live") \/ s.inv = "failed"
      /\ StripeStep(o, [acct[o] EXCEPT !.u[a] = r])
  BY DEF Collect
<1>3. r \in Subscription
  BY <1>0 DEF Subscription
<1>4. /\ r.state = s.state /\ r.inv = "paid" /\ r.end = s.end /\ r.invEnd = s.invEnd
      /\ r.paidAt = s.paidAt /\ r.paidEnd = s.invEnd
  BY <1>0 DEF Subscription
<1> HIDE DEF r, s
<1>5. InvoiceFits(r, acct[o].e[a]) /\ s.paidEnd <= r.paidEnd
  BY <1>0, <1>1, <1>2, <1>4 DEF InvoiceFits
<1> QED
  BY <1>2, <1>3, <1>4, <1>5, SubscriptionMoves DEF s

\* The card is refused.
LEMMA RefuseMoves ==
  ASSUME BillingInv, NEW o \in Owner, NEW a \in Attempt, Refuse(o, a)
  PROVE  StripeMoves(o)
<1> DEFINE s == acct[o].u[a]
           r == [s EXCEPT !.inv = "failed"]
<1>0. /\ Sound(acct[o], now) /\ s \in Subscription /\ acct[o] \in Account
      /\ s.paidEnd \in Nat
  BY SessionTypes DEF BillingInv, AccountsSound, Sound, Subscription
<1>1. InvoiceFits(s, acct[o].e[a])
  BY <1>0 DEF Sound, AttemptFits
<1>2. /\ s.inv = "draft" /\ s.state = "live"
      /\ StripeStep(o, [acct[o] EXCEPT !.u[a].inv = "failed"])
  BY DEF Refuse
<1>a. [acct[o] EXCEPT !.u[a].inv = "failed"] = [acct[o] EXCEPT !.u[a] = r]
  BY <1>0 DEF Account, Subscription
<1>3. r \in Subscription
  BY <1>0 DEF Subscription
<1>4. /\ r.state = s.state /\ r.inv = "failed" /\ r.end = s.end /\ r.invEnd = s.invEnd
      /\ r.paidAt = s.paidAt /\ r.paidEnd = s.paidEnd
  BY <1>0 DEF Subscription
<1> HIDE DEF r, s
<1>5. InvoiceFits(r, acct[o].e[a]) /\ s.paidEnd <= r.paidEnd
  BY <1>0, <1>1, <1>2, <1>4 DEF InvoiceFits
<1> QED
  BY <1>2, <1>a, <1>3, <1>4, <1>5, SubscriptionMoves DEF s

\* A subscription ends.
LEMMA EndSubscriptionMoves ==
  ASSUME BillingInv, NEW o \in Owner, NEW a \in Attempt, EndSubscription(o, a)
  PROVE  StripeMoves(o)
<1> DEFINE s == acct[o].u[a]
           r == [s EXCEPT !.state = "canceled"]
<1>0. /\ Sound(acct[o], now) /\ s \in Subscription /\ acct[o] \in Account
      /\ s.paidEnd \in Nat
  BY SessionTypes DEF BillingInv, AccountsSound, Sound, Subscription
<1>1. InvoiceFits(s, acct[o].e[a])
  BY <1>0 DEF Sound, AttemptFits
<1>2. /\ s.state = "live"
      /\ StripeStep(o, [acct[o] EXCEPT !.u[a].state = "canceled"])
  BY DEF EndSubscription
<1>a. [acct[o] EXCEPT !.u[a].state = "canceled"] = [acct[o] EXCEPT !.u[a] = r]
  BY <1>0 DEF Account, Subscription
<1>3. r \in Subscription
  BY <1>0 DEF Subscription
<1>4. /\ r.state = "canceled" /\ r.inv = s.inv /\ r.end = s.end /\ r.invEnd = s.invEnd
      /\ r.paidAt = s.paidAt /\ r.paidEnd = s.paidEnd
  BY <1>0 DEF Subscription
<1> HIDE DEF r, s
<1>5. InvoiceFits(r, acct[o].e[a]) /\ s.paidEnd <= r.paidEnd
  BY <1>0, <1>1, <1>2, <1>4 DEF InvoiceFits
<1> QED
  BY <1>2, <1>a, <1>3, <1>4, <1>5, SubscriptionMoves DEF s

-----------------------------------------------------------------------------
(* The invariant *)

\* What was read of a subscription stays true in what counts.
LEMMA SnapshotsLast ==
  ASSUME NEW v \in Account, NEW w \in Account, Onward(v, w), NEW a \in Attempt,
         NEW s, SnapshotFits(s, v.u[a], v.e[a])
  PROVE  SnapshotFits(s, w.u[a], w.e[a])
<1>1. v.u[a].paidEnd \in Nat /\ w.u[a].paidEnd \in Nat
  BY SessionTypes DEF Subscription
<1>2. s \in Subscription => s.invEnd \in Nat
  BY DEF Subscription
<1> QED
  BY <1>1, <1>2 DEF SnapshotFits, Onward

\* So do the webhooks that wait and what the reconciler has read.
LEMMA ReadsKept ==
  ASSUME BillingInv, acct' \in [Owner -> Account],
         \A o \in Owner : Onward(acct[o], acct'[o]),
         webhooks' \subseteq webhooks, reading' \in {reading, NoReading}
  PROVE  HooksFit' /\ ReadingFits'
<1>0. acct \in [Owner -> Account]
  BY DEF BillingInv, TypeOK
<1>1. ASSUME NEW h \in webhooks
      PROVE  HookFits(h)'
  <2> DEFINE v == acct[h.owner]
             w == acct'[h.owner]
             a == h.attempt
  <2>1. /\ HookFits(h) /\ h.owner \in Owner /\ a \in Attempt
        /\ v \in Account /\ w \in Account /\ Onward(v, w)
    BY <1>0 DEF BillingInv, HooksFit, TypeOK, Webhook
  <2>2. /\ w.e[a] # "none"
        /\ h.session \in {"complete", "expired"} => w.e[a] = h.session
    BY <2>1 DEF HookFits, Onward
  <2>3. h.kind # "session" => SnapshotFits(h.sub, w.u[a], w.e[a])
    BY <2>1, SnapshotsLast DEF HookFits
  <2> QED
    BY <2>2, <2>3 DEF HookFits
<1>2. ASSUME reading' # NoReading, NEW o \in Owner
      PROVE  SeenFits(acct'[o], reading'.e[o]) /\ SnapshotsFit(acct'[o], reading'.u[o])
  <2>1. /\ reading' = reading /\ Onward(acct[o], acct'[o])
        /\ acct[o] \in Account /\ acct'[o] \in Account
    BY <1>0, <1>2
  <2>2. SeenFits(acct[o], reading.e[o]) /\ SnapshotsFit(acct[o], reading.u[o])
    BY <1>2, <2>1 DEF BillingInv, ReadingFits
  <2>3. SeenFits(acct'[o], reading.e[o])
    BY <2>1, <2>2 DEF SeenFits, Onward
  <2>4. SnapshotsFit(acct'[o], reading.u[o])
    BY <2>1, <2>2, SnapshotsLast DEF SnapshotsFit
  <2> QED
    BY <2>1, <2>3, <2>4
<1> QED
  BY <1>1, <1>2 DEF HooksFit, ReadingFits

\* Any step that leaves the stores and the clock alone.
LEMMA MoveKeeps ==
  ASSUME BillingInv, acct' \in [Owner -> Account],
         \A o \in Owner :
           /\ Sound(acct'[o], now) /\ Onward(acct[o], acct'[o])
           /\ acct[o].b.paid => acct'[o].b.paid
           /\ store[o] \in {"closing", "closed"} /\ ClosedOut(acct[o]) => ClosedOut(acct'[o]),
         UNCHANGED <<now, store>>,
         webhooks' \subseteq webhooks, reading' \in {reading, NoReading}
  PROVE  BillingInv'
<1>1. TypeOK'
  BY DEF BillingInv, TypeOK
<1>2. AccountsSound'
  BY DEF AccountsSound
<1>3. StoresFit'
  BY DEF BillingInv, StoresFit
<1> QED
  BY <1>1, <1>2, <1>3, ReadsKept DEF BillingInv

\* A transaction other than a reservation keeps the invariant.
LEMMA FollowsKeeps ==
  ASSUME BillingInv, AccountsFollow, UNCHANGED <<now, store>>,
         webhooks' \subseteq webhooks, reading' \in {reading, NoReading}
  PROVE  BillingInv'
<1>1. ASSUME NEW o \in Owner
      PROVE  /\ Sound(acct'[o], now) /\ Onward(acct[o], acct'[o])
             /\ acct[o].b.paid => acct'[o].b.paid
             /\ ClosedOut(acct[o]) => ClosedOut(acct'[o])
  <2>1. acct[o] \in Account /\ Sound(acct'[o], now) /\ Later(acct[o], acct'[o], now)
    BY DEF BillingInv, TypeOK, AccountsFollow
  <2> QED
    BY <2>1, LaterIsOnward DEF Later, RowStep
<1> QED
  BY <1>1, MoveKeeps DEF AccountsFollow

\* An account that stays as it is.
LEMMA OnwardRefl ==
  ASSUME NEW v \in Account
  PROVE  Onward(v, v)
<1>1. \A a \in Attempt : v.u[a].paidEnd \in Nat
  BY SessionTypes DEF Subscription
<1> QED
  BY <1>1 DEF Onward

\* A step at Stripe keeps the invariant.
LEMMA StripeKeeps ==
  ASSUME BillingInv, NEW o \in Owner, StripeMoves(o),
         UNCHANGED <<now, store, webhooks, reading>>
  PROVE  BillingInv'
<1>1. ASSUME NEW x \in Owner
      PROVE  /\ Sound(acct'[x], now) /\ Onward(acct[x], acct'[x])
             /\ acct[x].b.paid => acct'[x].b.paid
             /\ ClosedOut(acct[x]) => ClosedOut(acct'[x])
  <2>1. acct[x] \in Account /\ Sound(acct[x], now)
    BY DEF BillingInv, TypeOK, AccountsSound
  <2>2. CASE x = o
    BY <2>2 DEF StripeMoves, ClosedOut
  <2>3. CASE x # o
    BY <2>1, <2>3, OnwardRefl DEF StripeMoves
  <2> QED
    BY <2>2, <2>3
<1> QED
  BY <1>1, MoveKeeps DEF StripeMoves

\* A reservation keeps the invariant.
LEMMA ReservationKeeps ==
  ASSUME BillingInv, NEW o \in Owner, NEW a \in Attempt,
         NEW freed \in [Owner -> Account], NEW offer \in Offer,
         Reservation(o, a, freed, offer), UNCHANGED <<now, store, webhooks, reading>>
  PROVE  BillingInv'
<1> DEFINE w == Reserved(freed[o], a, offer, now)
<1>0. now \in Nat /\ acct \in [Owner -> Account] /\ acct' = [freed EXCEPT ![o] = w]
  BY DEF BillingInv, TypeOK, Reservation
<1>1. /\ Sound(freed[o], now) /\ Later(acct[o], freed[o], now)
      /\ PendingAttempts(freed[o]) = {} /\ freed[o].c[a].status = "none"
      /\ freed[o].b.status \in {"none", "pending", "suspended"}
      /\ offer.gift => ~freed[o].b.paid
      /\ store[o] \notin {"closing", "closed"}
  BY DEF Reservation, Follows
<1>2. /\ Sound(w, now) /\ w.e = freed[o].e /\ w.u = freed[o].u
      /\ w.b.paid = freed[o].b.paid
  BY <1>0, <1>1, ReservedSound
<1> HIDE DEF w
<1>3. w \in Account
  BY <1>2 DEF Sound
<1>4. Onward(acct[o], w) /\ (acct[o].b.paid => w.b.paid)
  <2>1. Onward(acct[o], freed[o])
    BY <1>0, <1>1, LaterIsOnward
  <2> QED
    BY <1>1, <1>2, <2>1 DEF Onward, Later, RowStep
<1>5. ASSUME NEW x \in Owner
      PROVE  /\ Sound(acct'[x], now) /\ Onward(acct[x], acct'[x])
             /\ acct[x].b.paid => acct'[x].b.paid
             /\ store[x] \in {"closing", "closed"} /\ ClosedOut(acct[x])
                  => ClosedOut(acct'[x])
  <2>1. CASE x = o
    BY <1>0, <1>1, <1>2, <1>4, <2>1
  <2>2. CASE x # o
    <3>1. acct'[x] = freed[x] /\ acct[x] \in Account
      BY <1>0, <2>2
    <3>2. Sound(freed[x], now) /\ Later(acct[x], freed[x], now)
      BY DEF Reservation, Follows
    <3> QED
      BY <3>1, <3>2, LaterIsOnward DEF Later, RowStep
  <2> QED
    BY <2>1, <2>2
<1>6. acct' \in [Owner -> Account]
  BY <1>0, <1>3
<1> QED
  BY <1>5, <1>6, MoveKeeps

\* A webhook is true when it is read.
LEMMA ReadEventKeeps ==
  ASSUME BillingInv, NEW o \in Owner, NEW a \in Attempt, NEW kind \in EventKind,
         ReadEvent(o, a, kind)
  PROVE  BillingInv'
<1> DEFINE h == [owner |-> o, kind |-> kind, attempt |-> a,
                 session |-> acct[o].e[a], sub |-> acct[o].u[a]]
<1>0. /\ Sound(acct[o], now) /\ acct[o] \in Account
      /\ acct[o].u[a] \in Subscription /\ acct[o].e[a] \in SessionState
  BY SessionTypes DEF BillingInv, AccountsSound, Sound
<1>1. h \in Webhook
  BY <1>0 DEF Webhook
<1>2. webhooks' = webhooks \cup {h} /\ acct[o].e[a] # "none"
      /\ UNCHANGED <<now, acct, store, reading>>
  BY DEF ReadEvent
<1>3. /\ h.owner = o /\ h.attempt = a /\ h.session = acct[o].e[a]
      /\ h.sub = acct[o].u[a]
  OBVIOUS
<1> HIDE DEF h
<1>4. SnapshotFits(acct[o].u[a], acct[o].u[a], acct[o].e[a])
  BY <1>0 DEF Sound, AttemptFits, InvoiceFits, SnapshotFits
<1>5. HookFits(h)
  BY <1>2, <1>3, <1>4 DEF HookFits
<1>6. \A k \in webhooks' : HookFits(k)
  BY <1>2, <1>5 DEF BillingInv, HooksFit
<1>7. HooksFit'
  BY <1>2, <1>6 DEF HooksFit, HookFits
<1>8. TypeOK'
  BY <1>1, <1>2 DEF BillingInv, TypeOK
<1> QED
  BY <1>2, <1>7, <1>8 DEF BillingInv, AccountsSound, ReadingFits, StoresFit

\* So is what the reconciler reads.
LEMMA ReconcileReadKeeps == ASSUME BillingInv, ReconcileRead PROVE BillingInv'
<1> DEFINE r == [taken |-> TRUE,
                 e |-> [o \in Owner |-> acct[o].e],
                 u |-> [o \in Owner |-> acct[o].u]]
<1>1. reading' = r /\ UNCHANGED <<now, acct, store, webhooks>>
  BY DEF ReconcileRead
<1>2. ASSUME NEW o \in Owner
      PROVE  /\ SeenFits(acct[o], r.e[o]) /\ SnapshotsFit(acct[o], r.u[o])
             /\ r.e[o] \in [Attempt -> SessionState]
             /\ r.u[o] \in [Attempt -> Subscription]
  <2>1. Sound(acct[o], now) /\ acct[o] \in Account
    BY DEF BillingInv, AccountsSound, Sound
  <2>2. SeenFits(acct[o], acct[o].e)
    BY DEF SeenFits
  <2>3. SnapshotsFit(acct[o], acct[o].u)
    <3> SUFFICES ASSUME NEW a \in Attempt
                 PROVE  SnapshotFits(acct[o].u[a], acct[o].u[a], acct[o].e[a])
      BY DEF SnapshotsFit
    <3>1. AttemptFits(acct[o].b, a, acct[o].c[a], acct[o].e[a], acct[o].u[a], now)
      BY <2>1 DEF Sound
    <3>2. acct[o].u[a] \in Subscription
      BY <2>1, SessionTypes
    <3> QED
      BY <3>1, <3>2 DEF AttemptFits, InvoiceFits, SnapshotFits
  <2> QED
    BY <2>1, <2>2, <2>3 DEF Account
<1>3. r \in Reading
  <2>1. /\ [o \in Owner |-> acct[o].e] \in [Owner -> [Attempt -> SessionState]]
        /\ [o \in Owner |-> acct[o].u] \in [Owner -> [Attempt -> Subscription]]
    BY DEF BillingInv, TypeOK, Account
  <2> QED
    BY <2>1 DEF Reading
<1> HIDE DEF r
<1>4. TypeOK'
  BY <1>1, <1>3 DEF BillingInv, TypeOK
<1>5. ReadingFits'
  BY <1>1, <1>2 DEF ReadingFits
<1>6. HooksFit'
  BY <1>1 DEF BillingInv, HooksFit, HookFits
<1> QED
  BY <1>1, <1>4, <1>5, <1>6 DEF BillingInv, AccountsSound, StoresFit

\* A store is created for an account that was paid, and deleted after the
\* account has been suspended with nothing left to pay.
LEMMA StoresKeep ==
  ASSUME BillingInv, NEW o \in Owner,
         CreateStore(o) \/ RequestCleanup(o) \/ FinishArchive(o)
  PROVE  BillingInv'
<1>1. UNCHANGED <<now, acct, webhooks, reading>>
  BY DEF CreateStore, RequestCleanup, FinishArchive
<1>2. Sound(acct[o], now) /\ store \in [Owner -> {"none", "open", "closing", "closed"}]
  BY DEF BillingInv, AccountsSound, TypeOK
<1>3. CASE CreateStore(o)
  <2>1. acct[o].b.status \in Served
    BY <1>3 DEF CreateStore, AccessAllowed, Served
  <2>2. acct[o].b.paid
    BY <1>2, <2>1 DEF Sound, RowFits, Served
  <2>3. store' = [store EXCEPT ![o] = "open"]
    BY <1>3 DEF CreateStore
  <2>4. StoresFit'
    BY <1>1, <1>2, <2>2, <2>3 DEF BillingInv, StoresFit
  <2>5. TypeOK'
    BY <1>1, <2>3 DEF BillingInv, TypeOK
  <2> QED
    BY <1>1, <2>4, <2>5 DEF BillingInv, AccountsSound, HooksFit, HookFits, ReadingFits
<1>4. CASE RequestCleanup(o)
  <2>1. ClosedOut(acct[o])
    BY <1>4 DEF RequestCleanup, ClosedOut, PendingAttempts, Unsettled
  <2>2. store' = [store EXCEPT ![o] = "closing"]
    BY <1>4 DEF RequestCleanup
  <2>3. StoresFit'
    BY <1>1, <1>2, <2>1, <2>2 DEF BillingInv, StoresFit
  <2>4. TypeOK'
    BY <1>1, <2>2 DEF BillingInv, TypeOK
  <2> QED
    BY <1>1, <2>3, <2>4 DEF BillingInv, AccountsSound, HooksFit, HookFits, ReadingFits
<1>5. CASE FinishArchive(o)
  <2>1. store[o] = "closing" /\ store' = [store EXCEPT ![o] = "closed"]
    BY <1>5 DEF FinishArchive
  <2>2. StoresFit'
    BY <1>1, <1>2, <2>1 DEF BillingInv, StoresFit
  <2>3. TypeOK'
    BY <1>1, <2>1 DEF BillingInv, TypeOK
  <2> QED
    BY <1>1, <2>2, <2>3 DEF BillingInv, AccountsSound, HooksFit, HookFits, ReadingFits
<1> QED
  BY <1>3, <1>4, <1>5

\* Time passes while no session can be paid.
LEMMA TickKeeps == ASSUME BillingInv, Tick PROVE BillingInv'
<1>1. /\ now \in Nat /\ now' = now + 1 /\ UNCHANGED <<acct, store, webhooks, reading>>
      /\ \A o \in Owner, a \in Attempt : acct[o].e[a] # "open"
  BY DEF BillingInv, TypeOK, Tick
<1>2. ASSUME NEW o \in Owner
      PROVE  Sound(acct[o], now + 1)
  <2> DEFINE v == acct[o]
  <2>1. Sound(v, now) /\ v \in Account /\ v.b.end \in Nat
    BY DEF BillingInv, AccountsSound, Sound, Account, Billing
  <2>2. RowFits(v.b, now + 1)
    BY <1>1, <2>1 DEF Sound, RowFits
  <2>3. ASSUME NEW a \in Attempt
        PROVE  AttemptFits(v.b, a, v.c[a], v.e[a], v.u[a], now + 1)
    <3>1. AttemptFits(v.b, a, v.c[a], v.e[a], v.u[a], now) /\ v.e[a] # "open"
      BY <1>1, <2>1 DEF Sound
    <3>2. FirstEnd(v.u[a], v.c[a].offer) \in Nat
      <4>1. v.u[a] \in Subscription /\ v.c[a].offer \in Offer
        BY <2>1, SessionTypes
      <4>2. v.c[a].offer.plan \in Plan /\ v.c[a].offer.gift \in BOOLEAN /\ v.u[a].paidAt \in Nat
        BY <4>1 DEF Offer, Subscription
      <4> QED
        BY <4>2, AnyTermCounts DEF FirstEnd
    <3>3. WaitingFits(v.b, v.c[a], v.u[a], now) => WaitingFits(v.b, v.c[a], v.u[a], now + 1)
      BY <1>1, <3>2 DEF WaitingFits
    <3> QED
      BY <3>1, <3>3 DEF AttemptFits, SessionFits, ServiceFits
  <2> QED
    BY <2>1, <2>2, <2>3 DEF Sound
<1>3. TypeOK'
  BY <1>1 DEF BillingInv, TypeOK
<1>4. AccountsSound'
  BY <1>1, <1>2 DEF AccountsSound
<1> QED
  BY <1>1, <1>3, <1>4 DEF BillingInv, HooksFit, HookFits, ReadingFits, StoresFit

\* Nobody has bought anything.
LEMMA BillingInit == Init => BillingInv
<1> SUFFICES ASSUME Init
             PROVE  BillingInv
  OBVIOUS
<1>1. NoBilling \in Billing /\ NoCheckout \in Checkout /\ NoSubscription \in Subscription
  BY DEF NoBilling, Billing, NoCheckout, NoOffer, Checkout, Offer, NoSubscription,
         Subscription, Plan, NoPlan
<1>2. EmptyAccount \in Account
  BY <1>1 DEF EmptyAccount, Account, SessionState
<1>3. ASSUME NEW a \in Attempt
      PROVE  AttemptFits(NoBilling, a, NoCheckout, "none", NoSubscription, 0)
  <2>1. NoBilling.sub # a
    BY AttemptAssumption DEF NoBilling
  <2> QED
    BY <2>1 DEF AttemptFits, SessionFits, InvoiceFits, ServiceFits, Unsettled,
                NoCheckout, NoSubscription
<1>4. RowFits(NoBilling, 0)
  BY DEF RowFits, NoBilling
<1>5. OneUnsettled(EmptyAccount.c) /\ BonusFirst(EmptyAccount.c, EmptyAccount.u)
  BY DEF OneUnsettled, BonusFirst, EmptyAccount, NoCheckout, Unsettled
<1>6. \A a \in Attempt : /\ EmptyAccount.c[a] = NoCheckout /\ EmptyAccount.e[a] = "none"
                         /\ EmptyAccount.u[a] = NoSubscription
  BY DEF EmptyAccount
<1>7. EmptyAccount.b = NoBilling
  BY DEF EmptyAccount
<1>8. Sound(EmptyAccount, 0)
  BY <1>2, <1>3, <1>4, <1>5, <1>6, <1>7 DEF Sound
<1>9. /\ now = 0 /\ acct = [o \in Owner |-> EmptyAccount]
      /\ store = [o \in Owner |-> "none"] /\ webhooks = {} /\ reading = NoReading
  BY DEF Init
<1>10. TypeOK
  BY <1>2, <1>9 DEF TypeOK
<1> QED
  BY <1>8, <1>9, <1>10 DEF BillingInv, AccountsSound, HooksFit, ReadingFits, StoresFit

-----------------------------------------------------------------------------
(* The invariant is inductive *)

\* The store of an owner is created once the owner has paid, and then deleted.
StoreMoves ==
  /\ store' \in [Owner -> {"none", "open", "closing", "closed"}]
  /\ \A o \in Owner :
       \/ store'[o] = store[o]
       \/ store[o] = "none" /\ store'[o] = "open" /\ acct[o].b.paid
       \/ store[o] = "open" /\ store'[o] = "closing"
       \/ store[o] = "closing" /\ store'[o] = "closed"

\* Time passes while the stores are left alone.
ClockMoves ==
  \/ UNCHANGED store /\ now' \in {now, now + 1}
  \/ /\ UNCHANGED now
     /\ \E o \in Owner : CreateStore(o) \/ RequestCleanup(o) \/ FinishArchive(o)

\* The steps that change accounts.
AccountMoves ==
  /\ \/ AccountsFollow
     \/ \E o \in Owner, a \in Attempt, freed \in [Owner -> Account], offer \in Offer :
          Reservation(o, a, freed, offer)
     \/ \E o \in Owner : StripeMoves(o)
  /\ UNCHANGED <<now, store>>

\* Every step is one of these.
Moves == AccountMoves \/ (UNCHANGED acct /\ StoreMoves /\ ClockMoves)

\* The stores as they are.
LEMMA StoresStay ==
  BillingInv /\ UNCHANGED store /\ now' \in {now, now + 1} => StoreMoves /\ ClockMoves
  BY DEF BillingInv, TypeOK, StoreMoves, ClockMoves

\* The store operations leave the accounts alone.
LEMMA StoresMove ==
  ASSUME BillingInv, NEW o \in Owner,
         CreateStore(o) \/ RequestCleanup(o) \/ FinishArchive(o)
  PROVE  UNCHANGED acct /\ StoreMoves /\ ClockMoves
<1>0. UNCHANGED now
  BY DEF CreateStore, RequestCleanup, FinishArchive
<1>1. Sound(acct[o], now) /\ store \in [Owner -> {"none", "open", "closing", "closed"}]
  BY DEF BillingInv, AccountsSound, TypeOK
<1>2. CreateStore(o) => acct[o].b.paid
  BY <1>1 DEF CreateStore, AccessAllowed, Sound, RowFits
<1>3. CASE CreateStore(o)
  BY <1>0, <1>1, <1>2, <1>3 DEF CreateStore, StoreMoves, ClockMoves
<1>4. CASE RequestCleanup(o)
  BY <1>0, <1>1, <1>4 DEF RequestCleanup, StoreMoves, ClockMoves
<1>5. CASE FinishArchive(o)
  BY <1>0, <1>1, <1>5 DEF FinishArchive, StoreMoves, ClockMoves
<1> QED
  BY <1>3, <1>4, <1>5

\* createCheckout.
LEMMA PurchaseStep ==
  ASSUME BillingInv, NEW o \in Owner, Purchase(o)
  PROVE  BillingInv' /\ Moves
<1>1. ASSUME NEW ask \in Asks, NEW reject \in BOOLEAN, ReuseCheckout(o, ask, reject)
      PROVE  BillingInv' /\ Moves
  <2>1. AccountsFollow
    BY <1>1, ReuseFollows
  <2>2. UNCHANGED <<now, store, webhooks, reading>>
    BY <1>1 DEF ReuseCheckout
  <2> QED
    BY <2>1, <2>2, FollowsKeeps DEF Moves, AccountMoves
<1>2. ASSUME NEW a \in Attempt, NEW ask \in Asks, NEW reject \in BOOLEAN,
             ReserveCheckout(o, a, ask, reject)
      PROVE  BillingInv' /\ Moves
  <2>1. UNCHANGED <<now, store, webhooks, reading>>
    BY <1>2 DEF ReserveCheckout
  <2>2. CASE AccountsFollow
    BY <2>1, <2>2, FollowsKeeps DEF Moves, AccountMoves
  <2>3. CASE \E freed \in [Owner -> Account], offer \in Offer :
               Reservation(o, a, freed, offer)
    BY <2>1, <2>3, ReservationKeeps DEF Moves, AccountMoves
  <2> QED
    BY <1>2, <2>2, <2>3, ReserveFollows
<1>3. ASSUME NEW a \in Attempt, NEW reject \in BOOLEAN, OpenCheckout(o, a, reject)
      PROVE  BillingInv' /\ Moves
  <2>1. AccountsFollow
    BY <1>3, OpenFollows
  <2>2. UNCHANGED <<now, store, webhooks, reading>>
    BY <1>3 DEF OpenCheckout
  <2> QED
    BY <2>1, <2>2, FollowsKeeps DEF Moves, AccountMoves
<1> QED
  BY <1>1, <1>2, <1>3 DEF Purchase

\* Changes of plan and renewal, and the store operations.
LEMMA ManageStep ==
  ASSUME BillingInv, NEW o \in Owner, Manage(o)
  PROVE  BillingInv' /\ Moves
<1>1. ASSUME NEW plan \in Plan, SchedulePlan(o, plan)
      PROVE  BillingInv' /\ Moves
  <2>1. AccountsFollow
    BY <1>1, SchedulePlanFollows
  <2>2. UNCHANGED <<now, store, webhooks, reading>>
    BY <1>1 DEF SchedulePlan
  <2> QED
    BY <2>1, <2>2, FollowsKeeps DEF Moves, AccountMoves
<1>2. ASSUME NEW enabled \in BOOLEAN, SetRenewal(o, enabled)
      PROVE  BillingInv' /\ Moves
  <2>1. AccountsFollow
    BY <1>2, SetRenewalFollows
  <2>2. UNCHANGED <<now, store, webhooks, reading>>
    BY <1>2 DEF SetRenewal
  <2> QED
    BY <2>1, <2>2, FollowsKeeps DEF Moves, AccountMoves
<1>3. ASSUME CreateStore(o) \/ RequestCleanup(o) \/ FinishArchive(o)
      PROVE  BillingInv' /\ Moves
  BY <1>3, StoresKeep, StoresMove DEF Moves
<1> QED
  BY <1>1, <1>2, <1>3 DEF Manage

\* Webhooks.
LEMMA DeliverStep == ASSUME BillingInv, Deliver PROVE BillingInv' /\ Moves
<1>1. ASSUME NEW o \in Owner, NEW a \in Attempt, NEW kind \in EventKind,
             ReadEvent(o, a, kind)
      PROVE  BillingInv' /\ Moves
  <2>1. UNCHANGED <<now, acct, store>>
    BY <1>1 DEF ReadEvent
  <2> QED
    BY <1>1, <2>1, ReadEventKeeps, StoresStay DEF Moves
<1>2. ASSUME NEW h \in webhooks, HandleEvent(h)
      PROVE  BillingInv' /\ Moves
  <2>1. AccountsFollow
    BY <1>2, HandleEventFollows
  <2>2. UNCHANGED <<now, store, reading>> /\ webhooks' \subseteq webhooks
    BY <1>2 DEF HandleEvent
  <2> QED
    BY <2>1, <2>2, FollowsKeeps DEF Moves, AccountMoves
<1> QED
  BY <1>1, <1>2 DEF Deliver

\* The timer.
LEMMA ReconcileStep == ASSUME BillingInv, Reconcile PROVE BillingInv' /\ Moves
<1>1. CASE ReconcileRead
  <2>1. UNCHANGED <<now, acct, store>>
    BY <1>1 DEF ReconcileRead
  <2> QED
    BY <1>1, <2>1, ReconcileReadKeeps, StoresStay DEF Moves
<1>2. ASSUME NEW reject \in BOOLEAN, ReconcileCommit(reject)
      PROVE  BillingInv' /\ Moves
  <2>1. AccountsFollow
    BY <1>2, ReconcileFollows
  <2>2. UNCHANGED <<now, store, webhooks>> /\ reading' = NoReading
    BY <1>2 DEF ReconcileCommit
  <2> QED
    BY <2>1, <2>2, FollowsKeeps DEF Moves, AccountMoves
<1>3. CASE ReconcileAbort
  <2>1. UNCHANGED <<now, acct, store, webhooks>> /\ reading' = NoReading
    BY <1>3 DEF ReconcileAbort
  <2>2. BillingInv'
    BY <2>1 DEF BillingInv, TypeOK, AccountsSound, HooksFit, HookFits, ReadingFits, StoresFit
  <2> QED
    BY <2>1, <2>2, StoresStay DEF Moves
<1>4. CASE SendNotices
  <2>1. AccountsFollow
    BY <1>4, NoticesFollow
  <2>2. UNCHANGED <<now, store, webhooks, reading>>
    BY <1>4 DEF SendNotices
  <2> QED
    BY <2>1, <2>2, FollowsKeeps DEF Moves, AccountMoves
<1> QED
  BY <1>1, <1>2, <1>3, <1>4 DEF Reconcile

\* Stripe and its customers.
LEMMA StripeAct ==
  ASSUME BillingInv, NEW o \in Owner, NEW a \in Attempt, Stripe(o, a)
  PROVE  BillingInv' /\ Moves
<1>1. StripeMoves(o)
  BY PayMoves, ExpireSessionMoves, RenewMoves, CollectMoves, RefuseMoves,
     EndSubscriptionMoves DEF Stripe
<1>2. UNCHANGED <<now, store, webhooks, reading>>
  BY DEF Stripe, Pay, ExpireSession, Renew, Collect, Refuse, EndSubscription, StripeStep
<1> QED
  BY <1>1, <1>2, StripeKeeps DEF Moves, AccountMoves

\* Every step keeps the invariant and is one of the four moves.
LEMMA BillingStep == ASSUME BillingInv, [Next]_vars PROVE BillingInv' /\ Moves
<1>1. ASSUME NEW o \in Owner, Purchase(o)
      PROVE  BillingInv' /\ Moves
  BY <1>1, PurchaseStep
<1>2. ASSUME NEW o \in Owner, Manage(o)
      PROVE  BillingInv' /\ Moves
  BY <1>2, ManageStep
<1>3. CASE Deliver
  BY <1>3, DeliverStep
<1>4. CASE Reconcile
  BY <1>4, ReconcileStep
<1>5. ASSUME NEW o \in Owner, NEW a \in Attempt, Stripe(o, a)
      PROVE  BillingInv' /\ Moves
  BY <1>5, StripeAct
<1>6. CASE Tick
  <2>1. UNCHANGED <<acct, store>> /\ now' = now + 1
    BY <1>6 DEF Tick
  <2> QED
    BY <1>6, <2>1, TickKeeps, StoresStay DEF Moves
<1>7. CASE UNCHANGED vars
  <2>1. UNCHANGED <<now, acct, store, webhooks, reading>>
    BY <1>7 DEF vars
  <2>2. BillingInv'
    BY <2>1 DEF BillingInv, TypeOK, AccountsSound, HooksFit, HookFits, ReadingFits, StoresFit
  <2> QED
    BY <2>1, <2>2, StoresStay DEF Moves
<1> QED
  BY <1>1, <1>2, <1>3, <1>4, <1>5, <1>6, <1>7 DEF Next

\* The inductive invariant: every account is Sound, and what was read of Stripe
\* before a transaction is still true in what counts when it runs.
THEOREM BillingInvariant == Spec => []BillingInv
<1>1. BillingInv /\ [Next]_vars => BillingInv'
  BY BillingStep
<1> QED
  BY <1>1, BillingInit, PTL DEF Spec

-----------------------------------------------------------------------------
(* What the invariant says of one account *)

\* Whatever an owner can be charged through is the one attempt that is waiting,
\* or the one subscription that serves them.
LEMMA OneWayOfPaying ==
  ASSUME NEW v, NEW t, Sound(v, t), NEW a \in Attempt, NEW p \in Attempt,
         v.e[a] = "open" \/ v.u[a].state = "live",
         v.e[p] = "open" \/ v.u[p].state = "live"
  PROVE  a = p
<1>1. ASSUME NEW x \in Attempt, v.e[x] = "open" \/ v.u[x].state = "live"
      PROVE  \/ v.c[x].status \in Unsettled /\ v.b.status \notin Served
             \/ v.b.sub = x /\ v.b.status \in Served
  <2>1. AttemptFits(v.b, x, v.c[x], v.e[x], v.u[x], t)
    BY DEF Sound
  <2>2. v.c[x].status \in Unsettled \/ v.c[x].status = "paid"
    BY <1>1, <2>1 DEF AttemptFits, SessionFits, InvoiceFits, Unsettled
  <2>3. CASE v.c[x].status \in Unsettled
    BY <2>1, <2>3 DEF AttemptFits, ServiceFits, Served
  <2>4. CASE v.c[x].status = "paid"
    <3>1. v.u[x].state = "live"
      BY <1>1, <2>1, <2>4 DEF AttemptFits, SessionFits
    <3> QED
      BY <2>1, <2>4, <3>1 DEF AttemptFits, ServiceFits
  <2> QED
    BY <2>2, <2>3, <2>4
<1> QED
  BY <1>1 DEF Sound, OneUnsettled

\* A set whose members are all the same.
LEMMA AtMostOne ==
  ASSUME NEW S, \A a, p \in S : a = p
  PROVE  Cardinality(S) <= 1
<1>1. CASE S = {}
  BY <1>1, FS_EmptySet
<1>2. CASE S # {}
  <2>1. PICK a : a \in S
    BY <1>2
  <2>2. S = {a}
    BY <2>1
  <2> QED
    BY <2>2, FS_Singleton
<1> QED
  BY <1>1, <1>2

-----------------------------------------------------------------------------
(* The theorems *)

\* The rows, Stripe's objects and everything read of them have their types.
THEOREM BillingTypes == Spec => []TypeOK
<1>1. BillingInv => TypeOK
  BY DEF BillingInv
<1> QED
  BY <1>1, BillingInvariant, PTL

\* An owner has at most one way of being charged, a payable session or a live
\* subscription, whatever is retried, replayed, lost or rolled back.
THEOREM OneCharge == Spec => []ChargedOnce
<1>1. BillingInv => ChargedOnce
  <2> SUFFICES ASSUME BillingInv, NEW o \in Owner
               PROVE  Cardinality(Chargeable(o)) <= 1
    BY DEF ChargedOnce
  <2>1. Sound(acct[o], now)
    BY DEF BillingInv, AccountsSound
  <2>2. \A a, p \in Chargeable(o) : a = p
    BY <2>1, OneWayOfPaying DEF Chargeable
  <2> QED
    BY <2>2, AtMostOne
<1> QED
  BY <1>1, BillingInvariant, PTL

\* The one unsettled attempt reapCheckouts and createCheckout look for is the
\* only one.
THEOREM OnePending == Spec => []OnePendingCheckout
<1>1. BillingInv => OnePendingCheckout
  <2> SUFFICES ASSUME BillingInv, NEW o \in Owner
               PROVE  Cardinality(PendingAttempts(acct[o])) <= 1
    BY DEF OnePendingCheckout
  <2>1. Sound(acct[o], now)
    BY DEF BillingInv, AccountsSound
  <2>2. \A a, p \in PendingAttempts(acct[o]) : a = p
    BY <2>1 DEF Sound, OneUnsettled, PendingAttempts, Unsettled
  <2> QED
    BY <2>2, AtMostOne
<1> QED
  BY <1>1, BillingInvariant, PTL

\* A session the customer paid in is applied or still on the reconciler's list.
THEOREM PaymentsAreKept == Spec => []PaymentNotForgotten
<1>1. BillingInv => PaymentNotForgotten
  BY DEF BillingInv, AccountsSound, Sound, AttemptFits, SessionFits, PaymentNotForgotten
<1> QED
  BY <1>1, BillingInvariant, PTL

\* No payment is ever refused as a conflict, which would roll back the
\* reconciliation of every owner.
THEOREM PaymentsAreTaken == Spec => []NoPaymentConflict
<1>1. BillingInv => NoPaymentConflict
  <2> SUFFICES ASSUME BillingInv, NEW o \in Owner, NEW a \in Attempt,
                      acct[o].e[a] = "complete"
               PROVE  ~PaymentConflict(acct[o], a)
    BY DEF NoPaymentConflict
  <2>1. AttemptFits(acct[o].b, a, acct[o].c[a], acct[o].e[a], acct[o].u[a], now)
    BY DEF BillingInv, AccountsSound, Sound
  <2> QED
    BY <2>1 DEF AttemptFits, SessionFits, ServiceFits, PaymentConflict, Unsettled
<1> QED
  BY <1>1, BillingInvariant, PTL

\* A suspended account leaves nothing at Stripe that could still be collected.
THEOREM SuspensionStopsCharges == Spec => []SuspendedIsUncollectible
<1>1. BillingInv => SuspendedIsUncollectible
  <2> SUFFICES ASSUME BillingInv, NEW o \in Owner, acct[o].b.status = "suspended"
               PROVE  /\ acct[o].u[acct[o].b.sub].state = "canceled"
                      /\ acct[o].u[acct[o].b.sub].inv \notin {"draft", "failed"}
    BY DEF SuspendedIsUncollectible
  <2> DEFINE v == acct[o]
  <2>1. Sound(v, now) /\ v.b.sub \in Attempt
    BY DEF BillingInv, AccountsSound, Sound, RowFits
  <2>2. AttemptFits(v.b, v.b.sub, v.c[v.b.sub], v.e[v.b.sub], v.u[v.b.sub], now)
    BY <2>1 DEF Sound
  <2> QED
    BY <2>2 DEF AttemptFits, ServiceFits
<1> QED
  BY <1>1, BillingInvariant, PTL

\* Nobody is served beyond what the payments on their subscription bought.
THEOREM ServiceIsPaid == Spec => []NoUnpaidEntitlement
<1>1. BillingInv => NoUnpaidEntitlement
  <2> SUFFICES ASSUME BillingInv, NEW o \in Owner, acct[o].b.end # 0
               PROVE  acct[o].b.end <= acct[o].u[acct[o].b.sub].paidEnd
    BY DEF NoUnpaidEntitlement
  <2> DEFINE v == acct[o]
  <2>1. Sound(v, now) /\ v.b.status \notin {"none", "pending"}
    BY DEF BillingInv, AccountsSound, Sound, RowFits
  <2>2. v.b.sub \in Attempt
    BY <2>1 DEF Sound, RowFits
  <2>3. AttemptFits(v.b, v.b.sub, v.c[v.b.sub], v.e[v.b.sub], v.u[v.b.sub], now)
    BY <2>1, <2>2 DEF Sound
  <2> QED
    BY <2>3 DEF AttemptFits, ServiceFits
<1> QED
  BY <1>1, BillingInvariant, PTL

\* The introductory bonus goes to one attempt of an owner, the first paid.
THEOREM BonusIsGivenOnce == Spec => []BonusOnce
<1>1. BillingInv => BonusOnce
  BY DEF BillingInv, AccountsSound, Sound, BonusFirst, BonusOnce
<1> QED
  BY <1>1, BillingInvariant, PTL

\* The owner of a store that is being deleted can no longer be charged.
THEOREM ClosingIsSettled == Spec => []ClosingIsUnpayable
<1>1. BillingInv => ClosingIsUnpayable
  <2> SUFFICES ASSUME BillingInv, NEW o \in Owner, store[o] \in {"closing", "closed"}
               PROVE  Chargeable(o) = {} /\ PendingAttempts(acct[o]) = {}
    BY DEF ClosingIsUnpayable
  <2>1. Sound(acct[o], now) /\ ClosedOut(acct[o])
    BY DEF BillingInv, AccountsSound, StoresFit
  <2>2. ASSUME NEW a \in Attempt
        PROVE  acct[o].e[a] # "open" /\ acct[o].u[a].state # "live"
    <3>1. AttemptFits(acct[o].b, a, acct[o].c[a], acct[o].e[a], acct[o].u[a], now)
      BY <2>1 DEF Sound
    <3>2. acct[o].c[a].status \notin Unsettled /\ acct[o].b.status = "suspended"
      BY <2>1 DEF ClosedOut
    <3>3. acct[o].e[a] # "open"
      BY <3>1, <3>2 DEF AttemptFits, SessionFits
    <3>4. acct[o].u[a].state = "live" => acct[o].c[a].status = "paid"
      BY <3>1, <3>2 DEF AttemptFits, SessionFits, InvoiceFits, Unsettled
    <3> QED
      BY <3>1, <3>2, <3>3, <3>4 DEF AttemptFits, ServiceFits, Served
  <2> QED
    BY <2>1, <2>2 DEF Chargeable, ClosedOut, PendingAttempts, Unsettled
<1> QED
  BY <1>1, BillingInvariant, PTL

\* What a step that changes accounts makes of the row of one owner.
LEMMA RowsMove ==
  ASSUME BillingInv, AccountMoves, NEW o \in Owner
  PROVE  /\ acct'[o] \in Account /\ Sound(acct'[o], now)
         /\ acct[o].b.end <= acct'[o].b.end
         /\ store[o] \in {"closing", "closed"} =>
              ClosedOut(acct'[o]) /\ acct'[o].b.retention = acct[o].b.retention
<1>1. /\ acct[o] \in Account /\ acct[o].b.end \in Nat /\ now \in Nat
      /\ store[o] \in {"closing", "closed"} => ClosedOut(acct[o])
  BY DEF BillingInv, TypeOK, StoresFit, Account, Billing
<1>2. CASE AccountsFollow
  <2>1. acct'[o] \in Account /\ Sound(acct'[o], now) /\ Later(acct[o], acct'[o], now)
    BY <1>2 DEF AccountsFollow
  <2> QED
    BY <1>1, <2>1 DEF Later, RowStep
<1>3. ASSUME NEW x \in Owner, NEW a \in Attempt, NEW freed \in [Owner -> Account],
             NEW offer \in Offer, Reservation(x, a, freed, offer)
      PROVE  /\ acct'[o] \in Account /\ Sound(acct'[o], now)
             /\ acct[o].b.end <= acct'[o].b.end
             /\ store[o] \in {"closing", "closed"} =>
                  ClosedOut(acct'[o]) /\ acct'[o].b.retention = acct[o].b.retention
  <2>1. Sound(freed[o], now) /\ Later(acct[o], freed[o], now)
    BY <1>3 DEF Reservation, Follows
  <2>2. CASE o = x
    <3>1. acct'[o] = Reserved(freed[o], a, offer, now)
      BY <1>3, <2>2 DEF Reservation
    <3>2. /\ PendingAttempts(freed[o]) = {} /\ freed[o].c[a].status = "none"
          /\ freed[o].b.status \in {"none", "pending", "suspended"}
          /\ offer.gift => ~freed[o].b.paid
          /\ store[o] \notin {"closing", "closed"}
      BY <1>3, <2>2 DEF Reservation
    <3>3. Sound(acct'[o], now) /\ acct'[o].b.end = freed[o].b.end
      BY <1>1, <2>1, <3>1, <3>2, ReservedSound
    <3> QED
      BY <2>1, <3>2, <3>3 DEF Later, RowStep, Sound
  <2>3. CASE o # x
    <3>1. acct'[o] = freed[o]
      BY <1>3, <2>3 DEF Reservation
    <3> QED
      BY <1>1, <2>1, <3>1 DEF Later, RowStep
  <2> QED
    BY <2>2, <2>3
<1>4. ASSUME NEW x \in Owner, StripeMoves(x)
      PROVE  /\ acct'[o] \in Account /\ Sound(acct'[o], now)
             /\ acct'[o].b = acct[o].b /\ acct'[o].c = acct[o].c
  <2>1. Sound(acct[o], now)
    BY DEF BillingInv, AccountsSound
  <2> QED
    BY <1>1, <1>4, <2>1 DEF StripeMoves
<1>5. ASSUME NEW x \in Owner, StripeMoves(x)
      PROVE  /\ acct'[o] \in Account /\ Sound(acct'[o], now)
             /\ acct[o].b.end <= acct'[o].b.end
             /\ store[o] \in {"closing", "closed"} =>
                  ClosedOut(acct'[o]) /\ acct'[o].b.retention = acct[o].b.retention
  BY <1>1, <1>4, <1>5 DEF ClosedOut
<1> QED
  BY <1>2, <1>3, <1>5 DEF AccountMoves

\* No step of any handler, however late what it read, takes paid time away.
THEOREM TimeIsNeverTaken == Spec => EntitlementKept
<1>1. ASSUME BillingInv, [Next]_vars, NEW o \in Owner
      PROVE  acct'[o].b.end >= acct[o].b.end
  <2>1. acct[o].b.end \in Nat
    BY <1>1 DEF BillingInv, TypeOK, Account, Billing
  <2>2. CASE AccountMoves
    <3>1. acct[o].b.end <= acct'[o].b.end /\ acct'[o] \in Account
      BY <1>1, <2>2, RowsMove
    <3>2. acct'[o].b.end \in Nat
      BY <3>1 DEF Account, Billing
    <3> QED
      BY <2>1, <3>1, <3>2
  <2>3. CASE UNCHANGED acct
    BY <2>1, <2>3
  <2> QED
    BY <1>1, <2>2, <2>3, BillingStep DEF Moves
<1>2. BillingInv /\ [Next]_vars => [\A o \in Owner : acct'[o].b.end >= acct[o].b.end]_vars
  BY <1>1
<1> QED
  BY <1>2, BillingInvariant, PTL DEF Spec, EntitlementKept

-----------------------------------------------------------------------------
(* Retention, and the contract with provisioning *)

\* A store is deleted after the retention time in the owner's row, which no
\* later step moves: neither does the owner pay again, nor is the row suspended
\* a second time.
RetentionOver ==
  \A o \in Owner :
    store[o] \in {"closing", "closed"} => acct[o].b.retention <= now

\* Every step keeps it.
LEMMA RetentionStaysOver ==
  BillingInv /\ RetentionOver /\ [Next]_vars => RetentionOver'
<1> SUFFICES ASSUME BillingInv, RetentionOver, [Next]_vars, NEW o \in Owner,
                    store'[o] \in {"closing", "closed"}
             PROVE  acct'[o].b.retention <= now'
  BY DEF RetentionOver
<1>1. now \in Nat /\ acct[o].b.retention \in Nat
  BY DEF BillingInv, TypeOK, Account, Billing
<1>2. CASE AccountMoves
  <2>1. UNCHANGED <<now, store>>
    BY <1>2 DEF AccountMoves
  <2>2. acct'[o].b.retention = acct[o].b.retention /\ acct[o].b.retention <= now
    BY <1>2, <2>1, RowsMove DEF RetentionOver
  <2> QED
    BY <2>1, <2>2
<1>3. CASE UNCHANGED acct /\ ClockMoves
  <2>1. CASE UNCHANGED store /\ now' \in {now, now + 1}
    <3>1. acct[o].b.retention <= now
      BY <2>1 DEF RetentionOver
    <3>2. acct[o].b.retention <= now'
      BY <1>1, <2>1, <3>1
    <3> QED
      BY <1>3, <3>2
  <2>2. ASSUME UNCHANGED now, NEW x \in Owner,
               CreateStore(x) \/ RequestCleanup(x) \/ FinishArchive(x)
        PROVE  acct[o].b.retention <= now
    <3>1. store \in [Owner -> {"none", "open", "closing", "closed"}]
      BY DEF BillingInv, TypeOK
    <3>2. CASE CreateStore(x)
      <4>1. store[o] \in {"closing", "closed"}
        BY <3>1, <3>2 DEF CreateStore
      <4> QED
        BY <4>1 DEF RetentionOver
    <3>3. CASE RequestCleanup(x)
      <4>1. store[o] \in {"closing", "closed"} \/ o = x
        BY <3>1, <3>3 DEF RequestCleanup
      <4> QED
        BY <3>3, <4>1 DEF RequestCleanup, RetentionOver
    <3>4. CASE FinishArchive(x)
      <4>1. store[o] \in {"closing", "closed"}
        BY <3>1, <3>4 DEF FinishArchive
      <4> QED
        BY <4>1 DEF RetentionOver
    <3> QED
      BY <2>2, <3>2, <3>3, <3>4
  <2> QED
    BY <1>3, <2>1, <2>2 DEF ClockMoves
<1> QED
  BY <1>2, <1>3, BillingStep DEF Moves

\* No store is deleted before three months after its owner's paid service ended.
THEOREM DataIsRetained == Spec => []DataRetained
<1>1. Init => RetentionOver
  BY DEF Init, RetentionOver
<1>2. BillingInv /\ RetentionOver => DataRetained
  <2> SUFFICES ASSUME BillingInv, RetentionOver, NEW o \in Owner,
                      store[o] \in {"closing", "closed"}
               PROVE  acct[o].b.end + Retention <= now
    BY DEF DataRetained
  <2>1. /\ acct[o].b.end \in Nat /\ acct[o].b.retention \in Nat /\ now \in Nat
        /\ Retention \in Nat
    BY TermAssumption DEF BillingInv, TypeOK, Account, Billing
  <2>2. ClosedOut(acct[o]) /\ RowFits(acct[o].b, now) /\ acct[o].b.retention <= now
    BY DEF BillingInv, StoresFit, AccountsSound, Sound, RetentionOver
  <2>3. acct[o].b.end + Retention <= acct[o].b.retention
    BY <2>2 DEF ClosedOut, RowFits
  <2> QED
    BY <2>1, <2>2, <2>3
<1> QED
  BY <1>1, <1>2, RetentionStaysOver, BillingInvariant, PTL DEF Spec

\* Who is served has service or its grace time ahead, ...
LEMMA PaidAhead ==
  ASSUME NEW b \in Billing, NEW t \in Nat, RowFits(b, t), AccessAllowed(b, t)
  PROVE  b.status \in Served /\ t < b.end + Grace
<1>1. b.end \in Nat /\ Grace \in Nat
  BY TermAssumption DEF Billing
<1>2. b.graceEnd = 0 \/ b.graceEnd = b.end + Grace
  BY DEF RowFits
<1> QED
  BY <1>1, <1>2 DEF AccessAllowed, Served

\* ... so that whatever happens to the row at that moment, no cleanup is due.
LEMMA NotDueYet ==
  ASSUME NEW b \in Billing, NEW d \in Billing, NEW t \in Nat, t < b.end + Grace,
         b.end <= d.end, RowFits(d, t), d.status = "suspended"
  PROVE  t < d.retention
<1>1. /\ b.end \in Nat /\ d.end \in Nat /\ d.retention \in Nat
      /\ Grace \in Nat /\ Retention \in Nat /\ Grace <= Retention
  BY TermAssumption DEF Billing
<1>2. d.end + Retention <= d.retention
  BY DEF RowFits
<1> QED
  BY <1>1, <1>2

\* Who is not served today is not served tomorrow without a payment.
LEMMA TimeEndsAccess ==
  ASSUME NEW b \in Billing, NEW t \in Nat, AccessAllowed(b, t + 1)
  PROVE  AccessAllowed(b, t)
<1>1. b.end \in Nat /\ b.graceEnd \in Nat /\ Grace \in Nat
  BY TermAssumption DEF Billing
<1> QED
  BY <1>1 DEF AccessAllowed

\* What billing says of an owner is one of three things.
LEMMA StandingTypes ==
  /\ \A o \in Owner : Standing(o) \in {"paid", "suspended", "due"}
  /\ \A o \in Owner : Standing(o)' \in {"paid", "suspended", "due"}
  BY DEF Standing

\* A step of an account: nobody goes from paid to due, and nobody whose store is
\* being deleted comes back.
LEMMA AccountTurns ==
  ASSUME BillingInv, AccountMoves, NEW o \in Owner
  PROVE  Contract!Turns(o)
<1> DEFINE b == acct[o].b
           d == acct'[o].b
<1>1. /\ b \in Billing /\ d \in Billing /\ now \in Nat /\ RowFits(b, now) /\ RowFits(d, now)
      /\ b.end <= d.end /\ UNCHANGED <<now, store>>
  BY RowsMove DEF BillingInv, TypeOK, AccountsSound, Sound, Account, AccountMoves
<1>2. /\ Standing(o) = IF AccessAllowed(b, now) THEN "paid"
                       ELSE IF b.status = "suspended" /\ b.retention <= now THEN "due"
                       ELSE "suspended"
      /\ Standing(o)' = IF AccessAllowed(d, now) THEN "paid"
                        ELSE IF d.status = "suspended" /\ d.retention <= now THEN "due"
                        ELSE "suspended"
  BY <1>1 DEF Standing
<1>3. CASE AccessAllowed(b, now)
  <2>1. now < b.end + Grace
    BY <1>1, <1>3, PaidAhead
  <2>2. d.status = "suspended" => now < d.retention
    BY <1>1, <2>1, NotDueYet
  <2>3. d.retention \in Nat
    BY <1>1 DEF Billing
  <2>4. ~(d.status = "suspended" /\ d.retention <= now)
    BY <1>1, <2>2, <2>3
  <2> HIDE DEF b, d
  <2>5. Standing(o) = "paid" /\ Standing(o)' \in {"paid", "suspended"}
    BY <1>2, <1>3, <2>4
  <2> QED
    BY <2>5 DEF Contract!Turns
<1>4. CASE store[o] \in {"closing", "closed"}
  <2>1. /\ b.status = "suspended" /\ d.status = "suspended" /\ d.retention = b.retention
    BY <1>4, RowsMove DEF BillingInv, StoresFit, ClosedOut
  <2>2. ~AccessAllowed(b, now) /\ ~AccessAllowed(d, now)
    BY <2>1 DEF AccessAllowed
  <2> HIDE DEF b, d
  <2>3. Standing(o)' = Standing(o)
    BY <1>2, <2>1, <2>2
  <2> QED
    BY <2>3 DEF Contract!Turns
<1>5. CASE ~AccessAllowed(b, now) /\ store[o] \notin {"closing", "closed"}
  <2>1. Standing(o) # "paid"
    BY <1>2, <1>5
  <2> QED
    BY <1>5, <2>1, StandingTypes DEF Contract!Turns
<1> QED
  BY <1>3, <1>4, <1>5

\* The passing of time: paid, then suspended, then due.
LEMMA TimeTurns ==
  ASSUME BillingInv, UNCHANGED acct, now' \in {now, now + 1}, NEW o \in Owner
  PROVE  Contract!Turns(o)
<1> DEFINE b == acct[o].b
<1>1. b \in Billing /\ now \in Nat /\ b.retention \in Nat
  BY DEF BillingInv, TypeOK, Account, Billing
<1>2. /\ Standing(o) = IF AccessAllowed(b, now) THEN "paid"
                       ELSE IF b.status = "suspended" /\ b.retention <= now THEN "due"
                       ELSE "suspended"
      /\ Standing(o)' = IF AccessAllowed(b, now') THEN "paid"
                        ELSE IF b.status = "suspended" /\ b.retention <= now' THEN "due"
                        ELSE "suspended"
  BY DEF Standing
<1>3. CASE now' = now
  BY <1>2, <1>3 DEF Contract!Turns
<1>4. CASE now' = now + 1
  <2>1. AccessAllowed(b, now') => AccessAllowed(b, now)
    BY <1>1, <1>4, TimeEndsAccess
  <2>2. b.retention <= now => b.retention <= now'
    BY <1>1, <1>4
  <2>3. AccessAllowed(b, now) => b.status # "suspended"
    BY DEF AccessAllowed
  <2> HIDE DEF b
  <2>4. \/ Standing(o)' = Standing(o)
        \/ Standing(o) = "paid" /\ Standing(o)' = "suspended"
        \/ Standing(o) = "suspended" /\ Standing(o)' = "due"
    BY <1>2, <2>1, <2>2, <2>3
  <2> QED
    BY <2>4 DEF Contract!Turns
<1> QED
  BY <1>3, <1>4

\* When every owner turns and the stores stay, the contract settles.
LEMMA Settles ==
  ASSUME UNCHANGED store, \A o \in Owner : Contract!Turns(o)
  PROVE  Contract!Next
<1>1. [o \in Owner |-> Standing(o)]' \in [Owner -> {"paid", "suspended", "due"}]
  BY StandingTypes
<1>2. Contract!Settle
  BY <1>1 DEF Contract!Settle
<1> QED
  BY <1>2 DEF Contract!Next

\* Every step of billing is a step of the contract.
LEMMA ContractStep ==
  ASSUME BillingInv, [Next]_vars
  PROVE  [Contract!Next]_(Contract!contractVars)
<1>1. CASE AccountMoves
  <2>1. UNCHANGED store /\ \A o \in Owner : Contract!Turns(o)
    BY <1>1, AccountTurns DEF AccountMoves
  <2> QED
    BY <2>1, Settles
<1>2. CASE UNCHANGED acct /\ UNCHANGED store /\ now' \in {now, now + 1}
  <2>1. \A o \in Owner : Contract!Turns(o)
    BY <1>2, TimeTurns
  <2> QED
    BY <1>2, <2>1, Settles
<1>3. ASSUME UNCHANGED acct, UNCHANGED now, NEW o \in Owner,
             CreateStore(o) \/ RequestCleanup(o) \/ FinishArchive(o)
      PROVE  Contract!Next
  <2>1. \A p \in Owner : Standing(p)' = Standing(p)
    BY <1>3 DEF Standing
  <2>2. UNCHANGED [p \in Owner |-> Standing(p)]
    BY <2>1
  <2>3. CASE CreateStore(o)
    <3>1. /\ store[o] = "none" /\ store' = [store EXCEPT ![o] = "open"]
          /\ Standing(o) = "paid"
      BY <2>3 DEF CreateStore, Standing
    <3>2. Contract!Open(o)
      BY <2>2, <3>1 DEF Contract!Open
    <3> QED
      BY <3>2 DEF Contract!Next
  <2>4. CASE RequestCleanup(o)
    <3>1. /\ store[o] = "open" /\ store' = [store EXCEPT ![o] = "closing"]
          /\ Standing(o) = "due"
      BY <2>4 DEF RequestCleanup, Standing, AccessAllowed
    <3>2. Contract!RequestCleanup(o)
      BY <2>2, <3>1 DEF Contract!RequestCleanup
    <3> QED
      BY <3>2 DEF Contract!Next
  <2>5. CASE FinishArchive(o)
    <3>1. Contract!Close(o)
      BY <2>2, <2>5 DEF FinishArchive, Contract!Close
    <3> QED
      BY <3>1 DEF Contract!Next
  <2> QED
    BY <1>3, <2>3, <2>4, <2>5
<1> QED
  BY <1>1, <1>2, <1>3, BillingStep DEF Moves, ClockMoves

\* Nobody has paid and no store exists.
LEMMA ContractInit == Init => Contract!Init
<1> SUFFICES ASSUME Init
             PROVE  Contract!Init
  OBVIOUS
<1>1. \A o \in Owner : acct[o].b.status = "none"
  BY DEF Init, EmptyAccount, NoBilling
<1>2. \A o \in Owner : Standing(o) = "suspended"
  BY <1>1 DEF Standing, AccessAllowed
<1> QED
  BY <1>2 DEF Init, Contract!Init

\* Billing keeps the contract provisioning relies on: a store is opened for an
\* owner who paid, deleted from one whose retention is over, and from then on
\* nothing brings the owner back, however late it was read.
THEOREM BillingKeepsContract == Spec => ContractKept
<1>1. BillingInv /\ [Next]_vars => [Contract!Next]_(Contract!contractVars)
  BY ContractStep
<1> QED
  BY <1>1, ContractInit, BillingInvariant, PTL DEF Spec, ContractKept, Contract!Spec

-----------------------------------------------------------------------------
(* Places of the shared machine *)

\* The places handed out, of the machine and of the public test.
Places(all) == {o \in Owner : HoldsPlace(all, o)}

PlacesFit == IsFiniteSet(Places(acct)) /\ 1 + Cardinality(Places(acct)) <= Limit

TestsFit == IsFiniteSet(TestCheckouts(acct)) /\ Cardinality(TestCheckouts(acct)) <= TestLimit

\* A set that lies within one which had room for one more.
LEMMA OneMoreFits ==
  ASSUME NEW S, NEW T, NEW x, NEW n \in Nat, IsFiniteSet(S), T \subseteq S \cup {x},
         Cardinality(S) < n
  PROVE  IsFiniteSet(T) /\ Cardinality(T) <= n
<1>1. IsFiniteSet(S \cup {x}) /\ Cardinality(S) \in Nat
      /\ Cardinality(S \cup {x}) <= Cardinality(S) + 1
  BY FS_AddElement, FS_CardinalityType
<1>2. IsFiniteSet(T) /\ Cardinality(T) <= Cardinality(S \cup {x})
  BY <1>1, FS_Subset
<1>3. Cardinality(T) \in Nat /\ Cardinality(S \cup {x}) \in Nat
  BY <1>1, <1>2, FS_CardinalityType
<1> QED
  BY <1>1, <1>2, <1>3

\* Fewer are no more.
LEMMA FewerFit ==
  ASSUME NEW S, NEW T, NEW n \in Nat, IsFiniteSet(S), T \subseteq S, Cardinality(S) <= n
  PROVE  IsFiniteSet(T) /\ Cardinality(T) <= n
<1>1. IsFiniteSet(T) /\ Cardinality(T) <= Cardinality(S)
  BY FS_Subset
<1>2. Cardinality(T) \in Nat /\ Cardinality(S) \in Nat
  BY <1>1, FS_CardinalityType
<1> QED
  BY <1>1, <1>2

\* No transaction but a reservation hands out a place.
LEMMA FollowersTakeNothing ==
  ASSUME BillingInv, NEW after, Follows(after)
  PROVE  Places(after) \subseteq Places(acct) /\ TestCheckouts(after) \subseteq TestCheckouts(acct)
<1>1. ASSUME NEW o \in Owner, HoldsPlace(after, o)
      PROVE  HoldsPlace(acct, o)
  <2>1. Later(acct[o], after[o], now)
    BY DEF Follows
  <2>2. ASSUME NEW v
        PROVE  Holds(v) <=> \/ v.b.paid \/ \E a \in Attempt : v.c[a].status = "paid"
                            \/ PendingAttempts(v) # {}
    BY DEF Holds, PendingAttempts, Unsettled
  <2>3. CASE store[o] \in {"open", "closing"}
    BY <2>3 DEF HoldsPlace
  <2>4. CASE store[o] = "closed"
    <3>1. ClosedOut(after[o])
      BY <2>1, <2>4 DEF BillingInv, StoresFit, Later
    <3> QED
      BY <1>1, <2>4, <3>1 DEF HoldsPlace, ClosedOut, PendingAttempts, Unsettled
  <2>5. CASE store[o] \notin {"open", "closing", "closed"}
    <3>1. Holds(after[o])
      BY <1>1, <2>2, <2>5 DEF HoldsPlace
    <3>2. Holds(acct[o])
      BY <2>1, <3>1 DEF Later
    <3> QED
      BY <2>2, <2>5, <3>2 DEF HoldsPlace
  <2> QED
    BY <2>3, <2>4, <2>5
<1>2. ASSUME NEW x \in Owner \X Attempt, x \in TestCheckouts(after)
      PROVE  x \in TestCheckouts(acct)
  <2> DEFINE c == acct[x[1]].c[x[2]]
             d == after[x[1]].c[x[2]]
  <2>1. CheckoutStep(c, d)
    BY DEF Follows, Later
  <2>2. d.offer.test /\ d.status \notin {"none", "expired"}
    BY <1>2 DEF TestCheckouts
  <2>3. c.offer.test /\ c.status \notin {"none", "expired"}
    BY <2>1, <2>2 DEF CheckoutStep
  <2> QED
    BY <2>3 DEF TestCheckouts
<1> QED
  BY <1>1, <1>2 DEF Places, TestCheckouts

\* A reservation takes one place, where there is one.
LEMMA ReservationTakesOne ==
  ASSUME BillingInv, PlacesFit, TestsFit,
         NEW o \in Owner, NEW a \in Attempt,
         NEW freed \in [Owner -> Account], NEW offer \in Offer,
         Reservation(o, a, freed, offer), UNCHANGED store
  PROVE  PlacesFit' /\ TestsFit'
<1> DEFINE w == Reserved(freed[o], a, offer, now)
<1>0. /\ now \in Nat /\ acct' = [freed EXCEPT ![o] = w] /\ Follows(freed)
      /\ Limit \in Nat \ {0} /\ TestLimit \in Nat
  BY LimitAssumption DEF BillingInv, TypeOK, Reservation
<1>1. /\ w.c[a].status = "reserved" /\ w.c[a].offer = offer
      /\ \A p \in Attempt \ {a} : w.c[p] = freed[o].c[p]
  <2>1. /\ Sound(freed[o], now)
        /\ PendingAttempts(freed[o]) = {} /\ freed[o].c[a].status = "none"
        /\ freed[o].b.status \in {"none", "pending", "suspended"}
        /\ offer.gift => ~freed[o].b.paid
    BY DEF Reservation, Follows
  <2> QED
    BY <1>0, <2>1, ReservedSound
<1> HIDE DEF w
<1>2. acct'[o] = w /\ \A x \in Owner : x # o => acct'[x] = freed[x]
  BY <1>0
<1>3. /\ IsFiniteSet(Places(freed)) /\ 1 + Cardinality(Places(freed)) <= Limit
      /\ Cardinality(Places(freed)) \in Nat
  <2>1. Cardinality(Places(acct)) <= Limit - 1 /\ Limit - 1 \in Nat
    BY <1>0, FS_CardinalityType DEF PlacesFit
  <2>2. IsFiniteSet(Places(freed)) /\ Cardinality(Places(freed)) <= Limit - 1
    BY <1>0, <2>1, FollowersTakeNothing, FewerFit DEF PlacesFit
  <2> QED
    BY <1>0, <2>2, FS_CardinalityType
<1>4. /\ IsFiniteSet(TestCheckouts(freed)) /\ Cardinality(TestCheckouts(freed)) <= TestLimit
  BY <1>0, FollowersTakeNothing, FewerFit DEF TestsFit
<1>5. Places(acct)' \subseteq Places(freed) \cup {o}
  BY <1>2 DEF Places, HoldsPlace
<1>6. PlacesFit'
  <2>1. CASE HoldsPlace(freed, o)
    <3>1. Places(acct)' \subseteq Places(freed)
      BY <1>5, <2>1 DEF Places
    <3>2. Limit - 1 \in Nat /\ Cardinality(Places(freed)) <= Limit - 1
      BY <1>0, <1>3
    <3>3. IsFiniteSet(Places(acct)') /\ Cardinality(Places(acct)') <= Limit - 1
      BY <1>3, <3>1, <3>2, FewerFit
    <3> QED
      BY <1>0, <3>3, FS_CardinalityType DEF PlacesFit
  <2>2. CASE ~HoldsPlace(freed, o)
    <3>1. 1 + Cardinality(Places(freed)) < Limit
      BY <2>2 DEF Reservation, HasCapacity, UsedPlaces, Places
    <3>2. Limit - 1 \in Nat /\ Cardinality(Places(freed)) < Limit - 1
      BY <1>0, <1>3, <3>1
    <3>3. IsFiniteSet(Places(acct)') /\ Cardinality(Places(acct)') <= Limit - 1
      BY <1>3, <1>5, <3>2, OneMoreFits
    <3> QED
      BY <1>0, <3>3, FS_CardinalityType DEF PlacesFit
  <2> QED
    BY <2>1, <2>2
<1>7. TestsFit'
  <2>1. ASSUME NEW x \in Owner \X Attempt, x \in TestCheckouts(acct')
        PROVE  x \in TestCheckouts(freed) \/ (x = <<o, a>> /\ offer.test)
    <3>1. CASE x = <<o, a>>
      BY <1>1, <1>2, <2>1, <3>1 DEF TestCheckouts
    <3>2. CASE x # <<o, a>>
      <4>1. acct'[x[1]].c[x[2]] = freed[x[1]].c[x[2]]
        BY <1>1, <1>2, <3>2
      <4> QED
        BY <2>1, <4>1 DEF TestCheckouts
    <3> QED
      BY <3>1, <3>2
  <2>2. CASE offer.test
    <3>1. Cardinality(TestCheckouts(freed)) < TestLimit
      BY <2>2 DEF Reservation
    <3>2. TestCheckouts(acct') \subseteq TestCheckouts(freed) \cup {<<o, a>>}
      BY <2>1 DEF TestCheckouts
    <3>3. IsFiniteSet(TestCheckouts(acct')) /\ Cardinality(TestCheckouts(acct')) <= TestLimit
      BY <1>0, <1>4, <3>1, <3>2, OneMoreFits
    <3> QED
      BY <3>3 DEF TestsFit, TestCheckouts
  <2>3. CASE ~offer.test
    <3>1. TestCheckouts(acct') \subseteq TestCheckouts(freed)
      BY <2>1, <2>3 DEF TestCheckouts
    <3>2. IsFiniteSet(TestCheckouts(acct')) /\ Cardinality(TestCheckouts(acct')) <= TestLimit
      BY <1>0, <1>4, <3>1, FewerFit
    <3> QED
      BY <3>2 DEF TestsFit, TestCheckouts
  <2> QED
    BY <2>2, <2>3
<1> QED
  BY <1>6, <1>7

\* No step hands out a place that is not there.
LEMMA PlacesKeep ==
  ASSUME BillingInv, PlacesFit, TestsFit, [Next]_vars
  PROVE  PlacesFit' /\ TestsFit'
<1>0. Limit \in Nat \ {0} /\ TestLimit \in Nat /\ acct \in [Owner -> Account]
  BY LimitAssumption DEF BillingInv, TypeOK
<1>1. ASSUME Places(acct)' \subseteq Places(acct),
             TestCheckouts(acct') \subseteq TestCheckouts(acct)
      PROVE  PlacesFit' /\ TestsFit'
  <2>1. Limit - 1 \in Nat /\ Cardinality(Places(acct)) <= Limit - 1
    BY <1>0, FS_CardinalityType DEF PlacesFit
  <2>2. IsFiniteSet(Places(acct)') /\ Cardinality(Places(acct)') <= Limit - 1
    BY <1>1, <2>1, FewerFit DEF PlacesFit
  <2>3. IsFiniteSet(TestCheckouts(acct')) /\ Cardinality(TestCheckouts(acct')) <= TestLimit
    BY <1>0, <1>1, FewerFit DEF TestsFit
  <2>4. PlacesFit'
    BY <1>0, <2>2, FS_CardinalityType DEF PlacesFit
  <2> QED
    BY <2>3, <2>4 DEF TestsFit, TestCheckouts
<1>2. CASE AccountsFollow /\ UNCHANGED store
  <2>1. Follows(acct')
    BY <1>2 DEF AccountsFollow, Follows
  <2>2. Places(acct)' = Places(acct')
    BY <1>2 DEF Places, HoldsPlace
  <2> QED
    BY <1>1, <2>1, <2>2, FollowersTakeNothing
<1>3. ASSUME NEW o \in Owner, NEW a \in Attempt, NEW freed \in [Owner -> Account],
             NEW offer \in Offer, Reservation(o, a, freed, offer), UNCHANGED store
      PROVE  PlacesFit' /\ TestsFit'
  BY <1>3, ReservationTakesOne
<1>4. ASSUME NEW o \in Owner, StripeMoves(o), UNCHANGED store
      PROVE  PlacesFit' /\ TestsFit'
  <2>1. \A x \in Owner : acct'[x].b = acct[x].b /\ acct'[x].c = acct[x].c
    BY <1>4 DEF StripeMoves
  <2>2. Places(acct)' \subseteq Places(acct)
    BY <1>4, <2>1 DEF Places, HoldsPlace, PendingAttempts
  <2>3. TestCheckouts(acct') \subseteq TestCheckouts(acct)
    BY <2>1 DEF TestCheckouts
  <2> QED
    BY <1>1, <2>2, <2>3
<1>5. CASE UNCHANGED acct /\ StoreMoves
  <2>1. \A o \in Owner : HoldsPlace(acct, o)' => HoldsPlace(acct, o)
    BY <1>5 DEF StoreMoves, HoldsPlace
  <2> QED
    BY <1>1, <1>5, <2>1 DEF Places
<1> QED
  BY <1>2, <1>3, <1>4, <1>5, BillingStep DEF Moves, AccountMoves

\* The capacity that is counted under the lock, of the machine and of the test.
THEOREM PlacesInvariant == Spec => [](PlacesFit /\ TestsFit)
<1>1. Init => PlacesFit /\ TestsFit
  <2> SUFFICES ASSUME Init
               PROVE  PlacesFit /\ TestsFit
    OBVIOUS
  <2>1. /\ \A o \in Owner : /\ store[o] = "none" /\ ~acct[o].b.paid
                            /\ \A a \in Attempt : acct[o].c[a].status = "none"
    BY DEF Init, EmptyAccount, NoBilling, NoCheckout
  <2>2. Places(acct) = {} /\ TestCheckouts(acct) = {}
    BY <2>1 DEF Places, HoldsPlace, PendingAttempts, TestCheckouts
  <2> QED
    BY <2>2, FS_EmptySet, LimitAssumption DEF PlacesFit, TestsFit
<1>2. BillingInv /\ PlacesFit /\ TestsFit /\ [Next]_vars => (PlacesFit /\ TestsFit)'
  BY PlacesKeep
<1> QED
  BY <1>1, <1>2, BillingInvariant, PTL DEF Spec

\* The machine is never oversold, counting at Stripe who can still be charged or
\* has paid, and the stores that exist.
THEOREM MachineIsNotOversold == Spec => []CapacityRespected
<1>1. BillingInv /\ PlacesFit => CapacityRespected
  <2> SUFFICES ASSUME BillingInv, PlacesFit
               PROVE  1 + Cardinality({o \in Owner : NeedsPlace(o)}) <= Limit
    BY DEF CapacityRespected
  <2> DEFINE S == {o \in Owner : NeedsPlace(o)}
  <2>1. ASSUME NEW o \in Owner, NeedsPlace(o)
        PROVE  HoldsPlace(acct, o)
    <3>1. \A a \in Attempt :
            /\ acct[o].e[a] = "open" => acct[o].c[a].status \in Unsettled
            /\ acct[o].e[a] = "complete" => acct[o].c[a].status \in {"open", "paid"}
      BY DEF BillingInv, AccountsSound, Sound, AttemptFits, SessionFits
    <3> QED
      BY <2>1, <3>1 DEF NeedsPlace, HoldsPlace, PendingAttempts, Unsettled
  <2>2. S \subseteq Places(acct)
    BY <2>1 DEF Places
  <2>3. Limit \in Nat \ {0} /\ Limit - 1 \in Nat /\ Cardinality(Places(acct)) <= Limit - 1
    BY LimitAssumption, FS_CardinalityType DEF PlacesFit
  <2> HIDE DEF S
  <2>4. IsFiniteSet(S) /\ Cardinality(S) <= Limit - 1
    BY <2>2, <2>3, FewerFit DEF PlacesFit
  <2>5. Cardinality(S) \in Nat
    BY <2>4, FS_CardinalityType
  <2> QED
    BY <2>3, <2>4, <2>5 DEF S
<1> QED
  BY <1>1, BillingInvariant, PlacesInvariant, PTL

\* No more test sessions can be paid, or were, than the public test has places.
THEOREM TestIsNotOversold == Spec => []TestPlacesRespected
<1>1. BillingInv /\ TestsFit => TestPlacesRespected
  <2> SUFFICES ASSUME BillingInv, TestsFit
               PROVE  TestPlacesRespected
    OBVIOUS
  <2> DEFINE S == {x \in Owner \X Attempt :
                     /\ acct[x[1]].c[x[2]].offer.test
                     /\ acct[x[1]].e[x[2]] \in {"open", "complete"}}
  <2>1. \A o \in Owner, a \in Attempt :
          acct[o].e[a] \in {"open", "complete"} =>
            acct[o].c[a].status \notin {"none", "expired"}
    BY DEF BillingInv, AccountsSound, Sound, AttemptFits, SessionFits, Unsettled
  <2>2. S \subseteq TestCheckouts(acct)
    BY <2>1 DEF TestCheckouts
  <2> HIDE DEF S
  <2>3. Cardinality(S) <= TestLimit
    BY <2>2, FewerFit, LimitAssumption DEF TestsFit
  <2> QED
    BY <2>3 DEF S, TestPlacesRespected
<1> QED
  BY <1>1, BillingInvariant, PlacesInvariant, PTL
=============================================================================
