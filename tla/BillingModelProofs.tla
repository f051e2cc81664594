-------------------------- MODULE BillingModelProofs --------------------------
(***************************************************************************)
(* What one transaction keeps true of one account.                         *)
(*                                                                         *)
(* Sound(v, t) is the invariant of an account at time t, and Later(v, w)   *)
(* what any transaction but a reservation may do to it.  Every operator of *)
(* BillingModel keeps the first and obeys the second; then so does a       *)
(* transaction that is rolled back after its calls to Stripe.              *)
(***************************************************************************)
EXTENDS BillingModel, TLAPS

Unsettled == {"reserved", "open"}

Served == {"active", "grace"}

\* The subscription row: who has service has paid for the subscription it names,
\* and the dates a grace and a retention end at follow from the end of service.
RowFits(b, t) ==
  /\ b.status \in {"none", "pending"} =>
       b.sub = NoAttempt /\ b.end = 0 /\ ~b.paid
  /\ b.status \notin {"none", "pending"} => b.sub \in Attempt /\ b.paid
  /\ b.gift => b.paid
  /\ b.status = "suspended" => b.end <= t /\ b.end + Retention <= b.retention
  /\ b.graceEnd \in {0, b.end + Grace}

\* A checkout row c and its session e: what can be paid is on the list of the
\* unsettled, and what was paid is never given up.
SessionFits(c, e, t) ==
  /\ c.status = "none" => e = "none"
  /\ c.sid => e # "none"
  /\ c.url => c.sid /\ c.status # "reserved"
  /\ e = "open" => c.status \in Unsettled /\ t <= c.at
  /\ e = "complete" => c.sid /\ c.status \in {"open", "paid"}
  /\ c.status = "paid" => e = "complete"

\* The subscription s of a session e, at Stripe.
InvoiceFits(s, e) ==
  /\ s.state # "none" <=> e = "complete"
  /\ s.state = "none" => s.paidEnd = 0
  /\ s.inv # "none" => e = "complete"
  /\ s.paidEnd <= s.end
  /\ s.inv \in {"draft", "failed"} => s.paidEnd <= s.invEnd /\ s.invEnd <= s.end
  /\ s.inv = "paid" => s.invEnd <= s.paidEnd

\* The end of the first period of a subscription for an offer.
FirstEnd(s, offer) == s.paidAt + PeriodMonths(offer.plan, offer.gift)

\* A payment that waits to be applied comes after the service the row knows of,
\* and Stripe's first period is the one it will be applied for.
WaitingFits(b, c, s, t) ==
  /\ s.end = FirstEnd(s, c.offer) \/ FirstEnd(s, c.offer) <= t
  /\ FirstEnd(s, c.offer) <= s.paidEnd
  /\ b.end <= s.paidAt

\* The row b and attempt a with its checkout c, session e and subscription s.
ServiceFits(b, a, c, e, s, t) ==
  /\ c.status \in Unsettled =>
       /\ b.status \in {"pending", "suspended"}
       /\ c.offer.gift => ~b.paid
       /\ e = "complete" => WaitingFits(b, c, s, t)
  /\ c.status = "paid" =>
       /\ b.paid /\ s.paidAt < b.end
       /\ s.state = "live" => b.sub = a /\ b.status \in Served
  /\ b.sub = a =>
       /\ c.status = "paid"
       /\ b.end <= s.paidEnd
       /\ b.status = "suspended" =>
            s.state = "canceled" /\ s.inv \notin {"draft", "failed"}

AttemptFits(b, a, c, e, s, t) ==
  SessionFits(c, e, t) /\ InvoiceFits(s, e) /\ ServiceFits(b, a, c, e, s, t)

\* At most one attempt is unsettled, ...
OneUnsettled(c) ==
  \A a, p \in Attempt :
    c[a].status \in Unsettled /\ c[p].status \in Unsettled => a = p

\* ... and a bonus went to the first that was paid.
BonusFirst(c, u) ==
  \A a, p \in Attempt :
    /\ a # p
    /\ c[a].status = "paid" /\ c[p].status = "paid"
    /\ c[a].offer.gift
    => ~c[p].offer.gift /\ u[a].paidAt < u[p].paidAt

Sound(v, t) ==
  /\ v \in Account
  /\ RowFits(v.b, t)
  /\ \A a \in Attempt : AttemptFits(v.b, a, v.c[a], v.e[a], v.u[a], t)
  /\ OneUnsettled(v.c)
  /\ BonusFirst(v.c, v.u)

-----------------------------------------------------------------------------
(* What a transaction may do *)

\* To a session: make or expire the one of an unsettled attempt.
SessionStep(c, d, f, t) ==
  \/ f = d
  \/ /\ c.status \in Unsettled /\ d # "complete"
     /\ f = "open" => d = "none" /\ t <= c.at
     /\ f \in {"open", "expired"}

\* To a subscription: end it and void what it could still collect.
SubscriptionStep(s, r) ==
  /\ r.state = s.state \/ (s.state # "none" /\ r.state = "canceled")
  /\ r.inv = s.inv \/ (s.inv = "failed" /\ r.inv = "void") \/ (s.inv = "draft" /\ r.inv = "none")
  /\ r.end = s.end /\ r.invEnd = s.invEnd
  /\ r.paidAt = s.paidAt /\ r.paidEnd = s.paidEnd

\* To a checkout row c, which becomes d.
CheckoutStep(c, d) ==
  /\ d.offer = c.offer /\ d.at = c.at
  /\ d.status \in Unsettled => c.status \in Unsettled
  /\ c.status \in {"none", "expired"} => d.status = c.status
  /\ c.status = "paid" => d.status = "paid"

RowStep(b, d) ==
  /\ b.end <= d.end
  /\ b.paid => d.paid

\* Who holds a place of the machine for what they pay or are about to.
Holds(v) == v.b.paid \/ \E a \in Attempt : v.c[a].status \in Unsettled \cup {"paid"}

\* A store that is being deleted has an account like this.
ClosedOut(v) ==
  v.b.status = "suspended" /\ \A a \in Attempt : v.c[a].status \notin Unsettled

Later(v, w, t) ==
  /\ \A a \in Attempt :
       /\ SessionStep(v.c[a], v.e[a], w.e[a], t)
       /\ SubscriptionStep(v.u[a], w.u[a])
       /\ CheckoutStep(v.c[a], w.c[a])
  /\ RowStep(v.b, w.b)
  /\ Holds(w) => Holds(v)
  /\ ClosedOut(v) => ClosedOut(w) /\ w.b.retention = v.b.retention

Undone(v, w) == [v EXCEPT !.e = w.e, !.u = w.u]

-----------------------------------------------------------------------------
(* Composition of steps, and steps that are undone *)

\* The parts of an account, by attempt.
LEMMA SessionTypes ==
  ASSUME NEW v \in Account, NEW a \in Attempt
  PROVE  /\ v.c[a] \in Checkout /\ v.c[a].at \in Nat /\ v.c[a].offer \in Offer
         /\ v.e[a] \in SessionState
         /\ v.u[a] \in Subscription
  BY DEF Account, Checkout

\* A period has some length.
LEMMA AnyTermCounts ==
  ASSUME NEW plan \in Plan, NEW gift \in BOOLEAN
  PROVE  PeriodMonths(plan, gift) \in Nat \ {0}
  BY TermAssumption DEF PeriodMonths, Plan

\* A transaction may change nothing.
LEMMA NothingIsLater ==
  ASSUME NEW v \in Account, NEW t \in Nat
  PROVE  Later(v, v, t)
<1>1. v.b.end \in Nat
  BY DEF Account, Billing
<1> QED
  BY <1>1 DEF Later, SessionStep, SubscriptionStep, CheckoutStep, RowStep

\* Two steps of a transaction make one.
LEMMA LaterComposes ==
  ASSUME NEW v \in Account, NEW w \in Account, NEW x \in Account, NEW t \in Nat,
         Later(v, w, t), Later(w, x, t)
  PROVE  Later(v, x, t)
<1>1. ASSUME NEW a \in Attempt
      PROVE  SessionStep(v.c[a], v.e[a], x.e[a], t)
  <2> DEFINE c == v.c[a]  d == w.c[a]
  <2>1. SessionStep(c, v.e[a], w.e[a], t) /\ SessionStep(d, w.e[a], x.e[a], t)
    BY DEF Later
  <2>2. d.status \in Unsettled => c.status \in Unsettled
    BY DEF Later, CheckoutStep
  <2>3. d.at = c.at
    BY DEF Later, CheckoutStep
  <2> QED
    BY <2>1, <2>2, <2>3 DEF SessionStep
<1>2. ASSUME NEW a \in Attempt
      PROVE  SubscriptionStep(v.u[a], x.u[a])
  <2>1. SubscriptionStep(v.u[a], w.u[a]) /\ SubscriptionStep(w.u[a], x.u[a])
    BY DEF Later
  <2> QED
    BY <2>1 DEF SubscriptionStep
<1>3. ASSUME NEW a \in Attempt
      PROVE  CheckoutStep(v.c[a], x.c[a])
  <2>1. CheckoutStep(v.c[a], w.c[a]) /\ CheckoutStep(w.c[a], x.c[a])
    BY DEF Later
  <2> QED
    BY <2>1 DEF CheckoutStep
<1>4. RowStep(v.b, x.b)
  <2>1. v.b.end \in Nat /\ w.b.end \in Nat /\ x.b.end \in Nat
    BY DEF Account, Billing
  <2>2. RowStep(v.b, w.b) /\ RowStep(w.b, x.b)
    BY DEF Later
  <2> QED
    BY <2>1, <2>2 DEF RowStep
<1>5. /\ Holds(x) => Holds(v)
      /\ ClosedOut(v) => ClosedOut(x) /\ x.b.retention = v.b.retention
  BY DEF Later
<1> QED
  BY <1>1, <1>2, <1>3, <1>4, <1>5 DEF Later

\* A transaction that is rolled back: the rows are the old ones, and Stripe has
\* gone on.
LEMMA UndoneSound ==
  ASSUME NEW v, NEW w, NEW t \in Nat, Sound(v, t), Sound(w, t), Later(v, w, t)
  PROVE  Sound(Undone(v, w), t) /\ Later(v, Undone(v, w), t)
<1> DEFINE x == Undone(v, w)
<1>1. v \in Account /\ w \in Account
  BY DEF Sound
<1>2. /\ x \in Account
      /\ x.b = v.b /\ x.c = v.c /\ x.e = w.e /\ x.u = w.u
  BY <1>1 DEF Account, Undone
<1> HIDE DEF x
<1>3. ASSUME NEW a \in Attempt
      PROVE  AttemptFits(x.b, a, x.c[a], x.e[a], x.u[a], t)
  <2> DEFINE b == v.b  c == v.c[a]  d == v.e[a]  f == w.e[a]
             s == v.u[a]  r == w.u[a]
  <2>1. AttemptFits(b, a, c, d, s, t) /\ InvoiceFits(r, f)
    BY DEF Sound, AttemptFits
  <2>2. SessionStep(c, d, f, t) /\ SubscriptionStep(s, r)
    BY DEF Later
  <2>3. c.at \in Nat /\ c.offer \in Offer
    BY <1>1, SessionTypes
  <2> HIDE DEF b, c, d, f, s, r
  <2>4. SessionFits(c, f, t)
    BY <2>1, <2>2 DEF AttemptFits, SessionFits, SessionStep, Unsettled
  <2>5. FirstEnd(r, c.offer) = FirstEnd(s, c.offer)
    BY <2>2 DEF SubscriptionStep, FirstEnd
  <2>6. ServiceFits(b, a, c, f, r, t)
    BY <2>1, <2>2, <2>5
       DEF AttemptFits, SessionStep, SubscriptionStep, ServiceFits, WaitingFits
  <2> QED
    BY <1>2, <2>1, <2>4, <2>6 DEF AttemptFits, b, c, d, f, s, r
<1>4. BonusFirst(x.c, x.u)
  <2>1. \A a \in Attempt : w.u[a].paidAt = v.u[a].paidAt
    BY DEF Later, SubscriptionStep
  <2> QED
    BY <1>2, <2>1 DEF Sound, BonusFirst
<1>5. Sound(x, t)
  BY <1>2, <1>3, <1>4 DEF Sound
<1>6. Later(v, x, t)
  BY <1>1, <1>2, NothingIsLater DEF Later, Holds, ClosedOut
<1> QED
  BY <1>5, <1>6 DEF x

-----------------------------------------------------------------------------
(* Steps that leave the subscription row alone *)

\* A step that leaves the subscription row alone keeps an account Sound if it
\* keeps each attempt so.
LEMMA SameRow ==
  ASSUME NEW v, NEW w \in Account, NEW t \in Nat, Sound(v, t), w.b = v.b,
         \A a \in Attempt :
           /\ AttemptFits(w.b, a, w.c[a], w.e[a], w.u[a], t)
           /\ CheckoutStep(v.c[a], w.c[a])
           /\ SessionStep(v.c[a], v.e[a], w.e[a], t)
           /\ SubscriptionStep(v.u[a], w.u[a])
           /\ w.c[a].status = "paid" => v.c[a].status = "paid"
  PROVE  Sound(w, t) /\ Later(v, w, t)
<1>0. v \in Account /\ v.b.end \in Nat
  BY DEF Sound, Account, Billing
<1>1. OneUnsettled(w.c)
  BY DEF Sound, OneUnsettled, CheckoutStep
<1>2. BonusFirst(w.c, w.u)
  <2>1. \A a \in Attempt : /\ w.c[a].offer = v.c[a].offer
                           /\ w.u[a].paidAt = v.u[a].paidAt
    BY DEF CheckoutStep, SubscriptionStep
  <2> QED
    BY <2>1 DEF Sound, BonusFirst
<1>3. Sound(w, t)
  BY <1>1, <1>2 DEF Sound
<1>4. RowStep(v.b, w.b)
  BY <1>0 DEF RowStep
<1>5. /\ Holds(w) => Holds(v)
      /\ ClosedOut(v) => ClosedOut(w) /\ w.b.retention = v.b.retention
  BY DEF Holds, ClosedOut, CheckoutStep
<1> QED
  BY <1>3, <1>4, <1>5 DEF Later

\* The same, when only attempt a is touched.
LEMMA SameRowOneAttempt ==
  ASSUME NEW v, NEW w \in Account, NEW t \in Nat, NEW a \in Attempt, Sound(v, t),
         w.b = v.b,
         \A p \in Attempt \ {a} :
           w.c[p] = v.c[p] /\ w.e[p] = v.e[p] /\ w.u[p] = v.u[p],
         AttemptFits(v.b, a, w.c[a], w.e[a], w.u[a], t),
         CheckoutStep(v.c[a], w.c[a]),
         SessionStep(v.c[a], v.e[a], w.e[a], t),
         SubscriptionStep(v.u[a], w.u[a]),
         w.c[a].status = "paid" => v.c[a].status = "paid"
  PROVE  Sound(w, t) /\ Later(v, w, t)
<1>1. ASSUME NEW p \in Attempt, p # a
      PROVE  /\ AttemptFits(w.b, p, w.c[p], w.e[p], w.u[p], t)
             /\ CheckoutStep(v.c[p], w.c[p])
             /\ SessionStep(v.c[p], v.e[p], w.e[p], t)
             /\ SubscriptionStep(v.u[p], w.u[p])
             /\ w.c[p].status = "paid" => v.c[p].status = "paid"
  <2>1. w.c[p] = v.c[p] /\ w.e[p] = v.e[p] /\ w.u[p] = v.u[p]
    BY <1>1
  <2>2. AttemptFits(v.b, p, v.c[p], v.e[p], v.u[p], t)
    BY DEF Sound
  <2> QED
    BY <2>1, <2>2 DEF CheckoutStep, SessionStep, SubscriptionStep
<1> QED
  BY <1>1, SameRow

\* The fields a checkout row can be changed in.
LEMMA CheckoutChanges ==
  ASSUME NEW v \in Account, NEW a \in Attempt, NEW r \in Checkout
  PROVE  LET w == [v EXCEPT !.c[a] = r]
         IN  /\ w \in Account
             /\ w.b = v.b /\ w.e = v.e /\ w.u = v.u /\ w.n = v.n /\ w.m = v.m
             /\ w.c[a] = r
             /\ \A p \in Attempt \ {a} : w.c[p] = v.c[p]
  BY DEF Account

\* A checkout is given up once its session cannot be paid.
LEMMA ExpiringSound ==
  ASSUME NEW v, NEW t \in Nat, NEW a \in Attempt, Sound(v, t),
         v.c[a].status # "none", v.e[a] \notin {"open", "complete"}
  PROVE  LET w == [v EXCEPT !.c[a].status = "expired"]
         IN  Sound(w, t) /\ Later(v, w, t)
<1> DEFINE r == [v.c[a] EXCEPT !.status = "expired"]
           w == [v EXCEPT !.c[a] = r]
<1>0. v \in Account /\ v.c[a] \in Checkout
  BY SessionTypes DEF Sound
<1>1. r \in Checkout
  BY <1>0 DEF Checkout
<1>2. AttemptFits(v.b, a, v.c[a], v.e[a], v.u[a], t)
  BY DEF Sound
<1>3. /\ w \in Account /\ w.b = v.b /\ w.e = v.e /\ w.u = v.u /\ w.c[a] = r
      /\ \A p \in Attempt \ {a} : w.c[p] = v.c[p]
  BY <1>0, <1>1, CheckoutChanges
<1>4. r.status = "expired" /\ r.offer = v.c[a].offer /\ r.at = v.c[a].at
      /\ r.sid = v.c[a].sid /\ r.url = v.c[a].url
  BY <1>0 DEF Checkout
<1>5. AttemptFits(v.b, a, r, v.e[a], v.u[a], t)
  BY <1>2, <1>4 DEF AttemptFits, SessionFits, ServiceFits, Unsettled
<1>6. CheckoutStep(v.c[a], r)
  BY <1>2, <1>4 DEF CheckoutStep, AttemptFits, SessionFits, Unsettled
<1>7. SessionStep(v.c[a], v.e[a], v.e[a], t) /\ SubscriptionStep(v.u[a], v.u[a])
  BY DEF SessionStep, SubscriptionStep
<1>8. w = [v EXCEPT !.c[a].status = "expired"]
  BY <1>0 DEF Account
<1> HIDE DEF r, w
<1>9. Sound(w, t) /\ Later(v, w, t)
  BY <1>3, <1>4, <1>5, <1>6, <1>7, SameRowOneAttempt
<1> QED
  BY <1>8, <1>9

\* The answer of Stripe, or the webhook of the session, names the session.
LEMMA NamingSound ==
  ASSUME NEW v, NEW t \in Nat, NEW a \in Attempt, Sound(v, t), v.e[a] # "none"
  PROVE  LET w == [v EXCEPT !.c[a].sid = TRUE]
         IN  Sound(w, t) /\ Later(v, w, t)
<1> DEFINE r == [v.c[a] EXCEPT !.sid = TRUE]
           w == [v EXCEPT !.c[a] = r]
<1>0. v \in Account /\ v.c[a] \in Checkout
  BY SessionTypes DEF Sound
<1>1. r \in Checkout
  BY <1>0 DEF Checkout
<1>2. AttemptFits(v.b, a, v.c[a], v.e[a], v.u[a], t)
  BY DEF Sound
<1>3. r.status = v.c[a].status /\ r.offer = v.c[a].offer /\ r.at = v.c[a].at
      /\ r.sid /\ r.url = v.c[a].url
  BY <1>0 DEF Checkout
<1> HIDE DEF r
<1>4. /\ w \in Account /\ w.b = v.b /\ w.e = v.e /\ w.u = v.u /\ w.c[a] = r
      /\ \A p \in Attempt \ {a} : w.c[p] = v.c[p]
  BY <1>0, <1>1, CheckoutChanges
<1>5. AttemptFits(v.b, a, r, v.e[a], v.u[a], t)
  BY <1>2, <1>3 DEF AttemptFits, SessionFits, ServiceFits, WaitingFits
<1>6. CheckoutStep(v.c[a], r)
  BY <1>3 DEF CheckoutStep
<1>7. SessionStep(v.c[a], v.e[a], v.e[a], t) /\ SubscriptionStep(v.u[a], v.u[a])
  BY DEF SessionStep, SubscriptionStep
<1>8. w = [v EXCEPT !.c[a].sid = TRUE]
  BY <1>0 DEF Account, r
<1> HIDE DEF w
<1>9. Sound(w, t) /\ Later(v, w, t)
  BY <1>3, <1>4, <1>5, <1>6, <1>7, SameRowOneAttempt
<1> QED
  BY <1>8, <1>9

\* A session is made, or found, for an attempt that is still unsettled.
LEMMA OpeningSound ==
  ASSUME NEW v, NEW t \in Nat, NEW a \in Attempt, Sound(v, t),
         v.c[a].status \in Unsettled, v.e[a] = "none" => t <= v.c[a].at
  PROVE  Sound(OpenSession(v, a), t) /\ Later(v, OpenSession(v, a), t)
<1> DEFINE r == [v.c[a] EXCEPT !.status = "open", !.sid = TRUE, !.url = TRUE]
           f == IF v.e[a] = "none" THEN "open" ELSE v.e[a]
           w == [[v EXCEPT !.e = [v.e EXCEPT ![a] = f]] EXCEPT !.c[a] = r]
<1>0. v \in Account /\ v.c[a] \in Checkout /\ v.e[a] \in SessionState
  BY SessionTypes DEF Sound
<1>1. r \in Checkout /\ f \in SessionState /\ f # "none"
  BY <1>0 DEF Checkout, SessionState
<1>2. AttemptFits(v.b, a, v.c[a], v.e[a], v.u[a], t)
  BY DEF Sound
<1>3. /\ w \in Account /\ w.b = v.b /\ w.u = v.u /\ w.c[a] = r /\ w.e[a] = f
      /\ \A p \in Attempt \ {a} : w.c[p] = v.c[p] /\ w.e[p] = v.e[p]
  BY <1>0, <1>1 DEF Account
<1>4. r.status = "open" /\ r.offer = v.c[a].offer /\ r.at = v.c[a].at
      /\ r.sid /\ r.url
  BY <1>0 DEF Checkout
<1>5. AttemptFits(v.b, a, r, f, v.u[a], t)
  BY <1>1, <1>2, <1>4
     DEF AttemptFits, SessionFits, InvoiceFits, ServiceFits, WaitingFits, Unsettled
<1>6. CheckoutStep(v.c[a], r)
  BY <1>4 DEF CheckoutStep, Unsettled
<1>7. SessionStep(v.c[a], v.e[a], f, t) /\ SubscriptionStep(v.u[a], v.u[a])
  BY DEF SessionStep, SubscriptionStep
<1>8. w = OpenSession(v, a)
  BY <1>0 DEF Account, OpenSession, CreateSession
<1> HIDE DEF r, f, w
<1>9. Sound(w, t) /\ Later(v, w, t)
  BY <1>3, <1>4, <1>5, <1>6, <1>7, SameRowOneAttempt
<1> QED
  BY <1>8, <1>9

-----------------------------------------------------------------------------
(* Steps that change the subscription row *)

SameStanding(b, d) ==
  /\ d.status = b.status /\ d.sub = b.sub /\ d.end = b.end
  /\ d.paid = b.paid /\ d.gift = b.gift
  /\ d.graceEnd = b.graceEnd /\ d.retention = b.retention

\* Flags of the row, notices, and whatever a transaction may do at Stripe to a
\* subscription.
LEMMA SameService ==
  ASSUME NEW v, NEW w \in Account, NEW t \in Nat, Sound(v, t),
         w.c = v.c, w.e = v.e, SameStanding(v.b, w.b),
         \A a \in Attempt : SubscriptionStep(v.u[a], w.u[a])
  PROVE  Sound(w, t) /\ Later(v, w, t)
<1>0. v \in Account /\ v.b.end \in Nat
  BY DEF Sound, Account, Billing
<1>1. RowFits(w.b, t)
  BY DEF Sound, SameStanding, RowFits
<1>2. ASSUME NEW a \in Attempt
      PROVE  AttemptFits(w.b, a, w.c[a], w.e[a], w.u[a], t)
  <2> DEFINE b == v.b  d == w.b  c == v.c[a]  e == v.e[a]  s == v.u[a]  r == w.u[a]
  <2>1. AttemptFits(b, a, c, e, s, t) /\ SubscriptionStep(s, r) /\ SameStanding(b, d)
    BY DEF Sound
  <2>2. s \in Subscription /\ c.offer \in Offer
    BY <1>0, SessionTypes
  <2> HIDE DEF b, d, c, e, s, r
  <2>3. InvoiceFits(r, e)
    BY <2>1 DEF AttemptFits, InvoiceFits, SubscriptionStep
  <2>4. FirstEnd(r, c.offer) = FirstEnd(s, c.offer)
    BY <2>1 DEF SubscriptionStep, FirstEnd
  <2>5. ServiceFits(d, a, c, e, r, t)
    BY <2>1, <2>4 DEF AttemptFits, ServiceFits, WaitingFits, SubscriptionStep, SameStanding
  <2>6. AttemptFits(d, a, c, e, r, t)
    BY <2>1, <2>3, <2>5 DEF AttemptFits
  <2> QED
    BY <2>6 DEF d, c, e, r
<1>3. BonusFirst(w.c, w.u)
  BY DEF Sound, BonusFirst, SubscriptionStep
<1>4. OneUnsettled(w.c)
  BY DEF Sound
<1>5. Sound(w, t)
  BY <1>1, <1>2, <1>3, <1>4 DEF Sound
<1>6. RowStep(v.b, w.b)
  BY <1>0 DEF RowStep, SameStanding
<1>7. /\ Holds(w) => Holds(v)
      /\ ClosedOut(v) => ClosedOut(w) /\ w.b.retention = v.b.retention
  BY DEF Holds, ClosedOut, SameStanding
<1>8. \A a \in Attempt : SessionStep(v.c[a], v.e[a], w.e[a], t)
                         /\ CheckoutStep(v.c[a], w.c[a])
  BY DEF SessionStep, CheckoutStep
<1> QED
  BY <1>5, <1>6, <1>7, <1>8 DEF Later

\* Service goes on, or ends for a subscription that can collect nothing.
LEMMA ServiceChanges ==
  ASSUME NEW v, NEW w \in Account, NEW t \in Nat, Sound(v, t),
         v.b.status \in Served,
         w.c = v.c, w.e = v.e, w.u = v.u,
         w.b.sub = v.b.sub, w.b.paid, w.b.gift = v.b.gift,
         v.b.end <= w.b.end, w.b.end <= v.u[v.b.sub].paidEnd,
         w.b.graceEnd \in {0, w.b.end + Grace},
         \/ w.b.status \in Served
         \/ /\ w.b.status = "suspended" /\ w.b.end <= t
            /\ w.b.end + Retention <= w.b.retention
            /\ v.u[v.b.sub].state = "canceled"
            /\ v.u[v.b.sub].inv \notin {"draft", "failed"}
  PROVE  Sound(w, t) /\ Later(v, w, t)
<1>0. v \in Account /\ v.b.end \in Nat /\ w.b.end \in Nat
  BY DEF Sound, Account, Billing
<1>1. v.b.sub \in Attempt /\ v.b.paid
  BY DEF Sound, RowFits, Served
<1>2. RowFits(w.b, t)
  BY <1>1 DEF RowFits, Served
<1>3. ASSUME NEW a \in Attempt
      PROVE  AttemptFits(w.b, a, w.c[a], w.e[a], w.u[a], t) /\ v.c[a].status \notin Unsettled
  <2> DEFINE b == v.b  d == w.b  c == v.c[a]  e == v.e[a]  s == v.u[a]
  <2>1. AttemptFits(b, a, c, e, s, t)
    BY DEF Sound
  <2>2. s \in Subscription /\ b.end \in Nat /\ d.end \in Nat
    BY <1>0, SessionTypes
  <2>3. c.status \notin Unsettled
    BY <2>1 DEF AttemptFits, ServiceFits, Served
  <2>4. s.paidAt \in Nat /\ s.paidEnd \in Nat
    BY <2>2 DEF Subscription
  <2>5. /\ d.sub = b.sub /\ d.paid /\ b.end <= d.end
        /\ b.sub = a => d.end <= s.paidEnd
        /\ \/ d.status \in Served
           \/ d.status = "suspended" /\ (b.sub = a => s.state = "canceled" /\ s.inv \notin {"draft", "failed"})
    OBVIOUS
  <2> HIDE DEF b, d, c, e, s
  <2>6. ServiceFits(d, a, c, e, s, t)
    BY <2>1, <2>2, <2>3, <2>4, <2>5 DEF AttemptFits, ServiceFits, Served
  <2>7. AttemptFits(d, a, c, e, s, t)
    BY <2>1, <2>6 DEF AttemptFits
  <2> QED
    BY <2>3, <2>7 DEF b, d, c, e, s
<1>4. Sound(w, t)
  BY <1>2, <1>3 DEF Sound
<1>5. RowStep(v.b, w.b)
  BY DEF RowStep
<1>6. Holds(v) /\ ~ClosedOut(v)
  BY <1>1 DEF Holds, ClosedOut, Served
<1>7. \A a \in Attempt : /\ SessionStep(v.c[a], v.e[a], w.e[a], t)
                         /\ CheckoutStep(v.c[a], w.c[a])
                         /\ SubscriptionStep(v.u[a], w.u[a])
  BY DEF SessionStep, CheckoutStep, SubscriptionStep
<1> QED
  BY <1>4, <1>5, <1>6, <1>7 DEF Later

\* The row after the payment that attempt a waited for.
PaidRow(v, a) ==
  LET offer == v.c[a].offer
  IN  [v.b EXCEPT !.status = "active", !.plan = offer.plan, !.test = offer.test,
                  !.sub = a, !.end = FirstEnd(v.u[a], offer),
                  !.graceEnd = 0, !.retention = 0, !.cancel = FALSE,
                  !.pending = NoPlan, !.gift = @ \/ offer.gift, !.paid = TRUE]

\* ... and the account.
PaidAccount(v, a) ==
  [v EXCEPT !.b = PaidRow(v, a),
            !.c[a] = [v.c[a] EXCEPT !.status = "paid", !.sid = TRUE]]

\* A payment that is still to be applied, and what is known of it.
LEMMA WaitingPayment ==
  ASSUME NEW v, NEW t \in Nat, NEW a \in Attempt, Sound(v, t),
         v.c[a].status # "paid", v.e[a] = "complete"
  PROVE  /\ v.c[a].status = "open" /\ WaitingFits(v.b, v.c[a], v.u[a], t)
         /\ v.b.status \in {"pending", "suspended"}
         /\ v.c[a].offer.gift => ~v.b.paid
<1>1. AttemptFits(v.b, a, v.c[a], v.e[a], v.u[a], t)
  BY DEF Sound
<1>2. v.c[a].status = "open"
  BY <1>1 DEF AttemptFits, SessionFits
<1> QED
  BY <1>1, <1>2 DEF AttemptFits, ServiceFits, Unsettled

\* The bonus that was promised is still there, and Stripe's first period ends when
\* the row says, so applyInvoice has nothing to move.
LEMMA InitialPayment ==
  ASSUME NEW v, NEW t \in Nat, NEW a \in Attempt, Sound(v, t),
         v.c[a].status # "paid", v.e[a] = "complete"
  PROVE  ApplyInitial(v, a, t) = PaidAccount(v, a)
<1> DEFINE b == v.b  c == v.c[a]  s == v.u[a]
<1>0. v \in Account /\ b \in Billing /\ c \in Checkout /\ c.offer \in Offer
      /\ s \in Subscription
  BY SessionTypes DEF Sound, Account
<1>3. /\ c.offer.gift => ~b.paid
      /\ WaitingFits(b, c, s, t)
      /\ b.gift => b.paid
  BY WaitingPayment DEF Sound, RowFits
<1> DEFINE gift == c.offer.gift /\ ~b.gift /\ ~b.paid
           end  == s.paidAt + PeriodMonths(c.offer.plan, gift)
<1>4. c.offer.gift \in BOOLEAN /\ b.gift \in BOOLEAN /\ b.paid \in BOOLEAN
  BY <1>0 DEF Offer, Billing
<1>5. gift = c.offer.gift
  BY <1>3, <1>4
<1>6. end = FirstEnd(s, c.offer)
  BY <1>5 DEF FirstEnd
<1>7. ExtendInitialPeriod(v, a, end, t) = v
  <2>1. CASE end <= t
    BY <2>1 DEF ExtendInitialPeriod
  <2>2. CASE ~(end <= t)
    <3>1. s.end = end
      BY <1>3, <1>6, <2>2 DEF WaitingFits
    <3>2. [v EXCEPT !.u[a].end = end] = v
      BY <3>1, <1>0 DEF Account, Subscription
    <3> QED
      BY <2>2, <3>2 DEF ExtendInitialPeriod
  <2> QED
    BY <2>1, <2>2
<1>8. ApplyInitial(v, a, t) =
        [v EXCEPT !.b = [b EXCEPT !.status = "active", !.plan = c.offer.plan,
                           !.test = c.offer.test, !.sub = a, !.end = end,
                           !.graceEnd = 0, !.retention = 0,
                           !.cancel = FALSE, !.pending = NoPlan,
                           !.gift = @ \/ gift, !.paid = TRUE],
                  !.c[a].status = "paid", !.c[a].sid = TRUE]
  BY <1>7 DEF ApplyInitial
<1>9. PaidRow(v, a) =
        [b EXCEPT !.status = "active", !.plan = c.offer.plan,
                  !.test = c.offer.test, !.sub = a, !.end = end,
                  !.graceEnd = 0, !.retention = 0,
                  !.cancel = FALSE, !.pending = NoPlan,
                  !.gift = @ \/ gift, !.paid = TRUE]
  BY <1>5, <1>6, Zenon DEF PaidRow
<1> HIDE DEF gift, end
<1>10. [v EXCEPT !.b = PaidRow(v, a), !.c[a].status = "paid", !.c[a].sid = TRUE]
       = PaidAccount(v, a)
  BY <1>0 DEF Account, Checkout, PaidAccount
<1> QED
  BY <1>8, <1>9, <1>10

\* applyInitial: the first payment of an attempt, applied once.
LEMMA ApplyInitialSound ==
  ASSUME NEW v, NEW t \in Nat, NEW a \in Attempt, Sound(v, t),
         v.e[a] = "complete"
  PROVE  Sound(ApplyInitial(v, a, t), t) /\ Later(v, ApplyInitial(v, a, t), t)
<1>0. v \in Account /\ v.b \in Billing /\ v.c[a] \in Checkout
  BY SessionTypes DEF Sound, Account
<1>1. CASE v.c[a].status = "paid"
  BY <1>0, <1>1, NothingIsLater DEF ApplyInitial
<1>2. CASE v.c[a].status # "paid"
  <2> DEFINE d == PaidRow(v, a)
             r == [v.c[a] EXCEPT !.status = "paid", !.sid = TRUE]
             w == PaidAccount(v, a)
             first == FirstEnd(v.u[a], v.c[a].offer)
  <2>1. /\ v.c[a].status = "open" /\ WaitingFits(v.b, v.c[a], v.u[a], t)
        /\ v.b.status \in {"pending", "suspended"}
        /\ v.c[a].offer.gift => ~v.b.paid
    BY <1>2, WaitingPayment
  <2>a. ApplyInitial(v, a, t) = w
    BY <1>2, InitialPayment
  <2>2. /\ v.c[a].offer \in Offer /\ v.u[a] \in Subscription
        /\ v.u[a].paidAt \in Nat /\ v.u[a].paidEnd \in Nat /\ v.b.end \in Nat
    BY <1>0, SessionTypes DEF Subscription, Billing
  <2>3. first \in Nat /\ v.u[a].paidAt < first
    <3>1. v.c[a].offer.plan \in Plan /\ v.c[a].offer.gift \in BOOLEAN
      BY <2>2 DEF Offer
    <3> QED
      BY <2>2, <3>1, AnyTermCounts DEF FirstEnd
  <2>4. d \in Billing
    BY <1>0, <2>2, <2>3 DEF PaidRow, Billing, Offer, Plan, NoPlan
  <2>5. d.status = "active" /\ d.sub = a /\ d.end = first /\ d.paid /\ d.graceEnd = 0
    BY <1>0 DEF PaidRow, Billing
  <2>6. r \in Checkout /\ r.status = "paid" /\ r.sid /\ r.offer = v.c[a].offer
        /\ r.at = v.c[a].at /\ r.url = v.c[a].url
    BY <1>0 DEF Checkout
  <2> HIDE DEF d, r
  <2>7. /\ w \in Account
        /\ w.b = d /\ w.e = v.e /\ w.u = v.u /\ w.c[a] = r
        /\ \A p \in Attempt \ {a} : w.c[p] = v.c[p]
    BY <1>0, <2>4, <2>6 DEF Account, PaidAccount, d, r
  <2> HIDE DEF w, first
  <2>8. v.b.end <= v.u[a].paidAt /\ first <= v.u[a].paidEnd
    BY <2>1 DEF WaitingFits, first
  <2>9. ASSUME NEW p \in Attempt, p # a
        PROVE  /\ AttemptFits(d, p, v.c[p], v.e[p], v.u[p], t)
               /\ v.c[p].status \notin Unsettled
               /\ v.c[p].status = "paid" =>
                    v.b.paid /\ v.u[p].paidAt < v.u[a].paidAt
    <3>1. AttemptFits(v.b, p, v.c[p], v.e[p], v.u[p], t)
      BY DEF Sound
    <3>2. v.c[p].status \notin Unsettled
      BY <2>1, <2>9 DEF Sound, OneUnsettled, Unsettled
    <3>3. v.u[p].paidAt \in Nat
      BY <1>0, SessionTypes DEF Subscription
    <3>4. v.c[p].status = "paid" =>
            /\ v.b.paid /\ v.u[p].paidAt < v.b.end /\ v.u[p].state # "live"
      BY <2>1, <3>1 DEF AttemptFits, ServiceFits, Served
    <3>5. v.c[p].status = "paid" =>
            v.u[p].paidAt < v.u[a].paidAt /\ v.u[p].paidAt < d.end
      BY <2>2, <2>3, <2>5, <2>8, <3>3, <3>4
    <3>6. ServiceFits(d, p, v.c[p], v.e[p], v.u[p], t)
      BY <2>5, <2>9, <3>2, <3>4, <3>5 DEF ServiceFits
    <3> QED
      BY <3>1, <3>2, <3>4, <3>5, <3>6 DEF AttemptFits
  <2>10. AttemptFits(d, a, r, v.e[a], v.u[a], t)
    <3>1. AttemptFits(v.b, a, v.c[a], v.e[a], v.u[a], t)
      BY DEF Sound
    <3>2. SessionFits(r, v.e[a], t)
      BY <2>1, <2>6, <3>1 DEF AttemptFits, SessionFits
    <3>3. ServiceFits(d, a, r, v.e[a], v.u[a], t)
      BY <2>3, <2>5, <2>6, <2>8 DEF ServiceFits, Unsettled, Served
    <3> QED
      BY <3>1, <3>2, <3>3 DEF AttemptFits
  <2>11. RowFits(d, t)
    BY <2>5 DEF RowFits
  <2>12. OneUnsettled(w.c)
    BY <2>6, <2>7, <2>9 DEF OneUnsettled, Unsettled
  <2>13. BonusFirst(w.c, w.u)
    <3> SUFFICES ASSUME NEW p \in Attempt, NEW q \in Attempt, p # q,
                        w.c[p].status = "paid", w.c[q].status = "paid",
                        w.c[p].offer.gift
                 PROVE  ~w.c[q].offer.gift /\ v.u[p].paidAt < v.u[q].paidAt
      BY <2>7 DEF BonusFirst
    <3>1. CASE p = a
      BY <3>1, <2>1, <2>6, <2>7, <2>9
    <3>2. CASE q = a
      BY <3>2, <2>1, <2>6, <2>7, <2>9
    <3>3. CASE p # a /\ q # a
      BY <3>3, <2>7 DEF Sound, BonusFirst
    <3> QED
      BY <3>1, <3>2, <3>3
  <2>14. Sound(w, t)
    BY <2>7, <2>9, <2>10, <2>11, <2>12, <2>13 DEF Sound
  <2>15. ASSUME NEW p \in Attempt
         PROVE  /\ SessionStep(v.c[p], v.e[p], w.e[p], t)
                /\ SubscriptionStep(v.u[p], w.u[p])
                /\ CheckoutStep(v.c[p], w.c[p])
    BY <2>1, <2>6, <2>7 DEF SessionStep, SubscriptionStep, CheckoutStep, Unsettled
  <2>16. RowStep(v.b, w.b)
    BY <2>2, <2>3, <2>5, <2>7, <2>8 DEF RowStep
  <2>17. Holds(v) /\ ~ClosedOut(v)
    BY <2>1 DEF Holds, ClosedOut, Unsettled
  <2>18. Later(v, w, t)
    BY <2>15, <2>16, <2>17 DEF Later
  <2> QED
    BY <2>a, <2>14, <2>18
<1> QED
  BY <1>1, <1>2

\* What was read of a subscription earlier claims no more than is paid by now.
SnapshotFits(s, u, e) ==
  /\ s \in Subscription
  /\ s.inv = "paid" => s.invEnd <= u.paidEnd
  /\ s.inv = "initial" => e = "complete"

\* applyRenewal: a later invoice, whatever was read of it, adds paid time only.
LEMMA ApplyRenewalSound ==
  ASSUME NEW v, NEW t \in Nat, NEW a \in Attempt, NEW s, Sound(v, t),
         SnapshotFits(s, v.u[a], v.e[a])
  PROVE  Sound(ApplyRenewal(v, a, s), t) /\ Later(v, ApplyRenewal(v, a, s), t)
<1>0. /\ v \in Account /\ v.b \in Billing /\ v.n \in SUBSET Notice
      /\ v.b.end \in Nat /\ s \in Subscription /\ s.invEnd \in Nat
  BY DEF Sound, Account, Billing, SnapshotFits, Subscription
<1>1. CASE v.b.sub # a \/ v.b.status = "suspended"
  <2>1. ApplyRenewal(v, a, s) = v
    BY <1>1 DEF ApplyRenewal
  <2> QED
    BY <1>0, <2>1, NothingIsLater
<1>2. CASE v.b.sub = a /\ v.b.status # "suspended"
  <2>1. v.b.status \in Served
    BY <1>0, <1>2, AttemptAssumption DEF Sound, RowFits, Billing, Served
  <2>2. v.b.paid
    BY <2>1 DEF Sound, RowFits, Served
  <2>3. CASE RenewalPaid(v, s)
    <3> DEFINE d == [v.b EXCEPT !.status = "active", !.plan = s.plan, !.end = s.invEnd,
                                !.graceEnd = 0, !.paid = TRUE,
                                !.pending = IF v.b.pending = s.plan THEN NoPlan
                                                                    ELSE v.b.pending]
               w == [v EXCEPT !.b = d, !.n = v.n]
    <3>1. d \in Billing
      BY <1>0 DEF Billing, Subscription
    <3>2. d.status = "active" /\ d.sub = v.b.sub /\ d.paid /\ d.gift = v.b.gift
          /\ d.end = s.invEnd /\ d.graceEnd = 0
      BY <1>0 DEF Billing
    <3>3. ApplyRenewal(v, a, s) = [v EXCEPT !.b = d]
      <4>1. ~RenewalFailed(v, s)
        BY <2>3 DEF RenewalPaid, RenewalFailed
      <4> QED
        BY <1>2, <2>3, <4>1 DEF ApplyRenewal
    <3>4. [v EXCEPT !.b = d] = w
      BY <1>0 DEF Account
    <3>5. v.b.end <= d.end /\ d.end <= v.u[a].paidEnd
      BY <1>0, <2>3, <3>2 DEF RenewalPaid, SnapshotFits
    <3> HIDE DEF d
    <3>6. w \in Account /\ w.b = d /\ w.c = v.c /\ w.e = v.e /\ w.u = v.u
      BY <1>0, <3>1 DEF Account, w
    <3> HIDE DEF w
    <3>7. Sound(w, t) /\ Later(v, w, t)
      BY <1>2, <2>1, <3>2, <3>5, <3>6, ServiceChanges DEF Served
    <3> QED
      BY <3>3, <3>4, <3>7
  <2>4. CASE ~RenewalPaid(v, s) /\ RenewalFailed(v, s)
    <3> DEFINE d == [v.b EXCEPT !.status = "grace", !.graceEnd = v.b.end + Grace]
               n == IF <<a, s.invEnd>> \in v.m THEN v.n
                    ELSE v.n \cup {<<a, s.invEnd>>}
               w == [v EXCEPT !.b = d, !.n = n]
    <3>1. d \in Billing
      <4>1. v.b.end + Grace \in Nat
        BY <1>0, TermAssumption
      <4> QED
        BY <1>0, <4>1 DEF Billing
    <3>2. d.status = "grace" /\ d.sub = v.b.sub /\ d.paid = v.b.paid
          /\ d.gift = v.b.gift /\ d.end = v.b.end /\ d.graceEnd = d.end + Grace
      BY <1>0 DEF Billing
    <3>3. ApplyRenewal(v, a, s) = w
      BY <1>2, <2>4 DEF ApplyRenewal
    <3>4. n \in SUBSET Notice
      BY <1>0 DEF Notice
    <3>5. v.b.end <= v.u[a].paidEnd
      <4>1. AttemptFits(v.b, a, v.c[a], v.e[a], v.u[a], t)
        BY DEF Sound
      <4> QED
        BY <1>2, <4>1 DEF AttemptFits, ServiceFits
    <3> HIDE DEF d, n
    <3>6. w \in Account /\ w.b = d /\ w.c = v.c /\ w.e = v.e /\ w.u = v.u
      BY <1>0, <3>1, <3>4 DEF Account, w
    <3> HIDE DEF w
    <3>8. v.b.end <= w.b.end /\ w.b.end <= v.u[v.b.sub].paidEnd /\ w.b.status \in Served
      BY <1>0, <1>2, <3>2, <3>5, <3>6 DEF Served
    <3>7. Sound(w, t) /\ Later(v, w, t)
      BY <1>2, <2>1, <2>2, <3>2, <3>6, <3>8, ServiceChanges
    <3> QED
      BY <3>3, <3>7
  <2>5. CASE ~RenewalPaid(v, s) /\ ~RenewalFailed(v, s)
    <3>1. ApplyRenewal(v, a, s) = v
      BY <1>2, <2>5 DEF ApplyRenewal
    <3> QED
      BY <1>0, <3>1, NothingIsLater
  <2> QED
    BY <2>3, <2>4, <2>5
<1> QED
  BY <1>1, <1>2

\* applyInvoice, of a webhook or of the reconciler.
LEMMA ApplyInvoiceSound ==
  ASSUME NEW v, NEW t \in Nat, NEW a \in Attempt, NEW s, Sound(v, t),
         SnapshotFits(s, v.u[a], v.e[a])
  PROVE  Sound(ApplyInvoice(v, a, s, t), t) /\ Later(v, ApplyInvoice(v, a, s, t), t)
<1>1. CASE s.inv = "initial"
  <2>1. ApplyInvoice(v, a, s, t) = ApplyInitial(v, a, t)
    BY <1>1 DEF ApplyInvoice
  <2> QED
    BY <1>1, <2>1, ApplyInitialSound DEF SnapshotFits
<1>2. CASE s.inv = "none"
  <2>1. ApplyInvoice(v, a, s, t) = v
    BY <1>2 DEF ApplyInvoice
  <2> QED
    BY <2>1, NothingIsLater DEF Sound
<1>3. CASE s.inv \notin {"initial", "none"}
  <2>1. ApplyInvoice(v, a, s, t) = ApplyRenewal(v, a, s)
    BY <1>3 DEF ApplyInvoice
  <2> QED
    BY <2>1, ApplyRenewalSound
<1> QED
  BY <1>1, <1>2, <1>3

-----------------------------------------------------------------------------
(* reapCheckouts *)

\* A session that was read as complete or expired still is.
SeenFits(v, seen) ==
  \A a \in Attempt :
    /\ seen[a] = "complete" => v.e[a] = "complete"
    /\ seen[a] = "expired" => v.e[a] = "expired"

\* reapCheckouts on its one attempt: completed, expired or created at last.
LEMMA ReapOneSound ==
  ASSUME NEW v, NEW t \in Nat, NEW a \in Attempt, NEW seen, NEW reject \in BOOLEAN,
         Sound(v, t), SeenFits(v, seen), v.c[a].status \in Unsettled
  PROVE  /\ Sound(ReapOne(v, a, seen, reject, t), t)
         /\ Later(v, ReapOne(v, a, seen, reject, t), t)
<1> DEFINE refused == ~v.c[a].sid /\ NotCreated(v, a, reject, t)
           known == IF v.c[a].sid THEN v ELSE OpenSession(v, a)
<1>0. /\ v \in Account /\ v.c[a].at \in Nat
      /\ AttemptFits(v.b, a, v.c[a], v.e[a], v.u[a], t)
  BY SessionTypes DEF Sound
<1>1. CASE refused
  <2>1. v.e[a] \notin {"open", "complete"}
    BY <1>0, <1>1 DEF NotCreated, AttemptFits, SessionFits
  <2>2. v.c[a].status # "none"
    BY DEF Unsettled
  <2>3. ReapOne(v, a, seen, reject, t) = [v EXCEPT !.c[a].status = "expired"]
    BY <1>1 DEF ReapOne
  <2> QED
    BY <2>1, <2>2, <2>3, ExpiringSound
<1>2. CASE ~refused
  <2>1. Sound(known, t) /\ Later(v, known, t)
    <3>1. CASE v.c[a].sid
      BY <1>0, <3>1, NothingIsLater
    <3>2. CASE ~v.c[a].sid
      <4>1. v.e[a] = "none" => t <= v.c[a].at
        BY <1>0, <1>2, <3>2 DEF NotCreated
      <4> QED
        BY <3>2, <4>1, OpeningSound
    <3> QED
      BY <3>1, <3>2
  <2>2. /\ known.e[a] = IF v.c[a].sid \/ v.e[a] # "none" THEN v.e[a] ELSE "open"
        /\ known.c[a].status # "none"
    <3>1. known \in Account
      BY <2>1 DEF Sound
    <3>2. CASE v.c[a].sid
      BY <3>2 DEF Unsettled
    <3>3. CASE ~v.c[a].sid
      BY <1>0, <3>3 DEF OpenSession, CreateSession, Account, Checkout
    <3> QED
      BY <3>2, <3>3
  <2> HIDE DEF known
  <2>3. known \in Account
    BY <2>1 DEF Sound
  <2>4. CASE seen[a] = "complete"
    <3>1. ReapOne(v, a, seen, reject, t) = ApplyInitial(known, a, t)
      BY <1>2, <2>4 DEF ReapOne, known
    <3>2. known.e[a] = "complete"
      BY <2>2, <2>4 DEF SeenFits
    <3>3. /\ Sound(ApplyInitial(known, a, t), t)
          /\ Later(known, ApplyInitial(known, a, t), t)
      BY <2>1, <3>2, ApplyInitialSound
    <3>4. ApplyInitial(known, a, t) \in Account
      BY <3>3 DEF Sound
    <3> QED
      BY <1>0, <2>1, <2>3, <3>1, <3>3, <3>4, LaterComposes
  <2>5. CASE seen[a] = "expired"
    <3> DEFINE w == [known EXCEPT !.c[a].status = "expired"]
    <3>1. ReapOne(v, a, seen, reject, t) = w
      BY <1>2, <2>5 DEF ReapOne, known
    <3>2. known.e[a] = "expired"
      BY <2>2, <2>5 DEF SeenFits
    <3>3. Sound(w, t) /\ Later(known, w, t)
      BY <2>1, <2>2, <3>2, ExpiringSound
    <3> HIDE DEF w
    <3>4. w \in Account
      BY <3>3 DEF Sound
    <3> QED
      BY <1>0, <2>1, <2>3, <3>1, <3>3, <3>4, LaterComposes
  <2>6. CASE seen[a] \notin {"complete", "expired"}
    <3>1. ReapOne(v, a, seen, reject, t) = known
      BY <1>2, <2>6 DEF ReapOne, known
    <3> QED
      BY <2>1, <3>1
  <2> QED
    BY <2>4, <2>5, <2>6
<1> QED
  BY <1>1, <1>2

\* reapCheckouts with what was seen of the sessions.
LEMMA ReapCheckoutsSound ==
  ASSUME NEW v, NEW t \in Nat, NEW seen, NEW reject \in BOOLEAN,
         Sound(v, t), SeenFits(v, seen)
  PROVE  /\ Sound(ReapCheckouts(v, seen, reject, t), t)
         /\ Later(v, ReapCheckouts(v, seen, reject, t), t)
<1>1. CASE PendingAttempts(v) = {}
  <2>1. ReapCheckouts(v, seen, reject, t) = v
    BY <1>1 DEF ReapCheckouts
  <2> QED
    BY <2>1, NothingIsLater DEF Sound
<1>2. CASE PendingAttempts(v) # {}
  <2> DEFINE a == CHOOSE a \in PendingAttempts(v) : TRUE
  <2>1. a \in PendingAttempts(v)
    BY <1>2
  <2>2. ReapCheckouts(v, seen, reject, t) = ReapOne(v, a, seen, reject, t)
    BY <1>2 DEF ReapCheckouts
  <2> HIDE DEF a
  <2>3. a \in Attempt /\ v.c[a].status \in Unsettled
    BY <2>1 DEF PendingAttempts, Unsettled
  <2> QED
    BY <2>2, <2>3, ReapOneSound
<1> QED
  BY <1>1, <1>2

-----------------------------------------------------------------------------
(* reconcileOne *)

\* What stopCollection leaves of a subscription.
LEMMA StopCollectionFacts ==
  ASSUME NEW v \in Account, NEW a \in Attempt, v.u[a].state # "none"
  PROVE  LET w == StopCollection(v, a)
         IN  /\ w \in Account
             /\ w.b = v.b /\ w.c = v.c /\ w.e = v.e
             /\ \A p \in Attempt : SubscriptionStep(v.u[p], w.u[p])
             /\ w.u[a].state = "canceled" /\ w.u[a].inv \notin {"draft", "failed"}
<1> DEFINE s == v.u[a]
           inv == CASE s.inv = "failed" -> "void"
                    [] s.inv = "draft"  -> "none"
                    [] OTHER            -> s.inv
           r == [s EXCEPT !.state = "canceled", !.sched = NoPlan, !.inv = inv]
           w == [v EXCEPT !.u[a] = r]
<1>0. s \in Subscription
  BY SessionTypes
<1>1. /\ inv \in {"none", "initial", "draft", "failed", "paid", "void"}
      /\ inv \notin {"draft", "failed"}
      /\ inv = s.inv \/ (s.inv = "failed" /\ inv = "void") \/ (s.inv = "draft" /\ inv = "none")
  BY <1>0 DEF Subscription
<1> HIDE DEF inv
<1>2. r \in Subscription /\ r.state = "canceled" /\ r.inv = inv /\ SubscriptionStep(s, r)
  BY <1>0, <1>1 DEF Subscription, SubscriptionStep, NoPlan
<1>3. StopCollection(v, a) = w
  BY AttemptAssumption DEF StopCollection, inv
<1> HIDE DEF r
<1>4. w \in Account /\ w.b = v.b /\ w.c = v.c /\ w.e = v.e /\ w.u[a] = r
      /\ \A p \in Attempt \ {a} : w.u[p] = v.u[p]
  BY <1>2 DEF Account
<1> HIDE DEF w
<1>5. \A p \in Attempt : SubscriptionStep(v.u[p], w.u[p])
  BY <1>2, <1>4 DEF SubscriptionStep
<1> QED
  BY <1>1, <1>2, <1>3, <1>4, <1>5

\* An attempt that has the service keeps it under a row that still serves.
LEMMA ServedStays ==
  ASSUME NEW v, NEW t \in Nat, NEW a \in Attempt, NEW s, Sound(v, t),
         v.b.status \in Served, v.b.sub = a
  PROVE  LET w == ApplyInvoice(v, a, s, t)
         IN  w.b.status \in Served /\ w.b.sub = a
<1>0. v \in Account /\ v.b \in Billing
  BY DEF Sound, Account
<1>1. v.c[a].status = "paid"
  BY DEF Sound, AttemptFits, ServiceFits
<1>2. ApplyInitial(v, a, t) = v
  BY <1>1 DEF ApplyInitial
<1>3. LET w == ApplyRenewal(v, a, s) IN w.b.status \in Served /\ w.b.sub = a
  <2>1. CASE RenewalPaid(v, s)
    <3>1. ~RenewalFailed(v, s)
      BY <2>1 DEF RenewalPaid, RenewalFailed
    <3> QED
      BY <1>0, <2>1, <3>1 DEF ApplyRenewal, Served, Account, Billing
  <2>2. CASE ~RenewalPaid(v, s) /\ RenewalFailed(v, s)
    BY <1>0, <2>2 DEF ApplyRenewal, Served, Account, Billing
  <2>3. CASE ~RenewalPaid(v, s) /\ ~RenewalFailed(v, s)
    BY <1>0, <2>3 DEF ApplyRenewal, Served
  <2> QED
    BY <2>1, <2>2, <2>3
<1> QED
  BY <1>2, <1>3 DEF ApplyInvoice

\* suspend: collection is stopped first.
LEMMA SuspendSound ==
  ASSUME NEW v, NEW t \in Nat, Sound(v, t), v.b.status \in Served, v.b.end <= t
  PROVE  Sound(Suspend(v), t) /\ Later(v, Suspend(v), t)
<1> DEFINE a == v.b.sub
           x == StopCollection(v, a)
           d == [v.b EXCEPT !.status = "suspended", !.cancel = TRUE,
                            !.pending = NoPlan,
                            !.retention = SuspensionDate(v.b) + Retention]
           w == [x EXCEPT !.b = d]
<1>0. /\ v \in Account /\ v.b \in Billing /\ v.b.end \in Nat
      /\ a \in Attempt /\ v.b.paid
  BY DEF Sound, Account, Billing, RowFits, Served
<1>1. AttemptFits(v.b, a, v.c[a], v.e[a], v.u[a], t)
  BY <1>0 DEF Sound
<1>2. v.u[a].state # "none" /\ v.b.end <= v.u[a].paidEnd
  BY <1>1 DEF AttemptFits, ServiceFits, SessionFits, InvoiceFits
<1>3. /\ x \in Account
      /\ x.b = v.b /\ x.c = v.c /\ x.e = v.e
      /\ \A p \in Attempt : SubscriptionStep(v.u[p], x.u[p])
      /\ x.u[a].state = "canceled" /\ x.u[a].inv \notin {"draft", "failed"}
  BY <1>0, <1>2, StopCollectionFacts
<1> HIDE DEF x
<1>4. Sound(x, t) /\ Later(v, x, t)
  BY <1>3, SameService DEF SameStanding
<1>5. SuspensionDate(v.b) + Retention \in Nat
  BY <1>0, TermAssumption DEF SuspensionDate, Billing
<1>6. d \in Billing
  BY <1>0, <1>5 DEF Billing, NoPlan
<1>7. /\ d.status = "suspended" /\ d.sub = a /\ d.end = v.b.end
      /\ d.paid /\ d.gift = v.b.gift
      /\ d.graceEnd = v.b.graceEnd /\ d.retention = SuspensionDate(v.b) + Retention
  BY <1>0 DEF Billing
<1>8. Suspend(v) = w
  BY <1>3 DEF Suspend, x
<1> HIDE DEF d
<1>9. w \in Account /\ w.b = d /\ w.c = x.c /\ w.e = x.e /\ w.u = x.u
  BY <1>3, <1>6 DEF Account
<1> HIDE DEF w
<1>10. w.b.end <= x.u[a].paidEnd
  BY <1>0, <1>2, <1>3, <1>7, <1>9 DEF SubscriptionStep
<1>11. d.end + Retention <= d.retention /\ d.graceEnd \in {0, d.end + Grace}
  <2>1. v.b.graceEnd \in {0, v.b.end + Grace} /\ v.b.end <= SuspensionDate(v.b)
    BY <1>0, TermAssumption DEF Sound, RowFits, SuspensionDate, Billing
  <2>2. SuspensionDate(v.b) \in Nat
    BY <1>0, TermAssumption DEF SuspensionDate, Billing
  <2> QED
    BY <1>0, <1>7, <2>1, <2>2, TermAssumption
<1>12. Sound(w, t) /\ Later(x, w, t)
  BY <1>0, <1>3, <1>4, <1>7, <1>9, <1>10, <1>11, ServiceChanges
<1> QED
  BY <1>0, <1>3, <1>4, <1>8, <1>9, <1>12, LaterComposes

\* A date at which the row says the renewal is cancelled.
LEMMA FlagSound ==
  ASSUME NEW v, NEW t \in Nat, Sound(v, t), NEW p \in Plan \cup {NoPlan}
  PROVE  LET w == [v EXCEPT !.b = [v.b EXCEPT !.cancel = TRUE, !.pending = p]]
         IN  Sound(w, t) /\ Later(v, w, t) /\ w.b.status = v.b.status
             /\ w.b.end = v.b.end
<1> DEFINE d == [v.b EXCEPT !.cancel = TRUE, !.pending = p]
           w == [v EXCEPT !.b = d]
<1>0. v \in Account /\ v.b \in Billing
  BY DEF Sound, Account
<1>1. d \in Billing /\ SameStanding(v.b, d)
  BY <1>0 DEF Billing, SameStanding
<1> HIDE DEF d
<1>2. w \in Account /\ w.b = d /\ w.c = v.c /\ w.e = v.e /\ w.u = v.u
  BY <1>0, <1>1 DEF Account
<1> HIDE DEF w
<1>3. \A a \in Attempt : SubscriptionStep(v.u[a], w.u[a])
  BY <1>2 DEF SubscriptionStep
<1>4. Sound(w, t) /\ Later(v, w, t)
  BY <1>1, <1>2, <1>3, SameService
<1> QED
  BY <1>1, <1>2, <1>4 DEF w, d, SameStanding

\* What the reconciler has read of the subscriptions.
SnapshotsFit(v, seen) ==
  \A a \in Attempt : SnapshotFits(seen[a], v.u[a], v.e[a])

\* reconcileOne with what was read of the subscription.
LEMMA ReconcileOneSound ==
  ASSUME NEW v, NEW t \in Nat, NEW seen, Sound(v, t), SnapshotsFit(v, seen)
  PROVE  /\ Sound(ReconcileOne(v, seen, t), t)
         /\ Later(v, ReconcileOne(v, seen, t), t)
<1> DEFINE a == v.b.sub
           s == seen[a]
           applied == ApplyInvoice(v, a, s, t)
           stopped == /\ s.state = "canceled" \/ s.cancels
                      /\ applied.b.status # "grace"
           flagged == IF stopped THEN [applied EXCEPT !.b.cancel = TRUE] ELSE applied
<1>0. v \in Account
  BY DEF Sound
<1>1. CASE ~Due(v.b, t)
  <2>1. ReconcileOne(v, seen, t) = v
    BY <1>1 DEF ReconcileOne
  <2> QED
    BY <1>0, <2>1, NothingIsLater
<1>2. CASE Due(v.b, t)
  <2>1. v.b.status \in Served /\ a \in Attempt
    BY <1>2 DEF Due, Served, Sound, RowFits
  <2>2. SnapshotFits(s, v.u[a], v.e[a])
    BY <2>1 DEF SnapshotsFit
  <2>3. Sound(applied, t) /\ Later(v, applied, t)
    BY <2>1, <2>2, ApplyInvoiceSound
  <2>4. applied.b.status \in Served
    BY <2>1, ServedStays
  <2>5. applied \in Account /\ applied.b \in Billing /\ applied.b.end \in Nat
    BY <2>3 DEF Sound, Account, Billing
  <2>6. CASE applied.b.end > t \/ SuspensionDate(flagged.b) > t
    <3>1. ReconcileOne(v, seen, t) = applied
      BY <1>2, <2>6 DEF ReconcileOne
    <3> QED
      BY <2>3, <3>1
  <2>7. CASE ~(applied.b.end > t \/ SuspensionDate(flagged.b) > t)
    <3>1. ReconcileOne(v, seen, t) = Suspend(flagged)
      BY <1>2, <2>7 DEF ReconcileOne
    <3>2. applied.b.end <= t
      BY <2>5, <2>7
    <3> HIDE DEF applied
    <3>3. /\ Sound(flagged, t) /\ Later(applied, flagged, t)
          /\ flagged.b.status = applied.b.status /\ flagged.b.end = applied.b.end
      <4>1. CASE stopped
        <5> DEFINE p == applied.b.pending
                   w == [applied EXCEPT !.b = [applied.b EXCEPT !.cancel = TRUE, !.pending = p]]
        <5>1. p \in Plan \cup {NoPlan}
          BY <2>5 DEF Billing
        <5>2. flagged = w
          BY <4>1, <2>5 DEF Account, Billing
        <5>3. Sound(w, t) /\ Later(applied, w, t) /\ w.b.status = applied.b.status
              /\ w.b.end = applied.b.end
          BY <2>3, <5>1, FlagSound
        <5> QED
          BY <5>2, <5>3
      <4>2. CASE ~stopped
        BY <4>2, <2>3, <2>5, NothingIsLater
      <4> QED
        BY <4>1, <4>2
    <3> HIDE DEF flagged
    <3>4. Sound(Suspend(flagged), t) /\ Later(flagged, Suspend(flagged), t)
      BY <2>4, <3>2, <3>3, SuspendSound
    <3>5. flagged \in Account /\ Suspend(flagged) \in Account
      BY <3>3, <3>4 DEF Sound
    <3>6. Later(v, flagged, t)
      BY <1>0, <2>3, <2>5, <3>3, <3>5, LaterComposes
    <3> QED
      BY <1>0, <3>1, <3>4, <3>5, <3>6, LaterComposes
  <2> QED
    BY <2>6, <2>7
<1> QED
  BY <1>1, <1>2
=============================================================================
