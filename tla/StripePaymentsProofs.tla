------------------------ MODULE StripePaymentsProofs ------------------------
(***************************************************************************)
(* Theorems about StripePayments: the rows of a checkout and what Stripe   *)
(* has collected, and what an acknowledged event has left, whatever is     *)
(* late, repeated or lost; and the books of a calm behaviour, in which     *)
(* events are handled one at a time and in order.                          *)
(***************************************************************************)
EXTENDS StripePayments, SequenceTheorems, TLAPS

Row == [paid : BOOLEAN, status : Status]

\* TypeOK, and that rows and deliveries are sequences.
Types ==
  /\ TypeOK
  /\ due \in Seq(Event)
  /\ payment \in [Checkout -> Seq(Row)]

\* Only subscriptions have a status or are renewed, and only what was completed
\* is paid.
StripeFits ==
  /\ \A c \in Checkout : sub[c] = "none" <=> kind[c] # "subscription"
  /\ \A x \in invoices : /\ kind[x[1]] # "none" /\ <<x[1], 0>> \in invoices
                         /\ x[2] = 0 \/ kind[x[1]] = "subscription"

\* An event reports something that happened.
EventFits(e) ==
  /\ kind[e.of] # "none"
  /\ e.type = "paid" => <<e.of, e.invoice>> \in invoices
  /\ e.type \in {"updated", "deleted"} =>
       kind[e.of] = "subscription" /\ e.status \in {"past_due", "canceled"}

EventsFit == \A e \in sent : EventFits(e)

\* The steps in which invoice.paid is taken for a payment, and has marked it.
Crediting == {"benefit", "write", "ledger"}

\* A handler in flight.
CallFits(k) ==
  /\ EventFits(k.event)
  /\ k.step = "insert" => k.event.type = "completed"
  /\ k.step \in Crediting \cup {"mark"} => k.event.type = "paid" /\ payment[k.event.of] # <<>>
  /\ k.step \in {"insert", "mark"} /\ kind[k.event.of] = "subscription" =>
       k.seen \in Status
  /\ k.step \in Crediting => Paid(k.event.of)

CallsFit == \A h \in Handler : calls[h] # Idle => CallFits(calls[h])

\* The rows of each checkout.
RowsFit ==
  \A c \in Checkout :
    /\ Len(payment[c]) <= 1
    /\ payment[c] # <<>> => kind[c] # "none"
    /\ Paid(c) => <<c, 0>> \in invoices
    /\ bought[c] > 0 => Paid(c) /\ kind[c] = "credits"

StripeInv == Types /\ StripeFits /\ EventsFit /\ CallsFit /\ RowsFit

-----------------------------------------------------------------------------
(* Calm behaviours *)

\* One handler at most, and it works on the oldest delivery.
OneAtATime ==
  /\ \A g, h \in Handler : calls[g] # Idle /\ calls[h] # Idle => g = h
  /\ \A h \in Handler : calls[h] # Idle => due # <<>> /\ calls[h].event = Head(due)

\* The balance is what the ledger adds up to, but for the entry being made.
BalanceFits ==
  /\ (\A h \in Handler : ~At(h, "write") /\ ~At(h, "ledger")) => balance = entries
  /\ \A h \in Handler : /\ At(h, "write") => calls[h].read = entries /\ balance = entries
                        /\ At(h, "ledger") => balance = entries + 1

\* The handler at work has come to one of the steps in S.
Past(S) == \E h \in Handler : calls[h] # Idle /\ calls[h].step \in S

\* Delivery i still has to be handled up to one of the steps in S.
Waits(i, S) == i = 1 => ~Past(S)

About(i, c, type) == due[i].of = c /\ due[i].type = type

\* A completed session waits for its row, before everything else about it.
InsertsWait(c) ==
  /\ kind[c] # "none" /\ payment[c] = <<>> =>
       \E i \in DOMAIN due :
         About(i, c, "completed") /\ \A j \in DOMAIN due : j < i => due[j].of # c
  /\ \A i, j \in DOMAIN due :
       About(i, c, "completed") /\ About(j, c, "completed") => i = j
  /\ \A i \in DOMAIN due :
       About(i, c, "completed") => (payment[c] = <<>> <=> Waits(i, {"answer"}))

\* A package that was paid waits to be credited, or was credited once.
CreditsWait(c) ==
  kind[c] = "credits" =>
    /\ bought[c] \in {0, 1}
    /\ \A i, j \in DOMAIN due : About(i, c, "paid") /\ About(j, c, "paid") => i = j
    /\ \A i \in DOMAIN due : About(i, c, "paid") /\ Waits(i, {"answer"}) => bought[c] = 0
    /\ <<c, 0>> \in invoices /\ bought[c] = 0 =>
         \E i \in DOMAIN due : About(i, c, "paid") /\ Waits(i, {"answer"})

\* When nothing about a subscription waits any more its row has its status, and
\* the last that waits will give it.
LastAbout(i, c) ==
  due[i].of = c /\ \A j \in DOMAIN due : j > i => due[j].of # c

StatusWaits(c) ==
  kind[c] = "subscription" =>
    /\ \A i \in DOMAIN due :
         LastAbout(i, c) /\ due[i].type \in {"updated", "deleted"} => due[i].status = sub[c]
    /\ \A h \in Handler :
         At(h, "insert") \/ At(h, "mark") =>
           (LastAbout(1, c) => calls[h].seen = sub[c])
    /\ /\ payment[c] # <<>>
       /\ \A i \in DOMAIN due : due[i].of = c => ~Waits(i, Crediting \cup {"answer"})
       => payment[c][1].status = sub[c]

CalmFits ==
  calm =>
    /\ OneAtATime
    /\ BalanceFits
    /\ \A c \in Checkout : InsertsWait(c) /\ CreditsWait(c) /\ StatusWaits(c)

-----------------------------------------------------------------------------
(* Sequences *)

\* What RemoveAt leaves.
LEMMA RemoveAtFacts ==
  ASSUME NEW S, NEW s \in Seq(S), NEW i \in DOMAIN s
  PROVE  LET r == RemoveAt(s, i)
         IN  /\ r \in Seq(S) /\ Len(r) = Len(s) - 1
             /\ \A k \in 1 .. Len(r) : r[k] = IF k < i THEN s[k] ELSE s[k + 1]
<1>1. i \in 1 .. Len(s) /\ Len(s) \in Nat
  OBVIOUS
<1>2. SubSeq(s, 1, i - 1) \in Seq(S) /\ Len(SubSeq(s, 1, i - 1)) = i - 1
      /\ \A k \in 1 .. i - 1 : SubSeq(s, 1, i - 1)[k] = s[k]
  BY <1>1
<1>3. SubSeq(s, i + 1, Len(s)) \in Seq(S) /\ Len(SubSeq(s, i + 1, Len(s))) = Len(s) - i
      /\ \A k \in 1 .. Len(s) - i : SubSeq(s, i + 1, Len(s))[k] = s[i + k]
  BY <1>1
<1> DEFINE a == SubSeq(s, 1, i - 1)  b == SubSeq(s, i + 1, Len(s))
<1>4. RemoveAt(s, i) = a \o b
  BY DEF RemoveAt
<1> HIDE DEF a, b
<1>5. /\ a \in Seq(S) /\ Len(a) = i - 1 /\ \A k \in 1 .. i - 1 : a[k] = s[k]
      /\ b \in Seq(S) /\ Len(b) = Len(s) - i
      /\ \A k \in 1 .. Len(s) - i : b[k] = s[i + k]
  BY <1>2, <1>3 DEF a, b
<1>6. /\ a \o b \in Seq(S) /\ Len(a \o b) = Len(a) + Len(b)
      /\ \A k \in 1 .. Len(a) + Len(b) :
           (a \o b)[k] = IF k <= Len(a) THEN a[k] ELSE b[k - Len(a)]
  BY <1>5, ConcatProperties
<1> DEFINE r == a \o b
<1> HIDE DEF r
<1>7. ASSUME NEW k \in 1 .. Len(s) - 1
      PROVE  r[k] = IF k < i THEN s[k] ELSE s[k + 1]
  <2>0. /\ k \in Nat /\ k < Len(s) /\ k > 0 /\ i \in Nat /\ i > 0 /\ i <= Len(s)
        /\ Len(s) \in Nat
    BY <1>1
  <2>1. Len(a) = i - 1 /\ Len(b) = Len(s) - i
    BY <1>5
  <2>2. r[k] = IF k <= i - 1 THEN a[k] ELSE b[k - (i - 1)]
    <3>1. k \in 1 .. Len(a) + Len(b)
      BY <2>0, <2>1
    <3>2. r[k] = IF k <= Len(a) THEN a[k] ELSE b[k - Len(a)]
      BY <1>6, <3>1 DEF r
    <3> QED
      BY <2>1, <3>2
  <2>3. CASE k < i
    BY <1>5, <2>0, <2>2, <2>3
  <2>4. CASE ~(k < i)
    <3> DEFINE q == k - (i - 1)
    <3>1. q \in 1 .. Len(s) - i /\ i + q = k + 1
      BY <2>0, <2>4
    <3>2. r[k] = b[q]
      BY <2>0, <2>2, <2>4
    <3> HIDE DEF q
    <3>3. b[q] = s[i + q]
      BY <1>5, <3>1
    <3> QED
      BY <2>4, <3>1, <3>2, <3>3
  <2> QED
    BY <2>3, <2>4
<1>8. Len(r) = Len(s) - 1 /\ r \in Seq(S)
  BY <1>1, <1>5, <1>6 DEF r
<1> QED
  BY <1>4, <1>7, <1>8 DEF r

\* What the queue of deliveries becomes.
LEMMA HappensFacts ==
  ASSUME NEW e \in Event, NEW before, due \in Seq(Event), Happens(e, before)
  PROVE  /\ due' \in Seq(Event) /\ Len(due') = Len(due) + 1
         /\ \A i \in 1 .. Len(due) : due'[i] = due[i]
         /\ due'[Len(due) + 1] = e
         /\ ToSet(due') = ToSet(due) \cup {e}
<1>1. due' = Append(due, e)
  BY DEF Happens
<1>2. /\ due' \in Seq(Event) /\ Len(due') = Len(due) + 1
      /\ \A i \in 1 .. Len(due) : due'[i] = due[i]
      /\ due'[Len(due) + 1] = e
  BY <1>1
<1>3. DOMAIN due' = 1 .. Len(due) + 1 /\ DOMAIN due = 1 .. Len(due) /\ Len(due) \in Nat
  BY <1>2
<1> QED
  BY <1>2, <1>3 DEF ToSet

-----------------------------------------------------------------------------
(* What Stripe does *)

\* Sales and invoices stay what they are.
Grows ==
  /\ \A c \in Checkout : kind[c] # "none" => kind'[c] = kind[c]
  /\ invoices \subseteq invoices'

\* What an event reports stays true.
LEMMA EventLasts ==
  ASSUME NEW e \in Event, EventFits(e), Grows
  PROVE  EventFits(e)'
<1>1. e.of \in Checkout
  BY DEF Event
<1> QED
  BY <1>1 DEF EventFits, Grows

\* A step of Stripe that adds the delivery of one event.
LEMMA StripeOnlyKeeps ==
  ASSUME StripeInv, NEW e \in Event, NEW before \in {sent, {}}, Happens(e, before), Grows,
         StripeFits', EventFits(e)', ToSet(due) \subseteq before,
         UNCHANGED <<calls, payment, balance, entries, bought, faults, calm>>,
         monthly' \in [Gifts -> Nat], kind' \in [Checkout -> Kinds \cup {"none"}],
         sub' \in [Checkout -> {"none", "incomplete", "active", "past_due", "canceled"}],
         invoices' \subseteq Checkout \X (0 .. MaxInvoice)
  PROVE  StripeInv'
<1>0. Types /\ sent \subseteq Event /\ due \in Seq(Event)
  BY DEF StripeInv, Types, TypeOK
<1>1. Types'
  <2>1. sent' = before \cup {e} /\ ToSet(due') \subseteq sent' /\ due' \in Seq(Event)
    BY <1>0, HappensFacts DEF Happens
  <2> QED
    BY <1>0, <2>1 DEF Types, TypeOK
<1>2. EventsFit'
  <2>1. sent' \subseteq sent \cup {e}
    BY DEF Happens
  <2>2. \A x \in sent : EventFits(x)'
    BY <1>0, EventLasts DEF StripeInv, EventsFit
  <2> QED
    BY <2>1, <2>2 DEF EventsFit
<1>3. CallsFit'
  <2> SUFFICES ASSUME NEW h \in Handler, calls[h] # Idle
               PROVE  CallFits(calls[h])'
    BY DEF CallsFit
  <2>1. CallFits(calls[h]) /\ calls[h].event \in Event /\ calls[h].event.of \in Checkout
    BY <1>0 DEF StripeInv, CallsFit, Types, TypeOK, Call, Event
  <2>2. EventFits(calls[h].event) /\ EventFits(calls[h].event)'
    BY <2>1, EventLasts DEF CallFits
  <2>3. kind'[calls[h].event.of] = kind[calls[h].event.of]
    BY <2>1, <2>2 DEF EventFits, Grows
  <2> QED
    BY <2>1, <2>2, <2>3 DEF CallFits, Paid
<1>4. RowsFit'
  BY DEF StripeInv, RowsFit, Paid, Grows
<1> QED
  BY <1>1, <1>2, <1>3, <1>4 DEF StripeInv

\* A checkout is completed.
LEMMA CompleteKeeps ==
  ASSUME StripeInv, NEW c \in Checkout, NEW k \in Kinds, Complete(c, k)
  PROVE  StripeInv' /\ Grows
<1> DEFINE e == Of("completed", c, "none", 0)
<1>0. Types /\ kind[c] = "none"
  BY DEF StripeInv, Complete
<1>1. e \in Event
  BY PaymentsAssumption DEF Event, Of
<1>2. /\ kind' = [kind EXCEPT ![c] = k]
      /\ sub' = [sub EXCEPT ![c] = IF k = "subscription" THEN "incomplete" ELSE "none"]
      /\ Happens(e, sent) /\ UNCHANGED invoices
      /\ UNCHANGED <<calls, dbVars, faults, calm>>
  BY DEF Complete, StripeOnly
<1>3. Grows
  BY <1>0, <1>2 DEF Types, TypeOK, Grows
<1>4. StripeFits'
  <2>1. \A x \in Checkout : sub'[x] = "none" <=> kind'[x] # "subscription"
    BY <1>0, <1>2 DEF StripeInv, StripeFits, Types, TypeOK, Kinds
  <2>2. \A x \in invoices' : /\ kind'[x[1]] # "none" /\ <<x[1], 0>> \in invoices'
                             /\ x[2] = 0 \/ kind'[x[1]] = "subscription"
    <3>1. \A x \in invoices : kind[x[1]] # "none" /\ x[1] \in Checkout
      BY <1>0 DEF StripeInv, StripeFits, Types, TypeOK
    <3>2. \A x \in invoices : kind'[x[1]] = kind[x[1]]
      BY <1>3, <3>1 DEF Grows
    <3> QED
      BY <1>2, <3>1, <3>2 DEF StripeInv, StripeFits
  <2> QED
    BY <2>1, <2>2 DEF StripeFits
<1>5. EventFits(e)'
  BY <1>0, <1>2 DEF EventFits, Of, Kinds, Types, TypeOK
<1>6. ToSet(due) \subseteq sent /\ UNCHANGED <<payment, balance, entries, bought, monthly>>
  BY <1>0, <1>2 DEF Types, TypeOK, dbVars
<1>7. /\ kind' \in [Checkout -> Kinds \cup {"none"}]
      /\ sub' \in [Checkout -> {"none", "incomplete", "active", "past_due", "canceled"}]
      /\ invoices' \subseteq Checkout \X (0 .. MaxInvoice) /\ monthly' \in [Gifts -> Nat]
  BY <1>0, <1>2, <1>6 DEF Types, TypeOK
<1> HIDE DEF e
<1> QED
  BY <1>1, <1>2, <1>3, <1>4, <1>5, <1>6, <1>7, StripeOnlyKeeps

\* An invoice is collected.
LEMMA CollectedKeeps ==
  ASSUME StripeInv, NEW c \in Checkout, NEW n \in 0 .. MaxInvoice,
         NEW before \in {sent, {}}, Collected(c, n, before), ToSet(due) \subseteq before,
         kind[c] # "none", n = 0 \/ (kind[c] = "subscription" /\ <<c, n - 1>> \in invoices),
         UNCHANGED <<calls, payment, balance, entries, bought, faults, calm>>,
         monthly' \in [Gifts -> Nat]
  PROVE  StripeInv' /\ Grows
<1> DEFINE e == Of("paid", c, "none", n)
<1>0. Types
  BY DEF StripeInv
<1>1. e \in Event
  BY DEF Event, Of
<1>2. /\ invoices' = invoices \cup {<<c, n>>}
      /\ sub' = [sub EXCEPT ![c] = IF kind[c] = "subscription" THEN "active" ELSE sub[c]]
      /\ Happens(e, before) /\ UNCHANGED kind
  BY DEF Collected
<1>3. Grows
  BY <1>2 DEF Grows
<1>4. StripeFits'
  <2>1. \A x \in Checkout : sub'[x] = "none" <=> kind'[x] # "subscription"
    BY <1>0, <1>2 DEF StripeInv, StripeFits, Types, TypeOK
  <2>2. <<c, 0>> \in invoices'
    <3>1. CASE n = 0
      BY <1>2, <3>1
    <3>2. CASE n # 0
      <4>1. <<c, n - 1>> \in invoices /\ <<c, n - 1>>[1] = c
        BY <3>2
      <4> QED
        BY <1>2, <4>1 DEF StripeInv, StripeFits
    <3> QED
      BY <3>1, <3>2
  <2>3. <<c, n>>[1] = c /\ <<c, n>>[2] = n
    OBVIOUS
  <2>4. \A x \in invoices' : /\ kind'[x[1]] # "none" /\ <<x[1], 0>> \in invoices'
                             /\ x[2] = 0 \/ kind'[x[1]] = "subscription"
    BY <1>2, <2>2, <2>3 DEF StripeInv, StripeFits
  <2> QED
    BY <2>1, <2>4 DEF StripeFits
<1>5. EventFits(e)'
  BY <1>2 DEF EventFits, Of
<1>7. /\ kind' \in [Checkout -> Kinds \cup {"none"}]
      /\ sub' \in [Checkout -> {"none", "incomplete", "active", "past_due", "canceled"}]
      /\ invoices' \subseteq Checkout \X (0 .. MaxInvoice)
  BY <1>0, <1>2 DEF Types, TypeOK
<1> HIDE DEF e
<1> QED
  BY <1>1, <1>2, <1>3, <1>4, <1>5, <1>7, StripeOnlyKeeps

\* The first invoice is paid.
LEMMA PayKeeps ==
  ASSUME StripeInv, NEW c \in Checkout, Pay(c)
  PROVE  StripeInv' /\ Grows
<1>1. /\ Collected(c, 0, sent) /\ kind[c] # "none"
      /\ UNCHANGED <<calls, payment, balance, entries, bought, monthly, faults, calm>>
  BY DEF Pay, StripeOnly, dbVars
<1>2. 0 \in 0 .. MaxInvoice /\ ToSet(due) \subseteq sent /\ monthly \in [Gifts -> Nat]
  BY PaymentsAssumption DEF StripeInv, Types, TypeOK
<1> QED
  BY <1>1, <1>2, CollectedKeeps

\* A renewal is paid.
LEMMA RenewKeeps ==
  ASSUME StripeInv, NEW c \in Checkout, NEW n \in 1 .. MaxInvoice, Renew(c, n)
  PROVE  StripeInv' /\ Grows
<1>1. /\ Collected(c, n, {}) /\ kind[c] = "subscription" /\ <<c, n - 1>> \in invoices
      /\ due = <<>> /\ monthly' = [g \in Gifts |-> 0]
      /\ UNCHANGED <<calls, payment, balance, entries, bought, faults, calm>>
  BY DEF Renew, AllDone
<1>2. n \in 0 .. MaxInvoice /\ ToSet(due) = {} /\ monthly' \in [Gifts -> Nat]
  BY <1>1, PaymentsAssumption DEF ToSet
<1> QED
  BY <1>1, <1>2, CollectedKeeps

\* A subscription is overdue or ends.
LEMMA SubChangesKeeps ==
  ASSUME StripeInv, NEW c \in Checkout, NEW s \in {"past_due", "canceled"}, SubChanges(c, s)
  PROVE  StripeInv' /\ Grows
<1> DEFINE e == Of(IF s = "canceled" THEN "deleted" ELSE "updated", c, s, 0)
<1>0. Types /\ kind[c] = "subscription"
  BY DEF StripeInv, SubChanges, StripeFits
<1>1. e \in Event
  BY PaymentsAssumption DEF Event, Of, Status
<1>2. /\ sub' = [sub EXCEPT ![c] = s] /\ Happens(e, sent) /\ UNCHANGED <<kind, invoices>>
      /\ UNCHANGED <<calls, dbVars, faults, calm>>
  BY DEF SubChanges, StripeOnly
<1>3. Grows
  BY <1>2 DEF Grows
<1>4. StripeFits'
  BY <1>0, <1>2 DEF StripeInv, StripeFits, Types, TypeOK
<1>5. EventFits(e)'
  BY <1>0, <1>2 DEF EventFits, Of
<1>6. ToSet(due) \subseteq sent /\ UNCHANGED <<payment, balance, entries, bought, monthly>>
  BY <1>0, <1>2 DEF Types, TypeOK, dbVars
<1>7. /\ kind' \in [Checkout -> Kinds \cup {"none"}]
      /\ sub' \in [Checkout -> {"none", "incomplete", "active", "past_due", "canceled"}]
      /\ invoices' \subseteq Checkout \X (0 .. MaxInvoice) /\ monthly' \in [Gifts -> Nat]
  BY <1>0, <1>2, <1>6 DEF Types, TypeOK
<1> HIDE DEF e
<1> QED
  BY <1>1, <1>2, <1>3, <1>4, <1>5, <1>6, <1>7, StripeOnlyKeeps

-----------------------------------------------------------------------------
(* What a handler does *)

Steps == {"start", "insert", "mark", "benefit", "write", "ledger", "answer"}

\* A handler in flight.
LEMMA Working ==
  ASSUME StripeInv, NEW h \in Handler, calls[h] # Idle
  PROVE  /\ calls[h] \in Call /\ CallFits(calls[h]) /\ calls[h].event \in Event
         /\ Session(h) \in Checkout /\ kind[Session(h)] \in Kinds
         /\ payment[Session(h)] \in Seq(Row)
         /\ KindOf(h) = "subscription" => sub[Session(h)] \in Status
<1>1. calls[h] \in Call /\ CallFits(calls[h]) /\ Types
  BY DEF StripeInv, Types, TypeOK, CallsFit
<1>2. calls[h].event \in Event /\ Session(h) \in Checkout
  BY <1>1 DEF Call, Event, Session
<1>3. kind[Session(h)] \in Kinds
  BY <1>1, <1>2 DEF CallFits, EventFits, Session, Types, TypeOK
<1>4. sub[Session(h)] # "none" => sub[Session(h)] \in Status
  BY <1>1, <1>2 DEF Types, TypeOK, Status
<1> QED
  BY <1>1, <1>2, <1>3, <1>4 DEF StripeInv, StripeFits, Types, KindOf

\* The call after its next step, and after the look at the subscription.
LEMMA GotoFacts ==
  ASSUME StripeInv, NEW h \in Handler, calls[h] # Idle, NEW step \in Steps, Goto(h, step)
  PROVE  \E k \in Call :
           /\ calls' = [calls EXCEPT ![h] = k] /\ k.step = step
           /\ k.event = calls[h].event
<1> DEFINE k == [calls[h] EXCEPT !.step = step, !.seen = "none", !.read = 0]
<1>1. calls[h] \in Call /\ calls \in [Handler -> Call \cup {Idle}]
  BY Working DEF StripeInv, Types, TypeOK
<1>2. k \in Call /\ k.step = step /\ k.event = calls[h].event
  BY <1>1 DEF Call, Steps
<1>3. calls' = [calls EXCEPT ![h] = k]
  BY <1>1 DEF Goto, Call
<1> QED
  BY <1>2, <1>3

\* A handler that looks up the subscription goes on with its status.
LEMMA SeeFacts ==
  ASSUME StripeInv, NEW h \in Handler, calls[h] # Idle, NEW step \in Steps, See(h, step)
  PROVE  \E k \in Call :
           /\ calls' = [calls EXCEPT ![h] = k] /\ k.step = step
           /\ k.event = calls[h].event /\ k.seen = sub[Session(h)]
<1> DEFINE k == [calls[h] EXCEPT !.step = step, !.seen = sub[Session(h)]]
<1>1. calls[h] \in Call /\ calls \in [Handler -> Call \cup {Idle}]
      /\ sub[Session(h)] \in Status \cup {"none"}
  BY Working DEF StripeInv, Types, TypeOK, Status
<1>2. k \in Call /\ k.step = step /\ k.event = calls[h].event /\ k.seen = sub[Session(h)]
  BY <1>1 DEF Call, Steps
<1>3. calls' = [calls EXCEPT ![h] = k]
  BY <1>1 DEF See, Call
<1> QED
  BY <1>2, <1>3

\* A step of one handler that loses no row and no payment.
LEMMA HandlerKeeps ==
  ASSUME StripeInv, NEW h \in Handler, NEW k \in Call \cup {Idle},
         calls' = [calls EXCEPT ![h] = k], k # Idle => CallFits(k)',
         UNCHANGED <<kind, sub, invoices, sent>>,
         due' \in Seq(Event), ToSet(due') \subseteq sent,
         payment' \in [Checkout -> Seq(Row)],
         \A c \in Checkout : /\ payment[c] # <<>> => payment'[c] # <<>>
                             /\ Paid(c) => Paid(c)',
         RowsFit',
         balance' \in Nat, entries' \in Nat, bought' \in [Checkout -> Nat],
         monthly' \in [Gifts -> Nat], faults' \in 0 .. MaxFaults, calm' \in BOOLEAN
  PROVE  StripeInv'
<1>0. Types
  BY DEF StripeInv
<1>1. Types'
  <2>1. calls' \in [Handler -> Call \cup {Idle}]
    BY <1>0 DEF Types, TypeOK
  <2>2. \A c \in Checkout : \A i \in DOMAIN payment'[c] :
          payment'[c][i] \in [paid : BOOLEAN, status : Status]
    <3> SUFFICES ASSUME NEW c \in Checkout, NEW i \in DOMAIN payment'[c]
                 PROVE  payment'[c][i] \in Row
      BY DEF Row
    <3>1. payment'[c] \in Seq(Row)
      OBVIOUS
    <3> QED
      BY <3>1
  <2> QED
    BY <1>0, <2>1, <2>2 DEF Types, TypeOK
<1>2. StripeFits' /\ EventsFit'
  BY DEF StripeInv, StripeFits, EventsFit, EventFits
<1>a. ASSUME NEW x \in Call, CallFits(x)
      PROVE  CallFits(x)'
  <2>1. x.event \in Event /\ x.event.of \in Checkout /\ EventFits(x.event)
    BY <1>a DEF Call, Event, CallFits
  <2>2. EventFits(x.event)'
    BY <2>1, EventLasts DEF Grows
  <2> QED
    BY <1>a, <2>1, <2>2 DEF CallFits
<1>3. CallsFit'
  <2> SUFFICES ASSUME NEW g \in Handler, calls'[g] # Idle
               PROVE  CallFits(calls[g])'
    BY DEF CallsFit
  <2>1. CASE g = h
    BY <1>0, <2>1 DEF Types, TypeOK
  <2>2. CASE g # h
    <3>1. calls'[g] = calls[g]
      BY <1>0, <2>2 DEF Types, TypeOK
    <3>2. CallFits(calls[g]) /\ calls[g] \in Call
      BY <1>0, <3>1 DEF StripeInv, CallsFit, Types, TypeOK
    <3> QED
      BY <1>a, <3>1, <3>2
  <2> QED
    BY <2>1, <2>2
<1> QED
  BY <1>1, <1>2, <1>3 DEF StripeInv

\* A step that leaves the rows and the deliveries alone.
LEMMA QuietKeeps ==
  ASSUME StripeInv, NEW h \in Handler, NEW k \in Call \cup {Idle},
         calls' = [calls EXCEPT ![h] = k], k # Idle => CallFits(k)',
         UNCHANGED <<kind, sub, invoices, sent, due, payment, bought>>,
         balance' \in Nat, entries' \in Nat,
         monthly' \in [Gifts -> Nat], faults' \in 0 .. MaxFaults, calm' \in BOOLEAN
  PROVE  StripeInv'
<1>1. RowsFit' /\ \A c \in Checkout : Paid(c) => Paid(c)'
  BY DEF StripeInv, RowsFit, Paid
<1>2. /\ due' \in Seq(Event) /\ ToSet(due') \subseteq sent
      /\ payment' \in [Checkout -> Seq(Row)] /\ bought' \in [Checkout -> Nat]
  BY DEF StripeInv, Types, TypeOK
<1> QED
  BY <1>1, <1>2, HandlerKeeps

\* What no handler touches, and what it may.
LEMMA CalmTypes ==
  ASSUME StripeInv, Calm
  PROVE  /\ UNCHANGED <<kind, sub, invoices, sent, faults, calm>>
         /\ faults' \in 0 .. MaxFaults /\ calm' \in BOOLEAN
         /\ balance \in Nat /\ entries \in Nat /\ monthly \in [Gifts -> Nat]
         /\ bought \in [Checkout -> Nat] /\ due \in Seq(Event) /\ ToSet(due) \subseteq sent
         /\ payment \in [Checkout -> Seq(Row)]
  BY DEF Calm, stripeVars, StripeInv, Types, TypeOK

\* A delivery starts a handler.
LEMMA DeliverKeeps ==
  ASSUME StripeInv, NEW e \in ToSet(due), NEW h \in Handler, Deliver(e, h)
  PROVE  StripeInv'
<1> DEFINE k == [step |-> "start", event |-> e, seen |-> "none", read |-> 0]
<1>0. Types /\ e \in sent /\ e \in Event /\ EventFits(e)
  BY DEF StripeInv, Types, TypeOK, EventsFit
<1>1. k \in Call /\ k.step = "start" /\ k.event = e
  BY <1>0 DEF Call
<1>2. /\ calls' = [calls EXCEPT ![h] = k]
      /\ UNCHANGED <<kind, sub, invoices, sent, due, payment, balance, bought, entries, monthly, faults>>
      /\ calm' = (calm /\ e = Head(due) /\ \A g \in Handler : calls[g] = Idle)
  BY DEF Deliver, stripeVars, dbVars
<1> HIDE DEF k
<1>3. CallFits(k)'
  BY <1>0, <1>1, <1>2 DEF CallFits, EventFits, Crediting
<1>4. /\ calm' \in BOOLEAN /\ balance' \in Nat /\ entries' \in Nat
      /\ monthly' \in [Gifts -> Nat] /\ faults' \in 0 .. MaxFaults
  BY <1>0, <1>2 DEF Types, TypeOK
<1> QED
  BY <1>1, <1>2, <1>3, <1>4, QuietKeeps

\* An event is delivered again.
LEMMA RepeatKeeps ==
  ASSUME StripeInv, NEW e \in sent, Repeat(e)
  PROVE  StripeInv'
<1>0. Types /\ e \in Event
  BY DEF StripeInv, Types, TypeOK
<1>1. /\ due' = Append(due, e) /\ faults' = faults + 1 /\ calm' = FALSE /\ faults < MaxFaults
      /\ UNCHANGED <<kind, sub, invoices, sent, calls, payment, balance, bought, entries, monthly>>
  BY DEF Repeat, Fault, stripeVars, dbVars
<1>2. due' \in Seq(Event) /\ ToSet(due') \subseteq sent
  <2>1. Happens(e, sent \ {e})
    BY <1>1 DEF Happens
  <2> QED
    BY <1>0, <2>1, HappensFacts DEF Types, TypeOK
<1>3. faults' \in 0 .. MaxFaults
  BY <1>0, <1>1, PaymentsAssumption DEF Types, TypeOK
<1>4. Types'
  BY <1>0, <1>1, <1>2, <1>3 DEF Types, TypeOK
<1> QED
  BY <1>1, <1>4 DEF StripeInv, StripeFits, EventsFit, EventFits, CallsFit, CallFits,
                    RowsFit, Paid

\* Any await throws.
LEMMA BrokenKeeps ==
  ASSUME StripeInv, NEW h \in Handler, Broken(h)
  PROVE  StripeInv'
<1>1. /\ calls' = [calls EXCEPT ![h] = Idle] /\ faults' = faults + 1 /\ calm' = FALSE
      /\ faults < MaxFaults
      /\ UNCHANGED <<kind, sub, invoices, sent, due, payment, balance, bought, entries, monthly>>
  BY DEF Broken, Throws, Fault, stripeVars, dbVars
<1>2. /\ faults' \in 0 .. MaxFaults /\ calm' \in BOOLEAN /\ balance' \in Nat /\ entries' \in Nat
      /\ monthly' \in [Gifts -> Nat]
  <2>1. faults \in Nat /\ MaxFaults \in Nat /\ balance \in Nat /\ entries \in Nat
        /\ monthly \in [Gifts -> Nat]
    BY PaymentsAssumption DEF StripeInv, Types, TypeOK
  <2>2. faults' = faults + 1 /\ faults < MaxFaults
    BY <1>1
  <2>3. faults' \in 0 .. MaxFaults
    BY <2>1, <2>2
  <2>4. calm' \in BOOLEAN /\ UNCHANGED <<balance, entries, monthly>>
    BY <1>1
  <2> QED
    BY <2>1, <2>3, <2>4
<1> QED
  BY <1>1, <1>2, QuietKeeps

\* A handler looks its subscription up, or finds nothing to credit.
LEMMA LookupKeeps ==
  ASSUME StripeInv, NEW h \in Handler,
         CheckoutCompleted(h) \/ InvoicePaid(h) \/ InvoiceUnknown(h) \/ NoBenefit(h)
  PROVE  StripeInv'
<1>0. Calm /\ UNCHANGED <<due, dbVars>> /\ calls[h] # Idle
  BY DEF CheckoutCompleted, InvoicePaid, InvoiceUnknown, NoBenefit, Throws, At
<1>1. /\ UNCHANGED <<kind, sub, invoices, sent, due, payment, bought>>
      /\ balance' \in Nat /\ entries' \in Nat
      /\ monthly' \in [Gifts -> Nat] /\ faults' \in 0 .. MaxFaults /\ calm' \in BOOLEAN
  BY <1>0, CalmTypes DEF dbVars
<1>2. /\ CallFits(calls[h])
      /\ KindOf(h) = "subscription" => sub[Session(h)] \in Status
  BY <1>0, Working
<1>3. ASSUME NEW k \in Call, k.event = calls[h].event,
             k.step = "insert" => Type(h) = "completed",
             k.step \in Crediting \cup {"mark"} => Type(h) = "paid" /\ Found(h),
             k.step \in {"insert", "mark"} => k.seen = sub[Session(h)],
             k.step \notin Crediting
      PROVE  CallFits(k)'
  BY <1>1, <1>2, <1>3 DEF CallFits, EventFits, Type, Found, Session, KindOf
<1>4. CASE CheckoutCompleted(h)
  <2>1. See(h, "insert") /\ Type(h) = "completed"
    BY <1>4 DEF CheckoutCompleted
  <2>2. PICK k \in Call : /\ calls' = [calls EXCEPT ![h] = k] /\ k.step = "insert"
                          /\ k.event = calls[h].event /\ k.seen = sub[Session(h)]
    BY <1>0, <2>1, SeeFacts DEF Steps
  <2>3. CallFits(k)'
    BY <1>3, <2>1, <2>2 DEF Crediting
  <2> QED
    BY <1>1, <2>2, <2>3, QuietKeeps
<1>5. CASE InvoicePaid(h)
  <2>1. See(h, "mark") /\ Type(h) = "paid" /\ Found(h)
    BY <1>5 DEF InvoicePaid
  <2>2. PICK k \in Call : /\ calls' = [calls EXCEPT ![h] = k] /\ k.step = "mark"
                          /\ k.event = calls[h].event /\ k.seen = sub[Session(h)]
    BY <1>0, <2>1, SeeFacts DEF Steps
  <2>3. CallFits(k)'
    BY <1>3, <2>1, <2>2 DEF Crediting
  <2> QED
    BY <1>1, <2>2, <2>3, QuietKeeps
<1>6. CASE InvoiceUnknown(h)
  <2>1. calls' = [calls EXCEPT ![h] = Idle]
    BY <1>6 DEF InvoiceUnknown, Throws
  <2> QED
    BY <1>1, <2>1, QuietKeeps
<1>7. CASE NoBenefit(h)
  <2>1. Goto(h, "answer")
    BY <1>7 DEF NoBenefit
  <2>2. PICK k \in Call : /\ calls' = [calls EXCEPT ![h] = k] /\ k.step = "answer"
                          /\ k.event = calls[h].event
    BY <1>0, <2>1, GotoFacts DEF Steps
  <2>3. CallFits(k)'
    BY <1>3, <2>2 DEF Crediting
  <2> QED
    BY <1>1, <2>2, <2>3, QuietKeeps
<1> QED
  BY <1>4, <1>5, <1>6, <1>7

\* The answer takes a delivery out of the queue.
LEMMA AnsweredFacts ==
  ASSUME NEW e, due \in Seq(Event), Answered(e)
  PROVE  /\ due' \in Seq(Event) /\ ToSet(due') \subseteq ToSet(due)
         /\ due # <<>> /\ e = Head(due) =>
              /\ Len(due') = Len(due) - 1
              /\ \A i \in 1 .. Len(due') : due'[i] = due[i + 1]
<1>1. CASE ~Pending(e) /\ UNCHANGED due
  <2>1. due # <<>> => Head(due) \in ToSet(due)
    BY DEF ToSet
  <2> QED
    BY <1>1, <2>1 DEF Pending
<1>2. ASSUME NEW i \in DOMAIN due, due[i] = e, \A j \in 1 .. i - 1 : due[j] # e,
             due' = RemoveAt(due, i)
      PROVE  /\ due' \in Seq(Event) /\ ToSet(due') \subseteq ToSet(due)
             /\ due # <<>> /\ e = Head(due) =>
                  /\ Len(due') = Len(due) - 1
                  /\ \A k \in 1 .. Len(due') : due'[k] = due[k + 1]
  <2>1. /\ due' \in Seq(Event) /\ Len(due') = Len(due) - 1
        /\ \A k \in 1 .. Len(due') : due'[k] = IF k < i THEN due[k] ELSE due[k + 1]
    BY <1>2, RemoveAtFacts
  <2>2. Len(due) \in Nat /\ DOMAIN due = 1 .. Len(due) /\ DOMAIN due' = 1 .. Len(due')
        /\ i \in 1 .. Len(due)
    BY <2>1
  <2>3. \A k \in 1 .. Len(due') : k \in 1 .. Len(due) /\ k + 1 \in 1 .. Len(due)
    BY <2>1, <2>2
  <2>4. ToSet(due') \subseteq ToSet(due)
    BY <2>1, <2>2, <2>3 DEF ToSet
  <2>5. e = Head(due) => i = 1
    <3>1. Head(due) = due[1]
      BY <2>2
    <3>2. i > 1 => 1 \in 1 .. i - 1
      BY <2>2
    <3> QED
      BY <1>2, <2>2, <3>1, <3>2
  <2>6. i = 1 => \A k \in 1 .. Len(due') : due'[k] = due[k + 1]
    BY <2>1, <2>2
  <2> QED
    BY <2>1, <2>4, <2>5, <2>6
<1> QED
  BY <1>1, <1>2 DEF Answered

\* An answer only shortens the queue of deliveries.
LEMMA AnswerKeeps ==
  ASSUME StripeInv, NEW h \in Handler, Answer(h)
  PROVE  StripeInv'
<1>1. /\ calls' = [calls EXCEPT ![h] = Idle] /\ Answered(calls[h].event)
      /\ UNCHANGED dbVars /\ Calm
  BY DEF Answer
<1>2. /\ UNCHANGED <<kind, sub, invoices, sent, payment, bought>>
      /\ balance' \in Nat /\ entries' \in Nat /\ bought' \in [Checkout -> Nat]
      /\ monthly' \in [Gifts -> Nat] /\ faults' \in 0 .. MaxFaults /\ calm' \in BOOLEAN
      /\ due \in Seq(Event) /\ ToSet(due) \subseteq sent
      /\ payment' \in [Checkout -> Seq(Row)]
  BY <1>1, CalmTypes DEF dbVars
<1>3. due' \in Seq(Event) /\ ToSet(due') \subseteq sent
  BY <1>1, <1>2, AnsweredFacts
<1>4. RowsFit' /\ \A c \in Checkout : Paid(c) => Paid(c)'
  BY <1>2 DEF StripeInv, RowsFit, Paid
<1> QED
  BY <1>1, <1>2, <1>3, <1>4, HandlerKeeps

\* The row of a completed session is inserted once.
LEMMA InsertKeeps ==
  ASSUME StripeInv, NEW h \in Handler, InsertRow(h) \/ InsertDuplicate(h)
  PROVE  StripeInv'
<1>0. calls[h] # Idle /\ calls[h].step = "insert" /\ Calm
  BY DEF InsertRow, InsertDuplicate, At
<1>c. PICK c \in Checkout : c = Session(h)
  BY <1>0, Working
<1>1. CallFits(calls[h]) /\ kind[c] \in Kinds /\ Types /\ calls[h] \in Call
  BY <1>0, <1>c, Working DEF StripeInv
<1>2. /\ UNCHANGED <<kind, sub, invoices, sent>>
      /\ faults' \in 0 .. MaxFaults /\ calm' \in BOOLEAN
      /\ balance \in Nat /\ entries \in Nat /\ monthly \in [Gifts -> Nat]
      /\ bought \in [Checkout -> Nat] /\ due \in Seq(Event) /\ ToSet(due) \subseteq sent
      /\ payment \in [Checkout -> Seq(Row)]
  BY <1>0, CalmTypes
<1>3. ASSUME NEW k \in Call, k.step = "answer", k.event = calls[h].event
      PROVE  CallFits(k)'
  BY <1>1, <1>2, <1>3 DEF CallFits, EventFits, Crediting
<1>4. CASE InsertRow(h)
  <2> DEFINE row == Inserted(KindOf(h), calls[h].seen)
  <2>1. /\ payment[c] = <<>> /\ Goto(h, "answer")
        /\ payment' = [payment EXCEPT ![c] = Append(payment[c], row)]
        /\ UNCHANGED <<due, balance, entries, bought, monthly>>
    BY <1>4, <1>c DEF InsertRow, Insertable
  <2>2. PICK k \in Call : /\ calls' = [calls EXCEPT ![h] = k] /\ k.step = "answer"
                          /\ k.event = calls[h].event
    BY <1>0, <2>1, GotoFacts DEF Steps
  <2>3. row \in Row /\ row.paid = FALSE
    <3>1. KindOf(h) = "subscription" => calls[h].seen \in Status
      BY <1>0, <1>1, <1>c DEF CallFits, KindOf, Session
    <3> QED
      BY <3>1 DEF Inserted, Row, Status
  <2> HIDE DEF row
  <2>4. /\ payment' \in [Checkout -> Seq(Row)]
        /\ payment'[c] = <<row>> /\ \A x \in Checkout : x # c => payment'[x] = payment[x]
    <3>1. Append(payment[c], row) = <<row>>
      BY <2>1
    <3>2. <<row>> \in Seq(Row)
      BY <2>3
    <3> QED
      BY <1>1, <1>2, <2>1, <3>1, <3>2
  <2>5. Len(<<row>>) = 1 /\ <<row>> # <<>> /\ \A i \in DOMAIN <<row>> : ~<<row>>[i].paid
    BY <2>3
  <2>6. \A x \in Checkout : Paid(x)' = Paid(x)
    <3>1. ~Paid(c)
      BY <2>1 DEF Paid
    <3>2. ~Paid(c)'
      BY <2>4, <2>5 DEF Paid
    <3> QED
      BY <1>1, <2>4, <3>1, <3>2 DEF Paid
  <2>7. RowsFit'
    <3> SUFFICES ASSUME NEW x \in Checkout
                 PROVE  /\ Len(payment'[x]) <= 1
                        /\ payment'[x] # <<>> => kind'[x] # "none"
                        /\ Paid(x)' => <<x, 0>> \in invoices'
                        /\ bought'[x] > 0 => Paid(x)' /\ kind'[x] = "credits"
      BY DEF RowsFit
    <3>1. /\ Len(payment[x]) <= 1
          /\ payment[x] # <<>> => kind[x] # "none"
          /\ Paid(x) => <<x, 0>> \in invoices
          /\ bought[x] > 0 => Paid(x) /\ kind[x] = "credits"
      BY DEF StripeInv, RowsFit
    <3>2. Len(payment'[x]) <= 1 /\ (payment'[x] # <<>> => kind[x] # "none")
      <4>0. kind[c] # "none"
        BY <1>1 DEF Kinds
      <4>1. CASE x = c
        <5>1. Len(payment'[c]) = 1
          BY <2>4, <2>5
        <5> QED
          BY <4>0, <4>1, <5>1
      <4>2. CASE x # c
        BY <2>4, <3>1, <4>2
      <4> QED
        BY <4>1, <4>2
    <3> QED
      BY <1>2, <2>1, <2>6, <3>1, <3>2
  <2>8. CallFits(k)'
    BY <1>3, <2>2
  <2>9. \A x \in Checkout : payment[x] # <<>> => payment'[x] # <<>>
    BY <2>1, <2>4
  <2> QED
    BY <1>2, <2>1, <2>2, <2>4, <2>6, <2>7, <2>8, <2>9, HandlerKeeps
<1>5. CASE InsertDuplicate(h)
  <2>1. UNCHANGED <<due, payment, balance, entries, bought, monthly>>
    BY <1>5 DEF InsertDuplicate, Throws, dbVars
  <2>2. CASE Goto(h, "answer")
    <3>1. PICK k \in Call : /\ calls' = [calls EXCEPT ![h] = k] /\ k.step = "answer"
                            /\ k.event = calls[h].event
      BY <1>0, <2>2, GotoFacts DEF Steps
    <3>2. CallFits(k)'
      BY <1>3, <3>1
    <3> QED
      BY <1>2, <2>1, <3>1, <3>2, QuietKeeps
  <2>3. CASE calls' = [calls EXCEPT ![h] = Idle]
    BY <1>2, <2>1, <2>3, QuietKeeps
  <2> QED
    BY <1>5, <2>2, <2>3 DEF InsertDuplicate, Throws
<1> QED
  BY <1>4, <1>5

\* A step that changes the rows of one checkout, each on its own.
LEMMA RowsKeep ==
  ASSUME StripeInv, NEW h \in Handler, NEW c \in Checkout, NEW rows \in Seq(Row),
         payment' = [payment EXCEPT ![c] = rows], Len(rows) = Len(payment[c]),
         \A i \in DOMAIN rows : payment[c][i].paid => rows[i].paid,
         \A i \in DOMAIN rows : rows[i].paid => payment[c][i].paid \/ <<c, 0>> \in invoices,
         NEW k \in Call, calls' = [calls EXCEPT ![h] = k], CallFits(k)', Calm,
         UNCHANGED <<due, balance, entries, bought, monthly>>
  PROVE  StripeInv'
<1>1. /\ UNCHANGED <<kind, sub, invoices, sent>>
      /\ faults' \in 0 .. MaxFaults /\ calm' \in BOOLEAN
      /\ balance \in Nat /\ entries \in Nat /\ monthly \in [Gifts -> Nat]
      /\ bought \in [Checkout -> Nat] /\ due \in Seq(Event) /\ ToSet(due) \subseteq sent
      /\ payment \in [Checkout -> Seq(Row)]
  BY CalmTypes
<1>2. /\ payment' \in [Checkout -> Seq(Row)] /\ payment'[c] = rows
      /\ \A x \in Checkout : x # c => payment'[x] = payment[x]
  BY <1>1
<1>3. DOMAIN rows = DOMAIN payment[c] /\ (payment[c] = <<>> <=> rows = <<>>)
  BY <1>1
<1>4. ASSUME NEW x \in Checkout
      PROVE  /\ Paid(x) => Paid(x)'
             /\ Paid(x)' => Paid(x) \/ <<x, 0>> \in invoices
  <2>1. CASE x = c
    BY <1>2, <1>3, <2>1 DEF Paid
  <2>2. CASE x # c
    BY <1>2, <2>2 DEF Paid
  <2> QED
    BY <2>1, <2>2
<1>5. RowsFit'
  <2> SUFFICES ASSUME NEW x \in Checkout
               PROVE  /\ Len(payment'[x]) <= 1
                      /\ payment'[x] # <<>> => kind'[x] # "none"
                      /\ Paid(x)' => <<x, 0>> \in invoices'
                      /\ bought'[x] > 0 => Paid(x)' /\ kind'[x] = "credits"
    BY DEF RowsFit
  <2>1. /\ Len(payment[x]) <= 1
        /\ payment[x] # <<>> => kind[x] # "none"
        /\ Paid(x) => <<x, 0>> \in invoices
        /\ bought[x] > 0 => Paid(x) /\ kind[x] = "credits"
    BY DEF StripeInv, RowsFit
  <2>2. Len(payment'[x]) = Len(payment[x]) /\ (payment'[x] = <<>> <=> payment[x] = <<>>)
    BY <1>2, <1>3
  <2> QED
    BY <1>1, <1>4, <2>1, <2>2
<1>6. \A x \in Checkout : payment[x] # <<>> => payment'[x] # <<>>
  BY <1>2, <1>3
<1> QED
  BY <1>1, <1>2, <1>4, <1>5, <1>6, HandlerKeeps

\* The row of a paid invoice is marked.
LEMMA MarkKeeps ==
  ASSUME StripeInv, NEW h \in Handler, MarkPaid(h)
  PROVE  StripeInv'
<1>c. PICK c \in Checkout : c = Session(h)
  <2>1. calls[h] # Idle
    BY DEF MarkPaid, At
  <2> QED
    BY <2>1, Working
<1> DEFINE old == payment[c]
           row == Marked(Last(old), KindOf(h), calls[h].seen)
           rows == [old EXCEPT ![Len(old)] = row]
<1>0. calls[h] # Idle /\ calls[h].step = "mark" /\ Calm /\ Goto(h, "benefit")
      /\ payment' = [payment EXCEPT ![c] = rows]
      /\ UNCHANGED <<due, balance, entries, bought, monthly>>
  BY <1>c DEF MarkPaid, At
<1>1. /\ CallFits(calls[h]) /\ old \in Seq(Row) /\ calls[h].event \in Event
  BY <1>0, <1>c, Working
<1>2. /\ Type(h) = "paid" /\ old # <<>> /\ <<c, 0>> \in invoices
      /\ KindOf(h) = "subscription" => calls[h].seen \in Status
  <2>1. /\ Type(h) = "paid" /\ old # <<>> /\ <<c, calls[h].event.invoice>> \in invoices
        /\ KindOf(h) = "subscription" => calls[h].seen \in Status
    BY <1>0, <1>1, <1>c DEF CallFits, EventFits, Type, Session, KindOf, Crediting
  <2>2. <<c, calls[h].event.invoice>>[1] = c
    OBVIOUS
  <2> QED
    BY <2>1, <2>2 DEF StripeInv, StripeFits
<1>3. Len(old) \in 1 .. Len(old) /\ old[Len(old)] \in Row /\ Last(old) = old[Len(old)]
  BY <1>1, <1>2 DEF Last
<1>4. row \in Row /\ row.paid = TRUE
  BY <1>2, <1>3 DEF Marked, Row, Status
<1> HIDE DEF row
<1>5. /\ rows \in Seq(Row) /\ Len(rows) = Len(old) /\ rows[Len(old)] = row
      /\ \A i \in DOMAIN rows : i # Len(old) => rows[i] = old[i]
  BY <1>1, <1>3, <1>4
<1> HIDE DEF rows, old
<1>6. PICK k \in Call : /\ calls' = [calls EXCEPT ![h] = k] /\ k.step = "benefit"
                        /\ k.event = calls[h].event
  BY <1>0, GotoFacts DEF Steps
<1>7. payment' \in [Checkout -> Seq(Row)] /\ payment'[c] = rows
  BY <1>0, <1>1, <1>5 DEF StripeInv, Types
<1>8. CallFits(k)'
  <2>1. EventFits(k.event)'
    BY <1>0, <1>1, <1>6 DEF CallFits, EventFits, Calm, stripeVars
  <2>2. k.event.of = c /\ k.event.type = "paid"
    BY <1>2, <1>6, <1>c DEF Session, Type
  <2>3. Len(old) \in DOMAIN rows /\ rows # <<>>
    BY <1>3, <1>5
  <2>4. Paid(c)'
    BY <1>4, <1>5, <1>7, <2>3 DEF Paid
  <2> QED
    BY <1>6, <1>7, <2>1, <2>2, <2>3, <2>4 DEF CallFits, Crediting
<1>9. /\ \A i \in DOMAIN rows : old[i].paid => rows[i].paid
      /\ \A i \in DOMAIN rows : rows[i].paid => old[i].paid \/ <<c, 0>> \in invoices
  BY <1>2, <1>4, <1>5
<1> QED
  BY <1>0, <1>1, <1>5, <1>6, <1>8, <1>9, RowsKeep DEF old

\* The rows of a subscription take the status it was given.
LEMMA SubscriptionChangedKeeps ==
  ASSUME StripeInv, NEW h \in Handler, SubscriptionChanged(h)
  PROVE  StripeInv'
<1>c. PICK c \in Checkout : c = Session(h)
  <2>1. calls[h] # Idle
    BY DEF SubscriptionChanged, At
  <2> QED
    BY <2>1, Working
<1> DEFINE old == payment[c]
           s == calls[h].event.status
           rows == [i \in DOMAIN old |-> [old[i] EXCEPT !.status = s]]
<1>0. calls[h] # Idle /\ calls[h].step = "start" /\ Calm /\ Goto(h, "answer")
      /\ payment' = [payment EXCEPT ![c] = rows]
      /\ UNCHANGED <<due, balance, entries, bought, monthly>>
      /\ Type(h) \in {"updated", "deleted"}
  BY <1>c DEF SubscriptionChanged, At
<1>1. /\ CallFits(calls[h]) /\ old \in Seq(Row)
  BY <1>0, <1>c, Working
<1>2. s \in Status
  BY <1>0, <1>1 DEF CallFits, EventFits, Type, Status
<1> HIDE DEF s
<1>3. ASSUME NEW i \in 1 .. Len(old)
      PROVE  /\ [old[i] EXCEPT !.status = s] \in Row
             /\ [old[i] EXCEPT !.status = s].paid = old[i].paid
  <2>1. PICK row \in Row : row = old[i]
    BY <1>1
  <2>2. [row EXCEPT !.status = s] \in Row /\ [row EXCEPT !.status = s].paid = row.paid
    BY <1>2 DEF Row
  <2> QED
    BY <2>1, <2>2
<1>4. DOMAIN old = 1 .. Len(old) /\ Len(old) \in Nat
  BY <1>1
<1>5. /\ rows \in [1 .. Len(old) -> Row]
      /\ \A i \in 1 .. Len(old) : rows[i].paid = old[i].paid
  BY <1>3, <1>4
<1> HIDE DEF rows
<1>6. rows \in Seq(Row) /\ Len(rows) = Len(old) /\ DOMAIN rows = 1 .. Len(old)
  BY <1>4, <1>5
<1>7. PICK k \in Call : /\ calls' = [calls EXCEPT ![h] = k] /\ k.step = "answer"
                        /\ k.event = calls[h].event
  BY <1>0, GotoFacts DEF Steps
<1>8. CallFits(k)'
  BY <1>0, <1>1, <1>7 DEF CallFits, EventFits, Calm, stripeVars, Crediting
<1> QED
  BY <1>0, <1>1, <1>5, <1>6, <1>7, <1>8, RowsKeep

\* The credits of a payment.
LEMMA CreditKeeps ==
  ASSUME StripeInv, NEW h \in Handler, ReadBalance(h) \/ WriteBalance(h) \/ WriteLedger(h)
  PROVE  StripeInv'
<1>0. calls[h] # Idle /\ Calm /\ calls[h].step \in Crediting /\ UNCHANGED <<due, payment>>
  BY DEF ReadBalance, WriteBalance, WriteLedger, At, Crediting, dbVars
<1>c. PICK c \in Checkout : c = Session(h)
  BY <1>0, Working
<1>1. CallFits(calls[h]) /\ kind[c] \in Kinds /\ calls[h] \in Call /\ Paid(c)
  BY <1>0, <1>c, Working DEF CallFits, Session
<1>2. /\ UNCHANGED <<kind, sub, invoices, sent, faults, calm>>
      /\ faults' \in 0 .. MaxFaults /\ calm' \in BOOLEAN
      /\ balance \in Nat /\ entries \in Nat /\ monthly \in [Gifts -> Nat]
      /\ bought \in [Checkout -> Nat] /\ due \in Seq(Event) /\ ToSet(due) \subseteq sent
      /\ payment \in [Checkout -> Seq(Row)]
  BY <1>0, CalmTypes
<1>3. ASSUME NEW k \in Call, k.step \in {"write", "ledger", "answer"}, k.event = calls[h].event
      PROVE  CallFits(k)'
  BY <1>0, <1>1, <1>2, <1>3, <1>c DEF CallFits, EventFits, Crediting, Paid
<1>4. CASE ReadBalance(h)
  <2>1. PICK k \in Call : k = [calls[h] EXCEPT !.step = "write", !.read = balance]
                          /\ k.step = "write" /\ k.event = calls[h].event
    <3>1. PICK now \in Call : now = calls[h]
      BY <1>1
    <3>2. PICK b \in Nat : b = balance
      BY <1>2
    <3>3. [now EXCEPT !.step = "write", !.read = b] \in Call
      BY DEF Call
    <3>4. /\ [now EXCEPT !.step = "write", !.read = b].step = "write"
          /\ [now EXCEPT !.step = "write", !.read = b].event = now.event
      BY DEF Call
    <3> QED
      BY <3>1, <3>2, <3>3, <3>4
  <2>2. /\ calls' = [calls EXCEPT ![h] = k]
        /\ UNCHANGED <<payment, balance, entries, bought, monthly>>
    BY <1>1, <1>4, <2>1 DEF ReadBalance, dbVars, StripeInv, Types, TypeOK
  <2>3. CallFits(k)'
    BY <1>3, <2>1
  <2> QED
    BY <1>0, <1>2, <2>1, <2>2, <2>3, QuietKeeps
<1>5. CASE WriteBalance(h)
  <2>1. /\ Goto(h, "ledger") /\ balance' = calls[h].read + 1
        /\ UNCHANGED <<entries, bought, monthly>>
    BY <1>5 DEF WriteBalance
  <2>2. PICK k \in Call : /\ calls' = [calls EXCEPT ![h] = k] /\ k.step = "ledger"
                          /\ k.event = calls[h].event
    BY <1>0, <2>1, GotoFacts DEF Steps
  <2>3. balance' \in Nat
    BY <1>1, <2>1 DEF Call
  <2>4. CallFits(k)'
    BY <1>3, <2>2
  <2> QED
    BY <1>0, <1>2, <2>1, <2>2, <2>3, <2>4, QuietKeeps
<1>6. CASE WriteLedger(h)
  <2>1. /\ Goto(h, "answer") /\ entries' = entries + 1 /\ balance' = balance
        /\ \/ /\ KindOf(h) = "credits"
              /\ bought' = [bought EXCEPT ![c] = bought[c] + 1] /\ UNCHANGED monthly
           \/ /\ UNCHANGED bought
              /\ monthly' = [monthly EXCEPT ![GiftOf(KindOf(h))] = monthly[GiftOf(KindOf(h))] + 1]
    BY <1>6, <1>c DEF WriteLedger
  <2>2. PICK k \in Call : /\ calls' = [calls EXCEPT ![h] = k] /\ k.step = "answer"
                          /\ k.event = calls[h].event
    BY <1>0, <2>1, GotoFacts DEF Steps
  <2>3. CallFits(k)'
    BY <1>3, <2>2
  <2>4. bought' \in [Checkout -> Nat] /\ monthly' \in [Gifts -> Nat] /\ entries' \in Nat
    <3>1. GiftOf(KindOf(h)) \in Gifts
      BY DEF GiftOf, Gifts
    <3>2. entries' \in Nat
      BY <1>2, <2>1
    <3>3. bought[c] + 1 \in Nat /\ monthly[GiftOf(KindOf(h))] + 1 \in Nat
      BY <1>2, <3>1
    <3>4. \/ bought' = bought
          \/ \E n \in Nat : bought' = [bought EXCEPT ![c] = n]
      BY <2>1, <3>3
    <3>5. \/ monthly' = monthly
          \/ \E n \in Nat : monthly' = [monthly EXCEPT ![GiftOf(KindOf(h))] = n]
      BY <2>1, <3>3
    <3>6. bought' \in [Checkout -> Nat]
      BY <1>2, <3>4
    <3>7. monthly' \in [Gifts -> Nat]
      BY <1>2, <3>1, <3>5
    <3> QED
      BY <3>2, <3>6, <3>7
  <2>5. \A x \in Checkout : bought'[x] > 0 => bought[x] > 0 \/ (x = c /\ kind[c] = "credits")
    <3>1. KindOf(h) = kind[c]
      BY <1>c DEF KindOf
    <3>2. \A x \in Checkout : x # c => bought'[x] = bought[x]
      BY <1>2, <2>1
    <3>3. bought'[c] = bought[c] \/ kind[c] = "credits"
      BY <2>1, <3>1
    <3> QED
      BY <3>2, <3>3
  <2>6. RowsFit' /\ \A x \in Checkout : Paid(x) => Paid(x)'
    BY <1>0, <1>1, <1>2, <2>5 DEF StripeInv, RowsFit, Paid
  <2> QED
    BY <1>0, <1>2, <2>1, <2>2, <2>3, <2>4, <2>6, HandlerKeeps
<1> QED
  BY <1>4, <1>5, <1>6

-----------------------------------------------------------------------------
(* The theorems *)

\* Nothing is sold, delivered or recorded at first.
LEMMA StripeInit == Init => StripeInv
<1> SUFFICES ASSUME Init PROVE StripeInv
  OBVIOUS
<1>1. Types
  <2>1. ToSet(due) = {}
    BY DEF Init, ToSet
  <2>2. payment \in [Checkout -> Seq(Row)] /\ \A c \in Checkout : DOMAIN payment[c] = {}
    BY DEF Init
  <2>3. due \in Seq(Event) /\ MaxFaults \in Nat
    BY PaymentsAssumption DEF Init
  <2> QED
    BY <2>1, <2>2, <2>3 DEF Init, Types, TypeOK
<1>2. StripeFits /\ EventsFit /\ CallsFit
  BY DEF Init, StripeFits, EventsFit, CallsFit, Kinds
<1>3. RowsFit
  <2>1. \A c \in Checkout : payment[c] = <<>> /\ bought[c] = 0
    BY DEF Init
  <2>2. Len(<<>>) = 0 /\ DOMAIN <<>> = {}
    OBVIOUS
  <2>3. \A c \in Checkout : ~Paid(c)
    BY <2>1, <2>2 DEF Paid
  <2> QED
    BY <2>1, <2>2, <2>3 DEF RowsFit
<1> QED
  BY <1>1, <1>2, <1>3 DEF StripeInv

\* Every step of Stripe, of its deliveries and of the handlers keeps StripeInv.
LEMMA StripeStep == StripeInv /\ [Next]_vars => StripeInv'
<1> SUFFICES ASSUME StripeInv, [Next]_vars PROVE StripeInv'
  OBVIOUS
<1>1. ASSUME NEW c \in Checkout,
             \/ \E k \in Kinds : Complete(c, k)
             \/ Pay(c) \/ \E n \in 1 .. MaxInvoice : Renew(c, n)
             \/ \E s \in {"past_due", "canceled"} : SubChanges(c, s)
      PROVE  StripeInv'
  BY <1>1, CompleteKeeps, PayKeeps, RenewKeeps, SubChangesKeeps
<1>2. ASSUME NEW e \in ToSet(due), NEW h \in Handler, Deliver(e, h)
      PROVE  StripeInv'
  BY <1>2, DeliverKeeps
<1>3. ASSUME NEW e \in sent, Repeat(e)
      PROVE  StripeInv'
  BY <1>3, RepeatKeeps
<1>4. ASSUME NEW h \in Handler, HandlerStep(h)
      PROVE  StripeInv'
  BY <1>4, LookupKeeps, InsertKeeps, MarkKeeps, CreditKeeps, SubscriptionChangedKeeps,
     AnswerKeeps DEF HandlerStep
<1>5. ASSUME NEW h \in Handler, Broken(h)
      PROVE  StripeInv'
  BY <1>5, BrokenKeeps
<1>6. CASE UNCHANGED vars
  <2>1. UNCHANGED <<kind, sub, invoices, sent, due, calls, payment, balance, entries, bought,
                    monthly, faults, calm>>
    BY <1>6 DEF vars, stripeVars, dbVars
  <2>2. Types'
    BY <2>1 DEF StripeInv, Types, TypeOK
  <2>3. StripeFits' /\ EventsFit' /\ CallsFit'
    BY <2>1 DEF StripeInv, StripeFits, EventsFit, EventFits, CallsFit, CallFits, Paid
  <2>4. RowsFit'
    BY <2>1 DEF StripeInv, RowsFit, Paid
  <2> QED
    BY <2>2, <2>3, <2>4 DEF StripeInv
<1> QED
  BY <1>1, <1>2, <1>3, <1>4, <1>5, <1>6 DEF Next

\* Rows, deliveries and handlers fit what Stripe has collected, whatever is
\* late, repeated, in another order or broken off.
THEOREM StripeInvariant == Spec => []StripeInv
<1> QED
  BY StripeInit, StripeStep, PTL DEF Spec

\* Every reachable state has the types the code gives it.
THEOREM StripeTypes == Spec => []TypeOK
<1>1. StripeInv => TypeOK
  BY DEF StripeInv, Types
<1> QED
  BY <1>1, StripeInvariant, PTL

\* A row is paid when Stripe has collected an invoice of its checkout, and
\* nobody is credited before.
THEOREM OnlyCollectedIsPaid == Spec => []PaidIsCollected
<1>1. StripeInv => PaidIsCollected
  BY DEF StripeInv, RowsFit, PaidIsCollected
<1> QED
  BY <1>1, StripeInvariant, PTL

-----------------------------------------------------------------------------
(* What is acknowledged *)

\* Rows, payments and credits are never taken back.
BooksGrow ==
  /\ Grows
  /\ \A c \in Checkout : /\ payment[c] # <<>> => payment'[c] # <<>>
                         /\ Paid(c) => Paid(c)'
                         /\ bought[c] > 0 => bought'[c] > 0

\* A handler answers when its event is done.
AnswersDone == \A h \in Handler : At(h, "answer") => Done(calls[h].event)

LEMMA SameBooks ==
  ASSUME Grows, UNCHANGED <<payment, bought>>
  PROVE  BooksGrow
BY DEF BooksGrow, Paid

LEMMA InsertGrows ==
  ASSUME StripeInv, NEW h \in Handler, InsertRow(h)
  PROVE  BooksGrow /\ payment'[Session(h)] # <<>>
<1>c. PICK c \in Checkout : c = Session(h)
  <2>1. calls[h] # Idle
    BY DEF InsertRow, At
  <2> QED BY <2>1, Working
<1> DEFINE row == Inserted(KindOf(h), calls[h].seen)
<1>1. /\ payment[c] = <<>> /\ payment' = [payment EXCEPT ![c] = Append(payment[c], row)]
      /\ UNCHANGED <<kind, invoices, bought>>
  BY <1>c DEF InsertRow, Insertable, Calm, stripeVars
<1> HIDE DEF row
<1>2. payment'[c] = <<row>> /\ \A x \in Checkout : x # c => payment'[x] = payment[x]
  <2>1. Append(payment[c], row) = <<row>>
    BY <1>1
  <2>2. payment \in [Checkout -> Seq(Row)]
    BY DEF StripeInv, Types
  <2> QED BY <1>1, <2>1, <2>2
<1>3. ~Paid(c) /\ <<row>> # <<>>
  BY <1>1 DEF Paid
<1> QED BY <1>c, <1>1, <1>2, <1>3 DEF BooksGrow, Grows, Paid

LEMMA MarkGrows ==
  ASSUME StripeInv, NEW h \in Handler, MarkPaid(h)
  PROVE  BooksGrow
<1>0. calls[h] # Idle /\ calls[h].step = "mark"
  BY DEF MarkPaid, At
<1>c. PICK c \in Checkout : c = Session(h)
  BY <1>0, Working
<1> DEFINE old == payment[c]
           row == Marked(Last(old), KindOf(h), calls[h].seen)
<1>1. old \in Seq(Row) /\ old # <<>> /\ payment \in [Checkout -> Seq(Row)]
  BY <1>0, <1>c, Working DEF CallFits, Crediting, Session, StripeInv, Types
<1>2. /\ payment' = [payment EXCEPT ![c] = [old EXCEPT ![Len(old)] = row]]
      /\ UNCHANGED <<kind, invoices, bought>>
  BY <1>c DEF MarkPaid, Calm, stripeVars
<1>3. Last(old) = old[Len(old)] /\ Len(old) \in DOMAIN old /\ old[Len(old)] \in Row
  BY <1>1 DEF Last
<1>4. row.paid = TRUE
  BY <1>3 DEF Marked, Row
<1> HIDE DEF row, old
<1>5. payment'[c] = [old EXCEPT ![Len(old)] = row] /\ \A x \in Checkout : x # c => payment'[x] = payment[x]
  BY <1>1, <1>2
<1>6. DOMAIN payment'[c] = DOMAIN old /\ payment'[c][Len(old)] = row
  BY <1>3, <1>5
<1>7. Paid(c)' /\ payment'[c] # <<>>
  BY <1>3, <1>4, <1>6 DEF Paid
<1> QED BY <1>2, <1>5, <1>7 DEF BooksGrow, Grows, Paid

LEMMA ChangedGrows ==
  ASSUME StripeInv, NEW h \in Handler, SubscriptionChanged(h)
  PROVE  BooksGrow
<1>0. calls[h] # Idle
  BY DEF SubscriptionChanged, At
<1>c. PICK c \in Checkout : c = Session(h)
  BY <1>0, Working
<1> DEFINE old == payment[c]
           s == calls[h].event.status
           rows == [i \in DOMAIN old |-> [old[i] EXCEPT !.status = s]]
<1>1. old \in Seq(Row) /\ payment \in [Checkout -> Seq(Row)]
  BY DEF StripeInv, Types
<1>2. payment' = [payment EXCEPT ![c] = rows] /\ UNCHANGED <<kind, invoices, bought>>
  BY <1>c DEF SubscriptionChanged, Calm, stripeVars
<1>3. DOMAIN rows = DOMAIN old /\ \A i \in DOMAIN old : rows[i].paid = old[i].paid
  BY <1>1 DEF Row
<1> HIDE DEF rows
<1>4. payment'[c] = rows /\ \A x \in Checkout : x # c => payment'[x] = payment[x]
  BY <1>1, <1>2
<1>5. old # <<>> => rows # <<>>
  BY <1>1, <1>3
<1>6. \A x \in Checkout : Paid(x) => Paid(x)'
  <2> SUFFICES ASSUME NEW x \in Checkout, Paid(x) PROVE Paid(x)'
    OBVIOUS
  <2>1. CASE x = c
    BY <1>3, <1>4, <2>1 DEF Paid
  <2>2. CASE x # c
    BY <1>4, <2>2 DEF Paid
  <2> QED BY <2>1, <2>2
<1> QED BY <1>2, <1>4, <1>5, <1>6 DEF BooksGrow, Grows

LEMMA LedgerGrows ==
  ASSUME StripeInv, NEW h \in Handler, WriteLedger(h)
  PROVE  BooksGrow /\ (KindOf(h) = "credits" => bought'[Session(h)] > 0)
<1>c. PICK c \in Checkout : c = Session(h)
  <2>1. calls[h] # Idle
    BY DEF WriteLedger, At
  <2> QED BY <2>1, Working
<1>1. bought \in [Checkout -> Nat]
  BY DEF StripeInv, Types, TypeOK
<1>2. UNCHANGED <<kind, invoices, payment>>
  BY DEF WriteLedger, Calm, stripeVars
<1>3. CASE KindOf(h) = "credits"
  <2>1. bought' = [bought EXCEPT ![c] = bought[c] + 1]
    BY <1>c, <1>3 DEF WriteLedger
  <2>2. bought[c] + 1 > 0 /\ \A x \in Checkout : x # c => bought'[x] = bought[x]
    BY <1>1, <2>1
  <2>3. bought'[c] = bought[c] + 1
    BY <1>1, <2>1
  <2> QED BY <1>c, <1>2, <2>2, <2>3 DEF BooksGrow, Grows, Paid
<1>4. CASE KindOf(h) # "credits"
  <2>1. UNCHANGED bought
    BY <1>4 DEF WriteLedger
  <2> QED BY <1>2, <1>4, <2>1, SameBooks DEF Grows
<1> QED BY <1>3, <1>4

LEMMA BooksStep ==
  ASSUME StripeInv, [Next]_vars
  PROVE  BooksGrow
<1>1. ASSUME NEW c \in Checkout,
             \/ \E k \in Kinds : Complete(c, k)
             \/ Pay(c) \/ \E n \in 1 .. MaxInvoice : Renew(c, n)
             \/ \E s \in {"past_due", "canceled"} : SubChanges(c, s)
      PROVE  BooksGrow
  <2>1. Grows
    BY <1>1, CompleteKeeps, PayKeeps, RenewKeeps DEF SubChanges, Grows
  <2>2. UNCHANGED <<payment, bought>>
    BY <1>1 DEF Complete, Pay, Renew, SubChanges, StripeOnly, dbVars
  <2> QED BY <2>1, <2>2, SameBooks
<1>2. CASE UNCHANGED <<kind, invoices, payment, bought>>
  BY <1>2, SameBooks DEF Grows
<1>3. ASSUME NEW h \in Handler, HandlerStep(h)
      PROVE  BooksGrow
  <2>1. CASE InsertRow(h) \/ MarkPaid(h) \/ SubscriptionChanged(h) \/ WriteLedger(h)
    BY <2>1, InsertGrows, MarkGrows, ChangedGrows, LedgerGrows
  <2>2. CASE ~(InsertRow(h) \/ MarkPaid(h) \/ SubscriptionChanged(h) \/ WriteLedger(h))
    <3>1. UNCHANGED <<kind, invoices, payment, bought>>
      BY <1>3, <2>2 DEF HandlerStep, CheckoutCompleted, InsertDuplicate, InvoicePaid,
         InvoiceUnknown, NoBenefit, ReadBalance, WriteBalance, Answer, Throws, Calm,
         stripeVars, dbVars
    <3> QED BY <1>2, <3>1
  <2> QED BY <2>1, <2>2
<1>4. ASSUME \/ \E e \in ToSet(due), h \in Handler : Deliver(e, h)
             \/ \E e \in sent : Repeat(e)
             \/ \E h \in Handler : Broken(h)
             \/ UNCHANGED vars
      PROVE  BooksGrow
  <2>1. UNCHANGED <<kind, invoices, payment, bought>>
    BY <1>4 DEF Deliver, Repeat, Broken, Throws, vars, stripeVars, dbVars
  <2> QED BY <1>2, <2>1
<1> QED BY <1>1, <1>3, <1>4 DEF Next

\* What is done stays done.
LEMMA DoneLasts ==
  ASSUME NEW e \in Event, EventFits(e), Done(e), BooksGrow
  PROVE  Done(e)'
<1>1. e.of \in Checkout /\ kind[e.of] # "none"
  BY DEF Event, EventFits
<1> QED BY <1>1 DEF Done, BooksGrow, Grows

\* An answer takes no other event out of the queue.
LEMMA OthersStay ==
  ASSUME NEW e, due \in Seq(Event), Answered(e)
  PROVE  ToSet(due) \subseteq ToSet(due') \cup {e}
<1>1. ASSUME NEW i \in DOMAIN due, due[i] = e, due' = RemoveAt(due, i)
      PROVE  ToSet(due) \subseteq ToSet(due') \cup {e}
  <2>1. /\ due' \in Seq(Event) /\ Len(due') = Len(due) - 1
        /\ \A k \in 1 .. Len(due') : due'[k] = IF k < i THEN due[k] ELSE due[k + 1]
    BY <1>1, RemoveAtFacts
  <2>2. Len(due) \in Nat /\ DOMAIN due = 1 .. Len(due) /\ DOMAIN due' = 1 .. Len(due')
    BY <2>1
  <2>3. ASSUME NEW j \in DOMAIN due, j # i
        PROVE  \E k \in DOMAIN due' : due'[k] = due[j]
    <3>1. CASE j < i
      <4>1. j \in DOMAIN due'
        BY <2>1, <2>2, <3>1
      <4> QED BY <2>1, <2>2, <3>1, <4>1
    <3>2. CASE j > i
      <4>1. j - 1 \in DOMAIN due' /\ ~(j - 1 < i) /\ (j - 1) + 1 = j
        BY <2>1, <2>2, <3>2
      <4> QED BY <2>1, <2>2, <4>1
    <3> QED BY <2>2, <2>3, <3>1, <3>2
  <2> QED BY <1>1, <2>3 DEF ToSet
<1> QED BY <1>1 DEF Answered

\* A handler that has come to its answer has done what its event asks for.
LEMMA AnswersStep ==
  ASSUME StripeInv, AnswersDone, [Next]_vars
  PROVE  AnswersDone'
<1> SUFFICES ASSUME NEW h \in Handler, At(h, "answer")'
             PROVE  Done(calls[h].event)'
  BY DEF AnswersDone
<1>0. BooksGrow /\ calls \in [Handler -> Call \cup {Idle}]
  BY BooksStep DEF StripeInv, Types, TypeOK
<1>1. CASE calls'[h] = calls[h]
  <2>1. At(h, "answer") /\ calls[h] # Idle
    BY <1>1 DEF At
  <2>2. Done(calls[h].event) /\ calls[h].event \in Event /\ EventFits(calls[h].event)
    BY <2>1, Working DEF AnswersDone, CallFits
  <2> QED BY <1>0, <1>1, <2>2, DoneLasts
<1>2. ASSUME HandlerStep(h), At(h, "answer")' PROVE Done(calls[h].event)'
  <2>0. calls[h] # Idle
    BY <1>2 DEF HandlerStep, CheckoutCompleted, InsertRow, InsertDuplicate, InvoicePaid,
       InvoiceUnknown, MarkPaid, NoBenefit, ReadBalance, WriteBalance, WriteLedger,
       SubscriptionChanged, Answer, At
  <2>c. PICK c \in Checkout : c = Session(h) /\ kind[c] \in Kinds
    BY <2>0, Working
  <2>1. CallFits(calls[h]) /\ calls[h] \in Call /\ kind'[c] = kind[c]
    BY <1>0, <2>0, <2>c, Working DEF BooksGrow, Grows, Kinds
  <2>2. ASSUME Goto(h, "answer") PROVE calls'[h].event = calls[h].event
    <3>1. PICK k \in Call : calls' = [calls EXCEPT ![h] = k] /\ k.event = calls[h].event
      BY <2>0, <2>2, GotoFacts DEF Steps
    <3> QED BY <1>0, <3>1
  <2>3. CASE InsertRow(h)
    <3>1. Type(h) = "completed" /\ Goto(h, "answer") /\ payment'[c] # <<>>
      BY <2>1, <2>3, <2>c, InsertGrows DEF InsertRow, At, CallFits, Type
    <3> QED BY <2>2, <2>c, <3>1 DEF Done, Type, Session
  <2>4. CASE InsertDuplicate(h)
    <3>1. Type(h) = "completed" /\ payment[c] # <<>> /\ payment' = payment
      BY <2>1, <2>4, <2>c DEF InsertDuplicate, Insertable, At, CallFits, Type, Throws, dbVars
    <3>2. Goto(h, "answer")
      BY <1>0, <1>2, <2>4 DEF InsertDuplicate, Throws, At
    <3> QED BY <2>2, <2>c, <3>1, <3>2 DEF Done, Type, Session
  <2>5. CASE NoBenefit(h)
    <3>1. Type(h) = "paid" /\ Paid(c) /\ kind[c] # "credits" /\ Goto(h, "answer")
      BY <2>1, <2>5, <2>c DEF NoBenefit, At, CallFits, Crediting, Type, Session, KindOf, Earns
    <3>2. Paid(c)'
      BY <1>0, <3>1 DEF BooksGrow
    <3> QED BY <2>1, <2>2, <2>c, <3>1, <3>2 DEF Done, Type, Session
  <2>6. CASE WriteLedger(h)
    <3>1. Type(h) = "paid" /\ Paid(c) /\ Goto(h, "answer")
          /\ (kind[c] = "credits" => bought'[c] > 0)
      BY <2>1, <2>6, <2>c, LedgerGrows
         DEF WriteLedger, At, CallFits, Crediting, Type, Session, KindOf
    <3>2. Paid(c)'
      BY <1>0, <3>1 DEF BooksGrow
    <3> QED BY <2>1, <2>2, <2>c, <3>1, <3>2 DEF Done, Type, Session
  <2>7. CASE SubscriptionChanged(h)
    <3>1. Type(h) \in {"updated", "deleted"} /\ Goto(h, "answer")
      BY <2>7 DEF SubscriptionChanged
    <3> QED BY <2>2, <3>1 DEF Done, Type
  <2>8. CASE CheckoutCompleted(h) \/ InvoicePaid(h) \/ InvoiceUnknown(h) \/ MarkPaid(h)
               \/ ReadBalance(h) \/ WriteBalance(h) \/ Answer(h)
    <3>1. \E step \in {"insert", "mark", "benefit", "write", "ledger"} :
            calls'[h] = Idle \/ calls'[h].step = step
      BY <1>0, <2>0, <2>1, <2>8, SeeFacts, GotoFacts DEF CheckoutCompleted, InvoicePaid,
         InvoiceUnknown, MarkPaid, ReadBalance, WriteBalance, Answer, Throws, Steps, Call
    <3> QED BY <1>2, <3>1 DEF At
  <2> QED BY <1>2, <2>3, <2>4, <2>5, <2>6, <2>7, <2>8 DEF HandlerStep
<1>3. ASSUME NEW g \in Handler, g # h, HandlerStep(g) \/ Broken(g)
      PROVE  calls'[h] = calls[h]
  BY <1>0, <1>3 DEF HandlerStep, CheckoutCompleted, InsertRow, InsertDuplicate, InvoicePaid,
     InvoiceUnknown, MarkPaid, NoBenefit, ReadBalance, WriteBalance, WriteLedger,
     SubscriptionChanged, Answer, Broken, Throws, See, Goto
<1>4. CASE Broken(h)
  BY <1>0, <1>4 DEF Broken, Throws, At
<1>5. ASSUME NEW e, NEW g \in Handler, Deliver(e, g)
      PROVE  calls'[h] = calls[h]
  <2>1. CASE g = h
    BY <1>0, <1>5, <2>1 DEF Deliver, At
  <2>2. CASE g # h
    BY <1>0, <1>5, <2>2 DEF Deliver
  <2> QED BY <2>1, <2>2
<1>6. CASE UNCHANGED calls
  BY <1>1, <1>6
<1>7. \/ UNCHANGED calls
      \/ \E g \in Handler : HandlerStep(g) \/ Broken(g)
      \/ \E g \in Handler : \E e \in ToSet(due) : Deliver(e, g)
  BY DEF Next, Complete, Pay, Renew, SubChanges, StripeOnly, Repeat, vars
<1> QED BY <1>1, <1>2, <1>3, <1>4, <1>5, <1>6, <1>7

\* An event leaves the queue only by the answer of a handler that did it.
LEMMA AcknowledgedStep ==
  ASSUME StripeInv, AcknowledgedIsDone, AnswersDone, [Next]_vars
  PROVE  AcknowledgedIsDone'
<1>0. BooksGrow /\ due \in Seq(Event) /\ sent \subseteq Event
      /\ \A e \in sent : EventFits(e)
  BY BooksStep DEF StripeInv, Types, TypeOK, EventsFit
<1>1. \A e \in sent : Done(e) => Done(e)'
  BY <1>0, DoneLasts
<1>2. ASSUME ToSet(due) \subseteq ToSet(due'), sent' \subseteq sent \cup ToSet(due')
      PROVE  AcknowledgedIsDone'
  BY <1>1, <1>2 DEF AcknowledgedIsDone, Pending
<1>3. ASSUME NEW e \in Event, NEW before \in {sent, {}}, Happens(e, before)
      PROVE  AcknowledgedIsDone'
  <2>1. ToSet(due') = ToSet(due) \cup {e} /\ sent' = before \cup {e}
    BY <1>0, <1>3, HappensFacts DEF Happens
  <2> QED BY <1>2, <2>1
<1>4. ASSUME NEW c \in Checkout,
             \/ \E k \in Kinds : Complete(c, k)
             \/ Pay(c) \/ \E n \in 1 .. MaxInvoice : Renew(c, n)
             \/ \E s \in {"past_due", "canceled"} : SubChanges(c, s)
      PROVE  AcknowledgedIsDone'
  <2>1. \E e, before : before \in {sent, {}} /\ Happens(e, before)
          /\ e \in {Of("completed", c, "none", 0)}
                    \cup {Of("paid", c, "none", n) : n \in 0 .. MaxInvoice}
                    \cup {Of(t, c, s, 0) : t \in {"updated", "deleted"},
                                          s \in {"past_due", "canceled"}}
    <3>1. 0 \in 0 .. MaxInvoice /\ \A n \in 1 .. MaxInvoice : n \in 0 .. MaxInvoice
      BY PaymentsAssumption
    <3>2. CASE \E k \in Kinds : Complete(c, k)
      BY <3>2 DEF Complete
    <3>3. CASE Pay(c) \/ \E n \in 1 .. MaxInvoice : Renew(c, n)
      <4>1. \E n \in 0 .. MaxInvoice, before \in {sent, {}} :
              Happens(Of("paid", c, "none", n), before)
        BY <3>1, <3>3 DEF Pay, Renew, Collected
      <4> QED BY <4>1
    <3>4. CASE \E s \in {"past_due", "canceled"} : SubChanges(c, s)
      BY <3>4 DEF SubChanges
    <3> QED BY <1>4, <3>2, <3>3, <3>4
  <2>2. /\ Of("completed", c, "none", 0) \in Event
        /\ \A n \in 0 .. MaxInvoice : Of("paid", c, "none", n) \in Event
        /\ \A t \in {"updated", "deleted"}, s \in {"past_due", "canceled"} :
             Of(t, c, s, 0) \in Event
    BY PaymentsAssumption DEF Of, Event, Status
  <2> QED BY <1>3, <2>1, <2>2
<1>5. ASSUME NEW e \in sent, Repeat(e) PROVE AcknowledgedIsDone'
  <2>1. Happens(e, sent) /\ e \in Event
    BY <1>0, <1>5 DEF Repeat, Happens, stripeVars
  <2> QED BY <1>3, <2>1
<1>6. ASSUME NEW h \in Handler, Answer(h) PROVE AcknowledgedIsDone'
  <2>1. Done(calls[h].event) /\ Answered(calls[h].event) /\ UNCHANGED sent
    BY <1>6 DEF AnswersDone, Answer, Calm
  <2>2. ToSet(due) \subseteq ToSet(due') \cup {calls[h].event}
    BY <1>0, <2>1, OthersStay
  <2> QED BY <1>1, <2>1, <2>2 DEF AcknowledgedIsDone, Pending
<1>7. CASE UNCHANGED <<sent, due>>
  BY <1>2, <1>7
<1>8. \/ UNCHANGED <<sent, due>>
      \/ \E c \in Checkout :
           \/ \E k \in Kinds : Complete(c, k)
           \/ Pay(c) \/ \E n \in 1 .. MaxInvoice : Renew(c, n)
           \/ \E s \in {"past_due", "canceled"} : SubChanges(c, s)
      \/ \E e \in sent : Repeat(e)
      \/ \E h \in Handler : Answer(h)
  BY DEF Next, Deliver, Broken, HandlerStep, CheckoutCompleted, InsertRow, InsertDuplicate,
     InvoicePaid, InvoiceUnknown, MarkPaid, NoBenefit, ReadBalance, WriteBalance,
     WriteLedger, SubscriptionChanged, Throws, Calm, vars
<1> QED BY <1>4, <1>5, <1>6, <1>7, <1>8

LEMMA NothingSent == Init => AcknowledgedIsDone /\ AnswersDone
BY DEF Init, AcknowledgedIsDone, AnswersDone, At

\* No event is answered before what it reports is recorded, for any checkouts,
\* handlers, failures and repeated deliveries: what Stripe does not send again
\* has its row, its payment and its credits.
THEOREM AcknowledgedEventsDone == Spec => []AcknowledgedIsDone
<1>1. StripeInv /\ AcknowledgedIsDone /\ AnswersDone /\ [Next]_vars
        => AcknowledgedIsDone' /\ AnswersDone'
  BY AcknowledgedStep, AnswersStep
<1> QED BY <1>1, NothingSent, StripeInvariant, PTL DEF Spec

-----------------------------------------------------------------------------
(* Calm behaviours: what Stripe adds to the queue *)

\* Nothing is known of a checkout that is not completed.
LEMMA NothingYet ==
  ASSUME StripeInv, NEW c \in Checkout, kind[c] = "none"
  PROVE  /\ payment[c] = <<>> /\ bought[c] = 0 /\ <<c, 0>> \notin invoices
         /\ \A i \in DOMAIN due : due[i].of # c
<1>1. /\ payment[c] = <<>> /\ bought[c] = 0
  <2>1. bought[c] \in Nat
    BY DEF StripeInv, Types, TypeOK
  <2>2. ~(bought[c] > 0) /\ payment[c] = <<>>
    BY DEF StripeInv, RowsFit
  <2> QED
    BY <2>1, <2>2
<1>2. <<c, 0>> \notin invoices
  <2>1. <<c, 0>>[1] = c
    OBVIOUS
  <2> QED
    BY <2>1 DEF StripeInv, StripeFits
<1>3. ASSUME NEW i \in DOMAIN due PROVE due[i].of # c
  <2>1. due[i] \in sent
    BY DEF StripeInv, Types, TypeOK, ToSet
  <2> QED
    BY <2>1 DEF StripeInv, EventsFit, EventFits
<1> QED
  BY <1>1, <1>2, <1>3

\* Nobody is told of an invoice before it is paid, nor credited.
LEMMA NotPaidYet ==
  ASSUME StripeInv, NEW c \in Checkout, <<c, 0>> \notin invoices
  PROVE  /\ bought[c] = 0
         /\ \A i \in DOMAIN due : ~About(i, c, "paid")
<1>1. bought[c] = 0
  BY DEF StripeInv, RowsFit, Types, TypeOK
<1>2. ASSUME NEW i \in DOMAIN due, About(i, c, "paid") PROVE FALSE
  <2>1. due[i] \in sent
    BY DEF StripeInv, Types, TypeOK, ToSet
  <2>2. <<c, due[i].invoice>> \in invoices
    BY <1>2, <2>1 DEF StripeInv, EventsFit, EventFits, About
  <2>3. <<c, due[i].invoice>>[1] = c
    OBVIOUS
  <2> QED
    BY <2>2, <2>3 DEF StripeInv, StripeFits
<1> QED
  BY <1>1, <1>2

\* A new event goes behind all others, and no handler works on it yet.
LEMMA AppendShape ==
  ASSUME StripeInv, OneAtATime, NEW e \in Event, NEW before, Happens(e, before), UNCHANGED calls
  PROVE  /\ Len(due) \in Nat /\ DOMAIN due = 1 .. Len(due) /\ DOMAIN due' = 1 .. Len(due) + 1
         /\ \A i \in DOMAIN due : i \in DOMAIN due' /\ due'[i] = due[i]
         /\ due'[Len(due) + 1] = e
         /\ OneAtATime'
         /\ \A S : (Past(S)' <=> Past(S)) /\ (due = <<>> => ~Past(S))
<1>1. /\ due' \in Seq(Event) /\ Len(due') = Len(due) + 1
      /\ \A i \in 1 .. Len(due) : due'[i] = due[i]
      /\ due'[Len(due) + 1] = e /\ due \in Seq(Event)
  BY HappensFacts DEF StripeInv, Types
<1>2. Len(due) \in Nat /\ DOMAIN due = 1 .. Len(due) /\ DOMAIN due' = 1 .. Len(due) + 1
  BY <1>1
<1>3. OneAtATime'
  <2>1. due # <<>> => due' # <<>> /\ Head(due') = Head(due)
    <3>1. due # <<>> => 1 \in 1 .. Len(due) /\ Head(due) = due[1]
      BY <1>1
    <3>2. due' # <<>> /\ Head(due') = due'[1]
      BY <1>1
    <3> QED
      BY <1>1, <3>1, <3>2
  <2> QED
    BY <2>1 DEF OneAtATime
<1>4. \A S : (Past(S)' <=> Past(S)) /\ (due = <<>> => ~Past(S))
  BY DEF Past, OneAtATime
<1> QED
  BY <1>1, <1>2, <1>3, <1>4

\* An event about one checkout leaves what is known of another.
LEMMA AppendOther ==
  ASSUME StripeInv, OneAtATime, NEW e \in Event, NEW before, Happens(e, before),
         NEW c \in Checkout, c # e.of,
         UNCHANGED <<calls, kind[c], sub[c], payment[c], bought[c]>>,
         <<c, 0>> \in invoices' <=> <<c, 0>> \in invoices,
         InsertsWait(c), CreditsWait(c), StatusWaits(c)
  PROVE  InsertsWait(c)' /\ CreditsWait(c)' /\ StatusWaits(c)'
<1>n. PICK n \in Nat : n = Len(due) + 1
  BY AppendShape
<1>1. /\ n \in Nat /\ DOMAIN due' = 1 .. n
      /\ \A i \in DOMAIN due : i \in DOMAIN due' /\ i < n /\ due'[i] = due[i]
      /\ \A i \in DOMAIN due' : i \in DOMAIN due \/ i = n
      /\ due'[n].of # c
      /\ \A S : (Past(S)' <=> Past(S))
  BY <1>n, AppendShape
<1>2. \A i, S : Waits(i, S)' <=> Waits(i, S)
  BY <1>1 DEF Waits
<1>3. \A t : \A i \in DOMAIN due' :
        /\ About(i, c, t)' => i \in DOMAIN due
        /\ i \in DOMAIN due => (About(i, c, t)' <=> About(i, c, t))
  BY <1>1 DEF About
<1>4. InsertsWait(c)'
  <2>1. /\ kind'[c] # "none" /\ payment'[c] = <<>> =>
           \E i \in DOMAIN due' :
             About(i, c, "completed")' /\ \A j \in DOMAIN due' : j < i => due'[j].of # c
    BY <1>1, <1>3 DEF InsertsWait
  <2>2. \A i, j \in DOMAIN due' :
          About(i, c, "completed")' /\ About(j, c, "completed")' => i = j
    BY <1>3 DEF InsertsWait
  <2>3. \A i \in DOMAIN due' :
          About(i, c, "completed")' => (payment'[c] = <<>> <=> Waits(i, {"answer"})')
    BY <1>2, <1>3 DEF InsertsWait
  <2> QED
    BY <2>1, <2>2, <2>3 DEF InsertsWait
<1>5. CreditsWait(c)'
  BY <1>1, <1>2, <1>3 DEF CreditsWait
<1>6. StatusWaits(c)'
  <2>1. \A i \in DOMAIN due' : LastAbout(i, c)' => i \in DOMAIN due /\ LastAbout(i, c)
    BY <1>1 DEF LastAbout
  <2>2. \A h \in Handler : At(h, "insert") \/ At(h, "mark") =>
                          (LastAbout(1, c)' => LastAbout(1, c))
    <3> SUFFICES ASSUME NEW h \in Handler, calls[h] # Idle, LastAbout(1, c)'
                 PROVE  LastAbout(1, c)
      BY DEF At
    <3>1. due # <<>>
      BY DEF OneAtATime
    <3>2. 1 \in DOMAIN due'
      BY <3>1, AppendShape
    <3> QED
      BY <2>1, <3>2
  <2>3. \A i \in DOMAIN due : due'[i] = due[i] /\ i \in DOMAIN due'
    BY <1>1
  <2> QED
    BY <1>2, <2>1, <2>2, <2>3 DEF StatusWaits, At
<1> QED
  BY <1>4, <1>5, <1>6

\* The checkout an event is about.
LEMMA AppendSame ==
  ASSUME StripeInv, OneAtATime, NEW e \in Event, NEW before, Happens(e, before),
         NEW c \in Checkout, c = e.of,
         UNCHANGED <<calls, payment[c], bought[c]>>,
         InsertsWait(c), CreditsWait(c),
         kind'[c] # "none", e.type = "completed" <=> kind[c] = "none",
         kind[c] # "none" => kind'[c] = kind[c],
         e.type \in {"updated", "deleted"} => e.status = sub'[c],
         IF e.type = "paid" THEN <<c, 0>> \notin invoices \/ kind'[c] # "credits"
         ELSE <<c, 0>> \in invoices' <=> <<c, 0>> \in invoices
  PROVE  InsertsWait(c)' /\ CreditsWait(c)' /\ StatusWaits(c)'
<1>n. PICK n \in Nat : n = Len(due) + 1
  BY AppendShape
<1>1. /\ n \in Nat /\ DOMAIN due' = 1 .. n /\ n \in DOMAIN due'
      /\ \A i \in DOMAIN due : i \in DOMAIN due' /\ i < n /\ due'[i] = due[i]
      /\ \A i \in DOMAIN due' : i \in DOMAIN due \/ i = n
      /\ due'[n] = e
      /\ \A S : (Past(S)' <=> Past(S))
  BY <1>n, AppendShape
<1>0. \A S : n = 1 => ~Past(S)
  <2>1. n = 1 => due = <<>>
    <3>1. due \in Seq(Event)
      BY DEF StripeInv, Types
    <3> QED
      BY <1>n, <3>1
  <2> QED
    BY <2>1, AppendShape
<1>2. \A i, S : Waits(i, S)' <=> Waits(i, S)
  BY <1>1 DEF Waits
<1>3. \A S : Waits(n, S)'
  BY <1>0, <1>2 DEF Waits
<1>4. \A t : (About(n, c, t)' <=> e.type = t)
  BY <1>1 DEF About
<1>5. \A t : \A i \in DOMAIN due : About(i, c, t)' <=> About(i, c, t)
  BY <1>1 DEF About
<1>6. InsertsWait(c)'
  <2>1. CASE kind[c] = "none"
    <3>1. payment[c] = <<>> /\ \A i \in DOMAIN due : due[i].of # c
      BY <2>1, NothingYet
    <3>2. \A i \in DOMAIN due' : About(i, c, "completed")' => i = n
      BY <1>1, <1>5, <3>1 DEF About
    <3>3. About(n, c, "completed")' /\ \A j \in DOMAIN due' : j < n => due'[j].of # c
      BY <1>1, <1>4, <2>1, <3>1
    <3> QED
      BY <1>1, <1>3, <3>1, <3>2, <3>3 DEF InsertsWait
  <2>2. CASE kind[c] # "none"
    <3>1. \A i \in DOMAIN due' : About(i, c, "completed")' => i \in DOMAIN due
      BY <1>1, <1>4, <2>2
    <3>2. payment[c] = <<>> =>
           \E i \in DOMAIN due' :
             About(i, c, "completed")' /\ \A j \in DOMAIN due' : j < i => due'[j].of # c
      <4> SUFFICES ASSUME payment[c] = <<>>
                   PROVE  \E i \in DOMAIN due' :
                            /\ About(i, c, "completed")'
                            /\ \A j \in DOMAIN due' : j < i => due'[j].of # c
        OBVIOUS
      <4>1. PICK i \in DOMAIN due :
              About(i, c, "completed") /\ \A j \in DOMAIN due : j < i => due[j].of # c
        BY <2>2 DEF InsertsWait
      <4>2. i < n /\ n \in Nat /\ i \in Nat
        BY <1>1, AppendShape
      <4>3. ASSUME NEW j \in DOMAIN due', j < i PROVE due'[j].of # c
        BY <1>1, <4>1, <4>2, <4>3
      <4> QED
        BY <1>1, <1>5, <4>1, <4>3
    <3>3. \A i, j \in DOMAIN due' :
            About(i, c, "completed")' /\ About(j, c, "completed")' => i = j
      BY <1>5, <3>1 DEF InsertsWait
    <3>4. \A i \in DOMAIN due' :
            About(i, c, "completed")' => (payment'[c] = <<>> <=> Waits(i, {"answer"})')
      BY <1>2, <1>5, <3>1 DEF InsertsWait
    <3> QED
      BY <3>2, <3>3, <3>4 DEF InsertsWait
  <2> QED
    BY <2>1, <2>2
<1>7. CreditsWait(c)'
  <2> SUFFICES ASSUME kind'[c] = "credits"
               PROVE  /\ bought[c] \in {0, 1}
                      /\ \A i, j \in DOMAIN due' : About(i, c, "paid")' /\ About(j, c, "paid")' => i = j
                      /\ \A i \in DOMAIN due' : About(i, c, "paid")' /\ Waits(i, {"answer"})' => bought[c] = 0
                      /\ <<c, 0>> \in invoices' /\ bought[c] = 0 =>
                           \E i \in DOMAIN due' : About(i, c, "paid")' /\ Waits(i, {"answer"})'
    BY DEF CreditsWait
  <2>1. CASE <<c, 0>> \notin invoices
    <3>1. bought[c] = 0 /\ \A i \in DOMAIN due : ~About(i, c, "paid")
      BY <2>1, NotPaidYet
    <3>2. \A i \in DOMAIN due' : About(i, c, "paid")' => i = n
      BY <1>1, <1>5, <3>1
    <3>3. <<c, 0>> \in invoices' => About(n, c, "paid")'
      BY <1>4, <2>1
    <3> QED
      BY <1>1, <1>3, <3>1, <3>2, <3>3
  <2>2. CASE <<c, 0>> \in invoices
    <3>1. kind[c] = "credits" /\ e.type # "paid"
      BY <2>2, NothingYet
    <3>2. \A i \in DOMAIN due' : About(i, c, "paid")' => i \in DOMAIN due
      BY <1>1, <1>4, <3>1
    <3> QED
      BY <1>1, <1>2, <1>5, <2>2, <3>1, <3>2 DEF CreditsWait
  <2> QED
    BY <2>1, <2>2
<1>8. StatusWaits(c)'
  <2>1. \A i \in DOMAIN due' : LastAbout(i, c)' => i = n
    BY <1>1 DEF LastAbout
  <2>2. \A h \in Handler : calls[h] # Idle => ~LastAbout(1, c)'
    <3> SUFFICES ASSUME NEW h \in Handler, calls[h] # Idle, LastAbout(1, c)'
                 PROVE  FALSE
      OBVIOUS
    <3>1. due # <<>> /\ due \in Seq(Event)
      BY DEF OneAtATime, StripeInv, Types
    <3>2. 1 \in DOMAIN due
      BY <3>1
    <3> QED
      BY <1>1, <2>1, <3>2
  <2>3. due'[n].of = c /\ Waits(n, Crediting \cup {"answer"})'
    BY <1>1, <1>3
  <2> QED
    BY <1>1, <2>1, <2>2, <2>3 DEF StatusWaits, At
<1> QED
  BY <1>6, <1>7, <1>8

\* Stripe's events keep the books of a calm behaviour.
LEMMA AppendKeeps ==
  ASSUME StripeInv, CalmFits, NEW e \in Event, NEW before, Happens(e, before),
         UNCHANGED <<calls, payment, balance, entries, bought, calm>>,
         \A x \in Checkout : x # e.of =>
           UNCHANGED <<kind[x], sub[x]>> /\ (<<x, 0>> \in invoices' <=> <<x, 0>> \in invoices),
         NEW c \in Checkout, c = e.of,
         kind'[c] # "none", e.type = "completed" <=> kind[c] = "none",
         kind[c] # "none" => kind'[c] = kind[c],
         e.type \in {"updated", "deleted"} => e.status = sub'[c],
         IF e.type = "paid" THEN <<c, 0>> \notin invoices \/ kind'[c] # "credits"
         ELSE <<c, 0>> \in invoices' <=> <<c, 0>> \in invoices
  PROVE  CalmFits'
<1> SUFFICES ASSUME calm
             PROVE  /\ OneAtATime' /\ BalanceFits'
                    /\ \A x \in Checkout : InsertsWait(x)' /\ CreditsWait(x)' /\ StatusWaits(x)'
  BY DEF CalmFits
<1>1. /\ OneAtATime /\ BalanceFits
      /\ \A x \in Checkout : InsertsWait(x) /\ CreditsWait(x) /\ StatusWaits(x)
  BY DEF CalmFits
<1>2. OneAtATime'
  BY <1>1, AppendShape
<1>3. BalanceFits'
  BY <1>1 DEF BalanceFits, At
<1>4. InsertsWait(c)' /\ CreditsWait(c)' /\ StatusWaits(c)'
  BY <1>1, AppendSame
<1>5. ASSUME NEW x \in Checkout, x # c
      PROVE  InsertsWait(x)' /\ CreditsWait(x)' /\ StatusWaits(x)'
  BY <1>1, <1>5, AppendOther
<1> QED
  BY <1>2, <1>3, <1>4, <1>5

\* What customers and Stripe do adds the event that tells of it.
LEMMA StripeCalm ==
  ASSUME StripeInv, CalmFits, NEW c \in Checkout,
         \/ \E k \in Kinds : Complete(c, k)
         \/ Pay(c) \/ \E n \in 1 .. MaxInvoice : Renew(c, n)
         \/ \E s \in {"past_due", "canceled"} : SubChanges(c, s)
  PROVE  CalmFits'
<1>1. /\ kind \in [Checkout -> Kinds \cup {"none"}]
      /\ sub \in [Checkout -> {"none", "incomplete", "active", "past_due", "canceled"}]
      /\ MaxInvoice \in Nat
  BY PaymentsAssumption DEF StripeInv, Types, TypeOK
<1>2. ASSUME NEW k \in Kinds, Complete(c, k) PROVE CalmFits'
  <2> DEFINE e == Of("completed", c, "none", 0)
  <2>1. e \in Event /\ e.of = c /\ e.type = "completed"
    BY <1>1 DEF Of, Event
  <2>2. /\ Happens(e, sent) /\ kind[c] = "none" /\ kind' = [kind EXCEPT ![c] = k]
        /\ sub' = [sub EXCEPT ![c] = IF k = "subscription" THEN "incomplete" ELSE "none"]
        /\ UNCHANGED <<invoices, calls, payment, balance, entries, bought, calm>>
    BY <1>2 DEF Complete, StripeOnly, dbVars
  <2> HIDE DEF e
  <2>3. kind'[c] # "none" /\ \A x \in Checkout : x # c => UNCHANGED <<kind[x], sub[x]>>
    BY <1>1, <2>2 DEF Kinds
  <2> QED
    BY <2>1, <2>2, <2>3, AppendKeeps
<1>3. ASSUME NEW n \in 0 .. MaxInvoice, NEW before, Collected(c, n, before), kind[c] # "none",
             <<c, 0>> \notin invoices \/ kind[c] # "credits",
             UNCHANGED <<calls, payment, balance, entries, bought, calm>>
      PROVE  CalmFits'
  <2> DEFINE e == Of("paid", c, "none", n)
  <2>1. e \in Event /\ e.of = c /\ e.type = "paid"
    BY <1>1 DEF Of, Event
  <2>2. /\ Happens(e, before) /\ kind' = kind /\ invoices' = invoices \cup {<<c, n>>}
        /\ \E s : sub' = [sub EXCEPT ![c] = s]
    BY <1>3 DEF Collected
  <2> HIDE DEF e
  <2>3. \A x \in Checkout : x # c =>
          UNCHANGED <<kind[x], sub[x]>> /\ (<<x, 0>> \in invoices' <=> <<x, 0>> \in invoices)
    BY <1>1, <2>2
  <2> QED
    BY <1>3, <2>1, <2>2, <2>3, AppendKeeps
<1>4. CASE Pay(c)
  BY <1>1, <1>3, <1>4 DEF Pay, StripeOnly, dbVars
<1>5. ASSUME NEW n \in 1 .. MaxInvoice, Renew(c, n) PROVE CalmFits'
  <2>1. /\ Collected(c, n, {}) /\ kind[c] = "subscription"
        /\ UNCHANGED <<calls, payment, balance, entries, bought, calm>>
    BY <1>5 DEF Renew
  <2>2. n \in 0 .. MaxInvoice
    BY <1>1
  <2> QED
    BY <1>3, <2>1, <2>2
<1>6. ASSUME NEW s \in {"past_due", "canceled"}, SubChanges(c, s) PROVE CalmFits'
  <2>1. PICK type \in {"updated", "deleted"} : Happens(Of(type, c, s, 0), sent)
    BY <1>6 DEF SubChanges
  <2> DEFINE e == Of(type, c, s, 0)
  <2>2. e \in Event /\ e.of = c /\ e.type = type /\ e.status = s /\ Happens(e, sent)
    BY <1>1, <2>1 DEF Of, Event, Status
  <2>3. /\ sub[c] # "none" /\ sub' = [sub EXCEPT ![c] = s]
        /\ UNCHANGED <<kind, invoices, calls, payment, balance, entries, bought, calm>>
    BY <1>6 DEF SubChanges, StripeOnly, dbVars
  <2> HIDE DEF e
  <2>4. kind[c] = "subscription"
    BY <2>3 DEF StripeInv, StripeFits
  <2>5. sub'[c] = s /\ \A x \in Checkout : x # c => UNCHANGED <<kind[x], sub[x]>>
    BY <1>1, <2>3
  <2> QED
    BY <2>2, <2>3, <2>4, <2>5, AppendKeeps
<1> QED
  BY <1>2, <1>4, <1>5, <1>6

-----------------------------------------------------------------------------
(* Calm behaviours: the handler of the oldest delivery *)

\* The one handler at work, and what it works on.
LEMMA WorkShape ==
  ASSUME StripeInv, OneAtATime, NEW h \in Handler, calls[h] # Idle,
         NEW k \in Call \cup {Idle}, calls' = [calls EXCEPT ![h] = k]
  PROVE  /\ calls'[h] = k /\ \A g \in Handler : g # h => calls[g] = Idle /\ calls'[g] = Idle
         /\ 1 \in DOMAIN due /\ due[1] = calls[h].event /\ due # <<>> /\ Head(due) = due[1]
         /\ \A S : Past(S) <=> calls[h].step \in S
         /\ \A S : Past(S)' <=> k # Idle /\ k.step \in S
<1>1. calls \in [Handler -> Call \cup {Idle}] /\ due \in Seq(Event)
  BY DEF StripeInv, Types, TypeOK
<1>2. calls'[h] = k /\ \A g \in Handler : g # h => calls[g] = Idle /\ calls'[g] = Idle
  BY <1>1 DEF OneAtATime
<1>3. 1 \in DOMAIN due /\ due[1] = calls[h].event /\ due # <<>> /\ Head(due) = due[1]
  <2>1. due # <<>> /\ calls[h].event = Head(due)
    BY DEF OneAtATime
  <2>2. Head(due) = due[1] /\ 1 \in DOMAIN due
    BY <1>1, <2>1
  <2> QED
    BY <2>1, <2>2
<1>4. \A S : Past(S) <=> calls[h].step \in S
  BY <1>2 DEF Past
<1>5. \A S : Past(S)' <=> k # Idle /\ k.step \in S
  BY <1>2 DEF Past
<1> QED
  BY <1>2, <1>3, <1>4, <1>5

\* It goes on with the same event.
LEMMA WorkOne ==
  ASSUME StripeInv, OneAtATime, NEW h \in Handler, calls[h] # Idle,
         NEW k \in Call \cup {Idle}, calls' = [calls EXCEPT ![h] = k],
         k # Idle => k.event = calls[h].event, UNCHANGED due
  PROVE  OneAtATime'
<1>1. /\ calls'[h] = k /\ \A g \in Handler : g # h => calls'[g] = Idle
      /\ due # <<>> /\ Head(due) = calls[h].event
  BY WorkShape
<1> QED
  BY <1>1 DEF OneAtATime

\* What waits for another checkout still waits.
LEMMA WorkOther ==
  ASSUME StripeInv, OneAtATime, NEW h \in Handler, calls[h] # Idle,
         NEW k \in Call \cup {Idle}, calls' = [calls EXCEPT ![h] = k],
         UNCHANGED <<due, kind, sub, invoices>>,
         NEW c \in Checkout, c # Session(h), UNCHANGED <<payment[c], bought[c]>>,
         InsertsWait(c), CreditsWait(c), StatusWaits(c)
  PROVE  InsertsWait(c)' /\ CreditsWait(c)' /\ StatusWaits(c)'
<1>1. due[1].of # c
  BY WorkShape DEF Session
<1>2. \A i, S : due[i].of = c => Waits(i, S) /\ Waits(i, S)'
  BY <1>1 DEF Waits
<1>3. \A t : \A i \in DOMAIN due :
        (About(i, c, t)' <=> About(i, c, t)) /\ (About(i, c, t) => due[i].of = c)
  BY DEF About
<1>4. InsertsWait(c)'
  <2>1. \A j \in DOMAIN due : due'[j].of = due[j].of
    OBVIOUS
  <2> QED
    BY <1>2, <1>3, <2>1 DEF InsertsWait
<1>5. CreditsWait(c)'
  BY <1>2, <1>3 DEF CreditsWait
<1>6. StatusWaits(c)'
  <2>1. ~LastAbout(1, c)' /\ \A i : LastAbout(i, c)' <=> LastAbout(i, c)
    BY <1>1 DEF LastAbout
  <2> QED
    BY <1>2, <2>1 DEF StatusWaits
<1> QED
  BY <1>4, <1>5, <1>6

\* A step that neither inserts a row nor answers a completed session.
LEMMA WorkInserts ==
  ASSUME StripeInv, OneAtATime, NEW h \in Handler, calls[h] # Idle,
         NEW k \in Call \cup {Idle}, calls' = [calls EXCEPT ![h] = k],
         UNCHANGED <<due, kind>>,
         NEW c \in Checkout, payment[c] = <<>> <=> payment'[c] = <<>>,
         Type(h) = "completed" => calls[h].step # "answer" /\ k.step # "answer",
         InsertsWait(c)
  PROVE  InsertsWait(c)'
<1>1. due[1] = calls[h].event /\ \A S : Past(S) <=> calls[h].step \in S
  BY WorkShape
<1>2. \A S : Past(S)' <=> k # Idle /\ k.step \in S
  BY WorkShape
<1>3. \A t : \A i \in DOMAIN due : About(i, c, t)' <=> About(i, c, t)
  BY DEF About
<1>4. \A i \in DOMAIN due :
        About(i, c, "completed") => (Waits(i, {"answer"})' <=> Waits(i, {"answer"}))
  BY <1>1, <1>2 DEF About, Waits, Type
<1>5. \A j \in DOMAIN due : due'[j].of = due[j].of
  OBVIOUS
<1> QED
  BY <1>3, <1>4, <1>5 DEF InsertsWait

\* A step that neither credits a package nor answers its payment.
LEMMA WorkCredits ==
  ASSUME StripeInv, OneAtATime, NEW h \in Handler, calls[h] # Idle,
         NEW k \in Call \cup {Idle}, calls' = [calls EXCEPT ![h] = k],
         UNCHANGED <<due, kind, invoices>>,
         NEW c \in Checkout, UNCHANGED bought[c],
         Type(h) = "paid" => KindOf(h) # "credits" \/ (calls[h].step # "answer" /\ k.step # "answer"),
         CreditsWait(c)
  PROVE  CreditsWait(c)'
<1>1. due[1] = calls[h].event /\ \A S : Past(S) <=> calls[h].step \in S
  BY WorkShape
<1>2. \A S : Past(S)' <=> k # Idle /\ k.step \in S
  BY WorkShape
<1>3. \A t : \A i \in DOMAIN due : About(i, c, t)' <=> About(i, c, t)
  BY DEF About
<1>4. ASSUME kind[c] = "credits", NEW i \in DOMAIN due, About(i, c, "paid")
      PROVE  Waits(i, {"answer"})' <=> Waits(i, {"answer"})
  BY <1>1, <1>2, <1>4 DEF About, Waits, Type, KindOf, Session
<1> QED
  BY <1>3, <1>4 DEF CreditsWait

\* A step that leaves the row with the status of a subscription when nothing else
\* about it waits.
LEMMA WorkStatus ==
  ASSUME StripeInv, OneAtATime, NEW h \in Handler, calls[h] # Idle,
         NEW k \in Call \cup {Idle}, calls' = [calls EXCEPT ![h] = k],
         UNCHANGED <<due, kind, sub>>,
         NEW c \in Checkout, c = Session(h),
         k # Idle /\ k.step \in {"insert", "mark"} => k.seen = sub[c],
         LastAbout(1, c) /\ k # Idle /\ k.step \in Crediting \cup {"answer"}
           /\ kind[c] = "subscription" => payment'[c][1].status = sub[c],
         StatusWaits(c)
  PROVE  StatusWaits(c)'
<1>1. /\ calls'[h] = k /\ \A g \in Handler : g # h => calls'[g] = Idle
      /\ 1 \in DOMAIN due /\ due[1].of = c
  BY WorkShape DEF Session
<1>2. \A S : Past(S)' <=> k # Idle /\ k.step \in S
  BY WorkShape
<1>3. \A i : LastAbout(i, c)' <=> LastAbout(i, c)
  BY DEF LastAbout
<1>4. (\A i \in DOMAIN due : due[i].of = c => ~Waits(i, Crediting \cup {"answer"})') =>
        LastAbout(1, c) /\ k # Idle /\ k.step \in Crediting \cup {"answer"}
  <2> SUFFICES ASSUME \A i \in DOMAIN due : due[i].of = c => ~Waits(i, Crediting \cup {"answer"})'
               PROVE  LastAbout(1, c) /\ k # Idle /\ k.step \in Crediting \cup {"answer"}
    OBVIOUS
  <2>1. \A i \in DOMAIN due : due[i].of = c => i = 1 /\ Past(Crediting \cup {"answer"})'
    BY DEF Waits
  <2>2. LastAbout(1, c)
    <3>1. \A j \in DOMAIN due : j > 1 => j # 1
      BY DEF StripeInv, Types
    <3> QED
      BY <1>1, <2>1, <3>1 DEF LastAbout
  <2> QED
    BY <1>1, <1>2, <2>1, <2>2
<1>5. \A g \in Handler : At(g, "insert")' \/ At(g, "mark")' => calls'[g].seen = sub[c]
  BY <1>1 DEF At
<1> QED
  BY <1>3, <1>4, <1>5 DEF StatusWaits

\* A step that leaves the row and the status that are there.
LEMMA WorkCredited ==
  ASSUME StripeInv, OneAtATime, NEW h \in Handler, calls[h] # Idle,
         calls[h].step \in Crediting,
         NEW c \in Checkout, c = Session(h), LastAbout(1, c), kind[c] = "subscription",
         StatusWaits(c)
  PROVE  payment[c][1].status = sub[c]
<1>1. CallFits(calls[h]) /\ payment[c] # <<>>
  BY Working DEF CallFits, Session
<1>2. 1 \in DOMAIN due /\ Past(Crediting \cup {"answer"})
  <2>1. due # <<>> /\ due \in Seq(Event)
    BY DEF OneAtATime, StripeInv, Types
  <2> QED
    BY <2>1 DEF Past
<1>3. ASSUME NEW i \in DOMAIN due, due[i].of = c PROVE i = 1
  <2>1. ~(i > 1) /\ DOMAIN due = 1 .. Len(due)
    BY <1>3 DEF LastAbout, StripeInv, Types
  <2> QED
    BY <2>1
<1>4. \A i \in DOMAIN due : due[i].of = c => ~Waits(i, Crediting \cup {"answer"})
  BY <1>2, <1>3 DEF Waits
<1> QED
  BY <1>1, <1>4 DEF StatusWaits

\* A step of the handler at work, taken together.
LEMMA WorkKeeps ==
  ASSUME StripeInv, CalmFits, calm, NEW h \in Handler, calls[h] # Idle,
         NEW k \in Call \cup {Idle}, calls' = [calls EXCEPT ![h] = k],
         k # Idle => k.event = calls[h].event, UNCHANGED <<due, kind, sub, invoices>>,
         NEW c \in Checkout, c = Session(h),
         \A x \in Checkout : x # c => UNCHANGED <<payment[x], bought[x]>>,
         BalanceFits', InsertsWait(c)', CreditsWait(c)', StatusWaits(c)'
  PROVE  CalmFits'
<1>1. /\ OneAtATime
      /\ \A x \in Checkout : InsertsWait(x) /\ CreditsWait(x) /\ StatusWaits(x)
  BY DEF CalmFits
<1>2. OneAtATime'
  BY <1>1, WorkOne
<1>3. ASSUME NEW x \in Checkout, x # c
      PROVE  InsertsWait(x)' /\ CreditsWait(x)' /\ StatusWaits(x)'
  BY <1>1, <1>3, WorkOther
<1> QED
  BY <1>2, <1>3 DEF CalmFits

\* Nothing is added to the balance.
LEMMA WorkBalance ==
  ASSUME StripeInv, OneAtATime, BalanceFits, NEW h \in Handler, calls[h] # Idle,
         NEW k \in Call \cup {Idle}, calls' = [calls EXCEPT ![h] = k],
         calls[h].step \notin {"write", "ledger"}, k.step \notin {"write", "ledger"},
         UNCHANGED <<balance, entries>>
  PROVE  BalanceFits'
<1>1. \A g \in Handler : /\ ~At(g, "write") /\ ~At(g, "ledger")
                         /\ ~At(g, "write")' /\ ~At(g, "ledger")'
  BY WorkShape DEF At
<1> QED
  BY <1>1 DEF BalanceFits

\* The lookups.
LEMMA LookupCalm ==
  ASSUME StripeInv, CalmFits, calm, NEW h \in Handler,
         CheckoutCompleted(h) \/ InvoicePaid(h) \/ InvoiceUnknown(h)
  PROVE  CalmFits'
<1>1. /\ calls[h] # Idle /\ calls[h].step = "start"
      /\ UNCHANGED <<due, kind, sub, invoices, payment, balance, entries, bought>>
  BY DEF CheckoutCompleted, InvoicePaid, InvoiceUnknown, Throws, At, Calm, stripeVars, dbVars
<1>2. PICK c \in Checkout : c = Session(h)
  BY <1>1, Working
<1>3. PICK k \in Call \cup {Idle} :
        /\ calls' = [calls EXCEPT ![h] = k]
        /\ k.step \in {"insert", "mark", "idle"}
        /\ k # Idle => k.event = calls[h].event /\ k.seen = sub[c]
  <2>1. CASE CheckoutCompleted(h)
    <3>1. See(h, "insert")
      BY <2>1 DEF CheckoutCompleted
    <3>2. PICK k \in Call : /\ calls' = [calls EXCEPT ![h] = k] /\ k.step = "insert"
                            /\ k.event = calls[h].event /\ k.seen = sub[Session(h)]
      BY <1>1, <3>1, SeeFacts DEF Steps
    <3> QED
      BY <1>2, <3>2
  <2>2. CASE InvoicePaid(h)
    <3>1. See(h, "mark")
      BY <2>2 DEF InvoicePaid
    <3>2. PICK k \in Call : /\ calls' = [calls EXCEPT ![h] = k] /\ k.step = "mark"
                            /\ k.event = calls[h].event /\ k.seen = sub[Session(h)]
      BY <1>1, <3>1, SeeFacts DEF Steps
    <3> QED
      BY <1>2, <3>2
  <2>3. CASE InvoiceUnknown(h)
    <3>1. calls' = [calls EXCEPT ![h] = Idle] /\ Idle.step = "idle"
      BY <2>3 DEF InvoiceUnknown, Throws, Idle
    <3> QED
      BY <3>1
  <2> QED
    BY <2>1, <2>2, <2>3
<1>4. OneAtATime /\ BalanceFits /\ InsertsWait(c) /\ CreditsWait(c) /\ StatusWaits(c)
  BY DEF CalmFits
<1>5. BalanceFits'
  BY <1>1, <1>3, <1>4, WorkBalance
<1>6. InsertsWait(c)'
  BY <1>1, <1>3, <1>4, WorkInserts
<1>7. CreditsWait(c)'
  BY <1>1, <1>3, <1>4, WorkCredits
<1>8. StatusWaits(c)'
  BY <1>1, <1>2, <1>3, <1>4, WorkStatus DEF Crediting
<1> QED
  BY <1>1, <1>2, <1>3, <1>5, <1>6, <1>7, <1>8, WorkKeeps

\* The oldest delivery is the only one of a completed session, so its row is not
\* there yet, and it is inserted with the status the subscription has.
LEMMA InsertCalm ==
  ASSUME StripeInv, CalmFits, calm, NEW h \in Handler, InsertRow(h) \/ InsertDuplicate(h)
  PROVE  CalmFits'
<1>1. calls[h] # Idle /\ calls[h].step = "insert"
  BY DEF InsertRow, InsertDuplicate, At
<1>2. PICK c \in Checkout : c = Session(h)
  BY <1>1, Working
<1>3. OneAtATime /\ BalanceFits /\ InsertsWait(c) /\ CreditsWait(c) /\ StatusWaits(c)
  BY DEF CalmFits
<1>4. calls \in [Handler -> Call \cup {Idle}] /\ payment \in [Checkout -> Seq(Row)]
  BY DEF StripeInv, Types, TypeOK
<1>5. Type(h) = "completed" /\ 1 \in DOMAIN due /\ About(1, c, "completed") /\ Waits(1, {"answer"})
  <2>1. Type(h) = "completed"
    BY <1>1, Working DEF CallFits, Type
  <2>4. due # <<>> /\ calls[h].event = Head(due) /\ due \in Seq(Event)
    BY <1>1, <1>3 DEF OneAtATime, StripeInv, Types
  <2>5. 1 \in DOMAIN due /\ due[1] = calls[h].event
    BY <2>4
  <2>6. ~Past({"answer"})
    BY <1>1, <1>3 DEF Past, OneAtATime
  <2> QED
    BY <1>2, <2>1, <2>5, <2>6 DEF About, Type, Session, Waits
<1>6. payment[c] = <<>>
  BY <1>3, <1>5 DEF InsertsWait
<1>7. InsertRow(h)
  BY <1>2, <1>6 DEF InsertDuplicate, Insertable
<1> DEFINE row == Inserted(KindOf(h), calls[h].seen)
<1>8. /\ Goto(h, "answer") /\ payment' = [payment EXCEPT ![c] = Append(payment[c], row)]
      /\ UNCHANGED <<due, kind, sub, invoices, balance, entries, bought>>
  BY <1>2, <1>7 DEF InsertRow, Calm, stripeVars
<1>9. PICK k \in Call : /\ calls' = [calls EXCEPT ![h] = k] /\ k.step = "answer"
                        /\ k.event = calls[h].event
  BY <1>1, <1>8, GotoFacts DEF Steps
<1>10. kind[c] = "subscription" => row.status = calls[h].seen
  BY <1>2 DEF Inserted, KindOf
<1> HIDE DEF row
<1>11. payment'[c] = <<row>> /\ \A x \in Checkout : x # c => payment'[x] = payment[x]
  <2>1. Append(payment[c], row) = <<row>>
    BY <1>6
  <2> QED
    BY <1>4, <1>8, <2>1
<1>12. BalanceFits'
  BY <1>1, <1>3, <1>8, <1>9, WorkBalance
<1>13. InsertsWait(c)'
  <2>1. Past({"answer"})'
    <3>1. \A S : Past(S)' <=> k # Idle /\ k.step \in S
      BY <1>1, <1>3, <1>9, WorkShape
    <3>2. k # Idle
      BY <1>9 DEF Idle
    <3> QED
      BY <1>9, <3>1, <3>2
  <2>2. \A t : \A i \in DOMAIN due : About(i, c, t)' <=> About(i, c, t)
    BY <1>8 DEF About
  <2>3. \A i \in DOMAIN due : About(i, c, "completed") => i = 1
    BY <1>3, <1>5 DEF InsertsWait
  <2>4. payment'[c] # <<>> /\ ~Waits(1, {"answer"})'
    BY <1>11, <2>1 DEF Waits
  <2> QED
    BY <1>8, <2>2, <2>3, <2>4 DEF InsertsWait
<1>14. CreditsWait(c)'
  BY <1>1, <1>3, <1>5, <1>8, <1>9, WorkCredits
<1>15. StatusWaits(c)'
  <2>1. ASSUME LastAbout(1, c), kind[c] = "subscription" PROVE payment'[c][1].status = sub[c]
    <3>1. calls[h].seen = sub[c]
      BY <1>1, <1>3, <2>1 DEF StatusWaits, At
    <3>2. payment'[c][1] = row
      BY <1>11
    <3> QED
      BY <1>10, <2>1, <3>1, <3>2
  <2> QED
    BY <1>1, <1>2, <1>3, <1>8, <1>9, <2>1, WorkStatus
<1> QED
  BY <1>1, <1>2, <1>8, <1>9, <1>11, <1>12, <1>13, <1>14, <1>15, WorkKeeps

\* A paid row takes the status the subscription has.
LEMMA MarkCalm ==
  ASSUME StripeInv, CalmFits, calm, NEW h \in Handler, MarkPaid(h)
  PROVE  CalmFits'
<1>1. calls[h] # Idle /\ calls[h].step = "mark"
  BY DEF MarkPaid, At
<1>2. PICK c \in Checkout : c = Session(h)
  BY <1>1, Working
<1>3. OneAtATime /\ BalanceFits /\ InsertsWait(c) /\ CreditsWait(c) /\ StatusWaits(c)
  BY DEF CalmFits
<1>4. payment \in [Checkout -> Seq(Row)] /\ Len(payment[c]) <= 1
  BY DEF StripeInv, Types, RowsFit
<1>5. Type(h) = "paid" /\ payment[c] # <<>>
  BY <1>1, <1>2, Working DEF CallFits, Type, Session
<1> DEFINE row == Marked(Last(payment[c]), KindOf(h), calls[h].seen)
<1>6. /\ Goto(h, "benefit")
      /\ payment' = [payment EXCEPT ![c] = [payment[c] EXCEPT ![Len(payment[c])] = row]]
      /\ UNCHANGED <<due, kind, sub, invoices, balance, entries, bought>>
  BY <1>2 DEF MarkPaid, Calm, stripeVars
<1>7. PICK k \in Call : /\ calls' = [calls EXCEPT ![h] = k] /\ k.step = "benefit"
                        /\ k.event = calls[h].event
  BY <1>1, <1>6, GotoFacts DEF Steps
<1>8. kind[c] = "subscription" => row.status = calls[h].seen
  <2>1. PICK old \in Row : old = Last(payment[c])
    BY <1>4, <1>5 DEF Last
  <2>2. kind[c] = "subscription" => row = [old EXCEPT !.paid = TRUE, !.status = calls[h].seen]
    BY <1>2, <2>1 DEF Marked, KindOf
  <2> QED
    BY <2>2 DEF Row
<1> HIDE DEF row
<1>9. /\ payment'[c][1] = row /\ payment'[c] # <<>>
      /\ \A x \in Checkout : x # c => payment'[x] = payment[x]
  <2>1. Len(payment[c]) = 1 /\ DOMAIN payment[c] = {1}
    <3>1. payment[c] \in Seq(Row)
      BY <1>4
    <3>2. Len(payment[c]) \in Nat /\ Len(payment[c]) # 0 /\ DOMAIN payment[c] = 1 .. Len(payment[c])
      BY <1>5, <3>1
    <3>3. Len(payment[c]) = 1
      BY <1>4, <3>2
    <3> QED
      BY <3>2, <3>3
  <2>2. payment'[c] = [payment[c] EXCEPT ![1] = row]
    BY <1>4, <1>6, <2>1
  <2>3. payment'[c][1] = row /\ DOMAIN payment'[c] = {1}
    BY <2>1, <2>2
  <2>4. payment'[c] # <<>>
    BY <2>3
  <2> QED
    BY <1>4, <1>6, <2>3, <2>4
<1>10. BalanceFits'
  BY <1>1, <1>3, <1>6, <1>7, WorkBalance
<1>11. InsertsWait(c)'
  BY <1>1, <1>3, <1>5, <1>6, <1>7, <1>9, WorkInserts
<1>12. CreditsWait(c)'
  BY <1>1, <1>3, <1>6, <1>7, WorkCredits
<1>13. StatusWaits(c)'
  <2>1. ASSUME LastAbout(1, c), kind[c] = "subscription" PROVE payment'[c][1].status = sub[c]
    <3>1. calls[h].seen = sub[c]
      BY <1>1, <1>3, <2>1 DEF StatusWaits, At
    <3> QED
      BY <1>8, <1>9, <2>1, <3>1
  <2> QED
    BY <1>1, <1>2, <1>3, <1>6, <1>7, <2>1, WorkStatus
<1> QED
  BY <1>1, <1>2, <1>6, <1>7, <1>9, <1>10, <1>11, <1>12, <1>13, WorkKeeps

\* The last event about a subscription carries the status it has.
LEMMA ChangedCalm ==
  ASSUME StripeInv, CalmFits, calm, NEW h \in Handler, SubscriptionChanged(h)
  PROVE  CalmFits'
<1>1. calls[h] # Idle /\ calls[h].step = "start" /\ Type(h) \in {"updated", "deleted"}
  BY DEF SubscriptionChanged, At
<1>2. PICK c \in Checkout : c = Session(h)
  BY <1>1, Working
<1>3. OneAtATime /\ BalanceFits /\ InsertsWait(c) /\ CreditsWait(c) /\ StatusWaits(c)
  BY DEF CalmFits
<1>4. payment \in [Checkout -> Seq(Row)]
  BY DEF StripeInv, Types
<1> DEFINE s == calls[h].event.status
           rows == [i \in DOMAIN payment[c] |-> [payment[c][i] EXCEPT !.status = s]]
<1>5. /\ Goto(h, "answer") /\ payment' = [payment EXCEPT ![c] = rows]
      /\ UNCHANGED <<due, kind, sub, invoices, balance, entries, bought>>
  BY <1>2 DEF SubscriptionChanged, Calm, stripeVars
<1>6. PICK k \in Call : /\ calls' = [calls EXCEPT ![h] = k] /\ k.step = "answer"
                        /\ k.event = calls[h].event
  BY <1>1, <1>5, GotoFacts DEF Steps
<1> HIDE DEF s
<1>7. /\ payment[c] = <<>> <=> rows = <<>>
      /\ payment[c] # <<>> => rows[1].status = s
  <2>1. PICK old \in Seq(Row) : old = payment[c]
    BY <1>4
  <2>2. DOMAIN rows = DOMAIN old /\ DOMAIN old = 1 .. Len(old) /\ Len(old) \in Nat
    BY <2>1
  <2>3. old # <<>> => 1 \in DOMAIN old /\ old[1] \in Row
    BY <2>2
  <2>4. ASSUME old # <<>> PROVE rows[1].status = s /\ rows # <<>>
    <3>1. PICK row \in Row : row = old[1]
      BY <2>3, <2>4
    <3>2. rows[1] = [row EXCEPT !.status = s]
      BY <2>1, <2>3, <2>4, <3>1
    <3>3. DOMAIN rows # {}
      BY <2>2, <2>3, <2>4
    <3> QED
      BY <3>2, <3>3 DEF Row
  <2>5. ASSUME old = <<>> PROVE rows = <<>>
    BY <2>1, <2>5
  <2> QED
    BY <2>1, <2>4, <2>5
<1> HIDE DEF rows
<1>8. /\ payment'[c] = rows
      /\ \A x \in Checkout : x # c => payment'[x] = payment[x]
  BY <1>4, <1>5
<1>9. BalanceFits'
  BY <1>1, <1>3, <1>5, <1>6, WorkBalance
<1>10. InsertsWait(c)'
  BY <1>1, <1>3, <1>5, <1>6, <1>7, <1>8, WorkInserts
<1>11. CreditsWait(c)'
  BY <1>1, <1>3, <1>5, <1>6, WorkCredits
<1>12. StatusWaits(c)'
  <2>1. ASSUME LastAbout(1, c), kind[c] = "subscription" PROVE payment'[c][1].status = sub[c]
    <3>1. due[1] = calls[h].event /\ 1 \in DOMAIN due
      BY <1>1, <1>3, <1>6, WorkShape
    <3>2. s = sub[c]
      BY <1>1, <1>3, <2>1, <3>1 DEF StatusWaits, Type, s
    <3>3. payment[c] # <<>>
      <4> SUFFICES ASSUME payment[c] = <<>> PROVE FALSE
        OBVIOUS
      <4>1. PICK i \in DOMAIN due :
              About(i, c, "completed") /\ \A j \in DOMAIN due : j < i => due[j].of # c
        BY <1>3, <2>1 DEF InsertsWait
      <4>2. DOMAIN due = 1 .. Len(due) /\ due[1].of = c
        BY <1>2, <3>1 DEF StripeInv, Types, Session
      <4>3. i = 1
        BY <3>1, <4>1, <4>2
      <4> QED
        BY <1>1, <3>1, <4>1, <4>3 DEF About, Type
    <3> QED
      BY <1>7, <1>8, <3>2, <3>3
  <2> QED
    BY <1>1, <1>2, <1>3, <1>5, <1>6, <2>1, WorkStatus
<1> QED
  BY <1>1, <1>2, <1>5, <1>6, <1>8, <1>9, <1>10, <1>11, <1>12, WorkKeeps

\* A credit is read, written and entered by one handler, once.
LEMMA CreditCalm ==
  ASSUME StripeInv, CalmFits, calm, NEW h \in Handler,
         NoBenefit(h) \/ ReadBalance(h) \/ WriteBalance(h) \/ WriteLedger(h)
  PROVE  CalmFits'
<1>1. /\ calls[h] # Idle /\ calls[h].step \in Crediting
      /\ UNCHANGED <<due, kind, sub, invoices, payment>>
  BY DEF NoBenefit, ReadBalance, WriteBalance, WriteLedger, At, Crediting, Calm, stripeVars, dbVars
<1>2. PICK c \in Checkout : c = Session(h)
  BY <1>1, Working
<1>3. OneAtATime /\ BalanceFits /\ InsertsWait(c) /\ CreditsWait(c) /\ StatusWaits(c)
  BY DEF CalmFits
<1>4. Type(h) = "paid" /\ calls[h] \in Call /\ KindOf(h) = kind[c]
  BY <1>1, <1>2, Working DEF CallFits, Type, KindOf
<1>5. LastAbout(1, c) /\ kind[c] = "subscription" => payment'[c][1].status = sub[c]
  BY <1>1, <1>2, <1>3, WorkCredited
<1>6. /\ balance \in Nat /\ entries \in Nat /\ bought \in [Checkout -> Nat]
      /\ calls \in [Handler -> Call \cup {Idle}]
  BY DEF StripeInv, Types, TypeOK
<1>7. ASSUME NEW k \in Call, calls' = [calls EXCEPT ![h] = k], k.event = calls[h].event,
             k.step \in {"write", "ledger", "answer"}, BalanceFits', CreditsWait(c)',
             \A x \in Checkout : x # c => UNCHANGED bought[x]
      PROVE  CalmFits'
  <2>1. InsertsWait(c)'
    BY <1>1, <1>3, <1>4, <1>7, WorkInserts
  <2>2. StatusWaits(c)'
    BY <1>1, <1>2, <1>3, <1>5, <1>7, WorkStatus
  <2> QED
    BY <1>1, <1>2, <1>7, <2>1, <2>2, WorkKeeps
<1>8. CASE NoBenefit(h)
  <2>1. /\ calls[h].step = "benefit" /\ ~Earns(KindOf(h)) /\ Goto(h, "answer")
        /\ UNCHANGED <<balance, entries, bought>>
    BY <1>8 DEF NoBenefit, At, dbVars
  <2>2. PICK k \in Call : /\ calls' = [calls EXCEPT ![h] = k] /\ k.step = "answer"
                          /\ k.event = calls[h].event
    BY <1>1, <2>1, GotoFacts DEF Steps
  <2>3. BalanceFits'
    BY <1>1, <1>3, <2>1, <2>2, WorkBalance
  <2>4. KindOf(h) # "credits"
    BY <2>1 DEF Earns
  <2>5. CreditsWait(c)'
    BY <1>1, <1>3, <2>1, <2>2, <2>4, WorkCredits
  <2> QED
    BY <1>7, <2>1, <2>2, <2>3, <2>5
<1>9. CASE ReadBalance(h)
  <2>1. /\ calls[h].step = "benefit" /\ UNCHANGED <<balance, entries, bought>>
        /\ calls' = [calls EXCEPT ![h].step = "write", ![h].read = balance]
    BY <1>9 DEF ReadBalance, At, dbVars
  <2>2. PICK k \in Call : /\ calls' = [calls EXCEPT ![h] = k] /\ k.event = calls[h].event
                          /\ k.step = "write" /\ k.read = balance
    <3>1. PICK now \in Call : now = calls[h]
      BY <1>4
    <3>2. PICK b \in Nat : b = balance
      BY <1>6
    <3> DEFINE k == [now EXCEPT !.step = "write", !.read = b]
    <3>3. k \in Call /\ k.step = "write" /\ k.event = now.event /\ k.read = b
      BY DEF Call
    <3>4. calls' = [calls EXCEPT ![h] = k]
      BY <1>6, <2>1, <3>1, <3>2
    <3> QED
      BY <3>1, <3>2, <3>3, <3>4
  <2>3. BalanceFits'
    <3>1. calls'[h] = k /\ \A g \in Handler : g # h => calls[g] = Idle /\ calls'[g] = Idle
      BY <1>1, <1>3, <2>2, WorkShape
    <3>2. balance = entries
      BY <2>1, <3>1, <1>3 DEF BalanceFits, At
    <3>3. /\ At(h, "write")' /\ ~At(h, "ledger")' /\ calls'[h].read = entries
          /\ \A g \in Handler : g # h => ~At(g, "write")' /\ ~At(g, "ledger")'
      BY <2>2, <3>1, <3>2 DEF At, Idle
    <3> QED
      BY <2>1, <3>2, <3>3 DEF BalanceFits
  <2>4. CreditsWait(c)'
    BY <1>1, <1>3, <2>1, <2>2, WorkCredits
  <2> QED
    BY <1>7, <2>1, <2>2, <2>3, <2>4
<1>10. CASE WriteBalance(h)
  <2>1. /\ calls[h].step = "write" /\ UNCHANGED <<entries, bought>> /\ Goto(h, "ledger")
        /\ balance' = calls[h].read + 1
    BY <1>10 DEF WriteBalance, At
  <2>2. PICK k \in Call : /\ calls' = [calls EXCEPT ![h] = k] /\ k.step = "ledger"
                          /\ k.event = calls[h].event
    BY <1>1, <2>1, GotoFacts DEF Steps
  <2>3. BalanceFits'
    <3>1. calls'[h] = k /\ \A g \in Handler : g # h => calls[g] = Idle /\ calls'[g] = Idle
      BY <1>1, <1>3, <2>2, WorkShape
    <3>2. balance' = entries + 1
      BY <1>1, <1>3, <2>1 DEF BalanceFits, At
    <3>3. /\ At(h, "ledger")' /\ ~At(h, "write")'
          /\ \A g \in Handler : g # h => ~At(g, "write")' /\ ~At(g, "ledger")'
      BY <2>2, <3>1 DEF At, Idle
    <3> QED
      BY <2>1, <3>2, <3>3 DEF BalanceFits
  <2>4. CreditsWait(c)'
    BY <1>1, <1>3, <2>1, <2>2, WorkCredits
  <2> QED
    BY <1>7, <2>1, <2>2, <2>3, <2>4
<1>11. CASE WriteLedger(h)
  <2>1. /\ calls[h].step = "ledger" /\ Goto(h, "answer")
        /\ entries' = entries + 1 /\ balance' = balance
        /\ IF kind[c] = "credits" THEN bought' = [bought EXCEPT ![c] = bought[c] + 1]
           ELSE bought' = bought
    BY <1>2, <1>4, <1>11 DEF WriteLedger, At
  <2>2. PICK k \in Call : /\ calls' = [calls EXCEPT ![h] = k] /\ k.step = "answer"
                          /\ k.event = calls[h].event
    BY <1>1, <2>1, GotoFacts DEF Steps
  <2>3. BalanceFits'
    <3>1. calls'[h] = k /\ \A g \in Handler : g # h => calls[g] = Idle /\ calls'[g] = Idle
      BY <1>1, <1>3, <2>2, WorkShape
    <3>2. balance' = entries'
      BY <1>1, <1>3, <2>1 DEF BalanceFits, At
    <3>3. \A g \in Handler : ~At(g, "write")' /\ ~At(g, "ledger")'
      BY <2>2, <3>1 DEF At, Idle
    <3> QED
      BY <3>2, <3>3 DEF BalanceFits
  <2>4. CreditsWait(c)'
    <3>1. CASE kind[c] # "credits"
      BY <1>1, <3>1 DEF CreditsWait
    <3>2. CASE kind[c] = "credits"
      <4>1. About(1, c, "paid") /\ 1 \in DOMAIN due /\ ~Past({"answer"})
        <5>1. 1 \in DOMAIN due /\ due[1] = calls[h].event /\ \A S : Past(S) <=> calls[h].step \in S
          BY <1>1, <1>3, <2>2, WorkShape
        <5> QED
          BY <1>2, <1>4, <2>1, <5>1 DEF About, Type, Session
      <4>2. bought[c] = 0
        BY <1>3, <3>2, <4>1 DEF CreditsWait, Waits
      <4>3. bought'[c] = 1
        BY <1>6, <2>1, <3>2, <4>2
      <4>4. Past({"answer"})'
        <5>1. \A S : Past(S)' <=> k # Idle /\ k.step \in S
          BY <1>1, <1>3, <2>2, WorkShape
        <5>2. k # Idle
          BY <2>2 DEF Idle
        <5> QED
          BY <2>2, <5>1, <5>2
      <4>5. \A t : \A i \in DOMAIN due : About(i, c, t)' <=> About(i, c, t)
        BY <1>1 DEF About
      <4>6. \A i \in DOMAIN due : About(i, c, "paid") => i = 1
        BY <1>3, <3>2, <4>1 DEF CreditsWait
      <4> QED
        BY <1>1, <1>3, <3>2, <4>3, <4>4, <4>5, <4>6 DEF CreditsWait, Waits
    <3> QED
      BY <3>1, <3>2
  <2>5. \A x \in Checkout : x # c => bought'[x] = bought[x]
    BY <1>6, <2>1
  <2> QED
    BY <1>7, <2>2, <2>3, <2>4, <2>5
<1> QED
  BY <1>8, <1>9, <1>10, <1>11

\* A delivery starts the one handler.
LEMMA DeliverCalm ==
  ASSUME StripeInv, CalmFits, NEW e \in ToSet(due), NEW h \in Handler, Deliver(e, h)
  PROVE  CalmFits'
<1> SUFFICES ASSUME calm'
             PROVE  /\ OneAtATime' /\ BalanceFits'
                    /\ \A c \in Checkout : InsertsWait(c)' /\ CreditsWait(c)' /\ StatusWaits(c)'
  BY DEF CalmFits
<1>1. /\ calm /\ e = Head(due) /\ \A g \in Handler : calls[g] = Idle
      /\ UNCHANGED <<kind, sub, invoices, due, payment, balance, entries, bought>>
      /\ \E k : calls' = [calls EXCEPT ![h] = k] /\ k.step = "start" /\ k.event = e
  <2>1. calm' = (calm /\ e = Head(due) /\ \A g \in Handler : calls[g] = Idle)
    BY DEF Deliver
  <2>2. calm /\ e = Head(due) /\ \A g \in Handler : calls[g] = Idle
    BY <2>1, Zenon
  <2>3. UNCHANGED <<kind, sub, invoices, due, payment, balance, entries, bought>>
    BY DEF Deliver, stripeVars, dbVars
  <2> DEFINE k == [step |-> "start", event |-> e, seen |-> "none", read |-> 0]
  <2>4. calls' = [calls EXCEPT ![h] = k] /\ k.step = "start" /\ k.event = e
    BY DEF Deliver
  <2> QED
    BY <2>2, <2>3, <2>4
<1>2. /\ BalanceFits
      /\ \A c \in Checkout : InsertsWait(c) /\ CreditsWait(c) /\ StatusWaits(c)
  BY <1>1 DEF CalmFits
<1>3. calls \in [Handler -> Call \cup {Idle}] /\ due \in Seq(Event)
  BY DEF StripeInv, Types, TypeOK
<1>4. /\ calls'[h].step = "start" /\ calls'[h].event = e
      /\ \A g \in Handler : g # h => calls'[g] = Idle
  BY <1>1, <1>3
<1>5. due # <<>>
  BY DEF ToSet
<1>6. OneAtATime'
  BY <1>1, <1>4, <1>5 DEF OneAtATime
<1>7. BalanceFits'
  <2>1. \A g \in Handler : /\ ~At(g, "write") /\ ~At(g, "ledger")
                           /\ ~At(g, "write")' /\ ~At(g, "ledger")'
    BY <1>1, <1>4 DEF At
  <2> QED
    BY <1>1, <1>2, <2>1 DEF BalanceFits
<1>8. ~Past({"answer"}) /\ ~Past({"answer"})'
  BY <1>1, <1>4 DEF Past
<1>9. ~Past(Crediting \cup {"answer"}) /\ ~Past(Crediting \cup {"answer"})'
  BY <1>1, <1>4 DEF Past, Crediting
<1>10. \A g \in Handler : ~At(g, "insert")' /\ ~At(g, "mark")'
  BY <1>4 DEF At
<1>11. ASSUME NEW c \in Checkout
       PROVE  InsertsWait(c)' /\ CreditsWait(c)' /\ StatusWaits(c)'
  <2>1. \A t, i : About(i, c, t)' <=> About(i, c, t)
    BY <1>1 DEF About
  <2>2. InsertsWait(c)'
    BY <1>1, <1>2, <1>8, <2>1 DEF InsertsWait, Waits
  <2>3. CreditsWait(c)'
    BY <1>1, <1>2, <1>8, <2>1 DEF CreditsWait, Waits
  <2>4. StatusWaits(c)'
    <3>1. \A i : LastAbout(i, c)' <=> LastAbout(i, c)
      BY <1>1 DEF LastAbout
    <3> QED
      BY <1>1, <1>2, <1>9, <1>10, <3>1 DEF StatusWaits, Waits
  <2> QED
    BY <2>2, <2>3, <2>4
<1> QED
  BY <1>6, <1>7, <1>11

\* What was handled leaves the queue, and the next delivery is the oldest.
LEMMA AnswerCalm ==
  ASSUME StripeInv, CalmFits, calm, NEW h \in Handler, Answer(h)
  PROVE  CalmFits'
<1>1. /\ calls[h] # Idle /\ calls[h].step = "answer" /\ Answered(calls[h].event)
      /\ calls' = [calls EXCEPT ![h] = Idle]
      /\ UNCHANGED <<kind, sub, invoices, payment, balance, entries, bought>>
  BY DEF Answer, At, Calm, stripeVars, dbVars
<1>2. /\ OneAtATime /\ BalanceFits
      /\ \A c \in Checkout : InsertsWait(c) /\ CreditsWait(c) /\ StatusWaits(c)
  BY DEF CalmFits
<1>3. /\ \A g \in Handler : g # h => calls[g] = Idle
      /\ \A g \in Handler : calls'[g] = Idle
      /\ due # <<>> /\ Head(due) = calls[h].event
      /\ \A S : Past(S) <=> "answer" \in S
  <2>1. /\ calls'[h] = Idle /\ \A g \in Handler : g # h => calls[g] = Idle /\ calls'[g] = Idle
        /\ due[1] = calls[h].event /\ due # <<>> /\ Head(due) = due[1]
    BY <1>1, <1>2, WorkShape
  <2>2. \A S : Past(S) <=> calls[h].step \in S
    BY <1>1, <1>2, WorkShape
  <2> QED
    BY <1>1, <2>1, <2>2
<1>4. \A S : ~Past(S)'
  BY <1>3 DEF Past
<1>5. Past({"answer"}) /\ Past(Crediting \cup {"answer"})
  BY <1>3
<1>6. due \in Seq(Event)
  BY DEF StripeInv, Types
<1>7. /\ due' \in Seq(Event) /\ Len(due') = Len(due) - 1
      /\ \A i \in 1 .. Len(due') : due'[i] = due[i + 1]
  BY <1>1, <1>3, <1>6, AnsweredFacts
<1>8. /\ DOMAIN due = 1 .. Len(due) /\ DOMAIN due' = 1 .. Len(due) - 1 /\ Len(due) \in Nat
      /\ 1 \in DOMAIN due
  BY <1>3, <1>6, <1>7
<1>9. \A i \in DOMAIN due' : /\ i \in Nat /\ i + 1 \in DOMAIN due /\ i + 1 # 1
                             /\ due'[i] = due[i + 1]
  BY <1>7, <1>8
<1>10. \A i \in DOMAIN due : i # 1 => /\ i \in Nat /\ i - 1 \in DOMAIN due'
                                      /\ due'[i - 1] = due[i]
  BY <1>7, <1>8
<1>11. OneAtATime'
  BY <1>3 DEF OneAtATime
<1>12. BalanceFits'
  <2>1. \A g \in Handler : /\ ~At(g, "write") /\ ~At(g, "ledger")
                           /\ ~At(g, "write")' /\ ~At(g, "ledger")'
    BY <1>1, <1>3 DEF At
  <2> QED
    BY <1>1, <1>2, <2>1 DEF BalanceFits
<1>13. ASSUME NEW c \in Checkout
       PROVE  InsertsWait(c)' /\ CreditsWait(c)' /\ StatusWaits(c)'
  <2>1. \A t : \A i \in DOMAIN due' : About(i, c, t)' <=> About(i + 1, c, t)
    BY <1>9 DEF About
  <2>2. \A t : \A i \in DOMAIN due : i # 1 => (About(i - 1, c, t)' <=> About(i, c, t))
    BY <1>10 DEF About
  <2>3. \A S, i : Waits(i, S)'
    BY <1>4 DEF Waits
  <2>4. \A S, i : i # 1 => Waits(i, S)
    BY DEF Waits
  <2>5. ~Waits(1, {"answer"}) /\ ~Waits(1, Crediting \cup {"answer"})
    BY <1>5 DEF Waits
  <2>6. InsertsWait(c)'
    <3>1. ASSUME kind[c] # "none", payment[c] = <<>>
          PROVE  \E i \in DOMAIN due' :
                   /\ About(i, c, "completed")'
                   /\ \A j \in DOMAIN due' : j < i => due'[j].of # c
      <4>1. PICK i \in DOMAIN due :
              About(i, c, "completed") /\ \A j \in DOMAIN due : j < i => due[j].of # c
        BY <1>2, <3>1 DEF InsertsWait
      <4>2. i # 1
        BY <1>2, <2>5, <3>1, <4>1 DEF InsertsWait
      <4>3. i - 1 \in DOMAIN due' /\ About(i - 1, c, "completed")'
        BY <1>10, <2>2, <4>1, <4>2
      <4>4. ASSUME NEW j \in DOMAIN due', j < i - 1 PROVE due'[j].of # c
        <5>1. j + 1 < i /\ j + 1 \in DOMAIN due /\ due'[j] = due[j + 1]
          BY <1>8, <1>9, <4>4
        <5> QED
          BY <4>1, <5>1
      <4> QED
        BY <4>3, <4>4
    <3>2. ASSUME NEW i \in DOMAIN due', NEW j \in DOMAIN due',
                 About(i, c, "completed")', About(j, c, "completed")'
          PROVE  i = j
      <4>1. i + 1 = j + 1
        BY <1>2, <1>9, <2>1, <3>2 DEF InsertsWait
      <4> QED
        BY <1>9, <4>1
    <3>3. \A i \in DOMAIN due' : About(i, c, "completed")' => payment[c] = <<>>
      BY <1>2, <1>9, <2>1, <2>4 DEF InsertsWait
    <3> QED
      BY <1>1, <2>3, <3>1, <3>2, <3>3 DEF InsertsWait
  <2>7. CreditsWait(c)'
    <3> SUFFICES ASSUME kind[c] = "credits"
                 PROVE  CreditsWait(c)'
      BY <1>1 DEF CreditsWait
    <3>1. ASSUME NEW i \in DOMAIN due', NEW j \in DOMAIN due',
                 About(i, c, "paid")', About(j, c, "paid")'
          PROVE  i = j
      <4>1. i + 1 = j + 1
        BY <1>2, <1>9, <2>1, <3>1 DEF CreditsWait
      <4> QED
        BY <1>9, <4>1
    <3>2. \A i \in DOMAIN due' : About(i, c, "paid")' => bought[c] = 0
      BY <1>2, <1>9, <2>1, <2>4 DEF CreditsWait
    <3>3. ASSUME <<c, 0>> \in invoices, bought[c] = 0
          PROVE  \E i \in DOMAIN due' : About(i, c, "paid")'
      <4>1. PICK i \in DOMAIN due : About(i, c, "paid") /\ Waits(i, {"answer"})
        BY <1>2, <3>3 DEF CreditsWait
      <4>2. i # 1
        BY <2>5, <4>1
      <4> QED
        BY <1>10, <2>2, <4>1, <4>2
    <3>4. bought[c] \in {0, 1}
      BY <1>2 DEF CreditsWait
    <3> QED
      BY <1>1, <2>3, <3>1, <3>2, <3>3, <3>4 DEF CreditsWait
  <2>8. StatusWaits(c)'
    <3> SUFFICES ASSUME kind[c] = "subscription"
                 PROVE  StatusWaits(c)'
      BY <1>1 DEF StatusWaits
    <3>1. ASSUME NEW i \in DOMAIN due', LastAbout(i, c)'
          PROVE  LastAbout(i + 1, c)
      <4>1. due[i + 1].of = c
        BY <1>9, <3>1 DEF LastAbout
      <4>2. ASSUME NEW j \in DOMAIN due, j > i + 1 PROVE due[j].of # c
        <5>1. j # 1 /\ j - 1 > i /\ j - 1 \in DOMAIN due' /\ due'[j - 1] = due[j]
          BY <1>8, <1>9, <1>10, <4>2
        <5> QED
          BY <3>1, <5>1 DEF LastAbout
      <4> QED
        BY <4>1, <4>2 DEF LastAbout
    <3>2. \A i \in DOMAIN due' : LastAbout(i, c)' /\ due'[i].type \in {"updated", "deleted"} =>
            due'[i].status = sub[c]
      BY <1>2, <1>9, <3>1 DEF StatusWaits
    <3>3. \A g \in Handler : ~At(g, "insert")' /\ ~At(g, "mark")'
      BY <1>3 DEF At
    <3>4. ASSUME payment[c] # <<>>, \A i \in DOMAIN due' : due'[i].of # c
          PROVE  payment[c][1].status = sub[c]
      <4>1. \A i \in DOMAIN due : due[i].of = c => i = 1
        BY <1>10, <3>4
      <4> QED
        BY <1>2, <2>5, <3>4, <4>1 DEF StatusWaits
    <3> QED
      BY <1>1, <2>3, <3>2, <3>3, <3>4 DEF StatusWaits
  <2> QED
    BY <2>6, <2>7, <2>8
<1> QED
  BY <1>11, <1>12, <1>13 DEF CalmFits

\* While nothing is late, repeated or broken off the books fit what Stripe
\* reported.
LEMMA CalmStep == StripeInv /\ CalmFits /\ [Next]_vars => CalmFits'
<1> SUFFICES ASSUME StripeInv, CalmFits, [Next]_vars PROVE CalmFits'
  OBVIOUS
<1>1. ASSUME NEW c \in Checkout,
             \/ \E k \in Kinds : Complete(c, k)
             \/ Pay(c) \/ \E n \in 1 .. MaxInvoice : Renew(c, n)
             \/ \E s \in {"past_due", "canceled"} : SubChanges(c, s)
      PROVE  CalmFits'
  BY <1>1, StripeCalm
<1>2. ASSUME NEW e \in ToSet(due), NEW h \in Handler, Deliver(e, h)
      PROVE  CalmFits'
  BY <1>2, DeliverCalm
<1>3. ASSUME Fault PROVE CalmFits'
  BY <1>3 DEF Fault, CalmFits
<1>4. ASSUME NEW h \in Handler, HandlerStep(h)
      PROVE  CalmFits'
  <2>1. CASE calm
    BY <1>4, <2>1, LookupCalm, InsertCalm, MarkCalm, CreditCalm, ChangedCalm, AnswerCalm
       DEF HandlerStep
  <2>2. CASE ~calm
    <3>1. calm' = calm
      BY <1>4 DEF HandlerStep, CheckoutCompleted, InsertRow, InsertDuplicate, InvoicePaid,
           InvoiceUnknown, MarkPaid, NoBenefit, ReadBalance, WriteBalance, WriteLedger,
           SubscriptionChanged, Answer, Calm
    <3> QED
      BY <2>2, <3>1 DEF CalmFits
  <2> QED
    BY <2>1, <2>2
<1>5. ASSUME NEW e \in sent, Repeat(e) PROVE CalmFits'
  BY <1>3, <1>5 DEF Repeat
<1>6. ASSUME NEW h \in Handler, Broken(h) PROVE CalmFits'
  BY <1>3, <1>6 DEF Broken
<1>7. CASE UNCHANGED vars
  <2>1. UNCHANGED <<kind, sub, invoices, due, calls, payment, balance, entries, bought, calm>>
    BY <1>7 DEF vars, stripeVars, dbVars
  <2>2. OneAtATime' <=> OneAtATime
    BY <2>1 DEF OneAtATime
  <2>3. BalanceFits' <=> BalanceFits
    BY <2>1 DEF BalanceFits, At
  <2>4. \A S, i : Waits(i, S)' <=> Waits(i, S)
    BY <2>1 DEF Waits, Past
  <2>5. ASSUME NEW c \in Checkout
        PROVE  /\ InsertsWait(c)' <=> InsertsWait(c)
               /\ CreditsWait(c)' <=> CreditsWait(c)
               /\ StatusWaits(c)' <=> StatusWaits(c)
    <3>1. \A i, t : About(i, c, t)' <=> About(i, c, t)
      BY <2>1 DEF About
    <3>2. InsertsWait(c)' <=> InsertsWait(c)
      BY <2>1, <2>4, <3>1 DEF InsertsWait
    <3>3. CreditsWait(c)' <=> CreditsWait(c)
      BY <2>1, <2>4, <3>1 DEF CreditsWait
    <3>4. StatusWaits(c)' <=> StatusWaits(c)
      BY <2>1, <2>4 DEF StatusWaits, LastAbout, At
    <3> QED
      BY <3>2, <3>3, <3>4
  <2> QED
    BY <2>1, <2>2, <2>3, <2>5 DEF CalmFits
<1> QED
  BY <1>1, <1>2, <1>4, <1>5, <1>6, <1>7 DEF Next

\* The empty books fit.
LEMMA CalmInit == Init => CalmFits
<1> SUFFICES ASSUME Init PROVE CalmFits
  OBVIOUS
<1>1. /\ \A h \in Handler : calls[h] = Idle
      /\ \A c \in Checkout : kind[c] = "none" /\ payment[c] = <<>>
      /\ due = <<>> /\ balance = entries /\ DOMAIN due = {}
  BY DEF Init
<1>2. OneAtATime /\ BalanceFits
  BY <1>1 DEF OneAtATime, BalanceFits, At
<1>3. \A c \in Checkout : InsertsWait(c) /\ CreditsWait(c) /\ StatusWaits(c)
  BY <1>1 DEF InsertsWait, CreditsWait, StatusWaits
<1> QED
  BY <1>2, <1>3 DEF CalmFits

\* When every event of a calm behaviour is handled, the rows follow Stripe, a
\* package is credited exactly once and the balance is what the ledger adds up to.
LEMMA CalmBooksFollow == StripeInv /\ CalmFits => CalmBooks
<1> SUFFICES ASSUME StripeInv, CalmFits, calm, AllDone
             PROVE  /\ balance = entries
                    /\ \A c \in Checkout :
                         /\ bought[c] = IF kind[c] = "credits" /\ <<c, 0>> \in invoices THEN 1 ELSE 0
                         /\ kind[c] = "subscription" => payment[c][1].status = sub[c]
  BY DEF CalmBooks
<1>1. /\ BalanceFits
      /\ \A c \in Checkout : InsertsWait(c) /\ CreditsWait(c) /\ StatusWaits(c)
      /\ DOMAIN due = {} /\ \A h \in Handler : calls[h] = Idle
  BY DEF CalmFits, AllDone
<1>2. balance = entries
  BY <1>1 DEF BalanceFits, At
<1>3. ASSUME NEW c \in Checkout
      PROVE  bought[c] = IF kind[c] = "credits" /\ <<c, 0>> \in invoices THEN 1 ELSE 0
  <2>1. CASE kind[c] = "credits" /\ <<c, 0>> \in invoices
    BY <1>1, <2>1 DEF CreditsWait
  <2>2. CASE ~(kind[c] = "credits" /\ <<c, 0>> \in invoices)
    <3>1. ~(bought[c] > 0)
      BY <2>2 DEF StripeInv, RowsFit
    <3>2. bought[c] \in Nat
      BY DEF StripeInv, Types, TypeOK
    <3> QED
      BY <2>2, <3>1, <3>2
  <2> QED
    BY <2>1, <2>2
<1>4. ASSUME NEW c \in Checkout, kind[c] = "subscription"
      PROVE  payment[c][1].status = sub[c]
  <2>1. payment[c] # <<>>
    BY <1>1, <1>4 DEF InsertsWait
  <2> QED
    BY <1>1, <1>4, <2>1 DEF StatusWaits
<1> QED
  BY <1>2, <1>3, <1>4

\* While events come in order, one at a time, once and without failure, the
\* books are right when all are handled: rows have the status of their
\* subscription, packages are credited once, balance and ledger agree.
THEOREM CalmBooksHold == Spec => []CalmBooks
<1>1. Spec => [](StripeInv /\ CalmFits)
  BY StripeInit, StripeStep, CalmInit, CalmStep, PTL DEF Spec
<1> QED
  BY <1>1, CalmBooksFollow, PTL
=============================================================================
