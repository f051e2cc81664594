------------------------- MODULE StoreAccessProofs --------------------------
(***************************************************************************)
(* Proofs about the access to a store, for every number of devices, links, *)
(* shelves and attempts: types, one editor per link, sessions that follow  *)
(* the password, bounded guesses, and shelves that stay.                   *)
(***************************************************************************)
EXTENDS StoreAccess, FiniteSetTheorems, TLAPS

----------------------------------------------------------------------------
(* The inductive invariant.                                                *)

\* What a request has found out, against the state as it is now: only the
\* holder of a link that no other request and no device holds is at "enter";
\* the version that was proved is the one the cookie will be signed for; the
\* map that was read is the published one unless its revision is older.
Fits(d, c) ==
  /\ c.kind = "enter" => c.for \in Link
  /\ c.step \in {"platform", "consume", "enter"} => c.kind = "enter"
  /\ c.step # "config" => c.pin \in Pin
  /\ c.step = "consume" => c.row \in Pin
  /\ c.step = "map" => c.kind \in {"save", "work"}
  /\ c.step = "write" => c.kind = "save"
  /\ c.kind = "save" => draft[d].revision < MaxRevision
  /\ c.step = "enter" =>
       entry[c.for].state = "used" /\ opened[c.for] = {} /\ c.by = c.row
  /\ c.step \in {"release", "write", "answer"} => c.by = c.pin
  /\ c.seen.revision <= map.revision
  /\ c.seen.revision = map.revision => c.seen.shelves = map.shelves
  /\ c.step \in {"config", "map", "reserve", "release"} => c.seen.revision = 0
  /\ c.step = "write" /\ c.seen.revision > 0 => d \in Editors
  /\ c.step = "stock" => c.for \in map.shelves

CallsFit == \A d \in Device : Busy(d) => Fits(d, calls[d])

EnterAlone ==
  \A d, e \in Device :
    At(d, "enter") /\ At(e, "enter") /\ calls[d].for = calls[e].for => d = e

LinksSpent ==
  \A l \in Link : opened[l] # {} =>
    entry[l].state = "used" /\ \E d \in Device : opened[l] = {d}

Earned ==
  \A d \in Device :
    /\ \A role \in Roles : session[d][role].by = session[d][role].pin
    /\ session[d]["owner"] # NoSession => d \in Editors

\* Requests that hold an attempt which they will give back.
Holding(w) == {d \in Device : At(d, "release") /\ calls[d].window = w}
AttemptsCover ==
  \A w \in Window :
    wrong[w] <= MaxGuesses /\ wrong[w] + Cardinality(Holding(w)) <= tries[w]

MapFits == (map.revision = 0 => map.shelves = {}) /\ stocked \subseteq map.shelves

IInv ==
  /\ TypeOK /\ CallsFit /\ EnterAlone /\ LinksSpent /\ Earned /\ AttemptsCover /\ MapFits

----------------------------------------------------------------------------
(* Attempts.                                                               *)

LEMMA HoldingFinite ==
  ASSUME NEW w PROVE IsFiniteSet(Holding(w)) /\ Cardinality(Holding(w)) \in Nat
<1>1. Holding(w) \subseteq Device
  BY DEF Holding
<1> QED BY <1>1, AccessAssumption, FS_Subset, FS_CardinalityType

(* Requests that end, or that move without reserving, hold no more.        *)
LEMMA AttemptsKept ==
  ASSUME TypeOK, AttemptsCover, UNCHANGED <<tries, wrong>>,
         \A w \in Window : Holding(w)' \subseteq Holding(w)
  PROVE  AttemptsCover'
<1> SUFFICES ASSUME NEW w \in Window
             PROVE  /\ wrong[w] <= MaxGuesses
                    /\ wrong[w] + Cardinality(Holding(w)') <= tries[w]
  BY DEF AttemptsCover
<1>1. IsFiniteSet(Holding(w)) /\ Cardinality(Holding(w)) \in Nat
  BY HoldingFinite
<1>2. IsFiniteSet(Holding(w)') /\ Cardinality(Holding(w)') <= Cardinality(Holding(w))
  BY <1>1, FS_Subset
<1>3. Cardinality(Holding(w)') \in Nat
  BY <1>2, FS_CardinalityType
<1> QED BY <1>1, <1>2, <1>3 DEF AttemptsCover, TypeOK

(* A request that moves without holding an attempt afterwards.             *)
LEMMA HoldsNoMore ==
  ASSUME TypeOK, NEW d \in Device, NEW n, calls' = [calls EXCEPT ![d] = n],
         n = Idle \/ n.step # "release"
  PROVE  \A w \in Window : Holding(w)' \subseteq Holding(w) \ {d}
BY DEF Holding, At, Busy, TypeOK

----------------------------------------------------------------------------
(* Requests that only move.                                                *)

(* A request that ends without a further effect.                           *)
LEMMA EndKeeps ==
  ASSUME IInv, NEW d \in Device, Done(d), CallsOnly
  PROVE  IInv'
<1>1. \A e \in Device : e # d => calls'[e] = calls[e]
  BY DEF Done, IInv, TypeOK
<1>2. calls'[d] = Idle
  BY DEF Done, IInv, TypeOK
<1>3. TypeOK'
  BY DEF IInv, TypeOK, Done, CallsOnly, platformVars, guessVars
<1>4. CallsFit'
  BY <1>1, <1>2 DEF IInv, CallsFit, Fits, Busy, CallsOnly, platformVars, Editors
<1>5. EnterAlone'
  BY <1>1, <1>2 DEF IInv, EnterAlone, At, Busy
<1>6. LinksSpent' /\ Earned' /\ MapFits'
  BY DEF IInv, LinksSpent, Earned, MapFits, CallsOnly, platformVars, Editors
<1>7. AttemptsCover'
  BY HoldsNoMore, AttemptsKept DEF IInv, Done, CallsOnly, guessVars
<1> QED BY <1>3, <1>4, <1>5, <1>6, <1>7 DEF IInv

(* A request that moves on to a step that fits what it has read.           *)
LEMMA MoveKeeps ==
  ASSUME IInv, NEW d \in Device, NEW n \in Call, calls' = [calls EXCEPT ![d] = n],
         Fits(d, n), n.step \notin {"enter", "release"}, CallsOnly
  PROVE  IInv'
<1>1. \A e \in Device : e # d => calls'[e] = calls[e]
  BY DEF IInv, TypeOK
<1>2. calls'[d] = n
  BY DEF IInv, TypeOK
<1>3. TypeOK'
  BY DEF IInv, TypeOK, CallsOnly, platformVars, guessVars
<1>4. CallsFit'
  BY <1>1, <1>2 DEF IInv, CallsFit, Fits, Busy, CallsOnly, platformVars, Editors
<1>5. EnterAlone'
  BY <1>1, <1>2 DEF IInv, EnterAlone, At, Busy
<1>6. LinksSpent' /\ Earned' /\ MapFits'
  BY DEF IInv, LinksSpent, Earned, MapFits, CallsOnly, platformVars, Editors
<1>7. AttemptsCover'
  BY HoldsNoMore, AttemptsKept DEF IInv, CallsOnly, guessVars
<1> QED BY <1>3, <1>4, <1>5, <1>6, <1>7 DEF IInv

LEMMA BusyCall ==
  ASSUME IInv, NEW d \in Device, NEW step, At(d, step)
  PROVE  calls[d] \in Call /\ calls[d].step = step /\ Fits(d, calls[d]) /\ calls[d] # Idle
BY DEF IInv, TypeOK, CallsFit, At, Busy

LEMMA InitHolds == Init => IInv
<1> SUFFICES ASSUME Init PROVE IInv
  OBVIOUS
<1>1. TypeOK
  BY AccessAssumption DEF Init, TypeOK, Pin, Window, Map, NoMap, NoEntry, NoSession, Roles
<1>2. \A d \in Device : ~Busy(d) /\ \A step \in Steps : ~At(d, step)
  BY DEF Init, Busy, At
<1>3. CallsFit /\ EnterAlone
  BY <1>2 DEF CallsFit, EnterAlone, Steps
<1>4. LinksSpent /\ Earned /\ MapFits
  BY DEF Init, LinksSpent, Earned, MapFits, NoSession, NoMap, Roles
<1>5. AttemptsCover
  <2>1. \A w \in Window : Holding(w) = {}
    BY <1>2 DEF Holding, Steps
  <2>2. Cardinality({}) = 0
    BY FS_EmptySet
  <2>3. \A w \in Window : wrong[w] = 0 /\ tries[w] = 0
    BY DEF Init
  <2> QED BY <2>1, <2>2, <2>3, AccessAssumption DEF AttemptsCover
<1> QED BY <1>1, <1>3, <1>4, <1>5 DEF IInv
----------------------------------------------------------------------------
(* The steps of a request that only read.                                  *)

LEMMA SendKeeps ==
  ASSUME IInv, NEW d \in Device, NEW kind \in Kinds, NEW for, NEW typed \in 0 .. MaxPin,
         Send(d, kind, for, typed),
         for \in Link \cup Shelf \cup {"none"}, kind = "enter" => for \in Link,
         kind = "save" => draft[d].revision < MaxRevision
  PROVE  IInv'
<1> DEFINE n == [kind |-> kind, step |-> "config", for |-> for, typed |-> typed,
                 pin |-> 0, row |-> 0, by |-> 0, window |-> 0, seen |-> NoMap]
<1>1. n \in Call
  BY AccessAssumption DEF Call, Steps, Map, NoMap, Window
<1>2. n.step = "config" /\ n.kind = kind /\ n.for = for /\ n.seen = NoMap
  OBVIOUS
<1>3. CallsOnly /\ calls' = [calls EXCEPT ![d] = n]
  BY DEF Send, CallsOnly, Browser, platformVars, guessVars
<1> HIDE DEF n
<1>4. Fits(d, n)
  BY <1>2 DEF Fits, NoMap, IInv, MapFits, TypeOK, Map
<1> QED BY <1>1, <1>2, <1>3, <1>4, MoveKeeps

LEMMA ReadConfigKeeps ==
  ASSUME IInv, NEW d \in Device, ReadConfig(d)
  PROVE  IInv'
<1> DEFINE c == calls[d]
           step == CASE Kind(d) = "enter" -> "platform"
                     [] Kind(d) = "unlock" -> "reserve"
                     [] OTHER -> "map"
           n == [c EXCEPT !.pin = pin, !.window = window, !.step = step]
<1>1. c \in Call /\ c.step = "config" /\ Fits(d, c)
  BY BusyCall DEF ReadConfig
<1>2. /\ step \in {"platform", "reserve", "map"}
      /\ step = "platform" <=> c.kind = "enter"
      /\ step = "map" => c.kind \in {"save", "work"}
  BY <1>1 DEF Call, Kinds, Kind
<1>3. pin \in Pin /\ pin \in 0 .. MaxPin /\ window \in Window
  BY DEF IInv, TypeOK, Pin
<1>4. calls' = [calls EXCEPT ![d] = n] /\ CallsOnly
  BY DEF ReadConfig, IInv, TypeOK
<1> HIDE DEF step
<1>5. n \in Call
  BY <1>1, <1>2, <1>3 DEF Call, Steps
<1>6. n.step = step /\ n.kind = c.kind /\ n.for = c.for /\ n.pin = pin /\ n.seen = c.seen
  BY <1>1 DEF Call
<1> HIDE DEF n
<1>7. Fits(d, n)
  BY <1>1, <1>2, <1>3, <1>6 DEF Fits
<1> QED BY <1>2, <1>4, <1>5, <1>6, <1>7, MoveKeeps

LEMMA AskPlatformKeeps ==
  ASSUME IInv, NEW d \in Device, AskPlatform(d)
  PROVE  IInv'
<1> DEFINE c == calls[d]
           n == [c EXCEPT !.row = pin, !.step = "consume"]
<1>1. c \in Call /\ c.step = "platform" /\ Fits(d, c)
  BY BusyCall DEF AskPlatform
<1>2. pin \in Pin /\ pin \in 0 .. MaxPin
  BY DEF IInv, TypeOK, Pin
<1>3. calls' = [calls EXCEPT ![d] = n] /\ CallsOnly
  BY DEF AskPlatform, IInv, TypeOK
<1>4. n \in Call
  BY <1>1, <1>2 DEF Call, Steps
<1>5. /\ n.step = "consume" /\ n.kind = c.kind /\ n.for = c.for /\ n.pin = c.pin
      /\ n.row = pin /\ n.seen = c.seen
  BY <1>1 DEF Call
<1> HIDE DEF n
<1>6. Fits(d, n)
  BY <1>1, <1>2, <1>5 DEF Fits
<1> QED BY <1>3, <1>4, <1>5, <1>6, MoveKeeps

LEMMA ReadMapKeeps ==
  ASSUME IInv, NEW d \in Device, ReadMap(d)
  PROVE  IInv'
<1> DEFINE c == calls[d]
           first == map.revision = 0
           seen == IF Kind(d) = "save" THEN map ELSE NoMap
           by == IF Kind(d) = "save" /\ ~first THEN session[d]["owner"].by ELSE c.by
           step == CASE Kind(d) = "work" -> "shelf"
                     [] Kind(d) = "save" /\ first -> "reserve"
                     [] OTHER -> "write"
           n == [c EXCEPT !.seen = seen, !.window = window, !.by = by, !.step = step]
<1>1. c \in Call /\ c.step = "map" /\ Fits(d, c)
  BY BusyCall DEF ReadMap
<1>2. calls' = [calls EXCEPT ![d] = n] /\ CallsOnly
  BY DEF ReadMap, IInv, TypeOK
<1>3. c.kind \in {"save", "work"} /\ c.pin \in Pin
  BY <1>1 DEF Fits
<1>4. session[d]["owner"] \in Session \cup {NoSession}
  BY DEF IInv, TypeOK, Roles
<1>5. map \in Map /\ window \in Window /\ NoMap \in Map
  BY AccessAssumption DEF IInv, TypeOK, Map, NoMap
<1>6. CASE c.kind = "work"
  <2>1. seen = NoMap /\ by = c.by /\ step = "shelf"
    BY <1>6 DEF Kind
  <2> HIDE DEF seen, by, step
  <2>2. n \in Call
    BY <1>1, <1>5, <2>1 DEF Call, Steps
  <2>3. /\ n.step = "shelf" /\ n.kind = "work" /\ n.pin = c.pin /\ n.seen = NoMap
    BY <1>1, <1>6, <2>1 DEF Call
  <2> HIDE DEF n
  <2>4. Fits(d, n)
    BY <1>3, <1>5, <2>3 DEF Fits, NoMap, Map, IInv, MapFits
  <2> QED BY <1>2, <2>2, <2>3, <2>4, MoveKeeps
<1>7. CASE c.kind = "save" /\ first
  <2>1. seen = map /\ by = c.by /\ step = "reserve"
    BY <1>7 DEF Kind
  <2> HIDE DEF seen, by, step
  <2>2. n \in Call
    BY <1>1, <1>5, <2>1 DEF Call, Steps
  <2>3. /\ n.step = "reserve" /\ n.kind = "save" /\ n.pin = c.pin /\ n.seen = map
    BY <1>1, <1>7, <2>1 DEF Call
  <2> HIDE DEF n
  <2>4. Fits(d, n)
    BY <1>1, <1>3, <1>5, <1>7, <2>3 DEF Fits, Map
  <2> QED BY <1>2, <2>2, <2>3, <2>4, MoveKeeps
<1>8. CASE c.kind = "save" /\ ~first
  <2>1. seen = map /\ by = session[d]["owner"].by /\ step = "write"
    BY <1>8 DEF Kind
  <2>2. session[d]["owner"].pin = c.pin
    BY <1>8 DEF ReadMap, Accepted, Kind
  <2>3. session[d]["owner"] # NoSession
    BY <1>3, <2>2 DEF NoSession, Pin
  <2>4. d \in Editors /\ session[d]["owner"].by = c.pin
    BY <2>2, <2>3 DEF IInv, Earned, Roles
  <2> HIDE DEF seen, by, step
  <2>5. session[d]["owner"].by \in 0 .. MaxPin
    BY <1>3, <2>4 DEF Pin
  <2>6. n \in Call
    BY <1>1, <1>5, <2>1, <2>5 DEF Call, Steps
  <2>7. /\ n.step = "write" /\ n.kind = "save" /\ n.pin = c.pin /\ n.seen = map
        /\ n.by = c.pin
    BY <1>1, <1>8, <2>1, <2>4 DEF Call
  <2> HIDE DEF n
  <2>8. Fits(d, n)
    BY <1>1, <1>3, <1>5, <1>8, <2>4, <2>7 DEF Fits, Map
  <2> QED BY <1>2, <2>6, <2>7, <2>8, MoveKeeps
<1> QED BY <1>3, <1>6, <1>7, <1>8

LEMMA CheckShelfKeeps ==
  ASSUME IInv, NEW d \in Device, CheckShelf(d)
  PROVE  IInv'
<1> DEFINE c == calls[d]
           n == [c EXCEPT !.step = "stock"]
<1>1. c \in Call /\ c.step = "shelf" /\ Fits(d, c) /\ c.for \in map.shelves
  BY BusyCall DEF CheckShelf
<1>2. calls' = [calls EXCEPT ![d] = n] /\ CallsOnly
  BY DEF CheckShelf, Goto, IInv, TypeOK
<1>3. n \in Call
  BY <1>1 DEF Call, Steps
<1>4. /\ n.step = "stock" /\ n.kind = c.kind /\ n.for = c.for /\ n.pin = c.pin
      /\ n.seen = c.seen
  BY <1>1 DEF Call
<1> HIDE DEF n
<1>5. Fits(d, n)
  BY <1>1, <1>4 DEF Fits
<1> QED BY <1>2, <1>3, <1>4, <1>5, MoveKeeps
----------------------------------------------------------------------------
(* The steps that leave all requests where they are.                       *)

(* What is proved of requests looks only at the links, the drafts' revision *)
(* and the map of the rest of the state.                                   *)
LEMMA RestKeeps ==
  ASSUME IInv, UNCHANGED <<calls, tries, wrong, map, stocked, opened, session>>,
         \A l \in Link : entry[l].state = "used" => entry'[l] = entry[l],
         \A d \in Device : Busy(d) => draft'[d] = draft[d]
  PROVE  CallsFit' /\ EnterAlone' /\ LinksSpent' /\ Earned' /\ AttemptsCover' /\ MapFits'
<1>1. CallsFit'
  BY DEF IInv, CallsFit, Fits, Busy, Editors
<1>2. EnterAlone' /\ LinksSpent' /\ Earned' /\ MapFits'
  BY DEF IInv, EnterAlone, LinksSpent, Earned, MapFits, Editors, At, Busy
<1>3. AttemptsCover'
  <2>1. \A w \in Window : Holding(w)' \subseteq Holding(w)
    BY DEF Holding, At, Busy
  <2> QED BY <2>1, AttemptsKept DEF IInv
<1> QED BY <1>1, <1>2, <1>3

LEMMA PlatformKeeps ==
  ASSUME IInv, PlatformStep
  PROVE  IInv'
<1>1. CASE ChangePin
  <2>1. TypeOK'
    BY <1>1, AccessAssumption DEF IInv, TypeOK, ChangePin, guessVars, Pin
  <2> QED BY <1>1, <2>1, RestKeeps DEF IInv, ChangePin, guessVars
<1>2. ASSUME NEW l \in Link, CreateOwnerMapEntry(l) PROVE IInv'
  <2>1. [state |-> "making", pin |-> pin] \in Entry
    BY DEF Entry, IInv, TypeOK
  <2>2. TypeOK'
    BY <1>2, <2>1 DEF IInv, TypeOK, CreateOwnerMapEntry, EntryOnly, guessVars
  <2>3. \A k \in Link : entry[k].state = "used" => entry'[k] = entry[k]
    BY <1>2 DEF CreateOwnerMapEntry, NoEntry, IInv, TypeOK
  <2> QED BY <1>2, <2>2, <2>3, RestKeeps DEF IInv, CreateOwnerMapEntry, EntryOnly, guessVars
<1>3. ASSUME NEW l \in Link, InsertEntry(l) PROVE IInv'
  <2>1. [entry[l] EXCEPT !.state = "open"] \in Entry
    BY <1>3 DEF Entry, IInv, TypeOK, InsertEntry, NoEntry
  <2>2. TypeOK'
    BY <1>3, <2>1 DEF IInv, TypeOK, InsertEntry, EntryOnly, guessVars
  <2>3. \A k \in Link : entry[k].state = "used" => entry'[k] = entry[k]
    BY <1>3 DEF InsertEntry, IInv, TypeOK
  <2> QED BY <1>3, <2>2, <2>3, RestKeeps DEF IInv, InsertEntry, EntryOnly, guessVars
<1> QED BY <1>1, <1>2, <1>3 DEF PlatformStep

LEMMA NextWindowKeeps ==
  ASSUME IInv, NextWindow
  PROVE  IInv'
<1>1. TypeOK'
  BY AccessAssumption DEF IInv, TypeOK, NextWindow, platformVars, Window
<1> QED BY <1>1, RestKeeps DEF IInv, NextWindow, platformVars

LEMMA PageKeeps ==
  ASSUME IInv, NEW d \in Device, PageStep(d)
  PROVE  IInv'
<1>1. ASSUME NEW l \in Link, OpenLink(d, l) PROVE IInv'
  BY <1>1, SendKeeps, AccessAssumption DEF OpenLink, Kinds
<1>2. ASSUME NEW typed \in 0 .. MaxPin, Unlock(d, typed) PROVE IInv'
  BY <1>2, SendKeeps DEF Unlock, Kinds
<1>3. ASSUME NEW typed \in 0 .. MaxPin, Publish(d, typed) PROVE IInv'
  BY <1>3, SendKeeps DEF Publish, Kinds
<1>4. ASSUME NEW s \in Shelf, Work(d, s) PROVE IInv'
  BY <1>4, SendKeeps, AccessAssumption DEF Work, Kinds
<1>5. ASSUME NEW s \in Shelf, Draw(d, s) PROVE IInv'
  <2>1. [draft[d] EXCEPT !.shelves = @ \cup {s}] \in Map
    BY DEF IInv, TypeOK, Map
  <2>2. TypeOK'
    BY <1>5, <2>1 DEF IInv, TypeOK, Draw, Browser, platformVars, guessVars
  <2>3. \A e \in Device : Busy(e) => draft'[e] = draft[e]
    BY <1>5 DEF Draw, EditorOpen, IInv, TypeOK
  <2> QED BY <1>5, <2>2, <2>3, RestKeeps DEF IInv, Draw, Browser, platformVars, guessVars
<1>6. ASSUME LoadMap(d) PROVE IInv'
  <2>1. TypeOK'
    BY <1>6 DEF IInv, TypeOK, LoadMap, Browser, platformVars, guessVars
  <2>2. \A e \in Device : Busy(e) => draft'[e] = draft[e]
    BY <1>6 DEF LoadMap, EditorOpen, IInv, TypeOK
  <2> QED BY <1>6, <2>1, <2>2, RestKeeps DEF IInv, LoadMap, Browser, platformVars, guessVars
<1> QED BY <1>1, <1>2, <1>3, <1>4, <1>5, <1>6 DEF PageStep

----------------------------------------------------------------------------
(* Owner links.                                                            *)

LEMMA ConsumeKeeps ==
  ASSUME IInv, NEW d \in Device, ConsumeOwnerMapEntry(d)
  PROVE  IInv'
<1> DEFINE c == calls[d]
           l == c.for
           n == [c EXCEPT !.by = entry[l].pin, !.step = "enter"]
<1>1. c \in Call /\ c.step = "consume" /\ Fits(d, c) /\ l \in Link
  BY BusyCall DEF ConsumeOwnerMapEntry, Fits
<1>2. entry[l] \in Entry /\ entry[l].state = "open" /\ entry[l].pin = c.row
  BY <1>1 DEF ConsumeOwnerMapEntry, Consumable, IInv, TypeOK, NoEntry
<1>3. entry[l].pin \in 0 .. MaxPin
  BY <1>2 DEF Entry, Pin
<1>4. calls' = [calls EXCEPT ![d] = n] /\ UNCHANGED <<pin, session, guessVars, map, draft, stocked, opened>>
  BY DEF ConsumeOwnerMapEntry, IInv, TypeOK
<1>5. n \in Call
  BY <1>1, <1>3 DEF Call, Steps
<1>6. /\ n.step = "enter" /\ n.kind = c.kind /\ n.for = l /\ n.pin = c.pin
      /\ n.seen = c.seen /\ n.by = n.row
  BY <1>1, <1>2 DEF Call
<1> HIDE DEF n
<1>7. /\ \A e \in Device : e # d => calls'[e] = calls[e]
      /\ calls'[d] = n
  BY <1>4 DEF IInv, TypeOK
<1>8. /\ [entry[l] EXCEPT !.state = "used"] \in Entry
      /\ entry' = [entry EXCEPT ![l] = [entry[l] EXCEPT !.state = "used"]]
  BY <1>1, <1>2 DEF ConsumeOwnerMapEntry, Entry, IInv, TypeOK
<1>9. /\ \A k \in Link : k # l => entry'[k] = entry[k]
      /\ entry'[l].state = "used"
  BY <1>1, <1>2, <1>8 DEF IInv, TypeOK, Entry
<1>10. opened[l] = {} /\ \A e \in Device : At(e, "enter") => calls[e].for # l
  BY <1>1, <1>2, BusyCall DEF IInv, LinksSpent, Fits, At, Call
<1>11. TypeOK'
  BY <1>4, <1>5, <1>8 DEF IInv, TypeOK, guessVars
<1>12. CallsFit'
  <2> SUFFICES ASSUME NEW e \in Device, Busy(e)' PROVE Fits(e, calls[e])'
    BY DEF CallsFit
  <2>1. CASE e = d
    BY <1>1, <1>4, <1>6, <1>7, <1>9, <1>10, <2>1 DEF Fits, Editors
  <2>2. CASE e # d
    <3>1. Fits(e, calls[e]) /\ calls'[e] = calls[e]
      BY <1>7, <2>2 DEF IInv, CallsFit, Busy
    <3>2. calls[e].step = "enter" => entry'[calls[e].for].state = "used"
      BY <1>9, <3>1 DEF Fits
    <3> QED BY <1>4, <3>1, <3>2 DEF Fits, Editors
  <2> QED BY <2>1, <2>2
<1>13. EnterAlone'
  BY <1>6, <1>7, <1>10 DEF IInv, EnterAlone, At, Busy
<1>14. LinksSpent' /\ Earned' /\ MapFits'
  BY <1>4, <1>9 DEF IInv, LinksSpent, Earned, MapFits, Editors
<1>15. AttemptsCover'
  <2>1. \A w \in Window : Holding(w)' \subseteq Holding(w)
    BY <1>4, <1>6, HoldsNoMore DEF IInv
  <2> QED BY <1>4, <2>1, AttemptsKept DEF IInv, guessVars
<1> QED BY <1>11, <1>12, <1>13, <1>14, <1>15 DEF IInv

LEMMA EnterKeeps ==
  ASSUME IInv, NEW d \in Device, EnterEditor(d)
  PROVE  IInv'
<1> DEFINE c == calls[d]
           l == c.for
           new == [pin |-> c.pin, by |-> c.by]
<1>1. c \in Call /\ c.step = "enter" /\ Fits(d, c) /\ c.row = c.pin /\ l \in Link
  BY BusyCall DEF EnterEditor, Fits
<1>2. c.pin \in Pin /\ c.by = c.pin /\ entry[l].state = "used" /\ opened[l] = {}
  BY <1>1 DEF Fits
<1>3. new \in Session
  BY <1>1, <1>2 DEF Session, Pin
<1>4. session' = [session EXCEPT ![d]["owner"] = new] /\ new.pin = c.pin /\ new.by = c.pin
  BY <1>2 DEF EnterEditor, SetSession
<1>5. UNCHANGED <<platformVars, guessVars, map, draft, stocked>>
  BY DEF EnterEditor
<1>6. opened' = [opened EXCEPT ![l] = {d}]
  BY <1>1, <1>2 DEF EnterEditor, IInv, TypeOK
<1>7. /\ \A e \in Device : e # d => calls'[e] = calls[e]
      /\ calls'[d] = Idle
      /\ calls' = [calls EXCEPT ![d] = Idle]
  BY DEF EnterEditor, Done, IInv, TypeOK
<1> HIDE DEF new
<1>8. TypeOK'
  BY <1>1, <1>3, <1>4, <1>5, <1>6, <1>7
     DEF IInv, TypeOK, platformVars, guessVars, Roles
<1>9. Editors' = Editors \cup {d}
  BY <1>1, <1>2, <1>6 DEF Editors, IInv, TypeOK
<1>10. \A e \in Device : e # d /\ At(e, "enter") => calls[e].for # l
  BY <1>1, BusyCall DEF IInv, EnterAlone, EnterEditor
<1>11. CallsFit'
  <2> SUFFICES ASSUME NEW e \in Device, Busy(e)' PROVE Fits(e, calls[e])'
    BY DEF CallsFit
  <2>1. e # d /\ calls'[e] = calls[e]
    BY <1>7 DEF Busy
  <2>2. Fits(e, calls[e])
    BY <2>1 DEF IInv, CallsFit, Busy
  <2>3. calls[e].step = "enter" => opened'[calls[e].for] = opened[calls[e].for]
    BY <1>6, <1>10, <2>1, <2>2 DEF At, Busy, Fits, IInv, TypeOK
  <2> QED BY <1>5, <1>9, <2>1, <2>2, <2>3 DEF Fits, platformVars
<1>12. EnterAlone'
  BY <1>7 DEF IInv, EnterAlone, At, Busy
<1>13. LinksSpent'
  BY <1>1, <1>2, <1>5, <1>6 DEF IInv, LinksSpent, TypeOK, platformVars
<1>14. Earned'
  <2> SUFFICES ASSUME NEW e \in Device
               PROVE  /\ \A role \in Roles : session'[e][role].by = session'[e][role].pin
                      /\ session'[e]["owner"] # NoSession => e \in Editors'
    BY DEF Earned
  <2>1. CASE e = d
    BY <1>4, <1>9, <2>1 DEF IInv, TypeOK, Earned, Roles
  <2>2. CASE e # d
    BY <1>4, <1>9, <2>2 DEF IInv, TypeOK, Earned, Roles
  <2> QED BY <2>1, <2>2
<1>15. MapFits'
  BY <1>5 DEF IInv, MapFits
<1>16. AttemptsCover'
  <2>1. \A w \in Window : Holding(w)' \subseteq Holding(w)
    BY <1>7, HoldsNoMore DEF IInv
  <2> QED BY <1>5, <2>1, AttemptsKept DEF IInv, guessVars
<1> QED BY <1>8, <1>11, <1>12, <1>13, <1>14, <1>15, <1>16 DEF IInv
----------------------------------------------------------------------------
(* Attempts.                                                               *)

LEMMA ReserveKeeps ==
  ASSUME IInv, NEW d \in Device, Reserve(d)
  PROVE  IInv'
<1> DEFINE c == calls[d]
           v == c.window
           right == c.typed = c.pin
           allowed == tries[v] + 1 <= MaxGuesses
           n == IF allowed /\ right
                THEN [c EXCEPT !.by = c.typed, !.step = "release"] ELSE Idle
<1>1. c \in Call /\ c.step = "reserve" /\ Fits(d, c) /\ v \in Window
  BY BusyCall DEF Reserve, Call
<1>2. tries[v] \in Nat /\ wrong[v] \in Nat
  BY <1>1 DEF IInv, TypeOK
<1>3. /\ calls' = [calls EXCEPT ![d] = n]
      /\ tries' = [tries EXCEPT ![v] = tries[v] + 1]
      /\ wrong' = [wrong EXCEPT ![v] = IF allowed /\ ~right THEN wrong[v] + 1 ELSE wrong[v]]
      /\ UNCHANGED <<platformVars, session, window, map, draft, stocked, opened>>
  BY DEF Reserve, Reserved, Done, IInv, TypeOK
<1>4. n \in Call \cup {Idle}
  BY <1>1 DEF Call, Steps
<1>5. n # Idle => /\ n.step = "release" /\ n.kind = c.kind /\ n.for = c.for /\ n.pin = c.pin
                  /\ n.seen = c.seen /\ n.by = n.pin /\ n.window = v
                  /\ allowed /\ right
  BY <1>1 DEF Call
<1>6. allowed /\ right => n # Idle
  BY <1>1 DEF Call, Idle
<1> HIDE DEF n, right
<1>7. /\ \A e \in Device : e # d => calls'[e] = calls[e]
      /\ calls'[d] = n
  BY <1>3 DEF IInv, TypeOK
<1>8. TypeOK'
  BY <1>1, <1>2, <1>3, <1>4 DEF IInv, TypeOK, platformVars
<1>9. CallsFit'
  <2> SUFFICES ASSUME NEW e \in Device, Busy(e)' PROVE Fits(e, calls[e])'
    BY DEF CallsFit
  <2>1. CASE e = d
    BY <1>1, <1>3, <1>5, <1>7, <2>1 DEF Fits, Editors, Busy
  <2>2. CASE e # d
    BY <1>3, <1>7, <2>2 DEF IInv, CallsFit, Busy, Fits, Editors, platformVars
  <2> QED BY <2>1, <2>2
<1>10. EnterAlone' /\ LinksSpent' /\ Earned' /\ MapFits'
  BY <1>3, <1>5, <1>7
     DEF IInv, EnterAlone, LinksSpent, Earned, MapFits, At, Busy, Editors, platformVars
<1>11. AttemptsCover'
  <2> SUFFICES ASSUME NEW w \in Window
               PROVE  /\ wrong'[w] <= MaxGuesses
                      /\ wrong'[w] + Cardinality(Holding(w)') <= tries'[w]
    BY DEF AttemptsCover
  <2>1. /\ wrong[w] <= MaxGuesses /\ wrong[w] + Cardinality(Holding(w)) <= tries[w]
        /\ wrong[w] \in Nat /\ tries[w] \in Nat
    BY DEF IInv, AttemptsCover, TypeOK
  <2>2. IsFiniteSet(Holding(w)) /\ Cardinality(Holding(w)) \in Nat /\ d \notin Holding(w)
    BY <1>1, HoldingFinite DEF Holding, At
  <2>3. CASE w # v
    <3>1. Holding(w)' = Holding(w)
      BY <1>1, <1>5, <1>7, <2>3 DEF Holding, At, Busy
    <3> QED BY <1>3, <2>1, <2>3, <3>1 DEF IInv, TypeOK
  <2>4. CASE w = v /\ allowed /\ right
    <3>1. Holding(w)' = Holding(w) \cup {d}
      BY <1>5, <1>6, <1>7, <2>4 DEF Holding, At, Busy
    <3>2. Cardinality(Holding(w)') = Cardinality(Holding(w)) + 1
      BY <2>2, <3>1, FS_AddElement
    <3>3. wrong'[w] = wrong[w] /\ tries'[w] = tries[w] + 1
      BY <1>3, <2>4 DEF IInv, TypeOK
    <3> QED BY <2>1, <2>2, <3>2, <3>3
  <2>5. CASE w = v /\ ~(allowed /\ right)
    <3>1. Holding(w)' = Holding(w)
      BY <1>1, <1>5, <1>7, <2>5 DEF Holding, At, Busy
    <3>2. tries'[w] = tries[w] + 1
      BY <1>3, <2>5 DEF IInv, TypeOK
    <3>3. wrong'[w] = wrong[w] \/ (wrong'[w] = wrong[w] + 1 /\ tries[w] + 1 <= MaxGuesses)
      BY <1>3, <2>5 DEF IInv, TypeOK
    <3> QED BY <2>1, <2>2, <3>1, <3>2, <3>3, AccessAssumption
  <2> QED BY <2>3, <2>4, <2>5
<1> QED BY <1>8, <1>9, <1>10, <1>11 DEF IInv

LEMMA ReleaseKeeps ==
  ASSUME IInv, NEW d \in Device, Release(d)
  PROVE  IInv'
<1> DEFINE c == calls[d]
           v == c.window
           step == IF Kind(d) = "save" THEN "write" ELSE "answer"
           n == [c EXCEPT !.step = step]
<1>1. c \in Call /\ c.step = "release" /\ Fits(d, c) /\ v \in Window
  BY BusyCall DEF Release, Call
<1>2. /\ calls' = [calls EXCEPT ![d] = n]
      /\ tries' = [tries EXCEPT ![v] = tries[v] - 1]
      /\ UNCHANGED <<platformVars, session, wrong, window, map, draft, stocked, opened>>
  BY DEF Release, Goto, IInv, TypeOK
<1>3. step \in {"write", "answer"} /\ (step = "write" => c.kind = "save")
  BY DEF Kind
<1> HIDE DEF step
<1>4. n \in Call
  BY <1>1, <1>3 DEF Call, Steps
<1>5. /\ n.step = step /\ n.kind = c.kind /\ n.for = c.for /\ n.pin = c.pin
      /\ n.seen = c.seen /\ n.by = c.by
  BY <1>1 DEF Call
<1> HIDE DEF n
<1>6. /\ \A e \in Device : e # d => calls'[e] = calls[e]
      /\ calls'[d] = n
  BY <1>2 DEF IInv, TypeOK
<1>7. d \in Holding(v) /\ \A w \in Window : w # v => d \notin Holding(w)
  BY <1>1, BusyCall DEF Holding, Release
<1>8. /\ IsFiniteSet(Holding(v)) /\ Cardinality(Holding(v)) \in Nat
      /\ Cardinality(Holding(v)) # 0
  BY <1>7, HoldingFinite, FS_EmptySet
<1>9. /\ wrong[v] \in Nat /\ tries[v] \in Nat
      /\ wrong[v] + Cardinality(Holding(v)) <= tries[v]
  BY <1>1 DEF IInv, TypeOK, AttemptsCover
<1>10. tries[v] - 1 \in Nat
  BY <1>8, <1>9
<1>11. TypeOK'
  BY <1>1, <1>2, <1>4, <1>10 DEF IInv, TypeOK, platformVars
<1>12. Fits(d, n)
  BY <1>1, <1>3, <1>5 DEF Fits, Map, Call
<1>13. CallsFit'
  BY <1>2, <1>6, <1>12 DEF IInv, CallsFit, Busy, Fits, Editors, platformVars
<1>14. EnterAlone' /\ LinksSpent' /\ Earned' /\ MapFits'
  BY <1>2, <1>3, <1>5, <1>6
     DEF IInv, EnterAlone, LinksSpent, Earned, MapFits, At, Busy, Editors, platformVars
<1>15. AttemptsCover'
  <2> SUFFICES ASSUME NEW w \in Window
               PROVE  /\ wrong'[w] <= MaxGuesses
                      /\ wrong'[w] + Cardinality(Holding(w)') <= tries'[w]
    BY DEF AttemptsCover
  <2>1. /\ wrong[w] <= MaxGuesses /\ wrong[w] + Cardinality(Holding(w)) <= tries[w]
    BY DEF IInv, AttemptsCover
  <2>2. Holding(w)' = Holding(w) \ {d}
    BY <1>3, <1>5, <1>6 DEF Holding, At, Busy, Idle
  <2>3. CASE w # v
    <3>1. Holding(w)' = Holding(w)
      BY <1>7, <2>2, <2>3
    <3> QED BY <1>2, <2>1, <2>3, <3>1 DEF IInv, TypeOK
  <2>4. CASE w = v
    <3>1. Cardinality(Holding(w)') = Cardinality(Holding(w)) - 1
      BY <1>7, <1>8, <2>2, <2>4, FS_RemoveElement
    <3>2. tries'[w] = tries[w] - 1 /\ wrong'[w] = wrong[w]
      BY <1>1, <1>2, <2>4 DEF IInv, TypeOK
    <3> QED BY <1>8, <1>9, <2>1, <2>4, <3>1, <3>2
  <2> QED BY <2>3, <2>4
<1> QED BY <1>11, <1>13, <1>14, <1>15 DEF IInv

----------------------------------------------------------------------------
(* The map, the cookies and the shelves.                                   *)

LEMMA WriteKeeps ==
  ASSUME IInv, NEW d \in Device, WriteMap(d)
  PROVE  /\ IInv'
         /\ map'.revision = map.revision + 1 /\ map.shelves \subseteq map'.shelves
         /\ map.revision > 0 => d \in Editors
         /\ Busy(d) /\ calls'[d] # calls[d]
<1> DEFINE c == calls[d]
           n == [c EXCEPT !.step = "answer"]
<1>1. /\ c \in Call /\ c.step = "write" /\ Fits(d, c) /\ c # Idle
      /\ c.seen.revision = map.revision /\ draft[d].revision = map.revision
      /\ c.seen.shelves \subseteq draft[d].shelves
  BY BusyCall DEF WriteMap, Replaceable
<1>2. /\ calls' = [calls EXCEPT ![d] = n]
      /\ map' = [revision |-> map.revision + 1, shelves |-> draft[d].shelves]
      /\ UNCHANGED <<platformVars, session, guessVars, draft, stocked, opened>>
  BY <1>1 DEF WriteMap, Goto, IInv, TypeOK
<1>3. map \in Map /\ draft[d] \in Map
  BY DEF IInv, TypeOK
<1>4. /\ map'.revision = map.revision + 1 /\ map.shelves \subseteq map'.shelves
      /\ map.revision > 0 => d \in Editors
      /\ map.revision < MaxRevision
  BY <1>1, <1>2 DEF Fits
<1>5. n \in Call
  BY <1>1 DEF Call, Steps
<1>6. /\ n.step = "answer" /\ n.kind = c.kind /\ n.for = c.for /\ n.pin = c.pin
      /\ n.seen = c.seen /\ n.by = c.by
  BY <1>1 DEF Call
<1> HIDE DEF n
<1>7. /\ \A e \in Device : e # d => calls'[e] = calls[e]
      /\ calls'[d] = n
  BY <1>2 DEF IInv, TypeOK
<1>8. map' \in Map
  BY <1>2, <1>3, <1>4, AccessAssumption DEF Map
<1>9. TypeOK'
  BY <1>2, <1>5, <1>8 DEF IInv, TypeOK, platformVars, guessVars
<1>10. CallsFit'
  <2> SUFFICES ASSUME NEW e \in Device, Busy(e)' PROVE Fits(e, calls[e])'
    BY DEF CallsFit
  <2>1. /\ Fits(e, calls[e]) /\ calls[e] \in Call /\ calls'[e].seen = calls[e].seen
        /\ e # d => calls'[e] = calls[e]
    BY <1>1, <1>6, <1>7 DEF IInv, CallsFit, Busy, TypeOK
  <2>2. /\ calls[e].seen.revision <= map.revision /\ calls[e].seen.revision \in Nat
        /\ map.revision \in Nat
    BY <1>3, <2>1 DEF Fits, Call, Map
  <2>3. calls'[e].seen.revision < map'.revision
    BY <1>4, <2>1, <2>2
  <2>4. map'.revision \in Nat
    BY <1>4, <2>2
  <2>5. CASE e = d
    BY <1>1, <1>2, <1>4, <1>6, <1>7, <2>1, <2>2, <2>3, <2>4, <2>5 DEF Fits, Editors, platformVars
  <2>6. CASE e # d
    BY <1>2, <1>4, <2>1, <2>2, <2>3, <2>4, <2>6 DEF Fits, Editors, platformVars
  <2> QED BY <2>5, <2>6
<1>11. EnterAlone' /\ LinksSpent' /\ Earned'
  BY <1>2, <1>6, <1>7 DEF IInv, EnterAlone, LinksSpent, Earned, At, Busy, Editors, platformVars
<1>12. MapFits'
  BY <1>2, <1>3, <1>4 DEF IInv, MapFits, Map
<1>13. AttemptsCover'
  <2>1. \A w \in Window : Holding(w)' \subseteq Holding(w)
    BY <1>2, <1>6, HoldsNoMore DEF IInv
  <2> QED BY <1>2, <2>1, AttemptsKept DEF IInv, guessVars
<1>14. Busy(d) /\ calls'[d] # calls[d]
  BY <1>1, <1>6, <1>7 DEF Busy
<1> QED BY <1>4, <1>9, <1>10, <1>11, <1>12, <1>13, <1>14 DEF IInv

LEMMA AnswerKeeps ==
  ASSUME IInv, NEW d \in Device, Answer(d)
  PROVE  IInv'
<1> DEFINE c == calls[d]
           new == [pin |-> c.pin, by |-> c.by]
<1>1. c \in Call /\ c.step = "answer" /\ c.pin \in Pin /\ c.by = c.pin
  BY BusyCall DEF Answer, Fits
<1>2. new \in Session
  BY <1>1 DEF Session, Pin
<1>3. session' = [session EXCEPT ![d]["staff"] = new] /\ new.pin = c.pin /\ new.by = c.pin
  BY <1>1 DEF Answer, SetSession
<1>4. UNCHANGED <<platformVars, guessVars, map, stocked, opened>>
  BY DEF Answer
<1>5. /\ \A e \in Device : e # d => calls'[e] = calls[e] /\ draft'[e] = draft[e]
      /\ calls' = [calls EXCEPT ![d] = Idle] /\ calls'[d] = Idle
  BY DEF Answer, Done, IInv, TypeOK
<1>6. draft' \in [Device -> Map]
  BY AccessAssumption DEF Answer, IInv, TypeOK, NoMap, Map
<1> HIDE DEF new
<1>7. TypeOK'
  BY <1>2, <1>3, <1>4, <1>5, <1>6 DEF IInv, TypeOK, platformVars, guessVars, Roles
<1>8. CallsFit'
  BY <1>4, <1>5 DEF IInv, CallsFit, Busy, Fits, Editors, platformVars
<1>9. EnterAlone' /\ LinksSpent' /\ MapFits'
  BY <1>4, <1>5 DEF IInv, EnterAlone, LinksSpent, MapFits, At, Busy, platformVars
<1>10. Earned'
  <2> SUFFICES ASSUME NEW e \in Device
               PROVE  /\ \A role \in Roles : session'[e][role].by = session'[e][role].pin
                      /\ session'[e]["owner"] # NoSession => e \in Editors'
    BY DEF Earned
  <2>1. \A role \in Roles : session'[e][role] = session[e][role]
                              \/ (role = "staff" /\ session'[e][role] = new)
    BY <1>3 DEF IInv, TypeOK, Roles
  <2>2. Editors' = Editors
    BY <1>4 DEF Editors
  <2> QED BY <1>3, <2>1, <2>2 DEF IInv, Earned, Roles
<1>11. AttemptsCover'
  <2>1. \A w \in Window : Holding(w)' \subseteq Holding(w)
    BY <1>5, HoldsNoMore DEF IInv
  <2> QED BY <1>4, <2>1, AttemptsKept DEF IInv, guessVars
<1> QED BY <1>7, <1>8, <1>9, <1>10, <1>11 DEF IInv

LEMMA StockKeeps ==
  ASSUME IInv, NEW d \in Device, Stock(d)
  PROVE  IInv'
<1>1. calls[d].for \in map.shelves
  BY BusyCall DEF Stock, Fits
<1>2. /\ \A e \in Device : e # d => calls'[e] = calls[e]
      /\ calls' = [calls EXCEPT ![d] = Idle] /\ calls'[d] = Idle
      /\ stocked' = stocked \cup {calls[d].for}
      /\ UNCHANGED <<platformVars, session, guessVars, map, draft, opened>>
  BY DEF Stock, Done, IInv, TypeOK
<1>3. TypeOK'
  BY <1>1, <1>2 DEF IInv, TypeOK, Map, platformVars, guessVars
<1>4. CallsFit'
  BY <1>2 DEF IInv, CallsFit, Busy, Fits, Editors, platformVars
<1>5. EnterAlone' /\ LinksSpent' /\ Earned' /\ MapFits'
  BY <1>1, <1>2
     DEF IInv, EnterAlone, LinksSpent, Earned, MapFits, At, Busy, Editors, platformVars
<1>6. AttemptsCover'
  <2>1. \A w \in Window : Holding(w)' \subseteq Holding(w)
    BY <1>2, HoldsNoMore DEF IInv
  <2> QED BY <1>2, <2>1, AttemptsKept DEF IInv, guessVars
<1> QED BY <1>3, <1>4, <1>5, <1>6 DEF IInv

----------------------------------------------------------------------------
(* The theorems.                                                           *)

LEMMA NextKeeps == IInv /\ [Next]_vars => IInv'
<1> SUFFICES ASSUME IInv, [Next]_vars PROVE IInv'
  OBVIOUS
<1>1. ASSUME NEW d \in Device, CallStep(d) PROVE IInv'
  BY <1>1, ReadConfigKeeps, AskPlatformKeeps, ConsumeKeeps, EnterKeeps, ReserveKeeps,
     ReleaseKeeps, ReadMapKeeps, WriteKeeps, AnswerKeeps, CheckShelfKeeps, StockKeeps,
     EndKeeps
     DEF CallStep, Fails
<1>2. CASE UNCHANGED vars
  <2>1. TypeOK'
    BY <1>2 DEF IInv, TypeOK, vars, platformVars, guessVars
  <2> QED BY <1>2, <2>1, RestKeeps DEF IInv, vars, platformVars, guessVars
<1> QED BY <1>1, <1>2, PlatformKeeps, NextWindowKeeps, PageKeeps DEF Next

LEMMA Invariant == Spec => []IInv
BY InitHolds, NextKeeps, PTL DEF Spec

(* Types, for every value of the constants.                                *)
THEOREM AccessTypeCorrect == Spec => []TypeOK
<1>1. IInv => TypeOK
  BY DEF IInv
<1> QED BY <1>1, Invariant, PTL

(* However many devices open a link, one becomes an editor.                *)
THEOREM LinkOpensOnce == Spec => []OneEditorPerLink
<1>1. IInv => OneEditorPerLink
  <2> SUFFICES ASSUME LinksSpent, NEW l \in Link PROVE Cardinality(opened[l]) <= 1
    BY DEF IInv, OneEditorPerLink
  <2>1. CASE opened[l] = {}
    BY <2>1, FS_EmptySet
  <2>2. CASE opened[l] # {}
    <3>1. PICK d \in Device : opened[l] = {d}
      BY <2>2 DEF LinksSpent
    <3>2. Cardinality({d}) = 1
      BY FS_Singleton
    <3> QED BY <3>1, <3>2
  <2> QED BY <2>1, <2>2
<1> QED BY <1>1, Invariant, PTL

(* No accepted cookie is older than the password.                          *)
THEOREM CookiesFollowPin == Spec => []SessionsFollowPin
<1>1. IInv => SessionsFollowPin
  BY DEF IInv, Earned, SessionsFollowPin
<1> QED BY <1>1, Invariant, PTL

(* The budget of wrong passwords holds for every number of devices.        *)
THEOREM GuessesStayBounded == Spec => []GuessesBounded
<1>1. IInv => GuessesBounded
  BY DEF IInv, AttemptsCover, GuessesBounded
<1> QED BY <1>1, Invariant, PTL

(* Product locations stay attached.                                        *)
THEOREM ShelvesStay == Spec => []LocationsAttached
<1>1. IInv => LocationsAttached
  BY DEF IInv, MapFits, LocationsAttached
<1> QED BY <1>1, Invariant, PTL

(* No save of the map is lost, and none is made by anybody but an editor.  *)
THEOREM NoEditLost == Spec => EditsKept
<1> DEFINE Kept == map' # map =>
             /\ map'.revision = map.revision + 1
             /\ map.revision > 0 => \E d \in Editors : Busy(d) /\ calls'[d] # calls[d]
<1>1. ASSUME IInv, [Next]_vars PROVE Kept
  <2>1. ASSUME NEW d \in Device, WriteMap(d) PROVE Kept
    BY <1>1, <2>1, WriteKeeps
  <2>2. ASSUME NEW d \in Device, CallStep(d), ~WriteMap(d) PROVE map' = map
    BY <2>2 DEF CallStep, ReadConfig, AskPlatform, ConsumeOwnerMapEntry, EnterEditor,
                Reserve, Release, ReadMap, Answer, CheckShelf, Stock, Fails, CallsOnly
  <2>3. ASSUME NEW d \in Device, PageStep(d) PROVE map' = map
    BY <2>3 DEF PageStep, OpenLink, Unlock, Publish, Work, Draw, LoadMap, Send, Browser
  <2>4. PlatformStep \/ NextWindow \/ UNCHANGED vars => map' = map
    BY DEF PlatformStep, ChangePin, CreateOwnerMapEntry, InsertEntry, EntryOnly,
           NextWindow, vars
  <2> QED BY <1>1, <2>1, <2>2, <2>3, <2>4 DEF Next
<1> QED BY <1>1, Invariant, PTL DEF Spec, EditsKept
=============================================================================
