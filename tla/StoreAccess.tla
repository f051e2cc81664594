---------------------------- MODULE StoreAccess -----------------------------
(***************************************************************************)
(* Who may work in a store: owner links, sessions, the store password and  *)
(* the floor map.  The platform keeps the version of the password and the  *)
(* one-time links of the owner; the store reads the version with its       *)
(* configuration at the start of every request, gives the browsers signed  *)
(* cookies for it and counts the guesses of the password.  A request takes *)
(* one step per await, and the devices' requests run side by side.         *)
(***************************************************************************)
EXTENDS Naturals, FiniteSets

CONSTANTS
  Device,     \* browsers, each with its cookies and its draft of the map
  Link,       \* owner links
  Shelf,      \* shelf ids, drawn at random by the editor
  MaxGuesses, \* attempts in five minutes, 10 in the code
  MaxPin,     \* bound: changes of the password
  MaxWindow,  \* bound: times of five minutes
  MaxTries,   \* bound: attempts counted in such a time
  MaxRevision \* bound: versions of the map

ASSUME AccessAssumption ==
  /\ IsFiniteSet(Device)
  /\ MaxGuesses \in Nat /\ MaxPin \in Nat \ {0} /\ MaxWindow \in Nat
  /\ MaxTries \in Nat /\ MaxRevision \in Nat

VARIABLES
  pin,     \* store.pinVersion, which stands for the password too
  entry,   \* store_owner_entry, from the read that begins it
  session, \* the cookies of each device: owner and staff
  tries,   \* staff_pin_attempts of each five minutes
  wrong,   \* wrong passwords that were compared in each five minutes
  window,  \* the current five minutes
  map,     \* store_floor_map, revision 0 while it is not published
  draft,   \* the map each device edits, in its local storage
  stocked, \* shelves that products were located at
  calls,   \* the request of each device
  opened   \* the devices that each link has opened the editor on

platformVars == <<pin, entry>>
guessVars == <<tries, wrong, window>>
vars == <<platformVars, session, guessVars, map, draft, stocked, calls, opened>>

Roles == {"owner", "staff"}
Pin == 1 .. MaxPin
Window == 0 .. MaxWindow
Map == [revision : 0 .. MaxRevision, shelves : SUBSET Shelf]
NoEntry == [state |-> "none", pin |-> 0]
Entry == [state : {"making", "open", "used"}, pin : Pin]

\* A cookie: the version it was signed for and, not in the code, the version
\* its holder proved to know or to be sent.
NoSession == [pin |-> 0, by |-> 0]
Session == [pin : Pin, by : 0 .. MaxPin]

NoMap == [revision |-> 0, shelves |-> {}]

\* A request: what it is for (a link or a shelf), the password typed (0 for a
\* wrong one), and what has been read so far (the version in the configuration
\* and in the row, the map), with the version its sender proved.
Idle == [step |-> "idle"]
Kinds == {"enter", "unlock", "save", "work"}
Steps == {"config", "platform", "consume", "enter",
          "map", "reserve", "release", "write", "answer", "shelf", "stock"}
Call == [kind : Kinds, step : Steps, for : Link \cup Shelf \cup {"none"},
         typed : 0 .. MaxPin, pin : 0 .. MaxPin, row : 0 .. MaxPin,
         by : 0 .. MaxPin, window : Window, seen : Map]

TypeOK ==
  /\ pin \in Pin
  /\ entry \in [Link -> Entry \cup {NoEntry}]
  /\ session \in [Device -> [Roles -> Session \cup {NoSession}]]
  /\ tries \in [Window -> Nat] /\ wrong \in [Window -> Nat] /\ window \in Window
  /\ map \in Map /\ draft \in [Device -> Map]
  /\ stocked \subseteq Shelf
  /\ calls \in [Device -> Call \cup {Idle}]
  /\ opened \in [Link -> SUBSET Device]

Init ==
  /\ pin = 1
  /\ entry = [l \in Link |-> NoEntry]
  /\ session = [d \in Device |-> [r \in Roles |-> NoSession]]
  /\ tries = [w \in Window |-> 0] /\ wrong = [w \in Window |-> 0] /\ window = 0
  /\ map = NoMap
  /\ draft = [d \in Device |-> NoMap]
  /\ stocked = {}
  /\ calls = [d \in Device |-> Idle]
  /\ opened = [l \in Link |-> {}]

----------------------------------------------------------------------------
(* The platform.                                                           *)

\* updateOwnerStore with a new password.
ChangePin ==
  /\ pin < MaxPin
  /\ pin' = pin + 1
  /\ UNCHANGED <<entry, session, guessVars, map, draft, stocked, calls, opened>>

EntryOnly ==
  UNCHANGED <<pin, session, guessVars, map, draft, stocked, calls, opened>>

\* createOwnerMapEntry reads the store and the subscription, then inserts.
CreateOwnerMapEntry(l) ==
  /\ entry[l] = NoEntry
  /\ entry' = [entry EXCEPT ![l] = [state |-> "making", pin |-> pin]]
  /\ EntryOnly

InsertEntry(l) ==
  /\ entry[l].state = "making"
  /\ entry' = [entry EXCEPT ![l].state = "open"]
  /\ EntryOnly

\* Mutant: what was consumed is not looked at.
ConsumableTwice(e, row) == e.state \in {"open", "used"} /\ e.pin = row

\* Mutant: the version the link was made for is not looked at.
ConsumableAnyPin(e, row) == e.state = "open"

\* The condition of consumeOwnerMapEntry.
Consumable(e, row) == e.state = "open" /\ e.pin = row

----------------------------------------------------------------------------
(* The pages.                                                              *)

Browser == UNCHANGED <<platformVars, guessVars, map, stocked, opened>>
Busy(d) == calls[d] # Idle
Accepted(d, role, version) == session[d][role].pin = version

Send(d, kind, for, typed) ==
  /\ ~Busy(d)
  /\ calls' = [calls EXCEPT ![d] =
       [kind |-> kind, step |-> "config", for |-> for, typed |-> typed,
        pin |-> 0, row |-> 0, by |-> 0, window |-> 0, seen |-> NoMap]]
  /\ UNCHANGED <<session, draft>> /\ Browser

\* The setup page is opened with an owner link.
OpenLink(d, l) == entry[l].state \in {"open", "used"} /\ Send(d, "enter", l, 0)

\* The password typed is the current one or wrong, until it is compared.
Typed == {0, pin}

Unlock(d, typed) ==
  typed \in Typed /\ ~Accepted(d, "staff", pin) /\ Send(d, "unlock", "none", typed)

\* The editor sends its draft, and the password where there is no map yet.
Publish(d, typed) ==
  /\ draft[d].shelves # {} /\ draft[d].revision < MaxRevision
  /\ typed \in IF draft[d].revision > 0 THEN {0} ELSE Typed
  /\ Send(d, "save", "none", typed)

\* A photo or products are sent for a shelf of the map.
Work(d, s) == s \in map.shelves \ stocked /\ Send(d, "work", s, 0)

\* The setup page shows a published map to its owner only.
EditorOpen(d) == ~Busy(d) /\ (map.revision > 0 => Accepted(d, "owner", pin))

\* The editor restores a draft of the same revision only.
LoadMap(d) ==
  /\ EditorOpen(d)
  /\ draft[d].revision # map.revision
  /\ draft' = [draft EXCEPT ![d] = map]
  /\ UNCHANGED <<session, calls>> /\ Browser

\* A shelf gets a random id.  One that is drawn and removed before the map is
\* saved is as if it were never drawn, and no other can be removed.
Draw(d, s) ==
  /\ EditorOpen(d)
  /\ s \notin map.shelves /\ \A e \in Device : s \notin draft[e].shelves
  /\ draft' = [draft EXCEPT ![d].shelves = @ \cup {s}]
  /\ UNCHANGED <<session, calls>> /\ Browser

----------------------------------------------------------------------------
(* The requests.                                                           *)

At(d, step) == Busy(d) /\ calls[d].step = step
Kind(d) == calls[d].kind
Done(d) == calls' = [calls EXCEPT ![d] = Idle]
Goto(d, step) == calls' = [calls EXCEPT ![d].step = step]
CallsOnly == UNCHANGED <<platformVars, session, guessVars, map, draft, stocked, opened>>

\* Any await throws, a check refuses, or the answer is lost.  Among the checks
\* are those the properties do not depend on, which may refuse at any time: the
\* access billing allows, the readiness of the search, the age of links and
\* cookies, the geometry of the map.
Fails(d) ==
  /\ Busy(d)
  /\ Done(d) /\ CallsOnly

\* getStoreRuntime.  Photos and products need a staff cookie of its version.
ReadConfig(d) ==
  /\ At(d, "config")
  /\ Kind(d) = "work" => Accepted(d, "staff", pin)
  /\ calls' = [calls EXCEPT
       ![d].pin = pin,
       ![d].window = window,
       ![d].step = CASE Kind(d) = "enter" -> "platform"
                     [] Kind(d) = "unlock" -> "reserve"
                     [] OTHER -> "map"]
  /\ CallsOnly

\* The platform authenticates the store, with the row as it is now.
AskPlatform(d) ==
  /\ At(d, "platform")
  /\ calls' = [calls EXCEPT ![d].row = pin, ![d].step = "consume"]
  /\ CallsOnly

ConsumeOwnerMapEntry(d) ==
  LET l == calls[d].for IN
  /\ At(d, "consume")
  /\ Consumable(entry[l], calls[d].row)
  /\ entry' = [entry EXCEPT ![l].state = "used"]
  /\ calls' = [calls EXCEPT ![d].by = entry[l].pin, ![d].step = "enter"]
  /\ UNCHANGED <<pin, session, guessVars, map, draft, stocked, opened>>

SetSession(d, role) ==
  session' = [session EXCEPT ![d][role] = [pin |-> calls[d].pin, by |-> calls[d].by]]

\* The version the platform answered must be the one of the configuration.
EnterEditor(d) ==
  LET l == calls[d].for IN
  /\ At(d, "enter") /\ calls[d].row = calls[d].pin
  /\ SetSession(d, "owner")
  /\ opened' = [opened EXCEPT ![l] = @ \cup {d}]
  /\ Done(d)
  /\ UNCHANGED <<platformVars, guessVars, map, draft, stocked>>

\* Mutant: a wrong password gives its attempt back.
ReservedRight(n, right) == IF right THEN n + 1 ELSE n

\* Mutant: attempts are not counted before their passwords are compared.
Unreserved(n, right) == n

\* Every attempt is counted before its password is compared.
Reserved(n, right) == n + 1

\* checkStorePin reserves an attempt and, if there is one left, compares.
Reserve(d) ==
  LET w == calls[d].window
      right == calls[d].typed = calls[d].pin
      allowed == tries[w] + 1 <= MaxGuesses
  IN
  /\ At(d, "reserve") /\ tries[w] < MaxTries
  /\ tries' = [tries EXCEPT ![w] = Reserved(@, right)]
  /\ wrong' = [wrong EXCEPT ![w] = IF allowed /\ ~right THEN @ + 1 ELSE @]
  /\ IF allowed /\ right
     THEN calls' = [calls EXCEPT ![d].by = calls[d].typed, ![d].step = "release"]
     ELSE Done(d)
  /\ UNCHANGED <<platformVars, session, window, map, draft, stocked, opened>>

\* "A correct entry releases only its own reservation."
Release(d) ==
  LET w == calls[d].window IN
  /\ At(d, "release")
  /\ tries' = [tries EXCEPT ![w] = @ - 1]
  /\ Goto(d, IF Kind(d) = "save" THEN "write" ELSE "answer")
  /\ UNCHANGED <<platformVars, session, wrong, window, map, draft, stocked, opened>>

\* getStoreMap.  A published map takes the owner's cookie, a first one the
\* password; a photo goes on to the check of its shelf.
ReadMap(d) ==
  LET first == map.revision = 0 IN
  /\ At(d, "map")
  /\ IF Kind(d) = "work" THEN ~first
     ELSE first \/ Accepted(d, "owner", calls[d].pin)
  /\ calls' = [calls EXCEPT
       ![d].seen = IF Kind(d) = "save" THEN map ELSE NoMap,
       ![d].window = window,
       ![d].by = IF Kind(d) = "save" /\ ~first THEN session[d]["owner"].by ELSE @,
       ![d].step = CASE Kind(d) = "work" -> "shelf"
                     [] Kind(d) = "save" /\ first -> "reserve"
                     [] OTHER -> "write"]
  /\ CallsOnly

\* Mutant: the write does not look for the revision it replaces.
ReplaceableAlways(seen) == TRUE

\* Mutant: a first map overwrites the one of another device.
ReplaceableFirst(seen) == seen.revision \in {0, map.revision}

\* The filter of replaceOne, and the unique _id of insertOne.
Replaceable(seen) == map.revision = seen.revision

\* assertShelfContinuity and the revision, against the map that was read.
WriteMap(d) ==
  LET seen == calls[d].seen IN
  /\ At(d, "write")
  /\ seen.shelves \subseteq draft[d].shelves
  /\ draft[d].revision = seen.revision
  /\ Replaceable(seen)
  /\ map' = [revision |-> draft[d].revision + 1, shelves |-> draft[d].shelves]
  /\ Goto(d, "answer")
  /\ UNCHANGED <<platformVars, session, guessVars, draft, stocked, opened>>

\* The answer gives the device a staff cookie; a saved draft is dropped.
Answer(d) ==
  /\ At(d, "answer")
  /\ SetSession(d, "staff")
  /\ draft' = [draft EXCEPT ![d] = IF Kind(d) = "save" THEN NoMap ELSE @]
  /\ Done(d)
  /\ UNCHANGED <<platformVars, guessVars, map, stocked, opened>>

\* storeShelfExists, then the job or the product is inserted.
CheckShelf(d) ==
  /\ At(d, "shelf") /\ calls[d].for \in map.shelves
  /\ Goto(d, "stock") /\ CallsOnly

Stock(d) ==
  /\ At(d, "stock")
  /\ stocked' = stocked \cup {calls[d].for}
  /\ Done(d)
  /\ UNCHANGED <<platformVars, session, guessVars, map, draft, opened>>

NextWindow ==
  /\ window < MaxWindow
  /\ window' = window + 1
  /\ UNCHANGED <<platformVars, session, tries, wrong, map, draft, stocked, calls, opened>>

----------------------------------------------------------------------------

PlatformStep ==
  \/ ChangePin
  \/ \E l \in Link : CreateOwnerMapEntry(l) \/ InsertEntry(l)

PageStep(d) ==
  \/ \E l \in Link : OpenLink(d, l)
  \/ \E typed \in 0 .. MaxPin : Unlock(d, typed) \/ Publish(d, typed)
  \/ \E s \in Shelf : Work(d, s) \/ Draw(d, s)
  \/ LoadMap(d)

CallStep(d) ==
  \/ ReadConfig(d) \/ AskPlatform(d) \/ ConsumeOwnerMapEntry(d) \/ EnterEditor(d)
  \/ Reserve(d) \/ Release(d) \/ ReadMap(d) \/ WriteMap(d) \/ Answer(d)
  \/ CheckShelf(d) \/ Stock(d) \/ Fails(d)

Next == PlatformStep \/ NextWindow \/ \E d \in Device : PageStep(d) \/ CallStep(d)

Spec == Init /\ [][Next]_vars

----------------------------------------------------------------------------
(* "consumes a short-lived, owner-authorized one-time grant": however many *)
(* devices send a link at the same time, one of them becomes an editor.    *)
OneEditorPerLink == \A l \in Link : Cardinality(opened[l]) <= 1

(* "That immediately invalidates both staff and owner map sessions": a     *)
(* cookie that is accepted was earned with the current password or with a  *)
(* link made since it was set, whenever the change came between the reads  *)
(* of the request that earned it.                                          *)
SessionsFollowPin ==
  \A d \in Device, role \in Roles :
    session[d][role].pin = pin => session[d][role].by = pin

(* No more wrong passwords are compared in five minutes than the budget,   *)
(* with right ones in between and requests that end before they release.   *)
GuessesBounded == \A w \in Window : wrong[w] <= MaxGuesses

(* "Existing shelves must be kept so product locations remain attached":   *)
(* what was located at a shelf of one map is at a shelf of every later one. *)
LocationsAttached == stocked \subseteq map.shelves

(* No save replaces a map that its device has not seen, and a published map *)
(* is changed only by devices that a link opened the editor on.            *)
Editors == UNION {opened[l] : l \in Link}
EditsKept ==
  [][map' # map =>
       /\ map'.revision = map.revision + 1
       /\ map.revision > 0 =>
            \E d \in Editors : Busy(d) /\ calls'[d] # calls[d]]_vars
=============================================================================
