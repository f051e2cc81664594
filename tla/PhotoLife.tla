----------------------------- MODULE PhotoLife ------------------------------
(***************************************************************************)
(* What the scan queue promises of a photo that has been taken: its record *)
(* stays on the device until the staff gave the photo up or products of its *)
(* shelf are in the store's catalogue: its own, or, where verifyServerSide- *)
(* Save had to look for them, those of another photo of the shelf.  Nothing *)
(* else may lose it: no failed request, crash, reload, pause or expired job. *)
(***************************************************************************)
CONSTANTS Photo, ShelfOf

VARIABLES
  kept,    \* photos recorded on the device
  listed,  \* photos whose products are in the catalogue
  given    \* photos the staff gave up

lifeVars == <<kept, listed, given>>

Init == kept = {} /\ listed = {} /\ given = {}

Keep(p) == p \notin kept /\ kept' = kept \cup {p} /\ UNCHANGED <<listed, given>>
List(p) == p \notin listed /\ listed' = listed \cup {p} /\ UNCHANGED <<kept, given>>
GiveUp(p) == p \notin given /\ given' = given \cup {p} /\ UNCHANGED <<kept, listed>>

Release(p) ==
  /\ p \in kept
  /\ p \in given \/ \E q \in listed : ShelfOf[q] = ShelfOf[p]
  /\ kept' = kept \ {p}
  /\ UNCHANGED <<listed, given>>

Next == \E p \in Photo : Keep(p) \/ List(p) \/ GiveUp(p) \/ Release(p)

Spec == Init /\ [][Next]_lifeVars
=============================================================================
