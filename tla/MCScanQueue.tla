---------------------------- MODULE MCScanQueue -----------------------------
(* Instances of the scan queue for TLC: all photos are of one shelf.       *)
EXTENDS ScanQueue

MCShelfOf == [p \in Photo |-> CHOOSE s \in Shelf : TRUE]

(* The behaviours in which the photos of a shelf are taken one after the   *)
(* other, the next when the products of the last are in the catalogue, and *)
(* nothing is removed, swept or out of order but the saves.                *)
OneByOne ==
  /\ Cardinality(taken \ listed) <= 1
  /\ given = {} /\ victims = {}
  /\ proc = "up" /\ gate = "open" /\ enabled
  /\ faults > 0 => save.step = "broken" \/ \E p \in Photo : item[p].st = "saved"
OneByOneSpec == Init /\ [][Next /\ OneByOne']_vars

\* The behaviours in which nobody retries, sweeps or stays away for long, and
\* one thing goes wrong at most: a failure, or a photo the staff removes.  The
\* photos are taken in a fixed order, and the pump, as in the code, goes
\* through them in that order.
First == CHOOSE p \in Photo : TRUE
InOrder ==
  /\ taken' # {} => First \in taken'
  /\ \A p \in Photo \ {First} :
       /\ Submit(p) => ~Eligible(First, "queued")
       /\ SaveStarts(p) => ~Eligible(First, "detected")
OneTrouble ==
  /\ InOrder
  /\ \A p \in Photo : ~RetryItem(p)
  /\ victims' = {}
  /\ proc' # "up" => view' # "none"
  /\ faults' + Cardinality(given') <= 1
ShelfSpec == Init /\ [][Next /\ OneTrouble]_vars /\ Fairness
=============================================================================
