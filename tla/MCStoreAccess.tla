--------------------------- MODULE MCStoreAccess ----------------------------
(* Instances of the access to a store for TLC.                             *)
EXTENDS StoreAccess, TLC

Symmetric == Permutations(Device) \cup Permutations(Link) \cup Permutations(Shelf)

(* The behaviours with two events of these, of one kind or of two: a link  *)
(* is made, the password is changed, a wrong password is compared, five    *)
(* minutes pass, products are located at a shelf, the map is published.    *)
Count(events) == IF events THEN 1 ELSE 0
Made == {l \in Link : entry[l] # NoEntry}
Few == Cardinality(Made) + (pin - 1) + wrong[0] + window + Cardinality(stocked)
         + Count(map.revision > 0) <= 2
FewSpec == Init /\ [][Next /\ Few']_vars
=============================================================================
