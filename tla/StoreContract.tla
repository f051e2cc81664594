---------------------------- MODULE StoreContract ----------------------------
(***************************************************************************)
(* What billing and provisioning rely on of each other: how the status of  *)
(* a store and what billing says of its owner depend on each other.        *)
(*                                                                         *)
(* A store is opened for an owner who has paid, and its cleanup is         *)
(* requested when the owner was suspended and the retention time is over.  *)
(* From then on the owner stays unpaid, whatever they try: a store that is *)
(* being deleted is not sold again.                                        *)
(***************************************************************************)
CONSTANT Store

VARIABLES
  tenant,    \* tenant[s]: status of the store row
  standing   \* standing[s]: what billing says of the owner

contractVars == <<tenant, standing>>

Init ==
  /\ tenant = [s \in Store |-> "none"]
  /\ standing \in [Store -> {"paid", "suspended"}]

Open(s) ==
  /\ tenant[s] = "none" /\ standing[s] = "paid"
  /\ tenant' = [tenant EXCEPT ![s] = "open"]
  /\ UNCHANGED standing

RequestCleanup(s) ==
  /\ tenant[s] = "open" /\ standing[s] = "due"
  /\ tenant' = [tenant EXCEPT ![s] = "closing"]
  /\ UNCHANGED standing

Close(s) ==
  /\ tenant[s] = "closing"
  /\ tenant' = [tenant EXCEPT ![s] = "closed"]
  /\ UNCHANGED standing

\* Nobody is due without having been suspended first, and time alone brings
\* nobody back.
Turns(s) ==
  \/ standing'[s] = standing[s]
  \/ standing[s] = "paid" /\ standing'[s] = "suspended"
  \/ standing[s] = "suspended" /\ standing'[s] = "due"
  \/ /\ standing[s] # "paid" /\ tenant[s] \notin {"closing", "closed"}
     /\ standing'[s] \in {"paid", "suspended"}

\* A day, a payment or a run of the reconciler: of one owner or of many.
Settle ==
  /\ standing' \in [Store -> {"paid", "suspended", "due"}]
  /\ \A s \in Store : Turns(s)
  /\ UNCHANGED tenant

Next ==
  \/ \E s \in Store : Open(s) \/ RequestCleanup(s) \/ Close(s)
  \/ Settle

Spec == Init /\ [][Next]_contractVars
=============================================================================
