------------------------------- MODULE StoreLife -------------------------------
(***************************************************************************)
(* What the platform promises of a store and its machine.                  *)
(*                                                                         *)
(* A store is set up piece by piece, and delivered when all it needs to    *)
(* serve is there.  From then on nothing is taken away until its cleanup   *)
(* was requested, which only a delivered store can be; then nothing is     *)
(* started or filled again, and the store is closed when all is gone.      *)
(***************************************************************************)
CONSTANT Store

VARIABLES
  tenant,     \* status of the store row
  standing,   \* what billing says of the owner
  delivered,  \* stores whose set-up was acknowledged
  parts       \* parts[s]: what the machine and Atlas have of the store

lifeVars == <<tenant, standing, delivered, parts>>

\* What a store needs to serve; its search indexes may come later.
Serves == {"database", "files", "process", "route"}
Part == Serves \cup {"index"}

\* The bargain with billing, which has no part in the machine.
Contract == INSTANCE StoreContract

machineVars == <<delivered, parts>>

Init ==
  /\ Contract!Init
  /\ delivered = {}
  /\ parts = [s \in Store |-> {}]

Open(s) == Contract!Open(s) /\ UNCHANGED machineVars

Settle == Contract!Settle /\ UNCHANGED machineVars

RequestCleanup(s) ==
  /\ s \in delivered
  /\ Contract!RequestCleanup(s)
  /\ UNCHANGED machineVars

Close(s) ==
  /\ parts[s] = {}
  /\ Contract!Close(s)
  /\ UNCHANGED machineVars

\* An activation or what is left of one may put up indexes even when the cleanup
\* was requested and has not begun.
Grow(s, more) ==
  /\ \/ tenant[s] = "open"
     \/ tenant[s] = "closing" /\ more = {"index"}
  /\ parts' = [parts EXCEPT ![s] = @ \cup more]
  /\ UNCHANGED <<tenant, standing, delivered>>

Deliver(s) ==
  /\ tenant[s] = "open"
  /\ Serves \subseteq parts[s]
  /\ delivered' = delivered \cup {s}
  /\ UNCHANGED <<tenant, standing, parts>>

Clear(s, less) ==
  /\ tenant[s] = "closing"
  /\ parts' = [parts EXCEPT ![s] = @ \ less]
  /\ UNCHANGED <<tenant, standing, delivered>>

Next ==
  \/ Settle
  \/ \E s \in Store : Open(s) \/ RequestCleanup(s) \/ Close(s) \/ Deliver(s)
  \/ \E s \in Store, some \in SUBSET Part : Grow(s, some) \/ Clear(s, some)

Spec == Init /\ [][Next]_lifeVars
=============================================================================
