------------------------ MODULE MCStoreProvisioning ------------------------
(***************************************************************************)
(* Small instances of StoreProvisioning for TLC: one store and all the     *)
(* faults, the last of them with one late call at most, or two stores, one *)
(* fault and no late call.                                                 *)
(***************************************************************************)
EXTENDS StoreProvisioning

First(S) == CHOOSE x \in S : TRUE

\* Tokens are only compared: of those nobody remembers any one stands for all.
TokensInTurn ==
  \A s \in Store :
    job'[s].token \in Token \ {job[s].token} =>
      job'[s].token = First({k \in Token : FreshToken(k)})

OneStore ==
  /\ Cardinality(late) > 1 => faults < MaxFaults
  /\ \A s \in Store \ {First(Store)} : tenant[s] = "none" /\ standing[s] = "paid"

TwoStores == faults <= 1 /\ late = {}

MCSpec ==
  /\ Init /\ [][Next /\ TokensInTurn /\ (OneStore \/ TwoStores)']_vars
  /\ Fairness
=============================================================================
