--------------------------- MODULE MCStoreBilling ---------------------------
(***************************************************************************)
(* Instances of StoreBilling for TLC.  The constants are in the .cfg files.*)
(***************************************************************************)
EXTENDS StoreBilling, TLC

Standard == [plan |-> "month", bonus |-> FALSE, test |-> FALSE]
Bonus    == [plan |-> "month", bonus |-> TRUE,  test |-> FALSE]
Test     == [plan |-> "month", bonus |-> FALSE, test |-> TRUE]

StandardOnly == {Standard}
AllAsks      == {Standard, Bonus, Test}

\* The request ids of one owner are interchangeable.
Symmetry == Permutations(Attempt)

\* Either one owner buys, again and again and with a bonus, or both buy, once
\* each, for the one place of the machine and of the public test, which takes
\* less time.  Owners and attempts are interchangeable: the first one of each
\* stands for all.
First(S) == CHOOSE x \in S : TRUE
Buys(o, a) == acct[o].c[a].status # "none"

OneOwner ==
  \A o \in Owner, a \in Attempt :
    Buys(o, a) =>
      /\ o = First(Owner) /\ ~acct[o].c[a].offer.test
      /\ acct[o].c[a].offer.gift => now <= MaxTime - 1

OneEach ==
  /\ now <= MaxTime - 2
  /\ \A o \in Owner, a \in Attempt :
       Buys(o, a) => a = First(Attempt) /\ ~acct[o].c[a].offer.gift

InTurn ==
  \A o \in Owner, a \in Attempt :
    Buys(o, a) => Buys(First(Owner), First(Attempt))

AccountSpec == Init /\ [][Next /\ InTurn' /\ (OneOwner \/ OneEach)']_vars
=============================================================================
