--------------------------- MODULE MCOrderLedger ---------------------------
(* Instances of OrderLedger for TLC. *)
EXTENDS OrderLedger, TLC

CONSTANTS o1, o2, o3, a, b, k1, k2, k3

Behind == -2

OneContract == [o \in Orders |-> "c"]
TwoSteps == [o \in Orders |-> a]
OwnJobs == [o \in Orders |-> o]
OneTwo == [o \in Orders |-> IF o = o1 THEN 2 ELSE 1]
Ones == [o \in Orders |-> 1]
Symmetric == Permutations({k1, k2})
OpenOnly == {o1, o2}
OpenCloseOpen == {o1, o3}

\* Each order is placed when the others are over, nothing is in flight meanwhile, and
\* nothing is cancelled: some of the behaviours of Spec.
InTurn ==
  /\ \A o \in Orders : place[o] = "none" /\ place'[o] # "none" =>
       \A p \in Orders : place[p] = "none" \/ (place[p] = "done" /\ ~Works(p))
  /\ \A c \in Calls : call[c] = Idle /\ call'[c] # Idle =>
       /\ call'[c].kind # "cancel"
       /\ \A k \in Calls : call[k].kind \in {"idle", "done"}
       /\ \A o \in Orders : place[o] \in {"none", "done"}
QuietSpec == BooksInit /\ [][BooksNext /\ InTurn]_bookVars
=============================================================================
