-------------------------- MODULE SimulatedBroker --------------------------
(***************************************************************************)
(* The simulated order venue of a dry run (agent/simulated_broker.py): the *)
(* proxy's upstream answers order calls itself, fills every order at once, *)
(* and overlays what it did on the real reads.  One state serves the runs  *)
(* of a tick; the start probe of the second run overlays it on its own     *)
(* (agent/start_probe.py).  The real account lives on meanwhile.           *)
(***************************************************************************)
EXTENDS Integers, Sequences, Functions

CONSTANTS
  Contracts,     \* option ids
  RealOrders,    \* real orders of the account
  RefIds,        \* ref_ids of the place calls
  MaxQuantity,   \* bound: contracts of one order or one real position
  MaxSimulated   \* bound: simulated orders

VARIABLES
  fills,          \* state.orders, oldest first: [ref, option, change], all filled,
                  \* and what the latest read showed of the position, [read]
  refOf,          \* state.ref_ids: the order of each ref_id, 0 for none
  shortDelta,     \* state.short_delta
  realShort,      \* state.real_short: the latest read
  realHeld,           \* the real short positions
  realState,      \* the real orders: working, filled or gone
  realWorking,    \* state.real_working
  realCancelled,  \* state.real_cancelled
  shown           \* the model's last read of real orders: their state, "unread" at first

bookVars == <<fills, refOf, shortDelta>>
ordersVars == <<realState, realWorking, realCancelled, shown>>
simVars == <<bookVars, realShort, realHeld, ordersVars>>

NoRef == "none"
ASSUME SimAssumption == {MaxQuantity, MaxSimulated} \subseteq Nat

Quantities == 1..MaxQuantity

\* _short_held
ShortHeld(c) == realShort[c] + shortDelta[c]

Fills(ref, c, change) ==
  /\ Len(fills) < MaxSimulated
  /\ fills' = Append(fills, [ref |-> ref, option |-> c, change |-> change,
                           read |-> realShort[c]])
  /\ refOf' = IF ref = NoRef THEN refOf ELSE [refOf EXCEPT ![ref] = Len(fills) + 1]
  /\ shortDelta' = [shortDelta EXCEPT ![c] = @ + change]

\* Mutant of Replayed: a repeated place call is a new order.
ReplayedNever(ref) == FALSE

\* The order of this ref_id is answered again.
Replayed(ref) == ref # NoRef /\ refOf[ref] # 0

\* Mutant of Closes: what the last read showed may be closed, whatever was filled since.
ClosesFromRead(c, quantity) == realShort[c] >= quantity

\* A buy to close needs a short position of its size; anything else is refused.
Closes(c, quantity) == ShortHeld(c) >= quantity

\* _place
Place(ref, c, quantity) ==
  /\ IF Replayed(ref) THEN UNCHANGED bookVars
     ELSE \/ Fills(ref, c, quantity)
          \/ Closes(c, quantity) /\ Fills(ref, c, -quantity)
  /\ UNCHANGED <<realShort, realHeld, ordersVars>>

\* _cancel: simulated orders are filled, so only a real one that a read showed working.
CancelReal(o) ==
  /\ o \in realWorking \ realCancelled
  /\ realCancelled' = realCancelled \cup {o}
  /\ UNCHANGED <<bookVars, realShort, realHeld, realState, realWorking, shown>>

\* _observe_real: what the model is shown of a real order.
Observed(o) ==
  IF o \in realCancelled /\ realState[o] = "working" THEN "cancelled" ELSE realState[o]

\* _overlay_orders; a narrowed read lists some of them.
ReadOrders ==
  \E listed \in SUBSET RealOrders :
    /\ realWorking' = realWorking \cup {o \in listed : realState[o] = "working"}
    /\ shown' = [o \in RealOrders |-> IF o \in listed THEN Observed(o) ELSE shown[o]]
    /\ UNCHANGED <<bookVars, realShort, realHeld, realState, realCancelled>>

\* _overlay_positions, of a complete read: rows that list a short position change, a contract without
\* a row gets one, and a row that lists none (a closed position's) stays as it is.
Position(c, listed, real) ==
  IF real > 0 THEN IF real + shortDelta[c] > 0 THEN real + shortDelta[c] ELSE 0
  ELSE IF shortDelta[c] > 0 /\ ~listed THEN shortDelta[c] ELSE 0

\* A contract without a row, or whose row lists no short position, keeps the quantity of an earlier
\* read.
ReadPositions ==
  \E listed \in SUBSET {c \in Contracts : realHeld[c] > 0} :
    /\ realShort' = [c \in Contracts |-> IF c \in listed THEN realHeld[c] ELSE realShort[c]]
    /\ UNCHANGED <<bookVars, realHeld, ordersVars>>

\* overlay_simulated, of the start probe.
ProbedShort(c, real) ==
  LET quantity == real + shortDelta[c] IN IF quantity <= 0 THEN 0 ELSE quantity

\* The account's owner and its broker.
AccountMoves ==
  \/ \E c \in Contracts, q \in 0..MaxQuantity :
       realHeld' = [realHeld EXCEPT ![c] = q] /\ UNCHANGED <<bookVars, realShort, ordersVars>>
  \/ \E o \in RealOrders :
       /\ realState[o] = "working"
       /\ realState' = [realState EXCEPT ![o] = "filled"]
       /\ UNCHANGED <<bookVars, realShort, realHeld, realWorking, realCancelled, shown>>

SimBegins(positions) ==
  /\ fills = <<>>
  /\ refOf = [r \in RefIds |-> 0]
  /\ shortDelta = [c \in Contracts |-> 0]
  /\ realShort = [c \in Contracts |-> 0]
  /\ realHeld = positions
  /\ realState = [o \in RealOrders |-> "working"]
  /\ realWorking = {} /\ realCancelled = {}
  /\ shown = [o \in RealOrders |-> "unread"]

SimInit == \E positions \in [Contracts -> 0..MaxQuantity] : SimBegins(positions)

SimNext ==
  \/ \E ref \in RefIds \cup {NoRef}, c \in Contracts, q \in Quantities : Place(ref, c, q)
  \/ \E o \in RealOrders : CancelReal(o)
  \/ ReadOrders \/ ReadPositions \/ AccountMoves

SimSpec == SimInit /\ [][SimNext]_simVars

-----------------------------------------------------------------------------
(* Properties. *)

SimTypeOK ==
  /\ fills \in Seq([ref : RefIds \cup {NoRef}, option : Contracts, change : Int,
                    read : 0..MaxQuantity])
  /\ refOf \in [RefIds -> 0..MaxSimulated]
  /\ shortDelta \in [Contracts -> Int]
  /\ realShort \in [Contracts -> 0..MaxQuantity] /\ realHeld \in [Contracts -> 0..MaxQuantity]
  /\ realState \in [RealOrders -> {"working", "filled"}]
  /\ realWorking \subseteq RealOrders /\ realCancelled \subseteq realWorking
  /\ shown \in [RealOrders -> {"unread", "working", "filled", "cancelled"}]

\* The net short of the first fills on a contract.
NetFilled(c, upto) ==
  SumFunctionOnSet([i \in 1..upto |-> fills[i].change], {i \in 1..upto : fills[i].option = c})

\* A place call that is retried fills once (the replay of _place).
FilledOnce ==
  \A i, j \in DOMAIN fills : fills[i].ref # NoRef /\ fills[i].ref = fills[j].ref => i = j

\* The second run's start probe sees the position that the model is shown, except of a contract
\* whose row lists a closed position: there the probe still sees what was sold, the model nothing.
ProbeAgrees ==
  \A c \in Contracts, real \in 0..MaxQuantity, listed \in BOOLEAN :
    (real > 0 => listed) =>
      /\ Position(c, listed, real) <= ProbedShort(c, real)
      /\ (listed /\ real = 0) \/ Position(c, listed, real) = ProbedShort(c, real)

\* A place call that is retried fills once; no order closes more than the position the tick
\* knows of after its own fills; and the second run's start probe sees the position that
\* the model is shown, unless the broker lists it as closed.
SimBook ==
  /\ FilledOnce
  /\ \A i \in DOMAIN fills :
       fills[i].change < 0 => fills[i].read + NetFilled(fills[i].option, i) >= 0
  /\ \A c \in Contracts : shortDelta[c] = NetFilled(c, Len(fills))
  /\ ProbeAgrees
=============================================================================
