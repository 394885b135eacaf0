---------------------------- MODULE OrderLedger ----------------------------
(***************************************************************************)
(* The ledger's books of orders and positions (ledger/orders.py,           *)
(* ledger/positions.py, agent/broker_ledger.py).  The broker's orders move *)
(* on their own; what the ledger knows comes from results that are         *)
(* snapshots, taken at the broker at one moment and recorded at a later    *)
(* one, in any order: place results, order reads, cancel replies and       *)
(* position reads.  A reply that is lost, or not usable, is one that never *)
(* returns.  Observations are appended, and every question (is it still    *)
(* working, how much is filled, was the cancel confirmed, which lineage    *)
(* holds the contract) is answered by a projection of them.                *)
(***************************************************************************)
EXTENDS Integers, Sequences, FiniteSets

CONSTANTS
  Orders,     \* place calls; the broker makes at most one order of each
  Calls,      \* reads and cancels, each called once
  Contract,   \* Contract[o]: the contract of o
  Job,        \* Job[o]: the order-walk job whose step o is
  Opening,    \* the sell-to-open orders; the others buy to close
  Quantity,   \* Quantity[o]: the contracts of o
  Margin,     \* NO_ORDER_CLOCK_MARGIN
  Skew,       \* the broker's clock minus the ledger's
  MaxNow      \* bounds the changes of the broker's orders

ASSUME LedgerAssumption ==
  /\ Opening \subseteq Orders
  /\ Orders \cap Calls = {}
  /\ Quantity \in [Orders -> Nat \ {0}]
  /\ Margin \in Nat
  /\ Skew \in Int
  /\ MaxNow \in Nat

\* The margin is for the difference of the two clocks: however far the broker's is behind.
ASSUME ClocksAssumption == Margin + Skew >= 0

VARIABLES
  now,        \* the ledger's clock; it advances with the broker's orders
  broker,     \* broker[o]: the order's versions at the broker, oldest first
  held,       \* held[c]: contracts short in the account
  place,      \* place[o]: the place call's progress
  requestedAt,\* requestedAt[o]: when the place call was requested
  call,       \* call[c]: what c asked for, and its snapshot
  intents,    \* placements with a recorded intent
  links,      \* orders with an intent_linked event
  noOrder,    \* noOrder[o]: 0, or when the read that resolved o's intent was taken
  statuses,   \* statuses[o]: status_observed events, as recorded
  fills,      \* fills[o]: fill_observed events, as recorded
  cancels,    \* cancels[o]: cancellation_observed events, as recorded
  lineages    \* positions with what their events say, as opened

brokerVars == <<now, broker, held>>
recorded == <<links, statuses, fills, cancels, lineages>>
bookVars == <<now, broker, held, place, requestedAt, call, intents, links, noOrder,
          statuses, fills, cancels, lineages>>

AllContracts == {Contract[o] : o \in Orders}

-----------------------------------------------------------------------------
(* The broker's states, and what the mapper makes of them. *)

WorkingStates == {"queued", "partially_filled", "pending_cancelled"}
TerminalStates == {"filled", "cancelled", "rejected"}

\* Mutant of StatusOf: a cancel under way is read as a cancelled order.
StatusOfHasty(raw) ==
  IF raw = "queued" THEN "placed" ELSE IF raw = "pending_cancelled" THEN "cancelled" ELSE raw

\* _ORDER_STATUS: an order with a cancel under way still works.
StatusOf(raw) ==
  IF raw \in {"queued", "pending_cancelled"} THEN "placed" ELSE raw

Unresolved == {"placed", "partially_filled", "unknown"}

Exists(o) == broker[o] # <<>>
Current(o) == broker[o][Len(broker[o])]
Works(o) == Exists(o) /\ Current(o).raw \in WorkingStates
Created(o) == broker[o][1].at

-----------------------------------------------------------------------------
(* Projections of what is recorded. *)

\* Mutant of Latest: the last event recorded wins.
LatestRecorded(events) == CHOOSE e \in events : \A f \in events : f.seq <= e.seq

\* max(..., key=observed_at): of the latest observations, the first recorded.
Latest(events) ==
  CHOOSE e \in events : \A f \in events : f.at < e.at \/ (f.at = e.at /\ e.seq <= f.seq)

\* OrderRecord.status
Status(o) == IF statuses[o] = {} THEN "unknown" ELSE Latest(statuses[o]).status

Executions(o) == {f \in fills[o] : f.execution # 0}
Totals(o) == fills[o] \ Executions(o)
LatestTotal(o) == (CHOOSE f \in Totals(o) : \A g \in Totals(o) : g.at <= f.at).quantity

\* filled_quantity of one kind: executions are counted once each, of the totals the
\* latest counts.
FilledOfOneKind(o) ==
  IF Executions(o) # {} THEN Cardinality(Executions(o))
  ELSE IF Totals(o) # {} THEN LatestTotal(o) ELSE 0

\* Mutant of Filled: executions are believed whatever the totals say.
FilledUnchecked(o) == FilledOfOneKind(o)

\* filled_quantity: None (-1) when totals decrease, or the two kinds disagree.
Filled(o) ==
  IF \/ \E f, g \in Totals(o) : f.at < g.at /\ g.quantity < f.quantity
     \/ Executions(o) # {} /\ Totals(o) # {} /\ LatestTotal(o) # FilledOfOneKind(o)
  THEN -1
  ELSE FilledOfOneKind(o)

\* A cancel call's latest observation counts, of two at one time the last recorded: the
\* confirmation, which needs an earlier record of the cancel.
CancelStatus(o, c) ==
  LET of == {e \in cancels[o] : e.cancel = c}
      last == CHOOSE e \in of : \A f \in of :
                f.at < e.at \/ (f.at = e.at /\ (e.status = "confirmed" \/ f = e))
  IN  IF of = {} THEN "none" ELSE last.status

\* owned_unresolved_orders.  (An intent is recorded after the hooks' decision, so none
\* belongs to a denied call.)
Listed(o) ==
  \/ o \in links /\ Status(o) \in Unresolved
  \/ o \in intents \ links /\ noOrder[o] = 0

-----------------------------------------------------------------------------
(* What the record of one observed order adds: _record_order and its calls. *)

\* observe_status: one event for each read.
WithStatus(o, v) ==
  statuses[o] \cup {[status |-> StatusOf(broker[o][v].raw), at |-> broker[o][v].at,
                     seq |-> Cardinality(statuses[o]) + 1]}

\* Mutant of Reported: a total of nothing is reported too.
ReportedZero(o, v, detailed) ==
  IF detailed THEN {[execution |-> x, quantity |-> 1] : x \in 1..broker[o][v].filled}
  ELSE {[execution |-> 0, quantity |-> broker[o][v].filled]}

\* What a read reports of o's fills: its executions, or their total (execution 0).
Reported(o, v, detailed) ==
  IF detailed THEN {[execution |-> x, quantity |-> 1] : x \in 1..broker[o][v].filled}
  ELSE {[execution |-> 0, quantity |-> q] : q \in {broker[o][v].filled} \ {0}}

Key(f) == [execution |-> f.execution, quantity |-> f.quantity]

\* observe_fill: an execution, or a total, that is known already is not recorded again.
WithFills(o, v, detailed) ==
  fills[o] \cup {[execution |-> k.execution, quantity |-> k.quantity, at |-> broker[o][v].at] :
                   k \in Reported(o, v, detailed) \ {Key(f) : f \in fills[o]}}

\* observe_cancellation: what is known of a cancel call, and since when.
CancelEvent(c, status, at) == [cancel |-> c, status |-> status, at |-> at]

\* Mutant of Confirming: any read of the order confirms its cancels.
ConfirmingAlways(o, v) == TRUE

\* A terminal read confirms every earlier cancel request of the order.
Confirming(o, v) == StatusOf(broker[o][v].raw) \notin Unresolved

\* _confirm_cancellations
WithConfirmations(o, v) ==
  IF Confirming(o, v)
  THEN cancels[o] \cup
       {CancelEvent(c, "confirmed", broker[o][v].at) :
          c \in {x \in {e.cancel : e \in cancels[o]} :
                   \A e \in cancels[o] : e.cancel = x => e.status # "confirmed"}}
  ELSE cancels[o]

-----------------------------------------------------------------------------
(* Lineages. *)

Least(S) == CHOOSE l \in S : \A k \in S : l <= k
Active(ls) == {l \in DOMAIN ls : ~ls[l].closed}
FilledFrom(ls, S) == {l \in DOMAIN ls : \E e \in ls[l].entries : e.order \in S}
Kin(o) == {p \in Opening : Job[p] = Job[o]}

\* Mutant of Homes: a later step of a job does not know the earlier step's lineage.
HomesOfOrder(ls, o) == FilledFrom(ls, {o})

\* _lineage_of_order, else _lineage_of_job
Homes(ls, o) ==
  IF FilledFrom(ls, {o}) # {} THEN FilledFrom(ls, {o}) ELSE FilledFrom(ls, Kin(o))

\* _lineage_holding: the active lineages of the order's contract.
Holders(ls, o) == {l \in Active(ls) : ls[l].contract = Contract[o]}

\* open_position, with the fills that open it.
OpenPosition(o, quantity, new) ==
  [contract |-> Contract[o], quantity |-> quantity, closed |-> FALSE,
   entries |-> new, closes |-> {}]

\* _link_fills: the fills of an owned order join a lineage.
LinkFills(ls, o, v, detailed) ==
  LET new == {[order |-> o, execution |-> k.execution, quantity |-> k.quantity] :
                k \in Reported(o, v, detailed)}
  IN  IF new = {} THEN ls
      ELSE IF o \in Opening
      THEN IF Homes(ls, o) = {}
           THEN Append(ls, OpenPosition(o, broker[o][v].filled, new))
           ELSE [ls EXCEPT ![Least(Homes(ls, o))].entries = @ \cup new]
      ELSE IF Cardinality(Holders(ls, o)) = 1
      THEN [ls EXCEPT ![Least(Holders(ls, o))].closes = @ \cup new]
      ELSE ls

\* The orders of a read are recorded newest first.
Oldest(S) == CHOOSE o \in S : \A p \in S : broker[o][1].at <= broker[p][1].at

LinkAll(seen, owned, detailed) ==
  LET After[S \in SUBSET owned] ==
        IF S = {} THEN lineages
        ELSE LinkFills(After[S \ {Oldest(S)}], Oldest(S), seen[Oldest(S)], detailed)
  IN  After[owned]

\* _record_order for every order o seen at version seen[o] (0: not listed).
RecordOrders(seen, owned, detailed) ==
  LET shown == {o \in Orders : seen[o] # 0}
  IN  /\ statuses' = [o \in Orders |-> IF o \in shown THEN WithStatus(o, seen[o]) ELSE statuses[o]]
      /\ fills' = [o \in Orders |-> IF o \in shown THEN WithFills(o, seen[o], detailed) ELSE fills[o]]
      /\ cancels' = [o \in Orders |-> IF o \in shown THEN WithConfirmations(o, seen[o]) ELSE cancels[o]]
      /\ lineages' = LinkAll(seen, shown \cap owned, detailed)

-----------------------------------------------------------------------------
(* The broker. *)

Version(raw, filled) == [raw |-> raw, filled |-> filled, at |-> now + 1 + Skew]

\* A version of o more, at a later time than every other one.
BrokerMoves(o, raw, filled) ==
  /\ now < MaxNow
  /\ now' = now + 1
  /\ broker' = [broker EXCEPT ![o] = Append(@, Version(raw, filled))]
  /\ UNCHANGED <<place, requestedAt, call, intents, noOrder, recorded>>

\* A place call's order is taken, or rejected, at any time, also when its caller gave up.
BrokerTakes(o) ==
  /\ place[o] = "sent"
  /\ ~Exists(o)
  /\ \E raw \in {"queued", "rejected"} : BrokerMoves(o, raw, 0)
  /\ UNCHANGED held

BrokerFills(o) ==
  LET filled == Current(o).filled + 1
      raw == IF filled = Quantity[o] THEN "filled"
             ELSE IF Current(o).raw = "queued" THEN "partially_filled" ELSE Current(o).raw
  IN  /\ Works(o)
      /\ o \in Opening \/ held[Contract[o]] > 0
      /\ BrokerMoves(o, raw, filled)
      /\ held' = [held EXCEPT ![Contract[o]] = IF o \in Opening THEN @ + 1 ELSE @ - 1]

CancelAsked(o) == \E c \in Calls : call[c].kind \in {"cancel", "cancelled"} /\ call[c].order = o

\* A cancel request takes effect in two steps; a day's end cancels at once.
BrokerTakesCancel(o) ==
  /\ Works(o) /\ Current(o).raw # "pending_cancelled" /\ CancelAsked(o)
  /\ BrokerMoves(o, "pending_cancelled", Current(o).filled)
  /\ UNCHANGED held

BrokerCancels(o) ==
  /\ Works(o)
  /\ BrokerMoves(o, "cancelled", Current(o).filled)
  /\ UNCHANGED held

-----------------------------------------------------------------------------
(* Place calls. *)

\* The call is requested and allowed.
Request(o) ==
  /\ place[o] = "none"
  /\ place' = [place EXCEPT ![o] = "requested"]
  /\ requestedAt' = [requestedAt EXCEPT ![o] = now]
  /\ UNCHANGED <<brokerVars, call, intents, noOrder, recorded>>

\* before_dispatch: the intent is recorded, then the call is sent.
RecordIntent(o) ==
  /\ place[o] = "requested"
  /\ intents' = intents \cup {o}
  /\ place' = [place EXCEPT ![o] = "sent"]
  /\ UNCHANGED <<brokerVars, requestedAt, call, noOrder, recorded>>

\* A validated place result: the order is linked to its intent and recorded.
PlaceReturns(o) ==
  /\ place[o] = "sent" /\ Exists(o)
  /\ place' = [place EXCEPT ![o] = "done"]
  /\ links' = links \cup {o}
  /\ \E v \in 1..Len(broker[o]), detailed \in BOOLEAN :
       RecordOrders([p \in Orders |-> IF p = o THEN v ELSE 0], links \cup {o}, detailed)
  /\ UNCHANGED <<brokerVars, requestedAt, call, intents, noOrder>>

-----------------------------------------------------------------------------
(* Reads and cancels. *)

Idle == [kind |-> "idle"]

Ask(c, what) ==
  /\ call[c] = Idle
  /\ call' = [call EXCEPT ![c] = what]
  /\ UNCHANGED <<brokerVars, place, requestedAt, intents, noOrder, recorded>>

\* get_option_orders: of every order (a complete read), or narrowed to one.
AskOrders(c) ==
  \E S \in {Orders} \cup {{o} : o \in links} :
    Ask(c, [kind |-> "orders", complete |-> S = Orders, taken |-> now,
            seen |-> [o \in Orders |-> IF o \in S THEN Len(broker[o]) ELSE 0]])

\* Mutant of NothingSince: the two clocks are taken for one.
NothingSinceRequest(o, seen) ==
  \A p \in Orders : seen[p] # 0 => Created(p) < requestedAt[o]

\* The read lists no order created since the intent, less the margin.
NothingSince(o, seen) ==
  \A p \in Orders : seen[p] # 0 => Created(p) < requestedAt[o] - Margin

\* _resolve_unlinked_intents (the read is also dated, for the properties)
Resolve(c) ==
  noOrder' = [o \in Orders |->
    IF /\ call[c].complete /\ o \in intents \ links /\ noOrder[o] = 0
       /\ NothingSince(o, call[c].seen)
    THEN call[c].taken + 1 ELSE noOrder[o]]

OrdersReturn(c) ==
  /\ call[c].kind = "orders"
  /\ \E detailed \in BOOLEAN : RecordOrders(call[c].seen, links, detailed)
  /\ Resolve(c)
  /\ call' = [call EXCEPT ![c] = [kind |-> "done"]]
  /\ UNCHANGED <<brokerVars, place, requestedAt, intents, links>>

\* cancel_option_order, of an order some result has shown.
AskCancel(c) ==
  \E o \in Orders : statuses[o] # {} /\ Ask(c, [kind |-> "cancel", order |-> o])

\* _record_cancel_request: accepted is pending, refused is unknown.
CancelReturns(c) ==
  /\ call[c].kind = "cancel"
  /\ \E status \in {"pending", "unknown"} :
       cancels' = [cancels EXCEPT ![call[c].order] =
                     @ \cup {CancelEvent(c, status, now)}]
  /\ call' = [call EXCEPT ![c].kind = "cancelled"]
  /\ UNCHANGED <<brokerVars, place, requestedAt, intents, noOrder, links, statuses, fills, lineages>>

\* A complete get_option_positions (an incomplete one records nothing).
AskPositions(c) == Ask(c, [kind |-> "positions", held |-> held])

\* _reconcile_lineages: close what is no longer listed, take over changed quantities.
Reconciled(l, rows) ==
  IF l.closed \/ rows[l.contract] = l.quantity THEN l
  ELSE IF rows[l.contract] = 0 THEN [l EXCEPT !.closed = TRUE]
  ELSE [l EXCEPT !.quantity = rows[l.contract]]

PositionsReturn(c) ==
  /\ call[c].kind = "positions"
  /\ lineages' = [i \in DOMAIN lineages |-> Reconciled(lineages[i], call[c].held)]
  /\ call' = [call EXCEPT ![c] = [kind |-> "done"]]
  /\ UNCHANGED <<brokerVars, place, requestedAt, intents, noOrder, links, statuses, fills, cancels>>

-----------------------------------------------------------------------------

BooksInit ==
  /\ now = 0
  /\ broker = [o \in Orders |-> <<>>]
  /\ held = [c \in AllContracts |-> 0]
  /\ place = [o \in Orders |-> "none"]
  /\ requestedAt = [o \in Orders |-> 0]
  /\ call = [c \in Calls |-> Idle]
  /\ intents = {} /\ links = {}
  /\ noOrder = [o \in Orders |-> 0]
  /\ statuses = [o \in Orders |-> {}]
  /\ fills = [o \in Orders |-> {}]
  /\ cancels = [o \in Orders |-> {}]
  /\ lineages = <<>>

Placing(o) == Request(o) \/ RecordIntent(o) \/ PlaceReturns(o)
Broker(o) == BrokerTakes(o) \/ BrokerFills(o) \/ BrokerTakesCancel(o) \/ BrokerCancels(o)
Calling(c) ==
  \/ AskOrders(c) \/ OrdersReturn(c) \/ AskCancel(c) \/ CancelReturns(c)
  \/ AskPositions(c) \/ PositionsReturn(c)

BooksNext == (\E o \in Orders : Placing(o) \/ Broker(o)) \/ (\E c \in Calls : Calling(c))

BooksSpec == BooksInit /\ [][BooksNext]_bookVars

-----------------------------------------------------------------------------
(* Properties. *)

\* Types: versions follow one another in time, and what is recorded is of this shape.
BooksTypeOK ==
  /\ now \in Nat
  /\ \A o \in Orders : \A v \in DOMAIN broker[o] :
       /\ broker[o][v].raw \in WorkingStates \cup TerminalStates
       /\ broker[o][v].filled \in 0..Quantity[o]
       /\ v > 1 => broker[o][v].at > broker[o][v - 1].at
  /\ place \in [Orders -> {"none", "requested", "sent", "done"}]
  /\ requestedAt \in [Orders -> Nat]
  /\ intents \subseteq Orders /\ links \subseteq intents
  /\ noOrder \in [Orders -> Nat]
  /\ \A o \in Orders :
       /\ {e.status : e \in statuses[o]} \subseteq {"placed", "partially_filled"} \cup TerminalStates
       /\ {Key(f) : f \in fills[o]} \subseteq
            [execution : 0..Quantity[o], quantity : 1..Quantity[o]]
       /\ {e.status : e \in cancels[o]} \subseteq {"pending", "unknown", "confirmed"}
  /\ \A i \in DOMAIN lineages : lineages[i].quantity \in Nat

\* An order that works at the broker and is linked to its intent is always listed as
\* unresolved, whatever stale reads arrive: the gate counts it and the clean-up cancels it.
ListedWhileWorking == \A o \in links : Works(o) => Listed(o)

\* A resolved order is never unresolved again: a late record of an early read changes
\* neither a terminal status nor which one it is.
NeverBackwards ==
  [][\A o \in Orders : Status(o) \in TerminalStates => Status(o)' = Status(o)]_bookVars

\* filled_quantity is never more than the broker executed; once the order is terminal
\* it is exact or unknown.
FillsTrue ==
  \A o \in Orders : fills[o] # {} =>
    /\ Filled(o) <= Current(o).filled
    /\ Status(o) \in TerminalStates => Filled(o) \in {-1, Current(o).filled}

\* A cancellation is confirmed only when its order can no longer fill.
ConfirmedIsTerminal ==
  \A o \in Orders, c \in Calls :
    CancelStatus(o, c) = "confirmed" => Exists(o) /\ ~Works(o)

\* An intent is resolved as "no order" although the broker has one only if the broker
\* took the order after the resolving read was taken, the place call being still open.
ForgottenOnlyByOverlap ==
  \A o \in Orders : noOrder[o] # 0 /\ Exists(o) => Created(o) - Skew >= noOrder[o]

\* A working order is not forgotten: neither while it is linked, nor by the resolution of an
\* intent that no read had linked yet.
WorkingKnown == ListedWhileWorking /\ ForgottenOnlyByOverlap

\* The steps of one job build one position: the entry fills of its orders are never
\* spread over two lineages.
OneLineagePerJob ==
  \A o \in Opening : Cardinality(FilledFrom(lineages, Kin(o))) <= 1

\* What the projections say of an order's fills, its cancellation and its position is true, and no
\* working order is forgotten, in whatever order the snapshots are recorded.
OrdersTrue == WorkingKnown /\ FillsTrue /\ ConfirmedIsTerminal /\ OneLineagePerJob

\* "A terminal read confirms every earlier cancel request" (agent/broker_ledger.py:389).
TerminalReadConfirms ==
  \A o \in Orders : \A e \in cancels[o] :
    (\E f \in cancels[o] : f.cancel = e.cancel /\ f.status = "confirmed")
      => CancelStatus(o, e.cancel) = "confirmed"

\* A fill is linked to one lineage: an old close is not part of a later position.
FillInOneLineage ==
  \A i, j \in DOMAIN lineages : i # j => lineages[i].closes \cap lineages[j].closes = {}
=============================================================================
