----------------------------- MODULE MCEvidence -----------------------------
(***************************************************************************)
(* The parts of the system that work on what a run has recorded, checked   *)
(* in one run as in MCSession: `part` says which of them this behaviour is *)
(* about, and the others stay as they begin.                               *)
(***************************************************************************)
EXTENDS MCOrderLedger, Sizing, LegCheck, MCOrderGate, Lineages, FactsTool

CONSTANTS l1, l2, n1, n2, p1

VARIABLE part

evidenceVars == <<part, bookVars, sizeVars, legVars, gateVars, lineVars, factsVars>>

\* Rules with some settings at a number, one at "none" and one left open.
SizingRules ==
  {[orderCap |-> NoLimit, underlyingUsd |-> NoLimit, underlyingRatio |-> 3, reserve |-> 1,
    totalRatio |-> 8, coverage |-> Unset],
   [orderCap |-> 2, underlyingUsd |-> 4, underlyingRatio |-> NoLimit, reserve |-> NoLimit,
    totalRatio |-> 5, coverage |-> 5]}

\* A market that meets the filters, one whose share fell and one without a delta.
ThreeMarkets ==
  {[delta |-> 2, bid |-> 1, spot |-> 12], [delta |-> 2, bid |-> 2, spot |-> 8],
   [delta |-> Unknown, bid |-> 2, spot |-> 12]}

\* Filters that a bid of 2 meets, that any bid meets, and one left open.
Filter(minDte, minYield, age) ==
  [minDte |-> minDte, maxDte |-> 5, minDelta |-> 1, maxDelta |-> 3, minCushion |-> 1,
   minYield |-> minYield, optionAge |-> age, equityAge |-> 1]
ThreeFilters ==
  {Filter(0, 40, 0), Filter(NoLimit, 30, 1),
   [Filter(1, Unset, NoLimit) EXCEPT !.minCushion = NoLimit]}

\* Fills of an order read by its executions, and of one read by its totals; a roll in two price
\* steps; decisions that opened what these orders entered, and one on a lineage of the book.
ThreeFills ==
  LET FillSeen(o, x, q, at, priced) ==
        [order |-> o, execution |-> x, quantity |-> q, at |-> at, priced |-> priced]
  IN  <<FillSeen("x", 1, 1, 1, TRUE), FillSeen("y", 0, 1, 1, FALSE),
        FillSeen("y", 0, 2, 2, TRUE)>>
FilledOf == [o \in {"x", "y"} |-> IF o = "x" THEN 1 ELSE 2]
TwoPriceSteps == [k \in {"roll"} |-> {"s", "t"}]
ThreeDecisions ==
  LET Decided(ref, action, line, orders) ==
        [ref |-> ref, action |-> action, line |-> line, orders |-> orders]
  IN  <<Decided(1, "open", l1, {"x"}), Decided(2, "hold", l1, {}), Decided(3, "open", l1, {"y"})>>

\* A run that reads a contract of the position p1, which the board lists too, and one that only a
\* position row names at first; it begins with orders read, or with the contract issued as listed.
OneHeld == [p \in {p1} |-> {n1}]
TheAnswers ==
  {[kind |-> k, of |-> {}] : k \in {"shares", "orders", "options"}}
  \cup {[kind |-> k, of |-> {n1}] : k \in {"instruments", "board"}}
  \cup {[kind |-> k, of |-> {n2}] : k \in {"options", "instruments"}}
TwoBeginnings ==
  LET Seen(kind, of, build, origin) ==
        [kind |-> kind, at |-> 0, of |-> of, build |-> build, origin |-> origin]
  IN  {<<Seen("orders", {}, 0, {}), Seen("instruments", {n1}, 0, {})>>,
       <<Seen("board", {n1}, 1, {}), Seen("instruments", {n1}, 0, {n1})>>}

\* How a part begins that the behaviour is not about.
Resting(p) == part # p
SizeBegin ==
  IF Resting("sizing")
  THEN SizeBegins(CHOOSE r \in RuleBooks : TRUE, CHOOSE c \in StartCash : TRUE, 0) ELSE SizeInit

LegBegin ==
  IF Resting("leg")
  THEN LegBegins("put", CHOOSE f \in Filters : TRUE, CHOOSE m \in Markets : TRUE) ELSE LegInit
GateBegin == IF Resting("gate") THEN GateBegins("wheel", {}) ELSE GateInit
FactsStart ==
  IF Resting("facts") THEN FactsBegin(CHOOSE rs \in Beginnings : TRUE) ELSE FactsInit

Init ==
  /\ part \in {"books", "sizing", "leg", "gate", "lineages", "facts"}
  /\ BooksInit /\ SizeBegin /\ LegBegin /\ GateBegin /\ LinesBegin(part = "lineages") /\ FactsStart

Next ==
  \/ part = "books" /\ BooksNext
     /\ UNCHANGED <<part, sizeVars, legVars, gateVars, lineVars, factsVars>>
  \/ part = "sizing" /\ SizeNext
     /\ UNCHANGED <<part, bookVars, legVars, gateVars, lineVars, factsVars>>
  \/ part = "leg" /\ LegNext
     /\ UNCHANGED <<part, bookVars, sizeVars, gateVars, lineVars, factsVars>>
  \/ part = "gate" /\ GateNext
     /\ UNCHANGED <<part, bookVars, sizeVars, legVars, lineVars, factsVars>>
  \/ part = "lineages" /\ LinesNext
     /\ UNCHANGED <<part, bookVars, sizeVars, legVars, gateVars, factsVars>>
  \/ part = "facts" /\ FactsNext
     /\ UNCHANGED <<part, bookVars, sizeVars, legVars, gateVars, lineVars>>

Spec == Init /\ [][Next]_evidenceVars

\* Every variable of the parts has its type (those of a part at rest have that of a beginning).
TypeOK ==
  /\ part = "books" => BooksTypeOK
  /\ part = "sizing" => SizeTypeOK
  /\ part = "leg" => LegTypeOK
  /\ part = "gate" => GateTypeOK
  /\ part = "lineages" => LinesTypeOK
  /\ part = "facts" => FactsTypeOK

\* What the ledger's projections say of orders, fills, cancellations and positions is true: OrdersTrue
\* of OrderLedger, LineagesTrue of Lineages.
BooksTrue == (part = "books" => OrdersTrue) /\ (part = "lineages" => LineagesTrue)

\* What the gate lets through rests on the market as it was shown, on fills and on funds.
GateSound == (part = "leg" => LegsHonest) /\ (part = "gate" => GateKeeps)

\* Sizes are within the account, as the facts show it, and the facts rest on what was read: SizesHold
\* of Sizing, FactsRest of FactsTool.
SizingSound == (part = "sizing" => SizesHold) /\ (part = "facts" => FactsRest)
=============================================================================
