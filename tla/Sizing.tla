------------------------------- MODULE Sizing -------------------------------
(***************************************************************************)
(* How many contracts the decision facts allow (domain/facts_compute.py),  *)
(* computed from the run's latest account, positions and open-orders reads *)
(* (agent/facts_tool.py) while the account moves on, and what the audit of *)
(* the hard caps says of an order placed on that evidence                  *)
(* (agent/audit/v7_caps.py, agent/run_loader.py).  Amounts are collateral  *)
(* in whole units; contracts are abstracted to what they reserve.          *)
(***************************************************************************)
EXTENDS RuleSettings

CONSTANTS
  RuleBooks,     \* the rule sets considered
  AccountValue,  \* what the account is worth; it does not change within a run
  Lot,           \* collateral of one contract of the candidate
  Owned,         \* share lots of the underlying
  StartCash,     \* settled cash a run may begin with
  MaxMoves,      \* bound: changes of the account during the run
  MaxContracts   \* bound: contracts of an audited order

Reads == {"account", "positions", "orders"}
Tenths == 10    \* ratios are in tenths

VARIABLES
  rules,      \* FactsRules
  cash,       \* the account's cash and cash-secured puts, as the broker holds them
  lots,       \* its covered calls on the underlying, and the position book's count of them
  latest,     \* the run's latest read of each kind
  first,      \* the run's first reads: the cash baseline, with the unsettled funds at the start
  current,    \* the reads the account has not changed since
  old,        \* the reads older than account_state_max_age_seconds
  unlisted,   \* an order action of this run is later than its last open-orders read
  arrived,    \* cash that settled or was deposited since the session began
  moves       \* changes of the account so far

reads == <<latest, first>>
sizeVars == <<rules, cash, lots, latest, first, current, old, unlisted, arrived, moves>>

\* The fields of FactsRules; the share of a lot that calls may cover is at most 1.
RulesTyped(r) ==
  /\ r.orderCap \in Nat \cup {NoLimit, Unset}
  /\ r.underlyingUsd \in Nat \cup {NoLimit, Unset}
  /\ r.underlyingRatio \in Nat \cup {NoLimit, Unset}
  /\ r.reserve \in Nat \cup {NoLimit, Unset}
  /\ r.totalRatio \in 0..Tenths \cup {NoLimit, Unset}
  /\ r.coverage \in 0..Tenths \cup {NoLimit, Unset}

SizingAssumption ==
  /\ Lot \in Nat \ {0} /\ AccountValue \in Nat /\ Owned \in Nat
  /\ StartCash \subseteq Nat /\ MaxMoves \in Nat
  /\ \A r \in RuleBooks : RulesTyped(r)
ASSUME SizingAssumption

-----------------------------------------------------------------------------
(* The broker: what it holds against short puts and working orders, and    *)
(* what it reports.  Premium is unsettled until it settles.                *)

Hold(c) == c.held + c.selling + c.heldElsewhere + c.sellingElsewhere
Net(c) == c.settled - Hold(c)          \* buying power
Gross(c) == c.settled + c.unsettled    \* cash

Moves ==
  /\ moves < MaxMoves
  /\ moves' = moves + 1
  /\ current' = {}
  /\ UNCHANGED <<rules, reads, old>>

\* A working sell-to-open order, of this run or of anyone else.
Sells(own) ==
  /\ Moves
  /\ \/ /\ Net(cash) >= Lot
        /\ cash' = [cash EXCEPT !.selling = @ + Lot]
     \/ /\ Net(cash) >= Lot /\ ~own
        /\ cash' = [cash EXCEPT !.sellingElsewhere = @ + Lot]
  /\ unlisted' = (unlisted \/ own)
  /\ UNCHANGED <<lots, arrived>>

\* It fills: the put is held and its premium is received, unsettled.
Fills ==
  /\ Moves
  /\ \/ /\ cash.selling >= Lot
        /\ cash' = [cash EXCEPT !.selling = @ - Lot, !.held = @ + Lot, !.unsettled = @ + 1]
     \/ /\ cash.sellingElsewhere >= Lot
        /\ cash' = [cash EXCEPT !.sellingElsewhere = @ - Lot, !.heldElsewhere = @ + Lot,
                                !.unsettled = @ + 1]
  /\ UNCHANGED <<lots, unlisted, arrived>>

\* It is cancelled, by this run or by anyone else.
Cancels(own) ==
  /\ Moves
  /\ cash.selling >= Lot
  /\ cash' = [cash EXCEPT !.selling = @ - Lot]
  /\ unlisted' = (unlisted \/ own)
  /\ UNCHANGED <<lots, arrived>>

\* A short put is bought back with settled cash.
BuysBack ==
  /\ Moves
  /\ cash.held >= Lot /\ Net(cash) + Lot >= 1
  /\ cash' = [cash EXCEPT !.held = @ - Lot, !.settled = @ - 1]
  /\ UNCHANGED <<lots, unlisted, arrived>>

\* Proceeds settle, or a deposit arrives.
Settles ==
  /\ Moves
  /\ \/ /\ cash.unsettled > 0
        /\ cash' = [cash EXCEPT !.settled = @ + 1, !.unsettled = @ - 1]
     \/ cash' = [cash EXCEPT !.settled = @ + 1]
  /\ arrived' = arrived + 1
  /\ UNCHANGED <<lots, unlisted>>

\* Covered calls: sold, filled, being bought back, bought back; and the ledger's book of
\* them, which takes a fill over when it is read.
CallsMove ==
  /\ Moves
  /\ \/ lots.short + lots.selling < Owned /\ lots' = [lots EXCEPT !.selling = @ + 1]
     \/ lots.selling > 0 /\ lots' = [lots EXCEPT !.selling = @ - 1, !.short = @ + 1]
     \/ lots.closing < lots.short /\ lots' = [lots EXCEPT !.closing = @ + 1]
     \/ lots.closing > 0 /\ lots' = [lots EXCEPT !.closing = @ - 1, !.short = @ - 1]
     \/ lots.book # lots.short /\ lots' = [lots EXCEPT !.book = lots.short]
  /\ UNCHANGED <<cash, unlisted, arrived>>

-----------------------------------------------------------------------------
(* The run's evidence: the latest read of each kind and the first.         *)

\* What a read of each kind records; a snapshot also, for the properties, the cash that
\* lay behind it.
Snapshot == [net |-> Net(cash), gross |-> Gross(cash), settled |-> cash.settled,
             arrived |-> arrived]
Positions == [held |-> cash.held, heldElsewhere |-> cash.heldElsewhere, short |-> lots.short]
OpenOrders == [selling |-> cash.selling, sellingElsewhere |-> cash.sellingElsewhere,
               lots |-> lots.selling, closing |-> lots.closing]

Observed(kind) ==
  CASE kind = "account" -> Snapshot [] kind = "positions" -> Positions
    [] kind = "orders" -> OpenOrders

\* A read is recorded; the run's first of its kind is the baseline's.
Read(kind) ==
  /\ latest' = [latest EXCEPT ![kind] = Observed(kind)]
  /\ first' = IF first[kind] = Unknown THEN [first EXCEPT ![kind] = Observed(kind)] ELSE first
  /\ current' = current \cup {kind}
  /\ old' = old \ {kind}
  /\ unlisted' = IF kind = "orders" THEN FALSE ELSE unlisted
  /\ UNCHANGED <<rules, cash, lots, arrived, moves>>

\* Time passes: reads become too old to use.
Ages(kind) ==
  /\ latest[kind] # Unknown /\ kind \notin old
  /\ old' = old \cup {kind}
  /\ UNCHANGED <<rules, cash, lots, latest, first, current, unlisted, arrived, moves>>

\* The account, positions and orders of the computation: recorded, and not too old.
Usable(kind) == latest[kind] # Unknown /\ kind \notin old

\* _cover over both underlyings: held short puts and unfilled sell-to-open puts.
Cover(positions, orders) ==
  positions.held + positions.heldElsewhere + orders.selling + orders.sellingElsewhere

\* settled_baseline_cash: the first snapshot balances with the first reads.
BaselineComplete == \A kind \in Reads : first[kind] # Unknown
BaselineSettled == first["account"].gross - first.unsettledAtStart
BaselineBalances ==
  BaselineComplete
    /\ BaselineSettled - Cover(first["positions"], first["orders"]) = first["account"].net

\* Mutant of Reserved: the reads are believed although the broker's cash contradicts them.
ReservedUnchecked ==
  IF \E kind \in Reads : ~Usable(kind) THEN Unknown
  ELSE Cover(latest["positions"], latest["orders"])

\* derived_csp_reservation: the reads' collateral, when the broker's cash agrees with it;
\* proceeds that are not settled may lie between, if the baseline balanced.
Reserved ==
  IF \E kind \in Reads : ~Usable(kind) THEN Unknown
  ELSE LET r == Cover(latest["positions"], latest["orders"])
           net == latest["account"].net
           gross == latest["account"].gross
       IN IF \/ gross - r = net
             \/ BaselineBalances /\ net = BaselineSettled - r /\ gross >= first["account"].gross
          THEN r ELSE Unknown

-----------------------------------------------------------------------------
(* Capacities.                                                             *)

\* contracts: whole contracts that fit an amount.
Contracts(available, per) == IF available <= 0 THEN 0 ELSE available \div per

\* _smallest, of two caps: one that is unavailable makes the result unavailable.
Lesser(a, b) ==
  IF a = Unknown \/ b = Unknown THEN Unknown
  ELSE IF a = NoLimit THEN b ELSE IF b = NoLimit THEN a ELSE IF a <= b THEN a ELSE b

OrderCap == Rule(rules.orderCap)

\* covering, of this underlying's puts.
Existing ==
  IF Usable("positions") /\ Usable("orders")
  THEN latest["positions"].held + latest["orders"].selling ELSE Unknown

\* underlying_cap, of the cap in USD and of the ratio of the account's value.
UnderlyingUsdCap ==
  LET usd == Rule(rules.underlyingUsd) IN
  IF usd = NoLimit THEN NoLimit
  ELSE IF usd = Unknown \/ Existing = Unknown THEN Unknown
  ELSE Contracts(usd - Existing, Lot)
UnderlyingRatioCap ==
  LET ratio == Rule(rules.underlyingRatio) IN
  IF ratio = NoLimit THEN NoLimit
  ELSE IF ratio = Unknown \/ Existing = Unknown \/ ~Usable("account") THEN Unknown
  ELSE Contracts(ratio * AccountValue - Tenths * Existing, Tenths * Lot)

CashCap ==
  IF rules.reserve = Unset \/ ~Usable("account") THEN Unknown
  ELSE Contracts(latest["account"].net - (IF rules.reserve = NoLimit THEN 0 ELSE rules.reserve), Lot)

\* Mutant of TotalCap: the cash base leaves out what is reserved already.
TotalCapOfCash ==
  LET total == Rule(rules.totalRatio) IN
  IF total = NoLimit THEN NoLimit
  ELSE IF total = Unknown \/ ~Usable("account") \/ Reserved = Unknown THEN Unknown
  ELSE Contracts(total * latest["account"].net, Tenths * Lot)

\* Room under the ratio of the cash base B = C + R.
TotalCap ==
  LET total == Rule(rules.totalRatio) IN
  IF total = NoLimit THEN NoLimit
  ELSE IF total = Unknown \/ ~Usable("account") \/ Reserved = Unknown THEN Unknown
  ELSE Contracts(total * (latest["account"].net + Reserved) - Tenths * Reserved, Tenths * Lot)

\* csp_capacity
CspCapacity ==
  Lesser(Lesser(OrderCap, Lesser(UnderlyingUsdCap, UnderlyingRatioCap)), Lesser(CashCap, TotalCap))

\* Mutant of CcCapacity: calls that are still being sold are not counted.
CcCapacityHeld ==
  LET coverage == IF rules.coverage = NoLimit THEN Tenths ELSE rules.coverage IN
  Lesser(OrderCap,
         IF rules.coverage = Unset \/ ~Usable("positions") \/ ~Usable("orders") THEN Unknown
         ELSE Contracts(Owned * coverage - Tenths * latest["positions"].short, Tenths))

\* cc_capacity, in lots
CcCapacity ==
  LET coverage == IF rules.coverage = NoLimit THEN Tenths ELSE rules.coverage IN
  Lesser(OrderCap,
         IF rules.coverage = Unset \/ ~Usable("positions") \/ ~Usable("orders") THEN Unknown
         ELSE Contracts(Owned * coverage
                          - Tenths * (latest["positions"].short + latest["orders"].lots), Tenths))

\* close_capacity: the broker's count must be the position book's.
CloseCapacity ==
  IF ~Usable("positions") \/ ~Usable("orders") \/ latest["positions"].short # lots.book
  THEN Unknown
  ELSE IF latest["positions"].short > latest["orders"].closing
       THEN latest["positions"].short - latest["orders"].closing ELSE 0

\* compute_decision_facts: the remaining quantity of a target.  The facts tool passes no
\* established target and no confirmed fills.
Remaining(target, capacity) ==
  IF target = Unknown \/ capacity = Unknown THEN Unknown
  ELSE IF target <= capacity THEN target ELSE capacity
\* _close_target
CloseTarget(quantity) == IF quantity > lots.book THEN Unknown ELSE quantity

-----------------------------------------------------------------------------
(* The audit of an opening of n contracts placed on the same evidence.     *)

Verdicts == {"pass", "violation", "unverifiable"}

\* _per_order
PerOrder(n) ==
  IF rules.orderCap = NoLimit THEN "pass"
  ELSE IF rules.orderCap = Unset THEN "unverifiable"
  ELSE IF n > rules.orderCap THEN "violation" ELSE "pass"

\* pre_order_state, over the state broker_states composes of the reads before the dispatch:
\* only the snapshot must be fresh, and only the orders read tells which earlier order
\* actions of the run it reflects.
PreState == Usable("account") /\ ~unlisted

\* csp_exposure of that state
Exposure ==
  IF latest["positions"] = Unknown \/ latest["orders"] = Unknown THEN Unknown
  ELSE latest["positions"].held + latest["orders"].selling

\* Mutant of PerUnderlying: the new order is not part of the exposure.
PerUnderlyingWithout(n) ==
  LET usd == rules.underlyingUsd
      ratio == rules.underlyingRatio
  IN IF usd = NoLimit /\ ratio = NoLimit THEN "pass"
     ELSE IF usd = Unset \/ ratio = Unset \/ ~PreState \/ Exposure = Unknown THEN "unverifiable"
     ELSE IF \/ usd # NoLimit /\ Exposure > usd
             \/ ratio # NoLimit /\ Tenths * Exposure > ratio * AccountValue
     THEN "violation" ELSE "pass"

\* _per_underlying
PerUnderlying(n) ==
  LET usd == rules.underlyingUsd
      ratio == rules.underlyingRatio
      exposure == Exposure + n * Lot
  IN IF usd = NoLimit /\ ratio = NoLimit THEN "pass"
     ELSE IF usd = Unset \/ ratio = Unset \/ ~PreState \/ Exposure = Unknown THEN "unverifiable"
     ELSE IF \/ usd # NoLimit /\ exposure > usd
             \/ ratio # NoLimit /\ Tenths * exposure > ratio * AccountValue
     THEN "violation" ELSE "pass"

\* _total_ratio: the snapshot of get_portfolio never reports the reserved cash.
TotalRatio(n) == IF rules.totalRatio = NoLimit THEN "pass" ELSE "unverifiable"

-----------------------------------------------------------------------------
SizeBegins(r, settled, unsettled) ==
  /\ rules = r
  /\ cash = [settled |-> settled, unsettled |-> unsettled, held |-> 0, selling |-> 0,
             heldElsewhere |-> 0, sellingElsewhere |-> 0]
  /\ first = [account |-> Unknown, positions |-> Unknown, orders |-> Unknown,
              unsettledAtStart |-> unsettled]
  /\ lots = [short |-> 0, selling |-> 0, closing |-> 0, book |-> 0]
  /\ latest = [kind \in Reads |-> Unknown]
  /\ current = {} /\ old = {} /\ unlisted = FALSE /\ arrived = 0 /\ moves = 0

SizeInit ==
  \E r \in RuleBooks, settled \in StartCash, unsettled \in 0..1 : SizeBegins(r, settled, unsettled)

SizeNext ==
  \/ \E own \in BOOLEAN : Sells(own) \/ Cancels(own)
  \/ Fills \/ BuysBack \/ Settles \/ CallsMove
  \/ \E kind \in Reads : Read(kind) \/ Ages(kind)

SizeSpec == SizeInit /\ [][SizeNext]_sizeVars

-----------------------------------------------------------------------------
(* Properties.                                                             *)

SizeTypeOK ==
  /\ RulesTyped(rules)
  /\ cash \in [settled : Int, unsettled : Nat, held : Nat, selling : Nat,
               heldElsewhere : Nat, sellingElsewhere : Nat]
  /\ lots \in [short : Nat, selling : Nat, closing : Nat, book : Nat]
  /\ latest["account"] \in {Unknown} \cup
       [net : Int, gross : Int, settled : Int, arrived : Nat]
  /\ latest["positions"] \in {Unknown} \cup [held : Nat, heldElsewhere : Nat, short : Nat]
  /\ latest["orders"] \in {Unknown} \cup
       [selling : Nat, sellingElsewhere : Nat, lots : Nat, closing : Nat]
  /\ current \subseteq Reads /\ old \subseteq Reads
  /\ unlisted \in BOOLEAN /\ arrived \in Nat /\ moves \in Nat

\* What the broker held against puts when the latest snapshot was taken.
HeldBySnapshot == latest["account"].settled - latest["account"].net

\* The reserved cash that code derives is never less than what the broker held when the
\* snapshot was taken, however the account moved between the three reads and the baseline's:
\* but for cash that settled or arrived meanwhile.
ReservationCovers ==
  Reserved # Unknown => Reserved + latest["account"].arrived >= HeldBySnapshot

\* So, while no cash settled, an opening within the computed capacity leaves the reserve and
\* keeps all short puts within the ratio of the snapshot's cash, however old the other reads.
CashCapsKept ==
  (CspCapacity # Unknown /\ latest["account"].arrived = 0) =>
    \A n \in 1..CspCapacity :
      /\ rules.reserve # NoLimit => latest["account"].net - n * Lot >= rules.reserve
      /\ latest["account"].net >= n * Lot
      /\ rules.totalRatio # NoLimit =>
           Tenths * (HeldBySnapshot + n * Lot) <= rules.totalRatio * latest["account"].settled

\* Every rule of the caps, for n contracts more on the account as it is.
Within(cap, amount) == cap \in {NoLimit, Unset} \/ amount <= cap
CapsAllow(n) ==
  /\ Within(rules.orderCap, n)
  /\ Within(rules.underlyingUsd, cash.held + cash.selling + n * Lot)
  /\ rules.underlyingRatio \in {NoLimit, Unset} \/
       Tenths * (cash.held + cash.selling + n * Lot) <= rules.underlyingRatio * AccountValue
  /\ Net(cash) - n * Lot >= (IF rules.reserve \in {NoLimit, Unset} THEN 0 ELSE rules.reserve)
  /\ rules.totalRatio \in {NoLimit, Unset} \/
       Tenths * (Hold(cash) + n * Lot) <= rules.totalRatio * cash.settled

\* On evidence the account has not moved on from, the capacity is exactly the largest number
\* of contracts that keeps every cap; calls cover no more than the owned shares allow; and a
\* close, which the position book must confirm, takes only what is held and not being closed,
\* even when the positions were read before the last fill.
SizingTight ==
  /\ (current = Reads /\ CspCapacity # Unknown /\ arrived = 0) =>
       /\ CspCapacity > 0 => CapsAllow(CspCapacity)
       /\ ~CapsAllow(CspCapacity + 1)
  /\ ({"positions", "orders"} \subseteq current /\ CcCapacity # Unknown /\ CcCapacity > 0) =>
       lots.short + lots.selling + CcCapacity <= Owned
  /\ \A quantity \in 1..Owned :
       LET remaining == Remaining(CloseTarget(quantity), CloseCapacity) IN
       ("orders" \in current /\ lots.book = lots.short /\ remaining # Unknown) =>
         remaining + lots.closing <= lots.short

\* The audit finds no violation of a cap in an order the facts allowed on the same evidence;
\* and where it passes the caps of the underlying, on reads taken since the account last
\* moved, they hold.
AuditAgrees ==
  \A n \in 1..MaxContracts :
    /\ (CspCapacity # Unknown /\ n <= CspCapacity) =>
         "violation" \notin {PerOrder(n), PerUnderlying(n), TotalRatio(n)}
    /\ (PerUnderlying(n) = "pass" /\ {"positions", "orders"} \subseteq current) =>
         Within(rules.underlyingUsd, cash.held + cash.selling + n * Lot)

\* The reads behind a capacity may be of different moments: neither the cash caps computed
\* before an order nor what the audit judges after it may rely on a moment that never was.
SizesHold == ReservationCovers /\ CashCapsKept /\ SizingTight /\ AuditAgrees
=============================================================================
