---------------------------- MODULE EvidenceProofs ---------------------------
(***************************************************************************)
(* Proofs about what is concluded from the evidence of a run, for every    *)
(* account, market, rule set and set of jobs: the sizes of the decision    *)
(* facts and the audit of the caps (Sizing); which of the run's results    *)
(* the facts rest on (FactsTool); what the gate lets through as jobs walk, *)
(* orders fill and snapshots age (OrderGate); and an opening leg on the    *)
(* quotes of a market that moves (LegCheck).                               *)
(***************************************************************************)
EXTENDS MCEvidence, BooksProofs, SumLemmas, TLAPS

-----------------------------------------------------------------------------
(* Sizes.  The run's reads are of different moments.  What ties them is    *)
(* that cash, but for what arrives, only goes down; that every proceeds    *)
(* not yet settled at the start is still unsettled or has arrived; and     *)
(* that the account never holds more than is settled.                      *)

CashRecord == [settled : Int, unsettled : Nat, held : Nat, selling : Nat,
               heldElsewhere : Nat, sellingElsewhere : Nat]
LotsRecord == [short : Nat, selling : Nat, closing : Nat, book : Nat]
AccountRead == [net : Int, gross : Int, settled : Int, arrived : Nat]
PositionsRead == [held : Nat, heldElsewhere : Nat, short : Nat]
OrdersRead == [selling : Nat, sellingElsewhere : Nat, lots : Nat, closing : Nat]

SizeTyped ==
  /\ RulesTyped(rules) /\ cash \in CashRecord /\ lots \in LotsRecord
  /\ latest \in [Reads -> {Unknown} \cup AccountRead \cup PositionsRead \cup OrdersRead]
  /\ latest["account"] \in {Unknown} \cup AccountRead
  /\ latest["positions"] \in {Unknown} \cup PositionsRead
  /\ latest["orders"] \in {Unknown} \cup OrdersRead
  /\ first \in [account : {Unknown} \cup AccountRead, positions : {Unknown} \cup PositionsRead,
                orders : {Unknown} \cup OrdersRead, unsettledAtStart : Nat]
  /\ current \subseteq Reads /\ old \subseteq Reads
  /\ unlisted \in BOOLEAN /\ arrived \in Nat /\ moves \in Nat

\* The account now: its buying power is not negative, and calls are bought back of those held.
Solvent == Net(cash) >= 0 /\ lots.closing <= lots.short

\* The proceeds that were not settled at the start.
Pending == cash.unsettled + arrived >= first.unsettledAtStart

\* A snapshot is of one moment, and a later one has no more cash but for what arrived.
Snapshots ==
  /\ first["account"] # Unknown =>
       /\ first["account"].gross - first["account"].settled + first["account"].arrived
            >= first.unsettledAtStart
       /\ cash.settled - arrived <= first["account"].settled - first["account"].arrived
  /\ latest["account"] # Unknown =>
       /\ first["account"] # Unknown
       /\ latest["account"].gross >= latest["account"].settled
       /\ latest["account"].settled - latest["account"].arrived
            <= first["account"].settled - first["account"].arrived

\* A current read is what it would be now.
AsNow == \A kind \in current : latest[kind] = Observed(kind)

SizeInv == SizeTyped /\ Solvent /\ Pending /\ Snapshots /\ AsNow

LEMMA SizeBounds ==
  /\ Lot \in Nat /\ Lot > 0 /\ AccountValue \in Nat /\ Owned \in Nat /\ Unknown \notin Int
  /\ NoLimit \notin Int /\ Unset \notin Int /\ NoLimit # Unset /\ Unknown # NoLimit
  /\ Unknown # Unset
BY SizingAssumption, SettingsAssumption DEF SizingAssumption, SettingsAssumption

LEMMA SizeStarts ==
  ASSUME NEW r \in RuleBooks, NEW settled \in StartCash, NEW unsettled \in 0..1,
         SizeBegins(r, settled, unsettled)
  PROVE  SizeInv
<1>1. settled \in Nat /\ unsettled \in Nat /\ RulesTyped(r)
  BY SizingAssumption DEF SizingAssumption
<1>2. SizeTyped
  <2>1. RulesTyped(rules) /\ cash \in CashRecord /\ lots \in LotsRecord
    BY <1>1 DEF SizeBegins, CashRecord, LotsRecord
  <2>2. /\ first \in [account : {Unknown} \cup AccountRead, positions : {Unknown} \cup PositionsRead,
                      orders : {Unknown} \cup OrdersRead, unsettledAtStart : Nat]
    BY <1>1 DEF SizeBegins
  <2> QED
    BY <2>1, <2>2 DEF SizeBegins, SizeTyped, Reads
<1>3. Solvent /\ Pending /\ Snapshots /\ AsNow
  BY <1>1 DEF SizeBegins, Solvent, Pending, Snapshots, AsNow, Net, Hold, Reads
<1> QED
  BY <1>2, <1>3 DEF SizeInv

\* What a step of the account must keep; the reads are no longer current.
LEMMA AccountKeeps ==
  ASSUME SizeInv, Moves, cash' \in CashRecord, lots' \in LotsRecord, unlisted' \in BOOLEAN,
         arrived' \in Nat, Solvent', cash'.unsettled + arrived' >= cash.unsettled + arrived,
         cash'.settled - arrived' <= cash.settled - arrived
  PROVE  SizeInv'
<1>1. UNCHANGED <<rules, latest, first, old>> /\ current' = {} /\ moves' = moves + 1
  BY DEF Moves, reads
<1>2. SizeTyped'
  BY <1>1 DEF SizeInv, SizeTyped
<1>3. first.unsettledAtStart \in Nat /\ cash \in CashRecord /\ arrived \in Nat
  BY DEF SizeInv, SizeTyped
<1>4. Pending'
  BY <1>1, <1>3 DEF SizeInv, Pending, CashRecord
<1>5. Snapshots'
  <2>1. first["account"] # Unknown => first["account"] \in AccountRead
    BY DEF SizeInv, SizeTyped
  <2> QED
    BY <1>1, <1>3, <2>1 DEF SizeInv, Snapshots, CashRecord, AccountRead
<1>6. AsNow'
  BY <1>1 DEF AsNow
<1> QED
  BY <1>2, <1>4, <1>5, <1>6 DEF SizeInv

LEMMA MovesKeep ==
  ASSUME SizeInv,
         \/ \E own \in BOOLEAN : Sells(own) \/ Cancels(own)
         \/ Fills \/ BuysBack \/ Settles \/ CallsMove
  PROVE  SizeInv'
<1>1. /\ cash \in CashRecord /\ lots \in LotsRecord /\ unlisted \in BOOLEAN /\ arrived \in Nat
      /\ Net(cash) >= 0 /\ lots.closing <= lots.short
  BY DEF SizeInv, SizeTyped, Solvent
<1>2. ASSUME NEW own \in BOOLEAN, Sells(own) PROVE SizeInv'
  <2>1. /\ cash' \in CashRecord /\ Net(cash') >= 0
        /\ cash'.unsettled = cash.unsettled /\ cash'.settled = cash.settled
    BY <1>1, <1>2, SizeBounds DEF Sells, CashRecord, Net, Hold
  <2>2. Moves /\ UNCHANGED <<lots, arrived>> /\ unlisted' \in BOOLEAN
    BY <1>1, <1>2 DEF Sells
  <2> QED
    BY <1>1, <2>1, <2>2, AccountKeeps DEF Solvent, CashRecord
<1>3. ASSUME NEW own \in BOOLEAN, Cancels(own) PROVE SizeInv'
  <2>1. /\ cash' \in CashRecord /\ Net(cash') >= 0
        /\ cash'.unsettled = cash.unsettled /\ cash'.settled = cash.settled
    BY <1>1, <1>3, SizeBounds DEF Cancels, CashRecord, Net, Hold
  <2>2. Moves /\ UNCHANGED <<lots, arrived>> /\ unlisted' \in BOOLEAN
    BY <1>1, <1>3 DEF Cancels
  <2> QED
    BY <1>1, <2>1, <2>2, AccountKeeps DEF Solvent, CashRecord
<1>4. CASE Fills
  <2>1. /\ cash' \in CashRecord /\ Net(cash') >= 0
        /\ cash'.unsettled = cash.unsettled + 1 /\ cash'.settled = cash.settled
    <3>1. CASE cash.selling >= Lot /\ cash' = [cash EXCEPT !.selling = @ - Lot, !.held = @ + Lot, !.unsettled = @ + 1]
      <4>1. /\ cash'.settled = cash.settled /\ cash'.unsettled = cash.unsettled + 1 /\ cash'.held = cash.held + Lot
            /\ cash'.selling = cash.selling - Lot /\ cash'.heldElsewhere = cash.heldElsewhere /\ cash'.sellingElsewhere = cash.sellingElsewhere
        BY <1>1, <3>1 DEF CashRecord
      <4>0. cash.selling - Lot \in Nat /\ cash.held + Lot \in Nat /\ cash.unsettled + 1 \in Nat
        BY <1>1, <3>1, SizeBounds DEF CashRecord
      <4>2. cash' \in CashRecord
        BY <1>1, <3>1, <4>0 DEF CashRecord
      <4> QED
        BY <1>1, <3>1, <4>1, <4>2, SizeBounds DEF CashRecord, Net, Hold
    <3>2. CASE cash.sellingElsewhere >= Lot /\ cash' = [cash EXCEPT !.sellingElsewhere = @ - Lot, !.heldElsewhere = @ + Lot, !.unsettled = @ + 1]
      <4>1. /\ cash'.settled = cash.settled /\ cash'.unsettled = cash.unsettled + 1 /\ cash'.held = cash.held
            /\ cash'.selling = cash.selling /\ cash'.heldElsewhere = cash.heldElsewhere + Lot /\ cash'.sellingElsewhere = cash.sellingElsewhere - Lot
        BY <1>1, <3>2 DEF CashRecord
      <4>0. cash.sellingElsewhere - Lot \in Nat /\ cash.heldElsewhere + Lot \in Nat /\ cash.unsettled + 1 \in Nat
        BY <1>1, <3>2, SizeBounds DEF CashRecord
      <4>2. cash' \in CashRecord
        BY <1>1, <3>2, <4>0 DEF CashRecord
      <4> QED
        BY <1>1, <3>2, <4>1, <4>2, SizeBounds DEF CashRecord, Net, Hold
    <3> QED
      BY <1>4, <3>1, <3>2 DEF Fills
  <2>2. Moves /\ UNCHANGED <<lots, arrived, unlisted>>
    BY <1>4 DEF Fills
  <2> QED
    BY <1>1, <2>1, <2>2, AccountKeeps DEF Solvent, CashRecord
<1>5. CASE BuysBack
  <2>1. /\ cash' \in CashRecord /\ Net(cash') >= 0
        /\ cash'.unsettled = cash.unsettled /\ cash'.settled = cash.settled - 1
    <3>1. CASE cash.held >= Lot /\ Net(cash) + Lot >= 1 /\ cash' = [cash EXCEPT !.held = @ - Lot, !.settled = @ - 1]
      <4>1. /\ cash'.settled = cash.settled - 1 /\ cash'.unsettled = cash.unsettled /\ cash'.held = cash.held - Lot
            /\ cash'.selling = cash.selling /\ cash'.heldElsewhere = cash.heldElsewhere /\ cash'.sellingElsewhere = cash.sellingElsewhere
        BY <1>1, <3>1 DEF CashRecord
      <4>0. cash.held - Lot \in Nat /\ cash.settled - 1 \in Int
        BY <1>1, <3>1, SizeBounds DEF CashRecord
      <4>2. cash' \in CashRecord
        BY <1>1, <3>1, <4>0 DEF CashRecord
      <4> QED
        BY <1>1, <3>1, <4>1, <4>2, SizeBounds DEF CashRecord, Net, Hold
    <3> QED
      BY <1>5, <3>1 DEF BuysBack
  <2>2. Moves /\ UNCHANGED <<lots, arrived, unlisted>>
    BY <1>5 DEF BuysBack
  <2> QED
    BY <1>1, <2>1, <2>2, AccountKeeps DEF Solvent, CashRecord
<1>6. CASE Settles
  <2>1. /\ cash' \in CashRecord /\ Net(cash') >= 0
        /\ cash'.unsettled + 1 >= cash.unsettled /\ cash'.settled = cash.settled + 1
    <3>1. CASE cash.unsettled > 0 /\ cash' = [cash EXCEPT !.settled = @ + 1, !.unsettled = @ - 1]
      <4>1. /\ cash'.settled = cash.settled + 1 /\ cash'.unsettled = cash.unsettled - 1 /\ cash'.held = cash.held
            /\ cash'.selling = cash.selling /\ cash'.heldElsewhere = cash.heldElsewhere /\ cash'.sellingElsewhere = cash.sellingElsewhere
        BY <1>1, <3>1 DEF CashRecord
      <4>0. cash.unsettled - 1 \in Nat /\ cash.settled + 1 \in Int
        BY <1>1, <3>1, SizeBounds DEF CashRecord
      <4>2. cash' \in CashRecord
        BY <1>1, <3>1, <4>0 DEF CashRecord
      <4> QED
        BY <1>1, <3>1, <4>1, <4>2, SizeBounds DEF CashRecord, Net, Hold
    <3>2. CASE cash' = [cash EXCEPT !.settled = @ + 1]
      <4>1. /\ cash'.settled = cash.settled + 1 /\ cash'.unsettled = cash.unsettled /\ cash'.held = cash.held
            /\ cash'.selling = cash.selling /\ cash'.heldElsewhere = cash.heldElsewhere /\ cash'.sellingElsewhere = cash.sellingElsewhere
        BY <1>1, <3>2 DEF CashRecord
      <4>2. cash' \in CashRecord
        BY <1>1, <3>2, SizeBounds DEF CashRecord
      <4> QED
        BY <1>1, <3>2, <4>1, <4>2, SizeBounds DEF CashRecord, Net, Hold
    <3> QED
      BY <1>6, <3>1, <3>2 DEF Settles
  <2>2. Moves /\ UNCHANGED <<lots, unlisted>> /\ arrived' = arrived + 1
    BY <1>6 DEF Settles
  <2> QED
    BY <1>1, <2>1, <2>2, AccountKeeps DEF Solvent, CashRecord
<1>7. CASE CallsMove
  <2>1. lots' \in LotsRecord /\ lots'.closing <= lots'.short
    <3>1. CASE lots' = [lots EXCEPT !.selling = @ + 1]
      BY <1>1, <3>1 DEF LotsRecord
    <3>2. CASE lots.selling > 0 /\ lots' = [lots EXCEPT !.selling = @ - 1, !.short = @ + 1]
      <4>1. lots.selling - 1 \in Nat /\ lots.short + 1 \in Nat
        BY <1>1, <3>2 DEF LotsRecord
      <4>2. lots' \in LotsRecord
        BY <1>1, <3>2, <4>1 DEF LotsRecord
      <4>3. lots'.closing = lots.closing /\ lots'.short = lots.short + 1
        BY <1>1, <3>2 DEF LotsRecord
      <4> QED
        BY <1>1, <4>1, <4>2, <4>3 DEF LotsRecord
    <3>3. CASE lots.closing < lots.short /\ lots' = [lots EXCEPT !.closing = @ + 1]
      BY <1>1, <3>3 DEF LotsRecord
    <3>4. CASE lots.closing > 0 /\ lots' = [lots EXCEPT !.closing = @ - 1, !.short = @ - 1]
      <4>1. lots.closing - 1 \in Nat /\ lots.short - 1 \in Nat
        BY <1>1, <3>4 DEF LotsRecord
      <4>2. lots' \in LotsRecord
        BY <1>1, <3>4, <4>1 DEF LotsRecord
      <4>3. lots'.closing = lots.closing - 1 /\ lots'.short = lots.short - 1
        BY <1>1, <3>4 DEF LotsRecord
      <4> QED
        BY <1>1, <4>1, <4>2, <4>3 DEF LotsRecord
    <3>5. CASE lots' = [lots EXCEPT !.book = lots.short]
      BY <1>1, <3>5 DEF LotsRecord
    <3> QED
      BY <1>7, <3>1, <3>2, <3>3, <3>4, <3>5 DEF CallsMove
  <2>2. Moves /\ UNCHANGED <<cash, arrived, unlisted>>
    BY <1>7 DEF CallsMove
  <2> QED
    BY <1>1, <2>1, <2>2, AccountKeeps DEF Solvent, CashRecord
<1> QED
  BY <1>2, <1>3, <1>4, <1>5, <1>6, <1>7

\* What a read shows.
LEMMA ObservedNow ==
  ASSUME SizeTyped
  PROVE  /\ Observed("account") = Snapshot /\ Snapshot \in AccountRead
         /\ Snapshot.settled = cash.settled /\ Snapshot.net = Net(cash)
         /\ Snapshot.arrived = arrived /\ Snapshot.gross = cash.settled + cash.unsettled
         /\ Observed("positions") = Positions /\ Positions \in PositionsRead
         /\ Observed("orders") = OpenOrders /\ OpenOrders \in OrdersRead
<1>1. cash \in CashRecord /\ lots \in LotsRecord /\ arrived \in Nat
  BY DEF SizeTyped
<1>2. Observed("account") = Snapshot /\ Observed("positions") = Positions
      /\ Observed("orders") = OpenOrders
  BY DEF Observed
<1>3. Snapshot \in AccountRead /\ Snapshot.settled = cash.settled /\ Snapshot.net = Net(cash)
      /\ Snapshot.arrived = arrived /\ Snapshot.gross = cash.settled + cash.unsettled
  BY <1>1 DEF Snapshot, AccountRead, CashRecord, Net, Hold, Gross
<1>4. Positions \in PositionsRead /\ OpenOrders \in OrdersRead
  BY <1>1 DEF Positions, OpenOrders, PositionsRead, OrdersRead, CashRecord, LotsRecord
<1> QED
  BY <1>2, <1>3, <1>4

LEMMA ReadKeeps ==
  ASSUME SizeInv, NEW kind \in Reads, Read(kind)
  PROVE  SizeInv'
<1>1. /\ SizeTyped /\ Solvent /\ Pending /\ Snapshots /\ AsNow
      /\ latest' = [latest EXCEPT ![kind] = Observed(kind)]
      /\ first' = IF first[kind] = Unknown THEN [first EXCEPT ![kind] = Observed(kind)] ELSE first
      /\ current' = current \cup {kind} /\ old' = old \ {kind} /\ unlisted' \in BOOLEAN
      /\ UNCHANGED <<rules, cash, lots, arrived, moves>>
  BY DEF SizeInv, SizeTyped, Read
<1>2. \A k \in Reads : Observed(k)' = Observed(k)
  BY <1>1 DEF Observed, Snapshot, Positions, OpenOrders, Net, Hold, Gross
<1>3. /\ latest' \in [Reads -> {Unknown} \cup AccountRead \cup PositionsRead \cup OrdersRead]
      /\ latest'["account"] \in {Unknown} \cup AccountRead
      /\ latest'["positions"] \in {Unknown} \cup PositionsRead
      /\ latest'["orders"] \in {Unknown} \cup OrdersRead
  BY <1>1, ObservedNow DEF SizeTyped, Reads
<1>4. first' \in [account : {Unknown} \cup AccountRead, positions : {Unknown} \cup PositionsRead,
                  orders : {Unknown} \cup OrdersRead, unsettledAtStart : Nat]
      /\ first'.unsettledAtStart = first.unsettledAtStart
  <2>1. CASE kind = "account"
    BY <1>1, <2>1, ObservedNow DEF SizeTyped
  <2>2. CASE kind = "positions"
    BY <1>1, <2>2, ObservedNow DEF SizeTyped
  <2>3. CASE kind = "orders"
    BY <1>1, <2>3, ObservedNow DEF SizeTyped
  <2> QED
    BY <2>1, <2>2, <2>3 DEF Reads
<1>5. SizeTyped'
  BY <1>1, <1>3, <1>4 DEF SizeTyped
<1>6. Solvent' /\ Pending'
  BY <1>1, <1>4 DEF Solvent, Pending, Net, Hold
<1>7. Snapshots'
  <2>0. cash \in CashRecord /\ arrived \in Nat /\ first.unsettledAtStart \in Nat
    BY <1>1 DEF SizeTyped
  <2>1. CASE kind = "account"
    <3>1. latest'["account"] = Snapshot
      BY <1>1, <2>1, ObservedNow DEF SizeTyped
    <3>2. first'["account"] = IF first["account"] = Unknown THEN Snapshot ELSE first["account"]
      BY <1>1, <2>1, ObservedNow DEF SizeTyped
    <3> QED
      BY <1>1, <1>4, <2>0, <3>1, <3>2, ObservedNow DEF Snapshots, Pending, CashRecord,
         AccountRead, SizeTyped
  <2>2. CASE kind # "account"
    <3>1. latest'["account"] = latest["account"] /\ first'["account"] = first["account"]
      BY <1>1, <2>2 DEF SizeTyped, Reads
    <3> QED
      BY <1>1, <1>4, <3>1 DEF Snapshots
  <2> QED
    BY <2>1, <2>2
<1>8. AsNow'
  BY <1>1, <1>2 DEF AsNow, SizeTyped
<1> QED
  BY <1>5, <1>6, <1>7, <1>8 DEF SizeInv

LEMMA SizeKeeps ==
  ASSUME SizeInv, [SizeNext]_sizeVars
  PROVE  SizeInv'
<1>1. CASE UNCHANGED sizeVars
  BY <1>1 DEF sizeVars, SizeInv, SizeTyped, Solvent, Pending, Snapshots, AsNow, Observed, Snapshot,
     Positions, OpenOrders, Net, Hold, Gross
<1>2. ASSUME NEW kind \in Reads, Ages(kind) PROVE SizeInv'
  <2>1. UNCHANGED <<rules, cash, lots, latest, first, current, unlisted, arrived, moves>>
        /\ old' = old \cup {kind}
    BY <1>2 DEF Ages
  <2>2. SizeTyped' /\ Solvent' /\ Pending' /\ Snapshots'
    BY <1>2, <2>1 DEF SizeInv, SizeTyped, Solvent, Pending, Snapshots, Net, Hold
  <2>3. AsNow'
    BY <2>1 DEF SizeInv, AsNow, Observed, Snapshot, Positions, OpenOrders, Net, Hold, Gross
  <2> QED
    BY <2>2, <2>3 DEF SizeInv
<1> QED
  BY <1>1, <1>2, MovesKeep, ReadKeeps DEF SizeNext

-----------------------------------------------------------------------------
(* What the operators of the sizes compute.                                *)

\* Whole contracts that fit an amount: one more does not.
LEMMA ContractsFit ==
  ASSUME NEW amount \in Int, NEW p \in Nat, p > 0
  PROVE  /\ Contracts(amount, p) \in Nat
         /\ (Contracts(amount, p) + 1) * p > amount
         /\ \A n \in Nat : (n >= 1 /\ n <= Contracts(amount, p)) => n * p <= amount
<1>1. CASE amount <= 0
  BY <1>1 DEF Contracts
<1>2. CASE amount > 0
  <2>1. Contracts(amount, p) = amount \div p /\ amount \div p \in Nat /\ (amount \div p) * p <= amount
        /\ amount < (amount \div p + 1) * p
    BY <1>2 DEF Contracts
  <2>2. ASSUME NEW n \in Nat, n <= amount \div p PROVE n * p <= amount
    BY <2>1, <2>2
  <2> QED
    BY <2>1, <2>2
<1> QED
  BY <1>1, <1>2

\* The smaller of two caps is one of them and above neither, and unavailable if one is.
Cap == Nat \cup {NoLimit, Unknown}
LEMMA LesserIs ==
  ASSUME NEW one \in Cap, NEW other \in Cap
  PROVE  /\ Lesser(one, other) \in Cap
         /\ Lesser(one, other) # Unknown =>
              /\ one # Unknown /\ other # Unknown /\ Lesser(one, other) \in {one, other}
              /\ one # NoLimit => Lesser(one, other) \in Nat /\ Lesser(one, other) <= one
              /\ other # NoLimit => Lesser(one, other) \in Nat /\ Lesser(one, other) <= other
BY SizeBounds DEF Lesser, Cap

\* A read that may be used has the fields of its kind.
LEMMA UsableReads ==
  ASSUME SizeTyped
  PROVE  /\ Usable("account") => latest["account"] \in AccountRead
         /\ Usable("positions") => latest["positions"] \in PositionsRead
         /\ Usable("orders") => latest["orders"] \in OrdersRead
BY DEF SizeTyped, Usable

LEMMA ReservedIs ==
  ASSUME SizeTyped, Reserved # Unknown
  PROVE  /\ \A kind \in Reads : Usable(kind)
         /\ Reserved = Cover(latest["positions"], latest["orders"]) /\ Reserved \in Nat
         /\ \/ latest["account"].gross - Reserved = latest["account"].net
            \/ BaselineBalances /\ latest["account"].net = BaselineSettled - Reserved
<1>1. \A kind \in Reads : Usable(kind)
  BY DEF Reserved
<1>2. latest["positions"] \in PositionsRead /\ latest["orders"] \in OrdersRead
  BY <1>1, UsableReads DEF Reads
<1>3. Cover(latest["positions"], latest["orders"]) \in Nat
  BY <1>2 DEF Cover, PositionsRead, OrdersRead
<1>4. Reserved = Cover(latest["positions"], latest["orders"])
  BY <1>1 DEF Reserved
<1>5. \/ latest["account"].gross - Reserved = latest["account"].net
      \/ BaselineBalances /\ latest["account"].net = BaselineSettled - Reserved
  BY <1>1, <1>4 DEF Reserved
<1> QED
  BY <1>1, <1>3, <1>4, <1>5

LEMMA ExistingIs ==
  ASSUME SizeTyped
  PROVE  /\ Existing \in Nat \cup {Unknown}
         /\ Existing # Unknown =>
              /\ Usable("positions") /\ Usable("orders")
              /\ Existing = latest["positions"].held + latest["orders"].selling
<1>1. CASE Usable("positions") /\ Usable("orders")
  BY <1>1, UsableReads DEF Existing, PositionsRead, OrdersRead
<1>2. CASE ~(Usable("positions") /\ Usable("orders"))
  BY <1>2 DEF Existing
<1> QED
  BY <1>1, <1>2

\* The rules of the caps, as numbers.
LEMMA RulesAre ==
  ASSUME SizeTyped
  PROVE  /\ rules.orderCap \in Nat \cup {NoLimit, Unset}
         /\ rules.underlyingUsd \in Nat \cup {NoLimit, Unset}
         /\ rules.underlyingRatio \in Nat \cup {NoLimit, Unset}
         /\ rules.reserve \in Nat \cup {NoLimit, Unset}
         /\ rules.totalRatio \in 0..Tenths \cup {NoLimit, Unset}
         /\ rules.coverage \in 0..Tenths \cup {NoLimit, Unset}
BY DEF SizeTyped, RulesTyped

\* Each cap, where it is known: of which rule, and of which amount.
LEMMA OrderCapIs ==
  ASSUME SizeTyped
  PROVE  /\ OrderCap \in Cap
         /\ OrderCap # Unknown => rules.orderCap # Unset /\ OrderCap = rules.orderCap
BY RulesAre, SizeBounds DEF OrderCap, Rule, Cap

LEMMA UsdCapIs ==
  ASSUME SizeTyped
  PROVE  /\ UnderlyingUsdCap \in Cap
         /\ UnderlyingUsdCap # Unknown => rules.underlyingUsd # Unset
         /\ rules.underlyingUsd = NoLimit => UnderlyingUsdCap = NoLimit
         /\ (UnderlyingUsdCap # Unknown /\ rules.underlyingUsd # NoLimit) =>
              /\ Existing # Unknown /\ UnderlyingUsdCap \in Nat
              /\ UnderlyingUsdCap = Contracts(rules.underlyingUsd - Existing, Lot)
<1>1. CASE rules.underlyingUsd = NoLimit
  BY <1>1, SizeBounds DEF UnderlyingUsdCap, Rule, Cap
<1>2. CASE rules.underlyingUsd = Unset \/ (rules.underlyingUsd # NoLimit /\ Existing = Unknown)
  BY <1>2, SizeBounds DEF UnderlyingUsdCap, Rule, Cap
<1>3. CASE rules.underlyingUsd \in Nat /\ Existing # Unknown
  <2>0. rules.underlyingUsd - Existing \in Int
    BY <1>3, ExistingIs
  <2>1. Contracts(rules.underlyingUsd - Existing, Lot) \in Nat
    BY <2>0, ContractsFit, SizeBounds
  <2>2. UnderlyingUsdCap = Contracts(rules.underlyingUsd - Existing, Lot)
    BY <1>3, SizeBounds DEF UnderlyingUsdCap, Rule
  <2> QED
    BY <1>3, <2>1, <2>2, SizeBounds DEF Cap
<1> QED
  BY <1>1, <1>2, <1>3, RulesAre

LEMMA RatioCapIs ==
  ASSUME SizeTyped
  PROVE  /\ UnderlyingRatioCap \in Cap
         /\ UnderlyingRatioCap # Unknown => rules.underlyingRatio # Unset
         /\ rules.underlyingRatio = NoLimit => UnderlyingRatioCap = NoLimit
         /\ (UnderlyingRatioCap # Unknown /\ rules.underlyingRatio # NoLimit) =>
              /\ Existing # Unknown /\ UnderlyingRatioCap \in Nat
              /\ UnderlyingRatioCap =
                   Contracts(rules.underlyingRatio * AccountValue - Tenths * Existing, Tenths * Lot)
<1>1. CASE rules.underlyingRatio = NoLimit
  BY <1>1, SizeBounds DEF UnderlyingRatioCap, Rule, Cap
<1>2. CASE \/ rules.underlyingRatio = Unset
           \/ rules.underlyingRatio # NoLimit /\ (Existing = Unknown \/ ~Usable("account"))
  BY <1>2, SizeBounds DEF UnderlyingRatioCap, Rule, Cap
<1>3. CASE rules.underlyingRatio \in Nat /\ Existing # Unknown /\ Usable("account")
  <2> DEFINE amount == rules.underlyingRatio * AccountValue - Tenths * Existing
  <2>1. amount \in Int /\ Tenths * Lot \in Nat /\ Tenths * Lot > 0
    BY <1>3, ExistingIs, SizeBounds DEF Tenths
  <2>2. Contracts(amount, Tenths * Lot) \in Nat
    BY <2>1, ContractsFit
  <2>3. UnderlyingRatioCap = Contracts(amount, Tenths * Lot)
    BY <1>3, SizeBounds DEF UnderlyingRatioCap, Rule
  <2> QED
    BY <1>3, <2>2, <2>3, SizeBounds DEF Cap
<1> QED
  BY <1>1, <1>2, <1>3, RulesAre

\* What the cash must leave.
Reserve == IF rules.reserve = NoLimit THEN 0 ELSE rules.reserve
LEMMA CashCapIs ==
  ASSUME SizeTyped
  PROVE  /\ CashCap \in Cap
         /\ CashCap # Unknown =>
              /\ rules.reserve # Unset /\ Usable("account") /\ CashCap \in Nat /\ Reserve \in Nat
              /\ CashCap = Contracts(latest["account"].net - Reserve, Lot)
<1>1. CASE rules.reserve = Unset \/ ~Usable("account")
  BY <1>1 DEF CashCap, Cap
<1>2. CASE rules.reserve # Unset /\ Usable("account")
  <2>1. Reserve \in Nat /\ latest["account"].net \in Int
    BY <1>2, RulesAre, UsableReads DEF Reserve, AccountRead
  <2>0. latest["account"].net - Reserve \in Int
    BY <2>1
  <2>2. Contracts(latest["account"].net - Reserve, Lot) \in Nat
    BY <2>0, ContractsFit, SizeBounds
  <2>3. CashCap = Contracts(latest["account"].net - Reserve, Lot)
    BY <1>2 DEF CashCap, Reserve
  <2> QED
    BY <1>2, <2>1, <2>2, <2>3, SizeBounds DEF Cap
<1> QED
  BY <1>1, <1>2

LEMMA TotalCapIs ==
  ASSUME SizeTyped
  PROVE  /\ TotalCap \in Cap
         /\ TotalCap # Unknown => rules.totalRatio # Unset
         /\ rules.totalRatio = NoLimit => TotalCap = NoLimit
         /\ (TotalCap # Unknown /\ rules.totalRatio # NoLimit) =>
              /\ rules.totalRatio \in 0..Tenths /\ Reserved # Unknown /\ TotalCap \in Nat
              /\ TotalCap = Contracts(rules.totalRatio * (latest["account"].net + Reserved)
                                        - Tenths * Reserved, Tenths * Lot)
<1>1. CASE rules.totalRatio = NoLimit
  BY <1>1, SizeBounds DEF TotalCap, Rule, Cap
<1>2. CASE \/ rules.totalRatio = Unset
           \/ rules.totalRatio # NoLimit /\ (Reserved = Unknown \/ ~Usable("account"))
  BY <1>2, SizeBounds DEF TotalCap, Rule, Cap
<1>3. CASE rules.totalRatio \in 0..Tenths /\ Reserved # Unknown /\ Usable("account")
  <2> DEFINE amount == rules.totalRatio * (latest["account"].net + Reserved) - Tenths * Reserved
  <2>1. amount \in Int /\ Tenths * Lot \in Nat /\ Tenths * Lot > 0
    BY <1>3, ReservedIs, UsableReads, SizeBounds DEF Tenths, AccountRead
  <2>2. Contracts(amount, Tenths * Lot) \in Nat
    BY <2>1, ContractsFit
  <2>3. TotalCap = Contracts(amount, Tenths * Lot)
    BY <1>3, SizeBounds DEF TotalCap, Rule
  <2> QED
    BY <1>3, <2>2, <2>3, SizeBounds DEF Cap
<1> QED
  BY <1>1, <1>2, <1>3, RulesAre

\* The capacity is one of the caps, and above none.
Caps == {OrderCap, UnderlyingUsdCap, UnderlyingRatioCap, CashCap, TotalCap}
LEMMA CapacityIs ==
  ASSUME SizeTyped, CspCapacity # Unknown
  PROVE  /\ CspCapacity \in Nat /\ CspCapacity \in Caps /\ Unknown \notin Caps
         /\ \A cap \in Caps : cap # NoLimit => CspCapacity <= cap
<1> DEFINE under == Lesser(UnderlyingUsdCap, UnderlyingRatioCap)
           trade == Lesser(OrderCap, under)
           money == Lesser(CashCap, TotalCap)
<1>1. /\ OrderCap \in Cap /\ UnderlyingUsdCap \in Cap /\ UnderlyingRatioCap \in Cap
      /\ CashCap \in Cap /\ TotalCap \in Cap
  BY OrderCapIs, UsdCapIs, RatioCapIs, CashCapIs, TotalCapIs
<1>2. under \in Cap /\ trade \in Cap /\ money \in Cap /\ CspCapacity = Lesser(trade, money)
  BY <1>1, LesserIs DEF CspCapacity
<1>3. trade # Unknown /\ money # Unknown /\ CspCapacity \in {trade, money}
      /\ (trade # NoLimit => CspCapacity \in Nat /\ CspCapacity <= trade)
      /\ (money # NoLimit => CspCapacity \in Nat /\ CspCapacity <= money)
  BY <1>2, LesserIs
<1>4. CashCap # Unknown /\ TotalCap # Unknown /\ money \in {CashCap, TotalCap}
      /\ (CashCap # NoLimit => money \in Nat /\ money <= CashCap)
      /\ (TotalCap # NoLimit => money \in Nat /\ money <= TotalCap)
  BY <1>1, <1>3, LesserIs
<1>5. OrderCap # Unknown /\ under # Unknown /\ trade \in {OrderCap, under}
      /\ (OrderCap # NoLimit => trade \in Nat /\ trade <= OrderCap)
      /\ (under # NoLimit => trade \in Nat /\ trade <= under)
  BY <1>1, <1>2, <1>3, LesserIs
<1>6. UnderlyingUsdCap # Unknown /\ UnderlyingRatioCap # Unknown
      /\ under \in {UnderlyingUsdCap, UnderlyingRatioCap}
      /\ (UnderlyingUsdCap # NoLimit => under \in Nat /\ under <= UnderlyingUsdCap)
      /\ (UnderlyingRatioCap # NoLimit => under \in Nat /\ under <= UnderlyingRatioCap)
  BY <1>1, <1>5, LesserIs
<1>7. CashCap \in Nat
  BY <1>4, CashCapIs
<1> HIDE DEF under, trade, money
<1>8. CspCapacity \in Nat
  BY <1>3, <1>4, <1>7, SizeBounds
<1>9. CspCapacity \in Caps /\ Unknown \notin Caps
  BY <1>3, <1>4, <1>5, <1>6 DEF Caps
<1>10. ASSUME NEW cap \in Caps, cap # NoLimit PROVE CspCapacity <= cap
  <2>1. CASE cap \in {CashCap, TotalCap}
    BY <1>1, <1>3, <1>4, <1>8, <1>10, <2>1, SizeBounds DEF Cap
  <2>2. CASE cap = OrderCap
    BY <1>1, <1>3, <1>5, <1>8, <1>10, <2>2, SizeBounds DEF Cap
  <2>3. CASE cap \in {UnderlyingUsdCap, UnderlyingRatioCap}
    <3>1. under \in Nat /\ under <= cap
      BY <1>6, <1>10, <2>3
    <3>2. trade \in Nat /\ trade <= under
      BY <1>5, <3>1, SizeBounds
    <3>3. CspCapacity <= trade
      BY <1>3, <3>2, SizeBounds
    <3> QED
      BY <1>1, <1>6, <1>8, <1>10, <2>3, <3>1, <3>2, <3>3 DEF Cap
  <2> QED
    BY <1>10, <2>1, <2>2, <2>3 DEF Caps
<1> QED
  BY <1>8, <1>9, <1>10

-----------------------------------------------------------------------------
(* The properties of the sizes.                                            *)

LEMMA ReservationIsCovered ==
  ASSUME SizeInv
  PROVE  ReservationCovers
<1> SUFFICES ASSUME Reserved # Unknown
             PROVE  Reserved + latest["account"].arrived >= HeldBySnapshot
  BY DEF ReservationCovers
<1>1. SizeTyped /\ Snapshots
  BY DEF SizeInv
<1>2. Usable("account") /\ latest["account"] \in AccountRead /\ latest["account"] # Unknown
  BY <1>1, ReservedIs, UsableReads DEF Reads, Usable
<1>3. CASE latest["account"].gross - Reserved = latest["account"].net
  BY <1>1, <1>2, <1>3, ReservedIs DEF Snapshots, HeldBySnapshot, AccountRead
<1>4. CASE BaselineBalances /\ latest["account"].net = BaselineSettled - Reserved
  <2>1. first["account"] # Unknown /\ first["account"] \in AccountRead
        /\ first.unsettledAtStart \in Nat
    BY <1>1, <1>4 DEF BaselineBalances, BaselineComplete, SizeTyped, Reads
  <2>2. latest["account"].net = first["account"].gross - first.unsettledAtStart - Reserved
    BY <1>4 DEF BaselineSettled
  <2>3. first["account"].gross - first.unsettledAtStart
          >= first["account"].settled - first["account"].arrived
    BY <1>1, <2>1 DEF Snapshots, AccountRead
  <2>4. first["account"].settled - first["account"].arrived
          >= latest["account"].settled - latest["account"].arrived
    BY <1>1, <1>2, <2>1 DEF Snapshots, AccountRead
  <2> QED
    BY <1>1, <1>2, <2>1, <2>2, <2>3, <2>4, ReservedIs DEF HeldBySnapshot, AccountRead
<1> QED
  BY <1>1, <1>3, <1>4, ReservedIs

\* A share of at most the whole takes at most the whole of what is reserved too much.
LEMMA ShareOfSurplus ==
  ASSUME NEW share \in 0..Tenths, NEW net \in Int, NEW settled \in Int, NEW reserved \in Nat,
         reserved >= settled - net, NEW amount \in Int,
         Tenths * amount <= share * (net + reserved) - Tenths * reserved
  PROVE  Tenths * (settled - net + amount) <= share * settled
<1>1. PICK surplus \in Nat : reserved = settled - net + surplus
  <2>1. reserved - (settled - net) \in Nat
    OBVIOUS
  <2> QED
    BY <2>1
<1>2. share * (net + reserved) = share * settled + share * surplus
  <2>1. net + reserved = settled + surplus
    BY <1>1
  <2>2. share * (settled + surplus) = share * settled + share * surplus
    BY DEF Tenths
  <2> QED
    BY <2>1, <2>2
<1>3. share * surplus <= 10 * surplus
  BY DEF Tenths
<1>4. share * settled \in Int /\ share * surplus \in Int
  BY DEF Tenths
<1> QED
  BY <1>1, <1>2, <1>3, <1>4 DEF Tenths

LEMMA CapsOfCashAreKept ==
  ASSUME SizeInv
  PROVE  CashCapsKept
<1> SUFFICES ASSUME CspCapacity # Unknown, latest["account"].arrived = 0, NEW n \in 1..CspCapacity
             PROVE  /\ rules.reserve # NoLimit => latest["account"].net - n * Lot >= rules.reserve
                    /\ latest["account"].net >= n * Lot
                    /\ rules.totalRatio # NoLimit =>
                         Tenths * (HeldBySnapshot + n * Lot)
                           <= rules.totalRatio * latest["account"].settled
  BY DEF CashCapsKept
<1>1. SizeTyped
  BY DEF SizeInv
<1>2. CspCapacity \in Nat /\ CashCap # Unknown /\ TotalCap # Unknown
      /\ (CashCap # NoLimit => CspCapacity <= CashCap)
      /\ (TotalCap # NoLimit => CspCapacity <= TotalCap)
  BY <1>1, CapacityIs DEF Caps
<1>3. n \in Nat /\ n >= 1 /\ n <= CspCapacity /\ n * Lot \in Nat
  BY <1>2, SizeBounds
<1>4. /\ CashCap \in Nat /\ Reserve \in Nat /\ latest["account"] \in AccountRead
      /\ CashCap = Contracts(latest["account"].net - Reserve, Lot)
  BY <1>1, <1>2, CashCapIs, UsableReads
<1>5. latest["account"].net \in Int /\ latest["account"].settled \in Int
  BY <1>4 DEF AccountRead
<1>6. n * Lot <= latest["account"].net - Reserve
  <2>1. latest["account"].net - Reserve \in Int
    BY <1>4, <1>5
  <2>2. n <= Contracts(latest["account"].net - Reserve, Lot)
    BY <1>2, <1>3, <1>4, SizeBounds
  <2> QED
    BY <1>3, <2>1, <2>2, ContractsFit, SizeBounds
<1>7. rules.reserve # NoLimit => latest["account"].net - n * Lot >= rules.reserve
  BY <1>3, <1>4, <1>5, <1>6 DEF Reserve
<1>8. latest["account"].net >= n * Lot
  BY <1>3, <1>4, <1>5, <1>6
<1>9. ASSUME rules.totalRatio # NoLimit
      PROVE  Tenths * (HeldBySnapshot + n * Lot) <= rules.totalRatio * latest["account"].settled
  <2> DEFINE share == rules.totalRatio
             net == latest["account"].net
             settled == latest["account"].settled
             room == share * (net + Reserved) - Tenths * Reserved
             per == Tenths * Lot
  <2>1. share \in 0..Tenths /\ Reserved # Unknown /\ Reserved \in Nat /\ TotalCap \in Nat
        /\ TotalCap = Contracts(room, per)
    BY <1>1, <1>2, <1>9, TotalCapIs, ReservedIs
  <2>2. share \in Nat /\ room \in Int /\ per \in Nat /\ per > 0
    BY <1>5, <2>1, SizeBounds DEF Tenths
  <2>3. n * per <= room
    <3>1. n <= Contracts(room, per)
      BY <1>2, <1>3, <2>1, SizeBounds
    <3> HIDE DEF room, per
    <3> QED
      BY <1>3, <2>2, <3>1, ContractsFit
  <2>4. Reserved >= settled - net
    <3>1. Reserved + 0 >= settled - net
      BY <2>1, ReservationIsCovered DEF ReservationCovers, HeldBySnapshot
    <3> QED
      BY <1>5, <2>1, <3>1
  <2>5. Tenths * (n * Lot) <= share * (net + Reserved) - Tenths * Reserved
    <3>1. n * per = Tenths * (n * Lot)
      BY <1>3, SizeBounds DEF Tenths
    <3> QED
      BY <2>3, <3>1
  <2>6. n * Lot \in Int /\ net \in Int /\ settled \in Int
    BY <1>3, <1>5
  <2>7. Tenths * (settled - net + n * Lot) <= share * settled
    <3> HIDE DEF settled, net, share, per, room
    <3> QED
      BY <2>1, <2>4, <2>5, <2>6, ShareOfSurplus
  <2> QED
    BY <2>7 DEF HeldBySnapshot
<1> QED
  BY <1>7, <1>8, <1>9

\* On evidence that is current, the caps are of the account as it is.
LEMMA CurrentReads ==
  ASSUME SizeInv
  PROVE  /\ ("account" \in current /\ Usable("account")) =>
              /\ latest["account"].net = Net(cash)
              /\ latest["account"].settled = cash.settled
         /\ ("positions" \in current /\ Usable("positions")) =>
              latest["positions"] = Positions
         /\ ("orders" \in current /\ Usable("orders")) => latest["orders"] = OpenOrders
<1>1. SizeTyped /\ AsNow
  BY DEF SizeInv
<1> QED
  BY <1>1, ObservedNow DEF AsNow

LEMMA ExistingNow ==
  ASSUME SizeInv, {"positions", "orders"} \subseteq current, Existing # Unknown
  PROVE  Existing = cash.held + cash.selling
<1>1. Usable("positions") /\ Usable("orders")
      /\ Existing = latest["positions"].held + latest["orders"].selling
  BY ExistingIs DEF SizeInv
<1> QED
  BY <1>1, CurrentReads DEF Positions, OpenOrders

LEMMA ReservedNow ==
  ASSUME SizeInv, {"positions", "orders"} \subseteq current, Reserved # Unknown
  PROVE  Reserved = Hold(cash)
<1>1. Usable("positions") /\ Usable("orders")
      /\ Reserved = Cover(latest["positions"], latest["orders"])
  BY ReservedIs DEF SizeInv, Reads
<1>2. cash \in CashRecord
  BY DEF SizeInv, SizeTyped
<1> QED
  BY <1>1, <1>2, CurrentReads DEF Positions, OpenOrders, Cover, Hold, CashRecord

\* Exactly the contracts that fit are within the amount.
LEMMA RoomForContracts ==
  ASSUME NEW amount \in Int, NEW p \in Nat, p > 0, NEW n \in Nat \ {0}
  PROVE  n <= Contracts(amount, p) <=> n * p <= amount
<1>1. Contracts(amount, p) \in Nat /\ (Contracts(amount, p) + 1) * p > amount
      /\ (n <= Contracts(amount, p) => n * p <= amount)
  BY ContractsFit
<1>2. ASSUME n >= Contracts(amount, p) + 1 PROVE n * p > amount
  <2> DEFINE c == Contracts(amount, p)
  <2> HIDE DEF c
  <2>1. c \in Nat /\ n >= c + 1 /\ (c + 1) * p > amount
    BY <1>1, <1>2 DEF c
  <2>2. n * p >= (c + 1) * p
    BY <2>1
  <2> QED
    BY <2>1, <2>2
<1> QED
  BY <1>1, <1>2

\* For a positive number of contracts: the caps allow it where each of them does.
LEMMA CapsAsRooms ==
  ASSUME SizeInv, current = Reads, CspCapacity # Unknown, NEW n \in Nat \ {0}
  PROVE  /\ (\A cap \in Caps : cap # NoLimit => n <= cap) => CapsAllow(n)
         /\ (\E cap \in Caps : cap # NoLimit /\ n = cap + 1) => ~CapsAllow(n)
<1>0. SizeTyped /\ cash \in CashRecord /\ {"positions", "orders"} \subseteq current
      /\ "account" \in current
  BY DEF SizeInv, SizeTyped, Reads
<1>1. /\ OrderCap # Unknown /\ UnderlyingUsdCap # Unknown /\ UnderlyingRatioCap # Unknown
      /\ CashCap # Unknown /\ TotalCap # Unknown
  BY <1>0, CapacityIs DEF Caps
<1>2. n * Lot \in Nat /\ Tenths * Lot \in Nat /\ Tenths * Lot > 0 /\ n * (Tenths * Lot) \in Nat
      /\ n * (Tenths * Lot) = Tenths * (n * Lot)
  BY SizeBounds DEF Tenths
<1>3. /\ cash.held \in Nat /\ cash.selling \in Nat /\ cash.settled \in Int /\ Hold(cash) \in Nat
      /\ Net(cash) = cash.settled - Hold(cash) /\ Net(cash) \in Int
  BY <1>0 DEF CashRecord, Hold, Net
<1>4. /\ Within(rules.orderCap, n) <=> (OrderCap = NoLimit \/ n <= OrderCap)
      /\ OrderCap # NoLimit => OrderCap \in Nat
  BY <1>0, <1>1, OrderCapIs, RulesAre, SizeBounds DEF Within
<1>5. /\ Within(rules.underlyingUsd, cash.held + cash.selling + n * Lot)
           <=> (UnderlyingUsdCap = NoLimit \/ n <= UnderlyingUsdCap)
      /\ UnderlyingUsdCap # NoLimit => UnderlyingUsdCap \in Nat
  <2>1. CASE rules.underlyingUsd = NoLimit
    BY <1>0, <2>1, UsdCapIs DEF Within
  <2>2. CASE rules.underlyingUsd # NoLimit
    <3> DEFINE bound == rules.underlyingUsd
               taken == cash.held + cash.selling
    <3>1. bound \in Nat /\ taken \in Nat
          /\ UnderlyingUsdCap \in Nat /\ UnderlyingUsdCap = Contracts(bound - taken, Lot)
      BY <1>0, <1>1, <1>3, <2>2, UsdCapIs, RulesAre, ExistingNow
    <3> HIDE DEF bound, taken
    <3>2. bound - taken \in Int
      BY <3>1
    <3>3. n <= UnderlyingUsdCap <=> n * Lot <= bound - taken
      BY <3>1, <3>2, RoomForContracts, SizeBounds
    <3>4. n * Lot <= bound - taken <=> taken + n * Lot <= bound
      BY <1>2, <3>1
    <3>5. Within(bound, taken + n * Lot) <=> taken + n * Lot <= bound
      BY <3>1, SizeBounds DEF Within
    <3> QED
      BY <3>1, <3>3, <3>4, <3>5, SizeBounds DEF bound, taken
  <2> QED
    BY <2>1, <2>2
<1> DEFINE ratio == rules.underlyingRatio
           taken == cash.held + cash.selling
           ratioHolds == \/ ratio \in {NoLimit, Unset}
                         \/ Tenths * (taken + n * Lot) <= ratio * AccountValue
           share == rules.totalRatio
           totalHolds == \/ share \in {NoLimit, Unset}
                         \/ Tenths * (Hold(cash) + n * Lot) <= share * cash.settled
<1>6. /\ ratioHolds <=> (UnderlyingRatioCap = NoLimit \/ n <= UnderlyingRatioCap)
      /\ UnderlyingRatioCap # NoLimit => UnderlyingRatioCap \in Nat
  <2>1. CASE ratio = NoLimit
    BY <1>0, <2>1, RatioCapIs
  <2>2. CASE ratio # NoLimit
    <3> DEFINE bound == ratio * AccountValue
               room == bound - Tenths * taken
    <3>1. ratio \in Nat /\ taken \in Nat /\ UnderlyingRatioCap \in Nat
          /\ UnderlyingRatioCap = Contracts(room, Tenths * Lot)
      BY <1>0, <1>1, <1>3, <2>2, RatioCapIs, RulesAre, ExistingNow
    <3>2. bound \in Int /\ Tenths * taken \in Int /\ room \in Int
      BY <3>1, SizeBounds DEF Tenths
    <3>3. n <= UnderlyingRatioCap <=> n * (Tenths * Lot) <= room
      <4> HIDE DEF room
      <4> QED
        BY <1>2, <3>1, <3>2, RoomForContracts
    <3>4. n * (Tenths * Lot) <= room <=> Tenths * taken + Tenths * (n * Lot) <= bound
      <4>1. room = bound - Tenths * taken /\ Tenths * (n * Lot) \in Int
        BY <1>2 DEF Tenths
      <4> HIDE DEF room, bound, taken
      <4> QED
        BY <1>2, <3>2, <4>1
    <3>5. Tenths * taken + Tenths * (n * Lot) = Tenths * (taken + n * Lot)
      BY <1>2, <3>1 DEF Tenths
    <3>6. ratioHolds <=> Tenths * (taken + n * Lot) <= bound
      BY <3>1, SizeBounds
    <3> QED
      BY <3>1, <3>3, <3>4, <3>5, <3>6, SizeBounds
  <2> QED
    BY <2>1, <2>2
<1>7. /\ Net(cash) - n * Lot >= (IF rules.reserve \in {NoLimit, Unset} THEN 0 ELSE rules.reserve)
           <=> n <= CashCap
      /\ CashCap \in Nat
  <2>1. /\ rules.reserve # Unset /\ CashCap \in Nat /\ Reserve \in Nat
        /\ CashCap = Contracts(Net(cash) - Reserve, Lot)
    BY <1>0, <1>1, CashCapIs, CurrentReads
  <2>2. (IF rules.reserve \in {NoLimit, Unset} THEN 0 ELSE rules.reserve) = Reserve
    BY <2>1 DEF Reserve
  <2>3. Net(cash) - Reserve \in Int
    BY <1>3, <2>1
  <2>4. n <= CashCap <=> n * Lot <= Net(cash) - Reserve
    BY <2>1, <2>3, RoomForContracts, SizeBounds
  <2> QED
    BY <1>2, <1>3, <2>1, <2>2, <2>4
<1>8. /\ totalHolds <=> (TotalCap = NoLimit \/ n <= TotalCap)
      /\ TotalCap # NoLimit => TotalCap \in Nat
  <2>1. CASE share = NoLimit
    BY <1>0, <2>1, TotalCapIs
  <2>2. CASE share # NoLimit
    <3> DEFINE bound == share * (Net(cash) + Hold(cash))
               room == bound - Tenths * Hold(cash)
    <3>0. Reserved # Unknown /\ Usable("account")
      BY <1>0, <1>1, <2>2, TotalCapIs, CashCapIs
    <3>1. share \in 0..Tenths /\ TotalCap \in Nat /\ TotalCap = Contracts(room, Tenths * Lot)
      BY <1>0, <1>1, <2>2, <3>0, TotalCapIs, ReservedNow, CurrentReads
    <3>2. bound \in Int /\ Tenths * Hold(cash) \in Int /\ room \in Int /\ Net(cash) + Hold(cash) = cash.settled
      BY <1>3, <3>1, SizeBounds DEF Tenths
    <3>3. n <= TotalCap <=> n * (Tenths * Lot) <= room
      <4> HIDE DEF room
      <4> QED
        BY <1>2, <3>1, <3>2, RoomForContracts
    <3>4. n * (Tenths * Lot) <= room <=> Tenths * Hold(cash) + Tenths * (n * Lot) <= bound
      <4>1. room = bound - Tenths * Hold(cash) /\ Tenths * (n * Lot) \in Int
        BY <1>2 DEF Tenths
      <4> HIDE DEF room, bound
      <4> QED
        BY <1>2, <3>2, <4>1
    <3>5. Tenths * Hold(cash) + Tenths * (n * Lot) = Tenths * (Hold(cash) + n * Lot)
      BY <1>2, <1>3 DEF Tenths
    <3>6. bound = share * cash.settled
      BY <3>2
    <3>7. totalHolds <=> Tenths * (Hold(cash) + n * Lot) <= bound
      <4> HIDE DEF bound
      <4> QED
        BY <3>1, <3>6, SizeBounds
    <3> HIDE DEF bound, room
    <3> QED
      BY <3>1, <3>3, <3>4, <3>5, <3>7, SizeBounds
  <2> QED
    BY <2>1, <2>2
<1>9. CapsAllow(n) <=>
        \A cap \in Caps : cap # NoLimit => n <= cap
  <2>1. CapsAllow(n) <=>
          /\ Within(rules.orderCap, n)
          /\ Within(rules.underlyingUsd, cash.held + cash.selling + n * Lot)
          /\ ratioHolds
          /\ Net(cash) - n * Lot >= (IF rules.reserve \in {NoLimit, Unset} THEN 0 ELSE rules.reserve)
          /\ totalHolds
    BY DEF CapsAllow
  <2>2. CashCap # NoLimit
    BY <1>7, SizeBounds
  <2> HIDE DEF ratioHolds, totalHolds
  <2> QED
    BY <1>4, <1>5, <1>6, <1>7, <1>8, <2>1, <2>2 DEF Caps
<1>10. ASSUME NEW cap \in Caps, cap # NoLimit, n = cap + 1 PROVE ~(n <= cap)
  BY <1>4, <1>5, <1>6, <1>7, <1>8, <1>10 DEF Caps
<1> HIDE DEF ratioHolds, totalHolds
<1> QED
  BY <1>9, <1>10

LEMMA CapacityIsTight ==
  ASSUME SizeInv, current = Reads, CspCapacity # Unknown
  PROVE  /\ CspCapacity > 0 => CapsAllow(CspCapacity)
         /\ ~CapsAllow(CspCapacity + 1)
<1>1. /\ CspCapacity \in Nat /\ CspCapacity \in Caps
      /\ \A cap \in Caps : cap # NoLimit => CspCapacity <= cap
  BY CapacityIs DEF SizeInv
<1>2. CspCapacity > 0 => CapsAllow(CspCapacity)
  BY <1>1, CapsAsRooms
<1>3. CspCapacity # NoLimit /\ CspCapacity + 1 \in Nat \ {0}
  BY <1>1, SizeBounds
<1>4. \E cap \in Caps : cap # NoLimit /\ CspCapacity + 1 = cap + 1
  BY <1>1, <1>3
<1> QED
  BY <1>2, <1>3, <1>4, CapsAsRooms

LEMMA CallsAreCovered ==
  ASSUME SizeInv, {"positions", "orders"} \subseteq current, CcCapacity # Unknown, CcCapacity > 0
  PROVE  lots.short + lots.selling + CcCapacity <= Owned
<1> DEFINE coverage == IF rules.coverage = NoLimit THEN Tenths ELSE rules.coverage
           taken == latest["positions"].short + latest["orders"].lots
           calls == IF rules.coverage = Unset \/ ~Usable("positions") \/ ~Usable("orders")
                    THEN Unknown ELSE Contracts(Owned * coverage - Tenths * taken, Tenths)
<1>1. SizeTyped /\ lots \in LotsRecord
  BY DEF SizeInv, SizeTyped
<1>2. CcCapacity = Lesser(OrderCap, calls)
  BY DEF CcCapacity
<1>3. calls \in Cap /\ (calls # Unknown =>
         /\ coverage \in 0..Tenths /\ Usable("positions") /\ Usable("orders") /\ calls \in Nat
         /\ calls = Contracts(Owned * coverage - Tenths * taken, Tenths) /\ taken \in Nat)
  <2>1. CASE rules.coverage = Unset \/ ~Usable("positions") \/ ~Usable("orders")
    BY <2>1 DEF Cap
  <2>2. CASE rules.coverage # Unset /\ Usable("positions") /\ Usable("orders")
    <3>1. coverage \in 0..Tenths /\ taken \in Nat
      BY <1>1, <2>2, RulesAre, UsableReads DEF Tenths, PositionsRead, OrdersRead
    <3>2. Owned * coverage - Tenths * taken \in Int
      BY <3>1, SizeBounds DEF Tenths
    <3>3. calls = Contracts(Owned * coverage - Tenths * taken, Tenths)
      BY <2>2
    <3> HIDE DEF coverage, taken, calls
    <3>4. Contracts(Owned * coverage - Tenths * taken, Tenths) \in Nat
      BY <3>2, ContractsFit DEF Tenths
    <3> QED
      BY <2>2, <3>1, <3>3, <3>4 DEF Cap
  <2> QED
    BY <2>1, <2>2
<1>4. calls \in Nat /\ CcCapacity \in Nat /\ CcCapacity <= calls
  <2>1. OrderCap \in Cap
    BY <1>1, OrderCapIs
  <2> HIDE DEF calls
  <2> QED
    BY <1>2, <1>3, <2>1, LesserIs, SizeBounds
<1>5. coverage \in 0..Tenths /\ taken \in Nat
      /\ calls = Contracts(Owned * coverage - Tenths * taken, Tenths)
      /\ Usable("positions") /\ Usable("orders")
  BY <1>3, <1>4, SizeBounds
<1>6. taken = lots.short + lots.selling
  BY <1>5, CurrentReads DEF Positions, OpenOrders
<1>7. CcCapacity * Tenths <= Owned * coverage - Tenths * taken
  <2> HIDE DEF calls, coverage, taken
  <2>1. Owned * coverage - Tenths * taken \in Int
    BY <1>5, SizeBounds DEF Tenths
  <2> QED
    BY <1>4, <1>5, <2>1, ContractsFit DEF Tenths
<1>8. Owned * coverage <= Tenths * Owned /\ Owned * coverage \in Int
  <2> HIDE DEF coverage
  <2> QED
    BY <1>5, SizeBounds DEF Tenths
<1> HIDE DEF calls, coverage, taken
<1>9. taken + CcCapacity <= Owned
  BY <1>4, <1>5, <1>7, <1>8, SizeBounds DEF Tenths
<1> QED
  BY <1>6, <1>9

LEMMA ClosesAreHeld ==
  ASSUME SizeInv, NEW quantity \in 1..Owned, "orders" \in current, lots.book = lots.short,
         Remaining(CloseTarget(quantity), CloseCapacity) # Unknown
  PROVE  Remaining(CloseTarget(quantity), CloseCapacity) + lots.closing <= lots.short
<1>1. SizeTyped /\ lots \in LotsRecord /\ lots.closing <= lots.short
  BY DEF SizeInv, SizeTyped, Solvent
<1>2. CloseTarget(quantity) # Unknown /\ CloseCapacity # Unknown
  BY DEF Remaining
<1>3. CloseTarget(quantity) = quantity /\ quantity \in Nat
  BY <1>2, SizeBounds DEF CloseTarget
<1>4. /\ Usable("orders") /\ latest["positions"].short = lots.short
      /\ CloseCapacity = IF latest["positions"].short > latest["orders"].closing
                         THEN latest["positions"].short - latest["orders"].closing ELSE 0
  BY <1>2 DEF CloseCapacity
<1>5. latest["orders"].closing = lots.closing
  BY <1>4, CurrentReads DEF OpenOrders
<1>6. CloseCapacity \in Nat /\ CloseCapacity + lots.closing <= lots.short
  BY <1>1, <1>4, <1>5 DEF LotsRecord
<1>7. Remaining(CloseTarget(quantity), CloseCapacity) <= CloseCapacity
      /\ Remaining(CloseTarget(quantity), CloseCapacity) \in Nat
  BY <1>2, <1>3, <1>6 DEF Remaining
<1> QED
  BY <1>1, <1>6, <1>7 DEF LotsRecord

LEMMA SizesAreTight ==
  ASSUME SizeInv
  PROVE  SizingTight
BY CapacityIsTight, CallsAreCovered, ClosesAreHeld DEF SizingTight

LEMMA AuditIsOfTheSame ==
  ASSUME SizeInv
  PROVE  AuditAgrees
<1> SUFFICES ASSUME NEW n \in 1..MaxContracts
             PROVE  /\ (CspCapacity # Unknown /\ n <= CspCapacity) =>
                         "violation" \notin {PerOrder(n), PerUnderlying(n), TotalRatio(n)}
                    /\ (PerUnderlying(n) = "pass" /\ {"positions", "orders"} \subseteq current) =>
                         Within(rules.underlyingUsd, cash.held + cash.selling + n * Lot)
  BY DEF AuditAgrees
<1>1. SizeTyped /\ n \in Nat /\ n # 0
  BY DEF SizeInv
<1>2. n * Lot \in Nat /\ Tenths * Lot \in Nat /\ n * (Tenths * Lot) = Tenths * (n * Lot)
      /\ Tenths * (n * Lot) \in Nat /\ Tenths * Lot > 0
  BY <1>1, SizeBounds DEF Tenths
<1>3. ASSUME CspCapacity # Unknown, n <= CspCapacity
      PROVE  "violation" \notin {PerOrder(n), PerUnderlying(n), TotalRatio(n)}
  <2>1. /\ CspCapacity \in Nat /\ Unknown \notin Caps
        /\ \A cap \in Caps : cap # NoLimit => CspCapacity <= cap
    BY <1>1, <1>3, CapacityIs
  <2>2. PerOrder(n) # "violation"
    <3>1. OrderCap # Unknown /\ (OrderCap # NoLimit => CspCapacity <= OrderCap)
      BY <2>1 DEF Caps
    <3> QED
      BY <1>1, <1>3, <2>1, <3>1, OrderCapIs, RulesAre, SizeBounds DEF PerOrder
  <2>3. rules.underlyingUsd \notin {NoLimit, Unset} =>
          /\ Existing # Unknown /\ Existing + n * Lot <= rules.underlyingUsd
    <3> HAVE rules.underlyingUsd \notin {NoLimit, Unset}
    <3>1. UnderlyingUsdCap # Unknown /\ UnderlyingUsdCap \in Nat /\ Existing \in Nat
          /\ UnderlyingUsdCap = Contracts(rules.underlyingUsd - Existing, Lot)
          /\ rules.underlyingUsd \in Nat /\ Existing # Unknown
      BY <1>1, <2>1, UsdCapIs, ExistingIs, RulesAre DEF Caps
    <3>2. n <= UnderlyingUsdCap
      BY <1>1, <1>3, <2>1, <3>1, SizeBounds DEF Caps
    <3>3. rules.underlyingUsd - Existing \in Int
      BY <3>1
    <3>4. n * Lot <= rules.underlyingUsd - Existing
      BY <1>1, <3>1, <3>2, <3>3, RoomForContracts, SizeBounds
    <3> QED
      BY <1>2, <3>1, <3>4
  <2>4. rules.underlyingRatio \notin {NoLimit, Unset} =>
          /\ Existing # Unknown
          /\ Tenths * (Existing + n * Lot) <= rules.underlyingRatio * AccountValue
    <3> HAVE rules.underlyingRatio \notin {NoLimit, Unset}
    <3> DEFINE bound == rules.underlyingRatio * AccountValue
               room == bound - Tenths * Existing
    <3>1. UnderlyingRatioCap # Unknown /\ UnderlyingRatioCap \in Nat /\ Existing \in Nat
          /\ UnderlyingRatioCap = Contracts(room, Tenths * Lot)
          /\ rules.underlyingRatio \in Nat /\ Existing # Unknown
      BY <1>1, <2>1, RatioCapIs, ExistingIs, RulesAre DEF Caps
    <3>2. n <= UnderlyingRatioCap
      BY <1>1, <1>3, <2>1, <3>1, SizeBounds DEF Caps
    <3>3. bound \in Int /\ room \in Int /\ Tenths * Existing \in Int
      BY <3>1, SizeBounds DEF Tenths
    <3>4. n * (Tenths * Lot) <= room
      <4> HIDE DEF room
      <4> QED
        BY <1>1, <1>2, <3>1, <3>2, <3>3, RoomForContracts
    <3>5. Tenths * (Existing + n * Lot) = Tenths * Existing + Tenths * (n * Lot)
      BY <1>2, <3>1 DEF Tenths
    <3>6. room = bound - Tenths * Existing
      OBVIOUS
    <3>7. Tenths * (Existing + n * Lot) <= bound
      <4> HIDE DEF room, bound
      <4> QED
        BY <1>2, <3>3, <3>4, <3>5, <3>6
    <3> QED
      BY <3>1, <3>7
  <2>5. UnderlyingUsdCap # Unknown /\ UnderlyingRatioCap # Unknown
    BY <2>1 DEF Caps
  <2>6. rules.underlyingUsd # Unset /\ rules.underlyingRatio # Unset
    BY <1>1, <2>5, UsdCapIs, RatioCapIs
  <2>7. Existing # Unknown => Exposure = Existing
    BY <1>1, ExistingIs DEF Exposure, Usable
  <2>8. PerUnderlying(n) # "violation"
    <3>1. CASE rules.underlyingUsd = NoLimit /\ rules.underlyingRatio = NoLimit
      BY <3>1 DEF PerUnderlying
    <3>2. CASE ~(rules.underlyingUsd = NoLimit /\ rules.underlyingRatio = NoLimit)
      <4>1. Existing \in Nat /\ Exposure = Existing
        BY <1>1, <2>3, <2>4, <2>6, <2>7, <3>2, ExistingIs
      <4>2. rules.underlyingUsd # NoLimit => ~(Exposure + n * Lot > rules.underlyingUsd)
        BY <1>1, <1>2, <2>3, <2>6, <4>1, RulesAre
      <4>3. rules.underlyingRatio # NoLimit =>
              ~(Tenths * (Exposure + n * Lot) > rules.underlyingRatio * AccountValue)
        <5> HAVE rules.underlyingRatio # NoLimit
        <5>1. Tenths * (Exposure + n * Lot) \in Int /\ rules.underlyingRatio * AccountValue \in Int
          BY <1>1, <1>2, <2>6, <4>1, RulesAre, SizeBounds DEF Tenths
        <5>2. Tenths * (Exposure + n * Lot) <= rules.underlyingRatio * AccountValue
          BY <2>4, <2>6, <4>1
        <5> QED
          BY <5>1, <5>2
      <4> QED
        BY <3>2, <4>2, <4>3 DEF PerUnderlying
    <3> QED
      BY <3>1, <3>2
  <2>9. TotalRatio(n) # "violation"
    BY DEF TotalRatio
  <2> QED
    BY <2>2, <2>8, <2>9
<1>4. ASSUME PerUnderlying(n) = "pass", {"positions", "orders"} \subseteq current
      PROVE  Within(rules.underlyingUsd, cash.held + cash.selling + n * Lot)
  <2>1. CASE rules.underlyingUsd \in {NoLimit, Unset}
    BY <2>1 DEF Within
  <2>2. CASE rules.underlyingUsd \notin {NoLimit, Unset}
    <3>1. Exposure # Unknown /\ ~(Exposure + n * Lot > rules.underlyingUsd)
      BY <1>4, <2>2 DEF PerUnderlying
    <3>2. latest["positions"] # Unknown /\ latest["orders"] # Unknown
          /\ Exposure = latest["positions"].held + latest["orders"].selling
      BY <3>1 DEF Exposure
    <3>3. latest["positions"] = Positions /\ latest["orders"] = OpenOrders
      BY <1>1, <1>4, ObservedNow DEF SizeInv, AsNow
    <3>4. cash.held + cash.selling \in Nat /\ rules.underlyingUsd \in Nat
      BY <1>1, <2>2, RulesAre DEF SizeTyped, CashRecord
    <3>5. Exposure = cash.held + cash.selling
      BY <3>2, <3>3 DEF Positions, OpenOrders
    <3> QED
      BY <1>2, <3>1, <3>4, <3>5 DEF Within
  <2> QED
    BY <2>1, <2>2
<1> QED
  BY <1>3, <1>4

LEMMA SizesAreSound ==
  ASSUME SizeInv
  PROVE  SizesHold
BY ReservationIsCovered, CapsOfCashAreKept, SizesAreTight, AuditIsOfTheSame DEF SizesHold

-----------------------------------------------------------------------------
(* What the facts rest on.  A fact set is computed from places of the      *)
(* record, and the record only grows: what it says of the results up to    *)
(* then stays as it was.  Only the first reads are compared with what the  *)
(* run has recorded since: an options read may be identified late, and     *)
(* then takes the place of a later one, as moments do not go back.         *)

Kinds == {"shares", "orders", "options", "instruments", "board"}

\* What the record is: typed, of moments that do not go back, and with each set of its places a
\* first and a last one, and a row of the newest build (facts about finite sets that hold of what
\* a behaviour begins with, and of each result added).
Extremes(S) ==
  S # {} => (\E x \in S : \A y \in S : x >= y) /\ (\E x \in S : \A y \in S : x =< y)
Newest == Rows # {} => \E i \in Rows : \A j \in Rows : results[j].build =< results[i].build

RecordTyped ==
  /\ clock \in 0..MaxClock /\ latched \in BOOLEAN
  /\ results \in Seq(Recorded) /\ Len(results) <= MaxResults /\ OriginsListed(results)
  /\ \A i, j \in DOMAIN results : i <= j => results[i].at <= results[j].at
  /\ \A i \in DOMAIN results : results[i].at <= clock
  /\ \A S \in SUBSET DOMAIN results : Extremes(S)
  /\ Newest

FactsStored ==
  /\ \E S : facts \in Seq(S)
  /\ Len(facts) <= MaxFacts /\ told \subseteq DOMAIN facts

\* What a fact set says, of what had been recorded: this stays so as more is recorded.
HeldIsCurrent(f) ==
  f.counts =>
    /\ f.positions # Unknown
    /\ \E o \in KeptFor(f, "orders") :
         \A i \in {f.positions.shares, f.positions.options, o} :
           Fresh(results[i].at, f.at, AccountAge) /\ f.asOf <= results[i].at
ReadWhole(f, i) == \A c \in results[i].of : NamedFor(f, c)
NoneLeftOut(f) ==
  f.positions # Unknown =>
    /\ f.positions.options \in KeptFor(f, "options") /\ ReadWhole(f, f.positions.options)
    /\ \A i \in KeptFor(f, "options") : i > f.positions.options => ~ReadWhole(f, i)
    /\ f.positions.shares \in KeptFor(f, "shares")
    /\ \A i \in KeptFor(f, "shares") : i <= f.positions.shares
RowIsNewest(f) ==
  f.row # Unknown =>
    /\ f.row \in KeptFor(f, "board") /\ f.subject.of \in results[f.row].of
    /\ \A i \in KeptFor(f, "board") : results[i].build <= results[f.row].build
    /\ \E i \in KeptFor(f, "board") : i < f.subject.candidate /\ f.subject.of \in results[i].of

\* The baseline is of whole reads, and of the first open orders.
FirstReads(f) ==
  LET base == f.baseline IN
  base # Unknown =>
    /\ base.positions.shares \in Kept("shares") /\ base.positions.options \in OptionHalves
    /\ base.positions.at \in {results[base.positions.shares].at, results[base.positions.options].at}
    /\ base.positions.at <= f.positions.at
    /\ base.orders \in Kept("orders") /\ \A i \in Kept("orders") : base.orders <= i

FactHolds(f) ==
  /\ f.seen \in 0..Len(results)
  /\ HeldIsCurrent(f) /\ NoneLeftOut(f) /\ RowIsNewest(f) /\ FirstReads(f)

FactsInv == RecordTyped /\ FactsStored /\ \A n \in DOMAIN facts : FactHolds(facts[n])

LEMMA FactsBounds ==
  /\ MaxResults \in Nat /\ MaxClock \in Nat /\ MaxBuilds \in Nat /\ MaxFacts \in Nat
  /\ NoLimit \notin Int /\ Unset \notin Int /\ Unknown \notin Int
BY FactsAssumption, SettingsAssumption DEF FactsAssumption, SettingsAssumption

LEMMA KeptAre ==
  ASSUME RecordTyped, NEW kind
  PROVE  /\ Kept(kind) \subseteq DOMAIN results /\ DOMAIN results = 1..Len(results)
         /\ Len(results) \in Nat
BY DEF RecordTyped, Kept

LEMMA RecordedIs ==
  ASSUME RecordTyped, NEW i \in DOMAIN results
  PROVE  /\ results[i] \in Recorded /\ results[i].at \in 0..clock /\ results[i].at \in Int
         /\ results[i].build \in Int /\ results[i].of \subseteq OptionIds
         /\ results[i].origin \subseteq OptionIds /\ i \in Int
<1>1. results[i] \in Recorded /\ i \in Int /\ results[i].at <= clock
  BY DEF RecordTyped
<1> QED
  BY <1>1, FactsBounds DEF Recorded, RecordTyped

\* The last and the first place of a set of places.
LEMMA Extreme ==
  ASSUME RecordTyped, NEW S \in SUBSET DOMAIN results, S # {}
  PROVE  /\ LatestOf(S) \in S /\ \A y \in S : y <= LatestOf(S)
         /\ EarliestOf(S) \in S /\ \A y \in S : EarliestOf(S) <= y
<1>1. (\E x \in S : \A y \in S : x >= y) /\ (\E x \in S : \A y \in S : x =< y)
  BY DEF RecordTyped, Extremes
<1>2. S \subseteq Int
  BY DEF RecordTyped
<1>3. LatestOf(S) \in S /\ \A y \in S : LatestOf(S) >= y
  BY <1>1 DEF LatestOf, Max
<1>4. EarliestOf(S) \in S /\ \A y \in S : EarliestOf(S) =< y
  BY <1>1 DEF EarliestOf, Min
<1> QED
  BY <1>2, <1>3, <1>4

\* The lesser of two and of three moments.
LEMMA LesserOf ==
  ASSUME NEW x \in Int, NEW y \in Int
  PROVE  Min({x, y}) \in {x, y} /\ Min({x, y}) <= x /\ Min({x, y}) <= y
<1>1. \E v \in {x, y} : \A w \in {x, y} : v =< w
  OBVIOUS
<1> QED
  BY <1>1 DEF Min

LEMMA LeastOf ==
  ASSUME NEW x \in Int, NEW y \in Int, NEW z \in Int
  PROVE  Min({x, y, z}) <= x /\ Min({x, y, z}) <= y /\ Min({x, y, z}) <= z
<1>1. \E v \in {x, y, z} : \A w \in {x, y, z} : v =< w
  OBVIOUS
<1> QED
  BY <1>1 DEF Min

\* The newest build that a row is of.
LEMMA CurrentIsNewest ==
  ASSUME RecordTyped, Rows # {}
  PROVE  \A i \in Rows : results[i].build <= CurrentBuild
<1> DEFINE B == {results[i].build : i \in Rows}
<1>1. PICK i \in Rows : \A j \in Rows : results[j].build =< results[i].build
  BY DEF RecordTyped, Newest
<1>2. \A j \in Rows : results[j].build \in Int
  BY RecordedIs, KeptAre DEF Rows
<1>3. \E x \in B : \A y \in B : x >= y
  BY <1>1, <1>2
<1>4. CurrentBuild \in B /\ \A y \in B : CurrentBuild >= y
  BY <1>3 DEF CurrentBuild, Max
<1> QED
  BY <1>2, <1>4

\* The positions in use are of the latest halves, and the oldest of them.
LEMMA UsedAre ==
  ASSUME RecordTyped, PositionsUsed # Unknown
  PROVE  /\ PositionsUsed.shares \in Kept("shares") /\ \A i \in Kept("shares") : i <= PositionsUsed.shares
         /\ PositionsUsed.options \in OptionHalves
         /\ \A i \in OptionHalves : i <= PositionsUsed.options
         /\ PositionsUsed.at \in {results[PositionsUsed.shares].at, results[PositionsUsed.options].at}
         /\ PositionsUsed.at <= results[PositionsUsed.shares].at
         /\ PositionsUsed.at <= results[PositionsUsed.options].at
         /\ BothHalves /\ PositionsUsed.at \in Int
<1> DEFINE s == LatestOf(Kept("shares"))
           o == LatestOf(OptionHalves)
<1>1. BothHalves /\ PositionsUsed = CombinedReads(s, o)
  BY DEF PositionsUsed
<1>2. /\ Kept("shares") \in SUBSET DOMAIN results /\ Kept("shares") # {}
      /\ OptionHalves \in SUBSET DOMAIN results /\ OptionHalves # {}
  BY <1>1, KeptAre DEF BothHalves, OptionHalves
<1>3. s \in Kept("shares") /\ \A i \in Kept("shares") : i <= s
  BY <1>2, Extreme
<1>4. o \in OptionHalves /\ \A i \in OptionHalves : i <= o
  BY <1>2, Extreme
<1>5. results[s].at \in Int /\ results[o].at \in Int
  BY <1>2, <1>3, <1>4, RecordedIs
<1> HIDE DEF s, o
<1>6. PositionsUsed.shares = s /\ PositionsUsed.options = o
      /\ PositionsUsed.at = Min({results[s].at, results[o].at})
  BY <1>1 DEF CombinedReads
<1>7. /\ Min({results[s].at, results[o].at}) \in {results[s].at, results[o].at}
      /\ Min({results[s].at, results[o].at}) <= results[s].at
      /\ Min({results[s].at, results[o].at}) <= results[o].at
  BY <1>5, LesserOf
<1> QED
  BY <1>1, <1>3, <1>4, <1>5, <1>6, <1>7

\* Positions are in use as soon as there are both halves.
LEMMA BothAreUsed == RecordTyped /\ BothHalves => PositionsUsed # Unknown
<1> SUFFICES ASSUME RecordTyped, BothHalves PROVE PositionsUsed # Unknown
  OBVIOUS
<1> DEFINE s == LatestOf(Kept("shares"))
           o == LatestOf(OptionHalves)
<1>1. PositionsUsed = CombinedReads(s, o)
  BY DEF PositionsUsed
<1>2. /\ Kept("shares") \in SUBSET DOMAIN results /\ Kept("shares") # {}
      /\ OptionHalves \in SUBSET DOMAIN results /\ OptionHalves # {}
  BY KeptAre DEF BothHalves, OptionHalves
<1>3. s \in DOMAIN results /\ o \in DOMAIN results
      /\ results[s].at \in Int /\ results[o].at \in Int
  BY <1>2, Extreme, RecordedIs
<1> HIDE DEF s, o
<1>4. results[s].at \in 0..clock /\ results[o].at \in 0..clock /\ clock \in 0..MaxClock
  BY <1>3, RecordedIs DEF RecordTyped
<1>5. \A i \in DOMAIN results : i \in 1..MaxResults
  BY KeptAre, FactsBounds DEF RecordTyped
<1>6. Min({results[s].at, results[o].at}) \in 0..MaxClock
  <2>1. results[s].at \in Int /\ results[o].at \in Int
    BY <1>3
  <2>2. Min({results[s].at, results[o].at}) \in {results[s].at, results[o].at}
    BY <2>1, LesserOf
  <2> QED
    BY <1>4, <2>2, FactsBounds
<1>7. CombinedReads(s, o) \in Combinations
  BY <1>3, <1>5, <1>6 DEF CombinedReads, Combinations
<1> QED
  BY <1>1, <1>7, FactsAssumption DEF FactsAssumption

\* The baseline is of the first halves, and the oldest of them.
LEMMA BaselineIs ==
  ASSUME RecordTyped, BothHalves, Kept("orders") # {}
  PROVE  /\ Baseline # Unknown
         /\ Baseline.orders \in Kept("orders") /\ \A i \in Kept("orders") : Baseline.orders <= i
         /\ \A s \in Kept("shares"), o \in OptionHalves :
              Baseline.positions.at <= results[s].at /\ Baseline.positions.at <= results[o].at
         /\ Baseline.positions.shares \in Kept("shares") /\ Baseline.positions.options \in OptionHalves
         /\ Baseline.positions.at \in {results[Baseline.positions.shares].at,
                                       results[Baseline.positions.options].at}
<1> DEFINE s == EarliestOf(Kept("shares"))
           o == EarliestOf(OptionHalves)
           w == EarliestOf(Kept("orders"))
<1>1. Baseline = [positions |-> CombinedReads(s, o), orders |-> w]
  BY DEF Baseline
<1>2. /\ Kept("shares") \in SUBSET DOMAIN results /\ Kept("shares") # {}
      /\ OptionHalves \in SUBSET DOMAIN results /\ OptionHalves # {}
      /\ Kept("orders") \in SUBSET DOMAIN results
  BY KeptAre DEF BothHalves, OptionHalves
<1>3. s \in Kept("shares") /\ \A i \in Kept("shares") : s <= i
  BY <1>2, Extreme
<1>4. o \in OptionHalves /\ \A i \in OptionHalves : o <= i
  BY <1>2, Extreme
<1>5. w \in Kept("orders") /\ \A i \in Kept("orders") : w <= i
  BY <1>2, Extreme
<1>6. results[s].at \in 0..clock /\ results[o].at \in 0..clock /\ clock \in 0..MaxClock
  BY <1>2, <1>3, <1>4, RecordedIs DEF RecordTyped
<1>7. \A i \in DOMAIN results : i \in 1..MaxResults
  BY KeptAre, FactsBounds DEF RecordTyped
<1> HIDE DEF s, o, w
<1>8. CombinedReads(s, o).shares = s /\ CombinedReads(s, o).options = o
      /\ CombinedReads(s, o).at = Min({results[s].at, results[o].at})
  BY DEF CombinedReads
<1>9. /\ Min({results[s].at, results[o].at}) \in {results[s].at, results[o].at}
      /\ Min({results[s].at, results[o].at}) <= results[s].at
      /\ Min({results[s].at, results[o].at}) <= results[o].at
  <2>1. results[s].at \in Int /\ results[o].at \in Int
    BY <1>2, <1>3, <1>4, RecordedIs
  <2> QED
    BY <2>1, LesserOf
<1>10. Baseline # Unknown
  <2>1. Min({results[s].at, results[o].at}) \in 0..MaxClock
    BY <1>6, <1>9, FactsBounds
  <2>2. s \in 1..MaxResults /\ o \in 1..MaxResults /\ w \in 1..MaxResults
    BY <1>2, <1>3, <1>4, <1>5, <1>7
  <2>3. CombinedReads(s, o) \in Combinations
    BY <2>1, <2>2 DEF CombinedReads, Combinations
  <2>4. Baseline \in [positions : Combinations, orders : 1..MaxResults]
    BY <1>1, <2>2, <2>3
  <2> QED
    BY <2>4, FactsAssumption DEF FactsAssumption
<1>11. \A x \in Kept("shares"), y \in OptionHalves :
         results[s].at <= results[x].at /\ results[o].at <= results[y].at
  BY <1>2, <1>3, <1>4 DEF RecordTyped
<1>12. \A x \in Kept("shares"), y \in OptionHalves :
         results[x].at \in Int /\ results[y].at \in Int
  BY <1>2, RecordedIs
<1>13. \A x \in Kept("shares"), y \in OptionHalves :
         /\ Min({results[s].at, results[o].at}) <= results[x].at
         /\ Min({results[s].at, results[o].at}) <= results[y].at
  <2> SUFFICES ASSUME NEW x \in Kept("shares"), NEW y \in OptionHalves
               PROVE  /\ Min({results[s].at, results[o].at}) <= results[x].at
                      /\ Min({results[s].at, results[o].at}) <= results[y].at
    OBVIOUS
  <2>1. results[s].at <= results[x].at /\ results[o].at <= results[y].at
    BY <1>11
  <2>2. results[x].at \in Int /\ results[y].at \in Int
    BY <1>12
  <2>3. results[s].at \in Int /\ results[o].at \in Int
    BY <1>6, FactsBounds
  <2> QED
    BY <1>9, <2>1, <2>2, <2>3
<1> QED
  BY <1>1, <1>3, <1>4, <1>5, <1>8, <1>9, <1>10, <1>13

\* A fact set rests on what had been recorded when it was computed.
LEMMA ComputedHolds ==
  ASSUME RecordTyped, NEW subject, NEW c, NEW row, InstrumentsOf(c) # {},
         row # Unknown =>
           /\ subject.of = c /\ RowsOf(c) # {} /\ row = LatestOf(RowsOf(c))
           /\ \E j \in Kept("board") : j < subject.candidate /\ c \in results[j].of
  PROVE  FactHolds(Computed(subject, c, row))
<1> DEFINE f == Computed(subject, c, row)
           l == LatestOf(Kept("orders"))
           k == LatestOf(InstrumentsOf(c))
<1>1. /\ f.seen = Len(results) /\ f.at = clock /\ f.positions = PositionsUsed /\ f.baseline = Baseline
      /\ f.row = row /\ f.counts = Counts /\ f.subject = subject
      /\ f.asOf = IF Counts THEN Min({PositionsUsed.at, results[l].at, results[k].at}) ELSE Unknown
  BY DEF Computed, OldestOf
<1> HIDE DEF f
<1>2. \A kind : KeptFor(f, kind) = Kept(kind)
  BY <1>1, KeptAre DEF KeptFor
<1>3. f.seen \in 0..Len(results)
  BY <1>1, KeptAre
<1>4. HeldIsCurrent(f)
  <2> SUFFICES ASSUME Counts
               PROVE  \A i \in {PositionsUsed.shares, PositionsUsed.options, l} :
                        Fresh(results[i].at, f.at, AccountAge) /\ f.asOf <= results[i].at
    <3>1. Counts => l \in Kept("orders") /\ PositionsUsed # Unknown
      BY Extreme, KeptAre DEF Counts
    <3> QED
      BY <1>1, <1>2, <3>1 DEF HeldIsCurrent
  <2>1. PositionsUsed # Unknown /\ Kept("orders") # {} /\ Fresh(PositionsUsed.at, clock, AccountAge)
        /\ Fresh(results[l].at, clock, AccountAge)
    BY DEF Counts, NotTooOld
  <2>2. l \in Kept("orders") /\ k \in InstrumentsOf(c)
    BY <2>1, Extreme, KeptAre DEF InstrumentsOf
  <2>3. results[l].at \in Int /\ results[k].at \in Int /\ clock \in Int
    BY <2>2, KeptAre, RecordedIs, FactsBounds DEF RecordTyped, InstrumentsOf
  <2> DEFINE m == Min({PositionsUsed.at, results[l].at, results[k].at})
  <2>4. PositionsUsed.at \in Int
    BY <2>1, UsedAre
  <2>5. m <= PositionsUsed.at /\ m <= results[l].at /\ f.asOf = m
    BY <1>1, <2>3, <2>4, LeastOf
  <2>6. ASSUME NEW i \in DOMAIN results, PositionsUsed.at <= results[i].at
        PROVE  Fresh(results[i].at, clock, AccountAge) /\ f.asOf <= results[i].at
    <3>1. results[i].at \in Int /\ results[i].at <= clock
      BY RecordedIs DEF RecordTyped
    <3>2. Fresh(results[i].at, clock, AccountAge)
      <4>1. results[i].at # Unknown
        BY <3>1, FactsBounds
      <4>2. AccountAge \in Nat \/ AccountAge = NoLimit \/ AccountAge = Unset
        BY FactsAssumption DEF FactsAssumption
      <4>3. AccountAge # NoLimit => AccountAge \in Nat /\ clock - results[i].at <= AccountAge
        BY <2>1, <2>3, <2>4, <2>6, <3>1, <4>2 DEF Fresh
      <4> QED
        BY <2>1, <3>1, <4>1, <4>3 DEF Fresh
    <3>3. f.asOf <= results[i].at
      <4>1. m \in {PositionsUsed.at, results[l].at, results[k].at}
        <5>1. \A x, y, z \in Int : Min({x, y, z}) \in {x, y, z}
          <6> SUFFICES ASSUME NEW x \in Int, NEW y \in Int, NEW z \in Int
                       PROVE  Min({x, y, z}) \in {x, y, z}
            OBVIOUS
          <6>1. \E v \in {x, y, z} : \A w \in {x, y, z} : v =< w
            OBVIOUS
          <6> QED
            BY <6>1 DEF Min
        <5> QED
          BY <2>3, <2>4, <5>1
      <4> HIDE DEF m
      <4> QED
        BY <2>3, <2>4, <2>5, <2>6, <3>1, <4>1
    <3> QED
      BY <3>2, <3>3
  <2>7. PositionsUsed.shares \in DOMAIN results /\ PositionsUsed.options \in DOMAIN results
    BY <2>1, UsedAre, KeptAre DEF OptionHalves
  <2>8. /\ PositionsUsed.at <= results[PositionsUsed.shares].at
        /\ PositionsUsed.at <= results[PositionsUsed.options].at
    BY <2>1, UsedAre
  <2>9. Fresh(results[l].at, clock, AccountAge) /\ f.asOf <= results[l].at
    BY <2>1, <2>5
  <2> QED
    BY <1>1, <2>6, <2>7, <2>8, <2>9
<1>5. NoneLeftOut(f)
  <2>1. \A i : ReadWhole(f, i) <=> Identified(i)
    BY <1>2 DEF ReadWhole, Identified, NamedFor, InstrumentsOf
  <2> SUFFICES ASSUME PositionsUsed # Unknown
               PROVE  /\ PositionsUsed.options \in Kept("options") /\ Identified(PositionsUsed.options)
                      /\ \A i \in Kept("options") : i > PositionsUsed.options => ~Identified(i)
                      /\ PositionsUsed.shares \in Kept("shares")
                      /\ \A i \in Kept("shares") : i <= PositionsUsed.shares
    BY <1>1, <1>2, <2>1 DEF NoneLeftOut
  <2>2. PositionsUsed.options \in OptionHalves /\ \A i \in OptionHalves : i <= PositionsUsed.options
    BY UsedAre
  <2>3. PositionsUsed.shares \in Kept("shares") /\ \A i \in Kept("shares") : i <= PositionsUsed.shares
    BY UsedAre
  <2>4. Kept("options") \subseteq Int
    BY KeptAre
  <2> QED
    BY <2>2, <2>3, <2>4 DEF OptionHalves
<1>6. RowIsNewest(f)
  <2> SUFFICES ASSUME row # Unknown
               PROVE  /\ row \in Rows /\ c \in results[row].of
                      /\ \A i \in Rows : results[i].build <= results[row].build
    BY <1>1, <1>2 DEF RowIsNewest, Rows
  <2>1. RowsOf(c) # {} /\ RowsOf(c) \in SUBSET DOMAIN results /\ row = LatestOf(RowsOf(c))
    BY KeptAre DEF RowsOf, Rows
  <2>2. row \in RowsOf(c)
    BY <2>1, Extreme
  <2>3. Rows # {} /\ row \in Rows /\ results[row].build = CurrentBuild /\ c \in results[row].of
    BY <2>1, <2>2 DEF RowsOf
  <2> QED
    BY <2>3, CurrentIsNewest
<1>7. FirstReads(f)
  <2> SUFFICES ASSUME Baseline # Unknown
               PROVE  /\ Baseline.positions.shares \in Kept("shares")
                      /\ Baseline.positions.options \in OptionHalves
                      /\ Baseline.positions.at \in {results[Baseline.positions.shares].at,
                                                    results[Baseline.positions.options].at}
                      /\ Baseline.positions.at <= PositionsUsed.at
                      /\ Baseline.orders \in Kept("orders")
                      /\ \A i \in Kept("orders") : Baseline.orders <= i
    BY <1>1 DEF FirstReads
  <2>1. BothHalves /\ Kept("orders") # {}
    BY DEF Baseline
  <2>2. PositionsUsed # Unknown => Baseline.positions.at <= PositionsUsed.at
    <3>1. SUFFICES ASSUME PositionsUsed # Unknown PROVE Baseline.positions.at <= PositionsUsed.at
      OBVIOUS
    <3>2. PositionsUsed.shares \in Kept("shares") /\ PositionsUsed.options \in OptionHalves
          /\ PositionsUsed.at \in {results[PositionsUsed.shares].at, results[PositionsUsed.options].at}
      BY <3>1, UsedAre
    <3>3. /\ Baseline.positions.at <= results[PositionsUsed.shares].at
          /\ Baseline.positions.at <= results[PositionsUsed.options].at
      BY <2>1, <3>2, BaselineIs
    <3> QED
      BY <3>2, <3>3
  <2> QED
    BY <2>1, <2>2, BaselineIs, BothAreUsed
<1> QED
  BY <1>3, <1>4, <1>5, <1>6, <1>7 DEF FactHolds, f

\* Builds are numbered.
LEMMA BuildIs == \A r \in Recorded : r.build \in Int
BY FactsBounds DEF Recorded

LEMMA FactsBeginWell ==
  ASSUME NEW begun \in Beginnings, FactsBegin(begun)
  PROVE  FactsInv
<1>1. /\ clock = 0 /\ results = begun /\ facts = <<>> /\ told = {} /\ latched = FALSE
  BY DEF FactsBegin
<1>2. /\ results \in Seq(Recorded) /\ Len(results) <= MaxResults /\ OriginsListed(results)
      /\ Len(results) <= 2 /\ \A i \in DOMAIN results : results[i].at = 0
  BY <1>1, FactsAssumption DEF FactsAssumption
<1>3. DOMAIN results \subseteq {1, 2} /\ DOMAIN results = 1..Len(results) /\ Len(results) \in Nat
  BY <1>2
<1>4. \A i, j \in DOMAIN results : i <= j => results[i].at <= results[j].at
  BY <1>2
<1>5. \A S \in SUBSET DOMAIN results : Extremes(S)
  <2> SUFFICES ASSUME NEW S \in SUBSET {1, 2}, S # {}
               PROVE  (\E x \in S : \A y \in S : x >= y) /\ (\E x \in S : \A y \in S : x =< y)
    BY <1>3 DEF Extremes
  <2>1. S = {1} \/ S = {2} \/ S = {1, 2}
    OBVIOUS
  <2> QED
    BY <2>1
<1>6. Newest
  <2>1. Rows \subseteq {1, 2} /\ \A i \in Rows : results[i] \in Recorded
    BY <1>2, <1>3 DEF Rows, Kept
  <2>2. \A i \in Rows : results[i].build \in Int
    BY <2>1, BuildIs
  <2>3. Rows = {} \/ Rows = {1} \/ Rows = {2} \/ Rows = {1, 2}
    BY <2>1
  <2>4. CASE Rows = {1, 2}
    <3>1. results[1].build =< results[2].build \/ results[2].build =< results[1].build
      BY <2>2, <2>4
    <3>2. results[1].build =< results[1].build /\ results[2].build =< results[2].build
      BY <2>2, <2>4
    <3> QED
      BY <2>4, <3>1, <3>2 DEF Newest
  <2>5. CASE Rows # {1, 2}
    BY <2>2, <2>3, <2>5 DEF Newest
  <2> QED
    BY <2>4, <2>5
<1>7. RecordTyped
  <2>1. clock \in 0..MaxClock
    BY <1>1, FactsBounds
  <2>2. latched \in BOOLEAN
    BY <1>1
  <2>3. \A i \in DOMAIN results : results[i].at <= clock
    BY <1>1, <1>2
  <2> QED
    BY <1>2, <1>4, <1>5, <1>6, <2>1, <2>2, <2>3 DEF RecordTyped
<1>8. FactsStored
  <2>1. facts \in Seq({})
    BY <1>1
  <2>2. Len(facts) <= MaxFacts /\ told \subseteq DOMAIN facts
    BY <1>1, FactsBounds
  <2> QED
    BY <2>1, <2>2 DEF FactsStored
<1> QED
  BY <1>1, <1>7, <1>8 DEF FactsInv

\* What has been recorded stays, in its place.
LEMMA PlacesStay ==
  ASSUME RecordTyped, NEW r \in Recorded, results' = Append(results, r)
  PROVE  /\ results' \in Seq(Recorded) /\ Len(results') = Len(results) + 1
         /\ DOMAIN results' = 1..(Len(results) + 1) /\ results'[Len(results) + 1] = r
         /\ \A i \in DOMAIN results : i \in DOMAIN results' /\ results'[i] = results[i]
         /\ \A i \in DOMAIN results' : i \in DOMAIN results \/ i = Len(results) + 1
         /\ Len(results) \in Nat /\ DOMAIN results = 1..Len(results)
BY DEF RecordTyped

LEMMA RecordKeeps ==
  ASSUME RecordTyped, NEW r \in Recorded, results' = Append(results, r), r.at = clock,
         Len(results) < MaxResults, UNCHANGED <<clock, latched>>,
         \A c \in r.origin : \E j \in DOMAIN results : results[j].kind = "board" /\ c \in results[j].of
  PROVE  RecordTyped'
<1> DEFINE n == Len(results) + 1
<1>0. /\ results' \in Seq(Recorded) /\ Len(results') = n
      /\ DOMAIN results' = 1..n /\ results'[n] = r
      /\ \A i \in DOMAIN results : i \in DOMAIN results' /\ results'[i] = results[i]
      /\ \A i \in DOMAIN results' : i \in DOMAIN results \/ i = n
      /\ Len(results) \in Nat /\ DOMAIN results = 1..Len(results)
  BY PlacesStay
<1>1. n \in Nat /\ \A i \in DOMAIN results : i < n /\ i \in Int
  BY <1>0
<1> HIDE DEF n
<1>2. clock' \in 0..MaxClock /\ latched' \in BOOLEAN /\ Len(results') <= MaxResults
  BY <1>0, FactsBounds DEF RecordTyped, n
<1>3. \A i \in DOMAIN results' : results'[i].at <= clock' /\ results'[i].at \in Int
  BY <1>0, RecordedIs, FactsBounds DEF RecordTyped
<1>4. \A i, j \in DOMAIN results' : i <= j => results'[i].at <= results'[j].at
  <2> SUFFICES ASSUME NEW i \in DOMAIN results', NEW j \in DOMAIN results', i <= j
               PROVE  results'[i].at <= results'[j].at
    OBVIOUS
  <2>1. CASE j = n
    BY <1>0, <1>3, <2>1
  <2>2. CASE j # n
    <3>1. j \in DOMAIN results /\ i \in DOMAIN results
      BY <1>0, <1>1, <2>2
    <3> QED
      BY <1>0, <3>1 DEF RecordTyped
  <2> QED
    BY <2>1, <2>2
<1>5. OriginsListed(results)'
  <2> SUFFICES ASSUME NEW i \in DOMAIN results', NEW c \in results'[i].origin
               PROVE  \E j \in DOMAIN results' : j < i /\ results'[j].kind = "board" /\ c \in results'[j].of
    BY DEF OriginsListed
  <2>1. \E j \in DOMAIN results : j < i /\ results[j].kind = "board" /\ c \in results[j].of
    <3>1. CASE i = n
      BY <1>0, <1>1, <3>1
    <3>2. CASE i # n
      BY <1>0, <3>2 DEF RecordTyped, OriginsListed
    <3> QED
      BY <3>1, <3>2
  <2> QED
    BY <1>0, <2>1
<1>6. \A S \in SUBSET DOMAIN results' : Extremes(S)
  <2> SUFFICES ASSUME NEW S \in SUBSET DOMAIN results', S # {}
               PROVE  (\E x \in S : \A y \in S : x >= y) /\ (\E x \in S : \A y \in S : x =< y)
    BY DEF Extremes
  <2> DEFINE T == S \ {n}
  <2>1. T \in SUBSET DOMAIN results /\ T \subseteq Int /\ \A y \in T : y < n
    BY <1>0, <1>1
  <2>2. S = T \/ S = T \cup {n}
    OBVIOUS
  <2>3. CASE T = {}
    BY <1>1, <2>2, <2>3
  <2>4. CASE T # {}
    <3>1. (\E x \in T : \A y \in T : x >= y) /\ (\E x \in T : \A y \in T : x =< y)
      BY <2>1, <2>4 DEF RecordTyped, Extremes
    <3>2. CASE S = T
      BY <3>1, <3>2
    <3>3. CASE S = T \cup {n}
      <4> HIDE DEF T
      <4>1. \A y \in S : n >= y
        BY <1>1, <2>1, <3>3
      <4>2. PICK x \in T : \A y \in T : x =< y
        BY <3>1
      <4>3. \A y \in S : x =< y
        BY <1>1, <2>1, <3>3, <4>2
      <4> QED
        BY <3>3, <4>1, <4>2, <4>3
    <3> QED
      BY <2>2, <3>2, <3>3
  <2> QED
    BY <2>3, <2>4
<1>7. Newest'
  <2>1. \A i \in Rows' : results'[i].build \in Int
    <3>1. \A i \in Rows' : results'[i] \in Recorded
      BY <1>0 DEF Rows, Kept
    <3> QED
      BY <3>1, BuildIs
  <2>2. \A i \in DOMAIN results : i \in Rows' <=> i \in Rows
    BY <1>0 DEF Rows, Kept
  <2>3. Rows' \subseteq Rows \cup {n} /\ Rows \subseteq DOMAIN results
    BY <1>0, <2>2 DEF Rows, Kept
  <2>4. CASE Rows = {}
    <3>1. \A i \in Rows' : i = n
      BY <2>3, <2>4
    <3>2. ASSUME NEW i \in Rows' PROVE results'[i].build =< results'[i].build
      <4>1. PICK x : x = results'[i].build
        OBVIOUS
      <4>2. x \in Int
        BY <2>1, <4>1
      <4>3. x =< x
        BY <4>2
      <4> QED
        BY <4>1, <4>3
    <3> QED
      BY <3>1, <3>2 DEF Newest
  <2>5. CASE Rows # {}
    <3>1. PICK i \in Rows : \A j \in Rows : results[j].build =< results[i].build
      BY <2>5 DEF RecordTyped, Newest
    <3>2. i \in Rows' /\ \A j \in Rows : results'[j].build =< results'[i].build
      BY <1>0, <2>2, <2>3, <3>1
    <3>3. CASE n \notin Rows'
      BY <2>3, <3>2, <3>3 DEF Newest
    <3>4. PICK x, y : x = results'[i].build /\ y = results'[n].build
      OBVIOUS
    <3>5. CASE n \in Rows' /\ y =< x
      BY <2>3, <3>2, <3>4, <3>5 DEF Newest
    <3>6. CASE n \in Rows' /\ ~(y =< x)
      <4>1. x \in Int /\ y \in Int
        BY <2>1, <3>2, <3>4, <3>6
      <4>2. ASSUME NEW j \in Rows' PROVE results'[j].build =< results'[n].build
        <5>1. PICK z : z = results'[j].build
          OBVIOUS
        <5>2. z \in Int /\ (z = y \/ z =< x)
          BY <2>1, <2>3, <3>2, <3>4, <5>1
        <5>3. z =< y
          BY <3>6, <4>1, <5>2
        <5> QED
          BY <3>4, <5>1, <5>3
      <4> QED
        BY <3>6, <4>2 DEF Newest
    <3> QED
      BY <3>3, <3>5, <3>6
  <2> QED
    BY <2>4, <2>5
<1> QED
  BY <1>0, <1>2, <1>3, <1>4, <1>5, <1>6, <1>7 DEF RecordTyped

\* A fact set says of an earlier record what it says of the later.
LEMMA FactStays ==
  ASSUME RecordTyped, NEW r \in Recorded, results' = Append(results, r), NEW f, FactHolds(f)
  PROVE  FactHolds(f)'
<1> DEFINE n == Len(results) + 1
<1>0. /\ Len(results') = n
      /\ \A i \in DOMAIN results : i \in DOMAIN results' /\ results'[i] = results[i]
      /\ \A i \in DOMAIN results' : i \in DOMAIN results \/ i = n
      /\ Len(results) \in Nat /\ DOMAIN results = 1..Len(results)
  BY PlacesStay
<1>1. n \in Nat /\ f.seen \in Int /\ f.seen < n /\ f.seen \in 0..Len(results')
  BY <1>0 DEF FactHolds
<1> HIDE DEF n
<1>2. \A kind : KeptFor(f, kind)' = KeptFor(f, kind) /\ KeptFor(f, kind) \subseteq DOMAIN results
  BY <1>0, <1>1 DEF KeptFor, Kept
<1>3. \A kind, i : i \in KeptFor(f, kind) => results'[i] = results[i]
  BY <1>0, <1>2
<1>4. \A c : NamedFor(f, c)' <=> NamedFor(f, c)
  BY <1>2, <1>3 DEF NamedFor
<1>5. \A kind : Kept(kind) = {i \in Kept(kind)' : i # n} /\ Kept(kind) \subseteq DOMAIN results
  <2>1. n \notin DOMAIN results
    BY <1>0 DEF n
  <2> QED
    BY <1>0, <2>1 DEF Kept
<1>6. HeldIsCurrent(f)'
  <2> SUFFICES ASSUME f.counts
               PROVE  /\ f.positions # Unknown
                      /\ \E o \in KeptFor(f, "orders") :
                           \A i \in {f.positions.shares, f.positions.options, o} :
                             Fresh(results'[i].at, f.at, AccountAge) /\ f.asOf <= results'[i].at
    BY <1>2 DEF HeldIsCurrent, Fresh
  <2>1. f.positions # Unknown
    BY DEF FactHolds, HeldIsCurrent
  <2>2. PICK o \in KeptFor(f, "orders") :
          \A i \in {f.positions.shares, f.positions.options, o} :
            Fresh(results[i].at, f.at, AccountAge) /\ f.asOf <= results[i].at
    BY DEF FactHolds, HeldIsCurrent
  <2>3. f.positions.shares \in DOMAIN results /\ f.positions.options \in DOMAIN results
    BY <1>2, <2>1 DEF FactHolds, NoneLeftOut
  <2>4. \A i \in {f.positions.shares, f.positions.options, o} : results'[i] = results[i]
    BY <1>0, <1>2, <2>3
  <2> QED
    BY <2>1, <2>2, <2>4
<1>7. NoneLeftOut(f)'
  <2>1. \A i \in DOMAIN results : ReadWhole(f, i)' <=> ReadWhole(f, i)
    BY <1>0, <1>4 DEF ReadWhole
  <2> SUFFICES ASSUME f.positions # Unknown
               PROVE  /\ f.positions.options \in KeptFor(f, "options")
                      /\ ReadWhole(f, f.positions.options)'
                      /\ \A i \in KeptFor(f, "options") : i > f.positions.options => ~ReadWhole(f, i)'
                      /\ f.positions.shares \in KeptFor(f, "shares")
                      /\ \A i \in KeptFor(f, "shares") : i <= f.positions.shares
    BY <1>2 DEF NoneLeftOut
  <2>2. /\ f.positions.options \in KeptFor(f, "options") /\ ReadWhole(f, f.positions.options)
        /\ \A i \in KeptFor(f, "options") : i > f.positions.options => ~ReadWhole(f, i)
        /\ f.positions.shares \in KeptFor(f, "shares")
        /\ \A i \in KeptFor(f, "shares") : i <= f.positions.shares
    BY DEF FactHolds, NoneLeftOut
  <2>3. f.positions.options \in DOMAIN results
    BY <1>2, <2>2
  <2>4. ReadWhole(f, f.positions.options)'
    BY <2>1, <2>2, <2>3
  <2>5. \A i \in KeptFor(f, "options") : i > f.positions.options => ~ReadWhole(f, i)'
    BY <1>2, <2>1, <2>2
  <2> QED
    BY <2>2, <2>4, <2>5
<1>8. RowIsNewest(f)'
  <2>1. f.row # Unknown => f.row \in KeptFor(f, "board")
    BY DEF FactHolds, RowIsNewest
  <2>2. \A i \in KeptFor(f, "board") : results'[i] = results[i]
    BY <1>3
  <2> QED
    BY <1>2, <2>1, <2>2 DEF FactHolds, RowIsNewest
<1>9. FirstReads(f)'
  <2> DEFINE base == f.baseline
  <2> SUFFICES ASSUME base # Unknown
               PROVE  /\ base.positions.shares \in Kept("shares")' /\ base.positions.options \in OptionHalves'
                      /\ base.positions.at \in {results'[base.positions.shares].at, results'[base.positions.options].at}
                      /\ base.positions.at <= f.positions.at
                      /\ base.orders \in Kept("orders")' /\ \A i \in Kept("orders")' : base.orders <= i
    BY DEF FirstReads
  <2>1. /\ base.positions.shares \in Kept("shares") /\ base.positions.options \in OptionHalves
        /\ base.positions.at \in {results[base.positions.shares].at, results[base.positions.options].at}
        /\ base.positions.at <= f.positions.at
        /\ base.orders \in Kept("orders") /\ \A i \in Kept("orders") : base.orders <= i
    BY DEF FactHolds, FirstReads
  <2> HIDE DEF base
  <2>2. OptionHalves \subseteq OptionHalves' /\ OptionHalves \subseteq DOMAIN results
    <3>1. \A c : InstrumentsOf(c) \subseteq InstrumentsOf(c)'
      BY <1>0, <1>5 DEF InstrumentsOf
    <3>2. \A i \in DOMAIN results : Identified(i) => Identified(i)'
      BY <1>0, <3>1 DEF Identified
    <3> QED
      BY <1>5, <3>2 DEF OptionHalves
  <2>3. \A kind : Kept(kind) \subseteq Kept(kind)'
    BY <1>5
  <2>4. base.positions.at \in {results'[base.positions.shares].at, results'[base.positions.options].at}
    BY <1>0, <1>5, <2>1, <2>2
  <2>5. \A i \in Kept("orders")' : base.orders <= i
    <3>1. base.orders \in Int /\ base.orders <= n
      BY <1>0, <1>1, <1>5, <2>1 DEF n
    <3> QED
      BY <1>5, <2>1, <3>1
  <2> QED
    BY <2>1, <2>2, <2>3, <2>4, <2>5
<1> QED
  BY <1>1, <1>6, <1>7, <1>8, <1>9 DEF FactHolds

LEMMA KeepKeeps ==
  ASSUME FactsInv, NEW kind \in Kinds, NEW of \in SUBSET OptionIds, NEW build \in 0..MaxBuilds,
         NEW origin \in SUBSET OptionIds, Keep(kind, of, build, origin),
         \A c \in origin : \E j \in DOMAIN results : results[j].kind = "board" /\ c \in results[j].of
  PROVE  FactsInv'
<1> DEFINE r == [kind |-> kind, at |-> clock, of |-> of, build |-> build, origin |-> origin]
<1>1. /\ results' = Append(results, r) /\ Len(results) < MaxResults
      /\ UNCHANGED <<clock, facts, told, latched>>
  BY DEF Keep, AddResult
<1>2. RecordTyped /\ r \in Recorded /\ r.at = clock /\ r.origin = origin
  BY DEF FactsInv, RecordTyped, Recorded, Kinds
<1> HIDE DEF r
<1>3. RecordTyped'
  BY <1>1, <1>2, RecordKeeps
<1>4. FactsStored'
  BY <1>1 DEF FactsInv, FactsStored
<1>5. \A n \in DOMAIN facts : FactHolds(facts[n])'
  <2> SUFFICES ASSUME NEW n \in DOMAIN facts PROVE FactHolds(facts[n])'
    OBVIOUS
  <2>1. PICK f : f = facts[n]
    OBVIOUS
  <2>2. FactHolds(f)
    BY <2>1 DEF FactsInv
  <2>3. FactHolds(f)'
    BY <1>1, <1>2, <2>2, FactStays
  <2>4. f = facts'[n]
    BY <1>1, <2>1
  <2> QED
    BY <2>3, <2>4
<1> QED
  BY <1>1, <1>3, <1>4, <1>5 DEF FactsInv

LEMMA StoreKeeps ==
  ASSUME FactsInv, NEW set, FactHolds(set), Stores(set), Len(facts) < MaxFacts
  PROVE  FactsInv'
<1>1. /\ UNCHANGED <<clock, results>>
      /\ latched' = latched \/ latched' = TRUE
      /\ \/ facts' = facts /\ told' = told
         \/ facts' = Append(facts, set) /\ told' \subseteq told \cup {Len(facts) + 1}
  BY DEF Stores
<1>2. RecordTyped' /\ \A f : FactHolds(f) => FactHolds(f)'
  <2>1. latched' \in BOOLEAN
    BY <1>1 DEF FactsInv, RecordTyped
  <2>2. RecordTyped'
    BY <1>1, <2>1 DEF FactsInv, RecordTyped, OriginsListed, Newest, Rows, Kept
  <2>3. ASSUME NEW f, FactHolds(f) PROVE FactHolds(f)'
    BY <1>1, <2>3 DEF FactHolds, HeldIsCurrent, NoneLeftOut, RowIsNewest, FirstReads, ReadWhole,
                      NamedFor, KeptFor, Kept, OptionHalves, Identified, InstrumentsOf
  <2> QED
    BY <2>2, <2>3
<1>3. PICK S : facts \in Seq(S)
  BY DEF FactsInv, FactsStored
<1>4. facts \in Seq(S \cup {set})
  BY <1>3
<1>5. CASE facts' = facts
  <2>1. told' \subseteq DOMAIN facts
    BY <1>1, <1>4, <1>5 DEF FactsInv, FactsStored
  <2>2. FactsStored'
    BY <1>5, <2>1 DEF FactsInv, FactsStored
  <2>3. (\A n \in DOMAIN facts : FactHolds(facts[n]))'
    <3> SUFFICES ASSUME NEW n \in DOMAIN facts' PROVE FactHolds(facts[n])'
      OBVIOUS
    <3>1. PICK f : f = facts[n]
      OBVIOUS
    <3>2. FactHolds(f)
      BY <1>5, <3>1 DEF FactsInv
    <3>3. FactHolds(f)' /\ f = facts'[n]
      BY <1>2, <1>5, <3>1, <3>2
    <3> QED
      BY <3>3
  <2> QED
    BY <1>2, <2>2, <2>3 DEF FactsInv
<1>6. CASE facts' = Append(facts, set) /\ told' \subseteq told \cup {Len(facts) + 1}
  <2>1. /\ facts' \in Seq(S \cup {set}) /\ Len(facts') = Len(facts) + 1
        /\ DOMAIN facts' = DOMAIN facts \cup {Len(facts) + 1} /\ facts'[Len(facts) + 1] = set
        /\ \A n \in DOMAIN facts : facts'[n] = facts[n]
        /\ Len(facts) \in Nat
    BY <1>4, <1>6
  <2>2. FactsStored'
    BY <1>6, <2>1, FactsBounds DEF FactsInv, FactsStored
  <2>3. (\A n \in DOMAIN facts : FactHolds(facts[n]))'
    <3> SUFFICES ASSUME NEW n \in DOMAIN facts' PROVE FactHolds(facts[n])'
      OBVIOUS
    <3>1. PICK f : f = facts'[n]
      OBVIOUS
    <3>2. FactHolds(f)
      BY <2>1, <3>1 DEF FactsInv
    <3>3. FactHolds(f)'
      BY <1>2, <3>2
    <3> QED
      BY <3>1, <3>3
  <2> QED
    BY <1>2, <2>2, <2>3 DEF FactsInv
<1> QED
  BY <1>1, <1>5, <1>6
LEMMA FactsKeep == FactsInv /\ [FactsNext]_factsVars => FactsInv'
<1> SUFFICES ASSUME FactsInv, [FactsNext]_factsVars PROVE FactsInv'
  OBVIOUS
<1>0. RecordTyped /\ MaxBuilds \in Nat
  BY FactsBounds DEF FactsInv
<1>1. ASSUME NEW kind \in {"shares", "orders", "options"}, NEW rows \in SUBSET OptionIds,
             KeepsAccount(kind, rows)
      PROVE  FactsInv'
  BY <1>0, <1>1, KeepKeeps DEF KeepsAccount, Kinds
<1>2. ASSUME NEW cs \in SUBSET OptionIds, KeepsInstruments(cs) PROVE FactsInv'
  <2> DEFINE origin == FromBoard(cs)
  <2>1. \A c \in origin : \E j \in DOMAIN results : results[j].kind = "board" /\ c \in results[j].of
    BY DEF FromBoard, RowsOf, Rows, Kept
  <2>2. Keep("instruments", cs, 0, origin) /\ origin \in SUBSET OptionIds
    BY <1>2 DEF KeepsInstruments, FromBoard
  <2> HIDE DEF origin
  <2> QED
    BY <1>0, <2>1, <2>2, KeepKeeps DEF Kinds
<1>3. ASSUME NEW cs \in SUBSET OptionIds, NEW build \in 1..MaxBuilds, KeepsBoard(cs, build)
      PROVE  FactsInv'
  <2>1. Keep("board", cs, build, {}) /\ build \in 0..MaxBuilds
    BY <1>0, <1>3 DEF KeepsBoard
  <2> QED
    BY <2>1, KeepKeeps DEF Kinds
<1>4. ASSUME NEW i \in DOMAIN results, NEW c \in OptionIds, FactsToOpen(i, c) PROVE FactsInv'
  <2> DEFINE origin == IF c \in results[i].origin THEN "board" ELSE "robinhood"
             subject == [candidate |-> i, of |-> c, origin |-> origin]
             row == IF origin = "board" /\ RowsOf(c) # {} THEN LatestOf(RowsOf(c)) ELSE Unknown
  <2>1. InstrumentsOf(c) # {} /\ Stores(Computed(subject, c, row)) /\ Len(facts) < MaxFacts
    BY <1>4 DEF FactsToOpen
  <2>2. subject.of = c /\ subject.candidate = i
    OBVIOUS
  <2>3. row # Unknown =>
          /\ RowsOf(c) # {} /\ row = LatestOf(RowsOf(c))
          /\ \E j \in Kept("board") : j < i /\ c \in results[j].of
    <3>1. c \in results[i].origin => \E j \in Kept("board") : j < i /\ c \in results[j].of
      BY <1>0 DEF RecordTyped, OriginsListed, Kept
    <3> QED
      BY <3>1
  <2> HIDE DEF subject, row
  <2>4. FactHolds(Computed(subject, c, row))
    BY <1>0, <2>1, <2>2, <2>3, ComputedHolds
  <2> QED
    BY <2>1, <2>4, StoreKeeps
<1>5. ASSUME NEW p \in DOMAIN Book, FactsOfPosition(p) PROVE FactsInv'
  <2>1. PICK c \in Book[p] :
          InstrumentsOf(c) # {} /\ Stores(Computed([position |-> p, of |-> c, origin |-> "book"], c, Unknown))
    BY <1>5 DEF FactsOfPosition
  <2>2. PICK subject : subject = [position |-> p, of |-> c, origin |-> "book"]
    OBVIOUS
  <2>3. FactHolds(Computed(subject, c, Unknown))
    BY <1>0, <2>1, ComputedHolds
  <2> QED
    BY <1>5, <2>1, <2>2, <2>3, StoreKeeps DEF FactsOfPosition
<1>6. CASE ClockTicks \/ UNCHANGED factsVars
  <2>1. UNCHANGED <<results, facts, told, latched>> /\ clock' \in 0..MaxClock /\ clock <= clock'
    BY <1>0, <1>6, FactsBounds DEF ClockTicks, factsVars, RecordTyped
  <2>2. \A i \in DOMAIN results : results[i].at <= clock'
    <3> SUFFICES ASSUME NEW i \in DOMAIN results PROVE results[i].at <= clock'
      OBVIOUS
    <3>1. results[i].at \in Int /\ results[i].at <= clock /\ clock \in Int /\ clock' \in Int
      BY <1>0, <2>1, RecordedIs, FactsBounds DEF RecordTyped
    <3> QED
      BY <2>1, <3>1
  <2>3. latched' \in BOOLEAN
    BY <1>0, <2>1 DEF RecordTyped
  <2>4. RecordTyped'
    BY <1>0, <2>1, <2>2, <2>3 DEF RecordTyped, OriginsListed, Newest, Rows, Kept
  <2>5. FactsStored'
    BY <2>1 DEF FactsInv, FactsStored
  <2>6. (\A n \in DOMAIN facts : FactHolds(facts[n]))'
    <3> SUFFICES ASSUME NEW n \in DOMAIN facts' PROVE FactHolds(facts[n])'
      OBVIOUS
    <3>1. FactHolds(facts[n])
      BY <2>1 DEF FactsInv
    <3> QED
      BY <2>1, <3>1 DEF FactHolds, HeldIsCurrent, NoneLeftOut, RowIsNewest, FirstReads, ReadWhole,
                        NamedFor, KeptFor, Kept, OptionHalves, Identified, InstrumentsOf
  <2> QED
    BY <2>4, <2>5, <2>6 DEF FactsInv
<1> QED
  BY <1>1, <1>2, <1>3, <1>4, <1>5, <1>6 DEF FactsNext

\* What each fact set keeps is what FactsRest asks.
LEMMA FactsAreRested == FactsInv => FactsRest
<1> SUFFICES ASSUME FactsInv PROVE FactsRest
  OBVIOUS
<1>1. CountedIsCurrent
  BY DEF FactsInv, FactHolds, HeldIsCurrent, CountedIsCurrent
<1>2. NothingLeftOut
  BY DEF FactsInv, FactHolds, NoneLeftOut, ReadWhole, NothingLeftOut
<1>3. ComparedWithNewest
  BY DEF FactsInv, FactHolds, RowIsNewest, ComparedWithNewest
<1>4. BaselineOnlyRecedes
  <2> SUFFICES ASSUME NEW n \in DOMAIN facts, facts[n].baseline # Unknown
               PROVE  /\ Baseline # Unknown /\ Baseline.orders = facts[n].baseline.orders
                      /\ Baseline.positions.at <= facts[n].baseline.positions.at
                      /\ facts[n].baseline.positions.at <= facts[n].positions.at
    BY DEF BaselineOnlyRecedes
  <2>1. PICK f : f = facts[n]
    OBVIOUS
  <2>2. PICK base : base = f.baseline
    OBVIOUS
  <2>3. RecordTyped /\ FirstReads(f) /\ base # Unknown
    BY <2>1, <2>2 DEF FactsInv, FactHolds
  <2>4. /\ base.positions.shares \in Kept("shares") /\ base.positions.options \in OptionHalves
        /\ base.positions.at \in {results[base.positions.shares].at, results[base.positions.options].at}
        /\ base.positions.at <= f.positions.at
        /\ base.orders \in Kept("orders") /\ \A i \in Kept("orders") : base.orders <= i
    BY <2>2, <2>3 DEF FirstReads
  <2>5. BothHalves /\ Kept("orders") # {}
    BY <2>4 DEF BothHalves
  <2>6. /\ Baseline # Unknown
        /\ Baseline.orders \in Kept("orders") /\ \A i \in Kept("orders") : Baseline.orders <= i
        /\ Baseline.positions.at <= results[base.positions.shares].at
        /\ Baseline.positions.at <= results[base.positions.options].at
    BY <2>3, <2>4, <2>5, BaselineIs
  <2>7. Kept("orders") \subseteq Int
    BY <2>3, KeptAre
  <2>8. Baseline.orders = base.orders
    BY <2>4, <2>6, <2>7
  <2>9. Baseline.positions.at <= base.positions.at
    BY <2>4, <2>6
  <2> QED
    BY <2>1, <2>2, <2>4, <2>6, <2>8, <2>9
<1>5. told \subseteq DOMAIN facts
  BY DEF FactsInv, FactsStored
<1> QED
  BY <1>1, <1>2, <1>3, <1>4, <1>5 DEF FactsRest

\* The sizes of the decision facts: however the account moved between the run's reads, the
\* reserve derived from them covers what the broker held, so the cash caps hold; on evidence
\* that is current the capacity is exactly the largest the caps allow, and the audit agrees.
\* The facts rest on all that was read by then and on the newest of it, in whatever order the
\* run read, and the first reads that cash is measured from stay the first.
THEOREM SizingIsSound == Spec => []SizingSound
<1> DEFINE Inv == (part = "sizing" => SizeInv) /\ (part = "facts" => FactsInv)
<1>1. Init => Inv
  <2>1. (part = "sizing" /\ SizeBegin) => SizeInv
    BY SizeStarts DEF SizeBegin, Resting, SizeInit
  <2>2. (part = "facts" /\ FactsStart) => FactsInv
    BY FactsBeginWell DEF FactsStart, Resting, FactsInit
  <2> QED
    BY <2>1, <2>2 DEF Init
<1>2. Inv /\ [Next]_evidenceVars => Inv'
  <2> SUFFICES ASSUME Inv, [Next]_evidenceVars PROVE Inv'
    OBVIOUS
  <2>1. part' = part
    BY DEF Next, evidenceVars
  <2>2. part = "sizing" => [SizeNext]_sizeVars
    BY DEF Next, evidenceVars
  <2>3. part = "facts" => [FactsNext]_factsVars
    BY DEF Next, evidenceVars
  <2>4. part = "sizing" => SizeInv'
    BY <2>2, SizeKeeps
  <2>5. part = "facts" => FactsInv'
    BY <2>3, FactsKeep
  <2> QED
    BY <2>1, <2>4, <2>5
<1>3. Inv => SizingSound
  BY SizesAreSound, FactsAreRested DEF SizingSound
<1> QED
  BY <1>1, <1>2, <1>3, PTL DEF Spec

-----------------------------------------------------------------------------
(* The gate.  A job works on one order at a time, of all it has left; a    *)
(* snapshot that no settled fill has overtaken is at most what the closes  *)
(* at work have left of their cost, and what is left of the funds.         *)

Closes == Walks \ Opens
StepRecord == [state : {"none", "live", "over"}, size : Nat, price : Nat, filled : Nat, told : Nat]

StepsTyped ==
  /\ step \in [Walks -> [Indices -> StepRecord]]
  /\ \A j \in Walks, i \in Indices :
       /\ step[j][i].told <= step[j][i].filled /\ step[j][i].filled <= step[j][i].size
       /\ step[j][i].price <= Worst[j]
       /\ step[j][i].state = "none" => step[j][i].size = 0

GateTyped ==
  /\ role \in {"wheel", "sell", "close"}
  /\ live \subseteq leftover /\ leftover \subseteq Tradable /\ validated \subseteq Tradable
  /\ phase \in [Walks -> {"idle", "reserved", "walking", "funding", "placed", "over"}]
  /\ done \in [Walks -> Nat] /\ \A j \in Walks : done[j] <= Size[j]
  /\ funds \in Int /\ snapshot \in Int \cup {Unknown} /\ awaited \in Int \cup {Unknown}
  /\ aged \in BOOLEAN /\ blind \in BOOLEAN
  /\ overtaken \in [snapshot : BOOLEAN, awaited : BOOLEAN]

\* Job j has sent its first n steps, and works on the last of them while it is placed.
SentUpTo(j, n) ==
  /\ \A i \in Indices : step[j][i].state # "none" <=> i <= n
  /\ \A i \in Indices : step[j][i].state = "live" <=> (phase[j] = "placed" /\ i = n)
  /\ \A i \in Indices : step[j][i].state = "live" => step[j][i].size = Left(j)
  /\ phase[j] = "idle" => n = 0
  /\ phase[j] \in {"reserved", "walking", "funding"} => n < MaxStep
  /\ phase[j] = "placed" => n > 0
OneByOne == \A j \in Walks : \E n \in 0..MaxStep : SentUpTo(j, n)

\* What the working order of a step may cost at most.
Cost == [p \in Walks \X Indices |->
           IF Order(p).state = "live" THEN Order(p).size * Order(p).price ELSE 0]
Spent == OverSteps(Cost, Closes) - OverSteps(Outstanding, Closes)

\* An account snapshot that no settled fill has overtaken shows no more than that.
Funded(account, late) == (account # Unknown /\ ~late) => account <= funds + Spent

Covered ==
  /\ Funded(snapshot, overtaken.snapshot) /\ Funded(awaited, overtaken.awaited)
  /\ (~blind /\ \E j, k \in Closes : j # k /\ Live(j) /\ Live(k)) =>
       OverSteps(Outstanding, Closes) <= funds

GateInv ==
  /\ StepsTyped /\ GateTyped /\ OneByOne /\ Covered /\ RollsWithinFills /\ OpensAlone

LEMMA GateBounds ==
  /\ IsFiniteSet(Walks) /\ Opens \subseteq Walks /\ Closes \subseteq Walks
  /\ \A j \in Walks : Size[j] \in Nat /\ Worst[j] \in Nat
  /\ MaxStep \in Nat /\ MaxStep >= 1 /\ Settled \in Nat /\ IsFiniteSet(Indices)
  /\ Unknown \notin Int
<1>1. MaxStep \in Nat /\ MaxStep >= 1
  BY GateAssumption DEF GateAssumption
<1>2. IsFiniteSet(Indices)
  BY <1>1, FS_Interval DEF Indices
<1> QED
  BY <1>1, <1>2, GateAssumption, SettingsAssumption DEF GateAssumption, SettingsAssumption, Closes

\* The amounts of the steps, step by step.
AmountsOf(j, i) ==
  /\ Sizes[<<j, i>>] = step[j][i].size /\ Sizes[<<j, i>>] \in Nat
  /\ Told[<<j, i>>] = step[j][i].told /\ Told[<<j, i>>] \in Nat
  /\ StepFilled[<<j, i>>] = step[j][i].filled /\ StepFilled[<<j, i>>] \in Nat
  /\ Taken[<<j, i>>] = IF step[j][i].state = "live" THEN step[j][i].size ELSE step[j][i].filled
  /\ Taken[<<j, i>>] \in Nat
  /\ Cost[<<j, i>>] = IF step[j][i].state = "live" THEN step[j][i].size * step[j][i].price ELSE 0
  /\ Cost[<<j, i>>] \in Nat
  /\ Outstanding[<<j, i>>] =
       IF step[j][i].state = "live" THEN (step[j][i].size - step[j][i].filled) * step[j][i].price ELSE 0
  /\ Outstanding[<<j, i>>] \in Nat
  /\ Told[<<j, i>>] <= StepFilled[<<j, i>>] /\ Taken[<<j, i>>] <= Sizes[<<j, i>>]
  /\ Outstanding[<<j, i>>] <= Cost[<<j, i>>]

LEMMA AmountsAre == StepsTyped => \A j \in Walks, i \in Indices : AmountsOf(j, i)
<1> SUFFICES ASSUME StepsTyped, NEW j \in Walks, NEW i \in Indices PROVE AmountsOf(j, i)
  OBVIOUS
<1>1. /\ step[j][i].size \in Nat /\ step[j][i].told \in Nat /\ step[j][i].filled \in Nat
      /\ step[j][i].price \in Nat
      /\ step[j][i].told <= step[j][i].filled /\ step[j][i].filled <= step[j][i].size
  BY DEF StepsTyped, StepRecord
<1>2. /\ Sizes[<<j, i>>] = step[j][i].size /\ Told[<<j, i>>] = step[j][i].told
      /\ StepFilled[<<j, i>>] = step[j][i].filled
      /\ Taken[<<j, i>>] = IF step[j][i].state = "live" THEN step[j][i].size ELSE step[j][i].filled
      /\ Cost[<<j, i>>] = IF step[j][i].state = "live"
                          THEN step[j][i].size * step[j][i].price ELSE 0
      /\ Outstanding[<<j, i>>] = IF step[j][i].state = "live"
                                 THEN (step[j][i].size - step[j][i].filled) * step[j][i].price
                                 ELSE 0
  BY DEF Order, Sizes, Told, StepFilled, Taken, Cost, Outstanding
<1>3. /\ step[j][i].size * step[j][i].price \in Nat
      /\ (step[j][i].size - step[j][i].filled) * step[j][i].price \in Nat
      /\ (step[j][i].size - step[j][i].filled) * step[j][i].price <= step[j][i].size * step[j][i].price
  <2>1. step[j][i].size - step[j][i].filled \in Nat
    BY <1>1
  <2> QED
    BY <1>1, <2>1
<1> QED
  BY <1>1, <1>2, <1>3 DEF AmountsOf

LEMMA AmountsStay == StepsTyped' => (\A j \in Walks, i \in Indices : AmountsOf(j, i))'
BY AmountsAre, PTL

\* Each amount, as a function.
Amounts == {Sizes, Told, StepFilled, Taken, Cost, Outstanding}
LEMMA AmountsTyped == StepsTyped => \A f \in Amounts : f \in [Walks \X Indices -> Nat]
<1> SUFFICES ASSUME StepsTyped, NEW f \in Amounts PROVE f \in [Walks \X Indices -> Nat]
  OBVIOUS
<1>1. f = [p \in Walks \X Indices |-> f[p]]
  BY DEF Amounts, Sizes, Told, StepFilled, Taken, Cost, Outstanding
<1>2. ASSUME NEW p \in Walks \X Indices PROVE f[p] \in Nat
  <2>1. PICK j \in Walks, i \in Indices : p = <<j, i>>
    OBVIOUS
  <2>2. AmountsOf(j, i)
    BY AmountsAre
  <2> QED
    BY <2>1, <2>2 DEF AmountsOf, Amounts
<1> QED
  BY <1>1, <1>2

LEMMA AmountsStayTyped == StepsTyped' => (\A f \in Amounts : f \in [Walks \X Indices -> Nat])'
BY AmountsTyped, PTL

-----------------------------------------------------------------------------
(* Sums over the steps.                                                    *)

LEMMA StepsFinite ==
  ASSUME NEW S \in SUBSET Walks
  PROVE  IsFiniteSet(S) /\ IsFiniteSet(S \X Indices) /\ S \X Indices \subseteq Walks \X Indices
<1>1. IsFiniteSet(S)
  BY GateBounds, FS_Subset
<1> QED
  BY <1>1, GateBounds, FS_Product

LEMMA SumOverSteps ==
  ASSUME NEW f \in [Walks \X Indices -> Nat], NEW S \in SUBSET Walks
  PROVE  OverSteps(f, S) \in Nat
<1>1. \A p \in S \X Indices : f[p] \in Nat
  OBVIOUS
<1> QED
  BY <1>1, StepsFinite, SumOfNaturals DEF OverSteps

LEMMA SumOverStepsOrder ==
  ASSUME NEW f \in [Walks \X Indices -> Nat], NEW h \in [Walks \X Indices -> Nat],
         NEW S \in SUBSET Walks, \A j \in S, i \in Indices : f[<<j, i>>] <= h[<<j, i>>]
  PROVE  OverSteps(f, S) <= OverSteps(h, S)
<1>1. \A p \in S \X Indices : f[p] \in Int /\ h[p] \in Int
  OBVIOUS
<1>2. \A p \in S \X Indices : f[p] <= h[p]
  <2>1. ASSUME NEW p \in S \X Indices PROVE f[p] <= h[p]
    <3>1. PICK j \in S, i \in Indices : p = <<j, i>>
      OBVIOUS
    <3> QED
      BY <3>1
  <2> QED
    BY <2>1
<1> QED
  BY <1>1, <1>2, StepsFinite, SumMonotonic DEF OverSteps

\* One step changes, or none of those added up.
Gains(f, h, S, j, i) ==
  /\ f[<<j, i>>] \in Nat /\ h[<<j, i>>] \in Nat
  /\ OverSteps(f, S) \in Nat /\ OverSteps(h, S) \in Nat
  /\ OverSteps(h, S) = OverSteps(f, S) + (IF j \in S THEN h[<<j, i>>] - f[<<j, i>>] ELSE 0)

LEMMA SumOverStepsChanges ==
  ASSUME NEW f \in [Walks \X Indices -> Nat], NEW h \in [Walks \X Indices -> Nat],
         NEW S \in SUBSET Walks, NEW j \in Walks, NEW i \in Indices,
         \A k \in Walks, m \in Indices : (k # j \/ m # i) => h[<<k, m>>] = f[<<k, m>>]
  PROVE  Gains(f, h, S, j, i)
<1>0. /\ f[<<j, i>>] \in Nat /\ h[<<j, i>>] \in Nat
      /\ OverSteps(f, S) \in Nat /\ OverSteps(h, S) \in Nat
  BY SumOverSteps
<1>1. \A p \in S \X Indices : f[p] \in Int /\ h[p] \in Int
  OBVIOUS
<1>2. ASSUME NEW p \in S \X Indices, p # <<j, i>> PROVE h[p] = f[p]
  <2>1. PICK k \in S, m \in Indices : p = <<k, m>>
    OBVIOUS
  <2> QED
    BY <1>2, <2>1
<1>3. CASE j \in S
  <2>1. <<j, i>> \in S \X Indices
    BY <1>3
  <2>2. SumFunctionOnSet(h, S \X Indices)
          = SumFunctionOnSet(f, S \X Indices) + h[<<j, i>>] - f[<<j, i>>]
    BY <1>1, <1>2, <2>1, StepsFinite, SumChanges
  <2>3. SumFunctionOnSet(f, S \X Indices) \in Nat
    BY SumOverSteps DEF OverSteps
  <2>4. h[<<j, i>>] \in Nat /\ f[<<j, i>>] \in Nat
    BY <1>3
  <2> QED
    BY <1>0, <1>3, <2>2, <2>3, <2>4 DEF OverSteps, Gains
<1>4. CASE j \notin S
  <2>1. \A p \in S \X Indices : h[p] = f[p]
    BY <1>2, <1>4
  <2>2. SumFunctionOnSet(h, S \X Indices) = SumFunctionOnSet(f, S \X Indices)
    BY <1>1, <2>1, StepsFinite, SumSame
  <2>3. SumFunctionOnSet(f, S \X Indices) \in Nat
    BY SumOverSteps DEF OverSteps
  <2> QED
    BY <1>0, <1>4, <2>2, <2>3 DEF OverSteps, Gains
<1> QED
  BY <1>3, <1>4

LEMMA SumOfNoSteps ==
  ASSUME NEW f \in [Walks \X Indices -> Nat], NEW S \in SUBSET Walks,
         \A j \in S, i \in Indices : f[<<j, i>>] = 0
  PROVE  OverSteps(f, S) = 0
<1>1. \A p \in S \X Indices : f[p] = 0
  <2>1. ASSUME NEW p \in S \X Indices PROVE f[p] = 0
    <3>1. PICK j \in S, i \in Indices : p = <<j, i>>
      OBVIOUS
    <3> QED
      BY <3>1
  <2> QED
    BY <2>1
<1> QED
  BY <1>1, StepsFinite, SumOfZeros DEF OverSteps

\* A step that changes the order of one index, and what it does to the sums.
OthersStay(j, i) ==
  \A k \in Walks, m \in Indices : (k # j \/ m # i) => step'[k][m] = step[k][m]

LEMMA OneOrderChanges ==
  ASSUME StepsTyped, StepsTyped', NEW j \in Walks, NEW i \in Indices, OthersStay(j, i),
         NEW S \in SUBSET Walks
  PROVE  /\ Gains(Taken, Taken', S, j, i) /\ Gains(StepFilled, StepFilled', S, j, i)
         /\ Gains(Cost, Cost', S, j, i) /\ Gains(Outstanding, Outstanding', S, j, i)
         /\ AmountsOf(j, i) /\ AmountsOf(j, i)'
<1>1. /\ Taken \in [Walks \X Indices -> Nat] /\ StepFilled \in [Walks \X Indices -> Nat]
      /\ Cost \in [Walks \X Indices -> Nat] /\ Outstanding \in [Walks \X Indices -> Nat]
  BY AmountsTyped DEF Amounts
<1>2. /\ Taken' \in [Walks \X Indices -> Nat] /\ StepFilled' \in [Walks \X Indices -> Nat]
      /\ Cost' \in [Walks \X Indices -> Nat] /\ Outstanding' \in [Walks \X Indices -> Nat]
  BY AmountsStayTyped DEF Amounts
<1>3. \A k \in Walks, m \in Indices : AmountsOf(k, m) /\ AmountsOf(k, m)'
  BY AmountsAre, AmountsStay
<1>4. ASSUME NEW k \in Walks, NEW m \in Indices, k # j \/ m # i
      PROVE  /\ Taken'[<<k, m>>] = Taken[<<k, m>>] /\ StepFilled'[<<k, m>>] = StepFilled[<<k, m>>]
             /\ Cost'[<<k, m>>] = Cost[<<k, m>>] /\ Outstanding'[<<k, m>>] = Outstanding[<<k, m>>]
  <2>1. step'[k][m] = step[k][m]
    BY <1>4 DEF OthersStay
  <2>2. AmountsOf(k, m) /\ AmountsOf(k, m)'
    BY <1>3
  <2> QED
    BY <2>1, <2>2 DEF AmountsOf
<1>5. Gains(Taken, Taken', S, j, i)
  BY <1>1, <1>2, <1>4, SumOverStepsChanges
<1>6. Gains(StepFilled, StepFilled', S, j, i)
  BY <1>1, <1>2, <1>4, SumOverStepsChanges
<1>7. Gains(Cost, Cost', S, j, i)
  BY <1>1, <1>2, <1>4, SumOverStepsChanges
<1>8. Gains(Outstanding, Outstanding', S, j, i)
  BY <1>1, <1>2, <1>4, SumOverStepsChanges
<1> QED
  BY <1>3, <1>5, <1>6, <1>7, <1>8

\* What is spent is not negative; what a job beside this one works on is at most its debit.
LEMMA SpentIsNatural == StepsTyped => Spent \in Nat
<1> SUFFICES ASSUME StepsTyped PROVE Spent \in Nat
  OBVIOUS
<1>1. Cost \in [Walks \X Indices -> Nat] /\ Outstanding \in [Walks \X Indices -> Nat]
  BY AmountsTyped DEF Amounts
<1>2. Closes \in SUBSET Walks
  BY GateBounds
<1>3. \A j \in Closes, i \in Indices : Outstanding[<<j, i>>] <= Cost[<<j, i>>]
  BY <1>2, AmountsAre DEF AmountsOf
<1>4. OverSteps(Cost, Closes) \in Nat
  BY <1>1, <1>2, SumOverSteps
<1>5. OverSteps(Outstanding, Closes) \in Nat
  BY <1>1, <1>2, SumOverSteps
<1>6. OverSteps(Outstanding, Closes) <= OverSteps(Cost, Closes)
  BY <1>1, <1>2, <1>3, SumOverStepsOrder
<1> QED
  BY <1>4, <1>5, <1>6 DEF Spent

\* The next index of a job that has sent its first n steps.
LEMMA NextIs ==
  ASSUME NEW j \in Walks, NEW n \in 0..MaxStep, SentUpTo(j, n)
  PROVE  Sent(j) = 1..n /\ NextIndex(j) = n + 1
<1>1. Sent(j) = 1..n
  BY GateBounds DEF SentUpTo, Sent, Indices
<1>2. Cardinality(1..n) = n
  BY FS_Interval
<1> QED
  BY <1>1, <1>2 DEF NextIndex

LEMMA OneByOneStays ==
  ASSUME OneByOne, NEW j \in Walks, NEW n \in 0..MaxStep, SentUpTo(j, n)',
         \A k \in Walks \ {j} : step'[k] = step[k] /\ phase'[k] = phase[k] /\ done'[k] = done[k]
  PROVE  OneByOne'
<1>1. ASSUME NEW k \in Walks PROVE \E m \in 0..MaxStep : SentUpTo(k, m)'
  <2>1. CASE k = j
    BY <2>1
  <2>2. CASE k # j
    <3>1. PICK m \in 0..MaxStep : SentUpTo(k, m)
      BY DEF OneByOne
    <3>2. SentUpTo(k, m)'
      BY <2>2, <3>1 DEF SentUpTo, Left
    <3> QED
      BY <3>2
  <2> QED
    BY <2>1, <2>2
<1> QED
  BY <1>1 DEF OneByOne

\* A live step is that of a placed job.
LEMMA LiveIsPlaced ==
  ASSUME OneByOne, NEW j \in Walks
  PROVE  /\ Live(j) <=> phase[j] = "placed"
         /\ \A i, m \in Indices : (step[j][i].state = "live" /\ step[j][m].state = "live") => i = m
         /\ \A i \in Indices : step[j][i].state = "live" => step[j][i].size = Left(j)
<1>1. PICK n \in 0..MaxStep : SentUpTo(j, n)
  BY DEF OneByOne
<1>2. phase[j] = "placed" => n \in Indices
  BY <1>1, GateBounds DEF SentUpTo, Indices
<1> QED
  BY <1>1, <1>2 DEF SentUpTo, Live

LEMMA GateStarts ==
  ASSUME NEW r \in {"wheel", "sell", "close"}, NEW left \in SUBSET {ContractOf[j] : j \in Closes},
         GateBegins(r, left)
  PROVE  GateInv
<1>1. StepsTyped
  BY GateBounds DEF GateBegins, StepsTyped, StepRecord, NoStep
<1>2. GateTyped
  <2>1. left \subseteq Tradable
    BY GateBounds DEF Tradable
  <2>2. done \in [Walks -> Nat] /\ \A j \in Walks : done[j] <= Size[j]
    BY GateBounds DEF GateBegins
  <2>3. phase \in [Walks -> {"idle", "reserved", "walking", "funding", "placed", "over"}]
    BY DEF GateBegins
  <2>4. overtaken \in [snapshot : BOOLEAN, awaited : BOOLEAN]
    BY DEF GateBegins
  <2>5. funds \in Int /\ snapshot \in Int \cup {Unknown} /\ awaited \in Int \cup {Unknown}
    BY GateBounds DEF GateBegins
  <2> QED
    BY <2>1, <2>2, <2>3, <2>4, <2>5 DEF GateBegins, GateTyped
<1>3. \A j \in Walks, i \in Indices : step[j][i].state = "none" /\ step[j][i].filled = 0
  BY DEF GateBegins, NoStep
<1>4. OneByOne
  <2>1. ASSUME NEW j \in Walks PROVE SentUpTo(j, 0)
    <3>1. phase[j] = "idle"
      BY DEF GateBegins
    <3>2. \A i \in Indices : ~(i <= 0) /\ step[j][i].state = "none"
      BY <1>3, GateBounds DEF Indices
    <3> QED
      BY <3>1, <3>2 DEF SentUpTo
  <2> QED
    BY <2>1, GateBounds DEF OneByOne
<1>5. \A j \in Walks : ~Live(j)
  BY <1>3 DEF Live
<1>6. Covered
  BY <1>5, GateBounds DEF Covered, Funded, GateBegins
<1>7. RollsWithinFills
  <2>1. ASSUME NEW S \in SUBSET Walks
        PROVE  OverSteps(Taken, S) = 0 /\ OverSteps(StepFilled, S) = 0
    <3>1. Taken \in [Walks \X Indices -> Nat] /\ StepFilled \in [Walks \X Indices -> Nat]
      BY <1>1, AmountsTyped DEF Amounts
    <3>2. ASSUME NEW j \in S, NEW i \in Indices
          PROVE  Taken[<<j, i>>] = 0 /\ StepFilled[<<j, i>>] = 0
      <4>1. AmountsOf(j, i)
        BY <1>1, AmountsAre
      <4> QED
        BY <1>3, <4>1 DEF AmountsOf
    <3> QED
      BY <3>1, <3>2, SumOfNoSteps
  <2>2. \A key : OnKey(key) \cap Opens \in SUBSET Walks /\ OnKey(key) \ Opens \in SUBSET Walks
    BY DEF OnKey
  <2> QED
    BY <2>1, <2>2 DEF RollsWithinFills
<1>8. OpensAlone
  BY <1>5, GateBounds DEF OpensAlone
<1> QED
  BY <1>1, <1>2, <1>4, <1>6, <1>7, <1>8 DEF GateInv

-----------------------------------------------------------------------------
(* Steps that send nothing and fill nothing.                               *)

\* What the sums rest on stays, and no job goes to work or begins again.
Quiet ==
  /\ step' = step /\ done' = done /\ role' = role /\ funds' = funds /\ blind' = blind
  /\ live' \subseteq live
  /\ \A k \in Walks :
       /\ phase'[k] = "placed" <=> phase[k] = "placed"
       /\ phase'[k] = "idle" => phase[k] = "idle"
       /\ phase'[k] \in {"reserved", "walking", "funding"}
            => phase[k] \in {"idle", "reserved", "walking", "funding"}

LEMMA QuietKeeps ==
  ASSUME GateInv, Quiet, GateTyped',
         Funded(snapshot', overtaken'.snapshot), Funded(awaited', overtaken'.awaited)
  PROVE  GateInv'
<1>1. StepsTyped'
  BY DEF GateInv, StepsTyped, Quiet
<1>2. OneByOne'
  <2>1. ASSUME NEW k \in Walks PROVE \E m \in 0..MaxStep : SentUpTo(k, m)'
    <3>1. PICK m \in 0..MaxStep : SentUpTo(k, m)
      BY DEF OneByOne, GateInv
    <3>2. phase'[k] = "idle" => m = 0
      BY <3>1 DEF SentUpTo, Quiet
    <3>3. phase'[k] \in {"reserved", "walking", "funding"} => m < MaxStep
      BY <3>1, GateBounds DEF SentUpTo, Quiet
    <3>4. \A i \in Indices : step'[k][i].state = "live" => step'[k][i].size = Left(k)'
      BY <3>1 DEF SentUpTo, Quiet, Left
    <3>5. /\ \A i \in Indices : step'[k][i].state # "none" <=> i <= m
          /\ \A i \in Indices : step'[k][i].state = "live" <=> (phase'[k] = "placed" /\ i = m)
          /\ phase'[k] = "placed" => m > 0
      BY <3>1 DEF SentUpTo, Quiet
    <3>6. SentUpTo(k, m)'
      BY <3>2, <3>3, <3>4, <3>5 DEF SentUpTo
    <3> QED
      BY <3>6
  <2> QED
    BY <2>1 DEF OneByOne
<1>3. /\ Spent' = Spent /\ Taken' = Taken /\ StepFilled' = StepFilled /\ Outstanding' = Outstanding
      /\ \A k \in Walks : Live(k)' = Live(k)
  BY DEF Quiet, Spent, OverSteps, Cost, Outstanding, Taken, StepFilled, Order, Live
<1>4. Covered'
  <2>1. Funded(snapshot, overtaken.snapshot)' /\ Funded(awaited, overtaken.awaited)'
    BY <1>3 DEF Funded, Quiet
  <2>2. ((~blind /\ \E j, k \in Closes : j # k /\ Live(j) /\ Live(k)) =>
           OverSteps(Outstanding, Closes) <= funds)'
    BY <1>3, GateBounds DEF GateInv, Covered, Quiet, OverSteps
  <2> QED
    BY <2>1, <2>2 DEF Covered
<1>5. RollsWithinFills'
  BY <1>3 DEF GateInv, RollsWithinFills, Quiet, OverSteps
<1>6. OpensAlone'
  BY <1>3, GateBounds DEF GateInv, OpensAlone, Quiet
<1> QED
  BY <1>1, <1>2, <1>4, <1>5, <1>6 DEF GateInv

\* A snapshot of the funds as they are is within them.
LEMMA FundsAreWithin ==
  ASSUME GateInv, NEW late PROVE Funded(funds, late) /\ Funded(Unknown, late)
<1>1. Spent \in Nat /\ funds \in Int
  BY SpentIsNatural DEF GateInv, GateTyped
<1> QED
  BY <1>1 DEF Funded

LEMMA PhaseMoves ==
  ASSUME GateTyped, NEW j \in Walks, NEW to \in {"reserved", "walking", "funding", "over"},
         phase[j] \in {"idle", "reserved", "walking", "funding"},
         phase' = [phase EXCEPT ![j] = to]
  PROVE  /\ phase' \in [Walks -> {"idle", "reserved", "walking", "funding", "placed", "over"}]
         /\ \A k \in Walks :
              /\ phase'[k] = "placed" <=> phase[k] = "placed"
              /\ phase'[k] = "idle" => phase[k] = "idle"
              /\ phase'[k] \in {"reserved", "walking", "funding"}
                   => phase[k] \in {"idle", "reserved", "walking", "funding"}
BY DEF GateTyped

LEMMA JobStepsKeep ==
  ASSUME GateInv, NEW j \in Walks, Admit(j) \/ Start(j) \/ AskFunds(j) \/ End(j)
  PROVE  GateInv'
<1>1. GateTyped
  BY DEF GateInv
<1>2. PICK to \in {"reserved", "walking", "funding", "over"} :
        /\ phase' = [phase EXCEPT ![j] = to]
        /\ phase[j] \in {"idle", "reserved", "walking", "funding"}
  BY DEF Admit, Start, AskFunds, End
<1>3. /\ phase' \in [Walks -> {"idle", "reserved", "walking", "funding", "placed", "over"}]
      /\ \A k \in Walks :
              /\ phase'[k] = "placed" <=> phase[k] = "placed"
              /\ phase'[k] = "idle" => phase[k] = "idle"
              /\ phase'[k] \in {"reserved", "walking", "funding"}
                   => phase[k] \in {"idle", "reserved", "walking", "funding"}
  BY <1>1, <1>2, PhaseMoves
<1>4. /\ UNCHANGED <<role, leftover, live, validated, done, step, funds, snapshot, aged, blind>>
      /\ \/ UNCHANGED <<awaited, overtaken>>
         \/ awaited' = funds /\ overtaken' = [overtaken EXCEPT !.awaited = FALSE]
  BY DEF Admit, Start, AskFunds, End, books
<1>5. Quiet
  BY <1>3, <1>4 DEF Quiet
<1>6. overtaken' \in [snapshot : BOOLEAN, awaited : BOOLEAN] /\ overtaken'.snapshot = overtaken.snapshot
  BY <1>1, <1>4 DEF GateTyped
<1>7. GateTyped'
  BY <1>1, <1>3, <1>4, <1>6 DEF GateTyped
<1>8. Funded(snapshot', overtaken'.snapshot)
  BY <1>4, <1>6 DEF GateInv, Covered
<1>9. Funded(awaited', overtaken'.awaited)
  <2>1. CASE UNCHANGED <<awaited, overtaken>>
    BY <2>1 DEF GateInv, Covered
  <2>2. CASE awaited' = funds
    BY <2>2, FundsAreWithin
  <2> QED
    BY <1>4, <2>1, <2>2
<1> QED
  BY <1>5, <1>7, <1>8, <1>9, QuietKeeps

LEMMA ReadsKeep ==
  ASSUME GateInv,
         ReadsAccount \/ AccountAges \/ ReadsInstruments \/ \E o \in Tradable : LeftoverEnds(o)
  PROVE  GateInv'
<1>1. GateTyped
  BY DEF GateInv
<1>2. /\ UNCHANGED <<role, phase, done, step, funds, awaited, blind>>
      /\ live' \subseteq live
  BY DEF ReadsAccount, AccountAges, ReadsInstruments, LeftoverEnds, books
<1>3. Quiet
  BY <1>2 DEF Quiet
<1>4. /\ live' \subseteq leftover' /\ leftover' \subseteq Tradable /\ validated' \subseteq Tradable
  BY <1>1 DEF ReadsAccount, AccountAges, ReadsInstruments, LeftoverEnds, books, GateTyped
<1>5. /\ aged' \in BOOLEAN
      /\ overtaken' \in [snapshot : BOOLEAN, awaited : BOOLEAN]
      /\ overtaken'.awaited = overtaken.awaited
      /\ snapshot' \in Int \cup {Unknown}
  BY <1>1 DEF ReadsAccount, AccountAges, ReadsInstruments, LeftoverEnds, books, GateTyped
<1>6. GateTyped'
  BY <1>1, <1>2, <1>4, <1>5 DEF GateTyped
<1>7. snapshot' = funds \/ (snapshot' = snapshot /\ overtaken' = overtaken)
  BY DEF ReadsAccount, AccountAges, ReadsInstruments, LeftoverEnds
<1>8. Funded(snapshot', overtaken'.snapshot)
  BY <1>7, FundsAreWithin DEF GateInv, Covered
<1>9. Funded(awaited', overtaken'.awaited)
  BY <1>2, <1>5 DEF GateInv, Covered
<1> QED
  BY <1>3, <1>6, <1>8, <1>9, QuietKeeps

-----------------------------------------------------------------------------
(* Fills, and what is learnt of them.                                      *)

\* The order of one step of a job that works on it.
LEMMA WorkingStep ==
  ASSUME GateInv, NEW j \in Walks, NEW i \in Indices, step[j][i].state = "live"
  PROVE  /\ phase[j] = "placed" /\ Live(j) /\ step[j][i].size = Left(j)
         /\ SentUpTo(j, i) /\ step[j][i] \in StepRecord
         /\ \A m \in Indices : step[j][m].state = "live" => m = i
<1>1. PICK n \in 0..MaxStep : SentUpTo(j, n)
  BY DEF GateInv, OneByOne
<1>2. phase[j] = "placed" /\ i = n /\ step[j][i].size = Left(j)
  BY <1>1 DEF SentUpTo
<1> QED
  BY <1>1, <1>2 DEF SentUpTo, Live, GateInv, StepsTyped

LEMMA FillKeeps ==
  ASSUME GateInv, NEW j \in Walks, NEW i \in Indices, Fill(j, i)
  PROVE  GateInv'
<1> DEFINE r == step[j][i]
<1>0. /\ r \in StepRecord /\ r.size = Left(j) /\ r.state = "live" /\ r.filled < r.size
      /\ StepsTyped /\ GateTyped /\ SentUpTo(j, i)
  BY WorkingStep DEF Fill, GateInv
<1>1. /\ OthersStay(j, i)
      /\ step'[j][i] = [r EXCEPT !.filled = @ + 1]
      /\ step' \in [Walks -> [Indices -> StepRecord]]
      /\ \A k \in Walks \ {j} : step'[k] = step[k]
  <2>1. [r EXCEPT !.filled = @ + 1] \in StepRecord
    BY <1>0 DEF StepRecord
  <2>2. step' = [step EXCEPT ![j] = [step[j] EXCEPT ![i] = [r EXCEPT !.filled = @ + 1]]]
    BY DEF Fill
  <2> QED
    BY <1>0, <2>1, <2>2 DEF OthersStay, StepsTyped
<1>2. /\ step'[j][i].state = "live" /\ step'[j][i].size = r.size /\ step'[j][i].price = r.price
      /\ step'[j][i].filled = r.filled + 1 /\ step'[j][i].told = r.told
  BY <1>0, <1>1 DEF StepRecord
<1>3. UNCHANGED <<role, leftover, live, validated, phase, done, snapshot, aged, awaited, overtaken, blind>>
  BY DEF Fill, books
<1>4. r.size \in Nat /\ r.price \in Nat /\ r.filled \in Nat /\ r.told \in Nat /\ r.told <= r.filled
  BY <1>0 DEF StepRecord, StepsTyped
<1>5. StepsTyped'
  <2>1. ASSUME NEW k \in Walks, NEW m \in Indices
        PROVE  /\ step'[k][m].told <= step'[k][m].filled
               /\ step'[k][m].filled <= step'[k][m].size
               /\ step'[k][m].price <= Worst[k]
               /\ step'[k][m].state = "none" => step'[k][m].size = 0
    <3>1. CASE k = j /\ m = i
      BY <1>0, <1>2, <1>4, <3>1 DEF StepsTyped
    <3>2. CASE k # j \/ m # i
      BY <1>0, <1>1, <3>2 DEF StepsTyped, OthersStay
    <3> QED
      BY <3>1, <3>2
  <2> QED
    BY <1>1, <2>1 DEF StepsTyped
<1>6. funds' = IF j \in Opens THEN funds ELSE funds - r.price
  BY DEF Fill
<1>7. GateTyped'
  <2>1. funds' \in Int
    BY <1>0, <1>4, <1>6 DEF GateTyped
  <2> QED
    BY <1>0, <1>3, <2>1 DEF GateTyped
<1>8. OneByOne'
  <2>1. SentUpTo(j, i)'
    <3>1. \A m \in Indices : step'[j][m].state = step[j][m].state /\ step'[j][m].size = step[j][m].size
      BY <1>0, <1>1, <1>2 DEF OthersStay
    <3> QED
      BY <1>0, <1>3, <3>1 DEF SentUpTo, Left
  <2>2. i \in 0..MaxStep
    BY GateBounds DEF Indices
  <2> QED
    BY <1>1, <1>3, <2>1, <2>2, OneByOneStays DEF GateInv
<1>9. ASSUME NEW S \in SUBSET Walks
      PROVE  /\ OverSteps(Taken, S)' = OverSteps(Taken, S)
             /\ OverSteps(StepFilled, S)' = OverSteps(StepFilled, S) + IF j \in S THEN 1 ELSE 0
             /\ OverSteps(Cost, S)' = OverSteps(Cost, S)
             /\ OverSteps(Outstanding, S)' = OverSteps(Outstanding, S) - IF j \in S THEN r.price ELSE 0
             /\ OverSteps(StepFilled, S) \in Nat /\ OverSteps(Taken, S) \in Nat
             /\ OverSteps(Cost, S) \in Nat /\ OverSteps(Outstanding, S) \in Nat
  <2>1. /\ Gains(Taken, Taken', S, j, i) /\ Gains(StepFilled, StepFilled', S, j, i)
        /\ Gains(Cost, Cost', S, j, i) /\ Gains(Outstanding, Outstanding', S, j, i)
        /\ AmountsOf(j, i) /\ AmountsOf(j, i)'
    BY <1>0, <1>1, <1>5, OneOrderChanges
  <2>2. /\ Taken'[<<j, i>>] = Taken[<<j, i>>] /\ Cost'[<<j, i>>] = Cost[<<j, i>>]
        /\ StepFilled'[<<j, i>>] = StepFilled[<<j, i>>] + 1
    BY <1>0, <1>2, <1>4, <2>1 DEF AmountsOf
  <2>3. Outstanding'[<<j, i>>] = Outstanding[<<j, i>>] - r.price
    <3>1. (r.size - (r.filled + 1)) * r.price = (r.size - r.filled) * r.price - r.price
      BY <1>4
    <3>2. /\ Outstanding'[<<j, i>>] = (r.size - (r.filled + 1)) * r.price
          /\ Outstanding[<<j, i>>] = (r.size - r.filled) * r.price
      BY <1>0, <1>2, <2>1 DEF AmountsOf
    <3> QED
      BY <3>1, <3>2
  <2>4. /\ OverSteps(Taken, S)' = OverSteps(Taken', S)
        /\ OverSteps(StepFilled, S)' = OverSteps(StepFilled', S)
        /\ OverSteps(Cost, S)' = OverSteps(Cost', S)
        /\ OverSteps(Outstanding, S)' = OverSteps(Outstanding', S)
    BY DEF OverSteps
  <2>5. OverSteps(Taken', S) = OverSteps(Taken, S) /\ OverSteps(Cost', S) = OverSteps(Cost, S)
    BY <2>1, <2>2 DEF Gains
  <2>6. OverSteps(StepFilled', S) = OverSteps(StepFilled, S) + IF j \in S THEN 1 ELSE 0
    BY <2>1, <2>2 DEF Gains
  <2>7. OverSteps(Outstanding', S) = OverSteps(Outstanding, S) - IF j \in S THEN r.price ELSE 0
    BY <1>4, <2>1, <2>3 DEF Gains
  <2> QED
    BY <2>1, <2>4, <2>5, <2>6, <2>7 DEF Gains
<1>10. Spent' = Spent + IF j \in Opens THEN 0 ELSE r.price
  BY <1>4, <1>9, GateBounds DEF Spent, Closes
<1>11. \A k \in Walks : Live(k)' = Live(k)
  <2>1. \A k \in Walks, m \in Indices : step'[k][m].state = step[k][m].state
    BY <1>0, <1>1, <1>2 DEF OthersStay
  <2> QED
    BY <2>1 DEF Live
<1>12. Covered'
  <2>1. Spent \in Nat /\ funds \in Int /\ funds' + Spent' = funds + Spent
    BY <1>0, <1>4, <1>6, <1>10, SpentIsNatural DEF GateTyped
  <2>2. Funded(snapshot, overtaken.snapshot)' /\ Funded(awaited, overtaken.awaited)'
    BY <1>3, <2>1 DEF Funded, Covered, GateInv
  <2>3. ((~blind /\ \E k, m \in Closes : k # m /\ Live(k) /\ Live(m)) =>
           OverSteps(Outstanding, Closes) <= funds)'
    <3>1. OverSteps(Outstanding, Closes)' <= funds' <=> OverSteps(Outstanding, Closes) <= funds
      BY <1>0, <1>4, <1>6, <1>9, GateBounds DEF GateTyped, Closes
    <3> QED
      BY <1>3, <1>11, <3>1, GateBounds DEF GateInv, Covered
  <2> QED
    BY <2>2, <2>3 DEF Covered
<1>13. RollsWithinFills'
  <2>1. ASSUME role = "close", NEW key \in {RollKey[o] : o \in Tradable}
        PROVE  OverSteps(Taken, OnKey(key) \cap Opens)' <= OverSteps(StepFilled, OnKey(key) \ Opens)'
    <3>1. OnKey(key) \cap Opens \in SUBSET Walks /\ OnKey(key) \ Opens \in SUBSET Walks
      BY DEF OnKey
    <3>2. OverSteps(Taken, OnKey(key) \cap Opens) <= OverSteps(StepFilled, OnKey(key) \ Opens)
      BY <2>1 DEF GateInv, RollsWithinFills
    <3>3. OverSteps(Taken, OnKey(key) \cap Opens)' = OverSteps(Taken, OnKey(key) \cap Opens)
      BY <1>9, <3>1
    <3>4. /\ OverSteps(StepFilled, OnKey(key) \ Opens)' >= OverSteps(StepFilled, OnKey(key) \ Opens)
          /\ OverSteps(StepFilled, OnKey(key) \ Opens)' \in Nat
          /\ OverSteps(StepFilled, OnKey(key) \ Opens) \in Nat
      BY <1>9, <3>1
    <3>5. OverSteps(Taken, OnKey(key) \cap Opens) \in Nat
      BY <1>9, <3>1
    <3> QED
      BY <3>2, <3>3, <3>4, <3>5
  <2> QED
    BY <1>3, <2>1 DEF RollsWithinFills, OverSteps
<1>14. OpensAlone'
  BY <1>3, <1>11, GateBounds DEF GateInv, OpensAlone
<1> QED
  BY <1>5, <1>7, <1>8, <1>12, <1>13, <1>14 DEF GateInv

LEMMA ReadFillsKeeps ==
  ASSUME GateInv, NEW j \in Walks, NEW i \in Indices, ReadFills(j, i)
  PROVE  GateInv'
<1> DEFINE r == step[j][i]
<1>0. /\ r \in StepRecord /\ r.size = Left(j) /\ r.state = "live"
      /\ StepsTyped /\ GateTyped /\ SentUpTo(j, i)
  BY WorkingStep DEF ReadFills, GateInv
<1>1. /\ OthersStay(j, i)
      /\ step'[j][i] = [r EXCEPT !.told = r.filled]
      /\ step' \in [Walks -> [Indices -> StepRecord]]
      /\ \A k \in Walks \ {j} : step'[k] = step[k]
  <2>1. [r EXCEPT !.told = r.filled] \in StepRecord
    BY <1>0 DEF StepRecord
  <2>2. step' = [step EXCEPT ![j] = [step[j] EXCEPT ![i] = [r EXCEPT !.told = r.filled]]]
    BY DEF ReadFills
  <2> QED
    BY <1>0, <2>1, <2>2 DEF OthersStay, StepsTyped
<1>2. /\ step'[j][i].state = "live" /\ step'[j][i].size = r.size /\ step'[j][i].price = r.price
      /\ step'[j][i].filled = r.filled /\ step'[j][i].told = r.filled
  BY <1>0, <1>1 DEF StepRecord
<1>3. UNCHANGED <<role, leftover, live, validated, phase, done, funds, snapshot, aged, awaited,
                  overtaken, blind>>
  BY DEF ReadFills, books
<1>4. \A k \in Walks, m \in Indices :
        /\ step'[k][m].state = step[k][m].state /\ step'[k][m].size = step[k][m].size
        /\ step'[k][m].price = step[k][m].price /\ step'[k][m].filled = step[k][m].filled
  BY <1>0, <1>1, <1>2 DEF OthersStay
<1>5. StepsTyped'
  <2>1. ASSUME NEW k \in Walks, NEW m \in Indices PROVE step'[k][m].told <= step'[k][m].filled
    <3>1. CASE k = j /\ m = i
      BY <1>0, <1>2, <3>1 DEF StepRecord
    <3>2. CASE k # j \/ m # i
      BY <1>0, <1>1, <3>2 DEF StepsTyped, OthersStay
    <3> QED
      BY <3>1, <3>2
  <2> QED
    BY <1>0, <1>1, <1>4, <2>1 DEF StepsTyped
<1>6. GateTyped'
  BY <1>0, <1>3 DEF GateTyped
<1>7. OneByOne'
  <2>1. SentUpTo(j, i)'
    BY <1>0, <1>3, <1>4 DEF SentUpTo, Left
  <2>2. i \in 0..MaxStep
    BY GateBounds DEF Indices
  <2> QED
    BY <1>1, <1>3, <2>1, <2>2, OneByOneStays DEF GateInv
<1>8. /\ Taken' = Taken /\ StepFilled' = StepFilled /\ Cost' = Cost /\ Outstanding' = Outstanding
      /\ \A k \in Walks : Live(k)' = Live(k)
  <2>1. ASSUME NEW p \in Walks \X Indices
        PROVE  /\ Order(p)'.state = Order(p).state /\ Order(p)'.size = Order(p).size
               /\ Order(p)'.price = Order(p).price /\ Order(p)'.filled = Order(p).filled
    BY <1>4 DEF Order
  <2>2. Taken' = Taken /\ StepFilled' = StepFilled
    BY <2>1 DEF Taken, StepFilled
  <2>3. Cost' = Cost /\ Outstanding' = Outstanding
    BY <2>1 DEF Cost, Outstanding
  <2> QED
    BY <1>4, <2>2, <2>3 DEF Live
<1>9. Spent' = Spent
  BY <1>8 DEF Spent, OverSteps
<1>10. Covered'
  <2>1. Funded(snapshot, overtaken.snapshot)' /\ Funded(awaited, overtaken.awaited)'
    BY <1>3, <1>9 DEF Funded, Covered, GateInv
  <2> QED
    BY <1>3, <1>8, <2>1, GateBounds DEF Covered, GateInv, OverSteps
<1>11. RollsWithinFills'
  BY <1>3, <1>8 DEF GateInv, RollsWithinFills, OverSteps
<1>12. OpensAlone'
  BY <1>3, <1>8, GateBounds DEF GateInv, OpensAlone
<1> QED
  BY <1>5, <1>6, <1>7, <1>10, <1>11, <1>12 DEF GateInv

LEMMA SettleKeeps ==
  ASSUME GateInv, NEW j \in Walks, NEW i \in Indices, Settle(j, i)
  PROVE  GateInv'
<1> DEFINE r == step[j][i]
           over == [r EXCEPT !.state = "over", !.told = r.filled]
<1>0. /\ r \in StepRecord /\ r.size = Left(j) /\ r.state = "live" /\ phase[j] = "placed"
      /\ StepsTyped /\ GateTyped /\ SentUpTo(j, i) /\ i \in 0..MaxStep
  BY WorkingStep, GateBounds DEF Settle, GateInv, Indices
<1>1. /\ OthersStay(j, i)
      /\ step'[j][i] = over
      /\ step' \in [Walks -> [Indices -> StepRecord]]
      /\ \A k \in Walks \ {j} : step'[k] = step[k]
  <2>1. over \in StepRecord
    BY <1>0 DEF StepRecord
  <2>2. step' = [step EXCEPT ![j] = [step[j] EXCEPT ![i] = over]]
    BY DEF Settle
  <2> QED
    BY <1>0, <2>1, <2>2 DEF OthersStay, StepsTyped
<1>2. /\ step'[j][i].state = "over" /\ step'[j][i].size = r.size /\ step'[j][i].price = r.price
      /\ step'[j][i].filled = r.filled /\ step'[j][i].told = r.filled
  BY <1>0, <1>1 DEF StepRecord
<1>3. UNCHANGED <<role, leftover, live, validated, funds, snapshot, aged, awaited, blind>>
  BY DEF Settle, books
<1>4. /\ r.size \in Nat /\ r.price \in Nat /\ r.filled \in Nat
      /\ r.filled <= r.size /\ r.price <= Worst[j]
  BY <1>0 DEF StepRecord, StepsTyped
<1>5. StepsTyped'
  <2>1. ASSUME NEW k \in Walks, NEW m \in Indices
        PROVE  /\ step'[k][m].told <= step'[k][m].filled
               /\ step'[k][m].filled <= step'[k][m].size
               /\ step'[k][m].price <= Worst[k]
               /\ step'[k][m].state = "none" => step'[k][m].size = 0
    <3>1. CASE k = j /\ m = i
      BY <1>2, <1>4, <3>1
    <3>2. CASE k # j \/ m # i
      BY <1>0, <1>1, <3>2 DEF StepsTyped, OthersStay
    <3> QED
      BY <3>1, <3>2
  <2> QED
    BY <1>1, <2>1 DEF StepsTyped
<1>6. /\ done' \in [Walks -> Nat] /\ done'[j] = done[j] + r.filled /\ done'[j] <= Size[j]
      /\ \A k \in Walks \ {j} : done'[k] = done[k]
  <2>1. done[j] \in Nat /\ Size[j] \in Nat /\ r.size = Size[j] - done[j]
    BY <1>0, GateBounds DEF GateTyped, Left
  <2>2. done[j] + r.filled \in Nat /\ done[j] + r.filled <= Size[j]
    BY <1>4, <2>1
  <2>3. done' = [done EXCEPT ![j] = @ + r.filled]
    BY DEF Settle
  <2>4. done'[j] = done[j] + r.filled
    BY <1>0, <2>3 DEF GateTyped
  <2> QED
    BY <1>0, <2>2, <2>3, <2>4 DEF GateTyped
<1>7. NextIndex(j) = i + 1
  BY <1>0, NextIs
<1>8. PICK to \in {"walking", "over"} :
        phase' = [phase EXCEPT ![j] = to] /\ (to = "walking" => i + 1 \in Indices)
  BY <1>7 DEF Settle
<1>9. GateTyped'
  <2>1. \A k \in Walks : done'[k] <= Size[k]
    BY <1>0, <1>6 DEF GateTyped
  <2>2. phase' \in [Walks -> {"idle", "reserved", "walking", "funding", "placed", "over"}]
    BY <1>0, <1>8 DEF GateTyped
  <2>3. overtaken' \in [snapshot : BOOLEAN, awaited : BOOLEAN]
    BY <1>0 DEF GateTyped, Settle
  <2> QED
    BY <1>0, <1>3, <1>6, <2>1, <2>2, <2>3 DEF GateTyped
<1>10. OneByOne'
  <2>1. phase'[j] \in {"walking", "over"} /\ \A k \in Walks \ {j} : phase'[k] = phase[k]
    BY <1>0, <1>8 DEF GateTyped
  <2>2. \A m \in Indices : step'[j][m].state # "none" <=> m <= i
    <3>1. \A m \in Indices : m # i => step'[j][m] = step[j][m]
      BY <1>1 DEF OthersStay
    <3> QED
      BY <1>0, <1>2, <3>1 DEF SentUpTo
  <2>3. \A m \in Indices : step'[j][m].state # "live"
    <3>1. \A m \in Indices : m # i => step'[j][m] = step[j][m]
      BY <1>1 DEF OthersStay
    <3> QED
      BY <1>0, <1>2, <3>1 DEF SentUpTo
  <2>4. phase'[j] = "walking" => i < MaxStep
    BY <1>0, <1>8, GateBounds DEF GateTyped, Indices
  <2>5. SentUpTo(j, i)'
    BY <2>1, <2>2, <2>3, <2>4 DEF SentUpTo
  <2> QED
    BY <1>0, <1>1, <1>6, <2>1, <2>5, OneByOneStays DEF GateInv
<1>11. ASSUME NEW S \in SUBSET Walks
       PROVE  /\ OverSteps(Taken, S)' <= OverSteps(Taken, S)
              /\ OverSteps(StepFilled, S)' = OverSteps(StepFilled, S)
              /\ OverSteps(Cost, S)' =
                   OverSteps(Cost, S) - IF j \in S THEN r.size * r.price ELSE 0
              /\ OverSteps(Outstanding, S)' =
                   OverSteps(Outstanding, S) - IF j \in S THEN (r.size - r.filled) * r.price ELSE 0
              /\ OverSteps(StepFilled, S) \in Nat
              /\ OverSteps(Taken, S) \in Nat /\ OverSteps(Taken, S)' \in Nat
              /\ OverSteps(Cost, S) \in Nat /\ OverSteps(Outstanding, S) \in Nat
  <2>1. /\ Gains(Taken, Taken', S, j, i) /\ Gains(StepFilled, StepFilled', S, j, i)
        /\ Gains(Cost, Cost', S, j, i) /\ Gains(Outstanding, Outstanding', S, j, i)
        /\ AmountsOf(j, i) /\ AmountsOf(j, i)'
    BY <1>0, <1>1, <1>5, OneOrderChanges
  <2>2. /\ Taken[<<j, i>>] = r.size /\ Taken'[<<j, i>>] = r.filled
        /\ StepFilled'[<<j, i>>] = StepFilled[<<j, i>>]
    BY <1>0, <1>2, <2>1 DEF AmountsOf
  <2>3. /\ Cost[<<j, i>>] = r.size * r.price /\ Cost'[<<j, i>>] = 0
        /\ Outstanding[<<j, i>>] = (r.size - r.filled) * r.price /\ Outstanding'[<<j, i>>] = 0
    BY <1>0, <1>2, <2>1 DEF AmountsOf
  <2>4. /\ OverSteps(Taken, S)' = OverSteps(Taken', S)
        /\ OverSteps(StepFilled, S)' = OverSteps(StepFilled', S)
        /\ OverSteps(Cost, S)' = OverSteps(Cost', S)
        /\ OverSteps(Outstanding, S)' = OverSteps(Outstanding', S)
    BY DEF OverSteps
  <2>5. OverSteps(Taken', S) <= OverSteps(Taken, S)
    BY <1>4, <2>1, <2>2 DEF Gains
  <2>6. OverSteps(StepFilled', S) = OverSteps(StepFilled, S)
    BY <2>1, <2>2 DEF Gains
  <2>7. OverSteps(Cost', S) = OverSteps(Cost, S) - IF j \in S THEN r.size * r.price ELSE 0
    BY <2>1, <2>3 DEF Gains
  <2>8. OverSteps(Outstanding', S) =
          OverSteps(Outstanding, S) - IF j \in S THEN (r.size - r.filled) * r.price ELSE 0
    BY <2>1, <2>3 DEF Gains
  <2> QED
    BY <2>1, <2>4, <2>5, <2>6, <2>7, <2>8 DEF Gains
<1>12. r.size * r.price \in Nat /\ (r.size - r.filled) * r.price \in Nat
  <2>1. r.size - r.filled \in Nat
    BY <1>4
  <2> QED
    BY <1>4, <2>1
<1>13. (r.filled = 0 \/ j \in Opens) => Spent' = Spent
  <2>1. Closes \in SUBSET Walks
    BY GateBounds
  <2>2. CASE j \in Opens
    BY <1>11, <2>1, <2>2 DEF Spent, Closes
  <2>3. CASE r.filled = 0
    <3>1. (r.size - r.filled) * r.price = r.size * r.price
      BY <1>4, <2>3
    <3> HIDE DEF r
    <3> QED
      BY <1>11, <1>12, <2>1, <3>1 DEF Spent
  <2> QED
    BY <2>2, <2>3
<1>14. \A k \in Walks : Live(k)' => Live(k)
  <2>1. \A k \in Walks, m \in Indices : step'[k][m].state = "live" => step[k][m].state = "live"
    BY <1>0, <1>1, <1>2 DEF OthersStay
  <2> QED
    BY <2>1 DEF Live
<1>15. Covered'
  <2>1. Funded(snapshot, overtaken.snapshot)' /\ Funded(awaited, overtaken.awaited)'
    <3>1. CASE r.filled > 0 /\ j \notin Opens
      <4>1. overtaken'.snapshot /\ overtaken'.awaited
        BY <3>1 DEF Settle
      <4> QED
        BY <4>1 DEF Funded
    <3>2. CASE ~(r.filled > 0 /\ j \notin Opens)
      <4>1. r.filled = 0 \/ j \in Opens
        BY <1>4, <3>2
      <4>2. Spent' = Spent /\ overtaken' = overtaken
        BY <1>13, <3>2, <4>1 DEF Settle
      <4> QED
        BY <1>3, <4>2 DEF Funded, Covered, GateInv
    <3> QED
      BY <3>1, <3>2
  <2>2. ((~blind /\ \E k, m \in Closes : k # m /\ Live(k) /\ Live(m)) =>
           OverSteps(Outstanding, Closes) <= funds)'
    <3>1. /\ OverSteps(Outstanding, Closes)' <= OverSteps(Outstanding, Closes)
          /\ OverSteps(Outstanding, Closes)' \in Int /\ OverSteps(Outstanding, Closes) \in Int
      <4> HIDE DEF r
      <4> QED
        BY <1>11, <1>12, GateBounds
    <3>2. (~blind /\ \E k, m \in Closes : k # m /\ Live(k) /\ Live(m)) =>
            OverSteps(Outstanding, Closes) <= funds
      BY DEF GateInv, Covered
    <3>3. funds \in Int /\ funds' = funds /\ blind' = blind
      BY <1>0, <1>3 DEF GateTyped
    <3>4. (\E k, m \in Closes : k # m /\ Live(k)' /\ Live(m)') =>
            \E k, m \in Closes : k # m /\ Live(k) /\ Live(m)
      BY <1>14, GateBounds
    <3> QED
      BY <3>1, <3>2, <3>3, <3>4
  <2> QED
    BY <2>1, <2>2 DEF Covered
<1>16. RollsWithinFills'
  <2>1. ASSUME role = "close", NEW key \in {RollKey[o] : o \in Tradable}
        PROVE  OverSteps(Taken, OnKey(key) \cap Opens)' <= OverSteps(StepFilled, OnKey(key) \ Opens)'
    <3>1. OnKey(key) \cap Opens \in SUBSET Walks /\ OnKey(key) \ Opens \in SUBSET Walks
      BY DEF OnKey
    <3>2. OverSteps(Taken, OnKey(key) \cap Opens) <= OverSteps(StepFilled, OnKey(key) \ Opens)
      BY <2>1 DEF GateInv, RollsWithinFills
    <3>3. /\ OverSteps(Taken, OnKey(key) \cap Opens)' <= OverSteps(Taken, OnKey(key) \cap Opens)
          /\ OverSteps(Taken, OnKey(key) \cap Opens)' \in Nat
          /\ OverSteps(Taken, OnKey(key) \cap Opens) \in Nat
      BY <1>11, <3>1
    <3>4. /\ OverSteps(StepFilled, OnKey(key) \ Opens)' = OverSteps(StepFilled, OnKey(key) \ Opens)
          /\ OverSteps(StepFilled, OnKey(key) \ Opens) \in Nat
      BY <1>11, <3>1
    <3> QED
      BY <3>2, <3>3, <3>4
  <2> QED
    BY <1>3, <2>1 DEF RollsWithinFills, OverSteps
<1>17. OpensAlone'
  BY <1>3, <1>14, GateBounds DEF GateInv, OpensAlone
<1> QED
  BY <1>5, <1>9, <1>10, <1>15, <1>16, <1>17 DEF GateInv

-----------------------------------------------------------------------------
(* A placement beside other closes: what they work on is within what they  *)
(* are debited.                                                            *)

LEMMA LeftIsNatural == GateTyped => \A k \in Walks : Left(k) \in Nat /\ Worst[k] * Left(k) \in Nat
<1> SUFFICES ASSUME GateTyped, NEW k \in Walks PROVE Left(k) \in Nat /\ Worst[k] * Left(k) \in Nat
  OBVIOUS
<1>1. done[k] \in Nat /\ done[k] <= Size[k] /\ Size[k] \in Nat /\ Worst[k] \in Nat
  BY GateBounds DEF GateTyped
<1>2. Left(k) \in Nat
  BY <1>1 DEF Left
<1> QED
  BY <1>1, <1>2

Row(k) == SumFunctionOnSet(Cost, {k} \X Indices)

\* One order of a job works at a time, on what is left of it and at most at its worst price.
LEMMA RowIsWithin ==
  ASSUME GateInv, NEW k \in Walks
  PROVE  Row(k) \in Int /\ Row(k) <= Worst[k] * Left(k)
<1>1. Cost \in [Walks \X Indices -> Nat]
  BY AmountsTyped DEF GateInv, Amounts
<1>2. IsFiniteSet({k} \X Indices) /\ \A p \in {k} \X Indices : Cost[p] \in Int
  <2>1. {k} \in SUBSET Walks
    OBVIOUS
  <2>2. IsFiniteSet({k} \X Indices)
    BY <2>1, StepsFinite
  <2>3. \A p \in {k} \X Indices : Cost[p] \in Int
    BY <1>1
  <2> QED
    BY <2>2, <2>3
<1>3. Left(k) \in Nat /\ Worst[k] * Left(k) \in Nat
  BY LeftIsNatural DEF GateInv
<1>4. Row(k) \in Int
  BY <1>2, SumIs DEF Row
<1>5. CASE \E i \in Indices : step[k][i].state = "live"
  <2>1. PICK i \in Indices : step[k][i].state = "live"
    BY <1>5
  <2>2. /\ AmountsOf(k, i) /\ step[k][i].size = Left(k)
        /\ step[k][i].price \in Nat /\ step[k][i].price <= Worst[k] /\ Worst[k] \in Nat
        /\ \A m \in Indices : step[k][m].state = "live" => m = i
    BY <2>1, WorkingStep, AmountsAre, GateBounds DEF GateInv, StepsTyped, StepRecord
  <2>3. \A p \in ({k} \X Indices) \ {<<k, i>>} : Cost[p] = 0
    <3>1. ASSUME NEW p \in ({k} \X Indices) \ {<<k, i>>} PROVE Cost[p] = 0
      <4>1. PICK m \in Indices : p = <<k, m>> /\ m # i
        BY <3>1
      <4>2. step[k][m].state # "live" /\ AmountsOf(k, m)
        BY <2>2, <4>1, AmountsAre DEF GateInv
      <4> QED
        BY <4>1, <4>2 DEF AmountsOf
    <3> QED
      BY <3>1
  <2>4. {<<k, i>>} \in SUBSET ({k} \X Indices)
    OBVIOUS
  <2>5. Row(k) = SumFunctionOnSet(Cost, {<<k, i>>})
    BY <1>2, <2>3, <2>4, SumWithin DEF Row
  <2>6. SumFunctionOnSet(Cost, {<<k, i>>}) = Cost[<<k, i>>]
    <3>1. IsFiniteSet({<<k, i>>}) /\ \A p \in {<<k, i>>} : Cost[p] \in Int
      BY <1>2, <2>4, FS_Subset
    <3>2. SumFunctionOnSet(Cost, {<<k, i>>})
            = Cost[<<k, i>>] + SumFunctionOnSet(Cost, {<<k, i>>} \ {<<k, i>>})
      BY <3>1, SumIs
    <3>3. {<<k, i>>} \ {<<k, i>>} = {}
      OBVIOUS
    <3>4. SumFunctionOnSet(Cost, {}) = 0
      BY <3>1, SumIs
    <3>5. Cost[<<k, i>>] \in Int
      BY <3>1
    <3> QED
      BY <3>2, <3>3, <3>4, <3>5
  <2>7. Cost[<<k, i>>] = Left(k) * step[k][i].price
    BY <2>1, <2>2 DEF AmountsOf
  <2>8. Left(k) * step[k][i].price <= Worst[k] * Left(k)
    BY <1>3, <2>2
  <2> QED
    BY <1>4, <2>5, <2>6, <2>7, <2>8
<1>6. CASE \A i \in Indices : step[k][i].state # "live"
  <2>1. \A p \in {k} \X Indices : Cost[p] = 0
    <3>1. ASSUME NEW p \in {k} \X Indices PROVE Cost[p] = 0
      <4>1. PICK m \in Indices : p = <<k, m>>
        OBVIOUS
      <4>2. AmountsOf(k, m) /\ step[k][m].state # "live"
        BY <1>6, AmountsAre DEF GateInv
      <4> QED
        BY <4>1, <4>2 DEF AmountsOf
    <3> QED
      BY <3>1
  <2>2. Row(k) = 0
    BY <1>2, <2>1, SumOfZeros DEF Row
  <2> QED
    BY <1>3, <2>2
<1> QED
  BY <1>5, <1>6

DebitBeside(j) == SumFunctionOnSet([k \in Walks |-> Worst[k] * Left(k)], ActiveBeside(j))

LEMMA CostIsDebited ==
  ASSUME GateInv, NEW j \in Walks, phase[j] # "placed", ActiveBeside(j) \cap Opens = {}
  PROVE  DebitBeside(j) \in Int /\ OverSteps(Cost, Closes) <= DebitBeside(j)
<1> DEFINE beside == ActiveBeside(j)
           worst == [k \in Walks |-> Worst[k] * Left(k)]
           rows == [k \in beside |-> Row(k)]
<1>1. beside \in SUBSET Closes /\ Closes \in SUBSET Walks
  BY GateBounds DEF ActiveBeside, Closes
<1>2. Cost \in [Walks \X Indices -> Nat]
  BY AmountsTyped DEF GateInv, Amounts
<1>3. IsFiniteSet(beside) /\ IsFiniteSet(Closes \X Indices) /\ IsFiniteSet(Indices)
  BY <1>1, StepsFinite, GateBounds
<1>4. \A k \in Closes \ beside : phase[k] # "placed"
  BY <1>1 DEF ActiveBeside
<1>5. OverSteps(Cost, Closes) = SumFunctionOnSet(Cost, beside \X Indices)
  <2>1. \A p \in (Closes \X Indices) \ (beside \X Indices) : Cost[p] = 0
    <3>1. ASSUME NEW p \in (Closes \X Indices) \ (beside \X Indices) PROVE Cost[p] = 0
      <4>1. PICK k \in Closes, m \in Indices : p = <<k, m>> /\ k \notin beside
        BY <3>1
      <4>2. step[k][m].state # "live" /\ AmountsOf(k, m)
        BY <1>1, <1>4, <4>1, WorkingStep, AmountsAre DEF GateInv
      <4> QED
        BY <4>1, <4>2 DEF AmountsOf
    <3> QED
      BY <3>1
  <2>2. (beside \X Indices) \in SUBSET (Closes \X Indices)
    BY <1>1
  <2>3. \A p \in Closes \X Indices : Cost[p] \in Int
    BY <1>1, <1>2
  <2> QED
    BY <1>3, <2>1, <2>2, <2>3, SumWithin DEF OverSteps
<1>6. SumFunctionOnSet(Cost, beside \X Indices) = SumFunctionOnSet(rows, beside)
  <2>1. \A p \in beside \X Indices : Cost[p] \in Int
    BY <1>1, <1>2
  <2>2. \A k \in beside : rows[k] = SumFunctionOnSet(Cost, {k} \X Indices)
    BY DEF Row
  <2> HIDE DEF rows, beside
  <2> QED
    BY <1>3, <2>1, <2>2, SumOfRows, SMTT(60)
<1>7. \A k \in beside : rows[k] \in Int /\ worst[k] \in Int /\ rows[k] <= worst[k]
  <2>1. ASSUME NEW k \in beside PROVE rows[k] \in Int /\ worst[k] \in Int /\ rows[k] <= worst[k]
    <3>1. k \in Walks
      BY <1>1
    <3>2. Row(k) \in Int /\ Row(k) <= Worst[k] * Left(k) /\ Worst[k] * Left(k) \in Nat
      BY <3>1, RowIsWithin, LeftIsNatural DEF GateInv
    <3> QED
      BY <3>1, <3>2
  <2> QED
    BY <2>1
<1>8. SumFunctionOnSet(rows, beside) <= SumFunctionOnSet(worst, beside)
  <2> HIDE DEF rows, beside, worst
  <2> QED
    BY <1>3, <1>7, SumMonotonic
<1>9. SumFunctionOnSet(worst, beside) \in Int
  <2> HIDE DEF rows, beside, worst
  <2> QED
    BY <1>3, <1>7, SumIs
<1> QED
  BY <1>5, <1>6, <1>8, <1>9 DEF DebitBeside

\* The next order of a job: what it is, and what was there.
LEMMA NextOrder ==
  ASSUME GateInv, NEW j \in Walks, phase[j] \in {"walking", "funding"}
  PROVE  \E n \in 0..MaxStep :
           /\ SentUpTo(j, n) /\ NextIndex(j) = n + 1 /\ n + 1 \in Indices /\ n + 1 \in 0..MaxStep
           /\ step[j][n + 1].state = "none" /\ step[j][n + 1].size = 0
           /\ step[j][n + 1].filled = 0
<1>1. PICK n \in 0..MaxStep : SentUpTo(j, n)
  BY DEF GateInv, OneByOne
<1>2. n < MaxStep
  BY <1>1 DEF SentUpTo
<1>3. n + 1 \in Indices /\ n + 1 \in 0..MaxStep /\ ~(n + 1 <= n)
  BY <1>2, GateBounds DEF Indices
<1>4. step[j][n + 1].state = "none"
  BY <1>1, <1>3 DEF SentUpTo
<1>5. step[j][n + 1].size = 0
  BY <1>3, <1>4 DEF GateInv, StepsTyped
<1>6. step[j][n + 1].filled \in Nat /\ step[j][n + 1].filled <= step[j][n + 1].size
  BY <1>3 DEF GateInv, StepsTyped, StepRecord
<1>7. step[j][n + 1].filled = 0
  BY <1>5, <1>6
<1> QED
  BY <1>1, <1>3, <1>4, <1>5, <1>7, NextIs

IsFresh(order, size, price) ==
  /\ order \in StepRecord
  /\ order.state = "live" /\ order.size = size /\ order.price = price
  /\ order.filled = 0 /\ order.told = 0

LEMMA FreshOrder ==
  ASSUME NEW size \in Nat, NEW price \in Nat
  PROVE  IsFresh([NoStep EXCEPT !.state = "live", !.size = size, !.price = price], size, price)
<1> DEFINE working == [NoStep EXCEPT !.state = "live"]
           sized == [working EXCEPT !.size = size]
           order == [sized EXCEPT !.price = price]
<1>1. NoStep \in StepRecord /\ NoStep.filled = 0 /\ NoStep.told = 0
  BY DEF NoStep, StepRecord
<1>2. /\ working \in StepRecord /\ working.state = "live"
      /\ working.filled = 0 /\ working.told = 0
  BY <1>1 DEF StepRecord
<1> HIDE DEF working
<1>3. /\ sized \in StepRecord /\ sized.state = "live" /\ sized.size = size
      /\ sized.filled = 0 /\ sized.told = 0
  BY <1>2 DEF StepRecord
<1> HIDE DEF sized
<1>4. IsFresh(order, size, price)
  BY <1>3 DEF StepRecord, IsFresh
<1> QED
  BY <1>4 DEF sized, working

\* What a placement does beside the order: an account may have been read.
AccountMayBeRead ==
  /\ UNCHANGED <<role, leftover, live, validated, done, funds>>
  /\ snapshot' \in Int \cup {Unknown} /\ awaited' \in Int \cup {Unknown} /\ aged' \in BOOLEAN
  /\ overtaken' \in [snapshot : BOOLEAN, awaited : BOOLEAN]
  /\ Funded(snapshot', overtaken'.snapshot) /\ Funded(awaited', overtaken'.awaited)

\* An order is placed at `price`, as the gate allows it on `account`.
Sends(j, account, fresh, stale, legs, price) ==
  /\ GateAllows(j, price, Left(j), account, fresh, legs)
  /\ step' = [step EXCEPT ![j][NextIndex(j)] =
                [NoStep EXCEPT !.state = "live", !.size = Left(j), !.price = price]]
  /\ phase' = [phase EXCEPT ![j] = "placed"]
  /\ blind' = (blind \/ (stale /\ ActiveBeside(j) # {}))

LEMMA SendKeeps ==
  ASSUME GateInv, NEW j \in Walks, phase[j] \in {"walking", "funding"}, AccountMayBeRead,
         NEW account \in Int \cup {Unknown}, NEW stale \in BOOLEAN, Funded(account, stale),
         NEW fresh, NEW legs, NEW price, price \in 1..Worst[j],
         Sends(j, account, fresh, stale, legs, price)
  PROVE  GateInv'
<1>1. PICK n \in 0..MaxStep :
        /\ SentUpTo(j, n) /\ NextIndex(j) = n + 1 /\ n + 1 \in Indices /\ n + 1 \in 0..MaxStep
        /\ step[j][n + 1].state = "none" /\ step[j][n + 1].size = 0
        /\ step[j][n + 1].filled = 0
  BY NextOrder
<1> DEFINE i == n + 1
           order == [NoStep EXCEPT !.state = "live", !.size = Left(j), !.price = price]
<1>2. StepsTyped /\ GateTyped
  BY DEF GateInv
<1>3. /\ Left(j) \in Nat /\ price \in Nat /\ price <= Worst[j] /\ Left(j) * price \in Nat
  <2>1. Left(j) \in Nat /\ price \in Nat /\ price <= Worst[j]
    BY <1>2, LeftIsNatural, GateBounds
  <2>2. Left(j) * price \in Nat
    BY <2>1
  <2> QED
    BY <2>1, <2>2
<1>18. IsFresh(order, Left(j), price)
  BY <1>3, FreshOrder
<1>4. /\ OthersStay(j, i) /\ step'[j][i] = order
      /\ step' \in [Walks -> [Indices -> StepRecord]]
      /\ \A k \in Walks \ {j} : step'[k] = step[k]
  <2>2. step' = [step EXCEPT ![j] = [step[j] EXCEPT ![i] = order]]
    BY <1>1 DEF Sends
  <2>3. order \in StepRecord
    BY <1>18 DEF IsFresh
  <2> HIDE DEF order
  <2> QED
    BY <1>1, <1>2, <2>2, <2>3 DEF OthersStay, StepsTyped
<1>5. /\ step'[j][i].state = "live" /\ step'[j][i].size = Left(j) /\ step'[j][i].price = price
      /\ step'[j][i].filled = 0 /\ step'[j][i].told = 0
  <2>1. step'[j][i] = order
    BY <1>4
  <2> HIDE DEF i, order
  <2> QED
    BY <1>18, <2>1 DEF IsFresh
<1>6. StepsTyped'
  <2>1. ASSUME NEW k \in Walks, NEW m \in Indices
        PROVE  /\ step'[k][m].told <= step'[k][m].filled
               /\ step'[k][m].filled <= step'[k][m].size
               /\ step'[k][m].price <= Worst[k]
               /\ step'[k][m].state = "none" => step'[k][m].size = 0
    <3>1. CASE k = j /\ m = i
      <4>1. step'[k][m] = step'[j][i]
        BY <3>1
      <4>2. Left(j) \in Nat /\ price <= Worst[k]
        BY <1>3, <3>1
      <4> HIDE DEF i
      <4> QED
        BY <1>5, <4>1, <4>2
    <3>2. CASE k # j \/ m # i
      BY <1>2, <1>4, <3>2 DEF StepsTyped, OthersStay
    <3> QED
      BY <3>1, <3>2
  <2> QED
    BY <1>4, <2>1 DEF StepsTyped
<1>7. /\ phase' \in [Walks -> {"idle", "reserved", "walking", "funding", "placed", "over"}]
      /\ phase'[j] = "placed" /\ \A k \in Walks \ {j} : phase'[k] = phase[k]
  BY <1>2 DEF GateTyped, Sends
<1>8. GateTyped'
  <2>1. blind' \in BOOLEAN
    BY <1>2 DEF GateTyped, Sends
  <2> QED
    BY <1>2, <1>7, <2>1 DEF GateTyped, AccountMayBeRead
<1>19. done' = done /\ role' = role
  BY DEF AccountMayBeRead
<1>9. OneByOne'
  <2>1. ASSUME NEW m \in Indices
        PROVE  /\ step'[j][m].state # "none" <=> m <= i
               /\ step'[j][m].state = "live" <=> m = i
    <3>1. CASE m = i
      BY <1>1, <1>5, <3>1
    <3>2. CASE m # i
      <4>1. step'[j][m] = step[j][m]
        BY <1>4, <3>2 DEF OthersStay
      <4>2. (m <= i) <=> (m <= n)
        BY <3>2 DEF Indices
      <4> QED
        BY <1>1, <3>2, <4>1, <4>2 DEF SentUpTo
    <3> QED
      BY <3>1, <3>2
  <2>2. \A m \in Indices : step'[j][m].state = "live" => step'[j][m].size = Left(j)'
    BY <1>5, <1>19, <2>1 DEF Left
  <2>3. SentUpTo(j, i)'
    BY <1>1, <1>7, <2>1, <2>2 DEF SentUpTo
  <2> QED
    BY <1>1, <1>4, <1>7, <1>19, <2>3, OneByOneStays DEF GateInv
<1>10. ASSUME NEW S \in SUBSET Walks
       PROVE  /\ OverSteps(Taken, S)' = OverSteps(Taken, S) + IF j \in S THEN Left(j) ELSE 0
              /\ OverSteps(StepFilled, S)' = OverSteps(StepFilled, S)
              /\ OverSteps(Cost, S)' =
                   OverSteps(Cost, S) + IF j \in S THEN Left(j) * price ELSE 0
              /\ OverSteps(Outstanding, S)' =
                   OverSteps(Outstanding, S) + IF j \in S THEN Left(j) * price ELSE 0
              /\ OverSteps(StepFilled, S) \in Nat /\ OverSteps(Taken, S) \in Nat
              /\ OverSteps(Cost, S) \in Nat /\ OverSteps(Outstanding, S) \in Nat
  <2>1. /\ Gains(Taken, Taken', S, j, i) /\ Gains(StepFilled, StepFilled', S, j, i)
        /\ Gains(Cost, Cost', S, j, i) /\ Gains(Outstanding, Outstanding', S, j, i)
        /\ AmountsOf(j, i) /\ AmountsOf(j, i)'
    BY <1>1, <1>2, <1>4, <1>6, OneOrderChanges
  <2>2. /\ Taken[<<j, i>>] = 0 /\ Taken'[<<j, i>>] = Left(j)
        /\ StepFilled[<<j, i>>] = 0 /\ StepFilled'[<<j, i>>] = 0
    BY <1>1, <1>5, <2>1 DEF AmountsOf
  <2>3. /\ Cost[<<j, i>>] = 0 /\ Cost'[<<j, i>>] = Left(j) * price /\ Outstanding[<<j, i>>] = 0
    BY <1>1, <1>5, <2>1 DEF AmountsOf
  <2>4. Outstanding'[<<j, i>>] = Left(j) * price
    <3>1. Outstanding'[<<j, i>>] = (Left(j) - 0) * price
      BY <1>5, <2>1 DEF AmountsOf
    <3>2. Left(j) - 0 = Left(j)
      BY <1>3
    <3> QED
      BY <3>1, <3>2
  <2>5. /\ OverSteps(Taken, S)' = OverSteps(Taken', S)
        /\ OverSteps(StepFilled, S)' = OverSteps(StepFilled', S)
        /\ OverSteps(Cost, S)' = OverSteps(Cost', S)
        /\ OverSteps(Outstanding, S)' = OverSteps(Outstanding', S)
    BY DEF OverSteps
  <2>6. OverSteps(Taken', S) = OverSteps(Taken, S) + IF j \in S THEN Left(j) ELSE 0
    BY <1>3, <2>1, <2>2 DEF Gains
  <2>7. OverSteps(StepFilled', S) = OverSteps(StepFilled, S)
    BY <2>1, <2>2 DEF Gains
  <2>8. OverSteps(Cost', S) = OverSteps(Cost, S) + IF j \in S THEN Left(j) * price ELSE 0
    BY <1>3, <2>1, <2>3 DEF Gains
  <2>9. OverSteps(Outstanding', S) = OverSteps(Outstanding, S) + IF j \in S THEN Left(j) * price ELSE 0
    BY <1>3, <2>1, <2>3, <2>4 DEF Gains
  <2> QED
    BY <2>1, <2>5, <2>6, <2>7, <2>8, <2>9 DEF Gains
<1>11. Spent' = Spent
  BY <1>3, <1>10, GateBounds DEF Spent, Closes
<1>12. \A k \in Walks : Live(k)' <=> (k = j \/ Live(k))
  <2>1. \A k \in Walks \ {j} : step'[k] = step[k]
    BY <1>4
  <2>2. Live(j)'
    BY <1>1, <1>5 DEF Live
  <2> QED
    BY <2>1, <2>2 DEF Live
<1>13. \A k \in Walks \ {j} : Live(k) => k \in ActiveBeside(j)
  BY LiveIsPlaced DEF GateInv, ActiveBeside
<1>14. phase[j] # "placed"
  OBVIOUS
<1>15. OpensAlone'
  <2>1. ASSUME NEW k \in Opens, Live(k)'
        PROVE  live' = {} /\ \A m \in Walks \ {k} : ~Live(m)'
    <3>1. CASE k = j
      <4>1. ActiveBeside(j) = {} /\ leftover = {}
        BY <3>1 DEF Sends, GateAllows, ConcurrencyAllows, Concurrent
      <4>2. live' = {}
        BY <1>2, <4>1 DEF GateTyped, AccountMayBeRead
      <4> QED
        BY <1>12, <1>13, <3>1, <4>1, <4>2
    <3>2. CASE k # j
      <4>1. k \in Walks /\ k \in ActiveBeside(j)
        BY <1>12, <1>13, <2>1, <3>2, GateBounds
      <4> QED
        BY <4>1 DEF Sends, GateAllows, ConcurrencyAllows, Concurrent
    <3> QED
      BY <3>1, <3>2
  <2> QED
    BY <2>1 DEF OpensAlone
<1>16. Covered'
  <2>1. Funded(snapshot, overtaken.snapshot)' /\ Funded(awaited, overtaken.awaited)'
    BY <1>11 DEF Funded, AccountMayBeRead
  <2>2. ASSUME ~blind', NEW k \in Closes, NEW m \in Closes, k # m, Live(k)', Live(m)'
        PROVE  OverSteps(Outstanding, Closes)' <= funds'
    <3>1. ActiveBeside(j) # {}
      BY <1>12, <1>13, <2>2, GateBounds
    <3>2. /\ account # Unknown /\ ActiveBeside(j) \cap Opens = {} /\ j \in Closes
          /\ Debit(j, price, Left(j)) <= account /\ ~stale
      BY <2>2, <3>1 DEF Sends, GateAllows, ConcurrencyAllows, Concurrent, Closes
    <3>3. DebitBeside(j) \in Int /\ OverSteps(Cost, Closes) <= DebitBeside(j)
      BY <1>14, <3>2, CostIsDebited
    <3>4. Debit(j, price, Left(j)) = DebitBeside(j) + price * Left(j)
      BY DEF Debit, DebitBeside
    <3>5. account \in Int /\ account <= funds + Spent
      BY <3>2 DEF Funded
    <3>6. OverSteps(Outstanding, Closes)' = OverSteps(Outstanding, Closes) + Left(j) * price
      BY <1>10, <3>2, GateBounds
    <3>7. /\ OverSteps(Cost, Closes) \in Nat /\ OverSteps(Outstanding, Closes) \in Nat
          /\ funds \in Int /\ funds' = funds
      BY <1>2, <1>10, GateBounds DEF GateTyped, AccountMayBeRead
    <3>8. price * Left(j) = Left(j) * price
      BY <1>3
    <3>9. Spent = OverSteps(Cost, Closes) - OverSteps(Outstanding, Closes)
      BY DEF Spent
    <3> QED
      BY <1>3, <3>2, <3>3, <3>4, <3>5, <3>6, <3>7, <3>8, <3>9
  <2> QED
    BY <2>1, <2>2 DEF Covered
<1>17. RollsWithinFills'
  <2>1. ASSUME role = "close", NEW key \in {RollKey[o] : o \in Tradable}
        PROVE  OverSteps(Taken, OnKey(key) \cap Opens)' <= OverSteps(StepFilled, OnKey(key) \ Opens)'
    <3> DEFINE opening == OnKey(key) \cap Opens
               closing == OnKey(key) \ Opens
    <3>1. opening \in SUBSET Walks /\ closing \in SUBSET Walks
      BY DEF OnKey
    <3>2. OverSteps(StepFilled, closing)' = OverSteps(StepFilled, closing)
      BY <1>10, <3>1
    <3>3. CASE j \notin opening
      <4>1. OverSteps(Taken, opening)' = OverSteps(Taken, opening)
        <5>1. OverSteps(Taken, opening)' = OverSteps(Taken, opening) + 0
          BY <1>10, <3>1, <3>3
        <5>2. OverSteps(Taken, opening) \in Nat
          BY <1>10, <3>1
        <5> QED
          BY <5>1, <5>2
      <4>2. OverSteps(Taken, opening) <= OverSteps(StepFilled, closing)
        BY <2>1 DEF GateInv, RollsWithinFills
      <4>3. OverSteps(Taken, opening)' <= OverSteps(StepFilled, closing)'
        BY <3>2, <4>1, <4>2
      <4> QED
        BY <4>3
    <3>4. CASE j \in opening
      <4>1. RollKey[ContractOf[j]] = key
        BY <3>4 DEF OnKey
      <4>2. Left(j) <= RollCapacity(key)
        BY <2>1, <3>4, <4>1 DEF Sends, GateAllows, RoleAllows
      <4>3. RollCapacity(key) = OverSteps(Told, closing) - OverSteps(Sizes, opening)
        BY DEF RollCapacity
      <4>4. /\ Told \in [Walks \X Indices -> Nat] /\ Sizes \in [Walks \X Indices -> Nat]
            /\ Taken \in [Walks \X Indices -> Nat] /\ StepFilled \in [Walks \X Indices -> Nat]
        BY <1>2, AmountsTyped DEF Amounts
      <4>5. \A k \in Walks, m \in Indices :
              Told[<<k, m>>] <= StepFilled[<<k, m>>] /\ Taken[<<k, m>>] <= Sizes[<<k, m>>]
        BY <1>2, AmountsAre DEF AmountsOf
      <4>6. OverSteps(Told, closing) <= OverSteps(StepFilled, closing)
        BY <3>1, <4>4, <4>5, SumOverStepsOrder
      <4>7. OverSteps(Taken, opening) <= OverSteps(Sizes, opening)
        BY <3>1, <4>4, <4>5, SumOverStepsOrder
      <4>8. /\ OverSteps(Told, closing) \in Nat /\ OverSteps(StepFilled, closing) \in Nat
            /\ OverSteps(Taken, opening) \in Nat /\ OverSteps(Sizes, opening) \in Nat
        BY <3>1, <4>4, SumOverSteps
      <4>9. OverSteps(Taken, opening)' = OverSteps(Taken, opening) + Left(j)
        BY <1>10, <3>1, <3>4
      <4>10. OverSteps(Taken, opening)' <= OverSteps(StepFilled, closing)'
        <5> HIDE DEF opening, closing
        <5> QED
          BY <1>3, <3>2, <4>2, <4>3, <4>6, <4>7, <4>8, <4>9
      <4> QED
        BY <4>10
    <3> QED
      BY <3>3, <3>4
  <2> QED
    BY <1>19, <2>1 DEF RollsWithinFills, OverSteps
<1> QED
  BY <1>6, <1>8, <1>9, <1>15, <1>16, <1>17 DEF GateInv

\* A placement, or its denial.
LEMMA PlacesKeeps ==
  ASSUME GateInv, NEW j \in Walks, phase[j] \in {"walking", "funding"}, AccountMayBeRead,
         NEW account \in Int \cup {Unknown}, NEW stale \in BOOLEAN, Funded(account, stale),
         NEW fresh, Places(j, account, fresh, stale)
  PROVE  GateInv'
<1>1. PICK price \in 1..Worst[j], legs \in BOOLEAN :
        IF GateAllows(j, price, Left(j), account, fresh, legs)
        THEN /\ step' = [step EXCEPT ![j][NextIndex(j)] =
                           [NoStep EXCEPT !.state = "live", !.size = Left(j), !.price = price]]
             /\ phase' = [phase EXCEPT ![j] = "placed"]
             /\ blind' = (blind \/ (stale /\ ActiveBeside(j) # {}))
        ELSE /\ phase' = [phase EXCEPT ![j] = "over"]
             /\ UNCHANGED <<step, blind>>
  BY DEF Places
<1>2. CASE GateAllows(j, price, Left(j), account, fresh, legs)
  <2>1. Sends(j, account, fresh, stale, legs, price)
    BY <1>1, <1>2 DEF Sends
  <2> QED
    BY <2>1, SendKeeps
<1>3. CASE ~GateAllows(j, price, Left(j), account, fresh, legs)
  <2>1. phase' = [phase EXCEPT ![j] = "over"] /\ step' = step /\ blind' = blind
    BY <1>1, <1>3
  <2>2. GateTyped
    BY DEF GateInv
  <2>3. /\ phase' \in [Walks -> {"idle", "reserved", "walking", "funding", "placed", "over"}]
        /\ \A k \in Walks :
              /\ phase'[k] = "placed" <=> phase[k] = "placed"
              /\ phase'[k] = "idle" => phase[k] = "idle"
              /\ phase'[k] \in {"reserved", "walking", "funding"}
                   => phase[k] \in {"idle", "reserved", "walking", "funding"}
    BY <2>1, <2>2, PhaseMoves
  <2>4. Quiet
    BY <2>1, <2>3 DEF Quiet, AccountMayBeRead
  <2>5. GateTyped'
    BY <2>1, <2>2, <2>3 DEF GateTyped, AccountMayBeRead
  <2>6. Funded(snapshot', overtaken'.snapshot) /\ Funded(awaited', overtaken'.awaited)
    BY DEF AccountMayBeRead
  <2> QED
    BY <2>4, <2>5, <2>6, QuietKeeps
<1> QED
  BY <1>2, <1>3

LEMMA PlaceAloneKeeps ==
  ASSUME GateInv, NEW j \in Walks, PlaceAlone(j)
  PROVE  GateInv'
<1>1. /\ phase[j] \in {"walking", "funding"} /\ Places(j, snapshot, ~aged, overtaken.snapshot)
      /\ UNCHANGED <<books, done, funds, snapshot, aged, awaited, overtaken>>
  BY DEF PlaceAlone
<1>2. /\ snapshot \in Int \cup {Unknown} /\ overtaken.snapshot \in BOOLEAN
      /\ Funded(snapshot, overtaken.snapshot)
  BY DEF GateInv, GateTyped, Covered
<1>3. AccountMayBeRead
  BY <1>1 DEF AccountMayBeRead, books, GateInv, GateTyped, Covered
<1> QED
  BY <1>1, <1>2, <1>3, PlacesKeeps

LEMMA PlaceBesideKeeps ==
  ASSUME GateInv, NEW j \in Walks, PlaceBeside(j)
  PROVE  GateInv'
<1>1. /\ phase[j] \in {"walking", "funding"} /\ awaited' = Unknown
      /\ UNCHANGED <<books, done, funds>>
  BY DEF PlaceBeside
<1>2. /\ snapshot \in Int \cup {Unknown} /\ awaited \in Int \cup {Unknown}
      /\ overtaken \in [snapshot : BOOLEAN, awaited : BOOLEAN] /\ aged \in BOOLEAN
      /\ Funded(snapshot, overtaken.snapshot) /\ Funded(awaited, overtaken.awaited)
  BY DEF GateInv, GateTyped, Covered
<1>3. ASSUME NEW late PROVE Funded(awaited', late)
  BY <1>1, FundsAreWithin
<1>4. CASE /\ snapshot' = awaited /\ aged' = FALSE
           /\ overtaken' = [overtaken EXCEPT !.snapshot = overtaken.awaited]
           /\ Places(j, awaited, TRUE, overtaken.awaited)
  <2>1. /\ overtaken' \in [snapshot : BOOLEAN, awaited : BOOLEAN]
        /\ overtaken'.snapshot = overtaken.awaited
    BY <1>2, <1>4
  <2>2. Funded(snapshot', overtaken'.snapshot)
    BY <1>2, <1>4, <2>1
  <2>3. AccountMayBeRead
    BY <1>1, <1>2, <1>3, <1>4, <2>1, <2>2 DEF AccountMayBeRead, books
  <2>4. overtaken.awaited \in BOOLEAN
    BY <1>2
  <2> QED
    BY <1>1, <1>2, <1>4, <2>3, <2>4, PlacesKeeps
<1>5. CASE /\ Places(j, snapshot, ~aged, overtaken.snapshot)
           /\ UNCHANGED <<snapshot, aged, overtaken>>
  <2>1. AccountMayBeRead
    BY <1>1, <1>2, <1>3, <1>5 DEF AccountMayBeRead, books
  <2>2. overtaken.snapshot \in BOOLEAN
    BY <1>2
  <2> QED
    BY <1>1, <1>2, <1>5, <2>1, <2>2, PlacesKeeps
<1> QED
  BY <1>4, <1>5 DEF PlaceBeside

LEMMA GateInvKeeps == GateInv /\ [GateNext]_gateVars => GateInv'
<1> SUFFICES ASSUME GateInv, [GateNext]_gateVars PROVE GateInv'
  OBVIOUS
<1>1. ASSUME NEW j \in Walks, Admit(j) \/ Start(j) \/ AskFunds(j) \/ End(j) PROVE GateInv'
  BY <1>1, JobStepsKeep
<1>2. ASSUME NEW j \in Walks, PlaceAlone(j) PROVE GateInv'
  BY <1>2, PlaceAloneKeeps
<1>3. ASSUME NEW j \in Walks, PlaceBeside(j) PROVE GateInv'
  BY <1>3, PlaceBesideKeeps
<1>4. ASSUME NEW j \in Walks, NEW i \in Indices, Fill(j, i) PROVE GateInv'
  BY <1>4, FillKeeps
<1>5. ASSUME NEW j \in Walks, NEW i \in Indices, ReadFills(j, i) PROVE GateInv'
  BY <1>5, ReadFillsKeeps
<1>6. ASSUME NEW j \in Walks, NEW i \in Indices, Settle(j, i) PROVE GateInv'
  BY <1>6, SettleKeeps
<1>7. CASE ReadsAccount \/ AccountAges \/ ReadsInstruments \/ \E o \in Tradable : LeftoverEnds(o)
  BY <1>7, ReadsKeep
<1>8. CASE UNCHANGED gateVars
  <2>1. Quiet /\ snapshot' = snapshot /\ awaited' = awaited /\ overtaken' = overtaken
    BY <1>8 DEF gateVars, Quiet
  <2>2. GateTyped'
    BY <1>8 DEF gateVars, GateInv, GateTyped
  <2>3. Funded(snapshot', overtaken'.snapshot) /\ Funded(awaited', overtaken'.awaited)
    BY <2>1 DEF GateInv, Covered
  <2> QED
    BY <2>1, <2>2, <2>3, QuietKeeps
<1> QED
  BY <1>1, <1>2, <1>3, <1>4, <1>5, <1>6, <1>7, <1>8 DEF GateNext

-----------------------------------------------------------------------------
(* What the gate promises follows.                                         *)

LEMMA CoveredIsFunded == GateInv => FundedTogether
<1> SUFFICES ASSUME GateInv, ~blind, Cardinality({j \in Walks \ Opens : Live(j)}) > 1
             PROVE  OverSteps(Outstanding, {j \in Walks \ Opens : Live(j)}) <= funds
  BY DEF FundedTogether
<1> DEFINE closing == {j \in Walks \ Opens : Live(j)}
<1>1. closing \in SUBSET Closes /\ Closes \in SUBSET Walks /\ IsFiniteSet(closing)
  BY GateBounds, FS_Subset DEF Closes
<1>2. \E j, k \in closing : j # k
  <2>1. closing # {}
    BY FS_EmptySet
  <2>2. PICK j \in closing : TRUE
    BY <2>1
  <2>3. closing # {j}
    BY FS_Singleton
  <2> QED
    BY <2>2, <2>3
<1>3. OverSteps(Outstanding, Closes) <= funds
  BY <1>2 DEF GateInv, Covered, Closes
<1>4. OverSteps(Outstanding, Closes) = OverSteps(Outstanding, closing)
  <2>1. Outstanding \in [Walks \X Indices -> Nat]
    BY AmountsTyped DEF GateInv, Amounts
  <2>2. \A p \in Closes \X Indices : Outstanding[p] \in Int
    BY <1>1, <2>1
  <2>3. \A p \in (Closes \X Indices) \ (closing \X Indices) : Outstanding[p] = 0
    <3>1. ASSUME NEW p \in (Closes \X Indices) \ (closing \X Indices) PROVE Outstanding[p] = 0
      <4>1. PICK k \in Closes, m \in Indices : p = <<k, m>> /\ k \notin closing
        BY <3>1
      <4>2. k \in Walks /\ step[k][m].state # "live" /\ AmountsOf(k, m)
        BY <1>1, <4>1, AmountsAre DEF GateInv, Live, Closes
      <4> QED
        BY <4>1, <4>2 DEF AmountsOf
    <3> QED
      BY <3>1
  <2>4. IsFiniteSet(Closes \X Indices) /\ (closing \X Indices) \in SUBSET (Closes \X Indices)
    BY <1>1, StepsFinite
  <2> HIDE DEF closing
  <2> QED
    BY <2>2, <2>3, <2>4, SumWithin DEF OverSteps
<1> QED
  BY <1>3, <1>4

LEMMA GateInvKeepsItsWord == GateInv => GateKeeps
BY CoveredIsFunded DEF GateKeeps, GateInv

LEMMA GateBeginsWell == GateInit => GateInv
BY GateStarts DEF GateInit, Closes

-----------------------------------------------------------------------------
(* An opening leg.  Quotes describe times that have been, and what the     *)
(* market showed then is not forgotten.                                    *)

FilterSet == [minDte : Bounds, maxDte : Bounds, minDelta : Bounds, maxDelta : Bounds,
              minCushion : Bounds, minYield : Bounds, optionAge : Bounds, equityAge : Bounds]

LegTyped ==
  /\ right \in Rights /\ filters \in Filters
  /\ market \in Seq(Markets) /\ Clock \in Nat /\ Clock >= 1
  /\ day \in 0..Expiry /\ known \in BOOLEAN
  /\ asked["option"] \subseteq 1..Clock /\ asked["spot"] \subseteq 1..Clock
  /\ DOMAIN asked = {"option", "spot"} /\ asked = [kind \in {"option", "spot"} |-> asked[kind]]
  /\ optionQuote \in 1..Clock \cup {Unknown} /\ spotQuote \in 1..Clock \cup {Unknown}
  /\ sent \in [at : 1..Clock, dte : 1..Expiry] \cup {Unknown}

LegInv == LegTyped /\ SentOnRecentMarket

LEMMA LegBounds ==
  /\ Strike \in Nat /\ Strike > 0 /\ Expiry \in Nat
  /\ NoLimit \notin Int /\ Unset \notin Int /\ NoLimit # Unset /\ Unknown \notin Int
  /\ \A f \in Filters : f \in FilterSet
BY LegAssumption, SettingsAssumption DEF LegAssumption, SettingsAssumption, FilterSet

LEMMA MarketsAre ==
  ASSUME NEW m \in Markets
  PROVE  m.delta \in Nat \cup {Unknown} /\ m.bid \in Nat /\ m.spot \in Nat /\ m.spot > 0
BY LegAssumption DEF LegAssumption

LEMMA FiltersAre ==
  LegTyped =>
    /\ filters \in FilterSet /\ filters.minDte \in Bounds /\ filters.maxDte \in Bounds
    /\ filters.minDelta \in Bounds /\ filters.maxDelta \in Bounds
    /\ filters.minCushion \in Bounds /\ filters.minYield \in Bounds
    /\ filters.optionAge \in Bounds /\ filters.equityAge \in Bounds
<1> SUFFICES ASSUME LegTyped
             PROVE  /\ filters \in FilterSet /\ filters.minDte \in Bounds /\ filters.maxDte \in Bounds
                    /\ filters.minDelta \in Bounds /\ filters.maxDelta \in Bounds
                    /\ filters.minCushion \in Bounds /\ filters.minYield \in Bounds
                    /\ filters.optionAge \in Bounds /\ filters.equityAge \in Bounds
  OBVIOUS
<1>1. filters \in FilterSet
  BY LegBounds DEF LegTyped
<1> QED
  BY <1>1 DEF FilterSet

LEMMA LegStarts ==
  ASSUME NEW r \in Rights, NEW f \in Filters, NEW m \in Markets, LegBegins(r, f, m)
  PROVE  LegInv
<1>1. market \in Seq(Markets) /\ Clock = 1
  BY DEF LegBegins, Clock
<1>2. asked["option"] = {} /\ asked["spot"] = {} /\ DOMAIN asked = {"option", "spot"}
      /\ asked = [kind \in {"option", "spot"} |-> asked[kind]]
  BY DEF LegBegins
<1>3. 0 \in 0..Expiry
  BY LegBounds
<1>4. /\ right \in Rights /\ filters \in Filters /\ day = 0 /\ known = FALSE
      /\ optionQuote = Unknown /\ spotQuote = Unknown /\ sent = Unknown
  BY DEF LegBegins
<1>5. LegTyped
  <2>1. known \in BOOLEAN
    BY <1>4
  <2>2. Clock \in Nat /\ Clock >= 1
    BY <1>1
  <2>3. day \in 0..Expiry
    BY <1>3, <1>4
  <2> QED
    BY <1>1, <1>2, <1>4, <2>1, <2>2, <2>3 DEF LegTyped
<1> QED
  BY <1>4, <1>5 DEF LegInv, SentOnRecentMarket

\* The order last let through stays as good as it was, whatever else changes.
LEMMA SentStays ==
  ASSUME LegInv, sent' = sent, filters' = filters, right' = right,
         \A t \in 1..Clock : market'[t] = market[t]
  PROVE  SentOnRecentMarket'
<1> SUFFICES ASSUME sent # Unknown
             PROVE  /\ Unset \notin {filters[f] : f \in DOMAIN filters}
                    /\ \E t \in Recent(sent.at, filters.optionAge), u \in Recent(sent.at, filters.equityAge) :
                         MeetsFilters(t, u, sent.dte)'
  BY DEF SentOnRecentMarket, Recent, Fresh
<1>1. sent.at \in 1..Clock /\ Clock \in Nat
  BY DEF LegInv, LegTyped
<1>2. PICK t \in Recent(sent.at, filters.optionAge), u \in Recent(sent.at, filters.equityAge) :
        MeetsFilters(t, u, sent.dte)
  BY DEF LegInv, SentOnRecentMarket
<1>3. t \in 1..Clock /\ u \in 1..Clock
  BY <1>1, <1>2 DEF Recent
<1>4. market'[t] = market[t] /\ market'[u] = market[u]
  BY <1>3
<1>5. MeetsFilters(t, u, sent.dte)'
  BY <1>2, <1>4 DEF MeetsFilters, Above, Below
<1>6. Unset \notin {filters[f] : f \in DOMAIN filters}
  BY DEF LegInv, SentOnRecentMarket
<1> QED
  BY <1>2, <1>5, <1>6

\* A leg that passes meets every filter on the quotes it was judged by.
LEMMA PassingMeets ==
  ASSUME LegInv, LegPasses
  PROVE  /\ Unset \notin {filters[f] : f \in DOMAIN filters}
         /\ optionQuote \in Recent(Clock, filters.optionAge)
         /\ spotQuote \in Recent(Clock, filters.equityAge)
         /\ MeetsFilters(optionQuote, spotQuote, Dte) /\ Dte \in 1..Expiry
<1>0. LegTyped
  BY DEF LegInv
<1>1. DteCheck = "pass" /\ DeltaCheck = "pass" /\ CushionCheck = "pass" /\ YieldCheck = "pass"
  <2>1. \A c \in CheckNames : Checks[c] = "pass"
    BY DEF LegPasses
  <2>2. CASE ~known
    <3>1. Checks = [c \in CheckNames |-> "missing"] /\ "dte" \in CheckNames
      BY <2>2 DEF Checks, CheckNames
    <3> QED
      BY <2>1, <3>1
  <2>3. CASE known
    <3>1. Checks = [dte |-> DteCheck, abs_delta |-> DeltaCheck, cushion |-> CushionCheck,
                    annualized_yield |-> YieldCheck]
      BY <2>3 DEF Checks
    <3> QED
      BY <2>1, <3>1 DEF CheckNames
  <2> QED
    BY <2>2, <2>3
<1>2. ASSUME NEW bounds, NEW meets, Compare(bounds, meets) = "pass" PROVE Unset \notin bounds /\ meets
  BY <1>2 DEF Compare
<1>3. /\ filters.minDte # Unset /\ filters.maxDte # Unset
      /\ Above(filters.minDte, Dte) /\ Below(filters.maxDte, Dte)
  BY <1>1, <1>2 DEF DteCheck, Compare
<1>4. /\ OptionUsable /\ Option.delta # Unknown
      /\ filters.minDelta # Unset /\ filters.maxDelta # Unset
      /\ Above(filters.minDelta, Option.delta) /\ Below(filters.maxDelta, Option.delta)
  BY <1>1 DEF DeltaCheck, Compare
<1>5. /\ SpotUsable /\ filters.minCushion # Unset
      /\ filters.minCushion \in Nat => AtLeast(CushionRatio(Spot), filters.minCushion, CushionScale)
  BY <1>1 DEF CushionCheck, Compare
<1>6. /\ filters.minYield # Unset /\ ~(Dte <= 0)
      /\ filters.minYield \in Nat =>
           AtLeast(AnnualizedRatio(Option.bid, IF right = "put" THEN Strike ELSE Spot),
                   filters.minYield, 1)
  BY <1>1 DEF YieldCheck, Compare
<1>7. Dte \in 1..Expiry
  BY <1>0, <1>6, LegBounds DEF LegTyped, Dte
<1>8. /\ optionQuote \in Recent(Clock, filters.optionAge) /\ filters.optionAge # Unset
      /\ spotQuote \in Recent(Clock, filters.equityAge) /\ filters.equityAge # Unset
      /\ optionQuote \in 1..Clock /\ spotQuote \in 1..Clock
  BY <1>0, <1>4, <1>5 DEF OptionUsable, SpotUsable, Recent, Fresh, LegTyped
<1>9. Unset \notin {filters[f] : f \in DOMAIN filters}
  <2>1. DOMAIN filters = {"minDte", "maxDte", "minDelta", "maxDelta", "minCushion", "minYield",
                          "optionAge", "equityAge"}
    BY <1>0, FiltersAre DEF FilterSet
  <2> QED
    BY <1>3, <1>4, <1>5, <1>6, <1>8, <2>1
<1>10. /\ market[optionQuote] \in Markets /\ market[spotQuote] \in Markets
       /\ Option = market[optionQuote] /\ Spot = market[spotQuote].spot
  BY <1>0, <1>8 DEF LegTyped, Clock, Option, Spot
<1>11. filters.minCushion # NoLimit =>
         CushionScale * (IF right = "put" THEN market[spotQuote].spot - Strike
                         ELSE Strike - market[spotQuote].spot)
           >= filters.minCushion * market[spotQuote].spot
  BY <1>0, <1>5, <1>10, FiltersAre DEF AtLeast, CushionRatio, Bounds
<1>12. filters.minYield # NoLimit =>
         market[optionQuote].bid * DaysPerYear
           >= filters.minYield * (IF right = "put" THEN Strike ELSE market[spotQuote].spot) * Dte
  <2> DEFINE collateral == IF right = "put" THEN Strike ELSE market[spotQuote].spot
             gain == market[optionQuote].bid * DaysPerYear
  <2>1. /\ collateral \in Nat /\ gain \in Nat /\ Dte \in Nat
    BY <1>7, <1>10, MarketsAre, LegBounds DEF DaysPerYear
  <2> SUFFICES ASSUME filters.minYield # NoLimit PROVE gain >= filters.minYield * collateral * Dte
    OBVIOUS
  <2>2. filters.minYield \in Nat
    BY <1>0, <1>6, FiltersAre DEF Bounds
  <2>3. CollateralPerShare(IF right = "put" THEN Strike ELSE Spot) = collateral
    BY <1>10 DEF CollateralPerShare
  <2>4. 1 * gain >= filters.minYield * (collateral * Dte)
    BY <1>6, <1>10, <2>2, <2>3 DEF AtLeast, AnnualizedRatio
  <2> HIDE DEF collateral, gain
  <2> QED
    BY <2>1, <2>2, <2>4
<1>13. MeetsFilters(optionQuote, spotQuote, Dte)
  BY <1>3, <1>4, <1>10, <1>11, <1>12 DEF MeetsFilters
<1> QED
  BY <1>7, <1>8, <1>9, <1>13

LEMMA LegKeeps == LegInv /\ [LegNext]_legVars => LegInv'
<1> SUFFICES ASSUME LegInv, [LegNext]_legVars PROVE LegInv'
  OBVIOUS
<1>0. LegTyped
  BY DEF LegInv
<1>1. CASE MarketMoves
  <2>1. PICK m \in Markets : market' = Append(market, m)
    BY <1>1 DEF MarketMoves
  <2>2. UNCHANGED <<right, filters, day, known, asked, optionQuote, spotQuote, sent>>
    BY <1>1 DEF MarketMoves
  <2>3. /\ market' \in Seq(Markets) /\ Clock' = Clock + 1
        /\ \A t \in 1..Clock : market'[t] = market[t]
    BY <1>0, <2>1 DEF LegTyped, Clock
  <2>4. 1..Clock \subseteq 1..Clock' /\ Clock' \in Nat /\ Clock' >= 1
    BY <1>0, <2>3 DEF LegTyped
  <2>5. sent' \in [at : 1..Clock', dte : 1..Expiry] \cup {Unknown}
    BY <1>0, <2>2, <2>4 DEF LegTyped
  <2>6. /\ optionQuote' \in 1..Clock' \cup {Unknown} /\ spotQuote' \in 1..Clock' \cup {Unknown}
        /\ asked'["option"] \subseteq 1..Clock' /\ asked'["spot"] \subseteq 1..Clock'
    BY <1>0, <2>2, <2>4 DEF LegTyped
  <2>7. LegTyped'
    BY <1>0, <2>2, <2>3, <2>4, <2>5, <2>6 DEF LegTyped
  <2>8. SentOnRecentMarket'
    BY <2>2, <2>3, SentStays
  <2> QED
    BY <2>7, <2>8 DEF LegInv
<1>2. CASE Midnight \/ ReadsInstrument \/ UNCHANGED legVars
  <2>1. UNCHANGED <<right, filters, market, asked, optionQuote, spotQuote, sent>>
    BY <1>2 DEF Midnight, ReadsInstrument, legVars
  <2>2. day' \in 0..Expiry /\ known' \in BOOLEAN
    <3>1. day' = day \/ (day < Expiry /\ day' = day + 1)
      BY <1>2 DEF Midnight, ReadsInstrument, legVars
    <3>2. day' \in 0..Expiry
      BY <1>0, <3>1, LegBounds DEF LegTyped
    <3>3. known' = known \/ known' = TRUE
      BY <1>2 DEF Midnight, ReadsInstrument, legVars
    <3>4. known' \in BOOLEAN
      BY <1>0, <3>3 DEF LegTyped
    <3> QED
      BY <3>2, <3>4
  <2>3. LegTyped'
    BY <1>0, <2>1, <2>2 DEF LegTyped, Clock
  <2>4. SentOnRecentMarket'
    BY <2>1, SentStays
  <2> QED
    BY <2>3, <2>4 DEF LegInv
<1>3. ASSUME NEW kind \in {"option", "spot"}, AsksQuote(kind) \/ RecordsQuote(kind) PROVE LegInv'
  <2>1. UNCHANGED <<right, filters, market, day, known, sent>>
    BY <1>3 DEF AsksQuote, RecordsQuote
  <2>2. \E S \in SUBSET (1..Clock) : asked' = [asked EXCEPT ![kind] = S]
    <3>1. asked[kind] \subseteq 1..Clock /\ Clock \in 1..Clock
      BY <1>0 DEF LegTyped
    <3>2. CASE AsksQuote(kind)
      <4>1. asked' = [asked EXCEPT ![kind] = asked[kind] \cup {Clock}]
        BY <1>0, <3>2 DEF AsksQuote, LegTyped
      <4>2. asked[kind] \cup {Clock} \in SUBSET (1..Clock)
        BY <3>1
      <4> QED
        BY <4>1, <4>2
    <3>3. CASE RecordsQuote(kind)
      <4>1. PICK t \in asked[kind] : asked' = [asked EXCEPT ![kind] = asked[kind] \ {t}]
        BY <1>0, <3>3 DEF RecordsQuote, LegTyped
      <4>2. asked[kind] \ {t} \in SUBSET (1..Clock)
        BY <3>1
      <4> QED
        BY <4>1, <4>2
    <3> QED
      BY <1>3, <3>2, <3>3
  <2>3. PICK S \in SUBSET (1..Clock) : asked' = [asked EXCEPT ![kind] = S]
    BY <2>2
  <2>4. /\ asked'["option"] \subseteq 1..Clock /\ asked'["spot"] \subseteq 1..Clock
        /\ DOMAIN asked' = {"option", "spot"}
        /\ asked' = [q \in {"option", "spot"} |-> asked'[q]]
    BY <1>0, <2>3 DEF LegTyped
  <2>5. optionQuote' \in 1..Clock \cup {Unknown} /\ spotQuote' \in 1..Clock \cup {Unknown}
    <3>1. CASE AsksQuote(kind)
      BY <1>0, <3>1 DEF AsksQuote, LegTyped
    <3>2. CASE RecordsQuote(kind)
      <4>1. asked[kind] \subseteq 1..Clock
        BY <1>0 DEF LegTyped
      <4>2. PICK t \in asked[kind] :
              \/ kind = "option" /\ optionQuote' = t /\ UNCHANGED spotQuote
              \/ kind = "spot" /\ spotQuote' = t /\ UNCHANGED optionQuote
              \/ UNCHANGED <<optionQuote, spotQuote>>
        BY <3>2 DEF RecordsQuote
      <4>3. t \in 1..Clock
        BY <4>1
      <4> QED
        BY <1>0, <4>2, <4>3 DEF LegTyped
    <3> QED
      BY <1>3, <3>1, <3>2
  <2>6. LegTyped'
    BY <1>0, <2>1, <2>4, <2>5 DEF LegTyped, Clock
  <2>7. SentOnRecentMarket'
    BY <2>1, SentStays
  <2> QED
    BY <2>6, <2>7 DEF LegInv
<1>4. CASE SendsOpening
  <2>1. /\ sent' = [at |-> Clock, dte |-> Dte]
        /\ UNCHANGED <<right, filters, market, day, known, asked, optionQuote, spotQuote>>
    BY <1>4 DEF SendsOpening
  <2>2. /\ Unset \notin {filters[f] : f \in DOMAIN filters}
        /\ optionQuote \in Recent(Clock, filters.optionAge)
        /\ spotQuote \in Recent(Clock, filters.equityAge)
        /\ MeetsFilters(optionQuote, spotQuote, Dte) /\ Dte \in 1..Expiry
    BY <1>4, PassingMeets DEF SendsOpening
  <2>3. Clock \in 1..Clock
    BY <1>0 DEF LegTyped
  <2>4. sent' \in [at : 1..Clock, dte : 1..Expiry] /\ sent'.at = Clock /\ sent'.dte = Dte
    BY <2>1, <2>2, <2>3
  <2>5. LegTyped'
    BY <1>0, <2>1, <2>4 DEF LegTyped, Clock
  <2>6. SentOnRecentMarket'
    <3>1. ASSUME NEW d, NEW x, NEW y, MeetsFilters(x, y, d) PROVE MeetsFilters(x, y, d)'
      BY <2>1, <3>1 DEF MeetsFilters, Above, Below
    <3>2. MeetsFilters(optionQuote, spotQuote, sent.dte)'
      <4>1. PICK x, y, d : x = optionQuote /\ y = spotQuote /\ d = Dte
        OBVIOUS
      <4>2. MeetsFilters(x, y, d)'
        BY <2>2, <3>1, <4>1
      <4>3. optionQuote' = x /\ spotQuote' = y /\ sent'.dte = d
        BY <2>1, <2>4, <4>1
      <4> QED
        BY <4>2, <4>3
    <3>3. (/\ optionQuote \in Recent(sent.at, filters.optionAge)
           /\ spotQuote \in Recent(sent.at, filters.equityAge))'
      BY <2>1, <2>2, <2>4 DEF Recent, Fresh
    <3>4. (Unset \notin {filters[f] : f \in DOMAIN filters})'
      BY <2>1, <2>2
    <3>5. (/\ Unset \notin {filters[f] : f \in DOMAIN filters}
           /\ \E v \in Recent(sent.at, filters.optionAge), w \in Recent(sent.at, filters.equityAge) :
                MeetsFilters(v, w, sent.dte))'
      BY <3>2, <3>3, <3>4
    <3> QED
      BY <3>5 DEF SentOnRecentMarket
  <2> QED
    BY <2>5, <2>6 DEF LegInv
<1> QED
  BY <1>1, <1>2, <1>3, <1>4 DEF LegNext

\* The check and the metric of a ratio rest on the same evidence.
LEMMA FactsAreTheSame == LegTyped => FactsAgree
<1> SUFFICES ASSUME LegTyped PROVE FactsAgree
  OBVIOUS
<1>1. ASSUME ~known
      PROVE  /\ Checks["annualized_yield"] = "missing" /\ Checks["cushion"] = "missing"
             /\ YieldMetric = Unknown /\ CushionMetric = Unknown
  BY <1>1 DEF Checks, CheckNames, YieldMetric, CushionMetric
<1>2. ASSUME known
      PROVE  Checks["annualized_yield"] = YieldCheck /\ Checks["cushion"] = CushionCheck
  BY <1>2 DEF Checks
<1>3. ASSUME OptionUsable PROVE optionQuote \in 1..Clock /\ Option \in Markets
  BY <1>3 DEF OptionUsable, Fresh, LegTyped, Option, Clock
<1>4. ASSUME SpotUsable PROVE spotQuote \in 1..Clock /\ Spot \in Nat
  BY <1>4, MarketsAre DEF SpotUsable, Fresh, LegTyped, Spot, Clock
<1>5. ASSUME filters.minYield \in Nat
      PROVE  Checks["annualized_yield"] =
               IF YieldMetric = Unknown THEN "missing"
               ELSE IF AtLeast(YieldMetric, filters.minYield, 1) THEN "pass" ELSE "fail"
  <2>1. CASE known /\ OptionUsable /\ Dte > 0 /\ (right = "put" \/ SpotUsable)
    <3> DEFINE ratio == AnnualizedRatio(Option.bid, IF right = "put" THEN Strike ELSE Spot)
    <3>1. YieldMetric = ratio
      BY <2>1 DEF YieldMetric
    <3>2. ratio # Unknown
      <4>1. (IF right = "put" THEN Strike ELSE Spot) \in Nat /\ Option.bid \in Nat /\ Dte \in Int
        BY <1>3, <1>4, <2>1, MarketsAre, LegBounds DEF LegTyped, Dte
      <4>2. CollateralPerShare(IF right = "put" THEN Strike ELSE Spot) \in Nat
        BY <4>1, LegBounds DEF CollateralPerShare
      <4>3. ratio \in Int \X Int
        BY <4>1, <4>2 DEF AnnualizedRatio, DaysPerYear
      <4> QED
        BY <4>3, LegAssumption DEF LegAssumption
    <3>3. YieldCheck = Compare({filters.minYield}, filters.minYield \in Nat => AtLeast(ratio, filters.minYield, 1))
      BY <2>1, LegBounds DEF YieldCheck, LegTyped, Rights, Dte
    <3>4. filters.minYield # Unset
      BY <1>5, LegBounds
    <3>5. YieldCheck = IF AtLeast(ratio, filters.minYield, 1) THEN "pass" ELSE "fail"
      <4> HIDE DEF ratio
      <4> QED
        BY <1>5, <3>3, <3>4 DEF Compare
    <3> QED
      BY <1>2, <2>1, <3>1, <3>2, <3>5
  <2>2. CASE ~(known /\ OptionUsable /\ Dte > 0 /\ (right = "put" \/ SpotUsable))
    <3>1. YieldMetric = Unknown
      BY <2>2 DEF YieldMetric
    <3>2. known => YieldCheck = "missing"
      BY <2>2, LegBounds DEF YieldCheck, LegTyped, Rights, Dte
    <3> QED
      BY <1>1, <1>2, <3>1, <3>2
  <2> QED
    BY <2>1, <2>2
<1>6. ASSUME filters.minCushion \in Nat
      PROVE  Checks["cushion"] =
               IF CushionMetric = Unknown THEN "missing"
               ELSE IF AtLeast(CushionMetric, filters.minCushion, CushionScale) THEN "pass" ELSE "fail"
  <2>1. CASE known /\ SpotUsable
    <3> DEFINE ratio == CushionRatio(Spot)
    <3>1. CushionMetric = ratio
      BY <2>1 DEF CushionMetric
    <3>2. ratio # Unknown
      <4>1. ratio \in Int \X Int
        BY <1>4, <2>1, LegBounds DEF CushionRatio
      <4> QED
        BY <4>1, LegAssumption DEF LegAssumption
    <3>3. CushionCheck = Compare({filters.minCushion}, filters.minCushion \in Nat => AtLeast(ratio, filters.minCushion, CushionScale))
      BY <2>1 DEF CushionCheck
    <3>4. filters.minCushion # Unset
      BY <1>6, LegBounds
    <3>5. CushionCheck = IF AtLeast(ratio, filters.minCushion, CushionScale) THEN "pass" ELSE "fail"
      <4> HIDE DEF ratio
      <4> QED
        BY <1>6, <3>3, <3>4 DEF Compare
    <3> QED
      BY <1>2, <2>1, <3>1, <3>2, <3>5
  <2>2. CASE ~(known /\ SpotUsable)
    <3>1. CushionMetric = Unknown
      BY <2>2 DEF CushionMetric
    <3>2. known => CushionCheck = "missing"
      BY <2>2 DEF CushionCheck
    <3> QED
      BY <1>1, <1>2, <3>1, <3>2
  <2> QED
    BY <2>1, <2>2
<1> QED
  BY <1>5, <1>6 DEF FactsAgree

\* What the gate lets through, in any order of walks, fills, reads and time: replacements stay
\* within the fills of their closes, closes at work at once can be paid for unless one was
\* placed on a snapshot older than settled fills, an opening order works alone, and an opening
\* leg meets every filter on the market as it was within the maximal ages of its quotes.
THEOREM GateIsSound == Spec => []GateSound
<1> DEFINE Inv == (part = "leg" => LegInv) /\ (part = "gate" => GateInv)
<1>1. Init => Inv
  <2>1. (part = "leg" /\ LegBegin) => LegInv
    BY LegStarts DEF LegBegin, Resting, LegInit
  <2>2. (part = "gate" /\ GateBegin) => GateInv
    BY GateBeginsWell DEF GateBegin, Resting
  <2> QED
    BY <2>1, <2>2 DEF Init
<1>2. Inv /\ [Next]_evidenceVars => Inv'
  <2> SUFFICES ASSUME Inv, [Next]_evidenceVars PROVE Inv'
    OBVIOUS
  <2>1. part' = part
    BY DEF Next, evidenceVars
  <2>2. part = "leg" => [LegNext]_legVars
    BY DEF Next, evidenceVars
  <2>3. part = "gate" => [GateNext]_gateVars
    BY DEF Next, evidenceVars
  <2>4. part = "leg" => LegInv'
    BY <2>2, LegKeeps
  <2>5. part = "gate" => GateInv'
    BY <2>3, GateInvKeeps
  <2> QED
    BY <2>1, <2>4, <2>5
<1>3. Inv => GateSound
  BY FactsAreTheSame, GateInvKeepsItsWord DEF GateSound, LegsHonest, LegInv
<1> QED
  BY <1>1, <1>2, <1>3, PTL DEF Spec

-----------------------------------------------------------------------------
(* The parts together: each keeps its invariant while the behaviour is     *)
(* about it.                                                               *)

EvidenceInv ==
  /\ part = "books" => BooksInv
  /\ part = "sizing" => SizeInv
  /\ part = "leg" => LegInv /\ Clock <= MaxTime
  /\ part = "gate" => GateInv
  /\ part = "lineages" => LinesInv
  /\ part = "facts" => FactsInv

LEMMA ClockWithin ==
  ASSUME LegInv, Clock <= MaxTime, [LegNext]_legVars
  PROVE  Clock' <= MaxTime
<1>1. market \in Seq(Markets) /\ Clock \in Nat /\ MaxTime \in Nat
  BY LegAssumption DEF LegInv, LegTyped, LegAssumption
<1>2. CASE MarketMoves
  <2>1. PICK m \in Markets : market' = Append(market, m)
    BY <1>2 DEF MarketMoves
  <2>2. Clock' = Clock + 1
    BY <1>1, <2>1, AppendProperties DEF Clock
  <2> QED
    BY <1>1, <1>2, <2>2 DEF MarketMoves
<1>3. CASE ~MarketMoves
  <2>1. market' = market
    BY <1>3 DEF LegNext, legVars, Midnight, ReadsInstrument, SendsOpening, AsksQuote, RecordsQuote
  <2> QED
    BY <2>1 DEF Clock
<1> QED
  BY <1>2, <1>3

LEMMA EvidenceBegins == Init => EvidenceInv
<1> SUFFICES ASSUME Init PROVE EvidenceInv
  OBVIOUS
<1>1. BooksInv
  BY BooksBegin DEF Init
<1>2. LinesInv
  BY LinesBegun DEF Init
<1>3. part = "sizing" => SizeInv
  BY SizeStarts DEF Init, SizeBegin, Resting, SizeInit
<1>4. part = "facts" => FactsInv
  BY FactsBeginWell DEF Init, FactsStart, Resting, FactsInit
<1>5. part = "gate" => GateInv
  BY GateBeginsWell DEF Init, GateBegin, Resting
<1>6. ASSUME part = "leg" PROVE LegInv /\ Clock <= MaxTime
  <2>1. PICK r \in Rights, f \in Filters, m \in Markets : LegBegins(r, f, m)
    BY <1>6 DEF Init, LegBegin, Resting, LegInit
  <2>2. Clock = 1
    BY <2>1 DEF LegBegins, Clock
  <2> QED
    BY <2>1, <2>2, LegStarts, LegAssumption DEF LegAssumption
<1> QED
  BY <1>1, <1>2, <1>3, <1>4, <1>5, <1>6 DEF EvidenceInv

LEMMA EvidenceKeeps == EvidenceInv /\ [Next]_evidenceVars => EvidenceInv'
<1> SUFFICES ASSUME EvidenceInv, [Next]_evidenceVars PROVE EvidenceInv'
  OBVIOUS
<1>1. part' = part
  BY DEF Next, evidenceVars
<1>2. /\ part = "books" => [BooksNext]_bookVars
      /\ part = "sizing" => [SizeNext]_sizeVars
      /\ part = "leg" => [LegNext]_legVars
      /\ part = "gate" => [GateNext]_gateVars
      /\ part = "lineages" => [LinesNext]_lineVars
      /\ part = "facts" => [FactsNext]_factsVars
  BY DEF Next, evidenceVars
<1>3. part = "books" => BooksInv'
  BY <1>2, BooksKeep DEF EvidenceInv
<1>4. part = "sizing" => SizeInv'
  BY <1>2, SizeKeeps DEF EvidenceInv
<1>5. part = "leg" => LegInv' /\ Clock' <= MaxTime
  BY <1>2, LegKeeps, ClockWithin DEF EvidenceInv
<1>6. part = "gate" => GateInv'
  BY <1>2, GateInvKeeps DEF EvidenceInv
<1>7. part = "lineages" => LinesInv'
  BY <1>2, LinesKeep DEF EvidenceInv
<1>8. part = "facts" => FactsInv'
  BY <1>2, FactsKeep DEF EvidenceInv
<1> QED
  BY <1>1, <1>3, <1>4, <1>5, <1>6, <1>7, <1>8 DEF EvidenceInv

LEMMA EvidenceTyped == EvidenceInv => TypeOK
<1> SUFFICES ASSUME EvidenceInv PROVE TypeOK
  OBVIOUS
<1>1. part = "books" => BooksTypeOK
  BY BooksAreTyped DEF EvidenceInv
<1>2. part = "lineages" => LinesTypeOK
  BY LinesAreTyped DEF EvidenceInv
<1>3. SizeInv => SizeTypeOK
  BY DEF SizeInv, SizeTyped, SizeTypeOK, CashRecord, LotsRecord, AccountRead, PositionsRead, OrdersRead
<1>4. ASSUME LegInv, Clock <= MaxTime PROVE LegTypeOK
  <2>1. Clock \in 1..MaxTime
    BY <1>4, LegAssumption DEF LegInv, LegTyped, LegAssumption
  <2>2. \A kind \in {"option", "spot"} : asked[kind] \subseteq 1..Clock
    BY <1>4 DEF LegInv, LegTyped
  <2> QED
    BY <1>4, <2>1, <2>2 DEF LegInv, LegTyped, LegTypeOK
<1>5. ASSUME GateInv PROVE GateTypeOK
  <2>1. GateTyped /\ StepsTyped
    BY <1>5 DEF GateInv
  <2>2. \A j \in Walks : done[j] \in 0..Size[j]
    <3>1. \A j \in Walks : Size[j] \in Nat /\ done[j] \in Nat /\ done[j] <= Size[j]
      BY <2>1, GateBounds DEF GateTyped
    <3> QED
      BY <3>1
  <2>3. ASSUME NEW j \in Walks, NEW i \in Indices
        PROVE  /\ step[j][i].state \in {"none", "live", "over"}
               /\ step[j][i].told <= step[j][i].filled /\ step[j][i].filled <= step[j][i].size
    <3>1. step[j][i] \in StepRecord
      BY <2>1 DEF StepsTyped
    <3> QED
      BY <2>1, <3>1 DEF StepsTyped, StepRecord
  <2> QED
    BY <2>1, <2>2, <2>3 DEF GateTyped, GateTypeOK
<1>6. ASSUME FactsInv PROVE FactsTypeOK
  <2>1. told \subseteq 1..MaxFacts
    <3>1. DOMAIN facts = 1..Len(facts) /\ Len(facts) \in Nat
      BY <1>6 DEF FactsInv, FactsStored
    <3>2. Len(facts) <= MaxFacts /\ told \subseteq DOMAIN facts /\ MaxFacts \in Nat
      BY <1>6, FactsBounds DEF FactsInv, FactsStored
    <3> QED
      BY <3>1, <3>2
  <2> QED
    BY <1>6, <2>1 DEF FactsInv, RecordTyped, FactsStored, FactsTypeOK
<1> QED
  BY <1>1, <1>2, <1>3, <1>4, <1>5, <1>6 DEF EvidenceInv, TypeOK

\* Every variable keeps its type: an order's versions are dated one after the other and its fills
\* are of its quantity; a lineage opens once, and a correction is of an event before it; sizes,
\* steps, quotes and fact sets are what the code takes them for.
THEOREM EvidenceIsTyped == Spec => []TypeOK
BY EvidenceBegins, EvidenceKeeps, EvidenceTyped, PTL DEF Spec

\* What the ledger says of orders and positions is true, for any orders, clocks and calls and any
\* order of reads: fills, resolutions and cancellations are those the broker executed, no order is
\* adopted or linked that is another's, and positions hold, count and credit what filled.
THEOREM BooksAreSound == Spec => []BooksTrue
<1>1. EvidenceInv => BooksTrue
  BY BooksAreTrue, LineagesAreTrue DEF EvidenceInv, BooksTrue
<1> QED
  BY <1>1, EvidenceBegins, EvidenceKeeps, PTL DEF Spec

\* A terminal status is final, while other parts work too: no late record of an early read
\* changes it.
THEOREM TerminalIsFinal == Spec => NeverBackwards
<1>1. EvidenceInv /\ [Next]_evidenceVars
        => [\A o \in Orders : Status(o) \in TerminalStates => Status(o)' = Status(o)]_bookVars
  <2> SUFFICES ASSUME EvidenceInv, [Next]_evidenceVars, bookVars' # bookVars
               PROVE  \A o \in Orders : Status(o) \in TerminalStates => Status(o)' = Status(o)
    OBVIOUS
  <2>1. part = "books" /\ part' = part /\ BooksNext
    BY DEF Next, evidenceVars
  <2>2. BooksInv /\ BooksInv'
    BY <2>1, EvidenceKeeps DEF EvidenceInv
  <2> QED
    BY <2>1, <2>2, TerminalStays
<1> QED
  BY <1>1, EvidenceBegins, EvidenceKeeps, PTL DEF Spec, NeverBackwards
=============================================================================
