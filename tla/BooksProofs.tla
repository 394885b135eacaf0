---------------------------- MODULE BooksProofs ----------------------------
(***************************************************************************)
(* Proofs about OrderLedger, for any orders, calls and clocks: what is     *)
(* recorded are snapshots that return in any order, and what the           *)
(* projections say of an order is true of it all the same.  Then about     *)
(* Lineages, for any fills, rolls and decisions: the events of a lineage   *)
(* only grow, each under a key of its own, only gaps are superseded, and a *)
(* note to open rests on a fill that entered; what the projection says     *)
(* follows from this, however often a call is repeated.                    *)
(***************************************************************************)
EXTENDS OrderLedger, Lineages, SumLemmas, SequenceTheorems, TLAPS

----------------------------------------------------------------------------
(* The ledger of orders: the inductive invariant.                          *)

\* An order's versions, oldest first: times and fills grow, and only the last one may be terminal.
VersionsOf(o) ==
  [raw : WorkingStates \cup TerminalStates, filled : 0..Quantity[o], at : Int]
BrokerInv(o) ==
  /\ broker[o] \in Seq(VersionsOf(o))
  /\ \A v, w \in DOMAIN broker[o] : v < w =>
       /\ broker[o][v].at < broker[o][w].at /\ broker[o][v].filled <= broker[o][w].filled
       /\ broker[o][v].raw \in WorkingStates
  /\ \A v \in DOMAIN broker[o] :
       /\ broker[o][v].at <= now + Skew
       /\ broker[o][v].raw \in WorkingStates => broker[o][v].filled < Quantity[o]
  /\ Exists(o) => Created(o) > requestedAt[o] + Skew /\ place[o] \in {"sent", "done"}

\* A placement, and the read that resolved its intent.
PlacingInv(o) ==
  /\ place[o] \in {"none", "requested", "sent", "done"}
  /\ requestedAt[o] \in 0..now
  /\ place[o] \in {"sent", "done"} => o \in intents
  /\ noOrder[o] \in 0..(now + 1)
  /\ noOrder[o] # 0 /\ Exists(o) => Created(o) - Skew >= noOrder[o]

\* A complete snapshot lists every order that is older than it.
SnapshotInv(c) ==
  /\ call[c].taken \in 0..now
  /\ \A o \in Orders :
       /\ call[c].seen[o] \in 0..Len(broker[o])
       /\ call[c].complete /\ call[c].seen[o] = 0 /\ Exists(o) => Created(o) - Skew > call[c].taken
AskedInv(c) ==
  /\ call[c].kind \in {"idle", "orders", "positions", "cancel", "cancelled", "done"}
  /\ call[c].kind = "orders" => SnapshotInv(c)
  /\ call[c].kind = "positions" => call[c].held \in [AllContracts -> Nat]
  /\ call[c].kind \in {"cancel", "cancelled"} => call[c] \in [kind : {"cancel", "cancelled"}, order : Orders]

\* A status was that of a version of the order.
OfVersion(o, e) ==
  \E v \in DOMAIN broker[o] : e.at = broker[o][v].at /\ e.status = StatusOf(broker[o][v].raw)
StatusesInv(o) ==
  /\ IsFiniteSet(statuses[o])
  /\ \A e \in statuses[o] : e.seq \in Nat /\ OfVersion(o, e)

\* A fill was reported of a version of the order, under a key of its own; and of each version whose
\* status is recorded, one of its two reports is.
KnownFills(o) == {Key(f) : f \in fills[o]}
Learned(o, v) == \E detailed \in BOOLEAN : Reported(o, v, detailed) \subseteq KnownFills(o)
OfReport(o, f) ==
  \E v \in DOMAIN broker[o], detailed \in BOOLEAN :
    f.at = broker[o][v].at /\ Key(f) \in Reported(o, v, detailed)
FillsInv(o) ==
  /\ \A f \in fills[o] : OfReport(o, f)
  /\ \A f, g \in fills[o] : Key(f) = Key(g) => f = g
  /\ \A e \in statuses[o] : \A v \in DOMAIN broker[o] : e.at = broker[o][v].at => Learned(o, v)

\* A cancel call has at most one answer and one confirmation, which is of an order that is over.
IsOver(o) == Exists(o) /\ ~Works(o)
CancelsInv(o) ==
  /\ \A e \in cancels[o] :
       /\ e.status \in {"pending", "unknown", "confirmed"} /\ e.at \in Int
       /\ e.cancel \in Calls /\ call[e.cancel].kind = "cancelled"
       /\ e.status = "confirmed" => IsOver(o)
  /\ \A e, f \in cancels[o] :
       e.cancel = f.cancel /\ (e.status = "confirmed" <=> f.status = "confirmed") => e = f

\* The entries of one job are in one lineage.
Lineage == [contract : AllContracts, quantity : Nat, closed : BOOLEAN,
            entries : SUBSET [order : Orders, execution : Nat, quantity : Nat],
            closes : SUBSET [order : Orders, execution : Nat, quantity : Nat]]
Together(ls) == \A o \in Opening : \A i, j \in FilledFrom(ls, Kin(o)) : i = j
LinesGood(ls) == ls \in Seq(Lineage) /\ Together(ls)

BooksTyped ==
  /\ now \in Nat /\ held \in [AllContracts -> Nat]
  /\ broker = [o \in Orders |-> broker[o]] /\ place = [o \in Orders |-> place[o]]
  /\ requestedAt = [o \in Orders |-> requestedAt[o]] /\ noOrder = [o \in Orders |-> noOrder[o]]
  /\ statuses = [o \in Orders |-> statuses[o]] /\ fills = [o \in Orders |-> fills[o]]
  /\ cancels = [o \in Orders |-> cancels[o]] /\ call = [c \in Calls |-> call[c]]
  /\ intents \subseteq Orders /\ links \subseteq intents /\ IsFiniteSet(links)

BooksInv ==
  /\ BooksTyped
  /\ \A o \in Orders : BrokerInv(o)
  /\ \A o \in Orders : PlacingInv(o)
  /\ \A c \in Calls : AskedInv(c)
  /\ \A o \in Orders : StatusesInv(o)
  /\ \A o \in Orders : FillsInv(o)
  /\ \A o \in Orders : CancelsInv(o)
  /\ LinesGood(lineages)

----------------------------------------------------------------------------
(* Facts about the operators.                                              *)

LEMMA BooksBegin ==
  ASSUME BooksInit
  PROVE  BooksInv
<1> USE DEF BooksInit
<1>1. BooksTyped
  <2>1. IsFiniteSet(links)
    BY FS_EmptySet
  <2> QED
    BY <2>1 DEF BooksTyped
<1>2. \A o \in Orders : BrokerInv(o)
  BY DEF BrokerInv, Exists
<1>3. \A o \in Orders : PlacingInv(o)
  BY DEF PlacingInv, Exists
<1>4. \A c \in Calls : AskedInv(c)
  BY DEF AskedInv, Idle
<1>5. \A o \in Orders : StatusesInv(o)
  BY FS_EmptySet DEF StatusesInv
<1>6. \A o \in Orders : FillsInv(o)
  BY FS_EmptySet DEF FillsInv
<1>7. \A o \in Orders : CancelsInv(o)
  BY DEF CancelsInv
<1>8. LinesGood(lineages)
  BY DEF LinesGood, Together, FilledFrom
<1> QED
  BY <1>1, <1>2, <1>3, <1>4, <1>5, <1>6, <1>7, <1>8 DEF BooksInv

LEMMA VersionIs ==
  ASSUME NEW o \in Orders, BrokerInv(o), NEW v \in DOMAIN broker[o]
  PROVE  /\ DOMAIN broker[o] = 1..Len(broker[o]) /\ Len(broker[o]) \in Nat /\ v \in Nat
         /\ broker[o][v] \in VersionsOf(o)
         /\ broker[o][v].raw \in WorkingStates \cup TerminalStates
         /\ broker[o][v].filled \in 0..Quantity[o] /\ broker[o][v].at \in Int
         /\ broker[o][v].filled \in Nat /\ Quantity[o] \in Nat
         /\ Exists(o)
<1>1. Quantity[o] \in Nat
  BY LedgerAssumption DEF LedgerAssumption
<1>2. /\ DOMAIN broker[o] = 1..Len(broker[o]) /\ Len(broker[o]) \in Nat /\ v \in Nat
      /\ broker[o][v] \in VersionsOf(o)
  BY DEF BrokerInv
<1>3. Exists(o)
  BY <1>2 DEF Exists
<1> QED
  BY <1>1, <1>2, <1>3 DEF VersionsOf

\* The last version is the latest, and has the most fills.
LEMMA LastVersion ==
  ASSUME NEW o \in Orders, BrokerInv(o), Exists(o)
  PROVE  /\ Len(broker[o]) \in DOMAIN broker[o] /\ 1 \in DOMAIN broker[o]
         /\ Current(o) = broker[o][Len(broker[o])]
         /\ \A v \in DOMAIN broker[o] :
              /\ broker[o][v].filled <= Current(o).filled
              /\ broker[o][v].at <= Current(o).at
              /\ broker[o][v].at = Current(o).at => v = Len(broker[o])
              /\ broker[o][v].raw \notin WorkingStates => v = Len(broker[o])
<1>1. broker[o] \in Seq(VersionsOf(o))
  BY DEF BrokerInv
<1>2. /\ Len(broker[o]) \in DOMAIN broker[o] /\ 1 \in DOMAIN broker[o]
      /\ DOMAIN broker[o] = 1..Len(broker[o]) /\ Len(broker[o]) \in Nat
  BY <1>1 DEF Exists
<1>3. ASSUME NEW v \in DOMAIN broker[o]
      PROVE  /\ broker[o][v].filled <= Current(o).filled
             /\ broker[o][v].at <= Current(o).at
             /\ broker[o][v].at = Current(o).at => v = Len(broker[o])
             /\ broker[o][v].raw \notin WorkingStates => v = Len(broker[o])
  <2>1. CASE v = Len(broker[o])
    BY <2>1, VersionIs DEF Current
  <2>2. CASE v < Len(broker[o])
    <3>1. /\ broker[o][v].at < Current(o).at /\ broker[o][v].filled <= Current(o).filled
          /\ broker[o][v].raw \in WorkingStates
      BY <1>2, <2>2 DEF BrokerInv, Current
    <3>2. broker[o][v].at \in Int /\ Current(o).at \in Int
      BY <1>2, VersionIs DEF Current
    <3> QED
      BY <3>1, <3>2
  <2> QED
    BY <1>2, <2>1, <2>2
<1> QED
  BY <1>2, <1>3 DEF Current

\* Two versions of an order at one time are one.
LEMMA VersionsDiffer ==
  ASSUME NEW o \in Orders, BrokerInv(o), NEW v \in DOMAIN broker[o], NEW w \in DOMAIN broker[o]
  PROVE  /\ broker[o][v].at = broker[o][w].at => v = w
         /\ broker[o][v].at < broker[o][w].at => v < w
         /\ v <= w => broker[o][v].filled <= broker[o][w].filled
<1>1. /\ v \in Nat /\ w \in Nat /\ broker[o][v].at \in Int /\ broker[o][w].at \in Int
      /\ broker[o][v].filled \in Nat /\ broker[o][w].filled \in Nat
  BY VersionIs
<1>2. v < w => broker[o][v].at < broker[o][w].at /\ broker[o][v].filled <= broker[o][w].filled
  BY DEF BrokerInv
<1>3. w < v => broker[o][w].at < broker[o][v].at
  BY DEF BrokerInv
<1> QED
  BY <1>1, <1>2, <1>3

LEMMA States ==
  /\ \A raw \in WorkingStates : StatusOf(raw) \in Unresolved /\ raw \notin TerminalStates
                                /\ StatusOf(raw) \notin TerminalStates
  /\ \A raw \in TerminalStates : StatusOf(raw) \notin Unresolved /\ raw \notin WorkingStates
                                 /\ StatusOf(raw) = raw
BY DEF WorkingStates, TerminalStates, StatusOf, Unresolved

----------------------------------------------------------------------------
(* The broker moves: an order gets one version more.                       *)

\* What the broker's steps have in common.
MovesOn(o, raw, filled) ==
  /\ BrokerMoves(o, raw, filled)
  /\ Exists(o) => Works(o) /\ Current(o).filled <= filled
  /\ ~Exists(o) => place[o] = "sent"
  /\ filled \in 0..Quantity[o] /\ raw \in WorkingStates \cup TerminalStates
  /\ raw \in WorkingStates => filled < Quantity[o]
  /\ held' \in [AllContracts -> Nat]

LEMMA BrokerGrows ==
  ASSUME BooksInv, NEW o \in Orders, NEW raw, NEW filled, MovesOn(o, raw, filled)
  PROVE  /\ broker' = [p \in Orders |-> broker'[p]]
         /\ \A p \in Orders \ {o} : broker'[p] = broker[p]
         /\ Len(broker'[o]) = Len(broker[o]) + 1 /\ Len(broker[o]) \in Nat
         /\ broker'[o] \in Seq(VersionsOf(o))
         /\ DOMAIN broker'[o] = 1..(Len(broker[o]) + 1)
         /\ DOMAIN broker[o] = 1..Len(broker[o])
         /\ \A v \in DOMAIN broker[o] : broker'[o][v] = broker[o][v]
         /\ broker'[o][Len(broker[o]) + 1] = Version(raw, filled)
         /\ now' = now + 1 /\ now \in Nat /\ Skew \in Int
<1>1. /\ broker' = [broker EXCEPT ![o] = Append(@, Version(raw, filled))] /\ now' = now + 1
      /\ broker = [p \in Orders |-> broker[p]] /\ now \in Nat /\ Skew \in Int
      /\ broker[o] \in Seq(VersionsOf(o))
  BY LedgerAssumption DEF MovesOn, BrokerMoves, BooksInv, BooksTyped, BrokerInv, LedgerAssumption
<1>2. Version(raw, filled) \in VersionsOf(o)
  BY <1>1 DEF MovesOn, Version, VersionsOf
<1>3. broker'[o] = Append(broker[o], Version(raw, filled))
  BY <1>1
<1>4. /\ broker' = [p \in Orders |-> broker'[p]]
      /\ \A p \in Orders \ {o} : broker'[p] = broker[p]
  BY <1>1
<1>5. /\ Len(broker'[o]) = Len(broker[o]) + 1 /\ Len(broker[o]) \in Nat
      /\ broker'[o] \in Seq(VersionsOf(o))
      /\ \A v \in 1..Len(broker[o]) : broker'[o][v] = broker[o][v]
      /\ broker'[o][Len(broker[o]) + 1] = Version(raw, filled)
  BY <1>1, <1>2, <1>3, AppendProperties
<1> QED
  BY <1>1, <1>4, <1>5

LEMMA BrokerKeepsVersions ==
  ASSUME BooksInv, NEW o \in Orders, NEW raw, NEW filled, MovesOn(o, raw, filled), NEW p \in Orders
  PROVE  BrokerInv(p)' /\ PlacingInv(p)'
<1>0. BrokerInv(p) /\ PlacingInv(p) /\ BrokerInv(o) /\ PlacingInv(o) /\ now \in Nat /\ Skew \in Int
  BY BrokerGrows DEF BooksInv
<1>1. UNCHANGED <<place, requestedAt, intents, noOrder>>
  BY DEF MovesOn, BrokerMoves
<1>2. CASE p # o
  <2>1. broker'[p] = broker[p] /\ now' = now + 1
    BY <1>2, BrokerGrows
  <2>2. \A v \in DOMAIN broker[p] : broker[p][v].at \in Int
    BY <1>0, VersionIs
  <2>5. ASSUME NEW v \in DOMAIN broker[p] PROVE broker[p][v].at <= now' + Skew
    <3>1. broker[p][v].at \in Int /\ broker[p][v].at <= now + Skew
      BY <1>0, <2>2 DEF BrokerInv
    <3> QED
      BY <1>0, <2>1, <3>1
  <2>3. BrokerInv(p)'
    BY <1>0, <1>1, <2>1, <2>5 DEF BrokerInv, Exists, Created, VersionsOf
  <2>4. PlacingInv(p)'
    BY <1>0, <1>1, <2>1 DEF PlacingInv, Exists, Created
  <2> QED
    BY <2>3, <2>4
<1>3. CASE p = o
  <2> DEFINE n == Len(broker[o]) + 1
  <2>1. /\ broker'[o] \in Seq(VersionsOf(o)) /\ DOMAIN broker'[o] = 1..n /\ n \in Nat /\ n >= 1
        /\ DOMAIN broker[o] = 1..(n - 1)
        /\ \A v \in DOMAIN broker[o] : broker'[o][v] = broker[o][v]
        /\ broker'[o][n] = Version(raw, filled) /\ now' = now + 1
    BY BrokerGrows
  <2>2. /\ Version(raw, filled).at = now + 1 + Skew /\ Version(raw, filled).filled = filled
        /\ Version(raw, filled).raw = raw
    BY DEF Version
  <2>3. \A v \in DOMAIN broker[o] :
          /\ broker[o][v].at \in Int /\ broker[o][v].filled \in Nat
          /\ broker[o][v].at <= now + Skew /\ broker[o][v].filled <= filled
          /\ broker[o][v].raw \in WorkingStates /\ broker[o][v].filled < Quantity[o]
    <3> SUFFICES ASSUME NEW v \in DOMAIN broker[o]
        PROVE  /\ broker[o][v].at \in Int /\ broker[o][v].filled \in Nat
               /\ broker[o][v].at <= now + Skew /\ broker[o][v].filled <= filled
               /\ broker[o][v].raw \in WorkingStates /\ broker[o][v].filled < Quantity[o]
      OBVIOUS
    <3>1. Exists(o) /\ broker[o][v].at \in Int /\ broker[o][v].filled \in Nat
      BY <1>0, VersionIs
    <3>2. Current(o).filled <= filled /\ Current(o).raw \in WorkingStates
      BY <3>1 DEF MovesOn, Works
    <3>3. broker[o][v].filled <= Current(o).filled /\ Current(o).filled \in Nat
      BY <1>0, <3>1, LastVersion, VersionIs
    <3>4. filled \in Nat
      BY LedgerAssumption DEF MovesOn, LedgerAssumption
    <3>5. broker[o][v].filled <= filled
      BY <3>1, <3>2, <3>3, <3>4
    <3>6. broker[o][v].raw \in WorkingStates
      BY <1>0, <3>1, <3>2, LastVersion
    <3>7. broker[o][v].at <= now + Skew /\ broker[o][v].filled < Quantity[o]
      BY <1>0, <3>6 DEF BrokerInv
    <3> QED
      BY <3>1, <3>5, <3>6, <3>7
  <2> HIDE DEF n
  <2>4. VersionsOf(o)' = VersionsOf(o)
    BY DEF VersionsOf
  <2>5. ASSUME NEW v \in DOMAIN broker'[o], NEW w \in DOMAIN broker'[o], v < w
        PROVE  /\ broker'[o][v].at < broker'[o][w].at /\ broker'[o][v].filled <= broker'[o][w].filled
               /\ broker'[o][v].raw \in WorkingStates
    <3>1. v \in DOMAIN broker[o] /\ broker'[o][v] = broker[o][v]
      BY <2>1, <2>5
    <3>2. CASE w = n
      <4>1. broker'[o][w].at = now + 1 + Skew /\ broker'[o][w].filled = filled
        BY <2>1, <2>2, <3>2
      <4> QED
        BY <1>0, <2>3, <3>1, <4>1
    <3>3. CASE w # n
      <4>1. w \in DOMAIN broker[o] /\ broker'[o][w] = broker[o][w]
        BY <2>1, <3>3
      <4> QED
        BY <1>0, <2>5, <3>1, <4>1 DEF BrokerInv
    <3> QED
      BY <3>2, <3>3
  <2>6. ASSUME NEW v \in DOMAIN broker'[o]
        PROVE  /\ broker'[o][v].at <= now' + Skew
               /\ broker'[o][v].raw \in WorkingStates => broker'[o][v].filled < Quantity[o]
    <3>1. CASE v = n
      BY <1>0, <2>1, <2>2, <3>1 DEF MovesOn
    <3>2. CASE v # n
      <4>1. v \in DOMAIN broker[o] /\ broker'[o][v] = broker[o][v]
        BY <2>1, <3>2
      <4> QED
        BY <1>0, <2>1, <2>3, <4>1
    <3> QED
      BY <3>1, <3>2
  <2>7. /\ Created(o)' > requestedAt[o] + Skew /\ place[o] \in {"sent", "done"}
        /\ noOrder[o] # 0 => Created(o)' - Skew >= noOrder[o]
    <3>1. CASE Exists(o)
      <4>1. 1 \in DOMAIN broker[o] /\ Created(o)' = Created(o)
        BY <1>0, <2>1, <3>1, LastVersion DEF Created
      <4> QED
        BY <1>0, <3>1, <4>1 DEF BrokerInv, PlacingInv
    <3>2. CASE ~Exists(o)
      <4>1. Created(o)' = now + 1 + Skew
        <5>1. Len(broker[o]) = 0
          BY <3>2 DEF Exists
        <5>2. n = 1
          BY <5>1 DEF n
        <5> QED
          BY <2>1, <2>2, <5>2 DEF Created
      <4>2. place[o] = "sent"
        BY <3>2 DEF MovesOn
      <4>3. requestedAt[o] \in 0..now /\ noOrder[o] \in 0..(now + 1)
        BY <1>0 DEF PlacingInv
      <4> QED
        BY <1>0, <4>1, <4>2, <4>3
    <3> QED
      BY <3>1, <3>2
  <2>8. BrokerInv(o)'
    BY <1>1, <2>1, <2>4, <2>5, <2>6, <2>7 DEF BrokerInv
  <2>9. PlacingInv(o)'
    BY <1>0, <1>1, <2>1, <2>7 DEF PlacingInv
  <2> QED
    BY <1>3, <2>8, <2>9
<1> QED
  BY <1>2, <1>3

LEMMA BrokerKeeps ==
  ASSUME BooksInv, NEW o \in Orders, NEW raw, NEW filled, MovesOn(o, raw, filled), NEW p \in Orders
  PROVE  /\ \A v \in DOMAIN broker[p] : v \in DOMAIN broker'[p] /\ broker'[p][v] = broker[p][v]
         /\ IsOver(p) => IsOver(p)'
         /\ Exists(p) => Exists(p)' /\ Created(p)' = Created(p)
         /\ ~Exists(p) /\ Exists(p)' => Created(p)' - Skew > now
         /\ Len(broker[p]) <= Len(broker'[p])
<1>0. BrokerInv(p) /\ BrokerInv(o)
  BY DEF BooksInv
<1>1. CASE p # o
  <2>1. broker'[p] = broker[p]
    BY <1>1, BrokerGrows
  <2>2. Len(broker[p]) \in Nat
    BY <1>0 DEF BrokerInv
  <2> QED
    BY <2>1, <2>2 DEF IsOver, Exists, Works, Current, Created
<1>2. CASE p = o
  <2>1. /\ DOMAIN broker'[o] = 1..(Len(broker[o]) + 1) /\ DOMAIN broker[o] = 1..Len(broker[o])
        /\ \A v \in DOMAIN broker[o] : broker'[o][v] = broker[o][v]
        /\ broker'[o][Len(broker[o]) + 1] = Version(raw, filled)
        /\ Len(broker[o]) \in Nat /\ Len(broker'[o]) = Len(broker[o]) + 1
        /\ now \in Nat /\ Skew \in Int
    BY BrokerGrows
  <2>2. ~IsOver(o)
    BY DEF IsOver, MovesOn
  <2>3. Exists(o) => 1 \in DOMAIN broker[o]
    BY <1>0, LastVersion
  <2>4. broker'[o] # <<>>
    BY <2>1
  <2>5. ~Exists(o) => Created(o)' = now + 1 + Skew
    <3> SUFFICES ASSUME ~Exists(o) PROVE broker'[o][1].at = now + 1 + Skew
      BY DEF Created
    <3>1. Len(broker[o]) = 0
      BY DEF Exists
    <3> QED
      BY <2>1, <3>1 DEF Version
  <2> QED
    BY <1>2, <2>1, <2>2, <2>3, <2>4, <2>5 DEF Exists, Created
<1> QED
  BY <1>1, <1>2

LEMMA BrokerKeepsRecords ==
  ASSUME BooksInv, NEW o \in Orders, NEW raw, NEW filled, MovesOn(o, raw, filled)
  PROVE  BooksInv'
<1>1. /\ UNCHANGED <<place, requestedAt, call, intents, noOrder, links, statuses, fills, cancels, lineages>>
      /\ held' \in [AllContracts -> Nat] /\ now' = now + 1 /\ now \in Nat
  BY BrokerGrows DEF MovesOn, BrokerMoves, recorded
<1>2. BooksTyped'
  <2>1. broker' = [p \in Orders |-> broker'[p]]
    BY BrokerGrows
  <2> QED
    BY <1>1, <2>1 DEF BooksTyped, BooksInv
<1>3. ASSUME NEW p \in Orders PROVE BrokerInv(p)' /\ PlacingInv(p)'
  BY BrokerKeepsVersions
<1>4. ASSUME NEW c \in Calls PROVE AskedInv(c)'
  <2>1. AskedInv(c) /\ call'[c] = call[c] /\ Skew \in Int
    BY <1>1, BrokerGrows DEF BooksInv
  <2>2. ASSUME call[c].kind = "orders" PROVE SnapshotInv(c)'
    <3>1. SnapshotInv(c)
      BY <2>1, <2>2 DEF AskedInv
    <3>2. call[c].taken \in 0..now'
      BY <1>1, <3>1 DEF SnapshotInv
    <3>3. ASSUME NEW p \in Orders
          PROVE  /\ call[c].seen[p] \in 0..Len(broker'[p])
                 /\ call[c].complete /\ call[c].seen[p] = 0 /\ Exists(p)' => Created(p)' - Skew > call[c].taken
      <4>1. call[c].seen[p] \in 0..Len(broker[p]) /\ Len(broker[p]) <= Len(broker'[p])
        BY <3>1, BrokerKeeps DEF SnapshotInv
      <4>2. Len(broker[p]) \in Nat /\ Len(broker'[p]) \in Nat
        BY <1>3 DEF BrokerInv, BooksInv
      <4>3. call[c].seen[p] \in 0..Len(broker'[p])
        BY <4>1, <4>2
      <4>4. /\ call[c].complete /\ call[c].seen[p] = 0 /\ Exists(p) => Created(p) - Skew > call[c].taken
            /\ call[c].taken \in 0..now
        BY <3>1 DEF SnapshotInv
      <4>5. /\ Exists(p) => Exists(p)' /\ Created(p)' = Created(p)
            /\ ~Exists(p) /\ Exists(p)' => Created(p)' - Skew > now
        BY BrokerKeeps
      <4>6. Exists(p)' => Created(p)' \in Int
        <5> SUFFICES ASSUME Exists(p)' PROVE broker'[p][1].at \in Int
          BY DEF Created
        <5>1. broker'[p] \in Seq(VersionsOf(p)) /\ broker'[p] # <<>>
          BY <1>3 DEF BrokerInv, VersionsOf, Exists
        <5>2. broker'[p][1] \in VersionsOf(p)
          BY <5>1
        <5> QED
          BY <5>2 DEF VersionsOf
      <4> QED
        BY <1>1, <2>1, <4>3, <4>4, <4>5, <4>6
    <3> QED
      BY <2>1, <3>2, <3>3 DEF SnapshotInv
  <2> QED
    BY <2>1, <2>2 DEF AskedInv
<1>5. ASSUME NEW p \in Orders PROVE StatusesInv(p)' /\ FillsInv(p)' /\ CancelsInv(p)'
  <2>1. StatusesInv(p) /\ FillsInv(p) /\ CancelsInv(p) /\ BrokerInv(p)
    BY DEF BooksInv
  <2>2. \A v \in DOMAIN broker[p] : v \in DOMAIN broker'[p] /\ broker'[p][v] = broker[p][v]
    BY BrokerKeeps
  <2>3. StatusesInv(p)'
    BY <1>1, <2>1, <2>2 DEF StatusesInv, OfVersion
  <2>4. ASSUME NEW f \in fills[p] PROVE OfReport(p, f)'
    <3>1. PICK v \in DOMAIN broker[p], detailed \in BOOLEAN :
            f.at = broker[p][v].at /\ Key(f) \in Reported(p, v, detailed)
      BY <2>1 DEF FillsInv, OfReport
    <3>2. Reported(p, v, detailed)' = Reported(p, v, detailed)
      BY <2>2 DEF Reported
    <3> QED
      BY <2>2, <3>1, <3>2 DEF OfReport
  <2>5. ASSUME NEW e \in statuses[p], NEW v \in DOMAIN broker'[p], e.at = broker'[p][v].at
        PROVE  Learned(p, v)'
    <3>1. PICK w \in DOMAIN broker[p] : e.at = broker[p][w].at
      BY <2>1 DEF StatusesInv, OfVersion
    <3>2. w \in DOMAIN broker'[p] /\ broker'[p][w] = broker[p][w]
      BY <2>2
    <3>3. v = w
      <4>1. BrokerInv(p)'
        BY <1>3
      <4>2. v \in Nat /\ w \in Nat /\ broker'[p][v].at \in Int /\ broker'[p][w].at \in Int
        <5>1. broker'[p] \in Seq(VersionsOf(p))
          BY <4>1 DEF BrokerInv, VersionsOf
        <5>2. DOMAIN broker'[p] \subseteq Nat /\ \A u \in DOMAIN broker'[p] : broker'[p][u] \in VersionsOf(p)
          BY <5>1
        <5> QED
          BY <3>2, <5>2 DEF VersionsOf
      <4>3. broker'[p][v].at = broker'[p][w].at
        BY <2>5, <3>1, <3>2
      <4>4. v < w => broker'[p][v].at < broker'[p][w].at
        BY <3>2, <4>1 DEF BrokerInv
      <4>5. w < v => broker'[p][w].at < broker'[p][v].at
        BY <3>2, <4>1 DEF BrokerInv
      <4> QED
        BY <4>2, <4>3, <4>4, <4>5
    <3>4. Learned(p, w)
      BY <2>1, <3>1 DEF FillsInv
    <3>5. KnownFills(p)' = KnownFills(p)
      BY <1>1 DEF KnownFills, Key
    <3>6. \A detailed \in BOOLEAN : Reported(p, w, detailed)' = Reported(p, w, detailed)
      BY <3>2 DEF Reported
    <3> QED
      BY <3>3, <3>4, <3>5, <3>6 DEF Learned
  <2>6. FillsInv(p)'
    BY <1>1, <2>1, <2>4, <2>5 DEF FillsInv
  <2>7. CancelsInv(p)'
    <3>1. IsOver(p) => IsOver(p)'
      BY BrokerKeeps
    <3> QED
      BY <1>1, <2>1, <3>1 DEF CancelsInv
  <2> QED
    BY <2>3, <2>6, <2>7
<1>6. LinesGood(lineages)'
  BY <1>1 DEF BooksInv, LinesGood, Together, FilledFrom, Kin, Lineage, AllContracts
<1> QED
  BY <1>2, <1>3, <1>4, <1>5, <1>6 DEF BooksInv

LEMMA BrokerStep ==
  ASSUME BooksInv, NEW o \in Orders, Broker(o)
  PROVE  BooksInv'
<1>1. /\ Quantity[o] \in Nat /\ Quantity[o] > 0 /\ held \in [AllContracts -> Nat]
      /\ Contract[o] \in AllContracts /\ BrokerInv(o)
  BY LedgerAssumption DEF LedgerAssumption, BooksInv, BooksTyped, AllContracts
<1>2. Works(o) => /\ Current(o).filled \in Nat /\ Current(o).filled < Quantity[o]
                  /\ Current(o).raw \in WorkingStates
  <2> SUFFICES ASSUME Works(o)
      PROVE  Current(o).filled \in Nat /\ Current(o).filled < Quantity[o] /\ Current(o).raw \in WorkingStates
    OBVIOUS
  <2>1. Exists(o) /\ Current(o).raw \in WorkingStates
    BY DEF Works
  <2>2. Current(o) = broker[o][Len(broker[o])] /\ Len(broker[o]) \in DOMAIN broker[o]
    BY <1>1, <2>1, LastVersion
  <2>3. Current(o).filled \in Nat
    BY <1>1, <2>2, VersionIs
  <2>4. Current(o).filled < Quantity[o]
    BY <1>1, <2>1, <2>2 DEF BrokerInv
  <2> QED
    BY <2>1, <2>3, <2>4
<1>3. CASE BrokerTakes(o)
  <2>1. PICK raw \in {"queued", "rejected"} : BrokerMoves(o, raw, 0)
    BY <1>3 DEF BrokerTakes
  <2>2. ~Exists(o) /\ place[o] = "sent" /\ held' = held
    BY <1>3 DEF BrokerTakes
  <2>3. MovesOn(o, raw, 0)
    BY <1>1, <2>1, <2>2 DEF MovesOn, WorkingStates, TerminalStates
  <2> QED
    BY <2>3, BrokerKeepsRecords
<1>4. CASE BrokerFills(o)
  <2> DEFINE filled == Current(o).filled + 1
             raw == IF filled = Quantity[o] THEN "filled"
                    ELSE IF Current(o).raw = "queued" THEN "partially_filled" ELSE Current(o).raw
  <2>1. Works(o) /\ BrokerMoves(o, raw, filled)
    BY <1>4 DEF BrokerFills
  <2>2. held' \in [AllContracts -> Nat]
    <3>1. /\ o \in Opening \/ held[Contract[o]] > 0
          /\ held' = [held EXCEPT ![Contract[o]] = IF o \in Opening THEN @ + 1 ELSE @ - 1]
      BY <1>4 DEF BrokerFills
    <3>2. held[Contract[o]] \in Nat
      BY <1>1
    <3>3. (IF o \in Opening THEN held[Contract[o]] + 1 ELSE held[Contract[o]] - 1) \in Nat
      BY <3>1, <3>2
    <3> QED
      BY <1>1, <3>1, <3>3
  <2>3. filled \in 0..Quantity[o] /\ Current(o).filled <= filled
    BY <1>1, <1>2, <2>1
  <2>4. raw \in WorkingStates \cup TerminalStates /\ (raw \in WorkingStates => filled # Quantity[o])
    BY <1>2, <2>1 DEF WorkingStates, TerminalStates
  <2>5. raw \in WorkingStates => filled < Quantity[o]
    BY <1>1, <2>3, <2>4
  <2> HIDE DEF filled, raw
  <2>6. MovesOn(o, raw, filled)
    BY <2>1, <2>2, <2>3, <2>4, <2>5 DEF MovesOn, Works
  <2> QED
    BY <2>6, BrokerKeepsRecords
<1>5. ASSUME NEW raw \in WorkingStates \cup TerminalStates, Works(o), BrokerMoves(o, raw, Current(o).filled), held' = held
      PROVE  BooksInv'
  <2>1. /\ Current(o).filled \in 0..Quantity[o] /\ Current(o).filled <= Current(o).filled
        /\ Current(o).filled < Quantity[o]
    BY <1>1, <1>2, <1>5
  <2>2. MovesOn(o, raw, Current(o).filled)
    BY <1>1, <1>5, <2>1 DEF MovesOn, Works
  <2> QED
    BY <2>2, BrokerKeepsRecords
<1>6. CASE BrokerTakesCancel(o)
  BY <1>5, <1>6 DEF BrokerTakesCancel, WorkingStates
<1>7. CASE BrokerCancels(o)
  BY <1>5, <1>7 DEF BrokerCancels, TerminalStates
<1> QED
  BY <1>3, <1>4, <1>6, <1>7 DEF Broker

----------------------------------------------------------------------------
(* Lineages.  An order's fills join the lineage that holds its job's       *)
(* entries, so that they are in one lineage whatever a read adds.          *)

LEMMA LeastIs ==
  ASSUME NEW S \in SUBSET Nat, S # {}
  PROVE  Least(S) \in S /\ \A k \in S : Least(S) <= k
BY LeastNatural DEF Least

\* The fills a read adds are of a lineage's shape.
New(o, v, detailed) ==
  {[order |-> o, execution |-> k.execution, quantity |-> k.quantity] : k \in Reported(o, v, detailed)}

LEMMA ReportedIs ==
  ASSUME NEW o \in Orders, BrokerInv(o), NEW v \in DOMAIN broker[o], NEW detailed \in BOOLEAN
  PROVE  /\ Reported(o, v, detailed) \subseteq [execution : 0..Quantity[o], quantity : 1..Quantity[o]]
         /\ New(o, v, detailed) \subseteq [order : Orders, execution : Nat, quantity : Nat]
         /\ \A e \in New(o, v, detailed) : e.order = o
<1>1. broker[o][v].filled \in 0..Quantity[o] /\ Quantity[o] \in Nat
  BY VersionIs
<1>2. ASSUME NEW k \in Reported(o, v, detailed)
      PROVE  k \in [execution : 0..Quantity[o], quantity : 1..Quantity[o]]
  <2>1. CASE detailed
    <3>1. PICK x \in 1..broker[o][v].filled : k = [execution |-> x, quantity |-> 1]
      BY <2>1, <1>2 DEF Reported
    <3>2. x \in 0..Quantity[o] /\ 1 \in 1..Quantity[o]
      BY <1>1, <3>1
    <3> QED
      BY <3>1, <3>2
  <2>2. CASE ~detailed
    <3>1. k = [execution |-> 0, quantity |-> broker[o][v].filled] /\ broker[o][v].filled # 0
      BY <2>2, <1>2 DEF Reported
    <3>2. 0 \in 0..Quantity[o] /\ broker[o][v].filled \in 1..Quantity[o]
      BY <1>1, <3>1
    <3> QED
      BY <3>1, <3>2
  <2> QED
    BY <2>1, <2>2
<1> QED
  BY <1>1, <1>2 DEF New

LEMMA LinkFillsKeeps ==
  ASSUME NEW ls, LinesGood(ls), NEW o \in Orders, BrokerInv(o), NEW v \in DOMAIN broker[o],
         NEW detailed \in BOOLEAN
  PROVE  LinesGood(LinkFills(ls, o, v, detailed))
<1> DEFINE new == New(o, v, detailed)
           next == LinkFills(ls, o, v, detailed)
<1>1. /\ new \subseteq [order : Orders, execution : Nat, quantity : Nat]
      /\ \A e \in new : e.order = o
  BY ReportedIs
<1>2. /\ ls \in Seq(Lineage) /\ Together(ls) /\ DOMAIN ls = 1..Len(ls) /\ Len(ls) \in Nat
      /\ DOMAIN ls \subseteq Nat
      /\ \A i \in DOMAIN ls : ls[i] \in Lineage
  BY DEF LinesGood
<1>3. broker[o][v].filled \in Nat /\ Contract[o] \in AllContracts
  BY VersionIs DEF AllContracts
<1>4. next = IF new = {} THEN ls
             ELSE IF o \in Opening
             THEN IF Homes(ls, o) = {}
                  THEN Append(ls, OpenPosition(o, broker[o][v].filled, new))
                  ELSE [ls EXCEPT ![Least(Homes(ls, o))].entries = @ \cup new]
             ELSE IF Cardinality(Holders(ls, o)) = 1
             THEN [ls EXCEPT ![Least(Holders(ls, o))].closes = @ \cup new]
             ELSE ls
  BY DEF LinkFills, New
<1>5. CASE new = {} \/ (o \notin Opening /\ Cardinality(Holders(ls, o)) # 1)
  <2>1. next = ls
    BY <1>4, <1>5
  <2> QED
    BY <2>1
<1> HIDE DEF new, next
<1>6. CASE new # {} /\ o \in Opening /\ Homes(ls, o) = {}
  <2> DEFINE opened == OpenPosition(o, broker[o][v].filled, new)
             n == Len(ls) + 1
  <2>1. opened \in Lineage /\ opened.entries = new
    BY <1>1, <1>3 DEF OpenPosition, Lineage
  <2> HIDE DEF opened
  <2>2. next = Append(ls, opened)
    BY <1>4, <1>6 DEF opened
  <2>3. /\ next \in Seq(Lineage) /\ DOMAIN next = 1..n /\ next[n] = opened
        /\ \A i \in DOMAIN ls : next[i] = ls[i]
    BY <1>2, <2>1, <2>2, AppendProperties
  <2>4. ASSUME NEW p \in Opening, NEW i \in FilledFrom(next, Kin(p)), NEW j \in FilledFrom(next, Kin(p))
        PROVE  i = j
    <3>1. \A k \in FilledFrom(next, Kin(p)) : k # n => k \in FilledFrom(ls, Kin(p))
      BY <1>2, <2>3 DEF FilledFrom
    <3>2. n \in FilledFrom(next, Kin(p)) => FilledFrom(ls, Kin(p)) = {}
      <4> SUFFICES ASSUME n \in FilledFrom(next, Kin(p)) PROVE FilledFrom(ls, Kin(p)) = {}
        OBVIOUS
      <4>1. o \in Kin(p)
        BY <1>1, <2>1, <2>3 DEF FilledFrom
      <4>2. Kin(p) = Kin(o)
        BY <4>1 DEF Kin
      <4>3. FilledFrom(ls, Kin(o)) = {}
        BY <1>6 DEF Homes
      <4> QED
        BY <4>2, <4>3
    <3> QED
      BY <1>2, <2>4, <3>1, <3>2 DEF Together
  <2> QED
    BY <2>3, <2>4 DEF LinesGood, Together, next
<1>7. CASE new # {} /\ o \in Opening /\ Homes(ls, o) # {}
  <2> DEFINE h == Least(Homes(ls, o))
  <2>1. Homes(ls, o) \subseteq DOMAIN ls /\ Homes(ls, o) \subseteq FilledFrom(ls, Kin(o))
    BY <1>7 DEF Homes, FilledFrom, Kin
  <2>2. h \in Homes(ls, o) /\ h \in DOMAIN ls
    BY <1>2, <1>7, <2>1, LeastIs
  <2> HIDE DEF h
  <2>3. next = [ls EXCEPT ![h].entries = @ \cup new]
    BY <1>4, <1>7 DEF h
  <2>4. /\ DOMAIN next = DOMAIN ls /\ \A i \in DOMAIN ls : i # h => next[i] = ls[i]
        /\ next[h] = [ls[h] EXCEPT !.entries = @ \cup new]
    BY <2>2, <2>3
  <2>5. next[h] \in Lineage /\ next[h].entries = ls[h].entries \cup new
    BY <1>1, <1>2, <2>2, <2>4 DEF Lineage
  <2>6. next \in Seq(Lineage)
    <3>1. next \in [1..Len(ls) -> Lineage]
      BY <1>2, <2>2, <2>3, <2>4, <2>5
    <3> QED
      BY <1>2, <3>1
  <2>7. ASSUME NEW p \in Opening, NEW i \in FilledFrom(next, Kin(p)) PROVE i \in FilledFrom(ls, Kin(p))
    <3>1. CASE i # h
      BY <2>4, <3>1, <2>7 DEF FilledFrom
    <3>2. CASE i = h
      <4>1. PICK e \in next[h].entries : e.order \in Kin(p)
        BY <2>7, <3>2 DEF FilledFrom
      <4>2. CASE e \in ls[h].entries
        BY <2>2, <3>2, <4>1, <4>2 DEF FilledFrom
      <4>3. CASE e \in new
        <5>1. o \in Kin(p)
          BY <1>1, <4>1, <4>3
        <5>2. Kin(p) = Kin(o)
          BY <5>1 DEF Kin
        <5> QED
          BY <2>1, <2>2, <3>2, <5>2
      <4> QED
        BY <2>5, <4>1, <4>2, <4>3
    <3> QED
      BY <3>1, <3>2
  <2> QED
    BY <1>2, <2>6, <2>7 DEF LinesGood, Together, next
<1>8. CASE new # {} /\ o \notin Opening /\ Cardinality(Holders(ls, o)) = 1
  <2> DEFINE h == Least(Holders(ls, o))
  <2>1. Holders(ls, o) \subseteq DOMAIN ls /\ Holders(ls, o) # {}
    <3>1. Cardinality({}) = 0
      BY FS_EmptySet
    <3> QED
      BY <1>8, <3>1 DEF Holders, Active
  <2>2. h \in DOMAIN ls
    BY <1>2, <2>1, LeastIs
  <2> HIDE DEF h
  <2>3. next = [ls EXCEPT ![h].closes = @ \cup new]
    BY <1>4, <1>8 DEF h
  <2>4. /\ DOMAIN next = DOMAIN ls /\ \A i \in DOMAIN ls : i # h => next[i] = ls[i]
        /\ next[h] = [ls[h] EXCEPT !.closes = @ \cup new]
    BY <2>2, <2>3
  <2>5. next[h] \in Lineage /\ next[h].entries = ls[h].entries
    BY <1>1, <1>2, <2>2, <2>4 DEF Lineage
  <2>6. next \in Seq(Lineage)
    <3>1. next \in [1..Len(ls) -> Lineage]
      BY <1>2, <2>2, <2>3, <2>4, <2>5
    <3> QED
      BY <1>2, <3>1
  <2>7. \A p \in Opening : FilledFrom(next, Kin(p)) = FilledFrom(ls, Kin(p))
    BY <2>4, <2>5 DEF FilledFrom
  <2> QED
    BY <1>2, <2>6, <2>7 DEF LinesGood, Together, next
<1> QED
  BY <1>5, <1>6, <1>7, <1>8 DEF next

LEMMA OldestIs ==
  ASSUME NEW S \in SUBSET Orders, IsFiniteSet(S), S # {}, \A o \in S : BrokerInv(o) /\ Exists(o)
  PROVE  Oldest(S) \in S
<1> DEFINE made == [o \in S |-> broker[o][1].at]
<1>1. \A o \in S : made[o] \in Int /\ made[o] = broker[o][1].at
  BY LastVersion, VersionIs
<1> HIDE DEF made
<1>2. PICK o \in S : \A p \in S : made[o] <= made[p]
  BY <1>1, EarliestDated
<1>3. \E x \in S : \A p \in S : broker[x][1].at <= broker[p][1].at
  BY <1>1, <1>2
<1> QED
  BY <1>3 DEF Oldest

\* LinkAll, one order after the other: its recursive function, and that it exists.
LinkStep(seen, detailed, s, g) ==
  IF s = {} THEN lineages
  ELSE LinkFills(g[s \ {Oldest(s)}], Oldest(s), seen[Oldest(s)], detailed)
Linked(seen, owned, detailed) ==
  CHOOSE g : g = [s \in SUBSET owned |-> LinkStep(seen, detailed, s, g)]

LEMMA LinkAllIs ==
  ASSUME NEW seen, NEW owned, NEW detailed
  PROVE  LinkAll(seen, owned, detailed) = Linked(seen, owned, detailed)[owned]
BY DEF LinkAll, Linked, LinkStep

LEMMA LinkedExists ==
  ASSUME NEW seen, NEW owned \in SUBSET Orders, IsFiniteSet(owned), NEW detailed,
         \A o \in owned : BrokerInv(o) /\ Exists(o)
  PROVE  \A s \in SUBSET owned :
           Linked(seen, owned, detailed)[s]
             = LinkStep(seen, detailed, s, Linked(seen, owned, detailed))
<1> DEFINE Good(g, n) == \A s \in SUBSET owned :
                           Cardinality(s) <= n => g[s] = LinkStep(seen, detailed, s, g)
           good == {n \in Nat : \E g : Good(g, n)}
<1>1. \A s \in SUBSET owned : IsFiniteSet(s) /\ Cardinality(s) \in Nat
  BY FS_Subset, FS_CardinalityType
<1>2. ASSUME NEW s \in SUBSET owned, s # {}
      PROVE  /\ s \ {Oldest(s)} \in SUBSET owned
             /\ Cardinality(s \ {Oldest(s)}) = Cardinality(s) - 1
  <2>1. Oldest(s) \in s
    BY <1>1, <1>2, OldestIs
  <2> QED
    BY <1>1, <2>1, FS_RemoveElement
<1>3. 0 \in good
  <2> DEFINE start == [s \in SUBSET owned |-> lineages]
  <2>1. ASSUME NEW s \in SUBSET owned, Cardinality(s) <= 0
        PROVE  start[s] = LinkStep(seen, detailed, s, start)
    <3>1. s = {}
      BY <1>1, <2>1, FS_EmptySet
    <3> QED
      BY <3>1 DEF LinkStep
  <2> QED
    BY <2>1
<1>4. ASSUME NEW n \in good PROVE n + 1 \in good
  <2>1. PICK g : Good(g, n)
    OBVIOUS
  <2> DEFINE h == [s \in SUBSET owned |->
                     IF Cardinality(s) <= n THEN g[s] ELSE LinkStep(seen, detailed, s, g)]
  <2>2. \A s \in SUBSET owned : Cardinality(s) <= n => h[s] = g[s]
    OBVIOUS
  <2>3. ASSUME NEW s \in SUBSET owned, Cardinality(s) <= n + 1
        PROVE  h[s] = LinkStep(seen, detailed, s, h)
    <3>1. h[s] = LinkStep(seen, detailed, s, g)
      BY <2>1
    <3>2. CASE s = {}
      BY <3>1, <3>2 DEF LinkStep
    <3>3. CASE s # {}
      <4>1. g[s \ {Oldest(s)}] = h[s \ {Oldest(s)}]
        <5> HIDE DEF h
        <5> QED
          BY <1>1, <1>2, <2>2, <2>3, <3>3
      <4> HIDE DEF h
      <4> QED
        BY <3>1, <3>3, <4>1 DEF LinkStep
    <3> QED
      BY <3>2, <3>3
  <2>4. Good(h, n + 1)
    BY <2>3
  <2> HIDE DEF Good, h
  <2> QED
    BY <2>4
<1>5. good = Nat
  <2> HIDE DEF good
  <2>1. good \in SUBSET Nat
    BY DEF good
  <2> QED
    BY <1>3, <1>4, <2>1, NaturalsByStep
<1>6. PICK g : \A s \in SUBSET owned : g[s] = LinkStep(seen, detailed, s, g)
  <2>1. Cardinality(owned) \in good
    BY <1>1, <1>5
  <2>2. PICK g : Good(g, Cardinality(owned))
    BY <2>1
  <2>3. \A s \in SUBSET owned : Cardinality(s) <= Cardinality(owned)
    BY FS_Subset
  <2> QED
    BY <2>2, <2>3
<1> DEFINE h == [s \in SUBSET owned |-> g[s]]
<1>7. ASSUME NEW s \in SUBSET owned PROVE h[s] = LinkStep(seen, detailed, s, h)
  <2>1. CASE s = {}
    BY <1>6, <2>1 DEF LinkStep
  <2>2. CASE s # {}
    <3>1. h[s \ {Oldest(s)}] = g[s \ {Oldest(s)}]
      BY <1>2, <2>2
    <3> QED
      BY <1>6, <2>2, <3>1 DEF LinkStep
  <2> QED
    BY <2>1, <2>2
<1>8. h = [s \in SUBSET owned |-> LinkStep(seen, detailed, s, h)]
  <2>1. DOMAIN h = SUBSET owned /\ h = [s \in SUBSET owned |-> h[s]]
    OBVIOUS
  <2> HIDE DEF h
  <2> QED
    BY <1>7, <2>1
<1>9. Linked(seen, owned, detailed)
        = [s \in SUBSET owned |-> LinkStep(seen, detailed, s, Linked(seen, owned, detailed))]
  <2> HIDE DEF h
  <2> QED
    BY <1>8 DEF Linked
<1> HIDE DEF h
<1> QED
  BY <1>9

LEMMA LinkAllKeeps ==
  ASSUME BooksInv, NEW seen, NEW owned \in SUBSET Orders, IsFiniteSet(owned), NEW detailed \in BOOLEAN,
         \A o \in owned : seen[o] \in DOMAIN broker[o]
  PROVE  LinesGood(LinkAll(seen, owned, detailed))
<1> DEFINE g == Linked(seen, owned, detailed)
           linked == {s \in SUBSET owned : LinesGood(g[s])}
<1>0. \A o \in owned : BrokerInv(o) /\ Exists(o)
  BY VersionIs DEF BooksInv
<1>1. \A s \in SUBSET owned : g[s] = LinkStep(seen, detailed, s, g)
  BY <1>0, LinkedExists
<1> HIDE DEF g
<1>2. {} \in linked
  BY <1>1 DEF LinkStep, BooksInv
<1>3. ASSUME NEW s \in SUBSET owned, s # {}, \A o \in s : s \ {o} \in linked PROVE s \in linked
  <2>1. Oldest(s) \in s
    <3>1. IsFiniteSet(s)
      BY FS_Subset
    <3> QED
      BY <1>0, <1>3, <3>1, OldestIs
  <2>2. LinesGood(g[s \ {Oldest(s)}])
    BY <1>3, <2>1
  <2>3. g[s] = LinkFills(g[s \ {Oldest(s)}], Oldest(s), seen[Oldest(s)], detailed)
    BY <1>1, <1>3 DEF LinkStep
  <2>4. LinesGood(g[s])
    BY <1>0, <2>1, <2>2, <2>3, LinkFillsKeeps
  <2> QED
    BY <2>4
<1>4. linked = SUBSET owned
  <2>1. linked \in SUBSET (SUBSET owned)
    OBVIOUS
  <2> HIDE DEF linked
  <2> QED
    BY <1>2, <1>3, <2>1, SubsetsByStep
<1>5. LinesGood(g[owned])
  BY <1>4
<1> QED
  BY <1>5, LinkAllIs DEF g

----------------------------------------------------------------------------
(* What the record of a snapshot adds.                                     *)

LEMMA FillIs ==
  ASSUME NEW o \in Orders, BrokerInv(o), FillsInv(o), NEW f \in fills[o]
  PROVE  /\ Key(f) \in [execution : 0..Quantity[o], quantity : 1..Quantity[o]]
         /\ f.execution \in 0..Quantity[o] /\ f.quantity \in 1..Quantity[o] /\ Quantity[o] \in Nat
<1>1. PICK v \in DOMAIN broker[o], detailed \in BOOLEAN : Key(f) \in Reported(o, v, detailed)
  BY DEF FillsInv, OfReport
<1>2. Key(f) \in [execution : 0..Quantity[o], quantity : 1..Quantity[o]]
  BY <1>1, ReportedIs
<1>3. Key(f).execution = f.execution /\ Key(f).quantity = f.quantity
  BY DEF Key
<1>4. Quantity[o] \in Nat
  BY LedgerAssumption DEF LedgerAssumption
<1> QED
  BY <1>2, <1>3, <1>4

LEMMA FillsFinite ==
  ASSUME NEW o \in Orders, BrokerInv(o), FillsInv(o)
  PROVE  IsFiniteSet(fills[o])
<1> DEFINE box == (0..Quantity[o]) \X (1..Quantity[o])
           m == [f \in fills[o] |-> <<f.execution, f.quantity>>]
<1>1. Quantity[o] \in Nat
  BY LedgerAssumption DEF LedgerAssumption
<1>2. IsFiniteSet(0..Quantity[o]) /\ IsFiniteSet(1..Quantity[o])
  BY <1>1, FS_Interval
<1>3. IsFiniteSet(box)
  BY <1>2, FS_Product
<1>4. ASSUME NEW f \in fills[o] PROVE m[f] \in box
  BY <1>4, FillIs
<1>5. ASSUME NEW f \in fills[o], NEW g \in fills[o], m[f] = m[g] PROVE f = g
  <2>1. Key(f) = Key(g)
    BY <1>5 DEF Key
  <2> QED
    BY <2>1 DEF FillsInv
<1>6. m \in [fills[o] -> box]
  BY <1>4
<1>7. m \in Injection(fills[o], box)
  BY <1>5, <1>6 DEF Injection, IsInjective
<1> QED
  BY <1>3, <1>7, FS_Injection

LEMMA FillsRecorded ==
  ASSUME BooksInv, NEW o \in Orders, NEW v \in DOMAIN broker[o], NEW detailed \in BOOLEAN,
         broker'[o] = broker[o], statuses'[o] = WithStatus(o, v), fills'[o] = WithFills(o, v, detailed)
  PROVE  StatusesInv(o)' /\ FillsInv(o)'
<1>1. BrokerInv(o) /\ StatusesInv(o) /\ FillsInv(o)
  BY DEF BooksInv
<1>2. ASSUME NEW e \in WithStatus(o, v)
      PROVE  e \in statuses[o] \/ (e.at = broker[o][v].at /\ e.status = StatusOf(broker[o][v].raw)
                                   /\ e.seq = Cardinality(statuses[o]) + 1)
  BY DEF WithStatus
<1>3. StatusesInv(o)'
  <2>1. IsFiniteSet(WithStatus(o, v))
    BY <1>1, FS_AddElement DEF WithStatus, StatusesInv
  <2>2. Cardinality(statuses[o]) + 1 \in Nat
    BY <1>1, FS_CardinalityType DEF StatusesInv
  <2>3. ASSUME NEW e \in WithStatus(o, v) PROVE e.seq \in Nat /\ OfVersion(o, e)
    BY <1>1, <1>2, <2>2 DEF StatusesInv, OfVersion
  <2>4. ASSUME NEW e \in WithStatus(o, v) PROVE e.seq \in Nat /\ OfVersion(o, e)'
    BY <2>3 DEF OfVersion
  <2> QED
    BY <2>1, <2>4 DEF StatusesInv
<1> DEFINE reported == Reported(o, v, detailed)
<1>4. ASSUME NEW f \in WithFills(o, v, detailed)
      PROVE  f \in fills[o] \/ (f.at = broker[o][v].at /\ Key(f) \in reported /\ Key(f) \notin KnownFills(o))
  <2> SUFFICES ASSUME f \notin fills[o]
      PROVE  f.at = broker[o][v].at /\ Key(f) \in reported /\ Key(f) \notin KnownFills(o)
    OBVIOUS
  <2>1. PICK k \in reported \ KnownFills(o) :
          f = [execution |-> k.execution, quantity |-> k.quantity, at |-> broker[o][v].at]
    BY <1>4 DEF WithFills, KnownFills
  <2>2. k \in [execution : 0..Quantity[o], quantity : 1..Quantity[o]]
    BY <1>1, ReportedIs
  <2>3. Key(f) = k
    BY <2>1, <2>2 DEF Key
  <2> QED
    BY <2>1, <2>3
<1>5. ASSUME NEW f \in WithFills(o, v, detailed) PROVE OfReport(o, f)'
  <2>1. OfReport(o, f)
    BY <1>1, <1>4 DEF FillsInv, OfReport
  <2> QED
    BY <2>1 DEF OfReport, Reported
<1>6. ASSUME NEW f \in WithFills(o, v, detailed), NEW g \in WithFills(o, v, detailed), Key(f) = Key(g)
      PROVE  f = g
  <2>1. CASE f \in fills[o] /\ g \in fills[o]
    BY <1>1, <1>6, <2>1 DEF FillsInv
  <2>2. CASE f \notin fills[o] /\ g \notin fills[o]
    <3>1. f \in {[execution |-> k.execution, quantity |-> k.quantity, at |-> broker[o][v].at] : k \in reported}
      BY <1>6, <2>2 DEF WithFills
    <3>2. g \in {[execution |-> k.execution, quantity |-> k.quantity, at |-> broker[o][v].at] : k \in reported}
      BY <1>6, <2>2 DEF WithFills
    <3> QED
      BY <1>6, <3>1, <3>2 DEF Key
  <2>3. f \in fills[o] => Key(f) \in KnownFills(o)
    BY DEF KnownFills
  <2>4. g \in fills[o] => Key(g) \in KnownFills(o)
    BY DEF KnownFills
  <2> QED
    BY <1>4, <1>6, <2>1, <2>2, <2>3, <2>4
<1>7. reported \subseteq KnownFills(o)' /\ KnownFills(o) \subseteq KnownFills(o)'
  <2>1. KnownFills(o)' = {Key(f) : f \in WithFills(o, v, detailed)}
    BY DEF KnownFills, Key
  <2>2. fills[o] \subseteq WithFills(o, v, detailed)
    BY DEF WithFills
  <2>3. KnownFills(o) \subseteq {Key(f) : f \in WithFills(o, v, detailed)}
    BY <2>2 DEF KnownFills
  <2>4. ASSUME NEW k \in reported \ KnownFills(o) PROVE k \in {Key(f) : f \in WithFills(o, v, detailed)}
    <3> DEFINE f == [execution |-> k.execution, quantity |-> k.quantity, at |-> broker[o][v].at]
    <3>1. f \in WithFills(o, v, detailed)
      BY DEF WithFills, KnownFills
    <3>2. k \in [execution : 0..Quantity[o], quantity : 1..Quantity[o]]
      BY <1>1, ReportedIs
    <3>3. Key(f) = k
      BY <3>2 DEF Key
    <3> QED
      BY <3>1, <3>3
  <2> QED
    BY <2>1, <2>3, <2>4
<1>8. ASSUME NEW e \in WithStatus(o, v), NEW w \in DOMAIN broker[o], e.at = broker[o][w].at
      PROVE  Learned(o, w)'
  <2>1. \E d \in BOOLEAN : Reported(o, w, d) \subseteq KnownFills(o)'
    <3>1. CASE e \in statuses[o]
      BY <1>1, <1>7, <1>8, <3>1 DEF FillsInv, Learned
    <3>2. CASE e \notin statuses[o]
      <4>1. w = v
        BY <1>1, <1>2, <1>8, <3>2, VersionsDiffer
      <4> QED
        BY <1>7, <4>1
    <3> QED
      BY <3>1, <3>2
  <2>2. \A d \in BOOLEAN : Reported(o, w, d)' = Reported(o, w, d)
    BY DEF Reported
  <2> QED
    BY <2>1, <2>2 DEF Learned
<1>9. FillsInv(o)'
  <2>1. \A f, g \in fills'[o] : Key(f) = Key(g) => f = g
    BY <1>6
  <2>2. \A f \in fills'[o] : OfReport(o, f)'
    BY <1>5
  <2>3. \A e \in statuses'[o] : \A w \in DOMAIN broker'[o] : e.at = broker'[o][w].at => Learned(o, w)'
    BY <1>8
  <2> QED
    BY <2>1, <2>2, <2>3 DEF FillsInv, Key
<1> QED
  BY <1>3, <1>9

\* A terminal version is the order's last one.
LEMMA ConfirmingIsOver ==
  ASSUME NEW o \in Orders, BrokerInv(o), NEW v \in DOMAIN broker[o], Confirming(o, v)
  PROVE  IsOver(o) /\ v = Len(broker[o])
<1>1. Exists(o) /\ broker[o][v].raw \in WorkingStates \cup TerminalStates
  BY VersionIs
<1>2. broker[o][v].raw \in TerminalStates /\ broker[o][v].raw \notin WorkingStates
  BY <1>1, States DEF Confirming
<1>3. v = Len(broker[o]) /\ Current(o) = broker[o][v]
  BY <1>1, <1>2, LastVersion
<1> QED
  BY <1>1, <1>2, <1>3 DEF IsOver, Works

LEMMA CancelsRecorded ==
  ASSUME BooksInv, NEW o \in Orders, NEW v \in DOMAIN broker[o],
         broker'[o] = broker[o], cancels'[o] = WithConfirmations(o, v),
         \A c \in Calls : call[c].kind = "cancelled" => call'[c].kind = "cancelled"
  PROVE  CancelsInv(o)'
<1>1. BrokerInv(o) /\ CancelsInv(o)
  BY DEF BooksInv
<1>2. IsOver(o)' = IsOver(o)
  BY DEF IsOver, Exists, Works, Current
<1>3. CASE ~Confirming(o, v)
  BY <1>1, <1>2, <1>3 DEF WithConfirmations, CancelsInv
<1>4. CASE Confirming(o, v)
  <2>1. IsOver(o) /\ broker[o][v].at \in Int
    BY <1>1, <1>4, ConfirmingIsOver, VersionIs
  <2>2. ASSUME NEW e \in cancels'[o]
        PROVE  \/ e \in cancels[o]
               \/ /\ e = CancelEvent(e.cancel, "confirmed", broker[o][v].at)
                  /\ e.status = "confirmed" /\ e.at = broker[o][v].at
                  /\ \E f \in cancels[o] : f.cancel = e.cancel
                  /\ \A f \in cancels[o] : f.cancel = e.cancel => f.status # "confirmed"
    BY <1>4, <2>2 DEF WithConfirmations, CancelEvent
  <2>3. ASSUME NEW e \in cancels'[o]
        PROVE  /\ e.status \in {"pending", "unknown", "confirmed"} /\ e.at \in Int
               /\ e.cancel \in Calls /\ call'[e.cancel].kind = "cancelled"
    BY <1>1, <2>1, <2>2 DEF CancelsInv
  <2>4. ASSUME NEW e \in cancels'[o], NEW f \in cancels'[o],
               e.cancel = f.cancel, e.status = "confirmed" <=> f.status = "confirmed"
        PROVE  e = f
    <3>1. CASE e \in cancels[o] /\ f \in cancels[o]
      BY <1>1, <2>4, <3>1 DEF CancelsInv
    <3>2. CASE e \notin cancels[o] /\ f \notin cancels[o]
      BY <2>2, <2>4, <3>2
    <3>3. CASE e \notin cancels[o] /\ f \in cancels[o]
      BY <2>2, <2>4, <3>3
    <3>4. CASE e \in cancels[o] /\ f \notin cancels[o]
      BY <2>2, <2>4, <3>4
    <3> QED
      BY <3>1, <3>2, <3>3, <3>4
  <2> QED
    BY <1>2, <2>1, <2>3, <2>4 DEF CancelsInv
<1> QED
  BY <1>3, <1>4

LEMMA RecordsStay ==
  ASSUME BooksInv, NEW o \in Orders, broker'[o] = broker[o], statuses'[o] = statuses[o],
         fills'[o] = fills[o], cancels'[o] = cancels[o],
         \A c \in Calls : call[c].kind = "cancelled" => call'[c].kind = "cancelled"
  PROVE  StatusesInv(o)' /\ FillsInv(o)' /\ CancelsInv(o)'
<1>1. StatusesInv(o) /\ FillsInv(o) /\ CancelsInv(o)
  BY DEF BooksInv
<1>2. StatusesInv(o)'
  BY <1>1 DEF StatusesInv, OfVersion
<1>3. FillsInv(o)'
  BY <1>1 DEF FillsInv, OfReport, Learned, KnownFills, Key, Reported
<1>4. CancelsInv(o)'
  BY <1>1 DEF CancelsInv, IsOver, Exists, Works, Current
<1> QED
  BY <1>2, <1>3, <1>4

\* What a recorded snapshot leaves of the invariant: the parts about what is recorded.
RecordsGood ==
  /\ \A o \in Orders : StatusesInv(o)
  /\ \A o \in Orders : FillsInv(o)
  /\ \A o \in Orders : CancelsInv(o)
  /\ LinesGood(lineages)
  /\ statuses = [o \in Orders |-> statuses[o]] /\ fills = [o \in Orders |-> fills[o]]
  /\ cancels = [o \in Orders |-> cancels[o]]

LEMMA RecordsKeep ==
  ASSUME BooksInv, NEW seen, \A o \in Orders : seen[o] \in 0..Len(broker[o]),
         NEW owned \in SUBSET Orders, IsFiniteSet(owned), NEW detailed \in BOOLEAN,
         RecordOrders(seen, owned, detailed), broker' = broker,
         \A c \in Calls : call[c].kind = "cancelled" => call'[c].kind = "cancelled"
  PROVE  RecordsGood'
<1> DEFINE shown == {o \in Orders : seen[o] # 0}
<1>1. /\ statuses' = [o \in Orders |-> IF o \in shown THEN WithStatus(o, seen[o]) ELSE statuses[o]]
      /\ fills' = [o \in Orders |-> IF o \in shown THEN WithFills(o, seen[o], detailed) ELSE fills[o]]
      /\ cancels' = [o \in Orders |-> IF o \in shown THEN WithConfirmations(o, seen[o]) ELSE cancels[o]]
      /\ lineages' = LinkAll(seen, shown \cap owned, detailed)
  BY DEF RecordOrders
<1>2. \A o \in shown : seen[o] \in DOMAIN broker[o]
  <2> SUFFICES ASSUME NEW o \in Orders, seen[o] # 0 PROVE seen[o] \in DOMAIN broker[o]
    OBVIOUS
  <2>1. broker[o] \in Seq(VersionsOf(o)) /\ seen[o] \in 0..Len(broker[o])
    BY DEF BooksInv, BrokerInv
  <2> QED
    BY <2>1
<1>3. shown \subseteq Orders /\ IsFiniteSet(shown \cap owned)
  BY FS_Intersection
<1> HIDE DEF shown
<1>4. ASSUME NEW o \in Orders PROVE StatusesInv(o)' /\ FillsInv(o)' /\ CancelsInv(o)'
  <2>1. broker'[o] = broker[o]
    OBVIOUS
  <2>2. CASE o \in shown
    <3>1. /\ statuses'[o] = WithStatus(o, seen[o]) /\ fills'[o] = WithFills(o, seen[o], detailed)
          /\ cancels'[o] = WithConfirmations(o, seen[o]) /\ seen[o] \in DOMAIN broker[o]
      BY <1>1, <1>2, <2>2
    <3> QED
      BY <2>1, <3>1, FillsRecorded, CancelsRecorded
  <2>3. CASE o \notin shown
    <3>1. statuses'[o] = statuses[o] /\ fills'[o] = fills[o] /\ cancels'[o] = cancels[o]
      BY <1>1, <2>3
    <3> QED
      BY <2>1, <3>1, RecordsStay
  <2> QED
    BY <2>2, <2>3
<1>5. LinesGood(lineages)'
  <2>1. LinesGood(LinkAll(seen, shown \cap owned, detailed))
    BY <1>2, <1>3, LinkAllKeeps
  <2>2. LinesGood(lineages')
    BY <1>1, <2>1
  <2> QED
    BY <2>2 DEF LinesGood, Together, FilledFrom, Kin, Lineage, AllContracts
<1>6. /\ statuses' = [o \in Orders |-> statuses'[o]] /\ fills' = [o \in Orders |-> fills'[o]]
      /\ cancels' = [o \in Orders |-> cancels'[o]]
  BY <1>1
<1> QED
  BY <1>4, <1>5, <1>6 DEF RecordsGood

\* The parts that rest on the broker and the calls, when the broker does not move.
LEMMA BrokerStays ==
  ASSUME BooksInv, UNCHANGED brokerVars, NEW o \in Orders,
         requestedAt'[o] = requestedAt[o] \/ ~Exists(o),
         place'[o] \in {"sent", "done"} \/ ~Exists(o)
  PROVE  BrokerInv(o)'
<1>1. BrokerInv(o) /\ UNCHANGED <<now, broker>>
  BY DEF BooksInv, brokerVars
<1> QED
  BY <1>1 DEF BrokerInv, Exists, Created, VersionsOf

LEMMA AskedStays ==
  ASSUME BooksInv, UNCHANGED <<now, broker>>, NEW c \in Calls, call'[c] = call[c]
  PROVE  AskedInv(c)'
<1>1. AskedInv(c)
  BY DEF BooksInv
<1> QED
  BY <1>1 DEF AskedInv, SnapshotInv, Exists, Created, AllContracts

----------------------------------------------------------------------------
(* The ledger's steps.                                                     *)

LEMMA PlacingStep ==
  ASSUME BooksInv, NEW o \in Orders, Placing(o)
  PROVE  BooksInv'
<1>0. BooksTyped /\ PlacingInv(o) /\ now \in Nat
  BY DEF BooksInv, BooksTyped
<1>1. /\ UNCHANGED <<now, broker, held, call, noOrder>>
      /\ \A p \in Orders \ {o} : place'[p] = place[p] /\ requestedAt'[p] = requestedAt[p]
      /\ intents' \subseteq Orders /\ intents \subseteq intents' /\ place' = [p \in Orders |-> place'[p]]
      /\ requestedAt' = [p \in Orders |-> requestedAt'[p]]
  <2>1. CASE Request(o)
    BY <1>0, <2>1 DEF Request, brokerVars, BooksTyped
  <2>2. CASE RecordIntent(o)
    BY <1>0, <2>2 DEF RecordIntent, brokerVars, BooksTyped
  <2>3. CASE PlaceReturns(o)
    BY <1>0, <2>3 DEF PlaceReturns, brokerVars, BooksTyped
  <2> QED
    BY <2>1, <2>2, <2>3 DEF Placing
<1>2. /\ place'[o] \in {"none", "requested", "sent", "done"} /\ requestedAt'[o] \in 0..now
      /\ place'[o] \in {"sent", "done"} => o \in intents'
      /\ (requestedAt'[o] = requestedAt[o] /\ place'[o] \in {"sent", "done"}) \/ ~Exists(o)
      /\ noOrder'[o] = noOrder[o]
  <2>0. Exists(o) => place[o] \in {"sent", "done"}
    BY DEF BooksInv, BrokerInv
  <2>1. CASE Request(o)
    BY <1>0, <2>0, <2>1 DEF Request, PlacingInv, BooksTyped
  <2>2. CASE RecordIntent(o)
    BY <1>0, <2>0, <2>2 DEF RecordIntent, PlacingInv, BooksTyped
  <2>3. CASE PlaceReturns(o)
    BY <1>0, <2>0, <2>3 DEF PlaceReturns, PlacingInv, BooksTyped
  <2> QED
    BY <2>1, <2>2, <2>3 DEF Placing
<1>3. RecordsGood' /\ links' \subseteq intents' /\ IsFiniteSet(links')
  <2>1. CASE Request(o) \/ RecordIntent(o)
    <3>1. UNCHANGED <<links, statuses, fills, cancels, lineages>>
      BY <2>1 DEF Request, RecordIntent, recorded
    <3>2. ASSUME NEW p \in Orders PROVE StatusesInv(p)' /\ FillsInv(p)' /\ CancelsInv(p)'
      BY <1>1, <3>1, RecordsStay
    <3>3. LinesGood(lineages)'
      BY <3>1 DEF BooksInv, LinesGood, Together, FilledFrom, Kin, Lineage, AllContracts
    <3> QED
      BY <1>0, <1>1, <3>1, <3>2, <3>3 DEF RecordsGood, BooksTyped
  <2>2. CASE PlaceReturns(o)
    <3>1. PICK v \in 1..Len(broker[o]), detailed \in BOOLEAN :
            RecordOrders([p \in Orders |-> IF p = o THEN v ELSE 0], links \cup {o}, detailed)
      BY <2>2 DEF PlaceReturns
    <3> DEFINE seen == [p \in Orders |-> IF p = o THEN v ELSE 0]
    <3>2. \A p \in Orders : seen[p] \in 0..Len(broker[p])
      BY DEF BooksInv, BrokerInv
    <3>3. links \cup {o} \in SUBSET Orders /\ IsFiniteSet(links \cup {o})
      BY <1>0, FS_AddElement DEF BooksTyped
    <3>4. RecordOrders(seen, links \cup {o}, detailed)
      BY <3>1
    <3> HIDE DEF seen
    <3>5. RecordsGood'
      BY <1>1, <3>2, <3>3, <3>4, RecordsKeep
    <3>6. links' = links \cup {o} /\ o \in intents /\ intents' = intents
      BY <1>0, <2>2 DEF PlaceReturns, PlacingInv
    <3> QED
      BY <1>0, <3>3, <3>5, <3>6 DEF BooksTyped
  <2> QED
    BY <2>1, <2>2 DEF Placing
<1>4. ASSUME NEW p \in Orders PROVE BrokerInv(p)' /\ PlacingInv(p)'
  <2>1. UNCHANGED brokerVars
    BY <1>1 DEF brokerVars
  <2>2. PlacingInv(p) /\ BrokerInv(p)
    BY DEF BooksInv
  <2>3. CASE p = o
    <3>1. BrokerInv(p)'
      BY <1>2, <2>1, <2>3, BrokerStays
    <3>2. PlacingInv(p)'
      BY <1>1, <1>2, <2>2, <2>3 DEF PlacingInv, Exists, Created
    <3> QED
      BY <3>1, <3>2
  <2>4. CASE p # o
    <3>1. place'[p] = place[p] /\ requestedAt'[p] = requestedAt[p]
      BY <1>1, <2>4
    <3>2. BrokerInv(p)'
      BY <2>1, <2>2, <3>1, BrokerStays DEF BrokerInv
    <3>3. PlacingInv(p)'
      BY <1>1, <2>2, <3>1 DEF PlacingInv, Exists, Created
    <3> QED
      BY <3>2, <3>3
  <2> QED
    BY <2>3, <2>4
<1>5. ASSUME NEW c \in Calls PROVE AskedInv(c)'
  BY <1>1, AskedStays
<1>6. BooksTyped'
  BY <1>0, <1>1, <1>3 DEF BooksTyped, RecordsGood
<1> QED
  BY <1>3, <1>4, <1>5, <1>6 DEF BooksInv, RecordsGood

LEMMA CallingStep ==
  ASSUME BooksInv, NEW c \in Calls, Calling(c)
  PROVE  BooksInv'
<1>0. /\ BooksTyped /\ AskedInv(c) /\ now \in Nat /\ Skew \in Int /\ Margin \in Nat /\ Margin + Skew >= 0
      /\ LinesGood(lineages)
  BY LedgerAssumption, ClocksAssumption DEF BooksInv, BooksTyped, LedgerAssumption, ClocksAssumption
<1>1. /\ UNCHANGED <<now, broker, held, place, requestedAt, intents, links>>
      /\ call' = [call EXCEPT ![c] = call'[c]]
  <2>0. call = [k \in Calls |-> call[k]]
    BY <1>0 DEF BooksTyped
  <2>1. CASE AskOrders(c)
    <3>1. PICK what : Ask(c, what)
      BY <2>1 DEF AskOrders
    <3> QED
      BY <2>0, <3>1 DEF Ask, brokerVars, recorded
  <2>2. CASE OrdersReturn(c)
    BY <2>0, <2>2 DEF OrdersReturn, brokerVars
  <2>3. CASE AskCancel(c)
    <3>1. PICK what : Ask(c, what)
      BY <2>3 DEF AskCancel
    <3> QED
      BY <2>0, <3>1 DEF Ask, brokerVars, recorded
  <2>4. CASE CancelReturns(c)
    <3>1. call' = [call EXCEPT ![c].kind = "cancelled"]
      BY <2>4 DEF CancelReturns
    <3>2. call'[c] = [call[c] EXCEPT !.kind = "cancelled"]
      BY <2>0, <3>1
    <3>3. call' = [call EXCEPT ![c] = call'[c]]
      BY <3>1, <3>2
    <3> QED
      BY <2>4, <3>3 DEF CancelReturns, brokerVars
  <2>5. CASE AskPositions(c)
    BY <2>0, <2>5 DEF AskPositions, Ask, brokerVars, recorded
  <2>6. CASE PositionsReturn(c)
    BY <2>0, <2>6 DEF PositionsReturn, brokerVars
  <2> QED
    BY <2>1, <2>2, <2>3, <2>4, <2>5, <2>6 DEF Calling
<1>2. /\ call' = [k \in Calls |-> call'[k]] /\ \A k \in Calls \ {c} : call'[k] = call[k]
  BY <1>0, <1>1 DEF BooksTyped
<1>3. /\ AskedInv(c)' /\ (call[c].kind = "cancelled" => call'[c].kind = "cancelled")
  <2>1. CASE AskOrders(c)
    <3>1. PICK S \in {Orders} \cup {{o} : o \in links} :
            Ask(c, [kind |-> "orders", complete |-> S = Orders, taken |-> now,
                    seen |-> [o \in Orders |-> IF o \in S THEN Len(broker[o]) ELSE 0]])
      BY <2>1 DEF AskOrders
    <3> DEFINE seen == [o \in Orders |-> IF o \in S THEN Len(broker[o]) ELSE 0]
    <3>2. /\ call'[c].kind = "orders" /\ call'[c].complete = (S = Orders) /\ call'[c].taken = now
          /\ call'[c].seen = seen
      <4>1. call'[c] = [kind |-> "orders", complete |-> S = Orders, taken |-> now, seen |-> seen]
        BY <1>0, <3>1 DEF Ask, BooksTyped
      <4> HIDE DEF seen
      <4> QED
        BY <4>1
    <3>3. ASSUME NEW o \in Orders
          PROVE  /\ seen[o] \in 0..Len(broker[o])
                 /\ S = Orders /\ seen[o] = 0 => ~Exists(o)
      <4>1. broker[o] \in Seq(VersionsOf(o))
        BY DEF BooksInv, BrokerInv
      <4> QED
        BY <4>1 DEF Exists
    <3> HIDE DEF seen
    <3>4. SnapshotInv(c)'
      <4>1. call'[c].taken \in 0..now'
        BY <1>0, <1>1, <3>2
      <4>2. ASSUME NEW o \in Orders
            PROVE  /\ call'[c].seen[o] \in 0..Len(broker'[o])
                   /\ call'[c].complete /\ call'[c].seen[o] = 0 => ~(broker'[o] # <<>>)
        BY <1>1, <3>2, <3>3 DEF Exists
      <4> QED
        BY <4>1, <4>2 DEF SnapshotInv, Exists
    <3>5. call[c].kind # "cancelled"
      BY <3>1 DEF Ask, Idle
    <3> QED
      BY <3>2, <3>4, <3>5 DEF AskedInv
  <2>2. CASE OrdersReturn(c) \/ PositionsReturn(c)
    <3>1. call'[c].kind = "done" /\ call[c].kind # "cancelled"
      BY <1>0, <2>2 DEF OrdersReturn, PositionsReturn, BooksTyped
    <3> QED
      BY <3>1 DEF AskedInv
  <2>3. CASE AskCancel(c)
    <3>1. PICK o \in Orders : Ask(c, [kind |-> "cancel", order |-> o])
      BY <2>3 DEF AskCancel
    <3>2. call'[c] = [kind |-> "cancel", order |-> o] /\ call[c].kind # "cancelled"
      BY <1>0, <3>1 DEF Ask, Idle, BooksTyped
    <3> QED
      BY <3>2 DEF AskedInv
  <2>4. CASE CancelReturns(c)
    <3>1. call'[c] = [call[c] EXCEPT !.kind = "cancelled"] /\ call[c].kind = "cancel"
      BY <1>0, <2>4 DEF CancelReturns, BooksTyped
    <3>2. call[c] \in [kind : {"cancel", "cancelled"}, order : Orders]
      BY <1>0, <3>1 DEF AskedInv
    <3>3. call'[c] \in [kind : {"cancel", "cancelled"}, order : Orders] /\ call'[c].kind = "cancelled"
      BY <3>1, <3>2
    <3> QED
      BY <3>3 DEF AskedInv
  <2>5. CASE AskPositions(c)
    <3>1. call'[c] = [kind |-> "positions", held |-> held] /\ call[c].kind # "cancelled"
      BY <1>0, <2>5 DEF AskPositions, Ask, Idle, BooksTyped
    <3>2. held \in [AllContracts -> Nat]
      BY <1>0 DEF BooksTyped
    <3> QED
      BY <3>1, <3>2 DEF AskedInv, AllContracts
  <2> QED
    BY <2>1, <2>2, <2>3, <2>4, <2>5 DEF Calling
<1>4. \A k \in Calls : call[k].kind = "cancelled" => call'[k].kind = "cancelled"
  BY <1>2, <1>3
<1>5. ASSUME NEW k \in Calls PROVE AskedInv(k)'
  BY <1>1, <1>2, <1>3, AskedStays
<1>6. /\ noOrder' = [o \in Orders |-> noOrder'[o]]
      /\ \A o \in Orders : noOrder'[o] = noOrder[o]
           \/ /\ call[c].kind = "orders" /\ call[c].complete /\ noOrder'[o] = call[c].taken + 1
              /\ NothingSince(o, call[c].seen)
  <2>0. noOrder = [o \in Orders |-> noOrder[o]]
    BY <1>0 DEF BooksTyped
  <2>1. CASE OrdersReturn(c)
    BY <2>1 DEF OrdersReturn, Resolve
  <2>2. CASE ~OrdersReturn(c)
    <3>1. noOrder' = noOrder
      BY <2>2 DEF Calling, AskOrders, AskCancel, CancelReturns, AskPositions, PositionsReturn, Ask
    <3> QED
      BY <2>0, <3>1
  <2> QED
    BY <2>1, <2>2
<1>7. ASSUME NEW o \in Orders PROVE BrokerInv(o)' /\ PlacingInv(o)'
  <2>1. PlacingInv(o) /\ BrokerInv(o)
    BY DEF BooksInv
  <2>2. BrokerInv(o)'
    BY <1>1, <2>1, BrokerStays DEF BrokerInv, brokerVars
  <2>3. /\ noOrder'[o] \in 0..(now + 1)
        /\ noOrder'[o] # 0 /\ Exists(o) => Created(o) - Skew >= noOrder'[o]
    <3>1. CASE noOrder'[o] = noOrder[o]
      BY <2>1, <3>1 DEF PlacingInv
    <3>2. CASE noOrder'[o] # noOrder[o]
      <4>1. /\ call[c].kind = "orders" /\ call[c].complete /\ noOrder'[o] = call[c].taken + 1
            /\ NothingSince(o, call[c].seen) /\ SnapshotInv(c)
        BY <1>0, <1>6, <3>2 DEF AskedInv
      <4>2. call[c].taken \in 0..now
        BY <4>1 DEF SnapshotInv
      <4>3. ASSUME Exists(o) PROVE Created(o) - Skew >= noOrder'[o]
        <5>1. Created(o) \in Int /\ requestedAt[o] \in Nat
          BY <2>1, <4>3, LastVersion, VersionIs DEF Created, PlacingInv
        <5>2. CASE call[c].seen[o] = 0
          BY <1>0, <4>1, <4>2, <4>3, <5>1, <5>2 DEF SnapshotInv
        <5>3. CASE call[c].seen[o] # 0
          <6>1. Created(o) < requestedAt[o] - Margin
            BY <4>1, <5>3 DEF NothingSince
          <6>2. Created(o) > requestedAt[o] + Skew
            BY <2>1, <4>3 DEF BrokerInv
          <6> QED
            BY <1>0, <5>1, <6>1, <6>2
        <5> QED
          BY <5>2, <5>3
      <4> QED
        BY <1>0, <4>1, <4>2, <4>3
    <3> QED
      BY <3>1, <3>2
  <2>4. PlacingInv(o)'
    BY <1>1, <2>1, <2>3 DEF PlacingInv, Exists, Created
  <2> QED
    BY <2>2, <2>4
<1>8. RecordsGood'
  <2>1. CASE OrdersReturn(c)
    <3>1. PICK detailed \in BOOLEAN : RecordOrders(call[c].seen, links, detailed)
      BY <2>1 DEF OrdersReturn
    <3>2. call[c].kind = "orders"
      BY <2>1 DEF OrdersReturn
    <3>3. \A o \in Orders : call[c].seen[o] \in 0..Len(broker[o])
      BY <1>0, <3>2 DEF AskedInv, SnapshotInv
    <3>4. links \in SUBSET Orders /\ IsFiniteSet(links)
      BY <1>0 DEF BooksTyped
    <3> QED
      BY <1>1, <1>4, <3>1, <3>3, <3>4, RecordsKeep
  <2>2. CASE CancelReturns(c)
    <3>1. PICK status \in {"pending", "unknown"} :
            cancels' = [cancels EXCEPT ![call[c].order] = @ \cup {CancelEvent(c, status, now)}]
      BY <2>2 DEF CancelReturns
    <3>2. call[c].kind = "cancel" /\ UNCHANGED <<statuses, fills, lineages>> /\ call[c].order \in Orders
      BY <1>0, <2>2 DEF CancelReturns, AskedInv
    <3>3. /\ cancels' = [o \in Orders |-> cancels'[o]]
          /\ cancels'[call[c].order] = cancels[call[c].order] \cup {CancelEvent(c, status, now)}
          /\ \A o \in Orders : o # call[c].order => cancels'[o] = cancels[o]
      BY <1>0, <3>1, <3>2 DEF BooksTyped
    <3>4. ASSUME NEW o \in Orders PROVE StatusesInv(o)' /\ FillsInv(o)' /\ CancelsInv(o)'
      <4>1. CASE o # call[c].order
        BY <1>1, <1>4, <3>2, <3>3, <4>1, RecordsStay
      <4>2. CASE o = call[c].order
        <5>1. StatusesInv(o) /\ FillsInv(o) /\ CancelsInv(o)
          BY DEF BooksInv
        <5>2. StatusesInv(o)'
          BY <1>1, <3>2, <5>1 DEF StatusesInv, OfVersion
        <5>3. FillsInv(o)'
          BY <1>1, <3>2, <5>1 DEF FillsInv, OfReport, Learned, KnownFills, Key, Reported
        <5>4. call'[c].kind = "cancelled"
          <6>1. call'[c] = [call[c] EXCEPT !.kind = "cancelled"]
            BY <1>0, <2>2 DEF CancelReturns, BooksTyped
          <6>2. call[c] \in [kind : {"cancel", "cancelled"}, order : Orders]
            BY <1>0, <3>2 DEF AskedInv
          <6> QED
            BY <6>1, <6>2
        <5>5. \A e \in cancels[o] : e.cancel # c
          BY <3>2, <5>1 DEF CancelsInv
        <5> DEFINE e0 == CancelEvent(c, status, now)
        <5>6. e0.cancel = c /\ e0.at = now /\ e0.status \in {"pending", "unknown"}
          BY DEF CancelEvent
        <5> HIDE DEF e0
        <5>7. cancels'[o] = cancels[o] \cup {e0}
          BY <3>3, <4>2 DEF e0
        <5>8. IsOver(o)' = IsOver(o)
          BY <1>1 DEF IsOver, Exists, Works, Current
        <5>9. ASSUME NEW e \in cancels'[o]
              PROVE  /\ e.status \in {"pending", "unknown", "confirmed"} /\ e.at \in Int
                     /\ e.cancel \in Calls /\ call'[e.cancel].kind = "cancelled"
                     /\ e.status = "confirmed" => IsOver(o)
          BY <1>0, <1>4, <5>1, <5>4, <5>6, <5>7 DEF CancelsInv
        <5>10. ASSUME NEW e \in cancels'[o], NEW f \in cancels'[o], e.cancel = f.cancel,
                      e.status = "confirmed" <=> f.status = "confirmed"
               PROVE  e = f
          BY <5>1, <5>5, <5>6, <5>7, <5>10 DEF CancelsInv
        <5>11. CancelsInv(o)'
          BY <5>8, <5>9, <5>10 DEF CancelsInv
        <5> QED
          BY <5>2, <5>3, <5>11
      <4> QED
        BY <4>1, <4>2
    <3>5. LinesGood(lineages)'
      BY <1>0, <3>2 DEF LinesGood, Together, FilledFrom, Kin, Lineage, AllContracts
    <3> QED
      BY <1>0, <3>2, <3>3, <3>4, <3>5 DEF RecordsGood, BooksTyped
  <2>3. ASSUME UNCHANGED <<statuses, fills, cancels>>, LinesGood(lineages') PROVE RecordsGood'
    <3>1. ASSUME NEW o \in Orders PROVE StatusesInv(o)' /\ FillsInv(o)' /\ CancelsInv(o)'
      BY <1>1, <1>4, <2>3, RecordsStay
    <3>2. LinesGood(lineages)'
      BY <2>3 DEF LinesGood, Together, FilledFrom, Kin, Lineage, AllContracts
    <3> QED
      BY <1>0, <2>3, <3>1, <3>2 DEF RecordsGood, BooksTyped
  <2>4. CASE AskOrders(c) \/ AskCancel(c) \/ AskPositions(c)
    <3>1. UNCHANGED <<statuses, fills, cancels, lineages>>
      BY <2>4 DEF AskOrders, AskCancel, AskPositions, Ask, recorded
    <3> QED
      BY <1>0, <2>3, <3>1
  <2>5. CASE PositionsReturn(c)
    <3>1. /\ UNCHANGED <<statuses, fills, cancels>> /\ call[c].kind = "positions"
          /\ lineages' = [i \in DOMAIN lineages |-> Reconciled(lineages[i], call[c].held)]
      BY <2>5 DEF PositionsReturn
    <3>2. call[c].held \in [AllContracts -> Nat] /\ lineages \in Seq(Lineage)
      BY <1>0, <3>1 DEF AskedInv, LinesGood
    <3>3. ASSUME NEW l \in Lineage
          PROVE  /\ Reconciled(l, call[c].held) \in Lineage
                 /\ Reconciled(l, call[c].held).entries = l.entries
      <4>1. call[c].held[l.contract] \in Nat
        BY <3>2 DEF Lineage
      <4> QED
        BY <4>1 DEF Reconciled, Lineage
    <3>4. /\ DOMAIN lineages' = DOMAIN lineages /\ lineages' \in Seq(Lineage)
          /\ \A i \in DOMAIN lineages : lineages'[i].entries = lineages[i].entries
      <4>1. DOMAIN lineages = 1..Len(lineages) /\ Len(lineages) \in Nat
        BY <3>2
      <4>2. \A i \in DOMAIN lineages : lineages[i] \in Lineage
        BY <3>2
      <4>3. lineages' \in [1..Len(lineages) -> Lineage]
        BY <3>1, <3>3, <4>1, <4>2
      <4>4. lineages' \in Seq(Lineage)
        BY <4>1, <4>3
      <4> QED
        BY <3>1, <3>3, <4>2, <4>4
    <3>5. \A o \in Opening : FilledFrom(lineages', Kin(o)) = FilledFrom(lineages, Kin(o))
      BY <3>4 DEF FilledFrom
    <3>6. LinesGood(lineages')
      BY <1>0, <3>4, <3>5 DEF LinesGood, Together
    <3> QED
      BY <2>3, <3>1, <3>6
  <2> QED
    BY <2>1, <2>2, <2>4, <2>5 DEF Calling
<1>9. BooksTyped'
  BY <1>0, <1>1, <1>2, <1>6, <1>8 DEF BooksTyped, RecordsGood
<1> QED
  BY <1>5, <1>7, <1>8, <1>9 DEF BooksInv, RecordsGood

\* Every step keeps the invariant.
LEMMA BooksKeep ==
  ASSUME BooksInv, [BooksNext]_bookVars
  PROVE  BooksInv'
<1>1. CASE BooksNext
  <2>1. CASE \E o \in Orders : Placing(o) \/ Broker(o)
    BY <2>1, PlacingStep, BrokerStep
  <2>2. CASE \E c \in Calls : Calling(c)
    BY <2>2, CallingStep
  <2> QED
    BY <1>1, <2>1, <2>2 DEF BooksNext
<1>2. CASE UNCHANGED bookVars
  <2>1. UNCHANGED <<now, broker, held, place, requestedAt, call, intents, links, noOrder,
                    statuses, fills, cancels, lineages>>
    BY <1>2 DEF bookVars
  <2>2. BooksTyped'
    BY <2>1 DEF BooksInv, BooksTyped, AllContracts
  <2>3. ASSUME NEW o \in Orders PROVE BrokerInv(o)' /\ PlacingInv(o)'
    <3>1. BrokerInv(o) /\ PlacingInv(o)
      BY DEF BooksInv
    <3> QED
      BY <2>1, <3>1 DEF BrokerInv, PlacingInv, Exists, Created, VersionsOf
  <2>4. ASSUME NEW c \in Calls PROVE AskedInv(c)'
    BY <2>1, AskedStays
  <2>5. ASSUME NEW o \in Orders PROVE StatusesInv(o)' /\ FillsInv(o)' /\ CancelsInv(o)'
    BY <2>1, RecordsStay
  <2>6. LinesGood(lineages)'
    BY <2>1 DEF BooksInv, LinesGood, Together, FilledFrom, Kin, Lineage, AllContracts
  <2> QED
    BY <2>2, <2>3, <2>4, <2>5, <2>6 DEF BooksInv
<1> QED
  BY <1>1, <1>2

----------------------------------------------------------------------------
(* What the projections say, of what is recorded.                          *)

\* Of the latest observations the first recorded is well defined.
LEMMA LatestIs ==
  ASSUME NEW stamps, IsFiniteSet(stamps), stamps # {},
         \A e \in stamps : e.at \in Int /\ e.seq \in Nat
  PROVE  /\ Latest(stamps) \in stamps
         /\ \A f \in stamps : f.at <= Latest(stamps).at
<1> DEFINE at == [e \in stamps |-> e.at]
<1>1. \A e \in stamps : at[e] \in Int /\ at[e] = e.at
  OBVIOUS
<1> HIDE DEF at
<1>2. PICK x \in stamps : \A e \in stamps : at[e] <= at[x]
  BY <1>1, LatestDated
<1> DEFINE last == {e \in stamps : e.at = x.at}
           seqs == {e.seq : e \in last}
<1>3. PICK n \in seqs : \A m \in seqs : n <= m
  <2>1. seqs \subseteq Nat /\ seqs # {}
    OBVIOUS
  <2> HIDE DEF seqs
  <2> QED
    BY <2>1, LeastNatural
<1>4. PICK e \in last : e.seq = n
  OBVIOUS
<1>5. \A f \in stamps : f.at <= x.at
  BY <1>1, <1>2
<1>6. \A f \in stamps : f.at < e.at \/ (f.at = e.at /\ e.seq <= f.seq)
  <2>1. ASSUME NEW f \in stamps PROVE f.at < e.at \/ (f.at = e.at /\ e.seq <= f.seq)
    <3>1. e.at = x.at /\ f.at \in Int /\ x.at \in Int /\ f.at <= x.at
      BY <1>4, <1>5
    <3>2. CASE f.at = x.at
      <4>1. f.seq \in seqs
        BY <3>2
      <4> QED
        BY <1>3, <1>4, <3>1, <3>2, <4>1
    <3> QED
      BY <3>1, <3>2
  <2> QED
    BY <2>1
<1>7. /\ Latest(stamps) \in stamps
      /\ \A f \in stamps : \/ f.at < Latest(stamps).at
                           \/ f.at = Latest(stamps).at /\ Latest(stamps).seq <= f.seq
  <2>1. e \in stamps
    BY <1>4
  <2> QED
    BY <1>6, <2>1 DEF Latest
<1> QED
  BY <1>7

\* An order's status is that of a version, and no recorded one is of a later version.
LEMMA StatusIs ==
  ASSUME BooksInv, NEW o \in Orders, statuses[o] # {}
  PROVE  \E v \in DOMAIN broker[o] :
           /\ Status(o) = StatusOf(broker[o][v].raw)
           /\ Latest(statuses[o]) \in statuses[o] /\ Latest(statuses[o]).at = broker[o][v].at
           /\ \A e \in statuses[o] : e.at <= broker[o][v].at
<1>1. StatusesInv(o) /\ BrokerInv(o)
  BY DEF BooksInv
<1>2. \A e \in statuses[o] : e.at \in Int /\ e.seq \in Nat
  BY <1>1, VersionIs DEF StatusesInv, OfVersion
<1>3. Latest(statuses[o]) \in statuses[o] /\ \A e \in statuses[o] : e.at <= Latest(statuses[o]).at
  BY <1>1, <1>2, LatestIs DEF StatusesInv
<1>4. PICK v \in DOMAIN broker[o] :
        /\ Latest(statuses[o]).at = broker[o][v].at
        /\ Latest(statuses[o]).status = StatusOf(broker[o][v].raw)
  BY <1>1, <1>3 DEF StatusesInv, OfVersion
<1> QED
  BY <1>3, <1>4 DEF Status

LEMMA UnknownIsOpen == "unknown" \notin TerminalStates /\ "unknown" \in Unresolved
BY DEF TerminalStates, Unresolved

\* A terminal status is that of the last version, and recorded.
LEMMA TerminalIsLast ==
  ASSUME BooksInv, NEW o \in Orders, Status(o) \in TerminalStates
  PROVE  /\ IsOver(o) /\ Status(o) = StatusOf(Current(o).raw) /\ statuses[o] # {}
         /\ \E e \in statuses[o] : e.at = Current(o).at
<1>1. statuses[o] # {} /\ BrokerInv(o)
  BY UnknownIsOpen DEF Status, BooksInv
<1>2. PICK v \in DOMAIN broker[o] :
        /\ Status(o) = StatusOf(broker[o][v].raw)
        /\ Latest(statuses[o]) \in statuses[o] /\ Latest(statuses[o]).at = broker[o][v].at
  BY <1>1, StatusIs
<1>3. Exists(o) /\ broker[o][v].raw \notin WorkingStates
  BY <1>1, <1>2, States, VersionIs
<1>4. Current(o) = broker[o][v]
  BY <1>1, <1>3, LastVersion
<1> QED
  BY <1>1, <1>2, <1>3, <1>4 DEF IsOver, Works

LEMMA WorkingIsListed ==
  ASSUME BooksInv
  PROVE  ListedWhileWorking
<1> SUFFICES ASSUME NEW o \in links, Works(o) PROVE Status(o) \in Unresolved
  BY DEF ListedWhileWorking, Listed
<1>1. o \in Orders /\ BrokerInv(o)
  BY DEF BooksInv, BooksTyped
<1>2. CASE statuses[o] = {}
  BY <1>2, UnknownIsOpen DEF Status
<1>3. CASE statuses[o] # {}
  <2>1. PICK v \in DOMAIN broker[o] : Status(o) = StatusOf(broker[o][v].raw)
    BY <1>1, <1>3, StatusIs
  <2>2. broker[o][v].raw \in WorkingStates
    BY <1>1, <2>1, LastVersion DEF Works
  <2> QED
    BY <2>1, <2>2, States
<1> QED
  BY <1>2, <1>3

----------------------------------------------------------------------------
(* Fills.                                                                  *)

\* An execution is one of those at the broker; a total was that of the version it was reported of.
LEMMA FillOfVersion ==
  ASSUME NEW o \in Orders, BrokerInv(o), FillsInv(o), NEW f \in fills[o]
  PROVE  /\ Exists(o) /\ Current(o).filled \in Nat /\ Current(o).filled >= 1
         /\ f.execution # 0 => f.execution \in 1..Current(o).filled /\ f.quantity = 1
         /\ f.execution = 0 => \E v \in DOMAIN broker[o] :
                                 f.at = broker[o][v].at /\ f.quantity = broker[o][v].filled
<1>1. PICK v \in DOMAIN broker[o], detailed \in BOOLEAN :
        f.at = broker[o][v].at /\ Key(f) \in Reported(o, v, detailed)
  BY DEF FillsInv, OfReport
<1>2. Key(f).execution = f.execution /\ Key(f).quantity = f.quantity
  BY DEF Key
<1>3. /\ Exists(o) /\ broker[o][v].filled \in Nat
      /\ broker[o][v].filled <= Current(o).filled /\ Current(o).filled \in Nat
  <2>1. Exists(o) /\ broker[o][v].filled \in Nat
    BY VersionIs
  <2>2. /\ broker[o][v].filled <= Current(o).filled /\ Len(broker[o]) \in DOMAIN broker[o]
        /\ Current(o) = broker[o][Len(broker[o])]
    BY <2>1, LastVersion
  <2> QED
    BY <2>1, <2>2, VersionIs
<1>4. CASE detailed
  <2>1. PICK x \in 1..broker[o][v].filled : Key(f) = [execution |-> x, quantity |-> 1]
    BY <1>1, <1>4 DEF Reported
  <2>2. f.execution = x /\ f.quantity = 1
    BY <1>2, <2>1
  <2> QED
    BY <1>3, <2>1, <2>2
<1>5. CASE ~detailed
  <2>1. Key(f) = [execution |-> 0, quantity |-> broker[o][v].filled] /\ broker[o][v].filled # 0
    BY <1>1, <1>5 DEF Reported
  <2>2. f.execution = 0 /\ f.quantity = broker[o][v].filled
    BY <1>2, <2>1
  <2> QED
    BY <1>1, <1>3, <2>1, <2>2
<1> QED
  BY <1>4, <1>5

LEMMA ExecutionsWithin ==
  ASSUME NEW o \in Orders, BrokerInv(o), FillsInv(o), fills[o] # {}
  PROVE  /\ IsFiniteSet(Executions(o)) /\ Cardinality(Executions(o)) \in Nat
         /\ Cardinality(Executions(o)) <= Current(o).filled
         /\ (\A x \in 1..Current(o).filled : [execution |-> x, quantity |-> 1] \in KnownFills(o))
              => Cardinality(Executions(o)) = Current(o).filled
<1> DEFINE all == 1..Current(o).filled
           m == [f \in Executions(o) |-> f.execution]
<1>1. Current(o).filled \in Nat
  BY FillOfVersion
<1>2. IsFiniteSet(all) /\ Cardinality(all) = Current(o).filled
  BY <1>1, FS_Interval
<1>3. IsFiniteSet(Executions(o)) /\ Cardinality(Executions(o)) \in Nat
  BY FillsFinite, FS_Subset, FS_CardinalityType DEF Executions
<1>4. \A f \in Executions(o) : f.execution \in all /\ f.quantity = 1 /\ f \in fills[o]
  BY FillOfVersion DEF Executions
<1>5. ASSUME NEW f \in Executions(o), NEW g \in Executions(o), m[f] = m[g] PROVE f = g
  <2>1. Key(f) = Key(g)
    BY <1>4, <1>5 DEF Key
  <2> QED
    BY <1>4, <2>1 DEF FillsInv
<1>6. m \in [Executions(o) -> all]
  BY <1>4
<1>7. m \in Injection(Executions(o), all)
  BY <1>5, <1>6 DEF Injection, IsInjective
<1>8. /\ Cardinality(Executions(o)) <= Current(o).filled
      /\ m \in Surjection(Executions(o), all) => Cardinality(Executions(o)) = Current(o).filled
  <2> HIDE DEF m, all
  <2> QED
    BY <1>2, <1>7, FS_Injection
<1>9. ASSUME \A x \in all : [execution |-> x, quantity |-> 1] \in KnownFills(o)
      PROVE  m \in Surjection(Executions(o), all)
  <2>1. ASSUME NEW x \in all PROVE \E f \in Executions(o) : m[f] = x
    <3>1. PICK f \in fills[o] : Key(f) = [execution |-> x, quantity |-> 1]
      BY <1>9 DEF KnownFills
    <3>2. f.execution = x /\ f.execution # 0
      BY <3>1 DEF Key
    <3>3. f \in Executions(o)
      BY <3>2 DEF Executions
    <3> QED
      BY <3>2, <3>3
  <2> QED
    BY <1>6, <2>1 DEF Surjection
<1> QED
  BY <1>3, <1>8, <1>9

LEMMA TotalsWithin ==
  ASSUME NEW o \in Orders, BrokerInv(o), FillsInv(o), Totals(o) # {}
  PROVE  /\ LatestTotal(o) \in Nat /\ LatestTotal(o) <= Current(o).filled
         /\ [execution |-> 0, quantity |-> Current(o).filled] \in KnownFills(o)
              => LatestTotal(o) = Current(o).filled
<1> DEFINE at == [f \in Totals(o) |-> f.at]
<1>1. \A f \in Totals(o) : f \in fills[o] /\ f.execution = 0
  BY DEF Totals, Executions
<1>2. \A f \in Totals(o) : at[f] \in Int /\ at[f] = f.at
  BY <1>1, FillOfVersion, VersionIs
<1>3. IsFiniteSet(Totals(o))
  BY FillsFinite, FS_Subset DEF Totals
<1> HIDE DEF at
<1>4. \E f \in Totals(o) : \A g \in Totals(o) : g.at <= f.at
  <2>1. \E f \in Totals(o) : \A g \in Totals(o) : at[g] <= at[f]
    BY <1>2, <1>3, LatestDated
  <2> QED
    BY <1>2, <2>1
<1> DEFINE last == CHOOSE f \in Totals(o) : \A g \in Totals(o) : g.at <= f.at
<1>5. last \in Totals(o) /\ \A g \in Totals(o) : g.at <= last.at
  BY <1>4
<1>6. LatestTotal(o) = last.quantity
  BY DEF LatestTotal
<1> HIDE DEF last
<1>7. PICK v \in DOMAIN broker[o] : last.at = broker[o][v].at /\ last.quantity = broker[o][v].filled
  BY <1>1, <1>5, FillOfVersion
<1>8. Exists(o) /\ broker[o][v].filled \in Nat /\ Current(o).filled \in Nat
  BY <1>1, <1>5, FillOfVersion, VersionIs
<1>9. broker[o][v].filled <= Current(o).filled
  BY <1>8, LastVersion
<1>10. ASSUME [execution |-> 0, quantity |-> Current(o).filled] \in KnownFills(o)
       PROVE  broker[o][v].filled = Current(o).filled
  <2>1. PICK g \in fills[o] : Key(g) = [execution |-> 0, quantity |-> Current(o).filled]
    BY <1>10 DEF KnownFills
  <2>2. g.execution = 0 /\ g.quantity = Current(o).filled /\ g \in Totals(o)
    BY <2>1 DEF Key, Totals, Executions
  <2>3. PICK w \in DOMAIN broker[o] : g.at = broker[o][w].at /\ g.quantity = broker[o][w].filled
    BY <2>2, FillOfVersion
  <2>4. broker[o][w].at <= broker[o][v].at
    BY <1>5, <1>7, <2>2, <2>3
  <2>5. w \in Nat /\ v \in Nat /\ broker[o][w].at \in Int /\ broker[o][v].at \in Int
    BY VersionIs
  <2>6. w <= v
    BY <2>4, <2>5, VersionsDiffer
  <2>7. broker[o][w].filled <= broker[o][v].filled
    BY <2>6, VersionsDiffer
  <2> QED
    BY <1>8, <1>9, <2>2, <2>3, <2>7
<1> QED
  BY <1>6, <1>7, <1>8, <1>9, <1>10

LEMMA FillsAreTrue ==
  ASSUME BooksInv
  PROVE  FillsTrue
<1> SUFFICES ASSUME NEW o \in Orders, fills[o] # {}
    PROVE  /\ Filled(o) <= Current(o).filled
           /\ Status(o) \in TerminalStates => Filled(o) \in {-1, Current(o).filled}
  BY DEF FillsTrue
<1>1. BrokerInv(o) /\ FillsInv(o)
  BY DEF BooksInv
<1>2. Exists(o) /\ Current(o).filled \in Nat /\ Current(o).filled >= 1
  BY <1>1, FillOfVersion
<1>3. /\ Cardinality(Executions(o)) \in Nat /\ Cardinality(Executions(o)) <= Current(o).filled
      /\ (\A x \in 1..Current(o).filled : [execution |-> x, quantity |-> 1] \in KnownFills(o))
              => Cardinality(Executions(o)) = Current(o).filled
  BY <1>1, ExecutionsWithin
<1>4. Totals(o) # {} =>
        /\ LatestTotal(o) \in Nat /\ LatestTotal(o) <= Current(o).filled
        /\ [execution |-> 0, quantity |-> Current(o).filled] \in KnownFills(o)
              => LatestTotal(o) = Current(o).filled
  BY <1>1, TotalsWithin
<1>5. Executions(o) = {} => Totals(o) # {}
  BY DEF Totals
<1>6. \/ Filled(o) = -1
      \/ /\ Filled(o) = FilledOfOneKind(o)
         /\ Executions(o) # {} /\ Totals(o) # {} => LatestTotal(o) = FilledOfOneKind(o)
  BY DEF Filled
<1>7. Filled(o) <= Current(o).filled
  BY <1>2, <1>3, <1>4, <1>5, <1>6 DEF FilledOfOneKind
<1>8. ASSUME Status(o) \in TerminalStates PROVE Filled(o) \in {-1, Current(o).filled}
  <2>1. Learned(o, Len(broker[o]))
    <3>1. PICK e \in statuses[o] : e.at = Current(o).at
      BY <1>8, TerminalIsLast
    <3>2. Len(broker[o]) \in DOMAIN broker[o] /\ Current(o) = broker[o][Len(broker[o])]
      BY <1>1, <1>2, LastVersion
    <3> QED
      BY <1>1, <3>1, <3>2 DEF FillsInv
  <2>2. PICK detailed \in BOOLEAN : Reported(o, Len(broker[o]), detailed) \subseteq KnownFills(o)
    BY <2>1 DEF Learned
  <2>3. CASE detailed
    <3>1. \A x \in 1..Current(o).filled : [execution |-> x, quantity |-> 1] \in KnownFills(o)
      BY <2>2, <2>3 DEF Reported, Current
    <3>2. Cardinality(Executions(o)) = Current(o).filled
      BY <1>3, <3>1
    <3>3. Executions(o) # {}
      BY <1>2, <3>2, FS_EmptySet
    <3> QED
      BY <1>6, <3>2, <3>3 DEF FilledOfOneKind
  <2>4. CASE ~detailed
    <3>1. [execution |-> 0, quantity |-> Current(o).filled] \in KnownFills(o)
      BY <1>2, <2>2, <2>4 DEF Reported, Current
    <3>2. Totals(o) # {}
      <4>1. PICK g \in fills[o] : Key(g) = [execution |-> 0, quantity |-> Current(o).filled]
        BY <3>1 DEF KnownFills
      <4>2. g.execution = 0
        BY <4>1 DEF Key
      <4> QED
        BY <4>2 DEF Totals, Executions
    <3>3. LatestTotal(o) = Current(o).filled
      BY <1>4, <3>1, <3>2
    <3> QED
      BY <1>6, <3>2, <3>3 DEF FilledOfOneKind
  <2> QED
    BY <2>3, <2>4
<1> QED
  BY <1>7, <1>8

----------------------------------------------------------------------------
(* Cancels, intents and lineages.                                          *)

LEMMA ConfirmedIsOver ==
  ASSUME BooksInv
  PROVE  ConfirmedIsTerminal
<1> SUFFICES ASSUME NEW o \in Orders, NEW c \in Calls, CancelStatus(o, c) = "confirmed"
    PROVE  IsOver(o)
  BY DEF ConfirmedIsTerminal, IsOver
<1> DEFINE of == {e \in cancels[o] : e.cancel = c}
           IsLast(e) == \A f \in of : f.at < e.at \/ (f.at = e.at /\ (e.status = "confirmed" \/ f = e))
           last == CHOOSE e \in of : IsLast(e)
<1>1. CancelsInv(o)
  BY DEF BooksInv
<1>2. of # {} /\ last.status = "confirmed"
  BY DEF CancelStatus
<1>3. /\ \A e \in of : e.at \in Int
      /\ \A e, f \in of : (e.status = "confirmed" <=> f.status = "confirmed") => e = f
      /\ \A e \in of : e.status = "confirmed" => IsOver(o)
  BY <1>1 DEF CancelsInv
<1>4. \E e \in of : IsLast(e)
  <2>1. PICK e \in of : TRUE
    BY <1>2
  <2>2. CASE IsLast(e)
    BY <2>1, <2>2
  <2>3. CASE ~IsLast(e)
    <3>1. PICK f \in of : ~(f.at < e.at \/ (f.at = e.at /\ (e.status = "confirmed" \/ f = e)))
      BY <2>3
    <3>2. f # e
      BY <3>1
    <3>3. \A g \in of : g = e \/ g = f
      BY <1>3, <2>1, <3>1, <3>2
    <3>4. e.at < f.at \/ (e.at = f.at /\ e.status # "confirmed")
      BY <1>3, <2>1, <3>1
    <3>5. e.status # "confirmed" => f.status = "confirmed"
      BY <1>3, <2>1, <3>1, <3>2
    <3>6. IsLast(f)
      BY <3>3, <3>4, <3>5
    <3> QED
      BY <3>1, <3>6
  <2> QED
    BY <2>2, <2>3
<1>5. last \in of
  BY <1>4
<1> QED
  BY <1>2, <1>3, <1>5

LEMMA OneOrNone ==
  ASSUME NEW S, \A x, y \in S : x = y
  PROVE  IsFiniteSet(S) /\ Cardinality(S) <= 1
<1>1. CASE S = {}
  BY <1>1, FS_EmptySet
<1>2. CASE S # {}
  <2>1. PICK x \in S : S = {x}
    BY <1>2
  <2>2. IsFiniteSet({x}) /\ Cardinality({x}) = 1
    BY FS_Singleton, Zenon
  <2> QED
    BY <2>1, <2>2
<1> QED
  BY <1>1, <1>2

LEMMA JobsAreTogether ==
  ASSUME BooksInv
  PROVE  OneLineagePerJob
<1> SUFFICES ASSUME NEW o \in Opening PROVE Cardinality(FilledFrom(lineages, Kin(o))) <= 1
  BY DEF OneLineagePerJob
<1>1. \A i, j \in FilledFrom(lineages, Kin(o)) : i = j
  BY DEF BooksInv, LinesGood, Together
<1> HIDE DEF FilledFrom
<1> QED
  BY <1>1, OneOrNone

LEMMA BooksAreTrue ==
  ASSUME BooksInv
  PROVE  OrdersTrue
<1>1. ForgottenOnlyByOverlap
  BY DEF ForgottenOnlyByOverlap, BooksInv, PlacingInv
<1> QED
  BY <1>1, WorkingIsListed, FillsAreTrue, ConfirmedIsOver, JobsAreTogether DEF OrdersTrue, WorkingKnown

LEMMA BooksAreTyped ==
  ASSUME BooksInv
  PROVE  BooksTypeOK
<1>1. ASSUME NEW o \in Orders, NEW v \in DOMAIN broker[o]
      PROVE  /\ broker[o][v].raw \in WorkingStates \cup TerminalStates
             /\ broker[o][v].filled \in 0..Quantity[o]
             /\ v > 1 => broker[o][v].at > broker[o][v - 1].at
  <2>1. BrokerInv(o)
    BY DEF BooksInv
  <2>2. /\ broker[o][v].raw \in WorkingStates \cup TerminalStates
        /\ broker[o][v].filled \in 0..Quantity[o]
        /\ DOMAIN broker[o] = 1..Len(broker[o]) /\ Len(broker[o]) \in Nat
    BY <2>1, VersionIs
  <2>3. ASSUME v > 1 PROVE broker[o][v].at > broker[o][v - 1].at
    <3>1. v - 1 \in DOMAIN broker[o] /\ v - 1 < v
      BY <2>2, <2>3
    <3>2. broker[o][v - 1].at < broker[o][v].at
      BY <2>1, <3>1 DEF BrokerInv
    <3>3. broker[o][v - 1].at \in Int /\ broker[o][v].at \in Int
      BY <2>1, <3>1, VersionIs
    <3> QED
      BY <3>2, <3>3
  <2> QED
    BY <2>2, <2>3
<1>2. /\ place \in [Orders -> {"none", "requested", "sent", "done"}]
      /\ requestedAt \in [Orders -> Nat] /\ noOrder \in [Orders -> Nat]
  <2>1. /\ place = [o \in Orders |-> place[o]] /\ requestedAt = [o \in Orders |-> requestedAt[o]]
        /\ noOrder = [o \in Orders |-> noOrder[o]] /\ now \in Nat
    BY DEF BooksInv, BooksTyped
  <2>2. \A o \in Orders : /\ place[o] \in {"none", "requested", "sent", "done"}
                          /\ requestedAt[o] \in Nat /\ noOrder[o] \in Nat
    BY <2>1 DEF BooksInv, PlacingInv
  <2> QED
    BY <2>1, <2>2
<1>3. ASSUME NEW o \in Orders
      PROVE  /\ {e.status : e \in statuses[o]} \subseteq {"placed", "partially_filled"} \cup TerminalStates
             /\ {Key(f) : f \in fills[o]} \subseteq [execution : 0..Quantity[o], quantity : 1..Quantity[o]]
             /\ {e.status : e \in cancels[o]} \subseteq {"pending", "unknown", "confirmed"}
  <2>1. StatusesInv(o) /\ FillsInv(o) /\ CancelsInv(o) /\ BrokerInv(o)
    BY DEF BooksInv
  <2>2. ASSUME NEW e \in statuses[o] PROVE e.status \in {"placed", "partially_filled"} \cup TerminalStates
    <3>1. PICK v \in DOMAIN broker[o] : e.status = StatusOf(broker[o][v].raw)
      BY <2>1 DEF StatusesInv, OfVersion
    <3>2. broker[o][v].raw \in WorkingStates \cup TerminalStates
      BY <2>1, VersionIs
    <3> QED
      BY <3>1, <3>2 DEF StatusOf, WorkingStates, TerminalStates
  <2>3. \A f \in fills[o] : Key(f) \in [execution : 0..Quantity[o], quantity : 1..Quantity[o]]
    BY <2>1, FillIs
  <2>4. \A e \in cancels[o] : e.status \in {"pending", "unknown", "confirmed"}
    BY <2>1 DEF CancelsInv
  <2> QED
    BY <2>2, <2>3, <2>4
<1>4. now \in Nat /\ intents \subseteq Orders /\ links \subseteq intents
  BY DEF BooksInv, BooksTyped
<1>5. \A i \in DOMAIN lineages : lineages[i].quantity \in Nat
  <2>1. lineages \in Seq(Lineage)
    BY DEF BooksInv, LinesGood
  <2>2. \A i \in DOMAIN lineages : lineages[i] \in Lineage
    BY <2>1
  <2> QED
    BY <2>2 DEF Lineage
<1> QED
  BY <1>1, <1>2, <1>3, <1>4, <1>5 DEF BooksTypeOK

----------------------------------------------------------------------------
(* A terminal status stays: nothing later can be read.                     *)

LEMMA RecordsGrow ==
  ASSUME BooksInv, [BooksNext]_bookVars, NEW o \in Orders
  PROVE  /\ statuses[o] \subseteq statuses'[o]
         /\ IsOver(o) => broker'[o] = broker[o]
<1>1. ASSUME NEW seen, NEW owned, NEW detailed, RecordOrders(seen, owned, detailed)
      PROVE  statuses[o] \subseteq statuses'[o]
  BY <1>1 DEF RecordOrders, WithStatus
<1>2. ASSUME NEW p \in Orders, Placing(p)
      PROVE  statuses[o] \subseteq statuses'[o] /\ broker' = broker
  <2>1. CASE PlaceReturns(p)
    <3>1. PICK v \in 1..Len(broker[p]), detailed \in BOOLEAN :
            RecordOrders([q \in Orders |-> IF q = p THEN v ELSE 0], links \cup {p}, detailed)
      BY <2>1 DEF PlaceReturns
    <3>2. broker' = broker
      BY <2>1 DEF PlaceReturns, brokerVars
    <3> QED
      BY <1>1, <3>1, <3>2
  <2>2. CASE Request(p) \/ RecordIntent(p)
    BY <2>2 DEF Request, RecordIntent, brokerVars, recorded
  <2> QED
    BY <1>2, <2>1, <2>2 DEF Placing
<1>3. ASSUME NEW c \in Calls, Calling(c)
      PROVE  statuses[o] \subseteq statuses'[o] /\ broker' = broker
  <2>1. CASE OrdersReturn(c)
    <3>1. PICK detailed \in BOOLEAN : RecordOrders(call[c].seen, links, detailed)
      BY <2>1 DEF OrdersReturn
    <3>2. broker' = broker
      BY <2>1 DEF OrdersReturn, brokerVars
    <3> QED
      BY <1>1, <3>1, <3>2
  <2>2. CASE ~OrdersReturn(c)
    BY <1>3, <2>2 DEF Calling, AskOrders, AskCancel, CancelReturns, AskPositions, PositionsReturn, Ask,
                      brokerVars, recorded
  <2> QED
    BY <2>1, <2>2
<1>4. ASSUME NEW p \in Orders, Broker(p)
      PROVE  statuses' = statuses /\ (IsOver(o) => broker'[o] = broker[o])
  <2>1. PICK raw, filled : BrokerMoves(p, raw, filled)
    BY <1>4 DEF Broker, BrokerTakes, BrokerFills, BrokerTakesCancel, BrokerCancels
  <2>2. ~IsOver(p)
    BY <1>4 DEF Broker, BrokerTakes, BrokerFills, BrokerTakesCancel, BrokerCancels, IsOver
  <2>3. statuses' = statuses
    BY <2>1 DEF BrokerMoves, recorded
  <2>4. broker = [q \in Orders |-> broker[q]]
    BY DEF BooksInv, BooksTyped
  <2>5. \A q \in Orders : q # p => broker'[q] = broker[q]
    BY <2>1, <2>4 DEF BrokerMoves
  <2> QED
    BY <2>2, <2>3, <2>5
<1>5. CASE UNCHANGED bookVars
  BY <1>5 DEF bookVars
<1> QED
  BY <1>2, <1>3, <1>4, <1>5 DEF BooksNext

LEMMA TerminalStays ==
  ASSUME BooksInv, BooksInv', [BooksNext]_bookVars, NEW o \in Orders, Status(o) \in TerminalStates
  PROVE  Status(o)' = Status(o)
<1>1. PICK e \in statuses[o] : e.at = Current(o).at
  BY TerminalIsLast
<1>2. IsOver(o) /\ Status(o) = StatusOf(Current(o).raw) /\ BrokerInv(o)
  BY TerminalIsLast DEF BooksInv
<1>3. e \in statuses'[o] /\ broker'[o] = broker[o]
  BY <1>2, RecordsGrow
<1>4. StatusesInv(o)'
  BY DEF BooksInv
<1>5. \A f \in statuses'[o] :
        /\ f.seq \in Nat
        /\ \E v \in DOMAIN broker[o] : f.at = broker[o][v].at /\ f.status = StatusOf(broker[o][v].raw)
  BY <1>3, <1>4 DEF StatusesInv, OfVersion
<1>6. \A f \in statuses'[o] : f.at \in Int /\ f.seq \in Nat
  BY <1>2, <1>5, VersionIs
<1> DEFINE last == Latest(statuses'[o])
<1>7. last \in statuses'[o] /\ e.at <= last.at
  BY <1>3, <1>4, <1>6, LatestIs DEF StatusesInv
<1>8. Status(o)' = last.status
  BY <1>3 DEF Status
<1> HIDE DEF last
<1>9. PICK v \in DOMAIN broker[o] : last.at = broker[o][v].at /\ last.status = StatusOf(broker[o][v].raw)
  BY <1>5, <1>7
<1>10. v = Len(broker[o])
  <2>1. broker[o][v].at <= Current(o).at /\ (broker[o][v].at = Current(o).at => v = Len(broker[o]))
    BY <1>2, LastVersion DEF IsOver
  <2>2. Current(o).at \in Int /\ broker[o][v].at \in Int
    <3>1. Len(broker[o]) \in DOMAIN broker[o] /\ Current(o) = broker[o][Len(broker[o])]
      BY <1>2, LastVersion DEF IsOver
    <3> QED
      BY <1>2, <3>1, VersionIs
  <2> QED
    BY <1>1, <1>7, <1>9, <2>1, <2>2
<1> QED
  BY <1>2, <1>8, <1>9, <1>10 DEF Current

----------------------------------------------------------------------------
(* The theorems about orders.                                              *)

THEOREM BooksInvariant == BooksSpec => []BooksInv
<1>1. BooksInit => BooksInv
  BY BooksBegin
<1>2. BooksInv /\ [BooksNext]_bookVars => BooksInv'
  BY BooksKeep
<1> QED
  BY <1>1, <1>2, PTL DEF BooksSpec

THEOREM OrdersAreTrue == BooksSpec => [](OrdersTrue /\ BooksTypeOK)
<1>1. BooksInv => OrdersTrue /\ BooksTypeOK
  BY BooksAreTrue, BooksAreTyped
<1> QED
  BY <1>1, BooksInvariant, PTL

THEOREM StatusNeverBackwards == BooksSpec => NeverBackwards
<1>1. BooksInv /\ BooksInv' /\ [BooksNext]_bookVars
        => [\A o \in Orders : Status(o) \in TerminalStates => Status(o)' = Status(o)]_bookVars
  BY TerminalStays
<1> QED
  BY <1>1, BooksInvariant, PTL DEF BooksSpec, NeverBackwards

----------------------------------------------------------------------------
(* The events of lineages: the inductive invariant.                        *)

EventKinds == {"opened", "fill", "roll", "gap", "reconciliation", "note", "closed"}
EventNames ==
  {"opened", "closed", "roll_count", "dividend", "read"} \cup FillEvents \cup RollNames
  \cup {Decisions[n].ref : n \in DOMAIN Decisions}
FillSays == [fill : FillEvents, role : {"entry", "close"}]
RollSays == [roll : RollNames, order : UNION {RollOrders[k] : k \in RollNames}]
NoteSays == {Decisions[n] : n \in DOMAIN Decisions}
LineEvents ==
  [kind : EventKinds, key : EventKinds \X EventNames,
   says : EventNames \cup FillSays \cup RollSays \cup NoteSays,
   sets : Holdings \cup {Unsaid}, corrects : Nat, imported : BOOLEAN]

\* The fills that entered, and what opened: of some events.
EntryIn(es) ==
  {es[i].says.fill : i \in {j \in DOMAIN es : es[j].kind = "fill" /\ es[j].says.role = "entry"}}
IsOpenNote(e) == e.kind = "note" /\ e.says.action = "open"
RestsOnFill(es, d) == \E f \in EntryIn(es) : FillOf[f].order \in d.orders

\* What is said under a kind; a correction is of an earlier gap.
SaysGood(es, e) ==
  /\ e.key[1] = e.kind
  /\ e.kind = "opened" => e.sets # Unsaid
  /\ e.kind = "fill" => e.says \in FillSays
  /\ e.kind = "gap" => e.sets = Unsaid
  /\ e.kind = "roll" =>
       e.says \in RollSays /\ e.key = <<"roll", e.says.roll>> /\ e.says.order \in RollOrders[e.says.roll]
  /\ e.kind = "note" => /\ e.says \in NoteSays /\ e.key = <<"note", e.says.ref>>
                        /\ e.says.action = "open" => RestsOnFill(es, e.says)
  /\ e.corrects # 0 => e.corrects \in DOMAIN es /\ es[e.corrects].kind = "gap"
EventGood(es, i) ==
  /\ (i = 1) = (es[i].kind = "opened") /\ es[i].corrects < i
  /\ SaysGood(es, es[i])
EventsGood(es) ==
  /\ es \in Seq(LineEvents)
  /\ \A i \in DOMAIN es : EventGood(es, i)
  /\ \A i, j \in DOMAIN es : es[i].key = es[j].key => i = j

\* What the histories are of some events.
RollsIn(es) == {es[i].says.roll : i \in {j \in DOMAIN es : es[j].kind = "roll"}}
OpenGap(es, field) ==
  \E i \in DOMAIN es : es[i].kind = "gap" /\ es[i].says = field /\ \A j \in DOMAIN es : es[j].corrects # i
LastSet(es, h) ==
  \E i \in DOMAIN es : es[i].sets = h /\ h # Unsaid /\ \A j \in DOMAIN es : j > i => es[j].sets = Unsaid
FirstOpenNote(es, n) ==
  \E i \in DOMAIN es : /\ IsOpenNote(es[i]) /\ es[i].says = n
                       /\ \A j \in DOMAIN es : j < i => ~IsOpenNote(es[j])
VagueGood(es, fields) == fields \subseteq HistoryFields /\ \A f \in fields : OpenGap(es, f)

LineInv(p) ==
  /\ EventsGood(events[p])
  /\ rolled[p] = RollsIn(events[p])
  /\ VagueGood(events[p], vague[p])
  /\ holds[p] \in Holdings \cup {Unsaid}
  /\ Opened(p) => LastSet(events[p], holds[p])
  /\ pinned[p] # Unsaid => FirstOpenNote(events[p], pinned[p])
LinesInv ==
  /\ events = [p \in Lines |-> events[p]] /\ rolled = [p \in Lines |-> rolled[p]]
  /\ vague = [p \in Lines |-> vague[p]] /\ holds = [p \in Lines |-> holds[p]]
  /\ pinned = [p \in Lines |-> pinned[p]]
  /\ atStart = Unsaid \/ (atStart \subseteq Lines /\ \A p \in atStart : Opened(p))
  /\ \A p \in Lines : LineInv(p)

----------------------------------------------------------------------------

LEMMA LinesBegun ==
  ASSUME NEW open, LinesBegin(open)
  PROVE  LinesInv
<1>1. ASSUME NEW p \in Lines PROVE LineInv(p)
  <2>1. /\ events[p] = <<>> /\ rolled[p] = {} /\ vague[p] = {} /\ holds[p] = Unsaid
        /\ pinned[p] = Unsaid
    BY DEF LinesBegin
  <2>2. EventsGood(<<>>)
    BY DEF EventsGood
  <2>3. RollsIn(<<>>) = {}
    BY DEF RollsIn
  <2> QED
    BY <2>1, <2>2, <2>3 DEF LineInv, Opened, VagueGood
<1>2. atStart = Unsaid \/ atStart = {}
  BY DEF LinesBegin
<1>3. atStart = Unsaid \/ (atStart \subseteq Lines /\ \A p \in atStart : Opened(p))
  BY <1>2
<1> QED
  BY <1>1, <1>3 DEF LinesInv, LinesBegin

\* One event more, under a new key: the events stay good.
LEMMA EventAdded ==
  ASSUME NEW es, EventsGood(es), NEW e \in LineEvents,
         (es = <<>>) = (e.kind = "opened"), SaysGood(es, e),
         \A i \in DOMAIN es : es[i].key # e.key
  PROVE  /\ EventsGood(Append(es, e))
         /\ Len(es) \in Nat /\ DOMAIN es = 1..Len(es)
         /\ DOMAIN Append(es, e) = 1..(Len(es) + 1) /\ Append(es, e)[Len(es) + 1] = e
         /\ \A i \in DOMAIN es : i \in DOMAIN Append(es, e) /\ Append(es, e)[i] = es[i] /\ i <= Len(es)
         /\ EntryIn(es) \subseteq EntryIn(Append(es, e))
<1> DEFINE next == Append(es, e)
           n == Len(es) + 1
<1>1. es \in Seq(LineEvents) /\ Len(es) \in Nat /\ DOMAIN es = 1..Len(es)
  BY DEF EventsGood
<1>2. /\ next \in Seq(LineEvents) /\ DOMAIN next = 1..n /\ next[n] = e
      /\ \A i \in DOMAIN es : next[i] = es[i]
  BY <1>1, AppendProperties
<1>3. \A i \in DOMAIN es : i \in DOMAIN next /\ next[i] = es[i] /\ i <= Len(es)
  BY <1>1, <1>2
<1>9. n \in Nat /\ n \in DOMAIN next /\ \A i \in DOMAIN next : i # n => i \in DOMAIN es
  BY <1>1, <1>2
<1>10. (n = 1) = (es = <<>>)
  BY <1>1
<1>11. n = Len(es) + 1
  OBVIOUS
<1> HIDE DEF next, n
<1>4. EntryIn(es) \subseteq EntryIn(next)
  BY <1>3 DEF EntryIn
<1>5. ASSUME NEW x, SaysGood(es, x) PROVE SaysGood(next, x)
  BY <1>3, <1>4, <1>5 DEF SaysGood, RestsOnFill
<1>6. ASSUME NEW i \in DOMAIN next PROVE EventGood(next, i)
  <2>1. CASE i = n
    <3>1. e.corrects \in Nat /\ (e.corrects # 0 => e.corrects \in DOMAIN es)
      BY DEF LineEvents, SaysGood
    <3>2. e.corrects < n
      BY <1>1, <1>11, <3>1
    <3> QED
      BY <1>2, <1>5, <1>10, <2>1, <3>2 DEF EventGood
  <2>2. CASE i # n
    <3>1. i \in DOMAIN es /\ next[i] = es[i]
      BY <1>3, <1>9, <2>2
    <3>2. EventGood(es, i)
      BY <3>1 DEF EventsGood
    <3> QED
      BY <1>5, <3>1, <3>2 DEF EventGood
  <2> QED
    BY <2>1, <2>2
<1>7. ASSUME NEW i \in DOMAIN next, NEW j \in DOMAIN next, next[i].key = next[j].key PROVE i = j
  BY <1>2, <1>3, <1>7, <1>9 DEF EventsGood
<1>8. EventsGood(next)
  BY <1>2, <1>6, <1>7 DEF EventsGood
<1> QED
  BY <1>1, <1>2, <1>3, <1>4, <1>8, <1>11 DEF next

\* What it does to the histories.
LEMMA HistoryAdded ==
  ASSUME NEW es, EventsGood(es), NEW e \in LineEvents,
         (es = <<>>) = (e.kind = "opened"), SaysGood(es, e),
         \A i \in DOMAIN es : es[i].key # e.key
  PROVE  /\ RollsIn(Append(es, e)) = RollsIn(es) \cup (IF e.kind = "roll" THEN {e.says.roll} ELSE {})
         /\ \A field : OpenGap(es, field) /\ (e.corrects = 0 \/ es[e.corrects].says # field)
                          => OpenGap(Append(es, e), field)
         /\ e.kind = "gap" => OpenGap(Append(es, e), e.says)
         /\ \A h : e.sets = Unsaid /\ LastSet(es, h) => LastSet(Append(es, e), h)
         /\ e.sets # Unsaid => LastSet(Append(es, e), e.sets)
         /\ \A n : FirstOpenNote(es, n) => FirstOpenNote(Append(es, e), n)
<1> DEFINE next == Append(es, e)
           n == Len(es) + 1
<1>1. /\ n \in Nat /\ Len(es) \in Nat /\ DOMAIN es = 1..Len(es) /\ DOMAIN next = 1..n /\ next[n] = e
      /\ \A i \in DOMAIN es : i \in DOMAIN next /\ next[i] = es[i] /\ i < n /\ i \in Nat
      /\ n \in DOMAIN next /\ \A i \in DOMAIN next : i # n => i \in DOMAIN es
      /\ \A i \in DOMAIN next : i <= n
  BY EventAdded
<1>2. e.corrects # n /\ \A i \in DOMAIN es : es[i].corrects # n /\ es[i].corrects \in Nat
  <2>1. e.corrects # 0 => e.corrects \in DOMAIN es
    BY DEF SaysGood
  <2>2. ASSUME NEW i \in DOMAIN es PROVE es[i].corrects < i /\ es[i].corrects \in Nat
    <3>1. es[i] \in LineEvents
      BY DEF EventsGood
    <3> QED
      BY <3>1 DEF EventsGood, EventGood, LineEvents
  <2>3. \A i \in DOMAIN es : es[i].corrects # n /\ es[i].corrects \in Nat
    BY <1>1, <2>2
  <2> QED
    BY <1>1, <2>1, <2>3
<1> HIDE DEF next, n
<1>3. RollsIn(next) = RollsIn(es) \cup (IF e.kind = "roll" THEN {e.says.roll} ELSE {})
  BY <1>1 DEF RollsIn
<1>4. ASSUME NEW field, OpenGap(es, field), e.corrects = 0 \/ es[e.corrects].says # field
      PROVE  OpenGap(next, field)
  <2>1. PICK i \in DOMAIN es :
          es[i].kind = "gap" /\ es[i].says = field /\ \A j \in DOMAIN es : es[j].corrects # i
    BY <1>4 DEF OpenGap
  <2>2. e.corrects # i
    BY <1>1, <1>4, <2>1
  <2>3. \A j \in DOMAIN next : next[j].corrects # i
    BY <1>1, <2>1, <2>2
  <2> QED
    BY <1>1, <2>1, <2>3 DEF OpenGap
<1>5. ASSUME e.kind = "gap" PROVE OpenGap(next, e.says)
  <2>1. \A j \in DOMAIN next : next[j].corrects # n
    BY <1>1, <1>2
  <2> QED
    BY <1>1, <1>5, <2>1 DEF OpenGap
<1>6. ASSUME NEW h, e.sets = Unsaid, LastSet(es, h) PROVE LastSet(next, h)
  <2>1. PICK i \in DOMAIN es :
          es[i].sets = h /\ h # Unsaid /\ \A j \in DOMAIN es : j > i => es[j].sets = Unsaid
    BY <1>6 DEF LastSet
  <2>2. \A j \in DOMAIN next : j > i => next[j].sets = Unsaid
    BY <1>1, <1>6, <2>1
  <2> QED
    BY <1>1, <2>1, <2>2 DEF LastSet
<1>7. ASSUME e.sets # Unsaid PROVE LastSet(next, e.sets)
  <2>1. \A j \in DOMAIN next : ~(j > n)
    BY <1>1
  <2> QED
    BY <1>1, <1>7, <2>1 DEF LastSet
<1>8. ASSUME NEW x, FirstOpenNote(es, x) PROVE FirstOpenNote(next, x)
  <2>1. PICK i \in DOMAIN es :
          IsOpenNote(es[i]) /\ es[i].says = x /\ \A j \in DOMAIN es : j < i => ~IsOpenNote(es[j])
    BY <1>8 DEF FirstOpenNote
  <2>2. ASSUME NEW j \in DOMAIN next, j < i PROVE ~IsOpenNote(next[j])
    <3>1. j \in DOMAIN es
      BY <1>1, <2>2
    <3> QED
      BY <1>1, <2>1, <2>2, <3>1
  <2> QED
    BY <1>1, <2>1, <2>2 DEF FirstOpenNote
<1> QED
  BY <1>3, <1>4, <1>5, <1>6, <1>7, <1>8 DEF next

----------------------------------------------------------------------------
(* One event told of the lineage p keeps the invariant.                    *)

LEMMA SaidBefore ==
  ASSUME NEW es, EventsGood(es), NEW e \in LineEvents, SaysGood(es, e),
         NEW i \in DOMAIN es, es[i].key = e.key, e.kind = "roll"
  PROVE  e.says.roll \in RollsIn(es)
<1>1. e.key = <<"roll", e.says.roll>> /\ es[i].key[1] = es[i].kind
  BY DEF EventsGood, EventGood, SaysGood
<1>2. es[i].kind = "roll"
  BY <1>1
<1>3. es[i].key = <<"roll", es[i].says.roll>>
  BY <1>2 DEF EventsGood, EventGood, SaysGood
<1>4. es[i].says.roll = e.says.roll
  BY <1>1, <1>3
<1> QED
  BY <1>2, <1>4 DEF RollsIn

LEMMA VagueKept ==
  ASSUME NEW es, EventsGood(es), NEW e \in LineEvents,
         (es = <<>>) = (e.kind = "opened"), SaysGood(es, e),
         \A i \in DOMAIN es : es[i].key # e.key,
         NEW fields, VagueGood(es, fields), e.corrects = 0
  PROVE  VagueGood(Append(es, e), fields)
BY HistoryAdded DEF VagueGood

LEMMA LineSame ==
  ASSUME NEW p \in Lines, LineInv(p), events'[p] = events[p], rolled'[p] = rolled[p],
         vague'[p] = vague[p], holds'[p] = holds[p], pinned'[p] = pinned[p]
  PROVE  LineInv(p)'
BY DEF LineInv, Opened

LEMMA LineAfter ==
  ASSUME LinesInv, NEW p \in Lines, NEW e \in LineEvents,
         ~Opened(p) = (e.kind = "opened"), SaysGood(events[p], e),
         events' = WithEvent(p, e), pinned' = pinned, atStart' = atStart,
         rolled' = [rolled EXCEPT ![p] = IF e.kind = "roll" THEN @ \cup {e.says.roll} ELSE @],
         NEW fields, vague' = [vague EXCEPT ![p] = fields],
         Has(p, e) => fields = vague[p],
         ~Has(p, e) => VagueGood(Append(events[p], e), fields),
         holds' = HoldsNow(p, e)
  PROVE  LinesInv'
<1>1. /\ EventsGood(events[p]) /\ LineInv(p)
      /\ rolled[p] = RollsIn(events[p]) /\ VagueGood(events[p], vague[p])
      /\ holds[p] \in Holdings \cup {Unsaid} /\ (Opened(p) => LastSet(events[p], holds[p]))
      /\ pinned[p] # Unsaid => FirstOpenNote(events[p], pinned[p])
  BY DEF LinesInv, LineInv
<1>2. events' = [q \in Lines |-> events'[q]] /\ \A q \in Lines \ {p} : events'[q] = events[q]
  BY DEF LinesInv, WithEvent
<1>3. /\ rolled' = [q \in Lines |-> rolled'[q]] /\ \A q \in Lines \ {p} : rolled'[q] = rolled[q]
      /\ rolled'[p] = IF e.kind = "roll" THEN rolled[p] \cup {e.says.roll} ELSE rolled[p]
  BY DEF LinesInv
<1>4. /\ vague' = [q \in Lines |-> vague'[q]] /\ \A q \in Lines \ {p} : vague'[q] = vague[q]
      /\ vague'[p] = fields
  BY DEF LinesInv
<1>5. /\ holds' = [q \in Lines |-> holds'[q]] /\ \A q \in Lines \ {p} : holds'[q] = holds[q]
      /\ holds'[p] = IF Has(p, e) \/ e.sets = Unsaid THEN holds[p] ELSE e.sets
  BY DEF LinesInv, HoldsNow
<1>6. pinned' = [q \in Lines |-> pinned'[q]] /\ pinned'[p] = pinned[p]
  BY DEF LinesInv
<1>7. \A q \in Lines \ {p} : LineInv(q)'
  BY <1>2, <1>3, <1>4, <1>5, LineSame DEF LinesInv
<1>8. LineInv(p)'
  <2>1. CASE Has(p, e)
    <3>1. events'[p] = events[p]
      BY <2>1 DEF WithEvent
    <3>2. rolled'[p] = rolled[p]
      BY <1>1, <1>3, <2>1, SaidBefore DEF Has
    <3> QED
      BY <1>1, <1>4, <1>5, <1>6, <2>1, <3>1, <3>2, LineSame
  <2>2. CASE ~Has(p, e)
    <3> DEFINE es == events[p]
    <3>1. events'[p] = Append(es, e)
      BY <2>2 DEF WithEvent, LinesInv
    <3>2. \A i \in DOMAIN es : es[i].key # e.key
      BY <2>2 DEF Has
    <3>3. (es = <<>>) = (e.kind = "opened")
      BY DEF Opened
    <3> HIDE DEF es
    <3>a. EventsGood(es) /\ SaysGood(es, e)
      BY <1>1 DEF es
    <3>4. /\ EventsGood(Append(es, e))
          /\ RollsIn(Append(es, e)) = RollsIn(es) \cup (IF e.kind = "roll" THEN {e.says.roll} ELSE {})
          /\ \A h : e.sets = Unsaid /\ LastSet(es, h) => LastSet(Append(es, e), h)
          /\ e.sets # Unsaid => LastSet(Append(es, e), e.sets)
          /\ \A n : FirstOpenNote(es, n) => FirstOpenNote(Append(es, e), n)
      BY <3>2, <3>3, <3>a, EventAdded, HistoryAdded
    <3>5. EventsGood(events'[p]) /\ rolled'[p] = RollsIn(events'[p])
      BY <1>1, <1>3, <3>1, <3>4 DEF es
    <3>6. VagueGood(events'[p], vague'[p])
      BY <1>4, <2>2, <3>1 DEF es
    <3>7. holds'[p] \in Holdings \cup {Unsaid}
      BY <1>1, <1>5 DEF LineEvents
    <3>8. e.kind = "opened" => e.sets # Unsaid
      BY <3>a DEF SaysGood
    <3>9. LastSet(events'[p], holds'[p])
      BY <1>1, <1>5, <2>2, <3>1, <3>3, <3>4, <3>8 DEF es, Opened
    <3>10. pinned'[p] # Unsaid => FirstOpenNote(events'[p], pinned'[p])
      BY <1>1, <1>6, <3>1, <3>4 DEF es
    <3> QED
      BY <3>5, <3>6, <3>7, <3>9, <3>10 DEF LineInv
  <2> QED
    BY <2>1, <2>2
<1>9. ASSUME NEW q \in Lines, Opened(q) PROVE Opened(q)'
  <2>1. events[q] # <<>>
    BY <1>9 DEF Opened
  <2>2. CASE Has(p, e) \/ q # p
    <3>1. events'[q] = events[q]
      BY <1>2, <2>2 DEF WithEvent
    <3> QED
      BY <2>1, <3>1 DEF Opened
  <2>3. CASE ~Has(p, e) /\ q = p
    <3>1. events'[p] = Append(events[p], e)
      BY <2>3 DEF WithEvent, LinesInv
    <3> QED
      BY <1>1, <2>3, <3>1, AppendProperties DEF EventsGood, Opened
  <2> QED
    BY <2>2, <2>3
<1>10. (atStart = Unsaid \/ (atStart \subseteq Lines /\ \A q \in atStart : Opened(q)))'
  BY <1>9 DEF LinesInv
<1>11. \A q \in Lines : LineInv(q)'
  BY <1>7, <1>8
<1> QED
  BY <1>2, <1>3, <1>4, <1>5, <1>6, <1>10, <1>11 DEF LinesInv

----------------------------------------------------------------------------
(* A lineage's projection: what is superseded, the entry note.             *)

EffectiveIn(es) == {i \in DOMAIN es : \A j \in DOMAIN es : es[j].corrects # i}
KindIn(es, kind) == {i \in EffectiveIn(es) : es[i].kind = kind}
OpenNotesIn(es) == {i \in KindIn(es, "note") : es[i].says.action = "open"}
EntryNoteIn(es) ==
  IF OpenNotesIn(es) = {} THEN Unsaid
  ELSE es[CHOOSE i \in OpenNotesIn(es) : \A j \in OpenNotesIn(es) : i <= j].says

LEMMA EntryNoteIs ==
  ASSUME NEW p \in Lines
  PROVE  EntryNote(p) = EntryNoteIn(events[p]) /\ EntryNote(p)' = EntryNoteIn(events'[p])
BY DEF EntryNote, EntryNotes, OfKind, Effective, EntryNoteIn, OpenNotesIn, KindIn, EffectiveIn

\* Only a gap is superseded.
LEMMA OnlyGapsSuperseded ==
  ASSUME NEW es, EventsGood(es), NEW i \in DOMAIN es, es[i].kind # "gap"
  PROVE  i \in EffectiveIn(es) /\ i \in KindIn(es, es[i].kind)
<1>1. es \in Seq(LineEvents) /\ i # 0
  BY DEF EventsGood
<1>2. ASSUME NEW j \in DOMAIN es, es[j].corrects = i PROVE FALSE
  BY <1>1, <1>2 DEF EventsGood, EventGood, SaysGood
<1> QED
  BY <1>2 DEF EffectiveIn, KindIn

LEMMA FirstNoteIs ==
  ASSUME NEW es, EventsGood(es)
  PROVE  /\ \A n : FirstOpenNote(es, n) => EntryNoteIn(es) = n
         /\ EntryNoteIn(es) # Unsaid => /\ FirstOpenNote(es, EntryNoteIn(es))
                                        /\ EntryNoteIn(es) \in NoteSays
                                        /\ EntryNoteIn(es).action = "open"
                                        /\ RestsOnFill(es, EntryNoteIn(es))
<1> DEFINE notes == OpenNotesIn(es)
           first == CHOOSE i \in notes : \A j \in notes : i <= j
<1>1. \A i \in DOMAIN es : i \in notes <=> IsOpenNote(es[i])
  BY OnlyGapsSuperseded DEF OpenNotesIn, KindIn, IsOpenNote
<1>2. notes \subseteq DOMAIN es /\ DOMAIN es \subseteq Nat /\ \A i \in notes : IsOpenNote(es[i])
  BY <1>1 DEF OpenNotesIn, KindIn, EffectiveIn, EventsGood
<1>3. EntryNoteIn(es) = IF notes = {} THEN Unsaid ELSE es[first].says
  BY DEF EntryNoteIn
<1>4. notes # {} => first \in notes /\ \A j \in notes : first <= j
  BY <1>2, LeastNatural
<1> HIDE DEF notes, first
<1>5. ASSUME NEW n, FirstOpenNote(es, n) PROVE EntryNoteIn(es) = n
  <2>1. PICK i \in DOMAIN es :
          IsOpenNote(es[i]) /\ es[i].says = n /\ \A j \in DOMAIN es : j < i => ~IsOpenNote(es[j])
    BY <1>5 DEF FirstOpenNote
  <2>2. i \in notes /\ first \in Nat /\ i \in Nat /\ first <= i /\ ~(first < i)
    BY <1>1, <1>2, <1>4, <2>1
  <2>3. first = i
    BY <2>2
  <2> QED
    BY <1>3, <2>1, <2>2, <2>3
<1>6. ASSUME EntryNoteIn(es) # Unsaid
      PROVE  /\ FirstOpenNote(es, EntryNoteIn(es)) /\ EntryNoteIn(es) \in NoteSays
             /\ EntryNoteIn(es).action = "open" /\ RestsOnFill(es, EntryNoteIn(es))
  <2>1. notes # {} /\ EntryNoteIn(es) = es[first].says /\ first \in DOMAIN es /\ IsOpenNote(es[first])
    BY <1>2, <1>3, <1>4, <1>6
  <2>2. ASSUME NEW j \in DOMAIN es, j < first PROVE ~IsOpenNote(es[j])
    BY <1>1, <1>2, <1>4, <2>1, <2>2
  <2>3. SaysGood(es, es[first])
    BY <2>1 DEF EventsGood, EventGood
  <2> QED
    BY <2>1, <2>2, <2>3 DEF FirstOpenNote, SaysGood, IsOpenNote
<1> QED
  BY <1>5, <1>6

----------------------------------------------------------------------------
(* The notes of a run, one after the other.                                *)

\* The events once some notes are in them.
NotesIn(es) ==
  /\ es = [p \in Lines |-> es[p]]
  /\ \A p \in Lines :
       /\ EventsGood(es[p]) /\ (es[p] = <<>>) = ~Opened(p)
       /\ EntryIn(events[p]) \subseteq EntryIn(es[p])
       /\ rolled[p] = RollsIn(es[p]) /\ VagueGood(es[p], vague[p])
       /\ Opened(p) => LastSet(es[p], holds[p])
       /\ pinned[p] # Unsaid => FirstOpenNote(es[p], pinned[p])

LEMMA TargetsOpened ==
  ASSUME LinesInv, atStart # Unsaid, NEW d, NEW p \in Lines, p \in Targets(d)
  PROVE  Opened(p) /\ (d.action = "open" => RestsOnFill(events[p], d))
<1>1. CASE d.action = "open"
  <2>1. PICK o \in d.orders : p \in EntryLineage(o)
    BY <1>1 DEF Targets
  <2>2. PICK f \in EntryFills(p) : FillOf[f].order = o
    BY <2>1 DEF EntryLineage
  <2>3. f \in EntryIn(events[p])
    BY <2>2 DEF EntryFills, Says, OfKind, Effective, EntryIn
  <2>4. events[p] # <<>>
    BY <2>3 DEF EntryIn
  <2> QED
    BY <2>2, <2>3, <2>4 DEF RestsOnFill, Opened
<1>2. CASE d.action # "open"
  <2>1. p \in atStart
    BY <1>2 DEF Targets
  <2> QED
    BY <1>2, <2>1 DEF LinesInv
<1> QED
  BY <1>1, <1>2

LEMMA NoteAdded ==
  ASSUME LinesInv, atStart # Unsaid, NEW es, NotesIn(es), NEW k \in 1..Len(Decisions)
  PROVE  NotesIn(Noted(es, Decisions[k]))
<1> DEFINE d == Decisions[k]
           e == Note(d)
           next == Noted(es, d)
<1>0. k \in DOMAIN Decisions /\ d \in NoteSays
  BY LineagesAssumption DEF LineagesAssumption, NoteSays
<1>1. /\ e \in LineEvents /\ e.kind = "note" /\ e.key = <<"note", d.ref>> /\ e.says = d
      /\ e.sets = Unsaid /\ e.corrects = 0
  <2>1. d.ref \in EventNames /\ "note" \in EventKinds
    BY <1>0 DEF EventNames, EventKinds
  <2> HIDE DEF d
  <2> QED
    BY <1>0, <2>1 DEF Note, Event, LineEvents
<1>2. next = [p \in Lines |-> next[p]]
  BY DEF Noted
<1>3. ASSUME NEW p \in Lines
      PROVE  \/ next[p] = es[p]
             \/ /\ next[p] = Append(es[p], e) /\ p \in Targets(d)
                /\ \A i \in DOMAIN es[p] : es[p][i].key # e.key
  BY DEF Noted
<1> HIDE DEF d, e, next
<1>4. ASSUME NEW p \in Lines, next[p] = Append(es[p], e), p \in Targets(d),
             \A i \in DOMAIN es[p] : es[p][i].key # e.key
      PROVE  /\ EventsGood(next[p]) /\ (next[p] = <<>>) = ~Opened(p)
             /\ EntryIn(events[p]) \subseteq EntryIn(next[p])
             /\ rolled[p] = RollsIn(next[p]) /\ VagueGood(next[p], vague[p])
             /\ Opened(p) => LastSet(next[p], holds[p])
             /\ pinned[p] # Unsaid => FirstOpenNote(next[p], pinned[p])
  <2> DEFINE s == es[p]
  <2>1. Opened(p) /\ (d.action = "open" => RestsOnFill(events[p], d))
    BY <1>4, TargetsOpened
  <2>2. /\ EventsGood(s) /\ s # <<>> /\ EntryIn(events[p]) \subseteq EntryIn(s)
        /\ rolled[p] = RollsIn(s) /\ VagueGood(s, vague[p])
        /\ LastSet(s, holds[p]) /\ (pinned[p] # Unsaid => FirstOpenNote(s, pinned[p]))
    BY <2>1 DEF NotesIn
  <2>3. next[p] = Append(s, e) /\ \A i \in DOMAIN s : s[i].key # e.key
    BY <1>4
  <2> HIDE DEF s
  <2>4. SaysGood(s, e)
    BY <1>0, <1>1, <2>1, <2>2 DEF SaysGood, RestsOnFill
  <2>5. (s = <<>>) = (e.kind = "opened")
    BY <1>1, <2>2
  <2>6. EventsGood(Append(s, e)) /\ EntryIn(s) \subseteq EntryIn(Append(s, e)) /\ Append(s, e) # <<>>
    <3>1. Len(s) + 1 \in DOMAIN Append(s, e)
      BY <1>1, <2>2, <2>3, <2>4, <2>5, EventAdded
    <3> QED
      BY <1>1, <2>2, <2>3, <2>4, <2>5, <3>1, EventAdded
  <2>7. RollsIn(Append(s, e)) = RollsIn(s)
    <3>1. RollsIn(Append(s, e)) = RollsIn(s) \cup (IF e.kind = "roll" THEN {e.says.roll} ELSE {})
      BY <1>1, <2>2, <2>3, <2>4, <2>5, HistoryAdded
    <3> QED
      BY <1>1, <3>1
  <2>8. VagueGood(Append(s, e), vague[p])
    BY <1>1, <2>2, <2>3, <2>4, <2>5, VagueKept
  <2>9. /\ LastSet(Append(s, e), holds[p])
        /\ pinned[p] # Unsaid => FirstOpenNote(Append(s, e), pinned[p])
    BY <1>1, <2>2, <2>3, <2>4, <2>5, HistoryAdded
  <2> QED
    BY <2>1, <2>2, <2>3, <2>6, <2>7, <2>8, <2>9
<1> QED
  BY <1>2, <1>3, <1>4 DEF NotesIn, next, d

\* The notes exist: those of k decisions determine those of one more.
LEMMA NotesWritten ==
  ASSUME LinesInv, atStart # Unsaid, NEW n \in 0..Len(Decisions)
  PROVE  NotesIn(WithNotes(n))
<1> DEFINE Good(g, k) ==
             \A i \in 0..n : i <= k => g[i] = IF i = 0 THEN events ELSE Noted(g[i - 1], Decisions[i])
           After == CHOOSE g : g = [k \in 0..n |-> IF k = 0 THEN events ELSE Noted(g[k - 1], Decisions[k])]
           good == {k \in Nat : \E g : Good(g, k)}
           right == {k \in Nat : k <= n => NotesIn(After[k])}
<1>0. n \in Nat /\ Len(Decisions) \in Nat /\ n <= Len(Decisions)
  BY LineagesAssumption DEF LineagesAssumption
<1>1. 0 \in good
  <2>1. Good([k \in 0..n |-> events], 0)
    BY <1>0
  <2> QED
    BY <2>1
<1>2. ASSUME NEW k \in good PROVE k + 1 \in good
  <2>1. PICK g : Good(g, k)
    OBVIOUS
  <2> DEFINE h == [i \in 0..n |-> IF i <= k THEN g[i] ELSE Noted(g[i - 1], Decisions[i])]
  <2>2. ASSUME NEW i \in 0..n, i <= k + 1
        PROVE  h[i] = IF i = 0 THEN events ELSE Noted(h[i - 1], Decisions[i])
    <3>1. i # 0 => i - 1 \in 0..n /\ i - 1 <= k
      BY <1>0, <2>2
    <3>2. i # 0 => h[i - 1] = g[i - 1]
      BY <3>1
    <3>3. h[i] = IF i <= k THEN g[i] ELSE Noted(g[i - 1], Decisions[i])
      OBVIOUS
    <3>4. i <= k => g[i] = IF i = 0 THEN events ELSE Noted(g[i - 1], Decisions[i])
      BY <2>1
    <3>5. ~(i <= k) => i # 0
      BY <1>2
    <3> HIDE DEF h
    <3> QED
      BY <3>2, <3>3, <3>4, <3>5
  <2>3. Good(h, k + 1)
    BY <2>2
  <2> HIDE DEF h, Good
  <2> QED
    BY <2>3
<1>3. good = Nat
  <2>1. good \in SUBSET Nat
    OBVIOUS
  <2> HIDE DEF good
  <2> QED
    BY <1>1, <1>2, <2>1, NaturalsByStep
<1>4. After = [k \in 0..n |-> IF k = 0 THEN events ELSE Noted(After[k - 1], Decisions[k])]
  <2>1. PICK g : Good(g, n)
    BY <1>0, <1>3
  <2> DEFINE h == [i \in 0..n |-> g[i]]
  <2>2. ASSUME NEW i \in 0..n PROVE h[i] = IF i = 0 THEN events ELSE Noted(h[i - 1], Decisions[i])
    <3>1. i <= n /\ (i # 0 => i - 1 \in 0..n)
      BY <1>0
    <3>2. g[i] = IF i = 0 THEN events ELSE Noted(g[i - 1], Decisions[i])
      BY <2>1, <3>1
    <3> QED
      BY <3>1, <3>2
  <2>3. h = [k \in 0..n |-> IF k = 0 THEN events ELSE Noted(h[k - 1], Decisions[k])]
    <3>1. h = [k \in 0..n |-> h[k]]
      OBVIOUS
    <3> HIDE DEF h
    <3> QED
      BY <2>2, <3>1
  <2> HIDE DEF h
  <2> QED
    BY <2>3
<1>5. WithNotes(n) = After[n]
  BY DEF WithNotes
<1> HIDE DEF After
<1>6. 0 \in right
  <2>1. After[0] = events
    BY <1>0, <1>4
  <2>2. NotesIn(events)
    BY DEF NotesIn, LinesInv, LineInv, Opened
  <2> QED
    BY <2>1, <2>2
<1>7. ASSUME NEW k \in right PROVE k + 1 \in right
  <2>1. CASE k + 1 <= n
    <3>1. k + 1 \in 0..n /\ k + 1 # 0 /\ k <= n /\ (k + 1) - 1 = k /\ k + 1 \in 1..Len(Decisions)
      BY <1>0, <2>1
    <3>2. After[k + 1] = Noted(After[k], Decisions[k + 1])
      BY <1>4, <3>1
    <3>3. NotesIn(After[k])
      BY <3>1
    <3> QED
      BY <3>1, <3>2, <3>3, NoteAdded
  <2> QED
    BY <2>1
<1>8. right = Nat
  <2>1. right \in SUBSET Nat
    OBVIOUS
  <2> HIDE DEF right
  <2> QED
    BY <1>6, <1>7, <2>1, NaturalsByStep
<1> QED
  BY <1>0, <1>5, <1>8

----------------------------------------------------------------------------
(* Lineages: every action keeps the invariant.                             *)

\* The events the actions append.
LEMMA EventIs ==
  ASSUME NEW kind \in EventKinds, NEW key \in EventNames
  PROVE  /\ Event(kind, key) \in LineEvents
         /\ Event(kind, key).kind = kind /\ Event(kind, key).key = <<kind, key>>
         /\ Event(kind, key).says = key /\ Event(kind, key).sets = Unsaid
         /\ Event(kind, key).corrects = 0
BY DEF Event, LineEvents

LEMMA OpenLineageKeeps ==
  ASSUME LinesInv, NEW p \in Lines, NEW imported \in BOOLEAN, OpenLineage(p, imported, First)
  PROVE  LinesInv'
<1> DEFINE e == [Event("opened", "opened") EXCEPT !.imported = imported, !.sets = First]
<1>1. "opened" \in EventKinds /\ "opened" \in EventNames
  BY DEF EventKinds, EventNames
<1>2. /\ e \in LineEvents /\ e.kind = "opened" /\ e.key = <<"opened", "opened">>
      /\ e.sets = First /\ e.corrects = 0
  BY <1>1, LineagesAssumption DEF Event, LineEvents, LineagesAssumption
<1>3. ~Opened(p) /\ events' = WithEvent(p, e) /\ holds' = HoldsNow(p, e)
      /\ UNCHANGED <<atStart, rolled, vague, pinned>>
  BY DEF OpenLineage
<1>4. First # Unsaid
  BY LineagesAssumption DEF LineagesAssumption
<1> HIDE DEF e
<1>5. SaysGood(events[p], e)
  BY <1>2, <1>4 DEF SaysGood
<1>6. EventsGood(events[p]) /\ VagueGood(events[p], vague[p])
  BY DEF LinesInv, LineInv
<1>7. ~Has(p, e) => VagueGood(Append(events[p], e), vague[p])
  BY <1>2, <1>3, <1>5, <1>6, VagueKept DEF Has, Opened
<1>8. rolled' = [rolled EXCEPT ![p] = IF e.kind = "roll" THEN @ \cup {e.says.roll} ELSE @]
  BY <1>2, <1>3 DEF LinesInv
<1>9. vague' = [vague EXCEPT ![p] = vague[p]]
  BY <1>3 DEF LinesInv
<1>10. ~Opened(p) = (e.kind = "opened")
  BY <1>2, <1>3
<1> QED
  BY <1>2, <1>3, <1>5, <1>7, <1>8, <1>9, <1>10, LineAfter

\* An event that settles and opens no question and is no roll.
LEMMA PlainEventKeeps ==
  ASSUME LinesInv, NEW p \in Lines, NEW e \in LineEvents, Opened(p),
         e.kind \notin {"opened", "roll"}, e.corrects = 0, SaysGood(events[p], e),
         events' = WithEvent(p, e), holds' = HoldsNow(p, e),
         atStart' = atStart, rolled' = rolled, vague' = vague, pinned' = pinned
  PROVE  LinesInv'
<1>1. EventsGood(events[p]) /\ VagueGood(events[p], vague[p])
  BY DEF LinesInv, LineInv
<1>2. ~Has(p, e) => VagueGood(Append(events[p], e), vague[p])
  BY <1>1, VagueKept DEF Has, Opened
<1>3. rolled' = [rolled EXCEPT ![p] = IF e.kind = "roll" THEN @ \cup {e.says.roll} ELSE @]
  BY DEF LinesInv
<1>4. vague' = [vague EXCEPT ![p] = vague[p]]
  BY DEF LinesInv
<1>5. ~Opened(p) = (e.kind = "opened")
  OBVIOUS
<1> QED
  BY <1>2, <1>3, <1>4, <1>5, LineAfter

LEMMA LinkFillKeeps ==
  ASSUME LinesInv, NEW p \in Lines, NEW f \in FillEvents, NEW role \in {"entry", "close"},
         LinkFill(p, f, role)
  PROVE  LinesInv'
<1> DEFINE e == [Event("fill", f) EXCEPT !.says = [fill |-> f, role |-> role]]
<1>1. "fill" \in EventKinds /\ f \in EventNames /\ [fill |-> f, role |-> role] \in FillSays
  BY DEF EventKinds, EventNames, FillSays
<1>2. /\ e \in LineEvents /\ e.kind = "fill" /\ e.key = <<"fill", f>> /\ e.sets = Unsaid
      /\ e.corrects = 0 /\ e.says \in FillSays
  BY <1>1 DEF Event, LineEvents
<1>3. Opened(p) /\ events' = WithEvent(p, e) /\ UNCHANGED <<atStart, rolled, vague, holds, pinned>>
  BY DEF LinkFill
<1> HIDE DEF e
<1>4. SaysGood(events[p], e)
  BY <1>2 DEF SaysGood
<1>5. holds' = HoldsNow(p, e)
  BY <1>2, <1>3 DEF HoldsNow, LinesInv
<1> QED
  BY <1>2, <1>3, <1>4, <1>5, PlainEventKeeps

LEMMA ClosePositionKeeps ==
  ASSUME LinesInv, NEW p \in Lines, ClosePosition(p)
  PROVE  LinesInv'
<1> DEFINE e == Event("closed", "closed")
<1>1. "closed" \in EventKinds /\ "closed" \in EventNames
  BY DEF EventKinds, EventNames
<1>2. /\ e \in LineEvents /\ e.kind = "closed" /\ e.key = <<"closed", "closed">> /\ e.sets = Unsaid
      /\ e.corrects = 0
  BY <1>1, EventIs
<1>3. Opened(p) /\ events' = WithEvent(p, e) /\ UNCHANGED <<atStart, rolled, vague, holds, pinned>>
  BY DEF ClosePosition
<1> HIDE DEF e
<1>4. SaysGood(events[p], e)
  BY <1>2 DEF SaysGood
<1>5. holds' = HoldsNow(p, e)
  BY <1>2, <1>3 DEF HoldsNow, LinesInv
<1> QED
  BY <1>2, <1>3, <1>4, <1>5, PlainEventKeeps

LEMMA RecordRollKeeps ==
  ASSUME LinesInv, NEW p \in Lines, NEW k \in RollNames, NEW h \in Holdings,
         NEW o \in RollOrders[k], RecordRoll(p, k, o, h)
  PROVE  LinesInv'
<1> DEFINE e == [Event("roll", RollName(k, o)) EXCEPT !.says = [roll |-> k, order |-> o], !.sets = h]
<1>1. "roll" \in EventKinds /\ k \in EventNames /\ [roll |-> k, order |-> o] \in RollSays
  BY DEF EventKinds, EventNames, RollSays
<1>2. /\ e \in LineEvents /\ e.kind = "roll" /\ e.key = <<"roll", k>> /\ e.sets = h
      /\ e.corrects = 0 /\ e.says \in RollSays /\ e.says.roll = k /\ e.says.order = o
  BY <1>1 DEF Event, LineEvents, RollName
<1>3. /\ Opened(p) /\ events' = WithEvent(p, e) /\ UNCHANGED <<atStart, vague, pinned>>
      /\ holds' = [holds EXCEPT ![p] = IF k \in rolled[p] THEN @ ELSE h]
      /\ rolled' = [rolled EXCEPT ![p] = @ \cup {k}]
  BY DEF RecordRoll
<1>4. h # Unsaid
  BY LineagesAssumption DEF LineagesAssumption
<1> HIDE DEF e
<1>5. SaysGood(events[p], e)
  BY <1>2 DEF SaysGood
<1>6. EventsGood(events[p]) /\ VagueGood(events[p], vague[p]) /\ rolled[p] = RollsIn(events[p])
  BY DEF LinesInv, LineInv
<1>7. Has(p, e) <=> k \in rolled[p]
  <2>1. Has(p, e) => k \in rolled[p]
    BY <1>2, <1>5, <1>6, SaidBefore DEF Has
  <2>2. ASSUME k \in rolled[p] PROVE Has(p, e)
    <3>1. PICK i \in DOMAIN events[p] : events[p][i].kind = "roll" /\ events[p][i].says.roll = k
      BY <1>6, <2>2 DEF RollsIn
    <3>2. events[p][i].key = <<"roll", k>>
      BY <1>6, <3>1 DEF EventsGood, EventGood, SaysGood
    <3> QED
      BY <1>2, <3>2 DEF Has
  <2> QED
    BY <2>1, <2>2
<1>8. holds' = HoldsNow(p, e)
  BY <1>2, <1>3, <1>4, <1>7 DEF HoldsNow
<1>9. rolled' = [rolled EXCEPT ![p] = IF e.kind = "roll" THEN @ \cup {e.says.roll} ELSE @]
  BY <1>2, <1>3
<1>10. vague' = [vague EXCEPT ![p] = vague[p]]
  BY <1>3 DEF LinesInv
<1>11. ~Has(p, e) => VagueGood(Append(events[p], e), vague[p])
  BY <1>2, <1>3, <1>5, <1>6, VagueKept DEF Has, Opened
<1>12. ~Opened(p) = (e.kind = "opened")
  BY <1>2, <1>3
<1> QED
  BY <1>2, <1>3, <1>5, <1>8, <1>9, <1>10, <1>11, <1>12, LineAfter

LEMMA RecordGapKeeps ==
  ASSUME LinesInv, NEW p \in Lines, NEW field \in {"roll_count", "dividend"}, RecordGap(p, field)
  PROVE  LinesInv'
<1> DEFINE e == Event("gap", field)
           fields == IF Has(p, e) THEN vague[p] ELSE vague[p] \cup ({field} \cap HistoryFields)
<1>1. "gap" \in EventKinds /\ field \in EventNames
  BY DEF EventKinds, EventNames
<1>2. /\ e \in LineEvents /\ e.kind = "gap" /\ e.key = <<"gap", field>> /\ e.sets = Unsaid
      /\ e.corrects = 0 /\ e.says = field
  BY <1>1, EventIs
<1>3. /\ Opened(p) /\ events' = WithEvent(p, e) /\ UNCHANGED <<atStart, rolled, holds, pinned>>
      /\ vague' = [vague EXCEPT ![p] = fields]
  BY DEF RecordGap
<1>4. Has(p, e) => fields = vague[p]
  OBVIOUS
<1>5. ~Has(p, e) => fields = vague[p] \cup ({field} \cap HistoryFields)
  OBVIOUS
<1> HIDE DEF e, fields
<1>6. SaysGood(events[p], e)
  BY <1>2 DEF SaysGood
<1>7. EventsGood(events[p]) /\ VagueGood(events[p], vague[p])
  BY DEF LinesInv, LineInv
<1>8. ASSUME ~Has(p, e) PROVE VagueGood(Append(events[p], e), fields)
  <2>1. VagueGood(Append(events[p], e), vague[p])
    BY <1>2, <1>3, <1>6, <1>7, <1>8, VagueKept DEF Has, Opened
  <2>2. OpenGap(Append(events[p], e), field)
    BY <1>2, <1>3, <1>6, <1>7, <1>8, HistoryAdded DEF Has, Opened
  <2> QED
    BY <1>5, <1>8, <2>1, <2>2 DEF VagueGood
<1>9. holds' = HoldsNow(p, e)
  BY <1>2, <1>3 DEF HoldsNow, LinesInv
<1>10. rolled' = [rolled EXCEPT ![p] = IF e.kind = "roll" THEN @ \cup {e.says.roll} ELSE @]
  BY <1>2, <1>3 DEF LinesInv
<1>11. ~Opened(p) = (e.kind = "opened")
  BY <1>2, <1>3
<1> QED
  BY <1>2, <1>3, <1>4, <1>6, <1>8, <1>9, <1>10, <1>11, LineAfter

LEMMA RecordReconciliationKeeps ==
  ASSUME LinesInv, NEW p \in Lines, NEW h \in Holdings \cup {Unsaid}, NEW gap \in 0..Len(events[p]),
         RecordReconciliation(p, "read", gap, h)
  PROVE  LinesInv'
<1> DEFINE e == [Event("reconciliation", "read") EXCEPT !.sets = h, !.corrects = gap]
           fields == IF gap = 0 \/ Has(p, e) THEN vague[p] ELSE vague[p] \ {events[p][gap].says}
<1>0. EventsGood(events[p]) /\ VagueGood(events[p], vague[p]) /\ gap \in Nat
  BY DEF LinesInv, LineInv, EventsGood
<1>1. "reconciliation" \in EventKinds /\ "read" \in EventNames
  BY DEF EventKinds, EventNames
<1>2. /\ e \in LineEvents /\ e.kind = "reconciliation" /\ e.key = <<"reconciliation", "read">>
      /\ e.sets = h /\ e.corrects = gap
  BY <1>0, <1>1 DEF Event, LineEvents
<1>3. /\ Opened(p) /\ events' = WithEvent(p, e) /\ UNCHANGED <<atStart, rolled, pinned>>
      /\ holds' = HoldsNow(p, e) /\ gap \in OfKind(p, "gap") \cup {0}
      /\ vague' = [vague EXCEPT ![p] = fields]
  BY DEF RecordReconciliation
<1>4. Has(p, e) => fields = vague[p]
  OBVIOUS
<1>5. /\ gap = 0 => fields = vague[p]
      /\ gap # 0 /\ ~Has(p, e) => fields = vague[p] \ {events[p][gap].says}
  OBVIOUS
<1> HIDE DEF e, fields
<1>6. SaysGood(events[p], e)
  <2>1. gap # 0 => gap \in DOMAIN events[p] /\ events[p][gap].kind = "gap"
    BY <1>3 DEF OfKind, Effective
  <2> QED
    BY <1>2, <2>1 DEF SaysGood
<1>7. ASSUME ~Has(p, e) PROVE VagueGood(Append(events[p], e), fields)
  <2>1. CASE gap = 0
    BY <1>0, <1>2, <1>3, <1>5, <1>6, <1>7, <2>1, VagueKept DEF Has, Opened
  <2>2. CASE gap # 0
    <3>1. fields = vague[p] \ {events[p][gap].says}
      BY <1>5, <1>7, <2>2
    <3>2. ASSUME NEW f \in fields PROVE OpenGap(Append(events[p], e), f)
      <4>1. OpenGap(events[p], f) /\ events[p][gap].says # f
        BY <1>0, <3>1 DEF VagueGood
      <4> QED
        BY <1>0, <1>2, <1>3, <1>6, <1>7, <4>1, HistoryAdded DEF Has, Opened
    <3> QED
      BY <1>0, <3>1, <3>2 DEF VagueGood
  <2> QED
    BY <2>1, <2>2
<1>8. rolled' = [rolled EXCEPT ![p] = IF e.kind = "roll" THEN @ \cup {e.says.roll} ELSE @]
  BY <1>2, <1>3 DEF LinesInv
<1>9. ~Opened(p) = (e.kind = "opened")
  BY <1>2, <1>3
<1> QED
  BY <1>2, <1>3, <1>4, <1>6, <1>7, <1>8, <1>9, LineAfter

LEMMA StoreBookKeeps ==
  ASSUME LinesInv, StoreBook
  PROVE  LinesInv'
<1>1. UNCHANGED <<events, rolled, vague, holds, pinned>> /\ atStart' = {p \in Lines : ActiveLines(p)}
  BY DEF StoreBook
<1>2. \A p \in Lines : LineInv(p)'
  BY <1>1, LineSame DEF LinesInv
<1>3. (atStart \subseteq Lines /\ \A p \in atStart : Opened(p))'
  BY <1>1 DEF ActiveLines, Opened
<1> QED
  BY <1>1, <1>2, <1>3 DEF LinesInv

LEMMA RecordNotesKeeps ==
  ASSUME LinesInv, RecordNotes
  PROVE  LinesInv'
<1>1. PICK n \in 0..Len(Decisions) : events' = WithNotes(n)
  BY DEF RecordNotes
<1>2. /\ atStart # Unsaid /\ UNCHANGED <<atStart, rolled, vague, holds>>
      /\ pinned' = [p \in Lines |-> IF pinned[p] = Unsaid /\ events'[p] # <<>> THEN EntryNote(p)' ELSE pinned[p]]
  BY DEF RecordNotes, PinNow
<1>3. NotesIn(events')
  BY <1>1, <1>2, NotesWritten
<1>4. ASSUME NEW p \in Lines PROVE LineInv(p)'
  <2>1. /\ EventsGood(events'[p]) /\ (events'[p] = <<>>) = ~Opened(p)
        /\ rolled[p] = RollsIn(events'[p]) /\ VagueGood(events'[p], vague[p])
        /\ Opened(p) => LastSet(events'[p], holds[p])
        /\ pinned[p] # Unsaid => FirstOpenNote(events'[p], pinned[p])
    BY <1>3 DEF NotesIn
  <2>2. EntryNote(p)' # Unsaid => FirstOpenNote(events'[p], EntryNote(p)')
    BY <2>1, EntryNoteIs, FirstNoteIs
  <2>3. pinned'[p] = IF pinned[p] = Unsaid /\ events'[p] # <<>> THEN EntryNote(p)' ELSE pinned[p]
    BY <1>2
  <2>4. pinned'[p] # Unsaid => FirstOpenNote(events'[p], pinned'[p])
    BY <2>1, <2>2, <2>3
  <2>5. holds[p] \in Holdings \cup {Unsaid}
    BY DEF LinesInv, LineInv
  <2>6. Opened(p)' = Opened(p)
    BY <2>1 DEF Opened
  <2> QED
    BY <1>2, <2>1, <2>4, <2>5, <2>6 DEF LineInv
<1>5. \A p \in Lines : Opened(p) => Opened(p)'
  BY <1>3 DEF NotesIn, Opened
<1>6. events' = [p \in Lines |-> events'[p]]
  BY <1>3 DEF NotesIn
<1>7. pinned' = [p \in Lines |-> pinned'[p]]
  BY <1>2
<1> QED
  BY <1>2, <1>4, <1>5, <1>6, <1>7 DEF LinesInv

LEMMA LinesKeep ==
  ASSUME LinesInv, [LinesNext]_lineVars
  PROVE  LinesInv'
<1>1. CASE UNCHANGED lineVars
  <2>1. UNCHANGED <<events, atStart, rolled, vague, holds, pinned>>
    BY <1>1 DEF lineVars
  <2>2. \A p \in Lines : LineInv(p)'
    BY <2>1, LineSame DEF LinesInv
  <2> QED
    BY <2>1, <2>2 DEF LinesInv, Opened
<1>2. CASE LinesNext
  BY <1>2, OpenLineageKeeps, LinkFillKeeps, RecordRollKeeps, RecordGapKeeps,
     RecordReconciliationKeeps, ClosePositionKeeps, StoreBookKeeps, RecordNotesKeeps DEF LinesNext
<1> QED
  BY <1>1, <1>2

----------------------------------------------------------------------------
(* What the projection says of events that are so.                         *)

LEMMA LinesAreTyped ==
  ASSUME LinesInv
  PROVE  LinesTypeOK
<1>1. ASSUME NEW p \in Lines, NEW i \in DOMAIN events[p]
      PROVE  /\ events[p][i].kind \in EventKinds /\ events[p][i].corrects < i
             /\ (i = 1) = (events[p][i].kind = "opened")
  <2>1. EventsGood(events[p])
    BY DEF LinesInv, LineInv
  <2>2. events[p][i] \in LineEvents
    BY <2>1 DEF EventsGood
  <2> QED
    BY <2>1, <2>2 DEF EventsGood, EventGood, LineEvents
<1>2. holds \in [Lines -> Holdings \cup {Unsaid}]
  BY DEF LinesInv, LineInv
<1>3. atStart = Unsaid \/ atStart \subseteq Lines
  BY DEF LinesInv
<1> QED
  BY <1>1, <1>2, <1>3 DEF LinesTypeOK, EventKinds

\* What is not a gap is in effect.
LEMMA InEffect ==
  ASSUME NEW p \in Lines, EventsGood(events[p]), NEW i \in DOMAIN events[p], events[p][i].kind # "gap"
  PROVE  i \in Effective(p) /\ i \in OfKind(p, events[p][i].kind)
BY OnlyGapsSuperseded DEF Effective, OfKind, EffectiveIn, KindIn

LEMMA EntryFillsAre ==
  ASSUME NEW p \in Lines, EventsGood(events[p])
  PROVE  EntryFills(p) = EntryIn(events[p]) /\ EntryFills(p) \subseteq FillEvents
<1>1. EntryFills(p) \subseteq EntryIn(events[p])
  BY DEF EntryFills, Says, OfKind, Effective, EntryIn
<1>2. ASSUME NEW f \in EntryIn(events[p]) PROVE f \in EntryFills(p) /\ f \in FillEvents
  <2>1. PICK i \in DOMAIN events[p] :
          events[p][i].kind = "fill" /\ events[p][i].says.role = "entry" /\ f = events[p][i].says.fill
    BY <1>2 DEF EntryIn
  <2>2. i \in OfKind(p, "fill")
    BY <2>1, InEffect
  <2>3. events[p][i].says \in FillSays
    BY <2>1 DEF EventsGood, EventGood, SaysGood
  <2> QED
    BY <2>1, <2>2, <2>3 DEF EntryFills, Says, FillSays
<1> QED
  BY <1>1, <1>2

\* One replacement order is counted of each roll, and one roll of each replacement order.
LEMMA RollsAreCounted ==
  ASSUME LinesInv
  PROVE  RollsCounted
<1> SUFFICES ASSUME NEW p \in Lines, ActiveLines(p), ~HistoryUnknown(p)
             PROVE  RollCount(p) = Cardinality(rolled[p]) /\ vague[p] = {} /\ EntryFills(p) # {}
  BY DEF RollsCounted
<1> DEFINE es == events[p]
           rolls == {i \in DOMAIN es : es[i].kind = "roll"}
           orderOf == [i \in rolls |-> es[i].says.order]
           rollOf == [i \in rolls |-> es[i].says.roll]
<1>1. EventsGood(es) /\ rolled[p] = RollsIn(es) /\ VagueGood(es, vague[p])
  BY DEF LinesInv, LineInv
<1>2. EntryFills(p) # {} /\ Says(p, "gap") \cap HistoryFields = {}
  BY DEF HistoryUnknown, Gaps
<1>3. vague[p] = {}
  <2> SUFFICES ASSUME NEW field \in vague[p] PROVE FALSE
    OBVIOUS
  <2>1. field \in HistoryFields /\ OpenGap(es, field)
    BY <1>1 DEF VagueGood
  <2>2. field \in Says(p, "gap")
    BY <2>1 DEF OpenGap, Says, OfKind, Effective
  <2> QED
    BY <1>2, <2>1, <2>2
<1>4. {s.order : s \in Says(p, "roll")} = {orderOf[i] : i \in rolls}
  <2>1. \A i \in DOMAIN es : i \in OfKind(p, "roll") <=> i \in rolls
    BY <1>1, InEffect DEF OfKind, Effective
  <2>2. OfKind(p, "roll") \subseteq DOMAIN es
    BY DEF OfKind, Effective
  <2>3. OfKind(p, "roll") = rolls
    BY <2>1, <2>2
  <2> QED
    BY <2>3 DEF Says
<1>5. rolled[p] = {rollOf[i] : i \in rolls}
  BY <1>1 DEF RollsIn
<1>6. IsFiniteSet(rolls)
  <2>1. DOMAIN es = 1..Len(es) /\ Len(es) \in Nat
    BY <1>1 DEF EventsGood
  <2>2. IsFiniteSet(1..Len(es)) /\ rolls \in SUBSET (1..Len(es))
    BY <2>1, FS_Interval
  <2> HIDE DEF rolls, es
  <2> QED
    BY <2>2, FS_Subset
<1>7. ASSUME NEW i \in rolls
      PROVE  /\ es[i].key = <<"roll", rollOf[i]>> /\ rollOf[i] \in RollNames
             /\ orderOf[i] \in RollOrders[rollOf[i]]
  BY <1>1 DEF EventsGood, EventGood, SaysGood, RollSays
<1>8. ASSUME NEW i \in rolls, NEW j \in rolls, rollOf[i] = rollOf[j] PROVE i = j
  <2>1. es[i].key = es[j].key
    BY <1>7, <1>8
  <2> QED
    BY <1>1, <2>1 DEF EventsGood
<1>9. ASSUME NEW i \in rolls, NEW j \in rolls, orderOf[i] = orderOf[j] PROVE i = j
  <2>1. rollOf[i] = rollOf[j]
    BY <1>7, <1>9, LineagesAssumption DEF LineagesAssumption, RollNames
  <2> QED
    BY <1>8, <2>1
<1> HIDE DEF rolls, orderOf, rollOf
<1>10. Cardinality({orderOf[i] : i \in rolls}) = Cardinality(rolls)
  BY <1>6, <1>9, ImageSize
<1>11. Cardinality({rollOf[i] : i \in rolls}) = Cardinality(rolls)
  BY <1>6, <1>8, ImageSize
<1>12. RollCount(p) = Cardinality(rolled[p])
  BY <1>4, <1>5, <1>10, <1>11 DEF RollCount
<1> QED
  BY <1>2, <1>3, <1>12

LEMMA LatestIsHeld ==
  ASSUME LinesInv
  PROVE  HoldsLatest
<1> SUFFICES ASSUME NEW p \in Lines, ActiveLines(p) PROVE Instruments(p) = holds[p]
  BY DEF HoldsLatest
<1> DEFINE es == events[p]
           said == {i \in Effective(p) : es[i].sets # Unsaid}
           last == CHOOSE i \in said : \A j \in said : j <= i
<1>1. EventsGood(es) /\ LastSet(es, holds[p])
  BY DEF LinesInv, LineInv, ActiveLines
<1>2. PICK i \in DOMAIN es :
        es[i].sets = holds[p] /\ holds[p] # Unsaid /\ \A j \in DOMAIN es : j > i => es[j].sets = Unsaid
  BY <1>1 DEF LastSet
<1>3. es[i].kind # "gap"
  BY <1>1, <1>2 DEF EventsGood, EventGood, SaysGood
<1>4. i \in said
  BY <1>1, <1>2, <1>3, InEffect
<1>5. said \subseteq Nat /\ \A j \in said : ~(j > i)
  BY <1>1, <1>2 DEF Effective, EventsGood
<1>6. Instruments(p) = es[last].sets
  BY DEF Instruments
<1> HIDE DEF said
<1>7. last = i
  <2>1. \A j \in said : j <= i /\ j \in Nat
    BY <1>4, <1>5
  <2>2. last \in said /\ \A j \in said : j <= last
    BY <1>4, <2>1
  <2>3. last \in Nat /\ i \in Nat /\ i <= last /\ last <= i
    BY <1>4, <2>1, <2>2
  <2> HIDE DEF last
  <2> QED
    BY <2>3
<1> QED
  BY <1>2, <1>6, <1>7

\* Of numbers, those that fewer than n others exceed are at most n.
LEMMA NewestFew ==
  ASSUME NEW S \in SUBSET Nat, IsFiniteSet(S), NEW n \in Nat \ {0}
  PROVE  LET few == {i \in S : Cardinality({m \in S : m > i}) < n}
         IN  IsFiniteSet(few) /\ Cardinality(few) <= n
<1> DEFINE above(i) == {m \in S : m > i}
           few == {i \in S : Cardinality(above(i)) < n}
           rank == [i \in S |-> Cardinality(above(i))]
<1>1. \A i \in S : IsFiniteSet(above(i)) /\ rank[i] \in Nat
  <2>1. \A i \in S : above(i) \in SUBSET S
    OBVIOUS
  <2> HIDE DEF above
  <2> QED
    BY <2>1, FS_Subset, FS_CardinalityType
<1>2. IsFiniteSet(few)
  <2>1. few \in SUBSET S
    OBVIOUS
  <2> HIDE DEF few
  <2> QED
    BY <2>1, FS_Subset
<1>3. ASSUME NEW i \in S, NEW j \in S, i < j PROVE rank[j] < rank[i]
  <2>1. i \in Nat /\ j \in Nat /\ S \subseteq Nat
    OBVIOUS
  <2>2. \A m \in S : m > j => m > i
    BY <1>3, <2>1
  <2>3. above(j) \in SUBSET above(i)
    BY <2>2
  <2>4. j \in above(i) /\ j \notin above(j)
    BY <1>3, <2>1
  <2>5. above(j) # above(i) /\ rank[j] = Cardinality(above(j)) /\ rank[i] = Cardinality(above(i))
    BY <2>4
  <2> HIDE DEF above, rank
  <2>6. Cardinality(above(j)) <= Cardinality(above(i)) /\ Cardinality(above(j)) # Cardinality(above(i))
    BY <1>1, <2>3, <2>5, FS_Subset
  <2> QED
    BY <1>1, <2>5, <2>6
<1>4. ASSUME NEW i \in few, NEW j \in few, rank[i] = rank[j] PROVE i = j
  <2>1. i \in S /\ j \in S
    OBVIOUS
  <2>2. rank[i] \in Nat /\ rank[j] \in Nat
    BY <1>1, <2>1
  <2>3. ~(i < j) /\ ~(j < i)
    <3> HIDE DEF rank, few, above
    <3> QED
      BY <1>3, <1>4, <2>1, <2>2
  <2> QED
    BY <2>1, <2>3
<1>5. {rank[i] : i \in few} \in SUBSET (0..(n - 1))
  <2>1. \A i \in few : i \in S /\ rank[i] < n
    OBVIOUS
  <2>2. \A i \in S : rank[i] \in Nat
    BY <1>1
  <2> HIDE DEF rank, few
  <2> QED
    BY <2>1, <2>2
<1> HIDE DEF few, rank
<1>6. Cardinality({rank[i] : i \in few}) = Cardinality(few)
  BY <1>2, <1>4, ImageSize
<1>7. IsFiniteSet(0..(n - 1)) /\ Cardinality(0..(n - 1)) = n
  BY FS_Interval
<1>8. Cardinality({rank[i] : i \in few}) <= n
  BY <1>5, <1>7, FS_Subset
<1>9. IsFiniteSet(few) /\ Cardinality(few) <= n
  BY <1>2, <1>6, <1>8
<1> QED
  BY <1>9 DEF few

LEMMA NotesDoHold ==
  ASSUME LinesInv
  PROVE  NotesHold
<1> SUFFICES ASSUME NEW p \in Lines, ActiveLines(p)
             PROVE  /\ pinned[p] # Unsaid => EntryNote(p) = pinned[p]
                    /\ EntryNote(p) # Unsaid =>
                         \E f \in EntryFills(p) : FillOf[f].order \in EntryNote(p).orders
                    /\ \A i, j \in OfKind(p, "note") : events[p][i].says = events[p][j].says => i = j
                    /\ EntryNote(p) \notin ShownNotes(p) /\ Cardinality(ShownNotes(p)) <= MaxNotes
  BY DEF NotesHold
<1> DEFINE es == events[p]
<1>1. EventsGood(es) /\ (pinned[p] # Unsaid => FirstOpenNote(es, pinned[p]))
  BY DEF LinesInv, LineInv
<1>2. EntryNote(p) = EntryNoteIn(es) /\ EntryFills(p) = EntryIn(es)
  BY <1>1, EntryNoteIs, EntryFillsAre
<1>3. pinned[p] # Unsaid => EntryNote(p) = pinned[p]
  BY <1>1, <1>2, FirstNoteIs
<1>4. EntryNote(p) # Unsaid => RestsOnFill(es, EntryNote(p))
  BY <1>1, <1>2, FirstNoteIs
<1>5. OfKind(p, "note") \subseteq DOMAIN es /\ \A i \in OfKind(p, "note") : es[i].kind = "note"
  BY DEF OfKind, Effective
<1>6. ASSUME NEW i \in OfKind(p, "note"), NEW j \in OfKind(p, "note"), es[i].says = es[j].says
      PROVE  i = j
  <2>1. es[i].key = <<"note", es[i].says.ref>> /\ es[j].key = <<"note", es[j].says.ref>>
    BY <1>1, <1>5 DEF EventsGood, EventGood, SaysGood
  <2>2. es[i].key = es[j].key
    BY <1>6, <2>1
  <2> QED
    BY <1>1, <1>5, <2>2 DEF EventsGood
<1>7. EntryNote(p) \notin ShownNotes(p)
  BY DEF ShownNotes, OtherNotes
<1>8. Cardinality(ShownNotes(p)) <= MaxNotes
  <2> DEFINE S == OtherNotes(p)
             few == {i \in S : Cardinality({m \in S : m > i}) < MaxNotes}
             saysOf == [i \in few |-> es[i].says]
  <2>1. DOMAIN es = 1..Len(es) /\ Len(es) \in Nat
    BY <1>1 DEF EventsGood
  <2>2. S \in SUBSET (1..Len(es))
    BY <1>5, <2>1 DEF OtherNotes
  <2>3. IsFiniteSet(S) /\ S \in SUBSET Nat
    <3>1. IsFiniteSet(1..Len(es))
      BY <2>1, FS_Interval
    <3>2. 1..Len(es) \subseteq Nat
      BY <2>1
    <3> HIDE DEF S, es
    <3> QED
      BY <2>2, <3>1, <3>2, FS_Subset
  <2>4. MaxNotes \in Nat \ {0}
    BY LineagesAssumption DEF LineagesAssumption
  <2>5. ShownNotes(p) = {saysOf[i] : i \in few}
    BY DEF ShownNotes
  <2> HIDE DEF S
  <2>6. IsFiniteSet(few) /\ Cardinality(few) <= MaxNotes
    BY <2>3, <2>4, NewestFew
  <2> HIDE DEF few, saysOf
  <2>7. Cardinality({saysOf[i] : i \in few}) <= Cardinality(few)
        /\ IsFiniteSet({saysOf[i] : i \in few})
    BY <2>6, ImageSize
  <2>8. Cardinality({saysOf[i] : i \in few}) \in Nat /\ Cardinality(few) \in Nat
    BY <2>6, <2>7, FS_CardinalityType
  <2> QED
    BY <2>4, <2>5, <2>6, <2>7, <2>8
<1> QED
  BY <1>2, <1>3, <1>4, <1>6, <1>7, <1>8 DEF RestsOnFill

\* Some of the executions add up to no more than all of them.
LEMMA SumOfPart ==
  ASSUME NEW S, IsFiniteSet(S), \A f \in S : f.quantity \in Nat, NEW T \in SUBSET S
  PROVE  SumOf(T) <= SumOf(S) /\ SumOf(T) \in Int /\ SumOf(S) \in Int
<1> DEFINE all == [f \in S |-> f.quantity]
           part == [f \in T |-> f.quantity]
           mine == [f \in S |-> IF f \in T THEN f.quantity ELSE 0]
<1>1. \A f \in S : all[f] \in Int /\ mine[f] \in Int /\ mine[f] <= all[f]
  OBVIOUS
<1>2. \A f \in S \ T : mine[f] = 0
  OBVIOUS
<1>3. \A f \in T : part[f] = mine[f] /\ part[f] \in Int
  OBVIOUS
<1>4. IsFiniteSet(T)
  BY FS_Subset
<1> HIDE DEF all, part, mine
<1>5. SumFunctionOnSet(mine, S) <= SumFunctionOnSet(all, S)
  BY <1>1, SumMonotonic
<1>6. SumFunctionOnSet(mine, S) = SumFunctionOnSet(mine, T)
  BY <1>1, <1>2, SumWithin
<1>7. SumFunctionOnSet(mine, T) = SumFunctionOnSet(part, T)
  BY <1>3, <1>4, SumSame
<1>8. SumFunctionOnSet(part, T) \in Int /\ SumFunctionOnSet(all, S) \in Int
  BY <1>1, <1>3, <1>4, SumIs
<1> QED
  BY <1>5, <1>6, <1>7, <1>8 DEF SumOf, all, part

LEMMA CreditIsFilled ==
  ASSUME LinesInv
  PROVE  CreditFilled
<1> SUFFICES ASSUME NEW p \in Lines, NEW o \in DOMAIN Executed
             PROVE  CreditedQuantity(p, o) <= Executed[o]
  BY DEF CreditFilled
<1> DEFINE of == FillsOf(o, EntryFills(p))
           every == FillsOf(o, FillEvents)
           latest == CHOOSE f \in of : \A g \in of : g.at <= f.at
<1>1. EntryFills(p) \subseteq FillEvents
  BY EntryFillsAre DEF LinesInv, LineInv
<1>2. /\ of \in SUBSET every
      /\ \A f \in every : f.quantity \in Nat /\ f.at \in Int /\ f.quantity <= Executed[o]
      /\ Executed[o] \in Nat /\ SumOf(ExecutionsIn(every)) <= Executed[o]
  BY <1>1, FillsAssumption DEF FillsAssumption, FillsOf
<1>3. IsFiniteSet(every)
  <2> DEFINE mine == {g \in FillEvents : FillOf[g].order = o}
  <2>1. IsFiniteSet(mine)
    BY FillsAssumption, FS_Subset DEF FillsAssumption
  <2>2. every = {FillOf[f] : f \in mine}
    BY DEF FillsOf
  <2> HIDE DEF mine
  <2> QED
    BY <2>1, <2>2, ImageSize
<1>4. CreditedQuantity(p, o) = IF of = {} THEN 0
                              ELSE IF ExecutionsIn(of) # {} THEN SumOf(ExecutionsIn(of))
                              ELSE latest.quantity
  BY DEF CreditedQuantity
<1>5. ExecutionsIn(of) \in SUBSET ExecutionsIn(every) /\ ExecutionsIn(every) \in SUBSET every
  BY <1>2 DEF ExecutionsIn
<1> HIDE DEF of, every
<1>6. SumOf(ExecutionsIn(of)) <= Executed[o]
  <2>1. IsFiniteSet(ExecutionsIn(every)) /\ \A f \in ExecutionsIn(every) : f.quantity \in Nat
    BY <1>2, <1>3, <1>5, FS_Subset
  <2>2. SumOf(ExecutionsIn(of)) <= SumOf(ExecutionsIn(every))
        /\ SumOf(ExecutionsIn(of)) \in Int /\ SumOf(ExecutionsIn(every)) \in Int
    BY <1>5, <2>1, SumOfPart
  <2> QED
    BY <1>2, <2>2
<1>7. ASSUME of # {} PROVE latest \in of
  <2> DEFINE date == [f \in of |-> f.at]
  <2>1. IsFiniteSet(of) /\ \A f \in of : date[f] \in Int /\ date[f] = f.at
    BY <1>2, <1>3, FS_Subset
  <2> HIDE DEF date
  <2>2. PICK f \in of : \A g \in of : date[g] <= date[f]
    BY <1>7, <2>1, LatestDated
  <2>3. \A g \in of : g.at <= f.at
    BY <2>1, <2>2
  <2> QED
    BY <2>3
<1>8. of # {} => latest.quantity <= Executed[o]
  BY <1>2, <1>7
<1> HIDE DEF latest
<1> QED
  BY <1>2, <1>4, <1>6, <1>8

LEMMA LineagesAreTrue ==
  ASSUME LinesInv
  PROVE  LineagesTrue
BY RollsAreCounted, LatestIsHeld, NotesDoHold, CreditIsFilled DEF LineagesTrue
=============================================================================
