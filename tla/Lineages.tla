------------------------------ MODULE Lineages ------------------------------
(***************************************************************************)
(* Position lineages (ledger/positions.py, domain/positions.py,            *)
(* domain/position_notes.py): what happened to a position is appended as   *)
(* events under a key, by calls that may be repeated (a read again, a      *)
(* price-stepped order, a run finalized twice), and the PositionBook is a  *)
(* projection of the events nothing supersedes.                            *)
(***************************************************************************)
EXTENDS Integers, Sequences, FiniteSets, Functions

CONSTANTS
  Lines,        \* position ids
  FillEvents,   \* fill_observed events
  FillOf,       \* FillOf[f]: its order, execution (0: a total), quantity, date and whether it has a price
  Executed,     \* Executed[o]: the contracts of the order o that filled
  RollOrders,   \* RollOrders[k]: the replacement orders of the roll k, one price step each
  Holdings,     \* what current_instruments may be
  First,        \* what a lineage opens with
  Decisions,    \* the run record's decisions: reference, action, lineage and orders
  MaxNotes,     \* MAX_NOTES_PER_POSITION
  MaxEvents,    \* bounds the events, other than notes and closures
  Unsaid

ASSUME LineagesAssumption ==
  /\ MaxNotes \in Nat \ {0} /\ MaxEvents \in Nat /\ First \in Holdings
  /\ \A j, k \in DOMAIN RollOrders : j # k => RollOrders[j] \cap RollOrders[k] = {}
  /\ Decisions \in Seq({Decisions[n] : n \in DOMAIN Decisions})
  /\ Unsaid \notin Holdings /\ Unsaid \notin {Decisions[n] : n \in DOMAIN Decisions}

FillsOf(o, S) == {FillOf[f] : f \in {g \in S : FillOf[g].order = o}}
ExecutionsIn(S) == {f \in S : f.execution # 0}
SumOf(S) == SumFunctionOnSet([f \in S |-> f.quantity], S)

\* Executed[o] is what the fills observed of o are of: no total is more, nor all its executions.
ASSUME FillsAssumption ==
  /\ IsFiniteSet(FillEvents)
  /\ \A f \in FillEvents : FillOf[f].at \in Int /\ FillOf[f].quantity \in Nat
  /\ \A o \in DOMAIN Executed :
       /\ Executed[o] \in Nat
       /\ SumOf(ExecutionsIn(FillsOf(o, FillEvents))) <= Executed[o]
       /\ \A f \in FillsOf(o, FillEvents) : f.quantity <= Executed[o]

RollNames == DOMAIN RollOrders
HistoryFields == {"entry_history", "roll_count"}

VARIABLES
  events,     \* events[p]: position_events, oldest first; empty before the lineage is opened
  atStart,    \* lineages in the run's stored book, Unsaid before it is stored
  rolled,     \* history: rolled[p], the rolls made
  vague,      \* history: vague[p], the history gaps found and not yet settled
  holds,      \* history: holds[p], what the last new call that said so left in the account
  pinned      \* history: pinned[p], the entry note the book first showed

lineVars == <<events, atStart, rolled, vague, holds, pinned>>

LinesBegin(open) ==
  /\ events = [p \in Lines |-> <<>>] /\ atStart = IF open THEN Unsaid ELSE {}
  /\ rolled = [p \in Lines |-> {}] /\ vague = [p \in Lines |-> {}]
  /\ holds = [p \in Lines |-> Unsaid] /\ pinned = [p \in Lines |-> Unsaid]

-----------------------------------------------------------------------------
(* The events, and what supersedes them. *)

Event(kind, key) ==
  [kind |-> kind, key |-> <<kind, key>>, says |-> key, sets |-> Unsaid, corrects |-> 0,
   imported |-> FALSE]

Has(p, e) == \E i \in DOMAIN events[p] : events[p][i].key = e.key

\* Mutant of WithEvent: every call appends.
WithEventAgain(p, e) == [events EXCEPT ![p] = Append(@, e)]

\* append_event: the first event under a key stands.
WithEvent(p, e) == IF Has(p, e) THEN events ELSE [events EXCEPT ![p] = Append(@, e)]

\* effective_events: a correction supersedes even if it is superseded itself.
Effective(p) ==
  {i \in DOMAIN events[p] : \A j \in DOMAIN events[p] : events[p][j].corrects # i}
OfKind(p, kind) == {i \in Effective(p) : events[p][i].kind = kind}
Says(p, kind) == {events[p][i].says : i \in OfKind(p, kind)}
Opened(p) == events[p] # <<>>
ActiveLines(p) == Opened(p) /\ OfKind(p, "closed") = {}

EntryFills(p) == {s.fill : s \in {x \in Says(p, "fill") : x.role = "entry"}}

-----------------------------------------------------------------------------
(* The projection: _entry. *)

\* Mutant of Instruments: a lineage holds what it opened with.
InstrumentsFirst(p) == events[p][1].sets

\* The last event that carries current_instruments.
Instruments(p) ==
  LET said == {i \in Effective(p) : events[p][i].sets # Unsaid} IN
  events[p][CHOOSE i \in said : \A j \in said : j <= i].sets

\* What explains an unknown roll count, and the lineage's quality.
Gaps(p) ==
  Says(p, "gap") \cup
  (IF EntryFills(p) # {} THEN {}
   ELSE IF events[p][1].imported THEN {"entry_history"} ELSE {"entry_fill_ids"})

\* Mutant of HistoryUnknown: only a lineage that was imported can be unknown.
HistoryUnknownImported(p) == EntryFills(p) = {}

HistoryUnknown(p) == EntryFills(p) = {} \/ Gaps(p) \cap HistoryFields # {}

\* Mutant of RollName: each price step is a roll of its own.
RollNameOfOrder(k, o) == o

\* The dedup key of a roll: the operation's, not its order's.
RollName(k, o) == k

\* count_rolls: distinct replacement orders.
RollCount(p) == Cardinality({s.order : s \in Says(p, "roll")})

EntryNotes(p) == {i \in OfKind(p, "note") : events[p][i].says.action = "open"}

\* Mutant of EntryNote: the newest decision to open is the entry note.
EntryNoteLast(p) ==
  IF EntryNotes(p) = {} THEN Unsaid
  ELSE events[p][CHOOSE i \in EntryNotes(p) : \A j \in EntryNotes(p) : j <= i].says

\* The first note of a decision to open.
EntryNote(p) ==
  IF EntryNotes(p) = {} THEN Unsaid
  ELSE events[p][CHOOSE i \in EntryNotes(p) : \A j \in EntryNotes(p) : i <= j].says

\* latest_notes: the others, the newest MaxNotes of them.
OtherNotes(p) == {i \in OfKind(p, "note") : events[p][i].says # EntryNote(p)}
ShownNotes(p) ==
  {events[p][i].says :
     i \in {n \in OtherNotes(p) : Cardinality({m \in OtherNotes(p) : m > n}) < MaxNotes}}

\* Mutant of CreditedQuantity: totals of an order are added like executions.
CreditedQuantityAdded(p, o) == SumOf(FillsOf(o, EntryFills(p)))

\* _entry_credit of one order: executions are added, of totals the latest is taken.
CreditedQuantity(p, o) ==
  LET of == FillsOf(o, EntryFills(p))
      latest == CHOOSE f \in of : \A g \in of : g.at <= f.at
  IN  IF of = {} THEN 0
      ELSE IF ExecutionsIn(of) # {} THEN SumOf(ExecutionsIn(of))
      ELSE latest.quantity

\* The entry credit is unknown without fills, without a price, or when an order is reported both ways.
CreditKnown(p) ==
  LET of == {FillOf[f] : f \in EntryFills(p)} IN
  /\ of # {}
  /\ \A f \in of : \/ f.priced
                   \/ f.execution = 0 /\ \E g \in of : g.order = f.order /\ g.execution = 0 /\ g.at > f.at
  /\ \A f, g \in of : f.order = g.order => (f.execution = 0 <=> g.execution = 0)

-----------------------------------------------------------------------------
(* The writers. *)

Room == FoldFunction(LAMBDA es, sum : sum + Len(es), 0, events) < MaxEvents

\* The history of a call that carries instruments: a repetition says nothing new.
HoldsNow(p, e) == [holds EXCEPT ![p] = IF Has(p, e) \/ e.sets = Unsaid THEN @ ELSE e.sets]

\* The next book shows an entry note for the first time.
PinNow ==
  pinned' = [p \in Lines |->
               IF pinned[p] = Unsaid /\ events'[p] # <<>> THEN EntryNote(p)' ELSE pinned[p]]

\* open_position, of a fill or of a short without history.
OpenLineage(p, imported, h) ==
  LET e == [Event("opened", "opened") EXCEPT !.imported = imported, !.sets = h] IN
  /\ ~Opened(p) /\ Room /\ events' = WithEvent(p, e) /\ holds' = HoldsNow(p, e)
  /\ UNCHANGED <<atStart, rolled, vague, pinned>>

\* link_fill: a fill has one role in a lineage; another one is refused.
LinkFill(p, f, role) ==
  /\ Opened(p) /\ Room
  /\ events' = WithEvent(p, [Event("fill", f) EXCEPT !.says = [fill |-> f, role |-> role]])
  /\ UNCHANGED <<atStart, rolled, vague, holds, pinned>>

\* record_roll, at a fill of any of the roll's orders.
RecordRoll(p, k, o, h) ==
  LET e == [Event("roll", RollName(k, o)) EXCEPT !.says = [roll |-> k, order |-> o], !.sets = h] IN
  /\ Opened(p) /\ Room
  /\ events' = WithEvent(p, e)
  /\ holds' = [holds EXCEPT ![p] = IF k \in rolled[p] THEN @ ELSE h]
  /\ rolled' = [rolled EXCEPT ![p] = @ \cup {k}]
  /\ UNCHANGED <<atStart, vague, pinned>>

\* record_gap.
RecordGap(p, field) ==
  LET e == Event("gap", field) IN
  /\ Opened(p) /\ Room
  /\ events' = WithEvent(p, e)
  /\ vague' = [vague EXCEPT ![p] = IF Has(p, e) THEN @ ELSE @ \cup ({field} \cap HistoryFields)]
  /\ UNCHANGED <<atStart, rolled, holds, pinned>>

\* record_reconciliation, which may correct a gap; a read's reconciliation has the read's key.
RecordReconciliation(p, key, gap, h) ==
  LET e == [Event("reconciliation", key) EXCEPT !.sets = h, !.corrects = gap] IN
  /\ Opened(p) /\ Room /\ gap \in OfKind(p, "gap") \cup {0}
  /\ events' = WithEvent(p, e) /\ holds' = HoldsNow(p, e)
  /\ vague' = [vague EXCEPT ![p] = IF gap = 0 \/ Has(p, e) THEN @ ELSE @ \ {events[p][gap].says}]
  /\ UNCHANGED <<atStart, rolled, pinned>>

\* close_position.
ClosePosition(p) ==
  /\ Opened(p) /\ events' = WithEvent(p, Event("closed", "closed"))
  /\ UNCHANGED <<atStart, rolled, vague, holds, pinned>>

\* The run stores the book its agent reads.
StoreBook ==
  /\ atStart = Unsaid /\ atStart' = {p \in Lines : ActiveLines(p)}
  /\ UNCHANGED <<events, rolled, vague, holds, pinned>>

\* entry_lineages: the one lineage an order's fills entered, none if they entered two.
EntryLineage(o) ==
  LET of == {p \in Lines : \E f \in EntryFills(p) : FillOf[f].order = o} IN
  IF Cardinality(of) = 1 THEN of ELSE {}

\* Where notes_from_run_record sends a decision's note.
Targets(d) ==
  IF d.action = "open" THEN UNION {EntryLineage(o) : o \in d.orders}
  ELSE {d.line} \cap atStart

Note(d) == [Event("note", d.ref) EXCEPT !.says = d]

\* record_note, in every lineage the decision is sent to.
Noted(es, d) ==
  [p \in Lines |->
     IF p \in Targets(d) /\ \A i \in DOMAIN es[p] : es[p][i].key # Note(d).key
     THEN Append(es[p], Note(d)) ELSE es[p]]

\* _record_notes: one note after the other, until one cannot be written.
WithNotes(n) ==
  LET After[k \in 0..n] == IF k = 0 THEN events ELSE Noted(After[k - 1], Decisions[k])
  IN  After[n]

RecordNotes ==
  /\ atStart # Unsaid
  /\ \E n \in 0..Len(Decisions) : events' = WithNotes(n)
  /\ PinNow
  /\ UNCHANGED <<atStart, rolled, vague, holds>>

LinesNext ==
  \/ \E p \in Lines, imported \in BOOLEAN : OpenLineage(p, imported, First)
  \/ \E p \in Lines, f \in FillEvents, role \in {"entry", "close"} : LinkFill(p, f, role)
  \/ \E p \in Lines, k \in RollNames, h \in Holdings : \E o \in RollOrders[k] : RecordRoll(p, k, o, h)
  \/ \E p \in Lines, field \in {"roll_count", "dividend"} : RecordGap(p, field)
  \/ \E p \in Lines, h \in Holdings \cup {Unsaid} : \E gap \in 0..Len(events[p]) :
       RecordReconciliation(p, "read", gap, h)
  \/ \E p \in Lines : ClosePosition(p)
  \/ StoreBook \/ RecordNotes

-----------------------------------------------------------------------------
(* Properties. *)

LinesTypeOK ==
  /\ \A p \in Lines : \A i \in DOMAIN events[p] :
       /\ events[p][i].kind \in {"opened", "fill", "roll", "gap", "reconciliation", "note", "closed"}
       /\ events[p][i].corrects < i
       /\ (i = 1) = (events[p][i].kind = "opened")
  /\ atStart = Unsaid \/ atStart \subseteq Lines
  /\ holds \in [Lines -> Holdings \cup {Unsaid}]

\* A roll counts once however many price steps, partial fills and reads repeat it; a count that is
\* known rests on entry fills and on a history without open questions.
RollsCounted ==
  \A p \in Lines : ActiveLines(p) /\ ~HistoryUnknown(p) =>
    RollCount(p) = Cardinality(rolled[p]) /\ vague[p] = {} /\ EntryFills(p) # {}

\* The contracts a lineage holds are those of the last new event, never those of a repeated one.
HoldsLatest == \A p \in Lines : ActiveLines(p) => Instruments(p) = holds[p]

\* The entry note stays what it first was, belongs to a decision whose fills entered the lineage, and
\* no later note displaces it; a decision is noted in a lineage once, recovered or not.
NotesHold ==
  \A p \in Lines : ActiveLines(p) =>
    /\ pinned[p] # Unsaid => EntryNote(p) = pinned[p]
    /\ EntryNote(p) # Unsaid => \E f \in EntryFills(p) : FillOf[f].order \in EntryNote(p).orders
    /\ \A i, j \in OfKind(p, "note") : events[p][i].says = events[p][j].says => i = j
    /\ EntryNote(p) \notin ShownNotes(p) /\ Cardinality(ShownNotes(p)) <= MaxNotes

\* An entry credit is weighted by no more contracts than an order filled.
CreditFilled ==
  \A p \in Lines, o \in DOMAIN Executed : ActiveLines(p) /\ CreditKnown(p) =>
    CreditedQuantity(p, o) <= Executed[o]

LineagesTrue == RollsCounted /\ HoldsLatest /\ NotesHold /\ CreditFilled
=============================================================================
