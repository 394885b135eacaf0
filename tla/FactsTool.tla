----------------------------- MODULE FactsTool -----------------------------
(***************************************************************************)
(* What a decision fact rests on (agent/facts_tool.py): the results a run  *)
(* has recorded are searched for the positions, the first reads and the    *)
(* board row that a fact set is computed from (domain/facts_compute.py).   *)
(* The account's shares and options are two reads, and an options read     *)
(* names contracts that only a read of instruments identifies, perhaps     *)
(* later.  A result's place in the record is its evidence id.  The sizes   *)
(* themselves are the subject of Sizing.                                   *)
(***************************************************************************)
EXTENDS RuleSettings, Sequences, FiniteSets, FiniteSetsExt

CONSTANTS
  OptionIds,    \* contracts: an option and its terms, as a result states them
  Answered,     \* bound: what is read, [kind, of]; `of` are the contracts named
  Book,         \* Book[p]: the current contracts of the ledger's position p
  AccountAge,   \* account_state_max_age_seconds
  Beginnings,   \* bound: what the run has recorded when the behaviour begins
  MaxResults,   \* bound: results recorded
  MaxClock,     \* bound: the clock
  MaxBuilds,    \* bound: builds of the board
  MaxFacts      \* bound: fact sets

Recorded ==
  [kind : {"shares", "orders", "options", "instruments", "board"}, at : 0..MaxClock,
   of : SUBSET OptionIds, build : 0..MaxBuilds, origin : SUBSET OptionIds]

\* A read of shares and a read of options, combined.
Combinations == [shares : 1..MaxResults, options : 1..MaxResults, at : 0..MaxClock]

\* Candidates of the board were listed in an earlier result.
OriginsListed(rs) ==
  \A i \in DOMAIN rs : \A c \in rs[i].origin :
    \E j \in DOMAIN rs : j < i /\ rs[j].kind = "board" /\ c \in rs[j].of

ASSUME FactsAssumption ==
  /\ \A p \in DOMAIN Book : Book[p] \subseteq OptionIds
  /\ \A rs \in Beginnings :
       /\ rs \in Seq(Recorded) /\ OriginsListed(rs) /\ \A i \in DOMAIN rs : rs[i].at = 0
       /\ Len(rs) <= 2 /\ Len(rs) <= MaxResults
  /\ AccountAge \in Nat \cup {NoLimit, Unset}
  /\ {MaxResults, MaxClock, MaxBuilds, MaxFacts} \subseteq Nat
  /\ Unknown \notin Combinations \cup [positions : Combinations, orders : 1..MaxResults]

VARIABLES
  clock,
  results,      \* the run's recorded results, as read: [kind, at, of, build, origin]
  facts,        \* the fact sets stored
  told,         \* the facts_ref of each fact set that the model was given
  latched       \* the run's stop latch

factsVars == <<clock, results, facts, told, latched>>

FactsBegin(recorded) ==
  /\ clock = 0 /\ results = recorded /\ facts = <<>> /\ told = {} /\ latched = FALSE

FactsInit == \E recorded \in Beginnings : FactsBegin(recorded)

-----------------------------------------------------------------------------
(* What the results say (RunEvidence).                                     *)

Kept(kind) == {i \in DOMAIN results : results[i].kind = kind}
LatestOf(S) == Max(S)
EarliestOf(S) == Min(S)

\* instrument: the latest one that names the contract.
InstrumentsOf(c) == {i \in Kept("instruments") : c \in results[i].of}

\* Mutant of Identified: a row whose contract is not known is left out, not its read.
IdentifiedPartly(i) == i \in Kept("options")

\* _resolved_option_reads: every row's contract is known, on the row's own terms.
Identified(i) == \A c \in results[i].of : InstrumentsOf(c) # {}

OptionHalves == {i \in Kept("options") : Identified(i)}

\* Mutant of CombinedReads: the positions are as old as the newer half.
CombinedYoung(s, o) == [shares |-> s, options |-> o, at |-> Max({results[s].at, results[o].at})]

\* combine_positions
CombinedReads(s, o) == [shares |-> s, options |-> o, at |-> Min({results[s].at, results[o].at})]

BothHalves == Kept("shares") # {} /\ OptionHalves # {}

\* positions: the latest half of each kind, though they be read minutes apart.  (No result holds
\* both halves, and a lone half is a gap as none is.)
PositionsUsed ==
  IF BothHalves THEN CombinedReads(LatestOf(Kept("shares")), LatestOf(OptionHalves)) ELSE Unknown

\* cash_baseline: the first of each.  (The first account snapshot is found as the first read of
\* the open orders is, and not modelled.)
Baseline ==
  IF BothHalves /\ Kept("orders") # {}
  THEN [positions |-> CombinedReads(EarliestOf(Kept("shares")), EarliestOf(OptionHalves)),
        orders |-> EarliestOf(Kept("orders"))]
  ELSE Unknown

Rows == Kept("board")

\* Mutant of CurrentBuild: the build of the result recorded last.
LastBuild == results[LatestOf(Rows)].build

\* The newest build that any row is of, in whatever order they were recorded.
CurrentBuild == Max({results[i].build : i \in Rows})

\* board_screens
RowsOf(c) ==
  IF Rows = {} THEN {} ELSE {i \in Rows : results[i].build = CurrentBuild /\ c \in results[i].of}

-----------------------------------------------------------------------------
(* What is recorded (agent/result_boundary.py and the mappers).            *)

\* insert_result
AddResult(result) == results' = Append(results, result)

\* A validated envelope that carries evidence.  A tool error, a narrowed or paged
\* read, a result with no mapper and one that fails its schema or cites another call carry none.
\* The calls of a stopping run are denied.
Keep(kind, of, build, origin) ==
  /\ ~latched /\ Len(results) < MaxResults /\ [kind |-> kind, of |-> of] \in Answered
  /\ AddResult([kind |-> kind, at |-> clock, of |-> of, build |-> build, origin |-> origin])
  /\ UNCHANGED <<clock, facts, told, latched>>

\* map_equity_positions, map_option_orders; map_option_positions, of the rows held.
KeepsAccount(kind, held) ==
  /\ kind # "options" => held = {}
  /\ Keep(kind, held, 0, {})

\* _board_origin: the candidates that the board rows of this run list by now.
FromBoard(cs) == {c \in cs : RowsOf(c) # {}}

\* map_option_instruments: each gets a candidate reference.
KeepsInstruments(cs) == cs # {} /\ Keep("instruments", cs, 0, FromBoard(cs))

\* map_board_query, of some rows.  Wheelta builds the board anew while answers are under way;
\* builds are numbered by their as_of.
KeepsBoard(cs, build) == cs # {} /\ Keep("board", cs, build, {})

-----------------------------------------------------------------------------
(* The tool.  A request it refuses changes nothing, nor does one whose     *)
(* subject is not there, or is not what the ledger says it is.             *)

\* The rule of freshness, of what is there.
NotTooOld(at) == Fresh(at, clock, AccountAge)

\* What the account holds counts: positions and open orders are there and not too old.
Counts ==
  /\ PositionsUsed # Unknown /\ NotTooOld(PositionsUsed.at)
  /\ Kept("orders") # {} /\ NotTooOld(results[LatestOf(Kept("orders"))].at)

\* metric: what is computed of contract c is as old as the oldest read it is computed from.
OldestOf(c) ==
  Min({PositionsUsed.at, results[LatestOf(Kept("orders"))].at, results[LatestOf(InstrumentsOf(c))].at})

\* FactInputs of contract c, and what is computed of them; subject: the candidate's or position's reference.
Computed(subject, c, row) ==
  [subject |-> subject, at |-> clock, seen |-> Len(results), instrument |-> LatestOf(InstrumentsOf(c)),
   positions |-> PositionsUsed, baseline |-> Baseline, row |-> row, counts |-> Counts,
   asOf |-> IF Counts THEN OldestOf(c) ELSE Unknown]

\* insert_decision_facts, and the answer.  When the ledger fails the run stops, and whether the
\* facts were stored is not known.
Stores(set) ==
  /\ \/ /\ facts' = Append(facts, set) /\ told' = told \cup {Len(facts) + 1} /\ UNCHANGED latched
     \/ /\ facts' \in {facts, Append(facts, set)} /\ latched' = TRUE /\ UNCHANGED told
  /\ UNCHANGED <<clock, results>>

\* compute, for a candidate that a result of this run issued: the purpose is to open.
FactsToOpen(i, c) ==
  LET origin == IF c \in results[i].origin THEN "board" ELSE "robinhood" IN
  /\ ~latched /\ Len(facts) < MaxFacts /\ i \in InstrumentsOf(c)
  /\ Stores(Computed([candidate |-> i, of |-> c, origin |-> origin], c,
                     IF origin = "board" /\ RowsOf(c) # {} THEN LatestOf(RowsOf(c)) ELSE Unknown))

\* compute, for a position of the book: to close or manage.  One that holds several contracts, or
\* whose contract no result names, has no facts, and the answer is its gaps.
FactsOfPosition(p) ==
  /\ ~latched /\ Len(facts) < MaxFacts
  /\ \E c \in Book[p] :
       /\ Book[p] = {c} /\ InstrumentsOf(c) # {}
       /\ Stores(Computed([position |-> p, of |-> c, origin |-> "book"], c, Unknown))

ClockTicks ==
  /\ clock < MaxClock /\ clock' = clock + 1
  /\ UNCHANGED <<results, facts, told, latched>>

FactsNext ==
  \/ \E kind \in {"shares", "orders", "options"}, held \in SUBSET OptionIds :
       KeepsAccount(kind, held)
  \/ \E cs \in SUBSET OptionIds :
       KeepsInstruments(cs) \/ \E build \in 1..MaxBuilds : KeepsBoard(cs, build)
  \/ \E i \in DOMAIN results, c \in OptionIds : FactsToOpen(i, c)
  \/ \E p \in DOMAIN Book : FactsOfPosition(p)
  \/ ClockTicks

-----------------------------------------------------------------------------
(* Properties. *)

FactsTypeOK ==
  /\ clock \in 0..MaxClock /\ latched \in BOOLEAN
  /\ results \in Seq(Recorded) /\ OriginsListed(results)
  /\ Len(results) <= MaxResults /\ Len(facts) <= MaxFacts /\ told \subseteq 1..MaxFacts

\* The results that fact set f could use.
KeptFor(f, kind) == {i \in Kept(kind) : i <= f.seen}
NamedFor(f, c) == \E i \in KeptFor(f, "instruments") : c \in results[i].of

\* What counts as held was read within the age limit, shares, options and open orders each, and
\* the facts do not say they are newer than any of it.
CountedIsCurrent ==
  \A n \in DOMAIN facts :
    LET f == facts[n] IN
    f.counts =>
      \E o \in KeptFor(f, "orders") :
        \A i \in {f.positions.shares, f.positions.options, o} :
          Fresh(results[i].at, f.at, AccountAge) /\ f.asOf <= results[i].at

\* No short option is left out: each row of the options half was identified by then, and a newer
\* read is passed over only because of a row that was not.
NothingLeftOut ==
  \A n \in DOMAIN facts :
    LET f == facts[n]
        whole(i) == \A c \in results[i].of : NamedFor(f, c)
    IN  f.positions # Unknown =>
          /\ f.positions.options \in KeptFor(f, "options") /\ whole(f.positions.options)
          /\ \A i \in KeptFor(f, "options") : i > f.positions.options => ~whole(i)
          /\ f.positions.shares \in KeptFor(f, "shares")
          /\ \A i \in KeptFor(f, "shares") : i <= f.positions.shares

\* A contract is compared with a row of the newest build seen, and only as a candidate whose
\* contract the run's board rows listed when it was issued.
ComparedWithNewest ==
  \A n \in DOMAIN facts :
    LET f == facts[n] IN
    f.row # Unknown =>
      /\ f.row \in KeptFor(f, "board") /\ f.subject.of \in results[f.row].of
      /\ \A i \in KeptFor(f, "board") : results[i].build <= results[f.row].build
      /\ \E i \in KeptFor(f, "board") : i < f.subject.candidate /\ f.subject.of \in results[i].of

\* The first reads that later cash is measured from stay the first: those of a fact set are still
\* the run's or, when an earlier options read has been identified since, the run's are older, and
\* they were never newer than the positions in use.
BaselineOnlyRecedes ==
  \A n \in DOMAIN facts :
    LET base == facts[n].baseline IN
    base # Unknown =>
      /\ Baseline # Unknown /\ Baseline.orders = base.orders
      /\ Baseline.positions.at <= base.positions.at /\ base.positions.at <= facts[n].positions.at

\* A decision fact rests on what was read: on all of it, on the newest of it, and it says how old
\* that is; and what the model was given is stored.
FactsRest ==
  /\ CountedIsCurrent /\ NothingLeftOut /\ ComparedWithNewest /\ BaselineOnlyRecedes
  /\ told \subseteq DOMAIN facts
=============================================================================
