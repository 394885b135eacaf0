------------------------------ MODULE LegCheck ------------------------------
(***************************************************************************)
(* The pre-trade validation of a sell-to-open leg (domain/pretrade.py) and *)
(* the decision facts' opening metrics (domain/facts_compute.py), both on  *)
(* the latest quotes recorded in the run (agent/facts_tool.py) while the   *)
(* market moves.  A quote is known by the time it describes; quotes are    *)
(* read side by side, so an earlier one may be recorded after a later one. *)
(***************************************************************************)
EXTENDS RuleSettings, Sequences, FiniteSets

CONSTANTS
  Markets,     \* what the market may show: the option's delta and bid, the share price
  Filters,     \* the PretradeRules considered
  Strike,      \* strike of the contract
  Expiry,      \* days to its expiration when the run begins
  MaxTime,     \* bound: changes of the market
  MaxReads     \* bound: quotes on their way at a time, of each kind

Rights == {"put", "call"}
CheckNames == {"dte", "abs_delta", "cushion", "annualized_yield"}
CushionScale == 10    \* cushion bounds are in tenths
DaysPerYear == 365

VARIABLES
  right,        \* the contract's right
  filters,      \* PretradeRules
  market,       \* market[t]: what it showed at time t
  day,          \* New York days since the run began
  known,        \* the contract's instrument is validated; its multiplier as well
  asked,        \* times of the quotes on their way, of the option and of the share
  optionQuote,  \* time of the option quote recorded last
  spotQuote,    \* time of the share quote recorded last
  sent          \* the last opening order let through: when, and the days to expiration

legVars == <<right, filters, market, day, known, asked, optionQuote, spotQuote, sent>>

Bounds == Nat \cup {NoLimit, Unset}

LegAssumption ==
  /\ \A m \in Markets : m.delta \in Nat \cup {Unknown} /\ m.bid \in Nat /\ m.spot \in Nat \ {0}
  /\ \A f \in Filters :
       f \in [minDte : Bounds, maxDte : Bounds, minDelta : Bounds, maxDelta : Bounds,
              minCushion : Bounds, minYield : Bounds, optionAge : Bounds, equityAge : Bounds]
  /\ Strike \in Nat \ {0} /\ Expiry \in Nat /\ MaxTime \in Nat \ {0} /\ MaxReads \in Nat
  /\ Unknown \notin Int \X Int    \* what is unavailable is no ratio
ASSUME LegAssumption

Clock == Len(market)

-----------------------------------------------------------------------------
(* Formulas shared by the facts and the validation.  A ratio is a pair of  *)
(* numerator and denominator.                                              *)

\* dte_days
Dte == Expiry - day

\* Mutant of CushionRatio: the distance of a call is taken of a put.
CushionRatioOfCall(spot) == <<Strike - spot, spot>>

\* cushion_ratio
CushionRatio(spot) == <<IF right = "put" THEN spot - Strike ELSE Strike - spot, spot>>

\* Collateral of a share: the strike, or the share price of a covered call.
CollateralPerShare(spot) == IF right = "put" THEN Strike ELSE spot

\* annualized_ratio
AnnualizedRatio(bid, spot) == <<bid * DaysPerYear, CollateralPerShare(spot) * Dte>>

AtLeast(ratio, bound, scale) == scale * ratio[1] >= bound * ratio[2]

-----------------------------------------------------------------------------
(* The evidence, and the checks made of it.                                *)

\* Mutant of OptionUsable: a quote is believed whatever its age.
OptionUsableOnce == optionQuote # Unknown

\* _stale_reason of the two quotes
OptionUsable == Fresh(optionQuote, Clock, filters.optionAge)
SpotUsable == Fresh(spotQuote, Clock, filters.equityAge)

Option == market[optionQuote]
Spot == market[spotQuote].spot

\* _compare: inclusive bounds; "TBD" is missing, "none" and "agent_discretion" are skipped.
Compare(bounds, meets) ==
  IF Unset \in bounds THEN "missing" ELSE IF meets THEN "pass" ELSE "fail"

Above(bound, value) == bound = NoLimit \/ (bound # Unset /\ value >= bound)
Below(bound, value) == bound = NoLimit \/ (bound # Unset /\ value <= bound)

DteCheck ==
  Compare({filters.minDte, filters.maxDte}, Above(filters.minDte, Dte) /\ Below(filters.maxDte, Dte))

DeltaCheck ==
  IF ~OptionUsable \/ Option.delta = Unknown THEN "missing"
  ELSE Compare({filters.minDelta, filters.maxDelta},
               Above(filters.minDelta, Option.delta) /\ Below(filters.maxDelta, Option.delta))

CushionCheck ==
  IF ~SpotUsable THEN "missing"
  ELSE Compare({filters.minCushion},
               filters.minCushion \in Nat =>
                 AtLeast(CushionRatio(Spot), filters.minCushion, CushionScale))

\* Mutant of YieldCheck: the yield of a contract that expires today is not undefined.
YieldCheckAnyDay ==
  IF ~OptionUsable \/ (right = "call" /\ ~SpotUsable) THEN "missing"
  ELSE Compare({filters.minYield},
               filters.minYield \in Nat =>
                 AtLeast(AnnualizedRatio(Option.bid, IF right = "put" THEN Strike ELSE Spot),
                         filters.minYield, 1))

YieldCheck ==
  IF ~OptionUsable \/ (right = "call" /\ ~SpotUsable) \/ Dte <= 0 THEN "missing"
  ELSE Compare({filters.minYield},
               filters.minYield \in Nat =>
                 AtLeast(AnnualizedRatio(Option.bid, IF right = "put" THEN Strike ELSE Spot),
                         filters.minYield, 1))

\* validate_opening_leg: without an instrument every check is missing.
Checks ==
  IF ~known THEN [c \in CheckNames |-> "missing"]
  ELSE [dte |-> DteCheck, abs_delta |-> DeltaCheck, cushion |-> CushionCheck,
        annualized_yield |-> YieldCheck]

LegPasses == \A c \in CheckNames : Checks[c] = "pass"

\* The opening metrics of the facts, each present or with a gap; the yield needs the days
\* to expiration and the collateral, which a covered call takes from the share quote.
YieldMetric ==
  IF known /\ OptionUsable /\ Dte > 0 /\ (right = "put" \/ SpotUsable)
  THEN AnnualizedRatio(Option.bid, IF right = "put" THEN Strike ELSE Spot) ELSE Unknown
CushionMetric == IF known /\ SpotUsable THEN CushionRatio(Spot) ELSE Unknown
DteMetric == IF known /\ Dte >= 0 THEN Dte ELSE Unknown

-----------------------------------------------------------------------------
(* The market, the reads and the order.                                    *)

MarketMoves ==
  /\ Clock < MaxTime
  /\ \E m \in Markets : market' = Append(market, m)
  /\ UNCHANGED <<right, filters, day, known, asked, optionQuote, spotQuote, sent>>

Midnight ==
  /\ day < Expiry
  /\ day' = day + 1
  /\ UNCHANGED <<right, filters, market, known, asked, optionQuote, spotQuote, sent>>

\* get_option_instruments is recorded.
ReadsInstrument ==
  /\ ~known /\ known' = TRUE
  /\ UNCHANGED <<right, filters, market, day, asked, optionQuote, spotQuote, sent>>

AsksQuote(kind) ==
  /\ Clock \notin asked[kind] /\ Cardinality(asked[kind]) < MaxReads
  /\ asked' = [asked EXCEPT ![kind] = @ \cup {Clock}]
  /\ UNCHANGED <<right, filters, market, day, known, optionQuote, spotQuote, sent>>

\* A quote is recorded, or its read failed.
RecordsQuote(kind) ==
  \E t \in asked[kind] :
    /\ asked' = [asked EXCEPT ![kind] = @ \ {t}]
    /\ \/ kind = "option" /\ optionQuote' = t /\ UNCHANGED spotQuote
       \/ kind = "spot" /\ spotQuote' = t /\ UNCHANGED optionQuote
       \/ UNCHANGED <<optionQuote, spotQuote>>
    /\ UNCHANGED <<right, filters, market, day, known, sent>>

\* The hook lets place_option_order through.
SendsOpening ==
  /\ LegPasses
  /\ sent' = [at |-> Clock, dte |-> Dte]
  /\ UNCHANGED <<right, filters, market, day, known, asked, optionQuote, spotQuote>>

LegBegins(r, f, m) ==
  /\ right = r /\ filters = f /\ market = <<m>>
  /\ day = 0 /\ known = FALSE
  /\ asked = [kind \in {"option", "spot"} |-> {}]
  /\ optionQuote = Unknown /\ spotQuote = Unknown /\ sent = Unknown

LegInit == \E r \in Rights, f \in Filters, m \in Markets : LegBegins(r, f, m)

LegNext ==
  \/ MarketMoves \/ Midnight \/ ReadsInstrument \/ SendsOpening
  \/ \E kind \in {"option", "spot"} : AsksQuote(kind) \/ RecordsQuote(kind)

LegSpec == LegInit /\ [][LegNext]_legVars

-----------------------------------------------------------------------------
(* Properties.                                                             *)

LegTypeOK ==
  /\ right \in Rights /\ filters \in Filters
  /\ market \in Seq(Markets) /\ Clock \in 1..MaxTime
  /\ day \in 0..Expiry /\ known \in BOOLEAN
  /\ \A kind \in {"option", "spot"} : asked[kind] \subseteq 1..Clock
  /\ optionQuote \in 1..Clock \cup {Unknown} /\ spotQuote \in 1..Clock \cup {Unknown}
  /\ sent \in [at : 1..Clock, dte : 1..Expiry] \cup {Unknown}

\* The times a quote may describe at time `at`.
Recent(at, age) == {t \in 1..at : Fresh(t, at, age)}

\* Every filter holds of a contract with `dte` days left, on the option's market at t and
\* the share's at u.
MeetsFilters(t, u, dte) ==
  LET collateral == IF right = "put" THEN Strike ELSE market[u].spot
      distance == IF right = "put" THEN market[u].spot - Strike ELSE Strike - market[u].spot
  IN /\ Above(filters.minDte, dte) /\ Below(filters.maxDte, dte)
     /\ market[t].delta # Unknown
     /\ Above(filters.minDelta, market[t].delta) /\ Below(filters.maxDelta, market[t].delta)
     /\ filters.minCushion # NoLimit => CushionScale * distance >= filters.minCushion * market[u].spot
     /\ filters.minYield # NoLimit =>
          market[t].bid * DaysPerYear >= filters.minYield * collateral * dte

\* An opening order is let through only on filters that are all set, or deliberately not,
\* and that the market met when the order was sent, but for what it moved within the two
\* maximal ages, whatever quotes were recorded late, out of order or across midnight.
SentOnRecentMarket ==
  sent # Unknown =>
    /\ Unset \notin {filters[f] : f \in DOMAIN filters}
    /\ \E t \in Recent(sent.at, filters.optionAge), u \in Recent(sent.at, filters.equityAge) :
         MeetsFilters(t, u, sent.dte)

\* "so the facts the agent screens with and the check before placement can never disagree"
\* (domain/facts_compute.py): on the same evidence at the same time, a check that judges a
\* ratio judges the one the facts report, and one that is missing has no fact.
FactsAgree ==
  /\ filters.minYield \in Nat =>
       Checks["annualized_yield"] =
         IF YieldMetric = Unknown THEN "missing"
         ELSE IF AtLeast(YieldMetric, filters.minYield, 1) THEN "pass" ELSE "fail"
  /\ filters.minCushion \in Nat =>
       Checks["cushion"] =
         IF CushionMetric = Unknown THEN "missing"
         ELSE IF AtLeast(CushionMetric, filters.minCushion, CushionScale) THEN "pass" ELSE "fail"

\* What is sent rests on the market, and on the ratios the agent was shown.
LegsHonest == SentOnRecentMarket /\ FactsAgree
=============================================================================
