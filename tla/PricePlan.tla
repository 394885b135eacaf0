------------------------------ MODULE PricePlan ------------------------------
(***************************************************************************)
(* The limit prices of an order walk (domain/order_walk.py: round_to_tick, *)
(* step_prices).  Prices count the smallest unit of money; the linear      *)
(* prices between the two ends are fractions over `steps - 1`, and are     *)
(* kept multiplied by it.  The loop over the steps is the state machine.   *)
(***************************************************************************)
EXTENDS Integers, Sequences, FiniteSets

CONSTANTS
  MaxPrice,    \* bound: the prices asked for
  MaxWalk,     \* bound: orders.walk.max_steps
  TickSizes    \* the ticks of the schedules

ASSUME PlanAssumption == {MaxPrice, MaxWalk} \subseteq Nat /\ TickSizes \subseteq Nat \ {0}

VARIABLES
  ask,       \* what is planned: [start, worst, steps, selling, above, below, cutoff]
  step,      \* the k of the loop
  prices,    \* the prices so far, each with its k
  verdict    \* planning, planned, or refused (a ValueError)

planVars == <<ask, step, prices, verdict>>

Asks == [start : 1..MaxPrice, worst : 1..MaxPrice, steps : 1..MaxWalk, selling : BOOLEAN,
         above : TickSizes, below : TickSizes, cutoff : 0..MaxPrice]

\* A number is num / den throughout.
CeilDiv(num, den) == -((-num) \div den)

\* TickSchedule.tick_at and is_valid
TickAt(num, den) == IF num >= ask.cutoff * den THEN ask.above ELSE ask.below
IsValid(p) == p > 0 /\ p % TickAt(p, 1) = 0

\* Mutant of RoundOn: to the nearest tick below, for a sell too.
RoundOnDown(num, den, tick) == (num \div (den * tick)) * tick

\* _round, in the trader's favour.
RoundOn(num, den, tick) ==
  IF ask.selling THEN CeilDiv(num, den * tick) * tick ELSE (num \div (den * tick)) * tick

\* round_to_tick; the result may be invalid, which raises.
Rounded(num, den) ==
  LET once == RoundOn(num, den, TickAt(num, den))
  IN  IF IsValid(once) THEN once ELSE RoundOn(num, den, TickAt(once, 1))

Clamped(p) ==
  IF (ask.selling /\ p < ask.worst) \/ (~ask.selling /\ p > ask.worst) THEN ask.worst ELSE p

\* Beyond p, as seen from start towards worst.
Moves(p, q) == IF ask.selling THEN q < p ELSE q > p

\* The linear price of step k, times steps - 1.
Linear(k) == ask.start * (ask.steps - 1) + (ask.worst - ask.start) * k

PlanBegins(a) == ask = a /\ step = 0 /\ prices = <<>> /\ verdict = "planning"

PlanInit == \E a \in Asks : PlanBegins(a)

\* The endpoints are checked, and a walk of one price is planned at once.
RefusesAsk ==
  /\ verdict = "planning" /\ step = 0
  /\ ~IsValid(ask.start) \/ ~IsValid(ask.worst) \/ Moves(ask.worst, ask.start)
  /\ verdict' = "refused"
  /\ UNCHANGED <<ask, step, prices>>

PlansOne ==
  /\ verdict = "planning" /\ step = 0
  /\ IsValid(ask.start) /\ IsValid(ask.worst) /\ ~Moves(ask.worst, ask.start)
  /\ ask.steps = 1 \/ ask.start = ask.worst
  /\ prices' = <<[k |-> 0, price |-> ask.start]>>
  /\ verdict' = "planned"
  /\ UNCHANGED <<ask, step>>

\* Mutant of Keeps: a repeated price is walked twice.
KeepsRepeats(p) == prices = <<>> \/ ~Moves(p, prices[Len(prices)].price)

Keeps(p) == prices = <<>> \/ Moves(prices[Len(prices)].price, p)

PlansStep ==
  /\ verdict = "planning" /\ ask.steps > 1 /\ ask.start # ask.worst
  /\ IsValid(ask.start) /\ IsValid(ask.worst) /\ ~Moves(ask.worst, ask.start)
  /\ LET last == step = ask.steps - 1
         p == IF last THEN ask.worst ELSE Rounded(Linear(step), ask.steps - 1)
     IN  IF last \/ IsValid(p)
         THEN /\ prices' = IF Keeps(Clamped(p))
                           THEN Append(prices, [k |-> step, price |-> Clamped(p)]) ELSE prices
              /\ step' = step + 1
              /\ verdict' = IF last THEN "planned" ELSE verdict
         ELSE verdict' = "refused" /\ UNCHANGED <<step, prices>>
  /\ UNCHANGED ask

PlanNext == RefusesAsk \/ PlansOne \/ PlansStep

PlanSpec == PlanInit /\ [][PlanNext]_planVars

-----------------------------------------------------------------------------
(* The audit of a walk (agent/audit/v6_sequence.py).                       *)

\* V6.5, _order_walks: what is held against a job that placed the steps `placed` of the plan.
\* When each was placed (orders.walk.window_seconds) is left out.
WalkHeld(placed) ==
  LET price(i) == prices[i].price
      within(p) == ~Moves(p, ask.start) /\ ~Moves(ask.worst, p)
  IN  IF Cardinality(placed) > MaxWalk THEN {"max_steps"}
      ELSE IF \A i, j \in placed : i < j => Moves(price(i), price(j))
        THEN IF \A i \in placed : within(price(i)) THEN {} ELSE {"bounds"}
        ELSE {"monotone"}

-----------------------------------------------------------------------------
(* Properties. *)

PlanTypeOK ==
  /\ ask \in Asks /\ step \in 0..MaxWalk
  /\ prices \in Seq([k : 0..MaxWalk, price : 1..MaxPrice])
  /\ verdict \in {"planning", "planned", "refused"}

\* A plan starts at start_price, ends exactly at worst_price (a single step stays at the
\* start), moves strictly between them on valid ticks, and concedes at no step more than
\* the linear walk: whatever ticks meet at the cutoff.  The audit has nothing against a job for
\* the steps it placed of it.
PlanSound ==
  verdict = "planned" =>
    /\ prices[1].price = ask.start
    /\ ask.steps > 1 => prices[Len(prices)].price = ask.worst
    /\ \A i \in DOMAIN prices :
         /\ IsValid(prices[i].price)
         /\ ~(ask.steps > 1 /\ Moves(Linear(prices[i].k), prices[i].price * (ask.steps - 1)))
    /\ \A placed \in SUBSET DOMAIN prices : WalkHeld(placed) = {}
=============================================================================
