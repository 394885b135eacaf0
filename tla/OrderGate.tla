----------------------------- MODULE OrderGate ------------------------------
(***************************************************************************)
(* Which placement the gate lets through (agent/pretrade_gate.py): the     *)
(* agent's role (domain/role_gate.py), what works already                  *)
(* (domain/order_concurrency.py) and, abstracted to its answer, the        *)
(* pre-trade validation of opening legs (LegCheck).  Order-walk jobs go    *)
(* through it once when they are admitted and once for every price step;   *)
(* the account, the broker's fills and the ledger's knowledge of them move *)
(* independently.  Amounts are per contract; a multiplier is 1.            *)
(***************************************************************************)
EXTENDS RuleSettings, FiniteSets, Functions

CONSTANTS
  Walks,       \* order-walk jobs
  ContractOf,  \* ContractOf[j]: the contract of j
  RollKey,     \* RollKey[o]: underlying root and right of contract o
  Opens,       \* the jobs that sell to open; the others buy to close
  Size,        \* Size[j]: the contracts of j
  Worst,       \* Worst[j]: worst_price of j
  MaxStep,     \* bound: price steps of a job
  Settled      \* settled cash when the run begins

GateAssumption ==
  /\ IsFiniteSet(Walks) /\ Opens \subseteq Walks
  /\ Size \in [Walks -> Nat \ {0}] /\ Worst \in [Walks -> Nat \ {0}]
  /\ MaxStep \in Nat \ {0} /\ Settled \in Nat
ASSUME GateAssumption

VARIABLES
  role,        \* AgentRole
  leftover,    \* contracts with an order the tick's earlier run left unresolved
  live,        \* those of them that still work at the broker
  phase,       \* phase[j]: progress of j
  done,        \* done[j]: filled_quantity of j, settled at the end of its steps
  step,        \* step[j][i]: the order of its i-th step
  funds,       \* the account's settled cash
  snapshot,    \* the latest account snapshot recorded
  aged,        \* it is older than account_state_max_age_seconds
  awaited,     \* the snapshot on its way to a job that awaits it
  validated,   \* contracts whose instrument this run has validated
  overtaken,   \* fills were settled since `snapshot`, since `awaited` was taken
  blind        \* a close was placed beside others on an overtaken snapshot

gateVars == <<role, leftover, live, phase, done, step, funds, snapshot, aged, awaited, validated,
              overtaken, blind>>
books == <<role, leftover, live, validated>>

NoStep == [state |-> "none", size |-> 0, price |-> 0, filled |-> 0, told |-> 0]
Indices == 1..MaxStep
Tradable == {ContractOf[j] : j \in Walks}

-----------------------------------------------------------------------------
(* What the checks read.                                                   *)

Left(j) == Size[j] - done[j]
Live(j) == \E i \in Indices : step[j][i].state = "live"
Sent(j) == {i \in Indices : step[j][i].state # "none"}
NextIndex(j) == Cardinality(Sent(j)) + 1

\* active_jobs: unfinished jobs and admitted ones.
ActiveBeside(j) == {k \in Walks \ {j} : phase[k] \in {"reserved", "walking", "funding", "placed"}}

\* An amount of every step, p = <<job, index>>, added up over the steps of some jobs.
Order(p) == step[p[1]][p[2]]
OverSteps(amount, S) == SumFunctionOnSet(amount, S \X Indices)
Sizes == [p \in Walks \X Indices |-> Order(p).size]
Told == [p \in Walks \X Indices |-> Order(p).told]

OnKey(key) == {j \in Walks : RollKey[ContractOf[j]] = key}

\* Mutant of RollCapacity: closes are counted by what they awaited for.
RollCapacityAsked(key) ==
  OverSteps(Sizes, OnKey(key) \ Opens) - OverSteps(Sizes, OnKey(key) \cap Opens)

\* roll_capacity: recorded fills of the run's closes less the sizes of its openings.
RollCapacity(key) ==
  OverSteps(Told, OnKey(key) \ Opens) - OverSteps(Sizes, OnKey(key) \cap Opens)

\* check_role
RoleAllows(j, size) ==
  \/ role = "wheel"
  \/ role = "sell" /\ j \in Opens
  \/ role = "close" /\ (j \in Opens => /\ ContractOf[j] \in validated
                                       /\ size <= RollCapacity(RollKey[ContractOf[j]]))

\* Mutant of Debit: the jobs beside this one are not counted.
OwnDebit(j, price, size) == price * size

\* _debit of the jobs beside this one, at their worst prices, and its own
Debit(j, price, size) ==
  SumFunctionOnSet([k \in Walks |-> Worst[k] * Left(k)], ActiveBeside(j)) + price * size

\* check_concurrency, on a snapshot and its freshness
Concurrent(j) == ActiveBeside(j) # {} \/ leftover # {}
ConcurrencyAllows(j, price, size, account, fresh) ==
  Concurrent(j) =>
    /\ ContractOf[j] \notin leftover \cup {ContractOf[k] : k \in ActiveBeside(j)}
    /\ j \notin Opens /\ ActiveBeside(j) \cap Opens = {}
    /\ leftover \subseteq validated /\ ContractOf[j] \in validated
    /\ \A k \in ActiveBeside(j) : ContractOf[k] \in validated
    /\ account # Unknown /\ fresh
    /\ Debit(j, price, size) <= account

\* The gate; `legs` is what pre-trade validation says of an opening leg.
GateAllows(j, price, size, account, fresh, legs) ==
  /\ RoleAllows(j, size)
  /\ ConcurrencyAllows(j, price, size, account, fresh)
  /\ j \in Opens => legs

-----------------------------------------------------------------------------
(* Jobs.                                                                   *)

\* work_option_order, checked with its start price and its whole quantity
Admit(j) ==
  /\ phase[j] = "idle"
  /\ \E price \in 1..Worst[j], legs \in BOOLEAN :
       GateAllows(j, price, Size[j], snapshot, ~aged, legs)
  /\ phase' = [phase EXCEPT ![j] = "reserved"]
  /\ UNCHANGED <<books, done, step, funds, snapshot, aged, awaited, overtaken, blind>>

Start(j) ==
  /\ phase[j] = "reserved"
  /\ phase' = [phase EXCEPT ![j] = "walking"]
  /\ UNCHANGED <<books, done, step, funds, snapshot, aged, awaited, overtaken, blind>>

\* place_option_order of one step, or its denial, which stops the job
Places(j, account, fresh, stale) ==
  \E price \in 1..Worst[j], legs \in BOOLEAN :
    IF GateAllows(j, price, Left(j), account, fresh, legs)
    THEN /\ step' = [step EXCEPT ![j][NextIndex(j)] =
                       [NoStep EXCEPT !.state = "live", !.size = Left(j), !.price = price]]
         /\ phase' = [phase EXCEPT ![j] = "placed"]
         /\ blind' = (blind \/ (stale /\ ActiveBeside(j) # {}))
    ELSE /\ phase' = [phase EXCEPT ![j] = "over"]
         /\ UNCHANGED <<step, blind>>

\* Nobody holds the placement lock.
LockFree == \A k \in Walks : phase[k] # "funding"

PlaceAlone(j) ==
  /\ phase[j] = "walking" /\ LockFree /\ ActiveBeside(j) = {}
  /\ Places(j, snapshot, ~aged, overtaken.snapshot)
  /\ UNCHANGED <<books, done, funds, snapshot, aged, awaited, overtaken>>

\* Beside other work the job reads the account first.
AskFunds(j) ==
  /\ phase[j] = "walking" /\ LockFree /\ ActiveBeside(j) # {}
  /\ phase' = [phase EXCEPT ![j] = "funding"]
  /\ awaited' = funds
  /\ overtaken' = [overtaken EXCEPT !.awaited = FALSE]
  /\ UNCHANGED <<books, done, step, funds, snapshot, aged, blind>>

\* The snapshot is recorded, or the read failed and the latest one is left; the placement
\* follows.
PlaceBeside(j) ==
  /\ phase[j] = "funding"
  /\ \/ /\ snapshot' = awaited /\ aged' = FALSE
        /\ overtaken' = [overtaken EXCEPT !.snapshot = overtaken.awaited]
        /\ Places(j, awaited, TRUE, overtaken.awaited)
     \/ /\ Places(j, snapshot, ~aged, overtaken.snapshot)
        /\ UNCHANGED <<snapshot, aged, overtaken>>
  /\ awaited' = Unknown
  /\ UNCHANGED <<books, done, funds>>

\* The broker fills a contract.
Fill(j, i) ==
  /\ step[j][i].state = "live" /\ step[j][i].filled < step[j][i].size
  /\ step' = [step EXCEPT ![j][i].filled = @ + 1]
  /\ funds' = IF j \in Opens THEN funds ELSE funds - step[j][i].price
  /\ UNCHANGED <<books, phase, done, snapshot, aged, awaited, overtaken, blind>>

\* A read of orders records the fills so far.
ReadFills(j, i) ==
  /\ step[j][i].state = "live" /\ step[j][i].told # step[j][i].filled
  /\ step' = [step EXCEPT ![j][i].told = step[j][i].filled]
  /\ UNCHANGED <<books, phase, done, funds, snapshot, aged, awaited, overtaken, blind>>

\* The step's order is confirmed filled or cancelled; the next step or the end follows.
Settle(j, i) ==
  /\ step[j][i].state = "live"
  /\ step' = [step EXCEPT ![j][i].state = "over", ![j][i].told = step[j][i].filled]
  /\ done' = [done EXCEPT ![j] = @ + step[j][i].filled]
  /\ phase' = [phase EXCEPT ![j] =
       IF done'[j] < Size[j] /\ NextIndex(j) \in Indices THEN "walking" ELSE "over"]
  /\ overtaken' = IF step[j][i].filled > 0 /\ j \notin Opens
                  THEN [snapshot |-> TRUE, awaited |-> TRUE] ELSE overtaken
  /\ UNCHANGED <<books, funds, snapshot, aged, awaited, blind>>

\* The window ends between two steps.
End(j) ==
  /\ phase[j] \in {"reserved", "walking"}
  /\ phase' = [phase EXCEPT ![j] = "over"]
  /\ UNCHANGED <<books, done, step, funds, snapshot, aged, awaited, overtaken, blind>>

-----------------------------------------------------------------------------
(* The agent's reads, time, and what an earlier run left.                  *)

ReadsAccount ==
  /\ snapshot' = funds /\ aged' = FALSE
  /\ overtaken' = [overtaken EXCEPT !.snapshot = FALSE]
  /\ UNCHANGED <<books, phase, done, step, funds, awaited, blind>>

AccountAges ==
  /\ snapshot # Unknown /\ ~aged /\ aged' = TRUE
  /\ UNCHANGED <<books, phase, done, step, funds, snapshot, awaited, overtaken, blind>>

ReadsInstruments ==
  /\ \E o \in Tradable \ validated : validated' = validated \cup {o}
  /\ UNCHANGED <<role, leftover, live, phase, done, step, funds, snapshot, aged, awaited, overtaken, blind>>

\* A leftover order ends at the broker; a read resolves it.
LeftoverEnds(o) ==
  /\ o \in leftover
  /\ \/ o \in live /\ live' = live \ {o} /\ UNCHANGED leftover
     \/ o \notin live /\ leftover' = leftover \ {o} /\ UNCHANGED live
  /\ UNCHANGED <<role, phase, done, step, funds, snapshot, aged, awaited, validated, overtaken, blind>>

GateBegins(r, left) ==
  /\ role = r /\ leftover = left /\ live = left
  /\ phase = [j \in Walks |-> "idle"] /\ done = [j \in Walks |-> 0]
  /\ step = [j \in Walks |-> [i \in Indices |-> NoStep]]
  /\ funds = Settled /\ snapshot = Unknown /\ aged = FALSE /\ awaited = Unknown
  /\ validated = {} /\ overtaken = [snapshot |-> FALSE, awaited |-> FALSE] /\ blind = FALSE

\* Only the Sell Options agent follows another run of its tick.
GateInit ==
  \E r \in {"wheel", "sell", "close"}, left \in SUBSET {ContractOf[j] : j \in Walks \ Opens} :
    (r # "sell" => left = {}) /\ GateBegins(r, left)

GateNext ==
  \/ \E j \in Walks : Admit(j) \/ Start(j) \/ PlaceAlone(j) \/ AskFunds(j) \/ PlaceBeside(j) \/ End(j)
  \/ \E j \in Walks, i \in Indices : Fill(j, i) \/ ReadFills(j, i) \/ Settle(j, i)
  \/ ReadsAccount \/ AccountAges \/ ReadsInstruments
  \/ \E o \in Tradable : LeftoverEnds(o)

GateSpec == GateInit /\ [][GateNext]_gateVars

-----------------------------------------------------------------------------
(* Properties.                                                             *)

GateTypeOK ==
  /\ role \in {"wheel", "sell", "close"}
  /\ live \subseteq leftover /\ leftover \subseteq Tradable /\ validated \subseteq Tradable
  /\ phase \in [Walks -> {"idle", "reserved", "walking", "funding", "placed", "over"}]
  /\ \A j \in Walks : done[j] \in 0..Size[j]
  /\ \A j \in Walks, i \in Indices :
       /\ step[j][i].state \in {"none", "live", "over"}
       /\ step[j][i].told <= step[j][i].filled /\ step[j][i].filled <= step[j][i].size
  /\ funds \in Int /\ snapshot \in Int \cup {Unknown} /\ awaited \in Int \cup {Unknown}
  /\ aged \in BOOLEAN /\ blind \in BOOLEAN
  /\ overtaken \in [snapshot : BOOLEAN, awaited : BOOLEAN]

\* The contracts of a step that its order holds or may still fill, and those it filled.
Taken == [p \in Walks \X Indices |->
            IF Order(p).state = "live" THEN Order(p).size ELSE Order(p).filled]
StepFilled == [p \in Walks \X Indices |-> Order(p).filled]

\* What the unfilled contracts of a working order would cost.
Outstanding ==
  [p \in Walks \X Indices |->
     IF Order(p).state = "live" THEN (Order(p).size - Order(p).filled) * Order(p).price ELSE 0]

\* The Buy-to-Close agent never has more contracts open or being opened as replacements, on
\* one underlying and right, than it has bought back, however late fills are learnt.
RollsWithinFills ==
  role = "close" => \A key \in {RollKey[o] : o \in Tradable} :
    OverSteps(Taken, OnKey(key) \cap Opens) <= OverSteps(StepFilled, OnKey(key) \ Opens)

\* Closes that work at the same time can all be paid for, unless one was placed on a
\* snapshot taken before fills the walk has settled since.
FundedTogether ==
  LET closing == {j \in Walks \ Opens : Live(j)}
  IN ~blind /\ Cardinality(closing) > 1 => OverSteps(Outstanding, closing) <= funds

\* An opening order works alone, the orders an earlier run of the tick left included.
OpensAlone ==
  \A j \in Opens : Live(j) => live = {} /\ \A k \in Walks \ {j} : ~Live(k)

\* What the gate promises of the orders it lets through.
GateKeeps == RollsWithinFills /\ FundedTogether /\ OpensAlone

\* "for each price step from start_price to worst_price it re-quotes, checks, reviews, places,
\* waits, cancels, and confirms" (prompts/wheel_close.v3.md): the gate lets the next step of a
\* replacement through while the contracts bought back are not replaced.
ReplacementWalks ==
  \A j \in Opens :
    (/\ role = "close" /\ phase[j] = "walking"
     /\ \A k \in OnKey(RollKey[ContractOf[j]]) \cap Opens : k = j \/ Sent(k) = {}
     /\ OverSteps(Told, OnKey(RollKey[ContractOf[j]]) \ Opens) >= Size[j])
      => RoleAllows(j, Left(j))
=============================================================================
