# Verification of the Wheelta Robinhood agent

TLA+ models of `wheelta_robinhood_agent` (under `src/src/wheelta_robinhood_agent/`, the paths below
are relative to it), TLC runs that check them on small instances, and TLAPS proofs for every value
of the constants. The program is an unattended trading agent. A cron fires it every five minutes. A
fire that is due runs a close agent, then a sell agent, each in its own session with a language
model; the model asks for trades, and trusted code gates them, records them and works them at the
broker. What can go wrong is not the strategy but the bookkeeping around it: an order placed twice,
an order nobody knows about, a report that is not true, a session that runs twice or too early.

## 1. Inventory

| Component | State | Operations, and whom it talks to | Hard behaviour | What makes it correct |
|---|---|---|---|---|
| Order walk executor (`agent/order_walk.py`, `domain/order_walk.py`, `agent/order_work_server.py`) | jobs, their steps, fills, `placement_ended`, `_halted`, the placement lock | `start`, `_walk`, `_place`, `_wait_for_fill`, `_cancel`, `_confirm`, `_salvage`, `halt`; calls hooks, proxy and broker | tasks interleave at awaits; lost replies; late fills; task cancellation | never more than was asked for; at most one open order; true reports; one cancel; no placement after the stop |
| Pre-trade gate, concurrency (`agent/pretrade_gate.py`, `domain/order_concurrency.py`) | none (pure), reads placement state | `check_concurrency`, funds and price checks | two calls checked before either is placed | only closes on different contracts work side by side |
| Hooks (`agent/hooks.py`) | dispatched calls, spawn counters, reservations | pre-use, post-use, `admit` | a call is denied, recorded, or in flight when the session ends | every call recorded before it leaves |
| Validating proxy (`agent/proxy.py`, `agent/proxy_dispatch.py`) | registered and claimed calls | `claim`, `complete`, `execute`, `_handle` | claim races, recording failures | forwarded at most once; nothing sent unrecorded |
| Session, conversation (`agent/session.py`, `agent/order_cleanup.py`) | turns, repairs, unresolved calls | `run_agent_session`, `_converse`, `close_unresolved_calls` | turn limits, stop while jobs run | bounded turns; calls resolved at the end |
| Orchestrator tick (`orchestrator/`) | slot, the tick's runs, gate time, next run | `run_once`, `_Tick.run`, `_refire`, `_Run.execute`, `recover` | crash, lost lock, re-fire, two agents' schedules | one session per run; schedule respected; recovery guesses nothing |
| Run and call ledger (`ledger/runs.py`, `ledger/tool_calls.py`, `ledger/events.py`, `ledger/lock.py`) | append-only events, projections, the advisory lock | open a slot, append, project | latest event wins; deduplication | final is final |
| Order and position ledger (`ledger/orders.py`, `ledger/positions.py`, `agent/broker_ledger.py`) | intents, order events, lineages | record, project, reconcile | observations out of order | quantity conserved, unresolved orders found |
| Simulated broker (`agent/simulated_broker.py`) | orders, fills, cash of a dry run | place, cancel, read | shared by two runs | the same order life cycle |
| Mignons (`agent/mignons.py`, `domain/mignon_report.py`, `agent/hooks.py`) | spawn counts; what each was delivered; reports, patches | spawn, review, patch, salvage | parallel spawns; a report is judged by what the hooks know by then | limits; a report that is handed on says only what its Mignon was delivered |
| OAuth credentials (`orchestrator/robinhood_credential.py`, `ledger/oauth_credentials.py`) | sealed refresh token | refresh, save | a crash between exchange and save | never uses an unsaved token |
| Decision facts (`agent/facts_tool.py`, `domain/facts_compute.py`) | recorded results and fact sets | `compute`; searches the run's results | halves of the account read apart; an options read identified late; a board rebuilt | a fact rests on all that was read, on the newest, and says how old that is |
| Evidence, tool results (`ledger/evidence.py`, `agent/result_boundary.py`, mappers) | recorded results, their evidence ids | validate, map, append | a result is refused, or recorded and not delivered | what the model is given is recorded |
| Workspace (`ledger/workspace.py`) | objects, versions, caps | create, update; nothing calls its writers | caps, ownership | owned objects only |
| Web cache (`agent/web_cache.py`, `ledger/web_cache.py`) | recorded searches with their time | refuse, record, look up | check and recording are two steps with a paid call between | a fresh answer is not paid for again, and what was refused is not hidden |
| Notices: final status, heartbeat, mail, alerts (`orchestrator/main.py`, `integrations/notifications`) | rows of runs, audits and mails; what the process remembers | assemble, audit, finalize, heartbeat, send, record | death or a lost connection anywhere; a mail that is taken while its answer is lost | one mail for a slot; what is said is what the ledger keeps; nothing found stays untold |
| Audit (`agent/audit/`) | none (judges what the ledger kept) | V3, V4, V6, V7 checks | reads in flight at a dispatch; facts known late | accuses only of what the record shows, and sees what it shows |
| Assembly, decision output (`domain/assembly.py`, `domain/run_record.py`) | none of their own | record and reference check | a call unanswered or linked late | honest, complete, unambiguous |
| Configuration, prompts, summaries, trade sheet | none of their own | translation of recorded data | — | data, not control |

Control flows down the table's first rows: tick → session → hooks → executor → gate → proxy → broker.
Every arrow writes to the ledger before it acts, and the ledger is what a later tick starts from. The
stop latch (`agent/run_control.py`) is shared by all of them and is irreversible. `PROJECT.json` lists
every component with what is and is not modelled, and the hazards of the code line by line.

## 2. Modules

| Module | Role |
|---|---|
| `OrderWalk`, `TradePromise`, `MCOrderWalk` | the executor, its placement gate and the broker; what it promises its caller, without steps, cancels or retries |
| `PricePlan` | the limit prices of a walk, and the audit's check of them |
| `OrderGate`, `LegCheck`, `RuleSettings`, `MCOrderGate` | what the pre-trade gate lets through: roles, work side by side, funds; opening legs on quotes of different moments; the values a rule may have |
| `Sizing` | the decision facts' capacities and the audit of the hard caps (V7), on reads of different moments |
| `FactsTool` | which of a run's recorded results a decision fact rests on |
| `ToolCalls` | a tool call from the hooks through the proxy to its recorded outcome |
| `Conversation`, `SessionStart` | the turns of a session, and its life around them |
| `Research` | what a Mignon was delivered, its report, the patches it is asked for and the report handed on |
| `WebCache` | the recorded searches that make a later one unnecessary |
| `SimulatedBroker` | the order venue of a dry run |
| `Credential`, `MCCredential` | the rotating refresh token across ticks |
| `Tick`, `MCTick` | one cron fire: lock, slots, gate, schedule, runs, crash, recovery |
| `Notices` | what the ledger and the owner are told of a slot's runs: audit, final status, alerts, heartbeat, mail |
| `OrderLedger`, `Lineages`, `MCOrderLedger` | the books of orders and positions: events recorded in any order, and their projections |
| `Assembly`, `RecordAudit`, `MCAssembly` | the record of a run, the references the agent is asked to mend, and the audit of the record (V4) |
| `OrderAudit` | the audit of a run's order sequence (V6) |
| `MCSession`, `MCEvidence`, `MCRecord` | several modules checked in one run |
| `OrderWalkProofs`, `TickProofs`, `ToolCallsProofs`, `SessionProofs`, `BooksProofs`, `EvidenceProofs`, `RecordProofs` | the theorems |
| `SumLemmas` | lemmas about sums over finite sets, sizes of images, and induction over subsets |

How they compose. The components meet in few values, and each module treats the others' side of such a
value as a choice: `Conversation` sees a job as a counter that ends (`OrderWalk`'s `JobsEnd` is its fairness
assumption), `Tick` sees a session as calls that are requested, sent and answered (`ToolCalls` refines what
happens between), `OrderWalk` sees the gate as its rule on work side by side (`OrderGate` adds funds and
roles), `OrderLedger` lets place calls, reads and cancels happen in any order, more than `OrderWalk` ever
makes, `Notices` sees a session as its end. So every module holds on its own, and nothing is gained by
multiplying their states. `MCSession`, `MCEvidence` and `MCRecord` check several of them in one run: `part`,
chosen in `Init`, says which module's steps the behaviour takes; the variables of the others stay as they
begin, so that an invariant of a part is only asked of its own behaviours.

### Done, and left

The plan (tool calls, conversation, prices and concurrency, order ledger with positions, simulated broker,
credential) is carried out, and was extended by the gate, the decision facts, the audits V4, V6 and V7, the
session's start, the assembly, research, the web cache, the results that facts rest on and what a tick says of
itself. Proved is every invariant and every action property that a passing run checks, for all values of the
constants, that the walk implements its promise, and that the walk, a fire and the conversation run down. Left are
the liveness properties themselves, which only the runs check, and, not modelled, the workspace's owned objects and their caps.

## 3. OrderWalk

**State.** `status`, `filled`, `index`, `seen`, `cancelSent`, `differs` are `WalkJob` and its current
`WalkStep` (`seen` is `order_status`, `"none"` while the broker's id is unknown). `pc` is the await at
which the job's task is suspended. `stop` is the latch, `halted`, `cancelled` and `placementEnded` the
runner's flags. `orders` and `position` are the broker's: what the code cannot see but by reading.

**Actions.** One action is what a task does between two awaits. `BeginStep`, `ReadQuote`, `Review` and
`TakeLock` are the top of `_walk` and `_place`; `TakeLock` sends at once when the job is alone
(`SendPlacement`) and otherwise holds the lock while the account is read (`PlaceBesideOthers`).
`PlaceSucceeds` and `PlaceUnknown` are the two ends of the place call. `PollOrder` and `EndWait` are
`_wait_for_fill` and the code after it (`CloseStep`), `SendCancel`, `CancelReturns`, `Confirm` and
`ConfirmGivesUp` are `_cancel` and `_confirm`, `Interrupt` and `EndSalvage` are `_run`'s last handler and
`_salvage`. `Reserve`, `Release` and `Start` are the hooks' admission of the agent's call. `Stop`, `Halt`
and `CancelGroup` come from the run. `AgentCancels` is the agent's own `cancel_option_order`. The broker
receives, fills, closes, and takes cancels whenever it likes, also after a caller gave up.

**Abstracted.** Prices, the clock, funds and quotes: each is a check that may fail. That the broker's
order is not the one sent is an observation (`differs`). The broker never executes more than an order's
quantity. Ledger orders of other runs are not modelled; this run's unknown ones close placement
(`placement_ended`).

**Bounds.** `MaxCancels` bounds the cancel requests sent for one order (2, so that a second one can
be seen). `walk` has one opening job of three contracts with three price steps and two closing jobs of
one contract with two steps: a partial fill, a late fill after the cancel and a remainder all happen. Its
action constraint keeps the opening job apart in time from the closing ones, which the gate does anyway once one
of them is admitted; it spares the orders in which they take turns. `three` lets all compete: two closing jobs on different contracts, of two and one contracts, which work beside
each other and wait for each other's placement lock, and an opening job on one of these contracts, which the gate
keeps out while they work; one step, and partial stops. Its action constraint `NotAfter` leaves out the behaviours
in which the opening job and the others follow each other, when one side is done before the other begins.

**Fairness.** `FairSpec` makes each job's own steps weakly fair. The code justifies it: every call has a
timeout, every wait is a counted number of reads, and the event loop runs ready tasks. The broker is
not fair at all: it may never fill, close or answer.

**Deadlock** is not checked (`CHECK_DEADLOCK FALSE`): a run of the program ends.

## 4. Tick

**State.** `lock` is the advisory lock as the database sees it; `conn` says whether a process can still
write. The ledger keeps a run's `status`, a slot's schedule events (`gates` for the fallback's gate
time, `binding` for agent and unfilled-order times) and the outcome, intent and known fill of a run's
one order call (`order`, with the broker's side in `sent`). The rest is a process's memory, which
`Gone` forgets. `sessions` and `uncapped` are history variables: the sessions started for a run, and the runs that
ended with an unfilled order whose cap could not be recorded.

**Actions.** `Fire` and `SkipTick` are `run_once`, `OpenSlot`, `OpenSell` and `LookAtSell` are `_Tick.run`
and `_refire`, `Gate` is `_execute` up to the session, `StartRun` is `_agent_run`, the session is
`RequestOrder`, `RecordIntent`, `SendOrder`, `RecordOutcome`, `ReadFill` and `EndSession`, then come
`ApplyAgentNextRun`, `ApplyUnfilledOrderCap` and `Finalize` of `_finish`, and `Recover`. Between any two,
`Crash` ends the process; in a session `LoseConnection` leaves it alive without a lock, and `SendOrder`
still goes out. `DropLock` is the database's.

**Abstracted.** Only live production is modelled. Final statuses are grouped by what the control does
with them (`Final`). One order call stands for a session's order calls; reads do not matter to the
properties. Heartbeat, mail, audit, assembly and notes change no modelled state, and their failures are
the `error` endings. The slot is computed where the lock is taken: a connect is bounded to 10 s, a slot
lasts five minutes. Recording the agent's next-run time or the cap of an unfilled order may fail, for whatever
reason: the code swallows it ("the fallback or agent time stands") and the run ends as it would. So `UnfilledCaps`
promises a cap only of runs that are not in `uncapped`; of the others it says that the fallback of their slot
stands, within the maximum gap.
`Tick` lets time pass only in sessions, and not beyond their budget: the deadline watcher ends them.

**Bounds.** Two fires, a `Horizon` of six slots, and one run that calls an order tool (`MaxOrders`): enough for
a crashed fire and its recovery, for a session that outlives its lock while the next slot's fire starts, the
recovery of its run while its call is on the way, and a next run that must follow the newest schedule and not
an older one. `ticks` fires in slots up to 2 and `retry` up to 3 (`MaxClock`). Slot 2 is outside market hours,
and agents ask for an early, a late or an unplaceable time (`AskTimes`) or none. The gaps keep the order the
settings enforce: close budget < run budget < fallback <= maximum gap.

**Fairness.** A process's steps are weakly fair (statement timeouts, call timeouts, the deadline), a
process without its connection ends, and the database drops the lock of a dead session. Crashes,
lost connections, new fires and time are not fair.

## 5. OrderLedger

**State.** The broker's side: `broker[o]`, the versions an order went through, each with its date, `held`,
and `now`. What is under way: `place[o]`, `call[c]` with the snapshot it was answered with. The ledger's
side is what is appended: `intents`, `links` and `noOrder` (intent_linked, intent_resolved), `statuses`, `fills`,
`cancels` (status_observed, fill_observed, cancellation_observed) and `lineages`.

**Actions.** `Request`, `RecordIntent`, `PlaceReturns` are a place call up to `_record_order` of its result;
`AskOrders`/`OrdersReturn` a complete or narrowed get_option_orders (with `_resolve_unlinked_intents`),
`AskCancel`/`CancelReturns` a cancel, `AskPositions`/`PositionsReturn` the positions read with
`_reconcile_lineages`. Between asking and recording, the broker moves (`BrokerTakes`, `BrokerFills`,
`BrokerTakesCancel`, `BrokerCancels`), and other snapshots are recorded: a snapshot taken first may be
recorded last. `Status`, `Filled`, `CancelStatus`, `Listed`, `Homes` and `Holders` are the projections.

**Bounds.** Two orders of one job on one contract, of two and one contracts, two calls besides the place
calls, four changes at the broker (`MaxNow`), the broker's clock two behind the ledger's (`Skew`) and a margin
of two: a partial fill, a cancel and a late fill with a read on either side, and both orders in one lineage.
`relink` needs three orders in turn (open, close, open again), so it checks `QuietSpec`, the behaviours of the
specification in which nothing else is in flight when an order is placed: a restriction is enough to exhibit a
violation.

## 6. The gate, the sizes and the record

`OrderGate`. A job is admitted with its whole size and then checked at each price step, by role
(`RoleAllows`, `RollCapacity`) and against work beside it (`ConcurrencyAllows`), on the latest account snapshot;
`AskFunds`/`PlaceBeside` are the read that is awaited before a placement beside others, and it may fail.
`funds` moves with every fill. What the walk has counted (`done`), what a read has told the ledger (`told`) and
what the broker filled are three numbers. Two closes and one replacement, two steps each, settled cash 3.

`LegCheck`. `validate_opening_leg` and the facts' metrics as ratios, on quotes that are named by the time
they describe; quotes asked side by side are recorded in any order, days pass, and filters may be numbers, none
or open. `Sizing`. An account that sells, fills, cancels, buys back and settles while the run's reads of
account, positions and orders are taken at different moments; `derived_csp_reservation`, the capacities, and
`AuditAgrees` with the caps of `agent/audit/v7_caps.py` on the state `run_loader` composes. Amounts are small
whole units; two rule sets that differ in which rules are set; the account moves twice (`MaxMoves`).

`FactsTool`. A run's results in the order they were recorded, each with the time of its read (`at`); a place in
this order is an evidence id. Shares and options of an account are two reads, and an options read counts once every
contract its rows name has been identified by a read of instruments: until then an older one that is identified
stands in for it. Board rows have a build, numbered by its `as_of`, and results of different builds may be recorded
in any order; a candidate is compared with board rows only if the run's rows listed its contract when it was issued.
Facts are computed to open (`FactsToOpen`) or of a position of the book (`FactsOfPosition`), and a failing ledger
sets the stop latch. Left out: quotes (`LegCheck`), the account snapshot, which is found as the open orders are, and
the validation itself: a result that is refused leaves nothing. Two contracts, one held and listed on the board, one
that at first only a position row names; six results, of which the first two are one of two `Beginnings` (states the
run reaches from an empty record, to spare TLC the way), two builds, two times and an age limit of 0, one fact set:
late identification, a rebuilt board and a read that is too old all happen before it or after it.

`Lineages`. The events of positions under keys, appended by calls that may be repeated, and `PositionBook`,
their projection: fills linked, a roll in two price steps, decisions, notes and closures. Two lineages, three
fill events (one without a price, one a total), three decisions, four events (`MaxEvents`), one note each.

`Assembly`. The record is a pure function, so the module is operators over a recorded run; its state machine
only produces the recorded runs there can be: place and cancel calls denied, failed, unanswered or answered,
orders that the ledger knows late or not at all, references delivered or not. `Answers` is 69 outputs: every
single decision of each kind with several ways to cite, some with rationales, and pairs. `RecordAudit` adds
V4 to the same recorded runs: what it holds against an output, the findings of the event index included (a place
without an intent on record, a denied cancel), beside what the agent was told of it (`AuditFair`).

`OrderAudit`. One placement is judged after the run, from the reads and cancels that were completed or in
flight when it was dispatched. One other order of the run (an earlier step, the other side, or the close of
a roll) and one order of an earlier run; two reads, a target of two contracts. The audit presumes nothing of
the executor, so calls are sent in any order.

`Research`. Two Mignons, one reference, one page, one extract and two repair rounds; reports that are parsed
as first replies, patches that arrive before or after the salvage, briefs that name another's subject. What
the hooks remember of a Mignon is separate from what was delivered to it. A review that raises drops the draft
(`ReviewFails`), and the Mignon's last text is then judged as it is.

## 7. A session

`ToolCalls`. `cli`, `wire` and `answers` are the CLI's side, `known`, `active` and `spawned` the hooks', `proxy`
is `ProxyDispatch`, `events` the ledger's. A message may be sent twice (`MaxSends`), a call may be reported
as failed while the proxy works on it, any write may fail. `Conversation`. `phase` is the await of `_converse`;
each limit is a constant with its real value. `SessionStart`. Planning, upstreams, account check, start probe,
client, polls, first prompt and the end, each of which may fail; the probe's reads are per page.
`PricePlan`. Every ask of up to 8 units, 4 steps, three tick sizes and a cutoff: integers times the number of
steps stand for the decimals. `SimulatedBroker`. Two contracts, two orders, real orders and positions that
move underneath; a position may have a row that lists no short contracts, which the code leaves as it is. `Credential`.
Two ticks and three token pairs, with a crash or a lost connection anywhere. A tick may fail before it alerts the
loss of a credential (`EndsUntold`): the events before the alert raise on a lost connection, the likely reason of a failed save.
`Notices`. One slot fired twice, at most two attempts at the mail; the process may die, raise or lose its
connection at any point, the provider may take a mail whose answer is lost. `AgentRun`, `SessionRuns`, `Closing` and
`Audit` end where a write may raise before an alert (`Raises`); a run that raised is handled once and final as failed. `WebCache`. Two searches in two
spellings and two narrowings, a clock up to 3 with a maximal age of 2, a lookup of one.

**Fairness.** `TalkFairness` asks that the conversation's own steps and the ends of jobs happen: the model's
turns are bounded by the CLI's timeout, jobs by `JobsEnd`. Nothing is assumed of the stop, the deadline or
the agent's goodwill.

## 8. Runs

| Run | Specification and instance | Checks | Shows |
|---|---|---|---|
| `walk` | `OrderWalk`, section 3 | TypeOK, NoOverfill, OneOpenOrder, OutcomeTruthful, OneCancelPerOrder, NoPlacementAfterStop, KeepsPromise | lost replies, late fills, cancellation of a task: never more than asked, one order at a time, true reports; the walk implements `TradePromise` |
| `three` | `OrderWalk`, fair tasks | ConcurrentClosesOnly, JobsEnd | what may work side by side; every started job ends |
| `ticks` | `Tick`, section 4 | TypeOK, OneSessionPerRun, OverlapNeedsBinding, OutcomeNeverGuessed, UnfilledCaps, RespectsSchedule, LockFreed | one session per run; no tick before its time; recovery guesses nothing; the lock is freed |
| `session` | `MCSession`, section 7 | TypeOK, ReachesOnce, OutcomeStands, SpawnCaps, SessionSound (StartSound, TalkSound, CacheSound), TalkEnds, LossKnown, PlanSound, SimBook, NoticesSound | each part of a session by itself, and what is said of it |
| `evidence` | `MCEvidence`, sections 5 and 6 | TypeOK, BooksTrue (OrdersTrue, LineagesTrue), NeverBackwards, SizingSound (SizesHold, FactsRest), GateSound (LegsHonest, GateKeeps) | what is concluded from reads of different moments is true |
| `record` | `MCRecord`, section 6 | TypeOK, RecordSound (RecordTrue, AuditFair, OrderAuditSound), ReportsSound | the record is honest, complete and unambiguous; the audits accuse only of what happened; a research report says what was delivered |
| `retry`, `confirm`, `relink`, `reuse`, `replacement`, `assembled` | violations, section 10 | one property each | where the code and its text disagree |

Every property has a mutant in `PROJECT.json`: a small change of a modelled definition under which the run
finds it violated. Deadlock is not checked anywhere (`CHECK_DEADLOCK FALSE`): runs, sessions and ticks end.

Together: an admitted trade is never overfilled whatever replies are lost, since a placement without an answer
ends its job and placement for the run; reports say `unknown` instead of guessing; a cancel is sent once. A
call reaches its server at most once, and what is recorded of an action is never contradicted. A working
order that was linked is never forgotten by the ledger, whatever the order of its reads. Across ticks, a run
gets one session, recovery never calls an order failed that may still reach the broker, and overlapping
sessions need both a lost connection and an agent's choice of an early next run. Capacities hold on the
account as the broker last balanced it, up to cash that settled meanwhile. An agent is prompted only with
its account checked; its output is the best it gave and later than all it ordered. The owner gets one mail for
a slot, and it says what the ledger keeps.

## 9. Proofs

Assumptions are the `ASSUME`s of the modules, nothing else.

`OrderWalkProofs`. The properties are not inductive: that `filled` is true needs to know, for each `pc`,
what the broker may still do to the current order and to all earlier ones. `IInv` says so in named
parts: types; orders beyond the current step do not exist; earlier ones are terminal and their fills add up
to `filled` while `position` adds the current order's; what `seen`, `cancelSent` and `outcome` imply
about the broker at each `pc`; who may hold the lock; what compatible jobs at work look like; what an
ended job's status says. `Invariance` is Init, one step per action, and PTL. `TypeCorrect`,
`NeverOverfilled`, `NeverTwoOpen`, `OutcomesTrue`, `CancelledOnce`, `ClosesOnly` and `NothingAfterStop`
follow from it for any jobs, contracts, quantities and numbers of steps.

The second half of `OrderWalkProofs` shows that `OrderWalk` implements `TradePromise`: every action maps to a step of
the promise or to a stutter, under the same invariant (`PromiseKept`).

`TickProofs`. Here `IInv` rests on one fact, that a connection holds the lock (`Locked`), so that at most
one process writes; the rest says what the ledger keeps of a run (`RunInv`), that a sell run follows its
close run (`SellAfterClose`), what a session knows of its call whether or not it still has its lock
(`SessionInv`), that no two sessions share a run (`Apart`), and what the connected process knows of the run
it executes (`Holds`). An action shows `Kept`, from which `IInv` follows for the other processes.
`TypeCorrect`, `StartedOnce` and `OutcomesKnown` hold for any number of fires, any calendar and any
budgets and gaps in the settings' order.

`ToolCallsProofs`. For any calls, caps and repetitions of the CLI's messages: `CallsTyped`, `CallReachesOnce`,
`SpawnsWithinCaps` and `CallOutcomeStands` (an action property). `IInv` has a part for every call (`CallInv`:
what hooks, dispatch and server know agrees), one for actions (`ActionInv`) and one for Mignons (`SpawnInv`).
The difficult conjunct is of an action that is recorded as failed while the proxy has not taken it: it is
over for the CLI, and either nothing is on the wire or the stop latch is set, so it will never be forwarded.
That is what the ordered pipe between CLI and program, and the order of `watch` (latch first, then interrupt),
are for. `StatusOfConcat` and `RecordsOne` say what an appended event does to the projected status.

The second half of `TickProofs` is about the schedule. `SInv` adds: the gate passes in the run's own slot
(`GateAt`, `SlotTime`); a connected process has the newest schedule in hand (`HoldsSchedule`, `Newest`); a
scheduled slot has waited for all earlier ones (`Spaced`), from which follows that two slots' sessions can
only meet if an agent's binding choice lies between them (`ApartSlots`); each slot is capped for an
unfilled order before its run ends, unless the cap could not be recorded (`OrderInv`), and the fallback
of a scheduled slot leads to an open time, while no binding time passes the maximum gap (`Bounded`). The fallback outlasting both budgets is the assumption all
this rests on, and the settings enforce it. `ScheduleIsRespected`, `OverlapsAreBound` and `UnfilledIsCapped`
hold for any calendar, times asked for and number of fires.

Credentials, at the beginning of `SessionProofs`. `LossKnown` (when the stored pair is useless, somebody knows) is not inductive. `CredInv`
adds that a pair on its way from the exchange to the database is in one tick's hands and nowhere else
(`Private`), that whatever is held or stored was issued (`Issued`, `InHand`), and that the tick that consumed the
latest stored pair answers for it until it stores the next, reports, or fails or dies before it could
(`LossAnswered`, `abandoned`). For any number
of ticks and pairs: `LossIsKnown`, `UnsavedIsPrivate`.

`SessionProofs` is about `MCSession`: one invariant for each part, and that a step of one part leaves the others.
* `TalkInv`: turns that check or repair an output come last, with the tools closed and no work under way, so
  the output is later than every order; the effective output is the last one until a better is restored.
* `StartInv`: each fact of the session's start that was read is true of the account, the outcome is the one the
  facts give, and on a route with orders the account is checked before the prompt.
* `CacheInv`: an entry is of a recorded search, and nothing recorded or looked up is later than the clock. The
  refusal, the payment and what a lookup shows then follow from ages.
* `PlanInv`: rounding favours the trader, so a step never concedes more than the linear walk, and prices
  between the exact ends are strictly monotone. This is arithmetic with `\div` for all prices and tick sizes.
* `NoticesInv`: while a run is at work its row is open unless the connection is gone (`RowsOpen`); final rows do
  not change, and what the process remembers of a finished run is what its row says (`SaidOnce`); what an audit
  is worth is what its stored findings are (`AuditsKept`); what was found was told where it was found, unless the run is on its way to failed by an exception (`Told`).
* `SimInv`: the ref_id of a fill names it, a position's change is the sum of its fills, and no fill closes more
  than was read and filled before it; the probe sees what the model is shown, but for a row that lists no short
  position. The sum over a longer sequence is the old one plus the last change
  (`NetOfNext`, by `SumLemmas`), and stays what it was for the earlier fills (`NetAgrees`).

`SessionIsSound`, `PlanIsKept`, `NoticesAreSound`, `SimBookIsTrue` and `SessionIsTyped` follow, the last one with the
invariants of `ToolCallsProofs` and of the credentials.

`EvidenceProofs` is about `MCEvidence`, for any accounts, rules, jobs, prices and markets.
* `SizingIsSound`. The facts combine an account snapshot, positions and orders read at different moments, and
  nothing relates two such reads by itself. `SizeInv` has what does: settled cash, but for what arrives, only
  goes down, so a later snapshot shows no more (`Snapshots`); proceeds not settled at the start are unsettled or
  have arrived (`Pending`); the account holds no more than it has settled (`Solvent`); and a read that is current
  shows the present (`AsNow`). From these, by arithmetic alone: the reserve covers what the broker held, the caps
  hold on what is sent, the capacity is the largest number of contracts the caps allow (a quotient, rounded
  down), and the audit's verdict is about the same amounts.
* `SizingIsSound`, for the results the facts rest on. A fact set names places in a record that only grows, so what
  it says of them when it is stored stays true (`FactStays`). Only its baseline is compared with what is recorded
  since: an options read identified late may take the place of a later one as the run's first, and it is older,
  since times in the record do not go back (`RecordTyped`). `FactsInv` also carries that a set of places has a first
  and a last one: adding a result keeps this, so that no induction over finite sets is needed.
* `GateIsSound`, for a leg. `LegInv`: quotes describe times that have been, and the last order let through met
  every filter at two of them within the ages. Appending to the market changes no earlier time.
  `FactsAreTheSame`: check and metric rest on the same evidence, whatever was recorded.
* `GateIsSound`, for the gate. `FundedTogether` is not inductive: what working closes still cost says nothing of
  what the next snapshot will show. `GateInv` says that a snapshot no settled fill has overtaken shows at most
  the funds and what the working closes have spent of their cost (`Covered`): a fill lowers the funds and raises
  the spent by the same price, and a settlement with fills marks the snapshot. A placement beside others is
  debited with `Worst * Left` of each of them, which is no less than what they cost, since a job works on one
  order at a time, of all that is left of it (`OneByOne`, `RowIsWithin`, `CostIsDebited`); so all that is
  outstanding, the new order included, is within the funds. `RollsWithinFills` compares sums over steps: what is
  known of fills is no more than the fills, what is taken no more than what was asked.

`BooksProofs` is about `OrderLedger`, for any orders, contracts, calls and clocks. What can be asked of the
projections is only as good as what the events are, and they come in any order. `BooksInv` says of each order what
its versions at the broker are (`BrokerInv`: times and fills grow, nothing follows a terminal one); that a status
is that of a version (`StatusesInv`); that a fill is one of the two reports of a version, under a key of its own,
and that a version whose status is recorded has one of its reports recorded whole (`FillsInv`: a read's status and
fills are written together, whichever of the two reports it gives); that a confirmed cancellation is of an order that is over (`CancelsInv`); that a call's snapshot shows a prefix of each
order's versions and, if it is complete, every order older than it, up to the clocks (`SnapshotInv`); that an intent
resolved as "no order" was resolved by a snapshot too late to miss its order (`PlacingInv`); and that entries of
one job are in one lineage (`Together`), which linking keeps order by order (`LinkedExists`: the recursive function
that links the oldest order first is defined on every finite set of orders). The assumption `ClocksAssumption` is
that the margin the code leaves for the broker's clock (`NO_ORDER_CLOCK_MARGIN`) covers its lag; without it a late order
is ruled out. `TerminalStays`: the latest recorded status is that of the last version once any recorded one is
terminal, since records only grow; from this `NeverBackwards`, of the ledger alone (`StatusNeverBackwards`) and of
`MCEvidence` (`TerminalIsFinal`).

The second half of `BooksProofs` is about `Lineages`, for any fills, rolls, decisions and numbers of events. Four of the histories the
properties compare with (`rolled`, `vague`, `holds`, `pinned`) are what a reader of the calls would remember;
`LineInv` says what they are of the events: each event has a key of its own, which names what it says
(`EventGood`); only a gap is superseded, by a later reconciliation; a note of a decision to open rests on an entry
fill; a question not settled is a gap in effect (`OpenGap`); what is held is what the last event that says so left
(`LastSet`); the pinned note is the first (`FirstOpenNote`). One lemma (`LineAfter`) covers a call that appends one
event, or nothing because its key is known; the notes of a run, a recursive function over its decisions, are by
induction over their number (`NotesWritten`). Then: orders of different rolls differ, so replacement orders and rolls
correspond one to one (`RollsAreCounted`); of the notes, those with fewer than `MaxNotes` later ones are at most
`MaxNotes`, as their ranks differ (`NewestFew`); and a part of the executions adds up to no more than all of
them (`SumOfPart`), which `FillsAssumption` bounds by what the order filled.

`EvidenceProofs` joins all six parts in `EvidenceInv`: `BooksAreSound`, `EvidenceIsTyped`, `TerminalIsFinal`.

`RecordProofs` is about `MCRecord`; its three parts do not meet, so each has its own invariant.
* Research: `ResearchInv`, for any Mignons, briefs, reports, patches and extracts. `ReportsSound` is not inductive:
  it is about what was handed back, and says nothing of the draft it was made from. `DraftTrue` says that the findings of a
  draft and the ones dropped from it are those of the report first sent, each once, and that a finding nobody
  patched is as it was sent; `ReplyInv` what a last text may be in each stage; `SourceInv` that what the hooks
  remember as delivered was; `AcceptedInv` on what an accepted finding rests, which may be another Mignon's task.
  Places that are kept stay in their order: `InOrderKeeps` says so of any finite set of numbers, by counting the smaller
  ones (`Ranked`), so that what a patch and a salvage keep needs no induction over reports. `GapsAreTrue`: a
  value wanted is a gap exactly if no finding gives it.
* The order sequence: `SequenceInv`, for any number of reads and contracts. What is known of an order is a version it once
  had (`Past`), so a sight of all orders stays a past of the broker's (`Known`), and shows what was always there
  (`Shown`); what the dispatch found is what the broker has for the rest of the behaviour (`JudgedInv`). That the
  audit clears nothing that was not follows since a terminal past is the present, and since a read in flight at the
  dispatch that shows the order makes it unknown.
* The record: `AsmInv`, for any jobs, positions and outputs. `OrdersInv` ties a call, its order at the broker and
  its status in the ledger; `ConfirmedInv` and `IdleInv` that a confirmed cancel is of this run's order and that a dry
  run made no call. Then each part of `RecordTrue` and `AuditFair` is about one output: a call is attributed once, because
  a decision claims it alone (`AttemptsHaveOneHome`); the legs of an output rank apart (`RanksAre`), the recursive
  function of their quantities exists (`QuantitiesAre`, from the least rank that can be given one), so exactly the first
  is intended (`OneIsIntended`); and what the reference check accepts has its action's legs (`FittingRoles`,
  `ShapesAreGood`), so the audit is left with what that check does not see, which `HeardBeforeAccused` lists (`HeardIsFair`).

`ReportsAreSound`, `OrderAuditIsSound`, `RecordIsSound` and `RecordIsTyped` follow.

`SumLemmas` has what the proofs of the evidence, the lineages, the record and the simulated venue need of `SumFunctionOnSet`, a fold: it is a recursive function, so first
that it exists, then that it does not depend on which element is taken, and from that how a sum changes with
one value, compares with another, splits, and adds up rows. Induction is used as a fact about sets: a set of
subsets of S that has {} and every T whose `T \ {x}` it has is `SUBSET S` (`SubsetsByStep`, from the
well-founded order of the naturals), since the library's induction theorems over operators are of no use here.
`OrderGate` adds up functions of a pair <<job, step>> in the form these lemmas are about.

Of the liveness properties the safety half is proved, for all constants: nothing goes round in circles. Each theorem
has a number that every step of the actor's own makes smaller and that no other step (the broker, the stop latch, a
failure, another job or fire, the clock) ever makes larger.

- `JobsRunDown` (for `JobsEnd`): 13 for every step of the walk that is left, and the rank of `pc` within a step. A
  job's own actions, a `CloseStep` that goes on included, are at most 13 * MaxSteps + 12.
- `TickRunsDown` (for `LockFreed`): 24 while the sell run is still to come, the rank of `pc` within a run, and in a
  session what its one order call still has before it. A fire is done after at most 47 of its steps. It needs that a
  process turns from the close to the sell run once (`ClosesFirst`), and that no other fire, a recovery of the same
  slot included, takes a call or a known fill out of the ledger (`OrdersGrow`).
- `TalkRunsDown` (for `TalkEnds`): 4 for every follow-up turn that is left of any kind, and the rank of `phase`; beside
  it the jobs that run or may still be started, which the loop waits for.

Model-checked only: the rest of liveness (`JobsEnd`, `LockFreed`, `TalkEnds`), that is that an actor which is not done
has a step it can take and, by fairness, takes it, since fairness and ENABLED are outside the prover; and the runs of
section 10, each of which is a counterexample.

## 10. Disagreements between the source and its text

* `retry` (`orchestrator/schedule.py:5`): "a run that crashes or returns no valid output is retried on
  the old hourly cadence". Only the close run records a fallback, and a later time the close agent chose
  replaces it also when the sell run then fails.
* `confirm` (`agent/broker_ledger.py:389`): "A terminal read confirms every earlier cancel request". The
  confirmation is dated by the broker's `updated_at`, the request by the ledger's clock; if the broker was
  faster than the reply, or its clock is behind, the projection keeps "pending".
* `relink` (`agent/broker_ledger.py:13`): "buy-to-close fills link to the active lineage holding that contract".
  Each complete read links old fills again, so an old close joins a new lineage on its contract.
* `reuse` (`integrations/robinhood/oauth.py:8`): the old refresh token is "never presented again". The next tick
  presents it again when the exchange failed or the new pair was not saved.
* `replacement` (`prompts/wheel_close.v3.md:230`): a walk retries "for each price step". The gate counts a
  replacement's own unfilled steps at full size, so its second step is denied.
* `assembled` (`domain/run_record.py:268`): "never a reason to drop an action". An opening whose closing decision
  records no leg makes the validator raise, and the run has no record.

Observed while modelling, without a run:

* `agent/order_walk.py:540`, `halt`: "no job places anything more". A job past its checks and waiting for the
  account read still places one order, and cancels it at once. `order_walk.py:708`: "No new step once any
  order action of the run has an unknown outcome": placement ends only when the reads after the unknown
  cancel are over. `order_walk.py:835`: "never place past the window": the account read after that check may
  outlast the window. `order_walk.py:987` describes a branch no caller reaches.
* `domain/order_concurrency.py`: it "can deny a close that would have fit, never allow one that does not". It
  can when the account read fails or was overtaken by fills settled since (`FundedTogether` says exactly when).
* A stop or the end of the budget during a reference turn leaves the last reply effective, also when it is
  worse than the one it was to improve.
* `OrderLedger`: an intent may be resolved "no order" by a read taken before the broker took the order; a stale
  complete positions read closes a lineage opened by a later fill; two lineages on one contract both take over
  the whole quantity; a cancel whose reply was lost records nothing, so `cleanup_action` says CANCEL again.
* `wait_all` does not wait for an admitted call whose job never started. An interrupted run is recovered only
  by a fire of its own slot. A call whose dispatch could not be recorded stays `requested` in a finished run.
* `SimulatedBroker`: a contract listed on a later page is added on the first page too; a simulated-cancelled real
  order may later read filled; a short position sold on a contract whose row the broker still lists as closed is not
  shown, though the start probe counts it; `real_short` is stale when a row vanishes.
* `SessionStart`: an exception that is no `Exception` leaves NOT_STARTED, so that nothing is recorded; a live run
  of the wheel role with Robinhood served directly is prompted without the account check.
* Audit: `broker_states` trusts a composed state when the orders read is later than the last order action, so
  V7.3 may pass on positions that predate a fill; the total ratio (V7.4) is never verifiable on live snapshots.
* `Assembly`: a contradictory cancel is found only if the owning decision comes earlier in the output; a place
  that failed without an intent yields an issue the agent cannot mend.
* `agent/ledger_adapters.py:3`: every Tier S target is unverified, so the hook denies before consulting the
  adapters. In `agent/hooks.py:249` most are verified, so an allowed `create_scan` reaches `by_name`, which raises:
  the hook denies and stops the run. Nothing records workspace creates, so every update is denied as not owned.
* `FactsTool`: `combine_positions` takes reads that hold both halves, but no mapper makes one. A newer options read
  with one contract not yet identified is passed over for an older one, without a gap that says so; if that is
  within the age limit, the facts count what was held before. A contract that was read before the board's rows
  keeps the origin `robinhood` and is never compared with them.
* `WebCache`, "no research is lost": keys are case-folded but ticker tags are not, so "AAPL earnings", refused
  because of "aapl earnings", is found by no lookup; a refused repeat is readable only if its query names a
  ticker and it is among the newest, and may expire before the lookup.
* Page extracts: a repeat by the same Mignon is compared as spelled, so another spelling (or two parallel calls)
  is extracted and paid again; simultaneous rate limits of two Mignons use up a page's one retry. A patch sent
  after the stop latch is not applied; the report before it is used.
* V3: a failed review yields no observation, so every later unmatched place is unverifiable, never "bad". V4:
  positions managed twice or not at all, and dry-run decisions that do not propose every leg, are held against
  an output although the reference check never mentions them. So is a cancel that was denied, whatever the output
  says of it, and a place that has no intent. V6: `broker_ledger.py:244` records a total only
  when it is positive, so a step cancelled unfilled leaves the step after it unverifiable though the read proves
  zero fills; a read in flight at the dispatch makes an order already proven terminal a violation.
* `Lineages`: `record_roll`, `record_assignment` and `record_gap` have no live caller, so a live roll closes one
  lineage and opens another. `record_roll` accepts what the validator of `RollEvent` rejects. An opening whose
  fill is first read after its run is final gets no entry note.
* `Notices`: a crash between finalize and `_finish_tick` loses the slot's heartbeat, mail and sheet rows, since a
  re-fire finds the runs final; a recovered run never mails. `audit_status` is keyed and the first one stands, so
  the verdict of a recovery's audit may be dropped though its findings are stored. Without a record the
  recovery's audit repeats the finding ids and counts as failed (`orchestrator/main.py:1748`). `COMPLETED` does
  not imply a stored record. `recover` uses the settings of now, not those of the run.

## 11. Not modelled

Parsing and validation of payloads (`robinhood_mappers`, `wheelta_mappers`, `result_boundary`), the evidence
rows, rendering, summaries and traces, prompts, configuration, logging and migrations are translation of one
value into another: no step of another actor can come between, and a model of them would repeat the code
field by field. They are about two fifths of the implementation, which is the main reason the map covers
less of it than of the control. Not modelled yet, though they hold state: the workspace's objects and the
trade sheet.

Within modelled parts: the clock's windows of a walk are choices; the calendar is a set of open times; dry
runs, alerts, heartbeat and mail change no state `Tick` keeps (`Notices` has them); rolls, assignments, gaps and corrections of
positions are recorded by no live run; a refreshed access token is used whatever its lifetime; exchange of
Decimals for integers assumes results that land on ticks are exact.
