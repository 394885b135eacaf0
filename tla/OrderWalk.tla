----------------------------- MODULE OrderWalk -----------------------------
(***************************************************************************)
(* The code-run order walk (agent/order_walk.py, ADR-0066).                *)
(*                                                                         *)
(* The agent asks for a trade with one `work_option_order` call.  The      *)
(* hooks admit the call, OrderWorkRunner.start makes it a WalkJob, and the *)
(* job works the trade alone: per step a quote, a review, one placement,   *)
(* a wait, one cancel, and reads until the order is terminal.  Several     *)
(* jobs run as tasks of one event loop; they share the placement lock, the *)
(* run's stop latch, the `_halted` flag and `placement_ended`.             *)
(*                                                                         *)
(* An action is what a task does between two awaits.  The broker is        *)
(* another actor: it accepts, fills, closes and cancels orders at any time *)
(* and its replies may be lost.  Prices, the clock and the wording of      *)
(* reasons are left out: a check of theirs that may fail is a choice.      *)
(***************************************************************************)
EXTENDS Naturals, FiniteSets

CONSTANTS
  Jobs,         \* the work_option_order calls of the run; a job is named by its call
  MaxSteps,     \* orders.walk.max_steps: the most prices a job walks through
  Target,       \* [Jobs -> Nat]: WorkRequest.quantity
  Contract,     \* [Jobs -> contracts]: WorkRequest.option_id
  Opening,      \* the jobs whose side is sell to open
  PartialStop,  \* orders.partial_fill = stop
  MaxCancels    \* bound: cancel requests (job's and agent's) sent for one order

ASSUME OrderWalkAssumption ==
  /\ MaxSteps \in Nat \ {0}
  /\ Target \in [Jobs -> Nat \ {0}]
  /\ Opening \subseteq Jobs
  /\ PartialStop \in BOOLEAN
  /\ MaxCancels \in Nat \ {0}

VARIABLES
  stop,            \* RunControl.stop_requested: the irreversible latch
  halted,          \* OrderWorkRunner._halted: the session ended
  cancelled,       \* the runner's task group was cancelled
  placementEnded,  \* OrderWorkRunner.placement_ended
  pc,              \* where each job's task is suspended
  status,          \* WalkJob.status, "none" before start
  filled,          \* WalkJob.filled_quantity: the fills the job counted
  index,           \* the step being walked
  seen,            \* WalkStep.order_status; "none" while no broker id is known
  cancelSent,      \* WalkStep.cancel_sent
  differs,         \* the broker's order is not the one sent (_placed_matches)
  outcome,         \* what the cancel call returned, as the reads that follow know it
  orders,          \* the broker: one order per job and step
  position         \* the broker: contracts executed for each job

runVars == <<stop, halted, cancelled>>
stepVars == <<index, seen, cancelSent, differs, outcome>>
brokerVars == <<orders, position>>
vars == <<runVars, placementEnded, pc, status, filled, stepVars, brokerVars>>

Steps == 1 .. MaxSteps
OrderState == {"none", "sent", "working", "filled", "cancelled", "rejected"}
TerminalOrder == {"filled", "cancelled", "rejected"}
WalkStatus == {"none", "working", "filled", "partially_filled", "cancelled", "stopped", "unknown"}
PcValue == {"idle", "reserved", "step", "quote", "review", "lock", "acct", "placing",
            "wait", "canceling", "confirm", "salvage", "done"}
Order == [st : OrderState, qty : Nat, filled : Nat,
          cancel : {"none", "sent", "accepted", "refused"}, cancels : Nat]

NoOrder == [st |-> "none", qty |-> 0, filled |-> 0, cancel |-> "none", cancels |-> 0]

TypeOK ==
  /\ stop \in BOOLEAN /\ halted \in BOOLEAN /\ cancelled \in BOOLEAN
  /\ placementEnded \in BOOLEAN
  /\ pc \in [Jobs -> PcValue]
  /\ status \in [Jobs -> WalkStatus]
  /\ filled \in [Jobs -> Nat]
  /\ index \in [Jobs -> 1 .. MaxSteps + 1]
  /\ seen \in [Jobs -> OrderState \ {"sent"}]
  /\ cancelSent \in [Jobs -> BOOLEAN]
  /\ differs \in [Jobs -> BOOLEAN]
  /\ outcome \in [Jobs -> {"none", "accepted", "refused", "unknown"}]
  /\ orders \in [Jobs -> [Steps -> Order]]
  /\ position \in [Jobs -> Nat]

Init ==
  /\ stop = FALSE /\ halted = FALSE /\ cancelled = FALSE /\ placementEnded = FALSE
  /\ pc = [j \in Jobs |-> "idle"]
  /\ status = [j \in Jobs |-> "none"]
  /\ filled = [j \in Jobs |-> 0]
  /\ index = [j \in Jobs |-> 1]
  /\ seen = [j \in Jobs |-> "none"]
  /\ cancelSent = [j \in Jobs |-> FALSE]
  /\ differs = [j \in Jobs |-> FALSE]
  /\ outcome = [j \in Jobs |-> "none"]
  /\ orders = [j \in Jobs |-> [i \in Steps |-> NoOrder]]
  /\ position = [j \in Jobs |-> 0]

----------------------------------------------------------------------------
(* State the guards read                                                   *)

Stopping == halted \/ stop

Active(j) == status[j] = "working"

\* active_jobs: unfinished jobs and admitted calls whose job has not started.
AtWork == {j \in Jobs : pc[j] \notin {"idle", "done"}}

\* placing(): the lock is held from its acquisition to the end of the place call.
Placing == \E j \in Jobs : pc[j] \in {"acct", "placing"}

\* Mutant of Compatible: the sides are not compared.
CompatibleIfApart(j, others) == \A k \in others : Contract[j] # Contract[k]

\* check_concurrency beside other work: only closes, on different contracts.
Compatible(j, others) ==
  \A k \in others : j \notin Opening /\ k \notin Opening /\ Contract[j] # Contract[k]

\* Mutant of GateOpen: placement_ended is left to the job's own check.
GateWithoutPlacementEnded(j) == ~stop /\ Compatible(j, AtWork \ {j})

\* What the hooks' decide() requires of every placement.
GateOpen(j) == ~stop /\ ~placementEnded /\ Compatible(j, AtWork \ {j})

\* Mutant of Remaining: every step asks for the whole quantity.
WholeTarget(j) == Target[j]

Remaining(j) == Target[j] - filled[j]

Final(j, count) ==
  IF count >= Target[j] THEN "filled" ELSE IF count > 0 THEN "partially_filled" ELSE "cancelled"

Current(j) == orders[j][index[j]]

----------------------------------------------------------------------------
(* Pieces of a job's step                                                  *)

\* Mutant of EndJob: an unknown end leaves placement open.
EndJobQuietly(j, st, endsPlacement) ==
  /\ pc' = [pc EXCEPT ![j] = "done"]
  /\ status' = [status EXCEPT ![j] = IF st = "cancelled" /\ filled'[j] > 0
                                     THEN "partially_filled" ELSE st]
  /\ placementEnded' = (placementEnded \/ endsPlacement)

\* _run's handlers and _end: nothing is awaited between the exception and the end.
EndJob(j, st, endsPlacement) ==
  /\ pc' = [pc EXCEPT ![j] = "done"]
  /\ status' = [status EXCEPT ![j] = IF st = "cancelled" /\ filled'[j] > 0
                                     THEN "partially_filled" ELSE st]
  /\ placementEnded' = (placementEnded \/ endsPlacement \/ st = "unknown")

\* The same, where nothing else of the state changes.
JustEnd(j, st) ==
  /\ UNCHANGED <<runVars, filled, stepVars, brokerVars>>
  /\ EndJob(j, st, FALSE)

Goto(j, where) ==
  /\ pc' = [pc EXCEPT ![j] = where]
  /\ UNCHANGED <<status, placementEnded>>

\* A cancel request of the step's order leaves for the broker.
CancelOnWire(j, i) ==
  orders' = [orders EXCEPT ![j][i].cancel = "sent", ![j][i].cancels = @ + 1]

\* Mutant of Settle: what a cancelled order filled before its cancel is lost.
SettleFilledOnly(j) ==
  filled' = [filled EXCEPT ![j] = @ + (IF Current(j).st = "filled" THEN Current(j).filled ELSE 0)]

\* _settle: count the terminal order's fills, once.
Settle(j) == filled' = [filled EXCEPT ![j] = @ + Current(j).filled]

----------------------------------------------------------------------------
(* The run and the session                                                 *)

\* RunControl.request_stop: a signal, the deadline, or a failed recording.
Stop ==
  /\ ~stop
  /\ stop' = TRUE
  /\ UNCHANGED <<halted, cancelled, placementEnded, pc, status, filled, stepVars, brokerVars>>

\* OrderWorkRunner.halt, from the session's finally block.
Halt ==
  /\ ~halted
  /\ halted' = TRUE
  /\ UNCHANGED <<stop, cancelled, placementEnded, pc, status, filled, stepVars, brokerVars>>

\* An exception while the session's exit stack unwinds cancels the task group.
CancelGroup ==
  /\ halted /\ ~cancelled
  /\ cancelled' = TRUE
  /\ UNCHANGED <<stop, halted, placementEnded, pc, status, filled, stepVars, brokerVars>>

\* The hooks admit a work_option_order call and reserve its place.
Reserve(j) ==
  /\ pc[j] = "idle"
  /\ GateOpen(j)
  /\ Goto(j, "reserved")
  /\ UNCHANGED <<runVars, filled, stepVars, brokerVars>>

\* The admitted call fails or is refused by start(): its reservation is dropped.
Release(j) ==
  /\ pc[j] = "reserved"
  /\ Goto(j, "done")
  /\ UNCHANGED <<runVars, filled, stepVars, brokerVars>>

Start(j) ==
  /\ pc[j] = "reserved"
  /\ pc' = [pc EXCEPT ![j] = "step"]
  /\ status' = [status EXCEPT ![j] = "working"]
  /\ UNCHANGED <<runVars, placementEnded, filled, stepVars, brokerVars>>

----------------------------------------------------------------------------
(* One step of the walk, up to the placement                               *)

\* The top of _walk's loop.
BeginStep(j) ==
  /\ pc[j] = "step"
  /\ \/ /\ index[j] <= MaxSteps /\ ~Stopping /\ ~placementEnded
        /\ Goto(j, "quote")
        /\ UNCHANGED <<runVars, filled, stepVars, brokerVars>>
     \/ /\ index[j] <= MaxSteps /\ (Stopping \/ placementEnded)
        /\ JustEnd(j, "stopped")
     \/ \* The prices are used up, or no time is left for another step.
        /\ index[j] > MaxSteps \/ (~Stopping /\ ~placementEnded)
        /\ JustEnd(j, Final(j, filled[j]))

\* The quote is read: usable, refused or stale (stopped), or moved away (cancelled).
ReadQuote(j) ==
  /\ pc[j] = "quote"
  /\ \/ Goto(j, "review") /\ UNCHANGED <<runVars, filled, stepVars, brokerVars>>
     \/ \E st \in {"stopped", "cancelled"} : JustEnd(j, st)

\* review_option_order is Tier X: the gate refuses it after the latch.
Review(j) ==
  /\ pc[j] = "review"
  /\ \/ ~stop /\ Goto(j, "lock") /\ UNCHANGED <<runVars, filled, stepVars, brokerVars>>
     \/ JustEnd(j, "stopped")

\* admit, the proxy's own latch check and the intent record, up to the upstream call.
SendPlacement(j) ==
  \/ /\ GateOpen(j)
     /\ orders' = [orders EXCEPT ![j][index[j]] =
                     [NoOrder EXCEPT !.st = "sent", !.qty = Remaining(j)]]
     /\ Goto(j, "placing")
     /\ UNCHANGED <<runVars, filled, stepVars, position>>
  \/ \* Denied by the gate (the latch, placement_ended, funds, pre-trade validation).
     JustEnd(j, "stopped")
  \/ \* Admitted, not forwarded: the intent was not recorded, or the latch fell meanwhile.
     /\ ~stop /\ stop' = TRUE
     /\ UNCHANGED <<halted, cancelled, filled, stepVars, brokerVars>>
     /\ EndJob(j, "stopped", FALSE)

\* _place takes the lock and checks again; beside other work it first reads the account.
TakeLock(j) ==
  /\ pc[j] = "lock" /\ ~Placing
  /\ \/ (Stopping \/ placementEnded) /\ JustEnd(j, "stopped")
     \/ ~Stopping /\ ~placementEnded /\ JustEnd(j, Final(j, filled[j]))  \* no time left
     \/ /\ ~Stopping /\ ~placementEnded /\ AtWork # {j}
        /\ Goto(j, "acct")
        /\ UNCHANGED <<runVars, filled, stepVars, brokerVars>>
     \/ ~Stopping /\ ~placementEnded /\ AtWork = {j} /\ SendPlacement(j)

\* The account read returned, whatever it says; the placement follows without an await.
PlaceBesideOthers(j) == pc[j] = "acct" /\ SendPlacement(j)

\* Mutant of PlaceSucceeds: the step goes on before the broker has answered.
PlaceTakenAtOnce(j) ==
  /\ pc[j] = "placing"
  /\ seen' = [seen EXCEPT ![j] = Current(j).st]
  /\ Goto(j, "wait")
  /\ UNCHANGED <<runVars, filled, index, cancelSent, differs, outcome, brokerVars>>

\* The placement returned one order with its id.
PlaceSucceeds(j) ==
  /\ pc[j] = "placing"
  /\ Current(j).st # "sent"
  /\ seen' = [seen EXCEPT ![j] = Current(j).st]
  /\ \E d \in BOOLEAN : differs' = [differs EXCEPT ![j] = d]
  /\ Goto(j, "wait")
  /\ UNCHANGED <<runVars, filled, index, cancelSent, outcome, brokerVars>>

\* Mutant of PlaceUnknown: a placement without an answer counts as not sent.
PlaceCalledUnsent(j) == pc[j] = "placing" /\ JustEnd(j, "stopped")

\* The placement errored, timed out or answered unusably: the order's id stays unknown.
PlaceUnknown(j) == pc[j] = "placing" /\ JustEnd(j, "unknown")

----------------------------------------------------------------------------
(* The wait, the cancel and the settlement                                 *)

\* One poll of _wait_for_fill; a failed read keeps the last status.
PollOrder(j) ==
  /\ pc[j] = "wait" /\ ~differs[j] /\ seen[j] = "working"
  /\ Current(j).st # "working"
  /\ seen' = [seen EXCEPT ![j] = Current(j).st]
  /\ UNCHANGED <<runVars, placementEnded, pc, status, filled,
                 index, cancelSent, differs, outcome, brokerVars>>

\* What _walk does once the step's order is terminal: count it, then end or go on.
CloseStep(j) ==
  /\ Settle(j)
  /\ UNCHANGED <<runVars, differs, outcome, brokerVars>>
  /\ \/ /\ differs[j]
        /\ EndJob(j, "unknown", TRUE)
        /\ UNCHANGED <<index, seen, cancelSent>>
     \/ /\ ~differs[j]
        /\ filled'[j] >= Target[j]
        /\ EndJob(j, "filled", FALSE)
        /\ UNCHANGED <<index, seen, cancelSent>>
     \/ /\ ~differs[j]
        /\ filled'[j] < Target[j]
        /\ Current(j).st = "rejected" \/ Stopping
        /\ EndJob(j, "stopped", FALSE)
        /\ UNCHANGED <<index, seen, cancelSent>>
     \/ /\ ~differs[j]
        /\ filled'[j] < Target[j] /\ filled'[j] > 0
        /\ Current(j).st # "rejected" /\ ~Stopping /\ PartialStop
        /\ EndJob(j, "partially_filled", FALSE)
        /\ UNCHANGED <<index, seen, cancelSent>>
     \/ /\ ~differs[j]
        /\ filled'[j] < Target[j]
        /\ Current(j).st # "rejected" /\ ~Stopping /\ ~(PartialStop /\ filled'[j] > 0)
        /\ Goto(j, "step")
        /\ index' = [index EXCEPT ![j] = @ + 1]
        /\ seen' = [seen EXCEPT ![j] = "none"]
        /\ cancelSent' = [cancelSent EXCEPT ![j] = FALSE]

\* _settle refuses a fill quantity that does not fit the order: the outcome is unknown.
Inconsistent(j) == JustEnd(j, "unknown")

\* _wait_for_fill returns a terminal order.
EndWait(j) ==
  /\ pc[j] = "wait" /\ seen[j] \in TerminalOrder
  /\ CloseStep(j) \/ Inconsistent(j)

\* The step's wait or the run is over with the order still working: cancel it once.
\* When the latch falls between the gate and the send, nothing left, and the call is
\* made again as the after-stop cancel (second disjunct).
SendCancel(j) ==
  /\ pc[j] = "wait" /\ seen[j] = "working"
  /\ \/ /\ ~cancelSent[j]
        /\ \/ UNCHANGED stop
           \/ ~Stopping /\ stop' = TRUE
        /\ CancelOnWire(j, index[j])
        /\ cancelSent' = [cancelSent EXCEPT ![j] = TRUE]
        /\ Goto(j, "canceling")
        /\ UNCHANGED <<halted, cancelled, filled, index, seen, differs, outcome, position>>
     \/ \* Not forwarded, as its intent was not recorded: only the reads follow.
        /\ ~cancelSent[j]
        /\ stop' = TRUE
        /\ outcome' = [outcome EXCEPT ![j] = "refused"]
        /\ Goto(j, "confirm")
        /\ UNCHANGED <<halted, cancelled, filled, index, seen, cancelSent, differs, brokerVars>>
     \/ JustEnd(j, "unknown")  \* refused (the source is withheld), or already sent

\* The cancel call returned; the reads that follow run in every case.
CancelReturns(j) ==
  /\ pc[j] = "canceling"
  /\ \E result \in {"accepted", "refused", "unknown"} :
       /\ result # "unknown" => Current(j).cancel = result
       /\ outcome' = [outcome EXCEPT ![j] = result]
  /\ Goto(j, "confirm")
  /\ UNCHANGED <<runVars, filled, index, seen, cancelSent, differs, brokerVars>>

\* Mutant of Confirm: an accepted cancel is taken for a cancelled order, unread.
ConfirmUnread(j) == pc[j] = "confirm" /\ outcome[j] = "accepted" /\ CloseStep(j)

\* A read finds the order terminal.  Without an accepted cancel, placement ends.
Confirm(j) ==
  /\ pc[j] = "confirm" /\ Current(j).st \in TerminalOrder
  /\ \/ outcome[j] = "accepted" /\ CloseStep(j)
     \/ /\ outcome[j] # "accepted"
        /\ Settle(j)
        /\ UNCHANGED <<runVars, stepVars, brokerVars>>
        /\ EndJob(j, Final(j, filled'[j]), TRUE)
     \/ Inconsistent(j)

\* Mutant of ConfirmGivesUp: the reads go on until the order is terminal.
ConfirmForever(j) ==
  pc[j] = "confirm" /\ Current(j).st \in TerminalOrder /\ JustEnd(j, "unknown")

\* The bounded reads end with the order still working.
ConfirmGivesUp(j) == pc[j] = "confirm" /\ JustEnd(j, "unknown")

----------------------------------------------------------------------------
(* A failure of the executor, or the cancellation of its task              *)

\* Where a transport may raise; proxy.execute then sets the latch.
FailurePoints == {"quote", "review", "acct", "placing", "wait", "canceling", "confirm"}
\* Where a cancellation is delivered: place and cancel calls are shielded.
Checkpoints == {"quote", "review", "lock", "acct", "wait", "confirm"}

\* Mutant of Interrupt: the salvage does not ask whether a cancel was sent.
InterruptCancelsAgain(j) ==
  /\ pc[j] \in FailurePoints /\ stop' = TRUE
  /\ placementEnded' = TRUE
  /\ seen[j] = "working"
  /\ CancelOnWire(j, index[j])
  /\ cancelSent' = [cancelSent EXCEPT ![j] = TRUE]
  /\ pc' = [pc EXCEPT ![j] = "salvage"]
  /\ UNCHANGED <<halted, cancelled, status, filled, index, seen, differs, outcome, position>>

\* _run's last handler with _salvage up to its cancel.
Interrupt(j) ==
  /\ \/ pc[j] \in FailurePoints /\ stop' = TRUE
     \/ pc[j] \in Checkpoints /\ cancelled /\ UNCHANGED stop
  /\ placementEnded' = TRUE
  /\ UNCHANGED <<halted, cancelled, filled, index, seen, differs, outcome, position>>
  /\ \/ /\ seen[j] = "working" /\ ~cancelSent[j]
        /\ CancelOnWire(j, index[j])
        /\ cancelSent' = [cancelSent EXCEPT ![j] = TRUE]
        /\ pc' = [pc EXCEPT ![j] = "salvage"]
        /\ UNCHANGED status
     \/ \* No working order with a known id, its cancel was sent, or it is refused now.
        /\ EndJob(j, "unknown", TRUE)
        /\ UNCHANGED <<cancelSent, orders>>

\* The salvage's reads: a terminal order is counted, and the job is unknown either way.
EndSalvage(j) ==
  /\ pc[j] = "salvage"
  /\ \/ Current(j).st \in TerminalOrder /\ Settle(j)
     \/ UNCHANGED filled
  /\ UNCHANGED <<runVars, stepVars, brokerVars>>
  /\ EndJob(j, "unknown", TRUE)

----------------------------------------------------------------------------
(* The broker and the agent                                                *)

UpdateOrder(j, i, st) ==
  /\ orders' = [orders EXCEPT ![j][i].st = st]
  /\ UNCHANGED <<runVars, placementEnded, pc, status, filled, stepVars, position>>

\* A placement reaches the broker: possibly after the caller gave up on it.
BrokerReceives(j, i) ==
  orders[j][i].st = "sent" /\ \E st \in {"working", "rejected"} : UpdateOrder(j, i, st)

BrokerFills(j, i) ==
  /\ orders[j][i].st = "working"
  /\ LET o == orders[j][i] IN
       orders' = [orders EXCEPT
         ![j][i] = [o EXCEPT !.filled = @ + 1,
                             !.st = IF o.filled + 1 = o.qty THEN "filled" ELSE "working"]]
  /\ position' = [position EXCEPT ![j] = @ + 1]
  /\ UNCHANGED <<runVars, placementEnded, pc, status, filled, stepVars>>

\* The order stops working: an accepted cancel took effect, or the broker ended it.
BrokerCloses(j, i) == orders[j][i].st = "working" /\ UpdateOrder(j, i, "cancelled")

BrokerTakesCancel(j, i) ==
  /\ orders[j][i].cancel = "sent"
  /\ orders' = [orders EXCEPT ![j][i].cancel =
                  IF orders[j][i].st = "working" THEN "accepted" ELSE "refused"]
  /\ UNCHANGED <<runVars, placementEnded, pc, status, filled, stepVars, position>>

\* holds(): an unfinished job knows this order as one of its steps'.
Holds(j, i) == Active(j) /\ (i < index[j] \/ (i = index[j] /\ seen[j] # "none"))

\* The agent cancels an order it read: not a job's own, and never during a placement.
AgentCancels(j, i) ==
  /\ ~stop
  /\ orders[j][i].st = "working"
  /\ ~Holds(j, i) /\ ~Placing
  /\ orders[j][i].cancels < MaxCancels
  /\ CancelOnWire(j, i)
  /\ UNCHANGED <<runVars, placementEnded, pc, status, filled, stepVars, position>>

----------------------------------------------------------------------------

\* What the job's own task does, the polls that change nothing left out.
JobStep(j) ==
  \/ BeginStep(j) \/ ReadQuote(j) \/ Review(j) \/ TakeLock(j) \/ PlaceBesideOthers(j)
  \/ PlaceSucceeds(j) \/ PlaceUnknown(j)
  \/ EndWait(j) \/ SendCancel(j) \/ CancelReturns(j) \/ Confirm(j) \/ ConfirmGivesUp(j)
  \/ EndSalvage(j)

BrokerStep(j, i) ==
  BrokerReceives(j, i) \/ BrokerFills(j, i) \/ BrokerCloses(j, i) \/ BrokerTakesCancel(j, i)

Next ==
  \/ Stop \/ Halt \/ CancelGroup
  \/ \E j \in Jobs : Reserve(j) \/ Release(j) \/ Start(j) \/ JobStep(j)
                     \/ PollOrder(j) \/ Interrupt(j)
  \/ \E j \in Jobs, i \in Steps : BrokerStep(j, i) \/ AgentCancels(j, i)

Spec == Init /\ [][Next]_vars

\* Every call a job makes is bounded by a timeout and every wait by a count of reads, and
\* the event loop runs each ready task: a job that can move does.  The broker owes nothing.
FairSpec == Spec /\ \A j \in Jobs : WF_vars(JobStep(j))

----------------------------------------------------------------------------
(* Properties                                                              *)

Open(o) == o.st \in {"sent", "working"}

\* Partial fills, late fills, lost replies and every way a job can end never make the
\* broker execute more contracts for a job than the agent asked for.
NoOverfill == \A j \in Jobs : position[j] <= Target[j]

\* A job never starts a step while an earlier order of it may still fill.
OneOpenOrder ==
  \A j \in Jobs : \A i, k \in Steps : Open(orders[j][i]) /\ Open(orders[j][k]) => i = k

\* What an ended job reports is true: unless it says `unknown`, none of its orders can
\* fill any more, it counted what the broker executed, and its status fits the count.  An
\* order that may still fill belongs to a job at work, or placement has ended.
OutcomeTruthful ==
  \A j \in Jobs :
    /\ pc[j] = "done" /\ status[j] # "unknown" =>
         /\ \A i \in Steps : ~Open(orders[j][i])
         /\ filled[j] = position[j]
         /\ status[j] = "filled" <=> (filled[j] = Target[j])
         /\ status[j] = "partially_filled" => filled[j] > 0
         /\ status[j] = "cancelled" => filled[j] = 0
    /\ (\E i \in Steps : Open(orders[j][i])) => Active(j) \/ placementEnded

\* However the latch, a failure, a cancellation and the agent's own clean-up interleave, an
\* active job's order is sent at most one cancel (WalkStep.cancel_sent).
OneCancelPerOrder ==
  \A j \in Jobs : Active(j) => \A i \in Steps : orders[j][i].cancels <= 1

\* Orders of two jobs work at the same time only if both close and on different contracts.
ConcurrentClosesOnly ==
  \A j, k \in Jobs : \A i, n \in Steps :
    j # k /\ Active(j) /\ Active(k) /\ Open(orders[j][i]) /\ Open(orders[k][n]) =>
      j \notin Opening /\ k \notin Opening /\ Contract[j] # Contract[k]

Sends(j, i) == orders[j][i].st = "none" /\ orders'[j][i].st = "sent"

\* Once the latch is set or placement has ended, no order leaves the executor, even from a
\* job already past its own checks and waiting for the lock or the account read.
NoPlacementAfterStop ==
  [][stop \/ placementEnded => \A j \in Jobs, i \in Steps : ~Sends(j, i)]_vars

\* Every started job ends, so wait_all and the task group's exit return.
JobsEnd == \A j \in Jobs : Active(j) ~> ~Active(j)

----------------------------------------------------------------------------
(* The promise the walk implements                                         *)

\* At most one order of a job is open (OneOpenOrder): what it may still fill.
MayStillFill(j) ==
  IF \E i \in Steps : Open(orders[j][i])
  THEN LET i == CHOOSE i \in Steps : Open(orders[j][i])
       IN orders[j][i].qty - orders[j][i].filled
  ELSE 0

TradePhase(j) == IF status[j] \in {"none", "working", "unknown"} THEN status[j] ELSE "settled"

Reported(j) == IF pc[j] = "done" THEN filled[j] ELSE 0

Promise == INSTANCE TradePromise WITH
  phase <- [j \in Jobs |-> TradePhase(j)],
  exposure <- [j \in Jobs |-> MayStillFill(j)],
  held <- position,
  report <- [j \in Jobs |-> Reported(j)],
  shut <- stop \/ placementEnded

\* Steps, retries of the cancel, salvages and races with the broker are all invisible: a
\* job exposes the account, is executed against, and ends telling the truth or `unknown`.
KeepsPromise == Promise!Spec

============================================================================
