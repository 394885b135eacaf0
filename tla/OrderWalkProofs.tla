-------------------------- MODULE OrderWalkProofs --------------------------
(***************************************************************************)
(* Proofs about OrderWalk, for every set of jobs, every target and every   *)
(* number of steps.                                                        *)
(***************************************************************************)
EXTENDS OrderWalk, TLAPS

----------------------------------------------------------------------------
(* The inductive invariant, one job at a time                              *)

Before == {"idle", "reserved", "step", "quote", "review", "lock", "acct"}
Sent == {"wait", "canceling", "confirm", "salvage"}

\* An order's fills and its state agree.
OrderSound(o) ==
  /\ o.filled <= o.qty
  /\ o.st = "working" => o.filled < o.qty
  /\ o.st = "filled" => o.filled = o.qty
  /\ o.st \in {"none", "sent", "rejected"} => o.filled = 0
  /\ o.st = "sent" => 0 < o.qty
  /\ o.st = "none" => o.cancels = 0

\* Everything executed is counted and nothing more can be executed.
Settled(j) ==
  /\ position[j] = filled[j] /\ filled[j] <= Target[j]
  /\ \A i \in Steps : ~Open(orders[j][i])

\* The current order's fills are not counted yet, and its quantity is what was missing.
Exposed(j) ==
  /\ index[j] \in Steps
  /\ Current(j).st # "none"
  /\ position[j] = filled[j] + Current(j).filled
  /\ filled[j] + Current(j).qty = Target[j]
  /\ \A i \in Steps : i # index[j] => ~Open(orders[j][i])

\* Where the job is, what it knows of its order, and what the broker holds.
Place(j) ==
  /\ \A i \in Steps : OrderSound(orders[j][i])
  /\ \A i \in Steps : i > index[j] => orders[j][i].st = "none"
  /\ pc[j] \in Before =>
       /\ Settled(j) /\ filled[j] < Target[j]
       /\ index[j] \in Steps => Current(j).st = "none"
       /\ seen[j] = "none" /\ ~cancelSent[j] /\ ~differs[j]
  /\ pc[j] \in {"quote", "review", "lock", "acct"} => index[j] \in Steps
  /\ pc[j] = "placing" => Exposed(j) /\ seen[j] = "none" /\ ~cancelSent[j]
  /\ pc[j] \in Sent =>
       /\ Exposed(j)
       /\ Current(j).st # "sent"
       /\ seen[j] # "none"
       /\ seen[j] \in TerminalOrder => Current(j).st = seen[j]
  /\ pc[j] = "done" => Settled(j) \/ (Exposed(j) /\ status[j] = "unknown")

\* How the job ended.
Ending(j) ==
  /\ pc[j] \in {"idle", "reserved"} => status[j] = "none" /\ filled[j] = 0
  /\ pc[j] \notin {"idle", "reserved", "done"} => status[j] = "working"
  /\ pc[j] = "done" =>
       /\ status[j] # "working"
       /\ status[j] # "unknown" =>
            /\ status[j] = "filled" <=> (filled[j] = Target[j])
            /\ status[j] = "partially_filled" => filled[j] > 0
            /\ status[j] = "cancelled" => filled[j] = 0

\* A cancel leaves at most once while the job is at work.
Cancels(j) ==
  pc[j] # "done" =>
    /\ \A i \in Steps : orders[j][i].cancels <= 1
    /\ pc[j] \in Sent \cup {"placing"} /\ ~cancelSent[j] => Current(j).cancels = 0

JobInv(j) == Place(j) /\ Ending(j) /\ Cancels(j)

\* Two jobs at work at the same time were admitted beside each other.
Admitted ==
  \A j, k \in AtWork : j # k =>
    j \notin Opening /\ k \notin Opening /\ Contract[j] # Contract[k]

IInv ==
  /\ TypeOK
  /\ \A j \in Jobs : JobInv(j)
  /\ \A j \in Jobs : status[j] = "unknown" => placementEnded
  /\ Admitted

----------------------------------------------------------------------------
(* A job no action touches keeps its part of the invariant                 *)

Untouched(k) ==
  /\ pc'[k] = pc[k] /\ status'[k] = status[k] /\ filled'[k] = filled[k]
  /\ index'[k] = index[k] /\ seen'[k] = seen[k]
  /\ cancelSent'[k] = cancelSent[k] /\ differs'[k] = differs[k]
  /\ orders'[k] = orders[k] /\ position'[k] = position[k]

LEMMA Frame ==
  ASSUME NEW k \in Jobs, JobInv(k), Untouched(k)
  PROVE  JobInv(k)'
BY DEF Untouched, JobInv, Place, Ending, Cancels, Settled, Exposed, Current, Open

\* What a job's action shows: the job keeps its invariant and the others are untouched.
Kept(j) ==
  /\ TypeOK' /\ JobInv(j)'
  /\ \A k \in Jobs \ {j} : Untouched(k)
  /\ status'[j] = "unknown" => placementEnded'

LEMMA StepReserve ==
  ASSUME TypeOK, NEW j \in Jobs, JobInv(j), Reserve(j)
  PROVE  Kept(j)
BY OrderWalkAssumption DEF TypeOK, Reserve, Goto, runVars, stepVars, brokerVars, Kept, Untouched, PcValue,
   JobInv, Place, Ending, Cancels, Settled, Exposed, Current, Open, Before, Sent

\* What every end of a job leaves alone.
Quiet == stop' \in BOOLEAN /\ UNCHANGED <<halted, cancelled, index, seen, differs, outcome>>

\* A job with nothing open may end in any way that fits its count.
LEMMA EndSettled ==
  ASSUME TypeOK, NEW j \in Jobs, JobInv(j), pc[j] \in Before \ {"idle", "reserved"},
         NEW st \in {"stopped", "cancelled", Final(j, filled[j])},
         Quiet, UNCHANGED <<filled, cancelSent, orders, position>>, EndJob(j, st, FALSE)
  PROVE  Kept(j)
<1>1. /\ Settled(j) /\ filled[j] < Target[j] /\ filled[j] \in Nat /\ Target[j] \in Nat
  BY OrderWalkAssumption DEF TypeOK, JobInv, Place
<1>2. /\ status'[j] # "unknown" /\ status'[j] # "working" /\ status'[j] # "filled"
      /\ status'[j] = "partially_filled" => filled[j] > 0
      /\ status'[j] = "cancelled" => filled[j] = 0
      /\ status' \in [Jobs -> WalkStatus]
      /\ placementEnded' \in BOOLEAN
  BY <1>1 DEF EndJob, Final, TypeOK, WalkStatus
<1>3. /\ pc' \in [Jobs -> PcValue] /\ pc'[j] = "done"
      /\ \A k \in Jobs \ {j} : pc'[k] = pc[k] /\ status'[k] = status[k]
  BY DEF EndJob, TypeOK, PcValue
<1>4. TypeOK'
  BY <1>2, <1>3 DEF TypeOK, Quiet
<1>5. Settled(j)'
  BY <1>1 DEF Settled, Quiet, Open
<1>6. Place(j)'
  BY <1>3, <1>5 DEF JobInv, Place, Quiet, Before, Sent
<1>7. Ending(j)'
  BY <1>1, <1>2, <1>3 DEF Ending
<1>8. Cancels(j)'
  BY <1>3 DEF Cancels
<1> QED
  BY <1>2, <1>3, <1>4, <1>6, <1>7, <1>8 DEF Kept, JobInv, Untouched, Quiet

\* A started job may end unknown anywhere.
LEMMA EndUnknown ==
  ASSUME TypeOK, NEW j \in Jobs, JobInv(j), pc[j] \notin {"idle", "reserved", "done"},
         NEW e \in BOOLEAN,
         Quiet, UNCHANGED <<filled, cancelSent, orders, position>>, EndJob(j, "unknown", e)
  PROVE  Kept(j)
<1>1. /\ status'[j] = "unknown" /\ pc'[j] = "done" /\ placementEnded' = TRUE
      /\ status' \in [Jobs -> WalkStatus] /\ pc' \in [Jobs -> PcValue]
      /\ \A k \in Jobs \ {j} : pc'[k] = pc[k] /\ status'[k] = status[k]
  BY DEF EndJob, TypeOK, WalkStatus, PcValue
<1>2. TypeOK'
  BY <1>1 DEF TypeOK, Quiet
<1>3. pc[j] \in Before \cup {"placing"} \cup Sent
  BY DEF TypeOK, PcValue, Before, Sent
<1>4. Settled(j) \/ Exposed(j)
  BY <1>3 DEF JobInv, Place
<1>5. Settled(j)' \/ Exposed(j)'
  BY <1>4 DEF Settled, Exposed, Current, Open, Quiet
<1>6. Place(j)'
  BY <1>1, <1>5 DEF JobInv, Place, Quiet, Before, Sent
<1>7. Ending(j)' /\ Cancels(j)'
  BY <1>1 DEF Ending, Cancels
<1> QED
  BY <1>1, <1>2, <1>6, <1>7 DEF Kept, JobInv, Untouched, Quiet

\* Moving between two points before the placement.
LEMMA MoveBefore ==
  ASSUME TypeOK, NEW j \in Jobs, JobInv(j), pc[j] \in Before, status[j] = "working",
         NEW where \in {"quote", "review", "lock", "acct"}, index[j] \in Steps,
         Goto(j, where), UNCHANGED <<runVars, filled, stepVars, brokerVars>>
  PROVE  Kept(j)
<1>1. /\ pc'[j] = where /\ pc' \in [Jobs -> PcValue] /\ UNCHANGED <<status, placementEnded>>
      /\ \A k \in Jobs \ {j} : pc'[k] = pc[k]
  BY DEF Goto, TypeOK, PcValue
<1>2. TypeOK'
  BY <1>1 DEF TypeOK, runVars, stepVars, brokerVars
<1>3. Settled(j)' /\ filled'[j] < Target[j]
  BY DEF JobInv, Place, Settled, Open, stepVars, brokerVars
<1>4. Place(j)'
  BY <1>1, <1>3 DEF JobInv, Place, stepVars, brokerVars, Before, Sent, Current
<1>5. Ending(j)' /\ Cancels(j)'
  BY <1>1 DEF JobInv, Ending, Cancels, Before, Sent, brokerVars
<1> QED
  BY <1>1, <1>2, <1>4, <1>5 DEF Kept, JobInv, Untouched, stepVars, brokerVars

LEMMA StepBegin ==
  ASSUME TypeOK, NEW j \in Jobs, JobInv(j), BeginStep(j)
  PROVE  Kept(j)
<1>1. pc[j] = "step" /\ status[j] = "working"
  BY DEF BeginStep, JobInv, Ending
<1>2. CASE index[j] <= MaxSteps /\ Goto(j, "quote")
           /\ UNCHANGED <<runVars, filled, stepVars, brokerVars>>
  <2>1. index[j] \in Steps
    BY <1>2, OrderWalkAssumption DEF TypeOK, Steps
  <2> QED
    BY <1>1, <1>2, <2>1, MoveBefore DEF Before
<1>3. CASE JustEnd(j, "stopped")
  BY <1>1, <1>3, EndSettled DEF JustEnd, Before, runVars, stepVars, brokerVars, Quiet, TypeOK
<1>4. CASE JustEnd(j, Final(j, filled[j]))
  BY <1>1, <1>4, EndSettled DEF JustEnd, Before, runVars, stepVars, brokerVars, Quiet, TypeOK
<1> QED
  BY <1>2, <1>3, <1>4 DEF BeginStep

LEMMA StepRelease ==
  ASSUME TypeOK, NEW j \in Jobs, JobInv(j), Release(j)
  PROVE  Kept(j)
<1>1. /\ pc[j] = "reserved" /\ pc'[j] = "done" /\ pc' \in [Jobs -> PcValue]
      /\ UNCHANGED <<status, placementEnded>> /\ status[j] = "none"
      /\ \A k \in Jobs \ {j} : pc'[k] = pc[k]
  BY DEF Release, Goto, TypeOK, PcValue, JobInv, Ending
<1>2. UNCHANGED <<stop, halted, cancelled, filled, index, seen, cancelSent, differs, outcome,
                  orders, position>>
  BY DEF Release, runVars, stepVars, brokerVars
<1>3. Settled(j) /\ filled[j] < Target[j] /\ filled[j] \in Nat /\ Target[j] \in Nat
  BY <1>1, OrderWalkAssumption DEF JobInv, Place, Before, TypeOK
<1>4. Settled(j)'
  BY <1>2, <1>3 DEF Settled, Open
<1>5. TypeOK'
  BY <1>1, <1>2 DEF TypeOK
<1>6. Place(j)'
  BY <1>1, <1>2, <1>4 DEF JobInv, Place, Before, Sent
<1>7. Ending(j)' /\ Cancels(j)'
  BY <1>1, <1>2, <1>3 DEF Ending, Cancels
<1> QED
  BY <1>1, <1>2, <1>5, <1>6, <1>7 DEF Kept, JobInv, Untouched

LEMMA StepStart ==
  ASSUME TypeOK, NEW j \in Jobs, JobInv(j), Start(j)
  PROVE  Kept(j)
<1>1. /\ pc[j] = "reserved" /\ pc'[j] = "step" /\ pc' \in [Jobs -> PcValue]
      /\ status'[j] = "working" /\ status' \in [Jobs -> WalkStatus]
      /\ \A k \in Jobs \ {j} : pc'[k] = pc[k] /\ status'[k] = status[k]
  BY DEF Start, TypeOK, PcValue, WalkStatus
<1>2. UNCHANGED <<stop, halted, cancelled, placementEnded, filled, index, seen, cancelSent,
                  differs, outcome, orders, position>>
  BY DEF Start, runVars, stepVars, brokerVars
<1>3. Settled(j)' /\ filled'[j] < Target[j]
  BY <1>1, <1>2 DEF JobInv, Place, Before, Settled, Open
<1>4. TypeOK'
  BY <1>1, <1>2 DEF TypeOK
<1>5. Place(j)'
  BY <1>1, <1>2, <1>3 DEF JobInv, Place, Before, Sent, Current
<1>6. Ending(j)' /\ Cancels(j)'
  BY <1>1, <1>2 DEF JobInv, Ending, Cancels, Sent
<1> QED
  BY <1>1, <1>2, <1>4, <1>5, <1>6 DEF Kept, JobInv, Untouched

LEMMA StepQuoteReview ==
  ASSUME TypeOK, NEW j \in Jobs, JobInv(j), ReadQuote(j) \/ Review(j)
  PROVE  Kept(j)
<1>1. pc[j] \in {"quote", "review"} /\ status[j] = "working" /\ index[j] \in Steps
  BY DEF ReadQuote, Review, JobInv, Ending, Place
<1>2. CASE (Goto(j, "review") \/ Goto(j, "lock"))
           /\ UNCHANGED <<runVars, filled, stepVars, brokerVars>>
  BY <1>1, <1>2, MoveBefore DEF Before
<1>3. CASE JustEnd(j, "stopped") \/ JustEnd(j, "cancelled")
  BY <1>1, <1>3, EndSettled DEF JustEnd, Before, runVars, stepVars, brokerVars, Quiet, TypeOK
<1> QED
  BY <1>2, <1>3 DEF ReadQuote, Review

LEMMA StepSendPlacement ==
  ASSUME TypeOK, NEW j \in Jobs, JobInv(j), pc[j] \in {"lock", "acct"}, SendPlacement(j)
  PROVE  Kept(j)
<1>1. pc[j] \in Before /\ status[j] = "working" /\ index[j] \in Steps
  BY DEF JobInv, Ending, Place, Before
<1>2. CASE JustEnd(j, "stopped")
  BY <1>1, <1>2, EndSettled DEF JustEnd, Before, runVars, stepVars, brokerVars, Quiet, TypeOK
<1>3. CASE /\ ~stop /\ stop' = TRUE
           /\ UNCHANGED <<halted, cancelled, filled, stepVars, brokerVars>>
           /\ EndJob(j, "stopped", FALSE)
  BY <1>1, <1>3, EndSettled DEF Before, stepVars, brokerVars, Quiet
<1>4. CASE /\ orders' = [orders EXCEPT ![j][index[j]] =
                           [NoOrder EXCEPT !.st = "sent", !.qty = Remaining(j)]]
           /\ Goto(j, "placing")
           /\ UNCHANGED <<runVars, filled, stepVars, position>>
  <2>1. /\ pc'[j] = "placing" /\ pc' \in [Jobs -> PcValue] /\ UNCHANGED <<status, placementEnded>>
        /\ \A k \in Jobs \ {j} : pc'[k] = pc[k]
    BY <1>4 DEF Goto, TypeOK, PcValue
  <2>2. UNCHANGED <<stop, halted, cancelled, filled, index, seen, cancelSent, differs, outcome,
                    position>>
    BY <1>4 DEF runVars, stepVars
  <2>3. /\ Settled(j) /\ filled[j] < Target[j] /\ filled[j] \in Nat /\ Target[j] \in Nat
        /\ seen[j] = "none" /\ ~cancelSent[j] /\ status[j] = "working"
        /\ \A i \in Steps : OrderSound(orders[j][i])
        /\ \A i \in Steps : i > index[j] => orders[j][i].st = "none"
        /\ \A i \in Steps : orders[j][i].cancels <= 1
    BY <1>1, OrderWalkAssumption DEF JobInv, Place, Before, TypeOK, Ending, Cancels
  <2> DEFINE o == [st |-> "sent", qty |-> Remaining(j), filled |-> 0,
                   cancel |-> "none", cancels |-> 0]
  <2>4. o \in Order /\ OrderSound(o) /\ o.qty + filled[j] = Target[j]
    BY <2>3 DEF Order, OrderState, OrderSound, Remaining
  <2>5. /\ orders' \in [Jobs -> [Steps -> Order]]
        /\ orders'[j][index[j]] = o
        /\ \A i \in Steps \ {index[j]} : orders'[j][i] = orders[j][i]
        /\ \A k \in Jobs \ {j} : orders'[k] = orders[k]
    BY <1>1, <1>4, <2>4 DEF TypeOK, NoOrder
  <2> HIDE DEF o
  <2>6. TypeOK'
    BY <2>1, <2>2, <2>5 DEF TypeOK
  <2>7. o.st = "sent" /\ o.filled = 0 /\ o.cancels = 0 BY DEF o
  <2>8. Exposed(j)'
    BY <1>1, <2>2, <2>3, <2>4, <2>5, <2>7 DEF Exposed, Current, Settled, Open, Order
  <2>9. Place(j)'
    <3>1. \A i \in Steps : OrderSound(orders'[j][i])
      BY <2>3, <2>4, <2>5
    <3>2. \A i \in Steps : i > index'[j] => orders'[j][i].st = "none"
      BY <1>1, <2>2, <2>3, <2>5 DEF Steps
    <3> QED
      BY <2>1, <2>2, <2>3, <2>8, <3>1, <3>2 DEF Place, Before, Sent
  <2>10. Ending(j)' /\ Cancels(j)'
    BY <1>1, <2>1, <2>2, <2>3, <2>5, <2>7 DEF Ending, Cancels, Current, Sent
  <2> QED
    BY <2>1, <2>2, <2>3, <2>5, <2>6, <2>9, <2>10 DEF Kept, JobInv, Untouched
<1> QED
  BY <1>2, <1>3, <1>4 DEF SendPlacement

LEMMA StepLock ==
  ASSUME TypeOK, NEW j \in Jobs, JobInv(j), TakeLock(j) \/ PlaceBesideOthers(j)
  PROVE  Kept(j)
<1>1. pc[j] \in {"lock", "acct"} /\ status[j] = "working" /\ index[j] \in Steps
  BY DEF TakeLock, PlaceBesideOthers, JobInv, Ending, Place
<1>2. CASE SendPlacement(j)
  BY <1>1, <1>2, StepSendPlacement
<1>3. CASE Goto(j, "acct") /\ UNCHANGED <<runVars, filled, stepVars, brokerVars>>
  BY <1>1, <1>3, MoveBefore DEF Before
<1>4. CASE JustEnd(j, "stopped") \/ JustEnd(j, Final(j, filled[j]))
  BY <1>1, <1>4, EndSettled DEF JustEnd, Before, runVars, stepVars, brokerVars, Quiet, TypeOK
<1> QED
  BY <1>2, <1>3, <1>4 DEF TakeLock, PlaceBesideOthers

LEMMA StepPlaceReturns ==
  ASSUME TypeOK, NEW j \in Jobs, JobInv(j), PlaceSucceeds(j) \/ PlaceUnknown(j)
  PROVE  Kept(j)
<1>1. pc[j] = "placing" /\ status[j] = "working" /\ Exposed(j) /\ ~cancelSent[j]
  BY DEF PlaceSucceeds, PlaceUnknown, JobInv, Ending, Place
<1>2. CASE PlaceUnknown(j)
  BY <1>1, <1>2, EndUnknown
     DEF PlaceUnknown, JustEnd, runVars, stepVars, brokerVars, Quiet, TypeOK
<1>3. CASE PlaceSucceeds(j)
  <2>1. /\ pc'[j] = "wait" /\ pc' \in [Jobs -> PcValue] /\ UNCHANGED <<status, placementEnded>>
        /\ \A k \in Jobs \ {j} : pc'[k] = pc[k]
    BY <1>3 DEF PlaceSucceeds, Goto, TypeOK, PcValue
  <2>2. UNCHANGED <<stop, halted, cancelled, filled, index, cancelSent, outcome, orders, position>>
    BY <1>3 DEF PlaceSucceeds, runVars, brokerVars
  <2>3. Current(j).st \in OrderState \ {"sent", "none"}
    BY <1>1, <1>3 DEF PlaceSucceeds, Exposed, Current, TypeOK, Order
  <2>4. /\ seen'[j] = Current(j).st /\ seen' \in [Jobs -> OrderState \ {"sent"}]
        /\ differs' \in [Jobs -> BOOLEAN]
        /\ \A k \in Jobs \ {j} : seen'[k] = seen[k] /\ differs'[k] = differs[k]
    BY <1>3, <2>3 DEF PlaceSucceeds, TypeOK
  <2>5. TypeOK'
    BY <2>1, <2>2, <2>4 DEF TypeOK
  <2>6. Exposed(j)'
    BY <1>1, <2>2 DEF Exposed, Current, Open
  <2>7. Place(j)'
    BY <2>1, <2>2, <2>3, <2>4, <2>6 DEF JobInv, Place, Before, Sent, Current
  <2>8. Ending(j)' /\ Cancels(j)'
    BY <1>1, <2>1, <2>2 DEF JobInv, Ending, Cancels, Sent, Current
  <2> QED
    BY <1>1, <2>1, <2>2, <2>4, <2>5, <2>7, <2>8 DEF Kept, JobInv, Untouched
<1> QED
  BY <1>2, <1>3

\* Once the current order is terminal, counting it settles the job.
LEMMA Counted ==
  ASSUME TypeOK, NEW j \in Jobs, JobInv(j), pc[j] \in Sent,
         Current(j).st \in TerminalOrder, Settle(j),
         UNCHANGED <<orders, position>>
  PROVE  /\ Settled(j)' /\ filled' \in [Jobs -> Nat]
         /\ \A k \in Jobs \ {j} : filled'[k] = filled[k]
<1>1. Exposed(j) /\ OrderSound(Current(j)) /\ Current(j) \in Order
  BY DEF JobInv, Place, Exposed, Current, TypeOK
<1>2. filled[j] \in Nat /\ Target[j] \in Nat /\ Current(j).filled \in Nat /\ Current(j).qty \in Nat
  BY <1>1, OrderWalkAssumption DEF TypeOK, Order
<1>3. /\ filled'[j] = filled[j] + Current(j).filled /\ filled' \in [Jobs -> Nat]
      /\ \A k \in Jobs \ {j} : filled'[k] = filled[k]
  BY <1>2 DEF Settle, TypeOK
<1>4. position[j] = filled'[j] /\ filled'[j] <= Target[j]
  BY <1>1, <1>2, <1>3 DEF Exposed, OrderSound
<1>5. \A i \in Steps : ~Open(orders[j][i])
  BY <1>1 DEF Exposed, Open, TerminalOrder, Current
<1> QED
  BY <1>3, <1>4, <1>5 DEF Settled, Open

\* A job whose last order was counted may end in any way that fits its count.
LEMMA EndCounted ==
  ASSUME TypeOK, NEW j \in Jobs, JobInv(j), pc[j] \in Sent,
         Current(j).st \in TerminalOrder, Settle(j),
         NEW st \in WalkStatus \ {"none", "working"}, NEW e \in BOOLEAN,
         st = "filled" => filled'[j] >= Target[j],
         st \in {"stopped", "cancelled", "partially_filled"} => filled'[j] < Target[j],
         st = "partially_filled" => filled'[j] > 0,
         Quiet, UNCHANGED <<cancelSent, orders, position>>, EndJob(j, st, e)
  PROVE  Kept(j)
<1>1. /\ Settled(j)' /\ filled' \in [Jobs -> Nat] /\ Target[j] \in Nat
      /\ \A k \in Jobs \ {j} : filled'[k] = filled[k]
  BY Counted, OrderWalkAssumption
<1>2. /\ pc'[j] = "done" /\ pc' \in [Jobs -> PcValue]
      /\ status'[j] = IF st = "cancelled" /\ filled'[j] > 0 THEN "partially_filled" ELSE st
      /\ status' \in [Jobs -> WalkStatus] /\ placementEnded' \in BOOLEAN
      /\ st = "unknown" => placementEnded'
      /\ \A k \in Jobs \ {j} : pc'[k] = pc[k] /\ status'[k] = status[k]
  BY DEF EndJob, TypeOK, PcValue, WalkStatus
<1>3. TypeOK'
  BY <1>1, <1>2 DEF TypeOK, Quiet
<1>4. Place(j)'
  BY <1>1, <1>2 DEF JobInv, Place, Quiet, Before, Sent
<1>5. filled'[j] \in Nat /\ filled'[j] <= Target[j]
  BY <1>1 DEF Settled
<1>6. Ending(j)'
  <2>1. status'[j] # "working" /\ (status'[j] = "filled" <=> st = "filled")
    BY <1>2
  <2>2. st # "unknown" => (st = "filled" <=> filled'[j] = Target[j])
    BY <1>1, <1>5 DEF WalkStatus
  <2> QED
    BY <1>1, <1>2, <1>5, <2>1, <2>2 DEF Ending
<1>7. Cancels(j)'
  BY <1>2 DEF Cancels
<1> QED
  BY <1>1, <1>2, <1>3, <1>4, <1>6, <1>7 DEF Kept, JobInv, Untouched, Quiet

LEMMA StepClose ==
  ASSUME TypeOK, NEW j \in Jobs, JobInv(j), pc[j] \in {"wait", "confirm"},
         Current(j).st \in TerminalOrder, CloseStep(j)
  PROVE  Kept(j)
<1>1. /\ pc[j] \in Sent /\ status[j] = "working" /\ Settle(j)
      /\ UNCHANGED <<stop, halted, cancelled, differs, outcome, orders, position>>
      /\ stop \in BOOLEAN
  BY DEF Sent, JobInv, Ending, CloseStep, runVars, brokerVars, TypeOK
<1>2. /\ Settled(j)' /\ filled' \in [Jobs -> Nat] /\ Target[j] \in Nat
      /\ \A k \in Jobs \ {j} : filled'[k] = filled[k]
  BY <1>1, Counted, OrderWalkAssumption
<1>3. CASE EndJob(j, "unknown", TRUE) /\ UNCHANGED <<index, seen, cancelSent>>
  BY <1>1, <1>3, EndCounted DEF Quiet, WalkStatus
<1>4. CASE /\ filled'[j] >= Target[j] /\ EndJob(j, "filled", FALSE)
           /\ UNCHANGED <<index, seen, cancelSent>>
  BY <1>1, <1>4, EndCounted DEF Quiet, WalkStatus
<1>5. CASE /\ filled'[j] < Target[j] /\ EndJob(j, "stopped", FALSE)
           /\ UNCHANGED <<index, seen, cancelSent>>
  BY <1>1, <1>5, EndCounted DEF Quiet, WalkStatus
<1>6. CASE /\ filled'[j] < Target[j] /\ filled'[j] > 0 /\ EndJob(j, "partially_filled", FALSE)
           /\ UNCHANGED <<index, seen, cancelSent>>
  BY <1>1, <1>6, EndCounted DEF Quiet, WalkStatus
<1>7. CASE /\ ~differs[j] /\ filled'[j] < Target[j] /\ Goto(j, "step")
           /\ index' = [index EXCEPT ![j] = @ + 1]
           /\ seen' = [seen EXCEPT ![j] = "none"]
           /\ cancelSent' = [cancelSent EXCEPT ![j] = FALSE]
  <2>1. /\ pc'[j] = "step" /\ pc' \in [Jobs -> PcValue] /\ UNCHANGED <<status, placementEnded>>
        /\ \A k \in Jobs \ {j} : pc'[k] = pc[k]
    BY <1>7 DEF Goto, TypeOK, PcValue
  <2>2. index[j] \in Steps /\ MaxSteps \in Nat
    BY <1>1, OrderWalkAssumption DEF JobInv, Place, Exposed
  <2>3. /\ index' \in [Jobs -> 1 .. MaxSteps + 1] /\ index'[j] = index[j] + 1
        /\ seen' \in [Jobs -> OrderState \ {"sent"}] /\ seen'[j] = "none"
        /\ cancelSent' \in [Jobs -> BOOLEAN] /\ ~cancelSent'[j]
        /\ \A k \in Jobs \ {j} : /\ index'[k] = index[k] /\ seen'[k] = seen[k]
                                 /\ cancelSent'[k] = cancelSent[k]
    BY <1>7, <2>2 DEF TypeOK, Steps, OrderState
  <2>4. TypeOK'
    BY <1>1, <1>2, <2>1, <2>3 DEF TypeOK
  <2>5. /\ \A i \in Steps : i > index'[j] => orders'[j][i].st = "none"
        /\ index'[j] \in Steps => Current(j)'.st = "none"
    BY <1>1, <2>2, <2>3 DEF JobInv, Place, Steps, Current
  <2>6. Place(j)'
    BY <1>1, <1>2, <1>7, <2>1, <2>3, <2>5 DEF JobInv, Place, Before, Sent
  <2>7. Ending(j)' /\ Cancels(j)'
    BY <1>1, <2>1 DEF JobInv, Ending, Cancels, Sent
  <2> QED
    BY <1>1, <1>2, <2>1, <2>3, <2>4, <2>6, <2>7 DEF Kept, JobInv, Untouched
<1> QED
  BY <1>3, <1>4, <1>5, <1>6, <1>7 DEF CloseStep

LEMMA StepEndWait ==
  ASSUME TypeOK, NEW j \in Jobs, JobInv(j), EndWait(j)
  PROVE  Kept(j)
<1>1. pc[j] = "wait" /\ status[j] = "working" /\ Current(j).st \in TerminalOrder
  BY DEF EndWait, JobInv, Ending, Place, Sent
<1>2. CASE CloseStep(j)
  BY <1>1, <1>2, StepClose
<1>3. CASE Inconsistent(j)
  BY <1>1, <1>3, EndUnknown
     DEF Inconsistent, JustEnd, runVars, stepVars, brokerVars, Quiet, TypeOK
<1> QED
  BY <1>2, <1>3 DEF EndWait

LEMMA StepConfirm ==
  ASSUME TypeOK, NEW j \in Jobs, JobInv(j), Confirm(j) \/ ConfirmGivesUp(j)
  PROVE  Kept(j)
<1>1. pc[j] = "confirm" /\ status[j] = "working"
  BY DEF Confirm, ConfirmGivesUp, JobInv, Ending
<1>2. CASE Inconsistent(j) \/ ConfirmGivesUp(j)
  BY <1>1, <1>2, EndUnknown
     DEF Inconsistent, ConfirmGivesUp, JustEnd, runVars, stepVars, brokerVars, Quiet, TypeOK
<1>3. CASE Current(j).st \in TerminalOrder /\ CloseStep(j)
  BY <1>1, <1>3, StepClose
<1>4. CASE /\ Current(j).st \in TerminalOrder
           /\ Settle(j)
           /\ UNCHANGED <<runVars, stepVars, brokerVars>>
           /\ EndJob(j, Final(j, filled'[j]), TRUE)
  <2>1. /\ pc[j] \in Sent /\ Quiet /\ UNCHANGED <<cancelSent, orders, position>>
    BY <1>1, <1>4 DEF Sent, Quiet, runVars, stepVars, brokerVars, TypeOK
  <2>2. Settled(j)' /\ filled'[j] \in Nat /\ Target[j] \in Nat \ {0}
    BY <1>4, <2>1, Counted, OrderWalkAssumption
  <2>3. /\ Final(j, filled'[j]) \in WalkStatus \ {"none", "working"}
        /\ Final(j, filled'[j]) = "filled" => filled'[j] >= Target[j]
        /\ Final(j, filled'[j]) \in {"stopped", "cancelled", "partially_filled"}
              => filled'[j] < Target[j]
        /\ Final(j, filled'[j]) = "partially_filled" => filled'[j] > 0
    BY <2>2 DEF Final, WalkStatus
  <2> HIDE DEF Final
  <2> QED
    BY <1>4, <2>1, <2>3, EndCounted
<1> QED
  BY <1>2, <1>3, <1>4 DEF Confirm

\* What a cancel request changes at the broker.
LEMMA OnWire ==
  ASSUME TypeOK, NEW j \in Jobs, NEW i \in Steps, CancelOnWire(j, i)
  PROVE  /\ orders' \in [Jobs -> [Steps -> Order]]
         /\ orders'[j][i] = [orders[j][i] EXCEPT !.cancel = "sent",
                                               !.cancels = orders[j][i].cancels + 1]
         /\ \A n \in Steps \ {i} : orders'[j][n] = orders[j][n]
         /\ \A k \in Jobs \ {j} : orders'[k] = orders[k]
<1> DEFINE o == [orders[j][i] EXCEPT !.cancel = "sent", !.cancels = orders[j][i].cancels + 1]
<1>1. orders \in [Jobs -> [Steps -> Order]] /\ orders[j][i] \in Order
  BY DEF TypeOK
<1>2. orders' = [orders EXCEPT ![j] = [orders[j] EXCEPT ![i] = o]]
  BY <1>1 DEF CancelOnWire, Order
<1>3. o \in Order
  <2> DEFINE n == orders[j][i].cancels + 1
  <2>1. n \in Nat
    BY <1>1 DEF Order
  <2> HIDE DEF n
  <2>2. [orders[j][i] EXCEPT !.cancel = "sent", !.cancels = n] \in Order
    BY <1>1, <2>1 DEF Order
  <2> QED
    BY <2>2 DEF n
<1> HIDE DEF o
<1>4. orders' \in [Jobs -> [Steps -> Order]] /\ orders'[j][i] = o
  BY <1>1, <1>2, <1>3
<1>5. \A n \in Steps \ {i} : orders'[j][n] = orders[j][n]
  BY <1>1, <1>2
<1>6. \A k \in Jobs \ {j} : orders'[k] = orders[k]
  BY <1>1, <1>2
<1> QED
  BY <1>4, <1>5, <1>6 DEF o

\* The step's one cancel leaves: from the wait, or from a salvage.
LEMMA CancelLeaves ==
  ASSUME TypeOK, NEW j \in Jobs, JobInv(j), pc[j] \in Before \cup {"placing"} \cup Sent,
         status[j] = "working", seen[j] = "working", ~cancelSent[j],
         NEW where \in {"canceling", "salvage"},
         pc' = [pc EXCEPT ![j] = where],
         CancelOnWire(j, index[j]), cancelSent' = [cancelSent EXCEPT ![j] = TRUE],
         stop' \in BOOLEAN, placementEnded' \in BOOLEAN,
         UNCHANGED <<halted, cancelled, status, filled, index, seen, differs, outcome, position>>
  PROVE  Kept(j)
<1>1. pc[j] \in Sent /\ Exposed(j) /\ Current(j).cancels = 0 /\ index[j] \in Steps
      /\ Current(j).st \notin {"none", "sent"}
  BY DEF JobInv, Place, Cancels, Exposed, Before, Sent
<1> DEFINE o == [Current(j) EXCEPT !.cancel = "sent", !.cancels = 1]
<1>2. Current(j) \in Order
  BY <1>1 DEF TypeOK, Current
<1>3. /\ o \in Order /\ o.st = Current(j).st /\ o.qty = Current(j).qty
      /\ o.filled = Current(j).filled /\ o.cancels = 1
  BY <1>2 DEF Order
<1>4. OrderSound(o)
  BY <1>1, <1>3 DEF JobInv, Place, OrderSound, Current
<1>5. /\ orders' \in [Jobs -> [Steps -> Order]]
      /\ orders'[j][index[j]] = o
      /\ \A i \in Steps \ {index[j]} : orders'[j][i] = orders[j][i]
      /\ \A k \in Jobs \ {j} : orders'[k] = orders[k]
  <2>1. Current(j).cancels + 1 = 1
    BY <1>1
  <2>2. /\ orders' \in [Jobs -> [Steps -> Order]]
        /\ \A i \in Steps \ {index[j]} : orders'[j][i] = orders[j][i]
        /\ \A k \in Jobs \ {j} : orders'[k] = orders[k]
    BY <1>1, OnWire
  <2>3. orders'[j][index[j]] = [Current(j) EXCEPT !.cancel = "sent",
                                                 !.cancels = Current(j).cancels + 1]
    BY <1>1, OnWire, Zenon DEF Current
  <2> QED
    BY <2>1, <2>2, <2>3
<1> HIDE DEF o
<1>6. /\ pc'[j] = where /\ pc' \in [Jobs -> PcValue]
      /\ cancelSent'[j] /\ cancelSent' \in [Jobs -> BOOLEAN]
      /\ \A k \in Jobs \ {j} : pc'[k] = pc[k] /\ cancelSent'[k] = cancelSent[k]
  BY DEF TypeOK, PcValue
<1>7. TypeOK'
  BY <1>5, <1>6 DEF TypeOK
<1>8. Exposed(j)'
  BY <1>1, <1>3, <1>5 DEF Exposed, Current, Open
<1>9. Place(j)'
  <2>1. \A i \in Steps : OrderSound(orders'[j][i])
    BY <1>4, <1>5 DEF JobInv, Place
  <2>2. \A i \in Steps : i > index'[j] => orders'[j][i].st = "none"
    BY <1>1, <1>5 DEF JobInv, Place, Steps
  <2>3. Current(j)'.st # "sent" /\ (seen'[j] \in TerminalOrder => Current(j)'.st = seen'[j])
    BY <1>1, <1>3, <1>5 DEF Current, TerminalOrder
  <2> QED
    BY <1>6, <1>8, <2>1, <2>2, <2>3 DEF Place, Before, Sent
<1>10. Ending(j)' /\ Cancels(j)'
  <2>1. \A i \in Steps : orders'[j][i].cancels <= 1
    BY <1>1, <1>3, <1>5 DEF JobInv, Cancels, Sent
  <2> QED
    BY <1>6, <2>1 DEF Ending, Cancels
<1> QED
  BY <1>5, <1>6, <1>7, <1>9, <1>10 DEF Kept, JobInv, Untouched

\* The cancel is over, one way or another: the reads follow.
LEMMA ToConfirm ==
  ASSUME TypeOK, NEW j \in Jobs, JobInv(j), pc[j] \in {"wait", "canceling"},
         Goto(j, "confirm"), stop' \in BOOLEAN,
         outcome' \in [Jobs -> {"none", "accepted", "refused", "unknown"}],
         UNCHANGED <<halted, cancelled, filled, index, seen, cancelSent, differs, orders, position>>
  PROVE  Kept(j)
<1>1. pc[j] \in Sent /\ status[j] = "working" /\ Exposed(j)
  BY DEF Sent, JobInv, Ending, Place
<1>2. /\ pc'[j] = "confirm" /\ pc' \in [Jobs -> PcValue]
      /\ UNCHANGED <<status, placementEnded>>
      /\ \A k \in Jobs \ {j} : pc'[k] = pc[k]
  BY DEF Goto, TypeOK, PcValue
<1>3. TypeOK'
  BY <1>2 DEF TypeOK
<1>4. Exposed(j)'
  BY <1>1 DEF Exposed, Current, Open
<1>5. Place(j)'
  BY <1>1, <1>2, <1>4 DEF JobInv, Place, Before, Sent, Current
<1>6. Ending(j)' /\ Cancels(j)'
  BY <1>1, <1>2 DEF JobInv, Ending, Cancels, Sent, Current
<1> QED
  BY <1>1, <1>2, <1>3, <1>5, <1>6 DEF Kept, JobInv, Untouched

LEMMA StepSendCancel ==
  ASSUME TypeOK, NEW j \in Jobs, JobInv(j), SendCancel(j)
  PROVE  Kept(j)
<1>1. pc[j] = "wait" /\ status[j] = "working" /\ seen[j] = "working" /\ stop \in BOOLEAN
      /\ placementEnded \in BOOLEAN
  BY DEF SendCancel, JobInv, Ending, TypeOK
<1>2. CASE JustEnd(j, "unknown")
  BY <1>1, <1>2, EndUnknown DEF JustEnd, runVars, stepVars, brokerVars, Quiet
<1>3. CASE /\ ~cancelSent[j] /\ stop' \in BOOLEAN
           /\ CancelOnWire(j, index[j])
           /\ cancelSent' = [cancelSent EXCEPT ![j] = TRUE]
           /\ Goto(j, "canceling")
           /\ UNCHANGED <<halted, cancelled, filled, index, seen, differs, outcome, position>>
  BY <1>1, <1>3, CancelLeaves DEF Goto, Sent
<1>4. CASE /\ stop' = TRUE
           /\ outcome' = [outcome EXCEPT ![j] = "refused"]
           /\ Goto(j, "confirm")
           /\ UNCHANGED <<halted, cancelled, filled, index, seen, cancelSent, differs, brokerVars>>
  BY <1>1, <1>4, ToConfirm DEF TypeOK, brokerVars
<1> QED
  BY <1>1, <1>2, <1>3, <1>4 DEF SendCancel

\* The job waits for or learns something; its order and its counts stay.
LEMMA StepLearns ==
  ASSUME TypeOK, NEW j \in Jobs, JobInv(j), status[j] = "unknown" => placementEnded,
         PollOrder(j) \/ CancelReturns(j)
  PROVE  Kept(j)
<1>1. pc[j] \in Sent /\ status[j] = "working" /\ Exposed(j)
  BY DEF PollOrder, CancelReturns, Sent, JobInv, Ending, Place
<1>2. CASE PollOrder(j)
  <2>1. UNCHANGED <<stop, halted, cancelled, placementEnded, pc, status, filled, index,
                    cancelSent, differs, outcome, orders, position>>
    BY <1>2 DEF PollOrder, runVars, brokerVars
  <2>2. Current(j).st \in OrderState \ {"none", "sent"}
    BY <1>1 DEF JobInv, Place, Exposed, TypeOK, Order, Current
  <2>3. /\ seen'[j] = Current(j).st /\ seen' \in [Jobs -> OrderState \ {"sent"}]
        /\ \A k \in Jobs \ {j} : seen'[k] = seen[k]
    BY <1>2, <2>2 DEF PollOrder, TypeOK
  <2>4. TypeOK'
    BY <2>1, <2>3 DEF TypeOK
  <2>5. JobInv(j)'
    BY <1>1, <2>1, <2>2, <2>3
       DEF JobInv, Place, Ending, Cancels, Exposed, Settled, Current, Open, Before, Sent
  <2> QED
    BY <1>1, <2>1, <2>3, <2>4, <2>5 DEF Kept, Untouched
<1>3. CASE CancelReturns(j)
  <2>1. stop' \in BOOLEAN /\ stop' = stop
    BY <1>3 DEF CancelReturns, runVars, TypeOK
  <2>2. outcome' \in [Jobs -> {"none", "accepted", "refused", "unknown"}]
    BY <1>3 DEF CancelReturns, TypeOK
  <2> QED
    BY <1>3, <2>1, <2>2, ToConfirm DEF CancelReturns, runVars, brokerVars
<1> QED
  BY <1>2, <1>3

LEMMA StepInterrupt ==
  ASSUME TypeOK, NEW j \in Jobs, JobInv(j), Interrupt(j)
  PROVE  Kept(j)
<1>1. /\ pc[j] \notin {"idle", "reserved", "done"} /\ stop' \in BOOLEAN
      /\ placementEnded' = TRUE
      /\ UNCHANGED <<halted, cancelled, filled, index, seen, differs, outcome, position>>
  BY DEF Interrupt, FailurePoints, Checkpoints, TypeOK
<1>2. status[j] = "working" /\ pc[j] \in Before \cup {"placing"} \cup Sent
  BY <1>1 DEF JobInv, Ending, TypeOK, PcValue, Before, Sent
<1>3. CASE /\ seen[j] = "working" /\ ~cancelSent[j]
           /\ CancelOnWire(j, index[j])
           /\ cancelSent' = [cancelSent EXCEPT ![j] = TRUE]
           /\ pc' = [pc EXCEPT ![j] = "salvage"]
           /\ UNCHANGED status
  BY <1>1, <1>2, <1>3, CancelLeaves
<1>4. CASE EndJob(j, "unknown", TRUE) /\ UNCHANGED <<cancelSent, orders>>
  BY <1>1, <1>4, EndUnknown DEF Quiet
<1> QED
  BY <1>3, <1>4 DEF Interrupt

LEMMA StepEndSalvage ==
  ASSUME TypeOK, NEW j \in Jobs, JobInv(j), EndSalvage(j)
  PROVE  Kept(j)
<1>1. /\ pc[j] = "salvage" /\ pc[j] \in Sent /\ status[j] = "working"
      /\ Quiet /\ UNCHANGED <<cancelSent, orders, position>>
      /\ EndJob(j, "unknown", TRUE)
  BY DEF EndSalvage, JobInv, Ending, Sent, Quiet, runVars, stepVars, brokerVars, TypeOK
<1>2. CASE UNCHANGED filled
  BY <1>1, <1>2, EndUnknown
<1>3. CASE Current(j).st \in TerminalOrder /\ Settle(j)
  BY <1>1, <1>3, EndCounted DEF WalkStatus
<1> QED
  BY <1>2, <1>3 DEF EndSalvage

----------------------------------------------------------------------------
(* The broker, the agent and the run                                       *)

\* An order may fill and close, and be cancelled again once its job is done.
LEMMA OrderMoves ==
  ASSUME TypeOK, NEW j \in Jobs, JobInv(j), status[j] = "unknown" => placementEnded,
         NEW i \in Steps, NEW d \in Nat, NEW o \in Order, OrderSound(o),
         orders' \in [Jobs -> [Steps -> Order]], orders'[j][i] = o,
         \A n \in Steps \ {i} : orders'[j][n] = orders[j][n],
         \A k \in Jobs \ {j} : orders'[k] = orders[k],
         o.qty = orders[j][i].qty, o.st = "none" <=> orders[j][i].st = "none",
         o.st = "sent" => orders[j][i].st = "sent",
         Open(o) => Open(orders[j][i]),
         ~Open(orders[j][i]) => o.st = orders[j][i].st /\ d = 0,
         o.cancels = orders[j][i].cancels \/ pc[j] = "done",
         position' \in [Jobs -> Nat],
         o.filled = orders[j][i].filled + d, position'[j] = position[j] + d,
         \A k \in Jobs \ {j} : position'[k] = position[k],
         UNCHANGED <<runVars, placementEnded, pc, status, filled, stepVars>>
  PROVE  Kept(j)
<1>1. UNCHANGED <<stop, halted, cancelled, placementEnded, pc, status, filled, index, seen,
                  cancelSent, differs, outcome>>
  BY DEF runVars, stepVars
<1>2. TypeOK'
  BY <1>1 DEF TypeOK
<1>3. /\ orders[j][i] \in Order /\ position[j] \in Nat /\ position'[j] \in Nat
      /\ orders[j][i].filled \in Nat /\ o.filled \in Nat
      /\ filled[j] \in Nat /\ pc[j] \in PcValue
  BY DEF TypeOK, Order
<1>4. ASSUME Settled(j) PROVE Settled(j)'
  <2>1. ~Open(orders[j][i]) /\ ~Open(o)
    BY <1>4 DEF Settled
  <2>2. position'[j] = position[j]
    BY <1>3, <2>1
  <2> QED
    BY <1>1, <1>4, <2>1, <2>2 DEF Settled, Open
<1>5. ASSUME Exposed(j) PROVE Exposed(j)'
  <2>1. CASE i = index[j]
    <3>1. position[j] = filled[j] + orders[j][i].filled
      BY <1>5, <2>1 DEF Exposed, Current
    <3>2. position'[j] = filled[j] + o.filled
      BY <1>3, <3>1
    <3>3. Current(j)' = o /\ filled'[j] = filled[j] /\ index'[j] = index[j]
      BY <1>1, <2>1 DEF Current
    <3> QED
      BY <1>5, <2>1, <3>2, <3>3 DEF Exposed, Current, Open
  <2>2. CASE i # index[j]
    <3>1. ~Open(orders[j][i]) /\ ~Open(o)
      BY <1>5, <2>2 DEF Exposed
    <3>2. position'[j] = position[j]
      BY <1>3, <3>1
    <3>3. index[j] \in Steps /\ Current(j)' = Current(j)
      BY <1>1, <1>5, <2>2 DEF Exposed, Current
    <3> QED
      BY <1>1, <1>5, <3>2, <3>3, <3>1 DEF Exposed, Open
  <2> QED
    BY <2>1, <2>2
<1>6. /\ \A n \in Steps : OrderSound(orders'[j][n])
      /\ \A n \in Steps : n > index'[j] => orders'[j][n].st = "none"
  BY <1>1 DEF JobInv, Place
<1>7. pc[j] \in Before /\ index[j] \in Steps => Current(j)'.st = "none"
  BY <1>1 DEF JobInv, Place, Current
<1>8. ASSUME pc[j] \in Sent
      PROVE  Current(j)'.st # "sent" /\ (seen[j] \in TerminalOrder => Current(j)'.st = seen[j])
  <2>1. /\ index[j] \in Steps /\ Current(j).st # "sent"
        /\ seen[j] \in TerminalOrder => Current(j).st = seen[j]
    BY <1>8 DEF JobInv, Place, Exposed
  <2>2. CASE i = index[j]
    BY <1>1, <2>1, <2>2 DEF Current, Open, TerminalOrder
  <2>3. CASE i # index[j]
    BY <1>1, <2>1, <2>3 DEF Current
  <2> QED
    BY <2>2, <2>3
<1>9. Place(j)'
  BY <1>1, <1>4, <1>5, <1>6, <1>7, <1>8 DEF JobInv, Place
<1>10. Ending(j)'
  BY <1>1 DEF JobInv, Ending
<1>11. Cancels(j)'
  <2> SUFFICES ASSUME pc[j] # "done" PROVE Cancels(j)'
    BY <1>1 DEF Cancels
  <2>1. \A n \in Steps : orders'[j][n].cancels = orders[j][n].cancels
    OBVIOUS
  <2>2. pc[j] \in Sent \cup {"placing"} => index[j] \in Steps
    BY DEF JobInv, Place, Exposed
  <2> QED
    BY <1>1, <2>1, <2>2 DEF JobInv, Cancels, Current
<1> QED
  BY <1>1, <1>2, <1>9, <1>10, <1>11 DEF Kept, JobInv, Untouched

LEMMA StepBroker ==
  ASSUME TypeOK, NEW j \in Jobs, JobInv(j), status[j] = "unknown" => placementEnded,
         NEW i \in Steps, BrokerStep(j, i)
  PROVE  Kept(j)
<1> DEFINE old == orders[j][i]
<1>1. /\ orders \in [Jobs -> [Steps -> Order]] /\ old \in Order /\ OrderSound(old)
      /\ old.filled \in Nat /\ old.qty \in Nat /\ position \in [Jobs -> Nat]
      /\ old.filled = old.filled + 0 /\ position[j] = position[j] + 0
  BY DEF TypeOK, JobInv, Place, Order
<1>2. ASSUME NEW st \in {"working", "rejected", "cancelled"}, UpdateOrder(j, i, st),
             \/ old.st = "sent" /\ st \in {"working", "rejected"}
             \/ old.st = "working" /\ st = "cancelled"
      PROVE  Kept(j)
  <2> DEFINE o == [old EXCEPT !.st = st]
  <2>1. o \in Order /\ o.st = st /\ o.qty = old.qty /\ o.filled = old.filled
        /\ o.cancels = old.cancels
    BY <1>1 DEF Order, OrderState
  <2>2. OrderSound(o)
    BY <1>1, <1>2, <2>1 DEF OrderSound
  <2>3. /\ orders' \in [Jobs -> [Steps -> Order]] /\ orders'[j][i] = o
        /\ \A n \in Steps \ {i} : orders'[j][n] = orders[j][n]
        /\ \A k \in Jobs \ {j} : orders'[k] = orders[k]
    BY <1>1, <1>2, <2>1 DEF UpdateOrder
  <2>4. UNCHANGED <<runVars, placementEnded, pc, status, filled, stepVars, position>>
    BY <1>2 DEF UpdateOrder
  <2> HIDE DEF o
  <2> QED
    <3>1. /\ Open(o) => Open(old)
          /\ ~Open(old) => o.st = old.st
          /\ o.st = "none" <=> old.st = "none"
          /\ o.st = "sent" => old.st = "sent"
          /\ 0 \in Nat /\ o.filled = old.filled + 0 /\ position'[j] = position[j] + 0
          /\ position' \in [Jobs -> Nat] /\ \A k \in Jobs \ {j} : position'[k] = position[k]
      BY <1>1, <1>2, <2>1, <2>4 DEF Open
    <3>2. UNCHANGED <<runVars, placementEnded, pc, status, filled, stepVars>>
      BY <2>4
    <3> QED
      BY <2>1, <2>2, <2>3, <3>1, <3>2, OrderMoves
<1>3. ASSUME BrokerFills(j, i) PROVE Kept(j)
  <2> DEFINE o == [old EXCEPT !.filled = old.filled + 1,
                              !.st = IF old.filled + 1 = old.qty THEN "filled" ELSE "working"]
  <2>1. old.st = "working" /\ old.filled < old.qty /\ old.filled + 1 \in Nat
    BY <1>1, <1>3 DEF BrokerFills, OrderSound
  <2>2. /\ o \in Order /\ o.qty = old.qty /\ o.filled = old.filled + 1 /\ o.cancels = old.cancels
        /\ o.st = IF old.filled + 1 = old.qty THEN "filled" ELSE "working"
    <3> DEFINE n == old.filled + 1
               s == IF n = old.qty THEN "filled" ELSE "working"
    <3>1. n \in Nat /\ s \in OrderState
      BY <1>1 DEF OrderState
    <3> HIDE DEF n, s
    <3>2. /\ [old EXCEPT !.filled = n, !.st = s] \in Order
          /\ [old EXCEPT !.filled = n, !.st = s].qty = old.qty
          /\ [old EXCEPT !.filled = n, !.st = s].filled = n
          /\ [old EXCEPT !.filled = n, !.st = s].cancels = old.cancels
          /\ [old EXCEPT !.filled = n, !.st = s].st = s
      BY <1>1, <3>1 DEF Order
    <3> QED
      BY <3>2 DEF n, s
  <2>3. /\ orders' \in [Jobs -> [Steps -> Order]] /\ orders'[j][i] = o
        /\ \A n \in Steps \ {i} : orders'[j][n] = orders[j][n]
        /\ \A k \in Jobs \ {j} : orders'[k] = orders[k]
    <3>1. orders' = [orders EXCEPT ![j] = [orders[j] EXCEPT ![i] = o]]
      BY <1>3 DEF BrokerFills
    <3>2. o \in Order
      BY <2>2
    <3> HIDE DEF o
    <3> QED
      BY <1>1, <3>1, <3>2
  <2>4. /\ position' \in [Jobs -> Nat] /\ position'[j] = position[j] + 1
        /\ \A k \in Jobs \ {j} : position'[k] = position[k]
        /\ position[j] \in Nat
        /\ UNCHANGED <<runVars, placementEnded, pc, status, filled, stepVars>>
    BY <1>1, <1>3 DEF BrokerFills
  <2> HIDE DEF o
  <2>5. OrderSound(o)
    BY <1>1, <2>1, <2>2 DEF OrderSound
  <2>6. /\ o.st = "none" <=> old.st = "none"
        /\ o.st = "sent" => old.st = "sent"
        /\ Open(old)
    BY <2>1, <2>2 DEF Open
  <2> QED
    BY <2>2, <2>3, <2>4, <2>5, <2>6, OrderMoves
<1>4. ASSUME BrokerTakesCancel(j, i) PROVE Kept(j)
  <2> DEFINE c == IF old.st = "working" THEN "accepted" ELSE "refused"
             o == [old EXCEPT !.cancel = c]
  <2>1. c \in {"none", "sent", "accepted", "refused"}
    OBVIOUS
  <2>2. orders' = [orders EXCEPT ![j][i].cancel = c]
    BY <1>4 DEF BrokerTakesCancel
  <2>3. UNCHANGED <<runVars, placementEnded, pc, status, filled, stepVars, position>>
    BY <1>4 DEF BrokerTakesCancel
  <2> HIDE DEF c
  <2>4. o \in Order /\ o.st = old.st /\ o.qty = old.qty /\ o.filled = old.filled
        /\ o.cancels = old.cancels
    BY <1>1, <2>1 DEF Order
  <2>5. OrderSound(o)
    BY <1>1, <2>4 DEF OrderSound
  <2>6. /\ orders' \in [Jobs -> [Steps -> Order]] /\ orders'[j][i] = o
        /\ \A n \in Steps \ {i} : orders'[j][n] = orders[j][n]
        /\ \A k \in Jobs \ {j} : orders'[k] = orders[k]
    BY <1>1, <2>2, <2>4
  <2> HIDE DEF o
  <2> QED
    BY <1>1, <2>3, <2>4, <2>5, <2>6, OrderMoves DEF Open
<1> QED
  BY <1>2, <1>3, <1>4 DEF BrokerStep, BrokerReceives, BrokerCloses

\* The agent reaches no order a job at work has placed: it can only be done.
LEMMA StepAgentCancels ==
  ASSUME TypeOK, NEW j \in Jobs, JobInv(j), status[j] = "unknown" => placementEnded,
         NEW i \in Steps, AgentCancels(j, i)
  PROVE  Kept(j)
<1> DEFINE old == orders[j][i]
           o == [old EXCEPT !.cancel = "sent", !.cancels = old.cancels + 1]
<1>1. /\ old \in Order /\ OrderSound(old) /\ old.st = "working" /\ old.cancels \in Nat
      /\ position \in [Jobs -> Nat] /\ position[j] \in Nat
      /\ old.filled \in Nat /\ old.qty \in Nat
      /\ old.filled = old.filled + 0 /\ position[j] = position[j] + 0
  BY DEF TypeOK, JobInv, Place, Order, AgentCancels
<1>2. pc[j] = "done"
  <2>1. ~Holds(j, i) /\ ~Placing /\ Open(old)
    BY <1>1 DEF AgentCancels, Open
  <2>2. pc[j] \notin Before
    BY <2>1 DEF JobInv, Place, Settled
  <2>3. pc[j] # "placing"
    BY <2>1 DEF Placing
  <2>4. pc[j] \notin Sent
    <3> SUFFICES ASSUME pc[j] \in Sent PROVE FALSE
      OBVIOUS
    <3>1. i = index[j] /\ seen[j] # "none" /\ status[j] = "working"
      BY <2>1 DEF JobInv, Place, Exposed, Ending, Sent
    <3> QED
      BY <2>1, <3>1 DEF Holds, Active
  <2> QED
    BY <2>2, <2>3, <2>4 DEF TypeOK, PcValue, Before, Sent
<1>3. /\ orders' \in [Jobs -> [Steps -> Order]] /\ orders'[j][i] = o
      /\ \A n \in Steps \ {i} : orders'[j][n] = orders[j][n]
      /\ \A k \in Jobs \ {j} : orders'[k] = orders[k]
      /\ UNCHANGED <<runVars, placementEnded, pc, status, filled, stepVars, position>>
  BY OnWire DEF AgentCancels
<1>4. o \in Order /\ o.st = old.st /\ o.qty = old.qty /\ o.filled = old.filled
  <2>1. o \in Order
    BY <1>3 
  <2> QED
    BY <1>1, <2>1 DEF Order
<1> HIDE DEF o
<1>5. OrderSound(o)
  BY <1>1, <1>4 DEF OrderSound
<1> QED
  BY <1>1, <1>2, <1>3, <1>4, <1>5, OrderMoves DEF Open

----------------------------------------------------------------------------
(* The invariant holds                                                     *)

\* What a job does once it is admitted.
Acts(j) == Release(j) \/ Start(j) \/ JobStep(j) \/ PollOrder(j) \/ Interrupt(j)

LEMMA ActsKeep ==
  ASSUME IInv, NEW j \in Jobs, Acts(j)
  PROVE  Kept(j)
<1>1. TypeOK /\ JobInv(j) /\ (status[j] = "unknown" => placementEnded)
  BY DEF IInv
<1>2. CASE Release(j) \/ Start(j) \/ PollOrder(j) \/ Interrupt(j)
  BY <1>1, <1>2, StepRelease, StepStart, StepLearns, StepInterrupt
<1>3. CASE JobStep(j)
  BY <1>1, <1>3, StepBegin, StepQuoteReview, StepLock, StepPlaceReturns, StepEndWait,
     StepSendCancel, StepLearns, StepConfirm, StepEndSalvage DEF JobStep
<1> QED
  BY <1>2, <1>3 DEF Acts

\* Only Reserve brings a job to work, and nothing takes placement_ended back.
LEMMA ActsGuarded ==
  ASSUME TypeOK, NEW j \in Jobs, Acts(j)
  PROVE  pc[j] \notin {"idle", "done"} /\ (placementEnded => placementEnded')
<1>1. ASSUME NEW st, NEW e, EndJob(j, st, e) PROVE placementEnded => placementEnded'
  BY <1>1, Zenon DEF EndJob
<1>2. ASSUME NEW st, JustEnd(j, st) PROVE placementEnded => placementEnded'
  BY <1>1, <1>2, Zenon DEF JustEnd
<1>3. ASSUME NEW w, Goto(j, w) PROVE placementEnded => placementEnded'
  BY <1>3, Zenon DEF Goto
<1>4. ASSUME CloseStep(j) PROVE placementEnded => placementEnded'
  BY <1>1, <1>3, <1>4, Zenon DEF CloseStep
<1>5. CASE Release(j) \/ Start(j) \/ PollOrder(j) \/ Interrupt(j)
  <2>1. pc[j] \notin {"idle", "done"}
    BY <1>5 DEF Release, Start, PollOrder, Interrupt, FailurePoints, Checkpoints
  <2>2. placementEnded => placementEnded'
    BY <1>3, <1>5 DEF Release, Start, PollOrder, Interrupt
  <2> QED
    BY <2>1, <2>2
<1>6. CASE BeginStep(j) \/ ReadQuote(j) \/ Review(j)
  <2>1. pc[j] \notin {"idle", "done"}
    BY <1>6 DEF BeginStep, ReadQuote, Review
  <2>2. placementEnded => placementEnded'
    BY <1>2, <1>3, <1>6, Zenon DEF BeginStep, ReadQuote, Review
  <2> QED
    BY <2>1, <2>2
<1>7. CASE TakeLock(j) \/ PlaceBesideOthers(j)
  <2>1. pc[j] \notin {"idle", "done"}
    BY <1>7 DEF TakeLock, PlaceBesideOthers
  <2>2. SendPlacement(j) => (placementEnded => placementEnded')
    BY <1>1, <1>2, <1>3, Zenon DEF SendPlacement
  <2>3. placementEnded => placementEnded'
    BY <1>2, <1>3, <1>7, <2>2, Zenon DEF TakeLock, PlaceBesideOthers
  <2> QED
    BY <2>1, <2>3
<1>8. CASE \/ PlaceSucceeds(j) \/ PlaceUnknown(j) \/ EndWait(j) \/ SendCancel(j)
           \/ CancelReturns(j)
  <2>1. pc[j] \notin {"idle", "done"}
    BY <1>8 DEF PlaceSucceeds, PlaceUnknown, EndWait, SendCancel, CancelReturns
  <2>2. placementEnded => placementEnded'
    BY <1>2, <1>3, <1>4, <1>8, Zenon
       DEF PlaceSucceeds, PlaceUnknown, EndWait, Inconsistent, SendCancel, CancelReturns
  <2> QED
    BY <2>1, <2>2
<1>9. CASE Confirm(j) \/ ConfirmGivesUp(j) \/ EndSalvage(j)
  <2>1. pc[j] \notin {"idle", "done"}
    BY <1>9 DEF Confirm, ConfirmGivesUp, EndSalvage
  <2>2. placementEnded => placementEnded'
    BY <1>1, <1>2, <1>4, <1>9, Zenon DEF Confirm, Inconsistent, ConfirmGivesUp, EndSalvage
  <2> QED
    BY <2>1, <2>2
<1> QED
  BY <1>5, <1>6, <1>7, <1>8, <1>9 DEF Acts, JobStep

\* One job's step, seen from all jobs.
LEMMA KeptAll ==
  ASSUME IInv, NEW j \in Jobs, Kept(j), placementEnded => placementEnded'
  PROVE  /\ TypeOK' /\ \A k \in Jobs : JobInv(k)'
         /\ \A k \in Jobs : status'[k] = "unknown" => placementEnded'
<1>1. ASSUME NEW k \in Jobs PROVE JobInv(k)' /\ (status'[k] = "unknown" => placementEnded')
  <2>1. CASE k = j
    BY <2>1 DEF Kept
  <2>2. CASE k # j
    <3>1. JobInv(k) /\ Untouched(k) /\ (status[k] = "unknown" => placementEnded)
      BY <2>2 DEF IInv, Kept
    <3> QED
      BY <3>1, Frame DEF Untouched
  <2> QED
    BY <2>1, <2>2
<1> QED
  BY <1>1 DEF Kept

\* A step that brings nobody to work keeps Admitted.
LEMMA AdmittedShrinks ==
  ASSUME Admitted, \A k \in Jobs : pc'[k] \notin {"idle", "done"} => pc[k] \notin {"idle", "done"}
  PROVE  Admitted'
BY DEF Admitted, AtWork

LEMMA InitIInv == Init => IInv
<1> SUFFICES ASSUME Init PROVE IInv
  OBVIOUS
<1>1. TypeOK
  <2>1. NoOrder \in Order /\ 1 \in 1 .. MaxSteps + 1
    BY OrderWalkAssumption DEF NoOrder, Order, OrderState
  <2>2. orders \in [Jobs -> [Steps -> Order]]
    BY <2>1 DEF Init
  <2> QED
    BY <2>1, <2>2 DEF Init, TypeOK, PcValue, WalkStatus, OrderState
<1>2. ASSUME NEW j \in Jobs PROVE JobInv(j)
  <2>1. /\ pc[j] = "idle" /\ status[j] = "none" /\ filled[j] = 0 /\ index[j] = 1
        /\ seen[j] = "none" /\ ~cancelSent[j] /\ ~differs[j] /\ position[j] = 0
        /\ \A i \in Steps : orders[j][i] = NoOrder
        /\ Target[j] \in Nat \ {0}
    BY OrderWalkAssumption DEF Init
  <2>2. /\ NoOrder.st = "none" /\ NoOrder.filled = 0 /\ NoOrder.qty = 0 /\ NoOrder.cancels = 0
    BY DEF NoOrder
  <2>3. Settled(j) /\ filled[j] < Target[j]
    BY <2>1, <2>2 DEF Settled, Open
  <2>4. Place(j)
    BY <2>1, <2>2, <2>3 DEF Place, OrderSound, Current, Before, Sent
  <2> QED
    BY <2>1, <2>2, <2>4 DEF JobInv, Ending, Cancels, Current, Sent
<1>3. \A j \in Jobs : status[j] # "unknown" /\ pc[j] = "idle"
  BY DEF Init
<1> QED
  BY <1>1, <1>2, <1>3 DEF IInv, Admitted, AtWork

LEMMA NextIInv == IInv /\ [Next]_vars => IInv'
<1> SUFFICES ASSUME IInv, [Next]_vars PROVE IInv'
  OBVIOUS
<1>1. CASE /\ UNCHANGED <<placementEnded, pc, status, filled, stepVars, brokerVars>>
           /\ stop' \in BOOLEAN /\ halted' \in BOOLEAN /\ cancelled' \in BOOLEAN
  <2>1. TypeOK'
    BY <1>1 DEF IInv, TypeOK, stepVars, brokerVars
  <2>2. \A k \in Jobs : Untouched(k)
    BY <1>1 DEF Untouched, stepVars, brokerVars
  <2>3. \A k \in Jobs : JobInv(k)'
    BY <2>2, Frame DEF IInv
  <2>4. Admitted'
    BY <1>1, AdmittedShrinks DEF IInv
  <2> QED
    BY <1>1, <2>1, <2>3, <2>4 DEF IInv
<1>2. ASSUME NEW j \in Jobs, Reserve(j) PROVE IInv'
  <2>1. Kept(j)
    BY <1>2, StepReserve DEF IInv
  <2>2. UNCHANGED placementEnded
    BY <1>2 DEF Reserve, Goto
  <2>3. Admitted'
    <3>1. \A k \in AtWork' : k = j \/ k \in AtWork
      BY <2>1 DEF AtWork, Kept, Untouched
    <3>2. \A k \in AtWork : k # j =>
            j \notin Opening /\ k \notin Opening /\ Contract[j] # Contract[k]
      BY <1>2 DEF Reserve, GateOpen, Compatible
    <3> QED
      BY <3>1, <3>2 DEF IInv, Admitted
  <2> QED
    BY <2>1, <2>2, <2>3, KeptAll DEF IInv
<1>3. ASSUME NEW j \in Jobs, Acts(j) PROVE IInv'
  <2>1. Kept(j)
    BY <1>3, ActsKeep
  <2>2. pc[j] \notin {"idle", "done"} /\ (placementEnded => placementEnded')
    BY <1>3, ActsGuarded DEF IInv
  <2>3. Admitted'
    BY <2>1, <2>2, AdmittedShrinks DEF IInv, Kept, Untouched
  <2> QED
    BY <2>1, <2>2, <2>3, KeptAll DEF IInv
<1>4. ASSUME NEW j \in Jobs, NEW i \in Steps, BrokerStep(j, i) \/ AgentCancels(j, i) PROVE IInv'
  <2>1. Kept(j)
    BY <1>4, StepBroker, StepAgentCancels DEF IInv
  <2>2. UNCHANGED <<placementEnded, pc>>
    BY <1>4 DEF BrokerStep, BrokerReceives, BrokerFills, BrokerCloses, BrokerTakesCancel,
                UpdateOrder, AgentCancels
  <2>3. Admitted'
    BY <2>2, AdmittedShrinks DEF IInv
  <2> QED
    BY <2>1, <2>2, <2>3, KeptAll DEF IInv
<1>5. CASE Stop \/ Halt \/ CancelGroup
  BY <1>1, <1>5 DEF Stop, Halt, CancelGroup, IInv, TypeOK
<1>6. CASE UNCHANGED vars
  BY <1>1, <1>6 DEF vars, runVars, IInv, TypeOK
<1> QED
  BY <1>2, <1>3, <1>4, <1>5, <1>6 DEF Next, Acts

\* The inductive invariant of the walk: see IInv.
THEOREM Invariance == Spec => []IInv
BY InitIInv, NextIInv, PTL DEF Spec

----------------------------------------------------------------------------
(* What the invariant gives                                                *)

\* Where an order of a job may still fill, the job is at work or unknown.
LEMMA OpenMeans ==
  ASSUME IInv, NEW j \in Jobs, NEW i \in Steps, Open(orders[j][i])
  PROVE  Exposed(j) /\ i = index[j] /\ (status[j] = "working" \/ status[j] = "unknown")
<1>1. TypeOK /\ JobInv(j)
  BY DEF IInv
<1>2. pc[j] \in Before \cup {"placing", "done"} \cup Sent
  BY <1>1 DEF TypeOK, PcValue, Before, Sent
<1>3. ~Settled(j)
  BY DEF Settled
<1>4. Exposed(j) /\ (pc[j] = "done" => status[j] = "unknown") /\ pc[j] \notin Before
  BY <1>1, <1>2, <1>3 DEF JobInv, Place
<1>5. pc[j] # "done" => status[j] = "working"
  BY <1>1, <1>4 DEF JobInv, Ending, Before
<1> QED
  BY <1>4, <1>5 DEF Exposed

\* TypeOK: every variable keeps its type, whatever the broker and the failures do.
THEOREM TypeCorrect == Spec => []TypeOK
<1>1. IInv => TypeOK
  BY DEF IInv
<1> QED
  BY <1>1, Invariance, PTL

\* NoOverfill, for any number of jobs and steps and any target: a step asks for what is
\* missing, and no order of an earlier step can fill behind its back.
THEOREM NeverOverfilled == Spec => []NoOverfill
<1>1. IInv => NoOverfill
  <2> SUFFICES ASSUME IInv, NEW j \in Jobs PROVE position[j] <= Target[j]
    BY DEF NoOverfill
  <2>1. TypeOK /\ JobInv(j) /\ Target[j] \in Nat /\ filled[j] \in Nat
    BY OrderWalkAssumption DEF IInv, TypeOK
  <2>2. pc[j] \in Before \cup {"placing", "done"} \cup Sent
    BY <2>1 DEF TypeOK, PcValue, Before, Sent
  <2>3. Settled(j) \/ Exposed(j)
    BY <2>1, <2>2 DEF JobInv, Place
  <2>4. CASE Settled(j)
    BY <2>4 DEF Settled
  <2>5. CASE Exposed(j)
    <3>1. /\ OrderSound(Current(j)) /\ Current(j) \in Order
      BY <2>1, <2>5 DEF JobInv, Place, Exposed, Current, TypeOK
    <3>2. Current(j).filled <= Current(j).qty /\ Current(j).filled \in Nat /\ Current(j).qty \in Nat
      BY <3>1 DEF OrderSound, Order
    <3> QED
      BY <2>1, <2>5, <3>2 DEF Exposed
  <2> QED
    BY <2>3, <2>4, <2>5
<1> QED
  BY <1>1, Invariance, PTL

\* OneOpenOrder: only the current step's order can be open.
THEOREM NeverTwoOpen == Spec => []OneOpenOrder
<1>1. IInv => OneOpenOrder
  BY OpenMeans DEF OneOpenOrder
<1> QED
  BY <1>1, Invariance, PTL

\* OutcomeTruthful: a job that ends otherwise than unknown has counted every execution.
THEOREM OutcomesTrue == Spec => []OutcomeTruthful
<1>1. IInv => OutcomeTruthful
  <2> SUFFICES ASSUME IInv, NEW j \in Jobs
      PROVE  /\ pc[j] = "done" /\ status[j] # "unknown" =>
                   /\ \A i \in Steps : ~Open(orders[j][i])
                   /\ filled[j] = position[j]
                   /\ status[j] = "filled" <=> (filled[j] = Target[j])
                   /\ status[j] = "partially_filled" => filled[j] > 0
                   /\ status[j] = "cancelled" => filled[j] = 0
             /\ (\E i \in Steps : Open(orders[j][i])) => Active(j) \/ placementEnded
    BY Zenon DEF OutcomeTruthful
  <2>1. pc[j] = "done" /\ status[j] # "unknown" => Settled(j)
    BY DEF IInv, JobInv, Place
  <2>2. pc[j] = "done" /\ status[j] # "unknown" =>
          /\ status[j] = "filled" <=> (filled[j] = Target[j])
          /\ status[j] = "partially_filled" => filled[j] > 0
          /\ status[j] = "cancelled" => filled[j] = 0
    BY DEF IInv, JobInv, Ending
  <2>3. (\E i \in Steps : Open(orders[j][i])) => Active(j) \/ placementEnded
    BY OpenMeans DEF IInv, Active
  <2>4. Settled(j) => (\A i \in Steps : ~Open(orders[j][i])) /\ filled[j] = position[j]
    BY DEF Settled
  <2> QED
    BY <2>1, <2>2, <2>3, <2>4
<1> QED
  BY <1>1, Invariance, PTL

\* OneCancelPerOrder: neither the runner nor the agent sends a second one.
THEOREM CancelledOnce == Spec => []OneCancelPerOrder
<1>1. IInv => OneCancelPerOrder
  <2> SUFFICES ASSUME IInv, NEW j \in Jobs, Active(j), NEW i \in Steps
      PROVE  orders[j][i].cancels <= 1
    BY DEF OneCancelPerOrder
  <2>1. pc[j] # "done"
    BY DEF IInv, JobInv, Ending, Active
  <2> QED
    BY <2>1 DEF IInv, JobInv, Cancels
<1> QED
  BY <1>1, Invariance, PTL

\* ConcurrentClosesOnly: what the gate admits stays true while the orders work.
THEOREM ClosesOnly == Spec => []ConcurrentClosesOnly
<1>1. IInv => ConcurrentClosesOnly
  <2> SUFFICES ASSUME IInv, NEW j \in Jobs, NEW k \in Jobs, j # k, Active(j), Active(k)
      PROVE  j \notin Opening /\ k \notin Opening /\ Contract[j] # Contract[k]
    BY DEF ConcurrentClosesOnly
  <2>1. j \in AtWork /\ k \in AtWork
    BY DEF IInv, JobInv, Ending, Active, AtWork
  <2> QED
    BY <2>1 DEF IInv, Admitted
<1> QED
  BY <1>1, Invariance, PTL

\* What a job's step may do to its orders.
LEMMA ActsOrders ==
  ASSUME IInv, NEW j \in Jobs, Acts(j)
  PROVE  \/ UNCHANGED orders
         \/ index[j] \in Steps /\ CancelOnWire(j, index[j])
         \/ GateOpen(j) /\ \A k \in Jobs \ {j} : orders'[k] = orders[k]
<1>1. /\ TypeOK /\ JobInv(j) /\ pc[j] \notin {"idle", "done"}
      /\ \A k \in Jobs \ {j} : orders'[k] = orders[k]
  BY ActsGuarded, ActsKeep DEF IInv, Kept, Untouched
<1>2. seen[j] = "working" => index[j] \in Steps
  BY <1>1 DEF JobInv, Place, Exposed, TypeOK, PcValue, Before, Sent
<1>3. ASSUME NEW st, JustEnd(j, st) PROVE UNCHANGED orders
  BY <1>3 DEF JustEnd, brokerVars
<1>4. CASE Release(j) \/ Start(j) \/ PollOrder(j)
  BY <1>4 DEF Release, Start, PollOrder, brokerVars
<1>5. CASE Interrupt(j) \/ SendCancel(j)
  BY <1>2, <1>3, <1>5 DEF Interrupt, SendCancel, brokerVars
<1>6. CASE BeginStep(j) \/ ReadQuote(j) \/ Review(j)
  BY <1>3, <1>6 DEF BeginStep, ReadQuote, Review, brokerVars
<1>7. CASE TakeLock(j) \/ PlaceBesideOthers(j)
  <2>1. SendPlacement(j) => GateOpen(j) \/ UNCHANGED orders
    BY <1>3 DEF SendPlacement, brokerVars
  <2> QED
    BY <1>1, <1>3, <1>7, <2>1 DEF TakeLock, PlaceBesideOthers, brokerVars
<1>8. CASE \/ PlaceSucceeds(j) \/ PlaceUnknown(j) \/ EndWait(j) \/ CancelReturns(j)
           \/ Confirm(j) \/ ConfirmGivesUp(j) \/ EndSalvage(j)
  BY <1>3, <1>8 DEF PlaceSucceeds, PlaceUnknown, EndWait, CancelReturns, Confirm,
     ConfirmGivesUp, EndSalvage, Inconsistent, CloseStep, brokerVars
<1> QED
  BY <1>4, <1>5, <1>6, <1>7, <1>8 DEF Acts, JobStep

\* NoPlacementAfterStop: the gate is read in the same step the order leaves in.
THEOREM NothingAfterStop == Spec => NoPlacementAfterStop
<1>1. ASSUME IInv, [Next]_vars, stop \/ placementEnded, NEW k \in Jobs, NEW n \in Steps
      PROVE  ~Sends(k, n)
  <2>1. CASE UNCHANGED orders
    BY <2>1 DEF Sends
  <2>2. ASSUME NEW j \in Jobs, NEW i \in Steps, CancelOnWire(j, i) PROVE ~Sends(k, n)
    <3>1. orders'[j][i].st = orders[j][i].st
      <4>1. orders[j][i] \in Order
        BY <1>1 DEF IInv, TypeOK
      <4>2. orders'[j][i] = [orders[j][i] EXCEPT !.cancel = "sent",
                                                 !.cancels = orders[j][i].cancels + 1]
        BY <1>1, <2>2, OnWire DEF IInv
      <4> QED
        BY <4>1, <4>2 DEF Order
    <3>2. /\ \A m \in Steps \ {i} : orders'[j][m] = orders[j][m]
          /\ \A l \in Jobs \ {j} : orders'[l] = orders[l]
      BY <1>1, <2>2, OnWire DEF IInv
    <3> QED
      BY <3>1, <3>2 DEF Sends
  <2>3. ASSUME NEW j \in Jobs, Acts(j) PROVE ~Sends(k, n)
    <3>1. ~GateOpen(j)
      BY <1>1 DEF GateOpen
    <3> QED
      BY <1>1, <2>1, <2>2, <2>3, <3>1, ActsOrders
  <2>4. ASSUME NEW j \in Jobs, NEW i \in Steps, BrokerStep(j, i) PROVE ~Sends(k, n)
    <3>1. orders \in [Jobs -> [Steps -> Order]]
      BY <1>1 DEF IInv, TypeOK
    <3>2. ASSUME NEW st \in {"working", "rejected", "cancelled"}, UpdateOrder(j, i, st)
          PROVE  ~Sends(k, n)
      BY <3>1, <3>2 DEF UpdateOrder, Sends, Order
    <3>3. CASE BrokerFills(j, i)
      BY <3>1, <3>3 DEF BrokerFills, Sends, Order
    <3>4. CASE BrokerTakesCancel(j, i)
      BY <3>1, <3>4 DEF BrokerTakesCancel, Sends, Order
    <3> QED
      BY <2>4, <3>2, <3>3, <3>4 DEF BrokerStep, BrokerReceives, BrokerCloses
  <2>5. CASE Stop \/ Halt \/ CancelGroup \/ UNCHANGED vars \/ \E j \in Jobs : Reserve(j)
    BY <2>1, <2>5 DEF Stop, Halt, CancelGroup, Reserve, vars, brokerVars
  <2>6. ASSUME NEW j \in Jobs, NEW i \in Steps, AgentCancels(j, i) PROVE ~Sends(k, n)
    BY <2>2, <2>6 DEF AgentCancels
  <2> QED
    BY <1>1, <2>3, <2>4, <2>5, <2>6 DEF Next, Acts
<1>2. IInv /\ [Next]_vars => [stop \/ placementEnded =>
                               \A j \in Jobs, i \in Steps : ~Sends(j, i)]_vars
  BY <1>1
<1> QED
  BY <1>2, Invariance, PTL DEF Spec, NoPlacementAfterStop

----------------------------------------------------------------------------
(* The walk implements TradePromise, for every instance: every step of     *)
(* OrderWalk is a step of the promise or changes nothing it speaks of.     *)

ShutNow == stop \/ placementEnded

\* A step the promise does not see for job k.
Same(k) ==
  /\ TradePhase(k)' = TradePhase(k) /\ MayStillFill(k)' = MayStillFill(k)
  /\ position'[k] = position[k] /\ Reported(k)' = Reported(k)

----------------------------------------------------------------------------
(* From one job's facts to an action of the promise                        *)

LEMMA AsStutter ==
  ASSUME TypeOK, TypeOK', \A k \in Jobs : Same(k), ShutNow => ShutNow'
  PROVE  [Promise!Next]_(Promise!vars)
<1>1. /\ [k \in Jobs |-> TradePhase(k)]' = [k \in Jobs |-> TradePhase(k)]
      /\ [k \in Jobs |-> MayStillFill(k)]' = [k \in Jobs |-> MayStillFill(k)]
      /\ [k \in Jobs |-> Reported(k)]' = [k \in Jobs |-> Reported(k)]
      /\ position' = position
  BY DEF Same, TypeOK
<1>2. CASE ShutNow'
  BY <1>1, <1>2, Zenon DEF Promise!Next, Promise!Shut, ShutNow
<1>3. CASE ~ShutNow'
  <2>1. (stop \/ placementEnded)' = (stop \/ placementEnded)
    BY <1>3, Zenon DEF ShutNow
  <2> QED
    BY <1>1, <2>1, Zenon DEF Promise!vars
<1> QED
  BY <1>2, <1>3, Zenon

\* What every action of the promise about job j says of the functions over jobs.
LEMMA Pointwise ==
  ASSUME TypeOK, TypeOK', NEW j \in Jobs, \A k \in Jobs \ {j} : Same(k)
  PROVE  /\ [k \in Jobs |-> TradePhase(k)]'
              = [[k \in Jobs |-> TradePhase(k)] EXCEPT ![j] = TradePhase(j)']
         /\ [k \in Jobs |-> MayStillFill(k)]'
              = [[k \in Jobs |-> MayStillFill(k)] EXCEPT ![j] = MayStillFill(j)']
         /\ [k \in Jobs |-> Reported(k)]'
              = [[k \in Jobs |-> Reported(k)] EXCEPT ![j] = Reported(j)']
         /\ position' = [position EXCEPT ![j] = position'[j]]
         /\ TradePhase(j)' = TradePhase(j) =>
              [k \in Jobs |-> TradePhase(k)]' = [k \in Jobs |-> TradePhase(k)]
         /\ MayStillFill(j)' = MayStillFill(j) =>
              [k \in Jobs |-> MayStillFill(k)]' = [k \in Jobs |-> MayStillFill(k)]
         /\ Reported(j)' = Reported(j) =>
              [k \in Jobs |-> Reported(k)]' = [k \in Jobs |-> Reported(k)]
         /\ position'[j] = position[j] => position' = position
<1>1. \A k \in Jobs \ {j} : /\ TradePhase(k)' = TradePhase(k)
                              /\ MayStillFill(k)' = MayStillFill(k)
                              /\ Reported(k)' = Reported(k)
                              /\ position'[k] = position[k]
  BY DEF Same
<1>2. /\ [k \in Jobs |-> TradePhase(k)]'
            = [[k \in Jobs |-> TradePhase(k)] EXCEPT ![j] = TradePhase(j)']
      /\ TradePhase(j)' = TradePhase(j) =>
            [k \in Jobs |-> TradePhase(k)]' = [k \in Jobs |-> TradePhase(k)]
  BY <1>1
<1>3. /\ [k \in Jobs |-> MayStillFill(k)]'
            = [[k \in Jobs |-> MayStillFill(k)] EXCEPT ![j] = MayStillFill(j)']
      /\ MayStillFill(j)' = MayStillFill(j) =>
            [k \in Jobs |-> MayStillFill(k)]' = [k \in Jobs |-> MayStillFill(k)]
  BY <1>1
<1>4. /\ [k \in Jobs |-> Reported(k)]'
            = [[k \in Jobs |-> Reported(k)] EXCEPT ![j] = Reported(j)']
      /\ Reported(j)' = Reported(j) =>
            [k \in Jobs |-> Reported(k)]' = [k \in Jobs |-> Reported(k)]
  BY <1>1
<1>5. /\ position' = [position EXCEPT ![j] = position'[j]]
      /\ position'[j] = position[j] => position' = position
  BY <1>1 DEF TypeOK
<1> QED
  BY <1>2, <1>3, <1>4, <1>5

LEMMA AsBegin ==
  ASSUME TypeOK, TypeOK', NEW j \in Jobs, \A k \in Jobs \ {j} : Same(k),
         TradePhase(j) = "none", TradePhase(j)' = "working",
         MayStillFill(j)' = MayStillFill(j), position'[j] = position[j],
         Reported(j)' = Reported(j), UNCHANGED <<stop, placementEnded>>
  PROVE  Promise!Begin(j)
BY Pointwise DEF Promise!Begin

LEMMA AsExpose ==
  ASSUME TypeOK, TypeOK', NEW j \in Jobs, \A k \in Jobs \ {j} : Same(k),
         TradePhase(j) = "working", TradePhase(j)' = TradePhase(j), ~stop, ~placementEnded,
         MayStillFill(j) = 0, position[j] < Target[j],
         MayStillFill(j)' = Target[j] - position[j], position'[j] = position[j],
         Reported(j)' = Reported(j), UNCHANGED <<stop, placementEnded>>
  PROVE  Promise!Expose(j)
BY Pointwise DEF Promise!Expose

LEMMA AsExecute ==
  ASSUME TypeOK, TypeOK', NEW j \in Jobs, \A k \in Jobs \ {j} : Same(k),
         TradePhase(j)' = TradePhase(j), MayStillFill(j) > 0,
         MayStillFill(j)' = MayStillFill(j) - 1, position'[j] = position[j] + 1,
         Reported(j)' = Reported(j), UNCHANGED <<stop, placementEnded>>
  PROVE  Promise!Execute(j)
BY Pointwise DEF Promise!Execute

LEMMA AsWithdraw ==
  ASSUME TypeOK, TypeOK', NEW j \in Jobs, \A k \in Jobs \ {j} : Same(k),
         TradePhase(j)' = TradePhase(j), MayStillFill(j) > 0, MayStillFill(j)' = 0,
         position'[j] = position[j],
         Reported(j)' = Reported(j), UNCHANGED <<stop, placementEnded>>
  PROVE  Promise!Withdraw(j)
BY Pointwise DEF Promise!Withdraw

LEMMA AsSettle ==
  ASSUME TypeOK, TypeOK', NEW j \in Jobs, \A k \in Jobs \ {j} : Same(k),
         TradePhase(j) = "working", MayStillFill(j) = 0, TradePhase(j)' = "settled",
         Reported(j)' = position[j], MayStillFill(j)' = MayStillFill(j),
         position'[j] = position[j], ShutNow => ShutNow'
  PROVE  Promise!Settle(j)
<1>1. (stop \/ placementEnded)' \in {stop \/ placementEnded, TRUE}
  BY Zenon DEF ShutNow
<1> QED
  BY <1>1, Pointwise DEF Promise!Settle

LEMMA AsGiveUp ==
  ASSUME TypeOK, TypeOK', NEW j \in Jobs, \A k \in Jobs \ {j} : Same(k),
         TradePhase(j) = "working", TradePhase(j)' = "unknown",
         Reported(j)' \in 0 .. position[j], MayStillFill(j)' = MayStillFill(j),
         position'[j] = position[j], placementEnded'
  PROVE  Promise!GiveUp(j)
<1>1. (stop \/ placementEnded)' = TRUE
  BY Zenon
<1> QED
  BY <1>1, Pointwise DEF Promise!GiveUp

----------------------------------------------------------------------------
(* What the invariant says of the mapped state                             *)

LEMMA MapsExposure ==
  ASSUME TypeOK, NEW j \in Jobs, JobInv(j)
  PROVE  /\ Settled(j) => MayStillFill(j) = 0
         /\ Exposed(j) => MayStillFill(j) = IF Open(Current(j))
                                             THEN Current(j).qty - Current(j).filled ELSE 0
         /\ Settled(j) \/ Exposed(j)
<1>1. Settled(j) => MayStillFill(j) = 0
  BY DEF Settled, MayStillFill
<1>2. ASSUME Exposed(j)
      PROVE  MayStillFill(j) = IF Open(Current(j))
                               THEN Current(j).qty - Current(j).filled ELSE 0
  <2>1. index[j] \in Steps /\ \A i \in Steps : Open(orders[j][i]) => i = index[j]
    BY <1>2 DEF Exposed
  <2>2. CASE Open(Current(j))
    <3>1. (CHOOSE i \in Steps : Open(orders[j][i])) = index[j]
      BY <2>1, <2>2 DEF Current
    <3> QED
      BY <2>1, <2>2, <3>1 DEF MayStillFill, Current
  <2>3. CASE ~Open(Current(j))
    BY <2>1, <2>3 DEF MayStillFill, Current
  <2> QED
    BY <2>2, <2>3
<1>3. Settled(j) \/ Exposed(j)
  BY DEF JobInv, Place, TypeOK, PcValue, Before, Sent
<1> QED
  BY <1>1, <1>2, <1>3

LEMMA MapsOthers ==
  ASSUME NEW k \in Jobs, Untouched(k)
  PROVE  Same(k)
BY DEF Untouched, Same, TradePhase, MayStillFill, Reported, Open

----------------------------------------------------------------------------
(* The three kinds of a job's steps                                        *)

Ends(j) ==
  /\ pc'[j] = "done" /\ status'[j] \notin {"none", "working"}
  /\ UNCHANGED <<orders, position>>

Moves(j) ==
  /\ pc'[j] # "done" /\ status'[j] = status[j]
  /\ UNCHANGED position
  /\ UNCHANGED orders \/ (index[j] \in Steps /\ CancelOnWire(j, index[j]))

Places(j) ==
  /\ pc[j] \in {"lock", "acct"} /\ pc'[j] = "placing" /\ status'[j] = status[j]
  /\ ~stop /\ ~placementEnded
  /\ orders' = [orders EXCEPT ![j][index[j]] = [NoOrder EXCEPT !.st = "sent", !.qty = Remaining(j)]]
  /\ UNCHANGED <<stop, placementEnded, filled, index, position>>

LEMMA EndIs ==
  ASSUME TypeOK, NEW j \in Jobs, NEW st, st \notin {"none", "working"}, NEW e, EndJob(j, st, e),
         UNCHANGED <<orders, position>>
  PROVE  Ends(j)
BY DEF EndJob, TypeOK, Ends

LEMMA JustEndIs ==
  ASSUME TypeOK, NEW j \in Jobs, NEW st, st \notin {"none", "working"}, JustEnd(j, st)
  PROVE  Ends(j) /\ (stop => stop')
BY EndIs, Zenon DEF JustEnd, brokerVars, runVars

LEMMA FinalEnds ==
  ASSUME NEW j, NEW n
  PROVE  Final(j, n) \notin {"none", "working"}
BY DEF Final

LEMMA GotoIs ==
  ASSUME TypeOK, NEW j \in Jobs, NEW w, w # "done", Goto(j, w), UNCHANGED position,
         UNCHANGED orders \/ (index[j] \in Steps /\ CancelOnWire(j, index[j]))
  PROVE  Moves(j)
BY DEF Goto, TypeOK, Moves

LEMMA CloseIs ==
  ASSUME TypeOK, NEW j \in Jobs, CloseStep(j)
  PROVE  (Ends(j) \/ Moves(j)) /\ (stop => stop')
<1>1. UNCHANGED <<stop, orders, position>>
  BY DEF CloseStep, runVars, brokerVars
<1>2. CASE \E st \in {"unknown", "filled", "stopped", "partially_filled"}, e \in BOOLEAN : EndJob(j, st, e)
  BY <1>1, <1>2, EndIs
<1>3. CASE Goto(j, "step")
  BY <1>1, <1>3, GotoIs
<1> QED
  BY <1>1, <1>2, <1>3 DEF CloseStep

LEMMA JobKinds ==
  ASSUME IInv, NEW j \in Jobs, JobStep(j) \/ PollOrder(j) \/ Interrupt(j)
  PROVE  (Ends(j) \/ Moves(j) \/ Places(j)) /\ (stop => stop')
<1>1. TypeOK /\ JobInv(j) /\ pc[j] \notin {"idle", "done"}
  BY ActsGuarded DEF IInv, Acts
<1>2. seen[j] = "working" => index[j] \in Steps
  BY <1>1 DEF JobInv, Place, Exposed, TypeOK, PcValue, Before, Sent
<1>3. CASE BeginStep(j) \/ ReadQuote(j) \/ Review(j)
  <2>1. CASE \E st \in {"stopped", "cancelled", Final(j, filled[j])} : JustEnd(j, st)
    BY <1>1, <2>1, JustEndIs, FinalEnds
  <2>2. CASE /\ \E w \in {"quote", "review", "lock"} : Goto(j, w)
             /\ UNCHANGED <<runVars, filled, stepVars, brokerVars>>
    BY <1>1, <2>2, GotoIs DEF runVars, brokerVars
  <2> QED
    BY <1>3, <2>1, <2>2 DEF BeginStep, ReadQuote, Review
<1>4. CASE TakeLock(j) \/ PlaceBesideOthers(j)
  <2>1. CASE \E st \in {"stopped", Final(j, filled[j])} : JustEnd(j, st)
    BY <1>1, <2>1, JustEndIs, FinalEnds
  <2>2. CASE Goto(j, "acct") /\ UNCHANGED <<runVars, filled, stepVars, brokerVars>>
    BY <1>1, <2>2, GotoIs DEF runVars, brokerVars
  <2>3. CASE SendPlacement(j)
    <3>1. CASE JustEnd(j, "stopped")
      BY <1>1, <3>1, JustEndIs
    <3>2. CASE stop' = TRUE /\ EndJob(j, "stopped", FALSE) /\ UNCHANGED brokerVars
      BY <1>1, <3>2, EndIs DEF brokerVars
    <3>3. CASE /\ GateOpen(j)
               /\ orders' = [orders EXCEPT ![j][index[j]] =
                               [NoOrder EXCEPT !.st = "sent", !.qty = Remaining(j)]]
               /\ Goto(j, "placing")
               /\ UNCHANGED <<runVars, filled, stepVars, position>>
      <4>1. pc[j] \in {"lock", "acct"}
        BY <1>4 DEF TakeLock, PlaceBesideOthers
      <4>2. pc'[j] = "placing" /\ UNCHANGED <<status, placementEnded>>
        BY <1>1, <3>3 DEF Goto, TypeOK
      <4> QED
        BY <3>3, <4>1, <4>2 DEF Places, GateOpen, runVars, stepVars
    <3> QED
      BY <2>3, <3>1, <3>2, <3>3 DEF SendPlacement
  <2> QED
    BY <1>4, <2>1, <2>2, <2>3 DEF TakeLock, PlaceBesideOthers
<1>5. CASE PlaceSucceeds(j) \/ PlaceUnknown(j) \/ CancelReturns(j)
  <2>1. CASE PlaceUnknown(j)
    BY <1>1, <2>1, JustEndIs DEF PlaceUnknown
  <2>2. CASE PlaceSucceeds(j) \/ CancelReturns(j)
    BY <1>1, <2>2, GotoIs DEF PlaceSucceeds, CancelReturns, runVars, brokerVars
  <2> QED
    BY <1>5, <2>1, <2>2
<1>6. CASE EndWait(j) \/ Confirm(j) \/ ConfirmGivesUp(j)
  <2>1. CASE JustEnd(j, "unknown")
    BY <1>1, <2>1, JustEndIs
  <2>2. CASE CloseStep(j)
    BY <1>1, <2>2, CloseIs
  <2>3. CASE EndJob(j, Final(j, filled'[j]), TRUE) /\ UNCHANGED <<runVars, stepVars, brokerVars>>
    BY <1>1, <2>3, EndIs, FinalEnds DEF runVars, brokerVars
  <2> QED
    BY <1>6, <2>1, <2>2, <2>3 DEF EndWait, Confirm, ConfirmGivesUp, Inconsistent
<1>7. CASE SendCancel(j)
  <2>1. CASE JustEnd(j, "unknown")
    BY <1>1, <2>1, JustEndIs
  <2>2. CASE /\ UNCHANGED stop \/ stop' = TRUE
             /\ CancelOnWire(j, index[j]) /\ Goto(j, "canceling") /\ UNCHANGED position
    BY <1>1, <1>2, <1>7, <2>2, GotoIs DEF SendCancel
  <2>3. CASE stop' = TRUE /\ Goto(j, "confirm") /\ UNCHANGED brokerVars
    BY <1>1, <2>3, GotoIs DEF brokerVars
  <2> QED
    BY <1>7, <2>1, <2>2, <2>3 DEF SendCancel
<1>8. CASE PollOrder(j)
  <2>1. pc[j] = "wait" /\ UNCHANGED <<stop, pc, status, orders, position>>
    BY <1>8 DEF PollOrder, runVars, brokerVars
  <2> QED
    BY <2>1 DEF Moves
<1>9. CASE Interrupt(j)
  <2>1. stop => stop'
    BY <1>9 DEF Interrupt
  <2>2. CASE EndJob(j, "unknown", TRUE) /\ UNCHANGED <<cancelSent, orders>>
    BY <1>1, <1>9, <2>1, <2>2, EndIs DEF Interrupt
  <2>3. CASE /\ seen[j] = "working" /\ CancelOnWire(j, index[j])
             /\ pc' = [pc EXCEPT ![j] = "salvage"] /\ UNCHANGED status
    BY <1>1, <1>2, <1>9, <2>1, <2>3 DEF Interrupt, Moves, TypeOK
  <2> QED
    BY <1>9, <2>2, <2>3 DEF Interrupt
<1>10. CASE EndSalvage(j)
  BY <1>1, <1>10, EndIs DEF EndSalvage, runVars, brokerVars
<1> QED
  BY <1>3, <1>4, <1>5, <1>6, <1>7, <1>8, <1>9, <1>10 DEF JobStep

----------------------------------------------------------------------------
(* Every step                                                              *)

\* MayStillFill sees only the states, quantities and fills of the orders.
LEMMA SameFills ==
  ASSUME NEW j \in Jobs,
         \A i \in Steps : /\ orders'[j][i].st = orders[j][i].st
                          /\ orders'[j][i].qty = orders[j][i].qty
                          /\ orders'[j][i].filled = orders[j][i].filled
  PROVE  MayStillFill(j)' = MayStillFill(j)
<1>1. \A i \in Steps : Open(orders'[j][i]) <=> Open(orders[j][i])
  BY DEF Open
<1>2. (CHOOSE i \in Steps : Open(orders'[j][i])) = (CHOOSE i \in Steps : Open(orders[j][i]))
  BY <1>1
<1>3. (\E i \in Steps : Open(orders[j][i])) =>
        (CHOOSE i \in Steps : Open(orders[j][i])) \in Steps
  OBVIOUS
<1> QED
  BY <1>1, <1>2, <1>3 DEF MayStillFill, Open

LEMMA CancelInvisible ==
  ASSUME TypeOK, NEW j \in Jobs, NEW i \in Steps, CancelOnWire(j, i)
  PROVE  MayStillFill(j)' = MayStillFill(j)
<1>1. orders[j][i] \in Order
  BY DEF TypeOK
<1>2. orders'[j][i] = [orders[j][i] EXCEPT !.cancel = "sent",
                                           !.cancels = orders[j][i].cancels + 1]
  BY OnWire
<1>3. /\ orders'[j][i].st = orders[j][i].st /\ orders'[j][i].qty = orders[j][i].qty
      /\ orders'[j][i].filled = orders[j][i].filled
  BY <1>1, <1>2 DEF Order
<1>4. \A n \in Steps \ {i} : orders'[j][n] = orders[j][n]
  BY OnWire
<1> QED
  BY <1>3, <1>4, SameFills

\* The mapped exposure after a step, where only the current order may be open.
LEMMA NextExposure ==
  ASSUME NEW j \in Jobs, index'[j] \in Steps,
         \A i \in Steps : i # index'[j] => ~Open(orders'[j][i])
  PROVE  MayStillFill(j)' = IF Open(orders'[j][index'[j]])
                            THEN orders'[j][index'[j]].qty - orders'[j][index'[j]].filled ELSE 0
<1>1. CASE Open(orders'[j][index'[j]])
  <2>1. (CHOOSE i \in Steps : Open(orders'[j][i])) = index'[j]
    BY <1>1
  <2> QED
    BY <1>1, <2>1 DEF MayStillFill, Open
<1>2. CASE ~Open(orders'[j][index'[j]])
  BY <1>2 DEF MayStillFill, Open
<1> QED
  BY <1>1, <1>2

LEMMA EndsMap ==
  ASSUME IInv, IInv', NEW j \in Jobs, pc[j] \notin {"idle", "reserved", "done"},
         Ends(j), \A k \in Jobs \ {j} : Same(k), ShutNow => ShutNow'
  PROVE  Promise!Next
<1>1. TypeOK /\ TypeOK' /\ JobInv(j) /\ JobInv(j)'
  BY DEF IInv
<1>2. status[j] = "working" /\ status'[j] \notin {"none", "working"} /\ pc'[j] = "done"
  BY <1>1 DEF JobInv, Ending, Ends
<1>3. MayStillFill(j)' = MayStillFill(j) /\ position' = position
  BY DEF Ends, MayStillFill, Open
<1>4. filled'[j] \in 0 .. position'[j]
  <2>1. /\ TypeOK' => filled'[j] \in Nat /\ position'[j] \in Nat
        /\ TypeOK' /\ Exposed(j)' => Current(j)'.filled \in Nat
    BY DEF TypeOK, Exposed, Current, Order
  <2>2. Settled(j)' \/ Exposed(j)'
    BY <1>1, <1>2 DEF JobInv, Place
  <2>3. CASE Settled(j)'
    BY <1>1, <2>1, <2>3 DEF Settled
  <2>4. CASE Exposed(j)'
    BY <1>1, <2>1, <2>4 DEF Exposed
  <2> QED
    BY <2>2, <2>3, <2>4
<1>5. CASE status'[j] = "unknown"
  <2>1. placementEnded'
    BY <1>5 DEF IInv
  <2>2. Promise!GiveUp(j)
    BY <1>1, <1>2, <1>3, <1>4, <1>5, <2>1, AsGiveUp DEF TradePhase, Reported
  <2> QED
    BY <2>2 DEF Promise!Next
<1>6. CASE status'[j] # "unknown"
  <2>1. Settled(j)'
    BY <1>1, <1>2, <1>6 DEF JobInv, Place
  <2>2. position'[j] = filled'[j] /\ \A i \in Steps : ~Open(orders'[j][i])
    BY <2>1 DEF Settled, Open
  <2>3. MayStillFill(j)' = 0
    BY <2>2 DEF MayStillFill, Open
  <2>4. Promise!Settle(j)
    BY <1>1, <1>2, <1>3, <1>6, <2>2, <2>3, AsSettle DEF TradePhase, Reported
  <2> QED
    BY <2>4 DEF Promise!Next
<1> QED
  BY <1>5, <1>6

LEMMA MovesMap ==
  ASSUME IInv, IInv', NEW j \in Jobs, pc[j] # "done",
         Moves(j), \A k \in Jobs \ {j} : Same(k), ShutNow => ShutNow'
  PROVE  [Promise!Next]_(Promise!vars)
<1>1. TypeOK /\ TypeOK'
  BY DEF IInv
<1>2. MayStillFill(j)' = MayStillFill(j)
  <2>1. CASE UNCHANGED orders
    BY <2>1 DEF MayStillFill, Open
  <2>2. CASE index[j] \in Steps /\ CancelOnWire(j, index[j])
    BY <1>1, <2>2, CancelInvisible
  <2> QED
    BY <2>1, <2>2 DEF Moves
<1>3. Same(j)
  BY <1>2 DEF Moves, Same, TradePhase, Reported
<1> QED
  BY <1>1, <1>3, AsStutter

LEMMA PlacesMap ==
  ASSUME IInv, IInv', NEW j \in Jobs, Places(j), \A k \in Jobs \ {j} : Same(k)
  PROVE  Promise!Next
<1>1. TypeOK /\ TypeOK' /\ JobInv(j) /\ JobInv(j)'
  BY DEF IInv
<1>2. /\ status[j] = "working" /\ Settled(j) /\ filled[j] < Target[j] /\ index[j] \in Steps
      /\ position[j] = filled[j]
  BY <1>1 DEF Places, JobInv, Ending, Place, Before, Settled
<1>3. MayStillFill(j) = 0
  BY <1>1, <1>2, MapsExposure
<1>4. orders'[j][index[j]] = [NoOrder EXCEPT !.st = "sent", !.qty = Remaining(j)]
  BY <1>1, <1>2 DEF Places, TypeOK
<1>5. Exposed(j)' /\ Current(j)' = [NoOrder EXCEPT !.st = "sent", !.qty = Remaining(j)]
  BY <1>1, <1>4 DEF Places, JobInv, Place, Current
<1>6. MayStillFill(j)' = Remaining(j)
  <2>1. MayStillFill(j)' = IF Open(Current(j)') THEN Current(j)'.qty - Current(j)'.filled ELSE 0
    <3>1. /\ index'[j] \in Steps /\ Open(orders'[j][index'[j]])
          /\ \A i \in Steps : Open(orders'[j][i]) => i = index'[j]
      BY <1>5 DEF Exposed, Current, NoOrder, Open
    <3>2. (CHOOSE i \in Steps : Open(orders'[j][i])) = index'[j]
      BY <3>1
    <3> QED
      BY <3>1, <3>2 DEF MayStillFill, Current, Open
  <2>2. /\ Open(Current(j)') /\ Current(j)'.qty = Remaining(j) /\ Current(j)'.filled = 0
    BY <1>5 DEF NoOrder, Open
  <2>3. Remaining(j) \in Nat
    <3>1. filled[j] \in Nat /\ Target[j] \in Nat
      BY <1>1, OrderWalkAssumption DEF TypeOK
    <3> QED
      BY <1>2, <3>1 DEF Remaining
  <2> QED
    BY <2>1, <2>2, <2>3
<1>7. Promise!Expose(j)
  BY <1>1, <1>2, <1>3, <1>6, AsExpose DEF Places, TradePhase, Reported, Remaining
<1> QED
  BY <1>7 DEF Promise!Next

LEMMA BrokerMap ==
  ASSUME IInv, IInv', NEW j \in Jobs, NEW i \in Steps, BrokerStep(j, i)
  PROVE  [Promise!Next]_(Promise!vars)
<1> DEFINE old == orders[j][i]
<1>1. /\ TypeOK /\ TypeOK' /\ JobInv(j) /\ old \in Order /\ OrderSound(old)
      /\ old.filled \in Nat /\ old.qty \in Nat
      /\ orders \in [Jobs -> [Steps -> Order]] /\ position \in [Jobs -> Nat]
  BY DEF IInv, TypeOK, JobInv, Place, Order
<1>2. UNCHANGED <<stop, placementEnded, pc, status, filled, index>>
  BY DEF BrokerStep, BrokerReceives, BrokerFills, BrokerCloses, BrokerTakesCancel, UpdateOrder,
         runVars, stepVars
<1>3. TradePhase(j)' = TradePhase(j) /\ Reported(j)' = Reported(j) /\ (ShutNow => ShutNow')
  BY <1>2 DEF TradePhase, Reported, ShutNow
<1>4. \A k \in Jobs \ {j} : orders'[k] = orders[k] /\ position'[k] = position[k]
  BY <1>1 DEF BrokerStep, BrokerReceives, BrokerFills, BrokerCloses, BrokerTakesCancel, UpdateOrder
<1>5. \A k \in Jobs \ {j} : Same(k)
  BY <1>2, <1>4 DEF Same, TradePhase, MayStillFill, Reported, Open
<1>6. ASSUME Open(old), \A n \in Steps \ {i} : orders'[j][n] = orders[j][n]
      PROVE  /\ MayStillFill(j) = old.qty - old.filled
             /\ MayStillFill(j)' = IF Open(orders'[j][i])
                                   THEN orders'[j][i].qty - orders'[j][i].filled ELSE 0
  <2>1. Exposed(j) /\ i = index[j] /\ index'[j] = i
    BY <1>2, <1>6, OpenMeans
  <2>2. MayStillFill(j) = old.qty - old.filled
    BY <1>1, <1>6, <2>1, MapsExposure DEF Current
  <2>3. \A n \in Steps : n # i => ~Open(orders'[j][n])
    BY <1>6, <2>1 DEF Exposed
  <2> QED
    BY <2>1, <2>2, <2>3, NextExposure
<1>7. ASSUME NEW st, UpdateOrder(j, i, st)
      PROVE  /\ orders'[j][i].st = st /\ orders'[j][i].qty = old.qty
             /\ orders'[j][i].filled = old.filled /\ position' = position
             /\ \A n \in Steps \ {i} : orders'[j][n] = orders[j][n]
  BY <1>1, <1>7 DEF UpdateOrder, Order
<1>8. ASSUME UpdateOrder(j, i, "working"), old.st = "sent" PROVE [Promise!Next]_(Promise!vars)
  <2>1. MayStillFill(j)' = MayStillFill(j)
    BY <1>6, <1>7, <1>8 DEF Open
  <2>2. Same(j)
    BY <1>3, <1>7, <1>8, <2>1 DEF Same
  <2> QED
    BY <1>1, <1>3, <1>5, <2>2, AsStutter
<1>9. ASSUME NEW st \in {"rejected", "cancelled"}, UpdateOrder(j, i, st), Open(old)
      PROVE  [Promise!Next]_(Promise!vars)
  <2>1. old.filled < old.qty
    BY <1>1, <1>9 DEF OrderSound, Open
  <2>2. MayStillFill(j) = old.qty - old.filled /\ MayStillFill(j)' = 0
    BY <1>6, <1>7, <1>9 DEF Open
  <2>3. MayStillFill(j) > 0
    BY <1>1, <2>1, <2>2
  <2>4. Promise!Withdraw(j)
    BY <1>1, <1>2, <1>3, <1>5, <1>7, <1>9, <2>2, <2>3, AsWithdraw
  <2> QED
    BY <2>4 DEF Promise!Next
<1>10. CASE BrokerFills(j, i)
  <2>1. /\ old.st = "working" /\ position'[j] = position[j] + 1
        /\ orders'[j][i] = [old EXCEPT !.filled = old.filled + 1,
                              !.st = IF old.filled + 1 = old.qty THEN "filled" ELSE "working"]
        /\ \A n \in Steps \ {i} : orders'[j][n] = orders[j][n]
    BY <1>1, <1>10 DEF BrokerFills
  <2>2. /\ orders'[j][i].qty = old.qty /\ orders'[j][i].filled = old.filled + 1
        /\ orders'[j][i].st = IF old.filled + 1 = old.qty THEN "filled" ELSE "working"
    <3> DEFINE f == old.filled + 1
               t == IF f = old.qty THEN "filled" ELSE "working"
    <3> HIDE DEF f, t
    <3>1. orders'[j][i] = [old EXCEPT !.filled = f, !.st = t]
      BY <2>1, Zenon DEF f, t
    <3>2. orders'[j][i].qty = old.qty /\ orders'[j][i].filled = f /\ orders'[j][i].st = t
      BY <1>1, <3>1 DEF Order
    <3> QED
      BY <3>2 DEF f, t
  <2>3. old.filled < old.qty
    BY <1>1, <2>1 DEF OrderSound
  <2>4. /\ MayStillFill(j) = old.qty - old.filled
        /\ MayStillFill(j)' = IF Open(orders'[j][i])
                              THEN orders'[j][i].qty - orders'[j][i].filled ELSE 0
    BY <1>6, <2>1 DEF Open
  <2>5. MayStillFill(j) > 0 /\ MayStillFill(j)' = MayStillFill(j) - 1
    <3>1. CASE old.filled + 1 = old.qty
      BY <1>1, <2>2, <2>4, <3>1 DEF Open
    <3>2. CASE old.filled + 1 # old.qty
      BY <1>1, <2>2, <2>3, <2>4, <3>2 DEF Open
    <3> QED
      BY <3>1, <3>2
  <2>6. Promise!Execute(j)
    BY <1>1, <1>2, <1>3, <1>5, <2>1, <2>5, AsExecute
  <2> QED
    BY <2>6 DEF Promise!Next
<1>11. CASE BrokerTakesCancel(j, i)
  <2>1. \A n \in Steps : /\ orders'[j][n].st = orders[j][n].st
                         /\ orders'[j][n].qty = orders[j][n].qty
                         /\ orders'[j][n].filled = orders[j][n].filled
    BY <1>1, <1>11 DEF BrokerTakesCancel, Order
  <2>2. position' = position
    BY <1>11 DEF BrokerTakesCancel
  <2>3. Same(j)
    BY <1>3, <2>1, <2>2, SameFills DEF Same
  <2> QED
    BY <1>1, <1>3, <1>5, <2>3, AsStutter
<1> QED
  BY <1>8, <1>9, <1>10, <1>11 DEF BrokerStep, BrokerReceives, BrokerCloses, Open

LEMMA JobMap ==
  ASSUME IInv, IInv', NEW j \in Jobs, Reserve(j) \/ Acts(j)
  PROVE  [Promise!Next]_(Promise!vars)
<1>1. /\ TypeOK /\ TypeOK' /\ JobInv(j) /\ JobInv(j)'
      /\ \A k \in Jobs \ {j} : Untouched(k)
  BY ActsKeep, StepReserve DEF IInv, Kept
<1>2. \A k \in Jobs \ {j} : Same(k)
  BY <1>1, MapsOthers
<1>3. CASE Reserve(j) \/ Release(j)
  <2>1. /\ UNCHANGED <<stop, placementEnded, status, filled, orders, position>>
        /\ pc[j] \in {"idle", "reserved"}
    BY <1>3 DEF Reserve, Release, Goto, runVars, brokerVars
  <2>2. filled[j] = 0
    BY <1>1, <2>1 DEF JobInv, Ending
  <2>3. Same(j)
    BY <2>1, <2>2 DEF Same, TradePhase, Reported, MayStillFill, Open
  <2> QED
    BY <1>1, <1>2, <2>1, <2>3, AsStutter DEF ShutNow
<1>4. CASE Start(j)
  <2>1. /\ UNCHANGED <<stop, placementEnded, filled, orders, position>>
        /\ pc[j] = "reserved" /\ pc'[j] = "step" /\ status'[j] = "working"
    BY <1>1, <1>4 DEF Start, runVars, brokerVars, TypeOK
  <2>2. status[j] = "none"
    BY <1>1, <2>1 DEF JobInv, Ending
  <2>3. /\ TradePhase(j) = "none" /\ TradePhase(j)' = "working"
        /\ MayStillFill(j)' = MayStillFill(j) /\ Reported(j)' = Reported(j)
    BY <2>1, <2>2 DEF TradePhase, Reported, MayStillFill, Open
  <2>4. Promise!Begin(j)
    BY <1>1, <1>2, <2>1, <2>3, AsBegin
  <2> QED
    BY <2>4 DEF Promise!Next
<1>5. CASE JobStep(j) \/ PollOrder(j) \/ Interrupt(j)
  <2>1. (Ends(j) \/ Moves(j) \/ Places(j)) /\ (stop => stop')
    BY <1>5, JobKinds
  <2>2. pc[j] \notin {"idle", "done"} /\ (placementEnded => placementEnded')
    BY <1>1, <1>5, ActsGuarded DEF Acts
  <2>3. ShutNow => ShutNow'
    BY <2>1, <2>2, Zenon DEF ShutNow
  <2>4. pc[j] # "reserved"
    BY <1>5 DEF JobStep, BeginStep, ReadQuote, Review, TakeLock, PlaceBesideOthers, PlaceSucceeds,
       PlaceUnknown, EndWait, SendCancel, CancelReturns, Confirm, ConfirmGivesUp, EndSalvage,
       PollOrder, Interrupt, FailurePoints, Checkpoints
  <2> QED
    BY <1>2, <2>1, <2>2, <2>3, <2>4, EndsMap, MovesMap, PlacesMap
<1> QED
  BY <1>3, <1>4, <1>5 DEF Acts

LEMMA NextMaps == IInv /\ IInv' /\ [Next]_vars => [Promise!Next]_(Promise!vars)
<1> SUFFICES ASSUME IInv, IInv', [Next]_vars PROVE [Promise!Next]_(Promise!vars)
  OBVIOUS
<1>1. TypeOK /\ TypeOK'
  BY DEF IInv
<1>2. ASSUME UNCHANGED <<pc, status, filled, orders, position, placementEnded>>, stop => stop'
      PROVE  [Promise!Next]_(Promise!vars)
  <2>1. \A k \in Jobs : Same(k)
    BY <1>2 DEF Same, TradePhase, MayStillFill, Reported, Open
  <2> QED
    BY <1>1, <1>2, <2>1, AsStutter DEF ShutNow
<1>3. CASE Stop \/ Halt \/ CancelGroup \/ UNCHANGED vars
  BY <1>2, <1>3 DEF Stop, Halt, CancelGroup, vars, runVars, brokerVars
<1>4. ASSUME NEW j \in Jobs, NEW i \in Steps, AgentCancels(j, i)
      PROVE  [Promise!Next]_(Promise!vars)
  <2>1. /\ UNCHANGED <<stop, placementEnded, pc, status, filled, position>>
        /\ CancelOnWire(j, i)
    BY <1>4 DEF AgentCancels, runVars
  <2>2. MayStillFill(j)' = MayStillFill(j) /\ \A k \in Jobs \ {j} : orders'[k] = orders[k]
    BY <1>1, <2>1, CancelInvisible, OnWire
  <2>3. \A k \in Jobs : Same(k)
    BY <2>1, <2>2 DEF Same, TradePhase, MayStillFill, Reported, Open
  <2> QED
    BY <1>1, <2>1, <2>3, AsStutter DEF ShutNow
<1> QED
  BY <1>3, <1>4, JobMap, BrokerMap DEF Next, Acts

\* KeepsPromise: no interleaving of jobs, broker, latch and failures breaks the promise.
THEOREM PromiseKept == Spec => KeepsPromise
<1>1. Init => Promise!Init
  BY DEF Init, Promise!Init, TradePhase, MayStillFill, Reported, Open, NoOrder
<1>2. IInv /\ IInv' /\ [Next]_vars => [Promise!Next]_(Promise!vars)
  BY NextMaps
<1> QED
  BY <1>1, <1>2, Invariance, PTL DEF Spec, KeepsPromise, Promise!Spec

----------------------------------------------------------------------------
(* Why a job ends: what it has left to do only shrinks.  This is the safety *)
(* half of JobsEnd; that a job at work can always move is TLC's part.       *)

\* How far each suspension of a step is from the end of the job, were it the last step.
Rank == [idle |-> 12, reserved |-> 11, step |-> 10, quote |-> 9, review |-> 8, lock |-> 7,
         acct |-> 6, placing |-> 5, wait |-> 4, canceling |-> 3, confirm |-> 2,
         salvage |-> 1, done |-> 0]

\* A new step of the walk costs one of MaxSteps, and is worth more than any suspension.
LeftToDo(j) == 13 * (MaxSteps + 1 - index[j]) + Rank[pc[j]]

\* The job does not move, or moves nearer to its end.
Forward(j) ==
  \/ pc'[j] = pc[j] /\ index'[j] = index[j]
  \/ index'[j] = index[j] /\ Rank[pc'[j]] < Rank[pc[j]]
  \/ index'[j] = index[j] + 1 /\ pc[j] \in {"wait", "confirm"} /\ pc'[j] = "step"

LEMMA RankIs == Rank \in [PcValue -> 0 .. 12]
BY DEF Rank, PcValue

LEMMA ForwardShrinks ==
  ASSUME TypeOK, TypeOK', NEW j \in Jobs, Forward(j)
  PROVE  /\ LeftToDo(j) \in Nat /\ LeftToDo(j)' <= LeftToDo(j)
         /\ pc'[j] # pc[j] => LeftToDo(j)' < LeftToDo(j)
<1>1. /\ index[j] \in 1 .. MaxSteps + 1 /\ index'[j] \in 1 .. MaxSteps + 1 /\ MaxSteps \in Nat
      /\ pc[j] \in PcValue /\ pc'[j] \in PcValue
  BY OrderWalkAssumption DEF TypeOK
<1>2. Rank[pc[j]] \in 0 .. 12 /\ Rank[pc'[j]] \in 0 .. 12
  BY <1>1, RankIs
<1>3. CASE index'[j] = index[j] + 1 /\ pc[j] \in {"wait", "confirm"} /\ pc'[j] = "step"
  <2>1. Rank[pc[j]] \in 0 .. 12 /\ Rank[pc'[j]] = 10
    BY <1>2, <1>3 DEF Rank
  <2>2. Rank[pc[j]] >= 2
    BY <1>3 DEF Rank
  <2> QED
    BY <1>1, <1>3, <2>1, <2>2 DEF LeftToDo
<1>4. CASE index'[j] = index[j] /\ Rank[pc'[j]] < Rank[pc[j]]
  BY <1>1, <1>2, <1>4 DEF LeftToDo
<1>5. CASE pc'[j] = pc[j] /\ index'[j] = index[j]
  BY <1>1, <1>2, <1>5 DEF LeftToDo
<1> QED
  BY <1>3, <1>4, <1>5 DEF Forward

\* Ends and moves of a job, from the pieces of its actions.
LEMMA EndsForward ==
  ASSUME TypeOK, NEW j \in Jobs, pc[j] # "done", NEW st, NEW e, EndJob(j, st, e),
         UNCHANGED index
  PROVE  Forward(j) /\ pc'[j] # pc[j]
<1>1. pc'[j] = "done" /\ pc[j] \in PcValue
  BY DEF EndJob, TypeOK
<1> QED
  BY <1>1 DEF Forward, Rank, PcValue

LEMMA GoesForward ==
  ASSUME TypeOK, NEW j \in Jobs, NEW w \in PcValue, Goto(j, w), Rank[w] < Rank[pc[j]],
         UNCHANGED index
  PROVE  Forward(j) /\ pc'[j] # pc[j]
<1>1. pc'[j] = w /\ pc[j] \in PcValue
  BY DEF Goto, TypeOK
<1>2. Rank[w] \in 0 .. 12 /\ Rank[pc[j]] \in 0 .. 12
  BY <1>1, RankIs
<1> QED
  BY <1>1, <1>2 DEF Forward

LEMMA JustEndsForward ==
  ASSUME TypeOK, NEW j \in Jobs, pc[j] # "done", NEW st, JustEnd(j, st)
  PROVE  Forward(j) /\ pc'[j] # pc[j]
BY EndsForward DEF JustEnd, stepVars

LEMMA CloseForward ==
  ASSUME TypeOK, NEW j \in Jobs, pc[j] \in {"wait", "confirm"}, CloseStep(j)
  PROVE  Forward(j) /\ pc'[j] # pc[j]
<1>1. CASE \E st \in {"unknown", "filled", "stopped", "partially_filled"}, e \in BOOLEAN :
             EndJob(j, st, e) /\ UNCHANGED index
  BY <1>1, EndsForward
<1>2. CASE Goto(j, "step") /\ index' = [index EXCEPT ![j] = @ + 1]
  BY <1>2 DEF Goto, TypeOK, Forward
<1> QED
  BY <1>1, <1>2 DEF CloseStep

\* Every action of a job's own task moves it.
LEMMA JobForward ==
  ASSUME TypeOK, NEW j \in Jobs, JobStep(j)
  PROVE  Forward(j) /\ pc'[j] # pc[j]
<1>1. CASE BeginStep(j) \/ ReadQuote(j) \/ Review(j)
  <2>1. pc[j] \in {"step", "quote", "review"}
    BY <1>1 DEF BeginStep, ReadQuote, Review
  <2>2. CASE \E st \in {"stopped", "cancelled", Final(j, filled[j])} : JustEnd(j, st)
    BY <2>1, <2>2, JustEndsForward
  <2>3. CASE /\ \/ pc[j] = "step" /\ Goto(j, "quote")
                \/ pc[j] = "quote" /\ Goto(j, "review")
                \/ pc[j] = "review" /\ Goto(j, "lock")
             /\ UNCHANGED index
    <3>1. {"quote", "review", "lock"} \subseteq PcValue
          /\ Rank["quote"] < Rank["step"] /\ Rank["review"] < Rank["quote"]
          /\ Rank["lock"] < Rank["review"]
      BY DEF Rank, PcValue
    <3> QED
      BY <2>3, <3>1, GoesForward
  <2> QED
    BY <1>1, <2>2, <2>3 DEF BeginStep, ReadQuote, Review, stepVars
<1>2. CASE TakeLock(j) \/ PlaceBesideOthers(j)
  <2>1. pc[j] \in {"lock", "acct"}
    BY <1>2 DEF TakeLock, PlaceBesideOthers
  <2>2. CASE \E st \in {"stopped", Final(j, filled[j])} : JustEnd(j, st)
    BY <2>1, <2>2, JustEndsForward
  <2>3. CASE EndJob(j, "stopped", FALSE) /\ UNCHANGED index
    BY <2>1, <2>3, EndsForward
  <2>4. CASE /\ \/ pc[j] = "lock" /\ Goto(j, "acct")
                \/ Goto(j, "placing")
             /\ UNCHANGED index
    <3>1. {"acct", "placing"} \subseteq PcValue /\ Rank["acct"] < Rank["lock"]
          /\ Rank["placing"] < Rank["lock"] /\ Rank["placing"] < Rank["acct"]
      BY DEF Rank, PcValue
    <3> QED
      BY <2>1, <2>4, <3>1, GoesForward
  <2> QED
    BY <1>2, <2>2, <2>3, <2>4 DEF TakeLock, PlaceBesideOthers, SendPlacement, stepVars
<1>3. CASE PlaceSucceeds(j) \/ PlaceUnknown(j)
  <2>1. CASE pc[j] = "placing" /\ JustEnd(j, "unknown")
    BY <2>1, JustEndsForward
  <2>2. CASE pc[j] = "placing" /\ Goto(j, "wait") /\ UNCHANGED index
    <3>1. "wait" \in PcValue /\ Rank["wait"] < Rank["placing"]
      BY DEF Rank, PcValue
    <3> QED
      BY <2>2, <3>1, GoesForward
  <2> QED
    BY <1>3, <2>1, <2>2 DEF PlaceSucceeds, PlaceUnknown
<1>4. CASE EndWait(j) \/ Confirm(j) \/ ConfirmGivesUp(j)
  <2>1. pc[j] \in {"wait", "confirm"}
    BY <1>4 DEF EndWait, Confirm, ConfirmGivesUp
  <2>2. CASE JustEnd(j, "unknown")
    BY <2>1, <2>2, JustEndsForward
  <2>3. CASE CloseStep(j)
    BY <2>1, <2>3, CloseForward
  <2>4. CASE EndJob(j, Final(j, filled'[j]), TRUE) /\ UNCHANGED index
    BY <2>1, <2>4, EndsForward
  <2> QED
    BY <1>4, <2>2, <2>3, <2>4 DEF EndWait, Confirm, ConfirmGivesUp, Inconsistent, stepVars
<1>5. CASE SendCancel(j) \/ CancelReturns(j)
  <2>1. CASE pc[j] = "wait" /\ JustEnd(j, "unknown")
    BY <2>1, JustEndsForward
  <2>2. CASE /\ \/ pc[j] = "wait" /\ Goto(j, "canceling")
                \/ pc[j] \in {"wait", "canceling"} /\ Goto(j, "confirm")
             /\ UNCHANGED index
    <3>1. {"canceling", "confirm"} \subseteq PcValue /\ Rank["canceling"] < Rank["wait"]
          /\ Rank["confirm"] < Rank["wait"] /\ Rank["confirm"] < Rank["canceling"]
      BY DEF Rank, PcValue
    <3> QED
      BY <2>2, <3>1, GoesForward
  <2> QED
    BY <1>5, <2>1, <2>2 DEF SendCancel, CancelReturns
<1>6. CASE EndSalvage(j)
  BY <1>6, EndsForward DEF EndSalvage, stepVars
<1> QED
  BY <1>1, <1>2, <1>3, <1>4, <1>5, <1>6 DEF JobStep

\* Whatever else happens to a job, an interruption included, never takes it back.
LEMMA NextForward ==
  ASSUME IInv, [Next]_vars, NEW k \in Jobs
  PROVE  Forward(k)
<1>1. TypeOK
  BY DEF IInv
<1>2. CASE UNCHANGED <<pc, index>>
  BY <1>2 DEF Forward
<1>3. ASSUME NEW j \in Jobs, Acts(j) \/ Reserve(j) PROVE Forward(k)
  <2>1. CASE j # k
    <3>1. Acts(j) => pc'[k] = pc[k] /\ index'[k] = index[k]
      BY <2>1, ActsKeep DEF Kept, Untouched
    <3>2. Reserve(j) => pc'[k] = pc[k] /\ index'[k] = index[k]
      BY <1>1, <2>1 DEF Reserve, Goto, TypeOK, stepVars
    <3> QED
      BY <1>3, <3>1, <3>2 DEF Forward
  <2>2. CASE j = k /\ JobStep(k)
    BY <1>1, <2>2, JobForward
  <2>3. CASE j = k /\ (Reserve(k) \/ Release(k) \/ Start(k))
    <3>1. /\ \/ pc[k] = "idle" /\ pc' = [pc EXCEPT ![k] = "reserved"]
             \/ pc[k] = "reserved" /\ pc' = [pc EXCEPT ![k] = "done"]
             \/ pc[k] = "reserved" /\ pc' = [pc EXCEPT ![k] = "step"]
          /\ UNCHANGED index
      BY <2>3 DEF Reserve, Release, Start, Goto, stepVars
    <3>2. Rank["reserved"] < Rank["idle"] /\ Rank["done"] < Rank["reserved"]
          /\ Rank["step"] < Rank["reserved"]
      BY DEF Rank
    <3> QED
      BY <1>1, <3>1, <3>2 DEF Forward, TypeOK
  <2>4. CASE j = k /\ PollOrder(k)
    BY <2>4 DEF PollOrder, Forward
  <2>5. CASE j = k /\ Interrupt(k)
    <3>1. /\ pc[k] \in {"quote", "review", "lock", "acct", "placing", "wait", "canceling", "confirm"}
          /\ UNCHANGED index
      BY <2>5 DEF Interrupt, FailurePoints, Checkpoints
    <3>2. CASE EndJob(k, "unknown", TRUE)
      BY <1>1, <3>1, <3>2, EndsForward
    <3>3. CASE pc' = [pc EXCEPT ![k] = "salvage"]
      BY <1>1, <3>1, <3>3 DEF Forward, Rank, TypeOK
    <3> QED
      BY <2>5, <3>2, <3>3 DEF Interrupt
  <2> QED
    BY <1>3, <2>1, <2>2, <2>3, <2>4, <2>5 DEF Acts
<1>4. CASE Stop \/ Halt \/ CancelGroup \/ UNCHANGED vars
  BY <1>2, <1>4 DEF Stop, Halt, CancelGroup, vars, stepVars
<1>5. ASSUME NEW j \in Jobs, NEW i \in Steps, BrokerStep(j, i) \/ AgentCancels(j, i)
      PROVE  UNCHANGED <<pc, index>>
  BY <1>5 DEF BrokerStep, BrokerReceives, BrokerFills, BrokerCloses, BrokerTakesCancel,
     AgentCancels, UpdateOrder, stepVars
<1> QED
  BY <1>2, <1>3, <1>4, <1>5 DEF Next, Acts

\* The core of JobsEnd: each action of a job's task uses up some of a finite store, and
\* nothing (the broker, the latch, a failure, another job) ever gives any back, so that a
\* job moves at most 13 * MaxSteps + 12 times: the walk, its cancels and its salvage cannot
\* go round in circles.
THEOREM JobsRunDown ==
  Spec => [][\A j \in Jobs :
               /\ LeftToDo(j) \in Nat /\ LeftToDo(j)' <= LeftToDo(j)
               /\ JobStep(j) => LeftToDo(j)' < LeftToDo(j)]_vars
<1>1. ASSUME IInv, IInv', Next, NEW j \in Jobs
      PROVE  /\ LeftToDo(j) \in Nat /\ LeftToDo(j)' <= LeftToDo(j)
             /\ JobStep(j) => LeftToDo(j)' < LeftToDo(j)
  <2>1. TypeOK /\ TypeOK'
    BY <1>1 DEF IInv
  <2>2. Forward(j) /\ (JobStep(j) => pc'[j] # pc[j])
    BY <1>1, <2>1, NextForward, JobForward
  <2> QED
    BY <2>1, <2>2, ForwardShrinks
<1>2. IInv /\ IInv' /\ [Next]_vars =>
        [\A j \in Jobs : /\ LeftToDo(j) \in Nat /\ LeftToDo(j)' <= LeftToDo(j)
                         /\ JobStep(j) => LeftToDo(j)' < LeftToDo(j)]_vars
  BY <1>1
<1> QED
  BY <1>2, Invariance, PTL DEF Spec
============================================================================
