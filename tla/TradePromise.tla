---------------------------- MODULE TradePromise ----------------------------
(***************************************************************************)
(* What a `work_option_order` call promises the agent and the account,     *)
(* without steps, locks, polls, cancels or tasks.                          *)
(*                                                                         *)
(* A trade is asked for once, with a target.  While it is at work it may   *)
(* expose the account to further executions, never to more than the        *)
(* target in total and never to a new exposure while one is open or after  *)
(* the run was shut.  It ends either settled, reporting exactly what was   *)
(* executed when nothing can be executed any more, or unknown; an unknown  *)
(* end shuts the run.                                                      *)
(***************************************************************************)
EXTENDS Naturals

CONSTANTS
  Jobs,    \* the trades asked for
  Target   \* [Jobs -> Nat \ {0}]: the contracts asked for

VARIABLES
  phase,     \* "none", "working", "settled" or "unknown"
  exposure,  \* the contracts the broker may still execute for the trade
  held,      \* the contracts executed for it
  report,    \* what the trade reports as filled
  shut       \* no trade exposes the account to anything new

vars == <<phase, exposure, held, report, shut>>

Init ==
  /\ phase = [j \in Jobs |-> "none"]
  /\ exposure = [j \in Jobs |-> 0]
  /\ held = [j \in Jobs |-> 0]
  /\ report = [j \in Jobs |-> 0]
  /\ shut = FALSE

Begin(j) ==
  /\ phase[j] = "none"
  /\ phase' = [phase EXCEPT ![j] = "working"]
  /\ UNCHANGED <<exposure, held, report, shut>>

Expose(j) ==
  /\ phase[j] = "working" /\ ~shut
  /\ exposure[j] = 0
  /\ held[j] < Target[j]
  /\ exposure' = [exposure EXCEPT ![j] = Target[j] - held[j]]
  /\ UNCHANGED <<phase, held, report, shut>>

Execute(j) ==
  /\ exposure[j] > 0
  /\ exposure' = [exposure EXCEPT ![j] = @ - 1]
  /\ held' = [held EXCEPT ![j] = @ + 1]
  /\ UNCHANGED <<phase, report, shut>>

Withdraw(j) ==
  /\ exposure[j] > 0
  /\ exposure' = [exposure EXCEPT ![j] = 0]
  /\ UNCHANGED <<phase, held, report, shut>>

Shut == shut' = TRUE /\ UNCHANGED <<phase, exposure, held, report>>

\* The trade ends knowing its outcome; a doubt on the way may shut the run as well.
Settle(j) ==
  /\ phase[j] = "working" /\ exposure[j] = 0
  /\ phase' = [phase EXCEPT ![j] = "settled"]
  /\ report' = [report EXCEPT ![j] = held[j]]
  /\ shut' \in {shut, TRUE}
  /\ UNCHANGED <<exposure, held>>

GiveUp(j) ==
  /\ phase[j] = "working"
  /\ phase' = [phase EXCEPT ![j] = "unknown"]
  /\ \E n \in 0 .. held[j] : report' = [report EXCEPT ![j] = n]
  /\ shut' = TRUE
  /\ UNCHANGED <<exposure, held>>

Next ==
  Shut \/ \E j \in Jobs : Begin(j) \/ Expose(j) \/ Execute(j) \/ Withdraw(j)
                          \/ Settle(j) \/ GiveUp(j)

Spec == Init /\ [][Next]_vars
=============================================================================
