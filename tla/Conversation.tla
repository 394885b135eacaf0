---------------------------- MODULE Conversation ----------------------------
(***************************************************************************)
(* The conversation with the agent (agent/session.py, _converse).  Each    *)
(* turn ends with the agent's output; code decides whether it is final.    *)
(* It waits for order work left running and reports it, asks to clean up   *)
(* unresolved orders, returns unresolved references, and asks to repair an *)
(* output that does not parse.  A watcher narrows the tools when the time  *)
(* is nearly up, and interrupts the conversation after the stop latch.     *)
(*                                                                         *)
(* What the agent answers, what its orders do, and when the stop latch and *)
(* the budget fall are choices.                                            *)
(***************************************************************************)
EXTENDS Naturals

CONSTANTS
  MaxJobs,        \* bound: order-work jobs the agent starts
  MaxIssues,      \* bound: reference issues of one output
  MaxReports,     \* MAX_ORDER_WORK_TURNS
  MaxCleanups,    \* MAX_ORDER_CLEANUPS
  MaxChecks,      \* MAX_REFERENCE_REPAIRS
  MaxRepairs      \* MAX_OUTPUT_REPAIRS

ASSUME TalkAssumption == {MaxJobs, MaxIssues, MaxReports, MaxCleanups, MaxChecks, MaxRepairs} \subseteq Nat

VARIABLES
  stopped,      \* RunControl.stop_requested
  tools,        \* the output gate: open, cleanup or closed
  phase,        \* where the conversation is suspended
  started,      \* jobs started so far
  running,      \* those not ended (runner.active())
  lost,         \* an admitted call never started its job (runner.pending())
  unresolved,   \* cleanup_candidates is not empty
  text,         \* the last output: [valid, issues, same]; same: the decisions are best's
  early,        \* it was returned while jobs were running
  best,         \* the issues of the last valid output, or NoBest
  checkFailed,  \* reference_check_error is set
  effective,    \* result.raw_output
  turns         \* turns[kind]: the follow-up turns of each kind so far

jobVars == <<started, running, lost>>
talkVars == <<stopped, tools, phase, jobVars, unresolved, text, early, best, checkFailed,
              effective, turns>>

NoBest == MaxIssues + 1
Outputs == [valid : BOOLEAN, issues : 0..MaxIssues, same : BOOLEAN]
NoText == [valid |-> FALSE, issues |-> 0, same |-> TRUE]

-----------------------------------------------------------------------------
(* Around the conversation. *)

\* The agent starts a job, by an admitted work_option_order call of the turn; the CLI may
\* lose the call after it was admitted, and its reservation stays.
JobStarts ==
  /\ phase = "turn" /\ tools = "open" /\ ~stopped /\ started < MaxJobs
  /\ started' = started + 1
  /\ \/ running' = running + 1 /\ UNCHANGED lost
     \/ lost' = TRUE /\ UNCHANGED running
  /\ UNCHANGED <<stopped, tools, phase, unresolved, text, early, best, checkFailed, effective, turns>>

\* A job ends; its order may be left unresolved.
JobEnds ==
  /\ running > 0
  /\ running' = running - 1
  /\ unresolved' \in {unresolved, TRUE}
  /\ UNCHANGED <<stopped, tools, phase, started, lost, text, early, best, checkFailed, effective, turns>>

\* The agent's reads and cancels in a turn resolve its orders.
OrdersResolved ==
  /\ phase = "turn" /\ tools # "closed"
  /\ unresolved /\ unresolved' = FALSE
  /\ UNCHANGED <<stopped, tools, phase, jobVars, text, early, best, checkFailed, effective, turns>>

RequestsStop ==
  /\ ~stopped /\ stopped' = TRUE
  /\ UNCHANGED <<tools, phase, jobVars, unresolved, text, early, best, checkFailed, effective, turns>>

\* OutputRepairGate.restrict narrows only.
RestrictTools == tools' = IF tools = "closed" THEN tools ELSE "cleanup"

\* watch: the wind-down.
WindsDown ==
  /\ phase # "done" /\ tools = "open"
  /\ RestrictTools
  /\ UNCHANGED <<stopped, phase, jobVars, unresolved, text, early, best, checkFailed, effective, turns>>

\* watch: the conversation is cancelled once the stop's grace is over; or the budget ends.
Cancelled ==
  /\ phase \notin {"done", "finished"}
  /\ phase' = "done"
  /\ UNCHANGED <<stopped, tools, jobVars, unresolved, text, early, best, checkFailed, effective, turns>>

-----------------------------------------------------------------------------
(* The turns. *)

\* The agent returns its output.  It is not looked at once a stop was requested, and it is
\* not final while jobs run: wait for all of them (runner.wait_all).
TurnReturns ==
  /\ phase = "turn"
  /\ phase' = IF stopped THEN "done" ELSE IF running > 0 \/ lost THEN "waiting" ELSE "settled"
  /\ text' \in Outputs
  /\ early' = (running > 0)
  /\ effective' = text'
  /\ UNCHANGED <<stopped, tools, jobVars, unresolved, best, checkFailed, turns>>

\* An error, or a stream that ends without a result.
TurnFails ==
  /\ phase = "turn" /\ phase' = "done"
  /\ UNCHANGED <<stopped, tools, jobVars, unresolved, text, early, best, checkFailed, effective, turns>>

\* Mutant of Prompt: the turn is not counted.
PromptUncounted(kind) == phase' = "turn" /\ UNCHANGED turns

\* A follow-up turn begins.
Prompt(kind) == phase' = "turn" /\ turns' = [turns EXCEPT ![kind] = @ + 1]

Close == tools' = "closed"

EndsOnStop ==
  /\ phase = "waiting" /\ stopped /\ running = 0
  /\ phase' = "done"
  /\ UNCHANGED <<stopped, tools, jobVars, unresolved, text, early, best, checkFailed, effective, turns>>

\* Mutant of Unreported: the jobs are looked up after the wait.
UnreportedAfterWait == running > 0

\* `left`: jobs the agent has not seen end.
Unreported == early

ReportsJobs ==
  /\ phase = "waiting" /\ ~stopped /\ running = 0
  /\ Unreported /\ turns.report < MaxReports
  /\ Prompt("report")
  /\ UNCHANGED <<stopped, tools, jobVars, unresolved, text, early, best, checkFailed, effective>>

\* The jobs were reported too often: no new one may start behind the checks.
StopsReporting ==
  /\ phase = "waiting" /\ ~stopped /\ running = 0
  /\ ~(Unreported /\ turns.report < MaxReports)
  /\ RestrictTools
  /\ phase' = "settled"
  /\ UNCHANGED <<stopped, jobVars, unresolved, text, early, best, checkFailed, effective, turns>>

\* Mutant of NeedsCleanup: one clean-up too many.
NeedsCleanupOnceMore ==
  unresolved /\ turns.repair = 0 /\ turns.check = 0 /\ turns.cleanup <= MaxCleanups

NeedsCleanup == unresolved /\ turns.repair = 0 /\ turns.check = 0 /\ turns.cleanup < MaxCleanups

CleansUp ==
  /\ phase = "settled" /\ NeedsCleanup
  /\ RestrictTools
  /\ Prompt("cleanup")
  /\ UNCHANGED <<stopped, jobVars, unresolved, text, early, best, checkFailed, effective>>

\* The reference check of an output that parses, or its failure: then it reports none.
Issues == IF checkFailed' THEN 0 ELSE text.issues

\* Mutant of Improves: the decisions are not compared.
ImprovesByCount == ~checkFailed' /\ text.issues < best

\* _improves: a reply with fewer issues and the same decisions replaces the last output.
Improves == ~checkFailed' /\ text.same /\ text.issues < best

Restore == effective' = [valid |-> TRUE, issues |-> best, same |-> TRUE]

\* The loop ends by itself.
Finishes == phase' = "finished" /\ UNCHANGED turns

Accept == effective' = effective /\ best' = Issues

ChecksReferences ==
  /\ phase = "settled" /\ ~NeedsCleanup /\ text.valid
  /\ checkFailed' \in {checkFailed, TRUE}
  /\ \/ best # NoBest /\ ~Improves /\ Restore /\ Finishes /\ UNCHANGED <<best, tools>>
     \/ /\ best = NoBest \/ Improves
        /\ Accept
        /\ IF Issues = 0 \/ turns.check >= MaxChecks THEN Finishes /\ UNCHANGED tools
           ELSE Prompt("check") /\ Close
  /\ UNCHANGED <<stopped, jobVars, unresolved, text, early>>

\* The reply to a reference turn is not repaired, nor the third invalid output.
Unrepairable == best # NoBest \/ turns.repair >= MaxRepairs

RepairsOutput ==
  /\ phase = "settled" /\ ~NeedsCleanup /\ ~text.valid
  /\ IF Unrepairable
     THEN /\ Finishes /\ UNCHANGED tools
          /\ IF best # NoBest THEN Restore ELSE UNCHANGED effective
     ELSE Prompt("repair") /\ Close /\ UNCHANGED effective
  /\ UNCHANGED <<stopped, jobVars, unresolved, text, early, best, checkFailed>>

-----------------------------------------------------------------------------

TalkBegins(from, left) ==
  /\ stopped = FALSE /\ tools = "open" /\ phase = from
  /\ started = 0 /\ running = 0 /\ lost = FALSE
  /\ unresolved = left
  /\ text = NoText /\ early = FALSE
  /\ best = NoBest /\ checkFailed = FALSE
  /\ effective = NoText
  /\ turns = [kind \in {"report", "cleanup", "check", "repair"} |-> 0]

\* The first turn; an earlier run may have left orders.
TalkInit == \E left \in BOOLEAN : TalkBegins("turn", left)

\* What the conversation itself does; the rest is around it.
Converses ==
  \/ TurnReturns \/ TurnFails \/ EndsOnStop \/ ReportsJobs \/ StopsReporting \/ CleansUp \/ ChecksReferences \/ RepairsOutput

TalkNext ==
  Converses \/ JobStarts \/ JobEnds \/ OrdersResolved \/ RequestsStop \/ WindsDown \/ Cancelled

\* The agent answers each turn, and each job ends (OrderWalk, JobsEnd): no fairness is
\* assumed of the stop latch and of the budget.
TalkFairness == WF_talkVars(Converses) /\ WF_talkVars(JobEnds)

TalkSpec == TalkInit /\ [][TalkNext]_talkVars /\ TalkFairness

-----------------------------------------------------------------------------
(* Properties. *)

TalkTypeOK ==
  /\ stopped \in BOOLEAN /\ tools \in {"open", "cleanup", "closed"}
  /\ phase \in {"turn", "waiting", "settled", "finished", "done"}
  /\ started \in 0..MaxJobs /\ running \in 0..started /\ lost \in BOOLEAN
  /\ unresolved \in BOOLEAN /\ early \in BOOLEAN /\ checkFailed \in BOOLEAN
  /\ text \in Outputs /\ effective \in Outputs /\ best \in 0..NoBest
  /\ turns.report \in 0..MaxReports /\ turns.cleanup \in 0..MaxCleanups
  /\ turns.check \in 0..MaxChecks /\ turns.repair \in 0..MaxRepairs

\* A final output was written after the agent saw all its order work end, unless the
\* reports were used up, so that no decision is taken from an output that precedes its
\* outcome; and an order is left unresolved only after all the clean-up turns.
OutputSettled ==
  phase = "finished" =>
    /\ running = 0 /\ (early => turns.report = MaxReports)
    /\ unresolved => turns.cleanup = MaxCleanups

\* A reference turn never makes the output worse: once one was valid, the effective one is
\* valid, decides the same, and has no more issues than any accepted before it.
FinalIsBest ==
  phase = "finished" /\ best # NoBest =>
    /\ effective.valid
    /\ turns.check > 0 => effective.same
    /\ checkFailed \/ effective.issues <= best

\* The run's output is the best the agent gave, and later than all it ordered.
TalkSound == OutputSettled /\ FinalIsBest

\* The loop ends whatever the agent answers, without the help of the budget.
TalkEnds == <>(phase \in {"finished", "done"})
=============================================================================
