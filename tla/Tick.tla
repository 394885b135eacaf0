-------------------------------- MODULE Tick --------------------------------
(***************************************************************************)
(* One cron fire of the orchestrator (orchestrator/main.py) against the    *)
(* ledger, live in production.                                             *)
(*                                                                         *)
(* A fire takes the environment's advisory lock, opens the slot's close    *)
(* run, passes the gate (kill switch, market, next run), starts at most    *)
(* one session for it, then does the same for the sell run.  A fire that   *)
(* meets a slot with a run only recovers what was interrupted.  Processes  *)
(* crash, and lose the database connection that holds their lock, at any   *)
(* point; the ledger outlives them and decides when the next session runs. *)
(*                                                                         *)
(* Time is counted in slots.  A run's status, its schedule events and its  *)
(* one order call are what the ledger keeps; payloads, evidence, audit and *)
(* notification are left out, and their failures are choices.              *)
(***************************************************************************)
EXTENDS Naturals, FiniteSets

CONSTANTS
  Procs,         \* cron fires and re-fires
  MaxClock,      \* bound: the last slot of a behaviour
  Horizon,       \* bound: the last time the calendar knows
  OpenTimes,     \* the times in an NYSE regular session
  AskTimes,      \* the times an agent may ask for
  MaxOrders,     \* bound: the runs of a behaviour that call an order tool
  CloseBudget,   \* CLOSE_AGENT_TIMEOUT_SECONDS
  RunBudget,     \* RUN_TIMEOUT_SECONDS
  FallbackGap,   \* scheduling.fallback_next_run_minutes
  UnfilledGap,   \* scheduling.unfilled_order_next_run_minutes
  MaxGap         \* scheduling.max_next_run_gap_hours

Times == 0 .. Horizon
Slots == 0 .. MaxClock

\* The order of the budgets is config/settings.py's, that of the gaps config/rules.py's.
ASSUME TickAssumption ==
  /\ MaxClock \in Nat /\ Horizon \in Nat /\ MaxClock <= Horizon
  /\ OpenTimes \subseteq Times /\ AskTimes \subseteq Times /\ MaxOrders \in Nat
  /\ CloseBudget \in Nat \ {0} /\ RunBudget \in Nat /\ CloseBudget < RunBudget
  /\ FallbackGap \in Nat /\ RunBudget < FallbackGap
  /\ UnfilledGap \in Nat \ {0} /\ MaxGap \in Nat
  /\ FallbackGap <= MaxGap /\ UnfilledGap <= MaxGap

VARIABLES
  clock,      \* the current slot
  lock,       \* the database: who holds the advisory lock, at most one
  pc,         \* where a process is in its tick
  conn,       \* its ledger connection works
  slot,       \* _Tick.slot
  role,       \* the agent of the run it executes or recovers
  killed,     \* settings.KILL_SWITCH, read when the process starts
  ending,     \* the status it is about to record
  request,    \* the next run its agent asked for, then as it was placed; at most one
  flight,     \* its order call: none, recorded, its intent recorded, or sent
  status,     \* the ledger: a run's status, "absent" without a row, "open" until final
  gates,      \* the ledger: gate_at of a slot's fallback event; at most one
  binding,    \* the ledger: a slot's agent and unfilled-order times
  order,      \* the ledger and the broker: a run's order
  sessions,   \* history: sessions started for a run
  uncapped    \* history: runs with an unfilled order whose cap could not be recorded

procVars == <<pc, conn, slot, role, killed, ending, request, flight>>
ledgerVars == <<status, gates, binding, order>>
history == <<sessions, uncapped>>
vars == <<clock, lock, procVars, ledgerVars, history>>

Roles == {"close", "sell"}
Runs == Slots \X Roles
\* What a final status is to the control: "gated" (the skips of SLOT_GATE_STATUSES, and a
\* failure before the gate passed), "ended" (as _status has it, or without a session),
\* "invalid" (no valid output), "error" (an exception), "recovered" (interrupted).
Final == {"gated", "ended", "invalid", "error", "recovered"}
PcValue == {"idle", "tick", "gate", "plan", "session", "schedule", "cap", "final",
            "sell", "other", "recover", "exit", "done"}
\* "recorded" is a call without an outcome that was not dispatched, "requested" one that was.
CallStatus == {"none", "recorded", "requested", "succeeded", "failed", "unknown"}
\* sent: it reached the broker.  known: the ledger has it filled in full.
Order == [call : CallStatus, intent : BOOLEAN, sent : BOOLEAN, known : BOOLEAN]

TypeOK ==
  /\ clock \in Slots
  /\ lock \subseteq Procs /\ \A p, q \in lock : p = q
  /\ pc \in [Procs -> PcValue]
  /\ conn \in [Procs -> BOOLEAN]
  /\ slot \in [Procs -> Slots]
  /\ role \in [Procs -> Roles]
  /\ killed \in [Procs -> BOOLEAN]
  /\ ending \in [Procs -> Final]
  /\ request \in [Procs -> SUBSET Times]
  /\ flight \in [Procs -> {"none", "requested", "intent", "sent"}]
  /\ status \in [Runs -> Final \cup {"absent", "open"}]
  /\ gates \in [Slots -> SUBSET Slots]
  /\ binding \in [Slots -> SUBSET Times]
  /\ order \in [Runs -> Order]
  /\ sessions \in [Runs -> Nat]
  /\ uncapped \subseteq Runs

Init ==
  /\ clock = 0 /\ lock = {}
  /\ pc = [p \in Procs |-> "idle"]
  /\ conn = [p \in Procs |-> FALSE]
  /\ slot = [p \in Procs |-> 0]
  /\ role = [p \in Procs |-> "close"]
  /\ killed = [p \in Procs |-> FALSE]
  /\ ending = [p \in Procs |-> "error"]
  /\ request = [p \in Procs |-> {}]
  /\ flight = [p \in Procs |-> "none"]
  /\ status = [r \in Runs |-> "absent"]
  /\ gates = [s \in Slots |-> {}]
  /\ binding = [s \in Slots |-> {}]
  /\ order = [r \in Runs |-> [call |-> "none", intent |-> FALSE, sent |-> FALSE, known |-> FALSE]]
  /\ sessions = [r \in Runs |-> 0]
  /\ uncapped = {}

----------------------------------------------------------------------------
(* The schedule, as sets: a time that cannot be placed is the empty set    *)

\* into_regular_session: t if the market is open then, else the next open.
NextOpen(t) == {u \in OpenTimes : t <= u /\ \A v \in OpenTimes : t <= v => u <= v}

\* _place_next_run: capped at the maximum gap after the gate.
PlaceNextRun(t, gate) == NextOpen(IF t <= gate + MaxGap THEN t ELSE gate + MaxGap)

\* A slot's next run is the earliest of these (latest_next_run_not_before).
NotBefore(s) ==
  IF binding[s] # {} THEN binding[s] ELSE UNION {PlaceNextRun(g + FallbackGap, g) : g \in gates[s]}

\* Mutant of Due: only what the sessions recorded counts, not the fallback.
DueUnlessBound ==
  LET scheduled == {s \in Slots : gates[s] # {}} IN
    \A s \in scheduled : (\A k \in scheduled : k <= s) => \A t \in binding[s] : t <= clock

\* Only the newest slot with a schedule event counts.
Due ==
  LET scheduled == {s \in Slots : gates[s] # {}} IN
    \A s \in scheduled : (\A k \in scheduled : k <= s) => \E t \in NotBefore(s) : t <= clock

Run(p) == <<slot[p], role[p]>>

Budget(r) == IF r = "close" THEN CloseBudget ELSE RunBudget

\* Both budgets count from the tick's start.
OutOfBudget(p) == clock >= slot[p] + Budget(role[p])

----------------------------------------------------------------------------
(* Pieces of a process's step                                              *)

\* What a process writes needs its connection, which is what holds its lock.
At(p, where) == pc[p] = where /\ conn[p]

Goto(p, where) == pc' = [pc EXCEPT ![p] = where]

\* The process ends, and its memory with it.
Gone(p) ==
  /\ Goto(p, "done")
  /\ conn' = [conn EXCEPT ![p] = FALSE]
  /\ slot' = [slot EXCEPT ![p] = 0]
  /\ role' = [role EXCEPT ![p] = "close"]
  /\ killed' = [killed EXCEPT ![p] = FALSE]
  /\ ending' = [ending EXCEPT ![p] = "error"]
  /\ request' = [request EXCEPT ![p] = {}]
  /\ flight' = [flight EXCEPT ![p] = "none"]

\* finalize() comes next.
End(p, st) == Goto(p, "final") /\ ending' = [ending EXCEPT ![p] = st]

\* A dispatched call without an outcome gets one.
ResolveAs(p, st) ==
  order' = [order EXCEPT ![Run(p)].call = IF @ = "requested" THEN st ELSE @]

----------------------------------------------------------------------------
(* The tick                                                                *)

\* Mutant of Fire: the lock is not asked for.
FireUnlocked(p) ==
  /\ pc[p] = "idle"
  /\ lock' = lock \cup {p}
  /\ conn' = [conn EXCEPT ![p] = TRUE]
  /\ slot' = [slot EXCEPT ![p] = clock]
  /\ \E k \in BOOLEAN : killed' = [killed EXCEPT ![p] = k]
  /\ Goto(p, "tick")
  /\ UNCHANGED <<clock, role, ending, request, flight, ledgerVars, history>>

\* run_once: connect, compute the slot, take the lock.
Fire(p) ==
  /\ pc[p] = "idle" /\ lock = {}
  /\ lock' = {p}
  /\ conn' = [conn EXCEPT ![p] = TRUE]
  /\ slot' = [slot EXCEPT ![p] = clock]
  /\ \E k \in BOOLEAN : killed' = [killed EXCEPT ![p] = k]
  /\ Goto(p, "tick")
  /\ UNCHANGED <<clock, role, ending, request, flight, ledgerVars, history>>

\* skipped_concurrent, or no connection: the process writes nothing.
SkipTick(p) ==
  /\ pc[p] = "idle" /\ lock # {}
  /\ Goto(p, "done")
  /\ UNCHANGED <<clock, lock, conn, slot, role, killed, ending, request, flight,
                 ledgerVars, history>>

\* Mutant of OpenSlot: an interrupted run is started again.
OpenSlotAgain(p) ==
  /\ At(p, "tick")
  /\ status[<<slot[p], "close">>] \in {"absent", "open"}
  /\ status' = [status EXCEPT ![<<slot[p], "close">>] = "open"]
  /\ role' = [role EXCEPT ![p] = "close"]
  /\ Goto(p, "gate")
  /\ UNCHANGED <<clock, lock, conn, slot, killed, ending, request, flight,
                 gates, binding, order, history>>

\* _Tick.run: a new close run, or a re-fired slot.
OpenSlot(p) ==
  /\ At(p, "tick")
  /\ role' = [role EXCEPT ![p] = "close"]
  /\ \/ /\ status[<<slot[p], "close">>] = "absent"
        /\ status' = [status EXCEPT ![<<slot[p], "close">>] = "open"]
        /\ Goto(p, "gate")
     \/ /\ status[<<slot[p], "close">>] = "open"
        /\ Goto(p, "recover")
        /\ UNCHANGED status
     \/ /\ status[<<slot[p], "close">>] \in Final
        /\ Goto(p, "other")
        /\ UNCHANGED status
  /\ UNCHANGED <<clock, lock, conn, slot, killed, ending, request, flight,
                 gates, binding, order, history>>

\* Mutant of Gate: the schedule is recorded by the sessions only.
GateWithoutFallback(p) ==
  /\ At(p, "gate")
  /\ ~killed[p] /\ (role[p] = "sell" \/ Due) /\ clock \in OpenTimes
  /\ Goto(p, "plan")
  /\ UNCHANGED <<clock, lock, conn, slot, role, killed, ending, request, flight,
                 ledgerVars, history>>

Proceeds(p) == ~killed[p] /\ clock \in OpenTimes /\ (role[p] = "sell" \/ Due)

\* A due close run records the fallback first, unless the market's hours skip it.
RecordsFallback(p) == role[p] = "close" /\ Due /\ (killed[p] \/ clock \in OpenTimes)

\* _execute's gate.  The sell run carries the close run's due check and its gate_at.
Gate(p) ==
  /\ At(p, "gate")
  /\ \/ \* The calendar, or the fallback's place in it, cannot be had: an exception.
        End(p, "gated") /\ UNCHANGED gates
     \/ /\ RecordsFallback(p) /\ PlaceNextRun(clock + FallbackGap, clock) # {}
        /\ gates' = [gates EXCEPT ![slot[p]] = @ \cup {clock}]
        /\ IF Proceeds(p) THEN Goto(p, "plan") /\ UNCHANGED ending ELSE End(p, "gated")
     \/ /\ ~RecordsFallback(p)
        /\ UNCHANGED gates
        /\ IF Proceeds(p) THEN Goto(p, "plan") /\ UNCHANGED ending ELSE End(p, "gated")
  /\ UNCHANGED <<clock, lock, conn, slot, role, killed, request, flight,
                 status, binding, order, history>>

\* _agent_run up to the session: its budget, its sources, its start condition.
StartRun(p) ==
  /\ At(p, "plan")
  /\ \/ (\E st \in {"ended", "error"} : End(p, st)) /\ UNCHANGED sessions
     \/ /\ ~OutOfBudget(p)
        /\ Goto(p, "session")
        /\ sessions' = [sessions EXCEPT ![Run(p)] = @ + 1]
        /\ UNCHANGED ending
  /\ UNCHANGED <<clock, lock, conn, slot, role, killed, request, flight, ledgerVars, uncapped>>

----------------------------------------------------------------------------
(* The session's order call (one for each run) and its end                 *)

\* The hooks record the call and its dispatch; without the second they deny it.
RequestOrder(p) ==
  /\ At(p, "session") /\ flight[p] = "none" /\ order[Run(p)].call = "none"
  /\ Cardinality({r \in Runs : order[r].call # "none"}) < MaxOrders
  /\ \/ /\ order' = [order EXCEPT ![Run(p)].call = "requested"]
        /\ flight' = [flight EXCEPT ![p] = "requested"]
     \/ /\ order' = [order EXCEPT ![Run(p)].call = "recorded"]
        /\ UNCHANGED flight
  /\ UNCHANGED <<clock, lock, pc, conn, slot, role, killed, ending, request,
                 status, gates, binding, history>>

\* The proxy: before_dispatch records the intent, or the call is not forwarded.
RecordIntent(p) ==
  /\ At(p, "session") /\ flight[p] = "requested"
  /\ \/ /\ order' = [order EXCEPT ![Run(p)].intent = TRUE]
        /\ flight' = [flight EXCEPT ![p] = "intent"]
     \/ /\ ResolveAs(p, "failed")
        /\ flight' = [flight EXCEPT ![p] = "none"]
  /\ UNCHANGED <<clock, lock, pc, conn, slot, role, killed, ending, request,
                 status, gates, binding, history>>

\* The upstream call: it needs no connection, and may come after the lock is lost.
SendOrder(p) ==
  /\ pc[p] = "session" /\ flight[p] = "intent"
  /\ order' = [order EXCEPT ![Run(p)].sent = TRUE]
  /\ flight' = [flight EXCEPT ![p] = "sent"]
  /\ UNCHANGED <<clock, lock, pc, conn, slot, role, killed, ending, request,
                 status, gates, binding, history>>

\* Its outcome is recorded, a result or unknown after the upstream call, or stays open.
RecordOutcome(p) ==
  /\ At(p, "session") /\ flight[p] = "sent"
  /\ (\E st \in {"succeeded", "unknown"} : ResolveAs(p, st)) \/ UNCHANGED order
  /\ flight' = [flight EXCEPT ![p] = "none"]
  /\ UNCHANGED <<clock, lock, pc, conn, slot, role, killed, ending, request,
                 status, gates, binding, history>>

\* An order read shows it filled in full.
ReadFill(p) ==
  /\ At(p, "session") /\ order[Run(p)].call = "succeeded" /\ ~order[Run(p)].known
  /\ order' = [order EXCEPT ![Run(p)].known = TRUE]
  /\ UNCHANGED <<clock, lock, procVars, status, gates, binding, history>>

\* close_unresolved_calls, persist_output, and the status _status will give the run.
EndSession(p) ==
  /\ At(p, "session")
  /\ flight' = [flight EXCEPT ![p] = "none"]
  /\ \/ /\ ResolveAs(p, "unknown")
        /\ \E asked \in {{}} \cup {{t} : t \in AskTimes} : request' = [request EXCEPT ![p] = asked]
        /\ \E st \in {"ended", "invalid"} :
             /\ st = "invalid" => request'[p] = {}
             /\ ending' = [ending EXCEPT ![p] = st]
        /\ Goto(p, "schedule")
     \/ \* Something of it cannot be recorded or read back: an exception.
        (ResolveAs(p, "unknown") \/ UNCHANGED order) /\ UNCHANGED request /\ End(p, "error")
  /\ UNCHANGED <<clock, lock, conn, slot, role, killed, status, gates, binding, history>>

\* _apply_agent_next_run: a request that cannot be placed or recorded is dropped, and when
\* that cannot be recorded either, the run ends as failed.
ApplyAgentNextRun(p) ==
  /\ At(p, "schedule")
  /\ \/ LET placed == UNION {PlaceNextRun(t, g) : t \in request[p], g \in gates[slot[p]]} IN
          /\ binding' = [binding EXCEPT ![slot[p]] = @ \cup placed]
          /\ request' = [request EXCEPT ![p] = placed]
          /\ Goto(p, "cap") /\ UNCHANGED ending
     \/ /\ request[p] # {} /\ request' = [request EXCEPT ![p] = {}]
        /\ \/ Goto(p, "cap") /\ UNCHANGED ending
           \/ End(p, "error")
        /\ UNCHANGED binding
  /\ UNCHANGED <<clock, lock, conn, slot, role, killed, flight, status, gates, order, history>>

Unfilled(r) == order[r].intent /\ ~order[r].known

Cap(s) == UNION {PlaceNextRun(g + UnfilledGap, g) : g \in gates[s]}

\* Mutant of ApplyUnfilledOrderCap: any request of the agent stands.
CapWithoutRequest(p) ==
  /\ At(p, "cap")
  /\ \/ /\ binding' = [binding EXCEPT ![slot[p]] =
                        @ \cup IF Unfilled(Run(p)) /\ request[p] = {} THEN Cap(slot[p]) ELSE {}]
        /\ UNCHANGED uncapped
     \/ Unfilled(Run(p)) /\ uncapped' = uncapped \cup {Run(p)} /\ UNCHANGED binding
  /\ request' = [request EXCEPT ![p] = {}]
  /\ Goto(p, "final")
  /\ UNCHANGED <<clock, lock, conn, slot, role, killed, ending, flight,
                 status, gates, order, sessions>>

\* _apply_unfilled_order_cap: unless this run's own request is no later.  Whatever fails
\* in it (a row that cannot be read, the calendar, the event) is logged and no more.
ApplyUnfilledOrderCap(p) ==
  /\ At(p, "cap")
  /\ \/ LET noLater == \E t \in request[p], c \in Cap(slot[p]) : t <= c IN
          /\ binding' = [binding EXCEPT ![slot[p]] =
                           @ \cup IF Unfilled(Run(p)) /\ ~noLater THEN Cap(slot[p]) ELSE {}]
          /\ UNCHANGED uncapped
     \/ Unfilled(Run(p)) /\ uncapped' = uncapped \cup {Run(p)} /\ UNCHANGED binding
  /\ request' = [request EXCEPT ![p] = {}]
  /\ Goto(p, "final")
  /\ UNCHANGED <<clock, lock, conn, slot, role, killed, ending, flight,
                 status, gates, order, sessions>>

----------------------------------------------------------------------------
(* The end of a run, the sell run, and recovery                            *)

\* finalize(); what follows depends on whether the tick is a new one.
Finalize(p) ==
  /\ At(p, "final")
  /\ status' = [status EXCEPT ![Run(p)] = ending[p]]
  /\ Goto(p, IF role[p] = "sell" \/ ending[p] = "gated" THEN "exit"
             ELSE IF ending[p] = "recovered" THEN "other" ELSE "sell")
  /\ UNCHANGED <<clock, lock, conn, slot, role, killed, ending, request, flight,
                 gates, binding, order, history>>

\* The sell run's row; a row that exists already raises LedgerError (see OneSessionPerRun).
OpenSell(p) ==
  /\ At(p, "sell") /\ status[<<slot[p], "sell">>] = "absent"
  /\ status' = [status EXCEPT ![<<slot[p], "sell">>] = "open"]
  /\ role' = [role EXCEPT ![p] = "sell"]
  /\ Goto(p, "gate")
  /\ UNCHANGED <<clock, lock, conn, slot, killed, ending, request, flight,
                 gates, binding, order, history>>

\* _refire's second half: an interrupted sell run of the same slot.
LookAtSell(p) ==
  /\ At(p, "other")
  /\ role' = [role EXCEPT ![p] = "sell"]
  /\ Goto(p, IF status[<<slot[p], "sell">>] = "open" THEN "recover" ELSE "exit")
  /\ UNCHANGED <<clock, lock, conn, slot, killed, ending, request, flight, ledgerVars, history>>

\* Mutant of Recover: a call without an outcome is taken for not done.
RecoverAsFailed(p) ==
  /\ At(p, "recover")
  /\ ResolveAs(p, "failed")
  /\ End(p, "recovered")
  /\ UNCHANGED <<clock, lock, conn, slot, role, killed, request, flight,
                 status, gates, binding, history>>

\* recover(): an order call without an outcome becomes unknown, and no session starts.
Recover(p) ==
  /\ At(p, "recover")
  /\ order' = [order EXCEPT ![Run(p)].call = IF @ \in {"recorded", "requested"} THEN "unknown" ELSE @]
  /\ End(p, "recovered")
  /\ UNCHANGED <<clock, lock, conn, slot, role, killed, request, flight,
                 status, gates, binding, history>>

\* Mutant of Exit: the connection, and its lock with it, outlives the tick.
ExitLocked(p) ==
  /\ At(p, "exit")
  /\ Goto(p, "done")
  /\ UNCHANGED <<clock, lock, conn, slot, role, killed, ending, request, flight,
                 ledgerVars, history>>

\* The lock's context ends: unlock, close the connection.
Exit(p) ==
  /\ At(p, "exit")
  /\ lock' = lock \ {p}
  /\ Gone(p)
  /\ UNCHANGED <<clock, ledgerVars, history>>

----------------------------------------------------------------------------
(* Failures and time                                                       *)

Running(p) == pc[p] \notin {"idle", "done"}

\* The connection drops during a session; the session's own calls go on.  Anywhere else the
\* next thing a process does is a ledger write, so there a lost connection is a Crash.
LoseConnection(p) ==
  /\ At(p, "session")
  /\ conn' = [conn EXCEPT ![p] = FALSE]
  /\ UNCHANGED <<clock, lock, pc, slot, role, killed, ending, request, flight,
                 ledgerVars, history>>

\* The process is killed, or fails at a ledger write it cannot make.
Crash(p) ==
  /\ Running(p)
  /\ Gone(p)
  /\ UNCHANGED <<clock, lock, ledgerVars, history>>

\* The database notices that the session is gone and drops its advisory lock.
DropLock(p) ==
  /\ p \in lock /\ ~conn[p]
  /\ lock' = lock \ {p}
  /\ UNCHANGED <<clock, procVars, ledgerVars, history>>

\* Only a session lasts as long as a slot, and its deadline ends it.
Tick ==
  /\ clock < MaxClock
  /\ \A p \in Procs : Running(p) => pc[p] = "session" /\ ~OutOfBudget(p)
  /\ clock' = clock + 1
  /\ UNCHANGED <<lock, procVars, ledgerVars, history>>

----------------------------------------------------------------------------

Session(p) ==
  \/ RequestOrder(p) \/ RecordIntent(p) \/ SendOrder(p) \/ RecordOutcome(p)
  \/ ReadFill(p) \/ EndSession(p)

ProcStep(p) ==
  \/ OpenSlot(p) \/ Gate(p) \/ StartRun(p) \/ Session(p)
  \/ ApplyAgentNextRun(p) \/ ApplyUnfilledOrderCap(p) \/ Finalize(p)
  \/ OpenSell(p) \/ LookAtSell(p) \/ Recover(p) \/ Exit(p)

Next ==
  \/ Tick
  \/ \E p \in Procs : \/ Fire(p) \/ SkipTick(p) \/ ProcStep(p)
                      \/ LoseConnection(p) \/ Crash(p) \/ DropLock(p)

Spec == Init /\ [][Next]_vars

\* Every step of a process is bounded by a timeout (statements, calls, the deadline that
\* ends a session), a write on a lost connection raises, and the database drops the lock
\* of a dead session.  Nothing makes a new process start.
FairSpec ==
  /\ Spec
  /\ \A p \in Procs : WF_vars(ProcStep(p)) /\ WF_vars(~conn[p] /\ Crash(p)) /\ WF_vars(DropLock(p))

----------------------------------------------------------------------------
(* Properties                                                              *)

\* However often a slot is fired again, and wherever a fire crashed, each run of it gets
\* at most one session, and the sell run of a new tick never exists already ("only a racing
\* process could have opened it; the lock forbids that").
OneSessionPerRun ==
  /\ \A r \in Runs : sessions[r] <= 1
  /\ \A p \in Procs : At(p, "sell") => status[<<slot[p], "sell">>] = "absent"

\* What the ledger says of an order call is never more than is known.  A call recorded as
\* failed never reaches the broker, not even when a process that lost its lock sends it
\* after another process recovered the run; what was sent has its intent in the ledger;
\* and a run that ended or was recovered leaves no dispatched call without an outcome.
OutcomeNeverGuessed ==
  \A r \in Runs :
    /\ order[r].call = "failed" => ~order[r].sent
    /\ order[r].sent => order[r].intent
    /\ status[r] \in {"ended", "invalid", "recovered"} => order[r].call # "requested"

\* Two sessions are alive at once only when a process lost its lock and its slot's schedule
\* holds an earlier time than the fallback: else the fallback outlasts the run budget.
OverlapNeedsBinding ==
  \A p, q \in Procs :
    p # q /\ pc[p] = "session" /\ pc[q] = "session" =>
      \/ slot[p] < slot[q] /\ binding[slot[p]] # {}
      \/ slot[q] < slot[p] /\ binding[slot[q]] # {}

\* A run that ended on its own with an order not filled in full caps the tick's next run,
\* whatever its own agent and the tick's other agent asked for; and when that cap could not
\* be recorded, "the fallback or agent time stands": there is one, within the maximum gap.
UnfilledCaps ==
  \A r \in Runs :
    status[r] \in {"ended", "invalid"} /\ Unfilled(r) =>
      /\ r \in uncapped \/ \A c \in Cap(r[1]) : \E t \in NotBefore(r[1]) : t <= c
      /\ \E t \in NotBefore(r[1]), g \in gates[r[1]] : \A m \in NextOpen(g + MaxGap) : t <= m

StartsClose(p) == role[p] = "close" /\ pc[p] = "plan" /\ pc'[p] = "session"

\* No tick starts before the next-run time of any earlier slot, crashed or not.
RespectsSchedule ==
  [][\A p \in Procs : StartsClose(p) =>
       \A s \in Slots : s < slot[p] /\ gates[s] # {} => \E t \in NotBefore(s) : t <= clock]_vars

\* A dead or disconnected process never keeps later ticks out for good.
LockFreed == \A p \in Procs : p \in lock ~> p \notin lock

----------------------------------------------------------------------------
(* What the source says of itself                                          *)

\* orchestrator/schedule.py: "a run that crashes or returns no valid output is retried on
\* the old hourly cadence".
RetriedOnFallback ==
  \A r \in Runs : status[r] = "invalid" =>
    \A g \in gates[r[1]] : \E t \in NotBefore(r[1]), f \in PlaceNextRun(g + FallbackGap, g) : t <= f

=============================================================================
