----------------------------- MODULE ToolCalls -----------------------------
(***************************************************************************)
(* A session's tool calls, from the CLI's request to the recorded outcome  *)
(* (agent/hooks.py, agent/proxy_dispatch.py, agent/proxy.py,               *)
(* ledger/tool_calls.py).  PreToolUse decides and records; a proxied call  *)
(* is handed to the validating proxy, which forwards it once; PostToolUse  *)
(* or PostToolUseFailure records what was delivered; the end of the        *)
(* session closes what is still open.                                      *)
(*                                                                         *)
(* The CLI is another program: it may drop a call, time out, interrupt and *)
(* send a message twice.  Hooks and proxy share one pipe to it, so what it *)
(* sent before a failure report is claimed before it, except when it       *)
(* interrupts, which it does only after the stop latch (session.py, watch).*)
(* Any write to the ledger may fail.  A check of the hooks that has no     *)
(* state in this module is a choice.                                       *)
(***************************************************************************)
EXTENDS Naturals, Sequences, FiniteSets

CONSTANTS
  Calls,          \* tool_use_ids of the orchestrator and its Mignons
  Actions,        \* the Tier S and Tier X calls
  Spawns,         \* the Agent calls, each starting a Mignon (Tier D)
  Proxied,        \* the calls of proxied servers
  CleanupCalls,   \* the calls of CLEANUP_TOOLS
  MaxSpawns,      \* mignons.max_per_run
  MaxConcurrent,  \* mignons.max_concurrent
  MaxSends        \* bound: times the CLI sends one call's message

ASSUME ToolCallsAssumption ==
  /\ IsFiniteSet(Calls)
  /\ Actions \subseteq Calls /\ Spawns \subseteq Calls \ (Actions \cup Proxied)
  /\ Proxied \subseteq Calls
  /\ MaxSpawns \in Nat /\ MaxConcurrent \in Nat

VARIABLES
  latch,     \* RunControl.stop_requested
  gate,      \* OutputRepairGate: open, cleanup (CLEANUP_TOOLS only) or closed
  ended,     \* the session ended and close_unresolved_calls ran
  cli,       \* cli[c]: how far the CLI is with c
  sends,     \* sends[c]: messages the CLI sent for c
  wire,      \* wire[c]: those the server has not taken up
  known,     \* the hooks' `calls`: admitted, and not reported back
  active,    \* the hooks' `active`: Agent calls in flight
  spawned,   \* the hooks' `spawned`
  events,    \* events[c]: tool_call_events of c, in the order recorded
  proxy,     \* proxy[c]: CallState in ProxyDispatch, "none" before register
  reached,   \* reached[c]: times c was sent to its server
  working,   \* calls whose handler awaits the server
  answers    \* answers[c]: what the CLI was given for c: "envelope", "fallback"

hookVars == <<known, active, spawned>>
serverVars == <<reached, working>>
callVars == <<latch, gate, ended, cli, sends, wire, hookVars, events, proxy,
              serverVars, answers>>

OutcomeStatus == {"denied", "succeeded", "failed", "unknown"}

-----------------------------------------------------------------------------
(* The ledger's projections. *)

Recorded(c, kind) == \E i \in DOMAIN events[c] : events[c][i] = kind

\* tool_call_status: the latest event that bears a status.
StatusIn(es) ==
  LET bearing == {i \in DOMAIN es : es[i] \in {"requested"} \cup OutcomeStatus}
  IN  IF bearing = {} THEN "none" ELSE es[CHOOSE i \in bearing : \A j \in bearing : j <= i]
CallStatus(c) == StatusIn(events[c])

Record(c, kinds) == events' = [events EXCEPT ![c] = @ \o kinds]

\* unresolved_status: an action whose result is unusable has an unknown outcome.
Unresolved(c) == IF c \in Actions THEN "unknown" ELSE "failed"

-----------------------------------------------------------------------------
(* PreToolUse. *)

\* OutputRepairGate.denial
GateDenies(c) == gate = "closed" \/ (gate = "cleanup" /\ c \notin CleanupCalls)

\* Mutant of SpawnFits: a Mignon counts once its Agent call has started.
SpawnFitsStarted ==
  /\ spawned < MaxSpawns
  /\ Cardinality({c \in active : cli[c] = "sent"}) < MaxConcurrent

\* check_spawn: the caps, counting the Agent calls admitted in parallel.
SpawnFits == spawned < MaxSpawns /\ Cardinality(active) < MaxConcurrent

\* decide: what denies a call whatever its arguments are.
Denied(c) ==
  \/ GateDenies(c)
  \/ c \in Actions \cup Spawns /\ latch
  \/ c \in Spawns /\ ~SpawnFits

\* The call is refused and recorded as denied; a check that raises, or a write that fails
\* (the dispatch of an allowed call too), also stops the run and may leave the refusal out.
Refuse(c) ==
  /\ cli' = [cli EXCEPT ![c] = "over"]
  /\ \/ Record(c, <<"requested", "denied">>) /\ latch' \in {latch, TRUE}
     \/ Record(c, <<"requested">>) /\ latch' = TRUE
     \/ UNCHANGED events /\ latch' = TRUE
  /\ UNCHANGED <<hookVars, proxy>>

Allow(c) ==
  /\ ~Denied(c)
  /\ cli' = [cli EXCEPT ![c] = "allowed"]
  /\ Record(c, <<"requested", "dispatched">>)
  /\ proxy' = [proxy EXCEPT ![c] = IF c \in Proxied THEN "pending" ELSE @]
  /\ known' = known \cup {c}
  /\ active' = active \cup ({c} \cap Spawns)
  /\ spawned' = IF c \in Spawns THEN spawned + 1 ELSE spawned
  /\ UNCHANGED latch

PreToolUse(c) ==
  /\ cli[c] = "idle" /\ ~ended
  /\ Refuse(c) \/ Allow(c)
  /\ UNCHANGED <<gate, ended, sends, wire, serverVars, answers>>

-----------------------------------------------------------------------------
(* The CLI sends an admitted call on, perhaps twice. *)

CliSends(c) ==
  /\ cli[c] \in {"allowed", "sent"} /\ ~ended
  /\ sends[c] < IF c \in Proxied THEN MaxSends ELSE 1
  /\ cli' = [cli EXCEPT ![c] = "sent"]
  /\ sends' = [sends EXCEPT ![c] = @ + 1]
  /\ IF c \in Proxied
     THEN wire' = [wire EXCEPT ![c] = @ + 1] /\ UNCHANGED reached
     ELSE reached' = [reached EXCEPT ![c] = @ + 1] /\ UNCHANGED wire
  /\ UNCHANGED <<latch, gate, ended, hookVars, events, proxy, working, answers>>

-----------------------------------------------------------------------------
(* The validating proxy: ValidatingProxy.call_tool and _handle. *)

Answer(c, with) == answers' = [answers EXCEPT ![c] = @ \cup {with}]

\* Whatever raises stops the run; the CLI gets an envelope no one recorded.
Fallback(c) ==
  /\ Answer(c, "fallback")
  /\ latch' = TRUE
  /\ UNCHANGED events

\* ProxyDispatch.claim
Claimable(c) == proxy[c] = "pending"

\* A repeated message: nothing is claimed.
TakesAgain(c) ==
  /\ ~Claimable(c)
  /\ Fallback(c)
  /\ UNCHANGED <<proxy, serverVars>>

\* _not_forwarded: the message differs, the stop latch, a filing known to be unavailable,
\* or an order intent that could not be recorded.
NotForwarded(c) ==
  /\ Claimable(c)
  /\ \/ /\ proxy' = [proxy EXCEPT ![c] = "completed"]
        /\ Record(c, <<"failed">>)
        /\ Answer(c, "envelope")
        /\ latch' \in {latch, TRUE}
     \/ proxy' = [proxy EXCEPT ![c] = "claimed"] /\ Fallback(c)
  /\ UNCHANGED serverVars

\* Mutant of StopForbids: only the hooks ask for the latch.
StopForbidsNothing(c) == FALSE

\* The proxy asks again whether a stop was requested, for actions.
StopForbids(c) == c \in Actions /\ latch

Forwards(c) ==
  /\ Claimable(c) /\ ~StopForbids(c)
  /\ proxy' = [proxy EXCEPT ![c] = "claimed"]
  /\ reached' = [reached EXCEPT ![c] = @ + 1]
  /\ working' = working \cup {c}
  /\ UNCHANGED <<latch, events, answers>>

ProxyTakes(c) ==
  /\ wire[c] > 0
  /\ wire' = [wire EXCEPT ![c] = @ - 1]
  /\ TakesAgain(c) \/ NotForwarded(c) \/ Forwards(c)
  /\ UNCHANGED <<gate, ended, cli, sends, hookVars>>

\* The server answered, or did not in time.  The result is valid, or of no use (an error,
\* invalid, too large); after a valid one the order recorder may fail.
ProxyReturns(c) ==
  /\ c \in working
  /\ working' = working \ {c}
  /\ \/ /\ proxy' = [proxy EXCEPT ![c] = "completed"]
        /\ Answer(c, "envelope")
        /\ \/ Record(c, <<"succeeded">>) /\ latch' \in {latch, TRUE}
           \/ Record(c, <<Unresolved(c)>>) /\ UNCHANGED latch
     \/ Fallback(c) /\ UNCHANGED proxy
  /\ UNCHANGED <<gate, ended, cli, sends, wire, hookVars, reached>>

-----------------------------------------------------------------------------
(* PostToolUse and PostToolUseFailure. *)

Forget(c) == known' = known \ {c} /\ active' = active \ {c} /\ UNCHANGED spawned

\* proxied_post: the answer must be the one the proxy completed the call with.
ProxiedPost(c) ==
  \/ /\ proxy[c] = "completed" /\ "envelope" \in answers[c]
     /\ \/ Record(c, <<"delivered">>) /\ UNCHANGED latch
        \/ UNCHANGED events /\ latch' = TRUE
  \/ /\ "fallback" \in answers[c]
     /\ latch' = TRUE
     /\ \/ UNCHANGED events
        \/ proxy[c] # "completed" /\ Record(c, <<Unresolved(c)>>)

\* post_tool_use of a server that is not proxied, and agent_post.
DirectPost(c) ==
  \/ Record(c, <<"succeeded", "delivered">>) /\ UNCHANGED latch
  \/ Record(c, <<Unresolved(c), "delivered">>) /\ UNCHANGED latch
  \/ latch' = TRUE /\ (UNCHANGED events \/ Record(c, <<"succeeded">>) \/ Record(c, <<Unresolved(c)>>))

PostToolUse(c) ==
  /\ cli[c] = "sent" /\ c \in known
  /\ IF c \in Proxied THEN ProxiedPost(c) ELSE DirectPost(c)
  /\ cli' = [cli EXCEPT ![c] = "over"]
  /\ Forget(c)
  /\ UNCHANGED <<gate, ended, sends, wire, proxy, serverVars, answers>>

\* Mutant of FailureStatus: the report counts also for a call the proxy has taken.
FailureStatusAlways(c) == <<IF proxy[c] = "pending" THEN "failed" ELSE Unresolved(c)>>

\* A call the proxy has taken has (or gets) the proxy's outcome; one it has not taken
\* never reached the server.
FailureStatus(c) ==
  IF proxy[c] \in {"claimed", "completed"} THEN <<>>
  ELSE <<IF proxy[c] = "pending" THEN "failed" ELSE Unresolved(c)>>

\* The CLI gives up: the call was not sent, timed out, or was interrupted.
PostToolUseFailure(c) ==
  /\ c \in known
  /\ cli[c] = "allowed" \/ (cli[c] = "sent" /\ (wire[c] = 0 \/ latch))
  /\ \/ Record(c, FailureStatus(c)) /\ UNCHANGED latch
     \/ UNCHANGED events /\ latch' = TRUE
  /\ cli' = [cli EXCEPT ![c] = "over"]
  /\ Forget(c)
  /\ UNCHANGED <<gate, ended, sends, wire, proxy, serverVars, answers>>

-----------------------------------------------------------------------------
(* The session around the calls. *)

RequestStop ==
  /\ ~latch /\ latch' = TRUE
  /\ UNCHANGED <<gate, ended, cli, sends, wire, hookVars, events, proxy, serverVars, answers>>

\* OutputRepairGate.restrict and close: the gate only narrows.
NarrowGate ==
  /\ \/ gate = "open" /\ gate' = "cleanup"
     \/ gate # "closed" /\ gate' = "closed"
  /\ UNCHANGED <<latch, ended, cli, sends, wire, hookVars, events, proxy, serverVars, answers>>

\* close_unresolved_calls, after the client and the servers are gone.
EndSession ==
  /\ ~ended /\ ended' = TRUE
  /\ events' = [c \in Calls |->
       IF Recorded(c, "dispatched") /\ CallStatus(c) = "requested"
       THEN Append(events[c], "unknown") ELSE events[c]]
  /\ cli' = [c \in Calls |-> "over"]
  /\ wire' = [c \in Calls |-> 0]
  /\ working' = {}
  /\ known' = {} /\ active' = {}
  /\ UNCHANGED <<latch, gate, sends, spawned, proxy, reached, answers>>

CallsInit ==
  /\ latch = FALSE /\ gate = "open" /\ ended = FALSE
  /\ cli = [c \in Calls |-> "idle"]
  /\ sends = [c \in Calls |-> 0]
  /\ wire = [c \in Calls |-> 0]
  /\ known = {} /\ active = {} /\ spawned = 0
  /\ events = [c \in Calls |-> <<>>]
  /\ proxy = [c \in Calls |-> "none"]
  /\ reached = [c \in Calls |-> 0]
  /\ working = {}
  /\ answers = [c \in Calls |-> {}]

Hook(c) == PreToolUse(c) \/ PostToolUse(c) \/ PostToolUseFailure(c)
CallsNext ==
  \/ \E c \in Calls : Hook(c) \/ CliSends(c) \/ ProxyTakes(c) \/ ProxyReturns(c)
  \/ RequestStop \/ NarrowGate \/ EndSession

CallsSpec == CallsInit /\ [][CallsNext]_callVars

-----------------------------------------------------------------------------
(* Properties. *)

CallsTypeOK ==
  /\ latch \in BOOLEAN /\ ended \in BOOLEAN
  /\ gate \in {"open", "cleanup", "closed"}
  /\ cli \in [Calls -> {"idle", "allowed", "sent", "over"}]
  /\ sends \in [Calls -> Nat] /\ wire \in [Calls -> Nat]
  /\ known \subseteq Calls /\ active \subseteq Spawns /\ spawned \in Nat
  /\ events \in [Calls -> Seq({"requested", "dispatched", "delivered"} \cup OutcomeStatus)]
  /\ proxy \in [Calls -> {"none", "pending", "claimed", "completed"}]
  /\ reached \in [Calls -> Nat] /\ working \subseteq Proxied
  /\ answers \in [Calls -> SUBSET {"envelope", "fallback"}]

\* A call reaches its server at most once, also when the CLI repeats its message, and an
\* action recorded as denied or failed never did: "failed" may be acted on as "not done".
ReachesOnce ==
  \A c \in Calls :
    /\ reached[c] <= 1
    /\ c \in Actions /\ CallStatus(c) \in {"denied", "failed"} => reached[c] = 0

\* What is recorded of an action stands: no later report, repeated answer or clean-up
\* contradicts a known outcome.
OutcomeStands ==
  [][\A c \in Actions :
       CallStatus(c) \in OutcomeStatus \ {"unknown"} => CallStatus(c)' = CallStatus(c)]_callVars

\* The Mignons running at one time, and in all, stay within the caps, also when several
\* are spawned in parallel and some of the spawns fail.
SpawnCaps ==
  /\ Cardinality({c \in Spawns : cli[c] = "sent"}) <= MaxConcurrent
  /\ Cardinality({c \in Spawns : reached[c] > 0}) <= MaxSpawns
=============================================================================
