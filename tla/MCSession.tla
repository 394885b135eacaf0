----------------------------- MODULE MCSession -----------------------------
(***************************************************************************)
(* The parts of a session (and of the tick around it) that share no state, *)
(* checked in one run: `part` says which of them this behaviour is about,  *)
(* and the others stay as they begin.                                      *)
(***************************************************************************)
EXTENDS ToolCalls, Conversation, Credential, PricePlan, SessionStart, SimulatedBroker, Notices,
        WebCache

CONSTANTS act, read, mignon1, mignon2, robinhood, web

VARIABLE part

sessionVars ==
  <<part, callVars, talkVars, credVars, planVars, startVars, simVars, noticeVars, cacheVars>>

\* Two spellings of one question; only one of them names the ticker in capitals.
Spelled == [q \in Queries |-> "sell up"]
Words == [q \in Queries |-> IF q = "Sell UP" THEN {"UP"} ELSE {}]

\* How a part begins that the behaviour is not about.
Idle(p) == part # p
CallsBegin == CallsInit
TalkBegin == IF Idle("talk") THEN TalkBegins("done", FALSE) ELSE TalkInit
PlanBegin == IF Idle("plan") THEN PlanBegins(CHOOSE a \in Asks : TRUE) ELSE PlanInit
StartBegin ==
  IF Idle("start") THEN StartBegins(CHOOSE s \in Setups : TRUE, CHOOSE a \in Accounts : TRUE)
  ELSE StartInit
SimBegin == IF Idle("sim") THEN SimBegins([c \in Contracts |-> 0]) ELSE SimInit

Init ==
  /\ part \in {"calls", "talk", "credential", "plan", "start", "sim", "notices", "searches"}
  /\ CallsBegin /\ TalkBegin /\ CredInit /\ PlanBegin /\ StartBegin /\ SimBegin
  /\ NoticesBegin(part = "notices") /\ CacheBegins(part = "searches")

Next ==
  \/ /\ part = "calls" /\ CallsNext
     /\ UNCHANGED <<part, talkVars, credVars, planVars, startVars, simVars, noticeVars, cacheVars>>
  \/ /\ part = "talk" /\ TalkNext
     /\ UNCHANGED <<part, callVars, credVars, planVars, startVars, simVars, noticeVars, cacheVars>>
  \/ /\ part = "credential" /\ CredNext
     /\ UNCHANGED <<part, callVars, talkVars, planVars, startVars, simVars, noticeVars, cacheVars>>
  \/ /\ part = "plan" /\ PlanNext
     /\ UNCHANGED <<part, callVars, talkVars, credVars, startVars, simVars, noticeVars, cacheVars>>
  \/ /\ part = "start" /\ StartNext
     /\ UNCHANGED <<part, callVars, talkVars, credVars, planVars, simVars, noticeVars, cacheVars>>
  \/ /\ part = "sim" /\ SimNext
     /\ UNCHANGED <<part, callVars, talkVars, credVars, planVars, startVars, noticeVars, cacheVars>>
  \/ /\ part = "notices" /\ NoticesNext
     /\ UNCHANGED <<part, callVars, talkVars, credVars, planVars, startVars, simVars, cacheVars>>
  \/ /\ part = "searches" /\ CacheNext
     /\ UNCHANGED <<part, callVars, talkVars, credVars, planVars, startVars, simVars, noticeVars>>

Spec == Init /\ [][Next]_sessionVars /\ TalkFairness

\* Every variable of the parts has its type (those of a part at rest have that of a beginning).
TypeOK ==
  /\ part = "calls" => CallsTypeOK
  /\ part = "talk" => TalkTypeOK
  /\ part = "credential" => CredTypeOK
  /\ part = "plan" => PlanTypeOK
  /\ part = "start" => StartTypeOK
  /\ part = "sim" => SimTypeOK
  /\ part = "notices" => NoticesTypeOK
  /\ part = "searches" => CacheTypeOK

\* How a session begins, how its conversation ends, and what its searches cost: StartSound of
\* SessionStart, TalkSound of Conversation, CacheSound of WebCache.
SessionSound ==
  /\ part = "start" => StartSound
  /\ part = "talk" => TalkSound
  /\ part = "searches" => CacheSound
=============================================================================
