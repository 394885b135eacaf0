---------------------------- MODULE SessionStart ----------------------------
(***************************************************************************)
(* The life of one agent session around its conversation (agent/session.py,*)
(* agent/withholding.py, agent/start_probe.py, domain/start_conditions.py, *)
(* integrations/status.py): which servers are served and how, the account  *)
(* check, the role's start condition, and what is recorded at the end.     *)
(*                                                                         *)
(* A server may be down, refuse the credential, or lack a tool it should   *)
(* have; a read may fail or be incomplete; the stop latch may fall at any  *)
(* step.  The owner's account does not change while it is read.            *)
(***************************************************************************)
EXTENDS Integers

CONSTANTS
  Sources,      \* the remote servers
  Robinhood,    \* the one that is required (main.py, _plan)
  MaxShort,     \* bound: short contracts held
  MaxLots,      \* bound: lots of 100 shares held
  MinCash,      \* sessions.sell_min_settled_cash_usd
  MaxCash       \* bound: settled cash

ASSUME SessionAssumption ==
  Robinhood \in Sources /\ MinCash \in 1..MaxCash /\ {MaxShort, MaxLots, MaxCash} \subseteq Nat

VARIABLES
  setup,      \* [role, live, serve]; serve[s]: proxied, direct or off
  account,    \* the truth: [agentic, cash, lots, short], and the tick's
              \* simulated fills [delta, debits]
  stage,      \* where run_agent_session is
  untried,    \* proxied servers not opened yet
  withheld,   \* ServerWithholding and result.withheld
  facts,      \* what the probe read: [cash, shares, shorts, paged]
  outcome,    \* StartOutcome, "none" before it is decided
  stopAsked,  \* RunControl.stop_requested
  prompted,   \* the conversation began
  initSeen,   \* the client's init message was checked
  reply,      \* an output was returned (raw_output)
  status,     \* SessionStatus
  saved       \* persist_output ran

beginVars == <<setup, account, facts, outcome>>
endVars == <<prompted, initSeen, reply, status, saved>>
startVars == <<beginVars, stage, untried, withheld, stopAsked, endVars>>

Unknown == -(MaxCash + 2)
Facts == [cash : {Unknown} \cup -MaxCash..MaxCash, shares : {Unknown} \cup 0..MaxLots,
          shorts : {Unknown} \cup 0..(2 * MaxShort), paged : BOOLEAN]
Offers == [usable : BOOLEAN, verified : BOOLEAN, token : BOOLEAN]

-----------------------------------------------------------------------------
(* Planning. *)

\* plan_session, for one source: the proxy is accepted, and so is direct delivery or not.
Serve(offer, directAccepted) ==
  IF ~offer.usable \/ ~offer.verified THEN "off"
  ELSE IF offer.token THEN "proxied"
  ELSE IF directAccepted THEN "direct" ELSE "off"

\* order_venue
Venue == IF setup.live THEN "broker"
         ELSE IF setup.serve[Robinhood] = "proxied" THEN "simulated" ELSE "none"

Upstreams == {s \in Sources : setup.serve[s] = "proxied"} \ (untried \cup withheld)

\* Add-only: a server is never released.
Withhold(S) == withheld' = withheld \cup S

Ends(st) == stage' = "over" /\ status' = st /\ UNCHANGED <<prompted, initSeen, reply, saved>>
Goes(to) == stage' = to /\ UNCHANGED endVars

BeginsSession ==
  /\ stage = "planned"
  /\ IF Robinhood \in withheld THEN Ends("not_started") /\ UNCHANGED untried
     ELSE /\ untried' = {s \in Sources : setup.serve[s] = "proxied"}
          /\ Goes("opening")
  /\ UNCHANGED <<beginVars, withheld, stopAsked>>

\* One server of _open_upstreams, and what _withhold_unavailable does with it: kept when
\* it connects in what is left of the budget and no expected tool is missing.
OpensUpstream(s) ==
  /\ stage = "opening" /\ s \in untried
  /\ untried' = untried \ {s}
  /\ UNCHANGED withheld \/ Withhold({s})
  /\ UNCHANGED <<beginVars, stage, stopAsked, endVars>>

UpstreamsOpened ==
  /\ stage = "opening" /\ untried = {}
  /\ Goes(IF Robinhood \in Upstreams THEN "account" ELSE "checked")
  /\ UNCHANGED <<beginVars, untried, withheld, stopAsked>>

\* The listing says what the account is, or the check fails.
ChecksAccount ==
  /\ stage = "account"
  /\ \/ account.agentic /\ UNCHANGED withheld
     \/ Withhold({Robinhood})
  /\ Goes("checked")
  /\ UNCHANGED <<beginVars, untried, stopAsked>>

\* Then the run may have to end before anything is read of the account.
AccountChecked ==
  /\ stage = "checked"
  /\ IF Robinhood \in withheld \/ stopAsked THEN Ends("not_started")
     ELSE Goes(IF setup.role = "wheel" THEN "client"
               ELSE IF Robinhood \notin Upstreams THEN "unread"
               ELSE IF setup.role = "close" THEN "read shorts" ELSE "read cash")
  /\ UNCHANGED <<beginVars, untried, withheld, stopAsked>>

-----------------------------------------------------------------------------
(* The start condition. *)

Simulated == Venue = "simulated"

\* overlay_simulated: the rows after the tick's simulated fills.
Overlay(quantity) ==
  LET net == quantity + (IF Simulated THEN account.delta ELSE 0)
  IN  IF net > 0 THEN net ELSE 0

Read(fact, value, next) ==
  facts' = [facts EXCEPT ![fact] = value] /\ Goes(next)

\* get_portfolio, less the tick's simulated debits; enough cash decides alone.
ReadsCash ==
  /\ stage = "read cash"
  /\ LET cash == account.cash - (IF Simulated THEN account.debits ELSE 0)
     IN  \/ Read("cash", cash, IF cash >= MinCash THEN "decide" ELSE "read shares")
         \/ Read("cash", Unknown, "read shares")
  /\ UNCHANGED <<setup, account, outcome, untried, withheld, stopAsked>>

ReadsShares ==
  /\ stage = "read shares"
  /\ \E value \in {account.lots, Unknown} : Read("shares", value, "read shorts")
  /\ UNCHANGED <<setup, account, outcome, untried, withheld, stopAsked>>

\* Mutant of ShortsRead: a page that lists no short shows there is none.
ShortsReadFirstPage(shorts, paged) == shorts \in {Overlay(account.short), Overlay(0)} /\ ~paged

\* short_rows and first_page_lists_a_short: a complete read, or a page of a longer one
\* that may list a short, or none.
ShortsRead(shorts, paged) ==
  \/ shorts = Overlay(account.short) /\ ~paged
  \/ shorts = Unknown /\ (paged => account.short > 0)

ReadsShorts ==
  /\ stage = "read shorts"
  /\ \E shorts \in {Unknown} \cup 0..(2 * MaxShort), paged \in BOOLEAN :
       /\ ShortsRead(shorts, paged)
       /\ facts' = [facts EXCEPT !.shorts = shorts, !.paged = paged]
  /\ Goes("decide")
  /\ UNCHANGED <<setup, account, outcome, untried, withheld, stopAsked>>

\* evaluate_close_start, after the page that proves there is a short.
CloseOutcome ==
  IF facts.shorts = Unknown
  THEN IF facts.paged /\ ~Simulated THEN "met" ELSE "unavailable"
  ELSE IF facts.shorts > 0 THEN "met" ELSE "not_met"

\* evaluate_sell_start; coverable_symbols counts every short against the shares.
SellOutcome ==
  IF facts.cash # Unknown /\ facts.cash >= MinCash THEN "met"
  ELSE IF facts.shares = Unknown \/ facts.shorts = Unknown THEN "unavailable"
  ELSE IF facts.shares > facts.shorts THEN "met"
  ELSE IF facts.cash = Unknown THEN "unavailable" ELSE "not_met"

\* _check_start_condition, and what run_agent_session does with it.
DecidesStart ==
  /\ stage \in {"decide", "unread"}
  /\ outcome' = IF stage = "unread"
                THEN IF Venue = "none" THEN "unchecked" ELSE "unavailable"
                ELSE IF setup.role = "close" THEN CloseOutcome ELSE SellOutcome
  /\ CASE outcome' \in {"met", "unchecked"} -> Goes("client")
       [] outcome' = "not_met" -> Ends("skipped")
       [] OTHER -> Ends("not_started")
  /\ UNCHANGED <<setup, account, facts, untried, withheld, stopAsked>>

-----------------------------------------------------------------------------
(* The client. *)

\* Direct servers of the plan.
Direct == {s \in Sources : setup.serve[s] = "direct"}

ClosesWith(st) == stage' = "closing" /\ status' = st /\ UNCHANGED <<prompted, initSeen, saved>>

\* The loopback server and the client start, or the session has failed.
StartsClient ==
  /\ stage = "client"
  /\ \/ Goes("polling")
     \/ ClosesWith("failed") /\ UNCHANGED reply
  /\ UNCHANGED <<beginVars, untried, withheld, stopAsked>>

\* _poll_status: a direct server that is not connected and verified when the polls end.
PollsServers ==
  /\ stage = "polling"
  /\ \E S \in SUBSET Direct : Withhold(S)
  /\ Goes("connected")
  /\ UNCHANGED <<beginVars, untried, stopAsked>>

Prompts ==
  /\ stage = "connected"
  /\ IF Robinhood \notin withheld /\ ~stopAsked THEN /\ stage' = "talking" /\ prompted' = TRUE
                       /\ UNCHANGED <<initSeen, reply, status, saved>>
     ELSE Ends("not_started")
  /\ UNCHANGED <<beginVars, untried, withheld, stopAsked>>

\* _init_check: Robinhood, the local server or the order work missing stops the run.
ChecksInit ==
  /\ stage = "talking" /\ ~initSeen
  /\ initSeen' = TRUE
  /\ \E S \in SUBSET (Direct \cup Upstreams), codeServers \in BOOLEAN :
       /\ Withhold(S)
       /\ stopAsked' = (stopAsked \/ Robinhood \in S \/ ~codeServers)
  /\ UNCHANGED <<beginVars, stage, untried, prompted, reply, status, saved>>

\* The conversation (Conversation) returns, with an output or without, or raises.
EndsTalk ==
  /\ stage = "talking"
  /\ reply' \in BOOLEAN
  /\ \E raised \in BOOLEAN, error \in BOOLEAN :
       ClosesWith(IF raised THEN "failed" ELSE IF stopAsked THEN "stopped"
                  ELSE IF ~reply' /\ error THEN "failed" ELSE "completed")
  /\ UNCHANGED <<beginVars, untried, withheld, stopAsked>>

\* close_unresolved_calls and persist_output, which stores a missing output as such.
Persists ==
  /\ stage = "closing"
  /\ stage' = "over" /\ saved' = TRUE
  /\ UNCHANGED <<beginVars, untried, withheld, stopAsked, prompted, initSeen, reply, status>>

AsksStop ==
  /\ ~stopAsked /\ stage # "over"
  /\ stopAsked' = TRUE
  /\ UNCHANGED <<beginVars, stage, untried, withheld, endVars>>

Setups ==
  {[role |-> role, live |-> live,
    serve |-> [s \in Sources |-> Serve(offers[s], directAccepted)]] :
     offers \in [Sources -> Offers], directAccepted \in BOOLEAN,
     role \in {"close", "sell", "wheel"}, live \in BOOLEAN}
Accounts == [agentic : BOOLEAN, cash : 0..MaxCash, lots : 0..MaxLots, short : 0..MaxShort,
             delta : -MaxShort..MaxShort, debits : 0..1]

StartBegins(s0, a0) ==
  /\ setup = s0 /\ account = a0
  /\ stage = "planned" /\ untried = {}
  /\ withheld = {s \in Sources : setup.serve[s] = "off"}
  /\ facts = [cash |-> Unknown, shares |-> Unknown, shorts |-> Unknown, paged |-> FALSE]
  /\ outcome = "none" /\ stopAsked = FALSE
  /\ prompted = FALSE /\ initSeen = FALSE /\ reply = FALSE
  /\ status = "not_started" /\ saved = FALSE

StartInit == \E s0 \in Setups, a0 \in Accounts : StartBegins(s0, a0)

StartNext ==
  \/ BeginsSession \/ (\E s \in Sources : OpensUpstream(s)) \/ UpstreamsOpened
  \/ ChecksAccount \/ AccountChecked
  \/ ReadsCash \/ ReadsShares \/ ReadsShorts \/ DecidesStart
  \/ StartsClient \/ PollsServers \/ Prompts \/ ChecksInit \/ EndsTalk \/ Persists
  \/ AsksStop

StartSpec == StartInit /\ [][StartNext]_startVars

-----------------------------------------------------------------------------
(* Properties. *)

StartTypeOK ==
  /\ setup \in Setups /\ account \in Accounts
  /\ untried \subseteq Sources /\ withheld \subseteq Sources
  /\ facts \in Facts
  /\ outcome \in {"none", "met", "not_met", "unavailable", "unchecked"}
  /\ {stopAsked, prompted, initSeen, reply, saved} \subseteq BOOLEAN
  /\ status \in {"not_started", "skipped", "stopped", "failed", "completed"}

\* The role's start condition, of the account as it is (in a dry run, after the fills).
TrulyMet ==
  LET held == Overlay(account.short)
  IN  IF setup.role = "close" THEN held > 0
      ELSE \/ account.cash - (IF Simulated THEN account.debits ELSE 0) >= MinCash
           \/ account.lots > held

\* The agent is prompted only with Robinhood served, only for the Agentic account, and
\* only when its start condition holds or (with no order tool) could not be read; a run is
\* recorded as skipped only when the condition really does not hold, whatever read failed
\* or was cut short; and no conversation ends unrecorded.
StartSound ==
  /\ prompted /\ ~initSeen => Robinhood \notin withheld
  /\ prompted /\ setup.serve[Robinhood] = "proxied" =>
       account.agentic /\ (setup.role # "wheel" => TrulyMet)
  /\ prompted /\ setup.serve[Robinhood] = "direct" /\ setup.role # "wheel" => Venue = "none"
  /\ status = "skipped" => ~TrulyMet
  /\ stage = "over" /\ prompted => saved /\ status \in {"completed", "stopped", "failed"}
=============================================================================
