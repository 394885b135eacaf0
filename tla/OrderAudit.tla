----------------------------- MODULE OrderAudit -----------------------------
(***************************************************************************)
(* The audit of a live run's order sequence (agent/audit/v6_sequence.py,   *)
(* with what it asks of _common.py): what was known of the other orders    *)
(* when a placement was dispatched, judged after the run from the calls    *)
(* and observations the ledger kept.  One placement is judged; before it   *)
(* there may be one other of this run (an earlier step on the contract, an *)
(* order on the other side of it, or the close of a roll) and one order of *)
(* an earlier run on the contract.  The audit presumes nothing of the      *)
(* executor, so calls are sent here in any order.  A moment is a state:    *)
(* what was completed at the dispatch is what the dispatch finds.          *)
(***************************************************************************)
EXTENDS Integers, FiniteSets

CONSTANTS
  Target,     \* the contracts of each leg
  MaxReads,   \* bound: the reads of all orders
  Unread      \* nothing observed, nothing judged yet

VARIABLES
  plan,       \* what "own" is to the judged order: a "walk" step, "back" (other side), or "roll"
  atBroker,   \* the version of the earlier run's order ("old") and of this run's other ("own")
  calls,      \* this run's place and cancel of "own"
  looks,      \* the reads: how far each is, and what the broker answered
  newest,     \* the newest version of each order that a completed call observed
  latest,     \* what the read completed last observed
  judged      \* what the judged dispatch found

orderAuditVars == <<plan, atBroker, calls, looks, newest, latest, judged>>

Plans == {"walk", "back", "roll"}
Others == {"old", "own"}
ReadIds == 1..MaxReads

\* The versions of an order: it is filled, and ends.  A later one has the larger updated_at.
Absent == [is |-> "absent", filled |-> 0]
New == [is |-> "working", filled |-> 0]
Versions == [is : {"absent", "working", "ended"}, filled : 0..Target]
Age(v) ==
  CASE v.is = "absent" -> 0 [] v.is = "working" -> 1 + v.filled [] OTHER -> 2 + Target + v.filled
Later(v, w) == IF Age(w) > Age(v) THEN w ELSE v

\* What one read of all orders shows, and what is judged: neither is "nothing yet".
Sights == [Others -> Versions]
CallStates == [{"place", "cancel"} -> {"idle", "sent", "ok", "lost"}]
Judgements ==
  [asked : 1..Target, newest : Sights, latest : Sights \cup {Unread}, calls : CallStates,
   flying : SUBSET ReadIds, truth : Sights]

ASSUME OrderAuditAssumption ==
  Target \in Nat \ {0} /\ MaxReads \in Nat /\ Unread \notin Nat \cup Sights \cup Judgements

\* status_history is read by its observed_at, whatever order the reads were completed in.
Learn(seen) == newest' = [o \in Others |-> Later(newest[o], seen[o])]

Flying == {r \in ReadIds : looks[r].is \in {"asked", "answered"}}
Unjudged == judged = Unread

OrderAuditBegins(busy) ==
  /\ plan \in (IF busy THEN Plans ELSE {"walk"})
  /\ \E old \in (IF busy THEN {Absent, New} ELSE {Absent}) :
       atBroker = [o \in Others |-> IF o = "old" THEN old ELSE Absent]
  /\ calls = [c \in {"place", "cancel"} |-> "idle"]
  /\ looks = [r \in ReadIds |-> [is |-> "idle", saw |-> Unread]]
  /\ newest = [o \in Others |-> Absent]
  /\ latest = Unread /\ judged = Unread

-----------------------------------------------------------------------------
(* What the ledger records.                                                *)

Send(c) ==
  /\ Unjudged /\ calls[c] = "idle"
  /\ c = "cancel" => calls["place"] = "ok"
  /\ calls' = [calls EXCEPT ![c] = "sent"]
  /\ UNCHANGED <<plan, atBroker, looks, newest, latest, judged>>

\* The request may arrive after its caller gave up on it.
Arrive ==
  /\ Unjudged /\ calls["place"] # "idle" /\ atBroker["own"] = Absent
  /\ atBroker' = [atBroker EXCEPT !["own"] = New]
  /\ UNCHANGED <<plan, calls, looks, newest, latest, judged>>

\* A place's answer carries the order as it is by then; a cancel's only says it was asked for.
AnswerCall(c) ==
  /\ calls[c] = "sent" /\ (c = "place" => atBroker["own"] # Absent)
  /\ calls' = [calls EXCEPT ![c] = "ok"]
  /\ IF c = "place" THEN Learn([newest EXCEPT !["own"] = atBroker["own"]]) ELSE UNCHANGED newest
  /\ UNCHANGED <<plan, atBroker, looks, latest, judged>>

\* An error, a timeout, or no known outcome (is_uncertain).
Lose(c) ==
  /\ calls[c] = "sent"
  /\ calls' = [calls EXCEPT ![c] = "lost"]
  /\ UNCHANGED <<plan, atBroker, looks, newest, latest, judged>>

\* The broker fills an order, or ends it (cancelled, rejected, expired).
Fill(o) ==
  /\ Unjudged /\ o = "own" /\ atBroker[o].is = "working"
  /\ LET n == atBroker[o].filled + 1
     IN  atBroker' = [atBroker EXCEPT ![o] = [is |-> IF n = Target THEN "ended" ELSE "working",
                                              filled |-> n]]
  /\ UNCHANGED <<plan, calls, looks, newest, latest, judged>>

End(o) ==
  /\ Unjudged /\ atBroker[o].is = "working"
  /\ atBroker' = [atBroker EXCEPT ![o].is = "ended"]
  /\ UNCHANGED <<plan, calls, looks, newest, latest, judged>>

Ask(r) ==
  /\ Unjudged /\ looks[r].is = "idle" /\ \A q \in 1..(r - 1) : looks[q].is # "idle"
  /\ looks' = [looks EXCEPT ![r].is = "asked"]
  /\ UNCHANGED <<plan, atBroker, calls, newest, latest, judged>>

BrokerAnswers(r) ==
  /\ looks[r].is = "asked"
  /\ looks' = [looks EXCEPT ![r] = [is |-> "answered", saw |-> atBroker]]
  /\ UNCHANGED <<plan, atBroker, calls, newest, latest, judged>>

\* What a read saw is kept for as long as the audit can ask for it.
Return(r) ==
  /\ looks[r].is = "answered"
  /\ looks' = [looks EXCEPT ![r] = [is |-> "done", saw |-> IF Unjudged THEN Unread ELSE @.saw]]
  /\ Learn(looks[r].saw) /\ latest' = looks[r].saw
  /\ UNCHANGED <<plan, atBroker, calls, judged>>

ReadFails(r) ==
  /\ looks[r].is = "asked"
  /\ looks' = [looks EXCEPT ![r].is = "failed"]
  /\ UNCHANGED <<plan, atBroker, calls, newest, latest, judged>>

\* The judged placement, for `asked` contracts; only of a later step it matters how many.
Dispatch(asked) ==
  /\ Unjudged /\ (asked # Target => plan = "walk" /\ calls["place"] # "idle")
  /\ judged' = [asked |-> asked, newest |-> newest, latest |-> latest, calls |-> calls,
                flying |-> Flying, truth |-> atBroker]
  /\ UNCHANGED <<plan, atBroker, calls, looks, newest, latest>>

OrderAuditNext ==
  \/ \E c \in {"place", "cancel"} : Send(c) \/ AnswerCall(c) \/ Lose(c)
  \/ Arrive
  \/ \E o \in Others : Fill(o) \/ End(o)
  \/ \E r \in ReadIds : Ask(r) \/ BrokerAnswers(r) \/ Return(r) \/ ReadFails(r)
  \/ \E n \in 1..Target : Dispatch(n)

-----------------------------------------------------------------------------
(* The audit, once nothing is under way.                                   *)

Audited == ~Unjudged /\ Flying = {} /\ \A c \in DOMAIN calls : calls[c] # "sent"

\* live_attempts: the placement before the judged one.
PlacedBefore == judged.calls["place"] # "idle"

\* The broker order that its intent is linked to: by the answer, or by the one order of a read
\* that fits it.
Linked(o) == o = "old" \/ calls["place"] = "ok" \/ newest[o] # Absent

\* event_time <= at < completed_at, and an observation of the order came of it.
Overlap(o) ==
  /\ Linked(o)
  /\ \/ \E r \in judged.flying : looks[r].is = "done" /\ looks[r].saw[o] # Absent
     \/ o = "own" /\ judged.calls["place"] = "sent" /\ calls["place"] = "ok"

\* status_before
StatusBefore(o) == IF Linked(o) THEN judged.newest[o] ELSE Absent

\* fills_before: a total is only recorded when it is not zero, and without one it is unobserved.
FillsBefore(o) == IF StatusBefore(o).filled = 0 THEN Unread ELSE StatusBefore(o).filled

\* _working
Working(o) ==
  IF Overlap(o) \/ StatusBefore(o) = Absent THEN "unknown"
  ELSE IF StatusBefore(o).is = "working" THEN "yes" ELSE "no"

\* V6.1, _replacement: the step before it ended, and left something to trade.
Replacement ==
  IF plan # "walk" \/ ~PlacedBefore THEN "ok"
  ELSE IF Working("own") = "unknown" THEN "unknown"
  ELSE IF Working("own") = "yes" THEN "bad"
  ELSE IF FillsBefore("own") = Unread THEN "unknown"
  ELSE IF FillsBefore("own") >= Target THEN "bad" ELSE "ok"

OnTheContract == plan # "roll" /\ PlacedBefore

\* broker_states: the orders that the last completed read lists as working and this account's
\* runs placed.
ListedWorking == {o \in Others : Linked(o) /\ judged.latest[o].is = "working"}

\* Mutant of SingleWorking: only this run's orders count.
SingleWorkingOwn ==
  IF OnTheContract /\ Working("own") = "yes" THEN "bad"
  ELSE IF OnTheContract /\ Working("own") = "unknown" THEN "unknown" ELSE "ok"

\* V6.2, _single_working: one working order on a contract, of this run or an earlier one.
SingleWorking ==
  IF OnTheContract /\ Working("own") = "yes" THEN "bad"
  ELSE IF judged.latest = Unread THEN "unknown"
  ELSE IF "old" \in ListedWorking /\ Working("old") # "no" THEN "bad"
  ELSE IF OnTheContract /\ Working("own") = "unknown" THEN "unknown" ELSE "ok"

\* V6.2, _roll_sequence: a roll opens once its close is filled.
RollSequence ==
  IF plan # "roll" THEN "ok"
  ELSE IF ~PlacedBefore THEN "bad"
  ELSE IF FillsBefore("own") = Unread THEN "unknown"
  ELSE IF FillsBefore("own") < Target THEN "bad" ELSE "ok"

\* V6.3, _stop_on_error: nothing is placed after a call with no known outcome.
StopOnError ==
  IF \E c \in DOMAIN calls : judged.calls[c] = "lost" THEN "bad"
  ELSE IF \E c \in DOMAIN calls : judged.calls[c] = "sent" /\ calls[c] = "lost" THEN "unknown"
  ELSE "ok"

Findings == {Replacement, SingleWorking, RollSequence, StopOnError}

\* Mutant of Reflected: whatever was read last will do.
ReflectedAny == judged.latest # Unread

\* pre_order_state with broker_states: the state read last lists every order placed and shows
\* every cancelled one ended, or what the placement was checked against is not known.
Reflected ==
  /\ judged.latest # Unread
  /\ PlacedBefore => Linked("own") /\ judged.latest["own"] # Absent
  /\ judged.calls["cancel"] # "idle" => judged.latest["own"].is = "ended"

\* V4.4, _leg_fills: the step asks for more than the fills observed by the end leave.
Exceeds == plan = "walk" /\ PlacedBefore /\ judged.asked > Target - newest["own"].filled

-----------------------------------------------------------------------------
(* Properties. *)

OrderAuditTypeOK ==
  /\ plan \in Plans /\ atBroker \in Sights /\ calls \in CallStates
  /\ \A r \in ReadIds : /\ looks[r].is \in {"idle", "asked", "answered", "done", "failed"}
                        /\ looks[r].saw \in Sights \cup {Unread}
  /\ newest \in Sights /\ latest \in Sights \cup {Unread}
  /\ Unjudged \/ judged \in Judgements

\* A sequence the audit has nothing to say about was one: at the dispatch no other owned order on
\* the contract was working at the broker, a step before it had ended with something left to
\* trade, and a roll's close was filled, whatever was under way and never heard of.
ClearedWasTrue ==
  Findings = {"ok"} =>
    /\ judged.truth["old"].is # "working"
    /\ OnTheContract => judged.truth["own"].is # "working"
    /\ plan = "walk" => judged.truth["own"].filled < Target
    /\ plan = "roll" => judged.truth["own"].filled = Target

\* A placement sent with nothing under way, every outcome known and every other order read to its
\* end with something filled and something left (for a roll: all filled) is not accused.
ProvenIsCleared ==
  /\ judged.flying = {} /\ \A c \in DOMAIN calls : judged.calls[c] \in {"idle", "ok"}
  /\ judged.latest # Unread /\ judged.newest["old"].is # "working"
  /\ judged.newest["old"] = judged.truth["old"]
  /\ PlacedBefore =>
       /\ judged.newest["own"].is = "ended" /\ judged.newest["own"].filled > 0
       /\ plan = "walk" => judged.newest["own"].filled < Target
       /\ plan = "roll" => judged.newest["own"].filled = Target
  /\ plan = "roll" => PlacedBefore
  => Findings = {"ok"}

\* What the placement was checked against, when it is taken as known, held all that was working.
CheckedAgainstAll ==
  Reflected => \A o \in Others : judged.truth[o].is = "working" => judged.latest[o].is = "working"

\* A step for no more than the fills known to be final left is not held to exceed the leg.
RemainderFits ==
  Replacement = "ok" /\ PlacedBefore /\ plan = "walk" /\ judged.asked <= Target - FillsBefore("own")
  => ~Exceeds

\* The audit of an order sequence can be relied on.
OrderAuditSound ==
  Audited => ClearedWasTrue /\ ProvenIsCleared /\ CheckedAgainstAll /\ RemainderFits
=============================================================================
