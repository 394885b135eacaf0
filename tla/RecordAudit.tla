---------------------------- MODULE RecordAudit ----------------------------
(***************************************************************************)
(* The audit of the assembled record (agent/audit/v4_invariants.py), run   *)
(* after the session: what it holds against the record and what it cannot  *)
(* verify.  The agent never sees it; before its output is accepted it only *)
(* sees the reference check's issues (Issues of Assembly).  The book of    *)
(* the positions held when the run began is known here, and quantities of  *)
(* orders are left to OrderAudit.                                          *)
(***************************************************************************)
EXTENDS Assembly

AgentRoles == {"wheel", "close", "sell"}
Management == {"close", "roll", "hold"}

\* ROLE_ACTIONS: an output with another action does not parse.
ActionsOf(role) ==
  CASE role = "sell" -> {"open"} [] role = "close" -> Management [] OTHER -> Management \cup {"open"}

MayDecide(role, out) == \A i \in Indices(out) : Decision(out, i).action \in ActionsOf(role)

Executed == venue = "executes"

-----------------------------------------------------------------------------
(* V4.1: every position is managed by one decision.                        *)

Managing(out, p) ==
  {i \in Indices(out) : Decision(out, i).action \in Management /\ Decision(out, i).target = p}

\* _coverage: the positions with no decision or several, and decisions on none of them.
BadCoverage(role, out) ==
  IF role = "sell" \/ out = Missing THEN {}
  ELSE {<<"coverage", p>> : p \in {q \in Positions : Cardinality(Managing(out, q)) # 1}} \cup
       {<<"coverage", i>> : i \in {j \in Indices(out) :
          Decision(out, j).action \in Management /\ Decision(out, j).target \notin Positions}}

-----------------------------------------------------------------------------
(* V4.2: the legs are those of the action.                                 *)

Expected(d) ==
  CASE d.action = "open" -> <<"open">> [] d.action = "close" -> <<"close">>
    [] d.action = "roll" -> <<"close", "open">> [] OTHER -> <<>>

LegSides(out, i) ==
  (IF "close" \in Legs(out, i) THEN <<"close">> ELSE <<>>)
    \o (IF "open" \in Legs(out, i) THEN <<"open">> ELSE <<>>)

Submitted(out, i) == \E r \in Roles : Attempts(out, i, r) # {}

\* _shape: all the legs in order, or those reached so far once an order was submitted.
BadShape(out, i) ==
  LET legs == LegSides(out, i)
      whole == Expected(Decision(out, i))
  IN  \/ Len(legs) > Len(whole)
      \/ ~(Executed /\ Submitted(out, i)) /\ Len(legs) # Len(whole)
      \/ \E k \in DOMAIN legs \cap DOMAIN whole : legs[k] # whole[k]

-----------------------------------------------------------------------------
(* V4.3: every recorded place and cancel call is in the record.            *)

RecordedPlaces(out) == AssociatedPlaces(out) \cup UnassociatedPlaces(out)
RecordedCancels(out) == ListedCancels(out) \cup UnassociatedCancels(out)

\* _actions: calls that the record lacks.
LostCalls(out) ==
  {<<"lost", w>> : w \in {x \in Works : places[x] # "none"} \ RecordedPlaces(out)} \cup
  {<<"lost", c>> : c \in {x \in Cancels : cancelCall[x] # "none"} \ RecordedCancels(out)}

\* Mutant of Unattributed: only places count.
UnattributedPlaces(out) == {<<"unattributed", w>> : w \in UnassociatedPlaces(out)}

\* What an unassociated call was for is unknown.
Unattributed(out) ==
  {<<"unattributed", x>> : x \in UnassociatedPlaces(out) \cup UnassociatedCancels(out)}

-----------------------------------------------------------------------------
(* V4.5: a dry run records no action, and what depends says on what.       *)

\* _off_leg: a conditional opening that names no dependency.
BadCondition(out, i, r) ==
  /\ r \in Legs(out, i) /\ Conditional(out, i, r)
  /\ DependsOn(out, i, r) = NoLeg /\ Funders(out, i) = {}

\* _off_invariants
DryRunActs(out) ==
  {<<"acted", x>> : x \in {w \in Works : places[w] # "none"} \cup
                          {c \in Cancels : cancelCall[c] # "none"}}

-----------------------------------------------------------------------------
(* V4.6: findings of the assembly.                                         *)

\* Mutant of LikelyOwners: a place that was denied, or has no intent on record, counts as well.
LikelyOwnersAny(out, w) ==
  IF w \notin UnassociatedPlaces(out) THEN {}
  ELSE {i \in Indices(out) : Fits(Decision(out, i), WorkRole[w], w)}

\* _flag_likely_owner: the decisions an unassociated place fits, whose intent is on record.
LikelyOwners(out, w) ==
  IF w \notin UnassociatedPlaces(out) \/ ~HasIntent(w) THEN {}
  ELSE {i \in Indices(out) : Fits(Decision(out, i), WorkRole[w], w)}

Unowned(out) == {w \in Works : Cardinality(LikelyOwners(out, w)) = 1}

\* _proposals: a dry run's decision does not propose every leg.
Unproposed(out) ==
  {i \in (IF Executed THEN {} ELSE Indices(out)) :
     ~(RolesOf(Decision(out, i)) \subseteq Decision(out, i).proposed)}

\* _dry_attempt: a proposal sized to nothing; one that only comes after a reservation it cannot
\* be sized against has no quantity, and no finding.
NoCapacity(out) ==
  {leg \in (IF Executed THEN {} ELSE Indices(out) \X Roles) :
     /\ leg[2] \in Legs(out, leg[1]) /\ Decision(out, leg[1]).size = 0
     /\ \/ Conditional(out, leg[1], leg[2])
        \/ \A n \in 0..(Rank(out, leg[1], leg[2]) - 1) : Quantities(out)[n] = 0}

\* EventIndex.findings, whatever the output: places that were not denied and have no intent on
\* record, and cancels that were denied.
EventFindings ==
  {<<"intent missing", w>> : w \in {x \in Works : places[x] \notin {"none", "denied"} /\ ~HasIntent(x)}}
  \cup {<<"not dispatched", c>> : c \in {x \in Cancels : cancelCall[x] = "denied"}}

\* RunRecord.findings: no output is one as well.
AssemblyFindings(out) ==
  EventFindings \cup
  IF out = Missing THEN {<<"missing", 0>>}
  ELSE {<<"misfit", i>> : i \in Misfits(out)} \cup {<<"unowned", w>> : w \in Unowned(out)} \cup
       {<<"unproposed", i>> : i \in Unproposed(out)} \cup {<<"nothing", leg>> : leg \in NoCapacity(out)}

\* _refs: a dry run's output cites no calls.
BadRefs(out) ==
  out # Missing /\ ~Executed
    /\ (out.rationales # {} \/ \E i \in Indices(out) : Decision(out, i).cites # {})

\* _boundary: every assembly finding is held against the output.
BadBoundary(out) ==
  AssemblyFindings(out) \cup (IF BadRefs(out) THEN {<<"refs", 0>>} ELSE {})

-----------------------------------------------------------------------------
(* check_v4 *)

AccusedOf(out) ==
  {<<"shape", i>> : i \in {j \in Indices(out) : BadShape(out, j)}}
  \cup (IF Executed THEN LostCalls(out)
        ELSE DryRunActs(out) \cup
             {<<"condition", leg>> : leg \in {x \in Indices(out) \X Roles : BadCondition(out, x[1], x[2])}})
  \cup BadBoundary(out)

Unverified(out) ==
  IF out = Missing THEN {<<"unknown", "output">>}
  ELSE IF Executed THEN Unattributed(out) ELSE {}

-----------------------------------------------------------------------------
(* Properties.                                                             *)

\* An audit without a word means that every order and cancel of the run belongs to a decision
\* that cites it, and every position had its one decision.
SilenceMeansKnown ==
  LET owned(w) == \E i \in Indices(output) :
                    w \in Decision(output, i).cites /\ WorkRole[w] \in Legs(output, i)
      known(role) ==
        /\ output # Missing
        /\ \A w \in Works : orderOf[w] # "none" => owned(w)
        /\ \A c \in Cancels : cancelCall[c] # "none" => c \in ListedCancels(output)
        /\ role = "close" => \A p \in Positions : Cardinality(Managing(output, p)) = 1
      silent == Unverified(output) = {} /\ AccusedOf(output) = {}
  IN  \A role \in AgentRoles :
        MayDecide(role, output) /\ BadCoverage(role, output) = {} /\ silent => known(role)

\* What the audit holds against an output that the reference check accepted is what that check
\* does not look at: which positions were decided on, legs that were neither proposed nor
\* traded, sizes of nothing, a place whose reference never reached the agent, and a cancel that
\* was denied, which no output can answer for.
HeardBeforeAccused ==
  \/ output = Missing \/ Issues(output) # {}
  \/ \A a \in AccusedOf(output) :
       \/ /\ a[1] = "shape"
          /\ \E r \in RolesOf(Decision(output, a[2])) \ Decision(output, a[2]).proposed :
               Attempts(output, a[2], r) = {}
       \/ a[1] \in {"unproposed", "nothing", "not dispatched"}
       \/ a[1] \in {"unowned", "intent missing"} /\ a[2] \notin delivered

\* The audit of a record that could be assembled.
AuditFair ==
  Ended /\ (output = Missing \/ Assembles(output)) => SilenceMeansKnown /\ HeardBeforeAccused
=============================================================================
