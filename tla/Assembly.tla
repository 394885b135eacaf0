------------------------------ MODULE Assembly ------------------------------
(***************************************************************************)
(* The run record (domain/assembly.py and the modules it rests on): the    *)
(* run's place and cancel calls end in one of several ways, the ledger     *)
(* knows more or less of their orders, some of the code-issued references  *)
(* reached the agent, and its final output cites them.  The assembler is a *)
(* pure function of these; here it is the operators over the recorded      *)
(* calls and one output.  The same assembly, run while the session is      *)
(* open, gives the issues the agent is asked to mend (reference_check.py). *)
(* Where the run executes no orders the output's proposals become a dry    *)
(* run instead.                                                            *)
(***************************************************************************)
EXTENDS Naturals, Sequences, FiniteSets

CONSTANTS
  Works,        \* order-work jobs; each makes at most one place and one cancel call here
  OwnCancels,   \* cancel calls of the agent itself
  CancelTarget, \* CancelTarget[c]: the job whose order it cancels, or Earlier
  Earlier,      \* an order of an earlier run
  WorkRole,     \* WorkRole[w]: "close" (buy to close) or "open" (sell to open)
  WorkContract, \* WorkContract[w]: the contract w trades
  Positions,    \* references to held positions
  Candidates,   \* references to candidates
  RefContract,  \* RefContract[r]: the contract of the position or candidate
  Underlying,   \* Underlying[r]: its share
  Nothing,      \* a reference that code never issued, or none at all
  Outputs       \* the outputs considered: decisions and the cancel calls its rationales cite

Roles == {"close", "open"}
Cancels == Works \cup OwnCancels
Terminal == {"filled", "cancelled"}
NoLeg == <<0, "none">>

\* What a decision says.
DecisionSays ==
  [action : {"open", "close", "roll", "hold"},
   target : Positions \cup Candidates \cup {Nothing}, replacement : Candidates \cup {Nothing},
   cites : SUBSET Cancels, proposed : SUBSET Roles, size : Nat, funding : SUBSET Positions]

ASSUME AssemblyAssumption ==
  /\ Works \cap OwnCancels = {}
  /\ CancelTarget \in [OwnCancels -> Works \cup {Earlier}]
  /\ WorkRole \in [Works -> Roles]
  /\ Positions \cap Candidates = {} /\ Nothing \notin Positions \cup Candidates
  /\ \A out \in Outputs :
       out.status = "parsed" /\ out.rationales \subseteq OwnCancels
         /\ out.decisions \in Seq(DecisionSays)

VARIABLES
  venue,        \* whether the run executes orders
  places,       \* places[w]: how far the place call of w got, as recorded
  orderOf,      \* orderOf[w]: its order at the broker
  seen,         \* seen[w]: its order's status in the ledger ("none": not linked)
  cancelCall,   \* cancelCall[c]: how far the cancel call got, as recorded
  cancelSeen,   \* cancelSeen[c]: the cancellation in the ledger's order record
  delivered,    \* the order_work: and order_call: references the agent was given
  output        \* the effective output, once there is one

recordedVars == <<venue, places, seen, cancelCall, cancelSeen, delivered>>
asmVars == <<recordedVars, orderOf, output>>

Pending == [status |-> "pending"]
Missing == [status |-> "missing"]     \* no output, or one that does not parse
Ended == output # Pending

-----------------------------------------------------------------------------
(* Step 1: what the recorded calls and orders say (assembly_events.py).    *)

HasIntent(w) == places[w] \in {"sent", "answered"}

\* Mutant of AttemptStatus: a call that failed placed nothing.
AttemptStatusHasty(w) ==
  IF places[w] \in {"denied", "unsent"} \/ (places[w] = "sent" /\ seen[w] = "none")
  THEN "not_placed" ELSE seen[w]

\* A denied call placed nothing; any other call is what the ledger knows of its order.
AttemptStatus(w) ==
  IF places[w] = "denied" THEN "not_placed"
  ELSE IF seen[w] = "none" THEN "unknown" ELSE seen[w]

CancelledWork(c) == IF c \in Works THEN c ELSE CancelTarget[c]

\* The order a recorded cancellation belongs to, when it is one of this run's.
CancelledPlace(c) ==
  IF cancelSeen[c] # "none" /\ CancelledWork(c) # Earlier THEN {CancelledWork(c)} ELSE {}

\* Mutant of CancelReported: an accepted cancel is a confirmed one.
CancelReportedHasty(c) == IF cancelCall[c] = "accepted" THEN "confirmed" ELSE "unknown"

\* Not dispatched: unknown.  Confirmed only with a terminal order; accepted is pending.
CancelReported(c) ==
  IF cancelCall[c] = "denied" THEN "unknown"
  ELSE IF cancelSeen[c] = "confirmed" /\ seen[CancelledWork(c)] \in Terminal THEN "confirmed"
  ELSE IF cancelCall[c] = "accepted" THEN "pending" ELSE "unknown"

-----------------------------------------------------------------------------
(* Step 2: a decision's legs.                                              *)

\* plan: the target resolves, to a candidate of an opening or else to a position.
Resolved(d) == d.target \in (IF d.action = "open" THEN Candidates ELSE Positions)

\* _replacement: of a roll, on the position's share.
Replaced(d) ==
  /\ d.action = "roll" /\ d.replacement \in Candidates
  /\ Underlying[d.replacement] = Underlying[d.target]

RolesOf(d) ==
  {r \in Roles : /\ Resolved(d)
                 /\ r = "close" => d.action \in {"close", "roll"}
                 /\ r = "open" => d.action = "open" \/ Replaced(d)}

Subject(d, r) == IF r = "close" \/ d.action = "open" THEN d.target ELSE d.replacement

Decision(out, i) == out.decisions[i]
Indices(out) == IF out.status = "parsed" THEN DOMAIN out.decisions ELSE {}

\* funding: the one CLOSE decision of each position the opening is paid from.
ClosesOf(out, p) ==
  {i \in Indices(out) : Decision(out, i).action = "close" /\ Decision(out, i).target = p}
Funders(out, i) ==
  UNION {ClosesOf(out, p) : p \in {q \in Decision(out, i).funding :
                                     /\ Decision(out, i).action = "open"
                                     /\ Cardinality(ClosesOf(out, q)) = 1}}

-----------------------------------------------------------------------------
(* Step 3: recorded calls are bound to legs by the references cited.       *)

\* The calls a reference stands for: a job's place and cancel, or one cancel.
Made(call) == IF call[1] = "place" THEN places[call[2]] # "none" ELSE cancelCall[call[2]] # "none"
StandsFor(ref) ==
  {call \in {<<"cancel", ref>>} \cup (IF ref \in Works THEN {<<"place", ref>>} ELSE {}) : Made(call)}

\* associate: the decisions that cite a delivered reference of the call (0: a rationale).
Claims(out, call) ==
  IF call[2] \notin delivered \/ ~Made(call) THEN {}
  ELSE {i \in Indices(out) : call[2] \in Decision(out, i).cites} \cup
       {i \in {0} : out.status = "parsed" /\ call[2] \in out.rationales}

\* Mutant of ClaimedBy: a call claimed twice goes to every claimant.
ClaimedByAny(out, call, i) == i \in Claims(out, call)

\* A call that is claimed twice is left unassociated.
ClaimedBy(out, call, i) == Claims(out, call) = {i}

\* Mutant of Fits: the side alone decides.
FitsSide(d, r, w) == r \in RolesOf(d) /\ WorkRole[w] = r

\* _bind_place: the order's side and contract are those of the leg.
Fits(d, r, w) ==
  WorkRole[w] = r /\ r \in RolesOf(d) /\ RefContract[Subject(d, r)] = WorkContract[w]

Attempted(out, i, r, w) ==
  HasIntent(w) /\ ClaimedBy(out, <<"place", w>>, i) /\ Fits(Decision(out, i), r, w)
Attempts(out, i, r) == {w \in Works : Attempted(out, i, r, w)}

AssociatedPlaces(out) ==
  {w \in Works : \E i \in Indices(out) : Attempted(out, i, WorkRole[w], w)}

\* The record's cancellations: selected, or of an order that is associated.
ListedCancels(out) ==
  {c \in Cancels :
     /\ cancelCall[c] # "none"
     /\ \/ \E i \in Indices(out) \cup {0} : ClaimedBy(out, <<"cancel", c>>, i)
        \/ CancelledPlace(c) \cap AssociatedPlaces(out) # {}}

UnassociatedPlaces(out) == {w \in Works : places[w] # "none"} \ AssociatedPlaces(out)
UnassociatedCancels(out) == {c \in Cancels : cancelCall[c] # "none"} \ ListedCancels(out)

-----------------------------------------------------------------------------
(* Steps 4 and 5: legs, their dependencies and the dry run.                *)

\* legs: a leg is recorded when it is proposed or was traded.
Legs(out, i) ==
  {r \in RolesOf(Decision(out, i)) :
     r \in Decision(out, i).proposed \/ Attempts(out, i, r) # {}}

\* prioritize: closes and rolls first, each kind in the output's order.
Rank(out, i, r) ==
  (IF Decision(out, i).action = "open" THEN 2 * Len(out.decisions) ELSE 0)
  + 2 * (i - 1) + (IF r = "open" THEN 1 ELSE 0)
FirstOf(S) == CHOOSE i \in S : \A j \in S : i <= j

\* _dependency: a roll's opening on its close, a funded opening on its first funder's close.
DependsOn(out, i, r) ==
  IF r = "close" THEN NoLeg
  ELSE IF Decision(out, i).action = "roll" THEN <<i, "close">>
  ELSE IF Funders(out, i) # {} THEN <<FirstOf(Funders(out, i)), "close">> ELSE NoLeg

\* The RunRecord is refused when a leg depends on one that is not recorded.
Assembles(out) ==
  \A i \in Indices(out) : \A r \in Legs(out, i) :
    LET on == DependsOn(out, i, r) IN on = NoLeg \/ on[2] \in Legs(out, on[1])

\* An opening that waits for a close reserves nothing in the dry run.
Conditional(out, i, r) ==
  r = "open" /\ (Decision(out, i).action = "roll" \/ Decision(out, i).funding # {})

LegsAt(out, n) ==
  {leg \in {<<i, r>> : i \in Indices(out), r \in Roles} :
     leg[2] \in Legs(out, leg[1]) /\ Rank(out, leg[1], leg[2]) = n}

\* Mutant of Quantities: earlier reservations are not counted.
QuantitiesFull(out) ==
  [n \in 0..(4 * Len(out.decisions)) |->
     IF LegsAt(out, n) = {} THEN 0
     ELSE Decision(out, (CHOOSE x \in LegsAt(out, n) : TRUE)[1]).size]

\* simulate, reserve: without a baseline the first proposal is sized from its facts, and
\* after it only what is conditional (0: nothing is intended).
Quantities(out) ==
  LET quantity[n \in 0..(4 * Len(out.decisions))] ==
        IF LegsAt(out, n) = {} THEN 0
        ELSE LET leg == CHOOSE x \in LegsAt(out, n) : TRUE
                 reserved == \E m \in 0..(n - 1) : \E x \in LegsAt(out, m) :
                               quantity[m] > 0 /\ ~Conditional(out, x[1], x[2])
             IN  IF reserved /\ ~Conditional(out, leg[1], leg[2]) THEN 0
                 ELSE Decision(out, leg[1]).size
  IN  quantity

-----------------------------------------------------------------------------
(* The reference check, and the notes of the positions.                    *)

\* resolve: references to calls that the agent was not given.
Unresolved(refs) == refs \ delivered

\* _check_cancel_owner: the order that i cancels is that of a decision before it.
OwnedBefore(out, i, c) ==
  \E j \in 1..(i - 1), r \in Roles : CancelledPlace(c) \cap Attempts(out, j, r) # {}

\* A decision (0: a rationale) that cites, names or funds by what does not resolve or fit.
Misfits(out) ==
  {i \in Indices(out) :
     LET d == Decision(out, i) IN
       \/ ~Resolved(d)
       \/ d.action = "roll" /\ ~Replaced(d)
       \/ \E p \in d.funding : d.action # "open" \/ Cardinality(ClosesOf(out, p)) # 1
       \/ Unresolved(d.cites) # {}
       \/ \E ref \in d.cites \cap delivered : \E call \in StandsFor(ref) :
            \/ ~ClaimedBy(out, call, i)
            \/ call[1] = "place" /\ ~Attempted(out, i, WorkRole[call[2]], call[2])
            \/ call[1] = "cancel" /\ OwnedBefore(out, i, call[2])} \cup
  {i \in {0} : out.status = "parsed" /\ \E c \in out.rationales :
     Unresolved({c}) # {} \/ \E call \in StandsFor(c) : ~ClaimedBy(out, call, 0)}

\* Mutant of Unsaid: an executor's calls have no reference of their own and are left out.
UnsaidOwn(out) == {c \in OwnCancels \cap delivered : c \in UnassociatedCancels(out)}

\* The delivered references of dispatched calls that no decision or rationale claims.
Unsaid(out) ==
  {ref \in delivered :
     \/ ref \in UnassociatedPlaces(out) /\ places[ref] # "denied"
     \/ ref \in UnassociatedCancels(out)}

\* reference_issues; an assembly that raises has none.
Issues(out) == IF Assembles(out) THEN Misfits(out) \cup Unsaid(out) ELSE {}

\* notes_from_run_record: an opening's note goes to the lineages its linked orders opened.
EntryNotes(out) ==
  {note \in Indices(out) \X Works :
     /\ Decision(out, note[1]).action = "open"
     /\ note[2] \in Attempts(out, note[1], "open") /\ seen[note[2]] # "none"}

-----------------------------------------------------------------------------
(* The run: its calls, the broker, the ledger and the agent's answer.      *)

Executes == venue = "executes" /\ ~Ended
SetPlace(w, how) == places' = [places EXCEPT ![w] = how]

\* A job's order is behind it, with an outcome that is known.
Over(w) == places[w] \in {"none", "denied", "unsent"} \/ seen[w] \in Terminal

\* Mutant of Place: the call is recorded when its outcome is known.
PlaceUnrecorded(w) ==
  /\ Executes /\ places[w] = "none"
  /\ places' = [places EXCEPT ![w] = "called"]
  /\ UNCHANGED <<venue, orderOf, seen, cancelCall, cancelSeen, delivered, output>>

\* A place call is denied, fails before it is sent, or is sent: an opening works alone.
Place(w) ==
  /\ Executes /\ places[w] = "none"
  /\ \A v \in Works : WorkRole[w] = "open" \/ WorkRole[v] = "open" => Over(v)
  /\ \E how \in {"denied", "unsent", "sent"} : SetPlace(w, how)
  /\ UNCHANGED <<venue, orderOf, seen, cancelCall, cancelSeen, delivered, output>>

\* The broker takes the order whether or not anybody still waits for the reply.  (What it
\* does after the run has ended changes no record.)
Take(w) ==
  /\ Executes /\ places[w] = "sent" /\ orderOf[w] = "none"
  /\ orderOf' = [orderOf EXCEPT ![w] = "working"]
  /\ UNCHANGED <<recordedVars, output>>

\* The order fills, or is cancelled on request or at the day's end.
Settle(w) ==
  /\ Executes /\ orderOf[w] = "working"
  /\ \E raw \in Terminal : orderOf' = [orderOf EXCEPT ![w] = raw]
  /\ UNCHANGED <<recordedVars, output>>

\* The place result: usable, so that the order is linked, or not.
PlaceReplies(w) ==
  /\ Executes /\ places[w] = "sent" /\ orderOf[w] # "none"
  /\ SetPlace(w, "answered")
  /\ seen' \in {seen, [seen EXCEPT ![w] = orderOf[w]]}
  /\ UNCHANGED <<venue, orderOf, cancelCall, cancelSeen, delivered, output>>

\* A cancel call of an order that works as far as is known (or of an earlier run's): denied
\* or sent (one that fails before it is sent is recorded like one that gets no reply).
Cancel(c) ==
  /\ Executes /\ cancelCall[c] = "none"
  /\ CancelledWork(c) # Earlier => seen[CancelledWork(c)] = "working"
  /\ \E how \in {"denied", "sent"} : cancelCall' = [cancelCall EXCEPT ![c] = how]
  /\ UNCHANGED <<venue, places, orderOf, seen, cancelSeen, delivered, output>>

\* The cancel is accepted, and recorded with its order.
CancelReplies(c) ==
  /\ Executes /\ cancelCall[c] = "sent"
  /\ cancelCall' = [cancelCall EXCEPT ![c] = "accepted"]
  /\ cancelSeen' = [cancelSeen EXCEPT ![c] = "pending"]
  /\ UNCHANGED <<venue, places, orderOf, seen, delivered, output>>

\* A read of the orders: linked ones are seen as they are; a terminal one confirms the
\* cancels recorded before.
Read ==
  LET closed(c) == /\ cancelSeen[c] = "pending" /\ CancelledWork(c) # Earlier
                   /\ orderOf[CancelledWork(c)] \in Terminal
  IN  /\ Executes
      /\ seen' = [w \in Works |-> IF seen[w] = "none" THEN "none" ELSE orderOf[w]]
      /\ cancelSeen' = [c \in Cancels |-> IF closed(c) THEN "confirmed" ELSE cancelSeen[c]]
      /\ UNCHANGED <<venue, places, orderOf, cancelCall, delivered, output>>

\* A result that carries the call's reference reaches the agent.
Deliver(ref) ==
  /\ Executes /\ StandsFor(ref) # {} /\ ref \notin delivered
  /\ delivered' = delivered \cup {ref}
  /\ UNCHANGED <<venue, places, orderOf, seen, cancelCall, cancelSeen, output>>

\* The session ends with an output, or without one.
Answer ==
  /\ ~Ended
  /\ output' \in Outputs \cup {Missing}
  /\ UNCHANGED <<recordedVars, orderOf>>

AsmInit ==
  /\ venue \in {"executes", "none"}
  /\ places = [w \in Works |-> "none"]
  /\ orderOf = [w \in Works |-> "none"]
  /\ seen = [w \in Works |-> "none"]
  /\ cancelCall = [c \in Cancels |-> "none"]
  /\ cancelSeen = [c \in Cancels |-> "none"]
  /\ delivered = {}
  /\ output = Pending

AsmNext ==
  \/ \E w \in Works : Place(w) \/ Take(w) \/ Settle(w) \/ PlaceReplies(w)
  \/ \E c \in Cancels : Cancel(c) \/ CancelReplies(c) \/ Deliver(c)
  \/ Read \/ Answer

AsmSpec == AsmInit /\ [][AsmNext]_asmVars

-----------------------------------------------------------------------------
(* Properties. *)

\* Types.
AsmTypeOK ==
  /\ venue \in {"executes", "none"}
  /\ places \in [Works -> {"none", "denied", "unsent", "sent", "answered"}]
  /\ orderOf \in [Works -> {"none", "working"} \cup Terminal]
  /\ seen \in [Works -> {"none", "working"} \cup Terminal]
  /\ cancelCall \in [Cancels -> {"none", "denied", "sent", "accepted"}]
  /\ cancelSeen \in [Cancels -> {"none", "pending", "confirmed"}]
  /\ delivered \subseteq Cancels

\* What the record says of an order is true at the broker, whenever the run ended: nothing
\* is "not placed" that may have reached it, and no cancel is confirmed that may still fill.
AttemptsHonest ==
  /\ \A w \in Works :
       /\ AttemptStatus(w) = "not_placed" => places[w] = "denied" /\ orderOf[w] = "none"
       /\ AttemptStatus(w) \in Terminal => orderOf[w] = AttemptStatus(w)
  /\ \A c \in Cancels :
       CancelReported(c) = "confirmed" => orderOf[CancelledWork(c)] \in Terminal

\* A place call is in the record once: in one leg, of a decision that cites its job and
\* whose contract it traded, or unassociated.
AttributedOnce ==
  \A w \in Works : places[w] # "none" =>
    LET homes == {leg \in Indices(output) \X Roles : Attempted(output, leg[1], leg[2], w)} IN
      /\ Cardinality(homes) = (IF w \in UnassociatedPlaces(output) THEN 0 ELSE 1)
      /\ \A leg \in homes :
           /\ w \in Decision(output, leg[1]).cites
           /\ RefContract[Subject(Decision(output, leg[1]), leg[2])] = WorkContract[w]
      /\ \A n, m \in EntryNotes(output) : n[2] = m[2] => n = m

\* An output the check has no issue with leaves no call unexplained of those the agent could
\* cite, but for places denied before dispatch.
AcceptedIsExplained ==
  Issues(output) = {} /\ Assembles(output) =>
    \A ref \in delivered :
      /\ ref \in Works /\ places[ref] \notin {"none", "denied"} => ref \in AssociatedPlaces(output)
      /\ cancelCall[ref] # "none" => ref \in ListedCancels(output)

\* The dry run never intends two orders that were each sized against the whole account, and
\* the one it intends is a close when a close is proposed.
OneIntended ==
  venue = "none" /\ output.status = "parsed" =>
    LET counted == {leg \in Indices(output) \X Roles :
                      /\ leg[2] \in Legs(output, leg[1])
                      /\ ~Conditional(output, leg[1], leg[2])}
        rank(leg) == Rank(output, leg[1], leg[2])
        intended == {leg \in counted : Quantities(output)[rank(leg)] > 0}
        sized == {leg \in counted : Decision(output, leg[1]).size > 0}
    IN  /\ Cardinality(intended) = (IF sized = {} THEN 0 ELSE 1)
        /\ (\E leg \in sized : leg[2] = "close") => \A leg \in intended : leg[2] = "close"

\* The record of a run tells what its orders did, once, and under the decision that made them.
RecordTrue ==
  Ended => AttemptsHonest /\ AttributedOnce /\ AcceptedIsExplained /\ OneIntended

\* "A typed assembly/association finding (never a reason to drop an action)"
\* (domain/run_record.py:268): every output gives a record.
RecordAssembled == Ended => Assembles(output)
=============================================================================
