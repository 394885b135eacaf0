------------------------------ MODULE MCRecord ------------------------------
(***************************************************************************)
(* What a run hands to a reader, checked in one run as in MCSession: the   *)
(* record of the run, the reports of its research Mignons, and the audit   *)
(* of its order sequence.                                                  *)
(***************************************************************************)
EXTENDS MCAssembly, Research, OrderAudit, TLC

CONSTANTS mignon, other, quote, page

VARIABLE part

recordVars == <<part, asmVars, researchVars, orderAuditVars>>

Finding(i, refs, urls, fields) ==
  [id |-> i, refs |-> refs, urls |-> urls, fields |-> fields,
   subject |-> IF i = 1 THEN "asked" ELSE "none", values |-> IF fields = "stray" THEN {"value"} ELSE {}]
Report(fs, w) == [kind |-> "report", findings |-> fs, whole |-> w]

\* Prose, a reply that is no valid report, and two reports: one cites what may have been seen, the
\* other also has a stray field and a bad claim.
FirstReplies ==
  [m \in {mignon, other} |->
     IF m = other THEN {Prose} ELSE
     {Prose, Report(<<>>, FALSE),
      Report(<<Finding(1, {}, {}, "good"), Finding(2, {}, {page}, "good"),
               Finding(3, {quote}, {}, "good")>>, TRUE),
      Report(<<Finding(1, {quote}, {page}, "stray"), Finding(2, {}, {page}, "bad"),
               Finding(3, {quote}, {}, "good")>>, TRUE)}]

Drop == [drop |-> TRUE]
Amend(refs, urls, c) == [drop |-> FALSE, refs |-> refs, urls |-> urls, claim |-> c]
Patch(f) == [kind |-> "patch", changes |-> f]
Repairs ==
  [m \in {mignon, other} |->
     IF m = other THEN {} ELSE
     {Prose, Patch(1 :> Drop), Patch(2 :> Amend(Keep, {page}, TRUE)),
      Patch(3 :> Amend(Keep, {page}, FALSE) @@ 1 :> Drop)}]

\* A brief may hand the reference over, or name rules that do not exist.
Brief(refs) ==
  [refs |-> refs, subjects |-> {"asked"}, wants |-> {"value"}, exclude |-> {}, known |-> TRUE]
Prompts ==
  [m \in {mignon, other} |->
     IF m = mignon THEN {Brief({}), Brief({quote})}
     ELSE {Brief({quote}), [Brief({quote}) EXCEPT !.known = FALSE]}]

AsSpelled == [x \in {page} |-> x]

\* Only what the part is about moves; the assembly's run is not there in the others.
Init ==
  /\ part \in {"assembly", "research", "sequence"}
  /\ AsmInit /\ (part # "assembly" => venue = "none")
  /\ ResearchBegins(part = "research")
  /\ OrderAuditBegins(part = "sequence")

Next ==
  \/ part = "assembly" /\ AsmNext /\ UNCHANGED <<part, researchVars, orderAuditVars>>
  \/ part = "research" /\ ResearchNext /\ UNCHANGED <<part, asmVars, orderAuditVars>>
  \/ part = "sequence" /\ OrderAuditNext /\ UNCHANGED <<part, asmVars, researchVars>>

Spec == Init /\ [][Next]_recordVars

\* Every variable of the parts has its type (those of a part at rest have that of a beginning).
TypeOK ==
  /\ part = "assembly" => AsmTypeOK
  /\ part = "research" => ResearchTypeOK
  /\ part = "sequence" => OrderAuditTypeOK

\* The record tells what happened, and its audit and that of the orders can be relied on:
\* RecordTrue of Assembly, AuditFair of RecordAudit, OrderAuditSound of OrderAudit.
RecordSound ==
  /\ part = "assembly" => RecordTrue /\ AuditFair
  /\ part = "sequence" => OrderAuditSound
=============================================================================
