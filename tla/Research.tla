------------------------------ MODULE Research ------------------------------
(***************************************************************************)
(* Research Mignons: what the hooks (agent/hooks.py) remember of the       *)
(* results each one was delivered, the review of its report and the        *)
(* patches it sends (domain/mignon_report.py), and the report handed to    *)
(* the orchestrator.  Several Mignons run at once; each reads, extracts    *)
(* pages, reports, is asked to patch, and its report is salvaged with what *)
(* the hooks know by then.                                                 *)
(***************************************************************************)
EXTENDS Naturals, Sequences, FiniteSets, Functions

CONSTANTS
  Mignons,      \* the spawned sub-agents
  Refs,         \* references that code may issue
  Urls,         \* pages as their addresses are spelled
  KeyOf,        \* KeyOf[u]: the address after normalization
  Wants,        \* the values a brief may ask for
  Briefs,       \* Briefs[m]: the briefs the orchestrator may send for m
  Reports,      \* Reports[m]: what m may first reply
  Patches,      \* Patches[m]: what m may reply to a repair request
  Keep,         \* a field that a patch leaves as it is
  Extracts,     \* extract calls
  MaxRepairs    \* MAX_MIGNON_REPAIRS

Prose == [kind |-> "prose"]           \* a reply that is not one JSON object
NoDraft == [attempts |-> 0, origins |-> <<>>, findings |-> <<>>, whole |-> FALSE,
            patched |-> {}, dropped |-> {}, open |-> FALSE]
NoExtract == [by |-> "nobody", urls |-> {}]
Unsent == [kind |-> "none"]

\* What a finding is, and what a patch may change of one: the rest it leaves, or it drops it.
FindingSays ==
  [id : Nat, refs : SUBSET Refs, urls : SUBSET Urls, fields : {"good", "stray", "bad"},
   subject : STRING, values : SUBSET Wants]
Change ==
  [drop : {FALSE}, refs : {Keep} \cup SUBSET Refs, urls : {Keep} \cup SUBSET Urls, claim : BOOLEAN]

ReportSays(r) ==
  /\ r.kind = "report" /\ r.whole \in BOOLEAN /\ r.findings \in Seq(FindingSays)
  /\ \A i \in DOMAIN r.findings : r.findings[i].id = i
PatchSays(p) ==
  /\ p.kind = "patch"
  /\ \A i \in DOMAIN p.changes : p.changes[i] = [drop |-> TRUE] \/ p.changes[i] \in Change

\* "none" is the subject of a finding that answers nothing, and no brief's; "not reported" is not
\* the name of a value.
ASSUME ResearchAssumption ==
  /\ KeyOf \in [Urls -> Urls] /\ MaxRepairs \in Nat /\ "not reported" \notin Wants
  /\ \A m \in Mignons :
       /\ Briefs[m] # {}
       /\ \A b \in Briefs[m] :
            /\ b.refs \subseteq Refs /\ b.wants \subseteq Wants /\ b.known \in BOOLEAN
            /\ "none" \notin b.subjects
       /\ \A r \in Reports[m] : r = Prose \/ ReportSays(r)
       /\ \A p \in Patches[m] : p = Prose \/ PatchSays(p)

VARIABLES
  stage,        \* stage[m]: "none", "working", "said", "ended" or "over"
  brief,        \* brief[m]: the prompt it was spawned with
  reply,        \* reply[m]: its last text
  draft,        \* draft[m]: _MignonDraft
  handback,     \* handback[m]: what the orchestrator was given
  mignonRefs, mignonUrls, runRefs, refusedUrls, retriedUrls,
  extract,      \* extract[e]: the extract call under way
  halted,       \* the run's stop latch
  first,        \* history: the report each Mignon first sent
  issued,       \* history: <<c, r>>, the references delivered to each caller
  shown,        \* history: <<m, k>>, the pages whose content each Mignon was delivered
  accepted      \* history: what the last review of m found nothing wrong with

hookVars == <<mignonRefs, mignonUrls, runRefs, refusedUrls, retriedUrls>>
researchVars == <<stage, brief, reply, draft, handback, hookVars, extract, halted, first,
                  issued, shown, accepted>>

Orchestrator == "orchestrator"

ResearchBegins(open) ==
  /\ stage = [m \in Mignons |-> IF open THEN "none" ELSE "over"]
  /\ brief = [m \in Mignons |-> CHOOSE b \in Briefs[m] : TRUE]
  /\ reply = [m \in Mignons |-> Prose] /\ draft = [m \in Mignons |-> NoDraft]
  /\ handback = [m \in Mignons |-> Unsent]
  /\ mignonRefs = [m \in Mignons |-> {}] /\ mignonUrls = [m \in Mignons |-> {}]
  /\ runRefs = {} /\ refusedUrls = {} /\ retriedUrls = {}
  /\ extract = [e \in Extracts |-> NoExtract] /\ halted = FALSE
  /\ first = [m \in Mignons |-> Prose] /\ issued = {} /\ shown = {} /\ accepted = [m \in Mignons |-> {}]
ResearchInit == ResearchBegins(TRUE)

Keys(us) == {KeyOf[u] : u \in us}

-----------------------------------------------------------------------------
(* The report (domain/mignon_report.py).  A finding: its place in the      *)
(* original report (`id`), what it cites, the brief subject it answers,    *)
(* the values it gives, and what its fields are: "good", with a "stray"    *)
(* field, or with a "bad" claim.                                           *)

\* Finding: it cites something.
WellFormed(f) == f.fields = "good" /\ f.refs \cup f.urls # {}

\* _finding_source_issues: it cites only what was delivered.
Supported(f, refs, urls) == f.refs \subseteq refs /\ f.urls \subseteq urls

\* Mutant of FindingHolds: a page counts as fetched by whoever extracted it.
FindingHoldsForAny(f, refs, urls) ==
  WellFormed(f) /\ Supported(f, refs, UNION Range(mignonUrls))

\* report_issues of one finding: schema and sources together.
FindingHolds(f, refs, urls) == WellFormed(f) /\ Supported(f, refs, urls)

\* original_report: an unpatched report, every finding mapped to itself.
Original(r) ==
  [attempts |-> 0, origins |-> [i \in DOMAIN r.findings |-> i], findings |-> r.findings,
   whole |-> r.whole, patched |-> {}, dropped |-> {}, open |-> TRUE]

\* The reader's finding: a given field replaces the finding's; a stray field does not survive.
Patched(f, p) ==
  [f EXCEPT !.refs = IF p.refs = Keep THEN @ ELSE p.refs,
            !.urls = IF p.urls = Keep THEN @ ELSE p.urls,
            !.fields = IF p.claim \/ @ = "stray" THEN "good" ELSE @]

\* Places in their order, and the findings at the places kept.
InOrder(S) == [j \in 1..Cardinality(S) |-> CHOOSE i \in S : Cardinality({k \in S : k <= i}) = j]
At(s, places) == [j \in DOMAIN places |-> s[places[j]]]

\* A patch names findings of the original report; one it does not have is an issue.
PatchFits(d, p) == p.kind = "patch" /\ DOMAIN p.changes \subseteq Range(d.origins)

\* Mutant of ApplyPatch: the indexes are taken as places in the merged report.
ApplyPatchByPlace(d, p) ==
  LET drop(i) == i \in DOMAIN p.changes /\ p.changes[i].drop
      merged == [i \in DOMAIN d.findings |->
                   IF i \in DOMAIN p.changes /\ ~drop(i) THEN Patched(d.findings[i], p.changes[i])
                   ELSE d.findings[i]]
      gone == d.dropped \cup {i \in DOMAIN p.changes : drop(i)}
      keep == InOrder({i \in DOMAIN merged : ~drop(i)})
  IN  [d EXCEPT !.findings = At(merged, keep), !.origins = At(d.origins, keep), !.dropped = gone,
                !.patched = (@ \cup DOMAIN p.changes) \ gone]

\* apply_report_patch.
ApplyPatch(d, p) ==
  LET change(i) == d.origins[i] \in DOMAIN p.changes
      drop(i) == change(i) /\ p.changes[d.origins[i]].drop
      merged == [i \in DOMAIN d.findings |->
                   IF change(i) /\ ~drop(i) THEN Patched(d.findings[i], p.changes[d.origins[i]])
                   ELSE d.findings[i]]
      gone == d.dropped \cup {o \in DOMAIN p.changes : p.changes[o].drop}
      keep == InOrder({i \in DOMAIN merged : ~drop(i)})
  IN  [d EXCEPT !.findings = At(merged, keep), !.origins = At(d.origins, keep), !.dropped = gone,
                !.patched = (@ \cup DOMAIN p.changes) \ gone]

\* salvage_report: findings that break a rule are dropped, each under its original index.
Salvage(d, refs, urls) ==
  LET keep == InOrder({i \in DOMAIN d.findings : FindingHolds(d.findings[i], refs, urls)})
  IN  [findings |-> At(d.findings, keep), origins |-> At(d.origins, keep),
       dropped |-> Range(d.origins) \ Range(At(d.origins, keep))]

\* coverage_gaps: subjects of the brief that no finding answers, and wanted values no finding of
\* a reported subject gives.
CoverageGaps(b, fs) ==
  LET reported == {fs[i].subject : i \in DOMAIN fs} \ {"none"}
      values(s) == UNION {fs[i].values : i \in {j \in DOMAIN fs : fs[j].subject = s}}
  IN  {<<s, "not reported">> : s \in b.subjects \ reported}
      \cup {gap \in reported \X b.wants : gap[2] \notin values(gap[1])}

-----------------------------------------------------------------------------
(* What the hooks know of it (agent/hooks.py).                             *)

Running(m) == stage[m] \in {"working", "said", "ended"}

\* handed_refs: references of the session that one of the prompts handed over.
Handed(fs, briefs) ==
  {r \in runRefs : (\E i \in DOMAIN fs : r \in fs[i].refs) /\ \E b \in briefs : r \in b.refs}

\* active_prompts: SubagentStop knows the agent, not its prompt.
ActivePrompts == {brief[m] : m \in {x \in Mignons : Running(x)}}

\* parse_mignon_brief: it names rules that exist, and no subject it also excludes.
BriefParses(b) == b.known /\ b.subjects \cap b.exclude = {}

\* PreToolUse of an Agent call, up to the Mignon's start.
Spawn(m) ==
  /\ stage[m] = "none" /\ ~halted
  /\ \E b \in Briefs[m] : BriefParses(b) /\ brief' = [brief EXCEPT ![m] = b]
  /\ stage' = [stage EXCEPT ![m] = "working"]
  /\ UNCHANGED <<reply, draft, handback, hookVars, extract, halted, first, issued, shown, accepted>>

\* note_delivered of a validated result that is no extract.
ResultDelivered(c, rs) ==
  /\ rs # {} /\ c # Orchestrator => stage[c] = "working"
  /\ runRefs' = runRefs \cup rs
  /\ mignonRefs' = [m \in Mignons |-> mignonRefs[m] \cup IF m = c THEN rs ELSE {}]
  /\ issued' = issued \cup ({c} \X rs)
  /\ UNCHANGED <<stage, brief, reply, draft, handback, mignonUrls, refusedUrls, retriedUrls,
                 extract, halted, first, shown, accepted>>

\* check_web: no address that was refused, and none this Mignon was shown, as it spells it.
MayExtract(m, us) == Keys(us) \cap refusedUrls = {} /\ us \cap mignonUrls[m] = {}

AskExtract(m, e, us) ==
  /\ stage[m] = "working" /\ extract[e] = NoExtract /\ us # {} /\ MayExtract(m, us)
  /\ extract' = [extract EXCEPT ![e] = [by |-> m, urls |-> us]]
  /\ UNCHANGED <<stage, brief, reply, draft, handback, hookVars, halted, first, issued, shown,
                 accepted>>

\* Mutant of NotePages: every page that was asked for counts as fetched.
NotePagesAsked(m, asked, got) ==
  /\ mignonUrls' = [mignonUrls EXCEPT ![m] = @ \cup got \cup asked]
  /\ refusedUrls' = refusedUrls \cup (Keys(asked) \ Keys(got))

\* note_delivered of an extract: pages with content are citable as returned and as asked for;
\* the others are refused from now on.
NotePages(m, asked, got) ==
  /\ mignonUrls' =
       [mignonUrls EXCEPT ![m] = @ \cup got \cup {u \in asked : KeyOf[u] \in Keys(got)}]
  /\ refusedUrls' = refusedUrls \cup (Keys(asked) \ Keys(got))

ExtractReturns(e, got) ==
  LET m == extract[e].by IN
  /\ extract[e] # NoExtract /\ Keys(got) \subseteq Keys(extract[e].urls)
  /\ NotePages(m, extract[e].urls, got)
  /\ shown' = shown \cup ({m} \X Keys(got))
  /\ extract' = [extract EXCEPT ![e] = NoExtract]
  /\ UNCHANGED <<stage, brief, reply, draft, handback, mignonRefs, runRefs, retriedUrls, halted,
                 first, issued, accepted>>

\* An error envelope: a rate limit or a server error leaves each address one more request.
ExtractRejected(e, later) ==
  LET ks == Keys(extract[e].urls) IN
  /\ extract[e] # NoExtract
  /\ refusedUrls' = refusedUrls \cup IF later THEN ks \cap retriedUrls ELSE ks
  /\ retriedUrls' = IF later THEN retriedUrls \cup ks ELSE retriedUrls
  /\ extract' = [extract EXCEPT ![e] = NoExtract]
  /\ UNCHANGED <<stage, brief, reply, draft, handback, mignonRefs, mignonUrls, runRefs, halted,
                 first, issued, shown, accepted>>

\* PostToolUseFailure of an extract.
ExtractFails(e) ==
  /\ extract[e] # NoExtract
  /\ refusedUrls' = refusedUrls \cup Keys(extract[e].urls)
  /\ extract' = [extract EXCEPT ![e] = NoExtract]
  /\ UNCHANGED <<stage, brief, reply, draft, handback, mignonRefs, mignonUrls, runRefs,
                 retriedUrls, halted, first, issued, shown, accepted>>

\* The Mignon's reply: its report, or what it says to a repair request.
Says(m, t) ==
  /\ stage[m] = "working" /\ \A e \in Extracts : extract[e].by # m
  /\ t \in IF draft[m].open THEN Patches[m] ELSE Reports[m]
  /\ stage' = [stage EXCEPT ![m] = "said"] /\ reply' = [reply EXCEPT ![m] = t]
  /\ first' = IF draft[m].open THEN first ELSE [first EXCEPT ![m] = t]
  /\ UNCHANGED <<brief, draft, handback, hookVars, extract, halted, issued, shown, accepted>>

\* review_draft, its first half: the draft with the latest reply merged into it.
Merged(m) ==
  IF ~draft[m].open THEN Original(reply[m])
  ELSE IF PatchFits(draft[m], reply[m]) THEN ApplyPatch(draft[m], reply[m]) ELSE draft[m]

KnownAtReview(m, fs) == mignonRefs[m] \cup Handed(fs, ActivePrompts)

Holding(m, d) ==
  {i \in DOMAIN d.findings : FindingHolds(d.findings[i], KnownAtReview(m, d.findings), mignonUrls[m])}

\* The Mignon is asked to patch: everything wrong is in its findings, or in its patch, and there
\* is a round left.
AsksToPatch(m, d) ==
  /\ d.whole /\ draft[m].attempts < MaxRepairs
  /\ Holding(m, d) # DOMAIN d.findings \/ (draft[m].open /\ ~PatchFits(draft[m], reply[m]))

\* SubagentStop with review_draft.
ReviewDraft(m) ==
  LET d == Merged(m)
      asks == AsksToPatch(m, d) IN
  /\ stage[m] = "said" /\ ~halted /\ (draft[m].open \/ reply[m] # Prose)
  /\ draft' = [draft EXCEPT ![m] = [d EXCEPT !.attempts = draft[m].attempts + IF asks THEN 1 ELSE 0]]
  /\ stage' = [stage EXCEPT ![m] = IF asks THEN "working" ELSE "ended"]
  /\ accepted' = [accepted EXCEPT ![m] = {d.findings[i] : i \in Holding(m, d)}]
  /\ UNCHANGED <<brief, reply, handback, hookVars, extract, halted, first, issued, shown>>

\* No review: the run is stopping, the transcript cannot be read, or the text is no report.
EndsUnreviewed(m) ==
  /\ stage[m] = "said" /\ stage' = [stage EXCEPT ![m] = "ended"]
  /\ UNCHANGED <<brief, reply, draft, handback, hookVars, extract, halted, first, issued, shown,
                 accepted>>

\* The review raises: its draft is dropped, and the Mignon ends with what it said last.
ReviewFails(m) ==
  /\ stage[m] = "said" /\ ~halted /\ stage' = [stage EXCEPT ![m] = "ended"]
  /\ draft' = [draft EXCEPT ![m] = NoDraft] /\ accepted' = [accepted EXCEPT ![m] = {}]
  /\ UNCHANGED <<brief, reply, handback, hookVars, extract, halted, first, issued, shown>>

\* agent_post: the merged report if it was repaired, else the last text.
Final(m) ==
  IF draft[m].open /\ draft[m].attempts > 0 THEN draft[m]
  ELSE IF reply[m].kind = "report" THEN Original(reply[m]) ELSE NoDraft

\* Mutant of HandBack: the gaps are those of the report as it was sent.
HandBackAsSent(m, d) ==
  LET kept == Salvage(d, mignonRefs[m] \cup Handed(d.findings, {brief[m]}), mignonUrls[m])
  IN  [kind |-> "report", findings |-> kept.findings, dropped |-> kept.dropped,
       repair |-> IF d.attempts > 0
                  THEN [origins |-> kept.origins, patched |-> d.patched, dropped |-> d.dropped]
                  ELSE Unsent,
       gaps |-> CoverageGaps(brief[m], d.findings)]

\* What the orchestrator is given of the final report; where each finding was in the original
\* report is told only of a repaired one.
HandBack(m, d) ==
  LET kept == Salvage(d, mignonRefs[m] \cup Handed(d.findings, {brief[m]}), mignonUrls[m])
  IN  [kind |-> "report", findings |-> kept.findings, dropped |-> kept.dropped,
       repair |-> IF d.attempts > 0
                  THEN [origins |-> kept.origins, patched |-> d.patched, dropped |-> d.dropped]
                  ELSE Unsent,
       gaps |-> CoverageGaps(brief[m], kept.findings)]

\* PostToolUse of the Agent call.  asAsked: the sub-agent is of the type that was spawned.
AgentReturns(m, asAsked) ==
  LET d == Final(m) IN
  /\ stage[m] = "ended" /\ stage' = [stage EXCEPT ![m] = "over"]
  /\ handback' = [handback EXCEPT ![m] = IF asAsked /\ d.whole THEN HandBack(m, d)
                                         ELSE [kind |-> "missing"]]
  /\ draft' = [draft EXCEPT ![m] = NoDraft]
  /\ UNCHANGED <<brief, reply, hookVars, extract, halted, first, issued, shown, accepted>>

\* The result is no completed report, or its recording fails: the run stops.
AgentResultFails(m) ==
  /\ stage[m] = "ended" /\ stage' = [stage EXCEPT ![m] = "over"]
  /\ halted' = TRUE /\ handback' = [handback EXCEPT ![m] = [kind |-> "failed"]]
  /\ UNCHANGED <<brief, reply, draft, hookVars, extract, first, issued, shown, accepted>>

\* Anything else sets the stop latch.
ResearchHalt ==
  /\ ~halted /\ halted' = TRUE /\ \E m \in Mignons : Running(m)
  /\ UNCHANGED <<stage, brief, reply, draft, handback, hookVars, extract, first, issued, shown,
                 accepted>>

ResearchNext ==
  \/ \E m \in Mignons :
       \/ Spawn(m) \/ ReviewDraft(m) \/ EndsUnreviewed(m) \/ ReviewFails(m) \/ AgentResultFails(m)
       \/ \E t \in Reports[m] \cup Patches[m] : Says(m, t)
       \/ \E ok \in BOOLEAN : AgentReturns(m, ok)
       \/ \E e \in Extracts, us \in SUBSET Urls : AskExtract(m, e, us)
  \/ \E c \in Mignons \cup {Orchestrator}, rs \in SUBSET Refs : ResultDelivered(c, rs)
  \/ \E e \in Extracts :
       \/ \E got \in SUBSET Urls : ExtractReturns(e, got)
       \/ \E later \in BOOLEAN : ExtractRejected(e, later)
       \/ ExtractFails(e)
  \/ ResearchHalt

-----------------------------------------------------------------------------
(* Properties.                                                             *)

\* Every variable has its type; a Mignon gets at most MaxRepairs rounds.
ResearchTypeOK ==
  /\ stage \in [Mignons -> {"none", "working", "said", "ended", "over"}]
  /\ \A m \in Mignons :
       /\ brief[m] \in Briefs[m] /\ reply[m] \in Reports[m] \cup Patches[m] \cup {Prose}
       /\ draft[m].attempts \in 0..MaxRepairs
       /\ DOMAIN draft[m].origins = DOMAIN draft[m].findings
       /\ handback[m].kind \in {"none", "report", "missing", "failed"}
       /\ mignonRefs[m] \subseteq runRefs /\ mignonUrls[m] \subseteq Urls
  /\ runRefs \subseteq Refs /\ refusedUrls \cup retriedUrls \subseteq Keys(Urls)
  /\ \A e \in Extracts : extract[e] # NoExtract => extract[e].by \in Mignons

\* A finding the orchestrator reads cites a reference that was delivered to its Mignon, or that
\* the session had seen and the Mignon's own brief handed over, and pages whose content the Mignon
\* itself was shown (ADR-0025, ADR-0056), whatever it cited before it was asked to patch.
Sourced(m, f) ==
  /\ WellFormed(f)
  /\ \A r \in f.refs : <<m, r>> \in issued
                       \/ (r \in brief[m].refs /\ \E c \in Mignons \cup {Orchestrator} : <<c, r>> \in issued)
  /\ \A u \in f.urls : <<m, KeyOf[u]>> \in shown

\* Where the orchestrator reads that the i-th finding was in the original report: it is told of a
\* repaired report, and else follows from the findings that were dropped.
ToldOrigin(h, n, i) ==
  IF h.repair # Unsent THEN h.repair.origins[i]
  ELSE InOrder((1..n) \ h.dropped)[i]

ToldDropped(h) == h.dropped \cup IF h.repair # Unsent THEN h.repair.dropped ELSE {}

\* Every finding of the original report is accounted for under its original number, as handed over
\* or as dropped and never as both, and one that is not said to be patched is as first written.
Accounted(m) ==
  LET h == handback[m]
      n == Len(first[m].findings)
      told == [i \in DOMAIN h.findings |-> ToldOrigin(h, n, i)]
  IN  /\ Range(told) \cup ToldDropped(h) = 1..n /\ Range(told) \cap ToldDropped(h) = {}
      /\ \A i \in DOMAIN told :
           /\ h.findings[i].id = told[i]
           /\ (h.repair = Unsent \/ told[i] \notin h.repair.patched)
                => h.findings[i] = first[m].findings[told[i]]

\* A finding the review accepts is dropped later only if another concurrent Mignon's task, not this
\* one's, named the reference (handed_refs).
AcceptedStays(m) ==
  \A f \in accepted[m] :
    f.id \in ToldDropped(handback[m])
      => \E x \in Mignons \ {m} : (f.refs \cap brief[x].refs) \ brief[m].refs # {}

\* A subject of the brief is a gap exactly when no finding that was handed over answers it, and a
\* value of an answered subject when none of those gives it: the dropped ones count for nothing.
GapsTrue(m) ==
  LET h == handback[m]
      answers(s) == {i \in DOMAIN h.findings : h.findings[i].subject = s}
  IN  \A s \in brief[m].subjects :
        /\ <<s, "not reported">> \in h.gaps <=> answers(s) = {}
        /\ \A w \in brief[m].wants :
             <<s, w>> \in h.gaps
               <=> answers(s) # {} /\ \A i \in answers(s) : w \notin h.findings[i].values

\* What the orchestrator reads of a Mignon's work is supported, complete and numbered right.
ReportsSound ==
  \A m \in Mignons : handback[m].kind = "report" =>
    /\ \A i \in DOMAIN handback[m].findings : Sourced(m, handback[m].findings[i])
    /\ Accounted(m) /\ AcceptedStays(m) /\ GapsTrue(m)
=============================================================================
