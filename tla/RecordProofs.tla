---------------------------- MODULE RecordProofs ----------------------------
(***************************************************************************)
(* Proofs about MCRecord, for any assumptions its parts make: what the     *)
(* orchestrator is handed of a Mignon's research, what the audit of the    *)
(* order sequence presumes, and what the record says of the run.           *)
(***************************************************************************)
EXTENDS MCRecord, SumLemmas, SequenceTheorems, TLAPS

----------------------------------------------------------------------------
(* Numbers in their order.                                                 *)

\* Finitely many numbers are numbered by how many of them are no larger.
LEMMA Ranked ==
  ASSUME NEW S \in SUBSET Nat, IsFiniteSet(S)
  PROVE  /\ Cardinality(S) \in Nat
         /\ \A i \in S : Cardinality({k \in S : k <= i}) \in 1..Cardinality(S)
         /\ \A i, j \in S : Cardinality({k \in S : k <= i}) = Cardinality({k \in S : k <= j}) => i = j
         /\ \A n \in 1..Cardinality(S) : \E i \in S : Cardinality({k \in S : k <= i}) = n
<1> DEFINE rank == [i \in S |-> Cardinality({k \in S : k <= i})]
<1>1. Cardinality(S) \in Nat
  BY FS_CardinalityType
<1>2. ASSUME NEW i \in S PROVE rank[i] \in 1..Cardinality(S)
  <2> DEFINE T == {k \in S : k <= i}
  <2>1. T \in SUBSET S /\ i \in T
    BY i \in Nat
  <2>2. IsFiniteSet(T) /\ Cardinality(T) <= Cardinality(S) /\ Cardinality(T) \in Nat
    BY <2>1, FS_Subset, FS_CardinalityType
  <2>3. Cardinality(T) # 0
    BY <2>1, <2>2, FS_EmptySet
  <2> HIDE DEF T
  <2>4. Cardinality(T) \in 1..Cardinality(S)
    BY <1>1, <2>2, <2>3
  <2> QED
    BY <2>4 DEF T
<1>3. ASSUME NEW i \in S, NEW j \in S, i < j PROVE rank[i] # rank[j]
  <2> DEFINE T == {k \in S : k <= i}
             U == {k \in S : k <= j}
  <2>1. T \in SUBSET U /\ j \in U /\ j \notin T /\ U \in SUBSET S
    <3>1. i \in Nat /\ j \in Nat /\ \A k \in S : k \in Nat
      OBVIOUS
    <3>2. \A k \in S : k <= i => k <= j
      BY <1>3, <3>1
    <3>3. i <= i /\ j <= j /\ ~(j <= i)
      BY <1>3, <3>1
    <3> QED
      BY <3>2, <3>3
  <2>2. IsFiniteSet(U)
    BY <2>1, FS_Subset
  <2> HIDE DEF T, U
  <2>3. Cardinality(T) # Cardinality(U)
    BY <2>1, <2>2, FS_Subset
  <2> QED
    BY <2>3 DEF T, U
<1>4. \A i, j \in S : rank[i] = rank[j] => i = j
  <2>1. \A i, j \in S : i \in Nat /\ j \in Nat /\ (i < j \/ j < i \/ i = j)
    OBVIOUS
  <2> HIDE DEF rank
  <2> QED
    BY <1>3, <2>1
<1>5. \A i \in S : rank[i] = Cardinality({k \in S : k <= i})
  OBVIOUS
<1> HIDE DEF rank
<1>6. \A n \in 1..Cardinality(S) : \E i \in S : rank[i] = n
  <2> DEFINE R == {rank[i] : i \in S}
  <2>1. IsFiniteSet(R) /\ Cardinality(R) = Cardinality(S)
    BY <1>4, ImageSize
  <2>2. IsFiniteSet(1..Cardinality(S)) /\ Cardinality(1..Cardinality(S)) = Cardinality(S)
    <3>1. IsFiniteSet(1..Cardinality(S))
          /\ Cardinality(1..Cardinality(S))
               = IF 1 > Cardinality(S) THEN 0 ELSE Cardinality(S) - 1 + 1
      <4>1. 1 \in Int /\ Cardinality(S) \in Int
        BY <1>1
      <4> QED
        BY <4>1, FS_Interval
    <3> QED
      BY <1>1, <3>1
  <2>3. R \subseteq 1..Cardinality(S)
    BY <1>2
  <2> HIDE DEF R
  <2>4. R = 1..Cardinality(S)
    BY <2>1, <2>2, <2>3, FS_Subset
  <2> QED
    BY <2>4 DEF R
<1>7. \A i \in S : rank[i] \in 1..Cardinality(S)
  BY <1>2
<1> QED
  BY <1>1, <1>4, <1>5, <1>6, <1>7

\* Places in their order are the places, each once.
LEMMA InOrderKeeps ==
  ASSUME NEW S \in SUBSET Nat, IsFiniteSet(S)
  PROVE  /\ Cardinality(S) \in Nat
         /\ InOrder(S) \in [1..Cardinality(S) -> S]
         /\ \A i \in S : \E j \in 1..Cardinality(S) : InOrder(S)[j] = i
<1> DEFINE rank(i) == Cardinality({k \in S : k <= i})
<1>1. /\ Cardinality(S) \in Nat
      /\ \A i \in S : rank(i) \in 1..Cardinality(S)
      /\ \A i, j \in S : rank(i) = rank(j) => i = j
      /\ \A n \in 1..Cardinality(S) : \E i \in S : rank(i) = n
  BY Ranked
<1>2. \A n \in 1..Cardinality(S) : InOrder(S)[n] = CHOOSE i \in S : rank(i) = n
  BY DEF InOrder
<1> HIDE DEF rank
<1>3. ASSUME NEW n \in 1..Cardinality(S)
      PROVE  InOrder(S)[n] \in S /\ rank(InOrder(S)[n]) = n
  <2>1. \E i \in S : rank(i) = n
    BY <1>1
  <2> QED
    BY <1>2, <2>1
<1>4. ASSUME NEW i \in S PROVE \E j \in 1..Cardinality(S) : InOrder(S)[j] = i
  <2>1. PICK j \in 1..Cardinality(S) : j = rank(i)
    BY <1>1
  <2>2. InOrder(S)[j] \in S /\ rank(InOrder(S)[j]) = j
    BY <1>3
  <2>3. InOrder(S)[j] = i
    BY <1>1, <2>1, <2>2
  <2> QED
    BY <2>3
<1>5. InOrder(S) \in [1..Cardinality(S) -> S]
  <2>1. InOrder(S) = [n \in 1..Cardinality(S) |-> CHOOSE i \in S : rank(i) = n]
    BY DEF InOrder, rank
  <2>2. \A n \in 1..Cardinality(S) : (CHOOSE i \in S : rank(i) = n) \in S
    BY <1>2, <1>3
  <2> QED
    BY <2>1, <2>2
<1> QED
  BY <1>1, <1>4, <1>5

----------------------------------------------------------------------------
(* Research: the inductive invariant.                                      *)

Stages == {"none", "working", "said", "ended", "over"}
Replies(m) == Reports[m] \cup Patches[m] \cup {Prose}
Drafts ==
  [attempts : 0..MaxRepairs, origins : Seq(Nat), findings : Seq(FindingSays), whole : BOOLEAN,
   patched : SUBSET Nat, dropped : SUBSET Nat, open : BOOLEAN]

ResearchTyped ==
  /\ stage \in [Mignons -> Stages]
  /\ brief \in [Mignons -> UNION {Briefs[m] : m \in Mignons}]
  /\ reply \in [Mignons -> UNION {Replies(m) : m \in Mignons}]
  /\ first \in [Mignons -> UNION {Replies(m) : m \in Mignons}]
  /\ draft \in [Mignons -> Drafts]
  /\ handback = [m \in Mignons |-> handback[m]]
  /\ mignonRefs \in [Mignons -> SUBSET Refs] /\ mignonUrls \in [Mignons -> SUBSET Urls]
  /\ runRefs \subseteq Refs /\ refusedUrls \cup retriedUrls \subseteq Keys(Urls)
  /\ extract \in [Extracts -> [by : Mignons \cup {"nobody"}, urls : SUBSET Urls]]
  /\ \A e \in Extracts : extract[e] # NoExtract => extract[e].by \in Mignons
  /\ accepted \in [Mignons -> SUBSET FindingSays]

\* A draft accounts for the findings of the report it began as.
DraftTrue(fs, d) ==
  /\ DOMAIN d.origins = DOMAIN d.findings
  /\ Range(d.origins) \cup d.dropped = 1..Len(fs) /\ Range(d.origins) \cap d.dropped = {}
  /\ \A i \in DOMAIN d.findings :
       /\ d.findings[i].id = d.origins[i]
       /\ d.origins[i] \notin d.patched => d.findings[i] = fs[d.origins[i]]

\* What a Mignon said: its draft is that of the report it first sent, and one that it was not
\* asked to patch is that report.  What it says to a repair request is no report.
ReplyInv(m) ==
  /\ brief[m] \in Briefs[m] /\ first[m] \in Reports[m] \cup {Prose} /\ reply[m] \in Replies(m)
  /\ ~draft[m].open =>
       /\ draft[m] = NoDraft
       /\ stage[m] = "said" => reply[m] = first[m]
       /\ stage[m] = "ended" => reply[m] = first[m] \/ reply[m].kind # "report"
       /\ stage[m] # "over" => accepted[m] = {}
  /\ draft[m].open =>
       /\ ReportSays(first[m]) /\ DraftTrue(first[m].findings, draft[m])
       /\ \A f \in accepted[m] : \E i \in DOMAIN draft[m].findings : f = draft[m].findings[i]
       /\ stage[m] = "said" => reply[m].kind # "report"
  /\ draft[m].open /\ draft[m].attempts = 0 =>
       stage[m] \in {"ended", "over"} /\ reply[m] = first[m] /\ draft[m] = Original(first[m])

\* What is known to have been delivered was.
SourceInv(m) ==
  /\ mignonRefs[m] \subseteq runRefs
  /\ \A r \in mignonRefs[m] : <<m, r>> \in issued
  /\ \A u \in mignonUrls[m] : <<m, KeyOf[u]>> \in shown
RunRefsInv ==
  \A r \in runRefs : \E c \in Mignons \cup {Orchestrator} : <<c, r>> \in issued

\* An accepted finding cites what its Mignon was delivered, or some Mignon's task handed over.
AcceptedInv(m) ==
  \A f \in accepted[m] :
    /\ WellFormed(f) /\ f.urls \subseteq mignonUrls[m]
    /\ \A r \in f.refs :
         \/ r \in mignonRefs[m]
         \/ r \in runRefs /\ \E x \in Mignons : stage[x] # "none" /\ r \in brief[x].refs

\* A report that was handed back is sound, and stays so: the tasks it could rest on were given.
AcceptedGoes(m) ==
  \A f \in accepted[m] :
    f.id \in ToldDropped(handback[m])
      => \E x \in Mignons \ {m} : stage[x] # "none" /\ (f.refs \cap brief[x].refs) \ brief[m].refs # {}
HandbackInv(m) ==
  /\ handback[m].kind \in {"none", "report", "missing", "failed"}
  /\ handback[m].kind = "report" =>
       /\ stage[m] = "over"
       /\ \A i \in DOMAIN handback[m].findings : Sourced(m, handback[m].findings[i])
       /\ Accounted(m) /\ AcceptedGoes(m) /\ GapsTrue(m)

ResearchInv ==
  /\ ResearchTyped /\ RunRefsInv
  /\ \A m \in Mignons : ReplyInv(m) /\ SourceInv(m) /\ AcceptedInv(m) /\ HandbackInv(m)

----------------------------------------------------------------------------
(* Research: the operators.                                                *)

\* The places of a sequence that are kept: the findings there, and no others.
LEMMA KeptPlaces ==
  ASSUME NEW T, NEW s \in Seq(T), NEW K \in SUBSET DOMAIN s
  PROVE  /\ At(s, InOrder(K)) \in Seq(T)
         /\ DOMAIN At(s, InOrder(K)) = 1..Cardinality(K)
         /\ DOMAIN InOrder(K) = 1..Cardinality(K)
         /\ \A j \in 1..Cardinality(K) :
              InOrder(K)[j] \in K /\ At(s, InOrder(K))[j] = s[InOrder(K)[j]]
         /\ \A i \in K : \E j \in 1..Cardinality(K) : InOrder(K)[j] = i
<1>1. Len(s) \in Nat /\ DOMAIN s = 1..Len(s) /\ \A i \in DOMAIN s : s[i] \in T
  OBVIOUS
<1>2. IsFiniteSet(1..Len(s))
  BY <1>1, FS_Interval, Len(s) \in Int, 1 \in Int
<1>3. K \in SUBSET Nat /\ K \in SUBSET (1..Len(s))
  BY <1>1
<1>4. IsFiniteSet(K)
  BY <1>2, <1>3, FS_Subset
<1>5. /\ Cardinality(K) \in Nat /\ InOrder(K) \in [1..Cardinality(K) -> K]
      /\ \A i \in K : \E j \in 1..Cardinality(K) : InOrder(K)[j] = i
  BY <1>3, <1>4, InOrderKeeps
<1> DEFINE chosen == InOrder(K)
           kept == At(s, chosen)
<1>6. chosen \in [1..Cardinality(K) -> K]
  BY <1>5
<1> HIDE DEF chosen
<1>7. kept = [j \in 1..Cardinality(K) |-> s[chosen[j]]]
  BY <1>6 DEF At
<1>8. \A j \in 1..Cardinality(K) : chosen[j] \in K /\ s[chosen[j]] \in T
  BY <1>1, <1>3, <1>6
<1> HIDE DEF kept
<1>9. kept \in [1..Cardinality(K) -> T]
  BY <1>7, <1>8
<1>10. kept \in Seq(T)
  BY <1>5, <1>9
<1>11. \A j \in 1..Cardinality(K) : kept[j] = s[chosen[j]]
  BY <1>7
<1>12. DOMAIN kept = 1..Cardinality(K) /\ DOMAIN chosen = 1..Cardinality(K)
  BY <1>6, <1>7
<1> QED
  BY <1>5, <1>8, <1>10, <1>11, <1>12 DEF chosen, kept

\* An unpatched report accounts for its findings.
LEMMA OriginalTrue ==
  ASSUME NEW r, ReportSays(r)
  PROVE  /\ Original(r) \in Drafts /\ DraftTrue(r.findings, Original(r))
         /\ Original(r).attempts = 0 /\ Original(r).open /\ Original(r).findings = r.findings
         /\ Original(r).patched = {} /\ Original(r).dropped = {}
         /\ Original(r).origins = [i \in DOMAIN r.findings |-> i]
<1> DEFINE o == [i \in DOMAIN r.findings |-> i]
           d == [attempts |-> 0, origins |-> o, findings |-> r.findings, whole |-> r.whole,
                 patched |-> {}, dropped |-> {}, open |-> TRUE]
<1>1. Original(r) = d
  BY DEF Original
<1>2. /\ r.findings \in Seq(FindingSays) /\ r.whole \in BOOLEAN
      /\ \A i \in DOMAIN r.findings : r.findings[i].id = i
  BY DEF ReportSays
<1>3. DOMAIN r.findings = 1..Len(r.findings) /\ Len(r.findings) \in Nat
  BY <1>2
<1>4. o \in [1..Len(r.findings) -> Nat] /\ DOMAIN o = DOMAIN r.findings
  BY <1>3
<1>5. o \in Seq(Nat)
  BY <1>3, <1>4
<1>6. \A i \in DOMAIN r.findings : o[i] = i
  OBVIOUS
<1>7. Range(o) = 1..Len(r.findings)
  BY <1>3, <1>4, <1>6 DEF Range
<1> HIDE DEF o
<1>8. 0 \in 0..MaxRepairs
  <2>1. MaxRepairs \in Nat
    BY ResearchAssumption
  <2> QED
    BY <2>1
<1>9. d \in Drafts
  BY <1>2, <1>5, <1>8 DEF Drafts
<1>10. DraftTrue(r.findings, d)
  BY <1>2, <1>4, <1>6, <1>7 DEF DraftTrue
<1> QED
  BY <1>1, <1>9, <1>10 DEF o

\* A patched finding keeps its number, and is a finding.
LEMMA PatchedSays ==
  ASSUME NEW f \in FindingSays, NEW c \in Change
  PROVE  Patched(f, c) \in FindingSays /\ Patched(f, c).id = f.id
<1> DEFINE rs == IF c.refs = Keep THEN f.refs ELSE c.refs
           us == IF c.urls = Keep THEN f.urls ELSE c.urls
           fields == IF c.claim \/ f.fields = "stray" THEN "good" ELSE f.fields
<1>1. Patched(f, c) = [f EXCEPT !.refs = rs, !.urls = us, !.fields = fields]
  BY DEF Patched
<1>2. rs \in SUBSET Refs /\ us \in SUBSET Urls /\ fields \in {"good", "stray", "bad"}
  BY DEF FindingSays, Change
<1> HIDE DEF rs, us, fields
<1> QED
  BY <1>1, <1>2 DEF FindingSays

\* A merged draft accounts for the findings that the draft before it does.
LEMMA ApplyKeeps ==
  ASSUME NEW fs \in Seq(FindingSays), NEW d \in Drafts, DraftTrue(fs, d),
         NEW p, PatchSays(p), PatchFits(d, p)
  PROVE  /\ ApplyPatch(d, p) \in Drafts /\ DraftTrue(fs, ApplyPatch(d, p))
         /\ ApplyPatch(d, p).attempts = d.attempts /\ ApplyPatch(d, p).open = d.open
         /\ ApplyPatch(d, p).whole = d.whole
<1> DEFINE change(i) == d.origins[i] \in DOMAIN p.changes
           drop(i) == change(i) /\ p.changes[d.origins[i]].drop
           merged == [i \in DOMAIN d.findings |->
                        IF change(i) /\ ~drop(i) THEN Patched(d.findings[i], p.changes[d.origins[i]])
                        ELSE d.findings[i]]
           gone == d.dropped \cup {o \in DOMAIN p.changes : p.changes[o].drop}
           K == {i \in DOMAIN merged : ~drop(i)}
           keep == InOrder(K)
           patched == (d.patched \cup DOMAIN p.changes) \ gone
<1>1. ApplyPatch(d, p) = [d EXCEPT !.findings = At(merged, keep), !.origins = At(d.origins, keep),
                                   !.dropped = gone, !.patched = patched]
  BY DEF ApplyPatch
<1>2. /\ d.origins \in Seq(Nat) /\ d.findings \in Seq(FindingSays)
      /\ d.patched \in SUBSET Nat /\ d.dropped \in SUBSET Nat
  BY DEF Drafts
<1>3. /\ DOMAIN d.origins = DOMAIN d.findings
      /\ Range(d.origins) \cup d.dropped = 1..Len(fs) /\ Range(d.origins) \cap d.dropped = {}
      /\ \A i \in DOMAIN d.findings :
           /\ d.findings[i].id = d.origins[i]
           /\ d.origins[i] \notin d.patched => d.findings[i] = fs[d.origins[i]]
  BY DEF DraftTrue
<1>4. DOMAIN p.changes \subseteq Range(d.origins)
  BY DEF PatchFits
<1>5. \A o \in DOMAIN p.changes : p.changes[o] = [drop |-> TRUE] \/ p.changes[o] \in Change
  BY DEF PatchSays
<1>6. \A i \in DOMAIN d.findings : d.findings[i] \in FindingSays /\ d.origins[i] \in Range(d.origins)
  BY <1>2, <1>3 DEF Range
<1>7. DOMAIN merged = DOMAIN d.findings
  OBVIOUS
<1>8. ASSUME NEW i \in DOMAIN d.findings
      PROVE  /\ merged[i] \in FindingSays /\ merged[i].id = d.origins[i]
             /\ ~change(i) => merged[i] = d.findings[i]
  <2>1. CASE change(i) /\ ~drop(i)
    <3>1. p.changes[d.origins[i]] \in Change
      BY <1>5, <2>1
    <3>2. merged[i] = Patched(d.findings[i], p.changes[d.origins[i]])
      BY <2>1
    <3> QED
      BY <1>3, <1>6, <2>1, <3>1, <3>2, PatchedSays
  <2>2. CASE ~(change(i) /\ ~drop(i))
    <3>1. merged[i] = d.findings[i]
      BY <2>2
    <3> QED
      BY <1>3, <1>6, <2>2, <3>1
  <2> QED
    BY <2>1, <2>2
<1>9. merged \in Seq(FindingSays) /\ K \in SUBSET DOMAIN merged /\ K \in SUBSET DOMAIN d.origins
  <2>1. DOMAIN merged = 1..Len(d.findings) /\ Len(d.findings) \in Nat
    BY <1>2, <1>7
  <2>2. \A i \in 1..Len(d.findings) : merged[i] \in FindingSays
    BY <1>7, <1>8, <2>1
  <2>3. merged = [i \in 1..Len(d.findings) |-> merged[i]]
    BY <1>7, <2>1
  <2>4. K \in SUBSET DOMAIN merged
    OBVIOUS
  <2> HIDE DEF merged, K
  <2>5. merged \in [1..Len(d.findings) -> FindingSays]
    BY <2>2, <2>3
  <2>6. merged \in Seq(FindingSays)
    BY <2>1, <2>5
  <2> QED
    BY <1>3, <1>7, <2>4, <2>6
<1>10. \A i : i \in K <=> i \in DOMAIN d.findings /\ ~drop(i)
  BY <1>7
<1>11. \A i \in DOMAIN d.findings : drop(i) <=> d.origins[i] \in {o \in DOMAIN p.changes : p.changes[o].drop}
  OBVIOUS
<1> HIDE DEF merged, K
<1>12. /\ At(merged, keep) \in Seq(FindingSays) /\ At(d.origins, keep) \in Seq(Nat)
       /\ DOMAIN At(merged, keep) = 1..Cardinality(K) /\ DOMAIN At(d.origins, keep) = 1..Cardinality(K)
       /\ \A j \in 1..Cardinality(K) :
            /\ keep[j] \in K /\ At(merged, keep)[j] = merged[keep[j]]
            /\ At(d.origins, keep)[j] = d.origins[keep[j]]
       /\ \A i \in K : \E j \in 1..Cardinality(K) : keep[j] = i
  BY <1>2, <1>9, KeptPlaces
<1> DEFINE fs2 == At(merged, keep)
           os2 == At(d.origins, keep)
<1>13. /\ fs2 \in Seq(FindingSays) /\ os2 \in Seq(Nat)
       /\ DOMAIN fs2 = 1..Cardinality(K) /\ DOMAIN os2 = 1..Cardinality(K)
       /\ \A j \in 1..Cardinality(K) :
            keep[j] \in K /\ fs2[j] = merged[keep[j]] /\ os2[j] = d.origins[keep[j]]
       /\ \A i \in K : \E j \in 1..Cardinality(K) : keep[j] = i
  BY <1>12
<1>14. ApplyPatch(d, p) = [d EXCEPT !.findings = fs2, !.origins = os2,
                                    !.dropped = gone, !.patched = patched]
  BY <1>1
<1> HIDE DEF fs2, os2, keep
<1>15. \A o \in Range(d.origins) : \E i \in DOMAIN d.findings : d.origins[i] = o
  BY <1>3 DEF Range
<1>16. \A o : o \in Range(os2) <=> \E j \in 1..Cardinality(K) : os2[j] = o
  BY <1>13 DEF Range
<1>17. ASSUME NEW o PROVE o \in Range(os2) <=> o \in Range(d.origins) /\ o \notin gone
  <2>1. ASSUME o \in Range(os2) PROVE o \in Range(d.origins) /\ o \notin gone
    <3>1. PICK j \in 1..Cardinality(K) : os2[j] = o
      BY <1>16, <2>1
    <3>2. keep[j] \in DOMAIN d.findings /\ ~drop(keep[j]) /\ o = d.origins[keep[j]]
      BY <1>10, <1>13, <3>1
    <3>3. o \in Range(d.origins)
      BY <1>6, <3>2
    <3> QED
      BY <1>3, <1>11, <3>2, <3>3
  <2>2. ASSUME o \in Range(d.origins), o \notin gone PROVE o \in Range(os2)
    <3>1. PICK i \in DOMAIN d.findings : d.origins[i] = o
      BY <1>15, <2>2
    <3>2. i \in K
      BY <1>10, <1>11, <2>2, <3>1
    <3>3. PICK j \in 1..Cardinality(K) : keep[j] = i
      BY <1>13, <3>2
    <3> QED
      BY <1>13, <1>16, <3>1, <3>3
  <2> QED
    BY <2>1, <2>2
<1>18. Range(os2) \cup gone = 1..Len(fs) /\ Range(os2) \cap gone = {}
  <2>1. \A o : o \in gone => o \in 1..Len(fs)
    BY <1>3, <1>4
  <2>2. \A o : o \in Range(os2) <=> o \in Range(d.origins) /\ o \notin gone
    BY <1>17
  <2>3. \A o : o \in d.dropped => o \in gone
    OBVIOUS
  <2> HIDE DEF gone
  <2> QED
    BY <1>3, <2>1, <2>2, <2>3
<1>19. gone \in SUBSET Nat /\ patched \in SUBSET Nat
  <2>1. Range(d.origins) \subseteq Nat
    BY <1>2 DEF Range
  <2> QED
    BY <1>2, <1>4, <2>1
<1>20. ASSUME NEW j \in 1..Cardinality(K)
       PROVE  fs2[j].id = os2[j] /\ (os2[j] \notin patched => fs2[j] = fs[os2[j]])
  <2>1. keep[j] \in DOMAIN d.findings /\ fs2[j] = merged[keep[j]] /\ os2[j] = d.origins[keep[j]]
    BY <1>10, <1>13
  <2>2. os2[j] \in Range(os2)
    BY <1>16
  <2>3. os2[j] \notin gone
    BY <1>17, <2>2
  <2>4. os2[j] \notin patched => os2[j] \notin d.patched /\ ~change(keep[j])
    BY <2>1, <2>3
  <2> QED
    BY <1>3, <1>8, <2>1, <2>4
<1> HIDE DEF gone, patched
<1>21. /\ ApplyPatch(d, p) \in Drafts
       /\ ApplyPatch(d, p).attempts = d.attempts /\ ApplyPatch(d, p).open = d.open
       /\ ApplyPatch(d, p).whole = d.whole
       /\ ApplyPatch(d, p).findings = fs2 /\ ApplyPatch(d, p).origins = os2
       /\ ApplyPatch(d, p).dropped = gone /\ ApplyPatch(d, p).patched = patched
  BY <1>13, <1>14, <1>19 DEF Drafts
<1>22. DraftTrue(fs, ApplyPatch(d, p))
  BY <1>13, <1>18, <1>20, <1>21 DEF DraftTrue
<1> QED
  BY <1>21, <1>22

\* What is salvaged of a report: the findings that hold, each with its place in the original one.
LEMMA SalvageKeeps ==
  ASSUME NEW fs \in Seq(FindingSays), NEW d \in Drafts, DraftTrue(fs, d), NEW refs, NEW urls
  PROVE  LET kept == Salvage(d, refs, urls) IN
         /\ kept.findings \in Seq(FindingSays) /\ DOMAIN kept.origins = DOMAIN kept.findings
         /\ \A j \in DOMAIN kept.findings :
              /\ FindingHolds(kept.findings[j], refs, urls)
              /\ kept.findings[j].id = kept.origins[j]
              /\ \E i \in DOMAIN d.findings :
                   kept.findings[j] = d.findings[i] /\ kept.origins[j] = d.origins[i]
         /\ Range(kept.origins) \cup kept.dropped = Range(d.origins)
         /\ Range(kept.origins) \cap kept.dropped = {}
         /\ \A i \in DOMAIN d.findings :
              FindingHolds(d.findings[i], refs, urls) => d.findings[i].id \notin kept.dropped
<1> DEFINE K == {i \in DOMAIN d.findings : FindingHolds(d.findings[i], refs, urls)}
           keep == InOrder(K)
           fs2 == At(d.findings, keep)
           os2 == At(d.origins, keep)
           kept == Salvage(d, refs, urls)
<1>1. kept = [findings |-> fs2, origins |-> os2, dropped |-> Range(d.origins) \ Range(os2)]
  BY DEF Salvage
<1>2. d.origins \in Seq(Nat) /\ d.findings \in Seq(FindingSays)
  BY DEF Drafts
<1>3. /\ DOMAIN d.origins = DOMAIN d.findings
      /\ \A i \in DOMAIN d.findings : d.findings[i].id = d.origins[i]
  BY DEF DraftTrue
<1>4. K \in SUBSET DOMAIN d.findings /\ K \in SUBSET DOMAIN d.origins
  BY <1>3
<1>5. \A i \in K : FindingHolds(d.findings[i], refs, urls)
  OBVIOUS
<1>6. \A i \in DOMAIN d.findings : FindingHolds(d.findings[i], refs, urls) => i \in K
  OBVIOUS
<1> HIDE DEF K
<1>7. /\ fs2 \in Seq(FindingSays) /\ os2 \in Seq(Nat)
      /\ DOMAIN fs2 = 1..Cardinality(K) /\ DOMAIN os2 = 1..Cardinality(K)
      /\ \A j \in 1..Cardinality(K) :
           keep[j] \in K /\ fs2[j] = d.findings[keep[j]] /\ os2[j] = d.origins[keep[j]]
      /\ \A i \in K : \E j \in 1..Cardinality(K) : keep[j] = i
  <2>1. /\ At(d.findings, InOrder(K)) \in Seq(FindingSays)
        /\ DOMAIN At(d.findings, InOrder(K)) = 1..Cardinality(K)
        /\ \A j \in 1..Cardinality(K) :
             InOrder(K)[j] \in K /\ At(d.findings, InOrder(K))[j] = d.findings[InOrder(K)[j]]
        /\ \A i \in K : \E j \in 1..Cardinality(K) : InOrder(K)[j] = i
    BY <1>2, <1>4, KeptPlaces
  <2>2. /\ At(d.origins, InOrder(K)) \in Seq(Nat)
        /\ DOMAIN At(d.origins, InOrder(K)) = 1..Cardinality(K)
        /\ \A j \in 1..Cardinality(K) : At(d.origins, InOrder(K))[j] = d.origins[InOrder(K)[j]]
    BY <1>2, <1>4, KeptPlaces
  <2> QED
    BY <2>1, <2>2
<1> HIDE DEF keep, fs2, os2
<1>8. \A j \in DOMAIN fs2 :
        /\ FindingHolds(fs2[j], refs, urls) /\ fs2[j].id = os2[j]
        /\ \E i \in DOMAIN d.findings : fs2[j] = d.findings[i] /\ os2[j] = d.origins[i]
  BY <1>3, <1>4, <1>5, <1>7
<1>9. Range(os2) \subseteq Range(d.origins)
  BY <1>4, <1>7 DEF Range
<1>10. \A i \in K : d.findings[i].id \in Range(os2)
  BY <1>3, <1>4, <1>7 DEF Range
<1>11. /\ kept.findings = fs2 /\ kept.origins = os2
       /\ kept.dropped = Range(d.origins) \ Range(os2)
  BY <1>1
<1> HIDE DEF kept
<1>12. \A i \in DOMAIN d.findings :
         FindingHolds(d.findings[i], refs, urls) => d.findings[i].id \notin kept.dropped
  BY <1>6, <1>10, <1>11
<1>13. /\ Range(kept.origins) \cup kept.dropped = Range(d.origins)
       /\ Range(kept.origins) \cap kept.dropped = {}
  BY <1>9, <1>11
<1>14. /\ kept.findings \in Seq(FindingSays) /\ DOMAIN kept.origins = DOMAIN kept.findings
       /\ \A j \in DOMAIN kept.findings :
            /\ FindingHolds(kept.findings[j], refs, urls) /\ kept.findings[j].id = kept.origins[j]
            /\ \E i \in DOMAIN d.findings :
                 kept.findings[j] = d.findings[i] /\ kept.origins[j] = d.origins[i]
  BY <1>7, <1>8, <1>11
<1> QED
  BY <1>12, <1>13, <1>14 DEF kept, K

----------------------------------------------------------------------------
(* Research: what holds of a Mignon that a step passes by.                 *)

\* What is known and what was given only grows.
Onward ==
  /\ \A x \in Mignons : stage[x] # "none" => stage'[x] # "none" /\ brief'[x] = brief[x]
  /\ \A x \in Mignons : mignonRefs[x] \subseteq mignonRefs'[x] /\ mignonUrls[x] \subseteq mignonUrls'[x]
  /\ runRefs \subseteq runRefs' /\ issued \subseteq issued' /\ shown \subseteq shown'

LEMMA AcceptedKeeps ==
  ASSUME Onward, NEW m \in Mignons, AcceptedInv(m), accepted'[m] = accepted[m]
  PROVE  AcceptedInv(m)'
<1> SUFFICES ASSUME NEW f \in accepted[m]
             PROVE  /\ WellFormed(f) /\ f.urls \subseteq mignonUrls'[m]
                    /\ \A r \in f.refs :
                         \/ r \in mignonRefs'[m]
                         \/ /\ r \in runRefs'
                            /\ \E x \in Mignons : stage'[x] # "none" /\ r \in brief'[x].refs
  BY DEF AcceptedInv, WellFormed
<1>1. /\ WellFormed(f) /\ f.urls \subseteq mignonUrls[m]
      /\ \A r \in f.refs :
           \/ r \in mignonRefs[m]
           \/ r \in runRefs /\ \E x \in Mignons : stage[x] # "none" /\ r \in brief[x].refs
  BY DEF AcceptedInv
<1>2. f.urls \subseteq mignonUrls'[m]
  BY <1>1 DEF Onward
<1>3. ASSUME NEW r \in f.refs, r \notin mignonRefs'[m]
      PROVE  r \in runRefs' /\ \E x \in Mignons : stage'[x] # "none" /\ r \in brief'[x].refs
  <2>1. r \notin mignonRefs[m]
    BY <1>3 DEF Onward
  <2>2. PICK x \in Mignons : r \in runRefs /\ stage[x] # "none" /\ r \in brief[x].refs
    BY <1>1, <2>1
  <2>3. r \in runRefs' /\ stage'[x] # "none" /\ r \in brief'[x].refs
    BY <2>2 DEF Onward
  <2> QED
    BY <2>3
<1> QED
  BY <1>1, <1>2, <1>3

LEMMA SourcedKeeps ==
  ASSUME Onward, NEW m \in Mignons, stage[m] # "none", NEW f, Sourced(m, f)
  PROVE  Sourced(m, f)'
<1>1. brief'[m] = brief[m] /\ issued \subseteq issued' /\ shown \subseteq shown'
  BY DEF Onward
<1> QED
  BY <1>1 DEF Sourced, WellFormed, Orchestrator

\* Accounted and GapsTrue, of a report, the findings it began as, and a brief.
Counted(h, fs) ==
  LET told == [i \in DOMAIN h.findings |-> ToldOrigin(h, Len(fs), i)] IN
  /\ Range(told) \cup ToldDropped(h) = 1..Len(fs) /\ Range(told) \cap ToldDropped(h) = {}
  /\ \A i \in DOMAIN told :
       /\ h.findings[i].id = told[i]
       /\ (h.repair = Unsent \/ told[i] \notin h.repair.patched) => h.findings[i] = fs[told[i]]
Gapped(h, b) ==
  LET answers(s) == {i \in DOMAIN h.findings : h.findings[i].subject = s}
  IN  \A s \in b.subjects :
        /\ <<s, "not reported">> \in h.gaps <=> answers(s) = {}
        /\ \A w \in b.wants :
             <<s, w>> \in h.gaps
               <=> answers(s) # {} /\ \A i \in answers(s) : w \notin h.findings[i].values

LEMMA HandbackKeeps ==
  ASSUME Onward, NEW m \in Mignons, HandbackInv(m), handback'[m] = handback[m],
         first'[m] = first[m], accepted'[m] = accepted[m], stage[m] = "over" => stage'[m] = "over"
  PROVE  HandbackInv(m)'
<1>1. handback'[m].kind \in {"none", "report", "missing", "failed"}
  BY DEF HandbackInv
<1>2. ASSUME handback'[m].kind = "report"
      PROVE  /\ stage'[m] = "over"
             /\ (\A i \in DOMAIN handback[m].findings : Sourced(m, handback[m].findings[i]))'
             /\ Accounted(m)' /\ AcceptedGoes(m)' /\ GapsTrue(m)'
  <2>1. /\ stage[m] = "over"
        /\ \A i \in DOMAIN handback[m].findings : Sourced(m, handback[m].findings[i])
        /\ Accounted(m) /\ AcceptedGoes(m) /\ GapsTrue(m)
    BY <1>2 DEF HandbackInv
  <2>2. stage'[m] = "over" /\ brief'[m] = brief[m]
    BY <2>1 DEF Onward
  <2>3. (\A i \in DOMAIN handback[m].findings : Sourced(m, handback[m].findings[i]))'
    <3>1. ASSUME NEW i \in DOMAIN handback'[m].findings, NEW f, f = handback'[m].findings[i]
          PROVE  Sourced(m, f)'
      <4>1. Sourced(m, f)
        BY <2>1, <3>1
      <4> QED
        BY <2>1, <4>1, SourcedKeeps
    <3> QED
      BY <3>1 DEF Sourced, WellFormed, Orchestrator
  <2>4. Accounted(m)'
    <3>1. Counted(handback[m], first[m].findings)
      BY <2>1 DEF Accounted, Counted
    <3>2. Counted(handback'[m], first'[m].findings)
      BY <3>1
    <3> QED
      BY <3>2 DEF Accounted, Counted
  <2>5. GapsTrue(m)'
    <3>1. Gapped(handback[m], brief[m])
      BY <2>1 DEF GapsTrue, Gapped
    <3>2. Gapped(handback'[m], brief'[m])
      BY <2>2, <3>1
    <3> QED
      BY <3>2 DEF GapsTrue, Gapped
  <2>6. AcceptedGoes(m)'
    <3> SUFFICES ASSUME NEW f \in accepted[m], f.id \in ToldDropped(handback[m])
                 PROVE  \E x \in Mignons \ {m} :
                          stage'[x] # "none" /\ (f.refs \cap brief'[x].refs) \ brief'[m].refs # {}
      BY DEF AcceptedGoes, ToldDropped, Unsent
    <3>1. PICK x \in Mignons \ {m} :
            stage[x] # "none" /\ (f.refs \cap brief[x].refs) \ brief[m].refs # {}
      BY <2>1 DEF AcceptedGoes
    <3>2. stage'[x] # "none" /\ brief'[x] = brief[x]
      BY <3>1 DEF Onward
    <3> QED
      BY <2>2, <3>1, <3>2
  <2> QED
    BY <2>2, <2>3, <2>4, <2>5, <2>6
<1> QED
  BY <1>1, <1>2 DEF HandbackInv

\* A Mignon of which a step changes nothing but what others know, or what it was delivered.
LEMMA PassedBy ==
  ASSUME Onward, NEW m \in Mignons, ReplyInv(m), AcceptedInv(m), HandbackInv(m),
         stage'[m] = stage[m], brief'[m] = brief[m], reply'[m] = reply[m], draft'[m] = draft[m],
         handback'[m] = handback[m], first'[m] = first[m], accepted'[m] = accepted[m]
  PROVE  ReplyInv(m)' /\ AcceptedInv(m)' /\ HandbackInv(m)'
<1>1. AcceptedInv(m)'
  BY AcceptedKeeps
<1>2. HandbackInv(m)'
  BY HandbackKeeps
<1>3. ReplyInv(m)'
  <2>1. /\ brief'[m] \in Briefs[m] /\ first'[m] \in Reports[m] \cup {Prose} /\ reply'[m] \in Replies(m)
    BY DEF ReplyInv
  <2>2. ~draft'[m].open =>
          /\ draft'[m] = NoDraft
          /\ stage'[m] = "said" => reply'[m] = first'[m]
          /\ stage'[m] = "ended" => reply'[m] = first'[m] \/ reply'[m].kind # "report"
          /\ stage'[m] # "over" => accepted'[m] = {}
    BY DEF ReplyInv
  <2>3. draft'[m].open =>
          /\ ReportSays(first'[m]) /\ DraftTrue(first'[m].findings, draft'[m])
          /\ \A f \in accepted'[m] : \E i \in DOMAIN draft'[m].findings : f = draft'[m].findings[i]
          /\ stage'[m] = "said" => reply'[m].kind # "report"
    BY DEF ReplyInv
  <2>4. draft'[m].open /\ draft'[m].attempts = 0 =>
          stage'[m] \in {"ended", "over"} /\ reply'[m] = first'[m] /\ draft'[m] = Original(first'[m])
    BY DEF ReplyInv
  <2> QED
    BY <2>1, <2>2, <2>3, <2>4 DEF ReplyInv, NoDraft, Replies, Prose
<1> QED
  BY <1>1, <1>2, <1>3

----------------------------------------------------------------------------
(* Research: every step keeps the invariant.                               *)

LEMMA DeliveredKeeps ==
  ASSUME ResearchInv, NEW c \in Mignons \cup {Orchestrator}, NEW rs \in SUBSET Refs,
         ResultDelivered(c, rs)
  PROVE  ResearchInv'
<1>1. /\ runRefs' = runRefs \cup rs
      /\ mignonRefs' = [m \in Mignons |-> mignonRefs[m] \cup IF m = c THEN rs ELSE {}]
      /\ issued' = issued \cup ({c} \X rs)
      /\ UNCHANGED <<stage, brief, reply, draft, handback, mignonUrls, refusedUrls, retriedUrls,
                     extract, halted, first, shown, accepted>>
  BY DEF ResultDelivered
<1>2. ResearchTyped
  BY DEF ResearchInv
<1>3. \A m \in Mignons : mignonRefs'[m] = mignonRefs[m] \cup IF m = c THEN rs ELSE {}
  BY <1>1
<1>4. ResearchTyped'
  <2>1. mignonRefs' \in [Mignons -> SUBSET Refs]
    BY <1>1, <1>2 DEF ResearchTyped
  <2>2. runRefs' \subseteq Refs
    BY <1>1, <1>2 DEF ResearchTyped
  <2> QED
    BY <1>1, <1>2, <2>1, <2>2 DEF ResearchTyped
<1>5. RunRefsInv'
  <2>1. ASSUME NEW r \in runRefs' PROVE \E d \in Mignons \cup {Orchestrator} : <<d, r>> \in issued'
    <3>1. CASE r \in runRefs
      BY <1>1, <3>1 DEF ResearchInv, RunRefsInv
    <3>2. CASE r \in rs
      BY <1>1, <3>2
    <3> QED
      BY <1>1, <2>1, <3>1, <3>2
  <2> QED
    BY <2>1 DEF RunRefsInv, Orchestrator
<1>6. Onward
  BY <1>1, <1>3 DEF Onward
<1>7. ASSUME NEW m \in Mignons PROVE ReplyInv(m)' /\ SourceInv(m)' /\ AcceptedInv(m)' /\ HandbackInv(m)'
  <2>1. ReplyInv(m) /\ SourceInv(m) /\ AcceptedInv(m) /\ HandbackInv(m)
    BY DEF ResearchInv
  <2>2. ReplyInv(m)' /\ AcceptedInv(m)' /\ HandbackInv(m)'
    BY <1>1, <1>6, <2>1, PassedBy
  <2>3. SourceInv(m)'
    BY <1>1, <1>3, <2>1 DEF SourceInv
  <2> QED
    BY <2>2, <2>3
<1> QED
  BY <1>4, <1>5, <1>7 DEF ResearchInv

\* The steps of an extract: of what was delivered, only the pages shown to who asked.
LEMMA ExtractKeeps ==
  ASSUME ResearchInv,
         UNCHANGED <<stage, brief, reply, draft, handback, mignonRefs, runRefs, halted, first,
                     issued, accepted>>,
         refusedUrls' \cup retriedUrls' \subseteq Keys(Urls),
         extract' \in [Extracts -> [by : Mignons \cup {"nobody"}, urls : SUBSET Urls]],
         \A e \in Extracts : extract'[e] # NoExtract => extract'[e].by \in Mignons,
         mignonUrls' \in [Mignons -> SUBSET Urls], shown \subseteq shown',
         \A m \in Mignons : /\ mignonUrls[m] \subseteq mignonUrls'[m]
                            /\ \A u \in mignonUrls'[m] : <<m, KeyOf[u]>> \in shown'
  PROVE  ResearchInv'
<1>1. ResearchTyped'
  BY DEF ResearchInv, ResearchTyped, NoExtract
<1>2. RunRefsInv'
  BY DEF ResearchInv, RunRefsInv, Orchestrator
<1>3. Onward
  BY DEF Onward
<1>4. ASSUME NEW m \in Mignons PROVE ReplyInv(m)' /\ SourceInv(m)' /\ AcceptedInv(m)' /\ HandbackInv(m)'
  <2>1. ReplyInv(m) /\ SourceInv(m) /\ AcceptedInv(m) /\ HandbackInv(m)
    BY DEF ResearchInv
  <2>2. ReplyInv(m)' /\ AcceptedInv(m)' /\ HandbackInv(m)'
    BY <1>3, <2>1, PassedBy
  <2>3. SourceInv(m)'
    BY <2>1 DEF SourceInv
  <2> QED
    BY <2>2, <2>3
<1> QED
  BY <1>1, <1>2, <1>4 DEF ResearchInv

LEMMA AskExtractKeeps ==
  ASSUME ResearchInv, NEW m \in Mignons, NEW e \in Extracts, NEW us \in SUBSET Urls,
         AskExtract(m, e, us)
  PROVE  ResearchInv'
<1>1. /\ extract' = [extract EXCEPT ![e] = [by |-> m, urls |-> us]]
      /\ UNCHANGED <<stage, brief, reply, draft, handback, mignonRefs, mignonUrls, runRefs,
                     refusedUrls, retriedUrls, halted, first, issued, shown, accepted>>
  BY DEF AskExtract, hookVars
<1>2. ResearchTyped /\ \A x \in Mignons : SourceInv(x)
  BY DEF ResearchInv
<1>3. /\ extract' \in [Extracts -> [by : Mignons \cup {"nobody"}, urls : SUBSET Urls]]
      /\ \A x \in Extracts : extract'[x] # NoExtract => extract'[x].by \in Mignons
  BY <1>1, <1>2 DEF ResearchTyped
<1>4. refusedUrls' \cup retriedUrls' \subseteq Keys(Urls) /\ mignonUrls' \in [Mignons -> SUBSET Urls]
  BY <1>1, <1>2 DEF ResearchTyped
<1>5. \A x \in Mignons : /\ mignonUrls[x] \subseteq mignonUrls'[x]
                         /\ \A u \in mignonUrls'[x] : <<x, KeyOf[u]>> \in shown'
  BY <1>1, <1>2 DEF SourceInv
<1> QED
  BY <1>1, <1>3, <1>4, <1>5, ExtractKeeps

LEMMA ExtractReturnsKeeps ==
  ASSUME ResearchInv, NEW e \in Extracts, NEW got \in SUBSET Urls, ExtractReturns(e, got)
  PROVE  ResearchInv'
<1> DEFINE m == extract[e].by
           asked == extract[e].urls
           new == got \cup {u \in asked : KeyOf[u] \in Keys(got)}
<1>1. /\ extract[e] # NoExtract
      /\ mignonUrls' = [mignonUrls EXCEPT ![m] = @ \cup new]
      /\ refusedUrls' = refusedUrls \cup (Keys(asked) \ Keys(got))
      /\ shown' = shown \cup ({m} \X Keys(got))
      /\ extract' = [extract EXCEPT ![e] = NoExtract]
      /\ UNCHANGED <<stage, brief, reply, draft, handback, mignonRefs, runRefs, retriedUrls, halted,
                     first, issued, accepted>>
  BY DEF ExtractReturns, NotePages
<1>2. ResearchTyped /\ \A x \in Mignons : SourceInv(x)
  BY DEF ResearchInv
<1>3. m \in Mignons /\ asked \in SUBSET Urls
  BY <1>1, <1>2 DEF ResearchTyped
<1>4. new \in SUBSET Urls
  BY <1>3
<1>5. \A u \in new : <<m, KeyOf[u]>> \in shown'
  <2>1. \A u \in new : KeyOf[u] \in Keys(got)
    BY DEF Keys
  <2> HIDE DEF new
  <2> QED
    BY <1>1, <2>1
<1>6. Keys(asked) \subseteq Keys(Urls)
  BY <1>3 DEF Keys
<1> HIDE DEF m, asked, new
<1>7. /\ extract' \in [Extracts -> [by : Mignons \cup {"nobody"}, urls : SUBSET Urls]]
      /\ \A x \in Extracts : extract'[x] # NoExtract => extract'[x].by \in Mignons
  <2>1. NoExtract \in [by : Mignons \cup {"nobody"}, urls : SUBSET Urls]
    BY DEF NoExtract
  <2> QED
    BY <1>1, <1>2, <2>1 DEF ResearchTyped
<1>8. refusedUrls' \cup retriedUrls' \subseteq Keys(Urls)
  BY <1>1, <1>2, <1>6 DEF ResearchTyped
<1>9. /\ mignonUrls' \in [Mignons -> SUBSET Urls]
      /\ \A x \in Mignons : mignonUrls'[x] = mignonUrls[x] \cup IF x = m THEN new ELSE {}
  BY <1>1, <1>2, <1>4 DEF ResearchTyped
<1>10. \A x \in Mignons : /\ mignonUrls[x] \subseteq mignonUrls'[x]
                          /\ \A u \in mignonUrls'[x] : <<x, KeyOf[u]>> \in shown'
  BY <1>1, <1>2, <1>5, <1>9 DEF SourceInv
<1>11. shown \subseteq shown'
  BY <1>1
<1> QED
  BY <1>1, <1>7, <1>8, <1>9, <1>10, <1>11, ExtractKeeps

LEMMA ExtractEndsKeeps ==
  ASSUME ResearchInv, NEW e \in Extracts,
         ExtractFails(e) \/ \E later \in BOOLEAN : ExtractRejected(e, later)
  PROVE  ResearchInv'
<1>1. /\ extract[e] # NoExtract /\ extract' = [extract EXCEPT ![e] = NoExtract]
      /\ UNCHANGED <<stage, brief, reply, draft, handback, mignonRefs, mignonUrls, runRefs, halted,
                     first, issued, shown, accepted>>
  BY DEF ExtractFails, ExtractRejected
<1>2. ResearchTyped /\ \A x \in Mignons : SourceInv(x)
  BY DEF ResearchInv
<1>3. /\ extract' \in [Extracts -> [by : Mignons \cup {"nobody"}, urls : SUBSET Urls]]
      /\ \A x \in Extracts : extract'[x] # NoExtract => extract'[x].by \in Mignons
  <2>1. NoExtract \in [by : Mignons \cup {"nobody"}, urls : SUBSET Urls]
    BY DEF NoExtract
  <2> QED
    BY <1>1, <1>2, <2>1 DEF ResearchTyped
<1>4. Keys(extract[e].urls) \subseteq Keys(Urls)
  <2>1. extract[e].urls \in SUBSET Urls
    BY <1>2 DEF ResearchTyped
  <2> QED
    BY <2>1 DEF Keys
<1>5. refusedUrls' \cup retriedUrls' \subseteq Keys(Urls)
  BY <1>2, <1>4 DEF ResearchTyped, ExtractFails, ExtractRejected
<1>6. mignonUrls' \in [Mignons -> SUBSET Urls]
  BY <1>1, <1>2 DEF ResearchTyped
<1>7. \A x \in Mignons : /\ mignonUrls[x] \subseteq mignonUrls'[x]
                         /\ \A u \in mignonUrls'[x] : <<x, KeyOf[u]>> \in shown'
  BY <1>1, <1>2 DEF SourceInv
<1> QED
  BY <1>1, <1>3, <1>5, <1>6, <1>7, ExtractKeeps

\* Steps that change only where a Mignon is, when its report was not handed over.
LEMMA StageKeeps ==
  ASSUME ResearchInv, NEW m \in Mignons, NEW at \in Stages,
         stage[m] # "over", at # "none", stage' = [stage EXCEPT ![m] = at],
         at # "said", at = "ended" => draft[m].open \/ reply[m] = first[m],
         draft[m].open /\ draft[m].attempts = 0 => at \in {"ended", "over"},
         UNCHANGED <<brief, reply, draft, hookVars, extract, first, issued, shown, accepted>>,
         handback' = [x \in Mignons |-> handback'[x]],
         \A x \in Mignons \ {m} : handback'[x] = handback[x],
         handback'[m].kind \in {"none", "missing", "failed"}
  PROVE  ResearchInv'
<1>1. ResearchTyped /\ RunRefsInv /\ UNCHANGED <<mignonRefs, mignonUrls, runRefs, refusedUrls, retriedUrls>>
  BY DEF ResearchInv, hookVars
<1>2. \A x \in Mignons : stage'[x] = IF x = m THEN at ELSE stage[x]
  BY <1>1 DEF ResearchTyped
<1>3. ResearchTyped'
  BY <1>1 DEF ResearchTyped, NoExtract
<1>4. RunRefsInv'
  BY <1>1 DEF RunRefsInv, Orchestrator
<1>5. Onward
  BY <1>1, <1>2 DEF Onward
<1>6. ASSUME NEW x \in Mignons
      PROVE  ReplyInv(x)' /\ SourceInv(x)' /\ AcceptedInv(x)' /\ HandbackInv(x)'
  <2>1. ReplyInv(x) /\ SourceInv(x) /\ AcceptedInv(x) /\ HandbackInv(x)
    BY DEF ResearchInv
  <2>2. SourceInv(x)'
    BY <1>1, <2>1 DEF SourceInv
  <2>3. CASE x # m
    BY <1>2, <1>5, <2>1, <2>2, <2>3, PassedBy
  <2>4. CASE x = m
    <3>1. AcceptedInv(m)'
      BY <1>5, <2>1, <2>4, AcceptedKeeps
    <3>2. HandbackInv(m)'
      BY DEF HandbackInv
    <3>3. stage'[m] = at
      BY <1>2
    <3>4. ReplyInv(m)'
      BY <2>1, <2>4, <3>3 DEF ReplyInv, Replies, Prose, NoDraft
    <3> QED
      BY <2>2, <2>4, <3>1, <3>2, <3>4
  <2> QED
    BY <2>3, <2>4
<1> QED
  BY <1>3, <1>4, <1>6 DEF ResearchInv

\* No draft is one as well.
LEMMA NoDraftTyped == NoDraft \in Drafts /\ ~NoDraft.open
<1>1. 0 \in 0..MaxRepairs
  <2>1. MaxRepairs \in Nat
    BY ResearchAssumption
  <2> QED
    BY <2>1
<1>2. <<>> \in Seq(Nat) /\ <<>> \in Seq(FindingSays)
  OBVIOUS
<1> QED
  BY <1>1, <1>2 DEF NoDraft, Drafts

\* A review that raises leaves its Mignon the text it said last: a report only if it is the first.
LEMMA ReviewFailsKeeps ==
  ASSUME ResearchInv, NEW m \in Mignons, ReviewFails(m)
  PROVE  ResearchInv'
<1>1. /\ stage[m] = "said" /\ stage' = [stage EXCEPT ![m] = "ended"]
      /\ draft' = [draft EXCEPT ![m] = NoDraft] /\ accepted' = [accepted EXCEPT ![m] = {}]
      /\ UNCHANGED <<brief, reply, handback, mignonRefs, mignonUrls, runRefs, refusedUrls,
                     retriedUrls, extract, first, issued, shown>>
  BY DEF ReviewFails, hookVars
<1>2. ResearchTyped /\ RunRefsInv
  BY DEF ResearchInv
<1>3. \A x \in Mignons : /\ stage'[x] = IF x = m THEN "ended" ELSE stage[x]
                         /\ draft'[x] = IF x = m THEN NoDraft ELSE draft[x]
                         /\ accepted'[x] = IF x = m THEN {} ELSE accepted[x]
  BY <1>1, <1>2 DEF ResearchTyped
<1>4. ResearchTyped'
  <2>1. NoDraft \in Drafts
    BY NoDraftTyped
  <2>2. stage' \in [Mignons -> Stages]
    BY <1>1, <1>2 DEF ResearchTyped, Stages
  <2>3. draft' \in [Mignons -> Drafts] /\ accepted' \in [Mignons -> SUBSET FindingSays]
    BY <1>1, <1>2, <2>1 DEF ResearchTyped
  <2> QED
    BY <1>1, <1>2, <2>2, <2>3 DEF ResearchTyped, NoExtract
<1>5. RunRefsInv'
  BY <1>1, <1>2 DEF RunRefsInv, Orchestrator
<1>6. Onward
  BY <1>1, <1>3 DEF Onward
<1>7. ASSUME NEW x \in Mignons
      PROVE  ReplyInv(x)' /\ SourceInv(x)' /\ AcceptedInv(x)' /\ HandbackInv(x)'
  <2>1. ReplyInv(x) /\ SourceInv(x) /\ AcceptedInv(x) /\ HandbackInv(x)
    BY DEF ResearchInv
  <2>2. SourceInv(x)'
    BY <1>1, <2>1 DEF SourceInv
  <2>3. CASE x # m
    BY <1>1, <1>3, <1>6, <2>1, <2>2, <2>3, PassedBy
  <2>4. CASE x = m
    <3>1. AcceptedInv(m)'
      BY <1>3 DEF AcceptedInv
    <3>2. HandbackInv(m)'
      BY <1>1, <2>1, <2>4 DEF HandbackInv
    <3>3. stage'[m] = "ended" /\ draft'[m] = NoDraft /\ accepted'[m] = {} /\ ~NoDraft.open
      BY <1>3 DEF NoDraft
    <3>4. reply[m] = first[m] \/ reply[m].kind # "report"
      BY <1>1, <2>1, <2>4 DEF ReplyInv
    <3>5. /\ brief'[m] \in Briefs[m] /\ first'[m] \in Reports[m] \cup {Prose}
          /\ reply'[m] \in Replies(m)' /\ (reply'[m] = first'[m] \/ reply'[m].kind # "report")
      BY <1>1, <2>1, <2>4, <3>4 DEF ReplyInv, Replies, Prose
    <3>6. ReplyInv(m)'
      BY <3>3, <3>5 DEF ReplyInv, NoDraft
    <3> QED
      BY <2>2, <2>4, <3>1, <3>2, <3>6
  <2> QED
    BY <2>3, <2>4
<1> QED
  BY <1>4, <1>5, <1>7 DEF ResearchInv

LEMMA SpawnKeeps ==
  ASSUME ResearchInv, NEW m \in Mignons, Spawn(m)
  PROVE  ResearchInv'
<1>1. PICK b \in Briefs[m] : brief' = [brief EXCEPT ![m] = b]
  BY DEF Spawn
<1>2. /\ stage[m] = "none" /\ stage' = [stage EXCEPT ![m] = "working"]
      /\ UNCHANGED <<reply, draft, handback, mignonRefs, mignonUrls, runRefs, refusedUrls,
                     retriedUrls, extract, halted, first, issued, shown, accepted>>
  BY DEF Spawn, hookVars
<1>3. ResearchTyped /\ RunRefsInv
  BY DEF ResearchInv
<1>4. \A x \in Mignons : /\ stage'[x] = IF x = m THEN "working" ELSE stage[x]
                         /\ brief'[x] = IF x = m THEN b ELSE brief[x]
  BY <1>1, <1>2, <1>3 DEF ResearchTyped
<1>5. ResearchTyped'
  <2>1. b \in UNION {Briefs[x] : x \in Mignons}
    OBVIOUS
  <2>2. /\ stage' \in [Mignons -> Stages]
        /\ brief' \in [Mignons -> UNION {Briefs[x] : x \in Mignons}]
    BY <1>1, <1>2, <1>3, <2>1 DEF ResearchTyped, Stages
  <2> QED
    BY <1>2, <1>3, <2>2 DEF ResearchTyped, NoExtract
<1>6. RunRefsInv'
  BY <1>2, <1>3 DEF RunRefsInv, Orchestrator
<1>7. Onward
  BY <1>2, <1>4 DEF Onward
<1>8. ASSUME NEW x \in Mignons
      PROVE  ReplyInv(x)' /\ SourceInv(x)' /\ AcceptedInv(x)' /\ HandbackInv(x)'
  <2>1. ReplyInv(x) /\ SourceInv(x) /\ AcceptedInv(x) /\ HandbackInv(x)
    BY DEF ResearchInv
  <2>2. SourceInv(x)'
    BY <1>2, <2>1 DEF SourceInv
  <2>3. CASE x # m
    BY <1>2, <1>4, <1>7, <2>1, <2>2, <2>3, PassedBy
  <2>4. CASE x = m
    <3>1. AcceptedInv(m)'
      BY <1>2, <1>7, <2>1, <2>4, AcceptedKeeps
    <3>2. HandbackInv(m)'
      BY <1>2, <2>1, <2>4 DEF HandbackInv
    <3>3. stage'[m] = "working" /\ brief'[m] = b
      BY <1>4
    <3>4. ReplyInv(m)'
      BY <1>2, <2>1, <2>4, <3>3 DEF ReplyInv, Replies, Prose, NoDraft
    <3> QED
      BY <2>2, <2>4, <3>1, <3>2, <3>4
  <2> QED
    BY <2>3, <2>4
<1> QED
  BY <1>5, <1>6, <1>8 DEF ResearchInv

LEMMA SaysKeeps ==
  ASSUME ResearchInv, NEW m \in Mignons, NEW t, Says(m, t)
  PROVE  ResearchInv'
<1>1. /\ stage[m] = "working" /\ t \in IF draft[m].open THEN Patches[m] ELSE Reports[m]
      /\ stage' = [stage EXCEPT ![m] = "said"] /\ reply' = [reply EXCEPT ![m] = t]
      /\ first' = IF draft[m].open THEN first ELSE [first EXCEPT ![m] = t]
      /\ UNCHANGED <<brief, draft, handback, mignonRefs, mignonUrls, runRefs, refusedUrls,
                     retriedUrls, extract, halted, issued, shown, accepted>>
  BY DEF Says, hookVars
<1>2. ResearchTyped /\ RunRefsInv
  BY DEF ResearchInv
<1>3. /\ \A x \in Mignons : /\ stage'[x] = IF x = m THEN "said" ELSE stage[x]
                            /\ reply'[x] = IF x = m THEN t ELSE reply[x]
      /\ \A x \in Mignons \ {m} : first'[x] = first[x]
      /\ first'[m] = IF draft[m].open THEN first[m] ELSE t
  BY <1>1, <1>2 DEF ResearchTyped
<1>4. /\ t \in Replies(m) /\ (~draft[m].open => t \in Reports[m])
      /\ draft[m].open => t.kind # "report"
  <2>1. \A p \in Patches[m] : p = Prose \/ PatchSays(p)
    BY ResearchAssumption
  <2> QED
    BY <1>1, <2>1 DEF Replies, Prose, PatchSays
<1>5. ResearchTyped'
  <2>1. t \in UNION {Replies(x) : x \in Mignons}
    BY <1>4
  <2>2. /\ stage' \in [Mignons -> Stages]
        /\ reply' \in [Mignons -> UNION {Replies(x) : x \in Mignons}]
        /\ first' \in [Mignons -> UNION {Replies(x) : x \in Mignons}]
    BY <1>1, <1>2, <2>1 DEF ResearchTyped, Stages
  <2> QED
    BY <1>1, <1>2, <2>2 DEF ResearchTyped, NoExtract, Replies, Prose
<1>6. RunRefsInv'
  BY <1>1, <1>2 DEF RunRefsInv, Orchestrator
<1>7. Onward
  BY <1>1, <1>3 DEF Onward
<1>8. ASSUME NEW x \in Mignons
      PROVE  ReplyInv(x)' /\ SourceInv(x)' /\ AcceptedInv(x)' /\ HandbackInv(x)'
  <2>1. ReplyInv(x) /\ SourceInv(x) /\ AcceptedInv(x) /\ HandbackInv(x)
    BY DEF ResearchInv
  <2>2. SourceInv(x)'
    BY <1>1, <2>1 DEF SourceInv
  <2>3. CASE x # m
    BY <1>1, <1>3, <1>7, <2>1, <2>2, <2>3, PassedBy
  <2>4. CASE x = m
    <3>1. AcceptedInv(m)'
      BY <1>1, <1>7, <2>1, <2>4, AcceptedKeeps
    <3>2. HandbackInv(m)'
      BY <1>1, <2>1, <2>4 DEF HandbackInv
    <3>3. /\ stage'[m] = "said" /\ reply'[m] = t /\ draft'[m] = draft[m] /\ accepted'[m] = accepted[m]
          /\ first'[m] = IF draft[m].open THEN first[m] ELSE t
          /\ brief'[m] = brief[m]
      BY <1>1, <1>3
    <3>4. brief'[m] \in Briefs[m] /\ first'[m] \in Reports[m] \cup {Prose} /\ reply'[m] \in Replies(m)
      BY <1>4, <2>1, <2>4, <3>3 DEF ReplyInv
    <3>5. CASE draft[m].open
      <4>1. /\ ReportSays(first[m]) /\ DraftTrue(first[m].findings, draft[m])
            /\ \A f \in accepted[m] : \E i \in DOMAIN draft[m].findings : f = draft[m].findings[i]
            /\ draft[m].attempts # 0
        BY <1>1, <2>1, <2>4, <3>5 DEF ReplyInv
      <4>2. /\ ReportSays(first'[m]) /\ DraftTrue(first'[m].findings, draft'[m])
            /\ \A f \in accepted'[m] : \E i \in DOMAIN draft'[m].findings : f = draft'[m].findings[i]
            /\ draft'[m].attempts # 0 /\ draft'[m].open /\ reply'[m].kind # "report"
        BY <1>4, <3>3, <3>5, <4>1
      <4> QED
        BY <2>2, <2>4, <3>1, <3>2, <3>4, <4>2 DEF ReplyInv, Replies, Prose, NoDraft
    <3>6. CASE ~draft[m].open
      <4>1. draft'[m] = NoDraft /\ ~draft'[m].open /\ reply'[m] = first'[m] /\ accepted'[m] = {}
        BY <1>1, <2>1, <2>4, <3>3, <3>6 DEF ReplyInv
      <4> QED
        BY <2>2, <2>4, <3>1, <3>2, <3>4, <4>1 DEF ReplyInv, Replies, Prose, NoDraft
    <3> QED
      BY <3>5, <3>6
  <2> QED
    BY <2>3, <2>4
<1> QED
  BY <1>5, <1>6, <1>8 DEF ResearchInv

\* What a Mignon said was a report or a patch.
LEMMA SaidIs ==
  ASSUME NEW m \in Mignons
  PROVE  /\ \A r \in Reports[m] \cup {Prose} : r.kind = "report" \/ r # Prose => ReportSays(r)
         /\ \A r \in Replies(m) : r.kind = "patch" => PatchSays(r)
<1>1. /\ \A r \in Reports[m] : r = Prose \/ ReportSays(r)
      /\ \A p \in Patches[m] : p = Prose \/ PatchSays(p)
  BY ResearchAssumption
<1>2. Prose.kind = "prose"
  BY DEF Prose
<1>3. ASSUME NEW r \in Reports[m] \cup {Prose}, r.kind = "report" \/ r # Prose PROVE ReportSays(r)
  <2>1. r # Prose
    BY <1>2, <1>3
  <2> QED
    BY <1>1, <1>3, <2>1
<1>4. ASSUME NEW r \in Replies(m), r.kind = "patch" PROVE PatchSays(r)
  <2>1. r # Prose
    BY <1>2, <1>4
  <2>2. ~ReportSays(r)
    BY <1>4 DEF ReportSays
  <2>3. r \in Patches[m]
    BY <1>1, <1>4, <2>1, <2>2 DEF Replies
  <2> QED
    BY <1>1, <2>1, <2>3
<1> QED
  BY <1>3, <1>4

\* The draft after a reply is merged into it: of the report first sent, and a draft.
LEMMA MergedTrue ==
  ASSUME ResearchInv, NEW m \in Mignons, stage[m] = "said", draft[m].open \/ reply[m] # Prose
  PROVE  /\ ReportSays(first[m]) /\ Merged(m) \in Drafts /\ DraftTrue(first[m].findings, Merged(m))
         /\ Merged(m).open /\ Merged(m).whole \in BOOLEAN
         /\ draft[m].attempts = 0 => Merged(m) = Original(first[m]) /\ reply[m] = first[m]
<1>1. ReplyInv(m) /\ draft[m] \in Drafts
  BY DEF ResearchInv, ResearchTyped
<1>2. CASE ~draft[m].open
  <2>1. reply[m] = first[m] /\ draft[m] = NoDraft /\ first[m] \in Reports[m] \cup {Prose}
    BY <1>1, <1>2 DEF ReplyInv
  <2>2. ReportSays(first[m])
    BY <1>2, <2>1, SaidIs
  <2>3. Merged(m) = Original(first[m])
    BY <1>2, <2>1 DEF Merged
  <2>4. Merged(m) \in Drafts /\ DraftTrue(first[m].findings, Merged(m)) /\ Merged(m).open
    BY <2>2, <2>3, OriginalTrue
  <2>5. Merged(m).whole \in BOOLEAN
    BY <2>4 DEF Drafts
  <2> QED
    BY <2>1, <2>2, <2>3, <2>4, <2>5
<1>3. CASE draft[m].open
  <2>1. /\ ReportSays(first[m]) /\ DraftTrue(first[m].findings, draft[m])
        /\ draft[m].attempts # 0 /\ reply[m] \in Replies(m)
    BY <1>1, <1>3 DEF ReplyInv
  <2>2. first[m].findings \in Seq(FindingSays)
    BY <2>1 DEF ReportSays
  <2>3. CASE PatchFits(draft[m], reply[m])
    <3>1. PatchSays(reply[m])
      BY <2>1, <2>3, SaidIs DEF PatchFits
    <3>2. Merged(m) = ApplyPatch(draft[m], reply[m])
      BY <1>3, <2>3 DEF Merged
    <3>3. /\ Merged(m) \in Drafts /\ DraftTrue(first[m].findings, Merged(m))
          /\ Merged(m).open = draft[m].open /\ Merged(m).whole = draft[m].whole
      BY <1>1, <2>1, <2>2, <2>3, <3>1, <3>2, ApplyKeeps
    <3>4. Merged(m).whole \in BOOLEAN
      BY <3>3 DEF Drafts
    <3> QED
      BY <1>3, <2>1, <3>3, <3>4
  <2>4. CASE ~PatchFits(draft[m], reply[m])
    <3>1. Merged(m) = draft[m]
      BY <1>3, <2>4 DEF Merged
    <3>2. Merged(m).whole \in BOOLEAN
      BY <1>1, <3>1 DEF Drafts
    <3> QED
      BY <1>1, <1>3, <2>1, <3>1, <3>2
  <2> QED
    BY <2>3, <2>4
<1> QED
  BY <1>2, <1>3

LEMMA ReviewKeeps ==
  ASSUME ResearchInv, NEW m \in Mignons, ReviewDraft(m)
  PROVE  ResearchInv'
<1> DEFINE d == Merged(m)
           asks == AsksToPatch(m, d)
           tries == draft[m].attempts + IF asks THEN 1 ELSE 0
           d2 == [d EXCEPT !.attempts = tries]
           holding == {d.findings[i] : i \in Holding(m, d)}
           at == IF asks THEN "working" ELSE "ended"
<1>1. /\ stage[m] = "said" /\ (draft[m].open \/ reply[m] # Prose)
      /\ draft' = [draft EXCEPT ![m] = d2]
      /\ stage' = [stage EXCEPT ![m] = at]
      /\ accepted' = [accepted EXCEPT ![m] = holding]
      /\ UNCHANGED <<brief, reply, handback, mignonRefs, mignonUrls, runRefs, refusedUrls,
                     retriedUrls, extract, halted, first, issued, shown>>
  BY DEF ReviewDraft, hookVars
<1>2. ResearchTyped /\ RunRefsInv /\ ReplyInv(m)
  BY DEF ResearchInv
<1>3. /\ ReportSays(first[m]) /\ d \in Drafts /\ DraftTrue(first[m].findings, d)
      /\ d.open /\ d.whole \in BOOLEAN
      /\ draft[m].attempts = 0 => d = Original(first[m]) /\ reply[m] = first[m]
  BY <1>1, MergedTrue
<1>4. asks => draft[m].attempts < MaxRepairs
  BY DEF AsksToPatch
<1>5. Holding(m, d) \subseteq DOMAIN d.findings
      /\ \A i \in Holding(m, d) :
           FindingHolds(d.findings[i], KnownAtReview(m, d.findings), mignonUrls[m])
  BY DEF Holding
<1>6. at \in {"working", "ended"} /\ (asks => at = "working") /\ (~asks => at = "ended")
  OBVIOUS
<1>7. tries \in 0..MaxRepairs /\ (asks => tries # 0) /\ (~asks => tries = draft[m].attempts)
  <2>1. draft[m] \in Drafts
    BY <1>2 DEF ResearchTyped
  <2>2. draft[m].attempts \in 0..MaxRepairs
    BY <2>1 DEF Drafts
  <2>3. MaxRepairs \in Nat
    BY ResearchAssumption
  <2> HIDE DEF asks
  <2> QED
    BY <1>4, <2>2, <2>3
<1>8. \A f \in holding : \E i \in DOMAIN d.findings :
        f = d.findings[i] /\ FindingHolds(f, KnownAtReview(m, d.findings), mignonUrls[m])
  BY <1>5
<1> HIDE DEF d, asks, tries, at, holding
<1>9. /\ d2 \in Drafts /\ d2.open /\ d2.attempts = tries /\ d2.findings = d.findings
      /\ d2.origins = d.origins /\ d2.dropped = d.dropped /\ d2.patched = d.patched
      /\ d2.whole = d.whole
  BY <1>3, <1>7 DEF Drafts
<1>10. DraftTrue(first[m].findings, d2)
  BY <1>3, <1>9 DEF DraftTrue
<1>11. holding \in SUBSET FindingSays
  <2>1. d.findings \in Seq(FindingSays)
    BY <1>3 DEF Drafts
  <2>2. \A i \in DOMAIN d.findings : d.findings[i] \in FindingSays
    BY <2>1
  <2> QED
    BY <1>8, <2>2
<1>12. tries = 0 => d2 = Original(first[m]) /\ reply[m] = first[m] /\ at = "ended"
  <2>1. ASSUME tries = 0 PROVE d2 = Original(first[m]) /\ reply[m] = first[m] /\ at = "ended"
    <3>1. ~asks /\ draft[m].attempts = 0
      BY <1>7, <2>1
    <3>2. d = Original(first[m]) /\ Original(first[m]).attempts = 0
      BY <1>3, <3>1, OriginalTrue
    <3>3. d2 = d
      BY <1>3, <2>1, <3>2 DEF Drafts
    <3> QED
      BY <1>3, <1>6, <3>1, <3>2, <3>3
  <2> QED
    BY <2>1
<1> HIDE DEF d2
<1>13. \A x \in Mignons : /\ stage'[x] = IF x = m THEN at ELSE stage[x]
                          /\ draft'[x] = IF x = m THEN d2 ELSE draft[x]
                          /\ accepted'[x] = IF x = m THEN holding ELSE accepted[x]
  BY <1>1, <1>2 DEF ResearchTyped
<1>14. ResearchTyped'
  <2>1. /\ stage' \in [Mignons -> Stages] /\ draft' \in [Mignons -> Drafts]
        /\ accepted' \in [Mignons -> SUBSET FindingSays]
    BY <1>1, <1>2, <1>6, <1>9, <1>11 DEF ResearchTyped, Stages
  <2> QED
    BY <1>1, <1>2, <2>1 DEF ResearchTyped, NoExtract
<1>15. RunRefsInv'
  BY <1>1, <1>2 DEF RunRefsInv, Orchestrator
<1>16. Onward
  BY <1>1, <1>6, <1>13 DEF Onward
<1>17. ASSUME NEW x \in Mignons
       PROVE  ReplyInv(x)' /\ SourceInv(x)' /\ AcceptedInv(x)' /\ HandbackInv(x)'
  <2>1. ReplyInv(x) /\ SourceInv(x) /\ AcceptedInv(x) /\ HandbackInv(x)
    BY DEF ResearchInv
  <2>2. SourceInv(x)'
    BY <1>1, <2>1 DEF SourceInv
  <2>3. CASE x # m
    BY <1>1, <1>13, <1>16, <2>1, <2>2, <2>3, PassedBy
  <2>4. CASE x = m
    <3>1. AcceptedInv(m)'
      <4> SUFFICES ASSUME NEW f \in holding
                   PROVE  /\ WellFormed(f) /\ f.urls \subseteq mignonUrls'[m]
                          /\ \A r \in f.refs :
                               \/ r \in mignonRefs'[m]
                               \/ /\ r \in runRefs'
                                  /\ \E y \in Mignons : stage'[y] # "none" /\ r \in brief'[y].refs
        BY <1>13 DEF AcceptedInv, WellFormed
      <4>1. FindingHolds(f, KnownAtReview(m, d.findings), mignonUrls[m])
        BY <1>8
      <4>2. /\ WellFormed(f) /\ f.urls \subseteq mignonUrls[m]
            /\ f.refs \subseteq KnownAtReview(m, d.findings)
        BY <4>1 DEF FindingHolds, Supported
      <4>3. ASSUME NEW r \in f.refs, r \notin mignonRefs'[m]
            PROVE  r \in runRefs' /\ \E y \in Mignons : stage'[y] # "none" /\ r \in brief'[y].refs
        <5>1. r \in Handed(d.findings, ActivePrompts)
          BY <1>1, <4>2, <4>3 DEF KnownAtReview
        <5>2. r \in runRefs /\ \E b \in ActivePrompts : r \in b.refs
          BY <5>1 DEF Handed
        <5>3. PICK y \in Mignons : Running(y) /\ r \in brief[y].refs
          BY <5>2 DEF ActivePrompts
        <5>4. stage[y] # "none"
          BY <5>3 DEF Running
        <5>5. stage'[y] # "none"
          BY <1>16, <5>4 DEF Onward
        <5> QED
          BY <1>1, <5>2, <5>3, <5>5
      <4> QED
        BY <1>1, <4>2, <4>3
    <3>2. HandbackInv(m)'
      <4>1. handback'[m].kind \in {"none", "missing", "failed"}
        BY <1>1, <2>1, <2>4 DEF HandbackInv
      <4> QED
        BY <4>1 DEF HandbackInv
    <3>3. /\ stage'[m] = at /\ draft'[m] = d2 /\ accepted'[m] = holding /\ first'[m] = first[m]
          /\ reply'[m] = reply[m] /\ brief'[m] = brief[m]
      BY <1>1, <1>13
    <3>4. /\ brief'[m] \in Briefs[m] /\ first'[m] \in Reports[m] \cup {Prose}
          /\ reply'[m] \in Replies(m)
      BY <1>2, <3>3 DEF ReplyInv
    <3>5. /\ draft'[m].open /\ ReportSays(first'[m]) /\ DraftTrue(first'[m].findings, draft'[m])
          /\ \A f \in accepted'[m] : \E i \in DOMAIN draft'[m].findings : f = draft'[m].findings[i]
          /\ stage'[m] # "said"
      BY <1>3, <1>6, <1>8, <1>9, <1>10, <3>3
    <3>6. draft'[m].attempts = 0 =>
            stage'[m] \in {"ended", "over"} /\ reply'[m] = first'[m] /\ draft'[m] = Original(first'[m])
      BY <1>9, <1>12, <3>3
    <3>7. ReplyInv(m)'
      BY <3>4, <3>5, <3>6 DEF ReplyInv, Replies, Prose, NoDraft
    <3> QED
      BY <2>2, <2>4, <3>1, <3>2, <3>7
  <2> QED
    BY <2>3, <2>4
<1> QED
  BY <1>14, <1>15, <1>17 DEF ResearchInv

\* The final report: the draft that was repaired, or else what was first sent.
LEMMA FinalTrue ==
  ASSUME ResearchInv, NEW m \in Mignons, stage[m] = "ended", Final(m).whole
  PROVE  /\ ReportSays(first[m]) /\ Final(m) \in Drafts
         /\ DraftTrue(first[m].findings, Final(m))
         /\ \A f \in accepted[m] : \E i \in DOMAIN Final(m).findings : f = Final(m).findings[i]
         /\ Final(m).attempts = 0 => Final(m) = Original(first[m])
<1>1. ReplyInv(m) /\ draft[m] \in Drafts
  BY DEF ResearchInv, ResearchTyped
<1>2. ~NoDraft.whole
  BY DEF NoDraft
<1>3. CASE draft[m].open /\ draft[m].attempts > 0
  <2>1. Final(m) = draft[m] /\ draft[m].attempts # 0
    BY <1>1, <1>3 DEF Final, Drafts
  <2> QED
    BY <1>1, <1>3, <2>1 DEF ReplyInv
<1>4. CASE ~(draft[m].open /\ draft[m].attempts > 0)
  <2>1. reply[m].kind = "report" /\ Final(m) = Original(reply[m])
    BY <1>2, <1>4 DEF Final
  <2>2. draft[m].open => draft[m].attempts = 0
    <3>1. draft[m].attempts \in 0..MaxRepairs /\ MaxRepairs \in Nat
      BY <1>1, ResearchAssumption DEF Drafts
    <3> QED
      BY <1>4, <3>1
  <2>3. reply[m] = first[m] /\ first[m] \in Reports[m] \cup {Prose}
    <3>1. CASE draft[m].open
      BY <1>1, <2>2, <3>1 DEF ReplyInv
    <3>2. CASE ~draft[m].open
      BY <1>1, <2>1, <3>2 DEF ReplyInv
    <3> QED
      BY <3>1, <3>2
  <2>4. ReportSays(first[m])
    BY <2>1, <2>3, SaidIs
  <2>5. /\ Original(first[m]) \in Drafts /\ DraftTrue(first[m].findings, Original(first[m]))
        /\ Original(first[m]).findings = first[m].findings
    BY <2>4, OriginalTrue
  <2>6. \A f \in accepted[m] : \E i \in DOMAIN Final(m).findings : f = Final(m).findings[i]
    <3>1. CASE draft[m].open
      <4>1. draft[m] = Original(first[m])
            /\ \A f \in accepted[m] : \E i \in DOMAIN draft[m].findings : f = draft[m].findings[i]
        BY <1>1, <2>2, <3>1 DEF ReplyInv
      <4> QED
        BY <2>1, <2>3, <4>1
    <3>2. CASE ~draft[m].open
      <4>1. accepted[m] = {}
        BY <1>1, <3>2 DEF ReplyInv
      <4> QED
        BY <4>1
    <3> QED
      BY <3>1, <3>2
  <2> QED
    BY <2>1, <2>3, <2>4, <2>5, <2>6
<1> QED
  BY <1>3, <1>4

\* What is handed over of a final report accounts for every finding it began with.
LEMMA HandBackCounts ==
  ASSUME NEW r, ReportSays(r), NEW d \in Drafts, DraftTrue(r.findings, d),
         d.attempts = 0 => d = Original(r), NEW refs, NEW urls, NEW gaps
  PROVE  LET kept == Salvage(d, refs, urls) IN
         Counted([kind |-> "report", findings |-> kept.findings, dropped |-> kept.dropped,
                  repair |-> IF d.attempts > 0
                             THEN [origins |-> kept.origins, patched |-> d.patched, dropped |-> d.dropped]
                             ELSE Unsent,
                  gaps |-> gaps], r.findings)
<1> DEFINE kept == Salvage(d, refs, urls)
           repair == IF d.attempts > 0
                     THEN [origins |-> kept.origins, patched |-> d.patched, dropped |-> d.dropped]
                     ELSE Unsent
           h == [kind |-> "report", findings |-> kept.findings, dropped |-> kept.dropped,
                 repair |-> repair, gaps |-> gaps]
           K == {i \in DOMAIN d.findings : FindingHolds(d.findings[i], refs, urls)}
           n == Len(r.findings)
<1>1. r.findings \in Seq(FindingSays) /\ n \in Nat /\ DOMAIN r.findings = 1..n
  <2>1. r.findings \in Seq(FindingSays)
    BY DEF ReportSays
  <2> QED
    BY <2>1
<1>2. /\ kept.findings \in Seq(FindingSays) /\ DOMAIN kept.origins = DOMAIN kept.findings
      /\ \A j \in DOMAIN kept.findings :
           /\ kept.findings[j].id = kept.origins[j]
           /\ \E i \in DOMAIN d.findings :
                kept.findings[j] = d.findings[i] /\ kept.origins[j] = d.origins[i]
      /\ Range(kept.origins) \cup kept.dropped = Range(d.origins)
      /\ Range(kept.origins) \cap kept.dropped = {}
      /\ kept.origins = At(d.origins, InOrder(K))
  <2>1. kept.origins = At(d.origins, InOrder(K))
    BY DEF Salvage
  <2> HIDE DEF K
  <2> QED
    BY <1>1, <2>1, SalvageKeeps
<1>3. /\ DOMAIN d.origins = DOMAIN d.findings
      /\ Range(d.origins) \cup d.dropped = 1..n /\ Range(d.origins) \cap d.dropped = {}
      /\ \A i \in DOMAIN d.findings :
           d.origins[i] \notin d.patched => d.findings[i] = r.findings[d.origins[i]]
  BY DEF DraftTrue
<1>4. d.attempts \in Nat /\ d.origins \in Seq(Nat)
  BY DEF Drafts
<1>5. /\ h.findings = kept.findings /\ h.dropped = kept.dropped /\ h.repair = repair
  OBVIOUS
<1>6. K \subseteq DOMAIN d.findings
  OBVIOUS
<1> HIDE DEF kept, K, n
<1>7. ASSUME d.attempts > 0
      PROVE  /\ repair # Unsent /\ repair.patched = d.patched
             /\ ToldDropped(h) = kept.dropped \cup d.dropped
             /\ \A i \in DOMAIN h.findings : ToldOrigin(h, n, i) = kept.origins[i]
  <2>1. repair = [origins |-> kept.origins, patched |-> d.patched, dropped |-> d.dropped]
    BY <1>7
  <2>2. repair # Unsent
    <3>1. "kind" \notin DOMAIN repair /\ "kind" \in DOMAIN Unsent
      BY <2>1 DEF Unsent
    <3> QED
      BY <3>1
  <2>3. repair.patched = d.patched /\ repair.dropped = d.dropped /\ repair.origins = kept.origins
    BY <2>1
  <2> HIDE DEF repair, h
  <2> QED
    BY <1>5, <2>2, <2>3 DEF ToldDropped, ToldOrigin
<1>8. ASSUME ~(d.attempts > 0)
      PROVE  /\ repair = Unsent /\ d.patched = {} /\ d.dropped = {}
             /\ ToldDropped(h) = kept.dropped \cup d.dropped
             /\ \A i \in DOMAIN h.findings : ToldOrigin(h, n, i) = kept.origins[i]
  <2>1. repair = Unsent
    BY <1>8
  <2>2. d = Original(r)
    BY <1>4, <1>8
  <2>3. /\ d.patched = {} /\ d.dropped = {} /\ d.findings = r.findings
        /\ d.origins = [i \in DOMAIN r.findings |-> i]
    BY <2>2, OriginalTrue
  <2>4. \A i \in 1..n : d.origins[i] = i
    BY <1>1, <2>3
  <2>5. K \in SUBSET DOMAIN d.origins /\ K \in SUBSET (1..n)
    BY <1>1, <1>3, <1>6, <2>3
  <2>6. /\ DOMAIN At(d.origins, InOrder(K)) = 1..Cardinality(K)
        /\ \A j \in 1..Cardinality(K) :
             InOrder(K)[j] \in K /\ At(d.origins, InOrder(K))[j] = d.origins[InOrder(K)[j]]
        /\ \A i \in K : \E j \in 1..Cardinality(K) : InOrder(K)[j] = i
    BY <1>4, <2>5, KeptPlaces
  <2>7. \A j \in DOMAIN kept.origins : kept.origins[j] = InOrder(K)[j]
    BY <1>2, <2>4, <2>5, <2>6
  <2>8. Range(kept.origins) = K
    <3>1. DOMAIN kept.origins = 1..Cardinality(K)
      BY <1>2, <2>6
    <3> QED
      BY <2>6, <2>7, <3>1 DEF Range
  <2>9. Range(d.origins) = 1..n
    BY <1>3, <2>3
  <2>10. (1..n) \ kept.dropped = K
    BY <1>2, <2>8, <2>9
  <2> HIDE DEF repair, h
  <2>11. \A i \in DOMAIN h.findings : ToldOrigin(h, n, i) = kept.origins[i]
    <3> SUFFICES ASSUME NEW i \in DOMAIN h.findings PROVE ToldOrigin(h, n, i) = kept.origins[i]
      OBVIOUS
    <3>1. ToldOrigin(h, n, i) = InOrder((1..n) \ h.dropped)[i]
      BY <1>5, <2>1 DEF ToldOrigin
    <3>2. i \in DOMAIN kept.origins /\ h.dropped = kept.dropped
      BY <1>2, <1>5
    <3> QED
      BY <2>7, <2>10, <3>1, <3>2
  <2>12. ToldDropped(h) = kept.dropped \cup d.dropped
    BY <1>5, <2>1, <2>3 DEF ToldDropped
  <2> QED
    BY <2>1, <2>3, <2>11, <2>12
<1>9. /\ ToldDropped(h) = kept.dropped \cup d.dropped
      /\ \A i \in DOMAIN h.findings : ToldOrigin(h, n, i) = kept.origins[i]
      /\ repair = Unsent => d.patched = {}
      /\ repair # Unsent => repair.patched = d.patched
  BY <1>7, <1>8
<1> DEFINE told == [i \in DOMAIN h.findings |-> ToldOrigin(h, n, i)]
<1> HIDE DEF repair, h
<1>10. DOMAIN told = DOMAIN kept.origins /\ \A i \in DOMAIN told : told[i] = kept.origins[i]
  BY <1>2, <1>5, <1>9
<1>11. DOMAIN told = DOMAIN h.findings
  OBVIOUS
<1> HIDE DEF told
<1>12. Range(told) = Range(kept.origins)
  BY <1>10 DEF Range
<1>13. Range(told) \cup ToldDropped(h) = 1..n /\ Range(told) \cap ToldDropped(h) = {}
  BY <1>2, <1>3, <1>9, <1>12
<1>14. ASSUME NEW i \in DOMAIN told
       PROVE  /\ h.findings[i].id = told[i]
              /\ (h.repair = Unsent \/ told[i] \notin h.repair.patched) => h.findings[i] = r.findings[told[i]]
  <2>1. i \in DOMAIN kept.findings /\ told[i] = kept.origins[i] /\ h.findings[i] = kept.findings[i]
    BY <1>2, <1>5, <1>10
  <2>2. PICK k \in DOMAIN d.findings : kept.findings[i] = d.findings[k] /\ kept.origins[i] = d.origins[k]
    BY <1>2, <2>1
  <2>3. (h.repair = Unsent \/ told[i] \notin h.repair.patched) => d.origins[k] \notin d.patched
    BY <1>5, <1>9, <2>1, <2>2
  <2> QED
    BY <1>2, <1>3, <2>1, <2>2, <2>3
<1>15. Counted(h, r.findings)
  <2>1. Range(told) \cup ToldDropped(h) = 1..Len(r.findings) /\ Range(told) \cap ToldDropped(h) = {}
    BY <1>13 DEF n
  <2> QED
    BY <1>14, <2>1 DEF Counted, told, n
<1> QED
  BY <1>15 DEF h, kept, repair

\* The gaps of a report: no finding that is handed over fills them.
LEMMA GapsAreTrue ==
  ASSUME NEW m \in Mignons, NEW b \in Briefs[m], NEW h, h.gaps = CoverageGaps(b, h.findings)
  PROVE  Gapped(h, b)
<1> DEFINE fs == h.findings
           reported == {fs[i].subject : i \in DOMAIN fs} \ {"none"}
           answers(s) == {i \in DOMAIN fs : fs[i].subject = s}
           values(s) == UNION {fs[i].values : i \in answers(s)}
           unmet == {<<s, "not reported">> : s \in b.subjects \ reported}
           missing == {gap \in reported \X b.wants : gap[2] \notin values(gap[1])}
<1>1. h.gaps = unmet \cup missing
  BY DEF CoverageGaps
<1>2. "none" \notin b.subjects /\ "not reported" \notin b.wants
  <2>1. b.wants \subseteq Wants /\ "none" \notin b.subjects /\ "not reported" \notin Wants
    BY ResearchAssumption
  <2> QED
    BY <2>1
<1>3. ASSUME NEW s \in b.subjects PROVE s \in reported <=> answers(s) # {}
  BY <1>2
<1>4. \A s, w : w \notin values(s) <=> \A i \in answers(s) : w \notin fs[i].values
  OBVIOUS
<1>5. \A s : <<s, "not reported">> \in unmet <=> s \in b.subjects /\ s \notin reported
  OBVIOUS
<1>6. \A s, w : <<s, w>> \in unmet => w = "not reported"
  OBVIOUS
<1>7. \A s, w : <<s, w>> \in missing <=> s \in reported /\ w \in b.wants /\ w \notin values(s)
  OBVIOUS
<1> HIDE DEF unmet, missing, reported, values
<1>8. ASSUME NEW s \in b.subjects PROVE <<s, "not reported">> \in h.gaps <=> answers(s) = {}
  BY <1>1, <1>2, <1>3, <1>5, <1>7
<1>9. ASSUME NEW s \in b.subjects, NEW w \in b.wants
      PROVE  <<s, w>> \in h.gaps
               <=> answers(s) # {} /\ \A i \in answers(s) : w \notin fs[i].values
  <2>1. <<s, w>> \notin unmet
    BY <1>2, <1>6
  <2> HIDE DEF answers, fs
  <2> QED
    BY <1>1, <1>3, <1>4, <1>7, <2>1
<1> QED
  BY <1>8, <1>9 DEF Gapped

\* What is handed back of a Mignon's research is sound.
LEMMA HandBackSound ==
  ASSUME ResearchInv, NEW m \in Mignons, stage[m] = "ended", Final(m).whole
  PROVE  LET h == HandBack(m, Final(m)) IN
         /\ h.kind = "report" /\ Counted(h, first[m].findings) /\ Gapped(h, brief[m])
         /\ \A i \in DOMAIN h.findings : Sourced(m, h.findings[i])
         /\ \A f \in accepted[m] : f.id \in ToldDropped(h)
              => \E x \in Mignons \ {m} :
                   stage[x] # "none" /\ (f.refs \cap brief[x].refs) \ brief[m].refs # {}
<1> DEFINE d == Final(m)
           known == mignonRefs[m] \cup Handed(d.findings, {brief[m]})
           kept == Salvage(d, known, mignonUrls[m])
           repair == IF d.attempts > 0
                     THEN [origins |-> kept.origins, patched |-> d.patched, dropped |-> d.dropped]
                     ELSE Unsent
           h == [kind |-> "report", findings |-> kept.findings, dropped |-> kept.dropped,
                 repair |-> repair, gaps |-> CoverageGaps(brief[m], kept.findings)]
<1>1. HandBack(m, d) = h
  BY DEF HandBack
<1>2. /\ ReportSays(first[m]) /\ d \in Drafts /\ DraftTrue(first[m].findings, d)
      /\ \A f \in accepted[m] : \E i \in DOMAIN d.findings : f = d.findings[i]
      /\ d.attempts = 0 => d = Original(first[m])
  BY FinalTrue
<1>3. SourceInv(m) /\ RunRefsInv /\ AcceptedInv(m) /\ brief[m] \in Briefs[m]
  BY DEF ResearchInv, ReplyInv
<1>4. first[m].findings \in Seq(FindingSays)
  BY <1>2 DEF ReportSays
<1> HIDE DEF d
<1>5. Counted(h, first[m].findings)
  BY <1>2, HandBackCounts
<1>6. h.kind = "report" /\ h.findings = kept.findings /\ h.gaps = CoverageGaps(brief[m], h.findings)
  OBVIOUS
<1>7. Gapped(h, brief[m])
  <2> HIDE DEF h
  <2> QED
    BY <1>3, <1>6, GapsAreTrue
<1>8. ToldDropped(h) = kept.dropped \cup d.dropped
  <2>1. h.dropped = kept.dropped /\ h.repair = repair
    OBVIOUS
  <2>2. CASE d.attempts > 0
    <3>1. repair = [origins |-> kept.origins, patched |-> d.patched, dropped |-> d.dropped]
      BY <2>2
    <3>2. "kind" \notin DOMAIN repair /\ "kind" \in DOMAIN Unsent
      BY <3>1 DEF Unsent
    <3>3. repair # Unsent
      BY <3>2
    <3>4. repair.dropped = d.dropped
      BY <3>1
    <3> HIDE DEF repair, h
    <3> QED
      BY <2>1, <3>3, <3>4 DEF ToldDropped
  <2>3. CASE ~(d.attempts > 0)
    <3>1. repair = Unsent
      BY <2>3
    <3>2. d.attempts = 0
      <4>1. d.attempts \in Nat
        BY <1>2 DEF Drafts
      <4> QED
        BY <2>3, <4>1
    <3>3. d.dropped = {}
      BY <1>2, <3>2, OriginalTrue
    <3> HIDE DEF repair, h
    <3> QED
      BY <2>1, <3>1, <3>3 DEF ToldDropped
  <2> QED
    BY <2>2, <2>3
<1>9. \A r \in Handed(d.findings, {brief[m]}) : r \in runRefs /\ r \in brief[m].refs
  BY DEF Handed
<1>10. \A r \in runRefs : \A i \in DOMAIN d.findings :
         r \in d.findings[i].refs /\ r \in brief[m].refs => r \in Handed(d.findings, {brief[m]})
  BY DEF Handed
<1> HIDE DEF kept, h, known
<1>11. /\ kept.findings \in Seq(FindingSays)
       /\ \A j \in DOMAIN kept.findings : FindingHolds(kept.findings[j], known, mignonUrls[m])
       /\ Range(kept.origins) \cup kept.dropped = Range(d.origins)
       /\ Range(kept.origins) \cap kept.dropped = {}
       /\ \A i \in DOMAIN d.findings :
            FindingHolds(d.findings[i], known, mignonUrls[m]) => d.findings[i].id \notin kept.dropped
  BY <1>2, <1>4, SalvageKeeps DEF kept
<1>12. ASSUME NEW j \in DOMAIN kept.findings, NEW f, f = kept.findings[j] PROVE Sourced(m, f)
  <2>1. WellFormed(f) /\ f.refs \subseteq known /\ f.urls \subseteq mignonUrls[m]
    BY <1>11, <1>12 DEF FindingHolds, Supported
  <2>2. \A u \in f.urls : <<m, KeyOf[u]>> \in shown
    BY <1>3, <2>1 DEF SourceInv
  <2>3. \A r \in f.refs :
          <<m, r>> \in issued
          \/ (r \in brief[m].refs /\ \E c \in Mignons \cup {Orchestrator} : <<c, r>> \in issued)
    BY <1>3, <1>9, <2>1 DEF SourceInv, RunRefsInv, known
  <2> QED
    BY <2>1, <2>2, <2>3 DEF Sourced
<1>13. ASSUME NEW f \in accepted[m], f.id \in ToldDropped(h)
       PROVE  \E x \in Mignons \ {m} :
                stage[x] # "none" /\ (f.refs \cap brief[x].refs) \ brief[m].refs # {}
  <2>1. PICK i \in DOMAIN d.findings : f = d.findings[i]
    BY <1>2
  <2>2. d.findings[i].id = d.origins[i] /\ i \in DOMAIN d.origins
        /\ Range(d.origins) \cap d.dropped = {}
    BY <1>2 DEF DraftTrue
  <2>3. d.origins[i] \in Range(d.origins)
    BY <2>2 DEF Range
  <2>4. f.id \in kept.dropped
    BY <1>8, <1>13, <2>1, <2>2, <2>3
  <2>5. ~FindingHolds(f, known, mignonUrls[m])
    BY <1>11, <2>1, <2>4
  <2>6. /\ WellFormed(f) /\ f.urls \subseteq mignonUrls[m]
        /\ \A r \in f.refs :
             \/ r \in mignonRefs[m]
             \/ r \in runRefs /\ \E x \in Mignons : stage[x] # "none" /\ r \in brief[x].refs
    BY <1>3 DEF AcceptedInv
  <2>7. PICK r \in f.refs : r \notin known
    BY <2>5, <2>6 DEF FindingHolds, Supported
  <2>8. r \notin mignonRefs[m] /\ r \notin Handed(d.findings, {brief[m]})
    BY <2>7 DEF known
  <2>9. PICK x \in Mignons : r \in runRefs /\ stage[x] # "none" /\ r \in brief[x].refs
    BY <2>6, <2>8
  <2>10. r \notin brief[m].refs
    BY <1>10, <2>1, <2>8, <2>9
  <2> QED
    BY <2>9, <2>10
<1>14. /\ h.kind = "report" /\ Counted(h, first[m].findings) /\ Gapped(h, brief[m])
       /\ \A i \in DOMAIN h.findings : Sourced(m, h.findings[i])
       /\ \A f \in accepted[m] : f.id \in ToldDropped(h)
            => \E x \in Mignons \ {m} :
                 stage[x] # "none" /\ (f.refs \cap brief[x].refs) \ brief[m].refs # {}
  BY <1>5, <1>6, <1>7, <1>12, <1>13
<1> QED
  BY <1>1, <1>14 DEF d

\* A step that changes nothing of it.
LEMMA ResearchRests ==
  ASSUME ResearchInv,
         UNCHANGED <<stage, brief, reply, draft, handback, hookVars, extract, first, issued, shown,
                     accepted>>
  PROVE  ResearchInv'
<1>1. UNCHANGED <<mignonRefs, mignonUrls, runRefs, refusedUrls, retriedUrls>>
  BY DEF hookVars
<1>2. ResearchTyped /\ RunRefsInv
  BY DEF ResearchInv
<1>3. ResearchTyped' /\ RunRefsInv' /\ Onward
  BY <1>1, <1>2 DEF ResearchTyped, RunRefsInv, Onward, NoExtract, Orchestrator
<1>4. ASSUME NEW x \in Mignons
      PROVE  ReplyInv(x)' /\ SourceInv(x)' /\ AcceptedInv(x)' /\ HandbackInv(x)'
  <2>1. ReplyInv(x) /\ SourceInv(x) /\ AcceptedInv(x) /\ HandbackInv(x)
    BY DEF ResearchInv
  <2>2. SourceInv(x)'
    BY <1>1, <2>1 DEF SourceInv
  <2> QED
    BY <1>3, <2>1, <2>2, PassedBy
<1> QED
  BY <1>3, <1>4 DEF ResearchInv

LEMMA AgentReturnsKeeps ==
  ASSUME ResearchInv, NEW m \in Mignons, NEW asAsked \in BOOLEAN, AgentReturns(m, asAsked)
  PROVE  ResearchInv'
<1> DEFINE told == asAsked /\ Final(m).whole
           h == IF told THEN HandBack(m, Final(m)) ELSE [kind |-> "missing"]
<1>1. /\ stage[m] = "ended" /\ stage' = [stage EXCEPT ![m] = "over"]
      /\ handback' = [handback EXCEPT ![m] = h]
      /\ draft' = [draft EXCEPT ![m] = NoDraft]
      /\ UNCHANGED <<brief, reply, mignonRefs, mignonUrls, runRefs, refusedUrls, retriedUrls,
                     extract, halted, first, issued, shown, accepted>>
  BY DEF AgentReturns, hookVars
<1>2. ResearchTyped /\ RunRefsInv
  BY DEF ResearchInv
<1>3. told => /\ h.kind = "report" /\ Counted(h, first[m].findings) /\ Gapped(h, brief[m])
              /\ \A i \in DOMAIN h.findings : Sourced(m, h.findings[i])
              /\ \A f \in accepted[m] : f.id \in ToldDropped(h)
                   => \E x \in Mignons \ {m} :
                        stage[x] # "none" /\ (f.refs \cap brief[x].refs) \ brief[m].refs # {}
  <2>1. told => Final(m).whole /\ h = HandBack(m, Final(m))
    OBVIOUS
  <2> HIDE DEF told, h
  <2> QED
    BY <1>1, <2>1, HandBackSound
<1>4. ~told => h.kind = "missing"
  OBVIOUS
<1> HIDE DEF told, h
<1>5. \A x \in Mignons : /\ stage'[x] = IF x = m THEN "over" ELSE stage[x]
                         /\ handback'[x] = IF x = m THEN h ELSE handback[x]
                         /\ draft'[x] = IF x = m THEN NoDraft ELSE draft[x]
  <2>1. handback = [x \in Mignons |-> handback[x]]
    BY <1>2 DEF ResearchTyped
  <2> QED
    BY <1>1, <1>2, <2>1 DEF ResearchTyped
<1>6. NoDraft \in Drafts /\ ~NoDraft.open
  <2>1. 0 \in 0..MaxRepairs
    <3>1. MaxRepairs \in Nat
      BY ResearchAssumption
    <3> QED
      BY <3>1
  <2>2. <<>> \in Seq(Nat) /\ <<>> \in Seq(FindingSays)
    OBVIOUS
  <2> QED
    BY <2>1, <2>2 DEF NoDraft, Drafts
<1>7. ResearchTyped'
  <2>1. stage' \in [Mignons -> Stages] /\ draft' \in [Mignons -> Drafts]
    BY <1>1, <1>2, <1>6 DEF ResearchTyped, Stages
  <2>2. handback' = [x \in Mignons |-> handback'[x]]
    <3>1. handback = [x \in Mignons |-> handback[x]]
      BY <1>2 DEF ResearchTyped
    <3> QED
      BY <1>1, <3>1
  <2> QED
    BY <1>1, <1>2, <2>1, <2>2 DEF ResearchTyped, NoExtract
<1>8. RunRefsInv'
  BY <1>1, <1>2 DEF RunRefsInv, Orchestrator
<1>9. Onward
  BY <1>1, <1>5 DEF Onward
<1>10. ASSUME NEW x \in Mignons
       PROVE  ReplyInv(x)' /\ SourceInv(x)' /\ AcceptedInv(x)' /\ HandbackInv(x)'
  <2>1. ReplyInv(x) /\ SourceInv(x) /\ AcceptedInv(x) /\ HandbackInv(x)
    BY DEF ResearchInv
  <2>2. SourceInv(x)'
    BY <1>1, <2>1 DEF SourceInv
  <2>3. CASE x # m
    BY <1>1, <1>5, <1>9, <2>1, <2>2, <2>3, PassedBy
  <2>4. CASE x = m
    <3>1. AcceptedInv(m)'
      BY <1>1, <1>9, <2>1, <2>4, AcceptedKeeps
    <3>2. /\ stage'[m] = "over" /\ handback'[m] = h /\ draft'[m] = NoDraft
          /\ first'[m] = first[m] /\ brief'[m] = brief[m] /\ accepted'[m] = accepted[m]
      BY <1>1, <1>5
    <3>3. ReplyInv(m)'
      <4>1. /\ brief'[m] \in Briefs[m] /\ first'[m] \in Reports[m] \cup {Prose}
            /\ reply'[m] \in Replies(m)
        BY <1>1, <2>1, <2>4, <3>2 DEF ReplyInv
      <4>2. ~draft'[m].open
        BY <1>6, <3>2
      <4> QED
        BY <3>2, <4>1, <4>2 DEF ReplyInv, Replies, Prose, NoDraft
    <3>4. HandbackInv(m)'
      <4>1. CASE ~told
        <5>1. handback'[m].kind = "missing"
          BY <1>4, <3>2, <4>1
        <5> QED
          BY <5>1 DEF HandbackInv
      <4>2. CASE told
        <5>1. handback'[m].kind = "report"
          BY <1>3, <3>2, <4>2
        <5>2. (\A i \in DOMAIN handback[m].findings : Sourced(m, handback[m].findings[i]))'
          <6>1. ASSUME NEW i \in DOMAIN h.findings, NEW f, f = h.findings[i]
                PROVE  Sourced(m, f)'
            <7>1. Sourced(m, f)
              BY <1>3, <4>2, <6>1
            <7>2. stage[m] # "none"
              BY <1>1
            <7> QED
              BY <1>9, <7>1, <7>2, SourcedKeeps
          <6> QED
            BY <3>2, <6>1 DEF Sourced, WellFormed, Orchestrator
        <5>3. Accounted(m)'
          <6>1. Counted(handback'[m], first'[m].findings)
            BY <1>3, <3>2, <4>2
          <6> QED
            BY <6>1 DEF Accounted, Counted
        <5>4. GapsTrue(m)'
          <6>1. Gapped(handback'[m], brief'[m])
            BY <1>3, <3>2, <4>2
          <6> QED
            BY <6>1 DEF GapsTrue, Gapped
        <5>5. AcceptedGoes(m)'
          <6> SUFFICES ASSUME NEW f \in accepted[m], f.id \in ToldDropped(h)
                       PROVE  \E y \in Mignons \ {m} :
                                stage'[y] # "none" /\ (f.refs \cap brief'[y].refs) \ brief'[m].refs # {}
            BY <3>2 DEF AcceptedGoes, ToldDropped, Unsent
          <6>1. PICK y \in Mignons \ {m} :
                  stage[y] # "none" /\ (f.refs \cap brief[y].refs) \ brief[m].refs # {}
            BY <1>3, <4>2
          <6>2. stage'[y] # "none" /\ brief'[y] = brief[y]
            BY <1>9, <6>1 DEF Onward
          <6> QED
            BY <3>2, <6>1, <6>2
        <5> QED
          BY <3>2, <5>1, <5>2, <5>3, <5>4, <5>5 DEF HandbackInv
      <4> QED
        BY <4>1, <4>2
    <3> QED
      BY <2>2, <2>4, <3>1, <3>3, <3>4
  <2> QED
    BY <2>3, <2>4
<1> QED
  BY <1>7, <1>8, <1>10 DEF ResearchInv

\* Every step keeps the invariant.
LEMMA ResearchKeeps ==
  ASSUME ResearchInv, ResearchNext
  PROVE  ResearchInv'
<1>1. ResearchTyped /\ \A x \in Mignons : ReplyInv(x) /\ HandbackInv(x)
  BY DEF ResearchInv
<1>2. handback = [x \in Mignons |-> handback[x]]
  BY <1>1 DEF ResearchTyped
<1>3. ASSUME NEW m \in Mignons, Spawn(m) PROVE ResearchInv'
  BY <1>3, SpawnKeeps
<1>4. ASSUME NEW m \in Mignons, ReviewDraft(m) PROVE ResearchInv'
  BY <1>4, ReviewKeeps
<1>5. ASSUME NEW m \in Mignons, EndsUnreviewed(m) PROVE ResearchInv'
  <2>1. /\ stage[m] = "said" /\ stage' = [stage EXCEPT ![m] = "ended"]
        /\ UNCHANGED <<brief, reply, draft, handback, hookVars, extract, halted, first, issued, shown,
                       accepted>>
    BY <1>5 DEF EndsUnreviewed
  <2>2. ReplyInv(m) /\ HandbackInv(m)
    BY <1>1
  <2>3. draft[m].open \/ reply[m] = first[m]
    BY <2>1, <2>2 DEF ReplyInv
  <2>4. handback'[m].kind \in {"none", "missing", "failed"}
    BY <2>1, <2>2 DEF HandbackInv
  <2> QED
    BY <1>2, <2>1, <2>3, <2>4, StageKeeps, "ended" \in Stages DEF Stages
<1>6. ASSUME NEW m \in Mignons, AgentResultFails(m) PROVE ResearchInv'
  <2>1. /\ stage[m] = "ended" /\ stage' = [stage EXCEPT ![m] = "over"]
        /\ handback' = [handback EXCEPT ![m] = [kind |-> "failed"]]
        /\ UNCHANGED <<brief, reply, draft, hookVars, extract, first, issued, shown, accepted>>
    BY <1>6 DEF AgentResultFails
  <2>2. /\ handback' = [x \in Mignons |-> handback'[x]] /\ handback'[m].kind = "failed"
        /\ \A x \in Mignons \ {m} : handback'[x] = handback[x]
    BY <1>2, <2>1
  <2> QED
    BY <2>1, <2>2, StageKeeps, "over" \in Stages DEF Stages
<1>7. ASSUME NEW m \in Mignons, NEW t \in Reports[m] \cup Patches[m], Says(m, t) PROVE ResearchInv'
  BY <1>7, SaysKeeps
<1>8. ASSUME NEW m \in Mignons, NEW ok \in BOOLEAN, AgentReturns(m, ok) PROVE ResearchInv'
  BY <1>8, AgentReturnsKeeps
<1>9. ASSUME NEW m \in Mignons, NEW e \in Extracts, NEW us \in SUBSET Urls, AskExtract(m, e, us)
      PROVE  ResearchInv'
  BY <1>9, AskExtractKeeps
<1>10. ASSUME NEW c \in Mignons \cup {Orchestrator}, NEW rs \in SUBSET Refs, ResultDelivered(c, rs)
       PROVE  ResearchInv'
  BY <1>10, DeliveredKeeps
<1>11. ASSUME NEW e \in Extracts, NEW got \in SUBSET Urls, ExtractReturns(e, got)
       PROVE  ResearchInv'
  BY <1>11, ExtractReturnsKeeps
<1>12. ASSUME NEW e \in Extracts, ExtractFails(e) \/ \E later \in BOOLEAN : ExtractRejected(e, later)
       PROVE  ResearchInv'
  BY <1>12, ExtractEndsKeeps
<1>13. ASSUME UNCHANGED <<stage, brief, reply, draft, handback, hookVars, extract, first, issued,
                          shown, accepted>>
       PROVE  ResearchInv'
  BY <1>13, ResearchRests
<1>14. ResearchHalt => UNCHANGED <<stage, brief, reply, draft, handback, hookVars, extract, first,
                                   issued, shown, accepted>>
  BY DEF ResearchHalt
<1>15. ASSUME NEW m \in Mignons, ReviewFails(m) PROVE ResearchInv'
  BY <1>15, ReviewFailsKeeps
<1> QED
  BY <1>3, <1>4, <1>5, <1>6, <1>7, <1>8, <1>9, <1>10, <1>11, <1>12, <1>13, <1>14, <1>15
  DEF ResearchNext

LEMMA ResearchBeginsWell ==
  ASSUME NEW open \in BOOLEAN, ResearchBegins(open)
  PROVE  ResearchInv
<1>1. /\ stage = [m \in Mignons |-> IF open THEN "none" ELSE "over"]
      /\ brief = [m \in Mignons |-> CHOOSE b \in Briefs[m] : TRUE]
      /\ reply = [m \in Mignons |-> Prose] /\ draft = [m \in Mignons |-> NoDraft]
      /\ handback = [m \in Mignons |-> Unsent]
      /\ mignonRefs = [m \in Mignons |-> {}] /\ mignonUrls = [m \in Mignons |-> {}]
      /\ runRefs = {} /\ refusedUrls = {} /\ retriedUrls = {}
      /\ extract = [e \in Extracts |-> NoExtract]
      /\ first = [m \in Mignons |-> Prose] /\ issued = {} /\ shown = {}
      /\ accepted = [m \in Mignons |-> {}]
  BY DEF ResearchBegins
<1>2. \A m \in Mignons : brief[m] \in Briefs[m]
  <2>1. \A m \in Mignons : Briefs[m] # {}
    BY ResearchAssumption
  <2> QED
    BY <1>1, <2>1
<1>3. NoDraft \in Drafts /\ ~NoDraft.open
  BY NoDraftTyped
<1>4. ResearchTyped
  <2>1. stage \in [Mignons -> Stages]
    BY <1>1 DEF Stages
  <2>2. brief \in [Mignons -> UNION {Briefs[m] : m \in Mignons}]
    <3>1. brief = [m \in Mignons |-> brief[m]]
      BY <1>1
    <3> QED
      BY <1>2, <3>1
  <2>3. \A m \in Mignons : Prose \in UNION {Replies(x) : x \in Mignons}
    BY DEF Replies
  <2>4. /\ reply \in [Mignons -> UNION {Replies(m) : m \in Mignons}]
        /\ first \in [Mignons -> UNION {Replies(m) : m \in Mignons}]
    BY <1>1, <2>3
  <2>5. NoExtract \in [by : Mignons \cup {"nobody"}, urls : SUBSET Urls]
    BY DEF NoExtract
  <2>6. /\ draft \in [Mignons -> Drafts] /\ handback = [m \in Mignons |-> handback[m]]
        /\ mignonRefs \in [Mignons -> SUBSET Refs] /\ mignonUrls \in [Mignons -> SUBSET Urls]
        /\ runRefs \subseteq Refs /\ refusedUrls \cup retriedUrls \subseteq Keys(Urls)
        /\ extract \in [Extracts -> [by : Mignons \cup {"nobody"}, urls : SUBSET Urls]]
        /\ \A e \in Extracts : extract[e] # NoExtract => extract[e].by \in Mignons
        /\ accepted \in [Mignons -> SUBSET FindingSays]
    BY <1>1, <1>3, <2>5
  <2> QED
    BY <2>1, <2>2, <2>4, <2>6 DEF ResearchTyped
<1>5. RunRefsInv
  BY <1>1 DEF RunRefsInv
<1>6. ASSUME NEW m \in Mignons
      PROVE  ReplyInv(m) /\ SourceInv(m) /\ AcceptedInv(m) /\ HandbackInv(m)
  <2>1. /\ draft[m] = NoDraft /\ reply[m] = Prose /\ first[m] = Prose /\ accepted[m] = {}
        /\ handback[m].kind = "none" /\ mignonRefs[m] = {} /\ mignonUrls[m] = {}
    BY <1>1 DEF Unsent
  <2>2. Prose \in Replies(m)
    BY DEF Replies
  <2>3. ReplyInv(m)
    BY <1>2, <1>3, <2>1, <2>2 DEF ReplyInv
  <2>4. SourceInv(m)
    BY <2>1 DEF SourceInv
  <2>5. AcceptedInv(m)
    BY <2>1 DEF AcceptedInv
  <2>6. HandbackInv(m)
    BY <2>1 DEF HandbackInv
  <2> QED
    BY <2>3, <2>4, <2>5, <2>6
<1> QED
  BY <1>4, <1>5, <1>6 DEF ResearchInv

\* The invariant says that what was handed back is sound, and that everything has its type.
LEMMA ResearchHolds ==
  ASSUME ResearchInv
  PROVE  ReportsSound /\ ResearchTypeOK
<1>1. ResearchTyped /\ \A m \in Mignons : ReplyInv(m) /\ SourceInv(m) /\ HandbackInv(m)
  BY DEF ResearchInv
<1>2. ReportsSound
  <2>1. ASSUME NEW m \in Mignons, handback[m].kind = "report"
        PROVE  /\ \A i \in DOMAIN handback[m].findings : Sourced(m, handback[m].findings[i])
               /\ Accounted(m) /\ AcceptedGoes(m) /\ GapsTrue(m)
    BY <1>1, <2>1 DEF HandbackInv
  <2>2. ASSUME NEW m \in Mignons, AcceptedGoes(m) PROVE AcceptedStays(m)
    BY <2>2 DEF AcceptedGoes, AcceptedStays
  <2> QED
    BY <2>1, <2>2 DEF ReportsSound
<1>3. ResearchTypeOK
  <2>1. ASSUME NEW m \in Mignons
        PROVE  /\ brief[m] \in Briefs[m] /\ reply[m] \in Reports[m] \cup Patches[m] \cup {Prose}
               /\ draft[m].attempts \in 0..MaxRepairs
               /\ DOMAIN draft[m].origins = DOMAIN draft[m].findings
               /\ handback[m].kind \in {"none", "report", "missing", "failed"}
               /\ mignonRefs[m] \subseteq runRefs /\ mignonUrls[m] \subseteq Urls
    <3>1. /\ brief[m] \in Briefs[m] /\ reply[m] \in Reports[m] \cup Patches[m] \cup {Prose}
      BY <1>1 DEF ReplyInv, Replies
    <3>2. draft[m].attempts \in 0..MaxRepairs /\ mignonUrls[m] \subseteq Urls
      BY <1>1 DEF ResearchTyped, Drafts
    <3>3. DOMAIN draft[m].origins = DOMAIN draft[m].findings
      <4>1. CASE draft[m].open
        BY <1>1, <4>1 DEF ReplyInv, DraftTrue
      <4>2. CASE ~draft[m].open
        <5>1. draft[m] = NoDraft
          BY <1>1, <4>2 DEF ReplyInv
        <5> QED
          BY <5>1 DEF NoDraft
      <4> QED
        BY <4>1, <4>2
    <3>4. handback[m].kind \in {"none", "report", "missing", "failed"} /\ mignonRefs[m] \subseteq runRefs
      BY <1>1 DEF HandbackInv, SourceInv
    <3> QED
      BY <3>1, <3>2, <3>3, <3>4
  <2> QED
    BY <1>1, <2>1 DEF ResearchTypeOK, ResearchTyped, Stages
<1> QED
  BY <1>2, <1>3

\* The invariant holds in every state of MCRecord, whatever part is there.
THEOREM ResearchInvariant == Spec => []ResearchInv
<1>1. Init => ResearchInv
  BY ResearchBeginsWell DEF Init
<1>2. ResearchInv /\ [Next]_recordVars => ResearchInv'
  <2> SUFFICES ASSUME ResearchInv, [Next]_recordVars PROVE ResearchInv'
    OBVIOUS
  <2>1. UNCHANGED researchVars => ResearchInv'
    BY ResearchRests DEF researchVars
  <2>2. ResearchNext => ResearchInv'
    BY ResearchKeeps
  <2> QED
    BY <2>1, <2>2 DEF Next, recordVars
<1> QED
  BY <1>1, <1>2, PTL DEF Spec

\* ReportsSound: what the orchestrator reads of a Mignon's work cites what was delivered, accounts
\* for every finding of the report as it was first sent, and names the gaps that are left, whatever
\* was said, patched, dropped and extracted in between, by however many Mignons at once.
THEOREM ReportsAreSound == Spec => []ReportsSound
<1>1. ResearchInv => ReportsSound
  BY ResearchHolds
<1> QED
  BY <1>1, ResearchInvariant, PTL

----------------------------------------------------------------------------
(* The order sequence: the inductive invariant.                            *)

\* v is what an order with the version w once was.
Past(v, w) ==
  v = w \/ v = Absent \/ (v.is = "working" /\ w.is # "absent" /\ v.filled <= w.filled)

\* Broker: an order fills up and then ends; that of the earlier run, of which nothing is filled, was
\* there before the run or is not there at all; one is only there if it was placed.
AtBrokerInv ==
  /\ \A o \in Others : /\ atBroker[o].is = "absent" => atBroker[o] = Absent
                       /\ atBroker[o].is = "working" => atBroker[o].filled < Target
  /\ atBroker["old"].filled = 0
  /\ calls["place"] = "idle" => atBroker["own"] = Absent

\* What is known of the orders is what they were; a read shows every order that was always there.
Known(sight, at) == \A o \in Others : Past(sight[o], at[o])
Shown(sight, at) == Known(sight, at) /\ (at["old"] # Absent => sight["old"] # Absent)
SeenInv ==
  /\ Known(newest, atBroker) /\ (latest # Unread => Shown(latest, atBroker))
  /\ \A r \in ReadIds : /\ looks[r].is = "answered" => looks[r].saw # Unread
                        /\ looks[r].saw # Unread => Shown(looks[r].saw, atBroker)

\* What was found at the dispatch; the broker's orders stay as they were then.
JudgedInv ==
  judged # Unread =>
    /\ judged.truth = atBroker
    /\ Known(judged.newest, atBroker) /\ (judged.latest # Unread => Shown(judged.latest, atBroker))
    /\ \A c \in {"place", "cancel"} : judged.calls[c] = "ok" => calls[c] = "ok"
    /\ judged.calls["place"] = "idle" => atBroker["own"] = Absent

SequenceTyped ==
  /\ plan \in Plans /\ atBroker \in Sights /\ calls \in CallStates
  /\ looks \in [ReadIds -> [is : {"idle", "asked", "answered", "done", "failed"},
                            saw : Sights \cup {Unread}]]
  /\ newest \in Sights /\ latest \in Sights \cup {Unread}
  /\ judged = Unread \/ judged \in Judgements

SequenceInv == SequenceTyped /\ AtBrokerInv /\ SeenInv /\ JudgedInv

----------------------------------------------------------------------------
(* The order sequence: every step keeps the invariant.                     *)

LEMMA VersionsAre ==
  /\ Absent \in Versions /\ New \in Versions /\ Absent # New /\ New.is = "working" /\ New.filled = 0
  /\ Absent.is = "absent" /\ Absent.filled = 0
<1>1. Target \in Nat /\ Target # 0
  BY OrderAuditAssumption
<1>2. 0 \in 0..Target
  BY <1>1
<1> QED
  BY <1>2 DEF Absent, New, Versions

\* An order's later version has the same past, and more.
LEMMA PastGrows ==
  ASSUME NEW u \in Versions, NEW v \in Versions, NEW w \in Versions, Past(u, v), Past(v, w)
  PROVE  Past(u, w)
<1>1. u.filled \in Nat /\ v.filled \in Nat /\ w.filled \in Nat
  BY OrderAuditAssumption DEF Versions
<1> QED
  BY <1>1 DEF Past, Absent

\* What is known stays known when orders move on.
LEMMA KnownGrows ==
  ASSUME NEW at \in Sights, NEW next \in Sights, \A o \in Others : Past(at[o], next[o]),
         NEW sight \in Sights, Known(sight, at)
  PROVE  Known(sight, next)
<1>1. ASSUME NEW o \in Others PROVE Past(sight[o], next[o])
  <2>1. sight[o] \in Versions /\ at[o] \in Versions /\ next[o] \in Versions
    BY DEF Sights
  <2>2. Past(sight[o], at[o]) /\ Past(at[o], next[o])
    BY DEF Known
  <2> QED
    BY <2>1, <2>2, PastGrows
<1> QED
  BY <1>1 DEF Known

\* What is learned of one sight.
LEMMA LearnKeeps ==
  ASSUME SequenceInv, NEW sight \in Sights, Known(sight, atBroker), Learn(sight)
  PROVE  newest' \in Sights /\ Known(newest', atBroker)
<1>1. newest' = [o \in Others |-> Later(newest[o], sight[o])]
  BY DEF Learn
<1>2. \A o \in Others : newest'[o] = newest[o] \/ newest'[o] = sight[o]
  BY <1>1 DEF Later
<1>3. newest \in Sights /\ Known(newest, atBroker)
  BY DEF SequenceInv, SequenceTyped, SeenInv
<1>4. \A o \in Others : newest[o] \in Versions /\ sight[o] \in Versions
  BY <1>3 DEF Sights
<1>5. newest' \in Sights
  BY <1>1, <1>2, <1>4 DEF Sights
<1>6. ASSUME NEW o \in Others PROVE Past(newest'[o], atBroker[o])
  <2>1. Past(newest[o], atBroker[o]) /\ Past(sight[o], atBroker[o])
    BY <1>3 DEF Known
  <2>2. CASE newest'[o] = newest[o]
    BY <2>1, <2>2
  <2>3. CASE newest'[o] = sight[o]
    BY <2>1, <2>3
  <2> QED
    BY <1>2, <2>2, <2>3
<1> QED
  BY <1>5, <1>6 DEF Known

\* Steps of the broker, before the judged dispatch: an order moves on.
LEMMA BrokerKeeps ==
  ASSUME SequenceInv, judged = Unread, UNCHANGED <<plan, calls, looks, newest, latest, judged>>,
         NEW o \in Others, NEW v \in Versions, atBroker' = [atBroker EXCEPT ![o] = v],
         Past(atBroker[o], v), v.is # "absent", v.is = "working" => v.filled < Target,
         o = "old" => atBroker["old"] # Absent /\ v.filled = 0, o = "own" => calls["place"] # "idle"
  PROVE  SequenceInv'
<1>1. SequenceTyped /\ AtBrokerInv /\ SeenInv
  BY DEF SequenceInv
<1>2. atBroker \in Sights /\ atBroker' \in Sights
  BY <1>1 DEF SequenceTyped, Sights
<1>3. \A p \in Others : atBroker'[p] = IF p = o THEN v ELSE atBroker[p]
  BY <1>2 DEF Sights
<1>4. \A p \in Others : Past(atBroker[p], atBroker'[p])
  BY <1>3 DEF Past
<1>5. SequenceTyped'
  BY <1>1, <1>2 DEF SequenceTyped
<1>6. AtBrokerInv'
  <2>1. "old" \in Others /\ "own" \in Others
    BY DEF Others
  <2>2. \A p \in Others : /\ atBroker'[p].is = "absent" => atBroker'[p] = Absent
                          /\ atBroker'[p].is = "working" => atBroker'[p].filled < Target
    BY <1>1, <1>3 DEF AtBrokerInv
  <2>3. atBroker'["old"].filled = 0
    BY <1>1, <1>3, <2>1 DEF AtBrokerInv
  <2>4. calls'["place"] = "idle" => atBroker'["own"] = Absent
    BY <1>1, <1>3, <2>1 DEF AtBrokerInv
  <2> QED
    BY <2>2, <2>3, <2>4 DEF AtBrokerInv
<1>7. ASSUME NEW sight \in Sights, Shown(sight, atBroker) PROVE Shown(sight, atBroker')
  <2>1. Known(sight, atBroker')
    BY <1>2, <1>4, <1>7, KnownGrows DEF Shown
  <2>2. atBroker'["old"] # Absent => atBroker["old"] # Absent
    BY <1>3 DEF Others
  <2> QED
    BY <1>7, <2>1, <2>2 DEF Shown
<1>8. SeenInv'
  <2>1. Known(newest', atBroker')
    BY <1>1, <1>2, <1>4, KnownGrows DEF SeenInv, SequenceTyped
  <2>2. latest' # Unread => Shown(latest', atBroker')
    BY <1>1, <1>7 DEF SeenInv, SequenceTyped
  <2>3. ASSUME NEW r \in ReadIds
        PROVE  /\ looks'[r].is = "answered" => looks'[r].saw # Unread
               /\ looks'[r].saw # Unread => Shown(looks'[r].saw, atBroker')
    <3>1. looks[r].saw \in Sights \cup {Unread}
      BY <1>1 DEF SequenceTyped
    <3> QED
      BY <1>1, <1>7, <3>1 DEF SeenInv
  <2> QED
    BY <2>1, <2>2, <2>3 DEF SeenInv
<1>9. JudgedInv'
  BY DEF JudgedInv
<1> QED
  BY <1>5, <1>6, <1>8, <1>9 DEF SequenceInv

\* Steps that change nothing at the broker: what is learned by them was so.
LEMMA LearningKeeps ==
  ASSUME SequenceInv, UNCHANGED <<plan, atBroker, judged>>, SequenceTyped',
         calls'["place"] = "idle" => calls["place"] = "idle",
         \A c \in {"place", "cancel"} : calls[c] = "ok" => calls'[c] = "ok",
         Known(newest', atBroker), latest' = latest \/ Shown(latest', atBroker),
         \A r \in ReadIds : /\ looks'[r].is = "answered" => looks'[r].saw # Unread
                            /\ looks'[r].saw \in {Unread, looks[r].saw, atBroker}
  PROVE  SequenceInv'
<1>1. SequenceTyped /\ AtBrokerInv /\ SeenInv /\ JudgedInv
  BY DEF SequenceInv
<1>2. AtBrokerInv'
  BY <1>1 DEF AtBrokerInv
<1>3. Shown(atBroker, atBroker)
  BY DEF Shown, Known, Past
<1>4. SeenInv'
  <2>1. latest' # Unread => Shown(latest', atBroker')
    BY <1>1 DEF SeenInv
  <2>2. ASSUME NEW r \in ReadIds
        PROVE  /\ looks'[r].is = "answered" => looks'[r].saw # Unread
               /\ looks'[r].saw # Unread => Shown(looks'[r].saw, atBroker')
    BY <1>1, <1>3 DEF SeenInv
  <2> QED
    BY <2>1, <2>2 DEF SeenInv
<1>5. JudgedInv'
  <2>1. ASSUME judged' # Unread
        PROVE  /\ judged'.truth = atBroker'
               /\ Known(judged'.newest, atBroker')
               /\ (judged'.latest # Unread => Shown(judged'.latest, atBroker'))
               /\ \A c \in {"place", "cancel"} : judged'.calls[c] = "ok" => calls'[c] = "ok"
               /\ judged'.calls["place"] = "idle" => atBroker'["own"] = Absent
    BY <1>1, <2>1 DEF JudgedInv
  <2> QED
    BY <2>1 DEF JudgedInv
<1> QED
  BY <1>2, <1>4, <1>5 DEF SequenceInv

\* Every step keeps the invariant.
LEMMA SequenceKeeps ==
  ASSUME SequenceInv, OrderAuditNext
  PROVE  SequenceInv'
<1>1. SequenceTyped /\ AtBrokerInv /\ SeenInv /\ JudgedInv
  BY DEF SequenceInv
<1>2. /\ plan \in Plans /\ atBroker \in Sights /\ calls \in CallStates
      /\ looks \in [ReadIds -> [is : {"idle", "asked", "answered", "done", "failed"},
                                saw : Sights \cup {Unread}]]
      /\ newest \in Sights /\ latest \in Sights \cup {Unread}
      /\ (judged = Unread \/ judged \in Judgements)
  BY <1>1 DEF SequenceTyped
<1>3. /\ Known(newest, atBroker) /\ (latest # Unread => Shown(latest, atBroker))
      /\ \A r \in ReadIds : /\ looks[r].is = "answered" => looks[r].saw # Unread
                            /\ looks[r].saw # Unread => Shown(looks[r].saw, atBroker)
  BY <1>1 DEF SeenInv
<1>4. Unread \notin Nat /\ Unread \notin Sights /\ Unread \notin Judgements /\ Target \in Nat \ {0}
  BY OrderAuditAssumption
<1>5. ASSUME NEW c \in {"place", "cancel"}, Send(c) \/ Lose(c) \/ AnswerCall(c)
      PROVE  SequenceInv'
  <2>1. /\ UNCHANGED <<plan, atBroker, looks, latest, judged>>
        /\ \E how \in {"sent", "lost", "ok"} :
             calls' = [calls EXCEPT ![c] = how] /\ (calls[c] = "ok" => how = "ok")
    BY <1>5 DEF Send, Lose, AnswerCall
  <2>2. /\ calls' \in CallStates /\ (calls'["place"] = "idle" => calls["place"] = "idle")
        /\ \A b \in {"place", "cancel"} : calls[b] = "ok" => calls'[b] = "ok"
    BY <1>2, <2>1 DEF CallStates
  <2>3. newest' \in Sights /\ Known(newest', atBroker)
    <3>1. CASE newest' = newest
      BY <1>2, <1>3, <3>1
    <3>2. CASE Learn([newest EXCEPT !["own"] = atBroker["own"]])
      <4>1. [newest EXCEPT !["own"] = atBroker["own"]] \in Sights
        BY <1>2 DEF Sights, Others
      <4>2. Known([newest EXCEPT !["own"] = atBroker["own"]], atBroker)
        BY <1>2, <1>3 DEF Known, Past, Sights, Others
      <4> QED
        BY <3>2, <4>1, <4>2, LearnKeeps
    <3> QED
      BY <1>5, <3>1, <3>2 DEF Send, Lose, AnswerCall
  <2>4. SequenceTyped'
    BY <1>2, <2>1, <2>2, <2>3 DEF SequenceTyped
  <2> QED
    BY <1>3, <2>1, <2>2, <2>3, <2>4, LearningKeeps
<1>6. ASSUME Arrive PROVE SequenceInv'
  <2>1. /\ judged = Unread /\ calls["place"] # "idle" /\ atBroker["own"] = Absent
        /\ atBroker' = [atBroker EXCEPT !["own"] = New]
        /\ UNCHANGED <<plan, calls, looks, newest, latest, judged>>
    BY <1>6 DEF Arrive, Unjudged
  <2>2. New \in Versions /\ New.is # "absent" /\ New.filled < Target /\ Past(atBroker["own"], New)
    BY <1>4, <2>1, VersionsAre DEF Past
  <2>3. "own" \in Others /\ "own" # "old"
    BY DEF Others
  <2> QED
    BY <2>1, <2>2, <2>3, BrokerKeeps
<1>7. ASSUME NEW o \in Others, Fill(o) PROVE SequenceInv'
  <2> DEFINE n == atBroker[o].filled + 1
             v == [is |-> IF n = Target THEN "ended" ELSE "working", filled |-> n]
  <2>1. /\ judged = Unread /\ o = "own" /\ atBroker[o].is = "working"
        /\ atBroker' = [atBroker EXCEPT ![o] = v]
        /\ UNCHANGED <<plan, calls, looks, newest, latest, judged>>
    BY <1>7 DEF Fill, Unjudged
  <2>2. atBroker[o].filled \in Nat /\ atBroker[o].filled < Target
    BY <1>1, <1>2, <1>4, <2>1 DEF AtBrokerInv, Sights, Versions
  <2>3. n \in 0..Target /\ atBroker[o].filled <= n /\ (n # Target => n < Target)
    BY <1>4, <2>2
  <2>4. v.is \in {"ended", "working"} /\ v.filled = n /\ (v.is = "working" => n # Target)
    OBVIOUS
  <2>5. v \in Versions
    BY <2>3 DEF Versions
  <2>6. calls["place"] # "idle"
    BY <1>1, <2>1, VersionsAre DEF AtBrokerInv
  <2> HIDE DEF n, v
  <2>7. Past(atBroker[o], v)
    BY <2>1, <2>3, <2>4 DEF Past
  <2>8. v.is # "absent" /\ (v.is = "working" => v.filled < Target) /\ o # "old"
    BY <2>1, <2>3, <2>4
  <2> QED
    BY <2>1, <2>5, <2>6, <2>7, <2>8, BrokerKeeps
<1>8. ASSUME NEW o \in Others, End(o) PROVE SequenceInv'
  <2> DEFINE v == [atBroker[o] EXCEPT !.is = "ended"]
  <2>1. /\ judged = Unread /\ atBroker[o].is = "working"
        /\ atBroker' = [atBroker EXCEPT ![o] = v]
        /\ UNCHANGED <<plan, calls, looks, newest, latest, judged>>
    BY <1>2, <1>8 DEF End, Unjudged, Sights
  <2>2. atBroker[o] \in Versions
    BY <1>2 DEF Sights
  <2>3. v \in Versions /\ v.is = "ended" /\ v.filled = atBroker[o].filled
    BY <2>2 DEF Versions
  <2>4. atBroker[o].filled \in Nat
    BY <1>4, <2>2 DEF Versions
  <2>5. o = "own" => calls["place"] # "idle"
    BY <1>1, <2>1, VersionsAre DEF AtBrokerInv
  <2>6. o = "old" => atBroker["old"] # Absent /\ v.filled = 0
    BY <1>1, <2>1, <2>3, VersionsAre DEF AtBrokerInv
  <2> HIDE DEF v
  <2>7. Past(atBroker[o], v)
    BY <2>1, <2>3, <2>4 DEF Past
  <2>8. v.is # "absent" /\ (v.is = "working" => v.filled < Target)
    BY <2>3
  <2> QED
    BY <2>1, <2>3, <2>5, <2>6, <2>7, <2>8, BrokerKeeps
<1>9. ASSUME NEW r \in ReadIds, Ask(r) \/ ReadFails(r) PROVE SequenceInv'
  <2>1. /\ UNCHANGED <<plan, atBroker, calls, newest, latest, judged>>
        /\ \E is \in {"asked", "failed"} : looks' = [looks EXCEPT ![r].is = is]
    BY <1>9 DEF Ask, ReadFails
  <2>2. PICK is \in {"asked", "failed"} : looks' = [looks EXCEPT ![r].is = is]
    BY <2>1
  <2>3. /\ looks' \in [ReadIds -> [is : {"idle", "asked", "answered", "done", "failed"},
                                   saw : Sights \cup {Unread}]]
        /\ \A q \in ReadIds : looks'[q].saw = looks[q].saw
                              /\ looks'[q].is = IF q = r THEN is ELSE looks[q].is
    BY <1>2, <2>2
  <2>4. SequenceTyped'
    BY <1>2, <2>1, <2>3 DEF SequenceTyped
  <2>5. \A q \in ReadIds : /\ looks'[q].is = "answered" => looks'[q].saw # Unread
                           /\ looks'[q].saw \in {Unread, looks[q].saw, atBroker}
    BY <1>3, <2>3
  <2> QED
    BY <1>3, <2>1, <2>4, <2>5, LearningKeeps
<1>10. ASSUME NEW r \in ReadIds, BrokerAnswers(r) PROVE SequenceInv'
  <2>1. /\ UNCHANGED <<plan, atBroker, calls, newest, latest, judged>>
        /\ looks' = [looks EXCEPT ![r] = [is |-> "answered", saw |-> atBroker]]
    BY <1>10 DEF BrokerAnswers
  <2>2. /\ looks' \in [ReadIds -> [is : {"idle", "asked", "answered", "done", "failed"},
                                   saw : Sights \cup {Unread}]]
        /\ \A q \in ReadIds : looks'[q] = IF q = r THEN [is |-> "answered", saw |-> atBroker] ELSE looks[q]
    BY <1>2, <2>1
  <2>3. SequenceTyped'
    BY <1>2, <2>1, <2>2 DEF SequenceTyped
  <2>4. \A q \in ReadIds : /\ looks'[q].is = "answered" => looks'[q].saw # Unread
                           /\ looks'[q].saw \in {Unread, looks[q].saw, atBroker}
    BY <1>2, <1>3, <1>4, <2>2
  <2> QED
    BY <1>3, <2>1, <2>3, <2>4, LearningKeeps
<1>11. ASSUME NEW r \in ReadIds, Return(r) PROVE SequenceInv'
  <2> DEFINE look == [is |-> "done", saw |-> IF Unjudged THEN Unread ELSE looks[r].saw]
  <2>1. /\ UNCHANGED <<plan, atBroker, calls, judged>> /\ looks[r].is = "answered"
        /\ looks' = [looks EXCEPT ![r] = look]
        /\ Learn(looks[r].saw) /\ latest' = looks[r].saw
    BY <1>11 DEF Return
  <2>2. looks[r].saw \in Sights /\ Shown(looks[r].saw, atBroker)
    BY <1>2, <1>3, <2>1
  <2>3. newest' \in Sights /\ Known(newest', atBroker)
    BY <2>1, <2>2, LearnKeeps DEF Shown
  <2>4. look.is = "done" /\ look.saw \in {Unread, looks[r].saw} /\ look = [is |-> look.is, saw |-> look.saw]
    OBVIOUS
  <2> HIDE DEF look
  <2>5. /\ looks' \in [ReadIds -> [is : {"idle", "asked", "answered", "done", "failed"},
                                   saw : Sights \cup {Unread}]]
        /\ \A q \in ReadIds : looks'[q] = IF q = r THEN look ELSE looks[q]
    BY <1>2, <2>1, <2>2, <2>4
  <2>6. SequenceTyped'
    BY <1>2, <2>1, <2>2, <2>3, <2>5 DEF SequenceTyped
  <2>7. \A q \in ReadIds : /\ looks'[q].is = "answered" => looks'[q].saw # Unread
                           /\ looks'[q].saw \in {Unread, looks[q].saw, atBroker}
    BY <1>3, <2>4, <2>5
  <2> QED
    BY <2>1, <2>2, <2>3, <2>6, <2>7, LearningKeeps
<1>12. ASSUME NEW n \in 1..Target, Dispatch(n) PROVE SequenceInv'
  <2> DEFINE found == [asked |-> n, newest |-> newest, latest |-> latest, calls |-> calls,
                       flying |-> Flying, truth |-> atBroker]
  <2>1. /\ UNCHANGED <<plan, atBroker, calls, looks, newest, latest>> /\ judged' = found
    BY <1>12 DEF Dispatch
  <2>2. Flying \in SUBSET ReadIds
    BY DEF Flying
  <2>3. found \in Judgements
    BY <1>2, <2>2 DEF Judgements
  <2>4. /\ found.truth = atBroker /\ found.newest = newest /\ found.latest = latest
        /\ found.calls = calls
    OBVIOUS
  <2> HIDE DEF found
  <2>5. SequenceTyped'
    BY <1>2, <2>1, <2>3 DEF SequenceTyped
  <2>6. AtBrokerInv'
    BY <1>1, <2>1 DEF AtBrokerInv
  <2>7. SeenInv'
    <3>1. /\ Known(newest', atBroker') /\ (latest' # Unread => Shown(latest', atBroker'))
          /\ \A r \in ReadIds : /\ looks'[r].is = "answered" => looks'[r].saw # Unread
                                /\ looks'[r].saw # Unread => Shown(looks'[r].saw, atBroker')
      BY <1>3, <2>1
    <3> QED
      BY <3>1 DEF SeenInv
  <2>8. JudgedInv'
    <3>1. /\ judged'.truth = atBroker'
          /\ Known(judged'.newest, atBroker')
          /\ (judged'.latest # Unread => Shown(judged'.latest, atBroker'))
          /\ \A c \in {"place", "cancel"} : judged'.calls[c] = "ok" => calls'[c] = "ok"
          /\ judged'.calls["place"] = "idle" => atBroker'["own"] = Absent
      BY <1>1, <1>3, <2>1, <2>4 DEF AtBrokerInv
    <3> QED
      BY <3>1 DEF JudgedInv
  <2> QED
    BY <2>5, <2>6, <2>7, <2>8 DEF SequenceInv
<1> QED
  BY <1>5, <1>6, <1>7, <1>8, <1>9, <1>10, <1>11, <1>12 DEF OrderAuditNext

LEMMA SequenceBeginsWell ==
  ASSUME NEW busy \in BOOLEAN, OrderAuditBegins(busy)
  PROVE  SequenceInv
<1>1. PICK old \in (IF busy THEN {Absent, New} ELSE {Absent}) :
        atBroker = [o \in Others |-> IF o = "old" THEN old ELSE Absent]
  BY DEF OrderAuditBegins
<1>2. /\ plan \in Plans
      /\ calls = [c \in {"place", "cancel"} |-> "idle"]
      /\ looks = [r \in ReadIds |-> [is |-> "idle", saw |-> Unread]]
      /\ newest = [o \in Others |-> Absent] /\ latest = Unread /\ judged = Unread
  BY DEF OrderAuditBegins, Plans
<1>3. old \in {Absent, New} /\ Target \in Nat /\ Target # 0
  BY OrderAuditAssumption
<1>4. SequenceTyped
  <2>1. atBroker \in Sights /\ newest \in Sights /\ calls \in CallStates
    BY <1>1, <1>2, <1>3, VersionsAre DEF Sights, CallStates
  <2> QED
    BY <1>2, <2>1 DEF SequenceTyped
<1>5. AtBrokerInv
  <2>1. \A o \in Others : atBroker[o] = Absent \/ atBroker[o] = New
    BY <1>1, <1>3
  <2>2. "old" \in Others /\ "own" \in Others
    BY DEF Others
  <2>3. atBroker["own"] = Absent
    BY <1>1, <2>2
  <2> QED
    BY <1>3, <2>1, <2>2, <2>3, VersionsAre DEF AtBrokerInv
<1>6. SeenInv
  <2>1. Known(newest, atBroker)
    BY <1>2 DEF Known, Past
  <2> QED
    BY <1>2, <2>1 DEF SeenInv
<1>7. JudgedInv
  BY <1>2 DEF JudgedInv
<1> QED
  BY <1>4, <1>5, <1>6, <1>7 DEF SequenceInv

----------------------------------------------------------------------------
(* The order sequence: what the audit says is so.                          *)

\* At the judged dispatch: what was known of an order that had ended is how it ended, and an order
\* of the earlier run that works is seen working by every read.
LEMMA JudgedKnows ==
  ASSUME SequenceInv, judged # Unread
  PROVE  /\ \A o \in Others :
              /\ judged.newest[o] \in Versions /\ judged.truth[o] \in Versions
              /\ judged.newest[o].is = "ended" => judged.newest[o] = judged.truth[o]
              /\ judged.newest[o] # Absent => judged.truth[o].is # "absent"
              /\ judged.newest[o].filled <= judged.truth[o].filled
              /\ newest[o].filled <= judged.truth[o].filled
              /\ judged.latest # Unread /\ judged.truth[o].is = "working" /\ judged.latest[o] # Absent
                   => judged.latest[o].is = "working"
              /\ judged.latest # Unread /\ judged.truth[o] = Absent => judged.latest[o] = Absent
         /\ judged.truth["old"].is = "working" =>
              /\ judged.latest # Unread => judged.latest["old"].is = "working"
              /\ judged.newest["old"] \in {Absent, New}
         /\ judged.calls["place"] = "idle" => judged.truth["own"] = Absent
         /\ \A c \in {"place", "cancel"} : judged.calls[c] = "ok" => calls[c] = "ok"
         /\ \A o \in Others : judged.truth[o].filled \in 0..Target
         /\ judged.asked \in 1..Target
<1>1. SequenceTyped /\ AtBrokerInv /\ SeenInv /\ JudgedInv
  BY DEF SequenceInv
<1>2. /\ judged \in Judgements /\ atBroker \in Sights /\ newest \in Sights
  BY <1>1 DEF SequenceTyped
<1>3. /\ judged.truth = atBroker
      /\ Known(judged.newest, atBroker) /\ (judged.latest # Unread => Shown(judged.latest, atBroker))
      /\ \A c \in {"place", "cancel"} : judged.calls[c] = "ok" => calls[c] = "ok"
      /\ judged.calls["place"] = "idle" => atBroker["own"] = Absent
  BY <1>1 DEF JudgedInv
<1>4. judged.newest \in Sights /\ judged.latest \in Sights \cup {Unread} /\ judged.asked \in 1..Target
  BY <1>2 DEF Judgements
<1>5. Known(newest, atBroker)
  BY <1>1 DEF SeenInv
<1>6. ASSUME NEW u \in Versions, NEW v \in Versions, Past(u, v)
      PROVE  /\ u.is = "ended" => u = v
             /\ u # Absent /\ v.is = "absent" => u = v
             /\ u.filled <= v.filled
             /\ v.is = "working" /\ u # Absent => u.is = "working"
             /\ v = Absent => u = Absent
             /\ u.filled \in 0..Target /\ v.filled \in 0..Target
  <2>1. u.filled \in 0..Target /\ v.filled \in 0..Target /\ Target \in Nat
    BY OrderAuditAssumption DEF Versions
  <2>2. Absent.is = "absent" /\ Absent.filled = 0
    BY DEF Absent
  <2>3. u.filled <= v.filled
    BY <1>6, <2>1, <2>2 DEF Past
  <2> HIDE DEF Absent
  <2> QED
    BY <1>6, <2>1, <2>2, <2>3 DEF Past
<1>7. ASSUME NEW o \in Others
      PROVE  /\ judged.newest[o] \in Versions /\ judged.truth[o] \in Versions
             /\ judged.newest[o].is = "ended" => judged.newest[o] = judged.truth[o]
             /\ judged.newest[o] # Absent => judged.truth[o].is # "absent"
             /\ judged.newest[o].filled <= judged.truth[o].filled
             /\ newest[o].filled <= judged.truth[o].filled
             /\ judged.truth[o].filled \in 0..Target
  <2>1. judged.newest[o] \in Versions /\ judged.truth[o] \in Versions /\ newest[o] \in Versions
    BY <1>2, <1>3, <1>4 DEF Sights
  <2>2. Past(judged.newest[o], judged.truth[o]) /\ Past(newest[o], judged.truth[o])
    BY <1>3, <1>5 DEF Known
  <2>3. judged.truth[o].is = "absent" => judged.truth[o] = Absent
    BY <1>1, <1>3 DEF AtBrokerInv
  <2> QED
    BY <1>6, <2>1, <2>2, <2>3
<1>8. ASSUME NEW o \in Others, judged.latest # Unread
      PROVE  /\ judged.truth[o].is = "working" /\ judged.latest[o] # Absent
                  => judged.latest[o].is = "working"
             /\ judged.truth[o] = Absent => judged.latest[o] = Absent
  <2>1. judged.latest[o] \in Versions /\ judged.truth[o] \in Versions
    BY <1>2, <1>3, <1>4, <1>8 DEF Sights
  <2>2. Past(judged.latest[o], judged.truth[o])
    BY <1>3, <1>8 DEF Shown, Known
  <2> QED
    BY <1>6, <2>1, <2>2
<1>9. ASSUME judged.truth["old"].is = "working"
      PROVE  /\ judged.latest # Unread => judged.latest["old"].is = "working"
             /\ judged.newest["old"] \in {Absent, New}
  <2>1. "old" \in Others
    BY DEF Others
  <2>2. judged.truth["old"] # Absent
    BY <1>9, VersionsAre
  <2>3. judged.latest # Unread => judged.latest["old"].is = "working"
    BY <1>3, <1>8, <1>9, <2>1, <2>2 DEF Shown
  <2>4. judged.truth["old"].filled = 0 /\ judged.newest["old"].filled = 0
    <3>1. judged.truth["old"].filled = 0
      BY <1>1, <1>3 DEF AtBrokerInv
    <3>2. judged.newest["old"].filled <= 0 /\ judged.newest["old"] \in Versions
      BY <1>7, <2>1, <3>1
    <3> QED
      BY <3>1, <3>2, OrderAuditAssumption DEF Versions
  <2>5. judged.newest["old"] = Absent \/ judged.newest["old"].is = "working"
    <3>1. Past(judged.newest["old"], judged.truth["old"])
      BY <1>3, <2>1 DEF Known
    <3> QED
      BY <1>9, <3>1 DEF Past
  <2>6. judged.newest["old"] = Absent \/ judged.newest["old"] = New
    BY <1>7, <2>1, <2>4, <2>5 DEF Versions, New
  <2> QED
    BY <2>3, <2>6
<1> QED
  BY <1>3, <1>4, <1>7, <1>8, <1>9

\* OrderAuditSound in every state of the invariant.
LEMMA SequenceHolds ==
  ASSUME SequenceInv
  PROVE  OrderAuditSound
<1> SUFFICES ASSUME Audited
             PROVE  ClearedWasTrue /\ ProvenIsCleared /\ CheckedAgainstAll /\ RemainderFits
  BY DEF OrderAuditSound
<1>1. judged # Unread /\ plan \in Plans /\ "old" \in Others /\ "own" \in Others /\ calls \in CallStates
      /\ judged.calls \in CallStates
  BY DEF Audited, Unjudged, SequenceInv, SequenceTyped, Others, Judgements
<1>2. Target \in Nat /\ Target # 0 /\ Unread \notin Nat
  BY OrderAuditAssumption
<1> DEFINE known == judged.newest
           truth == judged.truth
<1>3. /\ \A o \in Others :
           /\ known[o] \in Versions /\ truth[o] \in Versions
           /\ known[o].is = "ended" => known[o] = truth[o]
           /\ known[o] # Absent => truth[o].is # "absent"
           /\ known[o].filled <= truth[o].filled
           /\ newest[o].filled <= truth[o].filled
           /\ truth[o].filled \in 0..Target
      /\ truth["old"].is = "working" =>
           /\ judged.latest # Unread => judged.latest["old"].is = "working"
           /\ known["old"] \in {Absent, New}
      /\ judged.calls["place"] = "idle" => truth["own"] = Absent
      /\ \A c \in {"place", "cancel"} : judged.calls[c] = "ok" => calls[c] = "ok"
      /\ judged.asked \in 1..Target
  BY <1>1, JudgedKnows
<1>4. \A o \in Others :
        /\ judged.latest # Unread /\ truth[o].is = "working" /\ judged.latest[o] # Absent
             => judged.latest[o].is = "working"
        /\ judged.latest # Unread /\ truth[o] = Absent => judged.latest[o] = Absent
  BY <1>1, JudgedKnows
<1> HIDE DEF known, truth
<1>5. \A o \in Others : StatusBefore(o) = Absent \/ StatusBefore(o) = known[o]
  BY DEF StatusBefore, known
<1>6. ASSUME NEW o \in Others, Working(o) = "no"
      PROVE  StatusBefore(o) = truth[o] /\ truth[o].is = "ended"
  <2>1. StatusBefore(o) # Absent /\ StatusBefore(o).is # "working"
    BY <1>6 DEF Working
  <2>2. StatusBefore(o) = known[o] /\ known[o] \in Versions /\ known[o] # Absent
    BY <1>3, <1>5, <2>1
  <2>3. known[o].is # "absent"
    <3>1. ASSUME known[o].is = "absent" PROVE known[o].is = "ended"
      <4>1. Past(known[o], truth[o])
        BY <1>1 DEF SequenceInv, JudgedInv, Known, known, truth
      <4>2. known[o] = truth[o]
        BY <2>2, <3>1, <4>1 DEF Past
      <4> QED
        BY <1>3, <2>2, <3>1, <4>2
    <3> QED
      BY <3>1
  <2>4. known[o].is = "ended"
    BY <2>1, <2>2, <2>3 DEF Versions
  <2> QED
    BY <1>3, <2>2, <2>4
<1>7. \A o \in Others : Working(o) \in {"unknown", "yes", "no"}
  BY DEF Working
<1>8. \A o \in Others : FillsBefore(o) # Unread => FillsBefore(o) = StatusBefore(o).filled
  BY DEF FillsBefore
<1>9. ClearedWasTrue
  <2> SUFFICES ASSUME Findings = {"ok"}
               PROVE  /\ truth["old"].is # "working"
                      /\ OnTheContract => truth["own"].is # "working"
                      /\ plan = "walk" => truth["own"].filled < Target
                      /\ plan = "roll" => truth["own"].filled = Target
    BY DEF ClearedWasTrue, truth
  <2>1. Replacement = "ok" /\ SingleWorking = "ok" /\ RollSequence = "ok"
    BY DEF Findings
  <2>2. truth["old"].is # "working"
    <3> SUFFICES ASSUME truth["old"].is = "working" PROVE FALSE
      OBVIOUS
    <3>1. judged.latest # Unread
      BY <2>1 DEF SingleWorking
    <3>2. "old" \in ListedWorking
      BY <1>1, <1>3, <3>1 DEF ListedWorking, Linked
    <3>3. Working("old") # "no"
      <4>1. StatusBefore("old") = Absent \/ StatusBefore("old").is = "working"
        BY <1>1, <1>3, <1>5, VersionsAre
      <4> QED
        BY <4>1 DEF Working
    <3> QED
      BY <2>1, <3>1, <3>2, <3>3 DEF SingleWorking
  <2>3. OnTheContract => truth["own"].is # "working"
    <3>1. OnTheContract => Working("own") = "no"
      BY <1>1, <1>7, <2>1 DEF SingleWorking
    <3> QED
      BY <1>1, <1>6, <3>1
  <2>4. plan = "walk" => truth["own"].filled < Target
    <3> SUFFICES ASSUME plan = "walk" PROVE truth["own"].filled < Target
      OBVIOUS
    <3>1. CASE ~PlacedBefore
      <4>1. truth["own"].filled = 0
        BY <1>3, <3>1, VersionsAre DEF PlacedBefore
      <4> QED
        BY <1>2, <4>1
    <3>2. CASE PlacedBefore
      <4>1. Working("own") = "no" /\ FillsBefore("own") # Unread /\ ~(FillsBefore("own") >= Target)
        BY <1>1, <1>7, <2>1, <3>2 DEF Replacement
      <4>2. FillsBefore("own") = truth["own"].filled
        BY <1>1, <1>6, <1>8, <4>1
      <4>3. truth["own"].filled \in Nat
        BY <1>1, <1>2, <1>3
      <4> QED
        BY <1>2, <4>1, <4>2, <4>3
    <3> QED
      BY <3>1, <3>2
  <2>5. plan = "roll" => truth["own"].filled = Target
    <3> SUFFICES ASSUME plan = "roll" PROVE truth["own"].filled = Target
      OBVIOUS
    <3>1. FillsBefore("own") # Unread /\ ~(FillsBefore("own") < Target)
      BY <2>1 DEF RollSequence
    <3>2. StatusBefore("own").filled \in Nat /\ StatusBefore("own").filled <= truth["own"].filled
      BY <1>1, <1>2, <1>3, <1>5, VersionsAre DEF Versions
    <3>3. ~(StatusBefore("own").filled < Target)
      BY <1>1, <1>8, <3>1
    <3>4. truth["own"].filled \in 0..Target
      BY <1>1, <1>3
    <3> QED
      BY <1>2, <3>2, <3>3, <3>4
  <2> QED
    BY <2>2, <2>3, <2>4, <2>5
<1>10. ProvenIsCleared
  <2> SUFFICES ASSUME judged.flying = {}, \A c \in DOMAIN calls : judged.calls[c] \in {"idle", "ok"},
                      judged.latest # Unread, known["old"].is # "working", known["old"] = truth["old"],
                      PlacedBefore =>
                        /\ known["own"].is = "ended" /\ known["own"].filled > 0
                        /\ plan = "walk" => known["own"].filled < Target
                        /\ plan = "roll" => known["own"].filled = Target,
                      plan = "roll" => PlacedBefore
               PROVE  Findings = {"ok"}
    BY DEF ProvenIsCleared, known, truth
  <2>1. \A c \in {"place", "cancel"} : judged.calls[c] \in {"idle", "ok"}
    BY <1>1 DEF CallStates
  <2>2. \A o \in Others : ~Overlap(o)
    BY <2>1 DEF Overlap
  <2>3. PlacedBefore =>
          /\ StatusBefore("own") = known["own"] /\ Working("own") = "no"
          /\ FillsBefore("own") = known["own"].filled /\ FillsBefore("own") # Unread
    <3> SUFFICES ASSUME PlacedBefore
                 PROVE  /\ StatusBefore("own") = known["own"] /\ Working("own") = "no"
                        /\ FillsBefore("own") = known["own"].filled /\ FillsBefore("own") # Unread
      OBVIOUS
    <3>1. calls["place"] = "ok"
      BY <1>3, <2>1 DEF PlacedBefore
    <3>2. StatusBefore("own") = known["own"]
      BY <3>1 DEF StatusBefore, Linked, known
    <3>3. known["own"].filled \in Nat /\ known["own"].filled # 0
      BY <1>1, <1>2, <1>3 DEF Versions
    <3>4. known["own"] # Absent
      BY VersionsAre
    <3> QED
      BY <1>1, <1>2, <2>2, <3>2, <3>3, <3>4 DEF Working, FillsBefore
  <2>4. Replacement = "ok"
    <3>1. PlacedBefore => known["own"].filled \in Nat
      BY <1>1, <1>2, <1>3 DEF Versions
    <3>2. plan = "walk" /\ PlacedBefore => ~(FillsBefore("own") >= Target)
      BY <1>2, <2>3, <3>1
    <3> QED
      BY <2>3, <3>2 DEF Replacement
  <2>5. SingleWorking = "ok"
    <3>1. OnTheContract => Working("own") = "no"
      BY <2>3 DEF OnTheContract
    <3>2. "old" \in ListedWorking => Working("old") = "no"
      <4>1. StatusBefore("old") = known["old"]
        BY DEF StatusBefore, Linked, known
      <4>2. CASE known["old"] = Absent
        <5>1. judged.latest["old"] = Absent
          BY <1>1, <1>4, <4>2
        <5> QED
          BY <5>1, VersionsAre DEF ListedWorking
      <4>3. CASE known["old"] # Absent
        BY <1>1, <2>2, <4>1, <4>3 DEF Working
      <4> QED
        BY <4>2, <4>3
    <3> QED
      BY <3>1, <3>2 DEF SingleWorking
  <2>6. RollSequence = "ok"
    <3>1. plan = "roll" => ~(FillsBefore("own") < Target)
      BY <1>2, <2>3
    <3> QED
      BY <2>3, <3>1 DEF RollSequence
  <2>7. StopOnError = "ok"
    <3>1. DOMAIN calls = {"place", "cancel"}
      BY <1>1 DEF CallStates
    <3> QED
      BY <2>1, <3>1 DEF StopOnError
  <2> QED
    BY <2>4, <2>5, <2>6, <2>7 DEF Findings
<1>11. CheckedAgainstAll
  <2> SUFFICES ASSUME Reflected, NEW o \in Others, truth[o].is = "working"
               PROVE  judged.latest[o].is = "working"
    BY DEF CheckedAgainstAll, truth
  <2>1. judged.latest # Unread /\ (PlacedBefore => judged.latest["own"] # Absent)
    BY DEF Reflected
  <2>2. CASE o = "old"
    BY <1>3, <2>1, <2>2
  <2>3. CASE o = "own"
    <3>1. PlacedBefore
      BY <1>3, <2>3, VersionsAre DEF PlacedBefore
    <3> QED
      BY <1>4, <2>1, <2>3, <3>1
  <2> QED
    BY <2>2, <2>3 DEF Others
<1>12. RemainderFits
  <2> SUFFICES ASSUME Replacement = "ok", PlacedBefore, plan = "walk",
                      judged.asked <= Target - FillsBefore("own"), Exceeds
               PROVE  FALSE
    BY DEF RemainderFits
  <2>1. Working("own") = "no" /\ FillsBefore("own") # Unread
    BY <1>1, <1>7 DEF Replacement
  <2>2. FillsBefore("own") = truth["own"].filled
    BY <1>1, <1>6, <1>8, <2>1
  <2>3. judged.asked > Target - newest["own"].filled
    BY DEF Exceeds
  <2>4. /\ newest["own"].filled <= truth["own"].filled /\ truth["own"].filled \in Int
        /\ judged.asked \in Int /\ newest["own"].filled \in Int
    <3>1. newest["own"] \in Versions
      BY <1>1 DEF SequenceInv, SequenceTyped, Sights
    <3> QED
      BY <1>1, <1>2, <1>3, <3>1 DEF Versions
  <2> QED
    BY <1>2, <2>2, <2>3, <2>4
<1> QED
  BY <1>9, <1>10, <1>11, <1>12

\* The order sequence's variables have their types.
LEMMA SequenceTypes ==
  ASSUME SequenceInv
  PROVE  OrderAuditTypeOK
<1>1. SequenceTyped
  BY DEF SequenceInv
<1> QED
  BY <1>1 DEF SequenceTyped, OrderAuditTypeOK, Unjudged

\* The sequence's variables at rest.
LEMMA SequenceRests ==
  ASSUME SequenceInv, UNCHANGED orderAuditVars
  PROVE  SequenceInv'
<1>1. /\ plan' = plan /\ atBroker' = atBroker /\ calls' = calls /\ looks' = looks
      /\ newest' = newest /\ latest' = latest /\ judged' = judged
  BY DEF orderAuditVars
<1>2. SequenceTyped /\ AtBrokerInv /\ SeenInv /\ JudgedInv
  BY DEF SequenceInv
<1>3. SequenceTyped'
  BY <1>1, <1>2 DEF SequenceTyped
<1>4. AtBrokerInv'
  BY <1>1, <1>2 DEF AtBrokerInv
<1>5. SeenInv'
  BY <1>1, <1>2 DEF SeenInv, Known, Shown
<1>6. JudgedInv'
  BY <1>1, <1>2 DEF JudgedInv, Known, Shown
<1> QED
  BY <1>3, <1>4, <1>5, <1>6 DEF SequenceInv

\* In every reachable state what the ledger knows of the orders was once so at the broker.
THEOREM SequenceInvariant == Spec => []SequenceInv
<1>1. Init => SequenceInv
  BY SequenceBeginsWell DEF Init
<1>2. SequenceInv /\ [Next]_recordVars => SequenceInv'
  <2>1. SequenceInv /\ UNCHANGED orderAuditVars => SequenceInv'
    BY SequenceRests
  <2>2. SequenceInv /\ OrderAuditNext => SequenceInv'
    BY SequenceKeeps
  <2>3. [Next]_recordVars => UNCHANGED orderAuditVars \/ OrderAuditNext
    BY DEF Next, recordVars
  <2> QED
    BY <2>1, <2>2, <2>3
<1> QED
  BY <1>1, <1>2, PTL DEF Spec

\* OrderAuditSound: a sequence that v6_sequence clears was one, a proven one is cleared, and a
\* state taken as known held everything that was working, however calls, answers and reads crossed.
THEOREM OrderAuditIsSound == Spec => []OrderAuditSound
<1>1. SequenceInv => OrderAuditSound
  BY SequenceHolds
<1> QED
  BY <1>1, SequenceInvariant, PTL

----------------------------------------------------------------------------
(* The record of the run: the inductive invariant.                         *)

\* Orders: the broker has none of a call that was not sent, and what the ledger knows of an order
\* is there, and is final there where it is final here.
OrdersInv ==
  \A w \in Works : /\ places[w] \in {"none", "denied", "unsent"} => orderOf[w] = "none"
                   /\ orderOf[w] = "none" => seen[w] = "none"
                   /\ seen[w] \in Terminal => orderOf[w] = seen[w]

\* Only a cancel of an order of this run is confirmed.
ConfirmedInv == \A c \in Cancels : cancelSeen[c] = "confirmed" => CancelledWork(c) \in Works

\* A run that executes no orders makes no calls, and is told of none.
IdleInv ==
  venue = "none" =>
    /\ \A w \in Works : places[w] = "none"
    /\ \A c \in Cancels : cancelCall[c] = "none"
    /\ delivered = {}

AsmTyped == AsmTypeOK /\ output \in Outputs \cup {Missing, Pending}

AsmInv == AsmTyped /\ OrdersInv /\ ConfirmedInv /\ IdleInv

----------------------------------------------------------------------------
(* The record of the run: every step keeps the invariant.                  *)

LEMMA CancelsAre ==
  ASSUME NEW c \in Cancels, CancelledWork(c) # Earlier
  PROVE  CancelledWork(c) \in Works
BY AssemblyAssumption DEF Cancels, CancelledWork

\* A step of a call or its order, of any of the places.
LEMMA PlacesKeep ==
  ASSUME AsmInv, NEW w \in Works, Place(w) \/ Take(w) \/ Settle(w) \/ PlaceReplies(w)
  PROVE  AsmInv'
<1>1. AsmTypeOK /\ output \in Outputs \cup {Missing, Pending} /\ OrdersInv /\ ConfirmedInv
  BY DEF AsmInv, AsmTyped
<1>2. venue = "executes" /\ venue' = venue /\ cancelCall' = cancelCall /\ cancelSeen' = cancelSeen
      /\ delivered' = delivered /\ output' = output
  BY DEF Place, Take, Settle, PlaceReplies, Executes, recordedVars
<1>3. /\ places \in [Works -> {"none", "denied", "unsent", "sent", "answered"}]
      /\ orderOf \in [Works -> {"none", "working"} \cup Terminal]
      /\ seen \in [Works -> {"none", "working"} \cup Terminal]
  BY <1>1 DEF AsmTypeOK
<1>4. ConfirmedInv' /\ IdleInv' /\ output' \in Outputs \cup {Missing, Pending}
  BY <1>1, <1>2 DEF ConfirmedInv, IdleInv
<1>5. /\ places' \in [Works -> {"none", "denied", "unsent", "sent", "answered"}]
      /\ orderOf' \in [Works -> {"none", "working"} \cup Terminal]
      /\ seen' \in [Works -> {"none", "working"} \cup Terminal]
      /\ OrdersInv'
  <2>1. CASE Place(w)
    <3>1. PICK how \in {"denied", "unsent", "sent"} : places' = [places EXCEPT ![w] = how]
      BY <2>1 DEF Place, SetPlace
    <3>2. orderOf' = orderOf /\ seen' = seen /\ places[w] = "none"
      BY <2>1 DEF Place
    <3> QED
      BY <1>1, <1>3, <3>1, <3>2 DEF OrdersInv
  <2>2. CASE Take(w)
    <3>1. /\ orderOf' = [orderOf EXCEPT ![w] = "working"] /\ seen' = seen /\ places' = places
          /\ places[w] = "sent" /\ orderOf[w] = "none"
      BY <2>2 DEF Take, recordedVars
    <3> QED
      BY <1>1, <1>3, <3>1 DEF OrdersInv, Terminal
  <2>3. CASE Settle(w)
    <3>1. PICK raw \in Terminal : orderOf' = [orderOf EXCEPT ![w] = raw]
      BY <2>3 DEF Settle
    <3>2. seen' = seen /\ places' = places /\ orderOf[w] = "working"
      BY <2>3 DEF Settle, recordedVars
    <3> QED
      BY <1>1, <1>3, <3>1, <3>2 DEF OrdersInv, Terminal
  <2>4. CASE PlaceReplies(w)
    <3>1. /\ places' = [places EXCEPT ![w] = "answered"] /\ orderOf' = orderOf /\ places[w] = "sent"
          /\ orderOf[w] # "none" /\ (seen' = seen \/ seen' = [seen EXCEPT ![w] = orderOf[w]])
      BY <2>4 DEF PlaceReplies, SetPlace
    <3>2. orderOf[w] \in {"none", "working"} \cup Terminal
      BY <1>3
    <3>3. CASE seen' = seen
      BY <1>1, <1>3, <3>1, <3>3 DEF OrdersInv
    <3>4. CASE seen' = [seen EXCEPT ![w] = orderOf[w]]
      BY <1>1, <1>3, <3>1, <3>2, <3>4 DEF OrdersInv
    <3> QED
      BY <3>1, <3>3, <3>4
  <2> QED
    BY <2>1, <2>2, <2>3, <2>4
<1>6. AsmTypeOK'
  BY <1>1, <1>2, <1>5 DEF AsmTypeOK
<1> QED
  BY <1>4, <1>5, <1>6 DEF AsmInv, AsmTyped

\* A step of a cancel call, or a reference that is delivered.
LEMMA CancelsKeep ==
  ASSUME AsmInv, NEW c \in Cancels, Cancel(c) \/ CancelReplies(c) \/ Deliver(c)
  PROVE  AsmInv'
<1>1. AsmTypeOK /\ output \in Outputs \cup {Missing, Pending} /\ OrdersInv /\ ConfirmedInv
  BY DEF AsmInv, AsmTyped
<1>2. venue = "executes" /\ venue' = venue /\ places' = places /\ orderOf' = orderOf /\ seen' = seen
      /\ output' = output
  BY DEF Cancel, CancelReplies, Deliver, Executes
<1>3. /\ cancelCall \in [Cancels -> {"none", "denied", "sent", "accepted"}]
      /\ cancelSeen \in [Cancels -> {"none", "pending", "confirmed"}]
      /\ delivered \subseteq Cancels
  BY <1>1 DEF AsmTypeOK
<1>4. OrdersInv' /\ IdleInv' /\ output' \in Outputs \cup {Missing, Pending}
  BY <1>1, <1>2 DEF OrdersInv, IdleInv
<1>5. /\ cancelCall' \in [Cancels -> {"none", "denied", "sent", "accepted"}]
      /\ cancelSeen' \in [Cancels -> {"none", "pending", "confirmed"}]
      /\ delivered' \subseteq Cancels
      /\ ConfirmedInv'
  <2>1. CASE Cancel(c)
    <3>1. PICK how \in {"denied", "sent"} : cancelCall' = [cancelCall EXCEPT ![c] = how]
      BY <2>1 DEF Cancel
    <3>2. cancelSeen' = cancelSeen /\ delivered' = delivered
      BY <2>1 DEF Cancel
    <3> QED
      BY <1>1, <1>3, <3>1, <3>2 DEF ConfirmedInv
  <2>2. CASE CancelReplies(c)
    <3>1. /\ cancelCall' = [cancelCall EXCEPT ![c] = "accepted"]
          /\ cancelSeen' = [cancelSeen EXCEPT ![c] = "pending"] /\ delivered' = delivered
      BY <2>2 DEF CancelReplies
    <3> QED
      BY <1>1, <1>3, <3>1 DEF ConfirmedInv
  <2>3. CASE Deliver(c)
    <3>1. delivered' = delivered \cup {c} /\ cancelCall' = cancelCall /\ cancelSeen' = cancelSeen
      BY <2>3 DEF Deliver
    <3> QED
      BY <1>1, <1>3, <3>1 DEF ConfirmedInv
  <2> QED
    BY <2>1, <2>2, <2>3
<1>6. AsmTypeOK'
  BY <1>1, <1>2, <1>5 DEF AsmTypeOK
<1> QED
  BY <1>4, <1>5, <1>6 DEF AsmInv, AsmTyped

\* A read of the orders.
LEMMA ReadKeeps ==
  ASSUME AsmInv, Read
  PROVE  AsmInv'
<1>1. AsmTypeOK /\ output \in Outputs \cup {Missing, Pending} /\ OrdersInv /\ ConfirmedInv
  BY DEF AsmInv, AsmTyped
<1>2. /\ venue = "executes" /\ venue' = venue /\ places' = places /\ orderOf' = orderOf
      /\ cancelCall' = cancelCall /\ delivered' = delivered /\ output' = output
      /\ seen' = [w \in Works |-> IF seen[w] = "none" THEN "none" ELSE orderOf[w]]
  BY DEF Read, Executes
<1>3. /\ orderOf \in [Works -> {"none", "working"} \cup Terminal]
      /\ seen \in [Works -> {"none", "working"} \cup Terminal]
      /\ cancelSeen \in [Cancels -> {"none", "pending", "confirmed"}]
  BY <1>1 DEF AsmTypeOK
<1>4. \A c \in Cancels : \/ cancelSeen'[c] = cancelSeen[c]
                         \/ cancelSeen'[c] = "confirmed" /\ CancelledWork(c) # Earlier
  BY DEF Read
<1>5. DOMAIN cancelSeen' = Cancels /\ cancelSeen' = [c \in Cancels |-> cancelSeen'[c]]
  BY DEF Read
<1>6. seen' \in [Works -> {"none", "working"} \cup Terminal] /\ OrdersInv'
  BY <1>1, <1>2, <1>3 DEF OrdersInv
<1>7. cancelSeen' \in [Cancels -> {"none", "pending", "confirmed"}]
  BY <1>3, <1>4, <1>5
<1>8. ConfirmedInv'
  BY <1>1, <1>4, CancelsAre DEF ConfirmedInv
<1>9. IdleInv' /\ output' \in Outputs \cup {Missing, Pending}
  BY <1>1, <1>2 DEF IdleInv
<1>10. AsmTypeOK'
  BY <1>1, <1>2, <1>6, <1>7 DEF AsmTypeOK
<1> QED
  BY <1>6, <1>8, <1>9, <1>10 DEF AsmInv, AsmTyped

\* The agent's answer ends the run.
LEMMA AnswerKeeps ==
  ASSUME AsmInv, Answer
  PROVE  AsmInv'
<1>1. /\ venue' = venue /\ places' = places /\ orderOf' = orderOf /\ seen' = seen
      /\ cancelCall' = cancelCall /\ cancelSeen' = cancelSeen /\ delivered' = delivered
      /\ output' \in Outputs \cup {Missing}
  BY DEF Answer, recordedVars
<1>2. AsmTypeOK /\ OrdersInv /\ ConfirmedInv /\ IdleInv
  BY DEF AsmInv, AsmTyped
<1>3. AsmTypeOK' /\ OrdersInv'
  BY <1>1, <1>2 DEF AsmTypeOK, OrdersInv
<1>4. ConfirmedInv' /\ IdleInv'
  BY <1>1, <1>2 DEF ConfirmedInv, IdleInv
<1> QED
  BY <1>1, <1>3, <1>4 DEF AsmInv, AsmTyped

LEMMA AsmRests ==
  ASSUME AsmInv, UNCHANGED asmVars
  PROVE  AsmInv'
<1>1. /\ venue' = venue /\ places' = places /\ orderOf' = orderOf /\ seen' = seen
      /\ cancelCall' = cancelCall /\ cancelSeen' = cancelSeen /\ delivered' = delivered
      /\ output' = output
  BY DEF asmVars, recordedVars
<1>2. AsmTypeOK /\ OrdersInv /\ ConfirmedInv /\ IdleInv /\ output \in Outputs \cup {Missing, Pending}
  BY DEF AsmInv, AsmTyped
<1>3. AsmTypeOK' /\ OrdersInv'
  BY <1>1, <1>2 DEF AsmTypeOK, OrdersInv
<1>4. ConfirmedInv' /\ IdleInv'
  BY <1>1, <1>2 DEF ConfirmedInv, IdleInv
<1> QED
  BY <1>1, <1>2, <1>3, <1>4 DEF AsmInv, AsmTyped

LEMMA AsmKeeps ==
  ASSUME AsmInv, AsmNext
  PROVE  AsmInv'
<1>1. CASE \E w \in Works : Place(w) \/ Take(w) \/ Settle(w) \/ PlaceReplies(w)
  BY <1>1, PlacesKeep
<1>2. CASE \E c \in Cancels : Cancel(c) \/ CancelReplies(c) \/ Deliver(c)
  BY <1>2, CancelsKeep
<1>3. CASE Read
  BY <1>3, ReadKeeps
<1>4. CASE Answer
  BY <1>4, AnswerKeeps
<1> QED
  BY <1>1, <1>2, <1>3, <1>4 DEF AsmNext

\* A run begins with nothing placed, known or answered.
LEMMA AsmBeginsWell ==
  ASSUME AsmInit
  PROVE  AsmInv
<1>1. AsmTypeOK
  BY DEF AsmInit, AsmTypeOK
<1>2. OrdersInv
  BY DEF AsmInit, OrdersInv, Terminal
<1>3. ConfirmedInv /\ IdleInv
  BY DEF AsmInit, ConfirmedInv, IdleInv
<1> QED
  BY <1>1, <1>2, <1>3 DEF AsmInv, AsmTyped, AsmInit

\* In every reachable state the ledger's orders are the broker's, and a dry run made no call.
THEOREM RecordInvariant == Spec => []AsmInv
<1>1. Init => AsmInv
  BY AsmBeginsWell DEF Init
<1>2. AsmInv /\ [Next]_recordVars => AsmInv'
  <2>1. AsmInv /\ UNCHANGED asmVars => AsmInv'
    BY AsmRests
  <2>2. AsmInv /\ AsmNext => AsmInv'
    BY AsmKeeps
  <2>3. [Next]_recordVars => UNCHANGED asmVars \/ AsmNext
    BY DEF Next, recordVars
  <2> QED
    BY <2>1, <2>2, <2>3
<1> QED
  BY <1>1, <1>2, PTL DEF Spec

\* TypeOK of MCRecord: every variable of the record, the research and the order sequence.
THEOREM RecordIsTyped == Spec => []TypeOK
<1>1. AsmInv /\ ResearchInv /\ SequenceInv => TypeOK
  BY ResearchHolds, SequenceTypes DEF AsmInv, AsmTyped, TypeOK
<1> QED
  BY <1>1, RecordInvariant, ResearchInvariant, SequenceInvariant, PTL

----------------------------------------------------------------------------
(* The record of the run: what it says is true.                            *)

\* An output is a list of decisions.
LEMMA OutputsAre ==
  ASSUME NEW out \in Outputs
  PROVE  /\ out.status = "parsed" /\ out # Missing /\ out # Pending
         /\ Len(out.decisions) \in Nat /\ Indices(out) = 1..Len(out.decisions) /\ 0 \notin Indices(out)
         /\ \A i \in Indices(out) : Decision(out, i) \in DecisionSays
         /\ out.rationales \subseteq OwnCancels
<1>1. out.status = "parsed" /\ out.decisions \in Seq(DecisionSays) /\ out.rationales \subseteq OwnCancels
  BY AssemblyAssumption
<1>2. out # Missing /\ out # Pending
  BY <1>1 DEF Missing, Pending
<1>3. Len(out.decisions) \in Nat /\ DOMAIN out.decisions = 1..Len(out.decisions)
      /\ \A i \in 1..Len(out.decisions) : out.decisions[i] \in DecisionSays
  BY <1>1
<1>4. Indices(out) = 1..Len(out.decisions) /\ 0 \notin Indices(out)
  BY <1>1, <1>3 DEF Indices
<1> QED
  BY <1>1, <1>2, <1>3, <1>4 DEF Decision

\* A call that one decision claims is cited by it, and claimed by no other.
LEMMA ClaimsAreCited ==
  ASSUME NEW out \in Outputs, NEW call, NEW i \in Indices(out), ClaimedBy(out, call, i)
  PROVE  /\ call[2] \in Decision(out, i).cites /\ call[2] \in delivered
         /\ \A j : ClaimedBy(out, call, j) => j = i
<1>1. Claims(out, call) = {i} /\ i \in Claims(out, call) /\ i # 0
  BY OutputsAre DEF ClaimedBy
<1>2. call[2] \in delivered
  BY <1>1 DEF Claims
<1>3. i \in {j \in Indices(out) : call[2] \in Decision(out, j).cites}
  BY <1>1 DEF Claims
<1>4. \A j : ClaimedBy(out, call, j) => j = i
  BY <1>1 DEF ClaimedBy
<1> QED
  BY <1>2, <1>3, <1>4

\* A place call is an attempt at the one leg that has its side, of the one decision that cites it.
LEMMA AttemptsHaveOneHome ==
  ASSUME NEW out \in Outputs, NEW w \in Works, NEW i \in Indices(out), NEW r, Attempted(out, i, r, w)
  PROVE  /\ w \in Decision(out, i).cites /\ r = WorkRole[w] /\ r \in RolesOf(Decision(out, i))
         /\ RefContract[Subject(Decision(out, i), r)] = WorkContract[w]
         /\ \A j, q : Attempted(out, j, q, w) => j = i /\ q = r
<1>1. ClaimedBy(out, <<"place", w>>, i) /\ Fits(Decision(out, i), r, w)
  BY DEF Attempted
<1>2. /\ <<"place", w>>[2] \in Decision(out, i).cites
      /\ \A j : ClaimedBy(out, <<"place", w>>, j) => j = i
  BY <1>1, ClaimsAreCited
<1>3. /\ r = WorkRole[w] /\ r \in RolesOf(Decision(out, i))
      /\ RefContract[Subject(Decision(out, i), r)] = WorkContract[w]
  BY <1>1 DEF Fits
<1>4. \A j, q : Attempted(out, j, q, w) => j = i /\ q = r
  BY <1>2, <1>3 DEF Attempted, Fits
<1> QED
  BY <1>2, <1>3, <1>4

\* What the record says of an order is what the broker says.
LEMMA RecordIsHonest ==
  ASSUME AsmInv
  PROVE  AttemptsHonest
<1>1. AsmTypeOK /\ OrdersInv /\ ConfirmedInv
  BY DEF AsmInv, AsmTyped
<1>2. seen \in [Works -> {"none", "working"} \cup Terminal]
  BY <1>1 DEF AsmTypeOK
<1>3. ASSUME NEW w \in Works
      PROVE  /\ AttemptStatus(w) = "not_placed" => places[w] = "denied" /\ orderOf[w] = "none"
             /\ AttemptStatus(w) \in Terminal => orderOf[w] = AttemptStatus(w)
  <2>1. /\ places[w] = "denied" => orderOf[w] = "none"
        /\ seen[w] \in Terminal => orderOf[w] = seen[w]
    BY <1>1 DEF OrdersInv
  <2>2. seen[w] \in {"none", "working", "filled", "cancelled"}
    BY <1>2 DEF Terminal
  <2>3. CASE places[w] = "denied"
    BY <2>1, <2>3 DEF AttemptStatus, Terminal
  <2>4. CASE places[w] # "denied" /\ seen[w] = "none"
    BY <2>4 DEF AttemptStatus, Terminal
  <2>5. CASE places[w] # "denied" /\ seen[w] # "none"
    BY <2>1, <2>2, <2>5 DEF AttemptStatus
  <2> QED
    BY <2>3, <2>4, <2>5
<1>4. ASSUME NEW c \in Cancels, CancelReported(c) = "confirmed"
      PROVE  orderOf[CancelledWork(c)] \in Terminal
  <2>1. cancelSeen[c] = "confirmed" /\ seen[CancelledWork(c)] \in Terminal
    BY <1>4 DEF CancelReported
  <2>2. CancelledWork(c) \in Works
    BY <1>1, <2>1 DEF ConfirmedInv
  <2> QED
    BY <1>1, <2>1, <2>2 DEF OrdersInv
<1> QED
  BY <1>3, <1>4 DEF AttemptsHonest

\* A place call is in the record once.
LEMMA PlacesAreOnce ==
  ASSUME AsmInv, Ended
  PROVE  AttributedOnce
<1>1. CASE output \in Outputs
  <2> SUFFICES ASSUME NEW w \in Works, places[w] # "none"
      PROVE  LET homes == {leg \in Indices(output) \X Roles : Attempted(output, leg[1], leg[2], w)} IN
               /\ Cardinality(homes) = (IF w \in UnassociatedPlaces(output) THEN 0 ELSE 1)
               /\ \A leg \in homes :
                    /\ w \in Decision(output, leg[1]).cites
                    /\ RefContract[Subject(Decision(output, leg[1]), leg[2])] = WorkContract[w]
               /\ \A n, m \in EntryNotes(output) : n[2] = m[2] => n = m
    BY DEF AttributedOnce
  <2> DEFINE homes == {leg \in Indices(output) \X Roles : Attempted(output, leg[1], leg[2], w)}
  <2>1. ASSUME NEW leg \in homes
        PROVE  /\ w \in Decision(output, leg[1]).cites
               /\ RefContract[Subject(Decision(output, leg[1]), leg[2])] = WorkContract[w]
               /\ homes = {leg} /\ w \in AssociatedPlaces(output)
    <3>1. leg[1] \in Indices(output) /\ Attempted(output, leg[1], leg[2], w) /\ leg = <<leg[1], leg[2]>>
      OBVIOUS
    <3>2. /\ w \in Decision(output, leg[1]).cites /\ leg[2] = WorkRole[w]
          /\ RefContract[Subject(Decision(output, leg[1]), leg[2])] = WorkContract[w]
          /\ \A j, q : Attempted(output, j, q, w) => j = leg[1] /\ q = leg[2]
      BY <1>1, <3>1, AttemptsHaveOneHome
    <3>3. \A also \in homes : also = <<also[1], also[2]>>
                               /\ Attempted(output, also[1], also[2], w)
      OBVIOUS
    <3>4. homes = {leg}
      <4>1. \A also \in homes : also = leg
        BY <3>1, <3>2, <3>3
      <4> QED
        BY <4>1
    <3>5. w \in AssociatedPlaces(output)
      BY <3>1, <3>2 DEF AssociatedPlaces
    <3> QED
      BY <3>2, <3>4, <3>5
  <2>2. ASSUME homes = {} PROVE w \in UnassociatedPlaces(output)
    <3> SUFFICES ASSUME w \in AssociatedPlaces(output) PROVE FALSE
      BY DEF UnassociatedPlaces
    <3>1. PICK i \in Indices(output) : Attempted(output, i, WorkRole[w], w)
      BY DEF AssociatedPlaces
    <3>2. WorkRole[w] \in Roles
      BY AssemblyAssumption
    <3>3. <<i, WorkRole[w]>> \in homes
      BY <3>1, <3>2
    <3> QED
      BY <2>2, <3>3
  <2>3. Cardinality(homes) = (IF w \in UnassociatedPlaces(output) THEN 0 ELSE 1)
    <3>1. CASE homes = {}
      BY <2>2, <3>1, FS_EmptySet
    <3>2. CASE homes # {}
      <4>1. PICK leg \in homes : TRUE
        BY <3>2
      <4>2. homes = {leg} /\ w \notin UnassociatedPlaces(output)
        BY <2>1 DEF UnassociatedPlaces
      <4> HIDE DEF homes
      <4>3. Cardinality({leg}) = 1
        BY FS_Singleton, Zenon
      <4> QED
        BY <4>2, <4>3
    <3> QED
      BY <3>1, <3>2
  <2>4. ASSUME NEW n \in EntryNotes(output), NEW m \in EntryNotes(output), n[2] = m[2] PROVE n = m
    <3>1. /\ n[1] \in Indices(output) /\ n[2] \in Works /\ n = <<n[1], n[2]>>
          /\ m[1] \in Indices(output) /\ m[2] \in Works /\ m = <<m[1], m[2]>>
          /\ Attempted(output, n[1], "open", n[2]) /\ Attempted(output, m[1], "open", m[2])
      BY DEF EntryNotes, Attempts
    <3>2. m[1] = n[1]
      BY <1>1, <2>4, <3>1, AttemptsHaveOneHome
    <3> QED
      BY <2>4, <3>1, <3>2
  <2> HIDE DEF homes
  <2>5. /\ Cardinality(homes) = (IF w \in UnassociatedPlaces(output) THEN 0 ELSE 1)
        /\ \A leg \in homes :
             /\ w \in Decision(output, leg[1]).cites
             /\ RefContract[Subject(Decision(output, leg[1]), leg[2])] = WorkContract[w]
        /\ \A n, m \in EntryNotes(output) : n[2] = m[2] => n = m
    BY <2>1, <2>3, <2>4
  <2> QED
    BY <2>5 DEF homes
<1>2. CASE output = Missing
  <2>1. Indices(output) = {}
    BY <1>2 DEF Indices, Missing
  <2>2. AssociatedPlaces(output) = {} /\ EntryNotes(output) = {}
    BY <2>1 DEF AssociatedPlaces, EntryNotes
  <2>3. ASSUME NEW w \in Works, places[w] # "none" PROVE w \in UnassociatedPlaces(output)
    BY <2>2, <2>3 DEF UnassociatedPlaces
  <2>4. ASSUME NEW w \in Works
        PROVE  {leg \in Indices(output) \X Roles : Attempted(output, leg[1], leg[2], w)} = {}
    BY <2>1
  <2> QED
    BY <2>2, <2>3, <2>4, FS_EmptySet DEF AttributedOnce
<1> QED
  BY <1>1, <1>2 DEF AsmInv, AsmTyped, Ended

\* An accepted output explains the calls that the agent could cite.
LEMMA AcceptedExplains ==
  ASSUME AsmInv
  PROVE  AcceptedIsExplained
<1>1. delivered \subseteq Cancels
  BY DEF AsmInv, AsmTyped, AsmTypeOK
<1> SUFFICES ASSUME Issues(output) = {}, Assembles(output), NEW ref \in delivered
             PROVE  /\ ref \in Works /\ places[ref] \notin {"none", "denied"} => ref \in AssociatedPlaces(output)
                    /\ cancelCall[ref] # "none" => ref \in ListedCancels(output)
  BY DEF AcceptedIsExplained
<1>2. ref \notin Unsaid(output)
  BY DEF Issues
<1> QED
  BY <1>1, <1>2 DEF Unsaid, UnassociatedPlaces, UnassociatedCancels

----------------------------------------------------------------------------
(* The dry run: the quantities its legs are given.                         *)

\* A leg is one of the decision's two sides; its rank says which it is, and legs that close or
\* roll rank before those of openings.
LEMMA RanksAre ==
  ASSUME NEW out \in Outputs
  PROVE  /\ \A i \in Indices(out), r \in Roles :
              /\ Rank(out, i, r) \in 0..(4 * Len(out.decisions))
              /\ Decision(out, i).action = "open" <=> Rank(out, i, r) >= 2 * Len(out.decisions)
         /\ \A i, j \in Indices(out), r, q \in Roles :
              Rank(out, i, r) = Rank(out, j, q) => i = j /\ r = q
<1> DEFINE n == Len(out.decisions)
           late(i) == Decision(out, i).action = "open"
           side(r) == IF r = "open" THEN 1 ELSE 0
<1>1. n \in Nat /\ Indices(out) = 1..n
  BY OutputsAre
<1>2. \A r, q \in Roles : side(r) \in {0, 1} /\ (side(r) = side(q) => r = q)
  BY DEF Roles
<1>3. \A i, r : Rank(out, i, r) = (IF late(i) THEN 2 * n ELSE 0) + 2 * (i - 1) + side(r)
  BY DEF Rank
<1> HIDE DEF n, late, side
<1>4. ASSUME NEW i \in Indices(out), NEW r \in Roles
      PROVE  Rank(out, i, r) \in 0..(4 * n) /\ (late(i) <=> Rank(out, i, r) >= 2 * n)
  <2>1. i \in 1..n /\ side(r) \in {0, 1}
    BY <1>1, <1>2
  <2>2. CASE late(i)
    <3>1. Rank(out, i, r) = 2 * n + 2 * (i - 1) + side(r)
      BY <1>3, <2>2
    <3> QED
      BY <1>1, <2>1, <2>2, <3>1
  <2>3. CASE ~late(i)
    <3>1. Rank(out, i, r) = 0 + 2 * (i - 1) + side(r)
      BY <1>3, <2>3
    <3> QED
      BY <1>1, <2>1, <2>3, <3>1
  <2> QED
    BY <2>2, <2>3
<1>5. ASSUME NEW i \in Indices(out), NEW j \in Indices(out), NEW r \in Roles, NEW q \in Roles,
             Rank(out, i, r) = Rank(out, j, q)
      PROVE  i = j /\ r = q
  <2>1. i \in 1..n /\ j \in 1..n /\ side(r) \in {0, 1} /\ side(q) \in {0, 1}
    BY <1>1, <1>2
  <2>2. late(i) <=> late(j)
    BY <1>4, <1>5
  <2>3. 2 * (i - 1) + side(r) = 2 * (j - 1) + side(q)
    BY <1>1, <1>3, <1>5, <2>1, <2>2
  <2>4. i = j /\ side(r) = side(q)
    BY <1>1, <2>1, <2>3
  <2> QED
    BY <1>2, <2>4
<1> QED
  BY <1>4, <1>5 DEF n, late

\* At a rank there is at most one leg.
LEMMA LegsAtAre ==
  ASSUME NEW out \in Outputs, NEW n
  PROVE  /\ \A leg \in LegsAt(out, n) :
              /\ leg[1] \in Indices(out) /\ leg[2] \in Roles /\ leg = <<leg[1], leg[2]>>
              /\ leg[2] \in Legs(out, leg[1]) /\ Rank(out, leg[1], leg[2]) = n
              /\ Decision(out, leg[1]).size \in Nat
         /\ \A leg, also \in LegsAt(out, n) : leg = also
<1>1. ASSUME NEW leg \in LegsAt(out, n)
      PROVE  /\ leg[1] \in Indices(out) /\ leg[2] \in Roles /\ leg = <<leg[1], leg[2]>>
             /\ leg[2] \in Legs(out, leg[1]) /\ Rank(out, leg[1], leg[2]) = n
             /\ Decision(out, leg[1]).size \in Nat
  <2>1. /\ leg[1] \in Indices(out) /\ leg[2] \in Roles /\ leg = <<leg[1], leg[2]>>
        /\ leg[2] \in Legs(out, leg[1]) /\ Rank(out, leg[1], leg[2]) = n
    BY DEF LegsAt
  <2>2. Decision(out, leg[1]) \in DecisionSays
    BY <2>1, OutputsAre
  <2> QED
    BY <2>1, <2>2 DEF DecisionSays
<1>2. ASSUME NEW leg \in LegsAt(out, n), NEW also \in LegsAt(out, n) PROVE leg = also
  <2>1. leg[1] = also[1] /\ leg[2] = also[2]
    BY <1>1, RanksAre
  <2> QED
    BY <1>1, <2>1
<1> QED
  BY <1>1, <1>2

\* Something before the rank n is given a quantity; what the rank n is given then.
Reserved(out, quantity, n) ==
  \E m \in 0..(n - 1) : \E x \in LegsAt(out, m) : quantity[m] > 0 /\ ~Conditional(out, x[1], x[2])
QuantityAt(out, quantity, n) ==
  IF LegsAt(out, n) = {} THEN 0
  ELSE LET leg == CHOOSE x \in LegsAt(out, n) : TRUE
       IN  IF Reserved(out, quantity, n) /\ ~Conditional(out, leg[1], leg[2]) THEN 0
           ELSE Decision(out, leg[1]).size

\* At the rank n is a leg that could be given a quantity.
SizedAt(out, n) ==
  \E x \in LegsAt(out, n) : Decision(out, x[1]).size > 0 /\ ~Conditional(out, x[1], x[2])

\* Each quantity is what the earlier ones leave: the first that can be given is, and ends it.
LEMMA QuantitiesAre ==
  ASSUME NEW out \in Outputs
  PROVE  Quantities(out) = [n \in 0..(4 * Len(out.decisions)) |-> QuantityAt(out, Quantities(out), n)]
<1> DEFINE ranks == 0..(4 * Len(out.decisions))
           legAt(n) == CHOOSE x \in LegsAt(out, n) : TRUE
           q == CHOOSE g : g = [n \in ranks |-> QuantityAt(out, g, n)]
           h == [n \in ranks |->
                   IF LegsAt(out, n) = {} THEN 0
                   ELSE IF (\E m \in 0..(n - 1) : SizedAt(out, m))
                           /\ ~Conditional(out, legAt(n)[1], legAt(n)[2]) THEN 0
                   ELSE Decision(out, legAt(n)[1]).size]
<1>1. Quantities(out) = q
  BY DEF Quantities, QuantityAt, Reserved
<1>2. Len(out.decisions) \in Nat
  BY OutputsAre
<1>3. \A n : \A x \in LegsAt(out, n) : legAt(n) = x /\ Decision(out, x[1]).size \in Nat
  <2> SUFFICES ASSUME NEW n, NEW x \in LegsAt(out, n)
               PROVE  legAt(n) = x /\ Decision(out, x[1]).size \in Nat
    OBVIOUS
  <2>1. legAt(n) \in LegsAt(out, n)
    OBVIOUS
  <2> HIDE DEF legAt
  <2> QED
    BY <2>1, LegsAtAre
<1>4. \A n \in ranks : n \in Nat /\ \A m \in 0..(n - 1) : m \in ranks /\ m \in Nat /\ m < n
  BY <1>2
<1>5. ASSUME NEW n \in ranks PROVE Reserved(out, h, n) <=> \E m \in 0..(n - 1) : SizedAt(out, m)
  <2>1. ASSUME NEW m \in 0..(n - 1), NEW x \in LegsAt(out, m), h[m] > 0, ~Conditional(out, x[1], x[2])
        PROVE  SizedAt(out, m)
    <3>1. m \in ranks /\ legAt(m) = x /\ LegsAt(out, m) # {}
      BY <1>3, <1>4
    <3> HIDE DEF legAt
    <3>2. h[m] = IF \E k \in 0..(m - 1) : SizedAt(out, k) THEN 0 ELSE Decision(out, x[1]).size
      BY <2>1, <3>1
    <3> HIDE DEF h
    <3>3. Decision(out, x[1]).size > 0
      BY <2>1, <3>2
    <3> QED
      BY <2>1, <3>3 DEF SizedAt
  <2>2. ASSUME \E m \in 0..(n - 1) : SizedAt(out, m) PROVE Reserved(out, h, n)
    <3> DEFINE sized == {m \in 0..(n - 1) : SizedAt(out, m)}
    <3>1. sized \in SUBSET Nat /\ sized # {}
      BY <1>4, <2>2
    <3>2. PICK m \in sized : \A k \in sized : m <= k
      <4> HIDE DEF sized
      <4> QED
        BY <3>1, LeastNatural
    <3>3. m \in 0..(n - 1) /\ m \in ranks /\ m \in Nat /\ n \in Nat
      BY <1>4
    <3>4. ~ \E k \in 0..(m - 1) : SizedAt(out, k)
      <4> SUFFICES ASSUME NEW k \in 0..(m - 1), SizedAt(out, k) PROVE FALSE
        OBVIOUS
      <4>1. k \in 0..(n - 1) /\ ~(m <= k)
        BY <3>3
      <4> QED
        BY <3>2, <4>1
    <3>5. PICK x \in LegsAt(out, m) : Decision(out, x[1]).size > 0 /\ ~Conditional(out, x[1], x[2])
      BY DEF SizedAt
    <3>6. legAt(m) = x /\ LegsAt(out, m) # {}
      BY <1>3
    <3> HIDE DEF legAt
    <3>7. h[m] = Decision(out, x[1]).size
      BY <3>3, <3>4, <3>6
    <3> HIDE DEF h, sized
    <3> QED
      BY <3>3, <3>5, <3>7 DEF Reserved
  <2> HIDE DEF h
  <2> QED
    BY <2>1, <2>2 DEF Reserved
<1>6. ASSUME NEW n \in ranks PROVE h[n] = QuantityAt(out, h, n)
  <2>1. h[n] = IF LegsAt(out, n) = {} THEN 0
               ELSE IF (\E m \in 0..(n - 1) : SizedAt(out, m))
                       /\ ~Conditional(out, legAt(n)[1], legAt(n)[2]) THEN 0
               ELSE Decision(out, legAt(n)[1]).size
    OBVIOUS
  <2> HIDE DEF h
  <2>2. h[n] = IF LegsAt(out, n) = {} THEN 0
               ELSE IF Reserved(out, h, n) /\ ~Conditional(out, legAt(n)[1], legAt(n)[2]) THEN 0
               ELSE Decision(out, legAt(n)[1]).size
    BY <1>5, <2>1
  <2> QED
    BY <2>2 DEF QuantityAt
<1>7. h = [n \in ranks |-> QuantityAt(out, h, n)]
  <2>1. h = [n \in ranks |-> h[n]]
    OBVIOUS
  <2> HIDE DEF h
  <2> QED
    BY <1>6, <2>1
<1>8. q = [n \in ranks |-> QuantityAt(out, q, n)]
  <2> HIDE DEF h, ranks
  <2> QED
    BY <1>7
<1> HIDE DEF q
<1> QED
  BY <1>1, <1>8

\* A close is of a decision that closes or rolls; an opening that counts is of one that opens.
LEMMA LegsAreOf ==
  ASSUME NEW out \in Outputs, NEW i \in Indices(out), NEW r \in Legs(out, i)
  PROVE  /\ r = "close" => Decision(out, i).action # "open"
         /\ r = "open" /\ ~Conditional(out, i, r) => Decision(out, i).action = "open"
<1>1. r \in RolesOf(Decision(out, i))
  BY DEF Legs
<1>2. r = "close" => Decision(out, i).action \in {"close", "roll"}
  BY <1>1 DEF RolesOf
<1>3. r = "open" => Decision(out, i).action \in {"open", "roll"}
  BY <1>1 DEF RolesOf, Replaced
<1> QED
  BY <1>2, <1>3 DEF Conditional

\* OneIntended: the first of the legs that could be given a quantity is the only one that is.
LEMMA OneIsIntended ==
  ASSUME AsmInv, Ended
  PROVE  OneIntended
<1> SUFFICES ASSUME output.status = "parsed"
    PROVE  LET counted == {leg \in Indices(output) \X Roles :
                             /\ leg[2] \in Legs(output, leg[1])
                             /\ ~Conditional(output, leg[1], leg[2])}
               rank(leg) == Rank(output, leg[1], leg[2])
               intended == {leg \in counted : Quantities(output)[rank(leg)] > 0}
               sized == {leg \in counted : Decision(output, leg[1]).size > 0}
           IN  /\ Cardinality(intended) = (IF sized = {} THEN 0 ELSE 1)
               /\ (\E leg \in sized : leg[2] = "close") => \A leg \in intended : leg[2] = "close"
  BY DEF OneIntended
<1> DEFINE counted == {leg \in Indices(output) \X Roles :
                         /\ leg[2] \in Legs(output, leg[1])
                         /\ ~Conditional(output, leg[1], leg[2])}
           rank(leg) == Rank(output, leg[1], leg[2])
           q == Quantities(output)
           intended == {leg \in counted : q[rank(leg)] > 0}
           sized == {leg \in counted : Decision(output, leg[1]).size > 0}
           ranks == 0..(4 * Len(output.decisions))
<1>1. output \in Outputs
  BY DEF AsmInv, AsmTyped, Ended, Missing
<1>2. Len(output.decisions) \in Nat
  BY <1>1, OutputsAre
<1>3. \A n \in ranks : q[n] = QuantityAt(output, q, n)
  <2>1. q = [n \in ranks |-> QuantityAt(output, q, n)]
    BY <1>1, QuantitiesAre
  <2> HIDE DEF q, ranks
  <2> QED
    BY <2>1
<1>4. ASSUME NEW leg \in counted
      PROVE  /\ leg[1] \in Indices(output) /\ leg[2] \in Roles /\ leg = <<leg[1], leg[2]>>
             /\ leg[2] \in Legs(output, leg[1]) /\ ~Conditional(output, leg[1], leg[2])
             /\ rank(leg) \in ranks /\ rank(leg) \in Nat /\ leg \in LegsAt(output, rank(leg))
             /\ \A x \in LegsAt(output, rank(leg)) : x = leg
             /\ q[rank(leg)] = IF Reserved(output, q, rank(leg)) THEN 0 ELSE Decision(output, leg[1]).size
             /\ Decision(output, leg[1]).size \in Nat
  <2>1. /\ leg[1] \in Indices(output) /\ leg[2] \in Roles /\ leg = <<leg[1], leg[2]>>
        /\ leg[2] \in Legs(output, leg[1]) /\ ~Conditional(output, leg[1], leg[2])
    OBVIOUS
  <2>2. rank(leg) \in ranks /\ rank(leg) \in Nat
    BY <1>1, <1>2, <2>1, RanksAre
  <2>3. leg \in {<<i, r>> : i \in Indices(output), r \in Roles}
    BY <2>1
  <2>4. leg \in LegsAt(output, rank(leg))
    BY <2>1, <2>3 DEF LegsAt
  <2>5. (\A x \in LegsAt(output, rank(leg)) : x = leg) /\ Decision(output, leg[1]).size \in Nat
    BY <1>1, <2>4, LegsAtAre
  <2>6. (CHOOSE x \in LegsAt(output, rank(leg)) : TRUE) = leg
    <3> DEFINE chosen == CHOOSE x \in LegsAt(output, rank(leg)) : TRUE
    <3>1. chosen \in LegsAt(output, rank(leg))
      BY <2>4
    <3> HIDE DEF chosen
    <3>2. chosen = leg
      BY <2>5, <3>1
    <3> QED
      BY <3>2 DEF chosen
  <2>7. q[rank(leg)] = QuantityAt(output, q, rank(leg)) /\ LegsAt(output, rank(leg)) # {}
    BY <1>3, <2>2, <2>4
  <2> HIDE DEF q, rank, counted, ranks
  <2>8. q[rank(leg)] = IF Reserved(output, q, rank(leg)) THEN 0 ELSE Decision(output, leg[1]).size
    BY <2>1, <2>6, <2>7 DEF QuantityAt
  <2> QED
    BY <2>1, <2>2, <2>4, <2>5, <2>8
<1>5. ASSUME NEW leg \in counted, NEW n \in Nat, rank(leg) < n, q[rank(leg)] > 0
      PROVE  Reserved(output, q, n)
  <2>1. /\ rank(leg) \in 0..(n - 1) /\ leg \in LegsAt(output, rank(leg))
        /\ ~Conditional(output, leg[1], leg[2])
    BY <1>4, <1>5
  <2> HIDE DEF q, rank
  <2> QED
    BY <1>5, <2>1 DEF Reserved
<1>6. \A leg \in intended : leg \in counted /\ leg \in sized /\ ~Reserved(output, q, rank(leg))
                            /\ q[rank(leg)] > 0
  <2> SUFFICES ASSUME NEW leg \in intended
               PROVE  leg \in counted /\ leg \in sized /\ ~Reserved(output, q, rank(leg)) /\ q[rank(leg)] > 0
    OBVIOUS
  <2>1. leg \in counted /\ q[rank(leg)] > 0
    OBVIOUS
  <2>2. q[rank(leg)] = IF Reserved(output, q, rank(leg)) THEN 0 ELSE Decision(output, leg[1]).size
    BY <1>4, <2>1
  <2> HIDE DEF q, rank, counted
  <2>3. ~Reserved(output, q, rank(leg)) /\ Decision(output, leg[1]).size > 0
    BY <2>1, <2>2
  <2> QED
    BY <2>1, <2>3
<1>7. ASSUME NEW leg \in intended, NEW also \in intended PROVE leg = also
  <2>1. leg \in counted /\ also \in counted /\ ~Reserved(output, q, rank(leg)) /\ q[rank(leg)] > 0
        /\ ~Reserved(output, q, rank(also)) /\ q[rank(also)] > 0
    BY <1>6
  <2>2. rank(leg) \in Nat /\ rank(also) \in Nat
    BY <1>4, <2>1
  <2>3. ~(rank(leg) < rank(also)) /\ ~(rank(also) < rank(leg))
    BY <1>5, <2>1, <2>2
  <2> HIDE DEF rank, q, counted, intended
  <2>4. rank(leg) = rank(also)
    BY <2>2, <2>3
  <2>5. also \in LegsAt(output, rank(leg))
    BY <1>4, <2>1, <2>4
  <2> QED
    BY <1>4, <2>1, <2>5
<1>8. ASSUME sized # {}
      PROVE  \E leg \in intended : \A also \in sized : rank(leg) <= rank(also)
  <2> DEFINE taken == {n \in Nat : \E leg \in sized : rank(leg) = n}
  <2>1. \A leg \in sized : leg \in counted /\ rank(leg) \in Nat /\ rank(leg) \in taken
                           /\ Decision(output, leg[1]).size > 0
    BY <1>4
  <2>2. PICK n \in taken : \A m \in taken : n <= m
    <3>1. taken \in SUBSET Nat /\ taken # {}
      BY <1>8, <2>1
    <3> HIDE DEF taken
    <3> QED
      BY <3>1, LeastNatural
  <2>3. PICK leg \in sized : rank(leg) = n
    OBVIOUS
  <2>4. ~Reserved(output, q, n)
    <3> SUFFICES ASSUME NEW m \in 0..(n - 1), NEW x \in LegsAt(output, m), q[m] > 0,
                        ~Conditional(output, x[1], x[2])
                 PROVE  FALSE
      BY DEF Reserved
    <3>1. /\ x[1] \in Indices(output) /\ x[2] \in Roles /\ x = <<x[1], x[2]>>
          /\ x[2] \in Legs(output, x[1]) /\ rank(x) = m
      BY <1>1, LegsAtAre
    <3>2. x \in counted
      BY <3>1
    <3>3. x \in intended
      BY <3>1, <3>2
    <3>4. m \in taken
      BY <1>6, <2>1, <3>1, <3>3
    <3>5. n \in Nat /\ m \in Nat /\ ~(n <= m)
      OBVIOUS
    <3> HIDE DEF taken
    <3> QED
      BY <2>2, <3>4, <3>5
  <2>5. leg \in counted /\ Decision(output, leg[1]).size > 0
    BY <2>1
  <2>6. q[rank(leg)] = IF Reserved(output, q, rank(leg)) THEN 0 ELSE Decision(output, leg[1]).size
    BY <1>4, <2>5
  <2>7. \A also \in sized : rank(leg) <= rank(also)
    BY <2>1, <2>2, <2>3
  <2>8. q[rank(leg)] > 0
    <3> HIDE DEF q, rank, sized
    <3> QED
      BY <2>3, <2>4, <2>5, <2>6
  <2>9. leg \in intended
    BY <2>5, <2>8
  <2> HIDE DEF intended, sized, rank
  <2> QED
    BY <2>7, <2>9
<1>9. Cardinality(intended) = (IF sized = {} THEN 0 ELSE 1)
  <2>1. intended \subseteq sized
    BY <1>6
  <2>2. CASE sized = {}
    <3>1. intended = {}
      BY <2>1, <2>2
    <3> HIDE DEF intended, sized
    <3> QED
      BY <2>2, <3>1, FS_EmptySet
  <2>3. CASE sized # {}
    <3>1. PICK leg \in intended : TRUE
      BY <1>8, <2>3
    <3> HIDE DEF intended, sized
    <3>2. intended = {leg}
      BY <1>7
    <3>3. Cardinality({leg}) = 1
      BY FS_Singleton, Zenon
    <3> QED
      BY <2>3, <3>2, <3>3
  <2> QED
    BY <2>2, <2>3
<1>10. ASSUME NEW also \in sized, also[2] = "close", NEW leg \in intended PROVE leg[2] = "close"
  <2>1. PICK least \in intended : rank(least) <= rank(also)
    BY <1>8, <1>10
  <2>2. least = leg
    BY <1>7
  <2>3. leg \in counted /\ also \in counted
    BY <1>6
  <2>4. /\ leg[1] \in Indices(output) /\ leg[2] \in Legs(output, leg[1]) /\ leg[2] \in Roles
        /\ ~Conditional(output, leg[1], leg[2]) /\ rank(leg) \in Nat
        /\ also[1] \in Indices(output) /\ also[2] \in Legs(output, also[1]) /\ also[2] \in Roles
        /\ rank(also) \in Nat
    BY <1>4, <2>3
  <2>5. Decision(output, also[1]).action # "open"
    BY <1>1, <1>10, <2>4, LegsAreOf
  <2>6. ~(rank(also) >= 2 * Len(output.decisions))
    BY <1>1, <2>4, <2>5, RanksAre
  <2>7. ~(rank(leg) >= 2 * Len(output.decisions))
    <3> HIDE DEF rank
    <3> QED
      BY <1>2, <2>1, <2>2, <2>4, <2>6
  <2>8. Decision(output, leg[1]).action # "open"
    BY <1>1, <2>4, <2>7, RanksAre
  <2>9. leg[2] # "open"
    BY <1>1, <2>4, <2>8, LegsAreOf
  <2> QED
    BY <2>4, <2>9 DEF Roles
<1>11. (\E leg \in sized : leg[2] = "close") => \A leg \in intended : leg[2] = "close"
  <2> HIDE DEF sized, intended
  <2> QED
    BY <1>10
<1> HIDE DEF counted, rank, intended, sized, q
<1>12. /\ Cardinality(intended) = (IF sized = {} THEN 0 ELSE 1)
       /\ (\E leg \in sized : leg[2] = "close") => \A leg \in intended : leg[2] = "close"
  BY <1>9, <1>11
<1> QED
  BY <1>12 DEF counted, rank, intended, sized, q

----------------------------------------------------------------------------
(* The audit of the record.                                                *)

\* SilenceMeansKnown: without a word of the audit, every call has its decision, and every position.
LEMMA SilenceIsKnown ==
  ASSUME AsmInv, Ended
  PROVE  SilenceMeansKnown
<1> SUFFICES ASSUME NEW role \in AgentRoles, BadCoverage(role, output) = {},
                    Unverified(output) = {}, AccusedOf(output) = {}
    PROVE  /\ output # Missing
           /\ \A w \in Works : orderOf[w] # "none" =>
                \E i \in Indices(output) :
                  w \in Decision(output, i).cites /\ WorkRole[w] \in Legs(output, i)
           /\ \A c \in Cancels : cancelCall[c] # "none" => c \in ListedCancels(output)
           /\ role = "close" => \A p \in Positions : Cardinality(Managing(output, p)) = 1
  BY DEF SilenceMeansKnown
<1>1. output # Missing
  BY DEF Unverified
<1>2. output \in Outputs
  BY <1>1 DEF AsmInv, AsmTyped, Ended
<1>3. /\ \A x \in UnassociatedPlaces(output) \cup UnassociatedCancels(output) : ~Executed
      /\ ~Executed => /\ \A w \in Works : places[w] = "none"
                      /\ \A c \in Cancels : cancelCall[c] = "none"
  <2>1. ASSUME NEW x \in UnassociatedPlaces(output) \cup UnassociatedCancels(output), Executed
        PROVE  FALSE
    <3>1. <<"unattributed", x>> \in Unattributed(output)
      BY DEF Unattributed
    <3> QED
      BY <1>1, <2>1, <3>1 DEF Unverified
  <2>2. ASSUME ~Executed
        PROVE  (\A w \in Works : places[w] = "none") /\ (\A c \in Cancels : cancelCall[c] = "none")
    <3>1. DryRunActs(output) = {}
      BY <2>2 DEF AccusedOf
    <3>2. \A x \in {w \in Works : places[w] # "none"} \cup {c \in Cancels : cancelCall[c] # "none"} :
            <<"acted", x>> \in DryRunActs(output)
      BY DEF DryRunActs
    <3> QED
      BY <3>1, <3>2
  <2> QED
    BY <2>1, <2>2
<1>4. ASSUME NEW w \in Works, orderOf[w] # "none"
      PROVE  \E i \in Indices(output) :
               w \in Decision(output, i).cites /\ WorkRole[w] \in Legs(output, i)
  <2>1. places[w] # "none" /\ Executed
    BY <1>3, <1>4 DEF AsmInv, OrdersInv
  <2>2. w \in AssociatedPlaces(output)
    BY <1>3, <2>1 DEF UnassociatedPlaces
  <2>3. PICK i \in Indices(output) : Attempted(output, i, WorkRole[w], w)
    BY <2>2 DEF AssociatedPlaces
  <2>4. w \in Decision(output, i).cites /\ WorkRole[w] \in RolesOf(Decision(output, i))
    BY <1>2, <2>3, AttemptsHaveOneHome
  <2>5. w \in Attempts(output, i, WorkRole[w])
    BY <2>3 DEF Attempts
  <2> QED
    BY <2>4, <2>5 DEF Legs
<1>5. ASSUME NEW c \in Cancels, cancelCall[c] # "none" PROVE c \in ListedCancels(output)
  BY <1>3, <1>5 DEF UnassociatedCancels
<1>6. ASSUME role = "close", NEW p \in Positions PROVE Cardinality(Managing(output, p)) = 1
  <2> SUFFICES ASSUME Cardinality(Managing(output, p)) # 1 PROVE FALSE
    OBVIOUS
  <2>1. <<"coverage", p>> \in BadCoverage(role, output)
    BY <1>1, <1>6 DEF BadCoverage
  <2> QED
    BY <2>1
<1> QED
  BY <1>1, <1>4, <1>5, <1>6

\* A decision that the reference check has no issue with has its action's legs.
LEMMA FittingRoles ==
  ASSUME NEW out \in Outputs, NEW i \in Indices(out), i \notin Misfits(out)
  PROVE  LET d == Decision(out, i) IN
         /\ "open" \in RolesOf(d) <=> d.action \in {"open", "roll"}
         /\ "close" \in RolesOf(d) <=> d.action \in {"close", "roll"}
         /\ \A p \in d.funding : d.action = "open" /\ Cardinality(ClosesOf(out, p)) = 1
         /\ d.cites \subseteq delivered
<1> DEFINE d == Decision(out, i)
<1>1. /\ Resolved(d) /\ (d.action = "roll" => Replaced(d)) /\ Unresolved(d.cites) = {}
      /\ \A p \in d.funding : d.action = "open" /\ Cardinality(ClosesOf(out, p)) = 1
  BY DEF Misfits
<1>2. d.cites \subseteq delivered
  BY <1>1 DEF Unresolved
<1>3. Replaced(d) => d.action = "roll"
  BY DEF Replaced
<1>4. "open" \in Roles /\ "close" \in Roles
  BY DEF Roles
<1> HIDE DEF d
<1>5. "open" \in RolesOf(d) <=> d.action \in {"open", "roll"}
  BY <1>1, <1>3, <1>4 DEF RolesOf
<1>6. "close" \in RolesOf(d) <=> d.action \in {"close", "roll"}
  BY <1>1, <1>4 DEF RolesOf
<1> QED
  BY <1>1, <1>2, <1>5, <1>6 DEF d

\* What the audit may hold against an output the reference check accepted.
Unheard(a) ==
  \/ /\ a[1] = "shape"
     /\ \E r \in RolesOf(Decision(output, a[2])) \ Decision(output, a[2]).proposed :
          Attempts(output, a[2], r) = {}
  \/ a[1] \in {"unproposed", "nothing", "not dispatched"}
  \/ a[1] \in {"unowned", "intent missing"} /\ a[2] \notin delivered

\* A decision of which every leg was proposed or traded has the legs of its action.
LEMMA ShapesAreGood ==
  ASSUME NEW out \in Outputs, NEW i \in Indices(out), i \notin Misfits(out),
         \A r \in RolesOf(Decision(out, i)) \ Decision(out, i).proposed : Attempts(out, i, r) # {}
  PROVE  ~BadShape(out, i)
<1> DEFINE d == Decision(out, i)
<1>1. Legs(out, i) = RolesOf(d)
  BY DEF Legs
<1>2. d.action \in {"open", "close", "roll", "hold"}
  BY OutputsAre DEF DecisionSays
<1>3. /\ "open" \in RolesOf(d) <=> d.action \in {"open", "roll"}
      /\ "close" \in RolesOf(d) <=> d.action \in {"close", "roll"}
  BY FittingRoles
<1> HIDE DEF d
<1>4. LegSides(out, i) = Expected(d)
  <2>1. CASE d.action = "open"
    BY <1>1, <1>3, <2>1 DEF LegSides, Expected
  <2>2. CASE d.action = "close"
    BY <1>1, <1>3, <2>2 DEF LegSides, Expected
  <2>3. CASE d.action = "roll"
    <3>1. LegSides(out, i) = <<"close">> \o <<"open">> /\ Expected(d) = <<"close", "open">>
      BY <1>1, <1>3, <2>3 DEF LegSides, Expected
    <3>2. <<"close">> \o <<"open">> = <<"close", "open">>
      <4> DEFINE both == <<"close">> \o <<"open">>
      <4>1. <<"close">> \in Seq({"close", "open"}) /\ <<"open">> \in Seq({"close", "open"})
            /\ <<"close", "open">> \in Seq({"close", "open"})
        OBVIOUS
      <4>2. /\ both \in Seq({"close", "open"}) /\ Len(both) = 1 + 1
            /\ both[1] = "close" /\ both[2] = "open"
        BY <4>1
      <4> HIDE DEF both
      <4>3. both = <<"close", "open">>
        BY <4>1, <4>2
      <4> QED
        BY <4>3 DEF both
    <3> QED
      BY <3>1, <3>2
  <2>4. CASE d.action = "hold"
    BY <1>1, <1>3, <2>4 DEF LegSides, Expected
  <2> QED
    BY <1>2, <2>1, <2>2, <2>3, <2>4
<1>5. Len(LegSides(out, i)) \in Nat
  <2>1. Expected(d) \in Seq({"close", "open"})
    <3>1. /\ <<>> \in Seq({"close", "open"}) /\ <<"close">> \in Seq({"close", "open"})
          /\ <<"open">> \in Seq({"close", "open"}) /\ <<"close", "open">> \in Seq({"close", "open"})
      OBVIOUS
    <3>2. Expected(d) \in {<<>>, <<"close">>, <<"open">>, <<"close", "open">>}
      BY DEF Expected
    <3> QED
      BY <3>1, <3>2
  <2> QED
    BY <1>4, <2>1
<1> QED
  BY <1>4, <1>5 DEF BadShape, d

\* HeardBeforeAccused: what the reference check accepts is only accused of what it does not see.
LEMMA HeardIsFair ==
  ASSUME AsmInv, Ended, output = Missing \/ Assembles(output)
  PROVE  HeardBeforeAccused
<1> SUFFICES ASSUME output # Missing, Issues(output) = {}, NEW a \in AccusedOf(output)
             PROVE  Unheard(a)
  BY DEF HeardBeforeAccused, Unheard
<1>1. output \in Outputs
  BY DEF AsmInv, AsmTyped, Ended
<1>2. Misfits(output) = {} /\ Unsaid(output) = {}
  BY DEF Issues
<1>3. venue \in {"executes", "none"} /\ IdleInv
  BY DEF AsmInv, AsmTyped, AsmTypeOK
<1>4. ASSUME NEW i \in Indices(output), BadShape(output, i), a = <<"shape", i>> PROVE Unheard(a)
  <2>1. \E r \in RolesOf(Decision(output, i)) \ Decision(output, i).proposed : Attempts(output, i, r) = {}
    BY <1>1, <1>2, <1>4, ShapesAreGood
  <2>2. a[1] = "shape" /\ a[2] = i
    BY <1>4
  <2> QED
    BY <2>1, <2>2 DEF Unheard
<1>5. ASSUME a \in LostCalls(output) PROVE FALSE
  <2>1. {x \in Works : places[x] # "none"} \ RecordedPlaces(output) = {}
    BY DEF RecordedPlaces, UnassociatedPlaces
  <2>2. {x \in Cancels : cancelCall[x] # "none"} \ RecordedCancels(output) = {}
    BY DEF RecordedCancels, UnassociatedCancels
  <2> QED
    BY <1>5, <2>1, <2>2 DEF LostCalls
<1>6. ASSUME ~Executed, a \in DryRunActs(output) PROVE FALSE
  <2>1. {w \in Works : places[w] # "none"} \cup {c \in Cancels : cancelCall[c] # "none"} = {}
    BY <1>3, <1>6 DEF Executed, IdleInv
  <2> QED
    BY <1>6, <2>1 DEF DryRunActs
<1>7. ASSUME NEW i \in Indices(output), NEW r \in Roles, BadCondition(output, i, r) PROVE FALSE
  <2>1. /\ r = "open" /\ (Decision(output, i).action = "roll" \/ Decision(output, i).funding # {})
        /\ DependsOn(output, i, r) = NoLeg /\ Funders(output, i) = {}
    BY <1>7 DEF BadCondition, Conditional
  <2>2. Decision(output, i).action # "roll"
    <3>1. i # 0
      BY <1>1, OutputsAre
    <3> QED
      BY <2>1, <3>1 DEF DependsOn, NoLeg
  <2>3. PICK p \in Decision(output, i).funding : TRUE
    BY <2>1, <2>2
  <2>4. Decision(output, i).action = "open" /\ Cardinality(ClosesOf(output, p)) = 1
    BY <1>1, <1>2, FittingRoles
  <2>5. ClosesOf(output, p) # {}
    BY <2>4, FS_EmptySet
  <2>6. ClosesOf(output, p) \subseteq Funders(output, i)
    BY <2>4 DEF Funders
  <2> QED
    BY <2>1, <2>5, <2>6
<1>8. ASSUME a \in AssemblyFindings(output) PROVE Unheard(a)
  <2>1. \/ \E w \in Unowned(output) : a = <<"unowned", w>>
        \/ \E i \in Unproposed(output) : a = <<"unproposed", i>>
        \/ \E leg \in NoCapacity(output) : a = <<"nothing", leg>>
        \/ a \in EventFindings
    BY <1>2, <1>8 DEF AssemblyFindings
  <2>2. ASSUME NEW w \in Unowned(output), a = <<"unowned", w>> PROVE Unheard(a)
    <3>1. LikelyOwners(output, w) # {}
      BY FS_EmptySet DEF Unowned
    <3>2. w \in UnassociatedPlaces(output) /\ places[w] # "denied"
      BY <3>1 DEF LikelyOwners, HasIntent
    <3>3. w \notin delivered
      BY <1>2, <3>2 DEF Unsaid
    <3> QED
      BY <2>2, <3>3 DEF Unheard
  <2>3. ASSUME NEW w \in Works, places[w] \notin {"none", "denied"}, ~HasIntent(w),
               a = <<"intent missing", w>>
        PROVE  Unheard(a)
    <3>1. w \notin AssociatedPlaces(output)
      BY <2>3 DEF AssociatedPlaces, Attempted
    <3>2. w \notin delivered
      BY <1>2, <2>3, <3>1 DEF Unsaid, UnassociatedPlaces
    <3> QED
      BY <2>3, <3>2 DEF Unheard
  <2>4. ASSUME a \in EventFindings PROVE Unheard(a)
    <3>1. \/ \E w \in Works : places[w] \notin {"none", "denied"} /\ ~HasIntent(w)
                            /\ a = <<"intent missing", w>>
          \/ \E c \in Cancels : a = <<"not dispatched", c>>
      BY <2>4 DEF EventFindings
    <3>2. ASSUME NEW c \in Cancels, a = <<"not dispatched", c>> PROVE Unheard(a)
      BY <3>2 DEF Unheard
    <3> QED
      BY <2>3, <3>1, <3>2
  <2>5. ASSUME NEW i \in Unproposed(output), a = <<"unproposed", i>> PROVE Unheard(a)
    BY <2>5 DEF Unheard
  <2>6. ASSUME NEW leg \in NoCapacity(output), a = <<"nothing", leg>> PROVE Unheard(a)
    BY <2>6 DEF Unheard
  <2> QED
    BY <2>1, <2>2, <2>4, <2>5, <2>6
<1>9. ASSUME BadRefs(output) PROVE FALSE
  <2>1. delivered = {}
    BY <1>3, <1>9 DEF BadRefs, Executed, IdleInv
  <2>2. \A i \in Indices(output) : Decision(output, i).cites = {}
    BY <1>1, <1>2, <2>1, FittingRoles
  <2>3. output.rationales = {}
    <3> SUFFICES ASSUME NEW c \in output.rationales PROVE FALSE
      OBVIOUS
    <3>1. Unresolved({c}) # {} /\ output.status = "parsed"
      BY <1>1, <2>1, OutputsAre DEF Unresolved
    <3>2. 0 \in Misfits(output)
      BY <3>1 DEF Misfits
    <3> QED
      BY <1>2, <3>2
  <2> QED
    BY <1>9, <2>2, <2>3 DEF BadRefs
<1>10. \/ \E i \in Indices(output) : BadShape(output, i) /\ a = <<"shape", i>>
       \/ a \in LostCalls(output)
       \/ ~Executed /\ a \in DryRunActs(output)
       \/ \E x \in Indices(output) \X Roles : BadCondition(output, x[1], x[2])
       \/ a \in AssemblyFindings(output) \/ BadRefs(output)
  BY DEF AccusedOf, BadBoundary
<1> QED
  BY <1>4, <1>5, <1>6, <1>7, <1>8, <1>9, <1>10

\* RecordSound: what a run's record says of its orders is what the broker knows, every call is in
\* it once and under the decision that made it, the dry run intends one order, and the audits of the
\* record and of the order sequence accuse nothing that was right and pass nothing that was not.
THEOREM RecordIsSound == Spec => []RecordSound
<1>1. AsmInv => RecordTrue
  BY RecordIsHonest, PlacesAreOnce, AcceptedExplains, OneIsIntended DEF RecordTrue
<1>2. AsmInv => AuditFair
  BY SilenceIsKnown, HeardIsFair DEF AuditFair
<1>3. AsmInv /\ SequenceInv => RecordSound
  BY <1>1, <1>2, SequenceHolds DEF RecordSound
<1> QED
  BY <1>3, RecordInvariant, SequenceInvariant, PTL
=============================================================================
