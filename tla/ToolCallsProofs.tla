--------------------------- MODULE ToolCallsProofs ---------------------------
(***************************************************************************)
(* Proofs about ToolCalls, for every set of calls, caps, and repetitions   *)
(* of the CLI's messages.                                                  *)
(***************************************************************************)
EXTENDS ToolCalls, FiniteSetTheorems, SequenceTheorems, TLAPS

-----------------------------------------------------------------------------
(* The inductive invariant *)

Kinds == {"requested", "dispatched", "delivered"} \cup OutcomeStatus
Bearing == {"requested"} \cup OutcomeStatus

\* A list of events has a latest one that bears a status, or none at all.
HasLatest(es) ==
  LET bearing == {i \in DOMAIN es : es[i] \in Bearing}
  IN  bearing = {} \/ \E i \in bearing : \A j \in bearing : j <= i

\* The hooks, the dispatch and the server, for one call.
CallInv(c) ==
  /\ HasLatest(events[c])
  /\ c \in known <=> cli[c] \in {"allowed", "sent"}
  /\ c \in active <=> c \in Spawns /\ cli[c] \in {"allowed", "sent"}
  /\ cli[c] = "idle" => proxy[c] = "none" /\ sends[c] = 0 /\ reached[c] = 0
                       /\ answers[c] = {} /\ CallStatus(c) = "none"
  /\ cli[c] \in {"idle", "allowed"} => wire[c] = 0
  /\ c \notin Proxied =>
       proxy[c] = "none" /\ wire[c] = 0 /\ reached[c] = sends[c] /\ sends[c] <= 1
  /\ c \in Proxied /\ proxy[c] \in {"none", "pending"} => reached[c] = 0
  /\ reached[c] <= 1
  /\ c \in working => proxy[c] = "claimed" /\ reached[c] = 1

\* What is recorded of an action agrees with where it is.
ActionInv(c) ==
  /\ CallStatus(c) \in {"denied", "failed"} =>
       /\ reached[c] = 0
       /\ proxy[c] \in {"none", "pending"} => cli[c] = "over" /\ (wire[c] = 0 \/ latch)
  /\ c \in known => CallStatus(c) = "requested" \/ proxy[c] = "completed"
  /\ c \in working => CallStatus(c) \in {"requested", "unknown"}
  /\ proxy[c] = "pending" =>
       CallStatus(c) \in {"requested", "failed", "unknown"} /\ answers[c] = {}

\* Every Mignon that may be running, or ran, was counted when it was admitted.
Launched == {c \in Spawns : cli[c] \in {"allowed", "sent"} \/ reached[c] > 0}
SpawnInv ==
  /\ Cardinality(active) <= MaxConcurrent
  /\ Cardinality(Launched) <= spawned /\ spawned <= MaxSpawns

IInv ==
  /\ CallsTypeOK
  /\ \A c \in Calls : CallInv(c)
  /\ \A c \in Actions : ActionInv(c)
  /\ SpawnInv

\* A step keeps what is known of an action.
Stands(c) ==
  CallStatus(c) \in OutcomeStatus \ {"unknown"} => CallStatus(c)' = CallStatus(c)

-----------------------------------------------------------------------------
(* What recording an event does to the status *)

\* The status is that of the event appended, if it bears one (tool_call_status).
LEMMA StatusOfConcat ==
  ASSUME NEW es \in Seq(Kinds), NEW k \in Kinds, HasLatest(es)
  PROVE  /\ es \o <<k>> \in Seq(Kinds)
         /\ HasLatest(es \o <<k>>)
         /\ k \in Bearing => StatusIn(es \o <<k>>) = k
         /\ k \notin Bearing => StatusIn(es \o <<k>>) = StatusIn(es)
<1> DEFINE fs == es \o <<k>>
           was == {i \in DOMAIN es : es[i] \in Bearing}
           now == {i \in DOMAIN fs : fs[i] \in Bearing}
<1>1. fs \in Seq(Kinds) /\ Len(fs) = Len(es) + 1
  OBVIOUS
<1>2. fs[Len(es) + 1] = k /\ \A i \in 1..Len(es) : fs[i] = es[i]
  OBVIOUS
<1>3. DOMAIN es = 1..Len(es) /\ DOMAIN fs = 1..(Len(es) + 1) /\ Len(es) \in Nat
  BY <1>1
<1>4. ASSUME k \in Bearing PROVE StatusIn(fs) = k /\ HasLatest(fs)
  <2>1. Len(es) + 1 \in now
    BY <1>2, <1>3, <1>4
  <2>2. \A i \in now : i <= Len(es) + 1 /\ i \in Nat
    BY <1>3
  <2>3. (CHOOSE i \in now : \A j \in now : j <= i) = Len(es) + 1
    <3>1. \A j \in now : j <= Len(es) + 1
      BY <2>2
    <3>2. \A i \in now : (\A j \in now : j <= i) => i = Len(es) + 1
      BY <2>1, <2>2, <1>3
    <3> HIDE DEF now
    <3> QED BY <3>1, <3>2, <2>1
  <2>4. StatusIn(fs) = fs[CHOOSE i \in now : \A j \in now : j <= i]
    BY <2>1 DEF StatusIn, Bearing
  <2>5. HasLatest(fs)
    BY <2>1, <2>2 DEF HasLatest
  <2> QED BY <2>3, <2>4, <2>5, <1>2
<1>5. ASSUME k \notin Bearing PROVE StatusIn(fs) = StatusIn(es) /\ HasLatest(fs)
  <2>1. now = was
    BY <1>2, <1>3, <1>5
  <2>2. CASE was = {}
    BY <2>1, <2>2 DEF StatusIn, Bearing, HasLatest
  <2>3. CASE was # {}
    <3>1. StatusIn(fs) = fs[CHOOSE i \in was : \A j \in was : j <= i]
      BY <2>1, <2>3 DEF StatusIn, Bearing
    <3>2. StatusIn(es) = es[CHOOSE i \in was : \A j \in was : j <= i]
      BY <2>3 DEF StatusIn, Bearing
    <3>3. \E i \in was : \A j \in was : j <= i
      BY <2>3 DEF HasLatest
    <3>4. was \subseteq 1..Len(es)
      BY <1>3
    <3>5. (CHOOSE i \in was : \A j \in was : j <= i) \in was
      <4> HIDE DEF was
      <4> QED BY <3>3
    <3>6. HasLatest(fs)
      BY <2>1, <3>3 DEF HasLatest
    <3> QED BY <3>1, <3>2, <3>4, <3>5, <3>6, <1>2
  <2> QED BY <2>2, <2>3
<1> QED BY <1>1, <1>4, <1>5

\* The step records events of c, after which its status is st.
EventsTo(c, st) ==
  /\ events' \in [Calls -> Seq(Kinds)]
  /\ HasLatest(events'[c])
  /\ \A x \in Calls \ {c} : events'[x] = events[x]
  /\ CallStatus(c)' = st

\* One event recorded (append_tool_call_outcome, record_tool_call_delivered).
LEMMA RecordsOne ==
  ASSUME CallsTypeOK, NEW c \in Calls, HasLatest(events[c]),
         NEW k \in Kinds, Record(c, <<k>>)
  PROVE  /\ k \in Bearing => EventsTo(c, k)
         /\ k \notin Bearing => EventsTo(c, CallStatus(c))
<1>1. events[c] \in Seq(Kinds) /\ events \in [Calls -> Seq(Kinds)]
  BY DEF CallsTypeOK, Kinds
<1>2. events'[c] = events[c] \o <<k>> /\ \A x \in Calls \ {c} : events'[x] = events[x]
  BY <1>1 DEF Record
<1>3. events[c] \o <<k>> \in Seq(Kinds)
  BY <1>1, StatusOfConcat
<1>4. events' \in [Calls -> Seq(Kinds)]
  BY <1>1, <1>3 DEF Record
<1>5. HasLatest(events'[c])
  BY <1>1, <1>2, StatusOfConcat
<1>6. /\ k \in Bearing => StatusIn(events'[c]) = k
      /\ k \notin Bearing => StatusIn(events'[c]) = StatusIn(events[c])
  BY <1>1, <1>2, StatusOfConcat
<1> QED BY <1>2, <1>4, <1>5, <1>6 DEF EventsTo, CallStatus

\* Two elements appended at once, or one after the other.
LEMMA AppendTwo ==
  ASSUME NEW S, NEW es \in Seq(S), NEW j \in S, NEW k \in S
  PROVE  es \o <<j, k>> = (es \o <<j>>) \o <<k>>
<1> DEFINE u == es \o <<j, k>>
           v == (es \o <<j>>) \o <<k>>
<1>1. es \o <<j>> \in Seq(S) /\ Len(es \o <<j>>) = Len(es) + 1
  OBVIOUS
<1>2. v \in Seq(S) /\ Len(v) = Len(es) + 2
  BY <1>1
<1>3. <<j, k>> \in Seq(S) /\ Len(<<j, k>>) = 2
  OBVIOUS
<1>4. u \in Seq(S) /\ Len(u) = Len(es) + 2
  BY <1>3
<1>5. ASSUME NEW i \in 1..(Len(es) + 2) PROVE u[i] = v[i]
  <2>1. CASE i <= Len(es)
    BY <2>1
  <2>2. CASE i = Len(es) + 1
    BY <2>2
  <2>3. CASE i = Len(es) + 2
    BY <2>3
  <2> QED BY <2>1, <2>2, <2>3
<1> HIDE DEF u, v
<1>6. u = v
  BY <1>2, <1>4, <1>5, SeqEqual
<1> QED BY <1>6 DEF u, v

\* Two events recorded in one step.
LEMMA RecordsTwo ==
  ASSUME CallsTypeOK, NEW c \in Calls, HasLatest(events[c]),
         NEW j \in Bearing, NEW k \in Kinds, Record(c, <<j, k>>)
  PROVE  /\ k \in Bearing => EventsTo(c, k)
         /\ k \notin Bearing => EventsTo(c, j)
<1>1. events[c] \in Seq(Kinds) /\ events \in [Calls -> Seq(Kinds)] /\ j \in Kinds
  BY DEF CallsTypeOK, Kinds, Bearing
<1>2. events[c] \o <<j, k>> = (events[c] \o <<j>>) \o <<k>>
  BY <1>1, AppendTwo
<1>3. events'[c] = (events[c] \o <<j>>) \o <<k>> /\ \A x \in Calls \ {c} : events'[x] = events[x]
  BY <1>1, <1>2 DEF Record
<1> DEFINE es == events[c] \o <<j>>
<1>4. es \in Seq(Kinds) /\ HasLatest(es) /\ StatusIn(es) = j
  BY <1>1, StatusOfConcat
<1> HIDE DEF es
<1>5. /\ es \o <<k>> \in Seq(Kinds) /\ HasLatest(es \o <<k>>)
      /\ k \in Bearing => StatusIn(es \o <<k>>) = k
      /\ k \notin Bearing => StatusIn(es \o <<k>>) = j
  BY <1>4, StatusOfConcat
<1>6. events'[c] = es \o <<k>>
  BY <1>3 DEF es
<1>7. events' \in [Calls -> Seq(Kinds)]
  BY <1>1, <1>2, <1>5, <1>6 DEF Record, es
<1> QED BY <1>3, <1>5, <1>6, <1>7 DEF EventsTo, CallStatus

\* Nothing recorded.
LEMMA RecordsNone ==
  ASSUME CallsTypeOK, NEW c \in Calls, HasLatest(events[c]),
         UNCHANGED events \/ Record(c, <<>>)
  PROVE  EventsTo(c, CallStatus(c))
<1>1. events[c] \in Seq(Kinds) /\ events \in [Calls -> Seq(Kinds)]
  BY DEF CallsTypeOK, Kinds
<1>2. events[c] \o <<>> = events[c]
  BY <1>1
<1>3. events' = events
  BY <1>1, <1>2 DEF Record
<1> QED BY <1>1, <1>3 DEF EventsTo, CallStatus

-----------------------------------------------------------------------------
(* What a step leaves alone *)

\* The step changes nothing of x.
Same(x) ==
  /\ cli'[x] = cli[x] /\ sends'[x] = sends[x] /\ wire'[x] = wire[x]
  /\ events'[x] = events[x] /\ proxy'[x] = proxy[x] /\ reached'[x] = reached[x]
  /\ answers'[x] = answers[x]
  /\ (x \in known') = (x \in known)
  /\ (x \in active') = (x \in active)
  /\ (x \in working') = (x \in working)

\* The step is about c alone, and takes the stop latch back from no one.
Only(c) == (\A x \in Calls \ {c} : Same(x)) /\ (latch => latch')

\* It starts no Mignon.
NoSpawn(c) ==
  /\ active' \subseteq active /\ spawned' = spawned
  /\ c \in Spawns /\ (cli'[c] \in {"allowed", "sent"} \/ reached'[c] > 0) => c \in Launched

LEMMA FrameCall ==
  ASSUME NEW x \in Calls, CallInv(x), Same(x)
  PROVE  CallInv(x)'
BY DEF CallInv, Same, CallStatus

LEMMA FrameAction ==
  ASSUME NEW x \in Calls, ActionInv(x), Same(x), latch => latch'
  PROVE  ActionInv(x)' /\ Stands(x)
BY DEF ActionInv, Same, CallStatus, Stands

\* The calls, and the Mignons among them, are finitely many.
LEMMA FiniteCalls ==
  IsFiniteSet(Calls) /\ IsFiniteSet(Spawns) /\ Spawns \subseteq Calls
<1>1. IsFiniteSet(Calls) /\ Spawns \subseteq Calls
  BY ToolCallsAssumption
<1> QED BY <1>1, FS_Subset

LEMMA SpawnFrame ==
  ASSUME CallsTypeOK, SpawnInv, NEW c \in Calls, Only(c), NoSpawn(c)
  PROVE  SpawnInv'
<1>1. Launched' \subseteq Launched
  BY FiniteCalls DEF Launched, Only, Same, NoSpawn
<1>2. IsFiniteSet(active) /\ IsFiniteSet(Launched)
  BY FiniteCalls, FS_Subset DEF CallsTypeOK, Launched
<1>3. /\ Cardinality(active') <= Cardinality(active)
      /\ Cardinality(Launched') <= Cardinality(Launched)
  BY <1>1, <1>2, FS_Subset DEF NoSpawn
<1>4. /\ Cardinality(active) \in Nat /\ Cardinality(active') \in Nat
      /\ Cardinality(Launched) \in Nat /\ Cardinality(Launched') \in Nat
  BY <1>1, <1>2, FS_Subset, FS_CardinalityType DEF NoSpawn
<1> QED BY <1>3, <1>4, ToolCallsAssumption DEF SpawnInv, NoSpawn, CallsTypeOK

\* A step about one call keeps the invariant when it keeps it for that call.
Kept == IInv' /\ \A x \in Actions : Stands(x)
LEMMA StepAbout ==
  ASSUME IInv, NEW c \in Calls, Only(c), CallsTypeOK', CallInv(c)',
         c \in Actions => ActionInv(c)' /\ Stands(c), SpawnInv'
  PROVE  Kept
<1>1. \A x \in Calls : CallInv(x)'
  BY FrameCall DEF IInv, Only
<1>2. Actions \subseteq Calls
  BY ToolCallsAssumption
<1>3. \A x \in Actions : ActionInv(x)' /\ Stands(x)
  BY <1>2, FrameAction DEF IInv, Only
<1> QED BY <1>1, <1>3 DEF IInv, Kept

-----------------------------------------------------------------------------
(* The hooks *)

LEMMA RefuseKeeps ==
  ASSUME IInv, NEW c \in Calls, PreToolUse(c), Refuse(c)
  PROVE  Kept
<1>1. /\ CallsTypeOK /\ CallInv(c) /\ SpawnInv /\ HasLatest(events[c])
      /\ cli[c] = "idle" /\ CallStatus(c) = "none"
  BY DEF IInv, CallInv, PreToolUse
<1>2. \E st \in {"denied", "requested", "none"} : EventsTo(c, st)
  <2>1. CASE Record(c, <<"requested", "denied">>)
    BY <1>1, <2>1, RecordsTwo DEF Kinds, Bearing, OutcomeStatus
  <2>2. CASE Record(c, <<"requested">>)
    BY <1>1, <2>2, RecordsOne DEF Kinds, Bearing, OutcomeStatus
  <2>3. CASE UNCHANGED events
    BY <1>1, <2>3, RecordsNone
  <2> QED BY <2>1, <2>2, <2>3 DEF Refuse
<1>3. PICK st \in {"denied", "requested", "none"} : EventsTo(c, st)
  BY <1>2
<1>4. /\ cli' = [cli EXCEPT ![c] = "over"] /\ latch' \in {latch, TRUE}
      /\ UNCHANGED <<gate, ended, sends, wire, hookVars, proxy, serverVars, answers>>
  BY DEF Refuse, PreToolUse
<1>5. CallsTypeOK'
  BY <1>1, <1>3, <1>4 DEF CallsTypeOK, EventsTo, Kinds, hookVars, serverVars
<1>6. Only(c) /\ NoSpawn(c)
  BY <1>1, <1>3, <1>4 DEF CallsTypeOK, Only, Same, NoSpawn, Launched, EventsTo, hookVars, serverVars
<1>7. cli'[c] = "over" /\ CallStatus(c)' = st /\ HasLatest(events[c])'
  BY <1>1, <1>3, <1>4 DEF CallsTypeOK, EventsTo
<1>8. CallInv(c)'
  BY <1>1, <1>4, <1>7 DEF CallInv, hookVars, serverVars
<1>9. ActionInv(c)' /\ Stands(c)
  BY <1>1, <1>3, <1>4, <1>7 DEF CallInv, ActionInv, Stands, hookVars, serverVars, OutcomeStatus
<1> QED BY <1>1, <1>5, <1>6, <1>8, <1>9, SpawnFrame, StepAbout

\* check_spawn admits a Mignon only below both caps.
LEMMA AllowSpawns ==
  ASSUME IInv, NEW c \in Calls, PreToolUse(c), Allow(c)
  PROVE  SpawnInv'
<1>1. CallsTypeOK /\ SpawnInv /\ cli[c] = "idle" /\ CallInv(c)
  BY DEF IInv, PreToolUse
<1>2. /\ cli' = [cli EXCEPT ![c] = "allowed"] /\ reached' = reached
      /\ active' = active \cup ({c} \cap Spawns)
      /\ spawned' = IF c \in Spawns THEN spawned + 1 ELSE spawned
  BY DEF Allow, PreToolUse, serverVars
<1>3. c \notin active /\ c \notin Launched
  BY <1>1 DEF CallInv, Launched
<1>4. Launched' = Launched \cup ({c} \cap Spawns)
  BY <1>1, <1>2, FiniteCalls DEF Launched, CallsTypeOK
<1>5. IsFiniteSet(active) /\ IsFiniteSet(Launched)
  BY <1>1, FiniteCalls, FS_Subset DEF CallsTypeOK, Launched
<1>6. CASE c \in Spawns
  <2>1. SpawnFits
    BY <1>6 DEF Allow, Denied
  <2>2. {c} \cap Spawns = {c}
    BY <1>6
  <2>3. /\ Cardinality(active') = Cardinality(active) + 1
        /\ Cardinality(Launched') = Cardinality(Launched) + 1
    BY <1>2, <1>3, <1>4, <1>5, <2>2, FS_AddElement
  <2>4. Cardinality(active) \in Nat /\ Cardinality(Launched) \in Nat
    BY <1>5, FS_CardinalityType
  <2> QED BY <1>1, <1>2, <1>6, <2>1, <2>3, <2>4, ToolCallsAssumption DEF SpawnInv, SpawnFits, CallsTypeOK
<1>7. CASE c \notin Spawns
  <2>1. active' = active /\ Launched' = Launched /\ spawned' = spawned
    BY <1>2, <1>4, <1>7
  <2> QED BY <1>1, <2>1 DEF SpawnInv
<1> QED BY <1>6, <1>7

LEMMA AllowKeeps ==
  ASSUME IInv, NEW c \in Calls, PreToolUse(c), Allow(c)
  PROVE  Kept
<1>1. /\ CallsTypeOK /\ CallInv(c) /\ HasLatest(events[c])
      /\ cli[c] = "idle" /\ CallStatus(c) = "none"
  BY DEF IInv, CallInv, PreToolUse
<1>2. EventsTo(c, "requested")
  BY <1>1, RecordsTwo DEF Allow, Kinds, Bearing, OutcomeStatus
<1>3. /\ cli' = [cli EXCEPT ![c] = "allowed"]
      /\ proxy' = [proxy EXCEPT ![c] = IF c \in Proxied THEN "pending" ELSE @]
      /\ known' = known \cup {c}
      /\ active' = active \cup ({c} \cap Spawns)
      /\ spawned' = IF c \in Spawns THEN spawned + 1 ELSE spawned
      /\ UNCHANGED <<latch, gate, ended, sends, wire, reached, working, answers>>
  BY DEF Allow, PreToolUse, serverVars
<1>4. CallsTypeOK'
  BY <1>1, <1>2, <1>3 DEF CallsTypeOK, EventsTo, Kinds
<1>5. Only(c)
  <2>1. ASSUME NEW x \in Calls \ {c} PROVE Same(x)
    <3>1. cli'[x] = cli[x] /\ proxy'[x] = proxy[x] /\ events'[x] = events[x]
      BY <1>1, <1>2, <1>3 DEF CallsTypeOK, EventsTo
    <3>2. (x \in known') = (x \in known) /\ (x \in active') = (x \in active)
      BY <1>3
    <3> QED BY <1>3, <3>1, <3>2 DEF Same
  <2> QED BY <1>3, <2>1 DEF Only
<1>6. /\ cli'[c] = "allowed" /\ CallStatus(c)' = "requested" /\ HasLatest(events[c])'
      /\ proxy'[c] = IF c \in Proxied THEN "pending" ELSE proxy[c]
  BY <1>1, <1>2, <1>3 DEF CallsTypeOK, EventsTo
<1>7. CallInv(c)'
  BY <1>1, <1>3, <1>6, ToolCallsAssumption DEF CallInv, CallsTypeOK
<1>8. ActionInv(c)' /\ Stands(c)
  <2>1. c \notin working' /\ reached'[c] = 0 /\ answers'[c] = {}
    BY <1>1, <1>3 DEF CallInv
  <2>2. ActionInv(c)'
    BY <1>6, <2>1 DEF ActionInv
  <2> QED BY <1>1, <2>2 DEF Stands, OutcomeStatus
<1> QED BY <1>4, <1>5, <1>7, <1>8, AllowSpawns, StepAbout

LEMMA PreToolUseKeeps ==
  ASSUME IInv, NEW c \in Calls, PreToolUse(c)
  PROVE  Kept
BY RefuseKeeps, AllowKeeps DEF PreToolUse

\* A report about a call ends it, and records an outcome only where none is known.
LEMMA ReportKeeps ==
  ASSUME IInv, NEW c \in Calls, c \in known, cli[c] \in {"allowed", "sent"},
         NEW st, EventsTo(c, st),
         cli' = [cli EXCEPT ![c] = "over"], Forget(c), latch' \in {latch, TRUE},
         UNCHANGED <<gate, ended, sends, wire, proxy, serverVars, answers>>,
         c \in Actions =>
           \/ st = CallStatus(c)
           \/ CallStatus(c) = "requested" /\ st = "unknown"
           \/ /\ CallStatus(c) = "requested" /\ c \notin Proxied /\ st = "succeeded"
           \/ /\ CallStatus(c) = "requested" /\ proxy[c] = "pending" /\ st = "failed"
              /\ wire[c] = 0 \/ latch
  PROVE  Kept
<1>1. CallsTypeOK /\ CallInv(c) /\ SpawnInv /\ (c \in Actions => ActionInv(c))
  BY DEF IInv
<1>2. CallsTypeOK'
  BY <1>1 DEF CallsTypeOK, EventsTo, Kinds, Forget, serverVars
<1>3. Only(c)
  <2>1. ASSUME NEW x \in Calls \ {c} PROVE Same(x)
    <3>1. cli'[x] = cli[x] /\ events'[x] = events[x]
      BY <1>1 DEF CallsTypeOK, EventsTo
    <3>2. (x \in known') = (x \in known) /\ (x \in active') = (x \in active)
      BY DEF Forget
    <3> QED BY <3>1, <3>2 DEF Same, serverVars
  <2>2. latch => latch'
    BY <1>1 DEF CallsTypeOK
  <2> QED BY <2>1, <2>2 DEF Only
<1>4. NoSpawn(c)
  BY <1>1 DEF CallsTypeOK, NoSpawn, Launched, Forget, serverVars
<1>5. cli'[c] = "over" /\ CallStatus(c)' = st /\ HasLatest(events[c])'
  BY <1>1 DEF CallsTypeOK, EventsTo
<1>6. CallInv(c)'
  BY <1>1, <1>5 DEF CallInv, Forget, serverVars
<1>7. ASSUME c \in Actions PROVE ActionInv(c)' /\ Stands(c)
  <2>1. ActionInv(c) /\ c \notin known'
    BY <1>1, <1>7 DEF Forget
  <2>2. /\ reached'[c] = reached[c] /\ proxy'[c] = proxy[c] /\ wire'[c] = wire[c]
        /\ answers'[c] = answers[c] /\ working' = working
    BY DEF serverVars
  <2>3. ActionInv(c)'
    BY <1>1, <1>3, <1>5, <1>7, <2>1, <2>2 DEF Only, CallInv, ActionInv
  <2>4. Stands(c)
    BY <1>5, <1>7 DEF Stands, OutcomeStatus
  <2> QED BY <2>3, <2>4
<1> QED BY <1>1, <1>2, <1>3, <1>4, <1>6, <1>7, SpawnFrame, StepAbout

LEMMA PostToolUseKeeps ==
  ASSUME IInv, NEW c \in Calls, PostToolUse(c)
  PROVE  Kept
<1>1. /\ CallsTypeOK /\ CallInv(c) /\ (c \in Actions => ActionInv(c)) /\ HasLatest(events[c])
  BY DEF IInv, CallInv
<1>2. CASE c \in Proxied /\ ProxiedPost(c)
  <2>1. CASE proxy[c] = "completed" /\ Record(c, <<"delivered">>) /\ UNCHANGED latch
    <3>1. EventsTo(c, CallStatus(c))
      BY <1>1, <2>1, RecordsOne DEF Kinds, Bearing, OutcomeStatus
    <3> QED BY <2>1, <3>1, ReportKeeps DEF PostToolUse
  <2>2. CASE UNCHANGED events /\ latch' = TRUE
    <3>1. EventsTo(c, CallStatus(c))
      BY <1>1, <2>2, RecordsNone
    <3> QED BY <2>2, <3>1, ReportKeeps DEF PostToolUse
  <2>3. CASE proxy[c] # "completed" /\ Record(c, <<Unresolved(c)>>) /\ latch' = TRUE
    <3>1. EventsTo(c, Unresolved(c))
      BY <1>1, <2>3, RecordsOne DEF Kinds, Bearing, OutcomeStatus, Unresolved
    <3>2. c \in Actions => CallStatus(c) = "requested" /\ Unresolved(c) = "unknown"
      BY <1>1, <2>3 DEF PostToolUse, ActionInv, Unresolved
    <3> QED BY <2>3, <3>1, <3>2, ReportKeeps DEF PostToolUse
  <2> QED BY <1>2, <2>1, <2>2, <2>3 DEF ProxiedPost
<1>3. CASE c \notin Proxied /\ DirectPost(c)
  <2>1. c \in Actions => CallStatus(c) = "requested"
    BY <1>1, <1>3 DEF PostToolUse, ActionInv, CallInv
  <2>2. CASE /\ latch' \in {latch, TRUE}
             /\ Record(c, <<"succeeded", "delivered">>) \/ Record(c, <<"succeeded">>)
    <3>1. EventsTo(c, "succeeded")
      BY <1>1, <2>2, RecordsOne, RecordsTwo DEF Kinds, Bearing, OutcomeStatus
    <3> QED BY <1>3, <2>1, <2>2, <3>1, ReportKeeps DEF PostToolUse
  <2>3. CASE /\ latch' \in {latch, TRUE}
             /\ Record(c, <<Unresolved(c), "delivered">>) \/ Record(c, <<Unresolved(c)>>)
    <3>1. EventsTo(c, Unresolved(c))
      BY <1>1, <2>3, RecordsOne, RecordsTwo DEF Kinds, Bearing, OutcomeStatus, Unresolved
    <3>2. c \in Actions => Unresolved(c) = "unknown"
      BY DEF Unresolved
    <3> QED BY <2>1, <2>3, <3>1, <3>2, ReportKeeps DEF PostToolUse
  <2>4. CASE latch' = TRUE /\ UNCHANGED events
    <3>1. EventsTo(c, CallStatus(c))
      BY <1>1, <2>4, RecordsNone
    <3> QED BY <2>4, <3>1, ReportKeeps DEF PostToolUse
  <2> QED BY <1>3, <2>2, <2>3, <2>4 DEF DirectPost
<1> QED BY <1>2, <1>3 DEF PostToolUse

LEMMA PostToolUseFailureKeeps ==
  ASSUME IInv, NEW c \in Calls, PostToolUseFailure(c)
  PROVE  Kept
<1>1. /\ CallsTypeOK /\ CallInv(c) /\ (c \in Actions => ActionInv(c)) /\ HasLatest(events[c])
  BY DEF IInv, CallInv
<1>2. CASE UNCHANGED events \/ Record(c, <<>>)
  <2>1. EventsTo(c, CallStatus(c))
    BY <1>1, <1>2, RecordsNone
  <2> QED BY <2>1, ReportKeeps DEF PostToolUseFailure
<1>3. CASE /\ proxy[c] \notin {"claimed", "completed"} /\ UNCHANGED latch
           /\ Record(c, <<IF proxy[c] = "pending" THEN "failed" ELSE Unresolved(c)>>)
  <2>1. c \in Actions => CallStatus(c) = "requested"
    BY <1>1, <1>3 DEF PostToolUseFailure, ActionInv
  <2>2. wire[c] = 0 \/ latch
    BY <1>1 DEF PostToolUseFailure, CallInv
  <2>3. CASE proxy[c] = "pending"
    <3>1. EventsTo(c, "failed")
      BY <1>1, <1>3, <2>3, RecordsOne DEF Kinds, Bearing, OutcomeStatus
    <3> QED BY <1>3, <2>1, <2>2, <2>3, <3>1, ReportKeeps DEF PostToolUseFailure
  <2>4. CASE proxy[c] # "pending"
    <3>1. EventsTo(c, Unresolved(c))
      BY <1>1, <1>3, <2>4, RecordsOne DEF Kinds, Bearing, OutcomeStatus, Unresolved
    <3>2. c \in Actions => Unresolved(c) = "unknown"
      BY DEF Unresolved
    <3> QED BY <1>3, <2>1, <3>1, <3>2, ReportKeeps DEF PostToolUseFailure
  <2> QED BY <2>3, <2>4
<1> QED BY <1>2, <1>3 DEF PostToolUseFailure, FailureStatus

-----------------------------------------------------------------------------
(* The CLI and the proxy *)

LEMMA CliSendsKeeps ==
  ASSUME IInv, NEW c \in Calls, CliSends(c)
  PROVE  Kept
<1>1. CallsTypeOK /\ CallInv(c) /\ SpawnInv /\ (c \in Actions => ActionInv(c))
  BY DEF IInv
<1>2. /\ cli[c] \in {"allowed", "sent"} /\ cli' = [cli EXCEPT ![c] = "sent"]
      /\ sends' = [sends EXCEPT ![c] = @ + 1]
      /\ UNCHANGED <<latch, gate, ended, hookVars, events, proxy, working, answers>>
  BY DEF CliSends
<1>3. /\ wire' \in [Calls -> Nat] /\ reached' \in [Calls -> Nat]
      /\ \A x \in Calls \ {c} : wire'[x] = wire[x] /\ reached'[x] = reached[x]
      /\ c \in Proxied => wire'[c] = wire[c] + 1 /\ reached'[c] = reached[c]
      /\ c \notin Proxied => wire'[c] = wire[c] /\ reached'[c] = reached[c] + 1 /\ sends[c] < 1
  <2>1. wire \in [Calls -> Nat] /\ reached \in [Calls -> Nat]
    BY <1>1 DEF CallsTypeOK
  <2>2. CASE c \in Proxied
    BY <2>1, <2>2 DEF CliSends
  <2>3. CASE c \notin Proxied
    BY <2>1, <2>3 DEF CliSends
  <2> QED BY <2>2, <2>3
<1>4. CallsTypeOK'
  <2>1. cli' \in [Calls -> {"idle", "allowed", "sent", "over"}] /\ sends' \in [Calls -> Nat]
    BY <1>1, <1>2 DEF CallsTypeOK
  <2> QED BY <1>1, <1>2, <1>3, <2>1 DEF CallsTypeOK, hookVars
<1>5. Only(c)
  <2>1. ASSUME NEW x \in Calls \ {c} PROVE Same(x)
    <3>1. cli'[x] = cli[x] /\ sends'[x] = sends[x]
      BY <1>1, <1>2 DEF CallsTypeOK
    <3> QED BY <1>2, <1>3, <3>1 DEF Same, hookVars
  <2> QED BY <1>2, <2>1 DEF Only
<1>6. NoSpawn(c)
  BY <1>1, <1>2 DEF NoSpawn, Launched, hookVars
<1>7. /\ cli'[c] = "sent" /\ sends'[c] = sends[c] + 1 /\ sends[c] \in Nat
      /\ CallStatus(c)' = CallStatus(c) /\ events' = events
  BY <1>1, <1>2 DEF CallsTypeOK, CallStatus
<1>8. CallInv(c)'
  <2>1. /\ known' = known /\ active' = active /\ working' = working
        /\ proxy' = proxy /\ answers' = answers
    BY <1>2 DEF hookVars
  <2>2. reached'[c] <= 1
    BY <1>1, <1>3, <1>7 DEF CallInv, CallsTypeOK
  <2> QED BY <1>1, <1>2, <1>3, <1>7, <2>1, <2>2 DEF CallInv
<1>9. ASSUME c \in Actions PROVE ActionInv(c)' /\ Stands(c)
  <2>1. ActionInv(c) /\ known' = known /\ working' = working /\ proxy' = proxy /\ answers' = answers
    BY <1>1, <1>2, <1>9 DEF hookVars
  <2>2. CallStatus(c) \notin {"denied", "failed"} \/ (c \in Proxied /\ proxy[c] \notin {"none", "pending"})
    BY <1>1, <1>2, <2>1 DEF ActionInv, CallInv
  <2>3. ActionInv(c)'
    BY <1>3, <1>7, <2>1, <2>2 DEF ActionInv
  <2> QED BY <1>7, <2>3 DEF Stands
<1> QED BY <1>1, <1>4, <1>5, <1>6, <1>8, <1>9, SpawnFrame, StepAbout

\* What the proxy does with a message or a result, for the invariant: the call is one of
\* its own, and what it records of an action says nothing new of a known outcome.
LEMMA ProxyKeeps ==
  ASSUME IInv, NEW c \in Proxied, NEW st, EventsTo(c, st),
         cli[c] # "idle", latch' \in {latch, TRUE},
         UNCHANGED <<gate, ended, cli, sends, hookVars>>,
         wire' \in [Calls -> Nat], \A x \in Calls \ {c} : wire'[x] = wire[x],
         wire'[c] <= wire[c],
         proxy' \in [Calls -> {"none", "pending", "claimed", "completed"}],
         \A x \in Calls \ {c} : proxy'[x] = proxy[x],
         proxy'[c] = proxy[c] \/ proxy'[c] \in {"claimed", "completed"},
         proxy[c] = "completed" => proxy'[c] = "completed",
         reached' \in [Calls -> Nat], \A x \in Calls \ {c} : reached'[x] = reached[x],
         \/ reached'[c] = reached[c]
         \/ proxy[c] = "pending" /\ reached'[c] = reached[c] + 1 /\ ~(c \in Actions /\ latch)
            /\ wire[c] > 0 /\ st = CallStatus(c) /\ proxy'[c] = "claimed",
         working' \subseteq working \cup {c}, working \ {c} \subseteq working',
         c \in working' => proxy'[c] = "claimed" /\ (c \in working \/ reached'[c] = reached[c] + 1),
         answers' \in [Calls -> SUBSET {"envelope", "fallback"}],
         \A x \in Calls \ {c} : answers'[x] = answers[x],
         proxy'[c] = "pending" => answers'[c] = answers[c],
         c \in Actions =>
           \/ st = CallStatus(c)
           \/ proxy[c] = "pending" /\ proxy'[c] = "completed" /\ st = "failed"
              /\ reached'[c] = reached[c] /\ c \notin working'
           \/ c \in working /\ c \notin working' /\ st \in {"succeeded", "unknown"}
              /\ proxy'[c] = "completed"
  PROVE  Kept
<1>1. CallsTypeOK /\ CallInv(c) /\ SpawnInv /\ (c \in Actions => ActionInv(c)) /\ c \in Calls
  BY ToolCallsAssumption DEF IInv
<1>2. /\ latch' \in BOOLEAN /\ (latch => latch')
      /\ known' = known /\ active' = active /\ spawned' = spawned /\ cli' = cli /\ sends' = sends
      /\ wire[c] \in Nat /\ wire'[c] \in Nat /\ reached[c] \in Nat /\ reached'[c] \in Nat
  BY <1>1 DEF CallsTypeOK, hookVars
<1>3. CallsTypeOK'
  <2>1. events' \in [Calls -> Seq({"requested", "dispatched", "delivered"} \cup OutcomeStatus)]
    BY DEF EventsTo, Kinds
  <2>2. working' \subseteq Proxied
    BY <1>1 DEF CallsTypeOK
  <2> QED BY <1>1, <1>2, <2>1, <2>2 DEF CallsTypeOK
<1>4. Only(c)
  <2>1. ASSUME NEW x \in Calls \ {c} PROVE Same(x)
    <3>1. (x \in working') = (x \in working)
      OBVIOUS
    <3> QED BY <1>2, <3>1 DEF Same, EventsTo
  <2> QED BY <1>2, <2>1 DEF Only
<1>5. NoSpawn(c)
  BY <1>2, ToolCallsAssumption DEF NoSpawn
<1>6. HasLatest(events[c])' /\ CallStatus(c)' = st
  BY DEF EventsTo
<1>7. CallInv(c)'
  <2>1. proxy[c] = "pending" => reached[c] = 0
    BY <1>1 DEF CallInv
  <2>2. reached'[c] <= 1 /\ (c \in working' => reached'[c] = 1)
    BY <1>1, <1>2, <2>1 DEF CallInv
  <2>3. proxy'[c] \in {"none", "pending"} => reached'[c] = 0
    BY <1>1 DEF CallInv
  <2>4. cli[c] \in {"idle", "allowed"} => wire'[c] = 0
    BY <1>1, <1>2 DEF CallInv
  <2> QED BY <1>1, <1>2, <1>6, <2>2, <2>3, <2>4 DEF CallInv
<1>8. ASSUME c \in Actions PROVE ActionInv(c)' /\ Stands(c)
  <2>1. ActionInv(c)
    BY <1>1, <1>8
  <2>2. CASE st = CallStatus(c) /\ reached'[c] = reached[c] /\ (c \in working' => c \in working)
    <3>1. wire[c] = 0 => wire'[c] = 0
      BY <1>2
    <3>2. proxy'[c] \in {"none", "pending"} => proxy'[c] = proxy[c] /\ (proxy[c] = "pending" => answers'[c] = answers[c])
      OBVIOUS
    <3>3. ActionInv(c)'
      BY <1>2, <1>6, <2>1, <2>2, <3>1, <3>2 DEF ActionInv
    <3> QED BY <1>6, <2>2, <3>3 DEF Stands
  <2>3. CASE proxy[c] = "pending" /\ reached'[c] = reached[c] + 1 /\ ~latch /\ wire[c] > 0
             /\ st = CallStatus(c) /\ proxy'[c] = "claimed"
    <3>1. CallStatus(c) \in {"requested", "unknown"}
      BY <1>2, <2>1, <2>3 DEF ActionInv
    <3>2. c \in known => CallStatus(c) = "requested"
      BY <2>1, <2>3 DEF ActionInv
    <3>3. ActionInv(c)'
      BY <1>2, <1>6, <2>3, <3>1, <3>2 DEF ActionInv
    <3> QED BY <1>6, <2>3, <3>3 DEF Stands
  <2>4. CASE proxy[c] = "pending" /\ proxy'[c] = "completed" /\ st = "failed"
             /\ reached'[c] = reached[c] /\ c \notin working'
    <3>1. reached[c] = 0 /\ CallStatus(c) \in {"requested", "failed", "unknown"}
      BY <1>1, <2>1, <2>4 DEF ActionInv, CallInv
    <3>2. ActionInv(c)'
      BY <1>6, <2>4, <3>1 DEF ActionInv
    <3> QED BY <1>6, <2>4, <3>1, <3>2 DEF Stands, OutcomeStatus
  <2>5. CASE c \in working /\ c \notin working' /\ st \in {"succeeded", "unknown"}
             /\ proxy'[c] = "completed"
    <3>1. CallStatus(c) \in {"requested", "unknown"}
      BY <2>1, <2>5 DEF ActionInv
    <3>2. ActionInv(c)'
      BY <1>6, <2>5 DEF ActionInv
    <3> QED BY <1>6, <3>1, <3>2 DEF Stands, OutcomeStatus
  <2>6. c \in working' => c \in working \/ reached'[c] = reached[c] + 1
    OBVIOUS
  <2> QED BY <1>2, <1>8, <2>2, <2>3, <2>4, <2>5, <2>6
<1> QED BY <1>1, <1>3, <1>4, <1>5, <1>7, <1>8, SpawnFrame, StepAbout

LEMMA ProxyTakesKeeps ==
  ASSUME IInv, NEW c \in Calls, ProxyTakes(c)
  PROVE  Kept
<1>1. CallsTypeOK /\ CallInv(c) /\ (c \in Actions => ActionInv(c)) /\ HasLatest(events[c])
  BY DEF IInv, CallInv
<1>2. c \in Proxied /\ cli[c] # "idle"
  BY <1>1 DEF ProxyTakes, CallInv
<1>3. /\ wire' \in [Calls -> Nat] /\ (\A x \in Calls \ {c} : wire'[x] = wire[x])
      /\ wire'[c] <= wire[c] /\ wire[c] > 0
  <2>1. wire \in [Calls -> Nat]
    BY <1>1 DEF CallsTypeOK
  <2> QED BY <2>1 DEF ProxyTakes
<1>4. UNCHANGED <<gate, ended, cli, sends, hookVars>>
  BY DEF ProxyTakes
<1>5. /\ proxy \in [Calls -> {"none", "pending", "claimed", "completed"}]
      /\ reached \in [Calls -> Nat] /\ answers \in [Calls -> SUBSET {"envelope", "fallback"}]
  BY <1>1 DEF CallsTypeOK
<1>6. proxy[c] = "pending" => c \notin working
  BY <1>1 DEF CallInv
<1>7. CASE TakesAgain(c)
  <2>1. EventsTo(c, CallStatus(c))
    BY <1>1, <1>7, RecordsNone DEF TakesAgain, Fallback
  <2>2. proxy' = proxy /\ reached' = reached /\ working' = working /\ latch' = TRUE /\ proxy[c] # "pending"
    BY <1>7 DEF TakesAgain, Fallback, Claimable, serverVars
  <2>3. /\ answers' \in [Calls -> SUBSET {"envelope", "fallback"}]
        /\ \A x \in Calls \ {c} : answers'[x] = answers[x]
    BY <1>5, <1>7 DEF TakesAgain, Fallback, Answer
  <2>4. c \in working => proxy[c] = "claimed"
    BY <1>1 DEF CallInv
  <2> QED BY <1>2, <1>3, <1>4, <1>5, <2>1, <2>2, <2>3, <2>4, ProxyKeeps
<1>8. CASE NotForwarded(c)
  <2>1. proxy[c] = "pending" /\ reached' = reached /\ working' = working
    BY <1>8 DEF NotForwarded, Claimable, serverVars
  <2>2. CASE /\ proxy' = [proxy EXCEPT ![c] = "completed"] /\ Record(c, <<"failed">>)
             /\ Answer(c, "envelope") /\ latch' \in {latch, TRUE}
    <3>1. EventsTo(c, "failed")
      BY <1>1, <2>2, RecordsOne DEF Kinds, Bearing, OutcomeStatus
    <3>2. /\ answers' \in [Calls -> SUBSET {"envelope", "fallback"}]
          /\ \A x \in Calls \ {c} : answers'[x] = answers[x]
      BY <1>5, <2>2 DEF Answer
    <3>3. /\ proxy' \in [Calls -> {"none", "pending", "claimed", "completed"}]
          /\ proxy'[c] = "completed" /\ \A x \in Calls \ {c} : proxy'[x] = proxy[x]
      BY <1>5, <2>2
    <3> QED BY <1>2, <1>3, <1>4, <1>5, <1>6, <2>1, <2>2, <3>1, <3>2, <3>3, ProxyKeeps
  <2>3. CASE proxy' = [proxy EXCEPT ![c] = "claimed"] /\ Fallback(c)
    <3>1. EventsTo(c, CallStatus(c)) /\ latch' = TRUE
      BY <1>1, <2>3, RecordsNone DEF Fallback
    <3>2. /\ answers' \in [Calls -> SUBSET {"envelope", "fallback"}]
          /\ \A x \in Calls \ {c} : answers'[x] = answers[x]
      BY <1>5, <2>3 DEF Fallback, Answer
    <3>3. /\ proxy' \in [Calls -> {"none", "pending", "claimed", "completed"}]
          /\ proxy'[c] = "claimed" /\ \A x \in Calls \ {c} : proxy'[x] = proxy[x]
      BY <1>5, <2>3
    <3> QED BY <1>2, <1>3, <1>4, <1>5, <1>6, <2>1, <3>1, <3>2, <3>3, ProxyKeeps
  <2> QED BY <1>8, <2>2, <2>3 DEF NotForwarded
<1>9. CASE Forwards(c)
  <2>1. EventsTo(c, CallStatus(c))
    BY <1>1, <1>9, RecordsNone DEF Forwards
  <2>2. /\ proxy[c] = "pending" /\ ~(c \in Actions /\ latch)
        /\ working' = working \cup {c} /\ latch' = latch /\ answers' = answers
    BY <1>9 DEF Forwards, Claimable, StopForbids
  <2>3. /\ proxy' \in [Calls -> {"none", "pending", "claimed", "completed"}]
        /\ proxy'[c] = "claimed" /\ \A x \in Calls \ {c} : proxy'[x] = proxy[x]
    BY <1>5, <1>9 DEF Forwards
  <2>4. /\ reached' \in [Calls -> Nat] /\ reached'[c] = reached[c] + 1
        /\ \A x \in Calls \ {c} : reached'[x] = reached[x]
    BY <1>5, <1>9 DEF Forwards
  <2> QED BY <1>2, <1>3, <1>4, <1>5, <2>1, <2>2, <2>3, <2>4, ProxyKeeps
<1> QED BY <1>7, <1>8, <1>9 DEF ProxyTakes

LEMMA ProxyReturnsKeeps ==
  ASSUME IInv, NEW c \in Calls, ProxyReturns(c)
  PROVE  Kept
<1>1. CallsTypeOK /\ CallInv(c) /\ (c \in Actions => ActionInv(c)) /\ HasLatest(events[c])
  BY DEF IInv, CallInv
<1>2. c \in working /\ proxy[c] = "claimed" /\ c \in Proxied /\ cli[c] # "idle"
  BY <1>1 DEF ProxyReturns, CallInv, CallsTypeOK
<1>3. /\ working' = working \ {c}
      /\ UNCHANGED <<gate, ended, cli, sends, wire, hookVars, reached>>
  BY DEF ProxyReturns
<1>4. /\ proxy \in [Calls -> {"none", "pending", "claimed", "completed"}]
      /\ reached \in [Calls -> Nat] /\ answers \in [Calls -> SUBSET {"envelope", "fallback"}]
      /\ wire \in [Calls -> Nat] /\ wire[c] <= wire[c]
  BY <1>1 DEF CallsTypeOK
<1>5. CASE Fallback(c) /\ UNCHANGED proxy
  <2>1. EventsTo(c, CallStatus(c)) /\ latch' = TRUE
    BY <1>1, <1>5, RecordsNone DEF Fallback
  <2>2. /\ answers' \in [Calls -> SUBSET {"envelope", "fallback"}]
        /\ \A x \in Calls \ {c} : answers'[x] = answers[x]
    BY <1>4, <1>5 DEF Fallback, Answer
  <2> QED BY <1>2, <1>3, <1>4, <1>5, <2>1, <2>2, ProxyKeeps
<1>6. CASE /\ proxy' = [proxy EXCEPT ![c] = "completed"] /\ Answer(c, "envelope")
           /\ latch' \in {latch, TRUE}
           /\ Record(c, <<"succeeded">>) \/ Record(c, <<Unresolved(c)>>)
  <2>1. \E st : EventsTo(c, st) /\ (c \in Actions => st \in {"succeeded", "unknown"})
    <3>1. CASE Record(c, <<"succeeded">>)
      <4>1. EventsTo(c, "succeeded")
        BY <1>1, <3>1, RecordsOne DEF Kinds, Bearing, OutcomeStatus
      <4> QED BY <4>1
    <3>2. CASE Record(c, <<Unresolved(c)>>)
      <4>1. EventsTo(c, Unresolved(c))
        BY <1>1, <3>2, RecordsOne DEF Kinds, Bearing, OutcomeStatus, Unresolved
      <4> QED BY <4>1 DEF Unresolved
    <3> QED BY <1>6, <3>1, <3>2
  <2>2. PICK st : EventsTo(c, st) /\ (c \in Actions => st \in {"succeeded", "unknown"})
    BY <2>1
  <2>3. /\ answers' \in [Calls -> SUBSET {"envelope", "fallback"}]
        /\ \A x \in Calls \ {c} : answers'[x] = answers[x]
    BY <1>4, <1>6 DEF Answer
  <2>4. /\ proxy' \in [Calls -> {"none", "pending", "claimed", "completed"}]
        /\ proxy'[c] = "completed" /\ \A x \in Calls \ {c} : proxy'[x] = proxy[x]
    BY <1>4, <1>6
  <2> QED BY <1>2, <1>3, <1>4, <1>6, <2>2, <2>3, <2>4, ProxyKeeps
<1> QED BY <1>5, <1>6 DEF ProxyReturns

-----------------------------------------------------------------------------
(* The session *)

LEMMA SessionKeeps ==
  ASSUME IInv, RequestStop \/ NarrowGate \/ UNCHANGED callVars
  PROVE  Kept
<1>1. CallsTypeOK /\ SpawnInv
  BY DEF IInv
<1>2. latch' \in BOOLEAN /\ (latch => latch') /\ gate' \in {"open", "cleanup", "closed"}
  BY <1>1 DEF CallsTypeOK, RequestStop, NarrowGate, callVars
<1>3. UNCHANGED <<ended, cli, sends, wire, hookVars, events, proxy, serverVars, answers>>
  BY DEF RequestStop, NarrowGate, callVars
<1>4. CallsTypeOK'
  BY <1>1, <1>2, <1>3 DEF CallsTypeOK, hookVars, serverVars
<1>5. \A x \in Calls : Same(x)
  BY <1>3 DEF Same, hookVars, serverVars
<1>6. SpawnInv'
  BY <1>1, <1>3 DEF SpawnInv, Launched, hookVars, serverVars
<1>7. \A x \in Calls : CallInv(x)'
  BY <1>5, FrameCall DEF IInv
<1>8. \A x \in Actions : ActionInv(x)' /\ Stands(x)
  BY <1>2, <1>5, FrameAction, ToolCallsAssumption DEF IInv
<1> QED BY <1>4, <1>6, <1>7, <1>8 DEF IInv, Kept

\* What the end of the session does to one call.
LEMMA EndsCall ==
  ASSUME IInv, EndSession, NEW x \in Calls
  PROVE  /\ events'[x] \in Seq(Kinds) /\ HasLatest(events[x])'
         /\ CallStatus(x)' = CallStatus(x) \/ (CallStatus(x) = "requested" /\ CallStatus(x)' = "unknown")
<1>1. events[x] \in Seq(Kinds) /\ HasLatest(events[x])
  BY DEF IInv, CallInv, CallsTypeOK, Kinds
<1>2. CASE events'[x] = Append(events[x], "unknown") /\ CallStatus(x) = "requested"
  <2>1. "unknown" \in Kinds /\ "unknown" \in Bearing
    BY DEF Kinds, Bearing, OutcomeStatus
  <2>2. events'[x] = events[x] \o <<"unknown">>
    BY <1>1, <1>2, <2>1, AppendIsConcat
  <2> QED BY <1>1, <1>2, <2>1, <2>2, StatusOfConcat DEF CallStatus
<1>3. CASE events'[x] = events[x]
  BY <1>1, <1>3 DEF CallStatus
<1>4. events'[x] = IF Recorded(x, "dispatched") /\ CallStatus(x) = "requested"
                   THEN Append(events[x], "unknown") ELSE events[x]
  BY DEF EndSession
<1> QED BY <1>2, <1>3, <1>4

LEMMA EndSessionKeeps ==
  ASSUME IInv, EndSession
  PROVE  Kept
<1>1. CallsTypeOK /\ SpawnInv /\ Actions \subseteq Calls
  BY ToolCallsAssumption DEF IInv
<1>2. /\ ended' = TRUE
      /\ cli' = [c \in Calls |-> "over"] /\ wire' = [c \in Calls |-> 0]
      /\ working' = {} /\ known' = {} /\ active' = {}
      /\ UNCHANGED <<latch, gate, sends, spawned, proxy, reached, answers>>
  BY DEF EndSession
<1>3. events' \in [Calls -> Seq(Kinds)]
  <2>1. events' = [x \in Calls |-> events'[x]]
    BY DEF EndSession
  <2> QED BY <2>1, EndsCall
<1>4. CallsTypeOK'
  BY <1>1, <1>2, <1>3 DEF CallsTypeOK, Kinds
<1>5. ASSUME NEW x \in Calls PROVE CallInv(x)'
  BY <1>2, <1>5, EndsCall DEF IInv, CallInv
<1>6. ASSUME NEW x \in Actions PROVE ActionInv(x)' /\ Stands(x)
  <2>1. ActionInv(x) /\ x \in Calls
    BY <1>1, <1>6 DEF IInv
  <2>2. CallStatus(x)' = CallStatus(x) \/ (CallStatus(x) = "requested" /\ CallStatus(x)' = "unknown")
    BY <2>1, EndsCall
  <2>3. ActionInv(x)'
    BY <1>2, <2>1, <2>2 DEF ActionInv
  <2> QED BY <2>2, <2>3 DEF Stands, OutcomeStatus
<1>7. SpawnInv'
  <2>1. Launched' \subseteq Launched
    BY <1>2, FiniteCalls DEF Launched
  <2>2. IsFiniteSet(Launched)
    BY FiniteCalls, FS_Subset DEF Launched
  <2>3. /\ Cardinality(Launched') <= Cardinality(Launched)
        /\ Cardinality(Launched') \in Nat /\ Cardinality(Launched) \in Nat
    BY <2>1, <2>2, FS_Subset, FS_CardinalityType
  <2>4. Cardinality(active') = 0
    BY <1>2, FS_EmptySet
  <2> QED BY <1>1, <1>2, <2>3, <2>4, ToolCallsAssumption DEF SpawnInv, CallsTypeOK
<1> QED BY <1>4, <1>5, <1>6, <1>7 DEF IInv, Kept

-----------------------------------------------------------------------------
(* The theorems *)

LEMMA StepKeeps ==
  ASSUME IInv, [CallsNext]_callVars
  PROVE  Kept
BY PreToolUseKeeps, PostToolUseKeeps, PostToolUseFailureKeeps, CliSendsKeeps,
   ProxyTakesKeeps, ProxyReturnsKeeps, SessionKeeps, EndSessionKeeps DEF CallsNext, Hook

LEMMA InitIInv == CallsInit => IInv
<1> SUFFICES ASSUME CallsInit PROVE IInv
  OBVIOUS
<1>1. CallsTypeOK
  <2>1. /\ events = [c \in Calls |-> <<>>]
        /\ <<>> \in Seq({"requested", "dispatched", "delivered"} \cup OutcomeStatus)
    BY DEF CallsInit
  <2>2. events \in [Calls -> Seq({"requested", "dispatched", "delivered"} \cup OutcomeStatus)]
    BY <2>1
  <2> QED BY <2>2 DEF CallsInit, CallsTypeOK
<1>2. ASSUME NEW c \in Calls PROVE HasLatest(events[c]) /\ CallStatus(c) = "none"
  BY DEF CallsInit, HasLatest, CallStatus, StatusIn
<1>3. \A c \in Calls : CallInv(c)
  BY <1>2 DEF CallsInit, CallInv
<1>4. \A c \in Actions : ActionInv(c)
  BY <1>2, ToolCallsAssumption DEF CallsInit, ActionInv
<1>5. SpawnInv
  <2>1. active = {} /\ Launched = {}
    BY FiniteCalls DEF CallsInit, Launched
  <2> QED BY <2>1, FS_EmptySet, ToolCallsAssumption DEF SpawnInv, CallsInit
<1> QED BY <1>1, <1>3, <1>4, <1>5 DEF IInv

\* The inductive invariant holds throughout: what the hooks, the dispatch, the proxy and
\* the ledger each know of a call agrees.
THEOREM CallsInvariance == CallsSpec => []IInv
<1>1. IInv /\ [CallsNext]_callVars => IInv'
  BY StepKeeps DEF Kept
<1> QED BY <1>1, InitIInv, PTL DEF CallsSpec

\* Every variable of the calls keeps its type.
THEOREM CallsTyped == CallsSpec => []CallsTypeOK
<1>1. IInv => CallsTypeOK
  BY DEF IInv
<1> QED BY <1>1, CallsInvariance, PTL

\* For any number of calls, of repeated messages and of interrupts: a call reaches its
\* server at most once, and never when it is recorded as an action that was not done.
THEOREM CallReachesOnce == CallsSpec => []ReachesOnce
<1>1. IInv => ReachesOnce
  BY ToolCallsAssumption DEF IInv, CallInv, ActionInv, ReachesOnce
<1> QED BY <1>1, CallsInvariance, PTL

\* For any caps and any number of Agent calls admitted in parallel, the Mignons stay
\* within the caps.
THEOREM SpawnsWithinCaps == CallsSpec => []SpawnCaps
<1>1. ASSUME IInv PROVE SpawnCaps
  <2> DEFINE sent == {c \in Spawns : cli[c] = "sent"}
             ran == {c \in Spawns : reached[c] > 0}
  <2>1. IsFiniteSet(active) /\ IsFiniteSet(Launched)
    BY <1>1, FiniteCalls, FS_Subset DEF IInv, CallsTypeOK, Launched
  <2>2. sent \subseteq active
    BY <1>1, FiniteCalls DEF IInv, CallInv
  <2>3. ran \subseteq Launched
    BY DEF Launched
  <2>4. Cardinality(sent) <= Cardinality(active) /\ Cardinality(ran) <= Cardinality(Launched)
    BY <2>1, <2>2, <2>3, FS_Subset
  <2>5. /\ Cardinality(sent) \in Nat /\ Cardinality(ran) \in Nat
        /\ Cardinality(active) \in Nat /\ Cardinality(Launched) \in Nat /\ spawned \in Nat
    BY <1>1, <2>1, <2>2, <2>3, FS_Subset, FS_CardinalityType DEF IInv, CallsTypeOK
  <2> HIDE DEF sent, ran
  <2>6. Cardinality(sent) <= MaxConcurrent /\ Cardinality(ran) <= MaxSpawns
    BY <1>1, <2>4, <2>5, ToolCallsAssumption DEF IInv, SpawnInv
  <2> QED BY <2>6 DEF SpawnCaps, sent, ran
<1> QED BY <1>1, CallsInvariance, PTL

\* No step contradicts a known outcome of an action.
THEOREM CallOutcomeStands == CallsSpec => OutcomeStands
<1>1. IInv /\ [CallsNext]_callVars =>
        [\A c \in Actions :
           CallStatus(c) \in OutcomeStatus \ {"unknown"} => CallStatus(c)' = CallStatus(c)]_callVars
  BY StepKeeps DEF Kept, Stands
<1> QED BY <1>1, CallsInvariance, PTL DEF CallsSpec, OutcomeStands
=============================================================================
