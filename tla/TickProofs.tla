----------------------------- MODULE TickProofs -----------------------------
(***************************************************************************)
(* Proofs about Tick, for every number of fires, every calendar, and every *)
(* order of the budgets and gaps that TickAssumption allows.               *)
(***************************************************************************)
EXTENDS Tick, TLAPS

\* The history is a pair of variables in every proof below.
USE DEF history

----------------------------------------------------------------------------
(* The inductive invariant                                                 *)

\* A connection holds the lock, so at most one process writes the ledger.
Locked == \A p \in Procs : conn[p] => p \in lock

\* The ledger: a run without a session has no order, and what was sent is known to be.
RunInv(r) ==
  /\ sessions[r] <= 1
  /\ status[r] = "absent" => sessions[r] = 0
  /\ sessions[r] = 0 => order[r].call = "none"
  /\ order[r].call \in {"none", "failed"} => ~order[r].sent
  /\ order[r].sent => order[r].intent
  /\ status[r] \in {"ended", "invalid", "recovered"} => order[r].call # "requested"

\* The ledger: a slot's sell run follows its close run.
SellAfterClose ==
  \A s \in Slots : status[<<s, "close">>] = "absent" => status[<<s, "sell">>] = "absent"

\* A session, with or without a connection, and the call it has in flight.
SessionInv(p) ==
  /\ flight[p] # "none" => pc[p] = "session"
  /\ pc[p] = "session" => sessions[Run(p)] = 1
  /\ flight[p] # "none" => order[Run(p)].call \notin {"none", "failed"}
  /\ flight[p] = "requested" => ~order[Run(p)].sent
  /\ flight[p] \in {"intent", "sent"} => order[Run(p)].intent

\* Two sessions never share a run: the second finds the row of the first.
Apart ==
  \A p, q \in Procs : p # q /\ pc[p] = "session" /\ pc[q] = "session" => Run(p) # Run(q)

AtWork == {"gate", "plan", "session", "schedule", "cap", "final"}

\* What the process that holds the lock knows of the run it executes.
Holds(p) ==
  /\ pc[p] \in AtWork \cup {"recover"} => status[Run(p)] = "open"
  /\ pc[p] \in {"gate", "plan"} => sessions[Run(p)] = 0
  /\ pc[p] \in {"schedule", "cap"} =>
       order[Run(p)].call # "requested" /\ ending[p] # "recovered"
  /\ pc[p] = "final" /\ ending[p] \in {"ended", "invalid", "recovered"} =>
       order[Run(p)].call # "requested"
  /\ pc[p] \in AtWork /\ role[p] = "close" =>
       (pc[p] = "final" /\ ending[p] = "recovered") \/ status[<<slot[p], "sell">>] = "absent"
  /\ pc[p] = "sell" => status[<<slot[p], "close">>] # "absent" /\ status[<<slot[p], "sell">>] = "absent"

IInv ==
  /\ TypeOK
  /\ Locked
  /\ \A r \in Runs : RunInv(r)
  /\ SellAfterClose
  /\ \A p \in Procs : SessionInv(p)
  /\ Apart
  /\ \A p \in Procs : conn[p] => Holds(p)

----------------------------------------------------------------------------
(* Types                                                                   *)

LEMMA InitType == Init => TypeOK
BY TickAssumption DEF Init, TypeOK, Slots, Times, Runs, Roles, Order, CallStatus, Final, PcValue

LEMMA GotoType ==
  ASSUME TypeOK, NEW p \in Procs, NEW where \in PcValue, Goto(p, where)
  PROVE  /\ pc' \in [Procs -> PcValue] /\ pc'[p] = where
         /\ \A q \in Procs \ {p} : pc'[q] = pc[q]
BY DEF TypeOK, Goto

LEMMA EndType ==
  ASSUME TypeOK, NEW p \in Procs, NEW st \in Final, End(p, st)
  PROVE  /\ pc' \in [Procs -> PcValue] /\ pc'[p] = "final"
         /\ \A q \in Procs \ {p} : pc'[q] = pc[q]
         /\ ending' \in [Procs -> Final] /\ ending'[p] = st
BY DEF TypeOK, Goto, End, PcValue

LEMMA RunType ==
  ASSUME TypeOK, NEW p \in Procs
  PROVE  /\ Run(p) \in Runs /\ Run(p) = <<slot[p], role[p]>>
         /\ slot[p] \in Slots /\ role[p] \in Roles
         /\ <<slot[p], "close">> \in Runs /\ <<slot[p], "sell">> \in Runs
BY DEF TypeOK, Run, Runs, Roles

LEMMA PlacedType ==
  ASSUME NEW t, NEW g PROVE PlaceNextRun(t, g) \subseteq Times
BY TickAssumption DEF PlaceNextRun, NextOpen

\* A call gets a status: the rest of the order stays.
LEMMA CallSet ==
  ASSUME TypeOK, NEW r \in Runs, NEW c \in CallStatus, order' = [order EXCEPT ![r].call = c]
  PROVE  /\ order' \in [Runs -> Order]
         /\ \A s \in Runs : order'[s].sent = order[s].sent /\ order'[s].intent = order[s].intent
         /\ \A s \in Runs \ {r} : order'[s].call = order[s].call
         /\ order'[r].call = c
<1>1. order \in [Runs -> Order]
  BY DEF TypeOK
<1>2. /\ order'[r] = [order[r] EXCEPT !.call = c]
      /\ \A s \in Runs \ {r} : order'[s] = order[s]
      /\ order' \in [Runs -> Order]
  BY <1>1 DEF Order
<1>3. order'[r].call = c /\ order'[r].sent = order[r].sent /\ order'[r].intent = order[r].intent
  BY <1>1, <1>2 DEF Order
<1> QED
  BY <1>2, <1>3

LEMMA ResolveType ==
  ASSUME TypeOK, NEW p \in Procs, NEW st \in CallStatus, ResolveAs(p, st)
  PROVE  /\ order' \in [Runs -> Order]
         /\ \A r \in Runs : order'[r].sent = order[r].sent /\ order'[r].intent = order[r].intent
         /\ \A r \in Runs \ {Run(p)} : order'[r].call = order[r].call
         /\ order'[Run(p)].call = IF order[Run(p)].call = "requested" THEN st ELSE order[Run(p)].call
<1> DEFINE c == IF order[Run(p)].call = "requested" THEN st ELSE order[Run(p)].call
<1>1. Run(p) \in Runs /\ c \in CallStatus
  BY RunType DEF TypeOK, Order
<1>2. order' = [order EXCEPT ![Run(p)].call = c]
  BY DEF ResolveAs
<1> HIDE DEF c
<1> QED
  BY <1>1, <1>2, CallSet DEF c

LEMMA TypeStep ==
  ASSUME TypeOK, NEW p \in Procs, Fire(p) \/ SkipTick(p) \/ ProcStep(p)
                                 \/ LoseConnection(p) \/ Crash(p) \/ DropLock(p)
  PROVE  TypeOK'
<1> USE DEF procVars, ledgerVars
<1>r. Run(p) \in Runs
  BY RunType
<1>1. CASE Fire(p)
  BY <1>1 DEF Fire, Goto, TypeOK, PcValue
<1>2. CASE SkipTick(p)
  BY <1>2 DEF SkipTick, Goto, TypeOK, PcValue
<1>3. CASE OpenSlot(p)
  BY <1>3 DEF OpenSlot, Goto, TypeOK, PcValue, Roles
<1>4. CASE Gate(p)
  BY <1>4 DEF Gate, Goto, End, TypeOK, PcValue, Final
<1>5. CASE StartRun(p)
  BY <1>5, <1>r DEF StartRun, Goto, End, TypeOK, PcValue, Final
<1>6. CASE RequestOrder(p)
  <2>1. order' \in [Runs -> Order]
    BY <1>6, <1>r, CallSet DEF RequestOrder, CallStatus
  <2> QED
    BY <1>6, <2>1 DEF RequestOrder, TypeOK
<1>7. CASE RecordIntent(p)
  <2>1. CASE ResolveAs(p, "failed") /\ flight' = [flight EXCEPT ![p] = "none"]
    BY <1>7, <2>1, ResolveType DEF RecordIntent, TypeOK, CallStatus
  <2>2. CASE /\ order' = [order EXCEPT ![Run(p)].intent = TRUE]
             /\ flight' = [flight EXCEPT ![p] = "intent"]
    BY <1>7, <2>2, <1>r DEF RecordIntent, TypeOK, Order
  <2> QED
    BY <1>7, <2>1, <2>2 DEF RecordIntent
<1>8. CASE SendOrder(p)
  BY <1>8, <1>r DEF SendOrder, TypeOK, Order
<1>9. CASE RecordOutcome(p)
  <2>1. order' \in [Runs -> Order]
    BY <1>9, ResolveType DEF RecordOutcome, TypeOK, CallStatus
  <2> QED
    BY <1>9, <2>1 DEF RecordOutcome, TypeOK
<1>10. CASE ReadFill(p)
  BY <1>10, <1>r DEF ReadFill, TypeOK, Order
<1>11. CASE EndSession(p)
  <2>1. order' \in [Runs -> Order]
    BY <1>11, ResolveType DEF EndSession, TypeOK, CallStatus
  <2>2. request' \in [Procs -> SUBSET Times]
    BY <1>11, TickAssumption DEF EndSession, TypeOK
  <2>3. pc' \in [Procs -> PcValue] /\ ending' \in [Procs -> Final]
    BY <1>11 DEF EndSession, Goto, End, TypeOK, PcValue, Final
  <2> QED
    BY <1>11, <2>1, <2>2, <2>3 DEF EndSession, TypeOK
<1>12. CASE ApplyAgentNextRun(p)
  <2>1. pc' \in [Procs -> PcValue] /\ ending' \in [Procs -> Final]
    BY <1>12 DEF ApplyAgentNextRun, Goto, End, TypeOK, PcValue, Final
  <2>2. request' \in [Procs -> SUBSET Times] /\ binding' \in [Slots -> SUBSET Times]
    <3>1. UNION {PlaceNextRun(t, g) : t \in request[p], g \in gates[slot[p]]} \subseteq Times
      BY PlacedType
    <3> QED
      BY <1>12, <3>1 DEF ApplyAgentNextRun, TypeOK
  <2> QED
    BY <1>12, <2>1, <2>2 DEF ApplyAgentNextRun, TypeOK
<1>13. CASE ApplyUnfilledOrderCap(p)
  <2>1. Cap(slot[p]) \subseteq Times
    BY PlacedType DEF Cap
  <2>2. binding' \in [Slots -> SUBSET Times] /\ uncapped' \subseteq Runs
    BY <1>13, <1>r, <2>1 DEF ApplyUnfilledOrderCap, TypeOK
  <2> QED
    BY <1>13, <2>2 DEF ApplyUnfilledOrderCap, Goto, TypeOK, PcValue
<1>14. CASE Finalize(p)
  BY <1>14, <1>r DEF Finalize, Goto, TypeOK, PcValue
<1>15. CASE OpenSell(p)
  BY <1>15 DEF OpenSell, Goto, TypeOK, PcValue, Roles
<1>16. CASE LookAtSell(p)
  BY <1>16 DEF LookAtSell, Goto, TypeOK, PcValue, Roles
<1>17. CASE Recover(p)
  BY <1>17, <1>r DEF Recover, Goto, End, TypeOK, PcValue, Final, Order, CallStatus
<1>18. CASE Exit(p)
  BY <1>18, TickAssumption DEF Exit, Gone, Goto, TypeOK, PcValue, Final, Roles, Slots
<1>19. CASE LoseConnection(p)
  BY <1>19 DEF LoseConnection, TypeOK
<1>20. CASE Crash(p)
  BY <1>20, TickAssumption DEF Crash, Gone, Goto, TypeOK, PcValue, Final, Roles, Slots
<1>21. CASE DropLock(p)
  BY <1>21 DEF DropLock, TypeOK
<1> QED
  BY <1>1, <1>2, <1>3, <1>4, <1>5, <1>6, <1>7, <1>8, <1>9, <1>10, <1>11, <1>12, <1>13, <1>14,
     <1>15, <1>16, <1>17, <1>18, <1>19, <1>20, <1>21 DEF ProcStep, Session

----------------------------------------------------------------------------
(* The invariant, one action at a time                                     *)

\* An action of p leaves the other processes alone.
Others(p) ==
  \A q \in Procs \ {p} :
    /\ pc'[q] = pc[q] /\ conn'[q] = conn[q] /\ slot'[q] = slot[q] /\ role'[q] = role[q]
    /\ flight'[q] = flight[q] /\ ending'[q] = ending[q]

HoldsAfter(p) == Holds(p)'

\* What an action of p shows.  Only the process with the connection writes a call or a status.
Kept(p) ==
  /\ TypeOK' /\ Others(p) /\ Locked'
  /\ \A r \in Runs : RunInv(r)'
  /\ SellAfterClose'
  /\ \A q \in Procs : SessionInv(q)'
  /\ pc'[p] = "session" => \/ pc[p] = "session" /\ Run(p)' = Run(p)
                           \/ sessions[Run(p)'] = 0
  /\ conn'[p] => HoldsAfter(p)
  /\ \/ conn[p]
     \/ conn'[p] /\ lock = {}
     \/ UNCHANGED status /\ \A r \in Runs : order'[r].call = order[r].call /\ sessions'[r] = sessions[r]

\* The lock makes the connected process the only one.
LEMMA Alone ==
  ASSUME IInv, NEW p \in Procs, conn[p], NEW q \in Procs \ {p}
  PROVE  ~conn[q]
BY DEF IInv, Locked, TypeOK

LEMMA KeptIInv ==
  ASSUME IInv, NEW p \in Procs, Kept(p)
  PROVE  IInv'
<1>1. ASSUME NEW q \in Procs, conn'[q] PROVE Holds(q)'
  <2>1. CASE q = p
    BY <1>1, <2>1 DEF Kept, HoldsAfter
  <2>2. CASE q # p
    <3>1. conn[q] /\ Holds(q)
      BY <1>1, <2>2 DEF Kept, Others, IInv
    <3>2. ~conn[p] /\ lock # {}
      BY <2>2, <3>1, Alone DEF IInv, Locked
    <3>3. UNCHANGED status /\ \A r \in Runs : order'[r].call = order[r].call /\ sessions'[r] = sessions[r]
      BY <3>2 DEF Kept
    <3>4. Run(q) \in Runs /\ Run(q)' = Run(q)
      BY <2>2, RunType DEF Kept, Others, IInv, Run
    <3> QED
      BY <2>2, <3>1, <3>3, <3>4 DEF Holds, Kept, Others
  <2> QED
    BY <2>1, <2>2
<1>2. Apart'
  <2>1. ASSUME NEW q \in Procs \ {p}, pc'[p] = "session", pc'[q] = "session"
        PROVE  Run(p)' # Run(q)'
    <3>1. pc[q] = "session" /\ Run(q)' = Run(q) /\ sessions[Run(q)] = 1
      BY <2>1 DEF Kept, Others, IInv, SessionInv, Run
    <3> QED
      BY <2>1, <3>1 DEF Kept, IInv, Apart
  <2>2. ASSUME NEW q \in Procs \ {p}, NEW s \in Procs \ {p}, q # s,
               pc'[q] = "session", pc'[s] = "session"
        PROVE  Run(q)' # Run(s)'
    BY <2>2 DEF Kept, Others, IInv, Apart, Run
  <2> QED
    BY <2>1, <2>2 DEF Apart
<1> QED
  BY <1>1, <1>2 DEF Kept, IInv

\* An action that writes no run, call or session.
Quiet == UNCHANGED <<status, order, sessions>>

\* p is in no session, or where it was.
Passive(p) ==
  \/ flight'[p] = "none" /\ pc'[p] # "session"
  \/ UNCHANGED <<flight, slot, role>> /\ pc'[p] = pc[p]

LEMMA KeptQuiet ==
  ASSUME IInv, NEW p \in Procs, TypeOK', Others(p), Quiet, Locked',
         Passive(p), conn'[p] => HoldsAfter(p)
  PROVE  Kept(p)
<1>1. ASSUME NEW q \in Procs PROVE SessionInv(q)'
  <2>1. SessionInv(q) /\ Run(q) = <<slot[q], role[q]>> /\ Run(q)' = <<slot[q], role[q]>>'
    BY DEF IInv, Run
  <2> QED
    BY <2>1 DEF Others, Passive, Quiet, SessionInv
<1>2. \A r \in Runs : RunInv(r)'
  BY DEF IInv, RunInv, Quiet
<1>3. SellAfterClose'
  BY DEF IInv, SellAfterClose, Quiet
<1> QED
  BY <1>1, <1>2, <1>3 DEF Kept, Passive, Quiet, Run

LEMMA StepOutside ==
  ASSUME IInv, NEW p \in Procs, TypeOK', Fire(p) \/ SkipTick(p) \/ Exit(p) \/ LoseConnection(p)
                                         \/ Crash(p) \/ DropLock(p)
  PROVE  Kept(p)
<1>t. TypeOK /\ SessionInv(p)
  BY DEF IInv
<1>1. Others(p)
  BY <1>t DEF Others, TypeOK, Fire, SkipTick, Exit, LoseConnection, Crash, DropLock, Gone, Goto,
        procVars, ledgerVars
<1>2. Quiet
  BY DEF Quiet, Fire, SkipTick, Exit, LoseConnection, Crash, DropLock, procVars, ledgerVars
<1>3. Locked'
  BY <1>t DEF IInv, Locked, TypeOK, Fire, SkipTick, Exit, LoseConnection, Crash, DropLock, Gone,
        procVars, ledgerVars
<1>4. Passive(p)
  BY <1>t DEF Passive, SessionInv, TypeOK, Fire, SkipTick, Exit, LoseConnection, Crash, DropLock, Gone, Goto,
        procVars, ledgerVars
<1>5. conn'[p] => pc'[p] \in {"tick", "done"}
  BY <1>t DEF TypeOK, Fire, SkipTick, Exit, LoseConnection, Crash, DropLock, Gone, Goto,
        procVars, ledgerVars
<1> QED
  BY <1>1, <1>2, <1>3, <1>4, <1>5, KeptQuiet DEF Holds, HoldsAfter, AtWork

LEMMA StepMoves ==
  ASSUME IInv, NEW p \in Procs, TypeOK',
         LookAtSell(p) \/ Gate(p) \/ ApplyAgentNextRun(p) \/ ApplyUnfilledOrderCap(p)
  PROVE  Kept(p)
<1>c. conn[p]
  BY DEF At, LookAtSell, Gate, ApplyAgentNextRun, ApplyUnfilledOrderCap
<1>t. TypeOK /\ SessionInv(p) /\ conn[p] /\ Holds(p)
  BY <1>c DEF IInv
<1>1. Others(p)
  BY <1>t DEF Others, TypeOK, LookAtSell, Gate, ApplyAgentNextRun, ApplyUnfilledOrderCap, Goto, End,
        ledgerVars
<1>2. Quiet
  BY DEF Quiet, LookAtSell, Gate, ApplyAgentNextRun, ApplyUnfilledOrderCap, ledgerVars
<1>3. Locked'
  BY DEF IInv, Locked, LookAtSell, Gate, ApplyAgentNextRun, ApplyUnfilledOrderCap
<1>4. /\ flight'[p] = "none"
      /\ pc'[p] \in {"recover", "exit", "plan", "final", "cap"}
      /\ slot'[p] = slot[p]
  BY <1>t DEF SessionInv, TypeOK, At, LookAtSell, Gate, ApplyAgentNextRun, ApplyUnfilledOrderCap,
        Goto, End
<1>5. CASE LookAtSell(p)
  <2>1. Run(p)' = <<slot[p], "sell">> /\ pc'[p] \in {"recover", "exit"}
    BY <1>4, <1>5, <1>t DEF LookAtSell, TypeOK, Goto, Run
  <2>2. pc'[p] = "recover" => status[<<slot[p], "sell">>] = "open"
    BY <1>t, <1>5 DEF LookAtSell, Goto, TypeOK
  <2>3. HoldsAfter(p)
    BY <1>2, <2>1, <2>2 DEF Holds, HoldsAfter, AtWork, Quiet
  <2> QED
    BY <1>1, <1>2, <1>3, <1>4, <2>3, KeptQuiet DEF Passive
<1>6. CASE Gate(p)
  <2>1. /\ pc[p] = "gate" /\ UNCHANGED role /\ Run(p)' = Run(p)
        /\ pc'[p] = "plan" \/ (pc'[p] = "final" /\ ending'[p] = "gated")
    BY <1>t, <1>6 DEF Gate, At, Goto, End, TypeOK, Run
  <2>2. HoldsAfter(p)
    BY <1>t, <1>2, <1>4, <2>1 DEF Holds, HoldsAfter, AtWork, Quiet
  <2> QED
    BY <1>1, <1>2, <1>3, <1>4, <2>2, KeptQuiet DEF Passive
<1>7. CASE ApplyAgentNextRun(p) \/ ApplyUnfilledOrderCap(p)
  <2>1. /\ pc[p] \in {"schedule", "cap"} /\ UNCHANGED role /\ Run(p)' = Run(p)
        /\ pc'[p] \in {"cap", "final"}
        /\ ending'[p] = ending[p] \/ (pc'[p] = "final" /\ ending'[p] = "error")
    BY <1>t, <1>7 DEF ApplyAgentNextRun, ApplyUnfilledOrderCap, At, Goto, End, TypeOK, Run
  <2>2. HoldsAfter(p)
    BY <1>t, <1>2, <1>4, <2>1 DEF Holds, HoldsAfter, AtWork, Quiet
  <2> QED
    BY <1>1, <1>2, <1>3, <1>4, <2>2, KeptQuiet DEF Passive
<1> QED
  BY <1>5, <1>6, <1>7

\* An action that writes a status: of a run that is open, or that did not exist.
LEMMA KeptStatus ==
  ASSUME IInv, NEW p \in Procs, TypeOK', Others(p), conn[p], UNCHANGED <<lock, conn, order, sessions>>,
         flight'[p] = "none", pc'[p] # "session", HoldsAfter(p), SellAfterClose',
         NEW r \in Runs, NEW st \in Final \cup {"open"}, status' = [status EXCEPT ![r] = st],
         st \in {"ended", "invalid", "recovered"} => order[r].call # "requested"
  PROVE  Kept(p)
<1>1. ASSUME NEW q \in Procs PROVE SessionInv(q)'
  <2>1. SessionInv(q) /\ Run(q) = <<slot[q], role[q]>> /\ Run(q)' = <<slot[q], role[q]>>'
    BY DEF IInv, Run
  <2> QED
    BY <2>1 DEF Others, SessionInv
<1>2. \A s \in Runs : RunInv(s)'
  BY DEF IInv, RunInv, TypeOK, Final
<1>3. Locked'
  BY DEF IInv, Locked
<1> QED
  BY <1>1, <1>2, <1>3 DEF Kept

LEMMA StepOpen ==
  ASSUME IInv, NEW p \in Procs, TypeOK', OpenSlot(p) \/ OpenSell(p)
  PROVE  Kept(p)
<1>c. conn[p]
  BY DEF At, OpenSlot, OpenSell
<1>t. TypeOK /\ SessionInv(p) /\ Holds(p) /\ SellAfterClose /\ slot[p] \in Slots
  BY <1>c DEF IInv, TypeOK
<1> DEFINE C == <<slot[p], "close">>
           S == <<slot[p], "sell">>
<1>r. C \in Runs /\ S \in Runs /\ C # S /\ RunInv(C) /\ RunInv(S)
  BY <1>t, RunType DEF IInv
<1>1. /\ Others(p) /\ UNCHANGED <<lock, conn, order, sessions, slot>>
      /\ flight'[p] = "none"
      /\ pc'[p] \in {"gate", "recover", "other"}
  BY <1>t DEF Others, SessionInv, TypeOK, At, OpenSlot, OpenSell, Goto
<1>2. CASE OpenSlot(p)
  <2>1. Run(p)' = C /\ role'[p] = "close"
    BY <1>1, <1>2, <1>t DEF OpenSlot, Run, TypeOK
  <2>2. CASE status' = [status EXCEPT ![C] = "open"] /\ status[C] = "absent" /\ Goto(p, "gate")
    <3>1. /\ status'[C] = "open" /\ status'[S] = "absent" /\ sessions'[C] = 0
          /\ pc'[p] = "gate"
      BY <1>1, <1>t, <1>r, <2>2 DEF SellAfterClose, TypeOK, RunInv, Goto
    <3>2. HoldsAfter(p)
      BY <1>1, <2>1, <3>1 DEF Holds, HoldsAfter, AtWork
    <3>3. SellAfterClose'
      BY <1>t, <2>2 DEF SellAfterClose, TypeOK, Runs, Roles
    <3> QED
      BY <1>1, <1>c, <1>r, <2>2, <3>1, <3>2, <3>3, KeptStatus
  <2>3. CASE UNCHANGED status /\ \/ status[C] = "open" /\ Goto(p, "recover")
                                 \/ Goto(p, "other")
    <3>1. HoldsAfter(p)
      BY <1>1, <1>t, <2>1, <2>3 DEF Holds, HoldsAfter, AtWork, Goto, TypeOK
    <3>2. Locked'
      BY <1>1 DEF IInv, Locked
    <3> QED
      BY <1>1, <2>3, <3>1, <3>2, KeptQuiet DEF Passive, Quiet
  <2> QED
    BY <1>2, <2>2, <2>3 DEF OpenSlot
<1>3. CASE OpenSell(p)
  <2>1. /\ Run(p)' = S /\ role'[p] = "sell" /\ pc'[p] = "gate"
        /\ status[S] = "absent" /\ status[C] # "absent"
        /\ status' = [status EXCEPT ![S] = "open"]
    BY <1>1, <1>3, <1>t DEF OpenSell, Run, TypeOK, Goto, At, Holds
  <2>2. status'[S] = "open" /\ sessions'[S] = 0
    BY <1>1, <1>t, <1>r, <2>1 DEF TypeOK, RunInv
  <2>3. HoldsAfter(p)
    BY <1>1, <2>1, <2>2 DEF Holds, HoldsAfter, AtWork
  <2>4. SellAfterClose'
    <3>1. \A r \in Runs \ {S} : status'[r] = status[r]
      BY <1>t, <1>r, <2>1 DEF TypeOK
    <3>2. \A s \in Slots : <<s, "close">> \in Runs \ {S} /\ <<s, "sell">> \in Runs
      BY DEF Runs, Roles
    <3>3. \A s \in Slots : <<s, "sell">> = S => <<s, "close">> = C
      OBVIOUS
    <3> QED
      BY <1>t, <2>1, <3>1, <3>2, <3>3 DEF IInv, SellAfterClose
  <2> QED
    BY <1>1, <1>c, <1>r, <2>1, <2>2, <2>3, <2>4, KeptStatus
<1> QED
  BY <1>2, <1>3

LEMMA StepFinalize ==
  ASSUME IInv, NEW p \in Procs, TypeOK', Finalize(p)
  PROVE  Kept(p)
<1>c. conn[p] /\ pc[p] = "final"
  BY DEF At, Finalize
<1>t. TypeOK /\ SessionInv(p) /\ Holds(p) /\ SellAfterClose /\ slot[p] \in Slots /\ role[p] \in Roles
  BY <1>c DEF IInv, TypeOK
<1> DEFINE C == <<slot[p], "close">>
           S == <<slot[p], "sell">>
<1>1. /\ Others(p) /\ UNCHANGED <<lock, conn, order, sessions, slot, role, ending>>
      /\ flight'[p] = "none"
      /\ status' = [status EXCEPT ![Run(p)] = ending[p]]
      /\ pc'[p] \in {"exit", "other", "sell"}
  BY <1>c, <1>t DEF Others, SessionInv, TypeOK, Finalize, Goto
<1>2. /\ Run(p) \in Runs /\ Run(p)' = Run(p) /\ C \in Runs /\ S \in Runs /\ C # S
      /\ status[Run(p)] = "open" /\ ending[p] \in Final
      /\ ending[p] \in {"ended", "invalid", "recovered"} => order[Run(p)].call # "requested"
  BY <1>c, <1>t, <1>1, RunType DEF Holds, AtWork, TypeOK, Run
<1>3. pc'[p] = "sell" => status'[C] # "absent" /\ status'[S] = "absent"
  <2>1. SUFFICES ASSUME pc'[p] = "sell" PROVE status'[C] # "absent" /\ status'[S] = "absent"
    OBVIOUS
  <2>2. role[p] = "close" /\ ending[p] # "recovered"
    BY <1>t, <2>1 DEF Finalize, Goto, TypeOK, Roles
  <2>3. Run(p) = C /\ status[S] = "absent"
    BY <1>c, <1>t, <2>2 DEF Run, Holds, AtWork
  <2> QED
    BY <1>1, <1>2, <1>t, <2>3 DEF TypeOK, Final
<1>4. HoldsAfter(p)
  BY <1>1, <1>3 DEF Holds, HoldsAfter, AtWork
<1>5. SellAfterClose'
  BY <1>1, <1>2, <1>t DEF SellAfterClose, TypeOK, Final, Runs, Roles
<1>6. pc'[p] # "session"
  BY <1>1
<1> HIDE DEF C, S
<1> QED
  BY <1>1, <1>2, <1>4, <1>5, <1>6, <1>c, KeptStatus

----------------------------------------------------------------------------
(* The invariant, where a session or a recovery writes a call              *)

SameCall(r) ==
  order'[r].call = order[r].call /\ order'[r].sent = order[r].sent
    /\ order'[r].intent = order[r].intent

\* A recovery takes no call back.
OnlyResolves(r) ==
  /\ order'[r].sent = order[r].sent /\ order'[r].intent = order[r].intent
  /\ order[r].call \notin {"none", "failed"} => order'[r].call \notin {"none", "failed"}

RunAfter(r) == RunInv(r)'
SessionAfter(p) == SessionInv(p)'

\* An action that writes the order of p's run only.
LEMMA KeptOrder ==
  ASSUME IInv, NEW p \in Procs, TypeOK', Others(p),
         UNCHANGED <<status, sessions, lock, conn, slot, role>>,
         \A r \in Runs \ {Run(p)} : SameCall(r),
         RunAfter(Run(p)), SessionAfter(p), conn[p] => HoldsAfter(p),
         pc'[p] = "session" => pc[p] = "session",
         pc[p] = "session" \/ OnlyResolves(Run(p)),
         conn[p] \/ SameCall(Run(p)) \/ order'[Run(p)].call = order[Run(p)].call
  PROVE  Kept(p)
<1>t. TypeOK /\ Run(p)' = Run(p) /\ Run(p) \in Runs
  BY RunType DEF IInv, Run
<1>1. ASSUME NEW r \in Runs PROVE RunInv(r)'
  <2>1. CASE r = Run(p)
    BY <1>t, <2>1 DEF RunAfter, RunInv
  <2>2. CASE r # Run(p)
    BY <2>2 DEF SameCall, IInv, RunInv
  <2> QED
    BY <2>1, <2>2
<1>2. ASSUME NEW q \in Procs PROVE SessionInv(q)'
  <2>1. CASE q = p
    BY <2>1 DEF SessionAfter
  <2>2. CASE q # p
    <3>1. /\ SessionInv(q) /\ Run(q)' = Run(q) /\ Run(q) \in Runs
          /\ pc'[q] = pc[q] /\ flight'[q] = flight[q]
      BY <1>t, <2>2, RunType DEF IInv, Others, Run
    <3>2. CASE Run(q) # Run(p)
      BY <3>1, <3>2 DEF SameCall, SessionInv
    <3>3. CASE Run(q) = Run(p) /\ pc[p] = "session"
      <4>1. pc[q] # "session"
        BY <2>2, <3>3 DEF IInv, Apart
      <4> QED
        BY <3>1, <4>1 DEF SessionInv
    <3>4. CASE Run(q) = Run(p) /\ OnlyResolves(Run(p))
      BY <3>1, <3>4 DEF OnlyResolves, SessionInv
    <3> QED
      BY <3>2, <3>3, <3>4
  <2> QED
    BY <2>1, <2>2
<1>3. SellAfterClose' /\ Locked'
  BY DEF IInv, SellAfterClose, Locked
<1>4. conn[p] \/ \A r \in Runs : order'[r].call = order[r].call
  BY DEF SameCall
<1> QED
  BY <1>t, <1>1, <1>2, <1>3, <1>4 DEF Kept

LEMMA StepRequestOrder ==
  ASSUME IInv, NEW p \in Procs, TypeOK', RequestOrder(p)
  PROVE  Kept(p)
<1>1. /\ conn[p] /\ pc[p] = "session" /\ flight[p] = "none" /\ order[Run(p)].call = "none"
      /\ UNCHANGED <<status, sessions, lock, conn, slot, role, pc, ending>>
  BY DEF At, RequestOrder
<1>2. /\ TypeOK /\ Run(p) \in Runs /\ Run(p)' = Run(p)
      /\ RunInv(Run(p)) /\ SessionInv(p) /\ Holds(p)
  BY <1>1, RunType DEF IInv, Run
<1>3. /\ \A r \in Runs \ {Run(p)} : SameCall(r)
      /\ order'[Run(p)].sent = order[Run(p)].sent /\ order'[Run(p)].intent = order[Run(p)].intent
      /\ order'[Run(p)].call \in {"recorded", "requested"}
      /\ flight'[p] = "requested" \/ flight'[p] = "none"
      /\ \A q \in Procs \ {p} : flight'[q] = flight[q]
  BY <1>2, CallSet DEF RequestOrder, SameCall, CallStatus, TypeOK
<1>4. Others(p)
  BY <1>1, <1>3 DEF Others
<1>5. status[Run(p)] = "open"
  BY <1>1, <1>2 DEF Holds, AtWork
<1>6. RunAfter(Run(p))
  BY <1>1, <1>2, <1>3, <1>5 DEF RunAfter, RunInv, SessionInv
<1>7. SessionAfter(p)
  BY <1>1, <1>2, <1>3 DEF SessionAfter, SessionInv, RunInv
<1>8. HoldsAfter(p)
  BY <1>1, <1>2 DEF Holds, HoldsAfter, AtWork
<1> QED
  BY <1>1, <1>3, <1>4, <1>6, <1>7, <1>8, KeptOrder

LEMMA StepRecordIntent ==
  ASSUME IInv, NEW p \in Procs, TypeOK', RecordIntent(p)
  PROVE  Kept(p)
<1>1. /\ conn[p] /\ pc[p] = "session" /\ flight[p] = "requested"
      /\ UNCHANGED <<status, sessions, lock, conn, slot, role, pc, ending>>
  BY DEF At, RecordIntent
<1>2. /\ TypeOK /\ Run(p) \in Runs /\ Run(p)' = Run(p)
      /\ RunInv(Run(p)) /\ SessionInv(p) /\ Holds(p)
  BY <1>1, RunType DEF IInv, Run
<1>3. /\ status[Run(p)] = "open"
      /\ ~order[Run(p)].sent /\ order[Run(p)].call \notin {"none", "failed"} /\ sessions[Run(p)] = 1
  BY <1>1, <1>2 DEF Holds, AtWork, SessionInv
<1>4. HoldsAfter(p)
  BY <1>1, <1>2 DEF Holds, HoldsAfter, AtWork
<1>5. CASE ResolveAs(p, "failed") /\ flight' = [flight EXCEPT ![p] = "none"]
  <2>1. /\ \A r \in Runs \ {Run(p)} : SameCall(r)
        /\ ~order'[Run(p)].sent
        /\ order'[Run(p)].call = IF order[Run(p)].call = "requested" THEN "failed"
                                 ELSE order[Run(p)].call
    BY <1>2, <1>3, <1>5, ResolveType DEF SameCall, CallStatus
  <2>2. Others(p) /\ flight'[p] = "none"
    BY <1>1, <1>2, <1>5 DEF Others, TypeOK
  <2>3. RunAfter(Run(p)) /\ SessionAfter(p)
    BY <1>1, <1>2, <1>3, <2>1, <2>2 DEF RunAfter, RunInv, SessionAfter, SessionInv
  <2> QED
    BY <1>1, <1>4, <2>1, <2>2, <2>3, KeptOrder
<1>6. CASE /\ order' = [order EXCEPT ![Run(p)].intent = TRUE]
           /\ flight' = [flight EXCEPT ![p] = "intent"]
  <2>1. /\ \A r \in Runs \ {Run(p)} : SameCall(r)
        /\ order'[Run(p)].sent = order[Run(p)].sent /\ order'[Run(p)].intent
        /\ order'[Run(p)].call = order[Run(p)].call
    BY <1>2, <1>6 DEF SameCall, TypeOK, Order
  <2>2. Others(p) /\ flight'[p] = "intent"
    BY <1>1, <1>2, <1>6 DEF Others, TypeOK
  <2>3. RunAfter(Run(p)) /\ SessionAfter(p)
    BY <1>1, <1>2, <1>3, <2>1, <2>2 DEF RunAfter, RunInv, SessionAfter, SessionInv
  <2> QED
    BY <1>1, <1>4, <2>1, <2>2, <2>3, KeptOrder
<1> QED
  BY <1>5, <1>6 DEF RecordIntent

LEMMA StepSendOrder ==
  ASSUME IInv, NEW p \in Procs, TypeOK', SendOrder(p)
  PROVE  Kept(p)
<1>1. /\ pc[p] = "session" /\ flight[p] = "intent"
      /\ UNCHANGED <<status, sessions, lock, conn, slot, role, pc, ending>>
  BY DEF SendOrder
<1>2. /\ TypeOK /\ Run(p) \in Runs /\ Run(p)' = Run(p) /\ RunInv(Run(p)) /\ SessionInv(p)
  BY <1>1, RunType DEF IInv, Run
<1>3. /\ order[Run(p)].intent /\ order[Run(p)].call \notin {"none", "failed"}
      /\ sessions[Run(p)] = 1
  BY <1>1, <1>2 DEF SessionInv
<1>4. /\ \A r \in Runs \ {Run(p)} : SameCall(r)
      /\ order'[Run(p)].sent /\ order'[Run(p)].intent = order[Run(p)].intent
      /\ order'[Run(p)].call = order[Run(p)].call
  BY <1>2 DEF SendOrder, SameCall, TypeOK, Order
<1>5. Others(p) /\ flight'[p] = "sent"
  BY <1>1, <1>2 DEF SendOrder, Others, TypeOK
<1>6. RunAfter(Run(p)) /\ SessionAfter(p)
  BY <1>1, <1>2, <1>3, <1>4, <1>5 DEF RunAfter, RunInv, SessionAfter, SessionInv
<1>7. conn[p] => HoldsAfter(p)
  BY <1>1, <1>2, <1>4 DEF IInv, Holds, HoldsAfter, AtWork
<1> QED
  BY <1>1, <1>4, <1>5, <1>6, <1>7, KeptOrder

\* An action of the connected session after which no call of it is in flight.
LEMMA KeptResolved ==
  ASSUME IInv, NEW p \in Procs, TypeOK', conn[p], pc[p] = "session",
         UNCHANGED <<status, sessions, lock, conn, slot, role>>, Others(p), flight'[p] = "none",
         UNCHANGED order \/ ResolveAs(p, "succeeded") \/ ResolveAs(p, "unknown"),
         pc'[p] \in {"session", "schedule"} \/ (pc'[p] = "final" /\ ending'[p] = "error"),
         pc'[p] = "schedule" => ResolveAs(p, "unknown") /\ ending'[p] # "recovered"
  PROVE  Kept(p)
<1>1. /\ TypeOK /\ Run(p) \in Runs /\ Run(p)' = Run(p)
      /\ RunInv(Run(p)) /\ SessionInv(p) /\ Holds(p)
  BY RunType DEF IInv, Run
<1>2. /\ \A r \in Runs \ {Run(p)} : SameCall(r)
      /\ order'[Run(p)].sent = order[Run(p)].sent /\ order'[Run(p)].intent = order[Run(p)].intent
      /\ order'[Run(p)].call \in {order[Run(p)].call, "succeeded", "unknown"}
      /\ order'[Run(p)].call \notin {"succeeded", "unknown"} =>
           order'[Run(p)].call = order[Run(p)].call
      /\ order[Run(p)].call = "none" => order'[Run(p)].call = "none"
      /\ ResolveAs(p, "unknown") => order'[Run(p)].call # "requested"
  BY <1>1, ResolveType DEF SameCall, CallStatus
<1>3. status[Run(p)] = "open" /\ sessions[Run(p)] = 1
  BY <1>1 DEF Holds, AtWork, SessionInv
<1>4. RunAfter(Run(p)) /\ SessionAfter(p)
  BY <1>1, <1>2, <1>3 DEF RunAfter, RunInv, SessionAfter, SessionInv
<1>5. HoldsAfter(p)
  BY <1>1, <1>2 DEF Holds, HoldsAfter, AtWork
<1> QED
  BY <1>2, <1>4, <1>5, KeptOrder

LEMMA StepEndCall ==
  ASSUME IInv, NEW p \in Procs, TypeOK', RecordOutcome(p) \/ EndSession(p)
  PROVE  Kept(p)
<1>1. /\ TypeOK /\ conn[p] /\ pc[p] = "session"
      /\ UNCHANGED <<status, sessions, lock, conn, slot, role>>
  BY DEF At, IInv, RecordOutcome, EndSession
<1>2. Others(p) /\ flight'[p] = "none"
  BY <1>1 DEF RecordOutcome, EndSession, Others, TypeOK, Goto, End
<1>3. UNCHANGED order \/ ResolveAs(p, "succeeded") \/ ResolveAs(p, "unknown")
  BY DEF RecordOutcome, EndSession
<1>4. \/ pc'[p] = "session"
      \/ pc'[p] = "schedule" /\ ResolveAs(p, "unknown") /\ ending'[p] # "recovered"
      \/ pc'[p] = "final" /\ ending'[p] = "error"
  BY <1>1 DEF RecordOutcome, EndSession, Goto, End, TypeOK
<1> QED
  BY <1>1, <1>2, <1>3, <1>4, KeptResolved

LEMMA StepReadFill ==
  ASSUME IInv, NEW p \in Procs, TypeOK', ReadFill(p)
  PROVE  Kept(p)
<1>1. /\ conn[p] /\ pc[p] = "session" /\ UNCHANGED <<status, sessions, lock>>
      /\ UNCHANGED <<pc, conn, slot, role, ending, flight>>
  BY DEF At, ReadFill, procVars
<1>2. /\ TypeOK /\ Run(p) \in Runs /\ Run(p)' = Run(p)
      /\ RunInv(Run(p)) /\ SessionInv(p) /\ Holds(p)
  BY <1>1, RunType DEF IInv, Run
<1>3. \A r \in Runs : SameCall(r)
  BY <1>2 DEF ReadFill, SameCall, TypeOK, Order
<1>4. Others(p)
  BY <1>1 DEF Others
<1>5. /\ order'[Run(p)].call = order[Run(p)].call /\ order'[Run(p)].sent = order[Run(p)].sent
      /\ order'[Run(p)].intent = order[Run(p)].intent
  BY <1>2, <1>3 DEF SameCall
<1>6. RunAfter(Run(p)) /\ SessionAfter(p) /\ HoldsAfter(p)
  BY <1>1, <1>2, <1>5 DEF RunAfter, RunInv, SessionAfter, SessionInv, HoldsAfter, Holds, AtWork
<1> QED
  BY <1>1, <1>3, <1>4, <1>6, KeptOrder

LEMMA StepRecover ==
  ASSUME IInv, NEW p \in Procs, TypeOK', Recover(p)
  PROVE  Kept(p)
<1>1. /\ conn[p] /\ pc[p] = "recover"
      /\ UNCHANGED <<status, sessions, lock, conn, slot, role, flight>>
  BY DEF At, Recover
<1>2. /\ TypeOK /\ Run(p) \in Runs /\ Run(p)' = Run(p)
      /\ RunInv(Run(p)) /\ SessionInv(p) /\ Holds(p)
  BY <1>1, RunType DEF IInv, Run
<1> DEFINE c == IF order[Run(p)].call \in {"recorded", "requested"} THEN "unknown"
                ELSE order[Run(p)].call
<1>3. c \in CallStatus
  BY <1>2 DEF TypeOK, Order, CallStatus
<1>4. order' = [order EXCEPT ![Run(p)].call = c]
  BY DEF Recover
<1>5. /\ c \notin {"recorded", "requested"}
      /\ c # "unknown" => c = order[Run(p)].call
      /\ order[Run(p)].call = "none" => c = "none"
      /\ order[Run(p)].call \notin {"none", "failed"} => c \notin {"none", "failed"}
  OBVIOUS
<1> HIDE DEF c
<1>6. /\ \A r \in Runs \ {Run(p)} : SameCall(r)
      /\ order'[Run(p)].sent = order[Run(p)].sent /\ order'[Run(p)].intent = order[Run(p)].intent
      /\ order'[Run(p)].call = c
  BY <1>2, <1>3, <1>4, CallSet DEF SameCall
<1>7. Others(p) /\ pc'[p] = "final" /\ ending'[p] = "recovered"
  BY <1>1, <1>2 DEF Recover, Others, TypeOK, Goto, End
<1>8. flight[p] = "none" /\ status[Run(p)] = "open"
  BY <1>1, <1>2 DEF SessionInv, Holds
<1>9. RunAfter(Run(p))
  BY <1>2, <1>5, <1>6, <1>1 DEF RunAfter, RunInv
<1>10. SessionAfter(p)
  BY <1>1, <1>2, <1>7, <1>8 DEF SessionAfter, SessionInv
<1>11. HoldsAfter(p)
  BY <1>1, <1>2, <1>5, <1>6, <1>7, <1>8 DEF HoldsAfter, Holds, AtWork
<1>12. OnlyResolves(Run(p))
  BY <1>5, <1>6 DEF OnlyResolves
<1> QED
  BY <1>1, <1>6, <1>7, <1>9, <1>10, <1>11, <1>12, KeptOrder

LEMMA StepStartRun ==
  ASSUME IInv, NEW p \in Procs, TypeOK', StartRun(p)
  PROVE  Kept(p)
<1>1. /\ conn[p] /\ pc[p] = "plan"
      /\ UNCHANGED <<status, order, lock, conn, slot, role, flight>>
  BY DEF At, StartRun, ledgerVars
<1>2. /\ TypeOK /\ Run(p) \in Runs /\ Run(p)' = Run(p)
      /\ RunInv(Run(p)) /\ SessionInv(p) /\ Holds(p)
  BY <1>1, RunType DEF IInv, Run
<1>3. Others(p)
  BY <1>1, <1>2 DEF StartRun, Others, TypeOK, Goto, End
<1>4. status[Run(p)] = "open" /\ sessions[Run(p)] = 0 /\ flight[p] = "none"
      /\ order[Run(p)].call = "none"
  BY <1>1, <1>2 DEF SessionInv, Holds, AtWork, RunInv
<1>5. Locked'
  BY <1>1 DEF IInv, Locked
<1>6. CASE (\E st \in {"ended", "error"} : End(p, st)) /\ UNCHANGED sessions
  <2>1. pc'[p] = "final" /\ ending'[p] \in {"ended", "error"}
    BY <1>2, <1>6 DEF End, Goto, TypeOK
  <2>2. HoldsAfter(p)
    BY <1>1, <1>2, <1>4, <1>6, <2>1 DEF Holds, HoldsAfter, AtWork
  <2> QED
    BY <1>1, <1>3, <1>4, <1>5, <1>6, <2>1, <2>2, KeptQuiet DEF Passive, Quiet
<1>7. CASE Goto(p, "session") /\ sessions' = [sessions EXCEPT ![Run(p)] = @ + 1] /\ UNCHANGED ending
  <2>1. /\ pc'[p] = "session" /\ sessions'[Run(p)] = 1
        /\ \A r \in Runs \ {Run(p)} : sessions'[r] = sessions[r]
    BY <1>2, <1>4, <1>7 DEF Goto, TypeOK
  <2>2. HoldsAfter(p)
    BY <1>1, <1>2, <1>4, <1>7, <2>1 DEF Holds, HoldsAfter, AtWork
  <2>3. ASSUME NEW r \in Runs PROVE RunInv(r)'
    BY <1>1, <1>4, <2>1 DEF IInv, RunInv
  <2>4. ASSUME NEW q \in Procs PROVE SessionInv(q)'
    <3>1. CASE q = p
      BY <1>1, <1>2, <1>4, <2>1, <3>1 DEF SessionInv
    <3>2. CASE q # p
      <4>1. /\ SessionInv(q) /\ Run(q)' = Run(q) /\ Run(q) \in Runs
            /\ pc'[q] = pc[q] /\ flight'[q] = flight[q]
        BY <1>2, <1>3, <3>2, RunType DEF IInv, Others, Run
      <4>2. pc[q] = "session" => Run(q) # Run(p)
        BY <1>4, <4>1 DEF SessionInv
      <4> QED
        BY <1>1, <2>1, <4>1, <4>2 DEF SessionInv
    <3> QED
      BY <3>1, <3>2
  <2>5. SellAfterClose'
    BY <1>1 DEF IInv, SellAfterClose
  <2> QED
    BY <1>1, <1>2, <1>3, <1>4, <1>5, <2>2, <2>3, <2>4, <2>5 DEF Kept
<1> QED
  BY <1>6, <1>7 DEF StartRun

----------------------------------------------------------------------------
(* The theorems                                                            *)

LEMMA InitIInv == Init => IInv
<1> SUFFICES ASSUME Init PROVE IInv
  OBVIOUS
<1>1. TypeOK
  BY InitType
<1>2. \A p \in Procs : Run(p) \in Runs /\ slot[p] \in Slots
  BY <1>1, RunType
<1>3. \A r \in Runs : RunInv(r)
  BY DEF Init, RunInv
<1>4. SellAfterClose
  BY DEF Init, SellAfterClose, Runs, Roles
<1>5. (\A p \in Procs : SessionInv(p)) /\ Apart /\ Locked /\ \A p \in Procs : conn[p] => Holds(p)
  BY <1>2 DEF Init, SessionInv, Apart, Locked
<1> QED
  BY <1>1, <1>3, <1>4, <1>5 DEF IInv

LEMMA NextIInv == IInv /\ [Next]_vars => IInv'
<1> SUFFICES ASSUME IInv, [Next]_vars PROVE IInv'
  OBVIOUS
<1>t. TypeOK
  BY DEF IInv
<1>1. CASE Tick \/ UNCHANGED vars
  <2>1. /\ UNCHANGED <<lock, pc, conn, slot, role, killed, ending, request, flight>>
        /\ UNCHANGED <<status, gates, binding, order, sessions>>
    BY <1>1 DEF Tick, vars, procVars, ledgerVars
  <2>2. TypeOK'
    BY <1>1, <1>t, <2>1, TickAssumption DEF Tick, vars, TypeOK, Slots
  <2>3. (\A r \in Runs : RunInv(r)') /\ SellAfterClose' /\ Locked' /\ Apart'
    BY <2>1 DEF IInv, RunInv, SellAfterClose, Locked, Apart, Run
  <2>4. \A p \in Procs : SessionInv(p)' /\ (conn'[p] => HoldsAfter(p))
    BY <2>1 DEF IInv, SessionInv, HoldsAfter, Holds, Run
  <2> QED
    BY <2>2, <2>3, <2>4 DEF IInv, HoldsAfter
<1>2. ASSUME NEW p \in Procs, Fire(p) \/ SkipTick(p) \/ ProcStep(p)
                              \/ LoseConnection(p) \/ Crash(p) \/ DropLock(p)
      PROVE  IInv'
  <2>1. TypeOK'
    BY <1>2, <1>t, TypeStep
  <2>2. Kept(p)
    BY <1>2, <2>1, StepOutside, StepMoves, StepOpen, StepFinalize, StepRequestOrder,
       StepRecordIntent, StepSendOrder, StepEndCall, StepReadFill, StepRecover, StepStartRun
       DEF ProcStep, Session
  <2> QED
    BY <2>2, KeptIInv
<1> QED
  BY <1>1, <1>2 DEF Next

\* The inductive invariant: see IInv.
THEOREM Invariance == Spec => []IInv
BY InitIInv, NextIInv, PTL DEF Spec

\* TypeOK: every variable keeps its type, and the lock at most one holder, through crashes,
\* lost connections and re-fires.
THEOREM TypeCorrect == Spec => []TypeOK
<1>1. IInv => TypeOK
  BY DEF IInv
<1> QED
  BY <1>1, Invariance, PTL

\* OneSessionPerRun: a run is started from the row its process has just opened, and a row
\* that exists is only ever recovered.
THEOREM StartedOnce == Spec => []OneSessionPerRun
<1>1. IInv => OneSessionPerRun
  BY DEF IInv, OneSessionPerRun, RunInv, Holds, At
<1> QED
  BY <1>1, Invariance, PTL

\* OutcomeNeverGuessed: the process that lost its lock is the only one with a call in
\* flight for its run, and what it sends is not recorded as failed.
THEOREM OutcomesKnown == Spec => []OutcomeNeverGuessed
<1>1. IInv => OutcomeNeverGuessed
  BY DEF IInv, OutcomeNeverGuessed, RunInv
<1> QED
  BY <1>1, Invariance, PTL

-----------------------------------------------------------------------------
(* The schedule: when the next tick may start, whatever crashed, and how   *)
(* an unfilled order draws it near.                                        *)

Scheduled(s) == gates[s] # {}

\* A slot's gate passed in the slot itself.
GateAt == \A s \in Slots : gates[s] \subseteq {s} /\ (Scheduled(s) => s <= clock)

\* A process passes its close run's gate in the slot it was fired in, and a session ends by its
\* deadline.
SlotTime(p) ==
  /\ slot[p] <= clock
  /\ pc[p] = "tick" \/ (pc[p] \in {"gate", "plan"} /\ role[p] = "close") => clock = slot[p]
  /\ pc[p] = "session" => Scheduled(slot[p]) /\ clock <= slot[p] + Budget(role[p])

\* A process at work on a run of its own whose tick has passed the gate.
PastGate(p) ==
  \/ pc[p] \in {"plan", "session", "schedule", "cap", "sell"}
  \/ pc[p] = "gate" /\ role[p] = "sell"
  \/ pc[p] = "final" /\ ending[p] \notin {"gated", "recovered"}

\* An unfilled order's time is on record for a slot, or an earlier one.
Capped(s) == \A c \in Cap(s) : \E t \in binding[s] : t <= c

\* What the process that holds the lock knows of the schedule: nothing was scheduled after its own
\* slot, and the other sessions still alive are of other slots.
HoldsSchedule(p) ==
  /\ \A s \in Slots : Scheduled(s) => s <= slot[p]
  /\ PastGate(p) => Scheduled(slot[p])
  /\ PastGate(p) \/ pc[p] = "gate" =>
       \A q \in Procs \ {p} : pc[q] = "session" => slot[q] # slot[p]
  /\ pc[p] = "cap" => request[p] \subseteq binding[slot[p]]
  /\ pc[p] = "final" /\ ending[p] \in {"ended", "invalid"} /\ Unfilled(Run(p)) =>
       Run(p) \in uncapped \/ Capped(slot[p])

ApartSlots ==
  \A p, q \in Procs : p # q /\ pc[p] = "session" /\ pc[q] = "session" => slot[p] # slot[q]

\* Every scheduled slot waited for those before it.
Spaced ==
  \A s, k \in Slots : s < k /\ Scheduled(s) /\ Scheduled(k) => \E t \in NotBefore(s) : t <= k

\* Some slot is the newest that is scheduled.
Newest ==
  (\E s \in Slots : Scheduled(s)) =>
    \E s \in Slots : Scheduled(s) /\ \A k \in Slots : Scheduled(k) => k <= s

\* A scheduled slot has its fallback, and no time of an agent or a cap is beyond the maximum gap.
Bounded ==
  \A s \in Slots :
    /\ Scheduled(s) => NextOpen(s + FallbackGap) # {}
    /\ \A t \in binding[s], m \in NextOpen(s + MaxGap) : t <= m

\* The ledger: no intent without a session, no session in a slot that is not scheduled, and no
\* unfilled order of an ended run without a cap, unless the cap could not be recorded.
OrderInv(r) ==
  /\ sessions[r] = 0 => ~order[r].intent
  /\ sessions[r] # 0 => Scheduled(r[1])
  /\ status[r] \in {"ended", "invalid"} /\ Unfilled(r) => r \in uncapped \/ Capped(r[1])

SInv ==
  /\ IInv
  /\ GateAt
  /\ \A p \in Procs : SlotTime(p)
  /\ \A p \in Procs : conn[p] => HoldsSchedule(p)
  /\ ApartSlots
  /\ Spaced
  /\ Bounded
  /\ Newest
  /\ \A r \in Runs : OrderInv(r)

----------------------------------------------------------------------------
(* Lemmas about the schedule's operators                                   *)

\* A time has at most one place, which is a time of the calendar and no earlier than asked for
\* when it is within the maximum gap.
LEMMA Placed ==
  ASSUME NEW t \in Nat, NEW g \in Nat
  PROVE  /\ PlaceNextRun(t, g) \subseteq Nat
         /\ \A u, v \in PlaceNextRun(t, g) : u = v
         /\ t <= g + MaxGap => \A u \in PlaceNextRun(t, g) : t <= u
<1>1. OpenTimes \subseteq Nat /\ MaxGap \in Nat
  BY TickAssumption DEF Times
<1>2. g + MaxGap \in Nat
  BY <1>1
<1>3. ASSUME NEW x \in Nat
      PROVE  /\ NextOpen(x) \subseteq Nat
             /\ \A u, v \in NextOpen(x) : u = v
             /\ \A u \in NextOpen(x) : x <= u
  <2>1. \A u \in NextOpen(x) :
          u \in OpenTimes /\ x <= u /\ \A v \in OpenTimes : x <= v => u <= v
    BY DEF NextOpen
  <2>2. \A u, v \in NextOpen(x) : u \in Nat /\ v \in Nat /\ u <= v
    BY <1>1, <2>1
  <2> QED
    BY <2>1, <2>2
<1> QED
  BY <1>2, <1>3 DEF PlaceNextRun

\* No time is placed beyond the opening after the maximum gap.
LEMMA PlacedWithin ==
  ASSUME NEW t \in Nat, NEW g \in Nat
  PROVE  \A u \in PlaceNextRun(t, g), m \in NextOpen(g + MaxGap) : u <= m
<1>1. OpenTimes \subseteq Nat /\ MaxGap \in Nat
  BY TickAssumption DEF Times
<1> DEFINE x == IF t <= g + MaxGap THEN t ELSE g + MaxGap
<1>2. x \in Nat /\ x <= g + MaxGap
  BY <1>1
<1>3. SUFFICES ASSUME NEW u \in NextOpen(x), NEW m \in NextOpen(g + MaxGap) PROVE u <= m
  BY DEF PlaceNextRun
<1> HIDE DEF x
<1>4. m \in OpenTimes /\ g + MaxGap <= m /\ \A v \in OpenTimes : x <= v => u <= v
  BY DEF NextOpen
<1> QED
  BY <1>1, <1>2, <1>4

\* The fallback of a gate comes only after the budgets of the runs it let through.
LEMMA FallbackOutlasts ==
  ASSUME NEW s \in Slots, NEW a \in Roles, NEW t \in PlaceNextRun(s + FallbackGap, s)
  PROVE  t \in Nat /\ s + Budget(a) < t
<1>1. /\ s \in Nat /\ FallbackGap \in Nat /\ MaxGap \in Nat /\ FallbackGap <= MaxGap
      /\ Budget(a) \in Nat /\ Budget(a) < FallbackGap
  BY TickAssumption DEF Slots, Roles, Budget
<1>2. s + FallbackGap \in Nat /\ s + FallbackGap <= s + MaxGap
  BY <1>1
<1>3. t \in Nat /\ s + FallbackGap <= t
  BY <1>1, <1>2, Placed
<1> QED
  BY <1>1, <1>3

\* What an unfilled order of a slot asks for is one time.
LEMMA OneCap ==
  ASSUME GateAt, NEW s \in Slots
  PROVE  Cap(s) \subseteq Nat /\ \A c, d \in Cap(s) : c = d
<1>1. /\ s \in Nat /\ UnfilledGap \in Nat /\ s + UnfilledGap \in Nat
      /\ \A g \in gates[s] : g = s
  BY TickAssumption DEF Slots, GateAt
<1>2. Cap(s) \subseteq PlaceNextRun(s + UnfilledGap, s)
  BY <1>1 DEF Cap
<1> QED
  BY <1>1, <1>2, Placed

\* The times a slot holds are numbers, and so are the slots.
LEMMA Numbers ==
  ASSUME TypeOK
  PROVE  /\ clock \in Nat /\ Slots \subseteq Nat
         /\ \A s \in Slots : binding[s] \subseteq Nat
         /\ \A p \in Procs : slot[p] \in Slots /\ slot[p] \in Nat
BY TickAssumption DEF TypeOK, Slots, Times

----------------------------------------------------------------------------
(* The invariant, one action at a time                                     *)

\* The schedule, and what the orders are to it, stay.
Unscheduled == UNCHANGED <<clock, gates, binding, uncapped>>
SameOrders == \A r \in Runs : order'[r].intent = order[r].intent /\ order'[r].known = order[r].known

\* An action of p leaves the other processes alone.
Elsewhere(p) ==
  \A q \in Procs \ {p} :
    /\ pc'[q] = pc[q] /\ conn'[q] = conn[q] /\ slot'[q] = slot[q] /\ role'[q] = role[q]
    /\ ending'[q] = ending[q] /\ request'[q] = request[q]

LedgerAfter == GateAt' /\ Spaced' /\ Bounded' /\ Newest' /\ \A r \in Runs : OrderInv(r)'
SlotTimeAfter(p) == SlotTime(p)'
ScheduleAfter(p) == HoldsSchedule(p)'

\* Only the process with the connection writes the schedule; the schedule only grows.
Grows ==
  /\ clock' = clock /\ uncapped \subseteq uncapped'
  /\ \A s \in Slots : gates[s] \subseteq gates'[s] /\ binding[s] \subseteq binding'[s]

\* A session starts from the plan, with a connection.
FromPlan(p) ==
  pc'[p] = "session" => slot'[p] = slot[p] /\ (pc[p] = "session" \/ (conn[p] /\ pc[p] = "plan"))

\* What an action of p shows.
KeptSchedule(p) ==
  /\ Elsewhere(p) /\ LedgerAfter /\ SlotTimeAfter(p) /\ Grows /\ FromPlan(p)
  /\ conn'[p] => ScheduleAfter(p)
  /\ conn[p] \/ (conn'[p] /\ lock = {}) \/ (Unscheduled /\ SameOrders)

\* An action that keeps the schedule for its process keeps the invariant for all.
LEMMA KeptSInv ==
  ASSUME SInv, IInv', NEW p \in Procs, KeptSchedule(p)
  PROVE  SInv'
<1>1. ASSUME NEW q \in Procs \ {p} PROVE SlotTime(q)'
  <2>1. SlotTime(q) /\ slot[q] \in Slots
    BY Numbers DEF SInv, IInv
  <2> QED
    BY <2>1 DEF SlotTime, KeptSchedule, Elsewhere, Grows, Scheduled
<1>2. ASSUME NEW q \in Procs \ {p}, conn'[q] PROVE HoldsSchedule(q)'
  <2>1. /\ conn[q] /\ HoldsSchedule(q) /\ ~conn[p] /\ lock # {}
        /\ slot'[q] = slot[q] /\ role'[q] = role[q] /\ pc'[q] = pc[q] /\ ending'[q] = ending[q]
        /\ request'[q] = request[q]
    BY <1>2, Alone DEF KeptSchedule, Elsewhere, SInv, IInv, Locked
  <2>2. Unscheduled /\ SameOrders
    BY <2>1 DEF KeptSchedule
  <2>3. \A s \in Slots : Scheduled(s) <=> Scheduled(s)'
    BY <2>2 DEF Scheduled, Unscheduled
  <2>4. PastGate(q)' <=> PastGate(q)
    BY <2>1 DEF PastGate
  <2>6. Run(q) \in Runs /\ Run(q)' = Run(q) /\ slot[q] \in Slots
    BY <2>1, RunType, Numbers DEF SInv, IInv, Run
  <2>7. Unfilled(Run(q))' <=> Unfilled(Run(q))
    BY <2>2, <2>6 DEF Unfilled, SameOrders
  <2>8. ASSUME NEW z \in Procs \ {q}, pc'[z] = "session"
        PROVE  pc[z] = "session" /\ slot'[z] = slot[z]
    BY <2>1, <2>8 DEF KeptSchedule, Elsewhere, FromPlan
  <2>9. PastGate(q)' \/ pc'[q] = "gate" =>
          \A z \in Procs \ {q} : pc'[z] = "session" => slot'[z] # slot'[q]
    BY <2>1, <2>4, <2>8 DEF HoldsSchedule
  <2>10. binding'[slot[q]] = binding[slot[q]]
    BY <2>2 DEF Unscheduled
  <2>11. /\ Capped(slot[q])' <=> Capped(slot[q])
         /\ Run(q)' \in uncapped' <=> Run(q) \in uncapped
    BY <2>1, <2>2, <2>6 DEF Capped, Cap, Unscheduled
  <2>12. Scheduled(slot[q])' <=> Scheduled(slot[q])
    BY <2>1, <2>2 DEF Scheduled, Unscheduled
  <2> QED
    BY <2>1, <2>3, <2>4, <2>6, <2>7, <2>9, <2>10, <2>11, <2>12 DEF HoldsSchedule
<1>3. ApartSlots'
  <2>1. ASSUME NEW q \in Procs \ {p}, pc'[p] = "session", pc'[q] = "session"
        PROVE  slot'[p] # slot'[q]
    <3>1. pc[q] = "session" /\ slot'[q] = slot[q] /\ slot'[p] = slot[p]
      BY <2>1 DEF KeptSchedule, Elsewhere, FromPlan
    <3>2. CASE pc[p] = "session"
      BY <3>1, <3>2 DEF SInv, ApartSlots
    <3>3. CASE conn[p] /\ pc[p] = "plan"
      BY <3>1, <3>3 DEF SInv, HoldsSchedule, PastGate
    <3> QED
      BY <2>1, <3>2, <3>3 DEF KeptSchedule, FromPlan
  <2>2. ASSUME NEW q \in Procs \ {p}, NEW z \in Procs \ {p}, q # z,
               pc'[q] = "session", pc'[z] = "session"
        PROVE  slot'[q] # slot'[z]
    BY <2>2 DEF KeptSchedule, Elsewhere, SInv, ApartSlots
  <2> QED
    BY <2>1, <2>2 DEF ApartSlots
<1> QED
  BY <1>1, <1>2, <1>3 DEF SInv, KeptSchedule, LedgerAfter, SlotTimeAfter, ScheduleAfter

\* The ledger's part when nothing is scheduled: an intent or a final status is new for p's run only.
LEMMA LedgerKept ==
  ASSUME SInv, IInv', Unscheduled,
         \A r \in Runs : OrderInv(r)'
  PROVE  LedgerAfter /\ Grows
BY DEF LedgerAfter, Grows, GateAt, Spaced, Bounded, Newest, NotBefore, Scheduled, Unscheduled, SInv

\* A run whose row, order and sessions stay is as well off, unless the schedule forgets.
LEMMA OrderKept ==
  ASSUME SInv, NEW r \in Runs, gates' = gates, binding[r[1]] \subseteq binding'[r[1]],
         order'[r].intent = order[r].intent,
         order[r].known => order'[r].known,
         sessions'[r] = 0 => sessions[r] = 0, sessions'[r] # 0 => sessions[r] # 0 \/ Scheduled(r[1]),
         uncapped \subseteq uncapped',
         status'[r] \in {"ended", "invalid"} => status[r] = status'[r]
  PROVE  OrderInv(r)'
BY DEF SInv, OrderInv, Unfilled, Capped, Cap, Scheduled

\* Actions that start or end a process, or lose what it had.
LEMMA ScheduleOutside ==
  ASSUME SInv, IInv', NEW p \in Procs, Fire(p) \/ SkipTick(p) \/ Exit(p) \/ LoseConnection(p)
                                       \/ Crash(p) \/ DropLock(p)
  PROVE  KeptSchedule(p)
<1>t. TypeOK /\ SlotTime(p) /\ clock \in Nat /\ GateAt
  BY Numbers DEF SInv, IInv
<1>1. Elsewhere(p)
  BY <1>t DEF Elsewhere, TypeOK, Fire, SkipTick, Exit, LoseConnection, Crash, DropLock, Gone, Goto,
        procVars, ledgerVars
<1>2. Unscheduled /\ UNCHANGED <<order, status, sessions>>
  BY DEF Unscheduled, Fire, SkipTick, Exit, LoseConnection, Crash, DropLock, procVars, ledgerVars
<1>3. SameOrders /\ \A r \in Runs : OrderInv(r)'
  BY <1>2, OrderKept DEF SameOrders, Unscheduled
<1>4. \/ pc'[p] = "tick" /\ slot'[p] = clock
      \/ pc'[p] = "done" /\ slot'[p] = 0 /\ ~conn'[p]
      \/ pc'[p] = "done" /\ slot'[p] = slot[p] /\ conn'[p] = conn[p]
      \/ UNCHANGED <<pc, slot, role>> /\ ~conn'[p]
  BY <1>t DEF TypeOK, Fire, SkipTick, Exit, LoseConnection, Crash, DropLock, Gone, Goto,
        procVars, ledgerVars
<1>5. SlotTimeAfter(p) /\ FromPlan(p)
  BY <1>2, <1>4, <1>t DEF SlotTimeAfter, SlotTime, FromPlan, Scheduled, Unscheduled
<1>6. conn'[p] => ScheduleAfter(p)
  <2>1. SUFFICES ASSUME conn'[p] PROVE ScheduleAfter(p)
    OBVIOUS
  <2>2. \A s \in Slots : Scheduled(s)' <=> Scheduled(s)
    BY <1>2 DEF Scheduled, Unscheduled
  <2>3. CASE pc'[p] = "tick" /\ slot'[p] = clock
    BY <1>t, <2>2, <2>3 DEF ScheduleAfter, HoldsSchedule, PastGate, GateAt
  <2>4. CASE pc'[p] = "done" /\ slot'[p] = slot[p] /\ conn'[p] = conn[p]
    <3>1. HoldsSchedule(p)
      BY <2>1, <2>4 DEF SInv
    <3> QED
      BY <2>2, <2>4, <3>1 DEF ScheduleAfter, HoldsSchedule, PastGate
  <2> QED
    BY <1>4, <2>1, <2>3, <2>4
<1> QED
  BY <1>1, <1>2, <1>3, <1>5, <1>6, LedgerKept DEF KeptSchedule

\* Actions of the connected process that write no schedule and no intent: what they owe.
LEMMA KeptUnscheduled ==
  ASSUME SInv, IInv', NEW p \in Procs, conn[p], Elsewhere(p), Unscheduled,
         UNCHANGED <<slot, conn>>, \A r \in Runs : OrderInv(r)',
         SlotTimeAfter(p), FromPlan(p),
         PastGate(p)' => PastGate(p) \/ pc'[p] = "gate",
         pc'[p] = "gate" => role'[p] = "close" \/ PastGate(p),
         PastGate(p)' \/ pc'[p] = "gate" =>
           \/ PastGate(p) \/ pc[p] = "gate"
           \/ \A q \in Procs \ {p} : pc[q] = "session" => slot[q] # slot[p],
         pc'[p] = "cap" => pc[p] = "cap" /\ UNCHANGED request,
         pc'[p] = "final" /\ ending'[p] \in {"ended", "invalid"} => ~Unfilled(Run(p))'
  PROVE  KeptSchedule(p)
<1>1. HoldsSchedule(p) /\ TypeOK /\ slot[p] \in Slots
  BY Numbers DEF SInv, IInv
<1>2. \A s \in Slots : Scheduled(s)' <=> Scheduled(s)
  BY DEF Scheduled, Unscheduled
<1>3. Scheduled(slot[p])' <=> Scheduled(slot[p])
  BY DEF Scheduled, Unscheduled
<1>4. PastGate(p)' => Scheduled(slot[p])'
  <2>1. PastGate(p)' => PastGate(p)
    BY DEF PastGate
  <2> QED
    BY <1>1, <1>3, <2>1 DEF HoldsSchedule
<1>5. PastGate(p)' \/ pc'[p] = "gate" =>
        \A q \in Procs \ {p} : pc'[q] = "session" => slot'[q] # slot'[p]
  BY <1>1 DEF HoldsSchedule, Elsewhere
<1>6. pc'[p] = "cap" => request'[p] \subseteq binding'[slot'[p]]
  BY <1>1 DEF HoldsSchedule, Unscheduled
<1>7. ScheduleAfter(p)
  BY <1>1, <1>2, <1>4, <1>5, <1>6 DEF ScheduleAfter, HoldsSchedule
<1> QED
  BY <1>7, LedgerKept DEF KeptSchedule

\* A new tick finds no session of its own slot alive: its close run has no row yet.
LEMMA ScheduleOpen ==
  ASSUME SInv, IInv', NEW p \in Procs, OpenSlot(p) \/ OpenSell(p) \/ LookAtSell(p)
  PROVE  KeptSchedule(p)
<1>1. /\ conn[p] /\ pc[p] \in {"tick", "sell", "other"}
      /\ UNCHANGED <<slot, conn, order, sessions>> /\ Unscheduled
  BY DEF OpenSlot, OpenSell, LookAtSell, At, Unscheduled, ledgerVars
<1>2. TypeOK /\ SlotTime(p) /\ slot[p] \in Slots
  BY Numbers DEF SInv, IInv
<1>3. Elsewhere(p)
  BY <1>2 DEF Elsewhere, TypeOK, OpenSlot, OpenSell, LookAtSell, Goto
<1>4. \/ pc[p] = "tick" /\ role'[p] = "close" /\ pc'[p] \in {"gate", "recover", "other"}
      \/ pc[p] = "sell" /\ role'[p] = "sell" /\ pc'[p] = "gate"
      \/ pc[p] = "other" /\ pc'[p] \in {"recover", "exit"}
  BY <1>2 DEF OpenSlot, OpenSell, LookAtSell, At, Goto, TypeOK
<1>5. \A r \in Runs : status'[r] \in {"ended", "invalid"} => status[r] = status'[r]
  BY <1>2 DEF OpenSlot, OpenSell, LookAtSell, TypeOK, ledgerVars
<1>6. \A r \in Runs : OrderInv(r)'
  BY <1>1, <1>5, OrderKept DEF Unscheduled
<1>7. SlotTimeAfter(p) /\ FromPlan(p)
  BY <1>1, <1>2, <1>4 DEF SlotTimeAfter, SlotTime, FromPlan, Unscheduled
<1>8. pc'[p] = "gate" => PastGate(p) \/ \A q \in Procs \ {p} : pc[q] = "session" => slot[q] # slot[p]
  <2>1. SUFFICES ASSUME pc'[p] = "gate", pc[p] = "tick", NEW q \in Procs \ {p}, pc[q] = "session",
                        slot[q] = slot[p]
                 PROVE  FALSE
    BY <1>4 DEF PastGate
  <2>2. status[<<slot[p], "close">>] = "absent"
    BY <1>2, <2>1 DEF OpenSlot, OpenSell, LookAtSell, At, Goto, TypeOK
  <2>3. status[<<slot[p], "sell">>] = "absent"
    BY <1>2, <2>2 DEF SInv, IInv, SellAfterClose
  <2>4. sessions[<<slot[p], "close">>] = 0 /\ sessions[<<slot[p], "sell">>] = 0
    BY <1>2, <2>2, <2>3, RunType DEF SInv, IInv, RunInv
  <2>5. Run(q) \in {<<slot[p], "close">>, <<slot[p], "sell">>}
    BY <1>2, <2>1 DEF Run, TypeOK, Roles
  <2>6. sessions[Run(q)] = 1
    BY <2>1 DEF SInv, IInv, SessionInv
  <2> QED
    BY <2>4, <2>5, <2>6
<1>9. PastGate(p)' => pc'[p] = "gate" /\ PastGate(p)
  BY <1>4 DEF PastGate
<1> QED
  BY <1>1, <1>3, <1>4, <1>6, <1>7, <1>8, <1>9, KeptUnscheduled DEF PastGate

\* A session starts inside its budget, in a slot that is scheduled.
LEMMA ScheduleStartRun ==
  ASSUME SInv, IInv', NEW p \in Procs, StartRun(p)
  PROVE  KeptSchedule(p)
<1>1. /\ conn[p] /\ pc[p] = "plan" /\ Unscheduled
      /\ UNCHANGED <<slot, conn, role, order, status, request>>
  BY DEF StartRun, At, Unscheduled, ledgerVars
<1>2. /\ TypeOK /\ SlotTime(p) /\ slot[p] \in Slots /\ HoldsSchedule(p) /\ Holds(p)
      /\ Run(p) \in Runs /\ Run(p)' = Run(p)
  BY <1>1, RunType, Numbers DEF SInv, IInv, Run
<1>3. Elsewhere(p)
  BY <1>1, <1>2 DEF Elsewhere, TypeOK, StartRun, Goto, End
<1>4. \/ pc'[p] = "final" /\ ending'[p] \in {"ended", "error"} /\ UNCHANGED sessions
      \/ /\ pc'[p] = "session" /\ ~OutOfBudget(p)
         /\ sessions' = [sessions EXCEPT ![Run(p)] = @ + 1]
  BY <1>2 DEF StartRun, Goto, End, TypeOK
<1>5. \A r \in Runs : /\ sessions'[r] = 0 => sessions[r] = 0
                      /\ sessions'[r] # 0 => sessions[r] # 0 \/ Scheduled(r[1])
  <2>1. PastGate(p) /\ Run(p)[1] = slot[p]
    BY <1>1 DEF PastGate, Run
  <2> QED
    BY <1>2, <1>4, <2>1 DEF TypeOK, HoldsSchedule
<1>6. \A r \in Runs : OrderInv(r)'
  BY <1>1, <1>5, OrderKept DEF Unscheduled
<1>7. PastGate(p) /\ Scheduled(slot[p])
  BY <1>1, <1>2 DEF HoldsSchedule, PastGate
<1>8. SlotTimeAfter(p)
  <2>1. Budget(role[p]) \in Nat /\ clock \in Nat /\ slot[p] \in Nat
    BY <1>2, TickAssumption, Numbers DEF Budget
  <2> QED
    BY <1>1, <1>2, <1>4, <1>7, <2>1
       DEF SlotTimeAfter, SlotTime, OutOfBudget, Scheduled, Unscheduled
<1>9. ~Unfilled(Run(p))'
  <2>1. ~order[Run(p)].intent
    BY <1>1, <1>2 DEF Holds, SInv, OrderInv
  <2> QED
    BY <1>1, <1>2, <2>1 DEF Unfilled
<1> QED
  BY <1>1, <1>3, <1>4, <1>6, <1>7, <1>8, <1>9, KeptUnscheduled DEF FromPlan

\* In a session only its own order changes, whose run is open and has its session.
LEMMA ScheduleSession ==
  ASSUME SInv, IInv', NEW p \in Procs, Session(p)
  PROVE  KeptSchedule(p)
<1>1. /\ pc[p] = "session" /\ Unscheduled
      /\ UNCHANGED <<slot, conn, lock, role, status, sessions>>
  BY DEF Session, RequestOrder, RecordIntent, SendOrder, RecordOutcome, ReadFill, EndSession, At,
        Unscheduled, ledgerVars, procVars
<1>2. /\ TypeOK /\ SlotTime(p) /\ slot[p] \in Slots /\ Run(p) \in Runs /\ Run(p)' = Run(p)
      /\ SessionInv(p)
  BY <1>1, RunType, Numbers DEF SInv, IInv, Run
<1>3. Elsewhere(p)
  BY <1>1, <1>2 DEF Elsewhere, TypeOK, Session, RequestOrder, RecordIntent, SendOrder, RecordOutcome,
        ReadFill, EndSession, Goto, End, procVars
<1>4. /\ conn[p] \/ SendOrder(p)
      /\ pc'[p] \in {"session", "schedule"} \/ (pc'[p] = "final" /\ ending'[p] = "error")
  BY <1>1, <1>2 DEF TypeOK, Session, RequestOrder, RecordIntent, SendOrder, RecordOutcome,
        ReadFill, EndSession, Goto, End, procVars, At
<1>5. \A r \in Runs : /\ order[r].known => order'[r].known
                      /\ r # Run(p) => order'[r].intent = order[r].intent
                      /\ ~RecordIntent(p) => order'[r].intent = order[r].intent
                      /\ SendOrder(p) => order'[r].known = order[r].known
  <2>1. CASE \E st \in CallStatus : ResolveAs(p, st)
    <3>1. PICK st \in CallStatus : ResolveAs(p, st)
      BY <2>1
    <3>2. \A r \in Runs : order'[r].intent = order[r].intent /\ order'[r].known = order[r].known
      BY <1>2, <3>1 DEF ResolveAs, TypeOK, Order
    <3> QED
      BY <3>2
  <2>2. CASE UNCHANGED order
    BY <2>2
  <2>3. CASE RequestOrder(p)
    BY <1>2, <2>3 DEF RequestOrder, TypeOK, Order
  <2>4. CASE order' = [order EXCEPT ![Run(p)].intent = TRUE] /\ RecordIntent(p)
    BY <1>2, <2>4 DEF TypeOK, Order, RecordIntent, SendOrder
  <2>5. CASE SendOrder(p)
    BY <1>2, <2>5 DEF SendOrder, TypeOK, Order
  <2>6. CASE ReadFill(p)
    BY <1>1, <1>2, <2>6 DEF ReadFill, TypeOK, Order, SendOrder, procVars
  <2> QED
    BY <2>1, <2>2, <2>3, <2>4, <2>5, <2>6
       DEF Session, RecordIntent, RecordOutcome, EndSession, CallStatus
<1>6. RecordIntent(p) => status[Run(p)] = "open" /\ sessions[Run(p)] = 1
  BY <1>1, <1>2 DEF RecordIntent, At, SInv, IInv, Holds, AtWork, SessionInv
<1>7. \A r \in Runs : OrderInv(r)'
  <2>1. ASSUME NEW r \in Runs PROVE OrderInv(r)'
    <3>1. CASE order'[r].intent = order[r].intent
      BY <1>1, <1>5, <3>1, OrderKept DEF Unscheduled
    <3>2. CASE order'[r].intent # order[r].intent
      BY <1>1, <1>5, <1>6, <3>2 DEF SInv, OrderInv, Scheduled, Unscheduled
    <3> QED
      BY <3>1, <3>2
  <2> QED
    BY <2>1
<1>8. SlotTimeAfter(p) /\ FromPlan(p)
  BY <1>1, <1>2, <1>4 DEF SlotTimeAfter, SlotTime, FromPlan, Unscheduled, Scheduled, Budget
<1>9. CASE conn[p]
  <2>1. PastGate(p) /\ pc'[p] \notin {"gate", "cap"}
    BY <1>1, <1>4 DEF PastGate
  <2> QED
    BY <1>1, <1>3, <1>4, <1>7, <1>8, <1>9, <2>1, KeptUnscheduled
<1>10. CASE ~conn[p]
  <2>1. SameOrders
    BY <1>4, <1>5, <1>10 DEF SameOrders, SendOrder, RecordIntent, At
  <2> QED
    BY <1>1, <1>3, <1>7, <1>8, <1>10, <2>1, LedgerKept DEF KeptSchedule
<1> QED
  BY <1>9, <1>10

\* Recovery resolves a call and leaves intents, fills and the schedule alone.
LEMMA ScheduleRecover ==
  ASSUME SInv, IInv', NEW p \in Procs, Recover(p)
  PROVE  KeptSchedule(p)
<1>1. /\ conn[p] /\ pc[p] = "recover" /\ Unscheduled
      /\ UNCHANGED <<slot, conn, role, status, sessions>>
  BY DEF Recover, At, Unscheduled
<1>2. TypeOK /\ SlotTime(p) /\ slot[p] \in Slots /\ Run(p) \in Runs
  BY RunType, Numbers DEF SInv, IInv
<1>3. Elsewhere(p) /\ pc'[p] = "final" /\ ending'[p] = "recovered"
  BY <1>1, <1>2 DEF Elsewhere, TypeOK, Recover, Goto, End
<1>4. SameOrders
  BY <1>2 DEF Recover, SameOrders, TypeOK, Order
<1>5. \A r \in Runs : OrderInv(r)'
  BY <1>1, <1>4, OrderKept DEF Unscheduled, SameOrders
<1>6. SlotTimeAfter(p) /\ FromPlan(p) /\ ~PastGate(p)'
  BY <1>1, <1>2, <1>3 DEF SlotTimeAfter, SlotTime, FromPlan, Unscheduled, PastGate
<1> QED
  BY <1>1, <1>3, <1>5, <1>6, KeptUnscheduled

\* The final status finds the cap its order needs on record.
LEMMA ScheduleFinalize ==
  ASSUME SInv, IInv', NEW p \in Procs, Finalize(p)
  PROVE  KeptSchedule(p)
<1>1. /\ conn[p] /\ pc[p] = "final" /\ Unscheduled
      /\ UNCHANGED <<slot, conn, role, ending, request, order, sessions>>
      /\ status' = [status EXCEPT ![Run(p)] = ending[p]]
  BY DEF Finalize, At, Unscheduled
<1>2. /\ TypeOK /\ SlotTime(p) /\ slot[p] \in Slots /\ Run(p) \in Runs /\ HoldsSchedule(p)
      /\ Run(p)[1] = slot[p]
  <2>1. TypeOK /\ SlotTime(p) /\ HoldsSchedule(p)
    BY <1>1 DEF SInv, IInv
  <2>2. Run(p) \in Runs /\ slot[p] \in Slots
    BY <2>1, RunType
  <2>3. Run(p)[1] = slot[p]
    BY DEF Run
  <2> QED
    BY <2>1, <2>2, <2>3
<1>3. Elsewhere(p) /\ pc'[p] \in {"exit", "other", "sell"}
      /\ (pc'[p] = "sell" => ending[p] \notin {"gated", "recovered"})
  BY <1>1, <1>2 DEF Elsewhere, TypeOK, Finalize, Goto
<1>4. ASSUME NEW r \in Runs PROVE OrderInv(r)'
  <2>1. CASE r # Run(p)
    <3>1. status'[r] = status[r]
      BY <1>1, <1>2, <2>1 DEF TypeOK
    <3> QED
      BY <1>1, <3>1, OrderKept DEF Unscheduled
  <2>2. CASE r = Run(p)
    <3>1. status'[r] = ending[p]
      BY <1>1, <1>2, <2>2 DEF TypeOK
    <3>2. status'[r] \in {"ended", "invalid"} /\ Unfilled(r) => r \in uncapped \/ Capped(r[1])
      BY <1>1, <1>2, <2>2, <3>1 DEF HoldsSchedule
    <3> QED
      BY <1>1, <3>2 DEF OrderInv, SInv, Unfilled, Capped, Cap, Scheduled, Unscheduled
  <2> QED
    BY <2>1, <2>2
<1>5. SlotTimeAfter(p) /\ FromPlan(p) /\ (PastGate(p)' => PastGate(p))
  BY <1>1, <1>2, <1>3 DEF SlotTimeAfter, SlotTime, FromPlan, Unscheduled, PastGate
<1> QED
  BY <1>1, <1>3, <1>4, <1>5, KeptUnscheduled

\* A gate that passes is new, and every slot scheduled before it is due.
LEMMA GateSpaces ==
  ASSUME SInv, NEW p \in Procs, pc[p] = "gate", conn[p], role[p] = "close", Due, UNCHANGED <<binding, uncapped>>,
         PlaceNextRun(clock + FallbackGap, clock) # {},
         clock' = clock, gates' = [gates EXCEPT ![slot[p]] = @ \cup {clock}]
  PROVE  /\ GateAt' /\ Spaced' /\ Bounded' /\ Newest' /\ Grows
         /\ \A s \in Slots : Scheduled(s)' <=> Scheduled(s) \/ s = slot[p]
         /\ \A s \in Slots \ {slot[p]} : gates'[s] = gates[s]
<1>1. /\ slot[p] \in Slots /\ slot[p] = clock /\ Slots \subseteq Nat
      /\ gates \in [Slots -> SUBSET Slots]
  BY Numbers DEF SInv, IInv, SlotTime, TypeOK
<1>2. /\ \A s \in Slots \ {slot[p]} : gates'[s] = gates[s]
      /\ gates'[slot[p]] = gates[slot[p]] \cup {slot[p]}
  BY <1>1
<1>3. \A s \in Slots : Scheduled(s)' <=> Scheduled(s) \/ s = slot[p]
  BY <1>2 DEF Scheduled
<1>4. \A s \in Slots : gates'[s] \subseteq {s}
  BY <1>2 DEF SInv, GateAt
<1>5. \A s \in Slots : Scheduled(s)' => s <= slot[p]
  <2>1. \A s \in Slots : Scheduled(s) => s <= slot[p]
    BY <1>1 DEF SInv, GateAt
  <2>2. slot[p] \in Nat
    BY Numbers DEF SInv, IInv
  <2> QED
    BY <1>3, <2>1, <2>2
<1>6. GateAt' /\ Newest' /\ Grows
  <2>1. GateAt'
    BY <1>1, <1>4, <1>5 DEF GateAt
  <2>2. Newest'
    BY <1>1, <1>3, <1>5 DEF Newest
  <2>3. Grows
    BY <1>2 DEF Grows
  <2> QED
    BY <2>1, <2>2, <2>3
<1>7. ASSUME NEW s \in Slots, NEW k \in Slots, s < k, Scheduled(s)', Scheduled(k)'
      PROVE  \E t \in NotBefore(s)' : t <= k
  <2>1. Scheduled(s) /\ s # slot[p] /\ k <= slot[p]
    BY <1>1, <1>3, <1>5, <1>7
  <2>2. NotBefore(s)' = NotBefore(s)
    BY <1>2, <2>1 DEF NotBefore
  <2>3. CASE Scheduled(k)
    BY <1>7, <2>1, <2>2, <2>3 DEF SInv, Spaced
  <2>4. CASE k = slot[p]
    <3>1. PICK m \in Slots : Scheduled(m) /\ \A j \in Slots : Scheduled(j) => j <= m
      BY <2>1 DEF SInv, Newest
    <3>2. \E t \in NotBefore(m) : t <= clock
      BY <3>1 DEF Due, Scheduled
    <3>3. CASE m = s
      BY <1>1, <2>2, <2>4, <3>2, <3>3
    <3>4. CASE m # s
      <4>1. s < m
        BY <1>1, <2>1, <3>1, <3>4
      <4>2. PICK t \in NotBefore(s) : t <= m
        BY <2>1, <3>1, <4>1 DEF SInv, Spaced
      <4>3. t \in Nat
        <5>1. s \in Nat /\ s + FallbackGap \in Nat /\ \A g \in gates[s] : g = s
          BY <1>1, TickAssumption DEF SInv, GateAt
        <5>2. NotBefore(s) \subseteq binding[s] \cup PlaceNextRun(s + FallbackGap, s)
          BY <5>1 DEF NotBefore
        <5> QED
          BY <5>1, <5>2, Placed, Numbers DEF SInv, IInv
      <4>4. m <= k
        BY <1>5, <1>3, <2>4, <3>1
      <4> QED
        BY <1>1, <2>2, <4>2, <4>3, <4>4
    <3> QED
      BY <3>3, <3>4
  <2> QED
    BY <1>3, <1>7, <2>3, <2>4
<1>8. Spaced'
  BY <1>7 DEF Spaced
<1>9. Bounded'
  <2>1. NextOpen(slot[p] + FallbackGap) # {}
    BY <1>1, TickAssumption DEF PlaceNextRun, Slots
  <2> QED
    BY <1>3, <2>1 DEF SInv, Bounded
<1> QED
  BY <1>2, <1>3, <1>6, <1>8, <1>9

\* The gate schedules a slot whose runs are still open, once every earlier slot is due.
LEMMA ScheduleGate ==
  ASSUME SInv, IInv', NEW p \in Procs, Gate(p)
  PROVE  KeptSchedule(p)
<1>1. /\ conn[p] /\ pc[p] = "gate" /\ clock' = clock
      /\ UNCHANGED <<slot, conn, role, request, status, binding, order, sessions, uncapped>>
  BY DEF Gate, At
<1>2. /\ TypeOK /\ SlotTime(p) /\ slot[p] \in Slots /\ HoldsSchedule(p)
      /\ Run(p) \in Runs /\ Run(p) = <<slot[p], role[p]>> /\ role[p] \in Roles
  BY <1>1, RunType, Numbers DEF SInv, IInv
<1>3. Elsewhere(p) /\ (pc'[p] = "plan" \/ (pc'[p] = "final" /\ ending'[p] = "gated"))
  BY <1>1, <1>2 DEF Elsewhere, TypeOK, Gate, Goto, End
<1>4. SlotTimeAfter(p) /\ FromPlan(p)
  BY <1>1, <1>2, <1>3 DEF SlotTimeAfter, SlotTime, FromPlan
<1>5. CASE UNCHANGED gates /\ (pc'[p] = "plan" => role[p] = "sell")
  <2>1. Unscheduled
    BY <1>1, <1>5 DEF Unscheduled
  <2>2. \A r \in Runs : OrderInv(r)'
    BY <1>1, <1>5, OrderKept
  <2>3. PastGate(p)' => PastGate(p)
    BY <1>1, <1>3, <1>5 DEF PastGate
  <2> QED
    BY <1>1, <1>3, <1>4, <2>1, <2>2, <2>3, KeptUnscheduled
<1>6. CASE /\ role[p] = "close" /\ Due /\ PlaceNextRun(clock + FallbackGap, clock) # {}
           /\ gates' = [gates EXCEPT ![slot[p]] = @ \cup {clock}]
  <2>1. /\ GateAt' /\ Spaced' /\ Bounded' /\ Newest' /\ Grows
        /\ \A s \in Slots : Scheduled(s)' <=> Scheduled(s) \/ s = slot[p]
        /\ \A s \in Slots \ {slot[p]} : gates'[s] = gates[s]
    BY <1>1, <1>6, GateSpaces
  <2>2. ASSUME NEW r \in Runs PROVE OrderInv(r)'
    <3>1. r[1] \in Slots /\ r[2] \in Roles /\ r = <<r[1], r[2]>>
      BY DEF Runs
    <3>2. CASE r[1] # slot[p]
      BY <1>1, <2>1, <3>1, <3>2 DEF SInv, OrderInv, Unfilled, Capped, Cap, Grows
    <3>3. CASE r[1] = slot[p]
      <4>1. status[<<slot[p], "close">>] = "open" /\ status[<<slot[p], "sell">>] = "absent"
        BY <1>1, <1>2, <1>6 DEF SInv, IInv, Holds, AtWork
      <4>2. status'[r] \notin {"ended", "invalid"}
        BY <1>1, <3>1, <3>3, <4>1 DEF Roles
      <4> QED
        BY <1>1, <2>1, <3>1, <3>3, <4>2 DEF SInv, OrderInv
    <3> QED
      BY <3>2, <3>3
  <2>3. Scheduled(slot[p])'
    BY <1>1, <1>2, <1>6 DEF Scheduled, TypeOK
  <2>4. \A q \in Procs \ {p} : pc'[q] = "session" => slot'[q] # slot'[p]
    BY <1>1, <1>2, <1>3 DEF HoldsSchedule, Elsewhere
  <2>5. \A s \in Slots : Scheduled(s)' => s <= slot[p]
    BY <1>2, <2>1, Numbers DEF HoldsSchedule
  <2>6. ScheduleAfter(p)
    BY <1>1, <1>3, <2>3, <2>4, <2>5 DEF ScheduleAfter, HoldsSchedule
  <2> QED
    BY <1>1, <1>3, <1>4, <2>1, <2>2, <2>6 DEF KeptSchedule, LedgerAfter
<1>7. CASE ~RecordsFallback(p) /\ UNCHANGED gates /\ Proceeds(p)
  <2>1. role[p] = "sell"
    BY <1>2, <1>7 DEF RecordsFallback, Proceeds, Roles
  <2> QED
    BY <1>5, <1>7, <2>1
<1> QED
  BY <1>2, <1>5, <1>6, <1>7 DEF Gate, RecordsFallback, End, Goto, TypeOK

\* The times recorded after a session are of the newest slot, which no later one waited for.
LEMMA BindingGrows ==
  ASSUME SInv, NEW p \in Procs, conn[p], PastGate(p), UNCHANGED <<clock, gates>>,
         NEW new, binding' = [binding EXCEPT ![slot[p]] = @ \cup new],
         \A t \in new, m \in NextOpen(slot[p] + MaxGap) : t <= m, uncapped \subseteq uncapped'
  PROVE  /\ GateAt' /\ Spaced' /\ Bounded' /\ Newest' /\ Grows
         /\ \A r \in Runs : binding[r[1]] \subseteq binding'[r[1]]
<1>1. /\ slot[p] \in Slots /\ Slots \subseteq Nat /\ binding \in [Slots -> SUBSET Times]
      /\ HoldsSchedule(p)
  BY Numbers DEF SInv, IInv, TypeOK
<1>2. /\ \A s \in Slots \ {slot[p]} : binding'[s] = binding[s]
      /\ \A s \in Slots : binding[s] \subseteq binding'[s]
  BY <1>1
<1>3. ASSUME NEW s \in Slots, NEW k \in Slots, s < k, Scheduled(s)', Scheduled(k)'
      PROVE  \E t \in NotBefore(s)' : t <= k
  <2>1. Scheduled(s) /\ Scheduled(k)
    BY <1>3 DEF Scheduled
  <2>2. s # slot[p]
    BY <1>1, <1>3, <2>1 DEF HoldsSchedule
  <2>3. NotBefore(s)' = NotBefore(s)
    BY <1>2, <2>2 DEF NotBefore
  <2> QED
    BY <1>3, <2>1, <2>3 DEF SInv, Spaced
<1>4. Spaced'
  BY <1>3 DEF Spaced
<1>5. GateAt' /\ Newest' /\ Grows
  BY <1>2 DEF SInv, GateAt, Newest, Grows, Scheduled
<1>6. \A r \in Runs : r[1] \in Slots
  BY DEF Runs
<1>7. Bounded'
  BY <1>1, <1>2 DEF SInv, Bounded, Scheduled
<1> QED
  BY <1>2, <1>4, <1>5, <1>6, <1>7

\* The times recorded after a session keep the schedule, and the cap is there when the run ends.
LEMMA ScheduleBinding ==
  ASSUME SInv, IInv', NEW p \in Procs, ApplyAgentNextRun(p) \/ ApplyUnfilledOrderCap(p)
  PROVE  KeptSchedule(p)
<1>1. /\ conn[p] /\ pc[p] \in {"schedule", "cap"} /\ UNCHANGED <<clock, gates>>
      /\ UNCHANGED <<slot, conn, role, status, order, sessions>> /\ uncapped \subseteq uncapped'
  BY DEF ApplyAgentNextRun, ApplyUnfilledOrderCap, At
<1>2. /\ TypeOK /\ SlotTime(p) /\ slot[p] \in Slots /\ HoldsSchedule(p) /\ PastGate(p)
      /\ Run(p) \in Runs /\ Run(p)' = Run(p)
  BY <1>1, RunType, Numbers DEF SInv, IInv, PastGate, Run
<1>3. /\ Elsewhere(p)
      /\ \/ ApplyAgentNextRun(p) /\ pc'[p] = "cap"
         \/ ApplyAgentNextRun(p) /\ pc'[p] = "final" /\ ending'[p] = "error"
         \/ ApplyUnfilledOrderCap(p) /\ pc[p] = "cap" /\ pc'[p] = "final"
  BY <1>1, <1>2 DEF Elsewhere, TypeOK, ApplyAgentNextRun, ApplyUnfilledOrderCap, Goto, At, End
<1> DEFINE Adds(new) == /\ binding' = [binding EXCEPT ![slot[p]] = @ \cup new]
                        /\ \A t \in new : \A m \in NextOpen(slot[p] + MaxGap) : t <= m
<1>4. \E new : Adds(new)
  <2>1. slot[p] \in Nat /\ (\A g \in gates[slot[p]] : g = slot[p]) /\ request[p] \subseteq Nat
    BY <1>2, TickAssumption, Numbers DEF SInv, GateAt, TypeOK, Times
  <2>2. CASE UNCHANGED binding
    <3>1. Adds({})
      BY <1>2, <2>2 DEF TypeOK
    <3> HIDE DEF Adds
    <3> QED
      BY <3>1
  <2>3. CASE binding' = [binding EXCEPT ![slot[p]] =
                           @ \cup UNION {PlaceNextRun(t, g) : t \in request[p], g \in gates[slot[p]]}]
    <3>1. \A u \in UNION {PlaceNextRun(t, g) : t \in request[p], g \in gates[slot[p]]} :
            \A m \in NextOpen(slot[p] + MaxGap) : u <= m
      BY <2>1, PlacedWithin
    <3>2. Adds(UNION {PlaceNextRun(t, g) : t \in request[p], g \in gates[slot[p]]})
      BY <2>3, <3>1
    <3> HIDE DEF Adds
    <3> QED
      BY <3>2
  <2>4. CASE binding' = [binding EXCEPT ![slot[p]] = @ \cup Cap(slot[p])]
    <3>1. Cap(slot[p]) \subseteq PlaceNextRun(slot[p] + UnfilledGap, slot[p])
      BY <2>1 DEF Cap
    <3>2. slot[p] + UnfilledGap \in Nat
      BY <2>1, TickAssumption
    <3>3. Adds(Cap(slot[p]))
      BY <2>1, <2>4, <3>1, <3>2, PlacedWithin
    <3> HIDE DEF Adds
    <3> QED
      BY <3>3
  <2>5. CASE binding' = [binding EXCEPT ![slot[p]] = @ \cup {}]
    <3>1. Adds({})
      BY <2>5
    <3> HIDE DEF Adds
    <3> QED
      BY <3>1
  <2>6. CASE ApplyAgentNextRun(p)
    <3> HIDE DEF Adds
    <3> QED
      BY <2>2, <2>3, <2>6 DEF ApplyAgentNextRun
  <2>7. CASE ApplyUnfilledOrderCap(p)
    <3> HIDE DEF Adds
    <3> QED
      BY <2>2, <2>4, <2>5, <2>7 DEF ApplyUnfilledOrderCap
  <2> QED
    BY <2>6, <2>7
<1>5. /\ GateAt' /\ Spaced' /\ Bounded' /\ Newest' /\ Grows
      /\ \A r \in Runs : binding[r[1]] \subseteq binding'[r[1]]
  <2>1. PICK new : Adds(new)
    BY <1>4
  <2> QED
    BY <1>1, <1>2, <2>1, BindingGrows
<1>6. \A r \in Runs : OrderInv(r)'
  BY <1>1, <1>5, OrderKept
<1>7. SlotTimeAfter(p) /\ FromPlan(p)
  BY <1>1, <1>2, <1>3 DEF SlotTimeAfter, SlotTime, FromPlan
<1>8. /\ \A s \in Slots : Scheduled(s)' => s <= slot[p]
      /\ Scheduled(slot[p])'
      /\ \A q \in Procs \ {p} : pc'[q] = "session" => slot'[q] # slot'[p]
  BY <1>1, <1>2, <1>3 DEF HoldsSchedule, Elsewhere, Scheduled
<1>9. pc'[p] = "cap" => request'[p] \subseteq binding'[slot[p]]
  BY <1>2, <1>3 DEF ApplyAgentNextRun, TypeOK
<1>10. pc'[p] = "final" /\ ending'[p] # "error" /\ Unfilled(Run(p)) =>
         Run(p) \in uncapped' \/ Capped(slot[p])'
  <2>1. SUFFICES ASSUME pc'[p] = "final", ending'[p] # "error", Unfilled(Run(p)),
                        NEW c \in Cap(slot[p]), Run(p) \notin uncapped'
                 PROVE  \E t \in binding'[slot[p]] : t <= c
    BY <1>1 DEF Capped, Cap
  <2>2. /\ request[p] \subseteq binding[slot[p]] /\ c \in Nat
        /\ \A d \in Cap(slot[p]) : d = c
    BY <1>2, <1>3, <2>1, OneCap DEF HoldsSchedule, SInv
  <2>3. CASE \E t \in request[p], d \in Cap(slot[p]) : t <= d
    BY <1>2, <1>5, <2>2, <2>3 DEF Grows
  <2>4. CASE ~ \E t \in request[p], d \in Cap(slot[p]) : t <= d
    <3>1. c \in binding'[slot[p]]
      BY <1>2, <1>3, <2>1, <2>4 DEF ApplyUnfilledOrderCap, TypeOK
    <3> QED
      BY <2>2, <3>1
  <2> QED
    BY <2>3, <2>4
<1>11. Unfilled(Run(p))' <=> Unfilled(Run(p))
  BY <1>1, <1>2 DEF Unfilled
<1>12. ScheduleAfter(p)
  BY <1>1, <1>2, <1>3, <1>8, <1>9, <1>10, <1>11 DEF ScheduleAfter, HoldsSchedule
<1> QED
  BY <1>1, <1>3, <1>5, <1>6, <1>7, <1>12 DEF KeptSchedule, LedgerAfter

----------------------------------------------------------------------------
(* The theorems                                                            *)

\* The schedule begins empty.
LEMMA InitSInv == Init => SInv
<1> SUFFICES ASSUME Init PROVE SInv
  OBVIOUS
<1>1. IInv /\ TypeOK
  BY InitIInv DEF IInv
<1>2. GateAt /\ Spaced /\ Bounded /\ Newest /\ ApartSlots
  BY DEF Init, GateAt, Spaced, Bounded, Newest, ApartSlots, Scheduled
<1>3. \A p \in Procs : SlotTime(p) /\ ~conn[p]
  BY DEF Init, SlotTime
<1>4. \A r \in Runs : OrderInv(r)
  BY DEF Init, OrderInv
<1> QED
  BY <1>1, <1>2, <1>3, <1>4 DEF SInv

\* Time passes only while every process is in a session before its deadline.
LEMMA TimeSInv ==
  ASSUME SInv, IInv', Tick \/ UNCHANGED vars
  PROVE  SInv'
<1>1. /\ UNCHANGED <<lock, pc, conn, slot, role, ending, request>>
      /\ UNCHANGED <<status, gates, binding, order, sessions, uncapped>>
      /\ clock <= clock'
  BY Numbers DEF SInv, IInv, Tick, vars, procVars, ledgerVars
<1>2. TypeOK /\ clock \in Nat /\ clock' \in Nat /\ Slots \subseteq Nat
  BY Numbers DEF SInv, IInv, TypeOK
<1>3. ASSUME NEW p \in Procs PROVE SlotTime(p)'
  <2>1. SlotTime(p) /\ slot[p] \in Nat /\ Budget(role[p]) \in Nat
    BY <1>2, Numbers, TickAssumption DEF SInv, Budget
  <2>2. CASE clock' = clock
    BY <1>1, <2>1, <2>2 DEF SlotTime, Scheduled
  <2>3. CASE Tick
    <3>1. clock' = clock + 1 /\ (Running(p) => pc[p] = "session" /\ ~OutOfBudget(p))
      BY <2>3 DEF Tick
    <3> QED
      BY <1>1, <1>2, <2>1, <3>1 DEF SlotTime, Scheduled, Running, OutOfBudget
  <2> QED
    BY <2>2, <2>3 DEF vars
<1>4. GateAt'
  <2>1. ASSUME NEW s \in Slots, Scheduled(s)' PROVE s <= clock'
    <3>1. s <= clock /\ s \in Nat
      BY <1>1, <1>2, <2>1 DEF SInv, GateAt, Scheduled
    <3> QED
      BY <1>1, <1>2, <3>1
  <2> QED
    BY <1>1, <2>1 DEF SInv, GateAt
<1>5. Spaced' /\ Bounded' /\ Newest' /\ ApartSlots'
  <2>1. Spaced' /\ Newest' /\ ApartSlots'
    BY <1>1 DEF SInv, Spaced, Newest, ApartSlots, Scheduled, NotBefore
  <2>2. Bounded'
    BY <1>1 DEF SInv, Bounded, Scheduled
  <2> QED
    BY <2>1, <2>2
<1>6. \A r \in Runs : OrderInv(r)'
  BY <1>1, OrderKept
<1>7. ASSUME NEW p \in Procs, conn'[p] PROVE HoldsSchedule(p)'
  <2>1. HoldsSchedule(p)
    BY <1>1, <1>7 DEF SInv
  <2> QED
    BY <1>1, <2>1 DEF HoldsSchedule, Scheduled, PastGate, Unfilled, Run, Capped, Cap
<1> QED
  BY <1>3, <1>4, <1>5, <1>6, <1>7 DEF SInv

\* Every step keeps the invariant.
LEMMA NextSInv == SInv /\ [Next]_vars => SInv'
<1> SUFFICES ASSUME SInv, [Next]_vars PROVE SInv'
  OBVIOUS
<1>i. IInv'
  BY NextIInv DEF SInv
<1>1. CASE Tick \/ UNCHANGED vars
  BY <1>i, <1>1, TimeSInv
<1>2. ASSUME NEW p \in Procs, Fire(p) \/ SkipTick(p) \/ ProcStep(p)
                              \/ LoseConnection(p) \/ Crash(p) \/ DropLock(p)
      PROVE  SInv'
  <2>1. KeptSchedule(p)
    BY <1>i, <1>2, ScheduleOutside, ScheduleOpen, ScheduleStartRun, ScheduleSession,
       ScheduleRecover, ScheduleFinalize, ScheduleGate, ScheduleBinding DEF ProcStep
  <2> QED
    BY <1>i, <2>1, KeptSInv
<1> QED
  BY <1>1, <1>2 DEF Next

\* The schedule's inductive invariant: see SInv.
THEOREM ScheduleInvariance == Spec => []SInv
BY InitSInv, NextSInv, PTL DEF Spec

\* UnfilledCaps: no request of either agent outlasts the cap, since the slot's gate is one and the
\* ledger keeps the earliest time; and without the cap, the slot's fallback is there, which no
\* agent's time replaces with one beyond the maximum gap.
THEOREM UnfilledIsCapped == Spec => []UnfilledCaps
<1>1. ASSUME SInv PROVE UnfilledCaps
  <2>1. SUFFICES ASSUME NEW r \in Runs, status[r] \in {"ended", "invalid"}, Unfilled(r)
                 PROVE  /\ r \in uncapped \/ \A c \in Cap(r[1]) : \E t \in NotBefore(r[1]) : t <= c
                        /\ \E t \in NotBefore(r[1]), g \in gates[r[1]] :
                             \A m \in NextOpen(g + MaxGap) : t <= m
    BY DEF UnfilledCaps
  <2>2. ASSUME r \notin uncapped, NEW c \in Cap(r[1]) PROVE \E t \in NotBefore(r[1]) : t <= c
    <3>1. PICK t \in binding[r[1]] : t <= c
      BY <1>1, <2>1, <2>2 DEF SInv, OrderInv, Capped
    <3> QED
      BY <3>1 DEF NotBefore
  <2>3. /\ r[1] \in Slots /\ r[1] \in Nat /\ gates[r[1]] = {r[1]}
        /\ NextOpen(r[1] + FallbackGap) # {}
        /\ \A t \in binding[r[1]], m \in NextOpen(r[1] + MaxGap) : t <= m
    <3>1. r[1] \in Slots /\ r[1] \in Nat
      BY TickAssumption DEF Runs, Slots
    <3>2. Scheduled(r[1])
      BY <1>1, <2>1 DEF SInv, OrderInv, Unfilled
    <3> QED
      BY <1>1, <3>1, <3>2 DEF SInv, GateAt, Bounded, Scheduled
  <2>4. \E t \in NotBefore(r[1]) : \A m \in NextOpen(r[1] + MaxGap) : t <= m
    <3>1. CASE binding[r[1]] # {}
      BY <2>3, <3>1 DEF NotBefore
    <3>2. CASE binding[r[1]] = {}
      <4>1. NotBefore(r[1]) = PlaceNextRun(r[1] + FallbackGap, r[1])
        BY <2>3, <3>2 DEF NotBefore
      <4>2. PlaceNextRun(r[1] + FallbackGap, r[1]) = NextOpen(r[1] + FallbackGap)
        BY <2>3, TickAssumption DEF PlaceNextRun
      <4>3. r[1] + FallbackGap \in Nat
        BY <2>3, TickAssumption
      <4> QED
        BY <2>3, <4>1, <4>2, <4>3, PlacedWithin
    <3> QED
      BY <3>1, <3>2
  <2> QED
    BY <2>2, <2>3, <2>4
<1> QED
  BY <1>1, ScheduleInvariance, PTL

\* OverlapNeedsBinding: the later session's tick waited for the earlier one's slot, whose fallback
\* comes after every deadline; so its slot had an earlier time on record.
THEOREM OverlapsAreBound == Spec => []OverlapNeedsBinding
<1>1. ASSUME SInv PROVE OverlapNeedsBinding
  <2>1. ASSUME NEW p \in Procs, NEW q \in Procs, pc[p] = "session", pc[q] = "session",
               slot[p] < slot[q]
        PROVE  binding[slot[p]] # {}
    <3>1. /\ slot[p] \in Slots /\ slot[q] \in Slots /\ role[p] \in Roles
          /\ slot[p] \in Nat /\ slot[q] \in Nat /\ clock \in Nat
      BY <1>1, Numbers DEF SInv, IInv, TypeOK
    <3>2. /\ Scheduled(slot[p]) /\ Scheduled(slot[q]) /\ slot[q] <= clock
          /\ clock <= slot[p] + Budget(role[p])
      BY <1>1, <2>1 DEF SInv, SlotTime
    <3>3. PICK t \in NotBefore(slot[p]) : t <= slot[q]
      BY <1>1, <2>1, <3>1, <3>2 DEF SInv, Spaced
    <3>4. SUFFICES ASSUME binding[slot[p]] = {} PROVE FALSE
      OBVIOUS
    <3>5. t \in PlaceNextRun(slot[p] + FallbackGap, slot[p])
      BY <1>1, <3>1, <3>3, <3>4 DEF NotBefore, SInv, GateAt
    <3>6. t \in Nat /\ slot[p] + Budget(role[p]) < t
      BY <3>1, <3>5, FallbackOutlasts
    <3>7. Budget(role[p]) \in Nat
      BY TickAssumption DEF Budget
    <3> QED
      BY <3>1, <3>2, <3>3, <3>6, <3>7
  <2>2. \A p, q \in Procs : p # q /\ pc[p] = "session" /\ pc[q] = "session" =>
           slot[p] < slot[q] \/ slot[q] < slot[p]
    BY <1>1, Numbers DEF SInv, IInv, ApartSlots
  <2> QED
    BY <2>1, <2>2 DEF OverlapNeedsBinding
<1> QED
  BY <1>1, ScheduleInvariance, PTL

\* RespectsSchedule: a tick that starts has passed its own gate, so that its slot waited for every
\* slot scheduled before it.
THEOREM ScheduleIsRespected == Spec => RespectsSchedule
<1> DEFINE Waits == \A p \in Procs : StartsClose(p) =>
              \A s \in Slots : s < slot[p] /\ gates[s] # {} => \E t \in NotBefore(s) : t <= clock
<1>1. ASSUME SInv, [Next]_vars PROVE Waits
  <2>1. SUFFICES ASSUME NEW p \in Procs, StartsClose(p), NEW s \in Slots, s < slot[p], gates[s] # {}
                 PROVE  \E t \in NotBefore(s) : t <= clock
    OBVIOUS
  <2>2. conn[p] /\ clock = slot[p] /\ slot[p] \in Slots
    <3>1. SInv'
      BY <1>1, NextSInv
    <3>2. pc[p] = "plan" /\ pc'[p] = "session" /\ role[p] = "close"
      BY <2>1 DEF StartsClose
    <3>3. clock = slot[p] /\ slot[p] \in Slots
      BY <1>1, <3>2, Numbers DEF SInv, SlotTime, IInv
    <3>4. conn[p]
      <4>1. TypeOK
        BY <1>1 DEF SInv, IInv
      <4>2. \A q \in Procs : (Fire(q) \/ SkipTick(q) \/ ProcStep(q) \/ LoseConnection(q)
                               \/ Crash(q) \/ DropLock(q)) =>
               q = p \/ pc'[p] = pc[p]
        BY <4>1 DEF TypeOK, Fire, SkipTick, ProcStep, LoseConnection, Crash, DropLock, OpenSlot,
           Gate, StartRun, Session, RequestOrder, RecordIntent, SendOrder, RecordOutcome, ReadFill,
           EndSession, ApplyAgentNextRun, ApplyUnfilledOrderCap, Finalize, OpenSell, LookAtSell,
           Recover, Exit, Gone, Goto, End, procVars
      <4>3. Fire(p) \/ SkipTick(p) \/ ProcStep(p) \/ LoseConnection(p) \/ Crash(p) \/ DropLock(p)
        BY <1>1, <3>2, <4>2 DEF Next, Tick, vars, procVars
      <4>4. StartRun(p)
        <5>1. ~Fire(p) /\ ~SkipTick(p) /\ ~LoseConnection(p) /\ ~Crash(p) /\ ~DropLock(p)
          BY <3>2, <4>1 DEF TypeOK, Fire, SkipTick, LoseConnection, Crash, DropLock, Gone, Goto, At,
             procVars
        <5>2. /\ ~OpenSlot(p) /\ ~Gate(p) /\ ~ApplyAgentNextRun(p) /\ ~ApplyUnfilledOrderCap(p)
              /\ ~Finalize(p) /\ ~OpenSell(p) /\ ~LookAtSell(p) /\ ~Recover(p) /\ ~Exit(p)
          BY <3>2 DEF OpenSlot, Gate, ApplyAgentNextRun, ApplyUnfilledOrderCap, Finalize, OpenSell,
             LookAtSell, Recover, Exit, At
        <5>3. ~Session(p)
          BY <3>2 DEF Session, RequestOrder, RecordIntent, SendOrder, RecordOutcome, ReadFill,
             EndSession, At, procVars
        <5> QED
          BY <4>3, <5>1, <5>2, <5>3 DEF ProcStep
      <4> QED
        BY <4>4 DEF StartRun, At
    <3> QED
      BY <3>3, <3>4
  <2>3. Scheduled(slot[p])
    BY <1>1, <2>1, <2>2 DEF SInv, HoldsSchedule, PastGate, StartsClose
  <2>4. \E t \in NotBefore(s) : t <= slot[p]
    BY <1>1, <2>1, <2>2, <2>3 DEF SInv, Spaced, Scheduled
  <2> QED
    BY <2>2, <2>4
<1>2. SInv /\ [Next]_vars => [Waits]_vars
  BY <1>1
<1> QED
  BY <1>2, ScheduleInvariance, PTL DEF Spec, RespectsSchedule

----------------------------------------------------------------------------
(* Why a fire ends: what it has left to do only shrinks, in the session    *)
(* too.  This is the safety half of LockFreed.                             *)

\* How far each place of a tick is from its end, within the run of one agent.
PlaceRank == [idle |-> 23, tick |-> 22, gate |-> 21, plan |-> 20, session |-> 7, schedule |-> 6,
              cap |-> 5, recover |-> 4, final |-> 3, sell |-> 2, other |-> 2, exit |-> 1,
              done |-> 0]
FlightRank == [none |-> 0, sent |-> 1, intent |-> 2, requested |-> 3]

\* What a session may still do with its one order: the call, its flight, the read of its fill.
OrderToCome(p) ==
  (IF order[Run(p)].call = "none" THEN 5 ELSE 0) + FlightRank[flight[p]]
    + (IF order[Run(p)].known THEN 0 ELSE 1)

\* The sell run is still to come behind the close run's.
AgentToCome(p) == IF role[p] = "close" THEN 24 ELSE 0
SessionToCome(p) == IF pc[p] = "session" THEN OrderToCome(p) ELSE 0
TickToCome(p) ==
  IF pc[p] = "done" THEN 0 ELSE AgentToCome(p) + PlaceRank[pc[p]] + SessionToCome(p)

\* A process turns to the sell run once, from the close run's end.
ClosesFirst == \A p \in Procs : pc[p] \in {"idle", "tick", "sell", "other"} => role[p] = "close"

LEMMA PlaceRanks ==
  /\ \A w \in PcValue : PlaceRank[w] \in 0 .. 23
  /\ \A f \in {"none", "requested", "intent", "sent"} : FlightRank[f] \in 0 .. 3
BY DEF PlaceRank, FlightRank, PcValue

LEMMA ToComeBounds ==
  ASSUME TypeOK, NEW p \in Procs
  PROVE  /\ PlaceRank[pc[p]] \in 0 .. 23 /\ OrderToCome(p) \in 0 .. 9
         /\ SessionToCome(p) \in 0 .. 9 /\ AgentToCome(p) \in {0, 24}
         /\ TickToCome(p) \in Nat
<1>1. PlaceRank[pc[p]] \in 0 .. 23 /\ FlightRank[flight[p]] \in 0 .. 3
  BY PlaceRanks DEF TypeOK
<1>2. OrderToCome(p) \in 0 .. 9
  BY <1>1 DEF OrderToCome
<1>3. SessionToCome(p) \in 0 .. 9 /\ AgentToCome(p) \in {0, 24}
  BY <1>2 DEF SessionToCome, AgentToCome
<1> QED
  BY <1>1, <1>2, <1>3 DEF TickToCome

LEMMA ToComeNext == TypeOK' =>
  (\A p \in Procs : /\ PlaceRank[pc[p]] \in 0 .. 23 /\ OrderToCome(p) \in 0 .. 9
                    /\ SessionToCome(p) \in 0 .. 9 /\ AgentToCome(p) \in {0, 24}
                    /\ TickToCome(p) \in Nat)'
<1>1. TypeOK =>
        \A p \in Procs : /\ PlaceRank[pc[p]] \in 0 .. 23 /\ OrderToCome(p) \in 0 .. 9
                         /\ SessionToCome(p) \in 0 .. 9 /\ AgentToCome(p) \in {0, 24}
                         /\ TickToCome(p) \in Nat
  BY ToComeBounds
<1> QED
  BY <1>1, PTL

\* From one place to the next of the same run, or on to the sell run.
LEMMA MovesOn ==
  ASSUME TypeOK, TypeOK', NEW p \in Procs, pc[p] # "done",
         \/ pc'[p] = "done"
         \/ role'[p] = role[p] /\ pc'[p] # "session" /\ PlaceRank[pc'[p]] < PlaceRank[pc[p]]
         \/ role'[p] = role[p] /\ pc[p] = "plan" /\ pc'[p] = "session"
         \/ role[p] = "close" /\ role'[p] = "sell" /\ pc'[p] # "session"
  PROVE  TickToCome(p)' < TickToCome(p)
<1>1. /\ PlaceRank[pc[p]] \in 0 .. 23 /\ SessionToCome(p) \in 0 .. 9
      /\ AgentToCome(p) \in {0, 24} /\ PlaceRank[pc'[p]] \in 0 .. 23
      /\ SessionToCome(p)' \in 0 .. 9
  BY ToComeBounds, ToComeNext
<1>2. TickToCome(p) = AgentToCome(p) + PlaceRank[pc[p]] + SessionToCome(p)
  BY DEF TickToCome
<1>3. CASE pc'[p] = "done"
  <2>1. PlaceRank[pc[p]] >= 1
    BY DEF PlaceRank, TypeOK, PcValue
  <2>2. TickToCome(p)' = 0
    BY <1>3 DEF TickToCome
  <2> QED
    BY <1>1, <1>2, <2>1, <2>2
<1>4. CASE pc'[p] # "done"
  <2>1. TickToCome(p)' = AgentToCome(p)' + PlaceRank[pc'[p]] + SessionToCome(p)'
    BY <1>4 DEF TickToCome
  <2>2. CASE role'[p] = role[p] /\ pc'[p] # "session" /\ PlaceRank[pc'[p]] < PlaceRank[pc[p]]
    <3>1. AgentToCome(p)' = AgentToCome(p) /\ SessionToCome(p)' = 0
      BY <2>2 DEF AgentToCome, SessionToCome
    <3> QED
      BY <1>1, <1>2, <2>1, <2>2, <3>1
  <2>3. CASE role'[p] = role[p] /\ pc[p] = "plan" /\ pc'[p] = "session"
    <3>1. AgentToCome(p)' = AgentToCome(p) /\ PlaceRank[pc[p]] = 20 /\ PlaceRank[pc'[p]] = 7
      BY <2>3 DEF AgentToCome, PlaceRank
    <3> QED
      BY <1>1, <1>2, <2>1, <3>1
  <2>4. CASE role[p] = "close" /\ role'[p] = "sell" /\ pc'[p] # "session"
    <3>1. AgentToCome(p)' = 0 /\ AgentToCome(p) = 24 /\ SessionToCome(p)' = 0
      BY <2>4 DEF AgentToCome, SessionToCome
    <3> QED
      BY <1>1, <1>2, <2>1, <3>1
  <2> QED
    BY <1>4, <2>2, <2>3, <2>4
<1> QED
  BY <1>3, <1>4

\* Within the session its order goes forward.
LEMMA OrderMoves ==
  ASSUME TypeOK, TypeOK', NEW p \in Procs, UNCHANGED <<pc, role>>, pc[p] = "session",
         OrderToCome(p)' <= OrderToCome(p)
  PROVE  /\ TickToCome(p)' <= TickToCome(p)
         /\ OrderToCome(p)' < OrderToCome(p) => TickToCome(p)' < TickToCome(p)
<1>1. /\ PlaceRank[pc[p]] \in 0 .. 23 /\ AgentToCome(p) \in {0, 24}
      /\ OrderToCome(p) \in 0 .. 9 /\ OrderToCome(p)' \in 0 .. 9
  BY ToComeBounds, ToComeNext
<1>2. /\ TickToCome(p) = AgentToCome(p) + PlaceRank[pc[p]] + OrderToCome(p)
      /\ TickToCome(p)' = AgentToCome(p)' + PlaceRank[pc'[p]] + OrderToCome(p)'
      /\ AgentToCome(p)' = AgentToCome(p) /\ PlaceRank[pc'[p]] = PlaceRank[pc[p]]
  BY DEF TickToCome, SessionToCome, AgentToCome
<1> QED
  BY <1>1, <1>2

\* Nothing takes a call or a known fill back.
OrdersGrow ==
  \A r \in Runs : /\ order'[r].call = "none" => order[r].call = "none"
                  /\ order[r].known => order'[r].known

LEMMA CallGrows ==
  ASSUME TypeOK, NEW r \in Runs, NEW c \in CallStatus \ {"none"},
         order' = [order EXCEPT ![r].call = c]
  PROVE  OrdersGrow
<1>1. order \in [Runs -> Order]
  BY DEF TypeOK
<1> QED
  BY <1>1 DEF OrdersGrow, Order

LEMMA ResolveGrows ==
  ASSUME TypeOK, NEW p \in Procs, NEW st \in {"failed", "succeeded", "unknown"}, ResolveAs(p, st)
  PROVE  OrdersGrow
<1>1. order \in [Runs -> Order] /\ Run(p) \in Runs
  BY RunType DEF TypeOK
<1> QED
  BY <1>1 DEF OrdersGrow, Order, ResolveAs

\* Every step leaves the ledger with at least what it knew of the orders.
LEMMA OrdersStepGrow ==
  ASSUME TypeOK, NEW p \in Procs, ProcStep(p)
  PROVE  OrdersGrow
<1>1. order \in [Runs -> Order] /\ Run(p) \in Runs
  BY RunType DEF TypeOK
<1>2. CASE UNCHANGED order
  BY <1>2 DEF OrdersGrow
<1>3. CASE RequestOrder(p)
  BY <1>1, <1>3, CallGrows DEF RequestOrder, CallStatus
<1>4. CASE RecordIntent(p)
  <2>1. CASE order' = [order EXCEPT ![Run(p)].intent = TRUE]
    BY <1>1, <2>1 DEF OrdersGrow, Order
  <2> QED
    BY <1>4, <2>1, ResolveGrows DEF RecordIntent
<1>5. CASE SendOrder(p)
  BY <1>1, <1>5 DEF SendOrder, OrdersGrow, Order
<1>6. CASE RecordOutcome(p) \/ EndSession(p)
  BY <1>2, <1>6, ResolveGrows DEF RecordOutcome, EndSession
<1>7. CASE ReadFill(p)
  BY <1>1, <1>7 DEF ReadFill, OrdersGrow, Order
<1>8. CASE Recover(p)
  BY <1>1, <1>8 DEF Recover, OrdersGrow, Order
<1> QED
  BY <1>2, <1>3, <1>4, <1>5, <1>6, <1>7, <1>8 DEF ProcStep, Session, OpenSlot, Gate, StartRun,
     ApplyAgentNextRun, ApplyUnfilledOrderCap, Finalize, OpenSell, LookAtSell, Exit, ledgerVars

\* What others do to the ledger leaves a process no more to do.
LEMMA OthersGrow ==
  ASSUME TypeOK, TypeOK', NEW p \in Procs, OrdersGrow, pc'[p] = pc[p], role'[p] = role[p],
         slot'[p] = slot[p], flight'[p] = flight[p]
  PROVE  TickToCome(p)' <= TickToCome(p)
<1>1. /\ PlaceRank[pc[p]] \in 0 .. 23 /\ AgentToCome(p) \in {0, 24}
      /\ OrderToCome(p) \in 0 .. 9 /\ OrderToCome(p)' \in 0 .. 9
      /\ FlightRank[flight[p]] \in 0 .. 3
  BY ToComeBounds, ToComeNext, PlaceRanks DEF TypeOK
<1>2. Run(p)' = Run(p) /\ Run(p) \in Runs
  BY RunType DEF Run
<1>3. OrderToCome(p)' <= OrderToCome(p)
  BY <1>1, <1>2 DEF OrdersGrow, OrderToCome
<1>4. AgentToCome(p)' = AgentToCome(p) /\ PlaceRank[pc'[p]] = PlaceRank[pc[p]]
  BY DEF AgentToCome
<1>5. SessionToCome(p)' <= SessionToCome(p) /\ SessionToCome(p) \in 0 .. 9 /\ SessionToCome(p)' \in 0 .. 9
  BY <1>1, <1>3 DEF SessionToCome
<1> QED
  BY <1>1, <1>4, <1>5 DEF TickToCome

\* A step of a process touches its own memory only.
LEMMA OthersStay ==
  ASSUME TypeOK, NEW p \in Procs, NEW q \in Procs \ {p},
         ProcStep(p) \/ Fire(p) \/ SkipTick(p) \/ Crash(p)
  PROVE  pc'[q] = pc[q] /\ role'[q] = role[q] /\ slot'[q] = slot[q] /\ flight'[q] = flight[q]
<1> USE DEF procVars
<1>1. CASE Fire(p) \/ SkipTick(p)
  BY <1>1 DEF Fire, SkipTick, Goto, TypeOK
<1>2. CASE Crash(p) \/ Exit(p)
  BY <1>2 DEF Crash, Exit, Gone, Goto, TypeOK
<1>3. CASE OpenSlot(p) \/ Gate(p) \/ StartRun(p)
  BY <1>3 DEF OpenSlot, Gate, StartRun, End, Goto, TypeOK
<1>4. CASE RequestOrder(p) \/ RecordIntent(p) \/ SendOrder(p) \/ RecordOutcome(p) \/ ReadFill(p)
  BY <1>4 DEF RequestOrder, RecordIntent, SendOrder, RecordOutcome, ReadFill, TypeOK
<1>5. CASE EndSession(p)
  BY <1>5 DEF EndSession, End, Goto, TypeOK
<1>6. CASE ApplyAgentNextRun(p) \/ ApplyUnfilledOrderCap(p) \/ Finalize(p) \/ OpenSell(p)
           \/ LookAtSell(p) \/ Recover(p)
  BY <1>6 DEF ApplyAgentNextRun, ApplyUnfilledOrderCap, Finalize, OpenSell, LookAtSell, Recover,
     End, Goto, TypeOK
<1> QED
  BY <1>1, <1>2, <1>3, <1>4, <1>5, <1>6 DEF ProcStep, Session

\* The session's own steps.
LEMMA SessionForward ==
  ASSUME TypeOK, TypeOK', NEW p \in Procs,
         RequestOrder(p) \/ RecordIntent(p) \/ SendOrder(p) \/ RecordOutcome(p) \/ ReadFill(p)
  PROVE  TickToCome(p)' < TickToCome(p)
<1>1. /\ order \in [Runs -> Order] /\ Run(p) \in Runs /\ flight \in [Procs -> {"none", "requested", "intent", "sent"}]
      /\ UNCHANGED <<pc, role, slot>> /\ pc[p] = "session"
  BY RunType DEF TypeOK, RequestOrder, RecordIntent, SendOrder, RecordOutcome, ReadFill, At, procVars
<1>2. Run(p)' = Run(p) /\ OrdersGrow
  BY <1>1, OrdersStepGrow DEF Run, ProcStep, Session
<1>3. /\ FlightRank["none"] = 0 /\ FlightRank["sent"] = 1 /\ FlightRank["intent"] = 2
      /\ FlightRank["requested"] = 3
  BY DEF FlightRank
<1>4. OrderToCome(p)' < OrderToCome(p)
  <2>1. CASE RequestOrder(p)
    <3>1. /\ order[Run(p)].call = "none" /\ order'[Run(p)].call # "none" /\ flight[p] = "none"
          /\ flight'[p] \in {"none", "requested"}
          /\ order'[Run(p)].known = order[Run(p)].known
      BY <1>1, <2>1 DEF RequestOrder, Order
    <3> QED
      BY <1>2, <1>3, <3>1 DEF OrderToCome
  <2>2. CASE RecordIntent(p) \/ SendOrder(p) \/ RecordOutcome(p)
    <3>1. \/ flight[p] = "requested" /\ flight'[p] \in {"intent", "none"}
          \/ flight[p] = "intent" /\ flight'[p] = "sent"
          \/ flight[p] = "sent" /\ flight'[p] = "none"
      BY <1>1, <2>2 DEF RecordIntent, SendOrder, RecordOutcome
    <3> QED
      BY <1>1, <1>2, <1>3, <3>1 DEF OrderToCome, OrdersGrow
  <2>3. CASE ReadFill(p)
    <3>1. /\ ~order[Run(p)].known /\ order'[Run(p)].known /\ flight' = flight
          /\ order'[Run(p)].call = order[Run(p)].call
      BY <1>1, <2>3 DEF ReadFill, Order, procVars
    <3>2. FlightRank[flight[p]] \in 0 .. 3
      BY <1>1, PlaceRanks
    <3> QED
      BY <1>2, <3>1, <3>2 DEF OrderToCome
  <2> QED
    BY <2>1, <2>2, <2>3
<1>5. OrderToCome(p) \in 0 .. 9 /\ OrderToCome(p)' \in 0 .. 9
  BY ToComeBounds, ToComeNext
<1> QED
  BY <1>1, <1>4, <1>5, OrderMoves

\* The steps of a tick between its sessions.
LEMMA PlacesForward ==
  ASSUME TypeOK, TypeOK', ClosesFirst, NEW p \in Procs, ProcStep(p),
         ~(RequestOrder(p) \/ RecordIntent(p) \/ SendOrder(p) \/ RecordOutcome(p) \/ ReadFill(p))
  PROVE  TickToCome(p)' < TickToCome(p) /\ ClosesFirst'
<1>t. pc \in [Procs -> PcValue] /\ role \in [Procs -> Roles]
  BY DEF TypeOK
<1>o. \A q \in Procs \ {p} : pc'[q] = pc[q] /\ role'[q] = role[q]
  BY OthersStay
<1>1. CASE OpenSlot(p)
  <2>1. /\ pc[p] = "tick" /\ role[p] = "close" /\ role'[p] = "close"
        /\ pc'[p] \in {"gate", "recover", "other"}
    BY <1>1, <1>t DEF OpenSlot, At, Goto, ClosesFirst
  <2>2. PlaceRank[pc'[p]] < PlaceRank[pc[p]]
    BY <2>1 DEF PlaceRank
  <2> QED
    BY <1>o, <2>1, <2>2, MovesOn DEF ClosesFirst
<1>2. CASE Gate(p)
  <2>1. pc[p] = "gate" /\ role'[p] = role[p] /\ pc'[p] \in {"plan", "final"}
    BY <1>2, <1>t DEF Gate, At, End, Goto
  <2>2. PlaceRank[pc'[p]] < PlaceRank[pc[p]]
    BY <2>1 DEF PlaceRank
  <2> QED
    BY <1>o, <2>1, <2>2, MovesOn DEF ClosesFirst
<1>3. CASE StartRun(p)
  <2>1. pc[p] = "plan" /\ role'[p] = role[p] /\ pc'[p] \in {"session", "final"}
    BY <1>3, <1>t DEF StartRun, At, End, Goto
  <2>2. PlaceRank[pc'[p]] < PlaceRank[pc[p]]
    BY <2>1 DEF PlaceRank
  <2> QED
    BY <1>o, <2>1, <2>2, MovesOn DEF ClosesFirst
<1>4. CASE EndSession(p)
  <2>1. pc[p] = "session" /\ role'[p] = role[p] /\ pc'[p] \in {"schedule", "final"}
    BY <1>4, <1>t DEF EndSession, At, End, Goto
  <2>2. PlaceRank[pc'[p]] < PlaceRank[pc[p]]
    BY <2>1 DEF PlaceRank
  <2> QED
    BY <1>o, <2>1, <2>2, MovesOn DEF ClosesFirst
<1>5. CASE ApplyAgentNextRun(p) \/ ApplyUnfilledOrderCap(p) \/ Recover(p)
  <2>1. /\ role'[p] = role[p]
        /\ \/ pc[p] = "schedule" /\ pc'[p] = "cap"
           \/ pc[p] = "schedule" /\ pc'[p] = "final"
           \/ pc[p] = "cap" /\ pc'[p] = "final"
           \/ pc[p] = "recover" /\ pc'[p] = "final"
    BY <1>5, <1>t DEF ApplyAgentNextRun, ApplyUnfilledOrderCap, Recover, At, End, Goto
  <2>2. PlaceRank[pc'[p]] < PlaceRank[pc[p]]
    BY <2>1 DEF PlaceRank
  <2> QED
    BY <1>o, <2>1, <2>2, MovesOn DEF ClosesFirst
<1>6. CASE Finalize(p)
  <2>1. /\ pc[p] = "final" /\ role'[p] = role[p] /\ pc'[p] \in {"exit", "other", "sell"}
        /\ pc'[p] # "exit" => role[p] = "close"
    BY <1>6, <1>t DEF Finalize, At, Goto, Roles
  <2>2. PlaceRank[pc'[p]] < PlaceRank[pc[p]]
    BY <2>1 DEF PlaceRank
  <2> QED
    BY <1>o, <2>1, <2>2, MovesOn DEF ClosesFirst
<1>7. CASE OpenSell(p) \/ LookAtSell(p)
  <2>1. pc[p] \in {"sell", "other"} /\ role'[p] = "sell" /\ pc'[p] \in {"gate", "recover", "exit"}
    BY <1>7, <1>t DEF OpenSell, LookAtSell, At, Goto
  <2>2. role[p] = "close"
    BY <2>1 DEF ClosesFirst
  <2> QED
    BY <1>o, <2>1, <2>2, MovesOn DEF ClosesFirst
<1>8. CASE Exit(p)
  <2>1. pc[p] = "exit" /\ pc'[p] = "done"
    BY <1>8, <1>t DEF Exit, At, Gone, Goto
  <2> QED
    BY <1>o, <2>1, MovesOn DEF ClosesFirst
<1> QED
  BY <1>1, <1>2, <1>3, <1>4, <1>5, <1>6, <1>7, <1>8 DEF ProcStep, Session

\* Every step of the system.
LEMMA TickForward ==
  ASSUME TypeOK, TypeOK', ClosesFirst, [Next]_vars, NEW q \in Procs
  PROVE  /\ TickToCome(q)' <= TickToCome(q)
         /\ ProcStep(q) => TickToCome(q)' < TickToCome(q)
         /\ ClosesFirst'
<1>n. TickToCome(q) \in Nat /\ TickToCome(q)' \in Nat
  BY ToComeBounds, ToComeNext
<1>1. ASSUME NEW p \in Procs, ProcStep(p)
      PROVE  TickToCome(p)' < TickToCome(p) /\ ClosesFirst'
  <2>1. CASE RequestOrder(p) \/ RecordIntent(p) \/ SendOrder(p) \/ RecordOutcome(p) \/ ReadFill(p)
    <3>1. UNCHANGED <<pc, role>>
      BY <2>1 DEF RequestOrder, RecordIntent, SendOrder, RecordOutcome, ReadFill, procVars
    <3> QED
      BY <2>1, <3>1, SessionForward DEF ClosesFirst
  <2> QED
    BY <1>1, <2>1, PlacesForward
<1>2. ProcStep(q) => TickToCome(q)' < TickToCome(q)
  BY <1>1
<1>3. CASE \E p \in Procs : ProcStep(p)
  <2>1. PICK p \in Procs : ProcStep(p)
    BY <1>3
  <2>2. CASE p = q
    BY <1>n, <1>1, <2>1, <2>2
  <2>3. CASE p # q
    <3>1. OrdersGrow /\ pc'[q] = pc[q] /\ role'[q] = role[q] /\ slot'[q] = slot[q] /\ flight'[q] = flight[q]
      BY <2>1, <2>3, OrdersStepGrow, OthersStay
    <3> QED
      BY <1>1, <1>2, <2>1, <3>1, OthersGrow
  <2> QED
    BY <2>2, <2>3
<1>4. CASE \E p \in Procs : Fire(p) \/ SkipTick(p) \/ Crash(p)
  <2>1. PICK p \in Procs : Fire(p) \/ SkipTick(p) \/ Crash(p)
    BY <1>4
  <2>2. OrdersGrow
    BY <2>1 DEF Fire, SkipTick, Crash, ledgerVars, OrdersGrow
  <2>3. /\ pc[p] # "done"
        /\ \/ pc'[p] = "done"
           \/ pc[p] = "idle" /\ pc'[p] = "tick" /\ role'[p] = role[p]
    BY <2>1 DEF Fire, SkipTick, Crash, Running, Gone, Goto, TypeOK
  <2>4. PlaceRank["tick"] < PlaceRank["idle"]
    BY DEF PlaceRank
  <2>5. TickToCome(p)' < TickToCome(p)
    BY <2>3, <2>4, MovesOn
  <2>6. CASE p = q
    BY <1>n, <2>5, <2>6, <1>2, <2>1, <2>3, OthersStay DEF ClosesFirst
  <2>7. CASE p # q
    <3>1. pc'[q] = pc[q] /\ role'[q] = role[q] /\ slot'[q] = slot[q] /\ flight'[q] = flight[q]
      BY <2>1, <2>7, OthersStay
    <3> QED
      BY <1>2, <2>1, <2>2, <2>3, <3>1, OthersGrow, OthersStay DEF ClosesFirst
  <2> QED
    BY <2>6, <2>7
<1>5. CASE UNCHANGED <<pc, role, slot, flight, order>>
  <2>1. OrdersGrow
    BY <1>5 DEF OrdersGrow
  <2> QED
    BY <1>2, <1>5, <2>1, OthersGrow DEF ClosesFirst
<1> QED
  BY <1>3, <1>4, <1>5 DEF Next, Tick, LoseConnection, DropLock, vars, procVars, ledgerVars

\* The core of LockFreed: each step of a fire uses up some of a finite store, and nothing
\* (another fire, a lost connection, a crash, the clock) ever gives any back: a fire takes at
\* most 47 steps before it is done, and a slot never sends it round again.
THEOREM TickRunsDown ==
  Spec => [][\A p \in Procs :
               /\ TickToCome(p) \in 0 .. 47 /\ TickToCome(p)' <= TickToCome(p)
               /\ ProcStep(p) => TickToCome(p)' < TickToCome(p)]_vars
<1>1. Init => ClosesFirst
  BY DEF Init, ClosesFirst
<1>2. TypeOK /\ TypeOK' /\ ClosesFirst /\ [Next]_vars => ClosesFirst'
  <2>1. ASSUME TypeOK, TypeOK', ClosesFirst, [Next]_vars PROVE ClosesFirst'
    <3>1. CASE \E p \in Procs : TRUE
      BY <2>1, <3>1, TickForward
    <3> QED
      BY <3>1 DEF ClosesFirst
  <2> QED
    BY <2>1
<1>3. TypeOK /\ TypeOK' /\ ClosesFirst /\ [Next]_vars =>
        [\A p \in Procs :
           /\ TickToCome(p) \in 0 .. 47 /\ TickToCome(p)' <= TickToCome(p)
           /\ ProcStep(p) => TickToCome(p)' < TickToCome(p)]_vars
  <2>1. ASSUME TypeOK, NEW p \in Procs PROVE TickToCome(p) \in 0 .. 47
    <3>1. /\ AgentToCome(p) \in {0, 24} /\ PlaceRank[pc[p]] \in 0 .. 23 /\ SessionToCome(p) \in 0 .. 9
          /\ pc[p] = "session" => PlaceRank[pc[p]] = 7
          /\ pc[p] # "session" => SessionToCome(p) = 0
      BY <2>1, ToComeBounds DEF PlaceRank, SessionToCome
    <3> QED
      BY <3>1 DEF TickToCome
  <2> QED
    BY <2>1, TickForward
<1> QED
  BY <1>1, <1>2, <1>3, TypeCorrect, PTL DEF Spec
=============================================================================
