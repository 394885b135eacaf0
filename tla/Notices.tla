------------------------------ MODULE Notices ------------------------------
(***************************************************************************)
(* What a tick records and says of its runs once their sessions are over   *)
(* (orchestrator/main.py): assembly, audit and final status in the ledger, *)
(* alerts on the way, then one heartbeat and one summary mail for both     *)
(* runs, which the provider may take without its answer arriving           *)
(* (integrations/notifications).  The process may die, lose its connection *)
(* or be signalled anywhere; a later fire of the slot recovers.            *)
(***************************************************************************)
EXTENDS Naturals, FiniteSets

CONSTANTS MaxFires,      \* fires of the one slot
          MaxAttempts    \* MAX_ATTEMPTS of a delivery

ASSUME NoticesAssumption == MaxFires \in Nat /\ MaxAttempts \in Nat \ {0}

Agents == {"close", "sell"}
GateStatuses == {"skipped_killed", "skipped_gate"}
Finals == GateStatuses \cup {"skipped_start", "completed", "failed", "timed_out", "stopped"}
Healthy == {"completed", "skipped_gate", "skipped_start"}

\* _Run: what the process remembers of a run.
Absent == [mode |-> "absent", verdict |-> "none", final |-> "none", started |-> FALSE,
           output |-> "none", record |-> 0, auditOk |-> TRUE, gated |-> FALSE,
           violated |-> FALSE, left |-> FALSE, broke |-> FALSE]
Made(mode) == [Absent EXCEPT !.mode = mode]

VARIABLES
  fire,         \* how often the slot was fired
  doing, turn,  \* where the process is, and in which run
  online,       \* its connection stands, as far as writes have shown
  row,          \* row[r]: the run's latest recorded status, "none" without a row
  mem,          \* mem[r]: _Run
  tickAlerts,   \* the tick's shared alerts
  audited,      \* audited[r]: the recorded audit status
  findings,     \* findings[r]: contexts whose findings are stored, and whether all of them are
  letters,      \* the messages the provider accepted, by idempotency key
  tries, result,\* the attempts to mail, and what came of them
  mailed,       \* mailed[r]: deliveries recorded with the run
  raised,       \* history: the alerts of the run at work
  shared,       \* history: how often this fire sent its shared alert
  beat,         \* history: this fire's heartbeat
  said          \* history: <<r, status>>, what heartbeat and mail told

ledgerVars == <<row, audited, findings, mailed>>
mailVars == <<letters, tries, result>>
alertVars == <<raised, shared>>
toldVars == <<beat, said>>
noticeVars == <<fire, doing, turn, online, mem, tickAlerts, mailVars, alertVars, toldVars, ledgerVars>>

NoticesBegin(open) ==
  /\ fire = IF open THEN 0 ELSE MaxFires
  /\ doing = "off" /\ turn = "close" /\ online = FALSE
  /\ row = [r \in Agents |-> "none"] /\ mem = [r \in Agents |-> Absent] /\ tickAlerts = {}
  /\ audited = [r \in Agents |-> "none"]
  /\ findings = [r \in Agents |-> {}] /\ letters = {} /\ tries = 0 /\ result = "none"
  /\ mailed = [r \in Agents |-> {}] /\ raised = {} /\ shared = 0 /\ beat = "none" /\ said = {}
NoticesInit == NoticesBegin(TRUE)

-----------------------------------------------------------------------------
\* _Run.alert: attempted, whatever becomes of its delivery.
Alerted(kinds) == raised' = raised \cup kinds

\* run_once with the lock: a new slot, or _refire of one that has its close run.
CronFires ==
  LET open == {r \in Agents : row[r] = "running"}
      r == IF "close" \in open THEN "close" ELSE "sell" IN
  /\ doing = "off" /\ fire < MaxFires /\ fire' = fire + 1 /\ online' = TRUE
  /\ \/ row["close"] = "none" /\ doing' = "begin" /\ UNCHANGED <<turn, mem>>
     \/ /\ row["close"] # "none" /\ open # {}
        /\ doing' = "assemble" /\ turn' = r /\ mem' = [mem EXCEPT ![r] = Made("recover")]
     \/ row["close"] # "none" /\ open = {} /\ doing' = "over" /\ UNCHANGED <<turn, mem>>
  /\ UNCHANGED <<tickAlerts, mailVars, alertVars, toldVars, ledgerVars>>

\* run_once without it, or without a ledger: a failing heartbeat and nothing else.
CannotStart ==
  /\ doing = "off" /\ fire < MaxFires /\ fire' = fire + 1
  /\ UNCHANGED <<doing, turn, online, mem, tickAlerts, mailVars, alertVars, toldVars, ledgerVars>>

\* open_run_slot and the first events of execute, which no handler surrounds.
Begin ==
  /\ doing = "begin"
  /\ \/ /\ online /\ row' = [row EXCEPT ![turn] = "running"] /\ doing' = "gate"
        /\ mem' = [mem EXCEPT ![turn] = Made("new")]
     \/ /\ doing' = "over" /\ UNCHANGED mem
        /\ row' \in {row, IF online THEN [row EXCEPT ![turn] = "running"] ELSE row}
  /\ UNCHANGED <<fire, turn, online, tickAlerts, audited, findings, mailVars, mailed,
                 alertVars, toldVars>>

\* The run goes to finalize with this status.
Verdict(r, m, s) == mem' = [mem EXCEPT ![r] = [m EXCEPT !.verdict = s]] /\ doing' = "final"

\* _execute up to the session.
Gate ==
  LET m == mem[turn] IN
  /\ doing = "gate"
  /\ \/ Verdict(turn, m, "skipped_gate") /\ UNCHANGED raised
     \/ Verdict(turn, m, "skipped_killed") /\ Alerted(IF turn = "close" THEN {"kill_switch"} ELSE {})
     \/ /\ Verdict(turn, [m EXCEPT !.gated = TRUE], "timed_out")
        /\ Alerted({"run_timeout"})
     \/ doing' = "agent" /\ mem' = [mem EXCEPT ![turn].gated = TRUE] /\ UNCHANGED raised
  /\ UNCHANGED <<shared, fire, turn, online, tickAlerts, mailVars, toldVars, ledgerVars>>

\* Mutant of TickKinds: every run sends the tick's alerts.
TickKindsEach(needsAuth) == IF needsAuth THEN {"needs_auth"} ELSE {}

\* tick_alert: by the first run that meets the cause only.
TickKinds(needsAuth) == (IF needsAuth THEN {"needs_auth"} ELSE {}) \ tickAlerts

\* The alerts both runs share, and this run's own.
SharedAlerted(kinds, own) ==
  /\ Alerted(kinds \cup own)
  /\ tickAlerts' = tickAlerts \cup kinds /\ shared' = shared + Cardinality(kinds)

\* _agent_run up to the session: credential and plan are recorded, then a tick that may not use
\* Robinhood is told of, and has no session.
AgentRun ==
  /\ doing = "agent"
  /\ \E auth \in BOOLEAN :
       /\ SharedAlerted(TickKinds(auth), {})
       /\ doing' = IF auth THEN "closing" ELSE "session"
  /\ UNCHANGED <<fire, turn, online, mem, mailVars, toldVars, ledgerVars>>

\* _session and the first lines of _finish: it did not start, was skipped, failed or ran; orders may
\* be left working, and the output may be missing or invalid.
SessionRuns ==
  LET m == mem[turn] IN
  /\ doing = "session"
  /\ \E s \in {"not_started", "skipped", "failed", "ran"}, left, parsed \in BOOLEAN :
       LET started == s \in {"failed", "ran"}
           after == [m EXCEPT !.started = started, !.left = left,
                              !.output = IF started /\ parsed THEN "parsed" ELSE "none",
                              !.verdict = IF s = "failed" THEN "failed" ELSE "none"]
       IN  /\ left => started
           /\ IF s = "skipped" THEN Verdict(turn, m, "skipped_start")
              ELSE doing' = "closing" /\ mem' = [mem EXCEPT ![turn] = after]
  /\ UNCHANGED <<fire, turn, online, tickAlerts, mailVars, alertVars, toldVars, ledgerVars>>

\* _finish once the session's events are recorded (each of these writes may raise): the alerts.
Closing ==
  /\ doing = "closing" /\ doing' = "assemble"
  /\ \E auth \in BOOLEAN :
       SharedAlerted(TickKinds(auth), IF mem[turn].left THEN {"orders_left"} ELSE {})
  /\ UNCHANGED <<fire, turn, online, mem, mailVars, toldVars, ledgerVars>>

\* _assemble: a record that cannot be built or stored is none, and the audit still runs.
Assemble ==
  /\ doing = "assemble" /\ doing' = "audit"
  /\ \/ online /\ mem' = [mem EXCEPT ![turn].record = fire]
     \/ UNCHANGED mem
  /\ UNCHANGED <<fire, turn, online, row, tickAlerts, audited, findings, mailVars, mailed,
                 alertVars, toldVars>>

\* context_hash: a record is of its time, and two audits of a run without one see the same.
Context(r) == mem[r].record

\* insert_audit_finding of every finding, whose id is the context's hash and a number: one that is
\* there already is refused, and one may be refused in the middle.
Stores(r, whole) ==
  /\ whole => /\ online /\ \A f \in findings[r] : f.context # Context(r)
  /\ findings' = [findings EXCEPT ![r] = @ \cup
                    IF whole \/ (online /\ \A f \in @ : f.context # Context(r))
                    THEN {[context |-> Context(r), whole |-> whole]} ELSE {}]

\* Mutant of AuditStatus: what was found is not lost when storing it fails.
AuditStatusLoaded(o, whole) == IF o = "broken" \/ o = "error" THEN "failed" ELSE "completed"

\* The audit's status: failed when it could not run, a check raised or its findings are not stored.
AuditStatus(o, whole) == IF o \in {"broken", "error"} \/ ~whole THEN "failed" ELSE "completed"

\* Mutant of AuditKinds: violations are reported only of runs that keep their orders.
AuditKindsQuiet(r, o, status) ==
  IF status = "failed" THEN {"audit_failure"}
  ELSE IF o = "violation" /\ mem[r].left THEN {"audit_violation"} ELSE {}

AuditKinds(r, o, status) ==
  IF status = "failed" THEN {"audit_failure"}
  ELSE IF o = "violation" THEN {"audit_violation"} ELSE {}

\* _audit: findings, then the status event (the first one recorded stands; the write may raise, and
\* may have been made although its reply is lost), then alerts.  recover() has no handler.
Audit ==
  /\ doing = "audit"
  /\ \E o \in {"clean", "violation", "error", "broken"}, whole \in BOOLEAN :
       LET status == AuditStatus(o, whole)
           recovers == mem[turn].mode = "recover"
           recorded == [audited EXCEPT ![turn] = IF @ = "none" THEN status ELSE @] IN
       /\ o = "broken" => ~whole
       /\ IF o = "broken" THEN UNCHANGED findings ELSE Stores(turn, whole)
       /\ mem' = [mem EXCEPT ![turn].auditOk = status = "completed",
                             ![turn].violated = o = "violation" /\ status = "completed",
                             ![turn].verdict = IF recovers THEN "failed" ELSE @]
       /\ \/ /\ online /\ UNCHANGED online /\ audited' = recorded
             /\ Alerted(AuditKinds(turn, o, status))
             /\ doing' = IF recovers THEN "final" ELSE "status"
          \/ /\ \/ UNCHANGED <<audited, online>>
                \/ online /\ online' = FALSE /\ audited' = recorded
             /\ doing' = IF recovers THEN "over" ELSE "except"
             /\ UNCHANGED raised
  /\ UNCHANGED <<shared, fire, turn, row, mailed, tickAlerts, mailVars, toldVars>>

\* _status before the audit's say; stop: the latch, which may have fallen at any time.
SessionStatus(m, stop) ==
  IF stop = "deadline" THEN "timed_out"
  ELSE IF stop = "signal" THEN "stopped"
  ELSE IF stop = "infrastructure" \/ ~m.started \/ m.verdict = "failed" \/ m.output # "parsed"
       THEN "failed" ELSE "completed"

\* Mutant of FinalStatus: the audit is advisory.
FinalStatusAnyway(m, stop) == SessionStatus(m, stop)

\* The end of _finish.
FinalStatus(m, stop) ==
  IF SessionStatus(m, stop) = "completed" /\ ~m.auditOk THEN "failed" ELSE SessionStatus(m, stop)

Status ==
  LET m == mem[turn] IN
  /\ doing = "status"
  /\ \E stop \in {"none", "deadline", "signal", "infrastructure"} :
       /\ Verdict(turn, m, FinalStatus(m, stop))
       /\ Alerted((IF stop = "deadline" THEN {"run_timeout"} ELSE {})
                  \cup IF stop = "none" /\ m.started /\ m.verdict # "failed" /\ m.output # "parsed"
                       THEN {"invalid_output"} ELSE {})
  /\ UNCHANGED <<fire, turn, online, shared, tickAlerts, mailVars, toldVars, ledgerVars>>

\* An exception anywhere in _execute (the assembly and the audit handle most of theirs); execute's
\* handler finalizes the run as failed, and tells nobody of what was found.
Raises ==
  /\ \/ doing \in {"gate", "agent", "session", "closing", "status"}
     \/ doing = "assemble" /\ mem[turn].mode = "new"
  /\ doing' = "except"
  /\ UNCHANGED <<fire, turn, online, mem, tickAlerts, mailVars, alertVars, toldVars, ledgerVars>>

Handle ==
  /\ doing = "except" /\ Verdict(turn, [mem[turn] EXCEPT !.broke = TRUE], "failed")
  /\ UNCHANGED <<fire, turn, online, tickAlerts, mailVars, alertVars, toldVars, ledgerVars>>

\* Where the tick goes after a final run.
AfterFinal(r) ==
  IF mem[r].mode = "recover"
  THEN IF r = "close" /\ row["sell"] = "running" THEN "assemble" ELSE "beat"
  ELSE IF r = "close" /\ mem[r].verdict \notin GateStatuses /\ mem[r].gated THEN "begin" ELSE "beat"

\* finalize: the status event, which may be written although the reply is lost; a failure in
\* _execute is handled by a second attempt, any other ends the process.
Finalize ==
  LET m == mem[turn]
      next == AfterFinal(turn) IN
  /\ doing = "final"
  /\ \/ /\ online /\ row' = [row EXCEPT ![turn] = m.verdict] /\ UNCHANGED online
        /\ doing' = next /\ turn' = IF next = "beat" THEN turn ELSE "sell"
        /\ raised' = {}
        /\ mem' = [r \in Agents |-> IF r = turn THEN [Made(m.mode) EXCEPT !.final = m.verdict,
                                                                           !.started = m.started]
                                    ELSE IF next = "assemble" THEN Made("recover") ELSE mem[r]]
     \/ /\ \/ online /\ online' = FALSE /\ row' = [row EXCEPT ![turn] = m.verdict]
           \/ UNCHANGED <<row, online>>
        /\ doing' = IF m.broke \/ m.mode = "recover" THEN "over" ELSE "except"
        /\ UNCHANGED <<turn, mem, raised>>
  /\ UNCHANGED <<fire, tickAlerts, audited, findings, mailed, mailVars, shared, toldVars>>

Finished == {r \in Agents : mem[r].final # "none"}

\* Mutant of BeatHealthy: the last run speaks for the tick.
BeatHealthyLast == mem[turn].final \in Healthy

\* The heartbeat's status: the first failing run leads.
BeatHealthy == \A r \in Finished : mem[r].final \in Healthy

\* _finish_tick: one heartbeat; a mail only if a session started in this process.
Heartbeat ==
  /\ doing = "beat"
  /\ beat' = IF beat # "none" THEN "second" ELSE IF BeatHealthy THEN "healthy" ELSE "failing"
  /\ said' = said \cup {<<r, mem[r].final>> : r \in Finished}
  /\ doing' = IF \E r \in Finished : mem[r].started THEN "mail" ELSE "over"
  /\ UNCHANGED <<fire, turn, online, mem, tickAlerts, mailVars, alertVars, ledgerVars>>

\* Mutant of IdempotencyKey: every attempt is a request of its own.
IdempotencyKeyOfTry == tries

\* idempotency_key_for: the slot's.
IdempotencyKey == 0

\* send_resend, one attempt: the request may be taken while its answer is lost or unreadable; a
\* wait that is asked for may be too long.
TryMail ==
  /\ doing = "mail" /\ result = "none" /\ tries < MaxAttempts /\ tries' = tries + 1
  /\ \E taken \in BOOLEAN, answer \in {"ok", "unreadable", "retry", "refused"} :
       /\ answer \in {"ok", "unreadable"} => taken
       /\ answer = "refused" => ~taken
       /\ letters' = IF taken THEN letters \cup {IdempotencyKey} ELSE letters
       /\ result' \in IF answer = "ok" THEN {"sent"}
                      ELSE IF answer = "retry" /\ tries' < MaxAttempts THEN {"none", "failed"}
                      ELSE {"failed"}
  /\ UNCHANGED <<fire, doing, turn, online, mem, tickAlerts, alertVars, toldVars, ledgerVars>>

\* The mail cannot be composed, or is not sent at all (no mailer, or an exception).
NoMail ==
  /\ doing = "mail" /\ tries = 0 /\ result = "none" /\ result' \in {"failed", "skipped"}
  /\ UNCHANGED <<fire, doing, turn, online, mem, tickAlerts, letters, tries, alertVars, toldVars,
                 ledgerVars>>

\* record_summary_email with every run that started; a row that cannot be written is left out.
RecordMail ==
  /\ doing = "mail" /\ result # "none" /\ doing' = "over"
  /\ \E rs \in SUBSET {r \in Agents : mem[r].started} :
       /\ rs # {} => online /\ result # "skipped"
       /\ mailed' = [r \in Agents |-> mailed[r] \cup IF r \in rs THEN {result} ELSE {}]
  /\ UNCHANGED <<fire, turn, online, mem, tickAlerts, row, audited, findings, mailVars,
                 alertVars, toldVars>>

\* The process ends (main's last handler sends nothing), or dies where it is: its memory is gone.
ProcessEnds ==
  /\ doing # "off" /\ doing' = "off" /\ online' = FALSE
  /\ turn' = "close" /\ mem' = [r \in Agents |-> Absent] /\ tickAlerts' = {}
  /\ tries' = 0 /\ result' = "none" /\ raised' = {} /\ shared' = 0 /\ beat' = "none"
  /\ UNCHANGED <<fire, letters, said, ledgerVars>>

NoticesNext ==
  \/ CronFires \/ CannotStart \/ Begin \/ Gate \/ AgentRun \/ SessionRuns \/ Closing
  \/ Assemble \/ Audit \/ Status \/ Raises \/ Handle \/ Finalize \/ Heartbeat \/ TryMail \/ NoMail \/ RecordMail
  \/ ProcessEnds

-----------------------------------------------------------------------------
(* Properties.                                                             *)

NoticesTypeOK ==
  /\ fire \in 0..MaxFires /\ tries \in 0..MaxAttempts /\ turn \in Agents
  /\ result \in {"none", "sent", "failed", "skipped"}
  /\ \A r \in Agents :
       /\ row[r] \in Finals \cup {"none", "running"} /\ audited[r] \in {"none", "completed", "failed"}
       /\ mem[r].final \in Finals \cup {"none"} /\ mailed[r] \subseteq {"sent", "failed"}

\* The owner gets one mail of a slot at most, however often it is tried and the slot fired, and
\* "sent" is recorded only of one the provider took.
MailedOnce ==
  /\ Cardinality(letters) <= 1
  /\ \A r \in Agents : "sent" \in mailed[r] => letters # {}

\* What heartbeat and mail say of a run is what the ledger keeps of it for good; a fire sends at
\* most one heartbeat, and a healthy one only if all runs it told of were.
SaidTrue ==
  /\ \A p \in said : row[p[1]] = p[2]
  /\ beat # "second"
  /\ beat = "healthy" => \A r \in Agents : row[r] \in Healthy \cup {"none"}

\* A run is completed only with an audit that ran and whose findings are all stored.
CompletedAudited ==
  \A r \in Agents : row[r] = "completed" =>
    audited[r] = "completed" /\ \E f \in findings[r] : f.whole

\* Somebody was told of what the process found in a run: an audit that failed or found violations,
\* orders left working, the budget used up.
Heard(m, kinds) ==
  /\ m.auditOk \/ "audit_failure" \in kinds
  /\ m.violated => "audit_violation" \in kinds
  /\ m.left => "orders_left" \in kinds
  /\ m.verdict = "timed_out" => "run_timeout" \in kinds

\* Before a run is final somebody was told of what was found in it, unless an exception came before
\* the alert: then it is final as failed, never under a healthy status.  What both runs share is
\* told once.
AlertsSent ==
  /\ shared <= 1
  /\ doing = "final" => \/ Heard(mem[turn], raised)
                        \/ mem[turn].broke /\ mem[turn].verdict = "failed"

NoticesSound == MailedOnce /\ SaidTrue /\ CompletedAudited /\ AlertsSent
=============================================================================
