--------------------------- MODULE OfflineAlerts ---------------------------
(***************************************************************************)
(* The deadlines of offline alerts: one rule "the device has not reported  *)
(* for Duration" of one device.  The alerts consumer moves the deadline in *)
(* a Redis index with every report and then stores the report as input of  *)
(* the evaluation; refreshes rebuild the index from the database after a   *)
(* change of the catalogue; every worker claims deadlines that have passed *)
(* and evaluates the rule for them.  The steps of a refresh, of a report   *)
(* and of an evaluation interleave; those of two refreshes do not, for an  *)
(* advisory lock.  All clocks show the same time.                          *)
(***************************************************************************)
EXTENDS Integers

CONSTANTS
  Evaluator,      \* workers that evaluate passed deadlines
  Duration,       \* how long the device may be silent
  MaxTime,        \* bound on the clock
  MaxRefreshes,   \* bound on refreshes that no change of the rule asks for
  MaxEvalFaults   \* bound on workers that fail in an evaluation

ASSUME OfflineConstants ==
  /\ Duration \in Nat \ {0} /\ MaxTime \in Nat
  /\ MaxRefreshes \in Nat /\ MaxEvalFaults \in Nat

VARIABLES
  time,
  task,        \* how far the alerts consumer is with the report of a time
  lastReport,  \* last_report_at_ms of the runtime hash
  inputAt,     \* observed_at_ms of alert_input_state
  offlineRule, \* the rule in the database
  watched,     \* the rule is in the metadata in Redis
  index,       \* the deadline in the index
  refresh,     \* the refresh under way
  wanted,      \* a change of the rule has asked for a refresh
  refreshes,
  evaluator,   \* what a worker does with the deadline it has claimed
  raised,      \* the rule has an open record
  lost,        \* why nobody may watch the device
  efaults

offlineVars == <<time, task, lastReport, inputAt, offlineRule, watched, index,
  refresh, wanted, refreshes, evaluator, raised, lost, efaults>>

Moment == 0 .. MaxTime
Nothing == -1        \* no report, no deadline
Later(a, b) == IF a > b THEN a ELSE b

NoRefresh == [stage |-> "idle", rule |-> FALSE, at |-> Nothing]

\* The rule does not exist yet; the device may have reported long ago.
InitOffline ==
  /\ time = 0
  /\ task = [r \in Moment |-> "none"]
  /\ lastReport = Nothing /\ inputAt = Nothing
  /\ offlineRule = FALSE /\ watched = FALSE /\ index = Nothing
  /\ refresh = NoRefresh /\ wanted = FALSE /\ refreshes = 0
  /\ evaluator = [e \in Evaluator |-> "idle"]
  /\ raised = FALSE /\ lost = {} /\ efaults = 0

Pass ==
  /\ time < MaxTime /\ time' = time + 1
  /\ UNCHANGED <<task, lastReport, inputAt, offlineRule, watched, index, refresh,
       wanted, refreshes, evaluator, raised, lost, efaults>>

----------------------------------------------------------------------------
(* Reports                                                                 *)

ReportNow ==
  /\ task[time] = "none" /\ task' = [task EXCEPT ![time] = "sent"]
  /\ UNCHANGED <<time, lastReport, inputAt, offlineRule, watched, index, refresh,
       wanted, refreshes, evaluator, raised, lost, efaults>>

\* The consumer of latest values has got the report; it is ahead of the alerts
\* consumer or behind it.
StoreLatest(r) ==
  /\ task[r] # "none" /\ lastReport < r /\ lastReport' = r
  /\ UNCHANGED <<time, task, inputAt, offlineRule, watched, index, refresh,
       wanted, refreshes, evaluator, raised, lost, efaults>>

\* activity: whether there are offline rules at all is read before the script.
ReadActivity(r) ==
  /\ task[r] = "sent"
  /\ task' = [task EXCEPT ![r] = IF watched THEN "schedule" ELSE "prepare"]
  /\ UNCHANGED <<time, lastReport, inputAt, offlineRule, watched, index, refresh,
       wanted, refreshes, evaluator, raised, lost, efaults>>

BugOverwrites(r) == r + Duration

\* schedule: a deadline is only ever moved to a later time.
Scheduled(r) == IF index = Nothing THEN r + Duration ELSE Later(index, r + Duration)

Schedule(r) ==
  /\ task[r] = "schedule" /\ task' = [task EXCEPT ![r] = "prepare"]
  /\ index' = IF watched THEN Scheduled(r) ELSE index
  /\ UNCHANGED <<time, lastReport, inputAt, offlineRule, watched, refresh,
       wanted, refreshes, evaluator, raised, lost, efaults>>

BugNotAtDeadline(at) == at = Nothing \/ at + Duration < time

\* The clock of the database is ahead of the claim by a fraction of a millisecond.
Offline(at) == at = Nothing \/ at + Duration <= time

\* prepareAlert, then the evaluation of the report, which resolves the record
\* unless the report is old.
PrepareInput(r) ==
  /\ task[r] = "prepare" /\ task' = [task EXCEPT ![r] = "evaluate"]
  /\ inputAt' = Later(inputAt, r)
  /\ UNCHANGED <<time, lastReport, offlineRule, watched, index, refresh,
       wanted, refreshes, evaluator, raised, lost, efaults>>

EvaluateReport(r) ==
  /\ task[r] = "evaluate" /\ task' = [task EXCEPT ![r] = "done"]
  /\ raised' = IF offlineRule THEN Offline(r) ELSE raised
  /\ UNCHANGED <<time, lastReport, inputAt, offlineRule, watched, index, refresh,
       wanted, refreshes, evaluator, lost, efaults>>

----------------------------------------------------------------------------
(* The rule and the refresh                                                *)

\* createRule and removeRule, which end with a call of the refresh.
ChangeRule ==
  /\ ~wanted /\ wanted' = TRUE
  /\ offlineRule' = ~offlineRule
  /\ raised' = FALSE
  /\ offlineRule => refreshes < MaxRefreshes
  /\ refreshes' = refreshes + (IF offlineRule THEN 1 ELSE 0)
  /\ UNCHANGED <<time, task, lastReport, inputAt, watched, index, refresh,
       evaluator, lost, efaults>>

\* A refresh reads the rules and their inputs under the lock, ...
BeginRefresh ==
  /\ refresh = NoRefresh
  /\ wanted \/ refreshes < MaxRefreshes
  /\ wanted' = FALSE
  /\ refreshes' = IF wanted THEN refreshes ELSE refreshes + 1
  /\ refresh' = [stage |-> "write", rule |-> offlineRule,
                 at |-> IF inputAt = Nothing THEN time ELSE inputAt + Duration]
  /\ UNCHANGED <<time, task, lastReport, inputAt, offlineRule, watched, index,
       evaluator, raised, lost, efaults>>

\* ... and replaces the metadata in one script, which looks at the last report
\* in Redis too: the database may not have it yet.
Rebuilt(at) == IF lastReport = Nothing THEN at ELSE Later(at, lastReport + Duration)

\* A report whose deadline was in the index, or that found the rule unwatched,
\* may be in neither.
FinishRefresh ==
  /\ refresh.stage = "write" /\ refresh' = NoRefresh
  /\ watched' = refresh.rule
  /\ index' = IF refresh.rule THEN Rebuilt(refresh.at) ELSE Nothing
  /\ lost' = IF \E r \in Moment :
                  /\ task[r] \in {"prepare", "evaluate", "done"}
                  /\ r + Duration > Rebuilt(refresh.at)
             THEN lost \cup {"refresh"} ELSE lost
  /\ UNCHANGED <<time, task, lastReport, inputAt, offlineRule, wanted, refreshes,
       evaluator, raised, efaults>>

----------------------------------------------------------------------------
(* Passed deadlines, evaluateOfflineDue                                    *)

\* The claim removes the deadline: one worker evaluates it.
Claim(e) ==
  /\ evaluator[e] = "idle"
  /\ index # Nothing /\ index <= time
  /\ index' = Nothing
  /\ evaluator' = [evaluator EXCEPT ![e] = "evaluate"]
  /\ UNCHANGED <<time, task, lastReport, inputAt, offlineRule, watched, refresh,
       wanted, refreshes, raised, lost, efaults>>

EvaluateDeadline(e) ==
  /\ evaluator[e] = "evaluate"
  /\ evaluator' = [evaluator EXCEPT ![e] = "remove"]
  /\ raised' = IF offlineRule THEN Offline(inputAt) ELSE raised
  /\ UNCHANGED <<time, task, lastReport, inputAt, offlineRule, watched, index,
       refresh, wanted, refreshes, lost, efaults>>

\* removeOfflineDeadlines removes it again, and with it the one of a report
\* that came since the claim.
RemoveDeadline(e) ==
  /\ evaluator[e] = "remove"
  /\ evaluator' = [evaluator EXCEPT ![e] = "idle"]
  /\ index' = Nothing
  /\ lost' = IF index = Nothing THEN lost ELSE lost \cup {"removal"}
  /\ UNCHANGED <<time, task, lastReport, inputAt, offlineRule, watched, refresh,
       wanted, refreshes, raised, efaults>>

\* A worker dies or its database does not answer; the claim is not repeated.
FailEvaluation(e) ==
  /\ evaluator[e] # "idle" /\ efaults < MaxEvalFaults
  /\ efaults' = efaults + 1
  /\ evaluator' = [evaluator EXCEPT ![e] = "idle"]
  /\ lost' = lost \cup {"failure"}
  /\ UNCHANGED <<time, task, lastReport, inputAt, offlineRule, watched, index,
       refresh, wanted, refreshes, raised>>

----------------------------------------------------------------------------
ReportStep(r) ==
  StoreLatest(r) \/ ReadActivity(r) \/ Schedule(r) \/ PrepareInput(r) \/ EvaluateReport(r)
DeadlineStep(e) == Claim(e) \/ EvaluateDeadline(e) \/ RemoveDeadline(e)

NextOffline ==
  \/ Pass \/ ReportNow \/ ChangeRule \/ BeginRefresh \/ FinishRefresh
  \/ \E r \in Moment : ReportStep(r)
  \/ \E e \in Evaluator : DeadlineStep(e) \/ FailEvaluation(e)

\* Consumers and evaluators are loops of running workers; a call of the
\* refresh is answered; time passes.
FairOffline ==
  /\ WF_offlineVars(Pass)
  /\ WF_offlineVars(wanted /\ BeginRefresh) /\ WF_offlineVars(FinishRefresh)
  /\ \A r \in Moment : WF_offlineVars(ReportStep(r))
  /\ \A e \in Evaluator : WF_offlineVars(DeadlineStep(e))

SpecOffline == InitOffline /\ [][NextOffline]_offlineVars
FairSpecOffline == SpecOffline /\ FairOffline

----------------------------------------------------------------------------
(* Properties                                                              *)

OfflineTypeOK ==
  /\ time \in Moment
  /\ task \in [Moment -> {"none", "sent", "schedule", "prepare", "evaluate", "done"}]
  /\ lastReport \in Moment \cup {Nothing} /\ inputAt \in Moment \cup {Nothing}
  /\ offlineRule \in BOOLEAN /\ watched \in BOOLEAN /\ wanted \in BOOLEAN
  /\ index \in 0 .. (MaxTime + Duration) \cup {Nothing}
  /\ refresh.stage \in {"idle", "write"} /\ refreshes \in 0 .. MaxRefreshes
  /\ evaluator \in [Evaluator -> {"idle", "evaluate", "remove"}]
  /\ raised \in BOOLEAN /\ lost \subseteq {"refresh", "removal", "failure"}
  /\ efaults \in 0 .. MaxEvalFaults

\* When nothing is under way, a device with a rule has its deadline in the index
\* or an open record, and the deadline is not before the one of its last report
\* (a device without report is due at once); the three ways to lose a deadline
\* are named in lost.
Quiet ==
  /\ ~wanted /\ refresh = NoRefresh
  /\ \A e \in Evaluator : evaluator[e] = "idle"
  /\ \A r \in Moment : task[r] \in {"none", "done"}
RuleIsWatched ==
  Quiet /\ offlineRule /\ lost = {} =>
    \/ raised
    \/ index # Nothing /\ (inputAt = Nothing \/ index >= inputAt + Duration)

\* A silent device gets its alert in the end, unless a deadline was lost.
Silent == offlineRule /\ inputAt # Nothing /\ inputAt + Duration <= time /\ Quiet
SilentRaises == (Silent /\ lost = {}) ~> (raised \/ ~Silent)

\* What the tests expect of an offline rule: it fires after its deadline, when no
\* worker fails and no refresh comes between.
OfflineRuleFires == (Silent /\ lost \subseteq {"removal"}) ~> (raised \/ ~Silent)

\* The index holds a deadline for every rule that waits for one.
OfflineSafety == OfflineTypeOK /\ RuleIsWatched
=============================================================================
