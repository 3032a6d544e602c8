---------------------------- MODULE AlertRecords ----------------------------
(***************************************************************************)
(* One alert rule of one device: its evaluation for reports and for passed *)
(* offline deadlines, the records it opens and resolves, and the events    *)
(* that tell of them.  Any worker may evaluate any report, two of them at  *)
(* the same time, and a report whose worker failed is evaluated again.     *)
(*                                                                         *)
(* An evaluation is applied by one SQL statement, which sees the database  *)
(* as it was when the statement began: other statements commit between     *)
(* BeginCommit and Commit.  Events are rows of an outbox of that database  *)
(* until a worker has published them.                                      *)
(***************************************************************************)
EXTENDS Integers, Sequences, FiniteSets

CONSTANTS
  Reports,        \* how many reports the device sends; a report is its place
                  \* in the order of observation
  High,           \* the reports for which the conditions of the rule match
  AlertWorker,    \* service workers
  Silence,        \* no second record within this time
  Calm,           \* how long the conditions must not match before a record is resolved
  MaxClock,       \* bound on the clock of the database
  MaxOffline,     \* bound on evaluations of passed deadlines
  MaxAlertFaults  \* bound on failures and slow workers

Message == 1 .. Reports

ASSUME AlertConstants ==
  /\ Reports \in Nat /\ High \subseteq Message
  /\ Silence \in Nat /\ Calm \in Nat
  /\ MaxClock \in Nat /\ MaxOffline \in Nat /\ MaxAlertFaults \in Nat

VARIABLES
  clock,
  rule,        \* whether the rule is live
  listed,      \* the device is in the set of devices with rules in Redis
  input,       \* alert_input_state: the newest report and the one before it
  calmSince,   \* alert_rule_state.recovery_started_at
  records,     \* open_alert_record rows of the rule, in order of creation
  outbox,      \* alert_event_outbox rows
  published,   \* events in the stream of the webhooks
  receipts,    \* alert_evaluation_receipt
  unread,      \* reports in the alerts stream
  job,         \* what a worker does
  evaluations, \* how often the evaluation of a report was committed
  doubled,     \* reports two workers had at the same time
  offlines,    \* evaluations of passed deadlines
  stranded,    \* events were left in the outbox, and no report is to come back
  orphaned,    \* the rule was removed while an evaluation of it was under way
  afaults

alertVars == <<clock, rule, listed, input, calmSince, records, outbox, published,
  receipts, unread, job, evaluations, doubled, offlines, stranded, orphaned, afaults>>

Never == -1     \* no time
Deadline == 0   \* the message of an evaluation of a passed deadline

Clock == 0 .. MaxClock
Open == {"active", "acknowledged"}
Record == [status : Open \cup {"resolved"}, at : Clock]
WithStatus(row, s) == [status |-> s, at |-> row.at]

Event == [type : {"triggered", "resolved"}, record : Nat]
Triggered(r) == [type |-> "triggered", record |-> r]
Resolved(r) == [type |-> "resolved", record |-> r]

\* What a worker does with a report or a passed deadline.
Resting == [stage |-> "idle"]
Taking(m, active) == [stage |-> "prepare", msg |-> m, active |-> active]
Comparing(m, active, p) ==
  [stage |-> "evaluate", msg |-> m, active |-> active, prev |-> p]
Evaluated(m, matched) == [stage |-> "apply", msg |-> m, matched |-> matched]
Publishing(m, es, left) ==
  [stage |-> "publish", msg |-> m, events |-> es, left |-> left]
Deleting(m, es) == [stage |-> "delete", msg |-> m, events |-> es]
Draining(m) == [stage |-> "drain", msg |-> m]

InitAlerts ==
  /\ clock = 0 /\ rule = TRUE /\ listed = TRUE
  /\ input = [last |-> 0, prev |-> 0]
  /\ calmSince = Never /\ records = <<>>
  /\ outbox = {} /\ published = {} /\ receipts = {}
  /\ unread = Message
  /\ job = [w \in AlertWorker |-> Resting]
  /\ evaluations = [m \in Message |-> 0] /\ doubled = {}
  /\ offlines = 0 /\ stranded = FALSE /\ orphaned = FALSE /\ afaults = 0

TickClock ==
  /\ clock < MaxClock /\ clock' = clock + 1
  /\ UNCHANGED <<rule, listed, input, calmSince, records, outbox, published, receipts,
       unread, job, evaluations, doubled, offlines, stranded, orphaned, afaults>>

\* After the events of a report, the worker drains the outbox.
Afterwards(m) == IF m = Deadline THEN Resting ELSE Draining(m)

Doing(w, stage) == job[w].stage = stage
Goes(w, next) == job' = [job EXCEPT ![w] = next]

----------------------------------------------------------------------------
(* Evaluation                                                              *)

NewestInput(m) == m > input.last

\* A worker takes a report and looks whether its device has rules.  Another
\* worker has the same report only when it took too long with it.
Take(w, m) ==
  /\ Doing(w, "idle") /\ m \in unread
  /\ LET others == {v \in AlertWorker : ~Doing(v, "idle") /\ job[v].msg = m}
     IN IF others = {} THEN UNCHANGED <<doubled, afaults>>
        ELSE /\ afaults < MaxAlertFaults /\ afaults' = afaults + 1
             /\ doubled' = doubled \cup {m}
  /\ Goes(w, Taking(m, listed))
  /\ UNCHANGED <<clock, rule, listed, input, calmSince, records, outbox,
       published, receipts, unread, evaluations, offlines, stranded, orphaned>>

\* prepareAlert stores the report in alert_input_state; what it is compared
\* with is the one before it.
Prepare(w) ==
  /\ Doing(w, "prepare")
  /\ LET m == job[w].msg
     IN /\ input' = IF NewestInput(m) THEN [last |-> m, prev |-> input.last] ELSE input
        /\ Goes(w, Comparing(m, job[w].active, IF input'.last = m THEN input'.prev ELSE 0))
  /\ UNCHANGED <<clock, rule, listed, calmSince, records, outbox, published, receipts,
       unread, evaluations, doubled, offlines, stranded, orphaned, afaults>>

Unevaluated(m) == m \notin receipts

\* telemetryEvaluationQuery: the conditions, unless the rule has gone or the
\* report was evaluated before.
Evaluate(w) ==
  /\ Doing(w, "evaluate") /\ job[w].active
  /\ LET m == job[w].msg
     IN Goes(w, IF rule /\ Unevaluated(m) THEN Evaluated(m, m \in High)
                ELSE Draining(m))
  /\ UNCHANGED <<clock, rule, listed, input, calmSince, records, outbox, published,
       receipts, unread, evaluations, doubled, offlines, stranded, orphaned, afaults>>

\* A device without rules is not evaluated.  Unless another of the same reading
\* has rules, the report is acknowledged and the outbox stays as it is, with
\* what an earlier evaluation of this report has committed to it.
Skip(w) ==
  /\ Doing(w, "evaluate") /\ ~job[w].active
  /\ LET m == job[w].msg
     IN \/ Goes(w, Draining(m)) /\ UNCHANGED <<unread, stranded>>
        \/ /\ Goes(w, Resting) /\ unread' = unread \ {m}
           /\ stranded' = (stranded \/ (m \in receipts /\ outbox # {}))
  /\ UNCHANGED <<clock, rule, listed, input, calmSince, records, outbox, published,
       receipts, evaluations, doubled, offlines, orphaned, afaults>>

\* evaluateOfflineDue: whether the device is still silent is up to the reports.
EvaluateOffline(w) ==
  /\ Doing(w, "idle") /\ rule /\ offlines < MaxOffline
  /\ offlines' = offlines + 1
  /\ \E matched \in BOOLEAN : Goes(w, Evaluated(Deadline, matched))
  /\ UNCHANGED <<clock, rule, listed, input, calmSince, records, outbox, published,
       receipts, unread, evaluations, doubled, stranded, orphaned, afaults>>

\* The statement begins: this is what it will see, and its time.
BeginCommit(w) ==
  /\ Doing(w, "apply")
  /\ Goes(w, [stage |-> "commit", msg |-> job[w].msg, matched |-> job[w].matched,
              seen |-> records, queued |-> outbox, at |-> clock])
  /\ UNCHANGED <<clock, rule, listed, input, calmSince, records, outbox, published,
       receipts, unread, evaluations, doubled, offlines, stranded, orphaned, afaults>>

IsOpen(rs, r) == r \in DOMAIN rs /\ rs[r].status \in Open

BugSnapshotDecides(rs) == FALSE

\* The unique index refuses a second open record, whatever the snapshot says.
Unresolved(rs) == \E r \in DOMAIN rs : IsOpen(rs, r)

Creates(w) ==
  /\ job[w].matched
  /\ ~\E r \in DOMAIN job[w].seen : IsOpen(job[w].seen, r)
  /\ ~\E r \in DOMAIN job[w].seen : job[w].seen[r].at > job[w].at - Silence
  /\ ~Unresolved(records)

CalmSince(w) ==
  IF job[w].matched THEN Never
  ELSE IF calmSince = Never THEN job[w].at ELSE calmSince

\* The update looks again at rows that changed since the statement began.
Resolves(w, r) ==
  /\ ~job[w].matched
  /\ IsOpen(job[w].seen, r) /\ IsOpen(records, r)
  /\ CalmSince(w) <= job[w].at - Calm

BugDeliversOwn(w, new) == new

\* Events of this statement, and those of the rule it found in the outbox.
Deliverable(w, new) == job[w].queued \cup new

Receipted(w) == IF job[w].msg = Deadline THEN {} ELSE {job[w].msg}

Changed(w) ==
  IF Creates(w) THEN Append(records, [status |-> "active", at |-> job[w].at])
  ELSE [r \in DOMAIN records |->
          IF Resolves(w, r) THEN WithStatus(records[r], "resolved") ELSE records[r]]

NewEvents(w) ==
  {Triggered(r) : r \in IF Creates(w) THEN {Len(records) + 1} ELSE {}}
  \cup {Resolved(r) : r \in {s \in DOMAIN records : Resolves(w, s)}}

Commit(w) ==
  /\ Doing(w, "commit")
  /\ records' = Changed(w)
  /\ outbox' = outbox \cup NewEvents(w)
  /\ LET es == Deliverable(w, NewEvents(w))
     IN Goes(w, IF es = {} THEN Afterwards(job[w].msg)
                ELSE Publishing(job[w].msg, es, es))
  /\ calmSince' = CalmSince(w)
  /\ receipts' = receipts \cup Receipted(w)
  /\ evaluations' = IF job[w].msg = Deadline THEN evaluations
                    ELSE [evaluations EXCEPT ![job[w].msg] = @ + 1]
  /\ UNCHANGED <<clock, rule, listed, input, published, unread, doubled, offlines,
       stranded, orphaned, afaults>>

----------------------------------------------------------------------------
(* Events                                                                  *)

\* Events go out in the order of created_at, the beginning of the statement that
\* wrote them: an evaluation that resolves a record has seen it, and so began
\* later than the one that opened it.
Precedes(e, f) == e.record = f.record /\ e.type = "triggered" /\ f.type = "resolved"

\* One script of the pipeline; those of other workers may come between.
\* kPublishScript publishes an event once, however often it is asked to.
Publish(w) ==
  /\ Doing(w, "publish")
  /\ \E e \in job[w].left :
       /\ ~\E f \in job[w].left : Precedes(f, e)
       /\ published' = published \cup {e}
       /\ Goes(w, IF job[w].left = {e} THEN Deleting(job[w].msg, job[w].events)
                  ELSE Publishing(job[w].msg, job[w].events, job[w].left \ {e}))
  /\ UNCHANGED <<clock, rule, listed, input, calmSince, records, outbox, receipts,
       unread, evaluations, doubled, offlines, stranded, orphaned, afaults>>

BugDeletesNothing(w) == outbox

WithoutPublished(w) == outbox \ job[w].events

DeletePublished(w) ==
  /\ Doing(w, "delete")
  /\ Goes(w, Afterwards(job[w].msg))
  /\ outbox' = WithoutPublished(w)
  /\ UNCHANGED <<clock, rule, listed, input, calmSince, records, published, receipts,
       unread, evaluations, doubled, offlines, stranded, orphaned, afaults>>

\* drainOutbox ends when the outbox is empty; then the report is acknowledged.
Drain(w) ==
  /\ Doing(w, "drain")
  /\ IF outbox = {}
       THEN Goes(w, Resting) /\ unread' = unread \ {job[w].msg}
       ELSE Goes(w, Publishing(job[w].msg, outbox, outbox)) /\ UNCHANGED unread
  /\ UNCHANGED <<clock, rule, listed, input, calmSince, records, outbox, published,
       receipts, evaluations, doubled, offlines, stranded, orphaned, afaults>>

\* A worker dies or a call of it fails.  Its report is delivered again unless
\* another worker has acknowledged it; a passed deadline is not.
FailJob(w) ==
  /\ ~Doing(w, "idle") /\ afaults < MaxAlertFaults
  /\ afaults' = afaults + 1
  /\ Goes(w, Resting)
  /\ stranded' = (stranded \/ job[w].msg \notin unread)
  /\ UNCHANGED <<clock, rule, listed, input, calmSince, records, outbox, published,
       receipts, unread, evaluations, doubled, offlines, orphaned>>

----------------------------------------------------------------------------
(* Users                                                                   *)

Acknowledge(r) ==
  /\ r \in DOMAIN records /\ records[r].status = "active"
  /\ records' = [records EXCEPT ![r] = WithStatus(records[r], "acknowledged")]
  /\ UNCHANGED <<clock, rule, listed, input, calmSince, outbox, published, receipts,
       unread, job, evaluations, doubled, offlines, stranded, orphaned, afaults>>

Closed(rs) == [r \in DOMAIN rs |-> WithStatus(rs[r], "resolved")]

\* removeRule resolves the records of the rule; it tells of no event.
RemoveRule ==
  /\ rule /\ rule' = FALSE
  /\ records' = Closed(records)
  /\ orphaned' = \E w \in AlertWorker : job[w].stage \in {"apply", "commit"}
  /\ UNCHANGED <<clock, listed, input, calmSince, outbox, published, receipts, unread,
       job, evaluations, doubled, offlines, stranded, afaults>>

\* metadata::refresh, some time after a change of the rules.
RefreshList ==
  /\ listed # rule /\ listed' = rule
  /\ UNCHANGED <<clock, rule, input, calmSince, records, outbox, published, receipts,
       unread, job, evaluations, doubled, offlines, stranded, orphaned, afaults>>

----------------------------------------------------------------------------
Proceed(w) ==
  \/ Prepare(w) \/ Evaluate(w) \/ Skip(w) \/ BeginCommit(w) \/ Commit(w)
  \/ Publish(w) \/ DeletePublished(w) \/ Drain(w)

NextAlerts ==
  \/ TickClock \/ RemoveRule \/ RefreshList
  \/ \E r \in DOMAIN records : Acknowledge(r)
  \/ \E w \in AlertWorker :
       \/ \E m \in Message : Take(w, m)
       \/ Proceed(w) \/ EvaluateOffline(w) \/ FailJob(w)

FairAlerts ==
  \A w \in AlertWorker :
    WF_alertVars(Proceed(w)) /\ WF_alertVars(\E m \in Message : Take(w, m))

SpecAlerts == InitAlerts /\ [][NextAlerts]_alertVars
FairSpecAlerts == SpecAlerts /\ FairAlerts

----------------------------------------------------------------------------
(* Properties                                                              *)

Job ==
  LET Task == Message \cup {Deadline}
  IN [stage : {"idle"}]
     \cup [stage : {"prepare"}, msg : Message, active : BOOLEAN]
     \cup [stage : {"evaluate"}, msg : Message, active : BOOLEAN,
           prev : Message \cup {0}]
     \cup [stage : {"apply"}, msg : Task, matched : BOOLEAN]
     \cup [stage : {"commit"}, msg : Task, matched : BOOLEAN,
           seen : Seq(Record), queued : SUBSET Event, at : Clock]
     \cup [stage : {"publish"}, msg : Task, events : SUBSET Event,
           left : SUBSET Event]
     \cup [stage : {"delete"}, msg : Task, events : SUBSET Event]
     \cup [stage : {"drain"}, msg : Message]

AlertsTypeOK ==
  /\ clock \in Clock /\ rule \in BOOLEAN /\ listed \in BOOLEAN /\ calmSince \in Clock \cup {Never}
  /\ input \in [last : Message \cup {0}, prev : Message \cup {0}]
  /\ records \in Seq(Record) /\ job \in [AlertWorker -> Job]
  /\ outbox \subseteq Event /\ published \subseteq Event
  /\ receipts \subseteq Message /\ unread \subseteq Message
  /\ doubled \subseteq Message /\ evaluations \in [Message -> Nat]
  /\ offlines \in 0 .. MaxOffline /\ afaults \in 0 .. MaxAlertFaults
  /\ stranded \in BOOLEAN /\ orphaned \in BOOLEAN

\* However many workers evaluate a rule at the same time, it has one open
\* record at most, and none after its removal unless an evaluation was under
\* way.
AtMostOneOpen ==
  /\ \A r, s \in DOMAIN records : IsOpen(records, r) /\ IsOpen(records, s) => r = s
  /\ (\E r \in DOMAIN records : IsOpen(records, r)) => rule \/ orphaned

\* Every record that was opened, and every one an evaluation has resolved, has
\* its event, in the outbox or published; the event of its resolution is never
\* published before that of its opening.
Told(e) == e \in outbox \/ e \in published
EventsFollowRecords ==
  /\ \A r \in DOMAIN records :
       /\ Told(Triggered(r))
       /\ records[r].status = "resolved" /\ rule => Told(Resolved(r))
  /\ \A e \in published :
       e.type = "resolved" => Triggered(e.record) \in published

\* A report that is delivered again, after its worker failed at any point,
\* does not change the records again.
EvaluatedOnce == \A m \in Message \ doubled : evaluations[m] <= 1

\* A report is compared with one observed before it, never with itself or with
\* a later one, in whatever order and however often reports come.
ComparedWithEarlier ==
  \A w \in AlertWorker : Doing(w, "evaluate") => job[w].prev < job[w].msg

\* Events of reports are published in the end, though workers fail between the
\* commit and the publication.  What makes this good is the report coming back,
\* so that there are two exceptions (stranded): the evaluation that fails is of
\* a passed deadline or of a report another worker has acknowledged; or the
\* device has lost its last rule meanwhile, and the report is acknowledged
\* without a look at the outbox.
EventsArePublished == (outbox # {} /\ ~stranded) ~> (outbox = {} \/ stranded)

\* Every report is evaluated once, and against the report before it; the rule
\* has one open record at most, and every record has its events in their order.
AlertSafety ==
  /\ AlertsTypeOK /\ EvaluatedOnce /\ ComparedWithEarlier /\ AtMostOneOpen
  /\ EventsFollowRecords
=============================================================================
