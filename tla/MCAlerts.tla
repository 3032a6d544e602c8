------------------------------ MODULE MCAlerts ------------------------------
(* Instances for TLC of what follows a report: evaluations of alert rules  *)
(* and their records (AlertRecords), the deadlines of offline rules        *)
(* (OfflineAlerts), and the pages that show it all (LiveBus).  Each        *)
(* behaviour runs one of them; the others stay as they are.                *)
EXTENDS AlertRecords, OfflineAlerts, LiveBus, TLC

VARIABLE focus

allVars == <<alertVars, offlineVars, liveVars, focus>>

InitAll ==
  /\ focus \in {"records", "deadlines", "pages"}
  /\ InitAlerts /\ InitOffline /\ InitLive
  /\ focus # "pages" => ~session.single

\* Besides the constants, an offline evaluation excludes the failure of a job,
\* and a refresh that of an evaluation; a page meets three changes and failures
\* together.
NextAll ==
  \/ /\ focus = "records" /\ NextAlerts
     /\ UNCHANGED <<offlineVars, liveVars, focus>>
     /\ (offlines' > 0 => afaults' = 0)
  \/ /\ focus = "deadlines" /\ NextOffline
     /\ UNCHANGED <<alertVars, liveVars, focus>>
     /\ refreshes' + efaults' <= 1
  \/ /\ focus = "pages" /\ NextLive
     /\ UNCHANGED <<alertVars, offlineVars, focus>>
     /\ Len(changes') + Cardinality(unannounced') + broken' + misses' <= 3

\* FairAlerts, FairOffline and FairLive of the part that runs.
FairAll ==
  /\ \A w \in AlertWorker :
       /\ WF_alertVars(focus = "records" /\ Proceed(w))
       /\ WF_alertVars(focus = "records" /\ \E m \in Message : Take(w, m))
  /\ WF_offlineVars(focus = "deadlines" /\ Pass)
  /\ WF_offlineVars(focus = "deadlines" /\ wanted /\ BeginRefresh)
  /\ WF_offlineVars(focus = "deadlines" /\ FinishRefresh)
  /\ \A r \in Moment : WF_offlineVars(focus = "deadlines" /\ ReportStep(r))
  /\ \A e \in Evaluator : WF_offlineVars(focus = "deadlines" /\ DeadlineStep(e))
  /\ \A a \in Area : WF_liveVars(focus = "pages" /\ Announce(a))
  /\ WF_liveVars(focus = "pages" /\ ReaderStep)
  /\ WF_liveVars(focus = "pages" /\ SessionStep)

SpecAll == InitAll /\ [][NextAll]_allVars /\ FairAll
=============================================================================
